------------------------------ MODULE BuildIndex ------------------------------
(****************************************************************************)
(* Build of lib/index/index.go, run once when dim starts in server mode,    *)
(* with WalkRepositories of lib/registry/registry.go.  A walker pages       *)
(* through the registry's catalog; Build starts a browser for each          *)
(* repository found, which forwards the images of WalkImages; parsers turn  *)
(* them into documents; a batcher collects these and commits them to the    *)
(* index at once.  Each stage closes the channel to the next one.           *)
(*                                                                          *)
(* Of WalkImages only the promise of ImageStream is used: a browser gets    *)
(* each image at most once, and the end only after all of them or after     *)
(* none.  The images that cannot be read are never sent, and then the       *)
(* stream does not end, as WalkImages shows.                                *)
(*                                                                          *)
(* The server listens while it builds: the workers of DimIndex write to the *)
(* same index, and of them only that is kept.                               *)
(****************************************************************************)
EXTENDS Integers, Sequences, FiniteSets

CONSTANTS
    Catalog,        \* the repositories of the registry, in catalog order
    Tags,           \* the tags of each repository
    Invalid,        \* repositories whose name or client gives an error
    Suspects,       \* images that may turn out to be unreadable
    Notified,       \* images that notifications may arrive for
    ListingMayFail, \* can AllTags fail?
    BatchMayFail,   \* can the commit of the batch fail?
    Parsers,        \* goroutines that parse images; 3 in the code
    PageLen,        \* repositories read at once from the catalog; 20
    RepoCap, ImageCap, TaskCap  \* capacities of the channels; 5, 10 and 5

Repos == {Catalog[i] : i \in DOMAIN Catalog}
Valid == Repos \ Invalid
ImagesOf(r) == {r} \X Tags
Images == Repos \X Tags

ASSUME CapacityAssumption == {PageLen, RepoCap, ImageCap, TaskCap} \subseteq Nat \ {0}
ASSUME CatalogAssumption ==
    /\ Catalog \in Seq(Repos)
    /\ \A i, j \in DOMAIN Catalog : Catalog[i] = Catalog[j] => i = j
ASSUME ParsersAssumption == Parsers # {}
ASSUME SuspectsAssumption == Suspects \subseteq Images /\ Notified \subseteq Images

VARIABLES
    unreadable,     \* the images WalkImages cannot read
    walker,         \* WalkRepositories: "fetch", "page", "lastPage" or "closed"
    last,           \* how far in the catalog it is
    page,           \* the repositories of the current page still to be sent
    repositories,   \* the channel of repositories
    main,           \* Build: "browse", "waitBrowse", "waitParse" or "over"
    browser,        \* each repository's browser: none, or what it does
    wanted,         \* for each repository the images WalkImages has not sent
    images,         \* the channel of images
    parser,         \* what each parser does
    tasks,          \* the channel of documents
    batcher,        \* "none", "range" or "done"
    batch,          \* the documents of the batch
    index,          \* the documents of the index
    touched         \* the documents that workers wrote or removed so far

vars == <<unreadable, walker, last, page, repositories, main, browser, wanted, images,
          parser, tasks, batcher, batch, index, touched>>

\* A browser or a parser waits for an image, has one to send, or has returned.
None == <<"none">>
Ranging == <<"range">>
Sending(i) == <<"send", i>>
Done == <<"done">>
Steps == {None, Ranging, Done} \cup {Sending(i) : i \in Images}

\* The deferred close of the walker, the two that Build calls, the batcher's.
repositoriesClosed == walker = "closed"
imagesClosed == main \in {"waitParse", "over"}
tasksClosed == main = "over"
done == batcher = "done"

TypeOK ==
    /\ unreadable \subseteq Images
    /\ walker \in {"fetch", "page", "lastPage", "closed"}
    /\ last \in 0 .. Len(Catalog)
    /\ page \in Seq(Repos) /\ Len(page) <= PageLen
    /\ repositories \in Seq(Valid) /\ Len(repositories) <= RepoCap
    /\ main \in {"browse", "waitBrowse", "waitParse", "over"}
    /\ browser \in [Repos -> Steps]
    /\ wanted \in [Repos -> SUBSET Images]
    /\ images \in Seq(Images) /\ Len(images) <= ImageCap
    /\ parser \in [Parsers -> Steps]
    /\ tasks \in Seq(Images) /\ Len(tasks) <= TaskCap
    /\ batcher \in {"none", "range", "done"}
    /\ {batch, index, touched} \subseteq SUBSET Images

Init ==
    /\ unreadable \in SUBSET Suspects
    /\ walker = "fetch" /\ last = 0 /\ page = <<>> /\ repositories = <<>>
    /\ main = "browse"
    /\ browser = [r \in Repos |-> None] /\ wanted = [r \in Repos |-> ImagesOf(r)]
    /\ images = <<>>
    /\ parser = [p \in Parsers |-> None]
    /\ tasks = <<>>
    /\ batcher = "none" /\ batch = {} /\ index = {} /\ touched = {}

------------------------------------------------------------------------------
(* WalkRepositories.                                                        *)

beyondWalk == <<unreadable, main, browser, wanted, images, parser, tasks, batcher, batch,
                index, touched>>

\* Mutant: io.EOF ends the walk before the last page is used.
FetchPageUntilEOF ==
    /\ walker = "fetch"
    /\ \/ /\ last + PageLen <= Len(Catalog)
          /\ page' = SubSeq(Catalog, last + 1, last + PageLen) /\ walker' = "page"
       \/ last + PageLen >= Len(Catalog) /\ page' = <<>> /\ walker' = "lastPage"
    /\ UNCHANGED <<last, repositories, beyondWalk>>

\* The names after "last": a full page, or all there are with io.EOF.  The end
\* may show only as an empty page.
FetchPage ==
    /\ walker = "fetch"
    /\ \E n \in 0 .. PageLen :
          /\ last + n <= Len(Catalog)
          /\ page' = SubSeq(Catalog, last + 1, last + n)
          /\ \/ n = PageLen /\ walker' = "page"
             \/ last + n = Len(Catalog) /\ walker' = "lastPage"
    /\ UNCHANGED <<last, repositories, beyondWalk>>

\* Any error but io.EOF: the same page is asked for again, at once and for ever.
FetchFails == walker = "fetch" /\ UNCHANGED vars

\* Mutants: one repository too many in the channel; "last" is never updated, so
\* that the same page is read for ever.
RoomForOneMore(ch, cap) == Len(ch) <= cap
SendRepositoryKeepsLast ==
    /\ page # <<>>
    /\ page' = Tail(page) /\ UNCHANGED last
    /\ Head(page) \in Valid /\ Len(repositories) < RepoCap
    /\ repositories' = Append(repositories, Head(page))
    /\ UNCHANGED <<walker, beyondWalk>>

Room(ch, cap) == Len(ch) < cap

\* A repository whose name does not parse, or whose client fails, is skipped.
SendRepository ==
    /\ page # <<>>
    /\ page' = Tail(page) /\ last' = last + 1
    /\ \/ Head(page) \in Invalid /\ UNCHANGED repositories
       \/ /\ Head(page) \in Valid /\ Room(repositories, RepoCap)
          /\ repositories' = Append(repositories, Head(page))
    /\ UNCHANGED <<walker, beyondWalk>>

NextPage ==
    /\ walker \in {"page", "lastPage"}
    /\ page = <<>>
    /\ walker' = IF walker = "page" THEN "fetch" ELSE "closed"
    /\ UNCHANGED <<last, page, repositories, beyondWalk>>

------------------------------------------------------------------------------
(* Build.                                                                   *)

beyondMain == <<unreadable, walker, last, page, wanted, images, tasks, batch, index, touched>>

StartBrowser ==
    /\ main = "browse"
    /\ repositories # <<>>
    /\ repositories' = Tail(repositories)
    /\ browser' = [browser EXCEPT ![Head(repositories)] = Ranging]
    /\ UNCHANGED <<main, parser, batcher, beyondMain>>

\* Parsers and batcher start only when the whole catalog has been walked.
StartParsers ==
    /\ main = "browse"
    /\ repositories = <<>> /\ repositoriesClosed
    /\ parser' = [p \in Parsers |-> Ranging]
    /\ batcher' = "range"
    /\ main' = "waitBrowse"
    /\ UNCHANGED <<repositories, browser, beyondMain>>

\* Mutant: the browsers are not waited for.
CloseImagesNoWait ==
    /\ main = "waitBrowse"
    /\ main' = "waitParse"
    /\ UNCHANGED <<repositories, browser, parser, batcher, beyondMain>>

CloseImages ==
    /\ main = "waitBrowse"
    /\ \A r \in Repos : browser[r] \in {None, Done}
    /\ main' = "waitParse"
    /\ UNCHANGED <<repositories, browser, parser, batcher, beyondMain>>

CloseTasks ==
    /\ main = "waitParse"
    /\ \A p \in Parsers : parser[p] = Done
    /\ main' = "over"
    /\ UNCHANGED <<repositories, browser, parser, batcher, beyondMain>>

------------------------------------------------------------------------------
(* A browser: for img := range repo.WalkImages().                           *)

beyondBrowsers == <<unreadable, walker, last, page, repositories, main, parser, tasks,
                    batcher, batch, index, touched>>

Browse(r, i) ==
    /\ browser[r] = Ranging
    /\ i \in wanted[r] \ unreadable
    /\ wanted' = [wanted EXCEPT ![r] = @ \ {i}]
    /\ browser' = [browser EXCEPT ![r] = Sending(i)]
    /\ UNCHANGED <<images, beyondBrowsers>>

\* Mutant: an image that finds the channel full is dropped.
SendImageOrDrop(r, i) ==
    /\ browser[r] = Sending(i)
    /\ images' = IF Len(images) < ImageCap THEN Append(images, i) ELSE images
    /\ browser' = [browser EXCEPT ![r] = Ranging]
    /\ UNCHANGED <<wanted, beyondBrowsers>>

SendImage(r, i) ==
    /\ browser[r] = Sending(i)
    /\ Room(images, ImageCap)
    /\ images' = Append(images, i)
    /\ browser' = [browser EXCEPT ![r] = Ranging]
    /\ UNCHANGED <<wanted, beyondBrowsers>>

\* WalkImages closed its channel.
BrowserDone(r) ==
    /\ browser[r] = Ranging
    /\ wanted[r] = {} \/ (ListingMayFail /\ wanted[r] = ImagesOf(r))
    /\ browser' = [browser EXCEPT ![r] = Done]
    /\ UNCHANGED <<wanted, images, beyondBrowsers>>

------------------------------------------------------------------------------
(* Parsers and batcher.                                                     *)

beyondParsers == <<unreadable, walker, last, page, repositories, main, browser, wanted,
                   batcher, batch, index, touched>>
beyondBatcher == <<unreadable, walker, last, page, repositories, main, browser, wanted,
                   images, parser, touched>>

ParseImage(p) ==
    /\ parser[p] = Ranging
    /\ images # <<>>
    /\ images' = Tail(images)
    /\ parser' = [parser EXCEPT ![p] = Sending(Head(images))]
    /\ UNCHANGED <<tasks, beyondParsers>>

SendTask(p, i) ==
    /\ parser[p] = Sending(i)
    /\ Room(tasks, TaskCap)
    /\ tasks' = Append(tasks, i)
    /\ parser' = [parser EXCEPT ![p] = Ranging]
    /\ UNCHANGED <<images, beyondParsers>>

ParserDone(p) ==
    /\ parser[p] = Ranging
    /\ images = <<>> /\ imagesClosed
    /\ parser' = [parser EXCEPT ![p] = Done]
    /\ UNCHANGED <<images, tasks, beyondParsers>>

\* Mutant: each document is indexed at once, without a batch.
AddToIndex ==
    /\ batcher = "range" /\ tasks # <<>>
    /\ batch' = batch \cup {Head(tasks)} /\ index' = index \cup {Head(tasks)}
    /\ tasks' = Tail(tasks)
    /\ UNCHANGED <<batcher, beyondBatcher>>

AddToBatch ==
    /\ batcher = "range" /\ tasks # <<>>
    /\ batch' = batch \cup {Head(tasks)}
    /\ tasks' = Tail(tasks)
    /\ UNCHANGED <<batcher, index, beyondBatcher>>

\* An error of the commit is logged; the caller is told that all is done.
Commit ==
    /\ batcher = "range"
    /\ tasks = <<>> /\ tasksClosed
    /\ index' = index \cup batch \/ (BatchMayFail /\ UNCHANGED index)
    /\ batcher' = "done"
    /\ UNCHANGED <<tasks, batch, beyondBatcher>>

\* A worker indexes or deletes one image, whatever Build is doing.
Apply(i) ==
    /\ index' \in {index \cup {i}, index \ {i}}
    /\ touched' = touched \cup {i}
    /\ UNCHANGED <<unreadable, walker, last, page, repositories, main, browser, wanted, images,
                   parser, tasks, batcher, batch>>

------------------------------------------------------------------------------
WalkerStep == FetchPage \/ SendRepository \/ NextPage
MainStep == StartBrowser \/ StartParsers \/ CloseImages \/ CloseTasks
BrowserStep(r) == (\E i \in Images : Browse(r, i) \/ SendImage(r, i)) \/ BrowserDone(r)
ParserStep(p) == ParseImage(p) \/ (\E i \in Images : SendTask(p, i)) \/ ParserDone(p)
BatcherStep == AddToBatch \/ Commit

Next ==
    \/ WalkerStep \/ FetchFails \/ MainStep \/ BatcherStep
    \/ \E r \in Repos : BrowserStep(r)
    \/ \E p \in Parsers : ParserStep(p)
    \/ \E i \in Notified : Apply(i)
    \/ done /\ UNCHANGED vars

Spec == Init /\ [][Next]_vars

\* Goroutines that can run do, and the registry's catalog answers in the end.
Fairness ==
    /\ WF_vars(WalkerStep) /\ WF_vars(MainStep) /\ WF_vars(BatcherStep)
    /\ \A r \in Repos : WF_vars(BrowserStep(r))
    /\ \A p \in Parsers : WF_vars(ParserStep(p))

FairSpec == Spec /\ Fairness

------------------------------------------------------------------------------
(* Properties                                                               *)

\* Where an image is between WalkImages and the batch: with whom, and how often.
Places(i) ==
    {<<"wanted", r>> : r \in {s \in Repos : i \in wanted[s]}}
    \cup {<<"browser", r>> : r \in {s \in Repos : browser[s] = Sending(i)}}
    \cup {<<"images", n>> : n \in {m \in DOMAIN images : images[m] = i}}
    \cup {<<"parser", p>> : p \in {q \in Parsers : parser[q] = Sending(i)}}
    \cup {<<"tasks", n>> : n \in {m \in DOMAIN tasks : tasks[m] = i}}
    \cup (IF i \in batch THEN {<<"batch", 0>>} ELSE {})

\* No stage of Build loses an image or handles it twice, whatever the sizes of
\* the channels between browsers, parsers and batcher.
OnePlace == \A i \in Images : Cardinality(Places(i)) = 1

\* Build closes images and tasks only when no browser, no parser may still send
\* on them, which would panic and take the server down.
NoSendAfterClose ==
    /\ imagesClosed => \A r \in Repos : browser[r] \in {None, Done}
    /\ tasksClosed => \A p \in Parsers : parser[p] = Done

\* Every valid repository of the catalog is browsed, however it falls on the
\* pages of WalkRepositories, and no invalid one.
WholeCatalogBrowsed ==
    main # "browse" => {r \in Repos : browser[r] # None} = Valid

\* What Build brings comes in the one step of the batch.  As soon as a search can
\* find one image that no notification was about, it finds every such image of the
\* repositories that could be listed, and none of the other repositories; only the
\* images that workers wrote or removed meanwhile may be there or not.
AllOrNothing ==
    index \ touched # {} => \A r \in Valid :
        \/ ImagesOf(r) \ touched \subseteq index
        \/ ListingMayFail /\ ImagesOf(r) \cap index \subseteq touched

\* Build closes the channel it returned when every image of the repositories it
\* browses can be read; after one failure WalkImages leaves a browser waiting.
BuildEnds == unreadable = {} => <>done
==============================================================================
