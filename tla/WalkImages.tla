------------------------------ MODULE WalkImages ------------------------------
(****************************************************************************)
(* WalkImages of lib/registry/repository.go: one goroutine lists the tags   *)
(* of a repository and feeds them to a pool of workers through a channel;   *)
(* each worker reads the image of a tag from the registry and sends it on   *)
(* the channel WalkImages returned.  A wait group tells the first goroutine *)
(* when to close that channel.                                              *)
(*                                                                          *)
(* The variable err is shared by the workers: "img, err = r.Image(tag)"     *)
(* writes it and the test that follows reads it, with no synchronisation.   *)
(* The test sees what the worker itself wrote, or what another worker wrote *)
(* since.                                                                   *)
(****************************************************************************)
EXTENDS Integers, Sequences, FiniteSets

CONSTANTS
    Tags,       \* the tags AllTags lists
    Workers,    \* the goroutines of the pool; 10 in the code
    TagCap,     \* capacity of ch; 10 in the code
    ImageCap,   \* capacity of images; 3 in the code
    Unreadable, \* the tags whose image may fail to be read
    NoTag

ASSUME CapacityAssumption == TagCap \in Nat /\ ImageCap \in Nat
ASSUME PoolAssumption == IsFiniteSet(Workers) /\ Workers # {} /\ NoTag \notin Tags
ASSUME UnreadableAssumption == Unreadable \subseteq Tags

\* What is sent for a tag: its image, or what r.Image returned with an error.
Items == [tag : Tags, read : BOOLEAN]

VARIABLES
    walker,     \* the first goroutine: "list", "feed", "wait" or "closed"
    todo,       \* the tags it has not fed yet
    ch,         \* the channel of tags
    chClosed,
    pc, tag,    \* each worker's next step and the tag it works on
    read,       \* whether its own r.Image succeeded
    err,        \* the shared variable: is it an error?
    wg,         \* the wait group's counter
    images,     \* the channel WalkImages returned
    imagesClosed,
    sent        \* how often an item was sent for each tag (history)

pool == <<pc, tag, read>>
vars == <<walker, todo, ch, chClosed, pool, err, wg, images, imagesClosed, sent>>

TypeOK ==
    /\ walker \in {"list", "feed", "wait", "closed"}
    /\ todo \subseteq Tags
    /\ ch \in Seq(Tags) /\ Len(ch) <= TagCap
    /\ chClosed \in BOOLEAN
    /\ pc \in [Workers -> {"idle", "range", "image", "test", "send", "done",
                           "returned"}]
    /\ tag \in [Workers -> Tags \cup {NoTag}]
    /\ read \in [Workers -> BOOLEAN]
    /\ err \in BOOLEAN
    /\ wg \in 0 .. Cardinality(Workers)
    /\ images \in Seq(Items) /\ Len(images) <= ImageCap
    /\ imagesClosed \in BOOLEAN
    /\ sent \in [Tags -> Nat]

Init ==
    /\ walker = "list"
    /\ todo = {}
    /\ ch = <<>>
    /\ chClosed = FALSE
    /\ pc = [w \in Workers |-> "idle"]
    /\ tag = [w \in Workers |-> NoTag]
    /\ read = [w \in Workers |-> TRUE]
    /\ err = FALSE
    /\ wg = 0
    /\ images = <<>>
    /\ imagesClosed = FALSE
    /\ sent = [t \in Tags |-> 0]

------------------------------------------------------------------------------
(* The goroutine that lists the tags.                                       *)

\* Mutant: the wait group counts one goroutine too few.
ListTagsOneLess ==
    /\ walker = "list"
    /\ walker' = "feed"
    /\ todo' = Tags
    /\ wg' = Cardinality(Workers) - 1
    /\ pc' = [w \in Workers |-> "range"]
    /\ UNCHANGED <<ch, chClosed, tag, read, err, images, imagesClosed, sent>>

ListTags ==
    /\ walker = "list"
    /\ walker' = "feed"
    /\ todo' = Tags
    /\ wg' = Cardinality(Workers)
    /\ pc' = [w \in Workers |-> "range"]
    /\ UNCHANGED <<ch, chClosed, tag, read, err, images, imagesClosed, sent>>

\* AllTags fails: the deferred close is all that happens.
ListFails ==
    /\ walker = "list"
    /\ walker' = "closed"
    /\ imagesClosed' = TRUE
    /\ err' = TRUE
    /\ UNCHANGED <<todo, ch, chClosed, pool, wg, images, sent>>

\* Mutant: a tag is fed more than once.
FeedAgain(t) ==
    /\ walker = "feed"
    /\ t \in todo
    /\ Len(ch) < TagCap
    /\ ch' = Append(ch, t)
    /\ UNCHANGED <<walker, todo, chClosed, pool, err, wg, images, imagesClosed, sent>>

Feed(t) ==
    /\ walker = "feed"
    /\ t \in todo
    /\ Len(ch) < TagCap
    /\ ch' = Append(ch, t)
    /\ todo' = todo \ {t}
    /\ UNCHANGED <<walker, chClosed, pool, err, wg, images, imagesClosed, sent>>

\* Mutant: ch is not closed.
CloseTagsForgotten ==
    /\ walker = "feed"
    /\ todo = {}
    /\ walker' = "wait"
    /\ UNCHANGED <<todo, ch, chClosed, pool, err, wg, images, imagesClosed, sent>>

CloseTags ==
    /\ walker = "feed"
    /\ todo = {}
    /\ chClosed' = TRUE
    /\ walker' = "wait"
    /\ UNCHANGED <<todo, ch, pool, err, wg, images, imagesClosed, sent>>

\* Mutant: nothing waits for the workers.
CloseImagesNoWait ==
    /\ walker = "wait"
    /\ walker' = "closed"
    /\ imagesClosed' = TRUE
    /\ UNCHANGED <<todo, ch, chClosed, pool, err, wg, images, sent>>

\* wg.Wait returns, and the deferred close of images runs.
CloseImages ==
    /\ walker = "wait"
    /\ wg = 0
    /\ walker' = "closed"
    /\ imagesClosed' = TRUE
    /\ UNCHANGED <<todo, ch, chClosed, pool, err, wg, images, sent>>

------------------------------------------------------------------------------
(* A worker.                                                                *)

TakeTag(w) ==
    /\ pc[w] = "range"
    /\ ch # <<>>
    /\ tag' = [tag EXCEPT ![w] = Head(ch)]
    /\ ch' = Tail(ch)
    /\ pc' = [pc EXCEPT ![w] = "image"]
    /\ UNCHANGED <<walker, todo, chClosed, read, err, wg, images, imagesClosed, sent>>

\* img, err = r.Image(tag)
Image(w) ==
    /\ pc[w] = "image"
    /\ \E success \in {TRUE} \cup (IF tag[w] \in Unreadable THEN {FALSE} ELSE {}) :
          /\ read' = [read EXCEPT ![w] = success]
          /\ err' = ~success
    /\ pc' = [pc EXCEPT ![w] = "test"]
    /\ UNCHANGED <<walker, todo, ch, chClosed, tag, wg, images, imagesClosed, sent>>

\* err != nil, with the worker's own error or the last one written
ErrorSeen(w) == {~read[w], err}

TestPasses(w) ==
    /\ pc[w] = "test"
    /\ FALSE \in ErrorSeen(w)
    /\ pc' = [pc EXCEPT ![w] = "send"]
    /\ UNCHANGED <<walker, todo, ch, chClosed, tag, read, err, wg, images,
                   imagesClosed, sent>>

\* Mutant: the worker goes on with the next tag.
TestFailsContinue(w) ==
    /\ pc[w] = "test"
    /\ TRUE \in ErrorSeen(w)
    /\ pc' = [pc EXCEPT ![w] = "range"]
    /\ tag' = [tag EXCEPT ![w] = NoTag]
    /\ UNCHANGED <<walker, todo, ch, chClosed, read, err, wg, images,
                   imagesClosed, sent>>

\* The worker returns, and not through wg.Done.
TestFails(w) ==
    /\ pc[w] = "test"
    /\ TRUE \in ErrorSeen(w)
    /\ pc' = [pc EXCEPT ![w] = "returned"]
    /\ UNCHANGED <<walker, todo, ch, chClosed, tag, read, err, wg, images,
                   imagesClosed, sent>>

\* A send on a closed channel panics: there is no such step.
Send(w) ==
    /\ pc[w] = "send"
    /\ ~imagesClosed
    /\ Len(images) < ImageCap
    /\ images' = Append(images, [tag |-> tag[w], read |-> read[w]])
    /\ sent' = [sent EXCEPT ![tag[w]] = @ + 1]
    /\ pc' = [pc EXCEPT ![w] = "range"]
    /\ tag' = [tag EXCEPT ![w] = NoTag]
    /\ UNCHANGED <<walker, todo, ch, chClosed, read, err, wg, imagesClosed>>

Done(w) ==
    /\ pc[w] = "range"
    /\ ch = <<>>
    /\ chClosed
    /\ wg' = wg - 1
    /\ pc' = [pc EXCEPT ![w] = "done"]
    /\ UNCHANGED <<walker, todo, ch, chClosed, tag, read, err, images,
                   imagesClosed, sent>>

\* The caller ranges over the returned channel.
Consume ==
    /\ images # <<>>
    /\ images' = Tail(images)
    /\ UNCHANGED <<walker, todo, ch, chClosed, pool, err, wg, imagesClosed, sent>>

------------------------------------------------------------------------------
WalkerStep ==
    ListTags \/ ListFails \/ (\E t \in Tags : Feed(t)) \/ CloseTags \/ CloseImages

WorkerStep(w) ==
    TakeTag(w) \/ Image(w) \/ TestPasses(w) \/ TestFails(w) \/ Send(w) \/ Done(w)

\* The walk is over for every goroutine that takes part in it.
Finished == imagesClosed /\ images = <<>>

Next ==
    \/ WalkerStep \/ Consume
    \/ \E w \in Workers : WorkerStep(w)
    \/ Finished /\ UNCHANGED vars

Spec == Init /\ [][Next]_vars

\* Goroutines that can run do, and the caller reads until the channel is closed.
Fairness ==
    /\ WF_vars(WalkerStep)
    /\ WF_vars(Consume)
    /\ \A w \in Workers : WF_vars(WorkerStep(w))

FairSpec == Spec /\ Fairness

------------------------------------------------------------------------------
(* Properties                                                               *)

\* Whatever fails and however the race on err goes, the reader of images gets
\* at most one item for a tag, and sees the end only after an item for each of
\* them (or when the tags could not be listed).
Stream == INSTANCE ImageStream
             WITH wanted <- {t \in Tags : sent[t] = 0}, open <- ~imagesClosed
ImplementsStream == Stream!Spec

\* A tag is in one place only: not fed yet, in ch, with one worker, or sent.
HeldBy(t) == {w \in Workers : tag[w] = t}
Queued(t) == {i \in DOMAIN ch : ch[i] = t}
OnePlace ==
    walker \in {"feed", "wait"} => \A t \in Tags :
        (IF t \in todo THEN 1 ELSE 0) + Cardinality(Queued(t))
            + Cardinality(HeldBy(t)) + sent[t] = 1

\* images is closed only when no worker can send on it any more: a send on a
\* closed channel would panic and take the whole server down.
NoSendAfterClose ==
    imagesClosed => \A w \in Workers : pc[w] \in {"idle", "returned", "done"}

\* Unless a worker returns on an error, the walk of WalkImages ends: the workers
\* drain ch, the wait group reaches zero and the reader sees images closed.
WalkEnds == [](\A w \in Workers : pc[w] # "returned") => <>Finished

------------------------------------------------------------------------------
(* What comments say, and the code does not do.                             *)

\* "WalkImages walks through all images of the repository": after one image
\* that cannot be read the channel is never closed, its reader waits for ever.
WalkAlwaysEnds == <>Finished

\* It "writes them in the given channel", the images of the repository: through
\* the race on err what was not read is written too.
OnlyImagesAreSent == \A i \in DOMAIN images : images[i].read
==============================================================================
