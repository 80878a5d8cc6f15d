--------------------------- MODULE BuildIndex_proofs ---------------------------
(****************************************************************************)
(* Build loses no image and handles none twice, closes no channel that is   *)
(* still sent on, and fills the index in one step, for any catalog, any     *)
(* length of its pages, any number of parsers and any capacities.           *)
(****************************************************************************)
EXTENDS BuildIndex, DataLemmas

------------------------------------------------------------------------------
(* The types, and what each stage knows of the stage before                 *)

\* What a browser or a parser does, told apart.
LEMMA StepsDiffer ==
    ASSUME NEW i, NEW j
    PROVE  /\ None # Ranging /\ None # Done /\ Ranging # Done
           /\ Sending(i) # None /\ Sending(i) # Ranging /\ Sending(i) # Done
           /\ Sending(i) = Sending(j) => i = j
    BY DEF None, Ranging, Done, Sending

\* Build starts the parsers and the batcher together, closes images when the
\* browsers have returned, and tasks when the parsers have.
Pipeline ==
    /\ \A r \in Repos : wanted[r] \subseteq ImagesOf(r)
    /\ main = "browse" =>
          /\ batcher = "none"
          /\ \A p \in Parsers : parser[p] = None
    /\ main # "browse" =>
          /\ batcher # "none"
          /\ \A p \in Parsers : parser[p] # None
          /\ repositories = <<>> /\ walker = "closed"
    /\ NoSendAfterClose
    /\ \A p \in Parsers : parser[p] = Done => imagesClosed /\ images = <<>>
    /\ batcher # "done" => index \subseteq touched
    /\ batcher = "done" =>
          /\ tasks = <<>> /\ tasksClosed
          /\ index \subseteq touched \/ index \ touched = batch \ touched

\* The page is what follows "last" in the catalog, the last page all of it.
Paging ==
    /\ last + Len(page) <= Len(Catalog)
    /\ \A k \in 1 .. Len(page) : page[k] = Catalog[last + k]
    /\ walker \in {"fetch", "closed"} => page = <<>>
    /\ walker = "lastPage" => last + Len(page) = Len(Catalog)
    /\ walker = "closed" => last = Len(Catalog)

Shape == TypeOK /\ Pipeline /\ Paging

LEMMA InitShape == Init => Shape
<1> SUFFICES ASSUME Init PROVE Shape
    OBVIOUS
<1>1. /\ page \in Seq(Repos) /\ Len(page) <= PageLen
      /\ repositories \in Seq(Valid) /\ Len(repositories) <= RepoCap
      /\ images \in Seq(Images) /\ Len(images) <= ImageCap
      /\ tasks \in Seq(Images) /\ Len(tasks) <= TaskCap
    BY CapacityAssumption, EmptySeq DEF Init
<1>2. last \in 0 .. Len(Catalog) /\ unreadable \subseteq Images
    BY CatalogAssumption, SuspectsAssumption, LenProperties DEF Init
<1>3. /\ browser \in [Repos -> Steps] /\ parser \in [Parsers -> Steps]
      /\ wanted \in [Repos -> SUBSET Images]
    BY DEF Init, Steps, ImagesOf, Images
<1>4. TypeOK
    BY <1>1, <1>2, <1>3 DEF Init, TypeOK
<1>5. Pipeline
    BY StepsDiffer DEF Init, Pipeline, NoSendAfterClose, imagesClosed, tasksClosed
<1>6. Paging
    BY <1>2, EmptySeq DEF Init, Paging
<1> QED
    BY <1>4, <1>5, <1>6 DEF Shape

LEMMA WalkerPipeline ==
    ASSUME Pipeline, Paging, WalkerStep
    PROVE  Pipeline'
<1>1. UNCHANGED beyondWalk /\ walker # "closed"
    BY DEF WalkerStep, FetchPage, SendRepository, NextPage, Paging
<1>2. main = "browse"
    BY <1>1 DEF Pipeline
<1> QED
    BY <1>1, <1>2 DEF beyondWalk, Pipeline, NoSendAfterClose, imagesClosed, tasksClosed

LEMMA WalkerShape ==
    ASSUME Shape, WalkerStep
    PROVE  Shape'
<1> USE DEF Shape
<1>1. Pipeline' /\ UNCHANGED beyondWalk
    BY WalkerPipeline DEF WalkerStep, FetchPage, SendRepository, NextPage
<1>2. Len(Catalog) \in Nat /\ last \in Nat /\ PageLen \in Nat
    BY CatalogAssumption, CapacityAssumption, LenProperties DEF TypeOK
<1>3. CASE FetchPage
    <2>1. PICK n \in 0 .. PageLen :
              /\ last + n <= Len(Catalog)
              /\ page' = SubSeq(Catalog, last + 1, last + n)
              /\ \/ n = PageLen /\ walker' = "page"
                 \/ last + n = Len(Catalog) /\ walker' = "lastPage"
        BY <1>3 DEF FetchPage
    <2>2. /\ page' \in Seq(Repos) /\ Len(page') = n
          /\ \A k \in 1 .. n : page'[k] = Catalog[last + k]
        <3>1. /\ last + 1 \in 1 .. Len(Catalog) + 1
              /\ last + n \in last .. Len(Catalog)
            BY <1>2, <2>1
        <3> QED
            BY <1>2, <2>1, <3>1, CatalogAssumption, LenProperties, SubSeqProperties
    <2>3. last' = last
        BY <1>3 DEF FetchPage
    <2>4. Paging'
        BY <1>2, <2>1, <2>2, <2>3 DEF Paging
    <2>5. TypeOK'
        BY <1>1, <1>3, <2>1, <2>2, <2>3, <1>2 DEF TypeOK, FetchPage, beyondWalk
    <2> QED
        BY <1>1, <2>4, <2>5
<1>4. CASE SendRepository
    <2>1. /\ page \in Seq(Repos) /\ page # <<>> /\ page' = Tail(page) /\ last' = last + 1
          /\ walker' = walker
        BY <1>4 DEF SendRepository, TypeOK
    <2>2. /\ page' \in Seq(Repos) /\ Len(page') = Len(page) - 1 /\ Len(page) \in Nat
          /\ Head(page) \in Repos
          /\ \A k \in 1 .. Len(page) - 1 : page'[k] = page[k + 1]
        BY <2>1, HeadTailProperties, LenProperties
    <2>3. repositories' \in Seq(Valid) /\ Len(repositories') <= RepoCap
        <3>1. CASE UNCHANGED repositories
            BY <3>1 DEF TypeOK
        <3>2. CASE Head(page) \in Valid /\ Room(repositories, RepoCap)
                   /\ repositories' = Append(repositories, Head(page))
            <4>1. /\ repositories \in Seq(Valid) /\ Head(page) \in Valid
                  /\ Len(repositories) < RepoCap /\ RepoCap \in Nat
                BY <3>2, CapacityAssumption DEF TypeOK, Room
            <4> QED
                BY <3>2, <4>1, AppendProperties, LenProperties
        <3> QED
            BY <1>4, <3>1, <3>2 DEF SendRepository
    <2>4. Paging'
        <3>1. last' + Len(page') = last + Len(page)
            BY <1>2, <2>1, <2>2
        <3>2. \A k \in 1 .. Len(page') : page'[k] = Catalog[last' + k]
            BY <1>2, <2>1, <2>2 DEF Paging
        <3>3. walker \notin {"fetch", "closed"}
            BY <2>1 DEF Paging
        <3> QED
            BY <2>1, <3>1, <3>2, <3>3 DEF Paging
    <2>5. TypeOK'
        <3>1. last' \in 0 .. Len(Catalog) /\ Len(page') <= PageLen
            BY <1>2, <2>1, <2>2 DEF Paging, TypeOK
        <3> QED
            BY <1>1, <2>1, <2>2, <2>3, <3>1 DEF TypeOK, beyondWalk
    <2> QED
        BY <1>1, <2>4, <2>5
<1>5. CASE NextPage
    <2>1. Paging'
        BY <1>2, <1>5, EmptySeq DEF NextPage, Paging
    <2>2. TypeOK'
        BY <1>1, <1>5 DEF NextPage, TypeOK, beyondWalk
    <2> QED
        BY <1>1, <2>1, <2>2
<1> QED
    BY <1>3, <1>4, <1>5 DEF WalkerStep

LEMMA MainShape ==
    ASSUME Shape, MainStep
    PROVE  Shape'
<1> USE DEF Shape
<1>1. UNCHANGED beyondMain
    BY DEF MainStep, StartBrowser, StartParsers, CloseImages, CloseTasks
<1>2. Paging'
    BY <1>1 DEF beyondMain, Paging
<1>3. CASE StartBrowser
    <2>1. /\ repositories' \in Seq(Valid) /\ Len(repositories') <= RepoCap
          /\ Head(repositories) \in Repos
        BY <1>3, CapacityAssumption, HeadTailProperties, LenProperties
           DEF StartBrowser, TypeOK, Valid
    <2>2. TypeOK'
        BY <1>1, <1>3, <2>1 DEF TypeOK, StartBrowser, beyondMain, Steps
    <2>3. Pipeline'
        BY <1>1, <1>3 DEF StartBrowser, beyondMain, Pipeline, NoSendAfterClose,
                          imagesClosed, tasksClosed
    <2> QED
        BY <1>2, <2>2, <2>3
<1>4. CASE StartParsers
    <2>1. TypeOK'
        BY <1>1, <1>4 DEF TypeOK, StartParsers, beyondMain, Steps
    <2>2. Pipeline'
        BY <1>1, <1>4, StepsDiffer DEF StartParsers, beyondMain, Pipeline,
              NoSendAfterClose, repositoriesClosed, imagesClosed, tasksClosed
    <2> QED
        BY <1>2, <2>1, <2>2
<1>5. CASE CloseImages
    <2>1. TypeOK'
        BY <1>1, <1>5 DEF TypeOK, CloseImages, beyondMain
    <2>2. Pipeline'
        BY <1>1, <1>5 DEF CloseImages, beyondMain, Pipeline, NoSendAfterClose,
                          imagesClosed, tasksClosed
    <2> QED
        BY <1>2, <2>1, <2>2
<1>6. CASE CloseTasks
    <2>1. TypeOK'
        BY <1>1, <1>6 DEF TypeOK, CloseTasks, beyondMain
    <2>2. Pipeline'
        BY <1>1, <1>6 DEF CloseTasks, beyondMain, Pipeline, NoSendAfterClose,
                          imagesClosed, tasksClosed
    <2> QED
        BY <1>2, <2>1, <2>2
<1> QED
    BY <1>3, <1>4, <1>5, <1>6 DEF MainStep

LEMMA BrowserShape ==
    ASSUME Shape, NEW r \in Repos, BrowserStep(r)
    PROVE  Shape'
<1> USE DEF Shape
<1>1. UNCHANGED beyondBrowsers
    BY DEF BrowserStep, Browse, SendImage, BrowserDone
<1>2. Paging'
    BY <1>1 DEF beyondBrowsers, Paging
<1>3. browser[r] \notin {None, Done}
    BY StepsDiffer DEF BrowserStep, Browse, SendImage, BrowserDone
<1>4. ~imagesClosed
    BY <1>3 DEF Pipeline, NoSendAfterClose
<1>6. ASSUME NEW i \in Images, Browse(r, i)
      PROVE  Shape'
    <2>1. TypeOK'
        BY <1>1, <1>6 DEF TypeOK, Browse, beyondBrowsers, Steps
    <2>2. Pipeline'
        BY <1>1, <1>4, <1>6 DEF Browse, beyondBrowsers, Pipeline, NoSendAfterClose,
                          imagesClosed, tasksClosed, TypeOK
    <2> QED
        BY <1>2, <2>1, <2>2
<1>7. ASSUME NEW i \in Images, SendImage(r, i)
      PROVE  Shape'
    <2>1. images' \in Seq(Images) /\ Len(images') <= ImageCap
        BY <1>7, CapacityAssumption, AppendProperties, LenProperties
           DEF SendImage, Room, TypeOK
    <2>2. TypeOK'
        BY <1>1, <1>7, <2>1 DEF TypeOK, SendImage, beyondBrowsers, Steps
    <2>3. Pipeline'
        BY <1>1, <1>4, <1>7 DEF SendImage, beyondBrowsers, Pipeline, NoSendAfterClose,
                          imagesClosed, tasksClosed, TypeOK
    <2> QED
        BY <1>2, <2>2, <2>3
<1>8. CASE BrowserDone(r)
    <2>1. TypeOK'
        BY <1>1, <1>8 DEF TypeOK, BrowserDone, beyondBrowsers, Steps
    <2>2. Pipeline'
        BY <1>1, <1>4, <1>8 DEF BrowserDone, beyondBrowsers, Pipeline, NoSendAfterClose,
                          imagesClosed, tasksClosed, TypeOK
    <2> QED
        BY <1>2, <2>1, <2>2
<1> QED
    BY <1>6, <1>7, <1>8 DEF BrowserStep

LEMMA ParserShape ==
    ASSUME Shape, NEW p \in Parsers, ParserStep(p)
    PROVE  Shape'
<1> USE DEF Shape
<1>1. UNCHANGED beyondParsers
    BY DEF ParserStep, ParseImage, SendTask, ParserDone
<1>2. Paging'
    BY <1>1 DEF beyondParsers, Paging
<1>3. parser[p] \notin {None, Done}
    BY StepsDiffer DEF ParserStep, ParseImage, SendTask, ParserDone
<1>4. main # "browse" /\ ~tasksClosed /\ batcher # "done"
    BY <1>3 DEF Pipeline, NoSendAfterClose
<1>5. CASE ParseImage(p)
    <2>1. /\ Head(images) \in Images
          /\ images' \in Seq(Images) /\ Len(images') <= ImageCap
        BY <1>5, CapacityAssumption, HeadTailProperties, LenProperties
           DEF ParseImage, TypeOK
    <2>2. TypeOK'
        BY <1>1, <1>5, <2>1 DEF TypeOK, ParseImage, beyondParsers, Steps
    <2>3. \A q \in Parsers : parser'[q] # None /\ parser'[q] # Done
        BY <1>4, <1>5, StepsDiffer DEF ParseImage, Pipeline, TypeOK
    <2>4. Pipeline'
        BY <1>1, <1>4, <1>5, <2>3 DEF ParseImage, beyondParsers, Pipeline, NoSendAfterClose,
              imagesClosed, tasksClosed
    <2> QED
        BY <1>2, <2>2, <2>4
<1>6. ASSUME NEW i \in Images, SendTask(p, i)
      PROVE  Shape'
    <2>1. tasks' \in Seq(Images) /\ Len(tasks') <= TaskCap
        BY <1>6, CapacityAssumption, AppendProperties, LenProperties
           DEF SendTask, Room, TypeOK
    <2>2. TypeOK'
        BY <1>1, <1>6, <2>1 DEF TypeOK, SendTask, beyondParsers, Steps
    <2>3. /\ \A q \in Parsers : parser'[q] # None
          /\ \A q \in Parsers : parser'[q] = Done => parser[q] = Done
        BY <1>4, <1>6, StepsDiffer DEF SendTask, Pipeline, TypeOK
    <2>4. Pipeline'
        BY <1>1, <1>4, <1>6, <2>3 DEF SendTask, beyondParsers, Pipeline, NoSendAfterClose,
              imagesClosed, tasksClosed
    <2> QED
        BY <1>2, <2>2, <2>4
<1>7. CASE ParserDone(p)
    <2>1. TypeOK'
        BY <1>1, <1>7 DEF TypeOK, ParserDone, beyondParsers, Steps
    <2>2. \A q \in Parsers : parser'[q] # None
        BY <1>4, <1>7, StepsDiffer DEF ParserDone, Pipeline, TypeOK
    <2>3. Pipeline'
        BY <1>1, <1>4, <1>7, <2>2 DEF ParserDone, beyondParsers, Pipeline, NoSendAfterClose,
              imagesClosed, tasksClosed
    <2> QED
        BY <1>2, <2>1, <2>3
<1> QED
    BY <1>5, <1>6, <1>7 DEF ParserStep

LEMMA BatcherShape ==
    ASSUME Shape, BatcherStep
    PROVE  Shape'
<1> USE DEF Shape
<1>1. UNCHANGED beyondBatcher
    BY DEF BatcherStep, AddToBatch, Commit
<1>2. Paging'
    BY <1>1 DEF beyondBatcher, Paging
<1>3. CASE AddToBatch
    <2>1. /\ Head(tasks) \in Images
          /\ tasks' \in Seq(Images) /\ Len(tasks') <= TaskCap
        BY <1>3, CapacityAssumption, HeadTailProperties, LenProperties
           DEF AddToBatch, TypeOK
    <2>2. TypeOK'
        BY <1>1, <1>3, <2>1 DEF TypeOK, AddToBatch, beyondBatcher
    <2>3. Pipeline'
        BY <1>1, <1>3 DEF AddToBatch, beyondBatcher, Pipeline, NoSendAfterClose,
              imagesClosed, tasksClosed
    <2> QED
        BY <1>2, <2>2, <2>3
<1>4. CASE Commit
    <2>1. /\ index' \in {index \cup batch, index} /\ batcher' = "done"
          /\ index \subseteq touched
          /\ UNCHANGED <<batch, tasks, touched>>
        BY <1>4 DEF Commit, Pipeline, beyondBatcher
    <2>2. TypeOK'
        BY <1>1, <1>4, <2>1 DEF TypeOK, Commit, beyondBatcher
    <2>3. index' \subseteq touched' \/ index' \ touched' = batch' \ touched'
        BY <2>1
    <2>4. Pipeline'
        BY <1>1, <1>4, <2>1, <2>3 DEF Commit, beyondBatcher, Pipeline, NoSendAfterClose,
              imagesClosed, tasksClosed
    <2> QED
        BY <1>2, <2>2, <2>4
<1> QED
    BY <1>3, <1>4 DEF BatcherStep

LEMMA ApplyShape ==
    ASSUME Shape, NEW i \in Notified, Apply(i)
    PROVE  Shape'
<1> USE DEF Shape
<1>1. /\ index' \in {index \cup {i}, index \ {i}} /\ touched' = touched \cup {i}
      /\ UNCHANGED <<unreadable, walker, last, page, repositories, main, browser, wanted,
                     images, parser, tasks, batcher, batch>>
    BY DEF Apply
<1>2. TypeOK'
    BY <1>1, SuspectsAssumption DEF TypeOK
<1>3. Paging'
    BY <1>1 DEF Paging
<1>4. /\ index \subseteq touched => index' \subseteq touched'
      /\ index \ touched = batch \ touched => index' \ touched' = batch' \ touched'
    BY <1>1
<1>5. Pipeline'
    BY <1>1, <1>4 DEF Pipeline, NoSendAfterClose, imagesClosed, tasksClosed
<1> QED
    BY <1>2, <1>3, <1>5

LEMMA NextShape ==
    ASSUME Shape, [Next]_vars
    PROVE  Shape'
<1>1. CASE UNCHANGED vars
    BY <1>1 DEF vars, Shape, TypeOK, Pipeline, Paging, NoSendAfterClose, imagesClosed,
                tasksClosed
<1>2. CASE FetchFails
    BY <1>1, <1>2 DEF FetchFails
<1> QED
    BY <1>1, <1>2, WalkerShape, MainShape, BrowserShape, ParserShape, BatcherShape, ApplyShape
       DEF Next

LEMMA ShapeHolds == Spec => []Shape
    BY InitShape, NextShape, PTL DEF Spec

\* Every variable of Build and WalkRepositories keeps its type; the four channels
\* stay within their capacities.
THEOREM BuildTypeCorrect == Spec => []TypeOK
    BY ShapeHolds, PTL DEF Shape

\* Build closes images and tasks only when no goroutine can send on them any
\* more: it waits for the browsers first and for the parsers then, and the ones
\* it waits for were all started before.
THEOREM NothingSentAfterClose == Spec => []NoSendAfterClose
    BY ShapeHolds, PTL DEF Shape, Pipeline

------------------------------------------------------------------------------
(* The whole catalog                                                        *)

Started == {r \in Repos : browser[r] # None}
Queued == {r \in Repos : Positions(repositories, r) # {}}

\* The valid ones of the first n repositories of the catalog.
ValidUpTo(n) == {r \in Valid : \E k \in 1 .. n : Catalog[k] = r}

\* What the walker has passed is in the channel, once, or has its browser.
Browsing ==
    /\ Started \cup Queued = ValidUpTo(last)
    /\ \A r \in Queued : browser[r] = None
    /\ \A j, k \in DOMAIN repositories : repositories[j] = repositories[k] => j = k

LEMMA CatalogIsValid == ValidUpTo(Len(Catalog)) = Valid
<1>1. DOMAIN Catalog = 1 .. Len(Catalog)
    BY CatalogAssumption, LenProperties
<1> QED
    BY <1>1 DEF ValidUpTo, Valid, Repos

LEMMA InitBrowsing == Init => Browsing
<1> SUFFICES ASSUME Init PROVE Browsing
    OBVIOUS
<1>1. repositories = <<>> /\ last = 0 /\ \A r \in Repos : browser[r] = None
    BY DEF Init
<1>2. DOMAIN repositories = {}
    BY <1>1
<1>3. Started = {} /\ Queued = {} /\ ValidUpTo(0) = {}
    BY <1>1, <1>2 DEF Started, Queued, Positions, ValidUpTo
<1> QED
    BY <1>1, <1>2, <1>3 DEF Browsing

LEMMA SendBrowsing ==
    ASSUME Shape, Browsing, SendRepository
    PROVE  Browsing'
<1> DEFINE next == Head(page)
<1>1. /\ last \in Nat /\ Len(Catalog) \in Nat /\ last' = last + 1
      /\ next = Catalog[last + 1] /\ last + 1 \in DOMAIN Catalog /\ next \in Repos
      /\ DOMAIN Catalog = 1 .. Len(Catalog)
      /\ UNCHANGED browser
    <2>1. page \in Seq(Repos) /\ page # <<>> /\ last' = last + 1 /\ UNCHANGED browser
        BY DEF SendRepository, beyondWalk, Shape, TypeOK
    <2>2. Len(page) \in Nat \ {0} /\ Head(page) = page[1] /\ Head(page) \in Repos
        BY <2>1, HeadTailProperties, LenProperties
    <2>3. DOMAIN Catalog = 1 .. Len(Catalog) /\ Len(Catalog) \in Nat
        BY CatalogAssumption, LenProperties
    <2>4. /\ last \in 0 .. Len(Catalog) /\ last + Len(page) <= Len(Catalog)
          /\ \A k \in 1 .. Len(page) : page[k] = Catalog[last + k]
        BY DEF Shape, TypeOK, Paging
    <2>5. 1 \in 1 .. Len(page) /\ last + 1 \in 1 .. Len(Catalog)
        BY <2>2, <2>3, <2>4
    <2> QED
        BY <2>1, <2>2, <2>3, <2>4, <2>5
<1>2. ASSUME NEW r \in Repos
      PROVE  r \in ValidUpTo(last + 1) <=> r \in ValidUpTo(last) \/ (r = next /\ next \in Valid)
    BY <1>1 DEF ValidUpTo
<1>3. next \notin ValidUpTo(last)
    BY <1>1, CatalogAssumption DEF ValidUpTo
<1>4. next \notin Queued /\ browser[next] = None
    BY <1>1, <1>3 DEF Browsing, Started
<1>5. CASE next \in Invalid /\ UNCHANGED repositories
    <2>1. ValidUpTo(last') = ValidUpTo(last)
        BY <1>1, <1>2, <1>5 DEF Valid, ValidUpTo
    <2> QED
        BY <1>1, <1>5, <2>1 DEF Browsing, Started, Queued
<1>6. CASE next \in Valid /\ repositories' = Append(repositories, next)
    <2>1. repositories \in Seq(Valid)
        BY DEF Shape, TypeOK
    <2>2. \A r : Positions(repositories', r) =
             Positions(repositories, r) \cup (IF next = r THEN {Len(repositories) + 1} ELSE {})
        BY <1>6, <2>1, PositionsAppend
    <2>3. Queued' = Queued \cup {next}
        BY <1>1, <2>2 DEF Queued
    <2>4. Started' = Started
        BY <1>1 DEF Started
    <2>5. (Started \cup Queued)' = ValidUpTo(last')
        <3>1. \A r \in ValidUpTo(last + 1) : r \in Repos
            BY DEF ValidUpTo, Valid
        <3>2. \A r \in Started \cup Queued : r \in Repos
            BY DEF Started, Queued
        <3> QED
            BY <1>1, <1>2, <1>6, <2>3, <2>4, <3>1, <3>2 DEF Browsing
    <2>6. \A r \in Queued' : browser'[r] = None
        BY <1>1, <1>4, <2>3 DEF Browsing
    <2>7. \A j, k \in DOMAIN repositories' : repositories'[j] = repositories'[k] => j = k
        <3>1. /\ DOMAIN repositories = 1 .. Len(repositories) /\ Len(repositories) \in Nat
              /\ DOMAIN repositories' = 1 .. Len(repositories) + 1
              /\ \A k \in DOMAIN repositories : repositories'[k] = repositories[k]
              /\ repositories'[Len(repositories) + 1] = next
            BY <1>6, <2>1, AppendProperties, LenProperties
        <3>2. \A k \in DOMAIN repositories : repositories[k] # next
            BY <1>1, <1>4 DEF Queued, Positions
        <3> QED
            BY <3>1, <3>2 DEF Browsing
    <2> QED
        BY <2>5, <2>6, <2>7 DEF Browsing
<1> QED
    BY <1>5, <1>6 DEF SendRepository

LEMMA StartBrowsing ==
    ASSUME Shape, Browsing, StartBrowser
    PROVE  Browsing'
<1> DEFINE first == Head(repositories)
<1>1. /\ repositories' = Tail(repositories) /\ last' = last
      /\ browser' = [browser EXCEPT ![first] = Ranging]
      /\ repositories \in Seq(Valid) /\ repositories # <<>>
      /\ browser \in [Repos -> Steps]
    BY DEF StartBrowser, beyondMain, Shape, TypeOK
<1>2. /\ DOMAIN repositories = 1 .. Len(repositories) /\ Len(repositories) \in Nat \ {0}
      /\ DOMAIN repositories' = 1 .. Len(repositories) - 1
      /\ \A k \in DOMAIN repositories' : repositories'[k] = repositories[k + 1]
      /\ first = repositories[1] /\ first \in Repos
    BY <1>1, HeadTailProperties, LenProperties DEF Valid
<1>3. \A k \in DOMAIN repositories' : repositories'[k] # first
    BY <1>2 DEF Browsing
<1>4. \A r \in Repos : r \in Queued' <=> r \in Queued /\ r # first
    <2>1. \A r \in Repos : r \in Queued' => r \in Queued /\ r # first
        BY <1>2, <1>3 DEF Queued, Positions
    <2>2. ASSUME NEW r \in Repos, r \in Queued, r # first
          PROVE  r \in Queued'
        <3>1. PICK k \in DOMAIN repositories : repositories[k] = r
            BY <2>2 DEF Queued, Positions
        <3>2. k - 1 \in DOMAIN repositories' /\ repositories'[k - 1] = r
            BY <1>2, <2>2, <3>1
        <3> QED
            BY <3>2 DEF Queued, Positions
    <2> QED
        BY <2>1, <2>2
<1>5. first \in Queued
    BY <1>2 DEF Queued, Positions
<1>6. Started' = Started \cup {first}
    BY <1>1, <1>2, StepsDiffer DEF Started
<1>7. (Started \cup Queued)' = ValidUpTo(last')
    <2>1. Started' \cup Queued' = Started \cup Queued
        BY <1>4, <1>5, <1>6 DEF Queued
    <2> QED
        BY <1>1, <2>1 DEF Browsing, ValidUpTo
<1>8. \A r \in Queued' : browser'[r] = None
    BY <1>1, <1>4 DEF Browsing, Queued
<1>9. \A j, k \in DOMAIN repositories' : repositories'[j] = repositories'[k] => j = k
    BY <1>2 DEF Browsing
<1> QED
    BY <1>7, <1>8, <1>9 DEF Browsing

LEMMA NextBrowsing ==
    ASSUME Shape, Browsing, [Next]_vars
    PROVE  Browsing'
<1>1. CASE UNCHANGED <<last, repositories, browser>>
    BY <1>1 DEF Browsing, Started, Queued, ValidUpTo
<1>2. ASSUME NEW r \in Repos, BrowserStep(r)
      PROVE  Browsing'
    <2>1. UNCHANGED <<last, repositories>>
        BY <1>2 DEF BrowserStep, Browse, SendImage, BrowserDone, beyondBrowsers
    <2>2. \A s \in Repos : browser'[s] = None <=> browser[s] = None
        BY <1>2, StepsDiffer DEF BrowserStep, Browse, SendImage, BrowserDone, Shape, TypeOK
    <2>3. Started' = Started /\ Queued' = Queued
        BY <2>1, <2>2 DEF Started, Queued
    <2> QED
        BY <2>1, <2>2, <2>3 DEF Browsing, ValidUpTo, Queued
<1>3. CASE FetchPage \/ NextPage \/ FetchFails
    BY <1>1, <1>3 DEF FetchPage, NextPage, FetchFails, beyondWalk, vars
<1>4. CASE StartParsers \/ CloseImages \/ CloseTasks
    BY <1>1, <1>4 DEF StartParsers, CloseImages, CloseTasks, beyondMain
<1>5. ASSUME NEW p \in Parsers, ParserStep(p)
      PROVE  Browsing'
    BY <1>1, <1>5 DEF ParserStep, ParseImage, SendTask, ParserDone, beyondParsers
<1>6. CASE BatcherStep
    BY <1>1, <1>6 DEF BatcherStep, AddToBatch, Commit, beyondBatcher
<1>7. CASE UNCHANGED vars
    BY <1>1, <1>7 DEF vars
<1>8. ASSUME NEW i \in Notified, Apply(i)
      PROVE  Browsing'
    BY <1>1, <1>8 DEF Apply
<1> QED
    BY <1>2, <1>3, <1>4, <1>5, <1>6, <1>7, <1>8, SendBrowsing, StartBrowsing
       DEF Next, WalkerStep, MainStep

\* Build browses exactly the valid repositories of the catalog before it starts
\* the parsers, for every catalog and every length of the pages: WalkRepositories
\* neither skips nor repeats what lies around the end of a page.
THEOREM CatalogIsBrowsed == Spec => []WholeCatalogBrowsed
<1>1. Shape /\ Browsing => WholeCatalogBrowsed
    <2> SUFFICES ASSUME Shape, Browsing, main # "browse" PROVE Started = Valid
        BY DEF WholeCatalogBrowsed, Started
    <2>1. repositories = <<>> /\ last = Len(Catalog)
        BY DEF Shape, Pipeline, Paging
    <2>2. Queued = {}
        BY <2>1, EmptySeq DEF Queued, Positions
    <2> QED
        BY <2>1, <2>2, CatalogIsValid DEF Browsing
<1>2. Spec => []Browsing
    BY ShapeHolds, InitBrowsing, NextBrowsing, PTL DEF Spec
<1> QED
    BY <1>1, <1>2, ShapeHolds, PTL

------------------------------------------------------------------------------
(* One place for each image                                                 *)

WantedBy(i) == {r \in Repos : i \in wanted[r]}
BrowsedBy(i) == {r \in Repos : browser[r] = Sending(i)}
ParsedBy(i) == {p \in Parsers : parser[p] = Sending(i)}

Here(i, repos, browsers, queued, parsers, documents, batched) ==
    /\ WantedBy(i) = repos
    /\ BrowsedBy(i) = browsers
    /\ Positions(images, i) = queued
    /\ ParsedBy(i) = parsers
    /\ Positions(tasks, i) = documents
    /\ (i \in batch) = batched

\* The six places of an image.
Wanted(i) == \E r \in Repos : Here(i, {r}, {}, {}, {}, {}, FALSE)
Browsed(i) == \E r \in Repos : Here(i, {}, {r}, {}, {}, {}, FALSE)
InImages(i) == \E n : Here(i, {}, {}, {n}, {}, {}, FALSE)
Parsed(i) == \E p \in Parsers : Here(i, {}, {}, {}, {p}, {}, FALSE)
InTasks(i) == \E n : Here(i, {}, {}, {}, {}, {n}, FALSE)
Batched(i) == Here(i, {}, {}, {}, {}, {}, TRUE)

Placed(i) ==
    Wanted(i) \/ Browsed(i) \/ InImages(i) \/ Parsed(i) \/ InTasks(i) \/ Batched(i)

\* A browser returns when its repository is read, or could not be listed.
Listed ==
    \A r \in Repos : browser[r] = Done =>
        wanted[r] = {} \/ (ListingMayFail /\ wanted[r] = ImagesOf(r))

Placement == Listed /\ \A i \in Images : Placed(i)

LEMMA PlacedFrame ==
    ASSUME NEW i, Placed(i),
           WantedBy(i)' = WantedBy(i), BrowsedBy(i)' = BrowsedBy(i),
           Positions(images', i) = Positions(images, i), ParsedBy(i)' = ParsedBy(i),
           Positions(tasks', i) = Positions(tasks, i), (i \in batch') = (i \in batch)
    PROVE  Placed(i)'
    BY DEF Placed, Wanted, Browsed, InImages, Parsed, InTasks, Batched, Here

LEMMA InitPlacement == Init => Placement
<1> SUFFICES ASSUME Init PROVE Placement
    OBVIOUS
<1>1. Listed
    BY StepsDiffer DEF Init, Listed
<1>2. ASSUME NEW i \in Images PROVE Placed(i)
    <2>1. PICK r \in Repos, t \in Tags : i = <<r, t>>
        BY DEF Images
    <2>2. WantedBy(i) = {r}
        BY <2>1 DEF Init, WantedBy, ImagesOf
    <2>3. BrowsedBy(i) = {} /\ ParsedBy(i) = {} /\ i \notin batch
        BY StepsDiffer DEF Init, BrowsedBy, ParsedBy
    <2>4. Positions(images, i) = {} /\ Positions(tasks, i) = {}
        BY EmptySeq DEF Init, Positions
    <2> QED
        BY <2>2, <2>3, <2>4 DEF Placed, Wanted, Here
<1> QED
    BY <1>1, <1>2 DEF Placement

LEMMA BrowsePlacement ==
    ASSUME Shape, Placement, NEW r \in Repos, NEW j \in Images, Browse(r, j)
    PROVE  Placement'
<1>1. /\ browser[r] = Ranging /\ j \in wanted[r]
      /\ wanted' = [wanted EXCEPT ![r] = @ \ {j}]
      /\ browser' = [browser EXCEPT ![r] = Sending(j)]
      /\ wanted \in [Repos -> SUBSET Images] /\ browser \in [Repos -> Steps]
      /\ UNCHANGED <<images, parser, tasks, batch>>
    BY DEF Browse, beyondBrowsers, Shape, TypeOK
<1>2. Listed'
    BY <1>1, StepsDiffer DEF Placement, Listed
<1>3. \A i : ParsedBy(i)' = ParsedBy(i)
    BY <1>1 DEF ParsedBy
<1>4. ASSUME NEW i \in Images, i # j
      PROVE  Placed(i)'
    <2>1. WantedBy(i)' = WantedBy(i)
        BY <1>1, <1>4 DEF WantedBy
    <2>2. BrowsedBy(i)' = BrowsedBy(i)
        BY <1>1, <1>4, StepsDiffer DEF BrowsedBy
    <2> QED
        BY <1>1, <1>3, <2>1, <2>2, PlacedFrame DEF Placement
<1>5. Placed(j)'
    <2>1. r \in WantedBy(j)
        BY <1>1 DEF WantedBy
    <2>2. Here(j, {r}, {}, {}, {}, {}, FALSE)
        BY <2>1 DEF Placement, Placed, Wanted, Browsed, InImages, Parsed, InTasks,
                    Batched, Here
    <2>3. WantedBy(j)' = {}
        BY <1>1, <2>2 DEF Here, WantedBy
    <2>4. BrowsedBy(j)' = {r}
        BY <1>1, <2>2, StepsDiffer DEF Here, BrowsedBy
    <2>5. Here(j, {}, {r}, {}, {}, {}, FALSE)'
        BY <1>1, <1>3, <2>2, <2>3, <2>4 DEF Here
    <2> QED
        BY <2>5 DEF Placed, Browsed
<1> QED
    BY <1>2, <1>4, <1>5 DEF Placement

LEMMA SendPlacement ==
    ASSUME Shape, Placement, NEW r \in Repos, NEW j \in Images, SendImage(r, j)
    PROVE  Placement'
<1>1. /\ browser[r] = Sending(j) /\ images' = Append(images, j)
      /\ browser' = [browser EXCEPT ![r] = Ranging]
      /\ images \in Seq(Images) /\ browser \in [Repos -> Steps]
      /\ UNCHANGED <<wanted, parser, tasks, batch>>
    BY DEF SendImage, beyondBrowsers, Shape, TypeOK
<1>2. Listed'
    BY <1>1, StepsDiffer DEF Placement, Listed
<1>3. \A i : ParsedBy(i)' = ParsedBy(i) /\ WantedBy(i)' = WantedBy(i)
    BY <1>1 DEF ParsedBy, WantedBy
<1>4. \A i : Positions(images', i) =
         Positions(images, i) \cup (IF j = i THEN {Len(images) + 1} ELSE {})
    BY <1>1, PositionsAppend
<1>5. ASSUME NEW i \in Images, i # j
      PROVE  Placed(i)'
    <2>1. BrowsedBy(i)' = BrowsedBy(i)
        BY <1>1, <1>5, StepsDiffer DEF BrowsedBy
    <2>2. Positions(images', i) = Positions(images, i)
        BY <1>4, <1>5
    <2> QED
        BY <1>1, <1>3, <1>5, <2>1, <2>2, PlacedFrame DEF Placement
<1>6. Placed(j)'
    <2>1. r \in BrowsedBy(j)
        BY <1>1 DEF BrowsedBy
    <2>2. Here(j, {}, {r}, {}, {}, {}, FALSE)
        BY <2>1 DEF Placement, Placed, Wanted, Browsed, InImages, Parsed, InTasks,
                    Batched, Here
    <2>3. BrowsedBy(j)' = {}
        BY <1>1, <2>2, StepsDiffer DEF Here, BrowsedBy
    <2>4. Positions(images', j) = {Len(images) + 1}
        BY <1>4, <2>2 DEF Here
    <2> PICK m : m = Len(images) + 1
        OBVIOUS
    <2>5. Here(j, {}, {}, {m}, {}, {}, FALSE)'
        BY <1>1, <1>3, <2>2, <2>3, <2>4 DEF Here
    <2>6. \E n : Here(j, {}, {}, {n}, {}, {}, FALSE)'
        BY <2>5
    <2> QED
        BY <2>6 DEF Placed, InImages
<1> QED
    BY <1>2, <1>5, <1>6 DEF Placement

LEMMA ParsePlacement ==
    ASSUME Shape, Placement, NEW p \in Parsers, ParseImage(p)
    PROVE  Placement'
<1> PICK j : j = Head(images)
    OBVIOUS
<1>1. /\ parser[p] = Ranging /\ images # <<>> /\ images' = Tail(images)
      /\ parser' = [parser EXCEPT ![p] = Sending(j)]
      /\ images \in Seq(Images) /\ parser \in [Parsers -> Steps]
      /\ UNCHANGED <<wanted, browser, tasks, batch>>
    BY DEF ParseImage, beyondParsers, Shape, TypeOK
<1>2. Listed'
    BY <1>1 DEF Placement, Listed
<1>3. \A i : BrowsedBy(i)' = BrowsedBy(i) /\ WantedBy(i)' = WantedBy(i)
    BY <1>1 DEF BrowsedBy, WantedBy
<1>4. ASSUME NEW i \in Images, i # j
      PROVE  Placed(i)'
    <2>1. ParsedBy(i)' = ParsedBy(i)
        BY <1>1, <1>4, StepsDiffer DEF ParsedBy
    <2>2. CASE Positions(images, i) = {}
        <3>1. Positions(images', i) = Positions(images, i)
            BY <1>1, <2>2, PositionsTail
        <3> QED
            BY <1>1, <1>3, <1>4, <2>1, <3>1, PlacedFrame DEF Placement
    <2>3. CASE InImages(i)
        <3>1. PICK n : Here(i, {}, {}, {n}, {}, {}, FALSE)
            BY <2>3 DEF InImages
        <3>2. Positions(images', i) = {n - 1}
            BY <1>1, <1>4, <3>1, PositionsTail DEF Here
        <3>3. Here(i, {}, {}, {n - 1}, {}, {}, FALSE)'
            BY <1>1, <1>3, <2>1, <3>1, <3>2 DEF Here
        <3>4. \E m : Here(i, {}, {}, {m}, {}, {}, FALSE)'
            BY <3>3
        <3> QED
            BY <3>4 DEF Placed, InImages
    <2> QED
        BY <1>4, <2>2, <2>3 DEF Placement, Placed, Wanted, Browsed, Parsed, InTasks,
                                Batched, Here
<1>5. j \in Images /\ Positions(images, j) # {}
    BY <1>1, HeadTailProperties, PositionsTail
<1>6. Placed(j)'
    <2>1. j \in Images /\ Positions(images, j) # {}
        BY <1>5
    <2>2. PICK n : Here(j, {}, {}, {n}, {}, {}, FALSE)
        BY <2>1 DEF Placement, Placed, Wanted, Browsed, InImages, Parsed, InTasks,
                    Batched, Here
    <2>3. Positions(images', j) = {}
        BY <1>1, <2>2, PositionsTail DEF Here
    <2>4. ParsedBy(j)' = {p}
        BY <1>1, <2>2, StepsDiffer DEF Here, ParsedBy
    <2>5. Here(j, {}, {}, {}, {p}, {}, FALSE)'
        BY <1>1, <1>3, <2>2, <2>3, <2>4 DEF Here
    <2> QED
        BY <2>5 DEF Placed, Parsed
<1> QED
    BY <1>2, <1>4, <1>5, <1>6 DEF Placement

LEMMA TaskPlacement ==
    ASSUME Shape, Placement, NEW p \in Parsers, NEW j \in Images, SendTask(p, j)
    PROVE  Placement'
<1>1. /\ parser[p] = Sending(j) /\ tasks' = Append(tasks, j)
      /\ parser' = [parser EXCEPT ![p] = Ranging]
      /\ tasks \in Seq(Images) /\ parser \in [Parsers -> Steps]
      /\ UNCHANGED <<wanted, browser, images, batch>>
    BY DEF SendTask, beyondParsers, Shape, TypeOK
<1>2. Listed'
    BY <1>1 DEF Placement, Listed
<1>3. \A i : BrowsedBy(i)' = BrowsedBy(i) /\ WantedBy(i)' = WantedBy(i)
    BY <1>1 DEF BrowsedBy, WantedBy
<1>4. \A i : Positions(tasks', i) =
         Positions(tasks, i) \cup (IF j = i THEN {Len(tasks) + 1} ELSE {})
    BY <1>1, PositionsAppend
<1>5. ASSUME NEW i \in Images, i # j
      PROVE  Placed(i)'
    <2>1. ParsedBy(i)' = ParsedBy(i)
        BY <1>1, <1>5, StepsDiffer DEF ParsedBy
    <2>2. Positions(tasks', i) = Positions(tasks, i)
        BY <1>4, <1>5
    <2> QED
        BY <1>1, <1>3, <1>5, <2>1, <2>2, PlacedFrame DEF Placement
<1>6. Placed(j)'
    <2>1. p \in ParsedBy(j)
        BY <1>1 DEF ParsedBy
    <2>2. Here(j, {}, {}, {}, {p}, {}, FALSE)
        BY <2>1 DEF Placement, Placed, Wanted, Browsed, InImages, Parsed, InTasks,
                    Batched, Here
    <2>3. ParsedBy(j)' = {}
        BY <1>1, <2>2, StepsDiffer DEF Here, ParsedBy
    <2>4. Positions(tasks', j) = {Len(tasks) + 1}
        BY <1>4, <2>2 DEF Here
    <2> PICK m : m = Len(tasks) + 1
        OBVIOUS
    <2>5. Here(j, {}, {}, {}, {}, {m}, FALSE)'
        BY <1>1, <1>3, <2>2, <2>3, <2>4 DEF Here
    <2>6. \E n : Here(j, {}, {}, {}, {}, {n}, FALSE)'
        BY <2>5
    <2> QED
        BY <2>6 DEF Placed, InTasks
<1> QED
    BY <1>2, <1>5, <1>6 DEF Placement

LEMMA BatchPlacement ==
    ASSUME Shape, Placement, AddToBatch
    PROVE  Placement'
<1> PICK j : j = Head(tasks)
    OBVIOUS
<1>1. /\ tasks # <<>> /\ tasks' = Tail(tasks) /\ batch' = batch \cup {j}
      /\ tasks \in Seq(Images)
      /\ UNCHANGED <<wanted, browser, images, parser>>
    BY DEF AddToBatch, beyondBatcher, Shape, TypeOK
<1>2. Listed'
    BY <1>1 DEF Placement, Listed
<1>3. \A i : /\ BrowsedBy(i)' = BrowsedBy(i) /\ WantedBy(i)' = WantedBy(i)
             /\ ParsedBy(i)' = ParsedBy(i)
    BY <1>1 DEF BrowsedBy, WantedBy, ParsedBy
<1>4. ASSUME NEW i \in Images, i # j
      PROVE  Placed(i)'
    <2>1. (i \in batch') = (i \in batch)
        BY <1>1, <1>4
    <2>2. CASE Positions(tasks, i) = {}
        <3>1. Positions(tasks', i) = Positions(tasks, i)
            BY <1>1, <2>2, PositionsTail
        <3> QED
            BY <1>1, <1>3, <1>4, <2>1, <3>1, PlacedFrame DEF Placement
    <2>3. CASE InTasks(i)
        <3>1. PICK n : Here(i, {}, {}, {}, {}, {n}, FALSE)
            BY <2>3 DEF InTasks
        <3>2. Positions(tasks', i) = {n - 1}
            BY <1>1, <1>4, <3>1, PositionsTail DEF Here
        <3>3. Here(i, {}, {}, {}, {}, {n - 1}, FALSE)'
            BY <1>1, <1>3, <2>1, <3>1, <3>2 DEF Here
        <3>4. \E m : Here(i, {}, {}, {}, {}, {m}, FALSE)'
            BY <3>3
        <3> QED
            BY <3>4 DEF Placed, InTasks
    <2> QED
        BY <1>4, <2>2, <2>3 DEF Placement, Placed, Wanted, Browsed, InImages, Parsed,
                                Batched, Here
<1>5. j \in Images /\ Positions(tasks, j) # {}
    BY <1>1, HeadTailProperties, PositionsTail
<1>6. Placed(j)'
    <2>1. j \in Images /\ Positions(tasks, j) # {}
        BY <1>5
    <2>2. PICK n : Here(j, {}, {}, {}, {}, {n}, FALSE)
        BY <2>1 DEF Placement, Placed, Wanted, Browsed, InImages, Parsed, InTasks,
                    Batched, Here
    <2>3. Positions(tasks', j) = {}
        BY <1>1, <2>2, PositionsTail DEF Here
    <2>4. Here(j, {}, {}, {}, {}, {}, TRUE)'
        BY <1>1, <1>3, <2>2, <2>3 DEF Here
    <2> QED
        BY <2>4 DEF Placed, Batched
<1> QED
    BY <1>2, <1>4, <1>5, <1>6 DEF Placement

\* Steps that move no image.
LEMMA StillPlacement ==
    ASSUME Shape, Placement, Listed',
           UNCHANGED <<wanted, images, tasks, batch>>,
           \A i : BrowsedBy(i)' = BrowsedBy(i) /\ ParsedBy(i)' = ParsedBy(i)
    PROVE  Placement'
<1>1. \A i : WantedBy(i)' = WantedBy(i)
    BY DEF WantedBy
<1> QED
    BY <1>1, PlacedFrame DEF Placement

LEMMA NextPlacement ==
    ASSUME Shape, Browsing, Placement, [Next]_vars
    PROVE  Placement'
<1>1. ASSUME UNCHANGED <<wanted, images, tasks, batch, browser, parser>>
      PROVE  Placement'
    BY <1>1, StillPlacement DEF Placement, Listed, BrowsedBy, ParsedBy
<1>2. CASE WalkerStep \/ FetchFails
    BY <1>1, <1>2 DEF WalkerStep, FetchPage, SendRepository, NextPage, FetchFails,
                      beyondWalk, vars
<1>3. CASE StartBrowser
    <2>1. /\ Head(repositories) \in Queued
          /\ browser' = [browser EXCEPT ![Head(repositories)] = Ranging]
          /\ UNCHANGED <<wanted, images, tasks, batch, parser>>
          /\ browser \in [Repos -> Steps]
        <3>1. /\ repositories \in Seq(Valid) /\ repositories # <<>>
              /\ browser' = [browser EXCEPT ![Head(repositories)] = Ranging]
              /\ UNCHANGED <<wanted, images, tasks, batch, parser>>
              /\ browser \in [Repos -> Steps]
            BY <1>3 DEF StartBrowser, beyondMain, Shape, TypeOK
        <3>2. Head(repositories) \in Repos
            BY <3>1, HeadTailProperties DEF Valid
        <3>3. Positions(repositories, Head(repositories)) # {}
            BY <3>1, PositionsTail
        <3> QED
            BY <3>1, <3>2, <3>3 DEF Queued
    <2>2. browser[Head(repositories)] = None
        BY <2>1 DEF Browsing
    <2>3. \A i : BrowsedBy(i)' = BrowsedBy(i)
        BY <2>1, <2>2, StepsDiffer DEF BrowsedBy
    <2>4. Listed'
        BY <2>1, StepsDiffer DEF Placement, Listed
    <2> QED
        BY <2>1, <2>3, <2>4, StillPlacement DEF ParsedBy
<1>4. CASE StartParsers
    <2>1. main = "browse" /\ parser' = [p \in Parsers |-> Ranging]
          /\ UNCHANGED <<wanted, images, tasks, batch, browser>>
        BY <1>4 DEF StartParsers, beyondMain
    <2>2. \A i : ParsedBy(i)' = ParsedBy(i)
        BY <2>1, StepsDiffer DEF ParsedBy, Shape, Pipeline
    <2> QED
        BY <2>1, <2>2, StillPlacement DEF Placement, Listed, BrowsedBy
<1>5. CASE CloseImages \/ CloseTasks
    BY <1>1, <1>5 DEF CloseImages, CloseTasks, beyondMain
<1>6. ASSUME NEW r \in Repos, BrowserDone(r)
      PROVE  Placement'
    <2>1. /\ browser[r] = Ranging /\ browser' = [browser EXCEPT ![r] = Done]
          /\ wanted[r] = {} \/ (ListingMayFail /\ wanted[r] = ImagesOf(r))
          /\ UNCHANGED <<wanted, images, tasks, batch, parser>>
          /\ browser \in [Repos -> Steps]
        BY <1>6 DEF BrowserDone, beyondBrowsers, Shape, TypeOK
    <2>2. \A i : BrowsedBy(i)' = BrowsedBy(i)
        BY <2>1, StepsDiffer DEF BrowsedBy
    <2>3. Listed'
        BY <2>1, StepsDiffer DEF Placement, Listed
    <2> QED
        BY <2>1, <2>2, <2>3, StillPlacement DEF ParsedBy
<1>7. ASSUME NEW p \in Parsers, ParserDone(p)
      PROVE  Placement'
    <2>1. /\ parser[p] = Ranging /\ parser' = [parser EXCEPT ![p] = Done]
          /\ UNCHANGED <<wanted, images, tasks, batch, browser>>
          /\ parser \in [Parsers -> Steps]
        BY <1>7 DEF ParserDone, beyondParsers, Shape, TypeOK
    <2>2. \A i : ParsedBy(i)' = ParsedBy(i)
        BY <2>1, StepsDiffer DEF ParsedBy
    <2> QED
        BY <2>1, <2>2, StillPlacement DEF Placement, Listed, BrowsedBy
<1>8. CASE Commit
    BY <1>1, <1>8 DEF Commit, beyondBatcher
<1>9. CASE UNCHANGED vars
    BY <1>1, <1>9 DEF vars
<1>10. ASSUME NEW i \in Notified, Apply(i)
       PROVE  Placement'
    BY <1>1, <1>10 DEF Apply
<1> QED
    BY <1>2, <1>3, <1>4, <1>5, <1>6, <1>7, <1>8, <1>9, <1>10, BrowsePlacement, SendPlacement,
       ParsePlacement, TaskPlacement, BatchPlacement
       DEF Next, MainStep, BrowserStep, ParserStep, BatcherStep

LEMMA PlacementHolds == Spec => [](Shape /\ Browsing /\ Placement)
    BY ShapeHolds, InitBrowsing, NextBrowsing, InitPlacement, NextPlacement, PTL DEF Spec

\* From WalkImages to the batch no image of Build is lost and none is in two
\* places, for any channels, browsers and parsers.
THEOREM ImagesInOnePlace == Spec => []OnePlace
<1>1. ASSUME Placement, NEW i \in Images
      PROVE  \E place : Places(i) = {place}
    <2> USE DEF Places, Here, WantedBy, BrowsedBy, ParsedBy, Positions
    <2>1. CASE Wanted(i)
        <3>1. PICK r \in Repos : Here(i, {r}, {}, {}, {}, {}, FALSE)
            BY <2>1 DEF Wanted
        <3>2. Places(i) = {<<"wanted", r>>}
            BY <3>1
        <3> QED
            BY <3>2
    <2>2. CASE Browsed(i)
        <3>1. PICK r \in Repos : Here(i, {}, {r}, {}, {}, {}, FALSE)
            BY <2>2 DEF Browsed
        <3>2. Places(i) = {<<"browser", r>>}
            BY <3>1
        <3> QED
            BY <3>2
    <2>3. CASE InImages(i)
        <3>1. PICK n : Here(i, {}, {}, {n}, {}, {}, FALSE)
            BY <2>3 DEF InImages
        <3>2. Places(i) = {<<"images", n>>}
            BY <3>1
        <3> QED
            BY <3>2
    <2>4. CASE Parsed(i)
        <3>1. PICK p \in Parsers : Here(i, {}, {}, {}, {p}, {}, FALSE)
            BY <2>4 DEF Parsed
        <3>2. Places(i) = {<<"parser", p>>}
            BY <3>1
        <3> QED
            BY <3>2
    <2>5. CASE InTasks(i)
        <3>1. PICK n : Here(i, {}, {}, {}, {}, {n}, FALSE)
            BY <2>5 DEF InTasks
        <3>2. Places(i) = {<<"tasks", n>>}
            BY <3>1
        <3> QED
            BY <3>2
    <2>6. CASE Batched(i)
        <3>1. Places(i) = {<<"batch", 0>>}
            BY <2>6 DEF Batched
        <3> QED
            BY <3>1
    <2> QED
        BY <1>1, <2>1, <2>2, <2>3, <2>4, <2>5, <2>6 DEF Placement, Placed
<1>2. Placement => OnePlace
    BY <1>1, FS_Singleton DEF OnePlace
<1> QED
    BY <1>2, PlacementHolds, PTL

\* As soon as the index holds an image that only Build can have written, it holds
\* every such image of each valid repository that could be listed, and none of the
\* others: Build commits after each browser, each parser and the whole catalog, for
\* any catalog and whatever notifications are applied meanwhile.
THEOREM IndexFilledAtOnce == Spec => []AllOrNothing
<1>1. ASSUME Shape, Browsing, Placement
      PROVE  AllOrNothing
    <2> SUFFICES ASSUME index \ touched # {}, NEW r \in Valid
                 PROVE  \/ ImagesOf(r) \ touched \subseteq index
                        \/ ListingMayFail /\ ImagesOf(r) \cap index \subseteq touched
        BY DEF AllOrNothing
    <2>1. /\ batcher = "done" /\ tasks = <<>> /\ main = "over"
          /\ index \ touched = batch \ touched
          /\ \A p \in Parsers : parser[p] = Done
          /\ \A s \in Repos : browser[s] \in {None, Done}
        BY <1>1 DEF Shape, Pipeline, NoSendAfterClose, imagesClosed, tasksClosed
    <2>2. images = <<>>
        BY <1>1, <2>1, ParsersAssumption DEF Shape, Pipeline
    <2>3. browser[r] = Done /\ r \in Repos
        <3>1. r \in Started
            <4>1. repositories = <<>> /\ last = Len(Catalog)
                BY <1>1, <2>1 DEF Shape, Pipeline, Paging
            <4>2. Queued = {}
                BY <4>1, EmptySeq DEF Queued, Positions
            <4> QED
                BY <1>1, <4>1, <4>2, CatalogIsValid DEF Browsing
        <3> QED
            BY <2>1, <3>1 DEF Started
    <2>4. ASSUME NEW i \in ImagesOf(r)
          PROVE  Wanted(i) \/ Batched(i)
        <3>1. i \in Images
            BY <2>3 DEF ImagesOf, Images
        <3>2. BrowsedBy(i) = {} /\ ParsedBy(i) = {}
            BY <2>1, StepsDiffer DEF BrowsedBy, ParsedBy
        <3>3. Positions(images, i) = {} /\ Positions(tasks, i) = {}
            BY <2>1, <2>2, EmptySeq DEF Positions
        <3> QED
            BY <1>1, <3>1, <3>2, <3>3
               DEF Placement, Placed, Browsed, InImages, Parsed, InTasks, Here
    <2>5. CASE wanted[r] = {}
        <3>1. ASSUME NEW i \in ImagesOf(r), Wanted(i)
              PROVE  FALSE
            <4>1. PICK s \in Repos : WantedBy(i) = {s}
                BY <3>1 DEF Wanted, Here
            <4>2. i \in wanted[s]
                BY <4>1 DEF WantedBy
            <4>3. i \in ImagesOf(s)
                BY <1>1, <4>2 DEF Shape, Pipeline
            <4>4. s = r
                BY <3>1, <4>3 DEF ImagesOf
            <4> QED
                BY <2>5, <4>2, <4>4
        <3> QED
            BY <2>1, <2>4, <3>1 DEF Batched, Here
    <2>6. CASE ListingMayFail /\ wanted[r] = ImagesOf(r)
        <3>1. ASSUME NEW i \in ImagesOf(r)
              PROVE  i \notin batch
            <4>1. r \in WantedBy(i)
                BY <2>3, <2>6, <3>1 DEF WantedBy
            <4> QED
                BY <2>4, <3>1, <4>1 DEF Wanted, Batched, Here
        <3> QED
            BY <2>1, <2>6, <3>1
    <2> QED
        BY <1>1, <2>3, <2>5, <2>6 DEF Placement, Listed
<1> QED
    BY <1>1, PlacementHolds, PTL
================================================================================
