--------------------------- MODULE WalkImages_proofs ---------------------------
(****************************************************************************)
(* WalkImages keeps the promise of ImageStream for any set of tags, any     *)
(* pool of workers and any capacities of the channels, and never sends on a *)
(* closed channel.                                                          *)
(****************************************************************************)
EXTENDS WalkImages, DataLemmas

------------------------------------------------------------------------------
(* Type correctness and the pool                                            *)

\* A worker has a tag from the moment it takes it until it has sent it.
Holding ==
    \A w \in Workers :
        tag[w] \in Tags <=> pc[w] \in {"image", "test", "send", "returned"}

\* The workers that have not called wg.Done.
Live == {w \in Workers : pc[w] # "done"}

\* The wait group counts them; images is closed only after the last of them.
Pool ==
    /\ walker = "list" => wg = 0 /\ \A w \in Workers : pc[w] = "idle"
    /\ walker \in {"feed", "wait"} =>
          /\ wg = Cardinality(Live)
          /\ \A w \in Workers : pc[w] # "idle"
    /\ walker = "closed" => \/ \A w \in Workers : pc[w] = "idle"
                            \/ \A w \in Workers : pc[w] = "done"
    /\ imagesClosed = (walker = "closed")
    /\ chClosed => walker \in {"wait", "closed"}

Shape == TypeOK /\ Holding /\ Pool

LEMMA LiveIsFinite ==
    ASSUME NEW S \in SUBSET Workers
    PROVE  IsFiniteSet(S) /\ Cardinality(S) \in 0 .. Cardinality(Workers)
<1>1. /\ IsFiniteSet(S)
      /\ Cardinality(S) <= Cardinality(Workers)
      /\ Cardinality(S) \in Nat /\ Cardinality(Workers) \in Nat
    BY PoolAssumption, FS_Subset, FS_CardinalityType
<1> QED
    BY <1>1

LEMMA InitShape == Init => Shape
<1> SUFFICES ASSUME Init PROVE Shape
    OBVIOUS
<1>1. /\ ch \in Seq(Tags) /\ Len(ch) <= TagCap
      /\ images \in Seq(Items) /\ Len(images) <= ImageCap
    BY CapacityAssumption, EmptySeq DEF Init
<1>2. TypeOK
    <2>1. wg \in 0 .. Cardinality(Workers)
        BY PoolAssumption, FS_CardinalityType DEF Init
    <2>2. /\ pc \in [Workers -> {"idle", "range", "image", "test", "send", "done",
                                 "returned"}]
          /\ tag \in [Workers -> Tags \cup {NoTag}]
          /\ read \in [Workers -> BOOLEAN]
          /\ sent \in [Tags -> Nat]
        BY DEF Init
    <2> QED
        BY <1>1, <2>1, <2>2 DEF Init, TypeOK
<1>3. Holding
    BY PoolAssumption DEF Init, Holding
<1>4. Pool
    BY DEF Init, Pool
<1> QED
    BY <1>2, <1>3, <1>4 DEF Shape

LEMMA WalkerShape ==
    ASSUME Shape, WalkerStep
    PROVE  Shape'
<1> USE DEF Shape, TypeOK, Holding, Pool
<1>1. CASE ListTags
    <2>1. /\ Cardinality(Workers) \in 0 .. Cardinality(Workers)
          /\ Live' = Workers
        BY <1>1, LiveIsFinite DEF ListTags, Live
    <2> QED
        BY <1>1, <2>1, PoolAssumption DEF ListTags
<1>2. CASE ListFails
    BY <1>2 DEF ListFails, pool
<1>3. ASSUME NEW t \in Tags, Feed(t)
      PROVE  Shape'
    <2>1. ch' \in Seq(Tags) /\ Len(ch') <= TagCap
        BY <1>3, CapacityAssumption, AppendProperties, LenProperties DEF Feed
    <2> QED
        BY <1>3, <2>1 DEF Feed, pool, Live
<1>4. CASE CloseTags
    BY <1>4 DEF CloseTags, pool, Live
<1>5. CASE CloseImages
    <2>1. Live = {}
        BY <1>5, LiveIsFinite, FS_EmptySet DEF CloseImages, Live
    <2>2. \A w \in Workers : pc[w] = "done"
        BY <2>1 DEF Live
    <2> QED
        BY <1>5, <2>2 DEF CloseImages, pool
<1> QED
    BY <1>1, <1>2, <1>3, <1>4, <1>5 DEF WalkerStep

\* A worker takes steps only between its start and its wg.Done.
LEMMA WorkerIsLive ==
    ASSUME Shape, NEW w \in Workers, WorkerStep(w)
    PROVE  walker \in {"feed", "wait"}
    BY DEF Shape, TypeOK, Pool, WorkerStep, TakeTag, Image, TestPasses, TestFails,
       Send, Done

LEMMA WorkerShape ==
    ASSUME Shape, NEW w \in Workers, WorkerStep(w)
    PROVE  Shape'
<1> USE DEF Shape, TypeOK, Holding, Pool
<1>1. walker \in {"feed", "wait"}
    BY WorkerIsLive
<1>2. CASE TakeTag(w)
    <2>1. Head(ch) \in Tags /\ ch' \in Seq(Tags) /\ Len(ch') <= TagCap
        BY <1>2, CapacityAssumption, HeadTailProperties, LenProperties DEF TakeTag
    <2>2. Live' = Live
        BY <1>2 DEF TakeTag, Live
    <2> QED
        BY <1>1, <1>2, <2>1, <2>2 DEF TakeTag
<1>3. CASE Image(w)
    <2>1. Live' = Live
        BY <1>3 DEF Image, Live
    <2> QED
        BY <1>1, <1>3, <2>1 DEF Image
<1>4. CASE TestPasses(w) \/ TestFails(w)
    <2>1. Live' = Live
        BY <1>4 DEF TestPasses, TestFails, Live
    <2> QED
        BY <1>1, <1>4, <2>1 DEF TestPasses, TestFails
<1>5. CASE Send(w)
    <2>1. tag[w] \in Tags
        BY <1>5 DEF Send
    <2>2. images' \in Seq(Items) /\ Len(images') <= ImageCap
        <3>1. [tag |-> tag[w], read |-> read[w]] \in Items
            BY <2>1 DEF Items
        <3> QED
            BY <1>5, <3>1, CapacityAssumption, AppendProperties, LenProperties DEF Send
    <2>3. Live' = Live
        BY <1>5 DEF Send, Live
    <2> QED
        BY <1>1, <1>5, <2>1, <2>2, <2>3, PoolAssumption DEF Send
<1>6. CASE Done(w)
    <2>1. Live' = Live \ {w} /\ w \in Live
        BY <1>6 DEF Done, Live
    <2>2. wg' = Cardinality(Live')
        <3>1. IsFiniteSet(Live)
            BY LiveIsFinite DEF Live
        <3>2. Cardinality(Live \ {w}) = Cardinality(Live) - 1
            BY <2>1, <3>1, FS_RemoveElement
        <3> QED
            BY <1>1, <1>6, <2>1, <3>2 DEF Done
    <2>3. Cardinality(Live') \in 0 .. Cardinality(Workers)
        BY LiveIsFinite DEF Live
    <2> QED
        BY <1>1, <1>6, <2>2, <2>3 DEF Done
<1> QED
    BY <1>2, <1>3, <1>4, <1>5, <1>6 DEF WorkerStep

LEMMA ConsumeShape ==
    ASSUME Shape, Consume
    PROVE  Shape'
<1> USE DEF Shape, TypeOK, Holding, Pool
<1>1. images' \in Seq(Items) /\ Len(images') <= ImageCap
    BY CapacityAssumption, HeadTailProperties, LenProperties DEF Consume
<1> QED
    BY <1>1 DEF Consume, pool, Live

LEMMA NextShape ==
    ASSUME Shape, [Next]_vars
    PROVE  Shape'
<1>1. CASE UNCHANGED vars
    BY <1>1 DEF vars, pool, Shape, TypeOK, Holding, Pool, Live
<1> QED
    BY <1>1, WalkerShape, WorkerShape, ConsumeShape DEF Next

LEMMA ShapeHolds == Spec => []Shape
    BY InitShape, NextShape, PTL DEF Spec

\* Every variable of the walk keeps its type: the channels stay within their
\* capacities and the wait group's counter, which would panic below zero, within
\* the size of the pool.
THEOREM WalkTypeCorrect == Spec => []TypeOK
    BY ShapeHolds, PTL DEF Shape

\* No worker can send on images once it is closed: the wait group holds the
\* close back until each worker has come to wg.Done, and one that returned
\* before keeps it from being closed at all.
THEOREM NothingSentAfterClose == Spec => []NoSendAfterClose
<1>1. Shape => NoSendAfterClose
    BY DEF Shape, Pool, NoSendAfterClose
<1> QED
    BY <1>1, ShapeHolds, PTL

------------------------------------------------------------------------------
(* One place for each tag                                                   *)

Here(t, inTodo, positions, holders, n) ==
    /\ (t \in todo) = inTodo
    /\ Positions(ch, t) = positions
    /\ HeldBy(t) = holders
    /\ sent[t] = n

\* The four places of a tag.
Unfed(t) == Here(t, TRUE, {}, {}, 0)
InChannel(t) == \E i \in DOMAIN ch : Here(t, FALSE, {i}, {}, 0)
Held(t) == \E w \in Workers : Here(t, FALSE, {}, {w}, 0)
Sent(t) == Here(t, FALSE, {}, {}, 1)

Placed(t) == Unfed(t) \/ InChannel(t) \/ Held(t) \/ Sent(t)

AllPlaced ==
    /\ walker = "list" => ch = <<>> /\ \A t \in Tags : sent[t] = 0
    /\ walker \in {"feed", "wait"} => \A t \in Tags : Placed(t)
    /\ walker = "wait" => todo = {}
    \* a worker is done only once ch is closed and empty
    /\ walker # "list" => \A w \in Workers : pc[w] = "done" => chClosed /\ ch = <<>>
    /\ walker = "closed" => \/ \A t \in Tags : sent[t] = 0
                            \/ \A t \in Tags : sent[t] = 1

LEMMA PlacedFrame ==
    ASSUME NEW t, Placed(t), UNCHANGED <<todo, ch>>, HeldBy(t)' = HeldBy(t),
           sent'[t] = sent[t]
    PROVE  Placed(t)'
    BY DEF Placed, Unfed, InChannel, Held, Sent, Here

LEMMA WalkerPlaced ==
    ASSUME Shape, AllPlaced, WalkerStep
    PROVE  AllPlaced'
<1> USE DEF AllPlaced
<1>1. CASE ListTags
    <2>1. /\ todo' = Tags /\ walker = "list" /\ UNCHANGED <<ch, tag, sent>>
          /\ walker' = "feed" /\ \A w \in Workers : pc'[w] # "done"
        BY <1>1 DEF ListTags
    <2>2. ch = <<>> /\ \A w \in Workers : tag[w] \notin Tags
        BY <2>1 DEF Shape, Holding, Pool
    <2>3. ASSUME NEW t \in Tags
          PROVE  Unfed(t)'
        BY <2>1, <2>2, EmptySeq DEF Unfed, Here, HeldBy, Positions
    <2> QED
        BY <2>1, <2>3 DEF Placed
<1>2. CASE ListFails
    BY <1>2 DEF ListFails, pool, Shape, Pool
<1>3. ASSUME NEW t \in Tags, Feed(t)
      PROVE  AllPlaced'
    <2>1. /\ walker' = walker /\ walker = "feed" /\ t \in todo /\ ch' = Append(ch, t)
          /\ todo' = todo \ {t} /\ UNCHANGED <<pc, tag, sent, chClosed>>
        BY <1>3 DEF Feed, pool
    <2>2. ch \in Seq(Tags) /\ ~chClosed
        BY <2>1 DEF Shape, TypeOK, Pool
    <2>3. /\ \A u \in Tags : Positions(ch', u) =
                 Positions(ch, u) \cup (IF t = u THEN {Len(ch) + 1} ELSE {})
          /\ DOMAIN ch' = 1 .. Len(ch) + 1 /\ DOMAIN ch = 1 .. Len(ch) /\ Len(ch) \in Nat
        BY <2>1, <2>2, PositionsAppend, AppendProperties, LenProperties
    <2>4. \A u : HeldBy(u)' = HeldBy(u)
        BY <2>1 DEF HeldBy
    <2>5. InChannel(t)'
        <3>1. Here(t, TRUE, {}, {}, 0)
            BY <2>1 DEF Placed, Unfed, InChannel, Held, Sent, Here
        <3>2. PICK n \in DOMAIN ch' : n = Len(ch) + 1
            BY <2>3
        <3>3. Positions(ch', t) = {n}
            BY <2>3, <3>1, <3>2 DEF Here
        <3>4. Here(t, FALSE, {n}, {}, 0)'
            BY <2>1, <2>4, <3>1, <3>3 DEF Here
        <3> QED
            BY <3>2, <3>4 DEF InChannel
    <2>6. ASSUME NEW u \in Tags, u # t
          PROVE  Placed(u)'
        <3>1. /\ Positions(ch', u) = Positions(ch, u)
              /\ \A n \in DOMAIN ch : n \in DOMAIN ch'
              /\ (u \in todo') = (u \in todo)
            <4>1. Positions(ch', u) = Positions(ch, u)
                BY <2>3, <2>6
            <4>2. \A n \in DOMAIN ch : n \in DOMAIN ch'
                BY <2>3
            <4> QED
                BY <2>1, <2>6, <4>1, <4>2
        <3>2. Placed(u)
            BY <2>1
        <3> QED
            BY <2>1, <2>4, <3>1, <3>2 DEF Placed, Unfed, InChannel, Held, Sent, Here
    <2> QED
        BY <2>1, <2>2, <2>5, <2>6 DEF Placed
<1>4. CASE CloseTags
    <2>1. UNCHANGED <<todo, ch, pc, tag, sent>> /\ walker = "feed" /\ walker' = "wait"
        BY <1>4 DEF CloseTags, pool
    <2>2. \A t : HeldBy(t)' = HeldBy(t)
        BY <2>1 DEF HeldBy
    <2>3. \A w \in Workers : pc[w] = "done" => chClosed' /\ ch = <<>>
        BY <1>4, <2>1 DEF CloseTags
    <2> QED
        BY <1>4, <2>1, <2>2, <2>3, PlacedFrame DEF CloseTags
<1>5. CASE CloseImages
    <2>1. /\ UNCHANGED <<todo, ch, chClosed, pc, tag, sent>>
          /\ walker = "wait" /\ walker' = "closed" /\ wg = 0
        BY <1>5 DEF CloseImages, pool
    <2>2. \A w \in Workers : pc[w] = "done"
        <3>1. Live = {}
            BY <2>1, LiveIsFinite, FS_EmptySet DEF Shape, Pool, Live
        <3> QED
            BY <3>1 DEF Live
    <2>3. ch = <<>> /\ todo = {}
        BY <2>1, <2>2, PoolAssumption
    <2>4. ASSUME NEW t \in Tags
          PROVE  sent[t] = 1
        <3>1. HeldBy(t) = {}
            BY <2>2 DEF Shape, Holding, HeldBy
        <3>2. Positions(ch, t) = {}
            BY <2>3, EmptySeq DEF Positions
        <3>3. Placed(t)
            BY <2>1
        <3> QED
            BY <2>3, <3>1, <3>2, <3>3 DEF Placed, Unfed, InChannel, Held, Sent, Here
    <2> QED
        BY <2>1, <2>2, <2>3, <2>4
<1> QED
    BY <1>1, <1>2, <1>3, <1>4, <1>5 DEF WalkerStep

LEMMA WorkerPlaced ==
    ASSUME Shape, AllPlaced, NEW w \in Workers, WorkerStep(w)
    PROVE  AllPlaced'
<1> USE DEF AllPlaced
<1>1. walker \in {"feed", "wait"} /\ walker' = walker /\ todo' = todo
    BY WorkerIsLive DEF WorkerStep, TakeTag, Image, TestPasses, TestFails, Send, Done
<1>2. CASE TakeTag(w)
    <2>1. PICK t \in Tags : t = Head(ch)
        BY <1>2, HeadTailProperties DEF TakeTag, Shape, TypeOK
    <2>2. /\ ch # <<>> /\ ch \in Seq(Tags) /\ ch' = Tail(ch)
          /\ tag' = [tag EXCEPT ![w] = t] /\ tag \in [Workers -> Tags \cup {NoTag}]
          /\ tag[w] \notin Tags
          /\ sent' = sent
        BY <1>2, <2>1 DEF TakeTag, Shape, TypeOK, Holding
    <2>3. HeldBy(t)' = HeldBy(t) \cup {w}
        BY <2>2 DEF HeldBy
    <2>4. Held(t)'
        <3>1. Positions(ch, t) # {}
            BY <2>1, <2>2, PositionsTail
        <3>2. InChannel(t)
            BY <1>1, <3>1 DEF Placed, Unfed, InChannel, Held, Sent, Here
        <3>3. Positions(ch', t) = {}
            BY <2>1, <2>2, <3>2, PositionsTail DEF InChannel, Here
        <3>4. Here(t, FALSE, {}, {w}, 0)'
            BY <1>1, <2>2, <2>3, <3>2, <3>3 DEF InChannel, Here
        <3> QED
            BY <3>4 DEF Held
    <2>5. ASSUME NEW u \in Tags, u # t
          PROVE  Placed(u)'
        <3>1. HeldBy(u)' = HeldBy(u)
            BY <2>2, <2>5 DEF HeldBy
        <3>2. Placed(u)
            BY <1>1
        <3>3. ASSUME NEW n \in DOMAIN ch, Here(u, FALSE, {n}, {}, 0)
              PROVE  InChannel(u)'
            <4>1. n - 1 \in DOMAIN ch' /\ Positions(ch', u) = {n - 1}
                BY <2>1, <2>2, <2>5, <3>3, PositionsTail DEF Here
            <4> QED
                BY <1>1, <2>2, <3>1, <3>3, <4>1 DEF InChannel, Here
        <3>4. ASSUME Positions(ch, u) = {}
              PROVE  Positions(ch', u) = {}
            BY <2>2, <3>4, PositionsTail
        <3> QED
            BY <1>1, <2>2, <3>1, <3>2, <3>3, <3>4
               DEF Placed, Unfed, InChannel, Held, Sent, Here
    <2>6. \A v \in Workers : pc'[v] = "done" => chClosed' /\ ch' = <<>>
        <3>1. pc'[w] # "done" /\ \A v \in Workers : pc'[v] = "done" => pc[v] = "done"
            BY <1>2 DEF TakeTag, Shape, TypeOK
        <3> QED
            BY <1>1, <2>2, <3>1
    <2>7. \A u \in Tags : Placed(u)'
        BY <2>4, <2>5 DEF Placed
    <2> QED
        BY <1>1, <1>2, <2>6, <2>7 DEF TakeTag
<1>3. CASE Send(w)
    <2>1. PICK t \in Tags : t = tag[w]
        BY <1>3 DEF Send, Shape, Holding
    <2>2. /\ UNCHANGED ch /\ chClosed' = chClosed
          /\ tag' = [tag EXCEPT ![w] = NoTag] /\ tag \in [Workers -> Tags \cup {NoTag}]
          /\ sent' = [sent EXCEPT ![t] = sent[t] + 1] /\ sent \in [Tags -> Nat]
          /\ pc' = [pc EXCEPT ![w] = "range"]
        BY <1>3, <2>1 DEF Send, Shape, TypeOK
    <2>3. Here(t, FALSE, {}, {w}, 0)
        BY <1>1, <2>1 DEF Placed, Unfed, InChannel, Held, Sent, Here, HeldBy
    <2>4. Sent(t)'
        <3>1. HeldBy(t)' = {}
            BY <2>1, <2>2, <2>3, PoolAssumption DEF Here, HeldBy
        <3> QED
            BY <1>1, <2>2, <2>3, <3>1 DEF Sent, Here
    <2>5. ASSUME NEW u \in Tags, u # t
          PROVE  Placed(u)'
        <3>1. HeldBy(u)' = HeldBy(u)
            BY <2>1, <2>2, <2>5, PoolAssumption DEF HeldBy
        <3> QED
            BY <1>1, <2>2, <2>5, <3>1, PlacedFrame
    <2>6. \A v \in Workers : pc'[v] = "done" => pc[v] = "done"
        BY <2>2 DEF Shape, TypeOK
    <2>7. \A u \in Tags : Placed(u)'
        BY <2>4, <2>5 DEF Placed
    <2> QED
        BY <1>1, <2>2, <2>6, <2>7
<1>4. CASE Image(w) \/ TestPasses(w) \/ TestFails(w) \/ Done(w)
    <2>1. UNCHANGED <<ch, chClosed, tag, sent>>
        BY <1>4 DEF Image, TestPasses, TestFails, Done
    <2>2. \A v \in Workers : pc'[v] = "done" => pc[v] = "done" \/ (chClosed /\ ch = <<>>)
        BY <1>4 DEF Image, TestPasses, TestFails, Done, Shape, TypeOK
    <2>3. \A t : HeldBy(t)' = HeldBy(t)
        BY <2>1 DEF HeldBy
    <2> QED
        BY <1>1, <2>1, <2>2, <2>3, PlacedFrame
<1> QED
    BY <1>2, <1>3, <1>4 DEF WorkerStep

LEMMA NextPlaced ==
    ASSUME Shape, AllPlaced, [Next]_vars
    PROVE  AllPlaced'
<1>1. CASE Consume \/ UNCHANGED vars
    <2>1. UNCHANGED <<walker, todo, ch, chClosed, pc, tag, sent>>
        BY <1>1 DEF Consume, vars, pool
    <2>2. \A t : HeldBy(t)' = HeldBy(t)
        BY <2>1 DEF HeldBy
    <2> QED
        BY <2>1, <2>2, PlacedFrame DEF AllPlaced
<1> QED
    BY <1>1, WalkerPlaced, WorkerPlaced DEF Next

LEMMA PlacedHolds == Spec => [](Shape /\ AllPlaced)
<1>1. Init => AllPlaced
    BY DEF Init, AllPlaced
<1>2. Shape /\ AllPlaced /\ [Next]_vars => AllPlaced'
    BY NextPlaced
<1> QED
    BY <1>1, <1>2, ShapeHolds, PTL DEF Spec

\* From the moment it is listed until images is closed, each tag of the
\* repository is in one place: the walker's list, the channel, one worker, or
\* sent.
THEOREM EachTagInOnePlace == Spec => []OnePlace
<1>1. AllPlaced => OnePlace
    <2> SUFFICES ASSUME AllPlaced, walker \in {"feed", "wait"}, NEW t \in Tags
                 PROVE  (IF t \in todo THEN 1 ELSE 0) + Cardinality(Queued(t))
                            + Cardinality(HeldBy(t)) + sent[t] = 1
        BY DEF OnePlace
    <2>1. Queued(t) = Positions(ch, t)
        BY DEF Queued, Positions
    <2>2. Cardinality({}) = 0 /\ \A x : Cardinality({x}) = 1
        BY FS_EmptySet, FS_Singleton
    <2>3. Placed(t)
        BY DEF AllPlaced
    <2> QED
        BY <2>1, <2>2, <2>3 DEF Placed, Unfed, InChannel, Held, Sent, Here
<1> QED
    BY <1>1, PlacedHolds, PTL

\* Whatever fails and however the race on err goes, the reader gets at most one
\* item for each tag, and sees the channel closed only after the last of them
\* or before the first.
THEOREM WalkImplementsStream == Spec => ImplementsStream
<1> DEFINE wanted == {t \in Tags : sent[t] = 0}
<1>1. Init => Stream!Init
    BY DEF Init, Stream!Init
<1>2. Shape /\ AllPlaced /\ [Next]_vars => [Stream!Next]_(Stream!vars)
    <2> SUFFICES ASSUME Shape, AllPlaced, [Next]_vars
                 PROVE  [Stream!Next]_(Stream!vars)
        OBVIOUS
    <2>1. ASSUME NEW w \in Workers, Send(w)
          PROVE  Stream!Next
        <3>1. tag[w] \in Tags /\ walker \in {"feed", "wait"}
            BY <2>1, WorkerIsLive DEF Send, Shape, Holding, WorkerStep
        <3>2. sent[tag[w]] = 0
            BY <3>1 DEF AllPlaced, Placed, Unfed, InChannel, Held, Sent, Here, HeldBy
        <3>3. /\ sent' = [sent EXCEPT ![tag[w]] = 1] /\ sent \in [Tags -> Nat]
              /\ imagesClosed' = imagesClosed /\ ~imagesClosed
            BY <2>1, <3>2 DEF Send, Shape, TypeOK
        <3>4. wanted' = wanted \ {tag[w]} /\ tag[w] \in wanted
            BY <3>1, <3>2, <3>3
        <3> QED
            BY <3>1, <3>3, <3>4 DEF Stream!Next, Stream!Send
    <2>2. CASE ListFails \/ CloseImages
        <3>1. /\ sent' = sent /\ imagesClosed' = TRUE /\ ~imagesClosed /\ walker' = "closed"
            BY <2>2 DEF ListFails, CloseImages, Shape, TypeOK, Pool
        <3>2. wanted \in {{}, Tags}
            <4>1. AllPlaced'
                BY NextPlaced
            <4> QED
                BY <3>1, <4>1 DEF AllPlaced
        <3> QED
            BY <3>1, <3>2 DEF Stream!Next, Stream!Close
    <2>3. ASSUME UNCHANGED <<sent, imagesClosed>>
          PROVE  UNCHANGED Stream!vars
        BY <2>3 DEF Stream!vars
    <2>4. \/ ListFails \/ CloseImages
          \/ \E w \in Workers : Send(w)
          \/ UNCHANGED <<sent, imagesClosed>>
        BY DEF Next, WalkerStep, ListTags, Feed, CloseTags, WorkerStep, TakeTag, Image,
           TestPasses, TestFails, Done, Consume, vars
    <2> QED
        BY <2>1, <2>2, <2>3, <2>4
<1> QED
    BY <1>1, <1>2, PlacedHolds, PTL DEF Spec, ImplementsStream, Stream!Spec
==============================================================================
