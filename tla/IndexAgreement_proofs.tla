------------------------ MODULE IndexAgreement_proofs ------------------------
(****************************************************************************)
(* What holds of the index for any sets of names, digests, workers and      *)
(* handlers, any capacity of the channel and any number of events and       *)
(* retries.  First of DimIndex alone: type correctness, and the theorem     *)
(* that it implements Catalogue.  Then of IndexAgreement: the index agrees  *)
(* with the registry about every name that is not suspect once nothing is   *)
(* in flight.                                                               *)
(****************************************************************************)
EXTENDS IndexAgreement, DataLemmas

------------------------------------------------------------------------------
(* Type correctness                                                         *)

\* A worker that is not waiting has a job of the kind its next step is for.
Busy ==
    \A w \in Workers :
        /\ pc[w] # "range" => job[w] \in Jobs
        /\ pc[w] \in {"GetImage", "IndexImage"} => job[w].action = "push"
        /\ pc[w] \in {"FindImage", "Search", "Delete"} => job[w].action = "delete"

TypeInv == TypeOK /\ Busy

\* The job made from an event that NotifyImageChange does not ignore.
LEMMA JobType ==
    ASSUME NEW e \in Events, e.action \in {"push", "delete"}
    PROVE  JobOf(e) \in Jobs
    BY DEF JobOf, Events, Jobs

\* A worker that finishes has type-correct state and no job.
LEMMA FinishType ==
    ASSUME TypeInv, NEW w \in Workers, Finish(w)
    PROVE  /\ pc' \in [Workers -> {"range", "GetImage", "IndexImage", "FindImage",
                                   "Search", "Delete"}]
           /\ job' \in [Workers -> Jobs \cup {None}]
           /\ hits' \in [Workers -> SUBSET Names]
           /\ Busy'
    BY DEF TypeInv, TypeOK, Busy, Finish, Goto

LEMMA InitType == Init => TypeInv
<1> SUFFICES ASSUME Init PROVE TypeInv
    OBVIOUS
<1>1. notifications \in Seq(Jobs) /\ Len(notifications) <= QueueCap
    BY EmptySeq, SizesAssumption DEF Init
<1>2. TypeOK
    BY <1>1 DEF Init, TypeOK
<1> QED
    BY <1>2 DEF Init, TypeInv, Busy

LEMMA RegistryType ==
    ASSUME TypeInv, RegistryStep
    PROVE  TypeInv'
<1> USE DEF TypeInv, TypeOK
<1>1. ASSUME NEW F \in Names, NEW d \in Digests, RegistryPush(F, d)
      PROVE  TypeInv'
    <2>1. [action |-> "push", target |-> F, digest |-> d] \in Events
        BY DEF Events
    <2>2. outbox' \in Seq(Events)
        BY <1>1, <2>1, AppendProperties DEF RegistryPush, Publish
    <2>3. <<F[1], d>> \in Repos \X Digests
        BY DEF Names
    <2> QED
        BY <1>1, <2>2, <2>3 DEF RegistryPush, Publish, worker, Busy
<1>2. ASSUME NEW r \in Repos, NEW d \in Digests, RegistryDelete(r, d)
      PROVE  TypeInv'
    <2>1. [action |-> "delete", target |-> <<r, None>>, digest |-> d] \in Events
        BY DEF Events
    <2>2. outbox' \in Seq(Events)
        BY <1>2, <2>1, AppendProperties DEF RegistryDelete, Publish
    <2> QED
        BY <1>2, <2>2 DEF RegistryDelete, Publish, worker, Busy
<1>3. ASSUME NEW r \in Repos, NEW d \in Digests, RegistryActivity(r, d)
      PROVE  TypeInv'
    <2>1. [action |-> "other", target |-> <<r, None>>, digest |-> d] \in Events
        BY DEF Events
    <2>2. outbox' \in Seq(Events)
        BY <1>3, <2>1, AppendProperties DEF RegistryActivity, Publish
    <2> QED
        BY <1>3, <2>2 DEF RegistryActivity, Publish, worker, Busy
<1> QED
    BY <1>1, <1>2, <1>3 DEF RegistryStep

LEMMA SinkType ==
    ASSUME TypeInv, SinkStep \/ Timeout
    PROVE  TypeInv'
<1> USE DEF TypeInv, TypeOK
<1>1. ASSUME NEW h \in Requests, Post(h)
      PROVE  TypeInv'
    <2>1. PICK n \in 1 .. Len(outbox) :
              /\ envelope' = n
              /\ requests' = [requests EXCEPT ![h] = SubSeq(outbox, 1, n)]
        BY <1>1 DEF Post
    <2>2. SubSeq(outbox, 1, n) \in Seq(Events)
        BY PartOfSeq
    <2> QED
        BY <1>1, <2>1, <2>2 DEF Post, registry, worker, Busy
<1>2. CASE Acknowledge
    <2>1. SubSeq(outbox, envelope + 1, Len(outbox)) \in Seq(Events)
        BY PartOfSeq, LenProperties
    <2> QED
        BY <1>2, <2>1 DEF Acknowledge, registry, worker, Busy
<1>3. CASE Timeout
    BY <1>3 DEF Timeout, registry, worker, Busy
<1> QED
    BY <1>1, <1>2, <1>3 DEF SinkStep

LEMMA HandlerType ==
    ASSUME TypeInv, NEW h \in Requests, HandlerStep(h)
    PROVE  TypeInv'
<1> USE DEF TypeInv, TypeOK
<1>1. requests[h] # <<>> => /\ Head(requests[h]) \in Events
                            /\ Tail(requests[h]) \in Seq(Events)
    BY HeadTailProperties
<1>2. CASE Submit(h)
    <2>1. JobOf(Head(requests[h])) \in Jobs
        BY <1>1, <1>2, JobType DEF Submit
    <2>2. /\ notifications' \in Seq(Jobs)
          /\ Len(notifications') = Len(notifications) + 1
        BY <1>2, <2>1, AppendProperties DEF Submit
    <2>3. Len(notifications') <= QueueCap
        BY <1>2, <2>2, SizesAssumption, LenProperties DEF Submit, Room
    <2> QED
        BY <1>1, <1>2, <2>2, <2>3 DEF Submit, registry, delivery, worker, Busy
<1>3. CASE Ignore(h)
    BY <1>1, <1>3 DEF Ignore, registry, delivery, worker, Busy
<1> QED
    BY <1>2, <1>3, HandlerStep(h) DEF HandlerStep

LEMMA WorkerType ==
    ASSUME TypeInv, NEW w \in Workers, WorkerStep(w)
    PROVE  TypeInv'
<1>1. CASE Receive(w)
    <2>1. /\ Head(notifications) \in Jobs
          /\ Tail(notifications) \in Seq(Jobs)
          /\ Len(Tail(notifications)) <= QueueCap
        BY <1>1, HeadTailProperties, SizesAssumption, LenProperties
        DEF Receive, TypeInv, TypeOK
    <2>2. Head(notifications).action \in {"push", "delete"}
        BY <2>1 DEF Jobs
    <2>3. TypeOK'
        BY <1>1, <2>1 DEF Receive, Goto, TypeInv, TypeOK, registry, delivery
    <2>4. Busy'
        BY <1>1, <2>1, <2>2 DEF Receive, Goto, TypeInv, TypeOK, Busy
    <2> QED
        BY <2>3, <2>4 DEF TypeInv
<1>2. CASE GetImage(w)
    <2>1. job[w] \in [action : {"push", "delete"}, name : Names, digest : Digests]
        BY <1>2 DEF GetImage, TypeInv, Busy, Jobs
    <2>2. TypeOK'
        BY <1>2, <2>1 DEF GetImage, Goto, TypeInv, TypeOK, registry, delivery
    <2>3. Busy'
        BY <1>2 DEF GetImage, Goto, TypeInv, TypeOK, Busy
    <2> QED
        BY <2>2, <2>3 DEF TypeInv
<1>3. CASE GetImageFails(w) \/ IndexFails(w)
    <2>1. TypeOK'
        BY <1>3, FinishType DEF GetImageFails, IndexFails, TypeInv, TypeOK, registry, delivery
    <2> QED
        BY <1>3, <2>1, FinishType DEF GetImageFails, IndexFails, TypeInv
<1>4. CASE IndexImage(w)
    <2>1. job[w].digest \in Digests
        BY <1>4 DEF IndexImage, TypeInv, Busy, Jobs
    <2>2. TypeOK'
        BY <1>4, <2>1, FinishType DEF IndexImage, TypeInv, TypeOK, registry, delivery
    <2> QED
        BY <1>4, <2>2, FinishType DEF IndexImage, TypeInv
<1>5. CASE FindImage(w)
    <2>1. \A F \in Names : [job[w] EXCEPT !.name = F]
              \in [action : {"push", "delete"}, name : Names, digest : Digests]
        BY <1>5 DEF FindImage, TypeInv, Busy, Jobs
    <2>4. fired' \subseteq [action : {"push", "delete"}, name : Names, digest : Digests]
        <3>1. ASSUME NEW j \in fired', j \notin fired
              PROVE  \E F \in Names : j = [job[w] EXCEPT !.name = F]
            BY <1>5, <3>1, Zenon DEF FindImage, Matches
        <3> QED
            BY <2>1, <3>1 DEF TypeInv, TypeOK
    <2>2. TypeOK'
        BY <1>5, <2>4 DEF FindImage, Goto, TypeInv, TypeOK, registry, delivery
    <2>3. Busy'
        BY <1>5 DEF FindImage, Goto, TypeInv, TypeOK, Busy
    <2> QED
        BY <2>2, <2>3 DEF TypeInv
<1>6. CASE Search(w)
    <2>1. CASE Matches(job[w].digest) = {}
        <3>1. TypeOK'
            BY <1>6, <2>1, FinishType DEF Search, TypeInv, TypeOK, registry, delivery
        <3> QED
            BY <1>6, <2>1, <3>1, FinishType DEF Search, TypeInv
    <2>2. CASE Matches(job[w].digest) # {}
        <3>1. PICK page \in Page(job[w].digest) : hits' = [hits EXCEPT ![w] = page]
            BY <1>6, <2>2 DEF Search
        <3>2. page \subseteq Names
            BY DEF Page, Matches
        <3>3. TypeOK'
            BY <1>6, <2>2, <3>1, <3>2
            DEF Search, Goto, TypeInv, TypeOK, registry, delivery
        <3>4. Busy'
            BY <1>6, <2>2 DEF Search, Goto, TypeInv, TypeOK, Busy
        <3> QED
            BY <3>3, <3>4 DEF TypeInv
    <2> QED
        BY <2>1, <2>2
<1>7. ASSUME NEW F \in Names, Delete(w, F)
      PROVE  TypeInv'
    <2>1. index' \in [Names -> Digests \cup {None}]
        BY <1>7 DEF Delete, TypeInv, TypeOK
    <2>2. CASE hits[w] = {F}
        <3>1. TypeOK'
            BY <1>7, <2>1, <2>2, FinishType
            DEF Delete, TypeInv, TypeOK, registry, delivery
        <3> QED
            BY <1>7, <2>2, <3>1, FinishType DEF Delete, TypeInv
    <2>3. CASE hits[w] # {F}
        <3>1. TypeOK'
            BY <1>7, <2>1, <2>3 DEF Delete, TypeInv, TypeOK, registry, delivery
        <3>2. Busy'
            BY <1>7, <2>3 DEF Delete, TypeInv, Busy
        <3> QED
            BY <3>1, <3>2 DEF TypeInv
    <2> QED
        BY <2>2, <2>3
<1>8. CASE FindFails(w)
    <2>1. TypeOK'
        BY <1>8 DEF FindFails, Goto, TypeInv, TypeOK, registry, delivery
    <2>2. Busy'
        BY <1>8 DEF FindFails, Goto, TypeInv, TypeOK, Busy
    <2> QED
        BY <2>1, <2>2 DEF TypeInv
<1>9. ASSUME NEW F \in Names, DeleteFails(w, F)
      PROVE  TypeInv'
    <2>1. CASE hits[w] = {F}
        <3>1. TypeOK'
            BY <1>9, <2>1, FinishType DEF DeleteFails, TypeInv, TypeOK, registry, delivery
        <3> QED
            BY <1>9, <2>1, <3>1, FinishType DEF DeleteFails, TypeInv
    <2>2. CASE hits[w] # {F}
        <3>1. TypeOK'
            BY <1>9, <2>2 DEF DeleteFails, TypeInv, TypeOK, registry, delivery
        <3>2. Busy'
            BY <1>9, <2>2 DEF DeleteFails, TypeInv, Busy
        <3> QED
            BY <3>1, <3>2 DEF TypeInv
    <2> QED
        BY <2>1, <2>2
<1> QED
    BY <1>1, <1>2, <1>3, <1>4, <1>5, <1>6, <1>7, <1>8, <1>9, WorkerStep(w) DEF WorkerStep

LEMMA NextType ==
    ASSUME TypeInv, [Next]_vars
    PROVE  TypeInv'
<1>1. CASE RegistryStep
    BY <1>1, RegistryType
<1>2. CASE SinkStep \/ Timeout
    BY <1>2, SinkType
<1>3. ASSUME NEW h \in Requests, HandlerStep(h) PROVE TypeInv'
    BY <1>3, HandlerType
<1>4. ASSUME NEW w \in Workers, WorkerStep(w) PROVE TypeInv'
    BY <1>4, WorkerType
<1>5. CASE UNCHANGED vars
    BY <1>5 DEF vars, registry, delivery, worker, TypeInv, TypeOK, Busy
<1> QED
    BY <1>1, <1>2, <1>3, <1>4, <1>5 DEF Next

\* A worker always has a job of the kind its step of handleNotifications is for.
THEOREM TypeInvHolds == Spec => []TypeInv
<1>1. TypeInv /\ [Next]_vars => TypeInv'
    BY NextType
<1> QED
    BY <1>1, InitType, PTL DEF Spec

\* Every variable of DimIndex keeps its type, and Submit never puts more jobs in
\* the notifications channel than its capacity.
THEOREM TypeCorrect == Spec => []TypeOK
    BY TypeInvHolds, PTL DEF TypeInv

------------------------------------------------------------------------------
(* DimIndex implements Catalogue                                            *)

\* Events and jobs that report something the registry really did.
GenuineEvents ==
    {e \in Events : /\ e.action = "push" => <<e.target, e.digest>> \in pushed
                    /\ e.action = "delete" => e.digest \in deleted}
GenuineJobs ==
    {j \in Jobs : /\ j.action = "push" => <<j.name, j.digest>> \in pushed
                  /\ j.action = "delete" => j.digest \in deleted}

InFlightGenuine ==
    /\ outbox \in Seq(GenuineEvents)
    /\ requests \in [Requests -> Seq(GenuineEvents)]
    /\ notifications \in Seq(GenuineJobs)
    /\ \A w \in Workers : pc[w] # "range" => job[w] \in GenuineJobs

IndexedWasPushed ==
    \A F \in Names : index[F] # None => <<F, index[F]>> \in pushed

\* A name a worker is about to delete once held the digest of the job.
HitsWerePushed ==
    \A w \in Workers : \A F \in hits[w] :
        pc[w] = "Delete" /\ <<F, job[w].digest>> \in pushed

Provenance == InFlightGenuine /\ IndexedWasPushed /\ HitsWerePushed

Inv == TypeInv /\ Provenance

\* What is in flight stays genuine when the registry's past grows.
LEMMA GenuineGrows ==
    ASSUME pushed \subseteq pushed', deleted \subseteq deleted'
    PROVE  /\ GenuineEvents \subseteq GenuineEvents'
           /\ GenuineJobs \subseteq GenuineJobs'
           /\ Seq(GenuineEvents) \subseteq Seq(GenuineEvents')
           /\ Seq(GenuineJobs) \subseteq Seq(GenuineJobs')
<1>1. GenuineEvents \subseteq GenuineEvents'
    BY DEF GenuineEvents
<1>2. GenuineJobs \subseteq GenuineJobs'
    BY DEF GenuineJobs
<1> QED
    BY <1>1, <1>2, SeqMonotonic

LEMMA InitProvenance == Init => Provenance
<1> SUFFICES ASSUME Init PROVE Provenance
    OBVIOUS
<1>1. InFlightGenuine
    BY EmptySeq DEF Init, InFlightGenuine
<1> QED
    BY <1>1 DEF Init, Provenance, IndexedWasPushed, HitsWerePushed

\* The registry publishes what it just did.
LEMMA PublishGenuine ==
    ASSUME Inv, NEW action \in {"push", "delete", "other"}, NEW target, NEW d,
           Publish(action, target, d),
           [action |-> action, target |-> target, digest |-> d] \in GenuineEvents',
           pushed \subseteq pushed', deleted \subseteq deleted'
    PROVE  Provenance'
<1> DEFINE e == [action |-> action, target |-> target, digest |-> d]
<1>1. outbox' = Append(outbox, e)
    BY DEF Publish
<1>2. outbox \in Seq(GenuineEvents')
    BY GenuineGrows DEF Inv, Provenance, InFlightGenuine
<1>3. outbox' \in Seq(GenuineEvents')
    <2> HIDE DEF e
    <2>1. e \in GenuineEvents'
        BY DEF e
    <2> QED
        BY <1>1, <1>2, <2>1, AppendProperties
<1>4. UNCHANGED <<requests, notifications, pc, job, hits, index>>
    BY DEF Publish, worker
<1>5. requests' \in [Requests -> Seq(GenuineEvents')]
    BY <1>4, GenuineGrows DEF Inv, Provenance, InFlightGenuine
<1>6. notifications' \in Seq(GenuineJobs')
    BY <1>4, GenuineGrows DEF Inv, Provenance, InFlightGenuine
<1>7. \A w \in Workers : pc'[w] # "range" => job'[w] \in GenuineJobs'
    BY <1>4, GenuineGrows DEF Inv, Provenance, InFlightGenuine
<1>8. IndexedWasPushed'
    BY <1>4 DEF Inv, Provenance, IndexedWasPushed
<1>9. HitsWerePushed'
    BY <1>4 DEF Inv, Provenance, HitsWerePushed
<1> QED
    BY <1>3, <1>5, <1>6, <1>7, <1>8, <1>9 DEF Provenance, InFlightGenuine

LEMMA RegistryProvenance ==
    ASSUME Inv, RegistryStep
    PROVE  Provenance'
<1>1. ASSUME NEW F \in Names, NEW d \in Digests, RegistryPush(F, d)
      PROVE  Provenance'
    <2>1. [action |-> "push", target |-> F, digest |-> d] \in GenuineEvents'
        BY <1>1 DEF RegistryPush, GenuineEvents, Events
    <2> QED
        BY <1>1, <2>1, PublishGenuine DEF RegistryPush
<1>2. ASSUME NEW r \in Repos, NEW d \in Digests, RegistryDelete(r, d)
      PROVE  Provenance'
    <2>1. [action |-> "delete", target |-> <<r, None>>, digest |-> d] \in GenuineEvents'
        BY <1>2 DEF RegistryDelete, GenuineEvents, Events
    <2> QED
        BY <1>2, <2>1, PublishGenuine DEF RegistryDelete
<1>3. ASSUME NEW r \in Repos, NEW d \in Digests, RegistryActivity(r, d)
      PROVE  Provenance'
    <2>1. [action |-> "other", target |-> <<r, None>>, digest |-> d] \in GenuineEvents'
        BY <1>3 DEF RegistryActivity, GenuineEvents, Events
    <2> QED
        BY <1>3, <2>1, PublishGenuine DEF RegistryActivity
<1> QED
    BY <1>1, <1>2, <1>3 DEF RegistryStep

\* Delivery moves events around and handlers turn them into jobs.
LEMMA DeliveryProvenance ==
    ASSUME Inv, SinkStep \/ Timeout \/ \E h \in Requests : HandlerStep(h)
    PROVE  Provenance'
<1>1. UNCHANGED <<pushed, deleted, pc, job, hits, index>>
    BY DEF SinkStep, Post, Acknowledge, Timeout, HandlerStep, Submit, Ignore,
           registry, worker
<1>2. /\ GenuineEvents' = GenuineEvents
      /\ GenuineJobs' = GenuineJobs
      /\ IndexedWasPushed'
      /\ HitsWerePushed'
    BY <1>1 DEF GenuineEvents, GenuineJobs, IndexedWasPushed, HitsWerePushed,
                Inv, Provenance
<1>3. /\ outbox \in Seq(GenuineEvents)
      /\ requests \in [Requests -> Seq(GenuineEvents)]
      /\ notifications \in Seq(GenuineJobs)
      /\ envelope \in Nat
    BY DEF Inv, Provenance, InFlightGenuine, TypeInv, TypeOK
<1> SUFFICES /\ outbox' \in Seq(GenuineEvents)
             /\ requests' \in [Requests -> Seq(GenuineEvents)]
             /\ notifications' \in Seq(GenuineJobs)
    BY <1>1, <1>2 DEF Inv, Provenance, InFlightGenuine
<1>4. ASSUME NEW h \in Requests, Post(h)
      PROVE  /\ outbox' \in Seq(GenuineEvents)
             /\ requests' \in [Requests -> Seq(GenuineEvents)]
             /\ notifications' \in Seq(GenuineJobs)
    <2>1. PICK n \in 1 .. Len(outbox) :
              requests' = [requests EXCEPT ![h] = SubSeq(outbox, 1, n)]
        BY <1>4 DEF Post
    <2>2. SubSeq(outbox, 1, n) \in Seq(GenuineEvents)
        BY <1>3, PartOfSeq
    <2> QED
        BY <1>3, <1>4, <2>1, <2>2 DEF Post
<1>5. CASE Acknowledge
    <2>1. SubSeq(outbox, envelope + 1, Len(outbox)) \in Seq(GenuineEvents)
        BY <1>3, PartOfSeq, LenProperties
    <2> QED
        BY <1>3, <1>5, <2>1 DEF Acknowledge
<1>6. CASE Timeout
    BY <1>3, <1>6 DEF Timeout
<1>7. ASSUME NEW h \in Requests, HandlerStep(h)
      PROVE  /\ outbox' \in Seq(GenuineEvents)
             /\ requests' \in [Requests -> Seq(GenuineEvents)]
             /\ notifications' \in Seq(GenuineJobs)
    <2>1. requests[h] # <<>> => /\ Head(requests[h]) \in GenuineEvents
                                /\ Tail(requests[h]) \in Seq(GenuineEvents)
        BY <1>3, HeadTailProperties
    <2>2. CASE Submit(h)
        <3>1. JobOf(Head(requests[h])) \in GenuineJobs
            BY <2>1, <2>2, JobType DEF Submit, JobOf, GenuineEvents, GenuineJobs
        <3> QED
            BY <1>3, <2>1, <2>2, <3>1, AppendProperties DEF Submit, delivery
    <2>3. CASE Ignore(h)
        BY <1>3, <2>1, <2>3 DEF Ignore, delivery
    <2> QED
        BY <1>7, <2>2, <2>3 DEF HandlerStep
<1> QED
    BY <1>4, <1>5, <1>6, <1>7 DEF SinkStep

\* A worker that finishes keeps no claim on anything.
LEMMA FinishProvenance ==
    ASSUME Inv, NEW w \in Workers, Finish(w), UNCHANGED <<pushed, deleted>>
    PROVE  /\ \A v \in Workers : pc'[v] # "range" => job'[v] \in GenuineJobs'
           /\ HitsWerePushed'
<1>1. GenuineJobs' = GenuineJobs
    BY DEF GenuineJobs
<1> QED
    BY <1>1 DEF Inv, TypeInv, TypeOK, Provenance, InFlightGenuine,
                HitsWerePushed, Finish, Goto

LEMMA WorkerProvenance ==
    ASSUME Inv, NEW w \in Workers, WorkerStep(w)
    PROVE  Provenance'
<1>1. UNCHANGED <<pushed, deleted, outbox, requests>>
    BY DEF WorkerStep, Receive, GetImage, GetImageFails, IndexImage, IndexFails,
           FindImage, FindFails, Search, Delete, DeleteFails, registry, delivery
<1>2. GenuineEvents' = GenuineEvents /\ GenuineJobs' = GenuineJobs
    BY <1>1 DEF GenuineEvents, GenuineJobs
<1>3. outbox' \in Seq(GenuineEvents') /\ requests' \in [Requests -> Seq(GenuineEvents')]
    BY <1>1, <1>2 DEF Inv, Provenance, InFlightGenuine
<1> DEFINE Rest == /\ notifications' \in Seq(GenuineJobs)
                   /\ \A v \in Workers : pc'[v] # "range" => job'[v] \in GenuineJobs
                   /\ IndexedWasPushed'
                   /\ HitsWerePushed'
<1> SUFFICES Rest
    BY <1>2, <1>3 DEF Provenance, InFlightGenuine
<1> USE DEF Inv, TypeInv, TypeOK, Provenance, InFlightGenuine
<1>4. CASE Receive(w)
    <2>1. Head(notifications) \in GenuineJobs /\ Tail(notifications) \in Seq(GenuineJobs)
        BY <1>4, HeadTailProperties DEF Receive
    <2>2. HitsWerePushed'
        BY <1>1, <1>4 DEF Receive, Goto, HitsWerePushed
    <2> QED
        BY <1>1, <1>4, <2>1, <2>2 DEF Receive, Goto, IndexedWasPushed
<1>5. CASE GetImage(w) \/ FindImage(w) \/ FindFails(w)
    <2>1. HitsWerePushed'
        BY <1>1, <1>5 DEF GetImage, FindImage, FindFails, Goto, HitsWerePushed
    <2>2. IndexedWasPushed'
        BY <1>1, <1>5 DEF GetImage, FindImage, FindFails, IndexedWasPushed
    <2> QED
        BY <1>5, <2>1, <2>2 DEF GetImage, FindImage, FindFails, Goto
<1>6. CASE GetImageFails(w) \/ IndexFails(w)
    BY <1>1, <1>2, <1>6, FinishProvenance DEF GetImageFails, IndexFails, IndexedWasPushed
<1>7. CASE IndexImage(w)
    <2>1. job[w] \in GenuineJobs /\ job[w].action = "push"
        BY <1>7 DEF IndexImage, Busy
    <2>2. <<job[w].name, job[w].digest>> \in pushed
        BY <2>1 DEF GenuineJobs
    <2>3. IndexedWasPushed'
        BY <1>1, <1>7, <2>2 DEF IndexImage, IndexedWasPushed
    <2> QED
        BY <1>1, <1>2, <1>7, <2>3, FinishProvenance DEF IndexImage
<1>8. CASE Search(w)
    <2>1. IndexedWasPushed'
        BY <1>1, <1>8 DEF Search, IndexedWasPushed
    <2>2. CASE Matches(job[w].digest) = {}
        BY <1>1, <1>2, <1>8, <2>1, <2>2, FinishProvenance DEF Search
    <2>3. CASE Matches(job[w].digest) # {}
        <3>1. PICK page \in Page(job[w].digest) : hits' = [hits EXCEPT ![w] = page]
            BY <1>8, <2>3 DEF Search
        <3>2. pc' = [pc EXCEPT ![w] = "Delete"] /\ UNCHANGED <<job, notifications>>
            BY <1>8, <2>3 DEF Search, Goto
        <3>3. job[w].digest \in Digests
            BY <1>8 DEF Search, Busy, Jobs
        <3>4. \A F \in page : F \in Names /\ index[F] = job[w].digest
            BY DEF Page, Matches
        <3>5. \A F \in page : <<F, job[w].digest>> \in pushed
            BY <3>3, <3>4, NoneAssumption DEF IndexedWasPushed
        <3>6. HitsWerePushed'
            BY <1>1, <3>1, <3>2, <3>5 DEF HitsWerePushed
        <3>7. job[w] \in GenuineJobs
            BY <1>8 DEF Search
        <3> QED
            BY <2>1, <3>2, <3>6, <3>7
    <2> QED
        BY <2>2, <2>3
<1>9. ASSUME NEW F \in Names, Delete(w, F)
      PROVE  Rest
    <2>1. IndexedWasPushed'
        BY <1>1, <1>9 DEF Delete, IndexedWasPushed
    <2>2. CASE hits[w] = {F}
        BY <1>1, <1>2, <1>9, <2>1, <2>2, FinishProvenance DEF Delete
    <2>3. CASE hits[w] # {F}
        BY <1>1, <1>9, <2>1, <2>3 DEF Delete, HitsWerePushed
    <2> QED
        BY <2>2, <2>3
<1>10. ASSUME NEW F \in Names, DeleteFails(w, F)
       PROVE  Rest
    <2>1. IndexedWasPushed'
        BY <1>1, <1>10 DEF DeleteFails, IndexedWasPushed
    <2>2. CASE hits[w] = {F}
        BY <1>1, <1>2, <1>10, <2>1, <2>2, FinishProvenance DEF DeleteFails
    <2>3. CASE hits[w] # {F}
        BY <1>1, <1>10, <2>1, <2>3 DEF DeleteFails, HitsWerePushed
    <2> QED
        BY <2>2, <2>3
<1> QED
    BY <1>4, <1>5, <1>6, <1>7, <1>8, <1>9, <1>10 DEF WorkerStep

LEMMA NextProvenance ==
    ASSUME Inv, TypeInv', [Next]_vars
    PROVE  Inv'
<1>1. CASE RegistryStep
    BY <1>1, RegistryProvenance DEF Inv
<1>2. CASE SinkStep \/ Timeout \/ \E h \in Requests : HandlerStep(h)
    BY <1>2, DeliveryProvenance DEF Inv
<1>3. ASSUME NEW w \in Workers, WorkerStep(w) PROVE Inv'
    BY <1>3, WorkerProvenance DEF Inv
<1>4. CASE UNCHANGED vars
    BY <1>4 DEF vars, registry, delivery, worker, Inv, Provenance, InFlightGenuine,
                IndexedWasPushed, HitsWerePushed, GenuineEvents, GenuineJobs
<1> QED
    BY <1>1, <1>2, <1>3, <1>4 DEF Next

\* Every job in flight reports something the registry did, every indexed name
\* was pushed with the digest it has, and a worker deletes only names that once
\* held the digest of its job.
THEOREM ProvenanceHolds == Spec => []Inv
<1>1. Init => Inv
    BY InitType, InitProvenance DEF Inv
<1>2. Inv /\ TypeInv' /\ [Next]_vars => Inv'
    BY NextProvenance
<1> QED
    BY <1>1, <1>2, TypeInvHolds, PTL DEF Spec

\* A step of a worker appears in the catalogue as one image that appears, one
\* name that disappears, or not at all.
LEMMA WorkerImplements ==
    ASSUME Inv, NEW w \in Workers, WorkerStep(w)
    PROVE  [Promise!Next]_(Promise!vars)
<1>1. UNCHANGED <<pushed, deleted>>
    BY DEF WorkerStep, Receive, GetImage, GetImageFails, IndexImage, IndexFails,
           FindImage, FindFails, Search, Delete, DeleteFails, registry
<1> USE DEF Inv, TypeInv, Provenance, InFlightGenuine
<1>2. CASE IndexImage(w)
    <2>1. job[w] \in GenuineJobs /\ job[w].action = "push"
        BY <1>2 DEF IndexImage, Busy
    <2>2. /\ job[w].name \in Names /\ job[w].digest \in Digests
          /\ <<job[w].name, job[w].digest>> \in pushed
        BY <2>1 DEF GenuineJobs, Jobs
    <2>3. Promise!Appear(job[w].name, job[w].digest)
        BY <1>1, <1>2, <2>2 DEF IndexImage, Promise!Appear
    <2> QED
        BY <2>2, <2>3 DEF Promise!Next
<1>3. ASSUME NEW F \in Names, Delete(w, F)
      PROVE  [Promise!Next]_(Promise!vars)
    <2>1. job[w] \in GenuineJobs /\ job[w].action = "delete"
        BY <1>3 DEF Delete, Busy
    <2>2. job[w].digest \in Digests /\ job[w].digest \in deleted
        BY <2>1 DEF GenuineJobs, Jobs
    <2>3. <<F, job[w].digest>> \in pushed
        BY <1>3 DEF Delete, HitsWerePushed
    <2>4. Promise!Disappear(F, job[w].digest)
        BY <1>1, <1>3, <2>2, <2>3 DEF Delete, Promise!Disappear
    <2> QED
        BY <2>2, <2>4 DEF Promise!Next
<1>4. ASSUME \/ Receive(w) \/ GetImage(w) \/ GetImageFails(w) \/ IndexFails(w)
             \/ FindImage(w) \/ FindFails(w) \/ Search(w)
             \/ \E F \in Names : DeleteFails(w, F)
      PROVE  [Promise!Next]_(Promise!vars)
    BY <1>1, <1>4 DEF Receive, GetImage, GetImageFails, IndexFails, FindImage, FindFails,
       Search, DeleteFails, Promise!vars
<1> QED
    BY <1>2, <1>3, <1>4 DEF WorkerStep

\* However notifications are repeated, delayed, reordered or dropped, what
\* handleNotifications makes of the index is a catalogue of the registry's past.
THEOREM DimIndexImplementsCatalogue == Spec => ImplementsCatalogue
<1>1. Init => Promise!Init
    BY DEF Init, Promise!Init
<1>2. Inv /\ [Next]_vars => [Promise!Next]_(Promise!vars)
    <2> SUFFICES ASSUME Inv, [Next]_vars PROVE [Promise!Next]_(Promise!vars)
        OBVIOUS
    <2>1. ASSUME NEW F \in Names, NEW d \in Digests, RegistryPush(F, d)
          PROVE  [Promise!Next]_(Promise!vars)
        <3>1. Promise!Push(F, d)
            BY <2>1 DEF RegistryPush, Publish, Promise!Push
        <3> QED
            BY <3>1 DEF Promise!Next
    <2>2. ASSUME NEW r \in Repos, NEW d \in Digests, RegistryDelete(r, d)
          PROVE  [Promise!Next]_(Promise!vars)
        <3>1. Promise!Delete(d)
            BY <2>2 DEF RegistryDelete, Publish, Promise!Delete
        <3> QED
            BY <3>1 DEF Promise!Next
    <2>3. ASSUME NEW r \in Repos, NEW d \in Digests, RegistryActivity(r, d)
          PROVE  [Promise!Next]_(Promise!vars)
        BY <2>3 DEF RegistryActivity, Publish, Promise!vars
    <2>4. CASE SinkStep \/ Timeout \/ \E h \in Requests : HandlerStep(h)
        BY <2>4 DEF SinkStep, Post, Acknowledge, Timeout, HandlerStep, Submit,
                    Ignore, registry, Promise!vars
    <2>5. ASSUME NEW w \in Workers, WorkerStep(w)
          PROVE  [Promise!Next]_(Promise!vars)
        BY <2>5, WorkerImplements
    <2>6. CASE UNCHANGED vars
        BY <2>6 DEF vars, registry, Promise!vars
    <2> QED
        BY <2>1, <2>2, <2>3, <2>4, <2>5, <2>6 DEF Next, RegistryStep
<1> QED
    BY <1>1, <1>2, ProvenanceHolds, PTL DEF Spec, ImplementsCatalogue, Promise!Spec

\* A push job is its name and its digest.
LEMMA PushJobIs ==
    ASSUME NEW j \in Jobs, j.action = "push"
    PROVE  j = [action |-> "push", name |-> j.name, digest |-> j.digest]
    BY DEF Jobs

------------------------------------------------------------------------------
(* What a sequence of events reports                                        *)

LEMMA ReportedAppend ==
    ASSUME NEW S, NEW s \in Seq(S), NEW e \in S, NEW j
    PROVE  Reported(j, Append(s, e)) <=>
              Reported(j, s) \/ (e.action # "other" /\ JobOf(e) = j)
<1>1. /\ DOMAIN s = 1 .. Len(s) /\ Len(s) \in Nat
      /\ DOMAIN Append(s, e) = 1 .. Len(s) + 1
      /\ \A i \in 1 .. Len(s) : Append(s, e)[i] = s[i]
      /\ Append(s, e)[Len(s) + 1] = e
    BY AppendProperties, LenProperties
<1>2. \A i : i \in 1 .. Len(s) + 1 <=> i \in 1 .. Len(s) \/ i = Len(s) + 1
    BY <1>1
<1>3. Reported(j, Append(s, e)) <=>
         \E i : (i \in 1 .. Len(s) \/ i = Len(s) + 1) /\
             Append(s, e)[i].action # "other" /\ JobOf(Append(s, e)[i]) = j
    BY <1>1, <1>2, Zenon DEF Reported
<1>4. Reported(j, s) <=>
         \E i \in 1 .. Len(s) : s[i].action # "other" /\ JobOf(s[i]) = j
    BY <1>1 DEF Reported
<1> QED
    BY <1>1, <1>3, <1>4, Zenon

LEMMA ReportedHeadTail ==
    ASSUME NEW S, NEW s \in Seq(S), s # <<>>, NEW j
    PROVE  Reported(j, s) <=>
              \/ Head(s).action # "other" /\ JobOf(Head(s)) = j
              \/ Reported(j, Tail(s))
<1>1. /\ DOMAIN s = 1 .. Len(s) /\ Len(s) \in Nat \ {0}
      /\ DOMAIN Tail(s) = 1 .. Len(s) - 1
      /\ \A i \in 1 .. Len(s) - 1 : Tail(s)[i] = s[i + 1]
      /\ Head(s) = s[1]
    BY HeadTailProperties, LenProperties, EmptySeq
<1>2. ASSUME Reported(j, s) PROVE (Head(s).action # "other" /\ JobOf(Head(s)) = j)
                                  \/ Reported(j, Tail(s))
    <2>1. PICK i \in 1 .. Len(s) : s[i].action # "other" /\ JobOf(s[i]) = j
        BY <1>1, <1>2 DEF Reported
    <2>2. CASE i = 1
        BY <1>1, <2>1, <2>2
    <2>3. CASE i # 1
        <3>1. i - 1 \in 1 .. Len(s) - 1 /\ i = (i - 1) + 1
            BY <1>1, <2>3
        <3>2. Tail(s)[i - 1] = s[i]
            BY <1>1, <3>1
        <3> QED
            BY <1>1, <2>1, <3>1, <3>2 DEF Reported
    <2> QED
        BY <2>2, <2>3
<1>3. ASSUME Head(s).action # "other", JobOf(Head(s)) = j PROVE Reported(j, s)
    BY <1>1, <1>3 DEF Reported
<1>4. ASSUME Reported(j, Tail(s)) PROVE Reported(j, s)
    <2>1. PICK i \in 1 .. Len(s) - 1 :
              Tail(s)[i].action # "other" /\ JobOf(Tail(s)[i]) = j
        BY <1>1, <1>4 DEF Reported
    <2>2. i + 1 \in 1 .. Len(s) /\ s[i + 1] = Tail(s)[i]
        BY <1>1
    <2> QED
        BY <1>1, <2>1, <2>2 DEF Reported
<1> QED
    BY <1>2, <1>3, <1>4

LEMMA ReportedPrefix ==
    ASSUME NEW S, NEW s \in Seq(S), NEW n \in 0 .. Len(s), NEW j
    PROVE  Reported(j, SubSeq(s, 1, n)) => Reported(j, s)
<1>1. \A i \in 1 .. n : s[i] \in S
    BY ElementOfSeq, LenProperties
<1>2. /\ DOMAIN SubSeq(s, 1, n) = 1 .. n
      /\ \A i \in 1 .. n : SubSeq(s, 1, n)[i] = s[i]
      /\ DOMAIN s = 1 .. Len(s) /\ Len(s) \in Nat
    BY <1>1, SubSeqProperties, LenProperties
<1> QED
    BY <1>2 DEF Reported

InChannel(j) == \E i \in DOMAIN notifications : notifications[i] = j

LEMMA ChannelAppend ==
    ASSUME NEW S, NEW s \in Seq(S), NEW e \in S, NEW j
    PROVE  (\E i \in DOMAIN Append(s, e) : Append(s, e)[i] = j) <=>
              (\E i \in DOMAIN s : s[i] = j) \/ e = j
<1>1. /\ DOMAIN s = 1 .. Len(s) /\ Len(s) \in Nat
      /\ DOMAIN Append(s, e) = 1 .. Len(s) + 1
      /\ \A i \in 1 .. Len(s) : Append(s, e)[i] = s[i]
      /\ Append(s, e)[Len(s) + 1] = e
    BY AppendProperties, LenProperties
<1>2. \A i : i \in 1 .. Len(s) + 1 <=> i \in 1 .. Len(s) \/ i = Len(s) + 1
    BY <1>1
<1> QED
    BY <1>1, <1>2, Zenon

LEMMA ChannelHeadTail ==
    ASSUME NEW S, NEW s \in Seq(S), s # <<>>, NEW j
    PROVE  (\E i \in DOMAIN s : s[i] = j) <=>
              Head(s) = j \/ \E i \in DOMAIN Tail(s) : Tail(s)[i] = j
<1>1. /\ DOMAIN s = 1 .. Len(s) /\ Len(s) \in Nat \ {0}
      /\ DOMAIN Tail(s) = 1 .. Len(s) - 1
      /\ \A i \in 1 .. Len(s) - 1 : Tail(s)[i] = s[i + 1]
      /\ Head(s) = s[1]
    BY HeadTailProperties, LenProperties, EmptySeq
<1>2. ASSUME NEW i \in 1 .. Len(s), s[i] = j, Head(s) # j
      PROVE  \E k \in 1 .. Len(s) - 1 : Tail(s)[k] = j
    <2>1. i # 1
        BY <1>1, <1>2
    <2>2. i - 1 \in 1 .. Len(s) - 1 /\ i = (i - 1) + 1
        BY <1>1, <2>1
    <2>3. Tail(s)[i - 1] = s[i]
        BY <1>1, <2>2
    <2> QED
        BY <1>2, <2>2, <2>3
<1>3. ASSUME NEW i \in 1 .. Len(s) - 1, Tail(s)[i] = j
      PROVE  \E k \in 1 .. Len(s) : s[k] = j
    <2>1. i + 1 \in 1 .. Len(s) /\ s[i + 1] = Tail(s)[i]
        BY <1>1
    <2> QED
        BY <1>3, <2>1
<1>4. Head(s) = j => \E k \in 1 .. Len(s) : s[k] = j
    BY <1>1
<1> QED
    BY <1>1, <1>2, <1>3, <1>4, Zenon

------------------------------------------------------------------------------
(* What each step does to the jobs in flight                                *)

\* A worker with a job it has not applied.
Working(w, j) == pc[w] \notin {"range", "Delete"} /\ job[w] = j
Handling(h, j) == Reported(j, requests[h])

LEMMA DeliveringParts ==
    ASSUME NEW j
    PROVE  Delivering(j) <=> \/ \E h \in Requests : Handling(h, j)
                             \/ InChannel(j)
                             \/ \E w \in Workers : Working(w, j)
    BY DEF Delivering, Handling, InChannel, Working

\* A job moves from the channel to a worker.
LEMMA ReceiveFlight ==
    ASSUME TypeInv, NEW w \in Workers, Receive(w), NEW j
    PROVE  Delivering(j)' <=> Delivering(j)
<1>1. /\ pc[w] = "range" /\ pc'[w] \in {"GetImage", "FindImage", "Search"}
      /\ job'[w] = Head(notifications)
      /\ \A v \in Workers \ {w} : pc'[v] = pc[v] /\ job'[v] = job[v]
    BY DEF Receive, Goto, TypeInv, TypeOK
<1>2. notifications' = Tail(notifications) /\ notifications # <<>>
      /\ UNCHANGED requests
    BY DEF Receive
<1>3. InChannel(j) <=> Head(notifications) = j \/ InChannel(j)'
    <2>1. notifications \in Seq(Jobs)
        BY DEF TypeInv, TypeOK
    <2> QED
        BY <1>2, <2>1, ChannelHeadTail DEF InChannel
<1>4. \A v \in Workers :
          Working(v, j)' <=> (Working(v, j) \/ (v = w /\ Head(notifications) = j))
    BY <1>1 DEF Working
<1>5. \A h \in Requests : Handling(h, j)' <=> Handling(h, j)
    BY <1>2 DEF Handling, Reported
<1>6. Delivering(j)' <=> \/ \E h \in Requests : Handling(h, j)'
                         \/ InChannel(j)'
                         \/ \E v \in Workers : Working(v, j)'
    BY DEF Delivering, Handling, InChannel, Working
<1> QED
    BY <1>3, <1>4, <1>5, <1>6, DeliveringParts, Zenon

\* A worker takes a step and keeps its job.
LEMMA KeepFlight ==
    ASSUME TypeInv, NEW w \in Workers, GetImage(w) \/ FindImage(w) \/ FindFails(w), NEW j
    PROVE  Delivering(j)' <=> Delivering(j)
<1>1. /\ pc[w] \notin {"range", "Delete"} /\ pc'[w] \notin {"range", "Delete"}
      /\ \A v \in Workers \ {w} : pc'[v] = pc[v]
      /\ UNCHANGED <<requests, notifications, job>>
    BY DEF GetImage, FindImage, FindFails, Goto, TypeInv, TypeOK
<1> QED
    BY <1>1 DEF Delivering, Reported

\* A worker is done with its job, or has found the documents to delete.
LEMMA DropFlight ==
    ASSUME TypeInv, NEW w \in Workers, NEW j,
           GetImageFails(w) \/ IndexFails(w) \/ IndexImage(w) \/ Search(w)
    PROVE  /\ Delivering(j)' => Delivering(j)
           /\ Delivering(j) => Delivering(j)' \/ j = job[w]
<1>1. /\ pc'[w] \in {"range", "Delete"}
      /\ \A v \in Workers \ {w} : pc'[v] = pc[v] /\ job'[v] = job[v]
      /\ UNCHANGED <<requests, notifications>>
    BY DEF GetImageFails, IndexFails, IndexImage, Search, Finish, Goto, TypeInv, TypeOK
<1> QED
    BY <1>1 DEF Delivering, Reported

LEMMA DeleteFlight ==
    ASSUME TypeInv, NEW w \in Workers, NEW F \in Names,
           Delete(w, F) \/ DeleteFails(w, F), NEW j
    PROVE  Delivering(j)' <=> Delivering(j)
<1>1. /\ pc[w] = "Delete" /\ pc'[w] \in {"range", "Delete"}
      /\ \A v \in Workers \ {w} : pc'[v] = pc[v] /\ job'[v] = job[v]
      /\ UNCHANGED <<requests, notifications>>
    BY DEF Delete, DeleteFails, Finish, Goto, TypeInv, TypeOK
<1> QED
    BY <1>1 DEF Delivering, Reported

\* A job moves from a handler to the channel.
LEMMA SubmitFlight ==
    ASSUME TypeInv, NEW h \in Requests, Submit(h), NEW j
    PROVE  /\ Delivering(j)' <=> Delivering(j)
           /\ j = JobOf(Head(requests[h])) => Delivering(j)'
<1> DEFINE e == Head(requests[h])
<1>1. /\ requests[h] \in Seq(Events) /\ requests[h] # <<>> /\ e.action # "other"
      /\ requests'[h] = Tail(requests[h])
      /\ \A k \in Requests \ {h} : requests'[k] = requests[k]
      /\ UNCHANGED <<pc, job>>
    BY DEF Submit, TypeInv, TypeOK, worker
<1>2. /\ notifications \in Seq(Jobs) /\ JobOf(e) \in Jobs
      /\ notifications' = Append(notifications, JobOf(e))
    BY <1>1, JobType, HeadTailProperties DEF Submit, TypeInv, TypeOK
<1>3. InChannel(j)' <=> InChannel(j) \/ JobOf(e) = j
    BY <1>2, ChannelAppend DEF InChannel
<1>4. Handling(h, j) <=> JobOf(e) = j \/ Handling(h, j)'
    BY <1>1, ReportedHeadTail DEF Handling
<1>5. \A k \in Requests \ {h} : Handling(k, j)' <=> Handling(k, j)
    BY <1>1 DEF Handling, Reported
<1>6. Delivering(j)' <=> \/ \E k \in Requests : Handling(k, j)'
                         \/ InChannel(j)'
                         \/ \E v \in Workers : Working(v, j)
    BY <1>1 DEF Delivering, Handling, InChannel, Working
<1>7. Delivering(j)' <=> Delivering(j)
    BY <1>3, <1>4, <1>5, <1>6, DeliveringParts, Zenon
<1> QED
    BY <1>3, <1>6, <1>7

\* An event that becomes no job leaves a handler.
LEMMA IgnoreFlight ==
    ASSUME TypeInv, NEW h \in Requests, Ignore(h), NEW j
    PROVE  Delivering(j)' <=> Delivering(j)
<1>1. /\ requests[h] \in Seq(Events) /\ requests[h] # <<>>
      /\ Head(requests[h]).action = "other"
      /\ requests'[h] = Tail(requests[h])
      /\ \A k \in Requests \ {h} : requests'[k] = requests[k]
      /\ UNCHANGED <<notifications, pc, job>>
    BY DEF Ignore, TypeInv, TypeOK, worker
<1>2. Handling(h, j) <=> Handling(h, j)'
    BY <1>1, ReportedHeadTail DEF Handling
<1>3. \A k \in Requests \ {h} : Handling(k, j)' <=> Handling(k, j)
    BY <1>1 DEF Handling, Reported
<1>4. Delivering(j)' <=> \/ \E k \in Requests : Handling(k, j)'
                         \/ InChannel(j)
                         \/ \E v \in Workers : Working(v, j)
    BY <1>1 DEF Delivering, Handling, InChannel, Working
<1> QED
    BY <1>2, <1>3, <1>4, DeliveringParts, Zenon

\* A notification copies events of the outbox to a handler that has none.
LEMMA PostFlight ==
    ASSUME TypeInv, NEW h \in Requests, Post(h), NEW j
    PROVE  /\ Delivering(j) => Delivering(j)'
           /\ Delivering(j)' => InFlight(j)
<1>1. PICK n \in 1 .. Len(outbox) : requests' = [requests EXCEPT ![h] = SubSeq(outbox, 1, n)]
    BY DEF Post
<1>2. /\ outbox \in Seq(Events) /\ requests[h] = <<>>
      /\ requests'[h] = SubSeq(outbox, 1, n)
      /\ \A k \in Requests \ {h} : requests'[k] = requests[k]
      /\ UNCHANGED <<notifications, pc, job>>
    BY <1>1 DEF Post, TypeInv, TypeOK, worker
<1>3. Handling(h, j)' => Reported(j, outbox)
    BY <1>2, ReportedPrefix, LenProperties DEF Handling
<1>4. ~Handling(h, j)
    BY <1>2 DEF Handling, Reported
<1>5. \A k \in Requests \ {h} : Handling(k, j)' <=> Handling(k, j)
    BY <1>2 DEF Handling, Reported
<1>6. Delivering(j)' <=> \/ \E k \in Requests : Handling(k, j)'
                         \/ InChannel(j)
                         \/ \E v \in Workers : Working(v, j)
    BY <1>2 DEF Delivering, Handling, InChannel, Working
<1> QED
    BY <1>3, <1>4, <1>5, <1>6, DeliveringParts, Zenon DEF InFlight

\* The registry, and a sink that gives up or is answered, move no job.
LEMMA OtherFlight ==
    ASSUME UNCHANGED <<requests, notifications, pc, job>>, NEW j
    PROVE  Delivering(j)' <=> Delivering(j)
    BY DEF Delivering, Reported

\* A change of the registry puts one event into the outbox.
LEMMA PublishFlight ==
    ASSUME TypeInv, NEW e \in Events, Publish(e.action, e.target, e.digest), NEW j
    PROVE  InFlight(j)' <=> InFlight(j) \/ (e.action # "other" /\ JobOf(e) = j)
<1>1. e = [action |-> e.action, target |-> e.target, digest |-> e.digest]
    BY DEF Events
<1>2. /\ outbox \in Seq(Events) /\ outbox' = Append(outbox, e)
      /\ UNCHANGED <<requests, notifications, pc, job>>
    BY <1>1 DEF Publish, TypeInv, TypeOK, worker
<1>3. Delivering(j)' <=> Delivering(j)
    BY <1>2, OtherFlight
<1>4. Reported(j, outbox)' <=> Reported(j, outbox) \/ (e.action # "other" /\ JobOf(e) = j)
    BY <1>2, ReportedAppend DEF Reported
<1> QED
    BY <1>3, <1>4 DEF InFlight

------------------------------------------------------------------------------
(* The bookkeeping of handlers and workers                                  *)

HitsKept == \A w \in Workers : pc[w] # "Delete" => hits[w] = {}
RestIsSuffix ==
    /\ envelope <= Len(outbox)
    /\ awaiting # None =>
          /\ Len(requests[awaiting]) <= envelope
          /\ \A i \in 1 .. Len(requests[awaiting]) :
                requests[awaiting][i] = outbox[envelope - Len(requests[awaiting]) + i]

LEMMA BookkeepingParts == Bookkeeping <=> HitsKept /\ RestIsSuffix
    BY DEF Bookkeeping, HitsKept, RestIsSuffix

LEMMA WorkerBookkeeping ==
    ASSUME TypeInv, Bookkeeping, NEW w \in Workers, WorkerStep(w)
    PROVE  Bookkeeping'
<1>1. UNCHANGED <<outbox, envelope, awaiting, requests>>
    BY DEF WorkerStep, Receive, GetImage, GetImageFails, IndexImage, IndexFails,
           FindImage, FindFails, Search, Delete, DeleteFails, delivery
<1>2. RestIsSuffix'
    BY <1>1, BookkeepingParts DEF RestIsSuffix
<1>3. HitsKept'
    <2> USE BookkeepingParts DEF HitsKept, TypeInv, TypeOK, Goto
    <2>1. CASE Receive(w)
        BY <2>1 DEF Receive
    <2>2. CASE GetImage(w) \/ FindImage(w) \/ FindFails(w)
        BY <2>2 DEF GetImage, FindImage, FindFails
    <2>3. CASE Finish(w)
        BY <2>3 DEF Finish
    <2>4. CASE Search(w) /\ ~Finish(w)
        <3>1. /\ pc' = [pc EXCEPT ![w] = "Delete"]
              /\ \A v \in Workers \ {w} : hits'[v] = hits[v]
            BY <2>4 DEF Search
        <3> QED
            BY <3>1
    <2>5. ASSUME NEW F \in Names, Delete(w, F) \/ DeleteFails(w, F), ~Finish(w)
          PROVE  HitsKept'
        <3>1. pc[w] = "Delete" /\ UNCHANGED pc
            BY <2>5 DEF Delete, DeleteFails
        <3>2. \A v \in Workers \ {w} : hits'[v] = hits[v]
            BY <2>5 DEF Delete, DeleteFails
        <3> QED
            BY <3>1, <3>2
    <2> QED
        BY <2>1, <2>2, <2>3, <2>4, <2>5 DEF WorkerStep, GetImageFails, IndexImage,
           IndexFails
<1> QED
    BY <1>2, <1>3, BookkeepingParts DEF Bookkeeping, HitsKept, RestIsSuffix

LEMMA HandlerBookkeeping ==
    ASSUME TypeInv, Bookkeeping, NEW h \in Requests, HandlerStep(h)
    PROVE  Bookkeeping'
<1>1. /\ requests[h] \in Seq(Events) /\ requests[h] # <<>>
      /\ requests' = [requests EXCEPT ![h] = Tail(requests[h])]
      /\ UNCHANGED <<outbox, envelope, awaiting, pc, hits>>
    BY DEF HandlerStep, Submit, Ignore, delivery, worker, TypeInv, TypeOK
<1>2. HitsKept'
    BY <1>1, BookkeepingParts DEF HitsKept
<1>3. RestIsSuffix'
    <2>1. CASE awaiting = h
        <3> DEFINE rest == requests[h]
        <3>1. /\ rest \in Seq(Events) /\ Len(rest) \in Nat \ {0} /\ requests'[h] = Tail(rest)
              /\ Len(Tail(rest)) = Len(rest) - 1
              /\ \A i \in 1 .. Len(rest) - 1 : Tail(rest)[i] = rest[i + 1]
            BY <1>1, HeadTailProperties, EmptySeq DEF TypeInv, TypeOK
        <3>2. /\ envelope \in Nat /\ Len(rest) <= envelope
              /\ \A i \in 1 .. Len(rest) : rest[i] = outbox[envelope - Len(rest) + i]
            BY <2>1, BookkeepingParts, NoneAssumption DEF RestIsSuffix, TypeInv, TypeOK
        <3>3. ASSUME NEW i \in 1 .. Len(rest) - 1
              PROVE  Tail(rest)[i] = outbox[envelope - Len(Tail(rest)) + i]
            <4>1. i + 1 \in 1 .. Len(rest)
                BY <3>1
            <4>2. rest[i + 1] = outbox[envelope - Len(rest) + (i + 1)]
                BY <3>2, <4>1
            <4>3. envelope - Len(rest) + (i + 1) = envelope - (Len(rest) - 1) + i
                BY <3>1, <3>2
            <4> QED
                BY <3>1, <4>2, <4>3
        <3>4. Len(Tail(rest)) <= envelope
            BY <3>1, <3>2
        <3>5. requests'[awaiting'] = Tail(rest)
            BY <1>1, <2>1, <3>1
        <3> QED
            BY <1>1, <3>1, <3>3, <3>4, <3>5, BookkeepingParts DEF RestIsSuffix
    <2>2. CASE awaiting # h
        <3>1. awaiting # None => requests'[awaiting] = requests[awaiting]
            BY <1>1, <2>2 DEF TypeInv, TypeOK
        <3> QED
            BY <1>1, <3>1, BookkeepingParts DEF RestIsSuffix
    <2> QED
        BY <2>1, <2>2
<1> QED
    BY <1>2, <1>3, BookkeepingParts DEF Bookkeeping, HitsKept, RestIsSuffix

LEMMA SinkBookkeeping ==
    ASSUME TypeInv, Bookkeeping, SinkStep \/ Timeout
    PROVE  Bookkeeping'
<1>1. UNCHANGED <<pc, hits>>
    BY DEF SinkStep, Post, Acknowledge, Timeout, worker
<1>2. HitsKept'
    BY <1>1, BookkeepingParts DEF HitsKept
<1>3. RestIsSuffix'
    <2>1. ASSUME NEW h \in Requests, Post(h)
          PROVE  RestIsSuffix'
        <3>1. PICK n \in 1 .. Len(outbox) :
                  /\ envelope' = n
                  /\ requests' = [requests EXCEPT ![h] = SubSeq(outbox, 1, n)]
            BY <2>1 DEF Post
        <3>2. outbox \in Seq(Events) /\ Len(outbox) \in Nat
            BY LenProperties DEF TypeInv, TypeOK
        <3>3. \A i \in 1 .. n : outbox[i] \in Events
            BY <3>2, ElementOfSeq
        <3>4. /\ Len(SubSeq(outbox, 1, n)) = n
              /\ \A i \in 1 .. n : SubSeq(outbox, 1, n)[i] = outbox[i]
            BY <3>3, SubSeqProperties
        <3>5. awaiting' = h /\ requests'[h] = SubSeq(outbox, 1, n) /\ UNCHANGED outbox
            BY <2>1, <3>1 DEF Post, TypeInv, TypeOK
        <3>6. requests'[awaiting'] = SubSeq(outbox, 1, n) /\ n \in Nat /\ n <= Len(outbox)
            BY <3>2, <3>5
        <3>7. Len(requests'[awaiting']) = n
            BY <3>4, <3>6
        <3>8. Len(requests'[awaiting']) <= envelope'
            BY <3>1, <3>6, <3>7
        <3>9. ASSUME NEW i \in 1 .. Len(requests'[awaiting'])
              PROVE  requests'[awaiting'][i]
                        = outbox'[envelope' - Len(requests'[awaiting']) + i]
            <4>1. i \in 1 .. n /\ envelope' - Len(requests'[awaiting']) + i = i
                BY <3>1, <3>4, <3>6
            <4> QED
                BY <3>4, <3>5, <3>6, <4>1
        <3>10. envelope' <= Len(outbox')
            BY <3>1, <3>5, <3>6
        <3> QED
            BY <3>8, <3>9, <3>10 DEF RestIsSuffix
    <2>2. CASE Acknowledge
        <3>1. SubSeq(outbox, envelope + 1, Len(outbox)) \in Seq(Events)
            BY PartOfSeq, LenProperties DEF TypeInv, TypeOK
        <3>2. outbox' \in Seq(Events) /\ envelope' = 0 /\ awaiting' = None
            BY <2>2, <3>1 DEF Acknowledge
        <3>3. Len(outbox') \in Nat
            BY <3>2, LenProperties
        <3> QED
            BY <3>2, <3>3 DEF RestIsSuffix
    <2>3. CASE Timeout
        BY <2>3, BookkeepingParts DEF Timeout, RestIsSuffix
    <2> QED
        BY <2>1, <2>2, <2>3 DEF SinkStep
<1> QED
    BY <1>2, <1>3, BookkeepingParts DEF Bookkeeping, HitsKept, RestIsSuffix

LEMMA RegistryBookkeeping ==
    ASSUME TypeInv, Bookkeeping, NEW e \in Events,
           Publish(e.action, e.target, e.digest)
    PROVE  Bookkeeping'
<1>1. e = [action |-> e.action, target |-> e.target, digest |-> e.digest]
    BY DEF Events
<1>2. /\ outbox \in Seq(Events) /\ outbox' = Append(outbox, e)
      /\ UNCHANGED <<requests, envelope, awaiting, pc, hits>>
    BY <1>1 DEF Publish, TypeInv, TypeOK, worker
<1>3. /\ Len(outbox) \in Nat /\ Len(outbox') = Len(outbox) + 1
      /\ \A i \in 1 .. Len(outbox) : outbox'[i] = outbox[i]
    BY <1>2, AppendProperties, LenProperties
<1>4. ASSUME awaiting # None, NEW i \in 1 .. Len(requests[awaiting])
      PROVE  requests[awaiting][i] = outbox'[envelope - Len(requests[awaiting]) + i]
    <2>1. Len(requests[awaiting]) \in Nat /\ envelope \in Nat
        BY <1>4, LenProperties DEF TypeInv, TypeOK
    <2>2. envelope - Len(requests[awaiting]) + i \in 1 .. Len(outbox)
        BY <1>3, <1>4, <2>1, BookkeepingParts DEF RestIsSuffix
    <2> QED
        BY <1>3, <1>4, <2>2, BookkeepingParts DEF RestIsSuffix
<1>5. RestIsSuffix'
    <2>1. envelope <= Len(outbox) + 1
        BY <1>3, BookkeepingParts DEF RestIsSuffix, TypeInv, TypeOK
    <2> QED
        BY <1>2, <1>3, <1>4, <2>1, BookkeepingParts DEF RestIsSuffix
<1>6. HitsKept'
    BY <1>2, BookkeepingParts DEF HitsKept
<1> QED
    BY <1>5, <1>6 DEF Bookkeeping, HitsKept, RestIsSuffix

LEMMA NextBookkeeping ==
    ASSUME TypeInv, Bookkeeping, Next
    PROVE  Bookkeeping'
<1>1. ASSUME NEW F \in Names, NEW d \in Digests, RegistryPush(F, d)
      PROVE  Bookkeeping'
    <2> DEFINE e == [action |-> "push", target |-> F, digest |-> d]
    <2>1. e \in Events /\ Publish(e.action, e.target, e.digest)
        BY <1>1 DEF Events, RegistryPush
    <2> QED
        BY <2>1, RegistryBookkeeping
<1>2. ASSUME NEW r \in Repos, NEW d \in Digests, NEW a \in {"delete", "other"},
             Publish(a, <<r, None>>, d)
      PROVE  Bookkeeping'
    <2> DEFINE e == [action |-> a, target |-> <<r, None>>, digest |-> d]
    <2>1. e \in Events /\ Publish(e.action, e.target, e.digest)
        BY <1>2 DEF Events
    <2> QED
        BY <2>1, RegistryBookkeeping
<1>3. CASE RegistryStep
    <2>1. ASSUME NEW r \in Repos, NEW d \in Digests,
                 RegistryDelete(r, d) \/ RegistryActivity(r, d)
          PROVE  Bookkeeping'
        BY <1>2, <2>1 DEF RegistryDelete, RegistryActivity
    <2> QED
        BY <1>1, <1>3, <2>1 DEF RegistryStep
<1> QED
    BY <1>3, WorkerBookkeeping, SinkBookkeeping, HandlerBookkeeping DEF Next

------------------------------------------------------------------------------
(* What keeps a name settled                                                *)

\* RestAgrees, where the index may also hold one of M: what it holds while the
\* right image is still to come.
Rest(F, M) ==
    ~Doomed(F) /\ (\A d \in Digests : ~PushPending(F, d)) =>
        index[F] = tags[F] \/ index[F] \in M

Current(F, M) == PushIsCurrent(F) /\ DoomedIsGone(F) /\ Rest(F, M)

LEMMA SettledParts ==
    Settled <=> \A F \in Names \ suspect : Current(F, {}) /\ HandedIsApplied(F)
    BY DEF Settled, Current, Rest, RestAgrees

\* Nothing happens to the name but that jobs it does not need disappear.
LEMMA CurrentKept ==
    ASSUME NEW F \in Names, NEW M, Current(F, M),
           tags'[F] = tags[F], index'[F] = index[F], Doomed(F)' <=> Doomed(F),
           \A d \in Digests : PushPending(F, d)' => PushPending(F, d),
           \A d \in Digests : PushPending(F, d) => PushPending(F, d)' \/ index[F] = d,
           \A d \in Digests : DeletePending(d)' => DeletePending(d)
    PROVE  Current(F, M)'
<1>1. PushIsCurrent(F)'
    BY DEF Current, PushIsCurrent
<1>2. DoomedIsGone(F)'
    BY DEF Current, DoomedIsGone
<1>3. Rest(F, M)'
    BY DEF Current, PushIsCurrent, Rest
<1> QED
    BY <1>1, <1>2, <1>3 DEF Current

\* No job comes, goes or changes what it is about to do.
LEMMA DoomedKept ==
    ASSUME TypeInv, NEW F \in Names, index'[F] = index[F], Hit(F)' <=> Hit(F),
           \A d \in Digests : DeletePending(d)' <=> DeletePending(d)
    PROVE  Doomed(F)' <=> Doomed(F)
<1>1. index[F] \in Digests \cup {None}
    BY DEF TypeInv, TypeOK
<1> QED
    BY <1>1 DEF Doomed

\* Nothing is delivered, applied or found: only the place of a job changes.
LEMMA CurrentFrame ==
    ASSUME TypeInv, NEW F \in Names, NEW M, Current(F, M),
           tags'[F] = tags[F], index'[F] = index[F], Hit(F)' <=> Hit(F),
           \A d \in Digests : PushPending(F, d)' <=> PushPending(F, d),
           \A d \in Digests : DeletePending(d)' <=> DeletePending(d)
    PROVE  Current(F, M)'
    BY CurrentKept, DoomedKept

LEMMA HitFrame ==
    ASSUME UNCHANGED hits, NEW F
    PROVE  Hit(F)' <=> Hit(F)
    BY DEF Hit

\* What an action on the worker w does to the hits of the others.
LEMMA FinishHits ==
    ASSUME TypeInv, Bookkeeping, NEW w \in Workers, pc[w] # "Delete", Finish(w), NEW F
    PROVE  Hit(F)' <=> Hit(F)
<1>1. hits[w] = {} /\ hits'[w] = {} /\ \A v \in Workers \ {w} : hits'[v] = hits[v]
    BY BookkeepingParts DEF HitsKept, Finish, TypeInv, TypeOK
<1> QED
    BY <1>1 DEF Hit

\* A job that has no copy left is the one the worker held.
LEMMA DropInFlight ==
    ASSUME TypeInv, NEW w \in Workers, NEW j,
           GetImageFails(w) \/ IndexFails(w) \/ IndexImage(w) \/ Search(w)
    PROVE  /\ InFlight(j)' => InFlight(j)
           /\ InFlight(j) => InFlight(j)' \/ j = job[w]
           /\ InFlight(job[w])
<1>1. UNCHANGED outbox
    BY DEF GetImageFails, IndexFails, IndexImage, Search, delivery
<1>2. Reported(j, outbox)' <=> Reported(j, outbox)
    BY <1>1 DEF Reported
<1>3. Delivering(job[w])
    BY DEF Delivering, GetImageFails, IndexFails, IndexImage, Search
<1> QED
    BY <1>2, <1>3, DropFlight DEF InFlight

\* These steps leave every job in flight.
LEMMA StillInFlight ==
    ASSUME TypeInv, NEW j,
           \/ \E w \in Workers :
                 \/ Receive(w) \/ GetImage(w) \/ FindImage(w) \/ FindFails(w)
                 \/ \E F \in Names : Delete(w, F) \/ DeleteFails(w, F)
           \/ \E h \in Requests : Submit(h) \/ Ignore(h) \/ Post(h)
           \/ Timeout
    PROVE  InFlight(j)' <=> InFlight(j)
<1>1. UNCHANGED outbox
    BY DEF Receive, GetImage, FindImage, FindFails, Delete, DeleteFails, Submit, Ignore,
       Post, Timeout, delivery
<1>2. Reported(j, outbox)' <=> Reported(j, outbox)
    BY <1>1 DEF Reported
<1>3. CASE Timeout
    BY <1>2, <1>3, OtherFlight DEF InFlight, Timeout, worker
<1>4. ASSUME NEW h \in Requests, Post(h)
      PROVE  InFlight(j)' <=> InFlight(j)
    BY <1>2, <1>4, PostFlight DEF InFlight
<1>5. ASSUME NEW h \in Requests, Submit(h) \/ Ignore(h)
      PROVE  InFlight(j)' <=> InFlight(j)
    BY <1>2, <1>5, SubmitFlight, IgnoreFlight DEF InFlight
<1>6. ASSUME NEW w \in Workers,
             Receive(w) \/ GetImage(w) \/ FindImage(w) \/ FindFails(w)
      PROVE  InFlight(j)' <=> InFlight(j)
    BY <1>2, <1>6, ReceiveFlight, KeepFlight DEF InFlight
<1>7. ASSUME NEW w \in Workers, NEW F \in Names, Delete(w, F) \/ DeleteFails(w, F)
      PROVE  InFlight(j)' <=> InFlight(j)
    BY <1>2, <1>7, DeleteFlight DEF InFlight
<1> QED
    BY <1>3, <1>4, <1>5, <1>6, <1>7

------------------------------------------------------------------------------
(* The workers                                                              *)

\* These steps move a job, or process an event, and change nothing else.
LEMMA MovesCurrent ==
    ASSUME TypeInv, NEW F \in Names, NEW M, Current(F, M),
           \/ \E w \in Workers :
                 Receive(w) \/ GetImage(w) \/ FindImage(w) \/ FindFails(w)
           \/ \E h \in Requests : Submit(h) \/ Ignore(h) \/ Post(h)
           \/ Timeout
    PROVE  Current(F, M)'
<1>1. UNCHANGED <<tags, index, hits>>
    BY DEF Receive, GetImage, FindImage, FindFails, Submit, Ignore, Post, Timeout,
       registry, worker
<1>2. \A j : InFlight(j)' <=> InFlight(j)
    BY StillInFlight
<1>3. \A d \in Digests : /\ PushPending(F, d)' <=> PushPending(F, d)
                         /\ DeletePending(d)' <=> DeletePending(d)
    BY <1>2 DEF PushPending, DeletePending
<1> QED
    BY <1>1, <1>3, HitFrame, CurrentFrame

\* The image of the dropped job makes the name of the job suspect, no other.
LEMMA JobFailsCurrent ==
    ASSUME TypeInv, Bookkeeping, NEW w \in Workers, GetImageFails(w) \/ IndexFails(w),
           NEW F \in Names, F # job[w].name, NEW M, Current(F, M)
    PROVE  Current(F, M)'
<1>1. UNCHANGED <<tags, index>> /\ Finish(w) /\ pc[w] \in {"GetImage", "IndexImage"}
    BY DEF GetImageFails, IndexFails, registry
<1>2. job[w].action = "push"
    BY <1>1 DEF TypeInv, Busy
<1>3. \A j : (InFlight(j)' => InFlight(j)) /\ (InFlight(j) => InFlight(j)' \/ j = job[w])
    BY DropInFlight
<1>4. \A d \in Digests : PushJob(F, d) # job[w] /\ DeleteJob(d) # job[w]
    BY <1>2 DEF PushJob, DeleteJob
<1>5. \A d \in Digests : /\ PushPending(F, d)' <=> PushPending(F, d)
                         /\ DeletePending(d)' <=> DeletePending(d)
    BY <1>3, <1>4 DEF PushPending, DeletePending
<1> QED
    BY <1>1, <1>5, FinishHits, CurrentFrame

LEMMA IndexImageCurrent ==
    ASSUME TypeInv, Bookkeeping, NEW w \in Workers, IndexImage(w),
           NEW F \in Names, NEW M, Current(F, M)
    PROVE  Current(F, M)'
<1>1. /\ pc[w] = "IndexImage" /\ Finish(w) /\ UNCHANGED tags
      /\ index' = [index EXCEPT ![job[w].name] = job[w].digest]
    BY DEF IndexImage, registry
<1>2. job[w].action = "push" /\ job[w] \in Jobs
    BY <1>1 DEF TypeInv, Busy
<1>3. PICK d \in Digests : d = job[w].digest /\ job[w] = PushJob(job[w].name, d)
    BY <1>2 DEF Jobs, PushJob
<1>4. \A j : (InFlight(j)' => InFlight(j)) /\ (InFlight(j) => InFlight(j)' \/ j = job[w])
    BY DropInFlight
<1>5. \A x \in Digests : DeleteJob(x) # job[w]
    BY <1>2 DEF DeleteJob
<1>6. \A x \in Digests : /\ PushPending(F, x)' => PushPending(F, x)
                         /\ DeletePending(x)' <=> DeletePending(x)
    BY <1>4, <1>5 DEF PushPending, DeletePending
<1>7. Hit(F)' <=> Hit(F)
    BY <1>1, FinishHits
<1>8. CASE F # job[w].name
    <2>1. \A x \in Digests : PushPending(F, x) => PushPending(F, x)'
        <3>1. \A x \in Digests : PushJob(F, x) # job[w]
            BY <1>8 DEF PushJob
        <3> QED
            BY <1>4, <3>1 DEF PushPending
    <2>2. index'[F] = index[F]
        BY <1>1, <1>8 DEF TypeInv, TypeOK
    <2> QED
        BY <1>1, <1>6, <1>7, <2>1, <2>2, CurrentFrame
<1>9. CASE F = job[w].name
    <2>1. PushPending(F, d)
        <3>1. InFlight(job[w])
            BY DropInFlight
        <3> QED
            BY <1>3, <1>9, <3>1 DEF PushPending
    <2>2. tags[F] = d /\ ~Doomed(F) /\ ~DeletePending(d)
        BY <1>3, <2>1 DEF Current, PushIsCurrent
    <2>3. index'[F] = d
        BY <1>1, <1>3, <1>9 DEF TypeInv, TypeOK
    <2>4. ~Doomed(F)' /\ ~DeletePending(d)'
        BY <1>3, <1>6, <1>7, <2>2, <2>3 DEF Doomed
    <2>5. \A x \in Digests : PushPending(F, x)' => x = d
        BY <1>6, <2>2 DEF Current, PushIsCurrent
    <2>6. PushIsCurrent(F)'
        BY <1>1, <2>2, <2>4, <2>5 DEF PushIsCurrent
    <2> QED
        BY <1>1, <2>2, <2>3, <2>4, <2>6 DEF Current, DoomedIsGone, Rest
<1> QED
    BY <1>8, <1>9

\* A page of hits, or none if nothing carries the digest; the names the page
\* misses become suspect.
LEMMA SearchCurrent ==
    ASSUME TypeInv, Bookkeeping, NEW w \in Workers, Search(w),
           NEW F \in Names, F \notin Matches(job[w].digest) \ hits'[w],
           NEW M, Current(F, M)
    PROVE  Current(F, M)'
<1>1. pc[w] = "Search" /\ UNCHANGED <<tags, index>>
    BY DEF Search, registry
<1>2. job[w].action = "delete" /\ job[w] \in Jobs
    BY <1>1 DEF TypeInv, Busy
<1>3. PICK d \in Digests : d = job[w].digest /\ job[w] = DeleteJob(d)
    BY <1>2 DEF Jobs, DeleteJob
<1>4. /\ DeletePending(d)
      /\ \A x \in Digests : /\ DeletePending(x)' => DeletePending(x)
                            /\ DeletePending(x) => DeletePending(x)' \/ x = d
                            /\ PushPending(F, x)' <=> PushPending(F, x)
    <2>1. \A j : /\ InFlight(j)' => InFlight(j)
                 /\ InFlight(j) => InFlight(j)' \/ j = job[w]
        BY DropInFlight
    <2>2. InFlight(job[w])
        BY DropInFlight
    <2>3. \A x \in Digests : /\ PushJob(F, x) # job[w]
                             /\ DeleteJob(x) = job[w] => x = d
        BY <1>2, <1>3 DEF PushJob, DeleteJob
    <2> QED
        BY <1>3, <2>1, <2>2, <2>3 DEF PushPending, DeletePending
<1>5. Doomed(F)' <=> Doomed(F)
    <2>1. CASE index[F] = d
        <3>1. F \in Matches(job[w].digest)
            BY <1>3, <2>1 DEF Matches
        <3>2. F \in hits'[w]
            BY <3>1
        <3>3. Hit(F)'
            BY <3>2 DEF Hit
        <3>4. index[F] # None
            BY <1>3, <2>1, NoneAssumption
        <3> QED
            BY <1>4, <2>1, <3>3, <3>4 DEF Doomed
    <2>2. CASE index[F] # d
        <3>1. F \notin Matches(job[w].digest)
            BY <1>3, <2>2 DEF Matches
        <3>2. F \notin hits'[w] /\ F \notin hits[w]
            BY <1>1, <3>1, BookkeepingParts DEF HitsKept, Search, Finish, Page, TypeInv, TypeOK
        <3>3. \A v \in Workers \ {w} : hits'[v] = hits[v]
            BY DEF Search, Finish, TypeInv, TypeOK
        <3>4. Hit(F)' <=> Hit(F)
            BY <3>2, <3>3 DEF Hit
        <3>5. index[F] \in Digests \cup {None}
            BY DEF TypeInv, TypeOK
        <3> QED
            BY <1>1, <1>4, <2>2, <3>4, <3>5 DEF Doomed
    <2> QED
        BY <2>1, <2>2
<1> QED
    BY <1>1, <1>4, <1>5, CurrentKept

\* A document the worker had found is removed.
LEMMA DeleteCurrent ==
    ASSUME TypeInv, NEW w \in Workers, NEW G \in Names, Delete(w, G),
           NEW F \in Names, NEW M, Current(F, M)
    PROVE  Current(F, M)'
<1>1. /\ pc[w] = "Delete" /\ G \in hits[w] /\ UNCHANGED tags
      /\ index' = [index EXCEPT ![G] = None]
      /\ hits'[w] = hits[w] \ {G}
      /\ \A v \in Workers \ {w} : hits'[v] = hits[v]
    BY DEF Delete, Finish, registry, TypeInv, TypeOK
<1>2. \A x \in Digests : /\ PushPending(F, x)' <=> PushPending(F, x)
                         /\ DeletePending(x)' <=> DeletePending(x)
    BY StillInFlight DEF PushPending, DeletePending
<1>3. CASE F # G
    <2>1. Hit(F)' <=> Hit(F)
        BY <1>1, <1>3 DEF Hit
    <2>2. index'[F] = index[F]
        BY <1>1, <1>3 DEF TypeInv, TypeOK
    <2> QED
        BY <1>1, <1>2, <2>1, <2>2, CurrentFrame
<1>4. CASE F = G
    <2>1. Doomed(F)
        BY <1>1, <1>4 DEF Doomed, Hit
    <2>2. tags[F] = None /\ \A x \in Digests : ~PushPending(F, x)
        BY <2>1 DEF Current, DoomedIsGone
    <2>3. \A x \in Digests : ~PushPending(F, x)'
        BY <1>2, <2>2
    <2>4. index'[F] = tags'[F]
        BY <1>1, <1>4, <2>2 DEF TypeInv, TypeOK
    <2>5. tags'[F] = None
        BY <1>1, <2>2
    <2> QED
        BY <2>3, <2>4, <2>5 DEF Current, PushIsCurrent, DoomedIsGone, Rest
<1> QED
    BY <1>3, <1>4

\* A document stays, and its name is suspect from then on; no other name is.
LEMMA DeleteFailsCurrent ==
    ASSUME TypeInv, NEW w \in Workers, NEW G \in Names, DeleteFails(w, G),
           NEW F \in Names, F # G, NEW M, Current(F, M)
    PROVE  Current(F, M)'
<1>1. /\ UNCHANGED <<tags, index>> /\ hits'[w] = hits[w] \ {G}
      /\ \A v \in Workers \ {w} : hits'[v] = hits[v]
    BY DEF DeleteFails, Finish, registry, TypeInv, TypeOK
<1>2. \A x \in Digests : /\ PushPending(F, x)' <=> PushPending(F, x)
                         /\ DeletePending(x)' <=> DeletePending(x)
    BY StillInFlight DEF PushPending, DeletePending
<1>3. Hit(F)' <=> Hit(F)
    BY <1>1 DEF Hit
<1> QED
    BY <1>1, <1>2, <1>3, CurrentFrame

------------------------------------------------------------------------------
(* The registry and its sink                                                *)

LEMMA ReportedSuffix ==
    ASSUME NEW S, NEW s \in Seq(S), NEW n \in 0 .. Len(s), NEW j
    PROVE  /\ Reported(j, SubSeq(s, n + 1, Len(s))) => Reported(j, s)
           /\ Reported(j, s) =>
                 \/ Reported(j, SubSeq(s, n + 1, Len(s)))
                 \/ \E i \in 1 .. n : s[i].action # "other" /\ JobOf(s[i]) = j
<1> DEFINE t == SubSeq(s, n + 1, Len(s))
<1>1. Len(s) \in Nat /\ n \in Nat /\ n <= Len(s) /\ DOMAIN s = 1 .. Len(s)
    BY LenProperties
<1>2. \A i \in n + 1 .. Len(s) : s[i] \in S
    BY <1>1, ElementOfSeq
<1>3. /\ t \in Seq(S) /\ Len(t) = Len(s) - n
      /\ \A i \in 1 .. Len(s) - n : t[i] = s[n + i]
    <2>1. \A i \in 1 .. Len(s) - n : (n + 1) + i - 1 = n + i
        BY <1>1
    <2>2. Len(t) = IF n + 1 <= Len(s) THEN Len(s) - (n + 1) + 1 ELSE 0
        BY <1>1, <1>2, SubSeqProperties
    <2>3. /\ t \in Seq(S)
          /\ \A i \in 1 .. Len(s) - (n + 1) + 1 : t[i] = s[(n + 1) + i - 1]
        BY <1>1, <1>2, SubSeqProperties
    <2>4. Len(s) - (n + 1) + 1 = Len(s) - n
        BY <1>1
    <2>5. Len(t) = Len(s) - n
        <3> HIDE DEF t
        <3>1. CASE n = Len(s)
            BY <1>1, <2>2, <3>1
        <3>2. CASE n # Len(s)
            <4>1. \A k \in Nat : n <= k /\ n # k => n + 1 <= k
                BY <1>1, SMT
            <4>2. n + 1 <= Len(s)
                BY <1>1, <3>2, <4>1, Zenon
            <4> QED
                BY <2>2, <2>4, <4>2
        <3> QED
            BY <3>1, <3>2
    <2>6. ASSUME NEW i \in 1 .. Len(s) - n PROVE t[i] = s[n + i]
        BY <2>1, <2>3, <2>4
    <2> HIDE DEF t
    <2> QED
        BY <2>3, <2>5, <2>6
<1>4. DOMAIN t = 1 .. Len(s) - n
    BY <1>3, LenProperties
<1> HIDE DEF t
<1>5. ASSUME Reported(j, t) PROVE Reported(j, s)
    <2>1. PICK i \in 1 .. Len(s) - n : t[i].action # "other" /\ JobOf(t[i]) = j
        BY <1>4, <1>5 DEF Reported
    <2>2. n + i \in 1 .. Len(s) /\ t[i] = s[n + i]
        BY <1>1, <1>3
    <2> QED
        BY <1>1, <2>1, <2>2 DEF Reported
<1>6. ASSUME Reported(j, s),
             ~ \E i \in 1 .. n : s[i].action # "other" /\ JobOf(s[i]) = j
      PROVE  Reported(j, t)
    <2>1. PICK i \in 1 .. Len(s) : s[i].action # "other" /\ JobOf(s[i]) = j
        BY <1>1, <1>6 DEF Reported
    <2>2. i \notin 1 .. n
        BY <1>6, <2>1
    <2>3. i - n \in 1 .. Len(s) - n /\ n + (i - n) = i
        BY <1>1, <2>2
    <2>4. t[i - n] = s[i]
        BY <1>3, <2>3
    <2> QED
        BY <1>4, <2>1, <2>3, <2>4 DEF Reported
<1> QED
    BY <1>5, <1>6 DEF t

\* The events of the acknowledged notification leave the outbox, and each of
\* them was applied or is still on its way.
LEMMA AcknowledgeCurrent ==
    ASSUME TypeInv, Bookkeeping, Acknowledge, NEW F \in Names, NEW M, Current(F, M),
           HandedIsApplied(F)
    PROVE  Current(F, M)'
<1>1. /\ UNCHANGED <<tags, index, hits, requests, notifications, pc, job>>
      /\ outbox' = SubSeq(outbox, envelope + 1, Len(outbox))
      /\ awaiting # None /\ requests[awaiting] = <<>>
    BY DEF Acknowledge, registry, worker
<1>2. /\ outbox \in Seq(Events) /\ Len(outbox) \in Nat
      /\ envelope \in 0 .. Len(outbox)
    BY BookkeepingParts, LenProperties DEF RestIsSuffix, TypeInv, TypeOK
<1>3. \A i \in 1 .. envelope : Handled(F, outbox[i]) /\ outbox[i] \in Events
    <2>1. Len(requests[awaiting]) = 0
        BY <1>1, EmptySeq
    <2>2. envelope - Len(requests[awaiting]) = envelope
        BY <1>2, <2>1
    <2>3. \A i \in 1 .. envelope : outbox[i] \in Events
        BY <1>2, ElementOfSeq
    <2> QED
        BY <1>1, <2>2, <2>3 DEF HandedIsApplied
<1>4. \A j : Delivering(j)' <=> Delivering(j)
    BY <1>1, OtherFlight
<1>5. \A j : /\ Reported(j, outbox') => Reported(j, outbox)
             /\ Reported(j, outbox) =>
                   \/ Reported(j, outbox')
                   \/ \E i \in 1 .. envelope :
                         outbox[i].action # "other" /\ JobOf(outbox[i]) = j
    BY <1>1, <1>2, ReportedSuffix
<1>6. \A j : Reported(j, outbox)' <=> Reported(j, outbox')
    BY DEF Reported
<1>7. \A j : /\ InFlight(j)' => InFlight(j)
             /\ InFlight(j) =>
                   \/ InFlight(j)' 
                   \/ /\ ~Delivering(j)
                      /\ \E i \in 1 .. envelope :
                            outbox[i].action # "other" /\ JobOf(outbox[i]) = j
    BY <1>4, <1>5, <1>6 DEF InFlight
<1>8. \A d \in Digests : /\ PushPending(F, d)' => PushPending(F, d)
                         /\ DeletePending(d)' => DeletePending(d)
    BY <1>7 DEF PushPending, DeletePending
<1>9. \A d \in Digests : PushPending(F, d) => PushPending(F, d)' \/ index[F] = d
    <2> SUFFICES ASSUME NEW d \in Digests, PushPending(F, d), ~PushPending(F, d)'
                 PROVE  index[F] = d
        OBVIOUS
    <2>1. PICK i \in 1 .. envelope : /\ outbox[i].action # "other"
                                     /\ JobOf(outbox[i]) = PushJob(F, d)
                                     /\ ~Delivering(PushJob(F, d))
        BY <1>7 DEF PushPending
    <2>2. outbox[i].action = "push" /\ outbox[i].target = F /\ outbox[i].digest = d
        BY <2>1 DEF JobOf, PushJob
    <2> QED
        BY <1>3, <2>1, <2>2 DEF Handled
<1>10. Doomed(F)' <=> Doomed(F)
    <2>1. Hit(F)' <=> Hit(F)
        BY <1>1, HitFrame
    <2>2. index[F] \in Digests \cup {None} /\ index'[F] = index[F]
        BY <1>1 DEF TypeInv, TypeOK
    <2>3. ASSUME NEW d \in Digests, index[F] = d, DeletePending(d), ~Hit(F)
          PROVE  DeletePending(d)'
        <3> SUFFICES ASSUME ~DeletePending(d)' PROVE FALSE
            OBVIOUS
        <3>1. PICK i \in 1 .. envelope : /\ outbox[i].action # "other"
                                         /\ JobOf(outbox[i]) = DeleteJob(d)
                                         /\ ~Delivering(DeleteJob(d))
            BY <1>7, <2>3 DEF DeletePending
        <3>2. outbox[i].action = "delete" /\ outbox[i].digest = d
            BY <3>1 DEF JobOf, DeleteJob
        <3> QED
            BY <1>3, <2>3, <3>1, <3>2 DEF Handled
    <2>4. \A d \in Digests : index[F] = d /\ ~Hit(F) =>
                               (DeletePending(d)' <=> DeletePending(d))
        BY <1>8, <2>3
    <2> QED
        BY <2>1, <2>2, <2>4 DEF Doomed
<1> QED
    BY <1>1, <1>8, <1>9, <1>10, CurrentKept

\* A push that overlaps nothing makes its own name settled, whatever it was.
LEMMA PushCurrent ==
    ASSUME TypeInv, NEW G \in Names, NEW d \in Digests, RegistryPush(G, d),
           NEW F \in Names, NEW M,
           F = G => ~PushOverlaps(G, d),
           F # G => Current(F, M)
    PROVE  Current(F, M)'
<1> DEFINE e == [action |-> "push", target |-> G, digest |-> d]
<1>1. /\ e \in Events /\ Publish(e.action, e.target, e.digest)
      /\ UNCHANGED <<index, hits>> /\ tags' = [tags EXCEPT ![G] = d]
      /\ JobOf(e) = PushJob(G, d) /\ e.action # "other"
    BY DEF RegistryPush, Publish, worker, Events, JobOf, PushJob
<1>2. \A j : InFlight(j)' <=> InFlight(j) \/ j = PushJob(G, d)
    BY <1>1, PublishFlight
<1>3. \A x \in Digests :
          /\ DeletePending(x)' <=> DeletePending(x)
          /\ PushPending(F, x)' <=> PushPending(F, x) \/ (F = G /\ x = d)
    BY <1>2 DEF DeletePending, PushPending, PushJob, DeleteJob
<1>4. Hit(F)' <=> Hit(F)
    BY <1>1, HitFrame
<1>5. CASE F # G
    <2>1. tags'[F] = tags[F]
        BY <1>1, <1>5 DEF TypeInv, TypeOK
    <2> QED
        BY <1>1, <1>3, <1>4, <1>5, <2>1, CurrentFrame
<1>6. CASE F = G
    <2>1. /\ ~Doomed(F) /\ ~DeletePending(d)
          /\ \A x \in Digests : PushPending(F, x)' <=> x = d
        BY <1>3, <1>6 DEF PushOverlaps
    <2>2. tags'[F] = d
        BY <1>1, <1>6 DEF TypeInv, TypeOK
    <2>3. ~Doomed(F)'
        BY <1>1, <1>3, <1>4, <2>1, DoomedKept
    <2> QED
        BY <1>3, <2>1, <2>2, <2>3 DEF Current, PushIsCurrent, DoomedIsGone, Rest
<1> QED
    BY <1>5, <1>6

\* A delete leaves settled the names it takes from both sides, and those of
\* other images.
LEMMA RegistryDeleteCurrent ==
    ASSUME TypeInv, NEW r \in Repos, NEW d \in Digests, RegistryDelete(r, d),
           NEW F \in Names, F \notin DeleteOverlaps(r, d),
           NEW M, M \subseteq {None}, Current(F, M)
    PROVE  Current(F, M)'
<1> DEFINE e == [action |-> "delete", target |-> <<r, None>>, digest |-> d]
<1>1. /\ e \in Events /\ Publish(e.action, e.target, e.digest)
      /\ UNCHANGED <<index, hits>>
      /\ tags' = [N \in Names |-> IF N \in Untagged(r, d) THEN None ELSE tags[N]]
      /\ JobOf(e) = DeleteJob(d) /\ e.action # "other"
    BY DEF RegistryDelete, Publish, worker, Events, JobOf, DeleteJob
<1>2. \A j : InFlight(j)' <=> InFlight(j) \/ j = DeleteJob(d)
    BY <1>1, PublishFlight
<1>3. \A x \in Digests :
          /\ DeletePending(x)' <=> DeletePending(x) \/ x = d
          /\ PushPending(F, x)' <=> PushPending(F, x)
    BY <1>2 DEF DeletePending, PushPending, PushJob, DeleteJob
<1>4. Hit(F)' <=> Hit(F)
    BY <1>1, HitFrame
<1>5. /\ ~PushPending(F, d)
      /\ index[F] = d => tags[F] = None \/ F \in Untagged(r, d)
    BY DEF DeleteOverlaps
<1>6. index[F] \in Digests \cup {None} /\ index'[F] = index[F]
    BY <1>1 DEF TypeInv, TypeOK
<1>7. CASE index[F] = d
    <2>1. tags'[F] = None
        BY <1>1, <1>5, <1>7
    <2>2. \A x \in Digests : ~PushPending(F, x)
        BY <1>5, <1>7, NoneAssumption DEF Untagged, Current, PushIsCurrent
    <2>3. \A x \in Digests : ~PushPending(F, x)'
        BY <1>3, <2>2
    <2>4. Doomed(F)'
        BY <1>3, <1>6, <1>7, NoneAssumption DEF Doomed
    <2> QED
        BY <2>1, <2>3, <2>4 DEF Current, PushIsCurrent, DoomedIsGone, Rest
<1>8. CASE index[F] # d
    <2>1. Doomed(F)' <=> Doomed(F)
        BY <1>3, <1>4, <1>6, <1>8 DEF Doomed
    <2>2. CASE F \in Untagged(r, d)
        <3>1. tags[F] = d /\ tags'[F] = None
            BY <1>1, <2>2 DEF Untagged
        <3>2. \A x \in Digests : ~PushPending(F, x)
            BY <1>5, <3>1 DEF Current, PushIsCurrent
        <3>3. ~Doomed(F)
            BY <3>1, NoneAssumption DEF Current, DoomedIsGone
        <3>4. index[F] = None
            BY <1>8, <3>1, <3>2, <3>3 DEF Current, Rest
        <3> QED
            BY <1>3, <1>6, <2>1, <3>1, <3>2, <3>3, <3>4
               DEF Current, PushIsCurrent, DoomedIsGone, Rest
    <2>3. CASE F \notin Untagged(r, d)
        <3>1. tags'[F] = tags[F]
            BY <1>1, <2>3
        <3>2. ASSUME NEW x \in Digests, PushPending(F, x)'
              PROVE  tags'[F] = x /\ ~Doomed(F)' /\ ~DeletePending(x)'
            <4>1. PushPending(F, x) /\ x # d
                BY <1>3, <1>5, <3>2
            <4> QED
                BY <1>3, <2>1, <3>1, <4>1 DEF Current, PushIsCurrent
        <3>3. PushIsCurrent(F)'
            BY <3>2 DEF PushIsCurrent
        <3>4. DoomedIsGone(F)' /\ Rest(F, M)'
            BY <1>3, <1>6, <2>1, <3>1 DEF Current, DoomedIsGone, Rest
        <3> QED
            BY <3>3, <3>4 DEF Current
    <2> QED
        BY <2>2, <2>3
<1> QED
    BY <1>7, <1>8

LEMMA ActivityCurrent ==
    ASSUME TypeInv, NEW r \in Repos, NEW d \in Digests, RegistryActivity(r, d),
           NEW F \in Names, NEW M, Current(F, M)
    PROVE  Current(F, M)'
<1> DEFINE e == [action |-> "other", target |-> <<r, None>>, digest |-> d]
<1>1. /\ e \in Events /\ Publish(e.action, e.target, e.digest)
      /\ UNCHANGED <<index, hits, tags>> /\ e.action = "other"
    BY DEF RegistryActivity, Publish, worker, Events
<1>2. \A j : InFlight(j)' <=> InFlight(j)
    BY <1>1, PublishFlight
<1>3. \A x \in Digests : /\ DeletePending(x)' <=> DeletePending(x)
                         /\ PushPending(F, x)' <=> PushPending(F, x)
    BY <1>2 DEF DeletePending, PushPending
<1> QED
    BY <1>1, <1>3, HitFrame, CurrentFrame

------------------------------------------------------------------------------
(* Events that were handed over and not acknowledged                        *)

\* The events the awaited handler is done with are among those of the outbox.
LEMMA HandedInOutbox ==
    ASSUME TypeInv, Bookkeeping, awaiting # None,
           NEW i \in 1 .. envelope - Len(requests[awaiting])
    PROVE  /\ outbox[i] \in Events
           /\ outbox[i].action # "other" => InFlight(JobOf(outbox[i]))
<1>1. requests[awaiting] \in Seq(Events) /\ envelope \in Nat /\ outbox \in Seq(Events)
    BY DEF TypeInv, TypeOK
<1>2. Len(requests[awaiting]) \in Nat /\ Len(outbox) \in Nat /\ envelope <= Len(outbox)
    BY <1>1, BookkeepingParts, LenProperties DEF RestIsSuffix
<1>3. i \in 1 .. Len(outbox)
    BY <1>1, <1>2
<1>4. i \in DOMAIN outbox /\ outbox[i] \in Events
    BY <1>1, <1>3, LenProperties, ElementOfSeq
<1> QED
    BY <1>4 DEF InFlight, Reported

LEMMA HandedKept ==
    ASSUME TypeInv, Bookkeeping, NEW F \in Names, HandedIsApplied(F),
           UNCHANGED <<outbox, envelope, awaiting, requests>>,
           \A e \in Events :
               /\ e.action # "other" => InFlight(JobOf(e))
               /\ Handled(F, e)
               => Handled(F, e)'
    PROVE  HandedIsApplied(F)'
<1>1. ASSUME awaiting # None, NEW i \in 1 .. envelope - Len(requests[awaiting])
      PROVE  Handled(F, outbox[i])'
    <2>1. PICK e \in Events : e = outbox[i]
        BY <1>1, HandedInOutbox
    <2>2. Handled(F, e) /\ (e.action # "other" => InFlight(JobOf(e)))
        BY <1>1, <2>1, HandedInOutbox DEF HandedIsApplied
    <2>3. Handled(F, e)'
        BY <2>2
    <2> QED
        BY <2>1, <2>3 DEF Handled
<1> QED
    BY <1>1 DEF HandedIsApplied

\* An event stays handled as long as its job is not dropped.
LEMMA HandledKept ==
    ASSUME NEW F \in Names, NEW e \in Events, Handled(F, e),
           index'[F] = index[F], Hit(F) => Hit(F)',
           e.action \in {"push", "delete"} /\ Delivering(JobOf(e)) => Delivering(JobOf(e))'
    PROVE  Handled(F, e)'
    BY DEF Handled

\* The jobs of events, told apart.
LEMMA JobOfEvent ==
    ASSUME NEW e \in Events
    PROVE  /\ e.action = "push" => /\ e.target \in Names /\ e.digest \in Digests
                                   /\ JobOf(e) = PushJob(e.target, e.digest)
           /\ e.action = "delete" => /\ e.digest \in Digests
                                     /\ JobOf(e) = DeleteJob(e.digest)
    BY DEF Events, JobOf, PushJob, DeleteJob

LEMMA MovesHanded ==
    ASSUME TypeInv, Bookkeeping, NEW F \in Names, HandedIsApplied(F), NEW w \in Workers,
           Receive(w) \/ GetImage(w) \/ FindImage(w) \/ FindFails(w)
    PROVE  HandedIsApplied(F)'
<1>1. UNCHANGED <<outbox, envelope, awaiting, requests, index, hits>>
    BY DEF Receive, GetImage, FindImage, FindFails, delivery
<1>2. \A j : Delivering(j)' <=> Delivering(j)
    BY ReceiveFlight, KeepFlight
<1>3. \A e \in Events : Handled(F, e) => Handled(F, e)'
    BY <1>1, <1>2, HitFrame, HandledKept
<1> QED
    BY <1>1, <1>3, HandedKept

LEMMA JobFailsHanded ==
    ASSUME TypeInv, Bookkeeping, NEW w \in Workers, GetImageFails(w) \/ IndexFails(w),
           NEW F \in Names, F # job[w].name, HandedIsApplied(F)
    PROVE  HandedIsApplied(F)'
<1>1. /\ UNCHANGED <<outbox, envelope, awaiting, requests, index>>
      /\ Finish(w) /\ pc[w] \in {"GetImage", "IndexImage"}
    BY DEF GetImageFails, IndexFails, delivery
<1>2. job[w].action = "push"
    BY <1>1 DEF TypeInv, Busy
<1>3. ASSUME NEW e \in Events, Handled(F, e)
      PROVE  Handled(F, e)'
    <2>1. e.action = "push" /\ e.target # F => Handled(F, e)'
        BY DEF Handled
    <2>2. CASE ~(e.action = "push" /\ e.target # F)
        <3>1. e.action \in {"push", "delete"} => JobOf(e) # job[w]
            BY <1>2, <2>2, JobOfEvent DEF PushJob, DeleteJob
        <3>2. e.action \in {"push", "delete"} /\ Delivering(JobOf(e)) => Delivering(JobOf(e))'
            BY <3>1, DropFlight
        <3> QED
            BY <1>1, <1>3, <3>2, FinishHits, HandledKept
    <2> QED
        BY <2>1, <2>2
<1> QED
    BY <1>1, <1>3, HandedKept

LEMMA IndexImageHanded ==
    ASSUME TypeInv, Bookkeeping, NEW w \in Workers, IndexImage(w),
           NEW F \in Names, NEW M, Current(F, M), HandedIsApplied(F)
    PROVE  HandedIsApplied(F)'
<1>1. /\ UNCHANGED <<outbox, envelope, awaiting, requests>>
      /\ index' = [index EXCEPT ![job[w].name] = job[w].digest]
      /\ Finish(w) /\ pc[w] = "IndexImage"
    BY DEF IndexImage, delivery
<1>2. job[w].action = "push" /\ job[w] \in Jobs
    BY <1>1 DEF TypeInv, Busy
<1>3. PICK d \in Digests : d = job[w].digest /\ job[w] = PushJob(job[w].name, d)
    BY <1>2 DEF Jobs, PushJob
<1>4. Hit(F)' <=> Hit(F)
    BY <1>1, FinishHits
<1>5. ASSUME NEW e \in Events, Handled(F, e), e.action # "other" => InFlight(JobOf(e))
      PROVE  Handled(F, e)'
    <2>1. Delivering(JobOf(e)) => Delivering(JobOf(e))' \/ JobOf(e) = job[w]
        BY DropFlight
    <2>2. CASE F # job[w].name
        <3>1. index'[F] = index[F]
            BY <1>1, <2>2 DEF TypeInv, TypeOK
        <3>2. CASE e.action = "push" /\ e.target # F
            BY <3>2 DEF Handled
        <3>3. CASE ~(e.action = "push" /\ e.target # F)
            <4>1. e.action \in {"push", "delete"} => JobOf(e) # job[w]
                BY <1>2, <2>2, <3>3, JobOfEvent DEF PushJob, DeleteJob
            <4> QED
                BY <1>4, <1>5, <2>1, <3>1, <4>1, HandledKept
        <3> QED
            BY <3>2, <3>3
    <2>3. CASE F = job[w].name
        <3>1. PushPending(F, d)
            <4>1. InFlight(job[w])
                BY DropInFlight
            <4> QED
                BY <1>3, <2>3, <4>1 DEF PushPending
        <3>2. index'[F] = d
            BY <1>1, <1>3, <2>3 DEF TypeInv, TypeOK
        <3>3. tags[F] = d /\ ~DeletePending(d)
            BY <3>1 DEF Current, PushIsCurrent
        <3>4. e.action = "push" /\ e.target = F => e.digest = d
            <4> SUFFICES ASSUME e.action = "push", e.target = F PROVE e.digest = d
                OBVIOUS
            <4>1. e.digest \in Digests /\ PushPending(F, e.digest)
                BY <1>5, JobOfEvent DEF PushPending
            <4> QED
                BY <3>3, <4>1 DEF Current, PushIsCurrent
        <3>5. ~(e.action = "delete" /\ e.digest = d)
            BY <1>5, <3>3, JobOfEvent DEF DeletePending
        <3> QED
            BY <3>2, <3>4, <3>5 DEF Handled
    <2> QED
        BY <2>2, <2>3
<1> QED
    BY <1>1, <1>5, HandedKept

LEMMA SearchHanded ==
    ASSUME TypeInv, Bookkeeping, NEW w \in Workers, Search(w),
           NEW F \in Names, F \notin Matches(job[w].digest) \ hits'[w],
           HandedIsApplied(F)
    PROVE  HandedIsApplied(F)'
<1>1. UNCHANGED <<outbox, envelope, awaiting, requests, index>> /\ pc[w] = "Search"
    BY DEF Search, delivery
<1>2. job[w].action = "delete"
    BY <1>1 DEF TypeInv, Busy
<1>3. Hit(F) => Hit(F)'
    <2>1. hits[w] = {} /\ \A v \in Workers \ {w} : hits'[v] = hits[v]
        BY <1>1, BookkeepingParts DEF HitsKept, Search, Finish, TypeInv, TypeOK
    <2> QED
        BY <2>1 DEF Hit
<1>4. F \in Matches(job[w].digest) => Hit(F)'
    BY DEF Hit
<1>5. ASSUME NEW e \in Events, Handled(F, e)
      PROVE  Handled(F, e)'
    <2>1. Delivering(JobOf(e)) => Delivering(JobOf(e))' \/ JobOf(e) = job[w]
        BY DropFlight
    <2>2. CASE e.action = "delete" /\ JobOf(e) = job[w]
        <3>1. e.digest = job[w].digest
            BY <2>2, JobOfEvent DEF DeleteJob
        <3>2. index[F] = e.digest => Hit(F)'
            BY <1>4, <3>1 DEF Matches
        <3> QED
            BY <1>1, <2>2, <3>2 DEF Handled
    <2>3. CASE ~(e.action = "delete" /\ JobOf(e) = job[w])
        <3>1. e.action \in {"push", "delete"} => JobOf(e) # job[w]
            BY <1>2, <2>3, JobOfEvent DEF PushJob
        <3> QED
            BY <1>1, <1>3, <1>5, <2>1, <3>1, HandledKept
    <2> QED
        BY <2>2, <2>3
<1> QED
    BY <1>1, <1>5, HandedKept

LEMMA DeleteHanded ==
    ASSUME TypeInv, Bookkeeping, NEW w \in Workers, NEW G \in Names, Delete(w, G),
           NEW F \in Names, NEW M, Current(F, M), HandedIsApplied(F)
    PROVE  HandedIsApplied(F)'
<1>1. /\ UNCHANGED <<outbox, envelope, awaiting, requests>>
      /\ G \in hits[w] /\ hits'[w] = hits[w] \ {G}
      /\ \A v \in Workers \ {w} : hits'[v] = hits[v]
      /\ index' = [index EXCEPT ![G] = None]
    BY DEF Delete, Finish, delivery, TypeInv, TypeOK
<1>2. ASSUME NEW e \in Events, Handled(F, e), e.action # "other" => InFlight(JobOf(e))
      PROVE  Handled(F, e)'
    <2>1. CASE F # G
        <3>1. index'[F] = index[F] /\ (Hit(F) => Hit(F)')
            BY <1>1, <2>1 DEF Hit, TypeInv, TypeOK
        <3> QED
            BY <1>2, <3>1, DeleteFlight, HandledKept
    <2>2. CASE F = G
        <3>1. Doomed(F)
            BY <1>1, <2>2 DEF Doomed, Hit
        <3>2. ~(e.action = "push" /\ e.target = F)
            BY <1>2, <3>1, JobOfEvent DEF Current, DoomedIsGone, PushPending
        <3>3. index'[F] = None
            BY <1>1, <2>2 DEF TypeInv, TypeOK
        <3>4. ~(e.action = "delete" /\ index'[F] = e.digest)
            BY <3>3, JobOfEvent, NoneAssumption
        <3> QED
            BY <3>2, <3>4 DEF Handled
    <2> QED
        BY <2>1, <2>2
<1> QED
    BY <1>1, <1>2, HandedKept

LEMMA DeleteFailsHanded ==
    ASSUME TypeInv, Bookkeeping, NEW w \in Workers, NEW G \in Names, DeleteFails(w, G),
           NEW F \in Names, F # G, HandedIsApplied(F)
    PROVE  HandedIsApplied(F)'
<1>1. /\ UNCHANGED <<outbox, envelope, awaiting, requests, index>>
      /\ hits'[w] = hits[w] \ {G} /\ \A v \in Workers \ {w} : hits'[v] = hits[v]
    BY DEF DeleteFails, Finish, delivery, TypeInv, TypeOK
<1>2. \A e \in Events : Handled(F, e) => Handled(F, e)'
    <2>1. Hit(F) => Hit(F)'
        BY <1>1 DEF Hit
    <2> QED
        BY <1>1, <2>1, DeleteFlight, HandledKept
<1> QED
    BY <1>1, <1>2, HandedKept

\* Publishing an event changes nothing about those already handed over.
LEMMA PublishHanded ==
    ASSUME TypeInv, Bookkeeping, NEW o \in Events,
           Publish(o.action, o.target, o.digest),
           NEW F \in Names, HandedIsApplied(F)
    PROVE  HandedIsApplied(F)'
<1>1. o = [action |-> o.action, target |-> o.target, digest |-> o.digest]
    BY DEF Events
<1>2. /\ outbox \in Seq(Events) /\ outbox' = Append(outbox, o)
      /\ UNCHANGED <<requests, notifications, pc, job, hits, index, envelope, awaiting>>
    BY <1>1 DEF Publish, TypeInv, TypeOK, worker
<1>3. \A j : Delivering(j)' <=> Delivering(j)
    BY <1>2, OtherFlight
<1>4. ASSUME NEW e \in Events, Handled(F, e) PROVE Handled(F, e)'
    BY <1>2, <1>3, <1>4, HitFrame, HandledKept
<1>5. ASSUME awaiting # None, NEW i \in 1 .. envelope - Len(requests[awaiting])
      PROVE  Handled(F, outbox[i])'
    <2>1. PICK e \in Events : e = outbox[i]
        BY <1>5, HandedInOutbox
    <2>2. Handled(F, e)'
        BY <1>4, <1>5, <2>1 DEF HandedIsApplied
    <2>3. outbox'[i] = e
        <3>1. requests[awaiting] \in Seq(Events) /\ envelope \in Nat
            BY <1>5 DEF TypeInv, TypeOK
        <3>2. Len(requests[awaiting]) \in Nat /\ Len(outbox) \in Nat /\ envelope <= Len(outbox)
            BY <1>2, <3>1, BookkeepingParts, LenProperties DEF RestIsSuffix
        <3>3. i \in 1 .. Len(outbox)
            BY <3>1, <3>2
        <3> QED
            BY <1>2, <2>1, <3>3, AppendProperties
    <2> QED
        BY <2>2, <2>3 DEF Handled
<1> QED
    BY <1>2, <1>5 DEF HandedIsApplied

\* A push that overlaps nothing finds no event of its name handed over.
LEMMA PushHanded ==
    ASSUME TypeInv, Bookkeeping, NEW G \in Names, NEW d \in Digests, RegistryPush(G, d),
           NEW F \in Names,
           F = G => ~PushOverlaps(G, d),
           F # G => HandedIsApplied(F)
    PROVE  HandedIsApplied(F)'
<1> DEFINE o == [action |-> "push", target |-> G, digest |-> d]
<1>1. o \in Events /\ Publish(o.action, o.target, o.digest)
    BY DEF RegistryPush, Events
<1>2. CASE F = G
    <2>1. ASSUME awaiting # None, NEW i \in 1 .. envelope - Len(requests[awaiting])
          PROVE  Handled(F, outbox[i])
        <3>1. PICK e \in Events : e = outbox[i]
            BY <2>1, HandedInOutbox
        <3>2. e.action # "other" => InFlight(JobOf(e))
            BY <2>1, <3>1, HandedInOutbox
        <3>3. ~(e.action = "push" /\ e.target = F)
            BY <1>2, <3>2, JobOfEvent DEF PushOverlaps, PushPending
        <3>4. ~(e.action = "delete" /\ index[F] = e.digest)
            BY <1>2, <3>2, JobOfEvent, NoneAssumption DEF PushOverlaps, Doomed, DeletePending
        <3> QED
            BY <3>1, <3>3, <3>4 DEF Handled
    <2>2. HandedIsApplied(F)
        BY <2>1 DEF HandedIsApplied
    <2> QED
        BY <1>1, <2>2, PublishHanded
<1> QED
    BY <1>1, <1>2, PublishHanded

\* A handler is done with one more event when its job is in the channel.
LEMMA HandlerHanded ==
    ASSUME TypeInv, Bookkeeping, NEW h \in Requests, Submit(h) \/ Ignore(h),
           NEW F \in Names, HandedIsApplied(F)
    PROVE  HandedIsApplied(F)'
<1>1. /\ requests[h] \in Seq(Events) /\ requests[h] # <<>>
      /\ requests' = [requests EXCEPT ![h] = Tail(requests[h])]
      /\ UNCHANGED <<outbox, envelope, awaiting, hits, index>>
    BY DEF Submit, Ignore, delivery, worker, TypeInv, TypeOK
<1>2. \A j : Delivering(j)' <=> Delivering(j)
    BY SubmitFlight, IgnoreFlight
<1>3. ASSUME NEW e \in Events, Handled(F, e) PROVE Handled(F, e)'
    BY <1>1, <1>2, <1>3, HitFrame, HandledKept
<1>4. ASSUME NEW e \in Events, e = Head(requests[h]) PROVE Handled(F, e)'
    <2>1. CASE Submit(h)
        <3>1. ASSUME NEW j, j = JobOf(e) PROVE Delivering(j)'
            BY <1>4, <2>1, <3>1, SubmitFlight
        <3> QED
            BY <3>1 DEF Handled
    <2>2. CASE Ignore(h)
        <3>1. e.action = "other"
            BY <1>4, <2>2 DEF Ignore
        <3> QED
            BY <3>1 DEF Handled
    <2> QED
        BY <2>1, <2>2
<1>5. ASSUME awaiting # None, NEW i \in 1 .. envelope - Len(requests'[awaiting])
      PROVE  Handled(F, outbox[i])'
    <2>1. CASE i \in 1 .. envelope - Len(requests[awaiting])
        <3>1. PICK e \in Events : e = outbox[i]
            BY <1>5, <2>1, HandedInOutbox
        <3>2. Handled(F, e)'
            BY <1>3, <1>5, <2>1, <3>1 DEF HandedIsApplied
        <3> QED
            BY <1>1, <3>1, <3>2 DEF Handled
    <2>2. CASE i \notin 1 .. envelope - Len(requests[awaiting])
        <3>1. awaiting = h
            BY <1>1, <1>5, <2>2 DEF TypeInv, TypeOK
        <3> DEFINE rest == requests[h]
        <3>2. /\ Len(rest) \in Nat \ {0} /\ Len(Tail(rest)) = Len(rest) - 1
              /\ Head(rest) = rest[1] /\ rest[1] \in Events
            BY <1>1, HeadTailProperties, EmptySeq, LenProperties, ElementOfSeq
        <3>3. requests'[awaiting] = Tail(rest)
            BY <1>1, <3>1 DEF TypeInv, TypeOK
        <3>4. /\ envelope \in Nat /\ Len(rest) <= envelope
              /\ \A k \in 1 .. Len(rest) : rest[k] = outbox[envelope - Len(rest) + k]
            BY <3>1, BookkeepingParts, NoneAssumption DEF RestIsSuffix, TypeInv, TypeOK
        <3> HIDE DEF rest
        <3>5. i \in 1 .. envelope - (Len(rest) - 1) /\ i \notin 1 .. envelope - Len(rest)
            BY <1>5, <2>2, <3>1, <3>2, <3>3 DEF rest
        <3>6. i = envelope - Len(rest) + 1 /\ 1 \in 1 .. Len(rest)
            <4>1. PICK l \in Nat \ {0} : l = Len(rest)
                BY <3>2
            <4>2. i \in 1 .. envelope - (l - 1) /\ i \notin 1 .. envelope - l /\ l <= envelope
                BY <3>4, <3>5, <4>1
            <4>3. i = envelope - l + 1 /\ 1 \in 1 .. l
                BY <3>4, <4>2
            <4> QED
                BY <4>1, <4>3
        <3>7. outbox[i] = Head(rest) /\ Head(rest) \in Events
            BY <3>2, <3>4, <3>6
        <3>8. PICK e \in Events : e = Head(rest) /\ e = outbox[i]
            BY <3>7
        <3>9. Handled(F, e)'
            BY <1>4, <3>8 DEF rest
        <3> QED
            BY <1>1, <3>8, <3>9 DEF Handled
    <2> QED
        BY <2>1, <2>2
<1>6. ASSUME awaiting # None
      PROVE  \A i \in 1 .. envelope' - Len(requests'[awaiting']) : Handled(F, outbox[i])'
    BY <1>1, <1>5, <1>6
<1> QED
    BY <1>1, <1>6 DEF HandedIsApplied

\* A notification just posted is not processed yet, and nobody waits for one
\* that is acknowledged or given up.
LEMMA SinkHanded ==
    ASSUME TypeInv, SinkStep \/ Timeout, NEW F \in Names
    PROVE  HandedIsApplied(F)'
<1>1. CASE Acknowledge \/ Timeout
    BY <1>1 DEF Acknowledge, Timeout, HandedIsApplied
<1>2. ASSUME NEW h \in Requests, Post(h)
      PROVE  HandedIsApplied(F)'
    <2>1. PICK n \in 1 .. Len(outbox) :
              envelope' = n /\ requests' = [requests EXCEPT ![h] = SubSeq(outbox, 1, n)]
        BY <1>2 DEF Post
    <2>2. awaiting' = h /\ requests'[h] = SubSeq(outbox, 1, n)
        BY <1>2, <2>1 DEF Post, TypeInv, TypeOK
    <2>3. \A i \in 1 .. n : outbox[i] \in Events
        BY <2>1, ElementOfSeq, LenProperties DEF TypeInv, TypeOK
    <2>4. Len(SubSeq(outbox, 1, n)) = n /\ n \in Nat
        BY <2>1, <2>3, SubSeqProperties, LenProperties DEF TypeInv, TypeOK
    <2>5. envelope' - Len(requests'[awaiting']) = 0
        BY <2>1, <2>2, <2>4
    <2> QED
        BY <2>5 DEF HandedIsApplied
<1> QED
    BY <1>1, <1>2 DEF SinkStep

------------------------------------------------------------------------------
(* Current and HandedIsApplied together, step by step                       *)

LEMMA SettledFrame ==
    ASSUME TypeInv, Bookkeeping, NEW F \in Names, NEW M, Current(F, M), HandedIsApplied(F),
           UNCHANGED <<tags, outbox, envelope, awaiting, requests, notifications,
                       pc, job, hits, index>>
    PROVE  /\ Current(F, M)' /\ HandedIsApplied(F)'
           /\ \A d \in Digests : DeletePending(d)' <=> DeletePending(d)
<1>1. \A j : Delivering(j)' <=> Delivering(j)
    BY OtherFlight
<1>2. \A j : InFlight(j)' <=> InFlight(j)
    BY <1>1 DEF InFlight, Reported
<1>3. Hit(F)' <=> Hit(F)
    BY HitFrame
<1>4. \A d \in Digests : /\ PushPending(F, d)' <=> PushPending(F, d)
                         /\ DeletePending(d)' <=> DeletePending(d)
    BY <1>2 DEF PushPending, DeletePending
<1>5. Current(F, M)'
    BY <1>3, <1>4, CurrentFrame
<1>6. ASSUME NEW e \in Events, Handled(F, e) PROVE Handled(F, e)'
    BY <1>1, <1>3, <1>6, HandledKept
<1>7. HandedIsApplied(F)'
    BY <1>6, HandedKept
<1> QED
    BY <1>4, <1>5, <1>7

LEMMA JobSettled ==
    ASSUME TypeInv, Bookkeeping, NEW w \in Workers, JobStep(w) \/ SkipStep(w),
           NEW F \in Names \ suspect', NEW M, Current(F, M), HandedIsApplied(F)
    PROVE  Current(F, M)' /\ HandedIsApplied(F)'
<1>1. ASSUME GetImageFails(w) \/ IndexFails(w), F # job[w].name
      PROVE  Current(F, M)' /\ HandedIsApplied(F)'
    BY <1>1, JobFailsCurrent, JobFailsHanded
<1>2. ASSUME Search(w), F \notin Matches(job[w].digest) \ hits'[w]
      PROVE  Current(F, M)' /\ HandedIsApplied(F)'
    BY <1>2, SearchCurrent, SearchHanded
<1>3. ASSUME Receive(w) \/ GetImage(w) \/ FindImage(w) \/ FindFails(w)
      PROVE  Current(F, M)' /\ HandedIsApplied(F)'
    BY <1>3, MovesCurrent, MovesHanded
<1>4. CASE IndexImage(w)
    BY <1>4, IndexImageCurrent, IndexImageHanded
<1>5. ASSUME NEW G \in Names, Delete(w, G)
      PROVE  Current(F, M)' /\ HandedIsApplied(F)'
    BY <1>5, DeleteCurrent, DeleteHanded
<1>6. ASSUME NEW G \in Names, DeleteFails(w, G), F # G
      PROVE  Current(F, M)' /\ HandedIsApplied(F)'
    BY <1>6, DeleteFailsCurrent, DeleteFailsHanded
<1> QED
    BY <1>1, <1>2, <1>3, <1>4, <1>5, <1>6 DEF JobStep, SkipStep

LEMMA DeliverySettled ==
    ASSUME TypeInv, Bookkeeping, DeliveryStep,
           NEW F \in Names, NEW M, Current(F, M), HandedIsApplied(F)
    PROVE  Current(F, M)' /\ HandedIsApplied(F)'
<1>1. CASE SinkStep \/ Timeout
    BY <1>1, MovesCurrent, AcknowledgeCurrent, SinkHanded DEF SinkStep
<1>2. ASSUME NEW h \in Requests, HandlerStep(h)
      PROVE  Current(F, M)' /\ HandedIsApplied(F)'
    BY <1>2, MovesCurrent, HandlerHanded DEF HandlerStep
<1> QED
    BY <1>1, <1>2 DEF DeliveryStep

------------------------------------------------------------------------------
(* The invariant and its consequence                                        *)

\* What TLC checks as an invariant and the steps preserve together.
AgreementInv == TypeInv /\ Bookkeeping /\ Settled

LEMMA InitAgreement == AgreementInit => AgreementInv
<1> SUFFICES ASSUME AgreementInit PROVE AgreementInv
    OBVIOUS
<1>1. TypeInv
    BY InitType DEF AgreementInit
<1>2. /\ outbox = <<>> /\ notifications = <<>> /\ awaiting = None /\ envelope = 0
      /\ \A h \in Requests : requests[h] = <<>>
      /\ \A w \in Workers : pc[w] = "range" /\ hits[w] = {}
      /\ \A F \in Names : index[F] = None /\ tags[F] = None
    BY DEF AgreementInit, Init
<1>3. Bookkeeping
    <2>1. envelope <= Len(outbox)
        BY <1>2, EmptySeq
    <2> QED
        BY <1>2, <2>1 DEF Bookkeeping
<1>4. \A j : ~InFlight(j)
    <2>1. ASSUME NEW j PROVE ~Reported(j, <<>>)
        BY EmptySeq DEF Reported
    <2> QED
        BY <1>2, <2>1, EmptySeq DEF InFlight, Delivering
<1>5. Settled
    <2> SUFFICES ASSUME NEW F \in Names PROVE Current(F, {}) /\ HandedIsApplied(F)
        BY SettledParts
    <2>1. ~Doomed(F) /\ \A d \in Digests : ~PushPending(F, d)
        BY <1>2, <1>4 DEF Doomed, Hit, PushPending
    <2> QED
        BY <1>2, <2>1 DEF Current, PushIsCurrent, DoomedIsGone, Rest, HandedIsApplied
<1> QED
    BY <1>1, <1>3, <1>5 DEF AgreementInv

\* Each step keeps every name settled that it does not make suspect.
LEMMA NextSettled ==
    ASSUME AgreementInv, AgreementNext
    PROVE  Settled'
<1> USE DEF AgreementInv
<1>1. ASSUME NEW G \in Names, NEW d \in Digests, RegistryPush(G, d),
             suspect' = IF PushOverlaps(G, d) THEN suspect \cup {G} ELSE suspect \ {G},
             NEW F \in Names \ suspect'
      PROVE  Current(F, {})' /\ HandedIsApplied(F)'
    <2>1. /\ F = G => ~PushOverlaps(G, d)
          /\ F # G => Current(F, {}) /\ HandedIsApplied(F)
        BY <1>1, SettledParts
    <2> QED
        BY <1>1, <2>1, PushCurrent, PushHanded
<1>2. ASSUME NEW r \in Repos, NEW d \in Digests, RegistryDelete(r, d),
             suspect' = suspect \cup DeleteOverlaps(r, d),
             NEW F \in Names \ suspect'
      PROVE  Current(F, {})' /\ HandedIsApplied(F)'
    <2> DEFINE e == [action |-> "delete", target |-> <<r, None>>, digest |-> d]
    <2>1. e \in Events /\ Publish(e.action, e.target, e.digest)
        BY <1>2 DEF RegistryDelete, Events
    <2>2. F \notin DeleteOverlaps(r, d) /\ Current(F, {}) /\ HandedIsApplied(F)
        BY <1>2, SettledParts
    <2> QED
        BY <1>2, <2>1, <2>2, RegistryDeleteCurrent, PublishHanded
<1>3. ASSUME NEW r \in Repos, NEW d \in Digests, RegistryActivity(r, d),
             NEW F \in Names \ suspect
      PROVE  Current(F, {})' /\ HandedIsApplied(F)'
    <2> DEFINE e == [action |-> "other", target |-> <<r, None>>, digest |-> d]
    <2>1. e \in Events /\ Publish(e.action, e.target, e.digest)
        BY <1>3 DEF RegistryActivity, Events
    <2> QED
        BY <1>3, <2>1, SettledParts, ActivityCurrent, PublishHanded
<1>4. ASSUME NEW w \in Workers, JobStep(w) \/ SkipStep(w), NEW F \in Names \ suspect'
      PROVE  Current(F, {})' /\ HandedIsApplied(F)'
    <2>1. F \in Names \ suspect
        BY <1>4 DEF JobStep, SkipStep
    <2> QED
        BY <1>4, <2>1, JobSettled, SettledParts
<1>5. ASSUME DeliveryStep, NEW F \in Names \ suspect'
      PROVE  Current(F, {})' /\ HandedIsApplied(F)'
    BY <1>5, DeliverySettled, SettledParts DEF DeliveryStep
<1>6. \A F \in Names \ suspect' : Current(F, {})' /\ HandedIsApplied(F)'
    <2> SUFFICES ASSUME NEW F \in Names \ suspect' PROVE Current(F, {})' /\ HandedIsApplied(F)'
        OBVIOUS
    <2>1. \A r \in Repos, d \in Digests :
              RegistryActivity(r, d) /\ UNCHANGED suspect
              => Current(F, {})' /\ HandedIsApplied(F)'
        BY <1>3
    <2> QED
        BY <1>1, <1>2, <1>4, <1>5, <2>1 DEF AgreementNext
<1> QED
    BY <1>6 DEF Settled, Current, Rest, RestAgrees

LEMMA NextAgreement ==
    ASSUME AgreementInv, [AgreementNext]_agreementVars
    PROVE  AgreementInv'
<1>1. CASE AgreementNext
    <2>1. Next
        BY <1>1 DEF AgreementNext, JobStep, SkipStep, DeliveryStep, Next, RegistryStep,
           WorkerStep
    <2>2. TypeInv'
        BY <2>1, NextType DEF AgreementInv
    <2> QED
        BY <1>1, <2>1, <2>2, NextBookkeeping, NextSettled DEF AgreementInv
<1>2. CASE UNCHANGED agreementVars
    <2>1. UNCHANGED vars
        BY <1>2 DEF agreementVars
    <2>2. TypeInv'
        BY <2>1, NextType DEF AgreementInv
    <2>3. UNCHANGED <<tags, outbox, envelope, awaiting, requests, notifications,
                      pc, job, hits, index, suspect>>
        BY <1>2 DEF agreementVars, vars, registry, delivery, worker
    <2>4. Bookkeeping'
        BY <2>3 DEF AgreementInv, Bookkeeping
    <2>5. Settled'
        <3>1. ASSUME NEW F \in Names, Current(F, {}), HandedIsApplied(F)
              PROVE  Current(F, {})' /\ HandedIsApplied(F)'
            BY <2>3, <3>1, SettledFrame DEF AgreementInv
        <3> QED
            BY <2>3, <3>1, SettledParts DEF AgreementInv, Settled, Current, Rest, RestAgrees
    <2> QED
        BY <2>2, <2>4, <2>5 DEF AgreementInv
<1> QED
    BY <1>1, <1>2

\* A name that is not suspect has the registry's last word in the index or on
\* its way to it: jobs of one name that do not overlap arrive in order.
THEOREM SettledHolds == AgreementSpec => []Settled
<1>1. AgreementSpec => []AgreementInv
    BY InitAgreement, NextAgreement, PTL DEF AgreementSpec
<1>2. AgreementInv => Settled
    BY DEF AgreementInv
<1> QED
    BY <1>1, <1>2, PTL

\* When nothing is in flight, each name whose jobs did not overlap, fail or
\* stop short is indexed with the image the registry has under it.
THEOREM AgreementHolds == AgreementSpec => []Agreement
<1>1. AgreementInv => Agreement
    <2> SUFFICES ASSUME AgreementInv, Quiescent, NEW F \in Names \ suspect
                 PROVE  index[F] = tags[F]
        BY DEF Agreement
    <2>1. \A j : ~Reported(j, <<>>)
        BY EmptySeq DEF Reported
    <2>2. \A j : ~InFlight(j)
        BY <2>1, EmptySeq DEF Quiescent, InFlight, Delivering
    <2>3. ~Hit(F)
        BY BookkeepingParts DEF AgreementInv, HitsKept, Quiescent, Hit
    <2>4. ~Doomed(F) /\ \A d \in Digests : ~PushPending(F, d)
        BY <2>2, <2>3 DEF Doomed, DeletePending, PushPending
    <2>5. RestAgrees(F)
        BY DEF AgreementInv, Settled
    <2> QED
        BY <2>4, <2>5 DEF RestAgrees
<1>2. AgreementSpec => []AgreementInv
    BY InitAgreement, NextAgreement, PTL DEF AgreementSpec
<1> QED
    BY <1>1, <1>2, PTL
==============================================================================
