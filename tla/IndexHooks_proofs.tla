--------------------------- MODULE IndexHooks_proofs ---------------------------
(****************************************************************************)
(* The hooks disturb neither the index nor each other, for any set of       *)
(* hooks, any number of goroutines, and whatever hangs: a server with hooks *)
(* refines the server without, and what was proved of the index carries     *)
(* over to it.                                                              *)
(****************************************************************************)
EXTENDS IndexHooks, IndexAgreement_proofs

------------------------------------------------------------------------------
(* A server with hooks is a server                                          *)

LEMMA AgreementStep == [AgreementNext]_agreementVars => [Next]_vars
<1>1. ASSUME NEW w \in Workers, JobStep(w) \/ SkipStep(w)
      PROVE  WorkerStep(w)
    BY <1>1 DEF JobStep, SkipStep, WorkerStep
<1> QED
    BY <1>1 DEF AgreementNext, agreementVars, DeliveryStep, Next, RegistryStep

LEMMA InitIsAgreement == HookInit => AgreementInit
    BY DEF HookInit

LEMMA StepIsAgreement == [HookNext]_hookVars => [AgreementNext]_agreementVars
<1> SUFFICES ASSUME [HookNext]_hookVars PROVE [AgreementNext]_agreementVars
    OBVIOUS
<1>1. ASSUME NEW F \in Names, NEW d \in Digests, HookPush(F, d)
      PROVE  AgreementNext
    BY <1>1 DEF HookPush, AgreementNext
<1>2. ASSUME NEW r \in Repos, NEW d \in Digests, HookDelete(r, d)
      PROVE  AgreementNext
    BY <1>2 DEF HookDelete, AgreementNext
<1>3. ASSUME NEW r \in Repos, NEW d \in Digests, RegistryActivity(r, d), UNCHANGED suspect
      PROVE  AgreementNext
    BY <1>3 DEF AgreementNext
<1>4. ASSUME NEW w \in Workers, HookJobStep(w) \/ HookSkip(w)
      PROVE  AgreementNext
    BY <1>4 DEF HookJobStep, HookSkip, AgreementNext
<1>5. CASE DeliveryStep
    BY <1>5 DEF AgreementNext
<1>6. CASE EvalStep \/ \E g \in Goroutines : Hang(g)
    BY <1>6 DEF EvalStep, Lock, Return, Hang
<1>7. CASE UNCHANGED hookVars
    BY <1>7 DEF hookVars
<1> QED
    BY <1>1, <1>2, <1>3, <1>4, <1>5, <1>6, <1>7 DEF HookNext

\* Starting goroutines, evaluating hooks and waiting for ever in one of them
\* never disturbs the workers or the index.
THEOREM HooksAreHarmless == HookSpec => AgreementSpec
    BY InitIsAgreement, StepIsAgreement, PTL DEF HookSpec, AgreementSpec

\* The index agrees with the registry about the names that are not suspect,
\* whichever hooks are configured and whatever becomes of them.
THEOREM AgreementWithHooks == HookSpec => []Agreement
    BY HooksAreHarmless, AgreementHolds, PTL

------------------------------------------------------------------------------
(* One template at a time                                                   *)

\* Without the mutex nothing runs, and never more than one template does.
Exclusive ==
    /\ running \in [Goroutines -> Nat]
    /\ mutex \/ \A g \in Goroutines : running[g] = 0
    /\ OneAtATime

LEMMA NextExclusive ==
    ASSUME Exclusive, [HookNext]_hookVars
    PROVE  Exclusive'
<1> USE DEF Exclusive, OneAtATime
<1>1. ASSUME NEW g \in Goroutines, Lock(g)
      PROVE  Exclusive'
    <2>1. \A k \in Goroutines : running[k] = 0
        BY <1>1 DEF Lock
    <2>2. running' = [running EXCEPT ![g] = 1]
        <3>1. running' = [running EXCEPT ![g] = running[g] + 1]
            BY <1>1 DEF Lock
        <3>2. running[g] + 1 = 1
            BY <2>1
        <3> QED
            BY <3>1, <3>2, Zenon
    <2>3. mutex' = TRUE
        BY <1>1 DEF Lock
    <2>4. running' \in [Goroutines -> Nat]
        BY <2>2
    <2>5. ASSUME NEW k \in Goroutines, running'[k] > 0
          PROVE  k = g /\ running'[k] = 1
        BY <2>1, <2>2, <2>5
    <2> QED
        BY <2>3, <2>4, <2>5
<1>2. ASSUME NEW g \in Goroutines, Return(g)
      PROVE  Exclusive'
    <2>1. running[g] = 1 /\ \A k \in Goroutines : k # g => running[k] = 0
        BY <1>2 DEF Return
    <2>2. running' = [running EXCEPT ![g] = 0]
        BY <1>2, <2>1 DEF Return
    <2>3. running' \in [Goroutines -> Nat] /\ \A k \in Goroutines : running'[k] = 0
        BY <2>1, <2>2
    <2> QED
        BY <2>3
<1>3. CASE UNCHANGED <<running, mutex>>
    BY <1>3
<1>4. UNCHANGED <<running, mutex>> \/ EvalStep
    BY DEF HookNext, HookPush, HookDelete, HookJobStep, HookSkip, Hang, Others,
       goroutines, hookVars
<1> QED
    BY <1>1, <1>2, <1>3, <1>4 DEF EvalStep

\* Eval never runs two templates together: the mutex it holds is one for all
\* hooks, and the deferred Unlock follows every Lock.
THEOREM OneTemplateAtATime == HookSpec => []OneAtATime
<1>1. HookInit => Exclusive
    BY DEF HookInit, Exclusive, OneAtATime
<1>2. Exclusive /\ [HookNext]_hookVars => Exclusive'
    BY NextExclusive
<1>3. Exclusive => OneAtATime
    BY DEF Exclusive
<1> QED
    BY <1>1, <1>2, <1>3, PTL DEF HookSpec

------------------------------------------------------------------------------
(* Hooks tell the truth                                                     *)

LEMMA AgreementInvWithHooks == HookSpec => []AgreementInv
<1>1. AgreementSpec => []AgreementInv
    BY InitAgreement, NextAgreement, PTL DEF AgreementSpec
<1> QED
    BY <1>1, HooksAreHarmless, PTL

WaitingType == waiting \in [Goroutines -> Nat]

\* A step starts goroutines only for hooks of the event its worker handles.
LEMMA NextWaiting ==
    ASSUME WaitingType, [HookNext]_hookVars
    PROVE  /\ WaitingType'
           /\ \A g \in Goroutines : waiting'[g] > waiting[g] =>
                  \E w \in Workers : g \in Started(w)
<1> USE DEF WaitingType
<1>1. CASE UNCHANGED waiting
    BY <1>1
<1>2. ASSUME NEW k \in Goroutines, waiting[k] > 0, waiting' = [waiting EXCEPT ![k] = @ - 1]
      PROVE  /\ WaitingType'
             /\ \A g \in Goroutines : ~(waiting'[g] > waiting[g])
    BY <1>2
<1>3. ASSUME NEW w \in Workers, HookJobStep(w)
      PROVE  /\ WaitingType'
             /\ \A g \in Goroutines : waiting'[g] > waiting[g] => g \in Started(w)
    BY <1>3 DEF HookJobStep
<1>4. \/ UNCHANGED waiting
      \/ \E k \in Goroutines : waiting[k] > 0 /\ waiting' = [waiting EXCEPT ![k] = @ - 1]
      \/ \E w \in Workers : HookJobStep(w)
    BY DEF HookNext, HookPush, HookDelete, HookSkip, EvalStep, Lock, Return, Hang, Others,
       goroutines, hookVars
<1> QED
    BY <1>1, <1>2, <1>3, <1>4

\* A pushed image that is not indexed yet is what the registry has under the
\* name, and a document that is to be deleted has nothing there any more.
LEMMA StartedTellTruth ==
    ASSUME AgreementInv, NEW w \in Workers, NEW g \in Started(w), g[2] \notin suspect
    PROVE  tags[g[2]] = IF Event[g[1]] = "push" THEN g[3] ELSE None
<1>1. /\ pc[w] \in {"GetImage", "FindImage"}
      /\ g[2] \in Announced(w) /\ g[3] = job[w].digest
      /\ Event[g[1]] = job[w].action
    BY DEF Started, HooksOf
<1>2. job[w] \in Jobs /\ InFlight(job[w])
    BY <1>1 DEF AgreementInv, TypeInv, Busy, InFlight, Delivering
<1>3. CASE pc[w] = "GetImage"
    <2>1. job[w].action = "push" /\ g[2] = job[w].name
        BY <1>1, <1>3 DEF AgreementInv, TypeInv, Busy, Announced
    <2>2. /\ g[2] \in Names /\ g[3] \in Digests /\ job[w] = PushJob(g[2], g[3])
        BY <1>1, <1>2, <2>1 DEF Jobs, PushJob
    <2>3. PushPending(g[2], g[3])
        BY <1>2, <2>2 DEF PushPending
    <2> QED
        BY <1>1, <2>1, <2>2, <2>3 DEF AgreementInv, Settled, PushIsCurrent
<1>4. CASE pc[w] = "FindImage"
    <2>1. job[w].action = "delete" /\ g[2] \in Matches(job[w].digest)
        BY <1>1, <1>4 DEF AgreementInv, TypeInv, Busy, Announced
    <2>2. /\ g[2] \in Names /\ index[g[2]] = g[3] /\ g[3] \in Digests
          /\ job[w] = DeleteJob(g[3])
        BY <1>1, <1>2, <2>1 DEF Matches, Jobs, DeleteJob
    <2>3. Doomed(g[2])
        BY <1>2, <2>2, NoneAssumption DEF DeletePending, Doomed
    <2> QED
        BY <1>1, <2>1, <2>2, <2>3 DEF AgreementInv, Settled, DoomedIsGone
<1> QED
    BY <1>1, <1>3, <1>4

\* At the moment triggerHooks starts a hook the registry has the image under the
\* name the push hook is told, or nothing under the name the delete hook is told,
\* for every name whose jobs did not overlap: a job carries no more than a
\* digest, and the worker that looks for its document is not the only one.
THEOREM HooksAreTruthful == HookSpec => HooksTellTheTruth
<1>1. HookInit => WaitingType
    BY DEF HookInit, WaitingType
<1>2. WaitingType /\ [HookNext]_hookVars => WaitingType'
    BY NextWaiting
<1>3. AgreementInv /\ WaitingType /\ [HookNext]_hookVars =>
          [\A g \in Goroutines : waiting'[g] > waiting[g] /\ g[2] \notin suspect =>
              tags[g[2]] = IF Event[g[1]] = "push" THEN g[3] ELSE None]_hookVars
    BY NextWaiting, StartedTellTruth
<1> QED
    BY <1>1, <1>2, <1>3, AgreementInvWithHooks, PTL DEF HookSpec, HooksTellTheTruth

------------------------------------------------------------------------------
(* Delete hooks start                                                       *)

DeleteRecord(F, d) == [action |-> "delete", name |-> F, digest |-> d]

\* The only document of the deleted image d is F, and stays so until a worker
\* has looked for it.
Waits(F, d) ==
    /\ tags[F] = None /\ index[F] = d
    /\ ~Hit(F)
    /\ \A w \in Workers : pc[w] = "Search" => job[w].digest # d
    /\ \A x \in Digests : ~PushPending(F, x)
    /\ \A G \in Names \ {F} : index[G] # d /\ ~PushPending(G, d)

OwedIsPaid ==
    /\ owed \subseteq Names \X Digests
    /\ \A o \in owed : o[1] \notin suspect
    /\ DeleteHooks =>
          \A o \in owed : DeleteRecord(o[1], o[2]) \in fired \/ Waits(o[1], o[2])

\* Only a push of the registry puts a push in flight.
LEMMA WorkerPushes ==
    ASSUME TypeInv, NEW w \in Workers, WorkerStep(w), NEW F \in Names, NEW d \in Digests,
           PushPending(F, d)'
    PROVE  PushPending(F, d)
<1>1. CASE GetImageFails(w) \/ IndexFails(w) \/ IndexImage(w) \/ Search(w)
    BY <1>1, DropInFlight DEF PushPending
<1>2. CASE \/ Receive(w) \/ GetImage(w) \/ FindImage(w) \/ FindFails(w)
           \/ \E G \in Names : Delete(w, G) \/ DeleteFails(w, G)
    BY <1>2, StillInFlight DEF PushPending
<1> QED
    BY <1>1, <1>2 DEF WorkerStep

LEMMA DeliveryPushes ==
    ASSUME TypeInv, SinkStep \/ Timeout \/ \E h \in Requests : HandlerStep(h),
           NEW F \in Names, NEW d \in Digests, PushPending(F, d)'
    PROVE  PushPending(F, d)
<1>1. CASE Acknowledge
    <2>1. /\ outbox' = SubSeq(outbox, envelope + 1, Len(outbox))
          /\ UNCHANGED <<requests, notifications, pc, job>>
        BY <1>1 DEF Acknowledge, worker
    <2>2. Delivering(PushJob(F, d))' <=> Delivering(PushJob(F, d))
        BY <2>1, OtherFlight
    <2>3. Reported(PushJob(F, d), outbox') => Reported(PushJob(F, d), outbox)
        <3>1. outbox \in Seq(Events) /\ envelope \in Nat
            BY DEF TypeInv, TypeOK
        <3>2. CASE envelope \in 0 .. Len(outbox)
            BY <2>1, <3>1, <3>2, ReportedSuffix
        <3>3. CASE envelope \notin 0 .. Len(outbox)
            <4>1. envelope + 1 > Len(outbox)
                BY <3>1, <3>3, LenProperties
            <4>2. outbox' = <<>>
                BY <2>1, <3>1, <4>1
            <4> QED
                BY <4>2, EmptySeq DEF Reported
        <3> QED
            BY <3>2, <3>3
    <2>4. InFlight(PushJob(F, d))' =>
              Delivering(PushJob(F, d))' \/ Reported(PushJob(F, d), outbox')
        BY DEF InFlight, Reported, PushJob
    <2> QED
        BY <2>2, <2>3, <2>4 DEF PushPending, InFlight
<1>2. CASE Timeout \/ \E h \in Requests : Submit(h) \/ Ignore(h) \/ Post(h)
    BY <1>2, StillInFlight DEF PushPending
<1> QED
    BY <1>1, <1>2 DEF SinkStep, HandlerStep

\* An event that is no push.
LEMMA PublishPushes ==
    ASSUME TypeInv, NEW r \in Repos, NEW e \in Digests,
           RegistryDelete(r, e) \/ RegistryActivity(r, e),
           NEW F \in Names, NEW d \in Digests, PushPending(F, d)'
    PROVE  PushPending(F, d)
<1>1. PICK o \in Events : /\ o.action \in {"delete", "other"}
                          /\ Publish(o.action, o.target, o.digest)
    <2>1. /\ [action |-> "delete", target |-> <<r, None>>, digest |-> e] \in Events
          /\ [action |-> "other", target |-> <<r, None>>, digest |-> e] \in Events
        BY DEF Events
    <2>2. \/ Publish("delete", <<r, None>>, e)
          \/ Publish("other", <<r, None>>, e)
        BY DEF RegistryDelete, RegistryActivity
    <2> QED
        BY <2>1, <2>2
<1>2. JobOf(o).action # "push" /\ PushJob(F, d).action = "push"
    BY <1>1 DEF JobOf, PushJob
<1> QED
    BY <1>1, <1>2, PublishFlight DEF PushPending

\* A worker finds the document and starts the hooks, or leaves it alone.
LEMMA WorkerPays ==
    ASSUME TypeInv, Bookkeeping, DeleteHooks, NEW w \in Workers,
           NEW F \in Names, NEW d \in Digests, Waits(F, d),
           JobStep(w) \/ (SkipStep(w) /\ job[w].digest # d)
    PROVE  DeleteRecord(F, d) \in fired' \/ Waits(F, d)'
<1> USE DEF TypeInv, TypeOK
<1>0. WorkerStep(w)
    BY DEF JobStep, SkipStep, WorkerStep
<1>1. /\ tags' = tags
      /\ \A x \in Digests : ~PushPending(F, x)'
      /\ \A G \in Names \ {F} : ~PushPending(G, d)'
    <2>1. tags' = tags
        BY <1>0 DEF WorkerStep, Receive, GetImage, GetImageFails, IndexImage, IndexFails,
           FindImage, FindFails, Search, Delete, DeleteFails, registry
    <2> QED
        BY <1>0, <2>1, WorkerPushes DEF Waits
<1> DEFINE Kept == /\ index'[F] = d
                   /\ ~Hit(F)'
                   /\ \A v \in Workers : pc'[v] = "Search" => job'[v].digest # d
                   /\ \A G \in Names \ {F} : index'[G] # d
<1>2. Kept => Waits(F, d)'
    BY <1>1 DEF Waits
<1> HIDE DEF Kept
<1>3. CASE Receive(w)
    <2>1. /\ UNCHANGED <<index, hits>>
          /\ \A v \in Workers : v # w => pc'[v] = pc[v] /\ job'[v] = job[v]
          /\ pc'[w] # "Search"
        BY <1>3 DEF Receive, Goto
    <2> QED
        BY <1>2, <2>1 DEF Kept, Waits, Hit
<1>4. CASE GetImage(w)
    <2>1. /\ UNCHANGED <<index, hits, job>>
          /\ \A v \in Workers : v # w => pc'[v] = pc[v]
          /\ pc'[w] # "Search"
        BY <1>4 DEF GetImage, Goto
    <2> QED
        BY <1>2, <2>1 DEF Kept, Waits, Hit
<1>5. CASE GetImageFails(w) \/ IndexFails(w)
    <2>1. /\ UNCHANGED index
          /\ \A v \in Workers : v # w => pc'[v] = pc[v] /\ job'[v] = job[v]
          /\ pc'[w] # "Search"
          /\ \A v \in Workers : hits'[v] \subseteq hits[v]
        BY <1>5 DEF GetImageFails, IndexFails, Finish, Goto
    <2> QED
        BY <1>2, <2>1 DEF Kept, Waits, Hit
<1>6. CASE IndexImage(w)
    <2>1. /\ index' = [index EXCEPT ![job[w].name] = job[w].digest]
          /\ \A v \in Workers : v # w => pc'[v] = pc[v] /\ job'[v] = job[v]
          /\ pc'[w] # "Search"
          /\ \A v \in Workers : hits'[v] \subseteq hits[v]
        BY <1>6 DEF IndexImage, Finish, Goto
    <2>2. /\ job[w] \in Jobs /\ job[w].action = "push"
          /\ job[w].name \in Names /\ job[w].digest \in Digests
          /\ PushPending(job[w].name, job[w].digest)
        <3>1. job[w] \in Jobs /\ job[w].action = "push"
            BY <1>6 DEF IndexImage, Busy
        <3>2. job[w].name \in Names /\ job[w].digest \in Digests
            BY <3>1 DEF Jobs
        <3>3. InFlight(job[w])
            BY <1>6, DropInFlight
        <3>4. job[w] = PushJob(job[w].name, job[w].digest)
            BY <3>1, PushJobIs DEF PushJob
        <3> QED
            BY <3>1, <3>2, <3>3, <3>4 DEF PushPending
    <2>3. job[w].name # F /\ job[w].digest # d
        BY <2>2 DEF Waits
    <2> QED
        BY <1>2, <2>1, <2>3 DEF Kept, Waits, Hit
<1>7. CASE FindImage(w)
    <2>1. /\ UNCHANGED <<index, hits, job>>
          /\ \A v \in Workers : v # w => pc'[v] = pc[v]
        BY <1>7 DEF FindImage, Goto
    <2>2. CASE job[w].digest # d
        BY <1>2, <2>1, <2>2 DEF Kept, Waits, Hit
    <2>3. CASE job[w].digest = d
        <3>1. Matches(d) = {F}
            BY DEF Waits, Matches
        <3>2. Cardinality({F}) = 1
            BY FS_Singleton
        <3>3. fired' = fired \cup {[job[w] EXCEPT !.name = G] : G \in {F}}
            BY <1>7, <2>3, <3>1, <3>2 DEF FindImage
        <3>4. [job[w] EXCEPT !.name = F] = DeleteRecord(F, d)
            <4>1. job[w] \in Jobs /\ job[w].action = "delete"
                BY <1>7 DEF FindImage, Busy
            <4> QED
                BY <2>3, <4>1 DEF Jobs, DeleteRecord
        <3> QED
            BY <3>3, <3>4
    <2> QED
        BY <2>2, <2>3
<1>8. CASE Search(w)
    <2>1. /\ UNCHANGED index
          /\ \A v \in Workers : v # w => pc'[v] = pc[v] /\ job'[v] = job[v]
          /\ pc'[w] # "Search"
        BY <1>8 DEF Search, Finish, Goto
    <2>2. F \notin Matches(job[w].digest)
        BY <1>8 DEF Search, Waits, Matches
    <2>3. \A v \in Workers : F \notin hits'[v]
        <3>1. \A v \in Workers : F \notin hits[v]
            BY DEF Waits, Hit
        <3> QED
            BY <1>8, <2>2, <3>1 DEF Search, Finish, Page
    <2> QED
        BY <1>2, <2>1, <2>3 DEF Kept, Waits, Hit
<1>9. ASSUME NEW G \in Names, Delete(w, G)
      PROVE  Kept
    <2>1. /\ index' = [index EXCEPT ![G] = None] /\ G # F
          /\ \A v \in Workers : v # w => pc'[v] = pc[v] /\ job'[v] = job[v]
          /\ pc'[w] # "Search"
          /\ \A v \in Workers : hits'[v] \subseteq hits[v]
        BY <1>9 DEF Delete, Finish, Goto, Waits, Hit
    <2>2. d # None
        BY NoneAssumption
    <2> QED
        BY <2>1, <2>2 DEF Kept, Waits, Hit
<1>10. ASSUME NEW G \in Names, DeleteFails(w, G)
       PROVE  Kept
    <2>1. /\ UNCHANGED index
          /\ \A v \in Workers : v # w => pc'[v] = pc[v] /\ job'[v] = job[v]
          /\ pc'[w] # "Search"
          /\ \A v \in Workers : hits'[v] \subseteq hits[v]
        BY <1>10 DEF DeleteFails, Finish, Goto
    <2> QED
        BY <2>1 DEF Kept, Waits, Hit
<1>11. ASSUME FindFails(w), job[w].digest # d
       PROVE  Kept
    <2>1. /\ UNCHANGED <<index, hits, job>>
          /\ \A v \in Workers : v # w => pc'[v] = pc[v]
        BY <1>11 DEF FindFails, Goto
    <2> QED
        BY <1>11, <2>1 DEF Kept, Waits, Hit
<1> QED
    BY <1>2, <1>3, <1>4, <1>5, <1>6, <1>7, <1>8, <1>9, <1>10, <1>11 DEF JobStep, SkipStep

\* The document of a deleted image still waits after a push that overlaps nothing.
LEMMA PushPays ==
    ASSUME TypeInv, NEW G \in Names, NEW e \in Digests, RegistryPush(G, e),
           NEW F \in Names, NEW d \in Digests, F # G, d # e, Waits(F, d)
    PROVE  Waits(F, d)'
<1> USE DEF TypeInv, TypeOK
<1> DEFINE o == [action |-> "push", target |-> G, digest |-> e]
<1>1. /\ o \in Events /\ o.action = "push" /\ JobOf(o) = PushJob(G, e)
      /\ Publish(o.action, o.target, o.digest)
    BY DEF RegistryPush, Events, JobOf, PushJob
<1>2. \A H \in Names, x \in Digests :
          PushPending(H, x)' <=> PushPending(H, x) \/ PushJob(G, e) = PushJob(H, x)
    BY <1>1, PublishFlight DEF PushPending
<1>3. \A H \in Names, x \in Digests : PushJob(G, e) = PushJob(H, x) => G = H /\ e = x
    BY DEF PushJob
<1>4. tags'[F] = tags[F] /\ UNCHANGED <<index, hits, pc, job>>
    BY DEF RegistryPush, Publish, worker
<1> QED
    BY <1>2, <1>3, <1>4 DEF Waits, Hit

\* The delete of an image with one name leaves its document waiting.
LEMMA DeleteOwes ==
    ASSUME AgreementInv, NEW r \in Repos, NEW d \in Digests, RegistryDelete(r, d),
           suspect' = suspect \cup DeleteOverlaps(r, d), NEW o \in OwedBy(r, d)
    PROVE  o[1] \in Names /\ o[2] = d /\ o[1] \notin suspect' /\ Waits(o[1], d)'
<1> USE DEF AgreementInv, TypeInv, TypeOK
<1>1. /\ o[1] \in Untagged(r, d) /\ o[2] = d /\ o[1] \notin suspect'
      /\ \A G \in Names \ {o[1]} : index[G] # d /\ ~PushPending(G, d)
    BY DEF OwedBy
<1> DEFINE F == o[1]
<1>2. F \in Names /\ tags[F] = d /\ d # None /\ F \notin suspect
    BY <1>1, NoneAssumption DEF Untagged
<1>3. PushIsCurrent(F) /\ DoomedIsGone(F) /\ RestAgrees(F)
    BY <1>2 DEF Settled
<1>4. ~PushPending(F, d)
    BY <1>1, <1>2 DEF DeleteOverlaps
<1>5. ~Doomed(F) /\ \A x \in Digests : ~PushPending(F, x)
    BY <1>2, <1>3, <1>4 DEF PushIsCurrent, DoomedIsGone
<1>6. index[F] = d
    BY <1>2, <1>3, <1>5 DEF RestAgrees
<1>7. ~Hit(F) /\ ~DeletePending(d)
    BY <1>2, <1>5, <1>6 DEF Doomed
<1>8. ASSUME NEW w \in Workers, pc[w] = "Search"
      PROVE  job[w].digest # d
    <2> SUFFICES ASSUME job[w].digest = d PROVE FALSE
        OBVIOUS
    <2>1. job[w] \in Jobs /\ job[w].action = "delete"
        BY <1>8 DEF Busy
    <2>2. job[w] = DeleteJob(d)
        BY <2>1 DEF Jobs, DeleteJob
    <2> QED
        BY <1>7, <1>8, <2>2 DEF DeletePending, InFlight, Delivering
<1>9. tags'[F] = None /\ UNCHANGED <<index, hits, pc, job>>
    BY <1>1, <1>2 DEF RegistryDelete, Publish, worker
<1>10. \A H \in Names, x \in Digests : PushPending(H, x)' => PushPending(H, x)
    BY PublishPushes
<1>11. Waits(F, d)'
    <2>1. index' = index /\ hits' = hits /\ pc' = pc /\ job' = job
        BY <1>9
    <2>2. tags'[F] = None /\ index'[F] = d
        BY <1>6, <1>9
    <2>3. ~Hit(F)' /\ \A w \in Workers : pc'[w] = "Search" => job'[w].digest # d
        BY <1>7, <1>8, <2>1 DEF Hit
    <2>4. \A x \in Digests : ~PushPending(F, x)'
        BY <1>2, <1>5, <1>10
    <2>5. \A G \in Names \ {F} : index'[G] # d /\ ~PushPending(G, d)'
        BY <1>1, <1>10, <2>1
    <2> HIDE DEF F
    <2> QED
        BY <2>2, <2>3, <2>4, <2>5 DEF Waits
<1> QED
    BY <1>1, <1>2, <1>11

\* The steps that touch neither the documents nor the workers.
LEMMA WaitsFrame ==
    ASSUME NEW F \in Names, NEW d \in Digests, Waits(F, d), tags'[F] = tags[F],
           UNCHANGED <<index, hits, pc, job>>,
           \A H \in Names, x \in Digests : PushPending(H, x)' => PushPending(H, x)
    PROVE  Waits(F, d)'
    BY DEF Waits, Hit

LEMMA NextPays ==
    ASSUME AgreementInv, OwedIsPaid, HookNext
    PROVE  OwedIsPaid'
<1> USE DEF AgreementInv
<1>1. ASSUME NEW G \in Names, NEW e \in Digests, HookPush(G, e)
      PROVE  OwedIsPaid'
    <2>1. /\ RegistryPush(G, e) /\ fired' = fired
          /\ suspect' = IF PushOverlaps(G, e) THEN suspect \cup {G} ELSE suspect \ {G}
          /\ owed' = {o \in owed : o[1] \notin suspect' /\ o[2] # e}
        BY <1>1 DEF HookPush, RegistryPush, Publish
    <2>2. ASSUME DeleteHooks, NEW o \in owed'
          PROVE  DeleteRecord(o[1], o[2]) \in fired' \/ Waits(o[1], o[2])'
        <3>1. /\ o \in owed /\ o[1] \notin suspect' /\ o[2] # e
              /\ o[1] \in Names /\ o[2] \in Digests /\ o[1] \notin suspect
            BY <2>1, <2>2 DEF OwedIsPaid
        <3>2. ASSUME Waits(o[1], o[2])
              PROVE  Waits(o[1], o[2])'
            <4>1. o[1] # G
                <5> SUFFICES ASSUME o[1] = G PROVE FALSE
                    OBVIOUS
                <5>1. ~PushOverlaps(G, e)
                    BY <2>1, <3>1
                <5>2. ~Doomed(G) /\ \A x \in Digests : ~PushPending(G, x)
                    BY <5>1 DEF PushOverlaps
                <5>3. RestAgrees(G)
                    BY <3>1 DEF Settled
                <5>4. index[G] = None /\ index[G] \in Digests
                    BY <3>1, <3>2, <5>2, <5>3 DEF RestAgrees, Waits
                <5> QED
                    BY <5>4, NoneAssumption
            <4> QED
                BY <2>1, <3>1, <3>2, <4>1, PushPays
        <3> QED
            BY <2>1, <2>2, <3>1, <3>2 DEF OwedIsPaid
    <2> QED
        BY <2>1, <2>2 DEF OwedIsPaid
<1>2. ASSUME NEW r \in Repos, NEW e \in Digests, HookDelete(r, e)
      PROVE  OwedIsPaid'
    <2>1. /\ RegistryDelete(r, e) /\ fired' = fired
          /\ suspect' = suspect \cup DeleteOverlaps(r, e)
          /\ owed' = {o \in owed : o[1] \notin suspect'} \cup OwedBy(r, e)
        BY <1>2 DEF HookDelete, RegistryDelete, Publish
    <2>2. \A o \in OwedBy(r, e) : /\ o \in Names \X Digests /\ o[2] = e
                                  /\ o[1] \notin suspect' /\ Waits(o[1], e)'
        <3>1. \A o \in OwedBy(r, e) : o \in Names \X Digests
            BY DEF OwedBy, Untagged
        <3> QED
            BY <2>1, <3>1, DeleteOwes
    <2>3. ASSUME NEW F \in Names, NEW d \in Digests, Waits(F, d)
          PROVE  Waits(F, d)'
        <3>1. tags'[F] = None /\ UNCHANGED <<index, hits, pc, job>>
            BY <2>1, <2>3 DEF RegistryDelete, Publish, worker, Waits
        <3> QED
            BY <2>1, <2>3, <3>1, PublishPushes, WaitsFrame DEF Waits
    <2> QED
        BY <2>1, <2>2, <2>3 DEF OwedIsPaid
<1>3. ASSUME NEW w \in Workers, HookJobStep(w) \/ HookSkip(w)
      PROVE  OwedIsPaid'
    <2>1. fired \subseteq fired'
        BY <1>3 DEF HookJobStep, HookSkip, JobStep, SkipStep, Receive, GetImage,
           GetImageFails, IndexImage, IndexFails, FindImage, FindFails, Search, Delete,
           DeleteFails
    <2>2. ASSUME NEW o \in owed'
          PROVE  /\ o \in owed /\ o[1] \notin suspect'
                 /\ JobStep(w) \/ (SkipStep(w) /\ job[w].digest # o[2])
        BY <1>3, <2>2 DEF HookJobStep, HookSkip, SkipStep, OwedIsPaid
    <2>3. ASSUME DeleteHooks, NEW o \in owed'
          PROVE  DeleteRecord(o[1], o[2]) \in fired' \/ Waits(o[1], o[2])'
        BY <2>1, <2>2, <2>3, WorkerPays DEF OwedIsPaid
    <2> QED
        BY <2>2, <2>3 DEF OwedIsPaid
<1>4. ASSUME UNCHANGED <<owed, suspect, fired, tags, index, hits, pc, job>>,
             \A F \in Names, d \in Digests : PushPending(F, d)' => PushPending(F, d)
      PROVE  OwedIsPaid'
    BY <1>4, WaitsFrame DEF OwedIsPaid
<1>5. ASSUME NEW r \in Repos, NEW e \in Digests,
             RegistryActivity(r, e), UNCHANGED <<suspect, Others>>
      PROVE  OwedIsPaid'
    <2>1. UNCHANGED <<owed, suspect, fired, tags, index, hits, pc, job>>
        BY <1>5 DEF RegistryActivity, Publish, worker, Others
    <2> QED
        BY <1>4, <1>5, <2>1, PublishPushes
<1>6. CASE DeliveryStep /\ UNCHANGED Others
    <2>1. UNCHANGED <<owed, suspect, fired, tags, index, hits, pc, job>>
        BY <1>6 DEF DeliveryStep, SinkStep, Post, Acknowledge, Timeout, HandlerStep,
           Submit, Ignore, worker, registry, Others
    <2> QED
        BY <1>4, <1>6, <2>1, DeliveryPushes DEF DeliveryStep
<1>7. CASE EvalStep \/ \E g \in Goroutines : Hang(g)
    <2>1. UNCHANGED <<agreementVars, owed>>
        BY <1>7 DEF EvalStep, Lock, Return, Hang
    <2>2. /\ UNCHANGED <<owed, suspect, fired, tags, index, hits, pc, job>>
          /\ UNCHANGED <<requests, notifications, outbox>>
        BY <2>1 DEF agreementVars, vars, registry, delivery, worker
    <2>3. \A F \in Names, d \in Digests : PushPending(F, d)' => PushPending(F, d)
        BY <2>2 DEF PushPending, InFlight, Delivering, Reported
    <2> QED
        BY <1>4, <2>2, <2>3
<1> QED
    BY <1>1, <1>2, <1>3, <1>5, <1>6, <1>7 DEF HookNext

\* Once nothing is in flight the delete hooks have started for every image
\* whose only name was deleted, if neither its jobs overlapped or failed nor the
\* search of FindImage did: handleNotifications asks FindImage for the image before
\* it deletes anything, and no other job takes the document away.
THEOREM DeleteHooksAreStarted == HookSpec => []DeleteHooksStart
<1>1. HookSpec => []AgreementInv
    BY AgreementInvWithHooks
<1>2. HookInit => OwedIsPaid
    BY DEF HookInit, OwedIsPaid
<1>3. AgreementInv /\ OwedIsPaid /\ [HookNext]_hookVars => OwedIsPaid'
    <2>1. ASSUME OwedIsPaid, UNCHANGED hookVars
          PROVE  OwedIsPaid'
        <3>1. /\ UNCHANGED <<owed, suspect, fired, tags, index, hits, pc, job>>
              /\ UNCHANGED <<requests, notifications, outbox>>
            BY <2>1 DEF hookVars, agreementVars, vars, registry, delivery, worker
        <3>2. \A F \in Names, d \in Digests : PushPending(F, d)' => PushPending(F, d)
            BY <3>1 DEF PushPending, InFlight, Delivering, Reported
        <3> QED
            BY <2>1, <3>1, <3>2, WaitsFrame DEF OwedIsPaid
    <2> QED
        BY <2>1, NextPays
<1>4. AgreementInv /\ OwedIsPaid => DeleteHooksStart
    <2> SUFFICES ASSUME AgreementInv, OwedIsPaid, DeleteHooks, Quiescent, NEW o \in owed
                 PROVE  DeleteRecord(o[1], o[2]) \in fired
        BY DEF DeleteHooksStart, DeleteRecord
    <2> DEFINE F == o[1]
               d == o[2]
    <2>1. F \in Names /\ d \in Digests /\ F \notin suspect
        BY DEF OwedIsPaid
    <2> SUFFICES ASSUME Waits(F, d) PROVE FALSE
        BY DEF OwedIsPaid
    <2>2. \A j : ~InFlight(j)
        <3>1. \A j : ~Reported(j, <<>>)
            BY EmptySeq DEF Reported
        <3> QED
            BY <3>1, EmptySeq DEF Quiescent, InFlight, Delivering
    <2>3. ~Doomed(F) /\ \A x \in Digests : ~PushPending(F, x)
        BY <2>2 DEF Doomed, DeletePending, PushPending, Waits
    <2>4. RestAgrees(F)
        BY <2>1 DEF AgreementInv, Settled
    <2>5. d = None
        BY <2>3, <2>4 DEF RestAgrees, Waits
    <2> QED
        BY <2>1, <2>5, NoneAssumption
<1> QED
    BY <1>1, <1>2, <1>3, <1>4, PTL DEF HookSpec
==============================================================================
