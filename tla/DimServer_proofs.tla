--------------------------- MODULE DimServer_proofs ---------------------------
(****************************************************************************)
(* Type correctness of DimServer, and the theorem that a built and silent   *)
(* server agrees with the registry about every name that is not suspect,    *)
(* for any sets of names, digests, workers and handlers and any number of   *)
(* events, retries and crashes.                                             *)
(****************************************************************************)
EXTENDS DimServer, IndexAgreement_proofs

------------------------------------------------------------------------------
(* The inductive invariant                                                  *)

\* The build may still bring the image of F, or never ends well.
Coming(F) ==
    \/ build \in {"none", "catalog", "failed", "stuck"}
    \/ build = "read" /\ (F[1] \in unlisted \/ F \in toRead \/ batch[F] = tags[F])

\* Until then nothing may be indexed under F, and no build brings a manifest
\* that has no tag.
Missing(F) == IF Coming(F) \/ F[2] = ByDigest THEN {None} ELSE {}

\* What is read of F, now or later, is not about to be deleted.
TagSafe(F) == tags[F] # None => ~DeletePending(tags[F])

\* What was read of F is what the registry has.
BatchSafe(F) == build = "read" => batch[F] \in {None, tags[F]}

Sound(F) ==
    Current(F, Missing(F)) /\ HandedIsApplied(F) /\ TagSafe(F) /\ BatchSafe(F)

\* Nothing is listed or read before the catalog is.
NothingReadYet ==
    build \in {"none", "catalog"} =>
        batch = EmptyIndex /\ unlisted = {} /\ toRead = {}

BuildType ==
    /\ suspect \subseteq Names
    /\ up \in BOOLEAN
    /\ build \in {"none", "catalog", "read", "done", "failed", "stuck"}
    /\ (build = "none") = ~up
    /\ unlisted \subseteq Repos
    /\ toRead \subseteq Names
    /\ batch \in [Names -> Digests \cup {None}]
    /\ crashes \in 0 .. MaxCrashes

ServerInv ==
    /\ TypeInv /\ Bookkeeping /\ BuildType /\ NothingReadYet
    /\ \A F \in Names \ suspect : Sound(F)

LEMMA ServerTypeParts == ServerTypeOK <=> TypeOK /\ BuildType
    BY DEF ServerTypeOK, BuildType

------------------------------------------------------------------------------
(* What keeps a name sound                                                  *)

\* A name keeps what it may miss, or the registry has nothing under it.
LEMMA MissingMore ==
    ASSUME NEW F \in Names, NEW M, M \subseteq {None}, Current(F, M)',
           M \subseteq Missing(F)' \/ tags'[F] = None
    PROVE  Current(F, Missing(F))'
<1>1. ASSUME index'[F] \in M
      PROVE  index'[F] = tags'[F] \/ index'[F] \in Missing(F)'
    BY <1>1
<1> QED
    BY <1>1 DEF Current, PushIsCurrent, DoomedIsGone, Rest

\* Only the registry adds jobs.
LEMMA NoNewJob ==
    ASSUME TypeInv, Bookkeeping, NEW j,
           DeliveryStep \/ \E w \in Workers : JobStep(w) \/ SkipStep(w)
    PROVE  InFlight(j)' => InFlight(j)
<1>1. CASE Acknowledge
    <2>1. /\ UNCHANGED <<requests, notifications, pc, job>>
          /\ outbox' = SubSeq(outbox, envelope + 1, Len(outbox))
        BY <1>1 DEF Acknowledge, worker
    <2>2. outbox \in Seq(Events) /\ envelope \in 0 .. Len(outbox)
        BY BookkeepingParts, LenProperties DEF RestIsSuffix, TypeInv, TypeOK
    <2>3. Reported(j, outbox') => Reported(j, outbox)
        BY <2>1, <2>2, ReportedSuffix
    <2>4. Reported(j, outbox)' <=> Reported(j, outbox')
        BY DEF Reported
    <2>5. Delivering(j)' <=> Delivering(j)
        BY <2>1, OtherFlight
    <2> QED
        BY <2>3, <2>4, <2>5 DEF InFlight
<1>2. ASSUME NEW w \in Workers, JobStep(w) \/ SkipStep(w)
      PROVE  InFlight(j)' => InFlight(j)
    BY <1>2, StillInFlight, DropInFlight DEF JobStep, SkipStep
<1>3. CASE DeliveryStep /\ ~Acknowledge
    BY <1>3, StillInFlight DEF DeliveryStep, SinkStep, HandlerStep
<1> QED
    BY <1>1, <1>2, <1>3

\* Delivery and the workers leave the registry and the build alone.
LEMMA ApplyingSound ==
    ASSUME TypeInv, Bookkeeping, UNCHANGED Outside,
           DeliveryStep \/ \E w \in Workers : JobStep(w) \/ SkipStep(w),
           NEW F \in Names \ suspect', Sound(F)
    PROVE  Sound(F)'
<1>1. PICK M : M = Missing(F)
    OBVIOUS
<1>2. UNCHANGED <<tags, build, unlisted, toRead, batch>>
    BY DEF DeliveryStep, SinkStep, Post, Acknowledge, Timeout, HandlerStep, Submit,
           Ignore, JobStep, SkipStep, GetImageFails, Search, Receive, GetImage, IndexImage,
           IndexFails, FindImage, FindFails, Delete, DeleteFails, registry, Outside, building
<1>3. Missing(F)' = M
    BY <1>1, <1>2 DEF Missing, Coming
<1>4. Current(F, M)' /\ HandedIsApplied(F)'
    BY <1>1, JobSettled, DeliverySettled DEF Sound
<1>5. \A d \in Digests : DeletePending(d)' => DeletePending(d)
    BY NoNewJob DEF DeletePending
<1>6. TagSafe(F)'
    <2>1. tags[F] \in Digests \cup {None}
        BY DEF TypeInv, TypeOK
    <2> QED
        BY <1>2, <1>5, <2>1 DEF Sound, TagSafe
<1>7. BatchSafe(F)'
    BY <1>2 DEF Sound, BatchSafe
<1>8. Current(F, Missing(F))'
    BY <1>1, <1>3, <1>4, MissingMore DEF Missing
<1> QED
    BY <1>4, <1>6, <1>7, <1>8 DEF Sound

\* A step of the build that changes neither registry, index nor notifications.
LEMMA BuildingSound ==
    ASSUME TypeInv, Bookkeeping, NEW F \in Names, Sound(F),
           UNCHANGED <<tags, outbox, envelope, awaiting, requests, notifications,
                       pc, job, hits, index>>,
           Missing(F) \subseteq Missing(F)' \/ tags[F] = None,
           BatchSafe(F)'
    PROVE  Sound(F)'
<1>1. PICK M : M = Missing(F)
    OBVIOUS
<1>2. /\ Current(F, M)' /\ HandedIsApplied(F)'
      /\ \A d \in Digests : DeletePending(d)' <=> DeletePending(d)
    BY <1>1, SettledFrame DEF Sound
<1>3. Current(F, Missing(F))'
    BY <1>1, <1>2, MissingMore DEF Missing
<1>4. TagSafe(F)'
    <2>1. tags[F] \in Digests \cup {None}
        BY DEF TypeInv, TypeOK
    <2> QED
        BY <1>2, <2>1 DEF Sound, TagSafe
<1> QED
    BY <1>2, <1>3, <1>4 DEF Sound

------------------------------------------------------------------------------
(* The registry                                                             *)

LEMMA ServerPushSound ==
    ASSUME TypeInv, Bookkeeping, NEW G \in Names, NEW d \in Digests,
           RegistryPush(G, d), UNCHANGED Outside,
           NEW F \in Names,
           F = G => ~PushOverlaps(G, d) /\ ~BatchOverwrites(G, d),
           F # G => Sound(F)
    PROVE  Sound(F)'
<1> DEFINE e == [action |-> "push", target |-> G, digest |-> d]
<1>1. /\ e \in Events /\ Publish(e.action, e.target, e.digest)
      /\ tags' = [tags EXCEPT ![G] = d] /\ JobOf(e) = PushJob(G, d)
      /\ UNCHANGED <<build, unlisted, toRead, batch>>
    BY DEF RegistryPush, Events, JobOf, PushJob, Outside, building
<1>2. \A x \in Digests : DeletePending(x)' <=> DeletePending(x)
    <2>1. \A j : InFlight(j)' <=> InFlight(j) \/ j = PushJob(G, d)
        BY <1>1, PublishFlight
    <2> QED
        BY <2>1 DEF DeletePending, PushJob, DeleteJob
<1>3. HandedIsApplied(F)'
    BY PushHanded DEF Sound
<1>4. CASE F = G
    <2>1. tags'[F] = d
        BY <1>1, <1>4 DEF TypeInv, TypeOK
    <2>2. TagSafe(F)'
        BY <1>2, <1>4, <2>1 DEF TagSafe, PushOverlaps
    <2>3. BatchSafe(F)'
        BY <1>1, <1>4, <2>1 DEF BatchSafe, BatchOverwrites
    <2>4. PICK M : M = {}
        OBVIOUS
    <2>5. Current(F, M)'
        BY <1>4, PushCurrent
    <2>6. Current(F, Missing(F))'
        BY <2>4, <2>5, MissingMore
    <2> QED
        BY <1>3, <2>2, <2>3, <2>6 DEF Sound
<1>5. CASE F # G
    <2>1. tags'[F] = tags[F] /\ tags[F] \in Digests \cup {None}
        BY <1>1, <1>5 DEF TypeInv, TypeOK
    <2>2. TagSafe(F)'
        BY <1>2, <1>5, <2>1 DEF TagSafe, Sound
    <2>3. BatchSafe(F)'
        BY <1>1, <1>5, <2>1 DEF BatchSafe, Sound
    <2>4. PICK M : M = Missing(F)
        OBVIOUS
    <2>5. Current(F, M)'
        BY <1>5, <2>4, PushCurrent DEF Sound
    <2>6. Missing(F)' = M
        BY <1>1, <2>1, <2>4 DEF Missing, Coming
    <2>7. Current(F, Missing(F))'
        BY <2>4, <2>5, <2>6, MissingMore DEF Missing
    <2> QED
        BY <1>3, <2>2, <2>3, <2>7 DEF Sound
<1> QED
    BY <1>4, <1>5

LEMMA ServerDeleteSound ==
    ASSUME TypeInv, Bookkeeping, NEW r \in Repos, NEW d \in Digests,
           RegistryDelete(r, d), UNCHANGED Outside,
           NEW F \in Names, F \notin DeleteOverlaps(r, d), F \notin BuildOverlaps(r, d),
           Sound(F)
    PROVE  Sound(F)'
<1> DEFINE e == [action |-> "delete", target |-> <<r, None>>, digest |-> d]
<1>1. /\ e \in Events /\ Publish(e.action, e.target, e.digest)
      /\ tags'[F] = IF F \in Untagged(r, d) THEN None ELSE tags[F]
      /\ JobOf(e) = DeleteJob(d)
      /\ UNCHANGED <<build, unlisted, toRead, batch>>
    BY DEF RegistryDelete, Events, JobOf, DeleteJob, Outside, building
<1>2. \A x \in Digests : DeletePending(x)' <=> DeletePending(x) \/ x = d
    <2>1. \A j : InFlight(j)' <=> InFlight(j) \/ j = DeleteJob(d)
        BY <1>1, PublishFlight
    <2> QED
        BY <2>1 DEF DeletePending, DeleteJob
<1>3. HandedIsApplied(F)'
    BY <1>1, PublishHanded DEF Sound
<1>4. /\ build = "read" => batch[F] # d
      /\ tags[F] = d => F \in Untagged(r, d)
    BY DEF BuildOverlaps
<1>5. TagSafe(F)'
    <2>1. tags[F] \in Digests \cup {None}
        BY DEF TypeInv, TypeOK
    <2> QED
        BY <1>1, <1>2, <1>4, <2>1 DEF Sound, TagSafe
<1>6. BatchSafe(F)'
    BY <1>1, <1>4 DEF Sound, BatchSafe, Untagged
<1>7. PICK M : M = Missing(F)
    OBVIOUS
<1>8. Current(F, M)'
    BY <1>7, RegistryDeleteCurrent DEF Sound, Missing
<1>9. M \subseteq Missing(F)' \/ tags'[F] = None
    BY <1>1, <1>7 DEF Missing, Coming
<1>10. Current(F, Missing(F))'
    BY <1>7, <1>8, <1>9, MissingMore DEF Missing
<1> QED
    BY <1>3, <1>5, <1>6, <1>10 DEF Sound

------------------------------------------------------------------------------
(* The build                                                                *)

LEMMA BuildStepsSound ==
    ASSUME TypeInv, Bookkeeping, BuildType, NothingReadYet,
           NEW F \in Names \ suspect', F \notin suspect, Sound(F),
           \/ Start \/ ReadCatalog \/ CommitFails
           \/ \E r \in Repos : ListTags(r) \/ ListFails(r)
           \/ \E G \in Names : ReadImage(G) \/ ReadFails(G)
    PROVE  Sound(F)'
<1> DEFINE Frame == UNCHANGED <<tags, outbox, envelope, awaiting, requests,
                                notifications, pc, job, hits, index>>
<1>1. CASE Start
    <2>1. Frame /\ Coming(F)' /\ BatchSafe(F)'
        BY <1>1 DEF Start, agreementVars, vars, registry, delivery, worker, Coming, BatchSafe
    <2> QED
        BY <2>1, BuildingSound DEF Missing
<1>2. CASE ReadCatalog
    <2>1. Frame /\ build' = "read" /\ batch[F] = None /\ UNCHANGED batch
        BY <1>2 DEF ReadCatalog, agreementVars, vars, registry, delivery, worker,
                    NothingReadYet, EmptyIndex
    <2>2. F[1] \in unlisted' \/ tags[F] = None \/ F[2] = ByDigest
        BY <1>2 DEF ReadCatalog, Tagged, Names
    <2>3. BatchSafe(F)' /\ (Coming(F)' \/ tags[F] = None \/ F[2] = ByDigest)
        BY <2>1, <2>2 DEF BatchSafe, Coming
    <2> QED
        BY <2>1, <2>3, BuildingSound DEF Missing
<1>3. CASE CommitFails
    <2>1. Frame /\ Coming(F)' /\ BatchSafe(F)'
        BY <1>3 DEF CommitFails, agreementVars, vars, registry, delivery, worker,
                    Coming, BatchSafe
    <2> QED
        BY <2>1, BuildingSound DEF Missing
<1>4. ASSUME NEW r \in Repos, ListTags(r) \/ ListFails(r)
      PROVE  Sound(F)'
    <2>1. Frame /\ UNCHANGED <<build, batch>> /\ unlisted' = unlisted \ {r}
        BY <1>4 DEF ListTags, ListFails, agreementVars, vars, registry, delivery, worker
    <2>2. BatchSafe(F)'
        BY <2>1 DEF BatchSafe, Sound
    <2>3. /\ toRead \subseteq toRead'
          /\ F[1] = r /\ tags[F] # None /\ F[2] # ByDigest => F \in toRead'
        BY <1>4 DEF ListTags, ListFails, Tagged
    <2>4. Coming(F) => Coming(F)' \/ tags[F] = None \/ F[2] = ByDigest
        BY <2>1, <2>3 DEF Coming
    <2> QED
        BY <2>1, <2>2, <2>4, BuildingSound DEF Missing
<1>5. ASSUME NEW G \in Names, ReadImage(G)
      PROVE  Sound(F)'
    <2>1. Frame /\ UNCHANGED <<build, unlisted>> /\ toRead' = toRead \ {G}
        BY <1>5 DEF ReadImage, agreementVars, vars, registry, delivery, worker
    <2>2. batch'[F] = IF F = G THEN tags[G] ELSE batch[F]
        BY <1>5 DEF ReadImage, BuildType
    <2>3. BatchSafe(F)'
        BY <2>1, <2>2 DEF BatchSafe, Sound
    <2>4. Coming(F) => Coming(F)'
        BY <2>1, <2>2 DEF Coming
    <2> QED
        BY <2>1, <2>3, <2>4, BuildingSound DEF Missing
<1>6. ASSUME NEW G \in Names, ReadFails(G)
      PROVE  Sound(F)'
    <2>1. Frame /\ Coming(F)' /\ BatchSafe(F)'
        BY <1>6 DEF ReadFails, agreementVars, vars, registry, delivery, worker,
                    Coming, BatchSafe
    <2> QED
        BY <2>1, BuildingSound DEF Missing
<1> QED
    BY <1>1, <1>2, <1>3, <1>4, <1>5, <1>6

\* What the batch holds of a name that is not suspect is the registry's image,
\* so the commit can only help; a name the batch does not hold misses nothing.
LEMMA CommitSound ==
    ASSUME TypeInv, Bookkeeping, BuildType, Commit, NEW F \in Names, Sound(F)
    PROVE  Sound(F)'
<1>1. /\ UNCHANGED <<tags, outbox, envelope, awaiting, requests, notifications,
                     pc, job, hits, batch>>
      /\ index'[F] = IF batch[F] = None THEN index[F] ELSE batch[F]
      /\ build = "read" /\ unlisted = {} /\ toRead = {} /\ build' = "done"
    BY DEF Commit, registry, delivery, worker
<1>2. batch[F] \in {None, tags[F]}
    BY <1>1 DEF Sound, BatchSafe
<1>3. /\ \A j : Delivering(j)' <=> Delivering(j)
      /\ Hit(F)' <=> Hit(F)
    BY <1>1, OtherFlight, HitFrame
<1>4. \A j : InFlight(j)' <=> InFlight(j)
    BY <1>1, <1>3 DEF InFlight, Reported
<1>5. \A d \in Digests : /\ PushPending(F, d)' <=> PushPending(F, d)
                         /\ DeletePending(d)' <=> DeletePending(d)
    BY <1>4 DEF PushPending, DeletePending
<1>6. tags[F] \in Digests \cup {None} /\ batch[F] \in Digests \cup {None}
    BY DEF TypeInv, TypeOK, BuildType
<1>7. TagSafe(F)'
    BY <1>1, <1>5, <1>6 DEF Sound, TagSafe
<1>8. BatchSafe(F)'
    BY <1>1 DEF BatchSafe
<1>9. CASE batch[F] = None
    <2>1. index'[F] = index[F]
        BY <1>1, <1>9
    <2>2. PICK M : M = Missing(F)
        OBVIOUS
    <2>3. Current(F, M)'
        BY <1>1, <1>3, <1>5, <2>1, <2>2, CurrentFrame DEF Sound
    <2>4. Coming(F) => tags'[F] = None \/ F[2] = ByDigest
        BY <1>1, <1>9 DEF Coming
    <2>5. Current(F, Missing(F))'
        BY <2>2, <2>3, <2>4, MissingMore DEF Missing
    <2>6. ASSUME NEW e \in Events, Handled(F, e) PROVE Handled(F, e)'
        BY <1>3, <2>1, <2>6, HandledKept
    <2>7. ASSUME awaiting # None, NEW i \in 1 .. envelope - Len(requests[awaiting])
          PROVE  Handled(F, outbox[i])'
        <3>1. PICK e \in Events : e = outbox[i]
            BY <2>7, HandedInOutbox
        <3>2. Handled(F, e)'
            BY <2>6, <2>7, <3>1 DEF Sound, HandedIsApplied
        <3> QED
            BY <1>1, <3>1, <3>2 DEF Handled
    <2>8. HandedIsApplied(F)'
        BY <1>1, <2>7 DEF HandedIsApplied
    <2> QED
        BY <1>7, <1>8, <2>5, <2>8 DEF Sound
<1>10. CASE batch[F] # None
    <2>1. index'[F] = tags[F] /\ tags[F] # None /\ ~DeletePending(tags[F])
        BY <1>1, <1>2, <1>10 DEF Sound, TagSafe
    <2>2. ~Doomed(F)
        BY <2>1 DEF Sound, Current, DoomedIsGone
    <2>3. ~Doomed(F)'
        BY <1>3, <1>5, <1>6, <2>1, <2>2 DEF Doomed
    <2>4. \A d \in Digests : PushPending(F, d) => tags[F] = d /\ ~DeletePending(d)
        BY DEF Sound, Current, PushIsCurrent
    <2>5. Current(F, Missing(F))'
        BY <1>1, <1>5, <2>1, <2>3, <2>4 DEF Current, PushIsCurrent, DoomedIsGone, Rest
    <2>6. ASSUME awaiting # None, NEW i \in 1 .. envelope - Len(requests[awaiting])
          PROVE  Handled(F, outbox[i])'
        <3>1. PICK e \in Events : e = outbox[i]
            BY <2>6, HandedInOutbox
        <3>2. e.action # "other" => InFlight(JobOf(e))
            BY <2>6, <3>1, HandedInOutbox
        <3>3. e.action = "push" /\ e.target = F => index'[F] = e.digest
            BY <2>1, <2>4, <3>2, JobOfEvent DEF PushPending
        <3>4. ~(e.action = "delete" /\ index'[F] = e.digest)
            BY <2>1, <3>2, JobOfEvent DEF DeletePending
        <3>5. Handled(F, e)'
            BY <3>3, <3>4 DEF Handled
        <3> QED
            BY <1>1, <3>1, <3>5 DEF Handled
    <2>7. HandedIsApplied(F)'
        BY <1>1, <2>6 DEF HandedIsApplied
    <2> QED
        BY <1>7, <1>8, <2>5, <2>7 DEF Sound
<1> QED
    BY <1>9, <1>10

------------------------------------------------------------------------------
(* The crash                                                                *)

\* Only the events of the outbox are left.
LEMMA CrashFlight ==
    ASSUME Crash, NEW j
    PROVE  InFlight(j)' <=> Reported(j, outbox)
<1>1. /\ \A h \in Requests : requests'[h] = <<>>
      /\ notifications' = <<>> /\ outbox' = outbox
      /\ \A w \in Workers : pc'[w] = "range"
    BY DEF Crash
<1>2. ~Reported(j, <<>>)
    BY EmptySeq DEF Reported
<1>3. ~Delivering(j)'
    <2>1. \A h \in Requests : ~Reported(j, requests[h])'
        BY <1>1, EmptySeq DEF Reported
    <2>2. ~(\E i \in DOMAIN notifications' : notifications'[i] = j)
        BY <1>1, EmptySeq
    <2> QED
        BY <1>1, <2>1, <2>2 DEF Delivering
<1>4. Reported(j, outbox)' <=> Reported(j, outbox)
    BY <1>1 DEF Reported
<1> QED
    BY <1>3, <1>4 DEF InFlight

\* The index is empty and the next build will read every name: what the outbox
\* still reports was right before, or does not touch the name.
LEMMA CrashSound ==
    ASSUME TypeInv, Crash, NEW F \in Names \ suspect',
           F \notin suspect => Sound(F)
    PROVE  Sound(F)'
<1>1. /\ tags' = tags /\ index'[F] = None /\ awaiting' = None /\ build' = "none"
      /\ \A w \in Workers : hits'[w] = {}
      /\ F \in suspect => ~TouchedByOutbox(F)
    BY DEF Crash, registry, EmptyIndex
<1>2. outbox \in Seq(Events) /\ tags[F] \in Digests \cup {None}
    BY DEF TypeInv, TypeOK
<1>3. \A e \in Events, d \in Digests :
          /\ JobOf(e) = PushJob(F, d) => e.action = "push" /\ e.target = F
          /\ JobOf(e) = DeleteJob(d) => e.action = "delete" /\ e.digest = d
    BY DEF JobOf, PushJob, DeleteJob
<1>4. ASSUME NEW i \in DOMAIN outbox PROVE outbox[i] \in Events
    BY <1>2, <1>4, LenProperties, ElementOfSeq
<1>5. ASSUME NEW d \in Digests, Reported(PushJob(F, d), outbox)
      PROVE  F \notin suspect /\ PushPending(F, d)
    <2>1. PICK i \in DOMAIN outbox : JobOf(outbox[i]) = PushJob(F, d)
        BY <1>5 DEF Reported
    <2>2. TouchedByOutbox(F)
        BY <1>3, <1>4, <2>1 DEF TouchedByOutbox
    <2> QED
        BY <1>1, <1>5, <2>2 DEF PushPending, InFlight
<1>6. ASSUME tags[F] # None, Reported(DeleteJob(tags[F]), outbox)
      PROVE  F \notin suspect /\ DeletePending(tags[F])
    <2>1. PICK i \in DOMAIN outbox : JobOf(outbox[i]) = DeleteJob(tags[F])
        BY <1>6 DEF Reported
    <2>2. TouchedByOutbox(F)
        BY <1>2, <1>3, <1>4, <1>6, <2>1 DEF TouchedByOutbox
    <2> QED
        BY <1>1, <1>6, <2>2 DEF DeletePending, InFlight
<1>7. TagSafe(F)'
    BY <1>1, <1>6, CrashFlight DEF Sound, TagSafe, DeletePending
<1>8. ~Doomed(F)'
    BY <1>1 DEF Doomed, Hit
<1>9. ASSUME NEW d \in Digests, PushPending(F, d)'
      PROVE  tags'[F] = d /\ ~DeletePending(d)'
    <2>1. F \notin suspect /\ PushPending(F, d)
        BY <1>5, <1>9, CrashFlight DEF PushPending
    <2>2. tags[F] = d /\ ~DeletePending(d)
        BY <2>1 DEF Sound, Current, PushIsCurrent
    <2> QED
        BY <1>1, <2>2, CrashFlight DEF DeletePending, InFlight
<1>10. Current(F, Missing(F))'
    <2>1. None \in Missing(F)'
        BY <1>1 DEF Missing, Coming
    <2> QED
        BY <1>1, <1>8, <1>9, <2>1 DEF Current, PushIsCurrent, DoomedIsGone, Rest
<1>11. HandedIsApplied(F)' /\ BatchSafe(F)'
    BY <1>1 DEF HandedIsApplied, BatchSafe
<1> QED
    BY <1>7, <1>10, <1>11 DEF Sound

------------------------------------------------------------------------------
(* The invariant                                                            *)

\* The steps that DimServer shares with IndexAgreement.
SharedStep ==
    /\ RegistryStep \/ DeliveryStep \/ \E w \in Workers : JobStep(w) \/ SkipStep(w)
    /\ UNCHANGED Outside

LEMMA SharedParts ==
    /\ ServerRegistryStep => SharedStep
    /\ DeliveryStep /\ UNCHANGED Outside => SharedStep
    /\ \A w \in Workers : (JobStep(w) \/ SkipStep(w)) /\ UNCHANGED Outside => SharedStep
    BY DEF ServerRegistryStep, RegistryStep, SharedStep

LEMMA SharedType ==
    ASSUME TypeInv, Bookkeeping, SharedStep
    PROVE  TypeInv' /\ Bookkeeping'
<1>1. Next
    BY DEF SharedStep, DeliveryStep, JobStep, SkipStep, Next, WorkerStep
<1>2. TypeInv'
    BY <1>1, NextType
<1> QED
    BY <1>1, <1>2, NextBookkeeping

LEMMA FrameType ==
    ASSUME TypeInv, Bookkeeping, UNCHANGED vars
    PROVE  TypeInv' /\ Bookkeeping'
<1>1. TypeInv'
    BY NextType
<1>2. UNCHANGED <<outbox, envelope, awaiting, requests, pc, hits>>
    BY DEF vars, registry, delivery, worker
<1> QED
    BY <1>1, <1>2 DEF Bookkeeping

LEMMA CommitType ==
    ASSUME TypeInv, Bookkeeping, BuildType, Commit
    PROVE  TypeInv' /\ Bookkeeping'
<1>1. UNCHANGED <<registry, delivery, requests, notifications, worker, fired>>
    BY DEF Commit
<1>2. index' \in [Names -> Digests \cup {None}]
    BY DEF Commit, TypeInv, TypeOK, BuildType
<1>3. TypeOK' /\ Busy'
    BY <1>1, <1>2 DEF registry, delivery, worker, TypeInv, TypeOK, Busy
<1> QED
    BY <1>1, <1>3 DEF TypeInv, Bookkeeping, delivery, worker

LEMMA CrashType ==
    ASSUME TypeInv, Bookkeeping, Crash
    PROVE  TypeInv' /\ Bookkeeping'
<1>1. /\ UNCHANGED <<tags, manifests, pushed, deleted, published, outbox, envelope,
                     retries>>
      /\ fired' = {} /\ awaiting' = None
      /\ requests' = [h \in Requests |-> <<>>] /\ notifications' = <<>>
      /\ pc' = [w \in Workers |-> "range"] /\ job' = [w \in Workers |-> None]
      /\ hits' = [w \in Workers |-> {}] /\ index' = [F \in Names |-> None]
    BY DEF Crash, registry, EmptyIndex
<1>2. notifications' \in Seq(Jobs) /\ Len(notifications') <= QueueCap
    BY <1>1, EmptySeq, SizesAssumption
<1>3. requests' \in [Requests -> Seq(Events)]
    BY <1>1, EmptySeq
<1>4. TypeOK'
    BY <1>1, <1>2, <1>3 DEF TypeInv, TypeOK
<1>5. Busy'
    BY <1>1 DEF Busy
<1> QED
    BY <1>1, <1>4, <1>5 DEF TypeInv, Bookkeeping

\* The steps of the build that leave the index alone.
BuildMove ==
    \/ Start \/ ReadCatalog \/ CommitFails
    \/ \E r \in Repos : ListTags(r) \/ ListFails(r)
    \/ \E F \in Names : ReadImage(F) \/ ReadFails(F)

LEMMA ServerSteps ==
    ServerNext <=> \/ ServerRegistryStep
                   \/ up /\ DeliveryStep /\ UNCHANGED Outside
                   \/ \E w \in Workers :
                         up /\ (JobStep(w) \/ SkipStep(w)) /\ UNCHANGED Outside
                   \/ BuildMove \/ Commit \/ Crash
    BY DEF ServerNext, BuildStep, BuildMove

LEMMA BuildMoveFrame ==
    BuildMove => UNCHANGED vars
    BY DEF BuildMove, Start, ReadCatalog, CommitFails, ListTags, ListFails, ReadImage,
           ReadFails, agreementVars

LEMMA NextServerType ==
    ASSUME TypeInv, Bookkeeping, BuildType, NothingReadYet,
           [ServerNext]_serverVars
    PROVE  TypeInv' /\ Bookkeeping' /\ BuildType' /\ NothingReadYet'
<1>1. TypeInv' /\ Bookkeeping'
    <2>1. CASE UNCHANGED serverVars
        BY <2>1, FrameType DEF serverVars, agreementVars
    <2> QED
        BY <2>1, ServerSteps, SharedParts, SharedType, BuildMoveFrame, FrameType,
           CommitType, CrashType
<1>2. BuildType' /\ NothingReadYet'
    <2> USE DEF BuildType, NothingReadYet
    <2>1. CASE UNCHANGED serverVars
        BY <2>1 DEF serverVars, agreementVars, building
    <2>2. CASE UNCHANGED Outside /\ suspect' \subseteq Names
        BY <2>2 DEF Outside, building
    <2>3. suspect' \subseteq Names
        <3>1. ASSUME ServerRegistryStep PROVE suspect' \subseteq Names
            BY <3>1 DEF ServerRegistryStep, DeleteOverlaps, BuildOverlaps
        <3>2. ASSUME NEW w \in Workers, JobStep(w) \/ SkipStep(w)
              PROVE  suspect' \subseteq Names
            <4>1. GetImageFails(w) \/ IndexFails(w) => job[w].name \in Names
                BY DEF GetImageFails, IndexFails, TypeInv, Busy, Jobs
            <4> QED
                BY <3>2, <4>1 DEF JobStep, SkipStep, Matches
        <3>3. ASSUME DeliveryStep \/ Commit \/ Crash PROVE suspect' \subseteq Names
            BY <3>3 DEF DeliveryStep, Commit, Crash
        <3>4. ASSUME BuildMove PROVE suspect' \subseteq Names
            BY <3>4 DEF BuildMove, Start, ReadCatalog, CommitFails, ListTags, ListFails,
                        ReadImage, ReadFails, agreementVars
        <3>5. ASSUME UNCHANGED serverVars PROVE suspect' \subseteq Names
            BY <3>5 DEF serverVars, agreementVars
        <3> QED
            BY <3>1, <3>2, <3>3, <3>4, <3>5, ServerSteps
    <2>4. CASE Start
        BY <2>3, <2>4 DEF Start
    <2>5. CASE ReadCatalog \/ Commit \/ CommitFails
        BY <2>3, <2>5 DEF ReadCatalog, Commit, CommitFails
    <2>6. ASSUME NEW r \in Repos, ListTags(r) \/ ListFails(r)
          PROVE  BuildType' /\ NothingReadYet'
        BY <2>3, <2>6 DEF ListTags, ListFails, Tagged
    <2>7. ASSUME NEW F \in Names, ReadImage(F) \/ ReadFails(F)
          PROVE  BuildType' /\ NothingReadYet'
        <3>1. tags[F] \in Digests \cup {None}
            BY DEF TypeInv, TypeOK
        <3> QED
            BY <2>3, <2>7, <3>1 DEF ReadImage, ReadFails
    <2>8. CASE Crash
        <3>1. crashes' \in 0 .. MaxCrashes
            BY <2>8, CrashesAssumption DEF Crash
        <3> QED
            BY <2>3, <2>8, <3>1 DEF Crash, EmptyIndex
    <2>9. ServerRegistryStep => UNCHANGED Outside
        BY DEF ServerRegistryStep
    <2> QED
        BY <2>1, <2>2, <2>3, <2>4, <2>5, <2>6, <2>7, <2>8, <2>9, ServerSteps DEF BuildMove
<1> QED
    BY <1>1, <1>2

LEMMA InitServer == ServerInit => ServerInv
<1> SUFFICES ASSUME ServerInit PROVE ServerInv
    OBVIOUS
<1>1. AgreementInv
    BY InitAgreement DEF ServerInit
<1>2. /\ suspect = {} /\ up = FALSE /\ build = "none" /\ crashes = 0
      /\ unlisted = {} /\ toRead = {} /\ batch = EmptyIndex
      /\ \A F \in Names : tags[F] = None
    BY DEF ServerInit, AgreementInit, Init
<1>3. BuildType /\ NothingReadYet
    <2>1. crashes \in 0 .. MaxCrashes
        BY <1>2, CrashesAssumption
    <2> QED
        BY <1>2, <2>1 DEF BuildType, NothingReadYet, EmptyIndex
<1>4. ASSUME NEW F \in Names
      PROVE  Sound(F)
    <2>1. Current(F, {}) /\ HandedIsApplied(F)
        BY <1>1, <1>2, SettledParts DEF AgreementInv
    <2>2. Current(F, Missing(F))
        BY <2>1 DEF Current, Rest
    <2>3. TagSafe(F) /\ BatchSafe(F)
        BY <1>2 DEF TagSafe, BatchSafe
    <2> QED
        BY <2>1, <2>2, <2>3 DEF Sound
<1> QED
    BY <1>1, <1>3, <1>4 DEF ServerInv, AgreementInv

\* Each step keeps every name sound that it does not make suspect, and a crash
\* those that it clears of suspicion.
LEMMA NextSound ==
    ASSUME ServerInv, [ServerNext]_serverVars, NEW F \in Names \ suspect'
    PROVE  Sound(F)'
<1> USE DEF ServerInv
<1>1. ASSUME NEW G \in Names, NEW d \in Digests, RegistryPush(G, d),
             suspect' = IF PushOverlaps(G, d) \/ BatchOverwrites(G, d)
                        THEN suspect \cup {G} ELSE suspect \ {G},
             UNCHANGED Outside
      PROVE  Sound(F)'
    <2>1. /\ F = G => ~PushOverlaps(G, d) /\ ~BatchOverwrites(G, d)
          /\ F # G => Sound(F)
        BY <1>1
    <2> QED
        BY <1>1, <2>1, ServerPushSound
<1>2. ASSUME NEW r \in Repos, NEW d \in Digests, RegistryDelete(r, d),
             suspect' = suspect \cup DeleteOverlaps(r, d) \cup BuildOverlaps(r, d),
             UNCHANGED Outside
      PROVE  Sound(F)'
    <2>1. F \notin DeleteOverlaps(r, d) /\ F \notin BuildOverlaps(r, d) /\ Sound(F)
        BY <1>2
    <2> QED
        BY <1>2, <2>1, ServerDeleteSound
<1>3. CASE ServerRegistryStep
    BY <1>1, <1>2, <1>3 DEF ServerRegistryStep
<1>4. ASSUME UNCHANGED Outside, DeliveryStep \/ \E w \in Workers : JobStep(w) \/ SkipStep(w)
      PROVE  Sound(F)'
    <2>1. F \in Names \ suspect
        BY <1>4 DEF DeliveryStep, JobStep, SkipStep
    <2> QED
        BY <1>4, <2>1, ApplyingSound
<1>5. CASE BuildMove
    <2>1. suspect \subseteq suspect'
        BY <1>5 DEF BuildMove, Start, ReadCatalog, CommitFails, ListTags, ListFails,
                    ReadImage, ReadFails, agreementVars
    <2> QED
        BY <1>5, <2>1, BuildStepsSound DEF BuildMove
<1>6. CASE Commit
    <2>1. F \in Names \ suspect
        BY <1>6 DEF Commit
    <2> QED
        BY <1>6, <2>1, CommitSound
<1>7. CASE Crash
    BY <1>7, CrashSound
<1>8. CASE UNCHANGED serverVars
    <2>1. /\ UNCHANGED <<tags, outbox, envelope, awaiting, requests, notifications,
                         pc, job, hits, index>>
          /\ UNCHANGED <<build, unlisted, toRead, batch, suspect>>
        BY <1>8 DEF serverVars, agreementVars, vars, registry, delivery, worker, building
    <2>2. Missing(F)' = Missing(F) /\ (BatchSafe(F)' <=> BatchSafe(F))
        BY <2>1 DEF Missing, Coming, BatchSafe
    <2>3. Sound(F)
        BY <2>1
    <2> QED
        BY <2>1, <2>2, <2>3, BuildingSound DEF Sound
<1> QED
    BY <1>3, <1>4, <1>5, <1>6, <1>7, <1>8, ServerSteps

LEMMA NextServer ==
    ASSUME ServerInv, [ServerNext]_serverVars
    PROVE  ServerInv'
<1>1. TypeInv' /\ Bookkeeping' /\ BuildType' /\ NothingReadYet'
    BY NextServerType DEF ServerInv
<1>2. \A F \in Names \ suspect' : Sound(F)'
    BY NextSound
<1> QED
    BY <1>1, <1>2 DEF ServerInv

LEMMA ServerInvHolds == ServerSpec => []ServerInv
    BY InitServer, NextServer, PTL DEF ServerSpec

------------------------------------------------------------------------------
(* The theorems                                                             *)

\* The state of the server keeps its type over starts, builds and crashes.
THEOREM ServerTypeCorrect == ServerSpec => []ServerTypeOK
<1>1. ServerInv => ServerTypeOK
    BY ServerTypeParts DEF ServerInv, TypeInv
<1> QED
    BY <1>1, ServerInvHolds, PTL

\* Once the server is built and nothing is in flight, the index holds what the
\* registry has of every name that is not suspect, however often runServer was
\* interrupted and however notifications met its Build; a manifest without a tag,
\* which AllTags does not list, is indexed as it is or not at all.
THEOREM ServerAgreementHolds == ServerSpec => []ServerAgreement
<1>1. ServerInv => ServerAgreement
    <2> SUFFICES ASSUME ServerInv, Built, Quiescent, NEW F \in Names \ suspect
                 PROVE  index[F] = tags[F] \/ (F[2] = ByDigest /\ index[F] = None)
        BY DEF ServerAgreement
    <2>1. \A j : ~InFlight(j)
        <3>1. \A j : ~Reported(j, <<>>)
            BY EmptySeq DEF Reported
        <3> QED
            BY <3>1, EmptySeq DEF Quiescent, InFlight, Delivering
    <2>2. ~Hit(F)
        BY BookkeepingParts DEF ServerInv, HitsKept, Quiescent, Hit
    <2>3. ~Doomed(F) /\ \A d \in Digests : ~PushPending(F, d)
        BY <2>1, <2>2 DEF Doomed, DeletePending, PushPending
    <2>4. Current(F, Missing(F)) /\ (Missing(F) = {} \/ (F[2] = ByDigest /\ Missing(F) = {None}))
        BY DEF ServerInv, Sound, Built, Missing, Coming
    <2> QED
        BY <2>3, <2>4 DEF Current, Rest
<1> QED
    BY <1>1, ServerInvHolds, PTL

------------------------------------------------------------------------------
(* What a search finds was announced or built                               *)

\* A worker that is about to index an image has started the push hooks for it.
AnnouncedFirst ==
    PushHooks => \A w \in Workers : pc[w] = "IndexImage" => job[w] \in fired

AnnouncedInv == AnnouncedFirst /\ AnnouncedOrBuilt

\* The steps that index nothing and start to index nothing.
LEMMA AnnouncedFrame ==
    ASSUME AnnouncedInv, fired \subseteq fired',
           build = "done" => build' = "done" /\ batch' = batch,
           \A F \in Names : index'[F] = None \/ index'[F] = index[F],
           \A w \in Workers : pc'[w] = "IndexImage" => pc[w] = "IndexImage" /\ job'[w] = job[w]
    PROVE  AnnouncedInv'
    BY DEF AnnouncedInv, AnnouncedFirst, AnnouncedOrBuilt, PushJob

LEMMA WorkerAnnounced ==
    ASSUME TypeInv, AnnouncedInv, NEW w \in Workers, JobStep(w) \/ SkipStep(w),
           UNCHANGED Outside
    PROVE  AnnouncedInv'
<1> USE DEF TypeInv, TypeOK
<1>0. UNCHANGED <<build, batch>>
    BY DEF Outside, building
<1>1. CASE GetImage(w)
    BY <1>0, <1>1 DEF GetImage, Goto, AnnouncedInv, AnnouncedFirst, AnnouncedOrBuilt, PushJob
<1>2. CASE IndexImage(w)
    <2>1. /\ index' = [index EXCEPT ![job[w].name] = job[w].digest]
          /\ pc' = [pc EXCEPT ![w] = "range"]
          /\ job' = [job EXCEPT ![w] = None]
          /\ fired' = fired
        BY <1>2 DEF IndexImage, Finish, Goto
    <2>2. AnnouncedFirst'
        BY <2>1 DEF AnnouncedInv, AnnouncedFirst
    <2>3. ASSUME PushHooks, NEW F \in Names, index'[F] # None
          PROVE  \/ PushJob(F, index'[F]) \in fired
                 \/ build = "done" /\ index'[F] = batch[F]
        <3>1. CASE F = job[w].name
            <4>1. job[w] \in Jobs /\ job[w].action = "push" /\ job[w] \in fired
                BY <1>2, <2>3 DEF IndexImage, Busy, AnnouncedInv, AnnouncedFirst
            <4>2. index'[F] = job[w].digest
                BY <2>1, <3>1
            <4> QED
                BY <3>1, <4>1, <4>2, PushJobIs DEF PushJob
        <3>2. CASE F # job[w].name
            BY <2>1, <2>3, <3>2 DEF AnnouncedInv, AnnouncedOrBuilt
        <3> QED
            BY <3>1, <3>2
    <2> QED
        BY <1>0, <2>1, <2>2, <2>3 DEF AnnouncedInv, AnnouncedOrBuilt, PushJob
<1>3. CASE Receive(w)
    BY <1>0, <1>3, AnnouncedFrame DEF Receive, Goto
<1>4. CASE GetImageFails(w) \/ IndexFails(w)
    BY <1>0, <1>4, AnnouncedFrame DEF GetImageFails, IndexFails, Finish, Goto
<1>5. CASE FindImage(w) \/ FindFails(w)
    BY <1>0, <1>5, AnnouncedFrame DEF FindImage, FindFails, Goto
<1>6. CASE Search(w)
    BY <1>0, <1>6, AnnouncedFrame DEF Search, Finish, Goto
<1>7. ASSUME NEW G \in Names, Delete(w, G) \/ DeleteFails(w, G)
      PROVE  AnnouncedInv'
    BY <1>0, <1>7, AnnouncedFrame DEF Delete, DeleteFails, Finish, Goto
<1> QED
    BY <1>1, <1>2, <1>3, <1>4, <1>5, <1>6, <1>7 DEF JobStep, SkipStep

LEMMA NextAnnounced ==
    ASSUME TypeInv, BuildType, AnnouncedInv, [ServerNext]_serverVars
    PROVE  AnnouncedInv'
<1>1. CASE ServerRegistryStep
    BY <1>1, AnnouncedFrame DEF ServerRegistryStep, RegistryPush, RegistryDelete,
       Publish, worker, Outside, building
<1>2. CASE DeliveryStep /\ UNCHANGED Outside
    BY <1>2, AnnouncedFrame DEF DeliveryStep, SinkStep, Post, Acknowledge, Timeout,
       HandlerStep, Submit, Ignore, worker, Outside, building
<1>3. CASE BuildMove
    <2>1. UNCHANGED <<fired, index, pc, job>>
        BY <1>3, BuildMoveFrame DEF vars, worker
    <2>2. build = "done" => build' = "done" /\ batch' = batch
        BY <1>3 DEF BuildMove, Start, ReadCatalog, CommitFails, ListTags, ListFails,
           ReadImage, ReadFails, building, BuildType
    <2> QED
        BY <2>1, <2>2, AnnouncedFrame
<1>4. CASE Commit
    <2>1. /\ UNCHANGED <<fired, pc, job, batch>> /\ build = "read" /\ build' = "done"
          /\ \A F \in Names : index'[F] = IF batch[F] = None THEN index[F] ELSE batch[F]
        BY <1>4 DEF Commit, worker
    <2> QED
        BY <2>1 DEF AnnouncedInv, AnnouncedFirst, AnnouncedOrBuilt, PushJob
<1>5. CASE Crash
    <2>1. /\ \A F \in Names : index'[F] = None
          /\ \A w \in Workers : pc'[w] = "range"
        BY <1>5 DEF Crash, EmptyIndex
    <2> QED
        BY <2>1 DEF AnnouncedInv, AnnouncedFirst, AnnouncedOrBuilt
<1>6. CASE UNCHANGED serverVars
    BY <1>6, AnnouncedFrame DEF serverVars, agreementVars, vars, worker, building
<1> QED
    BY <1>1, <1>2, <1>3, <1>4, <1>5, <1>6, WorkerAnnounced, ServerSteps

\* Whatever a search finds, the process that answers it has started the push
\* hooks for it or has committed it with its Build, over crashes and restarts:
\* handleNotifications calls triggerHooks before IndexImage.
THEOREM FoundIsAnnouncedOrBuilt == ServerSpec => []AnnouncedOrBuilt
<1>1. ServerInit => AnnouncedInv
    BY DEF ServerInit, AgreementInit, Init, AnnouncedInv, AnnouncedFirst, AnnouncedOrBuilt
<1>2. ServerInv /\ AnnouncedInv /\ [ServerNext]_serverVars => AnnouncedInv'
    BY NextAnnounced DEF ServerInv
<1>3. AnnouncedInv => AnnouncedOrBuilt
    BY DEF AnnouncedInv
<1> QED
    BY <1>1, <1>2, <1>3, ServerInvHolds, PTL DEF ServerSpec
==============================================================================
