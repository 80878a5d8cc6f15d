---------------------------- MODULE IndexAgreement ----------------------------
(****************************************************************************)
(* When does the index agree with the registry?  The notifications channel  *)
(* has several consumers, so two jobs that touch one name can be applied in *)
(* either order, and then the index may stay wrong for ever.  This module   *)
(* adds to DimIndex one history variable, the names something of that kind  *)
(* has happened to, and states that every other name agrees with the        *)
(* registry as soon as nothing is in flight.                                *)
(****************************************************************************)
EXTENDS DimIndex

VARIABLE suspect    \* names whose jobs overlapped, failed or were cut short

agreementVars == <<vars, suspect>>

------------------------------------------------------------------------------
(* What is in flight: events with the sink or a handler, jobs in the        *)
(* channel or with a worker that has not applied them.                      *)

PushJob(F, d) == [action |-> "push", name |-> F, digest |-> d]
DeleteJob(d) == [action |-> "delete", name |-> None, digest |-> d]

\* Some event of the sequence becomes the job j.
Reported(j, s) == \E i \in DOMAIN s : s[i].action # "other" /\ JobOf(s[i]) = j

\* A copy of j has left the outbox and is not applied yet.
Delivering(j) ==
    \/ \E h \in Requests : Reported(j, requests[h])
    \/ \E i \in DOMAIN notifications : notifications[i] = j
    \/ \E w \in Workers : pc[w] \notin {"range", "Delete"} /\ job[w] = j

InFlight(j) == Delivering(j) \/ Reported(j, outbox)

PushPending(F, d) == InFlight(PushJob(F, d))
DeletePending(d) == InFlight(DeleteJob(d))

\* A worker is about to remove whatever document has this name, or will find it.
Hit(F) == \E w \in Workers : F \in hits[w]
Doomed(F) == Hit(F) \/ (index[F] # None /\ DeletePending(index[F]))

------------------------------------------------------------------------------
(* The steps that make a name suspect.                                      *)

\* A push of F that meets a job still to be applied to F or to the same image.
PushOverlaps(F, d) ==
    Doomed(F) \/ DeletePending(d) \/ \E x \in Digests : PushPending(F, x)

\* A delete that meets a push of the same image still to be applied, or that
\* will also remove names of that image the registry keeps: jobs carry no
\* repository, and an overwritten tag may still be indexed.
DeleteOverlaps(r, d) ==
    {F \in Names : \/ PushPending(F, d)
                   \/ index[F] = d /\ tags[F] # None /\ F \notin Untagged(r, d)}

AgreementInit == Init /\ suspect = {}

\* A step of a worker, and the names whose job failed or was cut short.
JobStep(w) ==
    \* the image was never indexed
    \/ /\ GetImageFails(w) \/ IndexFails(w)
       /\ suspect' = suspect \cup {job[w].name}
    \* the documents after the first page are not removed
    \/ Search(w) /\ suspect' = suspect \cup (Matches(job[w].digest) \ hits'[w])
    \* the document is still there
    \/ \E F \in Names : DeleteFails(w, F) /\ suspect' = suspect \cup {F}
    \/ /\ \/ Receive(w) \/ GetImage(w) \/ IndexImage(w) \/ FindImage(w)
          \/ \E F \in Names : Delete(w, F)
       /\ UNCHANGED suspect

\* A worker goes on without the delete hooks: the index is as it would be.
SkipStep(w) == FindFails(w) /\ UNCHANGED suspect

DeliveryStep ==
    /\ SinkStep \/ Timeout \/ \E h \in Requests : HandlerStep(h)
    /\ UNCHANGED suspect

AgreementNext ==
    \/ \E F \in Names, d \in Digests :
          /\ RegistryPush(F, d)
          /\ suspect' = IF PushOverlaps(F, d) THEN suspect \cup {F}
                                              ELSE suspect \ {F}
    \/ \E r \in Repos, d \in Digests :
          /\ RegistryDelete(r, d)
          /\ suspect' = suspect \cup DeleteOverlaps(r, d)
    \/ \E r \in Repos, d \in Digests : RegistryActivity(r, d) /\ UNCHANGED suspect
    \/ \E w \in Workers : JobStep(w) \/ SkipStep(w)
    \/ DeliveryStep

AgreementSpec == AgreementInit /\ [][AgreementNext]_agreementVars
AgreementFairSpec == AgreementSpec /\ Fairness

------------------------------------------------------------------------------
(* Properties                                                               *)

\* Once every notification is applied, each name that was left alone while a
\* job of its own was in flight is indexed with the image the registry has
\* under it, or not indexed if the registry has none.
Agreement ==
    Quiescent => \A F \in Names \ suspect : index[F] = tags[F]

(* The inductive invariant behind Agreement.                                *)

\* While a push of F is on its way it is the last word on F.
PushIsCurrent(F) ==
    \A d \in Digests : PushPending(F, d) =>
        tags[F] = d /\ ~Doomed(F) /\ ~DeletePending(d)

\* While the document of F waits to be removed the registry has nothing there.
DoomedIsGone(F) ==
    Doomed(F) => tags[F] = None /\ \A d \in Digests : ~PushPending(F, d)

\* Otherwise the index is right.
RestAgrees(F) ==
    ~Doomed(F) /\ (\A d \in Digests : ~PushPending(F, d)) => index[F] = tags[F]

\* The job of event e is applied to F, or on its way.
Handled(F, e) ==
    /\ e.action = "push" /\ e.target = F =>
          index[F] = e.digest \/ Delivering(JobOf(e))
    /\ e.action = "delete" /\ index[F] = e.digest =>
          Hit(F) \/ Delivering(JobOf(e))

\* So it is for every event the awaited handler is done with, although the
\* registry still keeps them in its outbox.
HandedIsApplied(F) ==
    awaiting # None =>
        \A i \in 1 .. envelope - Len(requests[awaiting]) : Handled(F, outbox[i])

Settled ==
    \A F \in Names \ suspect :
        PushIsCurrent(F) /\ DoomedIsGone(F) /\ RestAgrees(F) /\ HandedIsApplied(F)

\* What Settled rests on: a worker keeps documents to delete only while it
\* deletes them, and what the awaited handler has still to process is the end of
\* the notification the registry waits for.
Bookkeeping ==
    /\ \A w \in Workers : pc[w] # "Delete" => hits[w] = {}
    /\ envelope <= Len(outbox)
    /\ awaiting # None =>
          LET rest == requests[awaiting] IN
          /\ Len(rest) <= envelope
          /\ \A i \in 1 .. Len(rest) : rest[i] = outbox[envelope - Len(rest) + i]
==============================================================================
