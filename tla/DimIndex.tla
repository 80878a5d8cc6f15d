------------------------------- MODULE DimIndex -------------------------------
(****************************************************************************)
(* How dim's index follows a docker registry (lib/index/index.go and        *)
(* server/server.go).  The registry tells dim about every change with an    *)
(* HTTP notification; NotifyImageChange turns the events of a notification  *)
(* into jobs and submits them to a bounded channel; a fixed set of          *)
(* goroutines, the workers, takes jobs from the channel and applies each of *)
(* them in several steps: a push is fetched from the registry and then      *)
(* indexed, a delete first looks for the documents that carry the digest    *)
(* and then removes them one by one, by name.                               *)
(****************************************************************************)
EXTENDS Integers, Sequences, FiniteSets

CONSTANTS
    Repos, Tags,            \* a full name is a repository and a tag; a manifest
                            \* pushed by its digest has the empty tag, one more
    Digests,                \* manifest digests
    Workers,                \* goroutines running handleNotifications; 3 in New
    Requests,               \* NotifyImageChange handlers that can run at once
    QueueCap,               \* capacity of the notifications channel; 3 in New
    PageSize,               \* hits a bleve.NewSearchRequest returns; 10
    MaxEnvelope,            \* most events the registry puts in one notification
    PushHooks, DeleteHooks, \* is a hook configured for the action?
    RegistryMayFail,        \* can a read of the registry fail for no reason?
    IndexMayFail,           \* can a search, a write or a removal of the index fail?
    MaxEvents, MaxRetries,  \* bounds on the registry's events and retries
    None                    \* no image, no name, no job, no request

Names == Repos \X Tags

ASSUME SizesAssumption ==
    /\ QueueCap \in Nat \ {0} /\ PageSize \in Nat \ {0} /\ MaxEnvelope \in Nat \ {0}
    /\ MaxEvents \in Nat /\ MaxRetries \in Nat
    /\ {PushHooks, DeleteHooks, RegistryMayFail, IndexMayFail} \subseteq BOOLEAN

ASSUME NoneAssumption ==
    None \notin Names \cup Tags \cup Digests \cup Requests

Events == [action : {"push"}, target : Names, digest : Digests]
          \cup [action : {"delete", "other"}, target : Repos \X {None}, digest : Digests]
Jobs == [action : {"push"}, name : Names, digest : Digests]
        \cup [action : {"delete"}, name : {None}, digest : Digests]

VARIABLES
    tags,           \* the registry: the manifest each name points to
    manifests,      \* the registry: the manifests each repository stores
    outbox,         \* the registry's events not acknowledged yet, oldest first
    envelope,       \* number of events in the notification being delivered
    awaiting,       \* the request whose answer the registry waits for
    requests,       \* events each running handler has still to process
    notifications,  \* the channel of jobs
    pc, job, hits,  \* each worker's next step, its job, its documents to delete
    index,          \* the digest indexed under each name
    fired,          \* the hooks triggered
    pushed, deleted,\* what the registry ever accepted or deleted (history)
    published,      \* events the registry has published
    retries         \* notifications it has sent again

registry == <<tags, manifests, pushed, deleted, published>>
delivery == <<outbox, envelope, awaiting, retries>>
worker == <<pc, job, hits>>
vars == <<registry, delivery, requests, notifications, worker, index, fired>>

TypeOK ==
    /\ tags \in [Names -> Digests \cup {None}]
    /\ manifests \subseteq Repos \X Digests
    /\ outbox \in Seq(Events)
    /\ envelope \in Nat
    /\ awaiting \in Requests \cup {None}
    /\ requests \in [Requests -> Seq(Events)]
    /\ notifications \in Seq(Jobs) /\ Len(notifications) <= QueueCap
    /\ pc \in [Workers -> {"range", "GetImage", "IndexImage", "FindImage",
                           "Search", "Delete"}]
    /\ job \in [Workers -> Jobs \cup {None}]
    /\ hits \in [Workers -> SUBSET Names]
    /\ index \in [Names -> Digests \cup {None}]
    /\ fired \subseteq [action : {"push", "delete"}, name : Names, digest : Digests]
    /\ pushed \subseteq Names \X Digests
    /\ deleted \subseteq Digests
    /\ published \in Nat
    /\ retries \in Nat

Init ==
    /\ tags = [F \in Names |-> None]
    /\ manifests = {}
    /\ outbox = <<>>
    /\ envelope = 0
    /\ awaiting = None
    /\ requests = [h \in Requests |-> <<>>]
    /\ notifications = <<>>
    /\ pc = [w \in Workers |-> "range"]
    /\ job = [w \in Workers |-> None]
    /\ hits = [w \in Workers |-> {}]
    /\ index = [F \in Names |-> None]
    /\ fired = {}
    /\ pushed = {}
    /\ deleted = {}
    /\ published = 0
    /\ retries = 0

------------------------------------------------------------------------------
(* The registry: clients push and delete images, each change is an event.   *)

Publish(action, target, d) ==
    /\ published < MaxEvents
    /\ published' = published + 1
    /\ outbox' = Append(outbox, [action |-> action, target |-> target, digest |-> d])
    /\ UNCHANGED <<envelope, awaiting, retries, requests, notifications, worker,
                   index, fired>>

RegistryPush(F, d) ==
    /\ Publish("push", F, d)
    /\ tags' = [tags EXCEPT ![F] = d]
    /\ manifests' = manifests \cup {<<F[1], d>>}
    /\ pushed' = pushed \cup {<<F, d>>}
    /\ UNCHANGED deleted

\* A manifest is deleted with every tag of its repository that points to it;
\* the event names the repository and the digest, and no tag.
Untagged(r, d) == {F \in Names : F[1] = r /\ tags[F] = d}

RegistryDelete(r, d) ==
    /\ <<r, d>> \in manifests
    /\ Publish("delete", <<r, None>>, d)
    /\ tags' = [F \in Names |-> IF F \in Untagged(r, d) THEN None ELSE tags[F]]
    /\ manifests' = manifests \ {<<r, d>>}
    /\ deleted' = deleted \cup {d}
    /\ UNCHANGED pushed

\* A pull, a layer push or a mount.
RegistryActivity(r, d) ==
    /\ Publish("other", <<r, None>>, d)
    /\ UNCHANGED <<tags, manifests, pushed, deleted>>

\* The registry's notification sink sends the oldest events and waits.
Post(h) ==
    /\ awaiting = None
    /\ requests[h] = <<>>
    /\ \E n \in 1..Len(outbox) :
          /\ IF envelope = 0 THEN n <= MaxEnvelope ELSE n = envelope
          /\ envelope' = n
          /\ requests' = [requests EXCEPT ![h] = SubSeq(outbox, 1, n)]
    /\ awaiting' = h
    /\ UNCHANGED <<registry, outbox, retries, notifications, worker, index, fired>>

\* The answer is flushed when the handler returns, after its last event.
Acknowledge ==
    /\ awaiting # None
    /\ requests[awaiting] = <<>>
    /\ outbox' = SubSeq(outbox, envelope + 1, Len(outbox))
    /\ envelope' = 0
    /\ awaiting' = None
    /\ UNCHANGED <<registry, retries, requests, notifications, worker, index, fired>>

\* The sink gives up waiting and will send the same events again; the handler
\* it gave up on runs on.
Timeout ==
    /\ awaiting # None
    /\ retries < MaxRetries
    /\ retries' = retries + 1
    /\ awaiting' = None
    /\ UNCHANGED <<registry, outbox, envelope, requests, notifications, worker,
                   index, fired>>

------------------------------------------------------------------------------
(* NotifyImageChange: one event of the notification at a time.              *)

\* The job of a delete carries the digest alone.
JobOf(e) == [action |-> e.action,
             name |-> IF e.action = "push" THEN e.target ELSE None,
             digest |-> e.digest]

\* Mutant: one job too many in the channel.
RoomForOneMore == Len(notifications) <= QueueCap

Room == Len(notifications) < QueueCap

\* Mutant: a job that finds the channel full is dropped, not blocked.
SubmitOrDrop(h) ==
    /\ requests[h] # <<>>
    /\ Head(requests[h]).action \in {"push", "delete"}
    /\ notifications' = IF Room
                        THEN Append(notifications, JobOf(Head(requests[h])))
                        ELSE notifications
    /\ requests' = [requests EXCEPT ![h] = Tail(@)]
    /\ UNCHANGED <<registry, delivery, worker, index, fired>>

Submit(h) ==
    /\ requests[h] # <<>>
    /\ Head(requests[h]).action \in {"push", "delete"}
    /\ Room
    /\ notifications' = Append(notifications, JobOf(Head(requests[h])))
    /\ requests' = [requests EXCEPT ![h] = Tail(@)]
    /\ UNCHANGED <<registry, delivery, worker, index, fired>>

\* Mutant: the handler returns at the first event it has no use for.
IgnoreRest(h) ==
    /\ requests[h] # <<>>
    /\ Head(requests[h]).action = "other"
    /\ requests' = [requests EXCEPT ![h] = <<>>]
    /\ UNCHANGED <<registry, delivery, notifications, worker, index, fired>>

Ignore(h) ==
    /\ requests[h] # <<>>
    /\ Head(requests[h]).action = "other"
    /\ requests' = [requests EXCEPT ![h] = Tail(@)]
    /\ UNCHANGED <<registry, delivery, notifications, worker, index, fired>>

------------------------------------------------------------------------------
(* handleNotifications: the loop of one worker.                             *)

Goto(w, step) == pc' = [pc EXCEPT ![w] = step]

\* Back to the range over the channel, with nothing kept of the job.
Finish(w) ==
    /\ Goto(w, "range")
    /\ job' = [job EXCEPT ![w] = None]
    /\ hits' = [hits EXCEPT ![w] = {}]

Receive(w) ==
    /\ pc[w] = "range"
    /\ notifications # <<>>
    /\ notifications' = Tail(notifications)
    /\ job' = [job EXCEPT ![w] = Head(notifications)]
    /\ Goto(w, IF Head(notifications).action = "push" THEN "GetImage"
               ELSE IF DeleteHooks THEN "FindImage" ELSE "Search")
    /\ UNCHANGED <<registry, delivery, requests, hits, index, fired>>

\* The manifest is read by its digest, whatever the tag points to by now.
Stored(j) == <<j.name[1], j.digest>> \in manifests

\* Mutant: no hooks for an image that is not under its tag any more.
GetImageOfTag(w) ==
    /\ pc[w] = "GetImage"
    /\ Stored(job[w])
    /\ fired' = IF PushHooks /\ tags[job[w].name] = job[w].digest
                THEN fired \cup {job[w]} ELSE fired
    /\ Goto(w, "IndexImage")
    /\ UNCHANGED <<registry, delivery, requests, notifications, job, hits, index>>

GetImage(w) ==
    /\ pc[w] = "GetImage"
    /\ Stored(job[w])
    /\ fired' = IF PushHooks THEN fired \cup {job[w]} ELSE fired
    /\ Goto(w, "IndexImage")
    /\ UNCHANGED <<registry, delivery, requests, notifications, job, hits, index>>

\* The error is logged and the job is dropped.
GetImageFails(w) ==
    /\ pc[w] = "GetImage"
    /\ RegistryMayFail \/ ~Stored(job[w])
    /\ Finish(w)
    /\ UNCHANGED <<registry, delivery, requests, notifications, index, fired>>

IndexImage(w) ==
    /\ pc[w] = "IndexImage"
    /\ index' = [index EXCEPT ![job[w].name] = job[w].digest]
    /\ Finish(w)
    /\ UNCHANGED <<registry, delivery, requests, notifications, fired>>

\* The error of the write is ignored: nothing is logged and nothing is indexed.
IndexFails(w) ==
    /\ pc[w] = "IndexImage"
    /\ IndexMayFail
    /\ Finish(w)
    /\ UNCHANGED <<registry, delivery, requests, notifications, index, fired>>

\* Mutant: the ID field is analysed, and its tokens match every document.
MatchesAnalysed(d) == {F \in Names : index[F] # None}

Matches(d) == {F \in Names : index[F] = d}

\* Mutant: a job with no single document to run the hooks on is dropped.
FindImageOrDrop(w) ==
    /\ pc[w] = "FindImage"
    /\ IF Cardinality(Matches(job[w].digest)) = 1
       THEN Goto(w, "Search") /\ UNCHANGED <<job, hits>>
       ELSE Finish(w)
    /\ UNCHANGED <<registry, delivery, requests, notifications, index, fired>>

\* Mutant: a total of one already counts as many.
FindImageNone(w) ==
    /\ pc[w] = "FindImage"
    /\ Goto(w, "Search")
    /\ UNCHANGED <<registry, delivery, requests, notifications, job, hits, index, fired>>

\* The delete hooks run only when exactly one document carries the digest.
FindImage(w) ==
    /\ pc[w] = "FindImage"
    /\ fired' = IF Cardinality(Matches(job[w].digest)) = 1
                THEN fired \cup {[job[w] EXCEPT !.name = F] :
                                    F \in Matches(job[w].digest)}
                ELSE fired
    /\ Goto(w, "Search")
    /\ UNCHANGED <<registry, delivery, requests, notifications, job, hits, index>>

\* The search fails: the error is logged, no hook is started for a document that
\* carries the digest, and the document is deleted all the same.
FindFails(w) ==
    /\ pc[w] = "FindImage"
    /\ IndexMayFail
    /\ Goto(w, "Search")
    /\ UNCHANGED <<registry, delivery, requests, notifications, job, hits, index, fired>>

\* One page of the documents that carry the digest.
Page(d) == {page \in SUBSET Matches(d) :
               /\ Cardinality(page) <= PageSize
               /\ page = Matches(d) \/ Cardinality(page) = PageSize}

\* When this search fails DeleteImage reads the result it did not get, and the
\* process ends: that is a crash of DimServer.
Search(w) ==
    /\ pc[w] = "Search"
    /\ IF Matches(job[w].digest) = {}
       THEN Finish(w)
       ELSE /\ \E page \in Page(job[w].digest) : hits' = [hits EXCEPT ![w] = page]
            /\ Goto(w, "Delete")
            /\ UNCHANGED job
    /\ UNCHANGED <<registry, delivery, requests, notifications, index, fired>>

\* Mutant: only the first hit is deleted.
DeleteFirstHit(w, F) ==
    /\ pc[w] = "Delete"
    /\ F \in hits[w]
    /\ index' = [index EXCEPT ![F] = None]
    /\ Finish(w)
    /\ UNCHANGED <<registry, delivery, requests, notifications, fired>>

\* Deletes by name: the document may not be the one Search found any more.
Delete(w, F) ==
    /\ pc[w] = "Delete"
    /\ F \in hits[w]
    /\ index' = [index EXCEPT ![F] = None]
    /\ IF hits[w] = {F}
       THEN Finish(w)
       ELSE hits' = [hits EXCEPT ![w] = @ \ {F}] /\ UNCHANGED <<pc, job>>
    /\ UNCHANGED <<registry, delivery, requests, notifications, fired>>

\* The error of a removal is ignored and the loop goes on to the next document.
DeleteFails(w, F) ==
    /\ pc[w] = "Delete"
    /\ IndexMayFail
    /\ F \in hits[w]
    /\ IF hits[w] = {F}
       THEN Finish(w)
       ELSE hits' = [hits EXCEPT ![w] = @ \ {F}] /\ UNCHANGED <<pc, job>>
    /\ UNCHANGED <<registry, delivery, requests, notifications, index, fired>>

------------------------------------------------------------------------------
WorkerStep(w) ==
    \/ Receive(w) \/ GetImage(w) \/ GetImageFails(w) \/ IndexImage(w) \/ IndexFails(w)
    \/ FindImage(w) \/ FindFails(w) \/ Search(w)
    \/ \E F \in Names : Delete(w, F) \/ DeleteFails(w, F)

HandlerStep(h) == Submit(h) \/ Ignore(h)

RegistryStep ==
    \/ \E F \in Names, d \in Digests : RegistryPush(F, d)
    \/ \E r \in Repos, d \in Digests : RegistryDelete(r, d) \/ RegistryActivity(r, d)

SinkStep == (\E h \in Requests : Post(h)) \/ Acknowledge

\* Nothing is left to deliver or to apply.
Quiescent ==
    /\ outbox = <<>>
    /\ \A h \in Requests : requests[h] = <<>>
    /\ notifications = <<>>
    /\ \A w \in Workers : pc[w] = "range"

Next ==
    \/ RegistryStep \/ SinkStep \/ Timeout
    \/ \E h \in Requests : HandlerStep(h)
    \/ \E w \in Workers : WorkerStep(w)

Spec == Init /\ [][Next]_vars

\* Every goroutine that can run does, and the sink keeps sending.
Fairness ==
    /\ WF_vars(SinkStep)
    /\ \A h \in Requests : WF_vars(HandlerStep(h))
    /\ \A w \in Workers : WF_vars(WorkerStep(w))

FairSpec == Spec /\ Fairness

------------------------------------------------------------------------------
(* Properties                                                               *)

\* However notifications are repeated, delayed and reordered, the index is a
\* catalogue of the registry's past: handleNotifications adds to it nothing but
\* pushed images, and DeleteImage, which removes documents by name after
\* searching them by digest, takes away no name that never held a deleted image.
Promise == INSTANCE Catalogue
ImplementsCatalogue == Promise!Spec

\* Submit may block a handler on a full channel and the registry may send its
\* notification again meanwhile: all the same every event is acknowledged and
\* every job applied in the end, also when jobs fail.
EventuallyQuiescent == []<>Quiescent

------------------------------------------------------------------------------
(* What comments and documentation say, and the code does not do.           *)

\* Applying the jobs of a silent registry makes the index equal to it: a push
\* job "should add or update an image in the index", a delete job "should delete
\* an image from the index".  handleNotifications runs in three goroutines, and
\* the older of two jobs can be applied last.
IndexIsRegistry == Quiescent => index = tags
==============================================================================
