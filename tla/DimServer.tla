------------------------------- MODULE DimServer -------------------------------
(****************************************************************************)
(* The life of a dim server (runServer of cmd/server.go): each start opens  *)
(* an index in a new directory and builds it from the registry, while       *)
(* notifications are already accepted and applied to the same index.  A     *)
(* crash, or an interrupt, loses the channel, the workers and the index.    *)
(*                                                                          *)
(* The build is the one of BuildIndex seen from the index: the catalog is   *)
(* read, then the tags of each repository, then the image of each tag, and  *)
(* everything is committed at once.  Notifications are those of DimIndex,   *)
(* and suspect is the history variable of IndexAgreement.                   *)
(****************************************************************************)
EXTENDS IndexAgreement

CONSTANTS
    ByDigest,       \* the empty tag, of a manifest pushed by its digest
    MaxCrashes      \* bound on the crashes

ASSUME CrashesAssumption == MaxCrashes \in Nat

VARIABLES
    up,         \* is the process running?
    build,      \* Build: "none", "catalog", "read", "done", "failed" or "stuck"
    unlisted,   \* repositories of the catalog whose tags are still to be listed
    toRead,     \* names listed whose image is still to be read
    batch,      \* the digest the batch holds for each name
    crashes

building == <<build, unlisted, toRead, batch>>
serverVars == <<agreementVars, up, building, crashes>>

ServerTypeOK ==
    /\ TypeOK
    /\ suspect \subseteq Names
    /\ up \in BOOLEAN
    /\ build \in {"none", "catalog", "read", "done", "failed", "stuck"}
    /\ (build = "none") = ~up
    /\ unlisted \subseteq Repos
    /\ toRead \subseteq Names
    /\ batch \in [Names -> Digests \cup {None}]
    /\ crashes \in 0 .. MaxCrashes

EmptyIndex == [F \in Names |-> None]

ServerInit ==
    /\ AgreementInit
    /\ up = FALSE
    /\ build = "none"
    /\ unlisted = {} /\ toRead = {} /\ batch = EmptyIndex
    /\ crashes = 0

------------------------------------------------------------------------------
(* Start and crash.                                                         *)

\* Mutant: the server starts and does not build.
StartWithoutBuild ==
    /\ ~up
    /\ up' = TRUE
    /\ UNCHANGED <<agreementVars, building, crashes>>

Start ==
    /\ ~up
    /\ up' = TRUE
    /\ build' = "catalog"
    /\ UNCHANGED <<agreementVars, unlisted, toRead, batch, crashes>>

\* After a crash only the events of the outbox are left of what was in flight:
\* a name they do not touch will be read from the registry.
TouchedByOutbox(F) ==
    \E i \in DOMAIN outbox :
        \/ outbox[i].action = "push" /\ outbox[i].target = F
        \/ outbox[i].action = "delete" /\ outbox[i].digest = tags[F]

\* The registry's request fails, and it will send the events again.
Crash ==
    /\ up
    /\ crashes < MaxCrashes
    /\ crashes' = crashes + 1
    /\ up' = FALSE
    /\ requests' = [h \in Requests |-> <<>>]
    /\ awaiting' = None
    /\ notifications' = <<>>
    /\ pc' = [w \in Workers |-> "range"]
    /\ job' = [w \in Workers |-> None]
    /\ hits' = [w \in Workers |-> {}]
    /\ index' = EmptyIndex
    /\ build' = "none"
    /\ unlisted' = {} /\ toRead' = {} /\ batch' = EmptyIndex
    /\ suspect' = {F \in suspect : TouchedByOutbox(F)}
    /\ fired' = {}   \* what the next process announces it announces anew
    /\ UNCHANGED <<registry, outbox, envelope, retries>>

------------------------------------------------------------------------------
(* Build.                                                                   *)

\* AllTags lists no manifest that has no tag.
Tagged(r) == {F \in Names : F[1] = r /\ F[2] # ByDigest /\ tags[F] # None}

ReadCatalog ==
    /\ build = "catalog"
    /\ unlisted' = {r \in Repos : Tagged(r) # {}}
    /\ build' = "read"
    /\ UNCHANGED <<agreementVars, up, toRead, batch, crashes>>

\* Mutant: the repository is listed again and again.
ListTagsAgain(r) ==
    /\ r \in unlisted
    /\ toRead' = toRead \cup Tagged(r)
    /\ UNCHANGED <<agreementVars, up, build, unlisted, batch, crashes>>

ListTags(r) ==
    /\ r \in unlisted
    /\ unlisted' = unlisted \ {r}
    /\ toRead' = toRead \cup Tagged(r)
    /\ UNCHANGED <<agreementVars, up, build, batch, crashes>>

\* AllTags fails: the walk of the repository ends at once.
ListFails(r) ==
    /\ RegistryMayFail
    /\ r \in unlisted
    /\ unlisted' = unlisted \ {r}
    /\ suspect' = suspect \cup {F \in Names : F[1] = r}
    /\ UNCHANGED <<vars, up, build, toRead, batch, crashes>>

\* The image the tag points to by now.
ReadImage(F) ==
    /\ build = "read"
    /\ F \in toRead
    /\ tags[F] # None
    /\ toRead' = toRead \ {F}
    /\ batch' = [batch EXCEPT ![F] = tags[F]]
    /\ UNCHANGED <<agreementVars, up, build, unlisted, crashes>>

\* A worker of the walk returns without wg.Done, and Build waits for ever.
ReadFails(F) ==
    /\ build = "read"
    /\ F \in toRead
    /\ RegistryMayFail \/ tags[F] = None
    /\ build' = "stuck"
    /\ UNCHANGED <<agreementVars, up, unlisted, toRead, batch, crashes>>

\* Mutant: the batch replaces the index where it should add to it.
CommitReplaces ==
    /\ build = "read"
    /\ unlisted = {} /\ toRead = {}
    /\ index' = batch
    /\ build' = "done"
    /\ UNCHANGED <<registry, delivery, requests, notifications, worker, fired,
                   suspect, up, unlisted, toRead, batch, crashes>>

Commit ==
    /\ build = "read"
    /\ unlisted = {} /\ toRead = {}
    /\ index' = [F \in Names |-> IF batch[F] = None THEN index[F] ELSE batch[F]]
    /\ build' = "done"
    /\ UNCHANGED <<registry, delivery, requests, notifications, worker, fired,
                   suspect, up, unlisted, toRead, batch, crashes>>

\* The error is logged.
CommitFails ==
    /\ IndexMayFail
    /\ build = "read"
    /\ unlisted = {} /\ toRead = {}
    /\ build' = "failed"
    /\ UNCHANGED <<agreementVars, up, unlisted, toRead, batch, crashes>>

BuildStep ==
    \/ ReadCatalog \/ Commit
    \/ \E r \in Repos : ListTags(r)
    \/ \E F \in Names : ReadImage(F) \/ (tags[F] = None /\ ReadFails(F))

------------------------------------------------------------------------------
(* Notifications during and after the build.                                *)

Outside == <<up, building, crashes>>

\* The batch will overwrite F with an image that is not d.
BatchOverwrites(F, d) == build = "read" /\ batch[F] \notin {None, d}

\* Names of other repositories the delete job will remove, or that the batch
\* will bring back.
BuildOverlaps(r, d) ==
    {F \in Names : \/ build = "read" /\ batch[F] = d
                   \/ tags[F] = d /\ F \notin Untagged(r, d)}

\* Events that NotifyImageChange ignores make no difference here.
ServerRegistryStep ==
    /\ \/ \E F \in Names, d \in Digests :
             /\ RegistryPush(F, d)
             /\ suspect' = IF PushOverlaps(F, d) \/ BatchOverwrites(F, d)
                           THEN suspect \cup {F} ELSE suspect \ {F}
       \/ \E r \in Repos, d \in Digests :
             /\ RegistryDelete(r, d)
             /\ suspect' = suspect \cup DeleteOverlaps(r, d) \cup BuildOverlaps(r, d)
    /\ UNCHANGED Outside

ServerNext ==
    \/ ServerRegistryStep
    \/ up /\ DeliveryStep /\ UNCHANGED Outside
    \/ \E w \in Workers : up /\ (JobStep(w) \/ SkipStep(w)) /\ UNCHANGED Outside
    \/ Start \/ Crash
    \/ BuildStep \/ CommitFails
    \/ \E r \in Repos : ListFails(r)
    \/ \E F \in Names : ReadFails(F)

ServerSpec == ServerInit /\ [][ServerNext]_serverVars

\* A server that is down is started again.
ServerFairSpec ==
    /\ ServerSpec
    /\ WF_serverVars(Start)
    /\ WF_serverVars(BuildStep)
    /\ WF_serverVars(up /\ SinkStep /\ UNCHANGED <<suspect, Outside>>)
    /\ \A h \in Requests :
          WF_serverVars(up /\ HandlerStep(h) /\ UNCHANGED <<suspect, Outside>>)
    /\ \A w \in Workers : WF_serverVars(up /\ JobStep(w) /\ UNCHANGED Outside)

------------------------------------------------------------------------------
(* Properties                                                               *)

Built == up /\ build = "done"

\* A built and silent server has the registry's image under every name that is
\* not suspect, also after a crash that lost acknowledged jobs: what the build
\* reads and what runServer already accepts from NotifyImageChange together
\* leave no gap, and a restart heals what earlier jobs spoiled.  Only a manifest
\* without a tag can be missing: no build lists it.
ServerAgreement ==
    Built /\ Quiescent => \A F \in Names \ suspect :
        index[F] = tags[F] \/ (F[2] = ByDigest /\ index[F] = None)

\* Whatever a search finds, this process has started the push hooks for it, or
\* its Build has committed it: Build starts no hook, and handleNotifications
\* calls triggerHooks before IndexImage.
AnnouncedOrBuilt ==
    PushHooks => \A F \in Names : index[F] # None =>
        \/ PushJob(F, index[F]) \in fired
        \/ build = "done" /\ index[F] = batch[F]

\* However it crashes, the server gets through all notifications and its Build
\* comes to an end of some kind.
ServerQuiescent ==
    []<>(Quiescent /\ up /\ build \in {"done", "failed", "stuck"})

------------------------------------------------------------------------------
(* What documentation says, and the code does not do.                       *)

\* "In this mode, dim indexes your private registry": an image read by Build
\* before it is overwritten or deleted is committed after the notification of
\* the change was applied.
BuiltIsRegistry == Built /\ Quiescent => index = tags
==============================================================================
