------------------------- MODULE ImageCommands_proofs -------------------------
(****************************************************************************)
(* The types and the safety properties of ImageCommands, for all sets of    *)
(* names and any number of commands and of steps of other clients.          *)
(****************************************************************************)
EXTENDS ImageCommands, DataLemmas

------------------------------------------------------------------------------
(* Stages and containers                                                    *)

LabelStages == {"pull", "inspect", "label", "create", "commit", "clean", "remove",
                "push"}
DeleteStages == {"delete", "unregister"}
ReadStages == {"read", "fetch"}

\* A stage belongs to a command of its kind, and a delete names images by name.
Staged ==
    /\ stage \in LabelStages \cup DeleteStages \cup ReadStages \cup {"idle", "stuck", "end"}
    /\ stage \in LabelStages => cmd.kind = "label"
    /\ stage \in DeleteStages => cmd.kind = "delete"
    /\ stage \in ReadStages => cmd.kind \in {"show", "hooktest"}
    /\ stage = "stuck" => cmd.kind = "label"
    /\ stage # "idle" /\ cmd.kind = "delete" => cmd.ref[2] \in Names
    /\ stage = "idle" => past = <<>>
    /\ past \in Seq(Names)
    /\ login # "connect" => stage \in {"pull", "push", "unregister", "fetch"}
    /\ DOMAIN remote = Names

\* The temporary container exists while it is needed, or something failed.
ContainerNeeded == container => stage \in {"commit", "clean"} \/ mishap

Inv == Staged /\ ContainerNeeded /\ DeletedIsGone

LEMMA InitInv == Init => Inv
  BY DEF Init, Inv, Staged, ContainerNeeded, DeletedIsGone, LabelStages,
     DeleteStages, ReadStages

\* A delete that passes no name by has deleted what it had.
LEMMA DeletedStays ==
    ASSUME DeletedIsGone, stage # "idle", UNCHANGED <<cmd, past, remote, touched>>,
           stage' # "end" \/ outcome' # "success" \/ UNCHANGED <<stage, outcome>>
    PROVE  DeletedIsGone'
  BY DEF DeletedIsGone, Deleted

\* Nothing is claimed of the other commands.
LEMMA NothingDeleted ==
    ASSUME stage' = "idle" \/ cmd'.kind # "delete"
    PROVE  DeletedIsGone'
  BY DEF DeletedIsGone

LEMMA DeleteParts ==
    \A c \in DeleteCommands : c.kind = "delete" /\ c.ref[2] \in Names
  <1>1. \A r \in NameRefs : r[2] \in Names
    BY DEF NameRefs
  <1> QED
    BY <1>1 DEF DeleteCommands

\* A new command starts at a stage of its kind, with no container.
LEMMA StartInv == Inv /\ Start => Inv'
  <1> SUFFICES ASSUME Inv, Start  PROVE Inv'
    OBVIOUS
  <1>1. /\ stage' = FirstStage(cmd')
        /\ stage = "idle"
        /\ UNCHANGED <<remote, container, mishap, login, past>>
    BY DEF Start, host, history
  <1>2. \/ cmd'.kind = "label"
        \/ cmd'.kind = "delete" /\ cmd'.ref[2] \in Names
        \/ cmd'.kind \in {"show", "hooktest"}
    <2>1. CASE cmd' \in LabelCommands(Stored)
      BY <2>1 DEF LabelCommands
    <2>2. CASE cmd' \in DeleteCommands
      BY <2>2, DeleteParts
    <2>3. CASE cmd' \in ReadCommands(Stored)
      BY <2>3 DEF ReadCommands
    <2> QED
      BY <2>1, <2>2, <2>3 DEF Start
  <1>3. \/ cmd'.kind = "delete" /\ stage' = "delete"
        \/ cmd'.kind = "label" /\ stage' \in {"pull", "inspect"}
        \/ cmd'.kind \in {"show", "hooktest"} /\ stage' \in {"read", "fetch"}
    BY <1>1, <1>2 DEF FirstStage
  <1>4. DeletedIsGone'
    <2>1. past' = <<>> /\ stage' # "end"
      BY <1>1, <1>3 DEF Inv, Staged
    <2> QED
      BY <2>1 DEF DeletedIsGone, Deleted
  <1>5. past' \in Seq(Names) /\ stage' # "idle" /\ DOMAIN remote' = Names
    BY <1>1, <1>3 DEF Inv, Staged
  <1> QED
    BY <1>1, <1>2, <1>3, <1>4, <1>5 DEF Inv, Staged, ContainerNeeded, LabelStages,
       DeleteStages, ReadStages

LEMMA ExitInv == Inv /\ Exit => Inv'
  <1> SUFFICES ASSUME Inv, Exit  PROVE Inv'
    OBVIOUS
  <1>1. DeletedIsGone'
    BY NothingDeleted DEF Exit
  <1> QED
    BY <1>1 DEF Inv, Staged, ContainerNeeded, Exit, LabelStages, DeleteStages, ReadStages

\* Logging in changes neither images nor containers: it stays at its stage, or
\* ends the command without success.
LEMMA LoginInv == Inv /\ LoginStep => Inv'
  <1> SUFFICES ASSUME Inv, LoginStep  PROVE Inv'
    OBVIOUS
  <1>1. UNCHANGED <<remote, container, mishap, cmd, past, touched>>
    BY DEF LoginStep, host
  <1>2. stage \in {"pull", "push", "unregister", "fetch"}
    BY DEF LoginStep, BadName, HubLogin, Connect, Prompt, Retry, Inv, Staged
  <1>3. \/ stage' = stage /\ outcome' = outcome
        \/ stage' = "end" /\ login' = "connect" /\ outcome' \in {"error", "panic"}
    <2>1. CASE BadName
      BY <2>1 DEF BadName, End
    <2>2. CASE HubLogin
      BY <2>2 DEF HubLogin, End
    <2>3. CASE Connect
      BY <2>3 DEF Connect, Answered, End
    <2>4. CASE Prompt
      BY <2>4 DEF Prompt
    <2>5. CASE Retry
      BY <2>5 DEF Retry, Answered, End
    <2> QED
      BY <2>1, <2>2, <2>3, <2>4, <2>5 DEF LoginStep
  <1>4. DeletedIsGone'
    BY <1>1, <1>2, <1>3, DeletedStays DEF Inv
  <1> QED
    BY <1>1, <1>2, <1>3, <1>4 DEF Inv, Staged, ContainerNeeded, LabelStages,
       DeleteStages, ReadStages

\* Each step of dim label but Clean and Commit leaves the container alone, creates
\* it, or exits; those two note that something failed.
LEMMA LabelInv == Inv /\ LabelStep => Inv'
  <1> SUFFICES ASSUME Inv, LabelStep  PROVE Inv'
    OBVIOUS
  <1>1. UNCHANGED <<remote, cmd, past, touched>>
    BY DEF LabelStep
  <1>2. /\ stage \in LabelStages
        /\ stage' \in LabelStages \cup {"stuck", "end"}
        /\ login' = "connect"
    <2>1. CASE Pull
      BY <2>1 DEF Pull, StreamBreaks, End, GoTo, LabelStages
    <2>2. CASE Inspect
      BY <2>2 DEF Inspect, End, GoTo, LabelStages
    <2>3. CASE ChangeLabels
      BY <2>3 DEF ChangeLabels, End, GoTo, LabelStages
    <2>4. CASE Create
      BY <2>4 DEF Create, End, GoTo, LabelStages
    <2>5. CASE Commit
      BY <2>5 DEF Commit, End, GoTo, LabelStages
    <2>6. CASE Clean
      BY <2>6 DEF Clean, AfterBuild, AfterRemove, End, GoTo, LabelStages
    <2>7. CASE Remove
      BY <2>7 DEF Remove, AfterRemove, End, GoTo, LabelStages
    <2> QED
      BY <2>1, <2>2, <2>3, <2>4, <2>5, <2>6, <2>7 DEF LabelStep
  <1>3. Staged' /\ DeletedIsGone'
    <2>1. cmd.kind = "label"
      BY <1>2 DEF Inv, Staged
    <2>2. DeletedIsGone'
      BY <1>1, <2>1, NothingDeleted
    <2> QED
      BY <1>1, <1>2, <2>1, <2>2 DEF Inv, Staged, LabelStages, DeleteStages, ReadStages
  <1>4. ContainerNeeded'
    <2>1. CASE Pull \/ Inspect \/ ChangeLabels \/ Remove
      BY <2>1 DEF Pull, Inspect, ChangeLabels, Remove, host, Inv, ContainerNeeded
    <2>2. CASE Create
      BY <2>2 DEF Create, End, GoTo, Inv, ContainerNeeded
    <2>3. CASE Commit
      BY <2>3 DEF Commit, End, GoTo, Inv, ContainerNeeded
    <2>4. CASE Clean
      BY <2>4 DEF Clean, Inv, ContainerNeeded
    <2> QED
      BY <2>1, <2>2, <2>3, <2>4 DEF LabelStep
  <1> QED
    BY <1>3, <1>4 DEF Inv

\* A push ends a label command, or never comes to an end.
LEMMA PushInv == Inv /\ Push => Inv'
  <1> SUFFICES ASSUME Inv, Push  PROVE Inv'
    OBVIOUS
  <1>1. /\ stage = "push" /\ stage' \in {"stuck", "end"} /\ login' = "connect"
        /\ UNCHANGED <<container, mishap, cmd, past>>
    BY DEF Push, StreamBreaks, GoTo, End, host
  <1>2. DOMAIN remote' = DOMAIN remote
    BY DEF Push
  <1>3. cmd.kind = "label"
    BY <1>1 DEF Inv, Staged, LabelStages
  <1>4. DeletedIsGone'
    BY <1>1, <1>3, NothingDeleted
  <1> QED
    BY <1>1, <1>2, <1>3, <1>4 DEF Inv, Staged, ContainerNeeded, LabelStages,
       DeleteStages, ReadStages

\* What comes after a name is deleted: the end of the command, or another name.
LEMMA NextNameMoves ==
    ASSUME NextName
    PROVE  /\ login' = "connect"
           /\ \/ /\ stage' = "end" /\ outcome' = "success"
                 /\ UNCHANGED <<cmd, past, credentials>>
              \/ /\ stage' = "delete" /\ outcome' = outcome
                 /\ past' = Append(past, cmd.ref[2])
                 /\ cmd' \in DeleteCommands /\ cmd'.remote = cmd.remote
                 /\ credentials' \in {"right", "wrong"}
                 /\ Len(past) < MaxPiped
  BY DEF NextName, End, GoTo

\* The names that have been passed by are still those of before, and the name that
\* was being deleted.
LEMMA NextNameInv ==
    ASSUME Inv, NextName, stage \in DeleteStages, UNCHANGED <<container, mishap, touched>>,
           DOMAIN remote' = Names,
           cmd.remote => /\ remote'[cmd.ref[2]] = 0
                         /\ \A n \in Names : remote[n] = 0 => remote'[n] = 0
    PROVE  Inv'
  <1>1. cmd.kind = "delete" /\ cmd.ref[2] \in Names /\ stage # "idle" /\ stage # "end"
    BY DEF Inv, Staged, DeleteStages
  <1>2. past \in Seq(Names) /\ \A k \in DOMAIN past : past[k] \in Names
    BY ElementOfSeq, LenProperties DEF Inv, Staged
  <1>3. CASE stage' = "end" /\ UNCHANGED <<cmd, past>>
    <2>1. DeletedIsGone'
      BY <1>1, <1>2, <1>3 DEF Inv, DeletedIsGone, Deleted
    <2> QED
      BY <1>1, <1>3, <2>1, NextNameMoves DEF Inv, Staged, ContainerNeeded, LabelStages,
         DeleteStages, ReadStages
  <1>4. CASE stage' = "delete" /\ past' = Append(past, cmd.ref[2])
                 /\ cmd' \in DeleteCommands /\ cmd'.remote = cmd.remote
    <2>1. cmd'.kind = "delete" /\ cmd'.ref[2] \in Names
      BY <1>4, DeleteParts
    <2>2. past' \in Seq(Names)
      BY <1>1, <1>2, <1>4, AppendProperties
    <2>3. \A k \in DOMAIN past' : past'[k] = cmd.ref[2]
                                 \/ (k \in DOMAIN past /\ past'[k] = past[k])
      BY <1>1, <1>2, <1>4, AppendProperties, LenProperties
    <2>4. DeletedIsGone'
      <3> SUFFICES ASSUME cmd.remote, NEW k \in DOMAIN past', past'[k] \notin touched
                   PROVE  remote'[past'[k]] = 0
        BY <1>4 DEF DeletedIsGone, Deleted
      <3>1. k \in DOMAIN past /\ past'[k] = past[k] => remote[past[k]] = 0
        BY <1>1 DEF Inv, DeletedIsGone, Deleted
      <3> QED
        BY <1>2, <2>3, <3>1
    <2> QED
      BY <1>4, <2>1, <2>2, <2>4, NextNameMoves DEF Inv, Staged, ContainerNeeded, LabelStages,
         DeleteStages, ReadStages
  <1> QED
    BY <1>3, <1>4, NextNameMoves

\* A local delete goes to the registry, or is done with the name.
LEMMA DeleteLocalInv == Inv /\ DeleteLocal => Inv'
  <1> SUFFICES ASSUME Inv, DeleteLocal  PROVE Inv'
    OBVIOUS
  <1>1. /\ stage = "delete" /\ UNCHANGED <<remote, container, mishap, touched>>
    BY DEF DeleteLocal, history
  <1>2. CASE cmd.remote
    <2>1. /\ stage' = "unregister" /\ login' = "connect" /\ outcome' = outcome
          /\ UNCHANGED <<cmd, past>>
      BY <1>2 DEF DeleteLocal, GoTo
    <2>2. DeletedIsGone'
      BY <1>1, <2>1, DeletedStays DEF Inv
    <2> QED
      BY <1>1, <2>1, <2>2 DEF Inv, Staged, ContainerNeeded, LabelStages,
         DeleteStages, ReadStages
  <1>3. CASE ~cmd.remote
    BY <1>1, <1>3, NextNameInv DEF DeleteLocal, DeleteStages, Inv, Staged
  <1> QED
    BY <1>2, <1>3

\* The registry forgets the manifest of the name, and the name with it.
LEMMA UnregisterInv == Inv /\ Unregister => Inv'
  <1> SUFFICES ASSUME Inv, Unregister  PROVE Inv'
    OBVIOUS
  <1>1. stage = "unregister" /\ UNCHANGED <<container, mishap, touched>>
    BY DEF Unregister, host, history
  <1>2. cmd.kind = "delete" /\ cmd.ref[2] \in Names /\ DOMAIN remote = Names
    BY <1>1 DEF Inv, Staged, DeleteStages
  <1>3. CASE End("error") /\ UNCHANGED <<remote, cmd, past>>
    <2>1. stage' = "end" /\ outcome' = "error" /\ login' = "connect"
      BY <1>3 DEF End
    <2>2. DeletedIsGone'
      BY <1>1, <1>3, <2>1, DeletedStays DEF Inv
    <2> QED
      BY <1>1, <1>2, <1>3, <2>1, <2>2 DEF Inv, Staged, ContainerNeeded, LabelStages,
         DeleteStages, ReadStages
  <1>4. CASE NextName /\ remote' = [m \in Names |->
                            IF m \in Manifest(cmd.ref[2]) THEN 0 ELSE remote[m]]
    <2>1. cmd.ref[2] \in Manifest(cmd.ref[2])
      BY <1>2 DEF Manifest
    <2> QED
      BY <1>1, <1>2, <1>4, <2>1, NextNameInv DEF DeleteStages
  <1> QED
    BY <1>3, <1>4 DEF Unregister

\* Reading ends a command that is no delete and changes no image.
LEMMA ReadInv == Inv /\ (Read \/ Fetch) => Inv'
  <1> SUFFICES ASSUME Inv, Read \/ Fetch  PROVE Inv'
    OBVIOUS
  <1>1. /\ stage \in ReadStages /\ stage' = "end" /\ login' = "connect"
        /\ UNCHANGED <<remote, container, mishap, cmd, past>>
    BY DEF Read, Fetch, End, host, history, ReadStages
  <1>2. cmd.kind # "delete"
    BY <1>1 DEF Inv, Staged
  <1>3. DeletedIsGone'
    BY <1>1, <1>2, NothingDeleted
  <1> QED
    BY <1>1, <1>2, <1>3 DEF Inv, Staged, ContainerNeeded, LabelStages,
       DeleteStages, ReadStages

\* Another client gives an image to one name, which is then touched.
LEMMA OutsideInv == Inv /\ Outside => Inv'
  <1> SUFFICES ASSUME Inv, Outside  PROVE Inv'
    OBVIOUS
  <1>1. UNCHANGED <<container, cmd, past, stage, login, outcome, mishap>>
    BY DEF Outside
  <1>2. PICK n \in Names :
          /\ touched' = IF stage = "idle" THEN {} ELSE touched \cup {n}
          /\ \/ remote' = [remote EXCEPT ![n] = Len(image')]
             \/ UNCHANGED remote
    BY DEF Outside
  <1>3. DOMAIN remote' = Names
    BY <1>2 DEF Inv, Staged
  <1>4. ASSUME NEW m \in Names, m # n  PROVE remote'[m] = remote[m]
    BY <1>2, <1>4 DEF Inv, Staged
  <1>5. DeletedIsGone'
    <2> SUFFICES ASSUME stage' # "idle", cmd'.kind = "delete", cmd'.remote,
                        NEW m \in Deleted', m \notin touched'
                 PROVE  remote'[m] = 0
      BY DEF DeletedIsGone
    <2>1. m \in Deleted /\ m \notin touched /\ m # n
      BY <1>1, <1>2 DEF Deleted
    <2>2. m \in Names
      <3>1. \A k \in DOMAIN past : past[k] \in Names
        BY ElementOfSeq, LenProperties DEF Inv, Staged
      <3> QED
        BY <1>1, <2>1, <3>1 DEF Deleted, Inv, Staged
    <2>3. remote[m] = 0
      BY <1>1, <2>1 DEF Inv, DeletedIsGone
    <2> QED
      BY <1>4, <2>1, <2>2, <2>3
  <1> QED
    BY <1>1, <1>3, <1>5 DEF Inv, Staged, ContainerNeeded, LabelStages,
       DeleteStages, ReadStages

LEMMA NextInv == Inv /\ [Next]_vars => Inv'
  <1> SUFFICES ASSUME Inv, [Next]_vars  PROVE Inv'
    OBVIOUS
  <1>1. CASE UNCHANGED vars
    BY <1>1 DEF vars, host, plan, history, counters, Inv, Staged, ContainerNeeded,
       DeletedIsGone, Deleted, LabelStages, DeleteStages, ReadStages
  <1> QED
    BY <1>1, StartInv, ExitInv, LoginInv, LabelInv, PushInv, DeleteLocalInv,
       UnregisterInv, ReadInv, OutsideInv DEF Next, CommandStep

LEMMA Invariance == Spec => []Inv
  <1> QED
    BY InitInv, NextInv, PTL DEF Spec

\* A temporary container stays only when its commit or its removal failed, however
\* a command ends and whatever the commands before it have left.  (ImageBuild of
\* wrapper/dockerClient/dockerClient.go.)
THEOREM ContainersAreRemoved == Spec => []ContainersRemoved
  <1>1. Inv => ContainersRemoved
    BY DEF Inv, ContainerNeeded, ContainersRemoved
  <1> QED
    BY <1>1, Invariance, PTL

\* A remote delete passes a name by, or succeeds, only when the registry has nothing
\* under it, for any number of piped names, any names that share manifests and
\* whatever other clients do to other names.  (runDelete and doDelete of
\* cmd/delete.go and Client.DeleteImage of lib/registry/registry.go.)
THEOREM DeletesAreEffective == Spec => []DeletedIsGone
  <1>1. Inv => DeletedIsGone
    BY DEF Inv
  <1> QED
    BY <1>1, Invariance, PTL

------------------------------------------------------------------------------
(* Lineages                                                                 *)

\* Every image is older than those built from it.
WellFounded(im) ==
    /\ Len(im) \in Nat
    /\ \A k \in 1 .. Len(im) : im[k].parent \in Nat /\ im[k].parent < k

\* The images each one was built from, itself included, as Lineage computes them.
Ancestry(im) ==
    CHOOSE f : f = [k \in 0 .. Len(im) |-> IF k = 0 THEN {} ELSE {k} \cup f[im[k].parent]]

\* The recursive definition has a solution: one for the first n images extends to
\* the next.
LEMMA AncestryUnfolds ==
    ASSUME NEW im, WellFounded(im)
    PROVE  /\ Ancestry(im)[0] = {}
           /\ \A k \in 1 .. Len(im) :
                 Ancestry(im)[k] = {k} \cup Ancestry(im)[im[k].parent]
<1> DEFINE Parts(f, n) == f = [k \in 0 .. n |->
                 IF k = 0 THEN {} ELSE {k} \cup f[im[k].parent]]
           S == {n \in Nat : n <= Len(im) => \E f : Parts(f, n)}
<1>1. 0 \in S
  <2>1. Parts([k \in 0 .. 0 |-> {}], 0)
    OBVIOUS
  <2> QED
    BY <2>1
<1>2. ASSUME NEW n \in Nat, n \in S
      PROVE  n + 1 \in S
  <2> SUFFICES ASSUME n + 1 <= Len(im)
               PROVE  \E g : Parts(g, n + 1)
    OBVIOUS
  <2>1. PICK f : Parts(f, n)
    BY <1>2, WellFounded(im) DEF WellFounded
  <2> DEFINE g == [k \in 0 .. n + 1 |->
                     IF k = n + 1 THEN {k} \cup f[im[k].parent] ELSE f[k]]
  <2> HIDE DEF g
  <2>a. \A k \in 0 .. n : f[k] = IF k = 0 THEN {} ELSE {k} \cup f[im[k].parent]
    BY <2>1
  <2>b. \A k \in 1 .. n + 1 : im[k].parent \in 0 .. n /\ im[k].parent < k
    BY WellFounded(im) DEF WellFounded
  <2>c. \A k \in 0 .. n : g[k] = f[k]
    BY DEF g
  <2>2. \A k \in 0 .. n + 1 :
            g[k] = IF k = 0 THEN {} ELSE {k} \cup g[im[k].parent]
    <3> SUFFICES ASSUME NEW k \in 0 .. n + 1
                 PROVE  g[k] = IF k = 0 THEN {} ELSE {k} \cup g[im[k].parent]
        OBVIOUS
    <3>1. CASE k = 0
        <4>1. 0 \in 0 .. n
            OBVIOUS
        <4>2. g[0] = f[0] /\ f[0] = {}
            BY <2>a, <2>c, <4>1
        <4> QED
            BY <3>1, <4>2
    <3>2. CASE k \in 1 .. n
        <4>1. im[k].parent \in 0 .. n
            BY <2>b, <3>2
        <4>2. k \in 0 .. n /\ k # 0
            BY <3>2
        <4>3. g[k] = f[k] /\ f[k] = {k} \cup f[im[k].parent]
            BY <2>a, <2>c, <4>2
        <4>4. g[im[k].parent] = f[im[k].parent]
            BY <2>c, <4>1
        <4> QED
            BY <4>2, <4>3, <4>4
    <3>3. CASE k = n + 1
        <4>1. im[k].parent \in 0 .. n
            BY <2>b, <3>3
        <4>2. g[k] = {k} \cup f[im[k].parent]
            BY <3>3 DEF g
        <4> QED
            BY <2>c, <3>3, <4>1, <4>2
    <3> QED
        BY <3>1, <3>2, <3>3
  <2>3. g = [k \in 0 .. n + 1 |-> g[k]]
    BY DEF g
  <2>4. Parts(g, n + 1)
    BY <2>2, <2>3
  <2> QED
    BY <2>4
<1>3. Len(im) \in S
    BY <1>1, <1>2, SetInduction, WellFounded(im) DEF WellFounded
<1>4. \E f : Parts(f, Len(im))
    BY <1>3, WellFounded(im) DEF WellFounded
<1>5. Ancestry(im) = CHOOSE f : Parts(f, Len(im))
    BY DEF Ancestry
<1> HIDE DEF Parts
<1>6. Parts(Ancestry(im), Len(im))
    BY <1>4, <1>5
<1> DEFINE A == Ancestry(im)
<1> HIDE DEF A
<1>7. A = [k \in 0 .. Len(im) |-> IF k = 0 THEN {} ELSE {k} \cup A[im[k].parent]]
    BY <1>6 DEF Parts, A
<1>8. Len(im) \in Nat /\ 0 \in 0 .. Len(im)
    BY WellFounded(im) DEF WellFounded
<1>9. A[0] = {}
    BY <1>7, <1>8
<1>10. ASSUME NEW k \in 1 .. Len(im)
       PROVE  A[k] = {k} \cup A[im[k].parent]
    <2>1. k \in 0 .. Len(im) /\ k # 0
        BY <1>8
    <2> QED
        BY <1>7, <2>1
<1> QED
    BY <1>9, <1>10 DEF A

\* An image is built on older ones only.
LEMMA AncestryBelow ==
    ASSUME NEW im, WellFounded(im)
    PROVE  \A k \in 0 .. Len(im) : Ancestry(im)[k] \subseteq 1 .. k
<1> DEFINE A == Ancestry(im)
           S == {n \in Nat : \A k \in 0 .. Len(im) : k <= n => A[k] \subseteq 1 .. k}
<1>0. A[0] = {} /\ \A k \in 1 .. Len(im) : A[k] = {k} \cup A[im[k].parent]
    BY AncestryUnfolds
<1> HIDE DEF A
<1>a. Len(im) \in Nat
    BY WellFounded(im) DEF WellFounded
<1>1. 0 \in S
    BY <1>0, <1>a
<1>2. ASSUME NEW n \in Nat, n \in S
      PROVE  n + 1 \in S
    <2> SUFFICES ASSUME NEW k \in 0 .. Len(im), k = n + 1
                 PROVE  A[k] \subseteq 1 .. k
        BY <1>2
    <2>1. im[k].parent \in 0 .. n /\ im[k].parent \in 0 .. Len(im) /\ im[k].parent < k
        BY WellFounded(im) DEF WellFounded
    <2>2. A[im[k].parent] \subseteq 1 .. im[k].parent
        BY <1>2, <2>1
    <2>3. A[k] = {k} \cup A[im[k].parent]
        BY <1>0, <1>a
    <2> QED
        BY <2>1, <2>2, <2>3
<1>3. Nat \subseteq S
    BY <1>1, <1>2, SetInduction
<1> QED
    <2>1. Len(im) \in S
        BY <1>3, <1>a
    <2>2. \A k \in 0 .. Len(im) : A[k] \subseteq 1 .. k
        BY <1>a, <2>1
    <2> QED
        BY <2>2 DEF A

LEMMA LineageIs ==
    ASSUME NEW i
    PROVE  /\ Lineage(i) = Ancestry(image)[i]
           /\ Lineage(i)' = Ancestry(image')[i]
BY DEF Lineage, Ancestry

------------------------------------------------------------------------------
(* Types                                                                    *)

\* TypeOK in three parts: the images, the command and its plan, the control state.
DataOK ==
    /\ image \in Seq([parent : Nat, labels : SUBSET Keys])
    /\ \A i \in DOMAIN image : image[i].parent < i
    /\ local \in [Names -> 0 .. Len(image)]
    /\ remote \in [Names -> 0 .. Len(image)]
    /\ {source, built} \subseteq 0 .. Len(image)

Commands(ids) == LabelCommands(ids) \cup DeleteCommands \cup ReadCommands(ids)

PlanOK ==
    /\ cmd \in Commands(DOMAIN image) \cup {None}
    /\ imageTags \subseteq Names
    /\ tag \in NameRefs \cup {None}
    /\ changes \subseteq Keys
    /\ stage = "commit" => source # 0
    /\ past \in Seq(Names) /\ Len(past) <= MaxPiped

ControlOK ==
    /\ container \in BOOLEAN
    /\ (stage = "idle") = (cmd = None)
    /\ stage \in {"idle", "pull", "inspect", "label", "create", "commit", "clean",
                  "remove", "push", "delete", "unregister", "read", "fetch", "stuck",
                  "end"}
    /\ login \in {"connect", "prompt", "retry", "accepted"}
    /\ login # "connect" => stage \in {"pull", "push", "unregister", "fetch"}
    /\ credentials \in {"right", "wrong"}
    /\ outcome \in {"none", "success", "error", "exit", "panic"}
    /\ (stage = "end") = (outcome # "none")
    /\ refused \in BOOLEAN
    /\ touched \subseteq Names
    /\ mishap \in BOOLEAN
    /\ commands \in 0 .. MaxCommands /\ outside \in 0 .. MaxOutside

LEMMA TypeParts == DataOK /\ PlanOK /\ ControlOK => TypeOK
    BY DEF TypeOK, DataOK, PlanOK, ControlOK, Commands

LEMMA ImagesAreWellFounded ==
    ASSUME NEW im \in Seq([parent : Nat, labels : SUBSET Keys]),
           \A i \in DOMAIN im : im[i].parent < i
    PROVE  WellFounded(im) /\ Len(im) \in Nat /\ DOMAIN im = 1 .. Len(im)
<1>1. /\ Len(im) \in Nat /\ DOMAIN im = 1 .. Len(im)
      /\ \A k \in 1 .. Len(im) : im[k] \in [parent : Nat, labels : SUBSET Keys]
    BY LenProperties, ElementOfSeq
<1>2. \A k \in 1 .. Len(im) : im[k].parent \in Nat /\ im[k].parent < k
    BY <1>1
<1> QED
    BY <1>1, <1>2 DEF WellFounded

LEMMA ImagesGrowOld ==
    ASSUME DataOK
    PROVE  WellFounded(image) /\ Len(image) \in Nat /\ DOMAIN image = 1 .. Len(image)
    BY ImagesAreWellFounded DEF DataOK

\* A record after the others.
LEMMA ImagesAppend ==
    ASSUME DataOK, NEW r \in [parent : Nat, labels : SUBSET Keys], r.parent <= Len(image)
    PROVE  LET im == Append(image, r)
           IN  /\ im \in Seq([parent : Nat, labels : SUBSET Keys])
               /\ Len(im) = Len(image) + 1
               /\ DOMAIN im = 1 .. Len(image) + 1
               /\ \A i \in 1 .. Len(image) : im[i] = image[i]
               /\ im[Len(im)] = r
               /\ \A i \in DOMAIN im : im[i].parent < i
<1>1. Len(image) \in Nat /\ DOMAIN image = 1 .. Len(image)
    BY ImagesGrowOld
<1> DEFINE im == Append(image, r)
<1>2. /\ im \in Seq([parent : Nat, labels : SUBSET Keys])
      /\ Len(im) = Len(image) + 1
      /\ DOMAIN im = 1 .. Len(image) + 1
      /\ \A i \in 1 .. Len(image) : im[i] = image[i]
      /\ im[Len(im)] = r
    BY <1>1, AppendProperties, LenProperties DEF DataOK
<1> HIDE DEF im
<1>3. \A i \in DOMAIN im : im[i].parent < i
    <2> SUFFICES ASSUME NEW i \in 1 .. Len(image) + 1
                 PROVE  im[i].parent < i
        BY <1>2
    <2>1. CASE i \in 1 .. Len(image)
        BY <1>1, <1>2, <2>1 DEF DataOK
    <2>2. CASE i = Len(image) + 1
        <3>1. r.parent \in Nat
            OBVIOUS
        <3> QED
            BY <1>1, <1>2, <2>2, <3>1
    <2> QED
        BY <1>1, <2>1, <2>2
<1> QED
    BY <1>2, <1>3 DEF im

LEMMA StoredImages == DataOK => Stored \subseteq DOMAIN image
<1> SUFFICES ASSUME DataOK, NEW n \in Names
             PROVE  Lineage(local[n]) \subseteq DOMAIN image
    BY DEF Stored
<1>1. local[n] \in 0 .. Len(image)
    BY DEF DataOK
<1>2. Lineage(local[n]) \subseteq 1 .. local[n]
    BY <1>1, ImagesGrowOld, AncestryBelow, LineageIs
<1> QED
    BY <1>1, <1>2, ImagesGrowOld

LEMMA CommandsMonotone ==
    ASSUME NEW ids, NEW jds, ids \subseteq jds
    PROVE  Commands(ids) \subseteq Commands(jds)
<1>1. LabelCommands(ids) \subseteq LabelCommands(jds)
    BY DEF LabelCommands
<1>2. ReadCommands(ids) \subseteq ReadCommands(jds)
    BY DEF ReadCommands
<1> QED
    BY <1>1, <1>2 DEF Commands

LEMMA NoneIsNoCommand ==
    ASSUME NEW ids \in SUBSET Nat
    PROVE  None \notin Commands(ids)
    BY CommandsMonotone, NoneAssumption DEF Commands

\* What a label command is made of.
LEMMA LabelCommandParts ==
    ASSUME NEW ids, NEW c \in Commands(ids), c.kind = "label"
    PROVE  /\ c.ref \in NameRefs \cup ({"id"} \X ids)
           /\ c.keys \in SUBSET Keys
           /\ c.t \in NameRefs \cup {None}
<1>1. c \notin DeleteCommands /\ c \notin ReadCommands(ids)
    BY DEF DeleteCommands, ReadCommands
<1>2. c \in LabelCommands(ids)
    BY <1>1 DEF Commands
<1> QED
    BY <1>2 DEF LabelCommands

Typed == DataOK /\ PlanOK /\ ControlOK

LEMMA InitTyped == Init => Typed
<1> SUFFICES ASSUME Init
             PROVE  Typed
    OBVIOUS
<1>1. /\ image = <<[parent |-> 0, labels |-> {}], [parent |-> 1, labels |-> {}]>>
      /\ Len(image) = 2 /\ DOMAIN image = 1 .. 2
    BY DEF Init
<1>2. DataOK
    <2>1. /\ image \in Seq([parent : Nat, labels : SUBSET Keys])
          /\ \A i \in DOMAIN image : image[i].parent < i
        BY <1>1
    <2>2. /\ local \in [Names -> 0 .. Len(image)]
          /\ remote \in [Names -> 0 .. Len(image)]
          /\ source = 0 /\ built = 0
        BY <1>1 DEF Init
    <2> QED
        BY <1>1, <2>1, <2>2 DEF DataOK
<1>4. commands \in 0 .. MaxCommands /\ outside \in 0 .. MaxOutside
    BY BoundsAssumption DEF Init
<1>5. PlanOK
    BY BoundsAssumption DEF Init, PlanOK
<1>6. ControlOK
    BY <1>4 DEF Init, ControlOK
<1> QED
    BY <1>2, <1>5, <1>6 DEF Typed

\* The steps that touch no image.
LEMMA DataStays ==
    DataOK /\ UNCHANGED <<image, local, remote, source, built>> => DataOK'
    BY DEF DataOK

LEMMA StartTyped == Typed /\ Inv /\ Start => Typed'
<1> SUFFICES ASSUME Typed, Inv, Start
             PROVE  Typed'
    OBVIOUS
<1>1. DataOK'
    BY DataStays DEF Typed, Start, host, plan
<1>2. cmd' \in Commands(DOMAIN image') /\ cmd' # None
    <2>1. cmd' \in Commands(Stored) /\ image' = image
        BY DEF Start, Commands, host
    <2>2. Stored \subseteq DOMAIN image /\ DOMAIN image \in SUBSET Nat
        BY StoredImages, ImagesGrowOld DEF Typed
    <2> QED
        BY <2>1, <2>2, CommandsMonotone, NoneIsNoCommand
<1>3. stage' \in {"delete", "pull", "read", "fetch", "inspect"}
    BY DEF Start, FirstStage
<1>4. PlanOK'
    BY <1>2, <1>3 DEF Typed, PlanOK, Start, plan
<1>5. credentials' \in {"right", "wrong"}
    BY DEF Start
<1>6. commands' \in 0 .. MaxCommands
    BY BoundsAssumption DEF Start, Typed, ControlOK
<1>7. ControlOK'
    BY <1>2, <1>3, <1>5, <1>6 DEF Typed, ControlOK, Start, host, history
<1> QED
    BY <1>1, <1>4, <1>7 DEF Typed

LEMMA ExitTyped == Typed /\ Exit => Typed'
<1> SUFFICES ASSUME Typed, Exit
             PROVE  Typed'
    OBVIOUS
<1>1. DataOK'
    BY ImagesGrowOld DEF Typed, DataOK, Exit
<1>2. past' \in Seq(Names) /\ Len(past') <= MaxPiped
    BY BoundsAssumption DEF Exit
<1>3. PlanOK'
    BY <1>2 DEF PlanOK, Exit
<1>4. ControlOK'
    BY DEF Typed, ControlOK, Exit, counters
<1> QED
    BY <1>1, <1>3, <1>4 DEF Typed

LEMMA LoginTyped == Typed /\ Inv /\ LoginStep => Typed'
<1> SUFFICES ASSUME Typed, Inv, LoginStep
             PROVE  Typed'
    OBVIOUS
<1>1. DataOK'
    BY DataStays DEF Typed, LoginStep, host, plan
<1>2. stage \in {"pull", "push", "unregister", "fetch"}
    BY DEF LoginStep, BadName, HubLogin, Connect, Prompt, Retry, Inv, Staged
<1>3. /\ \/ stage' = stage /\ outcome' = outcome
            /\ login' \in {"connect", "prompt", "retry", "accepted"}
         \/ stage' = "end" /\ login' = "connect" /\ outcome' \in {"error", "panic"}
      /\ credentials' \in {"right", "wrong"}
      /\ refused' = refused
    <2>1. CASE BadName
        BY <2>1 DEF BadName, End, Typed, ControlOK
    <2>2. CASE HubLogin
        BY <2>2 DEF HubLogin, End, Typed, ControlOK
    <2>3. CASE Connect
        BY <2>3 DEF Connect, Answered, End, Typed, ControlOK
    <2>4. CASE Prompt
        BY <2>4 DEF Prompt, Typed, ControlOK
    <2>5. CASE Retry
        BY <2>5 DEF Retry, Answered, End, Typed, ControlOK
    <2> QED
        BY <2>1, <2>2, <2>3, <2>4, <2>5 DEF LoginStep
<1>4. PlanOK'
    BY <1>2, <1>3 DEF Typed, PlanOK, LoginStep, plan, host
<1>5. ControlOK'
    BY <1>2, <1>3 DEF Typed, ControlOK, LoginStep, host, counters
<1> QED
    BY <1>1, <1>4, <1>5 DEF Typed

\* A step of dim label is at a stage of it and goes to another, or ends.
LEMMA LabelMoves ==
    ASSUME LabelStep
    PROVE  /\ stage \in LabelStages \ {"push"}
           /\ login' = "connect"
           /\ \/ stage' \in (LabelStages \ {"pull"}) \cup {"stuck"} /\ outcome' = outcome
              \/ stage' = "end" /\ outcome' \in {"success", "error", "exit"}
           /\ stage' = "commit" <=> stage = "create" /\ stage' # "end"
<1>1. CASE Pull
    BY <1>1 DEF Pull, StreamBreaks, End, GoTo, LabelStages
<1>2. CASE Inspect
    BY <1>2 DEF Inspect, End, GoTo, LabelStages
<1>3. CASE ChangeLabels
    BY <1>3 DEF ChangeLabels, End, GoTo, LabelStages
<1>4. CASE Create
    BY <1>4 DEF Create, End, GoTo, LabelStages
<1>5. CASE Commit
    BY <1>5 DEF Commit, End, GoTo, LabelStages
<1>6. CASE Clean
    BY <1>6 DEF Clean, AfterBuild, AfterRemove, End, GoTo, LabelStages
<1>7. CASE Remove
    BY <1>7 DEF Remove, AfterRemove, End, GoTo, LabelStages
<1> QED
    BY <1>1, <1>2, <1>3, <1>4, <1>5, <1>6, <1>7 DEF LabelStep

\* In its steps the command is a label command.
LEMMA LabelCommand ==
    ASSUME Typed, Staged, stage \in LabelStages
    PROVE  /\ cmd.kind = "label"
           /\ cmd \in Commands(DOMAIN image)
           /\ cmd.ref \in NameRefs \cup ({"id"} \X DOMAIN image)
           /\ cmd.keys \in SUBSET Keys
           /\ cmd.t \in NameRefs \cup {None}
<1>1. cmd.kind = "label"
    BY DEF Staged
<1>2. cmd # None
    BY DEF Typed, ControlOK, LabelStages
<1>3. cmd \in Commands(DOMAIN image)
    BY <1>2 DEF Typed, PlanOK
<1> QED
    BY <1>1, <1>3, LabelCommandParts

LEMMA NameRefParts == \A r \in NameRefs : r[2] \in Names /\ r[1] \in {"name", "short"}
    BY DEF NameRefs

\* The image a reference denotes.
LEMMA DenotesImage ==
    ASSUME Typed, Staged, stage \in LabelStages
    PROVE  Denotes(cmd.ref) \in 0 .. Len(image)
<1>1. CASE cmd.ref \in {"id"} \X DOMAIN image
    BY <1>1, ImagesGrowOld DEF Denotes, Typed
<1>2. CASE cmd.ref \in NameRefs
    BY <1>2, NameRefParts DEF Denotes, Typed, DataOK
<1> QED
    BY <1>1, <1>2, LabelCommand

\* The reference of the labelled image.
LEMMA GuessTagType ==
    ASSUME Typed, Staged, stage \in LabelStages, NEW names \in SUBSET Names
    PROVE  GuessTag(cmd.ref, names) \subseteq NameRefs \cup {None}
<1>1. {"name"} \X names \subseteq NameRefs
    BY DEF NameRefs
<1>2. cmd.t \in NameRefs \cup {None}
    BY LabelCommand
<1> QED
    BY <1>1, <1>2 DEF GuessTag

\* One name gets an image.
LEMMA OneNameChanges ==
    ASSUME NEW S, NEW f \in [Names -> S], NEW T, S \subseteq T, NEW n, NEW i \in T
    PROVE  [f EXCEPT ![n] = i] \in [Names -> T]
    OBVIOUS

LEMMA LabelData == Typed /\ Inv /\ LabelStep => DataOK'
<1> SUFFICES ASSUME Typed, Inv, LabelStep
             PROVE  DataOK'
    OBVIOUS
<1>1. /\ UNCHANGED remote
      /\ Len(image) \in Nat
    BY ImagesGrowOld DEF LabelStep, Typed
<1>2. CASE Pull
    <2>1. /\ UNCHANGED <<image, source, built>>
          /\ \/ UNCHANGED local
             \/ local' = [local EXCEPT ![cmd.ref[2]] = remote[cmd.ref[2]]]
        BY <1>2 DEF Pull, plan
    <2>2. local' \in [Names -> 0 .. Len(image)]
        BY <2>1 DEF Typed, DataOK
    <2> QED
        BY <1>1, <2>1, <2>2 DEF Typed, DataOK
<1>3. CASE Inspect \/ ChangeLabels \/ Clean
    BY <1>1, <1>3, DataStays DEF Typed, Inspect, ChangeLabels, Clean, host, plan
<1>4. CASE Create
    <2>1. UNCHANGED <<image, local, built>> /\ source' \in {source, Denotes(cmd.ref)}
        BY <1>4 DEF Create
    <2>2. source' \in 0 .. Len(image)
        BY <1>4, <2>1, DenotesImage DEF Create, LabelStages, Inv, Typed, DataOK
    <2> QED
        BY <1>1, <2>1, <2>2 DEF Typed, DataOK
<1>5. CASE Commit
    <2>1. CASE UNCHANGED <<image, local, built>>
        BY <1>1, <1>5, <2>1, DataStays DEF Typed, Commit
    <2>2. CASE /\ image' = Append(image, Labelled)
               /\ built' = Len(image')
               /\ local' = IF tag = None THEN local ELSE [local EXCEPT ![tag[2]] = built']
        <3>1. source \in 1 .. Len(image)
            BY <1>5 DEF Commit, Typed, DataOK, PlanOK
        <3>2. image[source].labels \in SUBSET Keys
            <4>1. image[source] \in [parent : Nat, labels : SUBSET Keys]
                BY <3>1, ElementOfSeq DEF Typed, DataOK
            <4> QED
                BY <4>1
        <3>3. Labelled \in [parent : Nat, labels : SUBSET Keys] /\ Labelled.parent = source
            BY <3>1, <3>2 DEF Labelled, Typed, PlanOK
        <3>4. /\ image' \in Seq([parent : Nat, labels : SUBSET Keys])
              /\ \A i \in DOMAIN image' : image'[i].parent < i
              /\ Len(image') = Len(image) + 1
            <4>1. Labelled.parent <= Len(image)
                BY <1>1, <3>1, <3>3
            <4> QED
                BY <2>2, <3>3, <4>1, ImagesAppend DEF Typed
        <3>5. local' \in [Names -> 0 .. Len(image')]
            <4>1. 0 .. Len(image) \subseteq 0 .. Len(image') /\ Len(image') \in 0 .. Len(image')
                BY <1>1, <3>4
            <4>2. local \in [Names -> 0 .. Len(image)] /\ local \in [Names -> 0 .. Len(image')]
                BY <4>1 DEF Typed, DataOK
            <4> QED
                BY <2>2, <4>1, <4>2, OneNameChanges
        <3>6. remote' \in [Names -> 0 .. Len(image')] /\ {source', built'} \subseteq 0 .. Len(image')
            BY <1>1, <1>5, <2>2, <3>1, <3>4 DEF Commit, Typed, DataOK
        <3> QED
            BY <3>4, <3>5, <3>6 DEF DataOK
    <2> QED
        BY <1>5, <2>1, <2>2 DEF Commit
<1>6. CASE Remove
    <2>1. UNCHANGED <<image, source, built>> /\ local' \in {local, [local EXCEPT ![cmd.ref[2]] = 0]}
        BY <1>6 DEF Remove, plan
    <2>2. local' \in [Names -> 0 .. Len(image)]
        <3>1. local \in [Names -> 0 .. Len(image)] /\ 0 \in 0 .. Len(image)
            BY <1>1 DEF Typed, DataOK
        <3>2. [local EXCEPT ![cmd.ref[2]] = 0] \in [Names -> 0 .. Len(image)]
            BY <3>1, OneNameChanges
        <3> QED
            BY <2>1, <3>1, <3>2
    <2> QED
        BY <1>1, <2>1, <2>2 DEF Typed, DataOK
<1> QED
    BY <1>2, <1>3, <1>4, <1>5, <1>6 DEF LabelStep

LEMMA LabelPlan == Typed /\ Inv /\ LabelStep => PlanOK'
<1> SUFFICES ASSUME Typed, Inv, LabelStep
             PROVE  PlanOK'
    OBVIOUS
<1>1. cmd' \in Commands(DOMAIN image')
    <2>1. cmd' = cmd /\ cmd \in Commands(DOMAIN image)
        BY LabelMoves, LabelCommand DEF LabelStep, Inv
    <2>2. DOMAIN image \subseteq DOMAIN image'
        <3>1. image' \in {image, Append(image, Labelled)}
            BY DEF LabelStep, Pull, Inspect, ChangeLabels, Create, Commit, Clean, Remove, host
        <3>2. Len(image) \in Nat /\ DOMAIN image = 1 .. Len(image)
            BY ImagesGrowOld DEF Typed
        <3>3. DOMAIN image' = 1 .. Len(image')
            BY LabelData, LenProperties DEF DataOK
        <3> QED
            BY <3>1, <3>2, AppendProperties, LenProperties DEF Typed, DataOK
    <2> QED
        BY <2>1, <2>2, CommandsMonotone
<1>2. /\ imageTags' \subseteq Names
      /\ tag' \in NameRefs \cup {None}
      /\ changes' \subseteq Keys
    <2>1. CASE Inspect
        <3>1. imageTags' = imageTags \/ imageTags' \in SUBSET Names
            BY <2>1 DEF Inspect
        <3>2. \A names \in SUBSET Names : GuessTag(cmd.ref, names) \subseteq NameRefs \cup {None}
            BY <2>1, GuessTagType DEF Inspect, LabelStages, Inv
        <3>3. tag' = tag \/ \E names \in SUBSET Names : tag' \in GuessTag(cmd.ref, names)
            BY <2>1 DEF Inspect
        <3>4. changes' = changes
            BY <2>1 DEF Inspect
        <3> QED
            BY <3>1, <3>2, <3>3, <3>4 DEF Typed, PlanOK
    <2>2. CASE ChangeLabels
        <3>1. cmd.keys \in SUBSET Keys
            BY <2>2, LabelCommand DEF ChangeLabels, LabelStages, Inv
        <3>2. changes' \in {changes, cmd.keys} \/ changes' \subseteq cmd.keys
            BY <2>2 DEF ChangeLabels
        <3> QED
            BY <2>2, <3>1, <3>2 DEF ChangeLabels, Typed, PlanOK
    <2>3. CASE Pull \/ Create \/ Commit \/ Clean \/ Remove
        BY <2>3 DEF Pull, Create, Commit, Clean, Remove, plan, Typed, PlanOK
    <2> QED
        BY <2>1, <2>2, <2>3 DEF LabelStep
<1>3. stage' = "commit" => source' # 0
    <2>1. stage' = "commit" => Create
        BY LabelMoves DEF LabelStep, Pull, Inspect, ChangeLabels, Commit, Clean, Remove
    <2> QED
        BY <2>1 DEF Create, End
<1>4. past' = past
    BY DEF LabelStep
<1> QED
    BY <1>1, <1>2, <1>3, <1>4 DEF Typed, PlanOK

LEMMA LabelControl == Typed /\ Inv /\ LabelStep => ControlOK'
<1> SUFFICES ASSUME Typed, Inv, LabelStep
             PROVE  ControlOK'
    OBVIOUS
<1>1. /\ container' \in BOOLEAN /\ refused' \in BOOLEAN /\ mishap' \in BOOLEAN
    <2>1. CASE Pull
        BY <2>1 DEF Pull, StreamFails, StreamBreaks, GoTo, End, Typed, ControlOK
    <2>2. CASE Inspect \/ ChangeLabels \/ Remove
        BY <2>2 DEF Inspect, ChangeLabels, Remove, host, Typed, ControlOK
    <2>3. CASE Create \/ Commit
        BY <2>3 DEF Create, Commit, Typed, ControlOK
    <2>4. CASE Clean
        BY <2>4 DEF Clean, Typed, ControlOK
    <2> QED
        BY <2>1, <2>2, <2>3, <2>4 DEF LabelStep
<1>2. /\ cmd' = cmd /\ stage \in LabelStages /\ stage' \in LabelStages \cup {"stuck", "end"}
      /\ login' = "connect"
      /\ stage' = "end" <=> outcome' # "none"
      /\ outcome' \in {"none", "success", "error", "exit"}
    BY LabelMoves DEF LabelStep, Typed, ControlOK, LabelStages
<1>3. /\ stage' # "idle" /\ cmd' # None
    BY <1>2 DEF Typed, ControlOK, LabelStages
<1>4. UNCHANGED <<credentials, touched, counters>>
    BY DEF LabelStep
<1> QED
    BY <1>1, <1>2, <1>3, <1>4 DEF Typed, ControlOK, LabelStages, counters

\* Steps that end a command, or go on to the registry, and give a name an image
\* that exists, or none.
LEMMA PushTyped == Typed /\ Push => Typed'
<1> SUFFICES ASSUME Typed, Push
             PROVE  Typed'
    OBVIOUS
<1>1. DataOK'
    <2>1. \/ remote' = remote
          \/ remote' = [remote EXCEPT ![tag[2]] = local[tag[2]]]
        BY DEF Push
    <2>2. remote' \in [Names -> 0 .. Len(image)]
        <3>1. CASE tag[2] \in Names
            BY <2>1, <3>1, OneNameChanges DEF Typed, DataOK
        <3>2. CASE tag[2] \notin Names
            BY <2>1, <3>2 DEF Typed, DataOK
        <3> QED
            BY <3>1, <3>2
    <2> QED
        BY <2>2 DEF Push, host, plan, Typed, DataOK
<1>2. PlanOK'
    BY DEF Push, StreamBreaks, GoTo, End, host, plan, Typed, PlanOK
<1>3. ControlOK'
    BY DEF Push, End, StreamFails, StreamBreaks, GoTo, host, plan, counters, Typed, ControlOK
<1> QED
    BY <1>1, <1>2, <1>3 DEF Typed

LEMMA DeleteTyped == Typed /\ Inv /\ (DeleteLocal \/ Unregister) => Typed'
<1> SUFFICES ASSUME Typed, Inv, DeleteLocal \/ Unregister
             PROVE  Typed'
    OBVIOUS
<1>1. DataOK'
    <2>1. CASE DeleteLocal
        <3>1. local' \in {local, [local EXCEPT ![cmd.ref[2]] = 0]}
            BY <2>1 DEF DeleteLocal
        <3>2. Len(image) \in Nat
            BY ImagesGrowOld DEF Typed
        <3>3. local' \in [Names -> 0 .. Len(image)]
            BY <3>1, <3>2, OneNameChanges DEF Typed, DataOK
        <3> QED
            BY <2>1, <3>3 DEF DeleteLocal, plan, Typed, DataOK
    <2>2. CASE Unregister
        <3>1. \/ remote' = remote
              \/ remote' = [m \in Names |-> IF m \in Manifest(cmd.ref[2]) THEN 0 ELSE remote[m]]
            BY <2>2 DEF Unregister
        <3>2. Len(image) \in Nat
            BY ImagesGrowOld DEF Typed
        <3>3. 0 \in 0 .. Len(image) /\ remote \in [Names -> 0 .. Len(image)]
            BY <3>2 DEF Typed, DataOK
        <3>4. remote' \in [Names -> 0 .. Len(image)]
            BY <3>1, <3>3
        <3> QED
            BY <2>2, <3>4 DEF Unregister, host, plan, Typed, DataOK
    <2> QED
        BY <2>1, <2>2
<1>2. /\ stage \in {"delete", "unregister"} /\ login' = "connect"
      /\ \/ stage' = "unregister" /\ outcome' = outcome /\ UNCHANGED <<cmd, past, credentials>>
         \/ stage' = "end" /\ outcome' \in {"success", "error"} /\ UNCHANGED <<cmd, past, credentials>>
         \/ NextName
      /\ image' = image
    BY NextNameMoves DEF DeleteLocal, Unregister, End, GoTo, host
<1>3. PlanOK'
    <2>1. UNCHANGED plan
        BY DEF DeleteLocal, Unregister
    <2>2. /\ cmd' \in Commands(DOMAIN image) \cup {None}
          /\ past' \in Seq(Names) /\ Len(past') <= MaxPiped
        <3>1. cmd.ref[2] \in Names
            BY <1>2 DEF Inv, Staged, DeleteStages
        <3>2. past' \in {past, Append(past, cmd.ref[2])}
                /\ (past' # past => Len(past) < MaxPiped)
            BY <1>2, NextNameMoves
        <3>3. past' \in Seq(Names) /\ Len(past') <= MaxPiped
            BY <3>1, <3>2, BoundsAssumption, AppendProperties, LenProperties DEF Typed, PlanOK
        <3> QED
            BY <1>2, <3>3, NextNameMoves DEF Typed, PlanOK, Commands
    <2>3. stage' # "commit"
        BY <1>2, NextNameMoves
    <2> QED
        BY <1>2, <2>1, <2>2, <2>3 DEF plan, Typed, PlanOK
<1>4. ControlOK'
    <2>1. UNCHANGED <<container, refused, touched, mishap, commands, outside>>
        BY DEF DeleteLocal, Unregister, host, history, counters
    <2>2. /\ stage' \in {"delete", "unregister", "end"} /\ credentials' \in {"right", "wrong"}
          /\ (stage' = "end") = (outcome' # "none")
          /\ outcome' \in {"none", "success", "error"}
        BY <1>2, NextNameMoves DEF Typed, ControlOK
    <2>3. cmd' # None
        <3>1. cmd # None
            BY <1>2 DEF Typed, ControlOK
        <3>2. \A c \in DeleteCommands : c # None
            BY NoneAssumption
        <3> QED
            BY <1>2, <3>1, <3>2, NextNameMoves
    <2> QED
        BY <1>2, <2>1, <2>2, <2>3, NextNameMoves DEF Typed, ControlOK
<1> QED
    BY <1>1, <1>3, <1>4 DEF Typed

LEMMA ReadTyped == Typed /\ (Read \/ Fetch) => Typed'
<1> SUFFICES ASSUME Typed, Read \/ Fetch
             PROVE  Typed'
    OBVIOUS
<1>1. DataOK'
    BY DataStays DEF Read, Fetch, host, plan, Typed
<1>2. /\ stage \in {"read", "fetch"} /\ stage' = "end" /\ login' = "connect"
      /\ outcome' \in {"success", "error", "panic"}
    BY DEF Read, Fetch, End
<1>3. PlanOK' /\ ControlOK'
    BY <1>2 DEF Read, Fetch, host, plan, history, counters, Typed, PlanOK, ControlOK
<1> QED
    BY <1>1, <1>3 DEF Typed

LEMMA OutsideTyped == Typed /\ Outside => Typed'
<1> SUFFICES ASSUME Typed, Outside
             PROVE  Typed'
    OBVIOUS
<1>1. PICK n \in Names :
        /\ touched' = IF stage = "idle" THEN {} ELSE touched \cup {n}
        /\ \/ /\ image' = Append(image, [parent |-> 0, labels |-> Keys])
              /\ remote' = [remote EXCEPT ![n] = Len(image')]
              /\ UNCHANGED local
           \/ /\ local' = [local EXCEPT ![n] = remote[n]]
              /\ UNCHANGED <<image, remote>>
    BY DEF Outside
<1>2. Len(image) \in Nat /\ DOMAIN image = 1 .. Len(image)
    BY ImagesGrowOld DEF Typed
<1>3. UNCHANGED <<source, built>>
    BY DEF Outside, plan
<1>4. DataOK' /\ DOMAIN image \subseteq DOMAIN image'
    <2>1. CASE /\ image' = Append(image, [parent |-> 0, labels |-> Keys])
               /\ remote' = [remote EXCEPT ![n] = Len(image')]
               /\ UNCHANGED local
        <3>1. /\ image' \in Seq([parent : Nat, labels : SUBSET Keys])
              /\ Len(image') = Len(image) + 1
              /\ DOMAIN image' = 1 .. Len(image) + 1
              /\ \A i \in DOMAIN image' : image'[i].parent < i
            <4>1. [parent |-> 0, labels |-> Keys] \in [parent : Nat, labels : SUBSET Keys]
                OBVIOUS
            <4>2. [parent |-> 0, labels |-> Keys].parent <= Len(image)
                BY <1>2
            <4> QED
                BY <2>1, <4>1, <4>2, ImagesAppend DEF Typed
        <3>2. 0 .. Len(image) \subseteq 0 .. Len(image') /\ Len(image') \in 0 .. Len(image')
            BY <1>2, <3>1
        <3>3. remote' \in [Names -> 0 .. Len(image')]
            BY <2>1, <3>2, OneNameChanges DEF Typed, DataOK
        <3>4. local' \in [Names -> 0 .. Len(image')] /\ {source', built'} \subseteq 0 .. Len(image')
            BY <1>3, <2>1, <3>2 DEF Typed, DataOK
        <3>5. DOMAIN image \subseteq DOMAIN image'
            BY <1>2, <3>1
        <3> QED
            BY <3>1, <3>3, <3>4, <3>5 DEF DataOK
    <2>2. CASE local' = [local EXCEPT ![n] = remote[n]] /\ UNCHANGED <<image, remote>>
        <3>1. local' \in [Names -> 0 .. Len(image)]
            BY <2>2, OneNameChanges DEF Typed, DataOK
        <3> QED
            BY <1>3, <2>2, <3>1 DEF Typed, DataOK
    <2> QED
        BY <1>1, <2>1, <2>2
<1>5. PlanOK'
    BY <1>4, CommandsMonotone DEF Outside, plan, Typed, PlanOK
<1>6. outside' \in 0 .. MaxOutside
    BY BoundsAssumption DEF Outside, Typed, ControlOK
<1>7. ControlOK'
    BY <1>1, <1>6 DEF Outside, Typed, ControlOK
<1> QED
    BY <1>4, <1>5, <1>7 DEF Typed

LEMMA NextTyped == Typed /\ Inv /\ [Next]_vars => Typed'
<1> SUFFICES ASSUME Typed, Inv, [Next]_vars
             PROVE  Typed'
    OBVIOUS
<1>1. CASE LabelStep
    BY <1>1, LabelData, LabelPlan, LabelControl DEF Typed
<1>2. CASE UNCHANGED vars
    BY <1>2 DEF vars, host, plan, history, counters, Typed, DataOK, PlanOK, ControlOK
<1> QED
    BY <1>1, <1>2, StartTyped, ExitTyped, LoginTyped, PushTyped, DeleteTyped, ReadTyped,
       OutsideTyped DEF Next, CommandStep

LEMMA TypedHolds == Spec => []Typed
    BY InitTyped, NextTyped, Invariance, PTL DEF Spec

\* Every variable keeps its type: an id always belongs to an image, a name of the
\* host or of the registry to an image that exists, whatever other clients do.
THEOREM CommandsTypeCorrect == Spec => []TypeOK
    BY TypedHolds, TypeParts, PTL DEF Typed

------------------------------------------------------------------------------
(* What dim label knows from one step to the next                           *)

\* An image is built on its parent.
LEMMA ParentInAncestry ==
    ASSUME NEW im, WellFounded(im), NEW k \in 1 .. Len(im), im[k].parent # 0
    PROVE  im[k].parent \in Ancestry(im)[k]
<1>1. Len(im) \in Nat /\ im[k].parent \in 1 .. Len(im)
    BY DEF WellFounded
<1>2. Ancestry(im)[k] = {k} \cup Ancestry(im)[im[k].parent]
    BY AncestryUnfolds
<1>3. im[k].parent \in Ancestry(im)[im[k].parent]
    BY <1>1, AncestryUnfolds
<1> QED
    BY <1>2, <1>3

\* Another client changed a name, or one that the command goes by.
Disturbed(n) == \E m \in touched : m = n \/ Named(cmd.ref, m) \/ Named(tag, m)

Guessed ==
    stage \in {"label", "create", "commit", "clean", "remove", "push"} =>
        tag \in GuessTag(cmd.ref, imageTags)

\* The names that were inspected are still those of the image.
Inspected ==
    stage \in {"label", "create", "commit"} => \A m \in imageTags :
        \/ Disturbed(m)
        \/ local[m] = IF stage = "commit" THEN source ELSE Denotes(cmd.ref)

\* The labelled image has its reference, until Remove may take the name again.
Replaced ==
    stage \in {"clean", "remove", "push"} =>
        /\ built \in DOMAIN image /\ image[built].parent = source /\ source # 0
        /\ tag # None => \/ tag[2] \in touched \/ local[tag[2]] = built
                         \/ stage = "push" /\ local[tag[2]] = 0

Kept ==
    stage \in {"clean", "remove"} => \A m \in imageTags :
        Disturbed(m) \/ local[m] = source \/ (tag # None /\ m = tag[2])

Removing ==
    stage = "remove" =>
        cmd.override /\ cmd.ref \in {"name"} \X imageTags /\ cmd.ref # tag

\* What was pulled is what is labelled.
Pulled ==
    stage \in LabelStages \ {"pull"} /\ cmd.pull /\ ~refused =>
        \A m \in Names \ touched : Named(cmd.ref, m) =>
            remote[m] = IF stage \in {"inspect", "label", "create"} THEN local[m] ELSE source

LoginNamed == stage = "push" /\ login # "connect" => tag \in NameRefs

Labelling == Guessed /\ Inspected /\ Replaced /\ Kept /\ Removing /\ Pulled /\ LoginNamed

\* Nothing is claimed of the other stages.
LEMMA NoLabelling ==
    ASSUME stage \notin LabelStages \ {"pull"}
    PROVE  Labelling
    BY DEF Labelling, Guessed, Inspected, Replaced, Kept, Removing, Pulled, LoginNamed,
           LabelStages

LEMMA InitLabelling == Init => Labelling
    BY NoLabelling DEF Init, LabelStages

LEMMA StartLabelling == Inv /\ Start => Labelling'
<1> SUFFICES ASSUME Inv, Start
             PROVE  Labelling'
    OBVIOUS
<1>1. /\ stage' = FirstStage(cmd')
      /\ stage' \in {"delete", "pull", "read", "fetch", "inspect"}
    BY DEF Start, FirstStage
<1>2. stage' = "inspect" => ~cmd'.pull
    <2>1. stage' = "inspect" => cmd'.kind = "label"
        BY StartInv DEF Inv, Staged, LabelStages
    <2> QED
        BY <1>1, <2>1 DEF FirstStage
<1> QED
    BY <1>1, <1>2 DEF Labelling, Guessed, Inspected, Replaced, Kept, Removing, Pulled,
                      LoginNamed, LabelStages

LEMMA LoginLabelling == Labelling /\ Typed /\ Inv /\ LoginStep => Labelling'
<1> SUFFICES ASSUME Labelling, Typed, Inv, LoginStep
             PROVE  Labelling'
    OBVIOUS
<1>1. UNCHANGED <<image, local, remote, cmd, imageTags, tag, source, built, touched>>
    BY DEF LoginStep, host, plan
<1>2. /\ refused' = refused
      /\ stage' = stage \/ stage' = "end"
      /\ stage' = "push" /\ login' # "connect" => login # "connect" \/ ~Unnamed
    <2>1. CASE BadName
        BY <2>1 DEF BadName, End
    <2>2. CASE HubLogin
        BY <2>2 DEF HubLogin, End
    <2>3. CASE Connect
        BY <2>3 DEF Connect, Answered, End
    <2>4. CASE Prompt
        BY <2>4 DEF Prompt
    <2>5. CASE Retry
        BY <2>5 DEF Retry, Answered, End
    <2> QED
        BY <2>1, <2>2, <2>3, <2>4, <2>5 DEF LoginStep
<1>3. CASE stage' = stage
    <2>1. LoginNamed'
        BY <1>1, <1>2, <1>3 DEF Labelling, LoginNamed, Unnamed, Subject
    <2>2. \A m : Disturbed(m)' <=> Disturbed(m)
        BY <1>1 DEF Disturbed
    <2>3. Denotes(cmd.ref)' = Denotes(cmd.ref)
        BY <1>1 DEF Denotes
    <2>4. GuessTag(cmd.ref, imageTags)' = GuessTag(cmd.ref, imageTags)
        BY <1>1 DEF GuessTag
    <2>5. Guessed' /\ Removing' /\ Replaced'
        BY <1>1, <1>3, <2>4 DEF Labelling, Guessed, Removing, Replaced
    <2>6. Inspected' /\ Kept'
        BY <1>1, <1>3, <2>2, <2>3 DEF Labelling, Inspected, Kept
    <2>7. Pulled'
        BY <1>1, <1>2, <1>3 DEF Labelling, Pulled, Named
    <2> QED
        BY <2>1, <2>5, <2>6, <2>7 DEF Labelling
<1>4. CASE stage' = "end"
    BY <1>4 DEF Labelling, Guessed, Inspected, Replaced, Kept, Removing, Pulled, LoginNamed,
                LabelStages
<1> QED
    BY <1>2, <1>3, <1>4

\* The references a label command deals with are names, when they are not ids.
LEMMA References ==
    ASSUME Typed, Staged, stage \in LabelStages
    PROVE  /\ cmd.kind = "label"
           /\ cmd.ref[1] = "id" => \A m : ~Named(cmd.ref, m)
           /\ cmd.ref[1] # "id" =>
                 cmd.ref[2] \in Names /\ \A m : Named(cmd.ref, m) <=> m = cmd.ref[2]
           /\ tag # None => /\ tag \in NameRefs /\ tag[2] \in Names
                            /\ \A m : Named(tag, m) <=> m = tag[2]
<1>1. cmd.ref \in NameRefs \cup ({"id"} \X DOMAIN image)
    BY LabelCommand
<1>2. CASE cmd.ref \in NameRefs
    <2>1. cmd.ref # None /\ cmd.ref[2] \in Names /\ cmd.ref[1] # "id"
        BY <1>2, NoneAssumption, NameRefParts
    <2> QED
        BY <2>1, LabelCommand, NameRefParts DEF Named, Typed, PlanOK
<1>3. CASE cmd.ref \in {"id"} \X DOMAIN image
    BY <1>3, LabelCommand, NameRefParts DEF Named, Typed, PlanOK
<1> QED
    BY <1>1, <1>2, <1>3

\* When the plan and the names it goes by stay, so does what depends on them.
LEMMA PlanStays ==
    ASSUME UNCHANGED <<local, cmd, imageTags, tag, touched>>
    PROVE  /\ \A m : Disturbed(m)' <=> Disturbed(m)
           /\ Denotes(cmd.ref)' = Denotes(cmd.ref)
           /\ GuessTag(cmd.ref, imageTags)' = GuessTag(cmd.ref, imageTags)
           /\ \A m : Named(cmd.ref, m)' <=> Named(cmd.ref, m)
    BY DEF Disturbed, Denotes, GuessTag, Named

LEMMA PullLabelling == Labelling /\ Typed /\ Inv /\ LabelStep /\ Pull => Labelling'
<1> SUFFICES ASSUME Labelling, Typed, Inv, LabelStep, Pull
             PROVE  Labelling'
    OBVIOUS
<1>1. stage = "pull" /\ stage' \in {"inspect", "stuck", "end"} /\ UNCHANGED <<remote, cmd, touched>>
    BY DEF Pull, StreamBreaks, LabelStep, End, GoTo
<1>2. stage' = "inspect" /\ ~refused' => local' = [local EXCEPT ![cmd.ref[2]] = remote[cmd.ref[2]]]
    BY DEF Pull, StreamFails, StreamBreaks, End, GoTo
<1>3. Pulled'
    <2> SUFFICES ASSUME stage' = "inspect", ~refused', NEW m \in Names, Named(cmd.ref, m)
                 PROVE  remote[m] = local'[m]
        BY <1>1 DEF Pulled, LabelStages, Named
    <2>1. m = cmd.ref[2]
        BY DEF Named
    <2> QED
        BY <1>2, <2>1 DEF Typed, DataOK
<1> QED
    BY <1>1, <1>3 DEF Labelling, Guessed, Inspected, Replaced, Kept, Removing, LoginNamed

LEMMA InspectLabelling == Labelling /\ Typed /\ Inv /\ LabelStep /\ Inspect => Labelling'
<1> SUFFICES ASSUME Labelling, Typed, Inv, LabelStep, Inspect
             PROVE  Labelling'
    OBVIOUS
<1>1. /\ stage = "inspect" /\ stage' \in {"label", "end"}
      /\ UNCHANGED <<image, local, remote, cmd, touched, refused>>
    BY DEF Inspect, LabelStep, End, GoTo, host
<1>2. stage' = "label" => /\ imageTags' = {n \in Names : local[n] = Denotes(cmd.ref)}
                          /\ tag' \in GuessTag(cmd.ref, imageTags')
    BY DEF Inspect, End
<1>3. Denotes(cmd.ref)' = Denotes(cmd.ref)
    BY <1>1 DEF Denotes
<1>4. Guessed'
    BY <1>1, <1>2 DEF Guessed, GuessTag
<1>5. Inspected'
    BY <1>1, <1>2, <1>3 DEF Inspected
<1>6. Pulled'
    BY <1>1 DEF Labelling, Pulled, LabelStages, Named
<1> QED
    BY <1>1, <1>4, <1>5, <1>6 DEF Labelling, Replaced, Kept, Removing, LoginNamed

LEMMA ChangeLabelling == Labelling /\ Typed /\ Inv /\ LabelStep /\ ChangeLabels => Labelling'
<1> SUFFICES ASSUME Labelling, Typed, Inv, LabelStep, ChangeLabels
             PROVE  Labelling'
    OBVIOUS
<1>1. /\ stage = "label" /\ stage' \in {"create", "end"}
      /\ UNCHANGED <<local, remote, cmd, touched, refused, imageTags, tag>>
    BY DEF ChangeLabels, LabelStep, End, GoTo, host
<1>2. Guessed' /\ Inspected'
    BY <1>1, PlanStays DEF Labelling, Guessed, Inspected
<1>3. Pulled'
    BY <1>1, PlanStays DEF Labelling, Pulled, LabelStages
<1> QED
    BY <1>1, <1>2, <1>3 DEF Labelling, Replaced, Kept, Removing, LoginNamed

LEMMA CreateLabelling == Labelling /\ Typed /\ Inv /\ LabelStep /\ Create => Labelling'
<1> SUFFICES ASSUME Labelling, Typed, Inv, LabelStep, Create
             PROVE  Labelling'
    OBVIOUS
<1>1. /\ stage = "create" /\ stage' \in {"commit", "end"}
      /\ UNCHANGED <<local, remote, cmd, touched, refused, imageTags, tag>>
      /\ stage' = "commit" => source' = Denotes(cmd.ref)
    BY DEF Create, LabelStep, End, GoTo
<1>2. Guessed' /\ Inspected'
    BY <1>1, PlanStays DEF Labelling, Guessed, Inspected
<1>3. Pulled'
    <2> SUFFICES ASSUME stage' = "commit", cmd.pull, ~refused, NEW m \in Names \ touched,
                        Named(cmd.ref, m)
                 PROVE  remote[m] = source'
        BY <1>1, PlanStays DEF Pulled, LabelStages
    <2>1. remote[m] = local[m]
        BY <1>1 DEF Labelling, Pulled, LabelStages
    <2>2. Denotes(cmd.ref) = local[m]
        BY DEF Denotes, Named
    <2> QED
        BY <1>1, <2>1, <2>2
<1> QED
    BY <1>1, <1>2, <1>3 DEF Labelling, Replaced, Kept, Removing, LoginNamed

\* The labelled image is built on the container's.
LEMMA LabelledIsImage ==
    ASSUME Typed, stage = "commit"
    PROVE  /\ Labelled \in [parent : Nat, labels : SUBSET Keys] /\ Labelled.parent = source
           /\ source \in 1 .. Len(image)
<1>1. source \in 1 .. Len(image)
    BY ImagesGrowOld DEF Typed, DataOK, PlanOK
<1>2. image[source] \in [parent : Nat, labels : SUBSET Keys]
    BY <1>1, ElementOfSeq DEF Typed, DataOK
<1>3. image[source].labels \in SUBSET Keys
    BY <1>2
<1> QED
    BY <1>1, <1>3, ImagesGrowOld DEF Labelled, Typed, PlanOK

LEMMA CommitLabelling == Labelling /\ Typed /\ Inv /\ LabelStep /\ Commit => Labelling'
<1> SUFFICES ASSUME Labelling, Typed, Inv, LabelStep, Commit
             PROVE  Labelling'
    OBVIOUS
<1>1. /\ stage = "commit" /\ stage' \in {"clean", "end"}
      /\ UNCHANGED <<remote, cmd, touched, refused, imageTags, tag, source>>
    BY DEF Commit, LabelStep, End, GoTo
<1>2. CASE stage' = "end"
    BY <1>2 DEF Labelling, Guessed, Inspected, Replaced, Kept, Removing, Pulled, LoginNamed,
                LabelStages
<1>3. CASE stage' = "clean"
    <2>1. /\ image' = Append(image, Labelled)
          /\ built' = Len(image')
          /\ local' = IF tag = None THEN local ELSE [local EXCEPT ![tag[2]] = built']
        BY <1>3 DEF Commit, End
    <2>2. /\ \A m : Disturbed(m)' <=> Disturbed(m)
          /\ GuessTag(cmd.ref, imageTags)' = GuessTag(cmd.ref, imageTags)
          /\ \A m : Named(cmd.ref, m)' <=> Named(cmd.ref, m)
        BY <1>1 DEF Disturbed, GuessTag, Named
    <2>3. Guessed'
        BY <1>1, <1>3, <2>2 DEF Labelling, Guessed
    <2>4. built' \in DOMAIN image' /\ image'[built'].parent = source /\ source # 0
        <3>1. /\ Labelled \in [parent : Nat, labels : SUBSET Keys] /\ Labelled.parent = source
              /\ source \in 1 .. Len(image) /\ Len(image) \in Nat
            BY <1>1, LabelledIsImage, ImagesGrowOld DEF Typed
        <3>2. Labelled.parent <= Len(image)
            BY <3>1
        <3>3. /\ Len(image') = Len(image) + 1
              /\ DOMAIN image' = 1 .. Len(image) + 1
              /\ image'[Len(image')] = Labelled
            BY <2>1, <3>1, <3>2, ImagesAppend DEF Typed
        <3> QED
            BY <2>1, <3>1, <3>3
    <2>5. tag # None => tag[2] \in Names
        BY <1>1, References DEF Inv, LabelStages
    <2>6. Replaced'
        BY <1>1, <1>3, <2>1, <2>4, <2>5 DEF Replaced, Typed, DataOK
    <2>7. Kept'
        <3> SUFFICES ASSUME NEW m \in imageTags, ~Disturbed(m), tag = None \/ m # tag[2]
                     PROVE  local'[m] = source
            BY <1>1, <2>2 DEF Kept
        <3>1. local[m] = source
            BY <1>1 DEF Labelling, Inspected
        <3>2. m \in Names
            BY DEF Typed, PlanOK
        <3> QED
            BY <2>1, <3>1, <3>2 DEF Typed, DataOK
    <2>8. Pulled'
        BY <1>1, <1>3, <2>2 DEF Labelling, Pulled, LabelStages
    <2> QED
        BY <1>1, <1>3, <2>3, <2>6, <2>7, <2>8 DEF Labelling, Inspected, Removing, LoginNamed
<1> QED
    BY <1>1, <1>2, <1>3

LEMMA CleanLabelling == Labelling /\ Typed /\ Inv /\ LabelStep /\ Clean => Labelling'
<1> SUFFICES ASSUME Labelling, Typed, Inv, LabelStep, Clean
             PROVE  Labelling'
    OBVIOUS
<1>1. /\ stage = "clean" /\ stage' \in {"remove", "push", "end"} /\ login' = "connect"
      /\ UNCHANGED <<image, local, remote, cmd, touched, refused, imageTags, tag, source, built>>
    BY DEF Clean, AfterBuild, AfterRemove, LabelStep, End, GoTo, plan
<1>2. Guessed' /\ Kept'
    BY <1>1, PlanStays DEF Labelling, Guessed, Kept
<1>3. Replaced'
    BY <1>1 DEF Labelling, Replaced
<1>4. Removing'
    BY <1>1 DEF Removing, Clean, AfterBuild, AfterRemove, GoTo, End
<1>5. Pulled'
    BY <1>1, PlanStays DEF Labelling, Pulled, LabelStages
<1> QED
    BY <1>1, <1>2, <1>3, <1>4, <1>5 DEF Labelling, Inspected, LoginNamed

LEMMA RemoveLabelling == Labelling /\ Typed /\ Inv /\ LabelStep /\ Remove => Labelling'
<1> SUFFICES ASSUME Labelling, Typed, Inv, LabelStep, Remove
             PROVE  Labelling'
    OBVIOUS
<1>1. /\ stage = "remove" /\ stage' \in {"push", "end"} /\ login' = "connect"
      /\ UNCHANGED <<image, remote, cmd, touched, refused, imageTags, tag, source, built>>
      /\ local' \in {local, [local EXCEPT ![cmd.ref[2]] = 0]}
    BY DEF Remove, AfterRemove, LabelStep, End, GoTo, plan
<1>2. Guessed'
    BY <1>1 DEF Labelling, Guessed, GuessTag
<1>3. tag # None => tag[2] \in Names
    BY <1>1, References DEF Inv, LabelStages
<1>4. Replaced'
    BY <1>1, <1>3 DEF Labelling, Replaced, Typed, DataOK
<1>5. Pulled'
    BY <1>1 DEF Labelling, Pulled, Named, LabelStages
<1> QED
    BY <1>1, <1>2, <1>4, <1>5 DEF Labelling, Inspected, Kept, Removing, LoginNamed

LEMMA LabelLabelling == Labelling /\ Typed /\ Inv /\ LabelStep => Labelling'
    BY PullLabelling, InspectLabelling, ChangeLabelling, CreateLabelling, CommitLabelling,
       CleanLabelling, RemoveLabelling DEF LabelStep

\* The other steps leave dim label.
LEMMA LeaveLabelling ==
    Inv /\ (Exit \/ Push \/ DeleteLocal \/ Unregister \/ Read \/ Fetch) => Labelling'
<1> SUFFICES ASSUME Inv, Exit \/ Push \/ DeleteLocal \/ Unregister \/ Read \/ Fetch
             PROVE  Labelling'
    OBVIOUS
<1>1. stage' \in {"idle", "stuck", "end", "unregister", "delete"}
    BY NextNameMoves DEF Exit, Push, StreamBreaks, DeleteLocal, Unregister, Read, Fetch, End, GoTo
<1> QED
    BY <1>1 DEF Labelling, Guessed, Inspected, Replaced, Kept, Removing, Pulled, LoginNamed,
                LabelStages

\* Whatever another client does to a name of the command disturbs it.
LEMMA OutsideLabelling == Labelling /\ Typed /\ Inv /\ Outside => Labelling'
<1> SUFFICES ASSUME Labelling, Typed, Inv, Outside
             PROVE  Labelling'
    OBVIOUS
<1>1. CASE stage \notin LabelStages
    BY <1>1 DEF Outside, Labelling, Guessed, Inspected, Replaced, Kept, Removing, Pulled,
                LoginNamed, LabelStages
<1>2. CASE stage \in LabelStages
    <2>1. UNCHANGED <<cmd, stage, login, imageTags, tag, source, built, refused>>
        BY DEF Outside, plan
    <2>2. PICK n \in Names :
            /\ touched' = touched \cup {n}
            /\ \A m \in Names \ {n} : local'[m] = local[m] /\ remote'[m] = remote[m]
            /\ \/ image' = Append(image, [parent |-> 0, labels |-> Keys])
               \/ image' = image
        BY <1>2 DEF Outside, LabelStages, Typed, DataOK
    <2>3. /\ imageTags \subseteq Names
          /\ tag # None => tag[2] \in Names
        BY <1>2, References DEF Typed, PlanOK, Inv
    <2>4. \A m : Disturbed(m) => Disturbed(m)'
        BY <2>1, <2>2 DEF Disturbed, Named
    <2>5. \A m : Disturbed(m)' \/ (m # n /\ Denotes(cmd.ref)' = Denotes(cmd.ref))
        <3> SUFFICES ASSUME NEW m
                     PROVE  Disturbed(m)' \/ (m # n /\ Denotes(cmd.ref)' = Denotes(cmd.ref))
            OBVIOUS
        <3>1. CASE m = n
            BY <2>2, <3>1 DEF Disturbed
        <3>2. CASE cmd.ref[1] # "id" /\ cmd.ref[2] = n
            <4>1. Named(cmd.ref, n)'
                BY <1>2, <2>1, <3>2, References DEF Inv, Named
            <4> QED
                BY <2>2, <4>1 DEF Disturbed
        <3>3. CASE m # n /\ (cmd.ref[1] = "id" \/ cmd.ref[2] # n)
            <4>1. cmd.ref[1] = "id" \/ cmd.ref[2] \in Names
                BY <1>2, References DEF Inv
            <4> QED
                BY <2>1, <2>2, <3>3, <4>1 DEF Denotes
        <3> QED
            BY <3>1, <3>2, <3>3
    <2>6. Guessed' /\ Removing' /\ LoginNamed'
        BY <2>1 DEF Labelling, Guessed, GuessTag, Removing, LoginNamed
    <2>7. Inspected' /\ Kept'
        BY <2>1, <2>2, <2>3, <2>4, <2>5 DEF Labelling, Inspected, Kept
    <2>8. Replaced'
        <3>1. \A i \in DOMAIN image : i \in DOMAIN image' /\ image'[i] = image[i]
            <4>1. [parent |-> 0, labels |-> Keys] \in [parent : Nat, labels : SUBSET Keys]
                OBVIOUS
            <4>2. [parent |-> 0, labels |-> Keys].parent <= Len(image) /\ Len(image) \in Nat
                BY ImagesGrowOld DEF Typed
            <4> QED
                BY <2>2, <4>1, <4>2, ImagesAppend, ImagesGrowOld DEF Typed
        <3> QED
            BY <2>1, <2>2, <2>3, <3>1 DEF Labelling, Replaced
    <2>9. Pulled'
        BY <2>1, <2>2 DEF Labelling, Pulled, Named
    <2> QED
        BY <2>6, <2>7, <2>8, <2>9 DEF Labelling
<1> QED
    BY <1>1, <1>2

LEMMA NextLabelling == Labelling /\ Typed /\ Inv /\ [Next]_vars => Labelling'
<1> SUFFICES ASSUME Labelling, Typed, Inv, [Next]_vars
             PROVE  Labelling'
    OBVIOUS
<1>1. CASE UNCHANGED vars
    <2>1. UNCHANGED <<image, local, remote, cmd, stage, login, imageTags, tag, source, built,
                      touched, refused>>
        BY <1>1 DEF vars, host, plan, history
    <2>2. Guessed' /\ Replaced' /\ Removing' /\ LoginNamed'
        BY <2>1, PlanStays DEF Labelling, Guessed, Replaced, Removing, LoginNamed
    <2>3. Inspected' /\ Kept' /\ Pulled'
        BY <2>1, PlanStays DEF Labelling, Inspected, Kept, Pulled
    <2> QED
        BY <2>2, <2>3 DEF Labelling
<1> QED
    BY <1>1, StartLabelling, LoginLabelling, LabelLabelling, LeaveLabelling, OutsideLabelling
       DEF Next, CommandStep

LEMMA LabellingHolds == Spec => [](Labelling /\ Typed /\ Inv)
    BY InitLabelling, NextLabelling, TypedHolds, Invariance, PTL DEF Spec

------------------------------------------------------------------------------
(* Names and pushes                                                         *)

\* The committed image is built on the one its name is taken from.
LEMMA CommitPassesOn ==
    ASSUME Labelling, Typed, Inv, LabelStep, Commit
    PROVE  NamesPassOn
<1> SUFFICES ASSUME NEW n \in Names, local[n] \notin {0, local'[n]}, ~Disturbed(n),
                    ~Named(cmd.t, n)
             PROVE  HasHeir(local[n])
    BY DEF NamesPassOn, Disturbed, Commit
<1>1. stage = "commit"
    BY DEF Commit
<1>2. /\ image' = Append(image, Labelled)
      /\ tag # None /\ local' = [local EXCEPT ![tag[2]] = Len(image')]
    BY DEF Commit
<1>3. n = tag[2]
    BY <1>2 DEF Typed, DataOK
<1>4. tag \in {"name"} \X imageTags
    <2>1. tag \in GuessTag(cmd.ref, imageTags)
        BY <1>1 DEF Labelling, Guessed
    <2>2. tag # cmd.t
        BY <1>1, <1>2, <1>3, References DEF Inv, LabelStages
    <2> QED
        BY <1>2, <2>1, <2>2 DEF GuessTag
<1>5. local[n] = source
    BY <1>1, <1>3, <1>4 DEF Labelling, Inspected
<1>6. /\ DataOK' /\ Len(image') \in 1 .. Len(image') /\ image'[Len(image')].parent = source
      /\ source # 0
    <2>1. /\ Labelled \in [parent : Nat, labels : SUBSET Keys] /\ Labelled.parent = source
          /\ source \in 1 .. Len(image) /\ Len(image) \in Nat
        BY <1>1, LabelledIsImage, ImagesGrowOld DEF Typed
    <2>2. Labelled.parent <= Len(image)
        BY <2>1
    <2>3. Len(image') = Len(image) + 1 /\ image'[Len(image')] = Labelled
        BY <1>2, <2>1, <2>2, ImagesAppend DEF Typed
    <2> QED
        BY <2>1, <2>3, LabelData
<1>7. source \in Ancestry(image')[Len(image')]
    <2>1. WellFounded(image')
        BY <1>6, ImagesAreWellFounded DEF DataOK
    <2> QED
        BY <1>6, <2>1, ParentInAncestry
<1>8. local'[n] = Len(image') /\ local'[n] # 0
    BY <1>2, <1>3, <1>6 DEF Typed, DataOK
<1>9. Lineage(local[n])' = Ancestry(image')[local'[n]]
    BY DEF Lineage, Ancestry
<1> QED
    BY <1>5, <1>7, <1>8, <1>9 DEF HasHeir

\* Remove takes a name only when the labelled image has another, or is to have
\* the short form of it.
LEMMA RemovePassesOn ==
    ASSUME Labelling, Typed, Inv, LabelStep, Remove
    PROVE  NamesPassOn
<1> SUFFICES ASSUME NEW n \in Names, local[n] \notin {0, local'[n]}, ~Disturbed(n),
                    cmd.t # <<"short", n>>
             PROVE  HasHeir(local[n])
    BY DEF NamesPassOn, Disturbed, Remove
<1>1. stage = "remove" /\ UNCHANGED image
    BY DEF Remove
<1>2. local' = [local EXCEPT ![cmd.ref[2]] = 0] /\ n = cmd.ref[2]
    BY DEF Remove, Typed, DataOK
<1>3. cmd.override /\ cmd.ref = <<"name", n>> /\ n \in imageTags /\ cmd.ref # tag
    BY <1>1, <1>2 DEF Labelling, Removing
<1>4. tag = cmd.t /\ tag # None
    <2>1. tag \in GuessTag(cmd.ref, imageTags)
        BY <1>1 DEF Labelling, Guessed
    <2> QED
        BY <1>3, <2>1 DEF GuessTag
<1>5. PICK t \in Names : t = tag[2] /\ t # n
    <2>1. tag \in NameRefs
        BY <1>1, <1>4, References DEF Inv, LabelStages
    <2>2. tag[2] = n => tag \in {<<"name", n>>, <<"short", n>>}
        BY <2>1 DEF NameRefs
    <2> QED
        BY <1>3, <1>4, <2>1, <2>2, NameRefParts
<1>6. local[n] = source
    BY <1>1, <1>3, <1>5 DEF Labelling, Kept
<1>7. local'[t] = built /\ built \in DOMAIN image /\ image[built].parent = source /\ source # 0
    <2>1. tag[2] \notin touched
        BY <1>1, <1>4, References DEF Disturbed, Inv, LabelStages
    <2> QED
        BY <1>1, <1>2, <1>4, <1>5, <2>1 DEF Labelling, Replaced, Typed, DataOK
<1>8. source \in Ancestry(image')[local'[t]] /\ local'[t] # 0
    <2>1. WellFounded(image) /\ DOMAIN image = 1 .. Len(image)
        BY ImagesGrowOld DEF Typed
    <2> QED
        BY <1>1, <1>7, <2>1, ParentInAncestry
<1>9. Lineage(local[t])' = Ancestry(image')[local'[t]]
    BY DEF Lineage, Ancestry
<1> QED
    BY <1>6, <1>8, <1>9 DEF HasHeir

\* dim label takes a name from an image only when a name goes to one built on it,
\* unless another client changed a name of the command or the user asked for it.
\* (guessTag and ImageBuild, and the removal in cmd/label.go 72-78.)
THEOREM NamesAreInherited == Spec => NothingLost
<1>1. Labelling /\ Typed /\ Inv /\ [Next]_vars => [NamesPassOn]_vars
    <2> SUFFICES ASSUME Labelling, Typed, Inv, Next, stage \in {"commit", "remove"}, stage' # stage
                 PROVE  NamesPassOn
        BY DEF NamesPassOn
    <2>1. LabelStep
        BY DEF Next, Start, Exit, CommandStep, LoginStep, BadName, HubLogin, Connect, Prompt,
               Retry, Push, DeleteLocal, Unregister, Read, Fetch, Outside, Inv, Staged
    <2>2. Commit \/ Remove
        BY <2>1 DEF LabelStep, Pull, Inspect, ChangeLabels, Create, Clean
    <2> QED
        BY <2>1, <2>2, CommitPassesOn, RemovePassesOn
<1> QED
    BY <1>1, LabellingHolds, PTL DEF Spec, NothingLost

\* dim label pushes the image it built, under its reference only, and replaces the
\* one it was built on, for any names and any other clients.  (The order of the
\* steps in cmd/label.go 48-84.)
THEOREM PushesAreRight == Spec => PushesWhatItBuilt
<1>1. Labelling /\ Typed /\ Inv /\ [Next]_vars => [PushIsRight]_vars
    <2> SUFFICES ASSUME Labelling, Typed, Inv, Next, stage = "push", stage' # stage, remote' # remote
                 PROVE  PushIsRight
        BY DEF PushIsRight
    <2>1. Push
        BY DEF Next, Start, Exit, CommandStep, LoginStep, LabelStep, Pull, Inspect, ChangeLabels,
               Create, Commit, Clean, Remove, DeleteLocal, Unregister, Read, Fetch, Outside
    <2>2. /\ local[tag[2]] # 0
          /\ remote' = [remote EXCEPT ![tag[2]] = local[tag[2]]]
        BY <2>1 DEF Push
    <2>3. tag \in NameRefs /\ tag # None /\ tag[2] \in Names
        BY <2>1, NoneAssumption, NameRefParts DEF Push, Labelling, LoginNamed
    <2>4. /\ tag[2] \in touched \/ local[tag[2]] = built
          /\ built \in DOMAIN image /\ image[built].parent = source /\ source # 0
        BY <2>2, <2>3 DEF Labelling, Replaced
    <2>5. \A n \in Names : remote'[n] # remote[n] => n = tag[2] /\ (n \in touched \/ remote'[n] = built)
        BY <2>2, <2>3, <2>4 DEF Typed, DataOK
    <2>6. ASSUME cmd.pull, ~refused, Named(cmd.ref, tag[2]), tag[2] \notin touched
          PROVE  remote[tag[2]] \in Lineage(built)
        <3>1. remote[tag[2]] = source
            BY <2>3, <2>6 DEF Labelling, Pulled, LabelStages
        <3>2. WellFounded(image) /\ DOMAIN image = 1 .. Len(image)
            BY ImagesGrowOld DEF Typed
        <3> QED
            BY <2>4, <3>1, <3>2, ParentInAncestry, LineageIs
    <2> QED
        BY <2>5, <2>6 DEF PushIsRight
<1> QED
    BY <1>1, LabellingHolds, PTL DEF Spec, PushesWhatItBuilt
================================================================================
