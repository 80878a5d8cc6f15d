------------------------------ MODULE IndexHooks ------------------------------
(****************************************************************************)
(* The hooks of a dim server (lib/index/config.go and triggerHooks of       *)
(* lib/index/index.go).  A worker that has read a pushed image, or found    *)
(* the image a delete names, starts one goroutine for each hook of the      *)
(* event and goes on.  Eval runs one template at a time: it holds a mutex   *)
(* that all hooks share, also while the template waits for the answer to an *)
(* HTTP request that has no time limit.                                     *)
(*                                                                          *)
(* The workers, the channel and the index are those of DimIndex, suspect is *)
(* the history variable of IndexAgreement; owed is another one.             *)
(****************************************************************************)
EXTENDS IndexAgreement

CONSTANTS
    Hooks,          \* the configured hooks
    Event,          \* the event of each hook, "push" or "delete"
    HooksMayHang    \* can an HTTP request of a hook go unanswered for ever?

\* GetHooks.  ParseHooks refuses a configuration with any other event.
HooksOf(action) == {k \in Hooks : Event[k] = action}

ASSUME HooksAssumption ==
    /\ Event \in [Hooks -> {"push", "delete"}]
    /\ PushHooks = (HooksOf("push") # {})
    /\ DeleteHooks = (HooksOf("delete") # {})
    /\ HooksMayHang \in BOOLEAN

\* A goroutine evaluates a hook for the image of a name and a digest.
Goroutines == Hooks \X Names \X Digests

VARIABLES
    waiting,    \* how many goroutines of each kind are before mutex.Lock
    running,    \* how many are between mutex.Lock and mutex.Unlock
    mutex,      \* is the mutex locked?
    hung,       \* does the template that runs wait for an answer for ever?
    owed        \* deleted images whose delete hooks have to run (history)

goroutines == <<waiting, running, mutex, hung>>
hookVars == <<agreementVars, goroutines, owed>>

HookTypeOK ==
    /\ waiting \in [Goroutines -> Nat]
    /\ running \in [Goroutines -> Nat]
    /\ mutex \in BOOLEAN
    /\ hung \in BOOLEAN
    /\ owed \subseteq Names \X Digests

HookInit ==
    /\ AgreementInit
    /\ waiting = [g \in Goroutines |-> 0]
    /\ running = [g \in Goroutines |-> 0]
    /\ mutex = FALSE
    /\ hung = FALSE
    /\ owed = {}

------------------------------------------------------------------------------
(* The workers start goroutines.                                            *)

\* The names of the images the worker's step hands to triggerHooks.
Announced(w) ==
    IF pc[w] = "GetImage" /\ pc'[w] = "IndexImage" THEN {job[w].name}
    ELSE IF pc[w] = "FindImage" /\ Cardinality(Matches(job[w].digest)) = 1
         THEN Matches(job[w].digest)
    ELSE {}

\* Mutant: the hooks of both events are started.
AllStarted(w) ==
    IF pc[w] \in {"GetImage", "FindImage"}
    THEN Hooks \X Announced(w) \X {job[w].digest}
    ELSE {}

Started(w) ==
    IF pc[w] \in {"GetImage", "FindImage"}
    THEN HooksOf(job[w].action) \X Announced(w) \X {job[w].digest}
    ELSE {}

\* Mutant: the hooks are evaluated by the worker itself, which waits for them.
HookJobStepInline(w) ==
    /\ pc[w] \in {"IndexImage", "Search"} =>
          \A g \in Goroutines : g[3] = job[w].digest => waiting[g] + running[g] = 0
    /\ JobStep(w)
    /\ waiting' = [g \in Goroutines |->
                      IF g \in Started(w) THEN waiting[g] + 1 ELSE waiting[g]]
    /\ owed' = {o \in owed : o[1] \notin suspect'}
    /\ UNCHANGED <<running, mutex, hung>>

HookJobStep(w) ==
    /\ JobStep(w)
    /\ waiting' = [g \in Goroutines |->
                      IF g \in Started(w) THEN waiting[g] + 1 ELSE waiting[g]]
    /\ owed' = {o \in owed : o[1] \notin suspect'}
    /\ UNCHANGED <<running, mutex, hung>>

\* FindImage fails: whatever hooks the delete of this image had to start, this
\* job does not start them.
HookSkip(w) ==
    /\ SkipStep(w)
    /\ owed' = {o \in owed : o[2] # job[w].digest}
    /\ UNCHANGED goroutines

------------------------------------------------------------------------------
(* Eval.                                                                    *)

\* Mutant: the template is executed without the mutex.
NoLock(g) ==
    /\ waiting[g] > 0
    /\ mutex' = TRUE
    /\ waiting' = [waiting EXCEPT ![g] = @ - 1]
    /\ running' = [running EXCEPT ![g] = @ + 1]
    /\ UNCHANGED <<agreementVars, hung, owed>>

Lock(g) ==
    /\ waiting[g] > 0
    /\ ~mutex
    /\ mutex' = TRUE
    /\ waiting' = [waiting EXCEPT ![g] = @ - 1]
    /\ running' = [running EXCEPT ![g] = @ + 1]
    /\ UNCHANGED <<agreementVars, hung, owed>>

\* sendRequest waits for an answer that does not come.
Hang(g) ==
    /\ HooksMayHang
    /\ running[g] > 0
    /\ hung' = TRUE
    /\ UNCHANGED <<agreementVars, waiting, running, mutex, owed>>

\* Mutant: the mutex is not unlocked when the template returns an error.
ReturnLocked(g) ==
    /\ running[g] > 0
    /\ ~hung
    /\ mutex' \in BOOLEAN
    /\ running' = [running EXCEPT ![g] = @ - 1]
    /\ UNCHANGED <<agreementVars, waiting, hung, owed>>

\* The template ends, or stops at an error that is logged; the deferred Unlock
\* runs either way.
Return(g) ==
    /\ running[g] > 0
    /\ ~hung
    /\ mutex' = FALSE
    /\ running' = [running EXCEPT ![g] = @ - 1]
    /\ UNCHANGED <<agreementVars, waiting, hung, owed>>

EvalStep == \E g \in Goroutines : Lock(g) \/ Return(g)

------------------------------------------------------------------------------
(* What a delete owes to the hooks.                                         *)

\* The delete takes away the one name of the image, in the registry and in the
\* index, and no push of the image is on its way.
OwedBy(r, d) ==
    {o \in Untagged(r, d) \X {d} :
        /\ o[1] \notin suspect'
        /\ Untagged(r, d) = {o[1]}
        /\ \A G \in Names \ {o[1]} : index[G] # d /\ ~PushPending(G, d)}

HookPush(F, d) ==
    /\ RegistryPush(F, d)
    /\ suspect' = IF PushOverlaps(F, d) THEN suspect \cup {F} ELSE suspect \ {F}
    /\ owed' = {o \in owed : o[1] \notin suspect' /\ o[2] # d}
    /\ UNCHANGED goroutines

HookDelete(r, d) ==
    /\ RegistryDelete(r, d)
    /\ suspect' = suspect \cup DeleteOverlaps(r, d)
    /\ owed' = {o \in owed : o[1] \notin suspect'} \cup OwedBy(r, d)
    /\ UNCHANGED goroutines

Others == <<goroutines, owed>>

HookNext ==
    \/ \E F \in Names, d \in Digests : HookPush(F, d)
    \/ \E r \in Repos, d \in Digests : HookDelete(r, d)
    \/ \E r \in Repos, d \in Digests :
          RegistryActivity(r, d) /\ UNCHANGED <<suspect, Others>>
    \/ \E w \in Workers : HookJobStep(w) \/ HookSkip(w)
    \/ DeliveryStep /\ UNCHANGED Others
    \/ EvalStep \/ \E g \in Goroutines : Hang(g)

HookSpec == HookInit /\ [][HookNext]_hookVars

\* Every goroutine that can run does; nothing is assumed of a hook that hangs.
HookFairSpec ==
    /\ HookSpec
    /\ WF_hookVars(SinkStep /\ UNCHANGED <<suspect, Others>>)
    /\ \A h \in Requests : WF_hookVars(HandlerStep(h) /\ UNCHANGED <<suspect, Others>>)
    /\ \A w \in Workers : WF_hookVars(HookJobStep(w))
    /\ WF_hookVars(EvalStep)

------------------------------------------------------------------------------
(* Properties                                                               *)

\* Eval never runs two templates together, whatever the hooks do and however
\* many goroutines triggerHooks has started.
OneAtATime ==
    \A g, k \in Goroutines :
        running[g] > 0 /\ running[k] > 0 => g = k /\ running[g] = 1 /\ mutex

\* When a hook is started what it tells is so: the registry has the image of a
\* push hook under that name, and nothing any more under the name of a delete
\* hook, although the job carries the digest alone and FindImage takes whatever
\* document has it.  Names whose jobs overlapped are left out: the delete of
\* an image in one repository starts hooks for a name of another repository that
\* is still there, if that is the only document with the digest.
HooksTellTheTruth ==
    [][\A g \in Goroutines : waiting'[g] > waiting[g] /\ g[2] \notin suspect =>
          tags[g[2]] = IF Event[g[1]] = "push" THEN g[3] ELSE None]_hookVars

\* The delete hooks are started for every image whose only name was deleted,
\* unless jobs overlapped or failed or FindImage did: FindImage comes before
\* DeleteImage, and neither a repeated job nor another worker removes the
\* document in between.
DeleteHooksStart ==
    DeleteHooks /\ Quiescent => \A o \in owed :
        [action |-> "delete", name |-> o[1], digest |-> o[2]] \in fired

\* Unless one hangs, every hook started is evaluated: Eval unlocks the mutex
\* also after an error, and the workers do not starve the hooks.
HooksDrain == \A g \in Goroutines : waiting[g] > 0 ~> (waiting[g] = 0 \/ hung)
==============================================================================
