----------------------------- MODULE ImageCommands -----------------------------
(****************************************************************************)
(* A user's "dim label", "dim delete", "dim show" and "dim hooktest"        *)
(* commands (cmd), one after another, on a host whose docker daemon and     *)
(* whose registry other clients use too.  A label command pulls the image,  *)
(* inspects it, builds a labelled image from a temporary container, removes *)
(* the original name and pushes, each step as the flags ask                 *)
(* (wrapper/dockerClient); a delete command removes the image on the host   *)
(* and then in the registry, one name after another if they are piped to it;*)
(* the other two read the image on the host or in the registry.             *)
(*                                                                          *)
(* An image is its number in image; 0 is no image.  A command refers to an  *)
(* image by its full name, by the name without the tag "latest" or by its   *)
(* id.  The daemon and the registry may fail any request.                   *)
(****************************************************************************)
EXTENDS Integers, Sequences

CONSTANTS
    Names,          \* full names, pairs <<repository, tag>>
    HubRepos,       \* the repositories of docker hub; the others are private
    Latest,         \* the tag "latest"
    Keys,           \* label keys; each label has one value
    MaxCommands,    \* bound on the commands
    MaxPiped,       \* bound on the names piped to a delete after the first
    MaxOutside,     \* bound on the steps of other clients
    None            \* no name

ASSUME BoundsAssumption == {MaxCommands, MaxPiped, MaxOutside} \subseteq Nat

VARIABLES
    image,          \* every image made so far: its parent and its labels
    local,          \* the daemon's image under each name
    remote,         \* the registry's
    container,      \* is the command's temporary container on the host?
    cmd,            \* the command; the name it deletes, when names are piped to it
    past,           \* the names it has deleted before
    stage,          \* the step it has reached, "stuck", "end", or "idle" without one
    login,          \* within a step: "connect", "prompt", "retry" or "accepted"
    credentials,    \* Auth: are they "right" or "wrong"?
    imageTags,      \* names of the image when it was inspected
    tag,            \* reference the labelled image gets
    changes,        \* keys set, or cleared
    source,         \* image of the temporary container
    built,          \* the labelled image
    outcome,        \* "none", "success", "error", "exit" or "panic"
    refused,        \* did a pull or a push report an error nobody read? (history)
    touched,        \* names other clients changed since the start (history)
    mishap,         \* did the commit or the container's removal fail? (history)
    commands, outside

host == <<image, local, container>>
plan == <<imageTags, tag, changes, source, built>>
history == <<refused, touched, mishap>>
counters == <<commands, outside>>
vars == <<host, remote, cmd, past, stage, login, credentials, plan, outcome, history,
          counters>>

------------------------------------------------------------------------------
(* Commands.                                                                *)

NameRefs == ({"name"} \X Names) \cup ({"short"} \X {n \in Names : n[2] = Latest})

Named(ref, n) == ref # None /\ ref[1] # "id" /\ ref[2] = n

LabelCommands(ids) ==
    [kind : {"label"}, ref : NameRefs \cup ({"id"} \X ids),
     keys : SUBSET Keys \ {{}}, t : NameRefs \cup {None},
     clear : BOOLEAN, override : BOOLEAN, remote : BOOLEAN, pull : BOOLEAN]

\* A name of docker hub is deleted remotely in the configured registry, under a
\* private name: only such names are deleted remotely here.
DeleteCommands ==
    {c \in [kind : {"delete"}, ref : NameRefs, remote : BOOLEAN] :
        c.remote => c.ref[2][1] \notin HubRepos}

\* The commands that only read: dim show and dim hooktest.
ReadCommands(ids) ==
    {c \in [kind : {"show", "hooktest"}, ref : NameRefs \cup ({"id"} \X ids),
            remote : BOOLEAN] :
        c.remote => c.ref[1] # "id" /\ c.ref[2][1] \notin HubRepos}

\* An image and those it was built from.
Lineage(i) ==
    LET upTo[k \in 0 .. Len(image)] ==
            IF k = 0 THEN {} ELSE {k} \cup upTo[image[k].parent]
    IN  upTo[i]

Stored == UNION {Lineage(local[n]) : n \in Names}

ASSUME NoneAssumption ==
    None \notin NameRefs \cup LabelCommands(Nat) \cup DeleteCommands \cup ReadCommands(Nat)

TypeOK ==
    /\ image \in Seq([parent : Nat, labels : SUBSET Keys])
    /\ \A i \in DOMAIN image : image[i].parent < i
    /\ local \in [Names -> 0 .. Len(image)]
    /\ remote \in [Names -> 0 .. Len(image)]
    /\ container \in BOOLEAN
    /\ cmd \in LabelCommands(DOMAIN image) \cup DeleteCommands
                  \cup ReadCommands(DOMAIN image) \cup {None}
    /\ past \in Seq(Names) /\ Len(past) <= MaxPiped
    /\ (stage = "idle") = (cmd = None)
    /\ stage \in {"idle", "pull", "inspect", "label", "create", "commit", "clean",
                  "remove", "push", "delete", "unregister", "read", "fetch", "stuck",
                  "end"}
    /\ login \in {"connect", "prompt", "retry", "accepted"}
    /\ login # "connect" => stage \in {"pull", "push", "unregister", "fetch"}
    /\ credentials \in {"right", "wrong"}
    /\ imageTags \subseteq Names
    /\ tag \in NameRefs \cup {None}
    /\ changes \subseteq Keys
    /\ {source, built} \subseteq 0 .. Len(image)
    /\ outcome \in {"none", "success", "error", "exit", "panic"}
    /\ (stage = "end") = (outcome # "none")
    /\ refused \in BOOLEAN
    /\ touched \subseteq Names
    /\ mishap \in BOOLEAN
    /\ commands \in 0 .. MaxCommands /\ outside \in 0 .. MaxOutside

\* One image, built on another, which the host and the registry have under every
\* name.
Init ==
    /\ image = <<[parent |-> 0, labels |-> {}], [parent |-> 1, labels |-> {}]>>
    /\ local = [n \in Names |-> 2] /\ remote = [n \in Names |-> 2]
    /\ container = FALSE
    /\ cmd = None /\ past = <<>>
    /\ stage = "idle" /\ login = "connect" /\ credentials = "wrong"
    /\ imageTags = {} /\ tag = None /\ changes = {} /\ source = 0 /\ built = 0
    /\ outcome = "none"
    /\ refused = FALSE /\ touched = {} /\ mishap = FALSE
    /\ commands = 0 /\ outside = 0

NeedsLogin(c) == c.remote \/ (c.kind = "label" /\ c.pull)

\* Mutant: the image is not pulled.
FirstStageWithoutPull(c) ==
    CASE c.kind = "delete" -> "delete"
      [] c.kind = "label" -> "inspect"
      [] OTHER -> IF c.remote THEN "fetch" ELSE "read"

FirstStage(c) ==
    CASE c.kind = "delete" -> "delete"
      [] c.kind = "label" /\ c.pull -> "pull"
      [] c.kind \in {"show", "hooktest"} -> IF c.remote THEN "fetch" ELSE "read"
      [] OTHER -> "inspect"

\* Each command is a process of its own, with the credentials it is given.
Start ==
    /\ stage = "idle"
    /\ commands < MaxCommands
    /\ commands' = commands + 1
    /\ cmd' \in LabelCommands(Stored) \cup DeleteCommands \cup ReadCommands(Stored)
    /\ stage' = FirstStage(cmd')
    /\ credentials' \in IF NeedsLogin(cmd') THEN {"right", "wrong"} ELSE {"wrong"}
    /\ UNCHANGED <<host, remote, past, login, plan, outcome, history, outside>>

Exit ==
    /\ stage = "end"
    /\ cmd' = None /\ past' = <<>>
    /\ stage' = "idle" /\ login' = "connect" /\ credentials' = "wrong"
    /\ imageTags' = {} /\ tag' = None /\ changes' = {} /\ source' = 0 /\ built' = 0
    /\ outcome' = "none"
    /\ refused' = FALSE /\ touched' = {} /\ mishap' = FALSE
    /\ container' = FALSE
    /\ UNCHANGED <<image, local, remote, counters>>

End(result) ==
    /\ stage' = "end"
    /\ login' = "connect"
    /\ outcome' = result

GoTo(next) ==
    /\ stage' = next
    /\ login' = "connect"
    /\ UNCHANGED outcome

\* The reader of a stream skips what the daemon reports in it: an error that
\* comes after the first message is not seen.
StreamFails == refused' = TRUE

\* Nor does it look at the decoder's error.  A message that is cut or malformed is
\* never consumed: there is always more to decode, and the loop has no end.
StreamBreaks == GoTo("stuck")

------------------------------------------------------------------------------
(* Logging in to a registry, before a pull or a push (Authenticate) and     *)
(* before a remote delete or a remote read (tryNew).  dim asks for          *)
(* credentials until they are right.                                        *)

Subject == IF stage = "push" THEN tag ELSE cmd.ref

\* An id, or no tag at all, is no name of a registry.
Unnamed == Subject \notin NameRefs
OnHub == Subject[2][1] \in HubRepos

BadName ==
    /\ stage \in {"pull", "push"} /\ login = "connect"
    /\ Unnamed
    /\ End("error")
    /\ UNCHANGED <<credentials, refused>>

\* Docker hub: a pull goes on without authentication, a push does not.
HubLogin ==
    /\ stage \in {"pull", "push"} /\ login = "connect"
    /\ ~Unnamed /\ OnHub
    /\ IF stage = "pull"
       THEN login' = "accepted" /\ UNCHANGED <<stage, outcome>>
       ELSE End("error")
    /\ UNCHANGED <<credentials, refused>>

Answered(verdict) ==
    /\ login' = verdict
    /\ UNCHANGED <<stage, outcome>>

\* The registry judges the credentials.  Before a pull or a push, the first
\* answer counts as an acceptance unless it is 401 or 404, and no answer at all
\* is a nil response that the code dereferences.
Connect ==
    /\ login = "connect"
    /\ \/ stage \in {"pull", "push"} /\ ~Unnamed /\ ~OnHub
          /\ \/ Answered("accepted")
             \/ credentials = "wrong" /\ Answered("prompt")
             \/ End("error")
             \/ End("panic")
       \/ stage \in {"unregister", "fetch"}
          /\ \/ Answered(IF credentials = "right" THEN "accepted" ELSE "prompt")
             \/ End("error")
    /\ UNCHANGED <<credentials, refused>>

Prompt ==
    /\ login = "prompt"
    /\ login' = "retry"
    /\ credentials' \in {"right", "wrong"}
    /\ UNCHANGED <<stage, outcome, refused>>


Retry ==
    /\ login = "retry"
    /\ \/ Answered(IF credentials = "right" THEN "accepted" ELSE "prompt")
       \/ End("error")
       \/ stage \in {"pull", "push"} /\ End("panic")
    /\ UNCHANGED <<credentials, refused>>

LoginStep ==
    /\ BadName \/ HubLogin \/ Connect \/ Prompt \/ Retry
    /\ UNCHANGED <<host, remote, cmd, past, plan, touched, mishap, counters>>

------------------------------------------------------------------------------
(* dim label.                                                               *)

Denotes(ref) == IF ref[1] = "id" THEN ref[2] ELSE local[ref[2]]

Pull ==
    /\ stage = "pull" /\ login = "accepted"
    /\ LET n == cmd.ref[2]
           pullable == remote[n] # 0 /\ (OnHub \/ credentials = "right")
       IN  \/ /\ End("error")
              /\ UNCHANGED <<local, refused>>
           \/ /\ pullable
              /\ local' = [local EXCEPT ![n] = remote[n]]
              /\ GoTo("inspect")
              /\ UNCHANGED refused
           \/ /\ pullable
              /\ StreamFails
              /\ GoTo("inspect")
              /\ UNCHANGED local
           \/ /\ pullable
              /\ local' \in {local, [local EXCEPT ![n] = remote[n]]}
              /\ StreamBreaks
              /\ UNCHANGED refused
    /\ UNCHANGED <<image, container, plan, mishap>>

\* The reference that guessTag gives to the labelled image.  The daemon lists the
\* names of an image in any order.
GuessTag(ref, names) ==
    CASE cmd.t # None                          -> {cmd.t}
      [] cmd.t = None /\ ~cmd.override         -> {None}
      [] cmd.t = None /\ cmd.override
           /\ ref \in {"name"} \X names        -> {ref}
      [] OTHER                                 -> {"name"} \X names

Inspect ==
    /\ stage = "inspect"
    /\ LET i == Denotes(cmd.ref)
           names == {n \in Names : local[n] = i}
       IN  \/ /\ End("error")
              /\ UNCHANGED <<imageTags, tag>>
           \/ /\ i # 0
              /\ imageTags' = names
              /\ tag' \in GuessTag(cmd.ref, names)
              /\ GoTo("label")
    /\ UNCHANGED <<host, changes, source, built, refused, mishap>>

\* AddLabel and RemoveLabel inspect the image again.
ChangeLabels ==
    /\ stage = "label"
    /\ \/ /\ End("error")
          /\ UNCHANGED changes
       \/ /\ Denotes(cmd.ref) # 0
          /\ LET labels == image[Denotes(cmd.ref)].labels
             IN  IF cmd.clear
                 THEN cmd.keys \cap labels # {} /\ changes' = cmd.keys \cap labels
                 ELSE ~(cmd.keys \subseteq labels) /\ changes' = cmd.keys
          /\ GoTo("create")
    /\ UNCHANGED <<host, imageTags, tag, source, built, refused, mishap>>

\* ImageBuild.  When the container or the commit fails the process exits.
Create ==
    /\ stage = "create"
    /\ \/ /\ End("exit")
          /\ UNCHANGED <<source, container>>
       \/ /\ Denotes(cmd.ref) # 0
          /\ source' = Denotes(cmd.ref)
          /\ container' = TRUE
          /\ GoTo("commit")
    /\ UNCHANGED <<image, local, imageTags, tag, changes, built, refused, mishap>>

Labelled ==
    LET old == image[source].labels
    IN  [parent |-> source,
         labels |-> IF cmd.clear THEN old \ changes ELSE old \cup changes]

Commit ==
    /\ stage = "commit"
    /\ \/ /\ End("exit")
          /\ mishap' = TRUE
          /\ UNCHANGED <<image, local, built>>
       \/ /\ image' = Append(image, Labelled)
          /\ built' = Len(image')
          /\ local' = IF tag = None THEN local
                      ELSE [local EXCEPT ![tag[2]] = built']
          /\ GoTo("clean")
          /\ UNCHANGED mishap
    /\ UNCHANGED <<container, imageTags, tag, changes, source, refused>>

\* Mutant: the command ends and no result is given.
AfterRemoveSilent ==
    IF cmd.remote THEN GoTo("push") ELSE stage' = "end" /\ UNCHANGED <<login, outcome>>

\* What comes after the image is built and its old name is removed.
AfterRemove == IF cmd.remote THEN GoTo("push") ELSE End("success")

\* Mutant: the name is removed even if it is the labelled image's.
AfterBuildCareless ==
    IF cmd.override /\ cmd.ref \in {"name"} \X imageTags
    THEN GoTo("remove")
    ELSE AfterRemove

AfterBuild ==
    IF cmd.override /\ cmd.ref \in {"name"} \X imageTags /\ cmd.ref # tag
    THEN GoTo("remove")
    ELSE AfterRemove

\* Mutant: the container is left.
CleanForgotten ==
    /\ stage = "clean"
    /\ AfterBuild
    /\ UNCHANGED <<host, plan, refused, mishap>>

\* A container that cannot be removed is logged.
Clean ==
    /\ stage = "clean"
    /\ \/ container' = FALSE /\ UNCHANGED mishap
       \/ mishap' = TRUE /\ UNCHANGED container
    /\ AfterBuild
    /\ UNCHANGED <<image, local, plan, refused>>

Remove ==
    /\ stage = "remove"
    /\ \/ /\ End("error")
          /\ UNCHANGED local
       \/ /\ Denotes(cmd.ref) # 0
          /\ local' = [local EXCEPT ![cmd.ref[2]] = 0]
          /\ AfterRemove
    /\ UNCHANGED <<image, container, plan, refused, mishap>>

LabelStep ==
    /\ Pull \/ Inspect \/ ChangeLabels \/ Create \/ Commit \/ Clean \/ Remove
    /\ UNCHANGED <<remote, cmd, past, credentials, touched, counters>>

\* The last step of dim label.
Push ==
    /\ stage = "push" /\ login = "accepted"
    /\ LET n == tag[2]
       IN  \/ /\ End("error")
              /\ UNCHANGED <<remote, refused>>
           \/ /\ local[n] # 0 /\ credentials = "right"
              /\ remote' = [remote EXCEPT ![n] = local[n]]
              /\ End("success")
              /\ UNCHANGED refused
           \/ /\ local[n] # 0
              /\ StreamFails
              /\ End("success")
              /\ UNCHANGED remote
           \/ /\ local[n] # 0
              /\ \/ UNCHANGED remote
                 \/ credentials = "right" /\ remote' = [remote EXCEPT ![n] = local[n]]
              /\ StreamBreaks
              /\ UNCHANGED refused
    /\ UNCHANGED <<host, cmd, past, credentials, plan, touched, mishap, counters>>

------------------------------------------------------------------------------
(* dim delete.                                                              *)

\* A name is deleted.  The names may come one per line from a pipe: the next one
\* is deleted with the same flags and a client of its own.  An error ends the loop.
NextName ==
    \/ End("success") /\ UNCHANGED <<cmd, past, credentials>>
    \/ /\ Len(past) < MaxPiped
       /\ past' = Append(past, cmd.ref[2])
       /\ cmd' \in {c \in DeleteCommands : c.remote = cmd.remote}
       /\ credentials' \in IF cmd.remote THEN {"right", "wrong"} ELSE {"wrong"}
       /\ GoTo("delete")

\* Whether the image was removed from the host is not looked at.
DeleteLocal ==
    /\ stage = "delete"
    /\ \/ local' = [local EXCEPT ![cmd.ref[2]] = 0]
       \/ UNCHANGED local
    /\ IF cmd.remote
       THEN GoTo("unregister") /\ UNCHANGED <<cmd, past, credentials>>
       ELSE NextName
    /\ UNCHANGED <<image, container, remote, plan, history, counters>>

\* The registry deletes a manifest, with all the tags of the repository on it.
Manifest(n) == {m \in Names : m[1] = n[1] /\ remote[m] = remote[n]}

\* Mutant: an error of the registry is not returned.
UnregisterUnchecked ==
    /\ stage = "unregister" /\ login = "accepted"
    /\ \/ UNCHANGED remote
       \/ remote' = [m \in Names |-> IF m \in Manifest(cmd.ref[2]) THEN 0 ELSE remote[m]]
    /\ NextName
    /\ UNCHANGED <<host, plan, history, counters>>

Unregister ==
    /\ stage = "unregister" /\ login = "accepted"
    /\ LET n == cmd.ref[2]
       IN  \/ End("error") /\ UNCHANGED <<remote, cmd, past, credentials>>
           \/ /\ remote[n] # 0
              /\ remote' = [m \in Names |-> IF m \in Manifest(n) THEN 0 ELSE remote[m]]
              /\ NextName
    /\ UNCHANGED <<host, plan, history, counters>>

------------------------------------------------------------------------------
(* dim show and dim hooktest.                                               *)

\* The image is inspected.  AsIndexImage takes its first name and panics when it
\* has none; dim show prints an image without names.
Read ==
    /\ stage = "read"
    /\ LET i == Denotes(cmd.ref)
       IN  \/ End("error")
           \/ /\ i # 0
              /\ End(IF cmd.kind = "hooktest" /\ \A n \in Names : local[n] # i
                     THEN "panic" ELSE "success")
    /\ UNCHANGED <<host, remote, cmd, past, credentials, plan, history, counters>>

\* The image is read in the registry.  A hook that fails is only reported.
Fetch ==
    /\ stage = "fetch" /\ login = "accepted"
    /\ \/ End("error")
       \/ remote[cmd.ref[2]] # 0 /\ End("success")
    /\ UNCHANGED <<host, remote, cmd, past, credentials, plan, history, counters>>

------------------------------------------------------------------------------
(* Other clients push labelled images to the registry and pull to the host. *)

Outside ==
    /\ outside < MaxOutside
    /\ outside' = outside + 1
    /\ \E n \in Names :
       /\ touched' = IF stage = "idle" THEN {} ELSE touched \cup {n}
       /\ \/ /\ image' = Append(image, [parent |-> 0, labels |-> Keys])
             /\ remote' = [remote EXCEPT ![n] = Len(image')]
             /\ UNCHANGED local
          \/ /\ remote[n] # 0 /\ local[n] # remote[n]
             /\ local' = [local EXCEPT ![n] = remote[n]]
             /\ UNCHANGED <<image, remote>>
    /\ UNCHANGED <<container, cmd, past, stage, login, credentials, plan, outcome,
                   refused, mishap, commands>>

------------------------------------------------------------------------------
CommandStep ==
    LoginStep \/ LabelStep \/ Push \/ DeleteLocal \/ Unregister \/ Read \/ Fetch

Next == Start \/ Exit \/ CommandStep \/ Outside

Spec == Init /\ [][Next]_vars

\* A command goes on, and its user does not mistype the credentials for ever.
FairSpec ==
    /\ Spec
    /\ WF_vars(CommandStep)
    /\ SF_vars(LoginStep /\ login = "prompt" /\ credentials' = "right")

------------------------------------------------------------------------------
(* Properties.                                                              *)

\* dim label takes a name from an image only when some name goes to an image
\* built on it, if other clients leave the names of the command alone.  Excepted
\* are a name the user gives to the new image with --tag, and a --tag that is the
\* short form of the image's own name (see OverrideKeepsImage).  (guessTag, and
\* the removal in cmd/label.go 72-78 that compares three names.)
HasHeir(i) == \E n \in Names : local'[n] # 0 /\ i \in Lineage(local[n])'
NamesPassOn ==
    stage \in {"commit", "remove"} /\ stage' # stage =>
        \A n \in Names :
            \/ local[n] \in {0, local'[n]}
            \/ \E m \in touched : m = n \/ Named(cmd.ref, m) \/ Named(tag, m)
            \/ stage = "commit" /\ Named(cmd.t, n)
            \/ cmd.t = <<"short", n>>
            \/ HasHeir(local[n])
NothingLost == [][NamesPassOn]_vars

\* dim label pushes the image it built, under its tag and no other; and after a
\* pull that really succeeded, the image it replaces in the registry is one the
\* new image is built on, if the tag is the name pulled: no newer image is
\* overwritten.  (The order of the steps in cmd/label.go 48-84.)
PushIsRight ==
    stage = "push" /\ stage' # stage /\ remote' # remote =>
        /\ \A n \in Names : remote'[n] # remote[n] =>
               n = tag[2] /\ (n \in touched \/ remote'[n] = built)
        /\ cmd.pull /\ ~refused /\ Named(cmd.ref, tag[2]) /\ tag[2] \notin touched =>
               remote[tag[2]] \in Lineage(built)
PushesWhatItBuilt == [][PushIsRight]_vars

\* A temporary container stays only when its commit or its removal failed
\* (ImageBuild of wrapper/dockerClient/dockerClient.go).
ContainersRemoved == stage = "end" /\ container => mishap

\* A remote delete goes on to its next name, or succeeds, only when the registry has
\* nothing under the names before: none of those it has passed by comes back or was
\* never deleted, however the logins went.  Names that other clients changed are
\* excepted.  (runDelete and doDelete of cmd/delete.go 49-84.)
Deleted ==
    {past[k] : k \in DOMAIN past}
        \cup (IF stage = "end" /\ outcome = "success" THEN {cmd.ref[2]} ELSE {})
DeletedIsGone ==
    stage # "idle" /\ cmd.kind = "delete" /\ cmd.remote =>
        \A n \in Deleted \ touched : remote[n] = 0


\* A label command with --override that succeeds leaves the labelled image under
\* a name: the flag promises to "delete the original image locally only".  The
\* names are compared as they are written (cmd/label.go 73), and app and
\* app:latest are the same name.
OverrideKeepsImage ==
    stage = "end" /\ cmd.kind = "label" /\ cmd.override /\ outcome = "success"
        /\ touched = {}
    => \E n \in Names : local[n] = built

==============================================================================
