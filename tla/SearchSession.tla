----------------------------- MODULE SearchSession -----------------------------
(****************************************************************************)
(* A whole run of "dim search": it logs in to the registry (tryNew of       *)
(* lib/registry/registry.go) and then fetches and prints its pages, the     *)
(* steps of SearchPages.  All its requests go through dim's access control  *)
(* (server/middleware.go); a request for the registry is then forwarded     *)
(* (server/proxy.go), and the registry judges the credentials it arrives    *)
(* with.                                                                    *)
(****************************************************************************)
EXTENDS SearchPages

CONSTANTS
    Credentials,    \* a name and a password each
    NoCredentials,  \* a request without any
    Site            \* for each combination of flags, the server it is used on: the
                    \* rules of its access control, in order; the credentials dim
                    \* forwards with, if any; those the registry accepts

\* The two requests of dim search: GET /v2/_catalog and POST /v1/search.
Requests == {"catalog", "search"}

\* A rule applies to the requests its path and its method match.  Without a list
\* of users it lets everyone in.
Rules == [requests : SUBSET Requests, everyone : BOOLEAN, users : SUBSET Credentials]

ASSUME SiteAssumption ==
    /\ NoCredentials \notin Credentials
    /\ \A o \in Options :
          /\ Site[o].rules \in Seq(Rules)
          /\ Site[o].proxy \in Credentials \cup {NoCredentials}
          /\ Site[o].accepted \subseteq Credentials \cup {NoCredentials}

VARIABLES
    login,          \* "connect", "prompt" or "done"
    credentials     \* what the transport of the client sends

session == <<login, credentials>>
sessionVars == <<vars, session>>

SessionTypeOK ==
    /\ TypeOK
    /\ login \in {"connect", "prompt", "done"}
    /\ credentials \in Credentials \cup {NoCredentials}
    /\ login # "done" => pc \in {"search", "failed"} /\ rows = <<>>

\* The flags, or the configuration, may give credentials.
SessionInit ==
    /\ Init
    /\ login = "connect"
    /\ credentials \in Credentials \cup {NoCredentials}

------------------------------------------------------------------------------
(* The server.                                                              *)

\* The places of the rules that apply to a request.
Applying(request) ==
    {k \in DOMAIN Site[options].rules : request \in Site[options].rules[k].requests}

\* Mutant: the last rule that applies is taken.
GetLastAuthorization(request) == Site[options].rules[Max(Applying(request))]

\* The first one is taken.
GetAuthorization(request) == Site[options].rules[Min(Applying(request))]

GrantAccess(auth) == auth.everyone \/ credentials \in auth.users

\* A request to which no rule applies is let through.
Granted(request) ==
    Applying(request) # {} => GrantAccess(GetAuthorization(request))

\* Forwards replaces the credentials of the request by dim's own.
Forwarded == IF Site[options].proxy # NoCredentials THEN Site[options].proxy
             ELSE credentials

------------------------------------------------------------------------------
(* The login of the command.                                                *)

Accepted == Granted("catalog") /\ Forwarded \in Site[options].accepted

\* Mutant: the transport keeps the credentials it was made with.
PromptKeepsOld ==
    /\ login = "prompt"
    /\ login' = "connect"
    /\ UNCHANGED <<vars, credentials>>

\* The catalog is asked for.
Accept ==
    /\ login = "connect" /\ pc = "search"
    /\ Accepted
    /\ login' = "done"
    /\ UNCHANGED <<vars, credentials>>

\* A 401 of dim or of the registry, or an answer that cannot be read.
Reject ==
    /\ login = "connect" /\ pc = "search"
    /\ ~Accepted \/ QueryMayFail
    /\ login' = "prompt"
    /\ UNCHANGED <<vars, credentials>>

\* No answer, or an answer of another status: the command gives up.
ConnectFails ==
    /\ QueryMayFail
    /\ login = "connect" /\ pc = "search"
    /\ pc' = "failed"
    /\ UNCHANGED <<index, rank, options, total, fetched, server, printer, history, session>>

\* ReadCredentials: what the user leaves empty stays as it was.
Prompt ==
    /\ login = "prompt"
    /\ credentials' \in Credentials \cup {credentials}
    /\ login' = "connect"
    /\ UNCHANGED vars

LoginStep == Accept \/ Reject \/ Prompt

------------------------------------------------------------------------------
(* The search.                                                              *)

PagesStep ==
    /\ login = "done"
    /\ pc = "search" => Granted("search")
    /\ SearchStep
    /\ UNCHANGED session

\* dim refuses the search: the command does not ask for other credentials.
Refuse ==
    /\ login = "done" /\ pc = "search"
    /\ ~Granted("search")
    /\ pc' = "failed"
    /\ UNCHANGED <<index, rank, options, total, fetched, server, printer, history, session>>

\* What happens to the index during the login is in SessionInit.
Outside ==
    /\ login = "done"
    /\ Disturbance
    /\ UNCHANGED session

SessionNext ==
    \/ LoginStep \/ ConnectFails
    \/ PagesStep \/ Refuse \/ Outside
    \/ Ended /\ UNCHANGED sessionVars

SessionSpec == SessionInit /\ [][SessionNext]_sessionVars

\* The user tries any credentials in the end; the registry does not answer right
\* ones with nonsense for ever.  Nothing is assumed of the Enter key, of the
\* failures and of the index.
SessionFairSpec ==
    /\ SessionSpec
    /\ WF_sessionVars(LoginStep)
    /\ \A c \in Credentials : SF_sessionVars(Prompt /\ credentials' = c)
    /\ SF_sessionVars(Accept)
    /\ WF_sessionVars(~(pc = "print" /\ Waits) /\ PagesStep)
    /\ WF_sessionVars(Refuse)

------------------------------------------------------------------------------
(* Properties                                                               *)

\* A page is only sent to credentials that the first rule for searches lists, on
\* a site whose registry accepted the request they came with: securityFilter,
\* Forwards and the loop of tryNew together.
SearchIsGranted ==
    pc = "search" /\ pc' = "details" =>
        /\ \E sent \in {credentials, Site[options].proxy} : sent \in Site[options].accepted
        /\ \A k \in DOMAIN Site[options].rules :
              LET rule == Site[options].rules[k]
              IN  \/ "search" \notin rule.requests
                  \/ rule.everyone \/ credentials \in rule.users
                  \/ \E j \in 1 .. k - 1 : "search" \in Site[options].rules[j].requests
SearchesAreGranted == [][SearchIsGranted]_sessionVars
==============================================================================
