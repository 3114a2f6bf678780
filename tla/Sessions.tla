------------------------------- MODULE Sessions -------------------------------
(***************************************************************************)
(* internal/auth with the handlers of /api/auth in internal/server: the     *)
(* password in the store, the sessions in memory.  A handler runs in the    *)
(* steps between which others may run.  A token is a fresh random value;    *)
(* the hash of a password is abstracted to the password.                    *)
(***************************************************************************)
EXTENDS Naturals, FiniteSets

CONSTANTS Handlers,     \* requests to /api/auth in progress at a time
          Passwords,    \* passwords that are long enough
          NoPassword,
          Tokens        \* bound: sessions issued in all

ASSUME SessionsAssumption == NoPassword \notin Passwords

VARIABLES disabled,     \* cfg.Auth.Disabled
          password,     \* State.Auth in the store
          sessions,     \* Manager.sessions: whether a token is known, and has expired
          request,      \* what each handler does; for the properties, the
                        \* password it has shown (none, in a setup), and
                        \* whether another one wrote the password since
          issued,       \* tokens handed out, for freshness and the properties
          ended         \* tokens that expired or were logged out

auth == <<disabled, password, sessions, request, issued, ended>>

Idle == [at |-> "idle"]
SessionsInit ==
    /\ password = NoPassword
    /\ sessions = [t \in Tokens |-> "none"]
    /\ request = [h \in Handlers |-> Idle]
    /\ issued = {} /\ ended = {}

SetupRequired == ~disabled /\ password = NoPassword
CheckPassword(p) == p = password

\* Authenticated, and withAuth, which lets a request pass.
Authenticated(t) == disabled \/ sessions[t] = "live"

Now(h, r) == request' = [request EXCEPT ![h] = r]

\* The handler h writes the password, which the others have not seen.
SetPassword(h, p, r) ==
    /\ password' = p
    /\ request' = [g \in Handlers |->
                      IF g = h THEN r
                      ELSE IF request[g].at \in {"idle", "login"} THEN request[g]
                      ELSE [request[g] EXCEPT !.stale = TRUE]]

\* Mutant: a setup does not ask whether there is a password.
SetupChecksNothing(h) ==
    /\ request[h] = Idle
    /\ \E p \in Passwords :
        Now(h, [at |-> "setup", shown |-> NoPassword, new |-> p, stale |-> FALSE])
    /\ UNCHANGED <<disabled, password, sessions, issued, ended>>
\* POST /api/auth/setup up to the check that no password is set.
SetupChecks(h) ==
    /\ request[h] = Idle /\ SetupRequired
    /\ \E p \in Passwords :
        Now(h, [at |-> "setup", shown |-> NoPassword, new |-> p, stale |-> FALSE])
    /\ UNCHANGED <<disabled, password, sessions, issued, ended>>

\* SetPassword; the request then goes on to the login.
SetupSets(h) ==
    /\ request[h].at = "setup"
    /\ LET new == request[h].new
       IN  SetPassword(h, new, [at |-> "first login", shown |-> new, stale |-> FALSE])
    /\ UNCHANGED <<disabled, sessions, issued, ended>>

\* POST /api/auth/login; without a password it answers 409.
LoginAsked(h) ==
    /\ request[h] = Idle /\ ~SetupRequired
    /\ \E p \in Passwords : Now(h, [at |-> "login", shown |-> p])
    /\ UNCHANGED <<disabled, password, sessions, issued, ended>>

\* Login up to the verdict on the password.
LoginChecks(h) ==
    /\ request[h].at \in {"login", "first login"}
    /\ IF CheckPassword(request[h].shown)
       THEN Now(h, [at |-> IF request[h].at = "login" THEN "issue" ELSE "first issue",
                    shown |-> request[h].shown, stale |-> FALSE])
       ELSE Now(h, Idle)
    /\ UNCHANGED <<disabled, password, sessions, issued, ended>>

\* A fresh token; expired ones are pruned.
Issue(h) ==
    \E t \in Tokens \ issued :
        /\ sessions' = [u \in Tokens |-> IF u = t THEN "live"
                                         ELSE IF sessions[u] = "expired" THEN "none" ELSE sessions[u]]
        /\ issued' = issued \union {t}
LoginIssues(h) ==
    /\ request[h].at = "issue"
    /\ Issue(h)
    /\ Now(h, Idle)
    /\ UNCHANGED <<disabled, password, ended>>
\* The first login ends the setup, which is then announced.
SetupEnds(h) ==
    /\ request[h].at = "first issue"
    /\ Issue(h)
    /\ Now(h, Idle)
    /\ UNCHANGED <<disabled, password, ended>>

\* POST /api/auth/password: the current one is checked, then the new one is set.
ChangeChecks(h) ==
    /\ request[h] = Idle
    /\ \E t \in Tokens : Authenticated(t)
    /\ \E current, p \in Passwords :
        /\ CheckPassword(current)
        /\ Now(h, [at |-> "change", shown |-> current, new |-> p, stale |-> FALSE])
    /\ UNCHANGED <<disabled, password, sessions, issued, ended>>
ChangeSets(h) ==
    /\ request[h].at = "change"
    /\ SetPassword(h, request[h].new, Idle)
    /\ UNCHANGED <<disabled, sessions, issued, ended>>

Logout(t) ==
    /\ Authenticated(t) /\ t \in issued
    /\ sessions' = [sessions EXCEPT ![t] = "none"]
    /\ ended' = ended \union {t}
    /\ UNCHANGED <<disabled, password, request, issued>>

\* Seven days pass.
Expire(t) ==
    /\ sessions[t] = "live"
    /\ sessions' = [sessions EXCEPT ![t] = "expired"]
    /\ ended' = ended \union {t}
    /\ UNCHANGED <<disabled, password, request, issued>>

\* Authenticated forgets an expired token when it comes.
Forget(t) ==
    /\ sessions[t] = "expired"
    /\ sessions' = [sessions EXCEPT ![t] = "none"]
    /\ UNCHANGED <<disabled, password, request, issued, ended>>

\* A restart of the daemon: the sessions were in memory only.
ForgetSessions ==
    /\ sessions' = [t \in Tokens |-> "none"]
    /\ ended' = ended \union issued
    /\ request' = [h \in Handlers |-> Idle]
    /\ UNCHANGED <<disabled, password, issued>>

-----------------------------------------------------------------------------
(* Properties                                                               *)

\* A token that was never handed out, has expired, was logged out, or dates
\* from before a restart opens nothing, whatever requests run meanwhile.
NoGhostSession ==
    \A t \in Tokens : ~disabled /\ Authenticated(t) => t \in issued \ ended

\* The password is written, and a session issued, only for a request that has shown
\* the password in force, or has seen that there is none (server.go:139, 162, 185,
\* auth.go:117): whatever requests overlap, only another write that came in between
\* its check and its step can make that false.
PasswordShown ==
    \A h \in Handlers :
        request[h].at \notin {"idle", "login"} /\ ~request[h].stale
            => password = request[h].shown

\* The way in: a live session, the password, or the first setup.
AuthSound == NoGhostSession /\ PasswordShown
=============================================================================
