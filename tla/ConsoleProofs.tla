----------------------------- MODULE ConsoleProofs -----------------------------
(***************************************************************************)
(* What the sessions, the setup, the feed and its broadcasts, the alerts    *)
(* for block candidates, and the monitor with its ring and its alerts keep, *)
(* for any number of clients, handlers, tokens, keys and samples.           *)
(***************************************************************************)
EXTENDS Console, SequenceTheorems, TLAPS

-----------------------------------------------------------------------------
(* The steps that touch the sessions *)

AuthStep ==
    \/ UNCHANGED auth
    \/ ForgetSessions
    \/ \E h \in Handlers :
        \/ SetupChecks(h) \/ SetupSets(h) \/ LoginAsked(h) \/ LoginChecks(h)
        \/ LoginIssues(h) \/ SetupEnds(h) \/ ChangeChecks(h) \/ ChangeSets(h)
    \/ \E t \in Tokens : Logout(t) \/ Expire(t) \/ Forget(t)

LEMMA OnlyAuthSteps == ASSUME [Next]_vars PROVE AuthStep
<1>1. CASE Loop
  BY <1>1 DEF Loop, Tick, LoopSums, LoopRest, LoopSends, Answer, Enter, AuthStep
<1>2. CASE NodeLoop \/ AsksPeers \/ NodeChanges \/ Monitors
  BY <1>2 DEF NodeLoop, AsksPeers, NodeChanges, Monitors, AuthStep
<1>3. CASE Requests
  BY <1>3 DEF Requests, AuthStep
<1>4. CASE Share \/ Remove \/ AddMiner
  BY <1>4 DEF Share, Remove, AddMiner, AuthStep
<1>5. CASE Restart
  BY <1>5 DEF Restart, AuthStep
<1>6. CASE \E h \in Handlers : SetupAnnounced(h)
  BY <1>6 DEF SetupAnnounced, AuthStep
<1>7. CASE \E a \in Adders : Notifies(a)
  BY <1>7 DEF Notifies, AuthStep
<1>8. ASSUME NEW c \in Clients,
             Connect(c) \/ FirstSums(c) \/ FirstWrites(c) \/ Read(c) \/ Disconnect(c)
      PROVE  AuthStep
  BY <1>8 DEF Connect, FirstSums, FirstWrites, Read, Disconnect, AuthStep
<1>9. CASE UNCHANGED vars
  BY <1>9 DEF vars, AuthStep
<1>10. QED
  BY <1>1, <1>2, <1>3, <1>4, <1>5, <1>6, <1>7, <1>8, <1>9 DEF Next

-----------------------------------------------------------------------------
(* No ghost sessions *)

\* A token that is known and not expired was handed out and has not ended.
SessionInv ==
    /\ sessions \in [Tokens -> {"none", "live", "expired"}]
    /\ ended \subseteq issued
    /\ \A t \in Tokens : sessions[t] = "live" => t \in issued \ ended

LEMMA IssueKeeps ==
    ASSUME SessionInv, NEW h \in Handlers, Issue(h), UNCHANGED ended
    PROVE  SessionInv'
<1>1. PICK t \in Tokens \ issued :
        /\ sessions' = [u \in Tokens |-> IF u = t THEN "live"
                                         ELSE IF sessions[u] = "expired" THEN "none" ELSE sessions[u]]
        /\ issued' = issued \union {t}
  BY DEF Issue
<1>2. sessions' \in [Tokens -> {"none", "live", "expired"}]
  BY <1>1 DEF SessionInv
<1>3. ASSUME NEW u \in Tokens, sessions'[u] = "live" PROVE u \in issued' \ ended'
  BY <1>1, <1>3 DEF SessionInv
<1>4. QED
  BY <1>1, <1>2, <1>3 DEF SessionInv

LEMMA SessionStep == ASSUME SessionInv, AuthStep PROVE SessionInv'
<1>1. CASE UNCHANGED auth
  BY <1>1 DEF SessionInv, auth
<1>2. CASE ForgetSessions
  BY <1>2 DEF SessionInv, ForgetSessions
<1>3. ASSUME NEW h \in Handlers, SetupChecks(h) \/ SetupSets(h) \/ LoginAsked(h)
                 \/ LoginChecks(h) \/ ChangeChecks(h) \/ ChangeSets(h)
      PROVE  SessionInv'
  BY <1>3 DEF SessionInv, SetupChecks, SetupSets, LoginAsked, LoginChecks, ChangeChecks, ChangeSets,
              SetPassword
<1>4. ASSUME NEW h \in Handlers, LoginIssues(h) \/ SetupEnds(h) PROVE SessionInv'
  BY <1>4, IssueKeeps DEF LoginIssues, SetupEnds
<1>5. ASSUME NEW t \in Tokens, Logout(t) \/ Expire(t) \/ Forget(t) PROVE SessionInv'
  <2>1. sessions' \in [Tokens -> {"none", "live", "expired"}]
    BY <1>5 DEF SessionInv, Logout, Expire, Forget
  <2>2. issued' = issued /\ ended' \subseteq issued
    BY <1>5 DEF SessionInv, Logout, Expire, Forget
  <2>3. ASSUME NEW u \in Tokens, sessions'[u] = "live" PROVE u \in issued' \ ended'
    BY <1>5, <2>3 DEF SessionInv, Logout, Expire, Forget
  <2>4. QED
    BY <2>1, <2>2, <2>3 DEF SessionInv
<1>6. QED
  BY <1>1, <1>2, <1>3, <1>4, <1>5 DEF AuthStep

\* Only tokens that were handed out and have neither expired nor been logged out,
\* nor date from before a restart, open anything, for any number of requests.
THEOREM NoGhosts == Spec => []NoGhostSession
<1>1. Init => SessionInv
  BY DEF Init, SessionsInit, SessionInv
<1>2. SessionInv /\ [Next]_vars => SessionInv'
  BY OnlyAuthSteps, SessionStep
<1>3. SessionInv => NoGhostSession
  BY DEF SessionInv, NoGhostSession, Authenticated
<1>4. QED
  BY <1>1, <1>2, <1>3, PTL DEF Spec

-----------------------------------------------------------------------------
(* Passwords shown *)

RequestStates ==
    {Idle}
    \union [at : {"login"}, shown : Passwords]
    \union [at : {"first login", "issue", "first issue"}, shown : Passwords, stale : BOOLEAN]
    \union [at : {"setup", "change"}, shown : Passwords \union {NoPassword}, new : Passwords,
            stale : BOOLEAN]

\* A request past its check either holds the password in force or was overtaken.
Shown(r, p) == r.at \notin {"idle", "login"} /\ ~r.stale => p = r.shown

ShownInv ==
    /\ request \in [Handlers -> RequestStates]
    /\ \A h \in Handlers : Shown(request[h], password)

LEMMA SetupRequest ==
    ASSUME NEW r \in RequestStates, r.at = "setup" PROVE r.new \in Passwords
<1>1. r \notin [at : {"first login", "issue", "first issue"}, shown : Passwords, stale : BOOLEAN]
  OBVIOUS
<1>2. r \notin [at : {"login"}, shown : Passwords] /\ r # Idle
  BY DEF Idle
<1>3. r \in [at : {"setup", "change"}, shown : Passwords \union {NoPassword},
             new : Passwords, stale : BOOLEAN]
  BY <1>1, <1>2 DEF RequestStates
<1>4. QED
  BY <1>3

LEMMA LoginRequest ==
    ASSUME NEW r \in RequestStates, r.at \in {"login", "first login"} PROVE r.shown \in Passwords
<1>1. r \notin [at : {"setup", "change"}, shown : Passwords \union {NoPassword},
                new : Passwords, stale : BOOLEAN]
  OBVIOUS
<1>2. r # Idle
  <2>1. Idle.at = "idle"
    BY DEF Idle
  <2>2. QED
    BY <2>1
<1>3. CASE r \in [at : {"login"}, shown : Passwords]
  BY <1>3
<1>4. CASE r \in [at : {"first login", "issue", "first issue"}, shown : Passwords, stale : BOOLEAN]
  BY <1>4
<1>5. QED
  BY <1>1, <1>2, <1>3, <1>4 DEF RequestStates

\* A request that goes on, the password being as it was.
LEMMA GoesOn ==
    ASSUME ShownInv, NEW h \in Handlers, NEW r \in RequestStates, Now(h, r),
           UNCHANGED password, Shown(r, password)
    PROVE  ShownInv'
<1>1. request' \in [Handlers -> RequestStates]
  BY DEF ShownInv, Now
<1>2. \A g \in Handlers : request'[g] = IF g = h THEN r ELSE request[g]
  BY DEF ShownInv, Now
<1>3. \A g \in Handlers : Shown(request'[g], password')
  BY <1>2 DEF ShownInv
<1>4. QED
  BY <1>1, <1>3 DEF ShownInv

\* An overtaken request is still one.
LEMMA Overtaken ==
    ASSUME NEW r \in RequestStates, r.at \notin {"idle", "login"}
    PROVE  /\ [r EXCEPT !.stale = TRUE] \in RequestStates
           /\ [r EXCEPT !.stale = TRUE].stale
<1>1. CASE r \in [at : {"first login", "issue", "first issue"}, shown : Passwords, stale : BOOLEAN]
  <2>1. [r EXCEPT !.stale = TRUE]
            \in [at : {"first login", "issue", "first issue"}, shown : Passwords, stale : BOOLEAN]
    BY <1>1
  <2>2. [r EXCEPT !.stale = TRUE].stale
    BY <1>1
  <2>3. QED
    BY <2>1, <2>2 DEF RequestStates
<1>2. CASE r \in [at : {"setup", "change"}, shown : Passwords \union {NoPassword},
                  new : Passwords, stale : BOOLEAN]
  <2>1. [r EXCEPT !.stale = TRUE]
            \in [at : {"setup", "change"}, shown : Passwords \union {NoPassword},
                 new : Passwords, stale : BOOLEAN]
    BY <1>2
  <2>2. [r EXCEPT !.stale = TRUE].stale
    BY <1>2
  <2>3. QED
    BY <2>1, <2>2 DEF RequestStates
<1>3. r # Idle /\ r \notin [at : {"login"}, shown : Passwords]
  BY DEF Idle
<1>4. QED
  BY <1>1, <1>2, <1>3 DEF RequestStates

\* A write overtakes all the others.
LEMMA SetKeeps ==
    ASSUME ShownInv, NEW h \in Handlers, NEW p, NEW r \in RequestStates, SetPassword(h, p, r),
           Shown(r, p)
    PROVE  ShownInv'
<1>1. \A g \in Handlers : request[g] \in RequestStates
  BY DEF ShownInv
<1>2. \A g \in Handlers :
        request'[g] = IF g = h THEN r
                      ELSE IF request[g].at \in {"idle", "login"} THEN request[g]
                      ELSE [request[g] EXCEPT !.stale = TRUE]
  BY DEF SetPassword
<1>3. ASSUME NEW g \in Handlers PROVE request'[g] \in RequestStates /\ Shown(request'[g], p)
  <2>1. CASE g = h
    BY <1>2, <2>1
  <2>2. CASE g # h /\ request[g].at \in {"idle", "login"}
    <3>1. request'[g] = request[g]
      BY <1>2, <2>2
    <3>2. QED
      BY <1>1, <2>2, <3>1 DEF Shown
  <2>3. CASE g # h /\ request[g].at \notin {"idle", "login"}
    <3>1. request'[g] = [request[g] EXCEPT !.stale = TRUE]
      BY <1>2, <2>3
    <3>2. [request[g] EXCEPT !.stale = TRUE] \in RequestStates
          /\ [request[g] EXCEPT !.stale = TRUE].stale
      BY <1>1, <2>3, Overtaken
    <3>3. QED
      BY <3>1, <3>2 DEF Shown
  <2>4. QED
    BY <2>1, <2>2, <2>3
<1>4. request' \in [Handlers -> RequestStates]
  <2>1. request' = [g \in Handlers |-> request'[g]]
    BY DEF SetPassword
  <2>2. QED
    BY <1>3, <2>1
<1>5. password' = p
  BY DEF SetPassword
<1>6. QED
  BY <1>3, <1>4, <1>5 DEF ShownInv

LEMMA IdleShown == Idle \in RequestStates /\ \A p : Shown(Idle, p)
BY DEF Idle, RequestStates, Shown

LEMMA ShownStep == ASSUME ShownInv, AuthStep PROVE ShownInv'
<1>1. CASE UNCHANGED auth
  BY <1>1 DEF ShownInv, auth
<1>2. CASE ForgetSessions
  <2>1. request' = [h \in Handlers |-> Idle]
    BY <1>2 DEF ForgetSessions
  <2>2. request' \in [Handlers -> RequestStates]
    BY <2>1, IdleShown
  <2>3. \A h \in Handlers : request'[h] = Idle
    BY <2>1
  <2>4. QED
    BY <2>2, <2>3, IdleShown DEF ShownInv
<1>3. ASSUME NEW h \in Handlers, SetupChecks(h) PROVE ShownInv'
  <2>1. PICK p \in Passwords :
          Now(h, [at |-> "setup", shown |-> NoPassword, new |-> p, stale |-> FALSE])
    BY <1>3 DEF SetupChecks
  <2> DEFINE r == [at |-> "setup", shown |-> NoPassword, new |-> p, stale |-> FALSE]
  <2>2. password' = password /\ password = NoPassword
    BY <1>3 DEF SetupChecks, SetupRequired
  <2>3. r \in RequestStates /\ Shown(r, password)
    BY <2>2 DEF RequestStates, Shown
  <2> HIDE DEF r
  <2>4. QED
    BY <2>1, <2>2, <2>3, GoesOn DEF r
<1>4. ASSUME NEW h \in Handlers, SetupSets(h) PROVE ShownInv'
  <2> DEFINE new == request[h].new
             r == [at |-> "first login", shown |-> new, stale |-> FALSE]
  <2>1. request[h] \in RequestStates /\ request[h].at = "setup"
    BY <1>4 DEF ShownInv, SetupSets
  <2>2. new \in Passwords
    BY <2>1, SetupRequest
  <2>3. r \in RequestStates /\ Shown(r, new)
    BY <2>2 DEF RequestStates, Shown
  <2>4. SetPassword(h, new, r)
    BY <1>4 DEF SetupSets
  <2> HIDE DEF r, new
  <2>5. QED
    BY <2>3, <2>4, SetKeeps
<1>5. ASSUME NEW h \in Handlers, LoginAsked(h) PROVE ShownInv'
  <2>1. PICK p \in Passwords : Now(h, [at |-> "login", shown |-> p])
    BY <1>5 DEF LoginAsked
  <2>2. [at |-> "login", shown |-> p] \in RequestStates
    BY DEF RequestStates
  <2>3. Shown([at |-> "login", shown |-> p], password) /\ password' = password
    BY <1>5 DEF Shown, LoginAsked
  <2>4. QED
    BY <2>1, <2>2, <2>3, GoesOn
<1>6. ASSUME NEW h \in Handlers, LoginChecks(h) PROVE ShownInv'
  <2> DEFINE at == IF request[h].at = "login" THEN "issue" ELSE "first issue"
             r == [at |-> at, shown |-> request[h].shown, stale |-> FALSE]
  <2>1. request[h] \in RequestStates /\ request[h].at \in {"login", "first login"}
    BY <1>6 DEF ShownInv, LoginChecks
  <2>2. password' = password
    BY <1>6 DEF LoginChecks
  <2>3. CASE request[h].shown = password
    <3>1. request[h].shown \in Passwords
      BY <2>1, LoginRequest
    <3>2. r \in RequestStates /\ Shown(r, password)
      BY <2>3, <3>1 DEF RequestStates, Shown
    <3>3. Now(h, r)
      BY <1>6, <2>3 DEF LoginChecks, CheckPassword
    <3> HIDE DEF r
    <3>4. QED
      BY <2>2, <3>2, <3>3, GoesOn
  <2>4. CASE request[h].shown # password
    <3>1. Now(h, Idle)
      BY <1>6, <2>4 DEF LoginChecks, CheckPassword
    <3>2. QED
      BY <2>2, <3>1, GoesOn, IdleShown
  <2>5. QED
    BY <2>3, <2>4
<1>7. ASSUME NEW h \in Handlers, LoginIssues(h) \/ SetupEnds(h) PROVE ShownInv'
  BY <1>7, GoesOn, IdleShown DEF LoginIssues, SetupEnds
<1>8. ASSUME NEW h \in Handlers, ChangeChecks(h) PROVE ShownInv'
  <2>1. PICK current \in Passwords, p \in Passwords :
          /\ CheckPassword(current)
          /\ Now(h, [at |-> "change", shown |-> current, new |-> p, stale |-> FALSE])
    BY <1>8 DEF ChangeChecks
  <2> DEFINE r == [at |-> "change", shown |-> current, new |-> p, stale |-> FALSE]
  <2>2. password' = password /\ password = current
    BY <1>8, <2>1 DEF ChangeChecks, CheckPassword
  <2>3. r \in RequestStates /\ Shown(r, password)
    BY <2>2 DEF RequestStates, Shown
  <2> HIDE DEF r
  <2>4. QED
    BY <2>1, <2>2, <2>3, GoesOn DEF r
<1>9. ASSUME NEW h \in Handlers, ChangeSets(h) PROVE ShownInv'
  BY <1>9, SetKeeps, IdleShown DEF ChangeSets
<1>10. ASSUME NEW t \in Tokens, Logout(t) \/ Expire(t) \/ Forget(t) PROVE ShownInv'
  BY <1>10 DEF ShownInv, Logout, Expire, Forget
<1>11. QED
  BY <1>1, <1>2, <1>3, <1>4, <1>5, <1>6, <1>7, <1>8, <1>9, <1>10 DEF AuthStep

\* Whatever requests overlap, the password is written and a session issued only for
\* one that has shown the password in force, or seen that there is none, unless
\* another write came in between.
THEOREM ShownFirst == Spec => []PasswordShown
<1>1. Init => ShownInv
  BY IdleShown DEF Init, SessionsInit, ShownInv
<1>2. ShownInv /\ [Next]_vars => ShownInv'
  BY OnlyAuthSteps, ShownStep
<1>3. ShownInv => PasswordShown
  BY DEF ShownInv, Shown, PasswordShown
<1>4. QED
  BY <1>1, <1>2, <1>3, PTL DEF Spec

\* Every way in is guarded, for any number of requests at a time.
THEOREM AuthHolds == Spec => []AuthSound
<1>1. NoGhostSession /\ PasswordShown => AuthSound
  BY DEF AuthSound
<1> QED
  BY <1>1, NoGhosts, ShownFirst, PTL

-----------------------------------------------------------------------------
(* The feed and the block candidates *)

Alerts ==
    [id : Nat, typ : {"block"}, diff : Nat, stay : Nat]
    \union [id : Nat, typ : {"system"}, key : Nat, at : Nat]
    \union [id : Nat, typ : {"setup"}]

FeedTypes ==
    /\ items \in Seq(Alerts) /\ raised \in Seq(Alerts)
    /\ monitor \in Nat /\ sampled \in Seq(Readings)
    /\ best \in Nat /\ stays \in Nat /\ bestDiffSeen \in Nat /\ registered \in BOOLEAN
    /\ poll = [p \in Pollers |-> poll[p]]
    /\ \A p \in Pollers : poll[p].at = "answered" => poll[p].best \in Nat

\* The record that pollOne compares with covers what was announced since the
\* miner was last added.
Recorded ==
    \A i \in 1 .. Len(raised) : raised[i].typ = "block" =>
        /\ raised[i].stay <= stays
        /\ registered /\ raised[i].stay = stays => raised[i].diff <= bestDiffSeen

FeedInv == FeedTypes /\ FeedKeepsNewest /\ Recorded /\ CandidateOnce

feedVars == <<feed, monitor, sampled, fleet, poll>>

LEMMA FeedUntouched == ASSUME FeedInv, UNCHANGED feedVars PROVE FeedInv'
  BY DEF FeedInv, FeedTypes, FeedKeepsNewest, Recorded, CandidateOnce, feedVars, feed, fleet

\* Add with an alert of a known type: what it does to the two sequences.
LEMMA AddAppends ==
    ASSUME FeedInv, NEW a, NEW x \in Alerts,
           items' = Trimmed(Append(items, x)), raised' = Append(raised, x)
    PROVE  /\ items' \in Seq(Alerts) /\ raised' \in Seq(Alerts)
           /\ Len(raised') = Len(raised) + 1
           /\ \A i \in 1 .. Len(raised) : raised'[i] = raised[i]
           /\ raised'[Len(raised) + 1] = x
           /\ FeedKeepsNewest'
<1> USE StreamAssumption
<1> DEFINE longer == Append(items, x)
<1>1. items \in Seq(Alerts) /\ raised \in Seq(Alerts) /\ Len(items) \in Nat /\ Len(raised) \in Nat
  BY LenProperties DEF FeedInv, FeedTypes
<1>2. /\ raised' \in Seq(Alerts)
      /\ Len(raised') = Len(raised) + 1
      /\ \A i \in 1 .. Len(raised) : raised'[i] = raised[i]
      /\ raised'[Len(raised) + 1] = x
  BY <1>1, AppendProperties
<1>3. /\ longer \in Seq(Alerts)
      /\ Len(longer) = Len(items) + 1
      /\ \A i \in 1 .. Len(items) : longer[i] = items[i]
      /\ longer[Len(items) + 1] = x
  BY <1>1, AppendProperties
<1>4. /\ Len(items) = IF Len(raised) < Keep THEN Len(raised) ELSE Keep
      /\ \A i \in 1 .. Len(items) : items[i] = raised[Len(raised) - Len(items) + i]
  BY <1>1, LenProperties DEF FeedInv, FeedKeepsNewest
<1> HIDE DEF longer
<1>5. \A i \in 1 .. Len(longer) : longer[i] = raised'[Len(raised') - Len(longer) + i]
  <2> SUFFICES ASSUME NEW i \in 1 .. Len(items) + 1
              PROVE  longer[i] = raised'[Len(raised') - Len(longer) + i]
    BY <1>3
  <2>1. Len(raised') - Len(longer) + i = Len(raised) - Len(items) + i
    BY <1>1, <1>2, <1>3
  <2>2. CASE i = Len(items) + 1
    BY <1>1, <1>2, <1>3, <2>1, <2>2
  <2>3. CASE i \in 1 .. Len(items)
    <3>1. Len(raised) - Len(items) + i \in 1 .. Len(raised)
      BY <1>1, <1>4, <2>3
    <3>2. longer[i] = items[i] /\ items[i] = raised[Len(raised) - Len(items) + i]
      BY <1>3, <1>4, <2>3
    <3>3. QED
      BY <1>2, <2>1, <3>1, <3>2
  <2>4. i = Len(items) + 1 \/ i \in 1 .. Len(items)
    BY <1>1
  <2>5. QED
    BY <2>2, <2>3, <2>4
<1>6. CASE Len(longer) > Keep
  <2>1. items' = SubSeq(longer, Len(longer) - Keep + 1, Len(longer))
    BY <1>6 DEF Trimmed, longer
  <2>2. Len(items) = Keep /\ Len(longer) = Keep + 1 /\ Len(raised) >= Keep
    BY <1>1, <1>3, <1>4, <1>6
  <2>3. \A i \in Len(longer) - Keep + 1 .. Len(longer) : longer[i] \in Alerts
    BY <1>3, <2>2, ElementOfSeq
  <2>4. /\ items' \in Seq(Alerts)
        /\ Len(items') = Keep
        /\ \A i \in 1 .. Keep : items'[i] = longer[1 + i]
    <3>1. Len(longer) - Keep + 1 \in Int /\ Len(longer) \in Int
      BY <2>2
    <3>2. /\ SubSeq(longer, Len(longer) - Keep + 1, Len(longer)) \in Seq(Alerts)
          /\ Len(SubSeq(longer, Len(longer) - Keep + 1, Len(longer))) = Len(longer) - (Len(longer) - Keep + 1) + 1
          /\ \A i \in 1 .. Len(longer) - (Len(longer) - Keep + 1) + 1 :
                SubSeq(longer, Len(longer) - Keep + 1, Len(longer))[i] = longer[Len(longer) - Keep + 1 + i - 1]
      BY <2>2, <2>3, <3>1, SubSeqProperties
    <3>3. QED
      BY <2>1, <2>2, <3>2
  <2>5. \A i \in 1 .. Len(items') : items'[i] = raised'[Len(raised') - Len(items') + i]
    <3>1. TAKE i \in 1 .. Len(items')
    <3>2. i \in 1 .. Keep /\ 1 + i \in 1 .. Len(longer)
      BY <2>2, <2>4
    <3>3. items'[i] = raised'[Len(raised') - Len(longer) + (1 + i)]
      BY <1>5, <2>4, <3>2
    <3>4. Len(raised') - Len(longer) + (1 + i) = Len(raised') - Len(items') + i
      BY <1>1, <1>2, <2>2, <2>4, <3>2
    <3>5. QED
      BY <3>3, <3>4
  <2>6. Len(items') = IF Len(raised') < Keep THEN Len(raised') ELSE Keep
    BY <1>1, <1>2, <2>2, <2>4
  <2>7. QED
    BY <1>2, <2>4, <2>5, <2>6, LenProperties DEF FeedKeepsNewest
<1>7. CASE ~(Len(longer) > Keep)
  <2>1. items' = longer
    BY <1>7 DEF Trimmed, longer
  <2>2. Len(items') = IF Len(raised') < Keep THEN Len(raised') ELSE Keep
    BY <1>1, <1>2, <1>3, <1>4, <1>7, <2>1
  <2>3. QED
    BY <1>2, <1>3, <1>5, <2>1, <2>2, LenProperties DEF FeedKeepsNewest
<1>8. QED
  BY <1>6, <1>7

\* An alert that is no block candidate, with the record as it was.
LEMMA OtherAlert ==
    ASSUME FeedInv, NEW x \in Alerts, x.typ # "block",
           items' = Trimmed(Append(items, x)), raised' = Append(raised, x),
           monitor' \in Nat, UNCHANGED <<sampled, fleet, poll>>
    PROVE  FeedInv'
<1>1. /\ items' \in Seq(Alerts) /\ raised' \in Seq(Alerts)
      /\ Len(raised') = Len(raised) + 1 /\ Len(raised) \in Nat
      /\ \A i \in 1 .. Len(raised) : raised'[i] = raised[i]
      /\ raised'[Len(raised) + 1] = x
      /\ FeedKeepsNewest'
  BY AddAppends, LenProperties DEF FeedInv, FeedTypes
<1>2. FeedTypes'
  BY <1>1 DEF FeedInv, FeedTypes, fleet
<1>3. \A i \in 1 .. Len(raised') :
        raised'[i].typ = "block" => i \in 1 .. Len(raised) /\ raised'[i] = raised[i]
  BY <1>1
<1>4. Recorded'
  BY <1>3 DEF FeedInv, Recorded, fleet
<1>5. CandidateOnce'
  <2> SUFFICES ASSUME NEW i \in 1 .. Len(raised'), NEW j \in 1 .. Len(raised'),
                      raised'[i].typ = "block", raised'[j].typ = "block",
                      i < j, raised'[i].stay = raised'[j].stay
               PROVE  raised'[i].diff < raised'[j].diff
    BY DEF CandidateOnce
  <2>1. /\ i \in 1 .. Len(raised) /\ raised'[i] = raised[i]
        /\ j \in 1 .. Len(raised) /\ raised'[j] = raised[j]
    BY <1>3
  <2>2. QED
    BY <2>1 DEF FeedInv, CandidateOnce
<1>6. QED
  BY <1>1, <1>2, <1>4, <1>5 DEF FeedInv

LEMMA EnterStep == ASSUME FeedInv, NEW p \in Pollers, Enter(p) PROVE FeedInv'
<1> DEFINE d == poll[p].best
           x == [id |-> Len(raised) + 1, typ |-> "block", diff |-> d, stay |-> stays]
<1>1. d \in Nat /\ stays \in Nat /\ bestDiffSeen \in Nat /\ Len(raised) \in Nat
  BY LenProperties DEF FeedInv, FeedTypes, Enter
<1>2. poll' = [poll EXCEPT ![p] = NoPoll] /\ UNCHANGED <<monitor, sampled>>
  BY DEF Enter, health
<1>3. /\ poll' = [q \in Pollers |-> poll'[q]]
      /\ \A q \in Pollers : poll'[q].at = "answered" => poll'[q].best \in Nat
  BY <1>2 DEF FeedInv, FeedTypes, NoPoll
<1>4. CASE UNCHANGED <<fleet, stream>>
  BY <1>2, <1>3, <1>4
  DEF FeedInv, FeedTypes, FeedKeepsNewest, Recorded, CandidateOnce, fleet, stream
<1>5. CASE /\ registered /\ UNCHANGED <<best, registered, stays, stream>>
           /\ bestDiffSeen' = IF NewBest(d) THEN d ELSE bestDiffSeen
  <2>1. bestDiffSeen' \in Nat /\ bestDiffSeen' >= bestDiffSeen
    BY <1>1, <1>5 DEF NewBest
  <2>2. FeedTypes'
    BY <1>2, <1>3, <1>5, <2>1 DEF FeedInv, FeedTypes, stream
  <2>3. ASSUME NEW i \in 1 .. Len(raised), raised[i].typ = "block"
        PROVE  /\ raised[i].stay <= stays
               /\ raised[i].stay = stays => raised[i].diff <= bestDiffSeen'
    <3>1. raised[i] \in Alerts
      BY ElementOfSeq DEF FeedInv, FeedTypes
    <3>2. raised[i].diff \in Nat
      BY <2>3, <3>1 DEF Alerts
    <3>3. /\ raised[i].stay <= stays
          /\ raised[i].stay = stays => raised[i].diff <= bestDiffSeen
      BY <1>5, <2>3 DEF FeedInv, Recorded
    <3>4. QED
      BY <1>1, <2>1, <3>2, <3>3
  <2>4. Recorded'
    BY <1>5, <2>3 DEF Recorded, stream
  <2>5. FeedKeepsNewest' /\ CandidateOnce'
    BY <1>5 DEF FeedInv, FeedKeepsNewest, CandidateOnce, stream
  <2>6. QED
    BY <2>2, <2>4, <2>5 DEF FeedInv
<1>6. CASE /\ registered /\ UNCHANGED <<best, registered, stays>>
           /\ NewBest(d) /\ bestDiffSeen' = d
           /\ items' = Trimmed(Append(items, x)) /\ raised' = Append(raised, x)
  <2>1. x \in Alerts /\ x.typ = "block" /\ x.diff = d /\ x.stay = stays
    BY <1>1 DEF Alerts
  <2> HIDE DEF x
  <2>2. /\ items' \in Seq(Alerts) /\ raised' \in Seq(Alerts)
        /\ Len(raised') = Len(raised) + 1
        /\ \A i \in 1 .. Len(raised) : raised'[i] = raised[i]
        /\ raised'[Len(raised) + 1] = x
        /\ FeedKeepsNewest'
    BY <1>6, <2>1, AddAppends
  <2>3. FeedTypes'
    BY <1>1, <1>2, <1>3, <1>6, <2>2 DEF FeedInv, FeedTypes
  <2>4. ASSUME NEW i \in 1 .. Len(raised), raised[i].typ = "block"
        PROVE  /\ raised[i].stay <= stays
               /\ raised[i].stay = stays => raised[i].diff < d
    <3>1. raised[i] \in Alerts
      BY ElementOfSeq DEF FeedInv, FeedTypes
    <3>2. raised[i].diff \in Nat
      BY <2>4, <3>1 DEF Alerts
    <3>3. /\ raised[i].stay <= stays
          /\ raised[i].stay = stays => raised[i].diff <= bestDiffSeen
      BY <1>6, <2>4 DEF FeedInv, Recorded
    <3>4. d > bestDiffSeen
      BY <1>6 DEF NewBest
    <3>5. QED
      BY <1>1, <3>2, <3>3, <3>4
  <2>5. \A i \in 1 .. Len(raised') : i \in 1 .. Len(raised) \/ i = Len(raised) + 1
    BY <1>1, <2>2
  <2>6. Recorded'
    <3> SUFFICES ASSUME NEW i \in 1 .. Len(raised'), raised'[i].typ = "block"
                PROVE  raised'[i].stay <= stays /\ (raised'[i].stay = stays => raised'[i].diff <= d)
      BY <1>6 DEF Recorded
    <3>1. CASE i = Len(raised) + 1
      BY <1>1, <2>1, <2>2, <3>1
    <3>2. CASE i \in 1 .. Len(raised)
      <4>1. raised'[i] = raised[i]
        BY <2>2, <3>2
      <4>2. raised[i] \in Alerts
        BY <3>2, ElementOfSeq DEF FeedInv, FeedTypes
      <4>3. raised[i].diff \in Nat
        BY <4>1, <4>2 DEF Alerts
      <4>4. raised[i].stay <= stays /\ (raised[i].stay = stays => raised[i].diff < d)
        BY <2>4, <3>2, <4>1
      <4>5. QED
        BY <1>1, <4>1, <4>3, <4>4
    <3>3. QED
      BY <2>5, <3>1, <3>2
  <2>7. CandidateOnce'
    <3> SUFFICES ASSUME NEW i \in 1 .. Len(raised'), NEW j \in 1 .. Len(raised'),
                        raised'[i].typ = "block", raised'[j].typ = "block",
                        i < j, raised'[i].stay = raised'[j].stay
                 PROVE  raised'[i].diff < raised'[j].diff
      BY DEF CandidateOnce
    <3>1. i \in 1 .. Len(raised)
      BY <1>1, <2>2
    <3>2. CASE j = Len(raised) + 1
      BY <2>1, <2>2, <2>4, <3>1, <3>2
    <3>3. CASE j \in 1 .. Len(raised)
      BY <2>2, <3>1, <3>3 DEF FeedInv, CandidateOnce
    <3>4. QED
      BY <2>5, <3>2, <3>3
  <2>8. QED
    BY <2>2, <2>3, <2>6, <2>7 DEF FeedInv
<1>7. QED
  BY <1>4, <1>5, <1>6 DEF Enter, Add

\* Removing and adding the miner, and a restart.
LEMMA FleetStep == ASSUME FeedInv, Share \/ Remove \/ AddMiner \/ Restart PROVE FeedInv'
<1> USE ConsoleAssumption
<1>1. CASE Share
  <2>1. best' \in Nat
    BY <1>1 DEF Share, FeedInv, FeedTypes
  <2>2. UNCHANGED <<items, raised, monitor, sampled, registered, stays, bestDiffSeen, poll>>
    BY <1>1 DEF Share, stream, health
  <2>3. QED
    BY <2>1, <2>2 DEF FeedInv, FeedTypes, FeedKeepsNewest, Recorded, CandidateOnce
<1>2. CASE Remove
  <2>1. /\ UNCHANGED <<items, raised, monitor, sampled, best, stays, poll>>
        /\ registered' = FALSE /\ bestDiffSeen' = 0
    BY <1>2 DEF Remove, stream, health
  <2>2. QED
    BY <2>1 DEF FeedInv, FeedTypes, FeedKeepsNewest, Recorded, CandidateOnce
<1>3. CASE AddMiner
  <2>1. /\ UNCHANGED <<items, raised, monitor, sampled, best, bestDiffSeen>>
        /\ registered' = TRUE /\ stays' = stays + 1
        /\ poll' = [poll EXCEPT !["added"] = [at |-> "asked"]]
    BY <1>3 DEF AddMiner, Ask, stream, health
  <2>2. FeedTypes'
    <3>1. /\ poll' = [p \in Pollers |-> poll'[p]]
          /\ \A p \in Pollers : poll'[p].at = "answered" => poll'[p].best \in Nat
      BY <2>1 DEF FeedInv, FeedTypes
    <3>2. stays' \in Nat /\ registered' \in BOOLEAN
      BY <2>1 DEF FeedInv, FeedTypes
    <3>3. QED
      BY <2>1, <3>1, <3>2 DEF FeedInv, FeedTypes
  <2>3. ASSUME NEW i \in 1 .. Len(raised), raised[i].typ = "block"
        PROVE  raised[i].stay <= stays' /\ raised[i].stay # stays'
    <3>1. raised[i] \in Alerts
      BY ElementOfSeq DEF FeedInv, FeedTypes
    <3>2. raised[i].stay \in Nat
      BY <2>3, <3>1 DEF Alerts
    <3>3. raised[i].stay <= stays /\ stays \in Nat
      BY <2>3 DEF FeedInv, FeedTypes, Recorded
    <3>4. QED
      BY <2>1, <3>2, <3>3
  <2>4. Recorded'
    BY <2>1, <2>3 DEF Recorded
  <2>5. QED
    BY <2>1, <2>2, <2>4 DEF FeedInv, FeedKeepsNewest, CandidateOnce
<1>4. CASE Restart
  <2>1. /\ items' = <<>> /\ raised' = <<>> /\ monitor' = 0 /\ sampled' = <<>>
        /\ bestDiffSeen' = 0 /\ UNCHANGED <<best, registered, stays>>
        /\ poll' = [p \in Pollers |-> NoPoll]
    BY <1>4 DEF Restart, StreamForgets, HealthForgets
  <2>2. items' \in Seq(Alerts) /\ Len(raised') = 0 /\ Len(items') = 0
    BY <2>1, EmptySeq
  <2>3. FeedTypes'
    BY <2>1, EmptySeq DEF FeedInv, FeedTypes, NoPoll
  <2>4. Recorded' /\ CandidateOnce'
    BY <2>2 DEF Recorded, CandidateOnce
  <2>5. FeedKeepsNewest'
    BY <2>2, LenProperties, StreamAssumption DEF FeedKeepsNewest
  <2>6. QED
    BY <2>3, <2>4, <2>5 DEF FeedInv
<1>5. QED
  BY <1>1, <1>2, <1>3, <1>4

LEMMA MonitorStep == ASSUME FeedInv, Sample \/ CheckKey, UNCHANGED <<fleet, poll>> PROVE FeedInv'
<1>1. CASE Sample
  <2>1. PICK reading \in Readings : sampled' = Append(sampled, reading)
    BY <1>1 DEF Sample
  <2>2. sampled' \in Seq(Readings)
    BY <2>1, AppendProperties DEF FeedInv, FeedTypes
  <2>3. monitor' = 1 /\ UNCHANGED <<items, raised>>
    BY <1>1 DEF Sample, stream
  <2>4. QED
    BY <2>2, <2>3 DEF FeedInv, FeedTypes, FeedKeepsNewest, Recorded, CandidateOnce, fleet
<1>2. CASE CheckKey
  <2>1. monitor' \in Nat /\ UNCHANGED sampled
    BY <1>2 DEF CheckKey, FeedInv, FeedTypes
  <2>2. CASE UNCHANGED stream
    BY <2>1, <2>2 DEF FeedInv, FeedTypes, FeedKeepsNewest, Recorded, CandidateOnce, fleet, stream
  <2>3. CASE ~UNCHANGED stream
    <3> DEFINE x == [id |-> Len(raised) + 1, typ |-> "system", key |-> monitor, at |-> Len(sampled)]
    <3>1. x \in Alerts /\ x.typ # "block"
      BY LenProperties DEF FeedInv, FeedTypes, Alerts
    <3>2. items' = Trimmed(Append(items, x)) /\ raised' = Append(raised, x)
      BY <1>2, <2>3 DEF CheckKey, Add
    <3> HIDE DEF x
    <3>3. QED
      BY <2>1, <3>1, <3>2, OtherAlert
  <2>4. QED
    BY <2>2, <2>3
<1>3. QED
  BY <1>1, <1>2

LEMMA FeedStep == ASSUME FeedInv, [Next]_vars PROVE FeedInv'
<1>1. ASSUME NEW p \in Pollers, Enter(p) PROVE FeedInv'
  BY <1>1, EnterStep
<1>2. ASSUME Tick \/ (\E p \in Pollers : Answer(p)) PROVE FeedInv'
  <2>1. /\ poll' = [p \in Pollers |-> poll'[p]]
        /\ \A p \in Pollers : poll'[p].at = "answered" => poll'[p].best \in Nat
    BY <1>2 DEF Tick, Answer, Ask, FeedInv, FeedTypes
  <2>2. UNCHANGED <<feed, monitor, sampled, fleet>>
    BY <1>2 DEF Tick, Answer, stream, health, feed
  <2>3. QED
    BY <2>1, <2>2 DEF FeedInv, FeedTypes, FeedKeepsNewest, Recorded, CandidateOnce, feed, fleet
<1>3. ASSUME LoopSums \/ LoopRest \/ LoopSends PROVE FeedInv'
  BY <1>3, FeedUntouched DEF LoopSums, LoopRest, LoopSends, feedVars, stream, health, feed
<1>4. ASSUME NodeLoop \/ Requests \/ AsksPeers \/ NodeChanges PROVE FeedInv'
  BY <1>4, FeedUntouched DEF NodeLoop, Requests, AsksPeers, NodeChanges, feedVars, stream, health, feed
<1>5. ASSUME Monitors PROVE FeedInv'
  BY <1>5, MonitorStep DEF Monitors
<1>6. ASSUME Share \/ Remove \/ AddMiner \/ Restart PROVE FeedInv'
  BY <1>6, FleetStep
<1>7. ASSUME NEW h \in Handlers, SetupAnnounced(h) PROVE FeedInv'
  <2> DEFINE x == [id |-> Len(raised) + 1, typ |-> "setup"]
  <2>1. x \in Alerts /\ x.typ # "block"
    BY LenProperties DEF FeedInv, FeedTypes, Alerts
  <2>2. items' = Trimmed(Append(items, x)) /\ raised' = Append(raised, x)
    BY <1>7 DEF SetupAnnounced, Add, Alert
  <2>3. monitor' \in Nat /\ UNCHANGED <<sampled, fleet, poll>>
    BY <1>7 DEF SetupAnnounced, health, FeedInv, FeedTypes
  <2> HIDE DEF x
  <2>4. QED
    BY <2>1, <2>2, <2>3, OtherAlert
<1>8. ASSUME NEW a \in Adders, Notifies(a) PROVE FeedInv'
  BY <1>8, FeedUntouched DEF Notifies, Notify, feedVars, health
<1>9. ASSUME NEW c \in Clients,
             Connect(c) \/ FirstSums(c) \/ FirstWrites(c) \/ Read(c) \/ Disconnect(c)
      PROVE  FeedInv'
  <2>1. UNCHANGED feedVars
    BY <1>9 DEF Connect, Subscribe, FirstSums, FirstWrites, Read, Receive, Disconnect, Leave,
                feedVars, health
  <2>2. QED
    BY <2>1, FeedUntouched
<1>10. CASE UNCHANGED vars
  BY <1>10, FeedUntouched DEF vars, feedVars, stream, health, feed
<1>11. QED
  BY <1>1, <1>2, <1>3, <1>4, <1>5, <1>6, <1>7, <1>8, <1>9, <1>10 DEF Next, Loop

LEMMA FeedStarts == Init => FeedInv
<1> SUFFICES ASSUME Init PROVE FeedInv
  OBVIOUS
<1>1. items = <<>> /\ raised = <<>> /\ monitor = 0 /\ sampled = <<>>
  BY DEF Init, StreamInit, HealthInit
<1>2. Len(items) = 0 /\ Len(raised) = 0
  BY <1>1, EmptySeq
<1>3. FeedTypes
  BY <1>1, EmptySeq DEF Init, FeedTypes, NoPoll
<1>4. Recorded /\ CandidateOnce
  BY <1>2 DEF Recorded, CandidateOnce
<1>5. FeedKeepsNewest
  BY <1>2, <1>3, LenProperties, StreamAssumption DEF FeedKeepsNewest, FeedTypes
<1>6. QED
  BY <1>3, <1>4, <1>5 DEF FeedInv

\* The feed is the newest alerts in the order in which they were added.
THEOREM FeedIsNewest == Spec => []FeedKeepsNewest
<1>1. FeedInv => FeedKeepsNewest
  BY DEF FeedInv
<1>2. FeedInv /\ [Next]_vars => FeedInv'
  BY FeedStep
<1>3. QED
  BY <1>1, <1>2, FeedStarts, PTL DEF Spec

\* A share is announced as a block candidate once as long as its miner stays
\* registered, whatever the order in which the answers of its polls arrive.
THEOREM CandidatesOnce == Spec => []CandidateOnce
<1>1. FeedInv => CandidateOnce
  BY DEF FeedInv
<1>2. FeedInv /\ [Next]_vars => FeedInv'
  BY FeedStep
<1>3. QED
  BY <1>1, <1>2, FeedStarts, PTL DEF Spec

-----------------------------------------------------------------------------
(* The frames in a channel *)

IsSeq(s) == s \in Seq({s[i] : i \in DOMAIN s})
AlertsIn(s) == UNION {AlertOf(s[i]) : i \in 1 .. Len(s)}

LEMMA OfItsElements == ASSUME NEW S, NEW s \in Seq(S) PROVE IsSeq(s)
<1>1. Len(s) \in Nat /\ DOMAIN s = 1 .. Len(s)
  BY LenProperties
<1>2. s = [i \in 1 .. Len(s) |-> s[i]]
  BY <1>1, LenProperties
<1>3. s \in [1 .. Len(s) -> {s[i] : i \in DOMAIN s}]
  BY <1>1, <1>2
<1>4. QED
  BY <1>1, <1>3 DEF IsSeq

LEMMA EmptyChannel == IsSeq(<<>>) /\ Len(<<>>) = 0 /\ AlertsIn(<<>>) = {}
<1>1. <<>> \in Seq({}) /\ Len(<<>>) = 0
  BY EmptySeq
<1>2. IsSeq(<<>>)
  BY <1>1, OfItsElements
<1>3. QED
  BY <1>1, <1>2 DEF AlertsIn

LEMMA PutFrame ==
    ASSUME NEW s, IsSeq(s), NEW frame
    PROVE  /\ IsSeq(Append(s, frame)) /\ Len(Append(s, frame)) = Len(s) + 1 /\ Len(s) \in Nat
           /\ AlertsIn(Append(s, frame)) = AlertsIn(s) \union AlertOf(frame)
<1> DEFINE S == {s[i] : i \in DOMAIN s} \union {frame}
<1>1. s \in Seq(S) /\ Len(s) \in Nat /\ DOMAIN s = 1 .. Len(s)
  <2>1. s \in Seq({s[i] : i \in DOMAIN s})
    BY DEF IsSeq
  <2>2. Len(s) \in Nat /\ DOMAIN s = 1 .. Len(s) /\ s \in [1 .. Len(s) -> {s[i] : i \in DOMAIN s}]
    BY <2>1, LenProperties
  <2>3. s \in [1 .. Len(s) -> S]
    BY <2>2
  <2>4. QED
    BY <2>2, <2>3
<1>2. frame \in S
  OBVIOUS
<1> HIDE DEF S
<1>3. /\ Append(s, frame) \in Seq(S)
      /\ Len(Append(s, frame)) = Len(s) + 1
      /\ \A i \in 1 .. Len(s) : Append(s, frame)[i] = s[i]
      /\ Append(s, frame)[Len(s) + 1] = frame
  BY <1>1, <1>2, AppendProperties
<1>4. IsSeq(Append(s, frame))
  BY <1>3, OfItsElements
<1>5. 1 .. Len(s) + 1 = (1 .. Len(s)) \union {Len(s) + 1}
  BY <1>1
<1>6. AlertsIn(Append(s, frame)) = AlertsIn(s) \union AlertOf(frame)
  BY <1>3, <1>5 DEF AlertsIn
<1>7. QED
  BY <1>1, <1>3, <1>4, <1>6

LEMMA TakeFrame ==
    ASSUME NEW s, IsSeq(s), s # <<>>
    PROVE  /\ IsSeq(Tail(s)) /\ Len(Tail(s)) = Len(s) - 1 /\ Len(s) \in Nat
           /\ AlertsIn(s) = AlertOf(Head(s)) \union AlertsIn(Tail(s))
<1> DEFINE S == {s[i] : i \in DOMAIN s}
<1>1. s \in Seq(S)
  BY DEF IsSeq
<1> HIDE DEF S
<1>2. /\ Tail(s) \in Seq(S)
      /\ Len(Tail(s)) = Len(s) - 1
      /\ \A i \in 1 .. Len(Tail(s)) : Tail(s)[i] = s[i + 1]
      /\ Head(s) = s[1]
      /\ Len(s) \in Nat \ {0}
  BY <1>1, HeadTailProperties, LenProperties, EmptySeq
<1>3. IsSeq(Tail(s))
  BY <1>2, OfItsElements
<1>4. \A i : i \in 1 .. Len(s) <=> i = 1 \/ (i - 1 \in 1 .. Len(Tail(s)) /\ i \in Int)
  BY <1>2
<1>5. ASSUME NEW i \in 1 .. Len(s) PROVE AlertOf(s[i]) \subseteq AlertOf(Head(s)) \union AlertsIn(Tail(s))
  <2>1. CASE i = 1
    BY <1>2, <2>1
  <2>2. CASE i # 1
    <3>1. i - 1 \in 1 .. Len(Tail(s)) /\ (i - 1) + 1 = i
      BY <1>2, <2>2
    <3>2. Tail(s)[i - 1] = s[i]
      BY <1>2, <3>1
    <3>3. QED
      BY <3>1, <3>2 DEF AlertsIn
  <2>3. QED
    BY <2>1, <2>2
<1>6. ASSUME NEW i \in 1 .. Len(Tail(s)) PROVE AlertOf(Tail(s)[i]) \subseteq AlertsIn(s)
  <2>1. Tail(s)[i] = s[i + 1] /\ i + 1 \in 1 .. Len(s)
    BY <1>2
  <2>2. QED
    BY <2>1 DEF AlertsIn
<1>7. AlertOf(Head(s)) \subseteq AlertsIn(s)
  BY <1>2 DEF AlertsIn
<1>8. AlertsIn(s) = AlertOf(Head(s)) \union AlertsIn(Tail(s))
  <2>1. AlertsIn(s) \subseteq AlertOf(Head(s)) \union AlertsIn(Tail(s))
    BY <1>5 DEF AlertsIn
  <2>2. AlertsIn(Tail(s)) \subseteq AlertsIn(s)
    BY <1>6 DEF AlertsIn
  <2>3. QED
    BY <1>7, <2>1, <2>2
<1>9. QED
  BY <1>2, <1>3, <1>8

-----------------------------------------------------------------------------
(* No alert gets lost without a trace *)

\* The alerts since a client subscribed are with the client, on the way to it,
\* or known to be dropped.
Traced(c) ==
    Subscribed(c) =>
        /\ since[c] \in Nat
        /\ \A id \in since[c] + 1 .. Len(raised) :
             id \in told[c] \union missed[c] \union InFlight \union AlertsIn(chan[c])

StreamTypes ==
    /\ DOMAIN adding = Adders /\ DOMAIN conn = Clients /\ DOMAIN chan = Clients
    /\ DOMAIN told = Clients /\ DOMAIN missed = Clients /\ DOMAIN since = Clients
    /\ \A c \in Clients :
        /\ conn[c] \in {"off", "subscribed", "summed", "live"}
        /\ IsSeq(chan[c]) /\ Len(chan[c]) <= Cap

StreamInv == StreamTypes /\ \A c \in Clients : Traced(c)

LEMMA StreamUntouched == ASSUME StreamInv, UNCHANGED stream PROVE StreamInv'
BY DEF StreamInv, StreamTypes, Traced, Subscribed, stream, InFlight

\* An alert that is appended is in flight.
LEMMA AddTraced ==
    ASSUME StreamInv, FeedTypes, NEW a \in Adders, NEW x, "id" \in DOMAIN x, Add(a, x),
           UNCHANGED <<clients, chan, missed>>
    PROVE  StreamInv'
<1> DEFINE named == [x EXCEPT !.id = Len(raised) + 1]
<1>1. /\ adding[a] = NoAlert /\ adding' = [adding EXCEPT ![a] = named]
      /\ raised' = Append(raised, named)
      /\ UNCHANGED <<conn, told, since, chan, missed>>
  BY DEF Add, clients
<1>2. named.id = Len(raised) + 1
  OBVIOUS
<1> HIDE DEF named
<1>3. Len(raised') = Len(raised) + 1 /\ Len(raised) \in Nat
  <2>1. IsSeq(raised)
    BY OfItsElements DEF FeedTypes
  <2>2. QED
    BY <1>1, <2>1, PutFrame
<1>4. DOMAIN adding' = Adders /\ adding'[a] = named /\ \A b \in Adders \ {a} : adding'[b] = adding[b]
  BY <1>1 DEF StreamInv, StreamTypes
<1>5. StreamTypes'
  BY <1>1, <1>4 DEF StreamInv, StreamTypes
<1>6. Len(raised) + 1 \in InFlight' /\ InFlight \subseteq InFlight' \union {0}
  <2>1. adding'[a].id = Len(raised) + 1
    BY <1>2, <1>4
  <2>2. ASSUME NEW b \in Adders PROVE adding[b].id \in InFlight' \union {0}
    <3>1. CASE b = a
      BY <1>1, <3>1 DEF NoAlert
    <3>2. CASE b # a
      BY <1>4, <3>2 DEF InFlight
    <3>3. QED
      BY <3>1, <3>2
  <2>3. QED
    BY <2>1, <2>2 DEF InFlight
<1>7. ASSUME NEW c \in Clients PROVE Traced(c)'
  <2>1. Subscribed(c) => since[c] \in Nat
    BY DEF StreamInv, Traced
  <2> SUFFICES ASSUME Subscribed(c), NEW id \in since[c] + 1 .. Len(raised) + 1
               PROVE  id \in told[c] \union missed[c] \union InFlight' \union AlertsIn(chan[c])
    BY <1>1, <1>3, <2>1 DEF Traced, Subscribed
  <2>2. CASE id = Len(raised) + 1
    BY <1>6, <2>1, <2>2
  <2>3. CASE id # Len(raised) + 1
    <3>1. id \in since[c] + 1 .. Len(raised) /\ id # 0
      BY <1>3, <2>1, <2>3
    <3>2. id \in told[c] \union missed[c] \union InFlight \union AlertsIn(chan[c])
      BY <3>1 DEF StreamInv, Traced
    <3>3. QED
      BY <1>6, <2>1, <3>1, <3>2
  <2>4. QED
    BY <2>2, <2>3
<1>8. QED
  BY <1>5, <1>7 DEF StreamInv

\* A frame that is broadcast is in the channel of every subscriber, or missed.
LEMMA BroadcastTraced ==
    ASSUME StreamInv, NEW frame, Broadcast(frame), UNCHANGED <<clients, raised>>,
           DOMAIN adding' = Adders, InFlight \subseteq InFlight' \union AlertOf(frame)
    PROVE  StreamInv'
<1>1. /\ chan' = [c \in Clients |->
            IF Subscribed(c) /\ ~Full(c) THEN Append(chan[c], frame) ELSE chan[c]]
      /\ missed' = [c \in Clients |->
            IF Subscribed(c) /\ Full(c) THEN missed[c] \union AlertOf(frame) ELSE missed[c]]
      /\ UNCHANGED <<conn, told, since, raised>>
  BY DEF Broadcast, clients
<1>2. ASSUME NEW c \in Clients
      PROVE  /\ IsSeq(chan'[c]) /\ Len(chan'[c]) <= Cap
             /\ AlertsIn(chan[c]) \subseteq AlertsIn(chan'[c]) /\ missed[c] \subseteq missed'[c]
             /\ Subscribed(c) => AlertOf(frame) \subseteq AlertsIn(chan'[c]) \union missed'[c]
  <2>1. IsSeq(chan[c]) /\ Len(chan[c]) <= Cap
    BY DEF StreamInv, StreamTypes
  <2>2. CASE Subscribed(c) /\ ~Full(c)
    <3>1. chan'[c] = Append(chan[c], frame) /\ missed'[c] = missed[c]
      BY <1>1, <2>2
    <3>2. ~(Len(chan[c]) >= Cap) /\ Cap \in Nat
      BY <2>2, StreamAssumption DEF Full
    <3>3. /\ IsSeq(chan'[c]) /\ Len(chan'[c]) = Len(chan[c]) + 1 /\ Len(chan[c]) \in Nat
          /\ AlertsIn(chan'[c]) = AlertsIn(chan[c]) \union AlertOf(frame)
      BY <2>1, <3>1, PutFrame
    <3>4. Len(chan'[c]) <= Cap
      BY <3>2, <3>3
    <3>5. QED
      BY <3>1, <3>3, <3>4
  <2>3. CASE Subscribed(c) /\ Full(c)
    BY <1>1, <2>1, <2>3
  <2>4. CASE ~Subscribed(c)
    BY <1>1, <2>1, <2>4
  <2>5. QED
    BY <2>2, <2>3, <2>4
<1>3. StreamTypes'
  BY <1>1, <1>2 DEF StreamInv, StreamTypes
<1>4. ASSUME NEW c \in Clients PROVE Traced(c)'
  <2> SUFFICES ASSUME Subscribed(c), NEW id \in since[c] + 1 .. Len(raised)
               PROVE  id \in told[c] \union missed'[c] \union InFlight' \union AlertsIn(chan'[c])
    BY <1>1 DEF Traced, Subscribed, StreamInv
  <2>1. id \in told[c] \union missed[c] \union InFlight \union AlertsIn(chan[c])
    BY DEF StreamInv, Traced
  <2>2. QED
    BY <1>2, <2>1
<1>5. QED
  BY <1>3, <1>4 DEF StreamInv

LEMMA NotifyTraced == ASSUME StreamInv, NEW a \in Adders, Notify(a) PROVE StreamInv'
<1> DEFINE frame == [event |-> "alert", data |-> adding[a]]
<1>1. Broadcast(frame) /\ adding' = [adding EXCEPT ![a] = NoAlert] /\ UNCHANGED <<clients, raised>>
  BY DEF Notify, feed
<1>2. AlertOf(frame) = {adding[a].id}
  BY DEF AlertOf
<1> HIDE DEF frame
<1>3. DOMAIN adding' = Adders /\ \A b \in Adders \ {a} : adding'[b] = adding[b]
  BY <1>1 DEF StreamInv, StreamTypes
<1>4. InFlight \subseteq InFlight' \union AlertOf(frame)
  BY <1>2, <1>3 DEF InFlight
<1>5. QED
  BY <1>1, <1>3, <1>4, BroadcastTraced

LEMMA SendTraced == ASSUME StreamInv, LoopSends PROVE StreamInv'
<1> DEFINE frame == [event |-> "snapshot", data |-> draft["loop"]]
<1>1. Broadcast(frame) /\ UNCHANGED <<clients, raised, adding>>
  BY DEF LoopSends, feed
<1> HIDE DEF frame
<1>2. QED
  BY <1>1, BroadcastTraced DEF InFlight, StreamInv, StreamTypes

\* The client reads the frame that is first in its channel.
LEMMA ReceiveTraced == ASSUME StreamInv, NEW c \in Clients, Receive(c) PROVE StreamInv'
<1>1. /\ chan[c] # <<>> /\ chan' = [chan EXCEPT ![c] = Tail(@)]
      /\ told' = [told EXCEPT ![c] = @ \union AlertOf(Head(chan[c]))]
      /\ UNCHANGED <<raised, adding, conn, missed, since>>
  BY DEF Receive, feed
<1>2. DOMAIN chan = Clients /\ DOMAIN told = Clients /\ IsSeq(chan[c]) /\ Len(chan[c]) <= Cap
  BY DEF StreamInv, StreamTypes
<1>3. /\ chan'[c] = Tail(chan[c]) /\ told'[c] = told[c] \union AlertOf(Head(chan[c]))
      /\ DOMAIN chan' = Clients /\ DOMAIN told' = Clients
      /\ \A d \in Clients \ {c} : chan'[d] = chan[d] /\ told'[d] = told[d]
  BY <1>1, <1>2
<1>4. /\ IsSeq(Tail(chan[c])) /\ Len(Tail(chan[c])) = Len(chan[c]) - 1 /\ Len(chan[c]) \in Nat
      /\ AlertsIn(chan[c]) = AlertOf(Head(chan[c])) \union AlertsIn(Tail(chan[c]))
  BY <1>1, <1>2, TakeFrame
<1>5. IsSeq(chan'[c]) /\ Len(chan'[c]) <= Cap
  BY <1>2, <1>3, <1>4, StreamAssumption
<1>6. StreamTypes'
  BY <1>1, <1>3, <1>5 DEF StreamInv, StreamTypes
<1>7. \A d \in Clients :
        told'[d] \union AlertsIn(chan'[d]) = told[d] \union AlertsIn(chan[d])
  BY <1>3, <1>4
<1>8. InFlight' = InFlight /\ \A d \in Clients : Subscribed(d)' <=> Subscribed(d)
  BY <1>1 DEF InFlight, Subscribed
<1>9. \A d \in Clients : Traced(d)'
  BY <1>1, <1>7, <1>8 DEF StreamInv, Traced
<1>10. QED
  BY <1>6, <1>9 DEF StreamInv

\* The other steps of a connection.
LEMMA ConnTraced ==
    ASSUME StreamInv, FeedTypes, NEW c \in Clients,
           Subscribe(c) \/ Leave(c) \/ FirstSums(c) \/ FirstWrites(c)
    PROVE  StreamInv'
<1> USE DEF StreamInv, StreamTypes
<1>1. UNCHANGED <<raised, adding>> /\ InFlight' = InFlight
  BY DEF Subscribe, Leave, FirstSums, FirstWrites, feed, InFlight
<1>2. Len(raised) \in Nat
  BY LenProperties DEF FeedTypes
<1>3. CASE Subscribe(c)
  <2>1. /\ conn' = [conn EXCEPT ![c] = "subscribed"] /\ chan' = [chan EXCEPT ![c] = <<>>]
        /\ told' = [told EXCEPT ![c] = {}] /\ missed' = [missed EXCEPT ![c] = {}]
        /\ since' = [since EXCEPT ![c] = Len(raised)]
    BY <1>3 DEF Subscribe
  <2>2. StreamTypes'
    BY <1>1, <2>1, EmptyChannel, StreamAssumption
  <2>3. Traced(c)'
    BY <1>1, <1>2, <2>1 DEF Traced
  <2>4. ASSUME NEW d \in Clients, d # c PROVE Traced(d)'
    <3>1. UNCHANGED <<conn[d], chan[d], told[d], missed[d], since[d]>>
      BY <2>1, <2>4
    <3>2. QED
      BY <1>1, <3>1 DEF Traced, Subscribed
  <2>5. QED
    BY <2>2, <2>3, <2>4
<1>4. CASE Leave(c)
  <2>1. /\ conn' = [conn EXCEPT ![c] = "off"] /\ chan' = [chan EXCEPT ![c] = <<>>]
        /\ UNCHANGED <<told, missed, since>>
    BY <1>4 DEF Leave
  <2>2. StreamTypes'
    BY <1>1, <2>1, EmptyChannel, StreamAssumption
  <2>3. Traced(c)'
    BY <2>1 DEF Traced, Subscribed
  <2>4. ASSUME NEW d \in Clients, d # c PROVE Traced(d)'
    <3>1. UNCHANGED <<conn[d], chan[d], told[d], missed[d], since[d]>>
      BY <2>1, <2>4
    <3>2. QED
      BY <1>1, <3>1 DEF Traced, Subscribed
  <2>5. QED
    BY <2>2, <2>3, <2>4
<1>5. CASE FirstSums(c) \/ FirstWrites(c)
  <2>1. /\ conn[c] # "off" /\ UNCHANGED <<chan, told, missed, since>>
        /\ \E v \in {"summed", "live"} : conn' = [conn EXCEPT ![c] = v]
    BY <1>5 DEF FirstSums, FirstWrites
  <2>2. \A d \in Clients : Subscribed(d)' <=> Subscribed(d)
    BY <2>1 DEF Subscribed
  <2>3. StreamTypes'
    BY <1>1, <2>1
  <2>4. \A d \in Clients : Traced(d)'
    BY <1>1, <2>1, <2>2 DEF Traced
  <2>5. QED
    BY <2>3, <2>4
<1>6. QED
  BY <1>3, <1>4, <1>5

LEMMA ForgetTraced == ASSUME StreamForgets PROVE StreamInv'
<1>1. /\ adding' = [a \in Adders |-> NoAlert] /\ conn' = [c \in Clients |-> "off"]
      /\ chan' = [c \in Clients |-> <<>>] /\ told' = [c \in Clients |-> {}]
      /\ missed' = [c \in Clients |-> {}] /\ since' = [c \in Clients |-> 0]
  BY DEF StreamForgets
<1>2. StreamTypes'
  BY <1>1, EmptyChannel, StreamAssumption DEF StreamTypes
<1>3. QED
  BY <1>1, <1>2 DEF StreamInv, Traced, Subscribed

LEMMA StreamStep == ASSUME StreamInv, FeedTypes, [Next]_vars PROVE StreamInv'
<1>1. ASSUME NEW p \in Pollers, Enter(p) PROVE StreamInv'
  <2> DEFINE x == [id |-> 0, typ |-> "block", diff |-> poll[p].best, stay |-> stays]
  <2>1. UNCHANGED stream \/ (Add("poll", x) /\ UNCHANGED <<clients, chan, missed>>)
    BY <1>1 DEF Enter
  <2>2. "id" \in DOMAIN x
    OBVIOUS
  <2> HIDE DEF x
  <2>3. QED
    BY <2>1, <2>2, AddTraced, StreamUntouched, ConsoleAssumption
<1>2. CASE Monitors
  <2> DEFINE x == [id |-> 0, typ |-> "system", key |-> monitor, at |-> Len(sampled)]
  <2>1. UNCHANGED stream \/ (Add("monitor", x) /\ UNCHANGED <<clients, chan, missed>>)
    BY <1>2 DEF Monitors, Sample, CheckKey
  <2>2. "id" \in DOMAIN x
    OBVIOUS
  <2> HIDE DEF x
  <2>3. QED
    BY <2>1, <2>2, AddTraced, StreamUntouched, ConsoleAssumption
<1>3. ASSUME NEW h \in Handlers, SetupAnnounced(h) PROVE StreamInv'
  <2>1. Add("auth", Alert("setup")) /\ UNCHANGED <<clients, chan, missed>>
    BY <1>3 DEF SetupAnnounced
  <2>2. "id" \in DOMAIN Alert("setup")
    BY DEF Alert
  <2>3. QED
    BY <2>1, <2>2, AddTraced, ConsoleAssumption
<1>4. ASSUME NEW a \in Adders, Notifies(a) PROVE StreamInv'
  BY <1>4, NotifyTraced DEF Notifies
<1>5. CASE LoopSends
  BY <1>5, SendTraced
<1>6. ASSUME NEW c \in Clients,
             Connect(c) \/ FirstSums(c) \/ FirstWrites(c) \/ Read(c) \/ Disconnect(c)
      PROVE  StreamInv'
  <2>1. Subscribe(c) \/ Leave(c) \/ FirstSums(c) \/ FirstWrites(c) \/ Receive(c)
    BY <1>6 DEF Connect, Read, Disconnect
  <2>2. QED
    BY <2>1, ConnTraced, ReceiveTraced
<1>7. CASE Restart
  BY <1>7, ForgetTraced DEF Restart
<1>8. CASE Tick \/ LoopSums \/ LoopRest \/ (\E p \in Pollers : Answer(p))
  BY <1>8, StreamUntouched DEF Tick, LoopSums, LoopRest, Answer
<1>9. CASE NodeLoop \/ Requests \/ AsksPeers \/ NodeChanges \/ Share \/ Remove \/ AddMiner
  BY <1>9, StreamUntouched DEF NodeLoop, Requests, AsksPeers, NodeChanges, Share, Remove, AddMiner
<1>10. CASE UNCHANGED vars
  BY <1>10, StreamUntouched DEF vars
<1>11. QED
  BY <1>1, <1>2, <1>3, <1>4, <1>5, <1>6, <1>7, <1>8, <1>9, <1>10 DEF Next, Loop

LEMMA StreamStarts == Init => StreamInv
<1> SUFFICES ASSUME Init PROVE StreamInv
  OBVIOUS
<1>1. /\ adding = [a \in Adders |-> NoAlert] /\ conn = [c \in Clients |-> "off"]
      /\ chan = [c \in Clients |-> <<>>] /\ told = [c \in Clients |-> {}]
      /\ missed = [c \in Clients |-> {}] /\ since = [c \in Clients |-> 0]
  BY DEF Init, StreamInit
<1>2. StreamTypes
  BY <1>1, EmptyChannel, StreamAssumption DEF StreamTypes
<1>3. QED
  BY <1>1, <1>2 DEF StreamInv, Traced, Subscribed

\* A client whose channel is empty has been told of every alert that was added
\* since it subscribed, but those whose frame met a full channel or has yet to be
\* broadcast, for any number of clients, adders and frames.
THEOREM AlertsTraced == Spec => []AlertsAccounted
<1> DEFINE Inv == FeedInv /\ StreamInv
<1>1. Init => Inv
  BY FeedStarts, StreamStarts
<1>2. Inv /\ [Next]_vars => Inv'
  BY FeedStep, StreamStep DEF FeedInv
<1>3. Inv => AlertsAccounted
  <2> SUFFICES ASSUME StreamInv, NEW c \in Clients, conn[c] = "live", chan[c] = <<>>,
                      NEW id \in since[c] + 1 .. Len(raised)
               PROVE  id \in told[c] \union missed[c] \union InFlight
    BY DEF AlertsAccounted
  <2>1. Traced(c) /\ Subscribed(c) /\ AlertsIn(chan[c]) = {}
    BY EmptyChannel DEF StreamInv, Subscribed
  <2>2. QED
    BY <2>1 DEF Traced
<1>4. QED
  BY <1>1, <1>2, <1>3, PTL DEF Spec

-----------------------------------------------------------------------------
(* The ring of samples *)

\* The slot with the k-th newest sample.
Slot(k) == IF k <= histIdx THEN histIdx - k ELSE histIdx - k + HistLen

RingInv ==
    /\ DOMAIN hist = 0 .. HistLen - 1
    /\ histIdx \in 0 .. HistLen - 1
    /\ histCount = IF Len(sampled) < HistLen THEN Len(sampled) ELSE HistLen
    /\ \A k \in 1 .. histCount : hist[Slot(k)] = sampled[Len(sampled) - k + 1]

LEMMA Wraps ==
    ASSUME NEW x \in Int, NEW q \in {0, 1, 2}, NEW r \in 0 .. HistLen - 1, x = q * HistLen + r
    PROVE  x % HistLen = r
BY HealthAssumption

LEMMA RingSame == ASSUME RingInv, UNCHANGED <<hist, histIdx, histCount, sampled>> PROVE RingInv'
BY DEF RingInv, Slot

LEMMA NextSlot ==
    ASSUME histIdx \in 0 .. HistLen - 1
    PROVE  NextIdx(histIdx) = IF histIdx = HistLen - 1 THEN 0 ELSE histIdx + 1
<1> USE HealthAssumption
<1>1. CASE histIdx = HistLen - 1
  <2>1. histIdx + 1 \in Int /\ 0 \in 0 .. HistLen - 1 /\ histIdx + 1 = 1 * HistLen + 0
    BY <1>1
  <2>2. (histIdx + 1) % HistLen = 0
    BY <2>1, Wraps
  <2>3. QED
    BY <1>1, <2>2 DEF NextIdx
<1>2. CASE histIdx # HistLen - 1
  <2>1. /\ histIdx + 1 \in Int /\ histIdx + 1 \in 0 .. HistLen - 1
        /\ histIdx + 1 = 0 * HistLen + (histIdx + 1)
    BY <1>2
  <2>2. (histIdx + 1) % HistLen = histIdx + 1
    BY <2>1, Wraps
  <2>3. QED
    BY <1>2, <2>2 DEF NextIdx
<1>3. QED
  BY <1>1, <1>2

LEMMA SampleRing == ASSUME RingInv, FeedTypes, Sample PROVE RingInv'
<1> USE HealthAssumption
<1>1. PICK reading \in Readings :
        /\ hist' = [hist EXCEPT ![histIdx] = reading]
        /\ sampled' = Append(sampled, reading)
  BY DEF Sample
<1>2. /\ histIdx' = NextIdx(histIdx)
      /\ histCount' = IF histCount < HistLen THEN histCount + 1 ELSE histCount
  BY DEF Sample
<1>3. histIdx \in 0 .. HistLen - 1 /\ DOMAIN hist = 0 .. HistLen - 1
  BY DEF RingInv
<1>4. histIdx' = IF histIdx = HistLen - 1 THEN 0 ELSE histIdx + 1
  BY <1>2, <1>3, NextSlot
<1>5. /\ Len(sampled) \in Nat /\ Len(sampled') = Len(sampled) + 1
      /\ \A i \in 1 .. Len(sampled) : sampled'[i] = sampled[i]
      /\ sampled'[Len(sampled) + 1] = reading
  BY <1>1, AppendProperties, LenProperties DEF FeedTypes
<1>6. histCount = IF Len(sampled) < HistLen THEN Len(sampled) ELSE HistLen
  BY DEF RingInv
<1>7. histCount' = IF Len(sampled') < HistLen THEN Len(sampled') ELSE HistLen
  BY <1>2, <1>5, <1>6
<1>8. DOMAIN hist' = 0 .. HistLen - 1 /\ histIdx' \in 0 .. HistLen - 1
  BY <1>1, <1>3, <1>4
<1>9. ASSUME NEW k \in 1 .. histCount' PROVE hist'[Slot(k)'] = sampled'[Len(sampled') - k + 1]
  <2>1. Slot(k)' = IF k <= histIdx' THEN histIdx' - k ELSE histIdx' - k + HistLen
    BY DEF Slot
  <2>2. CASE k = 1
    <3>1. Slot(k)' = histIdx
      BY <1>3, <1>4, <2>1, <2>2
    <3>2. QED
      BY <1>1, <1>3, <1>5, <2>2, <3>1
  <2>3. CASE k # 1
    <3>1. k - 1 \in 1 .. histCount /\ k - 1 < HistLen /\ k - 1 <= Len(sampled)
      BY <1>2, <1>5, <1>6, <1>7, <2>3
    <3>2. Slot(k)' = Slot(k - 1) /\ Slot(k - 1) # histIdx
      BY <1>3, <1>4, <2>1, <3>1 DEF Slot
    <3>3. hist[Slot(k - 1)] = sampled[Len(sampled) - (k - 1) + 1]
      BY <3>1 DEF RingInv
    <3>4. hist'[Slot(k)'] = hist[Slot(k - 1)]
      BY <1>1, <3>2
    <3>5. /\ Len(sampled') - k + 1 = Len(sampled) - (k - 1) + 1
          /\ Len(sampled') - k + 1 \in 1 .. Len(sampled)
      BY <1>5, <3>1
    <3>6. QED
      BY <1>5, <3>3, <3>4, <3>5
  <2>4. QED
    BY <2>2, <2>3
<1>10. QED
  BY <1>7, <1>8, <1>9 DEF RingInv

LEMMA ForgetRing == ASSUME HealthForgets PROVE RingInv'
<1>1. /\ hist' = [i \in 0 .. HistLen - 1 |-> NoReading] /\ histIdx' = 0 /\ histCount' = 0
      /\ sampled' = <<>>
  BY DEF HealthForgets
<1>2. QED
  BY <1>1, EmptySeq, HealthAssumption DEF RingInv

\* The read of the ring: its start, and the slot of each sample, are taken
\* modulo its length.
LEMMA RingReads ==
    ASSUME RingInv, FeedTypes, NEW m \in 0 .. histCount, NEW i \in 1 .. m
    PROVE  hist[(((histIdx - m + HistLen * 2) % HistLen) + i - 1) % HistLen]
             = sampled[Len(sampled) - m + i]
<1> USE HealthAssumption
<1>1. /\ histIdx \in 0 .. HistLen - 1 /\ Len(sampled) \in Nat
      /\ histCount \in 0 .. HistLen /\ m \in 1 .. HistLen
  BY LenProperties DEF RingInv, FeedTypes
<1>2. (histIdx - m + HistLen * 2) % HistLen = Slot(m)
  <2>1. CASE m <= histIdx
    <3>1. /\ histIdx - m + HistLen * 2 = 2 * HistLen + (histIdx - m)
          /\ histIdx - m \in 0 .. HistLen - 1 /\ histIdx - m + HistLen * 2 \in Int
      BY <1>1, <2>1
    <3>2. QED
      BY <2>1, <3>1, Wraps DEF Slot
  <2>2. CASE ~(m <= histIdx)
    <3>1. /\ histIdx - m + HistLen * 2 = 1 * HistLen + (histIdx - m + HistLen)
          /\ histIdx - m + HistLen \in 0 .. HistLen - 1 /\ histIdx - m + HistLen * 2 \in Int
      BY <1>1, <2>2
    <3>2. QED
      BY <2>2, <3>1, Wraps DEF Slot
  <2>3. QED
    BY <2>1, <2>2
<1> DEFINE k == m - i + 1
<1>3. k \in 1 .. histCount /\ k \in 1 .. HistLen
  BY <1>1
<1>4. (Slot(m) + i - 1) % HistLen = Slot(k)
  <2>1. Slot(k) \in 0 .. HistLen - 1 /\ Slot(m) \in 0 .. HistLen - 1
    BY <1>1, <1>3 DEF Slot
  <2>2. Slot(m) + i - 1 = Slot(k) \/ Slot(m) + i - 1 = HistLen + Slot(k)
    BY <1>1, <1>3 DEF Slot
  <2>3. Slot(m) + i - 1 \in Int
    BY <2>1
  <2> HIDE DEF k
  <2>4. CASE Slot(m) + i - 1 = Slot(k)
    <3>1. Slot(m) + i - 1 = 0 * HistLen + Slot(k)
      BY <2>1, <2>4
    <3>2. QED
      BY <2>1, <2>3, <3>1, Wraps
  <2>5. CASE Slot(m) + i - 1 = HistLen + Slot(k)
    <3>1. Slot(m) + i - 1 = 1 * HistLen + Slot(k)
      BY <2>1, <2>5
    <3>2. QED
      BY <2>1, <2>3, <3>1, Wraps
  <2>6. QED
    BY <2>2, <2>4, <2>5
<1>5. hist[Slot(k)] = sampled[Len(sampled) - k + 1]
  BY <1>3 DEF RingInv
<1>6. Len(sampled) - k + 1 = Len(sampled) - m + i
  BY <1>1
<1>7. QED
  BY <1>2, <1>4, <1>5, <1>6

LEMMA ChartRight == ASSUME RingInv, FeedTypes PROVE HistoryRight
<1> USE HealthAssumption
<1> SUFFICES ASSUME NEW n \in 0 .. HistLen + 1
             PROVE  LET kept == CHOOSE m \in 0 .. HistLen :
                            /\ m <= n /\ m <= Len(sampled)
                            /\ m \in {n, HistLen, Len(sampled)}
                    IN  History(n) = SubSeq(sampled, Len(sampled) - kept + 1, Len(sampled))
  BY DEF HistoryRight
<1> DEFINE kept == CHOOSE m \in 0 .. HistLen :
                       /\ m <= n /\ m <= Len(sampled)
                       /\ m \in {n, HistLen, Len(sampled)}
           m == IF n > histCount THEN histCount ELSE n
<1>1. /\ Len(sampled) \in Nat
      /\ histCount = IF Len(sampled) < HistLen THEN Len(sampled) ELSE HistLen
  BY LenProperties DEF RingInv, FeedTypes
<1>2. m \in 0 .. HistLen /\ m <= n /\ m <= Len(sampled) /\ m \in {n, HistLen, Len(sampled)}
  BY <1>1
<1>3. \A j \in 0 .. HistLen :
        j <= n /\ j <= Len(sampled) /\ j \in {n, HistLen, Len(sampled)} => j = m
  BY <1>1
<1>4. kept = m
  BY <1>2, <1>3
<1>5. History(n) = [i \in 1 .. m |-> hist[(((histIdx - m + HistLen * 2) % HistLen) + i - 1) % HistLen]]
  BY DEF History
<1>6. m \in 0 .. histCount
  BY <1>1
<1> HIDE DEF m, kept
<1>7. History(n) = [i \in 1 .. m |-> sampled[Len(sampled) - m + i]]
  BY <1>5, <1>6, RingReads
<1>8. SubSeq(sampled, Len(sampled) - m + 1, Len(sampled))
        = [i \in 1 .. m |-> sampled[Len(sampled) - m + i]]
  <2>1. Len(sampled) - m + 1 \in Int /\ m \in Nat /\ 1 + Len(sampled) - (Len(sampled) - m + 1) = m
    BY <1>1, <1>2
  <2>2. \A i \in 1 .. m : i + (Len(sampled) - m + 1) - 1 = Len(sampled) - m + i
    BY <1>1, <1>2
  <2>3. QED
    BY <1>1, <2>1, <2>2
<1>9. QED
  BY <1>4, <1>7, <1>8 DEF kept

-----------------------------------------------------------------------------
(* The alerts of the monitor *)

\* How many samples check has looked at for key k.
Seen(k) == IF monitor = 0 \/ monitor > k THEN Len(sampled) ELSE Len(sampled) - 1

\* A key is active while an alert of it stands: no sample that was looked at
\* since has cleared it.
Standing(k) ==
    /\ \A i \in SystemAlerts(k) : raised[i].at \in 1 .. Seen(k)
    /\ active[k] => \E i \in SystemAlerts(k) : ~Calm(k, raised[i].at, Seen(k))
    /\ ~active[k] => \A i \in SystemAlerts(k) : Calm(k, raised[i].at, Seen(k))

\* OneAlertPerExcursion, for one key.
OneAlert(k) ==
    /\ \A i \in SystemAlerts(k) : Sets(sampled[raised[i].at][k])
    /\ \A i, j \in SystemAlerts(k) : i < j => Calm(k, raised[i].at, raised[j].at)
    /\ \A s \in 1 .. Seen(k) : Sets(sampled[s][k]) =>
           \E i \in SystemAlerts(k) : raised[i].at <= s /\ ~Calm(k, raised[i].at, s)

CheckTypes ==
    /\ monitor \in 0 .. Len(Keys)
    /\ monitor # 0 => Len(sampled) # 0 /\ last = sampled[Len(sampled)]
    /\ active \in [1 .. Len(Keys) -> BOOLEAN]

CheckInv == CheckTypes /\ \A k \in 1 .. Len(Keys) : Standing(k) /\ OneAlert(k)

LEMMA KeysCount == Len(Keys) \in Nat \ {0}
BY HealthAssumption, EmptySeq

LEMMA CheckSame ==
    ASSUME CheckInv, UNCHANGED <<raised, monitor, sampled, last, active>> PROVE CheckInv'
<1>1. CheckTypes'
  BY DEF CheckInv, CheckTypes
<1>2. ASSUME NEW k \in 1 .. Len(Keys) PROVE Standing(k)' /\ OneAlert(k)'
  <2>1. Seen(k)' = Seen(k) /\ SystemAlerts(k)' = SystemAlerts(k)
    BY DEF Seen, SystemAlerts
  <2>2. \A from, to : Calm(k, from, to)' <=> Calm(k, from, to)
    BY DEF Calm
  <2>3. Standing(k) /\ OneAlert(k)
    BY DEF CheckInv
  <2>4. Standing(k)'
    BY <2>1, <2>2, <2>3 DEF Standing, Calm
  <2>5. OneAlert(k)'
    BY <2>1, <2>2, <2>3 DEF OneAlert, Calm
  <2>6. QED
    BY <2>4, <2>5
<1>3. QED
  BY <1>1, <1>2 DEF CheckInv

\* The system alerts of a feed that grew by one alert.
LEMMA GrownFeed ==
    ASSUME NEW x, Len(raised) \in Nat, Len(raised') = Len(raised) + 1,
           \A i \in 1 .. Len(raised) : raised'[i] = raised[i], raised'[Len(raised) + 1] = x,
           NEW k
    PROVE  SystemAlerts(k)' = SystemAlerts(k) \union
               (IF x.typ = "system" /\ x.key = k THEN {Len(raised) + 1} ELSE {})
<1>1. 1 .. Len(raised) + 1 = (1 .. Len(raised)) \union {Len(raised) + 1}
  OBVIOUS
<1>2. QED
  BY <1>1 DEF SystemAlerts

\* An alert of another kind, or of another key.
LEMMA OtherKey ==
    ASSUME NEW k, Standing(k), OneAlert(k), SystemAlerts(k)' = SystemAlerts(k),
           \A i \in SystemAlerts(k) : raised'[i] = raised[i],
           UNCHANGED <<sampled, active[k]>>, Seen(k)' = Seen(k)
    PROVE  Standing(k)' /\ OneAlert(k)'
<1>1. \A from, to : Calm(k, from, to)' <=> Calm(k, from, to)
  BY DEF Calm
<1>2. Standing(k)'
  BY <1>1 DEF Standing, Calm
<1>3. OneAlert(k)'
  BY <1>1 DEF OneAlert, Calm
<1>4. QED
  BY <1>2, <1>3

\* A feed with an alert that is none of the monitor's.
LEMMA OtherAlertCheck ==
    ASSUME CheckInv, FeedTypes, NEW x, x.typ # "system", raised' = Append(raised, x),
           UNCHANGED <<monitor, sampled, last, active>>
    PROVE  CheckInv'
<1>1. IsSeq(raised)
  BY OfItsElements DEF FeedTypes
<1>2. /\ Len(raised) \in Nat /\ Len(raised') = Len(raised) + 1
      /\ \A i \in 1 .. Len(raised) : raised'[i] = raised[i]
      /\ raised'[Len(raised) + 1] = x
  <2>1. raised \in Seq(Alerts \union {x})
    <3>1. Len(raised) \in Nat /\ raised \in [1 .. Len(raised) -> Alerts]
      BY LenProperties DEF FeedTypes
    <3>2. QED
      BY <3>1
  <2>2. x \in Alerts \union {x}
    OBVIOUS
  <2>3. QED
    BY <2>1, <2>2, AppendProperties, LenProperties
<1>3. ASSUME NEW k \in 1 .. Len(Keys) PROVE Standing(k)' /\ OneAlert(k)'
  <2>1. SystemAlerts(k)' = SystemAlerts(k)
    BY <1>2, GrownFeed, ZenonT(40)
  <2>2. \A i \in SystemAlerts(k) : raised'[i] = raised[i]
    BY <1>2 DEF SystemAlerts
  <2>3. Seen(k)' = Seen(k) /\ active'[k] = active[k]
    BY DEF Seen
  <2>4. QED
    BY <2>1, <2>2, <2>3, OtherKey DEF CheckInv
<1>4. CheckTypes'
  BY DEF CheckInv, CheckTypes
<1>5. QED
  BY <1>3, <1>4 DEF CheckInv

\* A sample is taken when all keys have been looked at.
LEMMA SampleCheck == ASSUME CheckInv, FeedTypes, Sample PROVE CheckInv'
<1>1. PICK reading \in Readings : last' = reading /\ sampled' = Append(sampled, reading)
  BY DEF Sample
<1>2. monitor = 0 /\ monitor' = 1 /\ UNCHANGED <<active, raised>>
  BY DEF Sample, stream
<1>3. /\ Len(sampled) \in Nat /\ Len(sampled') = Len(sampled) + 1
      /\ \A i \in 1 .. Len(sampled) : sampled'[i] = sampled[i]
      /\ sampled'[Len(sampled) + 1] = reading
  BY <1>1, AppendProperties, LenProperties DEF FeedTypes
<1>4. CheckTypes'
  BY <1>1, <1>2, <1>3, KeysCount DEF CheckInv, CheckTypes
<1>5. ASSUME NEW k \in 1 .. Len(Keys) PROVE Standing(k)' /\ OneAlert(k)'
  <2>1. Seen(k) = Len(sampled) /\ Seen(k)' = Len(sampled)
    BY <1>2, <1>3, KeysCount DEF Seen
  <2>2. SystemAlerts(k)' = SystemAlerts(k)
    BY <1>2 DEF SystemAlerts
  <2>3. \A i \in SystemAlerts(k) : raised[i].at \in 1 .. Len(sampled)
    BY <2>1 DEF CheckInv, Standing
  <2>4. \A from \in 1 .. Len(sampled), to \in 1 .. Len(sampled) :
            (\E s \in from .. to : Clears(sampled'[s][k])) <=> Calm(k, from, to)
    BY <1>3 DEF Calm
  <2>5. Standing(k)'
    <3>1. active'[k] => \E i \in SystemAlerts(k) :
                          ~(\E s \in raised[i].at .. Len(sampled) : Clears(sampled'[s][k]))
      <4>1. ASSUME active[k] PROVE \E i \in SystemAlerts(k) :
                          ~(\E s \in raised[i].at .. Len(sampled) : Clears(sampled'[s][k]))
        <5>1. PICK i \in SystemAlerts(k) : ~Calm(k, raised[i].at, Len(sampled))
          BY <2>1, <4>1 DEF CheckInv, Standing
        <5>2. raised[i].at \in 1 .. Len(sampled) /\ Len(sampled) \in 1 .. Len(sampled)
          BY <1>3, <2>3
        <5>3. QED
          BY <2>4, <5>1, <5>2
      <4>2. QED
        BY <1>2, <4>1
    <3>2. ~active'[k] => \A i \in SystemAlerts(k) :
                          \E s \in raised[i].at .. Len(sampled) : Clears(sampled'[s][k])
      <4>1. ASSUME ~active[k], NEW i \in SystemAlerts(k)
            PROVE  \E s \in raised[i].at .. Len(sampled) : Clears(sampled'[s][k])
        <5>1. Calm(k, raised[i].at, Len(sampled))
          BY <2>1, <4>1 DEF CheckInv, Standing
        <5>2. raised[i].at \in 1 .. Len(sampled) /\ Len(sampled) \in 1 .. Len(sampled)
          BY <1>3, <2>3
        <5>3. QED
          BY <2>4, <5>1, <5>2
      <4>2. QED
        BY <1>2, <4>1
    <3>3. QED
      BY <1>2, <2>1, <2>2, <2>3, <3>1, <3>2 DEF Standing, Calm
  <2>6. OneAlert(k)'
    <3>1. \A i \in SystemAlerts(k) : Sets(sampled'[raised[i].at][k])
      BY <1>3, <2>3 DEF CheckInv, OneAlert
    <3>2. ASSUME NEW i \in SystemAlerts(k), NEW j \in SystemAlerts(k), i < j
          PROVE  \E s \in raised[i].at .. raised[j].at : Clears(sampled'[s][k])
      <4>1. Calm(k, raised[i].at, raised[j].at)
        BY <3>2 DEF CheckInv, OneAlert
      <4>2. raised[i].at \in 1 .. Len(sampled) /\ raised[j].at \in 1 .. Len(sampled)
        BY <2>3
      <4>3. QED
        BY <2>4, <4>1, <4>2
    <3>3. ASSUME NEW s \in 1 .. Len(sampled), Sets(sampled'[s][k])
          PROVE  \E i \in SystemAlerts(k) : raised[i].at <= s
                   /\ ~(\E t \in raised[i].at .. s : Clears(sampled'[t][k]))
      <4>1. Sets(sampled[s][k])
        BY <1>3, <3>3
      <4>2. PICK i \in SystemAlerts(k) : raised[i].at <= s /\ ~Calm(k, raised[i].at, s)
        BY <2>1, <4>1 DEF CheckInv, OneAlert
      <4>3. raised[i].at \in 1 .. Len(sampled)
        BY <2>3
      <4>4. QED
        BY <2>4, <4>2, <4>3
    <3>4. QED
      BY <1>2, <2>1, <2>2, <3>1, <3>2, <3>3 DEF OneAlert, Calm
  <2>7. QED
    BY <2>5, <2>6
<1>6. QED
  BY <1>4, <1>5 DEF CheckInv

\* What one more sample does to the samples between two.
LEMMA OneMore ==
    ASSUME NEW k, NEW n \in Nat, NEW from \in Nat, from <= n
    PROVE  Calm(k, from, n) <=> Calm(k, from, n - 1) \/ Clears(sampled[n][k])
<1>1. \A s : s \in from .. n <=> s \in from .. n - 1 \/ s = n
  OBVIOUS
<1>2. QED
  BY <1>1 DEF Calm

\* check looks at key k: the alert stands, is raised, or is over.
LEMMA LookedAt ==
    ASSUME CheckInv, NEW k \in 1 .. Len(Keys), monitor = k, Len(sampled) \in Nat \ {0},
           UNCHANGED sampled, Seen(k)' = Len(sampled),
           active'[k] = Transition(active[k], sampled[Len(sampled)][k]),
           \/ SystemAlerts(k)' = SystemAlerts(k) /\ (active[k] \/ ~active'[k])
           \/ \E new : /\ ~active[k] /\ active'[k]
                       /\ SystemAlerts(k)' = SystemAlerts(k) \union {new}
                       /\ raised'[new].at = Len(sampled)
                       /\ \A i \in SystemAlerts(k) : i < new /\ ~(new < i)
                       /\ ~(new < new),
           \A i \in SystemAlerts(k) : raised'[i] = raised[i]
    PROVE  Standing(k)' /\ OneAlert(k)'
<1> DEFINE n == Len(sampled)
           level == sampled[n][k]
<1>1. Seen(k) = n - 1
  BY DEF Seen
<1>2. /\ \A i \in SystemAlerts(k) : raised[i].at \in 1 .. n - 1
      /\ active[k] => \E i \in SystemAlerts(k) : ~Calm(k, raised[i].at, n - 1)
      /\ ~active[k] => \A i \in SystemAlerts(k) : Calm(k, raised[i].at, n - 1)
  BY <1>1 DEF CheckInv, Standing
<1>3. /\ \A i \in SystemAlerts(k) : Sets(sampled[raised[i].at][k])
      /\ \A i, j \in SystemAlerts(k) : i < j => Calm(k, raised[i].at, raised[j].at)
      /\ \A s \in 1 .. n - 1 : Sets(sampled[s][k]) =>
             \E i \in SystemAlerts(k) : raised[i].at <= s /\ ~Calm(k, raised[i].at, s)
  BY <1>1 DEF CheckInv, OneAlert
<1>4. /\ active[k] \in BOOLEAN
      /\ active'[k] = ((active[k] \/ Sets(level)) /\ ~Clears(level))
      /\ Sets(level) => ~Clears(level)
  BY DEF CheckInv, CheckTypes, Transition, Sets, Clears
<1> HIDE DEF n, level
<1>n. n \in Nat \ {0} /\ Len(sampled) = n
  BY DEF n
<1>5. \A from \in Nat : from <= n =>
        (Calm(k, from, n) <=> Calm(k, from, n - 1) \/ Clears(level))
  BY <1>n, OneMore DEF level
<1>6. \A from, to : Calm(k, from, to)' <=> Calm(k, from, to)
  BY DEF Calm
<1>7. CASE SystemAlerts(k)' = SystemAlerts(k) /\ (active[k] \/ ~active'[k])
  <2>1. \A i \in SystemAlerts(k) : raised'[i] = raised[i] /\ raised[i].at \in 1 .. n
    BY <1>2, <1>n
  <2>c. \A i \in SystemAlerts(k) :
            Calm(k, raised[i].at, n) <=> Calm(k, raised[i].at, n - 1) \/ Clears(level)
    <3>1. ASSUME NEW i \in SystemAlerts(k)
          PROVE  raised[i].at \in Nat /\ raised[i].at <= n
      BY <1>n, <2>1
    <3>2. QED
      BY <1>5, <3>1
  <2>a. active'[k] => \E i \in SystemAlerts(k) : ~Calm(k, raised[i].at, n)
    <3>1. active'[k] => active[k] /\ ~Clears(level)
      BY <1>4, <1>7
    <3>2. QED
      BY <1>2, <2>c, <3>1
  <2>b. ~active'[k] => \A i \in SystemAlerts(k) : Calm(k, raised[i].at, n)
    <3>1. ~active'[k] => ~active[k] \/ Clears(level)
      BY <1>4
    <3>2. QED
      BY <1>2, <2>c, <3>1
  <2>2. /\ active'[k] => \E i \in SystemAlerts(k) : ~Calm(k, raised[i].at, n)
        /\ ~active'[k] => \A i \in SystemAlerts(k) : Calm(k, raised[i].at, n)
    BY <2>a, <2>b
  <2>3. Sets(level) => active'[k]
    BY <1>4, <1>7
  <2>4. \A s \in 1 .. n : Sets(sampled[s][k]) =>
            \E i \in SystemAlerts(k) : raised[i].at <= s /\ ~Calm(k, raised[i].at, s)
    <3>1. TAKE s \in 1 .. n
    <3>2. CASE s = n
      BY <1>n, <2>1, <2>2, <2>3, <3>2 DEF level
    <3>3. CASE s # n
      <4>1. s \in 1 .. n - 1
        BY <1>n, <3>3
      <4>2. QED
        BY <1>3, <4>1
    <3>4. QED
      BY <3>2, <3>3
  <2>5. Standing(k)'
    <3>1. \A i \in SystemAlerts(k)' : raised'[i].at \in 1 .. Seen(k)'
      BY <1>7, <1>n, <2>1
    <3>2. active'[k] => \E i \in SystemAlerts(k)' : ~Calm(k, raised[i].at, n) /\ raised'[i] = raised[i]
      BY <1>7, <2>1, <2>2
    <3>3. ~active'[k] => \A i \in SystemAlerts(k)' : Calm(k, raised[i].at, n) /\ raised'[i] = raised[i]
      BY <1>7, <2>1, <2>2
    <3>4. QED
      BY <1>n, <3>1, <3>2, <3>3 DEF Standing, Calm
  <2>6. OneAlert(k)'
    BY <1>3, <1>7, <1>n, <2>1, <2>4 DEF OneAlert, Calm
  <2>7. QED
    BY <2>5, <2>6
<1>8. ASSUME NEW new, ~active[k], active'[k],
             SystemAlerts(k)' = SystemAlerts(k) \union {new}, raised'[new].at = n,
             \A i \in SystemAlerts(k) : i < new /\ ~(new < i), ~(new < new)
      PROVE  Standing(k)' /\ OneAlert(k)'
  <2>1. \A i \in SystemAlerts(k) : raised'[i] = raised[i] /\ raised[i].at \in 1 .. n
    BY <1>2, <1>n
  <2>2. Sets(level) /\ ~Clears(level)
    BY <1>4, <1>8
  <2>3. ~Calm(k, n, n)
    BY <1>n, <2>2 DEF Calm, level
  <2>4. \A i \in SystemAlerts(k) : Calm(k, raised[i].at, n)
    BY <1>2, <1>5, <1>8, <1>n, <2>1
  <2>5. Standing(k)'
    <3>1. \A i \in SystemAlerts(k)' : raised'[i].at \in 1 .. Seen(k)'
      BY <1>8, <1>n, <2>1
    <3>2. new \in SystemAlerts(k)' /\ ~Calm(k, raised'[new].at, n)
      BY <1>8, <2>3
    <3>3. QED
      BY <1>8, <1>n, <3>1, <3>2 DEF Standing, Calm
  <2>6. \A i \in SystemAlerts(k)' : Sets(sampled[raised'[i].at][k])
    BY <1>3, <1>8, <2>1, <2>2 DEF level
  <2>7. \A i, j \in SystemAlerts(k)' : i < j => Calm(k, raised'[i].at, raised'[j].at)
    <3> SUFFICES ASSUME NEW i \in SystemAlerts(k)', NEW j \in SystemAlerts(k)', i < j
                 PROVE  Calm(k, raised'[i].at, raised'[j].at)
      OBVIOUS
    <3>1. CASE j = new
      <4>1. i \in SystemAlerts(k)
        BY <1>8, <3>1
      <4>2. QED
        BY <1>8, <2>1, <2>4, <3>1, <4>1
    <3>2. CASE j # new
      <4>1. i \in SystemAlerts(k) /\ j \in SystemAlerts(k)
        BY <1>8, <3>2
      <4>2. QED
        BY <1>3, <2>1, <4>1
    <3>3. QED
      BY <3>1, <3>2
  <2>8. \A s \in 1 .. n : Sets(sampled[s][k]) =>
            \E i \in SystemAlerts(k)' : raised'[i].at <= s /\ ~Calm(k, raised'[i].at, s)
    <3>1. TAKE s \in 1 .. n
    <3>2. CASE s = n
      <4>1. new \in SystemAlerts(k)' /\ raised'[new].at = n /\ n <= n
        BY <1>8, <1>n
      <4>2. QED
        BY <2>3, <3>2, <4>1
    <3>3. CASE s # n
      <4>1. s \in 1 .. n - 1
        BY <1>n, <3>3
      <4>2. QED
        BY <1>3, <1>8, <2>1, <4>1
    <3>4. QED
      BY <3>2, <3>3
  <2>9. OneAlert(k)'
    BY <1>n, <2>6, <2>7, <2>8 DEF OneAlert, Calm
  <2>10. QED
    BY <2>5, <2>9
<1>9. QED
  BY <1>7, <1>8, <1>n

\* check goes from key to key; all but the one it looks at stay as they were.
LEMMA CheckKeyStep == ASSUME CheckInv, FeedTypes, CheckKey PROVE CheckInv'
<1> SUFFICES ASSUME NEW m, m = monitor PROVE CheckInv'
  OBVIOUS
<1> DEFINE x == [id |-> Len(raised) + 1, typ |-> "system", key |-> m, at |-> Len(sampled)]
<1>1. m \in 1 .. Len(Keys) /\ Len(sampled) \in Nat \ {0} /\ last = sampled[Len(sampled)]
  BY LenProperties DEF CheckKey, CheckInv, CheckTypes, FeedTypes
<1>2. /\ active' = [active EXCEPT ![m] = Transition(active[m], last[m])]
      /\ monitor' = IF monitor = Len(Keys) THEN 0 ELSE monitor + 1
      /\ UNCHANGED <<last, sampled>>
  BY DEF CheckKey
<1>3. active \in [1 .. Len(Keys) -> BOOLEAN] /\ Transition(active[m], last[m]) \in BOOLEAN
  BY <1>1 DEF CheckInv, CheckTypes, Transition
<1>4. /\ active'[m] = Transition(active[m], sampled[Len(sampled)][m])
      /\ \A k \in 1 .. Len(Keys) : k # m => active'[k] = active[k]
  BY <1>1, <1>2, <1>3
<1>5. CheckTypes'
  <2>1. monitor' \in 0 .. Len(Keys)
    BY <1>1, <1>2, KeysCount
  <2>2. active' \in [1 .. Len(Keys) -> BOOLEAN]
    BY <1>2, <1>3
  <2>3. QED
    BY <1>1, <1>2, <2>1, <2>2 DEF CheckTypes
<1>6. /\ Seen(m)' = Len(sampled)
      /\ \A k \in 1 .. Len(Keys) : k # m => Seen(k)' = Seen(k)
  BY <1>1, <1>2, KeysCount DEF Seen
<1>7. CASE UNCHANGED raised /\ (active[m] \/ ~active'[m])
  <2>1. \A k : SystemAlerts(k)' = SystemAlerts(k)
    BY <1>7 DEF SystemAlerts
  <2>2. \A k : \A i \in SystemAlerts(k) : raised'[i] = raised[i]
    BY <1>7
  <2>3. Standing(m)' /\ OneAlert(m)'
    BY <1>1, <1>2, <1>4, <1>6, <1>7, <2>1, <2>2, LookedAt
  <2>4. ASSUME NEW k \in 1 .. Len(Keys), k # m PROVE Standing(k)' /\ OneAlert(k)'
    <3>1. Standing(k) /\ OneAlert(k)
      BY DEF CheckInv
    <3>2. QED
      BY <1>2, <1>4, <1>6, <2>1, <2>2, <2>4, <3>1, OtherKey
  <2>5. QED
    BY <1>5, <2>3, <2>4 DEF CheckInv
<1>8. CASE raised' = Append(raised, x) /\ ~active[m] /\ active'[m]
  <2>1. x.typ = "system" /\ x.key = m /\ x.at = Len(sampled)
    OBVIOUS
  <2>2. x \in Alerts
    BY <1>1, LenProperties DEF Alerts, FeedTypes
  <2> HIDE DEF x
  <2>3. /\ Len(raised) \in Nat /\ Len(raised') = Len(raised) + 1
        /\ \A i \in 1 .. Len(raised) : raised'[i] = raised[i]
        /\ raised'[Len(raised) + 1] = x
    BY <1>8, <2>2, AppendProperties, LenProperties DEF FeedTypes
  <2>4. \A k : SystemAlerts(k)' = SystemAlerts(k) \union
                   (IF x.typ = "system" /\ x.key = k THEN {Len(raised) + 1} ELSE {})
    BY <2>3, GrownFeed
  <2>5. \A k : \A i \in SystemAlerts(k) : i \in 1 .. Len(raised) /\ raised'[i] = raised[i]
    BY <2>3 DEF SystemAlerts
  <2>6. Standing(m)' /\ OneAlert(m)'
    <3> DEFINE new == Len(raised) + 1
    <3>1. SystemAlerts(m)' = SystemAlerts(m) \union {new} /\ raised'[new].at = Len(sampled)
      BY <2>1, <2>3, <2>4
    <3>2. (\A i \in SystemAlerts(m) : i < new /\ ~(new < i)) /\ ~(new < new)
      BY <2>3, <2>5
    <3> HIDE DEF new
    <3>3. \E n : /\ ~active[m] /\ active'[m]
                 /\ SystemAlerts(m)' = SystemAlerts(m) \union {n}
                 /\ raised'[n].at = Len(sampled)
                 /\ \A i \in SystemAlerts(m) : i < n /\ ~(n < i)
                 /\ ~(n < n)
      BY <1>8, <3>1, <3>2
    <3>4. QED
      BY <1>1, <1>2, <1>4, <1>6, <2>5, <3>3, LookedAt
  <2>7. ASSUME NEW k \in 1 .. Len(Keys), k # m PROVE Standing(k)' /\ OneAlert(k)'
    <3>1. Standing(k) /\ OneAlert(k)
      BY DEF CheckInv
    <3>2. SystemAlerts(k)' = SystemAlerts(k)
      BY <2>1, <2>4, <2>7
    <3>3. QED
      BY <1>2, <1>4, <1>6, <2>5, <2>7, <3>1, <3>2, OtherKey
  <2>8. QED
    BY <1>5, <2>6, <2>7 DEF CheckInv
<1>9. (UNCHANGED raised /\ (active[m] \/ ~active'[m]))
        \/ (raised' = Append(raised, x) /\ ~active[m] /\ active'[m])
  <2> DEFINE now == Transition(active[m], last[m])
  <2>1. active'[m] = now
    BY <1>1, <1>4
  <2>2. CASE now /\ ~active[m]
    <3> DEFINE alert == [id |-> 0, typ |-> "system", key |-> m, at |-> Len(sampled)]
    <3>1. Add("monitor", alert)
      BY <2>2 DEF CheckKey
    <3>2. [alert EXCEPT !.id = Len(raised) + 1] = x
      OBVIOUS
    <3> HIDE DEF alert, x
    <3>3. QED
      BY <2>1, <2>2, <3>1, <3>2 DEF Add
  <2>3. CASE ~(now /\ ~active[m])
    BY <2>1, <2>3 DEF CheckKey, stream
  <2>4. QED
    BY <2>2, <2>3
<1>10. QED
  BY <1>7, <1>8, <1>9

\* A daemon that has just started has neither samples nor alerts.
LEMMA CheckStarts ==
    ASSUME raised = <<>>, sampled = <<>>, monitor = 0, active = [k \in 1 .. Len(Keys) |-> FALSE]
    PROVE  CheckInv
<1>1. Len(raised) = 0 /\ Len(sampled) = 0
  BY EmptySeq
<1>2. \A k : SystemAlerts(k) = {}
  BY <1>1 DEF SystemAlerts
<1>3. CheckTypes
  BY KeysCount DEF CheckTypes
<1>4. QED
  BY <1>1, <1>2, <1>3 DEF CheckInv, Standing, OneAlert, Seen

LEMMA CheckStartsAgain ==
    ASSUME raised' = <<>>, sampled' = <<>>, monitor' = 0,
           active' = [k \in 1 .. Len(Keys) |-> FALSE]
    PROVE  CheckInv'
<1>1. Len(raised') = 0 /\ Len(sampled') = 0
  BY EmptySeq
<1>2. \A k : SystemAlerts(k)' = {}
  BY <1>1 DEF SystemAlerts
<1>3. CheckTypes'
  BY KeysCount DEF CheckTypes
<1>4. QED
  BY <1>1, <1>2, <1>3 DEF CheckInv, Standing, OneAlert, Seen

checked == <<raised, health>>

LEMMA CheckUntouched == ASSUME CheckInv, RingInv, UNCHANGED checked PROVE CheckInv' /\ RingInv'
BY CheckSame, RingSame DEF checked, health

LEMMA MonitorInvStep == ASSUME CheckInv, RingInv, FeedTypes, [Next]_vars PROVE CheckInv' /\ RingInv'
<1>1. ASSUME NEW p \in Pollers, Enter(p) PROVE CheckInv' /\ RingInv'
  <2> DEFINE x == [id |-> Len(raised) + 1, typ |-> "block", diff |-> poll[p].best, stay |-> stays]
  <2>1. UNCHANGED health
    BY <1>1 DEF Enter
  <2>2. UNCHANGED raised \/ raised' = Append(raised, x)
    BY <1>1 DEF Enter, Add, stream
  <2>3. x.typ # "system"
    OBVIOUS
  <2> HIDE DEF x
  <2>4. QED
    BY <2>1, <2>2, <2>3, CheckUntouched, OtherAlertCheck, RingSame DEF checked, health
<1>2. CASE Monitors
  <2>1. CASE Sample
    BY <2>1, SampleCheck, SampleRing
  <2>2. CASE CheckKey
    <3>1. UNCHANGED <<hist, histIdx, histCount, sampled>>
      BY <2>2 DEF CheckKey
    <3>2. QED
      BY <2>2, <3>1, CheckKeyStep, RingSame
  <2>3. QED
    BY <1>2, <2>1, <2>2 DEF Monitors
<1>3. ASSUME NEW h \in Handlers, SetupAnnounced(h) PROVE CheckInv' /\ RingInv'
  <2> DEFINE x == [id |-> Len(raised) + 1, typ |-> "setup"]
  <2>1. UNCHANGED health
    BY <1>3 DEF SetupAnnounced
  <2>2. raised' = Append(raised, x)
    BY <1>3 DEF SetupAnnounced, Add, Alert
  <2>3. x.typ # "system"
    OBVIOUS
  <2> HIDE DEF x
  <2>4. QED
    BY <2>1, <2>2, <2>3, OtherAlertCheck, RingSame DEF health
<1>4. CASE Restart
  <2>1. HealthForgets /\ raised' = <<>>
    BY <1>4 DEF Restart, StreamForgets
  <2>2. QED
    BY <2>1, CheckStartsAgain, ForgetRing DEF HealthForgets
<1>5. ASSUME NEW a \in Adders, Notifies(a) PROVE CheckInv' /\ RingInv'
  BY <1>5, CheckUntouched DEF Notifies, Notify, feed, checked
<1>6. ASSUME NEW c \in Clients,
             Connect(c) \/ FirstSums(c) \/ FirstWrites(c) \/ Read(c) \/ Disconnect(c)
      PROVE  CheckInv' /\ RingInv'
  <2>1. UNCHANGED checked
    BY <1>6 DEF Connect, Subscribe, FirstSums, FirstWrites, Read, Receive, Disconnect, Leave,
                feed, checked
  <2>2. QED
    BY <2>1, CheckUntouched
<1>7. CASE Tick \/ LoopSums \/ LoopRest \/ LoopSends \/ (\E p \in Pollers : Answer(p))
  <2>1. UNCHANGED checked
    BY <1>7 DEF Tick, LoopSums, LoopRest, LoopSends, Answer, stream, feed, checked
  <2>2. QED
    BY <2>1, CheckUntouched
<1>8. CASE NodeLoop \/ Requests \/ AsksPeers \/ NodeChanges \/ Share \/ Remove \/ AddMiner
  <2>1. UNCHANGED checked
    BY <1>8 DEF NodeLoop, Requests, AsksPeers, NodeChanges, Share, Remove, AddMiner, stream, checked
  <2>2. QED
    BY <2>1, CheckUntouched
<1>9. CASE UNCHANGED vars
  BY <1>9, CheckUntouched DEF vars, stream, checked
<1>10. QED
  BY <1>1, <1>2, <1>3, <1>4, <1>5, <1>6, <1>7, <1>8, <1>9 DEF Next, Loop

LEMMA RingStarts == ASSUME HealthInit PROVE RingInv
<1>1. /\ hist = [i \in 0 .. HistLen - 1 |-> NoReading] /\ histIdx = 0 /\ histCount = 0
      /\ sampled = <<>>
  BY DEF HealthInit
<1>2. QED
  BY <1>1, EmptySeq, HealthAssumption DEF RingInv

LEMMA MonitorStarts == Init => CheckInv /\ RingInv
  BY CheckStarts, RingStarts DEF Init, StreamInit, HealthInit

LEMMA AlertsRight == ASSUME CheckInv, FeedTypes PROVE OneAlertPerExcursion
<1> SUFFICES ASSUME NEW k \in 1 .. Len(Keys), NEW s \in 1 .. Len(sampled), Sets(sampled[s][k]),
                    s < Len(sampled) \/ monitor = 0 \/ monitor > k
             PROVE  \E i \in SystemAlerts(k) : raised[i].at <= s /\ ~Calm(k, raised[i].at, s)
  BY DEF OneAlertPerExcursion, CheckInv, OneAlert
<1>1. s \in 1 .. Seen(k)
  BY LenProperties DEF Seen, FeedTypes
<1>2. QED
  BY <1>1 DEF CheckInv, OneAlert

\* The chart shows the newest samples in order, and each excursion of a key over
\* its limit is announced once, for any length of the ring, any keys and any
\* samples.
THEOREM MonitorTells == Spec => []MonitorFaithful
<1> DEFINE Inv == FeedInv /\ CheckInv /\ RingInv
<1>1. Init => Inv
  BY FeedStarts, MonitorStarts
<1>2. Inv /\ [Next]_vars => Inv'
  BY FeedStep, MonitorInvStep DEF FeedInv
<1>3. Inv => MonitorFaithful
  BY AlertsRight, ChartRight DEF FeedInv, MonitorFaithful
<1>4. QED
  BY <1>1, <1>2, <1>3, PTL DEF Spec

-----------------------------------------------------------------------------
(* Types *)

\* What Refresh hands on is one of the difficulties bitcoind reports, and an
\* address is cached from one of the two sources.
RefreshInv ==
    /\ local = "here" /\ seen = "there"
    /\ refresh # None => refresh.difficulty \in 0 .. 2
    /\ netDiff \in 0 .. 2 /\ public \in {None, "here", "there"}

LEMMA RefreshUntouched == ASSUME RefreshInv, UNCHANGED node PROVE RefreshInv'
BY DEF RefreshInv, node

LEMMA RefreshesKeep == ASSUME RefreshInv, Refreshes PROVE RefreshInv'
<1>1. CASE RefreshFails
  BY <1>1 DEF RefreshInv, RefreshFails
<1>2. CASE RefreshChain
  <2>1. refresh'.difficulty \in 0 .. 2 /\ UNCHANGED <<local, seen, public, netDiff>>
    BY <1>2 DEF RefreshChain, Difficulty
  <2>2. QED
    BY <2>1 DEF RefreshInv
<1>3. CASE RefreshNetwork
  <2>1. refresh'.difficulty = refresh.difficulty /\ refresh # None
    BY <1>3 DEF RefreshNetwork
  <2>2. public' \in {local, public} /\ UNCHANGED <<local, seen, netDiff>>
    BY <1>3 DEF RefreshNetwork
  <2>3. QED
    BY <2>1, <2>2 DEF RefreshInv
<1>4. CASE RefreshEnds
  <2>1. netDiff' = refresh.difficulty /\ refresh # None /\ refresh' = None
        /\ UNCHANGED <<local, seen, public>>
    BY <1>4 DEF RefreshEnds
  <2>2. QED
    BY <2>1 DEF RefreshInv
<1>5. QED
  BY <1>1, <1>2, <1>3, <1>4 DEF Refreshes

LEMMA RefreshStep == ASSUME RefreshInv, [Next]_vars PROVE RefreshInv'
<1>1. CASE NodeLoop
  BY <1>1, RefreshesKeep DEF NodeLoop
<1>2. CASE AsksPeers
  BY <1>2 DEF AsksPeers, Peers, RefreshInv
<1>3. CASE NodeChanges
  BY <1>3 DEF NodeChanges, ChainChanges, RefreshInv
<1>4. CASE Restart
  <2>1. UNCHANGED <<local, seen>>
        /\ (UNCHANGED node \/ (refresh' = None /\ public' = None /\ netDiff' = 0))
    BY <1>4 DEF Restart, NodeForgets, node
  <2>2. QED
    BY <2>1 DEF RefreshInv, node
<1>5. CASE Loop
  BY <1>5, RefreshUntouched DEF Loop, Tick, LoopSums, LoopRest, LoopSends, Answer, Enter
<1>6. CASE Monitors \/ Requests \/ Share \/ Remove \/ AddMiner
  BY <1>6, RefreshUntouched DEF Monitors, Requests, Share, Remove, AddMiner
<1>7. CASE \E h \in Handlers : SetupAnnounced(h)
  BY <1>7, RefreshUntouched DEF SetupAnnounced
<1>8. CASE \E a \in Adders : Notifies(a)
  BY <1>8, RefreshUntouched DEF Notifies
<1>9. ASSUME NEW c \in Clients,
             Connect(c) \/ FirstSums(c) \/ FirstWrites(c) \/ Read(c) \/ Disconnect(c)
      PROVE  RefreshInv'
  BY <1>9, RefreshUntouched DEF Connect, FirstSums, FirstWrites, Read, Disconnect
<1>10. CASE UNCHANGED vars
  BY <1>10, RefreshUntouched DEF vars
<1>11. QED
  BY <1>1, <1>2, <1>3, <1>4, <1>5, <1>6, <1>7, <1>8, <1>9, <1>10 DEF Next

PhaseInv == phase \in {"wait", "poll", "rest", "send"}

LEMMA PhaseStep == ASSUME PhaseInv, [Next]_vars PROVE PhaseInv'
<1>1. CASE Tick \/ LoopSums \/ LoopRest \/ LoopSends \/ Restart
  BY <1>1 DEF Tick, LoopSums, LoopRest, LoopSends, Restart, PhaseInv
<1>2. ASSUME ~(Tick \/ LoopSums \/ LoopRest \/ LoopSends \/ Restart), Next PROVE UNCHANGED phase
  <2>1. CASE \E p \in Pollers : Answer(p) \/ Enter(p)
    BY <2>1 DEF Answer, Enter
  <2>2. CASE NodeLoop \/ Monitors \/ Requests \/ AsksPeers \/ NodeChanges
    BY <2>2 DEF NodeLoop, Monitors, Requests, AsksPeers, NodeChanges
  <2>3. CASE Share \/ Remove \/ AddMiner
    BY <2>3 DEF Share, Remove, AddMiner
  <2>4. CASE (\E h \in Handlers : SetupAnnounced(h)) \/ (\E a \in Adders : Notifies(a))
    BY <2>4 DEF SetupAnnounced, Notifies
  <2>5. CASE \E c \in Clients :
               Connect(c) \/ FirstSums(c) \/ FirstWrites(c) \/ Read(c) \/ Disconnect(c)
    BY <2>5 DEF Connect, FirstSums, FirstWrites, Read, Disconnect
  <2>6. QED
    BY <1>2, <2>1, <2>2, <2>3, <2>4, <2>5 DEF Next, Loop
<1>3. QED
  BY <1>1, <1>2 DEF vars, PhaseInv

\* The feed and the channels stay within their bounds, the ring's index within
\* the ring, the difficulty and the public address are what bitcoind told, and
\* only tokens that were issued end.
THEOREM ConsoleTypes == Spec => []TypeOK
<1> DEFINE Inv == /\ FeedInv /\ StreamInv /\ CheckInv /\ RingInv
                  /\ SessionInv /\ RefreshInv /\ PhaseInv
<1>1. Init => Inv
  <2> SUFFICES ASSUME Init PROVE Inv
    OBVIOUS
  <2>1. SessionInv
    BY DEF Init, SessionsInit, SessionInv
  <2>2. RefreshInv
    BY DEF Init, NodeStarts, NodeKnown, RefreshInv
  <2>3. PhaseInv
    BY DEF Init, PhaseInv
  <2>4. QED
    BY <2>1, <2>2, <2>3, FeedStarts, StreamStarts, MonitorStarts
<1>2. Inv /\ [Next]_vars => Inv'
  BY FeedStep, StreamStep, MonitorInvStep, OnlyAuthSteps, SessionStep, RefreshStep, PhaseStep
  DEF FeedInv
<1>3. Inv => TypeOK
  <2> SUFFICES ASSUME Inv PROVE TypeOK
    OBVIOUS
  <2>1. Len(items) <= Keep
    BY StreamAssumption, LenProperties DEF FeedInv, FeedTypes, FeedKeepsNewest
  <2>2. \A c \in Clients : conn[c] \in {"off", "subscribed", "summed", "live"}
                           /\ Len(chan[c]) <= Cap
    BY DEF StreamInv, StreamTypes
  <2>3. histIdx \in 0 .. HistLen - 1 /\ histCount \in 0 .. HistLen
    BY HealthAssumption, LenProperties DEF RingInv, FeedInv, FeedTypes
  <2>4. monitor \in 0 .. Len(Keys)
    BY DEF CheckInv, CheckTypes
  <2>5. QED
    BY <2>1, <2>2, <2>3, <2>4 DEF TypeOK, RefreshInv, PhaseInv, SessionInv
<1>4. QED
  BY <1>1, <1>2, <1>3, PTL DEF Spec
=============================================================================
