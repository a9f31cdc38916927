--------------------------- MODULE SessionsProofs ---------------------------
(***************************************************************************)
(* What holds of Sessions for any tokens, addresses, users, requests and   *)
(* timeouts, and without any bound on time or on the number of processes:  *)
(* sessions that were logged out stay away, idle ones are refused, and the *)
(* others are there.  One inductive invariant gives all three.  A second   *)
(* one bounds the logins that get to the password.                         *)
(***************************************************************************)
EXTENDS Sessions, LoopProofs, FiniteSetTheorems, TLAPS

HoldsToken == {"csrf", "token", "handle", "logout token", "logout"}

\* The part of SessionsTypeOK that the argument needs.
Types ==
    /\ clock \in Nat \ {0}
    /\ sessions \in [Tokens -> Nat]
    /\ file \in [Tokens -> Nat]
    /\ start \in {"new", "loaded", "serving"}
    /\ req \in [Requests -> RequestState]
    /\ lastUse \in [Tokens -> Nat]
    /\ out \subseteq Tokens /\ gone \subseteq Tokens
    /\ unsaved \subseteq Tokens /\ lost \subseteq Tokens

\* Nothing lasts longer than a timeout after the last use, in memory or in the
\* file.
NeverLonger ==
    \A t \in Tokens : /\ lastUse[t] <= clock
                      /\ sessions[t] <= lastUse[t] + SessionTimeout
                      /\ file[t] <= lastUse[t] + SessionTimeout

\* A session that was logged out is not in memory, nor in the file once that
\* was written after the logout.
Away ==
    /\ \A t \in out \union gone : sessions[t] = None /\ lastUse[t] # None
    /\ \A t \in gone : file[t] = None

\* Before Start has loaded the sessions nobody has asked for one.
NewIsEmpty ==
    start = "new" =>
        /\ out = {} /\ unsaved = {}
        /\ \A r \in Requests : req[r] = Idle
        /\ \A t \in Tokens : sessions[t] = None

\* A request that holds a token holds one that was given out.
TokensIssued ==
    \A r \in Requests : req[r].at \in HoldsToken => lastUse[req[r].token] # None

\* e is the expiry that the last use gave t, or it is over.
Right(t, e) ==
    \/ e = lastUse[t] + SessionTimeout
    \/ e = None /\ clock >= lastUse[t] + SessionTimeout

\* What is to be in memory and in the file.
StillThere ==
    \A t \in Tokens \ (gone \union lost) :
        lastUse[t] # None =>
            /\ t \notin out /\ start # "new" => Right(t, sessions[t])
            /\ t \notin unsaved => Right(t, file[t])

SessionsInv == Types /\ NeverLonger /\ Away /\ NewIsEmpty /\ TokensIssued /\ StillThere
-----------------------------------------------------------------------------
(* Requests.                                                               *)

USE SessionsAssumption DEF None

\* What a request can be at.
LEMMA States ==
    /\ Idle \in RequestState /\ Idle.at = "idle"
    /\ [at : {"user", "check"}, user : Users] \subseteq RequestState
    /\ [at : HoldsToken, token : Tokens] \subseteq RequestState
BY DEF RequestState, Idle, HoldsToken

\* A request that is past its session check carries a token.
LEMMA Holder ==
    ASSUME NEW s \in RequestState, s.at \in HoldsToken
    PROVE  s \in [at : HoldsToken, token : Tokens] /\ s.token \in Tokens
<1>1. CASE s = Idle
  <2>1. s.at = "idle"  BY <1>1 DEF Idle
  <2>2. "idle" \notin HoldsToken  BY DEF HoldsToken
  <2> QED  BY <2>1, <2>2
<1>2. CASE s \in [at : {"user", "check"}, user : Users]
  <2>1. s.at \in {"user", "check"}  BY <1>2
  <2> QED  BY <2>1 DEF HoldsToken
<1>3. CASE s \in [at : HoldsToken, token : Tokens]
  <2>1. s.token \in Tokens  BY <1>3
  <2> QED  BY <1>3, <2>1
<1> QED  BY <1>1, <1>2, <1>3 DEF RequestState, HoldsToken

\* One that is not yet past the login carries a user.
LEMMA Trier ==
    ASSUME NEW s \in RequestState, s.at = "user"
    PROVE  s \in [at : {"user", "check"}, user : Users]
<1>1. CASE s = Idle
  BY <1>1 DEF Idle
<1>2. CASE s \in [at : HoldsToken, token : Tokens]
  <2>1. s.at \in HoldsToken  BY <1>2
  <2> QED  BY <2>1 DEF HoldsToken
<1> QED  BY <1>1, <1>2 DEF RequestState, HoldsToken

\* A request that is under way finds the server started.
LEMMA NotNew ==
    ASSUME SessionsInv, NEW r \in Requests, req[r].at # "idle"
    PROVE  start # "new"
BY States DEF SessionsInv, NewIsEmpty

\* A step that moves one request only.
LEMMA RequestStep ==
    ASSUME SessionsInv, start # "new",
           NEW r \in Requests, NEW s \in RequestState,
           req' = [req EXCEPT ![r] = s],
           s.at \in HoldsToken => lastUse[s.token] # None,
           UNCHANGED <<clock, sessions, file, start, lastUse, out, gone, unsaved, lost>>
    PROVE  SessionsInv'
<1>1. Types'  BY DEF SessionsInv, Types
<1>2. NeverLonger'  BY DEF SessionsInv, NeverLonger
<1>3. Away'  BY DEF SessionsInv, Away
<1>4. NewIsEmpty'  BY DEF NewIsEmpty
<1>5. TokensIssued'  BY DEF SessionsInv, TokensIssued, Types
<1>6. StillThere'  BY DEF SessionsInv, StillThere, Right
<1> QED  BY <1>1, <1>2, <1>3, <1>4, <1>5, <1>6 DEF SessionsInv

\* A step that validates the session of t, whatever it does to the requests.
LEMMA ValidateStep ==
    ASSUME SessionsInv, start # "new",
           NEW t \in Tokens, lastUse[t] # None, Validate(t),
           req' \in [Requests -> RequestState],
           \A r \in Requests : req'[r].at \in HoldsToken =>
               \/ req'[r].token = t
               \/ req[r].at \in HoldsToken /\ req'[r].token = req[r].token,
           UNCHANGED <<clock, file, start, out, gone, lost>>
    PROVE  SessionsInv'
<1>1. Types'
  BY DEF SessionsInv, Types, Validate
<1>2. NeverLonger'
  BY DEF SessionsInv, NeverLonger, Types, Validate, Live
<1>3. Away'
  BY DEF SessionsInv, Away, Types, Validate, Live
<1>4. NewIsEmpty'
  BY DEF NewIsEmpty
<1>5. TokensIssued'
  BY DEF SessionsInv, TokensIssued, Types, Validate
<1>6. StillThere'
  <2> SUFFICES ASSUME NEW u \in Tokens \ (gone \union lost), lastUse'[u] # None
               PROVE  /\ u \notin out => Right(u, sessions[u])'
                      /\ u \notin unsaved' => Right(u, file[u])'
    BY DEF StillThere
  <2>1. CASE u # t
    BY <2>1 DEF SessionsInv, StillThere, Types, Validate, Right
  <2>2. CASE u = t /\ Live(t)
    BY <2>2 DEF SessionsInv, Types, Validate, Right
  <2>3. CASE u = t /\ ~Live(t)
    BY <2>3 DEF SessionsInv, StillThere, Types, Validate, Right, Live
  <2> QED  BY <2>1, <2>2, <2>3
<1> QED  BY <1>1, <1>2, <1>3, <1>4, <1>5, <1>6 DEF SessionsInv
-----------------------------------------------------------------------------
(* The steps of requests that change the sessions.                         *)

\* CreateSession draws a token that was never given out.
LEMMA LoginSucceedsStep ==
    ASSUME SessionsInv, NEW r \in Requests, NEW t \in Tokens, LoginSucceeds(r, t)
    PROVE  SessionsInv'
<1>0. start # "new" /\ lastUse[t] = None /\ t \notin out \union gone
  BY NotNew DEF LoginSucceeds, Issued, SessionsInv, Away
<1>1. Types'
  BY States DEF SessionsInv, Types, LoginSucceeds
<1>2. NeverLonger'
  BY <1>0 DEF SessionsInv, NeverLonger, Types, LoginSucceeds
<1>3. Away'
  BY <1>0 DEF SessionsInv, Away, Types, LoginSucceeds
<1>4. NewIsEmpty'
  BY <1>0 DEF NewIsEmpty, LoginSucceeds
<1>5. TokensIssued'
  BY States, Holder DEF SessionsInv, TokensIssued, Types, LoginSucceeds, HoldsToken
<1>6. StillThere'
  BY <1>0 DEF SessionsInv, StillThere, Types, LoginSucceeds, Right
<1> QED  BY <1>1, <1>2, <1>3, <1>4, <1>5, <1>6 DEF SessionsInv

\* RevokeSession.
LEMMA RevokeStep ==
    ASSUME SessionsInv, NEW r \in Requests, Revoke(r)
    PROVE  SessionsInv'
<1> DEFINE t == req[r].token
<1>0. start # "new" /\ t \in Tokens /\ lastUse[t] # None
  <2>1. req[r].at \in HoldsToken /\ req[r].at # "idle"  BY DEF Revoke, HoldsToken
  <2>2. req[r] \in RequestState  BY DEF SessionsInv, Types
  <2> QED  BY <2>1, <2>2, NotNew, Holder DEF SessionsInv, TokensIssued
<1> HIDE DEF t
<1>a. /\ sessions' = [sessions EXCEPT ![t] = None] /\ out' = out \union {t}
      /\ req' = [req EXCEPT ![r] = Idle]
      /\ UNCHANGED <<clock, file, start, lastUse, gone, unsaved, lost>>
  BY DEF Revoke, t
<1>1. Types'
  BY <1>0, <1>a, States DEF SessionsInv, Types
<1>2. NeverLonger'
  BY <1>0, <1>a DEF SessionsInv, NeverLonger, Types
<1>3. Away'
  BY <1>0, <1>a DEF SessionsInv, Away, Types
<1>4. NewIsEmpty'
  BY <1>0, <1>a DEF NewIsEmpty
<1>5. TokensIssued'
  BY <1>a, States DEF SessionsInv, TokensIssued, Types, HoldsToken
<1>6. StillThere'
  BY <1>0, <1>a DEF SessionsInv, StillThere, Types, Right
<1> QED  BY <1>1, <1>2, <1>3, <1>4, <1>5, <1>6 DEF SessionsInv

\* One step of a request.
LEMMA ServeStep ==
    ASSUME SessionsInv, NEW r \in Requests, Serve(r) \/ Handled(r)
    PROVE  SessionsInv'
<1>0. /\ TokensIssued
      /\ req \in [Requests -> RequestState] /\ req[r] \in RequestState
  BY DEF SessionsInv, Types
<1>1. CASE \E ip \in IPs, u \in Users : Login(r, ip, u)
  <2> PICK ip \in IPs, u \in Users : Login(r, ip, u)  BY <1>1
  <2> DEFINE s == [at |-> "user", user |-> u]
  <2>1. s \in RequestState  BY States
  <2>2. s.at \notin HoldsToken  BY DEF HoldsToken
  <2>3. req' = [req EXCEPT ![r] = s] /\ start # "new"  BY DEF Login, Accepts
  <2>4. UNCHANGED <<clock, sessions, file, start, lastUse, out, gone, unsaved, lost>>
    BY DEF Login, history
  <2> QED  BY <2>1, <2>2, <2>3, <2>4, RequestStep
<1>2. CASE LoginUser(r)
  <2> DEFINE s == [req[r] EXCEPT !.at = "check"]
  <2>1. req[r] \in [at : {"user", "check"}, user : Users]
    BY <1>0, <1>2, Trier DEF LoginUser
  <2>2. s \in RequestState /\ s.at = "check"  BY <2>1, States
  <2>3. req' = [req EXCEPT ![r] = s]  BY <1>2 DEF LoginUser
  <2>4. start # "new"  BY <1>2, NotNew DEF LoginUser
  <2>5. UNCHANGED <<clock, sessions, file, start, lastUse, out, gone, unsaved, lost>>
    BY <1>2 DEF LoginUser
  <2>6. s.at \notin HoldsToken  BY <2>2 DEF HoldsToken
  <2> HIDE DEF s
  <2> QED  BY <2>2, <2>3, <2>4, <2>5, <2>6, RequestStep
<1>3. CASE LoginFails(r) \/ Handled(r)
  <2>1. start # "new"  BY <1>3, NotNew DEF LoginFails, Handled
  <2>2. Idle \in RequestState /\ Idle.at \notin HoldsToken
    BY States DEF HoldsToken
  <2>3. /\ req' = [req EXCEPT ![r] = Idle]
        /\ UNCHANGED <<clock, sessions, file, start, lastUse, out, gone, unsaved, lost>>
    BY <1>3 DEF LoginFails, Handled, history
  <2> QED  BY <2>1, <2>2, <2>3, RequestStep
<1>4. CASE \E t \in Tokens : LoginSucceeds(r, t)
  BY <1>4, LoginSucceedsStep
<1>5. CASE \E t \in Issued : Post(r, t) \/ Logout(r, t)
  <2> PICK t \in Issued : Post(r, t) \/ Logout(r, t)  BY <1>5
  <2>1. t \in Tokens /\ lastUse[t] # None  BY DEF Issued
  <2>2. PICK a \in HoldsToken :
            req' = req \/ req' = [req EXCEPT ![r] = [at |-> a, token |-> t]]
    BY DEF Post, Logout, HoldsToken
  <2> DEFINE s == [at |-> a, token |-> t]
  <2>3. s \in RequestState /\ s.token = t  BY <2>1, States
  <2> HIDE DEF s
  <2>4. req' = req \/ req' = [req EXCEPT ![r] = s]  BY <2>2 DEF s
  <2>5. req' \in [Requests -> RequestState]  BY <1>0, <2>3, <2>4
  <2>6. \A q \in Requests : req'[q].at \in HoldsToken =>
            \/ req'[q].token = t
            \/ req[q].at \in HoldsToken /\ req'[q].token = req[q].token
    BY <1>0, <2>3, <2>4
  <2>7. Validate(t) /\ start # "new"
        /\ UNCHANGED <<clock, file, start, out, gone, lost>>
    BY DEF Post, Logout, Accepts
  <2> QED  BY <2>1, <2>5, <2>6, <2>7, ValidateStep
<1>6. CASE CheckSession(r)
  <2> DEFINE t == req[r].token
  <2>1. req[r] \in [at : HoldsToken, token : Tokens] /\ t \in Tokens
    BY <1>0, <1>6, Holder DEF CheckSession, HoldsToken
  <2>2. lastUse[t] # None
    BY <1>0, <1>6 DEF CheckSession, HoldsToken, TokensIssued
  <2>3. PICK a \in HoldsToken : req' = [req EXCEPT ![r] = [req[r] EXCEPT !.at = a]]
    BY <1>0, <1>6 DEF CheckSession, HoldsToken
  <2> DEFINE s == [req[r] EXCEPT !.at = a]
  <2>4. s \in RequestState /\ s.token = t  BY <2>1, States
  <2> HIDE DEF s
  <2>5. req' = [req EXCEPT ![r] = s]  BY <2>3 DEF s
  <2>6. req' \in [Requests -> RequestState]  BY <1>0, <2>4, <2>5
  <2>7. \A q \in Requests : req'[q].at \in HoldsToken =>
            \/ req'[q].token = t
            \/ req[q].at \in HoldsToken /\ req'[q].token = req[q].token
    BY <1>0, <2>4, <2>5
  <2>8. start # "new"  BY <1>6, NotNew DEF CheckSession
  <2>9. Validate(t) /\ UNCHANGED <<clock, file, start, out, gone, lost>>
    BY <1>6 DEF CheckSession
  <2> QED  BY <2>1, <2>2, <2>6, <2>7, <2>8, <2>9, ValidateStep
<1>7. CASE \E right \in BOOLEAN : CheckToken(r, right)
  <2> PICK right \in BOOLEAN : CheckToken(r, right)  BY <1>7
  <2> DEFINE t == req[r].token
  <2>1. req[r] \in [at : HoldsToken, token : Tokens]
    BY <1>0, Holder DEF CheckToken, HoldsToken
  <2>2. lastUse[t] # None
    BY <1>0 DEF CheckToken, HoldsToken, TokensIssued
  <2>3. PICK s \in {Idle} \union {[req[r] EXCEPT !.at = a] : a \in HoldsToken} :
            req' = [req EXCEPT ![r] = s]
    BY <1>0 DEF CheckToken, HoldsToken
  <2>4. s \in RequestState /\ (s.at \in HoldsToken => s.token = t)
    <3>1. CASE s = Idle
      BY <3>1, States DEF HoldsToken
    <3>2. CASE \E a \in HoldsToken : s = [req[r] EXCEPT !.at = a]
      BY <3>2, <2>1, States
    <3> QED  BY <2>3, <3>1, <3>2
  <2>5. start # "new"  BY NotNew DEF CheckToken
  <2>6. UNCHANGED <<clock, sessions, file, start, lastUse, out, gone, unsaved, lost>>
    BY DEF CheckToken, history
  <2> QED  BY <2>2, <2>3, <2>4, <2>5, <2>6, RequestStep
<1>8. CASE Revoke(r)  BY <1>8, RevokeStep
<1> QED  BY <1>1, <1>2, <1>3, <1>4, <1>5, <1>6, <1>7, <1>8 DEF Serve
-----------------------------------------------------------------------------
(* The life of the server.                                                 *)

\* LoadSessions takes over what the file has and has not expired.
LEMMA LoadStep ==
    ASSUME SessionsInv, Load
    PROVE  SessionsInv'
<1>1. Types'  BY DEF SessionsInv, Types, Load, LoadSessions, history
<1>2. NeverLonger'  BY DEF SessionsInv, NeverLonger, Types, Load, LoadSessions, history
<1>3. Away'  BY DEF SessionsInv, Away, Types, NewIsEmpty, Load, LoadSessions, history
<1>4. NewIsEmpty'  BY DEF NewIsEmpty, Load
<1>5. TokensIssued'  BY DEF SessionsInv, TokensIssued, Load, history
<1>6. StillThere'
  BY DEF SessionsInv, StillThere, Types, NewIsEmpty, Right, Load, LoadSessions, history
<1> QED  BY <1>1, <1>2, <1>3, <1>4, <1>5, <1>6 DEF SessionsInv

\* SaveSessions writes what is in memory and has not expired; before Start has
\* loaded that is nothing.
LEMMA SaveStep ==
    ASSUME SessionsInv, Save
    PROVE  SessionsInv'
<1>1. Types'  BY DEF SessionsInv, Types, Save, SaveSessions, Issued
<1>2. NeverLonger'  BY DEF SessionsInv, NeverLonger, Types, Save, SaveSessions
<1>3. Away'  BY DEF SessionsInv, Away, Types, Save, SaveSessions
<1>4. NewIsEmpty'  BY DEF SessionsInv, NewIsEmpty, Save
<1>5. TokensIssued'  BY DEF SessionsInv, TokensIssued, Save
<1>6. StillThere'
  BY DEF SessionsInv, StillThere, Types, NewIsEmpty, Right, Save, SaveSessions, Issued
<1> QED  BY <1>1, <1>2, <1>3, <1>4, <1>5, <1>6 DEF SessionsInv

\* A process ends: the next one has the file, or one that does not decode.
LEMMA EndStep ==
    ASSUME SessionsInv, Exit \/ Crash \/ CrashInSave
    PROVE  SessionsInv'
<1>0. /\ \/ file' = file /\ lost' = lost \union unsaved
         \/ file' = [t \in Tokens |-> None] /\ lost' = lost \union unsaved \union Issued
      /\ sessions' = [t \in Tokens |-> None] /\ start' = "new"
      /\ req' = [r \in Requests |-> Idle] /\ out' = {} /\ unsaved' = {}
      /\ UNCHANGED <<clock, lastUse, gone>>
  BY DEF Exit, Crash, CrashInSave, NextProcess
<1>1. Types'  BY <1>0, States DEF SessionsInv, Types, Issued
<1>2. NeverLonger'  BY <1>0 DEF SessionsInv, NeverLonger, Types
<1>3. Away'  BY <1>0 DEF SessionsInv, Away, Types
<1>4. NewIsEmpty'  BY <1>0 DEF NewIsEmpty
<1>5. TokensIssued'  BY <1>0, States DEF TokensIssued, HoldsToken
<1>6. StillThere'  BY <1>0 DEF SessionsInv, StillThere, Types, Right, Issued
<1> QED  BY <1>1, <1>2, <1>3, <1>4, <1>5, <1>6 DEF SessionsInv

\* The listeners are made and closed, the ticker cleans up, time passes.
LEMMA QuietStep ==
    ASSUME SessionsInv, Listen \/ Drain \/ CleanupSessions \/ Tick
    PROVE  SessionsInv'
<1>0. /\ sessions' \in [Tokens -> Nat]
      /\ \A t \in Tokens : sessions'[t] = IF CleanupSessions /\ ~Live(t)
                                         THEN None ELSE sessions[t]
      /\ clock' \in {clock, clock + 1}
      /\ start' = start \/ (start = "loaded" /\ start' = "serving")
      /\ UNCHANGED <<file, req, lastUse, out, gone, unsaved, lost>>
  <2>1. CASE Listen  BY <2>1 DEF Listen, history, SessionsInv, Types, CleanupSessions
  <2>2. CASE Drain  BY <2>2 DEF Drain, history, SessionsInv, Types, CleanupSessions
  <2>3. CASE CleanupSessions
    BY <2>3 DEF CleanupSessions, history, SessionsInv, Types
  <2>4. CASE Tick
    BY <2>4 DEF Tick, history, memory, SessionsInv, Types, CleanupSessions
  <2> QED  BY <2>1, <2>2, <2>3, <2>4
<1>1. Types'  BY <1>0 DEF SessionsInv, Types
<1>2. NeverLonger'  BY <1>0 DEF SessionsInv, NeverLonger, Types
<1>3. Away'  BY <1>0 DEF SessionsInv, Away, Types
<1>4. NewIsEmpty'  BY <1>0 DEF SessionsInv, NewIsEmpty
<1>5. TokensIssued'  BY <1>0 DEF SessionsInv, TokensIssued
<1>6. StillThere'  BY <1>0 DEF SessionsInv, StillThere, Types, NewIsEmpty, Right, Live
<1> QED  BY <1>1, <1>2, <1>3, <1>4, <1>5, <1>6 DEF SessionsInv
-----------------------------------------------------------------------------
(* The invariant, and what follows from it.                                *)

\* A first process with an empty file.
LEMMA InitInv ==
    SessionsInit => SessionsInv
<1> SUFFICES ASSUME SessionsInit PROVE SessionsInv  OBVIOUS
<1>1. Types  BY States DEF SessionsInit, Types
<1>2. NeverLonger  BY DEF SessionsInit, NeverLonger
<1>3. Away  BY DEF SessionsInit, Away
<1>4. NewIsEmpty  BY DEF SessionsInit, NewIsEmpty
<1>5. TokensIssued  BY States DEF SessionsInit, TokensIssued, HoldsToken
<1>6. StillThere  BY DEF SessionsInit, StillThere
<1> QED  BY <1>1, <1>2, <1>3, <1>4, <1>5, <1>6 DEF SessionsInv

\* No step of a request, of the clean-up, of Start, of a shutdown or of a crash
\* breaks the invariant.
LEMMA StepInv ==
    SessionsInv /\ [SessionsNext]_sessionVars => SessionsInv'
<1> SUFFICES ASSUME SessionsInv, [SessionsNext]_sessionVars PROVE SessionsInv'
  OBVIOUS
<1>1. CASE \E r \in Requests : Serve(r) \/ Handled(r)
  BY <1>1, ServeStep
<1>2. CASE \E t \in Issued : Read(t)
  <2> PICK t \in Issued : Read(t)  BY <1>2
  <2>1. t \in Tokens /\ lastUse[t] # None  BY DEF Issued
  <2>2. req' \in [Requests -> RequestState]  BY DEF Read, SessionsInv, Types
  <2>3. \A r \in Requests : req'[r] = req[r]  BY DEF Read
  <2> QED  BY <2>1, <2>2, <2>3, ValidateStep DEF Read, Accepts
<1>3. CASE CleanupSessions \/ Tick \/ Listen \/ Drain
  BY <1>3, QuietStep
<1>4. CASE Load \/ Save \/ Exit \/ Crash \/ CrashInSave
  BY <1>4, LoadStep, SaveStep, EndStep
<1>5. CASE UNCHANGED sessionVars
  BY <1>5 DEF sessionVars, memory, history, SessionsInv, Types, NeverLonger, Away,
              NewIsEmpty, TokensIssued, StillThere, Right
<1> QED  BY <1>1, <1>2, <1>3, <1>4, <1>5 DEF SessionsNext, Lifecycle

\* Sessions keep to their last use: nothing lasts longer, what was logged out
\* is away, the rest is kept (ValidateSession, RevokeSession, SaveSessions,
\* LoadSessions).
THEOREM Invariant == SessionsSpec => []SessionsInv
BY InitInv, StepInv, PTL DEF SessionsSpec

\* RevokeSession with SaveSessions and LoadSessions: what was logged out never
\* comes back.
THEOREM LogoutLasts == SessionsSpec => []LoggedOutForGood
<1>1. SessionsInv => LoggedOutForGood
  BY DEF SessionsInv, Away, LoggedOutForGood
<1> QED  BY <1>1, Invariant, PTL

\* StaysLoggedIn: a session that was used within its timeout is there.
THEOREM UsedSessionsStay == SessionsSpec => []StaysLoggedIn
<1>1. SessionsInv => StaysLoggedIn
  BY DEF SessionsInv, StillThere, Right, Types, StaysLoggedIn, Issued
<1> QED  BY <1>1, Invariant, PTL

\* ValidateSession: a session is used only within the timeout of its last use.
THEOREM IdleRefused == SessionsSpec => IdleSessionRefused
<1> DEFINE Refused ==
      \A t \in Tokens :
           lastUse[t] # None /\ lastUse'[t] # lastUse[t] =>
               clock <= lastUse[t] + SessionTimeout
<1>1. ASSUME SessionsInv, NEW t \in Tokens, NEW u \in Tokens, Validate(u),
             lastUse'[t] # lastUse[t]
      PROVE  clock <= lastUse[t] + SessionTimeout
  BY <1>1 DEF SessionsInv, Types, NeverLonger, Validate, Live
<1>2. SessionsInv /\ [SessionsNext]_sessionVars => [Refused]_sessionVars
  <2> SUFFICES ASSUME SessionsInv, SessionsNext,
                      NEW t \in Tokens, lastUse[t] # None, lastUse'[t] # lastUse[t]
               PROVE  clock <= lastUse[t] + SessionTimeout
    OBVIOUS
  <2>1. CASE \E u \in Tokens : Validate(u)  BY <2>1, <1>1
  <2>2. CASE \E r \in Requests : Serve(r) \/ Handled(r)
    <3> PICK r \in Requests : Serve(r) \/ Handled(r)  BY <2>2
    <3>1. CASE \E u \in Tokens : LoginSucceeds(r, u)
      BY <3>1 DEF LoginSucceeds, Issued, SessionsInv, Types
    <3>2. CASE \E u \in Issued : Post(r, u) \/ Logout(r, u)
      BY <3>2, <2>1 DEF Post, Logout, Issued
    <3>3. CASE CheckSession(r)
      <4>1. req[r] \in RequestState /\ req[r].at \in HoldsToken
        BY <3>3 DEF CheckSession, SessionsInv, Types, HoldsToken
      <4> QED  BY <4>1, <3>3, <2>1, Holder DEF CheckSession
    <3> QED  BY <3>1, <3>2, <3>3 DEF Serve, Login, LoginUser, LoginFails, CheckToken,
                                      Revoke, Handled, history
  <2>3. CASE \E u \in Issued : Read(u)  BY <2>3, <2>1 DEF Read, Issued
  <2>4. CASE CleanupSessions \/ Lifecycle \/ Tick
    BY <2>4 DEF CleanupSessions, Lifecycle, Tick, Load, Listen, Save, Drain, Exit,
                Crash, CrashInSave, NextProcess, history
  <2> QED  BY <2>2, <2>3, <2>4 DEF SessionsNext
<1> QED  BY <1>2, Invariant, PTL DEF SessionsSpec, IdleSessionRefused
-----------------------------------------------------------------------------
(* The limit on logins.                                                    *)

\* Each of the places in D has a place of its own in s, with the same time.
Traced(D, time, s) ==
    \E g \in [D -> 1 .. Len(s)] :
        /\ \A i \in D : s[g[i]] = time[i]
        /\ \A i, j \in D : g[i] = g[j] => i = j

(* There are not more of them than s is long.                              *)
LEMMA TracedBound ==
    ASSUME NEW n \in Nat, NEW D \in SUBSET (1 .. n), NEW time, NEW R, NEW s \in Seq(R),
           Traced(D, time, s)
    PROVE  Cardinality(D) <= Len(s)
<1>1. PICK g \in [D -> 1 .. Len(s)] : \A i, j \in D : g[i] = g[j] => i = j
  BY DEF Traced
<1>2. IsFiniteSet(1 .. Len(s)) /\ Cardinality(1 .. Len(s)) = Len(s)
  <2>1. Len(s) \in Nat  OBVIOUS
  <2>2. 1 \in Int /\ Len(s) \in Int  BY <2>1
  <2>3. /\ IsFiniteSet(1 .. Len(s))
        /\ Cardinality(1 .. Len(s)) = IF 1 > Len(s) THEN 0 ELSE Len(s) - 1 + 1
    BY <2>2, FS_Interval
  <2> QED  BY <2>1, <2>3
<1>3. g \in Injection(D, 1 .. Len(s))
  BY <1>1 DEF Injection, IsInjective
<1> QED  BY <1>2, <1>3, FS_Injection

(* Fewer places, and other times for the places that do not count.         *)
LEMMA TracedLess ==
    ASSUME NEW D, NEW E \in SUBSET D, NEW time, NEW time2, NEW s, Traced(D, time, s),
           \A i \in E : time2[i] = time[i]
    PROVE  Traced(E, time2, s)
<1>1. PICK g \in [D -> 1 .. Len(s)] :
          /\ \A i \in D : s[g[i]] = time[i]
          /\ \A i, j \in D : g[i] = g[j] => i = j
  BY DEF Traced
<1> DEFINE h == [i \in E |-> g[i]]
<1>2. /\ h \in [E -> 1 .. Len(s)]
      /\ \A i \in E : s[h[i]] = time2[i]
      /\ \A i, j \in E : h[i] = h[j] => i = j
  BY <1>1
<1> HIDE DEF h
<1> QED  BY <1>2 DEF Traced

(* What is recent is kept.                                                 *)
LEMMA TracedRecent ==
    ASSUME NEW D, NEW time, NEW s \in Seq(Nat), Traced(D, time, s),
           \A i \in D : time[i] + Window > clock
    PROVE  Traced(D, time, Recent(s))
<1>1. PICK g \in [D -> 1 .. Len(s)] :
          /\ \A i \in D : s[g[i]] = time[i]
          /\ \A i, j \in D : g[i] = g[j] => i = j
  BY DEF Traced
<1> DEFINE keep == {i \in 1 .. Len(s) : s[i] + Window > clock}
<1>2. keep \in SUBSET (1 .. Len(s)) /\ \A i \in D : g[i] \in keep
  BY <1>1
<1>3. Recent(s) = Kept(s, keep)  BY DEF Recent
<1> HIDE DEF keep
<1> DEFINE r == Kept(s, keep)
<1>4. PICK p \in [keep -> 1 .. Len(r)] :
          /\ \A i \in keep : r[p[i]] = s[i]
          /\ \A i, j \in keep : p[i] = p[j] => i = j
  <2>1. PICK p \in Places(s, keep) : TRUE
    BY <1>2, KeptPlaces
  <2> QED  BY <2>1 DEF Places
<1> DEFINE h == [i \in D |-> p[g[i]]]
<1> HIDE DEF r
<1> DEFINE size == 1 .. Len(r)
<1> HIDE DEF size
<1>a. /\ \A i \in D : g[i] \in keep /\ s[g[i]] = time[i]
      /\ \A i \in keep : p[i] \in size /\ r[p[i]] = s[i]
  BY <1>1, <1>2, <1>4 DEF size
<1>b. h \in [D -> size]
  BY <1>a
<1>c. \A i \in D : r[h[i]] = time[i]
  BY <1>a
<1>d. \A i, j \in D : h[i] = h[j] => i = j
  BY <1>1, <1>4, <1>a
<1>5. /\ h \in [D -> 1 .. Len(r)]
      /\ \A i \in D : r[h[i]] = time[i]
      /\ \A i, j \in D : h[i] = h[j] => i = j
  BY <1>b, <1>c, <1>d DEF size
<1> HIDE DEF h
<1>6. Recent(s) = r  BY <1>3 DEF r
<1>7. Traced(D, time, r)  BY <1>5 DEF Traced
<1> QED  BY <1>6, <1>7

(* One more entry may stand for one more place.                            *)
LEMMA TracedMore ==
    ASSUME NEW D, NEW time, NEW s \in Seq(Nat), NEW x \in Nat, Traced(D, time, s),
           NEW d, d \notin D, NEW time2, time2[d] = x, \A i \in D : time2[i] = time[i]
    PROVE  Traced(D \union {d}, time2, Append(s, x))
<1>1. PICK g \in [D -> 1 .. Len(s)] :
          /\ \A i \in D : s[g[i]] = time[i]
          /\ \A i, j \in D : g[i] = g[j] => i = j
  BY DEF Traced
<1> DEFINE l == Len(s)
           r == Append(s, x)
           h == [i \in D \union {d} |-> IF i = d THEN l + 1 ELSE g[i]]
<1>2. /\ l \in Nat /\ Len(r) = l + 1 /\ r[l + 1] = x
      /\ \A i \in 1 .. l : r[i] = s[i]
  BY AppendProperties
<1> HIDE DEF l, r
<1>3. \A i \in D : g[i] \in 1 .. l  BY <1>1 DEF l
<1>4. h \in [D \union {d} -> 1 .. l + 1]  BY <1>2, <1>3
<1>5. \A i \in D \union {d} : r[h[i]] = time2[i]  BY <1>1, <1>2, <1>3
<1>6. \A i, j \in D \union {d} : h[i] = h[j] => i = j  BY <1>1, <1>2, <1>3
<1> HIDE DEF h
<1>7. h \in [D \union {d} -> 1 .. Len(r)]  BY <1>2, <1>4
<1> QED  BY <1>5, <1>6, <1>7 DEF Traced, r

(* One more entry does no harm.                                            *)
LEMMA TracedAppend ==
    ASSUME NEW D, NEW time, NEW s \in Seq(Nat), NEW x \in Nat, Traced(D, time, s)
    PROVE  Traced(D, time, Append(s, x))
<1>1. PICK g \in [D -> 1 .. Len(s)] :
          /\ \A i \in D : s[g[i]] = time[i]
          /\ \A i, j \in D : g[i] = g[j] => i = j
  BY DEF Traced
<1> DEFINE r == Append(s, x)
<1>2. /\ Len(s) \in Nat /\ Len(r) = Len(s) + 1
      /\ \A i \in 1 .. Len(s) : r[i] = s[i]
  BY AppendProperties
<1> HIDE DEF r
<1>3. g \in [D -> 1 .. Len(r)] /\ \A i \in D : r[g[i]] = time[i]
  BY <1>1, <1>2
<1> QED  BY <1>1, <1>3 DEF Traced, r

\* The logins of u that count, and the times of all logins.
Late(u) == {i \in 1 .. Len(checked) : checked[i][1] = u /\ checked[i][2] + Window > clock}
Times == [i \in 1 .. Len(checked) |-> checked[i][2]]

\* No key has more attempts than are allowed, and each login that counts is
\* one of the attempts of its user.
RateInv ==
    /\ attempts \in [Keys -> Seq(Nat)] /\ checked \in Seq(Users \X Nat)
    /\ \A k \in Keys : Len(attempts[k]) <= MaxAttempts
    /\ \A u \in Users : Traced(Late(u), Times, attempts[u])

(* What is recent is a sequence of times, not longer than what it is from. *)
LEMMA RecentType ==
    ASSUME NEW s \in Seq(Nat)
    PROVE  Recent(s) \in Seq(Nat) /\ Len(Recent(s)) <= Len(s)
<1> DEFINE keep == {i \in 1 .. Len(s) : s[i] + Window > clock}
<1>1. Recent(s) = Kept(s, keep)  BY DEF Recent
<1> HIDE DEF keep
<1> QED  BY <1>1, KeptType

(* An attempt of k is recorded; the password may be looked at next.        *)
LEMMA RecordStep ==
    ASSUME RateInv, clock \in Nat, clock' = clock, NEW k \in Keys, Allowed(k), Record(k),
           \/ checked' = checked
           \/ k \in Users /\ checked' = Append(checked, <<k, clock>>)
    PROVE  RateInv'
<1> DEFINE rec == Recent(attempts[k])
           log == Append(rec, clock)
<1>1. /\ rec \in Seq(Nat) /\ Len(rec) < MaxAttempts /\ Len(rec) \in Nat
  BY RecentType DEF RateInv, Allowed
<1>2. attempts' = [attempts EXCEPT ![k] = log]
  BY DEF Record
<1>3. log \in Seq(Nat) /\ Len(log) <= MaxAttempts
  <2>1. log \in Seq(Nat) /\ Len(log) = Len(rec) + 1
    <3> HIDE DEF rec
    <3> QED  BY <1>1, AppendProperties
  <2> HIDE DEF log, rec
  <2> QED  BY <1>1, <2>1
<1>4. /\ attempts' \in [Keys -> Seq(Nat)]
      /\ \A q \in Keys : Len(attempts'[q]) <= MaxAttempts
      /\ attempts'[k] = log /\ \A q \in Keys : q # k => attempts'[q] = attempts[q]
  <2> HIDE DEF log
  <2> QED  BY <1>2, <1>3 DEF RateInv
<1>5. ASSUME NEW u \in Users, u = k PROVE Traced(Late(u), Times, rec)
  <2>1. Traced(Late(u), Times, attempts[u]) /\ attempts[u] \in Seq(Nat)
    BY <1>5 DEF RateInv
  <2>2. \A i \in Late(u) : Times[i] + Window > clock
    BY DEF Late, Times
  <2> QED  BY <1>5, <2>1, <2>2, TracedRecent
<1> HIDE DEF rec
<1>6. CASE checked' = checked
  <2> SUFFICES ASSUME NEW u \in Users PROVE Traced(Late(u), Times, attempts'[u])
    BY <1>4, <1>6 DEF RateInv, Late, Times
  <2>1. CASE u = k
    BY <1>1, <1>4, <1>5, <2>1, TracedAppend DEF log
  <2>2. CASE u # k
    BY <1>4, <2>2 DEF RateInv, Keys
  <2> QED  BY <2>1, <2>2
<1>7. CASE k \in Users /\ checked' = Append(checked, <<k, clock>>)
  <2> DEFINE n == Len(checked)
             new == <<k, clock>>
             times == Times'
  <2>1. new \in Users \X Nat /\ new[1] = k /\ new[2] = clock  BY <1>7
  <2>2. /\ checked' \in Seq(Users \X Nat) /\ n \in Nat /\ Len(checked') = n + 1
        /\ checked'[n + 1] = new
        /\ \A i \in 1 .. n : checked'[i] = checked[i]
    <3> HIDE DEF new
    <3>1. checked \in Seq(Users \X Nat) /\ checked' = Append(checked, new)
      BY <1>7 DEF RateInv, new
    <3> QED  BY <2>1, <3>1, AppendProperties
  <2> HIDE DEF n, new
  <2>3. \A i \in 1 .. n + 1 : times[i] = checked'[i][2]
    BY <2>2 DEF Times
  <2>4. \A i \in 1 .. n : Times[i] = checked[i][2]
    BY DEF Times, n
  <2>5. \A i \in 1 .. n : times[i] = Times[i]
    BY <2>2, <2>3, <2>4
  <2>6. ASSUME NEW u \in Users
        PROVE  /\ Late(u) \subseteq 1 .. n
               /\ Late(u)' = IF u = k THEN Late(u) \union {n + 1} ELSE Late(u)
    <3>1. Late(u)' = {i \in 1 .. n + 1 : checked'[i][1] = u /\ checked'[i][2] + Window > clock}
      BY <2>2 DEF Late
    <3>2. Late(u) = {i \in 1 .. n : checked[i][1] = u /\ checked[i][2] + Window > clock}
      BY DEF Late, n
    <3>3. checked'[n + 1][1] = k /\ checked'[n + 1][2] + Window > clock
      BY <2>1, <2>2
    <3>4. \A i : i \in 1 .. n + 1 <=> i \in 1 .. n \/ i = n + 1
      BY <2>2
    <3> QED  BY <2>2, <3>1, <3>2, <3>3, <3>4
  <2>7. ASSUME NEW u \in Users PROVE Traced(Late(u)', times, attempts'[u])
    <3> DEFINE D == Late(u)
    <3>1. D \subseteq 1 .. n /\ n + 1 \notin D /\ \A i \in D : times[i] = Times[i]
      BY <2>2, <2>5, <2>6
    <3>2. CASE u = k
      <4>1. times[n + 1] = clock  BY <2>1, <2>2, <2>3
      <4>2. Late(u)' = D \union {n + 1}  BY <2>6, <3>2
      <4>3. Traced(D, Times, rec)  BY <1>5, <3>2
      <4>4. attempts'[u] = Append(rec, clock)  BY <1>4, <3>2 DEF log
      <4> HIDE DEF D, times
      <4>5. Traced(D \union {n + 1}, times, Append(rec, clock))
        BY <1>1, <3>1, <4>1, <4>3, TracedMore
      <4> QED  BY <4>2, <4>4, <4>5
    <3>3. CASE u # k
      <4>1. Late(u)' = D /\ Traced(D, Times, attempts[u])
        BY <2>6, <3>3 DEF RateInv
      <4>2. attempts'[u] = attempts[u]  BY <1>4, <3>3 DEF Keys
      <4> HIDE DEF D, times
      <4>3. Traced(D, times, attempts[u])  BY <3>1, <4>1, TracedLess
      <4> QED  BY <4>1, <4>2, <4>3
    <3> QED  BY <3>2, <3>3
  <2> QED  BY <1>4, <2>2, <2>7 DEF RateInv
<1> QED  BY <1>6, <1>7

(* CleanupSessions drops what is no longer recent.                         *)
LEMMA PurgeStep ==
    ASSUME RateInv, clock \in Nat, UNCHANGED <<clock, checked>>, Purge
    PROVE  RateInv'
<1>1. ASSUME NEW k \in Keys
      PROVE  /\ attempts'[k] \in Seq(Nat) /\ attempts'[k] = Recent(attempts[k])
             /\ Len(attempts'[k]) <= MaxAttempts
  <2>1. attempts[k] \in Seq(Nat) /\ Len(attempts[k]) <= MaxAttempts
    BY DEF RateInv
  <2>2. attempts'[k] = Recent(attempts[k])  BY DEF Purge
  <2>3. Recent(attempts[k]) \in Seq(Nat) /\ Len(Recent(attempts[k])) <= Len(attempts[k])
    BY <2>1, RecentType
  <2> DEFINE r == Recent(attempts[k])
  <2> HIDE DEF r
  <2>4. r \in Seq(Nat) /\ Len(r) <= Len(attempts[k])  BY <2>3 DEF r
  <2>5. Len(r) \in Nat /\ Len(attempts[k]) \in Nat  BY <2>1, <2>4
  <2> QED  BY <2>1, <2>2, <2>4, <2>5 DEF r
<1>2. attempts' \in [Keys -> Seq(Nat)]
  <2>1. attempts' = [k \in Keys |-> attempts'[k]]  BY DEF Purge
  <2> QED  BY <1>1, <2>1
<1>3. ASSUME NEW u \in Users PROVE Traced(Late(u), Times, attempts'[u])
  <2>1. Traced(Late(u), Times, attempts[u]) /\ attempts[u] \in Seq(Nat) /\ u \in Keys
    BY DEF RateInv, Keys
  <2>2. \A i \in Late(u) : Times[i] + Window > clock
    BY DEF Late, Times
  <2>3. Traced(Late(u), Times, Recent(attempts[u]))
    BY <2>1, <2>2, TracedRecent
  <2> QED  BY <1>1, <2>1, <2>3
<1>4. \A u \in Users : Late(u)' = Late(u)  BY DEF Late
<1>5. Times' = Times  BY DEF Times
<1> QED  BY <1>1, <1>2, <1>3, <1>4, <1>5 DEF RateInv

(* Time passes: fewer logins count.                                        *)
LEMMA TickStep ==
    ASSUME RateInv, clock \in Nat, UNCHANGED <<checked, attempts>>, clock' = clock + 1
    PROVE  RateInv'
<1>1. ASSUME NEW u \in Users PROVE Traced(Late(u), Times, attempts[u])'
  <2>1. Late(u)' \subseteq Late(u)
    BY DEF Late, RateInv
  <2>2. Times' = Times  BY DEF Times
  <2>3. Traced(Late(u), Times, attempts[u])  BY DEF RateInv
  <2> DEFINE E == Late(u)'
  <2> HIDE DEF E
  <2>4. E \in SUBSET Late(u)  BY <2>1 DEF E
  <2>5. Traced(E, Times, attempts[u])  BY <2>3, <2>4, TracedLess
  <2> QED  BY <2>2, <2>5 DEF E
<1> QED  BY <1>1 DEF RateInv

(* The next process knows of no attempt.                                   *)
LEMMA FreshStart ==
    attempts = [k \in Keys |-> <<>>] /\ checked = <<>> => RateInv
<1> SUFFICES ASSUME attempts = [k \in Keys |-> <<>>], checked = <<>> PROVE RateInv
  OBVIOUS
<1>1. attempts \in [Keys -> Seq(Nat)] /\ checked \in Seq(Users \X Nat)
  OBVIOUS
<1>2. \A k \in Keys : Len(attempts[k]) <= MaxAttempts
  OBVIOUS
<1>3. ASSUME NEW u \in Users PROVE Traced(Late(u), Times, attempts[u])
  <2>1. Late(u) = {}  BY DEF Late
  <2>2. [i \in {} |-> i] \in [{} -> 1 .. Len(attempts[u])]  OBVIOUS
  <2> QED  BY <2>1, <2>2 DEF Traced
<1> QED  BY <1>1, <1>2, <1>3 DEF RateInv

(* No step of a request, of the ticker, of Start or of a shutdown breaks   *)
(* the accounts.                                                           *)
LEMMA RateStep ==
    ASSUME SessionsInv, RateInv, [SessionsNext]_sessionVars
    PROVE  RateInv'
<1>0. clock \in Nat /\ req \in [Requests -> RequestState]
  BY DEF SessionsInv, Types
<1>1. ASSUME NEW r \in Requests, NEW ip \in IPs, NEW u \in Users, Login(r, ip, u)
      PROVE  RateInv'
  BY <1>0, <1>1, RecordStep DEF Login, history, Keys
<1>2. ASSUME NEW r \in Requests, LoginUser(r) PROVE RateInv'
  <2>1. req[r] \in [at : {"user", "check"}, user : Users]
    BY <1>0, <1>2, Trier DEF LoginUser
  <2> DEFINE u == req[r].user
  <2>2. u \in Users /\ u \in Keys  BY <2>1 DEF Keys
  <2> HIDE DEF u
  <2>3. /\ Allowed(u) /\ Record(u) /\ clock' = clock
        /\ checked' = Append(checked, <<u, clock>>)
    BY <1>2 DEF LoginUser, u
  <2> QED  BY <1>0, <2>2, <2>3, RecordStep
<1>3. CASE UNCHANGED <<clock, attempts, checked>>
  BY <1>3 DEF RateInv, Late, Times
<1>4. CASE CleanupSessions
  BY <1>0, <1>4, PurgeStep DEF CleanupSessions, history
<1>5. CASE Tick
  BY <1>0, <1>5, TickStep DEF Tick, memory, history
<1>6. CASE Exit \/ Crash \/ CrashInSave
  <2>1. attempts' = [k \in Keys |-> <<>>] /\ checked' = <<>>
    BY <1>6 DEF Exit, Crash, CrashInSave, NextProcess
  <2>2. (attempts = [k \in Keys |-> <<>>] /\ checked = <<>> => RateInv)'
    BY FreshStart, PTL
  <2> QED  BY <2>1, <2>2
<1>7. CASE \E r \in Requests : Serve(r) \/ Handled(r)
  <2> PICK r \in Requests : Serve(r) \/ Handled(r)  BY <1>7
  <2>1. CASE \E ip \in IPs, u \in Users : Login(r, ip, u)  BY <2>1, <1>1
  <2>2. CASE LoginUser(r)  BY <2>2, <1>2
  <2>3. CASE LoginFails(r) \/ Handled(r)
    BY <2>3, <1>3 DEF LoginFails, Handled, history
  <2>4. CASE \E t \in Tokens : LoginSucceeds(r, t)
    BY <2>4, <1>3 DEF LoginSucceeds
  <2>5. CASE \E t \in Issued : Post(r, t) \/ Logout(r, t)
    BY <2>5, <1>3 DEF Post, Logout
  <2>6. CASE CheckSession(r)  BY <2>6, <1>3 DEF CheckSession
  <2>7. CASE \E right \in BOOLEAN : CheckToken(r, right)
    BY <2>7, <1>3 DEF CheckToken, history
  <2>8. CASE Revoke(r)  BY <2>8, <1>3 DEF Revoke
  <2> QED  BY <2>1, <2>2, <2>3, <2>4, <2>5, <2>6, <2>7, <2>8 DEF Serve
<1>8. CASE \E t \in Issued : Read(t)  BY <1>8, <1>3 DEF Read
<1>9. CASE Load \/ Listen \/ Save \/ Drain
  BY <1>9, <1>3 DEF Load, Listen, Save, Drain, history
<1>10. CASE UNCHANGED sessionVars
  BY <1>10, <1>3 DEF sessionVars, memory, history
<1> QED  BY <1>4, <1>5, <1>6, <1>7, <1>8, <1>9, <1>10 DEF SessionsNext, Lifecycle

\* RateLimiter.Allow: however the limiters are asked, purged and begun anew, no
\* more passwords than allowed are looked at for a user in a window.
THEOREM LoginsLimited == SessionsSpec => []LoginRate
<1>1. SessionsInit => RateInv
  BY FreshStart DEF SessionsInit
<1>2. SessionsInv /\ RateInv /\ [SessionsNext]_sessionVars => RateInv'
  BY RateStep
<1>3. RateInv => LoginRate
  <2> SUFFICES ASSUME RateInv, NEW u \in Users PROVE Cardinality(Late(u)) <= MaxAttempts
    BY DEF LoginRate, Late
  <2>1. /\ checked \in Seq(Users \X Nat) /\ u \in Keys /\ attempts[u] \in Seq(Nat)
        /\ Traced(Late(u), Times, attempts[u]) /\ Len(attempts[u]) <= MaxAttempts
    BY DEF RateInv, Keys
  <2>2. Len(checked) \in Nat /\ Late(u) \in SUBSET (1 .. Len(checked))
    BY <2>1 DEF Late
  <2>3. Cardinality(Late(u)) <= Len(attempts[u])
    BY <2>1, <2>2, TracedBound
  <2>4. Cardinality(Late(u)) \in Nat
    <3>1. IsFiniteSet(1 .. Len(checked))
      <4>1. 1 \in Int /\ Len(checked) \in Int  BY <2>2
      <4> QED  BY <4>1, FS_Interval
    <3> QED  BY <2>2, <3>1, FS_Subset, FS_CardinalityType
  <2> QED  BY <2>1, <2>3, <2>4
<1> QED  BY <1>1, <1>2, <1>3, Invariant, PTL DEF SessionsSpec
-----------------------------------------------------------------------------
(* The types of the rest.                                                  *)

\* How far runServe is.
LEMMA MainStep ==
    /\ SessionsInit => ends \in Nat /\ main \in {"up", "saved", "draining"}
    /\ ends \in Nat /\ main \in {"up", "saved", "draining"} /\ [SessionsNext]_sessionVars
         => ends' \in Nat /\ main' \in {"up", "saved", "draining"}
<1>1. SessionsInit => ends \in Nat /\ main \in {"up", "saved", "draining"}
  BY DEF SessionsInit
<1>2. ASSUME ends \in Nat, main \in {"up", "saved", "draining"}, [SessionsNext]_sessionVars
      PROVE  ends' \in Nat /\ main' \in {"up", "saved", "draining"}
  <2>1. CASE \E r \in Requests : Serve(r) \/ Handled(r)
    BY <1>2, <2>1 DEF Serve, Login, LoginUser, LoginFails, LoginSucceeds, Post, Logout,
                      CheckSession, CheckToken, Revoke, Handled
  <2>2. CASE (\E t \in Issued : Read(t)) \/ CleanupSessions \/ Tick
    BY <1>2, <2>2 DEF Read, CleanupSessions, Tick, memory
  <2>3. CASE Lifecycle
    BY <1>2, <2>3 DEF Lifecycle, Load, Listen, Save, Drain, Exit, Crash, CrashInSave,
                      NextProcess
  <2>4. CASE UNCHANGED sessionVars
    BY <1>2, <2>4 DEF sessionVars, memory
  <2> QED  BY <1>2, <2>1, <2>2, <2>3, <2>4 DEF SessionsNext
<1> QED  BY <1>1, <1>2

\* The type invariant: of the map of sessions, the limiters and the requests,
\* of the server's start and end, and of what is recorded for the properties.
THEOREM SessionsTyped == SessionsSpec => []SessionsTypeOK
<1> DEFINE Main == ends \in Nat /\ main \in {"up", "saved", "draining"}
<1>1. SessionsInit => RateInv /\ Main
  BY FreshStart, MainStep DEF SessionsInit
<1>2. SessionsInv /\ RateInv /\ Main /\ [SessionsNext]_sessionVars => RateInv' /\ Main'
  BY RateStep, MainStep
<1>3. SessionsInv /\ RateInv /\ Main => SessionsTypeOK
  BY DEF SessionsInv, Types, RateInv, SessionsTypeOK
<1> QED  BY <1>1, <1>2, <1>3, Invariant, PTL DEF SessionsSpec
=============================================================================
