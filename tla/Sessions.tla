------------------------------ MODULE Sessions ------------------------------
(***************************************************************************)
(* Logins, sessions and the life of the web server (internal/web/auth.go,  *)
(* Start, Shutdown, handleLogin and handleLogout of server.go, the         *)
(* shutdown of cmd/kardiag/main.go).                                       *)
(*                                                                         *)
(* Every method of AuthManager and RateLimiter holds a lock and is one     *)
(* step; a request takes several, and other requests, the clean-up ticker, *)
(* the shutdown and a crash come in between.  sessions.json is written at  *)
(* an orderly shutdown only, before the requests that are still running    *)
(* have ended, and read by Start, which runs in a goroutine of its own.    *)
(*                                                                         *)
(* A session is its expiry time, None when there is none; the CSRF token   *)
(* of a session is made, saved and deleted with it.  The keys of Limiter   *)
(* and UserLimiter, addresses and lower-case names, are told apart by the  *)
(* key.  Logins carry no cookie.  Origins that do not match the host are   *)
(* refused before anything happens, and left out.                          *)
(***************************************************************************)
EXTENDS Loops, FiniteSets

CONSTANTS
    Tokens,          \* session tokens that can be drawn
    Requests,        \* request goroutines that may run at the same time
    IPs, Users,      \* keys of the two limiters
    SessionTimeout,  \* web.auth.session_timeout
    MaxAttempts,     \* 5 in RateLimiter.Allow
    Window           \* 5 minutes in RateLimiter.Allow and CleanupSessions

ASSUME SessionsAssumption ==
    /\ SessionTimeout \in Nat \ {0}
    /\ MaxAttempts \in Nat \ {0} /\ Window \in Nat \ {0}

VARIABLES
    clock,     \* time.Now, from 1
    sessions,  \* AuthManager.sessions: expiresAt of each token
    file,      \* sessions.json, likewise
    attempts,  \* Limiter.attempts and UserLimiter.attempts
    start,     \* how far Server.Start is: "new", "loaded", "serving"
    main,      \* how far runServe is: "up", "saved", "draining"
    req,       \* what each request goroutine is at
    ends,      \* processes that have ended
    bound,     \* bounds of this behaviour
    lastUse,   \* history: when each session was made or last accepted
    out,       \* history: logged out in this process, after the last save
    gone,      \* history: logged out before an orderly save
    unsaved,   \* history: made or used after the last save
    lost,      \* history: sessions that the end of a process may have lost
    checked    \* history: the logins that got to the password, <<user, time>>

memory  == <<sessions, attempts, start, main, req>>
history == <<lastUse, out, gone, unsaved, lost, checked>>
sessionVars == <<clock, memory, file, ends, bound, history>>

None == 0
Keys == IPs \union Users
Idle == [at |-> "idle"]

Accepts == start = "serving" /\ main # "draining"

\* The session of t can be used, at this time.
Live(t) == sessions[t] # None /\ clock <= sessions[t]
Issued == {t \in Tokens : lastUse[t] # None}
-----------------------------------------------------------------------------
(* RateLimiter.                                                            *)

Recent(s) == Kept(s, {i \in 1 .. Len(s) : s[i] + Window > clock})

Allowed(k) == Len(Recent(attempts[k])) < MaxAttempts

\* A refused attempt is not recorded.
Record(k) == attempts' = [attempts EXCEPT ![k] = Append(Recent(@), clock)]

\* Seeded mistake: an entry is dropped when its first attempt is old.
PurgeByFirst ==
    attempts' = [k \in Keys |->
        IF attempts[k] # <<>> /\ Head(attempts[k]) + Window <= clock
        THEN <<>> ELSE attempts[k]]

Purge == attempts' = [k \in Keys |-> Recent(attempts[k])]
-----------------------------------------------------------------------------
(* AuthManager.                                                            *)

\* Seeded mistake: a session keeps its first expiry (no sliding expiration).
ValidateFixed(t) ==
    /\ sessions' = IF Live(t) THEN sessions ELSE [sessions EXCEPT ![t] = None]
    /\ lastUse' = IF Live(t) THEN [lastUse EXCEPT ![t] = clock] ELSE lastUse
    /\ unsaved' = IF Live(t) THEN unsaved \union {t} ELSE unsaved

\* ValidateSession: an expired session is deleted, a valid one extended.
Validate(t) ==
    /\ sessions' = [sessions EXCEPT
                       ![t] = IF Live(t) THEN clock + SessionTimeout ELSE None]
    /\ lastUse' = IF Live(t) THEN [lastUse EXCEPT ![t] = clock] ELSE lastUse
    /\ unsaved' = IF Live(t) THEN unsaved \union {t} ELSE unsaved

\* CleanupSessions, every five minutes.
CleanupSessions ==
    /\ start = "serving"
    /\ sessions' = [t \in Tokens |-> IF Live(t) THEN sessions[t] ELSE None]
    /\ Purge
    /\ UNCHANGED <<clock, file, start, main, req, ends, bound, history>>

\* Seeded mistake: a loaded session starts its timeout anew.
LoadRenewed ==
    sessions' = [t \in Tokens |->
        IF clock < file[t] THEN clock + SessionTimeout ELSE sessions[t]]

\* LoadSessions adds what has not expired to what is there.
LoadSessions ==
    sessions' = [t \in Tokens |-> IF clock < file[t] THEN file[t] ELSE sessions[t]]

\* Seeded mistake: what the file already has is kept.
SaveMerged ==
    file' = [t \in Tokens |-> IF clock < sessions[t] THEN sessions[t] ELSE file[t]]

SaveSessions ==
    file' = [t \in Tokens |-> IF clock < sessions[t] THEN sessions[t] ELSE None]
-----------------------------------------------------------------------------
(* Requests.  Each step is one call under a lock.                          *)

\* handleLogin up to Limiter.Allow(ip).
Login(r, ip, u) ==
    /\ req[r] = Idle /\ r \in bound.requests /\ Accepts
    /\ Len(checked) + Cardinality({q \in Requests : req[q].at = "user"}) < bound.logins
    /\ Allowed(ip) /\ Record(ip)
    /\ req' = [req EXCEPT ![r] = [at |-> "user", user |-> u]]
    /\ UNCHANGED <<clock, sessions, file, start, main, ends, bound, history>>

\* Seeded mistake: only a name that is not known is counted.
LoginUserUncounted(r) ==
    /\ req[r].at = "user" /\ Allowed(req[r].user)
    /\ UNCHANGED attempts
    /\ checked' = Append(checked, <<req[r].user, clock>>)
    /\ req' = [req EXCEPT ![r].at = "check"]
    /\ UNCHANGED <<clock, sessions, file, start, main, ends, bound,
                   lastUse, out, gone, unsaved, lost>>

\* UserLimiter.Allow(username): the password will be looked at.
LoginUser(r) ==
    /\ req[r].at = "user" /\ Allowed(req[r].user)
    /\ Record(req[r].user)
    /\ checked' = Append(checked, <<req[r].user, clock>>)
    /\ req' = [req EXCEPT ![r].at = "check"]
    /\ UNCHANGED <<clock, sessions, file, start, main, ends, bound,
                   lastUse, out, gone, unsaved, lost>>

\* A body that does not decode, too many attempts, or a wrong password.
LoginFails(r) ==
    /\ \/ req[r].at = "user"
       \/ req[r].at = "check"
    /\ req' = [req EXCEPT ![r] = Idle]
    /\ UNCHANGED <<clock, sessions, attempts, file, start, main, ends, bound, history>>

\* ValidateCredentials succeeds; CreateSession.
LoginSucceeds(r, t) ==
    /\ req[r].at = "check"
    /\ t \in Tokens \ Issued /\ Cardinality(Issued) < bound.sessions
    /\ sessions' = [sessions EXCEPT ![t] = clock + SessionTimeout]
    /\ lastUse' = [lastUse EXCEPT ![t] = clock]
    /\ unsaved' = unsaved \union {t}
    /\ req' = [req EXCEPT ![r] = Idle]
    /\ UNCHANGED <<clock, attempts, file, start, main, ends, bound, out, gone, lost, checked>>

\* AuthMiddleware around a handler that changes nothing (GET, /ws), or
\* handleAuthStatus.
Read(t) ==
    /\ Accepts
    /\ Validate(t)
    /\ UNCHANGED <<clock, attempts, file, start, main, req, ends, bound,
                   out, gone, lost, checked>>

\* AuthMiddleware around the handler of a POST.
Post(r, t) ==
    /\ req[r] = Idle /\ r \in bound.requests /\ Accepts
    /\ Validate(t)
    /\ req' = IF Live(t) THEN [req EXCEPT ![r] = [at |-> "csrf", token |-> t]] ELSE req
    /\ UNCHANGED <<clock, attempts, file, start, main, ends, bound, out, gone, lost, checked>>

\* CSRFMiddleware validates the session once more; when it is no longer valid
\* the token is not compared and the handler runs.
CheckSession(r) ==
    /\ req[r].at = "csrf"
    /\ Validate(req[r].token)
    /\ req' = [req EXCEPT ![r].at = IF Live(req[r].token) THEN "token" ELSE "handle"]
    /\ UNCHANGED <<clock, attempts, file, start, main, ends, bound, out, gone, lost, checked>>

\* /api/logout is not behind AuthMiddleware.
Logout(r, t) ==
    /\ req[r] = Idle /\ r \in bound.requests /\ Accepts
    /\ Validate(t)
    /\ req' = [req EXCEPT ![r] = [at |-> IF Live(t) THEN "logout token" ELSE "logout",
                                  token |-> t]]
    /\ UNCHANGED <<clock, attempts, file, start, main, ends, bound, out, gone, lost, checked>>

\* GetCSRFToken, under a lock of its own, and the comparison with what the
\* request brought.
CheckToken(r, right) ==
    /\ req[r].at \in {"token", "logout token"}
    /\ req' = [req EXCEPT ![r] =
                  IF right /\ sessions[@.token] # None
                  THEN [@ EXCEPT !.at = IF @ = "token" THEN "handle" ELSE "logout"]
                  ELSE Idle]
    /\ UNCHANGED <<clock, sessions, attempts, file, start, main, ends, bound, history>>

\* RevokeSession; the client is told that it is logged out.
Revoke(r) ==
    /\ req[r].at = "logout"
    /\ sessions' = [sessions EXCEPT ![req[r].token] = None]
    /\ out' = out \union {req[r].token}
    /\ req' = [req EXCEPT ![r] = Idle]
    /\ UNCHANGED <<clock, attempts, file, start, main, ends, bound,
                   lastUse, gone, unsaved, lost, checked>>

\* The handler of a POST returns.
Handled(r) ==
    /\ req[r].at = "handle"
    /\ req' = [req EXCEPT ![r] = Idle]
    /\ UNCHANGED <<clock, sessions, attempts, file, start, main, ends, bound, history>>
-----------------------------------------------------------------------------
(* Server.Start, in its goroutine, and the end of runServe.                *)

Load ==
    /\ start = "new"
    /\ LoadSessions
    /\ start' = "loaded"
    /\ UNCHANGED <<clock, attempts, file, main, req, ends, bound, history>>

\* httpSrv is set and its listeners are made; Shutdown may have been called.
Listen ==
    /\ start = "loaded"
    /\ start' = "serving"
    /\ UNCHANGED <<clock, sessions, attempts, file, main, req, ends, bound, history>>

\* A signal: Shutdown saves the sessions first.
Save ==
    /\ main = "up" /\ ends < bound.ends
    /\ SaveSessions
    /\ main' = "saved"
    /\ gone' = gone \union out
    /\ out' = {}
    /\ unsaved' = {}
    \* A signal before Start has loaded leaves an empty file behind.
    /\ lost' = IF start = "new" THEN Issued ELSE lost
    /\ UNCHANGED <<clock, sessions, attempts, start, req, ends, bound, lastUse, checked>>

\* httpSrv.Shutdown closes the listeners.
Drain ==
    /\ main = "saved" /\ start = "serving"
    /\ main' = "draining"
    /\ UNCHANGED <<clock, sessions, attempts, file, start, req, ends, bound, history>>

\* The next process has what is in the file.
NextProcess(others) ==
    /\ sessions' = [t \in Tokens |-> None]
    /\ attempts' = [k \in Keys |-> <<>>]
    /\ checked' = <<>>
    /\ start' = "new" /\ main' = "up"
    /\ req' = [r \in Requests |-> Idle]
    /\ ends' = ends + 1
    /\ out' = {}
    /\ unsaved' = {}
    /\ lost' = lost \union unsaved \union others
    /\ UNCHANGED <<clock, bound, lastUse, gone>>

\* Every request has ended or five seconds have passed, or there was no
\* httpSrv yet; the process ends and with it the requests that still run.
Exit ==
    /\ main = "draining" \/ (main = "saved" /\ start # "serving")
    /\ NextProcess({})
    /\ UNCHANGED file

\* The process is killed, or the machine stops.
Crash ==
    /\ ends < bound.ends
    /\ NextProcess({})
    /\ UNCHANGED file

\* The same while os.WriteFile is at work: a file that does not decode.
CrashInSave ==
    /\ main = "up" /\ ends < bound.ends
    /\ NextProcess(Issued)
    /\ file' = [t \in Tokens |-> None]

Tick ==
    /\ clock < bound.clock
    /\ clock' = clock + 1
    /\ UNCHANGED <<memory, file, ends, bound, history>>
-----------------------------------------------------------------------------
SessionsInit ==
    /\ clock = 1
    /\ sessions = [t \in Tokens |-> None]
    /\ file = [t \in Tokens |-> None]
    /\ attempts = [k \in Keys |-> <<>>]
    /\ start = "new" /\ main = "up"
    /\ req = [r \in Requests |-> Idle]
    /\ ends = 0
    /\ lastUse = [t \in Tokens |-> None]
    /\ out = {} /\ gone = {} /\ unsaved = {} /\ lost = {}
    /\ checked = <<>>

Serve(r) ==
    \/ \E ip \in IPs, u \in Users : Login(r, ip, u)
    \/ LoginUser(r) \/ LoginFails(r)
    \/ \E t \in Tokens : LoginSucceeds(r, t)
    \/ \E t \in Issued : Post(r, t) \/ Logout(r, t)
    \/ CheckSession(r)
    \/ \E right \in BOOLEAN : CheckToken(r, right)
    \/ Revoke(r)

Lifecycle ==
    Load \/ Listen \/ Save \/ Drain \/ Exit \/ Crash \/ CrashInSave

SessionsNext ==
    \/ \E r \in Requests : Serve(r) \/ Handled(r)
    \/ \E t \in Issued : Read(t)
    \/ CleanupSessions
    \/ Lifecycle
    \/ Tick

SessionsSpec == SessionsInit /\ [][SessionsNext]_sessionVars
-----------------------------------------------------------------------------
(* Properties.                                                             *)

RequestState ==
    {Idle}
    \union [at : {"user", "check"}, user : Users]
    \union [at : {"csrf", "token", "handle", "logout token", "logout"}, token : Tokens]

SessionsTypeOK ==
    /\ clock \in Nat \ {0} /\ ends \in Nat
    /\ sessions \in [Tokens -> Nat]
    /\ file \in [Tokens -> Nat]
    /\ attempts \in [Keys -> Seq(Nat)]
    /\ start \in {"new", "loaded", "serving"}
    /\ main \in {"up", "saved", "draining"}
    /\ req \in [Requests -> RequestState]
    /\ lastUse \in [Tokens -> Nat]
    /\ out \subseteq Tokens /\ gone \subseteq Tokens /\ unsaved \subseteq Tokens
    /\ lost \subseteq Tokens
    /\ checked \in Seq(Users \X Nat)

\* A session that was logged out is never there again in the same process, nor,
\* once an orderly shutdown has saved the sessions, in any later one, whatever
\* crashes come after it (RevokeSession, SaveSessions, LoadSessions).
LoggedOutForGood ==
    \A t \in out \union gone : sessions[t] = None

\* "token-only session validation with sliding expiration" (README.md): a
\* session that was not used for longer than its timeout is never accepted,
\* whatever was saved, loaded, extended or cleaned up since.
IdleSessionRefused ==
    [][\A t \in Tokens :
           lastUse[t] # None /\ lastUse'[t] # lastUse[t] =>
               clock <= lastUse[t] + SessionTimeout]_sessionVars

\* And the converse: a session that was used within its timeout and not logged
\* out is there as soon as Start has loaded, unless a process ended that had
\* not saved it (a crash, a use after the save) or saved before it had loaded.
StaysLoggedIn ==
    \A t \in Issued \ (out \union gone) :
        \/ start = "new"
        \/ sessions[t] # None
        \/ clock >= lastUse[t] + SessionTimeout
        \/ t \in lost

\* "Allow checks if the given key has exceeded 5 login attempts in the last 5
\* minutes": in one process no more passwords than that are looked at for a
\* user in any window, from however many addresses, whenever the limiter is
\* purged.
LoginRate ==
    \A u \in Users :
        Cardinality({i \in 1 .. Len(checked) :
                        checked[i][1] = u /\ checked[i][2] + Window > clock})
            <= MaxAttempts
=============================================================================
