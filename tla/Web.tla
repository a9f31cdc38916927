--------------------------------- MODULE Web --------------------------------
(***************************************************************************)
(* The web server's requests together: logins and sessions (Sessions) and  *)
(* the chats that authorised requests hold (ChatRounds).  A chat begins    *)
(* when its request has passed AuthMiddleware and CSRFMiddleware; from     *)
(* then on nobody asks for its session again.  The end of the process ends *)
(* every chat.                                                             *)
(***************************************************************************)
EXTENDS Sessions, ChatRounds

CONSTANT Bounds  \* the bounds of Sessions: one of them holds in a behaviour

ASSUME WebAssumption == Chats \subseteq Requests

vars == <<sessionVars, chatVars>>

\* The next process knows of no chat, and not what the backend speaks.
ChatsEnd ==
    /\ chat' = [r \in Chats |-> Silent]
    /\ probe' = [p \in Probes |-> "idle"]
    /\ detectedAPI' = NoText
    /\ UNCHANGED <<backend, changes>>

\* handleOllamaChat is called.
Chat(r) ==
    /\ bound.chats /\ r \in Chats /\ req[r].at = "handle"
    /\ BeginChat(r)
    /\ UNCHANGED sessionVars

\* Seeded mistake: the stream is left to a goroutine of its own.
ReturnEarly(r) == Handled(r) /\ UNCHANGED chatVars

\* The handler returns; one that holds a chat when that has ended.
Return(r) ==
    /\ Handled(r)
    /\ r \in Chats => Ended(r)
    /\ chat' = [c \in Chats |-> IF c = r THEN Silent ELSE chat[c]]
    /\ UNCHANGED <<probe, detectedAPI, backend, changes>>

Init ==
    /\ SessionsInit /\ ChatInit
    /\ bound \in Bounds
    /\ bound.chats \/ backend = "ollama"

Next ==
    \/ /\ \/ \E r \in Requests : Serve(r)
          \/ \E t \in Issued : Read(t)
          \/ CleanupSessions
          \/ Load \/ Listen \/ Save \/ Drain
          \/ Tick
       /\ UNCHANGED chatVars
    \/ (Exit \/ Crash \/ CrashInSave) /\ ChatsEnd
    \/ \E r \in Requests : Chat(r) \/ Return(r)
    \/ /\ \/ \E r \in Chats : Converse(r)
          \/ Accepts /\ bound.chats /\ \E p \in Probes : BeginProbe(p)
          \/ \E p \in Probes : ProbeNative(p) \/ ProbeOpenAI(p) \/ Detected(p)
          \/ bound.chats /\ \E b \in {"ollama", "openai", "down"} : BackendChanges(b)
       /\ UNCHANGED sessionVars

Spec == Init /\ [][Next]_vars
-----------------------------------------------------------------------------
\* The types of both, and that only a request in its handler holds a chat.
TypeOK ==
    /\ SessionsTypeOK
    /\ \A r \in Chats :
           /\ chat[r].at \in {"none", "round", "ollama", "openai", "done", "failed"}
           /\ chat[r].at # "none" => req[r].at = "handle" /\ chat[r].n \in 0 .. MaxRounds
    /\ probe \in [Probes -> {"idle", "native", "fallback", "found ollama",
                             "found openai"}]
    /\ detectedAPI \in {NoText, "ollama", "openai"}
    /\ backend \in {"ollama", "openai", "down"}
    /\ changes \in 0 .. MaxChanges
=============================================================================
