---------------------------- MODULE WsHubProofs -----------------------------
(***************************************************************************)
(* Theorems about WsHub for any number of connections, addresses and       *)
(* limits, every capacity of the channels and every order of the steps.    *)
(***************************************************************************)
EXTENDS WsHub, FiniteSetTheorems, TLAPS

(* A channel that gives an entry away, or takes one. *)
LEMMA Channel ==
    ASSUME NEW ch \in Seq(Clients)
    PROVE  /\ ch # <<>> => /\ Head(ch) \in Clients
                           /\ Tail(ch) \in Seq(Clients)
                           /\ Len(Tail(ch)) = Len(ch) - 1
           /\ \A c \in Clients : /\ Append(ch, c) \in Seq(Clients)
                                 /\ Len(Append(ch, c)) = Len(ch) + 1
           /\ Len(ch) \in Nat
  OBVIOUS

(* What a step changes keeps its type; the room in a channel follows from    *)
(* the guards of Join and Announce.                                         *)
LEMMA TypeInit == Init => TypeOK
  <1> SUFFICES ASSUME Init PROVE TypeOK
    OBVIOUS
  <1>1. /\ wsCount \in Nat
        /\ wsIPCounts \in [IPs -> Nat]
        /\ queued \in [Clients -> 0 .. SendCap]
        /\ late \in [Clients -> 0 .. 2]
    BY WsAssumption DEF Init
  <1>2. /\ regCh \in Seq(Clients) /\ Len(regCh) <= ChanCap
        /\ unregCh \in Seq(Clients) /\ Len(unregCh) <= ChanCap
    BY WsAssumption DEF Init
  <1> QED
    BY <1>1, <1>2 DEF Init, TypeOK, Idle

LEMMA EnterType ==
    ASSUME TypeOK, NEW c \in Clients, Enter(c)
    PROVE  TypeOK'
  <1> USE WsAssumption DEF TypeOK, queues, hubVars
  <1>1. ipOf[c] \in IPs
    OBVIOUS
  <1>2. CASE Admit(c)
    BY <1>1, <1>2 DEF Admit
  <1>3. CASE Reject(c)
    BY <1>3 DEF Reject, counters
  <1>4. CASE Upgrade(c)
    BY <1>4 DEF Upgrade, counters
  <1>5. CASE UpgradeFails(c)
    BY <1>1, <1>5 DEF UpgradeFails, GiveBack
  <1> QED
    BY <1>2, <1>3, <1>4, <1>5 DEF Enter

LEMMA HandleType ==
    ASSUME TypeOK, NEW c \in Clients, Handle(c)
    PROVE  TypeOK'
  <1> USE WsAssumption DEF TypeOK, queues, hubVars, counters
  <1>1. CASE Join(c)
    <2>1. regCh' \in Seq(Clients) /\ Len(regCh') <= ChanCap
      BY <1>1, Channel DEF Join
    <2> QED
      BY <1>1, <2>1 DEF Join
  <1>2. CASE Greet(c)
    BY <1>2 DEF Greet
  <1>3. CASE Leave(c)
    BY <1>3 DEF Leave
  <1> QED
    BY <1>1, <1>2, <1>3 DEF Handle

LEMMA PumpType ==
    ASSUME TypeOK, NEW c \in Clients, Pump(c)
    PROVE  TypeOK'
  <1> USE WsAssumption DEF TypeOK, queues, hubVars, counters, pumps, StopPump,
                           CallUnregister
  <1>0. queued[c] > 0 => [queued EXCEPT ![c] = @ - 1] \in [Clients -> 0 .. SendCap]
    OBVIOUS
  <1>1. CASE WriteMessage(c)
    BY <1>0, <1>1 DEF WriteMessage
  <1>2. CASE WriteFails(c)
    BY <1>0, <1>2 DEF WriteFails
  <1>3. CASE PingFails(c)
    BY <1>3 DEF PingFails
  <1>4. CASE PumpEnds(c)
    BY <1>4 DEF PumpEnds
  <1> QED
    BY <1>1, <1>2, <1>3, <1>4 DEF Pump

LEMMA UnregisterType ==
    ASSUME TypeOK, NEW c \in Clients, Unregister(c)
    PROVE  TypeOK'
  <1> USE WsAssumption DEF TypeOK, queues, hubVars, counters
  <1>1. CASE Release(c)
    BY <1>1 DEF Release, GiveBack
  <1>2. CASE Announce(c)
    BY <1>2, Channel DEF Announce
  <1>3. CASE CloseSendCh(c)
    BY <1>3 DEF CloseSendCh
  <1> QED
    BY <1>1, <1>2, <1>3 DEF Unregister

LEMMA PeerType ==
    ASSUME TypeOK, NEW c \in Clients, Command(c) \/ ReadFails(c) \/ Break(c)
    PROVE  TypeOK'
  <1> USE WsAssumption DEF TypeOK, queues, hubVars, counters, pumps
  <1>1. CASE Command(c)
    BY <1>1 DEF Command
  <1>2. CASE ReadFails(c)
    BY <1>2 DEF ReadFails, CallUnregister
  <1>3. CASE Break(c)
    BY <1>3 DEF Break
  <1> QED
    BY <1>1, <1>2, <1>3

LEMMA RunType ==
    ASSUME TypeOK, Run
    PROVE  TypeOK'
  <1> USE WsAssumption DEF TypeOK, queues, hubVars, counters, pumps
  <1>1. CASE TakeReg
    <2>1. /\ regCh' \in Seq(Clients) /\ Len(regCh') <= ChanCap
          /\ hub' \in {"reg", "unreg"} \X Clients
      BY <1>1, Channel DEF TakeReg
    <2> QED
      BY <1>1, <2>1 DEF TakeReg
  <1>2. CASE TakeUnreg
    <2>1. /\ unregCh' \in Seq(Clients) /\ Len(unregCh') <= ChanCap
          /\ hub' \in {"reg", "unreg"} \X Clients
      BY <1>2, Channel DEF TakeUnreg
    <2> QED
      BY <1>2, <2>1 DEF TakeUnreg
  <1>3. CASE Apply
    BY <1>3 DEF Apply
  <1> QED
    BY <1>1, <1>2, <1>3 DEF Run

LEMMA BroadcastType ==
    ASSUME TypeOK, StartBroadcast \/ Deliver
    PROVE  TypeOK'
  <1> USE WsAssumption DEF TypeOK, queues, hubVars, counters, pumps
  <1>1. CASE StartBroadcast
    BY <1>1 DEF StartBroadcast
  <1>2. ASSUME NEW c \in Clients, Visit(c) PROVE TypeOK'
    BY <1>2 DEF Visit
  <1>3. CASE Send
    <2>1. broadcast.to \in Clients /\ broadcast' = [broadcast EXCEPT !.to = NoClient]
      BY <1>3 DEF Send
    <2>2. CASE closed[broadcast.to]
      BY <1>3, <2>1, <2>2 DEF Send
    <2>3. CASE ~closed[broadcast.to]
      <3>1. queued' \in [Clients -> 0 .. SendCap]
        <4>1. PICK n \in 0 .. SendCap : queued' = [queued EXCEPT ![broadcast.to] = n]
          BY <1>3, <2>1, <2>3 DEF Send
        <4> QED
          BY <4>1
      <3>2. late' \in [Clients -> 0 .. 2]
        <4>1. PICK n \in 0 .. 2 : late' = [late EXCEPT ![broadcast.to] = n]
          BY <1>3, <2>1, <2>3 DEF Send
        <4> QED
          BY <4>1
      <3>3. panicked' \in BOOLEAN
        BY <1>3, <2>3 DEF Send
      <3> QED
        BY <1>3, <2>1, <3>1, <3>2, <3>3 DEF Send
    <2> QED
      BY <2>2, <2>3
  <1>4. CASE EndBroadcast
    BY <1>4 DEF EndBroadcast, Idle
  <1> QED
    BY <1>1, <1>2, <1>3, <1>4 DEF Deliver
LEMMA TypeStep == TypeOK /\ [Next]_vars => TypeOK'
  <1> SUFFICES ASSUME TypeOK, [Next]_vars PROVE TypeOK'
    OBVIOUS
  <1>1. CASE UNCHANGED vars
    BY <1>1 DEF vars, counters, pumps, queues, hubVars, TypeOK
  <1>2. CASE Next
    BY <1>2, EnterType, HandleType, PumpType, UnregisterType, PeerType, RunType,
       BroadcastType DEF Next
  <1> QED
    BY <1>1, <1>2

(* The channels and the queues of messages stay within their capacities     *)
(* (wsHub, handleWebSocket).                                                *)
THEOREM TypeCorrect == Spec => []TypeOK
  BY TypeInit, TypeStep, PTL DEF Spec
-----------------------------------------------------------------------------
(* Where a connection is.  A connection that no pump serves has not begun   *)
(* to unregister and has no reader; one whose pump has ended has; and a      *)
(* handler that has ended was turned away or waited for unregister.          *)
Phases ==
    \A c \in Clients :
        /\ handler[c] \in {"none", "upgrading", "joining", "greeting"} =>
               unreg[c] = "no" /\ reader[c] = "none"
        /\ handler[c] = "leaving" => unreg[c] # "no"
        /\ handler[c] = "done" =>
               unreg[c] = "done" \/ (unreg[c] = "no" /\ reader[c] = "none")

LEMMA PhasesStep == TypeOK /\ Phases /\ [Next]_vars => Phases'
  <1> SUFFICES ASSUME TypeOK, Phases, [Next]_vars, NEW d \in Clients
               PROVE  Phases!(d)'
    BY DEF Phases
  <1> USE DEF TypeOK, Phases
  <1>1. ASSUME NEW c \in Clients, Enter(c) PROVE Phases!(d)'
    BY <1>1 DEF Enter, Admit, Reject, Upgrade, UpgradeFails
  <1>2. ASSUME NEW c \in Clients, Handle(c) PROVE Phases!(d)'
    BY <1>2 DEF Handle, Join, Greet, Leave
  <1>3. ASSUME NEW c \in Clients, Pump(c) PROVE Phases!(d)'
    BY <1>3 DEF Pump, WriteMessage, WriteFails, PingFails, PumpEnds, StopPump,
                CallUnregister, pumps
  <1>4. ASSUME NEW c \in Clients, Unregister(c) PROVE Phases!(d)'
    BY <1>4 DEF Unregister, Release, Announce, CloseSendCh
  <1>5. ASSUME NEW c \in Clients, Command(c) \/ ReadFails(c) \/ Break(c)
        PROVE  Phases!(d)'
    BY <1>5 DEF Command, ReadFails, Break, CallUnregister, pumps
  <1>6. CASE Run \/ StartBroadcast \/ Deliver \/ UNCHANGED vars
    BY <1>6 DEF Run, TakeReg, TakeUnreg, Apply, StartBroadcast, Deliver, Visit,
                Send, EndBroadcast, vars, pumps
  <1> QED
    BY <1>1, <1>2, <1>3, <1>4, <1>5, <1>6 DEF Next
-----------------------------------------------------------------------------
(* The counters.                                                           *)

Held == {c \in Clients : Counted(c)}
HeldFrom(ip) == {c \in Clients : Counted(c) /\ ipOf[c] = ip}

LEMMA HeldFinite ==
    /\ IsFiniteSet(Held) /\ Cardinality(Held) \in Nat
    /\ \A ip \in IPs : IsFiniteSet(HeldFrom(ip)) /\ Cardinality(HeldFrom(ip)) \in Nat
  <1>1. Held \subseteq Clients /\ \A ip \in IPs : HeldFrom(ip) \subseteq Clients
    BY DEF Held, HeldFrom
  <1> QED
    BY <1>1, WsAssumption, FS_Subset, FS_CardinalityType

LEMMA CountsExactForm ==
    CountsExact <=> /\ wsCount = Cardinality(Held)
                    /\ \A ip \in IPs : wsIPCounts[ip] = Cardinality(HeldFrom(ip))
  BY DEF CountsExact, Held, HeldFrom

(* A step that leaves the counters alone, and every place as it was.        *)
LEMMA NoneChanges ==
    ASSUME CountsExact, UNCHANGED counters,
           \A d \in Clients : Counted(d)' <=> Counted(d)
    PROVE  CountsExact'
  <1>1. Held' = Held /\ \A ip \in IPs : HeldFrom(ip)' = HeldFrom(ip)
    BY DEF Held, HeldFrom, counters
  <1> QED
    BY <1>1, CountsExactForm DEF CountsExact, Held, HeldFrom, counters

(* A connection takes a place.                                              *)
LEMMA OneMore ==
    ASSUME TypeOK, CountsExact, NEW c \in Clients, ~Counted(c), Counted(c)',
           \A d \in Clients \ {c} : Counted(d)' <=> Counted(d),
           wsCount' = wsCount + 1, UNCHANGED ipOf,
           wsIPCounts' = [wsIPCounts EXCEPT ![ipOf[c]] = @ + 1]
    PROVE  CountsExact'
  <1>1. Held' = Held \union {c} /\ c \notin Held
    BY DEF Held
  <1>2. Cardinality(Held)' = Cardinality(Held) + 1
    BY <1>1, HeldFinite, FS_AddElement
  <1>3. ASSUME NEW ip \in IPs
        PROVE  wsIPCounts'[ip] = Cardinality(HeldFrom(ip))'
    <2>1. CASE ipOf[c] = ip
      <3>1. HeldFrom(ip)' = HeldFrom(ip) \union {c} /\ c \notin HeldFrom(ip)
        BY <2>1 DEF HeldFrom
      <3>2. Cardinality(HeldFrom(ip))' = Cardinality(HeldFrom(ip)) + 1
        BY <3>1, HeldFinite, FS_AddElement
      <3> QED
        BY <2>1, <3>2, CountsExactForm DEF TypeOK
    <2>2. CASE ipOf[c] # ip
      <3>1. HeldFrom(ip)' = HeldFrom(ip)
        BY <2>2 DEF HeldFrom
      <3> QED
        BY <2>2, <3>1, CountsExactForm DEF TypeOK
    <2> QED
      BY <2>1, <2>2
  <1> QED
    BY <1>2, <1>3, CountsExactForm DEF CountsExact, Held, HeldFrom

(* A connection gives its place back: the guards of GiveBack never matter.  *)
LEMMA OneLess ==
    ASSUME TypeOK, CountsExact, NEW c \in Clients, Counted(c), ~Counted(c)',
           \A d \in Clients \ {c} : Counted(d)' <=> Counted(d), GiveBack(c)
    PROVE  CountsExact'
  <1>0. ipOf[c] \in IPs /\ UNCHANGED ipOf
    BY DEF TypeOK, GiveBack
  <1>1. Held' = Held \ {c} /\ c \in Held
    BY DEF Held
  <1>2. Cardinality(Held)' = Cardinality(Held) - 1
    BY <1>1, HeldFinite, FS_RemoveElement
  <1>3. Cardinality(Held) # 0
    BY <1>1, HeldFinite, FS_EmptySet
  <1>4. wsCount' = Cardinality(Held)'
    BY <1>2, <1>3, HeldFinite, CountsExactForm DEF GiveBack
  <1>5. ASSUME NEW ip \in IPs
        PROVE  wsIPCounts'[ip] = Cardinality(HeldFrom(ip))'
    <2>1. CASE ipOf[c] = ip
      <3>1. HeldFrom(ip)' = HeldFrom(ip) \ {c} /\ c \in HeldFrom(ip)
        BY <1>0, <2>1 DEF HeldFrom
      <3>2. Cardinality(HeldFrom(ip))' = Cardinality(HeldFrom(ip)) - 1
        BY <3>1, HeldFinite, FS_RemoveElement
      <3>3. Cardinality(HeldFrom(ip)) # 0
        BY <3>1, HeldFinite, FS_EmptySet
      <3> QED
        BY <2>1, <3>2, <3>3, HeldFinite, CountsExactForm DEF GiveBack, TypeOK
    <2>2. CASE ipOf[c] # ip
      <3>1. HeldFrom(ip)' = HeldFrom(ip)
        BY <1>0, <2>2 DEF HeldFrom
      <3> QED
        BY <2>2, <3>1, CountsExactForm DEF GiveBack, TypeOK
    <2> QED
      BY <2>1, <2>2
  <1> QED
    BY <1>4, <1>5, CountsExactForm DEF CountsExact, Held, HeldFrom

(* The inductive invariant of the counters.                                 *)
CountInv == TypeOK /\ Phases /\ CountsExact

LEMMA CountInit == Init => CountInv
  <1> SUFFICES ASSUME Init PROVE CountInv
    OBVIOUS
  <1>1. Phases
    BY DEF Init, Phases
  <1>2. Held = {} /\ \A ip \in IPs : HeldFrom(ip) = {}
    BY DEF Init, Held, HeldFrom, Counted
  <1>3. CountsExact
    BY <1>2, FS_EmptySet, CountsExactForm DEF Init
  <1> QED
    BY <1>1, <1>3, TypeInit DEF CountInv

LEMMA CountsStep == CountInv /\ [Next]_vars => CountsExact'
  <1> SUFFICES ASSUME CountInv, [Next]_vars PROVE CountsExact'
    OBVIOUS
  <1> USE DEF CountInv, TypeOK, Phases, Counted
  <1>1. ASSUME NEW c \in Clients, Enter(c) PROVE CountsExact'
    <2>1. CASE Admit(c)
      <3>1. /\ ~Counted(c) /\ Counted(c)'
            /\ \A d \in Clients \ {c} : Counted(d)' <=> Counted(d)
        BY <2>1 DEF Admit
      <3>2. /\ wsCount' = wsCount + 1
            /\ wsIPCounts' = [wsIPCounts EXCEPT ![ipOf[c]] = @ + 1]
            /\ UNCHANGED ipOf
        BY <2>1 DEF Admit
      <3> QED
        BY <3>1, <3>2, OneMore
    <2>2. CASE Reject(c) \/ Upgrade(c)
      <3>1. UNCHANGED counters /\ \A d \in Clients : Counted(d)' <=> Counted(d)
        BY <2>2 DEF Reject, Upgrade
      <3> QED
        BY <3>1, NoneChanges
    <2>3. CASE UpgradeFails(c)
      <3>1. /\ Counted(c) /\ ~Counted(c)' /\ GiveBack(c)
            /\ \A d \in Clients \ {c} : Counted(d)' <=> Counted(d)
        BY <2>3 DEF UpgradeFails
      <3> QED
        BY <3>1, OneLess
    <2> QED
      BY <1>1, <2>1, <2>2, <2>3 DEF Enter
  <1>2. ASSUME NEW c \in Clients, Handle(c) PROVE CountsExact'
    <2>1. UNCHANGED counters /\ \A d \in Clients : Counted(d)' <=> Counted(d)
      BY <1>2 DEF Handle, Join, Greet, Leave
    <2> QED
      BY <2>1, NoneChanges
  <1>3. ASSUME NEW c \in Clients, Pump(c) PROVE CountsExact'
    <2>1. UNCHANGED counters /\ \A d \in Clients : Counted(d)' <=> Counted(d)
      BY <1>3 DEF Pump, WriteMessage, WriteFails, PingFails, PumpEnds, StopPump,
                  CallUnregister, pumps
    <2> QED
      BY <2>1, NoneChanges
  <1>4. ASSUME NEW c \in Clients, Unregister(c) PROVE CountsExact'
    <2>1. CASE Release(c)
      <3>1. /\ Counted(c) /\ ~Counted(c)' /\ GiveBack(c)
            /\ \A d \in Clients \ {c} : Counted(d)' <=> Counted(d)
        BY <2>1 DEF Release
      <3> QED
        BY <3>1, OneLess
    <2>2. CASE Announce(c) \/ CloseSendCh(c)
      <3>1. UNCHANGED counters /\ \A d \in Clients : Counted(d)' <=> Counted(d)
        BY <2>2 DEF Announce, CloseSendCh
      <3> QED
        BY <3>1, NoneChanges
    <2> QED
      BY <1>4, <2>1, <2>2 DEF Unregister
  <1>5. ASSUME NEW c \in Clients, Command(c) \/ ReadFails(c) \/ Break(c)
        PROVE  CountsExact'
    <2>1. UNCHANGED counters /\ \A d \in Clients : Counted(d)' <=> Counted(d)
      BY <1>5 DEF Command, ReadFails, Break, CallUnregister, pumps
    <2> QED
      BY <2>1, NoneChanges
  <1>6. CASE Run \/ StartBroadcast \/ Deliver \/ UNCHANGED vars
    <2>1. UNCHANGED counters /\ \A d \in Clients : Counted(d)' <=> Counted(d)
      BY <1>6 DEF Run, TakeReg, TakeUnreg, Apply, StartBroadcast, Deliver, Visit,
                  Send, EndBroadcast, vars, pumps
    <2> QED
      BY <2>1, NoneChanges
  <1> QED
    BY <1>1, <1>2, <1>3, <1>4, <1>5, <1>6 DEF Next

LEMMA CountInvariant == Spec => []CountInv
  <1>1. CountInv /\ [Next]_vars => CountInv'
    BY TypeStep, PhasesStep, CountsStep DEF CountInv
  <1> QED
    BY <1>1, CountInit, PTL DEF Spec

(* Both counters of handleWebSocket are exact at every moment, however the   *)
(* connections end: none is forgotten, and none is given back twice.         *)
THEOREM CountersExact == Spec => []CountsExact
  <1>1. CountInv => CountsExact
    BY DEF CountInv
  <1> QED
    BY <1>1, CountInvariant, PTL

(* The limits are those of the counters: Admit looks at both before it counts *)
(* one more, and nothing else raises them.                                  *)
LimitInv == wsCount <= MaxConns /\ \A ip \in IPs : wsIPCounts[ip] <= MaxPerIP

LEMMA LimitStep == TypeOK /\ LimitInv /\ [Next]_vars => LimitInv'
  <1> SUFFICES ASSUME TypeOK, LimitInv, [Next]_vars PROVE LimitInv'
    OBVIOUS
  <1> USE WsAssumption DEF LimitInv
  <1>1. CASE UNCHANGED counters
    BY <1>1 DEF counters
  <1>2. ASSUME NEW c \in Clients, Admit(c) PROVE LimitInv'
    BY <1>2 DEF Admit, TypeOK
  <1>3. ASSUME NEW c \in Clients, GiveBack(c) PROVE LimitInv'
    BY <1>3 DEF GiveBack, TypeOK
  <1>4. ASSUME NEW c \in Clients, Enter(c) PROVE LimitInv'
    BY <1>1, <1>2, <1>3, <1>4 DEF Enter, Reject, Upgrade, UpgradeFails
  <1>5. ASSUME NEW c \in Clients, Unregister(c) PROVE LimitInv'
    BY <1>1, <1>3, <1>5 DEF Unregister, Release, Announce, CloseSendCh
  <1>6. ASSUME NEW c \in Clients,
               Handle(c) \/ Pump(c) \/ Command(c) \/ ReadFails(c) \/ Break(c)
        PROVE  UNCHANGED counters
    BY <1>6 DEF Handle, Join, Greet, Leave, Pump, WriteMessage, WriteFails, PingFails,
                PumpEnds, StopPump, Command, ReadFails, Break
  <1>7. Run \/ StartBroadcast \/ Deliver \/ UNCHANGED vars => UNCHANGED counters
    BY DEF Run, TakeReg, TakeUnreg, Apply, StartBroadcast, Deliver, Visit, Send,
           EndBroadcast, vars
  <1> QED
    BY <1>1, <1>4, <1>5, <1>6, <1>7 DEF Next

(* Neither limit is ever exceeded by the connections there are, whatever     *)
(* addresses they come from.                                                *)
THEOREM LimitsHold == Spec => []WithinLimits
  <1>1. Init => LimitInv
    BY WsAssumption DEF Init, LimitInv
  <1>2. CountInv /\ LimitInv => WithinLimits
    BY DEF CountInv, CountsExact, LimitInv, WithinLimits
  <1>3. CountInv => TypeOK
    BY DEF CountInv
  <1> QED
    BY <1>1, <1>2, <1>3, CountInvariant, LimitStep, PTL DEF Spec
-----------------------------------------------------------------------------
(* Pausing.  The message that may still come is the one of the broadcast    *)
(* that has already looked at this client.                                  *)
PauseInv ==
    \A c \in Clients :
        paused[c] => late[c] + (IF broadcast.to = c THEN 1 ELSE 0) <= 1

LEMMA PauseStep == TypeOK /\ PauseInv /\ [Next]_vars => PauseInv'
  <1> SUFFICES ASSUME TypeOK, PauseInv, [Next]_vars, NEW d \in Clients, paused'[d]
               PROVE  late'[d] + (IF broadcast'.to = d THEN 1 ELSE 0) <= 1
    BY DEF PauseInv
  <1>0. /\ paused[d] => late[d] + (IF broadcast.to = d THEN 1 ELSE 0) <= 1
        /\ late[d] \in 0 .. 2 /\ NoClient # d
    BY WsAssumption DEF PauseInv, TypeOK
  <1>1. CASE UNCHANGED <<paused, late, broadcast>>
    BY <1>0, <1>1
  <1>2. ASSUME NEW c \in Clients, Command(c)
        PROVE  late'[d] + (IF broadcast'.to = d THEN 1 ELSE 0) <= 1
    BY <1>0, <1>2 DEF Command, TypeOK
  <1>3. CASE StartBroadcast
    BY <1>0, <1>3 DEF StartBroadcast, queues
  <1>4. ASSUME NEW c \in Clients, Visit(c)
        PROVE  late'[d] + (IF broadcast'.to = d THEN 1 ELSE 0) <= 1
    BY <1>0, <1>4 DEF Visit, TypeOK, queues
  <1>5. CASE Send
    <2>1. paused[d] /\ broadcast'.to = NoClient
      BY <1>5 DEF Send, TypeOK
    <2>2. CASE broadcast.to = d
      BY <1>0, <1>5, <2>1, <2>2 DEF Send, TypeOK
    <2>3. CASE broadcast.to # d
      BY <1>0, <1>5, <2>1, <2>3 DEF Send, TypeOK
    <2> QED
      BY <2>2, <2>3
  <1>6. CASE EndBroadcast
    BY <1>0, <1>6 DEF EndBroadcast, Idle, queues
  <1>7. ASSUME NEW c \in Clients,
               Enter(c) \/ Handle(c) \/ Pump(c) \/ Unregister(c) \/ ReadFails(c) \/ Break(c)
        PROVE  UNCHANGED <<paused, late, broadcast>>
    BY <1>7 DEF Enter, Admit, Reject, Upgrade, UpgradeFails, Handle, Join, Greet, Leave,
                Pump, WriteMessage, WriteFails, PingFails, PumpEnds,
                Unregister, Release, Announce, CloseSendCh, ReadFails, Break, queues
  <1>8. Run \/ UNCHANGED vars => UNCHANGED <<paused, late, broadcast>>
    BY DEF Run, TakeReg, TakeUnreg, Apply, vars, queues
  <1> QED
    BY <1>1, <1>2, <1>3, <1>4, <1>5, <1>6, <1>7, <1>8 DEF Next, Deliver

(* A client that has paused is sent one message more at most: the check of   *)
(* paused and the send in wsHub.broadcast are two steps, but only two.       *)
THEOREM PauseObeyed == Spec => []OneAfterPause
  <1>1. Init => PauseInv
    BY DEF Init, PauseInv
  <1>2. TypeOK /\ PauseInv => OneAfterPause
    <2> SUFFICES ASSUME TypeOK, PauseInv, NEW c \in Clients, paused[c]
                 PROVE  late[c] <= 1
      BY DEF OneAfterPause
    <2>1. late[c] \in 0 .. 2
      BY DEF TypeOK
    <2> QED
      BY <2>1 DEF PauseInv
  <1> QED
    BY <1>1, <1>2, PauseStep, TypeCorrect, PTL DEF Spec
=============================================================================
