-------------------------------- MODULE WsHub -------------------------------
(***************************************************************************)
(* Live samples over WebSocket (internal/web/websocket.go and the wsHub of *)
(* internal/web/server.go).  A connection has two goroutines: its handler, *)
(* which registers it and then writes what is queued for it, and a reader, *)
(* which obeys pause and resume.  Whichever ends first runs unregister,    *)
(* once.  One more goroutine is the hub, and the collection goroutine      *)
(* broadcasts.  A step goes from one lock or channel operation to the      *)
(* next.  Samples are all alike here: a queue is its length.               *)
(***************************************************************************)
EXTENDS Integers, Sequences, FiniteSets

CONSTANTS
    Clients,   \* connection attempts
    IPs,       \* client addresses
    MaxConns,  \* max_websocket_conns
    MaxPerIP,  \* max_websocket_conns_per_ip
    ChanCap,   \* capacity of regCh and of unregCh
    SendCap,   \* capacity of a client's sendCh
    Commands,  \* what clients send: pause (TRUE), resume (FALSE)
    Collects,  \* are samples broadcast at all?
    NoClient

ASSUME WsAssumption ==
    /\ IsFiniteSet(Clients)
    /\ MaxConns \in Nat /\ MaxPerIP \in Nat
    /\ ChanCap \in Nat \ {0} /\ SendCap \in Nat \ {0}
    /\ Commands \subseteq BOOLEAN /\ Collects \in BOOLEAN
    /\ NoClient \notin Clients

VARIABLES
    wsCount, wsIPCounts,  \* guarded by wsMu
    ipOf,      \* the address that each attempt comes from (clientIP)
    handler,   \* where the handler of each connection is
    reader,    \* and its reader
    unreg,     \* how far the connection's unregister is
    conn,      \* the connection itself
    paused,    \* wsClient.paused
    queued,    \* messages in sendCh
    closed,    \* sendCh is closed
    regCh, unregCh, clients,  \* wsHub
    hub,       \* what the hub has taken from a channel
    broadcast, \* the broadcast under way: clients to visit, and the one picked
    late,      \* history: messages queued for a client since it paused, up to 2
    panicked   \* the process died of a send on a closed channel

counters == <<wsCount, wsIPCounts, ipOf>>
pumps    == <<handler, reader, unreg, conn>>
queues   == <<paused, queued, closed, late>>
hubVars  == <<regCh, unregCh, clients, hub>>
vars     == <<counters, pumps, queues, hubVars, broadcast, panicked>>

Idle == [on |-> FALSE, todo |-> {}, to |-> NoClient]
-----------------------------------------------------------------------------
(* handleWebSocket up to the pumps.                                        *)

\* Seeded mistake: the number of connections in all is not looked at.
AdmitAnyTotal(c) ==
    /\ handler[c] = "none"
    /\ wsIPCounts[ipOf[c]] < MaxPerIP
    /\ wsCount' = wsCount + 1
    /\ wsIPCounts' = [wsIPCounts EXCEPT ![ipOf[c]] = @ + 1]
    /\ handler' = [handler EXCEPT ![c] = "upgrading"]
    /\ UNCHANGED <<ipOf, reader, unreg, conn, queues, hubVars, broadcast, panicked>>

Admit(c) ==
    /\ handler[c] = "none"
    /\ wsCount < MaxConns
    /\ wsIPCounts[ipOf[c]] < MaxPerIP
    /\ wsCount' = wsCount + 1
    /\ wsIPCounts' = [wsIPCounts EXCEPT ![ipOf[c]] = @ + 1]
    /\ handler' = [handler EXCEPT ![c] = "upgrading"]
    /\ UNCHANGED <<ipOf, reader, unreg, conn, queues, hubVars, broadcast, panicked>>

\* "Global connection limit reached", "Per-IP connection limit reached".
Reject(c) ==
    /\ handler[c] = "none"
    /\ wsCount >= MaxConns \/ wsIPCounts[ipOf[c]] >= MaxPerIP
    /\ handler' = [handler EXCEPT ![c] = "done"]
    /\ UNCHANGED <<counters, reader, unreg, conn, queues, hubVars, broadcast,
                   panicked>>

\* wsCount-- and wsIPCounts[ip]--, each when it is positive.
GiveBack(c) ==
    /\ wsCount' = IF wsCount > 0 THEN wsCount - 1 ELSE wsCount
    /\ wsIPCounts' = [wsIPCounts EXCEPT ![ipOf[c]] = IF @ > 0 THEN @ - 1 ELSE @]
    /\ UNCHANGED ipOf

UpgradeFails(c) ==
    /\ handler[c] = "upgrading"
    /\ GiveBack(c)
    /\ handler' = [handler EXCEPT ![c] = "done"]
    /\ UNCHANGED <<reader, unreg, conn, queues, hubVars, broadcast, panicked>>

Upgrade(c) ==
    /\ handler[c] = "upgrading"
    /\ handler' = [handler EXCEPT ![c] = "joining"]
    /\ conn' = [conn EXCEPT ![c] = "open"]
    /\ UNCHANGED <<counters, reader, unreg, queues, hubVars, broadcast, panicked>>

\* Seeded mistake: registering does not wait for room in the channel.
JoinAtOnce(c) ==
    /\ handler[c] = "joining"
    /\ regCh' = Append(regCh, c)
    /\ handler' = [handler EXCEPT ![c] = "greeting"]
    /\ UNCHANGED <<counters, reader, unreg, conn, queues, unregCh, clients, hub,
                   broadcast, panicked>>

\* s.hub.regCh <- client
Join(c) ==
    /\ handler[c] = "joining"
    /\ Len(regCh) < ChanCap
    /\ regCh' = Append(regCh, c)
    /\ handler' = [handler EXCEPT ![c] = "greeting"]
    /\ UNCHANGED <<counters, reader, unreg, conn, queues, unregCh, clients, hub,
                   broadcast, panicked>>

\* The current sample is written, its error ignored; then the reader starts.
Greet(c) ==
    /\ handler[c] = "greeting"
    /\ handler' = [handler EXCEPT ![c] = "pumping"]
    /\ reader' = [reader EXCEPT ![c] = "reading"]
    /\ UNCHANGED <<counters, unreg, conn, queues, hubVars, broadcast, panicked>>
-----------------------------------------------------------------------------
(* The two pumps and unregister.                                           *)

\* Seeded mistake: unregister is not run through unregOnce.
CallUnregisterAgain(c) == unreg' = [unreg EXCEPT ![c] = "release"]

\* unregOnce.Do: only the first call does something.
CallUnregister(c) ==
    unreg' = [unreg EXCEPT ![c] = IF @ = "no" THEN "release" ELSE @]

\* The write pump returns and the deferred function calls unregister.
StopPump(c) ==
    /\ handler' = [handler EXCEPT ![c] = "leaving"]
    /\ CallUnregister(c)

\* A message is written.  (A connection that broke may take it all the same.)
WriteMessage(c) ==
    /\ handler[c] = "pumping"
    /\ queued[c] > 0
    /\ queued' = [queued EXCEPT ![c] = @ - 1]
    /\ UNCHANGED <<counters, pumps, paused, closed, late, hubVars, broadcast,
                   panicked>>

\* Writing it fails.
WriteFails(c) ==
    /\ handler[c] = "pumping"
    /\ queued[c] > 0
    /\ conn[c] = "broken"
    /\ queued' = [queued EXCEPT ![c] = @ - 1]
    /\ StopPump(c)
    /\ UNCHANGED <<counters, reader, conn, paused, closed, late, hubVars,
                   broadcast, panicked>>

\* The ping after 50 seconds fails.
PingFails(c) ==
    /\ handler[c] = "pumping"
    /\ conn[c] = "broken"
    /\ StopPump(c)
    /\ UNCHANGED <<counters, reader, conn, queues, hubVars, broadcast, panicked>>

\* sendCh is closed and what was in it is written.
PumpEnds(c) ==
    /\ handler[c] = "pumping"
    /\ closed[c] /\ queued[c] = 0
    /\ StopPump(c)
    /\ UNCHANGED <<counters, reader, conn, queues, hubVars, broadcast, panicked>>

\* The deferred unregister returns when its one run is over, whoever runs it;
\* then conn.Close().
Leave(c) ==
    /\ handler[c] = "leaving"
    /\ unreg[c] = "done"
    /\ handler' = [handler EXCEPT ![c] = "done"]
    /\ conn' = [conn EXCEPT ![c] = "closed"]
    /\ UNCHANGED <<counters, reader, unreg, queues, hubVars, broadcast, panicked>>

\* ReadJSON takes a command.
Command(c) ==
    /\ reader[c] = "reading"
    /\ conn[c] = "open"
    /\ \E p \in Commands :
           /\ paused' = [paused EXCEPT ![c] = p]
           /\ late' = [late EXCEPT ![c] = IF p /\ ~paused[c] THEN 0 ELSE @]
    /\ UNCHANGED <<counters, pumps, queued, closed, hubVars, broadcast, panicked>>

\* ReadJSON fails: the connection is broken, closed, silent for 60 seconds, or
\* what it sent is no command.
ReadFails(c) ==
    /\ reader[c] = "reading"
    /\ reader' = [reader EXCEPT ![c] = "done"]
    /\ CallUnregister(c)
    /\ UNCHANGED <<counters, handler, conn, queues, hubVars, broadcast, panicked>>

\* The first part of unregister, under wsMu.
Release(c) ==
    /\ unreg[c] = "release"
    /\ GiveBack(c)
    /\ unreg' = [unreg EXCEPT ![c] = "announce"]
    /\ UNCHANGED <<handler, reader, conn, queues, hubVars, broadcast, panicked>>

\* s.hub.unregCh <- client
Announce(c) ==
    /\ unreg[c] = "announce"
    /\ Len(unregCh) < ChanCap
    /\ unregCh' = Append(unregCh, c)
    /\ unreg' = [unreg EXCEPT ![c] = "close"]
    /\ UNCHANGED <<counters, handler, reader, conn, queues, regCh, clients, hub,
                   broadcast, panicked>>

\* close(client.sendCh)
CloseSendCh(c) ==
    /\ unreg[c] = "close"
    /\ closed' = [closed EXCEPT ![c] = TRUE]
    /\ unreg' = [unreg EXCEPT ![c] = "done"]
    /\ UNCHANGED <<counters, handler, reader, conn, paused, queued, late, hubVars,
                   broadcast, panicked>>

\* The peer goes away, or the network does.
Break(c) ==
    /\ conn[c] = "open"
    /\ conn' = [conn EXCEPT ![c] = "broken"]
    /\ UNCHANGED <<counters, handler, reader, unreg, queues, hubVars, broadcast,
                   panicked>>
-----------------------------------------------------------------------------
(* wsHub.run: the select takes from either channel, then waits for h.mu.   *)

TakeReg ==
    /\ hub = <<>> /\ regCh # <<>>
    /\ hub' = <<"reg", Head(regCh)>>
    /\ regCh' = Tail(regCh)
    /\ UNCHANGED <<counters, pumps, queues, unregCh, clients, broadcast, panicked>>

TakeUnreg ==
    /\ hub = <<>> /\ unregCh # <<>>
    /\ hub' = <<"unreg", Head(unregCh)>>
    /\ unregCh' = Tail(unregCh)
    /\ UNCHANGED <<counters, pumps, queues, regCh, clients, broadcast, panicked>>

\* h.mu.Lock() waits for the broadcast, which holds it for reading.
Apply ==
    /\ hub # <<>> /\ ~broadcast.on
    /\ clients' = IF hub[1] = "reg" THEN clients \union {hub[2]}
                  ELSE clients \ {hub[2]}
    /\ hub' = <<>>
    /\ UNCHANGED <<counters, pumps, queues, regCh, unregCh, broadcast, panicked>>
-----------------------------------------------------------------------------
(* wsHub.broadcast, in the collection goroutine.                           *)

StartBroadcast ==
    /\ Collects
    /\ ~broadcast.on
    /\ broadcast' = [on |-> TRUE, todo |-> clients, to |-> NoClient]
    /\ UNCHANGED <<counters, pumps, queues, hubVars, panicked>>

\* Seeded mistake: a client that paused is written to.
VisitAll(c) ==
    /\ broadcast.to = NoClient /\ c \in broadcast.todo
    /\ broadcast' = [broadcast EXCEPT !.todo = @ \ {c}, !.to = c]
    /\ UNCHANGED <<counters, pumps, queues, hubVars, panicked>>

\* The next client, in any order; client.mu is held to read paused only.
Visit(c) ==
    /\ broadcast.to = NoClient /\ c \in broadcast.todo
    /\ broadcast' = [broadcast EXCEPT !.todo = @ \ {c},
                                      !.to = IF paused[c] THEN NoClient ELSE c]
    /\ UNCHANGED <<counters, pumps, queues, hubVars, panicked>>

\* Seeded mistake: the send waits for room (no default case).
SendWaits ==
    LET c == broadcast.to IN
    /\ c # NoClient
    /\ closed[c] \/ queued[c] < SendCap
    /\ panicked' = closed[c]
    /\ queued' = [queued EXCEPT ![c] = IF closed[c] THEN @ ELSE @ + 1]
    /\ broadcast' = [broadcast EXCEPT !.to = NoClient]
    /\ UNCHANGED <<counters, pumps, paused, closed, late, hubVars>>

\* "Client too slow, skip" when the queue is full; a closed one panics.
Send ==
    LET c == broadcast.to
        room == queued[c] < SendCap
    IN
    /\ c # NoClient
    /\ IF closed[c]
       THEN /\ panicked' = TRUE
            /\ UNCHANGED <<queued, late>>
       ELSE /\ queued' = [queued EXCEPT ![c] = IF room THEN @ + 1 ELSE @]
            /\ late' = [late EXCEPT
                            ![c] = IF room /\ paused[c] /\ @ < 2 THEN @ + 1 ELSE @]
            /\ UNCHANGED panicked
    /\ broadcast' = [broadcast EXCEPT !.to = NoClient]
    /\ UNCHANGED <<counters, pumps, paused, closed, hubVars>>

EndBroadcast ==
    /\ broadcast.on /\ broadcast.todo = {} /\ broadcast.to = NoClient
    /\ broadcast' = Idle
    /\ UNCHANGED <<counters, pumps, queues, hubVars, panicked>>
-----------------------------------------------------------------------------
Init ==
    /\ wsCount = 0
    /\ wsIPCounts = [ip \in IPs |-> 0]
    /\ ipOf \in [Clients -> IPs]
    /\ handler = [c \in Clients |-> "none"]
    /\ reader = [c \in Clients |-> "none"]
    /\ unreg = [c \in Clients |-> "no"]
    /\ conn = [c \in Clients |-> "none"]
    /\ paused = [c \in Clients |-> FALSE]
    /\ queued = [c \in Clients |-> 0]
    /\ closed = [c \in Clients |-> FALSE]
    /\ late = [c \in Clients |-> 0]
    /\ regCh = <<>> /\ unregCh = <<>> /\ clients = {} /\ hub = <<>>
    /\ broadcast = Idle
    /\ panicked = FALSE

Enter(c) ==
    Admit(c) \/ Reject(c) \/ Upgrade(c) \/ UpgradeFails(c)

Handle(c) == Join(c) \/ Greet(c) \/ Leave(c)

Pump(c) == WriteMessage(c) \/ WriteFails(c) \/ PingFails(c) \/ PumpEnds(c)

Unregister(c) == Release(c) \/ Announce(c) \/ CloseSendCh(c)

Run == TakeReg \/ TakeUnreg \/ Apply

Deliver == (\E c \in Clients : Visit(c)) \/ Send \/ EndBroadcast

Next ==
    /\ ~panicked
    /\ \/ \E c \in Clients :
              \/ Enter(c) \/ Handle(c) \/ Pump(c) \/ Unregister(c)
              \/ Command(c) \/ ReadFails(c) \/ Break(c)
       \/ Run
       \/ StartBroadcast
       \/ Deliver

Spec == Init /\ [][Next]_vars

\* The scheduler runs every goroutine that can go on, and reading from a broken
\* or closed connection fails in the end (the read deadline).  A writer that
\* waits for a sync.RWMutex keeps new readers out, so that the hub gets h.mu
\* however often samples are broadcast: strong fairness.
Fairness ==
    /\ \A c \in Clients :
           /\ WF_vars(~panicked /\ Handle(c))
           /\ WF_vars(~panicked /\ Pump(c))
           /\ WF_vars(~panicked /\ Unregister(c))
           /\ WF_vars(~panicked /\ conn[c] # "open" /\ ReadFails(c))
    /\ WF_vars(~panicked /\ (TakeReg \/ TakeUnreg))
    /\ SF_vars(~panicked /\ Apply)
    /\ WF_vars(~panicked /\ Deliver)

FairSpec == Spec /\ Fairness
-----------------------------------------------------------------------------
(* Properties.                                                             *)

TypeOK ==
    /\ wsCount \in Nat /\ wsIPCounts \in [IPs -> Nat]
    /\ ipOf \in [Clients -> IPs]
    /\ handler \in [Clients -> {"none", "upgrading", "joining", "greeting",
                                "pumping", "leaving", "done"}]
    /\ reader \in [Clients -> {"none", "reading", "done"}]
    /\ unreg \in [Clients -> {"no", "release", "announce", "close", "done"}]
    /\ conn \in [Clients -> {"none", "open", "broken", "closed"}]
    /\ paused \in [Clients -> BOOLEAN]
    /\ queued \in [Clients -> 0 .. SendCap]
    /\ closed \in [Clients -> BOOLEAN]
    /\ late \in [Clients -> 0 .. 2]
    /\ regCh \in Seq(Clients) /\ Len(regCh) <= ChanCap
    /\ unregCh \in Seq(Clients) /\ Len(unregCh) <= ChanCap
    /\ clients \subseteq Clients
    /\ hub \in {<<>>} \union ({"reg", "unreg"} \X Clients)
    /\ broadcast \in [on : BOOLEAN, todo : SUBSET Clients,
                      to : Clients \union {NoClient}]
    /\ panicked \in BOOLEAN

\* The connections that hold a place: admitted and not yet released.
Counted(c) ==
    /\ handler[c] \notin {"none", "done"}
    /\ unreg[c] \in {"no", "release"}

\* The counters of handleWebSocket and unregister say exactly how many
\* connections there are, in all and by address, however they end.
CountsExact ==
    /\ wsCount = Cardinality({c \in Clients : Counted(c)})
    /\ \A ip \in IPs :
           wsIPCounts[ip] =
               Cardinality({c \in Clients : Counted(c) /\ ipOf[c] = ip})

\* The limits of handleWebSocket, in all and by address, hold for the
\* connections themselves, whatever addresses they come from and whatever has
\* been given back: the counters the limits are compared with never fall behind.
WithinLimits ==
    /\ Cardinality({c \in Clients : Counted(c)}) <= MaxConns
    /\ \A ip \in IPs :
           Cardinality({c \in Clients : Counted(c) /\ ipOf[c] = ip}) <= MaxPerIP

\* Once the reader has obeyed a pause, one message more at most is queued for
\* the client: the broadcast that had looked before (wsHub.broadcast reads
\* paused under client.mu and sends after it has released it).
OneAfterPause ==
    \A c \in Clients : paused[c] => late[c] <= 1

\* A connection that breaks is taken down in the end: its handler ends, the
\* connection is closed and its place is free - nobody waits on a full channel,
\* on unregOnce or on h.mu for ever.
BrokenIsCleanedUp ==
    \A c \in Clients :
        conn[c] = "broken" ~> (conn[c] = "closed" /\ ~Counted(c)) \/ panicked

\* "Client too slow, skip" (wsHub.broadcast): a client that cannot take a sample
\* is passed over, and the collection goroutine goes on to the others.
NoPanic == ~panicked
=============================================================================
