----------------------------- MODULE Collectors -----------------------------
(***************************************************************************)
(* How rates come out of counters (internal/collector): each collection    *)
(* notes when it starts, reads the counters of a source, subtracts what it *)
(* read before and divides by the time since the start of the collection   *)
(* before.  The sources are read one after another, some of them over a    *)
(* socket: time passes and the counters go on between the start and a      *)
(* reading, and between two readings of one source.  Sources disappear, do *)
(* not answer, start again from zero; each collector has its own way to    *)
(* deal with that.                                                         *)
(*                                                                         *)
(* A behaviour has one source.  Its counters are a and b, of which a is    *)
(* the one that a collector asks about first; the other counters of a      *)
(* source are treated like b.  Nothing stands for a device that is not in  *)
(* the sample and for an application that is nil there.                    *)
(***************************************************************************)
EXTENDS Integers, FiniteSets

CONSTANTS
    Kinds,       \* the sources: of AllKinds
    Width,       \* 2^64: unsigned differences are taken modulo this
    CPUs,        \* the numbers of CPUs that the machine may have
    MaxCount,    \* bound: the value of a counter
    MaxClock,    \* bound: the time
    MaxFaults    \* bound: restarts, and counters that step back

AllKinds == {"network", "disk", "tcp", "cpu", "self", "gpu", "container",
             "nginx", "apache2", "postgres", "mysql"}
\* The previous readings are in a map, which lacks what has not been read.
Maps == {"network", "disk", "gpu", "container"}

ASSUME CollectorsAssumption ==
    /\ Kinds \subseteq AllKinds
    /\ CPUs \subseteq Nat \ {0} /\ CPUs # {}
    /\ MaxCount \in Nat \ {0} /\ MaxClock \in Nat /\ MaxFaults \in Nat
    /\ Width \in Nat /\ Width > 2 * MaxCount

VARIABLES
    kind,      \* the source
    counters,  \* its counters
    cpus,      \* the number of CPUs
    clock,
    step,      \* which counter the collection reads next, or idle
    first,     \* what it read of the first one
    prev,      \* the readings before: prevNet, prevTCP, prevNginx, pc.prev, ...
    prevTime,  \* when the last collection started
    lastTime,  \* when the one before it did
    db,        \* is there a connection pool for the database?
    shown,     \* the rates in the sample, once they are there
    total,     \* history: all that was counted
    faults,    \* history: how often the source started again or stepped back
    lost       \* history: was the connection lost since the readings in prev?

source == <<kind, counters, cpus, clock, total, faults>>
collector == <<step, first, prev, prevTime, lastTime, db, shown, lost>>
vars == <<source, collector>>

Counters == {"a", "b"}
zero == [c \in Counters |-> 0]
Nothing == [on |-> FALSE]
never == -1

\* A reading of a counter, and (history) when it was taken, when its collection
\* had started, and what the source had gone through until then.
Reading(c) ==
    [read |-> TRUE, value |-> counters[c], cpus |-> cpus, at |-> clock,
     start |-> prevTime, total |-> total[c], faults |-> faults]

\* What stands for a counter that could not be read: zero, or nothing in a map.
Unread(c) == [Reading(c) EXCEPT !.read = FALSE, !.value = 0, !.cpus = 0]

All == [c \in Counters |-> Reading(c)]
None == [c \in Counters |-> Unread(c)]
-----------------------------------------------------------------------------
(* The source.                                                             *)

Count(c) ==
    /\ counters[c] < MaxCount
    /\ counters' = [counters EXCEPT ![c] = @ + 1]
    /\ total' = [total EXCEPT ![c] = @ + 1]
    /\ UNCHANGED <<kind, cpus, clock, faults, collector>>

\* A device, container or server that starts again.  The counters of the
\* kernel and of this process do not.
Restart ==
    /\ kind \notin {"cpu", "tcp", "self"} /\ faults < MaxFaults
    /\ faults' = faults + 1
    /\ counters' = zero
    /\ UNCHANGED <<kind, cpus, clock, total, collector>>

\* The kernel may correct idle and iowait times downwards.
StepBack ==
    /\ kind = "cpu" /\ counters["b"] > 0 /\ faults < MaxFaults
    /\ faults' = faults + 1
    /\ counters' = [counters EXCEPT !["b"] = @ - 1]
    /\ UNCHANGED <<kind, cpus, clock, total, collector>>

\* CPUs go online or offline; their ticks stay in the first line of /proc/stat.
Hotplug ==
    /\ kind = "cpu"
    /\ cpus' \in CPUs \ {cpus}
    /\ UNCHANGED <<kind, counters, clock, total, faults, collector>>

Tick ==
    /\ clock < MaxClock
    /\ clock' = clock + 1
    /\ UNCHANGED <<kind, counters, cpus, total, faults, collector>>
-----------------------------------------------------------------------------
(* Differences between two readings.                                       *)

\* "Guard against uint64 underflow on counter reset"
Guarded(cur, old) == IF cur.value >= old.value THEN cur.value - old.value ELSE 0

Wrapped(cur, old) == (cur.value - old.value) % Width

Difference(r) == [c \in Counters |-> Guarded(r[c], prev[c])]

\* Interfaces, disks, containers, and energy: each counter by itself.
DeviceDeltas(cur) ==
    [c \in Counters |-> IF cur[c].read /\ prev[c].read THEN Difference(cur)[c] ELSE 0]

Ticks(r) == r["a"].value + r["b"].value

\* collectCPU takes no differences where the number of CPUs changed, and
\* calcCorePct none where the ticks did not go on.
CPUDeltas(cur) ==
    IF cur["a"].cpus = prev["a"].cpus /\ Ticks(cur) > Ticks(prev)
    THEN Difference(cur) ELSE zero

\* Seeded mistake: a counter that was not there is taken for one at zero.
TCPDeltasFromZero(cur) == Difference(cur)

TCPDeltas(cur) ==
    [c \in Counters |-> IF prev[c].value > 0 THEN Difference(cur)[c] ELSE 0]

SelfDeltas(cur) ==
    [c \in Counters |-> IF prev["a"].value > 0 THEN Wrapped(cur[c], prev[c]) ELSE 0]

\* Only accepts is compared.
NginxDeltas(cur) ==
    [c \in Counters |-> IF prev["a"].value > 0 /\ cur["a"].value >= prev["a"].value
                        THEN Wrapped(cur[c], prev[c]) ELSE 0]

\* Apache2 and calculateStats of the databases.
ServerDeltas(cur) == IF prev["a"].value > 0 THEN Difference(cur) ELSE zero
-----------------------------------------------------------------------------
(* A collection.                                                           *)

Elapsed == IF lastTime = never THEN 1 ELSE prevTime - lastTime

\* Time has passed since the last collection; a new sample is begun.
Begin ==
    /\ step = "idle" /\ clock > prevTime
    /\ step' = "first"
    /\ lastTime' = prevTime /\ prevTime' = clock
    /\ shown' = Nothing
    /\ UNCHANGED <<source, first, prev, db, lost>>

\* The first of the counters has been read, or could not be.
Then(r) ==
    /\ step = "first" /\ step' = "second"
    /\ first' = r
    /\ UNCHANGED <<source, prevTime, lastTime, shown>>

Done ==
    /\ step' = "idle" /\ first' = {}
    /\ UNCHANGED <<source, prevTime, lastTime>>

Show(cur, delta, over) ==
    shown' = [on |-> TRUE, delta |-> delta, over |-> over, from |-> prev, to |-> cur,
              last |-> lastTime, lost |-> lost]

\* The readings are the next ones' previous ones.
Take(cur) == prev' = cur /\ lost' = FALSE /\ UNCHANGED db

\* Nothing is shown, and the readings before stay.
Miss == step = "first" /\ Done /\ shown' = Nothing /\ UNCHANGED <<prev, db, lost>>

\* Zeros are shown, and the readings before stay.
Blank ==
    /\ step = "first" /\ Done
    /\ Show(None, zero, Elapsed)
    /\ UNCHANGED <<prev, db, lost>>

\* All is read at once.
TakeAll(delta, over) ==
    step = "first" /\ Done /\ Show(All, delta, over) /\ Take(All)

\* Seeded mistake: the last reading of a device that is gone is kept.
ReadDevicesKeeping == TakeAll(DeviceDeltas(All), Elapsed) \/ Miss

\* What was not read is forgotten: prevNet and prevDisk are replaced.
ReadDevices ==
    \/ TakeAll(DeviceDeltas(All), Elapsed)
    \/ step = "first" /\ Done /\ shown' = Nothing /\ Take(None)

CollectNetwork == kind = "network" /\ ReadDevices

CollectDisks == kind = "disk" /\ ReadDevices

\* collectTCPStats: snmp and netstat are read one after the other, and what cannot
\* be read is zero.
CollectTCP ==
    /\ kind = "tcp"
    /\ \/ \E r \in {Reading("a"), Unread("a")} : Then(r) /\ UNCHANGED <<prev, db, lost>>
       \/ /\ step = "second" /\ Done
          /\ \E r \in {Reading("b"), Unread("b")} :
                 LET cur == [All EXCEPT !["a"] = first, !["b"] = r]
                 IN Show(cur, TCPDeltas(cur), Elapsed) /\ Take(cur)

\* collectCPU: the shares of the ticks there were, at whatever time.
CollectCPU ==
    /\ kind = "cpu"
    /\ TakeAll(CPUDeltas(All), Ticks(All) - Ticks(prev)) \/ Blank

\* collectSelf
CollectSelf == kind = "self" /\ (TakeAll(SelfDeltas(All), Elapsed) \/ Blank)

\* The energy of a GPU, from which its power is derived where it has no sensor.
CollectGPU ==
    /\ kind = "gpu"
    /\ \/ counters["a"] > 0 /\ TakeAll([DeviceDeltas(All) EXCEPT !["b"] = 0], Elapsed)
       \/ Blank

\* containerCollector.collect, at its own pace.  It fails with the socket, and it
\* passes over a container that does not run.  Of the others the CPU, the network
\* and the disks are read one after another, each as it can be; all that was read
\* keeps its place until it is read again.
CollectContainer ==
    /\ kind = "container"
    /\ \/ Miss
       \/ \E r \in {Reading("a"), Unread("a")} : Then(r) /\ UNCHANGED <<prev, db, lost>>
       \/ /\ step = "second" /\ Done
          /\ \E r \in {Reading("b"), Unread("b")} :
                 LET cur == [All EXCEPT !["a"] = first, !["b"] = r]
                 IN /\ Show(cur, DeviceDeltas(cur), Elapsed)
                    /\ Take([c \in Counters |-> IF cur[c].read THEN cur[c] ELSE prev[c]])

\* collectNginx
CollectNginx == kind = "nginx" /\ (TakeAll(NginxDeltas(All), Elapsed) \/ Miss)

\* collectApache2.  A page without the counters leaves zeros; it is shown if it
\* tells of workers at least.
CollectApache2 ==
    /\ kind = "apache2"
    /\ \/ TakeAll(ServerDeltas(All), Elapsed)
       \/ /\ step = "first" /\ Done
          /\ Show(None, ServerDeltas(None), Elapsed) \/ shown' = Nothing
          /\ Take(None)
       \/ Miss

\* Seeded mistake: a new connection goes on from the old counters.
ConnectKeeping(pings, again) ==
    /\ db' = ((db /\ pings) \/ again)
    /\ lost' = (lost \/ (db /\ ~pings))
    /\ UNCHANGED prev

\* connect: pings is the answer over the connections there are, again the one
\* over new ones.  (A pool whose connections broke may answer from a new one.)
Connect(pings, again) ==
    /\ db' = ((db /\ pings) \/ again)
    /\ lost' = (lost \/ (db /\ ~pings))
    /\ prev' = IF db /\ ~pings THEN None ELSE prev

\* connect, and the query for the first counters; without an answer there are no
\* statistics.
Ask ==
    \E pings, again \in BOOLEAN :
        /\ Connect(pings, again)
        /\ \/ db' /\ Then(Reading("a"))
           \/ step = "first" /\ Done /\ shown' = Nothing

\* The other counters, and the rates.
Answer(r) ==
    LET cur == [All EXCEPT !["a"] = first, !["b"] = r]
    IN /\ step = "second" /\ Done
       /\ Show(cur, ServerDeltas(cur), Elapsed) /\ Take(cur)

\* pg_stat_bgwriter may fail by itself and leaves zeros.
CollectPostgres ==
    /\ kind = "postgres"
    /\ Ask \/ \E r \in {Reading("b"), Unread("b")} : Answer(r)

\* One query gives all counters; its rows may take time.
CollectMysql == kind = "mysql" /\ (Ask \/ Answer(Reading("b")))

Collect ==
    \/ CollectNetwork \/ CollectTCP \/ CollectCPU \/ CollectDisks \/ CollectSelf
    \/ CollectGPU \/ CollectNginx \/ CollectApache2 \/ CollectContainer
    \/ CollectPostgres \/ CollectMysql
-----------------------------------------------------------------------------
Init ==
    /\ kind \in Kinds
    /\ counters \in [Counters -> {0, 1}]
    /\ cpus = CHOOSE n \in CPUs : TRUE
    /\ clock = 0
    /\ step = "idle" /\ first = {}
    /\ prevTime = never /\ lastTime = never
    /\ db = FALSE
    /\ shown = Nothing
    /\ total = counters /\ faults = 0 /\ lost = FALSE
    /\ prev = None

Next ==
    \/ \E c \in Counters : Count(c)
    \/ Restart \/ StepBack \/ Hotplug \/ Tick
    \/ Begin \/ Collect

Spec == Init /\ [][Next]_vars
-----------------------------------------------------------------------------
(* Properties.                                                             *)

\* What the source counted between the two readings.
Counted(c) == shown.to[c].total - shown.from[c].total

\* The source started again, or stepped back, between the two readings.
Interrupted(c) == shown.to[c].faults # shown.from[c].faults

\* Rates that show more than was counted: "Guard against uint64 underflow on
\* counter reset/wrap" (collectNetwork) is missing where nginx restarts, and
\* after a failed query the buffers of PostgreSQL are taken for zero.
Spikes(c) ==
    /\ c = "b"
    /\ \/ kind = "nginx" /\ Interrupted(c)
       \/ kind = "postgres" /\ ~shown.from[c].read

\* Both readings have the counter, the one before has also the value that the
\* collector takes for a sign of a reading (its own for tcp, the first one's for
\* the others), and the counter went on.
Continues(c) ==
    LET from == shown.from
        to == shown.to
    IN /\ from[c].read /\ to[c].read /\ ~Interrupted(c)
       /\ kind \notin Maps \union {"cpu"} =>
              from[IF kind = "tcp" THEN c ELSE "a"].value > 0
       /\ kind = "cpu" => from[c].cpus = to[c].cpus
       /\ kind = "gpu" => c = "a"

\* A rate is made of what the source counted between the two readings, at most
\* (but for the two cases of Spikes); and of all of that, where the counter goes
\* on: a restart, an outage or a file that cannot be read costs readings, and
\* nothing is counted twice or not at all (calculateStats, parseNginxStatus,
\* collectTCPStats, readCPUUsage, ...).
RateIsCount ==
    shown.on => \A c \in Counters :
        /\ shown.delta[c] <= Counted(c) \/ Spikes(c)
        /\ Continues(c) => shown.delta[c] = Counted(c)

Delay(r) == r.at - r.start

\* It is divided by the time between the two readings, but for the delays: where
\* the earlier reading came later after the start of its collection than this one,
\* by too much, otherwise by too little.  Where collections in between could not
\* read the counter, the time is shorter than that; interfaces, disks and tcp
\* forget the reading then.  The CPU has shares of ticks instead.
RateOverItsTime ==
    shown.on => \A c \in Counters : shown.delta[c] # 0 =>
        LET from == shown.from[c]
            to == shown.to[c]
            time == (to.at - from.at) + Delay(from) - Delay(to)
        IN IF kind = "cpu"
           THEN Interrupted(c) \/ shown.over = Counted("a") + Counted("b")
           ELSE IF from.start = shown.last
           THEN shown.over = time
           ELSE shown.over < time /\ kind \notin {"network", "disk", "tcp"}

\* "Clear prev counters so we don't compute bogus rates against stale values
\* from a previous postgres instance" (connect).
NoRateAfterLoss == shown.on /\ shown.lost => shown.delta = zero
=============================================================================
