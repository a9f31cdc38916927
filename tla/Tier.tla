-------------------------------- MODULE Tier --------------------------------
(***************************************************************************)
(* One tier file of the storage engine (internal/storage/tier.go): a ring  *)
(* buffer of length-prefixed records of varying length in a data region of *)
(* fixed size, with a header that is rewritten after every record.         *)
(*                                                                         *)
(* The data region is a function from offsets to cells.  A cell stands for *)
(* a few bytes and remembers which record they were written for: the       *)
(* record's timestamp, its length (prefix included) and the position of    *)
(* the cell in it; a cell never written, or zeroed by the end-of-segment   *)
(* sentinel, has length 0.  The first PrefixLen cells of a record are its  *)
(* length prefix (4 bytes in the code) and the next one holds the kind     *)
(* byte and the timestamp, so that a tail of the region may be shorter     *)
(* than a prefix, as in the code.                                          *)
(*                                                                         *)
(* Every operation runs under Tier.mu and is one action.  A write may fail *)
(* after any part of the record reached the file, or at the header.        *)
(***************************************************************************)
EXTENDS Integers, Sequences, Loops

CONSTANTS
    MaxData,     \* cells of the data region (Tier.maxData)
    PrefixLen,   \* cells of a record's length prefix
    RecLens,     \* lengths a record may have, prefix included
    ClockSteps,  \* differences between the timestamps of successive samples
    MagicLen,    \* characters of magicString
    MagicField,  \* bytes of the header that hold the magic
    GarbageTS,   \* timestamps that bytes of no record's start may decode to
    MaxClock,    \* bound: largest timestamp
    MaxFailures, \* bound: failed writes
    MaxRestarts  \* bound: restarts and crashes

Offsets == 0 .. MaxData - 1

ASSUME RegionAssumption ==
    /\ MaxData \in Nat \ {0}
    /\ PrefixLen \in Nat \ {0}
    /\ RecLens \subseteq {n \in Nat : PrefixLen < n}

ASSUME ClockAssumption ==
    /\ ClockSteps \subseteq Int
    /\ MaxClock \in Nat
    /\ MaxFailures \in Nat
    /\ MaxRestarts \in Nat
    /\ GarbageTS \subseteq Nat

ASSUME MagicAssumption == MagicLen \in Nat /\ MagicField \in Nat

VARIABLES
    \* the Tier struct in memory; a timestamp of 0 is Go's zero time
    writeOff, count, oldestTS, newestTS, wrapped, codecVer,
    \* the file: data region, how much of it the file extends to, header
    file, fileEnd, hdr,
    \* history: timestamp of the last sample, timestamps of the records
    \* written since the tier was last empty, failures and restarts so far
    clock, log, failures, restarts

memory  == <<writeOff, count, oldestTS, newestTS, wrapped, codecVer>>
faults  == <<failures, restarts>>
vars    == <<memory, file, fileEnd, hdr, clock, log, faults>>

Cell == [ts : Nat, len : Nat, pos : Nat]
Zero == [ts |-> 0, len |-> 0, pos |-> 0]

HeaderOf(off, n, old, new, ver) ==
    [writeOff |-> off, count |-> n, oldestTS |-> old, newestTS |-> new,
     codecVer |-> ver]

HeaderType ==
    [writeOff : 0 .. MaxData, count : Nat, oldestTS : Nat, newestTS : Nat,
     codecVer : 0 .. 2]

\* What writeHeader puts in the file.
Header == HeaderOf(writeOff, count, oldestTS, newestTS, codecVer)

-----------------------------------------------------------------------------
(* Reading the data region.                                                *)

Garbled == -1

\* The record length a scan finds at offset o of region f: 0 for zero bytes,
\* Garbled when the bytes there are not the prefix of one record.
RecLenAt(f, o) ==
    IF \A p \in 0 .. PrefixLen - 1 : f[o + p].len = 0
    THEN 0
    ELSE IF /\ f[o].len # 0
            /\ \A p \in 0 .. PrefixLen - 1 :
                   f[o + p].pos = p /\ f[o + p].len = f[o].len
         THEN f[o].len
         ELSE Garbled

\* The timestamps readTimestampAt may return for offset o: {0} stands for an
\* error.  The bytes at a place where no record starts decode to anything.
TimestampsAt(f, end, o) ==
    IF o + PrefixLen >= end THEN {0}
    ELSE IF RecLenAt(f, o) = 0 THEN {0}
    ELSE IF RecLenAt(f, o) # Garbled /\ f[o + PrefixLen].pos = PrefixLen
         THEN {f[o + PrefixLen].ts}
    ELSE GarbageTS \union {0}

\* The offsets of the records a scan of the segment [s, e) visits.  A scan
\* that meets garbled bytes ends there in the model.
Scan(s, e) ==
    LET from[o \in 0 .. MaxData] ==
            IF \/ e - o < PrefixLen
               \/ RecLenAt(file, o) \in {0, Garbled}
               \/ o + RecLenAt(file, o) > e
            THEN <<>>
            ELSE <<o>> \o from[o + RecLenAt(file, o)]
    IN from[s]

ScanTS(s, e) ==
    LET at == Scan(s, e)
    IN [i \in DOMAIN at |-> file[at[i] + PrefixLen].ts]

\* Seeded mistake: a record at the very end of the window is left out.
InWindowSeeded(ts, from, to) ==
    Kept(ts, {i \in DOMAIN ts : ts[i] >= from /\ \A j \in 1 .. i : ts[j] < to})

\* The part of a chronological scan that lies in [from, to]: reading stops
\* at the first record past the window.
InWindow(ts, from, to) ==
    Kept(ts, {i \in DOMAIN ts : ts[i] >= from /\ \A j \in 1 .. i : ts[j] <= to})

\* Seeded mistake: the previous pass is skipped without looking at the window.
SkipsOldPassSeeded(from) == codecVer >= 2 /\ writeOff > 0

\* ReadRange skips the records of the previous pass when the window starts
\* at or after the first record of this pass.
SkipsOldPass(from) ==
    /\ codecVer >= 2
    /\ writeOff > 0
    /\ \A t \in TimestampsAt(file, fileEnd, 0) : t # 0 /\ from >= t

ReadRange(from, to) ==
    LET old == IF wrapped /\ ~SkipsOldPass(from)
               THEN InWindow(ScanTS(writeOff, MaxData), from, to) ELSE <<>>
    IN IF count = 0 THEN <<>>
       ELSE old \o InWindow(ScanTS(0, writeOff), from, to)

LastN(s, n) == IF Len(s) <= n THEN s ELSE SubSeq(s, Len(s) - n + 1, Len(s))

\* Seeded mistakes: the segments in the order of their offsets; the previous
\* pass left out.
ReadLatestByOffset(n) ==
    IF count = 0 THEN <<>>
    ELSE LastN(ScanTS(0, writeOff)
                   \o (IF wrapped THEN ScanTS(writeOff, MaxData) ELSE <<>>), n)
ReadLatestThisPass(n) ==
    IF count = 0 THEN <<>> ELSE LastN(ScanTS(0, writeOff), n)

ReadLatest(n) ==
    IF count = 0 THEN <<>>
    ELSE LastN((IF wrapped THEN ScanTS(writeOff, MaxData) ELSE <<>>)
                   \o ScanTS(0, writeOff), n)
-----------------------------------------------------------------------------
(* Write.                                                                  *)

\* Seeded mistake: one cell too many fits.
WrapsLate(len) == writeOff + len > MaxData + 1

Wraps(len) == writeOff + len > MaxData

\* Where the next record of this length goes.
Start(len) == IF Wraps(len) THEN 0 ELSE writeOff


\* The cells zeroed by the end-of-segment sentinel, if it fits.
SentinelCells(len) ==
    IF Wraps(len) /\ writeOff + PrefixLen <= MaxData
    THEN writeOff .. writeOff + PrefixLen - 1 ELSE {}

\* The region once the sentinel and the first j cells of the record are in it.
FileAfter(ts, len, j) ==
    [o \in Offsets |->
        IF o \in Start(len) .. Start(len) + j - 1
        THEN [ts |-> ts, len |-> len, pos |-> o - Start(len)]
        ELSE IF o \in SentinelCells(len) THEN Zero
        ELSE file[o]]

Larger(a, b) == IF a >= b THEN a ELSE b

EndAfter(len, j) ==
    Larger(Larger(fileEnd, Start(len) + j),
           IF SentinelCells(len) # {} THEN writeOff + PrefixLen ELSE 0)

\* Seeded mistake: the offset advances by the payload alone.
EndOfPayload(len) == Start(len) + len - PrefixLen

EndOfRecord(len) == Start(len) + len

\* Seeded mistake: the first record of the region taken for the oldest.
OldestAtZero(off) ==
    IF wrapped' THEN TimestampsAt(file', fileEnd', 0) ELSE {0}

\* What the refresh of oldestTS may read for the record at the new offset.
OldestAt(off) ==
    IF wrapped' THEN TimestampsAt(file', fileEnd', off % MaxData) ELSE {0}

\* The record is in the region: the bookkeeping in memory.
Commit(ts, len) ==
    /\ writeOff' = EndOfRecord(len)
    /\ wrapped' = (wrapped \/ Wraps(len))
    /\ count' = count + 1
    /\ newestTS' = ts
    /\ codecVer' = 2
    /\ \E t \in OldestAt(writeOff') :
           oldestTS' = IF t # 0 THEN t
                       ELSE IF oldestTS = 0 THEN ts ELSE oldestTS
    /\ log' = Append(log, ts)

Stamp(ts) == ts \in 1 .. MaxClock /\ ts - clock \in ClockSteps

Write(ts, len) ==
    /\ Stamp(ts)
    /\ len <= MaxData
    /\ file' = FileAfter(ts, len, len)
    /\ fileEnd' = EndAfter(len, len)
    /\ Commit(ts, len)
    /\ hdr' = HeaderOf(writeOff', count', oldestTS', newestTS', codecVer')
    /\ clock' = ts
    /\ UNCHANGED faults

WriteFault ==
    /\ failures < MaxFailures
    /\ failures' = failures + 1
    /\ UNCHANGED restarts

\* Seeded mistake: the offset advances before the record is written.
WriteFailsAdvanced(ts, len, j) ==
    /\ WriteFault
    /\ Stamp(ts)
    /\ len <= MaxData
    /\ file' = FileAfter(ts, len, j)
    /\ fileEnd' = EndAfter(len, j)
    /\ writeOff' = EndOfRecord(len)
    /\ wrapped' = (wrapped \/ Wraps(len))
    /\ clock' = ts
    /\ UNCHANGED <<count, oldestTS, newestTS, codecVer, hdr, log>>

\* A WriteAt of the prefix or the payload fails after j cells reached the
\* file: the wrap has happened, the record does not count.
WriteFails(ts, len, j) ==
    /\ WriteFault
    /\ Stamp(ts)
    /\ len <= MaxData
    /\ file' = FileAfter(ts, len, j)
    /\ fileEnd' = EndAfter(len, j)
    /\ writeOff' = Start(len)
    /\ wrapped' = (wrapped \/ Wraps(len))
    /\ clock' = ts
    /\ UNCHANGED <<count, oldestTS, newestTS, codecVer, hdr, log>>

\* The record is written and counted, but writing the header fails.
HeaderFails(ts, len) ==
    /\ WriteFault
    /\ Stamp(ts)
    /\ len <= MaxData
    /\ file' = FileAfter(ts, len, len)
    /\ fileEnd' = EndAfter(len, len)
    /\ Commit(ts, len)
    /\ clock' = ts
    /\ UNCHANGED hdr

Flush ==
    /\ hdr' = Header
    /\ UNCHANGED <<memory, file, fileEnd, clock, log, faults>>
-----------------------------------------------------------------------------
(* Opening an existing file.                                               *)

\* readHeader compares the MagicField bytes of the header with the whole
\* magicString, of which writeHeader copied as many as the field holds.
HeaderAccepted == MagicField = MagicLen

Load(h) ==
    /\ writeOff' = h.writeOff
    /\ count' = h.count
    /\ oldestTS' = h.oldestTS
    /\ newestTS' = h.newestTS
    /\ codecVer' = IF h.codecVer = 0 THEN 1 ELSE h.codecVer
    /\ wrapped' = (h.writeOff > 0 /\ h.count > 0 /\ fileEnd >= MaxData)
    /\ hdr' = h
    /\ log' = SubSeq(log, 1, h.count)

\* "Corrupted header - reinitialize".
Reinitialise ==
    /\ writeOff' = 0
    /\ count' = 0
    /\ oldestTS' = 0
    /\ newestTS' = 0
    /\ codecVer' = 0
    /\ wrapped' = FALSE
    /\ hdr' = HeaderOf(0, 0, 0, 0, 0)
    /\ log' = <<>>

OpenTier(h) ==
    /\ IF HeaderAccepted THEN Load(h) ELSE Reinitialise
    /\ UNCHANGED <<file, fileEnd, clock>>

NewProcess ==
    /\ restarts < MaxRestarts
    /\ restarts' = restarts + 1
    /\ UNCHANGED failures

\* Close, which writes the header, then OpenTier in the next process.
Restart == NewProcess /\ OpenTier(Header)

\* The process dies and the next one opens the file as it is.
Crash == NewProcess /\ OpenTier(hdr)
-----------------------------------------------------------------------------
Init ==
    /\ writeOff = 0
    /\ count = 0
    /\ oldestTS = 0
    /\ newestTS = 0
    /\ wrapped = FALSE
    /\ codecVer = 2
    /\ file = [o \in Offsets |-> Zero]
    /\ fileEnd = 0
    /\ hdr = HeaderOf(0, 0, 0, 0, 2)
    /\ clock = 0
    /\ log = <<>>
    /\ failures = 0
    /\ restarts = 0

Next ==
    \/ \E ts \in 1 .. MaxClock, len \in RecLens : Write(ts, len)
    \/ \E ts \in 1 .. MaxClock, len \in RecLens :
           \E j \in 0 .. len - 1 : WriteFails(ts, len, j)
    \/ \E ts \in 1 .. MaxClock, len \in RecLens : HeaderFails(ts, len)
    \/ Flush
    \/ Restart
    \/ Crash

Spec == Init /\ [][Next]_vars
-----------------------------------------------------------------------------
(* Properties.                                                             *)

TypeOK ==
    /\ writeOff \in 0 .. MaxData
    /\ count \in Nat
    /\ oldestTS \in Nat
    /\ newestTS \in Nat
    /\ wrapped \in BOOLEAN
    /\ codecVer \in 0 .. 2
    /\ file \in [Offsets -> Cell]
    /\ fileEnd \in 0 .. MaxData
    /\ hdr \in HeaderType
    /\ clock \in Nat
    /\ log \in Seq(Nat)
    /\ failures \in Nat
    /\ restarts \in Nat

\* Cell o of the region belongs to a record that lies within [0, end), whole.
WholeAt(o, end) ==
    LET start == o - file[o].pos
    IN /\ file[o].pos < file[o].len
       /\ 0 <= start
       /\ start + file[o].len <= end
       /\ \A p \in 0 .. file[o].len - 1 :
              file[start + p] = [file[o] EXCEPT !.pos = p]

\* Whatever lengths the records have, wherever writes fail and the process
\* restarts, the part of the ring before the write offset consists of whole
\* records, from its first cell to its last, in chronological order, ending
\* in the newest one: the records of the current pass over the file (Write).
CurrentPassWhole ==
    /\ \A o \in 0 .. writeOff - 1 : WholeAt(o, writeOff)
    /\ \A o, q \in 0 .. writeOff - 1 : o <= q => file[o].ts <= file[q].ts
    /\ writeOff > 0 => file[writeOff - 1].ts = newestTS

InLog(s, from, to) == Kept(s, {i \in DOMAIN s : from <= s[i] /\ s[i] <= to})

\* A window that starts within the current pass gets exactly the records that
\* were written in it (ReadRange with the skip of the previous pass).
RecentRangeExact ==
    \A from, to \in 1 .. MaxClock :
        count > 0 /\ (SkipsOldPass(from) \/ ~wrapped)
            => ReadRange(from, to) = InLog(log, from, to)

\* ReadLatest(n) returns the n records written last, as long as they are of
\* the current pass; n = 1 is what warmLatestCache relies on at startup.
LatestExact ==
    \A n \in 1 .. Len(Scan(0, writeOff)) : ReadLatest(n) = LastN(log, n)

\* The records before the write offset behave as a log that only loses its
\* oldest entries.
PassLog == INSTANCE RingLog WITH
    kept <- ScanTS(0, writeOff), Stamps <- 1 .. MaxClock, MaxEvict <- MaxData

PassIsLog == PassLog!Spec

\* "safe because each segment always starts on a record boundary" (ReadRange):
\* what lies at the write offset of a wrapped ring is a record's first byte,
\* the sentinel or a tail too short for either.
SegmentsOnBoundary ==
    wrapped => \/ MaxData - writeOff < PrefixLen
               \/ RecLenAt(file, writeOff) # Garbled

\* With records of one length the ring keeps as many records as fit, and a
\* window query returns exactly those of them that lie in the window.
Capacity(len) == MaxData \div len

KeepsCapacity ==
    \A len \in RecLens, from, to \in 1 .. MaxClock :
        ReadRange(from, to) = InLog(LastN(log, Capacity(len)), from, to)

\* With records of one length the tier as a whole is a log from which an
\* append pushes out at most one record.
TierLog == INSTANCE RingLog WITH
    kept <- ReadLatest(count), Stamps <- 1 .. MaxClock, MaxEvict <- 1

TierIsLog == TierLog!Spec

\* QueryRangeWithMeta skips a tier whose oldestTS lies after the window: with
\* records of one length that never hides a record the tier still has, and the
\* bound is at most one record too low (it is when the write offset has reached
\* the sentinel, where readTimestampAt fails and the old value stays).
OldestIsLowerBound ==
    count > 0 =>
        LET all == ReadLatest(count)
        IN /\ oldestTS <= all[1]
           /\ Len(InLog(log, oldestTS, all[1])) <= 2

\* A process that starts after a clean Close finds the latest record again
\* (TestQueryLatestAfterRestartUsesWarmCache).
RestartKeepsLatest == [][Restart => ReadLatest(1)' = ReadLatest(1)]_vars

\* Every record that a read finds was written by this process, and they are
\* found in the order in which they were written: what older processes and
\* older passes left in the file stays behind the sentinel (Write) and the
\* write offset, as far as garbled bytes end a scan (Scan).  Only the rest of a
\* failed write at the write offset is read, as the first record, until the next
\* write.
TornFirst == wrapped /\ writeOff < MaxData /\ file[writeOff].ts > newestTS

=============================================================================
