----------------------------- MODULE TierProofs -----------------------------
(***************************************************************************)
(* Theorems about Tier for every size of the region, of the prefix and of  *)
(* the records, every clock and any number of failures and restarts.       *)
(***************************************************************************)
EXTENDS Tier, LoopProofs

(* A record fits where it is put. *)
LEMMA StartFits ==
    ASSUME writeOff \in 0 .. MaxData, NEW len \in RecLens, len <= MaxData
    PROVE  /\ Start(len) \in 0 .. MaxData
           /\ len \in Nat
           /\ PrefixLen < len
           /\ Start(len) + len \in 0 .. MaxData
           /\ Start(len) = (IF Wraps(len) THEN 0 ELSE writeOff)
  BY RegionAssumption DEF Start, Wraps

(* Writing keeps the region a function to cells and its extent in bounds. *)
LEMMA FileAfterType ==
    ASSUME TypeOK, NEW len \in RecLens, len <= MaxData,
           NEW ts \in Nat, NEW j \in 0 .. len
    PROVE  /\ FileAfter(ts, len, j) \in [Offsets -> Cell]
           /\ EndAfter(len, j) \in 0 .. MaxData
  <1>1. /\ Start(len) \in 0 .. MaxData
        /\ len \in Nat
        /\ Start(len) + len \in 0 .. MaxData
    BY StartFits DEF TypeOK
  <1>2. FileAfter(ts, len, j) \in [Offsets -> Cell]
    <2>1. ASSUME NEW o \in Offsets, o \in Start(len) .. Start(len) + j - 1
          PROVE  [ts |-> ts, len |-> len, pos |-> o - Start(len)] \in Cell
      BY <1>1, <2>1 DEF Cell
    <2>2. Zero \in Cell
      BY DEF Zero, Cell
    <2> QED
      BY <2>1, <2>2 DEF FileAfter, TypeOK
  <1>3. EndAfter(len, j) \in 0 .. MaxData
    BY <1>1, RegionAssumption DEF EndAfter, Larger, SentinelCells, TypeOK
  <1> QED
    BY <1>2, <1>3

(* What readTimestampAt may return is a timestamp or the error value 0. *)
LEMMA TimestampsType ==
    ASSUME NEW f \in [Offsets -> Cell], NEW end \in 0 .. MaxData, NEW o \in Nat
    PROVE  TimestampsAt(f, end, o) \subseteq Nat
  <1>1. CASE o + PrefixLen >= end
    BY <1>1 DEF TimestampsAt
  <1>2. CASE ~(o + PrefixLen >= end)
    <2>1. o + PrefixLen \in Offsets
      BY <1>2, RegionAssumption DEF Offsets
    <2>2. f[o + PrefixLen].ts \in Nat
      BY <2>1 DEF Cell
    <2>3. TimestampsAt(f, end, o) \in {{0}, {f[o + PrefixLen].ts},
                                       GarbageTS \union {0}}
      BY <1>2 DEF TimestampsAt
    <2>4. {0} \subseteq Nat /\ {f[o + PrefixLen].ts} \subseteq Nat
      BY <2>2
    <2>5. GarbageTS \union {0} \subseteq Nat
      BY ClockAssumption
    <2> QED
      BY <2>3, <2>4, <2>5
  <1> QED
    BY <1>1, <1>2

LEMMA ModType == ASSUME NEW a \in Nat, NEW b \in Nat \ {0} PROVE a % b \in Nat
  OBVIOUS

(* The bookkeeping of a committed record keeps every field in its type. *)
LEMMA CommitType ==
    ASSUME TypeOK, count = Len(log), NEW ts \in Nat, NEW len \in RecLens,
           len <= MaxData, file' \in [Offsets -> Cell],
           fileEnd' \in 0 .. MaxData, Commit(ts, len)
    PROVE  /\ writeOff' \in 0 .. MaxData
           /\ count' \in Nat
           /\ oldestTS' \in Nat
           /\ newestTS' \in Nat
           /\ wrapped' \in BOOLEAN
           /\ codecVer' \in 0 .. 2
           /\ log' \in Seq(Nat)
           /\ count' = Len(log')
           /\ Len(log') = Len(log) + 1
  <1>1. writeOff' \in 0 .. MaxData
    BY StartFits DEF Commit, EndOfRecord, TypeOK
  <1>2. log' \in Seq(Nat) /\ Len(log') = Len(log) + 1
    BY DEF Commit, TypeOK
  <1>3. OldestAt(writeOff') \subseteq Nat
    <2>1. writeOff' % MaxData \in Nat
      <3>1. writeOff' \in Nat /\ MaxData \in Nat \ {0}
        BY <1>1, RegionAssumption
      <3> QED
        BY <3>1, ModType
    <2> QED
      BY <2>1, TimestampsType DEF OldestAt
  <1>4. oldestTS' \in Nat
    BY <1>3 DEF Commit, TypeOK
  <1> QED
    BY <1>1, <1>2, <1>4 DEF Commit, TypeOK

(* The strengthening of TypeOK: the header never counts more records than   *)
(* the history holds, so that a restart that accepts it finds them.         *)
TypeInv ==
    /\ TypeOK
    /\ count = Len(log)
    /\ hdr.count <= Len(log)

LEMMA TypeInit == Init => TypeInv
  <1> SUFFICES ASSUME Init PROVE TypeInv
    OBVIOUS
  <1>1. file \in [Offsets -> Cell]
    BY DEF Init, Cell, Zero
  <1>2. hdr \in HeaderType
    BY RegionAssumption DEF Init, HeaderOf, HeaderType
  <1>4. wrapped \in BOOLEAN
    BY DEF Init
  <1>3. log \in Seq(Nat) /\ Len(log) = 0 /\ hdr.count = 0
    BY DEF Init, HeaderOf
  <1> QED
    BY <1>1, <1>2, <1>3, <1>4, RegionAssumption DEF Init, TypeInv, TypeOK

LEMMA TypeStep == TypeInv /\ [Next]_vars => TypeInv'
  <1> SUFFICES ASSUME TypeInv, [Next]_vars PROVE TypeInv'
    OBVIOUS
  <1> USE DEF TypeInv
  <1>1. ASSUME NEW ts \in 1 .. MaxClock, NEW len \in RecLens, Write(ts, len)
        PROVE  TypeInv'
    <2>1. ts \in Nat /\ len \in 0 .. len /\ len <= MaxData
      BY <1>1, ClockAssumption, RegionAssumption DEF Write
    <2>2. file' \in [Offsets -> Cell] /\ fileEnd' \in 0 .. MaxData
      BY <1>1, <2>1, FileAfterType DEF Write
    <2>3. Commit(ts, len)
      BY <1>1 DEF Write
    <2> QED
      BY <1>1, <2>1, <2>2, <2>3, CommitType
         DEF Write, TypeOK, HeaderOf, HeaderType, faults
  <1>2. ASSUME NEW ts \in 1 .. MaxClock, NEW len \in RecLens,
               NEW j \in 0 .. len - 1, WriteFails(ts, len, j)
        PROVE  TypeInv'
    <2>1. ts \in Nat /\ len \in Nat /\ j \in 0 .. len /\ len <= MaxData
      BY <1>2, ClockAssumption, RegionAssumption DEF WriteFails
    <2>2. file' \in [Offsets -> Cell] /\ fileEnd' \in 0 .. MaxData
      BY <1>2, <2>1, FileAfterType DEF WriteFails
    <2>3. writeOff' \in 0 .. MaxData
      BY <1>2, <2>1, StartFits DEF WriteFails, TypeOK
    <2> QED
      BY <1>2, <2>1, <2>2, <2>3 DEF WriteFails, WriteFault, TypeOK
  <1>3. ASSUME NEW ts \in 1 .. MaxClock, NEW len \in RecLens,
               HeaderFails(ts, len)
        PROVE  TypeInv'
    <2>1. ts \in Nat /\ len \in 0 .. len /\ len <= MaxData
      BY <1>3, ClockAssumption, RegionAssumption DEF HeaderFails
    <2>2. file' \in [Offsets -> Cell] /\ fileEnd' \in 0 .. MaxData
      BY <1>3, <2>1, FileAfterType DEF HeaderFails
    <2>3. Commit(ts, len)
      BY <1>3 DEF HeaderFails
    <2>4. hdr' = hdr /\ hdr'.count <= Len(log) /\ hdr'.count \in Nat
      BY <1>3 DEF HeaderFails, TypeOK, HeaderType
    <2>5. /\ writeOff' \in 0 .. MaxData
          /\ count' \in Nat
          /\ oldestTS' \in Nat
          /\ newestTS' \in Nat
          /\ wrapped' \in BOOLEAN
          /\ codecVer' \in 0 .. 2
          /\ log' \in Seq(Nat)
          /\ count' = Len(log')
          /\ Len(log') = Len(log) + 1
      BY <2>1, <2>2, <2>3, CommitType
    <2>6. /\ clock' \in Nat
          /\ failures' \in Nat
          /\ restarts' \in Nat
      BY <1>3, <2>1 DEF HeaderFails, WriteFault, TypeOK
    <2>7. hdr'.count <= Len(log')
      BY <2>4, <2>5 DEF TypeOK
    <2> QED
      BY <2>2, <2>4, <2>5, <2>6, <2>7 DEF TypeOK
  <1>4. CASE Flush
    BY <1>4 DEF Flush, Header, HeaderOf, HeaderType, TypeOK, memory, faults
  <1>5. ASSUME NEW h \in HeaderType,
               h.count <= Len(log), NewProcess, OpenTier(h)
        PROVE  TypeInv'
    <2>1. CASE HeaderAccepted
      <3>1. Load(h)
        BY <1>5, <2>1 DEF OpenTier
      <3>2. h.count \in Nat /\ h.count <= Len(log)
        BY <1>5 DEF HeaderType
      <3>3. \A i \in 1 .. h.count : log[i] \in Nat
        BY <3>2 DEF TypeOK
      <3>4. SubSeq(log, 1, h.count) \in Seq(Nat)
            /\ Len(SubSeq(log, 1, h.count)) = h.count
        BY <3>2, <3>3, SubSeqProperties
      <3>5. wrapped' \in BOOLEAN
        BY <3>1 DEF Load
      <3>6. /\ writeOff' \in 0 .. MaxData
            /\ count' = h.count
            /\ oldestTS' \in Nat
            /\ newestTS' \in Nat
            /\ codecVer' \in 0 .. 2
            /\ hdr' = h
            /\ log' = SubSeq(log, 1, h.count)
        BY <1>5, <3>1 DEF Load, HeaderType
      <3> QED
        BY <1>5, <3>2, <3>4, <3>5, <3>6 DEF OpenTier, NewProcess, TypeOK
    <2>2. CASE ~HeaderAccepted
      <3>1. Reinitialise
        BY <1>5, <2>2 DEF OpenTier
      <3>2. hdr' \in HeaderType /\ hdr'.count = 0
        BY <3>1, RegionAssumption DEF Reinitialise, HeaderOf, HeaderType
      <3>3. wrapped' \in BOOLEAN
        BY <3>1 DEF Reinitialise
      <3>4. log' \in Seq(Nat) /\ Len(log') = 0
        BY <3>1 DEF Reinitialise
      <3> QED
        BY <1>5, <3>1, <3>2, <3>3, <3>4, RegionAssumption
           DEF Reinitialise, OpenTier, NewProcess, TypeOK
    <2> QED
      BY <2>1, <2>2
  <1>6. CASE Restart
    <2>1. Header.count <= Len(log)
          /\ Header \in HeaderType
      BY DEF Header, HeaderOf, HeaderType, TypeOK
    <2> QED
      BY <1>5, <1>6, <2>1 DEF Restart
  <1>7. CASE Crash
    BY <1>5, <1>7 DEF Crash, TypeOK
  <1>8. CASE UNCHANGED vars
    BY <1>8 DEF vars, memory, faults, TypeOK
  <1> QED
    BY <1>1, <1>2, <1>3, <1>4, <1>6, <1>7, <1>8 DEF Next

(* Every variable keeps its type, whatever writes fail and whenever the     *)
(* process restarts; in particular the write offset stays in the region.    *)
THEOREM TypeCorrect == Spec => []TypeOK
  <1>1. TypeInv => TypeOK
    BY DEF TypeInv
  <1> QED
    BY <1>1, TypeInit, TypeStep, PTL DEF Spec
-----------------------------------------------------------------------------
(* The records of the current pass.                                        *)

(* What a write leaves in the region: everything before the place of the   *)
(* record as it was, and the part of the record that was written.          *)
LEMMA FileAfterCells ==
    ASSUME TypeOK, NEW len \in RecLens, len <= MaxData,
           NEW ts \in Nat, NEW j \in 0 .. len
    PROVE  /\ \A o \in 0 .. Start(len) - 1 : FileAfter(ts, len, j)[o] = file[o]
           /\ \A o \in Start(len) .. Start(len) + j - 1 :
                  FileAfter(ts, len, j)[o]
                      = [ts |-> ts, len |-> len, pos |-> o - Start(len)]
  <1>1. /\ Start(len) \in 0 .. MaxData
        /\ len \in Nat
        /\ Start(len) + len \in 0 .. MaxData
        /\ Start(len) = (IF Wraps(len) THEN 0 ELSE writeOff)
    BY StartFits DEF TypeOK
  <1> DEFINE st == Start(len)
  <1> HIDE DEF st
  <1>11. st \in Nat /\ j \in Nat /\ MaxData \in Nat /\ st + j <= MaxData
    BY <1>1, RegionAssumption DEF st
  <1>2. ASSUME NEW o \in 0 .. Start(len) - 1
        PROVE  FileAfter(ts, len, j)[o] = file[o]
    <2>1. ~Wraps(len)
      BY <1>1
    <2>2. o \in Offsets /\ o \notin Start(len) .. Start(len) + j - 1
      <3>1. o \in 0 .. st - 1
        BY DEF st
      <3>2. o \in Offsets /\ o \notin st .. st + j - 1
        BY <1>11, <3>1 DEF Offsets
      <3> QED
        BY <3>2 DEF st
    <2> QED
      BY <2>1, <2>2 DEF FileAfter, SentinelCells
  <1>3. ASSUME NEW o \in Start(len) .. Start(len) + j - 1
        PROVE  FileAfter(ts, len, j)[o]
                   = [ts |-> ts, len |-> len, pos |-> o - Start(len)]
    <2>1. o \in Offsets
      <3>1. o \in st .. st + j - 1
        BY DEF st
      <3> QED
        BY <1>11, <3>1 DEF Offsets
    <2> QED
      BY <2>1 DEF FileAfter
  <1> QED
    BY <1>2, <1>3

(* The invariant: the pass is whole, and no record is newer than the last   *)
(* sample the tier was given.                                               *)
PassInv == CurrentPassWhole /\ newestTS <= clock

(* A committed record extends the pass, or starts a new one. *)
LEMMA CommitExtendsPass ==
    ASSUME TypeOK, PassInv, NEW ts \in Nat, NEW len \in RecLens, len <= MaxData,
           ts > clock, file' = FileAfter(ts, len, len), Commit(ts, len)
    PROVE  CurrentPassWhole'
  <1> DEFINE st == Start(len)
             new(o) == [ts |-> ts, len |-> len, pos |-> o - st]
  <1>1. /\ st \in 0 .. MaxData
        /\ len \in Nat /\ len > 0
        /\ st + len \in 0 .. MaxData
        /\ st = 0 \/ st = writeOff
    BY StartFits, RegionAssumption DEF TypeOK
  <1>2. /\ \A o \in 0 .. st - 1 : file'[o] = file[o]
        /\ \A o \in st .. st + len - 1 : file'[o] = new(o)
    BY <1>1, FileAfterCells
  <1>10. \A o \in st .. st + len - 1 : file'[o].ts = ts
    <2> SUFFICES ASSUME NEW o \in st .. st + len - 1 PROVE file'[o].ts = ts
      OBVIOUS
    <2>1. file'[o] = new(o)
      BY <1>2
    <2> QED
      BY <2>1
  <1>3. writeOff' = st + len /\ newestTS' = ts
    BY DEF Commit, EndOfRecord
  <1>4. writeOff \in Nat /\ clock \in Nat /\ newestTS \in Nat
    BY RegionAssumption DEF TypeOK
  <1>5. \A o \in 0 .. st - 1 : file[o] \in Cell
    BY <1>1, RegionAssumption DEF TypeOK, Offsets
  <1>6. \A o \in 0 .. st - 1 : file[o].ts <= newestTS
    <2> SUFFICES ASSUME NEW o \in 0 .. st - 1 PROVE file[o].ts <= newestTS
      OBVIOUS
    <2>1. o \in 0 .. writeOff - 1 /\ writeOff - 1 \in 0 .. writeOff - 1
          /\ o <= writeOff - 1
      BY <1>1, <1>4
    <2> QED
      BY <2>1, <1>4 DEF PassInv, CurrentPassWhole
  <1>7. ASSUME NEW o \in 0 .. writeOff' - 1 PROVE WholeAt(o, writeOff)'
    <2>1. CASE o \in 0 .. st - 1
      <3>1. WholeAt(o, writeOff) /\ st = writeOff
        BY <1>1, <2>1 DEF PassInv, CurrentPassWhole
      <3>2. file'[o] = file[o] /\ file[o] \in Cell
        BY <1>2, <1>5, <2>1
      <3>3. \A p \in 0 .. file[o].len - 1 :
                file'[o - file[o].pos + p] = file[o - file[o].pos + p]
        BY <1>2, <1>4, <2>1, <3>1, <3>2 DEF WholeAt, Cell
      <3> QED
        BY <1>1, <1>3, <1>4, <2>1, <3>1, <3>2, <3>3 DEF WholeAt, Cell
    <2>2. CASE o \in st .. st + len - 1
      <3>1. file'[o] = new(o)
        BY <1>2, <2>2
      <3>2. \A p \in 0 .. len - 1 : file'[st + p] = new(st + p)
        BY <1>1, <1>2
      <3>3. o - file'[o].pos = st /\ file'[o].len = len /\ file'[o].pos < len
            /\ file'[o].pos >= 0
        BY <1>1, <2>2, <3>1
      <3>4. \A p \in 0 .. len - 1 : new(st + p) = [new(o) EXCEPT !.pos = p]
        BY <1>1
      <3> QED
        BY <1>1, <1>3, <3>1, <3>2, <3>3, <3>4 DEF WholeAt
    <2> QED
      BY <1>1, <1>3, <2>1, <2>2
  <1>8. ASSUME NEW o \in 0 .. writeOff' - 1, NEW q \in 0 .. writeOff' - 1, o <= q
        PROVE  file'[o].ts <= file'[q].ts
    <2>1. CASE q \in 0 .. st - 1
      <3>1. o \in 0 .. st - 1 /\ st = writeOff
        BY <1>1, <1>8, <2>1
      <3> QED
        BY <1>2, <1>8, <2>1, <3>1 DEF PassInv, CurrentPassWhole
    <2>2. CASE q \in st .. st + len - 1
      <3>1. file'[q].ts = ts
        BY <1>10, <2>2
      <3>2. CASE o \in 0 .. st - 1
        BY <1>2, <1>4, <1>5, <1>6, <3>1, <3>2 DEF PassInv, Cell
      <3>3. CASE o \in st .. st + len - 1
        BY <1>10, <3>1, <3>3
      <3> QED
        BY <1>1, <1>3, <3>2, <3>3
    <2> QED
      BY <1>1, <1>3, <2>1, <2>2
  <1>9. file'[writeOff' - 1].ts = newestTS'
    <2>1. writeOff' - 1 \in st .. st + len - 1
      BY <1>1, <1>3
    <2> QED
      BY <1>3, <1>10, <2>1
  <1> QED
    BY <1>7, <1>8, <1>9 DEF CurrentPassWhole

(* A failed write leaves the pass as it was, or empty when it had wrapped. *)
LEMMA FailureKeepsPass ==
    ASSUME TypeOK, PassInv, NEW ts \in Nat, NEW len \in RecLens, len <= MaxData,
           NEW j \in 0 .. len, file' = FileAfter(ts, len, j),
           writeOff' = Start(len), newestTS' = newestTS
    PROVE  CurrentPassWhole'
  <1>1. /\ Start(len) \in 0 .. MaxData
        /\ Start(len) = 0 \/ Start(len) = writeOff
    BY StartFits, RegionAssumption DEF TypeOK
  <1>2. CASE writeOff' = 0
    BY <1>2 DEF CurrentPassWhole
  <1>3. CASE writeOff' = writeOff
    <2>1. \A o \in 0 .. writeOff - 1 : file'[o] = file[o] /\ file[o] \in Cell
      <3>1. \A o \in 0 .. writeOff - 1 : o \in Offsets
        BY RegionAssumption DEF TypeOK, Offsets
      <3>2. \A o \in 0 .. Start(len) - 1 : file'[o] = file[o]
        BY FileAfterCells
      <3> QED
        BY <1>3, <3>1, <3>2 DEF TypeOK
    <2>2. ASSUME NEW o \in 0 .. writeOff - 1 PROVE WholeAt(o, writeOff)'
      <3>1. WholeAt(o, writeOff)
        BY DEF PassInv, CurrentPassWhole
      <3>2. \A p \in 0 .. file[o].len - 1 :
                file'[o - file[o].pos + p] = file[o - file[o].pos + p]
        <4>1. /\ writeOff \in Nat
              /\ file[o] \in Cell
              /\ 0 <= o - file[o].pos
              /\ o - file[o].pos + file[o].len <= writeOff
          BY <2>1, <3>1, RegionAssumption DEF WholeAt, TypeOK
        <4>2. \A p \in 0 .. file[o].len - 1 :
                  o - file[o].pos + p \in 0 .. writeOff - 1
          BY <4>1 DEF Cell
        <4> QED
          BY <2>1, <4>2
      <3> QED
        BY <1>3, <2>1, <3>1, <3>2 DEF WholeAt, Cell
    <2>3. writeOff > 0 => writeOff - 1 \in 0 .. writeOff - 1
      BY RegionAssumption DEF TypeOK
    <2> QED
      BY <1>3, <2>1, <2>2, <2>3 DEF PassInv, CurrentPassWhole
  <1> QED
    BY <1>1, <1>2, <1>3

(* The next process has no pass, or the one that the header describes.      *)
LEMMA PassStep ==
    ASSUME MagicLen # MagicField \/ hdr = Header, \A d \in ClockSteps : d > 0,
           TypeInv, PassInv, [Next]_vars
    PROVE  PassInv'
  <1> USE DEF TypeInv
  <1>1. ASSUME NEW ts \in 1 .. MaxClock, Stamp(ts)
        PROVE  ts \in Nat /\ ts > clock
    BY <1>1, ClockAssumption DEF Stamp, TypeOK
  <1>2. ASSUME NEW ts \in 1 .. MaxClock, NEW len \in RecLens,
               Write(ts, len) \/ HeaderFails(ts, len)
        PROVE  PassInv'
    <2>1. /\ Stamp(ts) /\ len <= MaxData /\ Commit(ts, len)
          /\ file' = FileAfter(ts, len, len) /\ clock' = ts
      BY <1>2 DEF Write, HeaderFails
    <2>2. newestTS' = ts
      BY <2>1 DEF Commit
    <2> QED
      BY <1>1, <2>1, <2>2, CommitExtendsPass DEF PassInv
  <1>3. ASSUME NEW ts \in 1 .. MaxClock, NEW len \in RecLens,
               NEW j \in 0 .. len - 1, WriteFails(ts, len, j)
        PROVE  PassInv'
    <2>1. /\ Stamp(ts) /\ len <= MaxData /\ file' = FileAfter(ts, len, j)
          /\ writeOff' = Start(len) /\ newestTS' = newestTS /\ clock' = ts
      BY <1>3 DEF WriteFails
    <2>2. j \in 0 .. len
      BY RegionAssumption
    <2>3. newestTS' <= clock'
      BY <1>1, <2>1 DEF PassInv, TypeOK
    <2> QED
      BY <1>1, <2>1, <2>2, <2>3, FailureKeepsPass DEF PassInv
  <1>4. CASE Flush
    BY <1>4 DEF Flush, PassInv, CurrentPassWhole, WholeAt, memory
  <1>5. ASSUME NEW h, OpenTier(h), MagicLen # MagicField PROVE PassInv'
    <2>1. writeOff' = 0 /\ newestTS' = 0 /\ clock' = clock
      BY <1>5 DEF OpenTier, HeaderAccepted, Reinitialise
    <2> QED
      BY <2>1 DEF PassInv, CurrentPassWhole, TypeOK
  <1>a. ASSUME OpenTier(Header), MagicLen = MagicField PROVE PassInv'
    <2>1. writeOff' = writeOff /\ newestTS' = newestTS /\ file' = file /\ clock' = clock
      BY <1>a DEF OpenTier, HeaderAccepted, Load, Header, HeaderOf
    <2> QED
      BY <2>1 DEF PassInv, CurrentPassWhole, WholeAt
  <1>6. CASE Restart \/ Crash
    <2>1. CASE MagicLen # MagicField
      BY <1>5, <1>6, <2>1 DEF Restart, Crash
    <2>2. CASE MagicLen = MagicField
      BY <1>a, <1>6, <2>2 DEF Restart, Crash
    <2> QED
      BY <2>1, <2>2
  <1>7. CASE UNCHANGED vars
    BY <1>7 DEF vars, memory, PassInv, CurrentPassWhole, WholeAt
  <1> QED
    BY <1>2, <1>3, <1>4, <1>6, <1>7 DEF Next

(* Whatever the sizes, failures and restarts: the part of the ring before   *)
(* the write offset is whole records in chronological order, the newest     *)
(* last - with the magic as the code has it, where a restart empties the    *)
(* tier, and a clock that does not step back.                               *)
THEOREM CurrentPassCorrect ==
    ASSUME MagicLen # MagicField, \A d \in ClockSteps : d > 0
    PROVE  Spec => []CurrentPassWhole
  <1>1. Init => PassInv
    BY DEF Init, PassInv, CurrentPassWhole
  <1>2. TypeInv /\ PassInv /\ [Next]_vars => PassInv'
    BY PassStep
  <1>3. PassInv => CurrentPassWhole
    BY DEF PassInv
  <1> QED
    BY <1>1, <1>2, <1>3, TypeInit, TypeStep, PTL DEF Spec
-----------------------------------------------------------------------------
(* Records of one length.                                                  *)

Slots(len) == {k * len : k \in Nat}

(* Where the slots of the region end. *)
SlotsEnd(len) == (MaxData \div len) * len

(* Slots are a record apart. *)
LEMMA SlotsApart ==
    ASSUME NEW len \in Nat \ {0}, NEW x \in Slots(len), NEW y \in Slots(len),
           x < y + len
    PROVE  x <= y
  <1>1. PICK k \in Nat : x = k * len
    BY DEF Slots
  <1>2. PICK m \in Nat : y = m * len
    BY DEF Slots
  <1>3. CASE k <= m
    <2>1. k * len <= m * len
      BY <1>3
    <2> QED
      BY <1>1, <1>2, <2>1
  <1>4. CASE m + 1 <= k
    <2>1. (m + 1) * len <= k * len
      BY <1>4
    <2>2. (m + 1) * len = m * len + len
      OBVIOUS
    <2> QED
      BY <1>1, <1>2, <2>1, <2>2
  <1> QED
    BY <1>3, <1>4

LEMMA SlotsFacts ==
    ASSUME NEW len \in Nat \ {0}
    PROVE  /\ 0 \in Slots(len)
           /\ \A x \in Slots(len) : x \in Nat /\ x + len \in Slots(len)
           /\ SlotsEnd(len) \in Slots(len)
           /\ SlotsEnd(len) <= MaxData
           /\ MaxData < SlotsEnd(len) + len
  <1>1. 0 \in Slots(len)
    <2>1. 0 = 0 * len
      OBVIOUS
    <2> QED
      BY <2>1 DEF Slots
  <1>2. ASSUME NEW x \in Slots(len)
        PROVE  x \in Nat /\ x + len \in Slots(len)
    <2>1. PICK k \in Nat : x = k * len
      BY DEF Slots
    <2>2. x + len = (k + 1) * len
      BY <2>1
    <2>3. k * len \in Nat
      OBVIOUS
    <2> QED
      BY <2>1, <2>2, <2>3 DEF Slots
  <1>3. MaxData \in Nat
    BY RegionAssumption
  <1>4. /\ MaxData \div len \in Nat
        /\ (MaxData \div len) * len <= MaxData
        /\ MaxData < (MaxData \div len) * len + len
    BY <1>3
  <1> QED
    BY <1>1, <1>2, <1>4 DEF Slots, SlotsEnd

(* Every record of the region sits in a slot, and the slots a pass has gone *)
(* over are full.                                                           *)
SlotInv(len) ==
    /\ writeOff \in Slots(len)
    /\ \A o \in Offsets :
           file[o].len # 0 =>
               /\ file[o].len = len
               /\ file[o].pos < len
               /\ o - file[o].pos \in Slots(len)
               /\ o < SlotsEnd(len)
    /\ \A o \in Offsets :
           o < writeOff \/ (wrapped /\ o < SlotsEnd(len)) => file[o].len # 0

(* Writing in a slot, completely or not, keeps the records in slots. *)
LEMMA WriteKeepsSlots ==
    ASSUME NEW len, RecLens = {len}, TypeOK, SlotInv(len), len <= MaxData,
           NEW ts \in Nat, NEW j \in 0 .. len, file' = FileAfter(ts, len, j),
           wrapped' = (wrapped \/ Wraps(len)),
           \/ writeOff' = Start(len)
           \/ writeOff' = Start(len) + len /\ j = len
    PROVE  SlotInv(len)'
  <1> DEFINE st  == Start(len)
             end == SlotsEnd(len)
  <1>1. /\ len \in Nat \ {0}
        /\ st \in 0 .. MaxData
        /\ st + len \in 0 .. MaxData
        /\ st = (IF Wraps(len) THEN 0 ELSE writeOff)
        /\ writeOff \in Nat /\ MaxData \in Nat
    BY StartFits, RegionAssumption DEF TypeOK
  <1>2. /\ st \in Slots(len)
        /\ st + len \in Slots(len)
        /\ end \in Slots(len)
        /\ end \in Nat
        /\ end <= MaxData
        /\ MaxData < end + len
        /\ writeOff \in Slots(len)
    BY <1>1, SlotsFacts DEF SlotInv
  <1>3. st + len <= end
    <2>1. st + len < end + len
      BY <1>1, <1>2
    <2> QED
      BY <1>1, <1>2, <2>1, SlotsApart
  <1>4. Wraps(len) => writeOff = end
    <2> SUFFICES ASSUME Wraps(len) PROVE writeOff = end
      OBVIOUS
    <2>1. writeOff < end + len /\ end < writeOff + len
      BY <1>1, <1>2 DEF Wraps, TypeOK
    <2>2. writeOff <= end /\ end <= writeOff
      BY <1>1, <1>2, <2>1, SlotsApart
    <2> QED
      BY <1>1, <1>2, <2>2
  <1>5. writeOff' \in Slots(len)
    BY <1>2
  <1>6. ASSUME NEW o \in Offsets, o \in st .. st + j - 1
        PROVE  file'[o].len = len /\ file'[o].pos = o - st
    <2>1. file'[o] = [ts |-> ts, len |-> len, pos |-> o - st]
      BY <1>6 DEF FileAfter
    <2> QED
      BY <2>1
  <1>7. ASSUME NEW o \in Offsets, o \notin st .. st + j - 1
        PROVE  file'[o] = file[o] \/ (file'[o].len = 0 /\ o >= end)
    <2>1. o \in SentinelCells(len) => o >= end
      BY <1>1, <1>2, <1>4, RegionAssumption DEF SentinelCells
    <2>2. file'[o] = (IF o \in SentinelCells(len) THEN Zero ELSE file[o])
      BY <1>7 DEF FileAfter
    <2>3. Zero.len = 0
      BY DEF Zero
    <2> QED
      BY <2>1, <2>2, <2>3
  <1>8. ASSUME NEW o \in Offsets, file'[o].len # 0
        PROVE  /\ file'[o].len = len
               /\ file'[o].pos < len
               /\ o - file'[o].pos \in Slots(len)
               /\ o < end
    <2>1. CASE o \in st .. st + j - 1
      <3>1. file'[o].len = len /\ file'[o].pos = o - st
        BY <1>6, <2>1
      <3>2. o - st < len /\ o - (o - st) = st /\ o < end
        BY <1>1, <1>2, <1>3, <2>1
      <3> QED
        BY <1>2, <3>1, <3>2
    <2>2. CASE o \notin st .. st + j - 1
      <3>1. file'[o] = file[o]
        BY <1>7, <1>8, <2>2
      <3> QED
        BY <1>8, <3>1 DEF SlotInv
    <2> QED
      BY <2>1, <2>2
  <1>9. ASSUME NEW o \in Offsets,
               o < writeOff' \/ (wrapped' /\ o < end)
        PROVE  file'[o].len # 0
    <2>1. o \in Nat
      BY <1>1 DEF Offsets
    <2>2. o < end
      BY <1>1, <1>2, <1>3, <1>9, <2>1
    <2>3. CASE o \in st .. st + j - 1
      <3>1. file'[o].len = len
        BY <1>6, <2>3
      <3> QED
        BY <1>1, <3>1
    <2>4. CASE o \notin st .. st + j - 1
      <3>1. file'[o] = file[o]
        BY <1>2, <1>7, <2>1, <2>2, <2>4
      <3>2. o < writeOff \/ (wrapped /\ o < end)
        <4>1. CASE Wraps(len)
          BY <1>4, <2>2, <4>1
        <4>2. CASE ~Wraps(len)
          <5>1. st = writeOff /\ wrapped' = wrapped
            BY <1>1, <4>2 DEF TypeOK
          <5>2. writeOff' = st \/ (writeOff' = st + len /\ j = len)
            OBVIOUS
          <5> QED
            BY <1>1, <1>9, <2>1, <2>2, <2>4, <5>1, <5>2
        <4> QED
          BY <4>1, <4>2
      <3> QED
        BY <3>1, <3>2 DEF SlotInv
    <2> QED
      BY <2>3, <2>4
  <1> QED
    BY <1>5, <1>8, <1>9 DEF SlotInv

LEMMA SlotStep ==
    ASSUME NEW len, RecLens = {len}, MagicLen # MagicField,
           TypeInv, SlotInv(len), [Next]_vars
    PROVE  SlotInv(len)'
  <1> USE DEF TypeInv
  <1>1. len \in Nat \ {0}
    BY RegionAssumption
  <1>2. ASSUME NEW ts \in 1 .. MaxClock, Write(ts, len) \/ HeaderFails(ts, len)
        PROVE  SlotInv(len)'
    <2>1. /\ len <= MaxData /\ file' = FileAfter(ts, len, len)
          /\ wrapped' = (wrapped \/ Wraps(len))
          /\ writeOff' = Start(len) + len
      BY <1>2 DEF Write, HeaderFails, Commit, EndOfRecord
    <2>2. ts \in Nat /\ len \in 0 .. len
      BY <1>1, ClockAssumption
    <2> QED
      BY <2>1, <2>2, WriteKeepsSlots
  <1>3. ASSUME NEW ts \in 1 .. MaxClock, NEW j \in 0 .. len - 1,
               WriteFails(ts, len, j)
        PROVE  SlotInv(len)'
    <2>1. /\ len <= MaxData /\ file' = FileAfter(ts, len, j)
          /\ wrapped' = (wrapped \/ Wraps(len))
          /\ writeOff' = Start(len)
      BY <1>3 DEF WriteFails
    <2>2. ts \in Nat /\ j \in 0 .. len
      BY <1>1, ClockAssumption
    <2> QED
      BY <2>1, <2>2, WriteKeepsSlots
  <1>4. CASE Flush
    BY <1>4 DEF Flush, SlotInv, memory
  <1>5. ASSUME NEW h, OpenTier(h) PROVE SlotInv(len)'
    <2>1. writeOff' = 0 /\ wrapped' = FALSE /\ file' = file
      BY <1>5 DEF OpenTier, HeaderAccepted, Reinitialise
    <2>2. \A o \in Offsets : ~(o < 0)
      BY RegionAssumption DEF Offsets
    <2> QED
      BY <1>1, <2>1, <2>2, SlotsFacts DEF SlotInv
  <1>6. CASE Restart \/ Crash
    BY <1>5, <1>6 DEF Restart, Crash
  <1>7. CASE UNCHANGED vars
    BY <1>7 DEF vars, memory, SlotInv
  <1> QED
    BY <1>2, <1>3, <1>4, <1>6, <1>7 DEF Next

LEMMA SlotBoundary ==
    ASSUME NEW len, RecLens = {len}, TypeOK, SlotInv(len)
    PROVE  SegmentsOnBoundary
  <1> SUFFICES ASSUME wrapped, ~(MaxData - writeOff < PrefixLen)
               PROVE  RecLenAt(file, writeOff) # Garbled
    BY DEF SegmentsOnBoundary
  <1> DEFINE end == SlotsEnd(len)
  <1>1. /\ len \in Nat \ {0}
        /\ PrefixLen \in Nat \ {0}
        /\ PrefixLen < len
        /\ writeOff \in Nat /\ MaxData \in Nat
        /\ writeOff + PrefixLen <= MaxData
    BY RegionAssumption DEF TypeOK
  <1>2. /\ writeOff \in Slots(len)
        /\ end \in Slots(len)
        /\ end \in Nat
    BY <1>1, SlotsFacts DEF SlotInv
  <1>3. \A p \in 0 .. PrefixLen - 1 : writeOff + p \in Offsets
    BY <1>1 DEF Offsets
  <1>4. CASE writeOff < end
    <2>1. writeOff + len <= end
      <3>1. writeOff + len \in Slots(len) /\ writeOff + len < end + len
        BY <1>1, <1>2, <1>4, SlotsFacts
      <3> QED
        BY <1>1, <1>2, <3>1, SlotsApart
    <2>2. ASSUME NEW p \in 0 .. PrefixLen - 1
          PROVE  file[writeOff + p].len = len /\ file[writeOff + p].pos = p
      <3> DEFINE o == writeOff + p
      <3>1. o \in Offsets /\ o < end /\ p \in Nat /\ p < len
        BY <1>1, <1>2, <1>3, <2>1
      <3>2. file[o].len # 0
        BY <3>1 DEF SlotInv
      <3>3. /\ file[o].len = len
            /\ file[o].pos < len
            /\ o - file[o].pos \in Slots(len)
            /\ file[o].pos \in Nat
        BY <3>1, <3>2 DEF SlotInv, TypeOK, Cell
      <3>4. /\ o - file[o].pos < writeOff + len
            /\ writeOff < (o - file[o].pos) + len
        BY <1>1, <3>1, <3>3
      <3>5. o - file[o].pos <= writeOff /\ writeOff <= o - file[o].pos
        BY <1>1, <1>2, <3>3, <3>4, SlotsApart
      <3> QED
        BY <1>1, <3>1, <3>3, <3>5
    <2>3. 0 \in 0 .. PrefixLen - 1 /\ writeOff + 0 = writeOff
      BY <1>1
    <2>4. file[writeOff].len = len
      BY <2>2, <2>3
    <2>5. RecLenAt(file, writeOff) = len
      BY <1>1, <2>2, <2>3, <2>4 DEF RecLenAt
    <2> QED
      BY <1>1, <2>5 DEF Garbled
  <1>5. CASE end <= writeOff
    <2>1. \A p \in 0 .. PrefixLen - 1 : file[writeOff + p].len = 0
      BY <1>1, <1>2, <1>3, <1>5 DEF SlotInv
    <2>2. RecLenAt(file, writeOff) = 0
      BY <2>1 DEF RecLenAt
    <2> QED
      BY <2>2 DEF Garbled
  <1> QED
    BY <1>1, <1>2, <1>4, <1>5

(* When every record has the same length, both segments that a reader scans *)
(* start on a record boundary, in spite of failed writes and restarts: the  *)
(* assumption behind ReadRange's and Write's comments, and what it needs.   *)
THEOREM UniformBoundaries ==
    ASSUME NEW len, RecLens = {len}, MagicLen # MagicField
    PROVE  Spec => []SegmentsOnBoundary
  <1>1. len \in Nat \ {0}
    BY RegionAssumption
  <1>2. Init => SlotInv(len)
    <2> SUFFICES ASSUME Init PROVE SlotInv(len)
      OBVIOUS
    <2>1. \A o \in Offsets : file[o].len = 0 /\ ~(o < writeOff)
      BY RegionAssumption DEF Init, Zero, Offsets
    <2> QED
      BY <1>1, <2>1, SlotsFacts DEF Init, SlotInv
  <1>3. TypeInv /\ SlotInv(len) /\ [Next]_vars => SlotInv(len)'
    BY SlotStep
  <1>4. TypeInv /\ SlotInv(len) => SegmentsOnBoundary
    BY SlotBoundary DEF TypeInv
  <1> QED
    BY <1>2, <1>3, <1>4, TypeInit, TypeStep, PTL DEF Spec
-----------------------------------------------------------------------------
(* What a scan finds.                                                      *)

(* Where a scan of a segment that ends at e does not get on.               *)
Stops(f, o, e) ==
    \/ e - o < PrefixLen
    \/ RecLenAt(f, o) \in {0, Garbled}
    \/ o + RecLenAt(f, o) > e

(* g[o] is what a scan of region f from o to e visits.                     *)
Walk(g, f, e) ==
    /\ g \in [0 .. MaxData -> Seq(0 .. MaxData)]
    /\ \A o \in 0 .. MaxData :
           g[o] = IF Stops(f, o, e) THEN <<>> ELSE <<o>> \o g[o + RecLenAt(f, o)]

Scanner(g, e) == Walk(g, file, e) /\ \A s \in 0 .. MaxData : Scan(s, e) = g[s]

(* A scan that gets on is in the segment, and moves towards its end.       *)
LEMMA ScanMoves ==
    ASSUME TypeOK, NEW e \in 0 .. MaxData, NEW o \in 0 .. MaxData, ~Stops(file, o, e)
    PROVE  /\ RecLenAt(file, o) \in Nat \ {0} /\ RecLenAt(file, o) = file[o].len
           /\ o + RecLenAt(file, o) \in o + 1 .. e
           /\ o \in Offsets
  <1>1. /\ PrefixLen \in Nat \ {0} /\ MaxData \in Nat /\ e \in Nat /\ o \in Nat
        /\ e - o >= PrefixLen
    BY RegionAssumption DEF Stops
  <1>2. o \in Offsets
    BY <1>1 DEF Offsets
  <1>3. file[o].len \in Nat
    BY <1>2 DEF TypeOK, Cell
  <1>4. RecLenAt(file, o) = file[o].len /\ file[o].len # 0
    BY DEF Stops, RecLenAt
  <1> QED
    BY <1>1, <1>2, <1>3, <1>4 DEF Stops

LEMMA ScannerIs ==
    ASSUME TypeOK, NEW e \in 0 .. MaxData
    PROVE  \E g : Scanner(g, e)
  <1> DEFINE n == MaxData
             S == Seq(0 .. n)
             Step(f) == [o \in 0 .. n |->
                            IF Stops(file, o, e) THEN <<>>
                            ELSE <<o>> \o f[o + RecLenAt(file, o)]]
             Right(m) == {f \in [0 .. n -> S] :
                            \A o \in 0 .. n : o >= n - m => f[o] = Step(f)[o]}
             Reached == {m \in 0 .. n : Right(m) # {}}
  <1>n. n \in Nat
    BY RegionAssumption
  <1>s. \A o \in 0 .. n : \A q \in S : <<o>> \o q \in S
    <2> SUFFICES ASSUME NEW o \in 0 .. n, NEW q \in S PROVE <<o>> \o q \in S
      OBVIOUS
    <2>1. <<o>> \in S
      OBVIOUS
    <2> QED
      BY <2>1, ConcatProperties
  <1>m. \A o \in 0 .. n : ~Stops(file, o, e) => o + RecLenAt(file, o) \in o + 1 .. n
    <2> SUFFICES ASSUME NEW o \in 0 .. n, ~Stops(file, o, e)
                 PROVE  o + RecLenAt(file, o) \in o + 1 .. n
      OBVIOUS
    <2>1. o + RecLenAt(file, o) \in o + 1 .. e
      BY ScanMoves
    <2> QED
      BY <2>1, <1>n
  <1>e. Stops(file, n, e)
    BY RegionAssumption DEF Stops
  <1> HIDE DEF n, S
  <1>0. <<>> \in S
    BY DEF S
  <1>1. 0 \in Reached
    <2> DEFINE g == [o \in 0 .. n |-> <<>>]
    <2>1. g \in [0 .. n -> S]
      BY <1>0
    <2>2. ASSUME NEW o \in 0 .. n, o >= n - 0 PROVE g[o] = Step(g)[o]
      <3>1. o = n
        BY <1>n, <2>2
      <3> QED
        BY <1>e, <1>n, <3>1
    <2>3. g \in Right(0)
      BY <2>1, <2>2
    <2>4. 0 \in 0 .. n
      BY <1>n
    <2> QED
      BY <2>3, <2>4
  <1>2. ASSUME NEW m \in 1 .. n, m - 1 \in Reached
        PROVE  m \in Reached
    <2>1. PICK f \in Right(m - 1) : TRUE
      BY <1>2
    <2> DEFINE at == n - m
               val == IF Stops(file, at, e) THEN <<>> ELSE <<at>> \o f[at + RecLenAt(file, at)]
               g == [f EXCEPT ![at] = val]
    <2>2. at \in 0 .. n /\ m \in 0 .. n
      BY <1>n
    <2>3. val \in S
      BY <1>0, <1>s, <1>m, <1>n, <2>2
    <2>4. /\ g \in [0 .. n -> S] /\ g[at] = val
          /\ \A o \in 0 .. n : o # at => g[o] = f[o]
      <3> HIDE DEF val, at
      <3> QED
        BY <2>2, <2>3
    <2>5. \A o \in 0 .. n : o >= n - (m - 1) => f[o] = Step(f)[o]
      OBVIOUS
    <2> HIDE DEF g
    <2>6. ASSUME NEW o \in 0 .. n, o >= n - m PROVE g[o] = Step(g)[o]
      <3>1. CASE Stops(file, o, e)
        <4>1. Step(g)[o] = <<>> /\ Step(f)[o] = <<>>
          BY <3>1
        <4>2. CASE o = at
          BY <2>4, <3>1, <4>1, <4>2
        <4>3. CASE o # at
          <5>1. o >= n - (m - 1)
            BY <1>n, <2>6, <4>3
          <5> HIDE DEF Step
          <5> QED
            BY <2>4, <2>5, <4>1, <4>3, <5>1
        <4> QED
          BY <4>2, <4>3
      <3>2. CASE ~Stops(file, o, e)
        <4> DEFINE q == o + RecLenAt(file, o)
        <4>1. q \in o + 1 .. n
          BY <1>m, <3>2
        <4> HIDE DEF q
        <4>2. q \in 0 .. n /\ q # at /\ at \in Nat /\ o \in Nat
          BY <1>n, <2>2, <2>6, <4>1
        <4>3. g[q] = f[q]
          BY <2>4, <4>2
        <4>4. Step(g)[o] = <<o>> \o g[q] /\ Step(f)[o] = <<o>> \o f[q]
          BY <3>2 DEF q
        <4>5. CASE o = at
          BY <2>4, <3>2, <4>3, <4>4, <4>5 DEF q
        <4>6. CASE o # at
          <5>1. o >= n - (m - 1)
            BY <1>n, <2>6, <4>6
          <5> HIDE DEF Step
          <5> QED
            BY <2>4, <2>5, <4>3, <4>4, <4>6, <5>1
        <4> QED
          BY <4>5, <4>6
      <3> QED
        BY <3>1, <3>2
    <2>7. g \in Right(m)
      BY <2>4, <2>6
    <2> QED
      BY <2>2, <2>7
  <1>3. n \in Reached
    <2> HIDE DEF Reached
    <2>1. \A k \in 0 .. n : k \in Reached
      BY <1>n, <1>1, <1>2, UpTo
    <2> QED
      BY <1>n, <2>1
  <1>4. PICK f \in [0 .. n -> S] : f = Step(f)
    <2>1. PICK f \in Right(n) : TRUE
      BY <1>3
    <2>2. \A o \in 0 .. n : o >= n - n
      BY <1>n
    <2>3. f = Step(f)
      BY <2>1, <2>2
    <2> QED
      BY <2>1, <2>3
  <1>5. DEFINE from == CHOOSE g : g = Step(g)
  <1>6. from = Step(from)
    BY <1>4
  <1>7. \A s \in 0 .. n : Scan(s, e) = from[s]
    BY DEF Scan, Stops, n
  <1> HIDE DEF from
  <1>8. \A o \in 0 .. n :
            from[o] = IF Stops(file, o, e) THEN <<>> ELSE <<o>> \o from[o + RecLenAt(file, o)]
    <2> DEFINE next == Step(from)
    <2>1. \A o \in 0 .. n :
            next[o] = IF Stops(file, o, e) THEN <<>> ELSE <<o>> \o from[o + RecLenAt(file, o)]
      OBVIOUS
    <2>2. from = next
      BY <1>6
    <2> HIDE DEF next
    <2> QED
      BY <2>1, <2>2
  <1>9. \A o \in 0 .. n : from[o] \in S
    <2> DEFINE Good == {m \in 0 .. n : \A o \in 0 .. n : o >= n - m => from[o] \in S}
    <2>1. 0 \in Good
      <3>1. \A o \in 0 .. n : o >= n - 0 => o = n
        BY <1>n
      <3>2. n \in 0 .. n /\ 0 \in 0 .. n
        BY <1>n
      <3>3. from[n] = <<>>
        BY <1>e, <1>8, <3>2
      <3> QED
        BY <1>0, <3>1, <3>2, <3>3
    <2>2. ASSUME NEW k \in 1 .. n, k - 1 \in Good PROVE k \in Good
      <3>1. ASSUME NEW o \in 0 .. n, o >= n - k PROVE from[o] \in S
        <4>1. CASE Stops(file, o, e)
          BY <1>0, <1>8, <4>1
        <4>2. CASE ~Stops(file, o, e)
          <5> DEFINE q == o + RecLenAt(file, o)
          <5>1. q \in o + 1 .. n
            BY <1>m, <4>2
          <5> HIDE DEF q
          <5>2. q \in 0 .. n /\ q >= n - (k - 1)
            BY <1>n, <3>1, <5>1
          <5>3. from[q] \in S
            BY <2>2, <5>2
          <5>4. from[o] = <<o>> \o from[q]
            BY <1>8, <4>2 DEF q
          <5> QED
            BY <1>s, <5>3, <5>4
        <4> QED
          BY <4>1, <4>2
      <3> QED
        BY <1>n, <3>1
    <2> HIDE DEF Good
    <2>3. \A k \in 0 .. n : k \in Good
      BY <1>n, <2>1, <2>2, UpTo
    <2>4. n \in Good /\ \A o \in 0 .. n : o >= n - n
      BY <1>n, <2>3
    <2> QED
      BY <2>4 DEF Good
  <1>10. from \in [0 .. n -> S]
    BY <1>6, <1>9
  <1> QED
    BY <1>7, <1>8, <1>10 DEF n, S, Scanner, Walk

(* Concatenation is associative.                                           *)
LEMMA AnyConcat ==
    \A R : \A s, t, u \in Seq(R) : (s \o t) \o u = s \o (t \o u)
  BY ConcatAssociative

(* Every record of the region is longer than its prefix.                   *)
LensOK == \A o \in Offsets : file[o].len # 0 => PrefixLen < file[o].len

(* Where a record of the current pass starts, or where the pass ends.      *)
Boundary(o) == o = writeOff \/ file[o].pos = 0

(* A pass begins with a record.                                            *)
LEMMA PassBoundary ==
    ASSUME TypeOK, CurrentPassWhole
    PROVE  Boundary(0)
  <1>1. writeOff \in Nat /\ MaxData \in Nat /\ writeOff <= MaxData
    BY RegionAssumption DEF TypeOK
  <1>2. CASE writeOff = 0
    BY <1>2 DEF Boundary
  <1>3. CASE writeOff # 0
    <2>1. 0 \in 0 .. writeOff - 1 /\ 0 \in Offsets
      BY <1>1, <1>3 DEF Offsets
    <2>2. file[0].pos \in Nat
      BY <2>1 DEF TypeOK, Cell
    <2>3. 0 <= 0 - file[0].pos
      BY <2>1 DEF CurrentPassWhole, WholeAt
    <2> QED
      BY <2>2, <2>3 DEF Boundary
  <1> QED
    BY <1>2, <1>3

(* A scan that is at a record of the pass gets to the next.                *)
LEMMA ScanAtRecord ==
    ASSUME TypeOK, LensOK, CurrentPassWhole,
           NEW o \in 0 .. writeOff - 1, file[o].pos = 0
    PROVE  /\ file[o].len \in Nat /\ PrefixLen < file[o].len
           /\ o + file[o].len \in 0 .. writeOff
           /\ \A p \in 0 .. file[o].len - 1 : file[o + p] = [file[o] EXCEPT !.pos = p]
           /\ RecLenAt(file, o) = file[o].len
           /\ ~Stops(file, o, writeOff)
           /\ Boundary(o + file[o].len)
  <1> DEFINE n == file[o].len
  <1>1. /\ writeOff \in Nat /\ MaxData \in Nat /\ writeOff <= MaxData
        /\ PrefixLen \in Nat \ {0} /\ o \in Nat /\ o < writeOff
    BY RegionAssumption DEF TypeOK
  <1>2. \A q \in 0 .. writeOff - 1 : q \in Offsets /\ file[q] \in Cell
    BY <1>1 DEF Offsets, TypeOK
  <1>3. n \in Nat /\ 0 < n
    BY <1>2 DEF CurrentPassWhole, WholeAt, Cell
  <1>4. PrefixLen < n
    BY <1>2, <1>3 DEF LensOK
  <1>5. /\ o + n <= writeOff
        /\ \A p \in 0 .. n - 1 : file[o + p] = [file[o] EXCEPT !.pos = p]
    <2>1. WholeAt(o, writeOff) /\ o - file[o].pos = o
      BY <1>1 DEF CurrentPassWhole
    <2> QED
      BY <1>1, <2>1 DEF WholeAt
  <1> HIDE DEF n
  <1>6. \A p \in 0 .. n - 1 : file[o + p].pos = p /\ file[o + p].len = n
    <2> SUFFICES ASSUME NEW p \in 0 .. n - 1
                 PROVE  file[o + p].pos = p /\ file[o + p].len = n
      OBVIOUS
    <2>1. file[o + p] = [file[o] EXCEPT !.pos = p] /\ file[o] \in Cell
      BY <1>2, <1>5
    <2> QED
      BY <2>1 DEF n, Cell
  <1>7. RecLenAt(file, o) = n
    <2>1. 0 \in 0 .. PrefixLen - 1 /\ o + 0 = o /\ file[o].len = n
      BY <1>1 DEF n
    <2>2. \A p \in 0 .. PrefixLen - 1 : p \in 0 .. n - 1
      BY <1>1, <1>3, <1>4
    <2>3. ~(\A p \in 0 .. PrefixLen - 1 : file[o + p].len = 0)
      BY <1>3, <2>1
    <2>4. \A p \in 0 .. PrefixLen - 1 :
              file[o + p].pos = p /\ file[o + p].len = file[o].len
      BY <1>6, <2>1, <2>2
    <2> QED
      BY <1>3, <2>1, <2>3, <2>4 DEF RecLenAt
  <1>8. ~Stops(file, o, writeOff)
    BY <1>1, <1>3, <1>4, <1>5, <1>7 DEF Stops, Garbled
  <1>9. Boundary(o + n)
    <2> SUFFICES ASSUME o + n # writeOff PROVE file[o + n].pos = 0
      BY DEF Boundary
    <2> DEFINE q == o + n
               p == file[q].pos
    <2>1. q \in 0 .. writeOff - 1 /\ q \in Nat
      BY <1>1, <1>3, <1>5
    <2>2. file[q] \in Cell /\ p \in Nat /\ file[q].len \in Nat
      BY <1>2, <2>1 DEF Cell
    <2>3. /\ p < file[q].len
          /\ \A x \in 0 .. file[q].len - 1 : file[q - p + x] = [file[q] EXCEPT !.pos = x]
      BY <2>1 DEF CurrentPassWhole, WholeAt
    <2> SUFFICES ASSUME p # 0 PROVE FALSE
      OBVIOUS
    <2>4. p - 1 \in 0 .. file[q].len - 1 /\ q - p + (p - 1) = q - 1
      BY <2>1, <2>2, <2>3
    <2>5. file[q - 1] = [file[q] EXCEPT !.pos = p - 1]
      BY <2>3, <2>4
    <2>6. file[q - 1].pos = p - 1 /\ file[q - 1].len = file[q].len
      BY <2>2, <2>5 DEF Cell
    <2>7. n - 1 \in 0 .. n - 1 /\ o + (n - 1) = q - 1
      BY <1>1, <1>3
    <2>8. file[q - 1].pos = n - 1 /\ file[q - 1].len = n
      BY <1>6, <2>7
    <2> QED
      BY <1>3, <2>2, <2>3, <2>6, <2>8
  <1>10. o + n \in 0 .. writeOff
    BY <1>1, <1>3, <1>5
  <1> QED
    BY <1>3, <1>4, <1>5, <1>7, <1>8, <1>9, <1>10 DEF n

(* A scan of the pass from a boundary visits starts of records.            *)
LEMMA ScanVisits ==
    ASSUME TypeOK, LensOK, CurrentPassWhole, NEW g, Scanner(g, writeOff)
    PROVE  \A o \in 0 .. writeOff : Boundary(o) =>
               \A i \in 1 .. Len(g[o]) :
                   g[o][i] \in 0 .. writeOff - 1 /\ file[g[o][i]].pos = 0
  <1> DEFINE w == writeOff
             Good(o) == \A i \in 1 .. Len(g[o]) :
                            g[o][i] \in 0 .. w - 1 /\ file[g[o][i]].pos = 0
             S == {k \in 0 .. w : \A o \in 0 .. w : o >= w - k /\ Boundary(o) => Good(o)}
  <1>n. w \in Nat /\ MaxData \in Nat /\ w <= MaxData
    BY RegionAssumption DEF TypeOK
  <1>g. /\ g \in [0 .. MaxData -> Seq(0 .. MaxData)]
        /\ \A o \in 0 .. MaxData :
               g[o] = IF Stops(file, o, w) THEN <<>> ELSE <<o>> \o g[o + RecLenAt(file, o)]
    BY DEF Scanner, Walk
  <1>0. Stops(file, w, w)
    BY <1>n, RegionAssumption DEF Stops
  <1>f. \A o \in 0 .. w - 1 : file[o].pos = 0 =>
            /\ file[o].len \in Nat \ {0} /\ o + file[o].len \in 0 .. w
            /\ RecLenAt(file, o) = file[o].len /\ ~Stops(file, o, w)
            /\ Boundary(o + file[o].len)
    <2> SUFFICES ASSUME NEW o \in 0 .. w - 1, file[o].pos = 0
                 PROVE  /\ file[o].len \in Nat \ {0} /\ o + file[o].len \in 0 .. w
                        /\ RecLenAt(file, o) = file[o].len /\ ~Stops(file, o, w)
                        /\ Boundary(o + file[o].len)
      OBVIOUS
    <2>1. file[o].len \in Nat /\ PrefixLen < file[o].len /\ PrefixLen \in Nat
      BY ScanAtRecord, RegionAssumption
    <2>2. /\ o + file[o].len \in 0 .. w
          /\ RecLenAt(file, o) = file[o].len /\ ~Stops(file, o, w)
          /\ Boundary(o + file[o].len)
      BY ScanAtRecord
    <2> QED
      BY <2>1, <2>2
  <1>b. Boundary(w) /\ \A o \in 0 .. w - 1 : Boundary(o) => file[o].pos = 0
    BY <1>n DEF Boundary
  <1> HIDE DEF w, Boundary
  <1>1. Good(w)
    <2>0. w \in 0 .. MaxData
      BY <1>n
    <2>1. g[w] = <<>>
      BY <1>0, <1>g, <2>0, Zenon
    <2> QED
      BY <2>1
  <1>2. ASSUME NEW o \in 0 .. w - 1, file[o].pos = 0, Good(o + file[o].len)
        PROVE  Good(o)
    <2> DEFINE q == o + file[o].len
    <2>1. q \in 0 .. w /\ RecLenAt(file, o) = file[o].len /\ ~Stops(file, o, w)
      BY <1>f, <1>2
    <2>2. o \in 0 .. MaxData /\ q \in 0 .. MaxData
      BY <1>n, <2>1
    <2>3. g[o] = <<o>> \o g[q] /\ g[q] \in Seq(0 .. MaxData) /\ <<o>> \in Seq(0 .. MaxData)
      BY <1>g, <2>1, <2>2
    <2> HIDE DEF q
    <2>4. ASSUME NEW i \in 1 .. Len(g[o])
          PROVE  g[o][i] \in 0 .. w - 1 /\ file[g[o][i]].pos = 0
      <3>1. /\ Len(g[o]) = 1 + Len(g[q])
            /\ g[o][i] = IF i <= 1 THEN <<o>>[i] ELSE g[q][i - 1]
        BY <2>3, ConcatProperties
      <3>2. Len(g[q]) \in Nat
        BY <2>3
      <3>3. CASE i = 1
        BY <1>2, <3>1, <3>3
      <3>4. CASE i # 1
        <4>1. i - 1 \in 1 .. Len(g[q]) /\ g[o][i] = g[q][i - 1]
          BY <3>1, <3>2, <3>4
        <4> QED
          BY <1>2, <4>1 DEF q
      <3> QED
        BY <3>3, <3>4
    <2> QED
      BY <2>4
  <1> HIDE DEF Good
  <1>3. 0 \in S
    <2>1. \A o \in 0 .. w : o >= w - 0 => o = w
      BY <1>n
    <2> QED
      BY <1>n, <1>1, <2>1
  <1>4. ASSUME NEW k \in 1 .. w, k - 1 \in S PROVE k \in S
    <2>1. ASSUME NEW o \in 0 .. w, o >= w - k, Boundary(o) PROVE Good(o)
      <3>1. CASE o = w
        BY <1>1, <3>1
      <3>2. CASE o # w
        <4>1. o \in 0 .. w - 1 /\ file[o].pos = 0
          BY <1>n, <1>b, <2>1, <3>2
        <4> DEFINE q == o + file[o].len
        <4>2. q \in 0 .. w /\ Boundary(q) /\ file[o].len \in Nat \ {0}
          BY <1>f, <4>1
        <4>3. q >= w - (k - 1)
          BY <1>n, <2>1, <4>1, <4>2
        <4>4. Good(q)
          BY <1>4, <4>2, <4>3
        <4> QED
          BY <1>2, <4>1, <4>4
      <3> QED
        BY <3>1, <3>2
    <2> QED
      BY <1>n, <2>1
  <1> HIDE DEF S
  <1>5. w \in S
    <2>1. \A k \in 0 .. w : k \in S
      BY <1>n, <1>3, <1>4, UpTo
    <2> QED
      BY <1>n, <2>1
  <1>6. \A o \in 0 .. w : o >= w - w
    BY <1>n
  <1> QED
    BY <1>5, <1>6 DEF S, w, Good

(* Region f has the current pass where the file has it.                    *)
SameBelow(f) == \A o \in 0 .. writeOff - 1 : f[o] = file[o]

(* When nothing below the write offset changes, a scan to a later end finds *)
(* what it found, and then what it finds from the old write offset on.      *)
LEMMA ScanGrows ==
    ASSUME TypeOK, LensOK, CurrentPassWhole, NEW e \in writeOff .. MaxData, NEW f,
           SameBelow(f), NEW h, Walk(h, f, e)
    PROVE  h[0] = Scan(0, writeOff) \o h[writeOff]
  <1>s. PICK g : Scanner(g, writeOff)
    BY ScannerIs DEF TypeOK
  <1> DEFINE w == writeOff
             Good(o) == h[o] = g[o] \o h[w]
             S == {k \in 0 .. w : \A o \in 0 .. w : o >= w - k /\ Boundary(o) => Good(o)}
  <1>n. /\ w \in Nat /\ MaxData \in Nat /\ w <= MaxData /\ e \in Nat /\ w <= e
        /\ PrefixLen \in Nat \ {0}
    BY RegionAssumption DEF TypeOK
  <1>g. /\ g \in [0 .. MaxData -> Seq(0 .. MaxData)]
        /\ \A o \in 0 .. MaxData :
               g[o] = IF Stops(file, o, w) THEN <<>> ELSE <<o>> \o g[o + RecLenAt(file, o)]
    BY <1>s DEF Scanner, Walk
  <1>h. /\ h \in [0 .. MaxData -> Seq(0 .. MaxData)]
        /\ \A o \in 0 .. MaxData :
               h[o] = IF Stops(f, o, e) THEN <<>> ELSE <<o>> \o h[o + RecLenAt(f, o)]
    BY DEF Walk
  <1>0. Stops(file, w, w)
    BY <1>n DEF Stops
  <1>f. ASSUME NEW o \in 0 .. w - 1, file[o].pos = 0
        PROVE  /\ file[o].len \in Nat \ {0} /\ o + file[o].len \in 0 .. w
               /\ RecLenAt(file, o) = file[o].len /\ ~Stops(file, o, w)
               /\ Boundary(o + file[o].len)
               /\ RecLenAt(f, o) = file[o].len /\ ~Stops(f, o, e)
    <2>1. file[o].len \in Nat /\ PrefixLen < file[o].len /\ PrefixLen \in Nat
      BY <1>f, ScanAtRecord, RegionAssumption
    <2>2. /\ o + file[o].len \in 0 .. w
          /\ RecLenAt(file, o) = file[o].len /\ ~Stops(file, o, w)
          /\ Boundary(o + file[o].len)
      BY <1>f, ScanAtRecord
    <2>3. \A p \in 0 .. PrefixLen - 1 : o + p \in 0 .. w - 1
      BY <1>n, <2>1, <2>2
    <2>4. \A p \in 0 .. PrefixLen - 1 : f[o + p] = file[o + p]
      BY <2>3 DEF SameBelow
    <2>5. f[o] = file[o]
      BY DEF SameBelow
    <2>6. RecLenAt(f, o) = RecLenAt(file, o)
      BY <2>4, <2>5 DEF RecLenAt
    <2>7. ~Stops(f, o, e)
      <3>1. Stops(f, o, e) <=> \/ e - o < PrefixLen
                             \/ RecLenAt(f, o) \in {0, Garbled}
                             \/ o + RecLenAt(f, o) > e
        BY DEF Stops
      <3> QED
        BY <1>n, <2>1, <2>2, <2>6, <3>1 DEF Garbled
    <2> QED
      BY <2>1, <2>2, <2>6, <2>7
  <1>b. Boundary(w) /\ \A o \in 0 .. w - 1 : Boundary(o) => file[o].pos = 0
    BY <1>n DEF Boundary
  <1> HIDE DEF w, Boundary
  <1>1. Good(w)
    <2>0. w \in 0 .. MaxData
      BY <1>n
    <2>1. g[w] = <<>>
      BY <1>0, <1>g, <2>0, Zenon
    <2>2. h[w] \in Seq(0 .. MaxData)
      BY <1>h, <1>n
    <2> QED
      BY <2>1, <2>2, ConcatEmptySeq
  <1>2. ASSUME NEW o \in 0 .. w - 1, file[o].pos = 0, Good(o + file[o].len)
        PROVE  Good(o)
    <2> DEFINE q == o + file[o].len
    <2>1. /\ q \in 0 .. w /\ RecLenAt(file, o) = file[o].len /\ ~Stops(file, o, w)
          /\ RecLenAt(f, o) = file[o].len /\ ~Stops(f, o, e)
      BY <1>f, <1>2
    <2>2. o \in 0 .. MaxData /\ q \in 0 .. MaxData /\ w \in 0 .. MaxData
      BY <1>n, <2>1
    <2>3. g[o] = <<o>> \o g[q]
      BY <1>g, <2>1, <2>2
    <2>4. h[o] = <<o>> \o h[q]
      BY <1>h, <2>1, <2>2
    <2> HIDE DEF q
    <2>5. g[q] \in Seq(0 .. MaxData) /\ h[w] \in Seq(0 .. MaxData)
      BY <1>g, <1>h, <2>2
    <2>8. <<o>> \in Seq(0 .. MaxData)
      BY <2>2
    <2>6. h[q] = g[q] \o h[w]
      BY <1>2 DEF q
    <2>7. (<<o>> \o g[q]) \o h[w] = <<o>> \o (g[q] \o h[w])
      <3> DEFINE a == <<o>>
                 b == g[q]
                 c == h[w]
                 R == 0 .. MaxData
      <3>1. a \in Seq(R) /\ b \in Seq(R) /\ c \in Seq(R)
        BY <2>5, <2>8
      <3> HIDE DEF a, b, c, R
      <3>2. (a \o b) \o c = a \o (b \o c)
        BY ONLY <3>1, AnyConcat, SMTT(30)
      <3> QED
        BY <3>2 DEF a, b, c
    <2> QED
      BY <2>3, <2>4, <2>6, <2>7
  <1> HIDE DEF Good
  <1>3. 0 \in S
    <2>1. \A o \in 0 .. w : o >= w - 0 => o = w
      BY <1>n
    <2> QED
      BY <1>n, <1>1, <2>1
  <1>4. ASSUME NEW k \in 1 .. w, k - 1 \in S PROVE k \in S
    <2>1. ASSUME NEW o \in 0 .. w, o >= w - k, Boundary(o) PROVE Good(o)
      <3>1. CASE o = w
        BY <1>1, <3>1
      <3>2. CASE o # w
        <4>1. o \in 0 .. w - 1 /\ file[o].pos = 0
          BY <1>n, <1>b, <2>1, <3>2
        <4> DEFINE q == o + file[o].len
        <4>2. q \in 0 .. w /\ Boundary(q) /\ file[o].len \in Nat \ {0}
          BY <1>f, <4>1
        <4>3. q >= w - (k - 1)
          BY <1>n, <2>1, <4>1, <4>2
        <4>4. Good(q)
          BY <1>4, <4>2, <4>3
        <4> QED
          BY <1>2, <4>1, <4>4
      <3> QED
        BY <3>1, <3>2
    <2> QED
      BY <1>n, <2>1
  <1> HIDE DEF S
  <1>5. w \in S
    <2>1. \A k \in 0 .. w : k \in S
      BY <1>n, <1>3, <1>4, UpTo
    <2> QED
      BY <1>n, <2>1
  <1>6. \A o \in 0 .. w : o >= w - w
    BY <1>n
  <1>7. \A o \in 0 .. w : Boundary(o) => h[o] = g[o] \o h[w]
    BY <1>5, <1>6 DEF S, Good
  <1>8. 0 \in 0 .. w /\ Boundary(0)
    BY <1>n, PassBoundary
  <1>9. Scan(0, w) = g[0]
    BY <1>n, <1>s DEF Scanner, w
  <1> QED
    BY <1>7, <1>8, <1>9 DEF w
-----------------------------------------------------------------------------
(* The timestamps of the current pass, and what a write does to them.      *)

Pass == ScanTS(0, writeOff)

LEMMA ScannerNow == TypeOK => \A e \in 0 .. MaxData : \E g : Scanner(g, e)
  BY ScannerIs

LEMMA ScannerNext ==
    TypeOK' => \A e \in 0 .. MaxData : \E g : Walk(g, file', e) /\ Scan(0, e)' = g[0]
  <1>1. (TypeOK => \A e \in 0 .. MaxData : \E g : Scanner(g, e))'
    BY ScannerNow, PTL
  <1> SUFFICES ASSUME TypeOK', NEW e \in 0 .. MaxData
               PROVE  \E g : Walk(g, file', e) /\ Scan(0, e)' = g[0]
    OBVIOUS
  <1>2. PICK g : Scanner(g, e)'
    BY <1>1
  <1>3. 0 \in 0 .. MaxData
    BY RegionAssumption
  <1>4. Walk(g, file', e) /\ \A s \in 0 .. MaxData : Scan(s, e)' = g[s]
    BY <1>2 DEF Scanner
  <1> QED
    BY <1>3, <1>4

(* The scan of the pass: a sequence of starts of records.                  *)
LEMMA PassScan ==
    ASSUME TypeOK, LensOK, CurrentPassWhole
    PROVE  /\ Scan(0, writeOff) \in Seq(0 .. MaxData)
           /\ \A i \in 1 .. Len(Scan(0, writeOff)) :
                  /\ Scan(0, writeOff)[i] \in 0 .. writeOff - 1
                  /\ Scan(0, writeOff)[i] + PrefixLen \in 0 .. writeOff - 1
           /\ Pass \in Seq(Nat)
           /\ Len(Pass) = Len(Scan(0, writeOff))
           /\ \A i \in 1 .. Len(Pass) :
                  Pass[i] = file[Scan(0, writeOff)[i] + PrefixLen].ts
  <1>1. /\ writeOff \in 0 .. MaxData /\ 0 \in 0 .. writeOff /\ 0 \in 0 .. MaxData
        /\ writeOff \in Nat /\ MaxData \in Nat /\ PrefixLen \in Nat
    BY RegionAssumption DEF TypeOK
  <1>2. PICK g : Scanner(g, writeOff)
    BY <1>1, ScannerIs
  <1>3. Scan(0, writeOff) = g[0] /\ g[0] \in Seq(0 .. MaxData)
    BY <1>1, <1>2 DEF Scanner, Walk
  <1>4. Boundary(0)
    BY PassBoundary
  <1>5. \A i \in 1 .. Len(g[0]) : g[0][i] \in 0 .. writeOff - 1 /\ file[g[0][i]].pos = 0
    BY <1>1, <1>2, <1>4, ScanVisits
  <1> DEFINE at == g[0]
  <1> HIDE DEF at
  <1>6. ASSUME NEW i \in 1 .. Len(at)
        PROVE  at[i] \in 0 .. writeOff - 1 /\ at[i] + PrefixLen \in 0 .. writeOff - 1
    <2>1. at[i] \in 0 .. writeOff - 1 /\ file[at[i]].pos = 0
      BY <1>5 DEF at
    <2>2. /\ file[at[i]].len \in Nat /\ PrefixLen < file[at[i]].len
          /\ at[i] + file[at[i]].len \in 0 .. writeOff
      BY <2>1, ScanAtRecord
    <2> QED
      BY <1>1, <2>1, <2>2
  <1>7. at \in Seq(0 .. MaxData) /\ Scan(0, writeOff) = at
    BY <1>3 DEF at
  <1>8. Pass = [i \in 1 .. Len(at) |-> file[at[i] + PrefixLen].ts]
    BY <1>7 DEF Pass, ScanTS
  <1>9. \A i \in 1 .. Len(at) : file[at[i] + PrefixLen].ts \in Nat
    <2> SUFFICES ASSUME NEW i \in 1 .. Len(at)
                 PROVE  file[at[i] + PrefixLen].ts \in Nat
      OBVIOUS
    <2>1. at[i] + PrefixLen \in Offsets
      BY <1>1, <1>6 DEF Offsets
    <2> QED
      BY <2>1 DEF TypeOK, Cell
  <1>10. Len(at) \in Nat
    BY <1>7
  <1>11. Pass \in Seq(Nat) /\ Len(Pass) = Len(at)
    BY <1>8, <1>9, <1>10
  <1> QED
    BY <1>6, <1>7, <1>8, <1>11

(* What a scan finds after a write, complete or not: what it found before  *)
(* the place of the record, and what begins there.                         *)
LEMMA ScanAfter ==
    ASSUME TypeOK, LensOK, CurrentPassWhole,
           NEW len \in RecLens, len <= MaxData, NEW ts \in Nat, NEW j \in 0 .. len,
           NEW f, f = FileAfter(ts, len, j), NEW e \in Start(len) .. MaxData,
           NEW h, Walk(h, f, e)
    PROVE  h[0] = (IF Wraps(len) THEN <<>> ELSE Scan(0, writeOff)) \o h[Start(len)]
  <1>1. /\ writeOff \in 0 .. MaxData /\ 0 \in 0 .. writeOff /\ 0 \in 0 .. MaxData
        /\ writeOff \in Nat /\ MaxData \in Nat
    BY RegionAssumption DEF TypeOK
  <1>2. h \in [0 .. MaxData -> Seq(0 .. MaxData)]
    BY DEF Scanner, Walk
  <1>3. CASE Wraps(len)
    <2>1. Start(len) = 0 /\ h[0] \in Seq(0 .. MaxData)
      BY <1>1, <1>2, <1>3 DEF Start
    <2> QED
      BY <1>3, <2>1, ConcatEmptySeq
  <1>4. CASE ~Wraps(len)
    <2>1. Start(len) = writeOff /\ e \in writeOff .. MaxData
      BY <1>4 DEF Start
    <2>2. SameBelow(f)
      BY <2>1, FileAfterCells DEF SameBelow
    <2>3. h[0] = Scan(0, writeOff) \o h[writeOff]
      BY <2>1, <2>2, ScanGrows
    <2> QED
      BY <1>4, <2>1, <2>3
  <1> QED
    BY <1>3, <1>4

(* The records that a write leaves before its place.                       *)
LEMMA PassBefore ==
    ASSUME TypeOK, LensOK, CurrentPassWhole,
           NEW len \in RecLens, len <= MaxData, NEW ts \in Nat, NEW j \in 0 .. len,
           NEW f, f = FileAfter(ts, len, j)
    PROVE  LET at  == IF Wraps(len) THEN <<>> ELSE Scan(0, writeOff)
               old == IF Wraps(len) THEN <<>> ELSE Pass
           IN /\ at \in Seq(0 .. MaxData) /\ old \in Seq(Nat) /\ Len(at) = Len(old)
              /\ \A i \in 1 .. Len(old) : f[at[i] + PrefixLen].ts = old[i]
  <1>1. CASE Wraps(len)
    <2>1. <<>> \in Seq(0 .. MaxData) /\ <<>> \in Seq(Nat) /\ Len(<<>>) = 0
      OBVIOUS
    <2> QED
      BY <1>1, <2>1
  <1>2. CASE ~Wraps(len)
    <2> DEFINE at == Scan(0, writeOff)
    <2>1. Start(len) = writeOff
      BY <1>2 DEF Start
    <2>2. \A o \in 0 .. writeOff - 1 : f[o] = file[o]
      BY <2>1, FileAfterCells
    <2>3. /\ at \in Seq(0 .. MaxData) /\ Pass \in Seq(Nat) /\ Len(Pass) = Len(at)
          /\ \A i \in 1 .. Len(at) : at[i] + PrefixLen \in 0 .. writeOff - 1
          /\ \A i \in 1 .. Len(Pass) : Pass[i] = file[at[i] + PrefixLen].ts
      BY PassScan
    <2> HIDE DEF at
    <2>4. \A i \in 1 .. Len(Pass) : f[at[i] + PrefixLen].ts = Pass[i]
      BY <2>2, <2>3
    <2> QED
      BY <1>2, <2>3, <2>4 DEF at
  <1> QED
    BY <1>1, <1>2

(* A committed record is added to the pass, or is the first of a new one.  *)
LEMMA CommitPass ==
    ASSUME TypeOK, TypeOK', LensOK, CurrentPassWhole,
           NEW len \in RecLens, len <= MaxData, NEW ts \in Nat,
           file' = FileAfter(ts, len, len), writeOff' = Start(len) + len
    PROVE  Pass' = Append(IF Wraps(len) THEN <<>> ELSE Pass, ts)
  <1>0. PICK st, f : st = Start(len) /\ f = file'
    OBVIOUS
  <1> DEFINE at  == IF Wraps(len) THEN <<>> ELSE Scan(0, writeOff)
             old == IF Wraps(len) THEN <<>> ELSE Pass
             now == Scan(0, writeOff)'
  <1>1. /\ st \in Nat /\ MaxData \in Nat /\ st + len <= MaxData /\ len \in Nat
        /\ PrefixLen \in Nat \ {0} /\ PrefixLen < len
        /\ len \in 0 .. len
    <2>1. /\ st \in 0 .. MaxData /\ len \in Nat /\ PrefixLen < len
          /\ st + len \in 0 .. MaxData
      BY <1>0, StartFits DEF TypeOK
    <2> QED
      BY <2>1, RegionAssumption
  <1>2. /\ at \in Seq(0 .. MaxData) /\ old \in Seq(Nat) /\ Len(at) = Len(old)
        /\ \A i \in 1 .. Len(old) : f[at[i] + PrefixLen].ts = old[i]
    BY <1>0, <1>1, PassBefore
  <1>3. \A o \in st .. st + len - 1 :
            f[o] = [ts |-> ts, len |-> len, pos |-> o - st]
    BY <1>0, <1>1, FileAfterCells
  <1>4. st + len \in 0 .. MaxData /\ st + len \in st .. MaxData
        /\ st \in 0 .. MaxData /\ 0 \in 0 .. MaxData
    BY <1>1
  <1>5. PICK h : Walk(h, f, st + len) /\ Scan(0, st + len)' = h[0]
    BY <1>0, <1>1, <1>4, ScannerNext
  <1>6. h[0] = at \o h[st]
    <2>1. f = FileAfter(ts, len, len) /\ st + len \in Start(len) .. MaxData
      BY <1>0, <1>4
    <2>2. len \in 0 .. len /\ Walk(h, f, st + len)
      BY <1>1, <1>5
    <2>3. h[0] = (IF Wraps(len) THEN <<>> ELSE Scan(0, writeOff)) \o h[Start(len)]
      BY <2>1, <2>2, ScanAfter
    <2> QED
      BY <1>0, <2>3
  <1>7. now = h[0]
    BY <1>0, <1>5 DEF Scan
  <1>8. h[st] = <<st>>
    <2>1. \A o \in 0 .. MaxData :
              h[o] = IF Stops(f, o, st + len) THEN <<>> ELSE <<o>> \o h[o + RecLenAt(f, o)]
      BY <1>5 DEF Walk
    <2>2. \A p \in 0 .. PrefixLen - 1 : f[st + p].pos = p /\ f[st + p].len = len
      <3> SUFFICES ASSUME NEW p \in 0 .. PrefixLen - 1
                   PROVE  f[st + p].pos = p /\ f[st + p].len = len
        OBVIOUS
      <3>1. st + p \in st .. st + len - 1 /\ (st + p) - st = p
        BY <1>1
      <3>2. f[st + p] = [ts |-> ts, len |-> len, pos |-> p]
        BY <1>3, <3>1
      <3> QED
        BY <3>2
    <2>3. RecLenAt(f, st) = len
      <3>1. 0 \in 0 .. PrefixLen - 1 /\ st + 0 = st
        BY <1>1
      <3>2. f[st].len = len
        BY <2>2, <3>1
      <3> QED
        BY <1>1, <2>2, <3>1, <3>2 DEF RecLenAt
    <2>4. ~Stops(f, st, st + len)
      BY <1>1, <2>3 DEF Stops, Garbled
    <2>5. Stops(f, st + len, st + len)
      BY <1>1 DEF Stops
    <2>6. h[st] = <<st>> \o h[st + len] /\ h[st + len] = <<>>
      BY <1>4, <2>1, <2>3, <2>4, <2>5
    <2> QED
      BY <2>6, <1>4
  <1>9. f[st + PrefixLen].ts = ts
    <2>1. st + PrefixLen \in st .. st + len - 1
      BY <1>1
    <2>2. f[st + PrefixLen]
              = [ts |-> ts, len |-> len, pos |-> st + PrefixLen - st]
      BY <1>1, <1>3, <2>1
    <2> QED
      BY <2>2
  <1>10. Pass' = [i \in DOMAIN now |-> f[now[i] + PrefixLen].ts]
    BY <1>0 DEF Pass, ScanTS
  <1> HIDE DEF at, old, now
  <1>11. now = at \o <<st>> /\ <<st>> \in Seq(0 .. MaxData)
    BY <1>4, <1>6, <1>7, <1>8
  <1>12. /\ now \in Seq(0 .. MaxData) /\ Len(now) = Len(at) + 1
         /\ now[Len(at) + 1] = st
         /\ \A i \in 1 .. Len(at) : now[i] = at[i]
    <2>1. /\ now \in Seq(0 .. MaxData) /\ Len(now) = Len(at) + Len(<<st>>)
          /\ \A i \in 1 .. Len(at) + Len(<<st>>) :
                 now[i] = IF i <= Len(at) THEN at[i] ELSE <<st>>[i - Len(at)]
      BY <1>2, <1>11, ConcatProperties
    <2>2. Len(<<st>>) = 1 /\ <<st>>[1] = st /\ Len(at) \in Nat
      BY <1>2
    <2> QED
      BY <2>1, <2>2
  <1>13. /\ Append(old, ts) \in Seq(Nat) /\ Len(Append(old, ts)) = Len(old) + 1
         /\ \A i \in 1 .. Len(old) : Append(old, ts)[i] = old[i]
         /\ Append(old, ts)[Len(old) + 1] = ts
    BY <1>2, AppendProperties
  <1> DEFINE new == Append(old, ts)
             n   == Len(old)
  <1>14. n \in Nat
    BY <1>2
  <1> HIDE DEF new, n
  <1>15. DOMAIN now = 1 .. n + 1
    BY <1>2, <1>12 DEF n
  <1>16. \A i \in 1 .. n + 1 : f[now[i] + PrefixLen].ts = new[i]
    <2> SUFFICES ASSUME NEW i \in 1 .. n + 1
                 PROVE  f[now[i] + PrefixLen].ts = new[i]
      OBVIOUS
    <2>1. CASE i = n + 1
      BY <1>2, <1>9, <1>12, <1>13, <2>1 DEF n, new
    <2>2. CASE i # n + 1
      <3>1. i \in 1 .. n
        BY <1>14, <2>2
      <3> QED
        BY <1>2, <1>12, <1>13, <3>1 DEF n, new
    <2> QED
      BY <2>1, <2>2
  <1>17. new \in Seq(Nat) /\ Len(new) = n + 1
    BY <1>13 DEF n, new
  <1>18. new = [i \in 1 .. n + 1 |-> new[i]]
    BY <1>14, <1>17
  <1>19. Pass' = [i \in 1 .. n + 1 |-> new[i]]
    BY <1>10, <1>15, <1>16
  <1> QED
    BY <1>18, <1>19 DEF new, old

(* A failed write leaves the pass as it was, or empty when it had wrapped.  *)
LEMMA FailurePass ==
    ASSUME TypeOK, TypeOK', LensOK, CurrentPassWhole,
           NEW len \in RecLens, len <= MaxData, NEW ts \in Nat, NEW j \in 0 .. len,
           file' = FileAfter(ts, len, j), writeOff' = Start(len)
    PROVE  Pass' = IF Wraps(len) THEN <<>> ELSE Pass
  <1>0. PICK st, f : st = Start(len) /\ f = file'
    OBVIOUS
  <1> DEFINE at  == IF Wraps(len) THEN <<>> ELSE Scan(0, writeOff)
             old == IF Wraps(len) THEN <<>> ELSE Pass
             now == Scan(0, writeOff)'
  <1>1. st \in Nat /\ MaxData \in Nat /\ st <= MaxData /\ PrefixLen \in Nat \ {0}
    BY <1>0, StartFits, RegionAssumption DEF TypeOK
  <1>2. /\ at \in Seq(0 .. MaxData) /\ old \in Seq(Nat) /\ Len(at) = Len(old)
        /\ \A i \in 1 .. Len(old) : f[at[i] + PrefixLen].ts = old[i]
    BY <1>0, PassBefore
  <1>4. st \in st .. MaxData /\ st \in 0 .. MaxData /\ 0 \in 0 .. MaxData
    BY <1>1
  <1>5. PICK h : Walk(h, f, st) /\ Scan(0, st)' = h[0]
    BY <1>0, <1>1, <1>4, ScannerNext
  <1>6. h[0] = at \o h[st]
    <2>1. f = FileAfter(ts, len, j) /\ st \in Start(len) .. MaxData
      BY <1>0, <1>4
    <2>2. j \in 0 .. len /\ Walk(h, f, st)
      BY <1>1, <1>5
    <2>3. h[0] = (IF Wraps(len) THEN <<>> ELSE Scan(0, writeOff)) \o h[Start(len)]
      BY <2>1, <2>2, ScanAfter
    <2> QED
      BY <1>0, <2>3
  <1>7. now = h[0]
    BY <1>0, <1>5 DEF Scan
  <1>8. h[st] = <<>>
    <2>1. \A o \in 0 .. MaxData :
              h[o] = IF Stops(f, o, st) THEN <<>> ELSE <<o>> \o h[o + RecLenAt(f, o)]
      BY <1>5 DEF Walk
    <2>2. st - st < PrefixLen => Stops(f, st, st)
      BY DEF Stops
    <2>3. Stops(f, st, st)
      BY <1>1, <2>2
    <2> QED
      BY <1>4, <2>1, <2>3
  <1>10. Pass' = [i \in DOMAIN now |-> f[now[i] + PrefixLen].ts]
    BY <1>0 DEF Pass, ScanTS
  <1> HIDE DEF at, old, now
  <1>11. now = at
    BY <1>2, <1>6, <1>7, <1>8, ConcatEmptySeq
  <1>12. DOMAIN now = 1 .. Len(old)
    BY <1>2, <1>11
  <1>13. old = [i \in 1 .. Len(old) |-> old[i]]
    BY <1>2
  <1>14. Pass' = [i \in 1 .. Len(old) |-> old[i]]
    BY <1>2, <1>10, <1>11, <1>12
  <1> QED
    BY <1>13, <1>14 DEF old
-----------------------------------------------------------------------------
(* The current pass and the history.                                       *)

(* The pass holds the last records of the log, all of them until the first *)
(* wrap; the log is in strictly increasing order, up to the clock.         *)
ScanInv ==
    /\ LensOK
    /\ Len(Pass) <= writeOff
    /\ Len(Pass) <= Len(log)
    /\ \A i \in 1 .. Len(Pass) : Pass[i] = log[Len(log) - Len(Pass) + i]
    /\ \A i \in 1 .. Len(log) : log[i] <= clock
    /\ \A i, k \in 1 .. Len(log) : i < k => log[i] < log[k]
    /\ ~wrapped => Len(Pass) = Len(log)

(* What is left of the pass when a record of this length is written.       *)
Before(len) == IF Wraps(len) THEN <<>> ELSE Pass

LEMMA BeforeFacts ==
    ASSUME TypeOK, CurrentPassWhole, ScanInv, NEW len \in RecLens, len <= MaxData
    PROVE  /\ Before(len) \in Seq(Nat)
           /\ Len(Before(len)) <= Start(len)
           /\ Len(Before(len)) <= Len(log)
           /\ \A i \in 1 .. Len(Before(len)) :
                  Before(len)[i] = log[Len(log) - Len(Before(len)) + i]
           /\ ~wrapped /\ ~Wraps(len) => Len(Before(len)) = Len(log)
  <1>1. Pass \in Seq(Nat)
    BY PassScan DEF ScanInv
  <1>2. Start(len) \in Nat /\ Start(len) = (IF Wraps(len) THEN 0 ELSE writeOff)
    BY StartFits DEF TypeOK
  <1>3. CASE Wraps(len)
    <2>1. Before(len) = <<>> /\ Len(log) \in Nat
      BY <1>3 DEF Before, TypeOK
    <2> QED
      BY <1>2, <1>3, <2>1
  <1>4. CASE ~Wraps(len)
    <2>1. Before(len) = Pass /\ Start(len) = writeOff
      BY <1>2, <1>4 DEF Before
    <2> QED
      BY <1>1, <2>1 DEF ScanInv
  <1> QED
    BY <1>3, <1>4

(* A write leaves records in the region that are longer than a prefix.     *)
LEMMA WriteKeepsLens ==
    ASSUME TypeOK, LensOK, NEW len \in RecLens, NEW ts \in Nat, NEW j \in 0 .. len,
           file' = FileAfter(ts, len, j)
    PROVE  LensOK'
  <1> SUFFICES ASSUME NEW o \in Offsets, file'[o].len # 0
               PROVE  PrefixLen < file'[o].len
    BY DEF LensOK
  <1>1. PrefixLen < len
    BY RegionAssumption
  <1>2. CASE o \in Start(len) .. Start(len) + j - 1
    <2>1. file'[o] = [ts |-> ts, len |-> len, pos |-> o - Start(len)]
      BY <1>2 DEF FileAfter
    <2> QED
      BY <1>1, <2>1
  <1>3. CASE o \notin Start(len) .. Start(len) + j - 1
    <2>1. file'[o] = IF o \in SentinelCells(len) THEN Zero ELSE file[o]
      BY <1>3 DEF FileAfter
    <2>2. file'[o] = file[o]
      BY <2>1 DEF Zero
    <2> QED
      BY <2>2 DEF LensOK
  <1> QED
    BY <1>2, <1>3

(* A record that is committed goes to the end of the log and of the pass.  *)
LEMMA CommitKeepsScan ==
    ASSUME TypeInv, TypeOK', PassInv, ScanInv, NEW ts \in Nat, NEW len \in RecLens,
           len <= MaxData, ts > clock, clock' = ts,
           file' = FileAfter(ts, len, len), Commit(ts, len)
    PROVE  ScanInv'
  <1> DEFINE old == Before(len)
  <1>1. /\ len \in Nat \ {0} /\ Start(len) \in Nat /\ len \in 0 .. len
        /\ clock \in Nat /\ log \in Seq(Nat)
    BY StartFits, RegionAssumption DEF TypeInv, TypeOK
  <1>2. /\ old \in Seq(Nat) /\ Len(old) \in Nat /\ Len(log) \in Nat
        /\ Len(old) <= Start(len)
        /\ Len(old) <= Len(log)
        /\ \A i \in 1 .. Len(old) : old[i] = log[Len(log) - Len(old) + i]
        /\ ~wrapped /\ ~Wraps(len) => Len(old) = Len(log)
    <2>1. TypeOK /\ CurrentPassWhole
      BY DEF TypeInv, PassInv
    <2>2. /\ Before(len) \in Seq(Nat)
          /\ Len(Before(len)) <= Start(len)
          /\ Len(Before(len)) <= Len(log)
          /\ \A i \in 1 .. Len(Before(len)) :
                 Before(len)[i] = log[Len(log) - Len(Before(len)) + i]
          /\ ~wrapped /\ ~Wraps(len) => Len(Before(len)) = Len(log)
      BY <2>1, BeforeFacts, Zenon
    <2> HIDE DEF old
    <2>3. old \in Seq(Nat) => Len(old) \in Nat
      OBVIOUS
    <2> QED
      BY <1>1, <2>2, <2>3 DEF old
  <1>3. /\ writeOff' = Start(len) + len /\ wrapped' = (wrapped \/ Wraps(len))
        /\ log' = Append(log, ts)
    BY DEF Commit, EndOfRecord
  <1>4. Pass' = Append(old, ts)
    BY <1>3, CommitPass DEF TypeInv, PassInv, ScanInv, Before
  <1> HIDE DEF old
  <1>5. /\ Len(Pass') = Len(old) + 1
        /\ \A i \in 1 .. Len(old) : Pass'[i] = old[i]
        /\ Pass'[Len(old) + 1] = ts
    BY <1>2, <1>4, AppendProperties
  <1>6. /\ Len(log') = Len(log) + 1
        /\ \A i \in 1 .. Len(log) : log'[i] = log[i]
        /\ log'[Len(log) + 1] = ts
    BY <1>1, <1>3, AppendProperties
  <1>7. LensOK'
    BY <1>1, WriteKeepsLens DEF TypeInv, ScanInv
  <1>8. Len(Pass') <= writeOff'
    BY <1>1, <1>2, <1>3, <1>5
  <1>9. ASSUME NEW i \in 1 .. Len(Pass')
        PROVE  Pass'[i] = log'[Len(log') - Len(Pass') + i]
    <2>1. Len(log') - Len(Pass') + i = Len(log) - Len(old) + i
      BY <1>2, <1>5, <1>6
    <2>2. CASE i = Len(old) + 1
      BY <1>2, <1>5, <1>6, <2>1, <2>2
    <2>3. CASE i # Len(old) + 1
      <3>1. i \in 1 .. Len(old) /\ Len(log) - Len(old) + i \in 1 .. Len(log)
        BY <1>2, <1>5, <2>3
      <3> QED
        BY <1>2, <1>5, <1>6, <2>1, <3>1
    <2> QED
      BY <2>2, <2>3
  <1>10. ASSUME NEW i \in 1 .. Len(log') PROVE log'[i] <= clock'
    <2>1. CASE i = Len(log) + 1
      BY <1>6, <2>1
    <2>2. CASE i # Len(log) + 1
      <3>1. i \in 1 .. Len(log)
        BY <1>2, <1>6, <2>2
      <3>2. log[i] \in Nat /\ log[i] <= clock
        BY <1>1, <3>1 DEF ScanInv
      <3> QED
        BY <1>1, <1>6, <3>1, <3>2
    <2> QED
      BY <2>1, <2>2
  <1>11. ASSUME NEW i \in 1 .. Len(log'), NEW k \in 1 .. Len(log'), i < k
         PROVE  log'[i] < log'[k]
    <2>1. i \in 1 .. Len(log) /\ log'[i] = log[i] /\ log[i] \in Nat /\ log[i] <= clock
      <3>1. i \in 1 .. Len(log)
        BY <1>2, <1>6, <1>11
      <3> QED
        BY <1>1, <1>6, <3>1 DEF ScanInv
    <2>2. CASE k = Len(log) + 1
      BY <1>1, <1>6, <2>1, <2>2
    <2>3. CASE k # Len(log) + 1
      <3>1. k \in 1 .. Len(log)
        BY <1>2, <1>6, <2>3
      <3>2. log[i] < log[k]
        BY <1>11, <2>1, <3>1 DEF ScanInv
      <3> QED
        BY <1>6, <2>1, <3>1, <3>2
    <2> QED
      BY <2>2, <2>3
  <1>12. ~wrapped' => Len(Pass') = Len(log')
    BY <1>2, <1>3, <1>5, <1>6
  <1>13. Len(Pass') <= Len(log')
    BY <1>2, <1>5, <1>6
  <1> QED
    BY <1>7, <1>8, <1>9, <1>10, <1>11, <1>12, <1>13 DEF ScanInv

(* A record that is not committed leaves the log as it is.                 *)
LEMMA FailureKeepsScan ==
    ASSUME TypeInv, TypeOK', PassInv, ScanInv, NEW ts \in Nat, NEW len \in RecLens,
           len <= MaxData, ts > clock, clock' = ts, NEW j \in 0 .. len,
           file' = FileAfter(ts, len, j), writeOff' = Start(len),
           wrapped' = (wrapped \/ Wraps(len)), log' = log
    PROVE  ScanInv'
  <1>1. Pass' = Before(len)
    BY FailurePass DEF TypeInv, PassInv, ScanInv, Before
  <1>2. /\ Len(Before(len)) <= Start(len)
        /\ Len(Before(len)) <= Len(log)
        /\ \A i \in 1 .. Len(Before(len)) :
               Before(len)[i] = log[Len(log) - Len(Before(len)) + i]
        /\ ~wrapped /\ ~Wraps(len) => Len(Before(len)) = Len(log)
    BY BeforeFacts DEF TypeInv, PassInv
  <1>3. LensOK'
    BY WriteKeepsLens DEF TypeInv, ScanInv
  <1>4. \A i \in 1 .. Len(log) : log[i] <= clock'
    <2> SUFFICES ASSUME NEW i \in 1 .. Len(log) PROVE log[i] <= clock'
      OBVIOUS
    <2>0. log \in Seq(Nat) /\ clock \in Nat
      BY DEF TypeInv, TypeOK
    <2>1. log[i] \in Nat /\ clock \in Nat
      BY <2>0
    <2>2. log[i] <= clock
      BY DEF ScanInv
    <2> QED
      BY <2>1, <2>2
  <1>5. \A i, k \in 1 .. Len(log) : i < k => log[i] < log[k]
    BY DEF ScanInv
  <1>6. ~wrapped' => Len(Before(len)) = Len(log)
    BY <1>2
  <1> QED
    BY <1>1, <1>2, <1>3, <1>4, <1>5, <1>6 DEF ScanInv

(* An empty pass.                                                          *)
LEMMA NoPass == ASSUME TypeOK', writeOff' = 0 PROVE Pass' = <<>>
  <1>1. 0 \in 0 .. MaxData /\ PrefixLen \in Nat \ {0}
    BY RegionAssumption
  <1>2. PICK h : Walk(h, file', 0) /\ Scan(0, 0)' = h[0]
    BY <1>1, ScannerNext
  <1>3. Stops(file', 0, 0)
    BY <1>1 DEF Stops
  <1>4. h[0] = <<>>
    BY <1>1, <1>2, <1>3 DEF Walk
  <1>5. Scan(0, writeOff)' = <<>>
    BY <1>2, <1>4 DEF Scan
  <1>6. Pass' = [i \in {} |-> file'[<<>>[i] + PrefixLen].ts]
    BY <1>5 DEF Pass, ScanTS
  <1> QED
    BY <1>6

LEMMA ScanStep ==
    ASSUME MagicLen # MagicField, \A d \in ClockSteps : d > 0,
           TypeInv, TypeInv', PassInv, ScanInv, [Next]_vars
    PROVE  ScanInv'
  <1> USE DEF TypeInv
  <1>1. ASSUME NEW ts \in 1 .. MaxClock, Stamp(ts)
        PROVE  ts \in Nat /\ ts > clock
    BY <1>1, ClockAssumption DEF Stamp, TypeOK
  <1>2. ASSUME NEW ts \in 1 .. MaxClock, NEW len \in RecLens,
               Write(ts, len) \/ HeaderFails(ts, len)
        PROVE  ScanInv'
    <2>1. /\ Stamp(ts) /\ len <= MaxData /\ Commit(ts, len)
          /\ file' = FileAfter(ts, len, len) /\ clock' = ts
      BY <1>2 DEF Write, HeaderFails
    <2> QED
      BY <1>1, <2>1, CommitKeepsScan
  <1>3. ASSUME NEW ts \in 1 .. MaxClock, NEW len \in RecLens,
               NEW j \in 0 .. len - 1, WriteFails(ts, len, j)
        PROVE  ScanInv'
    <2>1. /\ Stamp(ts) /\ len <= MaxData /\ file' = FileAfter(ts, len, j)
          /\ writeOff' = Start(len) /\ wrapped' = (wrapped \/ Wraps(len))
          /\ clock' = ts /\ log' = log
      BY <1>3 DEF WriteFails
    <2>2. j \in 0 .. len
      BY RegionAssumption
    <2> QED
      BY <1>1, <2>1, <2>2, FailureKeepsScan
  <1>4. ASSUME UNCHANGED <<writeOff, file, log, clock, wrapped>>
        PROVE  ScanInv'
    <2>1. Pass' = Pass
      BY <1>4 DEF Pass, ScanTS, Scan, RecLenAt
    <2>2. LensOK'
      BY <1>4 DEF LensOK, ScanInv
    <2> QED
      BY <1>4, <2>1, <2>2 DEF ScanInv
  <1>5. CASE Flush
    BY <1>4, <1>5 DEF Flush, memory
  <1>6. ASSUME NEW h, OpenTier(h) PROVE ScanInv'
    <2>1. writeOff' = 0 /\ wrapped' = FALSE /\ file' = file /\ log' = <<>>
      BY <1>6 DEF OpenTier, HeaderAccepted, Reinitialise
    <2>2. Pass' = <<>>
      BY <2>1, NoPass
    <2>3. LensOK'
      BY <2>1 DEF LensOK, ScanInv
    <2> QED
      BY <2>1, <2>2, <2>3 DEF ScanInv
  <1>7. CASE Restart \/ Crash
    BY <1>6, <1>7 DEF Restart, Crash
  <1>8. CASE UNCHANGED vars
    BY <1>4, <1>8 DEF vars, memory
  <1> QED
    BY <1>2, <1>3, <1>5, <1>7, <1>8 DEF Next

LEMMA ScanInit == Init => ScanInv
  <1> SUFFICES ASSUME Init PROVE ScanInv
    OBVIOUS
  <1>1. TypeOK /\ CurrentPassWhole
    BY TypeInit DEF TypeInv, Init, CurrentPassWhole
  <1>2. LensOK
    <2>1. \A o \in Offsets : file[o].len = 0
      BY DEF Init, Zero
    <2> QED
      BY <2>1 DEF LensOK
  <1>3. /\ Len(Pass) = Len(Scan(0, writeOff))
        /\ \A i \in 1 .. Len(Scan(0, writeOff)) : Scan(0, writeOff)[i] \in 0 .. writeOff - 1
        /\ Scan(0, writeOff) \in Seq(0 .. MaxData)
    BY <1>1, <1>2, PassScan
  <1>4. writeOff = 0 /\ log = <<>> /\ Len(log) = 0
    BY DEF Init
  <1>5. Len(Pass) = 0
    <2> DEFINE at == Scan(0, writeOff)
    <2>1. Len(at) \in Nat /\ \A i \in 1 .. Len(at) : at[i] \in 0 .. 0 - 1
      BY <1>3, <1>4
    <2> HIDE DEF at
    <2>2. Len(at) = 0
      <3> SUFFICES ASSUME Len(at) # 0 PROVE FALSE
        OBVIOUS
      <3>1. 1 \in 1 .. Len(at)
        BY <2>1
      <3>2. at[1] \in 0 .. 0 - 1
        BY <2>1, <3>1
      <3> QED
        BY <3>2
    <2> QED
      BY <1>3, <2>2 DEF at
  <1> QED
    BY <1>2, <1>4, <1>5 DEF ScanInv

(* The last n of a sequence.                                               *)
LEMMA LastNIs ==
    ASSUME NEW S, NEW s \in Seq(S), NEW n \in 1 .. Len(s)
    PROVE  /\ Len(LastN(s, n)) = n
           /\ LastN(s, n) = [i \in 1 .. n |-> s[Len(s) - n + i]]
  <1>1. Len(s) \in Nat /\ n \in Nat /\ n <= Len(s)
    OBVIOUS
  <1>2. CASE n = Len(s)
    <2>1. LastN(s, n) = s
      BY <1>2 DEF LastN
    <2>2. s = [i \in 1 .. Len(s) |-> s[i]]
      OBVIOUS
    <2>3. \A i \in 1 .. n : Len(s) - n + i = i
      BY <1>1, <1>2
    <2> QED
      BY <1>2, <2>1, <2>2, <2>3
  <1>3. CASE n # Len(s)
    <2> DEFINE a == Len(s) - n + 1
    <2>1. LastN(s, n) = SubSeq(s, a, Len(s))
      BY <1>1, <1>3 DEF LastN
    <2>2. a \in 1 .. Len(s)
      BY <1>1, <1>3
    <2>3. SubSeq(s, a, Len(s)) = [i \in 1 .. (1 + Len(s) - a) |-> s[i + a - 1]]
      BY <2>2
    <2>4. 1 + Len(s) - a = n /\ \A i \in 1 .. n : i + a - 1 = Len(s) - n + i
      BY <1>1
    <2>5. SubSeq(s, a, Len(s)) = [i \in 1 .. n |-> s[Len(s) - n + i]]
      BY <2>3, <2>4
    <2>6. Len([i \in 1 .. n |-> s[Len(s) - n + i]]) = n
      BY <1>1
    <2> QED
      BY <2>1, <2>5, <2>6
  <1> QED
    BY <1>2, <1>3

(* The last records of a sequence do not depend on what is put before it.  *)
LEMMA LastNOfConcat ==
    ASSUME NEW S, NEW s \in Seq(S), NEW t \in Seq(S), NEW n \in 1 .. Len(t)
    PROVE  LastN(s \o t, n) = LastN(t, n)
  <1>1. /\ s \o t \in Seq(S) /\ Len(s \o t) = Len(s) + Len(t)
        /\ \A i \in 1 .. Len(s) + Len(t) :
               (s \o t)[i] = IF i <= Len(s) THEN s[i] ELSE t[i - Len(s)]
    BY ConcatProperties
  <1> DEFINE st == s \o t
  <1>2. Len(s) \in Nat /\ Len(t) \in Nat /\ n \in Nat /\ n <= Len(t)
    OBVIOUS
  <1> HIDE DEF st
  <1>3. st \in Seq(S) /\ n \in 1 .. Len(st) /\ Len(st) = Len(s) + Len(t)
    BY <1>1, <1>2 DEF st
  <1>4. \A i \in 1 .. n : st[Len(st) - n + i] = t[Len(t) - n + i]
    <2> SUFFICES ASSUME NEW i \in 1 .. n
                 PROVE  st[Len(st) - n + i] = t[Len(t) - n + i]
      OBVIOUS
    <2>1. /\ Len(st) - n + i \in 1 .. Len(s) + Len(t)
          /\ ~(Len(st) - n + i <= Len(s))
          /\ Len(st) - n + i - Len(s) = Len(t) - n + i
      BY <1>2, <1>3
    <2>2. st[Len(st) - n + i] = t[Len(st) - n + i - Len(s)]
      BY <1>1, <2>1 DEF st
    <2> QED
      BY <2>1, <2>2
  <1>5. LastN(st, n) = [i \in 1 .. n |-> st[Len(st) - n + i]]
    BY <1>3, LastNIs
  <1>6. LastN(t, n) = [i \in 1 .. n |-> t[Len(t) - n + i]]
    BY LastNIs
  <1> QED
    BY <1>4, <1>5, <1>6 DEF st

(* What a scan of the previous pass finds is a sequence.                    *)
LEMMA OldSegment ==
    ASSUME TypeOK
    PROVE  \E S : ScanTS(writeOff, MaxData) \in Seq(S)
  <1>1. /\ writeOff \in 0 .. MaxData /\ MaxData \in 0 .. MaxData /\ TypeOK
    BY RegionAssumption DEF TypeInv, TypeOK
  <1>2. PICK g : Scanner(g, MaxData)
    BY <1>1, ScannerIs
  <1> DEFINE at == g[writeOff]
  <1>3. Scan(writeOff, MaxData) = at /\ at \in Seq(0 .. MaxData)
    BY <1>1, <1>2 DEF Scanner, Walk
  <1> HIDE DEF at
  <1> DEFINE S == {file[at[i] + PrefixLen].ts : i \in 1 .. Len(at)}
  <1>4. ScanTS(writeOff, MaxData)
            = [i \in 1 .. Len(at) |-> file[at[i] + PrefixLen].ts]
    BY <1>3 DEF ScanTS
  <1>5. Len(at) \in Nat
    BY <1>3
  <1>6. \A i \in 1 .. Len(at) : file[at[i] + PrefixLen].ts \in S
    OBVIOUS
  <1> HIDE DEF S
  <1>7. ScanTS(writeOff, MaxData) \in Seq(S)
    BY <1>4, <1>5, <1>6
  <1> QED
    BY <1>7

(* What a reader that wants the latest n gets is what was written last.    *)
LEMMA LatestIsExact ==
    ASSUME TypeInv, CurrentPassWhole, ScanInv
    PROVE  LatestExact
  <1> DEFINE old  == IF wrapped THEN ScanTS(writeOff, MaxData) ELSE <<>>
             pass == ScanTS(0, writeOff)
  <1>1. /\ Pass \in Seq(Nat) /\ Len(Pass) = Len(Scan(0, writeOff))
        /\ Len(Pass) <= Len(log)
        /\ \A i \in 1 .. Len(Pass) : Pass[i] = log[Len(log) - Len(Pass) + i]
    BY PassScan DEF TypeInv, ScanInv
  <1>2. Pass = pass /\ log \in Seq(Nat) /\ Len(log) \in Nat /\ count = Len(log)
    BY DEF Pass, TypeInv, TypeOK
  <1>3. \E S : old \in Seq(S) /\ pass \in Seq(S)
    <2>1. \E S : ScanTS(writeOff, MaxData) \in Seq(S)
      BY OldSegment DEF TypeInv
    <2>2. PICK S : ScanTS(writeOff, MaxData) \in Seq(S)
      BY <2>1
    <2>3. \A q \in Seq(S) : q \in Seq(S \union Nat)
      OBVIOUS
    <2>4. \A q \in Seq(Nat) : q \in Seq(S \union Nat)
      OBVIOUS
    <2>5. old \in Seq(S \union Nat) /\ pass \in Seq(S \union Nat)
      BY <1>1, <1>2, <2>2, <2>3, <2>4
    <2> QED
      BY <2>5
  <1> SUFFICES ASSUME NEW n \in 1 .. Len(Scan(0, writeOff))
               PROVE  ReadLatest(n) = LastN(log, n)
    BY DEF LatestExact
  <1>4. n \in 1 .. Len(Pass) /\ n \in 1 .. Len(log) /\ count # 0
    BY <1>1, <1>2
  <1>5. ReadLatest(n) = LastN(old \o pass, n)
    BY <1>4 DEF ReadLatest
  <1>6. LastN(old \o pass, n) = LastN(pass, n)
    <2> HIDE DEF old, pass
    <2> QED
      BY <1>2, <1>3, <1>4, LastNOfConcat
  <1>7. LastN(Pass, n) = [i \in 1 .. n |-> Pass[Len(Pass) - n + i]]
    BY <1>1, <1>4, LastNIs
  <1>8. LastN(log, n) = [i \in 1 .. n |-> log[Len(log) - n + i]]
    BY <1>2, <1>4, LastNIs
  <1>9. \A i \in 1 .. n : Pass[Len(Pass) - n + i] = log[Len(log) - n + i]
    <2> SUFFICES ASSUME NEW i \in 1 .. n
                 PROVE  Pass[Len(Pass) - n + i] = log[Len(log) - n + i]
      OBVIOUS
    <2> DEFINE k == Len(Pass) - n + i
    <2>1. k \in 1 .. Len(Pass) /\ Len(log) - Len(Pass) + k = Len(log) - n + i
      BY <1>1, <1>2, <1>4
    <2> QED
      BY <1>1, <2>1
  <1> QED
    BY <1>2, <1>5, <1>6, <1>7, <1>8, <1>9

(* ReadLatest(n) returns the n records written last, in their order,        *)
(* whatever the sizes, the failures and the restarts, as long as the        *)
(* current pass has n records: what warmLatestCache relies on at startup.   *)
THEOREM LatestRead ==
    ASSUME MagicLen # MagicField, \A d \in ClockSteps : d > 0
    PROVE  Spec => []LatestExact
  <1>1. Init => PassInv
    BY DEF Init, PassInv, CurrentPassWhole
  <1>2. TypeInv /\ PassInv /\ [Next]_vars => PassInv'
    BY PassStep
  <1>3. TypeInv /\ TypeInv' /\ PassInv /\ ScanInv /\ [Next]_vars => ScanInv'
    BY ScanStep
  <1>4. TypeInv /\ PassInv /\ ScanInv => LatestExact
    BY LatestIsExact DEF PassInv
  <1> QED
    BY <1>1, <1>2, <1>3, <1>4, TypeInit, TypeStep, ScanInit, PTL DEF Spec
-----------------------------------------------------------------------------
(* The current pass is a log.                                              *)

LEMMA Suffixes ==
    ASSUME NEW s \in Seq(Nat)
    PROVE  PassLog!Suffix(s, 0) = s /\ PassLog!Suffix(s, Len(s)) = <<>>
  <1>1. Len(s) \in Nat
    OBVIOUS
  <1>2. SubSeq(s, 1, Len(s)) = s
    OBVIOUS
  <1>3. SubSeq(s, Len(s) + 1, Len(s)) = <<>>
    BY <1>1
  <1> QED
    BY <1>2, <1>3 DEF PassLog!Suffix

(* Adding a record to what is left of the pass.                            *)
LEMMA CommitIsAppend ==
    ASSUME TypeInv, TypeOK', PassInv, ScanInv, NEW ts \in 1 .. MaxClock,
           NEW len \in RecLens, len <= MaxData, ts > clock,
           file' = FileAfter(ts, len, len), Commit(ts, len)
    PROVE  PassLog!Append1(ts)
  <1>1. /\ TypeOK /\ CurrentPassWhole /\ LensOK /\ ts \in Nat
        /\ writeOff' = Start(len) + len
    BY ClockAssumption DEF TypeInv, PassInv, ScanInv, Commit, EndOfRecord
  <1>2. Pass' = Append(IF Wraps(len) THEN <<>> ELSE Pass, ts)
    BY <1>1, CommitPass
  <1>3. /\ Pass \in Seq(Nat) /\ Len(Pass) \in Nat /\ Len(Pass) <= MaxData
        /\ Len(Pass) <= Len(log) /\ Len(log) \in Nat
        /\ clock \in Nat /\ log \in Seq(Nat)
    <2>1. Pass \in Seq(Nat)
      BY <1>1, PassScan
    <2>2. Len(Pass) <= writeOff /\ writeOff \in Nat /\ writeOff <= MaxData /\ MaxData \in Nat
      BY <1>1, RegionAssumption DEF ScanInv, TypeOK
    <2>3. Len(Pass) \in Nat
      BY <2>1
    <2>4. log \in Seq(Nat) /\ Len(log) \in Nat /\ clock \in Nat
      BY <1>1 DEF TypeOK
    <2> QED
      BY <2>1, <2>2, <2>3, <2>4 DEF ScanInv
  <1>4. Pass # <<>> => Pass[Len(Pass)] < ts
    <2> SUFFICES ASSUME Pass # <<>> PROVE Pass[Len(Pass)] < ts
      OBVIOUS
    <2>1. Len(Pass) \in 1 .. Len(Pass)
      BY <1>3
    <2>2. Pass[Len(Pass)] = log[Len(log) - Len(Pass) + Len(Pass)]
      BY <2>1 DEF ScanInv
    <2>3. Len(log) - Len(Pass) + Len(Pass) = Len(log) /\ Len(log) \in 1 .. Len(log)
      BY <1>3, <2>1
    <2>4. log[Len(log)] <= clock
      BY <2>3 DEF ScanInv
    <2>5. log[Len(log)] \in Nat
      BY <1>3, <2>3
    <2> QED
      BY <1>1, <1>3, <2>2, <2>3, <2>4, <2>5
  <1>5. \E n \in 0 .. Len(Pass) :
            n <= MaxData /\ Pass' = Append(PassLog!Suffix(Pass, n), ts)
    <2>1. CASE Wraps(len)
      <3>1. Len(Pass) \in 0 .. Len(Pass)
        BY <1>3
      <3> QED
        BY <1>2, <1>3, <2>1, <3>1, Suffixes
    <2>2. CASE ~Wraps(len)
      <3>1. 0 \in 0 .. Len(Pass) /\ 0 <= MaxData
        BY <1>3, RegionAssumption
      <3> QED
        BY <1>2, <1>3, <2>2, <3>1, Suffixes
    <2> QED
      BY <2>1, <2>2
  <1> QED
    BY <1>4, <1>5 DEF PassLog!Append1, Pass

(* Losing the whole pass.                                                  *)
LEMMA EmptiedPass ==
    ASSUME Pass \in Seq(Nat), Pass' = <<>>
    PROVE  PassLog!Lose \/ Pass' = Pass
  <1>1. CASE Pass = <<>>
    BY <1>1
  <1>2. CASE Pass # <<>>
    <2>1. Len(Pass) \in 1 .. Len(Pass)
      BY <1>2
    <2>2. Pass' = PassLog!Suffix(Pass, Len(Pass))
      BY Suffixes
    <2> QED
      BY <2>1, <2>2 DEF PassLog!Lose, Pass
  <1> QED
    BY <1>1, <1>2

LEMMA PassLogStep ==
    ASSUME MagicLen # MagicField, \A d \in ClockSteps : d > 0,
           TypeInv, TypeInv', PassInv, ScanInv, [Next]_vars
    PROVE  [PassLog!Next]_(ScanTS(0, writeOff))
  <1> USE DEF TypeInv
  <1>0. Pass \in Seq(Nat)
    BY PassScan DEF PassInv, ScanInv
  <1> SUFFICES PassLog!Next \/ Pass' = Pass
    BY DEF Pass
  <1>1. ASSUME NEW ts \in 1 .. MaxClock, Stamp(ts)
        PROVE  ts \in Nat /\ ts > clock
    BY <1>1, ClockAssumption DEF Stamp, TypeOK
  <1>2. ASSUME NEW ts \in 1 .. MaxClock, NEW len \in RecLens,
               Write(ts, len) \/ HeaderFails(ts, len)
        PROVE  PassLog!Next
    <2>1. /\ Stamp(ts) /\ len <= MaxData /\ Commit(ts, len)
          /\ file' = FileAfter(ts, len, len)
      BY <1>2 DEF Write, HeaderFails
    <2>2. PassLog!Append1(ts)
      BY <1>1, <2>1, CommitIsAppend
    <2> QED
      BY <2>2 DEF PassLog!Next
  <1>3. ASSUME NEW ts \in 1 .. MaxClock, NEW len \in RecLens,
               NEW j \in 0 .. len - 1, WriteFails(ts, len, j)
        PROVE  PassLog!Next \/ Pass' = Pass
    <2>1. /\ len <= MaxData /\ file' = FileAfter(ts, len, j) /\ writeOff' = Start(len)
      BY <1>3 DEF WriteFails
    <2>2. j \in 0 .. len /\ ts \in Nat
      BY RegionAssumption, ClockAssumption
    <2>3. Pass' = IF Wraps(len) THEN <<>> ELSE Pass
      BY <2>1, <2>2, FailurePass DEF PassInv, ScanInv
    <2> QED
      BY <1>0, <2>3, EmptiedPass DEF PassLog!Next
  <1>4. ASSUME UNCHANGED <<writeOff, file>>
        PROVE  Pass' = Pass
    BY <1>4 DEF Pass, ScanTS, Scan, RecLenAt
  <1>5. CASE Flush
    BY <1>4, <1>5 DEF Flush, memory
  <1>6. ASSUME NEW h, OpenTier(h) PROVE PassLog!Next \/ Pass' = Pass
    <2>1. writeOff' = 0
      BY <1>6 DEF OpenTier, HeaderAccepted, Reinitialise
    <2>2. Pass' = <<>>
      BY <2>1, NoPass
    <2> QED
      BY <1>0, <2>2, EmptiedPass DEF PassLog!Next
  <1>7. CASE Restart \/ Crash
    BY <1>6, <1>7 DEF Restart, Crash
  <1>8. CASE UNCHANGED vars
    BY <1>4, <1>8 DEF vars, memory
  <1> QED
    BY <1>2, <1>3, <1>5, <1>7, <1>8 DEF Next

LEMMA PassLogInit == Init => PassLog!Init
  <1> SUFFICES ASSUME Init PROVE PassLog!Init
    OBVIOUS
  <1>1. ScanInv /\ TypeOK /\ CurrentPassWhole /\ writeOff = 0
    BY ScanInit, TypeInit DEF TypeInv, Init, CurrentPassWhole
  <1>2. Pass \in Seq(Nat) /\ Len(Pass) <= 0
    BY <1>1, PassScan DEF ScanInv
  <1>3. Len(Pass) \in Nat
    BY <1>2
  <1>4. Pass = <<>>
    BY <1>2, <1>3
  <1> QED
    BY <1>4 DEF PassLog!Init, Pass

(* A tier implements the log that a reader may take it for: whatever the    *)
(* sizes, failures and restarts, each step of the tier either leaves what   *)
(* a scan of the current pass returns as it is, or adds one newer record at *)
(* its end after dropping some at its beginning, or only drops some.        *)
THEOREM PassRefinesLog ==
    ASSUME MagicLen # MagicField, \A d \in ClockSteps : d > 0
    PROVE  Spec => PassIsLog
  <1>1. Init => PassInv
    BY DEF Init, PassInv, CurrentPassWhole
  <1>2. TypeInv /\ PassInv /\ [Next]_vars => PassInv'
    BY PassStep
  <1>3. TypeInv /\ TypeInv' /\ PassInv /\ ScanInv /\ [Next]_vars => ScanInv'
    BY ScanStep
  <1>4. TypeInv /\ TypeInv' /\ PassInv /\ ScanInv /\ [Next]_vars
            => [PassLog!Next]_(ScanTS(0, writeOff))
    BY PassLogStep
  <1> QED
    BY <1>1, <1>2, <1>3, <1>4, TypeInit, TypeStep, ScanInit, PassLogInit, PTL
       DEF Spec, PassIsLog, PassLog!Spec
-----------------------------------------------------------------------------
(* Windows that start in the current pass.                                 *)

Window(s, from, to) == {i \in 1 .. Len(s) : from <= s[i] /\ s[i] <= to}

(* In a sequence in increasing order, a window is a run of places.         *)
LEMMA WindowRun ==
    ASSUME NEW s \in Seq(Nat), NEW from \in Nat, NEW to \in Nat,
           \A i, k \in 1 .. Len(s) : i < k => s[i] < s[k]
    PROVE  \E a \in 1 .. Len(s) + 1, b \in 0 .. Len(s) :
               a <= b + 1 /\ Window(s, from, to) = a .. b
  <1> DEFINE n == Len(s)
             W == Window(s, from, to)
  <1>1. n \in Nat /\ \A i \in 1 .. n : s[i] \in Nat
    OBVIOUS
  <1>2. W \subseteq 1 .. n /\ \A i \in 1 .. n : i \in W <=> from <= s[i] /\ s[i] <= to
    BY DEF Window
  <1>3. \A i, k \in 1 .. n : i < k => s[i] < s[k]
    OBVIOUS
  <1> SUFFICES \E a \in 1 .. n + 1, b \in 0 .. n : a <= b + 1 /\ W = a .. b
    OBVIOUS
  <1> HIDE DEF n, W
  <1>4. CASE W = {}
    <2>1. 1 \in 1 .. n + 1 /\ 0 \in 0 .. n /\ W = 1 .. 0 /\ 1 <= 0 + 1
      BY <1>1, <1>4
    <2> QED
      BY <2>1
  <1>5. CASE W # {}
    <2>1. W \in SUBSET Nat /\ W \in SUBSET (0 .. n)
      BY <1>1, <1>2
    <2>2. PICK a \in W : \A k \in W : a <= k
      BY <1>5, <2>1, LeastOf
    <2>3. PICK b \in W : \A k \in W : k <= b
      BY <1>1, <1>5, <2>1, GreatestOf
    <2>4. /\ a \in 1 .. n /\ b \in 1 .. n /\ a <= b
          /\ from <= s[a] /\ s[b] <= to
      BY <1>2, <2>2, <2>3
    <2>5. ASSUME NEW i \in a .. b PROVE i \in W
      <3>1. i \in 1 .. n /\ s[i] \in Nat /\ s[a] \in Nat /\ s[b] \in Nat
        BY <1>1, <2>4
      <3>2. (i = a \/ s[a] < s[i]) /\ (i = b \/ s[i] < s[b])
        BY <1>3, <2>4, <3>1
      <3>3. from <= s[i] /\ s[i] <= to
        BY <2>4, <3>1, <3>2
      <3> QED
        BY <1>2, <3>1, <3>3
    <2>6. \A i \in W : i \in a .. b
      BY <1>1, <1>2, <2>2, <2>3, <2>4
    <2>7. W = a .. b
      BY <2>5, <2>6
    <2>8. a \in 1 .. n + 1 /\ b \in 0 .. n /\ a <= b + 1
      BY <1>1, <2>4
    <2> QED
      BY <2>7, <2>8
  <1> QED
    BY <1>4, <1>5

(* Reading up to the first record past the window loses none of it.        *)
LEMMA InWindowIs ==
    ASSUME NEW s \in Seq(Nat), NEW from \in Nat, NEW to \in Nat,
           \A i, k \in 1 .. Len(s) : i < k => s[i] < s[k]
    PROVE  InWindow(s, from, to) = Kept(s, Window(s, from, to))
  <1> DEFINE K == {i \in DOMAIN s : s[i] >= from /\ \A j \in 1 .. i : s[j] <= to}
  <1>1. \A i \in 1 .. Len(s) : s[i] \in Nat
    OBVIOUS
  <1>2. DOMAIN s = 1 .. Len(s) /\ Len(s) \in Nat
    OBVIOUS
  <1>3. ASSUME NEW i \in 1 .. Len(s), from <= s[i], s[i] <= to
        PROVE  i \in K
    <2>1. ASSUME NEW j \in 1 .. i PROVE s[j] <= to
      <3>1. j \in 1 .. Len(s) /\ (j = i \/ j < i)
        BY <1>2
      <3>2. j = i \/ s[j] < s[i]
        BY <3>1
      <3> QED
        BY <1>1, <1>3, <3>1, <3>2
    <2>2. s[i] >= from
      BY <1>1, <1>3
    <2> QED
      BY <1>2, <2>1, <2>2
  <1>4. ASSUME NEW i \in K PROVE i \in 1 .. Len(s) /\ from <= s[i] /\ s[i] <= to
    <2>1. i \in 1 .. Len(s) /\ s[i] >= from /\ \A j \in 1 .. i : s[j] <= to
      BY <1>2
    <2>2. i \in 1 .. i
      BY <1>2, <2>1
    <2> QED
      BY <1>1, <2>1, <2>2
  <1> HIDE DEF K
  <1>5. K = Window(s, from, to)
    BY <1>3, <1>4 DEF Window
  <1> QED
    BY <1>5 DEF InWindow, K

(* When the window starts after the records that s lacks, it holds the same *)
(* of s and of t, which ends in s.                                         *)
LEMMA SameWindow ==
    ASSUME NEW s \in Seq(Nat), NEW t \in Seq(Nat), NEW from \in Nat, NEW to \in Nat,
           Len(s) <= Len(t),
           \A i \in 1 .. Len(s) : s[i] = t[Len(t) - Len(s) + i],
           \A i \in 1 .. Len(t) - Len(s) : t[i] < from,
           \A i, k \in 1 .. Len(s) : i < k => s[i] < s[k]
    PROVE  Kept(s, Window(s, from, to)) = Kept(t, Window(t, from, to))
  <1> DEFINE d == Len(t) - Len(s)
  <1>1. /\ Len(s) \in Nat /\ Len(t) \in Nat /\ d \in Nat /\ Len(t) = d + Len(s)
        /\ \A i \in 1 .. Len(t) : t[i] \in Nat
    OBVIOUS
  <1>2. PICK a \in 1 .. Len(s) + 1, b \in 0 .. Len(s) :
            a <= b + 1 /\ Window(s, from, to) = a .. b
    BY WindowRun
  <1>s. /\ \A i \in 1 .. Len(s) : s[i] = t[d + i]
        /\ \A i \in 1 .. d : t[i] < from
    OBVIOUS
  <1> HIDE DEF d
  <1>3. Window(t, from, to) = d + a .. d + b
    <2>1. ASSUME NEW i \in Window(t, from, to) PROVE i \in d + a .. d + b
      <3>1. i \in 1 .. Len(t) /\ from <= t[i] /\ t[i] <= to
        BY <2>1 DEF Window
      <3>2. ~(i <= d)
        BY <1>1, <1>s, <3>1
      <3>3. i - d \in 1 .. Len(s) /\ d + (i - d) = i
        BY <1>1, <3>1, <3>2
      <3>4. s[i - d] = t[i]
        BY <1>s, <3>3
      <3>5. i - d \in Window(s, from, to)
        BY <3>1, <3>3, <3>4 DEF Window
      <3>6. i - d \in a .. b
        BY <1>2, <3>5
      <3> QED
        BY <1>1, <3>1, <3>6
    <2>2. ASSUME NEW i \in d + a .. d + b PROVE i \in Window(t, from, to)
      <3>1. i - d \in a .. b /\ d + (i - d) = i
        BY <1>1
      <3>2. i - d \in 1 .. Len(s) /\ from <= s[i - d] /\ s[i - d] <= to
        BY <1>2, <3>1 DEF Window
      <3>3. t[i] = s[i - d]
        BY <1>s, <3>1, <3>2
      <3>4. i \in 1 .. Len(t)
        BY <1>1, <3>2
      <3> QED
        BY <3>2, <3>3, <3>4 DEF Window
    <2> QED
      BY <2>1, <2>2
  <1>4. /\ d + a \in 1 .. Len(t) + 1 /\ d + b \in 0 .. Len(t)
        /\ d + a <= (d + b) + 1
    BY <1>1, <1>2
  <1> DEFINE m  == b - a + 1
             ks == Kept(s, a .. b)
             kt == Kept(t, d + a .. d + b)
  <1>5. /\ ks \in Seq(Nat) /\ Len(ks) = m
        /\ \A j \in 1 .. m : ks[j] = s[a + j - 1]
    BY <1>2, KeptType, KeptRun
  <1>6. /\ kt \in Seq(Nat) /\ Len(kt) = (d + b) - (d + a) + 1
        /\ \A j \in 1 .. (d + b) - (d + a) + 1 : kt[j] = t[(d + a) + j - 1]
    BY <1>4, KeptType, KeptRun
  <1>7. (d + b) - (d + a) + 1 = m
    BY <1>1, <1>2
  <1> HIDE DEF ks, kt, m
  <1>8. \A j \in 1 .. m : ks[j] = kt[j]
    <2> SUFFICES ASSUME NEW j \in 1 .. m PROVE ks[j] = kt[j]
      OBVIOUS
    <2>1. a + j - 1 \in 1 .. Len(s) /\ d + (a + j - 1) = (d + a) + j - 1
      BY <1>1, <1>2 DEF m
    <2>2. s[a + j - 1] = t[(d + a) + j - 1]
      BY <1>s, <2>1
    <2> QED
      BY <1>5, <1>6, <1>7, <2>2
  <1>9. ks = kt
    BY <1>5, <1>6, <1>7, <1>8, SeqEqual
  <1> QED
    BY <1>2, <1>3, <1>9 DEF ks, kt

(* The previous pass is skipped only when the window starts in this one.   *)
LEMMA SkipIsSafe ==
    ASSUME TypeOK, LensOK, CurrentPassWhole, NEW from \in Nat, SkipsOldPass(from)
    PROVE  1 \in 1 .. Len(Pass) /\ Pass[1] <= from
  <1>1. /\ writeOff \in 0 .. MaxData /\ writeOff \in Nat /\ 0 \in 0 .. writeOff - 1
        /\ 0 \in 0 .. MaxData /\ PrefixLen \in Nat \ {0} /\ MaxData \in Nat
    BY RegionAssumption DEF TypeOK, SkipsOldPass
  <1>2. file[0].pos = 0
    BY <1>1, PassBoundary DEF Boundary
  <1> DEFINE n == file[0].len
  <1>3. /\ n \in Nat /\ PrefixLen < n /\ 0 + n \in 0 .. writeOff
        /\ \A p \in 0 .. n - 1 : file[0 + p] = [file[0] EXCEPT !.pos = p]
        /\ RecLenAt(file, 0) = n /\ ~Stops(file, 0, writeOff)
    BY <1>1, <1>2, ScanAtRecord
  <1> HIDE DEF n
  <1>4. file[0 + PrefixLen].pos = PrefixLen
    <2>1. PrefixLen \in 0 .. n - 1 /\ 0 \in Offsets
      BY <1>1, <1>3 DEF Offsets
    <2>2. file[0 + PrefixLen] = [file[0] EXCEPT !.pos = PrefixLen] /\ file[0] \in Cell
      BY <1>3, <2>1 DEF TypeOK
    <2> QED
      BY <2>2 DEF Cell
  <1>5. TimestampsAt(file, fileEnd, 0) \in {{0}, {file[0 + PrefixLen].ts}}
    BY <1>1, <1>3, <1>4 DEF TimestampsAt, Garbled
  <1>6. \A t \in TimestampsAt(file, fileEnd, 0) : t # 0 /\ from >= t
    BY DEF SkipsOldPass
  <1>7. from >= file[0 + PrefixLen].ts
    <2>1. TimestampsAt(file, fileEnd, 0) # {0}
      BY <1>6
    <2> QED
      BY <1>5, <1>6, <2>1
  <1>8. PICK g : Scanner(g, writeOff)
    BY <1>1, ScannerIs
  <1>9. /\ Scan(0, writeOff) = g[0] /\ g[0] = <<0>> \o g[0 + n]
        /\ g[0 + n] \in Seq(0 .. MaxData)
    <2>1. 0 + n \in 0 .. MaxData
      BY <1>1, <1>3
    <2> QED
      BY <1>1, <1>3, <1>8, <2>1 DEF Scanner, Walk
  <1>10. Scan(0, writeOff)[1] = 0 /\ Len(Scan(0, writeOff)) >= 1
    <2> DEFINE q == g[0 + n]
    <2> HIDE DEF q
    <2>1. <<0>> \in Seq(0 .. MaxData) /\ q \in Seq(0 .. MaxData) /\ Len(q) \in Nat
      BY <1>1, <1>9 DEF q
    <2>2. Len(<<0>> \o q) = 1 + Len(q) /\ (<<0>> \o q)[1] = 0
      BY <2>1
    <2> QED
      BY <1>9, <2>1, <2>2 DEF q
  <1>11. /\ Pass \in Seq(Nat) /\ Len(Pass) = Len(Scan(0, writeOff))
         /\ \A i \in 1 .. Len(Pass) : Pass[i] = file[Scan(0, writeOff)[i] + PrefixLen].ts
    BY PassScan
  <1>12. Len(Pass) \in Nat /\ 1 \in 1 .. Len(Pass)
    BY <1>10, <1>11
  <1>13. Pass[1] = file[0 + PrefixLen].ts /\ Pass[1] \in Nat
    BY <1>10, <1>11, <1>12
  <1> QED
    BY <1>7, <1>12, <1>13

LEMMA RecentIsExact ==
    ASSUME TypeInv, CurrentPassWhole, ScanInv
    PROVE  RecentRangeExact
  <1> SUFFICES ASSUME NEW from \in 1 .. MaxClock, NEW to \in 1 .. MaxClock,
                      count > 0, SkipsOldPass(from) \/ ~wrapped
               PROVE  ReadRange(from, to) = InLog(log, from, to)
    BY DEF RecentRangeExact
  <1>1. /\ TypeOK /\ LensOK /\ from \in Nat /\ to \in Nat /\ count \in Nat
        /\ log \in Seq(Nat) /\ Len(log) \in Nat
    BY ClockAssumption DEF TypeInv, TypeOK, ScanInv
  <1>2. /\ Pass \in Seq(Nat) /\ Len(Pass) \in Nat /\ Len(Pass) <= Len(log)
        /\ \A i \in 1 .. Len(Pass) : Pass[i] = log[Len(log) - Len(Pass) + i]
        /\ \A i, k \in 1 .. Len(log) : i < k => log[i] < log[k]
    <2>1. Pass \in Seq(Nat)
      BY <1>1, PassScan
    <2>2. Len(Pass) \in Nat
      BY <2>1
    <2> QED
      BY <2>1, <2>2 DEF ScanInv
  <1>3. ASSUME NEW i \in 1 .. Len(Pass), NEW k \in 1 .. Len(Pass), i < k
        PROVE  Pass[i] < Pass[k]
    <2> DEFINE d == Len(log) - Len(Pass)
    <2>0. Len(log) \in Nat /\ Len(Pass) \in Nat /\ Len(Pass) <= Len(log)
      BY ONLY <1>1, <1>2
    <2>1. d + i \in 1 .. Len(log) /\ d + k \in 1 .. Len(log) /\ d + i < d + k
      BY ONLY <2>0, <1>3, i \in 1 .. Len(Pass), k \in 1 .. Len(Pass)
    <2>2. Pass[i] = log[d + i] /\ Pass[k] = log[d + k]
      BY <1>2
    <2> QED
      BY <1>2, <2>1, <2>2
  <1>4. ASSUME NEW i \in 1 .. Len(log) - Len(Pass)
        PROVE  log[i] < from
    <2>1. CASE ~wrapped
      <3>1. Len(Pass) = Len(log)
        BY <2>1 DEF ScanInv
      <3> QED
        BY <1>1, <1>4, <3>1
    <2>2. CASE SkipsOldPass(from)
      <3>1. 1 \in 1 .. Len(Pass) /\ Pass[1] <= from
        BY <1>1, <2>2, SkipIsSafe
      <3> DEFINE f == Len(log) - Len(Pass) + 1
      <3>2. f \in 1 .. Len(log) /\ i \in 1 .. Len(log) /\ i < f
        BY <1>1, <1>2, <3>1
      <3>4. log[f] = Pass[1]
        BY <1>2, <3>1
      <3> HIDE DEF f
      <3>3. log[i] < log[f] /\ log[i] \in Nat /\ log[f] \in Nat
        BY <1>1, <1>2, <3>2
      <3> QED
        BY <1>1, <3>1, <3>3, <3>4
    <2> QED
      BY <2>1, <2>2
  <1>5. InWindow(Pass, from, to) = Kept(log, Window(log, from, to))
    <2>1. InWindow(Pass, from, to) = Kept(Pass, Window(Pass, from, to))
      BY <1>1, <1>2, <1>3, InWindowIs
    <2>2. Kept(Pass, Window(Pass, from, to)) = Kept(log, Window(log, from, to))
      BY <1>1, <1>2, <1>3, <1>4, SameWindow
    <2> QED
      BY <2>1, <2>2
  <1>6. InLog(log, from, to) = Kept(log, Window(log, from, to))
    <2>1. {i \in DOMAIN log : from <= log[i] /\ log[i] <= to} = Window(log, from, to)
      BY <1>1 DEF Window
    <2> QED
      BY <2>1 DEF InLog
  <1>7. ReadRange(from, to) = <<>> \o InWindow(Pass, from, to)
    <2>1. count # 0 /\ ~(wrapped /\ ~SkipsOldPass(from))
      BY <1>1
    <2>2. ReadRange(from, to) = <<>> \o InWindow(ScanTS(0, writeOff), from, to)
      BY <2>1, Zenon DEF ReadRange
    <2> QED
      BY <2>2 DEF Pass
  <1>8. Kept(log, Window(log, from, to)) \in Seq(Nat)
    BY <1>1, KeptType
  <1> DEFINE kept == Kept(log, Window(log, from, to))
  <1> HIDE DEF kept
  <1>9. <<>> \o kept = kept
    BY <1>8, ConcatEmptySeq DEF kept
  <1> QED
    BY <1>5, <1>6, <1>7, <1>9 DEF kept

(* A window that starts within the current pass gets exactly the records    *)
(* that were written in it, whatever the sizes, the failures and the        *)
(* restarts: the previous pass is never skipped when it has some of them.   *)
THEOREM RecentRead ==
    ASSUME MagicLen # MagicField, \A d \in ClockSteps : d > 0
    PROVE  Spec => []RecentRangeExact
  <1>1. Init => PassInv
    BY DEF Init, PassInv, CurrentPassWhole
  <1>2. TypeInv /\ PassInv /\ [Next]_vars => PassInv'
    BY PassStep
  <1>3. TypeInv /\ TypeInv' /\ PassInv /\ ScanInv /\ [Next]_vars => ScanInv'
    BY ScanStep
  <1>4. TypeInv /\ PassInv /\ ScanInv => RecentRangeExact
    BY RecentIsExact DEF PassInv
  <1> QED
    BY <1>1, <1>2, <1>3, <1>4, TypeInit, TypeStep, ScanInit, PTL DEF Spec
-----------------------------------------------------------------------------
(* A ring whose records all have the same length.                          *)

(* Where slot number i begins. *)
Slot(len, i) == i * len

LEMMA SlotAt ==
    ASSUME NEW len \in Nat \ {0}
    PROVE  /\ Slot(len, 0) = 0
           /\ \A i \in Nat : Slot(len, i) \in Nat
           /\ \A i, j \in Nat : j = i + 1 => Slot(len, j) = Slot(len, i) + len
           /\ \A i, j \in Nat : i < j => Slot(len, i) + len <= Slot(len, j)
           /\ \A i \in Nat : i <= Capacity(len) => Slot(len, i) <= MaxData
           /\ Capacity(len) \in Nat
           /\ Slot(len, Capacity(len)) \in Nat /\ Slot(len, Capacity(len)) <= MaxData
           /\ MaxData < Slot(len, Capacity(len)) + len
  <1>1. ASSUME NEW i \in Nat
        PROVE  Slot(len, i) \in Nat /\ Slot(len, i + 1) = Slot(len, i) + len
    BY DEF Slot
  <1>2. ASSUME NEW i \in Nat, NEW j \in Nat, i < j
        PROVE  Slot(len, i) + len <= Slot(len, j)
    <2>1. (i + 1) * len <= j * len
      BY <1>2
    <2> QED
      BY <1>1, <2>1 DEF Slot
  <1>3. MaxData \in Nat
    BY RegionAssumption
  <1>4. /\ Capacity(len) \in Nat
        /\ Slot(len, Capacity(len)) <= MaxData
        /\ MaxData < Slot(len, Capacity(len)) + len
    BY <1>3 DEF Capacity, Slot
  <1>5. ASSUME NEW i \in Nat, i <= Capacity(len)
        PROVE  Slot(len, i) <= MaxData
    <2>1. CASE i = Capacity(len)
      BY <1>4, <2>1
    <2>2. CASE i < Capacity(len)
      <3>1. Slot(len, i) + len <= Slot(len, Capacity(len))
        BY <1>2, <1>4, <2>2
      <3> QED
        BY <1>1, <1>3, <1>4, <3>1
    <2> QED
      BY <1>4, <1>5, <2>1, <2>2
  <1>6. Slot(len, 0) = 0
    BY DEF Slot
  <1> QED
    BY <1>1, <1>2, <1>4, <1>5, <1>6

(* Slot i of region f holds the record with this timestamp. *)
Holds(f, len, i, ts) ==
    \A p \in 0 .. len - 1 : f[Slot(len, i) + p] = [ts |-> ts, len |-> len, pos |-> p]

(* The ring when the write offset is at slot p: the slots before it hold   *)
(* the last records of the log, and those behind it, once the ring is full, *)
(* the records before these.                                               *)
RingAt(len, p) ==
    /\ writeOff = Slot(len, p)
    /\ p <= Len(log)
    /\ ~wrapped => p = Len(log)
    /\ wrapped => p >= 1 /\ p + Capacity(len) <= Len(log)
    /\ \A i \in 0 .. p - 1 : Holds(file, len, i, log[Len(log) - p + 1 + i])
    /\ wrapped => \A i \in p .. Capacity(len) - 1 :
                      Holds(file, len, i, log[Len(log) - p - Capacity(len) + 1 + i])
    /\ \A o \in Offsets : o >= Slot(len, Capacity(len)) => file[o].len = 0

RingInv(len) == \E p \in 0 .. Capacity(len) : RingAt(len, p)

(* A record that is written goes to the slot at the write offset, or to the *)
(* first one.                                                              *)
LEMMA WriteKeepsRing ==
    ASSUME NEW len, RecLens = {len}, TypeOK, NEW p \in 0 .. Capacity(len), RingAt(len, p),
           len <= MaxData, NEW ts \in Nat, file' = FileAfter(ts, len, len),
           Commit(ts, len)
    PROVE  /\ Wraps(len) <=> p = Capacity(len)
           /\ Wraps(len) => Start(len) = 0 /\ RingAt(len, 1)' /\ 1 \in 1 .. Capacity(len)
           /\ ~Wraps(len) => /\ Start(len) = Slot(len, p) /\ RingAt(len, p + 1)'
                             /\ p + 1 \in 1 .. Capacity(len)
  <1> DEFINE cap == Capacity(len)
  <1> PICK q : q = IF Wraps(len) THEN 0 ELSE p
    OBVIOUS
  <1> PICK n : n = Len(log)
    OBVIOUS
  <1>1. /\ len \in Nat \ {0} /\ MaxData \in Nat
        /\ writeOff' = Start(len) + len
        /\ wrapped' = (wrapped \/ Wraps(len))
        /\ log' = Append(log, ts)
        /\ log \in Seq(Nat) /\ wrapped \in BOOLEAN
    BY RegionAssumption DEF Commit, EndOfRecord, TypeOK
  <1>2. /\ Slot(len, 0) = 0 /\ cap \in Nat /\ Slot(len, cap) \in Nat
        /\ MaxData < Slot(len, cap) + len /\ Slot(len, cap) <= MaxData
    BY <1>1, SlotAt
  <1>s. /\ \A i \in Nat : Slot(len, i) \in Nat
        /\ \A i, j \in Nat : j = i + 1 => Slot(len, j) = Slot(len, i) + len
    BY <1>1, SlotAt
  <1>t. \A i, j \in Nat : i < j => Slot(len, i) + len <= Slot(len, j)
    BY <1>1, SlotAt
  <1> HIDE DEF cap
  <1>3. p \in Nat /\ p <= cap /\ writeOff = Slot(len, p) /\ n \in Nat
    BY <1>1, <1>2 DEF cap, RingAt
  <1>4. Wraps(len) <=> p = cap
    <2>1. CASE p = cap
      BY <1>2, <1>3, <2>1 DEF Wraps
    <2>2. CASE p # cap
      <3>1. p < cap
        BY <1>2, <1>3, <2>2
      <3>2. Slot(len, p) + len <= Slot(len, cap) /\ Slot(len, cap) <= MaxData
        BY <1>2, <1>3, <1>t, <3>1
      <3>3. Slot(len, p) \in Nat /\ Slot(len, cap) \in Nat
        BY <1>2, <1>3, <1>s
      <3> QED
        BY <1>1, <1>3, <2>2, <3>2, <3>3 DEF Wraps
    <2> QED
      BY <2>1, <2>2
  <1>5. cap # 0
    <2>1. Slot(len, 1) = len
      BY <1>1, <1>2, <1>s
    <2> QED
      BY <1>1, <1>2
  <1>6. q \in 0 .. cap - 1 /\ q \in Nat /\ q < cap /\ Start(len) = Slot(len, q)
    <2>1. CASE Wraps(len)
      <3>1. q = 0 /\ Start(len) = 0
        BY <2>1 DEF Start
      <3> QED
        BY <1>2, <1>5, <3>1
    <2>2. CASE ~Wraps(len)
      <3>1. q = p /\ Start(len) = writeOff /\ p # cap
        BY <1>4, <2>2 DEF Start
      <3> QED
        BY <1>2, <1>3, <3>1
    <2> QED
      BY <2>1, <2>2
  <1>q. (Wraps(len) => q = 0) /\ (~Wraps(len) => q = p)
    OBVIOUS
  <1>7. writeOff' = Slot(len, q + 1)
    <2>1. q + 1 \in Nat /\ q \in Nat
      BY <1>6
    <2>2. Slot(len, q + 1) = Slot(len, q) + len
      BY <1>s, <2>1
    <2>3. writeOff' = Start(len) + len /\ Start(len) = Slot(len, q)
      BY <1>1, <1>6
    <2> QED
      BY <2>2, <2>3
  <1>c. Slot(len, q) \in Nat /\ Slot(len, cap) \in Nat /\ Slot(len, q) + len <= Slot(len, cap)
    BY <1>2, <1>6, <1>s, <1>t
  <1>8. ASSUME NEW i \in 0 .. cap - 1, NEW t, i # q, Holds(file, len, i, t)
        PROVE  Holds(file', len, i, t)
    <2> SUFFICES ASSUME NEW k \in 0 .. len - 1
                 PROVE  file'[Slot(len, i) + k] = [ts |-> t, len |-> len, pos |-> k]
      BY DEF Holds
    <2>0. len \in Nat /\ cap \in Nat
      BY <1>1, <1>2
    <2>a. i \in Nat /\ i < cap /\ k \in Nat /\ k < len
      BY <2>0
    <2>1. /\ i \in Nat /\ i < cap /\ k \in Nat /\ k < len
          /\ Slot(len, i) \in Nat /\ Slot(len, q) \in Nat /\ Slot(len, cap) \in Nat
      BY <1>c, <1>s, <2>a
    <2>2. Slot(len, i) + len <= Slot(len, cap) /\ Slot(len, cap) <= MaxData
      BY <1>2, <1>t, <2>1
    <2>3. Slot(len, i) + len <= Slot(len, q) \/ Slot(len, q) + len <= Slot(len, i)
      <3>1. i < q \/ q < i
        BY <1>6, <1>8, <2>1
      <3> QED
        BY <1>6, <1>t, <2>1, <3>1
    <2> PICK o : o = Slot(len, i) + k
      OBVIOUS
    <2>4. /\ o \in Offsets /\ o \notin Start(len) .. Start(len) + len - 1
          /\ o \notin SentinelCells(len)
      <3>a. MaxData \in Nat /\ len \in Nat /\ Start(len) = Slot(len, q)
        BY <1>1, <1>6
      <3>b. o \in Nat /\ o < MaxData
        BY <2>0, <2>1, <2>2, <3>a
      <3>c. o \notin Slot(len, q) .. Slot(len, q) + len - 1
        BY <2>0, <2>1, <2>3
      <3>1. o \in Offsets /\ o \notin Start(len) .. Start(len) + len - 1
        BY <3>a, <3>b, <3>c DEF Offsets
      <3>2. SentinelCells(len) # {} => writeOff = Slot(len, cap)
        BY <1>3, <1>4 DEF SentinelCells
      <3>3. o < Slot(len, cap) /\ o \in Nat
        BY <1>1, <2>1, <2>2
      <3>4. CASE SentinelCells(len) = {}
        BY <3>1, <3>4
      <3>5. CASE SentinelCells(len) # {}
        <4>1. SentinelCells(len) = writeOff .. writeOff + PrefixLen - 1
          BY <3>5 DEF SentinelCells
        <4> QED
          BY <2>1, <3>1, <3>2, <3>3, <3>5, <4>1, RegionAssumption
      <3> QED
        BY <3>4, <3>5
    <2>5. file'[o] = file[o]
      BY <2>4 DEF FileAfter
    <2> QED
      BY <1>8, <2>5 DEF Holds
  <1>9. Holds(file', len, q, ts)
    <2> SUFFICES ASSUME NEW k \in 0 .. len - 1
                 PROVE  file'[Slot(len, q) + k] = [ts |-> ts, len |-> len, pos |-> k]
      BY DEF Holds
    <2>0. len \in Nat
      BY <1>1
    <2>a. k \in Nat /\ k < len
      BY <2>0
    <2>1. /\ k \in Nat /\ k < len /\ Slot(len, q) \in Nat /\ Slot(len, cap) \in Nat
          /\ Slot(len, q) + len <= Slot(len, cap) /\ Slot(len, cap) <= MaxData
      BY <1>2, <1>c, <2>a
    <2> PICK o : o = Slot(len, q) + k
      OBVIOUS
    <2>2. o \in Offsets /\ o \in Start(len) .. Start(len) + len - 1 /\ o - Start(len) = k
      BY <1>1, <1>6, <2>1 DEF Offsets
    <2> QED
      BY <1>6, <2>2 DEF FileAfter
  <1>10. ASSUME NEW o \in Offsets, o >= Slot(len, cap)
         PROVE  file'[o].len = 0
    <2>1. Slot(len, q) + len <= Slot(len, cap) /\ Slot(len, q) \in Nat /\ Slot(len, cap) \in Nat
      BY <1>2, <1>6, <1>s, <1>t
    <2>2. o \in Nat
      BY <1>1 DEF Offsets
    <2>3. o \notin Start(len) .. Start(len) + len - 1
      BY <1>1, <1>6, <1>10, <2>1, <2>2
    <2>4. file'[o] = IF o \in SentinelCells(len) THEN Zero ELSE file[o]
      BY <2>3 DEF FileAfter
    <2> QED
      BY <1>10, <2>4 DEF RingAt, Zero, cap
  <1>11. /\ n + 1 \in Nat /\ Len(log') = n + 1 /\ log'[n + 1] = ts
         /\ \A i \in 1 .. n : log'[i] = log[i]
    BY <1>1, <1>3
  <1>12. /\ p <= n /\ (~wrapped => p = n) /\ (wrapped => p >= 1 /\ p + cap <= n)
         /\ \A i \in 0 .. p - 1 : Holds(file, len, i, log[n - p + 1 + i])
         /\ wrapped => \A i \in p .. cap - 1 : Holds(file, len, i, log[n - p - cap + 1 + i])
    BY DEF RingAt, cap
  <1>13. CASE ~Wraps(len)
    <2>1. q = p /\ p < cap /\ wrapped' = wrapped
      BY <1>q, <1>1, <1>2, <1>3, <1>4, <1>13
    <2>2. ASSUME NEW i \in 0 .. (p + 1) - 1
          PROVE  Holds(file', len, i, log'[(n + 1) - (p + 1) + 1 + i])
      <3>1. CASE i = p
        <4>1. (n + 1) - (p + 1) + 1 + i = n + 1
          BY <1>3, <3>1
        <4> QED
          BY <1>9, <1>11, <2>1, <3>1, <4>1
      <3>2. CASE i # p
        <4>1. i \in 0 .. p - 1 /\ i \in 0 .. cap - 1
          BY <1>3, <1>2, <3>2, <2>1
        <4>2. /\ n - p + 1 + i \in 1 .. n
              /\ (n + 1) - (p + 1) + 1 + i = n - p + 1 + i
          BY <1>3, <1>12, <4>1
        <4>3. Holds(file', len, i, log[n - p + 1 + i])
          BY <1>8, <1>12, <2>1, <3>2, <4>1
        <4> QED
          BY <1>11, <4>2, <4>3
      <3> QED
        BY <3>1, <3>2
    <2>3. ASSUME wrapped', NEW i \in p + 1 .. cap - 1
          PROVE  Holds(file', len, i, log'[(n + 1) - (p + 1) - cap + 1 + i])
      <3>1. i \in p .. cap - 1 /\ i \in 0 .. cap - 1 /\ i # p /\ i \in Nat
        BY <1>2, <1>3
      <3>2. /\ n - p - cap + 1 + i \in 1 .. n
            /\ (n + 1) - (p + 1) - cap + 1 + i = n - p - cap + 1 + i
        BY <1>2, <1>3, <1>12, <2>1, <2>3, <3>1
      <3>3. Holds(file', len, i, log[n - p - cap + 1 + i])
        BY <1>8, <1>12, <2>1, <2>3, <3>1
      <3> QED
        BY <1>11, <3>2, <3>3
    <2>4. /\ p + 1 <= n + 1 /\ (~wrapped' => p + 1 = n + 1)
          /\ (wrapped' => p + 1 >= 1 /\ p + 1 + cap <= n + 1)
      BY <1>2, <1>3, <1>12, <2>1
    <2>5. RingAt(len, p + 1)'
      BY <1>7, <1>10, <1>11, <2>1, <2>2, <2>3, <2>4 DEF RingAt, cap, Capacity
    <2>6. p + 1 \in 1 .. cap
      BY <1>2, <1>3, <2>1
    <2> QED
      BY <1>4, <1>6, <1>13, <2>1, <2>5, <2>6 DEF cap
  <1>14. CASE Wraps(len)
    <2>1. q = 0 /\ p = cap /\ wrapped' = TRUE
      BY <1>q, <1>1, <1>4, <1>14
    <2>2. ASSUME NEW i \in 0 .. 1 - 1
          PROVE  Holds(file', len, i, log'[(n + 1) - 1 + 1 + i])
      <3>1. i = 0 /\ (n + 1) - 1 + 1 + i = n + 1
        BY <1>3
      <3> QED
        BY <1>9, <1>11, <2>1, <3>1
    <2>3. ASSUME NEW i \in 1 .. cap - 1
          PROVE  Holds(file', len, i, log'[(n + 1) - 1 - cap + 1 + i])
      <3>1. i \in 0 .. p - 1 /\ i \in 0 .. cap - 1 /\ i # 0
        BY <1>2, <2>1
      <3>2. /\ n - p + 1 + i \in 1 .. n
            /\ (n + 1) - 1 - cap + 1 + i = n - p + 1 + i
        BY <1>2, <1>3, <1>12, <2>1, <3>1
      <3>3. Holds(file', len, i, log[n - p + 1 + i])
        BY <1>8, <1>12, <2>1, <3>1
      <3> QED
        BY <1>11, <3>2, <3>3
    <2>4. 1 <= n + 1 /\ 1 >= 1 /\ 1 + cap <= n + 1
      BY <1>2, <1>3, <1>12, <2>1
    <2>5. RingAt(len, 1)'
      <3>1. writeOff' = Slot(len, 1)
        BY <1>7, <2>1
      <3> QED
        BY <1>10, <1>11, <2>1, <2>2, <2>3, <2>4, <3>1 DEF RingAt, cap, Capacity
    <2>6. 1 \in 1 .. cap
      BY <1>2, <1>5
    <2> QED
      BY <1>2, <1>4, <1>6, <1>14, <2>1, <2>5, <2>6 DEF cap
  <1> QED
    BY <1>13, <1>14

(* A piece of a sequence: the m elements behind the first d.                *)
Piece(s, d, m) == [j \in 1 .. m |-> s[d + j]]

(* A scan of full slots finds their records, in the order of the slots.     *)
LEMMA UniformScan ==
    ASSUME TypeOK, NEW len \in Nat, PrefixLen < len, NEW e \in 0 .. MaxData,
           NEW a \in Nat, NEW b \in Nat, a <= b, Slot(len, b) <= e,
           Stops(file, Slot(len, b), e), NEW s, NEW x \in Int, NEW m, m = b - a,
           \A i \in a .. b - 1 : Holds(file, len, i, s[x - a + 1 + i])
    PROVE  ScanTS(Slot(len, a), e) = Piece(s, x, m)
  <1> PICK d : d = x - a + 1
    OBVIOUS
  <1>d. d \in Int /\ x = d + a - 1
    OBVIOUS
  <1>1. MaxData \in Nat /\ PrefixLen \in Nat \ {0} /\ len \in Nat \ {0} /\ e \in Nat /\ e <= MaxData
    BY RegionAssumption
  <1>s. /\ \A i \in Nat : Slot(len, i) \in Nat
        /\ \A i, j \in Nat : j = i + 1 => Slot(len, j) = Slot(len, i) + len
    BY <1>1, SlotAt
  <1>t. \A i, j \in Nat : i < j => Slot(len, i) + len <= Slot(len, j)
    BY <1>1, SlotAt
  <1>2. PICK g : Scanner(g, e)
    BY ScannerIs
  <1>g. /\ g \in [0 .. MaxData -> Seq(0 .. MaxData)]
        /\ \A o \in 0 .. MaxData :
               g[o] = IF Stops(file, o, e) THEN <<>> ELSE <<o>> \o g[o + RecLenAt(file, o)]
        /\ \A o \in 0 .. MaxData : Scan(o, e) = g[o]
    BY <1>2 DEF Scanner, Walk
  <1>3. ASSUME NEW i \in a .. b - 1
        PROVE  /\ Slot(len, i) \in 0 .. MaxData /\ i + 1 \in Nat /\ Slot(len, i + 1) \in 0 .. MaxData
               /\ g[Slot(len, i)] = <<Slot(len, i)>> \o g[Slot(len, i + 1)]
    <2>1. i \in Nat /\ i + 1 \in Nat /\ i < b /\ (i + 1 = b \/ i + 1 < b)
      OBVIOUS
    <2> PICK o : o = Slot(len, i)
      OBVIOUS
    <2>2. o \in Nat /\ Slot(len, i + 1) = o + len /\ o + len <= Slot(len, b) /\ Slot(len, b) \in Nat
      BY <1>s, <1>t, <2>1
    <2>3. o + len <= e
      BY <1>1, <2>2
    <2>4. ASSUME NEW p \in 0 .. PrefixLen - 1
          PROVE  file[o + p].len = len /\ file[o + p].pos = p
      <3>1. p \in 0 .. len - 1
        BY <1>1
      <3>2. file[o + p] = [ts |-> s[d + i], len |-> len, pos |-> p]
        BY <3>1 DEF Holds
      <3> QED
        BY <3>2
    <2>5. RecLenAt(file, o) = len
      <3>1. 0 \in 0 .. PrefixLen - 1 /\ o + 0 = o
        BY <1>1, <2>2
      <3>2. file[o].len = len
        BY <2>4, <3>1
      <3> QED
        BY <1>1, <2>4, <3>1, <3>2 DEF RecLenAt
    <2>6. ~Stops(file, o, e)
      BY <1>1, <2>2, <2>3, <2>5 DEF Stops, Garbled
    <2>7. o \in 0 .. MaxData /\ o + len \in 0 .. MaxData
      BY <1>1, <2>2, <2>3
    <2> QED
      BY <1>g, <2>1, <2>2, <2>5, <2>6, <2>7
  <1>4. Slot(len, b) \in 0 .. MaxData /\ g[Slot(len, b)] = <<>>
    <2>1. Slot(len, b) \in 0 .. MaxData
      BY <1>1, <1>s
    <2> QED
      BY <1>g, <2>1
  <1> DEFINE n == b - a
             Starts(k) == [j \in 1 .. k |-> Slot(len, b - k + j - 1)]
             Good == {k \in 0 .. n : g[Slot(len, b - k)] = Starts(k)}
  <1>n. n \in Nat
    OBVIOUS
  <1>5. 0 \in Good
    <2>1. b - 0 = b /\ 0 \in 0 .. n
      BY <1>n
    <2>2. Starts(0) = <<>>
      OBVIOUS
    <2> QED
      BY <1>4, <2>1, <2>2
  <1>6. ASSUME NEW k \in 1 .. n, k - 1 \in Good
        PROVE  k \in Good
    <2> PICK i : i = b - k
      OBVIOUS
    <2>1. i \in a .. b - 1 /\ b - (k - 1) = i + 1 /\ k - 1 \in Nat /\ k \in Nat /\ i \in Nat
      OBVIOUS
    <2>2. g[Slot(len, i)] = <<Slot(len, i)>> \o g[Slot(len, i + 1)]
      BY <1>3, <2>1
    <2>3. g[Slot(len, i + 1)] = Starts(k - 1)
      BY <1>6, <2>1
    <2>4. <<Slot(len, i)>> \o Starts(k - 1) = Starts(k)
      <3> DEFINE one == <<Slot(len, i)>>
                 rest == Starts(k - 1)
                 all == Starts(k)
      <3>1. /\ one \in Seq(Nat) /\ Len(one) = 1 /\ one[1] = Slot(len, i)
        BY <1>s, <2>1
      <3>2. /\ rest \in Seq(Nat) /\ Len(rest) = k - 1
            /\ \A j \in 1 .. k - 1 : rest[j] = Slot(len, b - (k - 1) + j - 1)
        <4>1. \A j \in 1 .. k - 1 : Slot(len, b - (k - 1) + j - 1) \in Nat
          <5> SUFFICES ASSUME NEW j \in 1 .. k - 1 PROVE Slot(len, b - (k - 1) + j - 1) \in Nat
            OBVIOUS
          <5>1. b - (k - 1) + j - 1 \in Nat
            BY <2>1
          <5> QED
            BY <1>s, <5>1
        <4> QED
          BY <2>1, <4>1
      <3>3. /\ all \in Seq(Nat) /\ Len(all) = k
            /\ \A j \in 1 .. k : all[j] = Slot(len, b - k + j - 1)
        <4>1. \A j \in 1 .. k : Slot(len, b - k + j - 1) \in Nat
          <5> SUFFICES ASSUME NEW j \in 1 .. k PROVE Slot(len, b - k + j - 1) \in Nat
            OBVIOUS
          <5>1. b - k + j - 1 \in Nat
            BY <2>1
          <5> QED
            BY <1>s, <5>1
        <4> QED
          BY <2>1, <4>1
      <3> HIDE DEF one, rest, all
      <3>4. /\ one \o rest \in Seq(Nat) /\ Len(one \o rest) = Len(one) + Len(rest)
            /\ \A j \in 1 .. Len(one) + Len(rest) :
                   (one \o rest)[j] = IF j <= Len(one) THEN one[j] ELSE rest[j - Len(one)]
        BY <3>1, <3>2, ConcatProperties
      <3>5. ASSUME NEW j \in 1 .. k PROVE (one \o rest)[j] = all[j]
        <4>0. j \in 1 .. Len(one) + Len(rest)
          BY <2>1, <3>1, <3>2
        <4>1. CASE j = 1
          <5>1. b - k + j - 1 = i
            BY <2>1, <4>1
          <5> QED
            BY <3>1, <3>3, <3>4, <4>0, <4>1, <5>1
        <4>2. CASE j # 1
          <5>1. j - 1 \in 1 .. k - 1 /\ b - (k - 1) + (j - 1) - 1 = b - k + j - 1 /\ ~(j <= 1)
            BY <2>1, <4>2
          <5> QED
            BY <3>1, <3>2, <3>3, <3>4, <4>0, <5>1
        <4> QED
          BY <4>1, <4>2
      <3> DEFINE cat == one \o rest
      <3>6. cat \in Seq(Nat) /\ Len(cat) = k
        BY <2>1, <3>1, <3>2, <3>4
      <3>7. \A j \in 1 .. k : cat[j] = all[j]
        BY <3>5
      <3> HIDE DEF cat
      <3>8. cat = all
        BY <3>3, <3>6, <3>7, SeqEqual
      <3> QED
        BY <3>8 DEF one, rest, all, cat
    <2>5. k \in 0 .. n
      BY <1>n
    <2> HIDE DEF Starts
    <2> QED
      BY <2>2, <2>3, <2>4, <2>5
  <1>7. Scan(Slot(len, a), e) = Starts(n)
    <2>1. n \in Good
      <3> HIDE DEF Good
      <3>1. \A k \in 0 .. n : k \in Good
        BY <1>n, <1>5, <1>6, UpTo
      <3> QED
        BY <1>n, <3>1
    <2>2. b - n = a
      OBVIOUS
    <2>3. Slot(len, a) \in 0 .. MaxData
      <3>1. CASE a = b
        BY <1>4, <3>1
      <3>2. CASE a # b
        <4>1. a \in a .. b - 1
          BY <3>2
        <4> QED
          BY <1>3, <4>1
      <3> QED
        BY <3>1, <3>2
    <2> HIDE DEF Starts, n
    <2> QED
      BY <1>g, <2>1, <2>2, <2>3
  <1>8. ASSUME NEW j \in 1 .. n
        PROVE  file[Starts(n)[j] + PrefixLen].ts = s[d + a - 1 + j]
    <2>1. Starts(n)[j] = Slot(len, b - n + j - 1) /\ b - n + j - 1 = a + j - 1
      BY <1>n
    <2>2. a + j - 1 \in a .. b - 1 /\ d + (a + j - 1) = d + a - 1 + j /\ PrefixLen \in 0 .. len - 1
      BY <1>1
    <2>3. Holds(file, len, a + j - 1, s[d + (a + j - 1)])
      BY <2>2
    <2>4. file[Slot(len, a + j - 1) + PrefixLen]
              = [ts |-> s[d + (a + j - 1)], len |-> len, pos |-> PrefixLen]
      BY <2>2, <2>3 DEF Holds
    <2> QED
      BY <2>1, <2>2, <2>4
  <1>9. DOMAIN Starts(n) = 1 .. n
    OBVIOUS
  <1>10. ScanTS(Slot(len, a), e) = [j \in 1 .. n |-> file[Starts(n)[j] + PrefixLen].ts]
    <2> HIDE DEF Starts
    <2> QED
      BY <1>7, <1>9 DEF ScanTS
  <1> HIDE DEF Starts
  <1>11. [j \in 1 .. n |-> file[Starts(n)[j] + PrefixLen].ts] = [j \in 1 .. n |-> s[d + a - 1 + j]]
    BY <1>8
  <1> QED
    BY <1>10, <1>11 DEF Piece

(* What the two scans of a reader find.                                     *)
LEMMA RingScans ==
    ASSUME NEW len, RecLens = {len}, TypeOK, NEW p \in 0 .. Capacity(len), RingAt(len, p)
    PROVE  /\ ScanTS(0, writeOff) = Piece(log, Len(log) - p, p)
           /\ wrapped => ScanTS(writeOff, MaxData)
                             = Piece(log, Len(log) - Capacity(len), Capacity(len) - p)
  <1> PICK n, cap : n = Len(log) /\ cap = Capacity(len)
    OBVIOUS
  <1>1. /\ len \in Nat \ {0} /\ PrefixLen < len /\ MaxData \in Nat
        /\ PrefixLen \in Nat \ {0} /\ n \in Nat
    BY RegionAssumption DEF TypeOK
  <1>2. /\ Slot(len, 0) = 0 /\ cap \in Nat /\ Slot(len, cap) \in Nat
        /\ Slot(len, cap) <= MaxData
        /\ Slot(len, p) \in Nat /\ Slot(len, p) <= MaxData /\ p \in Nat /\ p <= cap
    <2>1. cap \in Nat
      BY <1>1, SlotAt
    <2>2. p \in Nat /\ p <= cap
      BY <2>1
    <2> QED
      BY <1>1, <2>1, <2>2, SlotAt
  <1>3. /\ writeOff = Slot(len, p)
        /\ \A i \in 0 .. p - 1 : Holds(file, len, i, log[n - p + 1 + i])
        /\ wrapped => \A i \in p .. cap - 1 : Holds(file, len, i, log[n - p - cap + 1 + i])
        /\ \A o \in Offsets : o >= Slot(len, cap) => file[o].len = 0
    BY DEF RingAt
  <1>4. ScanTS(0, writeOff) = Piece(log, n - p, p)
    <2>1. Stops(file, Slot(len, p), Slot(len, p))
      BY <1>1, <1>2 DEF Stops
    <2> PICK x, e : x = n - p /\ e = Slot(len, p)
      OBVIOUS
    <2>2. /\ e \in 0 .. MaxData /\ x \in Int /\ 0 \in Nat /\ 0 <= p /\ len \in Nat
          /\ Slot(len, p) <= e
      BY <1>1, <1>2
    <2>5. ASSUME NEW i \in 0 .. p - 1
          PROVE  Holds(file, len, i, log[x - 0 + 1 + i])
      <3>1. x - 0 + 1 + i = n - p + 1 + i
        BY <1>1, <1>2
      <3> QED
        BY <1>3, <3>1
    <2>6. p \in Nat /\ PrefixLen < len /\ Stops(file, Slot(len, p), e)
      BY <1>1, <1>2, <2>1
    <2>4. p = p - 0
      BY <1>1, <1>2
    <2>3. ScanTS(Slot(len, 0), e) = Piece(log, x, p)
      BY ONLY TypeOK, <2>2, <2>4, <2>5, <2>6, UniformScan
    <2> QED
      BY <1>2, <1>3, <2>3, <2>4
  <1>5. ASSUME wrapped
        PROVE  ScanTS(writeOff, MaxData) = Piece(log, n - cap, cap - p)
    <2>1. Stops(file, Slot(len, cap), MaxData)
      <3> SUFFICES ASSUME ~(MaxData - Slot(len, cap) < PrefixLen)
                   PROVE  RecLenAt(file, Slot(len, cap)) = 0
        BY DEF Stops
      <3>1. \A q \in 0 .. PrefixLen - 1 : file[Slot(len, cap) + q].len = 0
        <4> SUFFICES ASSUME NEW q \in 0 .. PrefixLen - 1
                     PROVE  file[Slot(len, cap) + q].len = 0
          OBVIOUS
        <4>1. Slot(len, cap) + q \in Offsets /\ Slot(len, cap) + q >= Slot(len, cap)
          BY <1>1, <1>2 DEF Offsets
        <4> QED
          BY <1>3, <4>1
      <3> QED
        BY <3>1 DEF RecLenAt
    <2> PICK x, m : x = n - cap /\ m = cap - p
      OBVIOUS
    <2>2. MaxData \in 0 .. MaxData /\ x \in Int /\ len \in Nat
      BY <1>1, <1>2
    <2>5. ASSUME NEW i \in p .. cap - 1
          PROVE  Holds(file, len, i, log[x - p + 1 + i])
      <3>1. x - p + 1 + i = n - p - cap + 1 + i
        BY <1>1, <1>2
      <3> QED
        BY <1>3, <1>5, <3>1
    <2>6. /\ p \in Nat /\ cap \in Nat /\ p <= cap /\ PrefixLen < len
          /\ Slot(len, cap) <= MaxData /\ Stops(file, Slot(len, cap), MaxData)
      BY <1>1, <1>2, <2>1
    <2>3. ScanTS(Slot(len, p), MaxData) = Piece(log, x, m)
      BY ONLY TypeOK, m = cap - p, <2>2, <2>5, <2>6, UniformScan
    <2> QED
      BY <1>3, <2>3
  <1> QED
    BY <1>4, <1>5

PieceType(s, d, m) ==
    /\ Piece(s, d, m) \in Seq(Nat) /\ Len(Piece(s, d, m)) = m
    /\ \A j \in 1 .. m : Piece(s, d, m)[j] = s[d + j]

LEMMA PieceIs ==
    ASSUME NEW s \in Seq(Nat), NEW d \in Nat, NEW m \in Nat, d + m <= Len(s)
    PROVE  PieceType(s, d, m)
  <1>1. \A j \in 1 .. m : s[d + j] \in Nat
    <2> SUFFICES ASSUME NEW j \in 1 .. m PROVE s[d + j] \in Nat
      OBVIOUS
    <2>1. Len(s) \in Nat
      OBVIOUS
    <2>2. d + j \in 1 .. Len(s)
      BY <2>1
    <2> QED
      BY <2>2
  <1> QED
    BY <1>1 DEF PieceType, Piece

(* The last n of a sequence, as many as there are, as a piece of it.        *)
LEMMA LastNPiece ==
    ASSUME NEW s \in Seq(Nat), NEW n \in Nat, NEW m, m = IF Len(s) <= n THEN Len(s) ELSE n
    PROVE  /\ LastN(s, n) = Piece(s, Len(s) - m, m)
           /\ m \in Nat /\ m <= Len(s) /\ Len(s) - m \in Nat
  <1>1. Len(s) \in Nat /\ m \in Nat /\ m <= Len(s) /\ Len(s) - m \in Nat
    OBVIOUS
  <1>2. CASE Len(s) <= n
    <2>1. LastN(s, n) = s /\ m = Len(s)
      BY <1>2 DEF LastN
    <2>2. s = [i \in 1 .. Len(s) |-> s[i]]
      OBVIOUS
    <2>3. \A i \in 1 .. m : (Len(s) - m) + i = i
      BY <1>1, <2>1
    <2> QED
      BY <1>1, <2>1, <2>2, <2>3 DEF Piece
  <1>3. CASE ~(Len(s) <= n)
    <2>1. LastN(s, n) = SubSeq(s, Len(s) - n + 1, Len(s)) /\ m = n
      BY <1>3 DEF LastN
    <2>2. CASE n = 0
      <3>1. SubSeq(s, Len(s) + 1, Len(s)) = <<>>
        BY <1>1
      <3>2. Piece(s, Len(s) - m, 0) = <<>>
        BY DEF Piece
      <3>3. Len(s) - 0 + 1 = Len(s) + 1
        BY <1>1
      <3> QED
        BY <1>1, <2>1, <2>2, <3>1, <3>2, <3>3
    <2>3. CASE n # 0
      <3>1. n \in 1 .. Len(s)
        BY <1>1, <1>3, <2>3
      <3>2. LastN(s, n) = [i \in 1 .. n |-> s[Len(s) - n + i]]
        BY <3>1, LastNIs
      <3> QED
        BY <1>1, <2>1, <3>2 DEF Piece
    <2> QED
      BY <2>2, <2>3
  <1> QED
    BY <1>1, <1>2, <1>3

(* Two pieces that follow one another.                                      *)
LEMMA PiecesConcat ==
    ASSUME NEW s \in Seq(Nat), NEW d \in Nat, NEW m \in Nat, NEW k \in Nat, NEW e \in Nat, NEW n \in Nat,
           e = d + m, n = m + k, d + n <= Len(s)
    PROVE  Piece(s, d, m) \o Piece(s, e, k) = Piece(s, d, n)
  <1> PICK u, v, w : u = Piece(s, d, m) /\ v = Piece(s, e, k) /\ w = Piece(s, d, n)
    OBVIOUS
  <1>1. Len(s) \in Nat /\ e \in Nat /\ n \in Nat /\ d + m <= Len(s) /\ e + k <= Len(s)
    OBVIOUS
  <1>2. /\ u \in Seq(Nat) /\ Len(u) = m /\ \A j \in 1 .. m : u[j] = s[d + j]
        /\ v \in Seq(Nat) /\ Len(v) = k /\ \A j \in 1 .. k : v[j] = s[e + j]
        /\ w \in Seq(Nat) /\ Len(w) = n /\ \A j \in 1 .. n : w[j] = s[d + j]
    <2>1. PieceType(s, d, m)
      BY <1>1, PieceIs
    <2>2. PieceType(s, e, k)
      BY <1>1, PieceIs
    <2>3. PieceType(s, d, n)
      BY <1>1, PieceIs
    <2> QED
      BY <2>1, <2>2, <2>3 DEF PieceType
  <1>3. /\ u \o v \in Seq(Nat) /\ Len(u \o v) = n
        /\ \A j \in 1 .. n : (u \o v)[j] = IF j <= m THEN u[j] ELSE v[j - m]
    <2>1. Len(u) + Len(v) = n /\ Len(u) = m
      BY <1>2
    <2>2. /\ u \o v \in Seq(Nat) /\ Len(u \o v) = Len(u) + Len(v)
          /\ \A j \in 1 .. Len(u) + Len(v) :
                 (u \o v)[j] = IF j <= Len(u) THEN u[j] ELSE v[j - Len(u)]
      <3>1. u \in Seq(Nat) /\ v \in Seq(Nat)
        BY <1>2
      <3> QED
        BY ONLY <3>1, ConcatProperties
    <2> QED
      BY <2>1, <2>2
  <1>4. ASSUME NEW j \in 1 .. n PROVE (u \o v)[j] = w[j]
    <2>1. CASE j <= m
      <3>1. j \in 1 .. m
        BY <1>1, <2>1
      <3> QED
        BY <1>2, <1>3, <2>1, <3>1
    <2>2. CASE ~(j <= m)
      <3>1. j - m \in 1 .. k /\ e + (j - m) = d + j
        BY <1>1, <2>2
      <3> QED
        BY <1>2, <1>3, <2>2, <3>1
    <2> QED
      BY <2>1, <2>2
  <1> DEFINE uv == u \o v
  <1>5. uv \in Seq(Nat) /\ Len(uv) = Len(w) /\ \A j \in 1 .. Len(uv) : uv[j] = w[j]
    BY <1>2, <1>3, <1>4
  <1> HIDE DEF uv
  <1>6. uv = w
    BY <1>2, <1>5, SeqEqual
  <1> QED
    BY <1>6 DEF uv

(* The two segments, in this order, are the end of the log.                 *)
Old == IF wrapped THEN ScanTS(writeOff, MaxData) ELSE <<>>

LEMMA RingHolds ==
    ASSUME NEW len, RecLens = {len}, TypeOK, NEW p \in 0 .. Capacity(len), RingAt(len, p)
    PROVE  /\ Old \o ScanTS(0, writeOff) = LastN(log, Capacity(len))
           /\ Old \in Seq(Nat) /\ ScanTS(0, writeOff) \in Seq(Nat)
           /\ Len(ScanTS(0, writeOff)) = p
           /\ Len(Old) = IF wrapped THEN Capacity(len) - p ELSE 0
           /\ Len(LastN(log, Capacity(len))) = IF wrapped THEN Capacity(len) ELSE p
           /\ LastN(log, Capacity(len)) \in Seq(Nat)
           /\ Len(LastN(log, Capacity(len))) <= Len(log)
           /\ \A i \in 1 .. Len(LastN(log, Capacity(len))) :
                  LastN(log, Capacity(len))[i] = log[Len(log) - Len(LastN(log, Capacity(len))) + i]
  <1> PICK n, cap : n = Len(log) /\ cap = Capacity(len)
    OBVIOUS
  <1>1. /\ log \in Seq(Nat) /\ n \in Nat /\ wrapped \in BOOLEAN
        /\ cap \in Nat /\ p \in Nat /\ p <= cap /\ p <= n
        /\ ~wrapped => p = n
        /\ wrapped => p + cap <= n
    <2>1. len \in Nat \ {0}
      BY RegionAssumption
    <2>2. cap \in Nat
      BY <2>1, SlotAt
    <2>3. p \in Nat /\ p <= cap
      BY <2>2
    <2> QED
      BY <2>2, <2>3 DEF TypeOK, RingAt
  <1>2. ScanTS(0, writeOff) = Piece(log, n - p, p)
    BY RingScans
  <1>3. PieceType(log, n - p, p)
    <2>1. n - p \in Nat /\ (n - p) + p <= Len(log)
      BY <1>1
    <2> QED
      BY <1>1, <2>1, PieceIs
  <1> PICK L, m : L = LastN(log, cap) /\ m = IF Len(log) <= cap THEN Len(log) ELSE cap
    OBVIOUS
  <1>4. L = Piece(log, n - m, m) /\ m \in Nat /\ m <= n /\ n - m \in Nat
    BY <1>1, LastNPiece
  <1>5. PieceType(log, n - m, m)
    <2>1. (n - m) + m <= Len(log)
      BY <1>1, <1>4
    <2> QED
      BY <1>1, <1>4, <2>1, PieceIs
  <1>6. /\ L \in Seq(Nat) /\ Len(L) = m /\ Len(L) <= n
        /\ \A i \in 1 .. Len(L) : L[i] = log[n - Len(L) + i]
    BY <1>4, <1>5 DEF PieceType
  <1>7. CASE ~wrapped
    <2>1. Old = <<>> /\ m = p
      BY <1>1, <1>7 DEF Old
    <2> DEFINE q == Piece(log, n - p, p)
    <2>2. q \in Seq(Nat) /\ Len(q) = p
      BY <1>3 DEF PieceType
    <2> HIDE DEF q
    <2>3. <<>> \o q = q
      BY <2>2, ConcatEmptySeq
    <2>4. ScanTS(0, writeOff) = q /\ L = q
      BY <1>2, <1>4, <2>1 DEF q
    <2>5. Old \in Seq(Nat) /\ Len(Old) = 0
      BY <2>1
    <2> QED
      BY <1>6, <1>7, <2>1, <2>2, <2>3, <2>4, <2>5
  <1>8. CASE wrapped
    <2>1. Old = Piece(log, n - cap, cap - p)
      BY <1>8, RingScans DEF Old
    <2>2. m = cap /\ n - cap \in Nat /\ cap - p \in Nat /\ n - p = (n - cap) + (cap - p)
          /\ cap = (cap - p) + p /\ (n - cap) + cap <= Len(log)
          /\ (n - cap) + (cap - p) <= Len(log)
      <3>1. n \in Nat /\ cap \in Nat /\ p \in Nat /\ p <= cap /\ p + cap <= n /\ Len(log) = n
        BY <1>1, <1>8
      <3>2. m = cap
        <4>1. n <= cap => n = cap
          BY ONLY <3>1
        <4> QED
          BY <3>1, <4>1
      <3> QED
        BY ONLY <3>1, <3>2
    <2>3. Old \o ScanTS(0, writeOff) = Piece(log, n - cap, cap)
      <3> PICK d, k, e : d = n - cap /\ k = cap - p /\ e = n - p
        OBVIOUS
      <3>1. /\ d \in Nat /\ k \in Nat /\ e \in Nat /\ cap \in Nat /\ e = d + k /\ cap = k + p
            /\ d + cap <= Len(log) /\ p \in Nat /\ log \in Seq(Nat)
        BY <1>1, <2>2
      <3>2. Piece(log, d, k) \o Piece(log, e, p) = Piece(log, d, cap)
        BY ONLY <3>1, PiecesConcat
      <3> QED
        BY <1>2, <2>1, <3>2
    <2>4. Old \in Seq(Nat) /\ Len(Old) = cap - p
      BY <1>1, <2>1, <2>2, PieceIs DEF PieceType
    <2> QED
      BY <1>2, <1>3, <1>4, <1>6, <1>8, <2>2, <2>3, <2>4 DEF PieceType
  <1> QED
    BY <1>7, <1>8

(* Each step keeps the records in the slots where the ring has them.        *)
LEMMA RingStep ==
    ASSUME NEW len, RecLens = {len}, MagicLen # MagicField, MaxFailures = 0,
           TypeInv, RingInv(len), [Next]_vars
    PROVE  RingInv(len)'
  <1> USE DEF TypeInv
  <1> PICK p \in 0 .. Capacity(len) : RingAt(len, p)
    BY DEF RingInv
  <1>0. len \in Nat \ {0}
    BY RegionAssumption
  <1>1. len \in Nat \ {0} /\ Slot(len, 0) = 0 /\ Capacity(len) \in Nat
    BY <1>0, SlotAt
  <1>2. ASSUME NEW ts \in 1 .. MaxClock, Write(ts, len)
        PROVE  RingInv(len)'
    <2>1. /\ len <= MaxData /\ file' = FileAfter(ts, len, len) /\ Commit(ts, len)
          /\ ts \in Nat
      BY <1>2, ClockAssumption DEF Write
    <2>2. /\ Wraps(len) => RingAt(len, 1)' /\ 1 \in 1 .. Capacity(len)
          /\ ~Wraps(len) => RingAt(len, p + 1)' /\ p + 1 \in 1 .. Capacity(len)
      BY <2>1, WriteKeepsRing
    <2>3. PICK q : q \in 1 .. Capacity(len) /\ RingAt(len, q)'
      BY <2>2
    <2>4. q \in 0 .. Capacity(len)
      BY <1>1, <2>3
    <2> QED
      BY <2>3, <2>4 DEF RingInv, Capacity
  <1>3. ~WriteFault
    BY DEF WriteFault, TypeOK
  <1>4. ASSUME UNCHANGED <<writeOff, file, log, wrapped>>
        PROVE  RingInv(len)'
    <2>1. RingAt(len, p)'
      BY <1>4 DEF RingAt, Holds, Slot, Capacity
    <2> QED
      BY <2>1 DEF RingInv, Capacity
  <1>5. CASE Flush
    BY <1>4, <1>5 DEF Flush, memory
  <1>6. ASSUME NEW h, OpenTier(h) PROVE RingInv(len)'
    <2>1. writeOff' = 0 /\ wrapped' = FALSE /\ file' = file /\ log' = <<>>
      BY <1>6 DEF OpenTier, HeaderAccepted, Reinitialise
    <2>2. Len(log') = 0
      BY <2>1
    <2>3. RingAt(len, 0)'
      BY <1>1, <2>1, <2>2 DEF RingAt, Capacity, Slot
    <2>4. 0 \in 0 .. Capacity(len)
      BY <1>1
    <2> QED
      BY <2>3, <2>4 DEF RingInv, Capacity
  <1>7. CASE Restart \/ Crash
    BY <1>6, <1>7 DEF Restart, Crash
  <1>8. CASE UNCHANGED vars
    BY <1>4, <1>8 DEF vars, memory
  <1> QED
    BY <1>2, <1>3, <1>5, <1>7, <1>8 DEF Next, WriteFails, HeaderFails

LEMMA RingInit ==
    ASSUME NEW len, RecLens = {len}
    PROVE  Init => RingInv(len)
  <1> SUFFICES ASSUME Init PROVE RingInv(len)
    OBVIOUS
  <1>1. len \in Nat \ {0} /\ Slot(len, 0) = 0 /\ Capacity(len) \in Nat
    BY RegionAssumption, SlotAt
  <1>2. writeOff = 0 /\ wrapped = FALSE /\ log = <<>> /\ Len(log) = 0
    BY DEF Init
  <1>3. \A o \in Offsets : file[o].len = 0
    BY DEF Init, Zero
  <1>4. RingAt(len, 0)
    BY <1>1, <1>2, <1>3 DEF RingAt
  <1>5. 0 \in 0 .. Capacity(len)
    BY <1>1
  <1> QED
    BY <1>4, <1>5 DEF RingInv

(* A reader of a window gets what lies in it of the records that fit.       *)
LEMMA CapacityRead ==
    ASSUME NEW len, RecLens = {len}, TypeInv, CurrentPassWhole, ScanInv, RingInv(len)
    PROVE  KeepsCapacity
  <1> SUFFICES ASSUME NEW from \in 1 .. MaxClock, NEW to \in 1 .. MaxClock
               PROVE  ReadRange(from, to) = InLog(LastN(log, Capacity(len)), from, to)
    BY DEF KeepsCapacity
  <1> PICK p \in 0 .. Capacity(len) : RingAt(len, p)
    BY DEF RingInv
  <1> PICK L, pass, n : L = LastN(log, Capacity(len)) /\ pass = ScanTS(0, writeOff) /\ n = Len(log)
    OBVIOUS
  <1>1. /\ TypeOK /\ from \in Nat /\ to \in Nat /\ count = n /\ n \in Nat
        /\ log \in Seq(Nat)
    BY ClockAssumption DEF TypeInv, TypeOK
  <1>2. /\ Old \o pass = L /\ Old \in Seq(Nat) /\ pass \in Seq(Nat)
        /\ L \in Seq(Nat) /\ Len(L) <= n
        /\ \A i \in 1 .. Len(L) : L[i] = log[n - Len(L) + i]
    BY <1>1, RingHolds
  <1>3. /\ Len(Old) \in Nat /\ Len(pass) \in Nat /\ Len(L) = Len(Old) + Len(pass)
        /\ \A i \in 1 .. Len(L) : L[i] = IF i <= Len(Old) THEN Old[i] ELSE pass[i - Len(Old)]
    <2>1. Old \in Seq(Nat) /\ pass \in Seq(Nat)
      BY <1>2
    <2>2. /\ Len(Old \o pass) = Len(Old) + Len(pass)
          /\ \A i \in 1 .. Len(Old) + Len(pass) :
                 (Old \o pass)[i] = IF i <= Len(Old) THEN Old[i] ELSE pass[i - Len(Old)]
      BY ONLY <2>1, ConcatProperties
    <2>3. Len(Old) \in Nat /\ Len(pass) \in Nat
      BY <2>1
    <2> QED
      BY <1>2, <2>2, <2>3
  <1>4. \A i, k \in 1 .. Len(L) : i < k => L[i] < L[k]
    <2> SUFFICES ASSUME NEW i \in 1 .. Len(L), NEW k \in 1 .. Len(L), i < k
                 PROVE  L[i] < L[k]
      OBVIOUS
    <2> PICK a, b : a = n - Len(L) + i /\ b = n - Len(L) + k
      OBVIOUS
    <2>0. n \in Nat /\ Len(L) \in Nat /\ Len(L) <= n /\ n = Len(log)
      <3>1. L \in Seq(Nat) /\ Len(L) <= n
        BY <1>2
      <3> QED
        BY <1>1, <3>1
    <2>1. a \in 1 .. Len(log) /\ b \in 1 .. Len(log) /\ a < b
      BY <2>0
    <2>2. log[a] < log[b]
      BY <2>1 DEF ScanInv
    <2> QED
      BY <1>2, <2>2
  <1>5. \A i, k \in 1 .. Len(pass) : i < k => pass[i] < pass[k]
    <2> SUFFICES ASSUME NEW i \in 1 .. Len(pass), NEW k \in 1 .. Len(pass), i < k
                 PROVE  pass[i] < pass[k]
      OBVIOUS
    <2> PICK a, b : a = Len(Old) + i /\ b = Len(Old) + k
      OBVIOUS
    <2>1. /\ a \in 1 .. Len(L) /\ b \in 1 .. Len(L) /\ a < b
          /\ ~(a <= Len(Old)) /\ ~(b <= Len(Old)) /\ a - Len(Old) = i /\ b - Len(Old) = k
      BY <1>3
    <2>2. L[a] = pass[i] /\ L[b] = pass[k]
      BY <1>3, <2>1
    <2> QED
      BY <1>4, <2>1, <2>2
  <1>6. \A i, k \in 1 .. Len(Old) : i < k => Old[i] < Old[k]
    <2> SUFFICES ASSUME NEW i \in 1 .. Len(Old), NEW k \in 1 .. Len(Old), i < k
                 PROVE  Old[i] < Old[k]
      OBVIOUS
    <2>1. i \in 1 .. Len(L) /\ k \in 1 .. Len(L) /\ i <= Len(Old) /\ k <= Len(Old)
      BY <1>3
    <2>2. L[i] = Old[i] /\ L[k] = Old[k]
      BY <1>3, <2>1
    <2> QED
      BY <1>4, <2>1, <2>2
  <1>7. InWindow(pass, from, to) = Kept(pass, Window(pass, from, to))
    BY <1>1, <1>2, <1>5, InWindowIs
  <1>8. InWindow(Old, from, to) = Kept(Old, Window(Old, from, to))
    BY <1>1, <1>2, <1>6, InWindowIs
  <1>9. InLog(L, from, to) = Kept(L, Window(L, from, to))
    <2>1. DOMAIN L = 1 .. Len(L)
      BY <1>2
    <2>2. {i \in DOMAIN L : from <= L[i] /\ L[i] <= to} = Window(L, from, to)
      BY <2>1 DEF Window
    <2> QED
      BY <2>2 DEF InLog
  <1>10. Kept(L, Window(L, from, to))
             = Kept(Old, Window(Old, from, to)) \o Kept(pass, Window(pass, from, to))
    <2> PICK K, K1, K2 : /\ K = Window(L, from, to) /\ K1 = Window(Old, from, to)
                         /\ K2 = Window(pass, from, to)
      OBVIOUS
    <2>1. ASSUME NEW i \in 1 .. Len(Old) PROVE i \in K <=> i \in K1
      <3>1. i \in 1 .. Len(L) /\ i <= Len(Old)
        BY <1>3
      <3>2. L[i] = Old[i]
        BY <1>3, <3>1
      <3> QED
        BY <3>1, <3>2 DEF Window
    <2>2. ASSUME NEW j \in 1 .. Len(pass) PROVE Len(Old) + j \in K <=> j \in K2
      <3> PICK a : a = Len(Old) + j
        OBVIOUS
      <3>1. a \in 1 .. Len(L) /\ ~(a <= Len(Old)) /\ a - Len(Old) = j
        BY <1>3
      <3>2. L[a] = pass[j]
        BY <1>3, <3>1
      <3> QED
        BY <3>1, <3>2 DEF Window
    <2>3. Old \in Seq(Nat) /\ pass \in Seq(Nat)
      BY <1>2
    <2>4. Kept(Old \o pass, K) = Kept(Old, K1) \o Kept(pass, K2)
      BY ONLY <2>1, <2>2, <2>3, KeptConcat
    <2> QED
      BY <1>2, <2>4
  <1> PICK kept, inOld : /\ kept = Kept(pass, Window(pass, from, to))
                         /\ inOld = Kept(Old, Window(Old, from, to))
    OBVIOUS
  <1>11. kept \in Seq(Nat) /\ inOld \in Seq(Nat) /\ <<>> \o kept = kept
    <2>1. kept \in Seq(Nat) /\ inOld \in Seq(Nat)
      BY <1>2, KeptType
    <2> QED
      BY <2>1, ConcatEmptySeq
  <1>12. CASE count = 0
    <2>1. ReadRange(from, to) = <<>>
      BY <1>12, Zenon DEF ReadRange
    <2>2. Len(L) = 0
      BY <1>1, <1>2, <1>3, <1>12
    <2>3. Kept(L, Window(L, from, to)) \in Seq(Nat) /\ Len(Kept(L, Window(L, from, to))) <= 0
      BY <1>2, <2>2, KeptType
    <2> PICK none : none = Kept(L, Window(L, from, to))
      OBVIOUS
    <2>4. none \in Seq(Nat) /\ Len(none) = 0
      <3>1. none \in Seq(Nat) /\ Len(none) <= 0
        BY <2>3
      <3>2. Len(none) \in Nat
        BY <3>1
      <3> QED
        BY <3>1, <3>2
    <2>5. none = <<>>
      BY <2>4
    <2> QED
      BY <1>9, <2>1, <2>5
  <1>13. CASE count # 0 /\ ~wrapped
    <2>1. ReadRange(from, to) = <<>> \o InWindow(ScanTS(0, writeOff), from, to)
      BY <1>13, Zenon DEF ReadRange
    <2>2. Old = <<>>
      BY <1>13 DEF Old
    <2>3. L = pass
      BY <1>2, <2>2, ConcatEmptySeq
    <2> QED
      BY <1>7, <1>9, <1>11, <2>1, <2>3
  <1>14. CASE count # 0 /\ wrapped /\ ~SkipsOldPass(from)
    <2>1. ReadRange(from, to) = InWindow(ScanTS(writeOff, MaxData), from, to)
                                    \o InWindow(ScanTS(0, writeOff), from, to)
      BY <1>14, Zenon DEF ReadRange
    <2>2. Old = ScanTS(writeOff, MaxData)
      BY <1>14 DEF Old
    <2> QED
      BY <1>7, <1>8, <1>9, <1>10, <2>1, <2>2
  <1>15. CASE count # 0 /\ SkipsOldPass(from)
    <2>1. ReadRange(from, to) = <<>> \o InWindow(ScanTS(0, writeOff), from, to)
      BY <1>15, Zenon DEF ReadRange
    <2>2. 1 \in 1 .. Len(pass) /\ pass[1] <= from
      BY <1>1, <1>15, SkipIsSafe DEF ScanInv, Pass
    <2>3. Len(pass) <= Len(L)
      BY <1>3
    <2>4. \A i \in 1 .. Len(pass) : pass[i] = L[Len(L) - Len(pass) + i]
      <3> SUFFICES ASSUME NEW i \in 1 .. Len(pass) PROVE pass[i] = L[Len(L) - Len(pass) + i]
        OBVIOUS
      <3> PICK a : a = Len(L) - Len(pass) + i
        OBVIOUS
      <3>1. a \in 1 .. Len(L) /\ ~(a <= Len(Old)) /\ a - Len(Old) = i
        BY <1>3
      <3> QED
        BY <1>3, <3>1
    <2>5. \A i \in 1 .. Len(L) - Len(pass) : L[i] < from
      <3> SUFFICES ASSUME NEW i \in 1 .. Len(L) - Len(pass) PROVE L[i] < from
        OBVIOUS
      <3> PICK f : f = Len(L) - Len(pass) + 1
        OBVIOUS
      <3>1. f \in 1 .. Len(L) /\ i \in 1 .. Len(L) /\ i < f
        BY <1>3, <2>2
      <3>2. L[f] = pass[1]
        BY <2>2, <2>4
      <3>3. L[i] < L[f] /\ L[i] \in Nat /\ L[f] \in Nat
        <4>1. L \in Seq(Nat)
          BY <1>2
        <4>2. L[i] \in Nat /\ L[f] \in Nat
          BY ONLY <3>1, <4>1
        <4> QED
          BY <1>4, <3>1, <4>2
      <3> QED
        BY <1>1, <2>2, <3>2, <3>3
    <2>6. kept = Kept(L, Window(L, from, to))
      <3>1. pass \in Seq(Nat) /\ L \in Seq(Nat) /\ from \in Nat /\ to \in Nat
        BY <1>1, <1>2
      <3>2. Kept(pass, Window(pass, from, to)) = Kept(L, Window(L, from, to))
        BY ONLY <1>5, <2>3, <2>4, <2>5, <3>1, SameWindow
      <3> QED
        BY <3>2
    <2> QED
      BY <1>7, <1>9, <1>11, <2>1, <2>6
  <1> QED
    BY <1>12, <1>13, <1>14, <1>15

(* When every record has the same length and no write fails, the ring keeps *)
(* the last records, as many as fit, and a window query returns exactly     *)
(* those of them that lie in the window.                                    *)
THEOREM UniformRead ==
    ASSUME NEW len, RecLens = {len}, MagicLen # MagicField, MaxFailures = 0,
           \A d \in ClockSteps : d > 0
    PROVE  Spec => []KeepsCapacity
  <1>1. Init => PassInv
    BY DEF Init, PassInv, CurrentPassWhole
  <1>2. TypeInv /\ PassInv /\ [Next]_vars => PassInv'
    BY PassStep
  <1>3. TypeInv /\ TypeInv' /\ PassInv /\ ScanInv /\ [Next]_vars => ScanInv'
    BY ScanStep
  <1>4. TypeInv /\ RingInv(len) /\ [Next]_vars => RingInv(len)'
    BY RingStep
  <1>5. Init => RingInv(len)
    BY RingInit
  <1>6. TypeInv /\ PassInv /\ ScanInv /\ RingInv(len) => KeepsCapacity
    BY CapacityRead DEF PassInv
  <1> QED
    BY <1>1, <1>2, <1>3, <1>4, <1>5, <1>6, TypeInit, TypeStep, ScanInit, PTL DEF Spec

(* All that a reader of the latest records can get.                         *)
Latest == ReadLatest(count)

LEMMA LatestOfRing ==
    ASSUME NEW len, RecLens = {len}
    PROVE  TypeInv /\ RingInv(len) => Latest = LastN(log, Capacity(len))
  <1> SUFFICES ASSUME TypeInv, RingInv(len)
               PROVE  Latest = LastN(log, Capacity(len))
    OBVIOUS
  <1> PICK p \in 0 .. Capacity(len) : RingAt(len, p)
    BY DEF RingInv
  <1> PICK L, pass, n : L = LastN(log, Capacity(len)) /\ pass = ScanTS(0, writeOff) /\ n = Len(log)
    OBVIOUS
  <1>1. TypeOK /\ count = n
    BY DEF TypeInv
  <1>2. Old \o pass = L /\ L \in Seq(Nat) /\ Len(L) <= n
    BY <1>1, RingHolds
  <1>3. CASE count = 0
    <2>1. Len(L) \in Nat
      BY <1>2
    <2>2. Len(L) = 0
      BY <1>1, <1>2, <1>3, <2>1
    <2>3. L = <<>>
      BY <1>2, <2>2
    <2> QED
      BY <1>3, <2>3 DEF Latest, ReadLatest
  <1>4. CASE count # 0
    <2>1. Latest = LastN(Old \o pass, n)
      BY <1>1, <1>4 DEF Latest, ReadLatest, Old
    <2>2. LastN(L, n) = L
      BY <1>2 DEF LastN
    <2> QED
      BY <1>2, <2>1, <2>2
  <1> QED
    BY <1>3, <1>4

LEMMA LatestOfRingNext ==
    ASSUME NEW len, RecLens = {len}
    PROVE  TypeInv' /\ RingInv(len)' => Latest' = LastN(log', Capacity(len))
  <1>1. TypeInv /\ RingInv(len) => Latest = LastN(log, Capacity(len))
    BY LatestOfRing
  <1>2. (TypeInv /\ RingInv(len) => Latest = LastN(log, Capacity(len)))'
    BY <1>1, PTL
  <1> QED
    BY <1>2 DEF LastN, Capacity

(* Behind the last k elements of a sequence comes one more.                 *)
LEMMA LastNAppend ==
    ASSUME NEW s \in Seq(Nat), NEW ts \in Nat, NEW k \in Nat \ {0}
    PROVE  LastN(Append(s, ts), k)
               = Append(TierLog!Suffix(LastN(s, k), IF k <= Len(s) THEN 1 ELSE 0), ts)
  <1> PICK t, n, u : t = Append(s, ts) /\ n = Len(s) /\ u = LastN(s, k)
    OBVIOUS
  <1>1. /\ n \in Nat /\ t \in Seq(Nat) /\ Len(t) = n + 1
        /\ (\A i \in 1 .. n : t[i] = s[i]) /\ t[n + 1] = ts
    BY AppendProperties
  <1>2. CASE ~(k <= n)
    <2>1. u = s /\ LastN(t, k) = t
      BY <1>1, <1>2 DEF LastN
    <2>2. TierLog!Suffix(s, 0) = s
      BY <1>1 DEF TierLog!Suffix
    <2> QED
      BY <1>2, <2>1, <2>2
  <1>3. CASE k <= n
    <2>1. k \in 1 .. Len(s) /\ k \in 1 .. Len(t)
      BY <1>1, <1>3
    <2>2. u = [i \in 1 .. k |-> s[n - k + i]] /\ Len(u) = k
      BY <2>1, LastNIs
    <2>3. LastN(t, k) = [i \in 1 .. k |-> t[Len(t) - k + i]]
      <3>1. t \in Seq(Nat)
        BY <1>1
      <3> QED
        BY ONLY <2>1, <3>1, LastNIs
    <2> PICK v : v = SubSeq(u, 2, k)
      OBVIOUS
    <2>4. u \in Seq(Nat)
      <3>1. \A i \in 1 .. k : s[n - k + i] \in Nat
        <4> SUFFICES ASSUME NEW i \in 1 .. k PROVE s[n - k + i] \in Nat
          OBVIOUS
        <4>1. n - k + i \in 1 .. Len(s)
          BY <1>1, <1>3
        <4> QED
          BY <4>1
      <3> QED
        BY <2>2, <3>1
    <2>5. /\ v \in Seq(Nat) /\ Len(v) = k - 1
          /\ \A i \in 1 .. k - 1 : v[i] = s[n - k + i + 1]
      <3>1. v = [i \in 1 .. (1 + k - 2) |-> u[i + 2 - 1]] 
        <4>1. k = 1 \/ k \in 2 .. k
          OBVIOUS
        <4> QED
          BY <2>2, <2>4, <4>1
      <3>2. 1 + k - 2 = k - 1 /\ k - 1 \in Nat
        OBVIOUS
      <3>3. ASSUME NEW i \in 1 .. k - 1
            PROVE  u[i + 2 - 1] = s[n - k + i + 1] /\ u[i + 2 - 1] \in Nat
        <4>1. i + 2 - 1 \in 1 .. k /\ n - k + (i + 2 - 1) = n - k + i + 1
          BY <1>1
        <4>2. u[i + 2 - 1] = s[n - k + (i + 2 - 1)]
          BY <2>2, <4>1
        <4>3. u[i + 2 - 1] \in Nat
          <5>1. i + 2 - 1 \in 1 .. Len(u)
            BY <2>2, <4>1
          <5> QED
            BY <2>4, <5>1
        <4> QED
          BY <4>1, <4>2, <4>3
      <3>4. v = [i \in 1 .. k - 1 |-> u[i + 2 - 1]]
        BY <3>1, <3>2
      <3>5. v \in Seq(Nat) /\ Len(v) = k - 1
        <4> PICK h : h = k - 1
          OBVIOUS
        <4>1. h \in Nat /\ \A i \in 1 .. h : u[i + 2 - 1] \in Nat
          BY <3>2, <3>3
        <4>2. v = [i \in 1 .. h |-> u[i + 2 - 1]]
          BY <3>4
        <4>3. v \in Seq(Nat) /\ Len(v) = h
          BY ONLY <4>1, <4>2
        <4> QED
          BY <4>3
      <3> QED
        BY <3>3, <3>4, <3>5
    <2> PICK w, z : w = Append(v, ts) /\ z = LastN(t, k)
      OBVIOUS
    <2>6. /\ w \in Seq(Nat) /\ Len(w) = (k - 1) + 1
          /\ (\A i \in 1 .. k - 1 : w[i] = v[i]) /\ w[(k - 1) + 1] = ts
      BY <2>5, AppendProperties
    <2>7. ASSUME NEW i \in 1 .. k PROVE t[Len(t) - k + i] = w[i] /\ w[i] \in Nat
      <3>1. CASE i = k
        <4>1. Len(t) - k + i = n + 1 /\ i = (k - 1) + 1
          BY <1>1, <3>1
        <4> QED
          BY <1>1, <2>6, <4>1
      <3>2. CASE i # k
        <4>1. i \in 1 .. k - 1 /\ Len(t) - k + i = n - k + i + 1 /\ n - k + i + 1 \in 1 .. n
          BY <1>1, <1>3, <3>2
        <4> QED
          BY <1>1, <2>5, <2>6, <4>1
      <3> QED
        BY <3>1, <3>2
    <2>8. z = [i \in 1 .. k |-> w[i]]
      BY <2>3, <2>7
    <2>9. w = [i \in 1 .. k |-> w[i]]
      <3>1. Len(w) = k
        BY <2>6
      <3> QED
        BY <2>6, <3>1
    <2> QED
      <3>1. TierLog!Suffix(u, 1) = v
        <4>1. 1 + 1 = 2
          OBVIOUS
        <4> QED
          BY <2>2, <4>1 DEF TierLog!Suffix
      <3> QED
        BY <1>3, <2>8, <2>9, <3>1
  <1> QED
    BY <1>2, <1>3

LEMMA TierLogStep ==
    ASSUME NEW len, RecLens = {len}, MagicLen # MagicField, MaxFailures = 0,
           \A d \in ClockSteps : d > 0, TypeInv, TypeInv', ScanInv,
           RingInv(len), RingInv(len)', [Next]_vars
    PROVE  TierLog!Next \/ Latest' = Latest
  <1> USE DEF TypeInv
  <1> PICK cap : cap = Capacity(len)
    OBVIOUS
  <1>0. len \in Nat \ {0} /\ PrefixLen \in Nat
    BY RegionAssumption
  <1>1. Latest = LastN(log, cap) /\ Latest' = LastN(log', cap) /\ cap \in Nat
    BY <1>0, LatestOfRing, LatestOfRingNext, SlotAt
  <1>l. log \in Seq(Nat) /\ Len(log) \in Nat /\ clock \in Nat
    BY DEF TypeOK
  <1>k. PICK m : m = IF Len(log) <= cap THEN Len(log) ELSE cap
    OBVIOUS
  <1>2. /\ Latest = Piece(log, Len(log) - m, m) /\ m \in Nat /\ m <= Len(log)
        /\ Len(log) - m \in Nat
    BY <1>1, <1>k, <1>l, LastNPiece
  <1>3. /\ Latest \in Seq(Nat) /\ Len(Latest) = m
        /\ \A i \in 1 .. m : Latest[i] = log[(Len(log) - m) + i]
    <2>1. (Len(log) - m) + m <= Len(log)
      BY <1>2, <1>l
    <2>2. PieceType(log, Len(log) - m, m)
      BY <1>2, <1>l, <2>1, PieceIs
    <2> QED
      BY <1>2, <2>2 DEF PieceType
  <1>4. ASSUME NEW ts \in 1 .. MaxClock, Write(ts, len)
        PROVE  TierLog!Next
    <2>1. ts \in Nat /\ ts > clock /\ len <= MaxData /\ log' = Append(log, ts)
      BY <1>4, ClockAssumption DEF Write, Stamp, Commit, TypeOK
    <2>2. cap # 0
      <3>1. MaxData \in Nat
        BY RegionAssumption
      <3> QED
        BY <1>0, <2>1, <3>1 DEF Capacity
    <2> PICK k : k = IF cap <= Len(log) THEN 1 ELSE 0
      OBVIOUS
    <2>3. Latest' = Append(TierLog!Suffix(Latest, k), ts)
      <3>1. cap \in Nat \ {0} /\ log \in Seq(Nat) /\ ts \in Nat
        BY <1>1, <1>l, <2>1, <2>2
      <3>2. LastN(Append(log, ts), cap)
                = Append(TierLog!Suffix(LastN(log, cap), IF cap <= Len(log) THEN 1 ELSE 0), ts)
        BY ONLY <3>1, LastNAppend
      <3> QED
        BY <1>1, <2>1, <3>2
    <2>4. k \in 0 .. Len(Latest) /\ k <= 1
      BY <1>1, <1>3, <1>k, <1>l, <2>2
    <2>5. Latest # <<>> => Latest[Len(Latest)] < ts
      <3> SUFFICES ASSUME Latest # <<>> PROVE Latest[Len(Latest)] < ts
        OBVIOUS
      <3>1. m \in 1 .. m /\ (Len(log) - m) + m = Len(log) /\ Len(log) \in 1 .. Len(log)
        <4>1. m # 0
          BY <1>3
        <4> QED
          BY <1>2, <1>l, <4>1
      <3>2. Latest[m] = log[Len(log)]
        BY <1>3, <3>1
      <3>3. log[Len(log)] <= clock /\ log[Len(log)] \in Nat
        BY <1>l, <3>1 DEF ScanInv
      <3> QED
        BY <1>3, <1>l, <2>1, <3>2, <3>3
    <2> QED
      BY <2>3, <2>4, <2>5 DEF TierLog!Next, TierLog!Append1, Latest
  <1>5. ~WriteFault
    BY DEF WriteFault, TypeOK
  <1>6. CASE Flush \/ UNCHANGED vars
    <2>1. log' = log
      BY <1>6 DEF Flush, vars
    <2> QED
      BY <1>1, <2>1
  <1>7. CASE Restart \/ Crash
    <2>1. log' = <<>>
      BY <1>7 DEF Restart, Crash, OpenTier, HeaderAccepted, Reinitialise
    <2>2. Latest' = <<>>
      BY <1>1, <2>1 DEF LastN
    <2>3. CASE Latest # <<>>
      <3>1. Len(Latest) \in 1 .. Len(Latest) /\ Len(Latest) \in Nat
        BY <1>3, <2>3
      <3>2. TierLog!Suffix(Latest, Len(Latest)) = <<>>
        BY <1>3, <3>1 DEF TierLog!Suffix
      <3> QED
        BY <2>2, <3>1, <3>2 DEF TierLog!Next, TierLog!Lose, Latest
    <2> QED
      BY <2>2, <2>3
  <1> QED
    BY <1>4, <1>5, <1>6, <1>7 DEF Next, WriteFails, HeaderFails

(* With records of one length and no failing write, the tier as a whole     *)
(* implements a log from which an append pushes out at most one record, the *)
(* oldest, and which a restart may empty.                                   *)
THEOREM TierRefinesLog ==
    ASSUME NEW len, RecLens = {len}, MagicLen # MagicField, MaxFailures = 0,
           \A d \in ClockSteps : d > 0
    PROVE  Spec => TierIsLog
  <1>1. Init => PassInv
    BY DEF Init, PassInv, CurrentPassWhole
  <1>2. TypeInv /\ PassInv /\ [Next]_vars => PassInv'
    BY PassStep
  <1>3. TypeInv /\ TypeInv' /\ PassInv /\ ScanInv /\ [Next]_vars => ScanInv'
    BY ScanStep
  <1>4. TypeInv /\ RingInv(len) /\ [Next]_vars => RingInv(len)'
    BY RingStep
  <1>5. Init => RingInv(len)
    BY RingInit
  <1>6. TypeInv /\ TypeInv' /\ ScanInv /\ RingInv(len) /\ RingInv(len)' /\ [Next]_vars
            => [TierLog!Next]_(ReadLatest(count))
    BY TierLogStep DEF Latest
  <1>7. Init => TierLog!Init
    BY DEF Init, TierLog!Init, ReadLatest
  <1> QED
    BY <1>1, <1>2, <1>3, <1>4, <1>5, <1>6, <1>7, TypeInit, TypeStep, ScanInit, PTL
       DEF Spec, TierIsLog, TierLog!Spec

(* What oldestTS tells of the ring: the oldest record, or the one before it *)
(* when the write offset has reached the end of the last slot.              *)
Oldest(len, p) ==
    /\ fileEnd >= writeOff
    /\ wrapped => fileEnd >= Slot(len, Capacity(len))
    /\ \A i \in 1 .. Len(log) : log[i] # 0
    /\ Len(log) = 0 => oldestTS = 0
    /\ Len(log) > 0 /\ ~wrapped => oldestTS = log[1]
    /\ wrapped => \/ oldestTS = log[Len(log) - Capacity(len) + 1]
                  \/ p = Capacity(len) /\ oldestTS = log[Len(log) - Capacity(len)]

OldestInv(len) == \E p \in 0 .. Capacity(len) : RingAt(len, p) /\ Oldest(len, p)

(* readTimestampAt at a full slot.                                          *)
LEMMA TimestampOfSlot ==
    ASSUME NEW len \in Nat, PrefixLen < len, NEW f, NEW end \in Nat, NEW i \in Nat, NEW ts,
           Holds(f, len, i, ts), Slot(len, i) \in Nat, Slot(len, i) + PrefixLen < end
    PROVE  TimestampsAt(f, end, Slot(len, i)) = {ts}
  <1> PICK o : o = Slot(len, i)
    OBVIOUS
  <1>1. PrefixLen \in Nat \ {0}
    BY RegionAssumption
  <1>2. \A p \in 0 .. PrefixLen : f[o + p] = [ts |-> ts, len |-> len, pos |-> p]
    <2>1. \A p \in 0 .. PrefixLen : p \in 0 .. len - 1
      BY <1>1
    <2> QED
      BY <2>1 DEF Holds
  <1>3. f[o] = [ts |-> ts, len |-> len, pos |-> 0]
    <2>1. 0 \in 0 .. PrefixLen /\ o + 0 = o
      BY <1>1
    <2> QED
      BY <1>2, <2>1
  <1>4. ASSUME NEW p \in 0 .. PrefixLen PROVE f[o + p].len = len /\ f[o + p].pos = p /\ f[o + p].ts = ts
    <2>1. f[o + p] = [ts |-> ts, len |-> len, pos |-> p]
      BY <1>2
    <2> QED
      BY <2>1
  <1>5. RecLenAt(f, o) = len
    <2>1. \A p \in 0 .. PrefixLen - 1 : p \in 0 .. PrefixLen
      BY <1>1
    <2>2. f[o].len = len /\ 0 \in 0 .. PrefixLen - 1
      BY <1>1, <1>3
    <2>3. len # 0
      BY <1>1
    <2>4. f[o + 0].len # 0
      BY <1>1, <1>4, <2>3
    <2> QED
      BY <1>4, <2>1, <2>2, <2>3, <2>4 DEF RecLenAt
  <1>6. f[o + PrefixLen].pos = PrefixLen /\ f[o + PrefixLen].ts = ts
    BY <1>1, <1>4
  <1>7. ~(o + PrefixLen >= end)
    BY <1>1
  <1> QED
    BY <1>1, <1>5, <1>6, <1>7 DEF TimestampsAt, Garbled

LEMMA WriteKeepsOldest ==
    ASSUME NEW len, RecLens = {len}, TypeOK, TypeOK', NEW p \in 0 .. Capacity(len),
           RingAt(len, p), Oldest(len, p), Capacity(len) # 1 \/ len = MaxData,
           NEW ts \in Nat \ {0}, len <= MaxData,
           file' = FileAfter(ts, len, len), fileEnd' = EndAfter(len, len), Commit(ts, len)
    PROVE  OldestInv(len)'
  <1> PICK n, cap : n = Len(log) /\ cap = Capacity(len)
    OBVIOUS
  <1>0. len \in Nat \ {0}
    BY RegionAssumption
  <1>1. /\ MaxData \in Nat /\ PrefixLen \in Nat \ {0} /\ PrefixLen < len
        /\ n \in Nat /\ log \in Seq(Nat) /\ wrapped \in BOOLEAN /\ fileEnd \in Nat
        /\ fileEnd' \in Nat /\ fileEnd' <= MaxData
    <2>1. fileEnd' \in 0 .. MaxData /\ fileEnd \in 0 .. MaxData
      BY DEF TypeOK
    <2> QED
      BY <2>1, RegionAssumption DEF TypeOK
  <1>2. /\ Slot(len, 0) = 0 /\ cap \in Nat /\ Slot(len, cap) \in Nat
        /\ Slot(len, cap) <= MaxData /\ MaxData < Slot(len, cap) + len
    BY <1>0, SlotAt
  <1>s. \A i \in Nat : Slot(len, i) \in Nat
    BY <1>0, SlotAt
  <1>t. \A i, j \in Nat : i < j => Slot(len, i) + len <= Slot(len, j)
    BY <1>0, SlotAt
  <1>3. /\ Wraps(len) <=> p = cap
        /\ Wraps(len) => Start(len) = 0 /\ RingAt(len, 1)' /\ 1 \in 1 .. cap
        /\ ~Wraps(len) => /\ Start(len) = Slot(len, p) /\ RingAt(len, p + 1)'
                          /\ p + 1 \in 1 .. cap
    BY WriteKeepsRing
  <1>4. PICK r : r \in 1 .. cap /\ RingAt(len, r)' /\ r = IF Wraps(len) THEN 1 ELSE p + 1
    BY <1>3
  <1>5. /\ writeOff' = Start(len) + len /\ wrapped' = (wrapped \/ Wraps(len))
        /\ log' = Append(log, ts)
        /\ \E t \in OldestAt(writeOff') :
               oldestTS' = IF t # 0 THEN t ELSE IF oldestTS = 0 THEN ts ELSE oldestTS
    BY DEF Commit, EndOfRecord
  <1>6. /\ Len(log') = n + 1 /\ log'[n + 1] = ts /\ \A i \in 1 .. n : log'[i] = log[i]
    BY <1>1, <1>5, AppendProperties
  <1>7. /\ writeOff' = Slot(len, r)
        /\ wrapped' => r + cap <= n + 1
        /\ \A i \in 0 .. r - 1 : Holds(file', len, i, log'[(n + 1) - r + 1 + i])
        /\ wrapped' => \A i \in r .. cap - 1 : Holds(file', len, i, log'[(n + 1) - r - cap + 1 + i])
        /\ \A o \in Offsets : o >= Slot(len, cap) => file'[o].len = 0
    BY <1>4, <1>6 DEF RingAt, Capacity
  <1>8. ASSUME NEW i \in 1 .. n + 1 PROVE log'[i] # 0
    <2>1. i = n + 1 \/ i \in 1 .. n
      BY <1>1
    <2> QED
      BY <1>6, <2>1 DEF Oldest
  <1>9. r \in Nat /\ r >= 1 /\ r <= cap /\ Slot(len, r) \in Nat
    <2>1. cap \in Nat
      BY <1>2
    <2>2. r \in Nat /\ r >= 1 /\ r <= cap
      BY <1>4, <2>1
    <2> QED
      BY <1>s, <2>2
  <1>a. n \in Nat /\ cap \in Nat /\ MaxData \in Nat /\ MaxData # 0 /\ len \in Nat /\ len # 0
    BY <1>0, <1>1, <1>2, RegionAssumption
  <1>e. fileEnd' >= fileEnd /\ fileEnd' >= writeOff'
    <2>1. Start(len) + len \in Nat
      <3>1. Start(len) \in Nat
        BY <1>a, StartFits DEF TypeOK
      <3> QED
        BY <1>0, <3>1
    <2> PICK x, y : x = Start(len) + len /\ y = IF SentinelCells(len) # {} THEN writeOff + PrefixLen ELSE 0
      OBVIOUS
    <2>2. fileEnd' = Larger(Larger(fileEnd, x), y)
      BY DEF EndAfter
    <2>3. y \in Int
      BY <1>1 DEF TypeOK
    <2> QED
      BY <1>1, <1>5, <2>1, <2>2, <2>3 DEF Larger
  <1>f. wrapped' => fileEnd' >= Slot(len, cap)
    <2>1. wrapped => fileEnd >= Slot(len, cap)
      BY DEF Oldest
    <2>2. Wraps(len) => fileEnd >= Slot(len, cap)
      BY <1>3 DEF Oldest, RingAt
    <2> QED
      BY <1>1, <1>2, <1>5, <1>e, <2>1, <2>2
  <1>10. CASE ~wrapped'
    <2>1. ~wrapped /\ OldestAt(writeOff') = {0}
      BY <1>5, <1>10 DEF OldestAt
    <2>2. oldestTS' = IF oldestTS = 0 THEN ts ELSE oldestTS
      BY <1>5, <2>1
    <2>3. oldestTS' = log'[1]
      <3>1. CASE n = 0
        <4>1. oldestTS = 0
          BY <3>1 DEF Oldest
        <4>2. n + 1 = 1
          BY <3>1
        <4> QED
          BY <1>6, <2>2, <4>1, <4>2
      <3>2. CASE n # 0
        <4>1. 1 \in 1 .. n /\ n > 0
          BY <1>1, <3>2
        <4>2. oldestTS = log[1] /\ log[1] # 0
          BY <2>1, <4>1 DEF Oldest
        <4> QED
          BY <1>6, <2>2, <4>1, <4>2
      <3> QED
        BY <3>1, <3>2
    <2>4. Oldest(len, r)'
      BY <1>1, <1>6, <1>8, <1>e, <1>10, <2>3 DEF Oldest
    <2>5. r \in 0 .. Capacity(len)
      BY <1>9, <1>2
    <2> QED
      BY <1>4, <2>4, <2>5 DEF OldestInv, Capacity
  <1>11. CASE wrapped'
    <2>1. OldestAt(writeOff') = TimestampsAt(file', fileEnd', Slot(len, r) % MaxData)
      BY <1>7, <1>11 DEF OldestAt
    <2>2. r + cap <= n + 1 /\ fileEnd' >= Slot(len, cap)
      BY <1>7, <1>11, <1>f
    <2> PICK f : f = (n + 1) - cap + 1
      OBVIOUS
    <2>3. f \in 1 .. n + 1 /\ f - 1 \in 1 .. n
      <3>1. r >= 1 /\ r <= cap /\ r \in Nat /\ r + cap <= n + 1
        BY <1>9, <2>2
      <3> QED
        BY ONLY <1>a, <3>1, f = (n + 1) - cap + 1
    <2> SUFFICES oldestTS' = log'[f] \/ (r = cap /\ oldestTS' = log'[f - 1])
      <3>1. Len(log') - cap + 1 = f /\ Len(log') - cap = f - 1 /\ Len(log') # 0
        BY <1>1, <1>2, <1>6
      <3>2. Oldest(len, r)'
        BY <1>6, <1>8, <1>e, <1>11, <2>2, <3>1 DEF Oldest, Capacity, Slot
      <3>3. r \in 0 .. Capacity(len)
        BY <1>9, <1>2
      <3> QED
        BY <1>4, <3>2, <3>3 DEF OldestInv, Capacity
    <2>4. ASSUME NEW i \in Nat, i < cap, Holds(file', len, i, log'[f]), Slot(len, r) % MaxData = Slot(len, i)
          PROVE  oldestTS' = log'[f]
      <3>1. Slot(len, i) \in Nat /\ Slot(len, i) + len <= Slot(len, cap)
        BY <1>2, <1>s, <1>t, <2>4
      <3>2. Slot(len, i) + PrefixLen < fileEnd' /\ len \in Nat
        <4>1. /\ Slot(len, cap) \in Nat /\ fileEnd' \in Nat /\ PrefixLen \in Nat
              /\ PrefixLen < len /\ fileEnd' >= Slot(len, cap)
          BY <1>1, <1>2, <2>2
        <4> QED
          BY ONLY <1>a, <3>1, <4>1
      <3>3. TimestampsAt(file', fileEnd', Slot(len, i)) = {log'[f]}
        BY ONLY <1>1, <2>4, i \in Nat, <3>1, <3>2, TimestampOfSlot
      <3>4. log'[f] # 0
        BY <1>8, <2>3
      <3> QED
        BY <1>5, <2>1, <2>4, <3>3, <3>4
    <2>5. CASE r < cap
      <3>1. (n + 1) - r - cap + 1 + r = f /\ r \in r .. cap - 1
        <4>1. r \in Nat /\ r < cap
          BY <1>9, <2>5
        <4> QED
          BY ONLY <1>a, <4>1, f = (n + 1) - cap + 1
      <3>2. Holds(file', len, r, log'[f])
        BY <1>7, <1>11, <3>1
      <3>3. Slot(len, r) % MaxData = Slot(len, r)
        <4>1. Slot(len, r) + len <= Slot(len, cap)
          BY <1>2, <1>9, <1>t, <2>5
        <4>2. Slot(len, r) < MaxData
          <5>1. /\ Slot(len, cap) \in Nat /\ Slot(len, r) \in Nat /\ Slot(len, cap) <= MaxData
            BY <1>2, <1>9
          <5> QED
            BY ONLY <1>a, <4>1, <5>1
        <4>3. Slot(len, r) \in Nat
          BY <1>9
        <4> PICK z : z = Slot(len, r)
          OBVIOUS
        <4> QED
          BY ONLY <1>a, <4>2, <4>3, z = Slot(len, r)
      <3> QED
        BY <1>9, <2>4, <2>5, <3>2, <3>3
    <2>6. CASE r = cap /\ Slot(len, cap) = MaxData
      <3>1. (n + 1) - r + 1 + 0 = f /\ 0 \in 0 .. r - 1 /\ 0 < cap /\ 0 \in Nat
        BY <1>1, <1>2, <1>9, <2>6
      <3>2. Holds(file', len, 0, log'[f])
        BY <1>7, <3>1
      <3>3. Slot(len, r) % MaxData = Slot(len, 0)
        <4>1. MaxData # 0
          BY RegionAssumption
        <4>2. MaxData % MaxData = 0
          BY ONLY <1>1, <4>1
        <4> QED
          BY <1>2, <2>6, <4>2
      <3> QED
        BY <2>4, <3>1, <3>2, <3>3
    <2>7. CASE r = cap /\ Slot(len, cap) # MaxData
      <3>1. Slot(len, cap) < MaxData
        BY <1>1, <1>2, <2>7
      <3>2. cap # 1
        <4>1. Slot(len, 1) = len
          BY <1>0 DEF Slot
        <4> QED
          BY <2>7, <4>1
      <3>3. ~Wraps(len) /\ wrapped /\ p # cap
        BY <1>3, <1>4, <1>5, <1>11, <2>7, <3>2
      <3>4. oldestTS = log[n - cap + 1]
        BY <3>3 DEF Oldest
      <3>5. oldestTS = log'[f - 1] /\ oldestTS # 0
        <4>1. n - cap + 1 = f - 1 /\ f - 1 \in 1 .. n + 1
          <5>1. f \in 1 .. n + 1 /\ f = (n + 1) - cap + 1 /\ f - 1 \in 1 .. n
            BY <2>3
          <5> QED
            BY ONLY <1>a, <5>1
        <4>2. log'[f - 1] # 0
          BY <1>8, <4>1
        <4>3. log'[f - 1] = log[f - 1]
          BY <1>6, <2>3
        <4> QED
          BY <3>4, <4>1, <4>2, <4>3
      <3>6. TimestampsAt(file', fileEnd', Slot(len, cap)) = {0}
        <4>1. CASE Slot(len, cap) + PrefixLen >= fileEnd'
          BY <4>1 DEF TimestampsAt
        <4>2. CASE ~(Slot(len, cap) + PrefixLen >= fileEnd')
          <5>1. \A q \in 0 .. PrefixLen - 1 : file'[Slot(len, cap) + q].len = 0
            <6> SUFFICES ASSUME NEW q \in 0 .. PrefixLen - 1
                         PROVE  file'[Slot(len, cap) + q].len = 0
              OBVIOUS
            <6>1. Slot(len, cap) + q \in Offsets /\ Slot(len, cap) + q >= Slot(len, cap)
              BY <1>1, <1>2, <4>2 DEF Offsets
            <6> QED
              BY <1>7, <6>1
          <5>2. RecLenAt(file', Slot(len, cap)) = 0
            BY <5>1 DEF RecLenAt
          <5> QED
            BY <5>2 DEF TimestampsAt
        <4> QED
          BY <4>1, <4>2
      <3>7. Slot(len, r) % MaxData = Slot(len, cap)
        <4>1. Slot(len, cap) % MaxData = Slot(len, cap)
          <5> PICK z : z = Slot(len, cap)
            OBVIOUS
          <5>1. z \in Nat /\ z < MaxData
            BY <1>2, <3>1
          <5>2. z % MaxData = z
            BY ONLY <1>a, <5>1
          <5> QED
            BY <5>2
        <4> QED
          BY <2>7, <4>1
      <3> QED
        BY <1>5, <2>1, <2>7, <3>5, <3>6, <3>7
    <2> QED
      BY <1>2, <1>9, <2>5, <2>6, <2>7
  <1> QED
    BY <1>10, <1>11

LEMMA OldestStep ==
    ASSUME NEW len, RecLens = {len}, MagicLen # MagicField, MaxFailures = 0,
           Capacity(len) # 1 \/ len = MaxData,
           TypeInv, TypeInv', OldestInv(len), [Next]_vars
    PROVE  OldestInv(len)'
  <1> USE DEF TypeInv
  <1> PICK p \in 0 .. Capacity(len) : RingAt(len, p) /\ Oldest(len, p)
    BY DEF OldestInv
  <1>0. len \in Nat \ {0}
    BY RegionAssumption
  <1>1. Slot(len, 0) = 0 /\ Capacity(len) \in Nat
    BY <1>0, SlotAt
  <1>2. ASSUME NEW ts \in 1 .. MaxClock, Write(ts, len)
        PROVE  OldestInv(len)'
    <2>1. /\ len <= MaxData /\ file' = FileAfter(ts, len, len) /\ Commit(ts, len)
          /\ fileEnd' = EndAfter(len, len) /\ ts \in Nat \ {0}
      BY <1>2, ClockAssumption DEF Write
    <2> QED
      BY <2>1, WriteKeepsOldest
  <1>3. ~WriteFault
    BY DEF WriteFault, TypeOK
  <1>4. ASSUME UNCHANGED <<writeOff, file, fileEnd, oldestTS, log, wrapped>>
        PROVE  OldestInv(len)'
    <2>1. RingAt(len, p)' /\ Oldest(len, p)'
      BY <1>4 DEF RingAt, Oldest, Holds, Slot, Capacity
    <2> QED
      BY <2>1 DEF OldestInv, Capacity
  <1>5. CASE Flush
    BY <1>4, <1>5 DEF Flush, memory
  <1>6. ASSUME NEW h, OpenTier(h) PROVE OldestInv(len)'
    <2>1. /\ writeOff' = 0 /\ wrapped' = FALSE /\ file' = file /\ log' = <<>>
          /\ oldestTS' = 0 /\ fileEnd' = fileEnd
      BY <1>6 DEF OpenTier, HeaderAccepted, Reinitialise
    <2>2. Len(log') = 0 /\ fileEnd' \in Nat
      BY <2>1 DEF TypeOK
    <2>3. RingAt(len, 0)'
      BY <1>1, <2>1, <2>2 DEF RingAt, Capacity, Slot
    <2>4. Oldest(len, 0)'
      BY <2>1, <2>2 DEF Oldest
    <2>5. 0 \in 0 .. Capacity(len)
      BY <1>1
    <2> QED
      BY <2>3, <2>4, <2>5 DEF OldestInv, Capacity
  <1>7. CASE Restart \/ Crash
    BY <1>6, <1>7 DEF Restart, Crash
  <1>8. CASE UNCHANGED vars
    BY <1>4, <1>8 DEF vars, memory
  <1> QED
    BY <1>2, <1>3, <1>5, <1>7, <1>8 DEF Next, WriteFails, HeaderFails

LEMMA OldestInit ==
    ASSUME NEW len, RecLens = {len}
    PROVE  Init => OldestInv(len)
  <1> SUFFICES ASSUME Init PROVE OldestInv(len)
    OBVIOUS
  <1>0. len \in Nat \ {0}
    BY RegionAssumption
  <1>1. Slot(len, 0) = 0 /\ Capacity(len) \in Nat
    BY <1>0, SlotAt
  <1>2. writeOff = 0 /\ wrapped = FALSE /\ log = <<>> /\ Len(log) = 0 /\ fileEnd = 0 /\ oldestTS = 0
    BY DEF Init
  <1>3. \A o \in Offsets : file[o].len = 0
    BY DEF Init, Zero
  <1>4. RingAt(len, 0) /\ Oldest(len, 0)
    BY <1>1, <1>2, <1>3 DEF RingAt, Oldest
  <1>5. 0 \in 0 .. Capacity(len)
    BY <1>1
  <1> QED
    BY <1>4, <1>5 DEF OldestInv

LEMMA OldestBound ==
    ASSUME NEW len, RecLens = {len}, TypeInv, ScanInv, OldestInv(len)
    PROVE  OldestIsLowerBound
  <1> PICK p \in 0 .. Capacity(len) : RingAt(len, p) /\ Oldest(len, p)
    BY DEF OldestInv
  <1> SUFFICES ASSUME count > 0
               PROVE  /\ oldestTS <= Latest[1]
                      /\ Len(InLog(log, oldestTS, Latest[1])) <= 2
    BY DEF OldestIsLowerBound, Latest
  <1> PICK n, cap, L : n = Len(log) /\ cap = Capacity(len) /\ L = LastN(log, Capacity(len))
    OBVIOUS
  <1>0. len \in Nat \ {0}
    BY RegionAssumption
  <1>1. n \in Nat /\ n > 0 /\ cap \in Nat /\ log \in Seq(Nat) /\ wrapped \in BOOLEAN
    BY <1>0, SlotAt DEF TypeInv, TypeOK
  <1>2. Latest = L
    BY LatestOfRing DEF RingInv
  <1>r. /\ p \in Nat /\ p <= cap /\ p <= n /\ (~wrapped => p = n)
        /\ wrapped => p >= 1 /\ p + cap <= n
    BY <1>1 DEF RingAt
  <1>3. /\ Len(L) = IF wrapped THEN cap ELSE p
        /\ \A i \in 1 .. Len(L) : L[i] = log[n - Len(L) + i]
    BY RingHolds DEF TypeInv
  <1> PICK f : f = n - Len(L) + 1
    OBVIOUS
  <1>4. f \in 1 .. n /\ L[1] = log[f] /\ (wrapped => f > 1)
    <2>1. Len(L) >= 1 /\ Len(L) <= n /\ Len(L) \in Nat
      BY <1>1, <1>3, <1>r
    <2>2. 1 \in 1 .. Len(L) /\ n - Len(L) + 1 = f
      BY <2>1
    <2>3. L[1] = log[f]
      BY <1>3, <2>2
    <2>4. wrapped => Len(L) < n
      BY <1>1, <1>3, <1>r
    <2> QED
      BY <1>1, <2>1, <2>3, <2>4
  <1>5. PICK o : o \in 1 .. n /\ oldestTS = log[o] /\ (o = f \/ o = f - 1)
    <2>1. CASE ~wrapped
      <3>1. f = 1 /\ oldestTS = log[1]
        BY <1>1, <1>3, <1>r, <2>1 DEF Oldest
      <3> QED
        BY <1>4, <3>1
    <2>2. CASE wrapped
      <3>1. n - cap + 1 = f /\ n - cap = f - 1 /\ f - 1 \in 1 .. n
        BY <1>1, <1>3, <1>4, <2>2
      <3>2. oldestTS = log[n - cap + 1] \/ oldestTS = log[n - cap]
        BY <2>2 DEF Oldest
      <3> QED
        BY <1>4, <3>1, <3>2
    <2> QED
      BY <2>1, <2>2
  <1>6. \A i, k \in 1 .. n : i < k => log[i] < log[k]
    BY DEF ScanInv
  <1>7. \A i \in 1 .. n : log[i] \in Nat
    BY <1>1
  <1>8. o <= f /\ o \in 1 .. n /\ f \in 1 .. n /\ o \in Nat /\ f \in Nat /\ f - o <= 1
    BY <1>1, <1>4, <1>5
  <1>9. oldestTS <= L[1]
    <2>1. o = f \/ log[o] < log[f]
      BY <1>6, <1>8
    <2> QED
      BY <1>4, <1>5, <1>7, <2>1
  <1>10. {i \in DOMAIN log : oldestTS <= log[i] /\ log[i] <= L[1]} = o .. f
    <2>1. DOMAIN log = 1 .. n
      BY <1>1
    <2>2. ASSUME NEW i \in 1 .. n, log[o] <= log[i], log[i] <= log[f] PROVE i \in o .. f
      <3>1. ~(log[i] < log[o]) /\ ~(log[f] < log[i])
        BY <1>7, <1>8, <2>2
      <3>2. ~(i < o) /\ ~(f < i)
        BY <1>6, <1>8, <3>1
      <3> QED
        BY <1>8, <3>2
    <2>3. ASSUME NEW i \in o .. f PROVE i \in 1 .. n /\ log[o] <= log[i] /\ log[i] <= log[f]
      <3>1. i \in 1 .. n /\ (o = i \/ o < i) /\ (i = f \/ i < f)
        <4>1. n \in Nat
          BY <1>1
        <4> QED
          BY ONLY <1>8, <4>1, i \in o .. f
      <3>2. (o = i \/ log[o] < log[i]) /\ (i = f \/ log[i] < log[f])
        BY <1>6, <1>8, <3>1
      <3> QED
        BY <1>7, <1>8, <3>1, <3>2
    <2> QED
      BY <1>4, <1>5, <2>1, <2>2, <2>3
  <1>11. Len(Kept(log, o .. f)) = f - o + 1
    <2>1. o \in 1 .. Len(log) + 1 /\ f \in 0 .. Len(log) /\ o <= f + 1
      BY <1>1, <1>8
    <2> QED
      BY <1>1, <2>1, KeptRun
  <1>12. Len(InLog(log, oldestTS, L[1])) <= 2
    <2>1. InLog(log, oldestTS, L[1]) = Kept(log, o .. f)
      BY <1>10 DEF InLog
    <2>2. f - o + 1 <= 2
      BY ONLY <1>8
    <2> QED
      BY <1>11, <2>1, <2>2
  <1> QED
    BY <1>2, <1>9, <1>12

(* With records of one length and no failing write, oldestTS never lies     *)
(* after a record that the tier still has, and at most one record before    *)
(* the oldest: the tier that QueryRangeWithMeta skips has nothing to give.  *)
(* A region that holds one record and a tail is excluded: there the write   *)
(* offset is always at the tail and oldestTS stays at the first record.     *)
THEOREM OldestBounds ==
    ASSUME NEW len, RecLens = {len}, MagicLen # MagicField, MaxFailures = 0,
           \A d \in ClockSteps : d > 0, Capacity(len) # 1 \/ len = MaxData
    PROVE  Spec => []OldestIsLowerBound
  <1>1. Init => PassInv
    BY DEF Init, PassInv, CurrentPassWhole
  <1>2. TypeInv /\ PassInv /\ [Next]_vars => PassInv'
    BY PassStep
  <1>3. TypeInv /\ TypeInv' /\ PassInv /\ ScanInv /\ [Next]_vars => ScanInv'
    BY ScanStep
  <1>4. TypeInv /\ TypeInv' /\ OldestInv(len) /\ [Next]_vars => OldestInv(len)'
    BY OldestStep
  <1>5. Init => OldestInv(len)
    BY OldestInit
  <1>6. TypeInv /\ ScanInv /\ OldestInv(len) => OldestIsLowerBound
    BY OldestBound
  <1> QED
    BY <1>1, <1>2, <1>3, <1>4, <1>5, <1>6, TypeInit, TypeStep, ScanInit, PTL DEF Spec
=============================================================================
