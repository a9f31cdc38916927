-------------------------------- MODULE Codec --------------------------------
(***************************************************************************)
(* The binary form of a record (internal/storage/codec.go) and of what     *)
(* readRecord of tier.go finds in a file: records of this and of earlier   *)
(* versions.  A payload is a sequence of cells; a cell is a string, one    *)
(* number, or the numbers of a block that are always together.  A float is *)
(* a float32 on disk, which is exact for the values considered here.  The  *)
(* decoder knows what a cell is by its position only, so a section that is *)
(* read with the wrong length shifts everything that follows.              *)
(***************************************************************************)
EXTENDS Loops

CONSTANTS
    MaxRunning,  \* 65535: a load's threads (and the entropy) are capped
    UserLimit,   \* 256: users (and cores, files, 32-bit counts) wrap around
    LowByte,     \* 256: a timestamp is a low byte and the rest
    KindBinary,  \* 2, the first byte of a record of this version
    KindJSON,    \* '{', the first byte of a JSON record
    LongStrings, \* strings of more than 255 bytes
    GroupOrder   \* the names of custom groups, sorted

ASSUME CodecAssumption ==
    /\ MaxRunning \in Nat /\ UserLimit \in Nat \ {0} /\ LowByte \in Nat \ {0}
    /\ KindBinary # KindJSON /\ {KindBinary, KindJSON} \subseteq 0 .. LowByte - 1

\* What a version writes: whether it has a section, and which layout.
Current ==
    [kind |-> TRUE, gpu |-> TRUE, apps |-> TRUE, mysql |-> TRUE, apache2 |-> 2, postgres |-> 2]

absent == <<>>
-----------------------------------------------------------------------------
(* The encoder, for Current; the other formats are those that the decoder  *)
(* and its tests expect of earlier versions.                               *)

\* There is no cell for retrans (TCPStats.Retrans), nor for psu (Sample.PSU) in
\* VariableCells.
FixedCells(s) ==
    <<s.usage, s.irq, s.used,
      IF s.running > MaxRunning THEN MaxRunning ELSE s.running,
      s.users % UserLimit>>

\* A count and the entries.
Named(list) ==
    <<Len(list)>>
    \o Joined([i \in 1 .. Len(list) |-> <<list[i].name, list[i].value>>])

DiskCells(disks) ==
    <<Len(disks)>> \o Joined([i \in 1 .. Len(disks) |->
        <<disks[i].name, disks[i].value>> \o Named(disks[i].temps)])

\* The presence byte, which is the version of the layout, and the block.
Block(app, version, size) ==
    IF app = absent THEN <<0>> ELSE <<version>> \o SubSeq(app, 1, size)

CustomCells(custom) ==
    LET groups == Kept(GroupOrder, {i \in 1 .. Len(GroupOrder) :
                                        GroupOrder[i] \in DOMAIN custom})
    IN <<Len(groups)>> \o Joined([i \in 1 .. Len(groups) |->
           <<groups[i]>> \o Named(custom[groups[i]])])

AppCells(s, f) ==
    Block(s.nginx, 1, 1) \o Named(s.containers)
    \o Block(s.postgres, f.postgres, f.postgres)
    \o (IF f.mysql THEN Block(s.mysql, 1, 1) ELSE <<>>)
    \o (IF f.apache2 > 0 THEN Block(s.apache2, f.apache2, f.apache2) ELSE <<>>)
    \o CustomCells(s.custom)

VariableCells(s, f) ==
    Named(s.ifaces) \o Named(s.sensors) \o DiskCells(s.disks) \o Named(s.fs)
    \o <<s.host>>
    \o (IF f.gpu THEN Named(s.gpu) ELSE <<>>)
    \o (IF f.apps THEN AppCells(s, f) ELSE <<>>)

SampleCells(s, f) == FixedCells(s) \o VariableCells(s, f)

\* Seeded mistake: the minimum is written without its flag.
FlagsNoMin(r, f) ==
    {x \in {"data", "max"} : r[x] # absent}
    \union (IF f.apps THEN {"apps"} ELSE {})
    \union (IF f.mysql THEN {"mysql"} ELSE {})
    \union (IF f.apache2 > 0 THEN {"apache2"} ELSE {})

Flags(r, f) ==
    {x \in {"data", "min", "max"} : r[x] # absent}
    \union (IF f.apps THEN {"apps"} ELSE {})
    \union (IF f.mysql THEN {"mysql"} ELSE {})
    \union (IF f.apache2 > 0 THEN {"apache2"} ELSE {})

\* A fixed and a variable block for each sample that the record has.
BlockCells(s, f) == IF s = absent THEN <<>> ELSE SampleCells(s, f)

\* encodeSampleV: the kind, the preamble, and the blocks.
EncodeAs(r, f) ==
    (IF f.kind THEN <<KindBinary>> ELSE <<>>)
    \o <<r.ts % LowByte, r.ts \div LowByte, Flags(r, f)>>
    \o BlockCells(r.data, f) \o BlockCells(r.min, f) \o BlockCells(r.max, f)

Encode(r) == EncodeAs(r, Current)

\* A JSON record holds every field as it is.
EncodeJSON(r) == <<KindJSON, r>>

\* appendStr refuses a long string, and Write fails.
Encodable(s) ==
    LET short(list) == \A i \in 1 .. Len(list) : list[i].name \notin LongStrings
    IN /\ short(s.ifaces) /\ short(s.sensors) /\ short(s.disks) /\ short(s.fs)
       /\ \A i \in 1 .. Len(s.disks) : short(s.disks[i].temps)
       /\ s.host \notin LongStrings
       /\ short(s.gpu) /\ short(s.containers)
       /\ \A g \in DOMAIN s.custom : g \notin LongStrings /\ short(s.custom[g])
-----------------------------------------------------------------------------
(* The decoder: each part gives what it has read and where the next part   *)
(* begins.                                                                 *)

\* A field of the result is set.
With(result, field, value) ==
    [x \in DOMAIN result \union {field} |-> IF x = field THEN value ELSE result[x]]

CellAt(d, o) == [value |-> d[o], end |-> o + 1]

NamedAt(d, o) ==
    [value |-> [i \in 1 .. d[o] |-> [name |-> d[o + 2 * i - 1], value |-> d[o + 2 * i]]],
     end |-> o + 1 + 2 * d[o]]

DisksAt(d, o) ==
    LET read[n \in 0 .. d[o]] ==
            IF n = 0 THEN [value |-> <<>>, end |-> o + 1]
            ELSE LET at == read[n - 1].end
                     temps == NamedAt(d, at + 2)
                 IN [value |-> Append(read[n - 1].value,
                         [name |-> d[at], value |-> d[at + 1], temps |-> temps.value]),
                     end |-> temps.end]
    IN read[d[o]]

\* Seeded mistake: each group begins with an empty map.
CustomAtLast(d, o) ==
    LET read[n \in 0 .. d[o]] ==
            IF n = 0 THEN [value |-> <<>>, end |-> o + 1]
            ELSE LET at == read[n - 1].end
                     group == NamedAt(d, at + 1)
                 IN [value |-> [g \in {d[at]} |-> group.value], end |-> group.end]
    IN read[d[o]]

CustomAt(d, o) ==
    LET read[n \in 0 .. d[o]] ==
            IF n = 0 THEN [value |-> <<>>, end |-> o + 1]
            ELSE LET at == read[n - 1].end
                     group == NamedAt(d, at + 1)
                 IN [value |-> With(read[n - 1].value, d[at], group.value),
                     end |-> group.end]
    IN read[d[o]]

\* A presence byte and a block; fields that its version lacks are zero.
BlockAt(d, o, size, full) ==
    IF d[o] = 0 THEN [value |-> absent, end |-> o + 1]
    ELSE [value |-> [k \in 1 .. full |-> IF k <= size THEN d[o + k] ELSE 0],
          end |-> o + 1 + size]

PostgresAt(d, o) == BlockAt(d, o, IF d[o] = 1 THEN 1 ELSE 2, 2)

\* Seeded mistake: a block of the first layout is skipped.
Apache2AtNew(d, o) ==
    IF d[o] # 2 THEN [value |-> absent, end |-> o + 1 + d[o]] ELSE BlockAt(d, o, 2, 2)

\* A version that is not known is skipped as if it were not there.
Apache2At(d, o) ==
    IF d[o] > 2 THEN [value |-> absent, end |-> o + 1] ELSE BlockAt(d, o, d[o], 2)

Parts ==
    <<"usage", "irq", "used", "running", "users",
      "ifaces", "sensors", "disks", "fs", "host", "gpu",
      "nginx", "containers", "postgres", "mysql", "apache2", "custom">>
FixedParts == {"usage", "irq", "used", "running", "users"}
AppParts == {"nginx", "containers", "postgres", "mysql", "apache2", "custom"}

\* The sections that an earlier version did not write; its flags tell.
Lacks(part, flags) ==
    \/ part \in AppParts /\ "apps" \notin flags
    \/ part \in {"mysql", "apache2"} /\ part \notin flags

PartAt(d, o, part, flags) ==
    IF Lacks(part, flags) THEN [value |-> absent, end |-> o]
    ELSE CASE part \in FixedParts \union {"host"} -> CellAt(d, o)
           [] part = "disks"              -> DisksAt(d, o)
           [] part = "postgres"           -> PostgresAt(d, o)
           [] part = "apache2"            -> Apache2At(d, o)
           [] part = "custom"             -> CustomAt(d, o)
           [] part \in {"nginx", "mysql"} -> BlockAt(d, o, 1, 1)
           [] OTHER                       -> NamedAt(d, o)

\* decodeFixed and decodeVariable.  Only the GPU section and what follows may be
\* beyond the end of the data; what has no cell keeps its zero value.
SampleAt(d, o, ts, flags) ==
    LET read[n \in 0 .. Len(Parts)] ==
            IF n = 0 THEN [value |-> [ts |-> ts, retrans |-> 0, psu |-> absent], end |-> o]
            ELSE LET before == read[n - 1]
                     next == IF before.end > Len(d) THEN [value |-> absent, end |-> before.end]
                             ELSE PartAt(d, before.end, Parts[n], flags)
                 IN [value |-> With(before.value, Parts[n], next.value), end |-> next.end]
    IN read[Len(Parts)]

Blocks == <<"data", "min", "max">>

\* decodeSample
Decode(d) ==
    LET ts == d[1] + LowByte * d[2]
        read[n \in 0 .. Len(Blocks)] ==
            IF n = 0 THEN [value |-> [ts |-> ts], end |-> 4]
            ELSE LET before == read[n - 1]
                     next == IF Blocks[n] \in d[3] THEN SampleAt(d, before.end, ts, d[3])
                             ELSE [value |-> absent, end |-> before.end]
                 IN [value |-> With(before.value, Blocks[n], next.value), end |-> next.end]
    IN read[Len(Blocks)].value

\* readRecord: the first byte tells the formats apart.
ReadRecord(p) ==
    IF p[1] = KindJSON THEN p[2]
    ELSE Decode(IF p[1] = KindBinary THEN Tail(p) ELSE p)

\* extractTimestamp, and readTimestampAt of tier.go.
ExtractTimestamp(p) ==
    CASE p[1] = KindBinary -> p[2] + LowByte * p[3]
      [] p[1] = KindJSON   -> p[2].ts
      [] OTHER             -> p[1] + LowByte * p[2]
=============================================================================
