------------------------------- MODULE Records -------------------------------
(***************************************************************************)
(* What a sample becomes on its way through the store: Aggregation and     *)
(* Codec together.  WriteSample writes the sample to tier 0, and rolls up  *)
(* what it holds in memory; a history answer combines what it reads back.  *)
(* Failures, files that wrap and restarts are in Store, where a record is  *)
(* the samples it is made of; here it is what they have become.            *)
(***************************************************************************)
EXTENDS Aggregation, Codec, FiniteSetsExt

CONSTANTS
    Samples,         \* what may be measured
    Ratio1, Ratio2,  \* Store.ratio1 and ratio2
    FirstTime,       \* when the first sample is taken
    MaxSamples,      \* bound: samples taken
    OldFormats       \* formats of earlier versions

ASSUME RecordsAssumption ==
    /\ Ratio1 \in Nat \ {0} /\ Ratio2 \in Nat \ {0}
    /\ FirstTime \in Nat /\ MaxSamples \in Nat

\* What a sample is made of.
NamedValue == [name : STRING, value : Int]
Device == [name : STRING, value : Int, temps : Seq(NamedValue)]
App(size) == {absent} \union [1 .. size -> Int]
Groups == {GroupOrder[i] : i \in 1 .. Len(GroupOrder)}
SampleWith(groups) ==
    [ts : Nat, usage : Int, irq : Int, used : Int, running : Nat, users : Nat,
     ifaces : Seq(NamedValue), sensors : Seq(NamedValue), disks : Seq(Device),
     fs : Seq(NamedValue), host : STRING, gpu : Seq(NamedValue), nginx : App(1),
     containers : Seq(NamedValue), postgres : App(2), mysql : App(1),
     apache2 : App(2), custom : [groups -> Seq(NamedValue)],
     retrans : Int, psu : Seq(NamedValue)]

Distinct(list) == \A i, j \in 1 .. Len(list) : list[i].name = list[j].name => i = j

\* The kernel lists a disk and an interface once.
ASSUME SamplesAssumption ==
    /\ \A s \in Samples :
           /\ \E groups \in SUBSET Groups : s \in SampleWith(groups)
           /\ Distinct(s.disks) /\ Distinct(s.ifaces)
    /\ GroupOrder \in Seq(STRING)

\* The applications came after the GPU section.
ASSUME FormatsAssumption ==
    \A f \in OldFormats :
        /\ f \in [kind : BOOLEAN, gpu : BOOLEAN, apps : BOOLEAN, mysql : BOOLEAN,
                 apache2 : 0 .. 2, postgres : 1 .. 2]
        /\ f.apps => f.gpu

VARIABLES
    taken,    \* history: the samples that were stored, in order
    file,     \* the payloads of each tier
    written,  \* history: the records of each tier before they were encoded
    tier1Buf, \* samples not yet rolled up
    tier2Buf, \* records of tier 1 not yet rolled up
    answer    \* a point of the last history answer, and the records it combines

vars == <<taken, file, written, tier1Buf, tier2Buf, answer>>

Tiers == 0 .. 2

\* No query since the last sample.
unasked == [tier |-> 0, from |-> 1, to |-> 0, point |-> nil]
asked == answer.to > 0

\* A raw sample, as WriteSample wraps it.
Raw(sample) == [ts |-> sample.ts, data |-> sample, min |-> nil, max |-> nil]

\* What a sample adds to each tier: itself, and what is rolled up with it.
Added(sample, agg, agg3, rolls1, rolls2) ==
    [k \in Tiers |-> CASE k = 0 -> <<Raw(sample)>>
                       [] k = 1 -> IF rolls1 THEN <<agg>> ELSE <<>>
                       [] k = 2 -> IF rolls2 THEN <<agg3>> ELSE <<>>]

\* A file holds records, encoded.
Encoded(records) == [i \in 1 .. Len(records) |-> Encode(records[i])]

\* WriteSample, with a roll-up to tier 1 and 2 when there is enough.
WriteSample(s) ==
    LET sample == [s EXCEPT !.ts = FirstTime + Len(taken)]
        buf1 == Append(tier1Buf, sample)
        rolls1 == Len(buf1) >= Ratio1
        agg == AggregateSamples(buf1)
        buf2 == Append(tier2Buf, agg)
        rolls2 == rolls1 /\ Len(buf2) >= Ratio2
        agg3 == AggregateAggregated(buf2)
        new == Added(sample, agg, agg3, rolls1, rolls2)
    IN /\ Encodable(sample)
       /\ Len(taken) < MaxSamples
       /\ taken' = Append(taken, sample)
       /\ answer' = unasked
       /\ tier1Buf' = IF rolls1 THEN <<>> ELSE buf1
       /\ tier2Buf' = IF rolls2 THEN <<>> ELSE IF rolls1 THEN buf2 ELSE tier2Buf
       /\ written' = [k \in Tiers |-> written[k] \o new[k]]
       /\ file' = [k \in Tiers |-> file[k] \o Encoded(new[k])]

\* A string that is too long: the write to tier 0 fails and nothing changes.
WriteSampleFails(s) ==
    /\ ~Encodable(s)
    /\ UNCHANGED vars

\* The records i to j of a tier, as ReadRange reads them.
Read(k, i, j) == [x \in 1 .. j - i + 1 |-> ReadRecord(file[k][i + x - 1])]

\* QueryRangeWithMeta: a point of an answer, which may combine several records.
\* Bound: one between two samples, as it changes nothing.
Query(k, i, j) ==
    /\ ~asked
    /\ answer' = [tier |-> k, from |-> i, to |-> j,
                  point |-> AggregateAggregated(Read(k, i, j))]
    /\ UNCHANGED <<taken, file, written, tier1Buf, tier2Buf>>

Init ==
    /\ taken = <<>> /\ tier1Buf = <<>> /\ tier2Buf = <<>> /\ answer = unasked
    /\ file = [k \in Tiers |-> <<>>]
    /\ written = [k \in Tiers |-> <<>>]

Next ==
    \/ \E s \in Samples : WriteSample(s) \/ WriteSampleFails(s)
    \/ \E k \in Tiers : \E i \in 1 .. Len(file[k]) : \E j \in i .. Len(file[k]) :
           Query(k, i, j)

Spec == Init /\ [][Next]_vars
-----------------------------------------------------------------------------
(* What is expected.                                                       *)

\* The samples behind the point of the answer.
Behind ==
    LET size == CASE answer.tier = 0 -> 1
                  [] answer.tier = 1 -> Ratio1
                  [] answer.tier = 2 -> Ratio1 * Ratio2
    IN {taken[x] : x \in (answer.from - 1) * size + 1 .. answer.to * size}

\* What a record is when it is read back: all its samples have its timestamp,
\* two numbers have been cut to their width, and the retransmissions and the
\* power supplies, which no record holds, are gone.
StorableSample(s, ts) ==
    IF s = nil THEN nil
    ELSE [s EXCEPT !.ts = ts,
                   !.running = IF @ > MaxRunning THEN MaxRunning ELSE @,
                   !.users = @ % UserLimit,
                   !.retrans = 0, !.psu = <<>>]
Storable(r) ==
    [ts |-> r.ts, data |-> StorableSample(r.data, r.ts),
     min |-> StorableSample(r.min, r.ts), max |-> StorableSample(r.max, r.ts)]

\* What a record of an earlier version tells of a sample.
SampleAs(s, f) ==
    LET first(app, size) ==
            IF app = absent THEN absent
            ELSE [k \in 1 .. Len(app) |-> IF k <= size THEN app[k] ELSE 0]
        old == [s EXCEPT !.gpu = IF f.gpu THEN @ ELSE <<>>]
    IN IF s = nil THEN nil
       ELSE IF ~f.apps
       THEN [old EXCEPT !.nginx = absent, !.containers = <<>>, !.postgres = absent,
                        !.mysql = absent, !.apache2 = absent, !.custom = <<>>]
       ELSE [old EXCEPT !.postgres = first(@, f.postgres),
                        !.mysql = IF f.mysql THEN @ ELSE absent,
                        !.apache2 = IF f.apache2 = 0 THEN absent ELSE first(@, f.apache2)]
RecordAs(r, f) ==
    [ts |-> r.ts, data |-> SampleAs(r.data, f),
     min |-> SampleAs(r.min, f), max |-> SampleAs(r.max, f)]
-----------------------------------------------------------------------------
(* Properties.                                                             *)

\* What is read from a file is what was written to it, in whatever combination
\* of devices and applications, apart from what Storable names: the numbers that
\* are cut and the two fields that are not stored, and nothing else.  And its
\* timestamp is found without decoding it.
NothingElseLost ==
    \A k \in Tiers : \A i \in 1 .. Len(file[k]) :
        /\ ReadRecord(file[k][i]) = Storable(written[k][i])
        /\ ExtractTimestamp(file[k][i]) = written[k][i].ts

\* "The binary codec must read records written by ALL previous versions"
\* (codec.go): with fewer sections, shorter blocks, no kind byte, or in JSON.
\* Records without a kind byte are told by their first byte, so those whose
\* timestamp begins like a tag are left out, and so are records of several
\* samples without a GPU section.
OldFormatsRead ==
    \A k \in Tiers : Len(written[k]) > 0 =>
        LET r == Storable(written[k][Len(written[k])])
            told(f) == f.kind \/ r.ts % LowByte \notin {KindBinary, KindJSON}
        IN /\ ReadRecord(EncodeJSON(r)) = r
           /\ \A f \in OldFormats :
                  told(f) /\ (f.gpu \/ r.min = nil) =>
                      ReadRecord(EncodeAs(r, f)) = RecordAs(r, f)

\* Devices that every sample behind the point has.
Lasting(field) ==
    {d \in UNION {{s[field][i].name : i \in 1 .. Len(s[field])} : s \in Behind} :
        \A s \in Behind : Has(s[field], d)}

\* What has extremes: two numbers, and one of each of those devices.
Gauges ==
    ({"usage", "used"} \X {""})
    \union UNION {{field} \X Lasting(field) : field \in {"disks", "ifaces"}}
Measured(s, gauge) ==
    IF gauge[1] \in {"usage", "used"} THEN s[gauge[1]] ELSE ValueIn(s[gauge[1]], gauge[2])

\* "(Avg/Min/Max)" (README.md): the extremes of a point are those of the raw
\* samples behind it, through two roll-ups and the grouping of a query, also for
\* each disk and interface that was there all the time.
PeaksKept ==
    asked =>
        \A g \in Gauges :
            LET seen == {Measured(s, g) : s \in Behind}
            IN /\ Measured(answer.point.max, g) = Max(seen)
               /\ Measured(answer.point.min, g) = Min(seen)

\* And its average, which may be one of rounded averages, is
\* neither below nor above them.
AverageBetween ==
    asked =>
        \A g \in Gauges :
            Measured(answer.point.data, g) \in
                Measured(answer.point.min, g) .. Measured(answer.point.max, g)

\* It makes no difference whether records are combined as they are in memory or
\* as they are read back: a roll-up after a restart, and a query, see what the
\* roll-up in WriteSample saw.
ReadBackCommutes ==
    asked =>
        Storable(answer.point) =
            Storable(AggregateAggregated(
                         SubSeq(written[answer.tier], answer.from, answer.to)))
=============================================================================
