-------------------------------- MODULE Store -------------------------------
(***************************************************************************)
(* The tiered store (internal/storage/store.go): WriteSample appends a raw *)
(* sample to tier 0, and rolls ratio1 samples into a record of tier 1 and  *)
(* ratio2 of those into a record of tier 2; queries are answered from the  *)
(* finest tier that fits and kept in a cache that WriteSample clears.      *)
(*                                                                         *)
(* WriteSample holds Store.mu, a query holds it for reading: each path     *)
(* through either is one action.  A tier is the log of what was written to *)
(* it; a read finds some number of its last records, which changes with    *)
(* each write, also with one that fails (module Tier: a wrap, the rest of  *)
(* an older record or of a failed write at the write offset).  Timestamps  *)
(* count the samples of tier 0.  A tier's Write can fail in two ways:      *)
(* before the record counts ("lost") or, at the header, after ("kept").    *)
(***************************************************************************)
EXTENDS HistoryQuery, FiniteSets

CONSTANTS
    NumTiers,      \* configured tiers, 1 to 3
    Ratio1,        \* tier-0 samples per tier-1 record (ratio1)
    Ratio2,        \* tier-1 records per tier-2 record (ratio2)
    Finds,         \* how many of its last records a read of each tier may find
    Windows,       \* the [from, to] windows that clients ask for
    Points,        \* the numbers of points they ask for
    Failures,      \* how a tier's Write may fail: of {"lost", "kept"}
    MaxWrites,     \* bound: samples in tier 0
    MaxCached,     \* bound: answers in the cache at a time
    MaxFailures,   \* bound: failed writes
    MaxRestarts    \* bound: restarts

LastTier == NumTiers - 1

ASSUME StoreAssumption ==
    /\ NumTiers \in 1 .. 3
    /\ Ratio1 \in Nat \ {0} /\ Ratio2 \in Nat \ {0}
    /\ Finds \subseteq [0 .. 2 -> Nat] /\ Finds # {}
    /\ Windows \subseteq Int \X Int /\ Points \subseteq Int
    /\ Failures \subseteq {"lost", "kept"}
    /\ MaxWrites \in Nat /\ MaxCached \in Nat
    /\ MaxFailures \in Nat /\ MaxRestarts \in Nat

VARIABLES
    tier,         \* what was written to each tier since it was last empty
    found,        \* how many of the last of these a read finds
    tier1Buf,     \* raw samples waiting for tier 1
    tier2Buf,     \* tier-1 records waiting for tier 2
    latestCache,  \* the sample written last, 0 for none
    queryCache,   \* answers by window and points
    failures, restarts

vars == <<tier, found, tier1Buf, tier2Buf, latestCache, queryCache, failures,
          restarts>>

LastN(s, n) == IF Len(s) <= n THEN s ELSE SubSeq(s, Len(s) - n + 1, Len(s))

Visible(i) == LastN(tier[i], found[i])

\* The tiers of done have a new record, a write to those of torn has failed: what
\* a read finds then depends on where in the ring that was.  (A record of which
\* only a part was written is not taken for one.)
Rereads(done, torn) ==
    found' \in {f \in Finds : \A i \in 0 .. 2 :
                   /\ i \in done => f[i] > 0
                   /\ i \notin done \union torn => f[i] = found[i]}

Newest(i) == IF tier[i] = <<>> THEN 0 ELSE tier[i][Len(tier[i])].ts

Resolution == [i \in 0 .. 2 |->
    IF i = 0 THEN 1 ELSE IF i = 1 THEN Ratio1 ELSE Ratio1 * Ratio2]

Sample == [first |-> Len(tier[0]) + 1, ts |-> Len(tier[0]) + 1, n |-> 1]
-----------------------------------------------------------------------------
(* WriteSample, one action for each way through it.                        *)

NoAnswers == <<>>

Fail == failures < MaxFailures /\ failures' = failures + 1

\* Tier 1 takes part, and this sample completes a record for it.
Aggregates == NumTiers > 1
Due1Early == Aggregates /\ Len(tier1Buf) + 2 >= Ratio1   \* seeded mistake
Due1 == Aggregates /\ Len(tier1Buf) + 1 >= Ratio1
Due2 == Due1 /\ NumTiers > 2 /\ Len(tier2Buf) + 1 >= Ratio2

Pending1 == Append(tier1Buf, Sample)
Record1  == Combine(Pending1)
Pending2 == Append(tier2Buf, Record1)
Record2  == Combine(Pending2)

\* The buffer for tier 2 once tier 1 has its record.
Buffer2None == tier2Buf                                 \* seeded mistake
Buffer2 == IF NumTiers > 2 THEN Pending2 ELSE tier2Buf

\* "Invalidate the query cache so the next fetch sees the new sample."
InvalidateNot == UNCHANGED queryCache                   \* seeded mistake
Invalidate == queryCache' = NoAnswers

CanWrite == Len(tier[0]) < MaxWrites

\* "writing tier 0": nothing else happens.
WriteSampleFails0(how) ==
    /\ CanWrite /\ Fail
    /\ tier' = IF how = "kept" THEN [tier EXCEPT ![0] = Append(@, Sample)]
               ELSE tier
    /\ Rereads({}, {0})
    /\ UNCHANGED <<tier1Buf, tier2Buf, latestCache, queryCache, restarts>>

\* No aggregation is due.
WriteSampleRaw ==
    /\ CanWrite /\ ~Due1
    /\ tier' = [tier EXCEPT ![0] = Append(@, Sample)]
    /\ Rereads({0}, {})
    /\ latestCache' = Sample.ts
    /\ tier1Buf' = IF Aggregates THEN Pending1 ELSE tier1Buf
    /\ Invalidate
    /\ UNCHANGED <<tier2Buf, failures, restarts>>

\* Seeded mistake: the cache of the latest sample is set last of all.
WriteSampleFails1Late(how) ==
    /\ CanWrite /\ Due1 /\ Fail
    /\ tier' = [tier EXCEPT
                    ![0] = Append(@, Sample),
                    ![1] = IF how = "kept" THEN Append(@, Record1) ELSE @]
    /\ Rereads({0}, {1})
    /\ tier1Buf' = Pending1
    /\ UNCHANGED <<latestCache, tier2Buf, queryCache, restarts>>

\* "writing tier 1": the samples stay in the buffer, the cache as it was.
WriteSampleFails1(how) ==
    /\ CanWrite /\ Due1 /\ Fail
    /\ tier' = [tier EXCEPT
                    ![0] = Append(@, Sample),
                    ![1] = IF how = "kept" THEN Append(@, Record1) ELSE @]
    /\ Rereads({0}, {1})
    /\ latestCache' = Sample.ts
    /\ tier1Buf' = Pending1
    /\ UNCHANGED <<tier2Buf, queryCache, restarts>>

\* Tier 1 gets a record, tier 2 none yet.
WriteSample1 ==
    /\ CanWrite /\ Due1 /\ ~Due2
    /\ tier' = [tier EXCEPT ![0] = Append(@, Sample), ![1] = Append(@, Record1)]
    /\ Rereads({0, 1}, {})
    /\ latestCache' = Sample.ts
    /\ tier1Buf' = <<>>
    /\ tier2Buf' = Buffer2
    /\ Invalidate
    /\ UNCHANGED <<failures, restarts>>

\* "writing tier 2": tier 1 is done, its records stay in the buffer.
WriteSampleFails2(how) ==
    /\ CanWrite /\ Due2 /\ Fail
    /\ tier' = [tier EXCEPT
                    ![0] = Append(@, Sample),
                    ![1] = Append(@, Record1),
                    ![2] = IF how = "kept" THEN Append(@, Record2) ELSE @]
    /\ Rereads({0, 1}, {2})
    /\ latestCache' = Sample.ts
    /\ tier1Buf' = <<>>
    /\ tier2Buf' = Pending2
    /\ UNCHANGED <<queryCache, restarts>>

\* All three tiers get a record.
WriteSample2 ==
    /\ CanWrite /\ Due2
    /\ tier' = [tier EXCEPT ![0] = Append(@, Sample),
                            ![1] = Append(@, Record1),
                            ![2] = Append(@, Record2)]
    /\ Rereads({0, 1, 2}, {})
    /\ latestCache' = Sample.ts
    /\ tier1Buf' = <<>>
    /\ tier2Buf' = <<>>
    /\ Invalidate
    /\ UNCHANGED <<failures, restarts>>

WriteSample ==
    \/ WriteSampleRaw
    \/ WriteSample1
    \/ WriteSample2
    \/ \E how \in Failures :
           \/ WriteSampleFails0(how)
           \/ WriteSampleFails1(how)
           \/ WriteSampleFails2(how)
-----------------------------------------------------------------------------
(* QueryRangeWithMeta.                                                     *)

\* What a query computes that finds nothing in the cache.
Fresh(from, to, points) ==
    Answer([i \in 0 .. LastTier |-> Visible(i)], Resolution, LastTier,
           from, to, ClampPoints(points))

Key(w, points) == <<w[1], w[2], ClampPoints(points)>>

\* An answer without data is not kept.
KeepsAll(answer) == TRUE                                \* seeded mistake
Keeps(answer) == answer.tier # NoTier

\* A miss.  A hit changes nothing.
Query(w, points) ==
    /\ Key(w, points) \notin DOMAIN queryCache
    /\ Cardinality(DOMAIN queryCache) < MaxCached
    /\ Keeps(Fresh(w[1], w[2], points))
    /\ queryCache' = [k \in DOMAIN queryCache \union {Key(w, points)} |->
                         IF k = Key(w, points)
                         THEN Fresh(w[1], w[2], points) ELSE queryCache[k]]
    /\ UNCHANGED <<tier, found, tier1Buf, tier2Buf, latestCache, failures, restarts>>
-----------------------------------------------------------------------------
(* NewStore on the files of an earlier process: OpenTier takes each of them *)
(* for corrupted (module Tier), and warmLatestCache and                    *)
(* reconstructAggregationState find nothing in empty tiers.  The process   *)
(* stops between two operations, in an orderly way or not, or in the       *)
(* middle of WriteSample (then the write it was in is one that failed).    *)

Restart ==
    /\ restarts < MaxRestarts
    /\ restarts' = restarts + 1
    /\ tier' = [i \in 0 .. 2 |-> <<>>]
    /\ tier1Buf' = <<>>
    /\ tier2Buf' = <<>>
    /\ latestCache' = 0
    /\ queryCache' = NoAnswers
    /\ UNCHANGED <<found, failures>>
-----------------------------------------------------------------------------
Init ==
    /\ tier = [i \in 0 .. 2 |-> <<>>]
    /\ found \in Finds
    /\ tier1Buf = <<>>
    /\ tier2Buf = <<>>
    /\ latestCache = 0
    /\ queryCache = NoAnswers
    /\ failures = 0
    /\ restarts = 0

Next ==
    \/ WriteSample
    \/ \E w \in Windows, p \in Points : Query(w, p)
    \/ Restart

Spec == Init /\ [][Next]_vars
-----------------------------------------------------------------------------
(* Properties.                                                             *)

Record == [first : Nat, ts : Nat, n : Nat]

TypeOK ==
    /\ tier \in [0 .. 2 -> Seq(Record)]
    /\ found \in Finds
    /\ tier1Buf \in Seq(Record)
    /\ tier2Buf \in Seq(Record)
    /\ latestCache \in Nat
    /\ \A k \in DOMAIN queryCache :
           queryCache[k].tier \in 0 .. LastTier
    /\ failures \in 0 .. MaxFailures
    /\ restarts \in 0 .. MaxRestarts

Newer(recs, ts) == Kept(recs, {i \in 1 .. Len(recs) : recs[i].ts > ts})

\* The records of upper followed by the pending ones of buf go over the
\* records of lower without a gap, an overlap or a repetition.
CoversAll(upper, buf, lower) ==
    LET done == IF upper = <<>> THEN 0 ELSE upper[Len(upper)].ts
    IN /\ \A i \in 1 .. Len(upper) :
              upper[i].first = (IF i = 1 THEN 1 ELSE upper[i - 1].ts + 1)
       /\ buf = Newer(lower, done)

\* Every sample of tier 0 is in exactly one tier-1 record or waits for one,
\* in order, and likewise for tiers 1 and 2 - also after writes that failed
\* and were made good later (WriteSample).
RollupComplete ==
    /\ NumTiers > 1 => CoversAll(tier[1], tier1Buf, tier[0])
    /\ NumTiers > 2 => CoversAll(tier[2], tier2Buf, tier[1])

\* A rolled-up record is never made of fewer records than its resolution
\* says, and of more only by as many as there were failed writes.
BlockSizes ==
    \A i \in 1 .. LastTier, k \in 1 .. MaxWrites :
        k <= Len(tier[i]) =>
            LET ratio == IF i = 1 THEN Ratio1 ELSE Ratio2
            IN tier[i][k].n \in ratio .. ratio + failures

\* "In-memory cache is always kept current by WriteSample" (QueryLatest).
LatestCurrent == latestCache = Newest(0)

\* "Cleared on every WriteSample call" (Store.queryCache): an answer from the
\* cache is the answer that the tiers would give now.
CacheCurrent ==
    \A w \in Windows, p \in Points :
        Key(w, p) \in DOMAIN queryCache =>
            queryCache[Key(w, p)] = Fresh(w[1], w[2], p)

\* It is as long as no write failed: the error paths of WriteSample return
\* before they clear the cache.
CacheFresh == failures = 0 => CacheCurrent

\* A history answer has fewer than twice as many points as were asked for.
PointsBounded ==
    \A w \in Windows, p \in Points :
        Len(Fresh(w[1], w[2], p).samples) < 2 * ClampPoints(p)

\* It begins and ends with what the chosen tier has in the window, and leaves no
\* sample out in between, whatever blocks it was made of.
AnswerComplete ==
    \A w \in Windows, p \in Points :
        LET a == Fresh(w[1], w[2], p)
        IN a.tier # NoTier =>
            LET in == Within(Visible(a.tier), w[1], w[2])
            IN /\ a.samples[1].first = in[1].first
               /\ a.samples[Len(a.samples)].ts = in[Len(in)].ts
               /\ \A i \in 2 .. Len(a.samples) :
                      a.samples[i].first = a.samples[i - 1].ts + 1
=============================================================================
