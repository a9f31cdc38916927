----------------------------- MODULE HistoryQuery ---------------------------
(***************************************************************************)
(* The answer of Store.QueryRangeWithMeta (internal/storage/store.go) as a *)
(* function of what the tiers hold.  A record is [first, ts, n]: the       *)
(* oldest and the newest raw sample it stands for, and of how many records *)
(* it was made.  Time counts raw samples, so that tier 0 has resolution 1. *)
(***************************************************************************)
EXTENDS Loops

CONSTANTS
    MaxSamples,     \* maxSamples: half of what a finer tier may have to read
    DefaultPoints,  \* points when the caller asks for none
    MaxPoints       \* maxScreenPoints

ASSUME PointsAssumption ==
    /\ MaxSamples \in Nat \ {0}
    /\ DefaultPoints \in Nat \ {0}
    /\ MaxPoints \in Nat \ {0}

NoTier == -1

ClampPoints(points) ==
    IF points <= 0 THEN DefaultPoints
    ELSE IF points > MaxPoints THEN MaxPoints
    ELSE points

\* One record from a sequence of them: it is stamped with the last.
Combine(recs) ==
    [first |-> recs[1].first, ts |-> recs[Len(recs)].ts, n |-> Len(recs)]

Within(recs, from, to) ==
    Kept(recs, {i \in 1 .. Len(recs) : from <= recs[i].ts /\ recs[i].ts <= to})

AtMost(a, b) == IF a <= b THEN a ELSE b

\* Seeded mistake: an incomplete last group is left out.
DownsampleWholeGroups(recs, points) ==
    LET size == Len(recs) \div points
    IN IF 2 * Len(recs) > 3 * points /\ size > 1
       THEN [g \in 1 .. Len(recs) \div size |->
                Combine(SubSeq(recs, (g - 1) * size + 1, g * size))]
       ELSE recs

\* Seeded mistake: the number of points taken for the size of a group.
DownsampleBySize(recs, points) ==
    LET size == points
    IN IF 2 * Len(recs) > 3 * points /\ size > 1
       THEN [g \in 1 .. (Len(recs) + size - 1) \div size |->
                Combine(SubSeq(recs, (g - 1) * size + 1,
                               AtMost(g * size, Len(recs))))]
       ELSE recs

\* Groups of Len / points records when there are more than 1.5 times as many
\* records as points; the last group may be short.
Downsample(recs, points) ==
    LET size == Len(recs) \div points
    IN IF Len(recs) > (3 * points) \div 2 /\ size > 1
       THEN [g \in 1 .. (Len(recs) + size - 1) \div size |->
                Combine(SubSeq(recs, (g - 1) * size + 1,
                               AtMost(g * size, Len(recs))))]
       ELSE recs

\* The tier has data around the window: its oldest record is not after the
\* window, its newest one not before it.
Overlaps(recs, from, to) == recs[1].ts <= to /\ recs[Len(recs)].ts >= from

\* Reading the tier would take in many more records than the screen shows.
TooMany(res, from, to, points) ==
    (to - from) \div res
        > 2 * (IF points > MaxSamples THEN points ELSE MaxSamples)

\* Tier i, one of the tiers 0 .. last, can answer the query.
Answers(recs, res, i, last, from, to, points) ==
    /\ recs[i] # <<>>
    /\ Overlaps(recs[i], from, to)
    /\ ~(TooMany(res[i], from, to, points) /\ i < last)
    /\ Within(recs[i], from, to) # <<>>

\* The finest of them does.
Answer(recs, res, last, from, to, points) ==
    LET able == {i \in 0 .. last : Answers(recs, res, i, last, from, to, points)}
        best == CHOOSE i \in able : \A k \in able : i <= k
    IN IF able = {} THEN [tier |-> NoTier, samples |-> <<>>]
       ELSE [tier    |-> best,
             samples |-> Downsample(Within(recs[best], from, to), points)]
=============================================================================
