----------------------------- MODULE StoreProofs ----------------------------
(***************************************************************************)
(* Theorems about Store for every number of tiers, every ratio, size of a  *)
(* file, window and number of points, and however many samples are written.*)
(***************************************************************************)
EXTENDS Store, LoopProofs
-----------------------------------------------------------------------------
(***************************************************************************)
(* What the operators of HistoryQuery return, for all sequences of         *)
(* records: the loop that keeps some of them, and the answer of a query.   *)
(***************************************************************************)

(* Who answers: nobody, or one of the tiers that can.                       *)
LEMMA AnswerIs ==
    ASSUME NEW recs, NEW res, NEW last \in Nat, NEW from, NEW to, NEW points
    PROVE  LET a == Answer(recs, res, last, from, to, points)
           IN \/ a = [tier |-> NoTier, samples |-> <<>>]
              \/ /\ a.tier \in 0 .. last
                 /\ Answers(recs, res, a.tier, last, from, to, points)
                 /\ a.samples = Downsample(Within(recs[a.tier], from, to), points)
  <1> DEFINE able == {i \in 0 .. last : Answers(recs, res, i, last, from, to, points)}
             best == CHOOSE i \in able : \A k \in able : i <= k
             a == Answer(recs, res, last, from, to, points)
  <1>1. CASE able = {}
    BY <1>1, Zenon DEF Answer
  <1>2. CASE able # {}
    <2>1. able \in SUBSET Nat
      OBVIOUS
    <2>2. \E i \in able : \A k \in able : i <= k
      BY <1>2, <2>1, LeastOf
    <2>3. best \in able
      BY <2>2
    <2>4. a = [tier |-> best, samples |-> Downsample(Within(recs[best], from, to), points)]
      BY <1>2, Zenon DEF Answer
    <2> HIDE DEF best, a
    <2> QED
      BY <2>3, <2>4 DEF a
  <1> QED
    BY <1>1, <1>2
-----------------------------------------------------------------------------
(* Division rounds down. *)
LEMMA DivBounds ==
    ASSUME NEW a \in Nat, NEW b \in Nat \ {0}
    PROVE  a \div b \in Nat /\ b * (a \div b) <= a /\ a < b * (a \div b) + b
  OBVIOUS

\* The number of groups of a downsampled sequence of l records.
Groups(l, size) == (l + size - 1) \div size

(* The groups go over all the records, and none is empty. *)
LEMMA GroupsCover ==
    ASSUME NEW l \in Nat \ {0}, NEW size \in Nat \ {0}
    PROVE  /\ Groups(l, size) \in Nat \ {0}
           /\ (Groups(l, size) - 1) * size < l
           /\ l <= Groups(l, size) * size
  <1> DEFINE a == l + size - 1
             m == Groups(l, size)
  <1>1. a \in Nat
    OBVIOUS
  <1>2. m = a \div size
    BY DEF Groups
  <1> HIDE DEF a, m
  <1>3. m \in Nat /\ size * m <= a /\ a < size * m + size
    BY <1>1, <1>2, DivBounds
  <1>4. size * m = m * size /\ (m - 1) * size = m * size - size
    BY <1>3
  <1>5. (m - 1) * size < l /\ l <= m * size
    BY <1>3, <1>4 DEF a
  <1>6. m # 0
    BY <1>3, <1>5
  <1> QED
    BY <1>3, <1>5, <1>6 DEF m

(* With at least points records in the sequence, there are fewer groups of   *)
(* l \div points records than twice the points.                              *)
LEMMA GroupsFew ==
    ASSUME NEW l \in Nat \ {0}, NEW points \in Nat \ {0}, l \div points > 1
    PROVE  Groups(l, l \div points) < 2 * points
  <1> DEFINE size == l \div points
             m == Groups(l, size)
  <1>1. size \in Nat /\ l < points * size + points /\ size > 1
    BY DivBounds
  <1> HIDE DEF size
  <1>2. m \in Nat /\ (m - 1) * size < l
    BY <1>1, GroupsCover
  <1> HIDE DEF m
  <1>3. SUFFICES ASSUME m >= 2 * points PROVE FALSE
    BY <1>2 DEF m, size
  <1>4. (m - 1) * size >= (2 * points - 1) * size
    BY <1>1, <1>2, <1>3
  <1>5. (2 * points - 1) * size = points * size + (points - 1) * size
    BY <1>1
  <1>6. (points - 1) * size >= points - 1
    BY <1>1
  <1>7. points * size \in Int /\ (points - 1) * size \in Int /\ (m - 1) * size \in Int
    BY <1>1, <1>2
  <1>8. (m - 1) * size >= points * size + points - 1
    BY <1>4, <1>5, <1>6, <1>7
  <1> QED
    BY <1>1, <1>2, <1>7, <1>8

(* The answer to a query has fewer than twice the points asked for. *)
LEMMA DownsampleSize ==
    ASSUME NEW R, NEW recs \in Seq(R), NEW points \in Nat \ {0}
    PROVE  Len(Downsample(recs, points)) < 2 * points
  <1> DEFINE l == Len(recs)
             size == l \div points
             m == Groups(l, size)
             d == Downsample(recs, points)
  <1>1. l \in Nat
    OBVIOUS
  <1>2. CASE l > (3 * points) \div 2 /\ size > 1
    <2>1. l # 0
      BY <1>2
    <2>0. l \in Nat \ {0} /\ size \in Nat \ {0}
      BY <1>1, <1>2, <2>1, DivBounds
    <2>2. m \in Nat
      <3> HIDE DEF size, l
      <3> QED
        BY <2>0, GroupsCover
    <2>3. d = [g \in 1 .. m |->
                  Combine(SubSeq(recs, (g - 1) * size + 1, AtMost(g * size, l)))]
      BY <1>2 DEF Downsample, Groups
    <2> HIDE DEF m, d
    <2>4. Len(d) = m
      BY <2>2, <2>3
    <2>5. m < 2 * points
      BY <1>1, <1>2, <2>1, GroupsFew DEF m
    <2> QED
      BY <2>4, <2>5 DEF d
  <1>3. CASE ~(l > (3 * points) \div 2 /\ size > 1)
    <2>1. d = recs
      BY <1>3 DEF Downsample
    <2>2. (3 * points) \div 2 < 2 * points /\ (3 * points) \div 2 \in Int
      OBVIOUS
    <2>3. size <= 1 => l < 2 * points
      <3>1. size \in Nat /\ l < points * size + points
        BY <1>1, DivBounds
      <3> HIDE DEF size, l
      <3>2. size <= 1 => points * size <= points
        BY <3>1
      <3> QED
        BY <3>1, <3>2, <1>1
    <2>4. l <= (3 * points) \div 2 \/ size <= 1
      <3>1. size \in Nat
        BY <1>1, DivBounds
      <3> QED
        BY <1>1, <1>3, <2>2, <3>1
    <2> HIDE DEF size
    <2>5. l < 2 * points
      BY <1>1, <2>2, <2>3, <2>4
    <2> QED
      BY <2>1, <2>5
  <1> QED
    BY <1>2, <1>3

(* It goes over the records without a gap, from the first to the last.      *)
LEMMA DownsampleCovers ==
    ASSUME NEW R, NEW recs \in Seq(R), recs # <<>>, NEW points \in Nat \ {0},
           \A i \in 2 .. Len(recs) : recs[i].first = recs[i - 1].ts + 1
    PROVE  LET d == Downsample(recs, points)
           IN /\ d[1].first = recs[1].first
              /\ d[Len(d)].ts = recs[Len(recs)].ts
              /\ \A i \in 2 .. Len(d) : d[i].first = d[i - 1].ts + 1
  <1> DEFINE l == Len(recs)
             size == l \div points
             m == Groups(l, size)
             d == Downsample(recs, points)
  <1>1. l \in Nat \ {0}
    OBVIOUS
  <1>2. CASE l > (3 * points) \div 2 /\ size > 1
    <2>0. size \in Nat \ {0}
      BY <1>1, <1>2, DivBounds
    <2>1. m \in Nat \ {0} /\ (m - 1) * size < l /\ l <= m * size
      BY <1>1, <2>0, GroupsCover
    <2> DEFINE lo(g) == (g - 1) * size + 1
               hi(g) == AtMost(g * size, l)
    <2>2. d = [g \in 1 .. m |-> Combine(SubSeq(recs, lo(g), hi(g)))]
      BY <1>2 DEF Downsample, Groups
    <2> HIDE DEF d, m
    <2>3. Len(d) = m
      BY <2>1, <2>2
    <2>4. ASSUME NEW g \in 1 .. m
          PROVE  /\ lo(g) \in 1 .. l /\ hi(g) \in lo(g) .. l
                 /\ d[g].first = recs[lo(g)].first /\ d[g].ts = recs[hi(g)].ts
      <3>1. g \in Nat /\ g >= 1 /\ g <= m
        BY <2>1
      <3> HIDE DEF size, l
      <3>2. (g - 1) * size \in Nat /\ (g - 1) * size <= (m - 1) * size
        BY <2>0, <2>1, <3>1
      <3>3. g * size = (g - 1) * size + size
        BY <2>0, <3>1
      <3>4. lo(g) \in 1 .. l /\ hi(g) \in lo(g) .. l
        <4> DEFINE k == (g - 1) * size
        <4>1. k \in Nat /\ k < l
          BY <1>1, <2>0, <2>1, <3>2
        <4>2. hi(g) = IF k + size <= l THEN k + size ELSE l
          BY <3>3 DEF AtMost
        <4>3. lo(g) = k + 1
          OBVIOUS
        <4> HIDE DEF k, lo, hi
        <4> QED
          BY <1>1, <2>0, <4>1, <4>2, <4>3
      <3> DEFINE a == lo(g)
                 b == hi(g)
                 s == SubSeq(recs, a, b)
      <3>5. d[g] = Combine(s)
        BY <2>2
      <3>6. a \in 1 .. l /\ b \in a .. l
        BY <3>4
      <3> HIDE DEF lo, hi, a, b
      <3>7. /\ a \in Int /\ b \in Int
            /\ \A i \in a .. b : recs[i] \in R
        BY <1>1, <3>6 DEF l
      <3>8. /\ Len(s) = b - a + 1
            /\ \A i \in 1 .. b - a + 1 : s[i] = recs[a + i - 1]
        <4>1. /\ Len(s) = IF a <= b THEN b - a + 1 ELSE 0
              /\ \A i \in 1 .. b - a + 1 : s[i] = recs[a + i - 1]
          BY <3>7, SubSeqProperties
        <4> QED
          BY <3>6, <3>7, <4>1
      <3> HIDE DEF s
      <3>9. s[1] = recs[a] /\ s[Len(s)] = recs[b]
        <4>1. 1 \in 1 .. b - a + 1 /\ b - a + 1 \in 1 .. b - a + 1 /\ a + (b - a + 1) - 1 = b
              /\ a + 1 - 1 = a
          BY <3>6, <3>7
        <4> QED
          BY <3>8, <4>1
      <3>10. d[g].first = recs[a].first /\ d[g].ts = recs[b].ts
        BY <3>5, <3>9 DEF Combine
      <3> QED
        BY <3>4, <3>10 DEF a, b
    <2>5. lo(1) = 1 /\ hi(m) = l
      BY <1>1, <2>0, <2>1 DEF AtMost
    <2>6. ASSUME NEW i \in 2 .. m
          PROVE  d[i].first = d[i - 1].ts + 1
      <3>1. i \in 1 .. m /\ i - 1 \in 1 .. m /\ i \in Nat
        BY <2>1
      <3> DEFINE k == (i - 1) * size
      <3>2. lo(i) = k + 1 /\ lo(i) \in 1 .. l /\ k \in Nat
        BY <2>0, <2>4, <3>1
      <3>3. hi(i - 1) = k
        BY <1>1, <3>2 DEF AtMost
      <3>4. hi(i - 1) \in lo(i - 1) .. l /\ lo(i - 1) \in 1 .. l
        BY <2>4, <3>1
      <3>5. d[i].first = recs[lo(i)].first /\ d[i - 1].ts = recs[hi(i - 1)].ts
        BY <2>4, <3>1
      <3> HIDE DEF lo, hi, k
      <3>6. k + 1 \in 2 .. l /\ (k + 1) - 1 = k
        BY <1>1, <3>2, <3>3, <3>4
      <3>7. recs[k + 1].first = recs[k].ts + 1
        BY <3>6
      <3> QED
        BY <3>2, <3>3, <3>5, <3>7
    <2>7. 1 \in 1 .. m /\ m \in 1 .. m
      BY <2>1
    <2> HIDE DEF lo, hi
    <2> QED
      BY <2>3, <2>4, <2>5, <2>6, <2>7 DEF d
  <1>3. CASE ~(l > (3 * points) \div 2 /\ size > 1)
    <2>1. d = recs
      BY <1>3 DEF Downsample
    <2> QED
      BY <2>1
  <1> QED
    BY <1>2, <1>3
-----------------------------------------------------------------------------
(* Sequences of records.                                                   *)

\* One record goes on where the one before it ended.
Gapless(s) ==
    /\ s \in Seq(Record)
    /\ \A i \in 1 .. Len(s) : s[i].first <= s[i].ts
    /\ \A i \in 2 .. Len(s) : s[i].first = s[i - 1].ts + 1
    /\ \A i, j \in 1 .. Len(s) : i < j => s[i].ts < s[j].ts

\* From the first sample on.
Chain(s) == Gapless(s) /\ (s # <<>> => s[1].first = 1)

\* The last sample that s goes over.
End(s) == IF s = <<>> THEN 0 ELSE s[Len(s)].ts

Suffix(u, s) ==
    /\ u \in Seq(Record)
    /\ Len(u) <= Len(s)
    /\ \A k \in 1 .. Len(u) : u[k] = s[Len(s) - Len(u) + k]

\* The last sample of s before its suffix u.
Mark(s, u) == IF Len(u) = Len(s) THEN 0 ELSE s[Len(s) - Len(u)].ts

\* Upper goes over the records of lower but for those of buf, its last ones.
Rolls(lower, buf, upper) == Suffix(buf, lower) /\ End(upper) = Mark(lower, buf)

LEMMA LastNSuffix ==
    ASSUME NEW s \in Seq(Record), NEW n \in Nat
    PROVE  /\ Suffix(LastN(s, n), s)
           /\ Len(LastN(s, n)) = IF Len(s) <= n THEN Len(s) ELSE n
  <1>1. CASE Len(s) <= n
    BY <1>1 DEF LastN, Suffix
  <1>2. CASE Len(s) > n
    <2> DEFINE m == Len(s) - n + 1
               u == SubSeq(s, m, Len(s))
    <2>1. m \in Int /\ Len(s) \in Int /\ m \in 1 .. Len(s) + 1
      BY <1>2
    <2>2. \A i \in m .. Len(s) : s[i] \in Record
      BY <2>1
    <2>3. /\ u \in Seq(Record)
          /\ Len(u) = IF m <= Len(s) THEN Len(s) - m + 1 ELSE 0
          /\ \A i \in 1 .. Len(s) - m + 1 : u[i] = s[m + i - 1]
      <3> HIDE DEF m
      <3> QED
        BY <2>1, <2>2, SubSeqProperties
    <2>4. Len(u) = n
      BY <1>2, <2>3
    <2>5. \A k \in 1 .. Len(u) : u[k] = s[Len(s) - Len(u) + k]
      BY <1>2, <2>3, <2>4
    <2>6. LastN(s, n) = u
      BY <1>2 DEF LastN
    <2> HIDE DEF u
    <2> QED
      BY <1>2, <2>3, <2>4, <2>5, <2>6 DEF Suffix
  <1> QED
    BY <1>1, <1>2

LEMMA SuffixGapless ==
    ASSUME NEW s, NEW u, Gapless(s), Suffix(u, s)
    PROVE  Gapless(u)
  <1> DEFINE d == Len(s) - Len(u)
  <1>1. /\ s \in Seq(Record) /\ u \in Seq(Record) /\ d \in Nat /\ Len(u) \in Nat
        /\ Len(s) = d + Len(u)
    BY DEF Suffix, Gapless
  <1>2. \A k \in 1 .. Len(u) : u[k] = s[d + k] /\ d + k \in 1 .. Len(s)
    BY <1>1 DEF Suffix
  <1> HIDE DEF d
  <1>3. \A i \in 1 .. Len(u) : u[i].first <= u[i].ts
    BY <1>2 DEF Gapless
  <1>4. ASSUME NEW i \in 2 .. Len(u)
        PROVE  u[i].first = u[i - 1].ts + 1
    <2>1. i \in 1 .. Len(u) /\ i - 1 \in 1 .. Len(u) /\ d + (i - 1) = (d + i) - 1
      BY <1>1
    <2>2. u[i] = s[d + i] /\ u[i - 1] = s[(d + i) - 1]
      BY <1>2, <2>1
    <2>3. d + i \in 2 .. Len(s)
      BY <1>1, <2>1
    <2>4. s[d + i].first = s[(d + i) - 1].ts + 1
      BY <2>3 DEF Gapless
    <2> QED
      BY <2>2, <2>4
  <1>5. ASSUME NEW i \in 1 .. Len(u), NEW j \in 1 .. Len(u), i < j
        PROVE  u[i].ts < u[j].ts
    <2>1. d + i < d + j
      BY <1>1, <1>5
    <2> QED
      BY <1>2, <2>1 DEF Gapless
  <1> QED
    BY <1>1, <1>3, <1>4, <1>5 DEF Gapless

(* A record that goes on where s ends. *)
LEMMA ChainAppend ==
    ASSUME NEW s, Chain(s), NEW r \in Record, r.first = End(s) + 1, r.first <= r.ts
    PROVE  Chain(Append(s, r)) /\ End(Append(s, r)) = r.ts
  <1> DEFINE t == Append(s, r)
             n == Len(s)
  <1>0. s \in Seq(Record) /\ n \in Nat
    BY DEF Chain, Gapless
  <1>1. /\ s \in Seq(Record) /\ n \in Nat /\ r.first \in Nat /\ r.ts \in Nat
        /\ \A i \in 1 .. n : s[i] \in Record /\ s[i].ts \in Nat
    <2>1. \A i \in 1 .. n : s[i] \in Record
      BY <1>0
    <2> HIDE DEF n
    <2> QED
      BY <1>0, <2>1 DEF Record
  <1>2. /\ t \in Seq(Record) /\ Len(t) = n + 1 /\ t # <<>>
        /\ \A i \in 1 .. n : t[i] = s[i]
        /\ t[n + 1] = r
    BY <1>0, AppendProperties
  <1> HIDE DEF t, n
  <1>3. n # 0 => r.first = s[n].ts + 1
    BY <1>1 DEF End, n
  <1>4. n = 0 => r.first = 1
    BY <1>1 DEF End, n
  <1>5. \A i \in 1 .. Len(t) : t[i].first <= t[i].ts
    <2> SUFFICES ASSUME NEW i \in 1 .. n + 1 PROVE t[i].first <= t[i].ts
      BY <1>2
    <2>1. CASE i = n + 1
      BY <1>2, <2>1
    <2>2. CASE i # n + 1
      <3>1. i \in 1 .. n
        BY <1>1, <2>2
      <3> QED
        BY <1>2, <3>1 DEF Chain, Gapless, n
    <2> QED
      BY <2>1, <2>2
  <1>6. \A i \in 2 .. Len(t) : t[i].first = t[i - 1].ts + 1
    <2> SUFFICES ASSUME NEW i \in 2 .. n + 1 PROVE t[i].first = t[i - 1].ts + 1
      BY <1>2
    <2>1. CASE i = n + 1
      BY <1>1, <1>2, <1>3, <2>1
    <2>2. CASE i # n + 1
      <3>1. i \in 2 .. n /\ i \in 1 .. n /\ i - 1 \in 1 .. n
        BY <1>1, <2>2
      <3> QED
        BY <1>2, <3>1 DEF Chain, Gapless, n
    <2> QED
      BY <2>1, <2>2
  <1>7. \A i, j \in 1 .. Len(t) : i < j => t[i].ts < t[j].ts
    <2> SUFFICES ASSUME NEW i \in 1 .. n + 1, NEW j \in 1 .. n + 1, i < j
                 PROVE  t[i].ts < t[j].ts
      BY <1>2
    <2>0. i \in 1 .. n /\ n # 0
      BY <1>1
    <2>1. CASE j = n + 1
      <3>1. s[i].ts <= s[n].ts
        <4>1. CASE i = n
          BY <1>1, <2>0, <4>1
        <4>2. CASE i # n
          <5>1. s[i].ts < s[n].ts /\ s[i].ts \in Nat /\ s[n].ts \in Nat
            BY <1>1, <2>0, <4>2 DEF Chain, Gapless, n
          <5> QED
            BY <5>1
        <4> QED
          BY <4>1, <4>2
      <3>2. r.ts >= s[n].ts + 1 /\ s[n].ts \in Nat /\ s[i].ts \in Nat
        BY <1>1, <1>3, <2>0
      <3> QED
        BY <1>1, <1>2, <2>0, <2>1, <3>1, <3>2
    <2>2. CASE j # n + 1
      <3>1. j \in 1 .. n
        BY <1>1, <2>2
      <3> QED
        BY <1>2, <2>0, <3>1 DEF Chain, Gapless, n
    <2> QED
      BY <2>1, <2>2
  <1>8. t[1].first = 1
    <2>1. CASE n = 0
      BY <1>2, <1>4, <2>1
    <2>2. CASE n # 0
      BY <1>1, <1>2, <2>2 DEF Chain, n
    <2> QED
      BY <2>1, <2>2
  <1>9. End(t) = r.ts
    BY <1>2 DEF End
  <1> QED
    BY <1>2, <1>5, <1>6, <1>7, <1>8, <1>9 DEF Chain, Gapless, t

(* The record that comes next waits in the buffer. *)
LEMMA Wait ==
    ASSUME NEW s \in Seq(Record), NEW buf, NEW upper, Rolls(s, buf, upper),
           NEW r \in Record
    PROVE  Rolls(Append(s, r), Append(buf, r), upper)
  <1> DEFINE n == Len(s)
             m == Len(buf)
             t == Append(s, r)
             b == Append(buf, r)
  <1>1. /\ n \in Nat /\ m \in Nat /\ m <= n /\ buf \in Seq(Record)
        /\ \A k \in 1 .. m : buf[k] = s[n - m + k]
    BY DEF Rolls, Suffix
  <1>2. /\ t \in Seq(Record) /\ Len(t) = n + 1 /\ t[n + 1] = r
        /\ \A i \in 1 .. n : t[i] = s[i]
    BY AppendProperties
  <1>3. /\ b \in Seq(Record) /\ Len(b) = m + 1 /\ b[m + 1] = r
        /\ \A i \in 1 .. m : b[i] = buf[i]
    BY <1>1, AppendProperties
  <1>e. End(upper) = IF m = n THEN 0 ELSE s[n - m].ts
    BY DEF Rolls, Mark
  <1> HIDE DEF n, m, t, b
  <1>4. ASSUME NEW k \in 1 .. m + 1
        PROVE  b[k] = t[(n + 1) - (m + 1) + k]
    <2>1. CASE k = m + 1
      BY <1>1, <1>2, <1>3, <2>1
    <2>2. CASE k # m + 1
      <3>1. k \in 1 .. m /\ n - m + k \in 1 .. n /\ (n + 1) - (m + 1) + k = n - m + k
        BY <1>1, <2>2
      <3> QED
        BY <1>1, <1>2, <1>3, <3>1
    <2> QED
      BY <2>1, <2>2
  <1>5. Suffix(b, t)
    BY <1>1, <1>2, <1>3, <1>4 DEF Suffix
  <1>6. Mark(t, b) = IF m = n THEN 0 ELSE s[n - m].ts
    <2>1. CASE m = n
      BY <1>2, <1>3, <2>1 DEF Mark
    <2>2. CASE m # n
      <3>1. n - m \in 1 .. n /\ (n + 1) - (m + 1) = n - m /\ n + 1 # m + 1
        BY <1>1, <2>2
      <3> QED
        BY <1>2, <1>3, <2>2, <3>1 DEF Mark
    <2> QED
      BY <2>1, <2>2
  <1> QED
    BY <1>5, <1>6, <1>e DEF Rolls, b, t

(* Or it completes a record for the tier above. *)
LEMMA RollUp ==
    ASSUME NEW s, NEW buf, NEW upper, Chain(s), Chain(upper), Rolls(s, buf, upper),
           NEW r \in Record, r.first = End(s) + 1, r.first <= r.ts
    PROVE  LET c == Combine(Append(buf, r))
           IN /\ c \in Record /\ c.n = Len(buf) + 1
              /\ c.first = End(upper) + 1 /\ c.ts = r.ts /\ c.first <= c.ts
              /\ Chain(Append(upper, c))
              /\ Rolls(Append(s, r), <<>>, Append(upper, c))
  <1> DEFINE n == Len(s)
             m == Len(buf)
             b == Append(buf, r)
             c == Combine(b)
  <1>0. /\ s \in Seq(Record) /\ n \in Nat
        /\ \A i \in 1 .. n : s[i] \in Record /\ s[i].first <= s[i].ts
        /\ \A i \in 2 .. n : s[i].first = s[i - 1].ts + 1
        /\ \A i, j \in 1 .. n : i < j => s[i].ts < s[j].ts
        /\ n # 0 => s[1].first = 1
        /\ End(s) = IF n = 0 THEN 0 ELSE s[n].ts
    BY DEF Chain, Gapless, End
  <1>1. /\ m \in Nat /\ m <= n /\ buf \in Seq(Record)
        /\ \A k \in 1 .. m : buf[k] = s[n - m + k]
        /\ End(upper) = IF m = n THEN 0 ELSE s[n - m].ts
    BY DEF Rolls, Suffix, Mark
  <1>2. /\ b \in Seq(Record) /\ Len(b) = m + 1 /\ b[m + 1] = r
        /\ \A i \in 1 .. m : b[i] = buf[i]
    BY <1>1, AppendProperties
  <1>3. c = [first |-> b[1].first, ts |-> r.ts, n |-> m + 1]
    BY <1>2 DEF Combine
  <1>r. r.first \in Nat /\ r.ts \in Nat /\ \A i \in 1 .. n : s[i].ts \in Nat /\ s[i].first \in Nat
    BY <1>0 DEF Record
  <1> HIDE DEF n, m, b, c
  <1>4. /\ b[1].first \in Nat /\ b[1].first = End(upper) + 1
        /\ b[1].first <= r.ts
    <2>1. CASE m = 0
      <3>1. b[1] = r
        BY <1>2, <2>1
      <3>2. End(upper) = End(s)
        BY <1>0, <1>1, <2>1
      <3> QED
        BY <1>r, <3>1, <3>2
    <2>2. CASE m # 0
      <3> DEFINE d == n - m
      <3>1. d + 1 \in 1 .. n /\ d \in 0 .. n /\ 1 \in 1 .. m /\ n \in 1 .. n
        BY <1>0, <1>1, <2>2
      <3>2. b[1] = s[d + 1]
        BY <1>1, <1>2, <3>1
      <3>3. s[d + 1].ts <= s[n].ts
        <4>1. CASE d + 1 = n
          BY <1>r, <3>1, <4>1
        <4>2. CASE d + 1 # n
          <5>1. s[d + 1].ts < s[n].ts
            BY <1>0, <3>1, <4>2
          <5> QED
            BY <1>r, <3>1, <5>1
        <4> QED
          BY <4>1, <4>2
      <3>4. s[d + 1].first <= s[d + 1].ts /\ r.first = s[n].ts + 1
        BY <1>0, <3>1
      <3>5. s[d + 1].first <= r.ts
        BY <1>r, <3>1, <3>3, <3>4
      <3>6. s[d + 1].first = End(upper) + 1
        <4>1. CASE d = 0
          BY <1>0, <1>1, <3>1, <4>1
        <4>2. CASE d # 0
          <5>1. d + 1 \in 2 .. n /\ (d + 1) - 1 = d /\ m # n
            BY <1>0, <1>1, <3>1, <4>2
          <5> QED
            BY <1>0, <1>1, <5>1
        <4> QED
          BY <4>1, <4>2
      <3> QED
        BY <1>r, <3>1, <3>2, <3>5, <3>6
    <2> QED
      BY <2>1, <2>2
  <1>5. /\ c \in Record /\ c.n = m + 1 /\ c.ts = r.ts
        /\ c.first = End(upper) + 1 /\ c.first <= c.ts
    BY <1>1, <1>3, <1>4, <1>r DEF Record
  <1>6. Chain(Append(upper, c)) /\ End(Append(upper, c)) = r.ts
    BY <1>5, ChainAppend
  <1>7. Rolls(Append(s, r), <<>>, Append(upper, c))
    <2> DEFINE t == Append(s, r)
    <2>1. t \in Seq(Record) /\ Len(t) = n + 1 /\ t[n + 1] = r
      BY <1>0, AppendProperties DEF n
    <2> HIDE DEF t
    <2>2. Suffix(<<>>, t)
      BY <1>0, <2>1 DEF Suffix
    <2>3. Mark(t, <<>>) = r.ts
      BY <1>0, <2>1 DEF Mark
    <2> QED
      BY <1>6, <2>2, <2>3 DEF Rolls, t
  <1> QED
    BY <1>5, <1>6, <1>7 DEF c, b, m

(* The records of a piece that reaches to the end of s, those newer than the *)
(* mark of buf, are buf.                                                     *)
LEMMA NewerIsPending ==
    ASSUME NEW s, NEW u, NEW buf, Chain(s), Suffix(u, s), Suffix(buf, s),
           Len(buf) <= Len(u)
    PROVE  Newer(u, Mark(s, buf)) = buf
  <1> DEFINE n == Len(s)
             l == Len(u)
             m == Len(buf)
             keep == {i \in 1 .. l : u[i].ts > Mark(s, buf)}
  <1>0. /\ s \in Seq(Record) /\ n \in Nat
        /\ \A i \in 1 .. n : s[i].first <= s[i].ts
        /\ \A i \in 2 .. n : s[i].first = s[i - 1].ts + 1
        /\ \A i, j \in 1 .. n : i < j => s[i].ts < s[j].ts
        /\ n # 0 => s[1].first = 1
    BY DEF Chain, Gapless
  <1>1. /\ u \in Seq(Record) /\ buf \in Seq(Record)
        /\ l \in Nat /\ m \in Nat /\ m <= l /\ l <= n
        /\ \A k \in 1 .. l : u[k] = s[n - l + k]
        /\ \A k \in 1 .. m : buf[k] = s[n - m + k]
    BY DEF Suffix
  <1>2. Mark(s, buf) = IF m = n THEN 0 ELSE s[n - m].ts
    BY DEF Mark
  <1>r. \A i \in 1 .. n : s[i].ts \in Nat /\ s[i].ts >= 1
    <2> SUFFICES ASSUME NEW i \in 1 .. n PROVE s[i].ts \in Nat /\ s[i].ts >= 1
      OBVIOUS
    <2>0. s[i] \in Record /\ s[1] \in Record /\ 1 \in 1 .. n
      BY <1>0 DEF n
    <2>1. s[i].ts \in Nat /\ s[1].ts \in Nat /\ s[1].first \in Nat /\ 1 \in 1 .. n
      BY <2>0 DEF Record
    <2>2. s[1].ts >= 1
      BY <1>0, <2>1
    <2>3. i = 1 \/ s[1].ts < s[i].ts
      BY <1>0, <2>1
    <2> QED
      BY <2>1, <2>2, <2>3
  <1>3. Newer(u, Mark(s, buf)) = Kept(u, keep)
    BY DEF Newer
  <1> HIDE DEF n, l, m
  <1>4. ASSUME NEW i \in 1 .. l
        PROVE  u[i].ts > Mark(s, buf) <=> i \in l - m + 1 .. l
    <2> DEFINE j == n - l + i
    <2>1. j \in 1 .. n /\ u[i] = s[j] /\ s[j].ts \in Nat /\ s[j].ts >= 1
      BY <1>0, <1>1, <1>r
    <2>2. (i \in l - m + 1 .. l) <=> (n - m < j)
      BY <1>0, <1>1
    <2> HIDE DEF j
    <2>3. CASE m = n
      BY <1>0, <1>1, <1>2, <2>1, <2>2, <2>3
    <2>4. CASE m # n
      <3>1. n - m \in 1 .. n /\ s[n - m].ts \in Nat
        BY <1>0, <1>1, <1>r, <2>4
      <3>2. CASE n - m < j
        <4>1. s[n - m].ts < s[j].ts
          BY <1>0, <2>1, <3>1, <3>2
        <4> QED
          BY <1>2, <2>1, <2>2, <2>4, <3>1, <3>2, <4>1
      <3>3. CASE j <= n - m
        <4>1. j = n - m \/ s[j].ts < s[n - m].ts
          BY <1>0, <2>1, <3>1, <3>3
        <4>2. ~(s[j].ts > s[n - m].ts)
          BY <2>1, <3>1, <4>1
        <4>3. ~(n - m < j)
          BY <1>0, <1>1, <2>1, <3>3
        <4> QED
          BY <1>2, <2>1, <2>2, <2>4, <4>2, <4>3
      <3> QED
        BY <1>0, <1>1, <2>1, <3>2, <3>3
    <2> QED
      BY <2>3, <2>4
  <1>5. keep = l - m + 1 .. l
    <2>1. l - m + 1 .. l \subseteq 1 .. l
      BY <1>1
    <2> QED
      BY <1>4, <2>1
  <1> DEFINE a == l - m + 1
             k == Kept(u, a .. l)
  <1>6. a \in 1 .. Len(u) + 1 /\ l \in 0 .. Len(u) /\ a <= l + 1 /\ l - a + 1 = m
    BY <1>1 DEF l
  <1>7. /\ k \in Seq(Record) /\ Len(k) = m
        /\ \A j \in 1 .. m : k[j] = u[a + j - 1]
    <2>1. Len(k) = l - a + 1 /\ \A j \in 1 .. l - a + 1 : k[j] = u[a + j - 1]
      <3>1. u \in Seq(Record)
        BY <1>1
      <3> HIDE DEF a
      <3> QED
        BY <3>1, <1>6, KeptRun
    <2>2. k \in Seq(Record)
      BY <1>1, KeptType
    <2> QED
      BY <1>6, <2>1, <2>2
  <1>8. ASSUME NEW j \in 1 .. m
        PROVE  k[j] = buf[j]
    <2>1. a + j - 1 \in 1 .. l /\ n - l + (a + j - 1) = n - m + j
      BY <1>0, <1>1
    <2>2. k[j] = u[a + j - 1]
      BY <1>7
    <2> QED
      BY <1>1, <2>1, <2>2
  <1>9. k = buf
    <2> HIDE DEF k
    <2> QED
      BY <1>1, <1>7, <1>8, SeqEqual DEF m
  <1> QED
    BY <1>3, <1>5, <1>9
-----------------------------------------------------------------------------
(* The tiers.                                                              *)

\* One tier and the next: what the next one has, and what waits for it.
Level(lower, buf, upper, ratio, missing) ==
    /\ Chain(upper)
    /\ Rolls(lower, buf, upper)
    /\ \A k \in 1 .. Len(upper) : upper[k].n \in ratio .. ratio + missing
    /\ Len(buf) <= ratio - 1 + missing

StoreInv ==
    /\ TypeOK
    /\ Chain(tier[0]) /\ End(tier[0]) = Len(tier[0])
    /\ latestCache = Newest(0)
    /\ NumTiers > 1 => Level(tier[0], tier1Buf, tier[1], Ratio1, failures)
    /\ NumTiers > 2 => Level(tier[1], tier2Buf, tier[2], Ratio2, failures)
    /\ (NumTiers = 1 => tier1Buf = <<>>) /\ (NumTiers <= 2 => tier2Buf = <<>>)

\* A write that fails does so before the record counts.
FailsClean == "kept" \notin Failures

LEMMA LevelSlack ==
    ASSUME NEW lower, NEW buf, NEW upper, NEW ratio \in Nat, NEW missing \in Nat,
           NEW more \in Nat, missing <= more,
           Level(lower, buf, upper, ratio, missing)
    PROVE  Level(lower, buf, upper, ratio, more)
  <1>1. Len(buf) \in Nat
    BY DEF Level, Rolls, Suffix
  <1>2. ratio .. ratio + missing \subseteq ratio .. ratio + more
    OBVIOUS
  <1> QED
    BY <1>1, <1>2 DEF Level

LEMMA LevelWaits ==
    ASSUME NEW lower \in Seq(Record), NEW buf, NEW upper, NEW ratio \in Nat,
           NEW missing \in Nat, NEW more \in Nat, missing <= more,
           Level(lower, buf, upper, ratio, missing),
           NEW r \in Record,
           Len(buf) + 1 <= ratio - 1 + more
    PROVE  Level(Append(lower, r), Append(buf, r), upper, ratio, more)
  <1>1. Level(lower, buf, upper, ratio, more)
    BY LevelSlack
  <1>2. Rolls(Append(lower, r), Append(buf, r), upper)
    BY Wait DEF Level
  <1>3. buf \in Seq(Record)
    BY DEF Level, Rolls, Suffix
  <1>4. Len(Append(buf, r)) = Len(buf) + 1
    BY <1>3, AppendProperties
  <1> QED
    BY <1>1, <1>2, <1>4 DEF Level

LEMMA LevelRolls ==
    ASSUME NEW lower, NEW buf, NEW upper, NEW ratio \in Nat, NEW missing \in Nat,
           Chain(lower), Level(lower, buf, upper, ratio, missing),
           NEW r \in Record, r.first = End(lower) + 1, r.first <= r.ts,
           Len(buf) + 1 >= ratio, ratio # 0
    PROVE  LET c == Combine(Append(buf, r))
           IN /\ c \in Record /\ c.first = End(upper) + 1 /\ c.first <= c.ts
              /\ Level(Append(lower, r), <<>>, Append(upper, c), ratio, missing)
  <1> DEFINE c == Combine(Append(buf, r))
             up == Append(upper, c)
  <1>1. /\ c \in Record /\ c.n = Len(buf) + 1
        /\ c.first = End(upper) + 1 /\ c.first <= c.ts
        /\ Chain(up)
        /\ Rolls(Append(lower, r), <<>>, up)
    BY RollUp DEF Level
  <1>2. upper \in Seq(Record) /\ Len(buf) \in Nat
    BY DEF Level, Chain, Gapless, Rolls, Suffix
  <1> HIDE DEF c
  <1>3. /\ Len(up) = Len(upper) + 1 /\ up[Len(upper) + 1] = c
        /\ \A k \in 1 .. Len(upper) : up[k] = upper[k]
    BY <1>1, <1>2, AppendProperties
  <1>4. c.n \in ratio .. ratio + missing
    BY <1>1, <1>2 DEF Level
  <1> HIDE DEF up
  <1>5. ASSUME NEW k \in 1 .. Len(up)
        PROVE  up[k].n \in ratio .. ratio + missing
    <2>1. k = Len(upper) + 1 \/ k \in 1 .. Len(upper)
      BY <1>2, <1>3
    <2> QED
      BY <1>3, <1>4, <2>1 DEF Level
  <1>6. Len(<<>>) <= ratio - 1 + missing
    OBVIOUS
  <1> QED
    BY <1>1, <1>5, <1>6 DEF Level, c, up

(* The sample that comes next, and the records it may complete. *)
LEMMA NextSample ==
    ASSUME TypeOK
    PROVE  /\ Sample \in Record /\ Sample.first = Len(tier[0]) + 1
           /\ Sample.ts = Len(tier[0]) + 1
           /\ Pending1 \in Seq(Record) /\ Record1 \in Record
           /\ Pending2 \in Seq(Record) /\ Record2 \in Record
  <1>1. /\ tier[0] \in Seq(Record) /\ Len(tier[0]) \in Nat
        /\ tier1Buf \in Seq(Record) /\ tier2Buf \in Seq(Record)
    BY DEF TypeOK
  <1>2. /\ Sample \in Record /\ Sample.first = Len(tier[0]) + 1
        /\ Sample.ts = Len(tier[0]) + 1
    BY <1>1 DEF Sample, Record
  <1>3. ASSUME NEW s \in Seq(Record), NEW r \in Record
        PROVE  Append(s, r) \in Seq(Record) /\ Combine(Append(s, r)) \in Record
    <2> DEFINE t == Append(s, r)
    <2>1. t \in Seq(Record) /\ Len(t) = Len(s) + 1
      BY AppendProperties
    <2> HIDE DEF t
    <2>2. 1 \in 1 .. Len(t) /\ Len(t) \in 1 .. Len(t) /\ Len(t) \in Nat
      BY <2>1
    <2>3. t[1] \in Record /\ t[Len(t)] \in Record
      BY <2>1, <2>2
    <2>4. Combine(t) \in Record
      BY <2>2, <2>3 DEF Combine, Record
    <2> QED
      BY <2>1, <2>4 DEF t
  <1>4. Pending1 \in Seq(Record) /\ Record1 \in Record
    BY <1>1, <1>2, <1>3 DEF Pending1, Record1
  <1> QED
    BY <1>1, <1>2, <1>3, <1>4 DEF Pending2, Record2

LEMMA FreshTier ==
    ASSUME NEW from, NEW to, NEW points
    PROVE  Fresh(from, to, points).tier \in 0 .. LastTier \union {NoTier}
  <1>1. LastTier \in Nat
    BY StoreAssumption DEF LastTier
  <1> QED
    BY <1>1, AnswerIs DEF Fresh

LEMMA TypeStep == TypeOK /\ [Next]_vars => TypeOK'
  <1> SUFFICES ASSUME TypeOK, [Next]_vars
               PROVE  TypeOK'
    OBVIOUS
  <1> DEFINE Rest == /\ \A k \in DOMAIN queryCache : queryCache[k].tier \in 0 .. LastTier
                     /\ failures \in 0 .. MaxFailures
                     /\ restarts \in 0 .. MaxRestarts
  <1>0. /\ tier \in [0 .. 2 -> Seq(Record)]
        /\ tier1Buf \in Seq(Record) /\ tier2Buf \in Seq(Record)
        /\ latestCache \in Nat /\ Rest
        /\ MaxFailures \in Nat /\ MaxRestarts \in Nat
        /\ Ratio1 \in Nat /\ Ratio2 \in Nat /\ found \in Finds
    BY StoreAssumption DEF TypeOK
  <1>1. /\ Sample \in Record /\ Sample.ts \in Nat
        /\ Pending1 \in Seq(Record) /\ Record1 \in Record
        /\ Pending2 \in Seq(Record) /\ Record2 \in Record
    BY NextSample DEF Record
  <1>2. \A i \in 0 .. 2, r \in Record : Append(tier[i], r) \in Seq(Record)
    BY <1>0, AppendProperties
  <1>3. Append(tier[0], Sample) \in Seq(Record) /\ Append(tier[1], Record1) \in Seq(Record)
        /\ Append(tier[2], Record2) \in Seq(Record)
    BY <1>1, <1>2
  <1> HIDE DEF Rest
  <1>4. (queryCache' = queryCache \/ queryCache' = <<>>)
        /\ (failures' = failures \/ Fail)
        /\ (restarts' = restarts \/ Restart) => Rest'
    BY <1>0 DEF Rest, Fail, Restart
  <1>f. \A done, torn : Rereads(done, torn) => found' \in Finds
    BY DEF Rereads
  <1>5. CASE WriteSampleRaw
    BY <1>f, <1>0, <1>1, <1>3, <1>4, <1>5 DEF WriteSampleRaw, Invalidate, NoAnswers, TypeOK, Rest
  <1>6. CASE WriteSample1
    <2>1. tier' \in [0 .. 2 -> Seq(Record)]
      BY <1>0, <1>3, <1>6 DEF WriteSample1
    <2>2. tier1Buf' \in Seq(Record) /\ tier2Buf' \in Seq(Record) /\ latestCache' \in Nat
      BY <1>0, <1>1, <1>6 DEF WriteSample1, Buffer2
    <2>3. Rest'
      BY <1>4, <1>6 DEF WriteSample1, Invalidate, NoAnswers
    <2>4. found' \in Finds
      BY <1>f, <1>6 DEF WriteSample1
    <2> QED
      BY <2>1, <2>2, <2>3, <2>4 DEF TypeOK, Rest
  <1>7. CASE WriteSample2
    <2>1. tier' \in [0 .. 2 -> Seq(Record)]
      BY <1>0, <1>3, <1>7 DEF WriteSample2
    <2>2. tier1Buf' \in Seq(Record) /\ tier2Buf' \in Seq(Record) /\ latestCache' \in Nat
      BY <1>1, <1>7 DEF WriteSample2
    <2>3. Rest'
      BY <1>4, <1>7 DEF WriteSample2, Invalidate, NoAnswers
    <2>4. found' \in Finds
      BY <1>f, <1>7 DEF WriteSample2
    <2> QED
      BY <2>1, <2>2, <2>3, <2>4 DEF TypeOK, Rest
  <1>8. ASSUME NEW how \in Failures, WriteSampleFails0(how)
        PROVE  TypeOK'
    BY <1>f, <1>0, <1>1, <1>3, <1>4, <1>8 DEF WriteSampleFails0, TypeOK, Rest
  <1>9. ASSUME NEW how \in Failures, WriteSampleFails1(how)
        PROVE  TypeOK'
    BY <1>f, <1>0, <1>1, <1>3, <1>4, <1>9 DEF WriteSampleFails1, TypeOK, Rest
  <1>10. ASSUME NEW how \in Failures, WriteSampleFails2(how)
        PROVE  TypeOK'
    <2>1. tier' \in [0 .. 2 -> Seq(Record)]
      BY <1>0, <1>3, <1>10 DEF WriteSampleFails2
    <2>2. tier1Buf' \in Seq(Record) /\ tier2Buf' \in Seq(Record) /\ latestCache' \in Nat
      BY <1>1, <1>10 DEF WriteSampleFails2
    <2>3. Rest'
      BY <1>4, <1>10 DEF WriteSampleFails2
    <2>4. found' \in Finds
      BY <1>f, <1>10 DEF WriteSampleFails2
    <2> QED
      BY <2>1, <2>2, <2>3, <2>4 DEF TypeOK, Rest
  <1>11. ASSUME NEW w \in Windows, NEW p \in Points, Query(w, p)
        PROVE  TypeOK'
    <2>1. Fresh(w[1], w[2], p).tier \in 0 .. LastTier
      BY <1>11, FreshTier DEF Query, Keeps
    <2>2. \A k \in DOMAIN queryCache' : queryCache'[k].tier \in 0 .. LastTier
      BY <1>0, <1>11, <2>1 DEF Query, Rest
    <2> QED
      BY <1>0, <1>11, <2>2 DEF Query, TypeOK, Rest
  <1>12. CASE Restart
    <2>1. tier' \in [0 .. 2 -> Seq(Record)] /\ tier1Buf' \in Seq(Record)
          /\ tier2Buf' \in Seq(Record) /\ latestCache' \in Nat /\ found' \in Finds
      BY <1>0, <1>12 DEF Restart
    <2>2. Rest'
      BY <1>4, <1>12 DEF Restart, NoAnswers
    <2> QED
      BY <2>1, <2>2 DEF TypeOK, Rest
  <1>14. CASE UNCHANGED vars
    BY <1>14 DEF vars, TypeOK
  <1> QED
    BY <1>5, <1>6, <1>7, <1>8, <1>9, <1>10, <1>11, <1>12, <1>14 DEF Next, WriteSample

(* Whatever is written, fails, is asked and is begun anew, the tiers         *)
(* and buffers hold records and a cached answer comes from a configured tier. *)
THEOREM TypeCorrect == Spec => []TypeOK
  <1>1. Init => TypeOK
    BY StoreAssumption DEF Init, NoAnswers, TypeOK
  <1> QED
    BY <1>1, TypeStep, PTL DEF Spec
-----------------------------------------------------------------------------
(* The roll-up.                                                            *)

LEMMA StoreInvInit == Init => StoreInv
  <1> SUFFICES ASSUME Init PROVE StoreInv
    OBVIOUS
  <1>1. TypeOK
    BY StoreAssumption DEF Init, NoAnswers, TypeOK
  <1>2. tier[0] = <<>> /\ tier[1] = <<>> /\ tier[2] = <<>>
    BY DEF Init
  <1>3. Chain(<<>>) /\ End(<<>>) = 0 /\ Len(<<>>) = 0
    BY DEF Chain, Gapless, End
  <1>4. \A n \in Nat \ {0} : Level(<<>>, <<>>, <<>>, n, 0)
    BY <1>3 DEF Level, Rolls, Suffix, Mark
  <1> QED
    BY <1>1, <1>2, <1>3, <1>4, StoreAssumption DEF Init, StoreInv, Newest

\* What the steps of WriteSample have in common: the tiers as they were.
Before ==
    /\ TypeOK /\ StoreInv
    /\ failures \in Nat /\ Ratio1 \in Nat \ {0} /\ Ratio2 \in Nat \ {0}
    /\ tier \in [0 .. 2 -> Seq(Record)]

(* After a sample: tier 0, and either of the two levels above it.           *)
LEMMA Sampled ==
    ASSUME Before
    PROVE  LET raw == Append(tier[0], Sample)
           IN /\ Chain(raw) /\ End(raw) = Len(raw) /\ End(raw) = Sample.ts
              /\ raw # <<>> /\ raw[Len(raw)].ts = Sample.ts
              /\ Sample \in Record
              /\ Sample.first = End(tier[0]) + 1 /\ Sample.first <= Sample.ts
  <1> DEFINE raw == Append(tier[0], Sample)
  <1>1. /\ Sample \in Record /\ Sample.first = Len(tier[0]) + 1
        /\ Sample.ts = Len(tier[0]) + 1
    BY NextSample DEF Before
  <1>2. tier[0] \in Seq(Record) /\ Len(tier[0]) \in Nat
    BY DEF Before
  <1>3. Chain(tier[0]) /\ End(tier[0]) = Len(tier[0])
    BY DEF Before, StoreInv
  <1>4. Sample.first = End(tier[0]) + 1 /\ Sample.first <= Sample.ts
    BY <1>1, <1>2, <1>3
  <1>5. Chain(raw) /\ End(raw) = Sample.ts
    BY <1>1, <1>3, <1>4, ChainAppend
  <1>6. /\ Len(raw) = Len(tier[0]) + 1 /\ raw # <<>>
        /\ raw[Len(tier[0]) + 1] = Sample
    BY <1>1, <1>2, AppendProperties
  <1> HIDE DEF raw
  <1> QED
    BY <1>1, <1>4, <1>5, <1>6 DEF raw

LEMMA Level1Waits ==
    ASSUME Before, NumTiers > 1, NEW more \in {failures, failures + 1},
           Len(tier1Buf) + 1 <= Ratio1 - 1 + more
    PROVE  Level(Append(tier[0], Sample), Pending1, tier[1], Ratio1, more)
  <1>1. Level(tier[0], tier1Buf, tier[1], Ratio1, failures)
    BY DEF Before, StoreInv
  <1>2. tier[0] \in Seq(Record) /\ failures \in Nat /\ more \in Nat /\ failures <= more
        /\ Ratio1 \in Nat
    BY DEF Before
  <1>3. Sample \in Record
    BY Sampled
  <1> QED
    BY <1>1, <1>2, <1>3, LevelWaits DEF Pending1

LEMMA Level1Rolls ==
    ASSUME Before, Due1, NEW more \in {failures, failures + 1}
    PROVE  /\ Level(Append(tier[0], Sample), <<>>, Append(tier[1], Record1), Ratio1, more)
           /\ Record1 \in Record /\ Record1.first = End(tier[1]) + 1
           /\ Record1.first <= Record1.ts
           /\ Chain(tier[1])
  <1>1. Level(tier[0], tier1Buf, tier[1], Ratio1, failures) /\ Chain(tier[0])
    BY DEF Before, StoreInv, Due1, Aggregates
  <1>2. /\ failures \in Nat /\ more \in Nat /\ failures <= more
        /\ Ratio1 \in Nat /\ Ratio1 # 0 /\ Len(tier1Buf) + 1 >= Ratio1
    BY DEF Before, Due1
  <1>3. Sample \in Record /\ Sample.first = End(tier[0]) + 1 /\ Sample.first <= Sample.ts
    BY Sampled
  <1>4. /\ Record1 \in Record /\ Record1.first = End(tier[1]) + 1
        /\ Record1.first <= Record1.ts
        /\ Level(Append(tier[0], Sample), <<>>, Append(tier[1], Record1), Ratio1, failures)
    BY <1>1, <1>2, <1>3, LevelRolls DEF Record1, Pending1
  <1>5. Level(Append(tier[0], Sample), <<>>, Append(tier[1], Record1), Ratio1, more)
    BY <1>2, <1>4, LevelSlack
  <1> QED
    BY <1>1, <1>4, <1>5 DEF Level

LEMMA Level2Waits ==
    ASSUME Before, Due1, NumTiers > 2, NEW more \in {failures, failures + 1},
           Len(tier2Buf) + 1 <= Ratio2 - 1 + more
    PROVE  Level(Append(tier[1], Record1), Pending2, tier[2], Ratio2, more)
  <1>1. Level(tier[1], tier2Buf, tier[2], Ratio2, failures)
    BY DEF Before, StoreInv
  <1>2. tier[1] \in Seq(Record) /\ failures \in Nat /\ more \in Nat /\ failures <= more
        /\ Ratio2 \in Nat
    BY DEF Before
  <1>3. Record1 \in Record
    BY Level1Rolls
  <1> QED
    BY <1>1, <1>2, <1>3, LevelWaits DEF Pending2

LEMMA Level2Rolls ==
    ASSUME Before, Due2
    PROVE  Level(Append(tier[1], Record1), <<>>, Append(tier[2], Record2), Ratio2, failures)
  <1>0. Due1 /\ NumTiers > 2 /\ Len(tier2Buf) + 1 >= Ratio2
    BY DEF Due2
  <1>1. Level(tier[1], tier2Buf, tier[2], Ratio2, failures)
    BY <1>0 DEF Before, StoreInv
  <1>2. failures \in Nat /\ Ratio2 \in Nat /\ Ratio2 # 0
    BY DEF Before
  <1>3. /\ Record1 \in Record /\ Record1.first = End(tier[1]) + 1
        /\ Record1.first <= Record1.ts /\ Chain(tier[1])
    BY <1>0, Level1Rolls
  <1> QED
    BY <1>0, <1>1, <1>2, <1>3, LevelRolls DEF Record2, Pending2

\* Nothing is written and nothing is forgotten.
LEMMA NothingWritten ==
    ASSUME Before, NEW more \in {failures, failures + 1}
    PROVE  /\ NumTiers > 1 => Level(tier[0], tier1Buf, tier[1], Ratio1, more)
           /\ NumTiers > 2 => Level(tier[1], tier2Buf, tier[2], Ratio2, more)
  <1>1. failures \in Nat /\ more \in Nat /\ failures <= more /\ Ratio1 \in Nat /\ Ratio2 \in Nat
    BY DEF Before
  <1> QED
    BY <1>1, LevelSlack DEF Before, StoreInv

LEMMA StoreInvStep ==
    ASSUME FailsClean, StoreInv, [Next]_vars
    PROVE  StoreInv'
  <1>t. TypeOK'
    BY TypeStep DEF StoreInv
  <1>b. Before
    BY StoreAssumption DEF Before, StoreInv, TypeOK
  <1>0. /\ NumTiers \in 1 .. 3 /\ failures \in Nat
        /\ Ratio1 \in Nat \ {0} /\ Ratio2 \in Nat \ {0}
        /\ tier \in [0 .. 2 -> Seq(Record)]
        /\ failures \in {failures, failures + 1} /\ failures + 1 \in {failures, failures + 1}
    BY <1>b, StoreAssumption DEF Before
  <1>1. /\ Chain(tier[0]) /\ End(tier[0]) = Len(tier[0])
        /\ latestCache = Newest(0)
        /\ NumTiers > 1 => Level(tier[0], tier1Buf, tier[1], Ratio1, failures)
        /\ NumTiers > 2 => Level(tier[1], tier2Buf, tier[2], Ratio2, failures)
        /\ (NumTiers = 1 => tier1Buf = <<>>) /\ (NumTiers <= 2 => tier2Buf = <<>>)
    BY DEF StoreInv
  <1> DEFINE raw == Append(tier[0], Sample)
  <1>2. /\ Chain(raw) /\ End(raw) = Len(raw) /\ End(raw) = Sample.ts
        /\ raw # <<>> /\ raw[Len(raw)].ts = Sample.ts
    BY <1>b, Sampled
  <1> HIDE DEF raw
  <1>3. ASSUME UNCHANGED <<tier, tier1Buf, tier2Buf, latestCache>>,
               failures' = failures \/ failures' = failures + 1
        PROVE  StoreInv'
    <2>1. /\ NumTiers > 1 => Level(tier[0], tier1Buf, tier[1], Ratio1, failures')
          /\ NumTiers > 2 => Level(tier[1], tier2Buf, tier[2], Ratio2, failures')
      <3>1. failures' \in {failures, failures + 1}
        BY <1>3
      <3> QED
        BY <1>b, <3>1, NothingWritten
    <2> QED
      BY <1>t, <1>1, <1>3, <2>1 DEF StoreInv, Newest
  <1>r. ASSUME tier'[0] = raw, latestCache' = Sample.ts,
               NumTiers > 1 => Level(tier'[0], tier1Buf', tier'[1], Ratio1, failures'),
               NumTiers > 2 => Level(tier'[1], tier2Buf', tier'[2], Ratio2, failures'),
               NumTiers = 1 => tier1Buf' = <<>>,
               NumTiers <= 2 => tier2Buf' = <<>>
        PROVE  StoreInv'
    <2>1. Newest(0)' = Sample.ts
      BY <1>2, <1>r DEF Newest
    <2> QED
      BY <1>t, <1>2, <1>r, <2>1 DEF StoreInv
  <1>4. CASE WriteSampleRaw
    <2>1. NumTiers > 1 =>
              Level(raw, Pending1, tier[1], Ratio1, failures)
      <3> SUFFICES ASSUME NumTiers > 1
                   PROVE  Level(raw, Pending1, tier[1], Ratio1, failures)
        OBVIOUS
      <3>1. Len(tier1Buf) + 1 <= Ratio1 - 1 + failures
        <4>1. Len(tier1Buf) \in Nat
          BY <1>b DEF Before, TypeOK
        <4>2. ~(Len(tier1Buf) + 1 >= Ratio1)
          BY <1>4 DEF WriteSampleRaw, Due1, Aggregates
        <4> QED
          BY <1>0, <4>1, <4>2
      <3> QED
        BY <1>0, <1>b, <3>1, Level1Waits DEF raw
    <2>2. /\ tier' = [tier EXCEPT ![0] = raw] /\ latestCache' = Sample.ts
          /\ tier1Buf' = IF NumTiers > 1 THEN Pending1 ELSE tier1Buf
          /\ tier2Buf' = tier2Buf /\ failures' = failures
      BY <1>4 DEF WriteSampleRaw, Aggregates, raw
    <2>3. tier'[0] = raw /\ tier'[1] = tier[1] /\ tier'[2] = tier[2]
      BY <1>0, <2>2
    <2> QED
      BY <1>0, <1>1, <1>r, <2>1, <2>2, <2>3
  <1>5. CASE WriteSample1
    <2>0. Due1 /\ ~Due2 /\ NumTiers > 1
      BY <1>5 DEF WriteSample1, Due1, Aggregates
    <2> DEFINE mid == Append(tier[1], Record1)
    <2>1. Level(raw, <<>>, mid, Ratio1, failures)
      BY <1>0, <1>b, <2>0, Level1Rolls DEF raw
    <2>2. NumTiers > 2 => Level(mid, Pending2, tier[2], Ratio2, failures)
      <3> SUFFICES ASSUME NumTiers > 2
                   PROVE  Level(mid, Pending2, tier[2], Ratio2, failures)
        OBVIOUS
      <3>1. Len(tier2Buf) + 1 <= Ratio2 - 1 + failures
        <4>1. Len(tier2Buf) \in Nat
          BY <1>b DEF Before, TypeOK
        <4>2. ~(Len(tier2Buf) + 1 >= Ratio2)
          BY <2>0 DEF Due2
        <4> QED
          BY <1>0, <4>1, <4>2
      <3> QED
        BY <1>0, <1>b, <2>0, <3>1, Level2Waits
    <2> HIDE DEF mid
    <2>3. /\ tier' = [tier EXCEPT ![0] = raw, ![1] = mid] /\ latestCache' = Sample.ts
          /\ tier1Buf' = <<>>
          /\ tier2Buf' = IF NumTiers > 2 THEN Pending2 ELSE tier2Buf
          /\ failures' = failures
      BY <1>5 DEF WriteSample1, Buffer2, raw, mid
    <2>4. tier'[0] = raw /\ tier'[1] = mid /\ tier'[2] = tier[2]
      BY <1>0, <2>3
    <2> QED
      BY <1>0, <1>1, <1>r, <2>0, <2>1, <2>2, <2>3, <2>4
  <1>6. CASE WriteSample2
    <2>0. Due1 /\ Due2 /\ NumTiers > 2 /\ NumTiers > 1
      BY <1>0, <1>6 DEF WriteSample2, Due2
    <2> DEFINE mid == Append(tier[1], Record1)
               top == Append(tier[2], Record2)
    <2>1. Level(raw, <<>>, mid, Ratio1, failures)
      BY <1>0, <1>b, <2>0, Level1Rolls DEF raw
    <2>2. Level(mid, <<>>, top, Ratio2, failures)
      BY <1>b, <2>0, Level2Rolls
    <2> HIDE DEF mid, top
    <2>3. /\ tier' = [tier EXCEPT ![0] = raw, ![1] = mid, ![2] = top]
          /\ latestCache' = Sample.ts
          /\ tier1Buf' = <<>> /\ tier2Buf' = <<>> /\ failures' = failures
      BY <1>6 DEF WriteSample2, raw, mid, top
    <2>4. tier'[0] = raw /\ tier'[1] = mid /\ tier'[2] = top
      BY <1>0, <2>3
    <2> QED
      BY <1>0, <1>1, <1>r, <2>0, <2>1, <2>2, <2>3, <2>4
  <1>7. ASSUME NEW how \in Failures, WriteSampleFails0(how)
        PROVE  StoreInv'
    <2>1. how # "kept"
      BY DEF FailsClean
    <2> QED
      BY <1>3, <1>7, <2>1 DEF WriteSampleFails0, Fail
  <1>8. ASSUME NEW how \in Failures, WriteSampleFails1(how)
        PROVE  StoreInv'
    <2>0. how # "kept" /\ NumTiers > 1 /\ Due1
      BY <1>8 DEF FailsClean, WriteSampleFails1, Due1, Aggregates
    <2>1. Level(raw, Pending1, tier[1], Ratio1, failures + 1)
      <3>1. Len(tier1Buf) \in Nat /\ Len(tier1Buf) <= Ratio1 - 1 + failures
        BY <1>b, <1>1, <2>0 DEF Before, TypeOK, Level
      <3>2. Len(tier1Buf) + 1 <= Ratio1 - 1 + (failures + 1)
        BY <1>0, <3>1
      <3> QED
        BY <1>0, <1>b, <2>0, <3>2, Level1Waits DEF raw
    <2>2. NumTiers > 2 => Level(tier[1], tier2Buf, tier[2], Ratio2, failures + 1)
      BY <1>0, <1>b, NothingWritten
    <2>3. /\ tier' = [tier EXCEPT ![0] = raw, ![1] = tier[1]]
          /\ latestCache' = Sample.ts
          /\ tier1Buf' = Pending1 /\ tier2Buf' = tier2Buf /\ failures' = failures + 1
      BY <1>8, <2>0 DEF WriteSampleFails1, Fail, raw
    <2>4. tier'[0] = raw /\ tier'[1] = tier[1] /\ tier'[2] = tier[2]
      BY <1>0, <2>3
    <2> QED
      BY <1>0, <1>1, <1>r, <2>0, <2>1, <2>2, <2>3, <2>4
  <1>9. ASSUME NEW how \in Failures, WriteSampleFails2(how)
        PROVE  StoreInv'
    <2>0. how # "kept" /\ NumTiers > 2 /\ NumTiers > 1 /\ Due1 /\ Due2
      BY <1>0, <1>9 DEF FailsClean, WriteSampleFails2, Due2
    <2> DEFINE mid == Append(tier[1], Record1)
    <2>1. Level(raw, <<>>, mid, Ratio1, failures + 1)
      BY <1>0, <1>b, <2>0, Level1Rolls DEF raw
    <2>2. Level(mid, Pending2, tier[2], Ratio2, failures + 1)
      <3>1. Len(tier2Buf) \in Nat /\ Len(tier2Buf) <= Ratio2 - 1 + failures
        BY <1>b, <1>1, <2>0 DEF Before, TypeOK, Level
      <3>2. Len(tier2Buf) + 1 <= Ratio2 - 1 + (failures + 1)
        BY <1>0, <3>1
      <3> QED
        BY <1>0, <1>b, <2>0, <3>2, Level2Waits
    <2> HIDE DEF mid
    <2>3. /\ tier' = [tier EXCEPT ![0] = raw, ![1] = mid, ![2] = tier[2]]
          /\ latestCache' = Sample.ts
          /\ tier1Buf' = <<>> /\ tier2Buf' = Pending2 /\ failures' = failures + 1
      BY <1>9, <2>0 DEF WriteSampleFails2, Fail, raw, mid
    <2>4. tier'[0] = raw /\ tier'[1] = mid /\ tier'[2] = tier[2]
      BY <1>0, <2>3
    <2> QED
      BY <1>0, <1>1, <1>r, <2>0, <2>1, <2>2, <2>3, <2>4
  <1>10. CASE Restart
    <2>1. /\ tier' = [i \in 0 .. 2 |-> <<>>] /\ tier1Buf' = <<>> /\ tier2Buf' = <<>>
          /\ latestCache' = 0 /\ failures' = failures
      BY <1>10 DEF Restart
    <2>2. tier'[0] = <<>> /\ tier'[1] = <<>> /\ tier'[2] = <<>>
      BY <2>1
    <2>3. Chain(<<>>) /\ End(<<>>) = 0 /\ Len(<<>>) = 0
      BY DEF Chain, Gapless, End
    <2>4. \A n \in Nat \ {0} : Level(<<>>, <<>>, <<>>, n, failures)
      BY <1>0, <2>3 DEF Level, Rolls, Suffix, Mark
    <2> QED
      BY <1>0, <1>t, <2>1, <2>2, <2>3, <2>4 DEF StoreInv, Newest
  <1>12. CASE \E w \in Windows, p \in Points : Query(w, p)
    BY <1>3, <1>12 DEF Query
  <1>13. CASE UNCHANGED vars
    BY <1>3, <1>13 DEF vars
  <1> QED
    BY <1>4, <1>5, <1>6, <1>7, <1>8, <1>9, <1>10, <1>12, <1>13
       DEF Next, WriteSample

LEMMA StoreInvariant == FailsClean /\ Spec => []StoreInv
  <1>1. FailsClean /\ StoreInv /\ [Next]_vars => StoreInv'
    BY StoreInvStep
  <1>2. FailsClean => FailsClean'
    BY DEF FailsClean
  <1> QED
    BY <1>1, <1>2, StoreInvInit, PTL DEF Spec

(* No sample is lost or counted twice by the roll-up, also when writes fail  *)
(* and are made good later: each record of tiers 1 and 2 goes on where the   *)
(* last one ended, and the rest waits in the buffer.                         *)
THEOREM RollupAlwaysComplete == FailsClean /\ Spec => []RollupComplete
  <1>1. ASSUME StoreInv PROVE RollupComplete
    <2>1. ASSUME NEW lower, NEW buf, NEW upper, NEW ratio, Chain(lower),
                 Level(lower, buf, upper, ratio, failures)
          PROVE  CoversAll(upper, buf, lower)
      <3>1. Chain(upper) /\ Suffix(buf, lower) /\ End(upper) = Mark(lower, buf)
        BY <2>1 DEF Level, Rolls
      <3>2. lower \in Seq(Record) /\ upper \in Seq(Record)
        BY <2>1, <3>1 DEF Chain, Gapless
      <3>3. Suffix(lower, lower) /\ Len(buf) <= Len(lower)
        BY <3>1, <3>2 DEF Suffix
      <3>4. Newer(lower, End(upper)) = buf
        BY <2>1, <3>1, <3>3, NewerIsPending
      <3>5. ASSUME NEW i \in 1 .. Len(upper)
            PROVE  upper[i].first = IF i = 1 THEN 1 ELSE upper[i - 1].ts + 1
        <4>1. upper # <<>> /\ (i = 1 \/ i \in 2 .. Len(upper))
          BY <3>2
        <4> QED
          BY <3>1, <4>1 DEF Chain, Gapless
      <3> QED
        BY <3>4, <3>5 DEF CoversAll, End
    <2>2. NumTiers > 1 => CoversAll(tier[1], tier1Buf, tier[0])
      BY <1>1, <2>1 DEF StoreInv
    <2>3. NumTiers > 2 => CoversAll(tier[2], tier2Buf, tier[1])
      <3>1. NumTiers > 2 => Chain(tier[1])
        BY <1>1, StoreAssumption DEF StoreInv, Level
      <3> QED
        BY <1>1, <2>1, <3>1 DEF StoreInv
    <2> QED
      BY <2>2, <2>3 DEF RollupComplete
  <1> QED
    BY <1>1, StoreInvariant, PTL

(* A record of tier 1 or 2 is made of as many records as its resolution      *)
(* says, and of one more for each write that failed at most.                 *)
THEOREM BlockSizesRight == FailsClean /\ Spec => []BlockSizes
  <1>1. ASSUME StoreInv PROVE BlockSizes
    <2> SUFFICES ASSUME NEW i \in 1 .. LastTier, NEW k \in 1 .. MaxWrites,
                        k <= Len(tier[i])
                 PROVE  tier[i][k].n \in (IF i = 1 THEN Ratio1 ELSE Ratio2)
                                           .. (IF i = 1 THEN Ratio1 ELSE Ratio2) + failures
      BY DEF BlockSizes
    <2>1. (i = 1 /\ NumTiers > 1) \/ (i = 2 /\ NumTiers > 2)
      BY StoreAssumption DEF LastTier
    <2>2. tier[i] \in Seq(Record)
      BY <1>1, <2>1 DEF StoreInv, TypeOK
    <2>3. k \in 1 .. Len(tier[i])
      BY <2>2
    <2> QED
      BY <1>1, <2>1, <2>3 DEF StoreInv, Level
  <1> QED
    BY <1>1, StoreInvariant, PTL

(* The cached latest sample is the newest of tier 0 after every step, those  *)
(* included on which WriteSample returns an error halfway.                   *)
THEOREM LatestAlwaysCurrent == FailsClean /\ Spec => []LatestCurrent
  <1>1. Init => LatestCurrent
    BY DEF Init, LatestCurrent, Newest
  <1>2. ASSUME FailsClean, TypeOK, LatestCurrent, [Next]_vars
        PROVE  LatestCurrent'
    <2>0. tier \in [0 .. 2 -> Seq(Record)]
      BY <1>2 DEF TypeOK
    <2>1. ASSUME tier'[0] = Append(tier[0], Sample), latestCache' = Sample.ts
          PROVE  LatestCurrent'
      <3> DEFINE raw == Append(tier[0], Sample)
      <3>1. Sample \in Record
        BY <1>2, NextSample
      <3>2. raw # <<>> /\ raw[Len(raw)] = Sample
        BY <2>0, <3>1, AppendProperties
      <3> HIDE DEF raw
      <3>3. tier'[0] = raw
        BY <2>1 DEF raw
      <3> QED
        BY <2>1, <3>2, <3>3 DEF LatestCurrent, Newest
    <2>2. ASSUME UNCHANGED <<tier, latestCache>>
          PROVE  LatestCurrent'
      BY <1>2, <2>2 DEF LatestCurrent, Newest
    <2>3. CASE WriteSampleRaw \/ WriteSample1 \/ WriteSample2
      <3>1. tier'[0] = Append(tier[0], Sample) /\ latestCache' = Sample.ts
        BY <2>0, <2>3 DEF WriteSampleRaw, WriteSample1, WriteSample2
      <3> QED
        BY <2>1, <3>1
    <2>4. ASSUME NEW how \in Failures, WriteSampleFails0(how)
          PROVE  LatestCurrent'
      BY <1>2, <2>2, <2>4 DEF WriteSampleFails0, FailsClean
    <2>5. ASSUME NEW how \in Failures, WriteSampleFails1(how) \/ WriteSampleFails2(how)
          PROVE  LatestCurrent'
      <3>1. tier'[0] = Append(tier[0], Sample) /\ latestCache' = Sample.ts
        BY <2>0, <2>5 DEF WriteSampleFails1, WriteSampleFails2
      <3> QED
        BY <2>1, <3>1
    <2>6. CASE \E w \in Windows, p \in Points : Query(w, p)
      BY <2>2, <2>6 DEF Query
    <2>7. CASE Restart
      BY <2>7 DEF Restart, LatestCurrent, Newest
    <2>9. CASE UNCHANGED vars
      BY <2>2, <2>9 DEF vars
    <2> QED
      BY <1>2, <2>3, <2>4, <2>5, <2>6, <2>7, <2>9 DEF Next, WriteSample
  <1>3. FailsClean /\ TypeOK /\ LatestCurrent /\ [Next]_vars => LatestCurrent'
    BY <1>2
  <1>4. FailsClean => FailsClean'
    BY DEF FailsClean
  <1> QED
    BY <1>1, <1>3, <1>4, TypeCorrect, PTL DEF Spec
-----------------------------------------------------------------------------
(* Queries.                                                                *)

\* The answer depends on what the key is made of only.
LEMMA KeyFixesAnswer ==
    ASSUME NEW v, NEW w, NEW p, NEW q, Key(v, p) = Key(w, q)
    PROVE  Fresh(v[1], v[2], p) = Fresh(w[1], w[2], q)
  <1>1. v[1] = w[1] /\ v[2] = w[2] /\ ClampPoints(p) = ClampPoints(q)
    BY DEF Key
  <1> QED
    BY <1>1, Zenon DEF Fresh

(* As long as no write failed, whatever is in the cache is what the tiers    *)
(* would answer now.                                                         *)
THEOREM CacheAlwaysFresh == Spec => []CacheFresh
  <1>1. Init => CacheFresh
    BY DEF Init, NoAnswers, CacheFresh, CacheCurrent
  <1>2. ASSUME TypeOK, CacheFresh, [Next]_vars
        PROVE  CacheFresh'
    <2>0. failures \in Nat
      BY <1>2, StoreAssumption DEF TypeOK
    <2>1. ASSUME queryCache' = NoAnswers
          PROVE  CacheFresh'
      BY <2>1 DEF NoAnswers, CacheFresh, CacheCurrent
    <2>2. ASSUME Fail
          PROVE  CacheFresh'
      BY <2>0, <2>2 DEF Fail, CacheFresh
    <2>3. ASSUME UNCHANGED vars
          PROVE  CacheFresh'
      <3>1. \A from, to, p : Fresh(from, to, p)' = Fresh(from, to, p)
        BY <2>3 DEF Fresh, Visible, vars
      <3> QED
        BY <1>2, <2>3, <3>1 DEF CacheFresh, CacheCurrent, vars
    <2>4. ASSUME NEW v \in Windows, NEW q \in Points, Query(v, q)
          PROVE  CacheFresh'
      <3> SUFFICES ASSUME failures = 0, NEW w \in Windows, NEW p \in Points,
                          Key(w, p) \in DOMAIN queryCache'
                   PROVE  queryCache'[Key(w, p)] = Fresh(w[1], w[2], p)'
        BY <2>4 DEF Query, CacheFresh, CacheCurrent
      <3>1. Fresh(w[1], w[2], p)' = Fresh(w[1], w[2], p)
        BY <2>4 DEF Query, Fresh, Visible
      <3>2. queryCache' = [k \in DOMAIN queryCache \union {Key(v, q)} |->
                              IF k = Key(v, q)
                              THEN Fresh(v[1], v[2], q) ELSE queryCache[k]]
        BY <2>4 DEF Query
      <3>3. CASE Key(w, p) = Key(v, q)
        BY <3>1, <3>2, <3>3, KeyFixesAnswer
      <3>4. CASE Key(w, p) # Key(v, q)
        BY <1>2, <3>1, <3>2, <3>4 DEF CacheFresh, CacheCurrent
      <3> QED
        BY <3>3, <3>4
    <2>5. CASE WriteSample
      BY <2>1, <2>2, <2>5
         DEF WriteSample, WriteSampleRaw, WriteSample1, WriteSample2, Invalidate,
             WriteSampleFails0, WriteSampleFails1, WriteSampleFails2
    <2>6. CASE Restart
      BY <2>1, <2>6 DEF Restart
    <2> QED
      BY <1>2, <2>3, <2>4, <2>5, <2>6 DEF Next
  <1> QED
    BY <1>1, <1>2, TypeCorrect, PTL DEF Spec

LEMMA ClampType ==
    ASSUME NEW p \in Points
    PROVE  ClampPoints(p) \in Nat \ {0}
  BY PointsAssumption, StoreAssumption DEF ClampPoints

\* The records of a tier that its file still holds.
LEMMA VisibleSuffix ==
    ASSUME TypeOK, NEW i \in 0 .. LastTier
    PROVE  Suffix(Visible(i), tier[i]) /\ Visible(i) \in Seq(Record) /\ i \in 0 .. 2
  <1>1. i \in 0 .. 2
    BY StoreAssumption DEF LastTier
  <1>2. tier[i] \in Seq(Record) /\ found[i] \in Nat
    BY <1>1, StoreAssumption DEF TypeOK
  <1>3. Suffix(Visible(i), tier[i])
    BY <1>2, LastNSuffix DEF Visible
  <1> QED
    BY <1>1, <1>3 DEF Suffix

\* What Fresh returns, in terms of the tier it comes from.
LEMMA FreshIs ==
    ASSUME NEW from, NEW to, NEW points
    PROVE  LET a == Fresh(from, to, points)
           IN \/ a = [tier |-> NoTier, samples |-> <<>>]
              \/ /\ a.tier \in 0 .. LastTier
                 /\ Within(Visible(a.tier), from, to) # <<>>
                 /\ a.samples = Downsample(Within(Visible(a.tier), from, to),
                                           ClampPoints(points))
  <1> DEFINE recs == [i \in 0 .. LastTier |-> Visible(i)]
             a == Fresh(from, to, points)
  <1>1. LastTier \in Nat
    BY StoreAssumption DEF LastTier
  <1>2. a = Answer(recs, Resolution, LastTier, from, to, ClampPoints(points))
    BY DEF Fresh
  <1> HIDE DEF recs, a
  <1>3. \/ a = [tier |-> NoTier, samples |-> <<>>]
        \/ /\ a.tier \in 0 .. LastTier
           /\ Answers(recs, Resolution, a.tier, LastTier, from, to, ClampPoints(points))
           /\ a.samples = Downsample(Within(recs[a.tier], from, to), ClampPoints(points))
    BY <1>1, <1>2, AnswerIs
  <1>4. a.tier \in 0 .. LastTier => recs[a.tier] = Visible(a.tier)
    BY DEF recs
  <1> QED
    BY <1>3, <1>4 DEF Answers, a

(* No answer has twice as many points as were asked for, or more.           *)
THEOREM PointsAlwaysBounded == Spec => []PointsBounded
  <1>1. ASSUME TypeOK PROVE PointsBounded
    <2> SUFFICES ASSUME NEW w \in Windows, NEW p \in Points
                 PROVE  Len(Fresh(w[1], w[2], p).samples) < 2 * ClampPoints(p)
      BY DEF PointsBounded
    <2> DEFINE a == Fresh(w[1], w[2], p)
               in == Within(Visible(a.tier), w[1], w[2])
    <2>1. ClampPoints(p) \in Nat \ {0}
      BY ClampType
    <2>2. CASE a = [tier |-> NoTier, samples |-> <<>>]
      BY <2>1, <2>2
    <2>3. CASE a.tier \in 0 .. LastTier /\ a.samples = Downsample(in, ClampPoints(p))
      <3> HIDE DEF a
      <3>1. Visible(a.tier) \in Seq(Record)
        BY <1>1, <2>3, VisibleSuffix
      <3>2. in \in Seq(Record)
        BY <3>1, KeptType DEF Within
      <3> HIDE DEF in
      <3>3. Len(a.samples) < 2 * ClampPoints(p)
        BY <2>1, <2>3, <3>2, DownsampleSize
      <3> QED
        BY <3>3 DEF a
    <2> QED
      BY <2>2, <2>3, FreshIs
  <1> QED
    BY <1>1, TypeCorrect, PTL

\* The records of a window follow one another as those of the tier do.
LEMMA WithinGapless ==
    ASSUME NEW s, Gapless(s), NEW from \in Int, NEW to \in Int
    PROVE  /\ Within(s, from, to) \in Seq(Record)
           /\ \A i \in 2 .. Len(Within(s, from, to)) :
                  Within(s, from, to)[i].first = Within(s, from, to)[i - 1].ts + 1
  <1> DEFINE l == Len(s)
             keep == {i \in 1 .. l : from <= s[i].ts /\ s[i].ts <= to}
             w == Within(s, from, to)
  <1>1. /\ s \in Seq(Record) /\ l \in Nat
        /\ \A i \in 2 .. l : s[i].first = s[i - 1].ts + 1
        /\ \A i, j \in 1 .. l : i < j => s[i].ts < s[j].ts
    BY DEF Gapless
  <1>2. w = Kept(s, keep)
    BY DEF Within
  <1>3. w \in Seq(Record)
    BY <1>1, <1>2, KeptType
  <1>r. \A i \in 1 .. l : s[i].ts \in Nat
    <2>1. \A i \in 1 .. l : s[i] \in Record
      BY <1>1
    <2> QED
      BY <2>1 DEF Record
  <1>4. \E a \in 1 .. l + 1, b \in 0 .. l : a <= b + 1 /\ keep = a .. b
    <2>1. CASE keep = {}
      <3>1. keep = 1 .. 0 /\ 1 \in 1 .. l + 1 /\ 0 \in 0 .. l /\ 1 <= 0 + 1
        BY <1>1, <2>1
      <3> QED
        BY <3>1
    <2>2. CASE keep # {}
      <3>1. keep \in SUBSET Nat /\ keep \in SUBSET (0 .. l)
        OBVIOUS
      <3>2. PICK a \in keep : \A k \in keep : a <= k
        BY <2>2, <3>1, LeastOf
      <3>3. PICK b \in keep : \A k \in keep : k <= b
        BY <1>1, <2>2, <3>1, GreatestOf
      <3>4. a \in 1 .. l /\ b \in 1 .. l /\ a <= b
        BY <3>2, <3>3
      <3>5. ASSUME NEW i \in a .. b
            PROVE  i \in keep
        <4>1. i \in 1 .. l
          BY <3>4
        <4>2. i = a \/ s[a].ts < s[i].ts
          BY <1>1, <3>4, <4>1
        <4>3. i = b \/ s[i].ts < s[b].ts
          BY <1>1, <3>4, <4>1
        <4>4. s[i].ts \in Nat /\ s[a].ts \in Nat /\ s[b].ts \in Nat
          BY <1>r, <3>4, <4>1
        <4>5. from <= s[a].ts /\ s[b].ts <= to
          BY <3>2, <3>3
        <4> QED
          BY <4>1, <4>2, <4>3, <4>4, <4>5
      <3>6. keep \subseteq a .. b
        BY <3>1, <3>2, <3>3
      <3>7. keep = a .. b
        <4> HIDE DEF keep
        <4> QED
          BY <3>5, <3>6
      <3>8. a \in 1 .. l + 1 /\ b \in 0 .. l /\ a <= b + 1
        BY <1>1, <3>4
      <3> HIDE DEF keep, l
      <3> QED
        BY <3>7, <3>8
    <2> QED
      BY <2>1, <2>2
  <1>5. PICK a \in 1 .. l + 1, b \in 0 .. l : a <= b + 1 /\ keep = a .. b
    BY <1>4
  <1> HIDE DEF keep, w, l
  <1>6. /\ Len(w) = b - a + 1
        /\ \A j \in 1 .. b - a + 1 : w[j] = s[a + j - 1]
    <2>1. a \in 1 .. Len(s) + 1 /\ b \in 0 .. Len(s)
      BY <1>5 DEF l
    <2> QED
      BY <1>1, <1>2, <1>5, <2>1, KeptRun
  <1>7. ASSUME NEW i \in 2 .. Len(w)
        PROVE  w[i].first = w[i - 1].ts + 1
    <2> DEFINE j == a + i - 1
    <2>1. /\ i \in 1 .. b - a + 1 /\ i - 1 \in 1 .. b - a + 1
          /\ j \in 2 .. l /\ a + (i - 1) - 1 = j - 1
      BY <1>1, <1>5, <1>6
    <2>2. w[i] = s[j] /\ w[i - 1] = s[j - 1]
      BY <1>6, <2>1
    <2> QED
      BY <1>1, <2>1, <2>2
  <1> QED
    BY <1>3, <1>7 DEF w

(* An answer leaves out no record of its tier in the window: it begins with  *)
(* the first one, ends with the last one, and has no gap between.            *)
THEOREM AnswersAlwaysComplete == FailsClean /\ Spec => []AnswerComplete
  <1>1. ASSUME StoreInv PROVE AnswerComplete
    <2> SUFFICES ASSUME NEW w \in Windows, NEW p \in Points,
                        Fresh(w[1], w[2], p).tier # NoTier
                 PROVE  LET a == Fresh(w[1], w[2], p)
                            in == Within(Visible(a.tier), w[1], w[2])
                        IN /\ a.samples[1].first = in[1].first
                           /\ a.samples[Len(a.samples)].ts = in[Len(in)].ts
                           /\ \A i \in 2 .. Len(a.samples) :
                                  a.samples[i].first = a.samples[i - 1].ts + 1
      BY DEF AnswerComplete
    <2> DEFINE a == Fresh(w[1], w[2], p)
               in == Within(Visible(a.tier), w[1], w[2])
    <2>1. ClampPoints(p) \in Nat \ {0}
      BY ClampType
    <2>2. w[1] \in Int /\ w[2] \in Int
      BY StoreAssumption
    <2>3. a.tier \in 0 .. LastTier /\ in # <<>> /\ a.samples = Downsample(in, ClampPoints(p))
      BY FreshIs
    <2> HIDE DEF a
    <2>4. Gapless(tier[a.tier])
      <3>1. (a.tier = 0) \/ (a.tier = 1 /\ NumTiers > 1) \/ (a.tier = 2 /\ NumTiers > 2)
        BY <2>3, StoreAssumption DEF LastTier
      <3> QED
        BY <1>1, <3>1 DEF StoreInv, Level, Chain
    <2>5. Suffix(Visible(a.tier), tier[a.tier])
      BY <1>1, <2>3, VisibleSuffix DEF StoreInv
    <2>6. Gapless(Visible(a.tier))
      BY <2>4, <2>5, SuffixGapless
    <2>7. in \in Seq(Record) /\ \A i \in 2 .. Len(in) : in[i].first = in[i - 1].ts + 1
      BY <2>2, <2>6, WithinGapless
    <2> HIDE DEF in
    <2>8. /\ a.samples[1].first = in[1].first
          /\ a.samples[Len(a.samples)].ts = in[Len(in)].ts
          /\ \A i \in 2 .. Len(a.samples) : a.samples[i].first = a.samples[i - 1].ts + 1
      BY <2>1, <2>3, <2>7, DownsampleCovers
    <2> QED
      BY <2>8 DEF a, in
  <1> QED
    BY <1>1, StoreInvariant, PTL
=============================================================================
