----------------------------- MODULE LoopProofs -----------------------------
(***************************************************************************)
(* Induction over the natural numbers, stated with sets instead of         *)
(* predicates, so that it can be cited for the recursive functions that    *)
(* stand for the loops of the code; and what the loop of Loops returns.    *)
(***************************************************************************)
EXTENDS Loops, SequenceTheorems, WellFoundedInduction, TLAPS

Less == {pair \in Nat \X Nat : pair[1] < pair[2]}

(* Every set of numbers that is not empty has a least element. *)
LEMMA LeastOf ==
    ASSUME NEW T \in SUBSET Nat, T # {}
    PROVE  \E m \in T : \A k \in T : m <= k
  <1>1. IsWellFoundedOn(Less, Nat)
    BY NatLessThanWellFounded, Zenon DEF OpToRel, Less
  <1>2. PICK m \in T : \A k \in T : ~(<<k, m>> \in Less)
    BY <1>1, WFMin
  <1>3. ASSUME NEW k \in T
        PROVE  m <= k
    <2>1. m \in Nat /\ k \in Nat /\ ~(<<k, m>> \in Less)
      BY <1>2
    <2> QED
      BY <2>1 DEF Less
  <1> QED
    BY <1>3

(* A set with 0, and with k for every k - 1 in it up to n, has all of 0 .. n. *)
LEMMA UpTo ==
    ASSUME NEW n \in Nat, NEW S,
           0 \in S,
           \A k \in 1 .. n : k - 1 \in S => k \in S
    PROVE  \A k \in 0 .. n : k \in S
  <1> DEFINE Bad == {k \in 0 .. n : k \notin S}
  <1> SUFFICES ASSUME Bad # {} PROVE FALSE
    OBVIOUS
  <1>1. Bad \in SUBSET Nat
    OBVIOUS
  <1>2. PICK m \in Bad : \A k \in Bad : m <= k
    BY <1>1, LeastOf
  <1>3. m \in 1 .. n /\ m - 1 \notin Bad /\ m - 1 \in 0 .. n
    BY <1>2
  <1> QED
    BY <1>3

(* A set of numbers with a bound has a greatest element. *)
LEMMA GreatestOf ==
    ASSUME NEW n \in Nat, NEW T \in SUBSET (0 .. n), T # {}
    PROVE  \E m \in T : \A k \in T : k <= m
  <1> DEFINE Gap == {n - k : k \in T}
  <1>1. Gap \in SUBSET Nat /\ Gap # {}
    <2>1. PICK t \in T : TRUE
      OBVIOUS
    <2>2. n - t \in Gap
      BY <2>1
    <2>3. \A k \in T : n - k \in Nat
      OBVIOUS
    <2> QED
      BY <2>2, <2>3
  <1>2. PICK g \in Gap : \A k \in Gap : g <= k
    BY <1>1, LeastOf
  <1>3. PICK m \in T : g = n - m
    BY <1>2
  <1>4. ASSUME NEW k \in T
        PROVE  k <= m
    <2>1. n - k \in Gap
      OBVIOUS
    <2>2. g <= n - k
      BY <1>2, <2>1
    <2>3. m \in 0 .. n /\ k \in 0 .. n
      OBVIOUS
    <2> QED
      BY <1>3, <2>2, <2>3
  <1> QED
    BY <1>4
-----------------------------------------------------------------------------
(* The loop.                                                               *)

\* The states after 0 .. n rounds of a loop that begins with first.
Runs(n, S, first, next) ==
    {f \in [0 .. n -> S] :
        f[0] = first /\ \A i \in 1 .. n : f[i] = next[i][f[i - 1]]}

(* A loop over 1 .. n, from a state to the next, runs to its end.            *)
LEMMA LoopExists ==
    ASSUME NEW n \in Nat, NEW S, NEW first \in S,
           NEW next \in [1 .. n -> [S -> S]]
    PROVE  Runs(n, S, first, next) # {}
  <1> DEFINE Right(m) == {f \in [0 .. n -> S] :
                            /\ f[0] = first
                            /\ \A i \in 1 .. m : f[i] = next[i][f[i - 1]]}
             Reached == {m \in 0 .. n : Right(m) # {}}
  <1>1. 0 \in Reached
    <2>1. [i \in 0 .. n |-> first] \in Right(0)
      OBVIOUS
    <2> QED
      BY <2>1
  <1>2. ASSUME NEW m \in 1 .. n, m - 1 \in Reached
        PROVE  m \in Reached
    <2>1. PICK f \in Right(m - 1) : TRUE
      BY <1>2
    <2> DEFINE v == next[m][f[m - 1]]
               g == [f EXCEPT ![m] = v]
    <2>2. m \in 0 .. n /\ m - 1 \in 0 .. n /\ m # 0
      OBVIOUS
    <2>3. v \in S
      BY <2>2
    <2> HIDE DEF v
    <2>4. g \in [0 .. n -> S] /\ g[0] = first
      BY <2>1, <2>2, <2>3
    <2>5. ASSUME NEW i \in 1 .. m
          PROVE  g[i] = next[i][g[i - 1]]
      <3>1. CASE i = m
        BY <2>2, <3>1 DEF v
      <3>2. CASE i # m
        BY <2>1, <3>2
      <3> QED
        BY <3>1, <3>2
    <2> QED
      BY <2>2, <2>4, <2>5
  <1>3. n \in Reached
    <2> HIDE DEF Reached
    <2>1. \A k \in 0 .. n : k \in Reached
      BY <1>1, <1>2, UpTo
    <2> QED
      BY <2>1
  <1> QED
    BY <1>3 DEF Runs

\* f[i] is what the loop of Kept has got after i records.
Loop(f, R, recs, keep) ==
    /\ f \in [0 .. Len(recs) -> Seq(R)]
    /\ f[0] = <<>>
    /\ \A i \in 1 .. Len(recs) :
           f[i] = IF i \in keep THEN Append(f[i - 1], recs[i]) ELSE f[i - 1]
    /\ Kept(recs, keep) = f[Len(recs)]

(* The recursive function of Kept is such a loop.                           *)
LEMMA KeptLoop ==
    ASSUME NEW R, NEW recs \in Seq(R), NEW keep
    PROVE  \E f : Loop(f, R, recs, keep)
  <1> DEFINE n == Len(recs)
             Step(f) == [i \in 0 .. n |->
                            IF i = 0 THEN <<>>
                            ELSE IF i \in keep THEN Append(f[i - 1], recs[i])
                            ELSE f[i - 1]]
  <1>n. n \in Nat /\ \A i \in 1 .. n : recs[i] \in R
    OBVIOUS
  <1> HIDE DEF n
  <1>4. PICK f \in [0 .. n -> Seq(R)] : f = Step(f)
    <2> DEFINE next == [i \in 1 .. n |-> [s \in Seq(R) |->
                           IF i \in keep THEN Append(s, recs[i]) ELSE s]]
    <2>1. next \in [1 .. n -> [Seq(R) -> Seq(R)]]
      BY <1>n
    <2> DEFINE S == Seq(R)
               first == <<>>
    <2>2. n \in Nat /\ first \in S /\ next \in [1 .. n -> [S -> S]]
      BY <1>n, <2>1
    <2> HIDE DEF next, S, first
    <2>3. PICK f \in Runs(n, S, first, next) : TRUE
      BY <2>2, LoopExists
    <2> USE DEF S, first, Runs
    <2>4. ASSUME NEW i \in 1 .. n
          PROVE  f[i] = IF i \in keep THEN Append(f[i - 1], recs[i]) ELSE f[i - 1]
      <3>1. f[i - 1] \in Seq(R)
        BY <1>n
      <3> QED
        BY <2>3, <3>1 DEF next
    <2> DEFINE g == Step(f)
    <2>5. g[0] = f[0] /\ \A i \in 1 .. n : g[i] = f[i]
      BY <1>n, <2>3, <2>4
    <2>6. g = [i \in 0 .. n |-> g[i]] /\ f = [i \in 0 .. n |-> f[i]]
      OBVIOUS
    <2> HIDE DEF g
    <2>7. \A i \in 0 .. n : g[i] = f[i]
      BY <2>5, <1>n
    <2>8. g = f
      BY <2>6, <2>7
    <2> QED
      BY <2>8 DEF g
  <1>5. DEFINE kept == CHOOSE g : g = Step(g)
  <1>6. kept = Step(kept)
    BY <1>4
  <1>7. Kept(recs, keep) = kept[n]
    BY DEF Kept, n
  <1> HIDE DEF kept
  <1>8. kept[0] = <<>> /\ \A i \in 1 .. n :
            kept[i] = IF i \in keep THEN Append(kept[i - 1], recs[i]) ELSE kept[i - 1]
    <2> DEFINE next == Step(kept)
    <2>1. /\ next[0] = <<>>
          /\ \A i \in 1 .. n :
                 next[i] = IF i \in keep THEN Append(kept[i - 1], recs[i])
                           ELSE kept[i - 1]
      BY <1>n
    <2>2. kept = next
      BY <1>6
    <2> HIDE DEF next
    <2> QED
      BY <2>1, <2>2
  <1>9. \A i \in 0 .. n : kept[i] \in Seq(R)
    <2> DEFINE Good == {i \in 0 .. n : kept[i] \in Seq(R)}
    <2>1. 0 \in Good
      <3>1. <<>> \in Seq(R) /\ 0 \in 0 .. n
        BY <1>n
      <3> QED
        BY <3>1, <1>8
    <2>2. ASSUME NEW k \in 1 .. n, k - 1 \in Good PROVE k \in Good
      <3>1. kept[k - 1] \in Seq(R) /\ recs[k] \in R /\ k \in 0 .. n
        BY <2>2, <1>n
      <3>2. kept[k] = Append(kept[k - 1], recs[k]) \/ kept[k] = kept[k - 1]
        BY <1>8
      <3>3. Append(kept[k - 1], recs[k]) \in Seq(R)
        BY <3>1
      <3> QED
        BY <3>1, <3>2, <3>3
    <2> HIDE DEF Good
    <2>3. \A k \in 0 .. n : k \in Good
      BY <1>n, <2>1, <2>2, UpTo
    <2> QED
      BY <2>3 DEF Good
  <1>10. kept \in [0 .. n -> Seq(R)]
    BY <1>6, <1>9
  <1> QED
    BY <1>7, <1>8, <1>10 DEF n, Loop

(* It takes elements of the sequence, and as many as there are at most.     *)
LEMMA KeptType ==
    ASSUME NEW R, NEW recs \in Seq(R), NEW keep
    PROVE  Kept(recs, keep) \in Seq(R) /\ Len(Kept(recs, keep)) <= Len(recs)
  <1> PICK f : Loop(f, R, recs, keep)
    BY KeptLoop
  <1>1. /\ f \in [0 .. Len(recs) -> Seq(R)]
        /\ f[0] = <<>>
        /\ \A i \in 1 .. Len(recs) :
               f[i] = IF i \in keep THEN Append(f[i - 1], recs[i]) ELSE f[i - 1]
        /\ Kept(recs, keep) = f[Len(recs)]
    BY DEF Loop
  <1> DEFINE n == Len(recs)
             Short == {i \in 0 .. n : Len(f[i]) <= i}
  <1>n. n \in Nat /\ \A i \in 1 .. n : recs[i] \in R
    OBVIOUS
  <1> HIDE DEF n
  <1>2. 0 \in Short
    BY <1>1, <1>n
  <1>3. ASSUME NEW k \in 1 .. n, k - 1 \in Short
        PROVE  k \in Short
    <2>1. f[k - 1] \in Seq(R) /\ recs[k] \in R /\ k \in 0 .. n /\ Len(f[k - 1]) <= k - 1
      BY <1>1, <1>3, <1>n DEF n
    <2>2. f[k] = Append(f[k - 1], recs[k]) \/ f[k] = f[k - 1]
      BY <1>1 DEF n
    <2>3. Len(Append(f[k - 1], recs[k])) = Len(f[k - 1]) + 1
      BY <2>1
    <2>4. Len(f[k - 1]) \in Nat /\ k \in Nat
      BY <2>1, <1>n
    <2>5. Len(f[k]) <= k
      BY <2>1, <2>2, <2>3, <2>4
    <2> QED
      BY <2>1, <2>5
  <1> HIDE DEF Short
  <1>4. \A k \in 0 .. n : k \in Short
    BY <1>2, <1>3, <1>n, UpTo
  <1>5. n \in Short /\ n \in 0 .. n
    BY <1>4, <1>n
  <1> QED
    BY <1>1, <1>5 DEF Short, n

(* Places that follow one another give a piece of the sequence.             *)
LEMMA KeptRun ==
    ASSUME NEW R, NEW recs \in Seq(R),
           NEW a \in 1 .. Len(recs) + 1, NEW b \in 0 .. Len(recs), a <= b + 1
    PROVE  /\ Len(Kept(recs, a .. b)) = b - a + 1
           /\ \A j \in 1 .. b - a + 1 : Kept(recs, a .. b)[j] = recs[a + j - 1]
  <1> PICK f : Loop(f, R, recs, a .. b)
    BY KeptLoop
  <1>1. /\ f \in [0 .. Len(recs) -> Seq(R)]
        /\ f[0] = <<>>
        /\ \A i \in 1 .. Len(recs) :
               f[i] = IF i \in a .. b THEN Append(f[i - 1], recs[i]) ELSE f[i - 1]
        /\ Kept(recs, a .. b) = f[Len(recs)]
    BY DEF Loop
  <1> DEFINE n == Len(recs)
             Size(i) == IF i < a THEN 0 ELSE IF i <= b THEN i - a + 1 ELSE b - a + 1
             Right == {i \in 0 .. n : /\ Len(f[i]) = Size(i)
                                      /\ \A j \in 1 .. Size(i) : f[i][j] = recs[a + j - 1]}
  <1>n. /\ n \in Nat /\ a \in 1 .. n + 1 /\ b \in 0 .. n
        /\ \A i \in 1 .. n : recs[i] \in R
        /\ f \in [0 .. n -> Seq(R)]
    BY <1>1
  <1>r. \A i \in 1 .. n :
            f[i] = IF i \in a .. b THEN Append(f[i - 1], recs[i]) ELSE f[i - 1]
    BY <1>1
  <1> HIDE DEF n
  <1>2. 0 \in Right
    BY <1>1, <1>n
  <1>3. ASSUME NEW k \in 1 .. n, k - 1 \in Right
        PROVE  k \in Right
    <2>a. /\ k \in 0 .. n /\ k \in Nat /\ k - 1 \in 0 .. n
          /\ f[k - 1] \in Seq(R) /\ recs[k] \in R
      BY <1>n
    <2>b. /\ Len(f[k - 1]) = Size(k - 1)
          /\ \A j \in 1 .. Size(k - 1) : f[k - 1][j] = recs[a + j - 1]
      <3> HIDE DEF Size
      <3> QED
        BY <1>3
    <2>1. /\ Len(f[k - 1]) = Size(k - 1)
          /\ \A j \in 1 .. Size(k - 1) : f[k - 1][j] = recs[a + j - 1]
          /\ k \in 0 .. n /\ k \in Nat /\ f[k - 1] \in Seq(R) /\ recs[k] \in R
      BY <2>a, <2>b
    <2>2. CASE k \in a .. b
      <3>1. f[k] = Append(f[k - 1], recs[k])
        BY <1>r, <2>2
      <3>2. Size(k - 1) = k - a /\ Size(k) = k - a + 1 /\ k - a \in Nat
        BY <2>1, <2>2, <1>n
      <3> HIDE DEF Size
      <3>3. Len(f[k - 1]) = k - a
        BY <2>1, <3>2
      <3>4. /\ Len(f[k]) = k - a + 1
            /\ \A j \in 1 .. k - a : f[k][j] = f[k - 1][j]
            /\ f[k][k - a + 1] = recs[k]
        <4>1. /\ Len(f[k]) = Len(f[k - 1]) + 1
              /\ \A j \in 1 .. Len(f[k - 1]) : f[k][j] = f[k - 1][j]
              /\ f[k][Len(f[k - 1]) + 1] = recs[k]
          BY <2>a, <3>1, AppendProperties
        <4> QED
          BY <3>3, <4>1
      <3>5. ASSUME NEW j \in 1 .. k - a + 1
            PROVE  f[k][j] = recs[a + j - 1]
        <4>1. CASE j = k - a + 1
          <5>1. a + j - 1 = k
            BY <2>1, <4>1, <1>n
          <5> QED
            BY <3>4, <4>1, <5>1
        <4>2. CASE j # k - a + 1
          <5>1. j \in 1 .. k - a
            BY <3>2, <4>2
          <5> QED
            BY <2>1, <3>2, <3>4, <5>1
        <4> QED
          BY <4>1, <4>2
      <3> QED
        BY <2>1, <3>2, <3>4, <3>5
    <2>3. CASE k \notin a .. b
      <3>1. f[k] = f[k - 1]
        BY <1>r, <2>3
      <3>2. Size(k - 1) = Size(k)
        BY <2>1, <2>3, <1>n
      <3> HIDE DEF Size
      <3> QED
        BY <2>1, <3>1, <3>2
    <2> QED
      BY <2>2, <2>3
  <1>4. n \in Right
    <2> HIDE DEF Right
    <2>1. \A k \in 0 .. n : k \in Right
      BY <1>2, <1>3, <1>n, UpTo
    <2> QED
      BY <2>1, <1>n
  <1>5. Kept(recs, a .. b) = f[n] /\ Size(n) = b - a + 1
    BY <1>1, <1>n DEF n
  <1> QED
    BY <1>4, <1>5

\* The ways to find every element that is kept at a place of its own.
Places(recs, keep) ==
    {g \in [keep -> 1 .. Len(Kept(recs, keep))] :
        /\ \A i \in keep : Kept(recs, keep)[g[i]] = recs[i]
        /\ \A i, j \in keep : g[i] = g[j] => i = j}

(* Every element that is kept has a place of its own in the result.         *)
LEMMA KeptPlaces ==
    ASSUME NEW R, NEW recs \in Seq(R), NEW keep \in SUBSET (1 .. Len(recs))
    PROVE  Places(recs, keep) # {}
  <1> PICK f : Loop(f, R, recs, keep)
    BY KeptLoop
  <1>1. /\ f \in [0 .. Len(recs) -> Seq(R)]
        /\ f[0] = <<>>
        /\ \A i \in 1 .. Len(recs) :
               f[i] = IF i \in keep THEN Append(f[i - 1], recs[i]) ELSE f[i - 1]
        /\ Kept(recs, keep) = f[Len(recs)]
    BY DEF Loop
  <1> DEFINE n == Len(recs)
             Placed(m) == {g \in [keep \cap (1 .. m) -> 1 .. Len(f[m])] :
                             /\ \A i \in keep \cap (1 .. m) : f[m][g[i]] = recs[i]
                             /\ \A i, j \in keep \cap (1 .. m) : g[i] = g[j] => i = j}
             Good == {m \in 0 .. n : Placed(m) # {}}
  <1>n. n \in Nat /\ (\A i \in 1 .. n : recs[i] \in R) /\ keep \in SUBSET (1 .. n)
    OBVIOUS
  <1>f. /\ f \in [0 .. n -> Seq(R)]
        /\ f[0] = <<>>
        /\ \A i \in 1 .. n :
               f[i] = IF i \in keep THEN Append(f[i - 1], recs[i]) ELSE f[i - 1]
    BY <1>1
  <1> HIDE DEF n
  <1>2. 0 \in Good
    <2>1. keep \cap (1 .. 0) = {}
      OBVIOUS
    <2>2. [i \in {} |-> i] \in Placed(0)
      BY <2>1
    <2>3. 0 \in 0 .. n
      BY <1>n
    <2> HIDE DEF Placed
    <2> QED
      BY <2>2, <2>3
  <1>3. ASSUME NEW k \in 1 .. n, k - 1 \in Good
        PROVE  k \in Good
    <2>1. PICK g \in Placed(k - 1) : TRUE
      BY <1>3
    <2>2. k \in 0 .. n /\ k - 1 \in 0 .. n /\ f[k - 1] \in Seq(R) /\ recs[k] \in R
      BY <1>n, <1>f
    <2>3. CASE k \notin keep
      <3>1. keep \cap (1 .. k) = keep \cap (1 .. k - 1)
        BY <2>3, <1>n
      <3>2. f[k] = f[k - 1]
        BY <2>3, <1>f
      <3>3. g \in Placed(k)
        BY <2>1, <3>1, <3>2
      <3> QED
        BY <2>2, <3>3
    <2>4. CASE k \in keep
      <3> DEFINE old == keep \cap (1 .. k - 1)
                 l == Len(f[k - 1])
                 h == [i \in old \union {k} |-> IF i = k THEN l + 1 ELSE g[i]]
      <3>1. keep \cap (1 .. k) = old \union {k} /\ k \notin old
        BY <2>4, <1>n
      <3>2. /\ f[k] \in Seq(R) /\ Len(f[k]) = l + 1 /\ l \in Nat
            /\ \A j \in 1 .. l : f[k][j] = f[k - 1][j]
            /\ f[k][l + 1] = recs[k]
        <4>1. f[k] = Append(f[k - 1], recs[k])
          BY <2>4, <1>f
        <4> QED
          BY <2>2, <4>1, AppendProperties
      <3>3. /\ \A i \in old : g[i] \in 1 .. l /\ f[k - 1][g[i]] = recs[i]
            /\ \A i, j \in old : g[i] = g[j] => i = j
        BY <2>1
      <3> HIDE DEF old, l
      <3>4. h \in [old \union {k} -> 1 .. l + 1]
        BY <3>2, <3>3
      <3>5. \A i \in old \union {k} : f[k][h[i]] = recs[i]
        BY <3>1, <3>2, <3>3
      <3>6. \A i, j \in old \union {k} : h[i] = h[j] => i = j
        BY <3>1, <3>2, <3>3
      <3> HIDE DEF h
      <3>7. h \in Placed(k)
        BY <3>1, <3>2, <3>4, <3>5, <3>6
      <3> QED
        BY <2>2, <3>7
    <2> QED
      BY <2>3, <2>4
  <1>4. n \in Good
    <2> HIDE DEF Good
    <2>1. \A k \in 0 .. n : k \in Good
      BY <1>2, <1>3, <1>n, UpTo
    <2> QED
      BY <2>1, <1>n
  <1>5. keep \cap (1 .. n) = keep /\ Kept(recs, keep) = f[n]
    BY <1>n, <1>1 DEF n
  <1>6. Placed(n) # {}
    BY ONLY <1>4
  <1>7. Placed(n) = Places(recs, keep)
    <2> DEFINE all == Kept(recs, keep)
    <2>1. keep \cap (1 .. n) = keep /\ all = f[n]
      BY ONLY <1>5
    <2> HIDE DEF all, n
    <2>2. Placed(n) = {g \in [keep -> 1 .. Len(all)] :
                           /\ \A i \in keep : all[g[i]] = recs[i]
                           /\ \A i, j \in keep : g[i] = g[j] => i = j}
      BY ONLY <2>1
    <2> QED
      BY ONLY <2>2 DEF Places, all
  <1> HIDE DEF Placed
  <1> QED
    BY ONLY <1>6, <1>7

(* The elements kept of two sequences that follow one another.              *)
LEMMA KeptConcat ==
    ASSUME NEW R, NEW s \in Seq(R), NEW t \in Seq(R), NEW K, NEW K1, NEW K2,
           \A i \in 1 .. Len(s) : i \in K <=> i \in K1,
           \A j \in 1 .. Len(t) : Len(s) + j \in K <=> j \in K2
    PROVE  Kept(s \o t, K) = Kept(s, K1) \o Kept(t, K2)
  <1> PICK m, n, st : m = Len(s) /\ n = Len(t) /\ st = s \o t
    OBVIOUS
  <1>1. /\ st \in Seq(R) /\ Len(st) = m + n /\ m \in Nat /\ n \in Nat
        /\ \A i \in 1 .. m + n : st[i] = IF i <= m THEN s[i] ELSE t[i - m]
    BY ConcatProperties
  <1> PICK f : Loop(f, R, st, K)
    BY <1>1, KeptLoop
  <1> PICK g : Loop(g, R, s, K1)
    BY KeptLoop
  <1> PICK h : Loop(h, R, t, K2)
    BY KeptLoop
  <1>f. /\ f \in [0 .. m + n -> Seq(R)] /\ f[0] = <<>> /\ Kept(st, K) = f[m + n]
        /\ \A i \in 1 .. m + n : f[i] = IF i \in K THEN Append(f[i - 1], st[i]) ELSE f[i - 1]
    BY <1>1 DEF Loop
  <1>g. /\ g \in [0 .. m -> Seq(R)] /\ g[0] = <<>> /\ Kept(s, K1) = g[m]
        /\ \A i \in 1 .. m : g[i] = IF i \in K1 THEN Append(g[i - 1], s[i]) ELSE g[i - 1]
    BY DEF Loop
  <1>h. /\ h \in [0 .. n -> Seq(R)] /\ h[0] = <<>> /\ Kept(t, K2) = h[n]
        /\ \A i \in 1 .. n : h[i] = IF i \in K2 THEN Append(h[i - 1], t[i]) ELSE h[i - 1]
    BY DEF Loop
  <1> DEFINE Left == {i \in 0 .. m : f[i] = g[i]}
             Right == {j \in 0 .. n : f[m + j] = g[m] \o h[j]}
  <1>2. m \in Left
    <2>1. 0 \in Left
      BY <1>1, <1>f, <1>g
    <2>2. ASSUME NEW k \in 1 .. m, k - 1 \in Left PROVE k \in Left
      <3>1. k \in 1 .. m + n /\ k <= m /\ k \in 0 .. m
        BY <1>1
      <3>2. st[k] = s[k] /\ (k \in K <=> k \in K1)
        BY <1>1, <3>1
      <3> QED
        BY <1>f, <1>g, <2>2, <3>1, <3>2
    <2> HIDE DEF Left
    <2>3. \A k \in 0 .. m : k \in Left
      BY <1>1, <2>1, <2>2, UpTo
    <2> QED
      BY <1>1, <2>3
  <1>3. n \in Right
    <2>1. 0 \in Right
      <3>1. g[m] \in Seq(R) /\ m + 0 = m /\ 0 \in 0 .. n
        BY <1>1, <1>g
      <3>2. g[m] \o <<>> = g[m]
        BY <3>1, ConcatEmptySeq
      <3> QED
        BY <1>2, <1>h, <3>1, <3>2
    <2>2. ASSUME NEW k \in 1 .. n, k - 1 \in Right PROVE k \in Right
      <3>1. /\ m + k \in 1 .. m + n /\ ~(m + k <= m) /\ (m + k) - m = k
            /\ k \in 0 .. n /\ k - 1 \in 0 .. n /\ m + (k - 1) = (m + k) - 1
        BY <1>1
      <3>2. st[m + k] = t[k] /\ (m + k \in K <=> k \in K2)
        BY <1>1, <3>1
      <3>3. f[(m + k) - 1] = g[m] \o h[k - 1]
        BY <2>2, <3>1
      <3>4. /\ f[m + k] = IF k \in K2 THEN Append(f[(m + k) - 1], t[k]) ELSE f[(m + k) - 1]
            /\ h[k] = IF k \in K2 THEN Append(h[k - 1], t[k]) ELSE h[k - 1]
        BY <1>f, <1>h, <3>1, <3>2
      <3>5. CASE k \notin K2
        BY <3>1, <3>3, <3>4, <3>5
      <3>6. CASE k \in K2
        <4>1. g[m] \in Seq(R) /\ h[k - 1] \in Seq(R) /\ t[k] \in R
          <5>1. g[m] \in Seq(R)
            BY <1>1, <1>g
          <5>2. h[k - 1] \in Seq(R)
            BY <1>h, <3>1
          <5>3. t[k] \in R
            BY <1>1
          <5> QED
            BY <5>1, <5>2, <5>3
        <4> PICK x, u, v : x = t[k] /\ u = g[m] /\ v = h[k - 1]
          OBVIOUS
        <4>2. Append(u \o v, x) = u \o Append(v, x)
          <5>1. u \o v \in Seq(R) /\ <<x>> \in Seq(R)
            BY <4>1, ConcatProperties
          <5>2. Append(u \o v, x) = (u \o v) \o <<x>> /\ Append(v, x) = v \o <<x>>
            BY <4>1, <5>1, AppendIsConcat
          <5>3. (u \o v) \o <<x>> = u \o (v \o <<x>>)
            <6> PICK w : w = <<x>>
              OBVIOUS
            <6>1. u \in Seq(R) /\ v \in Seq(R) /\ w \in Seq(R)
              BY <4>1, <5>1
            <6>2. (u \o v) \o w = u \o (v \o w)
              BY ONLY <6>1, ConcatAssociative
            <6> QED
              BY <6>2
          <5> QED
            BY <5>2, <5>3
        <4> QED
          BY <3>1, <3>3, <3>4, <3>6, <4>2
      <3> QED
        BY <3>5, <3>6
    <2> HIDE DEF Right
    <2>3. \A k \in 0 .. n : k \in Right
      BY <1>1, <2>1, <2>2, UpTo
    <2> QED
      BY <1>1, <2>3
  <1> QED
    BY <1>3, <1>f, <1>g, <1>h

(* What was kept are kept elements.                                          *)
LEMMA KeptFrom ==
    ASSUME NEW R, NEW recs \in Seq(R), NEW keep
    PROVE  \A j \in 1 .. Len(Kept(recs, keep)) :
               \E i \in keep : i \in 1 .. Len(recs) /\ Kept(recs, keep)[j] = recs[i]
  <1> PICK f : Loop(f, R, recs, keep)
    BY KeptLoop
  <1>1. /\ f \in [0 .. Len(recs) -> Seq(R)]
        /\ f[0] = <<>>
        /\ \A i \in 1 .. Len(recs) :
               f[i] = IF i \in keep THEN Append(f[i - 1], recs[i]) ELSE f[i - 1]
        /\ Kept(recs, keep) = f[Len(recs)]
    BY DEF Loop
  <1> DEFINE n == Len(recs)
             From(s) == \A j \in 1 .. Len(s) :
                            \E i \in keep : i \in 1 .. Len(recs) /\ s[j] = recs[i]
             Good == {i \in 0 .. n : From(f[i])}
  <1>2. n \in Nat /\ \A i \in 1 .. n : recs[i] \in R
    OBVIOUS
  <1>3. 0 \in Good
    BY <1>1, <1>2
  <1>4. ASSUME NEW i \in 1 .. n, i - 1 \in Good PROVE i \in Good
    <2>1. i \in 0 .. n /\ i - 1 \in 0 .. n
      BY <1>2
    <2>2. From(f[i - 1])
      BY <1>4
    <2>3. CASE i \notin keep
      BY <1>1, <2>1, <2>2, <2>3
    <2>4. CASE i \in keep
      <3> PICK s \in Seq(R) : s = f[i - 1]
        BY <1>1, <2>1
      <3>1. f[i] = Append(s, recs[i]) /\ recs[i] \in R
        BY <1>1, <1>2, <2>4
      <3>2. From(s)
        BY <2>2
      <3>3. ASSUME NEW j \in 1 .. Len(Append(s, recs[i]))
            PROVE  \E k \in keep : k \in 1 .. Len(recs) /\ Append(s, recs[i])[j] = recs[k]
        <4>1. CASE j = Len(s) + 1
          BY <2>4, <3>1, <4>1
        <4>2. CASE j # Len(s) + 1
          <5>1. j \in 1 .. Len(s) /\ Append(s, recs[i])[j] = s[j]
            BY <3>1, <4>2
          <5> QED
            BY <3>2, <5>1
        <4> QED
          BY <4>1, <4>2
      <3>4. From(f[i])
        BY <3>1, <3>3
      <3> QED
        BY <2>1, <3>4
    <2> QED
      BY <2>3, <2>4
  <1> HIDE DEF Good
  <1>5. \A i \in 0 .. n : i \in Good
    BY <1>2, <1>3, <1>4, UpTo
  <1>6. n \in Good
    BY <1>2, <1>5
  <1> QED
    BY <1>1, <1>6 DEF Good
-----------------------------------------------------------------------------
(* The parts that are joined.                                             *)

Cat(s, t) == s \o t

\* The states of the loop of Joined.
Joinings(R, parts) ==
    {f \in [0 .. Len(parts) -> Seq(R)] :
        /\ f[0] = <<>>
        /\ \A k \in 1 .. Len(parts) : f[k] = Cat(f[k - 1], parts[k])
        /\ Joined(parts) = f[Len(parts)]}

(* The recursive function of Joined is such a loop. *)
LEMMA JoinedLoop ==
    ASSUME NEW R, NEW parts \in Seq(Seq(R))
    PROVE  Joinings(R, parts) # {}
<1> DEFINE n == Len(parts)
           S == Seq(R)
           first == <<>>
           next == [k \in 1 .. n |-> [s \in S |-> Cat(s, parts[k])]]
           Step(f) == [k \in 0 .. n |-> IF k = 0 THEN first ELSE Cat(f[k - 1], parts[k])]
<1>1. n \in Nat /\ \A k \in 1 .. n : parts[k] \in S
  OBVIOUS
<1>2. first \in S
  OBVIOUS
<1>s. \A a, b \in S : Cat(a, b) \in S
  BY DEF Cat
<1> HIDE DEF n, first, S
<1>3. next \in [1 .. n -> [S -> S]]
  BY <1>1, <1>s
<1>4. PICK a \in Runs(n, S, first, next) : TRUE
  <2> HIDE DEF next
  <2> QED
    BY <1>1, <1>2, <1>3, LoopExists
<1>5. /\ a \in [0 .. n -> S] /\ a[0] = first
      /\ \A k \in 1 .. n : a[k] = next[k][a[k - 1]]
  BY <1>4 DEF Runs
<1>6. ASSUME NEW k \in 1 .. n
      PROVE  a[k] = Cat(a[k - 1], parts[k])
  <2>1. a[k - 1] \in S
    BY <1>1, <1>5
  <2> QED
    BY <1>5, <2>1
<1> HIDE DEF next
<1>7. a = Step(a)
  <2> DEFINE b == Step(a)
  <2>a. b[0] = a[0]
    BY <1>1, <1>5
  <2>b. ASSUME NEW k \in 1 .. n PROVE b[k] = a[k]
    BY <1>1, <1>6
  <2>2. b = [k \in 0 .. n |-> b[k]] /\ a = [k \in 0 .. n |-> a[k]]
    BY <1>5
  <2> HIDE DEF b
  <2>1. \A k \in 0 .. n : b[k] = a[k]
    BY <1>1, <2>a, <2>b
  <2>3. b = a
    BY <2>1, <2>2
  <2> QED
    BY <2>3 DEF b
<1> DEFINE f == CHOOSE g : g = Step(g)
<1>8. f = Step(f)
  BY <1>7
<1>9. Joined(parts) = f[n]
  BY DEF Joined, Cat, n, first
<1> HIDE DEF f
<1>10. /\ f[0] = first
       /\ \A k \in 1 .. n : f[k] = Cat(f[k - 1], parts[k])
       /\ f = [k \in 0 .. n |-> f[k]]
  <2> DEFINE b == Step(f)
  <2>1. b[0] = first
    BY <1>1
  <2>2. ASSUME NEW k \in 1 .. n PROVE b[k] = Cat(f[k - 1], parts[k])
    BY <1>1
  <2>3. b = [k \in 0 .. n |-> b[k]]
    OBVIOUS
  <2>4. b = f
    BY <1>8
  <2> HIDE DEF b
  <2> QED
    BY <2>1, <2>2, <2>3, <2>4
<1>11. \A k \in 0 .. n : f[k] \in S
  <2> DEFINE Good == {k \in 0 .. n : f[k] \in S}
  <2>1. 0 \in Good
    BY <1>1, <1>2, <1>10
  <2>2. ASSUME NEW k \in 1 .. n, k - 1 \in Good PROVE k \in Good
    <3>1. f[k - 1] \in S /\ parts[k] \in S /\ k \in 0 .. n
      BY <2>2, <1>1
    <3>2. Cat(f[k - 1], parts[k]) \in S
      BY <3>1, <1>s
    <3>3. f[k] = Cat(f[k - 1], parts[k])
      BY <1>10
    <3> QED
      BY <3>1, <3>2, <3>3
  <2> HIDE DEF Good
  <2>3. \A k \in 0 .. n : k \in Good
    BY <1>1, <2>1, <2>2, UpTo
  <2> QED
    BY <2>3 DEF Good
<1>12. f \in [0 .. n -> S]
  BY <1>10, <1>11
<1> QED
  BY <1>9, <1>10, <1>12 DEF Joinings, n, first, S

(* The parts joined, when one more has come. *)
LEMMA JoinedNext ==
    ASSUME NEW R, NEW s \in Seq(Seq(R)), NEW t \in Seq(Seq(R)), Len(t) = Len(s) + 1,
           \A k \in 1 .. Len(s) : t[k] = s[k]
    PROVE  Joined(t) = Joined(s) \o t[Len(t)]
<1> DEFINE n == Len(s)
           m == Len(t)
<1>1. n \in Nat /\ m = n + 1 /\ \A k \in 1 .. n : t[k] = s[k]
  OBVIOUS
<1>2. PICK f \in Joinings(R, s) : TRUE
  BY JoinedLoop
<1>3. PICK g \in Joinings(R, t) : TRUE
  BY JoinedLoop
<1>4. /\ f[0] = <<>> /\ \A k \in 1 .. n : f[k] = Cat(f[k - 1], s[k])
      /\ Joined(s) = f[n]
  BY <1>2 DEF Joinings
<1>5. /\ g[0] = <<>> /\ \A k \in 1 .. m : g[k] = Cat(g[k - 1], t[k])
      /\ Joined(t) = g[m]
  BY <1>1, <1>3 DEF Joinings
<1> HIDE DEF n, m
<1> DEFINE Same == {k \in 0 .. n : f[k] = g[k]}
<1>6. 0 \in Same
  BY <1>1, <1>4, <1>5
<1>7. ASSUME NEW k \in 1 .. n, k - 1 \in Same PROVE k \in Same
  <2>1. k \in 1 .. m /\ k \in 0 .. n /\ f[k - 1] = g[k - 1]
    BY <1>1, <1>7
  <2>2. f[k] = Cat(f[k - 1], s[k]) /\ g[k] = Cat(g[k - 1], t[k]) /\ t[k] = s[k]
    BY <1>1, <1>4, <1>5, <2>1
  <2> QED
    BY <2>1, <2>2
<1> HIDE DEF Same
<1>8. \A k \in 0 .. n : k \in Same
  BY <1>1, <1>6, <1>7, UpTo
<1>9. f[n] = g[n] /\ m \in 1 .. m /\ m - 1 = n
  BY <1>1, <1>8 DEF Same
<1>10. g[m] = Cat(g[m - 1], t[m])
  BY <1>5, <1>9
<1>11. g[m] = Cat(g[n], t[m])
  BY <1>9, <1>10
<1> QED
  BY <1>4, <1>5, <1>9, <1>11 DEF Cat, m
-----------------------------------------------------------------------------
(* The sum.                                                                *)

\* f[i] is what the loop of Total has got after i numbers.
Sums(f, values) ==
    /\ f[0] = 0
    /\ \A i \in 1 .. Len(values) : f[i] = f[i - 1] + values[i]
    /\ \A i \in 0 .. Len(values) : f[i] \in Int
    /\ Total(values) = f[Len(values)]

(* The recursive function of Total is such a loop. *)
LEMMA TotalLoop ==
    ASSUME NEW values \in Seq(Int)
    PROVE  \E f : Sums(f, values)
  <1> DEFINE n == Len(values)
             next == [k \in 1 .. n |-> [s \in Int |-> s + values[k]]]
             Step(f) == [k \in 0 .. n |-> IF k = 0 THEN 0 ELSE f[k - 1] + values[k]]
  <1>1. n \in Nat /\ \A k \in 1 .. n : values[k] \in Int
    OBVIOUS
  <1> HIDE DEF n
  <1>2. next \in [1 .. n -> [Int -> Int]]
    BY <1>1
  <1>3. PICK a \in Runs(n, Int, 0, next) : TRUE
    <2> HIDE DEF next
    <2> PICK S, first : S = Int /\ first = 0
      OBVIOUS
    <2>1. first \in S /\ next \in [1 .. n -> [S -> S]]
      BY <1>2
    <2>2. Runs(n, S, first, next) # {}
      BY <1>1, <2>1, LoopExists
    <2> QED
      BY <2>2
  <1>4. /\ a \in [0 .. n -> Int] /\ a[0] = 0
        /\ \A k \in 1 .. n : a[k] = next[k][a[k - 1]]
    BY <1>3 DEF Runs
  <1>5. \A k \in 1 .. n : a[k] = a[k - 1] + values[k]
    <2> TAKE k \in 1 .. n
    <2>1. a[k - 1] \in Int
      BY <1>1, <1>4
    <2> QED
      BY <1>4, <2>1
  <1> HIDE DEF next
  <1>6. a = Step(a)
    BY <1>1, <1>4, <1>5
  <1> DEFINE f == CHOOSE g : g = Step(g)
  <1>7. f = Step(f)
    BY <1>6
  <1>8. Total(values) = f[n]
    BY DEF Total, n
  <1> HIDE DEF f
  <1>9. f[0] = 0 /\ \A k \in 1 .. n : f[k] = f[k - 1] + values[k]
    <2>1. 0 \in 0 .. n /\ \A k \in 1 .. n : k \in 0 .. n /\ k # 0
      BY <1>1
    <2> QED
      BY <1>7, <2>1
  <1> DEFINE Good == {k \in 0 .. n : f[k] \in Int}
  <1>10. 0 \in Good
    BY <1>1, <1>9
  <1>11. ASSUME NEW k \in 1 .. n, k - 1 \in Good PROVE k \in Good
    <2>1. f[k - 1] \in Int /\ values[k] \in Int /\ k \in 0 .. n
      BY <1>1, <1>11
    <2>2. f[k] = f[k - 1] + values[k]
      BY <1>9
    <2> QED
      BY <2>1, <2>2
  <1> HIDE DEF Good
  <1>12. \A k \in 0 .. n : k \in Good
    BY <1>1, <1>10, <1>11, UpTo
  <1>13. \A k \in 0 .. n : f[k] \in Int
    BY <1>12 DEF Good
  <1> QED
    BY <1>8, <1>9, <1>13 DEF Sums, n

(* The sum of numbers between two bounds. *)
LEMMA TotalBounds ==
    ASSUME NEW values \in Seq(Int), NEW lo \in Int, NEW hi \in Int,
           \A i \in 1 .. Len(values) : lo <= values[i] /\ values[i] <= hi
    PROVE  /\ Total(values) \in Int
           /\ Len(values) * lo <= Total(values)
           /\ Total(values) <= Len(values) * hi
  <1> PICK f : Sums(f, values)
    BY TotalLoop
  <1> DEFINE n == Len(values)
             Good == {k \in 0 .. n : k * lo <= f[k] /\ f[k] <= k * hi}
  <1>1. n \in Nat /\ \A k \in 1 .. n : values[k] \in Int
    OBVIOUS
  <1>2. 0 \in Good
    BY <1>1 DEF Sums
  <1>3. ASSUME NEW k \in 1 .. n, k - 1 \in Good PROVE k \in Good
    <2>1. f[k] = f[k - 1] + values[k] /\ f[k - 1] \in Int /\ values[k] \in Int
      BY <1>1 DEF Sums
    <2>2. lo <= values[k] /\ values[k] <= hi
      OBVIOUS
    <2>3. (k - 1) * lo <= f[k - 1] /\ f[k - 1] <= (k - 1) * hi
      BY <1>3
    <2> PICK x \in Int, y \in Int, z \in Int : x = f[k] /\ y = f[k - 1] /\ z = values[k]
      BY <2>1
    <2>4. (k - 1) * lo = k * lo - lo /\ (k - 1) * hi = k * hi - hi /\ k * lo \in Int /\ k * hi \in Int
      BY <1>1
    <2> QED
      BY <1>1, <2>1, <2>2, <2>3, <2>4
  <1> HIDE DEF Good
  <1>4. \A k \in 0 .. n : k \in Good
    BY <1>1, <1>2, <1>3, UpTo
  <1>5. n \in Good /\ Total(values) = f[n] /\ f[n] \in Int
    BY <1>1, <1>4 DEF Sums
  <1> QED
    BY <1>5 DEF Good
=============================================================================
