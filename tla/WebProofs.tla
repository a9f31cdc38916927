------------------------------ MODULE WebProofs ------------------------------
(***************************************************************************)
(* What holds of Web for any requests, histories and backends: its         *)
(* sessions are those of Sessions, and every conversation that is sent to  *)
(* a backend is well formed, however the backend streams its calls.        *)
(***************************************************************************)
EXTENDS Web, SessionsProofs

\* Texts.  The provers do not know of a literal that it is a string.
Text == STRING \union {NoText, "nil", "unknown tool", "error: invalid arguments", "metrics"}
Piece == [index : Nat, id : Text, name : Text, args : Seq(Text)]
Call == [id : Text, name : Text, args : Seq(Text)]
Turn == [role : {"system", "user", "assistant", "tool"}, text : Text,
         calls : Seq(Call), id : Text]
-----------------------------------------------------------------------------
(* The loop that puts the pieces of calls together.                        *)

\* What accumMap may hold.
Accs == UNION {[D -> Call] : D \in SUBSET Nat}

\* A call of which nothing has come yet, and one after a piece.
Nothing == [id |-> NoText, name |-> NoText, args |-> <<>>]
After(old, d) ==
    [id |-> IF d.id # NoText THEN d.id ELSE old.id,
     name |-> IF d.name # NoText THEN d.name ELSE old.name,
     args |-> old.args \o d.args]
At(acc, i) == IF i \in DOMAIN acc THEN acc[i] ELSE Nothing

\* A piece changes the call that it is for, and no other.
LEMMA AccumulateOne ==
    ASSUME NEW acc \in Accs, NEW d \in Piece
    PROVE  /\ Accumulate(acc, d) \in Accs
           /\ DOMAIN Accumulate(acc, d) = DOMAIN acc \union {d.index}
           /\ At(Accumulate(acc, d), d.index) = After(At(acc, d.index), d)
           /\ \A i : i # d.index => At(Accumulate(acc, d), i) = At(acc, i)
<1> DEFINE old == At(acc, d.index)
           new == After(old, d)
           D == DOMAIN acc \union {d.index}
           res == [i \in D |-> IF i = d.index THEN new ELSE acc[i]]
<1>1. /\ d.index \in Nat /\ d.id \in Text /\ d.name \in Text /\ d.args \in Seq(Text)
  BY DEF Piece
<1>2. Nothing \in Call /\ Nothing = [NoCall EXCEPT !.args = <<>>]
  <2>1. <<>> \in Seq(Text)
    OBVIOUS
  <2>2. Nothing \in Call
    BY <2>1 DEF Nothing, Call, Text
  <2>3. Nothing = [NoCall EXCEPT !.args = <<>>]
    BY DEF Nothing, NoCall
  <2> QED
    BY <2>2, <2>3
<1>3. DOMAIN acc \in SUBSET Nat /\ \A i \in DOMAIN acc : acc[i] \in Call
  BY DEF Accs
<1>4. old \in Call
  BY <1>2, <1>3 DEF At
<1>5. new \in Call
  <2> HIDE DEF old
  <2>1. old.args \o d.args \in Seq(Text)
    BY <1>1, <1>4 DEF Call
  <2> QED
    BY <1>1, <1>4, <2>1 DEF Call, After
<1>6. Accumulate(acc, d) = res
  BY <1>2 DEF Accumulate, After, At
<1> HIDE DEF old
<1>7. new = After(old, d)
  OBVIOUS
<1> HIDE DEF new
<1>8. res \in [D -> Call] /\ D \in SUBSET Nat
  BY <1>1, <1>3, <1>5
<1>9. DOMAIN res = D /\ res[d.index] = new /\ \A i \in DOMAIN acc : i # d.index => res[i] = acc[i]
  OBVIOUS
<1> HIDE DEF res
<1>10. At(res, d.index) = new
  BY <1>9 DEF At
<1>11. \A i : i # d.index => At(res, i) = At(acc, i)
  BY <1>9 DEF At
<1>12. res \in Accs
  <2> HIDE DEF D
  <2> QED
    BY <1>8 DEF Accs
<1> QED
  BY <1>6, <1>7, <1>9, <1>10, <1>11, <1>12 DEF old

\* The states of accumMap, one after each piece.
Accumulations(pieces) ==
    {a \in [0 .. Len(pieces) -> Accs] :
        /\ a[0] = <<>>
        /\ \A k \in 1 .. Len(pieces) : a[k] = Accumulate(a[k - 1], pieces[k])
        /\ Accumulated(pieces) = a[Len(pieces)]}

LEMMA AccumulatedLoop ==
    ASSUME NEW pieces \in Seq(Piece)
    PROVE  Accumulations(pieces) # {}
<1> DEFINE n == Len(pieces)
           first == <<>>
           next == [k \in 1 .. n |-> [a \in Accs |-> Accumulate(a, pieces[k])]]
           Step(a) == [k \in 0 .. n |->
                          IF k = 0 THEN first ELSE Accumulate(a[k - 1], pieces[k])]
<1>1. n \in Nat /\ \A k \in 1 .. n : pieces[k] \in Piece
  OBVIOUS
<1>2. first \in Accs
  <2>1. first \in [{} -> Call]
    OBVIOUS
  <2> QED
    BY <2>1 DEF Accs
<1> HIDE DEF n, first
<1>3. next \in [1 .. n -> [Accs -> Accs]]
  BY <1>1, AccumulateOne
<1>4. PICK a \in Runs(n, Accs, first, next) : TRUE
  <2> HIDE DEF next
  <2> QED
    BY <1>1, <1>2, <1>3, LoopExists
<1>5. /\ a \in [0 .. n -> Accs] /\ a[0] = first
      /\ \A k \in 1 .. n : a[k] = next[k][a[k - 1]]
  BY <1>4 DEF Runs
<1>6. ASSUME NEW k \in 1 .. n
      PROVE  a[k] = Accumulate(a[k - 1], pieces[k])
  <2>1. a[k - 1] \in Accs
    BY <1>1, <1>5
  <2> QED
    BY <1>5, <2>1
<1> HIDE DEF next
<1>7. a = Step(a)
  <2> DEFINE b == Step(a)
  <2>1. \A k \in 0 .. n : b[k] = a[k]
    BY <1>1, <1>5, <1>6
  <2>2. b = [k \in 0 .. n |-> b[k]] /\ a = [k \in 0 .. n |-> a[k]]
    BY <1>5
  <2> HIDE DEF b
  <2>3. b = a
    BY <2>1, <2>2
  <2> QED
    BY <2>3 DEF b
<1> DEFINE acc == CHOOSE g : g = Step(g)
<1>8. acc = Step(acc)
  BY <1>7
<1>9. Accumulated(pieces) = acc[n]
  BY DEF Accumulated, n, first
<1> HIDE DEF acc
<1>10. /\ acc[0] = first
       /\ \A k \in 1 .. n : acc[k] = Accumulate(acc[k - 1], pieces[k])
       /\ acc = [k \in 0 .. n |-> acc[k]]
  <2> DEFINE b == Step(acc)
  <2>1. /\ b[0] = first
        /\ \A k \in 1 .. n : b[k] = Accumulate(acc[k - 1], pieces[k])
        /\ b = [k \in 0 .. n |-> b[k]]
    BY <1>1
  <2>2. b = acc
    BY <1>8
  <2> HIDE DEF b
  <2> QED
    BY <2>1, <2>2
<1>11. \A k \in 0 .. n : acc[k] \in Accs
  <2> DEFINE Good == {k \in 0 .. n : acc[k] \in Accs}
  <2>1. 0 \in Good
    BY <1>1, <1>2, <1>10
  <2>2. ASSUME NEW k \in 1 .. n, k - 1 \in Good PROVE k \in Good
    <3>1. acc[k - 1] \in Accs /\ pieces[k] \in Piece /\ k \in 0 .. n
      BY <2>2, <1>1
    <3>2. Accumulate(acc[k - 1], pieces[k]) \in Accs
      BY <3>1, AccumulateOne
    <3>3. acc[k] = Accumulate(acc[k - 1], pieces[k])
      BY <1>10
    <3> QED
      BY <3>1, <3>2, <3>3
  <2> HIDE DEF Good
  <2>3. \A k \in 0 .. n : k \in Good
    BY <1>1, <2>1, <2>2, UpTo
  <2> QED
    BY <2>3 DEF Good
<1>12. acc \in [0 .. n -> Accs]
  BY <1>10, <1>11
<1> QED
  BY <1>9, <1>10, <1>12 DEF Accumulations, n, first
-----------------------------------------------------------------------------
(* What the loop makes of the pieces is what was streamed.                 *)

\* The last text, when one more has come.
LEMMA LastTextNext ==
    ASSUME NEW s \in Seq(Text), NEW t \in Seq(Text), Len(t) = Len(s) + 1,
           \A k \in 1 .. Len(s) : t[k] = s[k]
    PROVE  LastText(t) = IF t[Len(t)] # NoText THEN t[Len(t)] ELSE LastText(s)
<1> DEFINE n == Len(s)
           said == {k \in 1 .. n : s[k] # NoText}
           said2 == {k \in 1 .. Len(t) : t[k] # NoText}
           last(T) == CHOOSE k \in T : \A j \in T : j <= k
<1>1. n \in Nat /\ Len(t) = n + 1
  OBVIOUS
<1>2. LastText(s) = IF said = {} THEN NoText ELSE s[last(said)]
  BY DEF LastText
<1>3. LastText(t) = IF said2 = {} THEN NoText ELSE t[last(said2)]
  BY DEF LastText
<1> HIDE DEF n
<1>4. CASE t[n + 1] # NoText
  <2>1. n + 1 \in said2 /\ \A j \in said2 : j <= n + 1 /\ j \in Nat
    BY <1>1, <1>4
  <2> HIDE DEF said2
  <2>2. last(said2) = n + 1
    BY <1>1, <2>1
  <2> QED
    BY <1>1, <1>3, <1>4, <2>1, <2>2
<1>5. CASE t[n + 1] = NoText
  <2>1. said2 = said
    BY <1>1, <1>5 DEF n
  <2>2. said \in SUBSET (0 .. n)
    BY <1>1
  <2> HIDE DEF said, said2
  <2>3. CASE said = {}
    BY <1>1, <1>2, <1>3, <1>5, <2>1, <2>3
  <2>4. CASE said # {}
    <3>1. \E m \in said : \A k \in said : k <= m
      BY <1>1, <2>2, <2>4, GreatestOf
    <3>2. last(said) \in said
      BY <3>1
    <3> HIDE DEF last
    <3>3. last(said) \in 1 .. n
      BY <3>2 DEF said
    <3>4. t[last(said)] = s[last(said)]
      BY <3>3 DEF n
    <3> QED
      BY <1>1, <1>2, <1>3, <1>5, <2>1, <2>4, <3>4
  <2> QED
    BY <2>3, <2>4
<1> QED
  BY <1>1, <1>4, <1>5

\* The texts of pieces, of one kind.
LEMMA TextsOf ==
    ASSUME NEW own \in Seq(Piece)
    PROVE  /\ [k \in 1 .. Len(own) |-> own[k].id] \in Seq(Text)
           /\ [k \in 1 .. Len(own) |-> own[k].name] \in Seq(Text)
           /\ [k \in 1 .. Len(own) |-> own[k].args] \in Seq(Seq(Text))
<1>1. \A k \in 1 .. Len(own) : /\ own[k].id \in Text /\ own[k].name \in Text
                                /\ own[k].args \in Seq(Text)
  <2> SUFFICES ASSUME NEW k \in 1 .. Len(own) PROVE own[k] \in Piece
    BY DEF Piece
  <2> QED
    OBVIOUS
<1> QED
  BY <1>1

\* The call that pieces make, when one more has come.
LEMMA CallOfNext ==
    ASSUME NEW own \in Seq(Piece), NEW d \in Piece
    PROVE  CallOf(Append(own, d)) = After(CallOf(own), d)
<1> DEFINE n == Len(own)
           more == Append(own, d)
           ids == [k \in 1 .. Len(own) |-> own[k].id]
           names == [k \in 1 .. Len(own) |-> own[k].name]
           args == [k \in 1 .. Len(own) |-> own[k].args]
           ids2 == [k \in 1 .. Len(more) |-> more[k].id]
           names2 == [k \in 1 .. Len(more) |-> more[k].name]
           args2 == [k \in 1 .. Len(more) |-> more[k].args]
<1>1. /\ more \in Seq(Piece) /\ n \in Nat /\ Len(more) = n + 1
      /\ \A k \in 1 .. n : more[k] = own[k]
      /\ more[n + 1] = d
  BY AppendProperties
<1> HIDE DEF n, more
<1>2. /\ ids \in Seq(Text) /\ names \in Seq(Text) /\ args \in Seq(Seq(Text))
      /\ ids2 \in Seq(Text) /\ names2 \in Seq(Text) /\ args2 \in Seq(Seq(Text))
  BY <1>1, TextsOf
<1>3. /\ Len(ids) = n /\ Len(names) = n /\ Len(args) = n
  BY <1>1 DEF n
<1>4. /\ Len(ids2) = n + 1 /\ Len(names2) = n + 1 /\ Len(args2) = n + 1
  BY <1>1
<1>5. \A k \in 1 .. n : ids2[k] = ids[k] /\ names2[k] = names[k] /\ args2[k] = args[k]
  BY <1>1 DEF n
<1>6. ids2[n + 1] = d.id /\ names2[n + 1] = d.name /\ args2[n + 1] = d.args
  BY <1>1
<1>7. CallOf(own) = [id |-> LastText(ids), name |-> LastText(names), args |-> Joined(args)]
  BY DEF CallOf
<1>8. CallOf(more) = [id |-> LastText(ids2), name |-> LastText(names2), args |-> Joined(args2)]
  BY DEF CallOf
<1> HIDE DEF ids, names, args, ids2, names2, args2
<1>9. LastText(ids2) = IF d.id # NoText THEN d.id ELSE LastText(ids)
  BY <1>2, <1>3, <1>4, <1>5, <1>6, LastTextNext
<1>10. LastText(names2) = IF d.name # NoText THEN d.name ELSE LastText(names)
  BY <1>2, <1>3, <1>4, <1>5, <1>6, LastTextNext
<1>11. Joined(args2) = Joined(args) \o d.args
  <2>1. Joined(args2) = Joined(args) \o args2[Len(args2)]
    BY <1>2, <1>3, <1>4, <1>5, JoinedNext
  <2> QED
    BY <1>4, <1>6, <2>1
<1> QED
  BY <1>7, <1>8, <1>9, <1>10, <1>11 DEF After, more

LEMMA CallOfNone == CallOf(<<>>) = Nothing
<1> DEFINE none == <<>>
<1>1. none \in Seq(Piece) /\ none \in Seq(Seq(Text)) /\ Len(none) = 0
  OBVIOUS
<1>2. LastText(none) = NoText
  BY DEF LastText
<1>3. Joined(none) = <<>>
  <2>1. PICK f \in Joinings(Text, none) : TRUE
    BY <1>1, JoinedLoop
  <2> QED
    BY <1>1, <2>1 DEF Joinings
<1>4. /\ [k \in 1 .. Len(none) |-> none[k].id] = none
      /\ [k \in 1 .. Len(none) |-> none[k].name] = none
      /\ [k \in 1 .. Len(none) |-> none[k].args] = none
  OBVIOUS
<1> QED
  BY <1>2, <1>3, <1>4 DEF CallOf, Nothing

\* The places that accumMap has, and what is there, are those of the pieces.
LEMMA AccumulatedCalls ==
    ASSUME NEW pieces \in Seq(Piece)
    PROVE  /\ Accumulated(pieces) \in Accs
           /\ DOMAIN Accumulated(pieces) = {pieces[k].index : k \in 1 .. Len(pieces)}
           /\ \A i \in Nat : At(Accumulated(pieces), i) = CallOf(PiecesOf(pieces, i))
<1> DEFINE n == Len(pieces)
<1>n. n \in Nat /\ \A k \in 1 .. n : pieces[k] \in Piece
  OBVIOUS
<1>1. PICK a \in Accumulations(pieces) : TRUE
  BY AccumulatedLoop
<1>2. /\ a \in [0 .. n -> Accs] /\ a[0] = <<>>
      /\ \A k \in 1 .. n : a[k] = Accumulate(a[k - 1], pieces[k])
      /\ Accumulated(pieces) = a[n]
  BY <1>1 DEF Accumulations
<1>3. DOMAIN a[n] = {pieces[k].index : k \in 1 .. n}
  <2> HIDE DEF n
  <2> DEFINE Used(m) == {pieces[k].index : k \in 1 .. m}
             Good == {m \in 0 .. n : DOMAIN a[m] = Used(m)}
  <2>1. 0 \in Good
    <3>1. DOMAIN a[0] = {} /\ Used(0) = {} /\ 0 \in 0 .. n
      BY <1>n, <1>2
    <3> QED
      BY <3>1
  <2>2. ASSUME NEW m \in 1 .. n, m - 1 \in Good PROVE m \in Good
    <3>1. /\ DOMAIN a[m - 1] = Used(m - 1) /\ a[m - 1] \in Accs /\ pieces[m] \in Piece
          /\ m \in 0 .. n
      BY <1>n, <1>2, <2>2
    <3>2. a[m] = Accumulate(a[m - 1], pieces[m])
      BY <1>2
    <3>3. DOMAIN a[m] = DOMAIN a[m - 1] \union {pieces[m].index}
      BY <3>1, <3>2, AccumulateOne
    <3>4. \A k : k \in 1 .. m <=> k \in 1 .. m - 1 \/ k = m
      BY <1>n
    <3>5. Used(m) = Used(m - 1) \union {pieces[m].index}
      BY <3>4
    <3> HIDE DEF Used
    <3> QED
      BY <3>1, <3>3, <3>5
  <2> HIDE DEF Good
  <2>3. \A m \in 0 .. n : m \in Good
    BY <1>n, <2>1, <2>2, UpTo
  <2>4. n \in Good
    BY <1>n, <2>3
  <2> QED
    BY <2>4 DEF Good
<1>4. ASSUME NEW i \in Nat
      PROVE  At(a[n], i) = CallOf(PiecesOf(pieces, i))
  <2> DEFINE own == {k \in 1 .. Len(pieces) : pieces[k].index = i}
  <2>1. PICK f : Loop(f, Piece, pieces, own)
    BY KeptLoop
  <2>2. /\ f \in [0 .. n -> Seq(Piece)] /\ f[0] = <<>>
        /\ \A k \in 1 .. n : f[k] = IF k \in own THEN Append(f[k - 1], pieces[k])
                                     ELSE f[k - 1]
        /\ Kept(pieces, own) = f[n]
    BY <2>1 DEF Loop
  <2>3. PiecesOf(pieces, i) = f[n]
    BY <2>2 DEF PiecesOf
  <2>4. \A k \in 1 .. n : k \in own <=> pieces[k].index = i
    OBVIOUS
  <2> HIDE DEF n, own
  <2> DEFINE Good == {m \in 0 .. n : At(a[m], i) = CallOf(f[m])}
  <2>5. 0 \in Good
    <3>1. At(a[0], i) = Nothing
      BY <1>2 DEF At
    <3> QED
      BY <1>n, <2>2, <3>1, CallOfNone
  <2>6. ASSUME NEW m \in 1 .. n, m - 1 \in Good PROVE m \in Good
    <3>1. /\ At(a[m - 1], i) = CallOf(f[m - 1])
          /\ a[m - 1] \in Accs /\ f[m - 1] \in Seq(Piece) /\ pieces[m] \in Piece
          /\ m \in 0 .. n
      BY <1>n, <1>2, <2>2, <2>6
    <3>2. a[m] = Accumulate(a[m - 1], pieces[m])
      BY <1>2
    <3>3. CASE m \in own
      <4>1. f[m] = Append(f[m - 1], pieces[m]) /\ pieces[m].index = i
        BY <2>2, <2>4, <3>3
      <4>2. CallOf(f[m]) = After(CallOf(f[m - 1]), pieces[m])
        BY <3>1, <4>1, CallOfNext
      <4>3. At(a[m], i) = After(At(a[m - 1], i), pieces[m])
        BY <3>1, <3>2, <4>1, AccumulateOne
      <4> QED
        BY <3>1, <4>2, <4>3
    <3>4. CASE m \notin own
      <4>1. f[m] = f[m - 1] /\ pieces[m].index # i
        BY <2>2, <2>4, <3>4
      <4> DEFINE old == a[m - 1]
                 d == pieces[m]
      <4> HIDE DEF old, d
      <4>a. old \in Accs /\ d \in Piece /\ i # d.index
        BY <3>1, <4>1 DEF old, d
      <4>b. At(Accumulate(old, d), i) = At(old, i)
        BY <4>a, AccumulateOne
      <4>2. At(a[m], i) = At(a[m - 1], i)
        BY <3>2, <4>b DEF old, d
      <4> QED
        BY <3>1, <4>1, <4>2
    <3> QED
      BY <3>3, <3>4
  <2> HIDE DEF Good
  <2>7. \A m \in 0 .. n : m \in Good
    BY <1>n, <2>5, <2>6, UpTo
  <2>8. n \in Good
    BY <1>n, <2>7
  <2> QED
    BY <2>3, <2>8 DEF Good
<1>5. a[n] \in Accs
  BY <1>n, <1>2
<1> QED
  BY <1>2, <1>3, <1>4, <1>5

\* The places of the pieces of a round are below some number.
LEMMA PlacesBounded ==
    ASSUME NEW pieces \in Seq(Piece)
    PROVE  \E b \in Nat : {pieces[k].index : k \in 1 .. Len(pieces)} \in SUBSET (0 .. b)
<1> DEFINE n == Len(pieces)
           Good == {m \in 0 .. n : \E b \in Nat : \A k \in 1 .. m : pieces[k].index <= b}
<1>1. n \in Nat /\ \A k \in 1 .. n : pieces[k].index \in Nat
  <2> SUFFICES ASSUME NEW k \in 1 .. n PROVE pieces[k] \in Piece
    BY DEF Piece
  <2> QED
    OBVIOUS
<1> HIDE DEF n
<1>2. 0 \in Good
  <2>1. \A k \in 1 .. 0 : pieces[k].index <= 0
    OBVIOUS
  <2> QED
    BY <1>1, <2>1
<1>3. ASSUME NEW m \in 1 .. n, m - 1 \in Good PROVE m \in Good
  <2>1. PICK b \in Nat : \A k \in 1 .. m - 1 : pieces[k].index <= b
    BY <1>3
  <2>2. pieces[m].index \in Nat /\ m \in 0 .. n
    BY <1>1
  <2> DEFINE i == pieces[m].index
             c == IF i <= b THEN b ELSE i
  <2>3. c \in Nat /\ b <= c /\ i <= c
    BY <2>2
  <2> HIDE DEF i, c
  <2>4. ASSUME NEW k \in 1 .. m PROVE pieces[k].index <= c
    <3>1. pieces[k].index \in Nat
      BY <1>1
    <3>2. CASE k = m
      BY <2>3, <3>2 DEF i
    <3>3. CASE k # m
      <4>1. pieces[k].index <= b
        BY <2>1, <3>3
      <4> QED
        BY <2>1, <2>3, <3>1, <4>1
    <3> QED
      BY <3>2, <3>3
  <2> QED
    BY <2>2, <2>3, <2>4
<1> HIDE DEF Good
<1>4. \A m \in 0 .. n : m \in Good
  BY <1>1, <1>2, <1>3, UpTo
<1>5. n \in Good
  BY <1>1, <1>4
<1>6. PICK b \in Nat : \A k \in 1 .. n : pieces[k].index <= b
  BY <1>5 DEF Good
<1>7. \A k \in 1 .. n : pieces[k].index \in 0 .. b
  BY <1>1, <1>6
<1> QED
  BY <1>7 DEF n

\* The calls of a round, with either API.
LEMMA AssembleType ==
    ASSUME NEW pieces \in Seq(Piece)
    PROVE  /\ AssembleOpenAI(pieces) \in Seq(Call)
           /\ AssembleNative(pieces) \in Seq(Call)
<1> DEFINE acc == Accumulated(pieces)
           size == Cardinality(DOMAIN acc)
<1>1. acc \in Accs /\ DOMAIN acc = {pieces[k].index : k \in 1 .. Len(pieces)}
  BY AccumulatedCalls
<1>2. size \in Nat
  <2>1. PICK b \in Nat : {pieces[k].index : k \in 1 .. Len(pieces)} \in SUBSET (0 .. b)
    BY PlacesBounded
  <2>2. DOMAIN acc \in SUBSET (0 .. b)
    BY <1>1, <2>1
  <2>3. IsFiniteSet(0 .. b)
    <3>1. 0 \in Int /\ b \in Int
      OBVIOUS
    <3> QED
      BY <3>1, FS_Interval
  <2> HIDE DEF acc
  <2>4. IsFiniteSet(DOMAIN acc)
    BY <2>2, <2>3, FS_Subset
  <2> QED
    BY <2>4, FS_CardinalityType
<1>3. nil \in Seq(Text) /\ NoCall \in Call
  <2>1. "nil" \in Text /\ NoText \in Text
    BY DEF Text
  <2>2. nil \in Seq(Text)
    BY <2>1 DEF nil
  <2> QED
    BY <2>1, <2>2 DEF NoCall, Call
<1>4. \A i \in DOMAIN acc : acc[i] \in Call
  <2> HIDE DEF acc
  <2> QED
    BY <1>1 DEF Accs
<1>5. AssembleOpenAI(pieces)
        = [j \in 1 .. size |-> IF j - 1 \in DOMAIN acc THEN acc[j - 1] ELSE NoCall]
  BY DEF AssembleOpenAI
<1> HIDE DEF size, acc
<1>6. AssembleOpenAI(pieces) \in Seq(Call)
  <2>1. [j \in 1 .. size |-> IF j - 1 \in DOMAIN acc THEN acc[j - 1] ELSE NoCall]
          \in [1 .. size -> Call]
    BY <1>3, <1>4
  <2> QED
    BY <1>2, <1>5, <2>1
<1>7. AssembleNative(pieces) \in Seq(Call)
  <2> DEFINE call(j) == [id |-> pieces[j].id, name |-> pieces[j].name,
                         args |-> IF IsJSON(pieces[j].args) THEN pieces[j].args ELSE nil]
  <2>2. ASSUME NEW j \in 1 .. Len(pieces) PROVE call(j) \in Call
    <3>1. pieces[j] \in Piece
      OBVIOUS
    <3> HIDE DEF nil
    <3> QED
      BY <1>3, <3>1 DEF Piece, Call
  <2>3. AssembleNative(pieces) = [j \in 1 .. Len(pieces) |-> call(j)]
    BY DEF AssembleNative
  <2> HIDE DEF call
  <2>4. Len(pieces) \in Nat
    OBVIOUS
  <2> QED
    BY <2>2, <2>3, <2>4
<1> QED
  BY <1>6, <1>7

\* A place for each index that was used, with what its pieces say.
LEMMA StreamedCalls ==
    ASSUME NEW pieces \in Seq(Piece),
           NEW used, used = {pieces[k].index : k \in 1 .. Len(pieces)}
    PROVE  /\ Len(AssembleOpenAI(pieces)) = Cardinality(used)
           /\ \A j \in 1 .. Len(AssembleOpenAI(pieces)) :
                  AssembleOpenAI(pieces)[j]
                      = IF j - 1 \in used THEN CallOf(PiecesOf(pieces, j - 1)) ELSE NoCall
<1> DEFINE acc == Accumulated(pieces)
           calls == AssembleOpenAI(pieces)
           full(i) == CallOf(PiecesOf(pieces, i))
           m == Cardinality(used)
<1>1. DOMAIN acc = used /\ \A i \in Nat : At(acc, i) = full(i)
  BY AccumulatedCalls
<1>2. m \in Nat
  <2>1. PICK b \in Nat : used \in SUBSET (0 .. b)
    BY PlacesBounded
  <2>2. 0 \in Int /\ b \in Int
    OBVIOUS
  <2>3. IsFiniteSet(0 .. b)
    BY <2>2, FS_Interval
  <2>4. IsFiniteSet(used)
    BY <2>1, <2>3, FS_Subset
  <2> QED
    BY <2>4, FS_CardinalityType
<1>5. calls = [j \in 1 .. m |-> IF j - 1 \in DOMAIN acc THEN acc[j - 1] ELSE NoCall]
  BY <1>1 DEF AssembleOpenAI
<1> HIDE DEF acc, calls, full, m
<1>6. Len(calls) = m
  BY ONLY <1>5, <1>2
<1>7. ASSUME NEW j \in 1 .. m
      PROVE  calls[j] = IF j - 1 \in used THEN full(j - 1) ELSE NoCall
  <2> DEFINE i == j - 1
  <2>a. i \in Nat
    BY ONLY <1>2, j \in 1 .. m
  <2>b. calls[j] = IF i \in DOMAIN acc THEN acc[i] ELSE NoCall
    BY ONLY <1>5, j \in 1 .. m
  <2> HIDE DEF i
  <2>1. ASSUME i \in used PROVE acc[i] = full(i)
    <3>1. At(acc, i) = acc[i]
      BY ONLY <1>1, <2>1 DEF At
    <3>2. At(acc, i) = full(i)
      BY ONLY <1>1, <2>a
    <3> QED
      BY ONLY <3>1, <3>2
  <2>2. calls[j] = IF i \in used THEN full(i) ELSE NoCall
    BY ONLY <1>1, <2>b, <2>1
  <2> QED
    BY ONLY <2>2 DEF i
<1> QED
  BY ONLY <1>6, <1>7 DEF calls, full, m
-----------------------------------------------------------------------------
(* Conversations.                                                          *)

\* A turn of the prompt or of the history.
Spoken(m) == m.role # "tool" /\ m.calls = <<>>

\* Before the first round: the system prompt and turns without calls.
Opening(msgs) ==
    /\ msgs \in Seq(Turn) /\ Len(msgs) \in 1 .. MaxHistory + 2
    /\ \A i \in 1 .. Len(msgs) : Spoken(msgs[i])
    /\ \A i \in 1 .. Len(msgs) : msgs[i].role = "system" <=> i = 1

\* One that ends in the prompt is as it should be.
LEMMA OpeningFollows ==
    ASSUME NEW msgs, Opening(msgs), NEW prompt, msgs[Len(msgs)] = Message("user", prompt)
    PROVE  Follows(msgs, prompt) /\ Matched(msgs)
<1> DEFINE n == Len(msgs)
<1>1. /\ n \in Nat /\ n \in 1 .. MaxHistory + 2
      /\ \A i \in 1 .. n : Spoken(msgs[i])
      /\ \A i \in 1 .. n : msgs[i].role = "system" <=> i = 1
      /\ msgs[n] = Message("user", prompt)
  BY DEF Opening
<1> HIDE DEF n
<1>2. msgs[n].role = "user" /\ n # 1
  <2>1. msgs[n].role = "user"
    BY <1>1 DEF Message
  <2> QED
    BY <1>1, <2>1
<1>3. {i \in 1 .. n : msgs[i].role # "tool" /\ msgs[i].calls = <<>>} = 1 .. n
  <2>1. {i \in 1 .. n : Spoken(msgs[i])} = 1 .. n
    BY ONLY <1>1
  <2> QED
    BY ONLY <2>1 DEF Spoken
<1>4. n \in 2 .. MaxHistory + 2
  BY <1>1, <1>2
<1>5. Follows(msgs, prompt)
  BY ONLY <1>1, <1>3, <1>4 DEF Follows, n
<1>6. Matched(msgs)
  <2>1. ASSUME NEW i \in 1 .. n PROVE msgs[i].role # "tool" /\ msgs[i].calls = <<>>
    BY ONLY <1>1, i \in 1 .. n DEF Spoken
  <2>2. \A i \in 2 .. n : i \in 1 .. n
    BY ONLY <1>1
  <2> QED
    BY ONLY <2>1, <2>2 DEF Matched, n
<1> QED
  BY <1>5, <1>6

\* handleOllamaChat makes such a conversation of what the browser sends.
LEMMA ConversationGood ==
    ASSUME NEW prior \in Histories, NEW prompt \in Prompts
    PROVE  /\ Conversation(prior, prompt) \in Seq(Turn)
           /\ Follows(Conversation(prior, prompt), prompt)
           /\ Matched(Conversation(prior, prompt))
<1> DEFINE Said == [role : {"user", "assistant"}, text : STRING,
                    calls : {<<>>}, id : {NoText}]
           kept == IF Len(prior) <= MaxHistory THEN prior
                   ELSE SubSeq(prior, Len(prior) - MaxHistory + 1, Len(prior))
           system == Message("system", NoText)
           asked == Message("user", prompt)
           msgs == <<system>> \o kept
<1>1. prior \in Seq(Said) /\ prompt \in STRING /\ MaxHistory \in Nat
  BY ChatAssumption
<1>a. <<>> \in Seq(Call)
  OBVIOUS
<1>b. NoText \in Text /\ prompt \in Text
  BY <1>1 DEF Text
<1>2. ASSUME NEW m \in Said
      PROVE  m \in Turn /\ m.role \in {"user", "assistant"} /\ m.calls = <<>>
  <2>1. STRING \subseteq Text
    BY DEF Text
  <2> QED
    BY <1>a, <1>b, <2>1 DEF Turn
<1>c. ASSUME NEW m \in Said PROVE Spoken(m) /\ m.role # "system"
  BY <1>2 DEF Spoken
<1>3. /\ system \in Turn /\ system.role = "system" /\ system.calls = <<>>
      /\ asked \in Turn /\ asked.role = "user" /\ asked.calls = <<>>
  BY <1>a, <1>b DEF Message, Turn
<1>d. Spoken(system) /\ Spoken(asked) /\ asked.role # "system"
  BY <1>3 DEF Spoken
<1> HIDE DEF Said, system, asked
<1>4. kept \in Seq(Said) /\ Len(kept) <= MaxHistory /\ Len(kept) \in Nat
  <2>1. Len(prior) \in Nat
    BY <1>1
  <2>2. CASE Len(prior) <= MaxHistory
    BY <1>1, <2>1, <2>2
  <2>3. CASE ~(Len(prior) <= MaxHistory)
    <3> DEFINE a == Len(prior) - MaxHistory + 1
               b == Len(prior)
    <3>1. a \in 1 .. b + 1 /\ b \in (a - 1) .. Len(prior) /\ b - a + 1 = MaxHistory /\ a <= b + 1
      BY <1>1, <2>1, <2>3
    <3> HIDE DEF a, b
    <3>2. SubSeq(prior, a, b) \in Seq(Said) /\ Len(SubSeq(prior, a, b)) = b - a + 1
      BY <1>1, <3>1, SubSeqProperties
    <3>3. kept = SubSeq(prior, a, b)
      BY <2>3 DEF a, b
    <3> HIDE DEF kept
    <3> QED
      BY <1>1, <3>1, <3>2, <3>3
  <2> QED
    BY <2>2, <2>3
<1>5. Conversation(prior, prompt)
        = IF msgs[Len(msgs)] = asked THEN msgs ELSE Append(msgs, asked)
  BY DEF Conversation, system, asked
<1> HIDE DEF kept
<1>6. /\ msgs \in Seq(Turn) /\ Len(msgs) = Len(kept) + 1
      /\ msgs[1] = system /\ \A i \in 2 .. Len(msgs) : msgs[i] \in Said
  <2>1. <<system>> \in Seq(Turn) /\ Len(<<system>>) = 1 /\ <<system>>[1] = system
    BY <1>3
  <2>2. kept \in Seq(Turn) /\ \A i \in 1 .. Len(kept) : kept[i] \in Said
    BY <1>2, <1>4
  <2>3. /\ msgs \in Seq(Turn) /\ Len(msgs) = 1 + Len(kept)
        /\ \A i \in 1 .. 1 + Len(kept) :
               msgs[i] = IF i <= 1 THEN <<system>>[i] ELSE kept[i - 1]
    BY <2>1, <2>2, ConcatProperties
  <2> HIDE DEF msgs
  <2>4. msgs[1] = system
    BY <1>4, <2>1, <2>3
  <2>5. ASSUME NEW i \in 2 .. Len(msgs) PROVE msgs[i] \in Said
    <3>1. i \in 1 .. 1 + Len(kept) /\ ~(i <= 1) /\ i - 1 \in 1 .. Len(kept)
      BY <1>4, <2>3
    <3> QED
      BY <2>2, <2>3, <3>1
  <2> QED
    BY <1>4, <2>3, <2>4, <2>5
<1> HIDE DEF msgs
<1>7. /\ Len(msgs) \in 1 .. MaxHistory + 1 /\ Len(msgs) \in Nat
      /\ \A i \in 1 .. Len(msgs) : Spoken(msgs[i])
      /\ \A i \in 1 .. Len(msgs) : msgs[i].role = "system" <=> i = 1
  <2>1. Len(msgs) \in 1 .. MaxHistory + 1 /\ Len(msgs) \in Nat
    BY <1>1, <1>4, <1>6
  <2>2. ASSUME NEW i \in 1 .. Len(msgs)
        PROVE  Spoken(msgs[i]) /\ (msgs[i].role = "system" <=> i = 1)
    <3>1. CASE i = 1
      BY <1>3, <1>d, <1>6, <3>1
    <3>2. CASE i # 1
      <4>1. msgs[i] \in Said
        BY <1>6, <2>1, <3>2
      <4> QED
        BY <1>c, <3>2, <4>1
    <3> QED
      BY <3>1, <3>2
  <2> QED
    BY <2>1, <2>2
<1>8. CASE msgs[Len(msgs)] = asked
  <2>1. Opening(msgs)
    BY <1>1, <1>6, <1>7 DEF Opening
  <2>2. Conversation(prior, prompt) = msgs
    BY <1>5, <1>8
  <2> QED
    BY <1>6, <1>8, <2>1, <2>2, OpeningFollows DEF asked
<1>9. CASE msgs[Len(msgs)] # asked
  <2> DEFINE more == Append(msgs, asked)
  <2>1. /\ more \in Seq(Turn) /\ Len(more) = Len(msgs) + 1
        /\ more[Len(msgs) + 1] = asked
        /\ \A i \in 1 .. Len(msgs) : more[i] = msgs[i]
    BY <1>3, <1>6, AppendProperties
  <2>2. Conversation(prior, prompt) = more
    BY <1>5, <1>9
  <2> HIDE DEF more
  <2>3. ASSUME NEW i \in 1 .. Len(more)
        PROVE  Spoken(more[i]) /\ (more[i].role = "system" <=> i = 1)
    <3>1. CASE i = Len(msgs) + 1
      BY <1>7, <1>d, <2>1, <3>1
    <3>2. CASE i # Len(msgs) + 1
      <4>1. i \in 1 .. Len(msgs) /\ more[i] = msgs[i]
        BY <1>7, <2>1, <3>2
      <4> QED
        BY <1>7, <4>1
    <3> QED
      BY <3>1, <3>2
  <2>4. Opening(more)
    BY <1>1, <1>7, <2>1, <2>3 DEF Opening
  <2>5. more[Len(more)] = asked
    BY <2>1
  <2> QED
    BY <2>1, <2>2, <2>4, <2>5, OpeningFollows DEF asked
<1> QED
  BY <1>8, <1>9

\* The turns of a round: its calls and their results.
LEMMA AnsweredShape ==
    ASSUME NEW calls \in Seq(Call)
    PROVE  /\ Answered(calls) \in Seq(Turn)
           /\ Len(Answered(calls)) = Len(calls) + 1
           /\ Answered(calls)[1].role = "assistant" /\ Answered(calls)[1].calls = calls
           /\ \A j \in 1 .. Len(calls) :
                  /\ Answered(calls)[j + 1].role = "tool"
                  /\ Answered(calls)[j + 1].id = calls[j].id
<1> DEFINE asks == [Message("assistant", NoText) EXCEPT !.calls = calls]
           results == [j \in 1 .. Len(calls) |-> ToolMessage(calls[j])]
           res == <<asks>> \o results
<1>1. asks \in Turn /\ asks.role = "assistant" /\ asks.calls = calls
  BY DEF Message, Turn, Text
<1>2. ASSUME NEW c \in Call
      PROVE  ToolMessage(c) \in Turn /\ ToolMessage(c).role = "tool" /\ ToolMessage(c).id = c.id
  <2>1. Result(c) \in Text
    BY DEF Result, Text
  <2>2. <<>> \in Seq(Call) /\ c.id \in Text
    BY DEF Call
  <2> QED
    BY <2>1, <2>2 DEF ToolMessage, Message, Turn
<1>3. Len(calls) \in Nat /\ \A j \in 1 .. Len(calls) : calls[j] \in Call
  OBVIOUS
<1>4. /\ results \in Seq(Turn) /\ Len(results) = Len(calls)
      /\ \A j \in 1 .. Len(calls) : results[j].role = "tool" /\ results[j].id = calls[j].id
  BY <1>2, <1>3
<1>5. Answered(calls) = res
  BY DEF Answered
<1> HIDE DEF asks, results
<1>6. <<asks>> \in Seq(Turn) /\ Len(<<asks>>) = 1 /\ <<asks>>[1] = asks
  BY <1>1
<1>7. /\ res \in Seq(Turn) /\ Len(res) = 1 + Len(results)
      /\ \A i \in 1 .. 1 + Len(results) :
             res[i] = IF i <= 1 THEN <<asks>>[i] ELSE results[i - 1]
  BY <1>4, <1>6, ConcatProperties
<1> HIDE DEF res
<1>8. res[1] = asks
  BY <1>3, <1>4, <1>6, <1>7
<1>9. ASSUME NEW j \in 1 .. Len(calls) PROVE res[j + 1] = results[j]
  <2>1. j + 1 \in 1 .. 1 + Len(results) /\ ~(j + 1 <= 1) /\ (j + 1) - 1 = j
    BY <1>3, <1>4
  <2>2. res[j + 1] = results[(j + 1) - 1]
    BY <1>7, <2>1
  <2> QED
    BY <2>1, <2>2
<1> QED
  BY <1>1, <1>3, <1>4, <1>5, <1>7, <1>8, <1>9

\* A round leaves a conversation as it should be.
LEMMA RoundGood ==
    ASSUME NEW msgs \in Seq(Turn), NEW prompt, Follows(msgs, prompt), Matched(msgs),
           NEW calls \in Seq(Call), calls # <<>>
    PROVE  /\ msgs \o Answered(calls) \in Seq(Turn)
           /\ Follows(msgs \o Answered(calls), prompt)
           /\ Matched(msgs \o Answered(calls))
<1> DEFINE n == Len(msgs)
           k == Len(calls)
           new == Answered(calls)
           all == msgs \o new
<1>1. n \in Nat /\ k \in Nat /\ msgs \in Seq(Turn)
  OBVIOUS
<1>2. /\ new \in Seq(Turn) /\ Len(new) = k + 1
      /\ new[1].role = "assistant" /\ new[1].calls = calls
      /\ \A j \in 1 .. k : new[j + 1].role = "tool" /\ new[j + 1].id = calls[j].id
  BY AnsweredShape
<1> HIDE DEF new
<1>3. /\ all \in Seq(Turn) /\ Len(all) = n + (k + 1)
      /\ \A i \in 1 .. n + Len(new) : all[i] = IF i <= n THEN msgs[i] ELSE new[i - n]
  <2>1. /\ msgs \o new \in Seq(Turn) /\ Len(msgs \o new) = Len(msgs) + Len(new)
        /\ \A i \in 1 .. Len(msgs) + Len(new) :
               (msgs \o new)[i] = IF i <= Len(msgs) THEN msgs[i] ELSE new[i - Len(msgs)]
    <3>1. msgs \in Seq(Turn) /\ new \in Seq(Turn)
      BY ONLY <1>1, <1>2
    <3> QED
      BY ONLY <3>1, ConcatProperties
  <2>2. /\ all \in Seq(Turn) /\ Len(all) = n + Len(new)
        /\ \A i \in 1 .. n + Len(new) : all[i] = IF i <= n THEN msgs[i] ELSE new[i - n]
    BY ONLY <2>1
  <2>3. Len(new) = k + 1
    BY ONLY <1>2
  <2> HIDE DEF n, k, all
  <2> QED
    BY ONLY <2>2, <2>3
<1> HIDE DEF n, k, all
<1>4. \A i \in 1 .. n : all[i] = msgs[i]
  BY <1>1, <1>2, <1>3
<1>5. ASSUME NEW j \in 1 .. k + 1 PROVE all[n + j] = new[j]
  <2>1. n + j \in 1 .. n + Len(new) /\ ~(n + j <= n) /\ (n + j) - n = j
    BY <1>1, <1>2
  <2>2. all[n + j] = new[(n + j) - n]
    BY <1>3, <2>1
  <2> QED
    BY <2>1, <2>2
<1>6. all[n + 1].role = "assistant" /\ all[n + 1].calls = calls
  BY <1>1, <1>2, <1>5
<1>7. ASSUME NEW j \in 1 .. k
      PROVE  all[n + 1 + j].role = "tool" /\ all[n + 1 + j].id = calls[j].id
  <2>1. j + 1 \in 1 .. k + 1 /\ n + (j + 1) = n + 1 + j
    BY <1>1
  <2>2. all[n + (j + 1)] = new[j + 1]
    BY <1>5, <2>1
  <2> QED
    BY <1>2, <2>1, <2>2
<1>8. ASSUME NEW i \in 1 .. Len(all)
      PROVE  \/ i \in 1 .. n
             \/ i = n + 1
             \/ \E j \in 1 .. k : i = n + 1 + j
  <2>1. CASE i > n + 1
    <3>1. i - (n + 1) \in 1 .. k /\ i = n + 1 + (i - (n + 1))
      BY <1>1, <1>3, <2>1
    <3> QED
      BY <3>1
  <2> QED
    BY <1>1, <1>3, <2>1
<1>9. PICK p \in 2 .. MaxHistory + 2 :
          /\ {i \in 1 .. n : Spoken(msgs[i])} = 1 .. p
          /\ msgs[p] = Message("user", prompt)
  BY DEF Follows, Spoken, n
<1>10. p \in Nat /\ p \in 1 .. n
  BY <1>1, <1>9
<1>11. {i \in 1 .. Len(all) : Spoken(all[i])} = 1 .. p
  <2>1. ASSUME NEW i \in 1 .. Len(all), Spoken(all[i])
        PROVE  i \in 1 .. p
    <3>1. i \in 1 .. n
      BY <1>6, <1>7, <1>8, <2>1 DEF Spoken
    <3>2. Spoken(msgs[i])
      BY <1>4, <2>1, <3>1
    <3> QED
      BY <1>9, <3>1, <3>2
  <2>2. ASSUME NEW i \in 1 .. p
        PROVE  i \in 1 .. Len(all) /\ Spoken(all[i])
    <3>1. i \in 1 .. n /\ Spoken(msgs[i])
      BY <1>9
    <3> QED
      BY <1>1, <1>3, <1>4, <3>1
  <2> QED
    BY <2>1, <2>2
<1>12. all[p] = Message("user", prompt)
  BY <1>4, <1>9, <1>10
<1>13. ASSUME NEW i \in 1 .. Len(all) PROVE all[i].role = "system" <=> i = 1
  <2>1. CASE i \in 1 .. n
    <3>1. \A h \in 1 .. n : msgs[h].role = "system" <=> h = 1
      BY DEF Follows, n
    <3> QED
      BY ONLY <1>4, <2>1, <3>1
  <2>2. CASE i = n + 1
    <3>1. i # 1
      BY ONLY <1>1, <1>10, <2>2
    <3>2. all[i].role = "assistant"
      BY ONLY <1>6, <2>2
    <3> QED
      BY ONLY <3>1, <3>2
  <2>3. CASE \E j \in 1 .. k : i = n + 1 + j
    <3>1. i # 1
      BY ONLY <1>1, <1>10, <2>3
    <3>2. all[i].role = "tool"
      BY ONLY <1>7, <2>3
    <3> QED
      BY ONLY <3>1, <3>2
  <2> QED
    BY <1>8, <2>1, <2>2, <2>3
<1>14. Follows(all, prompt)
  BY <1>9, <1>11, <1>12, <1>13 DEF Follows, Spoken
<1>15. ASSUME NEW i \in 1 .. Len(all), all[i].role = "assistant", all[i].calls # <<>>
       PROVE  /\ i + Len(all[i].calls) <= Len(all)
              /\ \A j \in 1 .. Len(all[i].calls) :
                     /\ all[i + j].role = "tool"
                     /\ all[i + j].id = all[i].calls[j].id
  <2>1. CASE i \in 1 .. n
    <3> DEFINE c == msgs[i].calls
    <3>1. all[i].calls = c /\ all[i] = msgs[i]
      BY <1>4, <2>1
    <3>2. /\ i + Len(c) <= n
          /\ \A j \in 1 .. Len(c) : msgs[i + j].role = "tool" /\ msgs[i + j].id = c[j].id
      BY <1>15, <2>1, <3>1 DEF Matched, n
    <3>3. Len(c) \in Nat
      <4>1. msgs[i] \in Turn
        BY <2>1 DEF n
      <4> QED
        BY <4>1 DEF Turn
    <3> HIDE DEF c
    <3>4. \A j \in 1 .. Len(c) : i + j \in 1 .. n
      BY <1>1, <2>1, <3>2, <3>3
    <3>5. \A j \in 1 .. Len(c) : all[i + j].role = "tool" /\ all[i + j].id = c[j].id
      BY <1>4, <3>2, <3>4
    <3>6. i + Len(c) <= Len(all)
      BY ONLY <1>1, <1>3, <2>1, <3>2, <3>3
    <3> QED
      BY ONLY <3>1, <3>5, <3>6
  <2>2. CASE i = n + 1
    <3>1. all[i].calls = calls /\ i + k <= Len(all)
      BY <1>1, <1>3, <1>6, <2>2
    <3> QED
      BY <1>7, <2>2, <3>1 DEF k
  <2>3. CASE \E j \in 1 .. k : i = n + 1 + j
    BY <1>7, <1>15, <2>3
  <2> QED
    BY <1>8, <2>1, <2>2, <2>3
<1>16. ASSUME NEW i \in 2 .. Len(all), all[i].role = "tool"
       PROVE  all[i - 1].role = "tool" \/ all[i - 1].calls # <<>>
  <2>1. CASE i \in 1 .. n
    <3>1. i \in 2 .. n /\ i - 1 \in 1 .. n /\ all[i] = msgs[i]
      BY <1>1, <1>4, <2>1
    <3>2. all[i - 1] = msgs[i - 1]
      BY <1>4, <3>1
    <3> QED
      BY <1>16, <3>1, <3>2 DEF Matched, n
  <2>2. CASE i = n + 1
    BY <1>6, <1>16, <2>2
  <2>3. CASE \E j \in 1 .. k : i = n + 1 + j
    <3> PICK j \in 1 .. k : i = n + 1 + j
      BY <2>3
    <3>1. CASE j = 1
      <4>1. i - 1 = n + 1
        BY <1>1, <3>1
      <4> QED
        BY <1>6, <4>1
    <3>2. CASE j # 1
      <4>1. j - 1 \in 1 .. k /\ i - 1 = n + 1 + (j - 1)
        BY <1>1, <3>2
      <4> QED
        BY <1>7, <4>1
    <3> QED
      BY <3>1, <3>2
  <2>4. i \in 1 .. Len(all)
    OBVIOUS
  <2> QED
    BY <1>8, <2>1, <2>2, <2>3, <2>4
<1>17. Matched(all)
  BY <1>15, <1>16 DEF Matched
<1> QED
  BY <1>3, <1>14, <1>17 DEF all, new
-----------------------------------------------------------------------------
(* Chats.                                                                  *)

\* What a chat request that has begun is at, and its conversation.
Begun ==
    [at : {"round"}, n : 0 .. MaxRounds - 1, msgs : Seq(Turn), prompt : STRING]
    \union [at : {"done", "failed"}, n : 0 .. MaxRounds, msgs : Seq(Turn), prompt : STRING]
    \union [at : {"ollama", "openai"}, n : 0 .. MaxRounds - 1, msgs : Seq(Turn),
            prompt : STRING, pieces : Seq(Piece)]
WellFormed(c) == Follows(c.msgs, c.prompt) /\ Matched(c.msgs)
ChatState == {Silent} \union {c \in Begun : WellFormed(c)}

\* Every conversation is well formed, and held by a request in its handler.
ChatInv ==
    /\ chat \in [Chats -> ChatState]
    /\ \A r \in Chats : chat[r].at # "none" => req[r].at = "handle"

OtherTypes ==
    /\ probe \in [Probes -> {"idle", "native", "fallback", "found ollama",
                             "found openai"}]
    /\ detectedAPI \in {NoText, "ollama", "openai"}
    /\ backend \in {"ollama", "openai", "down"}
    /\ changes \in 0 .. MaxChanges

WebInv == ChatInv /\ OtherTypes

\* What each phase of a chat has.
LEMMA Phases ==
    ASSUME NEW c \in ChatState
    PROVE  /\ c.at \in {"none", "round", "ollama", "openai", "done", "failed"}
           /\ c.at = "none" <=> c = Silent
           /\ c.at # "none" =>
                  /\ c.n \in 0 .. MaxRounds /\ c.msgs \in Seq(Turn) /\ c.prompt \in STRING
                  /\ WellFormed(c)
           /\ c.at \in {"round", "ollama", "openai"} => c.n \in 0 .. MaxRounds - 1
           /\ c.at \in {"ollama", "openai"} => c.pieces \in Seq(Piece)
<1>1. CASE c = Silent
  BY <1>1 DEF Silent
<1>2. CASE c # Silent
  <2>1. c \in Begun /\ WellFormed(c)
    BY <1>2 DEF ChatState
  <2>2. MaxRounds \in Nat \ {0}
    BY ChatAssumption
  <2> HIDE DEF WellFormed
  <2> QED
    BY <1>2, <2>1, <2>2 DEF Begun
<1> QED
  BY <1>1, <1>2

\* A step of one chat.
LEMMA OneChat ==
    ASSUME ChatInv, NEW r \in Chats, NEW c \in ChatState, req[r].at = "handle",
           chat' = [chat EXCEPT ![r] = c], req' = req
    PROVE  ChatInv'
BY DEF ChatInv

\* handleOllamaChat begins with a conversation that is well formed.
LEMMA BeginStep ==
    ASSUME ChatInv, NEW r \in Chats, req[r].at = "handle", BeginChat(r), req' = req
    PROVE  ChatInv'
<1>1. PICK prior \in Histories, prompt \in Prompts :
          chat' = [chat EXCEPT ![r] = [at |-> "round", n |-> 0, prompt |-> prompt,
                                       msgs |-> Conversation(prior, prompt)]]
  BY DEF BeginChat
<1> DEFINE msgs == Conversation(prior, prompt)
           c == [at |-> "round", n |-> 0, prompt |-> prompt, msgs |-> msgs]
<1>2. msgs \in Seq(Turn) /\ Follows(msgs, prompt) /\ Matched(msgs)
  BY ConversationGood
<1>3. MaxRounds \in Nat \ {0} /\ prompt \in STRING
  BY ChatAssumption
<1> HIDE DEF msgs
<1>4. c \in Begun /\ WellFormed(c)
  BY <1>2, <1>3 DEF Begun, WellFormed
<1>5. chat' = [chat EXCEPT ![r] = c]
  BY <1>1 DEF msgs
<1> HIDE DEF c
<1> QED
  BY <1>4, <1>5, OneChat DEF ChatState

\* Nothing but the phase changes, and what the backend streams.
LEMMA SamePhase ==
    ASSUME NEW c \in ChatState, c.at # "none", NEW d,
           \/ \E at \in {"done", "failed"} :
                  d = [at |-> at, n |-> c.n, msgs |-> c.msgs, prompt |-> c.prompt]
           \/ /\ c.at \in {"round", "ollama", "openai"}
              /\ \E at \in {"ollama", "openai"}, pieces \in Seq(Piece) :
                     d = [at |-> at, n |-> c.n, msgs |-> c.msgs, prompt |-> c.prompt,
                          pieces |-> pieces]
    PROVE  d \in ChatState
<1>1. /\ c.n \in 0 .. MaxRounds /\ c.msgs \in Seq(Turn) /\ c.prompt \in STRING
      /\ WellFormed(c)
      /\ c.at \in {"round", "ollama", "openai"} => c.n \in 0 .. MaxRounds - 1
  BY Phases
<1>2. d.msgs = c.msgs /\ d.prompt = c.prompt
  OBVIOUS
<1>3. WellFormed(d)
  BY <1>1, <1>2 DEF WellFormed
<1>4. d \in Begun
  BY <1>1 DEF Begun
<1> QED
  BY <1>3, <1>4 DEF ChatState

\* The end of a round: its calls and their results are appended.
LEMMA ContinueStep ==
    ASSUME ChatInv, NEW r \in Chats, chat[r].at \in {"ollama", "openai"},
           NEW calls \in Seq(Call), Continue(r, calls), req' = req
    PROVE  ChatInv'
<1> DEFINE c == chat[r]
           more == c.n + 1 < MaxRounds
           all == c.msgs \o Answered(calls)
           ended == [at |-> "done", n |-> c.n, msgs |-> c.msgs, prompt |-> c.prompt]
           next == [at |-> IF more THEN "round" ELSE "done", n |-> c.n + 1,
                    msgs |-> all, prompt |-> c.prompt]
<1>1. c \in ChatState /\ req[r].at = "handle" /\ c.at \in {"ollama", "openai"}
  BY DEF ChatInv
<1>2. /\ c.n \in 0 .. MaxRounds - 1 /\ c.msgs \in Seq(Turn) /\ c.prompt \in STRING
      /\ Follows(c.msgs, c.prompt) /\ Matched(c.msgs) /\ MaxRounds \in Nat
  BY <1>1, Phases, ChatAssumption DEF WellFormed
<1>3. chat' = [chat EXCEPT ![r] = IF calls = <<>> THEN ended ELSE next]
  BY DEF Continue
<1>4. ended \in ChatState
  BY <1>1, SamePhase
<1>5. ASSUME calls # <<>> PROVE next \in ChatState
  <2>1. all \in Seq(Turn) /\ Follows(all, c.prompt) /\ Matched(all)
    BY <1>2, <1>5, RoundGood
  <2> HIDE DEF c, all
  <2>2. next.msgs = all /\ next.prompt = c.prompt
    OBVIOUS
  <2>3. WellFormed(next)
    BY <2>1, <2>2 DEF WellFormed
  <2>4. CASE more
    <3>1. c.n + 1 \in 0 .. MaxRounds - 1
      BY <1>2, <2>4
    <3>2. next = [at |-> "round", n |-> c.n + 1, msgs |-> all, prompt |-> c.prompt]
      BY <2>4
    <3> QED
      BY <1>2, <2>1, <2>3, <3>1, <3>2 DEF Begun, ChatState
  <2>5. CASE ~more
    <3>1. c.n + 1 \in 0 .. MaxRounds
      BY <1>2
    <3>2. next = [at |-> "done", n |-> c.n + 1, msgs |-> all, prompt |-> c.prompt]
      BY <2>5
    <3> QED
      BY <1>2, <2>1, <2>3, <3>1, <3>2 DEF Begun, ChatState
  <2> QED
    BY <2>4, <2>5
<1> HIDE DEF c, ended, next
<1>6. CASE calls = <<>>
  BY <1>1, <1>3, <1>4, <1>6, OneChat
<1>7. CASE calls # <<>>
  BY <1>1, <1>3, <1>5, <1>7, OneChat
<1> QED
  BY <1>6, <1>7

\* Every step of a chat with its backend.
LEMMA ConverseStep ==
    ASSUME WebInv, NEW r \in Chats, Converse(r), req' = req
    PROVE  WebInv'
<1> DEFINE c == chat[r]
<1>1. /\ c \in ChatState /\ (c.at # "none" => req[r].at = "handle")
      /\ detectedAPI \in {NoText, "ollama", "openai"}
  BY DEF WebInv, ChatInv, OtherTypes
<1>2. EffectiveAPI \in {"ollama", "openai"}
  BY <1>1 DEF EffectiveAPI
<1>3. OtherTypes'
  <2>1. UNCHANGED <<probe, detectedAPI, backend, changes>>
    BY DEF Converse, SendRound, SendFails, Chunk, EndNative, EndOpenAI, StreamFails
  <2> QED
    BY <2>1 DEF WebInv, OtherTypes
<1>a. \A d \in ChatState :
          c.at # "none" /\ chat' = [chat EXCEPT ![r] = d] => ChatInv'
  BY <1>1, OneChat DEF WebInv
<1> HIDE DEF c
<1>4. CASE SendRound(r)
  <2> DEFINE d == [at |-> EffectiveAPI, n |-> c.n, msgs |-> c.msgs,
                   prompt |-> c.prompt, pieces |-> <<>>]
  <2>1. c.at = "round" /\ chat' = [chat EXCEPT ![r] = d]
    BY <1>4 DEF SendRound, c
  <2>2. <<>> \in Seq(Piece)
    OBVIOUS
  <2>3. d \in ChatState
    BY <1>1, <1>2, <2>1, <2>2, SamePhase
  <2> HIDE DEF d
  <2> QED
    BY <1>3, <1>a, <2>1, <2>3 DEF WebInv
<1>5. CASE SendFails(r) \/ StreamFails(r)
  <2> DEFINE d == [at |-> "failed", n |-> c.n, msgs |-> c.msgs, prompt |-> c.prompt]
  <2>1. c.at \in {"round", "ollama", "openai"} /\ chat' = [chat EXCEPT ![r] = d]
    BY <1>5 DEF SendFails, StreamFails, Streaming, c
  <2>2. d \in ChatState
    BY <1>1, <2>1, SamePhase
  <2> HIDE DEF d
  <2> QED
    BY <1>3, <1>a, <2>1, <2>2 DEF WebInv
<1>6. ASSUME NEW p \in Deltas, Chunk(r, p) PROVE ChatInv'
  <2> DEFINE new == Append(c.pieces, p)
             d == [c EXCEPT !.pieces = new]
             e == [at |-> c.at, n |-> c.n, msgs |-> c.msgs, prompt |-> c.prompt,
                   pieces |-> new]
  <2>1. c.at \in {"ollama", "openai"} /\ chat' = [chat EXCEPT ![r] = d]
    BY <1>6 DEF Chunk, Streaming, c
  <2>2. p \in Piece
    <3>1. /\ p.index \in Nat /\ p.id \in Text /\ p.name \in Text /\ p.args \in Seq(Text)
          /\ p = [index |-> p.index, id |-> p.id, name |-> p.name, args |-> p.args]
      <4>1. p \in [index : Nat, id : STRING, name : STRING, args : Seq(STRING)]
        BY ChatAssumption
      <4>2. STRING \subseteq Text
        BY DEF Text
      <4>3. /\ p.index \in Nat /\ p.id \in STRING /\ p.name \in STRING /\ p.args \in Seq(STRING)
            /\ p = [index |-> p.index, id |-> p.id, name |-> p.name, args |-> p.args]
        BY ONLY <4>1
      <4> HIDE DEF Text
      <4>4. p.args \in Seq(Text)
        <5>1. \A k \in 1 .. Len(p.args) : p.args[k] \in Text
          <6>1. \A k \in 1 .. Len(p.args) : p.args[k] \in STRING
            BY ONLY <4>3
          <6> QED
            BY ONLY <4>2, <6>1
        <5>2. Len(p.args) \in Nat /\ p.args = [k \in 1 .. Len(p.args) |-> p.args[k]]
          BY ONLY <4>3
        <5> QED
          BY ONLY <5>1, <5>2
      <4> QED
        BY ONLY <4>2, <4>3, <4>4
    <3> QED
      BY <3>1 DEF Piece
  <2>3. new \in Seq(Piece)
    <3>1. c.pieces \in Seq(Piece)
      BY <1>1, <2>1, Phases
    <3> QED
      BY <2>2, <3>1, AppendProperties
  <2>4. d = e
    <3>1. c \in Begun /\ c.at \in {"ollama", "openai"}
      BY <1>1, <2>1 DEF ChatState, Silent
    <3> HIDE DEF new
    <3> QED
      BY <3>1 DEF Begun
  <2>5. e \in ChatState
    BY <1>1, <2>1, <2>3, SamePhase
  <2> HIDE DEF d, e
  <2> QED
    BY <1>a, <2>1, <2>4, <2>5
<1>7. CASE EndNative(r)
  <2>1. c.at = "ollama" /\ Continue(r, AssembleNative(c.pieces))
    BY <1>7 DEF EndNative, c
  <2>2. c.pieces \in Seq(Piece)
    BY <1>1, <2>1, Phases
  <2>3. AssembleNative(c.pieces) \in Seq(Call)
    BY <2>2, AssembleType
  <2> QED
    BY <1>3, <2>1, <2>3, ContinueStep DEF WebInv, c
<1>8. ASSUME NEW reason, EndOpenAI(r, reason) PROVE ChatInv'
  <2> DEFINE calls == IF reason = "tool_calls" THEN AssembleOpenAI(c.pieces) ELSE <<>>
  <2>1. c.at = "openai" /\ Continue(r, calls)
    BY <1>8 DEF EndOpenAI, c
  <2>2. c.pieces \in Seq(Piece)
    BY <1>1, <2>1, Phases
  <2>3. AssembleOpenAI(c.pieces) \in Seq(Call) /\ <<>> \in Seq(Call)
    BY <2>2, AssembleType
  <2>4. calls \in Seq(Call)
    BY <2>3
  <2> HIDE DEF calls
  <2> QED
    BY <2>1, <2>4, ContinueStep DEF WebInv, c
<1> QED
  BY <1>3, <1>4, <1>5, <1>6, <1>7, <1>8 DEF Converse, WebInv

\* What another request, a clean-up or a step of the server does leaves a
\* request in its handler.
LEMMA HandlersStay ==
    ASSUME SessionsInv,
           \/ \E q \in Requests : Serve(q)
           \/ \E t \in Issued : Read(t)
           \/ CleanupSessions \/ Load \/ Listen \/ Save \/ Drain \/ Tick,
           NEW r \in Requests, req[r].at = "handle"
    PROVE  req'[r].at = "handle"
<1>1. req \in [Requests -> RequestState]
  BY DEF SessionsInv, Types
<1>2. CASE \E q \in Requests : Serve(q)
  <2> PICK q \in Requests : Serve(q)
    BY <1>2
  <2>1. req[q].at # "handle"
    <3>1. req[q] = Idle \/ req[q].at \in {"user", "check", "csrf", "token", "logout token", "logout"}
      BY DEF Serve, Login, LoginUser, LoginFails, LoginSucceeds, Post, Logout,
             CheckSession, CheckToken, Revoke
    <3>2. Idle.at # "handle"
      BY DEF Idle
    <3> QED
      BY ONLY <3>1, <3>2
  <2>2. ASSUME r # q PROVE req'[r] = req[r]
    <3>1. CASE \E t \in Issued : Post(q, t)
      BY <1>1, <2>2, <3>1 DEF Post
    <3>2. CASE \E t \in Issued : Logout(q, t)
      BY <1>1, <2>2, <3>2 DEF Logout
    <3>3. CASE \E right \in BOOLEAN : CheckToken(q, right)
      BY <1>1, <2>2, <3>3 DEF CheckToken
    <3>4. CASE (\E ip \in IPs, u \in Users : Login(q, ip, u)) \/ LoginUser(q) \/ LoginFails(q)
      BY <1>1, <2>2, <3>4 DEF Login, LoginUser, LoginFails
    <3>5. CASE (\E t \in Tokens : LoginSucceeds(q, t)) \/ CheckSession(q) \/ Revoke(q)
      BY <1>1, <2>2, <3>5 DEF LoginSucceeds, CheckSession, Revoke
    <3> QED
      BY <3>1, <3>2, <3>3, <3>4, <3>5 DEF Serve
  <2> QED
    BY <2>1, <2>2
<1>3. CASE ~ \E q \in Requests : Serve(q)
  <2>1. req' = req
    BY <1>3 DEF Read, CleanupSessions, Load, Listen, Save, Drain, Tick, memory
  <2> QED
    BY <2>1
<1> QED
  BY <1>2, <1>3
-----------------------------------------------------------------------------
(* The steps of both.                                                      *)

\* Each step is one of the sessions, or leaves them alone.
LEMMA SessionsStep ==
    [Next]_vars => [SessionsNext]_sessionVars
BY DEF Next, Return, Chat, SessionsNext, Lifecycle, vars

LEMMA WebStep ==
    ASSUME SessionsInv, WebInv, [Next]_vars
    PROVE  WebInv'
<1> DEFINE Quiet == \/ \E q \in Requests : Serve(q)
                    \/ \E t \in Issued : Read(t)
                    \/ CleanupSessions \/ Load \/ Listen \/ Save \/ Drain \/ Tick
           Alone == \/ Accepts /\ bound.chats /\ \E p \in Probes : BeginProbe(p)
                    \/ \E p \in Probes : ProbeNative(p) \/ ProbeOpenAI(p) \/ Detected(p)
                    \/ bound.chats /\ \E b \in {"ollama", "openai", "down"} : BackendChanges(b)
<1>1. CASE Quiet /\ UNCHANGED chatVars
  <2> HIDE DEF Quiet
  <2>1. \A r \in Chats : req[r].at = "handle" => req'[r].at = "handle"
    BY <1>1, HandlersStay, WebAssumption DEF Quiet
  <2> QED
    BY <1>1, <2>1 DEF chatVars, WebInv, ChatInv, OtherTypes
<1>2. CASE (Exit \/ Crash \/ CrashInSave) /\ ChatsEnd
  <2>1. ChatInv'
    BY <1>2 DEF ChatsEnd, ChatInv, ChatState, Silent
  <2>2. OtherTypes'
    BY <1>2 DEF ChatsEnd, WebInv, OtherTypes
  <2> QED
    BY <2>1, <2>2 DEF WebInv
<1>3. ASSUME NEW r \in Requests, Chat(r) PROVE WebInv'
  <2>1. r \in Chats /\ req[r].at = "handle" /\ BeginChat(r) /\ req' = req
    BY <1>3 DEF Chat, sessionVars, memory
  <2>2. ChatInv'
    BY <2>1, BeginStep DEF WebInv
  <2>3. OtherTypes'
    BY <2>1 DEF BeginChat, WebInv, OtherTypes
  <2> QED
    BY <2>2, <2>3 DEF WebInv
<1>4. ASSUME NEW r \in Requests, Return(r) PROVE WebInv'
  <2>1. /\ chat' = [c \in Chats |-> IF c = r THEN Silent ELSE chat[c]]
        /\ \A q \in Requests : q # r => req'[q] = req[q]
    BY <1>4 DEF Return, Handled, SessionsInv, Types
  <2>2. ChatInv'
    BY <2>1, WebAssumption DEF WebInv, ChatInv, ChatState, Silent
  <2>3. OtherTypes'
    BY <1>4 DEF Return, WebInv, OtherTypes
  <2> QED
    BY <2>2, <2>3 DEF WebInv
<1>5. ASSUME NEW r \in Chats, Converse(r), UNCHANGED sessionVars PROVE WebInv'
  BY <1>5, ConverseStep DEF sessionVars, memory
<1>6. CASE Alone /\ UNCHANGED sessionVars
  <2>1. ChatInv'
    BY <1>6 DEF BeginProbe, ProbeNative, ProbeOpenAI, Detected, BackendChanges,
                WebInv, ChatInv, sessionVars, memory
  <2>2. OtherTypes'
    <3>1. ASSUME NEW p \in Probes, BeginProbe(p) \/ ProbeNative(p) \/ ProbeOpenAI(p) \/ Detected(p)
          PROVE  OtherTypes'
      BY <3>1 DEF BeginProbe, ProbeNative, ProbeOpenAI, Detected, WebInv, OtherTypes
    <3>2. ASSUME NEW b \in {"ollama", "openai", "down"}, BackendChanges(b)
          PROVE  OtherTypes'
      <4>1. MaxChanges \in Nat
        BY ChatAssumption
      <4>2. changes' \in 0 .. MaxChanges
        <5>1. changes \in 0 .. MaxChanges /\ changes < MaxChanges /\ changes' = changes + 1
          BY <3>2 DEF BackendChanges, WebInv, OtherTypes
        <5> QED
          BY ONLY <4>1, <5>1
      <4>3. backend' \in {"ollama", "openai", "down"}
        BY <3>2 DEF BackendChanges
      <4> QED
        BY <3>2, <4>1, <4>2, <4>3 DEF WebInv, OtherTypes, BackendChanges
    <3> QED
      BY <1>6, <3>1, <3>2
  <2> QED
    BY <2>1, <2>2 DEF WebInv
<1>7. CASE UNCHANGED vars
  BY <1>7 DEF vars, sessionVars, memory, chatVars, WebInv, ChatInv, OtherTypes
<1> HIDE DEF Quiet, Alone
<1> QED
  BY <1>1, <1>2, <1>3, <1>4, <1>5, <1>6, <1>7 DEF Next, Quiet, Alone

LEMMA WebStart ==
    Init => SessionsInit /\ WebInv
<1> SUFFICES ASSUME Init PROVE SessionsInit /\ WebInv
  OBVIOUS
<1>1. ChatInv
  BY DEF Init, ChatInit, ChatInv, ChatState, Silent
<1>2. OtherTypes
  <2>1. MaxChanges \in Nat
    BY ChatAssumption
  <2> QED
    BY <2>1 DEF Init, ChatInit, OtherTypes
<1> QED
  BY <1>1, <1>2 DEF Init, WebInv

\* The requests of the web server, the chats among them, are requests of
\* Sessions: whatever a chat does, the sessions keep their promises.
THEOREM SessionsKept ==
    Spec => SessionsSpec
BY WebStart, SessionsStep, PTL DEF Spec, SessionsSpec

LEMMA WebInvariant ==
    Spec => [](SessionsInv /\ WebInv)
<1>1. SessionsInv /\ WebInv /\ [Next]_vars => WebInv'
  BY WebStep
<1> QED
  BY <1>1, WebStart, SessionsKept, Invariant, PTL DEF Spec

\* The type invariant, and that only a request in its handler holds a chat.
THEOREM TypeCorrect ==
    Spec => []TypeOK
<1>1. SessionsTypeOK /\ WebInv => TypeOK
  <2> SUFFICES ASSUME SessionsTypeOK, WebInv PROVE TypeOK
    OBVIOUS
  <2>1. ASSUME NEW r \in Chats
        PROVE  /\ chat[r].at \in {"none", "round", "ollama", "openai", "done", "failed"}
               /\ chat[r].at # "none" => req[r].at = "handle" /\ chat[r].n \in 0 .. MaxRounds
    BY Phases DEF WebInv, ChatInv
  <2> QED
    BY <2>1 DEF WebInv, OtherTypes, TypeOK
<1> QED
  BY <1>1, WebInvariant, SessionsKept, SessionsTyped, PTL

\* handleOllamaChat and streamChat: however long the history is, whatever the
\* backend asks for and whichever API it speaks, the system prompt comes first
\* and once, and the user's prompt is the last turn before any tool.
THEOREM PromptKept ==
    Spec => []PromptFollowsHistory
<1>1. WebInv => PromptFollowsHistory
  BY Phases DEF WebInv, ChatInv, WellFormed, PromptFollowsHistory
<1> QED
  BY <1>1, WebInvariant, PTL

\* streamChat: each call has its results after it, and no result is without
\* its call, through any number of rounds.
THEOREM TurnsMatched ==
    Spec => []ToolTurnsMatched
<1>1. WebInv => ToolTurnsMatched
  BY Phases DEF WebInv, ChatInv, WellFormed, ToolTurnsMatched
<1> QED
  BY <1>1, WebInvariant, PTL

\* doStreamRoundOpenAI: any number of pieces, of any calls in any order, are put
\* together call by call, in as many places as indices were used; an index beyond
\* them is lost and a place whose index was not used is empty.
THEOREM CallsPutTogether ==
    Spec => []CallsAsStreamed
<1>1. WebInv => CallsAsStreamed
  <2> SUFFICES ASSUME WebInv, NEW r \in Chats, chat[r].at = "openai",
                      NEW used, used = {chat[r].pieces[k].index : k \in 1 .. Len(chat[r].pieces)}
               PROVE  /\ Len(AssembleOpenAI(chat[r].pieces)) = Cardinality(used)
                      /\ \A j \in 1 .. Len(AssembleOpenAI(chat[r].pieces)) :
                             AssembleOpenAI(chat[r].pieces)[j]
                                 = IF j - 1 \in used
                                   THEN CallOf(PiecesOf(chat[r].pieces, j - 1))
                                   ELSE NoCall
    BY DEF CallsAsStreamed
  <2>1. chat[r].pieces \in Seq(Piece)
    BY Phases DEF WebInv, ChatInv
  <2>2. used = {chat[r].pieces[k].index : k \in 1 .. Len(chat[r].pieces)}
    OBVIOUS
  <2> QED
    BY ONLY <2>1, <2>2, StreamedCalls
<1> QED
  BY <1>1, WebInvariant, PTL
=============================================================================
