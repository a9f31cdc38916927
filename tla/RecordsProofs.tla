---------------------------- MODULE RecordsProofs ----------------------------
(***************************************************************************)
(* Theorems about Records, Aggregation and Codec for any samples, ratios   *)
(* and versions: what a file holds of a sample is read back from it, by    *)
(* today's version and by the earlier ones; and what is answered from a    *)
(* roll-up of roll-ups bounds the samples behind it.                       *)
(*                                                                         *)
(* The parts: sections of a payload; samples, blocks and records, written  *)
(* and read; averages, merges and roll-ups; the files (FileInv); answers   *)
(* (AnswerInv); gauges through a roll-up; the history (HistoryInv).        *)
(***************************************************************************)
EXTENDS Records, LoopProofs

\* The fields of a sample.
Fields ==
    {"ts", "usage", "irq", "used", "running", "users", "ifaces", "sensors", "disks",
     "fs", "host", "gpu", "nginx", "containers", "postgres", "mysql", "apache2", "custom",
     "retrans", "psu"}

\* Those that no file holds.
Unstored == {"retrans", "psu"}

\* The lists of named values, the custom groups, and the samples.
List == Seq(NamedValue)
Custom == UNION {[groups -> List] : groups \in SUBSET Groups}
Sample == UNION {SampleWith(groups) : groups \in SUBSET Groups}

\* A function of the fields, each of its type.
HasFields(s) ==
    /\ s = [x \in Fields |-> s[x]]
    /\ s["ts"] \in Nat /\ s["usage"] \in Int /\ s["irq"] \in Int /\ s["used"] \in Int
    /\ s["running"] \in Nat /\ s["users"] \in Nat
    /\ s["ifaces"] \in List /\ s["sensors"] \in List /\ s["disks"] \in Seq(Device)
    /\ s["fs"] \in List /\ s["host"] \in STRING /\ s["gpu"] \in List
    /\ s["nginx"] \in App(1) /\ s["containers"] \in List /\ s["postgres"] \in App(2)
    /\ s["mysql"] \in App(1) /\ s["apache2"] \in App(2) /\ s["custom"] \in Custom
    /\ s["retrans"] \in Int /\ s["psu"] \in List

(* The samples are the functions whose fields have their types. *)
LEMMA SampleIs ==
    ASSUME NEW s
    PROVE  s \in Sample <=> HasFields(s)
  <1>1. ASSUME s \in Sample PROVE HasFields(s)
    <2> PICK groups \in SUBSET Groups : s \in SampleWith(groups)
      BY <1>1 DEF Sample
    <2>1. s = [x \in Fields |-> s[x]]
      BY DEF SampleWith, Fields
    <2>2. s["custom"] \in Custom
      BY DEF SampleWith, Custom, List
    <2> QED
      BY <2>1, <2>2 DEF SampleWith, HasFields, List
  <1>2. ASSUME HasFields(s) PROVE s \in Sample
    <2> PICK groups \in SUBSET Groups : s["custom"] \in [groups -> List]
      BY <1>2 DEF HasFields, Custom
    <2>1. s \in SampleWith(groups)
      BY <1>2 DEF SampleWith, HasFields, Fields, List
    <2> QED
      BY <2>1 DEF Sample
  <1> QED
    BY <1>1, <1>2

-----------------------------------------------------------------------------
(* Sections: what is written, and what is read at its place.                *)

\* What a section is made of: numbers and texts.
Cell == Int \union STRING

\* The cells are in the data from place o on.
At(d, o, cells) ==
    /\ \A i \in 1 .. Len(cells) : d[o + i - 1] = cells[i]
    /\ o + Len(cells) <= Len(d) + 1

(* One section after another. *)
LEMMA AtConcat ==
    ASSUME NEW C, NEW a \in Seq(C), NEW b \in Seq(C), NEW D, NEW d \in Seq(D),
           NEW o \in Nat, At(d, o, a \o b)
    PROVE  At(d, o, a) /\ At(d, o + Len(a), b) /\ Len(a \o b) = Len(a) + Len(b)
  <1> PICK m, n, ab : m = Len(a) /\ n = Len(b) /\ ab = a \o b
    OBVIOUS
  <1>1. /\ m \in Nat /\ n \in Nat /\ Len(ab) = m + n
        /\ \A i \in 1 .. m + n : ab[i] = IF i <= m THEN a[i] ELSE b[i - m]
    BY ConcatProperties
  <1>2. Len(d) \in Nat /\ o + m + n <= Len(d) + 1 /\ \A i \in 1 .. m + n : d[o + i - 1] = ab[i]
    BY <1>1 DEF At
  <1>3. \A i \in 1 .. m : d[o + i - 1] = a[i]
    <2> TAKE i \in 1 .. m
    <2>1. i \in 1 .. m + n /\ i <= m
      BY <1>1
    <2> QED
      BY <1>1, <1>2, <2>1
  <1>4. \A i \in 1 .. n : d[(o + m) + i - 1] = b[i]
    <2> TAKE i \in 1 .. n
    <2>1. m + i \in 1 .. m + n /\ ~(m + i <= m) /\ (m + i) - m = i /\ o + (m + i) - 1 = (o + m) + i - 1
      BY <1>1
    <2> QED
      BY <1>1, <1>2, <2>1
  <1>5. o + m <= Len(d) + 1 /\ (o + m) + n <= Len(d) + 1
    BY <1>1, <1>2
  <1>6. At(d, o, a)
    BY <1>3, <1>5 DEF At
  <1>7. At(d, o + m, b)
    BY <1>4, <1>5 DEF At
  <1> QED
    BY <1>1, <1>6, <1>7

(* Parts that are joined are one after the other in the data. *)
LEMMA JoinedAt ==
    ASSUME NEW C, NEW parts \in Seq(Seq(C)), NEW f \in Joinings(C, parts),
           NEW D, NEW d \in Seq(D), NEW o \in Nat, At(d, o, Joined(parts))
    PROVE  /\ \A k \in 1 .. Len(parts) : At(d, o + Len(f[k - 1]), parts[k])
           /\ \A k \in 1 .. Len(parts) : Len(f[k]) = Len(f[k - 1]) + Len(parts[k])
  <1> DEFINE n == Len(parts)
             Good == {m \in 0 .. n : At(d, o, f[n - m])}
  <1>1. n \in Nat /\ \A k \in 1 .. n : parts[k] \in Seq(C)
    OBVIOUS
  <1>2. /\ f \in [0 .. n -> Seq(C)] /\ f[0] = <<>> /\ Joined(parts) = f[n]
        /\ \A k \in 1 .. n : f[k] = Cat(f[k - 1], parts[k])
    BY DEF Joinings
  <1> HIDE DEF n
  <1>3. \A k \in 1 .. n : /\ f[k - 1] \in Seq(C) /\ f[k] = f[k - 1] \o parts[k]
    <2> TAKE k \in 1 .. n
    <2>1. k - 1 \in 0 .. n
      BY <1>1
    <2> QED
      BY <1>2, <2>1 DEF Cat
  <1>4. ASSUME NEW k \in 1 .. n, At(d, o, f[k])
        PROVE  /\ At(d, o, f[k - 1])
               /\ At(d, o + Len(f[k - 1]), parts[k])
    <2>1. f[k - 1] \in Seq(C) /\ parts[k] \in Seq(C) /\ At(d, o, f[k - 1] \o parts[k])
      BY <1>1, <1>3, <1>4
    <2> QED
      BY <2>1, AtConcat
  <1>5. 0 \in Good
    BY <1>1, <1>2
  <1>6. ASSUME NEW m \in 1 .. n, m - 1 \in Good PROVE m \in Good
    <2>1. n - (m - 1) \in 1 .. n /\ (n - (m - 1)) - 1 = n - m /\ m \in 0 .. n
      BY <1>1
    <2>2. At(d, o, f[n - (m - 1)])
      BY <1>6
    <2>3. At(d, o, f[(n - (m - 1)) - 1])
      BY <1>4, <2>1, <2>2
    <2> QED
      BY <2>1, <2>3
  <1> HIDE DEF Good
  <1>7. \A m \in 0 .. n : m \in Good
    BY <1>1, <1>5, <1>6, UpTo
  <1>8. ASSUME NEW k \in 1 .. n PROVE At(d, o, f[k])
    <2>1. n - k \in 0 .. n /\ n - (n - k) = k
      BY <1>1
    <2> QED
      BY <1>7, <2>1 DEF Good
  <1>9. \A k \in 1 .. n : Len(f[k]) = Len(f[k - 1]) + Len(parts[k])
    <2> TAKE k \in 1 .. n
    <2>1. f[k - 1] \in Seq(C) /\ parts[k] \in Seq(C) /\ f[k] = f[k - 1] \o parts[k]
      BY <1>1, <1>3
    <2> QED
      BY <2>1, ConcatProperties
  <1> QED
    BY <1>4, <1>8, <1>9 DEF n

\* The cells of each entry of a list.
EntryCells(list) == [i \in 1 .. Len(list) |-> <<list[i].name, list[i].value>>]

(* A list of named values is its count and the cells of its entries. *)
LEMMA NamedType ==
    ASSUME NEW list \in List
    PROVE  /\ EntryCells(list) \in Seq(Seq(Cell))
           /\ Joined(EntryCells(list)) \in Seq(Cell)
           /\ <<Len(list)>> \in Seq(Cell)
           /\ Named(list) \in Seq(Cell)
           /\ Len(Named(list)) = 1 + Len(Joined(EntryCells(list)))
  <1>1. Len(list) \in Nat /\ \A i \in 1 .. Len(list) : list[i] \in NamedValue
    BY DEF List
  <1>2. \A i \in 1 .. Len(list) : <<list[i].name, list[i].value>> \in Seq(Cell)
    BY <1>1 DEF NamedValue, Cell
  <1>3. EntryCells(list) \in Seq(Seq(Cell))
    BY <1>1, <1>2 DEF EntryCells
  <1>4. Joined(EntryCells(list)) \in Seq(Cell)
    <2> PICK f \in Joinings(Cell, EntryCells(list)) : TRUE
      BY <1>3, JoinedLoop
    <2>1. Len(EntryCells(list)) \in Nat
      BY <1>3
    <2> QED
      BY <2>1 DEF Joinings
  <1>5. <<Len(list)>> \in Seq(Cell)
    BY <1>1 DEF Cell
  <1>6. Named(list) = <<Len(list)>> \o Joined(EntryCells(list))
    BY DEF Named, EntryCells
  <1> QED
    BY <1>3, <1>4, <1>5, <1>6, ConcatProperties

(* A list of names and values. *)
LEMMA NamedRead ==
    ASSUME NEW list \in List, NEW D, NEW d \in Seq(D), NEW o \in Nat, At(d, o, Named(list))
    PROVE  NamedAt(d, o) = [value |-> list, end |-> o + Len(Named(list))]
  <1> DEFINE n == Len(list)
             parts == EntryCells(list)
  <1>1. n \in Nat /\ \A i \in 1 .. n : list[i] \in NamedValue
    BY DEF List
  <1>2. /\ parts \in Seq(Seq(Cell)) /\ Len(parts) = n
        /\ \A i \in 1 .. n : parts[i] = <<list[i].name, list[i].value>> /\ Len(parts[i]) = 2
    <2>1. parts \in Seq(Seq(Cell))
      BY NamedType
    <2>2. Len(parts) = n /\ \A i \in 1 .. n : parts[i] = <<list[i].name, list[i].value>>
      BY <1>1 DEF EntryCells
    <2>3. \A x, y : Len(<<x, y>>) = 2
      OBVIOUS
    <2> QED
      BY <2>1, <2>2, <2>3
  <1>3. PICK f \in Joinings(Cell, parts) : TRUE
    BY <1>2, JoinedLoop
  <1>4. /\ f \in [0 .. n -> Seq(Cell)] /\ f[0] = <<>> /\ Joined(parts) = f[n]
    BY <1>2, <1>3 DEF Joinings
  <1> HIDE DEF n, parts
  <1>5. At(d, o, <<n>>) /\ At(d, o + 1, Joined(parts)) /\ Len(Named(list)) = 1 + Len(Joined(parts))
    <2>1. Named(list) = <<n>> \o Joined(parts)
      BY DEF Named, EntryCells, n, parts
    <2>2. <<n>> \in Seq(Cell) /\ Joined(parts) \in Seq(Cell) /\ Len(<<n>>) = 1
      BY NamedType DEF n, parts
    <2>3. At(d, o, <<n>>) /\ At(d, o + Len(<<n>>), Joined(parts))
      BY <2>1, <2>2, AtConcat
    <2> QED
      BY <2>2, <2>3, NamedType DEF parts
  <1>6. d[o] = n
    BY <1>5 DEF At
  <1>7. o + 1 \in Nat
    OBVIOUS
  <1>8. /\ \A k \in 1 .. n : At(d, o + 1 + Len(f[k - 1]), parts[k])
        /\ \A k \in 1 .. n : Len(f[k]) = Len(f[k - 1]) + Len(parts[k])
    BY <1>2, <1>3, <1>5, <1>7, JoinedAt
  <1>9. \A k \in 0 .. n : Len(f[k]) = 2 * k
    <2> DEFINE Good == {k \in 0 .. n : Len(f[k]) = 2 * k}
    <2>1. 0 \in Good
      BY <1>1, <1>4
    <2>2. ASSUME NEW k \in 1 .. n, k - 1 \in Good PROVE k \in Good
      <3>1. Len(parts[k]) = 2 /\ k \in 0 .. n
        BY <1>1, <1>2
      <3>2. Len(f[k]) = Len(f[k - 1]) + Len(parts[k])
        BY <1>8
      <3>3. Len(f[k - 1]) = 2 * (k - 1)
        BY <2>2
      <3> QED
        BY <3>1, <3>2, <3>3
    <2> HIDE DEF Good
    <2>3. \A k \in 0 .. n : k \in Good
      BY <1>1, <2>1, <2>2, UpTo
    <2> QED
      BY <2>3 DEF Good
  <1>10. ASSUME NEW i \in 1 .. n
         PROVE  [name |-> d[o + 2 * i - 1], value |-> d[o + 2 * i]] = list[i]
    <2>1. At(d, o + 1 + Len(f[i - 1]), parts[i]) /\ parts[i] = <<list[i].name, list[i].value>>
      BY <1>2, <1>8
    <2>2. Len(f[i - 1]) = 2 * (i - 1)
      BY <1>1, <1>9
    <2>3. At(d, o + 2 * i - 1, <<list[i].name, list[i].value>>)
      BY <1>1, <2>1, <2>2
    <2>4. d[o + 2 * i - 1] = list[i].name /\ d[o + 2 * i] = list[i].value
      <3>1. \A j \in 1 .. 2 : d[(o + 2 * i - 1) + j - 1] = <<list[i].name, list[i].value>>[j]
        BY <2>3 DEF At
      <3>2. (o + 2 * i - 1) + 1 - 1 = o + 2 * i - 1 /\ (o + 2 * i - 1) + 2 - 1 = o + 2 * i
        BY <1>1
      <3> QED
        BY <3>1, <3>2
    <2>5. list[i] \in NamedValue
      BY <1>1
    <2> QED
      BY <2>4, <2>5 DEF NamedValue
  <1>11. [i \in 1 .. n |-> [name |-> d[o + 2 * i - 1], value |-> d[o + 2 * i]]] = list
    <2>1. list = [i \in 1 .. n |-> list[i]]
      BY DEF List, n
    <2> QED
      BY <1>10, <2>1
  <1>12. Len(Named(list)) = 1 + 2 * n
    <2>1. n \in 0 .. n
      BY <1>1
    <2> QED
      BY <1>4, <1>5, <1>9, <2>1
  <1>13. NamedAt(d, o) =
            [value |-> [i \in 1 .. n |-> [name |-> d[o + 2 * i - 1], value |-> d[o + 2 * i]]],
             end |-> o + 1 + 2 * n]
    BY <1>6, Zenon DEF NamedAt
  <1>14. o + Len(Named(list)) = o + 1 + 2 * n
    BY <1>1, <1>12
  <1> QED
    BY <1>11, <1>13, <1>14, Zenon

(* A number or a string. *)
LEMMA CellRead ==
    ASSUME NEW c \in Cell, NEW D, NEW d \in Seq(D), NEW o \in Nat, At(d, o, <<c>>)
    PROVE  CellAt(d, o) = [value |-> c, end |-> o + 1] /\ d[o] = c
  <1>1. Len(<<c>>) = 1 /\ <<c>>[1] = c
    OBVIOUS
  <1>2. d[o + 1 - 1] = c
    BY <1>1 DEF At
  <1>3. d[o] = c
    BY <1>2
  <1> QED
    BY <1>3, Zenon DEF CellAt

\* The cells of each disk.
DiskParts(disks) ==
    [i \in 1 .. Len(disks) |-> <<disks[i].name, disks[i].value>> \o Named(disks[i].temps)]

(* The disks are their count and, for each, name, value and sensors. *)
LEMMA DiskType ==
    ASSUME NEW disks \in Seq(Device)
    PROVE  /\ DiskParts(disks) \in Seq(Seq(Cell))
           /\ Joined(DiskParts(disks)) \in Seq(Cell)
           /\ <<Len(disks)>> \in Seq(Cell)
           /\ DiskCells(disks) \in Seq(Cell)
           /\ Len(DiskCells(disks)) = 1 + Len(Joined(DiskParts(disks)))
           /\ \A i \in 1 .. Len(disks) :
                  /\ <<disks[i].name, disks[i].value>> \in Seq(Cell)
                  /\ Len(<<disks[i].name, disks[i].value>>) = 2
                  /\ disks[i].temps \in List
                  /\ Named(disks[i].temps) \in Seq(Cell)
  <1>1. Len(disks) \in Nat /\ \A i \in 1 .. Len(disks) : disks[i] \in Device
    OBVIOUS
  <1>2. ASSUME NEW i \in 1 .. Len(disks)
        PROVE  /\ <<disks[i].name, disks[i].value>> \in Seq(Cell)
               /\ Len(<<disks[i].name, disks[i].value>>) = 2
               /\ disks[i].temps \in List
               /\ Named(disks[i].temps) \in Seq(Cell)
    <2>1. disks[i].name \in Cell /\ disks[i].value \in Cell /\ disks[i].temps \in List
      BY <1>1 DEF Device, Cell, List
    <2>2. Named(disks[i].temps) \in Seq(Cell)
      BY <2>1, NamedType
    <2>3. \A x, y \in Cell : <<x, y>> \in Seq(Cell) /\ Len(<<x, y>>) = 2
      OBVIOUS
    <2> QED
      BY <2>1, <2>2, <2>3
  <1>3. \A i \in 1 .. Len(disks) :
            <<disks[i].name, disks[i].value>> \o Named(disks[i].temps) \in Seq(Cell)
    BY <1>2, ConcatProperties
  <1>4. DiskParts(disks) \in Seq(Seq(Cell))
    BY <1>1, <1>3 DEF DiskParts
  <1>5. Joined(DiskParts(disks)) \in Seq(Cell)
    <2> PICK f \in Joinings(Cell, DiskParts(disks)) : TRUE
      BY <1>4, JoinedLoop
    <2>1. Len(DiskParts(disks)) \in Nat
      BY <1>4
    <2> QED
      BY <2>1 DEF Joinings
  <1>6. <<Len(disks)>> \in Seq(Cell)
    BY <1>1 DEF Cell
  <1>7. DiskCells(disks) = <<Len(disks)>> \o Joined(DiskParts(disks))
    BY DEF DiskCells, DiskParts
  <1> QED
    BY <1>2, <1>4, <1>5, <1>6, <1>7, ConcatProperties

(* The disks, whose entries have lists of their own. *)
LEMMA DisksRead ==
    ASSUME NEW disks \in Seq(Device), NEW D, NEW d \in Seq(D), NEW o \in Nat,
           At(d, o, DiskCells(disks))
    PROVE  DisksAt(d, o) = [value |-> disks, end |-> o + Len(DiskCells(disks))]
  <1> DEFINE n == Len(disks)
             parts == DiskParts(disks)
  <1>1. n \in Nat /\ \A i \in 1 .. n : disks[i] \in Device
    OBVIOUS
  <1>2. parts \in Seq(Seq(Cell))
    BY DiskType
  <1>3. Len(parts) = n /\ \A i \in 1 .. n : parts[i] = <<disks[i].name, disks[i].value>> \o Named(disks[i].temps)
    BY <1>1 DEF DiskParts
  <1>4. PICK f \in Joinings(Cell, parts) : TRUE
    BY <1>2, JoinedLoop
  <1>5. /\ f \in [0 .. n -> Seq(Cell)] /\ f[0] = <<>> /\ Joined(parts) = f[n]
    BY <1>3, <1>4 DEF Joinings
  <1>6. \A i \in 0 .. n : Len(f[i]) \in Nat
    BY <1>5
  <1>7. At(d, o, <<n>>) /\ At(d, o + 1, Joined(parts))
    <2>1. DiskCells(disks) = <<n>> \o Joined(parts)
      BY DEF DiskCells, DiskParts
    <2>2. <<n>> \in Seq(Cell) /\ Joined(parts) \in Seq(Cell) /\ Len(<<n>>) = 1
      BY DiskType
    <2>3. At(d, o, <<n>>) /\ At(d, o + Len(<<n>>), Joined(parts))
      BY <2>1, <2>2, AtConcat
    <2> QED
      BY <2>2, <2>3
  <1>8. d[o] = n
    <2>1. n \in Cell
      BY <1>1 DEF Cell
    <2> QED
      BY <1>7, <2>1, CellRead
  <1>9. /\ \A k \in 1 .. n : At(d, o + 1 + Len(f[k - 1]), parts[k])
        /\ \A k \in 1 .. n : Len(f[k]) = Len(f[k - 1]) + Len(parts[k])
    <2>1. o + 1 \in Nat
      OBVIOUS
    <2> HIDE DEF n, parts
    <2> QED
      BY <1>2, <1>3, <1>4, <1>7, <2>1, JoinedAt
  <1> DEFINE end(k) == o + 1 + Len(f[k])
             Round(r) ==
                 LET at == r.end
                     temps == NamedAt(d, at + 2)
                 IN [value |-> Append(r.value,
                         [name |-> d[at], value |-> d[at + 1], temps |-> temps.value]),
                     end |-> temps.end]
             Step(g) == [k \in 0 .. d[o] |->
                            IF k = 0 THEN [value |-> <<>>, end |-> o + 1]
                            ELSE Round(g[k - 1])]
             w == [k \in 0 .. n |-> [value |-> SubSeq(disks, 1, k), end |-> end(k)]]
  <1>10. ASSUME NEW k \in 1 .. n
         PROVE  Round([value |-> SubSeq(disks, 1, k - 1), end |-> end(k - 1)])
                    = [value |-> SubSeq(disks, 1, k), end |-> end(k)]
    <2> DEFINE at == end(k - 1)
               temps == disks[k].temps
               head == <<disks[k].name, disks[k].value>>
    <2>1. at \in Nat /\ at + 2 \in Nat /\ Len(f[k - 1]) \in Nat
      <3>1. k - 1 \in 0 .. n
        BY <1>1
      <3>2. Len(f[k - 1]) \in Nat
        BY <1>6, <3>1
      <3> PICK x : x = Len(f[k - 1])
        OBVIOUS
      <3>3. at = o + 1 + x /\ x \in Nat
        BY <3>2
      <3> HIDE DEF at
      <3>4. at \in Nat /\ at + 2 \in Nat
        BY ONLY <3>3, o \in Nat
      <3> QED
        BY <3>2, <3>4
    <2>2. head \in Seq(Cell) /\ Len(head) = 2 /\ temps \in List /\ Named(temps) \in Seq(Cell)
      BY DiskType
    <2>3. At(d, at, head \o Named(temps))
      BY <1>3, <1>9
    <2> HIDE DEF at
    <2>4. At(d, at, head) /\ At(d, at + 2, Named(temps)) /\ Len(head \o Named(temps)) = 2 + Len(Named(temps))
      <3> HIDE DEF head, temps
      <3> QED
        BY <2>1, <2>2, <2>3, AtConcat
    <2>5. NamedAt(d, at + 2) = [value |-> temps, end |-> at + 2 + Len(Named(temps))]
      <3> HIDE DEF temps
      <3> QED
        BY <2>1, <2>2, <2>4, NamedRead
    <2>6. d[at] = disks[k].name /\ d[at + 1] = disks[k].value
      <3>1. \A j \in 1 .. 2 : d[at + j - 1] = <<disks[k].name, disks[k].value>>[j]
        BY <2>2, <2>4 DEF At
      <3>2. at + 1 - 1 = at /\ at + 2 - 1 = at + 1
        BY <2>1
      <3> QED
        BY <3>1, <3>2
    <2>7. [name |-> d[at], value |-> d[at + 1], temps |-> temps] = disks[k]
      BY <1>1, <2>6 DEF Device
    <2>8. Append(SubSeq(disks, 1, k - 1), disks[k]) = SubSeq(disks, 1, k)
      BY <1>1
    <2>9. at + 2 + Len(Named(temps)) = end(k)
      <3>1. Len(f[k]) = Len(f[k - 1]) + (2 + Len(Named(temps)))
        BY <1>3, <1>9, <2>4
      <3>2. Len(f[k - 1]) \in Nat /\ Len(Named(temps)) \in Nat
        BY <2>1, <2>2
      <3>3. at = o + 1 + Len(f[k - 1]) /\ end(k) = o + 1 + Len(f[k])
        BY DEF at
      <3> PICK x, y, z, e, b :
              x = Len(f[k - 1]) /\ y = Len(Named(temps)) /\ z = Len(f[k]) /\ e = end(k) /\ b = at
        OBVIOUS
      <3>4. x \in Nat /\ y \in Nat /\ z = x + (2 + y) /\ b = o + 1 + x /\ e = o + 1 + z
        BY <3>1, <3>2, <3>3
      <3>5. b + 2 + y = e
        BY ONLY <3>4, o \in Nat
      <3> QED
        BY <3>5
    <2> HIDE DEF end
    <2>10. Round([value |-> SubSeq(disks, 1, k - 1), end |-> at])
             = [value |-> Append(SubSeq(disks, 1, k - 1),
                         [name |-> d[at], value |-> d[at + 1], temps |-> temps]),
                end |-> at + 2 + Len(Named(temps))]
      <3> PICK r, s : r = [value |-> s, end |-> at] /\ s = SubSeq(disks, 1, k - 1)
        OBVIOUS
      <3>1. r.end = at /\ r.value = s
        OBVIOUS
      <3>2. PICK t : t = NamedAt(d, at + 2)
        OBVIOUS
      <3>3. t.value = temps /\ t.end = at + 2 + Len(Named(temps))
        BY <2>5, <3>2
      <3>4. Round(r) = [value |-> Append(r.value,
                             [name |-> d[r.end], value |-> d[r.end + 1], temps |-> t.value]),
                        end |-> t.end]
        BY <3>1, <3>2
      <3> QED
        BY <3>1, <3>3, <3>4
    <2>11. Round([value |-> SubSeq(disks, 1, k - 1), end |-> at])
             = [value |-> SubSeq(disks, 1, k), end |-> end(k)]
      BY <2>7, <2>8, <2>9, <2>10, Zenon
    <2> QED
      BY <2>11 DEF at
  <1>11. SubSeq(disks, 1, 0) = <<>> /\ SubSeq(disks, 1, n) = disks
    BY <1>1
  <1>12. end(0) = o + 1
    BY <1>5
  <1> HIDE DEF end, Round, n
  <1>13. w = Step(w)
    <2>1. ASSUME NEW k \in 0 .. n PROVE w[k] = Step(w)[k]
      <3>1. CASE k = 0
        BY <1>1, <1>8, <1>11, <1>12, <3>1
      <3>2. CASE k # 0
        <4>1. k \in 1 .. n /\ k - 1 \in 0 .. n
          BY <1>1, <3>2
        <4>2. w[k - 1] = [value |-> SubSeq(disks, 1, k - 1), end |-> end(k - 1)]
          BY <4>1
        <4>3. Step(w)[k] = Round(w[k - 1])
          BY <1>8, <3>2
        <4> QED
          BY <1>10, <4>1, <4>2, <4>3
      <3> QED
        BY <3>1, <3>2
    <2> QED
      BY <1>8, <2>1
  <1> DEFINE g == CHOOSE h : h = Step(h)
  <1>14. g = Step(g)
    BY <1>13
  <1>15. DisksAt(d, o) = g[n]
    <2>1. DisksAt(d, o) = g[d[o]]
      BY DEF DisksAt, Round
    <2> QED
      BY <1>8, <2>1
  <1>16. g[0] = w[0] /\ \A k \in 1 .. n : g[k] = Round(g[k - 1]) /\ w[k] = Round(w[k - 1])
    <2>1. \A k \in 0 .. n : w[k] = Step(w)[k] /\ g[k] = Step(g)[k]
      BY <1>13, <1>14
    <2>2. \A k \in 1 .. n : k \in 0 .. n /\ k # 0
      BY <1>1
    <2> HIDE DEF g, w
    <2>3. Step(w)[0] = Step(g)[0] /\ 0 \in 0 .. n
      BY <1>1, <1>8
    <2>4. \A k \in 1 .. n : Step(w)[k] = Round(w[k - 1]) /\ Step(g)[k] = Round(g[k - 1])
      BY <1>8, <2>2
    <2> QED
      BY <2>1, <2>2, <2>3, <2>4
  <1> HIDE DEF g, w, Step
  <1> DEFINE Same == {k \in 0 .. n : g[k] = w[k]}
  <1>17. 0 \in Same
    BY <1>1, <1>16
  <1>18. ASSUME NEW k \in 1 .. n, k - 1 \in Same PROVE k \in Same
    BY <1>1, <1>16, <1>18
  <1> HIDE DEF Same
  <1>19. \A k \in 0 .. n : k \in Same
    BY <1>1, <1>17, <1>18, UpTo
  <1>20. g[n] = w[n] /\ n \in 0 .. n
    BY <1>1, <1>19 DEF Same
  <1>21. end(n) = o + Len(DiskCells(disks))
    <2>1. Len(DiskCells(disks)) = 1 + Len(Joined(parts)) /\ Len(Joined(parts)) \in Nat
      BY DiskType
    <2>2. end(n) = o + 1 + Len(Joined(parts))
      BY <1>5, Zenon DEF end
    <2> QED
      BY <2>1, <2>2
  <1> QED
    BY <1>11, <1>15, <1>20, <1>21 DEF w

\* The groups that are written, and their cells.
GroupsOf(custom) ==
    Kept(GroupOrder, {i \in 1 .. Len(GroupOrder) : GroupOrder[i] \in DOMAIN custom})
\* The cells of each group: its name and its list.
GroupParts(custom) ==
    [i \in 1 .. Len(GroupsOf(custom)) |->
        <<GroupsOf(custom)[i]>> \o Named(custom[GroupsOf(custom)[i]])]

(* All the groups are written, and no others. *)
LEMMA GroupsAll ==
    ASSUME NEW custom \in Custom
    PROVE  /\ GroupsOf(custom) \in Seq(STRING)
           /\ {GroupsOf(custom)[i] : i \in 1 .. Len(GroupsOf(custom))} = DOMAIN custom
           /\ custom = [g \in DOMAIN custom |-> custom[g]]
           /\ \A g \in DOMAIN custom : custom[g] \in List
  <1> DEFINE keep == {i \in 1 .. Len(GroupOrder) : GroupOrder[i] \in DOMAIN custom}
             G == GroupsOf(custom)
  <1>1. PICK groups \in SUBSET Groups : custom \in [groups -> List]
    BY DEF Custom
  <1>2. DOMAIN custom = groups
    BY <1>1
  <1>3. GroupOrder \in Seq(STRING)
    BY SamplesAssumption
  <1>4. G = Kept(GroupOrder, keep)
    BY DEF GroupsOf
  <1>5. G \in Seq(STRING)
    BY <1>3, <1>4, KeptType
  <1>6. ASSUME NEW j \in 1 .. Len(G) PROVE G[j] \in DOMAIN custom
    <2> PICK K : K = keep
      OBVIOUS
    <2>1. G = Kept(GroupOrder, K)
      BY <1>4
    <2> HIDE DEF G, keep
    <2>2. PICK i \in K : i \in 1 .. Len(GroupOrder) /\ Kept(GroupOrder, K)[j] = GroupOrder[i]
      BY <1>3, <2>1, KeptFrom
    <2> QED
      BY <2>1, <2>2 DEF keep
  <1>7. ASSUME NEW g \in DOMAIN custom PROVE \E j \in 1 .. Len(G) : G[j] = g
    <2>1. PICK i \in 1 .. Len(GroupOrder) : g = GroupOrder[i]
      BY <1>2 DEF Groups
    <2>2. i \in keep /\ keep \in SUBSET (1 .. Len(GroupOrder))
      BY <2>1
    <2> HIDE DEF keep
    <2>3. PICK p \in Places(GroupOrder, keep) : TRUE
      BY <1>3, <2>2, KeptPlaces
    <2>4. p[i] \in 1 .. Len(Kept(GroupOrder, keep)) /\ Kept(GroupOrder, keep)[p[i]] = GroupOrder[i]
      BY <2>2, <2>3 DEF Places
    <2> QED
      BY <1>4, <2>1, <2>4
  <1> HIDE DEF G
  <1>8. {G[i] : i \in 1 .. Len(G)} = DOMAIN custom
    BY <1>6, <1>7
  <1> QED
    BY <1>1, <1>2, <1>5, <1>8 DEF G

(* The groups are their count and the cells of each. *)
LEMMA CustomType ==
    ASSUME NEW custom \in Custom
    PROVE  /\ GroupParts(custom) \in Seq(Seq(Cell))
           /\ Joined(GroupParts(custom)) \in Seq(Cell)
           /\ <<Len(GroupsOf(custom))>> \in Seq(Cell)
           /\ CustomCells(custom) \in Seq(Cell)
           /\ CustomCells(custom) = <<Len(GroupsOf(custom))>> \o Joined(GroupParts(custom))
           /\ Len(CustomCells(custom)) = 1 + Len(Joined(GroupParts(custom)))
           /\ \A i \in 1 .. Len(GroupsOf(custom)) :
                  /\ GroupsOf(custom)[i] \in Cell
                  /\ <<GroupsOf(custom)[i]>> \in Seq(Cell)
                  /\ custom[GroupsOf(custom)[i]] \in List
                  /\ Named(custom[GroupsOf(custom)[i]]) \in Seq(Cell)
  <1> PICK G : G = GroupsOf(custom)
    OBVIOUS
  <1>1. /\ G \in Seq(STRING) /\ Len(G) \in Nat
        /\ \A i \in 1 .. Len(G) : G[i] \in STRING /\ G[i] \in DOMAIN custom
    <2>1. G \in Seq(STRING) /\ {G[i] : i \in 1 .. Len(G)} = DOMAIN custom
      BY GroupsAll
    <2> QED
      BY <2>1
  <1>2. ASSUME NEW i \in 1 .. Len(G)
        PROVE  /\ G[i] \in Cell
               /\ <<G[i]>> \in Seq(Cell)
               /\ custom[G[i]] \in List
               /\ Named(custom[G[i]]) \in Seq(Cell)
    <2>1. G[i] \in Cell
      BY <1>1 DEF Cell
    <2>2. custom[G[i]] \in List
      BY <1>1, GroupsAll
    <2>3. <<G[i]>> \in Seq(Cell)
      BY <2>1
    <2> QED
      BY <2>1, <2>2, <2>3, NamedType
  <1>3. \A i \in 1 .. Len(G) : <<G[i]>> \o Named(custom[G[i]]) \in Seq(Cell)
    BY <1>2, ConcatProperties
  <1>4. GroupParts(custom) \in Seq(Seq(Cell))
    BY <1>1, <1>3 DEF GroupParts
  <1>5. Joined(GroupParts(custom)) \in Seq(Cell)
    <2> PICK f \in Joinings(Cell, GroupParts(custom)) : TRUE
      BY <1>4, JoinedLoop
    <2>1. Len(GroupParts(custom)) \in Nat
      BY <1>4
    <2> QED
      BY <2>1 DEF Joinings
  <1>6. <<Len(G)>> \in Seq(Cell)
    BY <1>1 DEF Cell
  <1>7. CustomCells(custom) = <<Len(G)>> \o Joined(GroupParts(custom))
    BY DEF CustomCells, GroupParts, GroupsOf
  <1> QED
    BY <1>2, <1>4, <1>5, <1>6, <1>7, ConcatProperties

(* The custom metrics: a map that is filled group by group. *)
LEMMA CustomRead ==
    ASSUME NEW custom \in Custom, NEW D, NEW d \in Seq(D), NEW o \in Nat,
           At(d, o, CustomCells(custom))
    PROVE  CustomAt(d, o) = [value |-> custom, end |-> o + Len(CustomCells(custom))]
  <1> DEFINE parts == GroupParts(custom)
  <1> PICK G, n : G = GroupsOf(custom) /\ n = Len(G)
    OBVIOUS
  <1>1. n \in Nat /\ \A i \in 1 .. n : G[i] \in STRING
    <2>1. G \in Seq(STRING)
      BY GroupsAll
    <2> QED
      BY <2>1
  <1>2. parts \in Seq(Seq(Cell))
    BY CustomType
  <1>3. Len(parts) = n /\ \A i \in 1 .. n : parts[i] = <<G[i]>> \o Named(custom[G[i]])
    BY <1>1 DEF GroupParts
  <1>4. PICK f \in Joinings(Cell, parts) : TRUE
    BY <1>2, JoinedLoop
  <1>5. /\ f \in [0 .. n -> Seq(Cell)] /\ f[0] = <<>> /\ Joined(parts) = f[n]
    BY <1>3, <1>4 DEF Joinings
  <1>6. \A i \in 0 .. n : Len(f[i]) \in Nat
    BY <1>5
  <1> HIDE DEF parts
  <1>7. At(d, o, <<n>>) /\ At(d, o + 1, Joined(parts))
    <2>1. CustomCells(custom) = <<n>> \o Joined(parts)
      BY CustomType DEF parts
    <2>2. <<n>> \in Seq(Cell) /\ Joined(parts) \in Seq(Cell) /\ Len(<<n>>) = 1
      BY CustomType DEF parts
    <2> PICK a, b : a = <<n>> /\ b = Joined(parts)
      OBVIOUS
    <2>4. a \in Seq(Cell) /\ b \in Seq(Cell) /\ At(d, o, a \o b)
      BY <2>1, <2>2
    <2>3. At(d, o, a) /\ At(d, o + Len(a), b)
      BY ONLY <2>4, d \in Seq(D), o \in Nat, AtConcat
    <2> QED
      BY <2>2, <2>3
  <1>8. d[o] = n
    <2>1. n \in Cell
      BY <1>1 DEF Cell
    <2> QED
      BY <1>7, <2>1, CellRead
  <1>9. /\ \A k \in 1 .. n : At(d, o + 1 + Len(f[k - 1]), parts[k])
        /\ \A k \in 1 .. n : Len(f[k]) = Len(f[k - 1]) + Len(parts[k])
    <2>1. o + 1 \in Nat
      OBVIOUS
    <2> QED
      BY <1>2, <1>3, <1>4, <1>7, <2>1, JoinedAt
  <1> DEFINE end(k) == o + 1 + Len(f[k])
             map(k) == [g \in {G[i] : i \in 1 .. k} |-> custom[g]]
             Round(r) ==
                 LET at == r.end
                     group == NamedAt(d, at + 1)
                 IN [value |-> With(r.value, d[at], group.value), end |-> group.end]
             Step(g) == [k \in 0 .. d[o] |->
                            IF k = 0 THEN [value |-> <<>>, end |-> o + 1]
                            ELSE Round(g[k - 1])]
             w == [k \in 0 .. n |-> [value |-> map(k), end |-> end(k)]]
  <1>10. ASSUME NEW k \in 1 .. n
         PROVE  Round([value |-> map(k - 1), end |-> end(k - 1)])
                    = [value |-> map(k), end |-> end(k)]
    <2> PICK at, list, head, x : /\ at = end(k - 1) /\ list = custom[G[k]]
                                 /\ head = <<G[k]>> /\ x = Len(f[k - 1])
      OBVIOUS
    <2>1. x \in Nat /\ at = o + 1 + x
      <3>1. k - 1 \in 0 .. n
        BY <1>1
      <3> QED
        BY <1>6, <3>1
    <2>2. at \in Nat /\ at + 1 \in Nat
      BY ONLY <2>1, o \in Nat
    <2>3. /\ head \in Seq(Cell) /\ Len(head) = 1 /\ list \in List /\ Named(list) \in Seq(Cell)
          /\ G[k] \in Cell
      BY CustomType
    <2>4. At(d, at, head \o Named(list))
      BY <1>3, <1>9
    <2>5. /\ At(d, at, head) /\ At(d, at + 1, Named(list))
          /\ Len(head \o Named(list)) = 1 + Len(Named(list))
      <3> PICK b : b = Named(list)
        OBVIOUS
      <3>1. head \in Seq(Cell) /\ b \in Seq(Cell) /\ At(d, at, head \o b)
        BY <2>3, <2>4
      <3>2. At(d, at, head) /\ At(d, at + Len(head), b) /\ Len(head \o b) = Len(head) + Len(b)
        BY ONLY <2>2, <3>1, d \in Seq(D), AtConcat
      <3> QED
        BY <2>3, <3>2
    <2>6. NamedAt(d, at + 1) = [value |-> list, end |-> at + 1 + Len(Named(list))]
      BY <2>2, <2>3, <2>5, NamedRead
    <2>7. d[at] = G[k]
      BY <2>2, <2>3, <2>5, CellRead
    <2>8. With(map(k - 1), G[k], list) = map(k)
      <3>1. {G[i] : i \in 1 .. k} = {G[i] : i \in 1 .. k - 1} \union {G[k]}
        BY <1>1
      <3> QED
        BY <3>1 DEF With
    <2>9. at + 1 + Len(Named(list)) = end(k)
      <3>1. Len(f[k]) = x + (1 + Len(Named(list)))
        BY <1>3, <1>9, <2>5
      <3>2. Len(Named(list)) \in Nat
        BY <2>3
      <3> PICK y, z, e : y = Len(Named(list)) /\ z = Len(f[k]) /\ e = end(k)
        OBVIOUS
      <3>3. y \in Nat /\ z = x + (1 + y) /\ e = o + 1 + z
        BY <3>1, <3>2
      <3>4. at + 1 + y = e
        BY ONLY <2>1, <3>3, o \in Nat
      <3> QED
        BY <3>4
    <2> HIDE DEF end, map
    <2>10. Round([value |-> map(k - 1), end |-> at])
             = [value |-> With(map(k - 1), G[k], list), end |-> at + 1 + Len(Named(list))]
      <3> PICK r, s : r = [value |-> s, end |-> at] /\ s = map(k - 1)
        OBVIOUS
      <3>1. r.end = at /\ r.value = s
        OBVIOUS
      <3>2. PICK t : t = NamedAt(d, at + 1)
        OBVIOUS
      <3>3. t.value = list /\ t.end = at + 1 + Len(Named(list))
        BY <2>6, <3>2
      <3>4. Round(r) = [value |-> With(r.value, d[r.end], t.value), end |-> t.end]
        BY <3>1, <3>2
      <3> QED
        BY <2>7, <3>1, <3>3, <3>4
    <2> QED
      BY <2>8, <2>9, <2>10, Zenon
  <1>11. map(0) = <<>> /\ map(n) = custom
    <2>1. {G[i] : i \in 1 .. n} = DOMAIN custom /\ custom = [g \in DOMAIN custom |-> custom[g]]
      BY GroupsAll
    <2>2. {G[i] : i \in 1 .. 0} = {}
      OBVIOUS
    <2>3. [g \in {} |-> custom[g]] = <<>>
      OBVIOUS
    <2> QED
      BY <2>1, <2>2, <2>3
  <1>12. end(0) = o + 1
    BY <1>5
  <1> HIDE DEF end, map, Round
  <1>13. w = Step(w)
    <2>1. ASSUME NEW k \in 0 .. n PROVE w[k] = Step(w)[k]
      <3>1. CASE k = 0
        BY <1>1, <1>8, <1>11, <1>12, <3>1
      <3>2. CASE k # 0
        <4>1. k \in 1 .. n /\ k - 1 \in 0 .. n
          BY <1>1, <3>2
        <4>2. w[k - 1] = [value |-> map(k - 1), end |-> end(k - 1)]
          BY <4>1
        <4>3. Step(w)[k] = Round(w[k - 1])
          BY <1>8, <3>2
        <4> QED
          BY <1>10, <4>1, <4>2, <4>3
      <3> QED
        BY <3>1, <3>2
    <2> QED
      BY <1>8, <2>1
  <1> DEFINE g == CHOOSE h : h = Step(h)
  <1>14. g = Step(g)
    BY <1>13
  <1>15. CustomAt(d, o) = g[n]
    <2>1. CustomAt(d, o) = g[d[o]]
      BY DEF CustomAt, Round
    <2> QED
      BY <1>8, <2>1
  <1>16. g[0] = w[0] /\ \A k \in 1 .. n : g[k] = Round(g[k - 1]) /\ w[k] = Round(w[k - 1])
    <2>1. \A k \in 0 .. n : w[k] = Step(w)[k] /\ g[k] = Step(g)[k]
      BY <1>13, <1>14
    <2>2. \A k \in 1 .. n : k \in 0 .. n /\ k # 0
      BY <1>1
    <2> HIDE DEF g, w
    <2>3. Step(w)[0] = Step(g)[0] /\ 0 \in 0 .. n
      BY <1>1, <1>8
    <2>4. \A k \in 1 .. n : Step(w)[k] = Round(w[k - 1]) /\ Step(g)[k] = Round(g[k - 1])
      BY <1>8, <2>2
    <2> QED
      BY <2>1, <2>2, <2>3, <2>4
  <1> HIDE DEF g, w, Step
  <1> DEFINE Same == {k \in 0 .. n : g[k] = w[k]}
  <1>17. 0 \in Same
    BY <1>1, <1>16
  <1>18. ASSUME NEW k \in 1 .. n, k - 1 \in Same PROVE k \in Same
    BY <1>1, <1>16, <1>18
  <1> HIDE DEF Same
  <1>19. \A k \in 0 .. n : k \in Same
    BY <1>1, <1>17, <1>18, UpTo
  <1>20. g[n] = w[n] /\ n \in 0 .. n
    BY <1>1, <1>19 DEF Same
  <1>21. end(n) = o + Len(CustomCells(custom))
    <2>1. Len(CustomCells(custom)) = 1 + Len(Joined(parts)) /\ Joined(parts) \in Seq(Cell)
      BY CustomType DEF parts
    <2>3. Len(Joined(parts)) \in Nat
      BY <2>1
    <2>2. end(n) = o + 1 + Len(Joined(parts))
      BY <1>5, Zenon DEF end
    <2> QED
      BY <2>1, <2>2, <2>3
  <1> QED
    BY <1>11, <1>15, <1>20, <1>21 DEF w

(* An application's block. *)
LEMMA BlockType ==
    ASSUME NEW full \in Nat \ {0}, NEW app \in App(full), NEW version \in Nat \ {0},
           NEW size \in 1 .. full
    PROVE  /\ Block(app, version, size) \in Seq(Cell)
           /\ app = absent => Block(app, version, size) = <<0>>
           /\ app # absent => /\ app \in [1 .. full -> Int]
                              /\ app \in Seq(Int) /\ Len(app) = full
                              /\ SubSeq(app, 1, size) \in Seq(Cell)
                              /\ Len(SubSeq(app, 1, size)) = size
                              /\ \A k \in 1 .. size : SubSeq(app, 1, size)[k] = app[k]
                              /\ <<version>> \in Seq(Cell)
                              /\ Block(app, version, size) = <<version>> \o SubSeq(app, 1, size)
                              /\ Len(Block(app, version, size)) = 1 + size
  <1>1. CASE app = absent
    <2>1. Block(app, version, size) = <<0>>
      BY <1>1 DEF Block
    <2>2. <<0>> \in Seq(Cell)
      BY DEF Cell
    <2> QED
      BY <1>1, <2>1, <2>2
  <1>2. CASE app # absent
    <2>1. app \in [1 .. full -> Int]
      BY <1>2 DEF App
    <2>2. app \in Seq(Int) /\ Len(app) = full
      BY <2>1
    <2>3. SubSeq(app, 1, size) \in Seq(Cell) /\ Len(SubSeq(app, 1, size)) = size
      BY <2>2 DEF Cell
    <2>4. \A k \in 1 .. size : SubSeq(app, 1, size)[k] = app[k]
      BY <2>2
    <2>5. <<version>> \in Seq(Cell)
      BY DEF Cell
    <2>6. Block(app, version, size) = <<version>> \o SubSeq(app, 1, size)
      BY <1>2 DEF Block
    <2>7. Len(<<version>>) = 1
      OBVIOUS
    <2>8. /\ Block(app, version, size) \in Seq(Cell)
          /\ Len(Block(app, version, size)) = 1 + size
      BY <2>3, <2>5, <2>6, <2>7, ConcatProperties
    <2> QED
      BY <1>2, <2>1, <2>2, <2>3, <2>4, <2>5, <2>6, <2>8
  <1> QED
    BY <1>1, <1>2

\* What a block of size numbers tells of an application.
First(app, size) ==
    IF app = absent THEN absent
    ELSE [k \in 1 .. Len(app) |-> IF k <= size THEN app[k] ELSE 0]

(* A block that may be absent is read back, as far as its version goes. *)
LEMMA BlockRead ==
    ASSUME NEW full \in Nat \ {0}, NEW app \in App(full), NEW version \in Nat \ {0},
           NEW size \in 1 .. full, NEW D, NEW d \in Seq(D), NEW o \in Nat,
           At(d, o, Block(app, version, size))
    PROVE  /\ BlockAt(d, o, size, full) = [value |-> First(app, size),
                                           end |-> o + Len(Block(app, version, size))]
           /\ d[o] = IF app = absent THEN 0 ELSE version
  <1>1. CASE app = absent
    <2>3. Block(app, version, size) = <<0>>
      BY <1>1, Zenon DEF Block
    <2>1. At(d, o, <<0>>) /\ 0 \in Cell /\ Len(<<0>>) = 1 /\ Block(app, version, size) = <<0>>
      BY <2>3 DEF Cell
    <2>2. d[o] = 0
      BY <2>1, CellRead
    <2> QED
      BY <1>1, <2>1, <2>2 DEF BlockAt, First
  <1>2. CASE app # absent
    <2> PICK a, b : a = <<version>> /\ b = SubSeq(app, 1, size)
      OBVIOUS
    <2>0. a \in Seq(Cell) /\ b \in Seq(Cell) /\ Block(app, version, size) = a \o b
      BY ONLY <1>2, BlockType, full \in Nat \ {0}, app \in App(full), version \in Nat \ {0},
              size \in 1 .. full, a = <<version>>, b = SubSeq(app, 1, size)
    <2>1. a \in Seq(Cell) /\ b \in Seq(Cell) /\ At(d, o, a \o b)
      BY <2>0
    <2>2. At(d, o, a) /\ At(d, o + Len(a), b)
      BY ONLY <2>1, d \in Seq(D), o \in Nat, AtConcat
    <2>3. Len(a) = 1 /\ Len(b) = size /\ \A k \in 1 .. size : b[k] = app[k]
      BY <1>2, BlockType
    <2>4. d[o] = version
      <3>1. version \in Cell
        BY DEF Cell
      <3> QED
        BY <2>2, <3>1, CellRead
    <2>5. ASSUME NEW k \in 1 .. size PROVE d[o + k] = app[k]
      <3>1. d[(o + 1) + k - 1] = b[k]
        BY <2>2, <2>3 DEF At
      <3>2. (o + 1) + k - 1 = o + k
        OBVIOUS
      <3> QED
        BY <2>3, <3>1, <3>2
    <2>6. app \in [1 .. full -> Int] /\ Len(app) = full /\ Len(Block(app, version, size)) = 1 + size
      BY <1>2, BlockType
    <2>7. [k \in 1 .. full |-> IF k <= size THEN d[o + k] ELSE 0] = First(app, size)
      <3>1. First(app, size) = [k \in 1 .. full |-> IF k <= size THEN app[k] ELSE 0]
        BY <1>2, <2>6 DEF First
      <3>2. \A k \in 1 .. full : k <= size => k \in 1 .. size
        OBVIOUS
      <3> QED
        BY <2>5, <3>1, <3>2
    <2>8. BlockAt(d, o, size, full) =
              [value |-> [k \in 1 .. full |-> IF k <= size THEN d[o + k] ELSE 0],
               end |-> o + 1 + size]
      BY <2>4 DEF BlockAt
    <2>9. o + Len(Block(app, version, size)) = o + 1 + size
      BY <2>6
    <2> QED
      BY <1>2, <2>4, <2>7, <2>8, <2>9
  <1> QED
    BY <1>1, <1>2
-----------------------------------------------------------------------------
(* The parts of a sample.                                                  *)

\* The versions of the format: which of the later parts they write.
Format ==
    {f \in [kind : BOOLEAN, gpu : BOOLEAN, apps : BOOLEAN, mysql : BOOLEAN,
            apache2 : 0 .. 2, postgres : 1 .. 2] : f.apps => f.gpu}

\* A number of running processes that fits its two bytes.
Cut(running) == IF running > MaxRunning THEN MaxRunning ELSE running

\* What a version writes for a part.
PartCells(s, f, part) ==
    IF part \in {"usage", "irq", "used", "host"} THEN <<s[part]>>
    ELSE IF part = "running" THEN <<Cut(s["running"])>>
    ELSE IF part = "users" THEN <<s["users"] % UserLimit>>
    ELSE IF part = "disks" THEN DiskCells(s["disks"])
    ELSE IF part \in {"ifaces", "sensors", "fs"} THEN Named(s[part])
    ELSE IF part = "gpu" THEN IF f.gpu THEN Named(s["gpu"]) ELSE <<>>
    ELSE IF ~f.apps THEN <<>>
    ELSE IF part = "nginx" THEN Block(s["nginx"], 1, 1)
    ELSE IF part = "containers" THEN Named(s["containers"])
    ELSE IF part = "postgres" THEN Block(s["postgres"], f.postgres, f.postgres)
    ELSE IF part = "mysql" THEN IF f.mysql THEN Block(s["mysql"], 1, 1) ELSE <<>>
    ELSE IF part = "apache2"
         THEN IF f.apache2 > 0 THEN Block(s["apache2"], f.apache2, f.apache2) ELSE <<>>
    ELSE CustomCells(s["custom"])

\* What is told of a part.
PartTold(s, f, part) ==
    IF part = "running" THEN Cut(s["running"])
    ELSE IF part = "users" THEN s["users"] % UserLimit
    ELSE IF part = "retrans" THEN 0
    ELSE IF part = "psu" THEN absent
    ELSE IF part = "gpu" THEN IF f.gpu THEN s["gpu"] ELSE <<>>
    ELSE IF part \notin AppParts THEN s[part]
    ELSE IF ~f.apps THEN <<>>
    ELSE IF part = "postgres" THEN First(s["postgres"], f.postgres)
    ELSE IF part = "mysql" THEN IF f.mysql THEN s["mysql"] ELSE <<>>
    ELSE IF part = "apache2"
         THEN IF f.apache2 = 0 THEN <<>> ELSE First(s["apache2"], f.apache2)
    ELSE s[part]

\* The flags of a version.
FlagsOf(flags, f) ==
    /\ "apps" \in flags <=> f.apps
    /\ "mysql" \in flags <=> f.mysql
    /\ "apache2" \in flags <=> f.apache2 > 0

\* Nothing is written for a part.
Unwritten(f, part) ==
    \/ part = "gpu" /\ ~f.gpu
    \/ part \in AppParts /\ ~f.apps
    \/ part = "mysql" /\ ~f.mysql
    \/ part = "apache2" /\ f.apache2 = 0

\* The parts; those of one cell, and those that are lists.
PartNames == Fields \ ({"ts"} \union Unstored)

Scalars == {"usage", "irq", "used", "running", "users", "host"}
Lists == {"ifaces", "sensors", "fs", "gpu", "containers"}

(* What is written for each kind of part, and what is told of it.            *)
LEMMA PartIs ==
    ASSUME NEW s \in Sample, NEW f \in Format, NEW part \in PartNames
    PROVE  /\ Unwritten(f, part) => PartCells(s, f, part) = <<>> /\ PartTold(s, f, part) = <<>>
           /\ part \in Scalars => PartCells(s, f, part) = <<PartTold(s, f, part)>>
                                  /\ PartTold(s, f, part) \in Cell
           /\ part \in Lists /\ ~Unwritten(f, part) =>
                  /\ s[part] \in List
                  /\ PartCells(s, f, part) = Named(s[part])
                  /\ PartTold(s, f, part) = s[part]
           /\ part = "disks" => /\ s[part] \in Seq(Device)
                                /\ PartCells(s, f, part) = DiskCells(s[part])
                                /\ PartTold(s, f, part) = s[part]
           /\ part = "custom" /\ ~Unwritten(f, part) =>
                  /\ s[part] \in Custom
                  /\ PartCells(s, f, part) = CustomCells(s[part])
                  /\ PartTold(s, f, part) = s[part]
           /\ part \in {"nginx", "mysql"} /\ ~Unwritten(f, part) =>
                  /\ s[part] \in App(1)
                  /\ PartCells(s, f, part) = Block(s[part], 1, 1)
                  /\ PartTold(s, f, part) = s[part]
           /\ part = "postgres" /\ ~Unwritten(f, part) =>
                  /\ s[part] \in App(2) /\ f.postgres \in 1 .. 2
                  /\ PartCells(s, f, part) = Block(s[part], f.postgres, f.postgres)
                  /\ PartTold(s, f, part) = First(s[part], f.postgres)
           /\ part = "apache2" /\ ~Unwritten(f, part) =>
                  /\ s[part] \in App(2) /\ f.apache2 \in 1 .. 2
                  /\ PartCells(s, f, part) = Block(s[part], f.apache2, f.apache2)
                  /\ PartTold(s, f, part) = First(s[part], f.apache2)
  <1>1. HasFields(s)
    BY SampleIs
  <1>2. /\ f.apps => f.gpu
        /\ f.postgres \in 1 .. 2 /\ f.apache2 \in 0 .. 2
        /\ f.apps \in BOOLEAN /\ f.gpu \in BOOLEAN /\ f.mysql \in BOOLEAN
    BY DEF Format
  <1>3. ASSUME Unwritten(f, part)
        PROVE  PartCells(s, f, part) = <<>> /\ PartTold(s, f, part) = <<>>
    BY <1>2, <1>3 DEF Unwritten, PartCells, PartTold, AppParts
  <1>4. ASSUME part \in Scalars
        PROVE  PartCells(s, f, part) = <<PartTold(s, f, part)>> /\ PartTold(s, f, part) \in Cell
    <2>1. PartCells(s, f, part) = <<PartTold(s, f, part)>>
      BY <1>4 DEF PartCells, PartTold, AppParts, Scalars
    <2>4. s["running"] \in Nat /\ s["users"] \in Nat
      BY <1>1 DEF HasFields
    <2>2. Cut(s["running"]) \in Int /\ s["users"] % UserLimit \in Int
      BY ONLY <2>4, CodecAssumption DEF Cut
    <2>3. PartTold(s, f, part) \in Cell
      BY <1>1, <1>4, <2>2 DEF PartTold, AppParts, Scalars, HasFields, Cell
    <2> QED
      BY <2>1, <2>3
  <1>5. ASSUME part \in Lists, ~Unwritten(f, part)
        PROVE  /\ s[part] \in List /\ PartCells(s, f, part) = Named(s[part])
               /\ PartTold(s, f, part) = s[part]
    BY <1>1, <1>2, <1>5 DEF Unwritten, PartCells, PartTold, AppParts, Lists, HasFields
  <1>6. ASSUME part = "disks"
        PROVE  /\ s[part] \in Seq(Device) /\ PartCells(s, f, part) = DiskCells(s[part])
               /\ PartTold(s, f, part) = s[part]
    BY <1>1, <1>6 DEF PartCells, PartTold, AppParts, HasFields
  <1>7. ASSUME part = "custom", ~Unwritten(f, part)
        PROVE  /\ s[part] \in Custom /\ PartCells(s, f, part) = CustomCells(s[part])
               /\ PartTold(s, f, part) = s[part]
    BY <1>1, <1>7 DEF Unwritten, PartCells, PartTold, AppParts, HasFields
  <1>8. ASSUME part \in {"nginx", "mysql"}, ~Unwritten(f, part)
        PROVE  /\ s[part] \in App(1) /\ PartCells(s, f, part) = Block(s[part], 1, 1)
               /\ PartTold(s, f, part) = s[part]
    BY <1>1, <1>8 DEF Unwritten, PartCells, PartTold, AppParts, HasFields
  <1>9. ASSUME part = "postgres", ~Unwritten(f, part)
        PROVE  /\ s[part] \in App(2)
               /\ PartCells(s, f, part) = Block(s[part], f.postgres, f.postgres)
               /\ PartTold(s, f, part) = First(s[part], f.postgres)
    BY <1>1, <1>9 DEF Unwritten, PartCells, PartTold, AppParts, HasFields
  <1>10. ASSUME part = "apache2", ~Unwritten(f, part)
         PROVE  /\ s[part] \in App(2) /\ f.apache2 \in 1 .. 2
                /\ PartCells(s, f, part) = Block(s[part], f.apache2, f.apache2)
                /\ PartTold(s, f, part) = First(s[part], f.apache2)
    BY <1>1, <1>2, <1>10 DEF Unwritten, PartCells, PartTold, AppParts, HasFields
  <1> QED
    BY <1>2, <1>3, <1>4, <1>5, <1>6, <1>7, <1>8, <1>9, <1>10

\* The kinds of parts.
LEMMA PartKinds ==
    ASSUME NEW part \in PartNames
    PROVE  \/ part \in Scalars \/ part \in Lists \/ part = "disks" \/ part = "custom"
           \/ part \in {"nginx", "mysql"} \/ part = "postgres" \/ part = "apache2"
  BY DEF PartNames, Fields, Unstored, Scalars, Lists

(* A part that is written has at least one cell. *)
LEMMA PartType ==
    ASSUME NEW s \in Sample, NEW f \in Format, NEW part \in PartNames
    PROVE  /\ PartCells(s, f, part) \in Seq(Cell)
           /\ ~Unwritten(f, part) => Len(PartCells(s, f, part)) > 0
  <1>1. CASE Unwritten(f, part)
    <2>1. PartCells(s, f, part) = <<>> /\ <<>> \in Seq(Cell)
      BY <1>1, PartIs
    <2> QED
      BY <1>1, <2>1
  <1>2. CASE part \in Scalars
    <2> PICK c : c = PartTold(s, f, part)
      OBVIOUS
    <2>1. c \in Cell /\ PartCells(s, f, part) = <<c>>
      BY <1>2, PartIs
    <2>2. <<c>> \in Seq(Cell) /\ Len(<<c>>) = 1
      BY <2>1
    <2> QED
      BY <2>1, <2>2
  <1>3. CASE part \in Lists /\ ~Unwritten(f, part)
    <2>1. s[part] \in List /\ PartCells(s, f, part) = Named(s[part])
      BY <1>3, PartIs
    <2> PICK j : j = Joined(EntryCells(s[part]))
      OBVIOUS
    <2>2. PartCells(s, f, part) \in Seq(Cell) /\ Len(PartCells(s, f, part)) = 1 + Len(j) /\ j \in Seq(Cell)
      BY <2>1, NamedType
    <2> QED
      BY <2>2
  <1>4. CASE part = "disks"
    <2>1. s[part] \in Seq(Device) /\ PartCells(s, f, part) = DiskCells(s[part])
      BY <1>4, PartIs
    <2> PICK j : j = Joined(DiskParts(s[part]))
      OBVIOUS
    <2>2. PartCells(s, f, part) \in Seq(Cell) /\ Len(PartCells(s, f, part)) = 1 + Len(j) /\ j \in Seq(Cell)
      BY <2>1, DiskType
    <2> QED
      BY <2>2
  <1>5. CASE part = "custom" /\ ~Unwritten(f, part)
    <2>1. s[part] \in Custom /\ PartCells(s, f, part) = CustomCells(s[part])
      BY <1>5, PartIs
    <2> PICK j : j = Joined(GroupParts(s[part]))
      OBVIOUS
    <2>2. PartCells(s, f, part) \in Seq(Cell) /\ Len(PartCells(s, f, part)) = 1 + Len(j) /\ j \in Seq(Cell)
      BY <2>1, CustomType
    <2> QED
      BY <2>2
  <1>b. ASSUME NEW full \in Nat \ {0}, NEW app \in App(full), NEW version \in 1 .. full
        PROVE  /\ Block(app, version, version) \in Seq(Cell)
               /\ Len(Block(app, version, version)) > 0
    <2>1. version \in Nat \ {0} /\ version \in 1 .. full
      OBVIOUS
    <2>2. Block(app, version, version) \in Seq(Cell)
      BY ONLY <2>1, BlockType, full \in Nat \ {0}, app \in App(full)
    <2>3. CASE app = absent
      <3>1. Block(app, version, version) = <<0>> /\ Len(<<0>>) = 1
        BY <2>3 DEF Block
      <3> QED
        BY <2>2, <3>1
    <2>4. CASE app # absent
      <3> PICK a, b : a = <<version>> /\ b = SubSeq(app, 1, version)
        OBVIOUS
      <3>1. a \in Seq(Cell) /\ b \in Seq(Cell) /\ Block(app, version, version) = a \o b
        BY ONLY <2>1, <2>4, BlockType, full \in Nat \ {0}, app \in App(full),
                a = <<version>>, b = SubSeq(app, 1, version)
      <3>2. Len(a \o b) = Len(a) + Len(b) /\ Len(a) = 1 /\ Len(b) \in Nat
        BY <3>1, ConcatProperties
      <3> QED
        BY <2>2, <3>1, <3>2
    <2> QED
      BY <2>3, <2>4
  <1>6. CASE part \in {"nginx", "mysql"} /\ ~Unwritten(f, part)
    <2>1. s[part] \in App(1) /\ PartCells(s, f, part) = Block(s[part], 1, 1)
      BY <1>6, PartIs
    <2>2. 1 \in Nat \ {0} /\ 1 \in 1 .. 1
      OBVIOUS
    <2> QED
      BY <1>b, <2>1, <2>2
  <1>7. CASE part = "postgres" /\ ~Unwritten(f, part)
    <2>1. /\ s[part] \in App(2) /\ f.postgres \in 1 .. 2 /\ 2 \in Nat \ {0}
          /\ PartCells(s, f, part) = Block(s[part], f.postgres, f.postgres)
      BY <1>7, PartIs
    <2> QED
      BY <1>b, <2>1
  <1>8. CASE part = "apache2" /\ ~Unwritten(f, part)
    <2>1. /\ s[part] \in App(2) /\ f.apache2 \in 1 .. 2 /\ 2 \in Nat \ {0}
          /\ PartCells(s, f, part) = Block(s[part], f.apache2, f.apache2)
      BY <1>8, PartIs
    <2> QED
      BY <1>b, <2>1
  <1> QED
    BY <1>1, <1>2, <1>3, <1>4, <1>5, <1>6, <1>7, <1>8, PartKinds

(* Each part is read where it is, and the next one begins at its end.       *)
LEMMA PartRead ==
    ASSUME NEW s \in Sample, NEW f \in Format, NEW part \in PartNames,
           NEW flags, FlagsOf(flags, f), NEW D, NEW d \in Seq(D), NEW o \in Nat,
           At(d, o, PartCells(s, f, part)), ~(part = "gpu" /\ ~f.gpu)
    PROVE  PartAt(d, o, part, flags) = [value |-> PartTold(s, f, part),
                                        end |-> o + Len(PartCells(s, f, part))]
  <1>1. Lacks(part, flags) <=> Unwritten(f, part)
    <2>1. f.apps => f.gpu
      BY DEF Format
    <2>2. f.apache2 \in 0 .. 2
      BY DEF Format
    <2>3. part \in {"mysql", "apache2"} => part \in AppParts
      BY DEF AppParts
    <2> QED
      BY <2>1, <2>2, <2>3 DEF Lacks, Unwritten, FlagsOf
  <1>2. CASE Unwritten(f, part)
    <2>1. PartCells(s, f, part) = <<>> /\ PartTold(s, f, part) = <<>>
      BY <1>2, PartIs
    <2>2. o + Len(<<>>) = o
      OBVIOUS
    <2>3. PartAt(d, o, part, flags) = [value |-> absent, end |-> o]
      BY <1>1, <1>2 DEF PartAt
    <2> QED
      BY <2>1, <2>2, <2>3 DEF absent
  <1> SUFFICES ASSUME ~Unwritten(f, part), ~Lacks(part, flags)
               PROVE  PartAt(d, o, part, flags) = [value |-> PartTold(s, f, part),
                                                   end |-> o + Len(PartCells(s, f, part))]
    BY <1>1, <1>2
  <1> DEFINE cells == PartCells(s, f, part)
  <1>3. CASE part \in Scalars
    <2> PICK c : c = PartTold(s, f, part)
      OBVIOUS
    <2>1. c \in Cell /\ cells = <<c>>
      BY <1>3, PartIs
    <2>2. CellAt(d, o) = [value |-> c, end |-> o + 1]
      BY <2>1, CellRead
    <2>3. PartAt(d, o, part, flags) = CellAt(d, o)
      BY <1>3 DEF PartAt, Scalars, FixedParts
    <2>4. Len(<<c>>) = 1
      OBVIOUS
    <2> QED
      BY <2>1, <2>2, <2>3, <2>4
  <1>4. CASE part \in Lists
    <2>1. s[part] \in List /\ cells = Named(s[part]) /\ PartTold(s, f, part) = s[part]
      BY <1>4, PartIs
    <2>2. PartAt(d, o, part, flags) = NamedAt(d, o)
      BY <1>4 DEF PartAt, Lists, FixedParts
    <2> QED
      BY <2>1, <2>2, NamedRead
  <1>5. CASE part = "disks"
    <2>1. s[part] \in Seq(Device) /\ cells = DiskCells(s[part]) /\ PartTold(s, f, part) = s[part]
      BY <1>5, PartIs
    <2>2. PartAt(d, o, part, flags) = DisksAt(d, o)
      BY <1>5 DEF PartAt, FixedParts
    <2> QED
      BY <2>1, <2>2, DisksRead
  <1>6. CASE part = "custom"
    <2>1. s[part] \in Custom /\ cells = CustomCells(s[part]) /\ PartTold(s, f, part) = s[part]
      BY <1>6, PartIs
    <2>2. PartAt(d, o, part, flags) = CustomAt(d, o)
      BY <1>6 DEF PartAt, FixedParts
    <2> QED
      BY <2>1, <2>2, CustomRead
  <1>b. ASSUME NEW full \in Nat \ {0}, NEW app \in App(full), NEW version \in 1 .. full,
               cells = Block(app, version, version)
        PROVE  /\ BlockAt(d, o, version, full) = [value |-> First(app, version),
                                                  end |-> o + Len(cells)]
               /\ d[o] = IF app = absent THEN 0 ELSE version
    <2>1. version \in Nat \ {0} /\ At(d, o, Block(app, version, version))
      BY <1>b
    <2>2. /\ BlockAt(d, o, version, full) = [value |-> First(app, version),
                                             end |-> o + Len(Block(app, version, version))]
          /\ d[o] = IF app = absent THEN 0 ELSE version
      BY ONLY <2>1, BlockRead, full \in Nat \ {0}, app \in App(full), version \in 1 .. full,
              d \in Seq(D), o \in Nat
    <2> QED
      BY <1>b, <2>2
  <1>7. CASE part \in {"nginx", "mysql"}
    <2>1. s[part] \in App(1) /\ cells = Block(s[part], 1, 1) /\ PartTold(s, f, part) = s[part]
      BY <1>7, PartIs
    <2>2. PartAt(d, o, part, flags) = BlockAt(d, o, 1, 1)
      BY <1>7 DEF PartAt, FixedParts
    <2>3. 1 \in Nat \ {0} /\ 1 \in 1 .. 1
      OBVIOUS
    <2>4. BlockAt(d, o, 1, 1) = [value |-> First(s[part], 1), end |-> o + Len(cells)]
      BY <1>b, <2>1, <2>3
    <2>5. First(s[part], 1) = s[part]
      BY <2>1 DEF First, App
    <2> QED
      BY <2>1, <2>2, <2>4, <2>5
  <1>8. CASE part = "postgres"
    <2> PICK app, v : app = s[part] /\ v = f.postgres
      OBVIOUS
    <2>1. /\ app \in App(2) /\ v \in 1 .. 2 /\ 2 \in Nat \ {0}
          /\ cells = Block(app, v, v) /\ PartTold(s, f, part) = First(app, v)
      BY <1>8, PartIs
    <2>2. PartAt(d, o, part, flags) = BlockAt(d, o, IF d[o] = 1 THEN 1 ELSE 2, 2)
      BY <1>8 DEF PartAt, FixedParts, PostgresAt
    <2>3. /\ BlockAt(d, o, v, 2) = [value |-> First(app, v), end |-> o + Len(cells)]
          /\ d[o] = IF app = absent THEN 0 ELSE v
      BY <1>b, <2>1
    <2>4. CASE app # absent
      <3>1. (IF d[o] = 1 THEN 1 ELSE 2) = v
        BY <2>1, <2>3, <2>4
      <3> QED
        BY <2>1, <2>2, <2>3, <3>1
    <2>5. CASE app = absent
      <3>1. \A size : BlockAt(d, o, size, 2) = [value |-> absent, end |-> o + 1]
        BY <2>3, <2>5 DEF BlockAt
      <3> QED
        BY <2>1, <2>2, <2>3, <3>1
    <2> QED
      BY <2>4, <2>5
  <1>9. CASE part = "apache2"
    <2> PICK app, v : app = s[part] /\ v = f.apache2
      OBVIOUS
    <2>1. /\ app \in App(2) /\ v \in 1 .. 2 /\ 2 \in Nat \ {0}
          /\ cells = Block(app, v, v) /\ PartTold(s, f, part) = First(app, v)
      BY <1>9, PartIs
    <2>2. PartAt(d, o, part, flags) = Apache2At(d, o)
      BY <1>9 DEF PartAt, FixedParts
    <2>3. /\ BlockAt(d, o, v, 2) = [value |-> First(app, v), end |-> o + Len(cells)]
          /\ d[o] = IF app = absent THEN 0 ELSE v
      BY <1>b, <2>1
    <2>4. ~(d[o] > 2)
      BY <2>1, <2>3
    <2>5. Apache2At(d, o) = BlockAt(d, o, d[o], 2)
      BY <2>4 DEF Apache2At
    <2>6. BlockAt(d, o, d[o], 2) = BlockAt(d, o, v, 2)
      BY <2>3 DEF BlockAt
    <2> QED
      BY <2>1, <2>2, <2>3, <2>5, <2>6
  <1> QED
    BY <1>3, <1>4, <1>5, <1>6, <1>7, <1>8, <1>9, PartKinds
-----------------------------------------------------------------------------
(* A sample: its parts one after the other.                                *)

\* The cells are in the data, and e is where they end.
Reads(d, o, cells, e) == At(d, o, cells) /\ e = o + Len(cells) /\ e \in Nat

(* What is read as two sections is read as the one, then the other. *)
LEMMA ReadsConcat ==
    ASSUME NEW a \in Seq(Cell), NEW b \in Seq(Cell), NEW D, NEW d \in Seq(D),
           NEW o \in Nat, NEW e, Reads(d, o, a \o b, e)
    PROVE  \E m \in Nat : Reads(d, o, a, m) /\ Reads(d, m, b, e)
  <1>1. At(d, o, a) /\ At(d, o + Len(a), b) /\ Len(a \o b) = Len(a) + Len(b)
    <2>1. At(d, o, a \o b)
      BY DEF Reads
    <2> QED
      BY <2>1, AtConcat
  <1>2. Len(a) \in Nat /\ Len(b) \in Nat
    OBVIOUS
  <1> PICK m, x, y : m = o + Len(a) /\ x = Len(a) /\ y = Len(b)
    OBVIOUS
  <1>3. e = o + (x + y) /\ e \in Nat /\ m = o + x /\ x \in Nat /\ y \in Nat
    BY <1>1, <1>2 DEF Reads
  <1>4. m \in Nat /\ e = m + y
    BY ONLY <1>3, o \in Nat
  <1> QED
    BY <1>1, <1>3, <1>4 DEF Reads

\* Six parts, and the places between them.
SixRead(d, o, a, b, c, p, q, r, e) ==
    \E e1, e2, e3, e4, e5 \in Nat :
        /\ Reads(d, o, a, e1) /\ Reads(d, e1, b, e2) /\ Reads(d, e2, c, e3)
        /\ Reads(d, e3, p, e4) /\ Reads(d, e4, q, e5) /\ Reads(d, e5, r, e)

(* The same of six sections. *)
LEMMA ReadsSix ==
    ASSUME NEW a \in Seq(Cell), NEW b \in Seq(Cell), NEW c \in Seq(Cell),
           NEW p \in Seq(Cell), NEW q \in Seq(Cell), NEW r \in Seq(Cell),
           NEW D, NEW d \in Seq(D), NEW o \in Nat, NEW e,
           Reads(d, o, a \o b \o c \o p \o q \o r, e)
    PROVE  SixRead(d, o, a, b, c, p, q, r, e)
  <1> PICK s2, s3, s4, s5 : /\ s2 = a \o b /\ s3 = s2 \o c /\ s4 = s3 \o p /\ s5 = s4 \o q
    OBVIOUS
  <1>1. s2 \in Seq(Cell) /\ s3 \in Seq(Cell) /\ s4 \in Seq(Cell) /\ s5 \in Seq(Cell)
    BY ConcatProperties
  <1>2. Reads(d, o, s5 \o r, e)
    OBVIOUS
  <1>3. PICK m5 \in Nat : Reads(d, o, s5, m5) /\ Reads(d, m5, r, e)
    BY ONLY <1>1, <1>2, r \in Seq(Cell), d \in Seq(D), o \in Nat, ReadsConcat
  <1>4. PICK m4 \in Nat : Reads(d, o, s4, m4) /\ Reads(d, m4, q, m5)
    BY ONLY <1>1, <1>3, s5 = s4 \o q, q \in Seq(Cell), d \in Seq(D), o \in Nat, ReadsConcat
  <1>5. PICK m3 \in Nat : Reads(d, o, s3, m3) /\ Reads(d, m3, p, m4)
    BY ONLY <1>1, <1>4, s4 = s3 \o p, p \in Seq(Cell), d \in Seq(D), o \in Nat, ReadsConcat
  <1>6. PICK m2 \in Nat : Reads(d, o, s2, m2) /\ Reads(d, m2, c, m3)
    BY ONLY <1>1, <1>5, s3 = s2 \o c, c \in Seq(Cell), d \in Seq(D), o \in Nat, ReadsConcat
  <1>7. PICK m1 \in Nat : Reads(d, o, a, m1) /\ Reads(d, m1, b, m2)
    BY ONLY <1>1, <1>6, s2 = a \o b, a \in Seq(Cell), b \in Seq(Cell), d \in Seq(D), o \in Nat,
            ReadsConcat
  <1> QED
    BY <1>3, <1>4, <1>5, <1>6, <1>7 DEF SixRead

(* Six sections in a row are cells. *)
LEMMA SixTyped ==
    ASSUME NEW a \in Seq(Cell), NEW b \in Seq(Cell), NEW c \in Seq(Cell),
           NEW p \in Seq(Cell), NEW q \in Seq(Cell), NEW r \in Seq(Cell)
    PROVE  a \o b \o c \o p \o q \o r \in Seq(Cell)
  BY ConcatProperties

\* The cells of the n-th part.
NthCells(s, f, n) == PartCells(s, f, Parts[n])

(* The seventeen parts are the fields, without the time and what is not stored. *)
LEMMA PartsAre ==
    /\ Len(Parts) = 17
    /\ \A n \in 1 .. 17 : Parts[n] \in PartNames
    /\ {"ts"} \union Unstored \union {Parts[n] : n \in 1 .. 17} = Fields
    /\ Parts[11] = "gpu"
    /\ \A n \in 1 .. 17 : Parts[n] = "gpu" => n = 11
  <1>1. Len(Parts) = 17
    BY DEF Parts
  <1>2. /\ Parts[1] = "usage" /\ Parts[2] = "irq" /\ Parts[3] = "used" /\ Parts[4] = "running"
        /\ Parts[5] = "users" /\ Parts[6] = "ifaces" /\ Parts[7] = "sensors"
        /\ Parts[8] = "disks" /\ Parts[9] = "fs" /\ Parts[10] = "host" /\ Parts[11] = "gpu"
        /\ Parts[12] = "nginx" /\ Parts[13] = "containers" /\ Parts[14] = "postgres"
        /\ Parts[15] = "mysql" /\ Parts[16] = "apache2" /\ Parts[17] = "custom"
    BY DEF Parts
  <1>3. \A n \in 1 .. 17 : \/ n = 1 \/ n = 2 \/ n = 3 \/ n = 4 \/ n = 5 \/ n = 6 \/ n = 7
                           \/ n = 8 \/ n = 9 \/ n = 10 \/ n = 11 \/ n = 12 \/ n = 13
                           \/ n = 14 \/ n = 15 \/ n = 16 \/ n = 17
    OBVIOUS
  <1>4. \A n \in 1 .. 17 : Parts[n] \in PartNames /\ (Parts[n] = "gpu" => n = 11)
    BY <1>2, <1>3 DEF PartNames, Fields, Unstored
  <1>5. {"ts"} \union Unstored \union {Parts[n] : n \in 1 .. 17} = Fields
    BY <1>2, <1>3 DEF Fields, Unstored
  <1> QED
    BY <1>1, <1>2, <1>4, <1>5

(* What is written for each of the seventeen parts. *)
LEMMA NthAre ==
    ASSUME NEW s \in Sample, NEW f \in Format
    PROVE  /\ NthCells(s, f, 1) = <<s.usage>> /\ NthCells(s, f, 2) = <<s.irq>>
           /\ NthCells(s, f, 3) = <<s.used>> /\ NthCells(s, f, 4) = <<Cut(s.running)>>
           /\ NthCells(s, f, 5) = <<s.users % UserLimit>>
           /\ NthCells(s, f, 6) = Named(s.ifaces) /\ NthCells(s, f, 7) = Named(s.sensors)
           /\ NthCells(s, f, 8) = DiskCells(s.disks) /\ NthCells(s, f, 9) = Named(s.fs)
           /\ NthCells(s, f, 10) = <<s.host>>
           /\ NthCells(s, f, 11) = IF f.gpu THEN Named(s.gpu) ELSE <<>>
           /\ ~f.apps => \A n \in 12 .. 17 : NthCells(s, f, n) = <<>>
           /\ f.apps => /\ NthCells(s, f, 12) = Block(s.nginx, 1, 1)
                        /\ NthCells(s, f, 13) = Named(s.containers)
                        /\ NthCells(s, f, 14) = Block(s.postgres, f.postgres, f.postgres)
                        /\ NthCells(s, f, 15) = IF f.mysql THEN Block(s.mysql, 1, 1) ELSE <<>>
                        /\ NthCells(s, f, 16) = IF f.apache2 > 0
                                                THEN Block(s.apache2, f.apache2, f.apache2)
                                                ELSE <<>>
                        /\ NthCells(s, f, 17) = CustomCells(s.custom)
           /\ \A n \in 1 .. 17 : NthCells(s, f, n) \in Seq(Cell)
  <1>1. /\ Parts[1] = "usage" /\ Parts[2] = "irq" /\ Parts[3] = "used" /\ Parts[4] = "running"
        /\ Parts[5] = "users" /\ Parts[6] = "ifaces" /\ Parts[7] = "sensors"
        /\ Parts[8] = "disks" /\ Parts[9] = "fs" /\ Parts[10] = "host" /\ Parts[11] = "gpu"
        /\ Parts[12] = "nginx" /\ Parts[13] = "containers" /\ Parts[14] = "postgres"
        /\ Parts[15] = "mysql" /\ Parts[16] = "apache2" /\ Parts[17] = "custom"
    BY DEF Parts
  <1>2. \A n \in 1 .. 17 : NthCells(s, f, n) \in Seq(Cell)
    <2> TAKE n \in 1 .. 17
    <2>1. Parts[n] \in PartNames
      BY PartsAre
    <2> QED
      BY <2>1, PartType DEF NthCells
  <1>3. f.apps \in BOOLEAN
    BY DEF Format
  <1>4. ~f.apps => \A n \in 12 .. 17 : NthCells(s, f, n) = <<>>
    <2>1. \A n \in 12 .. 17 : n = 12 \/ n = 13 \/ n = 14 \/ n = 15 \/ n = 16 \/ n = 17
      OBVIOUS
    <2> QED
      BY <1>1, <2>1 DEF NthCells, PartCells
  <1> QED
    BY <1>1, <1>2, <1>4 DEF NthCells, PartCells

(* Nothing is read where nothing is written. *)
LEMMA ReadsNothing ==
    ASSUME NEW D, NEW d \in Seq(D), NEW o \in Nat, NEW e
    PROVE  Reads(d, o, <<>>, e) <=> e = o /\ o <= Len(d) + 1
  <1>1. Len(<<>>) = 0 /\ o + 0 = o /\ Len(d) \in Nat
    OBVIOUS
  <1>2. \A i \in 1 .. 0 : d[o + i - 1] = <<>>[i]
    OBVIOUS
  <1> QED
    BY <1>1, <1>2 DEF Reads, At

(* The five numbers that come first are read one after another. *)
LEMMA ReadsFixed ==
    ASSUME NEW s \in Sample, NEW f \in Format, NEW D, NEW d \in Seq(D), NEW o \in Nat, NEW e,
           Reads(d, o, FixedCells(s), e)
    PROVE  /\ e = o + 5
           /\ \A n \in 1 .. 5 : Reads(d, o + n - 1, NthCells(s, f, n), o + n)
  <1> PICK c1, c2, c3, c4, c5 : /\ c1 = s.usage /\ c2 = s.irq /\ c3 = s.used
                                /\ c4 = Cut(s.running) /\ c5 = s.users % UserLimit
    OBVIOUS
  <1>1. FixedCells(s) = <<c1, c2, c3, c4, c5>>
    BY DEF FixedCells, Cut
  <1>2. Len(<<c1, c2, c3, c4, c5>>) = 5
    OBVIOUS
  <1>3. /\ \A i \in 1 .. 5 : d[o + i - 1] = <<c1, c2, c3, c4, c5>>[i]
        /\ o + 5 <= Len(d) + 1 /\ e = o + 5
    BY <1>1, <1>2 DEF Reads, At
  <1>4. d[o] = c1 /\ d[o + 1] = c2 /\ d[o + 2] = c3 /\ d[o + 3] = c4 /\ d[o + 4] = c5
    <2>1. /\ d[o + 1 - 1] = c1 /\ d[o + 2 - 1] = c2 /\ d[o + 3 - 1] = c3
          /\ d[o + 4 - 1] = c4 /\ d[o + 5 - 1] = c5
      BY <1>3
    <2> QED
      BY <2>1
  <1>5. ASSUME NEW m \in Nat, NEW c, d[m] = c, m + 1 <= Len(d) + 1
        PROVE  Reads(d, m, <<c>>, m + 1)
    <2>1. Len(<<c>>) = 1 /\ <<c>>[1] = c
      OBVIOUS
    <2>2. \A i \in 1 .. 1 : d[m + i - 1] = <<c>>[i]
      <3>1. \A i \in 1 .. 1 : i = 1 /\ m + i - 1 = m
        OBVIOUS
      <3> QED
        BY <1>5, <2>1, <3>1
    <2> QED
      BY <1>5, <2>1, <2>2 DEF Reads, At
  <1>6. Len(d) \in Nat
    OBVIOUS
  <1>7. /\ NthCells(s, f, 1) = <<c1>> /\ NthCells(s, f, 2) = <<c2>> /\ NthCells(s, f, 3) = <<c3>>
        /\ NthCells(s, f, 4) = <<c4>> /\ NthCells(s, f, 5) = <<c5>>
    BY NthAre
  <1>8. ASSUME NEW n \in 1 .. 5, NEW c, d[o + n - 1] = c
        PROVE  Reads(d, o + n - 1, <<c>>, o + n)
    <2>1. o + n - 1 \in Nat /\ (o + n - 1) + 1 = o + n /\ o + n <= Len(d) + 1
      BY <1>3, <1>6
    <2> QED
      BY <1>5, <1>8, <2>1
  <1>9. \A n \in 1 .. 5 : n = 1 \/ n = 2 \/ n = 3 \/ n = 4 \/ n = 5
    OBVIOUS
  <1>10. \A n \in 1 .. 5 : NthCells(s, f, n) = <<d[o + n - 1]>>
    <2>1. o + 1 - 1 = o /\ o + 2 - 1 = o + 1 /\ o + 3 - 1 = o + 2 /\ o + 4 - 1 = o + 3 /\ o + 5 - 1 = o + 4
      OBVIOUS
    <2> QED
      BY <1>4, <1>7, <1>9, <2>1
  <1> QED
    BY <1>3, <1>8, <1>10

(* What is written for a sample. *)
LEMMA CellsType ==
    ASSUME NEW s \in Sample, NEW f \in Format
    PROVE  SampleCells(s, f) \in Seq(Cell) /\ Len(SampleCells(s, f)) > 0
  <1> DEFINE N(n) == NthCells(s, f, n)
  <1> PICK fixed, six, apps : /\ fixed = FixedCells(s)
                              /\ six = N(6) \o N(7) \o N(8) \o N(9) \o N(10) \o N(11)
                              /\ apps = IF f.apps THEN AppCells(s, f) ELSE <<>>
    OBVIOUS
  <1>1. \A n \in 1 .. 17 : N(n) \in Seq(Cell)
    BY NthAre
  <1>2. VariableCells(s, f) = six \o apps
    BY NthAre DEF VariableCells
  <1>3. f.apps => apps = N(12) \o N(13) \o N(14) \o N(15) \o N(16) \o N(17)
    BY NthAre DEF AppCells
  <1>4. fixed \in Seq(Cell) /\ Len(fixed) = 5
    <2> PICK c1, c2, c3, c4, c5 : /\ c1 = s.usage /\ c2 = s.irq /\ c3 = s.used
                                  /\ c4 = Cut(s.running) /\ c5 = s.users % UserLimit
      OBVIOUS
    <2>1. fixed = <<c1, c2, c3, c4, c5>>
      BY DEF FixedCells, Cut
    <2>2. HasFields(s)
      BY SampleIs
    <2>8. s["running"] \in Nat /\ s["users"] \in Nat
      BY <2>2 DEF HasFields
    <2>6. Cut(s["running"]) \in Int /\ s["users"] % UserLimit \in Int
      BY ONLY <2>8, CodecAssumption DEF Cut
    <2>4. Cut(s.running) \in Int /\ s.users % UserLimit \in Int
      BY <2>6
    <2>5. s.usage \in Int /\ s.irq \in Int /\ s.used \in Int
      BY <2>2 DEF HasFields
    <2>3. c1 \in Cell /\ c2 \in Cell /\ c3 \in Cell /\ c4 \in Cell /\ c5 \in Cell
      BY <2>4, <2>5 DEF Cell
    <2> QED
      BY <2>1, <2>3
  <1>5. six \in Seq(Cell) /\ apps \in Seq(Cell)
    <2> HIDE DEF N
    <2>5. /\ N(6) \in Seq(Cell) /\ N(7) \in Seq(Cell) /\ N(8) \in Seq(Cell)
          /\ N(9) \in Seq(Cell) /\ N(10) \in Seq(Cell) /\ N(11) \in Seq(Cell)
          /\ N(12) \in Seq(Cell) /\ N(13) \in Seq(Cell) /\ N(14) \in Seq(Cell)
          /\ N(15) \in Seq(Cell) /\ N(16) \in Seq(Cell) /\ N(17) \in Seq(Cell)
      BY <1>1
    <2>1. six \in Seq(Cell)
      BY ONLY <2>5, SixTyped, six = N(6) \o N(7) \o N(8) \o N(9) \o N(10) \o N(11)
    <2>3. CASE f.apps
      <3>1. apps = N(12) \o N(13) \o N(14) \o N(15) \o N(16) \o N(17)
        BY <1>3, <2>3
      <3> QED
        BY ONLY <2>1, <2>5, <3>1, SixTyped
    <2>4. CASE ~f.apps
      <3>1. apps = <<>> /\ <<>> \in Seq(Cell)
        BY <2>4
      <3> QED
        BY <2>1, <3>1
    <2> QED
      BY <2>3, <2>4
  <1>6. six \o apps \in Seq(Cell) /\ SampleCells(s, f) = fixed \o (six \o apps)
    BY <1>2, <1>5, ConcatProperties DEF SampleCells
  <1>7. SampleCells(s, f) \in Seq(Cell) /\ Len(SampleCells(s, f)) > 0
    <2> PICK v : v = six \o apps
      OBVIOUS
    <2>1. v \in Seq(Cell) /\ SampleCells(s, f) = fixed \o v
      BY <1>6
    <2>2. fixed \o v \in Seq(Cell) /\ Len(fixed \o v) = Len(fixed) + Len(v) /\ Len(v) \in Nat
      <3>1. fixed \in Seq(Cell)
        BY <1>4
      <3>2. v \in Seq(Cell)
        BY <2>1
      <3> QED
        BY ONLY <3>1, <3>2, ConcatProperties
    <2>3. Len(fixed \o v) > 0
      BY ONLY <1>4, <2>2
    <2> QED
      BY <2>1, <2>2, <2>3
  <1> QED
    BY <1>7

(* The places of the parts of a sample. *)
LEMMA SampleOffsets ==
    ASSUME NEW s \in Sample, NEW f \in Format, NEW D, NEW d \in Seq(D), NEW o \in Nat, NEW e,
           Reads(d, o, SampleCells(s, f), e)
    PROVE  \E off \in [0 .. 17 -> Nat] :
               /\ off[0] = o /\ off[17] = e
               /\ \A n \in 1 .. 17 : Reads(d, off[n - 1], NthCells(s, f, n), off[n])
               /\ ~f.gpu => off[10] = e
  <1> DEFINE N(n) == NthCells(s, f, n)
  <1> PICK fixed, six, apps : /\ fixed = FixedCells(s)
                              /\ six = N(6) \o N(7) \o N(8) \o N(9) \o N(10) \o N(11)
                              /\ apps = IF f.apps THEN AppCells(s, f) ELSE <<>>
    OBVIOUS
  <1>1. \A n \in 1 .. 17 : N(n) \in Seq(Cell)
    BY NthAre
  <1>2. VariableCells(s, f) = six \o apps
    BY NthAre DEF VariableCells
  <1>3. f.apps => apps = N(12) \o N(13) \o N(14) \o N(15) \o N(16) \o N(17)
    BY NthAre DEF AppCells
  <1>4. fixed \in Seq(Cell) /\ Len(fixed) = 5
    <2> PICK c1, c2, c3, c4, c5 : /\ c1 = s.usage /\ c2 = s.irq /\ c3 = s.used
                                  /\ c4 = Cut(s.running) /\ c5 = s.users % UserLimit
      OBVIOUS
    <2>1. fixed = <<c1, c2, c3, c4, c5>>
      BY DEF FixedCells, Cut
    <2>2. HasFields(s)
      BY SampleIs
    <2>8. s["running"] \in Nat /\ s["users"] \in Nat
      BY <2>2 DEF HasFields
    <2>6. Cut(s["running"]) \in Int /\ s["users"] % UserLimit \in Int
      BY ONLY <2>8, CodecAssumption DEF Cut
    <2>4. Cut(s.running) \in Int /\ s.users % UserLimit \in Int
      BY <2>6
    <2>5. s.usage \in Int /\ s.irq \in Int /\ s.used \in Int
      BY <2>2 DEF HasFields
    <2>3. c1 \in Cell /\ c2 \in Cell /\ c3 \in Cell /\ c4 \in Cell /\ c5 \in Cell
      BY <2>4, <2>5 DEF Cell
    <2> QED
      BY <2>1, <2>3
  <1>5. six \in Seq(Cell) /\ apps \in Seq(Cell)
    <2> HIDE DEF N
    <2>5. /\ N(6) \in Seq(Cell) /\ N(7) \in Seq(Cell) /\ N(8) \in Seq(Cell)
          /\ N(9) \in Seq(Cell) /\ N(10) \in Seq(Cell) /\ N(11) \in Seq(Cell)
          /\ N(12) \in Seq(Cell) /\ N(13) \in Seq(Cell) /\ N(14) \in Seq(Cell)
          /\ N(15) \in Seq(Cell) /\ N(16) \in Seq(Cell) /\ N(17) \in Seq(Cell)
      BY <1>1
    <2>1. six \in Seq(Cell)
      BY ONLY <2>5, SixTyped, six = N(6) \o N(7) \o N(8) \o N(9) \o N(10) \o N(11)
    <2>3. CASE f.apps
      <3>1. apps = N(12) \o N(13) \o N(14) \o N(15) \o N(16) \o N(17)
        BY <1>3, <2>3
      <3> QED
        BY ONLY <2>1, <2>5, <3>1, SixTyped
    <2>4. CASE ~f.apps
      <3>1. apps = <<>> /\ <<>> \in Seq(Cell)
        BY <2>4
      <3> QED
        BY <2>1, <3>1
    <2> QED
      BY <2>3, <2>4
  <1>6. six \o apps \in Seq(Cell) /\ SampleCells(s, f) = fixed \o (six \o apps)
    BY <1>2, <1>5, ConcatProperties DEF SampleCells
  <1> HIDE DEF N
  <1>8. PICK m5 \in Nat : Reads(d, o, fixed, m5) /\ Reads(d, m5, six \o apps, e)
    <2>1. Reads(d, o, fixed \o (six \o apps), e)
      BY <1>6
    <2> QED
      BY ONLY <1>4, <1>6, <2>1, d \in Seq(D), o \in Nat, ReadsConcat
  <1>9. PICK m11 \in Nat : Reads(d, m5, six, m11) /\ Reads(d, m11, apps, e)
    BY ONLY <1>5, <1>8, d \in Seq(D), ReadsConcat
  <1>10. PICK m6, m7, m8, m9, m10 \in Nat :
             /\ Reads(d, m5, N(6), m6) /\ Reads(d, m6, N(7), m7) /\ Reads(d, m7, N(8), m8)
             /\ Reads(d, m8, N(9), m9) /\ Reads(d, m9, N(10), m10) /\ Reads(d, m10, N(11), m11)
    <2> PICK a, b, c, p, q, r : /\ a = N(6) /\ b = N(7) /\ c = N(8)
                                /\ p = N(9) /\ q = N(10) /\ r = N(11)
      OBVIOUS
    <2>1. /\ a \in Seq(Cell) /\ b \in Seq(Cell) /\ c \in Seq(Cell)
          /\ p \in Seq(Cell) /\ q \in Seq(Cell) /\ r \in Seq(Cell)
      BY <1>1
    <2>2. Reads(d, m5, a \o b \o c \o p \o q \o r, m11)
      BY <1>9
    <2>3. SixRead(d, m5, a, b, c, p, q, r, m11)
      BY ONLY <2>1, <2>2, d \in Seq(D), m5 \in Nat, ReadsSix
    <2> QED
      BY <2>3 DEF SixRead
  <1>11. e \in Nat
    BY <1>9 DEF Reads
  <1>12. PICK m12, m13, m14, m15, m16 \in Nat :
             /\ Reads(d, m11, N(12), m12) /\ Reads(d, m12, N(13), m13)
             /\ Reads(d, m13, N(14), m14) /\ Reads(d, m14, N(15), m15)
             /\ Reads(d, m15, N(16), m16) /\ Reads(d, m16, N(17), e)
    <2>1. CASE f.apps
      <3> PICK a, b, c, p, q, r : /\ a = N(12) /\ b = N(13) /\ c = N(14)
                                  /\ p = N(15) /\ q = N(16) /\ r = N(17)
        OBVIOUS
      <3>1. /\ a \in Seq(Cell) /\ b \in Seq(Cell) /\ c \in Seq(Cell)
            /\ p \in Seq(Cell) /\ q \in Seq(Cell) /\ r \in Seq(Cell)
        BY <1>1
      <3>2. Reads(d, m11, a \o b \o c \o p \o q \o r, e)
        BY <1>3, <1>9, <2>1
      <3>3. SixRead(d, m11, a, b, c, p, q, r, e)
        BY ONLY <3>1, <3>2, d \in Seq(D), m11 \in Nat, ReadsSix
      <3> QED
        BY <3>3 DEF SixRead
    <2>2. CASE ~f.apps
      <3>1. apps = <<>> /\ \A n \in 12 .. 17 : N(n) = <<>>
        BY <2>2, NthAre DEF N
      <3>2. e = m11 /\ Reads(d, m11, <<>>, m11)
        BY <1>9, <3>1, ReadsNothing
      <3>3. /\ N(12) = <<>> /\ N(13) = <<>> /\ N(14) = <<>>
            /\ N(15) = <<>> /\ N(16) = <<>> /\ N(17) = <<>>
        BY <3>1
      <3>4. /\ Reads(d, m11, N(12), m11) /\ Reads(d, m11, N(13), m11)
            /\ Reads(d, m11, N(14), m11) /\ Reads(d, m11, N(15), m11)
            /\ Reads(d, m11, N(16), m11) /\ Reads(d, m11, N(17), e)
        BY <3>2, <3>3
      <3> QED
        BY <3>4
    <2> QED
      BY <2>1, <2>2
  <1>13. m5 = o + 5 /\ \A n \in 1 .. 5 : Reads(d, o + n - 1, N(n), o + n)
    BY <1>8, ReadsFixed DEF N
  <1>14. ~f.gpu => m10 = e
    <2> SUFFICES ASSUME ~f.gpu PROVE m10 = e
      OBVIOUS
    <2>1. ~f.apps
      BY DEF Format
    <2>2. N(11) = <<>> /\ apps = <<>>
      BY <2>1, NthAre DEF N
    <2>3. m11 = m10 /\ e = m11
      BY <1>9, <1>10, <2>2, ReadsNothing
    <2> QED
      BY <2>3
  <1> DEFINE off == [n \in 0 .. 17 |->
                        IF n <= 5 THEN o + n
                        ELSE IF n = 6 THEN m6 ELSE IF n = 7 THEN m7 ELSE IF n = 8 THEN m8
                        ELSE IF n = 9 THEN m9 ELSE IF n = 10 THEN m10 ELSE IF n = 11 THEN m11
                        ELSE IF n = 12 THEN m12 ELSE IF n = 13 THEN m13 ELSE IF n = 14 THEN m14
                        ELSE IF n = 15 THEN m15 ELSE IF n = 16 THEN m16 ELSE e]
  <1>15. off \in [0 .. 17 -> Nat]
    BY <1>11
  <1>16. /\ off[0] = o /\ off[5] = m5 /\ off[6] = m6 /\ off[7] = m7 /\ off[8] = m8
         /\ off[9] = m9 /\ off[10] = m10 /\ off[11] = m11 /\ off[12] = m12 /\ off[13] = m13
         /\ off[14] = m14 /\ off[15] = m15 /\ off[16] = m16 /\ off[17] = e
    BY <1>13
  <1>17. \A n \in 1 .. 5 : off[n - 1] = o + n - 1 /\ off[n] = o + n
    <2> TAKE n \in 1 .. 5
    <2>1. n \in 0 .. 17 /\ n - 1 \in 0 .. 17 /\ n <= 5 /\ n - 1 <= 5 /\ o + (n - 1) = o + n - 1
      OBVIOUS
    <2>2. off[n] = o + n
      BY <2>1
    <2>3. off[n - 1] = o + (n - 1)
      BY <2>1
    <2> QED
      BY <2>1, <2>2, <2>3
  <1> HIDE DEF off
  <1>18. \A n \in 1 .. 5 : Reads(d, off[n - 1], N(n), off[n])
    BY <1>13, <1>17
  <1>19. \A n \in 6 .. 17 : Reads(d, off[n - 1], N(n), off[n])
    <2>1. \A n \in 6 .. 17 : \/ n = 6 \/ n = 7 \/ n = 8 \/ n = 9 \/ n = 10 \/ n = 11
                             \/ n = 12 \/ n = 13 \/ n = 14 \/ n = 15 \/ n = 16 \/ n = 17
      OBVIOUS
    <2>2. /\ Reads(d, off[5], N(6), off[6]) /\ Reads(d, off[6], N(7), off[7])
          /\ Reads(d, off[7], N(8), off[8]) /\ Reads(d, off[8], N(9), off[9])
          /\ Reads(d, off[9], N(10), off[10]) /\ Reads(d, off[10], N(11), off[11])
          /\ Reads(d, off[11], N(12), off[12]) /\ Reads(d, off[12], N(13), off[13])
          /\ Reads(d, off[13], N(14), off[14]) /\ Reads(d, off[14], N(15), off[15])
          /\ Reads(d, off[15], N(16), off[16]) /\ Reads(d, off[16], N(17), off[17])
      BY <1>10, <1>12, <1>16
    <2> TAKE n \in 6 .. 17
    <2>3. CASE n = 6 \/ n = 7 \/ n = 8
      BY <2>2, <2>3
    <2>4. CASE n = 9 \/ n = 10 \/ n = 11
      BY <2>2, <2>4
    <2>5. CASE n = 12 \/ n = 13 \/ n = 14
      BY <2>2, <2>5
    <2>6. CASE n = 15 \/ n = 16 \/ n = 17
      BY <2>2, <2>6
    <2> QED
      BY <2>1, <2>3, <2>4, <2>5, <2>6
  <1>20. \A n \in 1 .. 17 : Reads(d, off[n - 1], N(n), off[n])
    <2>1. \A n \in 1 .. 17 : n \in 1 .. 5 \/ n \in 6 .. 17
      OBVIOUS
    <2> QED
      BY <1>18, <1>19, <2>1
  <1>21. ~f.gpu => off[10] = e
    BY <1>14, <1>16
  <1> QED
    BY <1>15, <1>16, <1>20, <1>21 DEF N

\* What is told of a sample: its parts, and the timestamp of the record.
Told(s, f, ts) == [x \in Fields |-> IF x = "ts" THEN ts ELSE PartTold(s, f, x)]

(* Counting the parts. *)
LEMMA Seventeen ==
    /\ \A k \in 1 .. 17 : k - 1 \in 0 .. 17 /\ k \in 0 .. 17 /\ k # 0
    /\ \A k \in 1 .. 17 : 1 .. k = (1 .. k - 1) \union {k}
  <1>1. ASSUME NEW k \in Int, 1 <= k PROVE 1 .. k = (1 .. k - 1) \union {k}
    <2>1. \A i : i \in 1 .. k <=> i \in (1 .. k - 1) \union {k}
      BY ONLY k \in Int, 1 <= k
    <2> QED
      BY <2>1
  <1>2. \A k \in 1 .. 17 : k - 1 \in 0 .. 17 /\ k \in 0 .. 17 /\ k # 0
    OBVIOUS
  <1>3. \A k \in 1 .. 17 : k \in Int /\ 1 <= k
    OBVIOUS
  <1> QED
    BY <1>1, <1>2, <1>3

(* A part that is read, or that is beyond the end of the data.               *)
LEMMA NextPart ==
    ASSUME NEW s \in Sample, NEW f \in Format, NEW part \in PartNames,
           NEW flags, FlagsOf(flags, f), NEW D, NEW d \in Seq(D), NEW o \in Nat, NEW e,
           Reads(d, o, PartCells(s, f, part), e),
           part = "gpu" /\ ~f.gpu => o > Len(d)
    PROVE  /\ o > Len(d) => PartTold(s, f, part) = absent /\ e = o
           /\ ~(o > Len(d)) => /\ PartAt(d, o, part, flags).value = PartTold(s, f, part)
                               /\ PartAt(d, o, part, flags).end = e
  <1> PICK cells, n : cells = PartCells(s, f, part) /\ n = Len(cells)
    OBVIOUS
  <1>1. cells \in Seq(Cell) /\ n \in Nat /\ Len(d) \in Nat
    BY PartType
  <1>2. At(d, o, cells) /\ e = o + n /\ o + n <= Len(d) + 1
    BY DEF Reads, At
  <1>3. CASE o > Len(d)
    <2>1. n = 0 /\ e = o
      BY ONLY <1>1, <1>2, <1>3, o \in Nat
    <2>4. ~Unwritten(f, part) => n > 0
      BY PartType
    <2>2. Unwritten(f, part)
      BY ONLY <2>1, <2>4
    <2>3. PartTold(s, f, part) = <<>>
      BY <2>2, PartIs
    <2> QED
      BY <1>3, <2>1, <2>3 DEF absent
  <1>4. CASE ~(o > Len(d))
    <2>1. PartAt(d, o, part, flags) = [value |-> PartTold(s, f, part), end |-> o + n]
      BY <1>2, <1>4, PartRead
    <2> QED
      BY <1>2, <1>4, <2>1
  <1> QED
    BY <1>3, <1>4

(* A sample is read where it is.  Without a GPU section nothing may follow.  *)
LEMMA SampleRead ==
    ASSUME NEW s \in Sample, NEW f \in Format, NEW flags, FlagsOf(flags, f),
           NEW D, NEW d \in Seq(D), NEW o \in Nat, NEW e, NEW ts,
           Reads(d, o, SampleCells(s, f), e), f.gpu \/ e = Len(d) + 1
    PROVE  SampleAt(d, o, ts, flags) = [value |-> Told(s, f, ts), end |-> e]
  <1>13. ASSUME NEW m \in Nat, NEW x, NEW p \in PartNames,
                Reads(d, m, PartCells(s, f, p), x), p = "gpu" /\ ~f.gpu => m > Len(d)
         PROVE  /\ m > Len(d) => PartTold(s, f, p) = absent /\ x = m
                /\ ~(m > Len(d)) => /\ PartAt(d, m, p, flags).value = PartTold(s, f, p)
                                    /\ PartAt(d, m, p, flags).end = x
    BY <1>13, NextPart
  <1> PICK off \in [0 .. 17 -> Nat] :
          /\ off[0] = o /\ off[17] = e
          /\ \A n \in 1 .. 17 : Reads(d, off[n - 1], NthCells(s, f, n), off[n])
          /\ ~f.gpu => off[10] = e
    BY SampleOffsets
  <1> DEFINE first == [ts |-> ts, retrans |-> 0, psu |-> absent]
  <1> DEFINE Upto(k) == {"ts"} \union Unstored \union {Parts[i] : i \in 1 .. k}
             Got(k) == [x \in Upto(k) |-> IF x = "ts" THEN ts ELSE PartTold(s, f, x)]
             Round(k, before) ==
                 LET next == IF before.end > Len(d) THEN [value |-> absent, end |-> before.end]
                             ELSE PartAt(d, before.end, Parts[k], flags)
                 IN [value |-> With(before.value, Parts[k], next.value), end |-> next.end]
             Step(g) == [k \in 0 .. Len(Parts) |->
                            IF k = 0 THEN [value |-> first, end |-> o]
                            ELSE Round(k, g[k - 1])]
             w == [k \in 0 .. 17 |-> [value |-> Got(k), end |-> off[k]]]
  <1>1. Got(0) = first
    <2>1. Upto(0) = {"ts", "retrans", "psu"}
      BY DEF Unstored
    <2>2. Got(0) = [x \in {"ts", "retrans", "psu"} |->
                       IF x = "ts" THEN ts ELSE PartTold(s, f, x)]
      BY <2>1
    <2>3. PartTold(s, f, "retrans") = 0 /\ PartTold(s, f, "psu") = absent
      BY DEF PartTold
    <2>4. first = [x \in {"ts", "retrans", "psu"} |->
                      IF x = "ts" THEN ts ELSE PartTold(s, f, x)]
      BY <2>3
    <2> HIDE DEF Got, first
    <2> QED
      BY <2>2, <2>4
  <1>2. Got(17) = Told(s, f, ts)
    <2>2. Upto(17) = Fields
      BY PartsAre
    <2> HIDE DEF Upto
    <2> QED
      BY <2>2 DEF Told
  <1>12. \A k \in 1 .. 17 : k - 1 \in 0 .. 17 /\ k \in 0 .. 17 /\ k # 0
    BY Seventeen
  <1>3. ASSUME NEW k \in 1 .. 17
        PROVE  With(Got(k - 1), Parts[k], PartTold(s, f, Parts[k])) = Got(k)
    <2>1. Upto(k) = Upto(k - 1) \union {Parts[k]}
      <3>1. 1 .. k = (1 .. k - 1) \union {k}
        BY Seventeen
      <3> QED
        BY <3>1
    <2>2. Parts[k] # "ts"
      BY PartsAre DEF PartNames
    <2> PICK u, v, p : u = Upto(k - 1) /\ v = Upto(k) /\ p = Parts[k]
      OBVIOUS
    <2>3. DOMAIN Got(k - 1) = u /\ v = u \union {p} /\ p # "ts"
      BY <2>1, <2>2
    <2>4. Got(k) = [x \in u \union {p} |-> IF x = "ts" THEN ts ELSE PartTold(s, f, x)]
      BY <2>3
    <2>5. \A x \in u : Got(k - 1)[x] = IF x = "ts" THEN ts ELSE PartTold(s, f, x)
      OBVIOUS
    <2>6. With(Got(k - 1), p, PartTold(s, f, p))
            = [x \in u \union {p} |-> IF x = p THEN PartTold(s, f, p) ELSE Got(k - 1)[x]]
      BY <2>3 DEF With
    <2>7. ASSUME NEW x \in u \union {p}
          PROVE  (IF x = p THEN PartTold(s, f, p) ELSE Got(k - 1)[x])
                     = IF x = "ts" THEN ts ELSE PartTold(s, f, x)
      <3> HIDE DEF Got
      <3> QED
        BY <2>3, <2>5
    <2> HIDE DEF Got
    <2>8. With(Got(k - 1), p, PartTold(s, f, p)) = Got(k)
      BY ONLY <2>4, <2>6, <2>7
    <2> QED
      BY <2>8
  <1>4. ASSUME NEW k \in 1 .. 17
        PROVE  Round(k, [value |-> Got(k - 1), end |-> off[k - 1]])
                   = [value |-> Got(k), end |-> off[k]]
    <2>1. off[k - 1] \in Nat /\ Parts[k] \in PartNames
      <3>1. k - 1 \in 0 .. 17
        OBVIOUS
      <3> QED
        BY <3>1, PartsAre
    <2>2. Reads(d, off[k - 1], PartCells(s, f, Parts[k]), off[k])
      BY DEF NthCells
    <2>3. Parts[k] = "gpu" /\ ~f.gpu => off[k - 1] > Len(d)
      <3> SUFFICES ASSUME Parts[k] = "gpu", ~f.gpu PROVE off[k - 1] > Len(d)
        OBVIOUS
      <3>1. k = 11
        BY PartsAre
      <3>2. off[k - 1] = e /\ e = Len(d) + 1 /\ Len(d) \in Nat
        <4>1. k - 1 = 10 /\ Len(d) \in Nat
          BY ONLY <3>1, d \in Seq(D)
        <4>2. off[10] = e /\ e = Len(d) + 1
          OBVIOUS
        <4> QED
          BY ONLY <4>1, <4>2
      <3> QED
        BY ONLY <3>2
    <2> HIDE DEF Got
    <2> PICK g, r, m, p : /\ r = [value |-> g, end |-> m] /\ g = Got(k - 1) /\ m = off[k - 1]
                          /\ p = Parts[k]
      OBVIOUS
    <2> PICK x : x = off[k]
      OBVIOUS
    <2>4. m \in Nat /\ p \in PartNames /\ Reads(d, m, PartCells(s, f, p), x)
      BY <2>1, <2>2
    <2>10. p = "gpu" /\ ~f.gpu => m > Len(d)
      BY <2>3
    <2>11. /\ m > Len(d) => PartTold(s, f, p) = absent /\ x = m
           /\ ~(m > Len(d)) => /\ PartAt(d, m, p, flags).value = PartTold(s, f, p)
                               /\ PartAt(d, m, p, flags).end = x
      BY ONLY <1>13, <2>4, <2>10
    <2>5. r.end = m /\ r.value = g
      OBVIOUS
    <2>6. PICK next : next = IF m > Len(d) THEN [value |-> absent, end |-> m]
                             ELSE PartAt(d, m, p, flags)
      OBVIOUS
    <2>7. next.value = PartTold(s, f, p) /\ next.end = off[k]
      <3>1. CASE m > Len(d)
        BY <2>6, <2>11, <3>1
      <3>2. CASE ~(m > Len(d))
        BY <2>6, <2>11, <3>2
      <3> QED
        BY <3>1, <3>2
    <2>8. Round(k, r) = [value |-> With(g, p, next.value), end |-> next.end]
      BY <2>5, <2>6
    <2>9. Round(k, r) = [value |-> Got(k), end |-> off[k]]
      BY <1>3, <2>7, <2>8
    <2> QED
      BY <2>9
  <1> HIDE DEF Got, Upto, Round, first
  <1>5. Len(Parts) = 17 /\ w[0] = [value |-> first, end |-> o] /\ w[17] = [value |-> Told(s, f, ts), end |-> e]
    BY <1>1, <1>2, PartsAre
  <1>6. \A k \in 1 .. 17 : w[k] = Round(k, w[k - 1])
    <2> TAKE k \in 1 .. 17
    <2>1. k - 1 \in 0 .. 17 /\ k \in 0 .. 17
      BY <1>12
    <2>2. w[k - 1] = [value |-> Got(k - 1), end |-> off[k - 1]] /\ w[k] = [value |-> Got(k), end |-> off[k]]
      BY <2>1
    <2> QED
      BY <1>4, <2>2
  <1> HIDE DEF w
  <1>7. w = Step(w)
    <2>1. ASSUME NEW k \in 0 .. 17 PROVE w[k] = Step(w)[k]
      <3>1. CASE k = 0
        BY <1>5, <3>1
      <3>2. CASE k # 0
        <4>1. k \in 1 .. 17
          BY <3>2
        <4> QED
          BY <1>5, <1>6, <3>2, <4>1
      <3> QED
        BY <3>1, <3>2
    <2>2. w = [k \in 0 .. 17 |-> w[k]]
      BY DEF w
    <2>3. Step(w) = [k \in 0 .. 17 |-> Step(w)[k]]
      BY <1>5
    <2> HIDE DEF Step
    <2> QED
      BY <2>1, <2>2, <2>3
  <1> DEFINE g == CHOOSE h : h = Step(h)
  <1>8. g = Step(g)
    <2> HIDE DEF Step
    <2> QED
      BY <1>7
  <1>9. SampleAt(d, o, ts, flags) = g[17]
    BY <1>5 DEF SampleAt, Round, first
  <1> HIDE DEF g
  <1>10. \A k \in 0 .. 17 : k \in {m \in 0 .. 17 : g[m] = w[m]}
    <2> DEFINE S == {m \in 0 .. 17 : g[m] = w[m]}
    <2>5. g[0] = [value |-> first, end |-> o]
      <3>1. 0 \in 0 .. Len(Parts)
        BY <1>5
      <3>2. g[0] = Step(g)[0]
        BY <1>8
      <3> QED
        BY <3>1, <3>2
    <2>1. 0 \in S
      <3>1. 0 \in 0 .. 17
        OBVIOUS
      <3>2. g[0] = w[0]
        BY <1>5, <2>5
      <3> QED
        BY <3>1, <3>2
    <2>2. ASSUME NEW k \in 1 .. 17, k - 1 \in S PROVE k \in S
      <3>1. k \in 0 .. 17 /\ k # 0 /\ g[k - 1] = w[k - 1]
        BY <1>12, <2>2
      <3>2. g[k] = Step(g)[k]
        BY <1>8
      <3>3. Step(g)[k] = Round(k, g[k - 1])
        BY <1>5, <3>1
      <3> QED
        BY <1>6, <3>1, <3>2, <3>3
    <2>3. 17 \in Nat
      OBVIOUS
    <2> HIDE DEF S
    <2>4. \A k \in 0 .. 17 : k \in S
      BY ONLY <2>1, <2>2, <2>3, UpTo
    <2> QED
      BY <2>4 DEF S
  <1>11. g[17] = w[17]
    BY <1>10
  <1> QED
    BY <1>5, <1>9, <1>11
-----------------------------------------------------------------------------
(* A sample, as the files hold it.                                           *)

(* A sample is not the missing one. *)
LEMMA NotNil ==
    ASSUME NEW s \in Sample
    PROVE  s # nil /\ DOMAIN s = Fields
  <1>1. s = [x \in Fields |-> s[x]]
    BY SampleIs DEF HasFields
  <1>2. DOMAIN s = Fields
    BY <1>1
  <1>3. DOMAIN nil = {}
    BY DEF nil
  <1>4. "ts" \in Fields
    BY DEF Fields
  <1> QED
    BY <1>2, <1>3, <1>4

\* What a file holds of a field.
StoredField(s, ts, x) ==
    IF x = "ts" THEN ts
    ELSE IF x = "running" THEN Cut(s["running"])
    ELSE IF x = "users" THEN s["users"] % UserLimit
    ELSE IF x = "retrans" THEN 0
    ELSE IF x = "psu" THEN <<>>
    ELSE s[x]

\* The fields that it does not hold as they are.
Altered == {"ts", "running", "users"} \union Unstored

(* A sample as far as a file can hold it, field by field. *)
LEMMA StorableIs ==
    ASSUME NEW s \in Sample, NEW ts
    PROVE  StorableSample(s, ts) = [x \in Fields |-> StoredField(s, ts, x)]
  <1>1. s = [x \in Fields |-> s[x]] /\ s # nil
    BY SampleIs, NotNil DEF HasFields
  <1>2. {"ts", "running", "users", "retrans", "psu"} \subseteq Fields
    BY DEF Fields
  <1> QED
    BY <1>1, <1>2 DEF StorableSample, StoredField, Cut

(* What a version keeps of a sample is what is told of its parts. *)
LEMMA SampleAsIs ==
    ASSUME NEW s \in Sample, NEW f \in Format, NEW ts
    PROVE  SampleAs(StorableSample(s, ts), f) = Told(s, f, ts)
  <1> PICK z : z = StorableSample(s, ts)
    OBVIOUS
  <1>1. z = [x \in Fields |-> StoredField(s, ts, x)]
    BY StorableIs
  <1>2. z = [x \in Fields |-> z[x]] /\ z # nil
    <2>1. DOMAIN z = Fields /\ DOMAIN nil = {} /\ "ts" \in Fields
      BY <1>1 DEF nil, Fields
    <2> QED
      BY <1>1, <2>1
  <1>3. \A x \in Fields : z[x] = StoredField(s, ts, x)
    BY <1>1
  <1> PICK old : old = [z EXCEPT !.gpu = IF f.gpu THEN @ ELSE <<>>]
    OBVIOUS
  <1>4. old = [x \in Fields |-> IF x = "gpu" THEN IF f.gpu THEN z["gpu"] ELSE <<>> ELSE z[x]]
    BY <1>2 DEF Fields
  <1>5. f.apps => f.gpu
    BY DEF Format
  <1>6. CASE ~f.apps
    <2>1. SampleAs(z, f) = [old EXCEPT !.nginx = absent, !.containers = <<>>, !.postgres = absent,
                                       !.mysql = absent, !.apache2 = absent, !.custom = <<>>]
      BY <1>2, <1>6 DEF SampleAs
    <2>2. SampleAs(z, f) = [x \in Fields |-> IF x \in AppParts THEN <<>> ELSE old[x]]
      <3> HIDE DEF SampleAs
      <3> QED
        BY <1>4, <2>1 DEF AppParts, Fields, absent
    <2>3. ASSUME NEW x \in Fields
          PROVE  (IF x \in AppParts THEN <<>> ELSE old[x])
                    = IF x = "ts" THEN ts ELSE PartTold(s, f, x)
      BY <1>3, <1>4, <1>6 DEF StoredField, PartTold, AppParts, Fields, absent
    <2> QED
      BY <2>2, <2>3 DEF Told
  <1>7. CASE f.apps
    <2>1. SampleAs(z, f) = [old EXCEPT !.postgres = First(@, f.postgres),
                               !.mysql = IF f.mysql THEN @ ELSE absent,
                               !.apache2 = IF f.apache2 = 0 THEN absent ELSE First(@, f.apache2)]
      BY <1>2, <1>7 DEF SampleAs, First
    <2>2. SampleAs(z, f) = [x \in Fields |->
                IF x = "postgres" THEN First(old["postgres"], f.postgres)
                ELSE IF x = "mysql" THEN IF f.mysql THEN old["mysql"] ELSE absent
                ELSE IF x = "apache2" THEN IF f.apache2 = 0 THEN absent
                                           ELSE First(old["apache2"], f.apache2)
                ELSE old[x]]
      BY <1>4, <2>1 DEF Fields
    <2>3. ASSUME NEW x \in Fields
          PROVE  (IF x = "postgres" THEN First(old["postgres"], f.postgres)
                  ELSE IF x = "mysql" THEN IF f.mysql THEN old["mysql"] ELSE absent
                  ELSE IF x = "apache2" THEN IF f.apache2 = 0 THEN absent
                                             ELSE First(old["apache2"], f.apache2)
                  ELSE old[x])
                    = IF x = "ts" THEN ts ELSE PartTold(s, f, x)
      <3>1. x # "gpu" => old[x] = z[x]
        BY <1>4
      <3>2. old["gpu"] = z["gpu"]
        BY <1>4, <1>5, <1>7 DEF Fields
      <3>3. old[x] = z[x]
        BY <3>1, <3>2
      <3>4. CASE x = "postgres"
        <4>1. old[x] = s[x]
          BY <1>3, <3>3, <3>4 DEF StoredField
        <4> QED
          BY <1>7, <3>4, <4>1 DEF PartTold, AppParts
      <3>5. CASE x = "mysql"
        <4>1. old[x] = s[x]
          BY <1>3, <3>3, <3>5 DEF StoredField
        <4> QED
          BY <1>7, <3>5, <4>1 DEF PartTold, AppParts, absent
      <3>6. CASE x = "apache2"
        <4>1. old[x] = s[x]
          BY <1>3, <3>3, <3>6 DEF StoredField
        <4> QED
          BY <1>7, <3>6, <4>1 DEF PartTold, AppParts, absent
      <3>7. CASE x \notin {"postgres", "mysql", "apache2"}
        <4>1. z[x] = IF x = "ts" THEN ts ELSE PartTold(s, f, x)
          BY <1>3, <1>5, <1>7, <3>7 DEF StoredField, PartTold, absent
        <4> QED
          BY <3>3, <3>7, <4>1
      <3> QED
        BY <3>4, <3>5, <3>6, <3>7
    <2> QED
      BY <2>2, <2>3 DEF Told
  <1> QED
    BY <1>6, <1>7
-----------------------------------------------------------------------------
(* A record: its blocks one after the other.                                 *)

\* The records: an average, and two extremes that may be missing.
Rec == [ts : Nat, data : Sample, min : Sample \union {nil}, max : Sample \union {nil}]

\* What is told of a block.
ToldBlock(s, f, ts) == SampleAs(StorableSample(s, ts), f)

(* A block is written for the samples that are there only. *)
LEMMA BlockCellsType ==
    ASSUME NEW s \in Sample \union {nil}, NEW f \in Format
    PROVE  /\ BlockCells(s, f) \in Seq(Cell)
           /\ s = nil => BlockCells(s, f) = <<>>
           /\ s # nil => s \in Sample /\ BlockCells(s, f) = SampleCells(s, f)
  <1>1. CASE s = nil
    <2>1. BlockCells(s, f) = <<>> /\ <<>> \in Seq(Cell)
      BY <1>1 DEF BlockCells, nil, absent
    <2> QED
      BY <1>1, <2>1
  <1>2. CASE s # nil
    <2>1. s \in Sample /\ BlockCells(s, f) = SampleCells(s, f)
      BY <1>2 DEF BlockCells, nil, absent
    <2>2. SampleCells(s, f) \in Seq(Cell)
      BY <2>1, CellsType
    <2> QED
      BY <1>2, <2>1, <2>2
  <1> QED
    BY <1>1, <1>2

(* A block is there exactly when its flag is set.                            *)
LEMMA FlagsAre ==
    ASSUME NEW r \in Rec, NEW f \in Format
    PROVE  /\ FlagsOf(Flags(r, f), f)
           /\ "data" \in Flags(r, f)
           /\ "min" \in Flags(r, f) <=> r.min # nil
           /\ "max" \in Flags(r, f) <=> r.max # nil
  <1>1. r["data"] \in Sample /\ r["data"] # absent
    BY NotNil DEF Rec, nil, absent
  <1>2. r["min"] = r.min /\ r["max"] = r.max
    OBVIOUS
  <1> QED
    BY <1>1, <1>2 DEF Flags, FlagsOf, nil, absent

(* The samples of a record are read where they are.                          *)
LEMMA BlockRound ==
    ASSUME NEW s \in Sample \union {nil}, NEW f \in Format, NEW flags, FlagsOf(flags, f),
           NEW D, NEW d \in Seq(D), NEW o \in Nat, NEW e, NEW ts,
           Reads(d, o, BlockCells(s, f), e), s # nil => f.gpu \/ e = Len(d) + 1
    PROVE  s # nil => /\ SampleAt(d, o, ts, flags).value = ToldBlock(s, f, ts)
                      /\ SampleAt(d, o, ts, flags).end = e
  <1>1. CASE s # nil
    <2>1. s \in Sample /\ Reads(d, o, SampleCells(s, f), e) /\ (f.gpu \/ e = Len(d) + 1)
      BY <1>1, BlockCellsType
    <2>2. SampleAt(d, o, ts, flags) = [value |-> Told(s, f, ts), end |-> e]
      BY <2>1, SampleRead
    <2>3. ToldBlock(s, f, ts) = Told(s, f, ts)
      BY <2>1, SampleAsIs DEF ToldBlock
    <2> QED
      BY <1>1, <2>2, <2>3
  <1> QED
    BY <1>1

(* A missing sample takes no place and is told as missing. *)
LEMMA NoBlock ==
    ASSUME NEW s, s = nil, NEW f \in Format, NEW D, NEW d \in Seq(D), NEW o \in Nat, NEW e, NEW ts,
           Reads(d, o, BlockCells(s, f), e)
    PROVE  ToldBlock(s, f, ts) = absent /\ e = o
  <1>1. Reads(d, o, <<>>, e)
    BY BlockCellsType
  <1>2. e = o
    BY <1>1, ReadsNothing
  <1>3. ToldBlock(s, f, ts) = absent
    BY DEF ToldBlock, StorableSample, SampleAs, nil, absent
  <1> QED
    BY <1>2, <1>3

(* The two parts of a timestamp.                                             *)
LEMMA TimestampParts ==
    ASSUME NEW ts \in Nat
    PROVE  /\ ts % LowByte \in 0 .. LowByte - 1 /\ ts \div LowByte \in Nat
           /\ (ts % LowByte) + LowByte * (ts \div LowByte) = ts
  BY CodecAssumption

\* The blocks of a record, in their order.
BlocksOf(r, f) == BlockCells(r.data, f) \o BlockCells(r.min, f) \o BlockCells(r.max, f)

\* Without a GPU section there is but one sample.
Single(r, f) == f.gpu \/ (r.min = nil /\ r.max = nil)

(* The decoder, from the preamble on.                                        *)
LEMMA DecodeRead ==
    ASSUME NEW r \in Rec, NEW f \in Format, Single(r, f), NEW D, NEW d \in Seq(D),
           d[1] = r.ts % LowByte, d[2] = r.ts \div LowByte, d[3] = Flags(r, f),
           Reads(d, 4, BlocksOf(r, f), Len(d) + 1)
    PROVE  Decode(d) = RecordAs(Storable(r), f)
  <1> PICK ts, data, min, max, flags, last :
          /\ ts = r.ts /\ data = r.data /\ min = r.min /\ max = r.max /\ flags = Flags(r, f)
          /\ last = Len(d) + 1
    OBVIOUS
  <1>1. /\ ts \in Nat /\ data \in Sample \union {nil} /\ min \in Sample \union {nil}
        /\ max \in Sample \union {nil} /\ data # nil
    BY NotNil DEF Rec
  <1>2. /\ FlagsOf(flags, f) /\ "data" \in flags
        /\ ("min" \in flags <=> min # nil) /\ ("max" \in flags <=> max # nil)
    BY FlagsAre
  <1>3. d[1] + LowByte * d[2] = ts
    BY <1>1, TimestampParts
  <1> PICK a, b, c : a = BlockCells(data, f) /\ b = BlockCells(min, f) /\ c = BlockCells(max, f)
    OBVIOUS
  <1>4. a \in Seq(Cell) /\ b \in Seq(Cell) /\ c \in Seq(Cell) /\ a \o b \in Seq(Cell)
    <2>1. a \in Seq(Cell) /\ b \in Seq(Cell) /\ c \in Seq(Cell)
      BY <1>1, BlockCellsType
    <2> QED
      BY <2>1, ConcatProperties
  <1>5. PICK m2 \in Nat : Reads(d, 4, a \o b, m2) /\ Reads(d, m2, c, last)
    <2> PICK ab : ab = a \o b
      OBVIOUS
    <2>1. Reads(d, 4, ab \o c, last) /\ ab \in Seq(Cell) /\ 4 \in Nat
      BY <1>4 DEF BlocksOf
    <2>2. \E m \in Nat : Reads(d, 4, ab, m) /\ Reads(d, m, c, last)
      BY ONLY <1>4, <2>1, d \in Seq(D), ReadsConcat
    <2> QED
      BY <2>2
  <1>6. PICK m1 \in Nat : Reads(d, 4, a, m1) /\ Reads(d, m1, b, m2)
    <2>1. 4 \in Nat
      OBVIOUS
    <2> QED
      BY ONLY <1>4, <1>5, <2>1, d \in Seq(D), ReadsConcat
  <1>7. ~f.gpu => m1 = last /\ m2 = last
    <2> SUFFICES ASSUME ~f.gpu PROVE m1 = last /\ m2 = last
      OBVIOUS
    <2>1. min = nil /\ max = nil
      BY DEF Single
    <2>2. b = <<>> /\ c = <<>>
      BY <1>1, <2>1, BlockCellsType
    <2>3. m2 = m1 /\ last = m2
      BY <1>5, <1>6, <2>2, ReadsNothing
    <2> QED
      BY <2>3
  <1> DEFINE Block1 == SampleAt(d, 4, ts, flags)
             Block2 == SampleAt(d, m1, ts, flags)
             Block3 == SampleAt(d, m2, ts, flags)
  <1>8. Block1.value = ToldBlock(data, f, ts) /\ Block1.end = m1
    <2>1. data # nil => f.gpu \/ m1 = Len(d) + 1
      BY <1>7
    <2>2. 4 \in Nat
      OBVIOUS
    <2>3. Reads(d, 4, BlockCells(data, f), m1) /\ data \in Sample \union {nil} /\ FlagsOf(flags, f)
      BY <1>1, <1>2, <1>6
    <2> QED
      BY ONLY <1>1, <2>2, <2>1, <2>3, d \in Seq(D), f \in Format, BlockRound
  <1>9. /\ min # nil => Block2.value = ToldBlock(min, f, ts) /\ Block2.end = m2
        /\ min = nil => ToldBlock(min, f, ts) = absent /\ m2 = m1
    <2>1. min # nil => f.gpu \/ m2 = Len(d) + 1
      BY <1>7
    <2>3. Reads(d, m1, BlockCells(min, f), m2) /\ min \in Sample \union {nil} /\ FlagsOf(flags, f)
      BY <1>1, <1>2, <1>6
    <2>4. min # nil => Block2.value = ToldBlock(min, f, ts) /\ Block2.end = m2
      BY ONLY <1>1, <2>1, <2>3, d \in Seq(D), f \in Format, m1 \in Nat, BlockRound
    <2>5. min = nil => ToldBlock(min, f, ts) = absent /\ m2 = m1
      BY ONLY <1>1, <2>1, <2>3, d \in Seq(D), f \in Format, m1 \in Nat, NoBlock
    <2> QED
      BY <2>4, <2>5
  <1>10. /\ max # nil => Block3.value = ToldBlock(max, f, ts) /\ Block3.end = last
         /\ max = nil => ToldBlock(max, f, ts) = absent /\ last = m2
    <2>1. max # nil => f.gpu \/ last = Len(d) + 1
      OBVIOUS
    <2>3. Reads(d, m2, BlockCells(max, f), last) /\ max \in Sample \union {nil} /\ FlagsOf(flags, f)
      BY <1>1, <1>2, <1>5
    <2>4. max # nil => Block3.value = ToldBlock(max, f, ts) /\ Block3.end = last
      BY ONLY <1>1, <2>1, <2>3, d \in Seq(D), f \in Format, m2 \in Nat, BlockRound
    <2>5. max = nil => ToldBlock(max, f, ts) = absent /\ last = m2
      BY ONLY <1>1, <2>1, <2>3, d \in Seq(D), f \in Format, m2 \in Nat, NoBlock
    <2> QED
      BY <2>4, <2>5
  <1> PICK x, y, z : /\ x = ToldBlock(data, f, ts) /\ y = ToldBlock(min, f, ts)
                     /\ z = ToldBlock(max, f, ts)
    OBVIOUS
  <1> HIDE DEF Block1, Block2, Block3
  <1> DEFINE Round(n, before) ==
                 LET next == IF Blocks[n] \in d[3] THEN SampleAt(d, before.end, d[1] + LowByte * d[2], d[3])
                             ELSE [value |-> absent, end |-> before.end]
                 IN [value |-> With(before.value, Blocks[n], next.value), end |-> next.end]
             Step(g) == [n \in 0 .. Len(Blocks) |->
                            IF n = 0 THEN [value |-> [ts |-> d[1] + LowByte * d[2]], end |-> 4]
                            ELSE Round(n, g[n - 1])]
             v0 == [value |-> [ts |-> ts], end |-> 4]
             v1 == [value |-> [ts |-> ts, data |-> x], end |-> m1]
             v2 == [value |-> [ts |-> ts, data |-> x, min |-> y], end |-> m2]
             v3 == [value |-> [ts |-> ts, data |-> x, min |-> y, max |-> z], end |-> last]
             w == [n \in 0 .. 3 |-> IF n = 0 THEN v0 ELSE IF n = 1 THEN v1
                                    ELSE IF n = 2 THEN v2 ELSE v3]
  <1>11. Len(Blocks) = 3 /\ Blocks[1] = "data" /\ Blocks[2] = "min" /\ Blocks[3] = "max"
    BY DEF Blocks
  <1>12. Round(1, v0) = v1
    <2>1. Round(1, v0) = [value |-> With([ts |-> ts], "data", Block1.value), end |-> Block1.end]
      BY <1>2, <1>3, <1>11 DEF Block1
    <2>2. With([ts |-> ts], "data", x) = [ts |-> ts, data |-> x]
      BY DEF With
    <2> QED
      BY <1>8, <2>1, <2>2
  <1>13. Round(2, v1) = v2
    <2>1. With([ts |-> ts, data |-> x], "min", y) = [ts |-> ts, data |-> x, min |-> y]
      BY DEF With
    <2>2. CASE min # nil
      <3>1. Round(2, v1) = [value |-> With([ts |-> ts, data |-> x], "min", Block2.value), end |-> Block2.end]
        BY <1>2, <1>3, <1>11, <2>2 DEF Block2
      <3> QED
        BY <1>9, <2>1, <2>2, <3>1
    <2>3. CASE min = nil
      <3>1. Round(2, v1) = [value |-> With([ts |-> ts, data |-> x], "min", absent), end |-> m1]
        BY <1>2, <1>3, <1>11, <2>3
      <3> QED
        BY <1>9, <2>1, <2>3, <3>1
    <2> QED
      BY <2>2, <2>3
  <1>14. Round(3, v2) = v3
    <2>1. With([ts |-> ts, data |-> x, min |-> y], "max", z) = [ts |-> ts, data |-> x, min |-> y, max |-> z]
      BY DEF With
    <2>2. CASE max # nil
      <3>1. Round(3, v2) = [value |-> With([ts |-> ts, data |-> x, min |-> y], "max", Block3.value), end |-> Block3.end]
        BY <1>2, <1>3, <1>11, <2>2 DEF Block3
      <3> QED
        BY <1>10, <2>1, <2>2, <3>1
    <2>3. CASE max = nil
      <3>1. Round(3, v2) = [value |-> With([ts |-> ts, data |-> x, min |-> y], "max", absent), end |-> m2]
        BY <1>2, <1>3, <1>11, <2>3
      <3> QED
        BY <1>10, <2>1, <2>3, <3>1
    <2> QED
      BY <2>2, <2>3
  <1> HIDE DEF Round, v0, v1, v2, v3
  <1>15. /\ w[0] = v0 /\ w[1] = v1 /\ w[2] = v2 /\ w[3] = v3
    OBVIOUS
  <1>16. \A n \in 0 .. 3 : n = 0 \/ n = 1 \/ n = 2 \/ n = 3
    OBVIOUS
  <1>17. v0 = [value |-> [ts |-> d[1] + LowByte * d[2]], end |-> 4]
    BY <1>3 DEF v0
  <1> HIDE DEF w
  <1>18. \A h : DOMAIN Step(h) = 0 .. 3 /\ Step(h)[0] = v0 /\ Step(h)[1] = Round(1, h[0])
                /\ Step(h)[2] = Round(2, h[1]) /\ Step(h)[3] = Round(3, h[2])
    <2> TAKE h
    <2>1. Step(h) = [n \in 0 .. 3 |-> IF n = 0 THEN v0 ELSE Round(n, h[n - 1])]
      BY <1>11, <1>17
    <2>2. 1 - 1 = 0 /\ 2 - 1 = 1 /\ 3 - 1 = 2
      OBVIOUS
    <2> QED
      BY <2>1, <2>2
  <1>19. w = Step(w)
    <2>1. \A n \in 0 .. 3 : w[n] = Step(w)[n]
      BY <1>12, <1>13, <1>14, <1>15, <1>16, <1>18
    <2>2. w = [n \in 0 .. 3 |-> w[n]]
      BY DEF w
    <2>3. Step(w) = [n \in 0 .. 3 |-> Step(w)[n]]
      BY <1>11
    <2> HIDE DEF Step
    <2> QED
      BY <2>1, <2>2, <2>3
  <1> DEFINE g == CHOOSE h : h = Step(h)
  <1> HIDE DEF Step
  <1>20. g = Step(g)
    BY <1>19
  <1>21. Decode(d) = g[3].value
    BY <1>11 DEF Decode, Round, Step
  <1> HIDE DEF g
  <1>22. g[3] = v3
    <2>1. g[0] = v0
      BY <1>18, <1>20
    <2>2. g[1] = v1
      BY <1>12, <1>18, <1>20, <2>1
    <2>3. g[2] = v2
      BY <1>13, <1>18, <1>20, <2>2
    <2> QED
      BY <1>14, <1>18, <1>20, <2>3
  <1>23. RecordAs(Storable(r), f) = [ts |-> ts, data |-> x, min |-> y, max |-> z]
    BY DEF RecordAs, Storable, ToldBlock
  <1> QED
    BY <1>21, <1>22, <1>23 DEF v3
-----------------------------------------------------------------------------
(* A payload.                                                                *)

\* What a payload is made of.
Datum == Cell \union SUBSET {"data", "min", "max", "apps", "mysql", "apache2"}

(* Cells are data of a payload. *)
LEMMA CellsAreData ==
    ASSUME NEW a \in Seq(Cell)
    PROVE  a \in Seq(Datum)
  <1>1. Cell \subseteq Datum
    BY DEF Datum
  <1> QED
    BY <1>1, SeqMonotonic

(* Of two sections in a row, the second begins behind the first. *)
LEMMA After ==
    ASSUME NEW D, NEW a \in Seq(D), NEW b \in Seq(D)
    PROVE  /\ At(a \o b, Len(a) + 1, b)
           /\ Len(a \o b) + 1 = Len(a) + 1 + Len(b)
           /\ a \o b \in Seq(D)
           /\ \A i \in 1 .. Len(a) : (a \o b)[i] = a[i]
  <1> PICK m, n, ab : m = Len(a) /\ n = Len(b) /\ ab = a \o b
    OBVIOUS
  <1>1. /\ m \in Nat /\ n \in Nat /\ Len(ab) = m + n /\ ab \in Seq(D)
        /\ \A i \in 1 .. m + n : ab[i] = IF i <= m THEN a[i] ELSE b[i - m]
    BY ConcatProperties
  <1>2. \A i \in 1 .. n : ab[(m + 1) + i - 1] = b[i]
    <2> TAKE i \in 1 .. n
    <2>1. m + i \in 1 .. m + n /\ ~(m + i <= m) /\ (m + i) - m = i /\ (m + 1) + i - 1 = m + i
      BY <1>1
    <2> QED
      BY <1>1, <2>1
  <1>3. Len(ab) + 1 = m + 1 + n
    BY <1>1
  <1>4. (m + 1) + n <= Len(ab) + 1
    BY <1>1
  <1>5. \A i \in 1 .. m : ab[i] = a[i]
    <2> TAKE i \in 1 .. m
    <2>1. i \in 1 .. m + n /\ i <= m
      BY <1>1
    <2> QED
      BY <1>1, <2>1
  <1>6. At(ab, m + 1, b)
    BY <1>2, <1>4 DEF At
  <1> QED
    BY <1>1, <1>3, <1>5, <1>6

\* A payload without its kind byte.
Body(r, f) == <<r.ts % LowByte, r.ts \div LowByte, Flags(r, f)>> \o BlocksOf(r, f)

(* The head of a payload: time in two parts, flags, kind. *)
LEMMA HeadType ==
    ASSUME NEW r \in Rec, NEW f \in Format
    PROVE  /\ r.ts % LowByte \in Datum /\ r.ts \div LowByte \in Datum
           /\ Flags(r, f) \in Datum /\ KindBinary \in Datum
  <1>1. r.ts \in Nat
    BY DEF Rec
  <1>2. r.ts % LowByte \in Int /\ r.ts \div LowByte \in Int /\ KindBinary \in Int
    <2>1. r.ts % LowByte \in 0 .. LowByte - 1 /\ r.ts \div LowByte \in Nat
      BY <1>1, TimestampParts
    <2> QED
      BY <2>1, CodecAssumption
  <1>3. Flags(r, f) \subseteq {"data", "min", "max", "apps", "mysql", "apache2"}
    BY DEF Flags
  <1> QED
    BY <1>2, <1>3 DEF Datum, Cell

(* What is in a payload.                                                     *)
LEMMA BlocksType ==
    ASSUME NEW r \in Rec, NEW f \in Format
    PROVE  BlocksOf(r, f) \in Seq(Cell)
  <1>1. /\ BlockCells(r.data, f) \in Seq(Cell) /\ BlockCells(r.min, f) \in Seq(Cell)
        /\ BlockCells(r.max, f) \in Seq(Cell)
    BY BlockCellsType DEF Rec
  <1> QED
    BY <1>1, ConcatProperties DEF BlocksOf

(* Behind the head, the blocks are read to the end of the payload. *)
LEMMA BodyRead ==
    ASSUME NEW r \in Rec, NEW f \in Format
    PROVE  /\ Body(r, f) \in Seq(Datum)
           /\ Body(r, f)[1] = r.ts % LowByte /\ Body(r, f)[2] = r.ts \div LowByte
           /\ Body(r, f)[3] = Flags(r, f)
           /\ Reads(Body(r, f), 4, BlocksOf(r, f), Len(Body(r, f)) + 1)
  <1> PICK x, y, z, blocks : /\ x = r.ts % LowByte /\ y = r.ts \div LowByte /\ z = Flags(r, f)
                             /\ blocks = BlocksOf(r, f)
    OBVIOUS
  <1>1. x \in Datum /\ y \in Datum /\ z \in Datum
    BY HeadType
  <1>2. blocks \in Seq(Datum)
    BY BlocksType, CellsAreData
  <1> PICK head, d : head = <<x, y, z>> /\ d = head \o blocks
    OBVIOUS
  <1>3. /\ head \in Seq(Datum) /\ Len(head) = 3 /\ head[1] = x /\ head[2] = y /\ head[3] = z
    BY <1>1
  <1>4. d = Body(r, f)
    BY DEF Body
  <1>5. /\ At(d, Len(head) + 1, blocks) /\ Len(d) + 1 = Len(head) + 1 + Len(blocks)
        /\ d \in Seq(Datum) /\ \A i \in 1 .. Len(head) : d[i] = head[i]
    <2>1. head \in Seq(Datum)
      BY <1>3
    <2> QED
      BY ONLY <1>2, <2>1, d = head \o blocks, After
  <1>6. At(d, 4, blocks) /\ Len(d) + 1 = 4 + Len(blocks)
    BY <1>3, <1>5
  <1>7. d[1] = x /\ d[2] = y /\ d[3] = z
    BY <1>3, <1>5
  <1>8. Len(d) + 1 \in Nat
    BY <1>5
  <1> QED
    BY <1>4, <1>5, <1>6, <1>7, <1>8 DEF Reads

(* A payload is the body, behind the kind where the version has one. *)
LEMMA EncodedIs ==
    ASSUME NEW r \in Rec, NEW f \in Format
    PROVE  EncodeAs(r, f) = (IF f.kind THEN <<KindBinary>> ELSE <<>>) \o Body(r, f)
  <1> PICK k, h, x, y, z : /\ k = (IF f.kind THEN <<KindBinary>> ELSE <<>>)
                           /\ h = <<r.ts % LowByte, r.ts \div LowByte, Flags(r, f)>>
                           /\ x = BlockCells(r.data, f) /\ y = BlockCells(r.min, f)
                           /\ z = BlockCells(r.max, f)
    OBVIOUS
  <1>1. EncodeAs(r, f) = k \o h \o x \o y \o z
    BY DEF EncodeAs
  <1>2. Body(r, f) = h \o (x \o y \o z)
    BY DEF Body, BlocksOf
  <1>3. x \in Seq(Datum) /\ y \in Seq(Datum) /\ z \in Seq(Datum)
    BY BlockCellsType, CellsAreData DEF Rec
  <1>4. k \in Seq(Datum) /\ h \in Seq(Datum)
    BY HeadType
  <1>6. ASSUME NEW a \in Seq(Datum), NEW b \in Seq(Datum)
        PROVE  a \o b \in Seq(Datum)
    BY ONLY <1>6, ConcatProperties
  <1> PICK kh, xy, xyz : kh = k \o h /\ xy = x \o y /\ xyz = xy \o z
    OBVIOUS
  <1>7. kh \in Seq(Datum) /\ xy \in Seq(Datum) /\ xyz \in Seq(Datum)
    BY <1>3, <1>4, <1>6
  <1>8. (kh \o xy) \o z = kh \o (xy \o z)
    BY ONLY <1>3, <1>7, ConcatAssociative
  <1>9. (kh \o x) \o y = kh \o (x \o y)
    <2>1. kh \in Seq(Datum)
      BY <1>7
    <2>2. x \in Seq(Datum) /\ y \in Seq(Datum)
      BY <1>3
    <2> QED
      BY ONLY <2>1, <2>2, ConcatAssociative
  <1>10. (k \o h) \o xyz = k \o (h \o xyz)
    BY ONLY <1>4, <1>7, ConcatAssociative
  <1>11. k \o h \o x \o y \o z = kh \o xyz
    <2>1. k \o h \o x \o y \o z = (kh \o xy) \o z
      BY <1>9
    <2> QED
      BY <1>8, <2>1
  <1> QED
    BY <1>1, <1>2, <1>10, <1>11

\* A record without a kind byte must not begin like one that has one.
ToldApart(r, f) == f.kind \/ r.ts % LowByte \notin {KindBinary, KindJSON}

(* A payload that can be told apart is read as its version keeps it. *)
LEMMA PayloadRead ==
    ASSUME NEW r \in Rec, NEW f \in Format, Single(r, f), ToldApart(r, f)
    PROVE  /\ ReadRecord(EncodeAs(r, f)) = RecordAs(Storable(r), f)
           /\ ExtractTimestamp(EncodeAs(r, f)) = r.ts
  <1> PICK d, p : d = Body(r, f) /\ p = EncodeAs(r, f)
    OBVIOUS
  <1>1. /\ d \in Seq(Datum)
        /\ d[1] = r.ts % LowByte /\ d[2] = r.ts \div LowByte /\ d[3] = Flags(r, f)
        /\ Reads(d, 4, BlocksOf(r, f), Len(d) + 1)
    BY BodyRead
  <1>2. Decode(d) = RecordAs(Storable(r), f)
    BY <1>1, DecodeRead
  <1>3. d[1] + LowByte * d[2] = r.ts
    <2>1. r.ts \in Nat
      BY DEF Rec
    <2> QED
      BY <1>1, <2>1, TimestampParts
  <1>4. CASE f.kind
    <2>1. p = <<KindBinary>> \o d
      BY <1>4, EncodedIs
    <2>2. KindBinary \in Datum
      BY HeadType
    <2>3. p \in Seq(Datum) /\ Len(p) = Len(d) + 1 /\ p[1] = KindBinary
          /\ \A i \in 1 .. Len(d) : p[i + 1] = d[i]
      <3> PICK k : k = <<KindBinary>>
        OBVIOUS
      <3>1. k \in Seq(Datum) /\ Len(k) = 1 /\ k[1] = KindBinary
        BY <2>2
      <3>2. /\ k \o d \in Seq(Datum) /\ Len(k \o d) = Len(k) + Len(d)
            /\ \A i \in 1 .. Len(k) + Len(d) :
                   (k \o d)[i] = IF i <= Len(k) THEN k[i] ELSE d[i - Len(k)]
        BY <1>1, <3>1, ConcatProperties
      <3> PICK n : n = Len(d)
        OBVIOUS
      <3>3. n \in Nat /\ p \in Seq(Datum) /\ Len(p) = 1 + n
            /\ \A i \in 1 .. 1 + n : p[i] = IF i <= 1 THEN k[i] ELSE d[i - 1]
        BY <1>1, <2>1, <3>1, <3>2
      <3>4. \A i \in 1 .. n : p[i + 1] = d[i]
        <4> TAKE i \in 1 .. n
        <4>1. i + 1 \in 1 .. 1 + n /\ ~(i + 1 <= 1) /\ (i + 1) - 1 = i
          BY ONLY <3>3, i \in 1 .. n
        <4> QED
          BY <3>3, <4>1
      <3>5. 1 \in 1 .. 1 + n
        BY ONLY <3>3
      <3> QED
        BY <3>1, <3>3, <3>4, <3>5
    <2>4. Tail(p) = d
      BY <1>1, <2>3
    <2>5. KindBinary # KindJSON
      BY CodecAssumption
    <2>6. ReadRecord(p) = Decode(d)
      BY <2>3, <2>4, <2>5 DEF ReadRecord
    <2>7. p[2] = d[1] /\ p[3] = d[2]
      <3>1. Len(d) >= 3
        <4>1. Len(d) + 1 = 4 + Len(BlocksOf(r, f)) /\ Len(BlocksOf(r, f)) \in Nat
          BY <1>1, BlocksType DEF Reads
        <4>2. Len(d) \in Nat
          BY <1>1
        <4> QED
          BY ONLY <4>1, <4>2
      <3>2. 1 \in 1 .. Len(d) /\ 2 \in 1 .. Len(d) /\ 1 + 1 = 2 /\ 2 + 1 = 3
        BY <1>1, <3>1
      <3> QED
        BY <2>3, <3>2
    <2>8. ExtractTimestamp(p) = r.ts
      BY <1>3, <2>3, <2>5, <2>7 DEF ExtractTimestamp
    <2> QED
      BY <1>2, <2>6, <2>8
  <1>5. CASE ~f.kind
    <2>1. p = d
      <3>1. p = <<>> \o d
        BY <1>5, EncodedIs
      <3> QED
        BY <1>1, <3>1
    <2>2. d[1] # KindBinary /\ d[1] # KindJSON
      BY <1>1, <1>5 DEF ToldApart
    <2> QED
      BY <1>2, <1>3, <2>1, <2>2 DEF ReadRecord, ExtractTimestamp
  <1> QED
    BY <1>4, <1>5
-----------------------------------------------------------------------------
(* A record of this version, and one that has been stored before.            *)

(* The format written today is one of the versions. *)
LEMMA CurrentIs == Current \in Format
  BY DEF Current, Format

(* Both numbers of a block are all of it. *)
LEMMA FirstAll ==
    ASSUME NEW app \in App(2)
    PROVE  First(app, 2) = app
  <1>1. CASE app = absent
    BY <1>1 DEF First
  <1>2. CASE app # absent
    <2>1. app \in [1 .. 2 -> Int]
      BY <1>2 DEF App
    <2>2. app \in Seq(Int) /\ Len(app) = 2
      <3>1. 2 \in Nat \ {0} /\ 2 \in 1 .. 2
        OBVIOUS
      <3> QED
        BY <1>2, <3>1, BlockType
    <2>3. First(app, 2) = [k \in 1 .. 2 |-> app[k]]
      BY <1>2, <2>2 DEF First
    <2> QED
      BY <2>1, <2>3
  <1> QED
    BY <1>1, <1>2

(* Today's version keeps all that a file can hold. *)
LEMMA AsCurrent ==
    ASSUME NEW s \in Sample \union {nil}, NEW ts
    PROVE  SampleAs(StorableSample(s, ts), Current) = StorableSample(s, ts)
  <1>1. CASE s = nil
    BY <1>1 DEF SampleAs, StorableSample
  <1>2. CASE s # nil
    <2>1. s \in Sample /\ Current \in Format
      BY <1>2, CurrentIs
    <2>2. SampleAs(StorableSample(s, ts), Current) = Told(s, Current, ts)
      BY <2>1, SampleAsIs
    <2>3. First(s["postgres"], 2) = s["postgres"] /\ First(s["apache2"], 2) = s["apache2"]
      BY <2>1, SampleIs, FirstAll DEF HasFields
    <2>4. \A x \in Fields : (IF x = "ts" THEN ts ELSE PartTold(s, Current, x))
                              = StoredField(s, ts, x)
      BY <2>3 DEF StoredField, PartTold, Current, AppParts, Fields, absent
    <2> QED
      BY <2>1, <2>2, <2>4, StorableIs DEF Told
  <1> QED
    BY <1>1, <1>2

(* Cutting the two counters twice is cutting them once. *)
LEMMA CutTwice ==
    ASSUME NEW running \in Nat, NEW users \in Nat
    PROVE  /\ Cut(running) \in Nat /\ users % UserLimit \in Nat
           /\ Cut(Cut(running)) = Cut(running)
           /\ (users % UserLimit) % UserLimit = users % UserLimit
  BY CodecAssumption DEF Cut

(* What a file holds of a sample, it holds again. *)
LEMMA StorableTwice ==
    ASSUME NEW s \in Sample \union {nil}, NEW ts \in Nat
    PROVE  /\ StorableSample(s, ts) \in Sample \union {nil}
           /\ StorableSample(s, ts) = nil <=> s = nil
           /\ StorableSample(StorableSample(s, ts), ts) = StorableSample(s, ts)
  <1>1. CASE s = nil
    BY <1>1 DEF StorableSample
  <1>2. CASE s # nil
    <2> PICK z : z = StorableSample(s, ts)
      OBVIOUS
    <2>1. s \in Sample /\ HasFields(s)
      BY <1>2, SampleIs
    <2>2. z = [x \in Fields |-> StoredField(s, ts, x)]
      BY <2>1, StorableIs
    <2>3. s["running"] \in Nat /\ s["users"] \in Nat
      BY <2>1 DEF HasFields
    <2>4. /\ Cut(s["running"]) \in Nat /\ s["users"] % UserLimit \in Nat
          /\ Cut(Cut(s["running"])) = Cut(s["running"])
          /\ (s["users"] % UserLimit) % UserLimit = s["users"] % UserLimit
      BY <2>3, CutTwice
    <2>5. /\ z["ts"] = ts /\ z["running"] = Cut(s["running"])
          /\ z["users"] = s["users"] % UserLimit
          /\ z["retrans"] = 0 /\ z["psu"] = <<>>
          /\ \A x \in Fields \ Altered : z[x] = s[x]
      BY <2>2 DEF StoredField, Altered, Unstored, Fields
    <2>6. z = [x \in Fields |-> z[x]]
      BY <2>2
    <2>7. HasFields(z)
      <3>1. 0 \in Int /\ <<>> \in List
        BY DEF List
      <3> QED
        BY <2>1, <2>4, <2>5, <2>6, <3>1 DEF HasFields, Fields, Altered, Unstored
    <2>8. z \in Sample /\ z # nil
      BY <2>7, SampleIs, NotNil
    <2>9. StorableSample(z, ts) = [x \in Fields |-> StoredField(z, ts, x)]
      BY <2>8, StorableIs
    <2>10. \A x \in Fields : StoredField(z, ts, x) = z[x]
      BY <2>4, <2>5 DEF StoredField
    <2>11. StorableSample(z, ts) = z
      BY <2>6, <2>9, <2>10
    <2> QED
      BY <1>2, <2>8, <2>11
  <1> QED
    BY <1>1, <1>2

\* A minimum and a maximum, or none.
Paired(r) == r.min = nil <=> r.max = nil

(* The same of a record. *)
LEMMA StorableRec ==
    ASSUME NEW r \in Rec
    PROVE  /\ Storable(r) \in Rec /\ Storable(r).ts = r.ts
           /\ Storable(Storable(r)) = Storable(r)
           /\ RecordAs(Storable(r), Current) = Storable(r)
           /\ Storable(r).min = nil <=> r.min = nil
           /\ Storable(r).max = nil <=> r.max = nil
  <1> PICK ts, a, b, c, x, y, z : /\ ts = r.ts /\ a = r.data /\ b = r.min /\ c = r.max
                                  /\ x = StorableSample(a, ts) /\ y = StorableSample(b, ts)
                                  /\ z = StorableSample(c, ts)
    OBVIOUS
  <1>1. /\ ts \in Nat /\ a \in Sample \union {nil} /\ b \in Sample \union {nil}
        /\ c \in Sample \union {nil} /\ a # nil
    BY NotNil DEF Rec
  <1>2. /\ x \in Sample \union {nil} /\ x # nil /\ StorableSample(x, ts) = x
        /\ y \in Sample \union {nil} /\ (y = nil <=> b = nil) /\ StorableSample(y, ts) = y
        /\ z \in Sample \union {nil} /\ (z = nil <=> c = nil) /\ StorableSample(z, ts) = z
    BY <1>1, StorableTwice
  <1>3. SampleAs(x, Current) = x /\ SampleAs(y, Current) = y /\ SampleAs(z, Current) = z
    BY <1>1, AsCurrent
  <1>4. Storable(r) = [ts |-> ts, data |-> x, min |-> y, max |-> z]
    BY DEF Storable
  <1> PICK q : q = [ts |-> ts, data |-> x, min |-> y, max |-> z]
    OBVIOUS
  <1>5. q.ts = ts /\ q.data = x /\ q.min = y /\ q.max = z
    OBVIOUS
  <1>6. q \in Rec
    BY <1>1, <1>2 DEF Rec
  <1>7. Storable(q) = q
    BY <1>2, <1>5 DEF Storable
  <1>8. RecordAs(q, Current) = q
    BY <1>3, <1>5 DEF RecordAs
  <1> QED
    BY <1>2, <1>4, <1>5, <1>6, <1>7, <1>8

(* What a record of this version is when it is read.                         *)
LEMMA StoredRead ==
    ASSUME NEW r \in Rec
    PROVE  /\ ReadRecord(Encode(r)) = Storable(r)
           /\ ExtractTimestamp(Encode(r)) = r.ts
  <1>1. Current \in Format /\ Single(r, Current) /\ ToldApart(r, Current)
    BY CurrentIs DEF Single, ToldApart, Current
  <1>2. Encode(r) = EncodeAs(r, Current)
    BY DEF Encode
  <1>3. RecordAs(Storable(r), Current) = Storable(r)
    BY StorableRec
  <1> QED
    BY <1>1, <1>2, <1>3, PayloadRead

(* What a record of an earlier version is when it is read.                   *)
LEMMA OldRead ==
    ASSUME NEW r \in Rec, Paired(r), NEW f \in OldFormats,
           f.kind \/ Storable(r).ts % LowByte \notin {KindBinary, KindJSON},
           f.gpu \/ Storable(r).min = nil
    PROVE  ReadRecord(EncodeAs(Storable(r), f)) = RecordAs(Storable(r), f)
  <1> PICK q : q = Storable(r)
    OBVIOUS
  <1>1. q \in Rec /\ Storable(q) = q /\ (q.min = nil <=> r.min = nil) /\ (q.max = nil <=> r.max = nil)
    BY StorableRec
  <1>2. f \in Format
    BY FormatsAssumption DEF Format
  <1>3. Single(q, f) /\ ToldApart(q, f)
    BY <1>1 DEF Single, ToldApart, Paired
  <1> QED
    BY <1>1, <1>2, <1>3, PayloadRead
-----------------------------------------------------------------------------
(* Averages.                                                                 *)

(* The mean of integers is an integer. *)
LEMMA MeanType ==
    ASSUME NEW values \in Seq(Int), Len(values) > 0
    PROVE  Mean(values) \in Int
  <1> PICK f : Sums(f, values)
    BY TotalLoop
  <1>1. Len(values) \in Nat /\ Len(values) \in 0 .. Len(values)
    OBVIOUS
  <1>2. Total(values) \in Int
    BY <1>1 DEF Sums
  <1> PICK n, sum : n = Len(values) /\ sum = Total(values)
    OBVIOUS
  <1>3. Mean(values) = (2 * sum + n) \div (2 * n)
    BY DEF Mean
  <1>4. n \in Nat /\ n > 0 /\ sum \in Int
    BY <1>1, <1>2
  <1>5. (2 * sum + n) \div (2 * n) \in Int
    BY ONLY <1>4
  <1> QED
    BY <1>3, <1>5

(* A mean lies between any bounds of what it is the mean of. *)
LEMMA MeanBounds ==
    ASSUME NEW values \in Seq(Int), Len(values) > 0, NEW lo \in Int, NEW hi \in Int,
           \A i \in 1 .. Len(values) : lo <= values[i] /\ values[i] <= hi
    PROVE  lo <= Mean(values) /\ Mean(values) <= hi
  <1> PICK n, sum, q, a, b : /\ n = Len(values) /\ sum = Total(values) /\ q = Mean(values)
                             /\ a = n * lo /\ b = n * hi
    OBVIOUS
  <1>1. sum \in Int /\ a <= sum /\ sum <= b
    BY TotalBounds
  <1>2. n \in Nat /\ n > 0 /\ q \in Int
    BY MeanType
  <1>3. q = (2 * sum + n) \div (2 * n)
    BY DEF Mean
  <1>4. (2 * n) * q <= 2 * sum + n /\ 2 * sum + n < (2 * n) * q + 2 * n
    <2>1. ASSUME NEW x \in Int, NEW m \in Nat, m > 0
          PROVE  m * (x \div m) <= x /\ x < m * (x \div m) + m
      BY ONLY m \in Nat, <2>1
    <2>2. 2 * n \in Nat /\ 2 * n > 0 /\ 2 * sum + n \in Int
      BY ONLY <1>1, <1>2
    <2> QED
      BY ONLY <1>3, <2>1, <2>2
  <1> PICK p : p = n * q
    OBVIOUS
  <1>5. p \in Int /\ a \in Int /\ b \in Int
    BY ONLY <1>2, p = n * q, a = n * lo, b = n * hi, lo \in Int, hi \in Int
  <1>6. (2 * n) * q = 2 * p
    BY ONLY <1>2, p = n * q
  <1>7. 2 * p <= 2 * sum + n /\ 2 * sum + n < 2 * p + 2 * n
    BY <1>4, <1>6
  <1>8. a < p + n /\ p < b + n
    BY ONLY <1>1, <1>2, <1>5, <1>7
  <1>9. lo < q + 1
    <2>1. n * lo < n * (q + 1)
      BY ONLY <1>2, <1>5, <1>8, p = n * q, a = n * lo, lo \in Int
    <2> QED
      BY ONLY <1>2, <2>1, lo \in Int
  <1>10. q < hi + 1
    <2>1. n * q < n * (hi + 1)
      BY ONLY <1>2, <1>5, <1>8, p = n * q, b = n * hi, hi \in Int
    <2> QED
      BY ONLY <1>2, <2>1, hi \in Int
  <1>11. lo <= q /\ q <= hi
    BY ONLY <1>2, <1>9, <1>10, lo \in Int, hi \in Int
  <1> QED
    BY <1>11

\* Entries of a list: a name, a value, and perhaps more.
Entries(C) ==
    \A c \in C : /\ c.value \in Int
                 /\ \A v \in Int : /\ [c EXCEPT !.value = v] \in C
                                   /\ [c EXCEPT !.value = v].value = v
                                   /\ [c EXCEPT !.value = v].name = c.name

(* Named values and disks are entries: a name and an integer. *)
LEMMA EntriesAre == Entries(NamedValue) /\ Entries(Device)
  <1>1. Entries(NamedValue)
    BY DEF Entries, NamedValue
  <1>2. Entries(Device)
    BY DEF Entries, Device
  <1> QED
    BY <1>1, <1>2

\* What is in a list.
Elems(list) == {list[i] : i \in 1 .. Len(list)}

(* The elements of two sequences in a row. *)
LEMMA ElemsConcat ==
    ASSUME NEW C, NEW a \in Seq(C), NEW b \in Seq(C)
    PROVE  Elems(a \o b) = Elems(a) \union Elems(b)
  <1> PICK m, n, ab : m = Len(a) /\ n = Len(b) /\ ab = a \o b
    OBVIOUS
  <1>1. /\ m \in Nat /\ n \in Nat /\ Len(ab) = m + n
        /\ \A i \in 1 .. m + n : ab[i] = IF i <= m THEN a[i] ELSE b[i - m]
    BY ConcatProperties
  <1>2. ASSUME NEW i \in 1 .. m + n PROVE ab[i] \in Elems(a) \union Elems(b)
    <2>1. CASE i <= m
      <3>1. i \in 1 .. m /\ ab[i] = a[i]
        BY <1>1, <2>1
      <3> QED
        BY <3>1 DEF Elems
    <2>2. CASE ~(i <= m)
      <3>1. i - m \in 1 .. n /\ ab[i] = b[i - m]
        BY <1>1, <2>2
      <3> QED
        BY <3>1 DEF Elems
    <2> QED
      BY <2>1, <2>2
  <1>3. ASSUME NEW i \in 1 .. m PROVE a[i] \in Elems(ab)
    <2>1. i \in 1 .. m + n /\ i <= m
      BY <1>1
    <2> QED
      BY <1>1, <2>1 DEF Elems
  <1>4. ASSUME NEW i \in 1 .. n PROVE b[i] \in Elems(ab)
    <2>1. m + i \in 1 .. m + n /\ ~(m + i <= m) /\ (m + i) - m = i
      BY <1>1
    <2>2. ab[m + i] = b[i]
      BY <1>1, <2>1
    <2> QED
      BY <1>1, <2>1, <2>2 DEF Elems
  <1>5. Elems(ab) \subseteq Elems(a) \union Elems(b)
    BY <1>1, <1>2 DEF Elems
  <1>6. Elems(a) \union Elems(b) \subseteq Elems(ab)
    BY <1>3, <1>4 DEF Elems
  <1> QED
    BY <1>5, <1>6

(* The elements of joined lists are those of the lists. *)
LEMMA ElemsJoined ==
    ASSUME NEW C, NEW lists \in Seq(Seq(C))
    PROVE  /\ Joined(lists) \in Seq(C)
           /\ Elems(Joined(lists)) = UNION {Elems(lists[k]) : k \in 1 .. Len(lists)}
  <1> PICK n : n = Len(lists)
    OBVIOUS
  <1>1. n \in Nat /\ \A k \in 1 .. n : lists[k] \in Seq(C)
    OBVIOUS
  <1> PICK f \in Joinings(C, lists) : TRUE
    BY JoinedLoop
  <1>2. /\ f \in [0 .. n -> Seq(C)] /\ f[0] = <<>> /\ Joined(lists) = f[n]
        /\ \A k \in 1 .. n : f[k] = Cat(f[k - 1], lists[k])
    BY DEF Joinings
  <1> DEFINE S == {k \in 0 .. n : Elems(f[k]) = UNION {Elems(lists[x]) : x \in 1 .. k}}
  <1>3. 0 \in S
    <2>1. Elems(<<>>) = {}
      BY DEF Elems
    <2>2. UNION {Elems(lists[x]) : x \in 1 .. 0} = {}
      OBVIOUS
    <2> QED
      BY <1>1, <1>2, <2>1, <2>2
  <1>4. ASSUME NEW k \in 1 .. n, k - 1 \in S PROVE k \in S
    <2>1. k - 1 \in 0 .. n /\ k \in 0 .. n /\ k \in Nat /\ 1 <= k
      BY <1>1
    <2>2. f[k - 1] \in Seq(C) /\ lists[k] \in Seq(C) /\ f[k] = f[k - 1] \o lists[k]
      BY <1>1, <1>2, <2>1 DEF Cat
    <2>3. Elems(f[k]) = Elems(f[k - 1]) \union Elems(lists[k])
      BY <2>2, ElemsConcat
    <2>4. Elems(f[k - 1]) = UNION {Elems(lists[x]) : x \in 1 .. k - 1}
      BY <1>4
    <2>5. \A x : x \in 1 .. k <=> x \in 1 .. k - 1 \/ x = k
      BY ONLY <2>1
    <2>6. UNION {Elems(lists[x]) : x \in 1 .. k}
            = (UNION {Elems(lists[x]) : x \in 1 .. k - 1}) \union Elems(lists[k])
      <3> PICK old, new, z : /\ old = {Elems(lists[x]) : x \in 1 .. k - 1}
                             /\ new = {Elems(lists[x]) : x \in 1 .. k} /\ z = Elems(lists[k])
        OBVIOUS
      <3>1. new = old \union {z}
        BY <2>5
      <3>2. \A e : e \in UNION new <=> e \in UNION old \/ e \in z
        BY ONLY <3>1, Zenon
      <3>3. UNION new = (UNION old) \union z
        BY ONLY <3>2
      <3> QED
        BY <3>3
    <2>7. Elems(f[k]) = UNION {Elems(lists[x]) : x \in 1 .. k}
      BY <2>3, <2>4, <2>6
    <2> QED
      BY <2>1, <2>7
  <1> HIDE DEF S
  <1>5. n \in S
    <2>1. \A k \in 0 .. n : k \in S
      BY <1>1, <1>3, <1>4, UpTo
    <2> QED
      BY <1>1, <2>1
  <1>6. Elems(f[n]) = UNION {Elems(lists[x]) : x \in 1 .. n}
    BY <1>5 DEF S
  <1> QED
    BY <1>1, <1>2, <1>6

(* The entries called name are those of the lists.                           *)
LEMMA CalledFrom ==
    ASSUME NEW C, NEW lists \in Seq(Seq(C)), NEW name
    PROVE  /\ Called(lists, name) \in Seq(C)
           /\ \A j \in 1 .. Len(Called(lists, name)) :
                  /\ Called(lists, name)[j].name = name
                  /\ \E k \in 1 .. Len(lists) : Called(lists, name)[j] \in Elems(lists[k])
           /\ \A k \in 1 .. Len(lists) : \A e \in Elems(lists[k]) :
                  e.name = name => Len(Called(lists, name)) > 0
  <1> PICK all : all = Joined(lists)
    OBVIOUS
  <1> DEFINE keep == {i \in 1 .. Len(all) : all[i].name = name}
  <1>1. all \in Seq(C) /\ Elems(all) = UNION {Elems(lists[k]) : k \in 1 .. Len(lists)}
    BY ElemsJoined
  <1>2. Called(lists, name) = Kept(all, keep)
    BY DEF Called
  <1>3. Kept(all, keep) \in Seq(C)
    BY <1>1, KeptType
  <1>4. ASSUME NEW j \in 1 .. Len(Kept(all, keep))
        PROVE  /\ Kept(all, keep)[j].name = name
               /\ \E k \in 1 .. Len(lists) : Kept(all, keep)[j] \in Elems(lists[k])
    <2>1. PICK i \in keep : i \in 1 .. Len(all) /\ Kept(all, keep)[j] = all[i]
      <3> HIDE DEF keep
      <3> QED
        BY <1>1, KeptFrom
    <2>2. all[i] \in Elems(all) /\ all[i].name = name
      BY <2>1 DEF Elems
    <2> QED
      BY <1>1, <2>1, <2>2
  <1>5. ASSUME NEW k \in 1 .. Len(lists), NEW e \in Elems(lists[k]), e.name = name
        PROVE  Len(Kept(all, keep)) > 0
    <2>1. e \in Elems(all)
      BY <1>1
    <2>2. PICK i \in 1 .. Len(all) : e = all[i]
      BY <2>1 DEF Elems
    <2>3. i \in keep /\ keep \in SUBSET (1 .. Len(all))
      BY <1>5, <2>2
    <2> HIDE DEF keep
    <2>4. PICK g : g \in Places(all, keep)
      BY <1>1, <2>3, KeptPlaces
    <2>5. g[i] \in 1 .. Len(Kept(all, keep))
      BY <2>3, <2>4 DEF Places
    <2>6. Len(Kept(all, keep)) \in Nat
      BY <1>3
    <2> QED
      BY <2>5, <2>6
  <1> HIDE DEF keep
  <1> QED
    BY <1>2, <1>3, <1>4, <1>5

(* Averaging by name: each entry of the last list gets the mean of its name. *)
LEMMA MeanByNameIs ==
    ASSUME NEW C, Entries(C), NEW last \in Seq(C), NEW lists \in Seq(Seq(C)),
           NEW k \in 1 .. Len(lists), lists[k] = last
    PROVE  /\ MeanByName(last, lists) \in Seq(C)
           /\ Len(MeanByName(last, lists)) = Len(last)
           /\ \A i \in 1 .. Len(last) :
                  /\ Called(lists, last[i].name) \in Seq(C)
                  /\ Len(Called(lists, last[i].name)) > 0
                  /\ MeanByName(last, lists)[i].name = last[i].name
                  /\ MeanByName(last, lists)[i].value = Mean(Values(Called(lists, last[i].name)))
  <1>1. ASSUME NEW i \in 1 .. Len(last)
        PROVE  /\ Called(lists, last[i].name) \in Seq(C)
               /\ Len(Called(lists, last[i].name)) > 0
               /\ Mean(Values(Called(lists, last[i].name))) \in Int
    <2> PICK called : called = Called(lists, last[i].name)
      OBVIOUS
    <2>1. last[i] \in Elems(lists[k])
      BY DEF Elems
    <2>2. called \in Seq(C) /\ Len(called) > 0
      BY <2>1, CalledFrom
    <2>3. Values(called) \in Seq(Int) /\ Len(Values(called)) > 0
      <3>1. Len(called) \in Nat /\ \A j \in 1 .. Len(called) : called[j].value \in Int
        BY <2>2 DEF Entries
      <3> QED
        BY <2>2, <3>1 DEF Values
    <2>4. Mean(Values(called)) \in Int
      BY <2>3, MeanType
    <2> QED
      BY <2>2, <2>4
  <1> DEFINE m(i) == Mean(Values(Called(lists, last[i].name)))
  <1>2. MeanByName(last, lists) = [i \in 1 .. Len(last) |-> [last[i] EXCEPT !.value = m(i)]]
    BY DEF MeanByName
  <1>3. \A i \in 1 .. Len(last) : m(i) \in Int /\ last[i] \in C
    BY <1>1
  <1> HIDE DEF m
  <1> DEFINE entry(i) == [last[i] EXCEPT !.value = m(i)]
  <1>4. \A i \in 1 .. Len(last) : /\ entry(i) \in C /\ entry(i).value = m(i)
                                  /\ entry(i).name = last[i].name
    BY <1>3 DEF Entries
  <1>6. MeanByName(last, lists) = [i \in 1 .. Len(last) |-> entry(i)]
    BY <1>2
  <1> HIDE DEF entry
  <1> PICK n, mean : n = Len(last) /\ mean = MeanByName(last, lists)
    OBVIOUS
  <1>7. n \in Nat /\ mean = [i \in 1 .. n |-> entry(i)] /\ \A i \in 1 .. n : entry(i) \in C
    <2>1. n \in Nat
      OBVIOUS
    <2>2. mean = [i \in 1 .. n |-> entry(i)]
      BY <1>6
    <2>3. \A i \in 1 .. n : entry(i) \in C
      BY <1>4
    <2> QED
      BY ONLY <2>1, <2>2, <2>3
  <1>8. mean \in Seq(C) /\ Len(mean) = n /\ \A i \in 1 .. n : mean[i] = entry(i)
    BY ONLY <1>7
  <1>5. /\ mean \in Seq(C) /\ Len(mean) = Len(last)
        /\ \A i \in 1 .. Len(last) : mean[i].name = last[i].name /\ mean[i].value = m(i)
    BY <1>4, <1>8
  <1> QED
    BY <1>1, <1>5 DEF m

\* Elements that are kept, and that one is among them.
LEMMA KeptSome ==
    ASSUME NEW C, NEW seen \in Seq(C), NEW keep \in SUBSET (1 .. Len(seen)), NEW k \in keep
    PROVE  /\ Kept(seen, keep) \in Seq(C)
           /\ \A j \in 1 .. Len(Kept(seen, keep)) :
                  \E i \in keep : Kept(seen, keep)[j] = seen[i]
           /\ \E j \in 1 .. Len(Kept(seen, keep)) : Kept(seen, keep)[j] = seen[k]
  <1>1. Kept(seen, keep) \in Seq(C)
    BY KeptType
  <1>2. \A j \in 1 .. Len(Kept(seen, keep)) : \E i \in keep : Kept(seen, keep)[j] = seen[i]
    BY KeptFrom
  <1>3. PICK g : g \in Places(seen, keep)
    BY KeptPlaces
  <1>4. g[k] \in 1 .. Len(Kept(seen, keep)) /\ Kept(seen, keep)[g[k]] = seen[k]
    BY <1>3 DEF Places
  <1> QED
    BY <1>1, <1>2, <1>4

(* The average of the statistics of an application. *)
LEMMA MeanAppType ==
    ASSUME NEW n \in Nat \ {0}, NEW seen \in Seq(App(n)), NEW k \in 1 .. Len(seen), NEW rates
    PROVE  MeanApp(seen[k], seen, rates) \in App(n)
  <1> PICK last : last = seen[k]
    OBVIOUS
  <1>1. last \in App(n)
    OBVIOUS
  <1> DEFINE keep == {i \in 1 .. Len(seen) : seen[i] # nil}
             with == Kept(seen, keep)
  <1>2. MeanApp(last, seen, rates)
            = [x \in 1 .. Len(last) |->
                  IF x \in rates THEN Mean([i \in 1 .. Len(with) |-> with[i][x]]) ELSE last[x]]
    BY DEF MeanApp
  <1>3. CASE last = nil
    <2>1. Len(last) = 0
      BY <1>3 DEF nil
    <2>2. MeanApp(last, seen, rates) = <<>>
      <3> HIDE DEF with
      <3> QED
        BY <1>2, <2>1
    <2> QED
      BY <2>2 DEF App, absent
  <1>4. CASE last # nil
    <2>1. last \in [1 .. n -> Int] /\ Len(last) = n
      <3>1. last \in [1 .. n -> Int]
        BY <1>1, <1>4 DEF App, nil, absent
      <3> QED
        BY <3>1
    <2>2. k \in keep /\ keep \in SUBSET (1 .. Len(seen))
      BY <1>4
    <2>3. /\ with \in Seq(App(n)) /\ \A j \in 1 .. Len(with) : \E i \in keep : with[j] = seen[i]
          /\ \E j \in 1 .. Len(with) : with[j] = seen[k]
      <3> HIDE DEF keep
      <3> QED
        BY <2>2, KeptSome
    <2>4. \A i \in keep : seen[i] \in [1 .. n -> Int]
      BY DEF App, nil, absent
    <2>5. \A j \in 1 .. Len(with) : with[j] \in [1 .. n -> Int]
      BY <2>3, <2>4
    <2>6. Len(with) \in Nat /\ Len(with) > 0
      BY <2>3
    <2> HIDE DEF with
    <2>7. ASSUME NEW x \in 1 .. n
          PROVE  Mean([i \in 1 .. Len(with) |-> with[i][x]]) \in Int
      <3> PICK values : values = [i \in 1 .. Len(with) |-> with[i][x]]
        OBVIOUS
      <3>1. values \in Seq(Int) /\ Len(values) > 0
        BY <2>5, <2>6
      <3> QED
        BY <3>1, MeanType
    <2>8. MeanApp(last, seen, rates) \in [1 .. n -> Int]
      BY <1>2, <2>1, <2>7
    <2> QED
      BY <2>8 DEF App
  <1> QED
    BY <1>3, <1>4

(* The average of the custom groups. *)
LEMMA MeanCustomType ==
    ASSUME NEW seen \in Seq(Custom), NEW k \in 1 .. Len(seen)
    PROVE  MeanCustom(seen[k], seen) \in Custom
  <1> PICK last : last = seen[k]
    OBVIOUS
  <1>1. PICK groups \in SUBSET Groups : last \in [groups -> List]
    BY DEF Custom
  <1> DEFINE keep(g) == {i \in 1 .. Len(seen) : g \in DOMAIN seen[i]}
             with(g) == Kept(seen, keep(g))
             lists(g) == [i \in 1 .. Len(with(g)) |-> with(g)[i][g]]
  <1>2. MeanCustom(last, seen) = [g \in groups |-> MeanByName(last[g], lists(g))]
    BY <1>1 DEF MeanCustom
  <1>3. ASSUME NEW g \in groups
        PROVE  MeanByName(last[g], lists(g)) \in List
    <2>1. k \in keep(g) /\ keep(g) \in SUBSET (1 .. Len(seen))
      BY <1>1
    <2>2. /\ with(g) \in Seq(Custom) /\ \A j \in 1 .. Len(with(g)) : \E i \in keep(g) : with(g)[j] = seen[i]
          /\ \E j \in 1 .. Len(with(g)) : with(g)[j] = seen[k]
      <3> HIDE DEF keep
      <3> QED
        BY <2>1, KeptSome
    <2>3. \A i \in keep(g) : seen[i][g] \in List
      BY DEF Custom
    <2>4. \A j \in 1 .. Len(with(g)) : with(g)[j][g] \in List
      BY <2>2, <2>3
    <2>5. Len(with(g)) \in Nat
      BY <2>2
    <2> PICK j \in 1 .. Len(with(g)) : with(g)[j] = last
      BY <2>2
    <2> HIDE DEF with
    <2>6. lists(g) \in Seq(List) /\ Len(lists(g)) = Len(with(g)) /\ lists(g)[j] = last[g]
      BY <2>4, <2>5
    <2>7. last[g] \in List
      BY <1>1
    <2> HIDE DEF lists
    <2> PICK ls, z : ls = lists(g) /\ z = last[g]
      OBVIOUS
    <2>8. ls \in Seq(Seq(NamedValue)) /\ z \in Seq(NamedValue) /\ j \in 1 .. Len(ls) /\ ls[j] = z
      BY <2>6, <2>7 DEF List
    <2>9. MeanByName(z, ls) \in Seq(NamedValue)
      BY ONLY <2>8, EntriesAre, MeanByNameIs
    <2> QED
      BY <2>9 DEF List
  <1> HIDE DEF lists
  <1>4. MeanCustom(last, seen) \in [groups -> List]
    BY <1>2, <1>3
  <1> QED
    BY <1>4 DEF Custom
-----------------------------------------------------------------------------
(* What samples and records are combined to.                                 *)

\* A field of each sample.
Column(samples, x) == [i \in 1 .. Len(samples) |-> samples[i][x]]

(* The columns of a table of samples. *)
LEMMA ColumnType ==
    ASSUME NEW samples \in Seq(Sample)
    PROVE  /\ Column(samples, "usage") \in Seq(Int)
           /\ \A x \in {"sensors", "ifaces", "containers"} :
                  Column(samples, x) \in Seq(Seq(NamedValue))
           /\ Column(samples, "disks") \in Seq(Seq(Device))
           /\ \A x \in {"nginx", "mysql"} : Column(samples, x) \in Seq(App(1))
           /\ \A x \in {"postgres", "apache2"} : Column(samples, x) \in Seq(App(2))
           /\ Column(samples, "custom") \in Seq(Custom)
           /\ \A x : /\ Len(Column(samples, x)) = Len(samples)
                     /\ \A i \in 1 .. Len(samples) : Column(samples, x)[i] = samples[i][x]
  <1>1. ASSUME NEW i \in 1 .. Len(samples) PROVE HasFields(samples[i])
    <2>1. samples[i] \in Sample
      OBVIOUS
    <2> QED
      BY <2>1, SampleIs
  <1>2. Len(samples) \in Nat
    OBVIOUS
  <1>3. ASSUME NEW T, NEW x, \A i \in 1 .. Len(samples) : samples[i][x] \in T
        PROVE  Column(samples, x) \in Seq(T)
    BY <1>2, <1>3 DEF Column
  <1>4. \A x : /\ Len(Column(samples, x)) = Len(samples)
               /\ \A i \in 1 .. Len(samples) : Column(samples, x)[i] = samples[i][x]
    BY <1>2 DEF Column
  <1>5. Column(samples, "usage") \in Seq(Int)
    <2>1. \A i \in 1 .. Len(samples) : samples[i]["usage"] \in Int
      BY <1>1 DEF HasFields
    <2> QED
      BY <1>3, <2>1
  <1>6. ASSUME NEW x \in {"sensors", "ifaces", "containers"}
        PROVE  Column(samples, x) \in Seq(Seq(NamedValue))
    <2>1. \A i \in 1 .. Len(samples) : samples[i][x] \in Seq(NamedValue)
      BY <1>1 DEF HasFields, List
    <2> QED
      BY <1>3, <2>1
  <1>7. Column(samples, "disks") \in Seq(Seq(Device))
    <2>1. \A i \in 1 .. Len(samples) : samples[i]["disks"] \in Seq(Device)
      BY <1>1 DEF HasFields
    <2> QED
      BY <1>3, <2>1
  <1>8. ASSUME NEW x \in {"nginx", "mysql"} PROVE Column(samples, x) \in Seq(App(1))
    <2>1. \A i \in 1 .. Len(samples) : samples[i][x] \in App(1)
      BY <1>1 DEF HasFields
    <2> QED
      BY <1>3, <2>1
  <1>9. ASSUME NEW x \in {"postgres", "apache2"} PROVE Column(samples, x) \in Seq(App(2))
    <2>1. \A i \in 1 .. Len(samples) : samples[i][x] \in App(2)
      BY <1>1 DEF HasFields
    <2> QED
      BY <1>3, <2>1
  <1>10. Column(samples, "custom") \in Seq(Custom)
    <2>1. \A i \in 1 .. Len(samples) : samples[i]["custom"] \in Custom
      BY <1>1 DEF HasFields
    <2> QED
      BY <1>3, <2>1
  <1> QED
    BY <1>4, <1>5, <1>6, <1>7, <1>8, <1>9, <1>10

\* A field of the average.
AverageOf(samples, last, x) ==
    IF x = "usage" THEN Mean(Column(samples, "usage"))
    ELSE IF x \in {"sensors", "ifaces", "disks", "containers"}
         THEN MeanByName(last[x], Column(samples, x))
    ELSE IF x \in {"nginx", "mysql", "apache2"} THEN MeanApp(last[x], Column(samples, x), {1})
    ELSE IF x = "postgres" THEN MeanApp(last[x], Column(samples, x), {1, 2})
    ELSE IF x = "custom" THEN MeanCustom(last[x], Column(samples, x))
    ELSE last[x]

(* The average, field by field. *)
LEMMA AverageIs ==
    ASSUME NEW samples \in Seq(Sample), Len(samples) > 0
    PROVE  Average(samples) = [x \in Fields |-> AverageOf(samples, samples[Len(samples)], x)]
  <1> PICK last : last = samples[Len(samples)]
    OBVIOUS
  <1>1. last \in Sample
    OBVIOUS
  <1>2. last = [x \in Fields |-> last[x]]
    BY <1>1, SampleIs DEF HasFields
  <1>3. Average(samples) =
           [last EXCEPT
               !.usage = Mean(Column(samples, "usage")),
               !.sensors = MeanByName(@, Column(samples, "sensors")),
               !.ifaces = MeanByName(@, Column(samples, "ifaces")),
               !.disks = MeanByName(@, Column(samples, "disks")),
               !.nginx = MeanApp(@, Column(samples, "nginx"), {1}),
               !.containers = MeanByName(@, Column(samples, "containers")),
               !.postgres = MeanApp(@, Column(samples, "postgres"), {1, 2}),
               !.mysql = MeanApp(@, Column(samples, "mysql"), {1}),
               !.apache2 = MeanApp(@, Column(samples, "apache2"), {1}),
               !.custom = MeanCustom(@, Column(samples, "custom"))]
    BY DEF Average, Column
  <1>4. Average(samples) = [x \in Fields |-> AverageOf(samples, last, x)]
    BY <1>2, <1>3 DEF AverageOf, Fields
  <1> QED
    BY <1>4

(* The average of samples is a sample. *)
LEMMA AverageType ==
    ASSUME NEW samples \in Seq(Sample), Len(samples) > 0
    PROVE  Average(samples) \in Sample
  <1> PICK n, last, avg : n = Len(samples) /\ last = samples[n] /\ avg = Average(samples)
    OBVIOUS
  <1>1. n \in 1 .. Len(samples) /\ last \in Sample /\ HasFields(last)
    BY SampleIs
  <1>2. avg = [x \in Fields |-> AverageOf(samples, last, x)]
    BY AverageIs
  <1>3. \A x \in Fields : avg[x] = AverageOf(samples, last, x)
    BY <1>2
  <1>4. avg["usage"] \in Int
    <2>1. Column(samples, "usage") \in Seq(Int) /\ Len(Column(samples, "usage")) > 0
      BY ColumnType
    <2> QED
      BY <1>3, <2>1, MeanType DEF AverageOf, Fields
  <1>5. ASSUME NEW x \in {"sensors", "ifaces", "containers"} PROVE avg[x] \in List
    <2> PICK col : col = Column(samples, x)
      OBVIOUS
    <2>1. col \in Seq(Seq(NamedValue)) /\ n \in 1 .. Len(col) /\ col[n] = last[x]
      BY <1>1, ColumnType
    <2>2. last[x] \in Seq(NamedValue)
      BY <2>1
    <2>3. MeanByName(last[x], col) \in Seq(NamedValue)
      BY <2>1, <2>2, EntriesAre, MeanByNameIs
    <2> QED
      BY <1>3, <2>3 DEF AverageOf, Fields, List
  <1>6. avg["disks"] \in Seq(Device)
    <2> PICK col : col = Column(samples, "disks")
      OBVIOUS
    <2>1. col \in Seq(Seq(Device)) /\ n \in 1 .. Len(col) /\ col[n] = last["disks"]
      BY <1>1, ColumnType
    <2>2. last["disks"] \in Seq(Device)
      BY <2>1
    <2>3. MeanByName(last["disks"], col) \in Seq(Device)
      BY <2>1, <2>2, EntriesAre, MeanByNameIs
    <2> QED
      BY <1>3, <2>3 DEF AverageOf, Fields
  <1>7. ASSUME NEW x \in {"nginx", "mysql", "apache2", "postgres"}, NEW rates, NEW m \in 1 .. 2,
               Column(samples, x) \in Seq(App(m))
        PROVE  MeanApp(last[x], Column(samples, x), rates) \in App(m)
    <2> PICK col : col = Column(samples, x)
      OBVIOUS
    <2>1. col \in Seq(App(m)) /\ n \in 1 .. Len(col) /\ col[n] = last[x] /\ m \in Nat \ {0}
      BY <1>1, <1>7, ColumnType
    <2> QED
      BY <2>1, MeanAppType
  <1>8. avg["nginx"] \in App(1) /\ avg["mysql"] \in App(1)
    <2>1. Column(samples, "nginx") \in Seq(App(1)) /\ Column(samples, "mysql") \in Seq(App(1)) /\ 1 \in 1 .. 2
      BY ColumnType
    <2> QED
      BY <1>3, <1>7, <2>1 DEF AverageOf, Fields
  <1>9. avg["apache2"] \in App(2) /\ avg["postgres"] \in App(2)
    <2>1. Column(samples, "apache2") \in Seq(App(2)) /\ Column(samples, "postgres") \in Seq(App(2)) /\ 2 \in 1 .. 2
      BY ColumnType
    <2> QED
      BY <1>3, <1>7, <2>1 DEF AverageOf, Fields
  <1>10. avg["custom"] \in Custom
    <2> PICK col : col = Column(samples, "custom")
      OBVIOUS
    <2>1. col \in Seq(Custom) /\ n \in 1 .. Len(col) /\ col[n] = last["custom"]
      BY <1>1, ColumnType
    <2>2. MeanCustom(last["custom"], col) \in Custom
      BY <2>1, MeanCustomType
    <2> QED
      BY <1>3, <2>2 DEF AverageOf, Fields
  <1>11. \A x \in {"ts", "irq", "used", "running", "users", "fs", "host", "gpu",
                     "retrans", "psu"} : avg[x] = last[x]
    BY <1>3 DEF AverageOf, Fields
  <1>12. avg = [x \in Fields |-> avg[x]]
    BY <1>2
  <1>13. HasFields(avg)
    BY <1>1, <1>4, <1>5, <1>6, <1>8, <1>9, <1>10, <1>11, <1>12 DEF HasFields
  <1> QED
    BY <1>13, SampleIs

(* The first entry of a name. *)
LEMMA FindIs ==
    ASSUME NEW C, NEW list \in Seq(C), NEW name, Has(list, name)
    PROVE  /\ Find(list, name) \in 1 .. Len(list) /\ list[Find(list, name)].name = name
           /\ \A j \in 1 .. Find(list, name) - 1 : list[j].name # name
           /\ ValueIn(list, name) = list[Find(list, name)].value
  <1> DEFINE T == {i \in 1 .. Len(list) : list[i].name = name}
             Is(i) == i \in 1 .. Len(list) /\ list[i].name = name
                      /\ \A j \in 1 .. i - 1 : list[j].name # name
  <1>1. T \in SUBSET Nat /\ T # {}
    BY DEF Has
  <1>2. PICK m \in T : \A k \in T : m <= k
    <2> HIDE DEF T
    <2> QED
      BY <1>1, LeastOf
  <1>3. Is(m)
    <2>1. m \in 1 .. Len(list) /\ list[m].name = name /\ Len(list) \in Nat
      BY <1>2
    <2>2. ASSUME NEW j \in 1 .. m - 1 PROVE list[j].name # name
      <3>1. j \in 1 .. Len(list) /\ ~(m <= j)
        BY <2>1
      <3> QED
        BY <1>2, <3>1
    <2> QED
      BY <2>1, <2>2
  <1>4. Find(list, name) = CHOOSE i \in 1 .. Len(list) :
              /\ list[i].name = name
              /\ \A j \in 1 .. i - 1 : list[j].name # name
    BY DEF Find
  <1>5. /\ Find(list, name) \in 1 .. Len(list) /\ list[Find(list, name)].name = name
        /\ \A j \in 1 .. Find(list, name) - 1 : list[j].name # name
    BY <1>3, <1>4
  <1> QED
    BY <1>5 DEF ValueIn

(* What is looked up by name is an integer. *)
LEMMA ValueInType ==
    ASSUME NEW C, Entries(C), NEW list \in Seq(C), NEW name
    PROVE  ValueIn(list, name) \in Int
  <1>1. CASE Has(list, name)
    <2> PICK i : i = Find(list, name)
      OBVIOUS
    <2>1. i \in 1 .. Len(list) /\ ValueIn(list, name) = list[i].value
      BY <1>1, FindIs
    <2>2. list[i].value \in Int
      BY <2>1 DEF Entries
    <2> QED
      BY <2>1, <2>2
  <1>2. CASE ~Has(list, name)
    BY <1>2 DEF ValueIn
  <1> QED
    BY <1>1, <1>2

(* The outer of two values. *)
LEMMA ExtremeIs ==
    ASSUME NEW a \in Int, NEW b \in Int, NEW which
    PROVE  /\ Extreme(which, a, b) \in Int
           /\ Extreme(which, a, b) = a \/ Extreme(which, a, b) = b
           /\ which = "min" => Extreme(which, a, b) <= a /\ Extreme(which, a, b) <= b
           /\ which = "max" => Extreme(which, a, b) >= a /\ Extreme(which, a, b) >= b
  BY DEF Extreme, minF, maxF

\* The lists of a merged sample.
MergedDisks(list, other, which) ==
    [i \in 1 .. Len(list) |->
        [name |-> list[i].name, temps |-> nil,
         value |-> Extreme(which, list[i].value, ValueIn(other, list[i].name))]]
\* Interfaces with the outer of two values each.
MergedIfaces(list, other, which) ==
    [i \in 1 .. Len(list) |->
        [name |-> list[i].name,
         value |-> Extreme(which, list[i].value, ValueIn(other, list[i].name))]]

(* Merging two samples, field by field. *)
LEMMA MergeIs ==
    ASSUME NEW a \in Sample, NEW b, NEW which
    PROVE  MergeSample(a, b, which) =
               [x \in Fields |->
                   IF x \in {"usage", "used"} THEN Extreme(which, a[x], b[x])
                   ELSE IF x = "disks" THEN MergedDisks(a[x], b[x], which)
                   ELSE IF x = "ifaces" THEN MergedIfaces(a[x], b[x], which)
                   ELSE a[x]]
  <1>1. a = [x \in Fields |-> a[x]]
    BY SampleIs DEF HasFields
  <1>2. MergeSample(a, b, which) =
            [a EXCEPT !.usage = Extreme(which, @, b["usage"]),
                      !.used = Extreme(which, @, b["used"]),
                      !.disks = MergedDisks(@, b["disks"], which),
                      !.ifaces = MergedIfaces(@, b["ifaces"], which)]
    BY DEF MergeSample, MergedDisks, MergedIfaces
  <1> QED
    BY <1>1, <1>2 DEF Fields

(* Merged disks are disks, merged interfaces are interfaces. *)
LEMMA MergedListTypes ==
    ASSUME NEW a \in Sample, NEW b \in Sample, NEW which
    PROVE  /\ MergedDisks(a["disks"], b["disks"], which) \in Seq(Device)
           /\ MergedIfaces(a["ifaces"], b["ifaces"], which) \in List
  <1>1. HasFields(a) /\ HasFields(b)
    BY SampleIs
  <1>2. MergedDisks(a["disks"], b["disks"], which) \in Seq(Device)
    <2> PICK list, other : list = a["disks"] /\ other = b["disks"]
      OBVIOUS
    <2>1. list \in Seq(Device) /\ other \in Seq(Device)
      BY <1>1 DEF HasFields
    <2>2. ASSUME NEW i \in 1 .. Len(list)
          PROVE  [name |-> list[i].name, temps |-> nil,
                  value |-> Extreme(which, list[i].value, ValueIn(other, list[i].name))] \in Device
      <3>5. list[i] \in Device
        BY <2>1
      <3>1. list[i].name \in STRING /\ list[i].value \in Int
        BY ONLY <3>5 DEF Device
      <3>2. ValueIn(other, list[i].name) \in Int
        BY <2>1, EntriesAre, ValueInType
      <3>3. Extreme(which, list[i].value, ValueIn(other, list[i].name)) \in Int
        BY <3>1, <3>2, ExtremeIs
      <3>4. nil \in Seq(NamedValue)
        BY DEF nil
      <3> QED
        BY <3>1, <3>3, <3>4 DEF Device
    <2>3. Len(list) \in Nat
      BY <2>1
    <2> QED
      BY <2>2, <2>3 DEF MergedDisks
  <1>3. MergedIfaces(a["ifaces"], b["ifaces"], which) \in List
    <2> PICK list, other : list = a["ifaces"] /\ other = b["ifaces"]
      OBVIOUS
    <2>1. list \in Seq(NamedValue) /\ other \in Seq(NamedValue)
      BY <1>1 DEF HasFields, List
    <2>2. ASSUME NEW i \in 1 .. Len(list)
          PROVE  [name |-> list[i].name,
                  value |-> Extreme(which, list[i].value, ValueIn(other, list[i].name))] \in NamedValue
      <3>5. list[i] \in NamedValue
        BY <2>1
      <3>1. list[i].name \in STRING /\ list[i].value \in Int
        BY ONLY <3>5 DEF NamedValue
      <3>2. ValueIn(other, list[i].name) \in Int
        BY <2>1, EntriesAre, ValueInType
      <3>3. Extreme(which, list[i].value, ValueIn(other, list[i].name)) \in Int
        BY <3>1, <3>2, ExtremeIs
      <3> QED
        BY <3>1, <3>3 DEF NamedValue
    <2>3. Len(list) \in Nat
      BY <2>1
    <2> QED
      BY <2>2, <2>3 DEF MergedIfaces, List
  <1> QED
    BY <1>2, <1>3

(* Merging two samples gives a sample. *)
LEMMA MergeType ==
    ASSUME NEW a \in Sample, NEW b \in Sample, NEW which
    PROVE  MergeSample(a, b, which) \in Sample
  <1> PICK m : m = MergeSample(a, b, which)
    OBVIOUS
  <1>1. HasFields(a) /\ HasFields(b)
    BY SampleIs
  <1>2. m = [x \in Fields |->
                   IF x \in {"usage", "used"} THEN Extreme(which, a[x], b[x])
                   ELSE IF x = "disks" THEN MergedDisks(a[x], b[x], which)
                   ELSE IF x = "ifaces" THEN MergedIfaces(a[x], b[x], which)
                   ELSE a[x]]
    BY MergeIs
  <1>3. /\ m["usage"] = Extreme(which, a["usage"], b["usage"])
        /\ m["used"] = Extreme(which, a["used"], b["used"])
        /\ m["disks"] = MergedDisks(a["disks"], b["disks"], which)
        /\ m["ifaces"] = MergedIfaces(a["ifaces"], b["ifaces"], which)
        /\ \A x \in Fields \ {"usage", "used", "disks", "ifaces"} : m[x] = a[x]
    BY <1>2 DEF Fields
  <1>9. /\ a["usage"] \in Int /\ a["used"] \in Int
        /\ b["usage"] \in Int /\ b["used"] \in Int
    BY <1>1 DEF HasFields
  <1>4. m["usage"] \in Int /\ m["used"] \in Int
    BY <1>3, <1>9, ExtremeIs
  <1>5. m["disks"] \in Seq(Device) /\ m["ifaces"] \in List
    BY <1>3, MergedListTypes
  <1>6. m = [x \in Fields |-> m[x]]
    BY <1>2
  <1>7. \A x \in {"ts", "irq", "running", "users", "sensors", "fs", "host", "gpu", "nginx",
                  "containers", "postgres", "mysql", "apache2", "custom",
                  "retrans", "psu"} : m[x] = a[x]
    BY <1>3 DEF Fields
  <1>8. HasFields(m)
    BY <1>1, <1>4, <1>5, <1>6, <1>7 DEF HasFields
  <1> QED
    BY <1>8, SampleIs

\* The states of the loop of Merged.
Mergings(f, samples, which) ==
    /\ f[0] = samples[1]
    /\ \A i \in 1 .. Len(samples) : f[i] = MergeSample(f[i - 1], samples[i], which)
    /\ \A i \in 0 .. Len(samples) : f[i] \in Sample
    /\ Merged(samples, which) = f[Len(samples)]

(* The loop over the samples that merges them exists. *)
LEMMA MergedLoop ==
    ASSUME NEW samples \in Seq(Sample), Len(samples) > 0, NEW which
    PROVE  \E f : Mergings(f, samples, which)
  <1> DEFINE n == Len(samples)
             next == [k \in 1 .. n |-> [s \in Sample |-> MergeSample(s, samples[k], which)]]
             Step(f) == [k \in 0 .. n |-> IF k = 0 THEN samples[1]
                                          ELSE MergeSample(f[k - 1], samples[k], which)]
  <1>1. n \in Nat /\ n > 0 /\ (\A k \in 1 .. n : samples[k] \in Sample) /\ samples[1] \in Sample
    OBVIOUS
  <1> HIDE DEF n
  <1>2. next \in [1 .. n -> [Sample -> Sample]]
    BY <1>1, MergeType
  <1>3. PICK a \in Runs(n, Sample, samples[1], next) : TRUE
    <2> HIDE DEF next
    <2>2. Runs(n, Sample, samples[1], next) # {}
      BY <1>1, <1>2, LoopExists
    <2> QED
      BY <2>2
  <1>4. /\ a \in [0 .. n -> Sample] /\ a[0] = samples[1]
        /\ \A k \in 1 .. n : a[k] = next[k][a[k - 1]]
    BY <1>3 DEF Runs
  <1>5. \A k \in 1 .. n : a[k] = MergeSample(a[k - 1], samples[k], which)
    <2> TAKE k \in 1 .. n
    <2>1. a[k - 1] \in Sample
      BY <1>1, <1>4
    <2> QED
      BY <1>4, <2>1
  <1> HIDE DEF next
  <1>6. a = Step(a)
    BY <1>1, <1>4, <1>5
  <1> DEFINE f == CHOOSE g : g = Step(g)
  <1>7. f = Step(f)
    BY <1>6
  <1>8. Merged(samples, which) = f[n]
    BY DEF Merged, n
  <1> HIDE DEF f
  <1>9. f[0] = samples[1] /\ \A k \in 1 .. n : f[k] = MergeSample(f[k - 1], samples[k], which)
    <2>1. 0 \in 0 .. n /\ \A k \in 1 .. n : k \in 0 .. n /\ k # 0
      BY <1>1
    <2> QED
      BY <1>7, <2>1
  <1> DEFINE Good == {k \in 0 .. n : f[k] \in Sample}
  <1>10. 0 \in Good
    BY <1>1, <1>9
  <1>11. ASSUME NEW k \in 1 .. n, k - 1 \in Good PROVE k \in Good
    <2>1. f[k - 1] \in Sample /\ samples[k] \in Sample /\ k \in 0 .. n
      BY <1>1, <1>11
    <2>2. f[k] = MergeSample(f[k - 1], samples[k], which)
      BY <1>9
    <2> QED
      BY <2>1, <2>2, MergeType
  <1> HIDE DEF Good
  <1>12. \A k \in 0 .. n : k \in Good
    BY <1>1, <1>10, <1>11, UpTo
  <1>13. \A k \in 0 .. n : f[k] \in Sample
    BY <1>12 DEF Good
  <1> QED
    BY <1>8, <1>9, <1>13 DEF Mergings, n

(* Merging samples gives a sample. *)
LEMMA MergedType ==
    ASSUME NEW samples \in Seq(Sample), Len(samples) > 0, NEW which
    PROVE  Merged(samples, which) \in Sample
  <1> PICK f : Mergings(f, samples, which)
    BY MergedLoop
  <1>1. Len(samples) \in 0 .. Len(samples)
    OBVIOUS
  <1> QED
    BY <1>1 DEF Mergings

\* A record of a tier has a minimum and a maximum, or neither, and the
\* timestamp of its sample.
TierRec == {r \in Rec : Paired(r) /\ r.data["ts"] = r.ts}

(* Rolling samples up gives a record that has both extremes. *)
LEMMA AggregateSamplesType ==
    ASSUME NEW samples \in Seq(Sample), Len(samples) > 0
    PROVE  /\ AggregateSamples(samples) \in TierRec
           /\ AggregateSamples(samples).ts = samples[Len(samples)]["ts"]
           /\ AggregateSamples(samples).min # nil
  <1> PICK n, last, a, b, c :
          /\ n = Len(samples) /\ last = samples[n]
          /\ a = (IF n = 1 THEN samples[1] ELSE Average(samples))
          /\ b = (IF n = 1 THEN samples[1] ELSE Merged(samples, "min"))
          /\ c = (IF n = 1 THEN samples[1] ELSE Merged(samples, "max"))
    OBVIOUS
  <1>1. last \in Sample /\ samples[1] \in Sample
    OBVIOUS
  <1>2. a \in Sample /\ b \in Sample /\ c \in Sample
    BY <1>1, AverageType, MergedType
  <1>3. b # nil /\ c # nil
    BY <1>2, NotNil
  <1>4. last["ts"] \in Nat
    BY <1>1, SampleIs DEF HasFields
  <1> PICK r : r = [ts |-> last["ts"], data |-> a, min |-> b, max |-> c]
    OBVIOUS
  <1>5. r.ts = last["ts"] /\ r.data = a /\ r.min = b /\ r.max = c /\ r \in Rec
    BY <1>2, <1>4 DEF Rec
  <1>6. AggregateSamples(samples) = r
    BY DEF AggregateSamples
  <1>7. Average(samples)["ts"] = last["ts"]
    BY AverageIs DEF AverageOf, Fields
  <1>8. a["ts"] = last["ts"]
    BY <1>7
  <1> QED
    BY <1>3, <1>5, <1>6, <1>8 DEF TierRec, Paired

\* The samples of which records are combined.
Datas(records) == [i \in 1 .. Len(records) |-> records[i].data]
\* The extremes of the records, or the record itself where it has none.
Ends(records, which) ==
    [i \in 1 .. Len(records) |-> IF records[i][which] = nil THEN records[i].data ELSE records[i][which]]
\* None of the records has been rolled up before.
AllRaw(records) == \A i \in 1 .. Len(records) : records[i].min = nil /\ records[i].max = nil

(* Rolling records up: the average of the data, the extremes of the extremes. *)
LEMMA AggregateIs ==
    ASSUME NEW records \in Seq(Rec), Len(records) > 0
    PROVE  /\ Datas(records) \in Seq(Sample) /\ Len(Datas(records)) = Len(records)
           /\ \A which \in {"min", "max"} :
                  Ends(records, which) \in Seq(Sample) /\ Len(Ends(records, which)) = Len(records)
           /\ AggregateAggregated(records) =
                  LET flat == AggregateSamples(Datas(records))
                  IN [ts |-> flat.ts, data |-> flat.data,
                      min |-> IF AllRaw(records) THEN flat.min ELSE Merged(Ends(records, "min"), "min"),
                      max |-> IF AllRaw(records) THEN flat.max ELSE Merged(Ends(records, "max"), "max")]
  <1>1. Len(records) \in Nat /\ \A i \in 1 .. Len(records) : records[i] \in Rec
    OBVIOUS
  <1>2. \A r \in Rec : r.data \in Sample /\ (r["min"] # nil => r["min"] \in Sample)
                       /\ (r["max"] # nil => r["max"] \in Sample)
    BY DEF Rec
  <1>3. \A i \in 1 .. Len(records) : records[i].data \in Sample
    BY <1>1, <1>2
  <1>4. Datas(records) \in Seq(Sample) /\ Len(Datas(records)) = Len(records)
    BY <1>1, <1>3 DEF Datas
  <1>5. ASSUME NEW which \in {"min", "max"}
        PROVE  Ends(records, which) \in Seq(Sample) /\ Len(Ends(records, which)) = Len(records)
    <2>1. \A i \in 1 .. Len(records) :
             (IF records[i][which] = nil THEN records[i].data ELSE records[i][which]) \in Sample
      BY <1>1, <1>2
    <2> QED
      BY <1>1, <2>1 DEF Ends
  <1> PICK flat : flat = AggregateSamples(Datas(records))
    OBVIOUS
  <1>6. flat \in Rec
    BY <1>4, AggregateSamplesType DEF TierRec
  <1>7. AggregateAggregated(records) =
            [flat EXCEPT !.min = IF AllRaw(records) THEN @ ELSE Merged(Ends(records, "min"), "min"),
                         !.max = IF AllRaw(records) THEN @ ELSE Merged(Ends(records, "max"), "max")]
    BY DEF AggregateAggregated, AllRaw, Ends, Datas
  <1>8. AggregateAggregated(records) =
            [ts |-> flat.ts, data |-> flat.data,
             min |-> IF AllRaw(records) THEN flat.min ELSE Merged(Ends(records, "min"), "min"),
             max |-> IF AllRaw(records) THEN flat.max ELSE Merged(Ends(records, "max"), "max")]
    BY <1>6, <1>7 DEF Rec
  <1> QED
    BY <1>4, <1>5, <1>8

(* Rolling records up gives a record with the time of the last. *)
LEMMA AggregateType ==
    ASSUME NEW records \in Seq(Rec), Len(records) > 0
    PROVE  /\ AggregateAggregated(records) \in TierRec
           /\ AggregateAggregated(records).ts = records[Len(records)].data["ts"]
  <1> PICK n, flat, b, c, r :
          /\ n = Len(records) /\ flat = AggregateSamples(Datas(records))
          /\ b = (IF AllRaw(records) THEN flat.min ELSE Merged(Ends(records, "min"), "min"))
          /\ c = (IF AllRaw(records) THEN flat.max ELSE Merged(Ends(records, "max"), "max"))
          /\ r = [ts |-> flat.ts, data |-> flat.data, min |-> b, max |-> c]
    OBVIOUS
  <1>1. AggregateAggregated(records) = r
    BY AggregateIs
  <1>2. /\ Datas(records) \in Seq(Sample) /\ Len(Datas(records)) = n
        /\ Ends(records, "min") \in Seq(Sample) /\ Len(Ends(records, "min")) = n
        /\ Ends(records, "max") \in Seq(Sample) /\ Len(Ends(records, "max")) = n
    BY AggregateIs
  <1>3. flat \in Rec /\ flat.data["ts"] = flat.ts /\ flat.min # nil /\ flat.max # nil /\ flat.ts = Datas(records)[n]["ts"]
    BY <1>2, AggregateSamplesType DEF TierRec, Paired
  <1>4. Datas(records)[n] = records[n].data
    <2>1. n \in 1 .. n
      BY <1>2
    <2> QED
      BY <2>1 DEF Datas
  <1>5. flat.ts \in Nat /\ flat.data \in Sample /\ flat.min \in Sample /\ flat.max \in Sample
    BY <1>3 DEF Rec
  <1>6. b \in Sample /\ c \in Sample
    BY <1>2, <1>5, MergedType
  <1>7. b # nil /\ c # nil
    BY <1>6, NotNil
  <1>8. r \in Rec /\ r.ts = flat.ts /\ r.data = flat.data /\ r.min = b /\ r.max = c
    BY <1>5, <1>6 DEF Rec
  <1> QED
    BY <1>1, <1>3, <1>4, <1>7, <1>8 DEF TierRec, Paired
-----------------------------------------------------------------------------
(* The files.                                                                *)

\* What is written to a file.
Payloads == {Encode(r) : r \in Rec}

\* The types, and the files hold the encoded records, in their order.
FileInv ==
    /\ taken \in Seq(Sample) /\ tier1Buf \in Seq(Sample) /\ tier2Buf \in Seq(TierRec)
    /\ written \in [Tiers -> Seq(TierRec)]
    /\ file = [k \in Tiers |-> Encoded(written[k])]

(* Encoding records in a row. *)
LEMMA EncodedConcat ==
    ASSUME NEW a \in Seq(Rec), NEW b \in Seq(Rec)
    PROVE  Encoded(a) \o Encoded(b) = Encoded(a \o b)
  <1> PICK m, n, ab, x, y : /\ m = Len(a) /\ n = Len(b) /\ ab = a \o b
                            /\ x = Encoded(a) /\ y = Encoded(b)
    OBVIOUS
  <1>1. /\ m \in Nat /\ n \in Nat /\ Len(ab) = m + n
        /\ \A i \in 1 .. m + n : ab[i] = IF i <= m THEN a[i] ELSE b[i - m]
    BY ConcatProperties
  <1>2. x = [i \in 1 .. m |-> Encode(a[i])] /\ y = [i \in 1 .. n |-> Encode(b[i])]
    BY DEF Encoded
  <1>3. (\A i \in 1 .. m : Encode(a[i]) \in Payloads) /\ (\A i \in 1 .. n : Encode(b[i]) \in Payloads)
    <2>1. (\A i \in 1 .. m : a[i] \in Rec) /\ (\A i \in 1 .. n : b[i] \in Rec)
      OBVIOUS
    <2> QED
      BY <2>1 DEF Payloads
  <1>4. x \in Seq(Payloads) /\ y \in Seq(Payloads) /\ Len(x) = m /\ Len(y) = n
    <2> HIDE DEF Payloads
    <2> QED
      BY ONLY <1>1, <1>2, <1>3
  <1>5. /\ x \o y \in Seq(Payloads) /\ Len(x \o y) = m + n
        /\ \A i \in 1 .. m + n : (x \o y)[i] = IF i <= m THEN x[i] ELSE y[i - m]
    BY ONLY <1>4, ConcatProperties
  <1>6. ASSUME NEW i \in 1 .. m + n PROVE (x \o y)[i] = Encode(ab[i])
    <2>1. CASE i <= m
      <3>1. i \in 1 .. m
        BY ONLY <1>1, <2>1, i \in 1 .. m + n
      <3> QED
        BY <1>1, <1>2, <1>5, <2>1, <3>1
    <2>2. CASE ~(i <= m)
      <3>1. i - m \in 1 .. n
        BY ONLY <1>1, <2>2, i \in 1 .. m + n
      <3> QED
        BY <1>1, <1>2, <1>5, <2>2, <3>1
    <2> QED
      BY <2>1, <2>2
  <1> PICK z : z = x \o y
    OBVIOUS
  <1>7. z = [i \in 1 .. m + n |-> z[i]] /\ \A i \in 1 .. m + n : z[i] = Encode(ab[i])
    <2>1. z \in Seq(Payloads) /\ Len(z) = m + n
      BY <1>5
    <2>2. z = [i \in 1 .. m + n |-> z[i]]
      <3> HIDE DEF Payloads
      <3> QED
        BY ONLY <2>1
    <2>3. \A i \in 1 .. m + n : z[i] = Encode(ab[i])
      BY <1>6
    <2> QED
      BY ONLY <2>2, <2>3
  <1>8. z = [i \in 1 .. m + n |-> Encode(ab[i])]
    BY ONLY <1>7
  <1> QED
    BY <1>1, <1>8 DEF Encoded

\* The values that WriteSample computes, and the variables after it.
Writes(s, sample, agg, agg3, buf1, buf2, rolls1, rolls2, new) ==
    /\ sample \in Sample /\ sample["ts"] = FirstTime + Len(taken)
    /\ \A x \in Fields \ {"ts"} : sample[x] = s[x]
    /\ buf1 = Append(tier1Buf, sample) /\ buf1 \in Seq(Sample) /\ Len(buf1) > 0
    /\ agg = AggregateSamples(buf1) /\ agg \in TierRec
    /\ buf2 = Append(tier2Buf, agg) /\ buf2 \in Seq(TierRec) /\ Len(buf2) > 0
    /\ agg3 = AggregateAggregated(buf2) /\ agg3 \in TierRec
    /\ rolls1 \in BOOLEAN /\ rolls1 = (Len(buf1) >= Ratio1)
    /\ rolls2 \in BOOLEAN /\ rolls2 = (rolls1 /\ Len(buf2) >= Ratio2)
    /\ Raw(sample) \in TierRec
    /\ new = Added(sample, agg, agg3, rolls1, rolls2) /\ new \in [Tiers -> Seq(TierRec)]
    /\ taken' = Append(taken, sample) /\ answer' = unasked
    /\ tier1Buf' = (IF rolls1 THEN <<>> ELSE buf1)
    /\ tier2Buf' = (IF rolls2 THEN <<>> ELSE IF rolls1 THEN buf2 ELSE tier2Buf)
    /\ written' = [k \in Tiers |-> written[k] \o new[k]]
    /\ file' = [k \in Tiers |-> file[k] \o Encoded(new[k])]

(* A step writes one sample, and what it fills to the tiers above. *)
LEMMA WriteIs ==
    ASSUME FileInv, NEW s \in Samples, WriteSample(s)
    PROVE  \E sample, agg, agg3, buf1, buf2, rolls1, rolls2, new :
               Writes(s, sample, agg, agg3, buf1, buf2, rolls1, rolls2, new)
  <1> PICK sample, agg, agg3, buf1, buf2, rolls1, rolls2, new :
          /\ sample = [s EXCEPT !.ts = FirstTime + Len(taken)]
          /\ buf1 = Append(tier1Buf, sample)
          /\ agg = AggregateSamples(buf1)
          /\ buf2 = Append(tier2Buf, agg)
          /\ agg3 = AggregateAggregated(buf2)
          /\ rolls1 = (Len(buf1) >= Ratio1)
          /\ rolls2 = (rolls1 /\ Len(buf2) >= Ratio2)
          /\ new = Added(sample, agg, agg3, rolls1, rolls2)
    OBVIOUS
  <1>1. s \in Sample /\ HasFields(s)
    <2>1. s \in Sample
      BY SamplesAssumption DEF Sample
    <2> QED
      BY <2>1, SampleIs
  <1>2. FirstTime + Len(taken) \in Nat
    BY RecordsAssumption DEF FileInv
  <1>3. /\ sample["ts"] = FirstTime + Len(taken)
        /\ \A x \in Fields \ {"ts"} : sample[x] = s[x]
        /\ sample = [x \in Fields |-> sample[x]]
    <2>1. s = [x \in Fields |-> s[x]] /\ "ts" \in Fields
      BY <1>1 DEF HasFields, Fields
    <2> QED
      BY <2>1
  <1>4. sample \in Sample
    <2>1. HasFields(sample)
      BY <1>1, <1>2, <1>3 DEF HasFields, Fields
    <2> QED
      BY <2>1, SampleIs
  <1>5. buf1 \in Seq(Sample) /\ Len(buf1) > 0
    BY <1>4 DEF FileInv
  <1>6. agg \in TierRec
    BY <1>5, AggregateSamplesType
  <1>7. buf2 \in Seq(TierRec) /\ Len(buf2) > 0
    BY <1>6 DEF FileInv
  <1>8. agg3 \in TierRec
    <2>1. buf2 \in Seq(Rec)
      <3>1. TierRec \subseteq Rec
        BY DEF TierRec
      <3> QED
        BY <1>7, <3>1, SeqMonotonic
    <2> QED
      BY <1>7, <2>1, AggregateType
  <1>9. Raw(sample) \in TierRec
    <2> PICK r : r = [ts |-> sample["ts"], data |-> sample, min |-> nil, max |-> nil]
      OBVIOUS
    <2>1. r \in Rec /\ r.min = nil /\ r.max = nil /\ r.data["ts"] = r.ts
      BY <1>2, <1>3, <1>4 DEF Rec
    <2>2. Raw(sample) = r
      BY DEF Raw
    <2> QED
      BY <2>1, <2>2 DEF TierRec, Paired
  <1>10. new \in [Tiers -> Seq(TierRec)]
    <2>1. /\ <<Raw(sample)>> \in Seq(TierRec) /\ <<agg>> \in Seq(TierRec)
          /\ <<agg3>> \in Seq(TierRec) /\ <<>> \in Seq(TierRec)
      BY <1>6, <1>8, <1>9
    <2>2. \A k \in Tiers : k = 0 \/ k = 1 \/ k = 2
      BY DEF Tiers
    <2> QED
      BY <2>1, <2>2 DEF Added
  <1>11. /\ taken' = Append(taken, sample) /\ answer' = unasked
         /\ tier1Buf' = (IF rolls1 THEN <<>> ELSE buf1)
         /\ tier2Buf' = (IF rolls2 THEN <<>> ELSE IF rolls1 THEN buf2 ELSE tier2Buf)
         /\ written' = [k \in Tiers |-> written[k] \o new[k]]
         /\ file' = [k \in Tiers |-> file[k] \o Encoded(new[k])]
    BY DEF WriteSample
  <1>12. rolls1 \in BOOLEAN /\ rolls2 \in BOOLEAN
    OBVIOUS
  <1>13. Writes(s, sample, agg, agg3, buf1, buf2, rolls1, rolls2, new)
    BY <1>3, <1>4, <1>5, <1>6, <1>7, <1>8, <1>9, <1>10, <1>11, <1>12 DEF Writes
  <1> QED
    BY <1>13

(* What the tiers hold are records. *)
LEMMA PairedAreRec == TierRec \subseteq Rec /\ Seq(TierRec) \subseteq Seq(Rec)
  <1>1. TierRec \subseteq Rec
    BY DEF TierRec
  <1> QED
    BY <1>1, SeqMonotonic

(* FileInv holds at the start, ... *)
LEMMA FileInvInit == Init => FileInv
  <1> SUFFICES ASSUME Init PROVE FileInv
    OBVIOUS
  <1>1. taken \in Seq(Sample) /\ tier1Buf \in Seq(Sample) /\ tier2Buf \in Seq(TierRec)
    BY DEF Init
  <1>2. written \in [Tiers -> Seq(TierRec)]
    BY DEF Init
  <1>3. Encoded(<<>>) = <<>>
    BY DEF Encoded
  <1>4. file = [k \in Tiers |-> Encoded(written[k])]
    BY <1>3 DEF Init
  <1> QED
    BY <1>1, <1>2, <1>4 DEF FileInv

(* ... after a sample is written, ... *)
LEMMA FileInvWrite ==
    ASSUME FileInv, NEW s \in Samples, WriteSample(s)
    PROVE  FileInv'
  <1> PICK sample, agg, agg3, buf1, buf2, rolls1, rolls2, new :
           Writes(s, sample, agg, agg3, buf1, buf2, rolls1, rolls2, new)
    BY WriteIs
  <1>1. taken' \in Seq(Sample)
    BY DEF FileInv, Writes
  <1>2. tier1Buf' \in Seq(Sample) /\ tier2Buf' \in Seq(TierRec)
    BY DEF FileInv, Writes
  <1>3. ASSUME NEW k \in Tiers
        PROVE  /\ written[k] \in Seq(TierRec) /\ new[k] \in Seq(TierRec)
               /\ written[k] \o new[k] \in Seq(TierRec)
               /\ Encoded(written[k]) \o Encoded(new[k]) = Encoded(written[k] \o new[k])
    <2>1. written[k] \in Seq(TierRec) /\ new[k] \in Seq(TierRec)
      BY DEF FileInv, Writes
    <2>2. written[k] \o new[k] \in Seq(TierRec)
      BY ONLY <2>1, ConcatProperties
    <2>3. written[k] \in Seq(Rec) /\ new[k] \in Seq(Rec)
      BY <2>1, PairedAreRec
    <2> QED
      BY <2>1, <2>2, <2>3, EncodedConcat
  <1>4. written' = [k \in Tiers |-> written[k] \o new[k]]
    BY DEF Writes
  <1>5. written' \in [Tiers -> Seq(TierRec)]
    BY ONLY <1>3, <1>4
  <1>6. file' = [k \in Tiers |-> file[k] \o Encoded(new[k])] /\ file = [k \in Tiers |-> Encoded(written[k])]
    BY DEF Writes, FileInv
  <1>7. file' = [k \in Tiers |-> Encoded(written'[k])]
    BY ONLY <1>3, <1>4, <1>6
  <1> QED
    BY <1>1, <1>2, <1>5, <1>7 DEF FileInv

(* ... after every step, ... *)
LEMMA FileInvNext == FileInv /\ [Next]_vars => FileInv'
  <1> SUFFICES ASSUME FileInv, [Next]_vars PROVE FileInv'
    OBVIOUS
  <1>1. CASE UNCHANGED <<taken, file, written, tier1Buf, tier2Buf>>
    BY <1>1 DEF FileInv
  <1>2. ASSUME NEW s \in Samples, WriteSample(s) PROVE FileInv'
    BY <1>2, FileInvWrite
  <1> QED
    BY <1>1, <1>2 DEF Next, vars, WriteSampleFails, Query

(* ... and so always. *)
LEMMA FilesTyped == Spec => []FileInv
  BY FileInvInit, FileInvNext, PTL DEF Spec

\* The record i of a tier.
LEMMA RecordAt ==
    ASSUME FileInv, NEW k \in Tiers, NEW i \in 1 .. Len(file[k])
    PROVE  /\ i \in 1 .. Len(written[k]) /\ written[k][i] \in TierRec
           /\ file[k][i] = Encode(written[k][i])
  <1> PICK w : w = written[k]
    OBVIOUS
  <1>1. w \in Seq(TierRec) /\ file[k] = Encoded(w)
    BY DEF FileInv
  <1>2. Len(w) \in Nat /\ file[k] = [x \in 1 .. Len(w) |-> Encode(w[x])]
    BY <1>1 DEF Encoded
  <1>3. Len(file[k]) = Len(w)
    BY <1>2
  <1>4. w[i] \in TierRec
    BY <1>1, <1>3
  <1> QED
    BY <1>2, <1>3, <1>4

\* What is read from a file is what was written to it, apart from the two
\* numbers that are cut and the two fields that no file holds; its timestamp is
\* found without decoding it.
THEOREM FilesReadBack == Spec => []NothingElseLost
  <1>1. FileInv => NothingElseLost
    <2> SUFFICES ASSUME FileInv, NEW k \in Tiers, NEW i \in 1 .. Len(file[k])
                 PROVE  /\ ReadRecord(file[k][i]) = Storable(written[k][i])
                        /\ ExtractTimestamp(file[k][i]) = written[k][i].ts
      BY DEF NothingElseLost
    <2>1. written[k][i] \in Rec /\ file[k][i] = Encode(written[k][i])
      BY RecordAt, PairedAreRec
    <2> QED
      BY <2>1, StoredRead
  <1> QED
    BY <1>1, FilesTyped, PTL

\* A record of any earlier format is read as what that format tells of it, as long
\* as its first byte tells the format, and when it is of one sample or has a GPU
\* section.
THEOREM OldRecordsRead == Spec => []OldFormatsRead
  <1>1. FileInv => OldFormatsRead
    <2> SUFFICES ASSUME FileInv, NEW k \in Tiers, Len(written[k]) > 0
                 PROVE  LET r == Storable(written[k][Len(written[k])])
                            told(f) == f.kind \/ r.ts % LowByte \notin {KindBinary, KindJSON}
                        IN /\ ReadRecord(EncodeJSON(r)) = r
                           /\ \A f \in OldFormats :
                                  told(f) /\ (f.gpu \/ r.min = nil) =>
                                      ReadRecord(EncodeAs(r, f)) = RecordAs(r, f)
      BY DEF OldFormatsRead
    <2> PICK w : w = written[k]
      OBVIOUS
    <2>1. w \in Seq(TierRec) /\ Len(w) > 0
      BY DEF FileInv
    <2> PICK q : q = w[Len(w)]
      OBVIOUS
    <2>2. q \in TierRec
      BY ONLY <2>1, q = w[Len(w)]
    <2>3. q \in Rec /\ Paired(q)
      BY <2>2 DEF TierRec
    <2>4. ReadRecord(EncodeJSON(Storable(q))) = Storable(q)
      BY DEF ReadRecord, EncodeJSON
    <2>5. ASSUME NEW f \in OldFormats,
                 f.kind \/ Storable(q).ts % LowByte \notin {KindBinary, KindJSON},
                 f.gpu \/ Storable(q).min = nil
          PROVE  ReadRecord(EncodeAs(Storable(q), f)) = RecordAs(Storable(q), f)
      BY <2>3, <2>5, OldRead
    <2> QED
      BY <2>4, <2>5
  <1> QED
    BY <1>1, FilesTyped, PTL
-----------------------------------------------------------------------------
(* Combining samples as they were, and as they are read back.                *)

\* Two samples that the files hold alike.
Alike(a, b) ==
    /\ a \in Sample /\ b \in Sample
    /\ \A x \in Fields \ Altered : a[x] = b[x]
    /\ Cut(a["running"]) = Cut(b["running"])
    /\ a["users"] % UserLimit = b["users"] % UserLimit

\* Samples that the files hold alike, one by one.
AllAlike(S, T) ==
    /\ S \in Seq(Sample) /\ T \in Seq(Sample) /\ Len(S) = Len(T) /\ Len(S) > 0
    /\ \A i \in 1 .. Len(S) : Alike(S[i], T[i])

\* A sample and what is read of it.
LEMMA AlikeRead ==
    ASSUME NEW s \in Sample, NEW ts \in Nat
    PROVE  Alike(StorableSample(s, ts), s)
  <1> PICK z : z = StorableSample(s, ts)
    OBVIOUS
  <1>1. z = [x \in Fields |-> StoredField(s, ts, x)]
    BY StorableIs
  <1>2. z \in Sample
    BY StorableTwice, NotNil
  <1>3. s["running"] \in Nat /\ s["users"] \in Nat
    BY SampleIs DEF HasFields
  <1>4. /\ z["running"] = Cut(s["running"]) /\ z["users"] = s["users"] % UserLimit
        /\ \A x \in Fields \ Altered : z[x] = s[x]
    BY <1>1 DEF StoredField, Altered, Unstored, Fields
  <1> QED
    BY <1>2, <1>3, <1>4, CutTwice DEF Alike

\* They are written alike.
LEMMA AlikeStored ==
    ASSUME NEW a, NEW b, Alike(a, b), NEW ts
    PROVE  StorableSample(a, ts) = StorableSample(b, ts)
  <1>1. a \in Sample /\ b \in Sample
    BY DEF Alike
  <1>2. \A x \in Fields :
            StoredField(a, ts, x) = StoredField(b, ts, x)
    BY DEF Alike, StoredField, Altered, Unstored
  <1>3. StorableSample(a, ts) =
            [x \in Fields |-> StoredField(a, ts, x)]
    BY <1>1, StorableIs
  <1>4. StorableSample(b, ts) =
            [x \in Fields |-> StoredField(b, ts, x)]
    BY <1>1, StorableIs
  <1> QED
    BY ONLY <1>2, <1>3, <1>4

\* The average of samples takes each field on its own.
LEMMA AlikeAverage ==
    ASSUME NEW S, NEW T, AllAlike(S, T)
    PROVE  Alike(Average(S), Average(T))
  <1> PICK n, last, other, a, b :
          /\ n = Len(S) /\ last = S[n] /\ other = T[n]
          /\ a = Average(S) /\ b = Average(T)
    OBVIOUS
  <1>1. S \in Seq(Sample) /\ T \in Seq(Sample) /\ Len(T) = n /\ n > 0 /\ n \in 1 .. n
    BY DEF AllAlike
  <1>2. Alike(last, other)
    BY <1>1 DEF AllAlike
  <1>3. a \in Sample /\ b \in Sample
    BY <1>1, AverageType
  <1>4. /\ a = [x \in Fields |-> AverageOf(S, last, x)]
        /\ b = [x \in Fields |-> AverageOf(T, other, x)]
    BY <1>1, AverageIs
  <1>5. \A x \in Fields \ Altered : Column(S, x) = Column(T, x)
    BY <1>1 DEF Column, AllAlike, Alike
  <1>6. \A x \in Fields \ Altered : last[x] = other[x]
    BY <1>2 DEF Alike
  <1>7. \A x \in Fields \ Altered : AverageOf(S, last, x) = AverageOf(T, other, x)
    <2>1. "usage" \in Fields \ Altered
      BY DEF Fields, Altered, Unstored
    <2> QED
      BY <1>5, <1>6, <2>1 DEF AverageOf
  <1>8. /\ a["running"] = last["running"] /\ b["running"] = other["running"]
        /\ a["users"] = last["users"] /\ b["users"] = other["users"]
    BY <1>4 DEF AverageOf, Fields
  <1>9. \A x \in Fields \ Altered : a[x] = b[x]
    BY <1>4, <1>7
  <1> QED
    BY <1>2, <1>3, <1>8, <1>9 DEF Alike

\* So do the extremes.
LEMMA AlikeMerge ==
    ASSUME NEW a, NEW b, NEW c, NEW d, Alike(a, c), Alike(b, d), NEW which
    PROVE  Alike(MergeSample(a, b, which), MergeSample(c, d, which))
  <1> PICK m, p : m = MergeSample(a, b, which) /\ p = MergeSample(c, d, which)
    OBVIOUS
  <1>1. a \in Sample /\ b \in Sample /\ c \in Sample /\ d \in Sample
    BY DEF Alike
  <1>2. m \in Sample /\ p \in Sample
    BY <1>1, MergeType
  <1>3. /\ m = [x \in Fields |->
                   IF x \in {"usage", "used"} THEN Extreme(which, a[x], b[x])
                   ELSE IF x = "disks" THEN MergedDisks(a[x], b[x], which)
                   ELSE IF x = "ifaces" THEN MergedIfaces(a[x], b[x], which)
                   ELSE a[x]]
        /\ p = [x \in Fields |->
                   IF x \in {"usage", "used"} THEN Extreme(which, c[x], d[x])
                   ELSE IF x = "disks" THEN MergedDisks(c[x], d[x], which)
                   ELSE IF x = "ifaces" THEN MergedIfaces(c[x], d[x], which)
                   ELSE c[x]]
    BY <1>1, MergeIs
  <1>4. \A x \in Fields \ Altered : a[x] = c[x] /\ b[x] = d[x]
    BY DEF Alike
  <1>5. \A x \in Fields \ Altered : m[x] = p[x]
    BY <1>3, <1>4
  <1>6. /\ m["running"] = a["running"] /\ p["running"] = c["running"]
        /\ m["users"] = a["users"] /\ p["users"] = c["users"]
    BY <1>3 DEF Fields
  <1> QED
    BY <1>2, <1>5, <1>6 DEF Alike

(* Merging samples and what is read of them gives the same. *)
LEMMA AlikeMerged ==
    ASSUME NEW S, NEW T, AllAlike(S, T), NEW which
    PROVE  Alike(Merged(S, which), Merged(T, which))
  <1> PICK n : n = Len(S)
    OBVIOUS
  <1>1. S \in Seq(Sample) /\ T \in Seq(Sample) /\ Len(T) = n /\ n > 0 /\ n \in Nat
    BY DEF AllAlike
  <1> PICK f : Mergings(f, S, which)
    BY <1>1, MergedLoop
  <1> PICK g : Mergings(g, T, which)
    BY <1>1, MergedLoop
  <1> DEFINE Good == {i \in 0 .. n : Alike(f[i], g[i])}
  <1>2. 0 \in Good
    <2>1. Alike(S[1], T[1]) /\ f[0] = S[1] /\ g[0] = T[1] /\ 0 \in 0 .. n
      BY <1>1 DEF AllAlike, Mergings
    <2> QED
      BY <2>1
  <1>3. ASSUME NEW i \in 1 .. n, i - 1 \in Good PROVE i \in Good
    <2>1. f[i] = MergeSample(f[i - 1], S[i], which) /\ g[i] = MergeSample(g[i - 1], T[i], which)
      BY <1>1 DEF Mergings
    <2>2. Alike(f[i - 1], g[i - 1]) /\ Alike(S[i], T[i]) /\ i \in 0 .. n
      BY <1>1, <1>3 DEF AllAlike
    <2> QED
      BY <2>1, <2>2, AlikeMerge
  <1> HIDE DEF Good
  <1>4. \A i \in 0 .. n : i \in Good
    BY ONLY <1>1, <1>2, <1>3, UpTo
  <1>5. Alike(f[n], g[n])
    BY <1>1, <1>4 DEF Good
  <1> QED
    BY <1>1, <1>5 DEF Mergings

(* So does rolling them up. *)
LEMMA AlikeSamples ==
    ASSUME NEW S, NEW T, AllAlike(S, T)
    PROVE  /\ Alike(AggregateSamples(S).data, AggregateSamples(T).data)
           /\ Alike(AggregateSamples(S).min, AggregateSamples(T).min)
           /\ Alike(AggregateSamples(S).max, AggregateSamples(T).max)
  <1>1. Len(S) = Len(T) /\ Alike(S[1], T[1])
    BY DEF AllAlike
  <1> QED
    BY <1>1, AlikeAverage, AlikeMerged DEF AggregateSamples

\* Records of a tier are combined alike when they are read back.
LEMMA AlikeRecords ==
    ASSUME NEW records \in Seq(TierRec), Len(records) > 0,
           NEW read, read = [i \in 1 .. Len(records) |-> Storable(records[i])]
    PROVE  /\ Storable(AggregateAggregated(read)) = Storable(AggregateAggregated(records))
           /\ Alike(AggregateAggregated(read).data, AggregateAggregated(records).data)
           /\ Alike(AggregateAggregated(read).min, AggregateAggregated(records).min)
           /\ Alike(AggregateAggregated(read).max, AggregateAggregated(records).max)
  <1> PICK n, flat, flatRead, p, q :
          /\ n = Len(records)
          /\ flat = AggregateSamples(Datas(records)) /\ flatRead = AggregateSamples(Datas(read))
          /\ p = AggregateAggregated(records) /\ q = AggregateAggregated(read)
    OBVIOUS
  <1>1. n \in Nat /\ n > 0 /\ n \in 1 .. n /\ \A i \in 1 .. n : records[i] \in TierRec
    OBVIOUS
  <1>2. \A i \in 1 .. n : records[i] \in Rec /\ read[i] = Storable(records[i])
    BY <1>1, PairedAreRec
  <1>3. records \in Seq(Rec)
    BY PairedAreRec
  <1>4. read \in Seq(Rec) /\ Len(read) = n
    <2>1. \A i \in 1 .. n : Storable(records[i]) \in Rec
      BY <1>2, StorableRec
    <2> QED
      BY <1>1, <2>1
  <1>5. ASSUME NEW i \in 1 .. n
        PROVE  LET r == records[i]  z == read[i]
               IN /\ Alike(z.data, r.data) /\ z.data["ts"] = r.data["ts"]
                  /\ z.min = nil <=> r.min = nil
                  /\ z.max = nil <=> r.max = nil
                  /\ r.min # nil => Alike(z["min"], r["min"])
                  /\ r.max # nil => Alike(z["max"], r["max"])
    <2> PICK r, z : r = records[i] /\ z = read[i]
      OBVIOUS
    <2>1. r \in Rec /\ z = Storable(r) /\ r.data["ts"] = r.ts
      BY <1>1, <1>2 DEF TierRec
    <2>2. /\ r.ts \in Nat /\ r.data \in Sample
          /\ r.min # nil => r.min \in Sample
          /\ r.max # nil => r.max \in Sample
      BY <2>1 DEF Rec
    <2>3. /\ z.data = StorableSample(r.data, r.ts) /\ z.min = StorableSample(r.min, r.ts)
          /\ z.max = StorableSample(r.max, r.ts)
      BY <2>1 DEF Storable
    <2>4. z.data["ts"] = r.ts
      BY <2>2, <2>3, StorableIs DEF StoredField, Fields
    <2>5. (z.min = nil <=> r.min = nil) /\ (z.max = nil <=> r.max = nil)
      BY <2>1, StorableRec
    <2>6. Alike(z.data, r.data)
      BY <2>2, <2>3, AlikeRead
    <2>7. r.min # nil => Alike(z.min, r.min)
      BY <2>2, <2>3, AlikeRead
    <2>8. r.max # nil => Alike(z.max, r.max)
      BY <2>2, <2>3, AlikeRead
    <2> QED
      BY <2>1, <2>4, <2>5, <2>6, <2>7, <2>8
  <1>6. AllAlike(Datas(read), Datas(records))
    <2>1. /\ Datas(records) \in Seq(Sample) /\ Len(Datas(records)) = n
          /\ Datas(read) \in Seq(Sample) /\ Len(Datas(read)) = n
      BY <1>1, <1>3, <1>4, AggregateIs
    <2>2. \A i \in 1 .. n : Datas(read)[i] = read[i].data /\ Datas(records)[i] = records[i].data
      BY <1>4 DEF Datas
    <2> QED
      BY <1>1, <1>5, <2>1, <2>2 DEF AllAlike
  <1>7. ASSUME NEW which \in {"min", "max"} PROVE AllAlike(Ends(read, which), Ends(records, which))
    <2>1. /\ Ends(records, which) \in Seq(Sample) /\ Len(Ends(records, which)) = n
          /\ Ends(read, which) \in Seq(Sample) /\ Len(Ends(read, which)) = n
      BY <1>1, <1>3, <1>4, AggregateIs
    <2>2. ASSUME NEW i \in 1 .. n PROVE Alike(Ends(read, which)[i], Ends(records, which)[i])
      <3>1. /\ Ends(read, which)[i] = (IF read[i][which] = nil THEN read[i].data ELSE read[i][which])
            /\ Ends(records, which)[i] = (IF records[i][which] = nil THEN records[i].data
                                          ELSE records[i][which])
        BY <1>4 DEF Ends
      <3>2. CASE which = "min"
        BY <1>5, <3>1, <3>2
      <3>3. CASE which = "max"
        BY <1>5, <3>1, <3>3
      <3> QED
        BY <3>2, <3>3
    <2> QED
      BY <1>1, <2>1, <2>2 DEF AllAlike
  <1>8. AllRaw(read) <=> AllRaw(records)
    BY <1>4, <1>5 DEF AllRaw
  <1>9. /\ p.ts = flat.ts /\ p.data = flat.data
        /\ p.min = (IF AllRaw(records) THEN flat.min ELSE Merged(Ends(records, "min"), "min"))
        /\ p.max = (IF AllRaw(records) THEN flat.max ELSE Merged(Ends(records, "max"), "max"))
    BY <1>1, <1>3, AggregateIs
  <1>10. /\ q.ts = flatRead.ts /\ q.data = flatRead.data
         /\ q.min = (IF AllRaw(read) THEN flatRead.min ELSE Merged(Ends(read, "min"), "min"))
         /\ q.max = (IF AllRaw(read) THEN flatRead.max ELSE Merged(Ends(read, "max"), "max"))
    BY <1>1, <1>4, AggregateIs
  <1>11. /\ Alike(flatRead.data, flat.data) /\ Alike(flatRead.min, flat.min)
         /\ Alike(flatRead.max, flat.max)
    BY <1>6, AlikeSamples
  <1>12. /\ Alike(Merged(Ends(read, "min"), "min"), Merged(Ends(records, "min"), "min"))
         /\ Alike(Merged(Ends(read, "max"), "max"), Merged(Ends(records, "max"), "max"))
    BY <1>7, AlikeMerged
  <1>13. Alike(q.data, p.data) /\ Alike(q.min, p.min) /\ Alike(q.max, p.max)
    BY <1>8, <1>9, <1>10, <1>11, <1>12
  <1>14. q.ts = p.ts
    <2>1. /\ p.ts = records[n].data["ts"] /\ q.ts = read[n].data["ts"]
      BY <1>1, <1>3, <1>4, AggregateType
    <2> QED
      BY <1>1, <1>5, <2>1
  <1>15. /\ StorableSample(q.data, q.ts) = StorableSample(p.data, p.ts)
         /\ StorableSample(q.min, q.ts) = StorableSample(p.min, p.ts)
         /\ StorableSample(q.max, q.ts) = StorableSample(p.max, p.ts)
    BY <1>13, <1>14, AlikeStored
  <1>16. Storable(q) = Storable(p)
    BY ONLY <1>14, <1>15 DEF Storable
  <1> QED
    BY <1>13, <1>16

\* The point of an answer combines the records of a part of a tier.
AnswerInv ==
    asked =>
        /\ answer.tier \in Tiers
        /\ answer.from \in 1 .. Len(written[answer.tier])
        /\ answer.to \in answer.from .. Len(written[answer.tier])
        /\ answer.point = AggregateAggregated(Read(answer.tier, answer.from, answer.to))

(* A step keeps the answer what is read of the records asked for. *)
LEMMA AnswerInvNext == FileInv /\ AnswerInv /\ [Next]_vars => AnswerInv'
  <1> SUFFICES ASSUME FileInv, AnswerInv, [Next]_vars PROVE AnswerInv'
    OBVIOUS
  <1>1. CASE UNCHANGED vars
    BY <1>1 DEF AnswerInv, vars, asked, Read
  <1>2. ASSUME NEW s \in Samples, WriteSample(s) PROVE AnswerInv'
    <2>1. answer' = unasked
      BY <1>2 DEF WriteSample
    <2> QED
      BY <2>1 DEF AnswerInv, asked, unasked
  <1>3. ASSUME NEW k \in Tiers, NEW i \in 1 .. Len(file[k]), NEW j \in i .. Len(file[k]), Query(k, i, j)
        PROVE  AnswerInv'
    <2> PICK point : point = AggregateAggregated(Read(k, i, j))
      OBVIOUS
    <2>1. /\ answer' = [tier |-> k, from |-> i, to |-> j, point |-> point]
          /\ file' = file /\ written' = written
      BY <1>3 DEF Query
    <2>2. /\ (answer.tier)' = k /\ (answer.from)' = i /\ (answer.to)' = j /\ (answer.point)' = point
      BY <2>1
    <2>3. Len(file[k]) = Len(written[k])
      <3> PICK w : w = written[k]
        OBVIOUS
      <3>1. w \in Seq(TierRec) /\ file[k] = Encoded(w)
        BY DEF FileInv
      <3>2. Len(w) \in Nat /\ file[k] = [x \in 1 .. Len(w) |-> Encode(w[x])]
        BY <3>1 DEF Encoded
      <3> QED
        BY <3>2
    <2>4. Read(k, i, j)' = Read(k, i, j)
      BY <2>1 DEF Read
    <2> QED
      BY <2>1, <2>2, <2>3, <2>4 DEF AnswerInv
  <1>4. CASE Next
    BY <1>1, <1>2, <1>3, <1>4 DEF Next, WriteSampleFails
  <1> QED
    BY <1>1, <1>4

(* So the answer always is what is read of them. *)
LEMMA AnswersKnown == Spec => [](FileInv /\ AnswerInv)
  <1>1. Init => AnswerInv
    BY DEF Init, AnswerInv, asked, unasked
  <1> QED
    BY <1>1, FileInvInit, FileInvNext, AnswerInvNext, PTL DEF Spec

\* The records behind the point of an answer.
LEMMA AnswerIs ==
    ASSUME FileInv, AnswerInv, asked
    PROVE  LET records == SubSeq(written[answer.tier], answer.from, answer.to)
           IN /\ records \in Seq(TierRec) /\ Len(records) > 0
              /\ Len(records) = answer.to - answer.from + 1
              /\ \A x \in 1 .. Len(records) : records[x] = written[answer.tier][answer.from + x - 1]
              /\ Read(answer.tier, answer.from, answer.to) =
                     [x \in 1 .. Len(records) |-> Storable(records[x])]
  <1> PICK k, i, j, w, records :
          /\ k = answer.tier /\ i = answer.from /\ j = answer.to
          /\ w = written[k] /\ records = SubSeq(w, i, j)
    OBVIOUS
  <1>1. k \in Tiers /\ i \in 1 .. Len(w) /\ j \in i .. Len(w)
    BY DEF AnswerInv
  <1>2. w \in Seq(TierRec)
    BY <1>1 DEF FileInv
  <1>3. /\ records \in Seq(TierRec) /\ Len(records) = j - i + 1 /\ Len(records) > 0
        /\ \A x \in 1 .. Len(records) : records[x] = w[i + x - 1]
    BY ONLY <1>1, <1>2, records = SubSeq(w, i, j)
  <1>4. ASSUME NEW x \in 1 .. j - i + 1 PROVE ReadRecord(file[k][i + x - 1]) = Storable(records[x])
    <2>1. Len(file[k]) = Len(w)
      <3>1. file[k] = [y \in 1 .. Len(w) |-> Encode(w[y])]
        BY <1>1 DEF FileInv, Encoded
      <3>2. Len(w) \in Nat
        BY <1>2
      <3> QED
        BY <3>1, <3>2
    <2>2. i + x - 1 \in 1 .. Len(file[k]) /\ x \in 1 .. Len(records)
      BY <1>1, <1>3, <2>1
    <2>3. w[i + x - 1] \in Rec /\ file[k][i + x - 1] = Encode(w[i + x - 1])
      BY <1>1, <2>2, RecordAt, PairedAreRec
    <2> QED
      BY <1>3, <2>2, <2>3, StoredRead
  <1>5. Read(k, i, j) = [x \in 1 .. j - i + 1 |-> Storable(records[x])]
    BY <1>4 DEF Read
  <1> QED
    BY <1>3, <1>5

\* It makes no difference whether records are combined as they are in memory or
\* as they are read back.
THEOREM ReadBackIsTheSame == Spec => []ReadBackCommutes
  <1>1. FileInv /\ AnswerInv => ReadBackCommutes
    <2> SUFFICES ASSUME FileInv, AnswerInv, asked
                 PROVE  Storable(answer.point) =
                            Storable(AggregateAggregated(
                                         SubSeq(written[answer.tier], answer.from, answer.to)))
      BY DEF ReadBackCommutes
    <2> PICK records, read : /\ records = SubSeq(written[answer.tier], answer.from, answer.to)
                             /\ read = Read(answer.tier, answer.from, answer.to)
      OBVIOUS
    <2>1. /\ records \in Seq(TierRec) /\ Len(records) > 0
          /\ read = [x \in 1 .. Len(records) |-> Storable(records[x])]
      BY AnswerIs
    <2>2. answer.point = AggregateAggregated(read)
      BY DEF AnswerInv
    <2>3. Storable(AggregateAggregated(read)) = Storable(AggregateAggregated(records))
      BY <2>1, AlikeRecords
    <2> QED
      BY <2>2, <2>3
  <1> QED
    BY <1>1, AnswersKnown, PTL
-----------------------------------------------------------------------------
(* Numbers, disks and interfaces through a roll-up.                          *)

\* What has an average and extremes: two numbers, and the entries of two lists.
Gauged == {"usage", "used", "disks", "ifaces"}
\* A sample shows the entry; and the value it has.
Shows(s, x, d) == x \in {"disks", "ifaces"} => Has(s[x], d)
Value(s, x, d) == IF x \in {"usage", "used"} THEN s[x] ELSE ValueIn(s[x], d)

(* The values of samples are integers. *)
LEMMA ValueType ==
    ASSUME NEW s \in Sample, NEW x \in Gauged, NEW d
    PROVE  Value(s, x, d) \in Int
  <1>1. HasFields(s)
    BY SampleIs
  <1>2. CASE x \in {"usage", "used"}
    BY <1>1, <1>2 DEF HasFields, Value
  <1>3. CASE x = "disks"
    <2>1. s["disks"] \in Seq(Device)
      BY <1>1 DEF HasFields
    <2> QED
      BY <1>3, <2>1, EntriesAre, ValueInType DEF Value
  <1>4. CASE x = "ifaces"
    <2>1. s["ifaces"] \in Seq(NamedValue)
      BY <1>1 DEF HasFields, List
    <2> QED
      BY <1>4, <2>1, EntriesAre, ValueInType DEF Value
  <1> QED
    BY <1>2, <1>3, <1>4 DEF Gauged

\* A list of the same names has the same entry first.
LEMMA SameNames ==
    ASSUME NEW C, NEW a \in Seq(C), NEW b \in Seq(C), Len(a) = Len(b),
           \A i \in 1 .. Len(a) : a[i].name = b[i].name, NEW d, Has(a, d)
    PROVE  Has(b, d) /\ Find(b, d) = Find(a, d)
  <1> PICK i, n : i = Find(a, d) /\ n = Len(a)
    OBVIOUS
  <1>1. n \in Nat /\ i \in 1 .. n /\ a[i].name = d /\ \A k \in 1 .. i - 1 : a[k].name # d
    BY FindIs
  <1>2. Has(b, d)
    BY <1>1 DEF Has
  <1> PICK j : j = Find(b, d)
    OBVIOUS
  <1>3. j \in 1 .. n /\ b[j].name = d /\ \A k \in 1 .. j - 1 : b[k].name # d
    BY <1>2, FindIs
  <1>4. ~(i < j)
    <2> SUFFICES ASSUME i < j PROVE FALSE
      OBVIOUS
    <2>1. i \in 1 .. j - 1
      BY ONLY <1>1, <1>3, i < j
    <2> QED
      BY <1>1, <1>3, <2>1
  <1>5. ~(j < i)
    <2> SUFFICES ASSUME j < i PROVE FALSE
      OBVIOUS
    <2>1. j \in 1 .. i - 1
      BY ONLY <1>1, <1>3, j < i
    <2> QED
      BY <1>1, <1>3, <2>1
  <1>6. i = j
    BY ONLY <1>1, <1>3, <1>4, <1>5
  <1> QED
    BY <1>2, <1>6

\* A merged list has the names of the first, each with the extreme of both.
LEMMA MergedValue ==
    ASSUME NEW C, NEW list \in Seq(C), NEW merged \in Seq(C), Len(list) = Len(merged),
           NEW other, NEW which,
           \A i \in 1 .. Len(list) :
               /\ list[i].name = merged[i].name
               /\ merged[i].value = Extreme(which, list[i].value, ValueIn(other, list[i].name)),
           NEW d, Has(list, d)
    PROVE  /\ Has(merged, d)
           /\ ValueIn(merged, d) = Extreme(which, ValueIn(list, d), ValueIn(other, d))
  <1> PICK i : i = Find(list, d)
    OBVIOUS
  <1>1. Has(merged, d) /\ Find(merged, d) = i
    BY SameNames
  <1>2. i \in 1 .. Len(list) /\ list[i].name = d /\ ValueIn(list, d) = list[i].value
    BY FindIs
  <1>3. ValueIn(merged, d) = merged[i].value
    BY <1>1, FindIs
  <1> QED
    BY <1>1, <1>2, <1>3

(* Merging two samples keeps the entries of the first, with the outer values. *)
LEMMA MergeValue ==
    ASSUME NEW a \in Sample, NEW b \in Sample, NEW which, NEW x \in Gauged, NEW d, Shows(a, x, d)
    PROVE  /\ Shows(MergeSample(a, b, which), x, d)
           /\ Value(MergeSample(a, b, which), x, d) = Extreme(which, Value(a, x, d), Value(b, x, d))
  <1> PICK m : m = MergeSample(a, b, which)
    OBVIOUS
  <1>1. m = [y \in Fields |->
                   IF y \in {"usage", "used"} THEN Extreme(which, a[y], b[y])
                   ELSE IF y = "disks" THEN MergedDisks(a[y], b[y], which)
                   ELSE IF y = "ifaces" THEN MergedIfaces(a[y], b[y], which)
                   ELSE a[y]]
    BY MergeIs
  <1>2. HasFields(a)
    BY SampleIs
  <1>3. CASE x \in {"usage", "used"}
    BY <1>1, <1>3 DEF Value, Shows, Fields
  <1>4. CASE x = "disks"
    <2> PICK list, other, merged : /\ list = a["disks"] /\ other = b["disks"]
                                   /\ merged = MergedDisks(list, other, which)
      OBVIOUS
    <2>1. list \in Seq(Device) /\ merged \in Seq(Device) /\ Has(list, d)
      BY <1>2, <1>4, MergedListTypes DEF HasFields, Shows
    <2>2. /\ Len(merged) = Len(list)
          /\ \A i \in 1 .. Len(list) :
                 /\ list[i].name = merged[i].name
                 /\ merged[i].value = Extreme(which, list[i].value, ValueIn(other, list[i].name))
      <3>1. Len(list) \in Nat
        BY <2>1
      <3> QED
        BY <3>1 DEF MergedDisks
    <2>3. Has(merged, d) /\ ValueIn(merged, d) = Extreme(which, ValueIn(list, d), ValueIn(other, d))
      BY ONLY <2>1, <2>2, MergedValue
    <2>4. m["disks"] = merged
      BY <1>1 DEF Fields
    <2> QED
      BY <1>4, <2>3, <2>4 DEF Value, Shows
  <1>5. CASE x = "ifaces"
    <2> PICK list, other, merged : /\ list = a["ifaces"] /\ other = b["ifaces"]
                                   /\ merged = MergedIfaces(list, other, which)
      OBVIOUS
    <2>1. list \in Seq(NamedValue) /\ merged \in Seq(NamedValue) /\ Has(list, d)
      BY <1>2, <1>5, MergedListTypes DEF HasFields, Shows, List
    <2>2. /\ Len(merged) = Len(list)
          /\ \A i \in 1 .. Len(list) :
                 /\ list[i].name = merged[i].name
                 /\ merged[i].value = Extreme(which, list[i].value, ValueIn(other, list[i].name))
      <3>1. Len(list) \in Nat
        BY <2>1
      <3> QED
        BY <3>1 DEF MergedIfaces
    <2>3. Has(merged, d) /\ ValueIn(merged, d) = Extreme(which, ValueIn(list, d), ValueIn(other, d))
      BY ONLY <2>1, <2>2, MergedValue
    <2>4. m["ifaces"] = merged
      BY <1>1 DEF Fields
    <2> QED
      BY <1>5, <2>3, <2>4 DEF Value, Shows
  <1> QED
    BY <1>3, <1>4, <1>5 DEF Gauged

\* The extreme of samples is that of one of them, and beyond none.
Outermost(e, which, S, x, d) ==
    /\ Shows(e, x, d)
    /\ \E i \in 1 .. Len(S) : Value(e, x, d) = Value(S[i], x, d)
    /\ \A i \in 1 .. Len(S) :
           /\ which = "min" => Value(e, x, d) <= Value(S[i], x, d)
           /\ which = "max" => Value(e, x, d) >= Value(S[i], x, d)

(* Merged samples have the outermost of the values, which one of them has. *)
LEMMA MergedOutermost ==
    ASSUME NEW S \in Seq(Sample), Len(S) > 0, NEW which, NEW x \in Gauged, NEW d,
           \A i \in 1 .. Len(S) : Shows(S[i], x, d)
    PROVE  Outermost(Merged(S, which), which, S, x, d)
  <1> PICK n : n = Len(S)
    OBVIOUS
  <1>1. n \in Nat /\ n > 0 /\ \A i \in 1 .. n : S[i] \in Sample
    OBVIOUS
  <1> PICK f : Mergings(f, S, which)
    BY MergedLoop
  <1>2. /\ f[0] = S[1] /\ Merged(S, which) = f[n]
        /\ \A i \in 1 .. n : f[i] = MergeSample(f[i - 1], S[i], which)
        /\ \A i \in 0 .. n : f[i] \in Sample
    BY DEF Mergings
  <1> DEFINE v(i) == Value(S[i], x, d)
             w(i) == Value(f[i], x, d)
             Good == {i \in 0 .. n :
                          /\ Shows(f[i], x, d)
                          /\ \E j \in 1 .. n : w(i) = v(j)
                          /\ \A j \in 1 .. i : /\ which = "min" => w(i) <= v(j)
                                               /\ which = "max" => w(i) >= v(j)}
  <1>3. 0 \in Good
    BY <1>1, <1>2
  <1>4. /\ \A i \in 1 .. n : v(i) \in Int
        /\ \A i \in 0 .. n : w(i) \in Int
    BY <1>1, <1>2, ValueType
  <1>5. ASSUME NEW i \in 1 .. n, i - 1 \in Good PROVE i \in Good
    <2>1. i \in 0 .. n /\ i - 1 \in 0 .. n
      BY <1>1
    <2>2. f[i - 1] \in Sample /\ Shows(f[i - 1], x, d) /\ S[i] \in Sample
      BY <1>1, <1>2, <1>5, <2>1
    <2>3. Shows(f[i], x, d) /\ w(i) = Extreme(which, w(i - 1), v(i))
      BY <1>2, <2>2, MergeValue
    <2>4. /\ w(i) = w(i - 1) \/ w(i) = v(i)
          /\ which = "min" => w(i) <= w(i - 1) /\ w(i) <= v(i)
          /\ which = "max" => w(i) >= w(i - 1) /\ w(i) >= v(i)
      BY <1>4, <2>1, <2>3, ExtremeIs
    <2>5. /\ \E j \in 1 .. n : w(i - 1) = v(j)
          /\ \A j \in 1 .. i - 1 : /\ which = "min" => w(i - 1) <= v(j)
                                   /\ which = "max" => w(i - 1) >= v(j)
      BY <1>5
    <2> HIDE DEF v, w
    <2>6. \E j \in 1 .. n : w(i) = v(j)
      BY <2>4, <2>5
    <2>7. ASSUME NEW j \in 1 .. i
          PROVE  (which = "min" => w(i) <= v(j)) /\ (which = "max" => w(i) >= v(j))
      <3>1. CASE j = i
        BY <2>4, <3>1
      <3>2. CASE j # i
        <4>1. j \in 1 .. i - 1 /\ j \in 1 .. n
          BY ONLY <1>1, <3>2, i \in 1 .. n, j \in 1 .. i
        <4>2. (which = "min" => w(i - 1) <= v(j)) /\ (which = "max" => w(i - 1) >= v(j))
          BY <2>5, <4>1
        <4>3. w(i) \in Int /\ w(i - 1) \in Int /\ v(j) \in Int
          BY <1>4, <2>1, <4>1
        <4> QED
          BY ONLY <2>4, <4>2, <4>3
      <3> QED
        BY <3>1, <3>2
    <2> QED
      BY <2>1, <2>3, <2>6, <2>7
  <1> HIDE DEF Good
  <1>6. \A i \in 0 .. n : i \in Good
    BY ONLY <1>1, <1>3, <1>5, UpTo
  <1>7. n \in Good
    BY <1>1, <1>6
  <1> QED
    BY <1>2, <1>7 DEF Good, Outermost

\* Each device is in a list once.
DistinctLists(s) == Distinct(s["disks"]) /\ Distinct(s["ifaces"])

(* Where names are distinct, an entry is what its name is looked up as. *)
LEMMA OneCalled ==
    ASSUME NEW C, NEW list \in Seq(C), Distinct(list), NEW e \in Elems(list)
    PROVE  Has(list, e.name) /\ e.value = ValueIn(list, e.name)
  <1>1. PICK j \in 1 .. Len(list) : e = list[j]
    BY DEF Elems
  <1>2. Has(list, e.name)
    BY <1>1 DEF Has
  <1> PICK i : i = Find(list, e.name)
    OBVIOUS
  <1>3. i \in 1 .. Len(list) /\ list[i].name = e.name /\ ValueIn(list, e.name) = list[i].value
    BY <1>2, FindIs
  <1>4. i = j
    BY <1>1, <1>3 DEF Distinct
  <1> QED
    BY <1>1, <1>2, <1>3, <1>4

\* An entry that every list has is averaged over one entry of each.
LEMMA MeanByNameBetween ==
    ASSUME NEW C, Entries(C), NEW last \in Seq(C), NEW lists \in Seq(Seq(C)),
           NEW k \in 1 .. Len(lists), lists[k] = last,
           \A j \in 1 .. Len(lists) : Distinct(lists[j]),
           NEW d, Has(last, d), NEW lo \in Int, NEW hi \in Int,
           \A j \in 1 .. Len(lists) : lo <= ValueIn(lists[j], d) /\ ValueIn(lists[j], d) <= hi
    PROVE  /\ Has(MeanByName(last, lists), d)
           /\ lo <= ValueIn(MeanByName(last, lists), d)
           /\ ValueIn(MeanByName(last, lists), d) <= hi
  <1> PICK mean, i : mean = MeanByName(last, lists) /\ i = Find(last, d)
    OBVIOUS
  <1>1. /\ mean \in Seq(C) /\ Len(mean) = Len(last)
        /\ \A m \in 1 .. Len(last) :
               /\ Called(lists, last[m].name) \in Seq(C)
               /\ Len(Called(lists, last[m].name)) > 0
               /\ mean[m].name = last[m].name
               /\ mean[m].value = Mean(Values(Called(lists, last[m].name)))
    BY MeanByNameIs
  <1>2. i \in 1 .. Len(last) /\ last[i].name = d
    BY FindIs
  <1>3. Has(mean, d) /\ Find(mean, d) = i
    <2>1. mean \in Seq(C) /\ Len(last) = Len(mean) /\ last \in Seq(C) /\ Has(last, d)
      BY <1>1
    <2>2. \A m \in 1 .. Len(last) : last[m].name = mean[m].name
      BY <1>1
    <2>3. Has(mean, d) /\ Find(mean, d) = Find(last, d)
      BY ONLY <2>1, <2>2, SameNames
    <2> QED
      BY <2>3
  <1> PICK called : called = Called(lists, d)
    OBVIOUS
  <1>4. /\ called \in Seq(C) /\ Len(called) > 0
        /\ ValueIn(mean, d) = Mean(Values(called))
    <2>1. mean[i].value = Mean(Values(called)) /\ called \in Seq(C) /\ Len(called) > 0
      BY <1>1, <1>2
    <2>2. ValueIn(mean, d) = mean[i].value
      BY ONLY <1>3 DEF ValueIn
    <2> QED
      BY <2>1, <2>2
  <1>5. ASSUME NEW j \in 1 .. Len(called)
        PROVE  /\ called[j].value \in Int
               /\ lo <= called[j].value /\ called[j].value <= hi
    <2>1. called[j].name = d /\ \E m \in 1 .. Len(lists) : called[j] \in Elems(lists[m])
      BY CalledFrom
    <2>2. PICK m \in 1 .. Len(lists) : called[j] \in Elems(lists[m])
      BY <2>1
    <2> PICK list, e : list = lists[m] /\ e = called[j]
      OBVIOUS
    <2>3. list \in Seq(C) /\ Distinct(list) /\ e \in Elems(list)
      BY <2>2
    <2>4. e.value = ValueIn(list, d)
      BY <2>1, <2>3, OneCalled
    <2>5. e \in C
      BY <1>4
    <2> QED
      BY <2>4, <2>5 DEF Entries
  <1> PICK values : values = Values(called)
    OBVIOUS
  <1>6. /\ values \in Seq(Int) /\ Len(values) > 0
        /\ \A j \in 1 .. Len(values) : lo <= values[j] /\ values[j] <= hi
    <2>1. Len(called) \in Nat /\ values = [j \in 1 .. Len(called) |-> called[j].value]
      BY <1>4 DEF Values
    <2> QED
      BY <1>4, <1>5, <2>1
  <1>7. lo <= Mean(values) /\ Mean(values) <= hi
    BY <1>6, MeanBounds
  <1> QED
    BY <1>3, <1>4, <1>7

(* The average lies between any bounds of the samples. *)
LEMMA AverageBounds ==
    ASSUME NEW S \in Seq(Sample), Len(S) > 0, NEW x \in Gauged, NEW d,
           \A i \in 1 .. Len(S) : Shows(S[i], x, d) /\ DistinctLists(S[i]),
           NEW lo \in Int, NEW hi \in Int,
           \A i \in 1 .. Len(S) : lo <= Value(S[i], x, d) /\ Value(S[i], x, d) <= hi
    PROVE  /\ Shows(Average(S), x, d)
           /\ lo <= Value(Average(S), x, d) /\ Value(Average(S), x, d) <= hi
  <1> PICK n, last, avg : n = Len(S) /\ last = S[n] /\ avg = Average(S)
    OBVIOUS
  <1>1. n \in 1 .. n /\ n \in 1 .. Len(S)
    OBVIOUS
  <1>2. \A y \in Fields : avg[y] = AverageOf(S, last, y)
    BY AverageIs
  <1>3. CASE x = "usage"
    <2> PICK values : values = Column(S, "usage")
      OBVIOUS
    <2>1. /\ values \in Seq(Int) /\ Len(values) = n
          /\ \A i \in 1 .. n : values[i] = S[i]["usage"]
      BY ColumnType
    <2>2. \A i \in 1 .. n : lo <= values[i] /\ values[i] <= hi
      BY <1>3, <2>1 DEF Value
    <2>3. lo <= Mean(values) /\ Mean(values) <= hi
      BY <2>1, <2>2, MeanBounds
    <2>4. avg["usage"] = Mean(values)
      BY <1>2 DEF AverageOf, Fields
    <2> QED
      BY <1>3, <2>3, <2>4 DEF Value, Shows
  <1>4. CASE x = "used"
    <2>1. avg["used"] = last["used"]
      BY <1>2 DEF AverageOf, Fields
    <2> QED
      BY <1>1, <1>4, <2>1 DEF Value, Shows
  <1>5. ASSUME NEW C, Entries(C), x \in {"disks", "ifaces"}, Column(S, x) \in Seq(Seq(C))
        PROVE  /\ Shows(avg, x, d)
               /\ lo <= Value(avg, x, d) /\ Value(avg, x, d) <= hi
    <2> PICK col, mean : col = Column(S, x) /\ mean = MeanByName(last[x], col)
      OBVIOUS
    <2>1. col \in Seq(Seq(C)) /\ Len(col) = n /\ \A i \in 1 .. n : col[i] = S[i][x]
      BY <1>5, ColumnType
    <2>2. last[x] \in Seq(C) /\ col[n] = last[x] /\ n \in 1 .. Len(col)
      BY <1>1, <2>1
    <2>3. ASSUME NEW i \in 1 .. n
          PROVE  /\ Distinct(col[i]) /\ Has(col[i], d)
                 /\ lo <= ValueIn(col[i], d) /\ ValueIn(col[i], d) <= hi
      BY <1>5, <2>1 DEF Value, Shows, DistinctLists
    <2>4. \A i \in 1 .. Len(col) :
             Distinct(col[i]) /\ lo <= ValueIn(col[i], d) /\ ValueIn(col[i], d) <= hi
      BY <2>1, <2>3
    <2>5. Has(last[x], d)
      BY <1>1, <2>2, <2>3
    <2>6. Has(mean, d) /\ lo <= ValueIn(mean, d) /\ ValueIn(mean, d) <= hi
      BY <1>5, <2>1, <2>2, <2>4, <2>5, MeanByNameBetween
    <2>7. avg[x] = mean
      BY <1>2, <1>5 DEF AverageOf, Fields
    <2> QED
      BY <1>5, <2>6, <2>7 DEF Value, Shows
  <1>6. CASE x = "disks"
    <2>1. Column(S, x) \in Seq(Seq(Device))
      BY <1>6, ColumnType
    <2> QED
      BY <1>5, <1>6, <2>1, EntriesAre
  <1>7. CASE x = "ifaces"
    <2>1. Column(S, x) \in Seq(Seq(NamedValue))
      BY <1>7, ColumnType
    <2> QED
      BY <1>5, <1>7, <2>1, EntriesAre
  <1> QED
    BY <1>3, <1>4, <1>6, <1>7 DEF Gauged

\* The average has the devices of the last sample.
LEMMA AverageDistinct ==
    ASSUME NEW S \in Seq(Sample), Len(S) > 0, DistinctLists(S[Len(S)])
    PROVE  DistinctLists(Average(S))
  <1> PICK n, last, avg : n = Len(S) /\ last = S[n] /\ avg = Average(S)
    OBVIOUS
  <1>1. \A y \in Fields : avg[y] = AverageOf(S, last, y)
    BY AverageIs
  <1>2. ASSUME NEW C, Entries(C), NEW x \in {"disks", "ifaces"}, Column(S, x) \in Seq(Seq(C))
        PROVE  Distinct(avg[x])
    <2> PICK col, mean : col = Column(S, x) /\ mean = MeanByName(last[x], col)
      OBVIOUS
    <2>1. col \in Seq(Seq(C)) /\ n \in 1 .. Len(col) /\ col[n] = last[x]
      BY <1>2, ColumnType
    <2>2. last[x] \in Seq(C)
      BY <2>1
    <2>3. Len(mean) = Len(last[x]) /\ \A i \in 1 .. Len(last[x]) : mean[i].name = last[x][i].name
      BY <1>2, <2>1, <2>2, MeanByNameIs
    <2>4. Distinct(last[x])
      BY DEF DistinctLists
    <2>5. avg[x] = mean
      BY <1>1 DEF AverageOf, Fields
    <2> QED
      BY <2>3, <2>4, <2>5 DEF Distinct
  <1>3. Distinct(avg["disks"])
    BY <1>2, ColumnType, EntriesAre
  <1>4. Distinct(avg["ifaces"])
    BY <1>2, ColumnType, EntriesAre
  <1> QED
    BY <1>3, <1>4 DEF DistinctLists

\* The minimum or maximum of a record; a raw sample is both.
EndOf(r, which) == IF r[which] = nil THEN r.data ELSE r[which]

\* Of samples that all show it, a record has the extremes and an average that is
\* between them.
Covered(r, B, x, d) ==
    /\ Shows(EndOf(r, "min"), x, d) /\ Shows(EndOf(r, "max"), x, d) /\ Shows(r.data, x, d)
    /\ \E s \in B : Value(EndOf(r, "min"), x, d) = Value(s, x, d)
    /\ \E s \in B : Value(EndOf(r, "max"), x, d) = Value(s, x, d)
    /\ \A s \in B : /\ Value(EndOf(r, "min"), x, d) <= Value(s, x, d)
                    /\ Value(s, x, d) <= Value(EndOf(r, "max"), x, d)
    /\ Value(EndOf(r, "min"), x, d) <= Value(r.data, x, d)
    /\ Value(r.data, x, d) <= Value(EndOf(r, "max"), x, d)

\* A record covers the samples B in every gauge that all of them show.
Covers(r, B) ==
    /\ B \subseteq Sample /\ DistinctLists(r.data)
    /\ \A x \in Gauged : \A d : (\A s \in B : Shows(s, x, d)) => Covered(r, B, x, d)

(* A sample covers itself. *)
LEMMA CoversRaw ==
    ASSUME NEW s \in Sample, DistinctLists(s)
    PROVE  Covers(Raw(s), {s})
  <1> PICK r : r = Raw(s)
    OBVIOUS
  <1>1. r.data = s /\ r["min"] = nil /\ r["max"] = nil
    BY DEF Raw
  <1>2. EndOf(r, "min") = s /\ EndOf(r, "max") = s
    BY <1>1 DEF EndOf
  <1>3. ASSUME NEW x \in Gauged, NEW d, Shows(s, x, d) PROVE Covered(r, {s}, x, d)
    <2>1. Value(s, x, d) \in Int
      BY ValueType
    <2> QED
      BY <1>1, <1>2, <1>3, <2>1 DEF Covered
  <1> QED
    BY <1>1, <1>3 DEF Covers

\* Combined records are about the samples of all of them.
LEMMA CoversAggregate ==
    ASSUME NEW records \in Seq(TierRec), Len(records) > 0, NEW B,
           \A i \in 1 .. Len(records) : Covers(records[i], B[i])
    PROVE  /\ Covers(AggregateAggregated(records), UNION {B[i] : i \in 1 .. Len(records)})
           /\ AggregateAggregated(records).min \in Sample
           /\ AggregateAggregated(records).max \in Sample
  <1> PICK n, flat, p, all, datas :
          /\ n = Len(records) /\ datas = Datas(records) /\ flat = AggregateSamples(datas)
          /\ p = AggregateAggregated(records) /\ all = UNION {B[i] : i \in 1 .. n}
    OBVIOUS
  <1>1. records \in Seq(Rec) /\ n \in Nat /\ n > 0 /\ \A i \in 1 .. n : records[i] \in Rec
    <2>1. records \in Seq(Rec)
      BY PairedAreRec
    <2> QED
      BY <2>1
  <1>2. /\ datas \in Seq(Sample) /\ Len(datas) = n
        /\ \A which \in {"min", "max"} :
               Ends(records, which) \in Seq(Sample) /\ Len(Ends(records, which)) = n
        /\ p.data = flat.data
        /\ p.min = (IF AllRaw(records) THEN flat.min ELSE Merged(Ends(records, "min"), "min"))
        /\ p.max = (IF AllRaw(records) THEN flat.max ELSE Merged(Ends(records, "max"), "max"))
    BY <1>1, AggregateIs
  <1>3. /\ datas = [i \in 1 .. n |-> records[i].data]
        /\ \A which \in {"min", "max"} :
               Ends(records, which) = [i \in 1 .. n |-> EndOf(records[i], which)]
    BY DEF Datas, Ends, EndOf
  <1>4. AllRaw(records) => Ends(records, "min") = datas /\ Ends(records, "max") = datas
    BY <1>3 DEF AllRaw, EndOf
  <1>5. /\ flat.data = (IF n = 1 THEN datas[1] ELSE Average(datas))
        /\ flat.min = (IF n = 1 THEN datas[1] ELSE Merged(datas, "min"))
        /\ flat.max = (IF n = 1 THEN datas[1] ELSE Merged(datas, "max"))
    BY <1>2 DEF AggregateSamples
  <1>6. /\ \/ p.min = Merged(Ends(records, "min"), "min")
           \/ n = 1 /\ p.min = Ends(records, "min")[1]
        /\ \/ p.max = Merged(Ends(records, "max"), "max")
           \/ n = 1 /\ p.max = Ends(records, "max")[1]
    BY <1>2, <1>4, <1>5
  <1>7. p.min \in Sample /\ p.max \in Sample
    <2>1. \A which \in {"min", "max"} : Merged(Ends(records, which), which) \in Sample
      BY <1>1, <1>2, MergedType
    <2>2. n = 1 => Ends(records, "min")[1] \in Sample /\ Ends(records, "max")[1] \in Sample
      BY <1>2
    <2> QED
      BY <1>6, <2>1, <2>2
  <1>8. EndOf(p, "min") = p.min /\ EndOf(p, "max") = p.max
    BY <1>7, NotNil DEF EndOf
  <1>9. all \subseteq Sample
    BY DEF Covers
  <1>10. \A i \in 1 .. n : datas[i] \in Sample /\ DistinctLists(datas[i])
    BY <1>2, <1>3 DEF Covers
  <1>11. DistinctLists(p.data)
    <2>1. n = 1 => p.data = datas[1]
      BY <1>2, <1>5
    <2>2. n # 1 => p.data = Average(datas) /\ DistinctLists(Average(datas))
      BY <1>1, <1>2, <1>5, <1>10, AverageDistinct
    <2> QED
      BY <1>1, <1>10, <2>1, <2>2
  <1>12. ASSUME NEW x \in Gauged, NEW d, \A s \in all : Shows(s, x, d)
         PROVE  Covered(p, all, x, d)
    <2>1. \A i \in 1 .. n : Covered(records[i], B[i], x, d)
      BY <1>12 DEF Covers
    <2> DEFINE lo(i) == Value(EndOf(records[i], "min"), x, d)
               hi(i) == Value(EndOf(records[i], "max"), x, d)
               at(i) == Value(records[i].data, x, d)
    <2> PICK low, high : low = Value(p.min, x, d) /\ high = Value(p.max, x, d)
      OBVIOUS
    <2>2. \A i \in 1 .. n : lo(i) \in Int /\ hi(i) \in Int /\ at(i) \in Int
      <3>1. \A i \in 1 .. n : /\ EndOf(records[i], "min") \in Sample
                              /\ EndOf(records[i], "max") \in Sample
                              /\ records[i].data \in Sample
        BY <1>2, <1>3, <1>10
      <3> QED
        BY <3>1, ValueType
    <2>3. low \in Int /\ high \in Int
      BY <1>7, ValueType
    <2>4. ASSUME NEW which \in {"min", "max"}, NEW e,
                 \/ e = Merged(Ends(records, which), which)
                 \/ n = 1 /\ e = Ends(records, which)[1]
          PROVE  Outermost(e, which, Ends(records, which), x, d)
      <3> PICK S : S = Ends(records, which)
        OBVIOUS
      <3>1. /\ S \in Seq(Sample) /\ Len(S) = n
            /\ \A i \in 1 .. n : S[i] = EndOf(records[i], which)
        BY <1>2, <1>3
      <3>2. \A i \in 1 .. n : Shows(S[i], x, d) /\ Value(S[i], x, d) \in Int
        BY <2>1, <2>2, <3>1 DEF Covered
      <3>3. CASE e = Merged(S, which)
        BY <1>1, <3>1, <3>2, <3>3, MergedOutermost
      <3>4. CASE n = 1 /\ e = S[1]
        BY <3>1, <3>2, <3>4 DEF Outermost
      <3> QED
        BY <2>4, <3>3, <3>4
    <2>5. /\ Outermost(p.min, "min", Ends(records, "min"), x, d)
          /\ Outermost(p.max, "max", Ends(records, "max"), x, d)
      BY <1>6, <2>4
    <2>6. /\ Shows(p.min, x, d) /\ Shows(p.max, x, d)
          /\ \E i \in 1 .. n : low = lo(i)
          /\ \E i \in 1 .. n : high = hi(i)
          /\ \A i \in 1 .. n : low <= lo(i) /\ hi(i) <= high
      <3>1. \A which \in {"min", "max"} : Len(Ends(records, which)) = n
        BY <1>2
      <3>2. \A i \in 1 .. n : /\ Ends(records, "min")[i] = EndOf(records[i], "min")
                              /\ Ends(records, "max")[i] = EndOf(records[i], "max")
        BY <1>3
      <3>3. \A i \in 1 .. n : /\ Value(Ends(records, "min")[i], x, d) = lo(i)
                              /\ Value(Ends(records, "max")[i], x, d) = hi(i)
        BY <3>2
      <3> HIDE DEF lo, hi
      <3>4. /\ Shows(p.min, x, d) /\ \E i \in 1 .. n : low = lo(i)
            /\ \A i \in 1 .. n : low <= lo(i)
        BY <2>5, <3>1, <3>3 DEF Outermost
      <3>5. /\ Shows(p.max, x, d) /\ \E i \in 1 .. n : high = hi(i)
            /\ \A i \in 1 .. n : high >= hi(i)
        BY <2>5, <3>1, <3>3 DEF Outermost
      <3> QED
        BY <2>2, <2>3, <3>4, <3>5
    <2>7. \A i \in 1 .. n : lo(i) <= at(i) /\ at(i) <= hi(i)
      BY <2>1 DEF Covered
    <2>8. ASSUME NEW i \in 1 .. n
          PROVE  /\ Shows(datas[i], x, d) /\ DistinctLists(datas[i])
                 /\ low <= Value(datas[i], x, d) /\ Value(datas[i], x, d) <= high
      <3>1. datas[i] = records[i].data
        BY <1>3
      <3>2. Shows(datas[i], x, d) /\ Value(datas[i], x, d) = at(i)
        BY <2>1, <3>1 DEF Covered
      <3>3. /\ lo(i) \in Int /\ hi(i) \in Int /\ at(i) \in Int
            /\ low <= lo(i) /\ hi(i) <= high /\ lo(i) <= at(i) /\ at(i) <= hi(i)
        BY <2>2, <2>6, <2>7
      <3> HIDE DEF lo, hi, at
      <3>4. low <= at(i) /\ at(i) <= high
        BY ONLY <2>3, <3>3
      <3> QED
        BY <1>10, <3>2, <3>4
    <2>9. Shows(p.data, x, d) /\ low <= Value(p.data, x, d) /\ Value(p.data, x, d) <= high
      <3>1. n = 1 => p.data = datas[1]
        BY <1>2, <1>5
      <3>2. n # 1 => p.data = Average(datas)
        BY <1>2, <1>5
      <3>3. /\ Shows(Average(datas), x, d) /\ low <= Value(Average(datas), x, d)
            /\ Value(Average(datas), x, d) <= high
        <4>1. datas \in Seq(Sample) /\ Len(datas) > 0
          BY <1>1, <1>2
        <4>2. \A i \in 1 .. Len(datas) : Shows(datas[i], x, d) /\ DistinctLists(datas[i])
          BY <1>2, <2>8
        <4>3. \A i \in 1 .. Len(datas) :
                  low <= Value(datas[i], x, d) /\ Value(datas[i], x, d) <= high
          BY <1>2, <2>8
        <4> QED
          BY ONLY <2>3, <4>1, <4>2, <4>3, x \in Gauged, AverageBounds
      <3> QED
        BY <1>1, <2>8, <3>1, <3>2, <3>3
    <2>10. /\ \E s \in all : low = Value(s, x, d)
           /\ \E s \in all : high = Value(s, x, d)
      <3>1. \A i \in 1 .. n : /\ \E s \in B[i] : lo(i) = Value(s, x, d)
                              /\ \E s \in B[i] : hi(i) = Value(s, x, d)
        BY <2>1 DEF Covered
      <3>2. (\E i \in 1 .. n : low = lo(i)) /\ (\E i \in 1 .. n : high = hi(i))
        BY <2>6
      <3>3. \A i \in 1 .. n : \A s \in B[i] : s \in all
        OBVIOUS
      <3> HIDE DEF lo, hi
      <3>4. PICK i \in 1 .. n : low = lo(i)
        BY <3>2
      <3>5. PICK j \in 1 .. n : high = hi(j)
        BY <3>2
      <3>6. PICK s \in B[i] : lo(i) = Value(s, x, d)
        BY <3>1
      <3>7. PICK z \in B[j] : hi(j) = Value(z, x, d)
        BY <3>1
      <3> QED
        BY <3>3, <3>4, <3>5, <3>6, <3>7
    <2>11. ASSUME NEW s \in all
           PROVE  low <= Value(s, x, d) /\ Value(s, x, d) <= high
      <3>1. PICK i \in 1 .. n : s \in B[i]
        OBVIOUS
      <3> PICK v, a, b : v = Value(s, x, d) /\ a = lo(i) /\ b = hi(i)
        OBVIOUS
      <3>2. v \in Int
        BY <1>9, ValueType
      <3>3. a <= v /\ v <= b
        BY <2>1, <3>1 DEF Covered
      <3>4. a \in Int /\ b \in Int /\ low <= a /\ b <= high
        BY <2>2, <2>6
      <3> QED
        BY ONLY <2>3, <3>2, <3>3, <3>4, v = Value(s, x, d)
    <2> QED
      BY <1>8, <2>6, <2>9, <2>10, <2>11 DEF Covered
  <1>13. Covers(p, all)
    BY <1>9, <1>11, <1>12 DEF Covers
  <1> QED
    BY <1>7, <1>13
-----------------------------------------------------------------------------
(* Which samples a record is made of.                                        *)

\* The i-th part of size samples.
Part(samples, i, size) == {samples[x] : x \in (i - 1) * size + 1 .. i * size}

(* Times a natural number is monotonic. *)
LEMMA TimesMono ==
    ASSUME NEW a \in Nat, NEW b \in Nat, a <= b, NEW size \in Nat
    PROVE  a * size <= b * size /\ a * size \in Nat /\ b * size \in Nat
  <1> PICK c \in Nat : b = a + c
    <2>1. b - a \in Nat /\ b = a + (b - a)
      OBVIOUS
    <2> QED
      BY <2>1
  <1>1. c * size \in Nat /\ a * size \in Nat
    OBVIOUS
  <1>2. b * size = a * size + c * size
    OBVIOUS
  <1> QED
    BY <1>1, <1>2

\* Where a part lies.
LEMMA PartPlaces ==
    ASSUME NEW n \in Nat, NEW size \in Nat, NEW i \in 1 .. n, NEW x \in (i - 1) * size + 1 .. i * size
    PROVE  x \in 1 .. n * size
  <1>1. i - 1 \in Nat /\ i \in Nat /\ i <= n
    OBVIOUS
  <1> PICK a, b, c : a = (i - 1) * size /\ b = i * size /\ c = n * size
    OBVIOUS
  <1>2. a \in Nat /\ b \in Nat /\ c \in Nat /\ b <= c
    BY <1>1, TimesMono
  <1> QED
    BY ONLY <1>2, x \in (i - 1) * size + 1 .. i * size, a = (i - 1) * size, b = i * size, c = n * size

\* The count parts that follow the part from.
Parted(T, from, count, size) == UNION {Part(T, from + i, size) : i \in 1 .. count}
\* The samples of those parts.
Row(T, from, count, size) == {T[x] : x \in from * size + 1 .. (from + count) * size}

(* The parts that follow one another hold the samples in a row. *)
LEMMA PartsInARow ==
    ASSUME NEW T, NEW from \in Nat, NEW count \in Nat, NEW size \in Nat
    PROVE  Parted(T, from, count, size) = Row(T, from, count, size)
  <1> DEFINE all(c) == UNION {Part(T, from + i, size) : i \in 1 .. c}
             row(c) == {T[x] : x \in from * size + 1 .. (from + c) * size}
             Good == {c \in 0 .. count : all(c) = row(c)}
  <1>1. 0 \in Good
    <2>1. from * size \in Nat /\ from + 0 = from
      OBVIOUS
    <2>2. row(0) = {}
      BY <2>1
    <2>3. all(0) = {}
      OBVIOUS
    <2> QED
      BY <2>2, <2>3
  <1>2. ASSUME NEW c \in 1 .. count, c - 1 \in Good PROVE c \in Good
    <2>1. all(c - 1) = row(c - 1) /\ c \in 0 .. count
      BY <1>2
    <2>2. all(c) = all(c - 1) \union Part(T, from + c, size)
      <3>1. 1 .. c = (1 .. c - 1) \union {c}
        OBVIOUS
      <3> QED
        BY <3>1
    <2>3. row(c) = row(c - 1) \union Part(T, from + c, size)
      <3> PICK a, b, e : /\ a = from * size /\ b = (from + (c - 1)) * size
                         /\ e = (from + c) * size
        OBVIOUS
      <3>1. a \in Nat /\ b \in Nat /\ e \in Nat /\ a <= b /\ b <= e
        <4>1. /\ from + (c - 1) \in Nat /\ from + c \in Nat
              /\ from <= from + (c - 1) /\ from + (c - 1) <= from + c
          OBVIOUS
        <4> QED
          BY <4>1, TimesMono
      <3>2. (from + c) - 1 = from + (c - 1)
        OBVIOUS
      <3>3. Part(T, from + c, size) = {T[x] : x \in b + 1 .. e}
        BY <3>2 DEF Part
      <3>4. a + 1 .. e = (a + 1 .. b) \union (b + 1 .. e)
        BY ONLY <3>1
      <3>5. {T[x] : x \in a + 1 .. e} = {T[x] : x \in a + 1 .. b} \union {T[x] : x \in b + 1 .. e}
        BY ONLY <3>4
      <3> QED
        BY <3>3, <3>5
    <2> QED
      BY <2>1, <2>2, <2>3
  <1> HIDE DEF Good
  <1>3. \A c \in 0 .. count : c \in Good
    BY ONLY <1>1, <1>2, count \in Nat, UpTo
  <1>4. count \in Good
    BY <1>3
  <1> QED
    BY <1>4 DEF Good, Parted, Row

(* Rolling up records that are samples is rolling up the samples. *)
LEMMA RawAggregate ==
    ASSUME NEW S \in Seq(Sample), Len(S) > 0,
           NEW records, records = [i \in 1 .. Len(S) |-> Raw(S[i])]
    PROVE  /\ records \in Seq(TierRec) /\ Len(records) = Len(S)
           /\ AggregateAggregated(records) = AggregateSamples(S)
  <1> PICK n, flat : n = Len(S) /\ flat = AggregateSamples(S)
    OBVIOUS
  <1>1. n \in Nat /\ n > 0 /\ \A i \in 1 .. n : S[i] \in Sample
    OBVIOUS
  <1>2. ASSUME NEW s \in Sample
        PROVE  Raw(s) \in TierRec /\ Raw(s).data = s /\ Raw(s).min = nil /\ Raw(s).max = nil
    <2> PICK r : r = Raw(s)
      OBVIOUS
    <2>1. r = [ts |-> s["ts"], data |-> s, min |-> nil, max |-> nil]
      BY DEF Raw
    <2>2. s["ts"] \in Nat
      BY SampleIs DEF HasFields
    <2>3. r \in Rec /\ r.min = nil /\ r.max = nil /\ r.data = s /\ r.data["ts"] = r.ts
      BY <2>1, <2>2 DEF Rec
    <2> QED
      BY <2>3 DEF TierRec, Paired
  <1>3. records \in Seq(TierRec) /\ Len(records) = n
    BY <1>1, <1>2
  <1>4. records \in Seq(Rec)
    BY <1>3, PairedAreRec
  <1>5. AllRaw(records)
    BY <1>1, <1>2, <1>3 DEF AllRaw
  <1>6. Datas(records) = S
    <2>1. Datas(records) = [i \in 1 .. n |-> S[i]]
      BY <1>1, <1>2, <1>3 DEF Datas
    <2>2. S = [i \in 1 .. n |-> S[i]]
      OBVIOUS
    <2> QED
      BY <2>1, <2>2
  <1>7. AggregateAggregated(records) =
            [ts |-> flat.ts, data |-> flat.data, min |-> flat.min, max |-> flat.max]
    BY <1>1, <1>3, <1>4, <1>5, <1>6, AggregateIs
  <1>8. flat = [ts |-> flat.ts, data |-> flat.data, min |-> flat.min, max |-> flat.max]
    BY DEF AggregateSamples
  <1> QED
    BY <1>3, <1>7, <1>8

(* A roll-up of samples covers them. *)
LEMMA CoversSamples ==
    ASSUME NEW S \in Seq(Sample), Len(S) > 0, \A i \in 1 .. Len(S) : DistinctLists(S[i])
    PROVE  Covers(AggregateSamples(S), {S[i] : i \in 1 .. Len(S)})
  <1> PICK n, records, B : /\ n = Len(S) /\ records = [i \in 1 .. n |-> Raw(S[i])]
                           /\ B = [i \in 1 .. n |-> {S[i]}]
    OBVIOUS
  <1>1. records \in Seq(TierRec) /\ Len(records) = n /\ AggregateAggregated(records) = AggregateSamples(S)
    BY RawAggregate
  <1>2. \A i \in 1 .. n : Covers(records[i], B[i])
    <2> TAKE i \in 1 .. n
    <2>1. S[i] \in Sample /\ DistinctLists(S[i])
      OBVIOUS
    <2> QED
      BY <2>1, CoversRaw
  <1>3. Covers(AggregateAggregated(records), UNION {B[i] : i \in 1 .. Len(records)})
    <2>1. Len(records) > 0 /\ \A i \in 1 .. Len(records) : Covers(records[i], B[i])
      BY <1>1, <1>2
    <2> QED
      BY ONLY <1>1, <2>1, CoversAggregate
  <1>4. UNION {B[i] : i \in 1 .. n} = {S[i] : i \in 1 .. n}
    OBVIOUS
  <1> QED
    BY <1>1, <1>3, <1>4

\* The samples of a record of each tier.
Sized(k) == CASE k = 0 -> 1 [] k = 1 -> Ratio1 [] k = 2 -> Ratio1 * Ratio2

\* Whatever is in no record of the tier above is in a buffer.
SizeInv ==
    /\ Len(written[0]) = Len(taken)
    /\ Len(tier1Buf) < Ratio1 /\ Len(taken) = Len(written[1]) * Ratio1 + Len(tier1Buf)
    /\ Len(tier2Buf) < Ratio2 /\ Len(written[1]) = Len(written[2]) * Ratio2 + Len(tier2Buf)

\* The buffers hold what was written last to the tier below.
BufInv ==
    /\ \A i \in 1 .. Len(tier1Buf) : tier1Buf[i] = taken[Len(written[1]) * Ratio1 + i]
    /\ \A i \in 1 .. Len(tier2Buf) : tier2Buf[i] = written[1][Len(written[2]) * Ratio2 + i]

\* The i-th record of a tier is about the i-th part of the samples.
CoverInv ==
    /\ \A i \in 1 .. Len(taken) : DistinctLists(taken[i])
    /\ \A k \in Tiers : \A i \in 1 .. Len(written[k]) :
           Covers(written[k][i], Part(taken, i, Sized(k)))

\* Together.
HistoryInv == SizeInv /\ BufInv /\ CoverInv

\* A record does not change what it is about when a sample is added.
LEMMA StillCovers ==
    ASSUME NEW w \in Seq(TierRec), NEW T \in Seq(Sample), NEW s \in Sample, NEW size \in Nat,
           Len(w) * size <= Len(T),
           \A i \in 1 .. Len(w) : Covers(w[i], Part(T, i, size))
    PROVE  \A i \in 1 .. Len(w) : Covers(w[i], Part(Append(T, s), i, size))
  <1> TAKE i \in 1 .. Len(w)
  <1> PICK n, c, U : n = Len(T) /\ c = Len(w) /\ U = Append(T, s)
    OBVIOUS
  <1>1. n \in Nat /\ c \in Nat /\ i \in 1 .. c
    OBVIOUS
  <1>2. c * size \in Nat /\ c * size <= n
    BY <1>1, TimesMono
  <1>3. \A x \in 1 .. n : U[x] = T[x]
    OBVIOUS
  <1>4. \A x \in (i - 1) * size + 1 .. i * size : x \in 1 .. n
    <2> TAKE x \in (i - 1) * size + 1 .. i * size
    <2>1. x \in 1 .. c * size
      BY <1>1, PartPlaces
    <2> PICK cs : cs = c * size
      OBVIOUS
    <2> QED
      BY ONLY <1>1, <1>2, <2>1, cs = c * size
  <1>5. Part(U, i, size) = Part(T, i, size)
    BY <1>3, <1>4 DEF Part
  <1> QED
    BY <1>5

(* One more record that covers its part. *)
LEMMA CoversOneMore ==
    ASSUME NEW w \in Seq(TierRec), NEW r \in TierRec, NEW T, NEW size,
           \A i \in 1 .. Len(w) : Covers(w[i], Part(T, i, size)),
           Covers(r, Part(T, Len(w) + 1, size))
    PROVE  \A i \in 1 .. Len(Append(w, r)) : Covers(Append(w, r)[i], Part(T, i, size))
  <1> TAKE i \in 1 .. Len(Append(w, r))
  <1> PICK c, v : c = Len(w) /\ v = Append(w, r)
    OBVIOUS
  <1>1. c \in Nat /\ Len(v) = c + 1 /\ v[c + 1] = r /\ \A j \in 1 .. c : v[j] = w[j]
    OBVIOUS
  <1>2. i \in 1 .. c \/ i = c + 1
    BY <1>1
  <1> QED
    BY <1>1, <1>2

\* What the three kinds of writes do.
LEMMA WriteCases ==
    ASSUME FileInv, NEW s, NEW sample, NEW agg, NEW agg3, NEW buf1, NEW buf2, NEW rolls1, NEW rolls2, NEW new,
           Writes(s, sample, agg, agg3, buf1, buf2, rolls1, rolls2, new)
    PROVE  /\ written'[0] = Append(written[0], Raw(sample))
           /\ \/ /\ ~rolls1 /\ ~rolls2 /\ tier1Buf' = buf1 /\ tier2Buf' = tier2Buf
                 /\ written'[1] = written[1] /\ written'[2] = written[2]
              \/ /\ rolls1 /\ ~rolls2 /\ tier1Buf' = <<>> /\ tier2Buf' = buf2
                 /\ written'[1] = Append(written[1], agg) /\ written'[2] = written[2]
              \/ /\ rolls1 /\ rolls2 /\ tier1Buf' = <<>> /\ tier2Buf' = <<>>
                 /\ written'[1] = Append(written[1], agg)
                 /\ written'[2] = Append(written[2], agg3)
  <1>1. 0 \in Tiers /\ 1 \in Tiers /\ 2 \in Tiers
    BY DEF Tiers
  <1>2. /\ new[0] = <<Raw(sample)>>
        /\ new[1] = (IF rolls1 THEN <<agg>> ELSE <<>>)
        /\ new[2] = (IF rolls2 THEN <<agg3>> ELSE <<>>)
    BY <1>1 DEF Writes, Added
  <1>3. /\ written'[0] = written[0] \o new[0] /\ written'[1] = written[1] \o new[1]
        /\ written'[2] = written[2] \o new[2]
    BY <1>1 DEF Writes
  <1>4. ASSUME NEW w \in Seq(TierRec), NEW r \in TierRec
        PROVE  w \o <<r>> = Append(w, r) /\ w \o <<>> = w
    OBVIOUS
  <1>5. /\ written[0] \in Seq(TierRec) /\ written[1] \in Seq(TierRec) /\ written[2] \in Seq(TierRec)
        /\ Raw(sample) \in TierRec /\ agg \in TierRec /\ agg3 \in TierRec
    BY <1>1 DEF FileInv, Writes
  <1>6. written'[0] = Append(written[0], Raw(sample))
    BY <1>2, <1>3, <1>4, <1>5
  <1>7. /\ rolls1 => written'[1] = Append(written[1], agg)
        /\ ~rolls1 => written'[1] = written[1]
        /\ rolls2 => written'[2] = Append(written[2], agg3)
        /\ ~rolls2 => written'[2] = written[2]
    BY <1>2, <1>3, <1>4, <1>5
  <1>8. /\ rolls1 \in BOOLEAN /\ rolls2 \in BOOLEAN /\ (rolls2 => rolls1)
        /\ tier1Buf' = (IF rolls1 THEN <<>> ELSE buf1)
        /\ tier2Buf' = (IF rolls2 THEN <<>> ELSE IF rolls1 THEN buf2 ELSE tier2Buf)
    BY DEF Writes
  <1>9. CASE ~rolls1
    <2>2. ~rolls2
      BY ONLY <1>8, <1>9
    <2>3. tier1Buf' = buf1
      BY ONLY <1>8, <1>9
    <2>4. tier2Buf' = tier2Buf
      BY ONLY <1>8, <1>9, <2>2
    <2>1. ~rolls2 /\ tier1Buf' = buf1 /\ tier2Buf' = tier2Buf
      BY ONLY <2>2, <2>3, <2>4
    <2> QED
      BY <1>6, <1>7, <1>9, <2>1
  <1>10. CASE rolls1 /\ ~rolls2
    <2>1. tier1Buf' = <<>> /\ tier2Buf' = buf2
      BY ONLY <1>8, <1>10
    <2> QED
      BY <1>6, <1>7, <1>10, <2>1
  <1>11. CASE rolls1 /\ rolls2
    <2>1. tier1Buf' = <<>> /\ tier2Buf' = <<>>
      BY ONLY <1>8, <1>11
    <2> QED
      BY <1>6, <1>7, <1>11, <2>1
  <1> QED
    BY <1>9, <1>10, <1>11

\* Every record of every tier is about samples that were taken.
LEMMA SizesFit ==
    ASSUME FileInv, SizeInv, NEW k \in Tiers
    PROVE  /\ written[k] \in Seq(TierRec) /\ Sized(k) \in Nat
           /\ Len(written[k]) * Sized(k) <= Len(taken)
  <1> PICK n, a, b, c, w1, w2 :
          /\ n = Len(taken) /\ w1 = written[1] /\ w2 = written[2]
          /\ a = Len(w1) /\ b = Len(w2) /\ c = Len(written[0])
    OBVIOUS
  <1>1. /\ written[k] \in Seq(TierRec) /\ w1 \in Seq(TierRec) /\ w2 \in Seq(TierRec)
        /\ tier1Buf \in Seq(Sample) /\ tier2Buf \in Seq(TierRec) /\ taken \in Seq(Sample)
    BY DEF FileInv, Tiers
  <1>2. /\ n \in Nat /\ a \in Nat /\ b \in Nat /\ Ratio1 \in Nat /\ Ratio2 \in Nat
        /\ Len(tier1Buf) \in Nat /\ Len(tier2Buf) \in Nat
    BY <1>1, RecordsAssumption
  <1>3. c = n /\ n = a * Ratio1 + Len(tier1Buf) /\ a = b * Ratio2 + Len(tier2Buf)
    BY DEF SizeInv
  <1>4. a * Ratio1 \in Nat /\ b * Ratio2 \in Nat
    BY <1>2, TimesMono
  <1>5. a * Ratio1 <= n /\ b * Ratio2 <= a
    BY ONLY <1>2, <1>3, <1>4
  <1>6. (b * Ratio2) * Ratio1 <= a * Ratio1 /\ (b * Ratio2) * Ratio1 \in Nat
    BY <1>2, <1>4, <1>5, TimesMono
  <1>7. b * (Ratio1 * Ratio2) = (b * Ratio2) * Ratio1 /\ Ratio1 * Ratio2 \in Nat
    <2>1. b * (Ratio1 * Ratio2) = (b * Ratio2) * Ratio1
      BY ONLY <1>2
    <2>2. Ratio1 * Ratio2 \in Nat
      BY ONLY <1>2
    <2> QED
      BY <2>1, <2>2
  <1>8. CASE k = 0
    <2>1. c * 1 = c
      BY ONLY <1>2, <1>3
    <2>2. Sized(k) = 1
      BY <1>8 DEF Sized
    <2>3. Len(written[k]) = n
      BY <1>3, <1>8
    <2>4. n * 1 <= n
      BY ONLY <1>2
    <2> QED
      BY <1>1, <2>2, <2>3, <2>4
  <1>9. CASE k = 1
    BY <1>1, <1>2, <1>5, <1>9 DEF Sized
  <1>10. CASE k = 2
    <2>1. b * (Ratio1 * Ratio2) <= n
      BY ONLY <1>2, <1>4, <1>5, <1>6, <1>7
    <2> QED
      BY <1>1, <1>7, <1>10, <2>1 DEF Sized
  <1> QED
    BY <1>8, <1>9, <1>10 DEF Tiers

\* The buffers, once the new sample and what is rolled up are in them.
Filled(samples, buf1, buf2, w1, w2) ==
    /\ Len(buf1) = Len(tier1Buf) + 1 /\ Len(buf2) = Len(tier2Buf) + 1
    /\ \A i \in 1 .. Len(buf1) : buf1[i] = samples[Len(written[1]) * Ratio1 + i]
    /\ \A i \in 1 .. Len(buf2) : buf2[i] = w1[Len(w2) * Ratio2 + i]

(* The buffers after a sample: what was there, and what was written. *)
LEMMA BuffersFilled ==
    ASSUME FileInv, SizeInv, BufInv,
           NEW s, NEW sample, NEW agg, NEW agg3, NEW buf1, NEW buf2, NEW rolls1, NEW rolls2, NEW new,
           Writes(s, sample, agg, agg3, buf1, buf2, rolls1, rolls2, new)
    PROVE  Filled(taken', buf1, buf2, Append(written[1], agg), written[2])
  <1> PICK n, a, b, w1, c1, c2 :
          /\ n = Len(taken) /\ w1 = written[1] /\ a = Len(w1) * Ratio1
          /\ b = Len(written[2]) * Ratio2 /\ c1 = Len(tier1Buf) /\ c2 = Len(tier2Buf)
    OBVIOUS
  <1>1. /\ w1 \in Seq(TierRec) /\ written[2] \in Seq(TierRec) /\ taken \in Seq(Sample)
        /\ tier1Buf \in Seq(Sample) /\ tier2Buf \in Seq(TierRec)
        /\ sample \in Sample /\ agg \in TierRec
        /\ taken' = Append(taken, sample) /\ buf1 = Append(tier1Buf, sample)
        /\ buf2 = Append(tier2Buf, agg)
    BY DEF FileInv, Tiers, Writes
  <1>2. n \in Nat /\ c1 \in Nat /\ c2 \in Nat /\ Len(w1) \in Nat /\ Len(written[2]) \in Nat
    BY <1>1
  <1>3. a \in Nat /\ b \in Nat
    BY <1>2, RecordsAssumption, TimesMono
  <1>4. n = a + c1 /\ Len(w1) = b + c2
    BY DEF SizeInv
  <1>5. Len(buf1) = c1 + 1 /\ Len(buf2) = c2 + 1
    BY <1>1, <1>2
  <1>6. ASSUME NEW i \in 1 .. c1 + 1 PROVE buf1[i] = taken'[a + i]
    <2>1. CASE i = c1 + 1
      <3>1. a + i = n + 1
        BY ONLY <1>2, <1>3, <1>4, <2>1
      <3> QED
        BY <1>1, <1>2, <2>1, <3>1
    <2>2. CASE i # c1 + 1
      <3>1. i \in 1 .. c1 /\ a + i \in 1 .. n
        BY ONLY <1>2, <1>3, <1>4, <2>2, i \in 1 .. c1 + 1
      <3>2. buf1[i] = tier1Buf[i] /\ taken'[a + i] = taken[a + i]
        BY <1>1, <1>2, <3>1
      <3>3. tier1Buf[i] = taken[a + i]
        BY <3>1 DEF BufInv
      <3> QED
        BY <3>2, <3>3
    <2> QED
      BY <2>1, <2>2
  <1>7. ASSUME NEW i \in 1 .. c2 + 1 PROVE buf2[i] = Append(w1, agg)[b + i]
    <2>1. CASE i = c2 + 1
      <3>1. b + i = Len(w1) + 1
        BY ONLY <1>2, <1>3, <1>4, <2>1
      <3> QED
        BY <1>1, <1>2, <2>1, <3>1
    <2>2. CASE i # c2 + 1
      <3>1. i \in 1 .. c2 /\ b + i \in 1 .. Len(w1)
        BY ONLY <1>2, <1>3, <1>4, <2>2, i \in 1 .. c2 + 1
      <3>2. buf2[i] = tier2Buf[i] /\ Append(w1, agg)[b + i] = w1[b + i]
        BY <1>1, <1>2, <3>1
      <3>3. tier2Buf[i] = w1[b + i]
        BY <3>1 DEF BufInv
      <3> QED
        BY <3>2, <3>3
    <2> QED
      BY <2>1, <2>2
  <1> QED
    BY <1>5, <1>6, <1>7 DEF Filled

(* A sample keeps the counts, and the buffers. *)
LEMMA SizeAndBufNext ==
    ASSUME FileInv, SizeInv, BufInv, NEW s \in Samples, WriteSample(s)
    PROVE  (SizeInv /\ BufInv)'
  <1> PICK sample, agg, agg3, buf1, buf2, rolls1, rolls2, new :
           Writes(s, sample, agg, agg3, buf1, buf2, rolls1, rolls2, new)
    BY WriteIs
  <1> PICK w0, w1, w2, a, b, c1, c2, n :
          /\ w0 = written[0] /\ w1 = written[1] /\ w2 = written[2] /\ n = Len(taken)
          /\ a = Len(w1) /\ b = Len(w2) /\ c1 = Len(tier1Buf) /\ c2 = Len(tier2Buf)
    OBVIOUS
  <1>1. /\ w0 \in Seq(TierRec) /\ w1 \in Seq(TierRec) /\ w2 \in Seq(TierRec)
        /\ taken \in Seq(Sample) /\ tier1Buf \in Seq(Sample) /\ tier2Buf \in Seq(TierRec)
        /\ sample \in Sample /\ Raw(sample) \in TierRec /\ agg \in TierRec /\ agg3 \in TierRec
        /\ taken' = Append(taken, sample)
        /\ rolls1 = (Len(buf1) >= Ratio1) /\ rolls2 = (rolls1 /\ Len(buf2) >= Ratio2)
    BY DEF FileInv, Tiers, Writes
  <1>2. /\ n \in Nat /\ a \in Nat /\ b \in Nat /\ c1 \in Nat /\ c2 \in Nat
        /\ Ratio1 \in Nat \ {0} /\ Ratio2 \in Nat \ {0} /\ Len(taken') = n + 1 /\ Len(w0) = n
    <2>1. n \in Nat /\ a \in Nat /\ b \in Nat /\ c1 \in Nat /\ c2 \in Nat
      BY <1>1
    <2>2. Len(taken') = n + 1
      BY <1>1
    <2>3. Len(w0) = n
      BY DEF SizeInv
    <2> QED
      BY <2>1, <2>2, <2>3, RecordsAssumption
  <1>3. /\ c1 < Ratio1 /\ n = a * Ratio1 + c1 /\ c2 < Ratio2 /\ a = b * Ratio2 + c2
    BY DEF SizeInv
  <1>4. /\ Len(buf1) = c1 + 1 /\ Len(buf2) = c2 + 1
        /\ \A i \in 1 .. Len(buf1) : buf1[i] = taken'[a * Ratio1 + i]
        /\ \A i \in 1 .. Len(buf2) : buf2[i] = Append(w1, agg)[b * Ratio2 + i]
    <2>1. Filled(taken', buf1, buf2, Append(written[1], agg), written[2])
      BY BuffersFilled
    <2> QED
      BY <2>1 DEF Filled
  <1>5. /\ a * Ratio1 \in Nat /\ b * Ratio2 \in Nat
        /\ (a + 1) * Ratio1 = a * Ratio1 + Ratio1 /\ (b + 1) * Ratio2 = b * Ratio2 + Ratio2
    <2>1. \A x, y \in Nat : x * y \in Nat /\ (x + 1) * y = x * y + y
      OBVIOUS
    <2> QED
      BY <1>2, <2>1
  <1>6. /\ Len(Append(w0, Raw(sample))) = n + 1 /\ Len(Append(w1, agg)) = a + 1
        /\ Len(Append(w2, agg3)) = b + 1
    BY <1>1, <1>2
  <1>7. written'[0] = Append(w0, Raw(sample))
    BY WriteCases
  <1>8. CASE /\ ~rolls1 /\ tier1Buf' = buf1 /\ tier2Buf' = tier2Buf
             /\ written'[1] = w1 /\ written'[2] = w2
    <2>1. c1 + 1 < Ratio1
      <3>1. ~(c1 + 1 >= Ratio1)
        BY <1>1, <1>4, <1>8
      <3> QED
        BY ONLY <1>2, <3>1
    <2>2. n + 1 = a * Ratio1 + (c1 + 1)
      BY ONLY <1>2, <1>3, <1>5
    <2>3. SizeInv'
      BY <1>2, <1>3, <1>4, <1>6, <1>7, <1>8, <2>1, <2>2 DEF SizeInv
    <2>4. BufInv'
      BY <1>4, <1>8 DEF BufInv
    <2> QED
      BY <2>3, <2>4
  <1>9. rolls1 => c1 + 1 = Ratio1 /\ n + 1 = (a + 1) * Ratio1 + 0
    <2> SUFFICES ASSUME rolls1 PROVE c1 + 1 = Ratio1 /\ n + 1 = (a + 1) * Ratio1 + 0
      OBVIOUS
    <2>1. c1 + 1 >= Ratio1
      BY <1>1, <1>4
    <2> QED
      BY ONLY <1>2, <1>3, <1>5, <2>1
  <1>10. CASE /\ rolls1 /\ ~rolls2 /\ tier1Buf' = <<>> /\ tier2Buf' = buf2
              /\ written'[1] = Append(w1, agg) /\ written'[2] = w2
    <2>1. c2 + 1 < Ratio2
      <3>1. ~(c2 + 1 >= Ratio2)
        BY <1>1, <1>4, <1>10
      <3> QED
        BY ONLY <1>2, <3>1
    <2>2. a + 1 = b * Ratio2 + (c2 + 1)
      BY ONLY <1>2, <1>3, <1>5
    <2>3. SizeInv'
      <3>1. /\ Len(written'[0]) = Len(taken') /\ Len(written'[1]) = a + 1 /\ Len(written'[2]) = b
            /\ Len(tier1Buf') = 0 /\ Len(tier2Buf') = c2 + 1
        BY <1>2, <1>4, <1>6, <1>7, <1>10
      <3>2. 0 < Ratio1 /\ Len(taken') = (a + 1) * Ratio1 + 0
        BY <1>2, <1>9, <1>10
      <3> QED
        BY ONLY <2>1, <2>2, <3>1, <3>2 DEF SizeInv
    <2>4. BufInv'
      <3>1. Len(tier1Buf') = 0 /\ 1 .. 0 = {}
        BY <1>10
      <3>2. \A i \in 1 .. Len(tier2Buf') : tier2Buf'[i] = written'[1][Len(written'[2]) * Ratio2 + i]
        BY <1>4, <1>10
      <3> QED
        BY ONLY <3>1, <3>2 DEF BufInv
    <2> QED
      BY <2>3, <2>4
  <1>11. CASE /\ rolls1 /\ rolls2 /\ tier1Buf' = <<>> /\ tier2Buf' = <<>>
              /\ written'[1] = Append(w1, agg) /\ written'[2] = Append(w2, agg3)
    <2>1. c2 + 1 >= Ratio2
      BY <1>1, <1>4, <1>11
    <2>2. a + 1 = (b + 1) * Ratio2 + 0
      BY ONLY <1>2, <1>3, <1>5, <2>1
    <2>3. SizeInv'
      <3>1. /\ Len(written'[0]) = Len(taken') /\ Len(written'[1]) = a + 1 /\ Len(written'[2]) = b + 1
            /\ Len(tier1Buf') = 0 /\ Len(tier2Buf') = 0
        BY <1>2, <1>6, <1>7, <1>11
      <3> QED
        BY <1>2, <1>9, <1>11, <2>2, <3>1 DEF SizeInv
    <2>4. BufInv'
      BY <1>11 DEF BufInv
    <2> QED
      BY <2>3, <2>4
  <1> QED
    BY WriteCases, <1>8, <1>10, <1>11

\* A new record is about the samples that follow those of the record before it.
LEMMA NewCovers ==
    ASSUME FileInv, HistoryInv, NEW s \in Samples,
           NEW sample, NEW agg, NEW agg3, NEW buf1, NEW buf2, NEW rolls1, NEW rolls2, NEW new,
           Writes(s, sample, agg, agg3, buf1, buf2, rolls1, rolls2, new)
    PROVE  /\ DistinctLists(sample)
           /\ Covers(Raw(sample), Part(taken', Len(written[0]) + 1, 1))
           /\ rolls1 => Covers(agg, Part(taken', Len(written[1]) + 1, Ratio1))
           /\ rolls2 => Covers(agg3, Part(taken', Len(written[2]) + 1, Ratio1 * Ratio2))
  <1> PICK T, w1, w2, a, b, c1, c2, n :
          /\ T = taken' /\ w1 = written[1] /\ w2 = written[2] /\ n = Len(taken)
          /\ a = Len(w1) /\ b = Len(w2) /\ c1 = Len(tier1Buf) /\ c2 = Len(tier2Buf)
    OBVIOUS
  <1>1. /\ w1 \in Seq(TierRec) /\ w2 \in Seq(TierRec)
        /\ taken \in Seq(Sample) /\ tier1Buf \in Seq(Sample) /\ tier2Buf \in Seq(TierRec)
        /\ sample \in Sample /\ agg \in TierRec /\ T = Append(taken, sample)
        /\ buf1 \in Seq(Sample) /\ buf2 \in Seq(TierRec) /\ Len(buf1) > 0 /\ Len(buf2) > 0
        /\ agg = AggregateSamples(buf1) /\ agg3 = AggregateAggregated(buf2)
        /\ rolls1 = (Len(buf1) >= Ratio1) /\ rolls2 = (rolls1 /\ Len(buf2) >= Ratio2)
    BY DEF FileInv, Tiers, Writes
  <1>2. /\ n \in Nat /\ a \in Nat /\ b \in Nat /\ c1 \in Nat /\ c2 \in Nat
        /\ Ratio1 \in Nat /\ Ratio2 \in Nat
    BY <1>1, RecordsAssumption
  <1>3. /\ c1 < Ratio1 /\ n = a * Ratio1 + c1 /\ c2 < Ratio2 /\ a = b * Ratio2 + c2
        /\ Len(written[0]) = n
    BY DEF SizeInv, HistoryInv
  <1>4. /\ Len(buf1) = c1 + 1 /\ Len(buf2) = c2 + 1
        /\ \A i \in 1 .. Len(buf1) : buf1[i] = T[a * Ratio1 + i]
        /\ \A i \in 1 .. Len(buf2) : buf2[i] = Append(w1, agg)[b * Ratio2 + i]
    <2>1. Filled(taken', buf1, buf2, Append(written[1], agg), written[2])
      BY BuffersFilled DEF HistoryInv
    <2> QED
      BY <2>1 DEF Filled
  <1>5. DistinctLists(sample)
    <2>1. s.disks = s["disks"] /\ s.ifaces = s["ifaces"] /\ Distinct(s.disks) /\ Distinct(s.ifaces)
      BY SamplesAssumption
    <2>2. sample["disks"] = s["disks"] /\ sample["ifaces"] = s["ifaces"]
      BY DEF Writes, Fields
    <2> QED
      BY <2>1, <2>2 DEF DistinctLists
  <1>6. Covers(Raw(sample), Part(T, n + 1, 1))
    <2>1. ((n + 1) - 1) * 1 + 1 = n + 1 /\ (n + 1) * 1 = n + 1
      BY ONLY <1>2
    <2>2. n + 1 .. n + 1 = {n + 1}
      BY ONLY <1>2
    <2>3. Part(T, n + 1, 1) = {T[x] : x \in {n + 1}}
      BY ONLY <2>1, <2>2 DEF Part
    <2>4. T[n + 1] = sample
      BY <1>1
    <2>5. Part(T, n + 1, 1) = {sample}
      BY ONLY <2>3, <2>4
    <2> QED
      BY <1>1, <1>5, <2>5, CoversRaw
  <1>7. \A i \in 1 .. Len(buf1) : DistinctLists(buf1[i])
    <2> TAKE i \in 1 .. Len(buf1)
    <2>1. a * Ratio1 \in Nat
      BY <1>2, TimesMono
    <2>2. a * Ratio1 + i \in 1 .. n + 1
      BY ONLY <1>2, <1>3, <1>4, <2>1, i \in 1 .. Len(buf1)
    <2>3. \A x \in 1 .. n + 1 : DistinctLists(T[x])
      <3>1. \A x \in 1 .. n : DistinctLists(taken[x]) /\ T[x] = taken[x]
        <4>1. \A x \in 1 .. n : DistinctLists(taken[x])
          BY DEF CoverInv, HistoryInv
        <4>2. \A x \in 1 .. n : T[x] = taken[x]
          BY <1>1
        <4> QED
          BY ONLY <4>1, <4>2
      <3>2. T[n + 1] = sample
        BY <1>1
      <3>3. \A x \in 1 .. n + 1 : x \in 1 .. n \/ x = n + 1
        BY <1>2
      <3> QED
        BY <1>5, <3>1, <3>2, <3>3
    <2> QED
      BY <1>4, <2>2, <2>3
  <1>8. ASSUME rolls1 PROVE Covers(agg, Part(T, a + 1, Ratio1))
    <2>1. Len(buf1) = Ratio1
      <3>1. Len(buf1) >= Ratio1
        BY <1>1, <1>8
      <3> QED
        BY ONLY <1>2, <1>3, <1>4, <3>1
    <2>2. Covers(agg, {buf1[i] : i \in 1 .. Len(buf1)})
      BY <1>1, <1>7, CoversSamples
    <2> PICK m, e : m = a * Ratio1 /\ e = (a + 1) * Ratio1
      OBVIOUS
    <2>3. m \in Nat /\ e = m + Ratio1 /\ ((a + 1) - 1) * Ratio1 = m
      <3>1. (a + 1) * Ratio1 = a * Ratio1 + Ratio1 /\ a * Ratio1 \in Nat /\ (a + 1) - 1 = a
        BY ONLY <1>2
      <3> QED
        BY <3>1
    <2>4. Part(T, a + 1, Ratio1) = {T[x] : x \in m + 1 .. e}
      BY <2>3 DEF Part
    <2>5. \A i \in 1 .. Ratio1 : m + i \in m + 1 .. e /\ buf1[i] = T[m + i]
      BY <1>2, <1>4, <2>1, <2>3
    <2>6. \A x \in m + 1 .. e : x - m \in 1 .. Ratio1 /\ buf1[x - m] = T[x]
      <3> TAKE x \in m + 1 .. e
      <3>1. x - m \in 1 .. Ratio1 /\ m + (x - m) = x
        BY ONLY <1>2, <2>3, x \in m + 1 .. e
      <3> QED
        BY <2>5, <3>1
    <2>7. {buf1[i] : i \in 1 .. Len(buf1)} = {T[x] : x \in m + 1 .. e}
      BY ONLY <2>1, <2>5, <2>6
    <2> QED
      BY <2>2, <2>4, <2>7
  <1>9. ASSUME rolls2 PROVE Covers(agg3, Part(T, b + 1, Ratio1 * Ratio2))
    <2>1. rolls1 /\ Len(buf2) >= Ratio2
      BY <1>1, <1>9
    <2>2. Len(buf2) = Ratio2
      BY ONLY <1>2, <1>3, <1>4, <2>1
    <2> PICK m, w, B : /\ m = b * Ratio2 /\ w = Append(w1, agg)
                       /\ B = [i \in 1 .. Ratio2 |-> Part(T, m + i, Ratio1)]
      OBVIOUS
    <2>3. m \in Nat /\ a + 1 = m + Ratio2
      <3>1. m \in Nat
        BY <1>2, TimesMono
      <3> QED
        BY ONLY <1>2, <1>3, <1>4, <2>2, <3>1, m = b * Ratio2
    <2>4. \A i \in 1 .. Len(w) : Covers(w[i], Part(T, i, Ratio1))
      <3>1. \A i \in 1 .. Len(w1) : Covers(w1[i], Part(T, i, Ratio1))
        <4>1. 1 \in Tiers /\ Sized(1) = Ratio1
          BY DEF Tiers, Sized
        <4>2. \A i \in 1 .. Len(w1) : Covers(w1[i], Part(taken, i, Ratio1))
          BY <4>1 DEF CoverInv, HistoryInv
        <4>3. Len(w1) * Ratio1 <= Len(taken)
          BY <4>1, SizesFit DEF HistoryInv
        <4> QED
          BY <1>1, <1>2, <4>2, <4>3, StillCovers
      <3>2. Covers(agg, Part(T, Len(w1) + 1, Ratio1))
        BY <1>8, <2>1
      <3> QED
        BY <1>1, <3>1, <3>2, CoversOneMore
    <2>5. \A i \in 1 .. Len(buf2) : Covers(buf2[i], B[i])
      <3> TAKE i \in 1 .. Len(buf2)
      <3>1. Len(w) = a + 1
        BY <1>1
      <3>2. i \in 1 .. Ratio2 /\ m + i \in 1 .. Len(w)
        BY ONLY <1>2, <2>2, <2>3, <3>1, i \in 1 .. Len(buf2)
      <3>3. buf2[i] = w[m + i]
        BY <1>4
      <3> QED
        BY <2>4, <3>2, <3>3
    <2>6. Covers(agg3, UNION {B[i] : i \in 1 .. Ratio2})
      <3>1. Covers(AggregateAggregated(buf2), UNION {B[i] : i \in 1 .. Len(buf2)})
        BY ONLY <1>1, <2>5, CoversAggregate
      <3> QED
        BY <1>1, <2>2, <3>1
    <2>7. UNION {B[i] : i \in 1 .. Ratio2} = UNION {Part(T, m + i, Ratio1) : i \in 1 .. Ratio2}
      OBVIOUS
    <2>8. UNION {Part(T, m + i, Ratio1) : i \in 1 .. Ratio2} =
              {T[x] : x \in m * Ratio1 + 1 .. (m + Ratio2) * Ratio1}
      <3>1. Parted(T, m, Ratio2, Ratio1) = Row(T, m, Ratio2, Ratio1)
        BY ONLY <1>2, <2>3, PartsInARow
      <3> QED
        BY ONLY <3>1 DEF Parted, Row
    <2>9. /\ m * Ratio1 = ((b + 1) - 1) * (Ratio1 * Ratio2)
          /\ (m + Ratio2) * Ratio1 = (b + 1) * (Ratio1 * Ratio2)
      BY ONLY <1>2, m = b * Ratio2
    <2>10. Part(T, b + 1, Ratio1 * Ratio2) =
               {T[x] : x \in m * Ratio1 + 1 .. (m + Ratio2) * Ratio1}
      BY <2>9 DEF Part
    <2> QED
      BY <2>6, <2>7, <2>8, <2>10
  <1> QED
    BY <1>3, <1>5, <1>6, <1>8, <1>9

(* A sample keeps every record about its part of the samples. *)
LEMMA CoverInvNext ==
    ASSUME FileInv, HistoryInv, NEW s \in Samples, WriteSample(s)
    PROVE  CoverInv'
  <1> PICK sample, agg, agg3, buf1, buf2, rolls1, rolls2, new :
           Writes(s, sample, agg, agg3, buf1, buf2, rolls1, rolls2, new)
    BY WriteIs
  <1> PICK T, n : T = taken' /\ n = Len(taken)
    OBVIOUS
  <1>1. /\ taken \in Seq(Sample) /\ sample \in Sample /\ T = Append(taken, sample)
        /\ Raw(sample) \in TierRec /\ agg \in TierRec /\ agg3 \in TierRec
    BY DEF FileInv, Writes
  <1>2. /\ DistinctLists(sample)
        /\ Covers(Raw(sample), Part(T, Len(written[0]) + 1, 1))
        /\ rolls1 => Covers(agg, Part(T, Len(written[1]) + 1, Ratio1))
        /\ rolls2 => Covers(agg3, Part(T, Len(written[2]) + 1, Ratio1 * Ratio2))
    BY NewCovers
  <1>3. \A i \in 1 .. Len(T) : DistinctLists(T[i])
    <2>1. n \in Nat /\ Len(T) = n + 1 /\ T[n + 1] = sample /\ \A i \in 1 .. n : T[i] = taken[i]
      BY <1>1
    <2>2. \A i \in 1 .. n : DistinctLists(taken[i])
      BY DEF CoverInv, HistoryInv
    <2>3. \A i \in 1 .. n + 1 : i \in 1 .. n \/ i = n + 1
      BY ONLY <2>1
    <2> QED
      BY <1>2, <2>1, <2>2, <2>3
  <1>4. ASSUME NEW k \in Tiers
        PROVE  /\ written[k] \in Seq(TierRec)
               /\ \A i \in 1 .. Len(written[k]) : Covers(written[k][i], Part(T, i, Sized(k)))
    <2> PICK w, size : w = written[k] /\ size = Sized(k)
      OBVIOUS
    <2>1. w \in Seq(TierRec) /\ size \in Nat /\ Len(w) * size <= Len(taken)
      BY SizesFit DEF HistoryInv
    <2>2. \A i \in 1 .. Len(w) : Covers(w[i], Part(taken, i, size))
      BY DEF CoverInv, HistoryInv
    <2>3. \A i \in 1 .. Len(w) : Covers(w[i], Part(Append(taken, sample), i, size))
      BY ONLY <1>1, <2>1, <2>2, StillCovers
    <2> QED
      BY <1>1, <2>1, <2>3
  <1>5. 0 \in Tiers /\ 1 \in Tiers /\ 2 \in Tiers /\ Sized(0) = 1 /\ Sized(1) = Ratio1 /\ Sized(2) = Ratio1 * Ratio2
    BY DEF Tiers, Sized
  <1>6. ASSUME NEW k \in Tiers, NEW r \in TierRec, Covers(r, Part(T, Len(written[k]) + 1, Sized(k)))
        PROVE  \A i \in 1 .. Len(Append(written[k], r)) :
                   Covers(Append(written[k], r)[i], Part(T, i, Sized(k)))
    <2> PICK w, size : w = written[k] /\ size = Sized(k)
      OBVIOUS
    <2>1. w \in Seq(TierRec) /\ \A i \in 1 .. Len(w) : Covers(w[i], Part(T, i, size))
      BY <1>4
    <2>2. Covers(r, Part(T, Len(w) + 1, size))
      BY <1>6
    <2> QED
      BY <2>1, <2>2, CoversOneMore
  <1>7. \A i \in 1 .. Len(written'[0]) : Covers(written'[0][i], Part(T, i, Sized(0)))
    <2>1. written'[0] = Append(written[0], Raw(sample))
      BY WriteCases
    <2> QED
      BY <1>1, <1>2, <1>5, <1>6, <2>1
  <1>14. \/ /\ ~rolls1 /\ ~rolls2 /\ tier1Buf' = buf1 /\ tier2Buf' = tier2Buf
            /\ written'[1] = written[1] /\ written'[2] = written[2]
         \/ /\ rolls1 /\ ~rolls2 /\ tier1Buf' = <<>> /\ tier2Buf' = buf2
            /\ written'[1] = Append(written[1], agg) /\ written'[2] = written[2]
         \/ /\ rolls1 /\ rolls2 /\ tier1Buf' = <<>> /\ tier2Buf' = <<>>
            /\ written'[1] = Append(written[1], agg)
            /\ written'[2] = Append(written[2], agg3)
    BY WriteCases
  <1>8. \A i \in 1 .. Len(written'[1]) : Covers(written'[1][i], Part(T, i, Sized(1)))
    <2>1. written'[1] = written[1] \/ (rolls1 /\ written'[1] = Append(written[1], agg))
      BY <1>14
    <2>2. CASE written'[1] = written[1]
      BY <1>4, <1>5, <2>2
    <2>3. CASE rolls1 /\ written'[1] = Append(written[1], agg)
      BY <1>1, <1>2, <1>5, <1>6, <2>3
    <2> QED
      BY <2>1, <2>2, <2>3
  <1>9. \A i \in 1 .. Len(written'[2]) : Covers(written'[2][i], Part(T, i, Sized(2)))
    <2>1. written'[2] = written[2] \/ (rolls2 /\ written'[2] = Append(written[2], agg3))
      BY <1>14
    <2>2. CASE written'[2] = written[2]
      BY <1>4, <1>5, <2>2
    <2>3. CASE rolls2 /\ written'[2] = Append(written[2], agg3)
      BY <1>1, <1>2, <1>5, <1>6, <2>3
    <2> QED
      BY <2>1, <2>2, <2>3
  <1>10. \A k \in Tiers : k = 0 \/ k = 1 \/ k = 2
    BY DEF Tiers
  <1>11. \A k \in Tiers : \A i \in 1 .. Len(written'[k]) : Covers(written'[k][i], Part(T, i, Sized(k)))
    BY <1>7, <1>8, <1>9, <1>10
  <1>12. \A k : Sized(k)' = Sized(k)
    BY DEF Sized
  <1>13. CoverInv' <=> /\ \A i \in 1 .. Len(taken') : DistinctLists(taken'[i])
                       /\ \A k \in Tiers : \A i \in 1 .. Len(written'[k]) :
                              Covers(written'[k][i], Part(taken', i, Sized(k)))
    BY DEF CoverInv, Tiers, Covers, Covered, DistinctLists, Part, Sized
  <1> QED
    BY <1>3, <1>11, <1>13

(* So does every step, ... *)
LEMMA HistoryInvNext == FileInv /\ HistoryInv /\ [Next]_vars => HistoryInv'
  <1> SUFFICES ASSUME FileInv, HistoryInv, [Next]_vars PROVE HistoryInv'
    OBVIOUS
  <1>1. CASE UNCHANGED <<taken, written, tier1Buf, tier2Buf>>
    <2>1. SizeInv'
      BY <1>1 DEF HistoryInv, SizeInv
    <2>2. BufInv'
      BY <1>1 DEF HistoryInv, BufInv
    <2>3. CoverInv' = CoverInv
      BY <1>1 DEF CoverInv, Covers, Covered, DistinctLists, Part, Sized, Tiers
    <2> QED
      BY <2>1, <2>2, <2>3 DEF HistoryInv
  <1>2. ASSUME NEW s \in Samples, WriteSample(s) PROVE HistoryInv'
    <2>1. CoverInv'
      BY <1>2, CoverInvNext
    <2>2. SizeInv' /\ BufInv'
      BY <1>2, SizeAndBufNext DEF HistoryInv
    <2> QED
      BY <2>1, <2>2 DEF HistoryInv
  <1> QED
    BY <1>1, <1>2 DEF Next, vars, WriteSampleFails, Query

(* ... it holds at the start, ... *)
LEMMA HistoryInvInit == Init => HistoryInv
  <1> SUFFICES ASSUME Init PROVE HistoryInv
    OBVIOUS
  <1>1. /\ Len(taken) = 0 /\ Len(tier1Buf) = 0 /\ Len(tier2Buf) = 0
        /\ \A k \in Tiers : Len(written[k]) = 0
    BY DEF Init
  <1>2. 0 \in Tiers /\ 1 \in Tiers /\ 2 \in Tiers
    BY DEF Tiers
  <1>3. SizeInv
    BY <1>1, <1>2, RecordsAssumption DEF SizeInv
  <1>4. BufInv
    BY <1>1 DEF BufInv
  <1>5. CoverInv
    BY <1>1 DEF CoverInv
  <1> QED
    BY <1>3, <1>4, <1>5 DEF HistoryInv

(* ... and so always. *)
LEMMA SamplesCovered == Spec => [](FileInv /\ HistoryInv /\ AnswerInv)
  BY AnswersKnown, HistoryInvInit, HistoryInvNext, PTL DEF Spec

\* The point of an answer is about the samples behind it.
PointCovers(p, B, x, d) ==
    /\ \E s \in B : Value(p.min, x, d) = Value(s, x, d)
    /\ \E s \in B : Value(p.max, x, d) = Value(s, x, d)
    /\ \A s \in B : /\ Value(s, x, d) \in Int
                    /\ Value(p.min, x, d) <= Value(s, x, d)
                    /\ Value(s, x, d) <= Value(p.max, x, d)
    /\ Value(p.data, x, d) \in Int
    /\ Value(p.min, x, d) <= Value(p.data, x, d)
    /\ Value(p.data, x, d) <= Value(p.max, x, d)

(* The records asked for, rolled up, cover the samples behind the answer. *)
LEMMA BehindCovered ==
    ASSUME FileInv, HistoryInv, AnswerInv, asked
    PROVE  LET records == SubSeq(written[answer.tier], answer.from, answer.to)
           IN /\ Covers(AggregateAggregated(records), Behind)
              /\ AggregateAggregated(records).min \in Sample
              /\ AggregateAggregated(records).max \in Sample
  <1> PICK k, i, j, w, records, size, count, B :
          /\ k = answer.tier /\ i = answer.from /\ j = answer.to
          /\ w = written[k] /\ records = SubSeq(w, i, j) /\ size = Sized(k)
          /\ count = j - i + 1 /\ B = [x \in 1 .. count |-> Part(taken, (i - 1) + x, size)]
    OBVIOUS
  <1>1. k \in Tiers /\ i \in 1 .. Len(w) /\ j \in i .. Len(w)
    BY DEF AnswerInv
  <1>2. /\ records \in Seq(TierRec) /\ Len(records) > 0 /\ Len(records) = count
        /\ \A x \in 1 .. count : records[x] = w[i + x - 1]
    BY AnswerIs
  <1>3. w \in Seq(TierRec) /\ size \in Nat
    BY <1>1, SizesFit DEF HistoryInv
  <1>4. i \in Nat /\ j \in Nat /\ count \in Nat /\ i - 1 \in Nat /\ (i - 1) + count = j /\ Len(w) \in Nat
    <2>1. Len(w) \in Nat
      BY <1>3
    <2> QED
      BY ONLY <1>1, <2>1, count = j - i + 1
  <1>5. \A x \in 1 .. count : Covers(records[x], B[x])
    <2> TAKE x \in 1 .. count
    <2>1. i + x - 1 \in 1 .. Len(w) /\ (i - 1) + x = i + x - 1
      BY ONLY <1>1, <1>4, x \in 1 .. count, count = j - i + 1
    <2>2. Covers(w[i + x - 1], Part(taken, i + x - 1, size))
      BY <1>1, <2>1 DEF CoverInv, HistoryInv
    <2> QED
      BY <1>2, <2>1, <2>2
  <1>6. /\ Covers(AggregateAggregated(records), UNION {B[x] : x \in 1 .. Len(records)})
        /\ AggregateAggregated(records).min \in Sample
        /\ AggregateAggregated(records).max \in Sample
    <2>1. \A x \in 1 .. Len(records) : Covers(records[x], B[x])
      BY <1>2, <1>5
    <2> QED
      BY ONLY <1>2, <2>1, CoversAggregate
  <1>7. UNION {B[x] : x \in 1 .. count} = Parted(taken, i - 1, count, size)
    BY DEF Parted
  <1>8. Parted(taken, i - 1, count, size) = Row(taken, i - 1, count, size)
    BY <1>3, <1>4, PartsInARow
  <1>9. Row(taken, i - 1, count, size) = {taken[x] : x \in (i - 1) * size + 1 .. j * size}
    BY <1>4 DEF Row
  <1>10. Behind = {taken[x] : x \in (i - 1) * size + 1 .. j * size}
    BY DEF Behind, Sized
  <1>11. UNION {B[x] : x \in 1 .. Len(records)} = Behind
    BY <1>2, <1>7, <1>8, <1>9, <1>10
  <1> QED
    BY <1>6, <1>11

(* So does the answer, of what was read back. *)
LEMMA PointIs ==
    ASSUME FileInv, HistoryInv, AnswerInv, asked,
           NEW x \in Gauged, NEW d, \A s \in Behind : Shows(s, x, d)
    PROVE  PointCovers(answer.point, Behind, x, d)
  <1> PICK records, read, p, q, B :
          /\ records = SubSeq(written[answer.tier], answer.from, answer.to)
          /\ read = Read(answer.tier, answer.from, answer.to)
          /\ p = AggregateAggregated(read) /\ q = AggregateAggregated(records)
          /\ B = Behind
    OBVIOUS
  <1>1. Covers(q, B) /\ q.min \in Sample /\ q.max \in Sample
    BY BehindCovered
  <1>2. Covered(q, B, x, d) /\ B \subseteq Sample
    BY <1>1 DEF Covers
  <1>3. EndOf(q, "min") = q.min /\ EndOf(q, "max") = q.max
    BY <1>1, NotNil DEF EndOf
  <1>4. /\ records \in Seq(TierRec) /\ Len(records) > 0
        /\ read = [y \in 1 .. Len(records) |-> Storable(records[y])]
    BY AnswerIs
  <1>5. Alike(p.data, q.data) /\ Alike(p.min, q.min) /\ Alike(p.max, q.max)
    BY <1>4, AlikeRecords
  <1>6. ASSUME NEW a, NEW b, Alike(a, b)
        PROVE  Value(a, x, d) = Value(b, x, d) /\ a \in Sample
    <2>1. x \in Fields \ Altered
      BY DEF Gauged, Fields, Altered, Unstored
    <2>2. a[x] = b[x] /\ a \in Sample
      BY <1>6, <2>1 DEF Alike
    <2> QED
      BY <2>2 DEF Value
  <1>7. /\ Value(p.data, x, d) = Value(q.data, x, d) /\ Value(p.min, x, d) = Value(q.min, x, d)
        /\ Value(p.max, x, d) = Value(q.max, x, d) /\ p.data \in Sample
    BY <1>5, <1>6
  <1>8. Value(p.data, x, d) \in Int /\ \A s \in B : Value(s, x, d) \in Int
    BY <1>2, <1>7, ValueType
  <1>9. PointCovers(p, B, x, d)
    BY <1>2, <1>3, <1>7, <1>8 DEF Covered, PointCovers
  <1>10. answer.point = p
    BY DEF AnswerInv
  <1> QED
    BY <1>9, <1>10

\* What a gauge is.
LEMMA GaugeIs ==
    ASSUME NEW g \in Gauges
    PROVE  /\ g[1] \in Gauged /\ \A s \in Behind : Shows(s, g[1], g[2])
           /\ \A s : Measured(s, g) = Value(s, g[1], g[2])
  <1>1. \A s : Measured(s, g) = Value(s, g[1], g[2])
    BY DEF Measured, Value
  <1>2. CASE g \in {"usage", "used"} \X {""}
    <2>1. g[1] \in {"usage", "used"}
      BY <1>2
    <2> QED
      BY <1>1, <2>1 DEF Gauged, Shows
  <1>3. ASSUME NEW field \in {"disks", "ifaces"}, g \in {field} \X Lasting(field)
        PROVE  g[1] \in Gauged /\ \A s \in Behind : Shows(s, g[1], g[2])
    <2>1. g[1] = field /\ g[2] \in Lasting(field)
      BY <1>3
    <2>2. \A s \in Behind : Has(s[field], g[2])
      BY <2>1 DEF Lasting
    <2> QED
      BY <2>1, <2>2 DEF Gauged, Shows
  <1> QED
    BY <1>1, <1>2, <1>3 DEF Gauges

(* The largest and the smallest of integers that have both. *)
LEMMA ExtremesAre ==
    ASSUME NEW seen \in SUBSET Int, NEW lo \in seen, NEW hi \in seen,
           \A v \in seen : lo <= v /\ v <= hi
    PROVE  Max(seen) = hi /\ Min(seen) = lo
  <1>1. Max(seen) = hi
    <2>1. \E x \in seen : \A y \in seen : x >= y
      OBVIOUS
    <2>2. Max(seen) \in seen /\ \A y \in seen : Max(seen) >= y
      BY <2>1 DEF Max
    <2> PICK m : m = Max(seen)
      OBVIOUS
    <2>3. m \in seen /\ m \in Int /\ hi \in Int /\ m >= hi
      BY <2>2
    <2>4. lo <= m /\ m <= hi
      BY <2>3
    <2>5. m = hi
      BY ONLY <2>3, <2>4
    <2> QED
      BY <2>5
  <1>2. Min(seen) = lo
    <2>1. \E x \in seen : \A y \in seen : x =< y
      OBVIOUS
    <2>2. Min(seen) \in seen /\ \A y \in seen : Min(seen) =< y
      BY <2>1 DEF Min
    <2> PICK m : m = Min(seen)
      OBVIOUS
    <2>3. m \in seen /\ m \in Int /\ lo \in Int /\ m =< lo
      BY <2>2
    <2>4. lo <= m /\ m <= hi
      BY <2>3
    <2>5. m = lo
      BY ONLY <2>3, <2>4
    <2> QED
      BY <2>5
  <1> QED
    BY <1>1, <1>2

\* The extremes of a point are those of the samples behind it, through both
\* roll-ups and the grouping of a query, also for each disk and interface that
\* was there all the time.
THEOREM PeaksSurvive == Spec => []PeaksKept
  <1>1. FileInv /\ HistoryInv /\ AnswerInv => PeaksKept
    <2> SUFFICES ASSUME FileInv, HistoryInv, AnswerInv, asked, NEW g \in Gauges
                 PROVE  LET seen == {Measured(s, g) : s \in Behind}
                        IN /\ Measured(answer.point.max, g) = Max(seen)
                           /\ Measured(answer.point.min, g) = Min(seen)
      BY DEF PeaksKept
    <2> PICK x, d, lo, hi, seen, B :
            /\ x = g[1] /\ d = g[2] /\ B = Behind
            /\ lo = Value(answer.point.min, x, d) /\ hi = Value(answer.point.max, x, d)
            /\ seen = {Measured(s, g) : s \in B}
      OBVIOUS
    <2>1. x \in Gauged /\ (\A s \in B : Shows(s, x, d)) /\ \A s : Measured(s, g) = Value(s, x, d)
      BY GaugeIs
    <2>2. PointCovers(answer.point, B, x, d)
      BY <2>1, PointIs
    <2>3. seen = {Value(s, x, d) : s \in B}
      BY <2>1
    <2>4. /\ seen \in SUBSET Int /\ lo \in seen /\ hi \in seen
          /\ \A v \in seen : lo <= v /\ v <= hi
      BY <2>2, <2>3 DEF PointCovers
    <2>5. Max(seen) = hi /\ Min(seen) = lo
      BY ONLY <2>4, ExtremesAre
    <2> QED
      BY <2>1, <2>5
  <1> QED
    BY <1>1, SamplesCovered, PTL

\* The average of a point, which may be one of rounded averages, is between its
\* extremes.
THEOREM AverageIsBetween == Spec => []AverageBetween
  <1>1. FileInv /\ HistoryInv /\ AnswerInv => AverageBetween
    <2> SUFFICES ASSUME FileInv, HistoryInv, AnswerInv, asked, NEW g \in Gauges
                 PROVE  Measured(answer.point.data, g) \in
                            Measured(answer.point.min, g) .. Measured(answer.point.max, g)
      BY DEF AverageBetween
    <2> PICK x, d, lo, hi, at, B :
            /\ x = g[1] /\ d = g[2] /\ B = Behind
            /\ lo = Value(answer.point.min, x, d) /\ hi = Value(answer.point.max, x, d)
            /\ at = Value(answer.point.data, x, d)
      OBVIOUS
    <2>1. x \in Gauged /\ (\A s \in B : Shows(s, x, d)) /\ \A s : Measured(s, g) = Value(s, x, d)
      BY GaugeIs
    <2>2. PointCovers(answer.point, B, x, d)
      BY <2>1, PointIs
    <2>3. lo \in Int /\ hi \in Int /\ at \in Int /\ lo <= at /\ at <= hi
      BY <2>2 DEF PointCovers
    <2>4. at \in lo .. hi
      BY ONLY <2>3
    <2> QED
      BY <2>1, <2>4
  <1> QED
    BY <1>1, SamplesCovered, PTL
=============================================================================
