-------------------------- MODULE CollectorsProofs --------------------------
(***************************************************************************)
(* Theorems about Collectors for all counters, clocks, faults and numbers  *)
(* of CPUs, and for every kind of source.                                  *)
(***************************************************************************)
EXTENDS Collectors, TLAPS

Values == 0 .. MaxCount
Readings == [read : BOOLEAN, value : Values, cpus : Nat, at : Nat,
             start : Nat \union {never}, total : Nat, faults : Nat]
Databases == {"postgres", "mysql"}
Forgetful == {"network", "disk", "tcp"}

\* What is not there has no value.
Sound(r) ==
    /\ r \in Readings
    /\ ~r.read => r.value = 0 /\ r.cpus = 0
    /\ r.read => r.cpus > 0

\* A counter of value v, of which t were counted and that was interrupted f times,
\* in a source of kind k, comes after the reading r.
Behind(r, v, t, f, k) ==
    /\ r.faults <= f /\ r.total <= t
    /\ r.read /\ r.faults = f => v = r.value + (t - r.total)
    /\ r.read /\ k = "cpu" => v <= r.value + (t - r.total)
    /\ r.faults # f /\ k # "cpu" => v <= t - r.total

\* A reading comes after another one.
Follows(old, new, k) ==
    /\ old.total <= new.total
    /\ new.read => Behind(old, new.value, new.total, new.faults, k)

CollectorTypeOK ==
    /\ kind \in AllKinds
    /\ counters \in [Counters -> Values] /\ total \in [Counters -> Nat]
    /\ cpus \in Nat \ {0} /\ clock \in Nat /\ faults \in Nat
    /\ step \in {"idle", "first", "second"}
    /\ prev \in [Counters -> Readings]
    /\ prevTime \in Nat \union {never} /\ lastTime \in Nat \union {never}
    /\ db \in BOOLEAN /\ lost \in BOOLEAN

\* The counters come after what was read of them.
CountersGoOn ==
    /\ \A c \in Counters :
           Sound(prev[c]) /\ Behind(prev[c], counters[c], total[c], faults, kind)
    /\ step = "second" =>
           /\ Sound(first) /\ Behind(first, counters["a"], total["a"], faults, kind)
           /\ Follows(prev["a"], first, kind)
           /\ first.start = prevTime
           /\ kind \in Databases => first.read
    /\ kind \in {"tcp", "self"} => faults = 0

\* The counters that are read at once are there together.
ReadTogether ==
    kind \notin {"tcp", "container", "postgres"} =>
        /\ prev["a"].read = prev["b"].read
        /\ kind # "mysql" => /\ prev["a"].cpus = prev["b"].cpus
                             /\ prev["a"].faults = prev["b"].faults

\* The collection whose readings are in prev, at best.
Before == IF step = "idle" THEN prevTime ELSE lastTime

\* The readings in prev are from the collection before, or older where that one did
\* not read; databases lose them during a collection.
TimesAgree ==
    /\ step # "idle" => lastTime < prevTime /\ prevTime # never
    /\ \A c \in Counters :
           \/ prev[c].start <= Before /\ (kind \in Forgetful => prev[c].start = Before)
           \/ kind \in Databases /\ ~prev["a"].read
    /\ Before = never => \A c \in Counters : ~prev[c].read
    /\ lost => kind \in Databases /\ ~prev["a"].read

\* Who reads the counters one after another.
StepsOfKind == step = "second" => kind \in {"tcp", "container"} \union Databases

RateInv == CollectorTypeOK /\ CountersGoOn /\ ReadTogether /\ TimesAgree /\ StepsOfKind
-----------------------------------------------------------------------------
(* Readings.                                                               *)

\* A reading that is taken now, and what stands for one that could not be.
LEMMA ReadNow ==
    ASSUME CollectorTypeOK, NEW c \in Counters
    PROVE  /\ Sound(Reading(c)) /\ Reading(c).read
           /\ Reading(c).value = counters[c] /\ Reading(c).cpus = cpus
           /\ Reading(c).at = clock /\ Reading(c).start = prevTime
           /\ Reading(c).total = total[c] /\ Reading(c).faults = faults
           /\ Sound(Unread(c)) /\ ~Unread(c).read
           /\ Unread(c).value = 0 /\ Unread(c).cpus = 0
           /\ Unread(c).at = clock /\ Unread(c).start = prevTime
           /\ Unread(c).total = total[c] /\ Unread(c).faults = faults
<1>1. /\ counters[c] \in Values /\ total[c] \in Nat /\ cpus \in Nat \ {0}
      /\ clock \in Nat /\ faults \in Nat /\ prevTime \in Nat \union {never}
      /\ 0 \in Values
  BY CollectorsAssumption DEF CollectorTypeOK, Values
<1>2. Reading(c) \in Readings /\ Reading(c).read /\ Reading(c).cpus > 0
  BY <1>1 DEF Reading, Readings
<1>3. /\ Unread(c) \in Readings /\ ~Unread(c).read
      /\ Unread(c).value = 0 /\ Unread(c).cpus = 0
      /\ Unread(c).at = clock /\ Unread(c).start = prevTime
      /\ Unread(c).total = total[c] /\ Unread(c).faults = faults
  BY <1>1 DEF Unread, Reading, Readings
<1> QED BY <1>2, <1>3 DEF Sound, Reading

\* The counters come after such a reading, and it after an earlier one.
LEMMA NowBehind ==
    ASSUME CollectorTypeOK, NEW c \in Counters, NEW r \in {Reading(c), Unread(c)}
    PROVE  /\ Sound(r) /\ Behind(r, counters[c], total[c], faults, kind)
           /\ r.start = prevTime /\ r.at = clock
           /\ r.total = total[c] /\ r.faults = faults
           /\ r.read => r = Reading(c)
           /\ \A old : Behind(old, counters[c], total[c], faults, kind)
                           => Follows(old, r, kind)
<1>1. counters[c] \in Nat /\ total[c] \in Nat /\ faults \in Nat
  BY CollectorsAssumption DEF CollectorTypeOK, Values
<1>2. CASE r = Reading(c)
  BY <1>1, <1>2, ReadNow DEF Behind, Follows
<1>3. CASE r = Unread(c)
  BY <1>1, <1>3, ReadNow DEF Behind, Follows
<1> QED BY <1>2, <1>3

\* What the source does keeps its counters after every reading.
LEMMA GoesOn ==
    ASSUME NEW r, Sound(r), NEW v \in Nat, NEW t \in Nat, NEW f \in Nat, NEW k,
           Behind(r, v, t, f, k)
    PROVE  /\ Behind(r, v + 1, t + 1, f, k)
           /\ k # "cpu" => Behind(r, 0, t, f + 1, k)
           /\ k = "cpu" /\ v > 0 => Behind(r, v - 1, t, f + 1, k)
<1>1. r.value \in Nat /\ r.total \in Nat /\ r.faults \in Nat
  BY CollectorsAssumption DEF Sound, Readings, Values
<1> QED BY <1>1 DEF Behind

\* A difference that does not go below zero is at most what was counted, and that
\* much where the counter went on.
LEMMA GuardedCounts ==
    ASSUME NEW old, NEW new, NEW k, Sound(old), Sound(new), Follows(old, new, k)
    PROVE  /\ Guarded(new, old) \in Nat
           /\ new.total - old.total \in Nat
           /\ old.read \/ ~new.read => Guarded(new, old) <= new.total - old.total
           /\ old.read /\ new.read /\ old.faults = new.faults =>
                  Guarded(new, old) = new.total - old.total
<1>1. /\ old.value \in Nat /\ old.total \in Nat /\ old.faults \in Nat
      /\ new.value \in Nat /\ new.total \in Nat /\ new.faults \in Nat
  BY CollectorsAssumption DEF Sound, Readings, Values
<1>2. ~new.read => new.value = 0
  BY DEF Sound
<1>3. new.total - old.total \in Nat
  BY <1>1 DEF Follows
<1>4. CASE ~new.read
  BY <1>1, <1>2, <1>3, <1>4 DEF Guarded
<1>5. CASE new.read
  BY <1>1, <1>3, <1>5 DEF Guarded, Follows, Behind
<1> QED BY <1>4, <1>5

\* A difference of 64 bits is the difference where it is not negative.
LEMMA WrappedCounts ==
    ASSUME NEW old, NEW new, Sound(old), Sound(new)
    PROVE  /\ Wrapped(new, old) \in Int
           /\ new.value >= old.value => Wrapped(new, old) = Guarded(new, old)
<1>1. old.value \in 0 .. MaxCount /\ new.value \in 0 .. MaxCount
  BY DEF Sound, Readings, Values
<1>2. MaxCount \in Nat /\ Width \in Nat \ {0} /\ Width > 2 * MaxCount
  BY CollectorsAssumption
<1>3. (new.value - old.value) \in Int
  BY <1>1
<1>4. Wrapped(new, old) \in Int
  BY <1>2, <1>3 DEF Wrapped
<1>5. ASSUME new.value >= old.value PROVE Wrapped(new, old) = Guarded(new, old)
  <2>1. new.value - old.value \in 0 .. (Width - 1)
    BY <1>1, <1>2, <1>5
  <2>2. (new.value - old.value) % Width = new.value - old.value
    BY <1>2, <2>1
  <2> QED BY <1>5, <2>2 DEF Wrapped, Guarded
<1> QED BY <1>4, <1>5
-----------------------------------------------------------------------------
(* The inductive invariant.                                                *)

\* What is in All and None.
LEMMA AllAndNone ==
    /\ All \in [Counters -> {Reading("a"), Reading("b")}]
    /\ \A c \in Counters : All[c] = Reading(c)
    /\ None \in [Counters -> {Unread("a"), Unread("b")}]
    /\ \A c \in Counters : None[c] = Unread(c)
    /\ "a" \in Counters /\ "b" \in Counters
BY DEF All, None, Counters

LEMMA InitInv == Init => RateInv
<1> SUFFICES ASSUME Init PROVE RateInv OBVIOUS
<1>1. /\ kind \in AllKinds /\ counters \in [Counters -> Values]
      /\ total \in [Counters -> Nat] /\ cpus \in Nat \ {0}
  <2>1. /\ counters \in [Counters -> {0, 1}] /\ total = counters
        /\ 0 \in Values /\ 1 \in Values
    BY CollectorsAssumption DEF Init, Values
  <2>2. cpus \in Nat \ {0}
    <3>1. PICK m \in CPUs : TRUE
      BY CollectorsAssumption
    <3>2. (CHOOSE n \in CPUs : TRUE) \in CPUs
      BY <3>1
    <3>3. cpus = CHOOSE n \in CPUs : TRUE
      BY DEF Init
    <3> QED BY <3>2, <3>3, CollectorsAssumption
  <2>3. kind \in AllKinds
    BY CollectorsAssumption DEF Init
  <2> QED BY <2>1, <2>2, <2>3
<1>2. /\ prev = None /\ step = "idle" /\ prevTime = never /\ lastTime = never
      /\ faults = 0 /\ clock = 0 /\ db = FALSE /\ lost = FALSE
  BY DEF Init
<1>3. CollectorTypeOK
  <2>1. \A c \in Counters : Unread(c) \in Readings
    <3> SUFFICES ASSUME NEW c \in Counters PROVE Unread(c) \in Readings
      OBVIOUS
    <3>1. total[c] \in Nat /\ 0 \in Values
      BY <1>1, CollectorsAssumption DEF Values
    <3> QED BY <1>1, <1>2, <3>1 DEF Unread, Reading, Readings
  <2>2. prev \in [Counters -> Readings]
    BY <1>2, <2>1 DEF None
  <2> QED BY <1>1, <1>2, <2>2 DEF CollectorTypeOK
<1>4. \A c \in Counters :
          /\ Sound(prev[c]) /\ Behind(prev[c], counters[c], total[c], faults, kind)
          /\ ~prev[c].read /\ prev[c].start = prevTime
          /\ prev[c].cpus = 0 /\ prev[c].faults = faults
  BY <1>2, <1>3, AllAndNone, ReadNow, NowBehind
<1>5. CountersGoOn
  <2>1. step # "second" /\ faults = 0
    BY <1>2
  <2>2. \A c \in Counters :
            Sound(prev[c]) /\ Behind(prev[c], counters[c], total[c], faults, kind)
    BY <1>4
  <2> QED BY <2>1, <2>2 DEF CountersGoOn
<1>6. ReadTogether
  <2>1. prev["a"].read \in BOOLEAN /\ prev["b"].read \in BOOLEAN
    BY <1>4, AllAndNone DEF Sound, Readings
  <2> QED BY <1>4, <2>1, AllAndNone DEF ReadTogether
<1>7. TimesAgree
  <2>1. Before = never /\ never <= never /\ ~lost
    BY <1>2 DEF Before, never
  <2> QED BY <1>2, <1>4, <2>1 DEF TimesAgree
<1>8. StepsOfKind
  BY <1>2 DEF StepsOfKind
<1> QED BY <1>3, <1>5, <1>6, <1>7, <1>8 DEF RateInv

\* What the source does keeps what the collector has.
LEMMA SourceKeeps ==
    ASSUME RateInv, UNCHANGED collector, kind' = kind,
           counters' \in [Counters -> Values], total' \in [Counters -> Nat],
           cpus' \in Nat \ {0}, clock' \in Nat, faults' \in Nat,
           kind \in {"tcp", "self"} => faults' = faults,
           \A r : Sound(r) => \A c \in Counters :
               Behind(r, counters[c], total[c], faults, kind)
                   => Behind(r, counters'[c], total'[c], faults', kind)
    PROVE  RateInv'
<1> USE DEF RateInv
<1>1. /\ step' = step /\ first' = first /\ prev' = prev /\ prevTime' = prevTime
      /\ lastTime' = lastTime /\ db' = db /\ lost' = lost
  BY DEF collector
<1>2. CollectorTypeOK'
  BY <1>1 DEF CollectorTypeOK
<1>3. CountersGoOn'
  <2>1. \A c \in Counters :
            Sound(prev[c]) /\ Behind(prev[c], counters'[c], total'[c], faults', kind)
    BY DEF CountersGoOn
  <2>2. step = "second" =>
            /\ Sound(first) /\ Behind(first, counters'["a"], total'["a"], faults', kind)
            /\ Follows(prev["a"], first, kind)
            /\ first.start = prevTime
            /\ kind \in Databases => first.read
    BY AllAndNone DEF CountersGoOn
  <2> QED BY <1>1, <2>1, <2>2 DEF CountersGoOn
<1>4. ReadTogether' /\ TimesAgree' /\ StepsOfKind'
  BY <1>1 DEF ReadTogether, TimesAgree, StepsOfKind, Before
<1> QED BY <1>2, <1>3, <1>4

LEMMA SourceInv ==
    ASSUME RateInv,
           (\E c \in Counters : Count(c)) \/ Restart \/ StepBack \/ Hotplug \/ Tick
    PROVE  RateInv'
<1>1. /\ counters \in [Counters -> Values] /\ total \in [Counters -> Nat]
      /\ faults \in Nat /\ clock \in Nat /\ cpus \in Nat \ {0} /\ 0 \in Values
      /\ \A c \in Counters : counters[c] \in Nat
      /\ MaxCount \in Nat
  BY CollectorsAssumption DEF RateInv, CollectorTypeOK, Values
<1>2. ASSUME NEW k \in Counters, Count(k) PROVE RateInv'
  <2>1. /\ counters[k] < MaxCount /\ UNCHANGED <<kind, cpus, clock, faults, collector>>
        /\ counters' = [counters EXCEPT ![k] = @ + 1]
        /\ total' = [total EXCEPT ![k] = @ + 1]
    BY <1>2 DEF Count
  <2>2. counters' \in [Counters -> Values] /\ total' \in [Counters -> Nat]
    <3>1. counters[k] + 1 \in Values /\ total[k] + 1 \in Nat
      BY <1>1, <2>1 DEF Values
    <3> QED BY <1>1, <2>1, <3>1
  <2>3. ASSUME NEW r, Sound(r), NEW c \in Counters,
               Behind(r, counters[c], total[c], faults, kind)
        PROVE  Behind(r, counters'[c], total'[c], faults', kind)
    <3>1. CASE c = k
      <4>1. counters'[c] = counters[c] + 1 /\ total'[c] = total[c] + 1 /\ faults' = faults
        BY <1>1, <2>1, <3>1
      <4>2. Behind(r, counters[c] + 1, total[c] + 1, faults, kind)
        BY <1>1, <2>3, GoesOn
      <4> QED BY <4>1, <4>2
    <3>2. CASE c # k
      BY <1>1, <2>1, <2>3, <3>2
    <3> QED BY <3>1, <3>2
  <2> QED BY <1>1, <2>1, <2>2, <2>3, SourceKeeps
<1>3. CASE Restart
  <2>1. /\ counters' = zero /\ faults' = faults + 1 /\ kind \notin {"cpu", "tcp", "self"}
        /\ UNCHANGED <<kind, cpus, clock, total, collector>>
    BY <1>3 DEF Restart
  <2>2. counters' \in [Counters -> Values] /\ \A c \in Counters : counters'[c] = 0
    BY <1>1, <2>1 DEF zero
  <2>3. ASSUME NEW r, Sound(r), NEW c \in Counters,
               Behind(r, counters[c], total[c], faults, kind)
        PROVE  Behind(r, counters'[c], total'[c], faults', kind)
    <3>1. Behind(r, 0, total[c], faults + 1, kind)
      BY <1>1, <2>1, <2>3, GoesOn
    <3> QED BY <2>1, <2>2, <3>1
  <2>4. total' \in [Counters -> Nat] /\ faults' \in Nat /\ cpus' \in Nat \ {0}
        /\ clock' \in Nat /\ kind' = kind /\ UNCHANGED collector
    BY <1>1, <2>1
  <2> QED BY <2>1, <2>2, <2>3, <2>4, SourceKeeps
<1>4. CASE StepBack
  <2>1. /\ counters' = [counters EXCEPT !["b"] = @ - 1] /\ faults' = faults + 1
        /\ kind = "cpu" /\ counters["b"] > 0
        /\ UNCHANGED <<kind, cpus, clock, total, collector>>
    BY <1>4 DEF StepBack
  <2>2. counters' \in [Counters -> Values]
    <3>1. counters["b"] - 1 \in Values
      BY <1>1, <2>1, AllAndNone DEF Values
    <3> QED BY <1>1, <2>1, <3>1
  <2>3. ASSUME NEW r, Sound(r), NEW c \in Counters,
               Behind(r, counters[c], total[c], faults, kind)
        PROVE  Behind(r, counters'[c], total'[c], faults', kind)
    <3>1. CASE c = "b"
      <4>1. counters'[c] = counters[c] - 1
        BY <1>1, <2>1, <3>1
      <4>2. Behind(r, counters[c] - 1, total[c], faults + 1, kind)
        BY <1>1, <2>1, <2>3, <3>1, GoesOn
      <4> QED BY <2>1, <4>1, <4>2
    <3>2. CASE c # "b"
      <4>1. counters'[c] = counters[c] /\ total'[c] = total[c]
        BY <1>1, <2>1, <3>2
      <4>2. counters[c] \in Nat /\ total[c] \in Nat /\ r.faults \in Nat
            /\ r.total \in Nat /\ r.value \in Nat
        BY <1>1, <2>3, CollectorsAssumption DEF Sound, Readings, Values
      <4> QED BY <1>1, <2>1, <2>3, <4>1, <4>2 DEF Behind
    <3> QED BY <3>1, <3>2
  <2>4. total' \in [Counters -> Nat] /\ faults' \in Nat /\ cpus' \in Nat \ {0}
        /\ clock' \in Nat /\ kind' = kind /\ UNCHANGED collector
    BY <1>1, <2>1
  <2> QED BY <2>1, <2>2, <2>3, <2>4, SourceKeeps
<1>5. CASE Hotplug \/ Tick
  <2>1. /\ UNCHANGED <<kind, counters, total, faults, collector>>
        /\ cpus' \in Nat \ {0} /\ clock' \in Nat
    <3>1. CASE Hotplug
      <4>1. cpus' \in CPUs /\ UNCHANGED <<counters, clock, total, faults, collector>>
            /\ kind' = kind
        BY <3>1 DEF Hotplug
      <4> QED BY <1>1, <4>1, CollectorsAssumption
    <3>2. CASE Tick
      <4>1. clock' = clock + 1 /\ UNCHANGED <<kind, counters, cpus, total, faults, collector>>
        BY <3>2 DEF Tick
      <4> QED BY <1>1, <4>1
    <3> QED BY <1>5, <3>1, <3>2
  <2>2. \A r : Sound(r) => \A c \in Counters :
            Behind(r, counters[c], total[c], faults, kind)
                => Behind(r, counters'[c], total'[c], faults', kind)
    BY <2>1
  <2> QED BY <1>1, <2>1, <2>2, SourceKeeps
<1> QED BY <1>2, <1>3, <1>4, <1>5
-----------------------------------------------------------------------------
(* What a collection does to the readings.                                 *)

LEMMA BeginInv == RateInv /\ Begin => RateInv'
<1> SUFFICES ASSUME RateInv, Begin PROVE RateInv' OBVIOUS
<1> USE DEF RateInv
<1>1. /\ step = "idle" /\ clock > prevTime /\ step' = "first"
      /\ lastTime' = prevTime /\ prevTime' = clock
      /\ UNCHANGED <<kind, counters, cpus, clock, total, faults, first, prev, db, lost>>
  BY DEF Begin, source
<1>2. CollectorTypeOK'
  BY <1>1 DEF CollectorTypeOK
<1>3. CountersGoOn'
  BY <1>1 DEF CountersGoOn
<1>4. ReadTogether' /\ StepsOfKind'
  BY <1>1 DEF ReadTogether, StepsOfKind
<1>5. TimesAgree'
  <2>1. Before = prevTime /\ Before' = prevTime
    BY <1>1 DEF Before
  <2>2. clock \in Nat /\ clock # never
    BY DEF CollectorTypeOK, never
  <2> QED BY <1>1, <2>1, <2>2 DEF TimesAgree
<1> QED BY <1>2, <1>3, <1>4, <1>5

\* The readings in cur are from this collection, and after those in prev.
Current(cur) ==
    /\ cur \in [Counters -> Readings]
    /\ \A c \in Counters :
           /\ Sound(cur[c]) /\ Behind(cur[c], counters[c], total[c], faults, kind)
           /\ Follows(prev[c], cur[c], kind)
           /\ cur[c].start = prevTime

LEMMA AtOnce ==
    ASSUME RateInv
    PROVE  /\ Current(All) /\ Current(None)
           /\ \A c \in Counters : All[c].read /\ ~None[c].read
           /\ All["a"].faults = All["b"].faults /\ None["a"].faults = None["b"].faults
           /\ All["a"].cpus = All["b"].cpus /\ None["a"].cpus = None["b"].cpus
           /\ All["a"].cpus > 0
<1> USE DEF RateInv
<1>1. ASSUME NEW c \in Counters, NEW r \in {Reading(c), Unread(c)}
      PROVE  /\ Sound(r) /\ Behind(r, counters[c], total[c], faults, kind)
             /\ Follows(prev[c], r, kind) /\ r.start = prevTime /\ r \in Readings
  <2>1. Behind(prev[c], counters[c], total[c], faults, kind)
    BY DEF CountersGoOn
  <2> QED BY <2>1, NowBehind DEF Sound
<1>2. All \in [Counters -> Readings] /\ None \in [Counters -> Readings]
  BY <1>1 DEF All, None
<1>3. Current(All) /\ Current(None)
  BY <1>1, <1>2, AllAndNone DEF Current
<1>4. /\ \A c \in Counters : All[c].read /\ ~None[c].read
      /\ All["a"].faults = All["b"].faults /\ None["a"].faults = None["b"].faults
      /\ All["a"].cpus = All["b"].cpus /\ None["a"].cpus = None["b"].cpus
      /\ All["a"].cpus > 0
  <2>1. cpus > 0
    BY DEF CollectorTypeOK
  <2> QED BY <2>1, AllAndNone, ReadNow
<1> QED BY <1>3, <1>4

LEMMA OneByOne ==
    ASSUME RateInv, step = "second", NEW r \in {Reading("b"), Unread("b")}
    PROVE  LET cur == [All EXCEPT !["a"] = first, !["b"] = r]
           IN Current(cur) /\ cur["a"] = first /\ cur["b"] = r
<1> USE DEF RateInv
<1> DEFINE cur == [All EXCEPT !["a"] = first, !["b"] = r]
<1>1. cur["a"] = first /\ cur["b"] = r /\ DOMAIN cur = Counters
      /\ cur = [c \in Counters |-> cur[c]]
  BY AllAndNone
<1>2. /\ Sound(r) /\ Behind(r, counters["b"], total["b"], faults, kind)
      /\ Follows(prev["b"], r, kind) /\ r.start = prevTime
  <2>1. Behind(prev["b"], counters["b"], total["b"], faults, kind)
    BY AllAndNone DEF CountersGoOn
  <2> QED BY <2>1, NowBehind, AllAndNone
<1>3. /\ Sound(first) /\ Behind(first, counters["a"], total["a"], faults, kind)
      /\ Follows(prev["a"], first, kind) /\ first.start = prevTime
  BY DEF CountersGoOn
<1>4. cur \in [Counters -> Readings]
  BY <1>1, <1>2, <1>3 DEF Sound, Counters
<1>5. Current(cur)
  BY <1>1, <1>2, <1>3, <1>4 DEF Current, Counters
<1> QED BY <1>1, <1>5

\* The end of a collection: each reading is new or kept.
LEMMA DoneInv ==
    ASSUME RateInv, step # "idle", Done, db' \in BOOLEAN, lost' \in BOOLEAN,
           prev' \in [Counters -> Readings],
           \A c \in Counters :
               /\ Sound(prev'[c])
               /\ Behind(prev'[c], counters[c], total[c], faults, kind)
               /\ \/ prev'[c].start = prevTime
                  \/ /\ kind \notin Forgetful /\ prev'[c] = prev[c]
                     /\ kind \in Databases => prev' = prev,
           lost' => kind \in Databases /\ ~prev'["a"].read,
           ReadTogether'
    PROVE  RateInv'
<1> USE DEF RateInv
<1>1. /\ step' = "idle" /\ UNCHANGED <<kind, counters, cpus, clock, total, faults, prevTime, lastTime>>
  BY DEF Done, source
<1>2. CollectorTypeOK'
  BY <1>1 DEF CollectorTypeOK
<1>3. CountersGoOn'
  BY <1>1 DEF CountersGoOn
<1>4. TimesAgree'
  <2>1. Before = lastTime /\ Before' = prevTime /\ prevTime # never /\ lastTime < prevTime
    BY <1>1 DEF Before, TimesAgree
  <2>2. ASSUME NEW c \in Counters
        PROVE  \/ prev'[c].start <= prevTime
                     /\ (kind \in Forgetful => prev'[c].start = prevTime)
               \/ kind \in Databases /\ ~prev'["a"].read
    <3>1. prevTime \in Int /\ lastTime \in Int
      BY DEF CollectorTypeOK, never
    <3>2. CASE prev'[c].start = prevTime
      BY <3>1, <3>2
    <3>3. CASE /\ kind \notin Forgetful /\ prev'[c] = prev[c]
               /\ kind \in Databases => prev' = prev
      <4>1. CASE prev[c].start <= lastTime
        <5>1. prev[c].start \in Int
          BY DEF CollectorTypeOK, Readings, never
        <5> QED BY <2>1, <3>1, <3>3, <4>1, <5>1
      <4>2. CASE kind \in Databases /\ ~prev["a"].read
        BY <3>3, <4>2
      <4> QED BY <2>1, <4>1, <4>2 DEF TimesAgree
    <3> QED BY <3>2, <3>3
  <2> QED BY <1>1, <2>1, <2>2 DEF TimesAgree
<1>5. StepsOfKind'
  BY <1>1 DEF StepsOfKind
<1> QED BY <1>2, <1>3, <1>4, <1>5

\* The first of several readings, with the readings before kept, or lost with the
\* connection.
LEMMA ThenInv ==
    ASSUME RateInv, NEW r \in {Reading("a"), Unread("a")}, Then(r),
           kind \in {"tcp", "container"} \union Databases,
           kind \in Databases => r = Reading("a"),
           db' \in BOOLEAN, lost' \in BOOLEAN,
           \/ prev' = prev /\ lost' = lost
           \/ prev' = prev /\ kind \in Databases /\ (lost' => lost)
           \/ prev' = None /\ kind \in Databases
    PROVE  RateInv'
<1> USE DEF RateInv
<1>1. /\ step = "first" /\ step' = "second" /\ first' = r
      /\ UNCHANGED <<kind, counters, cpus, clock, total, faults, prevTime, lastTime>>
  BY DEF Then, source
<1>2. prev' = prev \/ (prev' = None /\ kind \in Databases)
  OBVIOUS
<1>3. Current(None) /\ \A c \in Counters : ~None[c].read
  BY AtOnce
<1>4. CollectorTypeOK'
  BY <1>1, <1>2, <1>3 DEF CollectorTypeOK, Current
<1>5. CountersGoOn'
  <2>1. \A c \in Counters :
            Sound(prev'[c]) /\ Behind(prev'[c], counters[c], total[c], faults, kind)
    BY <1>2, <1>3 DEF Current, CountersGoOn
  <2>2. /\ Sound(r) /\ Behind(r, counters["a"], total["a"], faults, kind)
        /\ r.start = prevTime /\ Follows(prev'["a"], r, kind)
        /\ kind \in Databases => r.read
    BY <2>1, NowBehind, ReadNow, AllAndNone
  <2> QED BY <1>1, <2>1, <2>2 DEF CountersGoOn
<1>6. ReadTogether'
  <2>1. CASE prev' = prev
    BY <1>1, <2>1 DEF ReadTogether
  <2>2. CASE prev' = None
    <3>1. None["a"].read = None["b"].read
      BY <1>3, AllAndNone DEF Current, Sound, Readings
    <3> QED BY <1>1, <2>2, <3>1, AtOnce DEF ReadTogether
  <2> QED BY <1>2, <2>1, <2>2
<1>7. TimesAgree'
  <2>1. Before = lastTime /\ Before' = lastTime
    BY <1>1 DEF Before
  <2>2. CASE prev' = prev /\ (lost' => lost)
    BY <1>1, <2>1, <2>2 DEF TimesAgree
  <2>3. CASE prev' = None /\ kind \in Databases
    BY <1>1, <1>3, <2>1, <2>3, AllAndNone DEF TimesAgree
  <2> QED BY <2>2, <2>3
<1>8. StepsOfKind'
  BY <1>1 DEF StepsOfKind
<1> QED BY <1>4, <1>5, <1>6, <1>7, <1>8
-----------------------------------------------------------------------------
(* What a collection shows.                                                *)

Difference1(cur, c) == cur[c].total - prev[c].total
SameRun(cur, c) == cur[c].faults = prev[c].faults

\* RateIsCount for the differences delta between prev and cur.
CountRight(cur, delta) ==
    \A c \in Counters :
        /\ \/ delta[c] <= Difference1(cur, c)
           \/ c = "b" /\ \/ kind = "nginx" /\ ~SameRun(cur, c)
                         \/ kind = "postgres" /\ ~prev[c].read
        /\ /\ prev[c].read /\ cur[c].read /\ SameRun(cur, c)
           /\ kind \notin Maps \union {"cpu"} =>
                  prev[IF kind = "tcp" THEN c ELSE "a"].value > 0
           /\ kind = "cpu" => prev[c].cpus = cur[c].cpus
           /\ kind = "gpu" => c = "a"
           => delta[c] = Difference1(cur, c)

\* There is no difference to what was not read.
DeltaRight(cur, delta) ==
    /\ delta \in [Counters -> Int]
    /\ CountRight(cur, delta)
    /\ kind \in Databases /\ ~prev["a"].read => delta = zero
    /\ (\A c \in Counters : ~prev[c].read) => delta = zero

ShownRight == RateIsCount /\ RateOverItsTime /\ NoRateAfterLoss

LEMMA Zeros == zero \in [Counters -> Int] /\ \A c \in Counters : zero[c] = 0
BY DEF zero

\* Right differences over the time since the last collection are right rates, as
\* are those of the CPU over the ticks.
LEMMA RightRates ==
    ASSUME RateInv, step # "idle", NEW cur, Current(cur), NEW delta,
           DeltaRight(cur, delta), NEW over, Show(cur, delta, over), kind' = kind,
           kind # "cpu" => over = Elapsed,
           kind = "cpu" /\ delta # zero =>
               \/ \A c \in Counters : ~SameRun(cur, c)
               \/ over = Difference1(cur, "a") + Difference1(cur, "b")
    PROVE  ShownRight'
<1> USE DEF RateInv
<1>1. /\ shown'.on /\ shown'.delta = delta /\ shown'.over = over
      /\ shown'.from = prev /\ shown'.to = cur /\ shown'.last = lastTime
      /\ shown'.lost = lost
  BY DEF Show
<1>2. RateIsCount'
  <2>1. \A c \in Counters : Counted(c)' = Difference1(cur, c)
                            /\ (Interrupted(c)' <=> ~SameRun(cur, c))
    BY <1>1 DEF Counted, Difference1, Interrupted, SameRun
  <2>2. CountRight(cur, delta)
    BY DEF DeltaRight
  <2> QED BY <1>1, <2>1, <2>2 DEF RateIsCount, CountRight, Spikes, Continues
<1>3. NoRateAfterLoss'
  <2>1. lost => delta = zero
    BY DEF TimesAgree, DeltaRight
  <2> QED BY <1>1, <2>1 DEF NoRateAfterLoss
<1>4. RateOverItsTime'
  <2> SUFFICES ASSUME NEW c \in Counters, delta[c] # 0
               PROVE  LET from == prev[c]
                          to == cur[c]
                          time == (to.at - from.at) + Delay(from) - Delay(to)
                      IN IF kind = "cpu"
                         THEN ~SameRun(cur, c)
                              \/ over = Difference1(cur, "a") + Difference1(cur, "b")
                         ELSE IF from.start = lastTime
                         THEN over = time
                         ELSE over < time /\ kind \notin {"network", "disk", "tcp"}
    <3>1. \A c \in Counters : (Interrupted(c)' <=> ~SameRun(cur, c))
      BY <1>1 DEF Interrupted, SameRun
    <3>2. Counted("a")' = Difference1(cur, "a") /\ Counted("b")' = Difference1(cur, "b")
      BY <1>1 DEF Counted, Difference1
    <3> QED BY <1>1, <3>1, <3>2 DEF RateOverItsTime, Delay
  <2>1. delta # zero
    BY Zeros
  <2>2. CASE kind = "cpu"
    BY <2>1, <2>2
  <2>3. CASE kind # "cpu"
    <3>1. /\ prev[c].start \in Int /\ prev[c].at \in Int
          /\ cur[c].start = prevTime /\ cur[c].at \in Int
          /\ prevTime \in Int /\ lastTime \in Int
      BY DEF Current, CollectorTypeOK, Readings, never
    <3>2. Before = lastTime
      BY DEF Before
    <3>3. /\ prev[c].start <= lastTime
          /\ kind \in Forgetful => prev[c].start = lastTime
      <4>1. ~(kind \in Databases /\ ~prev["a"].read)
        BY <2>1 DEF DeltaRight
      <4> QED BY <3>2, <4>1 DEF TimesAgree
    <3>4. lastTime # never
      BY <2>1, <3>2 DEF DeltaRight, TimesAgree
    <3>5. over = prevTime - lastTime
      BY <2>3, <3>4 DEF Elapsed
    <3>6. (cur[c].at - prev[c].at) + Delay(prev[c]) - Delay(cur[c])
              = prevTime - prev[c].start
      BY <3>1 DEF Delay
    <3> QED BY ONLY <2>3, <3>1, <3>3, <3>5, <3>6 DEF Forgetful
  <2> QED BY <2>2, <2>3
<1> QED BY <1>2, <1>3, <1>4 DEF ShownRight

\* What was counted between two readings.
LEMMA CurrentCounts ==
    ASSUME RateInv, NEW cur, Current(cur), NEW c \in Counters
    PROVE  /\ Sound(prev[c]) /\ Sound(cur[c])
           /\ prev[c].value \in Nat /\ cur[c].value \in Nat
           /\ prev[c].faults \in Nat /\ cur[c].faults \in Nat
           /\ Guarded(cur[c], prev[c]) \in Nat
           /\ Difference1(cur, c) \in Nat
           /\ prev[c].read \/ ~cur[c].read =>
                  Guarded(cur[c], prev[c]) <= Difference1(cur, c)
           /\ prev[c].read /\ cur[c].read /\ SameRun(cur, c) =>
                  /\ Guarded(cur[c], prev[c]) = Difference1(cur, c)
                  /\ cur[c].value = prev[c].value + Difference1(cur, c)
           /\ Difference(cur)[c] = Guarded(cur[c], prev[c])
           /\ prev[c].value > 0 => prev[c].read
           /\ Wrapped(cur[c], prev[c]) \in Int
           /\ cur[c].value >= prev[c].value =>
                  Wrapped(cur[c], prev[c]) = Guarded(cur[c], prev[c])
<1>1. Sound(prev[c]) /\ Sound(cur[c]) /\ Follows(prev[c], cur[c], kind)
  BY DEF RateInv, CountersGoOn, Current
<1>2. /\ prev[c].value \in Nat /\ cur[c].value \in Nat
      /\ prev[c].faults \in Nat /\ cur[c].faults \in Nat
      /\ prev[c].total \in Nat /\ cur[c].total \in Nat
  BY <1>1, CollectorsAssumption DEF Sound, Readings, Values
<1>3. prev[c].read /\ cur[c].read /\ SameRun(cur, c) =>
          cur[c].value = prev[c].value + Difference1(cur, c)
  BY <1>1 DEF Follows, Behind, SameRun, Difference1
<1>4. prev[c].value > 0 => prev[c].read
  BY <1>1 DEF Sound
<1>5. Difference(cur)[c] = Guarded(cur[c], prev[c])
  BY DEF Difference
<1>6. /\ Guarded(cur[c], prev[c]) \in Nat
      /\ Difference1(cur, c) \in Nat
      /\ prev[c].read \/ ~cur[c].read =>
             Guarded(cur[c], prev[c]) <= Difference1(cur, c)
      /\ prev[c].read /\ cur[c].read /\ SameRun(cur, c) =>
             Guarded(cur[c], prev[c]) = Difference1(cur, c)
  BY <1>1, GuardedCounts DEF Difference1, SameRun
<1>7. /\ Wrapped(cur[c], prev[c]) \in Int
      /\ cur[c].value >= prev[c].value =>
             Wrapped(cur[c], prev[c]) = Guarded(cur[c], prev[c])
  BY <1>1, WrappedCounts
<1> QED BY <1>1, <1>2, <1>3, <1>4, <1>5, <1>6, <1>7

\* Where nothing was counted there is no difference.
LEMMA ZeroRight ==
    ASSUME RateInv, NEW cur, Current(cur), \A c \in Counters : ~cur[c].read
    PROVE  DeltaRight(cur, zero)
<1>1. \A c \in Counters : zero[c] <= Difference1(cur, c)
  BY CurrentCounts, Zeros
<1>2. CountRight(cur, zero)
  BY <1>1 DEF CountRight
<1> QED BY <1>2, Zeros DEF DeltaRight

\* Interfaces, disks and containers; and the energy of a GPU.
LEMMA DevicesRight ==
    ASSUME RateInv, kind \in Maps, NEW cur, Current(cur)
    PROVE  /\ kind # "gpu" => DeltaRight(cur, DeviceDeltas(cur))
           /\ kind = "gpu" => DeltaRight(cur, [DeviceDeltas(cur) EXCEPT !["b"] = 0])
<1> DEFINE gpu == [DeviceDeltas(cur) EXCEPT !["b"] = 0]
<1>1. \A c \in Counters : DeviceDeltas(cur)[c] =
          IF cur[c].read /\ prev[c].read THEN Guarded(cur[c], prev[c]) ELSE 0
  BY CurrentCounts DEF DeviceDeltas
<1>2. DeviceDeltas(cur) \in [Counters -> Int]
  <2>1. DeviceDeltas(cur) = [c \in Counters |-> DeviceDeltas(cur)[c]]
    BY DEF DeviceDeltas
  <2>2. \A c \in Counters : DeviceDeltas(cur)[c] \in Int
    BY <1>1, CurrentCounts
  <2> QED BY <2>1, <2>2
<1>3. /\ gpu \in [Counters -> Int]
      /\ gpu["a"] = DeviceDeltas(cur)["a"] /\ gpu["b"] = 0
  BY <1>2, AllAndNone
<1>4. \A c \in Counters :
          /\ DeviceDeltas(cur)[c] <= Difference1(cur, c) /\ 0 <= Difference1(cur, c)
          /\ prev[c].read /\ cur[c].read /\ SameRun(cur, c) =>
                 DeviceDeltas(cur)[c] = Difference1(cur, c)
  BY <1>1, CurrentCounts
<1>5. kind \notin Databases /\ kind \in Maps
  BY DEF Maps, Databases
<1>6. CountRight(cur, DeviceDeltas(cur)) \/ kind = "gpu"
  BY <1>4 DEF CountRight
<1>7. kind = "gpu" => CountRight(cur, gpu)
  BY <1>3, <1>4 DEF CountRight, Counters
<1>8. (\A c \in Counters : ~prev[c].read) => DeviceDeltas(cur) = zero
  <2>1. ASSUME \A c \in Counters : ~prev[c].read
        PROVE  \A c \in Counters : DeviceDeltas(cur)[c] = 0
    BY <1>1, <2>1
  <2>2. DeviceDeltas(cur) = [c \in Counters |-> DeviceDeltas(cur)[c]]
    BY DEF DeviceDeltas
  <2> QED BY <2>1, <2>2 DEF zero
<1>9. (\A c \in Counters : ~prev[c].read) => gpu = zero
  BY <1>3, <1>8 DEF zero, Counters
<1> QED BY <1>2, <1>3, <1>5, <1>6, <1>7, <1>8, <1>9 DEF DeltaRight

LEMMA TCPRight ==
    ASSUME RateInv, kind = "tcp", NEW cur, Current(cur)
    PROVE  DeltaRight(cur, TCPDeltas(cur))
<1>1. \A c \in Counters : TCPDeltas(cur)[c] =
          IF prev[c].value > 0 THEN Guarded(cur[c], prev[c]) ELSE 0
  BY CurrentCounts DEF TCPDeltas
<1>2. \A c \in Counters : /\ TCPDeltas(cur)[c] \in Int
                          /\ TCPDeltas(cur)[c] <= Difference1(cur, c)
                          /\ ~prev[c].read => TCPDeltas(cur)[c] = 0
  BY <1>1, CurrentCounts
<1>3. TCPDeltas(cur) = [c \in Counters |-> TCPDeltas(cur)[c]]
  BY DEF TCPDeltas
<1>4. CountRight(cur, TCPDeltas(cur))
  <2>1. kind \notin Maps \union {"cpu"}
    BY DEF Maps
  <2>2. ASSUME NEW c \in Counters, prev[c].read, cur[c].read, SameRun(cur, c),
               prev[c].value > 0
        PROVE  TCPDeltas(cur)[c] = Difference1(cur, c)
    BY <1>1, <2>2, CurrentCounts
  <2> QED BY <1>2, <2>1, <2>2 DEF CountRight
<1>5. TCPDeltas(cur) \in [Counters -> Int]
  BY <1>2, <1>3
<1>6. (\A c \in Counters : ~prev[c].read) => TCPDeltas(cur) = zero
  BY <1>2, <1>3 DEF zero
<1> QED BY <1>4, <1>5, <1>6 DEF DeltaRight, Databases

\* The differences of the counters that a collector reads at once, as functions.
LEMMA DeltasOf ==
    ASSUME RateInv, NEW cur, Current(cur)
    PROVE  /\ Difference(cur) \in [Counters -> Int]
           /\ SelfDeltas(cur) \in [Counters -> Int]
           /\ NginxDeltas(cur) \in [Counters -> Int]
           /\ ServerDeltas(cur) \in [Counters -> Int]
           /\ CPUDeltas(cur) \in [Counters -> Int]
           /\ ~(prev["a"].value > 0) =>
                  SelfDeltas(cur) = zero /\ NginxDeltas(cur) = zero /\ ServerDeltas(cur) = zero
<1>1. \A c \in Counters : /\ Guarded(cur[c], prev[c]) \in Int
                          /\ Wrapped(cur[c], prev[c]) \in Int
  BY CurrentCounts
<1>2. Difference(cur) \in [Counters -> Int]
  BY <1>1 DEF Difference
<1>3. SelfDeltas(cur) \in [Counters -> Int] /\ NginxDeltas(cur) \in [Counters -> Int]
  BY <1>1 DEF SelfDeltas, NginxDeltas
<1>4. ServerDeltas(cur) \in [Counters -> Int] /\ CPUDeltas(cur) \in [Counters -> Int]
  BY <1>2, Zeros DEF ServerDeltas, CPUDeltas
<1>5. ~(prev["a"].value > 0) =>
          SelfDeltas(cur) = zero /\ NginxDeltas(cur) = zero /\ ServerDeltas(cur) = zero
  BY DEF SelfDeltas, NginxDeltas, ServerDeltas, zero
<1> QED BY <1>2, <1>3, <1>4, <1>5

LEMMA CPURight ==
    ASSUME RateInv, kind = "cpu"
    PROVE  /\ DeltaRight(All, CPUDeltas(All))
           /\ CPUDeltas(All) # zero =>
                  \/ \A c \in Counters : ~SameRun(All, c)
                  \/ Ticks(All) - Ticks(prev)
                         = Difference1(All, "a") + Difference1(All, "b")
<1>1. Current(All)
  BY AtOnce
<1>2. /\ prev["a"].read = prev["b"].read /\ prev["a"].cpus = prev["b"].cpus
      /\ prev["a"].faults = prev["b"].faults
      /\ SameRun(All, "a") <=> SameRun(All, "b")
      /\ All["a"].cpus = All["b"].cpus /\ All["a"].cpus > 0
      /\ All["a"].read /\ All["b"].read
  BY AtOnce, AllAndNone DEF RateInv, ReadTogether, SameRun
<1>3. /\ ~prev["a"].read => prev["a"].cpus = 0
      /\ prev["a"].cpus = All["a"].cpus => prev["a"].read /\ prev["b"].read
  BY <1>1, <1>2, CurrentCounts, AllAndNone DEF Sound
<1>4. \A c \in Counters : Difference1(All, c) \in Nat /\ zero[c] = 0
  BY <1>1, CurrentCounts, Zeros
<1>5. CASE prev["a"].cpus = All["a"].cpus /\ Ticks(All) > Ticks(prev)
  <2>1. CPUDeltas(All) = Difference(All)
    BY <1>5 DEF CPUDeltas
  <2>2. \A c \in Counters :
            /\ CPUDeltas(All)[c] <= Difference1(All, c)
            /\ SameRun(All, c) => CPUDeltas(All)[c] = Difference1(All, c)
    BY <1>1, <1>2, <1>3, <1>5, <2>1, CurrentCounts DEF Counters
  <2>3. CountRight(All, CPUDeltas(All))
    BY <2>2 DEF CountRight
  <2>4. ASSUME SameRun(All, "a")
        PROVE  Ticks(All) - Ticks(prev) = Difference1(All, "a") + Difference1(All, "b")
    <3>1. /\ All["a"].value = prev["a"].value + Difference1(All, "a")
          /\ All["b"].value = prev["b"].value + Difference1(All, "b")
          /\ prev["a"].value \in Nat /\ prev["b"].value \in Nat
          /\ Difference1(All, "a") \in Nat /\ Difference1(All, "b") \in Nat
      BY <1>1, <1>2, <1>3, <1>5, <2>4, CurrentCounts, AllAndNone
    <3> QED BY <3>1 DEF Ticks
  <2>5. \/ \A c \in Counters : ~SameRun(All, c)
        \/ Ticks(All) - Ticks(prev) = Difference1(All, "a") + Difference1(All, "b")
    BY <1>2, <2>4 DEF Counters
  <2> QED BY <1>1, <1>3, <1>5, <2>3, <2>5, DeltasOf, AllAndNone DEF DeltaRight, Databases
<1>6. CASE ~(prev["a"].cpus = All["a"].cpus /\ Ticks(All) > Ticks(prev))
  <2>1. CPUDeltas(All) = zero
    BY <1>6 DEF CPUDeltas
  <2>2. ASSUME NEW c \in Counters, prev[c].read, SameRun(All, c), prev[c].cpus = All[c].cpus
        PROVE  Difference1(All, c) = 0
    <3>1. prev["a"].read /\ prev["b"].read /\ SameRun(All, "a") /\ SameRun(All, "b")
          /\ ~(Ticks(All) > Ticks(prev))
      BY <1>2, <1>6, <2>2 DEF Counters
    <3>2. /\ All["a"].value = prev["a"].value + Difference1(All, "a")
          /\ All["b"].value = prev["b"].value + Difference1(All, "b")
          /\ prev["a"].value \in Nat /\ prev["b"].value \in Nat
          /\ Difference1(All, "a") \in Nat /\ Difference1(All, "b") \in Nat
      BY <1>1, <1>2, <3>1, CurrentCounts, AllAndNone
    <3>3. Difference1(All, "a") = 0 /\ Difference1(All, "b") = 0
      BY <3>1, <3>2 DEF Ticks
    <3> QED BY <3>3 DEF Counters
  <2>3. CountRight(All, zero)
    BY <1>4, <2>2 DEF CountRight
  <2> QED BY <2>1, <2>3, Zeros DEF DeltaRight
<1> QED BY <1>5, <1>6

LEMMA SelfRight ==
    ASSUME RateInv, kind = "self"
    PROVE  DeltaRight(All, SelfDeltas(All))
<1>1. Current(All) /\ \A c \in Counters : All[c].read
  BY AtOnce
<1>2. prev["a"].read = prev["b"].read /\ kind \notin Maps \union {"cpu"}
  BY DEF RateInv, ReadTogether, Maps
<1>3. \A c \in Counters : SameRun(All, c)
  <2>1. faults = 0 /\ \A c \in Counters : prev[c].faults <= 0 /\ All[c].faults <= 0
    BY <1>1 DEF RateInv, CountersGoOn, Current, Behind
  <2>2. \A c \in Counters : prev[c].faults \in Nat /\ All[c].faults \in Nat
    BY <1>1, CurrentCounts
  <2> QED BY <2>1, <2>2 DEF SameRun
<1>4. CASE prev["a"].value > 0
  <2>1. \A c \in Counters : prev[c].read
    BY <1>1, <1>2, <1>4, CurrentCounts, AllAndNone DEF Counters
  <2>2. \A c \in Counters : SelfDeltas(All)[c] = Wrapped(All[c], prev[c])
    BY <1>4 DEF SelfDeltas
  <2>3. ASSUME NEW c \in Counters PROVE SelfDeltas(All)[c] = Difference1(All, c)
    <3>1. /\ All[c].value = prev[c].value + Difference1(All, c)
          /\ prev[c].value \in Nat /\ Difference1(All, c) \in Nat
          /\ Guarded(All[c], prev[c]) = Difference1(All, c)
      BY <1>1, <1>3, <2>1, CurrentCounts
    <3>2. All[c].value >= prev[c].value
      BY <3>1
    <3> QED BY <1>1, <2>2, <3>1, <3>2, CurrentCounts
  <2>4. \A c \in Counters : Difference1(All, c) <= Difference1(All, c)
    BY <1>1, CurrentCounts
  <2>5. CountRight(All, SelfDeltas(All))
    BY <2>3, <2>4 DEF CountRight
  <2> QED BY <1>1, <2>1, <2>5, DeltasOf, AllAndNone DEF DeltaRight, Databases
<1>5. CASE ~(prev["a"].value > 0)
  <2>1. SelfDeltas(All) = zero
    BY <1>1, <1>5, DeltasOf
  <2>2. \A c \in Counters : 0 <= Difference1(All, c) /\ zero[c] = 0
    BY <1>1, CurrentCounts, Zeros
  <2>3. CountRight(All, zero)
    BY <1>2, <1>5, <2>2 DEF CountRight
  <2> QED BY <2>1, <2>3, Zeros DEF DeltaRight
<1> QED BY <1>4, <1>5

LEMMA NginxRight ==
    ASSUME RateInv, kind = "nginx"
    PROVE  DeltaRight(All, NginxDeltas(All))
<1>1. Current(All) /\ \A c \in Counters : All[c].read
  BY AtOnce
<1>2. /\ prev["a"].read = prev["b"].read /\ kind \notin Maps \union {"cpu"}
      /\ SameRun(All, "a") <=> SameRun(All, "b")
  BY AtOnce DEF RateInv, ReadTogether, Maps, SameRun
<1>3. \A c \in Counters : Difference1(All, c) \in Nat /\ zero[c] = 0
  BY <1>1, CurrentCounts, Zeros
<1>4. ASSUME prev["a"].value > 0, NEW c \in Counters
      PROVE  /\ prev[c].read
             /\ SameRun(All, c) =>
                    All[c].value >= prev[c].value /\ All["a"].value >= prev["a"].value
             /\ All[c].value >= prev[c].value =>
                    Wrapped(All[c], prev[c]) <= Difference1(All, c)
             /\ SameRun(All, c) => Wrapped(All[c], prev[c]) = Difference1(All, c)
  <2>1. prev["a"].read /\ prev["b"].read
    BY <1>1, <1>2, <1>4, CurrentCounts, AllAndNone
  <2>2. prev[c].read
    BY <2>1 DEF Counters
  <2>3. ASSUME NEW d \in Counters, SameRun(All, d) PROVE All[d].value >= prev[d].value
    <3>1. prev[d].read
      BY <2>1 DEF Counters
    <3>2. /\ All[d].value = prev[d].value + Difference1(All, d)
          /\ prev[d].value \in Nat /\ Difference1(All, d) \in Nat
      BY <1>1, <2>3, <3>1, CurrentCounts
    <3> QED BY <3>2
  <2>4. SameRun(All, c) => SameRun(All, "a")
    BY <1>2 DEF Counters
  <2>5. SameRun(All, c) =>
            All[c].value >= prev[c].value /\ All["a"].value >= prev["a"].value
    BY <2>3, <2>4, AllAndNone
  <2>6. All[c].value >= prev[c].value =>
            Wrapped(All[c], prev[c]) <= Difference1(All, c)
    BY <1>1, <2>2, CurrentCounts
  <2>7. SameRun(All, c) => Wrapped(All[c], prev[c]) = Difference1(All, c)
    BY <1>1, <2>2, <2>5, CurrentCounts
  <2> QED BY <2>2, <2>5, <2>6, <2>7
<1>5. CASE prev["a"].value > 0 /\ All["a"].value >= prev["a"].value
  <2>1. \A c \in Counters : NginxDeltas(All)[c] = Wrapped(All[c], prev[c])
    BY <1>5 DEF NginxDeltas
  <2>2. ASSUME NEW c \in Counters
        PROVE  /\ NginxDeltas(All)[c] <= Difference1(All, c) \/ (c = "b" /\ ~SameRun(All, c))
               /\ SameRun(All, c) => NginxDeltas(All)[c] = Difference1(All, c)
    <3>1. CASE c = "a"
      BY <1>4, <1>5, <2>1, <3>1
    <3>2. CASE c = "b"
      BY <1>4, <1>5, <2>1, <3>2
    <3> QED BY <3>1, <3>2 DEF Counters
  <2>3. CountRight(All, NginxDeltas(All))
    BY <2>2 DEF CountRight
  <2>4. \A c \in Counters : prev[c].read
    BY <1>4, <1>5
  <2> QED BY <1>1, <2>3, <2>4, DeltasOf, AllAndNone DEF DeltaRight, Databases
<1>6. CASE ~(prev["a"].value > 0 /\ All["a"].value >= prev["a"].value)
  <2>1. NginxDeltas(All) = zero
    BY <1>6 DEF NginxDeltas, zero
  <2>2. CountRight(All, zero)
    BY <1>2, <1>3, <1>4, <1>6 DEF CountRight
  <2> QED BY <2>1, <2>2, Zeros DEF DeltaRight
<1> QED BY <1>5, <1>6

LEMMA ServerRight ==
    ASSUME RateInv, kind \in {"apache2"} \union Databases, NEW cur, Current(cur)
    PROVE  DeltaRight(cur, ServerDeltas(cur))
<1>1. /\ kind \notin Maps \union {"cpu"}
      /\ kind # "postgres" => prev["a"].read = prev["b"].read
  BY DEF RateInv, ReadTogether, Maps, Databases
<1>2. \A c \in Counters : Difference1(cur, c) \in Nat /\ zero[c] = 0
  BY CurrentCounts, Zeros
<1>3. CASE prev["a"].value > 0
  <2>1. ServerDeltas(cur) = Difference(cur) /\ prev["a"].read
    BY <1>3, CurrentCounts, AllAndNone DEF ServerDeltas
  <2>2. ASSUME NEW c \in Counters
        PROVE  /\ \/ ServerDeltas(cur)[c] <= Difference1(cur, c)
                  \/ c = "b" /\ kind = "postgres" /\ ~prev[c].read
               /\ prev[c].read /\ cur[c].read /\ SameRun(cur, c) =>
                      ServerDeltas(cur)[c] = Difference1(cur, c)
    <3>1. prev[c].read \/ (c = "b" /\ kind = "postgres" /\ ~prev[c].read)
      BY <1>1, <2>1 DEF Counters
    <3> QED BY <2>1, <3>1, CurrentCounts
  <2>3. CountRight(cur, ServerDeltas(cur))
    BY <2>2 DEF CountRight
  <2> QED BY <2>1, <2>3, DeltasOf, AllAndNone DEF DeltaRight
<1>4. CASE ~(prev["a"].value > 0)
  <2>1. ServerDeltas(cur) = zero
    BY <1>4, DeltasOf
  <2>2. CountRight(cur, zero)
    BY <1>1, <1>2, <1>4 DEF CountRight, Databases
  <2> QED BY <2>1, <2>2, Zeros DEF DeltaRight
<1> QED BY <1>3, <1>4
-----------------------------------------------------------------------------
(* The collectors.                                                         *)

Right == RateInv /\ ShownRight

LEMMA NothingIsRight == shown' = Nothing => ShownRight'
BY DEF Nothing, ShownRight, RateIsCount, RateOverItsTime, NoRateAfterLoss

\* Where all readings are replaced.
LEMMA TakeInv ==
    ASSUME RateInv, step # "idle", Done, NEW cur, Current(cur), Take(cur),
           kind \notin {"tcp", "container", "postgres"} =>
               /\ cur["a"].read = cur["b"].read
               /\ kind # "mysql" => /\ cur["a"].cpus = cur["b"].cpus
                                    /\ cur["a"].faults = cur["b"].faults
    PROVE  RateInv' /\ kind' = kind
<1>1. /\ prev' = cur /\ lost' = FALSE /\ db' = db /\ kind' = kind
  BY DEF Take, Done, source
<1>2. db' \in BOOLEAN /\ lost' \in BOOLEAN /\ prev' \in [Counters -> Readings]
  BY <1>1 DEF RateInv, CollectorTypeOK, Current
<1>3. \A c \in Counters : /\ Sound(prev'[c])
                          /\ Behind(prev'[c], counters[c], total[c], faults, kind)
                          /\ prev'[c].start = prevTime
  BY <1>1 DEF Current
<1>4. ReadTogether'
  BY <1>1 DEF ReadTogether
<1> QED BY <1>1, <1>2, <1>3, <1>4, DoneInv

\* Where all of them stay.
LEMMA KeepInv ==
    ASSUME RateInv, step # "idle", Done, UNCHANGED <<prev, db, lost>>,
           kind \notin Forgetful
    PROVE  RateInv' /\ kind' = kind
<1>1. kind' = kind /\ prev' = prev /\ lost' = lost /\ db' = db
  BY DEF Done, source
<1>2. /\ db' \in BOOLEAN /\ lost' \in BOOLEAN /\ prev' \in [Counters -> Readings]
      /\ \A c \in Counters : /\ Sound(prev'[c])
                             /\ Behind(prev'[c], counters[c], total[c], faults, kind)
  BY <1>1 DEF RateInv, CollectorTypeOK, CountersGoOn
<1>3. ReadTogether'
  BY <1>1 DEF RateInv, ReadTogether
<1>4. lost' => kind \in Databases /\ ~prev'["a"].read
  BY <1>1 DEF RateInv, TimesAgree
<1> QED BY <1>1, <1>2, <1>3, <1>4, DoneInv

LEMMA TakeAllRight ==
    ASSUME RateInv, NEW delta, NEW over, TakeAll(delta, over), DeltaRight(All, delta),
           kind # "cpu" => over = Elapsed,
           kind = "cpu" /\ delta # zero =>
               \/ \A c \in Counters : ~SameRun(All, c)
               \/ over = Difference1(All, "a") + Difference1(All, "b")
    PROVE  Right'
<1>1. step # "idle" /\ Done /\ Show(All, delta, over) /\ Take(All)
  BY DEF TakeAll
<1>2. Current(All) /\ All["a"].read = All["b"].read /\ All["a"].cpus = All["b"].cpus
      /\ All["a"].faults = All["b"].faults
  <2>1. All["a"].read \in BOOLEAN /\ All["b"].read \in BOOLEAN
    BY AtOnce, AllAndNone DEF Current, Readings
  <2> QED BY <2>1, AtOnce, AllAndNone
<1>3. RateInv' /\ kind' = kind
  BY <1>1, <1>2, TakeInv
<1>4. ShownRight'
  BY <1>1, <1>2, <1>3, RightRates
<1> QED BY <1>3, <1>4 DEF Right

LEMMA MissRight ==
    ASSUME RateInv, Miss, kind \notin Forgetful
    PROVE  Right'
BY KeepInv, NothingIsRight DEF Miss, Right

LEMMA BlankRight ==
    ASSUME RateInv, Blank, kind \notin Forgetful
    PROVE  Right'
<1>1. /\ step # "idle" /\ Done /\ Show(None, zero, Elapsed) /\ UNCHANGED <<prev, db, lost>>
  BY DEF Blank
<1>2. RateInv' /\ kind' = kind
  BY <1>1, KeepInv
<1>3. Current(None) /\ DeltaRight(None, zero)
  BY AtOnce, ZeroRight
<1>4. ShownRight'
  BY <1>1, <1>2, <1>3, RightRates
<1> QED BY <1>2, <1>4 DEF Right

\* Where nothing could be read, and that is what is remembered.
LEMMA NoneTaken ==
    ASSUME RateInv, step = "first", Done, Take(None)
    PROVE  RateInv' /\ kind' = kind
<1>1. /\ Current(None) /\ None["a"].read = None["b"].read
      /\ None["a"].cpus = None["b"].cpus /\ None["a"].faults = None["b"].faults
  <2>1. None["a"].read \in BOOLEAN /\ None["b"].read \in BOOLEAN
    BY AtOnce, AllAndNone DEF Current, Readings
  <2> QED BY <2>1, AtOnce, AllAndNone
<1> QED BY <1>1, TakeInv

LEMMA ReadDevicesRight ==
    ASSUME RateInv, kind \in {"network", "disk"}, ReadDevices
    PROVE  Right'
<1>1. CASE TakeAll(DeviceDeltas(All), Elapsed)
  <2>1. DeltaRight(All, DeviceDeltas(All))
    BY AtOnce, DevicesRight DEF Maps
  <2> QED BY <1>1, <2>1, TakeAllRight
<1>2. CASE step = "first" /\ Done /\ shown' = Nothing /\ Take(None)
  BY <1>2, NoneTaken, NothingIsRight DEF Right
<1> QED BY <1>1, <1>2 DEF ReadDevices

LEMMA CollectTCPRight == ASSUME RateInv, CollectTCP PROVE RateInv' /\ (ShownRight => ShownRight')
<1>1. kind = "tcp"
  BY DEF CollectTCP
<1>2. ASSUME NEW r \in {Reading("a"), Unread("a")}, Then(r), UNCHANGED <<prev, db, lost>>
      PROVE  RateInv' /\ (ShownRight => ShownRight')
  <2>1. RateInv'
    <3>1. prev' = prev /\ lost' = lost /\ db' \in BOOLEAN /\ lost' \in BOOLEAN
      BY <1>2 DEF RateInv, CollectorTypeOK
    <3> QED BY <1>1, <1>2, <3>1, ThenInv DEF Databases
  <2>2. shown' = shown /\ kind' = kind
    BY <1>2 DEF Then, source
  <2> QED BY <2>1, <2>2 DEF ShownRight, RateIsCount, RateOverItsTime, NoRateAfterLoss,
           Counted, Spikes, Continues, Interrupted
<1>3. ASSUME step = "second", Done, NEW r \in {Reading("b"), Unread("b")},
             NEW cur, cur = [All EXCEPT !["a"] = first, !["b"] = r],
             Show(cur, TCPDeltas(cur), Elapsed), Take(cur)
      PROVE  Right'
  <2>1. Current(cur)
    BY <1>3, OneByOne
  <2>2. RateInv' /\ kind' = kind
    BY <1>1, <1>3, <2>1, TakeInv
  <2>3. DeltaRight(cur, TCPDeltas(cur))
    BY <1>1, <2>1, TCPRight
  <2>4. ShownRight'
    BY <1>1, <1>3, <2>1, <2>2, <2>3, RightRates
  <2> QED BY <2>2, <2>4 DEF Right
<1> QED BY <1>2, <1>3 DEF CollectTCP, Right

LEMMA CollectGPURight == ASSUME RateInv, CollectGPU PROVE Right'
<1>1. kind = "gpu" /\ kind \notin Forgetful
  BY DEF CollectGPU, Forgetful
<1>2. ASSUME NEW delta, delta = [DeviceDeltas(All) EXCEPT !["b"] = 0],
             TakeAll(delta, Elapsed)
      PROVE  Right'
  <2>1. DeltaRight(All, delta)
    BY <1>1, <1>2, AtOnce, DevicesRight DEF Maps
  <2> QED BY <1>1, <1>2, <2>1, TakeAllRight
<1>3. CASE Blank
  BY <1>1, <1>3, BlankRight
<1> QED BY <1>2, <1>3 DEF CollectGPU

LEMMA CollectCPURight == ASSUME RateInv, CollectCPU PROVE Right'
<1>1. kind = "cpu" /\ kind \notin Forgetful
  BY DEF CollectCPU, Forgetful
<1>2. CASE TakeAll(CPUDeltas(All), Ticks(All) - Ticks(prev))
  BY <1>1, <1>2, CPURight, TakeAllRight
<1>3. CASE Blank
  BY <1>1, <1>3, BlankRight
<1> QED BY <1>2, <1>3 DEF CollectCPU

LEMMA CollectSelfRight == ASSUME RateInv, CollectSelf PROVE Right'
<1>1. kind = "self" /\ kind \notin Forgetful
  BY DEF CollectSelf, Forgetful
<1>2. CASE TakeAll(SelfDeltas(All), Elapsed)
  BY <1>1, <1>2, SelfRight, TakeAllRight
<1>3. CASE Blank
  BY <1>1, <1>3, BlankRight
<1> QED BY <1>2, <1>3 DEF CollectSelf

LEMMA CollectNginxRight == ASSUME RateInv, CollectNginx PROVE Right'
<1>1. kind = "nginx" /\ kind \notin Forgetful
  BY DEF CollectNginx, Forgetful
<1>2. CASE TakeAll(NginxDeltas(All), Elapsed)
  BY <1>1, <1>2, NginxRight, TakeAllRight
<1>3. CASE Miss
  BY <1>1, <1>3, MissRight
<1> QED BY <1>2, <1>3 DEF CollectNginx

LEMMA CollectApache2Right == ASSUME RateInv, CollectApache2 PROVE Right'
<1>1. kind = "apache2" /\ kind \notin Forgetful
  BY DEF CollectApache2, Forgetful
<1>2. CASE TakeAll(ServerDeltas(All), Elapsed)
  BY <1>1, <1>2, AtOnce, ServerRight, TakeAllRight
<1>3. CASE /\ step = "first" /\ Done
           /\ Show(None, ServerDeltas(None), Elapsed) \/ shown' = Nothing
           /\ Take(None)
  <2>1. RateInv' /\ kind' = kind
    BY <1>3, NoneTaken
  <2>2. CASE Show(None, ServerDeltas(None), Elapsed)
    <3>1. Current(None) /\ DeltaRight(None, ServerDeltas(None))
      BY <1>1, AtOnce, ServerRight
    <3>2. step # "idle"
      BY <1>3
    <3>3. ShownRight'
      BY <1>1, <2>1, <2>2, <3>1, <3>2, RightRates
    <3> QED BY <2>1, <3>3 DEF Right
  <2>3. CASE shown' = Nothing
    BY <2>1, <2>3, NothingIsRight DEF Right
  <2> QED BY <1>3, <2>2, <2>3
<1>4. CASE Miss
  BY <1>1, <1>4, MissRight
<1> QED BY <1>2, <1>3, <1>4 DEF CollectApache2

\* A container keeps what could not be read, counter by counter.
LEMMA CollectContainerRight ==
    ASSUME RateInv, CollectContainer PROVE RateInv' /\ (ShownRight => ShownRight')
<1>1. kind = "container" /\ kind \notin Forgetful /\ kind \notin Databases /\ kind \in Maps
  BY DEF CollectContainer, Forgetful, Databases, Maps
<1>2. CASE Miss
  BY <1>1, <1>2, MissRight DEF Right
<1>3. ASSUME NEW r \in {Reading("a"), Unread("a")}, Then(r), UNCHANGED <<prev, db, lost>>
      PROVE  RateInv' /\ (ShownRight => ShownRight')
  <2>1. RateInv'
    <3>1. prev' = prev /\ lost' = lost /\ db' \in BOOLEAN /\ lost' \in BOOLEAN
      BY <1>3 DEF RateInv, CollectorTypeOK
    <3> QED BY <1>1, <1>3, <3>1, ThenInv
  <2>2. shown' = shown /\ kind' = kind
    BY <1>3 DEF Then, source
  <2> QED BY <2>1, <2>2 DEF ShownRight, RateIsCount, RateOverItsTime, NoRateAfterLoss,
           Counted, Spikes, Continues, Interrupted
<1>4. ASSUME step = "second", Done, NEW r \in {Reading("b"), Unread("b")},
             NEW cur, cur = [All EXCEPT !["a"] = first, !["b"] = r],
             Show(cur, DeviceDeltas(cur), Elapsed),
             Take([c \in Counters |-> IF cur[c].read THEN cur[c] ELSE prev[c]])
      PROVE  Right'
  <2>1. Current(cur)
    BY <1>4, OneByOne
  <2>2. /\ \A c \in Counters : prev'[c] = IF cur[c].read THEN cur[c] ELSE prev[c]
        /\ lost' = FALSE /\ db' = db /\ kind' = kind
        /\ prev' = [c \in Counters |-> prev'[c]]
    BY <1>4 DEF Take, Done, source
  <2>3. /\ db' \in BOOLEAN /\ lost' \in BOOLEAN
        /\ \A c \in Counters :
               /\ Sound(prev'[c]) /\ prev'[c] \in Readings
               /\ Behind(prev'[c], counters[c], total[c], faults, kind)
               /\ prev'[c].start = prevTime \/ prev'[c] = prev[c]
    BY <2>1, <2>2 DEF RateInv, CollectorTypeOK, CountersGoOn, Current
  <2>4. prev' \in [Counters -> Readings]
    BY <2>2, <2>3
  <2>5. ReadTogether'
    BY <1>1, <2>2 DEF ReadTogether
  <2>6. RateInv'
    BY <1>1, <1>4, <2>2, <2>3, <2>4, <2>5, DoneInv
  <2>7. DeltaRight(cur, DeviceDeltas(cur))
    BY <1>1, <2>1, DevicesRight
  <2>8. ShownRight'
    BY <1>1, <1>4, <2>1, <2>2, <2>7, RightRates
  <2> QED BY <2>6, <2>8 DEF Right
<1> QED BY <1>2, <1>3, <1>4 DEF CollectContainer, Right

\* A connection that is lost takes the readings with it.
LEMMA AskRight ==
    ASSUME RateInv, kind \in Databases, Ask
    PROVE  RateInv' /\ (ShownRight => ShownRight')
<1>1. PICK pings, again \in BOOLEAN :
          /\ Connect(pings, again)
          /\ \/ db' /\ Then(Reading("a"))
             \/ step = "first" /\ Done /\ shown' = Nothing
  BY DEF Ask
<1>2. /\ db' \in BOOLEAN /\ lost' \in BOOLEAN
      /\ \/ prev' = prev /\ lost' = lost
         \/ prev' = None
  BY <1>1 DEF Connect, RateInv, CollectorTypeOK
<1>3. kind \notin Forgetful
  BY DEF Databases, Forgetful
<1>4. CASE Then(Reading("a"))
  <2>1. RateInv'
    BY <1>2, <1>4, ThenInv
  <2>2. shown' = shown /\ kind' = kind
    BY <1>4 DEF Then, source
  <2> QED BY <2>1, <2>2 DEF ShownRight, RateIsCount, RateOverItsTime, NoRateAfterLoss,
           Counted, Spikes, Continues, Interrupted
<1>5. CASE step = "first" /\ Done /\ shown' = Nothing
  <2>1. step # "idle" /\ kind' = kind
    BY <1>5 DEF Done, source
  <2>2. Current(None) /\ ~None["a"].read /\ ~None["b"].read
        /\ None["a"].read = None["b"].read
    <3>1. None["a"].read \in BOOLEAN /\ None["b"].read \in BOOLEAN
      BY AtOnce, AllAndNone DEF Current, Readings
    <3> QED BY <3>1, AtOnce, AllAndNone
  <2>3. CASE prev' = prev /\ lost' = lost
    <3>1. ReadTogether' /\ (lost' => kind \in Databases /\ ~prev'["a"].read)
      BY <2>1, <2>3 DEF RateInv, ReadTogether, TimesAgree
    <3>2. /\ prev' \in [Counters -> Readings]
          /\ \A c \in Counters :
                 Sound(prev'[c]) /\ Behind(prev'[c], counters[c], total[c], faults, kind)
      BY <2>3 DEF RateInv, CollectorTypeOK, CountersGoOn
    <3>3. RateInv'
      BY <1>2, <1>3, <1>5, <2>1, <2>3, <3>1, <3>2, DoneInv
    <3> QED BY <1>5, <3>3, NothingIsRight
  <2>4. CASE prev' = None
    <3>1. ReadTogether' /\ (lost' => kind \in Databases /\ ~prev'["a"].read)
      BY <2>1, <2>2, <2>4, AtOnce DEF ReadTogether
    <3>2. /\ prev' \in [Counters -> Readings]
          /\ \A c \in Counters :
                 /\ Sound(prev'[c])
                 /\ Behind(prev'[c], counters[c], total[c], faults, kind)
                 /\ prev'[c].start = prevTime
      BY <2>2, <2>4 DEF Current
    <3>3. RateInv'
      BY <1>2, <1>5, <2>1, <3>1, <3>2, DoneInv
    <3> QED BY <1>5, <3>3, NothingIsRight
  <2> QED BY <1>2, <2>3, <2>4
<1> QED BY <1>1, <1>4, <1>5

LEMMA AnswerRight ==
    ASSUME RateInv, kind \in Databases, NEW r \in {Reading("b"), Unread("b")}, Answer(r),
           kind = "mysql" => r = Reading("b")
    PROVE  Right'
<1>1. PICK cur : cur = [All EXCEPT !["a"] = first, !["b"] = r]
  OBVIOUS
<1>2. /\ step = "second" /\ Done
      /\ Show(cur, ServerDeltas(cur), Elapsed) /\ Take(cur)
  BY <1>1 DEF Answer
<1>3. Current(cur) /\ cur["a"] = first /\ cur["b"] = r
  BY <1>1, <1>2, OneByOne
<1>4. kind = "mysql" => cur["a"].read = cur["b"].read
  <2>1. first.read \in BOOLEAN /\ first.read
    BY <1>2 DEF RateInv, CountersGoOn, Sound, Readings
  <2>2. Reading("b").read = TRUE
    BY DEF Reading
  <2> QED BY <1>3, <2>1, <2>2
<1>5. RateInv' /\ kind' = kind
  <2>1. kind \in {"postgres", "mysql"} /\ step # "idle"
    BY <1>2 DEF Databases
  <2> QED BY <1>2, <1>3, <1>4, <2>1, TakeInv
<1>6. DeltaRight(cur, ServerDeltas(cur))
  BY <1>3, ServerRight
<1>7. ShownRight'
  <2>1. kind # "cpu" /\ step # "idle"
    BY <1>2 DEF Databases
  <2> QED BY <1>2, <1>3, <1>5, <1>6, <2>1, RightRates
<1> QED BY <1>5, <1>7 DEF Right
-----------------------------------------------------------------------------
(* The theorems.                                                           *)

LEMMA StepRight ==
    ASSUME Right, Next PROVE Right'
<1>1. RateInv /\ ShownRight
  BY DEF Right
<1>2. ASSUME (\E c \in Counters : Count(c)) \/ Restart \/ StepBack \/ Hotplug \/ Tick
      PROVE  Right'
  <2>1. RateInv'
    BY <1>1, <1>2, SourceInv
  <2>2. shown' = shown /\ kind' = kind
    BY <1>2 DEF Count, Restart, StepBack, Hotplug, Tick, collector
  <2> QED BY <1>1, <2>1, <2>2 DEF Right, ShownRight, RateIsCount, RateOverItsTime,
           NoRateAfterLoss, Counted, Spikes, Continues, Interrupted
<1>3. CASE Begin
  <2>1. RateInv' /\ shown' = Nothing
    BY <1>1, <1>3, BeginInv DEF Begin
  <2> QED BY <2>1, NothingIsRight DEF Right
<1>4. CASE Collect
  <2>1. CASE CollectNetwork \/ CollectDisks
    BY <1>1, <2>1, ReadDevicesRight DEF CollectNetwork, CollectDisks
  <2>2. CASE CollectTCP
    BY <1>1, <2>2, CollectTCPRight DEF Right
  <2>3. CASE CollectCPU \/ CollectSelf \/ CollectGPU \/ CollectNginx \/ CollectApache2
    BY <1>1, <2>3, CollectCPURight, CollectSelfRight, CollectGPURight,
       CollectNginxRight, CollectApache2Right
  <2>4. CASE CollectContainer
    BY <1>1, <2>4, CollectContainerRight DEF Right
  <2>5. CASE CollectPostgres
    <3>1. kind = "postgres" /\ kind \in Databases
      BY <2>5 DEF CollectPostgres, Databases
    <3> QED BY <1>1, <2>5, <3>1, AskRight, AnswerRight DEF CollectPostgres, Right
  <2>6. CASE CollectMysql
    <3>1. kind \in Databases
      BY <2>6 DEF CollectMysql, Databases
    <3> QED BY <1>1, <2>6, <3>1, AskRight, AnswerRight DEF CollectMysql, Right
  <2> QED BY <1>4, <2>1, <2>2, <2>3, <2>4, <2>5, <2>6 DEF Collect
<1> QED BY <1>2, <1>3, <1>4 DEF Next

\* The invariant and the three properties together.
LEMMA AlwaysRight == Spec => []Right
<1>1. Init => Right
  <2>1. ASSUME Init PROVE RateIsCount /\ RateOverItsTime /\ NoRateAfterLoss
    BY <2>1 DEF Init, Nothing, RateIsCount, RateOverItsTime, NoRateAfterLoss
  <2> QED BY <2>1, InitInv DEF Right, ShownRight
<1>2. Right /\ [Next]_vars => Right'
  <2>1. ASSUME Right, UNCHANGED vars PROVE Right'
    BY <2>1 DEF Right, vars, source, collector, RateInv, CollectorTypeOK, CountersGoOn,
       ReadTogether, TimesAgree, Before, StepsOfKind, ShownRight, RateIsCount,
       RateOverItsTime, NoRateAfterLoss, Counted, Spikes, Continues, Interrupted
  <2> QED BY <2>1, StepRight
<1> QED BY <1>1, <1>2, PTL DEF Spec

\* Every reading that a collector keeps is at or before the counter it was taken of,
\* which went on from it unless the source was interrupted (prevNet, prevTCP,
\* pc.prev, ...): the inductive invariant.
THEOREM ReadingsAgree == Spec => []RateInv
<1>1. Right => RateInv
  BY DEF Right
<1> QED BY <1>1, AlwaysRight, PTL

\* Whatever restarts, steps back, is late or does not answer, a rate is made of at
\* most what the source counted between two readings, but for a restart of nginx
\* and for buffers of PostgreSQL after a failed query; and of all of it where the
\* counter goes on from a reading (collectNetwork, collectTCPStats, calculateStats,
\* parseNginxStatus, readCPUUsage, ...).
THEOREM RatesAreCounts == Spec => []RateIsCount
<1>1. Right => RateIsCount
  BY DEF Right, ShownRight
<1> QED BY <1>1, AlwaysRight, PTL

\* However late the sources answer, the time a rate is divided by is the one between
\* its two readings but for how late each came after the start of its collection,
\* and shorter where collections in between could not read (Collector.Collect).
THEOREM RatesOverTheirTime == Spec => []RateOverItsTime
<1>1. Right => RateOverItsTime
  BY DEF Right, ShownRight
<1> QED BY <1>1, AlwaysRight, PTL

\* A connection that the ping finds lost makes the next rates of a database zero
\* (connect).
THEOREM NoRatesAfterLoss == Spec => []NoRateAfterLoss
<1>1. Right => NoRateAfterLoss
  BY DEF Right, ShownRight
<1> QED BY <1>1, AlwaysRight, PTL
=============================================================================
