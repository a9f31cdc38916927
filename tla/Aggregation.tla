----------------------------- MODULE Aggregation -----------------------------
(***************************************************************************)
(* How samples become the records of the coarser tiers, and records the    *)
(* points of a history answer (internal/storage/store.go): averages, the   *)
(* last value, and element-wise minima and maxima.                         *)
(*                                                                         *)
(* A sample has one field for each way in which its fields are treated:    *)
(* usage stands for what is averaged and has a minimum and maximum, used   *)
(* for gauges with both, irq, running, users, host, retrans and psu for    *)
(* fields that are copied.  Lists hold [name, value] pairs; an application that was not    *)
(* seen is <<>>.  Rates are in hundredths, the unit roundF rounds to.      *)
(***************************************************************************)
EXTENDS Loops

nil == <<>>

\* Seeded mistake: divided by the intervals between the samples.
MeanOfIntervals(values) ==
    LET n == Len(values)
        sum == Total(values)
    IN IF n < 2 THEN sum ELSE (2 * sum + n - 1) \div (2 * (n - 1))

\* roundF(sum / n)
Mean(values) ==
    LET n == Len(values)
        sum == Total(values)
    IN (2 * sum + n) \div (2 * n)

minF(a, b) == IF a < b THEN a ELSE b
maxF(a, b) == IF a > b THEN a ELSE b

\* The function that mergeSample is given.
Extreme(which, a, b) == IF which = "min" THEN minF(a, b) ELSE maxF(a, b)

\* The entries called name, over all lists.
Called(lists, name) ==
    LET all == Joined(lists)
    IN Kept(all, {i \in 1 .. Len(all) : all[i].name = name})

Values(entries) == [i \in 1 .. Len(entries) |-> entries[i].value]

Has(list, name) == \E i \in 1 .. Len(list) : list[i].name = name

\* The entry called name, or the zero value of its type.
Find(list, name) ==
    IF Has(list, name)
    THEN (CHOOSE i \in 1 .. Len(list) :
              /\ list[i].name = name
              /\ \A j \in 1 .. i - 1 : list[j].name # name)
    ELSE 0
ValueIn(list, name) == IF Has(list, name) THEN list[Find(list, name)].value ELSE 0
-----------------------------------------------------------------------------
\* mergeSample: over the devices of a; one that b has not counts as zero there,
\* and one that only b has is left out.
MergeSample(a, b, which) ==
    [a EXCEPT
        !.usage = Extreme(which, @, b.usage),
        !.used = Extreme(which, @, b.used),
        !.disks = [i \in 1 .. Len(@) |->
            [name |-> @[i].name, temps |-> nil,
             value |-> Extreme(which, @[i].value, ValueIn(b.disks, @[i].name))]],
        !.ifaces = [i \in 1 .. Len(@) |->
            [name |-> @[i].name,
             value |-> Extreme(which, @[i].value, ValueIn(b.ifaces, @[i].name))]]]

Merged(samples, which) ==
    LET merged[i \in 0 .. Len(samples)] ==
            IF i = 0 THEN samples[1] ELSE MergeSample(merged[i - 1], samples[i], which)
    IN merged[Len(samples)]

\* Each entry of the last list, averaged over the lists it is in.
MeanByName(last, lists) ==
    [i \in 1 .. Len(last) |->
        [last[i] EXCEPT !.value = Mean(Values(Called(lists, last[i].name)))]]

\* The rates of an application that the last sample has, averaged over the
\* samples that have it; what is no rate is the last one's.
MeanApp(last, seen, rates) ==
    LET with == Kept(seen, {i \in 1 .. Len(seen) : seen[i] # nil})
    IN [k \in 1 .. Len(last) |->
           IF k \in rates THEN Mean([i \in 1 .. Len(with) |-> with[i][k]]) ELSE last[k]]

\* Each group of the last sample, metric by metric.
MeanCustom(last, seen) ==
    [g \in DOMAIN last |->
        LET with == Kept(seen, {i \in 1 .. Len(seen) : g \in DOMAIN seen[i]})
        IN MeanByName(last[g], [i \in 1 .. Len(with) |-> with[i][g]])]

\* Data of aggregateSamples.
Average(samples) ==
    LET n == Len(samples)
        last == samples[n]
        Of(Field(_)) == [i \in 1 .. n |-> Field(samples[i])]
    IN [last EXCEPT
           !.usage = Mean(Of(LAMBDA s : s.usage)),
           !.sensors = MeanByName(@, Of(LAMBDA s : s.sensors)),
           !.ifaces = MeanByName(@, Of(LAMBDA s : s.ifaces)),
           !.disks = MeanByName(@, Of(LAMBDA s : s.disks)),
           !.nginx = MeanApp(@, Of(LAMBDA s : s.nginx), {1}),
           !.containers = MeanByName(@, Of(LAMBDA s : s.containers)),
           !.postgres = MeanApp(@, Of(LAMBDA s : s.postgres), {1, 2}),
           !.mysql = MeanApp(@, Of(LAMBDA s : s.mysql), {1}),
           !.apache2 = MeanApp(@, Of(LAMBDA s : s.apache2), {1}),
           !.custom = MeanCustom(@, Of(LAMBDA s : s.custom))]

\* aggregateSamples
AggregateSamples(samples) ==
    LET n == Len(samples)
    IN [ts |-> samples[n].ts,
        data |-> IF n = 1 THEN samples[1] ELSE Average(samples),
        min |-> IF n = 1 THEN samples[1] ELSE Merged(samples, "min"),
        max |-> IF n = 1 THEN samples[1] ELSE Merged(samples, "max")]

\* Seeded mistake: the extremes of the averages.
AggregateAggregatedFlat(records) ==
    AggregateSamples([i \in 1 .. Len(records) |-> records[i].data])

\* aggregateAggregated: minima of minima and maxima of maxima; a raw sample is
\* its own minimum and maximum.
AggregateAggregated(records) ==
    LET raw == \A i \in 1 .. Len(records) : records[i].min = nil /\ records[i].max = nil
        Each(Of(_)) == [i \in 1 .. Len(records) |->
                           IF Of(records[i]) = nil THEN records[i].data ELSE Of(records[i])]
    IN [AggregateSamples([i \in 1 .. Len(records) |-> records[i].data]) EXCEPT
           !.min = IF raw THEN @ ELSE Merged(Each(LAMBDA r : r.min), "min"),
           !.max = IF raw THEN @ ELSE Merged(Each(LAMBDA r : r.max), "max")]
=============================================================================
