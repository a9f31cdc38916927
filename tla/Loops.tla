------------------------------- MODULE Loops --------------------------------
(***************************************************************************)
(* The loops that the code writes wherever it keeps some elements of a     *)
(* slice (those of a window, those that are newer, those that are recent), *)
(* appends one part after the other, or adds up.                           *)
(***************************************************************************)
EXTENDS Integers, Sequences

\* The loop that appends, in order, the records at the places in keep.
Kept(recs, keep) ==
    LET kept[i \in 0 .. Len(recs)] ==
            IF i = 0 THEN <<>>
            ELSE IF i \in keep THEN Append(kept[i - 1], recs[i])
            ELSE kept[i - 1]
    IN kept[Len(recs)]

\* The loop that appends, in order, the elements of each part.
Joined(parts) ==
    LET joined[i \in 0 .. Len(parts)] ==
            IF i = 0 THEN <<>> ELSE joined[i - 1] \o parts[i]
    IN joined[Len(parts)]

\* The loop that adds up.
Total(values) ==
    LET total[i \in 0 .. Len(values)] ==
            IF i = 0 THEN 0 ELSE total[i - 1] + values[i]
    IN total[Len(values)]
=============================================================================
