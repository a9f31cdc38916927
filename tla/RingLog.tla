------------------------------ MODULE RingLog -------------------------------
(***************************************************************************)
(* What a tier promises its users, with no file, offsets or wrapping: a    *)
(* log of timestamps that grows at its end and loses records at its        *)
(* beginning only.  Losing everything at a restart is the extreme case.    *)
(***************************************************************************)
EXTENDS Integers, Sequences

CONSTANTS
    Stamps,   \* timestamps a record may have
    MaxEvict  \* most records one append pushes out

VARIABLE kept

Suffix(s, n) == SubSeq(s, n + 1, Len(s))

Append1(ts) ==
    /\ kept # <<>> => kept[Len(kept)] < ts
    /\ \E n \in 0 .. Len(kept) :
           /\ n <= MaxEvict
           /\ kept' = Append(Suffix(kept, n), ts)

\* A failed write that had already wrapped, or a restart.
Lose == \E n \in 1 .. Len(kept) : kept' = Suffix(kept, n)

Init == kept = <<>>

Next == Lose \/ \E ts \in Stamps : Append1(ts)

Spec == Init /\ [][Next]_kept
=============================================================================
