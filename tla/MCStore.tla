------------------------------ MODULE MCStore -------------------------------
(***************************************************************************)
(* Instances of Store for TLC: three tiers of ratio 2 and 2 (a tier-2      *)
(* record is due after four samples), files that wrap before the run ends, *)
(* windows that lie before, across, inside and after the data of a tier.   *)
(***************************************************************************)
EXTENDS Store

\* A read of tier 0 finds all that fits in its file, the last two records, or
\* nothing.
SmallFiles == {f \in [0 .. 2 -> 0 .. 5] :
                  f[0] \in {0, 2, 5} /\ f[1] = 4 /\ f[2] = 3}

\* Reads find all that fits.
WholeFiles == {f \in SmallFiles : f[0] = 5}

AllWindows == {<<1, 4>>, <<1, 9>>, <<3, 5>>, <<5, 9>>, <<8, 14>>}

\* The default, a small number, and one that is cut to MaxPoints.
SomePoints == {0, 1, 9}

Lost == {"lost"}
=============================================================================
