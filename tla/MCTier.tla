------------------------------- MODULE MCTier -------------------------------
(***************************************************************************)
(* Instances of Tier for TLC.  Ten cells, a prefix of two cells and        *)
(* records of three and four cells: two or three records fit, the tail of  *)
(* a pass is empty, shorter than a prefix, exactly a prefix or longer, and *)
(* an overwrite may end in the middle of an older record.                  *)
(***************************************************************************)
EXTENDS Tier

Increasing == {1}
MixedLens == {3, 4}
OneLen == {3}
FarFuture == {99}
=============================================================================
