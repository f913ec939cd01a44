----------------------------- MODULE MCAdoption -----------------------------
(***************************************************************************)
(* Instances of Adoption for TLC: every selector matches every inventory.  *)
(***************************************************************************)
EXTENDS Adoption, TLC

CONSTANTS i1, i2, s1, s2

AllMatch == Selectors \X Inventories

SelectorSymmetry == Permutations(Selectors)
InventorySymmetry == Permutations(Inventories)
=============================================================================
