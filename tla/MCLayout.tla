------------------------------ MODULE MCLayout ------------------------------
(* LayoutGrowth with small groups: every size up to a few groups, and      *)
(* every cap a v3 vault can have.                                          *)
EXTENDS LayoutGrowth

MCSpecs == LayoutSpecs
=============================================================================
