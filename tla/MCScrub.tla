------------------------------ MODULE MCScrub ------------------------------
(* Small instances of Scrub for TLC.                                       *)
EXTENDS ScrubProps

MCSpecV2 == SpecV2
MCSpecV3 == SpecV3(2)
=============================================================================
