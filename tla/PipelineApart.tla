--------------------------- MODULE PipelineApart ----------------------------
(***************************************************************************)
(* The write path with one bit of history: whether two seekWrites, of      *)
(* writeLoop and of parityLoop, have overlapped so far.  The code has no   *)
(* such bit; it separates what the shared file position does to a vault    *)
(* from everything else that could.                                        *)
(***************************************************************************)
EXTENDS PipelineProps

VARIABLE overlapped

apartVars == <<vars, overlapped>>

ApartInit == Init /\ overlapped = FALSE
ApartNext == Next /\ overlapped' = (overlapped \/ ~ SeeksApart')
ApartSpec == ApartInit /\ [][ApartNext]_apartVars

(* The shared file position is the only thing that can spoil a vault of    *)
(* several groups: as long as no two seekWrites have overlapped, a Close   *)
(* that returns nil leaves a complete vault.                               *)
CompleteIfApart == ~ overlapped => VaultComplete
=============================================================================
