---------------------------- MODULE ScrubProps ----------------------------
(***************************************************************************)
(* What Verify and Scrub have to guarantee.                                *)
(***************************************************************************)
EXTENDS Scrub

(* The state of a run has its type.  What could break it: a window index   *)
(* that runs past the last one, a chunk given up twice, a rebuilt slot     *)
(* that no code of its group allows.                                       *)
TypeOK ==
    /\ BodyTypeOK
    /\ pc \in {"idle", "pass1", "pass2", "pass3", "pass3write", "done", "failed"}
    /\ writes \in BOOLEAN /\ rebuildParity \in BOOLEAN /\ quiet \in BOOLEAN
    /\ idx \in 0..ChunkCount /\ grp \in 0..GroupCount(ChunkCount)
    /\ win \in Windows /\ par \in Nat
    /\ needFile \subseteq Chunks /\ lostSet \subseteq needFile
    /\ rep.lost \subseteq Chunks
    /\ runs \in 0..MaxRuns /\ hits \in 0..MaxHits /\ corrupt \in 0..MaxCorrupt

(* The identity scrub.go states for every report: each chunk is clean,     *)
(* repaired, rebuilt or lost, and in one list only, whichever passes it    *)
(* went through and whatever was damaged on the way.                       *)
ReportAddsUp ==
    pc \in {"pass3", "pass3write", "done"} =>
      /\ rep.clean + rep.repaired + rep.rebuilt + rep.lostLen = ChunkCount
      /\ Cardinality(rep.lost) = rep.lostLen

(* A step of Verify or Scrub never makes a chunk unreadable that could be  *)
(* read before it, at any write, and also when the run is cut short there, *)
(* as long as every damage so far is one the tags detect (corrupt = 0).    *)
(* Padding slots are covered by a tag only: a payload forged in one of     *)
(* them lies idle until repairs around it make it a source of a rebuild.   *)
RepairDoesNoHarm ==
    [][corrupt = 0 /\ UNCHANGED <<hits, corrupt>> =>
         \A i \in Chunks : Loads(i) => Loads(i)']_vars

(* Scrub writes only what the writer would have written: from damage that  *)
(* the tags detect no repair, rebuild or parity pass forges a payload with *)
(* a valid tag.                                                            *)
NothingForged ==
    corrupt = 0 =>
      /\ \A i \in Chunks, s \in Slots : data[i][s] # Wrong
      /\ \A g \in Groups : \A p \in 0 .. ParityOf(g) - 1 : \A s \in Slots :
           parity[g][p][s] \in {BadColumn, TrueColumn(g)}

(* A Scrub that returns, with no damage while it ran, leaves every chunk   *)
(* it does not report lost whole, and with RebuildParity the parity of     *)
(* every group without a lost chunk too: the next damage meets the full    *)
(* redundancy again.  The damage it repairs is one the tags detect         *)
(* (corrupt = 0); a slot forged with its tag stays.                        *)
ScrubHeals ==
    pc = "done" /\ writes /\ quiet /\ corrupt = 0 =>
      /\ \A i \in Chunks \ rep.lost : \A s \in Slots : data[i][s] = True
      /\ rebuildParity =>
           \A g \in Groups : ChunksOf(g) \cap rep.lost = {} =>
             \A p \in 0 .. ParityOf(g) - 1 : \A s \in Slots :
               parity[g][p][s] = TrueColumn(g)

(* The good news of a report is true: a chunk that Verify or Scrub does    *)
(* not report lost can be read, if the tags detect every damage.           *)
UnreadableIsReported ==
    pc = "done" /\ quiet /\ corrupt = 0 =>
      \A i \in Chunks : Loads(i) \/ i \in rep.lost

(* What file-level parity is for: a vault in which no more blobs were hit  *)
(* than a group has parity blobs, whichever and wherever, loads every      *)
(* chunk of the group, at any write of any run, after any run that was cut *)
(* short, and with damage that came while a run was under way.             *)
VaultSurvives ==
    corrupt = 0 =>
      \A i \in Chunks : hits <= ParityOf(GroupOf(i)) => Loads(i)

-----------------------------------------------------------------------------
(* The bad news is true: a chunk reported lost cannot be read              *)
(* (unit/scrub_test.go reads the lost chunks and expects an error).        *)
LostIsUnreadable ==
    pc = "done" /\ quiet => \A i \in rep.lost : ~Loads(i)

(* scrub.go of Options.RebuildParity: the parity of a group with a lost    *)
(* chunk is left as it is.                                                 *)
LostGroupsSkipped ==
    [][UNCHANGED <<hits, corrupt>> =>
         \A g \in Groups : parity'[g] # parity[g] => ChunksOf(g) \cap rep.lost = {}]_vars

(* scrub.go of Report: what Verify reports repairable or rebuildable is    *)
(* what a Scrub of the same file repairs or rebuilds, so both lose the     *)
(* same chunks.                                                            *)
VerifyPredictsScrub ==
    pc = "done" /\ writes /\ quiet /\ verified.known => rep.lost = verified.lost
=============================================================================
