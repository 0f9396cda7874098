-------------------------- MODULE SmallVaultProps --------------------------
(***************************************************************************)
(* What a gcm-only or rs-strong vault has to guarantee.                    *)
(***************************************************************************)
EXTENDS SmallVault

Cells == Symbols \cup {Bad, Sealed, TrailerHead, TrailerEnd}

(* The state has its type, and the cases that could break it do not occur: *)
(* a scrub of a gcm-only vault with slots to write, or one that writes     *)
(* where its reconstruction has no value.                                  *)
TypeOK ==
    /\ scheme \in {"gcm", "rs-strong"} /\ buffered \in 0 .. MaxPlain
    /\ wpc \in {"open", "drained", "done", "failed", "dead"}
    /\ man = NoManifest \/ man.plainSize = buffered
    /\ file \in Seq(Cells) /\ disk \in Seq(Cells)
    /\ opened \in BOOLEAN /\ quiet \in BOOLEAN
    /\ life \in {"new", "settled", "crashed"}
    /\ todo \subseteq Slots
    /\ todo # {} => scheme = "rs-strong" /\ fixed \in [Slots -> Symbols]
    /\ hits \in Nat /\ strays \in Nat /\ faults \in 0 .. MaxFaults

(* What opens is the whole vault Close wrote, up to cells that are visibly *)
(* lost: nothing was cut out of the file or added to it (FORMAT-v3.md says *)
(* that either is seen at once), no trailer was torn or written by a Close *)
(* that failed, the manifest describes exactly the accepted bytes, and no  *)
(* power failure or scrub left other content than the writer's in a cell,  *)
(* unless some content was displaced from outside.                         *)
OpensOnlyWhole ==
    Opens(file) =>
      /\ wpc = "done"
      /\ man.scheme = scheme /\ man.plainSize = buffered
      /\ Len(file) = Len(Body) + Len(Trailer)
      /\ strays = 0 => \A i \in 1 .. Len(Body) : file[i] \in {Body[i], Bad}

(* The vault survives: once it is on the medium, a vault that was hit in   *)
(* at most MStrong slots (none, for gcm-only) opens and loads, however     *)
(* often power fails and scrubs begin, write, are torn or give up in       *)
(* between.  ScrubStrong rewrites the only copy in place.                  *)
VaultSurvives ==
    /\ wpc = "done" /\ life = "settled" /\ strays = 0
    /\ hits <= (IF scheme = "gcm" THEN 0 ELSE MStrong)
    => Opens(file) /\ Loads(file)

(* The same without the history, so that it also covers a vault of which a *)
(* power failure right after Close kept the trailer and some of the body:  *)
(* it loads if it is an rs-strong vault that lacks up to MStrong slots.    *)
MarginHolds ==
    /\ Opens(file) /\ strays = 0
    /\ Cardinality({i \in 1 .. Len(Body) : file[i] = Bad})
         <= (IF scheme = "gcm" THEN 0 ELSE MStrong)
    => Loads(file)

(* A report is the truth about the file in both directions, if no fault    *)
(* comes between: what is called clean, repairable or repaired can be      *)
(* loaded, and what is called lost cannot.  A repaired vault has a valid   *)
(* tag in every slot and, if nothing was displaced, what the writer put    *)
(* there: MStrong further losses are survived again.                       *)
ReportIsTrue ==
    quiet =>
      /\ rep \in {"plaintext", "clean", "repairable", "repaired"} => Loads(file)
      /\ rep \in {"error", "lost"} => ~Loads(file)
      /\ rep = "repaired" =>
           /\ BadSlots(gatherStrongSlots(file)) = {}
           /\ strays = 0 => \A i \in Slots : gatherStrongSlots(file)[i] = Written[i]

\* the data slots have no padding, so decodeStrongArea sees all of them
NoPadding == StrongDataLen(buffered) = KStrong * StrongShardSize(buffered)

(* What ScrubStrong is about to write is what the writer wrote, although   *)
(* the tags do not tell whose payload a slot holds and nothing checks the  *)
(* slots that are computed: with nothing displaced, and with any slots in  *)
(* wrong places if the data area has no padding, because then any other    *)
(* codeword fails to decode before the first write.  With padding it does  *)
(* not hold: from one displaced slot in it the vault is completed to       *)
(* another codeword, which reads back but has lost its redundancy.         *)
RepairsAreTrue ==
    strays = 0 \/ NoPadding => \A i \in todo : fixed[i] = Written[i]

(* No step of a scrub makes a vault unreadable, nor do the torn write and  *)
(* the kill that can end it.  Slots with valid tags in wrong places are    *)
(* allowed, in the padding say, unless damage strikes during the scrub.    *)
ScrubDoesNoHarm ==
    [][todo # {} /\ UNCHANGED <<faults, disk>> /\ (quiet \/ strays = 0) =>
         (Opens(file) /\ Loads(file) => Opens(file') /\ Loads(file'))]_vars
=============================================================================
