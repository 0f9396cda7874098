------------------------------- MODULE Scrub -------------------------------
(***************************************************************************)
(* Verify and Scrub of an rs-dual vault (scrub.go, internal/engine/        *)
(* scrub.go): three passes over the body of Container, while the medium    *)
(* may damage it at any moment.                                            *)
(*   pass 1  each chunk: repair inside the blob, decode, write back        *)
(*   pass 2  each group: rebuild the blobs pass 1 could not repair         *)
(*   pass 3  each group without a lost chunk: recompute the parity         *)
(* A pass reads what it needs for one chunk, one group or one window in    *)
(* one step, and writes slot by slot: the WriteAt of a whole rebuilt blob  *)
(* is a step per slot too, since it can be cut short after any of them.    *)
(* A run may stop before any step: a ReadAt or WriteAt fails and the run   *)
(* returns the error, or the process dies.  Verify has no writer.          *)
(***************************************************************************)
EXTENDS Container

CONSTANTS
    MaxRuns,       \* bound on the runs of Verify and Scrub
    MaxHits,       \* bound on the damage the tags detect
    MaxCorrupt     \* bound on the damage they do not

ASSUME ScrubAssumption == MaxRuns \in Nat /\ MaxHits \in Nat /\ MaxCorrupt \in Nat

VARIABLES
    pc,            \* "idle", a pass, "done" (a report is returned) or "failed"
    writes,        \* w # nil: this run is Scrub, not Verify
    rebuildParity, \* Options.RebuildParity
    idx, grp, win, par,       \* the chunk, group, window, parity blob in turn
    needFile, lostSet, cols,  \* locals of Scrub and of rebuildFileParity
    rep,           \* ScrubStats
    todo,          \* the WriteAt calls the current step still has to make
    runs, hits, corrupt,      \* what has happened, bounded
    quiet,         \* no damage since this run began
    verified       \* what the last Verify found lost, while still relevant

posVars   == <<idx, grp, win, par>>
localVars == <<needFile, lostSet, cols>>
optVars   == <<writes, rebuildParity>>
envVars   == <<runs, hits, corrupt, quiet, verified>>
vars == <<bodyVars, pc, optVars, posVars, localVars, rep, todo, envVars>>

EmptyReport == [clean |-> 0, repaired |-> 0, rebuilt |-> 0, lostLen |-> 0,
                lost |-> {}, paritySlotsBad |-> 0]
NotVerified == [known |-> FALSE, lost |-> {}]

Idle == pc \in {"idle", "done", "failed"}

Init ==
    /\ IntactBody
    /\ pc = "idle" /\ writes = FALSE /\ rebuildParity = FALSE
    /\ idx = 0 /\ grp = 0 /\ win = 0 /\ par = 0
    /\ needFile = {} /\ lostSet = {} /\ cols = << >>
    /\ rep = EmptyReport /\ todo = {}
    /\ runs = 0 /\ hits = 0 /\ corrupt = 0 /\ quiet = TRUE /\ verified = NotVerified

-----------------------------------------------------------------------------
(* The medium.  Hit damages any slots of one blob so that their tags fail; *)
(* Corrupt replaces slots by others whose tags hold (a blob written to the *)
(* wrong place, payloads that were wrong before they were tagged).         *)
Damaged ==
    /\ quiet' = FALSE /\ verified' = NotVerified
    /\ UNCHANGED <<pc, optVars, posVars, localVars, rep, todo, runs>>

Hit ==
    /\ hits < MaxHits /\ hits' = hits + 1 /\ UNCHANGED corrupt
    /\ \E S \in (SUBSET Slots) \ {{}} :
         \/ /\ \E i \in Chunks : data' = [data EXCEPT ![i] =
                 [s \in Slots |-> IF s \in S THEN Bad ELSE data[i][s]]]
            /\ UNCHANGED parity
         \/ /\ \E g \in Groups : \E p \in 0 .. ParityOf(g) - 1 :
                 parity' = [parity EXCEPT ![g][p] =
                   [s \in Slots |-> IF s \in S THEN BadColumn ELSE parity[g][p][s]]]
            /\ UNCHANGED data
    /\ Damaged

Corrupt ==
    /\ corrupt < MaxCorrupt /\ corrupt' = corrupt + 1 /\ UNCHANGED <<hits, parity>>
    /\ \E S \in (SUBSET Slots) \ {{}} : \E i \in Chunks :
         data' = [data EXCEPT ![i] =
           [s \in Slots |-> IF s \in S THEN Wrong ELSE data[i][s]]]
    /\ Damaged

-----------------------------------------------------------------------------
\* Verify (w is FALSE) or Scrub, with the option RebuildParity
Start(w, rp) ==
    /\ Idle /\ runs < MaxRuns
    /\ runs' = runs + 1
    /\ pc' = "pass1" /\ writes' = w /\ rebuildParity' = rp
    /\ idx' = 0 /\ grp' = 0 /\ win' = 0 /\ par' = 0
    /\ needFile' = {} /\ lostSet' = {} /\ cols' = << >>
    /\ rep' = EmptyReport /\ quiet' = TRUE
    /\ UNCHANGED <<bodyVars, todo, hits, corrupt, verified>>

\* a WriteAt of slot s of data or parity blob i, skipped when there is no writer
DataWrite(i, s, v) == [to |-> "data", i |-> i, s |-> s, v |-> v]
ParityWrite(p, s, v) == [to |-> "parity", i |-> p, s |-> s, v |-> v]
WillWrite(ws) == todo' = IF writes THEN ws ELSE {}

Pass1Chunk ==
    /\ pc = "pass1" /\ todo = {} /\ idx < ChunkCount
    /\ idx' = idx + 1
    /\ LET blob  == data[idx]
           bad   == BadSlots(blob)
           fixed == IF bad = {} THEN blob ELSE RepairIntra(blob)
       IN  \/ /\ bad # {} /\ ~Repairable(blob)
              /\ needFile' = needFile \cup {idx}
              /\ UNCHANGED <<rep, todo>>
           \/ /\ bad = {} \/ Repairable(blob)
              /\ ~Decodes(idx, fixed)
              /\ rep' = [rep EXCEPT !.lost = @ \cup {idx}, !.lostLen = @ + 1]
              /\ UNCHANGED <<needFile, todo>>
           \/ /\ bad = {} /\ Decodes(idx, fixed)
              /\ rep' = [rep EXCEPT !.clean = @ + 1]
              /\ UNCHANGED <<needFile, todo>>
           \/ /\ Repairable(blob) /\ Decodes(idx, fixed)
              /\ rep' = [rep EXCEPT !.repaired = @ + 1]
              /\ WillWrite({DataWrite(idx, s, fixed[s]) : s \in bad})
              /\ UNCHANGED needFile
    /\ UNCHANGED <<bodyVars, pc, optVars, grp, win, par, lostSet, cols, envVars>>

Pass1Ends ==
    /\ pc = "pass1" /\ todo = {} /\ idx = ChunkCount
    /\ pc' = "pass2"
    /\ UNCHANGED <<bodyVars, optVars, posVars, localVars, rep, todo, envVars>>

\* mutant: a group that cannot be rebuilt is passed over in silence
Pass2DropsLost ==
    /\ pc = "pass2" /\ todo = {} /\ grp \in Groups
    /\ grp' = grp + 1
    /\ LET missing == {i \in needFile : GroupOf(i) = grp}
       IN  IF CanRebuild(grp, missing)
           THEN /\ rep' = [rep EXCEPT !.rebuilt = @ + Cardinality(missing)]
                /\ WillWrite({DataWrite(i, s, RebuiltSlot(grp, missing, i, s)) :
                                i \in missing, s \in Slots})
           ELSE UNCHANGED <<rep, todo>>
    /\ UNCHANGED <<bodyVars, pc, optVars, idx, win, par, localVars, envVars>>

(* A group is rebuilt as a whole: all the blobs pass 1 gave up, or none.   *)
(* A rebuilt blob that does not decode is lost, the others are written.    *)
Pass2Group ==
    /\ pc = "pass2" /\ todo = {} /\ grp \in Groups
    /\ grp' = grp + 1
    /\ LET missing == {i \in needFile : GroupOf(i) = grp}
           good == IF CanRebuild(grp, missing)
                   THEN {i \in missing : Decodes(i, RebuiltBlob(grp, missing, i))}
                   ELSE {}
       IN  /\ rep' = [rep EXCEPT !.rebuilt = @ + Cardinality(good),
                                 !.lost = @ \cup (missing \ good),
                                 !.lostLen = @ + Cardinality(missing \ good)]
           /\ lostSet' = lostSet \cup (missing \ good)
           /\ WillWrite({DataWrite(i, s, RebuiltSlot(grp, missing, i, s)) :
                           i \in good, s \in Slots})
    /\ UNCHANGED <<bodyVars, pc, optVars, idx, win, par, needFile, cols, envVars>>

\* the run returns its report
Returns ==
    /\ pc' = "done"
    /\ verified' = IF ~writes /\ quiet THEN [known |-> TRUE, lost |-> rep.lost]
                   ELSE verified

Pass2Ends ==
    /\ pc = "pass2" /\ todo = {} /\ grp \notin Groups
    /\ grp' = 0
    /\ IF rebuildParity THEN pc' = "pass3" /\ UNCHANGED verified ELSE Returns
    /\ UNCHANGED <<bodyVars, optVars, idx, win, par, localVars, rep, todo,
                   runs, hits, corrupt, quiet>>

-----------------------------------------------------------------------------
(* rebuildFileParity.                                                      *)
GroupComplete(g) == ChunksOf(g) \cap lostSet = {}

Pass3SkipGroup ==
    /\ pc = "pass3" /\ grp \in Groups /\ ~GroupComplete(grp)
    /\ grp' = grp + 1
    /\ UNCHANGED <<bodyVars, pc, optVars, idx, win, par, localVars, rep, todo, envVars>>

\* the data columns of one window; a bad one ends the WHOLE pass with no error
Pass3ReadWindow ==
    /\ pc = "pass3" /\ grp \in Groups /\ GroupComplete(grp)
    /\ \/ /\ \A i \in ChunksOf(grp) : DataWindowOK(i, win)
          /\ cols' = [s \in WindowSlots(win) |-> Column(grp, s)]
          /\ par' = 0 /\ pc' = "pass3write" /\ UNCHANGED verified
       \/ /\ \E i \in ChunksOf(grp) : ~DataWindowOK(i, win)
          /\ Returns /\ UNCHANGED <<cols, par>>
    /\ UNCHANGED <<bodyVars, optVars, idx, grp, win, needFile, lostSet, rep,
                   todo, runs, hits, corrupt, quiet>>

\* one parity blob of the window: the slots that are bad or stale
Pass3Parity ==
    /\ pc = "pass3write" /\ todo = {} /\ par < ParityOf(grp)
    /\ par' = par + 1
    /\ LET stale == {s \in WindowSlots(win) : parity[grp][par][s] # cols[s]}
       IN  /\ rep' = [rep EXCEPT !.paritySlotsBad = @ + Cardinality(stale)]
           /\ WillWrite({ParityWrite(par, s, cols[s]) : s \in stale})
    /\ UNCHANGED <<bodyVars, pc, optVars, idx, grp, win, localVars, envVars>>

\* mutants: only the first window of a group is done; win runs on
Pass3FirstWindowOnly ==
    /\ pc = "pass3write" /\ todo = {} /\ par = ParityOf(grp)
    /\ pc' = "pass3" /\ win' = 0 /\ grp' = grp + 1
    /\ UNCHANGED <<bodyVars, optVars, idx, par, localVars, rep, todo, envVars>>
Pass3WindowRunsOn ==
    /\ pc = "pass3write" /\ todo = {} /\ par = ParityOf(grp)
    /\ pc' = "pass3" /\ win' = win + 1
    /\ grp' = IF win + 1 \in Windows THEN grp ELSE grp + 1
    /\ UNCHANGED <<bodyVars, optVars, idx, par, localVars, rep, todo, envVars>>

Pass3NextWindow ==
    /\ pc = "pass3write" /\ todo = {} /\ par = ParityOf(grp)
    /\ pc' = "pass3"
    /\ \/ win + 1 \in Windows /\ win' = win + 1 /\ UNCHANGED grp
       \/ win + 1 \notin Windows /\ win' = 0 /\ grp' = grp + 1
    /\ UNCHANGED <<bodyVars, optVars, idx, par, localVars, rep, todo, envVars>>

Pass3Ends ==
    /\ pc = "pass3" /\ grp \notin Groups
    /\ Returns
    /\ UNCHANGED <<bodyVars, optVars, posVars, localVars, rep, todo, runs,
                   hits, corrupt, quiet>>

-----------------------------------------------------------------------------
\* the next WriteAt: in the order of blobs and slots
Earliest(t) == \A o \in todo : t.i < o.i \/ (t.i = o.i /\ t.s <= o.s)

\* the slot t writes gets value v (bad for parity is the empty column)
SlotBecomes(t, v) ==
    IF t.to = "data"
    THEN data' = [data EXCEPT ![t.i][t.s] = v] /\ UNCHANGED parity
    ELSE parity' = [parity EXCEPT ![grp][t.i][t.s] = v] /\ UNCHANGED data

WriteSlot ==
    /\ \E t \in todo : /\ Earliest(t)
                       /\ SlotBecomes(t, t.v)
                       /\ todo' = todo \ {t}
    /\ UNCHANGED <<pc, optVars, posVars, localVars, rep, envVars>>

(* A read or a write fails, or the process dies: the run ends without a    *)
(* report.  A WriteAt cut short tears its slot, unless it was writing the  *)
(* bytes that were there already.                                          *)
Abort ==
    /\ ~Idle
    /\ pc' = "failed" /\ todo' = {}
    /\ \/ UNCHANGED bodyVars
       \/ \E t \in todo :
            /\ Earliest(t)
            /\ t.v # (IF t.to = "data" THEN data[t.i][t.s] ELSE parity[grp][t.i][t.s])
            /\ SlotBecomes(t, IF t.to = "data" THEN Bad ELSE BadColumn)
    /\ UNCHANGED <<optVars, posVars, localVars, rep, envVars>>

Step ==
    \/ Pass1Chunk \/ Pass1Ends \/ Pass2Group \/ Pass2Ends
    \/ Pass3SkipGroup \/ Pass3ReadWindow \/ Pass3Parity \/ Pass3NextWindow
    \/ Pass3Ends \/ WriteSlot

Next ==
    \/ Hit \/ Corrupt
    \/ \E w \in BOOLEAN, rp \in BOOLEAN : Start(w, rp)
    \/ Step \/ Abort

Spec == Init /\ [][Next]_vars
=============================================================================
