----------------------------- MODULE SmallVault -----------------------------
(***************************************************************************)
(* The life of a vault of the schemes gcm-only and rs-strong: the Writer   *)
(* that buffers and then writes it (writer.go, engine/gcm_only.go,         *)
(* engine/strong.go), the power failures, damage and truncations it meets, *)
(* engine.Open, and loading, verifying and scrubbing it.                   *)
(*                                                                         *)
(* The file is a sequence of cells, each of which is lost or kept as a     *)
(* whole.  An rs-strong slot with its tag is one cell.  A gcm-only body    *)
(* has a cell per byte of the small instance; authenticated as a whole,    *)
(* its cells are Sealed or not.  The trailer is the cells TrailerHead and  *)
(* TrailerEnd, so that it can be torn.                                     *)
(*                                                                         *)
(* Nothing in the code calls fsync.  file is what a reader sees as long as *)
(* the machine runs; disk is what the medium holds.  WriteBack is the      *)
(* operating system bringing the two together; a power failure before it   *)
(* keeps any of the cells that differ, and any length between the two.     *)
(***************************************************************************)
EXTENDS StrongCode, Sequences

CONSTANTS
    Sealed, TrailerHead, TrailerEnd,  \* cells, see above
    Written,             \* the codeword the writer computes
    MaxPlain,            \* bound on the plaintext
    MaxFaults,           \* bound on power failures and on damage
    Misplaced            \* symbols that may end up in the wrong place

ASSUME SmallVaultAssumption ==
    /\ Bad \notin {Sealed, TrailerHead, TrailerEnd}
    /\ Sealed \notin {TrailerHead, TrailerEnd} /\ TrailerHead # TrailerEnd
    /\ {Sealed, TrailerHead, TrailerEnd} \cap Symbols = {}
    /\ Written \in Code
    /\ MaxPlain \in Nat /\ MaxFaults \in Nat /\ Misplaced \subseteq Symbols

VARIABLES
    scheme,      \* Writer.scheme: "gcm" or "rs-strong"
    buffered,    \* len(sink.buf)
    wpc,         \* "open", "drained", "done", "failed" or, cut off, "dead"
    man,         \* the manifest in the trailer
    file, disk,  \* see above
    opened,      \* engine.Open has returned a Container
    todo, fixed, \* ScrubStrong: slots still to write, and what goes there
    rep,         \* what the last call returned
    quiet,       \* no fault since that call began
    life,        \* "new", "settled" or "crashed": which came first
    hits,        \* body cells that were damaged
    strays,      \* faults that displaced cells, or changed the length
    faults

writerVars == <<scheme, buffered, wpc, man>>
callVars == <<opened, todo, fixed, rep>>
histVars == <<quiet, life, hits, strays, faults>>
vars == <<writerVars, file, disk, callVars, histVars>>

NoManifest == [scheme |-> "none", shardSize |-> 0, plainSize |-> -1]
TrailerCells == 2

Init ==
    /\ scheme \in {"gcm", "rs-strong"} /\ buffered = 0
    /\ wpc = "open" /\ man = NoManifest
    /\ file = << >> /\ disk = << >>
    /\ opened = FALSE /\ todo = {} /\ fixed = << >> /\ rep = "none"
    /\ quiet = TRUE /\ life = "new" /\ hits = 0 /\ strays = 0 /\ faults = 0

-----------------------------------------------------------------------------
(* The Writer.                                                             *)
Longer(a, b) == IF a >= b THEN a ELSE b

\* f after cells are written behind its first off cells; a gap is zeroes
Put(f, off, cells) ==
    [i \in 1 .. Longer(Len(f), off + Len(cells)) |->
       IF i \in off + 1 .. off + Len(cells) THEN cells[i - off]
       ELSE IF i <= Len(f) THEN f[i] ELSE Bad]

\* the cells in front of the trailer, by the manifest or by the writer
PayloadCells(sch, plainSize) ==
    IF sch = "gcm" THEN GCMOnlyPayloadSize(plainSize) ELSE StrongSlots

Body == [i \in 1 .. PayloadCells(scheme, buffered) |->
           IF scheme = "gcm" THEN Sealed ELSE Written[i]]
Trailer == <<TrailerHead, TrailerEnd>>

Write(n) ==
    /\ wpc = "open" /\ buffered + n <= MaxPlain
    /\ buffered' = buffered + n
    /\ UNCHANGED <<scheme, wpc, man, file, disk, callVars, histVars>>

(* Close begins: Drain encrypts and encodes all of it and writes it at     *)
(* offset 0 in one call, which fails anywhere or not at all.               *)
Drain ==
    /\ wpc = "open" /\ wpc' = "drained"
    /\ file' = Put(file, 0, Body)
    /\ UNCHANGED <<scheme, buffered, man, disk, callVars, histVars>>

\* mutant: the error of Drain does not end Close
DrainErrorIgnored ==
    /\ wpc = "open" /\ wpc' = "drained"
    /\ \E n \in 0 .. Len(Body) - 1 : file' = Put(file, 0, SubSeq(Body, 1, n))
    /\ UNCHANGED <<scheme, buffered, man, disk, callVars, histVars>>

DrainFails ==
    /\ wpc = "open" /\ wpc' = "failed"
    /\ \E n \in 0 .. Len(Body) - 1 : file' = Put(file, 0, SubSeq(Body, 1, n))
    /\ UNCHANGED <<scheme, buffered, man, disk, callVars, histVars>>

\* the manifest of what was buffered
Manifest == [scheme |-> scheme, plainSize |-> buffered, shardSize |->
               IF scheme = "gcm" THEN 0 ELSE StrongShardSize(buffered)]

\* mutant: the trailer goes where that of the other scheme would
TrailerMisplaced ==
    /\ wpc = "drained" /\ wpc' = "done"
    /\ man' = Manifest
    /\ file' = Put(file, StrongSlots, Trailer)
    /\ UNCHANGED <<scheme, buffered, disk, callVars, histVars>>

\* closeSmall goes on: the trailer, with the manifest, behind the payload
WriteTrailer ==
    /\ wpc = "drained" /\ wpc' = "done"
    /\ man' = Manifest
    /\ file' = Put(file, PayloadCells(scheme, buffered), Trailer)
    /\ UNCHANGED <<scheme, buffered, disk, callVars, histVars>>

WriteTrailerFails ==
    /\ wpc = "drained" /\ wpc' = "failed"
    /\ \E n \in 0 .. TrailerCells - 1 :
         file' = Put(file, PayloadCells(scheme, buffered), SubSeq(Trailer, 1, n))
    /\ UNCHANGED <<scheme, buffered, man, disk, callVars, histVars>>
-----------------------------------------------------------------------------
(* The medium.  A call in progress goes on after damage, not after a power *)
(* failure, which ends the process.                                        *)
WriteBack ==
    /\ disk # file /\ disk' = file
    /\ life' = IF wpc = "done" /\ life = "new" THEN "settled" ELSE life
    /\ UNCHANGED <<writerVars, file, callVars, quiet, hits, strays, faults>>

Unsynced == {i \in 1 .. Len(file) : i > Len(disk) \/ file[i] # disk[i]}

PowerFailure ==
    /\ faults < MaxFaults /\ faults' = faults + 1
    /\ \E kept \in SUBSET Unsynced : \E n \in Len(disk) .. Len(file) :
         file' = [i \in 1 .. n |-> IF i \in Unsynced \ kept
                                  THEN IF i <= Len(disk) THEN disk[i] ELSE Bad
                                  ELSE file[i]]
    /\ disk' = file'
    /\ wpc' = IF wpc \in {"open", "drained"} THEN "dead" ELSE wpc
    /\ life' = IF life = "new" THEN "crashed" ELSE life
    /\ opened' = FALSE /\ todo' = {} /\ fixed' = << >> /\ rep' = "none"
    /\ quiet' = FALSE
    /\ UNCHANGED <<scheme, buffered, man, hits, strays>>

(* Damage comes to what is on the medium.  It may come at any time after   *)
(* Close, between two writes of a scrub too: WriteBack can precede it.     *)
Damaged ==
    /\ wpc = "done" /\ disk = file
    /\ faults < MaxFaults /\ faults' = faults + 1
    /\ disk' = file'
    /\ quiet' = FALSE
    /\ rep' = IF todo = {} THEN "none" ELSE rep
    /\ UNCHANGED <<writerVars, opened, todo, fixed, life>>

BodyCells == 1 .. PayloadCells(man.scheme, man.plainSize)

Hit ==
    /\ \E S \in SUBSET (BodyCells \cap 1 .. Len(file)) \ {{}} :
         /\ file' = [i \in 1 .. Len(file) |-> IF i \in S THEN Bad ELSE file[i]]
         /\ hits' = hits + Cardinality(S)
    /\ Damaged /\ UNCHANGED strays

\* a slot that belongs elsewhere, with a tag that holds
Stray ==
    /\ man.scheme = "rs-strong"
    /\ \E i \in BodyCells \cap 1 .. Len(file) : \E v \in Misplaced :
         file' = [file EXCEPT ![i] = v]
    /\ strays' = strays + 1
    /\ Damaged /\ UNCHANGED hits

\* a copy of the file that lacks a part, at the end or before it
Cut ==
    /\ \E a \in 1 .. Len(file) : \E b \in a .. Len(file) :
         file' = SubSeq(file, 1, a - 1) \o SubSeq(file, b + 1, Len(file))
    /\ strays' = strays + 1
    /\ Damaged /\ UNCHANGED hits

\* or has something behind its end
Extend ==
    /\ file' = Append(file, Bad)
    /\ strays' = strays + 1
    /\ Damaged /\ UNCHANGED hits

-----------------------------------------------------------------------------
(* engine.Open.                                                            *)
\* ParseTrailer: the trailer has to end where the file ends
ParseTrailer(f) ==
    /\ Len(f) >= TrailerCells
    /\ f[Len(f) - 1] = TrailerHead /\ f[Len(f)] = TrailerEnd

\* mutant: what is in front of the trailer may have any length
ValidateAnySize(m, size) ==
    m.shardSize = IF m.scheme = "gcm" THEN 0 ELSE StrongShardSize(m.plainSize)

\* validateGCMOnly, validateRSStrong: does the size fit the manifest
Validate(m, size) ==
    /\ m.plainSize >= 0
    /\ m.shardSize = IF m.scheme = "gcm" THEN 0 ELSE StrongShardSize(m.plainSize)
    /\ size = PayloadCells(m.scheme, m.plainSize) + TrailerCells

Opens(f) == ParseTrailer(f) /\ Validate(man, Len(f))

(* Open with the right or with a wrong key: a wrong one cannot read the    *)
(* manifest.                                                               *)
Open(keyIsRight) ==
    /\ todo = {}
    /\ opened' = (keyIsRight /\ Opens(file))
    /\ rep' = IF ~ParseTrailer(file) THEN "no manifest"
              ELSE IF ~keyIsRight THEN "manifest auth"
              ELSE IF Validate(man, Len(file)) THEN "opened" ELSE "no manifest"
    /\ quiet' = TRUE
    /\ UNCHANGED <<writerVars, file, disk, todo, fixed, life, hits, strays, faults>>

-----------------------------------------------------------------------------
(* Loading.  ReadAt beyond the end of a file that has become shorter is    *)
(* not an error: the rest of the buffer stays zero.                        *)
LoadGCMOnly(f) ==
    \A i \in 1 .. GCMOnlyPayloadSize(man.plainSize) : i <= Len(f) /\ f[i] = Sealed

gatherStrongSlots(f) ==
    [i \in Slots |-> IF i <= Len(f) /\ f[i] \in Symbols THEN f[i] ELSE Bad]

\* mutant: the header is checked and the error of GCM is not
decodeHeaderOnly(s) == s[1] = Written[1]

\* header checks and GCM: they cover the slots in use, not the padding behind
\* them (in the last slot in use it counts as content, unlike in the code)
decodeStrongArea(s) == \A i \in 1 .. UsedSlots(man.plainSize) : s[i] = Written[i]

LoadStrong(f) ==
    LET s == gatherStrongSlots(f)
    IN  IF BadSlots(s) = {} THEN decodeStrongArea(s)
        ELSE Reconstructible(s) /\ decodeStrongArea(Reconstruct(s))

\* LoadAll returns the plaintext: what it returns is authenticated
Loads(f) == IF man.scheme = "gcm" THEN LoadGCMOnly(f) ELSE LoadStrong(f)

LoadAll ==
    /\ opened /\ todo = {}
    /\ rep' = IF Loads(file) THEN "plaintext" ELSE "error"
    /\ quiet' = TRUE
    /\ UNCHANGED <<writerVars, file, disk, opened, todo, fixed, life, hits, strays, faults>>

-----------------------------------------------------------------------------
(* Verify and Scrub.  A gcm-only vault has no redundancy: both only look.  *)
ScrubGCMOnly ==
    /\ man.scheme = "gcm"
    /\ rep' = IF Loads(file) THEN "clean" ELSE "lost"
    /\ UNCHANGED <<todo, fixed>>

\* mutants: no decoding before the report; the shards as read are written
ScrubStrongUndecoded(writes) ==
    /\ man.scheme = "rs-strong"
    /\ LET s == gatherStrongSlots(file)
       IN  \/ /\ Cardinality(BadSlots(s)) > MStrong
              /\ rep' = "lost" /\ UNCHANGED <<todo, fixed>>
           \/ /\ BadSlots(s) = {}
              /\ rep' = "clean" /\ UNCHANGED <<todo, fixed>>
           \/ /\ Reconstructible(s)
              /\ rep' = IF writes THEN "repairing" ELSE "repairable"
              /\ todo' = IF writes THEN BadSlots(s) ELSE {}
              /\ fixed' = IF writes THEN Reconstruct(s) ELSE << >>
ScrubStrongWritesShards(writes) ==
    /\ man.scheme = "rs-strong" /\ LoadStrong(file)
    /\ LET s == gatherStrongSlots(file)
       IN  /\ rep' = IF BadSlots(s) = {} THEN "clean" ELSE "repairing"
           /\ todo' = BadSlots(s)
           /\ fixed' = IF BadSlots(s) = {} THEN << >> ELSE s

(* ScrubStrong up to the first write.  Without a writer (Verify) the same  *)
(* report says what could be repaired, and there is nothing to write.      *)
ScrubStrong(writes) ==
    /\ man.scheme = "rs-strong"
    /\ LET s == gatherStrongSlots(file)
       IN  \/ /\ ~LoadStrong(file)
              /\ rep' = "lost" /\ UNCHANGED <<todo, fixed>>
           \/ /\ LoadStrong(file) /\ BadSlots(s) = {}
              /\ rep' = "clean" /\ UNCHANGED <<todo, fixed>>
           \/ /\ LoadStrong(file) /\ BadSlots(s) # {} /\ ~writes
              /\ rep' = "repairable" /\ UNCHANGED <<todo, fixed>>
           \/ /\ LoadStrong(file) /\ BadSlots(s) # {} /\ writes
              /\ rep' = "repairing"
              /\ todo' = BadSlots(s) /\ fixed' = Reconstruct(s)

VerifyOrScrub(writes) ==
    /\ opened /\ todo = {}
    /\ ScrubGCMOnly \/ ScrubStrong(writes)
    /\ quiet' = TRUE
    /\ UNCHANGED <<writerVars, file, disk, opened, life, hits, strays, faults>>

\* mutant: the slots are written at one slot's distance
WriteSlotShifted ==
    \E i \in todo :
      /\ \A j \in todo : i <= j
      /\ todo' = todo \ {i}
      /\ file' = Put(file, i, <<fixed[i]>>)
      /\ rep' = IF todo' = {} THEN "repaired" ELSE rep
      /\ fixed' = IF todo' = {} THEN << >> ELSE fixed
      /\ UNCHANGED <<writerVars, disk, opened, histVars>>

\* the next WriteAt, in the order of the slots; the last one ends the scrub
WriteSlot ==
    \E i \in todo :
      /\ \A j \in todo : i <= j
      /\ todo' = todo \ {i}
      /\ file' = Put(file, i - 1, <<fixed[i]>>)
      /\ rep' = IF todo' = {} THEN "repaired" ELSE rep
      /\ fixed' = IF todo' = {} THEN << >> ELSE fixed
      /\ UNCHANGED <<writerVars, disk, opened, histVars>>

(* WriteAt fails, or the process is killed, with the next slot torn or     *)
(* not begun: no report, the slots written so far stay.                    *)
ScrubAborts ==
    /\ todo # {} /\ todo' = {} /\ fixed' = << >> /\ rep' = "aborted"
    /\ \/ UNCHANGED file
       \/ \E i \in todo : /\ \A j \in todo : i <= j
                          /\ file' = Put(file, i - 1, <<Bad>>)
    /\ UNCHANGED <<writerVars, disk, opened, histVars>>

Fault == PowerFailure \/ Hit \/ Stray \/ Cut \/ Extend

Next ==
    \/ \E n \in 1 .. MaxPlain : Write(n)
    \/ Drain \/ DrainFails \/ WriteTrailer \/ WriteTrailerFails
    \/ WriteBack \/ Fault
    \/ \E keyIsRight \in BOOLEAN : Open(keyIsRight)
    \/ LoadAll
    \/ \E writes \in BOOLEAN : VerifyOrScrub(writes)
    \/ WriteSlot \/ ScrubAborts

Spec == Init /\ [][Next]_vars
=============================================================================
