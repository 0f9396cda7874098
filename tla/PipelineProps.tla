--------------------------- MODULE PipelineProps ---------------------------
(***************************************************************************)
(* What the write path of Pipeline has to guarantee.                       *)
(***************************************************************************)
EXTENDS Pipeline

SeqElems(s) == {s[i] : i \in 1..Len(s)}

CallerTypeOK ==
    /\ cpc \in {"idle", "write", "drain", "waitWorkers", "waitLoop", "closePar",
                "waitParity", "seekTrailer", "writeTrailer", "committed", "failed"}
    /\ rest \in Nat /\ chunkLen \in 0..ChunkPlainSize
    /\ chunkIdx \in Nat /\ accepted \in Nat

ChannelTypeOK ==
    /\ encodeCh \in Seq(Job) /\ outCh \in Seq(Job) /\ parCh \in Seq(ParityMsg)
    /\ encodeClosed \in BOOLEAN /\ outClosed \in BOOLEAN /\ parClosed \in BOOLEAN

WorkerTypeOK ==
    /\ wpc \in [Workers -> {"recv", "encode", "send", "done"}]
    /\ wjob \in [Workers -> Job \cup {NoJob}]

LoopTypeOK ==
    /\ lpc \in {"scan", "write", "hand", "flush", "done"}
    /\ pending \subseteq Job /\ next \in Nat /\ cur \in Job \cup {NoJob}
    /\ groupChunks \in 0..FileGroupChunks /\ groupsDone \in Nat
    /\ plainSize \in Nat /\ finalGroup \in Nat /\ finalKData \in 0..FileGroupChunks

ParityTypeOK ==
    /\ ppc \in {"recv", "encode", "seek", "write", "done"}
    /\ flush \in ParityMsg /\ blobs \in Seq(Bufs) /\ win \in Nat /\ q \in Nat
    /\ parOut \in Seq(Nat \cup {-1})

SharedTypeOK ==
    /\ spec \in LayoutSpecs
    /\ inUse \subseteq Bufs /\ content \in [Bufs -> Nat \cup {-1}]
    /\ pos \in Nat
    /\ err \in BOOLEAN /\ faults \in 0..MaxFaults

(* The state of every goroutine has its type.  What could break it: a     *)
(* group that goes on past FileGroupChunks, a failed job whose missing     *)
(* buffer is handed to parityLoop, a job enqueued with no bytes.           *)
TypeOK ==
    CallerTypeOK /\ ChannelTypeOK /\ WorkerTypeOK /\ LoopTypeOK
      /\ ParityTypeOK /\ SharedTypeOK

-----------------------------------------------------------------------------
(* Where the job of chunk i is: in a channel, with a worker, in pending or *)
(* in the hands of writeLoop.                                              *)
Places(i) ==
    {<<"encode", k>> : k \in {k \in 1..Len(encodeCh) : encodeCh[k].idx = i}}
      \cup {<<"worker", w>> : w \in {w \in Workers : wjob[w].idx = i}}
      \cup {<<"out", k>> : k \in {k \in 1..Len(outCh) : outCh[k].idx = i}}
      \cup {<<"pending", j>> : j \in {j \in pending : j.idx = i}}
      \cup {<<"loop", j>> : j \in {j \in {cur} : j.idx = i}}

(* No chunk is lost, duplicated or retired out of turn: a chunk that was   *)
(* enqueued and that writeLoop has not finished with is in exactly one     *)
(* place, whatever the order in which the workers deliver; so next stops   *)
(* at the number of chunks and "internal job ordering loss" never happens. *)
ChunksConserved ==
    /\ next <= chunkIdx
    /\ \A i \in 0 .. chunkIdx :
         Cardinality(Places(i)) = IF next <= i /\ i < chunkIdx THEN 1 ELSE 0
    /\ lpc = "done" => next = chunkIdx

\* the jobs that own a buffer; parityLoop's buffers and the messages to it, in line
JobsInFlight == {wjob[w] : w \in Workers} \cup SeqElems(outCh) \cup pending
                  \cup (IF lpc = "flush" THEN {} ELSE {cur})
OwningJobs == {j \in JobsInFlight : j.blob # NoBuf}
Line == [k \in 1 .. Len(blobs) + Len(parCh) |->
           IF k <= Len(blobs) THEN BlobMsg(blobs[k]) ELSE parCh[k - Len(blobs)]]
Handed == {k \in DOMAIN Line : ~Line[k].flush}

(* The ownership comment of encodeJob: the blob buffer belongs to its job, *)
(* then to parityLoop, and goes back to the pool only after the group is   *)
(* flushed.  Every buffer has one owner, is out of the pool as long as it  *)
(* has one, and still holds the chunk that was encoded into it.            *)
BuffersIntact ==
    /\ \A j \in OwningJobs : j.blob \in inUse /\ content[j.blob] = j.idx
    /\ \A k \in Handed : Line[k].blob \in inUse
    /\ Cardinality(OwningJobs) + Cardinality(Handed)
         = Cardinality({j.blob : j \in OwningJobs} \cup {Line[k].blob : k \in Handed})

(* The parity that is being written for a group is computed from exactly   *)
(* the chunks of that group, in order, as long as nothing has failed; the  *)
(* group is the one whose parity blobs are being written.  A flush always  *)
(* finds as many blobs as it announces, failures or not.                   *)
ParityCoversGroup ==
    /\ (ppc = "recv" /\ parCh # << >> /\ Head(parCh).flush)
         => Len(blobs) = Head(parCh).kData
    /\ (ppc \in {"seek", "write"} /\ ~err) =>
         /\ parOut = [i \in 1..flush.kData |-> flush.g * FileGroupChunks + i - 1]
         /\ flush.kData < FileGroupChunks
              => flush.g * FileGroupChunks + flush.kData = chunkIdx

(* No failure of any goroutine is swallowed: once Close has gone on to the *)
(* trailer, nothing has failed, the manifest counts all accepted bytes and *)
(* the chunks are as many as those bytes need.                             *)
CommitMeansAll ==
    cpc \in {"seekTrailer", "writeTrailer", "committed"} =>
      /\ faults = 0
      /\ plainSize = accepted
      /\ (chunkIdx - 1) * ChunkPlainSize < accepted
      /\ accepted <= chunkIdx * ChunkPlainSize

-----------------------------------------------------------------------------
\* the file of a complete vault of n chunks and ps bytes, unit by unit
WholeVault(n, ps) ==
    [u \in 0 .. TotalBlobCount(spec, n) * Windows |->
       IF u = TotalBlobCount(spec, n) * Windows
       THEN TrailerUnit(n, ps)
       ELSE LET b == CHOOSE b \in Blobs(spec, n) :
                       BlobOffset(spec, n, b) = u \div Windows
                w == u % Windows
            IN  IF b[1] = "data" THEN DataUnit(b[2], w)
                ELSE ParityUnit([i \in 1..DataChunksInGroup(b[2], n) |->
                                   b[2] * FileGroupChunks + i - 1], b[3], w)]

(* A vault whose Close returned nil is complete: every data blob, every    *)
(* parity blob and the trailer are at their offset with the right content, *)
(* and the file holds nothing else.                                        *)
VaultComplete ==
    cpc = "committed" => disk = WholeVault(chunkIdx, plainSize)

(* Nobody calls Seek between another goroutine's Seek and its Write: what  *)
(* a lock around the pair in seekWrite would give.                         *)
SeeksApart == ~ (lpc = "write" /\ ppc = "write")

(* The trailer is the last thing written: from the moment Close starts to  *)
(* write it, no goroutine touches the file any more.                       *)
TrailerIsLast ==
    [][(cpc \in {"writeTrailer", "committed", "failed"} /\ fileVars' # fileVars)
          => (cpc = "writeTrailer" /\ cpc' # cpc)]_vars

(* FORMAT.md, of WithInflight: at most inflight + workers chunks are in    *)
(* flight, each with its buffers.                                          *)
InflightBounded ==
    Cardinality(inUse) <= EncodeCap + OutCap + Cardinality(Workers)

(* Write and Close return: no goroutine waits for ever on a full or empty  *)
(* channel, and Drain finds every goroutine finished.                      *)
CallsReturn ==
    /\ cpc = "write" ~> cpc = "idle"
    /\ cpc = "drain" ~> cpc \in {"committed", "failed"}

-----------------------------------------------------------------------------
(* The pipeline implements VaultWriter.  The vault a reader finds is read  *)
(* off the file: a trailer where the size says it must be, and the data    *)
(* blobs that hold their chunk.                                            *)
Stored(i) == \A w \in 0 .. Windows - 1 :
    LET u == DataBlobOffset(spec, i) * Windows + w
    IN  u \in DOMAIN disk /\ disk[u] = DataUnit(i, w)

VaultFound ==
    LET u == TotalBlobCount(spec, chunkIdx) * Windows
    IN  IF u \in DOMAIN disk /\ disk[u].kind = "trailer"
        THEN [chunkCount |-> disk[u].chunkCount, plainSize |-> disk[u].plainSize,
              stored |-> {i \in 0 .. disk[u].chunkCount - 1 : Stored(i)}]
        ELSE [chunkCount |-> -1, plainSize |-> -1, stored |-> {}]

Abstract == INSTANCE VaultWriter WITH
    state <- CASE cpc \in {"idle", "write"} -> "open"
               [] cpc \in {"committed", "failed"} -> cpc
               [] OTHER -> "closing",
    bytes <- accepted,
    vault <- VaultFound

ImplementsVaultWriter == Abstract!Spec
=============================================================================
