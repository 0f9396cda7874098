------------------------------ MODULE Pipeline ------------------------------
(***************************************************************************)
(* The rs-dual write path: Writer.Write and Writer.Close of writer.go over *)
(* the pipeline of internal/engine/pipeline.go.                            *)
(*                                                                         *)
(*   caller --encodeCh--> workers --outCh--> writeLoop --parCh--> parityLoop *)
(*                                                                         *)
(* Four kinds of goroutine share three bounded channels, a sticky error, a *)
(* pool of blob buffers and ONE destination file with one file position:   *)
(* writeLoop and parityLoop both call seekWrite, which is a Seek and then  *)
(* a Write, with no lock around the pair.                                  *)
(*                                                                         *)
(* Data: a chunk is its index, a buffer holds the index of the chunk last  *)
(* encoded into it, and the unit of the file is one RS window of a blob    *)
(* (32 columns in the code), because parityLoop writes a parity blob one   *)
(* window at a time while writeLoop writes a data blob whole.              *)
(***************************************************************************)
EXTENDS Layout, Sequences, FiniteSets

CONSTANTS
    Workers,            \* the encoding goroutines
    Bufs, NoBuf,        \* the blob (and par) buffers; "no buffer"
    EncodeCap, OutCap,  \* capacities of encodeCh and outCh
    ParCap,             \* capacity of parCh (256 in the code)
    Windows,            \* windows of a blob (12 in the code)
    ChunkPlainSize,     \* plaintext bytes of a full chunk
    PipeSpecs,          \* the layout specs a writer may be created with
    MaxBytes,           \* bound on the bytes written to the vault
    MaxFaults           \* bound on the failures of one run

ASSUME PipelineAssumption ==
    \* WithWorkers takes 1..16 and WithInflight 4..256; the defaults are 4 and 16
    /\ Workers # {}
    /\ NoBuf \notin Bufs
    /\ EncodeCap \in Nat \ {0} /\ OutCap \in Nat \ {0} /\ ParCap \in Nat \ {0}
    /\ Windows \in Nat \ {0}
    /\ ChunkPlainSize \in Nat \ {0}
    /\ PipeSpecs \subseteq LayoutSpecs
    /\ MaxBytes \in Nat /\ MaxFaults \in Nat
    \* sync.Pool allocates when it is empty, so a worker never waits for a buffer
    /\ IsFiniteSet(Bufs) /\ Cardinality(Bufs) * ChunkPlainSize >= MaxBytes

VARIABLES
    spec,        \* layout of this file, fixed by NewWriter
    \* the caller: Write, Close, Drain
    cpc,         \* where the caller is
    rest,        \* bytes of the current Write call not yet consumed
    chunkLen,    \* len(chunkBuf)
    chunkIdx,    \* chunks enqueued so far
    accepted,    \* bytes consumed by all Write calls
    \* the channels
    encodeCh, encodeClosed, outCh, outClosed, parCh, parClosed,
    \* the workers
    wpc, wjob,
    \* writeLoop
    lpc, pending, next, cur, groupChunks, groupsDone, plainSize,
    finalGroup, finalKData,
    \* parityLoop
    ppc, blobs, flush, win, q, parOut,
    \* buffers: the ones out of the pool, and what each one holds
    inUse, content,
    \* the destination: file position, and the units written so far
    pos, disk,
    err,         \* p.err # nil
    faults       \* failures so far

callerVars == <<cpc, rest, chunkLen, chunkIdx, accepted>>
encVars    == <<encodeCh, encodeClosed>>
outVars    == <<outCh, outClosed>>
parVars    == <<parCh, parClosed>>
workerVars == <<wpc, wjob>>
countVars  == <<groupChunks, groupsDone, plainSize>>
finalVars  == <<finalGroup, finalKData>>
loopVars   == <<lpc, pending, next, cur, countVars, finalVars>>
groupVars  == <<blobs, win, q, parOut>>
parityVars == <<ppc, flush, groupVars>>
poolVars   == <<inUse, content>>
fileVars   == <<pos, disk>>
faultVars  == <<err, faults>>

vars == <<spec, callerVars, encVars, outVars, parVars, workerVars, loopVars,
          parityVars, poolVars, fileVars, faultVars>>

-----------------------------------------------------------------------------
(* The values that move through the channels: chunkJob (which has a disk   *)
(* image exactly when it has a buffer) and parityMsg.                      *)
Job == [idx : Nat, plainLen : 1..ChunkPlainSize, failed : BOOLEAN,
        blob : Bufs \cup {NoBuf}]
NewJob(i, n) == [idx |-> i, plainLen |-> n, failed |-> FALSE, blob |-> NoBuf]
NoJob == [idx |-> -1, plainLen |-> 1, failed |-> FALSE, blob |-> NoBuf]

ParityMsg == [flush : BOOLEAN, g : Nat, kData : Nat, blob : Bufs \cup {NoBuf}]
BlobMsg(b) == [flush |-> FALSE, g |-> 0, kData |-> 0, blob |-> b]
\* mutant: the group is counted before its flush is sent
FlushMsgNextGroup(g, k) == [flush |-> TRUE, g |-> g + 1, kData |-> k, blob |-> NoBuf]
FlushMsg(g, k) == [flush |-> TRUE, g |-> g, kData |-> k, blob |-> NoBuf]

(* What a unit of the file holds: window w of data blob i, window w of the *)
(* n-th parity blob computed from the blobs of the chunks in src, the      *)
(* trailer, or whatever an interrupted write left there.                   *)
DataUnit(i, w) == [kind |-> "data", chunk |-> i, win |-> w]
ParityUnit(src, n, w) == [kind |-> "parity", src |-> src, q |-> n, win |-> w]
TrailerUnit(cc, ps) == [kind |-> "trailer", chunkCount |-> cc, plainSize |-> ps]
TornUnit == [kind |-> "torn"]

DataBlock(i) == [w \in 1..Windows |-> DataUnit(i, w - 1)]

\* the file d after block (a sequence of units) is written at offset off
Overlay(d, off, block) ==
    [u \in DOMAIN d \cup (off .. off + Len(block) - 1) |->
        IF u \in off .. off + Len(block) - 1 THEN block[u - off + 1] ELSE d[u]]

(* seekWrite is two calls on the destination: Seek sets the position, and  *)
(* Write puts the bytes wherever the position is by then.                  *)
Seek(blobOff, w) == pos' = blobOff * Windows + w /\ UNCHANGED disk

WriteBlock(block) ==
    /\ disk' = Overlay(disk, pos, block)
    /\ pos' = pos + Len(block)

\* a Write of n units that fails writes nothing, or a part
TearFile(n) ==
    \/ UNCHANGED fileVars
    \/ \E k \in 1..n : WriteBlock([u \in 1..k |-> TornUnit])

\* mutant: a failure that is not stored
FaultDropped == faults < MaxFaults /\ faults' = faults + 1 /\ UNCHANGED err

\* a call that fails (Seek, Write or an encoder) and its errStore
Fault == faults < MaxFaults /\ faults' = faults + 1 /\ err' = TRUE

Init ==
    /\ spec \in PipeSpecs
    /\ cpc = "idle" /\ rest = 0 /\ chunkLen = 0 /\ chunkIdx = 0 /\ accepted = 0
    /\ encodeCh = << >> /\ encodeClosed = FALSE
    /\ outCh = << >> /\ outClosed = FALSE
    /\ parCh = << >> /\ parClosed = FALSE
    /\ wpc = [w \in Workers |-> "recv"] /\ wjob = [w \in Workers |-> NoJob]
    /\ lpc = "scan" /\ pending = {} /\ next = 0 /\ cur = NoJob
    /\ groupChunks = 0 /\ groupsDone = 0 /\ plainSize = 0
    /\ finalGroup = 0 /\ finalKData = 0
    /\ ppc = "recv" /\ flush = FlushMsg(0, 0)
    /\ blobs = << >> /\ win = 0 /\ q = 0 /\ parOut = << >>
    /\ inUse = {} /\ content = [b \in Bufs |-> -1]
    /\ pos = 0 /\ disk = << >>
    /\ err = FALSE /\ faults = 0

-----------------------------------------------------------------------------
(* The caller is one goroutine (Writer is not safe for concurrent use): it *)
(* calls Write any number of times and then Close.  The variables of the   *)
(* other goroutines that no step of the caller touches are in CallerFrame. *)
CallerFrame == UNCHANGED <<spec, workerVars, loopVars, parityVars, poolVars>>

\* Pipeline.Write: refused with the sticky error, else its loop starts
Write(n) ==
    /\ cpc = "idle" /\ ~err
    /\ accepted + n <= MaxBytes
    /\ cpc' = "write" /\ rest' = n
    /\ UNCHANGED <<chunkLen, chunkIdx, accepted, encVars, outVars, parVars,
                   fileVars, faultVars>>

\* one turn of the loop: bytes go to chunkBuf
FillChunk ==
    /\ cpc = "write" /\ rest > 0 /\ chunkLen < ChunkPlainSize
    /\ LET n == Lesser(ChunkPlainSize - chunkLen, rest)
       IN  chunkLen' = chunkLen + n /\ rest' = rest - n /\ accepted' = accepted + n
    /\ UNCHANGED <<cpc, chunkIdx, encVars, outVars, parVars, fileVars, faultVars>>

\* enqueueChunk blocks while encodeCh is full; Drain enqueues a partial chunk
EnqueueChunk ==
    /\ \/ cpc = "write" /\ chunkLen = ChunkPlainSize
       \/ cpc = "drain" /\ chunkLen > 0
    /\ Len(encodeCh) < EncodeCap
    /\ encodeCh' = Append(encodeCh, NewJob(chunkIdx, chunkLen))
    /\ chunkIdx' = chunkIdx + 1 /\ chunkLen' = 0
    /\ UNCHANGED <<cpc, rest, accepted, encodeClosed, outVars, parVars,
                   fileVars, faultVars>>

CallerGoes(to) == cpc' = to /\ UNCHANGED <<rest, chunkLen, chunkIdx, accepted>>

WriteReturns ==
    /\ cpc = "write" /\ rest = 0 /\ chunkLen < ChunkPlainSize
    /\ CallerGoes("idle")
    /\ UNCHANGED <<encVars, outVars, parVars, fileVars, faultVars>>

Close ==
    /\ cpc = "idle"
    /\ CallerGoes("drain")
    /\ UNCHANGED <<encVars, outVars, parVars, fileVars, faultVars>>

\* mutant: Drain drops the partial chunk
DrainDropsPartial ==
    /\ cpc = "drain"
    /\ encodeClosed' = TRUE
    /\ CallerGoes("waitWorkers")
    /\ UNCHANGED <<encodeCh, outVars, parVars, fileVars, faultVars>>

DrainCloseEncode ==
    /\ cpc = "drain" /\ chunkLen = 0
    /\ encodeClosed' = TRUE
    /\ CallerGoes("waitWorkers")
    /\ UNCHANGED <<encodeCh, outVars, parVars, fileVars, faultVars>>

\* wg.Wait, then close(outCh)
DrainCloseOut ==
    /\ cpc = "waitWorkers" /\ \A w \in Workers : wpc[w] = "done"
    /\ outClosed' = TRUE
    /\ CallerGoes("waitLoop")
    /\ UNCHANGED <<encVars, outCh, parVars, fileVars, faultVars>>

\* <-doneCh, then the flush of the last group when it is not empty
DrainFlushLast ==
    /\ cpc = "waitLoop" /\ lpc = "done" /\ finalKData > 0
    /\ Len(parCh) < ParCap
    /\ parCh' = Append(parCh, FlushMsg(finalGroup, finalKData))
    /\ CallerGoes("closePar")
    /\ UNCHANGED <<encVars, outVars, parClosed, fileVars, faultVars>>

\* mutants: the short last group gets no flush; parCh is never closed
DrainSkipsLastGroup ==
    /\ cpc = "closePar" \/ (cpc = "waitLoop" /\ lpc = "done")
    /\ parClosed' = TRUE
    /\ CallerGoes("waitParity")
    /\ UNCHANGED <<encVars, outVars, parCh, fileVars, faultVars>>
DrainLeavesParOpen ==
    /\ cpc = "closePar" \/ (cpc = "waitLoop" /\ lpc = "done" /\ finalKData = 0)
    /\ CallerGoes("waitParity")
    /\ UNCHANGED <<encVars, outVars, parVars, fileVars, faultVars>>

DrainClosePar ==
    /\ \/ cpc = "closePar"
       \/ cpc = "waitLoop" /\ lpc = "done" /\ finalKData = 0
    /\ parClosed' = TRUE
    /\ CallerGoes("waitParity")
    /\ UNCHANGED <<encVars, outVars, parCh, fileVars, faultVars>>

\* mutant: Drain does not wait for parDone
DrainDoesNotWait ==
    /\ cpc = "waitParity"
    /\ CallerGoes(IF err THEN "failed" ELSE "seekTrailer")
    /\ UNCHANGED <<encVars, outVars, parVars, fileVars, faultVars>>

\* <-parDone, then errLoad: an error ends Close without a trailer
DrainReturns ==
    /\ cpc = "waitParity" /\ ppc = "done"
    /\ CallerGoes(IF err THEN "failed" ELSE "seekTrailer")
    /\ UNCHANGED <<encVars, outVars, parVars, fileVars, faultVars>>

\* writeTrailer returns its failures, it does not store them in p.err
TrailerFault ==
    /\ faults < MaxFaults /\ faults' = faults + 1 /\ UNCHANGED err
    /\ CallerGoes("failed")

SeekTrailer ==
    /\ cpc = "seekTrailer"
    /\ \/ /\ Seek(TotalBlobCount(spec, chunkIdx), 0)
          /\ CallerGoes("writeTrailer") /\ UNCHANGED faultVars
       \/ TrailerFault /\ UNCHANGED fileVars
    /\ UNCHANGED <<encVars, outVars, parVars>>

WriteTrailer ==
    /\ cpc = "writeTrailer"
    /\ \/ /\ WriteBlock(<<TrailerUnit(chunkIdx, plainSize)>>)
          /\ CallerGoes("committed") /\ UNCHANGED faultVars
       \/ TrailerFault /\ TearFile(1)
    /\ UNCHANGED <<encVars, outVars, parVars>>

\* after Close every call is refused with ErrClosed and does nothing
CallAfterClose == cpc \in {"committed", "failed"} /\ UNCHANGED vars

-----------------------------------------------------------------------------
(* workerLoop and encodeJob.                                               *)
WorkerFrame == UNCHANGED <<spec, callerVars, parVars, loopVars, parityVars, fileVars>>

WorkerTake(w) ==
    /\ wpc[w] = "recv" /\ encodeCh # << >>
    /\ wjob' = [wjob EXCEPT ![w] = Head(encodeCh)]
    /\ encodeCh' = Tail(encodeCh)
    /\ wpc' = [wpc EXCEPT ![w] = "encode"]
    /\ UNCHANGED <<encodeClosed, outVars, poolVars, faultVars>>

(* errLoad, then encodeJob.  The blob and par buffers come from the pool   *)
(* and go with the job; an encoder that fails gives them back.             *)
WorkerEncode(w) ==
    /\ wpc[w] = "encode"
    /\ wpc' = [wpc EXCEPT ![w] = "send"]
    /\ \/ /\ ~err /\ UNCHANGED faultVars
          /\ \E b \in Bufs \ inUse :
               /\ inUse' = inUse \cup {b}
               /\ content' = [content EXCEPT ![b] = wjob[w].idx]
               /\ wjob' = [wjob EXCEPT ![w].blob = b]
       \/ /\ (~err /\ Fault) \/ (err /\ UNCHANGED faultVars)
          /\ wjob' = [wjob EXCEPT ![w].failed = TRUE]
          /\ UNCHANGED poolVars
    /\ UNCHANGED <<encVars, outVars>>

\* mutant: encodeJob puts the buffer back into the pool itself
WorkerSendRecycles(w) ==
    /\ wpc[w] = "send" /\ Len(outCh) < OutCap
    /\ outCh' = Append(outCh, wjob[w])
    /\ wjob' = [wjob EXCEPT ![w] = NoJob]
    /\ wpc' = [wpc EXCEPT ![w] = "recv"]
    /\ inUse' = inUse \ {wjob[w].blob}
    /\ UNCHANGED <<encVars, outClosed, content, faultVars>>

WorkerSend(w) ==
    /\ wpc[w] = "send" /\ Len(outCh) < OutCap
    /\ outCh' = Append(outCh, wjob[w])
    /\ wjob' = [wjob EXCEPT ![w] = NoJob]
    /\ wpc' = [wpc EXCEPT ![w] = "recv"]
    /\ UNCHANGED <<encVars, outClosed, poolVars, faultVars>>

WorkerExit(w) ==
    /\ wpc[w] = "recv" /\ encodeCh = << >> /\ encodeClosed
    /\ wpc' = [wpc EXCEPT ![w] = "done"]
    /\ UNCHANGED <<encVars, outVars, wjob, poolVars, faultVars>>

-----------------------------------------------------------------------------
(* writeLoop: jobs arrive in any order and are written in index order.     *)
LoopFrame == UNCHANGED <<spec, callerVars, encVars, outClosed, parClosed,
                         workerVars, parityVars, poolVars>>

\* mutant: jobs are written in the order in which they arrive
ReadyInAnyOrder == pending

\* pending[next], when it has arrived
Ready == {j \in pending : j.idx = next}

LoopReceive ==
    /\ lpc = "scan" /\ Ready = {} /\ outCh # << >>
    /\ pending' = pending \cup {Head(outCh)}
    /\ outCh' = Tail(outCh)
    /\ UNCHANGED <<parCh, lpc, next, cur, countVars, finalVars, fileVars, faultVars>>

LoopSkipFailed ==
    /\ lpc = "scan"
    /\ \E j \in Ready : j.failed /\ pending' = pending \ {j}
    /\ next' = next + 1
    /\ UNCHANGED <<outCh, parCh, lpc, cur, countVars, finalVars, fileVars, faultVars>>

\* the end of the turn for the current job
LoopAdvances == next' = next + 1 /\ cur' = NoJob /\ lpc' = "scan"

LoopSeek ==
    /\ lpc = "scan"
    /\ \E j \in Ready :
         /\ ~j.failed
         /\ pending' = pending \ {j}
         /\ \/ /\ Seek(DataBlobOffset(spec, j.idx), 0) /\ UNCHANGED faultVars
               /\ cur' = j /\ lpc' = "write" /\ UNCHANGED next
            \/ Fault /\ LoopAdvances /\ UNCHANGED fileVars
    /\ UNCHANGED <<outCh, parCh, countVars, finalVars>>

LoopWrite ==
    /\ lpc = "write"
    /\ \/ /\ WriteBlock(DataBlock(cur.idx)) /\ UNCHANGED faultVars
          /\ plainSize' = plainSize + cur.plainLen
          /\ groupChunks' = groupChunks + 1
          /\ lpc' = "hand" /\ UNCHANGED <<next, cur>>
       \/ /\ Fault /\ TearFile(Windows)
          /\ LoopAdvances /\ UNCHANGED <<plainSize, groupChunks>>
    /\ UNCHANGED <<outCh, parCh, pending, groupsDone, finalVars>>

\* the buffers go to parityLoop, and a flush follows the last of a group
LoopHandOver ==
    /\ lpc = "hand" /\ Len(parCh) < ParCap
    /\ parCh' = Append(parCh, BlobMsg(cur.blob))
    /\ IF groupChunks = FileGroupChunks
       THEN lpc' = "flush" /\ UNCHANGED <<next, cur>>
       ELSE LoopAdvances
    /\ UNCHANGED <<outCh, pending, countVars, finalVars, fileVars, faultVars>>

\* mutant: groupChunks is not reset
LoopFlushNoReset ==
    /\ lpc = "flush" /\ Len(parCh) < ParCap
    /\ parCh' = Append(parCh, FlushMsg(groupsDone, FileGroupChunks))
    /\ groupsDone' = groupsDone + 1
    /\ LoopAdvances
    /\ UNCHANGED <<outCh, pending, groupChunks, plainSize, finalVars, fileVars, faultVars>>

LoopFlushGroup ==
    /\ lpc = "flush" /\ Len(parCh) < ParCap
    /\ parCh' = Append(parCh, FlushMsg(groupsDone, FileGroupChunks))
    /\ groupsDone' = groupsDone + 1 /\ groupChunks' = 0
    /\ LoopAdvances
    /\ UNCHANGED <<outCh, pending, plainSize, finalVars, fileVars, faultVars>>

\* outCh is closed and empty: a job still pending is an ordering loss
LoopExit ==
    /\ lpc = "scan" /\ Ready = {} /\ outCh = << >> /\ outClosed
    /\ lpc' = "done"
    /\ err' = (err \/ pending # {})
    /\ finalGroup' = groupsDone /\ finalKData' = groupChunks
    /\ UNCHANGED <<outCh, parCh, pending, next, cur, countVars, fileVars, faults>>

-----------------------------------------------------------------------------
(* parityLoop and writeParityGroup: the buffers of a group accumulate; at  *)
(* a flush each window is encoded and written to every parity blob.        *)
ParityFrame == UNCHANGED <<spec, callerVars, encVars, outVars, parClosed,
                           workerVars, loopVars, content>>

ParityReceiveBlob ==
    /\ ppc = "recv" /\ parCh # << >> /\ ~Head(parCh).flush
    /\ blobs' = Append(blobs, Head(parCh).blob)
    /\ parCh' = Tail(parCh)
    /\ UNCHANGED <<ppc, flush, win, q, parOut, inUse, fileVars, faultVars>>

\* the flush is over: every buffer of the group goes back to the pool
ReleaseGroup ==
    /\ inUse' = inUse \ {blobs[i] : i \in 1..Len(blobs)}
    /\ blobs' = << >> /\ parOut' = << >> /\ win' = 0 /\ q' = 0
    /\ ppc' = "recv"

ParityReceiveFlush ==
    /\ ppc = "recv" /\ parCh # << >> /\ Head(parCh).flush
    /\ parCh' = Tail(parCh)
    /\ flush' = Head(parCh)
    /\ IF Len(blobs) # Head(parCh).kData
       THEN ReleaseGroup /\ err' = TRUE
       ELSE ppc' = "encode" /\ UNCHANGED <<groupVars, inUse, err>>
    /\ UNCHANGED <<fileVars, faults>>

\* File(kData, m) and Encode of one window, straight from the buffers
ParityEncode ==
    /\ ppc = "encode"
    /\ \/ /\ parOut' = [i \in 1..flush.kData |-> content[blobs[i]]]
          /\ q' = 0 /\ ppc' = "seek"
          /\ UNCHANGED <<blobs, win, inUse, faultVars>>
       \/ Fault /\ ReleaseGroup
    /\ UNCHANGED <<parCh, flush, fileVars>>

ParitySeek ==
    /\ ppc = "seek"
    /\ \/ /\ Seek(ParityBlobOffset(spec, flush.g, flush.kData, q), win)
          /\ ppc' = "write" /\ UNCHANGED <<groupVars, inUse, faultVars>>
       \/ Fault /\ ReleaseGroup /\ UNCHANGED fileVars
    /\ UNCHANGED <<parCh, flush>>

\* the window goes to parity blob q; then the next q, the next window, the end
ParityWrite ==
    /\ ppc = "write"
    /\ \/ /\ WriteBlock(<<ParityUnit(parOut, q, win)>>) /\ UNCHANGED faultVars
          /\ CASE q + 1 < ParityCountFor(spec, flush.kData) ->
                    /\ q' = q + 1 /\ ppc' = "seek"
                    /\ UNCHANGED <<blobs, win, parOut, inUse>>
               [] q + 1 >= ParityCountFor(spec, flush.kData) /\ win + 1 < Windows ->
                    /\ win' = win + 1 /\ ppc' = "encode"
                    /\ UNCHANGED <<blobs, q, parOut, inUse>>
               [] OTHER -> ReleaseGroup
       \/ Fault /\ TearFile(1) /\ ReleaseGroup
    /\ UNCHANGED <<parCh, flush>>

ParityExit ==
    /\ ppc = "recv" /\ parCh = << >> /\ parClosed
    /\ ppc' = "done"
    /\ UNCHANGED <<parCh, flush, groupVars, inUse, fileVars, faultVars>>

-----------------------------------------------------------------------------
\* the steps inside a call; beginning a call is the user's choice
CallerRuns ==
    /\ \/ FillChunk \/ EnqueueChunk \/ WriteReturns
       \/ DrainCloseEncode \/ DrainCloseOut \/ DrainFlushLast \/ DrainClosePar
       \/ DrainReturns \/ SeekTrailer \/ WriteTrailer
    /\ CallerFrame

UserCalls == ((\E n \in 1..MaxBytes : Write(n)) \/ Close) /\ CallerFrame

Worker(w) ==
    /\ WorkerTake(w) \/ WorkerEncode(w) \/ WorkerSend(w) \/ WorkerExit(w)
    /\ WorkerFrame

WriteLoop ==
    /\ \/ LoopReceive \/ LoopSkipFailed \/ LoopSeek \/ LoopWrite
       \/ LoopHandOver \/ LoopFlushGroup \/ LoopExit
    /\ LoopFrame

ParityLoop ==
    /\ \/ ParityReceiveBlob \/ ParityReceiveFlush \/ ParityEncode
       \/ ParitySeek \/ ParityWrite \/ ParityExit
    /\ ParityFrame

Next ==
    \/ UserCalls \/ CallerRuns \/ CallAfterClose
    \/ \E w \in Workers : Worker(w)
    \/ WriteLoop \/ ParityLoop

Spec == Init /\ [][Next]_vars

(* The Go scheduler runs every goroutine that is not blocked.  Nothing     *)
(* makes the user call Write or Close.                                     *)
Fairness ==
    /\ WF_vars(CallerRuns)
    /\ \A w \in Workers : WF_vars(Worker(w))
    /\ WF_vars(WriteLoop)
    /\ WF_vars(ParityLoop)

FairSpec == Spec /\ Fairness
=============================================================================
