--------------------------- MODULE PipelineProofs ---------------------------
(***************************************************************************)
(* What is proved of the write path, for every number of workers, every    *)
(* channel capacity, group size, buffer pool and bound: its types, when    *)
(* the trailer is written, and what a Close that writes it has seen.       *)
(***************************************************************************)
EXTENDS PipelineProps, LayoutLemmas, SequenceTheorems

(* The type invariant is not inductive as it stands.  What has to be known *)
(* besides: a job has its buffer once it is encoded, and only a job that   *)
(* failed has none; writeLoop flushes a group when it is full, so it never *)
(* counts past FileGroupChunks; and parityLoop encodes a group only when   *)
(* it has the blobs the flush announced.                                   *)
EncodedJob == {j \in Job : ~j.failed => j.blob \in Bufs}
PassedMsg == {m \in ParityMsg : ~m.flush => m.blob \in Bufs}

ChannelInv ==
    /\ ChannelTypeOK
    /\ outCh \in Seq(EncodedJob) /\ parCh \in Seq(PassedMsg)

WorkerInv ==
    /\ WorkerTypeOK
    /\ \A w \in Workers :
         /\ wpc[w] \in {"encode", "send"} => wjob[w] \in Job
         /\ wpc[w] = "send" => wjob[w] \in EncodedJob

LoopInv ==
    /\ LoopTypeOK
    /\ pending \subseteq EncodedJob
    /\ lpc \in {"write", "hand"} => cur \in Job /\ cur.blob \in Bufs
    /\ lpc \in {"scan", "write"} => groupChunks < FileGroupChunks

ParityInv ==
    /\ ParityTypeOK
    /\ ppc \in {"encode", "seek", "write"} => Len(blobs) = flush.kData

TypeInv ==
    CallerTypeOK /\ ChannelInv /\ WorkerInv /\ LoopInv /\ ParityInv /\ SharedTypeOK

-----------------------------------------------------------------------------
\* the values made by the constructors
LEMMA Constructors ==
  /\ \A i \in Nat, n \in 1 .. ChunkPlainSize : NewJob(i, n) \in Job
  /\ \A b \in Bufs : BlobMsg(b) \in PassedMsg
  /\ \A g, k \in Nat : FlushMsg(g, k) \in PassedMsg
  BY DEF Job, NewJob, BlobMsg, FlushMsg, ParityMsg, PassedMsg

\* a write moves the file position to a natural number
LEMMA WriteMoves ==
  ASSUME pos \in Nat
  PROVE  /\ \A i : WriteBlock(DataBlock(i)) => pos' \in Nat
         /\ \A x : WriteBlock(<<x>>) => pos' \in Nat
         /\ \A n \in Nat : TearFile(n) => pos' \in Nat
  <1>1. \A i : Len(DataBlock(i)) = Windows /\ Windows \in Nat
    BY PipelineAssumption, SMT DEF DataBlock
  <1>2. \A k \in Nat : Len([u \in 1 .. k |-> TornUnit]) = k
    BY SMT
  <1>3. \A x : Len(<<x>>) = 1
    OBVIOUS
  <1>4. ASSUME NEW n \in Nat, TearFile(n) PROVE pos' \in Nat
    <2>1. CASE UNCHANGED fileVars
      BY <2>1 DEF fileVars
    <2>2. CASE \E k \in 1 .. n : WriteBlock([u \in 1 .. k |-> TornUnit])
      <3>1. PICK k \in 1 .. n : WriteBlock([u \in 1 .. k |-> TornUnit])
        BY <2>2
      <3>2. pos' = pos + k
        BY <1>2, <3>1 DEF WriteBlock
      <3> QED
        BY <3>2
    <2> QED
      BY <1>4, <2>1, <2>2 DEF TearFile
  <1> QED
    BY <1>1, <1>3, <1>4 DEF WriteBlock

\* a seek too
LEMMA SeekMoves ==
  ASSUME NEW off \in Nat, NEW w \in Nat, Seek(off, w)
  PROVE  pos' \in Nat
  <1>1. off * Windows \in Nat
    BY PipelineAssumption, SMT
  <1> QED
    BY <1>1 DEF Seek

\* a failure is counted, and makes the error sticky
LEMMA FaultType ==
  ASSUME SharedTypeOK, Fault \/ UNCHANGED faultVars
  PROVE  err' \in BOOLEAN /\ faults' \in 0 .. MaxFaults
  <1>1. CASE Fault
    BY <1>1, PipelineAssumption DEF SharedTypeOK, Fault
  <1>2. CASE UNCHANGED faultVars
    BY <1>2 DEF SharedTypeOK, faultVars
  <1> QED
    BY <1>1, <1>2

LEMMA InitTypeInv == Init => TypeInv
  <1> SUFFICES ASSUME Init PROVE TypeInv
    OBVIOUS
  <1> USE LayoutAssumption, PipelineAssumption DEF Init
  <1>1. CallerTypeOK /\ ChannelInv
    <2>1. CallerTypeOK
      BY DEF CallerTypeOK
    <2>2. \A S : << >> \in Seq(S)
      BY EmptySeq
    <2>3. ChannelInv
      BY <2>2 DEF ChannelInv, ChannelTypeOK
    <2> QED
      BY <2>1, <2>3
  <1>2. WorkerInv
    BY DEF WorkerInv, WorkerTypeOK
  <1>3. LoopInv
    BY DEF LoopInv, LoopTypeOK
  <1>4. ParityInv
    <2>1. FlushMsg(0, 0) \in ParityMsg
      BY DEF FlushMsg, ParityMsg
    <2>2. \A S : << >> \in Seq(S)
      BY EmptySeq
    <2> QED
      BY <2>1, <2>2 DEF ParityInv, ParityTypeOK
  <1>5. SharedTypeOK
    <2>1. spec \in LayoutSpecs /\ inUse \subseteq Bufs /\ pos \in Nat
      OBVIOUS
    <2>2. content \in [Bufs -> Nat \cup {-1}]
      OBVIOUS
    <2>3. err \in BOOLEAN
      BY Zenon
    <2>4. faults \in 0 .. MaxFaults
      OBVIOUS
    <2> QED
      BY <2>1, <2>2, <2>3, <2>4 DEF SharedTypeOK
  <1> QED
    BY <1>1, <1>2, <1>3, <1>4, <1>5 DEF TypeInv

-----------------------------------------------------------------------------
\* what a part of the invariant is about
LEMMA Frames ==
  /\ CallerTypeOK /\ UNCHANGED callerVars => CallerTypeOK'
  /\ ChannelInv /\ UNCHANGED <<encVars, outVars, parVars>> => ChannelInv'
  /\ WorkerInv /\ UNCHANGED workerVars => WorkerInv'
  /\ LoopInv /\ UNCHANGED loopVars => LoopInv'
  /\ ParityInv /\ UNCHANGED parityVars => ParityInv'
  /\ SharedTypeOK /\ UNCHANGED <<spec, poolVars, fileVars, faultVars>> => SharedTypeOK'
  <1>1. CallerTypeOK /\ UNCHANGED callerVars => CallerTypeOK'
    BY DEF CallerTypeOK, callerVars
  <1>2. ChannelInv /\ UNCHANGED <<encVars, outVars, parVars>> => ChannelInv'
    BY DEF ChannelInv, ChannelTypeOK, encVars, outVars, parVars
  <1>3. WorkerInv /\ UNCHANGED workerVars => WorkerInv'
    BY DEF WorkerInv, WorkerTypeOK, workerVars
  <1>4. LoopInv /\ UNCHANGED loopVars => LoopInv'
    BY DEF LoopInv, LoopTypeOK, loopVars, countVars, finalVars
  <1>5. ParityInv /\ UNCHANGED parityVars => ParityInv'
    BY DEF ParityInv, ParityTypeOK, parityVars, groupVars
  <1>6. SharedTypeOK /\ UNCHANGED <<spec, poolVars, fileVars, faultVars>> => SharedTypeOK'
    BY DEF SharedTypeOK, poolVars, fileVars, faultVars
  <1> QED
    BY <1>1, <1>2, <1>3, <1>4, <1>5, <1>6

(* The caller: Write, Close and the steps of Drain and writeTrailer.       *)
LEMMA CallerType ==
  ASSUME TypeInv, CallerRuns \/ UserCalls
  PROVE  TypeInv'
  <1> USE DEF CallerGoes
  <1>0. CallerTypeOK /\ ChannelInv /\ SharedTypeOK
    BY DEF TypeInv
  <1>1. WorkerInv' /\ LoopInv' /\ ParityInv'
    BY Frames DEF TypeInv, CallerFrame, CallerRuns, UserCalls
  <1>2. UNCHANGED <<spec, poolVars>>
    BY DEF CallerFrame, CallerRuns, UserCalls
  <1>3. CASE \E n \in 1 .. MaxBytes : Write(n)
    <2>1. CallerTypeOK'
      BY <1>0, <1>3 DEF Write, CallerTypeOK
    <2>2. ChannelInv' /\ SharedTypeOK'
      BY <1>0, <1>2, <1>3, Frames DEF Write
    <2> QED
      BY <1>1, <2>1, <2>2 DEF TypeInv
  <1>4. CASE FillChunk
    <2>1. CallerTypeOK'
      BY <1>0, <1>4, PipelineAssumption DEF FillChunk, Lesser, CallerTypeOK
    <2>2. ChannelInv' /\ SharedTypeOK'
      BY <1>0, <1>2, <1>4, Frames DEF FillChunk
    <2> QED
      BY <1>1, <2>1, <2>2 DEF TypeInv
  <1>5. CASE EnqueueChunk
    <2>1. CallerTypeOK'
      BY <1>0, <1>5, PipelineAssumption DEF EnqueueChunk, CallerTypeOK
    <2>2. ChannelInv'
      <3>1. NewJob(chunkIdx, chunkLen) \in Job
        BY <1>0, <1>5, Constructors, PipelineAssumption DEF EnqueueChunk, CallerTypeOK
      <3> QED
        BY <1>0, <1>5, <3>1
        DEF EnqueueChunk, ChannelInv, ChannelTypeOK, outVars, parVars
    <2>3. SharedTypeOK'
      BY <1>0, <1>2, <1>5, Frames DEF EnqueueChunk
    <2> QED
      BY <1>1, <2>1, <2>2, <2>3 DEF TypeInv
  <1>6. CASE WriteReturns \/ Close
    <2>1. CallerTypeOK'
      BY <1>0, <1>6 DEF WriteReturns, Close, CallerTypeOK
    <2>2. ChannelInv' /\ SharedTypeOK'
      BY <1>0, <1>2, <1>6, Frames DEF WriteReturns, Close
    <2> QED
      BY <1>1, <2>1, <2>2 DEF TypeInv
  <1>7. CASE DrainCloseEncode \/ DrainCloseOut \/ DrainClosePar \/ DrainReturns
    <2> USE DEF DrainCloseEncode, DrainCloseOut, DrainClosePar, DrainReturns
    <2>1. CallerTypeOK'
      BY <1>0, <1>7 DEF CallerTypeOK
    <2>2. ChannelInv'
      BY <1>0, <1>7 DEF ChannelInv, ChannelTypeOK, encVars, outVars, parVars
    <2>3. SharedTypeOK'
      BY <1>0, <1>2, <1>7, Frames
    <2> QED
      BY <1>1, <2>1, <2>2, <2>3 DEF TypeInv
  <1>8. CASE DrainFlushLast
    <2>1. CallerTypeOK'
      BY <1>0, <1>8 DEF DrainFlushLast, CallerTypeOK
    <2>2. ChannelInv'
      <3>1. FlushMsg(finalGroup, finalKData) \in PassedMsg
        BY Constructors, LayoutAssumption DEF TypeInv, LoopInv, LoopTypeOK
      <3>2. FlushMsg(finalGroup, finalKData) \in ParityMsg
        BY <3>1 DEF PassedMsg
      <3> QED
        BY <1>0, <1>8, <3>1, <3>2
        DEF DrainFlushLast, ChannelInv, ChannelTypeOK, encVars, outVars
    <2>3. SharedTypeOK'
      BY <1>0, <1>2, <1>8, Frames DEF DrainFlushLast
    <2> QED
      BY <1>1, <2>1, <2>2, <2>3 DEF TypeInv
  <1>9. ASSUME SeekTrailer \/ WriteTrailer PROVE TypeInv'
    <2> USE DEF SeekTrailer, WriteTrailer, TrailerFault
    <2>1. CallerTypeOK'
      BY <1>0, <1>9 DEF CallerTypeOK
    <2>2. ChannelInv'
      BY <1>0, <1>9, Frames
    <2>3. pos' \in Nat
      <3>1. pos \in Nat /\ TotalBlobCount(spec, chunkIdx) \in Nat
        BY <1>0, OffsetsAreNat DEF SharedTypeOK, CallerTypeOK
      <3>2. CASE SeekTrailer
        BY <3>1, <3>2, SeekMoves DEF fileVars
      <3>3. CASE WriteTrailer
        BY <3>1, <3>3, WriteMoves
      <3> QED
        BY <1>9, <3>2, <3>3
    <2>4. SharedTypeOK'
      BY <1>0, <1>2, <1>9, <2>3, PipelineAssumption
      DEF SharedTypeOK, poolVars, faultVars
    <2> QED
      BY <1>1, <2>1, <2>2, <2>4 DEF TypeInv
  <1> QED
    BY <1>3, <1>4, <1>5, <1>6, <1>7, <1>8, <1>9 DEF CallerRuns, UserCalls

(* The workers: workerLoop and encodeJob.                                  *)
LEMMA WorkerType ==
  ASSUME TypeInv, NEW w \in Workers, Worker(w)
  PROVE  TypeInv'
  <1>0. ChannelInv /\ WorkerInv /\ SharedTypeOK
    BY DEF TypeInv
  <1>1. CallerTypeOK' /\ LoopInv' /\ ParityInv'
    BY Frames DEF TypeInv, WorkerFrame, Worker
  <1>2. UNCHANGED <<spec, parVars, fileVars>>
    BY DEF WorkerFrame, Worker
  <1>3. CASE WorkerTake(w)
    <2>1. encodeCh \in Seq(Job) /\ encodeCh # << >>
      BY <1>0, <1>3 DEF WorkerTake, ChannelInv, ChannelTypeOK
    <2>2. Head(encodeCh) \in Job /\ Tail(encodeCh) \in Seq(Job)
      BY <2>1, HeadTailProperties
    <2>3. ChannelInv'
      BY <1>0, <1>2, <1>3, <2>2
      DEF WorkerTake, ChannelInv, ChannelTypeOK, outVars, parVars
    <2>4. WorkerInv'
      BY <1>0, <1>3, <2>2 DEF WorkerTake, WorkerInv, WorkerTypeOK
    <2>5. SharedTypeOK'
      BY <1>0, <1>2, <1>3, Frames DEF WorkerTake
    <2> QED
      BY <1>1, <2>3, <2>4, <2>5 DEF TypeInv
  <1>4. CASE WorkerEncode(w)
    <2>0. wjob[w] \in Job
      BY <1>0, <1>4 DEF WorkerInv, WorkerEncode
    <2>1. ChannelInv'
      BY <1>0, <1>2, <1>4, Frames DEF WorkerEncode
    <2>2. CASE /\ ~err /\ UNCHANGED faultVars
               /\ \E b \in Bufs \ inUse :
                    /\ inUse' = inUse \cup {b}
                    /\ content' = [content EXCEPT ![b] = wjob[w].idx]
                    /\ wjob' = [wjob EXCEPT ![w].blob = b]
      <3>1. PICK b \in Bufs \ inUse :
              /\ inUse' = inUse \cup {b}
              /\ content' = [content EXCEPT ![b] = wjob[w].idx]
              /\ wjob' = [wjob EXCEPT ![w].blob = b]
        BY <2>2
      <3>2. [wjob[w] EXCEPT !.blob = b] \in EncodedJob
        BY <2>0 DEF Job, EncodedJob
      <3>3. wjob' = [wjob EXCEPT ![w] = [wjob[w] EXCEPT !.blob = b]]
        BY <3>1
      <3>4. EncodedJob \subseteq Job
        BY DEF EncodedJob
      <3>5. WorkerInv'
        BY <1>0, <1>4, <3>2, <3>3, <3>4 DEF WorkerInv, WorkerTypeOK, WorkerEncode
      <3>6. wjob[w].idx \in Nat
        BY <2>0 DEF Job
      <3>7. SharedTypeOK'
        BY <1>0, <1>2, <2>2, <3>1, <3>6 DEF SharedTypeOK, fileVars, faultVars
      <3> QED
        BY <1>1, <2>1, <3>5, <3>7 DEF TypeInv
    <2>3. CASE /\ (~err /\ Fault) \/ (err /\ UNCHANGED faultVars)
               /\ wjob' = [wjob EXCEPT ![w].failed = TRUE]
               /\ UNCHANGED poolVars
      <3>1. [wjob[w] EXCEPT !.failed = TRUE] \in EncodedJob
        BY <2>0 DEF Job, EncodedJob
      <3>2. wjob' = [wjob EXCEPT ![w] = [wjob[w] EXCEPT !.failed = TRUE]]
        BY <2>3
      <3>3. EncodedJob \subseteq Job
        BY DEF EncodedJob
      <3>4. WorkerInv'
        BY <1>0, <1>4, <3>1, <3>2, <3>3 DEF WorkerInv, WorkerTypeOK, WorkerEncode
      <3>5. SharedTypeOK'
        <4>1. err' \in BOOLEAN /\ faults' \in 0 .. MaxFaults
          BY <1>0, <2>3, FaultType
        <4> QED
          BY <1>0, <1>2, <2>3, <4>1 DEF SharedTypeOK, fileVars, poolVars
      <3> QED
        BY <1>1, <2>1, <3>4, <3>5 DEF TypeInv
    <2> QED
      BY <1>4, <2>2, <2>3 DEF WorkerEncode
  <1>5. CASE WorkerSend(w)
    <2>1. wjob[w] \in EncodedJob /\ wjob[w] \in Job
      BY <1>0, <1>5 DEF WorkerInv, WorkerSend
    <2>2. ChannelInv'
      BY <1>0, <1>2, <1>5, <2>1
      DEF WorkerSend, ChannelInv, ChannelTypeOK, encVars, parVars
    <2>3. WorkerInv'
      BY <1>0, <1>5 DEF WorkerSend, WorkerInv, WorkerTypeOK
    <2>4. SharedTypeOK'
      BY <1>0, <1>2, <1>5, Frames DEF WorkerSend
    <2> QED
      BY <1>1, <2>2, <2>3, <2>4 DEF TypeInv
  <1>6. CASE WorkerExit(w)
    <2>1. WorkerInv'
      BY <1>0, <1>6 DEF WorkerExit, WorkerInv, WorkerTypeOK
    <2>2. ChannelInv' /\ SharedTypeOK'
      BY <1>0, <1>2, <1>6, Frames DEF WorkerExit
    <2> QED
      BY <1>1, <2>1, <2>2 DEF TypeInv
  <1> QED
    BY <1>3, <1>4, <1>5, <1>6 DEF Worker

(* writeLoop.                                                              *)
LEMMA LoopType ==
  ASSUME TypeInv, WriteLoop
  PROVE  TypeInv'
  <1>0. ChannelInv /\ LoopInv /\ SharedTypeOK
    BY DEF TypeInv
  <1>1. CallerTypeOK' /\ WorkerInv' /\ ParityInv'
    BY Frames DEF TypeInv, LoopFrame, WriteLoop
  <1>2. UNCHANGED <<spec, encVars, outClosed, parClosed, poolVars>>
    BY DEF LoopFrame, WriteLoop
  <1>3. CASE LoopReceive
    <2>1. outCh \in Seq(EncodedJob) /\ outCh \in Seq(Job) /\ outCh # << >>
      BY <1>0, <1>3 DEF LoopReceive, ChannelInv, ChannelTypeOK
    <2>2. /\ Head(outCh) \in EncodedJob /\ Tail(outCh) \in Seq(EncodedJob)
          /\ Tail(outCh) \in Seq(Job)
      BY <2>1, HeadTailProperties
    <2>3. ChannelInv'
      BY <1>0, <1>2, <1>3, <2>2 DEF LoopReceive, ChannelInv, ChannelTypeOK, encVars
    <2>4. LoopInv'
      BY <1>0, <1>3, <2>2
      DEF LoopReceive, LoopInv, LoopTypeOK, countVars, finalVars, EncodedJob
    <2>5. SharedTypeOK'
      BY <1>0, <1>2, <1>3, Frames DEF LoopReceive
    <2> QED
      BY <1>1, <2>3, <2>4, <2>5 DEF TypeInv
  <1>4. CASE LoopSkipFailed
    <2>1. ChannelInv' /\ SharedTypeOK'
      BY <1>0, <1>2, <1>4, Frames DEF LoopSkipFailed, outVars, parVars
    <2>2. LoopInv'
      BY <1>0, <1>4 DEF LoopSkipFailed, LoopInv, LoopTypeOK, countVars, finalVars
    <2> QED
      BY <1>1, <2>1, <2>2 DEF TypeInv
  <1>5. CASE LoopSeek
    <2>1. PICK j \in Ready :
            /\ ~j.failed
            /\ pending' = pending \ {j}
            /\ \/ /\ Seek(DataBlobOffset(spec, j.idx), 0) /\ UNCHANGED faultVars
                  /\ cur' = j /\ lpc' = "write" /\ UNCHANGED next
               \/ Fault /\ LoopAdvances /\ UNCHANGED fileVars
      BY <1>5 DEF LoopSeek
    <2>2. j \in Job /\ j.blob \in Bufs /\ j.idx \in Nat
      BY <1>0, <2>1 DEF Ready, LoopInv, EncodedJob, Job
    <2>3. ChannelInv'
      BY <1>0, <1>2, <1>5, Frames DEF LoopSeek, outVars, parVars
    <2>4. LoopInv'
      BY <1>0, <1>5, <2>1, <2>2
      DEF LoopSeek, LoopInv, LoopTypeOK, LoopAdvances, countVars, finalVars
    <2>5. pos' \in Nat
      <3>1. pos \in Nat /\ DataBlobOffset(spec, j.idx) \in Nat
        BY <1>0, <2>2, OffsetsAreNat DEF SharedTypeOK
      <3> QED
        BY <2>1, <3>1, SeekMoves DEF fileVars
    <2>6. SharedTypeOK'
      <3>1. err' \in BOOLEAN /\ faults' \in 0 .. MaxFaults
        BY <1>0, <2>1, FaultType
      <3> QED
        BY <1>0, <1>2, <2>5, <3>1 DEF SharedTypeOK, poolVars
    <2> QED
      BY <1>1, <2>3, <2>4, <2>6 DEF TypeInv
  <1>6. CASE LoopWrite
    <2>1. cur \in Job /\ cur.plainLen \in Nat
      BY <1>0, <1>6, PipelineAssumption DEF LoopWrite, LoopInv, Job
    <2>2. ChannelInv'
      BY <1>0, <1>2, <1>6, Frames DEF LoopWrite, outVars, parVars
    <2>3. LoopInv'
      BY <1>0, <1>6, <2>1, LayoutAssumption
      DEF LoopWrite, LoopInv, LoopTypeOK, LoopAdvances, finalVars
    <2>4. pos' \in Nat
      <3>1. pos \in Nat /\ Windows \in Nat
        BY <1>0, PipelineAssumption DEF SharedTypeOK
      <3> QED
        BY <1>6, <3>1, WriteMoves DEF LoopWrite
    <2>5. SharedTypeOK'
      <3>1. err' \in BOOLEAN /\ faults' \in 0 .. MaxFaults
        BY <1>0, <1>6, FaultType DEF LoopWrite
      <3> QED
        BY <1>0, <1>2, <2>4, <3>1 DEF SharedTypeOK, poolVars
    <2> QED
      BY <1>1, <2>2, <2>3, <2>5 DEF TypeInv
  <1>7. CASE LoopHandOver
    <2>1. BlobMsg(cur.blob) \in PassedMsg
      BY <1>0, <1>7, Constructors DEF LoopHandOver, LoopInv
    <2>2. ChannelInv'
      BY <1>0, <1>2, <1>7, <2>1
      DEF LoopHandOver, ChannelInv, ChannelTypeOK, PassedMsg, encVars
    <2>3. LoopInv'
      BY <1>0, <1>7, LayoutAssumption
      DEF LoopHandOver, LoopInv, LoopTypeOK, LoopAdvances, countVars, finalVars
    <2>4. SharedTypeOK'
      BY <1>0, <1>2, <1>7, Frames DEF LoopHandOver
    <2> QED
      BY <1>1, <2>2, <2>3, <2>4 DEF TypeInv
  <1>8. CASE LoopFlushGroup
    <2>1. FlushMsg(groupsDone, FileGroupChunks) \in PassedMsg
      BY <1>0, Constructors, LayoutAssumption DEF LoopInv, LoopTypeOK
    <2>2. ChannelInv'
      BY <1>0, <1>2, <1>8, <2>1
      DEF LoopFlushGroup, ChannelInv, ChannelTypeOK, PassedMsg, encVars
    <2>3. LoopInv'
      BY <1>0, <1>8, LayoutAssumption
      DEF LoopFlushGroup, LoopInv, LoopTypeOK, LoopAdvances, finalVars
    <2>4. SharedTypeOK'
      BY <1>0, <1>2, <1>8, Frames DEF LoopFlushGroup
    <2> QED
      BY <1>1, <2>2, <2>3, <2>4 DEF TypeInv
  <1>9. CASE LoopExit
    <2>1. ChannelInv'
      BY <1>0, <1>2, <1>9, Frames DEF LoopExit, outVars, parVars
    <2>2. LoopInv'
      BY <1>0, <1>9 DEF LoopExit, LoopInv, LoopTypeOK, countVars
    <2>3. SharedTypeOK'
      BY <1>0, <1>2, <1>9 DEF LoopExit, SharedTypeOK, poolVars, fileVars
    <2> QED
      BY <1>1, <2>1, <2>2, <2>3 DEF TypeInv
  <1> QED
    BY <1>3, <1>4, <1>5, <1>6, <1>7, <1>8, <1>9 DEF WriteLoop

(* parityLoop.                                                             *)
LEMMA ParityType ==
  ASSUME TypeInv, ParityLoop
  PROVE  TypeInv'
  <1>0. ChannelInv /\ ParityInv /\ SharedTypeOK
    BY DEF TypeInv
  <1>1. CallerTypeOK' /\ WorkerInv' /\ LoopInv'
    BY Frames DEF TypeInv, ParityFrame, ParityLoop
  <1>2. UNCHANGED <<spec, encVars, outVars, parClosed, content>>
    BY DEF ParityFrame, ParityLoop
  <1>3. ASSUME parCh # << >>, parCh' = Tail(parCh) PROVE ChannelInv'
    <2>1. parCh \in Seq(PassedMsg) /\ parCh \in Seq(ParityMsg)
      BY <1>0 DEF ChannelInv, ChannelTypeOK
    <2>2. Tail(parCh) \in Seq(PassedMsg) /\ Tail(parCh) \in Seq(ParityMsg)
      BY <1>3, <2>1, HeadTailProperties
    <2> QED
      BY <1>0, <1>2, <1>3, <2>2 DEF ChannelInv, ChannelTypeOK, encVars, outVars
  <1>4. UNCHANGED parCh => ChannelInv'
    BY <1>0, <1>2, Frames DEF parVars
  <1>5. ASSUME parCh # << >> PROVE Head(parCh) \in PassedMsg /\ Head(parCh) \in ParityMsg
    <2>1. parCh \in Seq(PassedMsg)
      BY <1>0 DEF ChannelInv
    <2> QED
      BY <1>5, <2>1, HeadTailProperties DEF PassedMsg
  <1>6. ASSUME ReleaseGroup, UNCHANGED flush \/ flush' \in ParityMsg
        PROVE  ParityInv' /\ inUse' \subseteq Bufs
    <2>1. \A S : << >> \in Seq(S)
      BY EmptySeq
    <2> QED
      BY <1>0, <1>6, <2>1 DEF ReleaseGroup, ParityInv, ParityTypeOK, SharedTypeOK
  <1>7. ASSUME UNCHANGED inUse \/ ReleaseGroup, pos' \in Nat,
               Fault \/ UNCHANGED faultVars
        PROVE  SharedTypeOK'
    <2>1. err' \in BOOLEAN /\ faults' \in 0 .. MaxFaults
      BY <1>0, <1>7, FaultType
    <2> QED
      BY <1>0, <1>2, <1>7, <2>1 DEF SharedTypeOK, ReleaseGroup
  <1>8. UNCHANGED fileVars => pos' \in Nat
    BY <1>0 DEF SharedTypeOK, fileVars
  <1>9. CASE ParityReceiveBlob
    <2>1. Head(parCh).blob \in Bufs
      BY <1>5, <1>9 DEF ParityReceiveBlob, PassedMsg
    <2>2. ParityInv'
      BY <1>0, <1>9, <2>1 DEF ParityReceiveBlob, ParityInv, ParityTypeOK
    <2>3. SharedTypeOK'
      BY <1>7, <1>8, <1>9 DEF ParityReceiveBlob
    <2> QED
      BY <1>1, <1>3, <1>9, <2>2, <2>3 DEF ParityReceiveBlob, TypeInv
  <1>10. CASE ParityReceiveFlush
    <2>1. flush' \in ParityMsg
      BY <1>5, <1>10 DEF ParityReceiveFlush
    <2>2. CASE Len(blobs) # Head(parCh).kData
      <3>1. ReleaseGroup /\ err' = TRUE
        BY <1>10, <2>2 DEF ParityReceiveFlush
      <3>2. ParityInv' /\ inUse' \subseteq Bufs
        BY <1>6, <2>1, <3>1
      <3>3. pos' \in Nat /\ faults' \in 0 .. MaxFaults
        BY <1>0, <1>10 DEF ParityReceiveFlush, SharedTypeOK, fileVars
      <3>4. SharedTypeOK'
        BY <1>0, <1>2, <3>1, <3>2, <3>3 DEF SharedTypeOK
      <3> QED
        BY <1>1, <1>3, <1>10, <3>2, <3>4 DEF ParityReceiveFlush, TypeInv
    <2>3. CASE Len(blobs) = Head(parCh).kData
      <3>1. ppc' = "encode" /\ UNCHANGED <<groupVars, inUse, err>>
        BY <1>10, <2>3 DEF ParityReceiveFlush
      <3>2. ParityInv'
        BY <1>0, <1>10, <2>1, <2>3, <3>1
        DEF ParityReceiveFlush, ParityInv, ParityTypeOK, groupVars
      <3>3. SharedTypeOK'
        BY <1>7, <1>8, <1>10, <3>1 DEF ParityReceiveFlush, faultVars
      <3> QED
        BY <1>1, <1>3, <1>10, <3>2, <3>3 DEF ParityReceiveFlush, TypeInv
    <2> QED
      BY <2>2, <2>3
  <1>11. CASE ParityEncode
    <2>1. CASE /\ parOut' = [i \in 1 .. flush.kData |-> content[blobs[i]]]
               /\ q' = 0 /\ ppc' = "seek"
               /\ UNCHANGED <<blobs, win, inUse, faultVars>>
      <3>1. /\ blobs \in Seq(Bufs) /\ Len(blobs) = flush.kData /\ flush.kData \in Nat
            /\ content \in [Bufs -> Nat \cup {-1}]
        BY <1>0, <1>11
        DEF ParityEncode, ParityInv, ParityTypeOK, ParityMsg, SharedTypeOK
      <3>2. \A i \in 1 .. flush.kData : content[blobs[i]] \in Nat \cup {-1}
        BY <3>1, ElementOfSeq
      <3>3. parOut' \in Seq(Nat \cup {-1})
        BY <2>1, <3>1, <3>2, IsASeq
      <3>4. ParityInv'
        BY <1>0, <1>11, <2>1, <3>1, <3>3 DEF ParityEncode, ParityInv, ParityTypeOK
      <3>5. SharedTypeOK'
        BY <1>7, <1>8, <1>11, <2>1 DEF ParityEncode
      <3> QED
        BY <1>1, <1>4, <1>11, <3>4, <3>5 DEF ParityEncode, TypeInv
    <2>2. CASE Fault /\ ReleaseGroup
      BY <1>1, <1>4, <1>6, <1>7, <1>8, <1>11, <2>2 DEF ParityEncode, TypeInv
    <2> QED
      BY <1>11, <2>1, <2>2 DEF ParityEncode
  <1>12. CASE ParitySeek
    <2>1. CASE /\ Seek(ParityBlobOffset(spec, flush.g, flush.kData, q), win)
               /\ ppc' = "write" /\ UNCHANGED <<groupVars, inUse, faultVars>>
      <3>1. /\ flush.g \in Nat /\ flush.kData \in Nat /\ q \in Nat /\ win \in Nat
            /\ spec \in LayoutSpecs
        BY <1>0 DEF ParityInv, ParityTypeOK, ParityMsg, SharedTypeOK
      <3>2. ParityBlobOffset(spec, flush.g, flush.kData, q) \in Nat
        BY <3>1, OffsetsAreNat
      <3>3. pos' \in Nat
        BY <2>1, <3>1, <3>2, SeekMoves
      <3>4. ParityInv'
        BY <1>0, <1>12, <2>1 DEF ParitySeek, ParityInv, ParityTypeOK, groupVars
      <3>5. SharedTypeOK'
        BY <1>7, <2>1, <3>3
      <3> QED
        BY <1>1, <1>4, <1>12, <3>4, <3>5 DEF ParitySeek, TypeInv
    <2>2. CASE Fault /\ ReleaseGroup /\ UNCHANGED fileVars
      BY <1>1, <1>4, <1>6, <1>7, <1>8, <1>12, <2>2 DEF ParitySeek, TypeInv
    <2> QED
      BY <1>12, <2>1, <2>2 DEF ParitySeek
  <1>13. CASE ParityWrite
    <2>1. pos' \in Nat
      <3>1. pos \in Nat /\ 1 \in Nat
        BY <1>0 DEF SharedTypeOK
      <3> QED
        BY <1>13, <3>1, WriteMoves DEF ParityWrite
    <2>2. UNCHANGED inUse \/ ReleaseGroup
      BY <1>13 DEF ParityWrite
    <2>3. SharedTypeOK'
      BY <1>7, <1>13, <2>1, <2>2 DEF ParityWrite
    <2>4. ParityInv'
      <3>1. UNCHANGED flush
        BY <1>13 DEF ParityWrite
      <3>2. CASE ReleaseGroup
        BY <1>6, <3>1, <3>2
      <3>3. CASE q' = q + 1 /\ ppc' = "seek" /\ UNCHANGED <<blobs, win, parOut, inUse>>
        BY <1>0, <1>13, <3>1, <3>3 DEF ParityWrite, ParityInv, ParityTypeOK
      <3>4. CASE win' = win + 1 /\ ppc' = "encode" /\ UNCHANGED <<blobs, q, parOut, inUse>>
        BY <1>0, <1>13, <3>1, <3>4 DEF ParityWrite, ParityInv, ParityTypeOK
      <3> QED
        BY <1>13, <3>2, <3>3, <3>4 DEF ParityWrite
    <2> QED
      BY <1>1, <1>4, <1>13, <2>3, <2>4 DEF ParityWrite, TypeInv
  <1>14. CASE ParityExit
    <2>1. ParityInv'
      BY <1>0, <1>14 DEF ParityExit, ParityInv, ParityTypeOK, groupVars
    <2>2. SharedTypeOK'
      BY <1>7, <1>8, <1>14 DEF ParityExit
    <2> QED
      BY <1>1, <1>4, <1>14, <2>1, <2>2 DEF ParityExit, TypeInv
  <1> QED
    BY <1>9, <1>10, <1>11, <1>12, <1>13, <1>14 DEF ParityLoop

LEMMA TypeStep ==
  ASSUME TypeInv, [Next]_vars
  PROVE  TypeInv'
  <1>1. CASE UNCHANGED vars
    BY <1>1, Frames DEF vars, TypeInv
  <1>2. CASE CallAfterClose
    BY <1>1, <1>2 DEF CallAfterClose
  <1> QED
    BY <1>1, <1>2, CallerType, WorkerType, LoopType, ParityType DEF Next

(* Every reachable state of the write path has its type: no job without a  *)
(* buffer ever reaches parityLoop (encodeJob, writeLoop), and writeLoop    *)
(* never counts more than FileGroupChunks blobs in a group.                *)
THEOREM PipelineType == Spec => []TypeOK
  <1>1. TypeInv /\ [Next]_vars => TypeInv'
    BY TypeStep
  <1>2. TypeInv => TypeOK
    BY DEF TypeInv, TypeOK, ChannelInv, WorkerInv, LoopInv, ParityInv
  <1> QED
    BY InitTypeInv, <1>1, <1>2, PTL DEF Spec

-----------------------------------------------------------------------------
(* Close and the failures: a Close that goes on to the trailer has written *)
(* every accepted byte, and nothing has failed.                            *)
(*                                                                         *)
(* The argument: the goroutines end in the order in which Drain waits for  *)
(* them (OrderInv); a job that failed means a sticky error (GoodJob); the  *)
(* bytes writeLoop has counted are those of the chunks before next         *)
(* (CountInv); and a chunk that writeLoop has not finished with is still   *)
(* somewhere (CoverInv), so that when everything has ended next is the     *)
(* number of chunks.                                                       *)

CPS == ChunkPlainSize

Open == {"idle", "write", "drain"}
Trailing == {"seekTrailer", "writeTrailer", "committed"}
AfterParity == Trailing \cup {"failed"}
AfterLoop == AfterParity \cup {"closePar", "waitParity"}
AfterWorkers == AfterLoop \cup {"waitLoop"}

(* Drain closes encodeCh, waits for the workers, closes outCh, waits for   *)
(* writeLoop, closes parCh and waits for parityLoop.                       *)
OrderInv ==
    /\ encodeClosed <=> cpc \notin Open
    /\ encodeClosed => chunkLen = 0
    /\ outClosed <=> cpc \in AfterWorkers
    /\ \A w \in Workers :
         /\ outClosed => wpc[w] = "done"
         /\ wpc[w] = "done" => encodeClosed /\ encodeCh = << >>
         /\ wpc[w] \in {"recv", "done"} => wjob[w] = NoJob
    /\ cpc \in AfterLoop => lpc = "done"
    /\ lpc = "done" => outClosed /\ outCh = << >> /\ (pending # {} => err)
    /\ lpc \in {"scan", "done"} => cur = NoJob
    /\ cpc \in AfterParity => ppc = "done"

\* the bytes of the enqueued chunks, and of the first m of them
Enqueued == accepted - chunkLen
FirstBytes(m) == Lesser(m * CPS, Enqueued)

\* a job is about an enqueued chunk, carries its length, and fails loudly
GoodJob == {j \in Job : /\ j.idx < chunkIdx
                        /\ j.plainLen = FirstBytes(j.idx + 1) - FirstBytes(j.idx)
                        /\ j.failed => err}

JobsInv ==
    /\ encodeCh \in Seq(GoodJob) /\ outCh \in Seq(GoodJob)
    /\ \A w \in Workers : wpc[w] \in {"encode", "send"} => wjob[w] \in GoodJob
    /\ pending \subseteq GoodJob
    /\ lpc \in {"write", "hand", "flush"} => cur \in GoodJob /\ cur.idx = next

\* the chunks whose bytes writeLoop has counted
Counted == IF lpc \in {"hand", "flush"} THEN next + 1 ELSE next

CountInv ==
    /\ (chunkIdx - 1) * CPS < Enqueued /\ Enqueued <= chunkIdx * CPS
    /\ (cpc \in {"idle", "write"} \/ chunkLen > 0) => Enqueued = chunkIdx * CPS
    /\ Counted <= chunkIdx
    /\ ~err => plainSize = FirstBytes(Counted)
    /\ (~err /\ cpc # "failed") => faults = 0
    /\ cpc \in Trailing => ~err

\* the jobs in flight (NoJob may be among them)
Flying == SeqElems(encodeCh) \cup {wjob[w] : w \in Workers} \cup SeqElems(outCh)
            \cup pending \cup {cur}

CoverInv == \A i \in next .. chunkIdx - 1 : \E j \in Flying : j.idx = i

CommitInv == TypeInv /\ OrderInv /\ JobsInv /\ CountInv /\ CoverInv

-----------------------------------------------------------------------------
(* The order in which the goroutines end.                                  *)

LEMMA OrderStep ==
  ASSUME TypeInv, OrderInv, [Next]_vars
  PROVE  OrderInv'
  <1> USE DEF OrderInv, Open, AfterWorkers, AfterLoop, AfterParity, Trailing
  <1>0. /\ CallerTypeOK
        /\ wpc \in [Workers -> {"recv", "encode", "send", "done"}]
        /\ wjob \in [Workers -> Job \cup {NoJob}]
        /\ lpc \in {"scan", "write", "hand", "flush", "done"}
        /\ ppc \in {"recv", "encode", "seek", "write", "done"}
    BY DEF TypeInv, WorkerInv, WorkerTypeOK, LoopInv, LoopTypeOK, ParityInv, ParityTypeOK
  <1>1. CASE UNCHANGED vars \/ CallAfterClose
    BY <1>1 DEF CallAfterClose, vars, callerVars, encVars, outVars, workerVars,
                loopVars, parityVars, faultVars
  <1>2. CASE UserCalls \/ CallerRuns
    <2>1. UNCHANGED <<wpc, wjob, lpc, pending, cur, ppc>>
      BY <1>2 DEF UserCalls, CallerRuns, CallerFrame, workerVars, loopVars, parityVars
    <2> USE DEF CallerGoes
    <2>2. CASE (\E n \in 1 .. MaxBytes : Write(n)) \/ WriteReturns \/ FillChunk
      BY <1>0, <2>1, <2>2
      DEF Write, WriteReturns, FillChunk, encVars, outVars, faultVars
    <2>3. CASE EnqueueChunk
      BY <1>0, <2>1, <2>3 DEF EnqueueChunk, outVars, faultVars
    <2>4. CASE Close
      BY <1>0, <2>1, <2>4 DEF Close, encVars, outVars, faultVars
    <2>5. CASE DrainCloseEncode
      BY <1>0, <2>1, <2>5 DEF DrainCloseEncode, encVars, outVars, faultVars
    <2>6. CASE DrainCloseOut
      BY <1>0, <2>1, <2>6 DEF DrainCloseOut, encVars, outVars, faultVars
    <2>7. CASE DrainFlushLast \/ DrainClosePar
      BY <1>0, <2>1, <2>7 DEF DrainFlushLast, DrainClosePar, encVars, outVars, faultVars
    <2>8. CASE DrainReturns
      BY <1>0, <2>1, <2>8 DEF DrainReturns, encVars, outVars, faultVars
    <2>9. CASE SeekTrailer \/ WriteTrailer
      BY <1>0, <2>1, <2>9
      DEF SeekTrailer, WriteTrailer, TrailerFault, encVars, outVars, faultVars
    <2> QED
      BY <1>2, <2>2, <2>3, <2>4, <2>5, <2>6, <2>7, <2>8, <2>9 DEF UserCalls, CallerRuns
  <1>3. ASSUME NEW w \in Workers, Worker(w) PROVE OrderInv'
    <2>1. UNCHANGED <<cpc, chunkLen, lpc, pending, cur, ppc>>
      BY <1>3 DEF Worker, WorkerFrame, callerVars, loopVars, parityVars
    <2>2. CASE WorkerTake(w)
      BY <1>0, <2>1, <2>2 DEF WorkerTake, outVars, faultVars
    <2>3. CASE WorkerEncode(w)
      <3>1. err => err'
        BY <2>3 DEF WorkerEncode, Fault, faultVars
      <3>2. /\ wpc' = [wpc EXCEPT ![w] = "send"] /\ wpc[w] = "encode"
            /\ \E j : wjob' = [wjob EXCEPT ![w] = j]
            /\ UNCHANGED <<encodeCh, encodeClosed, outCh, outClosed>>
        <4>1. \/ \E b \in Bufs \ inUse : wjob' = [wjob EXCEPT ![w].blob = b]
              \/ wjob' = [wjob EXCEPT ![w].failed = TRUE]
          BY <2>3 DEF WorkerEncode
        <4>2. \E j : wjob' = [wjob EXCEPT ![w] = j]
          BY <4>1
        <4> QED
          BY <2>3, <4>2 DEF WorkerEncode, encVars, outVars
      <3> QED
        BY <1>0, <2>1, <3>1, <3>2
    <2>4. CASE WorkerSend(w)
      BY <1>0, <2>1, <2>4 DEF WorkerSend, encVars, faultVars
    <2>5. CASE WorkerExit(w)
      BY <1>0, <2>1, <2>5 DEF WorkerExit, encVars, outVars, faultVars
    <2> QED
      BY <1>3, <2>2, <2>3, <2>4, <2>5 DEF Worker
  <1>4. CASE WriteLoop
    <2>1. UNCHANGED <<cpc, chunkLen, encodeCh, encodeClosed, outClosed, wpc, wjob, ppc>>
      BY <1>4 DEF WriteLoop, LoopFrame, callerVars, encVars, workerVars, parityVars
    <2>2. CASE LoopReceive
      BY <1>0, <2>1, <2>2 DEF LoopReceive
    <2>3. CASE LoopSkipFailed
      BY <1>0, <2>1, <2>3 DEF LoopSkipFailed
    <2>4. CASE LoopSeek
      BY <1>0, <2>1, <2>4 DEF LoopSeek, LoopAdvances
    <2>5. CASE LoopWrite
      BY <1>0, <2>1, <2>5 DEF LoopWrite, LoopAdvances
    <2>6. CASE LoopHandOver \/ LoopFlushGroup
      BY <1>0, <2>1, <2>6 DEF LoopHandOver, LoopFlushGroup, LoopAdvances
    <2>7. CASE LoopExit
      BY <1>0, <2>1, <2>7 DEF LoopExit
    <2> QED
      BY <1>4, <2>2, <2>3, <2>4, <2>5, <2>6, <2>7 DEF WriteLoop
  <1>5. CASE ParityLoop
    <2>1. UNCHANGED <<cpc, chunkLen, encodeCh, encodeClosed, outCh, outClosed, wpc, wjob,
                      lpc, pending, cur>>
      BY <1>5 DEF ParityLoop, ParityFrame, callerVars, encVars, outVars, workerVars, loopVars
    <2>2. err => err'
      BY <1>5 DEF ParityLoop, ParityReceiveBlob, ParityReceiveFlush, ParityEncode,
                  ParitySeek, ParityWrite, ParityExit, Fault, faultVars
    <2>3. ppc # "done"
      BY <1>5 DEF ParityLoop, ParityReceiveBlob, ParityReceiveFlush, ParityEncode,
                  ParitySeek, ParityWrite, ParityExit
    <2> QED
      BY <2>1, <2>2, <2>3
  <1> QED
    BY <1>1, <1>2, <1>3, <1>4, <1>5 DEF Next

(* The trailer is the last thing written: while Close writes it, and after *)
(* Close has returned, no goroutine touches the file (Drain waits for      *)
(* doneCh and parDone before writeTrailer).                                *)
THEOREM TrailerComesLast == Spec => TrailerIsLast
  <1>1. Init => OrderInv
    BY DEF Init, OrderInv, Open, AfterWorkers, AfterLoop, AfterParity, Trailing
  <1>2. TypeInv /\ OrderInv /\ [Next]_vars => TypeInv' /\ OrderInv'
    BY TypeStep, OrderStep
  <1>3. TypeInv /\ OrderInv /\ [Next]_vars
          => [(cpc \in {"writeTrailer", "committed", "failed"} /\ fileVars' # fileVars)
                => (cpc = "writeTrailer" /\ cpc' # cpc)]_vars
    <2> SUFFICES ASSUME OrderInv, Next, fileVars' # fileVars,
                        cpc \in {"writeTrailer", "committed", "failed"}
                 PROVE  cpc = "writeTrailer" /\ cpc' # cpc
      OBVIOUS
    <2>1. lpc = "done" /\ ppc = "done"
      BY DEF OrderInv, AfterLoop, AfterParity, Trailing
    <2>2. ~ WriteLoop
      BY <2>1 DEF WriteLoop, LoopReceive, LoopSkipFailed, LoopSeek, LoopWrite,
                  LoopHandOver, LoopFlushGroup, LoopExit
    <2>3. ~ ParityLoop
      BY <2>1 DEF ParityLoop, ParityReceiveBlob, ParityReceiveFlush, ParityEncode,
                  ParitySeek, ParityWrite, ParityExit
    <2>4. \A w \in Workers : ~ Worker(w)
      BY DEF Worker, WorkerFrame
    <2>5. ~ CallAfterClose
      BY DEF CallAfterClose, vars
    <2>6. ~ UserCalls
      BY DEF UserCalls, Write, Close
    <2>7. CallerRuns => WriteTrailer
      BY DEF CallerRuns, FillChunk, EnqueueChunk, WriteReturns, DrainCloseEncode,
             DrainCloseOut, DrainFlushLast, DrainClosePar, DrainReturns, SeekTrailer
    <2>8. WriteTrailer => cpc = "writeTrailer" /\ cpc' # cpc
      BY DEF WriteTrailer, TrailerFault, CallerGoes
    <2> QED
      BY <2>2, <2>3, <2>4, <2>5, <2>6, <2>7, <2>8 DEF Next
  <1> QED
    BY InitTypeInv, <1>1, <1>2, <1>3, PTL DEF Spec, TrailerIsLast

-----------------------------------------------------------------------------
(* The jobs.                                                               *)

\* good jobs stay good while no chunk is enqueued
LEMMA GoodStays ==
  ASSUME UNCHANGED <<chunkIdx, Enqueued>>, err => err'
  PROVE  /\ GoodJob \subseteq GoodJob'
         /\ Seq(GoodJob) \subseteq Seq(GoodJob')
  <1>1. GoodJob \subseteq GoodJob'
    BY DEF GoodJob, FirstBytes, Enqueued
  <1>2. Seq(GoodJob) \subseteq Seq(GoodJob')
    BY <1>1, SeqMonotonic
  <1> QED
    BY <1>1, <1>2

\* the multiples of the chunk size grow
LEMMA Multiples ==
  ASSUME NEW a \in Nat, NEW b \in Nat, a <= b
  PROVE  /\ a * CPS \in Nat /\ b * CPS \in Nat /\ a * CPS <= b * CPS
         /\ (b + 1) * CPS = b * CPS + CPS
         /\ (b - 1) * CPS = b * CPS - CPS
  <1> USE PipelineAssumption DEF CPS
  <1>1. a * CPS \in Nat /\ b * CPS \in Nat
    BY SMT
  <1>2. a < b => a * CPS + CPS <= b * CPS
    BY ProductGap
  <1>3. (b + 1) * CPS = b * CPS + CPS /\ (b - 1) * CPS = b * CPS - CPS
    BY SMT
  <1> QED
    BY <1>1, <1>2, <1>3

\* enqueueing a chunk changes neither the chunks before it nor their jobs
LEMMA Enqueues ==
  ASSUME TypeInv, CountInv, EnqueueChunk
  PROVE  /\ GoodJob \subseteq GoodJob'
         /\ NewJob(chunkIdx, chunkLen) \in GoodJob'
         /\ \A m \in 0 .. chunkIdx : FirstBytes(m)' = FirstBytes(m)
         /\ Enqueued' = chunkIdx * CPS + chunkLen /\ Enqueued' = Enqueued + chunkLen
         /\ chunkLen \in 1 .. CPS /\ chunkIdx' = chunkIdx + 1
  <1>1. /\ chunkIdx \in Nat /\ accepted \in Nat /\ chunkLen \in 1 .. CPS
        /\ Enqueued = chunkIdx * CPS /\ CPS \in Nat
        /\ chunkIdx' = chunkIdx + 1 /\ chunkLen' = 0 /\ accepted' = accepted /\ err' = err
    BY PipelineAssumption
    DEF TypeInv, CallerTypeOK, CountInv, EnqueueChunk, CPS, faultVars
  <1>2. Enqueued' = Enqueued + chunkLen
    BY <1>1 DEF Enqueued
  <1>3. ASSUME NEW m \in 0 .. chunkIdx
        PROVE  FirstBytes(m) = m * CPS /\ FirstBytes(m)' = m * CPS
    <2>1. m * CPS \in Nat /\ chunkIdx * CPS \in Nat /\ m * CPS <= chunkIdx * CPS
      BY <1>1, Multiples
    <2> QED
      BY <1>1, <1>2, <2>1 DEF FirstBytes, Lesser
  <1>4. GoodJob \subseteq GoodJob'
    <2> SUFFICES ASSUME NEW j \in GoodJob PROVE j \in GoodJob'
      OBVIOUS
    <2>1. /\ j \in Job /\ j.idx < chunkIdx /\ j.idx \in Nat /\ (j.failed => err)
          /\ j.plainLen = FirstBytes(j.idx + 1) - FirstBytes(j.idx)
      BY DEF GoodJob, Job
    <2>2. j.idx \in 0 .. chunkIdx /\ j.idx + 1 \in 0 .. chunkIdx
      BY <1>1, <2>1
    <2>3. j.plainLen = FirstBytes(j.idx + 1)' - FirstBytes(j.idx)'
      BY <1>3, <2>1, <2>2
    <2> QED
      BY <1>1, <2>1, <2>3 DEF GoodJob
  <1>5. NewJob(chunkIdx, chunkLen) \in GoodJob'
    <2>1. PICK c \in Nat, n \in 1 .. CPS : c = chunkIdx /\ n = chunkLen
      BY <1>1
    <2> DEFINE j == NewJob(c, n)
    <2>2. j \in Job /\ j.idx = c /\ j.plainLen = n /\ j.failed = FALSE
      BY <2>1, Constructors DEF NewJob, CPS
    <2>3. c * CPS \in Nat /\ (c + 1) * CPS = c * CPS + CPS
      BY Multiples
    <2>4. Enqueued' = c * CPS + n
      BY <1>1, <1>2, <2>1
    <2>5. FirstBytes(c + 1)' = c * CPS + n
      BY <1>1, <2>3, <2>4 DEF FirstBytes, Lesser
    <2>6. FirstBytes(c)' = c * CPS
      BY <1>1, <2>3, <2>4 DEF FirstBytes, Lesser
    <2>7. j.plainLen = FirstBytes(j.idx + 1)' - FirstBytes(j.idx)'
      BY <1>1, <2>2, <2>3, <2>5, <2>6
    <2> HIDE DEF j
    <2>8. j \in GoodJob'
      BY <1>1, <2>1, <2>2, <2>7 DEF GoodJob
    <2> QED
      BY <2>1, <2>8 DEF j
  <1> QED
    BY <1>1, <1>2, <1>3, <1>4, <1>5

\* the error is sticky, and only Write, FillChunk and EnqueueChunk touch the count
LEMMA Sticky ==
  ASSUME TypeInv, [Next]_vars
  PROVE  /\ err => err'
         /\ ~ EnqueueChunk => UNCHANGED <<chunkIdx, Enqueued>>
  <1>0. chunkLen \in Nat /\ accepted \in Nat /\ rest \in Nat /\ ChunkPlainSize \in Nat
    BY PipelineAssumption DEF TypeInv, CallerTypeOK
  <1>1. CASE UNCHANGED vars \/ CallAfterClose
    BY <1>1 DEF CallAfterClose, vars, callerVars, faultVars, Enqueued
  <1>2. CASE UserCalls \/ CallerRuns
    <2>1. err' = err
      BY <1>2 DEF UserCalls, CallerRuns, Write, WriteReturns, FillChunk, EnqueueChunk, Close,
                  DrainCloseEncode, DrainCloseOut, DrainFlushLast, DrainClosePar,
                  DrainReturns, SeekTrailer, WriteTrailer, TrailerFault, faultVars
    <2>2. CASE FillChunk
      BY <1>0, <2>1, <2>2 DEF FillChunk, Enqueued, Lesser
    <2>3. CASE EnqueueChunk
      BY <2>1, <2>3
    <2>4. CASE ~ FillChunk /\ ~ EnqueueChunk
      <3>1. UNCHANGED <<chunkLen, chunkIdx, accepted>>
        BY <1>2, <2>4
        DEF UserCalls, CallerRuns, Write, WriteReturns, Close,
            DrainCloseEncode, DrainCloseOut, DrainFlushLast, DrainClosePar,
            DrainReturns, SeekTrailer, WriteTrailer, TrailerFault, CallerGoes
      <3> QED
        BY <2>1, <3>1 DEF Enqueued
    <2> QED
      BY <2>2, <2>3, <2>4
  <1>3. ASSUME NEW w \in Workers, Worker(w)
        PROVE  (err => err') /\ UNCHANGED <<chunkIdx, Enqueued>>
    <2>1. UNCHANGED <<chunkLen, chunkIdx, accepted>>
      BY <1>3 DEF Worker, WorkerFrame, callerVars
    <2>2. err => err'
      BY <1>3 DEF Worker, WorkerTake, WorkerEncode, WorkerSend, WorkerExit, Fault, faultVars
    <2> QED
      BY <2>1, <2>2 DEF Enqueued
  <1>4. CASE WriteLoop
    <2>1. UNCHANGED <<chunkLen, chunkIdx, accepted>>
      BY <1>4 DEF WriteLoop, LoopFrame, callerVars
    <2>2. err => err'
      BY <1>4 DEF WriteLoop, LoopReceive, LoopSkipFailed, LoopSeek, LoopWrite,
                  LoopHandOver, LoopFlushGroup, LoopExit, Fault, faultVars
    <2> QED
      BY <2>1, <2>2 DEF Enqueued
  <1>5. CASE ParityLoop
    <2>1. UNCHANGED <<chunkLen, chunkIdx, accepted>>
      BY <1>5 DEF ParityLoop, ParityFrame, callerVars
    <2>2. err => err'
      BY <1>5 DEF ParityLoop, ParityReceiveBlob, ParityReceiveFlush, ParityEncode,
                  ParitySeek, ParityWrite, ParityExit, Fault, faultVars
    <2> QED
      BY <2>1, <2>2 DEF Enqueued
  <1> QED
    BY <1>1, <1>2, <1>3, <1>4, <1>5 DEF Next

LEMMA JobsStep ==
  ASSUME TypeInv, OrderInv, JobsInv, CountInv, [Next]_vars
  PROVE  JobsInv'
  <1>0. /\ wpc \in [Workers -> {"recv", "encode", "send", "done"}]
        /\ wjob \in [Workers -> Job \cup {NoJob}]
        /\ next \in Nat
    BY DEF TypeInv, WorkerInv, WorkerTypeOK, LoopInv, LoopTypeOK
  <1>1. CASE EnqueueChunk /\ CallerFrame
    <2>1. /\ GoodJob \subseteq GoodJob'
          /\ NewJob(chunkIdx, chunkLen) \in GoodJob'
      BY <1>1, Enqueues
    <2>2. Seq(GoodJob) \subseteq Seq(GoodJob')
      BY <2>1, SeqMonotonic
    <2>3. encodeCh' \in Seq(GoodJob')
      BY <1>1, <2>1, <2>2, AppendProperties DEF EnqueueChunk, JobsInv
    <2>4. UNCHANGED <<outCh, wpc, wjob, pending, lpc, cur, next>>
      BY <1>1 DEF EnqueueChunk, CallerFrame, outVars, workerVars, loopVars
    <2> QED
      BY <2>1, <2>2, <2>3, <2>4 DEF JobsInv
  <1>2. ASSUME [Next]_vars, ~ EnqueueChunk
        PROVE  GoodJob \subseteq GoodJob' /\ Seq(GoodJob) \subseteq Seq(GoodJob')
    BY <1>2, Sticky, GoodStays
  <1>3. CASE UNCHANGED <<encodeCh, outCh, wpc, wjob, pending, lpc, cur, next>>
    <2>1. ~ EnqueueChunk
      BY <1>0, <1>3 DEF EnqueueChunk, TypeInv, ChannelInv, ChannelTypeOK
    <2> QED
      BY <1>2, <1>3, <2>1 DEF JobsInv
  <1>4. ASSUME NEW w \in Workers, Worker(w) PROVE JobsInv'
    <2>0. ~ EnqueueChunk \/ UNCHANGED chunkIdx
      BY <1>4 DEF Worker, WorkerFrame, callerVars
    <2>1. GoodJob \subseteq GoodJob' /\ Seq(GoodJob) \subseteq Seq(GoodJob')
      <3>1. ~ EnqueueChunk
        BY <2>0 DEF EnqueueChunk, TypeInv, CallerTypeOK
      <3> QED
        BY <1>2, <3>1
    <2>2. UNCHANGED <<pending, lpc, cur, next>>
      BY <1>4 DEF Worker, WorkerFrame, loopVars
    <2>3. CASE WorkerTake(w)
      <3>1. Head(encodeCh) \in GoodJob /\ Tail(encodeCh) \in Seq(GoodJob)
        BY <2>3, HeadTailProperties DEF WorkerTake, JobsInv
      <3>2. /\ wjob' = [wjob EXCEPT ![w] = Head(encodeCh)] /\ encodeCh' = Tail(encodeCh)
            /\ wpc' = [wpc EXCEPT ![w] = "encode"] /\ UNCHANGED outCh
        BY <2>3 DEF WorkerTake, outVars
      <3> QED
        BY <1>0, <2>1, <2>2, <3>1, <3>2 DEF JobsInv
    <2>4. CASE WorkerEncode(w)
      <3>0. wjob[w] \in GoodJob
        BY <2>4 DEF WorkerEncode, JobsInv
      <3>1. \E j \in GoodJob' : wjob' = [wjob EXCEPT ![w] = j]
        <4>1. CASE \E b \in Bufs \ inUse : wjob' = [wjob EXCEPT ![w].blob = b]
          <5>1. PICK b \in Bufs : wjob' = [wjob EXCEPT ![w].blob = b]
            BY <4>1
          <5>2. [wjob[w] EXCEPT !.blob = b] \in GoodJob
            BY <3>0 DEF GoodJob, Job
          <5> QED
            BY <2>1, <5>1, <5>2
        <4>2. CASE /\ (~err /\ Fault) \/ (err /\ UNCHANGED faultVars)
                   /\ wjob' = [wjob EXCEPT ![w].failed = TRUE]
          <5>1. err'
            BY <4>2 DEF Fault, faultVars
          <5>2. PICK k \in GoodJob : k = wjob[w]
            BY <3>0
          <5>3. [k EXCEPT !.failed = TRUE] \in GoodJob'
            BY <2>1, <5>1 DEF GoodJob, Job
          <5> QED
            BY <4>2, <5>2, <5>3
        <4> QED
          BY <2>4, <4>1, <4>2 DEF WorkerEncode
      <3>2. wpc' = [wpc EXCEPT ![w] = "send"] /\ UNCHANGED <<encodeCh, outCh>>
        BY <2>4 DEF WorkerEncode, encVars, outVars
      <3> QED
        BY <1>0, <2>1, <2>2, <3>1, <3>2 DEF JobsInv
    <2>5. CASE WorkerSend(w)
      <3>1. wjob[w] \in GoodJob
        BY <2>5 DEF WorkerSend, JobsInv
      <3>2. Append(outCh, wjob[w]) \in Seq(GoodJob)
        BY <3>1, AppendProperties DEF JobsInv
      <3>3. /\ outCh' = Append(outCh, wjob[w]) /\ wjob' = [wjob EXCEPT ![w] = NoJob]
            /\ wpc' = [wpc EXCEPT ![w] = "recv"] /\ UNCHANGED encodeCh
        BY <2>5 DEF WorkerSend, encVars
      <3> QED
        BY <1>0, <2>1, <2>2, <3>2, <3>3 DEF JobsInv
    <2>6. CASE WorkerExit(w)
      <3>1. wpc' = [wpc EXCEPT ![w] = "done"] /\ UNCHANGED <<wjob, encodeCh, outCh>>
        BY <2>6 DEF WorkerExit, encVars, outVars
      <3> QED
        BY <1>0, <2>1, <2>2, <3>1 DEF JobsInv
    <2> QED
      BY <1>4, <2>3, <2>4, <2>5, <2>6 DEF Worker
  <1>5. CASE WriteLoop
    <2>1. GoodJob \subseteq GoodJob' /\ Seq(GoodJob) \subseteq Seq(GoodJob')
      <3>1. ~ EnqueueChunk
        BY <1>5 DEF WriteLoop, LoopFrame, callerVars, EnqueueChunk, TypeInv, CallerTypeOK
      <3> QED
        BY <1>2, <3>1
    <2>2. UNCHANGED <<encodeCh, wpc, wjob>>
      BY <1>5 DEF WriteLoop, LoopFrame, encVars, workerVars
    <2>3. CASE LoopReceive
      <3>1. Head(outCh) \in GoodJob /\ Tail(outCh) \in Seq(GoodJob)
        BY <2>3, HeadTailProperties DEF LoopReceive, JobsInv
      <3>2. /\ pending' = pending \cup {Head(outCh)} /\ outCh' = Tail(outCh)
            /\ UNCHANGED <<lpc, cur, next>>
        BY <2>3 DEF LoopReceive
      <3> QED
        BY <2>1, <2>2, <3>1, <3>2 DEF JobsInv
    <2>4. CASE LoopSkipFailed
      <3>1. pending' \subseteq pending /\ lpc' = "scan" /\ UNCHANGED outCh
        BY <2>4 DEF LoopSkipFailed
      <3> QED
        BY <2>1, <2>2, <3>1 DEF JobsInv
    <2>5. CASE LoopSeek
      <3>1. PICK j \in Ready :
              /\ pending' = pending \ {j}
              /\ \/ cur' = j /\ lpc' = "write" /\ UNCHANGED next
                 \/ LoopAdvances
        BY <2>5 DEF LoopSeek
      <3>2. j \in GoodJob /\ j.idx = next
        BY <3>1 DEF Ready, JobsInv
      <3>3. UNCHANGED outCh
        BY <2>5 DEF LoopSeek
      <3> QED
        BY <2>1, <2>2, <3>1, <3>2, <3>3 DEF JobsInv, LoopAdvances
    <2>6. CASE LoopWrite
      BY <2>1, <2>2, <2>6 DEF LoopWrite, JobsInv, LoopAdvances
    <2>7. CASE LoopHandOver \/ LoopFlushGroup
      BY <2>1, <2>2, <2>7 DEF LoopHandOver, LoopFlushGroup, JobsInv, LoopAdvances
    <2>8. CASE LoopExit
      BY <2>1, <2>2, <2>8 DEF LoopExit, JobsInv
    <2> QED
      BY <1>5, <2>3, <2>4, <2>5, <2>6, <2>7, <2>8 DEF WriteLoop
  <1>6. CASE ParityLoop \/ UNCHANGED vars \/ CallAfterClose
    BY <1>3, <1>6 DEF ParityLoop, ParityFrame, CallAfterClose, vars, encVars, outVars,
                      workerVars, loopVars
  <1>7. CASE UserCalls \/ CallerRuns
    <2>1. CASE EnqueueChunk
      BY <1>1, <1>7, <2>1 DEF UserCalls, CallerRuns
    <2>2. CASE ~ EnqueueChunk
      <3>1. UNCHANGED <<encodeCh, outCh, wpc, wjob, pending, lpc, cur, next>>
        BY <1>7, <2>2
        DEF UserCalls, CallerRuns, CallerFrame, Write, WriteReturns, FillChunk, Close,
            DrainCloseEncode, DrainCloseOut, DrainFlushLast, DrainClosePar,
            DrainReturns, SeekTrailer, WriteTrailer,
            encVars, outVars, workerVars, loopVars
      <3> QED
        BY <1>3, <3>1
    <2> QED
      BY <2>1, <2>2
  <1> QED
    BY <1>4, <1>5, <1>6, <1>7 DEF Next

-----------------------------------------------------------------------------
(* The bytes.                                                              *)

\* a goroutine that still runs: Close has not reached the trailer
LEMMA Running ==
  ASSUME OrderInv, (\E w \in Workers : Worker(w)) \/ WriteLoop \/ ParityLoop
  PROVE  cpc \notin AfterParity
  <1>1. ASSUME NEW w \in Workers, Worker(w) PROVE wpc[w] # "done"
    BY <1>1 DEF Worker, WorkerTake, WorkerEncode, WorkerSend, WorkerExit
  <1>2. WriteLoop => lpc # "done"
    BY DEF WriteLoop, LoopReceive, LoopSkipFailed, LoopSeek, LoopWrite,
           LoopHandOver, LoopFlushGroup, LoopExit
  <1>3. ParityLoop => ppc # "done"
    BY DEF ParityLoop, ParityReceiveBlob, ParityReceiveFlush, ParityEncode,
           ParitySeek, ParityWrite, ParityExit
  <1> QED
    BY <1>1, <1>2, <1>3 DEF OrderInv, AfterWorkers, AfterLoop, AfterParity, Trailing

\* a step that enqueues nothing, counts nothing and is not of the caller
LEMMA CountKept ==
  ASSUME CountInv, UNCHANGED <<cpc, chunkIdx, chunkLen, Enqueued>>,
         Counted' = Counted \/ err', Counted' <= chunkIdx,
         plainSize' = plainSize \/ err',
         Fault \/ faults' = faults, err => err', cpc \notin Trailing
  PROVE  CountInv'
  <1>1. FirstBytes(Counted)' = FirstBytes(Counted) \/ err'
    BY DEF FirstBytes, Enqueued
  <1> QED
    BY <1>1 DEF CountInv, Fault

LEMMA CountStep ==
  ASSUME TypeInv, OrderInv, JobsInv, CountInv, [Next]_vars
  PROVE  CountInv'
  <1>0. /\ chunkIdx \in Nat /\ chunkLen \in Nat /\ accepted \in Nat /\ rest \in Nat
        /\ next \in Nat /\ plainSize \in Nat /\ CPS \in Nat \ {0}
    BY PipelineAssumption DEF TypeInv, CallerTypeOK, LoopInv, LoopTypeOK, CPS
  <1>1. (err => err') /\ (~ EnqueueChunk => UNCHANGED <<chunkIdx, Enqueued>>)
    BY Sticky
  <1>2. CASE UNCHANGED vars \/ CallAfterClose
    BY <1>2 DEF CallAfterClose, vars, callerVars, loopVars, countVars, faultVars,
                CountInv, Counted, FirstBytes, Enqueued
  <1>3. CASE UserCalls \/ CallerRuns
    <2>1. UNCHANGED <<lpc, next, plainSize, Counted>>
      BY <1>3 DEF UserCalls, CallerRuns, CallerFrame, loopVars, countVars, Counted
    <2>2. CASE EnqueueChunk
      <3>1. /\ Enqueued' = chunkIdx * CPS + chunkLen /\ chunkLen \in 1 .. CPS
            /\ chunkIdx' = chunkIdx + 1
            /\ \A m \in 0 .. chunkIdx : FirstBytes(m)' = FirstBytes(m)
        BY <2>2, Enqueues
      <3>2. /\ chunkIdx * CPS \in Nat /\ (chunkIdx + 1) * CPS = chunkIdx * CPS + CPS
        BY <1>0, Multiples
      <3>3. (chunkIdx - 1)' * CPS = chunkIdx * CPS /\ chunkIdx' * CPS = chunkIdx * CPS + CPS
        <4>1. (chunkIdx - 1)' = chunkIdx
          BY <1>0, <3>1
        <4> QED
          BY <3>1, <3>2, <4>1
      <3>4. /\ UNCHANGED <<cpc, err, faults>> /\ chunkLen' = 0
            /\ cpc = "write" => chunkLen = CPS
            /\ cpc \in {"write", "drain"}
        BY <2>2 DEF EnqueueChunk, faultVars, CPS
      <3>5. ((chunkIdx - 1) * CPS)' < Enqueued' /\ Enqueued' <= (chunkIdx * CPS)'
        BY <1>0, <3>1, <3>2, <3>3 DEF CPS
      <3>6. cpc' \in {"idle", "write"} => Enqueued' = (chunkIdx * CPS)'
        BY <3>1, <3>3, <3>4 DEF CPS
      <3>7. Counted \in 0 .. chunkIdx /\ Counted' <= chunkIdx'
        BY <1>0, <2>1, <3>1 DEF CountInv, Counted
      <3>8. FirstBytes(Counted)' = FirstBytes(Counted)
        <4>1. PICK m \in 0 .. chunkIdx : m = Counted
          BY <3>7
        <4>2. m = Counted'
          BY <2>1, <4>1
        <4>3. FirstBytes(m)' = FirstBytes(m)
          BY <3>1
        <4> QED
          BY <4>1, <4>2, <4>3 DEF FirstBytes
      <3> QED
        BY <2>1, <3>4, <3>5, <3>6, <3>7, <3>8 DEF CountInv, Trailing
    <2>3. CASE ~ EnqueueChunk
      <3>1. UNCHANGED <<chunkIdx, Enqueued>> /\ FirstBytes(Counted)' = FirstBytes(Counted)
        BY <1>1, <2>1, <2>3 DEF FirstBytes
      <3>2. err' = err
        BY <1>3, <2>3
        DEF UserCalls, CallerRuns, Write, WriteReturns, FillChunk, Close,
            DrainCloseEncode, DrainCloseOut, DrainFlushLast, DrainClosePar,
            DrainReturns, SeekTrailer, WriteTrailer, TrailerFault, faultVars
      <3>3. cpc' # "failed" => cpc # "failed" /\ faults' = faults
        BY <1>3, <2>3
        DEF UserCalls, CallerRuns, Write, WriteReturns, FillChunk, Close,
            DrainCloseEncode, DrainCloseOut, DrainFlushLast, DrainClosePar,
            DrainReturns, SeekTrailer, WriteTrailer, TrailerFault, CallerGoes, faultVars
      <3>4. cpc' \in Trailing => ~ err
        BY <1>3, <2>3
        DEF UserCalls, CallerRuns, Write, WriteReturns, FillChunk, Close,
            DrainCloseEncode, DrainCloseOut, DrainFlushLast, DrainClosePar,
            DrainReturns, SeekTrailer, WriteTrailer, TrailerFault, CallerGoes,
            Trailing, CountInv
      <3>5. (cpc' \in {"idle", "write"} \/ chunkLen' > 0)
              => (cpc \in {"idle", "write"} \/ chunkLen > 0)
        BY <1>3, <2>3
        DEF UserCalls, CallerRuns, Write, WriteReturns, FillChunk, Close,
            DrainCloseEncode, DrainCloseOut, DrainFlushLast, DrainClosePar,
            DrainReturns, SeekTrailer, WriteTrailer, TrailerFault, CallerGoes
      <3> QED
        BY <2>1, <3>1, <3>2, <3>3, <3>4, <3>5 DEF CountInv
    <2> QED
      BY <2>2, <2>3
  <1>4. CASE (\E w \in Workers : Worker(w)) \/ WriteLoop \/ ParityLoop
    <2>1. cpc \notin Trailing
      BY <1>4, Running DEF AfterParity
    <2>2. UNCHANGED <<cpc, chunkIdx, chunkLen, Enqueued>>
      BY <1>4 DEF Worker, WorkerFrame, WriteLoop, LoopFrame, ParityLoop, ParityFrame,
                  callerVars, Enqueued
    <2>3. Counted <= chunkIdx /\ Counted \in Nat
      BY <1>0 DEF CountInv, Counted
    <2>4. ASSUME NEW w \in Workers, Worker(w) PROVE CountInv'
      <3>1. UNCHANGED <<Counted, plainSize>>
        BY <2>4 DEF Worker, WorkerFrame, loopVars, countVars, Counted
      <3>2. Fault \/ faults' = faults
        BY <2>4 DEF Worker, WorkerTake, WorkerEncode, WorkerSend, WorkerExit, faultVars
      <3> QED
        BY <1>1, <2>1, <2>2, <2>3, <3>1, <3>2, CountKept
    <2>5. CASE ParityLoop
      <3>1. UNCHANGED <<Counted, plainSize>>
        BY <2>5 DEF ParityLoop, ParityFrame, loopVars, countVars, Counted
      <3>2. Fault \/ faults' = faults
        BY <2>5 DEF ParityLoop, ParityReceiveBlob, ParityReceiveFlush, ParityEncode,
                    ParitySeek, ParityWrite, ParityExit, faultVars
      <3> QED
        BY <1>1, <2>1, <2>2, <2>3, <3>1, <3>2, CountKept
    <2>6. CASE LoopReceive \/ LoopExit
      <3>1. UNCHANGED <<Counted, plainSize, faults>>
        BY <2>6 DEF LoopReceive, LoopExit, Counted, countVars, faultVars
      <3> QED
        BY <1>1, <2>1, <2>2, <2>3, <3>1, CountKept
    <2>7. CASE LoopHandOver \/ LoopFlushGroup
      <3>1. UNCHANGED <<Counted, plainSize, faults>>
        BY <2>7 DEF LoopHandOver, LoopFlushGroup, LoopAdvances, Counted, countVars, faultVars
      <3> QED
        BY <1>1, <2>1, <2>2, <2>3, <3>1, CountKept
    <2>8. CASE LoopSkipFailed
      <3>1. PICK j \in Ready : j.failed
        BY <2>8 DEF LoopSkipFailed
      <3>2. err /\ next < chunkIdx
        BY <3>1 DEF Ready, JobsInv, GoodJob
      <3>3. Counted' <= chunkIdx /\ UNCHANGED <<plainSize, faults>>
        BY <1>0, <2>8, <3>2 DEF LoopSkipFailed, Counted, countVars, faultVars
      <3> QED
        BY <1>1, <2>1, <2>2, <3>2, <3>3, CountKept
    <2>9. CASE LoopSeek
      <3>1. PICK j \in Ready :
              \/ lpc' = "write" /\ UNCHANGED next /\ UNCHANGED faultVars
              \/ Fault /\ LoopAdvances
        BY <2>9 DEF LoopSeek
      <3>2. next < chunkIdx
        BY <3>1 DEF Ready, JobsInv, GoodJob
      <3>3. lpc = "scan" /\ UNCHANGED plainSize
        BY <2>9 DEF LoopSeek, countVars
      <3>4. Counted' <= chunkIdx /\ (Counted' = Counted \/ err')
        BY <1>0, <2>3, <3>1, <3>2, <3>3 DEF LoopAdvances, Counted, Fault
      <3>5. Fault \/ faults' = faults
        BY <3>1 DEF faultVars
      <3> QED
        BY <1>1, <2>1, <2>2, <3>3, <3>4, <3>5, CountKept
    <2>10. CASE LoopWrite
      <3>1. cur \in GoodJob /\ cur.idx = next /\ lpc = "write"
        BY <2>10 DEF LoopWrite, JobsInv
      <3>2. /\ next < chunkIdx
            /\ cur.plainLen = FirstBytes(next + 1) - FirstBytes(next)
        BY <3>1 DEF GoodJob
      <3>3. CASE Fault /\ LoopAdvances /\ UNCHANGED plainSize
        <4>1. Counted' <= chunkIdx
          BY <1>0, <3>1, <3>2, <3>3 DEF LoopAdvances, Counted
        <4> QED
          BY <1>1, <2>1, <2>2, <3>3, <4>1, CountKept DEF Fault
      <3>4. CASE /\ plainSize' = plainSize + cur.plainLen /\ lpc' = "hand"
                 /\ UNCHANGED next /\ UNCHANGED faultVars
        <4>1. Counted = next /\ Counted' = next + 1
          BY <3>1, <3>4 DEF Counted
        <4>2. FirstBytes(Counted)' = FirstBytes(next + 1) /\ FirstBytes(Counted) = FirstBytes(next)
          BY <2>2, <4>1 DEF FirstBytes
        <4>3. FirstBytes(next + 1) \in Int /\ FirstBytes(next) \in Int
          <5>1. next * CPS \in Nat /\ (next + 1) * CPS \in Nat
            BY <1>0, Multiples
          <5> QED
            BY <1>0, <5>1 DEF FirstBytes, Enqueued, Lesser
        <4>4. ~ err => plainSize' = FirstBytes(Counted)'
          BY <3>2, <3>4, <4>2, <4>3 DEF CountInv
        <4>5. Counted' <= chunkIdx'
          BY <1>0, <2>2, <3>2, <4>1
        <4> QED
          BY <2>1, <2>2, <3>4, <4>4, <4>5 DEF CountInv, faultVars
      <3> QED
        BY <2>10, <3>3, <3>4 DEF LoopWrite
    <2> QED
      BY <1>4, <2>4, <2>5, <2>6, <2>7, <2>8, <2>9, <2>10 DEF WriteLoop
  <1> QED
    BY <1>2, <1>3, <1>4 DEF Next

-----------------------------------------------------------------------------
(* The chunks.                                                             *)

\* the elements of a sequence that loses its head or grows at its end
LEMMA Elements ==
  ASSUME NEW S, NEW s \in Seq(S)
  PROVE  /\ s # << >> => SeqElems(s) = {Head(s)} \cup SeqElems(Tail(s))
         /\ \A x \in S : SeqElems(Append(s, x)) = SeqElems(s) \cup {x}
  <1>1. ASSUME s # << >>
        PROVE  SeqElems(s) = {Head(s)} \cup SeqElems(Tail(s))
    <2>1. /\ Len(s) \in Nat \ {0} /\ Head(s) = s[1] /\ Len(Tail(s)) = Len(s) - 1
          /\ \A i \in 1 .. Len(Tail(s)) : Tail(s)[i] = s[i + 1]
      BY <1>1, SMT
    <2>2. ASSUME NEW i \in 1 .. Len(s) PROVE s[i] \in {Head(s)} \cup SeqElems(Tail(s))
      <3>1. CASE i = 1
        BY <2>1, <3>1
      <3>2. CASE i # 1
        <4>1. i - 1 \in 1 .. Len(Tail(s)) /\ Tail(s)[i - 1] = s[i]
          BY <2>1, <3>2
        <4> QED
          BY <4>1 DEF SeqElems
      <3> QED
        BY <3>1, <3>2
    <2>3. ASSUME NEW i \in 1 .. Len(Tail(s)) PROVE Tail(s)[i] \in SeqElems(s)
      BY <2>1, i + 1 \in 1 .. Len(s) DEF SeqElems
    <2>4. Head(s) \in SeqElems(s)
      BY <2>1, 1 \in 1 .. Len(s) DEF SeqElems
    <2> QED
      BY <2>2, <2>3, <2>4 DEF SeqElems
  <1>2. ASSUME NEW x \in S
        PROVE  SeqElems(Append(s, x)) = SeqElems(s) \cup {x}
    <2> DEFINE t == Append(s, x)
    <2>1. /\ Len(s) \in Nat /\ Len(t) = Len(s) + 1 /\ t[Len(t)] = x
          /\ \A i \in 1 .. Len(s) : t[i] = s[i]
      BY AppendProperties
    <2> HIDE DEF t
    <2>2. 1 .. Len(t) = (1 .. Len(s)) \cup {Len(t)}
      BY <2>1
    <2>3. SeqElems(t) = SeqElems(s) \cup {x}
      BY <2>1, <2>2 DEF SeqElems
    <2> QED
      BY <2>3 DEF t
  <1> QED
    BY <1>1, <1>2

\* a step that enqueues nothing and keeps the chunks it has not finished with
LEMMA CoverKept ==
  ASSUME CoverInv, next \in Nat, next' \in Nat, next <= next', chunkIdx \in Nat,
         UNCHANGED chunkIdx,
         \A j \in Flying : j.idx \in Nat /\ j.idx >= next' => \E k \in Flying' : k.idx = j.idx
  PROVE  CoverInv'
  <1> SUFFICES ASSUME NEW i \in next' .. chunkIdx - 1
               PROVE  \E k \in Flying' : k.idx = i
    BY DEF CoverInv
  <1>1. i \in next .. chunkIdx - 1 /\ i \in Nat /\ i >= next'
    OBVIOUS
  <1>2. PICK j \in Flying : j.idx = i
    BY <1>1 DEF CoverInv
  <1> QED
    BY <1>1, <1>2

LEMMA CoverStep ==
  ASSUME TypeInv, OrderInv, JobsInv, CountInv, CoverInv, [Next]_vars
  PROVE  CoverInv'
  <1>0. /\ encodeCh \in Seq(Job) /\ outCh \in Seq(Job)
        /\ wpc \in [Workers -> {"recv", "encode", "send", "done"}]
        /\ wjob \in [Workers -> Job \cup {NoJob}]
        /\ next \in Nat /\ chunkIdx \in Nat /\ chunkLen \in Nat
    BY DEF TypeInv, CallerTypeOK, ChannelInv, ChannelTypeOK, WorkerInv, WorkerTypeOK,
           LoopInv, LoopTypeOK
  <1>1. NoJob.idx \notin Nat
    BY DEF NoJob
  <1>2. ASSUME UNCHANGED <<encodeCh, outCh, wjob, pending, cur, next, chunkIdx>>
        PROVE  CoverInv'
    BY <1>2 DEF CoverInv, Flying
  <1>3. CASE UNCHANGED vars \/ CallAfterClose \/ ParityLoop
    BY <1>2, <1>3 DEF CallAfterClose, ParityLoop, ParityFrame, vars, callerVars, encVars,
                      outVars, workerVars, loopVars
  <1>4. CASE UserCalls \/ CallerRuns
    <2>1. UNCHANGED <<outCh, wjob, pending, cur, next>>
      BY <1>4
      DEF UserCalls, CallerRuns, CallerFrame, Write, WriteReturns, FillChunk, Close,
          EnqueueChunk, DrainCloseEncode, DrainCloseOut, DrainFlushLast, DrainClosePar,
          DrainReturns, SeekTrailer, WriteTrailer, outVars, workerVars, loopVars
    <2>2. CASE EnqueueChunk
      <3>1. /\ chunkIdx' = chunkIdx + 1
            /\ encodeCh' = Append(encodeCh, NewJob(chunkIdx, chunkLen))
            /\ NewJob(chunkIdx, chunkLen) \in Job
        BY <1>0, <2>2, Enqueues, Constructors DEF EnqueueChunk, CPS
      <3>2. SeqElems(encodeCh)' = SeqElems(encodeCh) \cup {NewJob(chunkIdx, chunkLen)}
        <4>1. SeqElems(encodeCh') = SeqElems(encodeCh) \cup {NewJob(chunkIdx, chunkLen)}
          BY <1>0, <3>1, Elements
        <4> QED
          BY <4>1 DEF SeqElems
      <3>3. Flying' = Flying \cup {NewJob(chunkIdx, chunkLen)}
        BY <2>1, <3>2 DEF Flying, SeqElems
      <3>4. NewJob(chunkIdx, chunkLen).idx = chunkIdx
        BY DEF NewJob
      <3> SUFFICES ASSUME NEW i \in next .. chunkIdx
                   PROVE  \E j \in Flying' : j.idx = i
        BY <1>0, <2>1, <3>1 DEF CoverInv
      <3>5. CASE i = chunkIdx
        BY <3>3, <3>4, <3>5
      <3>6. CASE i # chunkIdx
        <4>1. i \in next .. chunkIdx - 1
          BY <1>0, <3>6
        <4> QED
          BY <3>3, <4>1 DEF CoverInv
      <3> QED
        BY <3>5, <3>6
    <2>3. CASE ~ EnqueueChunk
      <3>1. UNCHANGED <<encodeCh, chunkIdx>>
        BY <1>4, <2>3
        DEF UserCalls, CallerRuns, Write, WriteReturns, FillChunk, Close,
            DrainCloseEncode, DrainCloseOut, DrainFlushLast, DrainClosePar,
            DrainReturns, SeekTrailer, WriteTrailer, TrailerFault, CallerGoes, encVars
      <3> QED
        BY <1>2, <2>1, <3>1
    <2> QED
      BY <2>2, <2>3
  <1>5. ASSUME NEW w \in Workers, Worker(w) PROVE CoverInv'
    <2>1. UNCHANGED <<pending, cur, next, chunkIdx>>
      BY <1>5 DEF Worker, WorkerFrame, callerVars, loopVars
    <2>2. CASE WorkerTake(w)
      <3>1. /\ wjob[w] = NoJob /\ wjob' = [wjob EXCEPT ![w] = Head(encodeCh)]
            /\ encodeCh # << >> /\ encodeCh' = Tail(encodeCh) /\ outCh' = outCh
        BY <2>2 DEF WorkerTake, OrderInv, outVars
      <3>2. SeqElems(encodeCh) = {Head(encodeCh)} \cup SeqElems(encodeCh')
        BY <1>0, <3>1, Elements
      <3>3. \A v \in Workers : wjob[v] # NoJob => wjob'[v] = wjob[v]
        BY <1>0, <3>1
      <3>4. wjob'[w] = Head(encodeCh) /\ wjob' \in [Workers -> {wjob'[v] : v \in Workers}]
        BY <1>0, <3>1
      <3>5. \A j \in Flying : j # NoJob => j \in Flying'
        BY <2>1, <3>1, <3>2, <3>3, <3>4 DEF Flying, SeqElems
      <3> QED
        BY <1>0, <1>1, <2>1, <3>5, CoverKept
    <2>3. CASE WorkerEncode(w)
      <3>1. wjob[w] \in Job /\ UNCHANGED <<encodeCh, outCh>>
        BY <2>3 DEF WorkerEncode, TypeInv, WorkerInv, encVars, outVars
      <3>2. /\ \A v \in Workers : v # w => wjob'[v] = wjob[v]
            /\ wjob'[w].idx = wjob[w].idx
        <4>1. CASE \E b \in Bufs \ inUse : wjob' = [wjob EXCEPT ![w].blob = b]
          BY <1>0, <3>1, <4>1 DEF Job
        <4>2. CASE wjob' = [wjob EXCEPT ![w].failed = TRUE]
          BY <1>0, <3>1, <4>2 DEF Job
        <4> QED
          BY <2>3, <4>1, <4>2 DEF WorkerEncode
      <3>3. \A v \in Workers : \E k \in Flying' : k.idx = wjob[v].idx
        <4> SUFFICES ASSUME NEW v \in Workers
                     PROVE  wjob'[v] \in Flying' /\ wjob'[v].idx = wjob[v].idx
          OBVIOUS
        <4>1. wjob'[v] \in Flying'
          BY DEF Flying
        <4> QED
          BY <3>2, <4>1
      <3>4. \A j \in Flying : j \in Flying' \/ \E v \in Workers : j = wjob[v]
        BY <2>1, <3>1 DEF Flying, SeqElems
      <3>5. \A j \in Flying : \E k \in Flying' : k.idx = j.idx
        BY <3>3, <3>4
      <3> QED
        BY <1>0, <2>1, <3>5, CoverKept
    <2>4. CASE WorkerSend(w)
      <3>1. /\ wjob[w] \in Job /\ wjob' = [wjob EXCEPT ![w] = NoJob]
            /\ outCh' = Append(outCh, wjob[w]) /\ encodeCh' = encodeCh
        BY <2>4 DEF WorkerSend, TypeInv, WorkerInv, encVars
      <3>2. SeqElems(outCh') = SeqElems(outCh) \cup {wjob[w]}
        BY <1>0, <3>1, Elements
      <3>3. \A v \in Workers : v # w => wjob'[v] = wjob[v]
        BY <1>0, <3>1
      <3>4. \A j \in Flying : j \in Flying'
        BY <2>1, <3>1, <3>2, <3>3 DEF Flying, SeqElems
      <3> QED
        BY <1>0, <2>1, <3>4, CoverKept
    <2>5. CASE WorkerExit(w)
      BY <1>2, <2>1, <2>5 DEF WorkerExit, encVars, outVars
    <2> QED
      BY <1>5, <2>2, <2>3, <2>4, <2>5 DEF Worker
  <1>6. CASE WriteLoop
    <2>1. UNCHANGED <<encodeCh, wjob, chunkIdx>>
      BY <1>6 DEF WriteLoop, LoopFrame, callerVars, encVars, workerVars
    <2>2. CASE LoopReceive
      <3>1. /\ outCh # << >> /\ outCh' = Tail(outCh) /\ pending' = pending \cup {Head(outCh)}
            /\ UNCHANGED <<cur, next>>
        BY <2>2 DEF LoopReceive
      <3>2. SeqElems(outCh) = {Head(outCh)} \cup SeqElems(outCh')
        BY <1>0, <3>1, Elements
      <3>3. \A j \in Flying : j \in Flying'
        BY <2>1, <3>1, <3>2 DEF Flying, SeqElems
      <3> QED
        BY <1>0, <2>1, <3>1, <3>3, CoverKept
    <2>3. ASSUME NEW j \in pending, j.idx = next, pending' = pending \ {j},
                 next' = next + 1, cur' = cur, outCh' = outCh
          PROVE  CoverInv'
      <3>1. \A k \in Flying : k = j \/ k \in Flying'
        BY <2>1, <2>3 DEF Flying, SeqElems
      <3>2. \A k \in Flying : k.idx \in Nat /\ k.idx >= next' => k \in Flying'
        BY <1>0, <2>3, <3>1
      <3> QED
        BY <1>0, <2>1, <2>3, <3>2, CoverKept
    <2>4. CASE LoopSkipFailed
      BY <2>3, <2>4 DEF LoopSkipFailed, Ready
    <2>5. CASE LoopSeek
      <3>1. PICK j \in Ready :
              /\ pending' = pending \ {j}
              /\ (cur' = j /\ UNCHANGED next) \/ LoopAdvances
        BY <2>5 DEF LoopSeek
      <3>2. j \in pending /\ j.idx = next /\ outCh' = outCh /\ cur = NoJob
        BY <2>5, <3>1 DEF LoopSeek, Ready, OrderInv
      <3>3. CASE cur' = j /\ UNCHANGED next
        <4>1. \A k \in Flying : k # NoJob => k \in Flying'
          BY <2>1, <3>1, <3>2, <3>3 DEF Flying, SeqElems
        <4> QED
          BY <1>0, <1>1, <2>1, <3>3, <4>1, CoverKept
      <3>4. CASE LoopAdvances
        BY <2>3, <3>1, <3>2, <3>4 DEF LoopAdvances
      <3> QED
        BY <3>1, <3>3, <3>4
    <2>6. ASSUME LoopAdvances, cur.idx = next, UNCHANGED <<pending, outCh>>
          PROVE  CoverInv'
      <3>1. \A k \in Flying : k = cur \/ k \in Flying'
        BY <2>1, <2>6 DEF Flying, SeqElems
      <3>2. next' = next + 1
        BY <2>6 DEF LoopAdvances
      <3>3. \A k \in Flying : k.idx \in Nat /\ k.idx >= next' => k \in Flying'
        BY <1>0, <2>6, <3>1, <3>2
      <3> QED
        BY <1>0, <2>1, <3>2, <3>3, CoverKept
    <2>7. CASE LoopWrite \/ LoopHandOver \/ LoopFlushGroup
      <3>1. cur.idx = next /\ UNCHANGED <<pending, outCh>>
        BY <2>7 DEF LoopWrite, LoopHandOver, LoopFlushGroup, JobsInv
      <3>2. UNCHANGED <<next, cur>> \/ LoopAdvances
        BY <2>7 DEF LoopWrite, LoopHandOver, LoopFlushGroup
      <3> QED
        BY <1>2, <2>1, <2>6, <3>1, <3>2
    <2>8. CASE LoopExit
      BY <1>2, <2>1, <2>8 DEF LoopExit
    <2> QED
      BY <1>6, <2>2, <2>4, <2>5, <2>7, <2>8 DEF WriteLoop
  <1> QED
    BY <1>3, <1>4, <1>5, <1>6 DEF Next

-----------------------------------------------------------------------------
LEMMA CommitInit == Init => CommitInv
  <1> SUFFICES ASSUME Init PROVE CommitInv
    OBVIOUS
  <1> USE DEF Init
  <1>1. OrderInv
    BY DEF OrderInv, Open, AfterWorkers, AfterLoop, AfterParity, Trailing
  <1>2. JobsInv
    <2>1. \A S : << >> \in Seq(S)
      BY EmptySeq
    <2> QED
      BY <2>1 DEF JobsInv
  <1>3. CountInv
    <2>1. CPS \in Nat \ {0} /\ (0 - 1) * CPS = 0 - CPS /\ 0 * CPS = 0
      BY PipelineAssumption, SMT DEF CPS
    <2> QED
      BY <2>1 DEF CountInv, Counted, FirstBytes, Enqueued, Lesser, Trailing
  <1>4. CoverInv
    BY DEF CoverInv
  <1> QED
    BY <1>1, <1>2, <1>3, <1>4, InitTypeInv DEF CommitInv

LEMMA CommitStep == CommitInv /\ [Next]_vars => CommitInv'
  BY TypeStep, OrderStep, JobsStep, CountStep, CoverStep DEF CommitInv

(* No failure is swallowed and no byte is lost: a Close that has gone on   *)
(* to the trailer has seen no failure of any worker, of writeLoop or of    *)
(* parityLoop, and the chunkCount and plainSize it puts in the manifest    *)
(* are those of the bytes that Write accepted.                             *)
THEOREM CommitIsHonest == Spec => []CommitMeansAll
  <1>1. CommitInv => CommitMeansAll
    <2> SUFFICES ASSUME CommitInv, cpc \in Trailing
                 PROVE  /\ faults = 0
                        /\ plainSize = accepted
                        /\ (chunkIdx - 1) * ChunkPlainSize < accepted
                        /\ accepted <= chunkIdx * ChunkPlainSize
      BY DEF CommitMeansAll, Trailing
    <2> USE DEF CommitInv
    <2>0. /\ chunkIdx \in Nat /\ accepted \in Nat /\ next \in Nat
          /\ wjob \in [Workers -> Job \cup {NoJob}]
      BY DEF TypeInv, CallerTypeOK, LoopInv, LoopTypeOK, WorkerInv, WorkerTypeOK
    <2>1. ~ err /\ faults = 0 /\ cpc # "failed"
      BY DEF CountInv, Trailing
    <2>2. /\ encodeClosed /\ outClosed /\ chunkLen = 0 /\ lpc = "done" /\ outCh = << >>
          /\ pending = {} /\ cur = NoJob
          /\ \A w \in Workers : wjob[w] = NoJob /\ encodeCh = << >>
      BY <2>1 DEF OrderInv, Open, AfterWorkers, AfterLoop, AfterParity, Trailing
    <2>3. encodeCh = << >>
      BY <2>2, PipelineAssumption
    <2>4. \A j \in Flying : j = NoJob
      <3>1. SeqElems(<< >>) = {}
        BY DEF SeqElems
      <3> QED
        BY <2>2, <2>3, <3>1 DEF Flying
    <2>5. \A j \in Flying : j.idx \notin Nat
      BY <2>4 DEF NoJob
    <2>6. ~ (next <= chunkIdx - 1)
      <3> SUFFICES ASSUME next <= chunkIdx - 1 PROVE FALSE
        OBVIOUS
      <3>1. next \in next .. chunkIdx - 1
        BY <2>0
      <3> QED
        BY <2>0, <2>5, <3>1 DEF CoverInv
    <2>7. Counted = chunkIdx /\ Enqueued = accepted
      BY <2>0, <2>2, <2>6 DEF Counted, CountInv, Enqueued
    <2>8. FirstBytes(Counted) = accepted
      <3>1. accepted <= chunkIdx * CPS /\ chunkIdx * CPS \in Nat
        BY <2>0, <2>7, Multiples DEF CountInv
      <3> QED
        BY <2>0, <2>7, <3>1 DEF FirstBytes, Lesser
    <2> QED
      BY <2>1, <2>7, <2>8 DEF CountInv, CPS
  <1> QED
    BY <1>1, CommitInit, CommitStep, PTL DEF Spec
=============================================================================
