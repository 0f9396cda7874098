--------------------------- MODULE HandoverProofs ---------------------------
(***************************************************************************)
(* What is handed from goroutine to goroutine: every chunk is in one       *)
(* place, every buffer has one owner, and every group gets the parity of   *)
(* its own chunks.                                                         *)
(***************************************************************************)
EXTENDS PipelineProofs, FiniteSetTheorems

-----------------------------------------------------------------------------
(* The chunks.  encodeCh holds the last chunks in order; the chunks the    *)
(* workers have taken and writeLoop has not are with a worker, in outCh or *)
(* in pending, and no two of these hold the same.                          *)
Busy == lpc \in {"write", "hand", "flush"}
First == IF Busy THEN next + 1 ELSE next
Taken == chunkIdx - Len(encodeCh)

InOrder ==
    /\ First <= Taken
    /\ \A k \in 1 .. Len(encodeCh) : encodeCh[k].idx = Taken + k - 1

InTransit ==
    /\ \A w \in Workers : wjob[w] # NoJob => wjob[w].idx \in First .. Taken - 1
    /\ \A k \in 1 .. Len(outCh) : outCh[k].idx \in First .. Taken - 1
    /\ \A j \in pending : j.idx \in First .. Taken - 1

Distinct ==
    /\ \A v, w \in Workers : wjob[v] # NoJob /\ wjob[v].idx = wjob[w].idx => v = w
    /\ \A k, l \in 1 .. Len(outCh) : outCh[k].idx = outCh[l].idx => k = l
    /\ \A j, k \in pending : j.idx = k.idx => j = k
    /\ \A w \in Workers : \A k \in 1 .. Len(outCh) : wjob[w].idx # outCh[k].idx
    /\ \A w \in Workers : \A j \in pending : wjob[w].idx # j.idx
    /\ \A k \in 1 .. Len(outCh) : \A j \in pending : outCh[k].idx # j.idx

AllTaken == lpc = "done" => next = chunkIdx

PlaceInv == InOrder /\ InTransit /\ Distinct /\ AllTaken

\* a sequence that loses its head, and one that grows at its end
LEMMA Shifted ==
  ASSUME NEW S, NEW s \in Seq(S), s # << >>
  PROVE  /\ Len(s) \in Nat \ {0} /\ Head(s) = s[1] /\ Head(s) \in S
         /\ Tail(s) \in Seq(S) /\ Len(Tail(s)) = Len(s) - 1
         /\ \A k \in 1 .. Len(Tail(s)) : Tail(s)[k] = s[k + 1]
  BY SMT

LEMMA Grown ==
  ASSUME NEW S, NEW s \in Seq(S), NEW x \in S
  PROVE  /\ Len(s) \in Nat /\ Append(s, x) \in Seq(S)
         /\ Len(Append(s, x)) = Len(s) + 1
         /\ Append(s, x)[Len(s) + 1] = x
         /\ \A k \in 1 .. Len(s) : Append(s, x)[k] = s[k]
  BY AppendProperties

LEMMA PlaceStep ==
  ASSUME CommitInv, PlaceInv, [Next]_vars
  PROVE  PlaceInv'
  <1> USE DEF PlaceInv
  <1>0. /\ encodeCh \in Seq(Job) /\ outCh \in Seq(Job) /\ pending \subseteq Job
        /\ wjob \in [Workers -> Job \cup {NoJob}]
        /\ next \in Nat /\ chunkIdx \in Nat /\ chunkLen \in Nat
        /\ Len(encodeCh) \in Nat /\ Len(outCh) \in Nat
        /\ cur \in Job \cup {NoJob} /\ Taken \in Int /\ First \in Nat
    <2>1. /\ encodeCh \in Seq(Job) /\ outCh \in Seq(Job) /\ pending \subseteq Job
          /\ wjob \in [Workers -> Job \cup {NoJob}]
          /\ next \in Nat /\ chunkIdx \in Nat /\ chunkLen \in Nat
          /\ cur \in Job \cup {NoJob}
      BY DEF CommitInv, TypeInv, CallerTypeOK, ChannelInv, ChannelTypeOK, WorkerInv,
             WorkerTypeOK, LoopInv, LoopTypeOK
    <2> QED
      BY <2>1 DEF Taken, First
  <1>1. NoJob.idx = -1 /\ \A j \in Job : j.idx \in Nat /\ j # NoJob
    BY DEF NoJob, Job
  <1>2. ASSUME UNCHANGED <<encodeCh, outCh, wjob, pending, lpc, next, chunkIdx>>
        PROVE  PlaceInv'
    BY <1>2 DEF InOrder, InTransit, Distinct, AllTaken, First, Busy, Taken
  <1>3. CASE UNCHANGED vars \/ CallAfterClose \/ ParityLoop
    BY <1>2, <1>3 DEF CallAfterClose, ParityLoop, ParityFrame, vars, callerVars, encVars,
                      outVars, workerVars, loopVars
  <1>4. CASE UserCalls \/ CallerRuns
    <2>1. UNCHANGED <<outCh, wjob, pending, lpc, next>>
      BY <1>4
      DEF UserCalls, CallerRuns, CallerFrame, Write, WriteReturns, FillChunk, EnqueueChunk,
          Close, DrainCloseEncode, DrainCloseOut, DrainFlushLast, DrainClosePar,
          DrainReturns, SeekTrailer, WriteTrailer, outVars, workerVars, loopVars
    <2>2. CASE EnqueueChunk
      <3>1. /\ encodeCh' = Append(encodeCh, NewJob(chunkIdx, chunkLen))
            /\ chunkIdx' = chunkIdx + 1
        BY <2>2 DEF EnqueueChunk
      <3>2. lpc # "done"
        BY <2>2 DEF EnqueueChunk, CommitInv, OrderInv, Open, AfterWorkers, AfterLoop,
                    AfterParity, Trailing
      <3>3. NewJob(chunkIdx, chunkLen) \in Job /\ NewJob(chunkIdx, chunkLen).idx = chunkIdx
        <4>1. chunkLen \in 1 .. ChunkPlainSize
          BY <2>2, PipelineAssumption
          DEF EnqueueChunk, CommitInv, TypeInv, CallerTypeOK
        <4> QED
          BY <1>0, <4>1, Constructors DEF NewJob
      <3> DEFINE e == Append(encodeCh, NewJob(chunkIdx, chunkLen))
      <3>4. /\ Len(e) = Len(encodeCh) + 1 /\ e[Len(encodeCh) + 1].idx = chunkIdx
            /\ \A k \in 1 .. Len(encodeCh) : e[k] = encodeCh[k]
        BY <1>0, <3>3, Grown
      <3> HIDE DEF e
      <3>5. encodeCh' = e
        BY <3>1 DEF e
      <3>6. Taken' = Taken /\ First' = First
        <4>1. Len(encodeCh) \in Nat
          BY <1>0
        <4>2. Len(encodeCh') = Len(encodeCh) + 1
          BY <3>4, <3>5
        <4>3. chunkIdx \in Nat /\ chunkIdx' = chunkIdx + 1
          BY <1>0, <3>1
        <4>4. chunkIdx' - Len(encodeCh') = chunkIdx - Len(encodeCh)
          BY <4>1, <4>2, <4>3
        <4>5. Taken' = Taken
          BY <4>4 DEF Taken
        <4>6. First' = First
          BY <2>1 DEF First, Busy
        <4> QED
          BY <4>5, <4>6
      <3>7. InOrder'
        <4> SUFFICES ASSUME NEW k \in 1 .. Len(e) PROVE e[k].idx = Taken + k - 1
          BY <3>5, <3>6 DEF InOrder
        <4>1. CASE k = Len(encodeCh) + 1
          BY <1>0, <3>4, <4>1 DEF Taken
        <4>2. CASE k # Len(encodeCh) + 1
          <5>1. k \in 1 .. Len(encodeCh)
            BY <1>0, <3>4, <4>2
          <5> QED
            BY <3>4, <5>1 DEF InOrder
        <4> QED
          BY <4>1, <4>2
      <3> QED
        BY <2>1, <3>2, <3>6, <3>7 DEF InTransit, Distinct, AllTaken
    <2>3. CASE ~ EnqueueChunk
      <3>1. UNCHANGED <<encodeCh, chunkIdx>>
        BY <1>4, <2>3
        DEF UserCalls, CallerRuns, Write, WriteReturns, FillChunk, Close,
            DrainCloseEncode, DrainCloseOut, DrainFlushLast, DrainClosePar,
            DrainReturns, SeekTrailer, WriteTrailer, TrailerFault, CallerGoes, encVars
      <3> QED
        BY <1>2, <2>1, <3>1
    <2> QED
      BY <2>2, <2>3
  <1>5. ASSUME NEW w \in Workers, Worker(w) PROVE PlaceInv'
    <2>1. UNCHANGED <<pending, lpc, next, chunkIdx>> /\ First' = First
      BY <1>5 DEF Worker, WorkerFrame, callerVars, loopVars, First, Busy
    <2>2. CASE WorkerTake(w)
      <3>1. /\ wjob[w] = NoJob /\ wjob' = [wjob EXCEPT ![w] = Head(encodeCh)]
            /\ encodeCh # << >> /\ encodeCh' = Tail(encodeCh) /\ outCh' = outCh
        BY <2>2 DEF WorkerTake, CommitInv, OrderInv, outVars
      <3>2. /\ Head(encodeCh) \in Job /\ Head(encodeCh) = encodeCh[1]
            /\ Len(encodeCh') = Len(encodeCh) - 1 /\ Len(encodeCh) \in Nat \ {0}
            /\ \A k \in 1 .. Len(encodeCh') : encodeCh'[k] = encodeCh[k + 1]
        BY <1>0, <3>1, Shifted
      <3>3. Taken' = Taken + 1 /\ Head(encodeCh).idx = Taken
        BY <1>0, <2>1, <3>2 DEF Taken, InOrder
      <3>4. InOrder'
        <4> SUFFICES ASSUME NEW k \in 1 .. Len(encodeCh')
                     PROVE  encodeCh'[k].idx = Taken' + k - 1
          BY <1>0, <2>1, <3>3 DEF InOrder
        <4>1. k + 1 \in 1 .. Len(encodeCh) /\ encodeCh'[k] = encodeCh[k + 1]
          BY <1>0, <3>2
        <4> QED
          BY <1>0, <3>3, <4>1 DEF InOrder
      <3>5. wjob'[w].idx = Taken /\ \A v \in Workers : v # w => wjob'[v] = wjob[v]
        BY <1>0, <3>1, <3>3
      <3>6. InTransit'
        BY <1>0, <2>1, <3>1, <3>3, <3>5 DEF InTransit, InOrder
      <3>7. \A v \in Workers : v # w => wjob[v].idx # Taken
        BY <1>0, <1>1 DEF InTransit, InOrder
      <3>8. Distinct'
        BY <1>0, <1>1, <2>1, <3>1, <3>5, <3>7 DEF Distinct, InTransit
      <3> QED
        BY <2>1, <3>4, <3>6, <3>8 DEF AllTaken
    <2>3. CASE WorkerEncode(w)
      <3>1. wjob[w] \in Job /\ UNCHANGED <<encodeCh, outCh>>
        BY <2>3 DEF WorkerEncode, CommitInv, TypeInv, WorkerInv, encVars, outVars
      <3>2. /\ \A v \in Workers : v # w => wjob'[v] = wjob[v]
            /\ wjob'[w].idx = wjob[w].idx
        <4>1. CASE \E b \in Bufs \ inUse : wjob' = [wjob EXCEPT ![w].blob = b]
          BY <1>0, <3>1, <4>1 DEF Job
        <4>2. CASE wjob' = [wjob EXCEPT ![w].failed = TRUE]
          BY <1>0, <3>1, <4>2 DEF Job
        <4> QED
          BY <2>3, <4>1, <4>2 DEF WorkerEncode
      <3>3. \A v \in Workers : wjob'[v].idx = wjob[v].idx
        BY <3>2
      <3>4. \A v \in Workers : wjob'[v] # NoJob => wjob[v] # NoJob
        BY <1>1, <3>1, <3>2
      <3>5. Taken' = Taken
        BY <2>1, <3>1 DEF Taken
      <3>6. InOrder' /\ InTransit'
        BY <2>1, <3>1, <3>3, <3>4, <3>5 DEF InOrder, InTransit
      <3>7. Distinct'
        BY <2>1, <3>1, <3>3, <3>4 DEF Distinct
      <3> QED
        BY <2>1, <3>6, <3>7 DEF AllTaken
    <2>4. CASE WorkerSend(w)
      <3>1. /\ wjob[w] \in Job /\ wjob' = [wjob EXCEPT ![w] = NoJob]
            /\ outCh' = Append(outCh, wjob[w]) /\ encodeCh' = encodeCh
        BY <2>4 DEF WorkerSend, CommitInv, TypeInv, WorkerInv, encVars
      <3>2. /\ Len(outCh') = Len(outCh) + 1 /\ outCh'[Len(outCh) + 1] = wjob[w]
            /\ \A k \in 1 .. Len(outCh) : outCh'[k] = outCh[k]
        BY <1>0, <3>1, Grown
      <3>3. \A k \in 1 .. Len(outCh') :
              \/ k = Len(outCh) + 1 /\ outCh'[k] = wjob[w]
              \/ k \in 1 .. Len(outCh) /\ outCh'[k] = outCh[k]
        BY <1>0, <3>2
      <3>4. wjob'[w] = NoJob /\ \A v \in Workers : v # w => wjob'[v] = wjob[v]
        BY <1>0, <3>1
      <3>5. Taken' = Taken /\ wjob[w] # NoJob
        BY <1>1, <2>1, <3>1 DEF Taken
      <3>6. InOrder'
        BY <2>1, <3>1, <3>5 DEF InOrder
      <3>7. InTransit'
        BY <2>1, <3>3, <3>4, <3>5 DEF InTransit
      <3>8. \A v \in Workers : v # w => wjob[v].idx # wjob[w].idx
        BY <3>5 DEF Distinct
      <3>9. \A k \in 1 .. Len(outCh') : outCh'[k].idx \in Nat
        BY <1>0, <1>1, <3>1, <3>3
      <3>10. Distinct'
        <4>1. \A v, u \in Workers : wjob'[v] # NoJob /\ wjob'[v].idx = wjob'[u].idx => v = u
          <5> SUFFICES ASSUME NEW v \in Workers, NEW u \in Workers,
                              wjob'[v] # NoJob, wjob'[v].idx = wjob'[u].idx
                       PROVE  v = u
            OBVIOUS
          <5>1. v # w /\ wjob'[v] = wjob[v]
            BY <3>4
          <5>2. wjob[v] # NoJob /\ wjob[v] \in Job \cup {NoJob}
            BY <1>0, <5>1
          <5>3. wjob[v].idx \in Nat
            BY <1>1, <5>2
          <5>4. wjob'[u].idx # -1
            BY <5>1, <5>3
          <5>5. u # w
            BY <1>1, <3>4, <5>4
          <5>6. wjob'[u] = wjob[u]
            BY <3>4, <5>5
          <5>7. wjob[v].idx = wjob[u].idx
            BY <5>1, <5>6
          <5> QED
            BY <5>2, <5>7 DEF Distinct
        <4>3. \A v \in Workers : \A k \in 1 .. Len(outCh') : wjob'[v].idx # outCh'[k].idx
          BY <1>1, <3>3, <3>4, <3>8, <3>9 DEF Distinct
        <4>4. ASSUME NEW v \in Workers, NEW j \in pending PROVE wjob'[v].idx # j.idx
          <5>1. CASE v = w
            <6>1. wjob'[v].idx = -1
              BY <1>1, <3>4, <5>1
            <6>2. j.idx \in Nat
              BY <1>0, <1>1
            <6> QED
              BY <6>1, <6>2
          <5>2. CASE v # w
            <6>1. wjob'[v] = wjob[v]
              BY <3>4, <5>2
            <6> QED
              BY <6>1 DEF Distinct
          <5> QED
            BY <5>1, <5>2
        <4>2. /\ \A k, l \in 1 .. Len(outCh') : outCh'[k].idx = outCh'[l].idx => k = l
              /\ \A k \in 1 .. Len(outCh') : \A j \in pending : outCh'[k].idx # j.idx
          BY <3>3 DEF Distinct
        <4> QED
          BY <2>1, <4>1, <4>2, <4>3, <4>4 DEF Distinct
      <3> QED
        BY <2>1, <3>6, <3>7, <3>10 DEF AllTaken
    <2>5. CASE WorkerExit(w)
      BY <1>2, <2>1, <2>5 DEF WorkerExit, encVars, outVars
    <2> QED
      BY <1>5, <2>2, <2>3, <2>4, <2>5 DEF Worker
  <1>6. CASE WriteLoop
    <2>1. UNCHANGED <<encodeCh, wjob, chunkIdx>> /\ Taken' = Taken
      BY <1>6 DEF WriteLoop, LoopFrame, callerVars, encVars, workerVars, Taken
    <2>2. CASE LoopReceive
      <3>1. /\ outCh # << >> /\ outCh' = Tail(outCh) /\ pending' = pending \cup {Head(outCh)}
            /\ UNCHANGED <<lpc, next>> /\ First' = First /\ lpc # "done"
        BY <2>2 DEF LoopReceive, First, Busy
      <3>2. /\ Head(outCh) = outCh[1] /\ 1 \in 1 .. Len(outCh)
            /\ \A k \in 1 .. Len(outCh') :
                 outCh'[k] = outCh[k + 1] /\ k + 1 \in 1 .. Len(outCh) /\ k + 1 # 1
        BY <1>0, <3>1, Shifted
      <3>3. InOrder' /\ InTransit'
        BY <2>1, <3>1, <3>2 DEF InOrder, InTransit
      <3>4. \A k, l \in 1 .. Len(outCh') : outCh'[k].idx = outCh'[l].idx => k = l
        <4> SUFFICES ASSUME NEW k \in 1 .. Len(outCh'), NEW l \in 1 .. Len(outCh'),
                            outCh'[k].idx = outCh'[l].idx
                     PROVE  k = l
          OBVIOUS
        <4>1. k + 1 = l + 1
          BY <3>2 DEF Distinct
        <4> QED
          BY <4>1, k \in Int, l \in Int
      <3>5. \A k \in 1 .. Len(outCh') : \A j \in pending' : outCh'[k].idx # j.idx
        BY <3>1, <3>2 DEF Distinct
      <3>6. /\ \A v \in Workers : \A k \in 1 .. Len(outCh') : wjob[v].idx # outCh'[k].idx
            /\ \A v \in Workers : \A j \in pending' : wjob[v].idx # j.idx
            /\ \A j, k \in pending' : j.idx = k.idx => j = k
        BY <3>1, <3>2 DEF Distinct
      <3>7. Distinct'
        BY <2>1, <3>4, <3>5, <3>6 DEF Distinct
      <3> QED
        BY <3>1, <3>3, <3>7 DEF AllTaken
    <2>3. ASSUME NEW j \in pending, j.idx = next, pending' = pending \ {j}, outCh' = outCh,
                 First' = next + 1, lpc = "scan", lpc' # "done"
          PROVE  PlaceInv'
      <3>1. First = next
        BY <2>3 DEF First, Busy
      <3>2. InOrder'
        BY <1>0, <2>1, <2>3, <3>1 DEF InOrder, InTransit
      <3>3. InTransit'
        BY <1>0, <1>1, <2>1, <2>3, <3>1 DEF InTransit, Distinct
      <3>4. Distinct'
        BY <2>1, <2>3 DEF Distinct
      <3> QED
        BY <2>3, <3>2, <3>3, <3>4 DEF AllTaken
    <2>4. CASE LoopSkipFailed
      <3>1. First' = next + 1 /\ lpc = "scan" /\ lpc' # "done" /\ outCh' = outCh
        BY <2>4 DEF LoopSkipFailed, First, Busy
      <3> QED
        BY <2>3, <2>4, <3>1 DEF LoopSkipFailed, Ready
    <2>5. CASE LoopSeek
      <3>1. PICK j \in Ready :
              /\ pending' = pending \ {j}
              /\ (lpc' = "write" /\ UNCHANGED next) \/ LoopAdvances
        BY <2>5 DEF LoopSeek
      <3>2. /\ First' = next + 1 /\ lpc = "scan" /\ lpc' # "done" /\ outCh' = outCh
            /\ j \in pending /\ j.idx = next
        BY <2>5, <3>1 DEF LoopSeek, LoopAdvances, First, Busy, Ready
      <3> QED
        BY <2>3, <3>1, <3>2
    <2>6. CASE LoopWrite \/ LoopHandOver \/ LoopFlushGroup
      <3>1. UNCHANGED <<pending, outCh>> /\ First' = First /\ lpc' # "done"
        BY <2>6 DEF LoopWrite, LoopHandOver, LoopFlushGroup, LoopAdvances, First, Busy
      <3> QED
        BY <2>1, <3>1 DEF InOrder, InTransit, Distinct, AllTaken
    <2>7. CASE LoopExit
      <3>1. /\ UNCHANGED <<outCh, pending, next>> /\ First' = First
            /\ lpc = "scan" /\ Ready = {} /\ outCh = << >> /\ outClosed
        BY <2>7 DEF LoopExit, First, Busy
      <3>2. cur = NoJob /\ \A w \in Workers : wjob[w] = NoJob /\ encodeCh = << >>
        BY <3>1 DEF CommitInv, OrderInv
      <3>3. encodeCh = << >>
        BY <3>2, PipelineAssumption
      <3>4. \A j \in Flying : j = NoJob \/ j \in pending
        <4>1. SeqElems(<< >>) = {}
          BY DEF SeqElems
        <4> QED
          BY <3>1, <3>2, <3>3, <4>1 DEF Flying
      <3>5. next = chunkIdx
        <4>1. next <= chunkIdx
          BY <3>1 DEF CommitInv, CountInv, Counted
        <4>2. SUFFICES ASSUME next < chunkIdx PROVE FALSE
          BY <1>0, <4>1
        <4>3. PICK j \in Flying : j.idx = next
          BY <1>0, <4>2 DEF CommitInv, CoverInv
        <4>4. j \in Ready
          BY <1>0, <1>1, <3>4, <4>3 DEF Ready
        <4> QED
          BY <3>1, <4>4
      <3> QED
        BY <2>1, <3>1, <3>5 DEF InOrder, InTransit, Distinct, AllTaken
    <2> QED
      BY <1>6, <2>2, <2>4, <2>5, <2>6, <2>7 DEF WriteLoop
  <1> QED
    BY <1>3, <1>4, <1>5, <1>6 DEF Next

\* a chunk that is in a place is one writeLoop has not finished with
LEMMA PlacesBounded ==
  ASSUME CommitInv, PlaceInv, NEW i \in Nat, NEW p \in Places(i)
  PROVE  next <= i /\ i < chunkIdx
  <1>0. /\ next \in Nat /\ chunkIdx \in Nat /\ Len(encodeCh) \in Nat
        /\ First \in Nat /\ Taken \in Int /\ Taken <= chunkIdx /\ next <= First
    BY DEF CommitInv, TypeInv, CallerTypeOK, ChannelInv, ChannelTypeOK, LoopInv,
           LoopTypeOK, First, Taken
  <1>1. CASE \E k \in 1 .. Len(encodeCh) : encodeCh[k].idx = i
    BY <1>0, <1>1 DEF PlaceInv, InOrder, Taken
  <1>2. CASE i \in First .. Taken - 1
    BY <1>0, <1>2
  <1>3. CASE cur.idx = i
    <2>1. cur # NoJob
      BY <1>3 DEF NoJob
    <2>2. lpc \in {"write", "hand", "flush"}
      BY <2>1 DEF CommitInv, OrderInv, TypeInv, LoopInv, LoopTypeOK
    <2> QED
      BY <1>0, <1>3, <2>2 DEF CommitInv, JobsInv, GoodJob
  <1>4. NoJob.idx # i
    BY DEF NoJob
  <1> QED
    BY <1>1, <1>2, <1>3, <1>4 DEF Places, PlaceInv, InTransit

\* it is in one place only
LEMMA OnePlace ==
  ASSUME CommitInv, PlaceInv, NEW i \in Nat, NEW p \in Places(i), NEW r \in Places(i)
  PROVE  p = r
  <1>0. /\ next \in Nat /\ chunkIdx \in Nat /\ Len(encodeCh) \in Nat
        /\ First \in Nat /\ Taken \in Int /\ First <= Taken
    BY DEF CommitInv, TypeInv, CallerTypeOK, ChannelInv, ChannelTypeOK, LoopInv,
           LoopTypeOK, First, Taken, PlaceInv, InOrder
  <1> DEFINE E == {<<"encode", k>> : k \in {k \in 1 .. Len(encodeCh) : encodeCh[k].idx = i}}
             W == {<<"worker", w>> : w \in {w \in Workers : wjob[w].idx = i}}
             O == {<<"out", k>> : k \in {k \in 1 .. Len(outCh) : outCh[k].idx = i}}
             P_ == {<<"pending", j>> : j \in {j \in pending : j.idx = i}}
             L == {<<"loop", j>> : j \in {j \in {cur} : j.idx = i}}
  <1>1. Places(i) = E \cup W \cup O \cup P_ \cup L
    BY DEF Places
  <1>2. NoJob.idx # i
    BY DEF NoJob
  <1>3. E # {} => i >= Taken
    BY <1>0 DEF PlaceInv, InOrder
  <1>4. W \cup O \cup P_ # {} => First <= i /\ i < Taken
    BY <1>0, <1>2 DEF PlaceInv, InTransit
  <1>5. L # {} => i < First
    <2> SUFFICES ASSUME cur.idx = i PROVE i < First
      OBVIOUS
    <2>1. lpc \in {"write", "hand", "flush"}
      BY <1>2 DEF CommitInv, OrderInv, TypeInv, LoopInv, LoopTypeOK
    <2> QED
      BY <1>0, <2>1 DEF CommitInv, JobsInv, First, Busy
  <1>6. \A x, y \in E : x = y
    <2> SUFFICES ASSUME NEW k \in 1 .. Len(encodeCh), NEW l \in 1 .. Len(encodeCh),
                        encodeCh[k].idx = i, encodeCh[l].idx = i
                 PROVE  k = l
      OBVIOUS
    <2> QED
      BY <1>0 DEF PlaceInv, InOrder
  <1>7. \A x, y \in W \cup O \cup P_ : x = y
    <2>1. \A v, w \in Workers : wjob[v].idx = i /\ wjob[w].idx = i => v = w
      BY <1>2 DEF PlaceInv, Distinct
    <2>2. W # {} => O = {} /\ P_ = {}
      BY DEF PlaceInv, Distinct
    <2>3. O # {} => P_ = {}
      BY DEF PlaceInv, Distinct
    <2>4. \A k, l \in 1 .. Len(outCh) : outCh[k].idx = i /\ outCh[l].idx = i => k = l
      BY DEF PlaceInv, Distinct
    <2>5. \A j, k \in pending : j.idx = i /\ k.idx = i => j = k
      BY DEF PlaceInv, Distinct
    <2>6. (\A x, y \in W : x = y) /\ (\A x, y \in O : x = y) /\ (\A x, y \in P_ : x = y)
      BY <2>1, <2>4, <2>5
    <2> QED
      BY <2>2, <2>3, <2>6
  <1>8. \A x, y \in L : x = y
    OBVIOUS
  <1> HIDE DEF E, W, O, P_, L
  <1>9. E # {} => W \cup O \cup P_ = {} /\ L = {}
    BY <1>0, <1>3, <1>4, <1>5
  <1>10. L # {} => W \cup O \cup P_ = {}
    BY <1>0, <1>4, <1>5
  <1> QED
    BY <1>1, <1>6, <1>7, <1>8, <1>9, <1>10

\* and it is in one as long as writeLoop has not finished with it
LEMMA SomePlace ==
  ASSUME CommitInv, NEW i \in next .. chunkIdx - 1
  PROVE  Places(i) # {}
  <1>1. PICK j \in Flying : j.idx = i
    BY DEF CommitInv, CoverInv
  <1>2. CASE \E k \in 1 .. Len(encodeCh) : j = encodeCh[k]
    BY <1>1, <1>2 DEF Places
  <1>3. CASE \E w \in Workers : j = wjob[w]
    BY <1>1, <1>3 DEF Places
  <1>4. CASE \E k \in 1 .. Len(outCh) : j = outCh[k]
    BY <1>1, <1>4 DEF Places
  <1>5. CASE j \in pending
    BY <1>1, <1>5 DEF Places
  <1>6. CASE j = cur
    BY <1>1, <1>6 DEF Places
  <1> QED
    BY <1>1, <1>2, <1>3, <1>4, <1>5, <1>6 DEF Flying, SeqElems

LEMMA PlaceInit == Init => PlaceInv
  <1> SUFFICES ASSUME Init PROVE PlaceInv
    OBVIOUS
  <1>1. /\ encodeCh = << >> /\ outCh = << >> /\ pending = {}
        /\ chunkIdx = 0 /\ next = 0 /\ lpc = "scan"
        /\ \A w \in Workers : wjob[w] = NoJob
    BY DEF Init
  <1>2. Len(encodeCh) = 0 /\ Len(outCh) = 0
    BY <1>1
  <1>3. chunkIdx = 0
    BY <1>1
  <1>4. First = 0 /\ Taken = 0
    <2>1. Taken = 0
      BY <1>2, <1>3 DEF Taken
    <2>2. First = 0
      BY <1>1 DEF First, Busy
    <2> QED
      BY <2>1, <2>2
  <1> QED
    BY <1>1, <1>2, <1>4 DEF PlaceInv, InOrder, InTransit, Distinct, AllTaken

(* No chunk is lost or duplicated on its way from Write to writeLoop, in   *)
(* whatever order the workers deliver, and at the end none is left: the    *)
(* "internal job ordering loss" of writeLoop cannot happen.                *)
THEOREM ChunksAreConserved == Spec => []ChunksConserved
  <1>1. CommitInv /\ PlaceInv => ChunksConserved
    <2> SUFFICES ASSUME CommitInv, PlaceInv PROVE ChunksConserved
      OBVIOUS
    <2>0. next \in Nat /\ chunkIdx \in Nat
      BY DEF CommitInv, TypeInv, CallerTypeOK, LoopInv, LoopTypeOK
    <2>1. next <= chunkIdx
      BY <2>0 DEF CommitInv, CountInv, Counted
    <2>2. ASSUME NEW i \in 0 .. chunkIdx, next <= i, i < chunkIdx
          PROVE  Cardinality(Places(i)) = 1
      <3>1. PICK p : p \in Places(i)
        BY <2>0, <2>2, SomePlace
      <3>2. Places(i) = {p}
        BY <3>1, OnePlace
      <3> QED
        BY <3>2, FS_Singleton
    <2>3. ASSUME NEW i \in 0 .. chunkIdx, ~ (next <= i /\ i < chunkIdx)
          PROVE  Cardinality(Places(i)) = 0
      BY <2>3, PlacesBounded, FS_EmptySet
    <2> QED
      BY <2>1, <2>2, <2>3 DEF ChunksConserved, PlaceInv, AllTaken
  <1>2. Init => CommitInv /\ PlaceInv
    BY CommitInit, PlaceInit
  <1>3. CommitInv /\ PlaceInv /\ [Next]_vars => CommitInv' /\ PlaceInv'
    BY CommitStep, PlaceStep
  <1> QED
    BY <1>1, <1>2, <1>3, PTL DEF Spec

-----------------------------------------------------------------------------
(* The buffers.  A job gets its buffer when it is encoded; from then on    *)
(* the owner is the job, then a message to parityLoop, then the group.     *)
HandedBuf(k) == IF k <= Len(blobs) THEN blobs[k] ELSE parCh[k - Len(blobs)].blob

RawJobs ==
    /\ \A k \in 1 .. Len(encodeCh) : encodeCh[k].blob = NoBuf
    /\ \A w \in Workers : wpc[w] = "encode" => wjob[w].blob = NoBuf

JobsOwn ==
    /\ \A j \in OwningJobs : j.blob \in inUse /\ content[j.blob] = j.idx
    /\ \A j, k \in OwningJobs : j.blob = k.blob => j = k

LineOwns ==
    /\ \A k \in Handed : HandedBuf(k) \in inUse
    /\ \A k, l \in Handed : HandedBuf(k) = HandedBuf(l) => k = l

OwnInv ==
    /\ RawJobs /\ JobsOwn /\ LineOwns
    /\ \A k \in Handed : \A j \in OwningJobs : HandedBuf(k) # j.blob

\* the line, position by position
LEMMA HandedIs ==
  /\ Handed = {k \in 1 .. Len(blobs) + Len(parCh) :
                 k <= Len(blobs) \/ ~ parCh[k - Len(blobs)].flush}
  /\ \A k \in Handed : Line[k].blob = HandedBuf(k)
  BY DEF Handed, Line, HandedBuf, BlobMsg

\* jobs raw as they were enqueued: only three steps put one in their place
LEMMA RawStep ==
  ASSUME CommitInv, RawJobs, [Next]_vars
  PROVE  RawJobs'
  <1>0. /\ encodeCh \in Seq(Job) /\ wjob \in [Workers -> Job \cup {NoJob}]
        /\ wpc \in [Workers -> {"recv", "encode", "send", "done"}]
        /\ chunkIdx \in Nat /\ chunkLen \in Nat
    BY DEF CommitInv, TypeInv, CallerTypeOK, ChannelInv, ChannelTypeOK, WorkerInv, WorkerTypeOK
  <1>1. CASE UNCHANGED <<encodeCh, wpc, wjob>>
    BY <1>1 DEF RawJobs
  <1>2. CASE EnqueueChunk /\ CallerFrame
    <2>1. encodeCh' = Append(encodeCh, NewJob(chunkIdx, chunkLen)) /\ UNCHANGED <<wpc, wjob>>
      BY <1>2 DEF EnqueueChunk, CallerFrame, workerVars
    <2>2. NewJob(chunkIdx, chunkLen) \in Job /\ NewJob(chunkIdx, chunkLen).blob = NoBuf
      <3>1. chunkLen \in 1 .. ChunkPlainSize
        BY <1>2, PipelineAssumption DEF EnqueueChunk, CommitInv, TypeInv, CallerTypeOK
      <3> QED
        BY <1>0, <3>1, Constructors DEF NewJob
    <2> DEFINE e == Append(encodeCh, NewJob(chunkIdx, chunkLen))
    <2>3. /\ Len(e) = Len(encodeCh) + 1 /\ e[Len(encodeCh) + 1].blob = NoBuf
          /\ \A k \in 1 .. Len(encodeCh) : e[k] = encodeCh[k]
          /\ Len(encodeCh) \in Nat
      BY <1>0, <2>2, Grown
    <2> HIDE DEF e
    <2>4. \A k \in 1 .. Len(e) : e[k].blob = NoBuf
      <3> SUFFICES ASSUME NEW k \in 1 .. Len(e) PROVE e[k].blob = NoBuf
        OBVIOUS
      <3>1. k = Len(encodeCh) + 1 \/ k \in 1 .. Len(encodeCh)
        BY <2>3
      <3> QED
        BY <2>3, <3>1 DEF RawJobs
    <2> QED
      BY <2>1, <2>4 DEF RawJobs, e
  <1>3. ASSUME NEW w \in Workers, Worker(w) PROVE RawJobs'
    <2>1. CASE WorkerTake(w)
      <3>1. /\ wjob' = [wjob EXCEPT ![w] = Head(encodeCh)] /\ encodeCh' = Tail(encodeCh)
            /\ wpc' = [wpc EXCEPT ![w] = "encode"] /\ encodeCh # << >>
        BY <2>1 DEF WorkerTake
      <3>2. /\ Head(encodeCh) = encodeCh[1] /\ 1 \in 1 .. Len(encodeCh)
            /\ \A k \in 1 .. Len(encodeCh') :
                 encodeCh'[k] = encodeCh[k + 1] /\ k + 1 \in 1 .. Len(encodeCh)
        BY <1>0, <3>1, Shifted
      <3> QED
        BY <1>0, <3>1, <3>2 DEF RawJobs
    <2>2. CASE WorkerEncode(w) \/ WorkerSend(w) \/ WorkerExit(w)
      <3>1. /\ encodeCh' = encodeCh /\ wpc'[w] # "encode"
            /\ \A v \in Workers : v # w => wpc'[v] = wpc[v]
        BY <1>0, <2>2 DEF WorkerEncode, WorkerSend, WorkerExit, encVars
      <3>2. \A v \in Workers : v # w => wjob'[v] = wjob[v]
        <4>1. \/ \E j : wjob' = [wjob EXCEPT ![w] = j]
              \/ \E b : wjob' = [wjob EXCEPT ![w].blob = b]
              \/ wjob' = [wjob EXCEPT ![w].failed = TRUE]
              \/ wjob' = wjob
          BY <2>2 DEF WorkerEncode, WorkerSend, WorkerExit
        <4> QED
          BY <1>0, <4>1
      <3> QED
        BY <3>1, <3>2 DEF RawJobs
    <2> QED
      BY <1>3, <2>1, <2>2 DEF Worker
  <1>4. CASE ~ EnqueueChunk /\ (UserCalls \/ CallerRuns)
    <2>1. UNCHANGED <<encodeCh, wpc, wjob>>
      BY <1>4
      DEF UserCalls, CallerRuns, CallerFrame, Write, WriteReturns, FillChunk, Close,
          DrainCloseEncode, DrainCloseOut, DrainFlushLast, DrainClosePar,
          DrainReturns, SeekTrailer, WriteTrailer, encVars, workerVars
    <2> QED
      BY <1>1, <2>1
  <1>5. CASE UNCHANGED vars \/ CallAfterClose \/ WriteLoop \/ ParityLoop
    BY <1>1, <1>5 DEF CallAfterClose, WriteLoop, LoopFrame, ParityLoop, ParityFrame,
                      vars, encVars, workerVars
  <1> QED
    BY <1>2, <1>3, <1>4, <1>5 DEF Next, UserCalls, CallerRuns

(* A step that makes no new owner: the jobs that own are among those that  *)
(* did, and every place in line is one that was there (f says which).      *)
LEMMA OwnersKept ==
  ASSUME CommitInv, OwnInv, RawJobs', content' = content,
         OwningJobs' \subseteq OwningJobs,
         NEW f, \A k \in Handed' : f[k] \in Handed /\ HandedBuf(k)' = HandedBuf(f[k]),
         \A k, l \in Handed' : f[k] = f[l] => k = l,
         \A j \in OwningJobs' : j.blob \in inUse',
         \A k \in Handed' : HandedBuf(k)' \in inUse'
  PROVE  OwnInv'
  <1>1. JobsOwn'
    BY DEF OwnInv, JobsOwn
  <1>2. LineOwns'
    BY DEF OwnInv, LineOwns
  <1>3. \A k \in Handed' : \A j \in OwningJobs' : HandedBuf(k)' # j.blob
    BY DEF OwnInv
  <1> QED
    BY <1>1, <1>2, <1>3 DEF OwnInv

\* the same when the line does not change, or grows by a flush
LEMMA SameLine ==
  ASSUME CommitInv, OwnInv, RawJobs', UNCHANGED <<blobs, poolVars>>,
         OwningJobs' \subseteq OwningJobs,
         parCh' = parCh \/ \E m \in ParityMsg : m.flush /\ parCh' = Append(parCh, m)
  PROVE  OwnInv'
  <1>0. parCh \in Seq(ParityMsg) /\ Len(blobs) \in Nat /\ Len(parCh) \in Nat
    BY DEF CommitInv, TypeInv, ChannelInv, ChannelTypeOK, ParityInv, ParityTypeOK
  <1>1. Handed' \subseteq Handed /\ \A k \in Handed' : HandedBuf(k)' = HandedBuf(k)
    <2>1. CASE parCh' = parCh
      BY <2>1 DEF Handed, Line, HandedBuf
    <2>2. CASE \E m \in ParityMsg : m.flush /\ parCh' = Append(parCh, m)
      <3>1. PICK m \in ParityMsg : m.flush /\ parCh' = Append(parCh, m)
        BY <2>2
      <3>2. /\ Len(parCh') = Len(parCh) + 1 /\ parCh'[Len(parCh) + 1].flush
            /\ \A k \in 1 .. Len(parCh) : parCh'[k] = parCh[k]
        BY <1>0, <3>1, Grown
      <3>3. ASSUME NEW k \in Handed' PROVE k \in Handed /\ HandedBuf(k)' = HandedBuf(k)
        <4>1. /\ k \in 1 .. Len(blobs) + Len(parCh')
              /\ k <= Len(blobs) \/ ~ parCh'[k - Len(blobs)].flush
          BY <3>3 DEF Handed, Line
        <4>2. k \in Nat /\ (k <= Len(blobs) \/ k - Len(blobs) \in 1 .. Len(parCh))
          BY <1>0, <3>2, <4>1
        <4>3. CASE k <= Len(blobs)
          <5>1. k \in 1 .. Len(blobs) + Len(parCh)
            BY <1>0, <4>1, <4>2, <4>3
          <5>2. k \in Handed
            BY <4>3, <5>1, HandedIs
          <5> QED
            BY <4>3, <5>2 DEF HandedBuf
        <4>4. CASE ~ (k <= Len(blobs))
          <5>1. k - Len(blobs) \in 1 .. Len(parCh)
            BY <4>2, <4>4
          <5>2. parCh'[k - Len(blobs)] = parCh[k - Len(blobs)]
            BY <3>2, <5>1
          <5>3. ~ parCh[k - Len(blobs)].flush
            BY <4>1, <4>4, <5>2
          <5>4. k \in 1 .. Len(blobs) + Len(parCh)
            BY <1>0, <4>2, <5>1
          <5>5. k \in Handed
            BY <5>3, <5>4, HandedIs
          <5> QED
            BY <4>4, <5>2, <5>5 DEF HandedBuf
        <4> QED
          BY <4>3, <4>4
      <3> QED
        BY <3>3
    <2> QED
      BY <2>1, <2>2
  <1> DEFINE f == [k \in Handed' |-> k]
  <1>2. /\ \A k \in Handed' : f[k] \in Handed /\ HandedBuf(k)' = HandedBuf(f[k])
        /\ \A k, l \in Handed' : f[k] = f[l] => k = l
    BY <1>1
  <1>3. /\ inUse' = inUse /\ content' = content
        /\ \A j \in OwningJobs' : j.blob \in inUse'
        /\ \A k \in Handed' : HandedBuf(k)' \in inUse'
    BY <1>1 DEF poolVars, OwnInv, JobsOwn, LineOwns
  <1> HIDE DEF f
  <1> QED
    BY <1>2, <1>3, OwnersKept

\* the steps that leave the line and the pool alone
LEMMA JobsMove ==
  ASSUME CommitInv, PlaceInv, OwnInv, RawJobs',
         \/ UserCalls \/ CallerRuns
         \/ \E w \in Workers : WorkerFrame /\ (WorkerTake(w) \/ WorkerSend(w) \/ WorkerExit(w))
         \/ LoopFrame /\ (\/ LoopReceive \/ LoopSkipFailed \/ LoopSeek \/ LoopWrite
                          \/ LoopFlushGroup \/ LoopExit)
  PROVE  OwnInv'
  <1>0. /\ encodeCh \in Seq(Job) /\ outCh \in Seq(Job)
        /\ wjob \in [Workers -> Job \cup {NoJob}]
        /\ groupsDone \in Nat /\ finalGroup \in Nat /\ finalKData \in Nat
    BY LayoutAssumption
    DEF CommitInv, TypeInv, ChannelInv, ChannelTypeOK, WorkerInv, WorkerTypeOK,
        LoopInv, LoopTypeOK
  <1>1. NoJob.blob = NoBuf /\ NoJob \notin OwningJobs
    BY DEF NoJob, OwningJobs
  <1>2. CASE UserCalls \/ CallerRuns
    <2>1. OwningJobs' = OwningJobs /\ UNCHANGED <<blobs, poolVars>>
      <3>1. UNCHANGED <<wjob, pending, cur, lpc, blobs, poolVars>>
        BY <1>2 DEF UserCalls, CallerRuns, CallerFrame, workerVars, loopVars, parityVars,
                    groupVars
      <3>2. UNCHANGED outCh
        BY <1>2 DEF UserCalls, CallerRuns, Write, WriteReturns, FillChunk, EnqueueChunk, Close,
                    DrainCloseEncode, DrainCloseOut, DrainFlushLast, DrainClosePar,
                    DrainReturns, SeekTrailer, WriteTrailer, outVars
      <3> QED
        BY <3>1, <3>2 DEF OwningJobs, JobsInFlight, SeqElems
    <2>2. parCh' = parCh \/ \E m \in ParityMsg : m.flush /\ parCh' = Append(parCh, m)
      <3>1. CASE DrainFlushLast
        <4>1. FlushMsg(finalGroup, finalKData) \in ParityMsg
          BY <1>0, Constructors DEF PassedMsg
        <4>2. FlushMsg(finalGroup, finalKData).flush
          BY DEF FlushMsg
        <4> QED
          BY <3>1, <4>1, <4>2 DEF DrainFlushLast
      <3>2. CASE ~ DrainFlushLast
        BY <1>2, <3>2
        DEF UserCalls, CallerRuns, Write, WriteReturns, FillChunk, EnqueueChunk, Close,
            DrainCloseEncode, DrainCloseOut, DrainClosePar,
            DrainReturns, SeekTrailer, WriteTrailer, parVars
      <3> QED
        BY <3>1, <3>2
    <2> QED
      BY <2>1, <2>2, SameLine
  <1>3. ASSUME NEW w \in Workers, WorkerFrame,
               WorkerTake(w) \/ WorkerSend(w) \/ WorkerExit(w)
        PROVE  OwnInv'
    <2>1. UNCHANGED <<pending, cur, lpc, blobs, parCh, poolVars>>
      BY <1>3 DEF WorkerFrame, WorkerTake, WorkerSend, WorkerExit, loopVars, parVars,
                  parityVars, groupVars
    <2>2. JobsInFlight' \subseteq JobsInFlight \cup {NoJob} \cup {j \in Job : j.blob = NoBuf}
      <3>1. CASE WorkerTake(w)
        <4>1. /\ encodeCh # << >> /\ wjob' = [wjob EXCEPT ![w] = Head(encodeCh)]
              /\ outCh' = outCh
          BY <3>1 DEF WorkerTake, outVars
        <4>2. Head(encodeCh) \in Job /\ Head(encodeCh).blob = NoBuf
          BY <1>0, <4>1, Shifted, 1 \in 1 .. Len(encodeCh) DEF OwnInv, RawJobs
        <4>3. \A v \in Workers : wjob'[v] = wjob[v] \/ wjob'[v] = Head(encodeCh)
          BY <1>0, <4>1
        <4> QED
          BY <2>1, <4>1, <4>2, <4>3 DEF JobsInFlight, SeqElems
      <3>2. CASE WorkerSend(w)
        <4>1. /\ wjob[w] \in Job /\ wjob' = [wjob EXCEPT ![w] = NoJob]
              /\ outCh' = Append(outCh, wjob[w])
          BY <3>2 DEF WorkerSend, CommitInv, TypeInv, WorkerInv
        <4>2. SeqElems(outCh') = SeqElems(outCh) \cup {wjob[w]}
          BY <1>0, <4>1, Elements
        <4>3. \A v \in Workers : wjob'[v] = wjob[v] \/ wjob'[v] = NoJob
          BY <1>0, <4>1
        <4> QED
          BY <2>1, <4>2, <4>3 DEF JobsInFlight
      <3>3. CASE WorkerExit(w)
        BY <2>1, <3>3 DEF WorkerExit, outVars, JobsInFlight, SeqElems
      <3> QED
        BY <1>3, <3>1, <3>2, <3>3
    <2>3. OwningJobs' \subseteq OwningJobs
      BY <1>1, <2>2 DEF OwningJobs
    <2> QED
      BY <2>1, <2>3, SameLine
  <1>4. ASSUME LoopFrame, \/ LoopReceive \/ LoopSkipFailed \/ LoopSeek \/ LoopWrite
                          \/ LoopFlushGroup \/ LoopExit
        PROVE  OwnInv'
    <2>1. UNCHANGED <<wjob, blobs, poolVars>>
      BY <1>4 DEF LoopFrame, workerVars, parityVars, groupVars
    <2>2. JobsInFlight' \subseteq JobsInFlight \cup {NoJob}
      <3>1. CASE LoopReceive
        <4>1. SeqElems(outCh) = {Head(outCh)} \cup SeqElems(outCh')
          BY <1>0, <3>1, Elements DEF LoopReceive
        <4> QED
          BY <2>1, <3>1, <4>1 DEF LoopReceive, JobsInFlight
      <3>2. CASE LoopSkipFailed \/ LoopSeek \/ LoopExit
        <4>1. /\ outCh' = outCh /\ pending' \subseteq pending
              /\ cur' = cur \/ cur' \in pending \/ cur' = NoJob
              /\ lpc = "scan"
          BY <3>2 DEF LoopSkipFailed, LoopSeek, LoopExit, Ready, LoopAdvances
        <4> QED
          BY <2>1, <4>1 DEF JobsInFlight, SeqElems
      <3>3. CASE LoopWrite \/ LoopFlushGroup
        <4>1. /\ outCh' = outCh /\ pending' = pending
              /\ (cur' = cur /\ lpc = "write") \/ cur' = NoJob
          BY <3>3 DEF LoopWrite, LoopFlushGroup, LoopAdvances
        <4> QED
          BY <2>1, <4>1 DEF JobsInFlight, SeqElems
      <3> QED
        BY <1>4, <3>1, <3>2, <3>3
    <2>3. OwningJobs' \subseteq OwningJobs
      BY <1>1, <2>2 DEF OwningJobs
    <2>4. parCh' = parCh \/ \E m \in ParityMsg : m.flush /\ parCh' = Append(parCh, m)
      <3>1. CASE LoopFlushGroup
        <4>1. FlushMsg(groupsDone, FileGroupChunks) \in ParityMsg
          BY <1>0, Constructors, LayoutAssumption DEF PassedMsg
        <4>2. FlushMsg(groupsDone, FileGroupChunks).flush
          BY DEF FlushMsg
        <4> QED
          BY <3>1, <4>1, <4>2 DEF LoopFlushGroup
      <3>2. CASE ~ LoopFlushGroup
        BY <1>4, <3>2 DEF LoopReceive, LoopSkipFailed, LoopSeek, LoopWrite, LoopExit
      <3> QED
        BY <3>1, <3>2
    <2> QED
      BY <2>1, <2>3, <2>4, SameLine
  <1> QED
    BY <1>2, <1>3, <1>4

\* a worker that encodes takes a buffer nobody owns
LEMMA EncodeOwns ==
  ASSUME CommitInv, PlaceInv, OwnInv, RawJobs', NEW w \in Workers, WorkerEncode(w), WorkerFrame
  PROVE  OwnInv'
  <1>0. /\ wjob \in [Workers -> Job \cup {NoJob}] /\ wjob[w] \in Job
        /\ content \in [Bufs -> Nat \cup {-1}] /\ inUse \subseteq Bufs
        /\ wjob[w].blob = NoBuf
    BY DEF CommitInv, TypeInv, WorkerInv, WorkerTypeOK, WorkerEncode, SharedTypeOK, OwnInv, RawJobs
  <1>1. UNCHANGED <<outCh, pending, cur, lpc, blobs, parCh>>
    BY DEF WorkerEncode, WorkerFrame, outVars, loopVars, parVars, parityVars, groupVars
  <1>2. Handed' = Handed /\ \A k \in Handed : HandedBuf(k)' = HandedBuf(k)
    BY <1>1 DEF Handed, Line, HandedBuf
  <1>3. CASE \E b \in Bufs \ inUse :
               /\ inUse' = inUse \cup {b}
               /\ content' = [content EXCEPT ![b] = wjob[w].idx]
               /\ wjob' = [wjob EXCEPT ![w].blob = b]
    <2>1. PICK b \in Bufs \ inUse :
            /\ inUse' = inUse \cup {b}
            /\ content' = [content EXCEPT ![b] = wjob[w].idx]
            /\ wjob' = [wjob EXCEPT ![w].blob = b]
      BY <1>3
    <2> DEFINE n == [wjob[w] EXCEPT !.blob = b]
    <2>2. n \in Job /\ n.blob = b /\ n.idx = wjob[w].idx
      BY <1>0 DEF Job
    <2>3. wjob' = [wjob EXCEPT ![w] = n]
      BY <2>1
    <2> HIDE DEF n
    <2>4. \A v \in Workers : wjob'[v] = wjob[v] \/ wjob'[v] = n
      BY <1>0, <2>3
    <2>5. OwningJobs' \subseteq OwningJobs \cup {n}
      BY <1>1, <2>4 DEF OwningJobs, JobsInFlight, SeqElems
    <2>6. \A c \in inUse : c # b /\ content'[c] = content[c]
      BY <1>0, <2>1
    <2>7. content'[b] = wjob[w].idx
      BY <1>0, <2>1
    <2>8. \A j \in OwningJobs : j.blob \in inUse /\ content[j.blob] = j.idx
      BY DEF OwnInv, JobsOwn
    <2>9. JobsOwn'
      <3>1. \A j \in OwningJobs' : j.blob \in inUse' /\ content'[j.blob] = j.idx
        BY <2>1, <2>2, <2>5, <2>6, <2>7, <2>8
      <3>2. \A j, k \in OwningJobs' : j.blob = k.blob => j = k
        BY <2>2, <2>5, <2>6, <2>8 DEF OwnInv, JobsOwn
      <3> QED
        BY <3>1, <3>2 DEF JobsOwn
    <2>10. LineOwns'
      BY <1>2, <2>1 DEF OwnInv, LineOwns
    <2>11. \A k \in Handed' : \A j \in OwningJobs' : HandedBuf(k)' # j.blob
      BY <1>2, <2>2, <2>5, <2>6 DEF OwnInv, LineOwns
    <2> QED
      BY <2>9, <2>10, <2>11 DEF OwnInv
  <1>4. CASE wjob' = [wjob EXCEPT ![w].failed = TRUE] /\ UNCHANGED poolVars
    <2>1. PICK j \in Job : j = wjob[w] /\ j.blob = NoBuf
      BY <1>0
    <2>2. wjob' = [wjob EXCEPT ![w] = [j EXCEPT !.failed = TRUE]]
      BY <1>4, <2>1
    <2>3. [j EXCEPT !.failed = TRUE].blob = NoBuf
      BY <2>1 DEF Job
    <2>4. \A v \in Workers : wjob'[v] = wjob[v] \/ wjob'[v].blob = NoBuf
      BY <1>0, <2>2, <2>3
    <2>5. OwningJobs' \subseteq OwningJobs
      BY <1>1, <2>4 DEF OwningJobs, JobsInFlight, SeqElems
    <2> QED
      BY <1>1, <1>4, <2>5, SameLine
  <1> QED
    BY <1>3, <1>4 DEF WorkerEncode

\* writeLoop's buffer goes to the end of the line, and the job loses it
LEMMA HandOverOwns ==
  ASSUME CommitInv, PlaceInv, OwnInv, RawJobs', LoopHandOver, LoopFrame
  PROVE  OwnInv'
  <1>0. /\ parCh \in Seq(ParityMsg) /\ Len(blobs) \in Nat /\ Len(parCh) \in Nat
        /\ cur \in Job /\ cur.blob \in Bufs /\ cur.idx = next /\ next \in Nat
        /\ BlobMsg(cur.blob) \in ParityMsg
    BY Constructors
    DEF CommitInv, TypeInv, ChannelInv, ChannelTypeOK, ParityInv, ParityTypeOK, LoopInv,
        LoopTypeOK, JobsInv, LoopHandOver, PassedMsg
  <1>1. /\ UNCHANGED <<wjob, outCh, pending, blobs, inUse, content>>
        /\ parCh' = Append(parCh, BlobMsg(cur.blob))
        /\ lpc = "hand" /\ (lpc' = "flush" \/ (lpc' = "scan" /\ cur' = NoJob))
    BY DEF LoopHandOver, LoopFrame, LoopAdvances, workerVars, parityVars, groupVars, poolVars
  <1>2. /\ Len(parCh') = Len(parCh) + 1 /\ parCh'[Len(parCh) + 1] = BlobMsg(cur.blob)
        /\ \A k \in 1 .. Len(parCh) : parCh'[k] = parCh[k]
    BY <1>0, <1>1, Grown
  <1>e. PICK e \in Nat : e = Len(blobs) + Len(parCh) + 1
    BY <1>0
  <1>3. HandedBuf(e)' = cur.blob
    <2>1. ~ (e <= Len(blobs')) /\ e - Len(blobs') = Len(parCh) + 1
      BY <1>0, <1>1, <1>e
    <2>2. BlobMsg(cur.blob).blob = cur.blob
      BY DEF BlobMsg
    <2> QED
      BY <1>2, <2>1, <2>2 DEF HandedBuf
  <1>4. ASSUME NEW k \in Handed', k # e PROVE k \in Handed /\ HandedBuf(k)' = HandedBuf(k)
    <2>1. /\ k \in 1 .. Len(blobs) + Len(parCh')
          /\ k <= Len(blobs) \/ ~ parCh'[k - Len(blobs)].flush
      BY <1>1, <1>4 DEF Handed, Line
    <2>2. k \in 1 .. Len(blobs) + Len(parCh)
      BY <1>0, <1>2, <1>4, <1>e, <2>1
    <2>3. k <= Len(blobs) \/ k - Len(blobs) \in 1 .. Len(parCh)
      BY <1>0, <2>2
    <2> QED
      BY <1>0, <1>1, <1>2, <2>1, <2>2, <2>3, HandedIs DEF HandedBuf
  <1>5. cur \in OwningJobs
    BY <1>0, <1>1, PipelineAssumption DEF OwningJobs, JobsInFlight
  <1>6. OwningJobs' \subseteq OwningJobs /\ cur \notin OwningJobs'
    <2>1. NoJob.blob = NoBuf
      BY DEF NoJob
    <2>2. OwningJobs' = {j \in {wjob[v] : v \in Workers} \cup SeqElems(outCh) \cup pending :
                           j.blob # NoBuf}
      BY <1>1, <2>1 DEF OwningJobs, JobsInFlight, SeqElems
    <2>3. First = next + 1
      BY <1>1 DEF First, Busy
    <2>4. \A j \in {wjob[v] : v \in Workers} \cup SeqElems(outCh) \cup pending :
             j.blob # NoBuf => j.idx >= next + 1
      BY <1>0, <2>1, <2>3 DEF PlaceInv, InTransit, SeqElems
    <2> QED
      BY <1>0, <2>2, <2>4 DEF OwningJobs, JobsInFlight
  <1>7. JobsOwn'
    BY <1>1, <1>6 DEF OwnInv, JobsOwn
  <1>8. LineOwns'
    <2>1. \A k \in Handed' : HandedBuf(k)' \in inUse'
      <3> SUFFICES ASSUME NEW k \in Handed' PROVE HandedBuf(k)' \in inUse'
        OBVIOUS
      <3>1. CASE k = e
        BY <1>1, <1>3, <1>5, <3>1 DEF OwnInv, JobsOwn
      <3>2. CASE k # e
        BY <1>1, <1>4, <3>2 DEF OwnInv, LineOwns
      <3> QED
        BY <3>1, <3>2
    <2>2. \A k, l \in Handed' : HandedBuf(k)' = HandedBuf(l)' => k = l
      <3> SUFFICES ASSUME NEW k \in Handed', NEW l \in Handed',
                          HandedBuf(k)' = HandedBuf(l)', k # l
                   PROVE  FALSE
        OBVIOUS
      <3>1. CASE k # e /\ l # e
        BY <1>4, <3>1 DEF OwnInv, LineOwns
      <3>2. CASE k = e
        BY <1>3, <1>4, <1>5, <3>2 DEF OwnInv
      <3>3. CASE l = e
        BY <1>3, <1>4, <1>5, <3>3 DEF OwnInv
      <3> QED
        BY <3>1, <3>2, <3>3
    <2> QED
      BY <2>1, <2>2 DEF LineOwns
  <1>9. \A k \in Handed' : \A j \in OwningJobs' : HandedBuf(k)' # j.blob
    <2> SUFFICES ASSUME NEW k \in Handed', NEW j \in OwningJobs'
                 PROVE  HandedBuf(k)' # j.blob
      OBVIOUS
    <2>1. j \in OwningJobs /\ j # cur
      BY <1>6
    <2>2. CASE k = e
      <3>1. j.blob # cur.blob
        BY <1>5, <2>1 DEF OwnInv, JobsOwn
      <3> QED
        BY <1>3, <2>2, <3>1
    <2>3. CASE k # e
      BY <1>4, <2>1, <2>3 DEF OwnInv
    <2> QED
      BY <2>2, <2>3
  <1> QED
    BY <1>7, <1>8, <1>9 DEF OwnInv

\* parityLoop: what it takes from its channel it keeps, until it releases a group
LEMMA ParityOwns ==
  ASSUME CommitInv, PlaceInv, OwnInv, RawJobs', ParityLoop
  PROVE  OwnInv'
  <1>0. /\ parCh \in Seq(ParityMsg) /\ blobs \in Seq(Bufs)
        /\ Len(blobs) \in Nat /\ Len(parCh) \in Nat
    BY DEF CommitInv, TypeInv, ChannelInv, ChannelTypeOK, ParityInv, ParityTypeOK
  <1>1. OwningJobs' = OwningJobs /\ content' = content
    BY DEF ParityLoop, ParityFrame, outVars, workerVars, loopVars, OwningJobs, JobsInFlight,
           SeqElems
  <1>2. CASE UNCHANGED <<blobs, parCh, inUse>>
    BY <1>1, <1>2, SameLine DEF poolVars
  <1>3. CASE ParityReceiveBlob
    <2>1. /\ parCh # << >> /\ ~ Head(parCh).flush /\ parCh' = Tail(parCh) /\ inUse' = inUse
          /\ blobs' = Append(blobs, Head(parCh).blob)
      BY <1>3 DEF ParityReceiveBlob
    <2>2. /\ Head(parCh) = parCh[1] /\ Len(parCh') = Len(parCh) - 1
          /\ \A k \in 1 .. Len(parCh') : parCh'[k] = parCh[k + 1]
      BY <1>0, <2>1, Shifted
    <2>3. /\ Len(blobs') = Len(blobs) + 1 /\ blobs'[Len(blobs) + 1] = parCh[1].blob
          /\ \A k \in 1 .. Len(blobs) : blobs'[k] = blobs[k]
      BY <1>0, <2>1, <2>2, AppendProperties
    <2>4. ASSUME NEW k \in Handed' PROVE k \in Handed /\ HandedBuf(k)' = HandedBuf(k)
      <3>1. /\ k \in 1 .. Len(blobs') + Len(parCh')
            /\ k <= Len(blobs') \/ ~ parCh'[k - Len(blobs')].flush
        BY <2>4 DEF Handed, Line
      <3>2. CASE k <= Len(blobs)
        BY <1>0, <2>2, <2>3, <3>1, <3>2, HandedIs DEF HandedBuf
      <3>3. CASE k = Len(blobs) + 1
        BY <1>0, <2>1, <2>2, <2>3, <3>1, <3>3, HandedIs DEF HandedBuf
      <3>4. CASE k > Len(blobs) + 1
        <4>1. /\ k - Len(blobs') \in 1 .. Len(parCh') /\ (k - Len(blobs')) + 1 = k - Len(blobs)
              /\ ~ (k <= Len(blobs')) /\ ~ (k <= Len(blobs))
          BY <1>0, <2>2, <2>3, <3>1, <3>4
        <4>2. parCh'[k - Len(blobs')] = parCh[k - Len(blobs)]
          BY <2>2, <4>1
        <4> QED
          BY <1>0, <2>2, <2>3, <3>1, <4>1, <4>2, HandedIs DEF HandedBuf
      <3> QED
        BY <1>0, <3>1, <3>2, <3>3, <3>4
    <2> DEFINE f == [k \in Handed' |-> k]
    <2>5. /\ \A k \in Handed' : f[k] \in Handed /\ HandedBuf(k)' = HandedBuf(f[k])
          /\ \A k, l \in Handed' : f[k] = f[l] => k = l
      BY <2>4
    <2>6. /\ \A j \in OwningJobs' : j.blob \in inUse'
          /\ \A k \in Handed' : HandedBuf(k)' \in inUse'
      BY <1>1, <2>1, <2>4 DEF OwnInv, JobsOwn, LineOwns
    <2> HIDE DEF f
    <2> QED
      BY <1>1, <2>5, <2>6, OwnersKept
  <1>4. CASE ParityReceiveFlush /\ UNCHANGED <<blobs, inUse>>
    <2>1. parCh # << >> /\ Head(parCh).flush /\ parCh' = Tail(parCh)
      BY <1>4 DEF ParityReceiveFlush
    <2>2. /\ Len(parCh') = Len(parCh) - 1
          /\ \A k \in 1 .. Len(parCh') : parCh'[k] = parCh[k + 1]
      BY <1>0, <2>1, Shifted
    <2> DEFINE f == [k \in Handed' |-> IF k <= Len(blobs) THEN k ELSE k + 1]
    <2>3. ASSUME NEW k \in Handed' PROVE f[k] \in Handed /\ HandedBuf(k)' = HandedBuf(f[k])
      <3>1. /\ k \in 1 .. Len(blobs) + Len(parCh')
            /\ k <= Len(blobs) \/ ~ parCh'[k - Len(blobs)].flush
        BY <1>4, <2>3 DEF Handed, Line
      <3>2. CASE k <= Len(blobs)
        BY <1>0, <1>4, <2>2, <3>1, <3>2, HandedIs DEF HandedBuf
      <3>3. CASE ~ (k <= Len(blobs))
        <4>1. /\ k - Len(blobs) \in 1 .. Len(parCh') /\ (k + 1) - Len(blobs) = (k - Len(blobs)) + 1
              /\ ~ (k + 1 <= Len(blobs)) /\ k + 1 \in 1 .. Len(blobs) + Len(parCh)
          BY <1>0, <2>2, <3>1, <3>3
        <4>2. parCh'[k - Len(blobs)] = parCh[(k + 1) - Len(blobs)]
          BY <2>2, <4>1
        <4> QED
          BY <1>4, <2>3, <3>1, <3>3, <4>1, <4>2, HandedIs DEF HandedBuf
      <3> QED
        BY <3>2, <3>3
    <2>4. \A k \in Handed' : k \in Nat
      BY <1>0, <1>4, <2>2 DEF Handed, Line
    <2>5. \A k, l \in Handed' : f[k] = f[l] => k = l
      BY <1>0, <2>4
    <2>6. /\ \A j \in OwningJobs' : j.blob \in inUse'
          /\ \A k \in Handed' : HandedBuf(k)' \in inUse'
      BY <1>1, <1>4, <2>3 DEF OwnInv, JobsOwn, LineOwns
    <2> HIDE DEF f
    <2> QED
      BY <1>1, <2>3, <2>5, <2>6, OwnersKept
  <1>5. ASSUME ReleaseGroup, NEW d \in {0, 1}, d <= Len(parCh), Len(parCh') = Len(parCh) - d,
               \A k \in 1 .. Len(parCh') : parCh'[k] = parCh[k + d]
        PROVE  OwnInv'
    <2>1. /\ inUse' = inUse \ {blobs[i] : i \in 1 .. Len(blobs)} /\ blobs' = << >>
          /\ Len(blobs') = 0
      BY <1>5 DEF ReleaseGroup
    <2> DEFINE f == [k \in Handed' |-> k + d + Len(blobs)]
    <2>2. ASSUME NEW k \in Handed'
          PROVE  f[k] \in Handed /\ HandedBuf(k)' = HandedBuf(f[k]) /\ f[k] > Len(blobs)
      <3>1. k \in 1 .. Len(parCh') /\ ~ parCh'[k].flush /\ HandedBuf(k)' = parCh'[k].blob
        <4>1. /\ k \in 1 .. Len(blobs') + Len(parCh')
              /\ k <= Len(blobs') \/ ~ parCh'[k - Len(blobs')].flush
          BY <2>2 DEF Handed, Line
        <4>2. Len(parCh') \in Nat /\ k \in 1 .. Len(parCh') /\ ~ (k <= 0) /\ k - 0 = k
          BY <1>0, <1>5, <2>1, <4>1
        <4> QED
          BY <2>1, <4>1, <4>2 DEF HandedBuf
      <3>2. parCh'[k] = parCh[k + d]
        BY <1>5, <3>1
      <3>3. /\ (k + d + Len(blobs)) - Len(blobs) = k + d /\ ~ (k + d + Len(blobs) <= Len(blobs))
            /\ k + d + Len(blobs) \in 1 .. Len(blobs) + Len(parCh)
        BY <1>0, <1>5, <3>1
      <3> QED
        BY <1>0, <2>2, <3>1, <3>2, <3>3, HandedIs DEF HandedBuf
    <2>3. \A k, l \in Handed' : f[k] = f[l] => k = l
      <3>1. \A k \in Handed' : k \in Int
        BY <1>0, <1>5, <2>1 DEF Handed, Line
      <3> QED
        BY <1>0, <1>5, <3>1
    <2>4. \A i \in 1 .. Len(blobs) : i \in Handed /\ HandedBuf(i) = blobs[i]
      BY <1>0, HandedIs DEF HandedBuf
    <2>5. \A j \in OwningJobs' : j.blob \in inUse'
      BY <1>1, <2>1, <2>4 DEF OwnInv, JobsOwn
    <2>6. \A k \in Handed' : HandedBuf(k)' \in inUse'
      <3> SUFFICES ASSUME NEW k \in Handed' PROVE HandedBuf(k)' \in inUse'
        OBVIOUS
      <3>1. f[k] \in Handed /\ HandedBuf(k)' = HandedBuf(f[k]) /\ f[k] > Len(blobs)
        BY <2>2
      <3>2. \A i \in 1 .. Len(blobs) : HandedBuf(f[k]) # blobs[i]
        BY <1>0, <2>4, <3>1 DEF OwnInv, LineOwns
      <3> QED
        BY <2>1, <3>1, <3>2 DEF OwnInv, LineOwns
    <2> HIDE DEF f
    <2> QED
      BY <1>1, <2>2, <2>3, <2>5, <2>6, OwnersKept
  <1>6. ASSUME ReleaseGroup, parCh' = parCh PROVE OwnInv'
    <2>1. \A k \in 1 .. Len(parCh') : parCh'[k] = parCh[k + 0]
      BY <1>0, <1>6
    <2> QED
      BY <1>0, <1>5, <1>6, <2>1
  <1>7. CASE ParityReceiveFlush /\ ReleaseGroup
    <2>1. parCh # << >> /\ parCh' = Tail(parCh)
      BY <1>7 DEF ParityReceiveFlush
    <2>2. /\ Len(parCh') = Len(parCh) - 1 /\ 1 <= Len(parCh)
          /\ \A k \in 1 .. Len(parCh') : parCh'[k] = parCh[k + 1]
      BY <1>0, <2>1, Shifted
    <2> QED
      BY <1>5, <1>7, <2>2
  <1>8. CASE ParityEncode \/ ParitySeek \/ ParityWrite \/ ParityExit
    <2>1. parCh' = parCh /\ (UNCHANGED <<blobs, inUse>> \/ ReleaseGroup)
      <3>1. CASE ParityWrite
        BY <3>1 DEF ParityWrite
      <3>2. CASE ~ ParityWrite
        BY <1>8, <3>2 DEF ParityEncode, ParitySeek, ParityExit, groupVars
      <3> QED
        BY <3>1, <3>2
    <2> QED
      BY <1>2, <1>6, <2>1
  <1>9. ASSUME ParityReceiveFlush PROVE OwnInv'
    <2>1. ReleaseGroup \/ UNCHANGED <<blobs, inUse>>
      BY <1>9 DEF ParityReceiveFlush, groupVars
    <2> QED
      BY <1>4, <1>7, <1>9, <2>1
  <1>10. \/ ParityReceiveBlob \/ ParityReceiveFlush \/ ParityEncode
         \/ ParitySeek \/ ParityWrite \/ ParityExit
    BY DEF ParityLoop
  <1> QED
    BY <1>3, <1>8, <1>9, <1>10

LEMMA OwnStep ==
  ASSUME CommitInv, PlaceInv, OwnInv, [Next]_vars
  PROVE  OwnInv'
  <1>1. RawJobs'
    BY RawStep DEF OwnInv
  <1>2. CASE UNCHANGED vars \/ CallAfterClose
    <2>1. UNCHANGED vars
      BY <1>2 DEF CallAfterClose
    <2>2. UNCHANGED <<blobs, parCh, poolVars>> /\ OwningJobs' = OwningJobs
      BY <2>1 DEF vars, parVars, parityVars, groupVars, outVars, workerVars, loopVars,
                  OwningJobs, JobsInFlight, SeqElems
    <2>3. UNCHANGED <<blobs, poolVars>> /\ OwningJobs' \subseteq OwningJobs
      BY <2>2
    <2> QED
      BY <1>1, <2>2, <2>3, SameLine
  <1>3. CASE UserCalls \/ CallerRuns
    BY <1>1, <1>3, JobsMove
  <1>4. ASSUME NEW w \in Workers, Worker(w) PROVE OwnInv'
    <2>1. WorkerFrame
      BY <1>4 DEF Worker
    <2>2. CASE WorkerEncode(w)
      BY <1>1, <2>1, <2>2, EncodeOwns
    <2>3. CASE WorkerTake(w) \/ WorkerSend(w) \/ WorkerExit(w)
      BY <1>1, <2>1, <2>3, JobsMove
    <2> QED
      BY <1>4, <2>2, <2>3 DEF Worker
  <1>5. CASE WriteLoop
    <2>1. LoopFrame
      BY <1>5 DEF WriteLoop
    <2>2. CASE LoopHandOver
      BY <1>1, <2>1, <2>2, HandOverOwns
    <2>3. CASE \/ LoopReceive \/ LoopSkipFailed \/ LoopSeek \/ LoopWrite
               \/ LoopFlushGroup \/ LoopExit
      BY <1>1, <2>1, <2>3, JobsMove
    <2> QED
      BY <1>5, <2>2, <2>3 DEF WriteLoop
  <1>6. CASE ParityLoop
    BY <1>1, <1>6, ParityOwns
  <1> QED
    BY <1>2, <1>3, <1>4, <1>5, <1>6 DEF Next

LEMMA OwnInit ==
  ASSUME Init
  PROVE  OwnInv
  <1>1. outCh = << >> /\ encodeCh = << >> /\ parCh = << >> /\ blobs = << >> /\ pending = {}
        /\ wpc = [w \in Workers |-> "recv"] /\ wjob = [w \in Workers |-> NoJob] /\ cur = NoJob
    BY DEF Init
  <1>2. RawJobs
    BY <1>1 DEF RawJobs
  <1>3. OwningJobs = {}
    BY <1>1 DEF OwningJobs, JobsInFlight, SeqElems, NoJob
  <1>4. Handed = {}
    <2>1. Len(blobs) + Len(parCh) = 0
      BY <1>1
    <2> QED
      BY <2>1 DEF Handed, Line
  <1> QED
    BY <1>2, <1>3, <1>4 DEF OwnInv, JobsOwn, LineOwns

\* as many elements as images, when no two have the same
LEMMA ImageCount ==
  ASSUME NEW S, NEW T, IsFiniteSet(T), NEW f \in [S -> T],
         \A x, y \in S : f[x] = f[y] => x = y
  PROVE  /\ IsFiniteSet(S) /\ IsFiniteSet({f[x] : x \in S})
         /\ Cardinality(S) = Cardinality({f[x] : x \in S})
  <1> DEFINE I == {f[x] : x \in S}
  <1>1. IsFiniteSet(I)
    BY FS_Subset, I \in SUBSET T
  <1>2. f \in Injection(S, I) /\ f \in Surjection(S, I)
    BY DEF Injection, IsInjective, Surjection
  <1> QED
    BY <1>1, <1>2, FS_Injection

(* BuffersIntact: the blob buffer belongs to its job from encodeJob on,    *)
(* then to its place in parityLoop's line, and goes back to the pool only  *)
(* when its group is released.  At every moment every buffer out in the    *)
(* pipeline has one owner and still holds the chunk encoded into it.       *)
THEOREM BuffersStayIntact == Spec => []BuffersIntact
  <1>1. CommitInv /\ OwnInv => BuffersIntact
    <2> SUFFICES ASSUME CommitInv, OwnInv PROVE BuffersIntact
      OBVIOUS
    <2>1. \A k \in Handed : Line[k].blob = HandedBuf(k)
      BY HandedIs
    <2> DEFINE f == [j \in OwningJobs |-> j.blob]
               h == [k \in Handed |-> Line[k].blob]
               A == {f[j] : j \in OwningJobs}
               B == {h[k] : k \in Handed}
    <2>2. IsFiniteSet(Bufs) /\ inUse \subseteq Bufs
      BY PipelineAssumption DEF CommitInv, TypeInv, SharedTypeOK
    <2>3. /\ f \in [OwningJobs -> Bufs]
          /\ \A j, k \in OwningJobs : f[j] = f[k] => j = k
      BY <2>2 DEF OwnInv, JobsOwn
    <2>4. h \in [Handed -> Bufs] /\ \A k, l \in Handed : h[k] = h[l] => k = l
      BY <2>1, <2>2 DEF OwnInv, LineOwns
    <2>5. A \cap B = {}
      BY <2>1 DEF OwnInv
    <2>6. A = {j.blob : j \in OwningJobs} /\ B = {Line[k].blob : k \in Handed}
      OBVIOUS
    <2> HIDE DEF f, h
    <2>7. /\ IsFiniteSet(A) /\ Cardinality(OwningJobs) = Cardinality(A)
          /\ IsFiniteSet(B) /\ Cardinality(Handed) = Cardinality(B)
      BY <2>2, <2>3, <2>4, ImageCount
    <2> HIDE DEF A, B
    <2>8. Cardinality(A \cup B) = Cardinality(A) + Cardinality(B)
      <3>1. Cardinality(A) \in Nat /\ Cardinality(B) \in Nat
        BY <2>7, FS_CardinalityType
      <3>2. Cardinality(A \cap B) = 0
        BY <2>5, FS_EmptySet
      <3>3. Cardinality(A \cup B) = Cardinality(A) + Cardinality(B) - Cardinality(A \cap B)
        BY <2>7, FS_Union
      <3> QED
        BY <3>1, <3>2, <3>3
    <2>9. \A k \in Handed : Line[k].blob \in inUse
      BY <2>1 DEF OwnInv, LineOwns
    <2>10. Cardinality(OwningJobs) + Cardinality(Handed)
             = Cardinality({j.blob : j \in OwningJobs} \cup {Line[k].blob : k \in Handed})
      BY <2>6, <2>7, <2>8
    <2> QED
      BY <2>9, <2>10 DEF BuffersIntact, OwnInv, JobsOwn
  <1>2. Init => CommitInv /\ PlaceInv /\ OwnInv
    BY CommitInit, PlaceInit, OwnInit
  <1>3. CommitInv /\ PlaceInv /\ OwnInv /\ [Next]_vars => CommitInv' /\ PlaceInv' /\ OwnInv'
    BY CommitStep, PlaceStep, OwnStep
  <1> QED
    BY <1>1, <1>2, <1>3, PTL DEF Spec

-----------------------------------------------------------------------------
(* The groups.  The messages of parCh, from the first that was ever sent,  *)
(* come in rows of FileGroupChunks blobs and a flush; only Drain's flush   *)
(* of the last group, when it is short, comes early, and nothing comes     *)
(* after it.  Row(g) is the place of the first message of group g, and     *)
(* Start(g) its first chunk.                                               *)
Row(g) == g * (K + 1)
Start(g) == g * K

\* the messages of its group that writeLoop has sent
Sent == IF lpc = "hand" THEN groupChunks - 1 ELSE groupChunks
Total == Row(groupsDone) + Sent

\* the group parityLoop receives, and the blobs of it that it has
Flushing == ppc \in {"encode", "seek", "write"}
NextGroup == IF flush.kData = 0 THEN 0 ELSE flush.g + 1
Received == IF Flushing THEN 0 ELSE Len(blobs)
Base == Row(NextGroup) + Received

FlushedLast == cpc \in AfterLoop /\ finalKData > 0
LastMsg == FlushMsg(finalGroup, finalKData)

LoopShape ==
    /\ lpc # "hand" => (lpc = "flush" <=> groupChunks = K)
    /\ lpc = "hand" => groupChunks >= 1
    /\ lpc = "done" => finalGroup = groupsDone /\ finalKData = groupChunks

DrainShape ==
    /\ parClosed => cpc \in AfterLoop \ {"closePar"}
    /\ ppc = "done" => parClosed /\ parCh = << >>

\* message k of parCh is the one at place r of group g
Lined ==
    \A k \in 1 .. Len(parCh), g \in Nat, r \in 0 .. K :
      Base + k - 1 = Row(g) + r /\ ~ (FlushedLast /\ k = Len(parCh)) =>
        IF r = K THEN parCh[k] = FlushMsg(g, K) ELSE ~ parCh[k].flush

Ended ==
    \/ ~ FlushedLast /\ Base + Len(parCh) = Total
    \/ /\ FlushedLast /\ Len(parCh) > 0 /\ parCh[Len(parCh)] = LastMsg
       /\ Base + Len(parCh) = Row(groupsDone) + finalKData + 1
    \/ FlushedLast /\ Len(parCh) = 0 /\ flush = LastMsg /\ Received = 0

FlushShape ==
    /\ Received <= K
    /\ Flushing => flush.kData > 0
    /\ flush.kData <= K
    /\ 0 < flush.kData /\ flush.kData < K =>
         FlushedLast /\ Len(parCh) = 0 /\ flush = LastMsg

StreamInv == LoopShape /\ DrainShape /\ Lined /\ Ended /\ FlushShape

LEMMA Rows ==
  /\ K \in Nat \ {0}
  /\ Row(0) = 0 /\ Start(0) = 0
  /\ \A g \in Nat : Row(g) \in Nat /\ Row(g + 1) = Row(g) + K + 1
  /\ \A g \in Nat : Start(g) \in Nat /\ Start(g + 1) = Start(g) + K
  <1>1. K \in Nat \ {0}
    BY LayoutAssumption DEF K
  <1>2. /\ \A g \in Nat : Row(g) \in Nat /\ Row(g + 1) = Row(g) + K + 1
        /\ \A g \in Nat : Start(g) \in Nat /\ Start(g + 1) = Start(g) + K
        /\ Row(0) = 0 /\ Start(0) = 0
    BY <1>1, SMT DEF Row, Start
  <1> QED
    BY <1>1, <1>2

\* a message has one place
LEMMA OneRow ==
  ASSUME NEW g \in Nat, NEW h \in Nat, NEW r \in 0 .. K, NEW s \in 0 .. K,
         Row(g) + r = Row(h) + s
  PROVE  g = h /\ r = s
  <1>1. /\ K + 1 \in Nat \ {0} /\ r \in 0 .. (K + 1) - 1 /\ s \in 0 .. (K + 1) - 1
        /\ g * (K + 1) + r = h * (K + 1) + s
    BY Rows DEF Row
  <1> HIDE DEF K
  <1> QED
    BY <1>1, SameRow

\* what the invariant is about has its type
LEMMA StreamTypes ==
  ASSUME CommitInv
  PROVE  /\ parCh \in Seq(ParityMsg) /\ Len(parCh) \in Nat
         /\ blobs \in Seq(Bufs) /\ Len(blobs) \in Nat
         /\ flush \in ParityMsg /\ NextGroup \in Nat /\ Received \in Nat /\ Base \in Nat
         /\ groupsDone \in Nat /\ groupChunks \in 0 .. K
         /\ finalGroup \in Nat /\ finalKData \in 0 .. K
         /\ ppc \in {"recv", "encode", "seek", "write", "done"}
         /\ lpc \in {"scan", "write", "hand", "flush", "done"}
         /\ Flushing => Len(blobs) = flush.kData
  <1>1. /\ parCh \in Seq(ParityMsg) /\ Len(parCh) \in Nat
        /\ blobs \in Seq(Bufs) /\ Len(blobs) \in Nat
        /\ flush \in ParityMsg /\ flush.g \in Nat /\ flush.kData \in Nat
        /\ ppc \in {"recv", "encode", "seek", "write", "done"}
        /\ Flushing => Len(blobs) = flush.kData
    BY DEF CommitInv, TypeInv, ChannelInv, ChannelTypeOK, ParityInv, ParityTypeOK, ParityMsg,
           Flushing
  <1>2. /\ groupsDone \in Nat /\ groupChunks \in 0 .. K
        /\ finalGroup \in Nat /\ finalKData \in 0 .. K
        /\ lpc \in {"scan", "write", "hand", "flush", "done"}
    BY DEF CommitInv, TypeInv, LoopInv, LoopTypeOK, K
  <1>3. NextGroup \in Nat /\ Received \in Nat
    BY <1>1 DEF NextGroup, Received
  <1>4. Row(NextGroup) \in Nat
    BY <1>3, Rows
  <1>5. Base \in Nat
    BY <1>3, <1>4 DEF Base
  <1> QED
    BY <1>1, <1>2, <1>3, <1>5

LEMMA StreamInit ==
  ASSUME Init
  PROVE  StreamInv
  <1>1. /\ Len(parCh) = 0 /\ Len(blobs) = 0 /\ ppc = "recv" /\ lpc = "scan" /\ cpc = "idle"
        /\ groupChunks = 0 /\ groupsDone = 0 /\ flush = FlushMsg(0, 0)
        /\ finalGroup = 0 /\ finalKData = 0 /\ parClosed = FALSE
    BY DEF Init
  <1>2. NextGroup = 0 /\ Received = 0 /\ ~ Flushing /\ ~ FlushedLast /\ Sent = 0
    BY <1>1 DEF NextGroup, Received, Flushing, FlushedLast, Sent, FlushMsg
  <1>3. LoopShape /\ DrainShape /\ FlushShape
    <2>1. flush.kData = 0
      BY <1>1 DEF FlushMsg
    <2>2. LoopShape /\ DrainShape
      BY <1>1, <1>2, Rows DEF LoopShape, DrainShape
    <2>3. FlushShape
      BY <1>2, <2>1, Rows DEF FlushShape
    <2> QED
      BY <2>2, <2>3
  <1>4. Lined /\ Ended
    BY <1>1, <1>2, Rows DEF Lined, Ended, Base, Total
  <1> QED
    BY <1>3, <1>4 DEF StreamInv

\* a step that sends and takes nothing
LEMMA StreamQuiet ==
  ASSUME CommitInv, StreamInv, UNCHANGED parCh,
         Base' = Base, Total' = Total, FlushedLast' = FlushedLast,
         FlushedLast => UNCHANGED <<groupsDone, finalGroup, finalKData>>
                          /\ flush' = flush /\ Received' = Received
  PROVE  Lined' /\ Ended'
  BY DEF StreamInv, Lined, Ended, LastMsg

LEMMA StreamCaller ==
  ASSUME CommitInv, StreamInv, UserCalls \/ CallerRuns
  PROVE  StreamInv'
  <1>0. /\ parCh \in Seq(ParityMsg) /\ Len(parCh) \in Nat /\ LastMsg \in ParityMsg
        /\ Base \in Nat /\ finalKData \in 0 .. K /\ K \in Nat
    <2>1. /\ parCh \in Seq(ParityMsg) /\ Len(parCh) \in Nat /\ Base \in Nat
          /\ finalKData \in 0 .. K /\ finalGroup \in Nat
      BY StreamTypes
    <2>2. K \in Nat
      BY Rows
    <2>3. LastMsg \in PassedMsg
      BY <2>1, <2>2, Constructors DEF LastMsg
    <2> QED
      BY <2>1, <2>2, <2>3 DEF PassedMsg
  <1>1. UNCHANGED <<lpc, groupChunks, groupsDone, finalGroup, finalKData, ppc, flush, blobs>>
    BY DEF UserCalls, CallerRuns, CallerFrame, loopVars, countVars, finalVars, parityVars, groupVars
  <1>2. UNCHANGED <<Base, Total, NextGroup, Received, Flushing, LastMsg>> /\ LoopShape'
    BY <1>1 DEF Base, Total, Sent, NextGroup, Received, Flushing, LastMsg, StreamInv, LoopShape
  <1>3. CASE ~ DrainFlushLast
    <2>1. parCh' = parCh
      BY <1>3
      DEF UserCalls, CallerRuns, Write, WriteReturns, FillChunk, EnqueueChunk, Close,
          DrainCloseEncode, DrainCloseOut, DrainClosePar, DrainReturns, SeekTrailer,
          WriteTrailer, parVars
    <2>2. /\ (cpc \in AfterLoop)' = (cpc \in AfterLoop) \/ finalKData = 0
          /\ DrainShape'
      <3> USE <1>1, <2>1 DEF StreamInv, DrainShape, AfterLoop, AfterParity, Trailing, CallerGoes
      <3>1. CASE (\E n \in 1 .. MaxBytes : Write(n)) \/ FillChunk \/ EnqueueChunk
                   \/ WriteReturns \/ Close \/ DrainCloseEncode \/ DrainCloseOut
        <4>1. /\ cpc \in {"idle", "write", "drain", "waitWorkers"}
              /\ cpc' \in {"idle", "write", "drain", "waitWorkers", "waitLoop"}
              /\ parClosed' = parClosed
          BY <3>1 DEF Write, WriteReturns, FillChunk, EnqueueChunk, Close, DrainCloseEncode,
                      DrainCloseOut, parVars
        <4> QED
          BY <4>1
      <3>2. CASE DrainClosePar
        BY <3>2 DEF DrainClosePar
      <3>3. CASE DrainReturns \/ SeekTrailer \/ WriteTrailer
        <4>1. /\ cpc \in {"waitParity", "seekTrailer", "writeTrailer"}
              /\ cpc' \in {"seekTrailer", "writeTrailer", "committed", "failed"}
              /\ parClosed' = parClosed
          BY <3>3 DEF DrainReturns, SeekTrailer, WriteTrailer, TrailerFault, parVars
        <4> QED
          BY <4>1
      <3> QED
        BY <1>3, <3>1, <3>2, <3>3 DEF UserCalls, CallerRuns
    <2>3. FlushedLast' = FlushedLast
      BY <1>0, <1>1, <2>2 DEF FlushedLast
    <2>4. Lined' /\ Ended'
      BY <1>1, <1>2, <2>1, <2>3, StreamQuiet
    <2>5. FlushShape'
      BY <1>1, <1>2, <2>1, <2>3 DEF StreamInv, FlushShape
    <2> QED
      BY <1>2, <2>2, <2>4, <2>5 DEF StreamInv
  <1>4. CASE DrainFlushLast
    <2>1. /\ cpc = "waitLoop" /\ cpc' = "closePar" /\ lpc = "done" /\ finalKData > 0
          /\ parCh' = Append(parCh, LastMsg) /\ parClosed' = parClosed
      BY <1>4 DEF DrainFlushLast, CallerGoes, LastMsg
    <2>2. ~ FlushedLast /\ FlushedLast' /\ ~ parClosed /\ ppc # "done" /\ ~ parClosed'
      BY <1>1, <2>1
      DEF FlushedLast, AfterLoop, AfterParity, Trailing, StreamInv, DrainShape
    <2>3. /\ Len(parCh') = Len(parCh) + 1 /\ parCh'[Len(parCh) + 1] = LastMsg
          /\ \A k \in 1 .. Len(parCh) : parCh'[k] = parCh[k]
      BY <1>0, <2>1, Grown
    <2>4. Lined'
      <3> SUFFICES ASSUME NEW k \in 1 .. Len(parCh'), NEW g \in Nat, NEW r \in 0 .. K,
                          Base + k - 1 = Row(g) + r, k # Len(parCh')
                   PROVE  IF r = K THEN parCh'[k] = FlushMsg(g, K) ELSE ~ parCh'[k].flush
        BY <1>2, <2>2 DEF Lined
      <3>1. k \in 1 .. Len(parCh)
        BY <1>0, <2>3
      <3> QED
        BY <2>2, <2>3, <3>1 DEF StreamInv, Lined
    <2>5. Base + Len(parCh) = Row(groupsDone) + finalKData
      BY <2>1, <2>2 DEF StreamInv, Ended, Total, Sent, LoopShape
    <2>6. Ended'
      <3>1. Base' + Len(parCh') = Row(groupsDone') + finalKData' + 1
        BY <1>0, <1>1, <1>2, <2>3, <2>5
      <3> QED
        BY <1>0, <1>1, <1>2, <2>2, <2>3, <3>1 DEF Ended
    <2>7. FlushShape'
      BY <1>1, <1>2, <2>2 DEF StreamInv, FlushShape
    <2>8. DrainShape'
      BY <1>1, <2>2 DEF StreamInv, DrainShape
    <2> QED
      BY <1>2, <2>4, <2>6, <2>7, <2>8 DEF StreamInv
  <1> QED
    BY <1>3, <1>4

\* writeLoop: nothing follows the last flush, because writeLoop has ended by then
LEMMA StreamLoop ==
  ASSUME CommitInv, StreamInv, WriteLoop
  PROVE  StreamInv'
  <1>0. /\ parCh \in Seq(ParityMsg) /\ Len(parCh) \in Nat /\ Base \in Nat
        /\ groupsDone \in Nat /\ groupChunks \in 0 .. K /\ K \in Nat \ {0}
        /\ lpc \in {"scan", "write", "hand", "flush", "done"}
        /\ lpc \in {"scan", "write"} => groupChunks < K
    BY StreamTypes, Rows DEF CommitInv, TypeInv, LoopInv, K
  <1>1. /\ UNCHANGED <<cpc, parClosed, ppc, flush, blobs>> /\ lpc # "done"
    BY DEF WriteLoop, LoopFrame, callerVars, parityVars, groupVars, LoopReceive,
           LoopSkipFailed, LoopSeek, LoopWrite, LoopHandOver, LoopFlushGroup, LoopExit
  <1>2. UNCHANGED <<Base, NextGroup, Received, Flushing>>
    BY <1>1 DEF Base, NextGroup, Received, Flushing
  <1>3. ~ FlushedLast /\ ~ FlushedLast' /\ cpc \notin AfterLoop
    BY <1>1 DEF FlushedLast, CommitInv, OrderInv
  <1>4. DrainShape'
    <2>1. ~ parClosed
      BY <1>3 DEF StreamInv, DrainShape
    <2> QED
      BY <1>1, <2>1 DEF StreamInv, DrainShape
  <1>5. FlushShape'
    BY <1>1, <1>2, <1>3 DEF StreamInv, FlushShape
  <1>6. CASE LoopReceive \/ LoopSkipFailed \/ LoopSeek \/ LoopWrite \/ LoopExit
    <2>1. parCh' = parCh /\ UNCHANGED groupsDone
      BY <1>6 DEF LoopReceive, LoopSkipFailed, LoopSeek, LoopWrite, LoopExit, countVars
    <2>2. Sent' = Sent /\ LoopShape'
      <3>1. CASE LoopWrite
        BY <1>0, <3>1 DEF LoopWrite, LoopAdvances, Sent, LoopShape, StreamInv
      <3>2. CASE LoopReceive \/ LoopSkipFailed \/ LoopSeek
        BY <1>0, <3>2
        DEF LoopReceive, LoopSkipFailed, LoopSeek, LoopAdvances, countVars, finalVars, Sent,
            LoopShape, StreamInv
      <3>3. CASE LoopExit
        BY <1>0, <3>3 DEF LoopExit, countVars, Sent, LoopShape, StreamInv
      <3> QED
        BY <1>6, <3>1, <3>2, <3>3
    <2>3. Total' = Total
      BY <2>1, <2>2 DEF Total
    <2>4. Lined' /\ Ended'
      <3>1. FlushedLast' = FlushedLast
        BY <1>3 DEF FlushedLast
      <3> QED
        BY <1>2, <1>3, <2>1, <2>3, <3>1, StreamQuiet
    <2> QED
      BY <1>4, <1>5, <2>2, <2>4 DEF StreamInv
  <1>7. ASSUME NEW m \in ParityMsg, parCh' = Append(parCh, m), Total' = Total + 1,
               \A g \in Nat, r \in 0 .. K :
                 Total = Row(g) + r => IF r = K THEN m = FlushMsg(g, K) ELSE ~ m.flush
        PROVE  Lined' /\ Ended'
    <2>1. /\ Len(parCh') = Len(parCh) + 1 /\ parCh'[Len(parCh) + 1] = m
          /\ \A k \in 1 .. Len(parCh) : parCh'[k] = parCh[k]
      BY <1>0, <1>7, Grown
    <2>2. Base + Len(parCh) = Total
      BY <1>3 DEF StreamInv, Ended
    <2>3. Lined'
      <3> SUFFICES ASSUME NEW k \in 1 .. Len(parCh'), NEW g \in Nat, NEW r \in 0 .. K,
                          Base + k - 1 = Row(g) + r
                   PROVE  IF r = K THEN parCh'[k] = FlushMsg(g, K) ELSE ~ parCh'[k].flush
        BY <1>2 DEF Lined
      <3>1. CASE k \in 1 .. Len(parCh)
        BY <1>3, <2>1, <3>1 DEF StreamInv, Lined
      <3>2. CASE k = Len(parCh) + 1
        <4>1. Total = Row(g) + r
          BY <1>0, <2>2, <3>2
        <4> QED
          BY <1>7, <2>1, <3>2, <4>1
      <3> QED
        BY <1>0, <2>1, <3>1, <3>2
    <2>4. Ended'
      <3>1. Base' + Len(parCh') = Total'
        BY <1>0, <1>2, <1>7, <2>1, <2>2
      <3> QED
        BY <1>3, <3>1 DEF Ended
    <2> QED
      BY <2>3, <2>4
  <1>8. CASE LoopHandOver
    <2>1. /\ BlobMsg(cur.blob) \in ParityMsg /\ ~ BlobMsg(cur.blob).flush
          /\ parCh' = Append(parCh, BlobMsg(cur.blob)) /\ lpc = "hand"
      BY <1>8, Constructors
      DEF LoopHandOver, CommitInv, TypeInv, LoopInv, PassedMsg, BlobMsg
    <2>2. /\ UNCHANGED <<groupChunks, groupsDone, finalGroup, finalKData>>
          /\ IF groupChunks = K THEN lpc' = "flush" ELSE lpc' = "scan"
      BY <1>8 DEF LoopHandOver, LoopAdvances, countVars, finalVars, K
    <2>3. groupChunks \in 1 .. K
      BY <1>0, <2>1 DEF StreamInv, LoopShape
    <2>4. LoopShape'
      BY <2>2 DEF LoopShape
    <2>5. Row(groupsDone) \in Nat /\ Total = Row(groupsDone) + (groupChunks - 1)
      BY <1>0, <2>1, Rows DEF Total, Sent
    <2>6. Total' = Total + 1
      BY <2>2, <2>3, <2>5 DEF Total, Sent
    <2>7. \A g \in Nat, r \in 0 .. K : Total = Row(g) + r => r # K
      <3> SUFFICES ASSUME NEW g \in Nat, NEW r \in 0 .. K,
                          Row(groupsDone) + (groupChunks - 1) = Row(g) + r
                   PROVE  r # K
        BY <2>5
      <3>1. groupChunks - 1 \in 0 .. K
        BY <1>0, <2>3
      <3>2. groupChunks - 1 = r
        BY <1>0, <3>1, OneRow
      <3> QED
        BY <2>3, <3>2
    <2>8. Lined' /\ Ended'
      BY <1>7, <2>1, <2>6, <2>7
    <2> QED
      BY <1>4, <1>5, <2>4, <2>8 DEF StreamInv
  <1>9. CASE LoopFlushGroup
    <2>1. /\ FlushMsg(groupsDone, K) \in ParityMsg
          /\ parCh' = Append(parCh, FlushMsg(groupsDone, K)) /\ lpc = "flush"
          /\ lpc' = "scan" /\ groupChunks' = 0 /\ groupsDone' = groupsDone + 1
      BY <1>0, <1>9, Constructors DEF LoopFlushGroup, LoopAdvances, PassedMsg, K
    <2>2. groupChunks = K
      BY <2>1 DEF StreamInv, LoopShape
    <2>3. LoopShape'
      BY <1>0, <2>1 DEF LoopShape
    <2>4. Row(groupsDone) \in Nat /\ Total = Row(groupsDone) + K
      BY <1>0, <2>1, <2>2, Rows DEF Total, Sent
    <2>5. Total' = Total + 1
      <3>1. Row(groupsDone + 1) = Row(groupsDone) + K + 1
        BY <1>0, Rows
      <3> QED
        BY <1>0, <2>1, <2>4, <3>1 DEF Total, Sent
    <2>6. \A g \in Nat, r \in 0 .. K : Total = Row(g) + r => r = K /\ g = groupsDone
      <3> SUFFICES ASSUME NEW g \in Nat, NEW r \in 0 .. K, Row(groupsDone) + K = Row(g) + r
                   PROVE  r = K /\ g = groupsDone
        BY <2>4
      <3> QED
        BY <1>0, OneRow, K \in 0 .. K
    <2>7. Lined' /\ Ended'
      BY <1>7, <2>1, <2>5, <2>6
    <2> QED
      BY <1>4, <1>5, <2>3, <2>7 DEF StreamInv
  <1> QED
    BY <1>6, <1>8, <1>9 DEF WriteLoop

(* The message at the head of the line is the next of the group parityLoop *)
(* is receiving: a flush finds the blobs it announces, and when it is not  *)
(* that of a full group nothing comes after it.                            *)
LEMMA HeadIsNext ==
  ASSUME CommitInv, StreamInv, ~ Flushing, parCh # << >>
  PROVE  /\ Len(parCh) > 0
         /\ ~ parCh[1].flush => Len(blobs) < K
         /\ parCh[1].flush =>
              /\ parCh[1] = FlushMsg(NextGroup, Len(blobs)) /\ Len(blobs) > 0
              /\ FlushedLast /\ Len(parCh) = 1 =>
                   parCh[1] = LastMsg /\ NextGroup = groupsDone
              /\ ~ (FlushedLast /\ Len(parCh) = 1) => Len(blobs) = K
  <1>0. /\ parCh \in Seq(ParityMsg) /\ Len(parCh) \in Nat /\ Len(blobs) \in Nat
        /\ NextGroup \in Nat /\ Base \in Nat /\ groupsDone \in Nat
        /\ finalKData \in 0 .. K
    BY StreamTypes
  <1>1. K \in Nat \ {0} /\ Row(NextGroup) \in Nat /\ Row(groupsDone) \in Nat
    BY <1>0, Rows
  <1>2. Len(parCh) > 0
    BY <1>0
  <1>3. Received = Len(blobs) /\ Len(blobs) \in 0 .. K
    BY <1>0, <1>1 DEF Received, StreamInv, FlushShape
  <1>4. Base = Row(NextGroup) + Len(blobs)
    BY <1>3 DEF Base
  <1>5. CASE ~ (FlushedLast /\ Len(parCh) = 1)
    <2>1. 1 \in 1 .. Len(parCh) /\ Base + 1 - 1 = Row(NextGroup) + Len(blobs)
      BY <1>0, <1>1, <1>2, <1>4
    <2>2. IF Len(blobs) = K THEN parCh[1] = FlushMsg(NextGroup, K) ELSE ~ parCh[1].flush
      BY <1>0, <1>3, <1>5, <2>1 DEF StreamInv, Lined
    <2>3. FlushMsg(NextGroup, K).flush
      BY DEF FlushMsg
    <2> QED
      BY <1>1, <1>2, <1>3, <1>5, <2>2, <2>3
  <1>6. CASE FlushedLast /\ Len(parCh) = 1
    <2>1. parCh[1] = LastMsg /\ Base + 1 = Row(groupsDone) + finalKData + 1
      BY <1>0, <1>6 DEF StreamInv, Ended
    <2>2. Row(NextGroup) + Len(blobs) = Row(groupsDone) + finalKData
      BY <1>0, <1>1, <1>4, <2>1
    <2>3. NextGroup = groupsDone /\ Len(blobs) = finalKData
      BY <1>0, <1>3, <2>2, OneRow
    <2>4. finalKData > 0 /\ lpc = "done"
      BY <1>6 DEF FlushedLast, CommitInv, OrderInv
    <2>5. finalGroup = groupsDone
      BY <2>4 DEF StreamInv, LoopShape
    <2>6. LastMsg.flush /\ LastMsg = FlushMsg(groupsDone, finalKData)
      BY <2>5 DEF LastMsg, FlushMsg
    <2> QED
      BY <1>2, <1>6, <2>1, <2>3, <2>4, <2>6
  <1> QED
    BY <1>5, <1>6

LEMMA StreamParity ==
  ASSUME CommitInv, StreamInv, ParityLoop
  PROVE  StreamInv'
  <1>0. /\ parCh \in Seq(ParityMsg) /\ Len(parCh) \in Nat /\ Len(blobs) \in Nat
        /\ NextGroup \in Nat /\ Base \in Nat /\ Received \in Nat /\ Row(NextGroup) \in Nat
        /\ Row(NextGroup + 1) = Row(NextGroup) + K + 1 /\ K \in Nat \ {0}
    <2>1. /\ parCh \in Seq(ParityMsg) /\ Len(parCh) \in Nat /\ Len(blobs) \in Nat
          /\ NextGroup \in Nat /\ Base \in Nat /\ Received \in Nat
      BY StreamTypes
    <2> QED
      BY <2>1, Rows
  <1>1. /\ UNCHANGED <<cpc, lpc, groupChunks, groupsDone, finalGroup, finalKData, parClosed>>
        /\ ppc # "done"
    BY DEF ParityLoop, ParityFrame, callerVars, loopVars, countVars, finalVars,
           ParityReceiveBlob, ParityReceiveFlush, ParityEncode, ParitySeek, ParityWrite,
           ParityExit
  <1>2. UNCHANGED <<Total, FlushedLast, LastMsg>> /\ LoopShape'
    BY <1>1 DEF Total, Sent, FlushedLast, LastMsg, StreamInv, LoopShape
  <1>3. ASSUME UNCHANGED <<parCh, flush>>, Received' = Received, Flushing' => Flushing,
               ppc' = "done" => parClosed /\ parCh = << >>
        PROVE  StreamInv'
    <2>1. NextGroup' = NextGroup /\ Base' = Base
      BY <1>3 DEF NextGroup, Base
    <2>2. Lined' /\ Ended'
      BY <1>1, <1>2, <1>3, <2>1, StreamQuiet
    <2>3. FlushShape'
      BY <1>2, <1>3 DEF StreamInv, FlushShape
    <2>4. DrainShape'
      BY <1>1, <1>3 DEF StreamInv, DrainShape
    <2> QED
      BY <1>2, <2>2, <2>3, <2>4 DEF StreamInv
  <1>4. CASE ParityEncode \/ ParitySeek \/ ParityWrite
    <2>1. UNCHANGED <<parCh, flush>> /\ Flushing
      BY <1>4 DEF ParityEncode, ParitySeek, ParityWrite, Flushing
    <2>2. \/ ppc' \in {"encode", "seek", "write"}
          \/ ppc' = "recv" /\ blobs' = << >>
      <3>1. CASE ParityEncode
        BY <3>1 DEF ParityEncode, ReleaseGroup
      <3>2. CASE ParitySeek
        BY <3>2 DEF ParitySeek, ReleaseGroup
      <3>3. CASE ParityWrite
        BY <3>3 DEF ParityWrite, ReleaseGroup
      <3> QED
        BY <1>4, <3>1, <3>2, <3>3
    <2>3. Received' = 0 /\ Received = 0
      <3>1. Len(<< >>) = 0
        OBVIOUS
      <3> QED
        BY <2>1, <2>2, <3>1 DEF Received, Flushing
    <2> QED
      BY <1>3, <2>1, <2>2, <2>3
  <1>5. CASE ParityExit
    BY <1>3, <1>5 DEF ParityExit, groupVars, Received, Flushing
  <1>6. ASSUME Len(parCh) > 0, ppc' # "done",
               Base' = Base + 1, parCh' = Tail(parCh), FlushShape', Len(parCh') > 0 \/ ~ FlushedLast
        PROVE  StreamInv'
    <2>1. /\ Len(parCh') = Len(parCh) - 1
          /\ \A k \in 1 .. Len(parCh') : parCh'[k] = parCh[k + 1]
      BY <1>0, <1>6, Shifted
    <2>2. Lined'
      <3> SUFFICES ASSUME NEW k \in 1 .. Len(parCh'), NEW g \in Nat, NEW r \in 0 .. K,
                          Base + 1 + k - 1 = Row(g) + r, ~ (FlushedLast /\ k = Len(parCh'))
                   PROVE  IF r = K THEN parCh'[k] = FlushMsg(g, K) ELSE ~ parCh'[k].flush
        BY <1>2, <1>6 DEF Lined
      <3>1. /\ k + 1 \in 1 .. Len(parCh) /\ Base + (k + 1) - 1 = Row(g) + r
            /\ ~ (FlushedLast /\ k + 1 = Len(parCh))
        BY <1>0, <2>1
      <3> QED
        BY <2>1, <3>1 DEF StreamInv, Lined
    <2>3. Ended'
      <3>1. Base' + Len(parCh') = Base + Len(parCh)
        <4>1. Base' = Base + 1 /\ Base \in Nat
          BY <1>0, <1>6
        <4> QED
          BY <1>0, <2>1, <4>1
      <3>2. CASE ~ FlushedLast
        BY <1>2, <3>1, <3>2 DEF StreamInv, Ended
      <3>3. CASE FlushedLast
        <4>1. parCh'[Len(parCh')] = parCh[Len(parCh)] /\ Len(parCh') > 0
          BY <1>0, <1>6, <2>1, <3>3
        <4> QED
          BY <1>1, <1>2, <1>6, <3>1, <3>3, <4>1 DEF StreamInv, Ended
      <3> QED
        BY <3>2, <3>3
    <2>4. DrainShape'
      BY <1>1, <1>6 DEF StreamInv, DrainShape
    <2> QED
      BY <1>2, <1>6, <2>2, <2>3, <2>4 DEF StreamInv
  <1>7. CASE ParityReceiveBlob
    <2>1. /\ ppc = "recv" /\ ppc' = "recv" /\ parCh # << >> /\ ~ Head(parCh).flush
          /\ parCh' = Tail(parCh) /\ flush' = flush
          /\ blobs' = Append(blobs, Head(parCh).blob)
      BY <1>7 DEF ParityReceiveBlob
    <2>2. Head(parCh) = parCh[1] /\ ~ Flushing /\ ~ Flushing' /\ Len(blobs') = Len(blobs) + 1
      BY <1>0, <2>1 DEF Flushing
    <2>3. Len(parCh) > 0 /\ Len(blobs) < K
      BY <2>1, <2>2, HeadIsNext
    <2>4. Received = Len(blobs) /\ Received' = Len(blobs) + 1 /\ NextGroup' = NextGroup
      BY <2>1, <2>2 DEF Received, NextGroup
    <2>5. Base' = Base + 1
      <3>1. Row(NextGroup)' = Row(NextGroup) /\ Row(NextGroup) \in Nat
        BY <1>0, <2>4, Rows DEF Row
      <3>2. Len(blobs) \in Nat
        BY <1>0
      <3>3. Row(NextGroup) + (Len(blobs) + 1) = Row(NextGroup) + Len(blobs) + 1
        BY <3>1, <3>2
      <3> QED
        BY <2>4, <3>1, <3>3 DEF Base
    <2>6. FlushShape'
      BY <1>0, <2>1, <2>2, <2>3, <2>4 DEF StreamInv, FlushShape
    <2>7. Len(parCh') > 0 \/ ~ FlushedLast
      <3>1. CASE FlushedLast /\ Len(parCh) = 1
        <4>1. parCh[1] = LastMsg
          BY <3>1 DEF StreamInv, Ended
        <4> QED
          BY <2>1, <2>2, <4>1 DEF LastMsg, FlushMsg
      <3>2. Len(parCh') = Len(parCh) - 1
        BY <1>0, <2>1, Shifted
      <3> QED
        BY <1>0, <2>3, <3>1, <3>2
    <2> QED
      BY <1>6, <2>1, <2>3, <2>5, <2>6, <2>7
  <1>8. CASE ParityReceiveFlush
    <2>1. /\ ppc = "recv" /\ parCh # << >> /\ Head(parCh).flush
          /\ parCh' = Tail(parCh) /\ flush' = Head(parCh)
      BY <1>8 DEF ParityReceiveFlush
    <2>2. Head(parCh) = parCh[1] /\ ~ Flushing
      BY <1>0, <2>1 DEF Flushing
    <2>3. /\ Len(parCh) > 0 /\ Len(blobs) > 0
          /\ parCh[1] = FlushMsg(NextGroup, Len(blobs))
          /\ FlushedLast /\ Len(parCh) = 1 => parCh[1] = LastMsg /\ NextGroup = groupsDone
          /\ ~ (FlushedLast /\ Len(parCh) = 1) => Len(blobs) = K
      BY <2>1, <2>2, HeadIsNext
    <2>4. flush'.kData = Len(blobs) /\ flush'.g = NextGroup
      BY <2>1, <2>2, <2>3 DEF FlushMsg
    <2>5. ppc' = "encode" /\ Flushing'
      BY <1>8, <2>1, <2>4 DEF ParityReceiveFlush, Flushing
    <2>6. NextGroup' = NextGroup + 1 /\ Received' = 0
      BY <2>3, <2>4, <2>5 DEF NextGroup, Received
    <2>7. /\ Len(parCh') = Len(parCh) - 1
          /\ \A k \in 1 .. Len(parCh') : parCh'[k] = parCh[k + 1]
      BY <1>0, <2>1, Shifted
    <2>8. CASE FlushedLast /\ Len(parCh) = 1
      <3>1. flush' = LastMsg'
        BY <1>2, <2>1, <2>2, <2>3, <2>8
      <3>2. Len(parCh') = 0 /\ flush' = LastMsg'
        BY <1>0, <2>7, <2>8, <3>1
      <3>7. Len(blobs) <= K
        BY <1>0, <2>2 DEF StreamInv, FlushShape, Received
      <3>6. FlushShape'
        BY <1>0, <1>2, <2>3, <2>4, <2>6, <2>8, <3>2, <3>7 DEF FlushShape
      <3>3. Lined' /\ Ended'
        BY <1>2, <2>6, <2>8, <3>2 DEF Lined, Ended
      <3>4. DrainShape'
        BY <1>1, <2>5 DEF StreamInv, DrainShape
      <3> QED
        BY <1>2, <3>3, <3>4, <3>6 DEF StreamInv
    <2>9. CASE ~ (FlushedLast /\ Len(parCh) = 1)
      <3>1. Len(blobs) = K
        BY <2>3, <2>9
      <3>2. FlushShape'
        BY <1>0, <2>4, <2>5, <2>6, <3>1 DEF FlushShape
      <3>3. Received = K
        BY <2>2, <3>1 DEF Received
      <3>4. Base' = Base + 1
        BY <1>0, <2>6, <3>3 DEF Base
      <3>5. Len(parCh') > 0 \/ ~ FlushedLast
        BY <1>0, <2>3, <2>7, <2>9
      <3> QED
        BY <1>6, <2>1, <2>3, <2>5, <3>2, <3>4, <3>5
    <2> QED
      BY <2>8, <2>9
  <1> QED
    BY <1>4, <1>5, <1>7, <1>8 DEF ParityLoop

LEMMA StreamStep ==
  ASSUME CommitInv, StreamInv, [Next]_vars
  PROVE  StreamInv'
  <1>1. CASE UNCHANGED vars \/ CallAfterClose \/ \E w \in Workers : Worker(w)
    <2>1. UNCHANGED <<cpc, lpc, groupChunks, groupsDone, finalGroup, finalKData, parClosed,
                      parCh, ppc, blobs, flush>>
      BY <1>1 DEF CallAfterClose, Worker, WorkerFrame, vars, callerVars, parVars, loopVars,
                  countVars, finalVars, parityVars, groupVars
    <2> QED
      BY <2>1
      DEF StreamInv, LoopShape, DrainShape, FlushShape, Lined, Ended, Base, Total, Sent,
          NextGroup, Received, Flushing, FlushedLast, LastMsg
  <1> QED
    BY <1>1, StreamCaller, StreamLoop, StreamParity DEF Next

-----------------------------------------------------------------------------
(* The chunks of the groups.  As long as nothing has failed every chunk is *)
(* written, so writeLoop counts the chunks group by group, and the buffer  *)
(* at place r of group g, in the line or in parityLoop's hands, holds      *)
(* chunk Start(g) + r.                                                     *)
Origin == IF Flushing THEN flush.g ELSE NextGroup

CountedInGroups == Counted = Start(groupsDone) + groupChunks

SentChunks ==
    \A k \in 1 .. Len(parCh), g \in Nat, r \in 0 .. K :
      Base + k - 1 = Row(g) + r /\ ~ parCh[k].flush =>
        content[parCh[k].blob] = Start(g) + r

HeldChunks == \A i \in 1 .. Len(blobs) : content[blobs[i]] = Start(Origin) + i - 1

CodedChunks ==
    ppc \in {"seek", "write"} =>
      parOut = [i \in 1 .. flush.kData |-> Start(flush.g) + i - 1]

GroupParts == CountedInGroups /\ SentChunks /\ HeldChunks /\ CodedChunks
GroupInv == ~ err => GroupParts

\* an error is never taken back
LEMMA ErrorStays ==
  ASSUME [Next]_vars, err
  PROVE  err'
  <1>1. CASE UNCHANGED vars \/ CallAfterClose \/ UserCalls \/ CallerRuns
    <2>1. UNCHANGED err
      BY <1>1
      DEF CallAfterClose, vars, UserCalls, CallerRuns, Write, WriteReturns, FillChunk,
          EnqueueChunk, Close, DrainCloseEncode, DrainCloseOut, DrainFlushLast, DrainClosePar,
          DrainReturns, SeekTrailer, WriteTrailer, TrailerFault, faultVars
    <2> QED
      BY <2>1
  <1>2. CASE \E w \in Workers : Worker(w)
    BY <1>2 DEF Worker, WorkerTake, WorkerEncode, WorkerSend, WorkerExit, Fault, faultVars
  <1>3. CASE WriteLoop
    BY <1>3 DEF WriteLoop, LoopReceive, LoopSkipFailed, LoopSeek, LoopWrite, LoopHandOver,
                LoopFlushGroup, LoopExit, Fault, faultVars
  <1>4. CASE ParityLoop
    <2>1. CASE ParityWrite
      BY <2>1 DEF ParityWrite, Fault, faultVars
    <2>2. CASE ParityReceiveFlush
      BY <2>2 DEF ParityReceiveFlush
    <2>3. CASE ParityReceiveBlob \/ ParityEncode \/ ParitySeek \/ ParityExit
      BY <2>3 DEF ParityReceiveBlob, ParityEncode, ParitySeek, ParityExit, Fault, faultVars
    <2> QED
      BY <1>4, <2>1, <2>2, <2>3 DEF ParityLoop
  <1> QED
    BY <1>1, <1>2, <1>3, <1>4 DEF Next

LEMMA GroupInit ==
  ASSUME Init
  PROVE  GroupInv
  <1>1. /\ Len(parCh) = 0 /\ Len(blobs) = 0 /\ ppc = "recv" /\ lpc = "scan" /\ next = 0
        /\ groupChunks = 0 /\ groupsDone = 0
    BY DEF Init
  <1>2. CountedInGroups
    BY <1>1, Rows DEF CountedInGroups, Counted
  <1>3. SentChunks /\ HeldChunks /\ CodedChunks
    BY <1>1 DEF SentChunks, HeldChunks, CodedChunks
  <1> QED
    BY <1>2, <1>3 DEF GroupInv, GroupParts

\* the buffers parityLoop has, and the ones on their way to it, are out of the pool
LEMMA HandedInUse ==
  ASSUME CommitInv, OwnInv
  PROVE  /\ \A i \in 1 .. Len(blobs) : blobs[i] \in inUse
         /\ \A k \in 1 .. Len(parCh) : ~ parCh[k].flush => parCh[k].blob \in inUse
  <1>0. Len(blobs) \in Nat /\ Len(parCh) \in Nat
    BY StreamTypes
  <1>1. ASSUME NEW i \in 1 .. Len(blobs) PROVE blobs[i] \in inUse
    <2>1. i \in Handed /\ HandedBuf(i) = blobs[i]
      BY <1>0, HandedIs DEF HandedBuf
    <2> QED
      BY <2>1 DEF OwnInv, LineOwns
  <1>2. ASSUME NEW k \in 1 .. Len(parCh), ~ parCh[k].flush PROVE parCh[k].blob \in inUse
    <2>1. /\ Len(blobs) + k \in 1 .. Len(blobs) + Len(parCh)
          /\ (Len(blobs) + k) - Len(blobs) = k /\ ~ (Len(blobs) + k <= Len(blobs))
      BY <1>0
    <2>2. Len(blobs) + k \in Handed /\ HandedBuf(Len(blobs) + k) = parCh[k].blob
      BY <1>2, <2>1, HandedIs DEF HandedBuf
    <2> QED
      BY <2>2 DEF OwnInv, LineOwns
  <1> QED
    BY <1>1, <1>2

\* the caller sends no blob, and the workers write into no buffer that was handed over
LEMMA GroupCallerWorker ==
  ASSUME CommitInv, OwnInv, GroupParts,
         UserCalls \/ CallerRuns \/ \E w \in Workers : Worker(w)
  PROVE  GroupParts'
  <1>0. /\ parCh \in Seq(ParityMsg) /\ Len(parCh) \in Nat /\ LastMsg \in ParityMsg
        /\ LastMsg.flush
    <2>1. /\ parCh \in Seq(ParityMsg) /\ Len(parCh) \in Nat
          /\ finalKData \in 0 .. K /\ finalGroup \in Nat
      BY StreamTypes
    <2>2. K \in Nat
      BY Rows
    <2>3. LastMsg \in PassedMsg
      BY <2>1, <2>2, Constructors DEF LastMsg
    <2> QED
      BY <2>1, <2>3 DEF PassedMsg, LastMsg, FlushMsg
  <1>1. UNCHANGED <<lpc, next, groupChunks, groupsDone, ppc, flush, blobs, parOut>>
    BY DEF UserCalls, CallerRuns, CallerFrame, Worker, WorkerFrame, loopVars, countVars,
           parityVars, groupVars
  <1>2. UNCHANGED <<Counted, Base, Flushing, NextGroup, Origin>>
    BY <1>1 DEF Counted, Base, Flushing, NextGroup, Received, Origin
  <1>3. CountedInGroups' /\ CodedChunks'
    BY <1>1, <1>2 DEF GroupParts, CountedInGroups, CodedChunks
  <1>4. /\ \A i \in 1 .. Len(blobs) : content'[blobs[i]] = content[blobs[i]]
        /\ \A k \in 1 .. Len(parCh) :
             ~ parCh[k].flush => content'[parCh[k].blob] = content[parCh[k].blob]
    <2>1. \A c \in inUse : content'[c] = content[c]
      <3>1. content \in [Bufs -> Nat \cup {-1}] /\ inUse \subseteq Bufs
        BY DEF CommitInv, TypeInv, SharedTypeOK
      <3>2. CASE UserCalls \/ CallerRuns
        BY <3>2 DEF UserCalls, CallerRuns, CallerFrame, poolVars
      <3>3. CASE \E w \in Workers : Worker(w)
        BY <3>1, <3>3
        DEF Worker, WorkerTake, WorkerEncode, WorkerSend, WorkerExit, poolVars
      <3> QED
        BY <3>2, <3>3
    <2> QED
      BY <2>1, HandedInUse
  <1>5. HeldChunks'
    BY <1>1, <1>2, <1>4 DEF GroupParts, HeldChunks
  <1>6. /\ \A k \in 1 .. Len(parCh') :
             ~ parCh'[k].flush => k \in 1 .. Len(parCh) /\ parCh'[k] = parCh[k]
    <2>1. parCh' = parCh \/ parCh' = Append(parCh, LastMsg)
      <3>1. CASE DrainFlushLast
        BY <3>1 DEF DrainFlushLast, LastMsg
      <3>2. CASE ~ DrainFlushLast /\ (UserCalls \/ CallerRuns)
        BY <3>2
        DEF UserCalls, CallerRuns, Write, WriteReturns, FillChunk, EnqueueChunk, Close,
            DrainCloseEncode, DrainCloseOut, DrainClosePar, DrainReturns, SeekTrailer,
            WriteTrailer, parVars
      <3>3. CASE \E w \in Workers : Worker(w)
        BY <3>3 DEF Worker, WorkerFrame, parVars
      <3> QED
        BY <3>1, <3>2, <3>3
    <2>2. CASE parCh' = Append(parCh, LastMsg)
      <3>1. /\ Len(parCh') = Len(parCh) + 1 /\ parCh'[Len(parCh) + 1] = LastMsg
            /\ \A k \in 1 .. Len(parCh) : parCh'[k] = parCh[k]
        BY <1>0, <2>2, Grown
      <3>2. \A k \in 1 .. Len(parCh') : k \in 1 .. Len(parCh) \/ k = Len(parCh) + 1
        BY <1>0, <3>1
      <3> QED
        BY <1>0, <3>1, <3>2
    <2> QED
      BY <2>1, <2>2
  <1>7. SentChunks'
    BY <1>2, <1>4, <1>6 DEF GroupParts, SentChunks
  <1> QED
    BY <1>3, <1>5, <1>7 DEF GroupParts

LEMMA GroupWriteLoop ==
  ASSUME CommitInv, OwnInv, StreamInv, GroupParts, ~ err, ~ err', WriteLoop
  PROVE  GroupParts'
  <1>0. /\ parCh \in Seq(ParityMsg) /\ Len(parCh) \in Nat /\ Base \in Nat
        /\ groupsDone \in Nat /\ groupChunks \in 0 .. K /\ K \in Nat \ {0}
        /\ lpc \in {"scan", "write", "hand", "flush", "done"}
        /\ next \in Nat /\ Start(groupsDone) \in Nat /\ Row(groupsDone) \in Nat
        /\ Start(groupsDone + 1) = Start(groupsDone) + K
    <2>1. /\ parCh \in Seq(ParityMsg) /\ Len(parCh) \in Nat /\ Base \in Nat
          /\ groupsDone \in Nat /\ groupChunks \in 0 .. K
          /\ lpc \in {"scan", "write", "hand", "flush", "done"}
      BY StreamTypes
    <2>2. next \in Nat
      BY DEF CommitInv, TypeInv, LoopInv, LoopTypeOK
    <2> QED
      BY <2>1, <2>2, Rows
  <1>1. UNCHANGED <<ppc, flush, blobs, parOut, content, cpc>> /\ lpc # "done"
    BY DEF WriteLoop, LoopFrame, parityVars, groupVars, poolVars, callerVars, LoopReceive,
           LoopSkipFailed, LoopSeek, LoopWrite, LoopHandOver, LoopFlushGroup, LoopExit
  <1>2. UNCHANGED <<Base, Flushing, NextGroup, Origin>>
    BY <1>1 DEF Base, Flushing, NextGroup, Received, Origin
  <1>3. CodedChunks' /\ HeldChunks'
    BY <1>1, <1>2 DEF GroupParts, CodedChunks, HeldChunks
  <1>4. CASE LoopReceive \/ LoopSkipFailed \/ LoopSeek \/ LoopWrite \/ LoopExit
    <2>1. parCh' = parCh /\ UNCHANGED groupsDone
      BY <1>4 DEF LoopReceive, LoopSkipFailed, LoopSeek, LoopWrite, LoopExit, countVars
    <2>2. SentChunks'
      BY <1>1, <1>2, <2>1 DEF GroupParts, SentChunks
    <2>3. Counted' - groupChunks' = Counted - groupChunks
          /\ groupChunks' \in Nat /\ Counted' \in Nat
      <3>1. CASE LoopReceive \/ LoopExit
        BY <1>0, <3>1 DEF LoopReceive, LoopExit, countVars, Counted
      <3>2. CASE LoopSkipFailed
        <4>1. PICK j \in Ready : j.failed
          BY <3>2 DEF LoopSkipFailed
        <4>2. err
          BY <4>1 DEF Ready, CommitInv, JobsInv, GoodJob
        <4> QED
          BY <4>2
      <3>3. CASE LoopSeek
        BY <1>0, <3>3 DEF LoopSeek, Fault, countVars, Counted
      <3>4. CASE LoopWrite
        BY <1>0, <3>4 DEF LoopWrite, Fault, Counted
      <3> QED
        BY <1>4, <3>1, <3>2, <3>3, <3>4
    <2>4. CountedInGroups'
      <3>1. Counted \in Nat
        BY <1>0 DEF Counted
      <3>2. Counted = Start(groupsDone) + groupChunks /\ Start(groupsDone)' = Start(groupsDone)
        BY <2>1 DEF GroupParts, CountedInGroups, Start
      <3>3. Counted' = Start(groupsDone) + groupChunks'
        <4>1. Counted - groupChunks = Start(groupsDone)
          BY <1>0, <3>2
        <4>2. Counted' - groupChunks' = Start(groupsDone)
          BY <2>3, <4>1
        <4>3. Start(groupsDone) \in Nat /\ groupChunks' \in Nat /\ Counted' \in Nat
          BY <1>0, <2>3
        <4> QED
          BY <4>2, <4>3
      <3> QED
        BY <3>2, <3>3 DEF CountedInGroups
    <2> QED
      BY <1>3, <2>2, <2>4 DEF GroupParts
  <1>5. ASSUME NEW m \in ParityMsg, parCh' = Append(parCh, m),
               \A g \in Nat, r \in 0 .. K :
                 Total = Row(g) + r /\ ~ m.flush => content[m.blob] = Start(g) + r
        PROVE  SentChunks'
    <2>1. /\ Len(parCh') = Len(parCh) + 1 /\ parCh'[Len(parCh) + 1] = m
          /\ \A k \in 1 .. Len(parCh) : parCh'[k] = parCh[k]
      BY <1>0, <1>5, Grown
    <2>2. Base + Len(parCh) = Total
      <3>1. ~ FlushedLast
        BY <1>1 DEF FlushedLast, CommitInv, OrderInv
      <3> QED
        BY <3>1 DEF StreamInv, Ended
    <2> SUFFICES ASSUME NEW k \in 1 .. Len(parCh'), NEW g \in Nat, NEW r \in 0 .. K,
                        Base + k - 1 = Row(g) + r, ~ parCh'[k].flush
                 PROVE  content[parCh'[k].blob] = Start(g) + r
      BY <1>1, <1>2 DEF SentChunks
    <2>3. CASE k \in 1 .. Len(parCh)
      BY <2>1, <2>3 DEF GroupParts, SentChunks
    <2>4. CASE k = Len(parCh) + 1
      <3>1. Total = Row(g) + r
        BY <1>0, <2>2, <2>4
      <3> QED
        BY <1>5, <2>1, <2>4, <3>1
    <2> QED
      BY <1>0, <2>1, <2>3, <2>4
  <1>6. CASE LoopHandOver
    <2>1. /\ BlobMsg(cur.blob) \in ParityMsg /\ BlobMsg(cur.blob).blob = cur.blob
          /\ cur \in Job /\ cur.blob \in Bufs /\ cur.idx = next
          /\ parCh' = Append(parCh, BlobMsg(cur.blob)) /\ lpc = "hand"
      BY <1>6, Constructors
      DEF LoopHandOver, CommitInv, TypeInv, LoopInv, JobsInv, PassedMsg, BlobMsg
    <2>2. content[cur.blob] = next
      <3>1. cur \in OwningJobs
        BY <2>1, PipelineAssumption DEF OwningJobs, JobsInFlight
      <3> QED
        BY <2>1, <3>1 DEF OwnInv, JobsOwn
    <2>3. next + 1 = Start(groupsDone) + groupChunks /\ groupChunks \in 1 .. K
      BY <1>0, <2>1 DEF GroupParts, CountedInGroups, Counted, StreamInv, LoopShape
    <2>4. Total = Row(groupsDone) + (groupChunks - 1)
      BY <2>1 DEF Total, Sent
    <2>5. ASSUME NEW g \in Nat, NEW r \in 0 .. K, Total = Row(g) + r
          PROVE  content[cur.blob] = Start(g) + r
      <3>1. groupChunks - 1 \in 0 .. K
        BY <1>0, <2>3
      <3>2. groupsDone = g /\ groupChunks - 1 = r
        BY <1>0, <2>4, <2>5, <3>1, OneRow
      <3> QED
        <4>1. next = Start(groupsDone) + (groupChunks - 1)
          BY <1>0, <2>3
        <4>2. content[cur.blob] = Start(groupsDone) + (groupChunks - 1)
          BY <2>2, <4>1
        <4> QED
          BY <3>2, <4>2
    <2>6. SentChunks'
      BY <1>5, <2>1, <2>5
    <2>7. CountedInGroups'
      <3>1. UNCHANGED <<groupsDone, groupChunks>>
        BY <1>6 DEF LoopHandOver, countVars
      <3>2. Counted' = Counted
        BY <1>0, <1>6, <2>1 DEF LoopHandOver, LoopAdvances, Counted
      <3> QED
        BY <3>1, <3>2 DEF GroupParts, CountedInGroups
    <2> QED
      BY <1>3, <2>6, <2>7 DEF GroupParts
  <1>7. CASE LoopFlushGroup
    <2>1. /\ FlushMsg(groupsDone, K) \in ParityMsg /\ FlushMsg(groupsDone, K).flush
          /\ parCh' = Append(parCh, FlushMsg(groupsDone, K)) /\ lpc = "flush"
          /\ lpc' = "scan" /\ groupChunks' = 0 /\ groupsDone' = groupsDone + 1
          /\ next' = next + 1
      BY <1>0, <1>7, Constructors DEF LoopFlushGroup, LoopAdvances, PassedMsg, FlushMsg, K
    <2>2. SentChunks'
      BY <1>5, <2>1
    <2>3. groupChunks = K
      BY <2>1 DEF StreamInv, LoopShape
    <2>4. CountedInGroups'
      BY <1>0, <2>1, <2>3 DEF GroupParts, CountedInGroups, Counted
    <2> QED
      BY <1>3, <2>2, <2>4 DEF GroupParts
  <1> QED
    BY <1>4, <1>6, <1>7 DEF WriteLoop

LEMMA GroupParityLoop ==
  ASSUME CommitInv, OwnInv, StreamInv, GroupParts, ~ err, ~ err', ParityLoop
  PROVE  GroupParts'
  <1>0. /\ parCh \in Seq(ParityMsg) /\ Len(parCh) \in Nat /\ Len(blobs) \in Nat
        /\ NextGroup \in Nat /\ Base \in Nat /\ Row(NextGroup) \in Nat
        /\ Row(NextGroup + 1) = Row(NextGroup) + K + 1 /\ K \in Nat \ {0}
        /\ blobs \in Seq(Bufs) /\ flush.kData \in Nat
        /\ Flushing => Len(blobs) = flush.kData
    <2>1. /\ parCh \in Seq(ParityMsg) /\ Len(parCh) \in Nat /\ Len(blobs) \in Nat
          /\ NextGroup \in Nat /\ Base \in Nat /\ blobs \in Seq(Bufs) /\ flush \in ParityMsg
          /\ Flushing => Len(blobs) = flush.kData
      BY StreamTypes
    <2> QED
      BY <2>1, Rows DEF ParityMsg
  <1>1. /\ UNCHANGED <<cpc, lpc, next, groupChunks, groupsDone, content>> /\ ppc # "done"
    BY DEF ParityLoop, ParityFrame, callerVars, loopVars, countVars,
           ParityReceiveBlob, ParityReceiveFlush, ParityEncode, ParitySeek, ParityWrite,
           ParityExit
  <1>2. CountedInGroups'
    BY <1>1 DEF GroupParts, CountedInGroups, Counted
  <1>3. ASSUME Flushing, UNCHANGED <<parCh, flush>>, CodedChunks',
               (UNCHANGED blobs /\ Flushing') \/ (blobs' = << >> /\ ppc' = "recv")
        PROVE  GroupParts'
    <2>1. Received = 0 /\ Received' = 0 /\ Len(<< >>) = 0
      BY <1>3 DEF Received, Flushing
    <2>2. Base' = Base
      BY <1>3, <2>1 DEF Base, NextGroup
    <2>3. SentChunks'
      BY <1>1, <1>3, <2>2 DEF GroupParts, SentChunks
    <2>4. HeldChunks'
      <3>1. CASE UNCHANGED blobs /\ Flushing'
        BY <1>1, <1>3, <3>1 DEF GroupParts, HeldChunks, Origin
      <3>2. CASE blobs' = << >>
        <4>1. Len(blobs') = 0
          BY <2>1, <3>2
        <4> QED
          BY <4>1 DEF HeldChunks
      <3> QED
        BY <1>3, <3>1, <3>2
    <2> QED
      BY <1>2, <1>3, <2>3, <2>4 DEF GroupParts
  <1>4. CASE ParityEncode
    <2>1. /\ parOut' = [i \in 1 .. flush.kData |-> content[blobs[i]]]
          /\ ppc' = "seek" /\ UNCHANGED <<blobs, parCh, flush>> /\ Flushing /\ Flushing'
      BY <1>4 DEF ParityEncode, Fault, Flushing
    <2>2. \A i \in 1 .. flush.kData : content[blobs[i]] = Start(flush.g) + i - 1
      BY <1>0, <2>1 DEF GroupParts, HeldChunks, Origin
    <2>3. CodedChunks'
      BY <2>1, <2>2 DEF CodedChunks
    <2> QED
      BY <1>3, <2>1, <2>3
  <1>5. CASE ParitySeek
    <2>1. ppc = "seek" /\ ppc' = "write" /\ UNCHANGED <<blobs, parCh, flush, parOut>>
      BY <1>5 DEF ParitySeek, Fault, groupVars
    <2>2. Flushing /\ Flushing' /\ CodedChunks'
      BY <2>1 DEF GroupParts, CodedChunks, Flushing
    <2> QED
      BY <1>3, <2>1, <2>2
  <1>6. CASE ParityWrite
    <2>1. ppc = "write" /\ UNCHANGED <<parCh, flush>>
      BY <1>6 DEF ParityWrite
    <2>2. \/ ppc' \in {"seek", "encode"} /\ UNCHANGED <<blobs, parOut>>
          \/ ppc' = "recv" /\ blobs' = << >>
      BY <1>6 DEF ParityWrite, Fault, ReleaseGroup
    <2>3. Flushing /\ CodedChunks' /\ (Flushing' \/ ppc' = "recv")
      BY <2>1, <2>2 DEF GroupParts, CodedChunks, Flushing
    <2>4. (UNCHANGED blobs /\ Flushing') \/ (blobs' = << >> /\ ppc' = "recv")
      BY <2>2 DEF Flushing
    <2> QED
      BY <1>3, <2>1, <2>3, <2>4
  <1>7. CASE ParityExit
    <2>1. UNCHANGED <<parCh, flush, blobs>> /\ ppc' = "done" /\ ~ Flushing /\ ~ Flushing'
      BY <1>7 DEF ParityExit, groupVars, Flushing
    <2>2. Base' = Base /\ Origin' = Origin
      BY <2>1 DEF Base, Received, NextGroup, Origin
    <2>3. SentChunks' /\ HeldChunks' /\ CodedChunks'
      BY <1>1, <2>1, <2>2 DEF GroupParts, SentChunks, HeldChunks, CodedChunks
    <2> QED
      BY <1>2, <2>3 DEF GroupParts
  <1>8. ASSUME Len(parCh) > 0, parCh' = Tail(parCh), Base' = Base + 1 PROVE SentChunks'
    <2>1. /\ Len(parCh') = Len(parCh) - 1
          /\ \A k \in 1 .. Len(parCh') : parCh'[k] = parCh[k + 1]
      BY <1>0, <1>8, Shifted
    <2> SUFFICES ASSUME NEW k \in 1 .. Len(parCh'), NEW g \in Nat, NEW r \in 0 .. K,
                        Base + 1 + k - 1 = Row(g) + r, ~ parCh'[k].flush
                 PROVE  content[parCh'[k].blob] = Start(g) + r
      BY <1>1, <1>8 DEF SentChunks
    <2>2. k + 1 \in 1 .. Len(parCh) /\ Base + (k + 1) - 1 = Row(g) + r
      BY <1>0, <2>1
    <2> QED
      BY <2>1, <2>2 DEF GroupParts, SentChunks
  <1>9. CASE ParityReceiveBlob
    <2>1. /\ ppc = "recv" /\ ppc' = "recv" /\ parCh # << >> /\ ~ Head(parCh).flush
          /\ parCh' = Tail(parCh) /\ flush' = flush
          /\ blobs' = Append(blobs, Head(parCh).blob)
      BY <1>9 DEF ParityReceiveBlob
    <2>2. Head(parCh) = parCh[1] /\ ~ Flushing /\ ~ Flushing' /\ CodedChunks'
      BY <1>0, <2>1 DEF Flushing, CodedChunks
    <2>3. Len(parCh) > 0 /\ Len(blobs) < K
      BY <2>1, <2>2, HeadIsNext
    <2>4. /\ Received = Len(blobs) /\ NextGroup' = NextGroup /\ Received' = Len(blobs')
          /\ Origin = NextGroup /\ Origin' = NextGroup
      BY <2>1, <2>2 DEF Received, NextGroup, Origin
    <2>5. /\ Len(blobs') = Len(blobs) + 1 /\ blobs'[Len(blobs) + 1] = parCh[1].blob
          /\ \A i \in 1 .. Len(blobs) : blobs'[i] = blobs[i]
      BY <1>0, <2>1, <2>2, AppendProperties
    <2>6. Base = Row(NextGroup) + Len(blobs) /\ Base' = Base + 1
      BY <1>0, <2>4, <2>5 DEF Base
    <2>7. SentChunks'
      BY <1>8, <2>1, <2>3, <2>6
    <2>8. content[parCh[1].blob] = Start(NextGroup) + Len(blobs)
      <3>1. 1 \in 1 .. Len(parCh) /\ Base + 1 - 1 = Row(NextGroup) + Len(blobs)
        BY <1>0, <2>3, <2>6
      <3>2. Len(blobs) \in 0 .. K /\ ~ parCh[1].flush
        BY <1>0, <2>1, <2>2, <2>3
      <3> QED
        BY <1>0, <3>1, <3>2 DEF GroupParts, SentChunks
    <2>9. HeldChunks'
      <3> SUFFICES ASSUME NEW i \in 1 .. Len(blobs')
                   PROVE  content[blobs'[i]] = Start(NextGroup) + i - 1
        BY <1>1, <2>4 DEF HeldChunks
      <3>1. CASE i \in 1 .. Len(blobs)
        BY <2>4, <2>5, <3>1 DEF GroupParts, HeldChunks
      <3>2. CASE i = Len(blobs) + 1
        <4>1. Start(NextGroup) \in Nat
          BY <1>0, Rows
        <4> QED
          BY <1>0, <2>5, <2>8, <3>2, <4>1
      <3> QED
        BY <1>0, <2>5, <3>1, <3>2
    <2> QED
      BY <1>2, <2>2, <2>7, <2>9 DEF GroupParts
  <1>10. CASE ParityReceiveFlush
    <2>1. /\ ppc = "recv" /\ parCh # << >> /\ Head(parCh).flush
          /\ parCh' = Tail(parCh) /\ flush' = Head(parCh)
      BY <1>10 DEF ParityReceiveFlush
    <2>2. Head(parCh) = parCh[1] /\ ~ Flushing
      BY <1>0, <2>1 DEF Flushing
    <2>3. /\ Len(parCh) > 0 /\ Len(blobs) > 0
          /\ parCh[1] = FlushMsg(NextGroup, Len(blobs))
          /\ ~ (FlushedLast /\ Len(parCh) = 1) => Len(blobs) = K
      BY <2>1, <2>2, HeadIsNext
    <2>4. flush'.kData = Len(blobs) /\ flush'.g = NextGroup
      BY <2>1, <2>2, <2>3 DEF FlushMsg
    <2>5. ppc' = "encode" /\ Flushing' /\ blobs' = blobs
      BY <1>10, <2>1, <2>4 DEF ParityReceiveFlush, Flushing, groupVars
    <2>6. NextGroup' = NextGroup + 1 /\ Received' = 0 /\ Received = Len(blobs)
      BY <2>2, <2>3, <2>4, <2>5 DEF NextGroup, Received
    <2>7. HeldChunks' /\ CodedChunks'
      BY <1>1, <2>2, <2>4, <2>5 DEF GroupParts, HeldChunks, CodedChunks, Origin
    <2>8. SentChunks'
      <3>1. CASE FlushedLast /\ Len(parCh) = 1
        <4>1. Len(parCh') = 0
          BY <1>0, <2>1, <3>1, Shifted
        <4> QED
          BY <4>1 DEF SentChunks
      <3>2. CASE ~ (FlushedLast /\ Len(parCh) = 1)
        <4>1. Base' = Base + 1
          BY <1>0, <2>3, <2>6, <3>2 DEF Base
        <4> QED
          BY <1>8, <2>1, <2>3, <4>1
      <3> QED
        BY <3>1, <3>2
    <2> QED
      BY <1>2, <2>7, <2>8 DEF GroupParts
  <1> QED
    BY <1>4, <1>5, <1>6, <1>7, <1>9, <1>10 DEF ParityLoop

LEMMA GroupStep ==
  ASSUME CommitInv, OwnInv, StreamInv, GroupInv, [Next]_vars
  PROVE  GroupInv'
  <1> SUFFICES ASSUME ~ err' PROVE GroupParts'
    BY DEF GroupInv
  <1>1. ~ err /\ GroupParts
    BY ErrorStays DEF GroupInv
  <1>2. CASE UNCHANGED vars \/ CallAfterClose
    <2>1. UNCHANGED <<lpc, next, groupChunks, groupsDone, parCh, ppc, blobs, flush, parOut, content>>
      BY <1>2 DEF CallAfterClose, vars, parVars, loopVars, countVars, parityVars, groupVars,
                  poolVars
    <2> QED
      BY <1>1, <2>1
      DEF GroupParts, CountedInGroups, SentChunks, HeldChunks, CodedChunks, Counted, Base,
          NextGroup, Received, Flushing, Origin
  <1>3. CASE UserCalls \/ CallerRuns \/ \E w \in Workers : Worker(w)
    BY <1>1, <1>3, GroupCallerWorker
  <1> QED
    BY <1>1, <1>2, <1>3, GroupWriteLoop, GroupParityLoop DEF Next

(* ParityCoversGroup: writeParityGroup finds as many blobs as the flush    *)
(* announces, and while nothing has failed the parity of group g is that   *)
(* of the chunks of group g, whatever the workers and the two loops do.    *)
THEOREM ParityIsOfItsGroup == Spec => []ParityCoversGroup
  <1>1. CommitInv /\ PlaceInv /\ StreamInv /\ GroupInv => ParityCoversGroup
    <2> SUFFICES ASSUME CommitInv, PlaceInv, StreamInv, GroupInv PROVE ParityCoversGroup
      OBVIOUS
    <2>1. ASSUME ppc = "recv", parCh # << >>, Head(parCh).flush
          PROVE  Len(blobs) = Head(parCh).kData
      <3>1. ~ Flushing /\ Head(parCh) = parCh[1]
        BY <2>1, StreamTypes DEF Flushing
      <3>2. parCh[1] = FlushMsg(NextGroup, Len(blobs))
        BY <2>1, <3>1, HeadIsNext
      <3> QED
        BY <3>1, <3>2 DEF FlushMsg
    <2>2. ASSUME ppc \in {"seek", "write"}, ~ err
          PROVE  /\ parOut = [i \in 1 .. flush.kData |-> flush.g * FileGroupChunks + i - 1]
                 /\ flush.kData < FileGroupChunks
                      => flush.g * FileGroupChunks + flush.kData = chunkIdx
      <3>1. GroupParts /\ Flushing
        BY <2>2 DEF GroupInv, Flushing
      <3>2. parOut = [i \in 1 .. flush.kData |-> Start(flush.g) + i - 1]
        BY <2>2, <3>1 DEF GroupParts, CodedChunks
      <3>3. ASSUME flush.kData < K PROVE Start(flush.g) + flush.kData = chunkIdx
        <4>1. FlushedLast /\ flush = LastMsg
          BY <3>1, <3>3 DEF StreamInv, FlushShape
        <4>2. lpc = "done"
          BY <4>1 DEF FlushedLast, CommitInv, OrderInv
        <4>3. next = chunkIdx /\ finalGroup = groupsDone /\ finalKData = groupChunks
          BY <4>2 DEF PlaceInv, AllTaken, StreamInv, LoopShape
        <4>4. next = Start(groupsDone) + groupChunks
          BY <3>1, <4>2 DEF GroupParts, CountedInGroups, Counted
        <4> QED
          BY <4>1, <4>3, <4>4 DEF LastMsg, FlushMsg
      <3> QED
        BY <3>2, <3>3 DEF Start, K
    <2> QED
      BY <2>1, <2>2 DEF ParityCoversGroup
  <1>2. Init => CommitInv /\ PlaceInv /\ OwnInv /\ StreamInv /\ GroupInv
    BY CommitInit, PlaceInit, OwnInit, StreamInit, GroupInit
  <1>3. CommitInv /\ PlaceInv /\ OwnInv /\ StreamInv /\ GroupInv /\ [Next]_vars
          => CommitInv' /\ PlaceInv' /\ OwnInv' /\ StreamInv' /\ GroupInv'
    BY CommitStep, PlaceStep, OwnStep, StreamStep, GroupStep
  <1> QED
    BY <1>1, <1>2, <1>3, PTL DEF Spec
=============================================================================
