----------------------------- MODULE PlainFile -----------------------------
(***************************************************************************)
(* What a Reader promises to any number of concurrent callers: the vault   *)
(* is one plaintext file.  A call returns exactly the bytes it asked for,  *)
(* with io.EOF when the file ends first, or it names the unit that could   *)
(* not be read and returns the bytes before that unit.  It never returns   *)
(* other bytes, and it always returns.                                     *)
(***************************************************************************)
EXTENDS Plaintext

CONSTANTS
    Callers,
    Calls           \* the calls a caller may make

VARIABLES
    call,           \* call[c]: the call of c in progress, or NoCall
    result          \* result[c]: what the last call of c returned

pfVars == <<singleBlob, call, result>>

NoCall == [op |-> "none", at |-> 0, len |-> 0]
NoResult == Returned(<< >>, "none", -1)

(* ReadAt of the bytes from .. to - 1 can fail at its first byte and at    *)
(* the first byte of each later unit.  A single blob is loaded as a whole  *)
(* even when no byte of it is asked for.                                   *)
FailedReads(from, to) ==
    {Returned(Bytes(from, n), "failed", UnitAt(n)) :
        n \in {n \in from .. to - 1 : n = from \/ n = UnitStart(UnitAt(n))}}
      \cup (IF singleBlob THEN {Returned(<< >>, "failed", 0)} ELSE {})

ReadAtResults(at, len) ==
    LET end == Lesser(at + len, PlainSize)
    IN  CASE at < 0 -> {Returned(<< >>, "negative", -1)}
          [] at >= 0 /\ len = 0 -> {Returned(<< >>, "nil", -1)}
          [] OTHER ->
               {Returned(Bytes(at, end),
                         IF at + len <= PlainSize THEN "nil" ELSE "EOF", -1)}
                 \cup FailedReads(at, end)

ReadChunkAtResults(index) ==
    IF index \notin Units THEN {Returned(<< >>, "range", -1)}
    ELSE {Returned(PlainOf(index), "nil", -1), Returned(<< >>, "failed", index)}

Results(k) == IF k.op = "ReadAt" THEN ReadAtResults(k.at, k.len)
                                 ELSE ReadChunkAtResults(k.at)

Init ==
    /\ singleBlob \in BOOLEAN
    /\ call = [c \in Callers |-> NoCall]
    /\ result = [c \in Callers |-> NoResult]

Begin(c) ==
    /\ call[c] = NoCall
    /\ \E k \in Calls : call' = [call EXCEPT ![c] = k]
    /\ UNCHANGED singleBlob
    /\ result' = [result EXCEPT ![c] = NoResult]

Return(c) ==
    /\ call[c] # NoCall
    /\ call' = [call EXCEPT ![c] = NoCall]
    /\ UNCHANGED singleBlob
    /\ \E r \in Results(call[c]) : result' = [result EXCEPT ![c] = r]

Next == \E c \in Callers : Begin(c) \/ Return(c)

\* a call that was begun returns
Spec == Init /\ [][Next]_pfVars /\ \A c \in Callers : WF_pfVars(Return(c))
=============================================================================
