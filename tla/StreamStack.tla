------------------------------ MODULE StreamStack ------------------------------
(***************************************************************************)
(* The chains of StreamReference over the waits of AsyncWait: a chain that *)
(* has got an operation (OpenReadAsync, ReadAsync, GetFileFromPathAsync)   *)
(* waits for it with WaitTimeout, goes on with its result or fails, and    *)
(* releases the operation later, in its deferred calls.  The operation and *)
(* its call of the completion handler may outlast the wait and the chain.  *)
(*                                                                         *)
(* A chain waits for at most two operations, one after the other: first    *)
(* for the stream or the file, then for the bytes.                         *)
(***************************************************************************)
EXTENDS StreamReference, FiniteSets

CONSTANTS OpenInvokes, ReadInvokes, \* the calls of Invoke of either operation
          NoStatus

VARIABLES
    openWait, openOutcome, openReceived, openCh, openTimer, openRefs, openFreed,
    openInvoke, openStatus, openInstalled, openAlive,
    readWait, readOutcome, readReceived, readCh, readTimer, readRefs, readFreed,
    readInvoke, readStatus, readInstalled, readAlive

Open == INSTANCE AsyncWait WITH
    Invokes <- OpenInvokes, wait <- openWait, outcome <- openOutcome,
    received <- openReceived, ch <- openCh, timer <- openTimer, refs <- openRefs,
    freed <- openFreed, invoke <- openInvoke, status <- openStatus,
    installed <- openInstalled, opAlive <- openAlive

Bytes == INSTANCE AsyncWait WITH
    Invokes <- ReadInvokes, wait <- readWait, outcome <- readOutcome,
    received <- readReceived, ch <- readCh, timer <- readTimer, refs <- readRefs,
    freed <- readFreed, invoke <- readInvoke, status <- readStatus,
    installed <- readInstalled, opAlive <- readAlive

ASSUME WaitAssumption == Open!ConstantsOK /\ Bytes!ConstantsOK

openVars  == <<openWait, openOutcome, openReceived, openCh, openTimer, openRefs, openFreed,
               openInvoke, openStatus, openInstalled, openAlive>>
bytesVars == <<readWait, readOutcome, readReceived, readCh, readTimer, readRefs, readFreed,
               readInvoke, readStatus, readInstalled, readAlive>>
stackVars == <<vars, openVars, bytesVars>>

\* the operation each wait is for, and what the chain gets of its result
OpenOps == {"openOp", "fileOp"}
ByteOps == {"readOp"}
OpenResults == {"stream", "file"}
ByteResults == {"filled"}

StackInit == Init /\ Open!Init /\ Bytes!Init

-----------------------------------------------------------------------------
Awaits(results) == mode = "call" /\ Now.get \in results

\* WaitTimeout; what follows it is the chain's
OpenWaits == /\ Awaits(OpenResults) /\ openWait # "releasing"
             /\ Open!Wait
             /\ UNCHANGED <<vars, bytesVars>>

BytesWaits == /\ Awaits(ByteResults) /\ readWait # "releasing"
              /\ Bytes!Wait
              /\ UNCHANGED <<vars, openVars>>

\* WaitTimeout has returned: the chain goes on if that was with a result
Returned(wait, result) == wait = "releasing" /\ (step' = step + 1 <=> result = "result")

\* a step of the chain; a deferred Release may be that of an operation
Chain == /\ Next
         /\ Awaits(OpenResults) => Returned(openWait, openOutcome)
         /\ Awaits(ByteResults) => Returned(readWait, readOutcome)
         /\ IF live \cap OpenOps \subseteq live' THEN UNCHANGED openVars ELSE Open!ReleaseOp
         /\ IF live \cap ByteOps \subseteq live' THEN UNCHANGED bytesVars ELSE Bytes!ReleaseOp

\* the timers, and the operations from when they are made
OpenGoesOn == /\ openWait # "start" \/ live \cap OpenOps # {}
              /\ Open!TimerFires \/ Open!Operation
              /\ UNCHANGED <<vars, bytesVars>>

BytesGoOn == /\ readWait # "start" \/ live \cap ByteOps # {}
             /\ Bytes!TimerFires \/ Bytes!Operation
             /\ UNCHANGED <<vars, openVars>>

StackNext == Chain \/ OpenWaits \/ BytesWaits \/ OpenGoesOn \/ BytesGoOn

(* The goroutine runs, a timer fires, a call of Invoke that has begun ends,  *)
(* and an operation nobody holds goes away.  No operation is obliged to      *)
(* complete.                                                                 *)
StackFairness ==
    /\ WF_stackVars(Chain \/ OpenWaits \/ BytesWaits)
    /\ WF_stackVars(Open!TimerFires /\ UNCHANGED <<vars, bytesVars>>)
    /\ WF_stackVars(Bytes!TimerFires /\ UNCHANGED <<vars, openVars>>)
    /\ \A i \in OpenInvokes : WF_stackVars(Open!InvokeGoesOn(i) /\ UNCHANGED <<vars, bytesVars>>)
    /\ \A i \in ReadInvokes : WF_stackVars(Bytes!InvokeGoesOn(i) /\ UNCHANGED <<vars, openVars>>)
    /\ WF_stackVars(Open!OpDies /\ UNCHANGED <<vars, bytesVars>>)
    /\ WF_stackVars(Bytes!OpDies /\ UNCHANGED <<vars, openVars>>)

StackSpec == StackInit /\ [][StackNext]_stackVars /\ StackFairness

-----------------------------------------------------------------------------
(* Properties. *)

(* async.go:122-157, 220-225: see AsyncWait, for either wait; and neither    *)
(* handler is lost: see RefsAccounted there.                                 *)
RefsAccounted == Open!RefsAccounted /\ Bytes!RefsAccounted

(* async.go:151, 179, 280-296, stream.go:104-111, 163-170.  The outcome of a *)
(* wait is that of the operation, and the chain has a stream, a file or      *)
(* bytes only of an operation that completed.                                *)
OutcomeIsTrue == /\ Open!OutcomeIsTrue /\ Bytes!OutcomeIsTrue
                 /\ live \cap OpenResults # {} => openOutcome = "result"
                 /\ got > 0 => readOutcome = "result"

(* stream.go:104-111, 163-170, storage.go:72-79.  The operation a chain waits *)
(* for is held by the chain until WaitTimeout has returned, whatever the     *)
(* operation does meanwhile, and no other object is released before the last *)
(* call on it.                                                               *)
HeldWhileUsed == /\ UsedWhileHeld
                 /\ openWait \notin {"start", "returned"} => openAlive /\ live \cap OpenOps # {}
                 /\ readWait \notin {"start", "returned"} => readAlive /\ live \cap ByteOps # {}

(* stream.go:26-91, storage.go:30-79, async.go:260-297.  Reading a thumbnail *)
(* or making a reference ends, and both completion handlers are freed in the *)
(* end, even if no operation ever completes: the timeouts bound the job on   *)
(* the worker that reads.                                                    *)
ReadEnds == <>(/\ mode = "done"
               /\ openFreed \/ openRefs = 0
               /\ readFreed \/ readRefs = 0)
=============================================================================
