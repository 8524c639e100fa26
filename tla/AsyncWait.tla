----------------------------- MODULE AsyncWait -----------------------------
(***************************************************************************)
(* internal/winrt/async.go: waiting for a WinRT asynchronous operation.    *)
(*                                                                         *)
(* WaitTimeout (the same code for AsyncOperation, AsyncOperationWithProgress *)
(* and AsyncOperationBool) makes a completion handler, a reference-counted *)
(* COM object in C memory that sends the status to a one-slot channel,     *)
(* gives it to the operation and waits for the status or for a timer.  The *)
(* operation calls the handler on threads of its own, perhaps while the    *)
(* waiter is giving up, perhaps after it has returned.                     *)
(*                                                                         *)
(* External: the operation.  It may be complete before put_Completed; it   *)
(* holds a reference to the handler it was given, and one more during each *)
(* call of Invoke; put_Completed(0) may be refused, in which case it keeps *)
(* the handler until it goes away itself.                                  *)
(***************************************************************************)
EXTENDS Integers, FiniteSets

CONSTANTS Invokes,  \* the calls of Invoke the operation may make
          NoStatus  \* the channel is empty; nothing was received

Final == {"completed", "error", "canceled"}

ConstantsOK == IsFiniteSet(Invokes) /\ NoStatus \notin Final

VARIABLES
    wait,      \* where WaitTimeout and the caller's deferred Release are
    outcome,   \* what WaitTimeout returns
    received,  \* the status read from h.ch
    ch,        \* the one slot of h.ch
    timer,     \* time.After: off, running or fired
    refs,      \* the handler's reference count
    freed,     \* the handler and its cgo handle are gone
    invoke,    \* Invokes -> where the call is
    status,    \* the operation's status (external)
    installed, \* the operation holds the handler (external)
    opAlive    \* the operation exists (external)

waitVars   == <<wait, outcome, received, timer>>
objectVars == <<refs, freed>>
opVars     == <<status, installed, opAlive>>
vars       == <<waitVars, ch, objectVars, invoke, opVars>>

WaitPc   == {"start", "putting", "selecting", "clearing", "getting", "closing",
             "releasing", "returned"}
Outcome  == {"none", "noHandler", "putFailed", "result", "getFailed", "error",
             "canceled", "timeout"}
InvokePc == {"idle", "called", "entered", "sent", "left", "over"}

TypeOK == /\ wait \in WaitPc
          /\ outcome \in Outcome
          /\ received \in Final \cup {NoStatus}
          /\ ch \in Final \cup {NoStatus}
          /\ timer \in {"off", "running", "fired"}
          /\ refs \in Nat
          /\ freed \in BOOLEAN
          /\ invoke \in [Invokes -> InvokePc]
          /\ status \in Final \cup {"started"}
          /\ installed \in BOOLEAN
          /\ opAlive \in BOOLEAN

Init == /\ wait = "start"
        /\ outcome = "none"
        /\ received = NoStatus
        /\ ch = NoStatus
        /\ timer = "off"
        /\ refs = 0
        /\ freed = FALSE
        /\ invoke = [i \in Invokes |-> "idle"]
        /\ status = "started"
        /\ installed = FALSE
        /\ opAlive = TRUE

-----------------------------------------------------------------------------
\* handlerAddRef
AddRef == refs' = refs + 1 /\ UNCHANGED freed

\* handlerRelease: the last reference frees the object and its handle
Release == refs' = refs - 1 /\ freed' = (freed \/ refs = 1)

GotoInvoke(i, pc) == invoke' = [invoke EXCEPT ![i] = pc]

InHandler == {i \in Invokes : invoke[i] \in {"entered", "sent"}}
Calling   == {i \in Invokes : invoke[i] \notin {"idle", "over"}}

-----------------------------------------------------------------------------
(* Slips: what a step could look like with a mistake in it.  None is part of *)
(* Next; each shows that a property below depends on the step it replaces.   *)

EnterUncounted(i) == \* handlerInvoke without its handlerAddRef
    /\ invoke[i] = "called"
    /\ GotoInvoke(i, "entered")
    /\ UNCHANGED <<waitVars, ch, objectVars, opVars>>

CloseForgotten == \* h.close is not deferred
    /\ wait = "closing"
    /\ wait' = "releasing"
    /\ UNCHANGED <<outcome, received, timer, ch, objectVars, invoke, opVars>>

TimeoutReadsResult(ok) == \* the result is fetched whatever the status was
    /\ wait = "clearing"
    /\ IF ok /\ installed THEN installed' = FALSE /\ Release
                          ELSE UNCHANGED <<installed, objectVars>>
    /\ wait' = "getting"
    /\ UNCHANGED <<outcome, received, timer, ch, invoke, status, opAlive>>

-----------------------------------------------------------------------------
(* WaitTimeout. *)

\* newCompletionHandler
NewHandler == /\ wait = "start"
              /\ refs' = 1
              /\ wait' = "putting"
              /\ UNCHANGED <<outcome, received, timer, freed, ch, invoke, opVars>>

\* HeapAlloc failed: nothing to close
NewHandlerFails == /\ wait = "start"
                   /\ outcome' = "noHandler"
                   /\ wait' = "releasing"
                   /\ UNCHANGED <<received, timer, ch, objectVars, invoke, opVars>>

\* put_Completed(h): the operation queries the handler and keeps a reference
PutCompleted == /\ wait = "putting"
                /\ AddRef
                /\ installed' = TRUE
                /\ timer' = "running"
                /\ wait' = "selecting"
                /\ UNCHANGED <<outcome, received, ch, invoke, status, opAlive>>

PutCompletedFails == /\ wait = "putting"
                     /\ outcome' = "putFailed"
                     /\ wait' = "closing"
                     /\ UNCHANGED <<received, timer, ch, objectVars, invoke, opVars>>

\* case s := <-h.ch
ReceiveStatus == /\ wait = "selecting"
                 /\ ch # NoStatus
                 /\ received' = ch
                 /\ ch' = NoStatus
                 /\ wait' = "clearing"
                 /\ UNCHANGED <<outcome, timer, objectVars, invoke, opVars>>

TimerFires == /\ timer = "running"
              /\ timer' = "fired"
              /\ UNCHANGED <<wait, outcome, received, ch, objectVars, invoke, opVars>>

\* case <-time.After(timeout); Go picks either case when a status is there too
TimeOut == /\ wait = "selecting"
           /\ timer = "fired"
           /\ wait' = "clearing"
           /\ UNCHANGED <<outcome, received, timer, ch, objectVars, invoke, opVars>>

\* put_Completed(0), accepted (ok) or refused; then the switch on the status
ClearCompleted(ok) ==
    /\ wait = "clearing"
    /\ IF ok /\ installed THEN installed' = FALSE /\ Release
                          ELSE UNCHANGED <<installed, objectVars>>
    /\ IF received = "completed"
       THEN wait' = "getting" /\ UNCHANGED outcome
       ELSE /\ wait' = "closing"
            /\ outcome' = IF received = NoStatus THEN "timeout" ELSE received
    /\ UNCHANGED <<received, timer, ch, invoke, status, opAlive>>

\* GetResults, which may itself fail
GetResults == /\ wait = "getting"
              /\ outcome' \in {"result", "getFailed"}
              /\ wait' = "closing"
              /\ UNCHANGED <<received, timer, ch, objectVars, invoke, opVars>>

\* the deferred h.close()
CloseHandler == /\ wait = "closing"
                /\ Release
                /\ wait' = "releasing"
                /\ UNCHANGED <<outcome, received, timer, ch, invoke, opVars>>

\* the caller's deferred Release of the operation
ReleaseOp == /\ wait = "releasing"
             /\ wait' = "returned"
             /\ UNCHANGED <<outcome, received, timer, ch, objectVars, invoke, opVars>>

Wait == \/ NewHandler \/ NewHandlerFails \/ PutCompleted \/ PutCompletedFails
        \/ ReceiveStatus \/ TimeOut
        \/ \E ok \in BOOLEAN : ClearCompleted(ok)
        \/ GetResults \/ CloseHandler \/ ReleaseOp

-----------------------------------------------------------------------------
(* The operation and its calls of handlerInvoke. *)

Complete == /\ status = "started"
            /\ opAlive
            /\ status' \in Final
            /\ UNCHANGED <<waitVars, ch, objectVars, invoke, installed, opAlive>>

\* the operation is complete and calls its handler, holding a reference
CallInvoke(i) == /\ invoke[i] = "idle"
                 /\ status # "started"
                 /\ installed
                 /\ AddRef
                 /\ GotoInvoke(i, "called")
                 /\ UNCHANGED <<waitVars, ch, opVars>>

\* handlerAddRef(self)
InvokeEnters(i) == /\ invoke[i] = "called"
                   /\ AddRef
                   /\ GotoInvoke(i, "entered")
                   /\ UNCHANGED <<waitVars, ch, opVars>>

\* select { case h.ch <- status: default: }
InvokeSends(i) == /\ invoke[i] = "entered"
                  /\ ch' = IF ch = NoStatus THEN status ELSE ch
                  /\ GotoInvoke(i, "sent")
                  /\ UNCHANGED <<waitVars, objectVars, opVars>>

\* the deferred handlerRelease(self)
InvokeLeaves(i) == /\ invoke[i] = "sent"
                   /\ Release
                   /\ GotoInvoke(i, "left")
                   /\ UNCHANGED <<waitVars, ch, opVars>>

\* the operation drops the reference it held for the call
InvokeEnds(i) == /\ invoke[i] = "left"
                 /\ Release
                 /\ GotoInvoke(i, "over")
                 /\ UNCHANGED <<waitVars, ch, opVars>>

\* released by the caller and idle, the operation goes away with its handler
OpDies == /\ opAlive
          /\ wait = "returned"
          /\ Calling = {}
          /\ opAlive' = FALSE
          /\ installed' = FALSE
          /\ IF installed THEN Release ELSE UNCHANGED objectVars
          /\ UNCHANGED <<waitVars, ch, invoke, status>>

InvokeGoesOn(i) == InvokeEnters(i) \/ InvokeSends(i) \/ InvokeLeaves(i) \/ InvokeEnds(i)

Operation == \/ Complete
             \/ \E i \in Invokes : CallInvoke(i) \/ InvokeGoesOn(i)
             \/ OpDies

Next == Wait \/ TimerFires \/ Operation

(* The waiting goroutine runs, the timer fires, a call of Invoke that has    *)
(* begun ends, and an operation nobody holds goes away.  The operation is    *)
(* not obliged to complete or to call its handler.                           *)
Fairness == /\ WF_vars(Wait)
            /\ WF_vars(TimerFires)
            /\ \A i \in Invokes : WF_vars(InvokeGoesOn(i))
            /\ WF_vars(OpDies)

Spec == Init /\ [][Next]_vars /\ Fairness

-----------------------------------------------------------------------------
(* Properties. *)

OwnRef == IF wait \in {"putting", "selecting", "clearing", "getting", "closing"} THEN 1 ELSE 0

(* async.go:122-157, 220-225.  The handler's count is the number of          *)
(* references that exist, and it is freed exactly when the last one goes:    *)
(* the waiter, the operation and a late call of Invoke never touch a handler *)
(* that is gone, whoever finishes first.                                     *)
RefsAccounted ==
    /\ TypeOK
    /\ refs = OwnRef + (IF installed THEN 1 ELSE 0)
              + Cardinality(Calling) + Cardinality(InHandler)
    /\ wait # "start" => (freed <=> refs = 0 /\ outcome # "noHandler")

(* async.go:151, 179, 280-296.  The outcome is the operation's own: a result *)
(* is only read from a completed operation, an error or a cancellation only  *)
(* reported of an operation that ended so, a timeout only after the timer    *)
(* fired; and what Invoke sent before the waiter looked is there when it     *)
(* does, so that a wait does not time out for want of a receiver.            *)
OutcomeIsTrue ==
    /\ wait = "getting" => status = "completed"
    /\ outcome \in {"result", "getFailed"} => status = "completed"
    /\ outcome \in {"error", "canceled"} => status = outcome
    /\ outcome = "timeout" => timer = "fired"
    /\ wait = "selecting" /\ (\E i \in Invokes : invoke[i] \in {"sent", "left", "over"})
         => ch # NoStatus
=============================================================================
