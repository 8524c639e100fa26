----------------------------- MODULE Controller -----------------------------
(***************************************************************************)
(* pkg/smtc/control/control.go: Controller, which sends commands to one    *)
(* media session of another program.                                       *)
(*                                                                         *)
(* New finds the session on the thread of an MTAWorker; every method       *)
(* submits one function to it.  The worker is SerialExecutor, which        *)
(* MTAWorker implements: functions run one at a time, and only a worker    *)
(* that was closed refuses one.  A command holds c.mu for as long as it    *)
(* waits for Windows, so that Close, whose flag c.mu guards, waits too.    *)
(*                                                                         *)
(* External: Windows answers a command some time or never, and also one    *)
(* whose answer nobody waits for any more.                                 *)
(***************************************************************************)
EXTENDS Naturals, Sequences, FiniteSets

CONSTANTS Commands,  \* the calls of Play, Pause, ... SetRepeatMode
          Queries,   \* the calls of MediaInfo
          Closers,   \* the calls of Close
          Ids,       \* SourceAppUserModelId values
          AnyId,     \* sessionID "": the current session
          MaxList,   \* bound: how many sessions there are
          ScanCap    \* how many of them findSession looks at (50)

ASSUME CallsAssumption == /\ Commands \cap Queries = {}
                          /\ (Commands \cup Queries) \cap Closers = {}
ASSUME ScanAssumption == MaxList \in Nat /\ ScanCap \in Nat \ {0}
ASSUME AnyIdAssumption == AnyId \notin Ids

Calls    == Commands \cup Queries
Jobs     == Calls \cup Closers
Outcomes == {"nil", "closed", "rejected", "failed", "timeout"}

VARIABLES
    new,      \* where New is; "ok" and "failed" are what it returned
    wanted,   \* its argument sessionID
    list,     \* the ids of the vector that GetSessions returned
    scan,     \* findSession's i, from 1
    held,     \* the COM references this Controller owns
    session,  \* c.session # nil
    closed,   \* c.closed
    locked,   \* c.mu is held by the function that runs
    call,     \* Jobs -> where the call of the method is
    step,     \* where the running function is
    effect,   \* Calls -> what became of the request (external)
    stopping, \* worker.Close was called
    status, outcome, answer, stopped \* the worker, see SerialExecutor

Executor == INSTANCE SerialExecutor

newVars    == <<new, wanted, list, scan>>
workerVars == <<status, outcome, answer, stopped>>
vars == <<newVars, held, session, closed, locked, call, step, effect, stopping, workerVars>>

NewPc  == {"factory", "request", "wait", "pick", "scan", "closeWorker", "ok", "failed"}
CallPc == {"idle", "entry", "inDo", "stopping", "refused", "returned"}
Lists  == UNION {[1..n -> Ids] : n \in 0..MaxList}

TypeOK == /\ new \in NewPc
          /\ wanted \in Ids \cup {AnyId}
          /\ list \in Lists
          /\ scan \in 1..(MaxList + 1)
          /\ held \subseteq {"factory", "op", "manager", "sessions", "session", "media"}
          /\ {session, closed, locked, stopping} \subseteq BOOLEAN
          /\ call \in [Jobs -> CallPc]
          /\ step \in {"none", "lock", "invoke", "wait", "read", "release"}
          /\ effect \in [Calls -> {"unsent", "pending", "accepted", "rejected"}]
          /\ Executor!TypeOK

Init == /\ new = "factory"
        /\ wanted \in Ids \cup {AnyId}
        /\ list = <<>>
        /\ scan = 1
        /\ held = {}
        /\ session = FALSE
        /\ closed = FALSE
        /\ locked = FALSE
        /\ call = [j \in Jobs |-> "idle"]
        /\ step = "none"
        /\ effect = [c \in Calls |-> "unsent"]
        /\ stopping = FALSE
        /\ Executor!Init

-----------------------------------------------------------------------------
Goto(j, pc) == call' = [call EXCEPT ![j] = pc]

Running(j) == status[j] = "running"

\* what is released on the way out of init when it fails at a point: by the
\* defers that have run, and asyncOp by hand
Releases == [factory |-> {}, request |-> {"factory"}, wait |-> {"op", "factory"},
             pick |-> {"manager", "factory"}, scan |-> {"sessions", "manager", "factory"}]

\* the id at scan is the one asked for and could be read
Matches == scan <= Len(list) /\ scan <= ScanCap /\ list[scan] = wanted

\* the function of c returns o and its deferred Unlock has run
Ends(c, o) == /\ Executor!Finish(c, o)
              /\ step' = "none"
              /\ locked' = FALSE

-----------------------------------------------------------------------------
(* Slips: what a step could look like with a mistake in it.  None is part of *)
(* Next; each shows that a property below depends on the step it replaces.   *)

InitFailsKeepsOp == \* asyncOp.Release only after the error was looked at
    /\ new \in DOMAIN Releases
    /\ held' = held \ (Releases[new] \ {"op"})
    /\ new' = "closeWorker"
    /\ stopping' = TRUE
    /\ UNCHANGED <<wanted, list, scan, session, closed, locked, call, step, effect, workerVars>>

LocksUnchecked(c) == \* c.closed is only looked at in do
    /\ Running(c) /\ step = "lock" /\ ~locked
    /\ locked' = TRUE
    /\ step' = "invoke"
    /\ UNCHANGED <<newVars, held, session, closed, call, effect, stopping, workerVars>>

UnansweredIsNil(c, o) == \* err of WaitTimeout is dropped
    /\ Running(c) /\ step = "wait"
    /\ o \in {"timeout", "failed"}
    /\ held' = held \ {"op"}
    /\ Ends(c, "nil")
    /\ UNCHANGED <<newVars, session, closed, call, effect, stopping>>

CloseKeepsLock(x) == \* defer c.mu.Unlock() in Close
    /\ call[x] = "entry" /\ ~locked /\ ~closed
    /\ closed' = TRUE
    /\ locked' = TRUE
    /\ Executor!Submit(x)
    /\ Goto(x, "inDo")
    /\ UNCHANGED <<newVars, held, session, step, effect, stopping>>

-----------------------------------------------------------------------------
(* New and init, on the worker's thread.  A call into WinRT may fail. *)

Acquire(from, to, object, dropped) ==
    /\ new = from
    /\ held' = (held \ dropped) \cup object
    /\ new' = to
    /\ UNCHANGED <<wanted, scan, session, closed, locked, call, step, effect,
                   stopping, workerVars>>

GetFactory     == Acquire("factory", "request", {"factory"}, {}) /\ UNCHANGED list
RequestManager == Acquire("request", "wait", {"op"}, {}) /\ UNCHANGED list
GetManager     == Acquire("wait", "pick", {"manager"}, {"op"}) /\ UNCHANGED list

\* sessionID is "": Manager.GetCurrentSession, and the defers of init
TakeCurrent == /\ new = "pick"
               /\ wanted = AnyId
               /\ held' = (held \ Releases["pick"]) \cup {"session"}
               /\ session' = TRUE
               /\ new' = "ok"
               /\ UNCHANGED <<wanted, list, scan, closed, locked, call, step, effect,
                              stopping, workerVars>>

\* findSession: Manager.GetSessions
ListSessions == /\ wanted # AnyId
                /\ Acquire("pick", "scan", {"sessions"}, {})
                /\ list' \in Lists

\* the session at scan has another id, or it or its id cannot be read: released
SkipSession == /\ new = "scan"
               /\ scan <= Len(list) /\ scan <= ScanCap
               /\ scan' = scan + 1
               /\ UNCHANGED <<new, wanted, list, held, session, closed, locked, call,
                              step, effect, stopping, workerVars>>

TakeMatching == /\ new = "scan"
                /\ Matches
                /\ held' = (held \ Releases["scan"]) \cup {"session"}
                /\ session' = TRUE
                /\ new' = "ok"
                /\ UNCHANGED <<wanted, list, scan, closed, locked, call, step, effect,
                               stopping, workerVars>>

\* the call at hand fails, the current session is nil, or the scan is over
InitFails == /\ new \in DOMAIN Releases
             /\ new = "scan" => scan > Len(list) \/ scan > ScanCap
             /\ held' = held \ Releases[new]
             /\ new' = "closeWorker"
             /\ stopping' = TRUE
             /\ UNCHANGED <<wanted, list, scan, session, closed, locked, call, step,
                            effect, workerVars>>

NewFails == /\ new = "closeWorker"
            /\ stopped
            /\ new' = "failed"
            /\ UNCHANGED <<wanted, list, scan, held, session, closed, locked, call,
                           step, effect, stopping, workerVars>>

New == \/ GetFactory \/ RequestManager \/ GetManager \/ TakeCurrent
       \/ ListSessions \/ SkipSession \/ TakeMatching \/ InitFails \/ NewFails

-----------------------------------------------------------------------------
(* do, and MediaInfo, Play, Pause ... that call it. *)

Enter(j) == /\ new = "ok"
            /\ call[j] = "idle"
            /\ Goto(j, "entry")
            /\ UNCHANGED <<newVars, held, session, closed, locked, step, effect,
                           stopping, workerVars>>

DoRefuses(c) == /\ call[c] = "entry" /\ ~locked /\ closed
                /\ Goto(c, "refused")
                /\ UNCHANGED <<newVars, held, session, closed, locked, step, effect,
                               stopping, workerVars>>

DoSubmits(c) == /\ call[c] = "entry" /\ ~locked /\ ~closed
                /\ Executor!Submit(c)
                /\ Goto(c, "inDo")
                /\ UNCHANGED <<newVars, held, session, closed, locked, step, effect, stopping>>

DoReturns(c) == /\ call[c] = "inDo"
                /\ Executor!Answer(c)
                /\ Goto(c, "returned")
                /\ UNCHANGED <<newVars, held, session, closed, locked, step, effect, stopping>>

\* worker.Do: ErrApartmentClosed
WorkerRefuses(c) == /\ stopping
                    /\ call[c] = "inDo"
                    /\ Executor!Refuse(c)
                    /\ Goto(c, "returned")
                    /\ UNCHANGED <<newVars, held, session, closed, locked, step, effect, stopping>>

Do(c) == DoRefuses(c) \/ DoSubmits(c) \/ DoReturns(c) \/ WorkerRefuses(c)

-----------------------------------------------------------------------------
(* The worker, and the function of a command or of MediaInfo on it. *)

StartJob(j) == /\ Executor!Start(j)
               /\ step' = "lock"
               /\ UNCHANGED <<newVars, held, session, closed, locked, call, effect, stopping>>

WorkerStops == /\ stopping
               /\ Executor!Stop
               /\ UNCHANGED <<newVars, held, session, closed, locked, call, step, effect, stopping>>

FindsClosed(c) == /\ Running(c) /\ step = "lock" /\ ~locked /\ closed
                  /\ Ends(c, "closed")
                  /\ UNCHANGED <<newVars, held, session, closed, call, effect, stopping>>

Locks(c) == /\ Running(c) /\ step = "lock" /\ ~locked /\ ~closed
            /\ locked' = TRUE
            /\ step' = "invoke"
            /\ UNCHANGED <<newVars, held, session, closed, call, effect, stopping, workerVars>>

\* the method of c.session returns a failure, or MediaInfo gets a nil operation
InvokeFails(c) == /\ Running(c) /\ step = "invoke"
                  /\ Ends(c, "failed")
                  /\ UNCHANGED <<newVars, held, session, closed, call, effect, stopping>>

Invokes(c) == /\ Running(c) /\ step = "invoke"
              /\ effect' = [effect EXCEPT ![c] = "pending"]
              /\ held' = held \cup {"op"}
              /\ step' = "wait"
              /\ UNCHANGED <<newVars, session, closed, locked, call, stopping, workerVars>>

\* WaitTimeout returns Windows' answer; asyncOp.Release
Told(c) == /\ Running(c) /\ step = "wait" /\ c \in Commands
           /\ effect[c] \in {"accepted", "rejected"}
           /\ held' = held \ {"op"}
           /\ Ends(c, IF effect[c] = "accepted" THEN "nil" ELSE "rejected")
           /\ UNCHANGED <<newVars, session, closed, call, effect, stopping>>

\* five seconds are over, or the operation ended with an error; asyncOp.Release
Unanswered(c, o) == /\ Running(c) /\ step = "wait"
                    /\ o \in {"timeout", "failed"}
                    /\ held' = held \ {"op"}
                    /\ Ends(c, o)
                    /\ UNCHANGED <<newVars, session, closed, call, effect, stopping>>

\* MediaInfo has the media properties; asyncOp.Release is deferred
GetsMedia(c) == /\ Running(c) /\ step = "wait" /\ c \in Queries
                /\ effect[c] = "accepted"
                /\ held' = held \cup {"media"}
                /\ step' = "read"
                /\ UNCHANGED <<newVars, session, closed, locked, call, effect,
                               stopping, workerVars>>

\* fetchMediaInfo skips what it cannot read; the defers release both objects
ReadsMedia(c) == /\ Running(c) /\ step = "read"
                 /\ held' = held \ {"media", "op"}
                 /\ Ends(c, "nil")
                 /\ UNCHANGED <<newVars, session, closed, call, effect, stopping>>

Job(c) == \/ FindsClosed(c) \/ Locks(c) \/ InvokeFails(c) \/ Invokes(c) \/ Told(c)
          \/ \E o \in {"timeout", "failed"} : Unanswered(c, o)
          \/ GetsMedia(c) \/ ReadsMedia(c)

\* Windows decides on a request, whether or not somebody still waits (external)
Decides(c) == /\ effect[c] = "pending"
              /\ \E e \in {"accepted", "rejected"} : effect' = [effect EXCEPT ![c] = e]
              /\ UNCHANGED <<newVars, held, session, closed, locked, call, step,
                             stopping, workerVars>>

-----------------------------------------------------------------------------
(* Close. *)

CloseAgain(x) == /\ call[x] = "entry" /\ ~locked /\ closed
                 /\ Goto(x, "refused")
                 /\ UNCHANGED <<newVars, held, session, closed, locked, step, effect,
                                stopping, workerVars>>

CloseBegins(x) == /\ call[x] = "entry" /\ ~locked /\ ~closed
                  /\ closed' = TRUE
                  /\ Executor!Submit(x)
                  /\ Goto(x, "inDo")
                  /\ UNCHANGED <<newVars, held, session, locked, step, effect, stopping>>

\* on the worker: session := c.session; c.session = nil
TakeSession(x) == /\ Running(x) /\ step = "lock" /\ ~locked
                  /\ session' = FALSE
                  /\ step' = "release"
                  /\ UNCHANGED <<newVars, held, closed, locked, call, effect,
                                 stopping, workerVars>>

\* winrt.Release(session)
ReleaseSession(x) == /\ Running(x) /\ step = "release"
                     /\ held' = held \ {"session"}
                     /\ Executor!Finish(x, "nil")
                     /\ step' = "none"
                     /\ UNCHANGED <<newVars, session, closed, locked, call, effect, stopping>>

\* worker.Do has returned; worker.Close()
StopWorker(x) == /\ call[x] = "inDo"
                 /\ Executor!Answer(x)
                 /\ stopping' = TRUE
                 /\ Goto(x, "stopping")
                 /\ UNCHANGED <<newVars, held, session, closed, locked, step, effect>>

\* worker.Close has returned; c.worker = nil
CloseReturns(x) == /\ call[x] = "stopping" /\ ~locked
                   /\ stopped
                   /\ Goto(x, "returned")
                   /\ UNCHANGED <<newVars, held, session, closed, locked, step, effect,
                                  stopping, workerVars>>

Close(x) == \/ CloseAgain(x) \/ CloseBegins(x) \/ StopWorker(x) \/ CloseReturns(x)

CloseJob(x) == TakeSession(x) \/ ReleaseSession(x)

-----------------------------------------------------------------------------
Worker == \/ \E j \in Jobs : StartJob(j)
          \/ \E c \in Calls : Job(c)
          \/ \E x \in Closers : CloseJob(x)
          \/ WorkerStops

Next == \/ New
        \/ Worker
        \/ \E j \in Jobs : Enter(j)
        \/ \E c \in Calls : Do(c) \/ Decides(c)
        \/ \E x \in Closers : Close(x)

(* No runnable goroutine is starved, and the timer of WaitTimeout fires:     *)
(* Unanswered is a step of the worker.  Windows need never decide, and       *)
(* nobody is forced to call a method.                                        *)
Fairness == /\ WF_vars(New)
            /\ WF_vars(Worker)
            /\ \A c \in Calls : WF_vars(Do(c))
            /\ \A x \in Closers : WF_vars(Close(x))

Spec == Init /\ [][Next]_vars /\ Fairness
-----------------------------------------------------------------------------
(* Properties. *)

(* control.go:97-106, 306-325.  Whatever order commands and Close come in, a *)
(* command that is about to call or has called into the session does so      *)
(* while c.session is set and its reference is held, and the session is the  *)
(* one that New was asked for, also when other ids could not be read.        *)
SessionUsedWhileHeld ==
    step \in {"invoke", "wait", "read"} =>
        session /\ "session" \in held /\ (wanted # AnyId => list[scan] = wanted)

(* control.go:257-266, 306-325.  What a command is told is true.  Told        *)
(* "closed", by do, by its function or by the worker, it has not reached     *)
(* Windows and never will; nil says that Windows accepted this very command  *)
(* and "rejected" that it did not; a timeout alone says neither.             *)
OutcomeIsTrue ==
    \A c \in Calls :
        /\ call[c] = "refused" \/ answer[c] \in {"closed", "refused"} => effect[c] = "unsent"
        /\ answer[c] = "nil" => effect[c] = "accepted"
        /\ answer[c] = "rejected" => effect[c] = "rejected"

(* control.go:27-78, 80-106, 222-253.  When the Close that found the         *)
(* Controller open returns, or a New that failed at whichever call, no       *)
(* reference is left and no function runs or will ever run; a Controller     *)
(* that New made keeps the reference to its session only.                    *)
NothingLeft ==
    /\ TypeOK
    /\ new = "failed" \/ (\E x \in Closers : call[x] = "returned") =>
           held = {} /\ ~session /\ stopped /\ step = "none"
    /\ new = "ok" /\ step = "none" => held \subseteq {"session"}

(* Every method returns, also one that races Close or that Windows never     *)
(* answers, and Close although a command may hold c.mu while it waits: in    *)
(* the end nobody is left inside a method.                                   *)
CallsAnswered == <>[](\A j \in Jobs : call[j] \in {"idle", "refused", "returned"})
=============================================================================
