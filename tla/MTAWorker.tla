----------------------------- MODULE MTAWorker -----------------------------
(***************************************************************************)
(* internal/winrt/apartment.go: MTAWorker, the OS thread that every other  *)
(* component runs its COM calls on.                                        *)
(*                                                                         *)
(* One goroutine locked to its thread (run) takes jobs from an unbuffered  *)
(* channel and runs them one at a time; callers of Do hand a job over and  *)
(* wait for its error; callers of Close ask the goroutine to leave its     *)
(* loop and wait until it has.  Every step below is the code between two   *)
(* points where another goroutine can be scheduled in between: a channel   *)
(* operation, an atomic access, a call into COM or the job itself.         *)
(***************************************************************************)
EXTENDS Naturals, FiniteSets

CONSTANTS Jobs,      \* the calls of Do, each with a function of its own
          Closers,   \* the calls of Close
          Outcomes,  \* what the functions may return (an error or nil)
          NoJob      \* the worker holds no job

ASSUME NoJobAssumption == NoJob \notin Jobs
ASSUME OutcomesAssumption == Outcomes \cap {"nothing", "refused"} = {}

Nothing == "nothing"
Refused == "refused" \* ErrApartmentClosed

VARIABLES
    worker,    \* where the goroutine run is
    current,   \* the job it took from w.jobs
    com,       \* InitMTA succeeded on the thread and UninitMTA has not run
    ready,     \* the one-slot channel ready: empty, nil or error
    new,       \* where NewMTAWorker is; "ok" and "nil" are what it returned
    closed,    \* w.closed
    closeCh,   \* close(w.closeCh) has run
    done,      \* close(w.done) has run
    call,      \* Jobs -> where the call of Do is
    errCh,     \* Jobs -> the one-slot channel job.err
    answer,    \* Jobs -> what Do returned
    runs,      \* Jobs -> how often the function was entered (history)
    closer,    \* Closers -> where the call of Close is
    once       \* w.closeOnce: new, active (its function runs) or over

workerVars == <<worker, current, com, ready, done>>
callVars   == <<call, errCh, answer, runs>>
closeVars  == <<closed, closeCh, closer, once>>
vars       == <<workerVars, callVars, closeVars, new>>

WorkerPc == {"init", "loop", "running", "uninit", "closing", "exited"}
CallPc   == {"idle", "entry", "sending", "waiting", "returned"}
CloserPc == {"idle", "entry", "storing", "signalling", "awaiting", "returned"}

TypeOK == /\ worker \in WorkerPc
          /\ current \in Jobs \cup {NoJob}
          /\ com \in BOOLEAN
          /\ ready \in {"empty", "nil", "error"}
          /\ new \in {"waitReady", "waitDone", "ok", "nil"}
          /\ closed \in BOOLEAN
          /\ closeCh \in BOOLEAN
          /\ done \in BOOLEAN
          /\ call \in [Jobs -> CallPc]
          /\ errCh \in [Jobs -> Outcomes \cup {Nothing}]
          /\ answer \in [Jobs -> Outcomes \cup {Nothing, Refused}]
          /\ runs \in [Jobs -> Nat]
          /\ closer \in [Closers -> CloserPc]
          /\ once \in {"new", "active", "over"}

Init == /\ worker = "init"
        /\ current = NoJob
        /\ com = FALSE
        /\ ready = "empty"
        /\ new = "waitReady"
        /\ closed = FALSE
        /\ closeCh = FALSE
        /\ done = FALSE
        /\ call = [j \in Jobs |-> "idle"]
        /\ errCh = [j \in Jobs |-> Nothing]
        /\ answer = [j \in Jobs |-> Nothing]
        /\ runs = [j \in Jobs |-> 0]
        /\ closer = [c \in Closers |-> "idle"]
        /\ once = "new"

-----------------------------------------------------------------------------
\* NewMTAWorker has returned
Constructed == new \in {"ok", "nil"}

\* the call of Do for j returns a
Return(j, a) == /\ call' = [call EXCEPT ![j] = "returned"]
                /\ answer' = [answer EXCEPT ![j] = a]

-----------------------------------------------------------------------------
(* Slips: what a step could look like with a mistake in it.  None is part of *)
(* Next; each shows that a property below depends on the step it replaces.   *)

FinishJobSwapped(o) == \* the reply goes to whoever waits, not to job.err
    /\ worker = "running"
    /\ \E k \in Jobs : /\ call[k] \in {"sending", "waiting"}
                       /\ errCh' = [errCh EXCEPT ![k] = o]
    /\ worker' = "loop"
    /\ current' = NoJob
    /\ UNCHANGED <<com, ready, done, new, call, answer, runs, closeVars>>

DoRefusesNever(j) == \* the select lacks its case <-w.done
                     /\ FALSE
                     /\ UNCHANGED vars

DoRefusesOnClosed(j) == \* refuses on closed, also when the job was taken
                        /\ call[j] \in {"sending", "waiting"}
                        /\ closed
                        /\ Return(j, Refused)
                        /\ UNCHANGED <<workerVars, errCh, runs, closeVars, new>>

PassOnceEarly(c) == \* an atomic flag in the place of sync.Once
               /\ closer[c] = "entry"
               /\ new = "ok"
               /\ once # "new"
               /\ closer' = [closer EXCEPT ![c] = "returned"]
               /\ UNCHANGED <<workerVars, callVars, closed, closeCh, once, new>>

-----------------------------------------------------------------------------
(* NewMTAWorker, after "go w.run(ready)". *)

\* err := <-ready
NewReadReady == /\ new = "waitReady"
                /\ ready # "empty"
                /\ new' = IF ready = "nil" THEN "ok" ELSE "waitDone"
                /\ ready' = "empty"
                /\ UNCHANGED <<worker, current, com, done, callVars, closeVars>>

\* <-w.done; return nil, err
NewFails == /\ new = "waitDone"
            /\ done
            /\ new' = "nil"
            /\ UNCHANGED <<workerVars, callVars, closeVars>>

-----------------------------------------------------------------------------
(* The goroutine run. *)

InitSucceeds == /\ worker = "init"
                /\ com' = TRUE
                /\ ready' = "nil"
                /\ worker' = "loop"
                /\ UNCHANGED <<current, done, new, callVars, closeVars>>

\* InitMTA failed: the deferred close(w.done) runs, UninitMTA was not deferred
InitFails == /\ worker = "init"
             /\ ready' = "error"
             /\ worker' = "closing"
             /\ UNCHANGED <<current, com, done, new, callVars, closeVars>>

\* select: job := <-w.jobs meets w.jobs <- job in Do; the function is entered
TakeJob(j) == /\ worker = "loop"
              /\ call[j] = "sending"
              /\ worker' = "running"
              /\ current' = j
              /\ call' = [call EXCEPT ![j] = "waiting"]
              /\ runs' = [runs EXCEPT ![j] = @ + 1]
              /\ UNCHANGED <<com, ready, done, new, errCh, answer, closeVars>>

\* job.err <- job.fn(): the function returns o
FinishJob(o) == /\ worker = "running"
                /\ errCh' = [errCh EXCEPT ![current] = o]
                /\ worker' = "loop"
                /\ current' = NoJob
                /\ UNCHANGED <<com, ready, done, new, call, answer, runs, closeVars>>

\* select: <-w.closeCh; Go picks either ready case, so jobs may still be taken
LeaveLoop == /\ worker = "loop"
             /\ closeCh
             /\ worker' = "uninit"
             /\ UNCHANGED <<current, com, ready, done, new, callVars, closeVars>>

RunUninitMTA == /\ worker = "uninit"
                /\ com' = FALSE
                /\ worker' = "closing"
                /\ UNCHANGED <<current, ready, done, new, callVars, closeVars>>

\* deferred close(w.done), then UnlockOSThread and the goroutine ends
CloseDone == /\ worker = "closing"
             /\ done' = TRUE
             /\ worker' = "exited"
             /\ UNCHANGED <<current, com, ready, new, callVars, closeVars>>

Worker == \/ InitSucceeds \/ InitFails
          \/ \E j \in Jobs : TakeJob(j)
          \/ \E o \in Outcomes : FinishJob(o)
          \/ LeaveLoop \/ RunUninitMTA \/ CloseDone

-----------------------------------------------------------------------------
(* Do. *)

\* a goroutine that holds NewMTAWorker's result calls Do
CallDo(j) == /\ Constructed
             /\ call[j] = "idle"
             /\ call' = [call EXCEPT ![j] = "entry"]
             /\ UNCHANGED <<workerVars, errCh, answer, runs, closeVars, new>>

\* if w == nil || w.closed.Load() { return ErrApartmentClosed }
DoRefusesAtEntry(j) == /\ call[j] = "entry"
                       /\ new = "nil" \/ closed
                       /\ Return(j, Refused)
                       /\ UNCHANGED <<workerVars, errCh, runs, closeVars, new>>

\* w is not nil and not closed: on to the select with its two cases
DoOffersJob(j) == /\ call[j] = "entry"
                  /\ new = "ok"
                  /\ ~closed
                  /\ call' = [call EXCEPT ![j] = "sending"]
                  /\ UNCHANGED <<workerVars, errCh, answer, runs, closeVars, new>>

\* select: <-w.done, the worker ended before it took the job
DoRefusesWhenDone(j) == /\ call[j] = "sending"
                        /\ done
                        /\ Return(j, Refused)
                        /\ UNCHANGED <<workerVars, errCh, runs, closeVars, new>>

\* return <-errCh
DoReturns(j) == /\ call[j] = "waiting"
                /\ errCh[j] # Nothing
                /\ Return(j, errCh[j])
                /\ errCh' = [errCh EXCEPT ![j] = Nothing]
                /\ UNCHANGED <<workerVars, runs, closeVars, new>>

Do(j) == \/ DoRefusesAtEntry(j) \/ DoOffersJob(j)
         \/ DoRefusesWhenDone(j) \/ DoReturns(j)

-----------------------------------------------------------------------------
(* Close. *)

CallClose(c) == /\ Constructed
                /\ closer[c] = "idle"
                /\ closer' = [closer EXCEPT ![c] = "entry"]
                /\ UNCHANGED <<workerVars, callVars, closed, closeCh, once, new>>

\* if w == nil { return }
CloseNil(c) == /\ closer[c] = "entry"
               /\ new = "nil"
               /\ closer' = [closer EXCEPT ![c] = "returned"]
               /\ UNCHANGED <<workerVars, callVars, closed, closeCh, once, new>>

\* closeOnce.Do: the first caller runs the function
EnterOnce(c) == /\ closer[c] = "entry"
                /\ new = "ok"
                /\ once = "new"
                /\ once' = "active"
                /\ closer' = [closer EXCEPT ![c] = "storing"]
                /\ UNCHANGED <<workerVars, callVars, closed, closeCh, new>>

\* closeOnce.Do: any other caller returns, but only when the function has
PassOnce(c) == /\ closer[c] = "entry"
               /\ new = "ok"
               /\ once = "over"
               /\ closer' = [closer EXCEPT ![c] = "returned"]
               /\ UNCHANGED <<workerVars, callVars, closed, closeCh, once, new>>

\* w.closed.Store(true)
StoreClosed(c) == /\ closer[c] = "storing"
                  /\ closed' = TRUE
                  /\ closer' = [closer EXCEPT ![c] = "signalling"]
                  /\ UNCHANGED <<workerVars, callVars, closeCh, once, new>>

\* close(w.closeCh)
SignalClose(c) == /\ closer[c] = "signalling"
                  /\ closeCh' = TRUE
                  /\ closer' = [closer EXCEPT ![c] = "awaiting"]
                  /\ UNCHANGED <<workerVars, callVars, closed, once, new>>

\* <-w.done, and closeOnce is over
CloseReturns(c) == /\ closer[c] = "awaiting"
                   /\ done
                   /\ once' = "over"
                   /\ closer' = [closer EXCEPT ![c] = "returned"]
                   /\ UNCHANGED <<workerVars, callVars, closed, closeCh, new>>

Close(c) == \/ CloseNil(c) \/ EnterOnce(c) \/ PassOnce(c)
            \/ StoreClosed(c) \/ SignalClose(c) \/ CloseReturns(c)

-----------------------------------------------------------------------------
New == NewReadReady \/ NewFails

Next == \/ New
        \/ Worker
        \/ \E j \in Jobs : CallDo(j) \/ Do(j)
        \/ \E c \in Closers : CallClose(c) \/ Close(c)

(* Every goroutine that can take a step takes one in the end: the Go        *)
(* scheduler does not starve a runnable goroutine, and a job that waits on  *)
(* WinRT does so with a timeout (async.go), so FinishJob is fair as well.   *)
(* Nobody is forced to call Do or Close.                                    *)
Fairness == /\ WF_vars(New)
            /\ WF_vars(Worker)
            /\ \A j \in Jobs : WF_vars(Do(j))
            /\ \A c \in Closers : WF_vars(Close(c))

Spec == Init /\ [][Next]_vars /\ Fairness
-----------------------------------------------------------------------------
(* Properties. *)

(* apartment.go:79-86.  A call answered with ErrApartmentClosed has not run  *)
(* its function and never will; any other answer is what its own function    *)
(* returned in its only run.                                                 *)
AnswerMatchesRun ==
    \A j \in Jobs : /\ runs[j] <= 1
                    /\ answer[j] = Refused => runs[j] = 0 /\ current # j
                    /\ answer[j] \in Outcomes => runs[j] = 1 /\ current # j

(* apartment.go:51-65, 91-101.  A function runs only while the thread is in  *)
(* the apartment.  Once any call of Close has returned, the first or one     *)
(* that found closeOnce used, the thread has left it, no function runs, and  *)
(* the calls still in Do can only be refused.                                *)
CloseQuiesces ==
    /\ TypeOK
    /\ worker = "running" => com
    /\ (\E c \in Closers : closer[c] = "returned") =>
           /\ worker = "exited" /\ done /\ ~com
           /\ \A j \in Jobs : call[j] = "waiting" => errCh[j] # Nothing

(* A job taken from the channel is answered, and so is a call of Do or Close *)
(* that races the end of the worker or another Close: in the end nobody is   *)
(* left inside one.                                                          *)
CallsAnswered ==
    <>[](/\ \A j \in Jobs : call[j] \in {"idle", "returned"}
         /\ \A c \in Closers : closer[c] \in {"idle", "returned"})

(* The worker as its callers see it, apartment.go:68-89.                     *)
jobStatus == [j \in Jobs |->
    CASE call[j] = "idle" -> "new"
      [] call[j] \in {"entry", "sending"} -> "submitted"
      [] call[j] = "waiting" /\ current = j -> "running"
      [] call[j] = "waiting" /\ current # j -> "done"
      [] OTHER -> "answered"]

jobOutcome == [j \in Jobs |-> IF errCh[j] # Nothing THEN errCh[j]
                              ELSE IF answer[j] = Refused THEN Nothing
                              ELSE answer[j]]

Executor == INSTANCE SerialExecutor WITH
    status <- jobStatus,
    outcome <- jobOutcome,
    stopped <- worker \in {"uninit", "closing", "exited"}

(* MTAWorker implements SerialExecutor: jobs run one at a time, at most      *)
(* once, none after the loop was left, and every answer is the job's own.    *)
ImplementsExecutor == Executor!Spec
=============================================================================
