------------------------- MODULE Controller_proofs -------------------------
(***************************************************************************)
(* What Controller promises, for every set of calls and of ids and every   *)
(* number of sessions.                                                     *)
(*                                                                         *)
(* IInv says where a method, its function on the worker and c.mu are, seen *)
(* from each other; what is held at each place of New and of a function;   *)
(* and what has become of a request.  Of the worker it takes no more than  *)
(* SerialExecutor promises.                                                *)
(***************************************************************************)
EXTENDS Controller, TLAPS

-----------------------------------------------------------------------------
(* The invariant. *)

\* what the executor keeps: functions run one at a time, an answer is what a function returned
ExecutorInv ==
    /\ \A j, k \in Jobs : Running(j) /\ Running(k) => j = k
    /\ \A j \in Jobs :
           /\ status[j] \in {"new", "submitted", "running"} =>
                  outcome[j] = "nothing" /\ answer[j] = "nothing"
           /\ status[j] = "done" => outcome[j] \in Outcomes /\ answer[j] = "nothing"
           /\ status[j] = "answered" => \/ answer[j] = outcome[j]
                                        \/ answer[j] = "refused" /\ outcome[j] = "nothing"
    /\ stopped => Executor!Idle

\* what the place of a method says of its function, and step of the one that runs
PlaceInv ==
    /\ new # "ok" => \A j \in Jobs : call[j] = "idle"
    /\ \A j \in Jobs : /\ status[j] = "new" <=> call[j] \in {"idle", "entry", "refused"}
                       /\ status[j] = "answered" <=> call[j] \in {"stopping", "returned"}
    /\ step = "none" <=> Executor!Idle
    /\ \A c \in Calls : Running(c) => step \in {"lock", "invoke", "wait", "read"}
    /\ \A x \in Closers : Running(x) => step \in {"lock", "release"}

\* who holds c.mu has found the Controller open, and it stays open; a Close has closed it
LockInv ==
    /\ locked <=> step \in {"invoke", "wait", "read"}
    /\ locked => closed = FALSE
    /\ closed <=> \E x \in Closers : status[x] # "new"

\* what New got is held, what the running function got, and the session until Close takes it
JobHolds == IF step = "wait" THEN {"op"} ELSE IF step = "read" THEN {"op", "media"} ELSE {}

HeldInv ==
    /\ new \in DOMAIN Releases => held = Releases[new]
    /\ new \in {"closeWorker", "failed"} => held = {}
    /\ new # "ok" => session = FALSE
    /\ new = "ok" => held \ {"session"} = JobHolds
    /\ new = "ok" /\ ~closed => /\ session /\ "session" \in held
                                /\ wanted # AnyId => list[scan] = wanted
    /\ \A x \in Closers :
           /\ Running(x) /\ step = "release" => session = FALSE
           /\ status[x] \in {"done", "answered"} => session = FALSE /\ "session" \notin held

\* New fails and Close returns only when the worker has stopped
StopInv == /\ new = "failed" => stopped
           /\ \A x \in Closers : call[x] = "returned" => stopped

\* what a function has done to Windows so far, and what it says of it
EffectInv ==
    \A c \in Calls :
        /\ status[c] \in {"new", "submitted"} => effect[c] = "unsent"
        /\ Running(c) /\ step \in {"lock", "invoke"} => effect[c] = "unsent"
        /\ Running(c) /\ step = "read" => effect[c] = "accepted"
        /\ outcome[c] = "closed" \/ answer[c] = "refused" => effect[c] = "unsent"
        /\ outcome[c] = "nil" => effect[c] = "accepted"
        /\ outcome[c] = "rejected" => effect[c] = "rejected"

IInv == TypeOK /\ ExecutorInv /\ PlaceInv /\ LockInv /\ HeldInv /\ StopInv /\ EffectInv

-----------------------------------------------------------------------------
(* The worker. *)

ExecutorVars == <<status, outcome, answer, stopped>>

\* what the executor keeps, whoever its client is
LEMMA ExecutorKeeps ==
    ASSUME Executor!TypeOK, ExecutorInv, [Executor!Next]_ExecutorVars
    PROVE  Executor!TypeOK' /\ ExecutorInv'
<1> USE DEF ExecutorInv, Running, Executor!TypeOK, Executor!Status, Executor!Nothing,
            Executor!Refused
<1>1. ASSUME NEW j \in Jobs, Executor!Submit(j) PROVE Executor!TypeOK' /\ ExecutorInv'
  BY <1>1 DEF Executor!Submit, Executor!Idle
<1>2. ASSUME NEW j \in Jobs, Executor!Start(j) PROVE Executor!TypeOK' /\ ExecutorInv'
  BY <1>2 DEF Executor!Start, Executor!Idle
<1>3. ASSUME NEW j \in Jobs, NEW o \in Outcomes, Executor!Finish(j, o)
      PROVE  Executor!TypeOK' /\ ExecutorInv'
  BY <1>3 DEF Executor!Finish, Executor!Idle
<1>4. ASSUME NEW j \in Jobs, Executor!Answer(j) PROVE Executor!TypeOK' /\ ExecutorInv'
  BY <1>4 DEF Executor!Answer, Executor!Idle
<1>5. ASSUME NEW j \in Jobs, Executor!Refuse(j) PROVE Executor!TypeOK' /\ ExecutorInv'
  BY <1>5 DEF Executor!Refuse, Executor!Idle
<1>6. CASE Executor!Stop
  BY <1>6 DEF Executor!Stop, Executor!Idle
<1>7. CASE UNCHANGED ExecutorVars
  BY <1>7 DEF ExecutorVars, Executor!Idle
<1> QED BY <1>1, <1>2, <1>3, <1>4, <1>5, <1>6, <1>7 DEF Executor!Next

\* the Controller uses the worker only as SerialExecutor allows
LEMMA StepOfExecutor == ASSUME [Next]_vars PROVE [Executor!Next]_ExecutorVars
<1> USE DEF ExecutorVars, workerVars
<1>1. CASE UNCHANGED vars
  BY <1>1 DEF vars
<1>2. CASE New
  BY <1>2 DEF New, GetFactory, RequestManager, GetManager, TakeCurrent, ListSessions, SkipSession,
              TakeMatching, InitFails, NewFails, Acquire
<1>3. ASSUME NEW j \in Jobs, StartJob(j) \/ Enter(j) PROVE [Executor!Next]_ExecutorVars
  BY <1>3 DEF StartJob, Enter, Executor!Next
<1>4. CASE WorkerStops
  BY <1>4 DEF WorkerStops, Executor!Next
<1>5. ASSUME NEW c \in Calls, Do(c) \/ Decides(c) PROVE [Executor!Next]_ExecutorVars
  BY <1>5 DEF Do, DoRefuses, DoSubmits, DoReturns, WorkerRefuses, Decides, Executor!Next, Jobs
<1>6. ASSUME NEW c \in Calls, Job(c) PROVE [Executor!Next]_ExecutorVars
  <2>1. c \in Jobs /\ {"nil", "closed", "rejected", "failed", "timeout"} = Outcomes
    BY DEF Jobs, Outcomes
  <2>2. UNCHANGED ExecutorVars \/ \E o \in Outcomes : Executor!Finish(c, o)
    BY <1>6, <2>1 DEF Job, FindsClosed, Locks, InvokeFails, Invokes, Told, Unanswered, GetsMedia,
                      ReadsMedia, Ends
  <2> QED BY <2>1, <2>2 DEF Executor!Next
<1>7. ASSUME NEW x \in Closers, Close(x) \/ CloseJob(x) PROVE [Executor!Next]_ExecutorVars
  BY <1>7 DEF Close, CloseAgain, CloseBegins, StopWorker, CloseReturns, CloseJob, TakeSession,
              ReleaseSession, Executor!Next, Jobs, Outcomes
<1> QED BY <1>1, <1>2, <1>3, <1>4, <1>5, <1>6, <1>7 DEF Next, Worker
-----------------------------------------------------------------------------
(* Types. *)

\* GetSessions returns a list of at most MaxList ids
LEMMA ListLength == ASSUME NEW l \in Lists PROVE Len(l) \in 0..MaxList
BY ScanAssumption DEF Lists

\* types, for the steps of New
LEMMA NewTypes == ASSUME TypeOK, New PROVE TypeOK'
<1> USE DEF TypeOK, NewPc, workerVars
<1>0. Executor!TypeOK'
  BY DEF New, GetFactory, RequestManager, GetManager, TakeCurrent,
     ListSessions, SkipSession, TakeMatching, InitFails, NewFails, Acquire, Executor!TypeOK
<1>1. CASE GetFactory \/ RequestManager \/ GetManager \/ ListSessions
  BY <1>0, <1>1 DEF GetFactory, RequestManager, GetManager, ListSessions, Acquire
<1>2. CASE TakeCurrent \/ TakeMatching \/ InitFails \/ NewFails
  BY <1>0, <1>2 DEF TakeCurrent, TakeMatching, InitFails, NewFails
<1>3. CASE SkipSession
  <2>1. Len(list) \in 0..MaxList
    BY ListLength
  <2> QED BY <1>0, <1>3, <2>1, ScanAssumption DEF SkipSession
<1> QED BY <1>1, <1>2, <1>3 DEF New

\* types, for every step
LEMMA TypeKeeps == ASSUME TypeOK, ExecutorInv, [Next]_vars PROVE TypeOK'
<1>0. Executor!TypeOK'
  BY StepOfExecutor, ExecutorKeeps DEF TypeOK
<1> USE DEF TypeOK, CallPc, Goto, newVars
<1>1. CASE UNCHANGED vars
  BY <1>0, <1>1 DEF vars
<1>2. CASE New
  BY <1>2, NewTypes
<1>3. ASSUME NEW j \in Jobs, StartJob(j) \/ Enter(j) PROVE TypeOK'
  BY <1>0, <1>3 DEF StartJob, Enter
<1>4. CASE WorkerStops
  BY <1>0, <1>4 DEF WorkerStops
<1>5. ASSUME NEW c \in Calls, Do(c) PROVE TypeOK'
  BY <1>0, <1>5 DEF Do, DoRefuses, DoSubmits, DoReturns, WorkerRefuses, workerVars, Jobs
<1>6. ASSUME NEW c \in Calls, Decides(c) PROVE TypeOK'
  BY <1>0, <1>6 DEF Decides
<1>7. ASSUME NEW c \in Calls, Job(c) PROVE TypeOK'
  <2>1. CASE FindsClosed(c) \/ Locks(c) \/ InvokeFails(c) \/ Invokes(c)
    BY <1>0, <2>1 DEF FindsClosed, Locks, InvokeFails, Invokes, Ends
  <2>2. CASE Told(c) \/ (\E o \in {"timeout", "failed"} : Unanswered(c, o))
    BY <1>0, <2>2 DEF Told, Unanswered, Ends
  <2>3. CASE GetsMedia(c) \/ ReadsMedia(c)
    BY <1>0, <2>3 DEF GetsMedia, ReadsMedia, Ends
  <2> QED BY <1>7, <2>1, <2>2, <2>3 DEF Job
<1>8. ASSUME NEW x \in Closers, Close(x) PROVE TypeOK'
  BY <1>0, <1>8 DEF Close, CloseAgain, CloseBegins, StopWorker, CloseReturns, Jobs
<1>9. ASSUME NEW x \in Closers, CloseJob(x) PROVE TypeOK'
  BY <1>0, <1>9 DEF CloseJob, TakeSession, ReleaseSession
<1> QED BY <1>1, <1>2, <1>3, <1>4, <1>5, <1>6, <1>7, <1>8, <1>9 DEF Next, Worker

-----------------------------------------------------------------------------
(* Places. *)

\* the variables of the methods and their functions
Methods == <<closed, locked, call, step, effect, workerVars>>

\* New leaves them alone
LEMMA NewFrame == ASSUME New PROVE UNCHANGED Methods
BY DEF Methods, New, GetFactory, RequestManager, GetManager, TakeCurrent, ListSessions,
       SkipSession, TakeMatching, InitFails, NewFails, Acquire, newVars

\* the function of c goes on, returns, or has not begun: what a step of it may do to the places
JobSteps(c) ==
    /\ Running(c)
    /\ UNCHANGED <<new, wanted, list, scan, session, closed, call, stopping>>
    /\ \/ UNCHANGED workerVars /\ step' \in {"invoke", "wait", "read"}
       \/ (\E o \in Outcomes : Executor!Finish(c, o)) /\ step' = "none"
    /\ locked' <=> step' \in {"invoke", "wait", "read"}

\* control.go:192-220, 306-325.  Every step of a function of a command or of MediaInfo is one of these
LEMMA JobIs == ASSUME TypeOK, LockInv, NEW c \in Calls, Job(c) PROVE JobSteps(c)
<1> USE DEF JobSteps, newVars, workerVars, TypeOK, LockInv, Ends, Outcomes
<1>1. CASE FindsClosed(c) \/ Locks(c) \/ InvokeFails(c) \/ Invokes(c)
  BY <1>1 DEF FindsClosed, Locks, InvokeFails, Invokes
<1>2. CASE Told(c) \/ (\E o \in {"timeout", "failed"} : Unanswered(c, o))
  BY <1>2 DEF Told, Unanswered
<1>3. CASE GetsMedia(c) \/ ReadsMedia(c)
  BY <1>3 DEF GetsMedia, ReadsMedia
<1> QED BY <1>1, <1>2, <1>3 DEF Job

\* methods and functions go on together
LEMMA PlaceKeeps ==
    ASSUME TypeOK, ExecutorInv, PlaceInv, LockInv, [Next]_vars PROVE PlaceInv'
<1> USE CallsAssumption
    DEF TypeOK, PlaceInv, ExecutorInv, Running, Goto, Executor!TypeOK, Executor!Status,
        Executor!Idle, CallPc
<1>1. CASE UNCHANGED vars \/ (New /\ new # "ok")
  BY <1>1, NewFrame DEF vars, Methods, newVars, workerVars
<1>2. CASE New /\ new = "ok"
  BY <1>2 DEF New, GetFactory, RequestManager, GetManager, TakeCurrent,
       ListSessions, SkipSession, TakeMatching, InitFails, NewFails, Acquire, Releases
<1>3. ASSUME NEW j \in Jobs, StartJob(j) PROVE PlaceInv'
  BY <1>3 DEF StartJob, Executor!Start, newVars, Jobs
<1>4. ASSUME NEW j \in Jobs, Enter(j) PROVE PlaceInv'
  BY <1>4 DEF Enter, newVars, workerVars
<1>5. CASE WorkerStops
  BY <1>5 DEF WorkerStops, Executor!Stop, newVars
<1>6. ASSUME NEW c \in Calls, Do(c) PROVE PlaceInv'
  <2>1. CASE DoRefuses(c)
    BY <2>1 DEF DoRefuses, newVars, workerVars, Jobs
  <2>2. CASE DoSubmits(c)
    BY <2>2 DEF DoSubmits, Executor!Submit, newVars, Jobs
  <2>3. CASE DoReturns(c) \/ WorkerRefuses(c)
    BY <2>3 DEF DoReturns, WorkerRefuses, Executor!Answer, Executor!Refuse, newVars, Jobs
  <2> QED BY <1>6, <2>1, <2>2, <2>3 DEF Do
<1>7. ASSUME NEW c \in Calls, Decides(c) PROVE PlaceInv'
  BY <1>7 DEF Decides, newVars, workerVars
<1>8. ASSUME NEW c \in Calls, Job(c) PROVE PlaceInv'
  <2>1. JobSteps(c) /\ c \in Jobs /\ step # "none"
    BY <1>8, JobIs DEF JobSteps, Jobs
  <2>2. CASE UNCHANGED workerVars /\ step' \in {"invoke", "wait", "read"}
    <3>1. UNCHANGED <<new, call, status>> /\ Executor!Idle' = Executor!Idle
      BY <2>1, <2>2 DEF JobSteps, workerVars
    <3>2. \A x \in Closers : ~Running(x)
      BY <2>1 DEF JobSteps, Jobs, Calls
    <3> QED BY <2>1, <2>2, <3>1, <3>2
  <2>3. CASE (\E o \in Outcomes : Executor!Finish(c, o)) /\ step' = "none"
    <3>1. /\ status'[c] = "done" /\ status[c] = "running"
          /\ \A j \in Jobs : j # c => status'[j] = status[j] /\ status'[j] # "running"
      BY <2>1, <2>3 DEF Executor!Finish
    <3>2. Executor!Idle'
      BY <3>1
    <3> QED BY <2>1, <2>3, <3>1, <3>2 DEF JobSteps, Jobs
  <2> QED BY <2>1, <2>2, <2>3 DEF JobSteps
<1>9. ASSUME NEW x \in Closers, Close(x) PROVE PlaceInv'
  <2>1. CASE CloseAgain(x) \/ CloseReturns(x)
    BY <2>1 DEF CloseAgain, CloseReturns, newVars, workerVars, Jobs
  <2>2. CASE CloseBegins(x)
    BY <2>2 DEF CloseBegins, Executor!Submit, newVars, Jobs
  <2>3. CASE StopWorker(x)
    BY <2>3 DEF StopWorker, Executor!Answer, newVars, Jobs
  <2> QED BY <1>9, <2>1, <2>2, <2>3 DEF Close
<1>10. ASSUME NEW x \in Closers, CloseJob(x) PROVE PlaceInv'
  <2>1. CASE TakeSession(x)
    <3>1. /\ UNCHANGED <<new, call, status>> /\ Executor!Idle' = Executor!Idle
          /\ step' = "release" /\ step # "none"
      BY <2>1 DEF TakeSession, newVars, workerVars
    <3>2. \A c \in Calls : ~Running(c)
      BY <2>1 DEF TakeSession, Jobs, Calls
    <3> QED BY <3>1, <3>2
  <2>2. CASE ReleaseSession(x)
    <3>1. /\ status'[x] = "done" /\ status[x] = "running"
          /\ \A j \in Jobs : j # x => status'[j] = status[j] /\ status'[j] # "running"
      BY <2>2 DEF ReleaseSession, Executor!Finish, Jobs
    <3>2. Executor!Idle'
      BY <3>1
    <3> QED BY <2>2, <3>1, <3>2 DEF ReleaseSession, newVars, Jobs
  <2> QED BY <1>10, <2>1, <2>2 DEF CloseJob
<1> QED BY <1>1, <1>2, <1>3, <1>4, <1>5, <1>6, <1>7, <1>8, <1>9, <1>10 DEF Next, Worker

\* nobody closes the Controller while c.mu is held
LEMMA LockKeeps ==
    ASSUME TypeOK, ExecutorInv, PlaceInv, LockInv, [Next]_vars PROVE LockInv'
<1> USE CallsAssumption
    DEF TypeOK, LockInv, ExecutorInv, PlaceInv, Running, Executor!TypeOK, Executor!Status,
        Executor!Idle
<1>1. CASE UNCHANGED vars \/ New
  BY <1>1, NewFrame DEF vars, Methods, newVars, workerVars
<1>2. ASSUME NEW j \in Jobs, StartJob(j) PROVE LockInv'
  BY <1>2 DEF StartJob, Executor!Start
<1>3. ASSUME NEW j \in Jobs, Enter(j) PROVE LockInv'
  BY <1>3 DEF Enter, workerVars
<1>4. CASE WorkerStops
  BY <1>4 DEF WorkerStops, Executor!Stop
<1>5. ASSUME NEW c \in Calls, Do(c) \/ Decides(c) PROVE LockInv'
  <2>1. c \in Jobs /\ c \notin Closers
    BY DEF Jobs, Calls
  <2>2. \A x \in Closers : x \in Jobs /\ status'[x] = status[x]
    BY <1>5, <2>1 DEF Do, DoRefuses, DoSubmits, DoReturns, WorkerRefuses, Decides,
       Executor!Submit, Executor!Answer, Executor!Refuse, workerVars, Jobs
  <2>3. UNCHANGED <<locked, step, closed>>
    BY <1>5 DEF Do, DoRefuses, DoSubmits, DoReturns, WorkerRefuses, Decides
  <2> QED BY <2>2, <2>3
<1>6. ASSUME NEW c \in Calls, Job(c) PROVE LockInv'
  BY <1>6, JobIs DEF JobSteps, Job, FindsClosed, Locks, InvokeFails, Invokes, Told, Unanswered,
       GetsMedia, ReadsMedia, Ends, Executor!Finish, workerVars, Jobs
<1>7. ASSUME NEW x \in Closers, Close(x) PROVE LockInv'
  BY <1>7 DEF Close, CloseAgain, CloseBegins, StopWorker, CloseReturns, Executor!Submit,
       Executor!Answer, workerVars, Jobs
<1>8. ASSUME NEW x \in Closers, CloseJob(x) PROVE LockInv'
  BY <1>8 DEF CloseJob, TakeSession, ReleaseSession, Executor!Finish, workerVars, Jobs
<1> QED BY <1>1, <1>2, <1>3, <1>4, <1>5, <1>6, <1>7, <1>8 DEF Next, Worker

-----------------------------------------------------------------------------
(* References. *)

\* the references and what New found
HeldFrame == <<new, wanted, list, scan, held, session>>

\* they stay as they are as long as the function's place does
LEMMA HeldStays ==
    ASSUME HeldInv, UNCHANGED HeldFrame, step \in {"wait", "read"} <=> step' \in {"wait", "read"},
           step \in {"wait", "read"} => step' = step,
           closed => closed',
           \A x \in Closers : /\ Running(x)' /\ step' = "release" =>
                                     Running(x) /\ step = "release"
                              /\ status'[x] \in {"done", "answered"} =>
                                     status[x] \in {"done", "answered"}
    PROVE  HeldInv'
BY DEF HeldFrame, HeldInv, JobHolds, Running

\* what is released where New fails
LEMMA ReleasesAre ==
    /\ DOMAIN Releases = {"factory", "request", "wait", "pick", "scan"}
    /\ Releases["factory"] = {} /\ Releases["request"] = {"factory"}
    /\ Releases["wait"] = {"op", "factory"} /\ Releases["pick"] = {"manager", "factory"}
    /\ Releases["scan"] = {"sessions", "manager", "factory"}
BY DEF Releases

\* control.go:27-78.  Each step of New gets or releases what its place says
LEMMA HeldByNew ==
    ASSUME TypeOK, PlaceInv, LockInv, HeldInv, New PROVE HeldInv'
<1> USE ReleasesAre DEF TypeOK, HeldInv, JobHolds
<1>1. CASE new = "ok"
  BY <1>1 DEF New, GetFactory, RequestManager, GetManager, TakeCurrent,
       ListSessions, SkipSession, TakeMatching, InitFails, NewFails, Acquire
<1>2. CASE new # "ok"
  <2>1. /\ step = "none" /\ closed = FALSE /\ session = FALSE
        /\ UNCHANGED <<status, step, closed>>
        /\ \A x \in Closers : status[x] = "new" /\ status'[x] = "new"
    BY <1>2, NewFrame DEF PlaceInv, LockInv, Methods, workerVars, Executor!Idle, Running, Jobs
  <2> USE <2>1 DEF Running
  <2>2. CASE GetFactory \/ RequestManager \/ GetManager \/ ListSessions
    <3>1. /\ new' \in DOMAIN Releases /\ held' = Releases[new'] /\ session' = FALSE
      <4>1. CASE GetFactory
        BY <4>1 DEF GetFactory, Acquire
      <4>2. CASE RequestManager
        BY <4>2 DEF RequestManager, Acquire
      <4>3. CASE GetManager
        BY <4>3 DEF GetManager, Acquire
      <4>4. CASE ListSessions
        BY <4>4 DEF ListSessions, Acquire
      <4> QED BY <2>2, <4>1, <4>2, <4>3, <4>4
    <3> QED BY <3>1
  <2>3. CASE TakeCurrent \/ TakeMatching
    BY <2>3 DEF TakeCurrent, TakeMatching, Matches
  <2>4. CASE SkipSession
    BY <2>4 DEF SkipSession
  <2>5. CASE InitFails \/ NewFails
    BY <2>5 DEF InitFails, NewFails
  <2> QED BY <2>2, <2>3, <2>4, <2>5 DEF New
<1> QED BY <1>1, <1>2

\* a function returns what it got; Close takes the session for good
LEMMA HeldKeeps ==
    ASSUME TypeOK, ExecutorInv, PlaceInv, LockInv, HeldInv, [Next]_vars PROVE HeldInv'
<1> USE CallsAssumption
    DEF TypeOK, HeldFrame, Running, Executor!TypeOK, Executor!Status, newVars, workerVars
<1>1. CASE UNCHANGED vars
  BY <1>1, HeldStays DEF vars
<1>2. CASE New
  BY <1>2, HeldByNew
<1>3. ASSUME NEW j \in Jobs, StartJob(j) PROVE HeldInv'
  <2>1. step = "none" /\ step' = "lock"
    BY <1>3 DEF PlaceInv, StartJob, Executor!Start
  <2> QED BY <1>3, <2>1, HeldStays DEF StartJob, Executor!Start
<1>4. ASSUME NEW j \in Jobs, Enter(j) PROVE HeldInv'
  BY <1>4, HeldStays DEF Enter
<1>5. CASE WorkerStops
  BY <1>5, HeldStays DEF WorkerStops, Executor!Stop
<1>6. ASSUME NEW c \in Calls, Do(c) \/ Decides(c) PROVE HeldInv'
  <2>1. c \in Jobs /\ c \notin Closers
    BY DEF Jobs, Calls
  <2>2. \A x \in Closers : x \in Jobs /\ status'[x] = status[x]
    BY <1>6, <2>1 DEF Do, DoRefuses, DoSubmits, DoReturns, WorkerRefuses, Decides,
       Executor!Submit, Executor!Answer, Executor!Refuse, Jobs
  <2>3. UNCHANGED <<HeldFrame, step, closed>>
    BY <1>6 DEF Do, DoRefuses, DoSubmits, DoReturns, WorkerRefuses, Decides
  <2> QED BY <2>2, <2>3, HeldStays
<1>7. ASSUME NEW c \in Calls, Job(c) PROVE HeldInv'
  <2>1. new = "ok" /\ c \in Jobs /\ c \notin Closers
    BY <1>7, JobIs DEF JobSteps, PlaceInv, Jobs, Calls
  <2>2. /\ UNCHANGED <<new, wanted, list, scan, session, closed>>
        /\ \A x \in Closers : x \in Jobs /\ status[x] # "running" /\ status'[x] = status[x]
    BY <1>7, <2>1, JobIs DEF JobSteps, ExecutorInv, Executor!Finish, Jobs
  <2>3. /\ held' \ {"session"} = JobHolds'
        /\ "session" \in held' <=> "session" \in held
    <3>1. CASE FindsClosed(c) \/ Locks(c) \/ InvokeFails(c) \/ Invokes(c)
      BY <3>1, <2>1 DEF FindsClosed, Locks, InvokeFails, Invokes, Ends, HeldInv, JobHolds
    <3>2. CASE Told(c) \/ (\E o \in {"timeout", "failed"} : Unanswered(c, o))
      BY <3>2, <2>1 DEF Told, Unanswered, Ends, HeldInv, JobHolds
    <3>3. CASE GetsMedia(c) \/ ReadsMedia(c)
      BY <3>3, <2>1 DEF GetsMedia, ReadsMedia, Ends, HeldInv, JobHolds
    <3> QED BY <1>7, <3>1, <3>2, <3>3 DEF Job
  <2> QED BY <2>1, <2>2, <2>3 DEF HeldInv, Releases
<1>8. ASSUME NEW x \in Closers, Close(x) PROVE HeldInv'
  <2>1. /\ UNCHANGED <<HeldFrame, step>> /\ (closed => closed')
        /\ \A y \in Closers : /\ status'[y] = "running" => status[y] = "running"
                              /\ status'[y] \in {"done", "answered"} =>
                                     status[y] \in {"done", "answered"}
    BY <1>8 DEF Close, CloseAgain, CloseBegins, StopWorker, CloseReturns,
         Executor!Submit, Executor!Answer, Jobs
  <2> QED BY <2>1, HeldStays
<1>9. ASSUME NEW x \in Closers, CloseJob(x) PROVE HeldInv'
  <2>1. x \in Jobs /\ status[x] = "running" /\ new = "ok" /\ closed
    BY <1>9 DEF CloseJob, TakeSession, ReleaseSession, PlaceInv, LockInv, Jobs
  <2>2. CASE TakeSession(x)
    BY <2>1, <2>2 DEF TakeSession, HeldInv, JobHolds, Releases
  <2>3. CASE ReleaseSession(x)
    <3>1. /\ UNCHANGED <<new, wanted, list, scan, session, closed>>
          /\ held' = held \ {"session"} /\ step = "release" /\ step' = "none"
          /\ session = FALSE
      BY <2>1, <2>3 DEF ReleaseSession, HeldInv
    <3>2. \A y \in Closers : /\ status'[y] # "running"
                             /\ y # x => status'[y] = status[y]
      BY <2>1, <2>3 DEF ReleaseSession, Executor!Finish, ExecutorInv, Jobs
    <3> QED BY <2>1, <3>1, <3>2 DEF HeldInv, JobHolds, Releases
  <2> QED BY <1>9, <2>2, <2>3 DEF CloseJob
<1> QED BY <1>1, <1>2, <1>3, <1>4, <1>5, <1>6, <1>7, <1>8, <1>9 DEF Next, Worker

\* the worker stays stopped
LEMMA StopKeeps ==
    ASSUME TypeOK, PlaceInv, StopInv, [Next]_vars PROVE StopInv'
<1>1. stopped => stopped'
  BY StepOfExecutor DEF TypeOK, Executor!TypeOK, Executor!Next, Executor!Submit, Executor!Start,
     Executor!Finish, Executor!Answer, Executor!Refuse, Executor!Stop, ExecutorVars
<1>2. new' = "failed" => new = "failed" \/ stopped
  BY DEF Next, New, GetFactory, RequestManager, GetManager, TakeCurrent, ListSessions,
     SkipSession, TakeMatching, InitFails, NewFails, Acquire, Worker, StartJob, Job, FindsClosed,
     Locks, InvokeFails, Invokes, Told, Unanswered, GetsMedia, ReadsMedia, CloseJob, TakeSession,
     ReleaseSession, WorkerStops, Enter, Do, DoRefuses, DoSubmits, DoReturns, WorkerRefuses,
     Decides, Close, CloseAgain, CloseBegins, StopWorker, CloseReturns, vars, newVars
<1>3. ASSUME NEW x \in Closers, call'[x] = "returned" PROVE call[x] = "returned" \/ stopped
  <2> USE <1>3, CallsAssumption DEF TypeOK, Goto
  <2>1. x \in Jobs /\ x \notin Calls
    BY DEF Jobs, Calls
  <2>2. CASE UNCHANGED call
    BY <2>2
  <2>3. ASSUME NEW j \in Jobs, Enter(j) PROVE call[x] = "returned" \/ stopped
    BY <2>1, <2>3 DEF Enter
  <2>4. ASSUME NEW c \in Calls, Do(c) PROVE call[x] = "returned" \/ stopped
    BY <2>1, <2>4 DEF Do, DoRefuses, DoSubmits, DoReturns, WorkerRefuses
  <2>5. ASSUME NEW y \in Closers, Close(y) PROVE call[x] = "returned" \/ stopped
    BY <2>1, <2>5 DEF Close, CloseAgain, CloseBegins, StopWorker, CloseReturns
  <2>6. UNCHANGED call \/ (\E j \in Jobs : Enter(j)) \/ (\E c \in Calls : Do(c))
          \/ (\E y \in Closers : Close(y))
    BY DEF Next, New, GetFactory, RequestManager, GetManager, TakeCurrent, ListSessions,
       SkipSession, TakeMatching, InitFails, NewFails, Acquire, Worker, StartJob, Job,
       FindsClosed, Locks, InvokeFails, Invokes, Told, Unanswered, GetsMedia, ReadsMedia,
       CloseJob, TakeSession, ReleaseSession, WorkerStops, Decides, vars
  <2> QED BY <2>2, <2>3, <2>4, <2>5, <2>6
<1> QED BY <1>1, <1>2, <1>3 DEF StopInv

-----------------------------------------------------------------------------
(* Outcomes. *)

\* steps that change no function, outcome or answer of a call
LEMMA EffectStays ==
    ASSUME EffectInv, UNCHANGED effect,
           \A c \in Calls : /\ status'[c] = status[c] /\ outcome'[c] = outcome[c]
                            /\ answer'[c] = answer[c]
                            /\ Running(c) => step' = step
    PROVE  EffectInv'
BY DEF EffectInv, Running

\* a request is sent by its own function only, and its outcome is Windows' answer or none
LEMMA EffectKeeps ==
    ASSUME TypeOK, ExecutorInv, PlaceInv, EffectInv, [Next]_vars PROVE EffectInv'
<1> USE DEF TypeOK, Running, Executor!TypeOK, Executor!Status
<1>c. /\ \A c \in Calls : c \in Jobs /\ c \notin Closers
      /\ \A x \in Closers : x \in Jobs /\ x \notin Calls
  BY CallsAssumption DEF Jobs, Calls
<1>1. CASE UNCHANGED vars \/ New \/ \E j \in Jobs : Enter(j)
  BY <1>1, NewFrame, EffectStays DEF vars, Methods, workerVars, Enter
<1>2. ASSUME NEW j \in Jobs, StartJob(j) PROVE EffectInv'
  <2>1. /\ \A c \in Calls : status[c] # "running" /\ (c # j => status'[c] = status[c])
        /\ status[j] = "submitted" /\ status'[j] = "running" /\ step' = "lock"
        /\ UNCHANGED <<effect, outcome, answer>>
    BY <1>2, <1>c DEF StartJob, Executor!Start, Executor!Idle
  <2> QED BY <2>1, <1>c DEF EffectInv
<1>3. CASE WorkerStops
  BY <1>3, EffectStays DEF WorkerStops, Executor!Stop
<1>4. ASSUME NEW c \in Calls, Do(c) PROVE EffectInv'
  <2>1. CASE DoRefuses(c)
    BY <2>1, EffectStays DEF DoRefuses, workerVars
  <2>2. CASE DoSubmits(c)
    BY <2>2, <1>c DEF DoSubmits, Executor!Submit, EffectInv
  <2>3. CASE DoReturns(c)
    <3>1. outcome[c] # "refused" /\ status[c] = "done"
      BY <2>3, <1>c DEF DoReturns, Executor!Answer, ExecutorInv, Outcomes
    <3> QED BY <2>3, <3>1, <1>c DEF DoReturns, Executor!Answer, EffectInv
  <2>4. CASE WorkerRefuses(c)
    BY <2>4, <1>c DEF WorkerRefuses, Executor!Refuse, EffectInv
  <2> QED BY <1>4, <2>1, <2>2, <2>3, <2>4 DEF Do
<1>5. ASSUME NEW c \in Calls, Decides(c) PROVE EffectInv'
  <2>1. PICK e \in {"accepted", "rejected"} : effect' = [effect EXCEPT ![c] = e]
    BY <1>5 DEF Decides
  <2> QED BY <1>5, <2>1, <1>c DEF Decides, workerVars, EffectInv
<1>6. ASSUME NEW c \in Calls, Job(c) PROVE EffectInv'
  <2>1. /\ status[c] = "running" /\ outcome[c] = "nothing" /\ answer[c] = "nothing"
        /\ \A d \in Calls : d # c => status[d] # "running"
    BY <1>6, <1>c DEF Job, FindsClosed, Locks, InvokeFails, Invokes, Told, Unanswered,
         GetsMedia, ReadsMedia, ExecutorInv
  <2>2. ASSUME NEW o, Ends(c, o), UNCHANGED effect, o = "closed" => effect[c] = "unsent",
               o = "nil" => effect[c] = "accepted", o = "rejected" => effect[c] = "rejected"
        PROVE  EffectInv'
    <3>1. /\ status'[c] = "done" /\ outcome'[c] = o /\ answer'[c] = "nothing"
          /\ \A d \in Calls : d # c => /\ status'[d] = status[d] /\ outcome'[d] = outcome[d]
                                       /\ answer'[d] = answer[d]
      BY <2>1, <2>2, <1>c DEF Ends, Executor!Finish
    <3> QED BY <2>1, <2>2, <3>1 DEF EffectInv
  <2>3. CASE FindsClosed(c) \/ InvokeFails(c)
    BY <2>2, <2>3 DEF FindsClosed, InvokeFails, EffectInv
  <2>4. CASE Locks(c)
    BY <2>1, <2>4 DEF Locks, workerVars, EffectInv
  <2>5. CASE Invokes(c)
    BY <2>1, <2>5 DEF Invokes, workerVars, EffectInv
  <2>6. CASE Told(c)
    BY <2>2, <2>6 DEF Told
  <2>7. CASE \E o \in {"timeout", "failed"} : Unanswered(c, o)
    BY <2>2, <2>7 DEF Unanswered
  <2>8. CASE GetsMedia(c)
    BY <2>1, <2>8 DEF GetsMedia, workerVars, EffectInv
  <2>9. CASE ReadsMedia(c)
    BY <2>2, <2>9 DEF ReadsMedia, EffectInv
  <2> QED BY <1>6, <2>3, <2>4, <2>5, <2>6, <2>7, <2>8, <2>9 DEF Job
<1>7. ASSUME NEW x \in Closers, Close(x) PROVE EffectInv'
  <2>1. /\ UNCHANGED <<effect, step>>
        /\ \A c \in Calls : /\ status'[c] = status[c] /\ outcome'[c] = outcome[c]
                            /\ answer'[c] = answer[c]
    BY <1>7, <1>c DEF Close, CloseAgain, CloseBegins, StopWorker, CloseReturns,
         Executor!Submit, Executor!Answer, workerVars
  <2> QED BY <2>1, EffectStays
<1>8. ASSUME NEW x \in Closers, CloseJob(x) PROVE EffectInv'
  <2>1. /\ UNCHANGED effect
        /\ \A c \in Calls : /\ status[c] # "running" /\ status'[c] = status[c]
                            /\ outcome'[c] = outcome[c] /\ answer'[c] = answer[c]
    BY <1>8, <1>c DEF CloseJob, TakeSession, ReleaseSession, Executor!Finish, workerVars,
         ExecutorInv
  <2> QED BY <2>1, EffectStays
<1> QED BY <1>1, <1>2, <1>3, <1>4, <1>5, <1>6, <1>7, <1>8 DEF Next, Worker

-----------------------------------------------------------------------------
(* The invariant holds. *)

\* in the beginning no method is called and nothing is held
LEMMA InvInit == Init => IInv
<1> SUFFICES ASSUME Init PROVE IInv
  OBVIOUS
<1>1. Executor!TypeOK
  BY DEF Init, Executor!Init, Executor!TypeOK, Executor!Status
<1>2. list \in Lists /\ scan \in 1..(MaxList + 1)
  <2>1. <<>> \in [1..0 -> Ids] /\ 0 \in 0..MaxList
    BY ScanAssumption
  <2> QED BY <2>1, ScanAssumption DEF Init, Lists
<1>3. TypeOK
  BY <1>1, <1>2 DEF Init, TypeOK, NewPc, CallPc
<1>4. \A j \in Jobs : /\ status[j] = "new" /\ outcome[j] = "nothing" /\ answer[j] = "nothing"
                      /\ call[j] = "idle"
  BY DEF Init, Executor!Init, Executor!Nothing
<1>5. Executor!Idle /\ stopped = FALSE
  BY <1>4 DEF Executor!Idle, Init, Executor!Init
<1>6. ExecutorInv /\ PlaceInv
  BY <1>4, <1>5 DEF Init, ExecutorInv, PlaceInv, Running, Jobs
<1>7. LockInv /\ StopInv /\ EffectInv
  BY <1>4, <1>5 DEF Init, LockInv, StopInv, EffectInv, Running, Jobs
<1>8. HeldInv
  BY <1>4, ReleasesAre DEF Init, HeldInv, JobHolds, Running, Jobs
<1> QED BY <1>3, <1>6, <1>7, <1>8 DEF IInv

\* the induction
LEMMA InvHolds == Spec => []IInv
<1>1. ASSUME IInv, [Next]_vars PROVE IInv'
  BY <1>1, StepOfExecutor, ExecutorKeeps, TypeKeeps, PlaceKeeps, LockKeeps, HeldKeeps, StopKeeps,
     EffectKeeps DEF IInv, TypeOK
<1> QED BY <1>1, InvInit, PTL DEF Spec

-----------------------------------------------------------------------------
(* What follows from it. *)

(* control.go:97-106, 306-325.  For every set of calls and every list of     *)
(* sessions, a function that calls into the session has it, holds its        *)
(* reference, and it is the one New was asked for.                           *)
THEOREM SessionHeld == Spec => []SessionUsedWhileHeld
<1>1. ASSUME IInv, step \in {"invoke", "wait", "read"}
      PROVE  session /\ "session" \in held /\ (wanted # AnyId => list[scan] = wanted)
  <2>1. closed = FALSE /\ ~Executor!Idle
    BY <1>1 DEF IInv, LockInv, PlaceInv
  <2>2. PICK j \in Jobs : Running(j)
    BY <2>1 DEF Executor!Idle, Running
  <2>3. new = "ok"
    BY <1>1, <2>2 DEF IInv, PlaceInv, Running
  <2> QED BY <1>1, <2>1, <2>3 DEF IInv, HeldInv
<1>2. IInv => SessionUsedWhileHeld
  BY <1>1 DEF SessionUsedWhileHeld
<1> QED BY <1>2, InvHolds, PTL

(* control.go:257-266, 306-325.  A call that was told "closed" has not       *)
(* reached Windows and never will; what others were told of its answer is    *)
(* true, in whichever order commands, timers and Close come.                 *)
THEOREM OutcomesAreTrue == Spec => []OutcomeIsTrue
<1>1. ASSUME IInv, NEW c \in Calls
      PROVE  /\ call[c] = "refused" \/ answer[c] \in {"closed", "refused"} => effect[c] = "unsent"
             /\ answer[c] = "nil" => effect[c] = "accepted"
             /\ answer[c] = "rejected" => effect[c] = "rejected"
  <2>1. c \in Jobs /\ status[c] \in {"new", "submitted", "running", "done", "answered"}
    BY <1>1 DEF IInv, TypeOK, Executor!TypeOK, Executor!Status, Jobs
  <2>2. answer[c] \in {"nothing", "refused"} \/ answer[c] = outcome[c]
    BY <1>1, <2>1 DEF IInv, ExecutorInv
  <2>3. call[c] = "refused" => status[c] = "new"
    BY <1>1, <2>1 DEF IInv, PlaceInv
  <2> QED BY <1>1, <2>2, <2>3 DEF IInv, EffectInv
<1>2. IInv => OutcomeIsTrue
  BY <1>1 DEF OutcomeIsTrue
<1> QED BY <1>2, InvHolds, PTL

(* control.go:27-78, 80-106, 222-253.  When the Close that found the         *)
(* Controller open returns, or a New that failed at whichever call, no       *)
(* reference is left and nothing runs or will; between two calls only the    *)
(* session is held.                                                          *)
THEOREM LeavesNothing == Spec => []NothingLeft
<1>1. ASSUME IInv PROVE NothingLeft
  <2>1. CASE new = "failed"
    <3>1. stopped /\ step = "none" /\ held = {} /\ session = FALSE
      BY <1>1, <2>1 DEF IInv, StopInv, ExecutorInv, PlaceInv, HeldInv
    <3> QED BY <1>1, <2>1, <3>1 DEF IInv, NothingLeft
  <2>2. ASSUME NEW x \in Closers, call[x] = "returned", new # "failed"
        PROVE  held = {} /\ session = FALSE /\ stopped /\ step = "none"
    <3>1. stopped /\ step = "none"
      BY <1>1, <2>2 DEF IInv, StopInv, ExecutorInv, PlaceInv
    <3>2. x \in Jobs /\ status[x] = "answered" /\ new = "ok"
      BY <1>1, <2>2 DEF IInv, PlaceInv, Jobs
    <3> QED BY <1>1, <3>1, <3>2 DEF IInv, HeldInv, JobHolds
  <2>3. new = "ok" /\ step = "none" => held \subseteq {"session"}
    BY <1>1 DEF IInv, HeldInv, JobHolds
  <2> QED BY <1>1, <2>1, <2>2, <2>3 DEF IInv, NothingLeft
<1> QED BY <1>1, InvHolds, PTL
=============================================================================
