----------------------------- MODULE Threads_proofs -----------------------------
(***************************************************************************)
(* Proofs about the threads of the process.                                *)
(*                                                                         *)
(* First MTAWorker, for any jobs, closers and outcomes: type correctness,  *)
(* the two safety invariants its run checks, and that it implements        *)
(* SerialExecutor.  All follow from IInv, which adds to the invariants     *)
(* what each pc implies of the channels and counters.                      *)
(*                                                                         *)
(* Then ComThreads, for any threads and goroutines and any depth of their  *)
(* calls: its two invariants, from ComInv, which says of each goroutine    *)
(* what its place means and of each thread what is owed for it.            *)
(***************************************************************************)
EXTENDS MTAWorker, ComThreads, TLAPS

\* the thread: what its pc says of COM, of w.done and of the job it holds
ThreadInv == /\ current = NoJob <=> worker # "running"
             /\ com <=> worker \in {"loop", "running", "uninit"}
             /\ done <=> worker = "exited"

\* one call of Do: what its pc says of its channel, its answer and its runs
CallInv(j) ==
    /\ call[j] \in {"idle", "entry", "sending"} =>
         current # j /\ runs[j] = 0 /\ errCh[j] = Nothing /\ answer[j] = Nothing
    /\ call[j] = "waiting" =>
         runs[j] = 1 /\ answer[j] = Nothing /\ (current = j <=> errCh[j] = Nothing)
    /\ call[j] = "returned" =>
         /\ current # j /\ errCh[j] = Nothing
         /\ \/ answer[j] = Refused /\ runs[j] = 0
            \/ answer[j] \in Outcomes /\ runs[j] = 1

\* whoever came out of NewMTAWorker with nil or out of Close has seen w.done
QuietInv == /\ new = "nil" => done
            /\ once = "over" => done
            /\ \A c \in Closers : closer[c] = "returned" => done

IInv == TypeOK /\ ThreadInv /\ (\A j \in Jobs : CallInv(j)) /\ QuietInv

-----------------------------------------------------------------------------
(* The initial state satisfies the inductive invariant.                      *)
LEMMA InitIInv == Init => IInv
<1> SUFFICES ASSUME Init PROVE IInv
  OBVIOUS
<1>1. TypeOK
  BY DEF Init, TypeOK, WorkerPc, CallPc, CloserPc
<1>2. ThreadInv
  BY DEF Init, ThreadInv
<1>3. \A j \in Jobs : CallInv(j)
  BY NoJobAssumption DEF Init, CallInv, Nothing
<1>4. QuietInv
  BY DEF Init, QuietInv
<1> QED
  BY <1>1, <1>2, <1>3, <1>4 DEF IInv

(* Every step keeps the types.                                               *)
LEMMA NextTypeOK == TypeOK /\ ThreadInv /\ [Next]_vars => TypeOK'
<1> SUFFICES ASSUME TypeOK, ThreadInv, [Next]_vars PROVE TypeOK'
  OBVIOUS
<1> USE DEF TypeOK, WorkerPc, CallPc, CloserPc, workerVars, callVars, closeVars
<1>1. CASE New
  BY <1>1 DEF New, NewReadReady, NewFails
<1>2. CASE InitSucceeds \/ InitFails \/ LeaveLoop \/ RunUninitMTA \/ CloseDone
  <2>1. CASE InitSucceeds
    BY <2>1 DEF InitSucceeds
  <2>2. CASE InitFails
    BY <2>2 DEF InitFails
  <2>3. CASE LeaveLoop
    BY <2>3 DEF LeaveLoop
  <2>4. CASE RunUninitMTA
    BY <2>4 DEF RunUninitMTA
  <2>5. CASE CloseDone
    BY <2>5 DEF CloseDone
  <2> QED BY <1>2, <2>1, <2>2, <2>3, <2>4, <2>5
<1>3. ASSUME NEW j \in Jobs, TakeJob(j) PROVE TypeOK'
  BY <1>3 DEF TakeJob
<1>4. ASSUME NEW o \in Outcomes, FinishJob(o) PROVE TypeOK'
  BY <1>4 DEF FinishJob
<1>5. ASSUME NEW j \in Jobs, CallDo(j) \/ Do(j) PROVE TypeOK'
  BY <1>5 DEF CallDo, Do, DoRefusesAtEntry, DoOffersJob, DoRefusesWhenDone,
              DoReturns, Return, Refused
<1>6. ASSUME NEW c \in Closers, CallClose(c) \/ Close(c) PROVE TypeOK'
  <2>1. CASE CallClose(c) \/ CloseNil(c) \/ PassOnce(c)
    BY <2>1 DEF CallClose, CloseNil, PassOnce
  <2>2. CASE EnterOnce(c)
    BY <2>2 DEF EnterOnce
  <2>3. CASE StoreClosed(c)
    BY <2>3 DEF StoreClosed
  <2>4. CASE SignalClose(c)
    BY <2>4 DEF SignalClose
  <2>5. CASE CloseReturns(c)
    BY <2>5 DEF CloseReturns
  <2> QED BY <1>6, <2>1, <2>2, <2>3, <2>4, <2>5 DEF Close
<1>7. CASE UNCHANGED vars
  BY <1>7 DEF vars
<1> QED
  BY <1>1, <1>2, <1>3, <1>4, <1>5, <1>6, <1>7 DEF Next, Worker

(* Every step keeps the inductive invariant.                                 *)
LEMMA NextIInv == IInv /\ [Next]_vars => IInv'
<1> SUFFICES ASSUME IInv, [Next]_vars PROVE IInv'
  OBVIOUS
<1>t. TypeOK'
  BY NextTypeOK DEF IInv
<1> USE DEF workerVars, callVars, closeVars
<1> SUFFICES (ThreadInv /\ (\A j \in Jobs : CallInv(j)) /\ QuietInv)'
  BY <1>t DEF IInv
<1>1. CASE New
  BY <1>1 DEF New, NewReadReady, NewFails, IInv, ThreadInv, CallInv, QuietInv
<1>2. CASE InitSucceeds \/ InitFails \/ LeaveLoop \/ RunUninitMTA
  BY <1>2 DEF InitSucceeds, InitFails, LeaveLoop, RunUninitMTA,
              IInv, ThreadInv, CallInv, QuietInv
<1>3. CASE CloseDone
  BY <1>3 DEF CloseDone, IInv, ThreadInv, CallInv, QuietInv
<1>4. ASSUME NEW j \in Jobs, TakeJob(j)
      PROVE  (ThreadInv /\ (\A k \in Jobs : CallInv(k)) /\ QuietInv)'
  <2>1. ThreadInv' /\ QuietInv'
    BY <1>4, NoJobAssumption DEF TakeJob, IInv, ThreadInv, QuietInv
  <2>2. ASSUME NEW k \in Jobs PROVE CallInv(k)'
    <3>1. CASE k = j
      BY <1>4, <3>1 DEF TakeJob, IInv, TypeOK, CallInv
    <3>2. CASE k # j
      BY <1>4, <3>2, NoJobAssumption DEF TakeJob, IInv, TypeOK, ThreadInv, CallInv
    <3> QED BY <3>1, <3>2
  <2> QED BY <2>1, <2>2
<1>5. ASSUME NEW o \in Outcomes, FinishJob(o)
      PROVE  (ThreadInv /\ (\A k \in Jobs : CallInv(k)) /\ QuietInv)'
  <2>0. current \in Jobs /\ o # Nothing
    BY <1>5, OutcomesAssumption DEF FinishJob, IInv, TypeOK, ThreadInv, Nothing
  <2>1. ThreadInv' /\ QuietInv'
    BY <1>5 DEF FinishJob, IInv, ThreadInv, QuietInv
  <2>2. ASSUME NEW k \in Jobs PROVE CallInv(k)'
    <3>1. CASE k = current
      BY <1>5, <2>0, <3>1, NoJobAssumption DEF FinishJob, IInv, TypeOK, CallInv, CallPc
    <3>2. CASE k # current
      BY <1>5, <2>0, <3>2, NoJobAssumption DEF FinishJob, IInv, TypeOK, CallInv
    <3> QED BY <3>1, <3>2
  <2> QED BY <2>1, <2>2
<1>6. ASSUME NEW j \in Jobs, CallDo(j) \/ Do(j)
      PROVE  (ThreadInv /\ (\A k \in Jobs : CallInv(k)) /\ QuietInv)'
  <2> USE DEF CallDo, Do, DoRefusesAtEntry, DoOffersJob, DoRefusesWhenDone,
              DoReturns, Return
  <2>1. ThreadInv' /\ QuietInv'
    BY <1>6 DEF IInv, ThreadInv, QuietInv
  <2>2. ASSUME NEW k \in Jobs PROVE CallInv(k)'
    <3>1. CASE k = j
      BY <1>6, <3>1, OutcomesAssumption DEF IInv, TypeOK, CallInv, CallPc, Nothing, Refused
    <3>2. CASE k # j
      BY <1>6, <3>2 DEF IInv, TypeOK, CallInv
    <3> QED BY <3>1, <3>2
  <2> QED BY <2>1, <2>2
<1>7. ASSUME NEW c \in Closers, CallClose(c) \/ Close(c)
      PROVE  (ThreadInv /\ (\A k \in Jobs : CallInv(k)) /\ QuietInv)'
  BY <1>7 DEF CallClose, Close, CloseNil, EnterOnce, PassOnce, StoreClosed,
              SignalClose, CloseReturns, IInv, TypeOK, ThreadInv, CallInv, QuietInv
<1>8. CASE UNCHANGED vars
  BY <1>8 DEF vars, IInv, ThreadInv, CallInv, QuietInv
<1> QED
  BY <1>1, <1>2, <1>3, <1>4, <1>5, <1>6, <1>7, <1>8 DEF Next, Worker

(* IInv holds in every state MTAWorker can reach.                            *)
THEOREM Inductive == Spec => []IInv
  BY InitIInv, NextIInv, PTL DEF Spec

(* Every variable keeps its type, for any number of callers.                 *)
THEOREM TypeCorrect == Spec => []TypeOK
<1>1. IInv => TypeOK
  BY DEF IInv
<1> QED
  BY Inductive, <1>1, PTL

(* apartment.go:79-86: a refused call never ran its function, and any other  *)
(* answer is the value its single run returned.                              *)
THEOREM AnswersAreSound == Spec => []AnswerMatchesRun
<1>1. IInv => AnswerMatchesRun
  BY OutcomesAssumption DEF IInv, TypeOK, CallPc, CallInv, AnswerMatchesRun, Nothing, Refused
<1> QED
  BY Inductive, <1>1, PTL

(* apartment.go:51-65, 91-101: functions only run between InitMTA and        *)
(* UninitMTA, and when a call of Close has returned, the worker has ended    *)
(* and no function runs.                                                     *)
THEOREM CloseIsQuiet == Spec => []CloseQuiesces
<1>1. IInv => CloseQuiesces
  BY NoJobAssumption DEF IInv, ThreadInv, QuietInv, CallInv, CloseQuiesces
<1> QED
  BY Inductive, <1>1, PTL
-----------------------------------------------------------------------------
(* Refinement: the steps of SerialExecutor that MTAWorker's steps amount to. *)

LEMMA ExecutorInit == Init => Executor!Init
  BY DEF Init, Executor!Init, jobStatus, jobOutcome, Nothing, Executor!Nothing, Refused

\* a step leaves all that the mapping reads of the call k alone
SameCall(k) == /\ call'[k] = call[k]
               /\ errCh'[k] = errCh[k]
               /\ answer'[k] = answer[k]
               /\ (current = k) <=> (current' = k)

\* what a step does to the mapped functions when it changes the call j only
LEMMA OneCall ==
  ASSUME NEW j \in Jobs, \A k \in Jobs \ {j} : SameCall(k)
  PROVE  /\ jobStatus' = [jobStatus EXCEPT ![j] = jobStatus'[j]]
         /\ jobOutcome' = [jobOutcome EXCEPT ![j] = jobOutcome'[j]]
<1>1. ASSUME NEW k \in Jobs, k # j
      PROVE  jobStatus'[k] = jobStatus[k] /\ jobOutcome'[k] = jobOutcome[k]
  <2>1. SameCall(k)
    BY <1>1
  <2>2. jobStatus'[k] = jobStatus[k]
    BY <2>1 DEF SameCall, jobStatus
  <2>3. jobOutcome'[k] = jobOutcome[k]
    BY <2>1 DEF SameCall, jobOutcome
  <2> QED BY <2>2, <2>3
<1> DEFINE IsFcn(f) == f = [k \in Jobs |-> f[k]]
<1>2. IsFcn(jobStatus) /\ IsFcn(jobStatus')
  BY DEF jobStatus
<1>3. IsFcn(jobOutcome) /\ IsFcn(jobOutcome')
  BY DEF jobOutcome
<1> HIDE DEF IsFcn
<1>4. jobStatus' = [jobStatus EXCEPT ![j] = jobStatus'[j]]
  BY <1>1, <1>2 DEF IsFcn
<1>5. jobOutcome' = [jobOutcome EXCEPT ![j] = jobOutcome'[j]]
  BY <1>1, <1>3 DEF IsFcn
<1> QED BY <1>4, <1>5

\* in terms of the mapped functions: what a call's pc says of its status
LEMMA StatusOf ==
  ASSUME IInv, NEW j \in Jobs
  PROVE  /\ jobStatus[j] = "new" <=> call[j] = "idle"
         /\ jobStatus[j] = "submitted" <=> call[j] \in {"entry", "sending"}
         /\ jobStatus[j] = "running" <=> current = j
         /\ jobStatus[j] = "done" <=> call[j] = "waiting" /\ current # j
         /\ jobStatus[j] = "answered" <=> call[j] = "returned"
<1>1. call[j] \in CallPc
  BY DEF IInv, TypeOK
<1>2. current = j => call[j] = "waiting"
  BY <1>1 DEF IInv, CallInv, CallPc
<1>3. CASE call[j] = "idle"
  BY <1>2, <1>3 DEF jobStatus
<1>4. CASE call[j] \in {"entry", "sending"}
  BY <1>2, <1>4 DEF jobStatus
<1>5. CASE call[j] = "waiting"
  BY <1>5 DEF jobStatus
<1>6. CASE call[j] = "returned"
  BY <1>2, <1>6 DEF jobStatus
<1> QED
  BY <1>1, <1>3, <1>4, <1>5, <1>6 DEF CallPc

LEMMA ExecutorNext == IInv /\ IInv' /\ [Next]_vars => [Executor!Next]_(Executor!vars)
<1> SUFFICES ASSUME IInv, IInv', [Next]_vars
             PROVE  [Executor!Next]_(Executor!vars)
  OBVIOUS
<1> USE DEF workerVars, callVars, closeVars
<1>1. CASE \/ New \/ InitSucceeds \/ InitFails \/ RunUninitMTA \/ CloseDone
           \/ \E c \in Closers : CallClose(c) \/ Close(c)
           \/ UNCHANGED vars
  <2>1. UNCHANGED callVars /\ UNCHANGED current
    BY <1>1 DEF New, NewReadReady, NewFails, InitSucceeds, InitFails, RunUninitMTA,
                CloseDone, CallClose, Close, CloseNil, EnterOnce, PassOnce,
                StoreClosed, SignalClose, CloseReturns, vars
  <2>2. UNCHANGED <<jobStatus, jobOutcome, answer>>
    BY <2>1 DEF jobStatus, jobOutcome
  <2>3. CASE worker \in {"uninit", "closing", "exited"}
             <=> worker' \in {"uninit", "closing", "exited"}
    BY <2>2, <2>3 DEF Executor!vars
  <2>4. CASE InitFails
    <3>1. \A j \in Jobs : jobStatus[j] # "running"
      BY <2>4, StatusOf, NoJobAssumption DEF InitFails, IInv, ThreadInv
    <3>2. Executor!Stop
      BY <2>2, <2>4, <3>1 DEF InitFails, Executor!Stop, Executor!Idle
    <3> QED BY <3>2 DEF Executor!Next
  <2>5. ~InitFails => (worker \in {"uninit", "closing", "exited"}
                        <=> worker' \in {"uninit", "closing", "exited"})
    BY <1>1 DEF New, NewReadReady, NewFails, InitSucceeds, RunUninitMTA,
                CloseDone, CallClose, Close, CloseNil, EnterOnce, PassOnce,
                StoreClosed, SignalClose, CloseReturns, vars
  <2> QED BY <2>3, <2>4, <2>5
<1>2. CASE LeaveLoop
  <2>1. UNCHANGED <<jobStatus, jobOutcome, answer>>
    BY <1>2 DEF LeaveLoop, jobStatus, jobOutcome
  <2>2. \A j \in Jobs : jobStatus[j] # "running"
    BY <1>2, StatusOf, NoJobAssumption DEF LeaveLoop, IInv, ThreadInv
  <2>3. Executor!Stop
    BY <1>2, <2>1, <2>2 DEF LeaveLoop, Executor!Stop, Executor!Idle
  <2> QED BY <2>3 DEF Executor!Next
<1>3. ASSUME NEW j \in Jobs, TakeJob(j) PROVE Executor!Start(j)
  <2>1. /\ jobStatus' = [jobStatus EXCEPT ![j] = jobStatus'[j]]
        /\ jobOutcome' = [jobOutcome EXCEPT ![j] = jobOutcome'[j]]
    BY <1>3, OneCall, NoJobAssumption DEF SameCall, TakeJob, IInv, TypeOK, ThreadInv
  <2>2. jobStatus[j] = "submitted" /\ jobStatus'[j] = "running"
    BY <1>3, StatusOf DEF TakeJob, jobStatus, IInv, TypeOK
  <2>3. jobOutcome' = jobOutcome
    BY <1>3 DEF TakeJob, jobOutcome
  <2>4. \A k \in Jobs : jobStatus[k] # "running"
    BY <1>3, StatusOf, NoJobAssumption DEF TakeJob, IInv, ThreadInv
  <2> QED
    BY <1>3, <2>1, <2>2, <2>3, <2>4 DEF TakeJob, Executor!Start, Executor!Idle
<1>4. ASSUME NEW o \in Outcomes, FinishJob(o) PROVE Executor!Finish(current, o)
  <2>0. current \in Jobs /\ o # Nothing
    BY <1>4, OutcomesAssumption DEF FinishJob, IInv, TypeOK, ThreadInv, Nothing
  <2>1. /\ jobStatus' = [jobStatus EXCEPT ![current] = jobStatus'[current]]
        /\ jobOutcome' = [jobOutcome EXCEPT ![current] = jobOutcome'[current]]
    BY <1>4, <2>0, OneCall, NoJobAssumption DEF SameCall, FinishJob, IInv, TypeOK
  <2>2. jobStatus[current] = "running" /\ call[current] = "waiting"
    BY <2>0, StatusOf DEF IInv, TypeOK, CallInv, CallPc
  <2>3. jobStatus'[current] = "done" /\ jobOutcome'[current] = o
    BY <1>4, <2>0, <2>2, NoJobAssumption DEF FinishJob, jobStatus, jobOutcome, IInv, TypeOK
  <2> QED
    BY <1>4, <2>1, <2>2, <2>3 DEF FinishJob, Executor!Finish
<1>5. ASSUME NEW j \in Jobs, CallDo(j) \/ Do(j) PROVE [Executor!Next]_(Executor!vars)
  <2>1. /\ jobStatus' = [jobStatus EXCEPT ![j] = jobStatus'[j]]
        /\ jobOutcome' = [jobOutcome EXCEPT ![j] = jobOutcome'[j]]
    BY <1>5, OneCall DEF SameCall, CallDo, Do, DoRefusesAtEntry, DoOffersJob, DoRefusesWhenDone,
                         DoReturns, Return, IInv, TypeOK
  <2>2. CASE CallDo(j)
    <3>1. jobStatus[j] = "new" /\ jobStatus'[j] = "submitted"
      BY <2>2, StatusOf DEF CallDo, jobStatus, IInv, TypeOK
    <3>2. UNCHANGED <<jobOutcome, answer>>
      BY <2>2 DEF CallDo, jobOutcome
    <3>3. Executor!Submit(j)
      BY <2>1, <2>2, <3>1, <3>2 DEF CallDo, Executor!Submit
    <3> QED BY <3>3 DEF Executor!Next
  <2>3. CASE DoOffersJob(j)
    <3>1. UNCHANGED <<jobOutcome, answer>>
      BY <2>3 DEF DoOffersJob, jobOutcome
    <3>2. jobStatus[j] = "submitted" /\ jobStatus'[j] = "submitted"
      BY <2>3, StatusOf DEF DoOffersJob, jobStatus, IInv, TypeOK
    <3>3. UNCHANGED jobStatus
      BY <2>1, <3>2 DEF jobStatus
    <3> QED BY <2>3, <3>1, <3>3 DEF DoOffersJob, Executor!vars
  <2>4. CASE DoRefusesAtEntry(j) \/ DoRefusesWhenDone(j)
    <3>1. jobStatus[j] = "submitted" /\ jobStatus'[j] = "answered"
      BY <2>4, StatusOf DEF DoRefusesAtEntry, DoRefusesWhenDone, Return, jobStatus, IInv, TypeOK
    <3>2. answer[j] = Nothing /\ errCh[j] = Nothing
      BY <2>4 DEF DoRefusesAtEntry, DoRefusesWhenDone, IInv, CallInv
    <3>3. jobOutcome'[j] = jobOutcome[j]
      BY <2>4, <3>2 DEF DoRefusesAtEntry, DoRefusesWhenDone, Return, jobOutcome,
                        IInv, TypeOK, Nothing, Refused
    <3>4. jobOutcome' = jobOutcome
      BY <2>1, <3>3 DEF jobOutcome
    <3>5. Executor!Refuse(j)
      BY <2>1, <2>4, <3>1, <3>4 DEF DoRefusesAtEntry, DoRefusesWhenDone, Return,
                                   Executor!Refuse, Refused, Executor!Refused
    <3> QED BY <3>5 DEF Executor!Next
  <2>5. CASE DoReturns(j)
    <3>1. call[j] = "waiting" /\ current # j /\ errCh[j] \in Outcomes
      BY <2>5 DEF DoReturns, IInv, TypeOK, CallInv
    <3>2. jobStatus[j] = "done" /\ jobStatus'[j] = "answered"
      BY <2>5, <3>1, StatusOf DEF DoReturns, Return, jobStatus, IInv, TypeOK
    <3>3. jobOutcome[j] = errCh[j] /\ jobOutcome'[j] = errCh[j]
      BY <2>5, <3>1, OutcomesAssumption DEF DoReturns, Return, jobOutcome,
                        IInv, TypeOK, Nothing, Refused
    <3>4. jobOutcome' = jobOutcome
      BY <2>1, <3>3 DEF jobOutcome
    <3>5. Executor!Answer(j)
      BY <2>1, <2>5, <3>2, <3>3, <3>4 DEF DoReturns, Return, Executor!Answer
    <3> QED BY <3>5 DEF Executor!Next
  <2> QED BY <1>5, <2>2, <2>3, <2>4, <2>5 DEF Do
<1> QED
  <2>1. ASSUME NEW j \in Jobs, TakeJob(j) PROVE Executor!Next
    BY <1>3, <2>1 DEF Executor!Next
  <2>2. ASSUME NEW o \in Outcomes, FinishJob(o) PROVE Executor!Next
    <3>1. current \in Jobs
      BY <2>2 DEF FinishJob, IInv, TypeOK, ThreadInv
    <3> QED BY <1>4, <2>2, <3>1 DEF Executor!Next
  <2> QED
    BY <1>1, <1>2, <1>5, <2>1, <2>2 DEF Next, Worker

(* apartment.go as a whole: every behaviour of the worker and its callers is *)
(* one of SerialExecutor, the promise the other components rely on.          *)
THEOREM Implements == Spec => ImplementsExecutor
<1>1. Init => Executor!Init
  BY ExecutorInit
<1>2. IInv /\ IInv' /\ [Next]_vars => [Executor!Next]_(Executor!vars)
  BY ExecutorNext
<1> QED
  BY <1>1, <1>2, Inductive, PTL DEF Spec, ImplementsExecutor, Executor!Spec

-----------------------------------------------------------------------------
(* ComThreads: the inductive invariant. *)

\* u answers for an initialization of its thread: what it owes, or its package's entry
Owes(u) == IF u \notin MapUsers \/ pc[u] \in {"store", "undo"}
           THEN owed[u] # "nothing"
           ELSE entry[PackageOf(u)][thread[u]] # "nothing"

One(b) == IF b THEN 1 ELSE 0

\* a goroutine: what its place says of itself and of its thread
PlaceInv(u) ==
    /\ pc[u] = "off" <=> thread[u] = NoThread
    /\ pc[u] \notin {"off", "run"} => locks[u] >= 1
    /\ pc[u] = "init" \/ u \in MapUsers => locks[u] <= 1
    /\ u \in MapUsers => pc[u] # "window"
    /\ u \notin MapUsers =>
         /\ pc[u] \in {"off", "run", "init", "window", "in", "undo", "out"}
         /\ owed[u] # "nothing" <=> pc[u] \in {"window", "in", "undo"}
         /\ pc[u] \in {"window", "in"} => apartment[thread[u]] = "STA"

\* a goroutine of a package with a map: its thread's entry
EntryInv(u) ==
    /\ \A p \in Packages : pc[u] # "off" /\ refs[p][thread[u]] > 0 =>
         u \in MapUsers /\ p = PackageOf(u) /\ pc[u] \in {"init", "in"}
    /\ u \in MapUsers =>
         /\ pc[u] \in {"co", "ro", "store", "in"} => tid[u] = thread[u]
         /\ pc[u] = "in" => refs[PackageOf(u)][thread[u]] > 0
         /\ pc[u] = "store" \/ (pc[u] # "off" /\ refs[PackageOf(u)][thread[u]] > 0) =>
              apartment[thread[u]] # "none"

UserInv(u) ==
    /\ PlaceInv(u)
    /\ EntryInv(u)
    /\ pc[u] # "off" => count[thread[u]] = hosted[thread[u]] + One(Owes(u))

OneThreadInv(t) ==
    /\ apartment[t] = "none" <=> count[t] = 0
    /\ \A p \in Packages : refs[p][t] = 0 => entry[p][t] = "nothing"
    /\ Idle(t) => count[t] = hosted[t] /\ \A p \in Packages : refs[p][t] = 0

\* nobody shares a thread
Alone == \A u, v \in Users : thread[u] = thread[v] /\ thread[u] # NoThread => u = v

ComInv == /\ ComTypeOK
          /\ Alone
          /\ \A u \in Users : UserInv(u)
          /\ \A t \in Threads : OneThreadInv(t)

-----------------------------------------------------------------------------
(* The frame of a step of one goroutine. *)

\* it stays, goes to an idle thread or ends, and touches only the thread it was on
LocalStep(u) ==
    /\ thread'[u] \in {thread[u], NoThread} \/ Idle(thread'[u])
    /\ \A v \in Users : v # u =>
         /\ thread'[v] = thread[v]
         /\ pc'[v] = pc[v] /\ locks'[v] = locks[v] /\ tid'[v] = tid[v] /\ owed'[v] = owed[v]
    /\ \A t \in Threads : t # thread[u] =>
         /\ apartment'[t] = apartment[t] /\ count'[t] = count[t] /\ hosted'[t] = hosted[t]
         /\ \A p \in Packages : refs'[p][t] = refs[p][t] /\ entry'[p][t] = entry[p][t]

\* what a step has to show of the goroutine that takes it, and of its thread
Kept(u) == /\ ComTypeOK'
           /\ LocalStep(u)
           /\ UserInv(u)'
           /\ \A t \in Threads : t \in {thread[u], thread'[u]} => OneThreadInv(t)'

\* The package of a goroutine is one of the two.
LEMMA PackageOfUser == \A u : PackageOf(u) \in Packages
BY DEF PackageOf, Packages

\* A goroutine that is somewhere is on a thread.
LEMMA OnThread == ASSUME ComInv, NEW u \in Users, pc[u] # "off"
                  PROVE  thread[u] \in Threads /\ thread[u] # NoThread
BY ThreadsAssumption DEF ComInv, UserInv, PlaceInv, ComTypeOK

\* The others, and the other threads, see nothing of such a step.
LEMMA Frame == ASSUME ComInv, NEW u \in Users, Kept(u) PROVE ComInv'
<1>1. \A v \in Users : thread'[v] \in Threads \cup {NoThread}
  BY DEF Kept, ComTypeOK
<1>2. Alone'
  <2>1. \A v \in Users : v # u => thread'[v] = thread[v]
    BY DEF Kept, LocalStep
  <2>2. \A v \in Users : v # u /\ thread[v] # NoThread => thread[v] # thread'[u]
    BY DEF ComInv, Alone, Kept, LocalStep, Idle
  <2> QED BY <2>1, <2>2 DEF ComInv, Alone
<1>3. ASSUME NEW v \in Users PROVE UserInv(v)'
  <2>1. CASE v = u
    BY <2>1 DEF Kept
  <2>2. CASE v # u /\ thread[v] = NoThread
    <3>1. pc[v] = "off" /\ pc'[v] = "off" /\ thread'[v] = NoThread /\ UserInv(v)
      BY <2>2 DEF ComInv, Kept, LocalStep, UserInv, PlaceInv
    <3>2. locks'[v] = locks[v] /\ tid'[v] = tid[v] /\ owed'[v] = owed[v]
      BY <2>2 DEF Kept, LocalStep
    <3> QED BY <3>1, <3>2 DEF UserInv, PlaceInv, EntryInv
  <2>3. CASE v # u /\ thread[v] # NoThread
    <3>1. thread[v] \in Threads /\ thread[v] # thread[u] /\ UserInv(v)
      BY <2>3 DEF ComInv, Alone, ComTypeOK, Kept, LocalStep
    <3>2. /\ pc'[v] = pc[v] /\ locks'[v] = locks[v] /\ tid'[v] = tid[v] /\ owed'[v] = owed[v]
          /\ thread'[v] = thread[v]
      BY <2>3 DEF Kept, LocalStep
    <3>3. /\ apartment'[thread[v]] = apartment[thread[v]]
          /\ count'[thread[v]] = count[thread[v]]
          /\ hosted'[thread[v]] = hosted[thread[v]]
          /\ \A p \in Packages : /\ refs'[p][thread[v]] = refs[p][thread[v]]
                                 /\ entry'[p][thread[v]] = entry[p][thread[v]]
      BY <3>1 DEF Kept, LocalStep
    <3>4. Owes(v)' = Owes(v)
      BY <3>2, <3>3, PackageOfUser DEF Owes
    <3>5. PlaceInv(v)'
      BY <3>1, <3>2, <3>3 DEF UserInv, PlaceInv
    <3>6. EntryInv(v)'
      BY <3>1, <3>2, <3>3, PackageOfUser DEF UserInv, EntryInv
    <3> QED BY <3>1, <3>2, <3>3, <3>4, <3>5, <3>6 DEF UserInv
  <2> QED BY <2>1, <2>2, <2>3
<1>4. ASSUME NEW t \in Threads PROVE OneThreadInv(t)'
  <2>1. CASE t \in {thread[u], thread'[u]}
    BY <2>1 DEF Kept
  <2>2. CASE t \notin {thread[u], thread'[u]}
    <3>1. OneThreadInv(t) /\ (Idle(t)' <=> Idle(t))
      BY <2>2 DEF ComInv, Idle, Kept, LocalStep
    <3>2. /\ apartment'[t] = apartment[t] /\ count'[t] = count[t] /\ hosted'[t] = hosted[t]
          /\ \A p \in Packages : refs'[p][t] = refs[p][t] /\ entry'[p][t] = entry[p][t]
      BY <2>2 DEF Kept, LocalStep
    <3> QED BY <3>1, <3>2 DEF OneThreadInv
  <2> QED BY <2>1, <2>2
<1> QED BY <1>2, <1>3, <1>4 DEF ComInv, Kept

-----------------------------------------------------------------------------
(* The steps of a goroutine that stays on its thread, one lemma each. *)

\* locked, with nothing done yet
LEMMA LockOSThreadKeeps == ASSUME ComInv, NEW u \in Users, LockOSThread(u) PROVE Kept(u)
<1>1. thread[u] \in Threads /\ thread[u] # NoThread
  BY OnThread DEF LockOSThread
<1>2. ComTypeOK /\ UserInv(u) /\ OneThreadInv(thread[u]) /\ PackageOf(u) \in Packages
  BY <1>1, PackageOfUser DEF ComInv
<1>3. ComTypeOK'
  BY <1>1, <1>2 DEF LockOSThread, Goto, mapVars, comVars, ComTypeOK, Pc
<1>4. thread' = thread /\ LocalStep(u)
  BY <1>1, <1>2 DEF LockOSThread, Goto, mapVars, comVars, LocalStep, ComTypeOK
<1>5. PlaceInv(u)' /\ EntryInv(u)'
  BY <1>1, <1>2 DEF LockOSThread, Goto, mapVars, comVars, ComTypeOK, UserInv, PlaceInv,
       EntryInv
<1>6. count'[thread[u]] = hosted'[thread[u]] + One(Owes(u)')
  BY <1>1, <1>2 DEF LockOSThread, Goto, mapVars, comVars, ComTypeOK, UserInv, PlaceInv, Owes,
       One
<1>7. ASSUME NEW t \in Threads, t \in {thread[u], thread'[u]} PROVE OneThreadInv(t)'
  BY <1>7, <1>1, <1>2 DEF LockOSThread, Goto, mapVars, comVars, ComTypeOK, OneThreadInv, Idle
<1> QED BY <1>3, <1>4, <1>5, <1>6, <1>7 DEF Kept, UserInv

\* an entry under its own thread is its own
LEMMA LooksUpKeeps == ASSUME ComInv, NEW u \in Users, LooksUp(u) PROVE Kept(u)
<1>1. thread[u] \in Threads /\ thread[u] # NoThread
  BY OnThread DEF LooksUp
<1>2. ComTypeOK /\ UserInv(u) /\ OneThreadInv(thread[u]) /\ PackageOf(u) \in Packages
  BY <1>1, PackageOfUser DEF ComInv
<1>3. ComTypeOK'
  BY <1>1, <1>2 DEF LooksUp, Goto, comVars, ComTypeOK, Pc, Packages
<1>4. thread' = thread /\ LocalStep(u)
  BY <1>1, <1>2 DEF LooksUp, Goto, comVars, LocalStep, ComTypeOK
<1>5. PlaceInv(u)' /\ EntryInv(u)'
  BY <1>1, <1>2 DEF LooksUp, Goto, comVars, ComTypeOK, UserInv, PlaceInv, EntryInv
<1>6. count'[thread[u]] = hosted'[thread[u]] + One(Owes(u)')
  BY <1>1, <1>2 DEF LooksUp, Goto, comVars, ComTypeOK, UserInv, PlaceInv, Owes, One
<1>7. ASSUME NEW t \in Threads, t \in {thread[u], thread'[u]} PROVE OneThreadInv(t)'
  BY <1>7, <1>1, <1>2 DEF LooksUp, Goto, comVars, ComTypeOK, OneThreadInv, Idle, Packages
<1> QED BY <1>3, <1>4, <1>5, <1>6, <1>7 DEF Kept, UserInv

\* what it did, or only attached to, it owes
LEMMA CoInitializesKeeps == ASSUME ComInv, NEW u \in Users, CoInitializes(u) PROVE Kept(u)
<1>1. thread[u] \in Threads /\ thread[u] # NoThread
  BY OnThread DEF CoInitializes
<1>2. ComTypeOK /\ UserInv(u) /\ OneThreadInv(thread[u]) /\ PackageOf(u) \in Packages
  BY <1>1, PackageOfUser DEF ComInv
<1>3. ComTypeOK'
  BY <1>1, <1>2 DEF CoInitializes, Goto, Enters, ChangesMode, mapVars, ComTypeOK, Pc, Debts,
       Apartments
<1>4. thread' = thread /\ LocalStep(u)
  BY <1>1, <1>2 DEF CoInitializes, Goto, Enters, ChangesMode, mapVars, LocalStep, ComTypeOK
<1>5. PlaceInv(u)' /\ EntryInv(u)'
  BY <1>1, <1>2 DEF CoInitializes, Goto, Enters, ChangesMode, mapVars, ComTypeOK, UserInv,
       PlaceInv, EntryInv
<1>6. count'[thread[u]] = hosted'[thread[u]] + One(Owes(u)')
  BY <1>1, <1>2 DEF CoInitializes, Goto, Enters, ChangesMode, mapVars, ComTypeOK, UserInv,
       PlaceInv, Owes, One, OneThreadInv, UserInv, EntryInv, Debts
<1>7. ASSUME NEW t \in Threads, t \in {thread[u], thread'[u]} PROVE OneThreadInv(t)'
  BY <1>7, <1>1, <1>2 DEF CoInitializes, Goto, Enters, ChangesMode, mapVars, ComTypeOK,
       OneThreadInv, Idle
<1> QED BY <1>3, <1>4, <1>5, <1>6, <1>7 DEF Kept, UserInv

\* a failed call leaves nothing
LEMMA CoInitializeFailsKeeps == ASSUME ComInv, NEW u \in Users, CoInitializeFails(u) PROVE Kept(u)
<1>1. thread[u] \in Threads /\ thread[u] # NoThread
  BY OnThread DEF CoInitializeFails
<1>2. ComTypeOK /\ UserInv(u) /\ OneThreadInv(thread[u]) /\ PackageOf(u) \in Packages
  BY <1>1, PackageOfUser DEF ComInv
<1>3. ComTypeOK'
  BY <1>1, <1>2 DEF CoInitializeFails, Goto, mapVars, comVars, ComTypeOK, Pc
<1>4. thread' = thread /\ LocalStep(u)
  BY <1>1, <1>2 DEF CoInitializeFails, Goto, mapVars, comVars, LocalStep, ComTypeOK
<1>5. PlaceInv(u)' /\ EntryInv(u)'
  BY <1>1, <1>2 DEF CoInitializeFails, Goto, mapVars, comVars, ComTypeOK, UserInv, PlaceInv,
       EntryInv
<1>6. count'[thread[u]] = hosted'[thread[u]] + One(Owes(u)')
  BY <1>1, <1>2 DEF CoInitializeFails, Goto, mapVars, comVars, ComTypeOK, UserInv, PlaceInv,
       Owes, One
<1>7. ASSUME NEW t \in Threads, t \in {thread[u], thread'[u]} PROVE OneThreadInv(t)'
  BY <1>7, <1>1, <1>2 DEF CoInitializeFails, Goto, mapVars, comVars, ComTypeOK, OneThreadInv, Idle
<1> QED BY <1>3, <1>4, <1>5, <1>6, <1>7 DEF Kept, UserInv

\* the same for the second call
LEMMA RoInitializesKeeps == ASSUME ComInv, NEW u \in Users, RoInitializes(u) PROVE Kept(u)
<1>1. thread[u] \in Threads /\ thread[u] # NoThread
  BY OnThread DEF RoInitializes
<1>2. ComTypeOK /\ UserInv(u) /\ OneThreadInv(thread[u]) /\ PackageOf(u) \in Packages
  BY <1>1, PackageOfUser DEF ComInv
<1>3. ComTypeOK'
  BY <1>1, <1>2 DEF RoInitializes, Goto, Enters, ChangesMode, mapVars, ComTypeOK, Pc, Debts,
       Apartments
<1>4. thread' = thread /\ LocalStep(u)
  BY <1>1, <1>2 DEF RoInitializes, Goto, Enters, ChangesMode, mapVars, LocalStep, ComTypeOK
<1>5. PlaceInv(u)' /\ EntryInv(u)'
  BY <1>1, <1>2 DEF RoInitializes, Goto, Enters, ChangesMode, mapVars, ComTypeOK, UserInv,
       PlaceInv, EntryInv
<1>6. count'[thread[u]] = hosted'[thread[u]] + One(Owes(u)')
  BY <1>1, <1>2 DEF RoInitializes, Goto, Enters, ChangesMode, mapVars, ComTypeOK, UserInv,
       PlaceInv, Owes, One, OneThreadInv, UserInv, EntryInv, Debts
<1>7. ASSUME NEW t \in Threads, t \in {thread[u], thread'[u]} PROVE OneThreadInv(t)'
  BY <1>7, <1>1, <1>2 DEF RoInitializes, Goto, Enters, ChangesMode, mapVars, ComTypeOK,
       OneThreadInv, Idle
<1> QED BY <1>3, <1>4, <1>5, <1>6, <1>7 DEF Kept, UserInv

\* the same for the second call
LEMMA RoInitializeFailsKeeps == ASSUME ComInv, NEW u \in Users, RoInitializeFails(u) PROVE Kept(u)
<1>1. thread[u] \in Threads /\ thread[u] # NoThread
  BY OnThread DEF RoInitializeFails
<1>2. ComTypeOK /\ UserInv(u) /\ OneThreadInv(thread[u]) /\ PackageOf(u) \in Packages
  BY <1>1, PackageOfUser DEF ComInv
<1>3. ComTypeOK'
  BY <1>1, <1>2 DEF RoInitializeFails, Goto, mapVars, comVars, ComTypeOK, Pc
<1>4. thread' = thread /\ LocalStep(u)
  BY <1>1, <1>2 DEF RoInitializeFails, Goto, mapVars, comVars, LocalStep, ComTypeOK
<1>5. PlaceInv(u)' /\ EntryInv(u)'
  BY <1>1, <1>2 DEF RoInitializeFails, Goto, mapVars, comVars, ComTypeOK, UserInv, PlaceInv,
       EntryInv
<1>6. count'[thread[u]] = hosted'[thread[u]] + One(Owes(u)')
  BY <1>1, <1>2 DEF RoInitializeFails, Goto, mapVars, comVars, ComTypeOK, UserInv, PlaceInv,
       Owes, One
<1>7. ASSUME NEW t \in Threads, t \in {thread[u], thread'[u]} PROVE OneThreadInv(t)'
  BY <1>7, <1>1, <1>2 DEF RoInitializeFails, Goto, mapVars, comVars, ComTypeOK, OneThreadInv, Idle
<1> QED BY <1>3, <1>4, <1>5, <1>6, <1>7 DEF Kept, UserInv

\* the debt moves into the entry
LEMMA StoresKeeps == ASSUME ComInv, NEW u \in Users, Stores(u) PROVE Kept(u)
<1>1. thread[u] \in Threads /\ thread[u] # NoThread
  BY OnThread DEF Stores
<1>2. ComTypeOK /\ UserInv(u) /\ OneThreadInv(thread[u]) /\ PackageOf(u) \in Packages
  BY <1>1, PackageOfUser DEF ComInv
<1>0. u \in MapUsers /\ tid[u] = thread[u]
  BY <1>1, <1>2 DEF UserInv, PlaceInv, EntryInv, Stores
<1>3. ComTypeOK'
  BY <1>0, <1>1, <1>2 DEF Stores, Goto, comVars, ComTypeOK, Pc
<1>4. thread' = thread /\ LocalStep(u)
  BY <1>0, <1>1, <1>2 DEF Stores, Goto, comVars, LocalStep, ComTypeOK
<1>5. PlaceInv(u)' /\ EntryInv(u)'
  BY <1>0, <1>1, <1>2 DEF Stores, Goto, comVars, ComTypeOK, UserInv, PlaceInv, EntryInv
<1>6. count'[thread[u]] = hosted'[thread[u]] + One(Owes(u)')
  BY <1>0, <1>1, <1>2 DEF Stores, Goto, comVars, ComTypeOK, UserInv, PlaceInv, Owes, One
<1>7. ASSUME NEW t \in Threads, t \in {thread[u], thread'[u]} PROVE OneThreadInv(t)'
  BY <1>0, <1>7, <1>1, <1>2 DEF Stores, Goto, comVars, ComTypeOK, OneThreadInv, Idle
<1> QED BY <1>3, <1>4, <1>5, <1>6, <1>7 DEF Kept, UserInv

\* one more call on the thread of its entry
LEMMA InitsAgainKeeps == ASSUME ComInv, NEW u \in Users, InitsAgain(u) PROVE Kept(u)
<1>1. thread[u] \in Threads /\ thread[u] # NoThread
  BY OnThread DEF InitsAgain
<1>2. ComTypeOK /\ UserInv(u) /\ OneThreadInv(thread[u]) /\ PackageOf(u) \in Packages
  BY <1>1, PackageOfUser DEF ComInv
<1>3. ComTypeOK'
  BY <1>1, <1>2 DEF InitsAgain, Goto, mapVars, comVars, ComTypeOK, Pc
<1>4. thread' = thread /\ LocalStep(u)
  BY <1>1, <1>2 DEF InitsAgain, Goto, mapVars, comVars, LocalStep, ComTypeOK
<1>5. PlaceInv(u)' /\ EntryInv(u)'
  BY <1>1, <1>2 DEF InitsAgain, Goto, mapVars, comVars, ComTypeOK, UserInv, PlaceInv, EntryInv
<1>6. count'[thread[u]] = hosted'[thread[u]] + One(Owes(u)')
  BY <1>1, <1>2 DEF InitsAgain, Goto, mapVars, comVars, ComTypeOK, UserInv, PlaceInv, Owes, One
<1>7. ASSUME NEW t \in Threads, t \in {thread[u], thread'[u]} PROVE OneThreadInv(t)'
  BY <1>7, <1>1, <1>2 DEF InitsAgain, Goto, mapVars, comVars, ComTypeOK, OneThreadInv, Idle
<1> QED BY <1>3, <1>4, <1>5, <1>6, <1>7 DEF Kept, UserInv

LEMMA UninitsKeeps == ASSUME ComInv, NEW u \in Users, Uninits(u) PROVE Kept(u)
<1>1. thread[u] \in Threads /\ thread[u] # NoThread
  BY OnThread DEF Uninits
<1> DEFINE p == PackageOf(u)
           n == refs[p][thread[u]]
<1>2. /\ ComTypeOK /\ UserInv(u) /\ OneThreadInv(thread[u]) /\ p \in Packages
      /\ u \in MapUsers /\ pc[u] = "in" /\ n \in Nat /\ n > 0
  BY <1>1, PackageOfUser DEF ComInv, Uninits, UserInv, EntryInv, ComTypeOK
<1>3. /\ tid' = [tid EXCEPT ![u] = thread[u]]
      /\ UNCHANGED <<thread, locks, apartment, count, hosted>>
  BY DEF Uninits, comVars
<1>4. CASE n > 1
  <2>1. refs' = [refs EXCEPT ![p][thread[u]] = n - 1] /\ UNCHANGED <<pc, owed, entry>>
    <3>1. n > 1 /\ ~ n = 1 /\ ~ n = 0
      BY <1>4, <1>2
    <3> QED BY <3>1 DEF Uninits
  <2>2. ComTypeOK'
    BY <1>1, <1>2, <1>3, <1>4, <2>1 DEF ComTypeOK
  <2>3. LocalStep(u)
    BY <1>1, <1>2, <1>3, <2>1 DEF LocalStep, ComTypeOK
  <2>4. UserInv(u)'
    BY <1>1, <1>2, <1>3, <1>4, <2>1 DEF UserInv, PlaceInv, EntryInv, Owes, ComTypeOK
  <2>5. ASSUME NEW t \in Threads, t \in {thread[u], thread'[u]} PROVE OneThreadInv(t)'
    BY <2>5, <1>1, <1>2, <1>3, <1>4, <2>1 DEF OneThreadInv, Idle, ComTypeOK
  <2> QED BY <2>2, <2>3, <2>4, <2>5 DEF Kept
<1>5. CASE n = 1
  <2>1. /\ refs' = [refs EXCEPT ![p][thread[u]] = 0]
        /\ entry' = [entry EXCEPT ![p][thread[u]] = "nothing"]
        /\ owed' = [owed EXCEPT ![u] = entry[p][thread[u]]]
        /\ pc' = [pc EXCEPT ![u] = "undo"]
    BY <1>5, <1>2 DEF Uninits, Goto
  <2>2. ComTypeOK'
    BY <1>1, <1>2, <1>3, <2>1 DEF ComTypeOK, Pc, Debts
  <2>3. LocalStep(u)
    BY <1>1, <1>2, <1>3, <2>1 DEF LocalStep, ComTypeOK
  <2>4. UserInv(u)'
    BY <1>1, <1>2, <1>3, <1>5, <2>1 DEF UserInv, PlaceInv, EntryInv, Owes, ComTypeOK
  <2>5. ASSUME NEW t \in Threads, t \in {thread[u], thread'[u]} PROVE OneThreadInv(t)'
    BY <2>5, <1>1, <1>2, <1>3, <2>1 DEF OneThreadInv, Idle, ComTypeOK
  <2> QED BY <2>2, <2>3, <2>4, <2>5 DEF Kept
<1> QED BY <1>2, <1>4, <1>5

\* it pays what it owes
LEMMA UndoesKeeps == ASSUME ComInv, NEW u \in Users, Undoes(u) PROVE Kept(u)
<1>1. thread[u] \in Threads /\ thread[u] # NoThread
  BY OnThread DEF Undoes
<1>2. ComTypeOK /\ UserInv(u) /\ OneThreadInv(thread[u]) /\ PackageOf(u) \in Packages
  BY <1>1, PackageOfUser DEF ComInv
<1>3. ComTypeOK'
  BY <1>1, <1>2 DEF Undoes, Goto, Leaves, mapVars, ComTypeOK, Pc, Debts, Apartments, Packages
<1>4. thread' = thread /\ LocalStep(u)
  BY <1>1, <1>2 DEF Undoes, Goto, Leaves, mapVars, LocalStep, ComTypeOK
<1>5. PlaceInv(u)' /\ EntryInv(u)'
  BY <1>1, <1>2 DEF Undoes, Goto, Leaves, mapVars, ComTypeOK, UserInv, PlaceInv, EntryInv
<1>6. count'[thread[u]] = hosted'[thread[u]] + One(Owes(u)')
  BY <1>1, <1>2 DEF Undoes, Goto, Leaves, mapVars, ComTypeOK, UserInv, PlaceInv, Owes, One,
       EntryInv, OneThreadInv, Debts, Pc, Apartments, Packages
<1>7. ASSUME NEW t \in Threads, t \in {thread[u], thread'[u]} PROVE OneThreadInv(t)'
  BY <1>7, <1>1, <1>2 DEF Undoes, Goto, Leaves, mapVars, ComTypeOK, OneThreadInv, Idle, UserInv,
       PlaceInv, Owes, One, Apartments
<1> QED BY <1>3, <1>4, <1>5, <1>6, <1>7 DEF Kept, UserInv

\* only a thread in an STA gets a window
LEMMA EntersWindowKeeps == ASSUME ComInv, NEW u \in Users, EntersWindow(u) PROVE Kept(u)
<1>1. thread[u] \in Threads /\ thread[u] # NoThread
  BY OnThread DEF EntersWindow
<1>2. ComTypeOK /\ UserInv(u) /\ OneThreadInv(thread[u]) /\ PackageOf(u) \in Packages
  BY <1>1, PackageOfUser DEF ComInv
<1>0. u \notin MapUsers
  BY UsersAssumption DEF EntersWindow
<1>3. ComTypeOK'
  BY <1>0, <1>1, <1>2 DEF EntersWindow, Goto, Enters, mapVars, ComTypeOK, Pc, Debts, Apartments
<1>4. thread' = thread /\ LocalStep(u)
  BY <1>0, <1>1, <1>2 DEF EntersWindow, Goto, Enters, mapVars, LocalStep, ComTypeOK
<1>5. PlaceInv(u)' /\ EntryInv(u)'
  BY <1>0, <1>1, <1>2 DEF EntersWindow, Goto, Enters, mapVars, ComTypeOK, UserInv, PlaceInv,
       EntryInv
<1>6. count'[thread[u]] = hosted'[thread[u]] + One(Owes(u)')
  BY <1>0, <1>1, <1>2 DEF EntersWindow, Goto, Enters, mapVars, ComTypeOK, UserInv, PlaceInv,
       Owes, One
<1>7. ASSUME NEW t \in Threads, t \in {thread[u], thread'[u]} PROVE OneThreadInv(t)'
  BY <1>0, <1>7, <1>1, <1>2 DEF EntersWindow, Goto, Enters, mapVars, ComTypeOK, OneThreadInv, Idle
<1> QED BY <1>3, <1>4, <1>5, <1>6, <1>7 DEF Kept, UserInv

\* a failed call leaves nothing
LEMMA WindowRefusedKeeps == ASSUME ComInv, NEW u \in Users, WindowRefused(u) PROVE Kept(u)
<1>1. thread[u] \in Threads /\ thread[u] # NoThread
  BY OnThread DEF WindowRefused
<1>2. ComTypeOK /\ UserInv(u) /\ OneThreadInv(thread[u]) /\ PackageOf(u) \in Packages
  BY <1>1, PackageOfUser DEF ComInv
<1>0. u \notin MapUsers
  BY UsersAssumption DEF WindowRefused
<1>3. ComTypeOK'
  BY <1>0, <1>1, <1>2 DEF WindowRefused, Goto, mapVars, comVars, ComTypeOK, Pc
<1>4. thread' = thread /\ LocalStep(u)
  BY <1>0, <1>1, <1>2 DEF WindowRefused, Goto, mapVars, comVars, LocalStep, ComTypeOK
<1>5. PlaceInv(u)' /\ EntryInv(u)'
  BY <1>0, <1>1, <1>2 DEF WindowRefused, Goto, mapVars, comVars, ComTypeOK, UserInv, PlaceInv,
       EntryInv
<1>6. count'[thread[u]] = hosted'[thread[u]] + One(Owes(u)')
  BY <1>0, <1>1, <1>2 DEF WindowRefused, Goto, mapVars, comVars, ComTypeOK, UserInv, PlaceInv,
       Owes, One
<1>7. ASSUME NEW t \in Threads, t \in {thread[u], thread'[u]} PROVE OneThreadInv(t)'
  BY <1>0, <1>7, <1>1, <1>2 DEF WindowRefused, Goto, mapVars, comVars, ComTypeOK, OneThreadInv,
       Idle
<1> QED BY <1>3, <1>4, <1>5, <1>6, <1>7 DEF Kept, UserInv

\* only its place changes
LEMMA CreatesWindowKeeps == ASSUME ComInv, NEW u \in Users, CreatesWindow(u) PROVE Kept(u)
<1>1. thread[u] \in Threads /\ thread[u] # NoThread
  BY OnThread DEF CreatesWindow
<1>2. ComTypeOK /\ UserInv(u) /\ OneThreadInv(thread[u]) /\ PackageOf(u) \in Packages
  BY <1>1, PackageOfUser DEF ComInv
<1>0. u \notin MapUsers
  BY <1>2 DEF CreatesWindow, UserInv, PlaceInv
<1>3. ComTypeOK'
  BY <1>0, <1>1, <1>2 DEF CreatesWindow, Goto, mapVars, comVars, ComTypeOK, Pc
<1>4. thread' = thread /\ LocalStep(u)
  BY <1>0, <1>1, <1>2 DEF CreatesWindow, Goto, mapVars, comVars, LocalStep, ComTypeOK
<1>5. PlaceInv(u)' /\ EntryInv(u)'
  BY <1>0, <1>1, <1>2 DEF CreatesWindow, Goto, mapVars, comVars, ComTypeOK, UserInv, PlaceInv,
       EntryInv
<1>6. count'[thread[u]] = hosted'[thread[u]] + One(Owes(u)')
  BY <1>0, <1>1, <1>2 DEF CreatesWindow, Goto, mapVars, comVars, ComTypeOK, UserInv, PlaceInv,
       Owes, One
<1>7. ASSUME NEW t \in Threads, t \in {thread[u], thread'[u]} PROVE OneThreadInv(t)'
  BY <1>0, <1>7, <1>1, <1>2 DEF CreatesWindow, Goto, mapVars, comVars, ComTypeOK, OneThreadInv,
       Idle
<1> QED BY <1>3, <1>4, <1>5, <1>6, <1>7 DEF Kept, UserInv

\* only its place changes
LEMMA LeavesWindowKeeps == ASSUME ComInv, NEW u \in Users, LeavesWindow(u) PROVE Kept(u)
<1>1. thread[u] \in Threads /\ thread[u] # NoThread
  BY OnThread DEF LeavesWindow
<1>2. ComTypeOK /\ UserInv(u) /\ OneThreadInv(thread[u]) /\ PackageOf(u) \in Packages
  BY <1>1, PackageOfUser DEF ComInv
<1>0. u \notin MapUsers
  BY UsersAssumption DEF LeavesWindow
<1>3. ComTypeOK'
  BY <1>0, <1>1, <1>2 DEF LeavesWindow, Goto, mapVars, comVars, ComTypeOK, Pc, Apartments
<1>4. thread' = thread /\ LocalStep(u)
  BY <1>0, <1>1, <1>2 DEF LeavesWindow, Goto, mapVars, comVars, LocalStep, ComTypeOK
<1>5. PlaceInv(u)' /\ EntryInv(u)'
  BY <1>0, <1>1, <1>2 DEF LeavesWindow, Goto, mapVars, comVars, ComTypeOK, UserInv, PlaceInv,
       EntryInv
<1>6. count'[thread[u]] = hosted'[thread[u]] + One(Owes(u)')
  BY <1>0, <1>1, <1>2 DEF LeavesWindow, Goto, mapVars, comVars, ComTypeOK, UserInv, PlaceInv,
       Owes, One
<1>7. ASSUME NEW t \in Threads, t \in {thread[u], thread'[u]} PROVE OneThreadInv(t)'
  BY <1>0, <1>7, <1>1, <1>2 DEF LeavesWindow, Goto, mapVars, comVars, ComTypeOK, OneThreadInv,
       Idle
<1> QED BY <1>3, <1>4, <1>5, <1>6, <1>7 DEF Kept, UserInv

\* an STA, and the second lock
LEMMA InitSTAKeeps == ASSUME ComInv, NEW u \in Users, InitSTA(u) PROVE Kept(u)
<1>1. thread[u] \in Threads /\ thread[u] # NoThread
  BY OnThread DEF InitSTA
<1>2. ComTypeOK /\ UserInv(u) /\ OneThreadInv(thread[u]) /\ PackageOf(u) \in Packages
  BY <1>1, PackageOfUser DEF ComInv
<1>0. u \notin MapUsers
  BY UsersAssumption DEF InitSTA
<1>3. ComTypeOK'
  BY <1>0, <1>1, <1>2 DEF InitSTA, Goto, Enters, mapVars, ComTypeOK, Pc, Debts, Apartments,
       UserInv, PlaceInv
<1>4. thread' = thread /\ LocalStep(u)
  BY <1>0, <1>1, <1>2 DEF InitSTA, Goto, Enters, mapVars, LocalStep, ComTypeOK
<1>5. PlaceInv(u)' /\ EntryInv(u)'
  BY <1>0, <1>1, <1>2 DEF InitSTA, Goto, Enters, mapVars, ComTypeOK, UserInv, PlaceInv,
       EntryInv
<1>6. count'[thread[u]] = hosted'[thread[u]] + One(Owes(u)')
  BY <1>0, <1>1, <1>2 DEF InitSTA, Goto, Enters, mapVars, ComTypeOK, UserInv, PlaceInv, Owes,
       One
<1>7. ASSUME NEW t \in Threads, t \in {thread[u], thread'[u]} PROVE OneThreadInv(t)'
  BY <1>0, <1>7, <1>1, <1>2 DEF InitSTA, Goto, Enters, mapVars, ComTypeOK, OneThreadInv, Idle
<1> QED BY <1>3, <1>4, <1>5, <1>6, <1>7 DEF Kept, UserInv

\* a failed call leaves nothing
LEMMA InitSTAFailsKeeps == ASSUME ComInv, NEW u \in Users, InitSTAFails(u) PROVE Kept(u)
<1>1. thread[u] \in Threads /\ thread[u] # NoThread
  BY OnThread DEF InitSTAFails
<1>2. ComTypeOK /\ UserInv(u) /\ OneThreadInv(thread[u]) /\ PackageOf(u) \in Packages
  BY <1>1, PackageOfUser DEF ComInv
<1>0. u \notin MapUsers
  BY UsersAssumption DEF InitSTAFails
<1>3. ComTypeOK'
  BY <1>0, <1>1, <1>2 DEF InitSTAFails, Goto, mapVars, comVars, ComTypeOK, Pc
<1>4. thread' = thread /\ LocalStep(u)
  BY <1>0, <1>1, <1>2 DEF InitSTAFails, Goto, mapVars, comVars, LocalStep, ComTypeOK
<1>5. PlaceInv(u)' /\ EntryInv(u)'
  BY <1>0, <1>1, <1>2 DEF InitSTAFails, Goto, mapVars, comVars, ComTypeOK, UserInv, PlaceInv,
       EntryInv
<1>6. count'[thread[u]] = hosted'[thread[u]] + One(Owes(u)')
  BY <1>0, <1>1, <1>2 DEF InitSTAFails, Goto, mapVars, comVars, ComTypeOK, UserInv, PlaceInv,
       Owes, One
<1>7. ASSUME NEW t \in Threads, t \in {thread[u], thread'[u]} PROVE OneThreadInv(t)'
  BY <1>0, <1>7, <1>1, <1>2 DEF InitSTAFails, Goto, mapVars, comVars, ComTypeOK, OneThreadInv,
       Idle
<1> QED BY <1>3, <1>4, <1>5, <1>6, <1>7 DEF Kept, UserInv

\* only its place changes
LEMMA UninitSTAKeeps == ASSUME ComInv, NEW u \in Users, UninitSTA(u) PROVE Kept(u)
<1>1. thread[u] \in Threads /\ thread[u] # NoThread
  BY OnThread DEF UninitSTA
<1>2. ComTypeOK /\ UserInv(u) /\ OneThreadInv(thread[u]) /\ PackageOf(u) \in Packages
  BY <1>1, PackageOfUser DEF ComInv
<1>0. u \notin MapUsers
  BY UsersAssumption DEF UninitSTA
<1>3. ComTypeOK'
  BY <1>0, <1>1, <1>2 DEF UninitSTA, Goto, mapVars, comVars, ComTypeOK, Pc
<1>4. thread' = thread /\ LocalStep(u)
  BY <1>0, <1>1, <1>2 DEF UninitSTA, Goto, mapVars, comVars, LocalStep, ComTypeOK
<1>5. PlaceInv(u)' /\ EntryInv(u)'
  BY <1>0, <1>1, <1>2 DEF UninitSTA, Goto, mapVars, comVars, ComTypeOK, UserInv, PlaceInv,
       EntryInv
<1>6. count'[thread[u]] = hosted'[thread[u]] + One(Owes(u)')
  BY <1>0, <1>1, <1>2 DEF UninitSTA, Goto, mapVars, comVars, ComTypeOK, UserInv, PlaceInv,
       Owes, One
<1>7. ASSUME NEW t \in Threads, t \in {thread[u], thread'[u]} PROVE OneThreadInv(t)'
  BY <1>0, <1>7, <1>1, <1>2 DEF UninitSTA, Goto, mapVars, comVars, ComTypeOK, OneThreadInv, Idle
<1> QED BY <1>3, <1>4, <1>5, <1>6, <1>7 DEF Kept, UserInv

-----------------------------------------------------------------------------
(* The steps that give a goroutine a thread, or take it. *)

\* What is known of an idle thread.
LEMMA IdleThread ==
    ASSUME ComInv, NEW t \in Threads, Idle(t)
    PROVE  /\ count[t] = hosted[t]
           /\ \A p \in Packages : refs[p][t] = 0 /\ entry[p][t] = "nothing"
BY DEF ComInv, OneThreadInv

\* A goroutine that has nothing open leaves its thread as an idle one should be.
LEMMA NothingOpen ==
    ASSUME ComInv, NEW u \in Users, pc[u] \in {"run", "out"}
    PROVE  /\ thread[u] \in Threads /\ thread[u] # NoThread
           /\ count[thread[u]] = hosted[thread[u]]
           /\ \A p \in Packages : refs[p][thread[u]] = 0
           /\ u \notin MapUsers => owed[u] = "nothing"
<1>1. thread[u] \in Threads /\ thread[u] # NoThread
  BY OnThread
<1>2. ComTypeOK /\ UserInv(u) /\ OneThreadInv(thread[u]) /\ PackageOf(u) \in Packages
  BY <1>1, PackageOfUser DEF ComInv
<1>3. \A p \in Packages : refs[p][thread[u]] = 0
  BY <1>1, <1>2 DEF UserInv, EntryInv, ComTypeOK
<1>4. u \notin MapUsers => owed[u] = "nothing"
  BY <1>2 DEF UserInv, PlaceInv
<1>5. count[thread[u]] = hosted[thread[u]]
  BY <1>1, <1>2, <1>3, <1>4 DEF UserInv, OneThreadInv, Owes, One, ComTypeOK
<1> QED BY <1>1, <1>3, <1>4, <1>5

\* it comes to an idle thread, with nothing open
LEMMA GoRunsKeeps ==
    ASSUME ComInv, NEW u \in Users, NEW t \in Threads, GoRuns(u, t)
    PROVE  Kept(u)
<1>1. /\ ComTypeOK /\ UserInv(u) /\ thread[u] = NoThread /\ NoThread # t
      /\ PackageOf(u) \in Packages
  BY ThreadsAssumption, PackageOfUser DEF ComInv, GoRuns, UserInv, PlaceInv
<1>2. ComTypeOK'
  BY <1>1 DEF GoRuns, Goto, ComTypeOK, Pc, mapVars, comVars
<1>3. LocalStep(u)
  BY <1>1 DEF LocalStep, GoRuns, Goto, ComTypeOK, mapVars, comVars
<1>4. UserInv(u)'
  BY <1>1, IdleThread DEF GoRuns, Goto, UserInv, PlaceInv, EntryInv, Owes, One,
                            ComTypeOK, mapVars, comVars
<1>5. ASSUME NEW s \in Threads, s \in {thread[u], thread'[u]} PROVE OneThreadInv(s)'
  <2>1. s = t /\ thread'[u] = t /\ OneThreadInv(t)
    BY <1>1, <1>5, ThreadsAssumption DEF ComInv, GoRuns, ComTypeOK
  <2> QED BY <2>1 DEF GoRuns, OneThreadInv, Idle, mapVars, comVars
<1> QED BY <1>2, <1>3, <1>4, <1>5 DEF Kept

\* it leaves the thread as it was and finds the other like it
LEMMA MigratesKeeps ==
    ASSUME ComInv, NEW u \in Users, NEW t \in Threads, Migrates(u, t)
    PROVE  Kept(u)
<1>1. /\ ComTypeOK /\ UserInv(u) /\ NoThread # t /\ PackageOf(u) \in Packages
      /\ pc[u] = "run" /\ thread[u] \in Threads /\ thread[u] # NoThread
  BY OnThread, ThreadsAssumption, PackageOfUser DEF ComInv, Migrates, UserInv, PlaceInv, ComTypeOK
<1>2. ComTypeOK'
  BY <1>1 DEF Migrates, ComTypeOK, mapVars, comVars
<1>3. LocalStep(u)
  BY <1>1 DEF LocalStep, Migrates, ComTypeOK, mapVars, comVars
<1>4. UserInv(u)'
  BY <1>1, IdleThread DEF Migrates, UserInv, PlaceInv, EntryInv, Owes, One,
                            ComTypeOK, mapVars, comVars
<1>5. ASSUME NEW s \in Threads, s \in {thread[u], thread'[u]} PROVE OneThreadInv(s)'
  <2>1. OneThreadInv(s) /\ count[s] = hosted[s] /\ \A p \in Packages : refs[p][s] = 0
    BY <1>1, <1>5, IdleThread, NothingOpen DEF ComInv, Migrates, ComTypeOK
  <2> QED BY <2>1 DEF Migrates, OneThreadInv, mapVars, comVars
<1> QED BY <1>2, <1>3, <1>4, <1>5 DEF Kept

\* it leaves the thread as it was
LEMMA GoEndsKeeps == ASSUME ComInv, NEW u \in Users, GoEnds(u) PROVE Kept(u)
<1>1. ComTypeOK /\ UserInv(u) /\ pc[u] = "out" /\ thread[u] \in Threads
  BY OnThread DEF ComInv, GoEnds
<1>2. ComTypeOK'
  BY <1>1 DEF GoEnds, Goto, ComTypeOK, Pc, mapVars, comVars
<1>3. LocalStep(u)
  BY <1>1 DEF LocalStep, GoEnds, Goto, ComTypeOK, mapVars, comVars
<1>4. UserInv(u)'
  BY <1>1, NothingOpen DEF GoEnds, Goto, UserInv, PlaceInv, EntryInv, ComTypeOK, mapVars, comVars
<1>5. ASSUME NEW s \in Threads, s \in {thread[u], thread'[u]} PROVE OneThreadInv(s)'
  <2>1. s = thread[u]
    BY <1>1, <1>5, ThreadsAssumption DEF GoEnds, ComTypeOK
  <2>2. OneThreadInv(s) /\ count[s] = hosted[s] /\ \A p \in Packages : refs[p][s] = 0
    BY <1>1, <2>1, NothingOpen DEF ComInv
  <2> QED BY <2>2 DEF GoEnds, OneThreadInv, mapVars, comVars
<1> QED BY <1>2, <1>3, <1>4, <1>5 DEF Kept

\* the thread ends with it: the next of its id starts from nothing
LEMMA GoEndsLockedKeeps == ASSUME ComInv, NEW u \in Users, GoEndsLocked(u) PROVE Kept(u)
<1>1. ComTypeOK /\ UserInv(u) /\ pc[u] = "out" /\ thread[u] \in Threads
  BY OnThread DEF ComInv, GoEndsLocked
<1>2. ComTypeOK'
  BY <1>1 DEF GoEndsLocked, Goto, ComTypeOK, Pc, mapVars
<1>3. LocalStep(u)
  BY <1>1 DEF LocalStep, GoEndsLocked, Goto, ComTypeOK, mapVars
<1>4. UserInv(u)'
  BY <1>1, NothingOpen DEF GoEndsLocked, Goto, UserInv, PlaceInv, EntryInv, ComTypeOK, mapVars
<1>5. ASSUME NEW s \in Threads, s \in {thread[u], thread'[u]} PROVE OneThreadInv(s)'
  <2>1. s = thread[u]
    BY <1>1, <1>5, ThreadsAssumption DEF GoEndsLocked, ComTypeOK
  <2>2. OneThreadInv(s) /\ \A p \in Packages : refs[p][s] = 0
    BY <1>1, <2>1, NothingOpen DEF ComInv
  <2> QED BY <1>1, <2>1, <2>2 DEF GoEndsLocked, OneThreadInv, ComTypeOK, mapVars
<1> QED BY <1>2, <1>3, <1>4, <1>5 DEF Kept

-----------------------------------------------------------------------------
(* Other code, the initial states and the specification. *)

\* Other code touches idle threads only, and counts for itself.
LEMMA HostKeeps ==
    ASSUME ComInv, NEW t \in Threads, HostEnters(t) \/ HostLeaves(t)
    PROVE  ComInv'
<1>1. /\ ComTypeOK /\ Idle(t) /\ OneThreadInv(t)
      /\ UNCHANGED <<pc, thread, locks, tid, owed, refs, entry>>
  BY DEF ComInv, HostEnters, HostLeaves, userVars, mapVars
<1>2. /\ apartment' \in [Threads -> Apartments \cup {"none"}]
      /\ count' \in [Threads -> Nat] /\ hosted' \in [Threads -> 0..1]
      /\ count'[t] = hosted'[t] /\ (apartment'[t] = "none" <=> count'[t] = 0)
      /\ \A s \in Threads : s # t => /\ apartment'[s] = apartment[s]
                                     /\ count'[s] = count[s] /\ hosted'[s] = hosted[s]
  <2>1. CASE HostEnters(t)
    BY <1>1, <2>1 DEF HostEnters, Enters, ComTypeOK, OneThreadInv, Apartments
  <2>2. CASE HostLeaves(t)
    BY <1>1, <2>2 DEF HostLeaves, Leaves, ComTypeOK, OneThreadInv, Apartments
  <2> QED BY <2>1, <2>2
<1>3. ComTypeOK'
  BY <1>1, <1>2 DEF ComTypeOK
<1>4. ASSUME NEW v \in Users PROVE UserInv(v)'
  <2>1. UserInv(v) /\ (pc[v] # "off" => thread[v] \in Threads /\ thread[v] # t)
    BY <1>1, OnThread DEF ComInv, Idle
  <2>2. Owes(v)' = Owes(v)
    BY <1>1 DEF Owes
  <2> QED BY <1>1, <1>2, <2>1, <2>2 DEF UserInv, PlaceInv, EntryInv
<1>5. ASSUME NEW s \in Threads PROVE OneThreadInv(s)'
  <2>1. OneThreadInv(s) /\ (Idle(s)' <=> Idle(s))
    BY <1>1 DEF ComInv, Idle
  <2> QED BY <1>1, <1>2, <2>1 DEF OneThreadInv
<1> QED BY <1>1, <1>3, <1>4, <1>5 DEF ComInv, Alone

LEMMA InitComInv == ComInit => ComInv
BY DEF ComInit, ComInv, ComTypeOK, Alone, UserInv, PlaceInv, EntryInv,
       OneThreadInv, Idle, Debts, Pc, Apartments, Packages

\* Every step keeps the invariant.
LEMMA ComInductive == ComInv /\ [ComNext]_allVars => ComInv'
<1> SUFFICES ASSUME ComInv, [ComNext]_allVars PROVE ComInv'
  OBVIOUS
<1>1. ASSUME NEW u \in Users, Step(u) PROVE ComInv'
  <2>1. CASE \E t \in Threads : GoRuns(u, t) \/ Migrates(u, t)
    BY <2>1, GoRunsKeeps, MigratesKeeps, Frame
  <2>2. CASE LockOSThread(u) \/ GoEnds(u) \/ GoEndsLocked(u)
    BY <2>2, LockOSThreadKeeps, GoEndsKeeps, GoEndsLockedKeeps, Frame
  <2>3. CASE LooksUp(u) \/ CoInitializes(u) \/ CoInitializeFails(u)
    BY <2>3, LooksUpKeeps, CoInitializesKeeps, CoInitializeFailsKeeps, Frame
  <2>4. CASE RoInitializes(u) \/ RoInitializeFails(u) \/ Stores(u)
    BY <2>4, RoInitializesKeeps, RoInitializeFailsKeeps, StoresKeeps, Frame
  <2>5. CASE InitsAgain(u) \/ Uninits(u) \/ Undoes(u)
    BY <2>5, InitsAgainKeeps, UninitsKeeps, UndoesKeeps, Frame
  <2>6. CASE EntersWindow(u) \/ WindowRefused(u) \/ CreatesWindow(u) \/ LeavesWindow(u)
    BY <2>6, EntersWindowKeeps, WindowRefusedKeeps, CreatesWindowKeeps, LeavesWindowKeeps, Frame
  <2>7. CASE InitSTA(u) \/ InitSTAFails(u) \/ UninitSTA(u)
    BY <2>7, InitSTAKeeps, InitSTAFailsKeeps, UninitSTAKeeps, Frame
  <2> QED BY <1>1, <2>1, <2>2, <2>3, <2>4, <2>5, <2>6, <2>7 DEF Step
<1>2. CASE UNCHANGED allVars
  BY <1>2 DEF allVars, userVars, mapVars, comVars, ComInv, ComTypeOK, Alone, UserInv, PlaceInv,
              EntryInv, Owes, OneThreadInv, Idle
<1> QED BY <1>1, <1>2, HostKeeps DEF ComNext

LEMMA InvariantHolds == ComSpec => []ComInv
<1> QED BY InitComInv, ComInductive, PTL DEF ComSpec

-----------------------------------------------------------------------------
(* init.go:32-93, com.go:45-96, window.go:85-133.  Whatever the numbers of   *)
(* threads and of goroutines, and however deep the calls nest: a thread goes *)
(* back to the pool with no entry in a map and no initialization left over.  *)
THEOREM ThreadsReturnClean == ComSpec => []ThreadsGoBackClean
<1>1. ComInv => ThreadsGoBackClean
  BY DEF ComInv, ThreadsGoBackClean, OneThreadInv, ComTypeOK
<1> QED BY <1>1, InvariantHolds, PTL

(* apartment.go:47-68, capture.go:177-198, window.go:85-133.  Between its    *)
(* Init and its Uninit a goroutine is in an apartment, and a window in an    *)
(* STA.                                                                      *)
THEOREM UsersInApartment == ComSpec => []InApartment
<1>1. ComInv => InApartment
  BY DEF ComInv, InApartment, UserInv, PlaceInv, EntryInv
<1> QED BY <1>1, InvariantHolds, PTL
=============================================================================
