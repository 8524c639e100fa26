--------------------------- MODULE SerialExecutor ---------------------------
(***************************************************************************)
(* What a caller of winrt.MTAWorker may rely on: submitted jobs are run    *)
(* one at a time, each at most once, and every call is answered either     *)
(* with what its job returned or with a refusal, in which case the job     *)
(* never ran and never will.  Once stopped, nothing runs.                  *)
(***************************************************************************)
CONSTANTS Jobs,      \* the jobs, one per call
          Outcomes   \* what a job may return

Refused == "refused" \* the answer that stands for ErrApartmentClosed
Nothing == "nothing" \* no answer yet

VARIABLES status,    \* Jobs -> new, submitted, running, done or answered
          outcome,   \* Jobs -> what the job returned, once it has
          answer,    \* Jobs -> what the call returned, once it has
          stopped    \* no job will run any more

vars == <<status, outcome, answer, stopped>>

Status == {"new", "submitted", "running", "done", "answered"}

TypeOK == /\ status \in [Jobs -> Status]
          /\ outcome \in [Jobs -> Outcomes \cup {Nothing}]
          /\ answer \in [Jobs -> Outcomes \cup {Nothing, Refused}]
          /\ stopped \in BOOLEAN

Init == /\ status = [j \in Jobs |-> "new"]
        /\ outcome = [j \in Jobs |-> Nothing]
        /\ answer = [j \in Jobs |-> Nothing]
        /\ stopped = FALSE

Idle == \A j \in Jobs : status[j] # "running"

Submit(j) == /\ status[j] = "new"
             /\ status' = [status EXCEPT ![j] = "submitted"]
             /\ UNCHANGED <<outcome, answer, stopped>>

Start(j) == /\ status[j] = "submitted"
            /\ Idle
            /\ ~stopped
            /\ status' = [status EXCEPT ![j] = "running"]
            /\ UNCHANGED <<outcome, answer, stopped>>

Finish(j, o) == /\ status[j] = "running"
                /\ status' = [status EXCEPT ![j] = "done"]
                /\ outcome' = [outcome EXCEPT ![j] = o]
                /\ UNCHANGED <<answer, stopped>>

Answer(j) == /\ status[j] = "done"
             /\ status' = [status EXCEPT ![j] = "answered"]
             /\ answer' = [answer EXCEPT ![j] = outcome[j]]
             /\ UNCHANGED <<outcome, stopped>>

Refuse(j) == /\ status[j] = "submitted"
             /\ status' = [status EXCEPT ![j] = "answered"]
             /\ answer' = [answer EXCEPT ![j] = Refused]
             /\ UNCHANGED <<outcome, stopped>>

Stop == /\ ~stopped
        /\ Idle
        /\ stopped' = TRUE
        /\ UNCHANGED <<status, outcome, answer>>

Next == \/ \E j \in Jobs : \/ Submit(j)
                           \/ Start(j)
                           \/ \E o \in Outcomes : Finish(j, o)
                           \/ Answer(j)
                           \/ Refuse(j)
        \/ Stop

Spec == Init /\ [][Next]_vars

(* A call that was submitted is answered in the end. *)
EveryCallAnswered ==
    \A j \in Jobs : status[j] = "submitted" ~> status[j] = "answered"
=============================================================================
