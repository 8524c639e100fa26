--------------------------- MODULE AsyncWait_proofs ---------------------------
EXTENDS AsyncWait, FiniteSetTheorems, TLAPS

\* no handler yet, or none given to the operation: nobody can have called it
BeforePut == wait \in {"start", "putting"} =>
    /\ ~installed
    /\ invoke = [i \in Invokes |-> "idle"]
    /\ timer = "off"
    /\ ch = NoStatus /\ received = NoStatus

\* what the outcome says of the place
OutcomePlace == /\ wait = "start" => ~freed
                /\ outcome # "none" => wait \in {"closing", "releasing", "returned"}
                /\ outcome = "noHandler" => wait # "closing" /\ refs = 0

\* every status on its way is the operation's, and an operation has but one
StatusInv == /\ status = "started" => /\ invoke = [i \in Invokes |-> "idle"]
                                      /\ ch = NoStatus /\ received = NoStatus
             /\ ch # NoStatus => ch = status
             /\ received # NoStatus => received = status
             /\ wait = "clearing" /\ received = NoStatus => timer = "fired"
             /\ wait = "getting" => received = "completed"

IInv == RefsAccounted /\ OutcomeIsTrue /\ BeforePut /\ OutcomePlace /\ StatusInv

One(b) == IF b THEN 1 ELSE 0

-----------------------------------------------------------------------------
(* Counting. *)

\* There are finitely many calls.
LEMMA Counts == ASSUME ConstantsOK
                PROVE  /\ IsFiniteSet(Calling) /\ Cardinality(Calling) \in Nat
                       /\ IsFiniteSet(InHandler) /\ Cardinality(InHandler) \in Nat
<1>1. Calling \in SUBSET Invokes /\ InHandler \in SUBSET Invokes
  BY DEF Calling, InHandler
<1>2. IsFiniteSet(Calling) /\ IsFiniteSet(InHandler)
  BY <1>1, FS_Subset DEF ConstantsOK
<1> QED BY <1>2, FS_CardinalityType

\* A call of Invoke that moves on counts where it comes to and no more where it was.
LEMMA CallMoves ==
    ASSUME ConstantsOK, TypeOK, NEW i \in Invokes, NEW pc \in InvokePc, GotoInvoke(i, pc)
    PROVE  /\ Cardinality(Calling') = Cardinality(Calling) - One(i \in Calling)
                                        + One(pc \notin {"idle", "over"})
           /\ Cardinality(InHandler') = Cardinality(InHandler) - One(i \in InHandler)
                                          + One(pc \in {"entered", "sent"})
<1>1. \A j \in Invokes : invoke'[j] = IF j = i THEN pc ELSE invoke[j]
  BY DEF GotoInvoke, TypeOK
<1>2. Calling' = IF pc \notin {"idle", "over"} THEN (Calling \ {i}) \cup {i} ELSE Calling \ {i}
  BY <1>1 DEF Calling
<1>3. InHandler' = IF pc \in {"entered", "sent"} THEN (InHandler \ {i}) \cup {i}
                                                ELSE InHandler \ {i}
  BY <1>1 DEF InHandler
<1>4. \A S : IsFiniteSet(S) => /\ IsFiniteSet(S \ {i})
                               /\ Cardinality(S \ {i}) = Cardinality(S) - One(i \in S)
                               /\ Cardinality((S \ {i}) \cup {i}) = Cardinality(S \ {i}) + 1
  <2> SUFFICES ASSUME NEW S, IsFiniteSet(S)
               PROVE  /\ IsFiniteSet(S \ {i})
                      /\ Cardinality(S \ {i}) = Cardinality(S) - One(i \in S)
                      /\ Cardinality((S \ {i}) \cup {i}) = Cardinality(S \ {i}) + 1
    OBVIOUS
  <2>1. /\ IsFiniteSet(S \ {i}) /\ Cardinality(S) \in Nat
        /\ Cardinality(S \ {i}) = IF i \in S THEN Cardinality(S) - 1 ELSE Cardinality(S)
    BY FS_RemoveElement, FS_CardinalityType
  <2>2. i \notin S \ {i}
    OBVIOUS
  <2>3. Cardinality((S \ {i}) \cup {i}) = Cardinality(S \ {i}) + 1
    BY <2>1, <2>2, FS_AddElement
  <2> QED BY <2>1, <2>3 DEF One
<1>5. /\ Cardinality(Calling) - One(i \in Calling) \in Int
      /\ Cardinality(InHandler) - One(i \in InHandler) \in Int
  BY Counts DEF One
<1>6. Cardinality(Calling') = Cardinality(Calling) - One(i \in Calling)
                                + One(pc \notin {"idle", "over"})
  BY <1>2, <1>4, <1>5, Counts DEF One
<1>7. Cardinality(InHandler') = Cardinality(InHandler) - One(i \in InHandler)
                                  + One(pc \in {"entered", "sent"})
  BY <1>3, <1>4, <1>5, Counts DEF One
<1> QED BY <1>6, <1>7

\* A handler that is called is alive.
LEMMA CalledIsAlive ==
    ASSUME ConstantsOK, IInv
    PROVE  /\ refs \in Nat /\ freed \in BOOLEAN
           /\ OwnRef = 1 \/ installed \/ Calling # {} => refs >= 1 /\ ~freed
           /\ InHandler # {} => refs >= 2
<1>1. /\ refs = OwnRef + One(installed) + Cardinality(Calling) + Cardinality(InHandler)
      /\ OwnRef \in {0, 1} /\ refs \in Nat /\ freed \in BOOLEAN
  BY DEF IInv, RefsAccounted, TypeOK, OwnRef, One
<1>2. /\ Calling # {} => Cardinality(Calling) >= 1
      /\ InHandler # {} => Cardinality(InHandler) >= 1
  BY Counts, FS_EmptySet
<1>3. InHandler \subseteq Calling
  BY DEF InHandler, Calling
<1>4. OwnRef = 1 \/ installed \/ Calling # {} => refs >= 1
  BY <1>1, <1>2, Counts DEF One
<1>5. InHandler # {} => refs >= 2
  BY <1>1, <1>2, <1>3, Counts DEF One
<1>6. OwnRef = 1 \/ installed \/ Calling # {} => wait # "start"
  BY DEF OwnRef, IInv, BeforePut, Calling
<1>7. OwnRef = 1 \/ installed \/ Calling # {} => ~freed
  BY <1>1, <1>4, <1>6 DEF IInv, RefsAccounted
<1> QED BY <1>1, <1>4, <1>5, <1>7

-----------------------------------------------------------------------------
(* The steps. *)

Count == refs = OwnRef + One(installed) + Cardinality(Calling) + Cardinality(InHandler)
FreedAtZero == wait # "start" => (freed <=> refs = 0 /\ outcome # "noHandler")

LEMMA InitIInv == ConstantsOK /\ Init => IInv
<1> SUFFICES ASSUME ConstantsOK, Init PROVE IInv
  OBVIOUS
<1>1. Calling = {} /\ InHandler = {}
  BY DEF Init, Calling, InHandler
<1>2. Cardinality(Calling) = 0 /\ Cardinality(InHandler) = 0
  BY <1>1, FS_EmptySet
<1>3. TypeOK
  BY DEF Init, TypeOK, Final, WaitPc, Outcome, InvokePc
<1>4. RefsAccounted
  BY <1>2, <1>3 DEF Init, RefsAccounted, OwnRef
<1>5. OutcomeIsTrue /\ BeforePut /\ OutcomePlace /\ StatusInv
  BY DEF Init, OutcomeIsTrue, BeforePut, OutcomePlace, StatusInv
<1> QED BY <1>4, <1>5 DEF IInv

\* What every step may use.
LEMMA Parts ==
    ASSUME ConstantsOK, IInv
    PROVE  /\ TypeOK /\ Count /\ FreedAtZero /\ OutcomeIsTrue
           /\ BeforePut /\ OutcomePlace /\ StatusInv
           /\ refs \in Nat /\ Cardinality(Calling) \in Nat /\ Cardinality(InHandler) \in Nat
BY CalledIsAlive, Counts DEF IInv, RefsAccounted, Count, One, FreedAtZero

\* Nobody has called a handler that the operation has not got.
LEMMA NobodyCalls ==
    ASSUME IInv, wait \in {"start", "putting"}
    PROVE  Cardinality(Calling) = 0 /\ Cardinality(InHandler) = 0
<1>1. Calling = {} /\ InHandler = {}
  BY DEF IInv, BeforePut, Calling, InHandler
<1> QED BY <1>1, FS_EmptySet

\* What a Release does to a handler that is alive.
LEMMA Releases ==
    ASSUME ConstantsOK, IInv, OwnRef = 1 \/ installed \/ Calling # {}, Release
    PROVE  refs' = refs - 1 /\ refs' \in Nat /\ freed' \in BOOLEAN /\ (freed' <=> refs' = 0)
<1>1. refs \in Nat /\ freed \in BOOLEAN /\ refs >= 1 /\ ~freed
  BY CalledIsAlive
<1>2. refs' = refs - 1 /\ freed' = (freed \/ refs = 1)
  BY DEF Release
<1>3. refs' \in Nat /\ (refs = 1 <=> refs' = 0)
  <2>1. refs' = refs - 1 /\ refs \in Nat /\ refs >= 1
    BY <1>1, <1>2
  <2> QED BY <2>1, SMT
<1>4. freed' = (refs = 1)
  BY <1>1, <1>2, Zenon
<1>5. freed' \in BOOLEAN /\ (freed' <=> refs = 1)
  BY <1>4, Zenon
<1> QED BY <1>2, <1>3, <1>5, Zenon

\* What every step has to show.
LEMMA Whole ==
    ASSUME TypeOK', Count', FreedAtZero', OutcomeIsTrue', BeforePut', OutcomePlace', StatusInv'
    PROVE  IInv'
BY DEF IInv, RefsAccounted, Count, One, FreedAtZero

\* A step of the waiter or of the timer calls and ends no Invoke.
LEMMA WaiterCallsNobody ==
    ASSUME UNCHANGED invoke PROVE Calling' = Calling /\ InHandler' = InHandler
BY DEF Calling, InHandler

\* the waiter has the only reference
LEMMA NewHandlerKeeps == ASSUME ConstantsOK, IInv, NewHandler PROVE IInv'
<1>1. UNCHANGED invoke /\ Calling' = Calling /\ InHandler' = InHandler
  BY WaiterCallsNobody DEF NewHandler
<1>2. TypeOK'
  BY Parts, CalledIsAlive
  DEF NewHandler, TypeOK, WaitPc, Outcome, Final, OwnRef, objectVars, opVars
<1>3. Count'
  BY <1>1, Parts, NobodyCalls
  DEF NewHandler, Count, OwnRef, One, TypeOK, BeforePut, objectVars, opVars
<1>4. FreedAtZero'
  BY Parts, CalledIsAlive
  DEF NewHandler, FreedAtZero, OutcomePlace, TypeOK, OwnRef, objectVars, opVars
<1>5. OutcomeIsTrue'
  BY <1>1, Parts
  DEF NewHandler, OutcomeIsTrue, OutcomePlace, StatusInv, BeforePut, Final, TypeOK,
      ConstantsOK, opVars
<1>6. BeforePut' /\ OutcomePlace'
  BY <1>1, Parts, CalledIsAlive, NobodyCalls
  DEF NewHandler, Count, One, BeforePut, OutcomePlace, FreedAtZero, OwnRef, Final, TypeOK,
      objectVars, opVars
<1>7. StatusInv'
  BY <1>1, Parts DEF NewHandler, StatusInv, BeforePut, ConstantsOK, opVars
<1> QED BY <1>2, <1>3, <1>4, <1>5, <1>6, <1>7, Whole

\* there is no handler
LEMMA NewHandlerFailsKeeps == ASSUME ConstantsOK, IInv, NewHandlerFails PROVE IInv'
<1>1. UNCHANGED invoke /\ Calling' = Calling /\ InHandler' = InHandler
  BY WaiterCallsNobody DEF NewHandlerFails
<1>2. TypeOK'
  BY Parts, CalledIsAlive
  DEF NewHandlerFails, TypeOK, WaitPc, Outcome, Final, OwnRef, objectVars, opVars
<1>3. Count'
  BY <1>1, Parts, NobodyCalls
  DEF NewHandlerFails, Count, OwnRef, One, TypeOK, BeforePut, objectVars, opVars
<1>4. FreedAtZero'
  BY Parts, CalledIsAlive
  DEF NewHandlerFails, FreedAtZero, OutcomePlace, TypeOK, OwnRef, objectVars, opVars
<1>5. OutcomeIsTrue'
  BY <1>1, Parts
  DEF NewHandlerFails, OutcomeIsTrue, OutcomePlace, StatusInv, BeforePut, Final, TypeOK,
      ConstantsOK, opVars
<1>6. BeforePut' /\ OutcomePlace'
  BY <1>1, Parts, CalledIsAlive, NobodyCalls
  DEF NewHandlerFails, Count, One, BeforePut, OutcomePlace, FreedAtZero, OwnRef, Final,
      TypeOK, objectVars, opVars
<1>7. StatusInv'
  BY <1>1, Parts DEF NewHandlerFails, StatusInv, BeforePut, ConstantsOK, opVars
<1> QED BY <1>2, <1>3, <1>4, <1>5, <1>6, <1>7, Whole

\* the operation has one more
LEMMA PutCompletedKeeps == ASSUME ConstantsOK, IInv, PutCompleted PROVE IInv'
<1>1. UNCHANGED invoke /\ Calling' = Calling /\ InHandler' = InHandler
  BY WaiterCallsNobody DEF PutCompleted
<1>2. TypeOK'
  BY Parts, CalledIsAlive
  DEF PutCompleted, AddRef, TypeOK, WaitPc, Outcome, Final, OwnRef, objectVars, opVars
<1>3. Count'
  BY <1>1, Parts, NobodyCalls
  DEF PutCompleted, AddRef, Count, OwnRef, One, TypeOK, BeforePut, objectVars, opVars
<1>4. FreedAtZero'
  BY Parts, CalledIsAlive
  DEF PutCompleted, AddRef, FreedAtZero, OutcomePlace, TypeOK, OwnRef, objectVars, opVars
<1>5. OutcomeIsTrue'
  BY <1>1, Parts
  DEF PutCompleted, AddRef, OutcomeIsTrue, OutcomePlace, StatusInv, BeforePut, Final,
      TypeOK, ConstantsOK, opVars
<1>6. BeforePut' /\ OutcomePlace'
  BY <1>1, Parts, CalledIsAlive, NobodyCalls
  DEF PutCompleted, AddRef, Count, One, BeforePut, OutcomePlace, FreedAtZero, OwnRef,
      Final, TypeOK, objectVars, opVars
<1>7. StatusInv'
  BY <1>1, Parts DEF PutCompleted, AddRef, StatusInv, BeforePut, ConstantsOK, opVars
<1> QED BY <1>2, <1>3, <1>4, <1>5, <1>6, <1>7, Whole

\* the waiter still has the only one
LEMMA PutCompletedFailsKeeps == ASSUME ConstantsOK, IInv, PutCompletedFails PROVE IInv'
<1>1. UNCHANGED invoke /\ Calling' = Calling /\ InHandler' = InHandler
  BY WaiterCallsNobody DEF PutCompletedFails
<1>2. TypeOK'
  BY Parts, CalledIsAlive
  DEF PutCompletedFails, TypeOK, WaitPc, Outcome, Final, OwnRef, objectVars, opVars
<1>3. Count'
  BY <1>1, Parts, NobodyCalls
  DEF PutCompletedFails, Count, OwnRef, One, TypeOK, BeforePut, objectVars, opVars
<1>4. FreedAtZero'
  BY Parts, CalledIsAlive
  DEF PutCompletedFails, FreedAtZero, OutcomePlace, TypeOK, OwnRef, objectVars, opVars
<1>5. OutcomeIsTrue'
  BY <1>1, Parts
  DEF PutCompletedFails, OutcomeIsTrue, OutcomePlace, StatusInv, BeforePut, Final, TypeOK,
      ConstantsOK, opVars
<1>6. BeforePut' /\ OutcomePlace'
  BY <1>1, Parts, CalledIsAlive, NobodyCalls
  DEF PutCompletedFails, Count, One, BeforePut, OutcomePlace, FreedAtZero, OwnRef, Final,
      TypeOK, objectVars, opVars
<1>7. StatusInv'
  BY <1>1, Parts DEF PutCompletedFails, StatusInv, BeforePut, ConstantsOK, opVars
<1> QED BY <1>2, <1>3, <1>4, <1>5, <1>6, <1>7, Whole

\* what it receives is the status of the operation
LEMMA ReceiveStatusKeeps == ASSUME ConstantsOK, IInv, ReceiveStatus PROVE IInv'
<1>1. UNCHANGED invoke /\ Calling' = Calling /\ InHandler' = InHandler
  BY WaiterCallsNobody DEF ReceiveStatus
<1>2. TypeOK'
  BY Parts, CalledIsAlive
  DEF ReceiveStatus, TypeOK, WaitPc, Outcome, Final, OwnRef, objectVars, opVars
<1>3. Count'
  BY <1>1, Parts, NobodyCalls
  DEF ReceiveStatus, Count, OwnRef, One, TypeOK, BeforePut, objectVars, opVars
<1>4. FreedAtZero'
  BY Parts, CalledIsAlive
  DEF ReceiveStatus, FreedAtZero, OutcomePlace, TypeOK, OwnRef, objectVars, opVars
<1>5. OutcomeIsTrue'
  BY <1>1, Parts
  DEF ReceiveStatus, OutcomeIsTrue, OutcomePlace, StatusInv, BeforePut, Final, TypeOK,
      ConstantsOK, opVars
<1>6. BeforePut' /\ OutcomePlace'
  BY <1>1, Parts, CalledIsAlive, NobodyCalls
  DEF ReceiveStatus, Count, One, BeforePut, OutcomePlace, FreedAtZero, OwnRef, Final,
      TypeOK, objectVars, opVars
<1>7. StatusInv'
  BY <1>1, Parts DEF ReceiveStatus, StatusInv, BeforePut, ConstantsOK, opVars
<1> QED BY <1>2, <1>3, <1>4, <1>5, <1>6, <1>7, Whole

\* the timer
LEMMA TimerFiresKeeps == ASSUME ConstantsOK, IInv, TimerFires PROVE IInv'
<1>1. UNCHANGED invoke /\ Calling' = Calling /\ InHandler' = InHandler
  BY WaiterCallsNobody DEF TimerFires
<1>2. TypeOK'
  BY Parts, CalledIsAlive
  DEF TimerFires, TypeOK, WaitPc, Outcome, Final, OwnRef, objectVars, opVars
<1>3. Count'
  BY <1>1, Parts, NobodyCalls
  DEF TimerFires, Count, OwnRef, One, TypeOK, BeforePut, objectVars, opVars
<1>4. FreedAtZero'
  BY Parts, CalledIsAlive
  DEF TimerFires, FreedAtZero, OutcomePlace, TypeOK, OwnRef, objectVars, opVars
<1>5. OutcomeIsTrue'
  BY <1>1, Parts
  DEF TimerFires, OutcomeIsTrue, OutcomePlace, StatusInv, BeforePut, Final, TypeOK,
      ConstantsOK, opVars
<1>6. BeforePut' /\ OutcomePlace'
  BY <1>1, Parts, CalledIsAlive, NobodyCalls
  DEF TimerFires, Count, One, BeforePut, OutcomePlace, FreedAtZero, OwnRef, Final, TypeOK,
      objectVars, opVars
<1>7. StatusInv'
  BY <1>1, Parts DEF TimerFires, StatusInv, BeforePut, ConstantsOK, opVars
<1> QED BY <1>2, <1>3, <1>4, <1>5, <1>6, <1>7, Whole

\* nothing was received, because the timer fired
LEMMA TimeOutKeeps == ASSUME ConstantsOK, IInv, TimeOut PROVE IInv'
<1>1. UNCHANGED invoke /\ Calling' = Calling /\ InHandler' = InHandler
  BY WaiterCallsNobody DEF TimeOut
<1>2. TypeOK'
  BY Parts, CalledIsAlive
  DEF TimeOut, TypeOK, WaitPc, Outcome, Final, OwnRef, objectVars, opVars
<1>3. Count'
  BY <1>1, Parts, NobodyCalls
  DEF TimeOut, Count, OwnRef, One, TypeOK, BeforePut, objectVars, opVars
<1>4. FreedAtZero'
  BY Parts, CalledIsAlive
  DEF TimeOut, FreedAtZero, OutcomePlace, TypeOK, OwnRef, objectVars, opVars
<1>5. OutcomeIsTrue'
  BY <1>1, Parts
  DEF TimeOut, OutcomeIsTrue, OutcomePlace, StatusInv, BeforePut, Final, TypeOK,
      ConstantsOK, opVars
<1>6. BeforePut' /\ OutcomePlace'
  BY <1>1, Parts, CalledIsAlive, NobodyCalls
  DEF TimeOut, Count, One, BeforePut, OutcomePlace, FreedAtZero, OwnRef, Final, TypeOK,
      objectVars, opVars
<1>7. StatusInv'
  BY <1>1, Parts DEF TimeOut, StatusInv, BeforePut, ConstantsOK, opVars
<1> QED BY <1>2, <1>3, <1>4, <1>5, <1>6, <1>7, Whole

\* only after it was completed
LEMMA GetResultsKeeps == ASSUME ConstantsOK, IInv, GetResults PROVE IInv'
<1>1. UNCHANGED invoke /\ Calling' = Calling /\ InHandler' = InHandler
  BY WaiterCallsNobody DEF GetResults
<1>2. TypeOK'
  BY Parts, CalledIsAlive
  DEF GetResults, TypeOK, WaitPc, Outcome, Final, OwnRef, objectVars, opVars
<1>3. Count'
  BY <1>1, Parts, NobodyCalls
  DEF GetResults, Count, OwnRef, One, TypeOK, BeforePut, objectVars, opVars
<1>4. FreedAtZero'
  BY Parts, CalledIsAlive
  DEF GetResults, FreedAtZero, OutcomePlace, TypeOK, OwnRef, objectVars, opVars
<1>5. OutcomeIsTrue'
  BY <1>1, Parts
  DEF GetResults, OutcomeIsTrue, OutcomePlace, StatusInv, BeforePut, Final, TypeOK,
      ConstantsOK, opVars
<1>6. BeforePut' /\ OutcomePlace'
  BY <1>1, Parts, CalledIsAlive, NobodyCalls
  DEF GetResults, Count, One, BeforePut, OutcomePlace, FreedAtZero, OwnRef, Final, TypeOK,
      objectVars, opVars
<1>7. StatusInv'
  BY <1>1, Parts DEF GetResults, StatusInv, BeforePut, ConstantsOK, opVars
<1> QED BY <1>2, <1>3, <1>4, <1>5, <1>6, <1>7, Whole

\* only its place changes
LEMMA ReleaseOpKeeps == ASSUME ConstantsOK, IInv, ReleaseOp PROVE IInv'
<1>1. UNCHANGED invoke /\ Calling' = Calling /\ InHandler' = InHandler
  BY WaiterCallsNobody DEF ReleaseOp
<1>2. TypeOK'
  BY Parts, CalledIsAlive
  DEF ReleaseOp, TypeOK, WaitPc, Outcome, Final, OwnRef, objectVars, opVars
<1>3. Count'
  BY <1>1, Parts, NobodyCalls
  DEF ReleaseOp, Count, OwnRef, One, TypeOK, BeforePut, objectVars, opVars
<1>4. FreedAtZero'
  BY Parts, CalledIsAlive
  DEF ReleaseOp, FreedAtZero, OutcomePlace, TypeOK, OwnRef, objectVars, opVars
<1>5. OutcomeIsTrue'
  BY <1>1, Parts
  DEF ReleaseOp, OutcomeIsTrue, OutcomePlace, StatusInv, BeforePut, Final, TypeOK,
      ConstantsOK, opVars
<1>6. BeforePut' /\ OutcomePlace'
  BY <1>1, Parts, CalledIsAlive, NobodyCalls
  DEF ReleaseOp, Count, One, BeforePut, OutcomePlace, FreedAtZero, OwnRef, Final, TypeOK,
      objectVars, opVars
<1>7. StatusInv'
  BY <1>1, Parts DEF ReleaseOp, StatusInv, BeforePut, ConstantsOK, opVars
<1> QED BY <1>2, <1>3, <1>4, <1>5, <1>6, <1>7, Whole

\* the operation's reference goes, and the switch looks at its status
LEMMA ClearCompletedKeeps ==
    ASSUME ConstantsOK, IInv, NEW ok \in BOOLEAN, ClearCompleted(ok)
    PROVE  IInv'
<1>1. UNCHANGED invoke /\ Calling' = Calling /\ InHandler' = InHandler
  BY WaiterCallsNobody DEF ClearCompleted
<1>2. wait = "clearing" /\ OwnRef = 1 /\ OwnRef' = 1 /\ outcome = "none"
  BY Parts DEF ClearCompleted, OwnRef, OutcomePlace, TypeOK, WaitPc
<1>3. /\ refs' \in Nat /\ freed' \in BOOLEAN /\ (freed' <=> refs' = 0)
      /\ refs' = refs - One(installed) + One(installed') /\ installed' \in BOOLEAN
  <2>1. CASE ok /\ installed
    <3>1. Release /\ installed' = FALSE /\ installed = TRUE
      BY <2>1, Parts DEF ClearCompleted, TypeOK
    <3>2. refs' = refs - 1 /\ refs' \in Nat /\ freed' \in BOOLEAN /\ (freed' <=> refs' = 0)
      BY <2>1, <3>1, Releases
    <3>3. refs \in Nat /\ One(installed) = 1 /\ One(installed') = 0
      BY <3>1, Parts DEF One
    <3>4. refs - 1 = refs - One(installed) + One(installed')
      BY <3>3
    <3> QED BY <3>1, <3>2, <3>4
  <2>2. CASE ~(ok /\ installed)
    BY <1>2, <2>2, Parts, CalledIsAlive DEF ClearCompleted, One, TypeOK, objectVars
  <2> QED BY <2>1, <2>2
<1>4. outcome' \in Outcome /\ outcome' # "noHandler"
      /\ wait' \in {"getting", "closing"} /\ wait' \in WaitPc
      /\ UNCHANGED <<received, timer, ch, invoke, status, opAlive>>
  BY <1>2, Parts DEF ClearCompleted, Outcome, WaitPc, Final, TypeOK
<1>5. TypeOK'
  BY <1>3, <1>4, Parts DEF TypeOK
<1>6. Count' /\ FreedAtZero'
  BY <1>1, <1>2, <1>3, <1>4, Parts DEF Count, FreedAtZero, One, TypeOK
<1>7. OutcomeIsTrue' /\ StatusInv'
  <2>1. CASE received = "completed"
    BY <1>1, <1>2, <2>1, Parts DEF ClearCompleted, OutcomeIsTrue, StatusInv, Final, ConstantsOK
  <2>2. CASE received # "completed"
    BY <1>1, <1>2, <2>2, Parts DEF ClearCompleted, OutcomeIsTrue, StatusInv, Final, TypeOK
  <2> QED BY <2>1, <2>2
<1>8. BeforePut' /\ OutcomePlace'
  BY <1>4, Parts DEF ClearCompleted, BeforePut, OutcomePlace, Final, TypeOK
<1> QED BY <1>5, <1>6, <1>7, <1>8, Whole

\* the waiter's reference goes
LEMMA CloseHandlerKeeps == ASSUME ConstantsOK, IInv, CloseHandler PROVE IInv'
<1>1. UNCHANGED invoke /\ Calling' = Calling /\ InHandler' = InHandler
  BY WaiterCallsNobody DEF CloseHandler
<1>2. wait = "closing" /\ OwnRef = 1 /\ OwnRef' = 0
  BY DEF CloseHandler, OwnRef
<1>3. refs' = refs - 1 /\ refs' \in Nat /\ freed' \in BOOLEAN /\ (freed' <=> refs' = 0)
  BY <1>2, Releases DEF CloseHandler
<1>4. TypeOK'
  BY <1>3, Parts DEF CloseHandler, TypeOK, WaitPc, opVars
<1>5. Count' /\ FreedAtZero'
  BY <1>1, <1>2, <1>3, Parts
  DEF CloseHandler, Count, FreedAtZero, OutcomePlace, One, TypeOK, opVars
<1>6. OutcomeIsTrue' /\ BeforePut' /\ OutcomePlace' /\ StatusInv'
  BY <1>1, <1>2, Parts
  DEF CloseHandler, OutcomeIsTrue, BeforePut, OutcomePlace, StatusInv, opVars
<1> QED BY <1>4, <1>5, <1>6, Whole

-----------------------------------------------------------------------------
(* The steps of the operation. *)

\* it completes, once
LEMMA CompleteKeeps == ASSUME ConstantsOK, IInv, Complete PROVE IInv'
<1>1. UNCHANGED invoke /\ Calling' = Calling /\ InHandler' = InHandler
  BY WaiterCallsNobody DEF Complete
<1>2. UNCHANGED <<wait, outcome, received, timer, ch, refs, freed, installed, opAlive>>
  BY DEF Complete, waitVars, objectVars
<1>3. status = "started" /\ status' \in Final
  BY DEF Complete
<1>4. TypeOK' /\ Count' /\ FreedAtZero' /\ BeforePut' /\ OutcomePlace'
  BY <1>1, <1>2, <1>3, Parts DEF TypeOK, Count, OwnRef, FreedAtZero, BeforePut, OutcomePlace
<1>5. OutcomeIsTrue' /\ StatusInv'
  BY <1>1, <1>2, <1>3, Parts DEF OutcomeIsTrue, StatusInv, Final
<1> QED BY <1>4, <1>5, Whole

\* What the places of a step of Invoke do to the counts and to the rest.
LEMMA InvokeKeeps ==
    ASSUME ConstantsOK, IInv, NEW i \in Invokes, NEW pc \in InvokePc, GotoInvoke(i, pc),
           UNCHANGED <<wait, outcome, received, timer, status, installed, opAlive>>,
           status # "started", wait \notin {"start", "putting"},
           refs' \in Nat, freed' \in BOOLEAN, freed' <=> refs' = 0, outcome # "noHandler",
           refs' - refs = One(pc \notin {"idle", "over"}) - One(i \in Calling)
                          + One(pc \in {"entered", "sent"}) - One(i \in InHandler),
           ch' \in {ch, status}, ch # NoStatus => ch' # NoStatus,
           wait = "selecting" /\ pc \in {"sent", "left", "over"} => ch' # NoStatus
    PROVE  IInv'
<1>1. /\ Cardinality(Calling') = Cardinality(Calling) - One(i \in Calling)
                                   + One(pc \notin {"idle", "over"})
      /\ Cardinality(InHandler') = Cardinality(InHandler) - One(i \in InHandler)
                                     + One(pc \in {"entered", "sent"})
  BY Parts, CallMoves
<1>2. \A j \in Invokes : invoke'[j] = IF j = i THEN pc ELSE invoke[j]
  BY Parts DEF GotoInvoke, TypeOK
<1>3. TypeOK'
  BY Parts DEF TypeOK, GotoInvoke
<1>4. Count'
  <2>1. OwnRef' = OwnRef /\ OwnRef \in Int /\ One(installed)' = One(installed)
    BY DEF OwnRef
  <2>2. /\ One(installed) \in Int /\ One(i \in Calling) \in Int /\ One(i \in InHandler) \in Int
        /\ One(pc \notin {"idle", "over"}) \in Int /\ One(pc \in {"entered", "sent"}) \in Int
    BY DEF One
  <2>3. refs = OwnRef + One(installed) + Cardinality(Calling) + Cardinality(InHandler)
        /\ refs \in Int /\ Cardinality(Calling) \in Int /\ Cardinality(InHandler) \in Int
    BY Parts DEF Count
  <2>4. refs' = OwnRef' + One(installed)' + Cardinality(Calling') + Cardinality(InHandler')
    BY <1>1, <2>1, <2>2, <2>3
  <2> QED BY <2>4 DEF Count
<1>5. FreedAtZero'
  BY DEF FreedAtZero
<1>6. OutcomeIsTrue'
  BY <1>2, Parts DEF OutcomeIsTrue
<1>7. BeforePut' /\ OutcomePlace' /\ StatusInv'
  BY Parts DEF BeforePut, OutcomePlace, StatusInv
<1> QED BY <1>3, <1>4, <1>5, <1>6, <1>7, Whole

\* Who calls or is called has a handler that was put, and an operation that is complete.
LEMMA CallerInv ==
    ASSUME ConstantsOK, IInv, NEW i \in Invokes, invoke[i] # "idle" \/ installed
    PROVE  /\ wait \notin {"start", "putting"}
           /\ invoke[i] \notin {"idle", "over"} \/ installed => outcome # "noHandler"
           /\ invoke[i] # "idle" => status # "started"
<1>1. invoke[i] \notin {"idle", "over"} => i \in Calling
  BY DEF Calling
<1> QED BY <1>1, Parts, CalledIsAlive DEF BeforePut, StatusInv, OutcomePlace

\* the operation counts for its call
LEMMA CallInvokeKeeps ==
    ASSUME ConstantsOK, IInv, NEW i \in Invokes, CallInvoke(i) PROVE IInv'
<1>1. /\ invoke[i] = "idle" /\ status # "started" /\ installed /\ GotoInvoke(i, "called")
      /\ refs' = refs + 1 /\ UNCHANGED <<freed, wait, outcome, received, timer, ch, status,
                                         installed, opAlive>>
  BY DEF CallInvoke, AddRef, waitVars, opVars
<1>2. i \notin Calling /\ i \notin InHandler
  BY <1>1 DEF Calling, InHandler
<1>3. /\ refs' \in Nat /\ freed' \in BOOLEAN /\ (freed' <=> refs' = 0)
      /\ refs' - refs = 1
  BY <1>1, CalledIsAlive
<1>4. "called" \in InvokePc
  BY DEF InvokePc
<1> QED BY <1>1, <1>2, <1>3, <1>4, CallerInv, InvokeKeeps DEF One

\* Invoke counts for itself
LEMMA InvokeEntersKeeps ==
    ASSUME ConstantsOK, IInv, NEW i \in Invokes, InvokeEnters(i) PROVE IInv'
<1>1. /\ invoke[i] = "called" /\ GotoInvoke(i, "entered")
      /\ refs' = refs + 1 /\ UNCHANGED <<freed, wait, outcome, received, timer, ch, status,
                                         installed, opAlive>>
  BY DEF InvokeEnters, AddRef, waitVars, opVars
<1>2. i \in Calling /\ i \notin InHandler
  BY <1>1 DEF Calling, InHandler
<1>3. /\ refs' \in Nat /\ freed' \in BOOLEAN /\ (freed' <=> refs' = 0)
      /\ refs' - refs = 1
  BY <1>1, <1>2, CalledIsAlive
<1>4. "entered" \in InvokePc
  BY DEF InvokePc
<1> QED BY <1>1, <1>2, <1>3, <1>4, CallerInv, InvokeKeeps DEF One

\* the first status stays in the channel
LEMMA InvokeSendsKeeps ==
    ASSUME ConstantsOK, IInv, NEW i \in Invokes, InvokeSends(i) PROVE IInv'
<1>1. /\ invoke[i] = "entered" /\ GotoInvoke(i, "sent")
      /\ ch' = IF ch = NoStatus THEN status ELSE ch
      /\ UNCHANGED <<refs, freed, wait, outcome, received, timer, status, installed, opAlive>>
  BY DEF InvokeSends, waitVars, objectVars, opVars
<1>2. i \in Calling /\ i \in InHandler
  BY <1>1 DEF Calling, InHandler
<1>3. refs' \in Nat /\ freed' \in BOOLEAN /\ (freed' <=> refs' = 0) /\ refs' - refs = 0
  BY <1>1, <1>2, CalledIsAlive
<1>4. "sent" \in InvokePc /\ status # "started" /\ status # NoStatus
  BY <1>1, CallerInv, Parts DEF InvokePc, TypeOK, ConstantsOK
<1>5. ch' \in {ch, status} /\ ch' # NoStatus
  BY <1>1, <1>4
<1> QED BY <1>1, <1>2, <1>3, <1>4, <1>5, CallerInv, InvokeKeeps DEF One

\* Invoke's own reference goes
LEMMA InvokeLeavesKeeps ==
    ASSUME ConstantsOK, IInv, NEW i \in Invokes, InvokeLeaves(i) PROVE IInv'
<1>1. /\ invoke[i] = "sent" /\ GotoInvoke(i, "left") /\ Release
      /\ UNCHANGED <<wait, outcome, received, timer, ch, status, installed, opAlive>>
  BY DEF InvokeLeaves, waitVars, opVars
<1>2. i \in Calling /\ i \in InHandler
  BY <1>1 DEF Calling, InHandler
<1>3. refs' \in Nat /\ freed' \in BOOLEAN /\ (freed' <=> refs' = 0) /\ refs' - refs = -1
  BY <1>1, <1>2, Releases, Parts
<1>4. "left" \in InvokePc
  BY DEF InvokePc
<1>5. wait = "selecting" => ch' # NoStatus
  BY <1>1, Parts DEF OutcomeIsTrue
<1> QED BY <1>1, <1>2, <1>3, <1>4, <1>5, CallerInv, InvokeKeeps DEF One

\* the operation's reference for the call goes
LEMMA InvokeEndsKeeps ==
    ASSUME ConstantsOK, IInv, NEW i \in Invokes, InvokeEnds(i) PROVE IInv'
<1>1. /\ invoke[i] = "left" /\ GotoInvoke(i, "over") /\ Release
      /\ UNCHANGED <<wait, outcome, received, timer, ch, status, installed, opAlive>>
  BY DEF InvokeEnds, waitVars, opVars
<1>2. i \in Calling /\ i \notin InHandler
  BY <1>1 DEF Calling, InHandler
<1>3. refs' \in Nat /\ freed' \in BOOLEAN /\ (freed' <=> refs' = 0) /\ refs' - refs = -1
  BY <1>1, <1>2, Releases, Parts
<1>4. "over" \in InvokePc
  BY DEF InvokePc
<1>5. wait = "selecting" => ch' # NoStatus
  BY <1>1, Parts DEF OutcomeIsTrue
<1> QED BY <1>1, <1>2, <1>3, <1>4, <1>5, CallerInv, InvokeKeeps DEF One

\* the reference of an operation that kept the handler goes with it
LEMMA OpDiesKeeps == ASSUME ConstantsOK, IInv, OpDies PROVE IInv'
<1>1. UNCHANGED invoke /\ Calling' = Calling /\ InHandler' = InHandler
  BY WaiterCallsNobody DEF OpDies
<1>2. /\ wait = "returned" /\ installed' = FALSE /\ opAlive' = FALSE
      /\ UNCHANGED <<wait, outcome, received, timer, ch, status>>
  BY DEF OpDies, waitVars
<1>3. /\ refs' \in Nat /\ freed' \in BOOLEAN /\ refs' = refs - One(installed)
      /\ freed' <=> refs' = 0 /\ outcome # "noHandler"
  <2>1. CASE installed
    <3>1. outcome # "noHandler"
      BY <2>1, Parts, CalledIsAlive DEF OutcomePlace
    <3> QED BY <2>1, <3>1, Releases DEF OpDies, One
  <2>2. CASE ~installed
    BY <1>2, <2>2, Parts DEF OpDies, One, TypeOK, FreedAtZero, objectVars
  <2> QED BY <2>1, <2>2
<1>4. TypeOK'
  BY <1>1, <1>2, <1>3, Parts DEF TypeOK
<1>5. Count' /\ FreedAtZero'
  BY <1>1, <1>2, <1>3, Parts DEF Count, FreedAtZero, OwnRef, One, TypeOK
<1>6. OutcomeIsTrue' /\ BeforePut' /\ StatusInv'
  BY <1>1, <1>2, Parts DEF OutcomeIsTrue, BeforePut, StatusInv
<1>7. OutcomePlace'
  BY <1>2, <1>3, Parts DEF OutcomePlace, One
<1> QED BY <1>4, <1>5, <1>6, <1>7, Whole

-----------------------------------------------------------------------------
(* A wait, alone or in a composition. *)

LEMMA Inductive == ASSUME ConstantsOK, IInv, [Next]_vars PROVE IInv'
<1>1. CASE Wait \/ TimerFires
  BY <1>1, NewHandlerKeeps, NewHandlerFailsKeeps, PutCompletedKeeps, PutCompletedFailsKeeps,
     ReceiveStatusKeeps, TimerFiresKeeps, TimeOutKeeps, ClearCompletedKeeps, GetResultsKeeps,
     CloseHandlerKeeps, ReleaseOpKeeps DEF Wait
<1>2. CASE Operation
  BY <1>2, CompleteKeeps, CallInvokeKeeps, InvokeEntersKeeps, InvokeSendsKeeps,
     InvokeLeavesKeeps, InvokeEndsKeeps, OpDiesKeeps DEF Operation, InvokeGoesOn
<1>3. CASE UNCHANGED vars
  <2>1. Calling' = Calling /\ InHandler' = InHandler
    BY <1>3 DEF vars, Calling, InHandler
  <2> QED BY <1>3, <2>1, Parts, Whole
          DEF vars, waitVars, objectVars, opVars, TypeOK, Count, OwnRef, FreedAtZero,
              OutcomeIsTrue, BeforePut, OutcomePlace, StatusInv
<1> QED BY <1>1, <1>2, <1>3 DEF Next

\* What WaitTimeout returns is decided once.
LEMMA OutcomeStays == ASSUME ConstantsOK, IInv, outcome # "none", Next PROVE outcome' = outcome
<1>1. wait \in {"closing", "releasing", "returned"}
  BY Parts DEF OutcomePlace
<1>2. CASE Wait
  BY <1>1, <1>2 DEF Wait, NewHandler, NewHandlerFails, PutCompleted, PutCompletedFails,
                    ReceiveStatus, TimeOut, ClearCompleted, GetResults, CloseHandler, ReleaseOp
<1>3. CASE TimerFires \/ Operation
  BY <1>3 DEF TimerFires, Operation, Complete, CallInvoke, InvokeGoesOn, InvokeEnters,
              InvokeSends, InvokeLeaves, InvokeEnds, OpDies, waitVars
<1> QED BY <1>2, <1>3 DEF Next

(* async.go:122-157, 220-225, 151, 179, 280-296.  Whatever the number of     *)
(* calls of Invoke: the handler's count is exact and it is freed with the    *)
(* last reference, and the outcome of a wait is its operation's.             *)
THEOREM WaitIsSound == ConstantsOK /\ Spec => [](RefsAccounted /\ OutcomeIsTrue)
<1> SUFFICES ASSUME ConstantsOK PROVE Spec => [](RefsAccounted /\ OutcomeIsTrue)
  OBVIOUS
<1>1. Init => IInv
  BY InitIInv
<1>2. IInv /\ [Next]_vars => IInv'
  BY Inductive
<1>3. IInv => RefsAccounted /\ OutcomeIsTrue
  BY DEF IInv
<1> QED BY <1>1, <1>2, <1>3, PTL DEF Spec
=============================================================================
