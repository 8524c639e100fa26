--------------------------- MODULE Monitor_proofs ---------------------------
(***************************************************************************)
(* What Monitor promises, for every set of sessions, of threads and of     *)
(* bounds.                                                                 *)
(*                                                                         *)
(* First, what it holds.  IInv says where New, Close, eventLoop and the    *)
(* job at hand are, seen from each other, so that two jobs never overlap;  *)
(* that what a job keeps in its locals is gone when it ends; that there    *)
(* is one entry for an id, in m.sessions or on its way out; and that the   *)
(* references to an object and its open handlers are those of its entry    *)
(* and of the job at hand.  That nothing is left after Close and that no   *)
(* reference is forgotten follow from it.                                  *)
(*                                                                         *)
(* Then, what it knows.  ConvInv says that while the monitor is open, work *)
(* that Windows gave notice of is in a delivery, in workCh or at hand, or  *)
(* is on record as lost; and that m.sessions differs from what there is    *)
(* only where work is on its way.  When all is quiet none is.              *)
(***************************************************************************)
EXTENDS Monitor, TLAPS, FiniteSetTheorems

-----------------------------------------------------------------------------
(* The invariant. *)

\* the entry of object o, in m.sessions or on its way out
HasEntry(o) == IdOf[o] \in Known /\ sessions[IdOf[o]].ptr = o

RefreshSteps == {"begin", "enumerate", "read", "merge", "register", "release"}

\* properties grow by the changes there were
VersionInv == \A o \in Objects : \A k \in Events : ver[o][k] <= changes

\* where New, Close, eventLoop and the job at hand are, seen from each other
PlaceInv ==
    /\ worker = "init" <=> owner = "new"
    /\ worker = "close" <=> owner = "running"
    /\ worker = "ended" <=> owner \in {"closeEvents", "closed"}
    /\ worker = "work" <=> loop = "running"
    /\ step = "none" <=> worker \in {"none", "ended"}
    /\ step = "closeHandlers" <=> worker = "close"
    /\ worker = "init" => step \in RefreshSteps \cup {"registerCurrent", "registerSessions"}
    /\ worker = "work" => step \in RefreshSteps \cup {"fetch", "store", "emit", "send"}
    /\ closed <=> owner \notin {"new", "open"}
    /\ eventsClosed <=> owner = "closed"
    /\ owner = "new" => loop = "none"
    /\ owner \in {"open", "waitLoop"} => loop # "none"
    /\ owner \in {"submit", "running", "stopWorker", "closeEvents", "closed"} =>
           loop \in {"none", "exited"}
    /\ loop = "exited" => closed

\* the item that eventLoop has and what is done about it
WorkInv ==
    /\ loop \in {"do", "submitted", "running"} => loopWork \in Works
    /\ worker = "work" /\ step \in RefreshSteps => loopWork = Refresh
    /\ step \in {"fetch", "store"} => loopWork # Refresh
    /\ step = "store" => /\ loopWork # CurrentChanged
                         /\ updating # NoUpdate
                         /\ IdOf[updating[1]] = loopWork[2] /\ HasEntry(updating[1])

\* the references to the manager are the monitor's and those of its two handlers
ManagerInv ==
    /\ \/ managerRefs \in {0, 1} /\ mgrSubs = {}
       \/ managerRefs = 2 /\ mgrSubs = {<<"current">>}
       \/ managerRefs = 3 /\ mgrSubs = {<<"sessions">>, <<"current">>}
    /\ worker = "init" =>
           managerRefs = IF step = "begin" THEN 0 ELSE IF step = "registerSessions" THEN 2 ELSE 1
    /\ owner \in {"stopWorker", "closeEvents", "closed"} => managerRefs = 0

\* what a job keeps is gone when it ends
LocalInv ==
    /\ view # {} => step = "read"
    /\ enumerated # {} \/ seen # {} => step \in {"read", "merge", "register"}
    /\ removed # {} => step \in {"release", "closeHandlers"}
    /\ updating # NoUpdate => step \in {"store", "emit", "send"}
    /\ step = "register" => /\ registering \in Known
                            /\ sessions[registering].handlers < NumEvents
    /\ owner \in {"running", "stopWorker", "closeEvents", "closed"} => Known = {}

\* one entry for an id, and one reading of an object
EntryInv ==
    /\ \A id \in Known : IdOf[sessions[id].ptr] = id
    /\ \A r \in removed : IdOf[r.ptr] \notin Known
    /\ \A r, s \in removed : r.ptr = s.ptr => r = s
    /\ \A e, f \in enumerated : e[1] = f[1] => e = f
    /\ \A e \in enumerated : e[1] \notin view

JobRefs(o) == CountIf(\E e \in enumerated : e[1] = o)
                + CountIf(updating # NoUpdate /\ updating[1] = o)

\* the references to an object
RefsInv ==
    \A o \in Objects :
        /\ HasEntry(o) => refs[o] = JobRefs(o) + 1 + sessions[IdOf[o]].handlers
        /\ \A r \in removed : r.ptr = o => refs[o] = JobRefs(o) + 1 + r.handlers
        /\ ~HasEntry(o) /\ (\A r \in removed : r.ptr # o) => refs[o] = JobRefs(o)

\* the open handlers are those of the entries, and a delivery is inside an open one
SubsInv ==
    \A o \in Objects : \A k \in Events :
        <<o, k>> \in subs <=> \/ HasEntry(o) /\ k <= sessions[IdOf[o]].handlers
                              \/ \E r \in removed : r.ptr = o /\ k <= r.handlers

GateInv == \A t \in Threads : thread[t].pc = "checked" => thread[t].from \in subs \cup mgrSubs

IInv == TypeOK /\ VersionInv /\ PlaceInv /\ WorkInv /\ ManagerInv /\ LocalInv /\ EntryInv
        /\ RefsInv /\ SubsInv /\ GateInv

-----------------------------------------------------------------------------
(* The work items and what a delivery is. *)

Delivery == [pc : {"raised", "checked"}, from : Sources, work : Works]

\* the work items differ, and an update carries its session and its event
LEMMA WorksAre ==
    /\ Refresh \in Works /\ CurrentChanged \in Works /\ Refresh # CurrentChanged
    /\ \A id \in Ids : \A k \in Events :
           /\ Update(id, k) \in Works
           /\ Update(id, k) # Refresh /\ Update(id, k) # CurrentChanged
           /\ Update(id, k)[2] = id /\ Update(id, k)[3] = k
    /\ \A w \in Works : \/ w = Refresh \/ w = CurrentChanged
                        \/ \E id \in Ids : \E k \in Events : w = Update(id, k)
    /\ NoWork \notin Works
BY DEF Works, Refresh, CurrentChanged, Update, NoWork

\* an update is for an id and an event
LEMMA WorkParts ==
    ASSUME NEW w \in Works, w # Refresh, w # CurrentChanged
    PROVE  w[2] \in Ids /\ w[3] \in Events
BY WorksAre

\* the events a delivery may come from
LEMMA SourcesAre ==
    /\ <<"sessions">> \in Sources /\ <<"current">> \in Sources
    /\ \A o \in Objects : \A k \in Events : <<o, k>> \in Sources
BY DEF Sources

\* work that is forgotten leaves a record of the right type
LEMMA ForgetKeeps ==
    ASSUME TypeOK, NEW w \in Works, NEW why \in {"init", "dropped", "failed"}, Forget(w, why)
    PROVE  missed' \subseteq {"init", "dropped", "failed"} /\ lost' \subseteq Objects
BY DEF TypeOK, Forget

\* no update is none of the updates
LEMMA NoUpdateIs == NoUpdate \notin Objects \X Versions
BY DEF NoUpdate

-----------------------------------------------------------------------------
(* Steps that leave the monitor's own places and entries alone. *)

monitorVars == <<subs, mgrSubs, sessions, refs, managerRefs, closed, eventsClosed, loop, loopWork,
                 owner, worker, step, view, enumerated, seen, registering, removed, updating>>

dataVars == <<subs, sessions, refs, view, enumerated, removed, updating>>

\* steps that leave the entries and what a job read alone
LEMMA DataFrame ==
    ASSUME IInv, UNCHANGED dataVars
    PROVE  EntryInv' /\ RefsInv' /\ SubsInv'
<1> USE DEF IInv, dataVars
<1>1. EntryInv'
  BY DEF EntryInv, Known
<1>2. \A o \in Objects : JobRefs(o)' = JobRefs(o)
  BY DEF JobRefs
<1>3. \A o \in Objects : HasEntry(o)' <=> HasEntry(o)
  BY DEF HasEntry, Known
<1>4. RefsInv'
  BY <1>2, <1>3 DEF RefsInv
<1>5. SubsInv'
  BY <1>3 DEF SubsInv
<1> QED BY <1>1, <1>4, <1>5

\* steps that leave the monitor alone
LEMMA MonitorFrame ==
    ASSUME IInv, UNCHANGED monitorVars
    PROVE  /\ PlaceInv' /\ WorkInv' /\ ManagerInv' /\ LocalInv' /\ EntryInv' /\ RefsInv'
           /\ SubsInv'
<1> USE DEF IInv, monitorVars
<1>1. PlaceInv' /\ ManagerInv'
  BY DEF PlaceInv, ManagerInv
<1>2. WorkInv'
  BY DEF WorkInv, HasEntry, Known
<1>3. LocalInv'
  BY DEF LocalInv, Known
<1> QED BY <1>1, <1>2, <1>3, DataFrame DEF dataVars

\* a delivery begins outside the handlers
LEMMA RaiseKeeps ==
    ASSUME IInv, NEW src \in Sources, NEW w \in Works, RaiseEvent(src, w), UNCHANGED <<subs,
                                                                                       mgrSubs>>
    PROVE  thread' \in [Threads -> {Idle} \cup Delivery] /\ GateInv'
<1>1. PICK t \in Threads : /\ thread[t] = Idle
                           /\ thread' = [thread EXCEPT ![t] = [pc |-> "raised", from |-> src,
                                                               work |-> w]]
  BY DEF RaiseEvent
<1>2. thread \in [Threads -> {Idle} \cup Delivery]
  BY DEF IInv, TypeOK, Delivery
<1>3. [pc |-> "raised", from |-> src, work |-> w] \in Delivery
  BY DEF Delivery
<1>4. \A u \in Threads : thread'[u] = IF u = t THEN [pc |-> "raised", from |-> src, work |-> w]
                                               ELSE thread[u]
  BY <1>1, <1>2
<1>5. GateInv'
  BY <1>4 DEF IInv, GateInv
<1> QED BY <1>1, <1>2, <1>3, <1>5

\* sessions start, change and end; deliveries begin
LEMMA WindowsKeeps == ASSUME IInv, Windows PROVE IInv'
<1> USE IdAssumption, BoundAssumption
<1>t. /\ live \subseteq born /\ born \subseteq Objects /\ ver \in [Objects -> Versions]
      /\ changes \in 0..MaxChanges /\ currents \in 0..MaxCurrent
      /\ thread \in [Threads -> {Idle} \cup Delivery]
      /\ missed \subseteq {"init", "dropped", "failed"} /\ lost \subseteq Objects
  BY DEF IInv, TypeOK, Delivery
<1>1. ASSUME UNCHANGED monitorVars, UNCHANGED <<failures, events, workCh>>,
             live' \subseteq born', born' \subseteq Objects, ver' \in [Objects -> Versions],
             changes' \in 0..MaxChanges, currents' \in 0..MaxCurrent, VersionInv',
             thread' \in [Threads -> {Idle} \cup Delivery], GateInv',
             missed' \subseteq {"init", "dropped", "failed"}, lost' \subseteq Objects
      PROVE  IInv'
  <2>1. TypeOK'
    BY <1>1 DEF IInv, TypeOK, monitorVars, Delivery
  <2> QED BY <1>1, <2>1, MonitorFrame DEF IInv
<1>m. MonitorRests => UNCHANGED monitorVars /\ UNCHANGED events
  BY DEF MonitorRests, monitorVars, subVars, refVars, loopVars, jobVars, localVars
<1>g. UNCHANGED <<thread, subs, mgrSubs>> => GateInv'
  BY DEF IInv, GateInv
<1>2. ASSUME NEW new \in SUBSET Objects, SetLive(new) PROVE IInv'
  <2>1. /\ live' = new /\ born' = born \cup new
        /\ UNCHANGED <<ver, changes, currents, failures, workCh, lost>> /\ MonitorRests
    BY <1>2 DEF SetLive
  <2>2. VersionInv'
    BY <2>1 DEF IInv, VersionInv
  <2>3. CASE RaiseEvent(<<"sessions">>, Refresh) /\ UNCHANGED missed
    <3>1. UNCHANGED <<subs, mgrSubs>>
      BY <2>1, <1>m DEF monitorVars
    <3>2. thread' \in [Threads -> {Idle} \cup Delivery] /\ GateInv'
      BY <2>3, <3>1, RaiseKeeps, WorksAre, SourcesAre
    <3> QED BY <1>1, <1>m, <1>t, <2>1, <2>2, <2>3, <3>2
  <2>4. CASE missed' = missed \cup {"init"} /\ UNCHANGED thread
    <3>1. GateInv'
      BY <1>g, <1>m, <2>1, <2>4 DEF monitorVars
    <3> QED BY <1>1, <1>m, <1>t, <2>1, <2>2, <2>4, <3>1
  <2> QED BY <1>2, <2>3, <2>4 DEF SetLive
<1>3. ASSUME NEW o \in Objects, SessionStarts(o) \/ SessionEnds(o) PROVE IInv'
  <2>1. live \cup {o} \in SUBSET Objects /\ live \ {o} \in SUBSET Objects
    BY <1>t
  <2> QED BY <1>2, <1>3, <2>1 DEF SessionStarts, SessionEnds
<1>4. ASSUME NEW o \in Objects, NEW k \in Events, SessionChanges(o, k) PROVE IInv'
  <2>1. /\ changes < MaxChanges /\ changes' = changes + 1
        /\ ver' = [ver EXCEPT ![o][k] = @ + 1]
        /\ UNCHANGED <<live, born, currents, failures, workCh, missed>> /\ MonitorRests
    BY <1>4 DEF SessionChanges
  <2>2. \A p \in Objects : \A j \in Events : ver[p][j] <= changes /\ ver[p][j] \in Nat
    BY <1>t DEF IInv, VersionInv, Versions
  <2>3. /\ \A p \in Objects : \A j \in Events :
               ver'[p][j] = IF p = o /\ j = k THEN ver[p][j] + 1 ELSE ver[p][j]
        /\ ver' \in [Objects -> Versions]
    <3>1. ver[o] \in [Events -> 0..MaxChanges] /\ ver[o][k] + 1 \in 0..MaxChanges
      BY <1>t, <2>1, <2>2 DEF Versions
    <3>2. [ver[o] EXCEPT ![k] = @ + 1] \in [Events -> 0..MaxChanges]
      BY <3>1
    <3>3. ver' = [ver EXCEPT ![o] = [ver[o] EXCEPT ![k] = @ + 1]]
      BY <2>1
    <3>4. \A p \in Objects : ver'[p] = IF p = o THEN [ver[o] EXCEPT ![k] = @ + 1] ELSE ver[p]
      BY <3>3, <1>t
    <3>5. \A p \in Objects : ver[p] \in [Events -> 0..MaxChanges]
      BY <1>t DEF Versions
    <3>6. ver' \in [Objects -> Versions]
      BY <3>2, <3>3, <1>t DEF Versions
    <3> QED BY <3>1, <3>4, <3>5, <3>6
  <2>4. VersionInv' /\ changes' \in 0..MaxChanges
    BY <1>t, <2>1, <2>2, <2>3 DEF VersionInv
  <2>5. UNCHANGED monitorVars /\ UNCHANGED events
    BY <2>1, <1>m
  <2>6. CASE RaiseEvent(<<o, k>>, Update(IdOf[o], k)) /\ UNCHANGED lost
    <3>1. thread' \in [Threads -> {Idle} \cup Delivery] /\ GateInv'
      BY <2>5, <2>6, RaiseKeeps, WorksAre, SourcesAre DEF monitorVars
    <3> QED BY <1>1, <1>t, <2>1, <2>3, <2>4, <2>5, <2>6, <3>1
  <2>7. CASE lost' = lost \cup {o} /\ UNCHANGED thread
    <3>1. GateInv'
      BY <1>g, <2>5, <2>7 DEF monitorVars
    <3> QED BY <1>1, <1>t, <2>1, <2>3, <2>4, <2>5, <2>7, <3>1
  <2> QED BY <1>4, <2>6, <2>7 DEF SessionChanges
<1>5. CASE CurrentChanges
  <2>1. /\ UNCHANGED monitorVars /\ UNCHANGED events
        /\ currents' \in 0..MaxCurrent
        /\ UNCHANGED <<live, born, ver, changes, failures, workCh, missed, lost>>
    BY <1>5, <1>m, <1>t DEF CurrentChanges, history
  <2>2. VersionInv'
    BY <2>1 DEF IInv, VersionInv
  <2>3. thread' \in [Threads -> {Idle} \cup Delivery] /\ GateInv'
    BY <1>5, <2>1, RaiseKeeps, WorksAre, SourcesAre DEF CurrentChanges, monitorVars
  <2> QED BY <1>1, <1>t, <2>1, <2>2, <2>3
<1> QED BY <1>3, <1>4, <1>5 DEF Windows

\* enqueue
LEMMA DeliverKeeps == ASSUME IInv, NEW t \in Threads, Deliver(t) PROVE IInv'
<1> USE BoundAssumption
<1>t. /\ thread \in [Threads -> {Idle} \cup Delivery]
      /\ missed \subseteq {"init", "dropped", "failed"} /\ lost \subseteq Objects
      /\ workCh \in Seq(Works) /\ Len(workCh) <= WorkCap
  BY DEF IInv, TypeOK, Delivery
<1>1. /\ UNCHANGED monitorVars
      /\ UNCHANGED <<live, born, ver, changes, currents, failures, events>>
  BY DEF Deliver, EnterCallback, RefuseCallback, Enqueue, MonitorRests, monitorVars, subVars,
      refVars, loopVars, jobVars, localVars, winVars
<1>2. thread[t] \in Delivery /\ thread[t].work \in Works
  <2>1. thread[t].pc \in {"raised", "checked"}
    BY DEF Deliver, EnterCallback, RefuseCallback, Enqueue
  <2>2. thread[t] # Idle
    BY <2>1 DEF Idle
  <2> QED BY <1>t, <2>2 DEF Delivery
<1>3. VersionInv'
  BY <1>1 DEF IInv, VersionInv
<1>4. ASSUME thread' \in [Threads -> {Idle} \cup Delivery], GateInv',
             workCh' \in Seq(Works), Len(workCh') <= WorkCap,
             missed' \subseteq {"init", "dropped", "failed"}, lost' \subseteq Objects
      PROVE  IInv'
  <2>1. TypeOK'
    BY <1>1, <1>4 DEF IInv, TypeOK, monitorVars, Delivery
  <2> QED BY <1>1, <1>3, <1>4, <2>1, MonitorFrame DEF IInv
<1>5. CASE EnterCallback(t)
  <2>1. [thread[t] EXCEPT !.pc = "checked"] \in Delivery
    BY <1>2 DEF Delivery
  <2>2. thread' = [thread EXCEPT ![t] = [thread[t] EXCEPT !.pc = "checked"]]
    BY <1>5 DEF EnterCallback
  <2>3. [thread[t] EXCEPT !.pc = "checked"].from = thread[t].from
    BY <1>2 DEF Delivery
  <2>4. \A u \in Threads : thread'[u] = IF u = t THEN [thread[t] EXCEPT !.pc = "checked"]
                                                 ELSE thread[u]
    BY <1>t, <2>2
  <2>5. GateInv'
    BY <1>1, <1>5, <2>3, <2>4 DEF IInv, GateInv, EnterCallback, monitorVars
  <2>6. UNCHANGED <<workCh, missed, lost>>
    BY <1>5 DEF EnterCallback, history
  <2> QED BY <1>4, <1>t, <2>1, <2>2, <2>5, <2>6
<1>6. CASE RefuseCallback(t) \/ Enqueue(t)
  <2>1. /\ thread' = [thread EXCEPT ![t] = Idle]
        /\ \/ workCh' = workCh
           \/ Len(workCh) < WorkCap /\ workCh' = Append(workCh, thread[t].work)
        /\ \/ UNCHANGED <<missed, lost>>
           \/ Forget(thread[t].work, "failed") \/ Forget(thread[t].work, "dropped")
    BY <1>6 DEF RefuseCallback, Enqueue, history
  <2>2. \A u \in Threads : thread'[u] = IF u = t THEN Idle ELSE thread[u]
    BY <1>t, <2>1
  <2>3. GateInv'
    BY <1>1, <2>2 DEF IInv, GateInv, Idle, monitorVars
  <2>4. missed' \subseteq {"init", "dropped", "failed"} /\ lost' \subseteq Objects
    BY <1>t, <1>2, <2>1, ForgetKeeps DEF IInv
  <2>5. workCh' \in Seq(Works) /\ Len(workCh') <= WorkCap
    BY <1>t, <1>2, <2>1
  <2> QED BY <1>4, <1>t, <2>1, <2>3, <2>4, <2>5
<1> QED BY <1>5, <1>6 DEF Deliver

\* the program reads an event
LEMMA ReceiveKeeps == ASSUME IInv, Receive PROVE IInv'
<1>1. /\ UNCHANGED monitorVars /\ events > 0 /\ events' = events - 1
      /\ UNCHANGED <<live, born, ver, changes, currents, failures, thread, workCh, missed, lost>>
  BY DEF Receive, monitorVars, subVars, refVars, loopVars, jobVars, localVars, winVars, history
<1>2. TypeOK'
  <2>1. events' \in 0..EventCap
    BY <1>1, BoundAssumption DEF IInv, TypeOK
  <2> QED BY <1>1, <2>1 DEF IInv, TypeOK, monitorVars
<1>3. VersionInv' /\ GateInv'
  BY <1>1 DEF IInv, VersionInv, GateInv, monitorVars
<1> QED BY <1>1, <1>2, <1>3, MonitorFrame DEF IInv

-----------------------------------------------------------------------------
(* eventLoop, and the beginning of New. *)

\* no handler closes: the deliveries are where they were
LEMMA GateFrame ==
    ASSUME IInv, UNCHANGED <<thread, ver,
                             changes>>, subs \subseteq subs', mgrSubs \subseteq mgrSubs'
    PROVE  GateInv' /\ VersionInv'
BY DEF IInv, GateInv, VersionInv

\* eventLoop takes work, submits it or ends
LEMMA LoopKeeps == ASSUME IInv, Loop PROVE IInv'
<1> USE DEF IInv
<1>1. /\ UNCHANGED dataVars
      /\ UNCHANGED <<live, born, ver, changes, currents, failures, mgrSubs, managerRefs, thread,
                     closed, events, eventsClosed, owner, seen, registering, missed, lost>>
  BY DEF Loop, LoopTakes, LoopExits, LoopDoes, WorkStarts, LoopRests, dataVars, winVars, subVars,
      refVars, localVars, history
<1>2. EntryInv' /\ RefsInv' /\ SubsInv' /\ GateInv' /\ VersionInv'
  BY <1>1, DataFrame, GateFrame DEF dataVars
<1>3. TypeOK /\ workCh \in Seq(Works) /\ Len(workCh) <= WorkCap
  BY DEF TypeOK
<1>4. ASSUME workCh' \in Seq(Works), Len(workCh') <= WorkCap,
             loop' \in {"select", "do", "submitted", "running", "exited"},
             loopWork' \in Works \cup {NoWork},
             worker' \in {"init", "none", "work", "close", "ended"},
             step' \in {"none", "begin", "enumerate", "read", "merge", "register",
                        "release", "registerCurrent", "registerSessions", "fetch", "store",
                        "emit", "send", "closeHandlers"}
      PROVE  TypeOK'
  BY <1>1, <1>4 DEF TypeOK, dataVars
<1>5. CASE LoopTakes
  <2>1. /\ loop = "select" /\ loop' = "do" /\ workCh # <<>> /\ UNCHANGED <<worker, step>>
        /\ workCh' = Tail(workCh) /\ loopWork' = Head(workCh)
    BY <1>5 DEF LoopTakes
  <2>2. workCh' \in Seq(Works) /\ Len(workCh') <= WorkCap /\ loopWork' \in Works
    <3>1. Len(workCh') = Len(workCh) - 1 /\ Len(workCh) \in Nat
      BY <1>3, <2>1
    <3>2. workCh' \in Seq(Works) /\ loopWork' \in Works
      BY <1>3, <2>1
    <3> QED BY <1>3, <3>1, <3>2, BoundAssumption
  <2>3. TypeOK'
    BY <1>4, <2>1, <2>2 DEF TypeOK
  <2>4. PlaceInv' /\ ManagerInv'
    BY <1>1, <2>1 DEF PlaceInv, ManagerInv
  <2>5. WorkInv'
    <3>1. step \notin {"fetch", "store"} /\ worker # "work"
      BY <1>3, <2>1 DEF TypeOK, PlaceInv, RefreshSteps
    <3> QED BY <2>1, <2>2, <3>1 DEF WorkInv
  <2>6. LocalInv'
    BY <1>1, <2>1 DEF LocalInv, Known, dataVars
  <2> QED BY <1>2, <2>3, <2>4, <2>5, <2>6
<1>6. CASE LoopExits \/ LoopDoes
  <2>1. /\ UNCHANGED <<worker, step, workCh>> /\ loop \in {"select", "do"}
        /\ \/ loop' = "submitted" /\ loop = "do" /\ loopWork' = loopWork /\ ~closed
           \/ loop' = "select" /\ loopWork' = NoWork /\ loop = "do"
           \/ loop' = "exited" /\ loopWork' = loopWork /\ closed
    BY <1>6 DEF LoopExits, LoopDoes
  <2>3. TypeOK'
    BY <1>3, <1>4, <2>1 DEF TypeOK
  <2>4. PlaceInv' /\ ManagerInv'
    BY <1>1, <2>1 DEF PlaceInv, ManagerInv
  <2>5. WorkInv'
    <3>1. step \notin {"fetch", "store"} /\ worker # "work"
      BY <1>3, <2>1 DEF TypeOK, PlaceInv, RefreshSteps
    <3> QED BY <2>1, <3>1 DEF WorkInv
  <2>6. LocalInv'
    BY <1>1, <2>1 DEF LocalInv, Known, dataVars
  <2> QED BY <1>2, <2>3, <2>4, <2>5, <2>6
<1>7. CASE WorkStarts
  <2>1. /\ UNCHANGED <<workCh, loopWork>> /\ loop = "submitted" /\ loop' = "running"
        /\ worker = "none" /\ worker' = "work" /\ step = "none"
        /\ step' = IF loopWork = Refresh THEN "begin" ELSE "fetch"
    BY <1>7 DEF WorkStarts, PlaceInv
  <2>3. TypeOK'
    BY <1>3, <1>4, <2>1 DEF TypeOK
  <2>4. PlaceInv' /\ ManagerInv'
    BY <1>1, <2>1 DEF PlaceInv, ManagerInv, RefreshSteps
  <2>5. WorkInv'
    BY <2>1 DEF WorkInv, PlaceInv, RefreshSteps
  <2>6. LocalInv'
    BY <1>1, <2>1 DEF LocalInv, Known, dataVars
  <2> QED BY <1>2, <2>3, <2>4, <2>5, <2>6
<1> QED BY <1>5, <1>6, <1>7 DEF Loop

\* init gets the manager and subscribes to its events, or fails
LEMMA InitializesKeeps == ASSUME IInv, Initializes PROVE IInv'
<1> USE BoundAssumption DEF IInv
<1>1. /\ UNCHANGED dataVars
      /\ UNCHANGED <<live, born, ver, changes, currents, thread, workCh, events, eventsClosed,
                     loopWork, seen, registering, missed, lost>>
      /\ worker = "init" /\ step \in {"begin", "enumerate", "registerCurrent", "registerSessions"}
      /\ owner = "new" /\ loop = "none"
  BY DEF Initializes, InitGetsManager, InitFails, RegisterCurrentChanged, RegisterSessionsChanged,
      InitRests, dataVars, winVars, chVars, localVars, history, PlaceInv
<1>2. mgrSubs \subseteq mgrSubs'
  BY DEF Initializes, InitGetsManager, InitFails, RegisterCurrentChanged, RegisterSessionsChanged
<1>3. EntryInv' /\ RefsInv' /\ SubsInv' /\ GateInv' /\ VersionInv'
  BY <1>1, <1>2, DataFrame, GateFrame DEF dataVars
<1>4. \/ /\ step = "begin" /\ managerRefs' = 1 /\ step' = "enumerate"
         /\ UNCHANGED <<failures, mgrSubs, closed, loop, owner, worker>>
      \/ /\ failures' \in 0..MaxFailures /\ closed' = TRUE /\ owner' = "submit"
         /\ worker' = "none" /\ step' = "none" /\ UNCHANGED <<mgrSubs, managerRefs, loop>>
      \/ /\ step = "registerCurrent" /\ mgrSubs' = mgrSubs \cup {<<"current">>}
         /\ managerRefs' = managerRefs + 1 /\ step' = "registerSessions"
         /\ UNCHANGED <<failures, closed, loop, owner, worker>>
      \/ /\ step = "registerSessions" /\ mgrSubs' = mgrSubs \cup {<<"sessions">>}
         /\ managerRefs' = managerRefs + 1 /\ step' = "none" /\ worker' = "none"
         /\ owner' = "open" /\ loop' = "select"
         /\ UNCHANGED <<failures, closed>>
  BY <1>1 DEF Initializes, InitGetsManager, InitFails, RegisterCurrentChanged,
      RegisterSessionsChanged, Fails, TypeOK
<1>5. PlaceInv'
  BY <1>1, <1>4 DEF PlaceInv, RefreshSteps
<1>6. WorkInv'
  BY <1>1, <1>4 DEF WorkInv
<1>7. ManagerInv' /\ managerRefs' \in 0..3 /\ mgrSubs' \subseteq {<<"sessions">>, <<"current">>}
  BY <1>1, <1>4 DEF ManagerInv
<1>8. LocalInv'
  BY <1>1, <1>4 DEF LocalInv, Known, dataVars
<1>9. TypeOK'
  <2>1. failures' \in 0..MaxFailures /\ closed' \in BOOLEAN
    BY <1>4 DEF TypeOK
  <2>2. /\ loop' \in {"none", "select"}
        /\ owner' \in {"new", "open", "submit"} /\ worker' \in {"init", "none"}
        /\ step' \in {"none", "enumerate", "registerSessions"}
    BY <1>1, <1>4
  <2> QED BY <1>1, <1>7, <2>1, <2>2 DEF TypeOK, dataVars
<1> QED BY <1>3, <1>5, <1>6, <1>7, <1>8, <1>9

-----------------------------------------------------------------------------
(* A job returns. *)

\* the parts of what is kept have their types
LEMMA EntryParts ==
    ASSUME TypeOK
    PROVE  /\ \A id \in Known : /\ sessions[id] \in Entries /\ sessions[id].ptr \in Objects
                                /\ sessions[id].info \in Versions
                                /\ sessions[id].handlers \in 0..NumEvents
           /\ \A r \in removed : /\ r \in Entries /\ r.ptr \in Objects /\ r.info \in Versions
                                 /\ r.handlers \in 0..NumEvents
           /\ \A e \in enumerated : e[1] \in Objects /\ e[2] \in Versions
           /\ updating # NoUpdate => updating[1] \in Objects /\ updating[2] \in Versions
<1>1. \A r \in Entries : /\ r.ptr \in Objects /\ r.info \in Versions
                         /\ r.handlers \in 0..NumEvents
  BY DEF Entries
<1>2. \A id \in Known : sessions[id] \in Entries
  BY DEF TypeOK, Known
<1>3. \A r \in removed : r \in Entries
  BY DEF TypeOK
<1>4. \A e \in Objects \X Versions : e[1] \in Objects /\ e[2] \in Versions
  OBVIOUS
<1>5. /\ enumerated \subseteq Objects \X Versions
      /\ updating \in {NoUpdate} \cup (Objects \X Versions)
  BY DEF TypeOK
<1> QED BY <1>1, <1>2, <1>3, <1>4, <1>5

\* the job at hand has one reference or none to an object
LEMMA JobRefsAre ==
    ASSUME IInv, NEW o \in Objects
    PROVE  /\ JobRefs(o) = IF o \in Held THEN 1 ELSE 0
           /\ JobRefs(o) \in Nat /\ refs[o] \in Nat /\ refs[o] >= JobRefs(o)
<1>1. (\E e \in enumerated : e[1] = o) => ~(updating # NoUpdate /\ updating[1] = o)
  BY DEF IInv, LocalInv
<1>2. o \in Held <=> (\E e \in enumerated : e[1] = o) \/ (updating # NoUpdate /\ updating[1] = o)
  BY DEF Held
<1>3. JobRefs(o) = IF o \in Held THEN 1 ELSE 0
  BY <1>1, <1>2 DEF JobRefs, CountIf
<1>4. HasEntry(o) => sessions[IdOf[o]].handlers \in Nat
  BY EntryParts, BoundAssumption DEF IInv, HasEntry
<1>5. \A r \in removed : r.handlers \in Nat
  BY EntryParts, BoundAssumption DEF IInv
<1>6. JobRefs(o) \in Nat /\ refs[o] \in Nat
  BY <1>3 DEF IInv, TypeOK
<1>7. \/ HasEntry(o) /\ refs[o] = JobRefs(o) + 1 + sessions[IdOf[o]].handlers
      \/ \E r \in removed : refs[o] = JobRefs(o) + 1 + r.handlers
      \/ refs[o] = JobRefs(o)
  BY DEF IInv, RefsInv
<1>8. refs[o] >= JobRefs(o)
  BY <1>4, <1>5, <1>6, <1>7
<1> QED BY <1>3, <1>6, <1>8

\* a job of eventLoop ends and lets go of what it kept
LEMMA EndJobKeeps ==
    ASSUME IInv, EndJob, worker = "work", view = {}, removed = {},
           failures' \in 0..MaxFailures, events' \in 0..EventCap,
           missed' \subseteq {"init", "dropped", "failed"}, lost' \subseteq Objects
    PROVE  IInv'
<1> USE DEF IInv
<1>1. /\ worker' = "none" /\ step' = "none" /\ loop' = "select" /\ loopWork' = NoWork
      /\ refs' = [o \in Objects |-> IF o \in Held THEN refs[o] - 1 ELSE refs[o]]
      /\ enumerated' = {} /\ seen' = {} /\ updating' = NoUpdate
      /\ UNCHANGED <<live, born, ver, changes, currents, subs, mgrSubs, thread, sessions,
                     managerRefs, closed, workCh, eventsClosed, owner, view, registering,
                     removed>>
  BY DEF EndJob, winVars, subVars
<1>2. \A o \in Objects : /\ refs'[o] \in Nat /\ refs'[o] = refs[o] - JobRefs(o)
                         /\ JobRefs(o) \in Nat /\ refs[o] \in Nat /\ JobRefs(o)' = 0
  <2>1. ASSUME NEW o \in Objects
        PROVE  /\ refs'[o] \in Nat /\ refs'[o] = refs[o] - JobRefs(o)
               /\ JobRefs(o) \in Nat /\ refs[o] \in Nat
    <3>1. refs'[o] = IF o \in Held THEN refs[o] - 1 ELSE refs[o]
      BY <1>1
    <3> QED BY <3>1, JobRefsAre
  <2>2. \A o \in Objects : JobRefs(o)' = 0
    BY <1>1 DEF JobRefs, CountIf
  <2> QED BY <2>1, <2>2
<1>3. TypeOK'
  <2>1. refs' \in [Objects -> Nat]
    BY <1>1, <1>2
  <2> QED BY <1>1, <2>1 DEF TypeOK
<1>4. PlaceInv' /\ ManagerInv'
  BY <1>1 DEF PlaceInv, ManagerInv
<1>5. WorkInv' /\ LocalInv'
  BY <1>1 DEF WorkInv, LocalInv, Known
<1>6. EntryInv'
  BY <1>1 DEF EntryInv, Known
<1>7. \A o \in Objects : HasEntry(o)' <=> HasEntry(o)
  BY <1>1 DEF HasEntry, Known
<1>8. RefsInv'
  <2>1. ASSUME NEW o \in Objects PROVE HasEntry(o)' => refs'[o] = 1 + sessions[IdOf[o]].handlers
    <3>1. HasEntry(o) => sessions[IdOf[o]].handlers \in Nat
      BY EntryParts, BoundAssumption DEF HasEntry
    <3> QED BY <3>1, <1>2, <1>7 DEF RefsInv
  <2>2. ASSUME NEW o \in Objects PROVE ~HasEntry(o)' => refs'[o] = 0
    BY <1>2, <1>7 DEF RefsInv
  <2>3. \A o \in Objects : HasEntry(o)' => sessions[IdOf[o]].handlers \in Nat
    BY <1>7, EntryParts, BoundAssumption DEF HasEntry
  <2> QED BY <1>1, <1>2, <2>1, <2>2, <2>3 DEF RefsInv
<1>9. SubsInv'
  BY <1>1, <1>7 DEF SubsInv
<1>10. GateInv' /\ VersionInv'
  BY <1>1, GateFrame
<1> QED BY <1>3, <1>4, <1>5, <1>6, <1>8, <1>9, <1>10

\* the steps that end a job of eventLoop
LEMMA EndsKeep ==
    ASSUME IInv, RefreshRefused \/ GetSessionsFails \/ UpdateRefused \/ SessionGone \/ EmitSends
    PROVE  IInv'
<1>1. /\ EndJob /\ worker = "work"
      /\ step \in {"begin", "read", "enumerate", "fetch", "store", "emit", "send"}
  BY DEF RefreshRefused, GetSessionsFails, UpdateRefused, SessionGone, EmitSends, Working
<1>2. view = {} /\ removed = {}
  BY <1>1 DEF RefreshRefused, GetSessionsFails, UpdateRefused, SessionGone, EmitSends, Working,
      IInv, LocalInv
<1>3. failures' \in 0..MaxFailures /\ events' \in 0..EventCap
  BY BoundAssumption DEF RefreshRefused, GetSessionsFails, UpdateRefused, SessionGone, EmitSends,
      Fails, IInv, TypeOK
<1>4. missed' \subseteq {"init", "dropped", "failed"} /\ lost' \subseteq Objects
  BY WorksAre, ForgetKeeps DEF RefreshRefused, GetSessionsFails, UpdateRefused, SessionGone,
      EmitSends, history, IInv, TypeOK
<1> QED BY <1>1, <1>2, <1>3, <1>4, EndJobKeeps

-----------------------------------------------------------------------------
(* handleSessionUpdate and emitCurrentSessionChanged. *)

\* replacing an entry's info is seen nowhere else
LEMMA InfoChange ==
    ASSUME IInv, NEW id \in Known, NEW v \in Versions,
           sessions' = [sessions EXCEPT ![id].info = v]
    PROVE  /\ sessions' \in [Ids -> Entries \cup {NoEntry}]
           /\ Known' = Known
           /\ \A j \in Known : /\ sessions'[j].ptr = sessions[j].ptr
                               /\ sessions'[j].handlers = sessions[j].handlers
                               /\ j # id => sessions'[j].info = sessions[j].info
           /\ sessions'[id].info = v
           /\ \A o \in Objects : HasEntry(o)' <=> HasEntry(o)
<1>1. sessions \in [Ids -> Entries \cup {NoEntry}] /\ sessions[id] \in Entries /\ id \in Ids
  BY EntryParts DEF IInv, TypeOK, Known
<1>2. /\ [sessions[id] EXCEPT !.info = v] \in Entries
      /\ [sessions[id] EXCEPT !.info = v].ptr = sessions[id].ptr
      /\ [sessions[id] EXCEPT !.info = v].handlers = sessions[id].handlers
      /\ [sessions[id] EXCEPT !.info = v].info = v
  BY <1>1 DEF Entries
<1>3. sessions' = [sessions EXCEPT ![id] = [sessions[id] EXCEPT !.info = v]]
  OBVIOUS
<1>4. \A j \in Ids : sessions'[j] = IF j = id THEN [sessions[id] EXCEPT !.info = v]
                                           ELSE sessions[j]
  BY <1>1, <1>3
<1>5. sessions' \in [Ids -> Entries \cup {NoEntry}]
  BY <1>1, <1>2, <1>3
<1>6. [sessions[id] EXCEPT !.info = v] # NoEntry
  BY <1>2, EntryAssumption
<1>7. Known' = Known
  BY <1>4, <1>6 DEF Known
<1>8. \A j \in Known : /\ sessions'[j].ptr = sessions[j].ptr
                       /\ sessions'[j].handlers = sessions[j].handlers
                       /\ j # id => sessions'[j].info = sessions[j].info
  <2>1. ASSUME NEW j \in Known
        PROVE  /\ sessions'[j].ptr = sessions[j].ptr
               /\ sessions'[j].handlers = sessions[j].handlers
               /\ j # id => sessions'[j].info = sessions[j].info
    <3>1. j \in Ids
      BY DEF Known
    <3>2. CASE j = id
      BY <1>2, <1>4, <3>1, <3>2
    <3>3. CASE j # id
      BY <1>4, <3>1, <3>3
    <3> QED BY <3>2, <3>3
  <2> QED BY <2>1
<1>9. \A o \in Objects : HasEntry(o)' <=> HasEntry(o)
  BY <1>7, <1>8 DEF HasEntry
<1> QED BY <1>5, <1>7, <1>8, <1>9

\* the handlers of the entries stay what they were
LEMMA SubsFrame ==
    ASSUME IInv, UNCHANGED <<subs, removed>>,
           \A o \in Objects : HasEntry(o)' <=> HasEntry(o),
           \A o \in Objects :
               HasEntry(o) => sessions'[IdOf[o]].handlers = sessions[IdOf[o]].handlers
    PROVE  SubsInv'
<1>1. ASSUME NEW o \in Objects, NEW k \in Events
      PROVE  <<o, k>> \in subs' <=> \/ HasEntry(o)' /\ k <= sessions'[IdOf[o]].handlers
                                    \/ \E r \in removed' : r.ptr = o /\ k <= r.handlers
  BY DEF IInv, SubsInv
<1> QED BY <1>1 DEF SubsInv

\* an update adds a reference, stores what it read and goes on
LEMMA UpdatesKeep ==
    ASSUME IInv, FetchCurrent \/ FetchUpdate \/ StoreUpdate \/ EmitChecks
    PROVE  IInv'
<1> USE BoundAssumption DEF IInv
<1>1. /\ UNCHANGED <<live, born, ver, changes, currents, thread, closed, workCh, eventsClosed,
                     loop, loopWork, owner, worker, subs, mgrSubs, managerRefs, view, enumerated,
                     seen, registering, removed, events>>
      /\ worker = "work" /\ step \in {"fetch", "store", "emit"}
      /\ step' \in {"store", "emit", "send"}
  BY DEF FetchCurrent, FetchUpdate, StoreUpdate, EmitChecks, Goto, UpdateRests, Working, winVars,
      loopVars, subVars
<1>2. enumerated = {} /\ view = {} /\ removed = {} /\ seen = {}
  BY <1>1 DEF LocalInv
<1>3. PlaceInv' /\ ManagerInv' /\ GateInv' /\ VersionInv'
  BY <1>1, GateFrame DEF PlaceInv, ManagerInv, RefreshSteps
<1>4. ASSUME sessions' \in [Ids -> Entries \cup {NoEntry}], refs' \in [Objects -> Nat],
             updating' \in {NoUpdate} \cup (Objects \X Versions), failures' \in 0..MaxFailures,
             missed' \subseteq {"init", "dropped", "failed"}, lost' \subseteq Objects
      PROVE  TypeOK'
  BY <1>1, <1>4 DEF TypeOK
<1>5. CASE FetchCurrent \/ EmitChecks
  <2>1. UNCHANGED <<sessions, refs, updating, failures, missed,
                    lost>> /\ step' \in {"emit", "send"}
    BY <1>5 DEF FetchCurrent, EmitChecks, Goto, history
  <2>2. updating # NoUpdate => step' \in {"emit", "send"}
    BY <2>1
  <2>3. EntryInv' /\ RefsInv' /\ SubsInv'
    BY <1>1, <2>1, DataFrame DEF dataVars
  <2>4. LocalInv'
    BY <1>1, <1>2, <2>1 DEF LocalInv, Known
  <2>5. WorkInv'
    BY <1>1, <2>1 DEF WorkInv, RefreshSteps
  <2>6. TypeOK'
    BY <1>4, <2>1 DEF TypeOK
  <2> QED BY <1>3, <2>3, <2>4, <2>5, <2>6
<1>6. CASE StoreUpdate
  <2>1. /\ step = "store" /\ step' = "emit"
        /\ UNCHANGED <<refs, updating, failures, missed, lost>>
        /\ sessions' = [sessions EXCEPT ![loopWork[2]].info = updating[2]]
    BY <1>6 DEF StoreUpdate, Goto, history, Working
  <2>2. loopWork[2] \in Known /\ updating[2] \in Versions
    BY <2>1, EntryParts DEF WorkInv, HasEntry
  <2>3. /\ sessions' \in [Ids -> Entries \cup {NoEntry}]
        /\ Known' = Known
        /\ \A j \in Known : /\ sessions'[j].ptr = sessions[j].ptr
                            /\ sessions'[j].handlers = sessions[j].handlers
        /\ \A o \in Objects : HasEntry(o)' <=> HasEntry(o)
    BY <2>1, <2>2, InfoChange
  <2>4. \A o \in Objects : /\ JobRefs(o)' = JobRefs(o)
                           /\ HasEntry(o) =>
                                sessions'[IdOf[o]].handlers = sessions[IdOf[o]].handlers
    BY <1>1, <2>1, <2>3 DEF JobRefs, HasEntry
  <2>5. EntryInv'
    BY <1>1, <1>2, <2>3 DEF EntryInv
  <2>6. RefsInv'
    BY <1>1, <2>1, <2>3, <2>4 DEF RefsInv
  <2>7. SubsInv'
    BY <1>1, <2>3, <2>4, SubsFrame
  <2>8. LocalInv'
    BY <1>1, <1>2, <2>1, <2>3 DEF LocalInv
  <2>9. WorkInv'
    BY <1>1, <2>1 DEF WorkInv, RefreshSteps
  <2>10. TypeOK'
    BY <1>4, <2>1, <2>3 DEF TypeOK
  <2> QED BY <1>3, <2>5, <2>6, <2>7, <2>8, <2>9, <2>10
<1>7. CASE FetchUpdate
  <2> DEFINE id == loopWork[2]
             o  == sessions[id].ptr
  <2>1. /\ step = "fetch" /\ step' = "store" /\ loopWork # CurrentChanged /\ id \in Known
        /\ refs' = [refs EXCEPT ![o] = @ + 1] /\ UNCHANGED sessions
    BY <1>7 DEF FetchUpdate, Goto, Working
  <2>2. /\ \/ updating' = <<o, [sessions[id].info EXCEPT ![loopWork[3]] = ver[o][loopWork[3]]]>>
           \/ updating' = <<o, sessions[id].info>>
        /\ \/ UNCHANGED <<failures, missed, lost>>
           \/ Fails /\ Forget(loopWork, "failed")
    BY <1>7 DEF FetchUpdate, history
  <2>3. loopWork \in Works /\ loopWork # Refresh
    BY <1>1, <2>1 DEF WorkInv, PlaceInv
  <2>4. loopWork[3] \in Events /\ id \in Ids
    BY <2>1, <2>3, WorkParts
  <2>5. /\ o \in Objects /\ sessions[id].info \in Versions /\ IdOf[o] = id
        /\ sessions[id].handlers \in Nat
    BY <2>1, EntryParts DEF EntryInv
  <2>6. [sessions[id].info EXCEPT ![loopWork[3]] = ver[o][loopWork[3]]] \in Versions
    <3>1. ver[o] \in Versions
      BY <2>5 DEF TypeOK
    <3> QED BY <2>4, <2>5, <3>1 DEF Versions
  <2> HIDE DEF id, o
  <2>7. updating' \in Objects \X Versions /\ updating'[1] = o /\ updating' # NoUpdate
    BY <2>2, <2>5, <2>6, NoUpdateIs
  <2>8. updating = NoUpdate
    BY <2>1 DEF LocalInv
  <2>9. \A p \in Objects : /\ refs[p] \in Nat
                           /\ refs'[p] = IF p = o THEN refs[p] + 1 ELSE refs[p]
                           /\ JobRefs(p) = 0 /\ JobRefs(p)' = IF p = o THEN 1 ELSE 0
    <3>1. \A p \in Objects : JobRefs(p) = 0
      BY <1>2, <2>8 DEF JobRefs, CountIf
    <3>2. \A p \in Objects : JobRefs(p)' = IF p = o THEN 1 ELSE 0
      BY <1>1, <1>2, <2>7 DEF JobRefs, CountIf
    <3>3. \A p \in Objects : refs[p] \in Nat /\ refs'[p] = IF p = o THEN refs[p] + 1 ELSE refs[p]
      BY <2>1, <2>5 DEF TypeOK
    <3> QED BY <3>1, <3>2, <3>3
  <2>10. refs' \in [Objects -> Nat]
    BY <2>1, <2>5 DEF TypeOK
  <2>11. /\ Known' = Known
         /\ \A p \in Objects : HasEntry(p)' <=> HasEntry(p)
         /\ HasEntry(o)
         /\ \A p \in Objects : HasEntry(p) => sessions[IdOf[p]].handlers \in Nat
    <3>1. HasEntry(o)
      BY <2>1, <2>5 DEF HasEntry, o
    <3> QED BY <2>1, <3>1, EntryParts DEF HasEntry, Known
  <2>12. EntryInv'
    BY <1>1, <2>1 DEF EntryInv, Known
  <2>13. RefsInv'
    BY <1>1, <1>2, <2>1, <2>9, <2>11 DEF RefsInv
  <2>14. SubsInv'
    BY <1>1, <2>1, <2>11, SubsFrame
  <2>15. LocalInv'
    BY <1>1, <1>2, <2>1, <2>11 DEF LocalInv
  <2>16. WorkInv'
    BY <1>1, <2>1, <2>3, <2>5, <2>7, <2>11 DEF WorkInv, RefreshSteps, id
  <2>17. TypeOK'
    <3>1. failures' \in 0..MaxFailures
      BY <2>2 DEF Fails, TypeOK
    <3>2. missed' \subseteq {"init", "dropped", "failed"} /\ lost' \subseteq Objects
      BY <2>2, <2>3, ForgetKeeps DEF TypeOK
    <3> QED BY <1>4, <2>1, <2>7, <2>10, <3>1, <3>2 DEF TypeOK
  <2> QED BY <1>3, <2>12, <2>13, <2>14, <2>15, <2>16, <2>17
<1> QED BY <1>5, <1>6, <1>7

-----------------------------------------------------------------------------
(* refreshSessions. *)

\* a step of refreshSessions stays within it
LEMMA RefreshFrame ==
    ASSUME IInv, NEW s \in {"enumerate", "read", "merge", "register", "release",
                             "registerCurrent", "emit"},
           RefreshGoto(s), step \in RefreshSteps, worker \in {"init", "work"},
           worker = "init" => step # "begin",
           s = "registerCurrent" => worker = "init", s = "emit" => worker = "work"
    PROVE  /\ PlaceInv' /\ WorkInv' /\ ManagerInv' /\ VersionInv'
           /\ updating = NoUpdate /\ owner \in {"new", "open", "waitLoop"}
           /\ UNCHANGED <<live, born, ver, changes, currents, thread, closed, workCh,
                          eventsClosed, loop, loopWork, owner, worker, events, mgrSubs,
                          managerRefs, updating>>
           /\ step' = s
<1> USE DEF IInv
<1>1. /\ UNCHANGED <<live, born, ver, changes, currents, thread, closed, workCh, eventsClosed,
                     loop, loopWork, owner, worker, events, mgrSubs, managerRefs, updating>>
      /\ step' = s
  BY DEF RefreshGoto, Goto, winVars, loopVars
<1>2. updating = NoUpdate
  BY DEF LocalInv, RefreshSteps
<1>3. owner \in {"new", "open", "waitLoop"}
  BY DEF PlaceInv, TypeOK
<1>4. PlaceInv'
  BY <1>1 DEF PlaceInv, RefreshSteps
<1>5. WorkInv'
  BY <1>1 DEF WorkInv, RefreshSteps
<1>6. ManagerInv'
  BY <1>1, <1>3 DEF ManagerInv, RefreshSteps
<1>7. VersionInv'
  BY <1>1 DEF VersionInv
<1> QED BY <1>1, <1>2, <1>3, <1>4, <1>5, <1>6, <1>7

\* a step of refreshSessions keeps the types of what it leaves alone
LEMMA RefreshType ==
    ASSUME IInv, NEW s \in {"enumerate", "read", "merge", "register", "release",
                             "registerCurrent", "emit"},
           RefreshGoto(s), failures' \in 0..MaxFailures, subs' \subseteq Objects \X Events,
           sessions' \in [Ids -> Entries \cup {NoEntry}], refs' \in [Objects -> Nat],
           view' \subseteq Objects, enumerated' \subseteq Objects \X Versions,
           seen' \subseteq Ids,
           registering' \in Ids \cup {NoId}, removed' \subseteq Entries,
           missed' \subseteq {"init", "dropped", "failed"}, lost' \subseteq Objects
    PROVE  TypeOK'
<1>1. /\ UNCHANGED <<live, born, ver, changes, currents, thread, closed, workCh, eventsClosed,
                     loop, loopWork, owner, worker, events, mgrSubs, managerRefs, updating>>
      /\ step' = s
  BY DEF RefreshGoto, Goto, winVars, loopVars
<1> QED BY <1>1 DEF IInv, TypeOK

\* the reading of the sessions
LEMMA ReadingKeeps ==
    ASSUME IInv, \/ RefreshBegins \/ GetSessions \/ MergeBegins \/ RefreshEnds
                 \/ \E o \in view : ReadFails(o)
    PROVE  IInv'
<1> USE IdAssumption, BoundAssumption DEF IInv
<1>1. /\ worker \in {"init", "work"} /\ step \in {"begin", "enumerate", "read", "release"}
      /\ worker = "init" => step # "begin"
  BY DEF RefreshBegins, GetSessions, MergeBegins, RefreshEnds, ReadFails, Working, Refreshing
<1>2. PICK s \in {"enumerate", "read", "merge", "registerCurrent", "emit"} :
          /\ RefreshGoto(s)
          /\ s = "registerCurrent" => worker = "init"
          /\ s = "emit" => worker = "work"
  BY <1>1 DEF RefreshBegins, GetSessions, MergeBegins, RefreshEnds, ReadFails
<1>3. /\ PlaceInv' /\ WorkInv' /\ ManagerInv' /\ VersionInv'
      /\ updating = NoUpdate /\ owner \in {"new", "open", "waitLoop"}
      /\ UNCHANGED <<live, born, ver, changes, currents, thread, closed, workCh, eventsClosed,
                     loop, loopWork, owner, worker, events, mgrSubs, managerRefs, updating>>
      /\ step' = s
  BY <1>1, <1>2, RefreshFrame DEF RefreshSteps
<1>4. UNCHANGED <<subs, sessions, refs, enumerated, seen, registering, removed>>
  BY DEF RefreshBegins, GetSessions, MergeBegins, RefreshEnds, ReadFails
<1>5. /\ view' \subseteq Objects
      /\ view' \subseteq view \/ enumerated = {}
      /\ view' # {} => s = "read"
      /\ enumerated # {} \/ seen # {} => s \in {"read", "merge"}
      /\ removed # {} => s = "release"
  <2>1. live \subseteq Objects /\ view \subseteq Objects
    BY DEF TypeOK
  <2>2. CASE RefreshBegins
    BY <2>1, <2>2, <1>3 DEF RefreshBegins, LocalInv, Working
  <2>3. CASE GetSessions
    <3>1. step = "enumerate" /\ step' = "read" /\ view' \subseteq live
      BY <2>3 DEF GetSessions, RefreshGoto, Goto, Refreshing
    <3> QED BY <2>1, <3>1, <1>3 DEF LocalInv
  <2>4. CASE MergeBegins
    <3>1. step = "read" /\ step' = "merge" /\ view' = {}
      BY <2>4 DEF MergeBegins, RefreshGoto, Goto, Refreshing
    <3> QED BY <3>1, <1>3 DEF LocalInv
  <2>5. CASE RefreshEnds
    <3>1. step = "release" /\ removed = {} /\ view' = view
      BY <2>5 DEF RefreshEnds, Refreshing
    <3> QED BY <2>1, <3>1, <1>3 DEF LocalInv
  <2>6. CASE \E o \in view : ReadFails(o)
    <3>1. step = "read" /\ step' = "read" /\ view' \subseteq view
      BY <2>6 DEF ReadFails, RefreshGoto, Goto, Refreshing
    <3> QED BY <2>1, <3>1, <1>3 DEF LocalInv
  <2> QED BY <2>2, <2>3, <2>4, <2>5, <2>6
<1>6. failures' \in 0..MaxFailures
  BY DEF RefreshBegins, GetSessions, MergeBegins, RefreshEnds, ReadFails, Fails, TypeOK
<1>7. missed' \subseteq {"init", "dropped", "failed"} /\ lost' \subseteq Objects
  BY WorksAre, ForgetKeeps DEF RefreshBegins, GetSessions, MergeBegins, RefreshEnds, ReadFails,
      history, TypeOK
<1>8. TypeOK'
  <2>1. /\ subs' \subseteq Objects \X Events
        /\ sessions' \in [Ids -> Entries \cup {NoEntry}] /\ refs' \in [Objects -> Nat]
        /\ enumerated' \subseteq Objects \X Versions /\ seen' \subseteq Ids
        /\ registering' \in Ids \cup {NoId} /\ removed' \subseteq Entries
    BY <1>4 DEF TypeOK
  <2> QED BY <1>2, <1>5, <1>6, <1>7, <2>1, RefreshType
<1>9. EntryInv'
  BY <1>4, <1>5 DEF EntryInv, Known
<1>10. /\ \A o \in Objects : HasEntry(o)' <=> HasEntry(o)
       /\ \A o \in Objects : JobRefs(o)' = JobRefs(o)
  BY <1>3, <1>4 DEF HasEntry, Known, JobRefs
<1>11. RefsInv'
  BY <1>4, <1>10 DEF RefsInv
<1>12. SubsInv' /\ GateInv'
  BY <1>3, <1>4, <1>10, SubsFrame, GateFrame
<1>13. LocalInv'
  BY <1>3, <1>4, <1>5, <1>2 DEF LocalInv
<1> QED BY <1>3, <1>8, <1>9, <1>11, <1>12, <1>13

\* what the steps of refreshSessions do to the entries and the references
LEMMA ReadSessionKeeps == ASSUME IInv, NEW o \in view, ReadSession(o) PROVE IInv'
<1> USE IdAssumption, BoundAssumption DEF IInv
<1>1. /\ step = "read" /\ worker \in {"init", "work"} /\ RefreshGoto("read") /\ o \in Objects
      /\ view' = view \ {o} /\ enumerated' = enumerated \cup {<<o, ver[o]>>}
      /\ seen' = seen \cup {IdOf[o]} /\ refs' = [refs EXCEPT ![o] = @ + 1] /\ lost' = lost \ {o}
      /\ UNCHANGED <<failures, subs, sessions, registering, removed, missed>>
  BY DEF ReadSession, Refreshing, TypeOK
<1>2. /\ PlaceInv' /\ WorkInv' /\ ManagerInv' /\ VersionInv'
      /\ updating = NoUpdate /\ owner \in {"new", "open", "waitLoop"}
      /\ UNCHANGED <<live, born, ver, changes, currents, thread, closed, workCh, eventsClosed,
                     loop, loopWork, owner, worker, events, mgrSubs, managerRefs, updating>>
      /\ step' = "read"
  BY <1>1, RefreshFrame DEF RefreshSteps
<1>3. ver[o] \in Versions /\ IdOf[o] \in Ids /\ refs \in [Objects -> Nat]
  BY <1>1 DEF TypeOK
<1>4. TypeOK'
  <2>1. /\ enumerated' \subseteq Objects \X Versions /\ seen' \subseteq Ids
        /\ refs' \in [Objects -> Nat]
    BY <1>1, <1>3 DEF TypeOK
  <2>2. /\ failures' \in 0..MaxFailures /\ subs' \subseteq Objects \X Events
        /\ sessions' \in [Ids -> Entries \cup {NoEntry}] /\ view' \subseteq Objects
        /\ registering' \in Ids \cup {NoId} /\ removed' \subseteq Entries
        /\ missed' \subseteq {"init", "dropped", "failed"} /\ lost' \subseteq Objects
    BY <1>1 DEF TypeOK
  <2> QED BY <1>1, <2>1, <2>2, RefreshType
<1>5. \A e \in enumerated : e[1] # o
  BY DEF EntryInv
<1>6. EntryInv'
  BY <1>1, <1>5 DEF EntryInv, Known
<1>7. \A p \in Objects : /\ refs[p] \in Nat /\ JobRefs(p) \in Nat
                         /\ refs'[p] = IF p = o THEN refs[p] + 1 ELSE refs[p]
                         /\ JobRefs(p)' = IF p = o THEN JobRefs(p) + 1 ELSE JobRefs(p)
  <2>1. \A p \in Objects : /\ refs[p] \in Nat
                           /\ refs'[p] = IF p = o THEN refs[p] + 1 ELSE refs[p]
    BY <1>1, <1>3
  <2>2. \A p \in Objects : /\ JobRefs(p) = IF \E e \in enumerated : e[1] = p THEN 1 ELSE 0
                           /\ JobRefs(p)' = IF \E e \in enumerated' : e[1] = p THEN 1 ELSE 0
    BY <1>2 DEF JobRefs, CountIf
  <2>3. \A p \in Objects : (\E e \in enumerated' : e[1] = p)
                             <=> p = o \/ \E e \in enumerated : e[1] = p
    <3> DEFINE d == <<o, ver[o]>>
    <3>1. d[1] = o /\ enumerated' = enumerated \cup {d}
      BY <1>1
    <3> HIDE DEF d
    <3> QED BY <3>1
  <2> QED BY <1>5, <2>1, <2>2, <2>3
<1>8. \A p \in Objects : HasEntry(p)' <=> HasEntry(p)
  BY <1>1 DEF HasEntry, Known
<1>9. /\ \A p \in Objects : HasEntry(p) => sessions[IdOf[p]].handlers \in Nat
      /\ \A r \in removed : r.handlers \in Nat
  BY EntryParts DEF HasEntry
<1>10. RefsInv'
  BY <1>1, <1>7, <1>8, <1>9 DEF RefsInv
<1>11. SubsInv' /\ GateInv'
  BY <1>1, <1>2, <1>8, SubsFrame, GateFrame
<1>12. LocalInv'
  BY <1>1, <1>2 DEF LocalInv, Known
<1> QED BY <1>2, <1>4, <1>6, <1>10, <1>11, <1>12

\* a known session: the new reference is let go
LEMMA MergeExistingKeeps == ASSUME IInv, NEW e \in enumerated, MergeExisting(e) PROVE IInv'
<1> USE IdAssumption, BoundAssumption DEF IInv
<1>1. /\ step = "merge" /\ worker \in {"init", "work"} /\ RefreshGoto("merge")
      /\ IdOf[e[1]] \in Known
      /\ sessions' = [sessions EXCEPT ![IdOf[e[1]]].info = e[2]]
      /\ refs' = [refs EXCEPT ![e[1]] = @ - 1] /\ enumerated' = enumerated \ {e}
      /\ UNCHANGED <<failures, subs, view, seen, registering, removed, missed, lost>>
  BY DEF MergeExisting, Refreshing, history
<1>2. /\ PlaceInv' /\ WorkInv' /\ ManagerInv' /\ VersionInv'
      /\ updating = NoUpdate /\ owner \in {"new", "open", "waitLoop"}
      /\ UNCHANGED <<live, born, ver, changes, currents, thread, closed, workCh, eventsClosed,
                     loop, loopWork, owner, worker, events, mgrSubs, managerRefs, updating>>
      /\ step' = "merge"
  BY <1>1, RefreshFrame DEF RefreshSteps
<1>3. e[1] \in Objects /\ e[2] \in Versions /\ refs \in [Objects -> Nat]
  BY EntryParts DEF TypeOK
<1>4. /\ sessions' \in [Ids -> Entries \cup {NoEntry}]
      /\ Known' = Known
      /\ \A j \in Known : /\ sessions'[j].ptr = sessions[j].ptr
                          /\ sessions'[j].handlers = sessions[j].handlers
      /\ \A p \in Objects : HasEntry(p)' <=> HasEntry(p)
  BY <1>1, <1>3, InfoChange
<1>5. \A p \in Objects : /\ refs[p] \in Nat /\ JobRefs(p) \in Nat /\ refs[p] >= JobRefs(p)
                         /\ refs'[p] = IF p = e[1] THEN refs[p] - 1 ELSE refs[p]
                         /\ JobRefs(p)' = IF p = e[1] THEN JobRefs(p) - 1 ELSE JobRefs(p)
                         /\ p = e[1] => JobRefs(p) = 1
  <2>1. \A p \in Objects : refs'[p] = IF p = e[1] THEN refs[p] - 1 ELSE refs[p]
    BY <1>1, <1>3
  <2>2. \A p \in Objects : /\ JobRefs(p) = IF \E f \in enumerated : f[1] = p THEN 1 ELSE 0
                           /\ JobRefs(p)' = IF \E f \in enumerated' : f[1] = p THEN 1 ELSE 0
    BY <1>2 DEF JobRefs, CountIf
  <2>3. \A f \in enumerated : f[1] = e[1] => f = e
    BY DEF EntryInv
  <2>4. \A p \in Objects : (\E f \in enumerated' : f[1] = p)
                             <=> p # e[1] /\ \E f \in enumerated : f[1] = p
    BY <1>1, <2>3
  <2> QED BY <2>1, <2>2, <2>4, JobRefsAre
<1>6. TypeOK'
  <2>1. refs' \in [Objects -> Nat]
    <3>1. refs[e[1]] - 1 \in Nat
      BY <1>3, <1>5
    <3> QED BY <1>1, <1>3, <3>1
  <2>2. /\ failures' \in 0..MaxFailures /\ subs' \subseteq Objects \X Events
        /\ view' \subseteq Objects /\ enumerated' \subseteq Objects \X Versions
        /\ seen' \subseteq Ids
        /\ registering' \in Ids \cup {NoId} /\ removed' \subseteq Entries
        /\ missed' \subseteq {"init", "dropped", "failed"} /\ lost' \subseteq Objects
    BY <1>1 DEF TypeOK
  <2> QED BY <1>1, <1>4, <2>1, <2>2, RefreshType
<1>7. EntryInv'
  BY <1>1, <1>4 DEF EntryInv
<1>8. \A p \in Objects : HasEntry(p) => /\ sessions[IdOf[p]].handlers \in Nat
                                        /\ sessions'[IdOf[p]].handlers =
                                               sessions[IdOf[p]].handlers
  BY <1>4, EntryParts DEF HasEntry
<1>9. \A r \in removed : r.handlers \in Nat
  BY EntryParts
<1>10. RefsInv'
  BY <1>1, <1>4, <1>5, <1>8, <1>9 DEF RefsInv
<1>11. SubsInv' /\ GateInv'
  BY <1>1, <1>2, <1>4, <1>8, SubsFrame, GateFrame
<1>12. LocalInv'
  BY <1>1, <1>2 DEF LocalInv
<1> QED BY <1>2, <1>6, <1>7, <1>10, <1>11, <1>12

\* a new session: the new reference becomes that of the entry
LEMMA MergeNewKeeps == ASSUME IInv, NEW e \in enumerated, MergeNew(e) PROVE IInv'
<1> USE IdAssumption, BoundAssumption DEF IInv
<1> DEFINE o     == e[1]
           id    == IdOf[o]
           entry == [ptr |-> o, info |-> e[2], handlers |-> 0]
<1>1. /\ step = "merge" /\ worker \in {"init", "work"} /\ RefreshGoto("register")
      /\ id \notin Known /\ sessions' = [sessions EXCEPT ![id] = entry]
      /\ enumerated' = enumerated \ {e} /\ registering' = id
      /\ UNCHANGED <<failures, subs, refs, view, seen, removed, missed, lost>>
  BY DEF MergeNew, Refreshing, history
<1>2. /\ PlaceInv' /\ WorkInv' /\ ManagerInv' /\ VersionInv'
      /\ updating = NoUpdate /\ owner \in {"new", "open", "waitLoop"}
      /\ UNCHANGED <<live, born, ver, changes, currents, thread, closed, workCh, eventsClosed,
                     loop, loopWork, owner, worker, events, mgrSubs, managerRefs, updating>>
      /\ step' = "register"
  BY <1>1, RefreshFrame DEF RefreshSteps
<1>3. /\ o \in Objects /\ id \in Ids /\ sessions \in [Ids -> Entries \cup {NoEntry}]
      /\ entry \in Entries /\ entry # NoEntry
      /\ entry.ptr = o /\ entry.handlers = 0
  BY EntryParts, EntryAssumption DEF TypeOK, Entries
<1>r. removed = {}
  BY <1>1 DEF LocalInv
<1> HIDE DEF o, id, entry
<1>4. \A j \in Ids : sessions'[j] = IF j = id THEN entry ELSE sessions[j]
  BY <1>1, <1>3
<1>5. Known' = Known \cup {id}
  BY <1>3, <1>4 DEF Known
<1>6. /\ ~HasEntry(o) /\ HasEntry(o)' /\ sessions'[IdOf[o]].handlers = 0
      /\ \A p \in Objects \ {o} :
             /\ HasEntry(p)' <=> HasEntry(p)
             /\ HasEntry(p) => /\ sessions'[IdOf[p]] = sessions[IdOf[p]]
                               /\ sessions[IdOf[p]].handlers \in Nat
  BY <1>1, <1>3, <1>4, <1>5, EntryParts DEF HasEntry, id
<1>7. \A p \in Objects : /\ refs[p] \in Nat /\ JobRefs(p) \in Nat
                         /\ JobRefs(p)' = IF p = o THEN 0 ELSE JobRefs(p)
                         /\ p = o => JobRefs(p) = 1
  <2>2. \A p \in Objects : /\ JobRefs(p) = IF \E f \in enumerated : f[1] = p THEN 1 ELSE 0
                           /\ JobRefs(p)' = IF \E f \in enumerated' : f[1] = p THEN 1 ELSE 0
    BY <1>2 DEF JobRefs, CountIf
  <2>3. \A f \in enumerated : f[1] = o => f = e
    BY DEF EntryInv, o
  <2>4. \A p \in Objects : (\E f \in enumerated' : f[1] = p)
                             <=> p # o /\ \E f \in enumerated : f[1] = p
    BY <1>1, <2>3 DEF o
  <2>5. \E f \in enumerated : f[1] = o
    BY DEF o
  <2> QED BY <2>2, <2>4, <2>5, JobRefsAre
<1>8. TypeOK'
  <2>1. /\ sessions' \in [Ids -> Entries \cup {NoEntry}] /\ registering' \in Ids
    BY <1>1, <1>3
  <2>2. /\ failures' \in 0..MaxFailures /\ subs' \subseteq Objects \X Events
        /\ refs' \in [Objects -> Nat]
        /\ view' \subseteq Objects /\ enumerated' \subseteq Objects \X Versions
        /\ seen' \subseteq Ids
        /\ removed' \subseteq Entries
        /\ missed' \subseteq {"init", "dropped", "failed"} /\ lost' \subseteq Objects
    BY <1>1 DEF TypeOK
  <2> QED BY <1>1, <2>1, <2>2, RefreshType
<1>9. EntryInv'
  <2>1. \A j \in Known' : IdOf[sessions'[j].ptr] = j
    BY <1>3, <1>4, <1>5 DEF EntryInv, Known, id
  <2> QED BY <2>1, <1>1, <1>r DEF EntryInv
<1>10. RefsInv'
  <2>1. ASSUME NEW p \in Objects
        PROVE  /\ HasEntry(p)' => refs'[p] = JobRefs(p)' + 1 + sessions'[IdOf[p]].handlers
               /\ ~HasEntry(p)' => refs'[p] = JobRefs(p)'
    <3>1. CASE p = o
      <4>1. refs[o] = 1
        BY <1>r, <1>3, <1>6, <1>7 DEF RefsInv
      <4> QED BY <3>1, <4>1, <1>1, <1>3, <1>6, <1>7
    <3>2. CASE p # o
      <4>1. /\ HasEntry(p) => refs[p] = JobRefs(p) + 1 + sessions[IdOf[p]].handlers
            /\ ~HasEntry(p) => refs[p] = JobRefs(p)
        BY <1>r DEF RefsInv
      <4> QED BY <3>2, <4>1, <1>1, <1>6, <1>7
    <3> QED BY <3>1, <3>2
  <2> QED BY <2>1, <1>1, <1>r DEF RefsInv
<1>11. SubsInv'
  <2>1. ASSUME NEW p \in Objects, NEW k \in Events
        PROVE  <<p, k>> \in subs' <=> HasEntry(p)' /\ k <= sessions'[IdOf[p]].handlers
    <3>1. <<p, k>> \in subs <=> HasEntry(p) /\ k <= sessions[IdOf[p]].handlers
      BY <1>r DEF SubsInv
    <3> QED BY <3>1, <1>1, <1>6 DEF Events
  <2> QED BY <2>1, <1>1, <1>r DEF SubsInv
<1>12. GateInv'
  BY <1>1, <1>2, GateFrame
<1>13. LocalInv'
  <2>1. registering' \in Known' /\ sessions'[registering'].handlers < NumEvents
    BY <1>1, <1>3, <1>4, <1>5
  <2> QED BY <1>1, <1>2, <1>r, <2>1 DEF LocalInv
<1> QED BY <1>2, <1>8, <1>9, <1>10, <1>11, <1>12, <1>13

\* changing an entry's number of handlers is seen nowhere else
LEMMA HandlersChange ==
    ASSUME IInv, NEW id \in Known, NEW n \in 0..NumEvents,
           sessions' = [sessions EXCEPT ![id].handlers = n]
    PROVE  /\ sessions' \in [Ids -> Entries \cup {NoEntry}]
           /\ Known' = Known
           /\ \A j \in Known : /\ sessions'[j].ptr = sessions[j].ptr
                               /\ sessions'[j].info = sessions[j].info
                               /\ sessions'[j].handlers =
                                      IF j = id THEN n ELSE sessions[j].handlers
           /\ \A o \in Objects : HasEntry(o)' <=> HasEntry(o)
<1>1. sessions \in [Ids -> Entries \cup {NoEntry}] /\ sessions[id] \in Entries /\ id \in Ids
  BY EntryParts DEF IInv, TypeOK, Known
<1>2. /\ [sessions[id] EXCEPT !.handlers = n] \in Entries
      /\ [sessions[id] EXCEPT !.handlers = n].ptr = sessions[id].ptr
      /\ [sessions[id] EXCEPT !.handlers = n].info = sessions[id].info
      /\ [sessions[id] EXCEPT !.handlers = n].handlers = n
  BY <1>1 DEF Entries
<1>3. sessions' = [sessions EXCEPT ![id] = [sessions[id] EXCEPT !.handlers = n]]
  OBVIOUS
<1>4. \A j \in Ids : sessions'[j] = IF j = id THEN [sessions[id] EXCEPT !.handlers = n]
                                           ELSE sessions[j]
  BY <1>1, <1>3
<1>5. sessions' \in [Ids -> Entries \cup {NoEntry}]
  BY <1>1, <1>2, <1>3
<1>6. [sessions[id] EXCEPT !.handlers = n] # NoEntry
  BY <1>2, EntryAssumption
<1>7. Known' = Known
  BY <1>4, <1>6 DEF Known
<1>8. ASSUME NEW j \in Known
      PROVE  /\ sessions'[j].ptr = sessions[j].ptr
             /\ sessions'[j].info = sessions[j].info
             /\ sessions'[j].handlers = IF j = id THEN n ELSE sessions[j].handlers
  <2>1. j \in Ids
    BY DEF Known
  <2>2. CASE j = id
    BY <1>2, <1>4, <2>1, <2>2
  <2>3. CASE j # id
    BY <1>4, <2>1, <2>3
  <2> QED BY <2>2, <2>3
<1>9. \A o \in Objects : HasEntry(o)' <=> HasEntry(o)
  BY <1>7, <1>8 DEF HasEntry
<1> QED BY <1>5, <1>7, <1>8, <1>9

\* the events of a new session are registered, one after the other or none
LEMMA RegisteringKeeps == ASSUME IInv, RegisterEvent \/ RegisterFails PROVE IInv'
<1> USE IdAssumption, BoundAssumption DEF IInv
<1> DEFINE id == registering
           o  == sessions[id].ptr
           h  == sessions[id].handlers
<1>1. /\ step = "register" /\ worker \in {"init", "work"}
      /\ UNCHANGED <<view, enumerated, seen, removed, missed, lost>>
  BY DEF RegisterEvent, RegisterFails, Refreshing, history
<1>2. id \in Known /\ h < NumEvents
  BY <1>1 DEF LocalInv
<1>3. /\ o \in Objects /\ IdOf[o] = id /\ h \in Nat /\ HasEntry(o)
      /\ refs \in [Objects -> Nat] /\ registering \in Ids
  BY <1>2, EntryParts DEF EntryInv, HasEntry, TypeOK, Known
<1>4. PICK s \in {"merge", "register"}, n \in 0..NumEvents :
          /\ RefreshGoto(s)
          /\ sessions' = [sessions EXCEPT ![id].handlers = n]
          /\ registering' \in {registering, NoId}
          /\ s = "register" => registering' = registering /\ n < NumEvents
          /\ failures' \in 0..MaxFailures
          /\ \/ /\ n = h + 1 /\ subs' = subs \cup {<<o, h + 1>>}
                /\ refs' = [refs EXCEPT ![o] = @ + 1]
             \/ n = 0 /\ subs' = subs \ HandlersOf(o) /\ refs' = [refs EXCEPT ![o] = @ - h]
                /\ QuietHandlers(o)
  <2>1. CASE RegisterEvent
    <3>1. /\ subs' = subs \cup {<<o, h + 1>>} /\ refs' = [refs EXCEPT ![o] = @ + 1]
          /\ sessions' = [sessions EXCEPT ![id].handlers = h + 1]
          /\ registering' = IF h + 1 = NumEvents THEN NoId ELSE registering
          /\ RefreshGoto(IF h + 1 = NumEvents THEN "merge" ELSE "register")
          /\ failures' = failures
      BY <2>1 DEF RegisterEvent
    <3>2. h + 1 \in 0..NumEvents /\ failures' \in 0..MaxFailures
      BY <1>2, <1>3, <3>1 DEF TypeOK
    <3> HIDE DEF id, o, h
    <3>3. CASE h + 1 = NumEvents
      BY <3>1, <3>2, <3>3
    <3>4. CASE h + 1 # NumEvents
      <4>1. h + 1 < NumEvents
        BY <3>2, <3>4
      <4> QED BY <3>1, <3>2, <3>4, <4>1
    <3> QED BY <3>3, <3>4
  <2>2. CASE RegisterFails
    <3>1. /\ subs' = subs \ HandlersOf(o) /\ refs' = [refs EXCEPT ![o] = @ - h]
          /\ sessions' = [sessions EXCEPT ![id].handlers = 0] /\ QuietHandlers(o)
          /\ registering' = NoId /\ RefreshGoto("merge") /\ Fails
      BY <2>2 DEF RegisterFails
    <3>2. failures' \in 0..MaxFailures /\ 0 \in 0..NumEvents
      BY <3>1 DEF Fails, TypeOK
    <3> HIDE DEF id, o, h
    <3> QED BY <3>1, <3>2
  <2> QED BY <2>1, <2>2
<1> HIDE DEF id, o, h
<1>5. /\ PlaceInv' /\ WorkInv' /\ ManagerInv' /\ VersionInv'
      /\ updating = NoUpdate /\ owner \in {"new", "open", "waitLoop"}
      /\ UNCHANGED <<live, born, ver, changes, currents, thread, closed, workCh, eventsClosed,
                     loop, loopWork, owner, worker, events, mgrSubs, managerRefs, updating>>
      /\ step' = s
  BY <1>1, <1>4, RefreshFrame DEF RefreshSteps
<1>r. removed = {}
  BY <1>1 DEF LocalInv
<1>6. /\ sessions' \in [Ids -> Entries \cup {NoEntry}]
      /\ Known' = Known
      /\ \A j \in Known : /\ sessions'[j].ptr = sessions[j].ptr
                          /\ sessions'[j].info = sessions[j].info
                          /\ sessions'[j].handlers = IF j = id THEN n ELSE sessions[j].handlers
      /\ \A p \in Objects : HasEntry(p)' <=> HasEntry(p)
  BY <1>2, <1>4, HandlersChange
<1>7. /\ \A p \in Objects : HasEntry(p) => sessions[IdOf[p]].handlers \in Nat
      /\ \A p \in Objects \ {o} :
             HasEntry(p) => sessions'[IdOf[p]].handlers = sessions[IdOf[p]].handlers
      /\ sessions'[IdOf[o]].handlers = n /\ sessions[IdOf[o]].handlers = h /\ n \in Nat
  <2>1. \A p \in Objects : HasEntry(p) => sessions[IdOf[p]].handlers \in Nat
    BY EntryParts DEF HasEntry
  <2>2. \A p \in Objects : HasEntry(p) /\ IdOf[p] = id => p = o
    BY DEF HasEntry, o
  <2>3. sessions[IdOf[o]].handlers = h
    BY <1>3 DEF h
  <2> QED BY <2>1, <2>2, <2>3, <1>2, <1>3, <1>6 DEF HasEntry
<1>8. \A p \in Objects : /\ JobRefs(p)' = JobRefs(p) /\ JobRefs(p) \in Nat
                         /\ refs[p] \in Nat
                         /\ refs'[p] = IF p = o THEN refs[p] - h + n ELSE refs[p]
  <2>1. \A p \in Objects : JobRefs(p)' = JobRefs(p) /\ JobRefs(p) \in Nat /\ refs[p] \in Nat
    BY <1>1, <1>5, JobRefsAre DEF JobRefs
  <2>2. \A p \in Objects : refs'[p] = IF p = o THEN refs[p] - h + n ELSE refs[p]
    BY <1>3, <1>4, <2>1
  <2> QED BY <2>1, <2>2
<1>9. refs[o] = JobRefs(o) + 1 + h
  BY <1>3, <1>7 DEF RefsInv
<1>10. TypeOK'
  <2>1. refs' \in [Objects -> Nat]
    <3>1. refs[o] - h \in Nat /\ refs[o] + 1 \in Nat
      BY <1>3, <1>8, <1>9
    <3> QED BY <1>3, <1>4, <3>1
  <2>2. subs' \subseteq Objects \X Events
    <3>1. h + 1 \in Events
      BY <1>2, <1>3 DEF Events
    <3>2. subs \subseteq Objects \X Events
      BY DEF TypeOK
    <3> QED BY <1>3, <1>4, <3>1, <3>2
  <2>3. /\ view' \subseteq Objects /\ enumerated' \subseteq Objects \X Versions
        /\ seen' \subseteq Ids
        /\ registering' \in Ids \cup {NoId} /\ removed' \subseteq Entries
        /\ missed' \subseteq {"init", "dropped", "failed"} /\ lost' \subseteq Objects
    BY <1>1, <1>3, <1>4 DEF TypeOK
  <2> QED BY <1>4, <1>6, <2>1, <2>2, <2>3, RefreshType
<1>11. EntryInv'
  BY <1>1, <1>6, <1>r DEF EntryInv
<1>12. RefsInv'
  <2>1. ASSUME NEW p \in Objects
        PROVE  /\ HasEntry(p)' => refs'[p] = JobRefs(p)' + 1 + sessions'[IdOf[p]].handlers
               /\ ~HasEntry(p)' => refs'[p] = JobRefs(p)'
    <3>1. CASE p = o
      BY <3>1, <1>3, <1>6, <1>7, <1>8, <1>9
    <3>2. CASE p # o
      <4>1. /\ HasEntry(p) => refs[p] = JobRefs(p) + 1 + sessions[IdOf[p]].handlers
            /\ ~HasEntry(p) => refs[p] = JobRefs(p)
        BY <1>r DEF RefsInv
      <4> QED BY <3>2, <4>1, <1>6, <1>7, <1>8
    <3> QED BY <3>1, <3>2
  <2> QED BY <2>1, <1>1, <1>r DEF RefsInv
<1>13. SubsInv'
  <2>1. ASSUME NEW p \in Objects, NEW k \in Events
        PROVE  <<p, k>> \in subs' <=> HasEntry(p)' /\ k <= sessions'[IdOf[p]].handlers
    <3>1. <<p, k>> \in subs <=> HasEntry(p) /\ k <= sessions[IdOf[p]].handlers
      BY <1>r DEF SubsInv
    <3>2. CASE p # o
      BY <3>1, <3>2, <1>4, <1>6, <1>7 DEF HandlersOf
    <3>3. CASE p = o
      <4>1. <<o, k>> \in subs <=> k <= h
        BY <3>1, <3>3, <1>3, <1>7
      <4>2. <<o, k>> \in subs' <=> k <= n
        BY <4>1, <1>3, <1>4 DEF HandlersOf, Events
      <4> QED BY <3>3, <4>2, <1>3, <1>6, <1>7
    <3> QED BY <3>2, <3>3
  <2> QED BY <2>1, <1>1, <1>r DEF SubsInv
<1>14. GateInv'
  <2>1. CASE subs \subseteq subs'
    BY <2>1, <1>5, GateFrame
  <2>2. CASE subs' = subs \ HandlersOf(o) /\ QuietHandlers(o)
    BY <2>2, <1>5 DEF GateInv, QuietHandlers, Inside
  <2> QED BY <2>1, <2>2, <1>4
<1>15. LocalInv'
  <2>1. s = "register" => registering' \in Known' /\ sessions'[registering'].handlers < NumEvents
    BY <1>2, <1>4, <1>6 DEF id
  <2> QED BY <1>1, <1>5, <1>r, <2>1 DEF LocalInv
<1> QED BY <1>5, <1>10, <1>11, <1>12, <1>13, <1>14, <1>15

\* entries that leave m.sessions are still entries, with their references and handlers
LEMMA MovingKeeps ==
    ASSUME IInv, NEW kept \in SUBSET Ids, removed = {}, enumerated = {}, enumerated' = {},
           removed' = {sessions[id] : id \in Known \ kept},
           sessions' = [id \in Ids |-> IF id \in kept THEN sessions[id] ELSE NoEntry],
           UNCHANGED <<subs, refs, updating>>
    PROVE  /\ sessions' \in [Ids -> Entries \cup {NoEntry}] /\ removed' \subseteq Entries
           /\ Known' = Known \cap kept
           /\ EntryInv' /\ RefsInv' /\ SubsInv'
<1> USE DEF IInv
<1>1. sessions \in [Ids -> Entries \cup {NoEntry}] /\ \A id \in Known : sessions[id] \in Entries
  BY EntryParts DEF TypeOK
<1>2. sessions' \in [Ids -> Entries \cup {NoEntry}] /\ removed' \subseteq Entries
  BY <1>1
<1>3. \A id \in Ids : sessions'[id] = IF id \in kept THEN sessions[id] ELSE NoEntry
  OBVIOUS
<1>4. Known' = Known \cap kept
  BY <1>3 DEF Known
<1>5. \A id \in Known : IdOf[sessions[id].ptr] = id
  BY DEF EntryInv
<1>6. \A r \in removed' : /\ IdOf[r.ptr] \in Known \ kept /\ r = sessions[IdOf[r.ptr]]
  BY <1>5
<1>7. EntryInv'
  BY <1>3, <1>4, <1>5, <1>6 DEF EntryInv, Known
<1>8. ASSUME NEW o \in Objects
      PROVE  /\ HasEntry(o)' <=> HasEntry(o) /\ IdOf[o] \in kept
             /\ HasEntry(o)' => sessions'[IdOf[o]] = sessions[IdOf[o]]
             /\ \A r \in removed' : r.ptr = o => HasEntry(o) /\ IdOf[o] \notin kept
                                                 /\ r = sessions[IdOf[o]]
             /\ HasEntry(o) /\ IdOf[o] \notin kept => \E r \in removed' : r.ptr = o
  <2>1. IdOf[o] \in Ids
    BY IdAssumption
  <2>2. \A r \in removed' : r.ptr = o => /\ HasEntry(o) /\ IdOf[o] \notin kept
                                         /\ r = sessions[IdOf[o]]
    BY <1>6 DEF HasEntry
  <2>3. HasEntry(o) /\ IdOf[o] \notin kept => \E r \in removed' : r.ptr = o
    BY DEF HasEntry
  <2> QED BY <1>3, <1>4, <2>1, <2>2, <2>3 DEF HasEntry
<1>9. \A o \in Objects : JobRefs(o)' = JobRefs(o)
  BY DEF JobRefs
<1>10. RefsInv'
  <2>1. ASSUME NEW o \in Objects
        PROVE  /\ HasEntry(o)' => refs'[o] = JobRefs(o)' + 1 + sessions'[IdOf[o]].handlers
               /\ \A r \in removed' : r.ptr = o => refs'[o] = JobRefs(o)' + 1 + r.handlers
               /\ ~HasEntry(o)' /\ (\A r \in removed' : r.ptr # o) => refs'[o] = JobRefs(o)'
    <3>1. /\ HasEntry(o) => refs[o] = JobRefs(o) + 1 + sessions[IdOf[o]].handlers
          /\ ~HasEntry(o) => refs[o] = JobRefs(o)
      BY DEF RefsInv
    <3> QED BY <3>1, <1>8, <1>9
  <2> QED BY <2>1 DEF RefsInv
<1>11. SubsInv'
  <2>1. ASSUME NEW o \in Objects, NEW k \in Events
        PROVE  <<o, k>> \in subs' <=> \/ HasEntry(o)' /\ k <= sessions'[IdOf[o]].handlers
                                      \/ \E r \in removed' : r.ptr = o /\ k <= r.handlers
    <3>1. <<o, k>> \in subs' <=> HasEntry(o) /\ k <= sessions[IdOf[o]].handlers
      BY DEF SubsInv
    <3> QED BY <3>1, <1>8
  <2> QED BY <2>1 DEF SubsInv
<1> QED BY <1>2, <1>4, <1>7, <1>10, <1>11

\* entries not seen go on their way out
LEMMA SweepKeeps == ASSUME IInv, Sweep PROVE IInv'
<1> USE DEF IInv
<1>1. /\ step = "merge" /\ worker \in {"init", "work"} /\ RefreshGoto("release")
      /\ enumerated = {} /\ seen' = {}
      /\ removed' = {sessions[id] : id \in Known \ seen}
      /\ sessions' = [id \in Ids |-> IF id \in seen THEN sessions[id] ELSE NoEntry]
      /\ UNCHANGED <<failures, subs, refs, view, enumerated, registering, missed, lost>>
  BY DEF Sweep, Refreshing, history
<1>2. /\ PlaceInv' /\ WorkInv' /\ ManagerInv' /\ VersionInv'
      /\ updating = NoUpdate /\ owner \in {"new", "open", "waitLoop"}
      /\ UNCHANGED <<live, born, ver, changes, currents, thread, closed, workCh, eventsClosed,
                     loop, loopWork, owner, worker, events, mgrSubs, managerRefs, updating>>
      /\ step' = "release"
  BY <1>1, RefreshFrame DEF RefreshSteps
<1>3. removed = {} /\ seen \in SUBSET Ids
  BY <1>1 DEF LocalInv, TypeOK
<1>4. /\ sessions' \in [Ids -> Entries \cup {NoEntry}] /\ removed' \subseteq Entries
      /\ EntryInv' /\ RefsInv' /\ SubsInv'
  BY <1>1, <1>2, <1>3, MovingKeeps
<1>5. TypeOK'
  <2>1. /\ failures' \in 0..MaxFailures /\ subs' \subseteq Objects \X Events
        /\ refs' \in [Objects -> Nat]
        /\ view' \subseteq Objects /\ enumerated' \subseteq Objects \X Versions
        /\ seen' \subseteq Ids
        /\ registering' \in Ids \cup {NoId}
        /\ missed' \subseteq {"init", "dropped", "failed"} /\ lost' \subseteq Objects
    BY <1>1 DEF TypeOK
  <2> QED BY <1>1, <1>4, <2>1, RefreshType
<1>6. GateInv'
  BY <1>1, <1>2, GateFrame
<1>7. LocalInv'
  BY <1>1, <1>2 DEF LocalInv
<1> QED BY <1>2, <1>4, <1>5, <1>6, <1>7

\* an entry on its way out is let go
LEMMA ReleaseRemovedKeeps == ASSUME IInv, NEW r \in removed, ReleaseRemoved(r) PROVE IInv'
<1> USE DEF IInv
<1> DEFINE o == r.ptr
           h == r.handlers
<1>1. /\ step = "release" /\ worker \in {"init", "work"} /\ RefreshGoto("release")
      /\ QuietHandlers(o) /\ subs' = subs \ HandlersOf(o)
      /\ refs' = [refs EXCEPT ![o] = @ - (h + 1)] /\ removed' = removed \ {r}
      /\ UNCHANGED <<failures, sessions, view, enumerated, seen, registering, missed, lost>>
  BY DEF ReleaseRemoved, Refreshing, history
<1>2. /\ PlaceInv' /\ WorkInv' /\ ManagerInv' /\ VersionInv'
      /\ updating = NoUpdate /\ owner \in {"new", "open", "waitLoop"}
      /\ UNCHANGED <<live, born, ver, changes, currents, thread, closed, workCh, eventsClosed,
                     loop, loopWork, owner, worker, events, mgrSubs, managerRefs, updating>>
      /\ step' = "release"
  BY <1>1, RefreshFrame DEF RefreshSteps
<1>3. o \in Objects /\ h \in Nat /\ refs \in [Objects -> Nat] /\ r.ptr = o /\ r.handlers = h
  BY EntryParts, BoundAssumption DEF TypeOK
<1> HIDE DEF o, h
<1>4. /\ ~HasEntry(o) /\ \A s \in removed : s.ptr = o => s = r
  BY <1>3 DEF EntryInv, HasEntry
<1>5. \A p \in Objects : /\ JobRefs(p) = 0 /\ JobRefs(p)' = 0
                         /\ HasEntry(p)' <=> HasEntry(p)
  BY <1>1, <1>2 DEF JobRefs, CountIf, LocalInv, HasEntry, Known
<1>6. \A p \in Objects : /\ refs[p] \in Nat
                         /\ refs'[p] = IF p = o THEN refs[p] - (h + 1) ELSE refs[p]
  BY <1>1, <1>3
<1>7. refs[o] = 1 + h
  BY <1>3, <1>5 DEF RefsInv
<1>8. EntryInv'
  BY <1>1 DEF EntryInv, Known
<1>9. RefsInv'
  <2>1. ASSUME NEW p \in Objects
        PROVE  /\ HasEntry(p)' => refs'[p] = JobRefs(p)' + 1 + sessions'[IdOf[p]].handlers
               /\ \A s \in removed' : s.ptr = p => refs'[p] = JobRefs(p)' + 1 + s.handlers
               /\ ~HasEntry(p)' /\ (\A s \in removed' : s.ptr # p) => refs'[p] = JobRefs(p)'
    <3>1. CASE p = o
      BY <3>1, <1>1, <1>3, <1>4, <1>5, <1>6, <1>7
    <3>2. CASE p # o
      <4>1. /\ HasEntry(p) => refs[p] = JobRefs(p) + 1 + sessions[IdOf[p]].handlers
            /\ \A s \in removed : s.ptr = p => refs[p] = JobRefs(p) + 1 + s.handlers
            /\ ~HasEntry(p) /\ (\A s \in removed : s.ptr # p) => refs[p] = JobRefs(p)
        BY DEF RefsInv
      <4> QED BY <3>2, <4>1, <1>1, <1>3, <1>5, <1>6
    <3> QED BY <3>1, <3>2
  <2> QED BY <2>1 DEF RefsInv
<1>10. SubsInv'
  <2>1. ASSUME NEW p \in Objects, NEW k \in Events
        PROVE  <<p, k>> \in subs' <=> \/ HasEntry(p)' /\ k <= sessions'[IdOf[p]].handlers
                                      \/ \E s \in removed' : s.ptr = p /\ k <= s.handlers
    <3>1. <<p, k>> \in subs <=> \/ HasEntry(p) /\ k <= sessions[IdOf[p]].handlers
                                \/ \E s \in removed : s.ptr = p /\ k <= s.handlers
      BY DEF SubsInv
    <3>2. <<p, k>> \in subs' <=> <<p, k>> \in subs /\ p # o
      BY <1>1 DEF HandlersOf
    <3>3. CASE p = o
      BY <3>2, <3>3, <1>1, <1>4, <1>5
    <3>4. CASE p # o
      BY <3>1, <3>2, <3>4, <1>1, <1>3, <1>5
    <3> QED BY <3>3, <3>4
  <2> QED BY <2>1 DEF SubsInv
<1>11. GateInv'
  BY <1>1, <1>2 DEF GateInv, QuietHandlers, Inside
<1>12. LocalInv'
  BY <1>1, <1>2 DEF LocalInv
<1>13. TypeOK'
  <2>1. refs' \in [Objects -> Nat]
    <3>1. refs[o] - (h + 1) \in Nat
      BY <1>3, <1>7
    <3> QED BY <1>1, <1>3, <3>1
  <2>2. /\ failures' \in 0..MaxFailures /\ subs' \subseteq Objects \X Events
        /\ sessions' \in [Ids -> Entries \cup {NoEntry}]
        /\ view' \subseteq Objects /\ enumerated' \subseteq Objects \X Versions
        /\ seen' \subseteq Ids
        /\ registering' \in Ids \cup {NoId} /\ removed' \subseteq Entries
        /\ missed' \subseteq {"init", "dropped", "failed"} /\ lost' \subseteq Objects
    BY <1>1 DEF TypeOK
  <2> QED BY <1>1, <2>1, <2>2, RefreshType
<1> QED BY <1>2, <1>8, <1>9, <1>10, <1>11, <1>12, <1>13

\* every step of refreshSessions
LEMMA RefreshesKeep == ASSUME IInv, Refreshes PROVE IInv'
BY EndsKeep, ReadingKeeps, ReadSessionKeeps, MergeExistingKeeps, MergeNewKeeps, RegisteringKeeps,
   SweepKeeps, ReleaseRemovedKeeps DEF Refreshes

-----------------------------------------------------------------------------
(* Close. *)

\* steps of Close between its jobs
LEMMA OwnerKeeps ==
    ASSUME IInv, CloseBegins \/ CloseLoopExited \/ StopWorker \/ CloseEvents
    PROVE  IInv'
<1> USE DEF IInv
<1>1. /\ UNCHANGED dataVars
      /\ UNCHANGED <<live, born, ver, changes, currents, failures, mgrSubs, managerRefs, thread,
                     workCh, events, loop, loopWork, step, seen, registering, missed, lost>>
  BY DEF CloseBegins, CloseLoopExited, StopWorker, CloseEvents, OwnerGoto, dataVars, winVars,
      subVars, refVars, loopVars, history
<1>2. EntryInv' /\ RefsInv' /\ SubsInv' /\ GateInv' /\ VersionInv'
  BY <1>1, DataFrame, GateFrame DEF dataVars
<1>3. \/ /\ owner = "open" /\ owner' = "waitLoop" /\ closed' = TRUE
         /\ UNCHANGED <<eventsClosed, worker>>
      \/ /\ owner = "waitLoop" /\ owner' = "submit" /\ loop = "exited"
         /\ UNCHANGED <<closed, eventsClosed, worker>>
      \/ /\ owner = "stopWorker" /\ owner' = "closeEvents" /\ worker' = "ended"
         /\ UNCHANGED <<closed, eventsClosed>>
      \/ /\ owner = "closeEvents" /\ owner' = "closed" /\ eventsClosed' = TRUE
         /\ UNCHANGED <<closed, worker>>
  BY DEF CloseBegins, CloseLoopExited, StopWorker, CloseEvents, OwnerGoto
<1>4. TypeOK'
  <2>1. /\ closed' \in BOOLEAN /\ eventsClosed' \in BOOLEAN
        /\ owner' \in {"waitLoop", "submit", "closeEvents", "closed"}
        /\ worker' \in {"init", "none", "work", "close", "ended"}
    BY <1>3 DEF TypeOK
  <2> QED BY <1>1, <2>1 DEF TypeOK, dataVars
<1>5. PlaceInv'
  <2>1. /\ closed \in BOOLEAN /\ eventsClosed \in BOOLEAN
        /\ worker \in {"init", "none", "work", "close", "ended"}
    BY DEF TypeOK
  <2> QED BY <1>1, <1>3, <2>1 DEF PlaceInv, RefreshSteps
<1>6. WorkInv'
  BY <1>1, <1>3 DEF WorkInv, HasEntry, Known, dataVars
<1>7. ManagerInv'
  BY <1>1, <1>3 DEF ManagerInv, PlaceInv
<1>8. LocalInv'
  BY <1>1, <1>3 DEF LocalInv, Known, dataVars
<1> QED BY <1>2, <1>4, <1>5, <1>6, <1>7, <1>8

\* closeWinRT takes all that the monitor holds
LEMMA CloseJobStartsKeeps == ASSUME IInv, CloseJobStarts PROVE IInv'
<1> USE DEF IInv
<1>1. /\ owner = "submit" /\ owner' = "running" /\ worker = "none" /\ worker' = "close"
      /\ step' = "closeHandlers"
      /\ removed' = {sessions[id] : id \in Known} /\ sessions' = [id \in Ids |-> NoEntry]
      /\ UNCHANGED <<live, born, ver, changes, currents, failures, subs, mgrSubs, thread, refs,
                     managerRefs, closed, workCh, events, eventsClosed, loop, loopWork, view,
                     enumerated, seen, registering, updating, missed, lost>>
  BY DEF CloseJobStarts, OwnerGoto, winVars, subVars, refVars, loopVars, history
<1>2. step = "none" /\ removed = {} /\ enumerated = {} /\ loop \in {"none", "exited"}
  BY <1>1 DEF PlaceInv, LocalInv
<1> DEFINE kept == {}
<1>3. /\ kept \in SUBSET Ids /\ Known \cap kept = {}
      /\ removed' = {sessions[id] : id \in Known \ kept}
      /\ sessions' = [id \in Ids |-> IF id \in kept THEN sessions[id] ELSE NoEntry]
  BY <1>1
<1> HIDE DEF kept
<1>4. /\ sessions' \in [Ids -> Entries \cup {NoEntry}] /\ removed' \subseteq Entries
      /\ Known' = {} /\ EntryInv' /\ RefsInv' /\ SubsInv'
  <2>1. /\ sessions' \in [Ids -> Entries \cup {NoEntry}] /\ removed' \subseteq Entries
        /\ Known' = Known \cap kept /\ EntryInv' /\ RefsInv' /\ SubsInv'
    BY <1>1, <1>2, <1>3, MovingKeeps
  <2> QED BY <2>1, <1>3
<1>5. TypeOK'
  BY <1>1, <1>4 DEF TypeOK
<1>6. PlaceInv'
  BY <1>1, <1>2 DEF PlaceInv, RefreshSteps
<1>7. WorkInv'
  BY <1>1, <1>2 DEF WorkInv, PlaceInv
<1>8. ManagerInv'
  BY <1>1 DEF ManagerInv
<1>9. LocalInv'
  BY <1>1, <1>2, <1>4 DEF LocalInv
<1>10. GateInv' /\ VersionInv'
  BY <1>1, GateFrame
<1> QED BY <1>4, <1>5, <1>6, <1>7, <1>8, <1>9, <1>10

\* while closeWinRT runs, the entries are all on their way out and no other job holds anything
LEMMA CloseFrame ==
    ASSUME IInv, worker = "close", CloseRests
    PROVE  /\ owner = "running" /\ step = "closeHandlers" /\ loop \in {"none", "exited"}
           /\ view = {} /\ enumerated = {} /\ seen = {} /\ updating = NoUpdate /\ Known = {}
           /\ UNCHANGED <<live, born, ver, changes, currents, failures, thread, sessions, closed,
                          workCh, events, eventsClosed, loop, loopWork, view, enumerated, seen,
                          registering, updating, missed, lost>>
           /\ Known' = {} /\ VersionInv'
           /\ \A o \in Objects : /\ JobRefs(o) = 0 /\ JobRefs(o)' = 0
                                 /\ ~HasEntry(o) /\ ~HasEntry(o)'
<1> USE DEF IInv
<1>1. UNCHANGED <<live, born, ver, changes, currents, failures, thread, sessions, closed,
                  workCh, events, eventsClosed, loop, loopWork, view, enumerated, seen,
                  registering, updating, missed, lost>>
  BY DEF CloseRests, winVars, chVars, loopVars, history
<1>2. owner = "running" /\ step = "closeHandlers"
  BY DEF PlaceInv
<1>3. /\ loop \in {"none", "exited"}
      /\ view = {} /\ enumerated = {} /\ seen = {} /\ updating = NoUpdate /\ Known = {}
  BY <1>2 DEF PlaceInv, LocalInv
<1>4. Known' = {} /\ VersionInv'
  BY <1>1, <1>3 DEF Known, VersionInv
<1>5. \A o \in Objects : /\ JobRefs(o) = 0 /\ JobRefs(o)' = 0
                         /\ ~HasEntry(o) /\ ~HasEntry(o)'
  BY <1>1, <1>3, <1>4 DEF JobRefs, CountIf, HasEntry
<1> QED BY <1>1, <1>2, <1>3, <1>4, <1>5

\* a handler of the manager closes, with nothing inside it
LEMMA CloseManagerEventKeeps ==
    ASSUME IInv, NEW src \in mgrSubs, CloseManagerEvent(src) PROVE IInv'
<1> USE DEF IInv
<1>1. /\ worker = "close" /\ CloseRests
      /\ src = <<"current">> => <<"sessions">> \notin mgrSubs
      /\ Inside(src) = {} /\ mgrSubs' = mgrSubs \ {src} /\ managerRefs' = managerRefs - 1
      /\ UNCHANGED <<subs, refs, removed, owner, worker, step>>
  BY DEF CloseManagerEvent
<1>2. /\ owner = "running" /\ step = "closeHandlers"
      /\ UNCHANGED <<live, born, ver, changes, currents, failures, thread, sessions, closed,
                     workCh, events, eventsClosed, loop, loopWork, view, enumerated, seen,
                     registering, updating, missed, lost>>
      /\ VersionInv'
  BY <1>1, CloseFrame
<1>3. EntryInv' /\ RefsInv' /\ SubsInv'
  BY <1>1, <1>2, DataFrame DEF dataVars
<1>4. <<"sessions">> # <<"current">>
  OBVIOUS
<1>5. \/ managerRefs = 2 /\ mgrSubs = {<<"current">>} /\ mgrSubs' = {}
      \/ /\ managerRefs = 3 /\ mgrSubs = {<<"sessions">>, <<"current">>}
         /\ mgrSubs' = {<<"current">>}
  BY <1>1, <1>4 DEF ManagerInv
<1>6. ManagerInv' /\ managerRefs' \in 0..3 /\ mgrSubs' \subseteq {<<"sessions">>, <<"current">>}
  BY <1>1, <1>2, <1>5 DEF ManagerInv
<1>7. GateInv'
  BY <1>1, <1>2 DEF GateInv, Inside
<1>8. TypeOK'
  BY <1>1, <1>2, <1>6 DEF TypeOK
<1>9. PlaceInv'
  BY <1>1, <1>2 DEF PlaceInv
<1>10. WorkInv'
  BY <1>1, <1>2 DEF WorkInv
<1>11. LocalInv'
  BY <1>1, <1>2 DEF LocalInv, Known
<1> QED BY <1>2, <1>3, <1>6, <1>7, <1>8, <1>9, <1>10, <1>11

\* an entry loses its handlers, and stays until FinishClose
LEMMA CloseEntryKeeps == ASSUME IInv, NEW r \in removed, CloseEntry(r) PROVE IInv'
<1> USE DEF IInv
<1> DEFINE o == r.ptr
           h == r.handlers
           q == [r EXCEPT !.handlers = 0]
<1>1. /\ worker = "close" /\ CloseRests
      /\ QuietHandlers(o) /\ subs' = subs \ HandlersOf(o)
      /\ refs' = [refs EXCEPT ![o] = @ - h] /\ removed' = (removed \ {r}) \cup {q}
      /\ UNCHANGED <<mgrSubs, managerRefs, owner, worker, step>>
  BY DEF CloseEntry
<1>2. /\ owner = "running" /\ step = "closeHandlers"
      /\ UNCHANGED <<live, born, ver, changes, currents, failures, thread, sessions, closed,
                     workCh, events, eventsClosed, loop, loopWork, view, enumerated, seen,
                     registering, updating, missed, lost>>
      /\ view = {} /\ enumerated = {} /\ seen = {} /\ updating = NoUpdate
      /\ Known = {} /\ Known' = {} /\ VersionInv'
      /\ \A p \in Objects : /\ JobRefs(p) = 0 /\ JobRefs(p)' = 0
                            /\ ~HasEntry(p) /\ ~HasEntry(p)'
  BY <1>1, CloseFrame
<1>3. /\ o \in Objects /\ h \in Nat /\ refs \in [Objects -> Nat] /\ r.ptr = o /\ r.handlers = h
      /\ r \in Entries
  BY EntryParts, BoundAssumption DEF TypeOK
<1>4. q \in Entries /\ q.ptr = o /\ q.handlers = 0
  BY <1>3, BoundAssumption DEF Entries
<1> HIDE DEF o, h, q
<1>5. \A s \in removed : s.ptr = o => s = r
  BY <1>3 DEF EntryInv
<1>6. \A p \in Objects : refs[p] \in Nat /\ refs'[p] = IF p = o THEN refs[p] - h ELSE refs[p]
  BY <1>1, <1>3
<1>7. refs[o] = 1 + h
  BY <1>2, <1>3 DEF RefsInv
<1>8. EntryInv'
  BY <1>1, <1>2, <1>4, <1>5 DEF EntryInv
<1>9. RefsInv'
  <2>1. ASSUME NEW p \in Objects
        PROVE  /\ \A s \in removed' : s.ptr = p => refs'[p] = 1 + s.handlers
               /\ (\A s \in removed' : s.ptr # p) => refs'[p] = 0
    <3>1. CASE p = o
      BY <3>1, <1>1, <1>3, <1>4, <1>5, <1>6, <1>7
    <3>2. CASE p # o
      <4>1. /\ \A s \in removed : s.ptr = p => refs[p] = 1 + s.handlers
            /\ (\A s \in removed : s.ptr # p) => refs[p] = 0
        BY <1>2 DEF RefsInv
      <4>2. refs'[p] = refs[p]
        BY <3>2, <1>6
      <4>3. \A s \in removed' : s.ptr = p => s \in removed
        BY <3>2, <1>1, <1>4
      <4>4. \A s \in removed : s.ptr = p => s \in removed'
        BY <3>2, <1>1, <1>3
      <4> QED BY <4>1, <4>2, <4>3, <4>4
    <3> QED BY <3>1, <3>2
  <2>2. ASSUME NEW p \in Objects, NEW s \in removed', s.ptr = p
        PROVE  refs'[p] = 0 + 1 + s.handlers
    BY <2>1, <2>2, <1>1, <1>4, EntryParts, BoundAssumption
  <2> QED BY <1>2, <2>1, <2>2 DEF RefsInv
<1>10. SubsInv'
  <2>1. ASSUME NEW p \in Objects, NEW k \in Events
        PROVE  <<p, k>> \in subs' <=> \E s \in removed' : s.ptr = p /\ k <= s.handlers
    <3>1. <<p, k>> \in subs <=> \E s \in removed : s.ptr = p /\ k <= s.handlers
      BY <1>2 DEF SubsInv
    <3>2. <<p, k>> \in subs' <=> <<p, k>> \in subs /\ p # o
      BY <1>1 DEF HandlersOf
    <3>3. k \in Nat /\ ~(k <= 0)
      BY BoundAssumption DEF Events
    <3>4. CASE p = o
      BY <3>2, <3>3, <3>4, <1>1, <1>4, <1>5
    <3>5. CASE p # o
      BY <3>1, <3>2, <3>5, <1>1, <1>3, <1>4
    <3> QED BY <3>4, <3>5
  <2> QED BY <1>2, <2>1 DEF SubsInv
<1>11. GateInv'
  BY <1>1, <1>2 DEF GateInv, QuietHandlers, Inside
<1>12. LocalInv'
  BY <1>1, <1>2 DEF LocalInv
<1>13. TypeOK'
  <2>1. refs' \in [Objects -> Nat]
    <3>1. refs[o] - h \in Nat
      BY <1>3, <1>7
    <3> QED BY <1>1, <1>3, <3>1
  <2> QED BY <1>1, <1>2, <1>4, <2>1 DEF TypeOK
<1>14. PlaceInv' /\ ManagerInv'
  BY <1>1, <1>2 DEF PlaceInv, ManagerInv
<1>15. WorkInv'
  BY <1>1, <1>2 DEF WorkInv
<1> QED BY <1>2, <1>8, <1>9, <1>10, <1>11, <1>12, <1>13, <1>14, <1>15

\* closeWinRT lets go of the objects and of the manager
LEMMA FinishCloseKeeps == ASSUME IInv, FinishClose PROVE IInv'
<1> USE DEF IInv
<1>1. /\ worker = "close" /\ CloseRests /\ mgrSubs = {} /\ \A r \in removed : r.handlers = 0
      /\ refs' = [o \in Objects |-> IF \E r \in removed : r.ptr = o THEN refs[o] - 1 ELSE refs[o]]
      /\ managerRefs' = IF managerRefs > 0 THEN managerRefs - 1 ELSE 0
      /\ removed' = {} /\ worker' = "none" /\ step' = "none" /\ owner' = "stopWorker"
      /\ UNCHANGED <<subs, mgrSubs>>
  BY DEF FinishClose, subVars
<1>2. /\ owner = "running" /\ step = "closeHandlers" /\ loop \in {"none", "exited"}
      /\ UNCHANGED <<live, born, ver, changes, currents, failures, thread, sessions, closed,
                     workCh, events, eventsClosed, loop, loopWork, view, enumerated, seen,
                     registering, updating, missed, lost>>
      /\ view = {} /\ enumerated = {} /\ seen = {} /\ updating = NoUpdate
      /\ Known = {} /\ Known' = {} /\ VersionInv'
      /\ \A p \in Objects : /\ JobRefs(p) = 0 /\ JobRefs(p)' = 0
                            /\ ~HasEntry(p) /\ ~HasEntry(p)'
  BY <1>1, CloseFrame
<1>3. ManagerInv' /\ managerRefs' = 0
  <2>1. managerRefs \in {0, 1}
    BY <1>1 DEF ManagerInv
  <2> QED BY <1>1, <2>1 DEF ManagerInv
<1>4. \A p \in Objects : refs'[p] = 0
  <2>1. ASSUME NEW p \in Objects PROVE refs'[p] = 0
    <3>1. /\ \A r \in removed : r.ptr = p => refs[p] = 0 + 1 + r.handlers
          /\ (\A r \in removed : r.ptr # p) => refs[p] = 0
      BY <1>2 DEF RefsInv
    <3>2. refs'[p] = IF \E r \in removed : r.ptr = p THEN refs[p] - 1 ELSE refs[p]
      BY <1>1
    <3>3. (\E r \in removed : r.ptr = p) => refs[p] = 1
      BY <3>1, <1>1
    <3> QED BY <3>1, <3>2, <3>3
  <2> QED BY <2>1
<1>5. RefsInv'
  BY <1>1, <1>2, <1>4 DEF RefsInv
<1>6. SubsInv'
  <2>1. \A p \in Objects : \A k \in Events : <<p, k>> \notin subs
    <3>1. \A k \in Events : ~(k <= 0)
      BY BoundAssumption DEF Events
    <3> QED BY <3>1, <1>1, <1>2 DEF SubsInv
  <2> QED BY <2>1, <1>1, <1>2 DEF SubsInv
<1>7. EntryInv'
  BY <1>1, <1>2 DEF EntryInv
<1>8. GateInv'
  BY <1>1, <1>2, GateFrame
<1>9. TypeOK'
  <2>1. refs' \in [Objects -> Nat]
    BY <1>1, <1>4
  <2> QED BY <1>1, <1>2, <1>3, <2>1 DEF TypeOK
<1>10. PlaceInv'
  BY <1>1, <1>2 DEF PlaceInv, RefreshSteps
<1>11. WorkInv'
  BY <1>1, <1>2 DEF WorkInv
<1>12. LocalInv'
  BY <1>1, <1>2 DEF LocalInv
<1> QED BY <1>2, <1>3, <1>5, <1>6, <1>7, <1>8, <1>9, <1>10, <1>11, <1>12

\* every step of Close
LEMMA ClosesKeep == ASSUME IInv, CloseBegins \/ Closing \/ CloseJob PROVE IInv'
BY OwnerKeeps, CloseJobStartsKeeps, CloseManagerEventKeeps, CloseEntryKeeps, FinishCloseKeeps
   DEF Closing, CloseJob

-----------------------------------------------------------------------------
(* The invariant. *)

\* the invariant holds at the start
LEMMA InvInit == Init => IInv
<1> SUFFICES ASSUME Init PROVE IInv
  OBVIOUS
<1> USE IdAssumption, BoundAssumption DEF Init
<1>1. [k \in Events |-> 0] \in Versions /\ Known = {}
  BY DEF Versions, Known
<1>2. TypeOK
  <2>1. /\ ver \in [Objects -> Versions] /\ refs \in [Objects -> Nat]
        /\ sessions \in [Ids -> Entries \cup {NoEntry}]
        /\ thread \in [Threads -> {Idle} \cup [pc : {"raised", "checked"}, from : Sources,
                                               work : Works]]
    BY <1>1
  <2>2. workCh \in Seq(Works) /\ Len(workCh) <= WorkCap /\ events \in 0..EventCap
    BY <1>1
  <2>3. /\ live \subseteq born /\ born \subseteq Objects /\ missed = {} /\ lost = {}
        /\ subs = {} /\ mgrSubs = {}
    OBVIOUS
  <2>5. /\ changes \in 0..MaxChanges /\ currents \in 0..MaxCurrent
        /\ failures \in 0..MaxFailures /\ managerRefs \in 0..3
    <3>1. changes = 0 /\ currents = 0 /\ failures = 0 /\ managerRefs = 0
      OBVIOUS
    <3> HIDE DEF Init
    <3> QED BY <3>1
  <2>6. closed \in BOOLEAN /\ eventsClosed \in BOOLEAN
    OBVIOUS
  <2>4. /\ loop = "none" /\ loopWork = NoWork /\ owner = "new" /\ worker = "init"
        /\ step = "begin" /\ view = {} /\ enumerated = {} /\ seen = {}
        /\ registering = NoId /\ removed = {} /\ updating = NoUpdate
    OBVIOUS
  <2> HIDE DEF Init
  <2> QED BY <2>1, <2>2, <2>3, <2>4, <2>5, <2>6 DEF TypeOK
<1>3. VersionInv
  BY DEF VersionInv
<1>4. PlaceInv /\ WorkInv /\ ManagerInv
  BY DEF PlaceInv, WorkInv, ManagerInv, RefreshSteps
<1>5. LocalInv /\ EntryInv
  BY <1>1 DEF LocalInv, EntryInv
<1>6. RefsInv /\ SubsInv
  BY <1>1 DEF RefsInv, SubsInv, HasEntry, JobRefs, CountIf
<1>7. GateInv
  BY DEF GateInv, Idle
<1> QED BY <1>2, <1>3, <1>4, <1>5, <1>6, <1>7 DEF IInv

\* every step keeps it
LEMMA InvKeeps == ASSUME IInv, [Next]_vars PROVE IInv'
<1>1. CASE Windows \/ Receive
  BY <1>1, WindowsKeeps, ReceiveKeeps
<1>2. CASE \E t \in Threads : Deliver(t)
  BY <1>2, DeliverKeeps
<1>3. CASE Loop
  BY <1>3, LoopKeeps
<1>4. CASE Job
  BY <1>4, InitializesKeeps, RefreshesKeep, EndsKeep, UpdatesKeep, ClosesKeep DEF Job, Updates
<1>5. CASE CloseBegins \/ Closing
  BY <1>5, ClosesKeep
<1>6. CASE UNCHANGED vars
  <2>1. /\ UNCHANGED monitorVars
        /\ UNCHANGED <<live, born, ver, changes, currents, failures, thread, workCh, events,
                       missed, lost>>
    BY <1>6 DEF vars, monitorVars, winVars, subVars, refVars, chVars, loopVars, jobVars,
        localVars, history
  <2>2. TypeOK'
    BY <2>1 DEF IInv, TypeOK, monitorVars
  <2>3. VersionInv' /\ GateInv'
    BY <2>1, GateFrame DEF monitorVars
  <2> QED BY <2>1, <2>2, <2>3, MonitorFrame DEF IInv
<1> QED BY <1>1, <1>2, <1>3, <1>4, <1>5, <1>6 DEF Next

\* so it holds throughout
LEMMA InvHolds == Spec => []IInv
BY InvInit, InvKeeps, PTL DEF Spec

-----------------------------------------------------------------------------
(* What follows from it. *)

\* monitor.go:389-429, 457-490, 200-237; event.go:99.  In every state the references to a session
\* object are those of its entry, of the entry's open handlers, and of the job at hand.
THEOREM Accounted == Spec => []RefsAccounted
<1>1. IInv => RefsAccounted
  <2> SUFFICES ASSUME IInv PROVE RefsAccounted
    OBVIOUS
  <2> USE DEF IInv
  <2> DEFINE entries == {sessions[id] : id \in Known} \cup removed
  <2>1. ASSUME NEW o \in Objects PROVE refs[o] = Owed(o)
    <3> DEFINE from == CHOOSE r \in entries : r.ptr = o
               read == CountIf(\E e \in enumerated : e[1] = o)
               used == CountIf(updating # NoUpdate /\ updating[1] = o)
    <3>1. Owed(o) = read + (IF \E r \in entries : r.ptr = o THEN 1 + from.handlers ELSE 0) + used
      BY DEF Owed
    <3>2. \A r \in entries : r.ptr = o => \/ r \in removed /\ ~HasEntry(o)
                                          \/ HasEntry(o) /\ r = sessions[IdOf[o]]
      <4>1. \A id \in Known : sessions[id].ptr = o => id = IdOf[o]
        BY DEF EntryInv
      <4>2. \A r \in removed : r.ptr = o => ~HasEntry(o)
        BY DEF EntryInv, HasEntry
      <4> QED BY <4>1, <4>2 DEF HasEntry
    <3>3. HasEntry(o) => sessions[IdOf[o]] \in entries /\ sessions[IdOf[o]].ptr = o
      BY DEF HasEntry
    <3>4. \A r \in entries : r.handlers \in Nat
      BY EntryParts, BoundAssumption
    <3>5. JobRefs(o) = read + used /\ read \in Nat /\ used \in Nat
      BY DEF JobRefs, CountIf
    <3>6. (\E r \in entries : r.ptr = o) => from \in entries /\ from.ptr = o
      OBVIOUS
    <3> HIDE DEF from, read, used, entries
    <3>7. CASE \E r \in entries : r.ptr = o
      <4>1. refs[o] = JobRefs(o) + 1 + from.handlers
        BY <3>2, <3>6, <3>7 DEF RefsInv
      <4>2. from.handlers \in Nat
        BY <3>4, <3>6, <3>7
      <4> QED BY <3>1, <3>5, <3>7, <4>1, <4>2
    <3>8. CASE ~ \E r \in entries : r.ptr = o
      <4>1. \A r \in removed : r.ptr # o
        BY <3>8 DEF entries
      <4>2. refs[o] = JobRefs(o)
        BY <3>3, <3>8, <4>1 DEF RefsInv
      <4> QED BY <3>1, <3>5, <3>8, <4>2
    <3> QED BY <3>7, <3>8
  <2> QED BY <2>1 DEF RefsAccounted
<1> QED BY <1>1, InvHolds, PTL

\* monitor.go:172-198, 492-503.  When Close, or New failing, is through, nothing is left: no
\* reference, no subscription, no callback inside the monitor; and emit never sends into the
\* closed channel.
THEOREM LeavesNothing == Spec => []NothingLeftAfterClose
<1>1. IInv => NothingLeftAfterClose
  <2> SUFFICES ASSUME IInv PROVE NothingLeftAfterClose
    OBVIOUS
  <2> USE DEF IInv
  <2>1. step = "send" => eventsClosed = FALSE
    <3>1. ASSUME step = "send" PROVE worker = "work"
      BY <3>1 DEF TypeOK, PlaceInv, RefreshSteps
    <3> QED BY <3>1 DEF TypeOK, PlaceInv
  <2>2. ASSUME owner = "closed"
        PROVE  /\ worker = "ended" /\ loop \in {"none", "exited"} /\ step = "none"
               /\ managerRefs = 0 /\ mgrSubs = {} /\ Known = {} /\ removed = {}
               /\ enumerated = {} /\ updating = NoUpdate
    <3>1. worker = "ended" /\ loop \in {"none", "exited"} /\ step = "none"
      BY <2>2 DEF PlaceInv
    <3>2. managerRefs = 0 /\ mgrSubs = {}
      BY <2>2 DEF ManagerInv
    <3> QED BY <2>2, <3>1, <3>2 DEF LocalInv
  <2>3. ASSUME owner = "closed"
        PROVE  (\A o \in Objects : refs[o] = 0) /\ subs = {}
    <3>1. \A o \in Objects : ~HasEntry(o) /\ JobRefs(o) = 0
      BY <2>2, <2>3 DEF HasEntry, JobRefs, CountIf
    <3>2. \A o \in Objects : refs[o] = 0
      BY <2>2, <2>3, <3>1 DEF RefsInv
    <3>3. \A o \in Objects : \A k \in Events : <<o, k>> \notin subs
      BY <2>2, <2>3, <3>1 DEF SubsInv
    <3> QED BY <3>2, <3>3 DEF TypeOK
  <2>4. owner = "closed" => \A t \in Threads : thread[t].pc # "checked"
    BY <2>2, <2>3 DEF GateInv
  <2> QED BY <2>1, <2>2, <2>3, <2>4 DEF NothingLeftAfterClose
<1> QED BY <1>1, InvHolds, PTL

-----------------------------------------------------------------------------
(* What is known and what is on its way.  While the monitor is open, work    *)
(* that Windows gave notice of is in a delivery, in the queue or at hand, or *)
(* it was forgotten; and m.sessions differs from what there is only where    *)
(* work is on its way.                                                       *)

Unread == {"none", "begin", "enumerate", "fetch"}

Coming(w) == \/ Queued(w)
             \/ \E t \in Threads : thread[t].work = w
             \/ loopWork = w /\ loop \in {"do", "submitted", "running"} /\ step \in Unread

RefreshComing == \/ Coming(Refresh)
                 \/ worker = "init" /\ step \in {"begin", "enumerate"}

IdsOf(S) == {IdOf[o] : o \in S}

\* the ids that m.sessions has or will have at the end of the refresh at hand
Target == IF step = "read" THEN IdsOf(view) \cup seen
          ELSE IF step \in {"merge", "register"} THEN seen ELSE Known

Covered == \E read \in SUBSET live : /\ read # live => Cardinality(read) = MaxSessions
                                     /\ Target = IdsOf(read)

CoverInv == missed = {} => RefreshComing \/ Covered

\* an id that was seen is known or will be
SeenInv ==
    /\ step \in {"read", "merge", "register"} =>
           \A id \in seen : id \in Known \/ \E e \in enumerated : IdOf[e[1]] = id
    /\ \A e \in enumerated : IdOf[e[1]] \in seen

BornInv == /\ view \subseteq born
           /\ \A e \in enumerated : e[1] \in born
           /\ \A id \in Known : sessions[id].ptr \in born

\* properties v of session o are those it has, but for what is on its way
Fresh(o, v) == \A k \in Events : v[k] = ver[o][k] \/ Coming(Update(IdOf[o], k))

InfoInv ==
    \A o \in Objects : Unique(IdOf[o]) /\ o \notin lost =>
        /\ HasEntry(o) => \/ Fresh(o, sessions[IdOf[o]].info)
                          \/ \E e \in enumerated : e[1] = o
                          \/ step = "store" /\ updating[1] = o
        /\ \A e \in enumerated : e[1] = o => Fresh(o, e[2])
        /\ step = "store" /\ updating[1] = o => Fresh(o, updating[2])

ConvInv == closed = FALSE => CoverInv /\ SeenInv /\ BornInv /\ InfoInv

\* work w is on its way, or what was lost with it is on record
Noticed(w) == \/ Coming(w)
              \/ IF w = Refresh THEN missed # {}
                 ELSE w # CurrentChanged /\ \A o \in Objects : IdOf[o] = w[2] => o \in lost

-----------------------------------------------------------------------------
(* An id that names one session only. *)

\* two sessions under an id that names one are the same
LEMMA UniqueIs ==
    ASSUME TypeOK, NEW o \in born, NEW p \in born, IdOf[p] = IdOf[o], Unique(IdOf[o])
    PROVE  p = o
<1> DEFINE S == {q \in born : IdOf[q] = IdOf[o]}
<1>1. IsFiniteSet(S)
  BY ObjectAssumption, FS_Subset DEF TypeOK
<1>2. Cardinality(S) \in Nat /\ Cardinality(S) <= 1
  BY <1>1, FS_CardinalityType DEF Unique
<1>3. {o, p} \in SUBSET S
  OBVIOUS
<1>4. Cardinality({o, p}) <= Cardinality(S)
  BY <1>1, <1>3, FS_Subset
<1> HIDE DEF S
<1>5. ASSUME p # o PROVE FALSE
  <2>1. IsFiniteSet({o}) /\ Cardinality({o}) = 1
    BY FS_Singleton
  <2>2. Cardinality({o} \cup {p}) = 2
    BY <1>5, <2>1, FS_AddElement
  <2>3. {o} \cup {p} = {o, p}
    OBVIOUS
  <2> QED BY <1>2, <1>4, <2>2, <2>3
<1> QED BY <1>5

\* an id that names one session did so before
LEMMA UniqueShrinks ==
    ASSUME NEW id \in Ids, born \subseteq born', born' \subseteq Objects, Unique(id)'
    PROVE  Unique(id)
<1> DEFINE S == {q \in born : IdOf[q] = id}
           T == {q \in born' : IdOf[q] = id}
<1>1. IsFiniteSet(T) /\ S \in SUBSET T
  BY ObjectAssumption, FS_Subset
<1>2. Cardinality(S) <= Cardinality(T) /\ IsFiniteSet(S)
  BY <1>1, FS_Subset
<1>3. Cardinality(S) \in Nat /\ Cardinality(T) \in Nat
  BY <1>1, <1>2, FS_CardinalityType
<1>4. Cardinality(T) <= 1
  BY DEF Unique
<1>5. Cardinality(S) <= 1
  <2> HIDE DEF S, T
  <2> QED BY <1>2, <1>3, <1>4
<1> QED BY <1>5 DEF Unique

-----------------------------------------------------------------------------
(* Work on its way stays on its way, or is noticed to be lost. *)

\* taking the head of the queue leaves the rest queued
LEMMA QueuedTail ==
    ASSUME TypeOK, workCh # <<>>, NEW w, Queued(w), workCh' = Tail(workCh), w # Head(workCh)
    PROVE  Queued(w)'
<1>1. PICK i \in DOMAIN workCh : workCh[i] = w
  BY DEF Queued
<1>2. workCh \in Seq(Works)
  BY DEF TypeOK
<1>3. DOMAIN workCh = 1..Len(workCh) /\ Len(workCh) \in Nat /\ Head(workCh) = workCh[1]
  BY <1>2
<1>4. i \in 1..Len(workCh) /\ i # 1
  BY <1>1, <1>3
<1>5. /\ Len(Tail(workCh)) = Len(workCh) - 1 /\ DOMAIN Tail(workCh) = 1..(Len(workCh) - 1)
      /\ \A j \in 1..(Len(workCh) - 1) : Tail(workCh)[j] = workCh[j + 1]
  BY <1>2
<1>6. i - 1 \in 1..(Len(workCh) - 1) /\ (i - 1) + 1 = i
  BY <1>3, <1>4
<1>7. workCh'[i - 1] = w /\ i - 1 \in DOMAIN workCh'
  BY <1>1, <1>5, <1>6
<1> QED BY <1>7 DEF Queued

\* work put into the queue is queued, and what was queued still is
LEMMA QueuedAppend ==
    ASSUME TypeOK, NEW w \in Works, workCh' = Append(workCh, w)
    PROVE  Queued(w)' /\ \A v : Queued(v) => Queued(v)'
<1>1. workCh \in Seq(Works)
  BY DEF TypeOK
<1>2. /\ Len(workCh) \in Nat /\ DOMAIN workCh = 1..Len(workCh)
      /\ DOMAIN workCh' = 1..(Len(workCh) + 1)
      /\ workCh'[Len(workCh) + 1] = w
      /\ \A j \in 1..Len(workCh) : workCh'[j] = workCh[j]
  BY <1>1
<1>3. Len(workCh) + 1 \in DOMAIN workCh' /\ \A j \in 1..Len(workCh) : j \in DOMAIN workCh'
  BY <1>2
<1> QED BY <1>2, <1>3 DEF Queued

\* a delivery ends with its work queued, or on record as lost
LEMMA DeliverNotices ==
    ASSUME IInv, NEW t \in Threads, Deliver(t), NEW w \in Works, w # CurrentChanged, Coming(w)
    PROVE  Noticed(w)'
<1> USE DEF IInv
<1>1. UNCHANGED <<loop, loopWork, step>>
  BY DEF Deliver, EnterCallback, RefuseCallback, Enqueue, MonitorRests, loopVars, jobVars
<1>2. thread \in [Threads -> {Idle} \cup Delivery] /\ thread[t].pc \in {"raised", "checked"}
  BY DEF Deliver, EnterCallback, RefuseCallback, Enqueue, TypeOK, Delivery
<1>3. thread[t] \in Delivery /\ thread[t].work \in Works
  BY <1>2 DEF Delivery, Idle
<1>4. \/ thread' = [thread EXCEPT ![t].pc = "checked"]
      \/ thread' = [thread EXCEPT ![t] = Idle]
  BY DEF Deliver, EnterCallback, RefuseCallback, Enqueue
<1>5. \A u \in Threads : u # t => thread'[u] = thread[u]
  BY <1>2, <1>4
<1>6. Queued(w) => Queued(w)'
  <2>1. \/ workCh' = workCh \/ workCh' = Append(workCh, thread[t].work)
    BY DEF Deliver, EnterCallback, RefuseCallback, Enqueue
  <2>2. workCh' = workCh => (Queued(w) => Queued(w)')
    BY DEF Queued
  <2> QED BY <2>1, <2>2, <1>3, QueuedAppend
<1>7. CASE \/ Queued(w) \/ \E u \in Threads : u # t /\ thread[u].work = w
           \/ loopWork = w /\ loop \in {"do", "submitted", "running"} /\ step \in Unread
  BY <1>1, <1>5, <1>6, <1>7 DEF Noticed, Coming
<1>8. CASE thread[t].work = w
  <2>1. CASE EnterCallback(t)
    <3>1. thread'[t].work = w
      BY <1>2, <1>3, <1>8, <2>1 DEF EnterCallback, Delivery
    <3> QED BY <3>1 DEF Noticed, Coming
  <2>2. ASSUME Forget(w, "failed") \/ Forget(w, "dropped") PROVE Noticed(w)'
    <3>1. CASE w = Refresh
      BY <2>2, <3>1 DEF Forget, Noticed
    <3>2. CASE w # Refresh
      BY <2>2, <3>2 DEF Forget, Noticed
    <3> QED BY <3>1, <3>2
  <2>3. CASE RefuseCallback(t)
    BY <1>8, <2>2, <2>3 DEF RefuseCallback
  <2>4. CASE Enqueue(t)
    <3>1. \/ workCh' = Append(workCh, w) \/ Queued(w) \/ Forget(w, "dropped")
      BY <1>8, <2>4 DEF Enqueue
    <3>2. Queued(w)' => Noticed(w)'
      BY DEF Noticed, Coming
    <3> QED BY <3>1, <3>2, <2>2, <1>6, QueuedAppend
  <2> QED BY <2>1, <2>3, <2>4 DEF Deliver
<1> QED BY <1>7, <1>8 DEF Coming

\* eventLoop loses no work while the monitor is open
LEMMA LoopNotices ==
    ASSUME IInv, Loop, closed' = FALSE, NEW w \in Works, Coming(w)
    PROVE  Coming(w)'
<1> USE DEF IInv
<1>1. thread' = thread
  BY DEF Loop, LoopTakes, LoopExits, LoopDoes, WorkStarts, LoopRests
<1>2. closed = FALSE
  BY DEF Loop, LoopTakes, LoopExits, LoopDoes, WorkStarts, LoopRests
<1>3. CASE LoopTakes
  <2>1. /\ workCh # <<>> /\ workCh' = Tail(workCh) /\ loopWork' = Head(workCh)
        /\ loop = "select" /\ loop' = "do" /\ step' = step
    BY <1>3 DEF LoopTakes
  <2>2. step' = "none"
    BY <1>2, <2>1 DEF PlaceInv, TypeOK
  <2>3. Queued(w) => Queued(w)' \/ w = loopWork'
    BY <2>1, QueuedTail
  <2> QED BY <1>1, <2>1, <2>2, <2>3 DEF Coming, Unread
<1>4. CASE LoopDoes \/ WorkStarts
  <2>1. /\ workCh' = workCh /\ loop \in {"do", "submitted"} /\ loop' \in {"submitted", "running"}
        /\ loopWork' = loopWork /\ step' \in Unread
    <3>1. step = "none"
      BY <1>4 DEF LoopDoes, WorkStarts, PlaceInv, TypeOK
    <3> QED BY <1>2, <1>4, <3>1 DEF LoopDoes, WorkStarts, Unread
  <2>2. Queued(w) => Queued(w)'
    BY <2>1 DEF Queued
  <2> QED BY <1>1, <2>1, <2>2 DEF Coming
<1> QED BY <1>2, <1>3, <1>4 DEF Loop, LoopExits

\* work that is not the one at hand stays where it is
LEMMA JobNotices ==
    ASSUME UNCHANGED <<workCh, thread>>, NEW w, Coming(w),
           \/ w # loopWork
           \/ loop \notin {"do", "submitted", "running"}
           \/ step \notin Unread
           \/ UNCHANGED <<loopWork, loop>> /\ step' \in Unread
    PROVE  Coming(w)'
<1>1. Queued(w) => Queued(w)'
  BY DEF Queued
<1> QED BY <1>1 DEF Coming

-----------------------------------------------------------------------------
(* Steps that leave what was read alone. *)

\* the sessions there are and those that will be known stay the same
LEMMA CoverFrame ==
    ASSUME CoverInv, live' = live, Target' = Target, missed \subseteq missed',
           RefreshComing => RefreshComing' \/ missed' # {}
    PROVE  CoverInv'
<1>1. Covered => Covered'
  BY DEF Covered
<1>2. missed' = {} => missed = {}
  OBVIOUS
<1> QED BY <1>1, <1>2 DEF CoverInv

\* work on the properties of sessions
LEMMA InfoFrame ==
    ASSUME IInv, InfoInv, born \subseteq born', born' \subseteq Objects, lost \subseteq lost',
           Known' \subseteq Known, enumerated' = enumerated,
           \A id \in Known' : /\ sessions'[id].ptr = sessions[id].ptr
                              /\ sessions'[id].info = sessions[id].info,
           step' = "store" <=> step = "store",
           step = "store" => updating' = updating,
           \A o \in Objects : \A k \in Events :
               \/ IdOf[o] \notin Known' /\ enumerated = {} /\ step # "store"
               \/ Coming(Update(IdOf[o], k))' \/ o \in lost'
               \/ ver'[o][k] = ver[o][k] /\ ~Coming(Update(IdOf[o], k))
    PROVE  InfoInv'
<1>1. ASSUME NEW o \in Objects, Unique(IdOf[o])', o \notin lost'
      PROVE  /\ HasEntry(o)' => \/ Fresh(o, sessions[IdOf[o]].info)'
                                \/ \E e \in enumerated' : e[1] = o
                                \/ step' = "store" /\ updating'[1] = o
             /\ \A e \in enumerated' : e[1] = o => Fresh(o, e[2])'
             /\ step' = "store" /\ updating'[1] = o => Fresh(o, updating[2])'
  <2>1. Unique(IdOf[o]) /\ o \notin lost
    BY <1>1, UniqueShrinks, IdAssumption
  <2>3. ASSUME NEW v, Fresh(o, v), IdOf[o] \in Known' \/ enumerated # {} \/ step = "store"
        PROVE  \A k \in Events : v[k] = ver'[o][k] \/ Coming(Update(IdOf[o], k))'
    BY <1>1, <2>3 DEF Fresh
  <2>4. HasEntry(o)' => /\ HasEntry(o) /\ IdOf[o] \in Known'
                        /\ sessions'[IdOf[o]].info = sessions[IdOf[o]].info
    BY DEF HasEntry
  <2>5. /\ HasEntry(o) => \/ Fresh(o, sessions[IdOf[o]].info)
                          \/ \E e \in enumerated : e[1] = o
                          \/ step = "store" /\ updating[1] = o
        /\ \A e \in enumerated : e[1] = o => Fresh(o, e[2])
        /\ step = "store" /\ updating[1] = o => Fresh(o, updating[2])
    BY <2>1 DEF InfoInv
  <2>6. Fresh(o, sessions[IdOf[o]].info) /\ HasEntry(o)' => Fresh(o, sessions[IdOf[o]].info)'
    BY <2>3, <2>4 DEF Fresh
  <2>7. \A e \in enumerated : Fresh(o, e[2]) => Fresh(o, e[2])'
    BY <2>3 DEF Fresh
  <2>8. step = "store" /\ Fresh(o, updating[2]) => Fresh(o, updating[2])'
    BY <2>3 DEF Fresh
  <2> QED BY <2>4, <2>5, <2>6, <2>7, <2>8
<1> QED BY <1>1 DEF InfoInv

\* a step outside the jobs leaves m.sessions and the locals of the jobs alone
LEMMA OutsideKeeps ==
    ASSUME IInv, ConvInv, closed = FALSE,
           UNCHANGED <<sessions, view, enumerated, seen, updating>>,
           born \subseteq born', born' \subseteq Objects, lost \subseteq lost',
           missed \subseteq missed', live' = live \/ RefreshComing' \/ missed' # {},
           Target' = Target, step' = "store" <=> step = "store",
           step' \in {"read", "merge", "register"} => step' = step,
           RefreshComing => RefreshComing' \/ missed' # {},
           \A o \in Objects : \A k \in Events :
               \/ Coming(Update(IdOf[o], k))' \/ o \in lost'
               \/ ver'[o][k] = ver[o][k] /\ ~Coming(Update(IdOf[o], k))
    PROVE  ConvInv'
<1> USE DEF ConvInv
<1>1. Known' = Known
  BY DEF Known
<1>2. CoverInv'
  <2>1. CASE live' = live
    BY <2>1, CoverFrame
  <2>2. CASE RefreshComing' \/ missed' # {}
    BY <2>2 DEF CoverInv
  <2> QED BY <2>1, <2>2
<1>3. SeenInv'
  BY <1>1 DEF SeenInv
<1>4. BornInv'
  BY <1>1 DEF BornInv
<1>5. InfoInv'
  BY <1>1, InfoFrame
<1> QED BY <1>2, <1>3, <1>4, <1>5

\* the goroutines and Windows
LEMMA WindowsConv == ASSUME IInv, ConvInv, closed' = FALSE, Windows PROVE ConvInv'
<1>1. /\ UNCHANGED <<sessions, closed, workCh, loop, loopWork, worker, step, view, enumerated,
                     seen, updating>>
  BY DEF Windows, SessionStarts, SessionEnds, SetLive, SessionChanges, CurrentChanges,
      MonitorRests, subVars, refVars, loopVars, jobVars, localVars
<1>2. /\ born \subseteq born' /\ born' \subseteq Objects
      /\ missed \subseteq missed' /\ lost \subseteq lost'
  BY DEF Windows, SessionStarts, SessionEnds, SetLive, SessionChanges, CurrentChanges,
      IInv, TypeOK, history
<1>3. thread' = thread \/ \E t \in Threads : /\ thread[t] = Idle
                                             /\ \A u \in Threads : u # t => thread'[u] = thread[u]
  <2>1. (\E src, w : RaiseEvent(src, w)) \/ thread' = thread
    BY DEF Windows, SessionStarts, SessionEnds, SetLive, SessionChanges, CurrentChanges
  <2>2. \A src, w : RaiseEvent(src, w) =>
            \E t \in Threads : /\ thread[t] = Idle
                               /\ \A u \in Threads : u # t => thread'[u] = thread[u]
    BY DEF RaiseEvent, IInv, TypeOK
  <2> QED BY <2>1, <2>2
<1>4. \A w \in Works : Coming(w) => Coming(w)'
  <2>1. ASSUME NEW w \in Works PROVE Queued(w) => Queued(w)'
    BY <1>1 DEF Queued
  <2>2. \A w \in Works : w # Idle.work
    BY WorksAre DEF Idle
  <2> QED BY <1>1, <1>3, <2>1, <2>2 DEF Coming
<1>5. \A src, w : RaiseEvent(src, w) => Coming(w)'
  <2>1. ASSUME NEW src, NEW w, RaiseEvent(src, w) PROVE \E t \in Threads : thread'[t].work = w
    BY <2>1 DEF RaiseEvent, IInv, TypeOK
  <2> QED BY <2>1 DEF Coming
<1>6. Target' = Target /\ (RefreshComing => RefreshComing')
  BY <1>1, <1>4, WorksAre DEF Target, Known, RefreshComing
<1>7. live' = live \/ RefreshComing' \/ missed' # {}
  <2>1. ASSUME NEW new, SetLive(new) PROVE RefreshComing' \/ missed' # {}
    BY <2>1, <1>5 DEF SetLive, RefreshComing
  <2> QED BY <2>1 DEF Windows, SessionStarts, SessionEnds, SessionChanges, CurrentChanges
<1>8. ASSUME NEW o \in Objects, NEW k \in Events
      PROVE  \/ Coming(Update(IdOf[o], k))' \/ o \in lost'
             \/ ver'[o][k] = ver[o][k] /\ ~Coming(Update(IdOf[o], k))
  <2>1. Update(IdOf[o], k) \in Works
    BY WorksAre, IdAssumption
  <2>2. CASE Coming(Update(IdOf[o], k))
    BY <1>4, <2>1, <2>2
  <2>3. CASE ver'[o][k] # ver[o][k]
    <3>1. PICK p \in Objects, j \in Events : SessionChanges(p, j)
      BY <2>3 DEF Windows, SessionStarts, SessionEnds, SetLive, CurrentChanges
    <3>2. o = p /\ k = j
      BY <2>3, <3>1 DEF SessionChanges, IInv, TypeOK, Versions
    <3>3. Coming(Update(IdOf[o], k))' \/ o \in lost'
      BY <1>5, <3>1, <3>2 DEF SessionChanges
    <3> QED BY <3>3
  <2> QED BY <2>2, <2>3
<1> QED BY <1>1, <1>2, <1>6, <1>7, <1>8, OutsideKeeps

\* what it means that an update or a refresh was noticed
LEMMA NoticedSays ==
    ASSUME NEW o \in Objects, NEW k \in Events
    PROVE  /\ Update(IdOf[o], k) \in Works /\ Update(IdOf[o], k) # CurrentChanged
           /\ Noticed(Update(IdOf[o], k))' => Coming(Update(IdOf[o], k))' \/ o \in lost'
           /\ Noticed(Refresh)' => RefreshComing' \/ missed' # {}
<1>1. /\ Update(IdOf[o], k) \in Works /\ Update(IdOf[o], k) # CurrentChanged
      /\ Update(IdOf[o], k) # Refresh /\ Update(IdOf[o], k)[2] = IdOf[o]
  BY WorksAre, IdAssumption
<1> QED BY <1>1 DEF Noticed, RefreshComing

\* deliveries
LEMMA DeliverConv ==
    ASSUME IInv, ConvInv, closed' = FALSE, NEW t \in Threads, Deliver(t) PROVE ConvInv'
<1>1. UNCHANGED <<live, born, ver, sessions, closed, loop, worker, step, view, enumerated, seen,
                  updating>>
  BY DEF Deliver, EnterCallback, RefuseCallback, Enqueue, MonitorRests, winVars, loopVars,
      jobVars, localVars
<1>2. missed \subseteq missed' /\ lost \subseteq lost'
  BY DEF Deliver, EnterCallback, RefuseCallback, Enqueue, Forget, history
<1>3. Target' = Target /\ born' \subseteq Objects
  BY <1>1 DEF Target, Known, IInv, TypeOK
<1>4. Coming(Refresh) => Noticed(Refresh)'
  BY WorksAre, DeliverNotices
<1>5. RefreshComing => RefreshComing' \/ missed' # {}
  BY <1>1, <1>4 DEF RefreshComing, Noticed
<1>6. ASSUME NEW o \in Objects, NEW k \in Events
      PROVE  \/ Coming(Update(IdOf[o], k))' \/ o \in lost'
             \/ ver'[o][k] = ver[o][k] /\ ~Coming(Update(IdOf[o], k))
  BY <1>1, DeliverNotices, NoticedSays
<1> QED BY <1>1, <1>2, <1>3, <1>5, <1>6, OutsideKeeps

\* eventLoop
LEMMA LoopConv == ASSUME IInv, ConvInv, closed' = FALSE, Loop PROVE ConvInv'
<1>1. UNCHANGED <<live, born, ver, sessions, closed, view, enumerated, seen, updating, missed,
                  lost>>
  BY DEF Loop, LoopTakes, LoopExits, LoopDoes, WorkStarts, LoopRests, winVars, localVars, history
<1>2. \/ step' = step
      \/ step = "none" /\ step' \in {"begin", "fetch"}
  <2>1. \/ UNCHANGED step
        \/ worker = "none" /\ step' \in {"begin", "fetch"}
    BY DEF Loop, LoopTakes, LoopExits, LoopDoes, WorkStarts
  <2>2. worker = "none" => step = "none"
    BY DEF IInv, PlaceInv
  <2> QED BY <2>1, <2>2
<1>3. Target' = Target /\ born' \subseteq Objects
  BY <1>1, <1>2 DEF Target, Known, IInv, TypeOK
<1>4. RefreshComing => RefreshComing'
  <2>1. worker = "init" /\ step \in {"begin", "enumerate"} => UNCHANGED <<worker, step>>
    BY DEF Loop, LoopTakes, LoopExits, LoopDoes, WorkStarts
  <2> QED BY <2>1, WorksAre, LoopNotices DEF RefreshComing
<1>5. ASSUME NEW o \in Objects, NEW k \in Events
      PROVE  \/ Coming(Update(IdOf[o], k))' \/ o \in lost'
             \/ ver'[o][k] = ver[o][k] /\ ~Coming(Update(IdOf[o], k))
  BY <1>1, LoopNotices, NoticedSays
<1> QED BY <1>1, <1>2, <1>3, <1>4, <1>5, OutsideKeeps

\* the program reads an event, or nothing happens
LEMMA ReceiveConv ==
    ASSUME IInv, ConvInv, closed' = FALSE, Receive \/ UNCHANGED vars PROVE ConvInv'
<1>1. UNCHANGED <<live, born, ver, thread, workCh, sessions, closed, loop, loopWork, worker, step,
                  view, enumerated, seen, updating, missed, lost>>
  BY DEF Receive, vars, winVars, chVars, loopVars, jobVars, localVars, history
<1>2. Target' = Target /\ born' \subseteq Objects
  BY <1>1 DEF Target, Known, IInv, TypeOK
<1>3. \A w : Coming(w) => Coming(w)'
  BY <1>1 DEF Coming, Queued
<1>4. RefreshComing => RefreshComing'
  BY <1>1, <1>3 DEF RefreshComing
<1>5. ASSUME NEW o \in Objects, NEW k \in Events
      PROVE  \/ Coming(Update(IdOf[o], k))' \/ o \in lost'
             \/ ver'[o][k] = ver[o][k] /\ ~Coming(Update(IdOf[o], k))
  BY <1>1, <1>3
<1> QED BY <1>1, <1>2, <1>4, <1>5, OutsideKeeps

\* init reads the sessions before it subscribes
LEMMA InitializesConv == ASSUME IInv, ConvInv, closed' = FALSE, Initializes PROVE ConvInv'
<1>1. /\ UNCHANGED <<live, born, ver, thread, workCh, sessions, closed, loopWork, view,
                     enumerated, seen, updating, missed, lost>>
      /\ loop = "none"
      /\ \/ step = "begin" /\ step' = "enumerate" /\ worker' = worker
         \/ /\ step \in {"registerCurrent", "registerSessions"}
            /\ step' \in {"none", "registerSessions"}
  BY DEF Initializes, InitGetsManager, InitFails, RegisterCurrentChanged, RegisterSessionsChanged,
      InitRests, winVars, chVars, localVars, history, IInv, PlaceInv
<1>2. Target' = Target /\ born' \subseteq Objects
  BY <1>1 DEF Target, Known, IInv, TypeOK
<1>3. \A w : Coming(w) => Coming(w)'
  BY <1>1, JobNotices
<1>4. RefreshComing => RefreshComing'
  BY <1>1, <1>3 DEF RefreshComing
<1>5. ASSUME NEW o \in Objects, NEW k \in Events
      PROVE  \/ Coming(Update(IdOf[o], k))' \/ o \in lost'
             \/ ver'[o][k] = ver[o][k] /\ ~Coming(Update(IdOf[o], k))
  BY <1>1, <1>3
<1> QED BY <1>1, <1>2, <1>4, <1>5, OutsideKeeps

-----------------------------------------------------------------------------
(* What a refresh reads is what there is. *)

\* while a refresh is at hand, other work stays on its way
LEMMA RefreshNotices ==
    ASSUME IInv, UNCHANGED <<workCh, thread, loop, loopWork, worker>>,
           step \in RefreshSteps, worker \in {"init", "work"}
    PROVE  /\ \A o \in Objects : \A k \in Events :
                  Coming(Update(IdOf[o], k)) => Coming(Update(IdOf[o], k))'
           /\ step \notin {"begin", "enumerate"} => (RefreshComing => RefreshComing')
<1>1. worker = "init" => loop = "none"
  BY DEF IInv, PlaceInv
<1>2. worker = "work" => loopWork = Refresh
  BY DEF IInv, WorkInv
<1>3. \A o \in Objects : \A k \in Events : Update(IdOf[o], k) # Refresh
  BY WorksAre, IdAssumption
<1>4. ASSUME NEW o \in Objects, NEW k \in Events, Coming(Update(IdOf[o], k))
      PROVE  Coming(Update(IdOf[o], k))'
  BY <1>1, <1>2, <1>3, <1>4, JobNotices
<1>5. ASSUME step \notin {"begin", "enumerate"}, RefreshComing PROVE RefreshComing'
  <2>1. Coming(Refresh) /\ step \notin Unread
    BY <1>5 DEF RefreshComing, RefreshSteps, Unread
  <2> QED BY <2>1, JobNotices DEF RefreshComing
<1> QED BY <1>4, <1>5

\* the steps that read no session, and those of the registering and the letting go
LEMMA ReadingConv ==
    ASSUME IInv, ConvInv, closed' = FALSE,
           \/ RefreshBegins \/ GetSessions \/ MergeBegins \/ RefreshEnds
           \/ \E o \in view : ReadFails(o)
    PROVE  ConvInv'
<1> USE DEF IInv
<1>1. /\ worker \in {"init", "work"} /\ step \in {"begin", "enumerate", "read", "release"}
      /\ UNCHANGED <<live, born, ver, thread, workCh, sessions, closed, loop, loopWork, worker,
                     enumerated, seen, updating>>
      /\ lost \subseteq lost' /\ step' # "store" /\ step' # "register"
  BY DEF RefreshBegins, GetSessions, MergeBegins, RefreshEnds, ReadFails, Working, Refreshing,
      RefreshGoto, Goto, winVars, loopVars, Forget, history
<1>2. Known' = Known /\ born' \subseteq Objects /\ ConvInv /\ closed = FALSE
  BY <1>1 DEF Known, TypeOK
<1>3. /\ \A o \in Objects : \A k \in Events :
             Coming(Update(IdOf[o], k)) => Coming(Update(IdOf[o], k))'
      /\ step \notin {"begin", "enumerate"} => (RefreshComing => RefreshComing')
  BY <1>1, RefreshNotices DEF RefreshSteps
<1>4. InfoInv'
  BY <1>1, <1>2, <1>3, InfoFrame DEF ConvInv
<1>5. \/ step \in {"read", "merge", "register"}
      \/ seen = {} /\ enumerated = {}
  BY DEF LocalInv
<1>6. SeenInv'
  <2>1. \A id \in seen : id \in Known \/ \E e \in enumerated : IdOf[e[1]] = id
    BY <1>2, <1>5 DEF ConvInv, SeenInv
  <2> QED BY <1>1, <1>2, <2>1 DEF ConvInv, SeenInv
<1>7. view' \subseteq born
  <2>1. CASE GetSessions
    BY <2>1 DEF GetSessions, TypeOK
  <2>2. CASE \/ RefreshBegins \/ MergeBegins \/ RefreshEnds \/ \E o \in view : ReadFails(o)
    BY <1>2, <2>2 DEF RefreshBegins, MergeBegins, RefreshEnds, ReadFails, ConvInv, BornInv
  <2> QED BY <2>1, <2>2
<1>8. BornInv'
  BY <1>1, <1>2, <1>7 DEF ConvInv, BornInv
<1>9. CoverInv'
  <2>1. CASE RefreshBegins
    <3>1. /\ worker = "work" /\ loopWork = Refresh /\ loop = "running"
          /\ step = "begin" /\ step' = "enumerate"
      BY <2>1 DEF RefreshBegins, Working, RefreshGoto, Goto, PlaceInv, WorkInv, RefreshSteps
    <3>2. RefreshComing'
      BY <1>1, <3>1 DEF RefreshComing, Coming, Unread
    <3> QED BY <3>2 DEF CoverInv
  <2>2. CASE GetSessions
    <3>1. /\ step' = "read" /\ step = "enumerate"
          /\ view' \in SUBSET live /\ (view' # live => Cardinality(view') = MaxSessions)
      BY <2>2 DEF GetSessions, Refreshing, RefreshGoto, Goto
    <3>2. seen' = {}
      BY <1>1, <3>1 DEF LocalInv
    <3>3. Target' = IdsOf(view')
      BY <3>1, <3>2 DEF Target, IdsOf
    <3>4. Covered'
      BY <1>1, <3>1, <3>3 DEF Covered, IdsOf
    <3> QED BY <3>4 DEF CoverInv
  <2>3. CASE \E o \in view : ReadFails(o)
    BY <2>3 DEF ReadFails, Forget, CoverInv
  <2>4. CASE MergeBegins \/ RefreshEnds
    <3>1. step \in {"read", "release"} /\ missed' = missed
      BY <2>4 DEF MergeBegins, RefreshEnds, Refreshing, history
    <3>2. Target' = Target
      <4>1. CASE MergeBegins
        <5>1. step = "read" /\ step' = "merge" /\ view = {}
          BY <4>1 DEF MergeBegins, Refreshing, RefreshGoto, Goto
        <5> QED BY <1>1, <5>1 DEF Target, IdsOf
      <4>2. CASE RefreshEnds
        <5>1. step = "release" /\ step' \in {"registerCurrent", "emit"}
          BY <4>2 DEF RefreshEnds, Refreshing, RefreshGoto, Goto
        <5> QED BY <1>2, <5>1 DEF Target
      <4> QED BY <2>4, <4>1, <4>2
    <3> QED BY <1>1, <1>2, <1>3, <3>1, <3>2, CoverFrame DEF ConvInv
  <2> QED BY <2>1, <2>2, <2>3, <2>4
<1> QED BY <1>4, <1>6, <1>8, <1>9 DEF ConvInv

\* handlers open and close, and the entries stay
LEMMA RegisteringConv ==
    ASSUME IInv, ConvInv, closed' = FALSE,
           RegisterEvent \/ RegisterFails \/ \E r \in removed : ReleaseRemoved(r)
    PROVE  ConvInv'
<1> USE DEF IInv
<1>1. /\ worker \in {"init", "work"} /\ step \in {"register", "release"}
      /\ UNCHANGED <<live, born, ver, thread, workCh, closed, loop, loopWork, worker,
                     view, enumerated, seen, updating, missed, lost>>
      /\ step' \in {"register", "merge", "release"}
      /\ step = "release" <=> step' = "release"
  BY DEF RegisterEvent, RegisterFails, ReleaseRemoved, Refreshing, RefreshGoto, Goto, winVars,
      loopVars, history
<1>2. /\ Known' = Known
      /\ \A id \in Known : /\ sessions'[id].ptr = sessions[id].ptr
                           /\ sessions'[id].info = sessions[id].info
  <2>1. CASE \E r \in removed : ReleaseRemoved(r)
    BY <2>1 DEF ReleaseRemoved, Known
  <2>2. CASE RegisterEvent \/ RegisterFails
    <3>1. registering \in Known /\ sessions[registering].handlers < NumEvents
      BY <2>2 DEF RegisterEvent, RegisterFails, Refreshing, LocalInv
    <3>2. sessions[registering].handlers + 1 \in 0..NumEvents /\ 0 \in 0..NumEvents
      BY <3>1, EntryParts, BoundAssumption
    <3>3. PICK n \in 0..NumEvents : sessions' = [sessions EXCEPT ![registering].handlers = n]
      BY <2>2, <3>2 DEF RegisterEvent, RegisterFails
    <3> QED BY <3>1, <3>3, HandlersChange
  <2> QED BY <2>1, <2>2
<1>3. ConvInv /\ closed = FALSE /\ born' \subseteq Objects
  BY <1>1 DEF TypeOK
<1>4. /\ \A o \in Objects : \A k \in Events :
             Coming(Update(IdOf[o], k)) => Coming(Update(IdOf[o], k))'
      /\ RefreshComing => RefreshComing'
  BY <1>1, RefreshNotices DEF RefreshSteps
<1>5. InfoInv'
  BY <1>1, <1>2, <1>3, <1>4, InfoFrame DEF ConvInv
<1>6. SeenInv' /\ BornInv'
  BY <1>1, <1>2, <1>3 DEF ConvInv, SeenInv, BornInv
<1>7. Target' = Target
  BY <1>1, <1>2 DEF Target
<1>8. CoverInv'
  BY <1>1, <1>3, <1>4, <1>7, CoverFrame DEF ConvInv
<1> QED BY <1>5, <1>6, <1>8 DEF ConvInv

\* what stays is what was seen, and all that was seen is known
LEMMA SweepConv == ASSUME IInv, ConvInv, closed' = FALSE, Sweep PROVE ConvInv'
<1> USE DEF IInv
<1>1. /\ worker \in {"init", "work"} /\ step = "merge" /\ step' = "release" /\ enumerated = {}
      /\ seen' = {}
      /\ UNCHANGED <<live, born, ver, thread, workCh, closed, loop, loopWork, worker, view,
                     enumerated, updating, missed, lost>>
      /\ sessions' = [id \in Ids |-> IF id \in seen THEN sessions[id] ELSE NoEntry]
  BY DEF Sweep, Refreshing, RefreshGoto, Goto, winVars, loopVars, history
<1>2. ConvInv /\ closed = FALSE /\ born' \subseteq Objects
  BY <1>1 DEF TypeOK
<1>3. seen \subseteq Known
  BY <1>1, <1>2 DEF ConvInv, SeenInv
<1>4. Known' = seen /\ \A id \in seen : sessions'[id] = sessions[id]
  BY <1>1, <1>3 DEF Known
<1>5. /\ \A o \in Objects : \A k \in Events :
             Coming(Update(IdOf[o], k)) => Coming(Update(IdOf[o], k))'
      /\ RefreshComing => RefreshComing'
  BY <1>1, RefreshNotices DEF RefreshSteps
<1>6. InfoInv'
  BY <1>1, <1>2, <1>3, <1>4, <1>5, InfoFrame DEF ConvInv
<1>7. SeenInv' /\ BornInv'
  BY <1>1, <1>2, <1>3, <1>4 DEF ConvInv, SeenInv, BornInv
<1>8. Target' = Target
  BY <1>1, <1>4 DEF Target
<1>9. CoverInv'
  BY <1>1, <1>2, <1>5, <1>8, CoverFrame DEF ConvInv
<1> QED BY <1>6, <1>7, <1>9 DEF ConvInv

\* what is read is what the session has now, lost changes included
LEMMA ReadSessionConv ==
    ASSUME IInv, ConvInv, closed' = FALSE, NEW o \in view, ReadSession(o) PROVE ConvInv'
<1> USE DEF IInv
<1>1. /\ worker \in {"init", "work"} /\ step = "read" /\ step' = "read"
      /\ view' = view \ {o} /\ enumerated' = enumerated \cup {<<o, ver[o]>>}
      /\ seen' = seen \cup {IdOf[o]} /\ lost' = lost \ {o}
      /\ UNCHANGED <<live, born, ver, thread, workCh, sessions, closed, loop, loopWork, worker,
                     updating, missed>>
  BY DEF ReadSession, Refreshing, RefreshGoto, Goto, winVars, loopVars
<1>2. /\ ConvInv /\ closed = FALSE /\ born' \subseteq Objects
      /\ view \subseteq Objects /\ Known' = Known
  BY <1>1 DEF TypeOK, Known
<1>3. /\ \A p \in Objects : \A k \in Events :
             Coming(Update(IdOf[p], k)) => Coming(Update(IdOf[p], k))'
      /\ RefreshComing => RefreshComing'
  BY <1>1, RefreshNotices DEF RefreshSteps
<1>4. \A e \in enumerated' : \/ e \in enumerated /\ e[1] # o
                             \/ e[1] = o /\ e[2] = ver[o] /\ e = <<o, ver[o]>>
  BY <1>1 DEF EntryInv
<1>5. InfoInv'
  <2>1. ASSUME NEW p \in Objects, Unique(IdOf[p])', p \notin lost'
        PROVE  /\ HasEntry(p)' => \/ Fresh(p, sessions[IdOf[p]].info)'
                                  \/ \E e \in enumerated' : e[1] = p
                                  \/ step' = "store" /\ updating'[1] = p
               /\ \A e \in enumerated' : e[1] = p => Fresh(p, e[2])'
               /\ step' = "store" /\ updating'[1] = p => Fresh(p, updating[2])'
    <3>1. CASE p = o
      <4>1. <<o, ver[o]>> \in enumerated' /\ <<o, ver[o]>>[1] = o
        BY <1>1
      <4>2. \A e \in enumerated' : e[1] = o => Fresh(o, e[2])'
        BY <1>1, <1>4 DEF Fresh
      <4> QED BY <1>1, <3>1, <4>1, <4>2
    <3>2. CASE p # o
      <4>1. Unique(IdOf[p]) /\ p \notin lost
        BY <2>1, <3>2, <1>1, <1>2, UniqueShrinks, IdAssumption
      <4>2. /\ HasEntry(p) => \/ Fresh(p, sessions[IdOf[p]].info)
                              \/ \E e \in enumerated : e[1] = p
            /\ \A e \in enumerated : e[1] = p => Fresh(p, e[2])
        BY <1>1, <1>2, <4>1 DEF ConvInv, InfoInv
      <4>3. \A v : Fresh(p, v) =>
                       \A k \in Events : v[k] = ver'[p][k] \/ Coming(Update(IdOf[p], k))'
        BY <1>1, <1>3 DEF Fresh
      <4>4. HasEntry(p)' => HasEntry(p) /\ sessions' = sessions
        BY <1>1, <1>2 DEF HasEntry
      <4>5. HasEntry(p)' => Fresh(p, sessions[IdOf[p]].info)' \/ \E e \in enumerated' : e[1] = p
        BY <1>1, <4>2, <4>3, <4>4 DEF Fresh
      <4>6. \A e \in enumerated' : e[1] = p => Fresh(p, e[2])'
        BY <1>4, <3>2, <4>2, <4>3 DEF Fresh
      <4> QED BY <1>1, <4>5, <4>6
    <3> QED BY <3>1, <3>2
  <2> QED BY <2>1 DEF InfoInv
<1>6. SeenInv'
  <2>1. IdOf[<<o, ver[o]>>[1]] = IdOf[o] /\ <<o, ver[o]>> \in enumerated'
    BY <1>1
  <2> QED BY <1>1, <1>2, <1>4, <2>1 DEF ConvInv, SeenInv
<1>7. BornInv'
  BY <1>1, <1>2, <1>4 DEF ConvInv, BornInv
<1>8. Target' = Target
  BY <1>1 DEF Target, IdsOf
<1>9. CoverInv'
  BY <1>1, <1>2, <1>3, <1>8, CoverFrame DEF ConvInv
<1> QED BY <1>5, <1>6, <1>7, <1>9 DEF ConvInv

\* what was read of a session is written to its entry, new or known
LEMMA MergeConv ==
    ASSUME IInv, ConvInv, closed' = FALSE, NEW e \in enumerated, MergeExisting(e) \/ MergeNew(e)
    PROVE  ConvInv'
<1> USE DEF IInv
<1> DEFINE o == e[1]
<1>1. /\ worker \in {"init", "work"} /\ step = "merge" /\ step' \in {"merge", "register"}
      /\ enumerated' = enumerated \ {e}
      /\ UNCHANGED <<live, born, ver, thread, workCh, closed, loop, loopWork, worker, view, seen,
                     updating, missed, lost>>
  BY DEF MergeExisting, MergeNew, Refreshing, RefreshGoto, Goto, winVars, loopVars, history
<1>2. ConvInv /\ closed = FALSE /\ born' \subseteq Objects /\ TypeOK
  BY <1>1 DEF TypeOK
<1>3. /\ \A p \in Objects : \A k \in Events :
             Coming(Update(IdOf[p], k)) => Coming(Update(IdOf[p], k))'
      /\ RefreshComing => RefreshComing'
  BY <1>1, RefreshNotices DEF RefreshSteps
<1>4. o \in Objects /\ o \in born /\ IdOf[o] \in Ids /\ e[2] \in Versions
  BY <1>2, EntryParts, IdAssumption DEF ConvInv, BornInv
<1>5. /\ Known' = Known \cup {IdOf[o]}
      /\ sessions'[IdOf[o]].info = e[2]
      /\ sessions'[IdOf[o]].ptr \in born
      /\ \A id \in Known \ {IdOf[o]} : /\ sessions'[id].ptr = sessions[id].ptr
                                       /\ sessions'[id].info = sessions[id].info
  <2>1. CASE MergeExisting(e)
    <3>1. IdOf[o] \in Known /\ sessions' = [sessions EXCEPT ![IdOf[o]].info = e[2]]
      BY <2>1 DEF MergeExisting
    <3>2. sessions[IdOf[o]].ptr \in born
      BY <1>2, <3>1 DEF ConvInv, BornInv
    <3>3. /\ Known' = Known
          /\ \A j \in Known : /\ sessions'[j].ptr = sessions[j].ptr
                              /\ j # IdOf[o] => sessions'[j].info = sessions[j].info
          /\ sessions'[IdOf[o]].info = e[2]
      BY <1>4, <3>1, InfoChange
    <3> QED BY <3>1, <3>2, <3>3
  <2>2. CASE MergeNew(e)
    <3> DEFINE q == [ptr |-> o, info |-> e[2], handlers |-> 0]
    <3>1. /\ sessions' = [sessions EXCEPT ![IdOf[o]] = q]
          /\ q \in Entries /\ q.ptr = o /\ q.info = e[2]
      BY <1>4, <2>2, BoundAssumption DEF MergeNew, Entries
    <3> HIDE DEF q
    <3>2. \A id \in Ids : sessions'[id] = IF id = IdOf[o] THEN q ELSE sessions[id]
      BY <1>2, <3>1 DEF TypeOK
    <3>3. Known' = Known \cup {IdOf[o]}
      BY <1>4, <3>1, <3>2, EntryAssumption DEF Known
    <3> QED BY <1>4, <3>1, <3>2, <3>3 DEF Known
  <2> QED BY <2>1, <2>2
<1> HIDE DEF o
<1>6. \A f \in enumerated : f[1] = o => f = e
  BY DEF EntryInv, o
<1>7. InfoInv'
  <2>1. ASSUME NEW p \in Objects, Unique(IdOf[p])', p \notin lost'
        PROVE  /\ HasEntry(p)' => \/ Fresh(p, sessions[IdOf[p]].info)'
                                  \/ \E f \in enumerated' : f[1] = p
               /\ \A f \in enumerated' : f[1] = p => Fresh(p, f[2])'
    <3>1. Unique(IdOf[p]) /\ p \notin lost
      BY <2>1, <1>1, <1>2, UniqueShrinks, IdAssumption
    <3>2. /\ HasEntry(p) => \/ Fresh(p, sessions[IdOf[p]].info)
                            \/ \E f \in enumerated : f[1] = p
          /\ \A f \in enumerated : f[1] = p => Fresh(p, f[2])
      BY <1>1, <1>2, <3>1 DEF ConvInv, InfoInv
    <3>3. \A v : Fresh(p, v) => \A k \in Events : v[k] = ver'[p][k] \/ Coming(Update(IdOf[p], k))'
      BY <1>1, <1>3 DEF Fresh
    <3>4. \A f \in enumerated' : f[1] = p => Fresh(p, f[2])'
      BY <1>1, <3>2, <3>3 DEF Fresh
    <3>5. CASE HasEntry(p)' /\ IdOf[p] = IdOf[o]
      <4>1. p \in born
        BY <3>5, <1>5 DEF HasEntry
      <4>2. p = o
        BY <4>1, <3>1, <3>5, <1>2, <1>4, UniqueIs
      <4>3. Fresh(p, e[2])
        BY <4>2, <3>2 DEF o
      <4> QED BY <4>3, <3>3, <3>4, <3>5, <1>5 DEF Fresh
    <3>6. CASE HasEntry(p)' /\ IdOf[p] # IdOf[o]
      <4>1. /\ HasEntry(p) /\ p # o
            /\ sessions'[IdOf[p]].info = sessions[IdOf[p]].info
        BY <3>6, <1>5 DEF HasEntry
      <4>2. (\E f \in enumerated : f[1] = p) => \E f \in enumerated' : f[1] = p
        BY <4>1, <1>1 DEF o
      <4> QED BY <4>1, <4>2, <3>2, <3>3, <3>4 DEF Fresh
    <3> QED BY <3>4, <3>5, <3>6
  <2> QED BY <1>1, <2>1 DEF InfoInv
<1>8. SeenInv'
  <2>1. \A id \in seen : id \in Known \/ \E f \in enumerated : IdOf[f[1]] = id
    BY <1>1, <1>2 DEF ConvInv, SeenInv
  <2>2. \A id \in seen : id \in Known' \/ \E f \in enumerated' : IdOf[f[1]] = id
    BY <2>1, <1>1, <1>5 DEF o
  <2> QED BY <1>1, <1>2, <2>2 DEF ConvInv, SeenInv
<1>9. BornInv'
  BY <1>1, <1>2, <1>5 DEF ConvInv, BornInv
<1>10. Target' = Target
  BY <1>1 DEF Target
<1>11. CoverInv'
  BY <1>1, <1>2, <1>3, <1>10, CoverFrame DEF ConvInv
<1> QED BY <1>7, <1>8, <1>9, <1>11 DEF ConvInv

\* every step of refreshSessions
LEMMA RefreshesConv == ASSUME IInv, ConvInv, closed' = FALSE, Refreshes PROVE ConvInv'
<1>1. CASE RefreshRefused
  <2>1. closed' = TRUE
    BY <1>1 DEF RefreshRefused, EndJob, IInv, TypeOK
  <2> QED BY <2>1
<1>2. CASE GetSessionsFails
  <2> USE DEF IInv
  <2>1. /\ worker = "work" /\ step = "enumerate" /\ step' = "none" /\ missed' # {}
        /\ enumerated' = {} /\ seen' = {} /\ view' = view /\ updating' = NoUpdate
        /\ UNCHANGED <<live, born, ver, thread, workCh, sessions, closed, lost>>
    BY <1>2 DEF GetSessionsFails, Working, EndJob, Forget, winVars
  <2>2. enumerated = {} /\ seen = {} /\ loopWork = Refresh
    BY <2>1 DEF LocalInv, WorkInv, RefreshSteps
  <2>3. ConvInv /\ closed = FALSE /\ born' \subseteq Objects /\ Known' = Known
    BY <2>1 DEF TypeOK, Known
  <2>4. ASSUME NEW o \in Objects, NEW k \in Events, Coming(Update(IdOf[o], k))
        PROVE  Coming(Update(IdOf[o], k))'
    <3>1. Update(IdOf[o], k) # Refresh
      BY WorksAre, IdAssumption
    <3> QED BY <2>1, <2>2, <2>4, <3>1, JobNotices
  <2>5. InfoInv'
    BY <2>1, <2>2, <2>3, <2>4, InfoFrame DEF ConvInv
  <2>6. SeenInv' /\ BornInv'
    BY <2>1, <2>2, <2>3 DEF ConvInv, SeenInv, BornInv
  <2>7. CoverInv'
    BY <2>1 DEF CoverInv
  <2> QED BY <2>5, <2>6, <2>7 DEF ConvInv
<1> QED BY <1>1, <1>2, ReadingConv, ReadSessionConv, MergeConv, RegisteringConv, SweepConv
        DEF Refreshes

-----------------------------------------------------------------------------
(* What an update writes is not older than what was known. *)

\* while an update is at hand nothing is being read, and other work stays on its way
LEMMA UpdateNotices ==
    ASSUME IInv, UNCHANGED <<workCh, thread>>,
           worker = "work", step \in {"fetch", "store", "emit", "send"}
    PROVE  /\ RefreshComing => RefreshComing'
           /\ \A w : w # loopWork \/ step # "fetch" => (Coming(w) => Coming(w)')
           /\ view = {} /\ enumerated = {} /\ seen = {}
           /\ Target = Known
<1>1. \A w : w # loopWork \/ step # "fetch" => (Coming(w) => Coming(w)')
  BY JobNotices DEF Unread
<1>2. Refresh # loopWork \/ step # "fetch"
  BY DEF IInv, WorkInv
<1>3. RefreshComing => RefreshComing'
  BY <1>1, <1>2 DEF RefreshComing
<1>4. view = {} /\ enumerated = {} /\ seen = {}
  BY DEF IInv, LocalInv
<1> QED BY <1>1, <1>3, <1>4 DEF Target

\* the steps of an update that write nothing: an update is dropped only for a session not known
LEMMA UpdateEndsConv ==
    ASSUME IInv, ConvInv, closed' = FALSE, FetchCurrent \/ SessionGone \/ EmitChecks \/ EmitSends
    PROVE  ConvInv'
<1> USE DEF IInv
<1>1. /\ worker = "work"
      /\ step \in {"fetch", "emit", "send"} /\ step' \in {"emit", "send", "none"}
      /\ UNCHANGED <<live, born, ver, thread, workCh, sessions, closed, view, missed, lost>>
      /\ enumerated' = enumerated \/ enumerated' = {}
      /\ seen' = seen \/ seen' = {}
      /\ step = "fetch" => loopWork = CurrentChanged \/ loopWork[2] \notin Known
  BY DEF FetchCurrent, SessionGone, EmitChecks, EmitSends, Working, EndJob, Goto, UpdateRests,
      winVars, history
<1>2. /\ ConvInv /\ closed = FALSE /\ born' \subseteq Objects /\ Known' = Known
  BY <1>1 DEF TypeOK, Known
<1>3. /\ RefreshComing => RefreshComing'
      /\ \A w : w # loopWork \/ step # "fetch" => (Coming(w) => Coming(w)')
      /\ enumerated = {} /\ enumerated' = {} /\ seen = {} /\ seen' = {}
      /\ Target = Known
  BY <1>1, UpdateNotices
<1>4. ASSUME NEW o \in Objects, NEW k \in Events
      PROVE  \/ IdOf[o] \notin Known' /\ enumerated = {} /\ step # "store"
             \/ Coming(Update(IdOf[o], k))' \/ o \in lost'
             \/ ver'[o][k] = ver[o][k] /\ ~Coming(Update(IdOf[o], k))
  <2>1. Update(IdOf[o], k) # CurrentChanged /\ Update(IdOf[o], k)[2] = IdOf[o]
    BY WorksAre, IdAssumption
  <2>2. CASE step = "fetch" /\ loopWork = Update(IdOf[o], k)
    BY <1>1, <1>2, <1>3, <2>1, <2>2
  <2>3. CASE ~(step = "fetch" /\ loopWork = Update(IdOf[o], k))
    BY <1>1, <1>3, <2>3
  <2> QED BY <2>2, <2>3
<1>5. InfoInv'
  BY <1>1, <1>2, <1>3, <1>4, InfoFrame DEF ConvInv
<1>6. SeenInv' /\ BornInv'
  BY <1>1, <1>2, <1>3 DEF ConvInv, SeenInv, BornInv
<1>7. CoverInv'
  <2>1. Target' = Target
    BY <1>1, <1>2, <1>3 DEF Target
  <2> QED BY <1>1, <1>2, <1>3, <2>1, CoverFrame DEF ConvInv
<1> QED BY <1>5, <1>6, <1>7 DEF ConvInv

\* the part that changed is read anew, the others are taken over
LEMMA FetchUpdateConv == ASSUME IInv, ConvInv, closed' = FALSE, FetchUpdate PROVE ConvInv'
<1> USE DEF IInv
<1> DEFINE id == loopWork[2]
           k  == loopWork[3]
           p  == sessions[id].ptr
           i  == sessions[id].info
<1>1. /\ worker = "work" /\ step = "fetch" /\ step' = "store" /\ loopWork # CurrentChanged
      /\ id \in Known
      /\ UNCHANGED <<live, born, ver, thread, workCh, sessions, closed, view, enumerated, seen>>
      /\ \/ updating' = <<p, [i EXCEPT ![k] = ver[p][k]]>> /\ UNCHANGED <<missed, lost>>
         \/ updating' = <<p, i>> /\ Forget(loopWork, "failed")
  BY DEF FetchUpdate, Working, Goto, UpdateRests, winVars, history
<1>2. /\ ConvInv /\ closed = FALSE /\ born' \subseteq Objects /\ Known' = Known /\ TypeOK
  BY <1>1 DEF TypeOK, Known
<1>3. /\ loopWork # Refresh /\ loopWork \in Works
  BY <1>1 DEF WorkInv, PlaceInv
<1>4. id \in Ids /\ k \in Events /\ loopWork = Update(id, k)
  <2>1. PICK j \in Ids, n \in Events : loopWork = Update(j, n)
    BY <1>1, <1>3, WorksAre
  <2> QED BY <2>1, WorksAre
<1>5. /\ p \in Objects /\ p \in born /\ i \in Versions /\ IdOf[p] = id
  BY <1>1, <1>2, EntryParts DEF ConvInv, BornInv, EntryInv
<1> HIDE DEF id, k, p, i
<1>6. /\ RefreshComing => RefreshComing'
      /\ \A w : w # loopWork => (Coming(w) => Coming(w)')
      /\ enumerated = {} /\ seen = {} /\ Target = Known
  BY <1>1, UpdateNotices
<1>7. missed \subseteq missed' /\ lost \subseteq lost'
  BY <1>1 DEF Forget
<1>8. SeenInv' /\ BornInv'
  BY <1>1, <1>2, <1>6 DEF ConvInv, SeenInv, BornInv
<1>9. CoverInv'
  <2>1. Target' = Target
    BY <1>1, <1>2, <1>6 DEF Target
  <2> QED BY <1>1, <1>2, <1>6, <1>7, <2>1, CoverFrame DEF ConvInv
<1>10. InfoInv'
  <2>1. ASSUME NEW o \in Objects, Unique(IdOf[o])', o \notin lost'
        PROVE  /\ HasEntry(o)' => Fresh(o, sessions[IdOf[o]].info)' \/ updating'[1] = o
               /\ updating'[1] = o => Fresh(o, updating[2])'
    <3>1. Unique(IdOf[o]) /\ o \notin lost
      BY <2>1, <1>1, <1>2, <1>7, UniqueShrinks, IdAssumption
    <3>2. HasEntry(o) => Fresh(o, sessions[IdOf[o]].info)
      BY <1>1, <1>2, <1>6, <3>1 DEF ConvInv, InfoInv
    <3>3. updating'[1] = p
      BY <1>1
    <3>4. CASE o = p
      <4>1. HasEntry(o) /\ sessions[IdOf[o]].info = i
        BY <1>1, <1>5, <3>4 DEF HasEntry, p, i
      <4>2. updating' = <<p, [i EXCEPT ![k] = ver[p][k]]>>
        <5>1. Forget(loopWork, "failed") => o \in lost'
          BY <1>1, <1>3, <1>5, <3>4 DEF Forget, id
        <5> QED BY <1>1, <2>1, <5>1
      <4>3. \A j \in Events : updating'[2][j] = IF j = k THEN ver[p][k] ELSE i[j]
        BY <1>4, <1>5, <4>2 DEF Versions
      <4>4. \A j \in Events : j # k => Update(IdOf[o], j) # loopWork
        <5>1. \A j \in Events : Update(IdOf[o], j)[3] = j /\ Update(id, k)[3] = k
          BY <1>4, WorksAre, IdAssumption
        <5> QED BY <5>1, <1>4
      <4>5. \A j \in Events : i[j] = ver[o][j] \/ Coming(Update(IdOf[o], j))
        BY <3>2, <4>1 DEF Fresh
      <4>6. ASSUME NEW j \in Events
            PROVE  updating'[2][j] = ver'[o][j] \/ Coming(Update(IdOf[o], j))'
        <5>1. CASE j = k
          BY <1>1, <3>4, <4>3, <5>1
        <5>2. CASE j # k
          BY <1>1, <1>6, <4>3, <4>4, <4>5, <5>2
        <5> QED BY <5>1, <5>2
      <4>7. Fresh(o, updating[2])'
        BY <4>6 DEF Fresh
      <4> QED BY <3>3, <3>4, <4>7
    <3>5. CASE o # p
      <4>1. HasEntry(o)' => HasEntry(o) /\ sessions' = sessions
        BY <1>1, <1>2 DEF HasEntry
      <4>2. HasEntry(o) => IdOf[o] # id
        BY <3>5 DEF HasEntry, p
      <4>3. HasEntry(o) => \A j \in Events : Update(IdOf[o], j) # loopWork
        <5>1. \A j \in Events : Update(IdOf[o], j)[2] = IdOf[o] /\ Update(id, k)[2] = id
          BY <1>4, WorksAre, IdAssumption
        <5> QED BY <5>1, <4>2, <1>4
      <4>4. HasEntry(o)' => Fresh(o, sessions[IdOf[o]].info)'
        BY <1>1, <1>6, <3>2, <4>1, <4>3 DEF Fresh
      <4> QED BY <3>3, <3>5, <4>4
    <3> QED BY <3>4, <3>5
  <2> QED BY <1>1, <1>6, <2>1 DEF InfoInv
<1> QED BY <1>8, <1>9, <1>10 DEF ConvInv

\* what was fetched is written to the entry it was fetched from
LEMMA StoreUpdateConv == ASSUME IInv, ConvInv, closed' = FALSE, StoreUpdate PROVE ConvInv'
<1> USE DEF IInv
<1> DEFINE id == loopWork[2]
           o  == updating[1]
           v  == updating[2]
<1>1. /\ worker = "work" /\ step = "store" /\ step' = "emit"
      /\ UNCHANGED <<live, born, ver, thread, workCh, closed, view, enumerated, seen, missed,
                     lost>>
      /\ sessions' = [sessions EXCEPT ![id].info = v]
  BY DEF StoreUpdate, Working, Goto, UpdateRests, winVars, history
<1>2. ConvInv /\ closed = FALSE /\ born' \subseteq Objects /\ TypeOK
  BY <1>1 DEF TypeOK
<1>3. updating # NoUpdate /\ IdOf[o] = id /\ HasEntry(o)
  BY <1>1 DEF WorkInv
<1>4. o \in Objects /\ v \in Versions /\ id \in Known /\ sessions[id].ptr = o
  BY <1>2, <1>3, EntryParts DEF HasEntry
<1> HIDE DEF id, o, v
<1>5. /\ RefreshComing => RefreshComing'
      /\ \A w : Coming(w) => Coming(w)'
      /\ enumerated = {} /\ seen = {} /\ Target = Known
  BY <1>1, UpdateNotices
<1>6. /\ Known' = Known
      /\ \A j \in Known : /\ sessions'[j].ptr = sessions[j].ptr
                          /\ j # id => sessions'[j].info = sessions[j].info
      /\ sessions'[id].info = v
      /\ \A p \in Objects : HasEntry(p)' <=> HasEntry(p)
  BY <1>1, <1>4, InfoChange
<1>7. SeenInv' /\ BornInv'
  BY <1>1, <1>2, <1>5, <1>6 DEF ConvInv, SeenInv, BornInv
<1>8. CoverInv'
  <2>1. Target' = Target
    BY <1>1, <1>5, <1>6 DEF Target
  <2> QED BY <1>1, <1>2, <1>5, <2>1, CoverFrame DEF ConvInv
<1>9. InfoInv'
  <2>1. ASSUME NEW p \in Objects, Unique(IdOf[p])', p \notin lost', HasEntry(p)'
        PROVE  Fresh(p, sessions[IdOf[p]].info)'
    <3>1. Unique(IdOf[p]) /\ p \notin lost /\ HasEntry(p)
      BY <2>1, <1>1, <1>2, <1>6, UniqueShrinks, IdAssumption
    <3>2. /\ Fresh(p, sessions[IdOf[p]].info) \/ o = p
          /\ o = p => Fresh(p, v)
      BY <1>1, <1>2, <1>5, <3>1 DEF ConvInv, InfoInv, o, v
    <3>3. sessions'[IdOf[p]].info = IF p = o THEN v ELSE sessions[IdOf[p]].info
      BY <1>3, <1>4, <1>6, <3>1 DEF HasEntry
    <3> QED BY <1>1, <1>5, <3>2, <3>3 DEF Fresh
  <2> QED BY <1>1, <1>5, <2>1 DEF InfoInv
<1> QED BY <1>7, <1>8, <1>9 DEF ConvInv

\* every step of an update
LEMMA UpdatesConv == ASSUME IInv, ConvInv, closed' = FALSE, Updates PROVE ConvInv'
<1>1. CASE UpdateRefused
  <2>1. closed' = TRUE
    BY <1>1 DEF UpdateRefused, EndJob, IInv, TypeOK
  <2> QED BY <2>1
<1> QED BY <1>1, UpdateEndsConv, FetchUpdateConv, StoreUpdateConv DEF Updates

-----------------------------------------------------------------------------
(* What holds when all is quiet. *)

\* at the start a refresh is coming
LEMMA ConvInit == Init => ConvInv
<1> SUFFICES ASSUME Init PROVE ConvInv
  OBVIOUS
<1>1. Known = {} /\ view = {} /\ enumerated = {} /\ seen = {} /\ step = "begin" /\ worker = "init"
  BY DEF Init, Known
<1>2. SeenInv /\ BornInv
  BY <1>1 DEF SeenInv, BornInv
<1>3. InfoInv
  BY <1>1 DEF InfoInv, HasEntry
<1>4. CoverInv
  BY <1>1 DEF CoverInv, RefreshComing
<1> QED BY <1>2, <1>3, <1>4 DEF ConvInv

\* every step keeps ConvInv while the monitor is open
LEMMA ConvKeeps == ASSUME IInv, ConvInv, [Next]_vars PROVE ConvInv'
<1> SUFFICES ASSUME closed' = FALSE PROVE ConvInv'
  BY DEF ConvInv
<1>1. CASE Windows \/ Receive \/ UNCHANGED vars
  BY <1>1, WindowsConv, ReceiveConv
<1>2. CASE \E t \in Threads : Deliver(t)
  BY <1>2, DeliverConv
<1>3. CASE Loop
  BY <1>3, LoopConv
<1>4. CASE Initializes \/ Refreshes \/ Updates
  BY <1>4, InitializesConv, RefreshesConv, UpdatesConv
<1>5. CASE CloseBegins \/ Closing \/ CloseJob
  <2>1. closed' = TRUE
    <3>1. CASE CloseBegins
      BY <3>1 DEF CloseBegins
    <3>2. CASE Closing \/ CloseJob
      <4>1. owner \in {"waitLoop", "submit", "running", "stopWorker", "closeEvents"}
        BY <3>2 DEF Closing, CloseLoopExited, CloseJobStarts, StopWorker, CloseEvents, OwnerGoto,
            CloseJob, CloseManagerEvent, CloseEntry, FinishClose, IInv, PlaceInv
      <4>2. closed' = closed
        BY <3>2 DEF Closing, CloseLoopExited, CloseJobStarts, StopWorker, CloseEvents,
            CloseJob, CloseManagerEvent, CloseEntry, FinishClose, CloseRests
      <4> QED BY <4>1, <4>2 DEF IInv, PlaceInv, TypeOK
    <3> QED BY <1>5, <3>1, <3>2
  <2> QED BY <2>1
<1> QED BY <1>1, <1>2, <1>3, <1>4, <1>5 DEF Next, Job

\* both invariants hold throughout
LEMMA ConvHolds == Spec => [](IInv /\ ConvInv)
<1>1. Init => IInv /\ ConvInv
  BY InvInit, ConvInit
<1>2. IInv /\ ConvInv /\ [Next]_vars => (IInv /\ ConvInv)'
  BY InvKeeps, ConvKeeps
<1> QED BY <1>1, <1>2, PTL DEF Spec

\* when all is quiet no work is on its way
LEMMA QuietIs ==
    ASSUME IInv, ConvInv, Quiescent
    PROVE  /\ \A w \in Works : ~Coming(w)
           /\ ~RefreshComing /\ Target = Known /\ enumerated = {} /\ step # "store"
           /\ CoverInv /\ BornInv /\ InfoInv
<1>1. owner = "open" /\ loop = "select" /\ workCh = <<>> /\ \A t \in Threads : thread[t] = Idle
  BY DEF Quiescent
<1>2. closed = FALSE /\ worker # "work" /\ worker # "init" /\ worker # "close" /\ worker # "ended"
  BY <1>1 DEF IInv, PlaceInv, TypeOK
<1>3. step = "none"
  BY <1>2 DEF IInv, PlaceInv, TypeOK
<1>4. ASSUME NEW w \in Works PROVE ~Coming(w)
  <2>1. ~Queued(w)
    BY <1>1 DEF Queued
  <2>2. \A t \in Threads : thread[t].work # w
    BY <1>1, WorksAre DEF Idle
  <2> QED BY <1>1, <2>1, <2>2 DEF Coming
<1>5. ~RefreshComing
  BY <1>2, <1>4, WorksAre DEF RefreshComing
<1>6. enumerated = {}
  BY <1>3 DEF IInv, LocalInv
<1> QED BY <1>2, <1>3, <1>4, <1>5, <1>6 DEF Target, ConvInv

\* monitor.go:260-314, 338-431.  When all is quiet m.sessions has the sessions there are, unless a
\* refresh was dropped or failed or a change came before SessionsChanged was subscribed to; with
\* more sessions than a refresh reads, none is known that is gone.
THEOREM Converges == Spec => []SessionsConverge
<1>1. IInv /\ ConvInv => SessionsConverge
  <2> SUFFICES ASSUME IInv, ConvInv, Quiescent, missed = {}
               PROVE  /\ Known \subseteq LiveIds
                      /\ Cardinality(live) <= MaxSessions => Known = LiveIds
    BY DEF SessionsConverge
  <2>1. Covered /\ Target = Known
    BY QuietIs DEF CoverInv
  <2>2. PICK read \in SUBSET live : /\ read # live => Cardinality(read) = MaxSessions
                                    /\ Known = IdsOf(read)
    BY <2>1 DEF Covered
  <2>3. Known \subseteq LiveIds
    BY <2>2 DEF IdsOf, LiveIds
  <2>4. ASSUME Cardinality(live) <= MaxSessions PROVE read = live
    <3>1. IsFiniteSet(live)
      BY ObjectAssumption, FS_Subset DEF IInv, TypeOK
    <3>2. /\ IsFiniteSet(read) /\ Cardinality(read) <= Cardinality(live)
          /\ Cardinality(live) = Cardinality(read) => live = read
      BY <3>1, FS_Subset
    <3>3. Cardinality(read) \in Nat /\ Cardinality(live) \in Nat
      BY <3>1, <3>2, FS_CardinalityType
    <3> QED BY <2>2, <2>4, <3>2, <3>3, BoundAssumption
  <2> QED BY <2>2, <2>3, <2>4 DEF IdsOf, LiveIds
<1> QED BY <1>1, ConvHolds, PTL

\* monitor.go:457-490, 338-431.  When all is quiet the properties kept of a session that has its
\* id to itself are those it has, unless the notice of a change was lost.
THEOREM InfoConverges == Spec => []UpdatesConverge
<1>1. IInv /\ ConvInv => UpdatesConverge
  <2> SUFFICES ASSUME IInv, ConvInv, Quiescent, NEW id \in Known, Unique(id),
                      sessions[id].ptr \notin lost
               PROVE  sessions[id].info = ver[sessions[id].ptr]
    BY DEF UpdatesConverge
  <2> DEFINE o == sessions[id].ptr
             v == sessions[id].info
  <2>1. TypeOK /\ IdOf[o] = id
    BY DEF IInv, EntryInv
  <2>2. o \in Objects /\ v \in Versions /\ ver[o] \in Versions
    BY <2>1, EntryParts DEF TypeOK
  <2>3. HasEntry(o) /\ Unique(IdOf[o]) /\ o \notin lost /\ sessions[IdOf[o]].info = v
    BY <2>1 DEF HasEntry
  <2> HIDE DEF o, v
  <2>4. Fresh(o, v)
    BY <2>2, <2>3, QuietIs DEF InfoInv
  <2>5. \A k \in Events : v[k] = ver[o][k]
    <3>1. \A k \in Events : Update(IdOf[o], k) \in Works
      BY <2>2, WorksAre, IdAssumption
    <3> QED BY <2>4, <3>1, QuietIs DEF Fresh
  <2>6. v = ver[o]
    BY <2>2, <2>5 DEF Versions
  <2> QED BY <2>6 DEF o, v
<1> QED BY <1>1, ConvHolds, PTL
=============================================================================
