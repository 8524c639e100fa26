------------------------------ MODULE Monitor ------------------------------
(***************************************************************************)
(* pkg/smtc/monitor/monitor.go: Monitor, which keeps a map of the system's *)
(* media sessions and turns WinRT events into a channel of ManagerEvents.  *)
(*                                                                         *)
(* Actors.  Windows starts, changes and ends sessions and delivers events  *)
(* on threads of its own, which only put a work item into workCh (enqueue).*)
(* The goroutine eventLoop takes the items and has each handled as a job   *)
(* of the MTAWorker, which runs one job at a time (SerialExecutor).  The   *)
(* program calls Sessions, CurrentSession and Close.                       *)
(*                                                                         *)
(* m.mu is never held over a call that blocks, so that a critical section  *)
(* is one step; refreshSessions leaves its own between two sessions to     *)
(* subscribe to a new one.  An EventHandler is open or closed and its      *)
(* Close waits for the deliveries inside it (CallbackGate).                *)
(***************************************************************************)
EXTENDS Naturals, Sequences, FiniteSets

CONSTANTS Objects,    \* the session objects Windows may create
          Ids,        \* SourceAppUserModelId values
          IdOf,       \* Objects -> Ids; two objects may share an id
          NumEvents,  \* events per session, registered in this order
          Threads,    \* Windows' threads that deliver events
          WorkCap,    \* capacity of workCh (Config.WorkBuffer)
          EventCap,   \* capacity of managerEvents (Config.ManagerEventBuffer)
          MaxSessions, \* how many sessions a refresh reads: 50 in the code
          MaxChanges, \* bound: how often properties of sessions change
          MaxCurrent, \* bound: how often the current session changes
          MaxFailures, \* bound: how many calls into WinRT fail
          NoEntry     \* no entry in m.sessions

ASSUME IdAssumption == IdOf \in [Objects -> Ids]
ASSUME ObjectAssumption == IsFiniteSet(Objects)
ASSUME BoundAssumption == /\ NumEvents \in Nat \ {0} /\ WorkCap \in Nat \ {0}
                          /\ EventCap \in Nat \ {0} /\ MaxSessions \in Nat \ {0}
                          /\ MaxChanges \in Nat /\ MaxCurrent \in Nat /\ MaxFailures \in Nat

Events   == 1..NumEvents
Versions == [Events -> 0..MaxChanges]

\* work items: refresh all, the current session changed, or event k of session id
Refresh        == <<"refresh">>
CurrentChanged == <<"current">>
Update(id, k)  == <<"update", id, k>>
Works  == {Refresh, CurrentChanged} \cup {Update(id, k) : id \in Ids, k \in Events}
NoWork == <<>>

VARIABLES
    \* Windows (external)
    live,        \* the sessions that exist now
    born,        \* the sessions that ever existed
    ver,         \* Objects -> Events -> version of the session's properties
    changes,     \* number of changes of properties so far
    currents,    \* number of changes of the current session so far
    failures,    \* number of calls that failed so far
    subs,        \* <<object, k>>: open subscriptions to session events
    mgrSubs,     \* open subscriptions to the manager's events
    thread,      \* Threads -> what the thread is delivering
    \* the Monitor
    sessions,    \* m.sessions: Ids -> an entry or NoEntry
    refs,        \* Objects -> references held to the object
    managerRefs, \* references held to the manager, those of a job at hand apart
    closed,      \* m.closed, and close(m.doneCh) has run
    workCh,      \* m.workCh
    events,      \* number of events in m.managerEvents
    eventsClosed, \* close(m.managerEvents) has run
    loop,        \* where eventLoop is
    loopWork,    \* the item it took
    owner,       \* where New and then Close are
    worker,      \* what runs on the MTAWorker: a job, none, or it has ended
    step,        \* where that job is
    view,        \* refreshSessions: the sessions of the vector not read yet
    enumerated,  \* refreshSessions: <<object, versions>> read, not yet merged
    seen,        \* refreshSessions: the ids read
    registering, \* refreshSessions: the id whose events are being registered
    removed,     \* refreshSessions, closeWinRT: the entries to let go
    updating,    \* handleSessionUpdate: <<object, eventInfo>>
    \* history
    missed,      \* why changes of the set of sessions left no work behind
    lost         \* the sessions of which a change left no work behind

winVars  == <<live, born, ver, changes, currents>>
subVars  == <<subs, mgrSubs>>
refVars  == <<refs, managerRefs>>
chVars   == <<workCh, events, eventsClosed>>
loopVars == <<loop, loopWork>>
localVars == <<view, enumerated, seen, registering, removed, updating>>
jobVars  == <<worker, step, localVars>>
history  == <<missed, lost>>
vars == <<winVars, failures, subVars, thread, sessions, refVars, closed, chVars, loopVars,
          owner, jobVars, history>>

Idle     == [pc |-> "idle", from |-> NoWork, work |-> NoWork]
NoUpdate == <<>>
NoId     == ""
Entries  == [ptr : Objects, info : Versions, handlers : 0..NumEvents]
ASSUME EntryAssumption == NoEntry \notin Entries  \* NoEntry is a key's absence

\* what a delivery comes from: an event of the manager or <<object, k>>
Sources == {<<"sessions">>, <<"current">>} \cup (Objects \X Events)

TypeOK ==
    /\ live \subseteq born /\ born \subseteq Objects
    /\ ver \in [Objects -> Versions]
    /\ changes \in 0..MaxChanges /\ currents \in 0..MaxCurrent /\ failures \in 0..MaxFailures
    /\ subs \subseteq Objects \X Events
    /\ mgrSubs \subseteq {<<"sessions">>, <<"current">>}
    /\ thread \in [Threads -> {Idle} \cup [pc : {"raised", "checked"}, from : Sources,
                                           work : Works]]
    /\ sessions \in [Ids -> Entries \cup {NoEntry}]
    /\ refs \in [Objects -> Nat]
    /\ managerRefs \in 0..3
    /\ closed \in BOOLEAN /\ eventsClosed \in BOOLEAN
    /\ workCh \in Seq(Works) /\ Len(workCh) <= WorkCap
    /\ events \in 0..EventCap
    /\ loop \in {"none", "select", "do", "submitted", "running", "exited"}
    /\ loopWork \in Works \cup {NoWork}
    /\ owner \in {"new", "open", "waitLoop", "submit", "running", "stopWorker",
                  "closeEvents", "closed"}
    /\ worker \in {"init", "none", "work", "close", "ended"}
    /\ step \in {"none", "begin", "enumerate", "read", "merge", "register",
                 "release", "registerCurrent", "registerSessions", "fetch", "store",
                 "emit", "send", "closeHandlers"}
    /\ view \subseteq Objects
    /\ enumerated \subseteq Objects \X Versions
    /\ seen \subseteq Ids
    /\ registering \in Ids \cup {NoId}
    /\ removed \subseteq Entries
    /\ updating \in {NoUpdate} \cup (Objects \X Versions)
    /\ missed \subseteq {"init", "dropped", "failed"}
    /\ lost \subseteq Objects

Init ==
    /\ live \in SUBSET Objects /\ born = live
    /\ ver = [o \in Objects |-> [k \in Events |-> 0]]
    /\ changes = 0 /\ currents = 0 /\ failures = 0
    /\ subs = {} /\ mgrSubs = {}
    /\ thread = [t \in Threads |-> Idle]
    /\ sessions = [id \in Ids |-> NoEntry]
    /\ refs = [o \in Objects |-> 0] /\ managerRefs = 0
    /\ closed = FALSE
    /\ workCh = <<>> /\ events = 0 /\ eventsClosed = FALSE
    /\ loop = "none" /\ loopWork = NoWork
    /\ owner = "new"
    /\ worker = "init" /\ step = "begin"
    /\ view = {} /\ enumerated = {} /\ seen = {} /\ registering = NoId /\ removed = {}
    /\ updating = NoUpdate
    /\ missed = {} /\ lost = {}

-----------------------------------------------------------------------------
LiveIds == {IdOf[o] : o \in live}
Known   == {id \in Ids : sessions[id] # NoEntry}  \* the keys of m.sessions

\* the deliveries inside the handler of an event, which its Close waits for
Inside(src) == {t \in Threads : thread[t].pc = "checked" /\ thread[t].from = src}
HandlersOf(o) == {o} \X Events
QuietHandlers(o) == \A src \in HandlersOf(o) : Inside(src) = {}

\* work leaves no trace: what that means for the promises of the Monitor
Forget(work, why) ==
    /\ missed' = IF work = Refresh THEN missed \cup {why} ELSE missed
    /\ lost' = IF work \in {Refresh, CurrentChanged} THEN lost
               ELSE lost \cup {o \in Objects : IdOf[o] = work[2]}

Queued(work) == \E i \in DOMAIN workCh : workCh[i] = work

\* a call into WinRT fails
Fails == failures < MaxFailures /\ failures' = failures + 1

\* refreshSessions has m.mu while it merges what it read
MuFree == step # "merge"

Working(s) == step = s /\ worker = "work"
Refreshing(s) == step = s /\ worker \in {"init", "work"}

\* a step of Windows or of its threads leaves the monitor alone
MonitorRests == UNCHANGED <<subVars, sessions, refVars, closed, events, eventsClosed,
                            loopVars, owner, jobVars>>

\* the job at hand goes on to step s; the rest of the system is not involved
Goto(s) == /\ step' = s
           /\ UNCHANGED <<winVars, thread, closed, workCh, eventsClosed, loopVars, owner,
                          worker>>

\* a step of refreshSessions
RefreshGoto(s) == Goto(s) /\ UNCHANGED <<events, mgrSubs, managerRefs, updating>>

\* the job at hand returns, and lets go of the objects it read or added a reference to
Held == {e[1] : e \in enumerated} \cup {o \in Objects : updating # NoUpdate /\ updating[1] = o}
EndJob == /\ worker' = "none" /\ step' = "none"
          /\ loop' = "select" /\ loopWork' = NoWork
          /\ refs' = [o \in Objects |-> IF o \in Held THEN refs[o] - 1 ELSE refs[o]]
          /\ enumerated' = {} /\ seen' = {} /\ updating' = NoUpdate
          /\ UNCHANGED <<winVars, subVars, thread, sessions, managerRefs, closed, workCh,
                         eventsClosed, owner, view, registering, removed>>

\* New or Close goes on
OwnerGoto(from, to) == /\ owner = from
                       /\ owner' = to
                       /\ UNCHANGED <<winVars, failures, subVars, thread, refVars, workCh,
                                      events, loopVars, view, enumerated, seen, registering,
                                      updating, history>>

-----------------------------------------------------------------------------
(* Slips: what a step could look like with a mistake in it.  None is part of *)
(* Next; each breaks one of the properties at the end of the module when it  *)
(* takes the place of the step it is named after.                            *)

EnqueueSkipsRunning(t) == \* work like the one at hand is taken for a duplicate
    /\ thread[t].pc = "checked"
    /\ thread' = [thread EXCEPT ![t] = Idle]
    /\ IF thread[t].work = loopWork \/ Queued(thread[t].work) \/ Len(workCh) = WorkCap
       THEN UNCHANGED workCh
       ELSE workCh' = Append(workCh, thread[t].work)
    /\ IF thread[t].work = loopWork \/ Queued(thread[t].work) \/ Len(workCh) < WorkCap
       THEN UNCHANGED history
       ELSE Forget(thread[t].work, "dropped")
    /\ UNCHANGED <<winVars, failures>> /\ MonitorRests

LoopExitsAfterWork == \* doneCh is only looked at when work arrives
    /\ loop = "select" /\ closed /\ workCh # <<>>
    /\ loop' = "exited"
    /\ UNCHANGED <<winVars, failures, subVars, thread, sessions, refVars, closed, chVars,
                   loopWork, owner, jobVars, history>>

MergeExistingLeaks(e) == \* the new pointer is not let go
    /\ Refreshing("merge") /\ IdOf[e[1]] \in Known
    /\ sessions' = [sessions EXCEPT ![IdOf[e[1]]].info = e[2]]
    /\ enumerated' = enumerated \ {e}
    /\ RefreshGoto("merge")
    /\ UNCHANGED <<failures, subs, refs, view, seen, registering, removed, history>>

MergeExistingKeepsInfo(e) == \* the info of a known session is not replaced
    /\ Refreshing("merge") /\ IdOf[e[1]] \in Known
    /\ refs' = [refs EXCEPT ![e[1]] = @ - 1]
    /\ enumerated' = enumerated \ {e}
    /\ RefreshGoto("merge")
    /\ UNCHANGED <<failures, subs, sessions, view, seen, registering, removed, history>>

ReleaseRemovedTwice(r) == \* closeEvents lets go of the pointer too
    /\ Refreshing("release") /\ QuietHandlers(r.ptr)
    /\ subs' = subs \ HandlersOf(r.ptr)
    /\ refs' = [refs EXCEPT ![r.ptr] = @ - (r.handlers + 2)]
    /\ removed' = removed \ {r}
    /\ RefreshGoto("release")
    /\ UNCHANGED <<failures, sessions, view, enumerated, seen, registering, history>>

SweepUncut == \* nothing is swept when the sessions read may not be all
    /\ Refreshing("merge") /\ enumerated = {}
    /\ LET kept == IF Cardinality(seen) = MaxSessions THEN Ids ELSE seen
       IN  /\ removed' = {sessions[id] : id \in Known \ kept}
           /\ sessions' = [id \in Ids |-> IF id \in kept THEN sessions[id] ELSE NoEntry]
    /\ seen' = {}
    /\ RefreshGoto("release")
    /\ UNCHANGED <<failures, subs, refs, view, enumerated, registering, history>>

SessionGoneLocked == \* m.mu is not unlocked when the session is gone: no way on
    /\ Working("fetch") /\ loopWork # CurrentChanged
    /\ loopWork[2] \notin Known /\ closed
    /\ EndJob
    /\ UNCHANGED <<failures, events, history>>

FinishCloseEarly == \* the entries are let go with their handlers open
    /\ worker = "close" /\ mgrSubs = {}
    /\ refs' = [o \in Objects |-> IF \E r \in removed : r.ptr = o THEN refs[o] - 1 ELSE refs[o]]
    /\ managerRefs' = IF managerRefs > 0 THEN managerRefs - 1 ELSE 0
    /\ removed' = {}
    /\ worker' = "none" /\ step' = "none" /\ owner' = "stopWorker"
    /\ UNCHANGED <<winVars, failures, subVars, thread, sessions, closed, chVars, loopVars,
                   view, enumerated, seen, registering, updating, history>>

-----------------------------------------------------------------------------
(* Windows. *)

\* Windows delivers work that came from src on a free thread
RaiseEvent(src, work) ==
    \E t \in Threads : /\ thread[t] = Idle
                       /\ thread' = [thread EXCEPT ![t] = [pc |-> "raised", from |-> src,
                                                           work |-> work]]

\* the set of sessions changes, and SessionsChanged is raised if subscribed to
SetLive(new) == /\ live' = new
                /\ born' = born \cup new
                /\ IF <<"sessions">> \in mgrSubs
                   THEN RaiseEvent(<<"sessions">>, Refresh) /\ UNCHANGED missed
                   ELSE missed' = missed \cup {"init"} /\ UNCHANGED thread
                /\ UNCHANGED <<ver, changes, currents, failures, workCh, lost>> /\ MonitorRests

SessionStarts(o) == o \notin born /\ SetLive(live \cup {o})
SessionEnds(o)   == o \in live /\ SetLive(live \ {o})

\* a property of a session changes, and the event is raised if subscribed to
SessionChanges(o, k) ==
    /\ o \in live
    /\ changes < MaxChanges
    /\ changes' = changes + 1
    /\ ver' = [ver EXCEPT ![o][k] = @ + 1]
    /\ IF <<o, k>> \in subs
       THEN RaiseEvent(<<o, k>>, Update(IdOf[o], k)) /\ UNCHANGED lost
       ELSE lost' = lost \cup {o} /\ UNCHANGED thread
    /\ UNCHANGED <<live, born, currents, failures, workCh, missed>> /\ MonitorRests

CurrentChanges == /\ currents < MaxCurrent
                  /\ <<"current">> \in mgrSubs
                  /\ currents' = currents + 1
                  /\ RaiseEvent(<<"current">>, CurrentChanged)
                  /\ UNCHANGED <<live, born, ver, changes, failures, workCh, history>> /\ MonitorRests

Windows == \/ \E o \in Objects : \/ SessionStarts(o) \/ SessionEnds(o)
                                 \/ \E k \in Events : SessionChanges(o, k)
           \/ CurrentChanges

-----------------------------------------------------------------------------
(* enqueue, called by the handlers on Windows' threads. *)

\* the handler lets the delivery in and the monitor is not closed
EnterCallback(t) == /\ thread[t].pc = "raised"
                    /\ thread[t].from \in subs \cup mgrSubs
                    /\ MuFree /\ ~closed
                    /\ thread' = [thread EXCEPT ![t].pc = "checked"]
                    /\ UNCHANGED <<winVars, failures, workCh, history>> /\ MonitorRests

\* the handler is closed, or the monitor is
RefuseCallback(t) == /\ thread[t].pc = "raised"
                     /\ thread[t].from \notin subs \cup mgrSubs \/ (MuFree /\ closed)
                     /\ thread' = [thread EXCEPT ![t] = Idle]
                     /\ Forget(thread[t].work, "failed")
                     /\ UNCHANGED <<winVars, failures, workCh>> /\ MonitorRests

\* select { case m.workCh <- work: default: }; a duplicate of queued work is no loss
Enqueue(t) == /\ thread[t].pc = "checked"
              /\ thread' = [thread EXCEPT ![t] = Idle]
              /\ \/ /\ Len(workCh) < WorkCap
                    /\ workCh' = Append(workCh, thread[t].work)
                    /\ UNCHANGED history
                 \/ /\ Len(workCh) = WorkCap
                    /\ IF Queued(thread[t].work) THEN UNCHANGED history
                                                 ELSE Forget(thread[t].work, "dropped")
                    /\ UNCHANGED workCh
              /\ UNCHANGED <<winVars, failures>> /\ MonitorRests

Deliver(t) == EnterCallback(t) \/ RefuseCallback(t) \/ Enqueue(t)

-----------------------------------------------------------------------------
(* eventLoop and do. *)

LoopRests == UNCHANGED <<winVars, failures, subVars, thread, sessions, refVars, closed,
                         events, eventsClosed, owner, localVars, history>>

LoopTakes == /\ loop = "select"
             /\ workCh # <<>>
             /\ loopWork' = Head(workCh)
             /\ workCh' = Tail(workCh)
             /\ loop' = "do"
             /\ LoopRests /\ UNCHANGED <<worker, step>>

\* case <-m.doneCh
LoopExits == /\ loop = "select"
             /\ closed
             /\ loop' = "exited"
             /\ LoopRests /\ UNCHANGED <<workCh, loopWork, worker, step>>

\* do returns nil when the monitor is closed, else it calls worker.Do
LoopDoes == /\ loop = "do"
            /\ MuFree
            /\ IF closed THEN loop' = "select" /\ loopWork' = NoWork
                         ELSE loop' = "submitted" /\ UNCHANGED loopWork
            /\ LoopRests /\ UNCHANGED <<workCh, worker, step>>

\* the worker starts the job: handleWork
WorkStarts == /\ loop = "submitted"
              /\ worker = "none"
              /\ worker' = "work"
              /\ step' = IF loopWork = Refresh THEN "begin" ELSE "fetch"
              /\ loop' = "running"
              /\ LoopRests /\ UNCHANGED <<workCh, loopWork>>

-----------------------------------------------------------------------------
(* init: the session manager, a first refresh, then the manager's events.    *)

InitRests == UNCHANGED <<winVars, subs, thread, sessions, refs, chVars, loopWork, localVars,
                         history>>

InitGetsManager == /\ worker = "init" /\ step = "begin"
                   /\ managerRefs' = 1
                   /\ step' = "enumerate"
                   /\ InitRests /\ UNCHANGED <<failures, mgrSubs, closed, loop, owner, worker>>

\* init returns an error: New marks the monitor closed and goes on to closeWinRT
InitFails == /\ worker = "init"
             /\ step \in {"begin", "enumerate", "registerCurrent", "registerSessions"}
             /\ Fails
             /\ closed' = TRUE
             /\ owner' = "submit"
             /\ worker' = "none" /\ step' = "none"
             /\ InitRests /\ UNCHANGED <<mgrSubs, managerRefs, loop>>

RegisterCurrentChanged ==
    /\ worker = "init" /\ step = "registerCurrent"
    /\ mgrSubs' = mgrSubs \cup {<<"current">>}
    /\ managerRefs' = managerRefs + 1
    /\ step' = "registerSessions"
    /\ InitRests /\ UNCHANGED <<failures, closed, loop, owner, worker>>

\* init returns nil: New starts eventLoop and returns the monitor
RegisterSessionsChanged ==
    /\ worker = "init" /\ step = "registerSessions"
    /\ mgrSubs' = mgrSubs \cup {<<"sessions">>}
    /\ managerRefs' = managerRefs + 1
    /\ worker' = "none" /\ step' = "none"
    /\ owner' = "open" /\ loop' = "select"
    /\ InitRests /\ UNCHANGED <<failures, closed>>

-----------------------------------------------------------------------------
(* refreshSessions. *)

\* if m.closed: before the sessions are read, or after
RefreshRefused == /\ closed
                  /\ Working("begin") \/ (Working("read") /\ view = {})
                  /\ EndJob
                  /\ UNCHANGED <<failures, events, history>>

RefreshBegins == /\ Working("begin") /\ ~closed
                 /\ RefreshGoto("enumerate")
                 /\ UNCHANGED <<failures, subs, sessions, refs, view, enumerated, seen,
                                registering, removed, history>>

\* GetSessions, a vector of the sessions there are; what is beyond the cap is not read
GetSessions == /\ Refreshing("enumerate")
               /\ \E read \in SUBSET live :
                     /\ Cardinality(read) <= MaxSessions
                     /\ read # live => Cardinality(read) = MaxSessions
                     /\ view' = read
               /\ missed' = {}
               /\ RefreshGoto("read")
               /\ UNCHANGED <<failures, subs, sessions, refs, enumerated, seen, registering,
                              removed, lost>>

\* GetSessions failed: nothing is emitted (in init: InitFails)
GetSessionsFails == /\ Working("enumerate")
                    /\ Fails
                    /\ Forget(Refresh, "failed")
                    /\ EndJob
                    /\ UNCHANGED events

\* GetAt, the session's id and fetchSessionInfo; the changes of o so far are made up for
ReadSession(o) == /\ Refreshing("read")
                  /\ o \in view
                  /\ view' = view \ {o}
                  /\ enumerated' = enumerated \cup {<<o, ver[o]>>}
                  /\ seen' = seen \cup {IdOf[o]}
                  /\ refs' = [refs EXCEPT ![o] = @ + 1]
                  /\ lost' = lost \ {o}
                  /\ RefreshGoto("read")
                  /\ UNCHANGED <<failures, subs, sessions, registering, removed, missed>>

\* the session or its id cannot be read: continue, as if it were not there
ReadFails(o) == /\ Refreshing("read")
                /\ o \in view
                /\ Fails
                /\ view' = view \ {o}
                /\ Forget(Refresh, "failed")
                /\ RefreshGoto("read")
                /\ UNCHANGED <<subs, sessions, refs, enumerated, seen, registering, removed>>

MergeBegins == /\ Refreshing("read") /\ view = {}
               /\ ~closed
               /\ RefreshGoto("merge")
               /\ UNCHANGED <<failures, subs, sessions, refs, view, enumerated, seen,
                              registering, removed, history>>

\* existing.info = e.info; the new pointer is let go, the old one stays
MergeExisting(e) == /\ Refreshing("merge")
                    /\ IdOf[e[1]] \in Known
                    /\ sessions' = [sessions EXCEPT ![IdOf[e[1]]].info = e[2]]
                    /\ refs' = [refs EXCEPT ![e[1]] = @ - 1]
                    /\ enumerated' = enumerated \ {e}
                    /\ RefreshGoto("merge")
                    /\ UNCHANGED <<failures, subs, view, seen, registering, removed, history>>

\* a new entry; m.mu is released to register its events
MergeNew(e) == /\ Refreshing("merge")
               /\ IdOf[e[1]] \notin Known
               /\ sessions' = [sessions EXCEPT ![IdOf[e[1]]] =
                                   [ptr |-> e[1], info |-> e[2], handlers |-> 0]]
               /\ enumerated' = enumerated \ {e}
               /\ registering' = IdOf[e[1]]
               /\ RefreshGoto("register")
               /\ UNCHANGED <<failures, subs, refs, view, seen, removed, history>>

\* registerSessionEvents: the next of the session's events
RegisterEvent ==
    /\ Refreshing("register")
    /\ LET o == sessions[registering].ptr
           k == sessions[registering].handlers + 1
       IN /\ subs' = subs \cup {<<o, k>>}
          /\ refs' = [refs EXCEPT ![o] = @ + 1]
          /\ sessions' = [sessions EXCEPT ![registering].handlers = k]
          /\ registering' = IF k = NumEvents THEN NoId ELSE registering
          /\ RefreshGoto(IF k = NumEvents THEN "merge" ELSE "register")
    /\ UNCHANGED <<failures, view, enumerated, seen, removed, history>>

\* an add_X failed: si.closeEvents(); the entry stays, without events
RegisterFails ==
    /\ Refreshing("register")
    /\ LET si == sessions[registering]
       IN /\ QuietHandlers(si.ptr)
          /\ subs' = subs \ HandlersOf(si.ptr)
          /\ refs' = [refs EXCEPT ![si.ptr] = @ - si.handlers]
    /\ Fails
    /\ sessions' = [sessions EXCEPT ![registering].handlers = 0]
    /\ registering' = NoId
    /\ RefreshGoto("merge")
    /\ UNCHANGED <<view, enumerated, seen, removed, history>>

\* entries that were not seen leave the map; the snapshot is taken
Sweep == /\ Refreshing("merge")
         /\ enumerated = {}
         /\ removed' = {sessions[id] : id \in Known \ seen}
         /\ sessions' = [id \in Ids |-> IF id \in seen THEN sessions[id] ELSE NoEntry]
         /\ seen' = {}
         /\ RefreshGoto("release")
         /\ UNCHANGED <<failures, subs, refs, view, enumerated, registering, history>>

\* s.closeEvents() and Release(s.ptr) for a removed entry
ReleaseRemoved(r) == /\ Refreshing("release")
                     /\ QuietHandlers(r.ptr)
                     /\ subs' = subs \ HandlersOf(r.ptr)
                     /\ refs' = [refs EXCEPT ![r.ptr] = @ - (r.handlers + 1)]
                     /\ removed' = removed \ {r}
                     /\ RefreshGoto("release")
                     /\ UNCHANGED <<failures, sessions, view, enumerated, seen, registering,
                                    history>>

\* refreshSessions returns the snapshot, to init or to be emitted
RefreshEnds == /\ Refreshing("release")
               /\ removed = {}
               /\ RefreshGoto(IF worker = "init" THEN "registerCurrent" ELSE "emit")
               /\ UNCHANGED <<failures, subs, sessions, refs, view, enumerated, seen,
                              registering, removed, history>>

Refreshes == \/ RefreshRefused \/ RefreshBegins \/ GetSessions \/ GetSessionsFails
             \/ \E o \in view : ReadSession(o) \/ ReadFails(o)
             \/ MergeBegins
             \/ \E e \in enumerated : MergeExisting(e) \/ MergeNew(e)
             \/ RegisterEvent \/ RegisterFails \/ Sweep
             \/ \E r \in removed : ReleaseRemoved(r)
             \/ RefreshEnds

-----------------------------------------------------------------------------
(* handleSessionUpdate, emitCurrentSessionChanged and emit. *)

UpdateRests == UNCHANGED <<subVars, managerRefs, view, enumerated, seen, registering, removed>>

\* the monitor is closed: the work ends where it is found out
UpdateRefused == /\ closed
                 /\ Working("fetch") \/ Working("store") \/ Working("emit")
                 /\ EndJob
                 /\ UNCHANGED <<failures, events, history>>

\* the session has left the map
SessionGone == /\ Working("fetch")
               /\ loopWork # CurrentChanged
               /\ loopWork[2] \notin Known
               /\ EndJob
               /\ UNCHANGED <<failures, events, history>>

\* GetCurrentSession, whatever it returns, is emitted
FetchCurrent == /\ Working("fetch") /\ ~closed
                /\ loopWork = CurrentChanged
                /\ Goto("emit")
                /\ UpdateRests /\ UNCHANGED <<failures, sessions, refs, events, updating, history>>

\* AddRef(ptr), eventInfo = clone of the entry's info, with event k's part read anew
FetchUpdate ==
    /\ Working("fetch") /\ ~closed
    /\ loopWork # CurrentChanged
    /\ loopWork[2] \in Known
    /\ LET s == sessions[loopWork[2]]
           k == loopWork[3]
       IN /\ \/ /\ updating' = <<s.ptr, [s.info EXCEPT ![k] = ver[s.ptr][k]]>>
                /\ UNCHANGED <<failures, history>>
             \/ /\ Fails
                /\ updating' = <<s.ptr, s.info>>
                /\ Forget(loopWork, "failed")
          /\ refs' = [refs EXCEPT ![s.ptr] = @ + 1]
    /\ Goto("store")
    /\ UpdateRests /\ UNCHANGED <<sessions, events>>

\* current.info = eventInfo, unless the monitor was closed meanwhile
StoreUpdate == /\ Working("store") /\ ~closed
               /\ sessions' = [sessions EXCEPT ![loopWork[2]].info = updating[2]]
               /\ Goto("emit")
               /\ UpdateRests /\ UNCHANGED <<failures, refs, events, updating, history>>

EmitChecks == /\ Working("emit") /\ ~closed
              /\ Goto("send")
              /\ UpdateRests /\ UNCHANGED <<failures, sessions, refs, events, updating, history>>

\* select { case m.managerEvents <- evt: default: }
EmitSends == /\ Working("send")
             /\ events' = IF events < EventCap THEN events + 1 ELSE events
             /\ EndJob
             /\ UNCHANGED <<failures, history>>

Updates == \/ UpdateRefused \/ SessionGone \/ FetchCurrent \/ FetchUpdate \/ StoreUpdate
           \/ EmitChecks \/ EmitSends

-----------------------------------------------------------------------------
(* Close. *)

\* the call that finds m.closed unset; another call returns nil and changes nothing
CloseBegins == /\ MuFree
               /\ OwnerGoto("open", "waitLoop")
               /\ closed' = TRUE
               /\ UNCHANGED <<sessions, eventsClosed, worker, step, removed>>

\* m.wg.Wait()
CloseLoopExited == /\ loop = "exited"
                   /\ OwnerGoto("waitLoop", "submit")
                   /\ UNCHANGED <<sessions, closed, eventsClosed, worker, step, removed>>

\* the worker starts closeWinRT: what the monitor holds moves into the job's locals
CloseJobStarts == /\ worker = "none"
                  /\ OwnerGoto("submit", "running")
                  /\ worker' = "close" /\ step' = "closeHandlers"
                  /\ removed' = {sessions[id] : id \in Known}
                  /\ sessions' = [id \in Ids |-> NoEntry]
                  /\ UNCHANGED <<closed, eventsClosed>>

CloseRests == UNCHANGED <<winVars, failures, thread, sessions, closed, chVars, loopVars, view,
                          enumerated, seen, registering, updating, history>>

\* sessionsChangedEvent.Close(), then currentChangedEvent.Close()
CloseManagerEvent(src) ==
    /\ worker = "close"
    /\ src \in mgrSubs
    /\ src = <<"current">> => <<"sessions">> \notin mgrSubs
    /\ Inside(src) = {}
    /\ mgrSubs' = mgrSubs \ {src}
    /\ managerRefs' = managerRefs - 1
    /\ CloseRests /\ UNCHANGED <<subs, refs, removed, owner, worker, step>>

\* s.closeEvents() of an entry, which waits for the deliveries inside its handlers
CloseEntry(r) == /\ worker = "close" /\ mgrSubs = {}
                 /\ r \in removed /\ r.handlers > 0
                 /\ QuietHandlers(r.ptr)
                 /\ subs' = subs \ HandlersOf(r.ptr)
                 /\ refs' = [refs EXCEPT ![r.ptr] = @ - r.handlers]
                 /\ removed' = (removed \ {r}) \cup {[r EXCEPT !.handlers = 0]}
                 /\ CloseRests /\ UNCHANGED <<mgrSubs, managerRefs, owner, worker, step>>

\* Release of every s.ptr and of the manager, unless New failed before it had one
FinishClose ==
    /\ worker = "close" /\ mgrSubs = {}
    /\ \A r \in removed : r.handlers = 0
    /\ refs' = [o \in Objects |-> IF \E r \in removed : r.ptr = o THEN refs[o] - 1 ELSE refs[o]]
    /\ managerRefs' = IF managerRefs > 0 THEN managerRefs - 1 ELSE 0
    /\ removed' = {}
    /\ worker' = "none" /\ step' = "none"
    /\ owner' = "stopWorker"
    /\ CloseRests /\ UNCHANGED subVars

\* worker.Close()
StopWorker == /\ OwnerGoto("stopWorker", "closeEvents")
              /\ worker' = "ended"
              /\ UNCHANGED <<sessions, closed, eventsClosed, step, removed>>

\* close(m.managerEvents)
CloseEvents == /\ OwnerGoto("closeEvents", "closed")
               /\ eventsClosed' = TRUE
               /\ UNCHANGED <<sessions, closed, worker, step, removed>>

\* the program reads an event
Receive == /\ events > 0
           /\ events' = events - 1
           /\ UNCHANGED <<winVars, failures, subVars, thread, sessions, refVars, closed, workCh,
                          eventsClosed, loopVars, owner, jobVars, history>>

Initializes == \/ InitGetsManager \/ InitFails
               \/ RegisterCurrentChanged \/ RegisterSessionsChanged
CloseJob    == \/ \E src \in mgrSubs : CloseManagerEvent(src)
               \/ \E r \in removed : CloseEntry(r)
               \/ FinishClose
Job         == Initializes \/ Refreshes \/ Updates \/ CloseJob
Loop        == LoopTakes \/ LoopExits \/ LoopDoes \/ WorkStarts
Closing     == CloseLoopExited \/ CloseJobStarts \/ StopWorker \/ CloseEvents

\* Sessions reads m.sessions, CurrentSession too, in a job of its own: no state changes
Next == \/ Windows \/ Receive \/ CloseBegins
        \/ \E t \in Threads : Deliver(t)
        \/ Loop \/ Job \/ Closing

(* The goroutines and the worker run, no call into WinRT blocks for ever,    *)
(* and a callback that was started returns.  Windows need not change         *)
(* anything, and the program need neither read events nor close.             *)
Fairness == /\ WF_vars(Loop) /\ WF_vars(Job) /\ WF_vars(Closing)
            /\ \A t \in Threads : WF_vars(Deliver(t))

Spec == Init /\ [][Next]_vars /\ Fairness

-----------------------------------------------------------------------------
(* Properties. *)

CountIf(b) == IF b THEN 1 ELSE 0

\* references the code owes to object o, from where it keeps the pointer
Owed(o) ==
    LET entries == {sessions[id] : id \in Known} \cup removed
    IN CountIf(\E e \in enumerated : e[1] = o)
         + (IF \E r \in entries : r.ptr = o
            THEN 1 + (CHOOSE r \in entries : r.ptr = o).handlers ELSE 0)
         + CountIf(updating # NoUpdate /\ updating[1] = o)

(* monitor.go:389-429, 457-490, 200-237; event.go:99.  The references to a   *)
(* session are those of its entry, of its entry's handlers, and of the job   *)
(* at hand: none is forgotten when the object is known already, when         *)
(* registering fails, when the monitor is closed in between.                 *)
RefsAccounted == TypeOK /\ \A o \in Objects : refs[o] = Owed(o)

(* monitor.go:172-198, 492-503.  When Close (or New, failing) is through,     *)
(* nothing is left: no reference, no subscription, no callback inside the    *)
(* monitor.  And emit, which looks at m.closed and then sends, never sends   *)
(* into the closed channel, which would panic.                               *)
NothingLeftAfterClose ==
    /\ step = "send" => ~eventsClosed
    /\ owner = "closed" =>
           /\ \A o \in Objects : refs[o] = 0
           /\ subs = {} /\ mgrSubs = {} /\ managerRefs = 0
           /\ worker = "ended" /\ loop \in {"none", "exited"}
           /\ \A t \in Threads : thread[t].pc # "checked"

\* every delivery was handled and the loop has nothing to do
Quiescent == /\ owner = "open" /\ loop = "select" /\ workCh = <<>>
             /\ \A t \in Threads : thread[t] = Idle

(* monitor.go:260-314, 338-431.  When all is quiet m.sessions has the        *)
(* sessions there are, except after a change before SessionsChanged was      *)
(* subscribed to, a refresh dropped at a full workCh, or a failed call: the  *)
(* refreshes, dropped duplicates included, never lose a change otherwise.    *)
(* With more sessions than a refresh reads, some are not known, but none is  *)
(* known that is gone, and all are again as soon as they are few enough.     *)
SessionsConverge ==
    Quiescent /\ missed = {} => /\ Known \subseteq LiveIds
                                /\ Cardinality(live) <= MaxSessions => Known = LiveIds

\* id names one session only, in the whole run
Unique(id) == Cardinality({o \in born : IdOf[o] = id}) <= 1

(* monitor.go:457-490, 338-431.  When all is quiet the properties kept of a  *)
(* session are those it has, unless the notice of a change was lost: what a  *)
(* refresh and an update of one part write never undoes newer information.   *)
UpdatesConverge ==
    Quiescent => \A id \in Known : Unique(id) /\ sessions[id].ptr \notin lost
                                     => sessions[id].info = ver[sessions[id].ptr]

(* monitor.go:172-198.  Close returns, whatever Windows delivers meanwhile.  *)
CloseAnswered == owner = "waitLoop" ~> owner = "closed"

(* monitor.go:273-297.  While the monitor is open the work runs out: a job   *)
(* that finds its session gone, fails or is refused never stops the loop.    *)
EventuallyQuiet == <>[](Quiescent \/ closed)

(* monitor.go:118 says: Sessions returns a snapshot of all current sessions. *)
(* So it does, in particular, when nothing was dropped and no call failed.   *)
InitMissesNothing == Quiescent /\ missed \subseteq {"init"} => Known = LiveIds
=============================================================================
