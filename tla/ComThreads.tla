------------------------------ MODULE ComThreads ------------------------------
(***************************************************************************)
(* COM on the threads of the process: internal/winrt/init.go (InitMTA,     *)
(* UninitMTA, InitSTA, UninitSTA), internal/wasapi/com.go (Init, Uninit)   *)
(* and the goroutines that enter and leave COM with them or by themselves: *)
(* MTAWorker.run, Capturer.worker and RunOnLockedThread, staThread.run.    *)
(*                                                                         *)
(* Windows counts initializations per thread.  Each of the two packages    *)
(* remembers its own per thread id, in a map of the process.  A goroutine  *)
(* runs on whatever thread the Go scheduler gives it, and stays on it only *)
(* while it is locked to it; afterwards the thread goes back to the pool,  *)
(* for a goroutine that knows nothing of the one before.                   *)
(*                                                                         *)
(* External: COM, whose calls may fail; a thread is in one apartment at a  *)
(* time and leaves it when it was left as often as entered, by whomever.   *)
(* Other code of the program may have put a thread of the pool into an     *)
(* apartment and left it there.  A thread whose goroutine ends while locked*)
(* to it ends too, and Windows may give its id to the next thread.         *)
(***************************************************************************)
EXTENDS Naturals

CONSTANTS Threads,     \* thread ids
          MtaUsers,    \* goroutines that run MTAWorker.run
          WasapiUsers, \* ... Capturer.worker, RunOnLockedThread
          WindowUsers, \* ... staThread.run
          StaUsers,    \* ... a caller of InitSTA and UninitSTA
          NoThread,
          MaxDepth     \* bound: nested calls of InitMTA and Init

MapUsers == MtaUsers \cup WasapiUsers
Users == MapUsers \cup WindowUsers \cup StaUsers

ASSUME ThreadsAssumption == NoThread \notin Threads
ASSUME UsersAssumption == /\ MtaUsers \cap WasapiUsers = {}
                          /\ MapUsers \cap WindowUsers = {}
                          /\ StaUsers \cap (MapUsers \cup WindowUsers) = {}
ASSUME DepthAssumption == MaxDepth \in Nat \ {0}

VARIABLES
    pc,        \* Users -> where the goroutine is
    thread,    \* Users -> the thread it runs on
    locks,     \* Users -> how often it is locked to it
    tid,       \* Users -> the thread id it read, in Init or Uninit
    owed,      \* Users -> the call that undoes its CoInitializeEx or RoInitialize
    refs,      \* package -> thread id -> refs of its entry in the map, 0 for none
    entry,     \* package -> thread id -> what the entry says is owed
    apartment, \* Threads -> none, MTA or STA (external)
    count,     \* Threads -> number of its initializations (external)
    hosted     \* Threads -> how many of them are other code's: 0 or 1 (external)

userVars == <<pc, thread, locks, tid, owed>>
mapVars  == <<refs, entry>>
comVars  == <<apartment, count, hosted>>
allVars  == <<userVars, mapVars, comVars>>

Packages == {"winrt", "wasapi"}
Apartments == {"MTA", "STA"}
Debts == {"nothing", "co", "ro"}
Pc == {"off", "run", "init", "co", "ro", "store", "window", "in", "undo", "out"}

PackageOf(u) == IF u \in MtaUsers THEN "winrt" ELSE "wasapi"

ComTypeOK ==
    /\ pc \in [Users -> Pc]
    /\ thread \in [Users -> Threads \cup {NoThread}]
    /\ locks \in [Users -> 0..2]
    /\ tid \in [Users -> Threads \cup {NoThread}]
    /\ owed \in [Users -> Debts]
    /\ refs \in [Packages -> [Threads -> Nat]]
    /\ entry \in [Packages -> [Threads -> Debts]]
    /\ apartment \in [Threads -> Apartments \cup {"none"}]
    /\ count \in [Threads -> Nat]
    /\ hosted \in [Threads -> 0..1]

ComInit ==
    /\ pc = [u \in Users |-> "off"]
    /\ thread = [u \in Users |-> NoThread]
    /\ locks = [u \in Users |-> 0]
    /\ tid = [u \in Users |-> NoThread]
    /\ owed = [u \in Users |-> "nothing"]
    /\ refs = [p \in Packages |-> [t \in Threads |-> 0]]
    /\ entry = [p \in Packages |-> [t \in Threads |-> "nothing"]]
    /\ apartment = [t \in Threads |-> "none"]
    /\ count = [t \in Threads |-> 0]
    /\ hosted = [t \in Threads |-> 0]

-----------------------------------------------------------------------------
Idle(t) == \A u \in Users : thread[u] # t
Goto(u, where) == pc' = [pc EXCEPT ![u] = where]

\* CoInitializeEx or RoInitialize succeeds in an apartment
Enters(t, kind) == /\ apartment[t] \in {"none", kind}
                   /\ apartment' = [apartment EXCEPT ![t] = kind]
                   /\ count' = [count EXCEPT ![t] = @ + 1]

\* RPC_E_CHANGED_MODE
ChangesMode(t, kind) == apartment[t] \notin {"none", kind} /\ UNCHANGED <<apartment, count>>

\* CoUninitialize or RoUninitialize: the last one leaves the apartment
Leaves(t) == /\ count' = [count EXCEPT ![t] = IF @ = 0 THEN 0 ELSE @ - 1]
             /\ apartment' = [apartment EXCEPT ![t] = IF count[t] <= 1 THEN "none" ELSE @]

-----------------------------------------------------------------------------
(* Slips: what a step could look like with a mistake in it.  None is part of *)
(* Next; each shows that a property below depends on the step it replaces.   *)

StartsUnlocked(u) == \* runtime.LockOSThread is not called
    /\ pc[u] = "run"
    /\ Goto(u, "init")
    /\ UNCHANGED <<thread, locks, tid, owed, mapVars, comVars>>

AttachOwes(u) == \* RPC_E_CHANGED_MODE is stored as an initialization
    /\ pc[u] = "co"
    /\ Enters(thread[u], "MTA") \/ ChangesMode(thread[u], "MTA")
    /\ owed' = [owed EXCEPT ![u] = "co"]
    /\ Goto(u, "store")
    /\ UNCHANGED <<thread, locks, tid, mapVars, hosted>>

-----------------------------------------------------------------------------
(* Goroutines and threads. *)

GoRuns(u, t) == /\ pc[u] = "off"
                /\ Idle(t)
                /\ thread' = [thread EXCEPT ![u] = t]
                /\ Goto(u, "run")
                /\ UNCHANGED <<locks, tid, owed, mapVars, comVars>>

\* the scheduler moves a goroutine that is not locked
Migrates(u, t) == /\ pc[u] # "off"
                  /\ locks[u] = 0
                  /\ Idle(t)
                  /\ thread' = [thread EXCEPT ![u] = t]
                  /\ UNCHANGED <<pc, locks, tid, owed, mapVars, comVars>>

LockOSThread(u) == /\ pc[u] = "run"
                   /\ locks' = [locks EXCEPT ![u] = 1]
                   /\ Goto(u, "init")
                   /\ UNCHANGED <<thread, tid, owed, mapVars, comVars>>

\* the deferred UnlockOSThread, and the goroutine ends
GoEnds(u) == /\ pc[u] = "out"
             /\ locks[u] <= 1
             /\ thread' = [thread EXCEPT ![u] = NoThread]
             /\ locks' = [locks EXCEPT ![u] = 0]
             /\ tid' = [tid EXCEPT ![u] = NoThread]
             /\ Goto(u, "off")
             /\ UNCHANGED <<owed, mapVars, comVars>>

\* InitSTA had locked it once more: the thread ends with it, another gets its id
GoEndsLocked(u) == /\ pc[u] = "out"
                   /\ locks[u] = 2
                   /\ apartment' = [apartment EXCEPT ![thread[u]] = "none"]
                   /\ count' = [count EXCEPT ![thread[u]] = 0]
                   /\ hosted' = [hosted EXCEPT ![thread[u]] = 0]
                   /\ thread' = [thread EXCEPT ![u] = NoThread]
                   /\ locks' = [locks EXCEPT ![u] = 0]
                   /\ tid' = [tid EXCEPT ![u] = NoThread]
                   /\ Goto(u, "off")
                   /\ UNCHANGED <<owed, mapVars>>

-----------------------------------------------------------------------------
(* InitMTA and Init: the map, then COM, then the map. *)

LooksUp(u) == /\ u \in MapUsers
              /\ pc[u] = "init"
              /\ tid' = [tid EXCEPT ![u] = thread[u]]
              /\ IF refs[PackageOf(u)][thread[u]] > 0
                 THEN /\ refs' = [refs EXCEPT ![PackageOf(u)][thread[u]] = @ + 1]
                      /\ Goto(u, "in")
                 ELSE Goto(u, "co") /\ UNCHANGED refs
              /\ UNCHANGED <<thread, locks, owed, entry, comVars>>

\* S_OK or S_FALSE, or RPC_E_CHANGED_MODE: an attach that owes nothing
CoInitializes(u) == /\ pc[u] = "co"
                    /\ \/ Enters(thread[u], "MTA") /\ owed' = [owed EXCEPT ![u] = "co"]
                       \/ ChangesMode(thread[u], "MTA") /\ owed' = [owed EXCEPT ![u] = "nothing"]
                    /\ Goto(u, "store")
                    /\ UNCHANGED <<thread, locks, tid, mapVars, hosted>>

\* another error: winrt goes on to RoInitialize, wasapi gives up
CoInitializeFails(u) == /\ pc[u] = "co"
                        /\ Goto(u, IF u \in MtaUsers THEN "ro" ELSE "out")
                        /\ UNCHANGED <<thread, locks, tid, owed, mapVars, comVars>>

RoInitializes(u) == /\ pc[u] = "ro"
                    /\ \/ Enters(thread[u], "MTA") /\ owed' = [owed EXCEPT ![u] = "ro"]
                       \/ ChangesMode(thread[u], "MTA") /\ owed' = [owed EXCEPT ![u] = "nothing"]
                    /\ Goto(u, "store")
                    /\ UNCHANGED <<thread, locks, tid, mapVars, hosted>>

RoInitializeFails(u) == /\ pc[u] = "ro"
                        /\ Goto(u, "out")
                        /\ UNCHANGED <<thread, locks, tid, owed, mapVars, comVars>>

\* mtaStoreThreadState, storeCOMThreadState
Stores(u) == /\ pc[u] = "store"
             /\ refs' = [refs EXCEPT ![PackageOf(u)][tid[u]] = 1]
             /\ entry' = [entry EXCEPT ![PackageOf(u)][tid[u]] = owed[u]]
             /\ Goto(u, "in")
             /\ UNCHANGED <<thread, locks, tid, owed, comVars>>

\* a nested call on the same thread
InitsAgain(u) == /\ u \in MapUsers
                 /\ pc[u] = "in"
                 /\ refs[PackageOf(u)][thread[u]] \in 1..(MaxDepth - 1)
                 /\ Goto(u, "init")
                 /\ UNCHANGED <<thread, locks, tid, owed, mapVars, comVars>>

-----------------------------------------------------------------------------
(* UninitMTA and Uninit: the map, then COM. *)

Uninits(u) ==
    /\ u \in MapUsers
    /\ pc[u] = "in"
    /\ tid' = [tid EXCEPT ![u] = thread[u]]
    /\ LET p == PackageOf(u)
           n == refs[p][thread[u]]
       IN  CASE n > 1 -> /\ refs' = [refs EXCEPT ![p][thread[u]] = n - 1]
                         /\ UNCHANGED <<pc, owed, entry>>
             [] n = 1 -> /\ refs' = [refs EXCEPT ![p][thread[u]] = 0]
                         /\ entry' = [entry EXCEPT ![p][thread[u]] = "nothing"]
                         /\ owed' = [owed EXCEPT ![u] = entry[p][thread[u]]]
                         /\ Goto(u, "undo")
             [] n = 0 -> Goto(u, "out") /\ UNCHANGED <<refs, owed, entry>>
    /\ UNCHANGED <<thread, locks, comVars>>

\* CoUninitialize, RoUninitialize or nothing, also for the other users
Undoes(u) == /\ pc[u] = "undo"
             /\ IF owed[u] = "nothing" THEN UNCHANGED <<apartment, count>> ELSE Leaves(thread[u])
             /\ owed' = [owed EXCEPT ![u] = "nothing"]
             /\ Goto(u, "out")
             /\ UNCHANGED <<thread, locks, tid, mapVars, hosted>>

-----------------------------------------------------------------------------
(* staThread.run, which counts nothing: CoInitializeEx, the window, the loop. *)

EntersWindow(u) == /\ u \in WindowUsers
                   /\ pc[u] = "init"
                   /\ Enters(thread[u], "STA")
                   /\ owed' = [owed EXCEPT ![u] = "co"]
                   /\ Goto(u, "window")
                   /\ UNCHANGED <<thread, locks, tid, mapVars, hosted>>

\* any other HRESULT, RPC_E_CHANGED_MODE too
WindowRefused(u) == /\ u \in WindowUsers
                    /\ pc[u] = "init"
                    /\ Goto(u, "out")
                    /\ UNCHANGED <<thread, locks, tid, owed, mapVars, comVars>>

CreatesWindow(u) == /\ pc[u] = "window"
                    /\ Goto(u, "in")
                    /\ UNCHANGED <<thread, locks, tid, owed, mapVars, comVars>>

\* smtcCreateWindow failed, or the loop met WM_QUIT
LeavesWindow(u) == /\ u \in WindowUsers
                   /\ pc[u] \in {"window", "in"}
                   /\ Goto(u, "undo")
                   /\ UNCHANGED <<thread, locks, tid, owed, mapVars, comVars>>

(* InitSTA and UninitSTA, called by a goroutine that has locked its thread.  *)
InitSTA(u) == /\ u \in StaUsers
              /\ pc[u] = "init"
              /\ Enters(thread[u], "STA")
              /\ owed' = [owed EXCEPT ![u] = "ro"]
              /\ locks' = [locks EXCEPT ![u] = @ + 1]
              /\ Goto(u, "in")
              /\ UNCHANGED <<thread, tid, mapVars, hosted>>

InitSTAFails(u) == /\ u \in StaUsers
                   /\ pc[u] = "init"
                   /\ Goto(u, "out")
                   /\ UNCHANGED <<thread, locks, tid, owed, mapVars, comVars>>

UninitSTA(u) == /\ u \in StaUsers
                /\ pc[u] = "in"
                /\ Goto(u, "undo")
                /\ UNCHANGED <<thread, locks, tid, owed, mapVars, comVars>>

-----------------------------------------------------------------------------
(* Other code of the program on a thread of the pool (external). *)

HostEnters(t) == /\ Idle(t) /\ hosted[t] = 0
                 /\ \E kind \in Apartments : Enters(t, kind)
                 /\ hosted' = [hosted EXCEPT ![t] = 1]
                 /\ UNCHANGED <<userVars, mapVars>>

HostLeaves(t) == /\ Idle(t) /\ hosted[t] = 1
                 /\ Leaves(t)
                 /\ hosted' = [hosted EXCEPT ![t] = 0]
                 /\ UNCHANGED <<userVars, mapVars>>

Step(u) == \/ \E t \in Threads : GoRuns(u, t) \/ Migrates(u, t)
           \/ LockOSThread(u) \/ GoEnds(u) \/ GoEndsLocked(u)
           \/ LooksUp(u) \/ CoInitializes(u) \/ CoInitializeFails(u)
           \/ RoInitializes(u) \/ RoInitializeFails(u) \/ Stores(u)
           \/ InitsAgain(u) \/ Uninits(u) \/ Undoes(u)
           \/ EntersWindow(u) \/ WindowRefused(u) \/ CreatesWindow(u) \/ LeavesWindow(u)
           \/ InitSTA(u) \/ InitSTAFails(u) \/ UninitSTA(u)

ComNext ==
    \/ \E u \in Users : Step(u)
    \/ \E t \in Threads : HostEnters(t) \/ HostLeaves(t)

ComSpec == ComInit /\ [][ComNext]_allVars

-----------------------------------------------------------------------------
(* Properties. *)

(* init.go:32-93, com.go:45-96, window.go:85-133.  A thread that goes back   *)
(* to the pool is as it came from there: no package has an entry for it, and *)
(* only other code's initializations are left, none too few or too many.  A  *)
(* stale entry would make the next goroutine on the thread, or on a new      *)
(* thread with its id, believe that COM is there.                            *)
ThreadsGoBackClean ==
    /\ ComTypeOK
    /\ \A t \in Threads : Idle(t) =>
           /\ \A p \in Packages : refs[p][t] = 0
           /\ count[t] = hosted[t]
           /\ apartment[t] = "none" <=> hosted[t] = 0

(* apartment.go:47-68, capture.go:177-198, window.go:85-133.  Between its    *)
(* Init and its Uninit a goroutine is on the thread it initialized, and this *)
(* is in an apartment, also when Init only attached to what it found; a      *)
(* window is only made in an STA.                                            *)
InApartment ==
    \A u \in Users : pc[u] = "in" =>
        /\ apartment[thread[u]] # "none"
        /\ u \in MapUsers => tid[u] = thread[u] /\ refs[PackageOf(u)][thread[u]] > 0
        /\ u \notin MapUsers => apartment[thread[u]] = "STA"
=============================================================================
