------------------------------ MODULE Creator ------------------------------
(***************************************************************************)
(* pkg/smtc/create/create.go: Creator, which publishes a media session.    *)
(*                                                                         *)
(* Every function it runs on its MTAWorker, those of New and of the        *)
(* setters, is a script: objects it gets and properties it puts, one call  *)
(* into Windows after the other, abandoned at the first that fails.  The   *)
(* properties of the display become visible with Update only, all others   *)
(* at once.  Windows delivers button presses on threads of its own, which  *)
(* put them into a channel.                                                *)
(*                                                                         *)
(* The worker is SerialExecutor, which MTAWorker implements, and the       *)
(* handler of the presses is CallbackGate, which EventHandler implements.  *)
(***************************************************************************)
EXTENDS Naturals, Sequences, FiniteSets, SequencesExt

CONSTANTS Setters,   \* the calls of SetEnabled, SetMediaInfo, ...
          KindOf,    \* Setters -> which method is called
          Closers,   \* the calls of Close
          Presses,   \* the button presses, each on a thread of its own
          Maker,     \* New's function initWithMediaPlayer
          Undoer,    \* New's function closeWinRT, when the first one failed
          Nobody,    \* a property nobody has put yet
          ButtonPuts, \* the button properties, in the order they are put
          ButtonCap, \* capacity of c.buttons (Config.ButtonEventBuffer)
          Configs    \* the optional parts that the Config of New may have

Kinds == {"enabled", "buttons", "advanced", "status", "media", "thumbnail",
          "timeline", "timelineRate"}

ASSUME KindAssumption == KindOf \in [Setters -> Kinds]
ButtonProperties == {"IsPlayEnabled", "IsPauseEnabled", "IsStopEnabled",
                     "IsNextEnabled", "IsPreviousEnabled"}

ASSUME ButtonAssumption == /\ ButtonPuts \in Seq(ButtonProperties) \ {<<>>}
                           /\ ButtonCap \in Nat \ {0}
ASSUME ConfigAssumption == Configs \subseteq SUBSET {"thumbnail", "timeline"}
ASSUME JobsAssumption == /\ IsFiniteSet(Setters) /\ IsFiniteSet(Closers)
                         /\ Setters \cap Closers = {} /\ Maker # Undoer
                         /\ Nobody \notin {Maker, Undoer}
                         /\ {Maker, Undoer, Nobody} \cap (Setters \cup Closers) = {}

Jobs     == Setters \cup Closers \cup {Maker, Undoer}
Writers  == Setters \cup {Maker}
Outcomes == {"nil", "closed", "failed"}

Fields  == {"MediaPlayer", "Smtc", "Smtc2", "Display"} \* kept in c
Scratch == {"MusicProperties", "StreamReference", "TimelineProperties"} \* of a setter
Locals  == Scratch \cup {"MediaPlayer2"}               \* released by defers

Shown   == ToSet(ButtonPuts) \cup {"IsEnabled", "PlaybackStatus", "PlaybackRate", "Timeline"}
Display == {"Type", "AppMediaId", "Title", "Artist", "Thumbnail"}

VARIABLES
    new,      \* where New is; "ok" and "failed" are what it returned
    config,   \* which optional parts its Config has
    held,     \* the COM references this Creator owns
    fields,   \* the fields of c that are not nil, "ButtonEvent" among them
    taken,    \* the local copies closeWinRT made of them
    closed,   \* c.closed
    locked,   \* c.mu is held by the function that runs
    call,     \* Setters and Closers -> where the call of the method is
    step,     \* where the running function is
    pos,      \* its place in its script
    stopping, \* worker.Close was called
    put,      \* property -> whose value the Windows object has (external)
    shown,    \* property -> whose value Windows shows (external)
    turn,     \* Jobs -> when the function started, counted from 1 (history)
    buttons,  \* number of presses in c.buttons
    registered, \* ButtonPressed was registered
    status, outcome, answer, stopped, \* the worker, see SerialExecutor
    active, over, phase               \* the handler, see CallbackGate

Executor == INSTANCE SerialExecutor
Gate     == INSTANCE CallbackGate WITH Deliveries <- Presses

ownVars    == <<new, config, held, fields, taken, closed, locked, call>>
screenVars == <<put, shown>>
workerVars == <<status, outcome, answer, stopped>>
gateVars   == <<active, over, phase>>
vars == <<ownVars, step, pos, stopping, screenVars, turn, buttons, registered,
          workerVars, gateVars>>

-----------------------------------------------------------------------------
(* The calls into Windows of each function, in their order.                 *)

\* a slip as below: Update comes before the artist is put
UpdatesEarly == <<"Type", "MusicProperties", "Title", "Update", "Artist">>

setMediaInfoLocked == <<"Type", "MusicProperties", "Title", "Artist", "Update">>

setThumbnailFromFileLocked == <<"StreamReference", "Thumbnail", "Update">>

setTimelineInfoLocked(rate) ==
    <<"TimelineProperties">> \o (IF rate THEN <<"PlaybackRate">> ELSE <<>>) \o <<"Timeline">>

setEnabledButtonsLocked(advanced) == IF advanced THEN <<"Unsupported">> ELSE ButtonPuts

Script(kind) ==
    CASE kind = "enabled"      -> <<"IsEnabled">>
      [] kind = "buttons"      -> setEnabledButtonsLocked(FALSE)
      [] kind = "advanced"     -> setEnabledButtonsLocked(TRUE)
      [] kind = "status"       -> <<"PlaybackStatus">>
      [] kind = "media"        -> setMediaInfoLocked
      [] kind = "thumbnail"    -> setThumbnailFromFileLocked
      [] kind = "timeline"     -> setTimelineInfoLocked(FALSE)
      [] kind = "timelineRate" -> setTimelineInfoLocked(TRUE)

Optional(kind) == IF kind \in config THEN Script(kind) ELSE <<>>

initWithMediaPlayer ==
    <<"MediaPlayer", "MediaPlayer2", "Smtc", "Smtc2">>
    \o Script("enabled") \o Script("buttons") \o Script("status")
    \o <<"Display", "Type", "AppMediaId">> \o Tail(setMediaInfoLocked)
    \o Optional("thumbnail") \o Optional("timeline") \o <<"Register">>

ScriptOf(j) == IF j = Maker THEN initWithMediaPlayer ELSE Script(KindOf[j])

Properties == Shown \cup Display

TypeOK == /\ new \in {"start", "making", "failing", "undoing", "closeWorker", "ok", "failed"}
          /\ config \in Configs
          /\ held \subseteq Fields \cup Locals
          /\ {fields, taken} \subseteq SUBSET (Fields \cup {"ButtonEvent"})
          /\ {closed, locked, stopping, registered} \subseteq BOOLEAN
          /\ call \in [Setters \cup Closers ->
                         {"idle", "entry", "inDo", "stopping", "refused", "returned"}]
          /\ step \in {"none", "lock", "script", "closeHandler", "drain", "release"}
          /\ pos \in Nat
          /\ {put, shown} \subseteq [Properties -> Writers \cup {Nobody}]
          /\ turn \in [Jobs -> 0..Cardinality(Jobs)]
          /\ buttons \in 0..ButtonCap
          /\ Executor!TypeOK /\ Gate!TypeOK

Init == /\ new = "start"
        /\ config \in Configs
        /\ held = {} /\ fields = {} /\ taken = {}
        /\ closed = FALSE /\ locked = FALSE /\ stopping = FALSE /\ registered = FALSE
        /\ call = [j \in Setters \cup Closers |-> "idle"]
        /\ step = "none"
        /\ pos = 0
        /\ put = [p \in Properties |-> Nobody]
        /\ shown = put
        /\ turn = [j \in Jobs |-> 0]
        /\ buttons = 0
        /\ Executor!Init /\ Gate!Init

-----------------------------------------------------------------------------
Goto(j, pc) == call' = [call EXCEPT ![j] = pc]

Running(j) == status[j] = "running"

Item(j) == ScriptOf(j)[pos]

\* the function of j returns o, after its deferred Releases and Unlock
Ends(j, o) == /\ Executor!Finish(j, o)
              /\ held' = held \ Locals
              /\ step' = "none"
              /\ pos' = 0
              /\ locked' = FALSE

-----------------------------------------------------------------------------
(* Slips: what a step could look like with a mistake in it.  None is part of *)
(* Next; each shows that a property below depends on the step it replaces.   *)

FailsOn(j) == \* the error of a put is dropped
    /\ Running(j) /\ step = "script"
    /\ Ends(j, "nil")
    /\ UNCHANGED <<new, config, fields, taken, closed, call, stopping, screenVars,
                   turn, buttons, registered, gateVars>>

LocksUnchecked(c) == \* no checkOpenLocked in the setter
    /\ Running(c) /\ step = "lock" /\ ~locked
    /\ locked' = TRUE
    /\ step' = "script"
    /\ pos' = 1
    /\ UNCHANGED <<new, config, held, fields, taken, closed, call, stopping, screenVars,
                   turn, buttons, registered, workerVars, gateVars>>

PressBlocks(d) == \* the select of the callback lacks its default
    /\ d \in active
    /\ buttons < ButtonCap
    /\ buttons' = buttons + 1
    /\ Gate!Leave(d)
    /\ UNCHANGED <<ownVars, step, pos, stopping, screenVars, turn, registered, workerVars>>

-----------------------------------------------------------------------------
(* The worker and the functions it runs. *)

StartJob(j) == /\ Executor!Start(j)
               /\ turn' = [turn EXCEPT ![j] = 1 + Cardinality({k \in Jobs : turn[k] # 0})]
               /\ step' = IF j = Maker THEN "script" ELSE "lock"
               /\ pos' = IF j = Maker THEN 1 ELSE 0
               /\ UNCHANGED <<ownVars, stopping, screenVars, buttons, registered, gateVars>>

WorkerStops == /\ stopping
               /\ Executor!Stop
               /\ UNCHANGED <<ownVars, step, pos, stopping, screenVars, turn, buttons,
                              registered, gateVars>>

\* checkOpenLocked
Open == ~closed /\ {"Smtc", "Display"} \subseteq fields

FindsClosed(c) == /\ Running(c) /\ step = "lock" /\ ~locked
                  /\ ~Open
                  /\ Ends(c, "closed")
                  /\ UNCHANGED <<new, config, fields, taken, closed, call, stopping,
                                 screenVars, turn, buttons, registered, gateVars>>

Locks(c) == /\ Running(c) /\ step = "lock" /\ ~locked
            /\ Open
            /\ locked' = TRUE
            /\ step' = "script"
            /\ pos' = 1
            /\ UNCHANGED <<new, config, held, fields, taken, closed, call, stopping,
                           screenVars, turn, buttons, registered, workerVars, gateVars>>

\* what the call at pos does when it succeeds, unless it is the function's last
Puts(j) == LET p == Item(j) IN
    /\ put' = IF p \in Properties THEN [put EXCEPT ![p] = j] ELSE put
    /\ shown' = CASE p \in Shown -> [shown EXCEPT ![p] = j]
                  [] p = "Update" -> [q \in Properties |->
                                        IF q \in Display THEN put[q] ELSE shown[q]]
                  [] OTHER -> shown
    /\ registered' = (registered \/ p = "Register")
    /\ fields' = CASE p \in Fields -> fields \cup {p}
                   [] p = "Register" -> fields \cup {"ButtonEvent"}
                   [] OTHER -> fields

Advances(j) == /\ Running(j) /\ step = "script"
               /\ Item(j) # "Unsupported"
               /\ pos < Len(ScriptOf(j))
               /\ Puts(j)
               /\ held' = IF Item(j) \in {"Update", "Timeline"} THEN held \ Scratch
                          ELSE held \cup ({Item(j)} \cap (Fields \cup Locals))
               /\ pos' = pos + 1
               /\ UNCHANGED <<new, config, taken, closed, locked, call, step, stopping,
                              turn, buttons, workerVars, gateVars>>

Completes(j) == /\ Running(j) /\ step = "script"
                /\ Item(j) # "Unsupported"
                /\ pos = Len(ScriptOf(j))
                /\ Puts(j)
                /\ Ends(j, "nil")
                /\ UNCHANGED <<new, config, taken, closed, call, stopping, turn,
                               buttons, gateVars>>

\* a call into Windows fails, or SetEnabledButtons rejects an advanced button
Fails(j) == /\ Running(j) /\ step = "script"
            /\ Ends(j, "failed")
            /\ UNCHANGED <<new, config, fields, taken, closed, call, stopping, screenVars,
                           turn, buttons, registered, gateVars>>

\* closeWinRT, under c.mu: every field is copied and set to nil
TakeFields(j) == /\ Running(j) /\ step = "lock" /\ ~locked
                 /\ taken' = fields
                 /\ fields' = {}
                 /\ step' = IF "ButtonEvent" \in fields THEN "closeHandler" ELSE "release"
                 /\ UNCHANGED <<new, config, held, closed, locked, call, pos, stopping,
                                screenVars, turn, buttons, registered, workerVars, gateVars>>

\* buttonEvent.Close
CloseHandler(j) == /\ Running(j) /\ step = "closeHandler"
                   /\ Gate!BeginClose
                   /\ step' = "drain"
                   /\ UNCHANGED <<ownVars, pos, stopping, screenVars, turn, buttons,
                                  registered, workerVars>>

HandlerClosed(j) == /\ Running(j) /\ step = "drain"
                    /\ Gate!FinishClose
                    /\ step' = "release"
                    /\ UNCHANGED <<ownVars, pos, stopping, screenVars, turn, buttons,
                                   registered, workerVars>>

\* the Releases; o is "failed" when ButtonPressed could not be removed
ReleaseFields(j) == /\ Running(j) /\ step = "release"
                    /\ held' = held \ taken
                    /\ taken' = {}
                    /\ \E o \in {"nil", "failed"} : Executor!Finish(j, o)
                    /\ step' = "none"
                    /\ UNCHANGED <<new, config, fields, closed, locked, call, pos, stopping,
                                   screenVars, turn, buttons, registered, gateVars>>

closeWinRT(j) == TakeFields(j) \/ CloseHandler(j) \/ HandlerClosed(j) \/ ReleaseFields(j)

Worker == \/ \E j \in Jobs : StartJob(j)
          \/ \E c \in Setters : FindsClosed(c) \/ Locks(c)
          \/ \E j \in Writers : Advances(j) \/ Completes(j) \/ Fails(j)
          \/ \E x \in Closers \cup {Undoer} : closeWinRT(x)
          \/ WorkerStops

-----------------------------------------------------------------------------
(* New. *)

StartMaking == /\ new = "start"
               /\ Executor!Submit(Maker)
               /\ new' = "making"
               /\ UNCHANGED <<config, held, fields, taken, closed, locked, call, step, pos,
                              stopping, screenVars, turn, buttons, registered, gateVars>>

Made == /\ new = "making"
        /\ Executor!Answer(Maker)
        /\ new' = IF outcome[Maker] = "nil" THEN "ok" ELSE "failing"
        /\ UNCHANGED <<config, held, fields, taken, closed, locked, call, step, pos,
                       stopping, screenVars, turn, buttons, registered, gateVars>>

StartUndoing == /\ new = "failing"
                /\ Executor!Submit(Undoer)
                /\ new' = "undoing"
                /\ UNCHANGED <<config, held, fields, taken, closed, locked, call, step, pos,
                               stopping, screenVars, turn, buttons, registered, gateVars>>

Undone == /\ new = "undoing"
          /\ Executor!Answer(Undoer)
          /\ stopping' = TRUE
          /\ new' = "closeWorker"
          /\ UNCHANGED <<config, held, fields, taken, closed, locked, call, step, pos,
                         screenVars, turn, buttons, registered, gateVars>>

NewFails == /\ new = "closeWorker"
            /\ stopped
            /\ new' = "failed"
            /\ UNCHANGED <<config, held, fields, taken, closed, locked, call, step, pos,
                           stopping, screenVars, turn, buttons, registered, workerVars, gateVars>>

New == StartMaking \/ Made \/ StartUndoing \/ Undone \/ NewFails

-----------------------------------------------------------------------------
(* do and the setters, and Close. *)

Moves(j, pc) == /\ Goto(j, pc)
                /\ UNCHANGED <<new, config, held, fields, taken, locked, step, pos, screenVars,
                               turn, buttons, registered, gateVars>>

Enter(j) == /\ new = "ok" /\ call[j] = "idle"
            /\ Moves(j, "entry")
            /\ UNCHANGED <<closed, stopping, workerVars>>

\* do finds c closed, and so does a second Close
Refused(j) == /\ call[j] = "entry" /\ ~locked /\ closed
              /\ Moves(j, "refused")
              /\ UNCHANGED <<closed, stopping, workerVars>>

DoSubmits(c) == /\ call[c] = "entry" /\ ~locked /\ ~closed
                /\ Executor!Submit(c)
                /\ Moves(c, "inDo")
                /\ UNCHANGED <<closed, stopping>>

DoReturns(c) == /\ call[c] = "inDo"
                /\ Executor!Answer(c)
                /\ Moves(c, "returned")
                /\ UNCHANGED <<closed, stopping>>

\* worker.Do: ErrApartmentClosed
WorkerRefuses(c) == /\ stopping
                    /\ call[c] = "inDo"
                    /\ Executor!Refuse(c)
                    /\ Moves(c, "returned")
                    /\ UNCHANGED <<closed, stopping>>

Do(c) == Refused(c) \/ DoSubmits(c) \/ DoReturns(c) \/ WorkerRefuses(c)

CloseBegins(x) == /\ call[x] = "entry" /\ ~locked /\ ~closed
                  /\ closed' = TRUE
                  /\ Executor!Submit(x)
                  /\ Moves(x, "inDo")
                  /\ UNCHANGED stopping

\* worker.Do(c.closeWinRT) has returned; worker.Close()
StopWorker(x) == /\ call[x] = "inDo"
                 /\ Executor!Answer(x)
                 /\ stopping' = TRUE
                 /\ Moves(x, "stopping")
                 /\ UNCHANGED closed

CloseReturns(x) == /\ call[x] = "stopping" /\ ~locked
                   /\ stopped
                   /\ Moves(x, "returned")
                   /\ UNCHANGED <<closed, stopping, workerVars>>

Close(x) == Refused(x) \/ CloseBegins(x) \/ StopWorker(x) \/ CloseReturns(x)

-----------------------------------------------------------------------------
(* Windows delivers a press (external); the callback. *)

PressArrives(d) == /\ registered
                   /\ Gate!Enter(d) \/ Gate!TurnAway(d)
                   /\ UNCHANGED <<ownVars, step, pos, stopping, screenVars, turn, buttons,
                                  registered, workerVars>>

\* the press is sent, or dropped when the channel is full or it cannot be read
PressHandled(d) == /\ d \in active
                   /\ buttons' \in {buttons, IF buttons < ButtonCap THEN buttons + 1 ELSE buttons}
                   /\ Gate!Leave(d)
                   /\ UNCHANGED <<ownVars, step, pos, stopping, screenVars, turn,
                                  registered, workerVars>>

\* the program reads ButtonEvents
Receive == /\ buttons > 0
           /\ buttons' = buttons - 1
           /\ UNCHANGED <<ownVars, step, pos, stopping, screenVars, turn, registered,
                          workerVars, gateVars>>

Next == \/ New
        \/ Worker
        \/ \E j \in Setters \cup Closers : Enter(j)
        \/ \E c \in Setters : Do(c)
        \/ \E x \in Closers : Close(x)
        \/ \E d \in Presses : PressArrives(d) \/ PressHandled(d)
        \/ Receive

(* No runnable goroutine or thread is starved.  Nobody is forced to call a   *)
(* method or to read ButtonEvents, and Windows need not deliver a press.     *)
Fairness == /\ WF_vars(New)
            /\ WF_vars(Worker)
            /\ \A c \in Setters : WF_vars(Do(c))
            /\ \A x \in Closers : WF_vars(Close(x))
            /\ \A d \in Presses : WF_vars(PressHandled(d))

Spec == Init /\ [][Next]_vars /\ Fairness
-----------------------------------------------------------------------------
(* Properties. *)

(* create.go:148-154, 608-616, 634-694.  However setters and Close           *)
(* interleave, a setter calls into Windows only while c has its objects and  *)
(* their references.  When the Close that found the Creator open returns, or *)
(* a New that failed at whichever of its calls, no reference is left, no     *)
(* callback runs, so that no press is put into ButtonEvents, which is never  *)
(* closed, and nothing runs on the worker or ever will.                      *)
NothingLeft ==
    /\ TypeOK
    /\ step = "script" /\ ~Running(Maker) => Fields \subseteq held \cap fields
    /\ new = "failed" \/ (\E x \in Closers : call[x] = "returned") =>
           held = {} /\ active = {} /\ stopped /\ step = "none"

\* what Windows shows once a setter of the kind has succeeded
Visible(kind) == ToSet(Script(kind)) \cap Properties

(* create.go:232-540.  What a setter that returned nil has put is what       *)
(* Windows shows, until a function that started later puts something else:   *)
(* no put of an earlier or of a failed setter comes over it.                 *)
NilMeansShown ==
    \A c \in Setters : answer[c] = "nil" =>
        \A p \in Visible(KindOf[c]) : shown[p] # Nobody /\ turn[shown[p]] >= turn[c]

(* create.go:495-540.  As long as no function has failed, type, title and    *)
(* artist that Windows shows come from one and the same SetMediaInfo or New. *)
MetadataWhole ==
    (\A j \in Writers : outcome[j] # "failed") =>
        shown["Title"] = shown["Artist"] /\ shown["Title"] = shown["Type"]

(* Every setter and every Close returns, whatever they race with: Close      *)
(* although it waits for the callbacks and nobody may be reading             *)
(* ButtonEvents.  In the end nobody is left inside a method.                 *)
CallsAnswered ==
    <>[](\A j \in Setters \cup Closers : call[j] \in {"idle", "refused", "returned"})
=============================================================================
