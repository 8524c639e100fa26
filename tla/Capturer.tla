------------------------------ MODULE Capturer ------------------------------
(***************************************************************************)
(* pkg/audio/loopback/capture.go: Capturer, with the part of               *)
(* internal/wasapi/loopback.go it drives.                                  *)
(*                                                                         *)
(* One goroutine locked to its thread (worker) owns the WASAPI objects.    *)
(* Start, Stop and Close send it a command over an unbuffered channel and  *)
(* wait for the answer; while it captures it polls the channel between two *)
(* packets.  Packets and errors go to buffered channels and are dropped    *)
(* when these are full.                                                    *)
(*                                                                         *)
(* External: the device.  Start succeeds only on a stopped device, and     *)
(* Start, Stop and ReadPacket may fail; a failed Stop leaves it started.   *)
(***************************************************************************)
EXTENDS Naturals, FiniteSets

CONSTANTS Calls,     \* the calls of Start and Stop
          Closers,   \* the calls of Close
          FrameCap,  \* capacity of c.frames
          ErrorCap,  \* capacity of c.errors
          NoSender   \* the worker holds no command

ASSUME SendersAssumption == Calls \cap Closers = {} /\ NoSender \notin Calls \cup Closers
ASSUME CapAssumption == FrameCap \in Nat \ {0} /\ ErrorCap \in Nat \ {0}

Senders == Calls \cup Closers
Answers == {"nil", "failed", "ErrClosed", "ErrAlreadyStart"}

VARIABLES
    worker,   \* where the goroutine worker is
    current,  \* whose command it took
    running,  \* commandLoop's local variable
    device,   \* none, stopped, started or released (external)
    com,      \* wasapi.Init succeeded and Uninit has not run
    errorsClosed, framesClosed, done, \* the channels it closes at its end
    frames,   \* number of packets in c.frames
    errors,   \* number of errors in c.errors
    new,      \* where New is: waiting, ok or failed
    call,     \* Senders -> where the call is
    kind,     \* Senders -> start or stop, set by the call; close otherwise
    answer,   \* Senders -> what the worker sent to cmd.resp, or send returned
    closed    \* c.closed

deviceVars == <<device, com>>
chanVars   == <<errorsClosed, framesClosed, done, frames, errors>>
callVars   == <<call, kind, answer, closed>>
vars == <<worker, current, running, deviceVars, chanVars, new, callVars>>

WorkerPc == {"init", "open", "loop", "reading", "stopping", "command", "closeLoopback",
             "uninit", "closeErrors", "closeFrames", "closeDone", "exited"}
CallPc   == {"idle", "check", "sending", "waiting", "awaitDone", "returned", "ignored"}

TypeOK == /\ worker \in WorkerPc
          /\ current \in Senders \cup {NoSender}
          /\ running \in BOOLEAN
          /\ device \in {"none", "stopped", "started", "released"}
          /\ com \in BOOLEAN
          /\ errorsClosed \in BOOLEAN /\ framesClosed \in BOOLEAN /\ done \in BOOLEAN
          /\ frames \in 0..FrameCap
          /\ errors \in 0..ErrorCap
          /\ new \in {"waiting", "ok", "failed"}
          /\ call \in [Senders -> CallPc]
          /\ kind \in [Senders -> {"start", "stop", "close"}]
          /\ answer \in [Senders -> Answers \cup {"none"}]
          /\ closed \in BOOLEAN

Init == /\ worker = "init"
        /\ current = NoSender
        /\ running = FALSE
        /\ device = "none"
        /\ com = FALSE
        /\ errorsClosed = FALSE /\ framesClosed = FALSE /\ done = FALSE
        /\ frames = 0
        /\ errors = 0
        /\ new = "waiting"
        /\ call = [x \in Senders |-> "idle"]
        /\ kind = [x \in Senders |-> "close"]
        /\ answer = [x \in Senders |-> "none"]
        /\ closed = FALSE

-----------------------------------------------------------------------------
Goto(x, pc) == call' = [call EXCEPT ![x] = pc]

\* cmd.resp <- a, for the command the worker holds
Respond(a) == /\ answer' = [answer EXCEPT ![current] = a]
              /\ current' = NoSender

\* loopback.Start and loopback.Stop: what they return and what the device does
DeviceStart(a) == \/ a = "nil" /\ device = "stopped" /\ device' = "started"
                  \/ a = "failed" /\ UNCHANGED device
DeviceStop(a)  == \/ a = "nil" /\ device' = "stopped"
                  \/ a = "failed" /\ UNCHANGED device

\* sendFrame and sendError drop what does not fit
SendFrame == frames' = IF frames < FrameCap THEN frames + 1 ELSE frames
SendError == errors' = IF errors < ErrorCap THEN errors + 1 ELSE errors

Holds(k) == worker = "command" /\ kind[current] = k

-----------------------------------------------------------------------------
(* Slips: what a step could look like with a mistake in it.  None is part of *)
(* Next; each shows that a property below depends on the step it replaces.   *)

StartTrusted(a) == \* running is set whatever loopback.Start returned
    /\ Holds("start")
    /\ ~running
    /\ DeviceStart(a)
    /\ running' = TRUE
    /\ Respond(a)
    /\ worker' = "loop"
    /\ UNCHANGED <<com, chanVars, new, call, kind, closed>>

StopSilently(a) == \* the error of ReadPacket is not sent
    /\ worker = "stopping"
    /\ DeviceStop(a)
    /\ running' = FALSE
    /\ worker' = "loop"
    /\ UNCHANGED <<current, com, chanVars, new, callVars>>

SendUnguarded(x) == \* the last select of send lacks its case <-c.done
    /\ FALSE
    /\ UNCHANGED vars

CloseNotAwaited(c) == \* Close returns with the answer, without <-c.done
    /\ call[c] = "awaitDone"
    /\ Goto(c, "returned")
    /\ UNCHANGED <<worker, current, running, deviceVars, chanVars, new, kind, answer,
                   closed>>

-----------------------------------------------------------------------------
(* New and the beginning of worker. *)

ComInit == /\ worker = "init"
           /\ com' = TRUE
           /\ worker' = "open"
           /\ UNCHANGED <<current, running, device, chanVars, new, callVars>>

\* initCh <- err, and the deferred closes run; New returns no capturer
ComInitFails == /\ worker = "init"
                /\ new' = "failed"
                /\ worker' = "closeErrors"
                /\ UNCHANGED <<current, running, deviceVars, chanVars, callVars>>

OpenLoopback == /\ worker = "open"
                /\ device' = "stopped"
                /\ new' = "ok"
                /\ worker' = "loop"
                /\ UNCHANGED <<current, running, com, chanVars, callVars>>

\* OpenDefaultLoopback has closed what it had opened
OpenLoopbackFails == /\ worker = "open"
                     /\ new' = "failed"
                     /\ worker' = "uninit"
                     /\ UNCHANGED <<current, running, deviceVars, chanVars, callVars>>

-----------------------------------------------------------------------------
(* commandLoop. *)

\* cmd := <-c.cmd, blocking when not running, polled otherwise
TakeCommand(x) == /\ worker = "loop"
                  /\ call[x] = "sending"
                  /\ current' = x
                  /\ Goto(x, "waiting")
                  /\ worker' = "command"
                  /\ UNCHANGED <<running, deviceVars, chanVars, new, kind, answer, closed>>

HandleStart(a) == /\ Holds("start")
                  /\ ~running
                  /\ DeviceStart(a)
                  /\ running' = (a = "nil")
                  /\ Respond(a)
                  /\ worker' = "loop"
                  /\ UNCHANGED <<com, chanVars, new, call, kind, closed>>

HandleStartAgain == /\ Holds("start")
                    /\ running
                    /\ Respond("ErrAlreadyStart")
                    /\ worker' = "loop"
                    /\ UNCHANGED <<running, deviceVars, chanVars, new, call, kind, closed>>

\* while running: the answer is the device's, but running ends either way
HandleStop(a) == /\ Holds("stop")
                 /\ running
                 /\ DeviceStop(a)
                 /\ running' = FALSE
                 /\ Respond(a)
                 /\ worker' = "loop"
                 /\ UNCHANGED <<com, chanVars, new, call, kind, closed>>

HandleStopIdle == /\ Holds("stop")
                  /\ ~running
                  /\ Respond("nil")
                  /\ worker' = "loop"
                  /\ UNCHANGED <<running, deviceVars, chanVars, new, call, kind, closed>>

\* commandLoop returns; while running the device is stopped first
HandleClose(a) == /\ Holds("close")
                  /\ IF running THEN DeviceStop(a)
                                ELSE a = "nil" /\ UNCHANGED device
                  /\ Respond(a)
                  /\ running' = FALSE
                  /\ worker' = "closeLoopback"
                  /\ UNCHANGED <<com, chanVars, new, call, kind, closed>>

\* the select's default case is taken only when no command is waiting
Poll == /\ worker = "loop" /\ running
        /\ \A x \in Senders : call[x] # "sending"
        /\ worker' = "reading"
        /\ UNCHANGED <<current, running, deviceVars, chanVars, new, callVars>>

ReadPacket == /\ worker = "reading"
              /\ SendFrame
              /\ worker' = "loop"
              /\ UNCHANGED <<current, running, deviceVars, errorsClosed, framesClosed,
                             done, errors, new, callVars>>

\* ok = false: no packet yet, the loop sleeps for defaultPollDelay
ReadNothing == /\ worker = "reading"
               /\ worker' = "loop"
               /\ UNCHANGED <<current, running, deviceVars, chanVars, new, callVars>>

ReadFails == /\ worker = "reading"
             /\ worker' = "stopping"
             /\ UNCHANGED <<current, running, deviceVars, chanVars, new, callVars>>

\* the error is sent, and capture stops as well as it can
StopAfterError(a) == /\ worker = "stopping"
                     /\ SendError
                     /\ DeviceStop(a)
                     /\ running' = FALSE
                     /\ worker' = "loop"
                     /\ UNCHANGED <<current, com, errorsClosed, framesClosed, done, frames,
                                    new, callVars>>

-----------------------------------------------------------------------------
(* The deferred calls of worker, last first. *)

CloseLoopback == /\ worker = "closeLoopback"
                 /\ device' = "released"
                 /\ worker' = "uninit"
                 /\ UNCHANGED <<current, running, com, chanVars, new, callVars>>

ComUninit == /\ worker = "uninit"
             /\ com' = FALSE
             /\ worker' = "closeErrors"
             /\ UNCHANGED <<current, running, device, chanVars, new, callVars>>

CloseErrors == /\ worker = "closeErrors"
               /\ errorsClosed' = TRUE
               /\ worker' = "closeFrames"
               /\ UNCHANGED <<current, running, deviceVars, framesClosed, done, frames,
                              errors, new, callVars>>

CloseFrames == /\ worker = "closeFrames"
               /\ framesClosed' = TRUE
               /\ worker' = "closeDone"
               /\ UNCHANGED <<current, running, deviceVars, errorsClosed, done, frames,
                              errors, new, callVars>>

CloseDone == /\ worker = "closeDone"
             /\ done' = TRUE
             /\ worker' = "exited"
             /\ UNCHANGED <<current, running, deviceVars, errorsClosed, framesClosed,
                            frames, errors, new, callVars>>

Worker == \/ ComInit \/ ComInitFails \/ OpenLoopback \/ OpenLoopbackFails
          \/ \E x \in Senders : TakeCommand(x)
          \/ \E a \in {"nil", "failed"} : HandleStart(a) \/ HandleStop(a) \/ HandleClose(a)
                                          \/ StopAfterError(a)
          \/ HandleStartAgain \/ HandleStopIdle
          \/ Poll \/ ReadPacket \/ ReadNothing \/ ReadFails
          \/ CloseLoopback \/ ComUninit \/ CloseErrors \/ CloseFrames \/ CloseDone

-----------------------------------------------------------------------------
(* send, and Close around it; New has returned the capturer. *)

CallCommand(x) == /\ new = "ok"
                  /\ x \in Calls
                  /\ call[x] = "idle"
                  /\ \E k \in {"start", "stop"} : kind' = [kind EXCEPT ![x] = k]
                  /\ Goto(x, "check")
                  /\ UNCHANGED <<worker, current, running, deviceVars, chanVars, new, answer,
                                 closed>>

\* under closeMu: the first call goes on
CallClose(c) == /\ new = "ok"
                /\ call[c] = "idle"
                /\ ~closed
                /\ closed' = TRUE
                /\ Goto(c, "check")
                /\ UNCHANGED <<worker, current, running, deviceVars, chanVars, new, kind,
                               answer>>

\* under closeMu: any later call returns nil at once
CallCloseAgain(c) == /\ new = "ok"
                     /\ call[c] = "idle"
                     /\ closed
                     /\ Goto(c, "ignored")
                     /\ UNCHANGED <<worker, current, running, deviceVars, chanVars, new,
                                    kind, answer, closed>>

AfterSend(x) == IF x \in Closers THEN "awaitDone" ELSE "returned"

\* select { case <-c.done: return ErrClosed default: }
CheckDone(x) == /\ call[x] = "check"
                /\ done
                /\ answer' = [answer EXCEPT ![x] = "ErrClosed"]
                /\ Goto(x, AfterSend(x))
                /\ UNCHANGED <<worker, current, running, deviceVars, chanVars, new, kind,
                               closed>>

OfferCommand(x) == /\ call[x] = "check"
                   /\ ~done
                   /\ Goto(x, "sending")
                   /\ UNCHANGED <<worker, current, running, deviceVars, chanVars, new, kind,
                                  answer, closed>>

\* case <-c.done of the last select
SendMeetsDone(x) == /\ call[x] = "sending"
                    /\ done
                    /\ answer' = [answer EXCEPT ![x] = "ErrClosed"]
                    /\ Goto(x, AfterSend(x))
                    /\ UNCHANGED <<worker, current, running, deviceVars, chanVars, new,
                                   kind, closed>>

\* return <-resp
GetAnswer(x) == /\ call[x] = "waiting"
                /\ answer[x] # "none"
                /\ Goto(x, AfterSend(x))
                /\ UNCHANGED <<worker, current, running, deviceVars, chanVars, new, kind,
                               answer, closed>>

\* <-c.done; return err
CloseReturns(c) == /\ call[c] = "awaitDone"
                   /\ done
                   /\ Goto(c, "returned")
                   /\ UNCHANGED <<worker, current, running, deviceVars, chanVars, new, kind,
                                  answer, closed>>

Send(x) == CheckDone(x) \/ OfferCommand(x) \/ SendMeetsDone(x) \/ GetAnswer(x)

\* the program reads c.frames or c.errors
Consume == /\ \/ frames > 0 /\ frames' = frames - 1 /\ UNCHANGED errors
              \/ errors > 0 /\ errors' = errors - 1 /\ UNCHANGED frames
           /\ UNCHANGED <<worker, current, running, deviceVars, errorsClosed, framesClosed,
                          done, new, callVars>>

Next == \/ Worker
        \/ \E x \in Calls : CallCommand(x)
        \/ \E c \in Closers : CallClose(c) \/ CallCloseAgain(c) \/ CloseReturns(c)
        \/ \E x \in Senders : Send(x)
        \/ Consume

(* Runnable goroutines run, and no call into the device blocks for ever.     *)
(* Nobody is obliged to read c.frames or c.errors, or to close the capturer. *)
Fairness == /\ WF_vars(Worker)
            /\ \A x \in Senders : WF_vars(Send(x))
            /\ \A c \in Closers : WF_vars(CloseReturns(c))

Spec == Init /\ [][Next]_vars /\ Fairness

-----------------------------------------------------------------------------
(* Properties. *)

(* capture.go:200-247.  While the loop reads packets the device is started   *)
(* and its objects are alive, whatever Start, Stop and ReadPacket returned.  *)
ReadsStartedDevice == running => device = "started" /\ com

(* capture.go:236-239.  Capture does not end unnoticed: when it ends without *)
(* a command, an error is in c.errors for the program to find.               *)
CaptureEndsNoticed ==
    [][running /\ ~running' /\ worker # "command" => errors' > 0 /\ ~errorsClosed']_vars

(* capture.go:133-147, 176-198.  When the call of Close that did the work    *)
(* returns, the objects are released on their thread, which has left COM,    *)
(* and both channels are closed; no other command is answered any more       *)
(* except with ErrClosed.                                                    *)
CloseReleases ==
    /\ TypeOK
    /\ \A c \in Closers : call[c] = "returned" =>
           /\ worker = "exited" /\ errorsClosed /\ framesClosed
           /\ device = "released" /\ ~com /\ ~running
           /\ \A x \in Senders : call[x] = "waiting" => answer[x] # "none"

(* capture.go:157-174.  Every call is answered, also one that races the end  *)
(* of the worker, and also when nobody reads the frames: there comes a time  *)
(* when nobody is left inside a call.                                        *)
CommandAnswered ==
    <>[](\A x \in Senders : call[x] \in {"idle", "ignored", "returned"})
=============================================================================
