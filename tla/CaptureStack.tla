----------------------------- MODULE CaptureStack -----------------------------
(***************************************************************************)
(* A Capturer (pkg/audio/loopback) over the LoopbackCapture it drives      *)
(* (internal/wasapi).  The device of Capturer is the stream of the chain   *)
(* of COM objects: what Capturer leaves to the device (that a call fails,  *)
(* that a packet is there) is here done by the calls of LoopbackCapture,   *)
(* each a step of its own on the goroutine worker, while the callers of    *)
(* the capturer and the audio engine go on.                                *)
(***************************************************************************)
EXTENDS Capturer, Sequences

CONSTANT NumPackets \* bound: how many packets the engine records

ASSUME BoundAssumption == NumPackets \in Nat

VARIABLES at, held, mixFormat,                         \* the chain of objects
          streaming, recorded, dropped, lent,          \* the audio engine
          packet, broken, returned, reported           \* the ReadPacket at hand

L == INSTANCE LoopbackCapture WITH pc <- at, started <- streaming

captureVars == <<at, held, mixFormat, streaming, recorded, dropped, lent, packet, broken,
                 returned, reported>>
allVars == <<vars, captureVars>>

StackInit == Init /\ L!Init

-----------------------------------------------------------------------------
\* steps of one of the two alone
CapturerAlone(step) == step /\ UNCHANGED captureVars
CaptureAlone(step)  == step /\ UNCHANGED vars

(* OpenDefaultLoopback, and its l.Close() when it fails. *)
Opening == /\ worker = "open"
           /\ \/ CaptureAlone(L!Open \/ L!CloseNext \/ L!CloseEnds)
              \/ at = "open" /\ CapturerAlone(OpenLoopback)
              \/ at = "closed" /\ CapturerAlone(OpenLoopbackFails)

(* The commands: loopback.Start and loopback.Stop succeed or fail. *)
Starting == \/ HandleStart("nil") /\ L!Start
            \/ CapturerAlone(HandleStart("failed"))

Stopping == \/ (HandleStop("nil") \/ StopAfterError("nil")) /\ L!Stop
            \/ CapturerAlone(HandleStop("failed") \/ StopAfterError("failed"))

CloseCommand == \/ running /\ HandleClose("nil") /\ L!Stop
                \/ ~running /\ CapturerAlone(HandleClose("nil"))
                \/ CapturerAlone(HandleClose("failed"))

(* loopback.ReadPacket: its calls, and what commandLoop makes of the result. *)
Reading == /\ worker = "reading"
           /\ \/ CaptureAlone(L!NextPacketSize \/ L!GetBuffer \/ L!CopyData \/ L!CopyFails)
              \/ at = "open" /\ recorded = dropped /\ CapturerAlone(ReadNothing)
              \/ ~broken /\ L!ReleaseBuffer /\ ReadPacket
              \/ broken /\ L!ReleaseBuffer /\ ReadFails
              \/ (L!NextPacketSizeFails \/ L!GetBufferFails \/ L!ReleaseBufferFails) /\ ReadFails

(* The deferred loopback.Close(). *)
Closing == /\ worker = "closeLoopback"
           /\ \/ CaptureAlone(L!Close \/ L!CloseNext \/ L!CloseEnds)
              \/ at = "closed" /\ CapturerAlone(CloseLoopback)

StackWorker == \/ Opening \/ Starting \/ Stopping \/ CloseCommand \/ Reading \/ Closing
               \/ CapturerAlone(\/ ComInit \/ ComInitFails
                                \/ \E x \in Senders : TakeCommand(x)
                                \/ HandleStartAgain \/ HandleStopIdle \/ Poll
                                \/ ComUninit \/ CloseErrors \/ CloseFrames \/ CloseDone)

StackNext == \/ StackWorker
             \/ CapturerAlone(\/ \E x \in Calls : CallCommand(x)
                              \/ \E c \in Closers : CallClose(c) \/ CallCloseAgain(c)
                                                    \/ CloseReturns(c)
                              \/ \E x \in Senders : Send(x)
                              \/ Consume)
             \/ CaptureAlone(L!Record)

(* As for Capturer; the engine is not obliged to record anything.            *)
StackFairness == /\ WF_allVars(StackWorker)
                 /\ \A x \in Senders : WF_allVars(CapturerAlone(Send(x)))
                 /\ \A c \in Closers : WF_allVars(CapturerAlone(CloseReturns(c)))

StackSpec == StackInit /\ [][StackNext]_allVars /\ StackFairness

-----------------------------------------------------------------------------
(* Properties. *)

(* capture.go:188-247, loopback.go:60-81.  The stream of the chain is what   *)
(* commandLoop takes it for: a call of ReadPacket meets a complete chain,    *)
(* COM on its thread and a started stream; no command is handled while a     *)
(* packet is read; Start never meets a stream that runs unless stopping it   *)
(* had failed.                                                               *)
ReadsOpenStream ==
    /\ ReadsStartedDevice
    /\ worker \in {"loop", "reading", "stopping", "command"} =>
           /\ com
           /\ held = {L!Objects[i] : i \in DOMAIN L!Objects}
           /\ mixFormat = 0
           /\ streaming <=> device = "started"
    /\ at \in L!ReadPc => worker = "reading"

(* loopback.go:18-54, 105-125, audio_client.go:22-80, capture_client.go:89:  *)
(* see LoopbackCapture, here under the commands of a Capturer.               *)
NothingLeft == L!NothingLeft

(* capture_client.go:60-116: see LoopbackCapture, across any number of stops *)
(* and starts.                                                               *)
PacketsInOrder == L!PacketsInOrder
=============================================================================
