---------------------------- MODULE Audio_proofs ----------------------------
(***************************************************************************)
(* Proofs about CaptureStack, for any number of callers, packets and any   *)
(* capacity of the two channels.  The inductive invariant has a part for   *)
(* the worker and its callers, one for the chain of objects and its        *)
(* packets, and one that couples the two.                                  *)
(*                                                                         *)
(* At the end, proofs about Conversions: what becomes of the formats and   *)
(* samples that are captured, and of times.                                *)
(***************************************************************************)
EXTENDS CaptureStack, Conversions, TLAPS

Looping == {"loop", "reading", "stopping", "command"}

\* what the worker's place says of its objects and channels
WorkerInv ==
    /\ com <=> worker \in Looping \cup {"open", "closeLoopback", "uninit"}
    /\ device = "none" <=> worker \in {"init", "open"} \/ new = "failed"
    /\ worker \in Looping \cup {"closeLoopback"} <=> device \in {"stopped", "started"}
    /\ new = "waiting" <=> worker \in {"init", "open"}
    /\ running => worker \in Looping /\ device = "started"
    /\ worker \in {"reading", "stopping"} => running
    /\ errorsClosed <=> worker \in {"closeFrames", "closeDone", "exited"}
    /\ framesClosed <=> worker \in {"closeDone", "exited"}
    /\ done <=> worker = "exited"

\* what a call's place says of its answer; Close is through only after the worker
CallInv ==
    /\ current # NoSender <=> worker = "command"
    /\ \A x \in Senders : /\ call[x] # "idle" => new = "ok"
                          /\ call[x] = "waiting" /\ x # current => answer[x] # "none"
    /\ \A c \in Closers : call[c] = "returned" => done

CapturerInv == TypeOK /\ WorkerInv /\ CallInv

-----------------------------------------------------------------------------
All == {"enumerator", "device", "audio", "capture"}

LoopbackType ==
    /\ at \in L!OpenPc \cup L!ReadPc \cup {"format", "open", "closing", "closed"}
    /\ held \subseteq All
    /\ mixFormat \in 0..1
    /\ streaming \in BOOLEAN /\ lent \in BOOLEAN /\ broken \in BOOLEAN
    /\ recorded \in 0..NumPackets /\ dropped \in 0..recorded /\ packet \in 0..recorded
    /\ returned \in Seq(1..NumPackets)
    /\ reported \subseteq (1..(NumPackets + 1)) \X (L!ReadPc \cup {"open"})

\* the chain of objects, from OpenDefaultLoopback to Close: which there are at each place
ChainInv ==
    /\ at \in {"enumerator", "closed"} => held = {}
    /\ at = "device" => held = {"enumerator"}
    /\ at = "audio" => held = {"enumerator", "device"}
    /\ at \in {"format", "parse", "initialize", "free", "capture"} =>
           held = {"enumerator", "device", "audio"}
    /\ at \in L!ReadPc \cup {"open"} => held = All
    /\ "capture" \in held => "audio" \in held
    /\ "audio" \in held => "device" \in held
    /\ "device" \in held => "enumerator" \in held
    /\ mixFormat = IF at \in {"parse", "free"} THEN 1 ELSE 0
    /\ broken => at \in {"parse", "free", "releaseBuffer"}

\* the packets: the one at hand is the next, and what was dropped was returned or told
PacketInv ==
    /\ at \in {"copy", "releaseBuffer"} => lent
    /\ lent => at \in L!ReadPc \cup {"open", "closing"}
    /\ at \in {"open", "getBuffer"} /\ lent => <<dropped + 1, "releaseBuffer">> \in reported
    /\ at \in L!ReadPc => dropped < recorded
    /\ at = "releaseBuffer" /\ ~broken => packet = dropped + 1
    /\ L!PacketsInOrder

LoopbackInv == LoopbackType /\ ChainInv /\ PacketInv

-----------------------------------------------------------------------------
\* the chain the worker takes itself to have
Coupled ==
    /\ worker = "init" => at = "enumerator"
    /\ worker = "open" => at \notin L!ReadPc
    /\ worker \in {"loop", "stopping", "command"} => at = "open"
    /\ worker = "reading" => at \in L!ReadPc \cup {"open"}
    /\ worker = "closeLoopback" => at \in {"open", "closing", "closed"}
    /\ worker \in {"uninit", "closeErrors", "closeFrames", "closeDone", "exited"} =>
           at = "closed" \/ (new = "failed" /\ at = "enumerator")
    /\ worker \in {"init", "open"} => ~streaming
    /\ worker \in Looping => (streaming <=> device = "started")

IInv == CapturerInv /\ LoopbackInv /\ Coupled

-----------------------------------------------------------------------------
(* The worker and its callers. *)

\* The half of the capturer holds initially.
LEMMA CapturerInit == Init => CapturerInv
<1> SUFFICES ASSUME Init PROVE CapturerInv
  OBVIOUS
<1>1. TypeOK
  <2>1. frames \in 0..FrameCap /\ errors \in 0..ErrorCap
    BY CapAssumption DEF Init
  <2>2. /\ call \in [Senders -> CallPc] /\ kind \in [Senders -> {"start", "stop", "close"}]
        /\ answer \in [Senders -> Answers \cup {"none"}]
    BY DEF Init, CallPc
  <2> QED BY <2>1, <2>2 DEF Init, TypeOK, WorkerPc
<1>2. WorkerInv
  BY DEF Init, WorkerInv, Looping
<1>3. CallInv
  BY DEF Init, CallInv, Senders
<1> QED BY <1>1, <1>2, <1>3 DEF CapturerInv

\* The worker's begin, its loop and its end.
Begins == ComInit \/ ComInitFails \/ OpenLoopback \/ OpenLoopbackFails
Handles(a) == HandleStart(a) \/ HandleStop(a) \/ HandleClose(a)
Loops  == Poll \/ ReadPacket \/ ReadNothing \/ ReadFails
Leaves == CloseLoopback \/ ComUninit \/ CloseErrors \/ CloseFrames \/ CloseDone

\* What a command's answer changes of the calls.
LEMMA RespondKeeps ==
    ASSUME TypeOK, CallInv, NEW a \in Answers, worker = "command", worker' # "command",
           Respond(a), UNCHANGED <<call, done, new>>
    PROVE  /\ answer' \in [Senders -> Answers \cup {"none"}]
           /\ current' \in Senders \cup {NoSender}
           /\ CallInv'
<1>1. current \in Senders /\ current' = NoSender
  BY DEF TypeOK, CallInv, Respond
<1>2. \A x \in Senders : answer'[x] = IF x = current THEN a ELSE answer[x]
  BY DEF TypeOK, Respond
<1>3. answer' \in [Senders -> Answers \cup {"none"}]
  BY DEF TypeOK, Respond
<1>4. a # "none"
  BY DEF Answers
<1> QED BY <1>1, <1>2, <1>3, <1>4 DEF CallInv

\* What a call that goes on changes of the calls.
LEMMA GoesOnKeeps ==
    ASSUME TypeOK, CallInv, NEW x \in Senders, NEW pc \in CallPc, Goto(x, pc), new = "ok",
           UNCHANGED <<worker, current, new, done>>,
           \A y \in Senders \ {x} : answer'[y] = answer[y],
           pc # "waiting", pc = "returned" /\ x \in Closers => done
    PROVE  call' \in [Senders -> CallPc] /\ CallInv'
<1>1. \A y \in Senders : call'[y] = IF y = x THEN pc ELSE call[y]
  BY DEF TypeOK, Goto
<1>2. call' \in [Senders -> CallPc]
  BY DEF TypeOK, Goto
<1> QED BY <1>1, <1>2 DEF CallInv, Senders

\* Every step of Capturer keeps its half of the invariant.
LEMMA CapturerKeeps == ASSUME CapturerInv, [Next]_vars PROVE CapturerInv'
<1> USE SendersAssumption, CapAssumption DEF CapturerInv
<1>1. CASE Begins
  <2>1. TypeOK'
    BY <1>1 DEF Begins, ComInit, ComInitFails, OpenLoopback, OpenLoopbackFails, TypeOK, WorkerPc,
            deviceVars, chanVars, callVars
  <2>2. WorkerInv' /\ CallInv'
    BY <1>1 DEF Begins, ComInit, ComInitFails, OpenLoopback, OpenLoopbackFails, WorkerInv,
            CallInv, Looping, deviceVars, chanVars, callVars
  <2> QED BY <2>1, <2>2
<1>2. ASSUME NEW x \in Senders, TakeCommand(x) PROVE CapturerInv'
  <2>1. \A y \in Senders : call'[y] = IF y = x THEN "waiting" ELSE call[y]
    BY <1>2 DEF TakeCommand, Goto, TypeOK
  <2>2. TypeOK'
    BY <1>2 DEF TakeCommand, Goto, TypeOK, WorkerPc, CallPc, deviceVars, chanVars
  <2>3. WorkerInv' /\ CallInv'
    BY <1>2, <2>1 DEF TakeCommand, WorkerInv, CallInv, Looping, TypeOK, Senders, deviceVars,
                      chanVars
  <2> QED BY <2>2, <2>3
<1>3. ASSUME NEW a \in {"nil", "failed"}, Handles(a) PROVE CapturerInv'
  <2>1. /\ worker = "command" /\ worker' \in {"loop", "closeLoopback"} /\ Respond(a)
        /\ UNCHANGED <<com, chanVars, new, call, kind, closed>>
        /\ device \in {"stopped", "started"} => device' \in {"stopped", "started"}
        /\ running' \in BOOLEAN
        /\ running' => worker' = "loop" /\ device' = "started"
    BY <1>3 DEF Handles, HandleStart, HandleStop, HandleClose, Holds, DeviceStart, DeviceStop
  <2>2. CallInv' /\ current' \in Senders \cup {NoSender}
        /\ answer' \in [Senders -> Answers \cup {"none"}]
    BY <2>1, RespondKeeps DEF Answers, chanVars
  <2>3. WorkerInv'
    BY <2>1 DEF WorkerInv, Looping, chanVars
  <2>4. TypeOK'
    BY <2>1, <2>2 DEF TypeOK, WorkerInv, Looping, WorkerPc, chanVars
  <2> QED BY <2>2, <2>3, <2>4
<1>4. CASE HandleStartAgain \/ HandleStopIdle
  <2>1. PICK a \in {"nil", "ErrAlreadyStart"} :
            /\ worker = "command" /\ worker' = "loop" /\ Respond(a)
            /\ UNCHANGED <<running, deviceVars, chanVars, new, call, kind, closed>>
    BY <1>4 DEF HandleStartAgain, HandleStopIdle, Holds
  <2>2. CallInv' /\ current' \in Senders \cup {NoSender}
        /\ answer' \in [Senders -> Answers \cup {"none"}]
    BY <2>1, RespondKeeps DEF Answers, chanVars
  <2>3. WorkerInv'
    BY <2>1 DEF WorkerInv, Looping, deviceVars, chanVars
  <2>4. TypeOK'
    BY <2>1, <2>2 DEF TypeOK, WorkerPc, deviceVars, chanVars
  <2> QED BY <2>2, <2>3, <2>4
<1>5. ASSUME NEW a \in {"nil", "failed"}, StopAfterError(a) PROVE CapturerInv'
  <2>1. errors' \in 0..ErrorCap
    BY <1>5 DEF StopAfterError, SendError, TypeOK
  <2>2. device' \in {"none", "stopped", "started", "released"}
    BY <1>5 DEF StopAfterError, DeviceStop, TypeOK
  <2>3. TypeOK'
    BY <1>5, <2>1, <2>2 DEF StopAfterError, TypeOK, WorkerPc, callVars
  <2>4. WorkerInv' /\ CallInv'
    BY <1>5 DEF StopAfterError, DeviceStop, WorkerInv, CallInv, Looping, callVars
  <2> QED BY <2>3, <2>4
<1>6. CASE Loops
  <2>1. TypeOK'
    BY <1>6 DEF Loops, Poll, ReadPacket, SendFrame, ReadNothing, ReadFails, TypeOK, WorkerPc,
            deviceVars, chanVars, callVars
  <2>2. WorkerInv' /\ CallInv'
    BY <1>6 DEF Loops, Poll, ReadPacket, ReadNothing, ReadFails, WorkerInv, CallInv, Looping,
            deviceVars, chanVars, callVars
  <2> QED BY <2>1, <2>2
<1>7. CASE Leaves
  <2>1. TypeOK'
    <3>1. CASE CloseLoopback \/ ComUninit
      BY <3>1 DEF CloseLoopback, ComUninit, TypeOK, WorkerPc, chanVars, callVars
    <3>2. CASE CloseErrors \/ CloseFrames \/ CloseDone
      <4>1. /\ worker' \in WorkerPc
            /\ errorsClosed' \in BOOLEAN /\ framesClosed' \in BOOLEAN /\ done' \in BOOLEAN
            /\ UNCHANGED <<current, running, device, com, frames, errors, new, call, kind,
                          answer, closed>>
        BY <3>2 DEF CloseErrors, CloseFrames, CloseDone, TypeOK, WorkerPc, deviceVars, callVars
      <4> QED BY <4>1 DEF TypeOK
    <3> QED BY <1>7, <3>1, <3>2 DEF Leaves
  <2>2. WorkerInv' /\ CallInv'
    BY <1>7 DEF Leaves, CloseLoopback, ComUninit, CloseErrors, CloseFrames, CloseDone,
            WorkerInv, CallInv, Looping, deviceVars, chanVars, callVars
  <2> QED BY <2>1, <2>2
<1>8. ASSUME NEW x \in Senders,
             \/ Send(x)
             \/ x \in Calls /\ CallCommand(x)
             \/ x \in Closers /\ (CallClose(x) \/ CallCloseAgain(x) \/ CloseReturns(x))
      PROVE  CapturerInv'
  <2>1. /\ new = "ok"
        /\ UNCHANGED <<worker, current, running, deviceVars, chanVars, new>>
        /\ \E pc \in CallPc \ {"waiting"} : Goto(x,
            pc) /\ (pc = "returned" /\ x \in Closers => done)
    BY <1>8 DEF Send, CheckDone, OfferCommand, SendMeetsDone, GetAnswer, CallCommand, CallClose,
            CallCloseAgain, CloseReturns, AfterSend, CallInv, CallPc
  <2>2. /\ kind' \in [Senders -> {"start", "stop", "close"}]
        /\ answer' \in [Senders -> Answers \cup {"none"}] /\ closed' \in BOOLEAN
        /\ \A y \in Senders \ {x} : answer'[y] = answer[y]
    BY <1>8 DEF Send, CheckDone, OfferCommand, SendMeetsDone, GetAnswer, CallCommand, CallClose,
            CallCloseAgain, CloseReturns, TypeOK, Answers
  <2>3. call' \in [Senders -> CallPc] /\ CallInv'
    BY <2>1, <2>2, GoesOnKeeps DEF chanVars
  <2>4. WorkerInv'
    BY <2>1 DEF WorkerInv, deviceVars, chanVars
  <2>5. TypeOK'
    BY <2>1, <2>2, <2>3 DEF TypeOK, deviceVars, chanVars
  <2> QED BY <2>3, <2>4, <2>5
<1>9. CASE Consume
  BY <1>9 DEF Consume, TypeOK, WorkerInv, CallInv, deviceVars, callVars
<1>10. CASE UNCHANGED vars
  BY <1>10 DEF vars, TypeOK, WorkerInv, CallInv, deviceVars, chanVars, callVars
<1> QED
  BY <1>1, <1>2, <1>3, <1>4, <1>5, <1>6, <1>7, <1>8, <1>9, <1>10
  DEF Next, Worker, Senders, Begins, Handles, Loops, Leaves

-----------------------------------------------------------------------------
(* The chain of objects and the packets. *)

\* What the tuple of the four objects is.
LEMMA ObjectsAre ==
    /\ DOMAIN L!Objects = 1..4 /\ Len(L!Objects) = 4
    /\ L!Objects[1] = "enumerator" /\ L!Objects[2] = "device"
    /\ L!Objects[3] = "audio" /\ L!Objects[4] = "capture"
    /\ {L!Objects[i] : i \in DOMAIN L!Objects} = All
<1>1. /\ DOMAIN L!Objects = 1..4 /\ Len(L!Objects) = 4
      /\ L!Objects[1] = "enumerator" /\ L!Objects[2] = "device"
      /\ L!Objects[3] = "audio" /\ L!Objects[4] = "capture"
  BY DEF L!Objects
<1>2. \A i \in 1..4 : i = 1 \/ i = 2 \/ i = 3 \/ i = 4
  OBVIOUS
<1>3. 1 \in 1..4 /\ 2 \in 1..4 /\ 3 \in 1..4 /\ 4 \in 1..4
  OBVIOUS
<1>4. {L!Objects[i] : i \in 1..4} \subseteq All
  BY <1>1, <1>2, Zenon DEF All
<1>5. All \subseteq {L!Objects[i] : i \in 1..4}
  BY <1>1, <1>3, Zenon DEF All
<1> QED BY <1>1, <1>4, <1>5

\* The other half of the invariant holds initially.
LEMMA LoopbackInit == L!Init => LoopbackInv
<1> SUFFICES ASSUME L!Init PROVE LoopbackInv
  OBVIOUS
<1>1. recorded \in 0..NumPackets /\ dropped \in 0..recorded /\ packet \in 0..recorded
  BY BoundAssumption DEF L!Init
<1>2. returned \in Seq(1..NumPackets)
  BY DEF L!Init
<1>3. reported \subseteq (1..(NumPackets + 1)) \X (L!ReadPc \cup {"open"})
  BY Zenon DEF L!Init
<1>4. at \in L!OpenPc /\ held \subseteq All /\ mixFormat \in 0..1
  BY DEF L!Init, L!OpenPc
<1>5. streaming \in BOOLEAN /\ lent \in BOOLEAN /\ broken \in BOOLEAN
  BY DEF L!Init
<1>6. LoopbackType
  BY <1>1, <1>2, <1>3, <1>4, <1>5 DEF LoopbackType
<1>7. ChainInv
  BY DEF L!Init, ChainInv, L!ReadPc
<1>8. PacketInv
  BY DEF L!Init, PacketInv, L!ReadPc, L!PacketsInOrder
<1> QED BY <1>6, <1>7, <1>8 DEF LoopbackInv

\* Every step of LoopbackCapture keeps the other half.
LEMMA LoopbackKeeps ==
    ASSUME LoopbackInv, L!Next \/ UNCHANGED captureVars
    PROVE  LoopbackInv'
<1> USE BoundAssumption DEF LoopbackInv
<1>t. /\ streaming \in BOOLEAN /\ lent \in BOOLEAN /\ broken \in BOOLEAN
      /\ NumPackets \in Nat /\ recorded \in 0..NumPackets /\ dropped \in 0..recorded
      /\ packet \in 0..recorded
  BY DEF LoopbackType
\* opening: the packets are left alone
<1>1. CASE L!Open
  <2>1. /\ at \notin L!ReadPc \cup {"closing", "closed"} /\ at' \notin L!ReadPc /\ at # "open"
        /\ UNCHANGED <<streaming, recorded, dropped, lent, packet, returned, reported>>
        /\ at' \in L!OpenPc \cup {"format", "open", "closing"}
        /\ broken' \in BOOLEAN
    BY <1>1 DEF LoopbackType, L!Open, L!NewDeviceEnumerator, L!DefaultRenderDevice,
        L!ActivateAudioClient, L!GetCaptureClient, L!Opens, L!OpenFails, L!GetMixFormat,
        L!FreeFormat, L!OpenPc, L!FreeInitializeFormat, L!FreeParsedFormat, L!engineVars,
        L!readVars, L!ReadPc
  <2>2. PacketInv'
    BY <2>1 DEF PacketInv, L!ReadPc, L!PacketsInOrder
  <2>3. held' \subseteq All /\ ChainInv' /\ mixFormat' \in 0..1
    <3>1. CASE L!NewDeviceEnumerator \/ L!DefaultRenderDevice \/ L!ActivateAudioClient
      BY <3>1 DEF L!NewDeviceEnumerator, L!DefaultRenderDevice, L!ActivateAudioClient,
          L!Opens, L!readVars, L!ReadPc, ChainInv, All
    <3>2. CASE L!GetMixFormat \/ L!OpenFails
      BY <3>2 DEF LoopbackType, L!GetMixFormat, L!OpenFails, L!chainVars, L!readVars, L!ReadPc,
          ChainInv
    <3>3. CASE L!FreeParsedFormat \/ L!FreeInitializeFormat
      BY <3>3 DEF LoopbackType, L!FreeFormat, L!FreeParsedFormat, L!FreeInitializeFormat,
          L!ReadPc, ChainInv
    <3>4. CASE L!GetCaptureClient
      BY <3>4 DEF L!GetCaptureClient, L!Opens, L!readVars, L!ReadPc, ChainInv, All
    <3> QED BY <1>1, <3>1, <3>2, <3>3, <3>4 DEF L!Open
  <2>4. LoopbackType'
    BY <2>1, <2>3 DEF LoopbackType, L!ReadPc
  <2> QED BY <2>2, <2>3, <2>4
<1>2. CASE L!Start \/ L!Stop \/ L!Close \/ L!Record
  <2>1. /\ (at' = at \/ (at = "open" /\ at' = "closing"))
        /\ UNCHANGED <<held, mixFormat, dropped, lent, packet, broken, returned, reported>>
        /\ streaming' \in BOOLEAN /\ recorded' \in {recorded, recorded + 1} \cap (0..NumPackets)
    <3>1. CASE L!Start \/ L!Stop
      BY <3>1 DEF LoopbackType, L!Start, L!Stop, L!readVars, L!chainVars
    <3>2. CASE L!Close
      BY <3>2 DEF LoopbackType, L!Close, L!engineVars, L!readVars, L!chainVars
    <3>3. CASE L!Record
      BY <3>3 DEF LoopbackType, L!Record, L!readVars, L!chainVars
    <3> QED BY <1>2, <3>1, <3>2, <3>3
  <2>2. LoopbackType'
    BY <2>1 DEF LoopbackType
  <2>3. ChainInv'
    BY <2>1 DEF ChainInv, L!ReadPc
  <2>4. PacketInv'
    <3>1. L!PacketsInOrder'
      BY <2>1 DEF PacketInv, L!PacketsInOrder
    <3> QED BY <2>1, <3>1 DEF LoopbackType, PacketInv, L!ReadPc
  <2> QED BY <2>2, <2>3, <2>4
<1>3. CASE L!CloseNext
  <2>1. \E x \in held : /\ held' = held \ {x}
                        /\ x = "audio" => "capture" \notin held
                        /\ x = "device" => "audio" \notin held
                        /\ x = "enumerator" => "device" \notin held
    <3>1. PICK i \in 1..4 : /\ L!Objects[i] \in held /\ held' = held \ {L!Objects[i]}
                           /\ \A k \in (i + 1)..4 : L!Objects[k] \notin held
      BY <1>3, ObjectsAre DEF L!CloseNext
    <3>2. \A k \in 1..4 : k = i + 1 => L!Objects[k] \notin held
      BY <3>1
    <3>3. i = 1 \/ i = 2 \/ i = 3 \/ i = 4
      OBVIOUS
    <3> QED BY <3>1, <3>2, <3>3, ObjectsAre
  <2>2. /\ UNCHANGED <<at, mixFormat, streaming, recorded, dropped, lent, packet, broken,
                      returned, reported>>
        /\ at = "closing"
    BY <1>3 DEF L!CloseNext, L!engineVars, L!readVars
  <2>3. LoopbackType'
    BY <2>1, <2>2 DEF LoopbackType
  <2>4. ChainInv'
    BY <2>1, <2>2 DEF ChainInv, L!ReadPc
  <2>5. PacketInv'
    BY <2>2 DEF PacketInv, L!PacketsInOrder
  <2> QED BY <2>3, <2>4, <2>5
<1>4. CASE L!CloseEnds
  <2>1. /\ UNCHANGED <<held, mixFormat, recorded, dropped, packet, broken, returned, reported>>
        /\ at = "closing" /\ at' = "closed" /\ held = {} /\ streaming' = FALSE /\ lent' = FALSE
    BY <1>4 DEF L!CloseEnds, L!chainVars, L!readVars
  <2>2. LoopbackType'
    BY <2>1 DEF LoopbackType
  <2>3. ChainInv'
    BY <2>1 DEF ChainInv, L!ReadPc
  <2>4. PacketInv'
    BY <2>1 DEF PacketInv, L!ReadPc, L!PacketsInOrder
  <2> QED BY <2>2, <2>3, <2>4
\* reading
<1>5. CASE L!NextPacketSize \/ L!GetBuffer \/ L!CopyData \/ L!CopyFails
  <2>1. /\ at \in L!ReadPc \cup {"open"} /\ at' \in L!ReadPc
        /\ UNCHANGED <<held, mixFormat, streaming, recorded, dropped, returned, reported>>
        /\ lent' \in BOOLEAN /\ broken' \in BOOLEAN /\ packet' \in 0..recorded
        /\ broken' => at' = "releaseBuffer"
    <3>1. CASE L!NextPacketSize
      BY <3>1, <1>t DEF ChainInv, L!NextPacketSize, L!chainVars, L!engineVars, L!readVars,
          L!ReadPc
    <3>2. CASE L!GetBuffer
      BY <3>2, <1>t DEF ChainInv, L!GetBuffer, L!chainVars, L!readVars, L!ReadPc
    <3>3. CASE L!CopyData
      BY <3>3, <1>t DEF ChainInv, PacketInv, L!CopyData, L!chainVars, L!engineVars, L!ReadPc
    <3>4. CASE L!CopyFails
      BY <3>4, <1>t DEF ChainInv, L!CopyFails, L!chainVars, L!engineVars, L!ReadPc
    <3> QED BY <1>5, <3>1, <3>2, <3>3, <3>4
  <2>2. LoopbackType'
    BY <2>1 DEF LoopbackType
  <2>3. ChainInv'
    BY <2>1 DEF ChainInv, L!ReadPc
  <2>4. L!PacketsInOrder'
    BY <2>1 DEF PacketInv, L!PacketsInOrder
  <2>5. PacketInv'
    BY <1>5, <2>1, <2>4 DEF LoopbackType, ChainInv, PacketInv, L!NextPacketSize, L!GetBuffer,
        L!CopyData, L!CopyFails,
        L!chainVars, L!engineVars, L!readVars, L!ReadPc
  <2> QED BY <2>2, <2>3, <2>5
<1>6. CASE L!NextPacketSizeFails \/ L!GetBufferFails \/ L!ReleaseBufferFails
  <2>1. /\ at \in L!ReadPc \cup {"open"} /\ at' = "open"
        /\ UNCHANGED <<held, mixFormat, streaming, recorded, dropped, lent, returned>>
        /\ packet' \in {0, packet} /\ broken' = FALSE
        /\ reported' = reported \cup {<<dropped + 1, at>>}
    BY <1>6 DEF LoopbackType, ChainInv, L!NextPacketSizeFails, L!GetBufferFails,
        L!ReleaseBufferFails, L!ReadError, L!chainVars, L!engineVars, L!ReadPc
  <2>2. dropped + 1 \in 1..(NumPackets + 1) /\ packet' \in 0..recorded
    BY <2>1 DEF LoopbackType
  <2>3. reported' \subseteq (1..(NumPackets + 1)) \X (L!ReadPc \cup {"open"})
    BY <2>1, <2>2 DEF LoopbackType
  <2>4. LoopbackType'
    BY <2>1, <2>2, <2>3 DEF LoopbackType
  <2>5. ChainInv'
    BY <2>1 DEF ChainInv, L!ReadPc
  <2>6. L!PacketsInOrder'
    BY <2>1 DEF PacketInv, L!PacketsInOrder
  <2>7. PacketInv'
    BY <1>6, <2>1, <2>6 DEF PacketInv, L!NextPacketSizeFails, L!GetBufferFails,
        L!ReleaseBufferFails, L!ReadPc
  <2> QED BY <2>4, <2>5, <2>7
<1>7. CASE L!ReleaseBuffer
  <2>1. /\ at = "releaseBuffer" /\ at' = "open" /\ dropped < recorded /\ dropped' = dropped + 1
        /\ UNCHANGED <<held, mixFormat, streaming, recorded>>
        /\ lent' = FALSE /\ packet' = 0 /\ broken' = FALSE
    BY <1>7 DEF L!ReleaseBuffer, L!ReadError, L!chainVars, PacketInv, L!ReadPc
  <2>2. dropped' \in 0..recorded /\ dropped' \in 1..(NumPackets + 1) /\ dropped' \in 1..NumPackets
    BY <2>1 DEF LoopbackType
  <2>3. \/ reported' = reported \cup {<<dropped', "releaseBuffer">>} /\ returned' = returned
        \/ reported' = reported /\ returned' = Append(returned, dropped')
    BY <1>7, <2>1 DEF L!ReleaseBuffer, L!ReadError, PacketInv, LoopbackType
  <2>4. reported' \subseteq (1..(NumPackets + 1)) \X (L!ReadPc \cup {"open"})
    BY <2>2, <2>3 DEF LoopbackType, L!ReadPc
  <2>s. returned' \in Seq(1..NumPackets)
    <3>1. returned \in Seq(1..NumPackets) /\ dropped' \in 1..NumPackets
      BY <2>2 DEF LoopbackType
    <3>2. Append(returned, dropped') \in Seq(1..NumPackets)
      BY <3>1
    <3> QED BY <2>3, <3>1, <3>2
  <2>5. LoopbackType'
    <3>1. packet' \in 0..recorded' /\ dropped' \in 0..recorded' /\ recorded' \in 0..NumPackets
      BY <2>1, <2>2, <1>t
    <3> QED BY <2>1, <2>s, <2>4, <3>1 DEF LoopbackType
  <2>6. ChainInv'
    BY <2>1 DEF ChainInv, L!ReadPc
  <2>7. \A p \in 1..dropped' : p \in 1..dropped \/ p = dropped'
    BY <2>1, <2>2 DEF LoopbackType
  <2>8. L!PacketsInOrder'
    <3>1. CASE reported' = reported \cup {<<dropped', "releaseBuffer">>} /\ returned' = returned
      BY <3>1, <2>1, <2>2, <2>7 DEF PacketInv, L!PacketsInOrder, LoopbackType
    <3>2. CASE reported' = reported /\ returned' = Append(returned, dropped')
      <4> DEFINE n == Len(returned)
      <4>1. /\ n \in Nat /\ DOMAIN returned = 1..n /\ Len(returned') = n + 1
            /\ DOMAIN returned' = 1..(n + 1) /\ returned'[n + 1] = dropped'
            /\ \A i \in 1..n : returned'[i] = returned[i] /\ returned[i] \in Nat
        BY <3>2, <2>2 DEF LoopbackType
      <4>2. /\ \A i \in 1..(n - 1) : returned[i] < returned[i + 1]
            /\ \A i \in 1..n : returned[i] <= dropped
            /\ dropped \in Nat
        <5>1. L!PacketsInOrder
          BY DEF PacketInv
        <5>2. \A i \in 1..n : returned[i] <= dropped
          BY <4>1, <5>1 DEF L!PacketsInOrder
        <5>3. \A i \in 1..(n - 1) : returned[i] < returned[i + 1]
          BY <5>1 DEF L!PacketsInOrder
        <5> QED BY <1>t, <5>2, <5>3
      <4> HIDE DEF n
      <4>3. ASSUME NEW i \in 1..n PROVE returned'[i] < returned'[i + 1]
        <5>1. CASE i = n
          BY <5>1, <4>1, <4>2, <2>1
        <5>2. CASE i # n
          <6>1. i \in 1..(n - 1) /\ i + 1 \in 1..n
            BY <5>2, <4>1
          <6> QED BY <6>1, <4>1, <4>2
        <5> QED BY <5>1, <5>2
      <4>4. ASSUME NEW p \in 1..dropped'
            PROVE  \/ \E i \in DOMAIN returned' : returned'[i] = p
                   \/ <<p, "releaseBuffer">> \in reported'
        <5>1. CASE p = dropped'
          BY <5>1, <4>1
        <5>2. CASE p \in 1..dropped
          <6>1. (\E i \in 1..n : returned[i] = p) \/ <<p, "releaseBuffer">> \in reported
            BY <5>2, <4>1 DEF PacketInv, L!PacketsInOrder
          <6>2. 1..n \subseteq 1..(n + 1)
            BY <4>1
          <6> QED BY <6>1, <6>2, <4>1, <3>2
        <5> QED BY <2>7, <5>1, <5>2
      <4>5. ASSUME NEW i \in 1..(n + 1) PROVE returned'[i] <= dropped'
        <5>1. i = n + 1 \/ i \in 1..n
          BY <4>1
        <5> QED BY <5>1, <4>1, <4>2, <2>1
      <4> QED BY <4>1, <4>3, <4>4, <4>5 DEF L!PacketsInOrder
    <3> QED BY <2>3, <3>1, <3>2
  <2>9. PacketInv'
    BY <2>1, <2>8 DEF PacketInv, L!ReadPc
  <2> QED BY <2>5, <2>6, <2>9
<1>8. CASE UNCHANGED captureVars
  BY <1>8 DEF captureVars, LoopbackType, ChainInv, PacketInv, L!PacketsInOrder
<1> QED BY <1>1, <1>2, <1>3, <1>4, <1>5, <1>6, <1>7, <1>8 DEF L!Next, L!ReadPacket

-----------------------------------------------------------------------------
(* The two together. *)

\* A step of the stack is a step of Capturer or leaves it alone.
LEMMA StepOfCapturer == ASSUME [StackNext]_allVars PROVE [Next]_vars
<1>1. CASE StackWorker
  <2>1. CASE Opening \/ Reading \/ Closing
    BY <2>1 DEF Opening, Reading, Closing, CaptureAlone, CapturerAlone, Next, Worker
  <2>2. CASE Starting \/ Stopping \/ CloseCommand
    BY <2>2 DEF Starting, Stopping, CloseCommand, CapturerAlone, Next, Worker
  <2> QED BY <1>1, <2>1, <2>2 DEF StackWorker, CapturerAlone, Next, Worker
<1> QED BY <1>1 DEF StackNext, CapturerAlone, CaptureAlone, Next, allVars

\* A step of the stack is a step of LoopbackCapture or leaves it alone.
LEMMA StepOfCapture == ASSUME [StackNext]_allVars PROVE L!Next \/ UNCHANGED captureVars
<1>1. CASE StackWorker
  <2>1. CASE Opening \/ Closing
    BY <2>1 DEF Opening, Closing, CaptureAlone, CapturerAlone, L!Next
  <2>2. CASE Reading
    BY <2>2 DEF Reading, CaptureAlone, CapturerAlone, L!Next, L!ReadPacket
  <2>3. CASE Starting \/ Stopping \/ CloseCommand
    BY <2>3 DEF Starting, Stopping, CloseCommand, CapturerAlone, L!Next
  <2> QED BY <1>1, <2>1, <2>2, <2>3 DEF StackWorker, CapturerAlone
<1> QED BY <1>1 DEF StackNext, CapturerAlone, CaptureAlone, L!Next, allVars

\* The two agree initially.
LEMMA CoupledInit == StackInit => Coupled
BY DEF StackInit, Init, L!Init, Coupled, Looping, L!ReadPc

\* The two still agree after every step of the stack.
LEMMA CoupledKeeps == ASSUME IInv, [StackNext]_allVars PROVE Coupled'
<1> USE DEF Looping, L!ReadPc
<1>t. /\ streaming \in BOOLEAN /\ running \in BOOLEAN /\ broken \in BOOLEAN
      /\ running => device = "started" /\ worker \in Looping
      /\ worker \in {"reading", "stopping"} => running
      /\ worker \in {"loop", "reading", "stopping", "command"} => device \in {"stopped",
          "started"}
      /\ Coupled
  BY DEF IInv, CapturerInv, WorkerInv, LoopbackInv, LoopbackType, TypeOK
<1>1. CASE Opening
  <2>1. CASE CaptureAlone(L!Open \/ L!CloseNext \/ L!CloseEnds)
    <3>1. worker = "open" /\ worker' = worker /\ device' = device /\ new' = new
      BY <1>1, <2>1 DEF Opening, CaptureAlone, vars, deviceVars
    <3>2. at' \notin L!ReadPc /\ streaming' = FALSE
      BY <2>1, <3>1, <1>t DEF CaptureAlone, Coupled, L!Open, L!CloseNext, L!CloseEnds,
         L!NewDeviceEnumerator, L!DefaultRenderDevice, L!ActivateAudioClient, L!GetCaptureClient,
         L!Opens, L!OpenFails, L!GetMixFormat, L!FreeFormat, L!FreeInitializeFormat,
         L!FreeParsedFormat, L!engineVars
    <3> QED BY <3>1, <3>2 DEF Coupled
  <2>2. CASE at = "open" /\ CapturerAlone(OpenLoopback)
    BY <2>2, <1>t DEF CapturerAlone, captureVars, OpenLoopback, Coupled
  <2>3. CASE at = "closed" /\ CapturerAlone(OpenLoopbackFails)
    BY <2>3, <1>t DEF CapturerAlone, captureVars, OpenLoopbackFails, deviceVars, Coupled
  <2> QED BY <1>1, <2>1, <2>2, <2>3 DEF Opening
<1>2. CASE Starting
  <2>1. CASE HandleStart("nil") /\ L!Start
    BY <2>1, <1>t DEF HandleStart, DeviceStart, Holds, L!Start, Coupled
  <2>2. CASE CapturerAlone(HandleStart("failed"))
    BY <2>2, <1>t DEF CapturerAlone, captureVars, HandleStart, DeviceStart, Holds, Coupled
  <2> QED BY <1>2, <2>1, <2>2 DEF Starting
<1>3. CASE Stopping
  <2>1. CASE (HandleStop("nil") \/ StopAfterError("nil")) /\ L!Stop
    BY <2>1, <1>t DEF HandleStop, StopAfterError, DeviceStop, Holds, L!Stop, Coupled
  <2>2. CASE CapturerAlone(HandleStop("failed") \/ StopAfterError("failed"))
    BY <2>2, <1>t DEF CapturerAlone, captureVars, HandleStop, StopAfterError, DeviceStop, Holds,
        Coupled
  <2> QED BY <1>3, <2>1, <2>2 DEF Stopping
<1>4. CASE CloseCommand
  BY <1>4, <1>t DEF CloseCommand, CapturerAlone, captureVars, HandleClose, DeviceStop, Holds,
      L!Stop, L!chainVars, L!readVars, Coupled
<1>5. CASE Reading
  <2>1. CASE CaptureAlone(L!NextPacketSize \/ L!GetBuffer \/ L!CopyData \/ L!CopyFails)
    BY <1>5, <2>1, <1>t DEF Reading, CaptureAlone, vars, deviceVars, L!NextPacketSize,
        L!GetBuffer, L!CopyData, L!CopyFails, L!engineVars, Coupled
  <2>2. CASE at = "open" /\ recorded = dropped /\ CapturerAlone(ReadNothing)
    BY <2>2, <1>t DEF CapturerAlone, captureVars, ReadNothing, deviceVars, Coupled
  <2>3. CASE L!ReleaseBuffer /\ (ReadPacket \/ ReadFails)
    BY <2>3, <1>t DEF L!ReleaseBuffer, L!ReadError, ReadPacket, ReadFails, deviceVars, Coupled
  <2>4. CASE (L!NextPacketSizeFails \/ L!GetBufferFails \/ L!ReleaseBufferFails) /\ ReadFails
    BY <2>4, <1>t DEF L!NextPacketSizeFails, L!GetBufferFails, L!ReleaseBufferFails, L!ReadError,
        ReadFails, deviceVars, L!engineVars, Coupled
  <2> QED BY <1>5, <2>1, <2>2, <2>3, <2>4 DEF Reading
<1>6. CASE Closing
  <2>1. CASE CaptureAlone(L!Close \/ L!CloseNext \/ L!CloseEnds)
    BY <1>6, <2>1, <1>t DEF Closing, CaptureAlone, vars, deviceVars, L!Close, L!CloseNext,
        L!CloseEnds, Coupled
  <2>2. CASE at = "closed" /\ CapturerAlone(CloseLoopback)
    BY <2>2, <1>t DEF CapturerAlone, captureVars, CloseLoopback, Coupled
  <2> QED BY <1>6, <2>1, <2>2 DEF Closing
<1>7. CASE CapturerAlone(ComInit \/ ComInitFails \/ Poll \/ HandleStartAgain \/ HandleStopIdle
                         \/ ComUninit \/ CloseErrors \/ CloseFrames \/ CloseDone)
  BY <1>7, <1>t DEF CapturerAlone, captureVars, ComInit, ComInitFails, Poll, HandleStartAgain,
      HandleStopIdle, Holds, ComUninit, CloseErrors, CloseFrames, CloseDone, deviceVars, Coupled
<1>8. ASSUME NEW x \in Senders, CapturerAlone(TakeCommand(x)) PROVE Coupled'
  BY <1>8, <1>t DEF CapturerAlone, captureVars, TakeCommand, deviceVars, Coupled
<1>9. CASE UNCHANGED <<worker, new, device, at, streaming>>
  BY <1>9, <1>t DEF Coupled
<1>10. CASE CaptureAlone(L!Record)
  BY <1>10, <1>t DEF CaptureAlone, vars, deviceVars, L!Record, Coupled
<1>11. CASE CapturerAlone(\/ \E x \in Calls : CallCommand(x)
                          \/ \E c \in Closers : \/ CallClose(c) \/ CallCloseAgain(c)
                                                \/ CloseReturns(c)
                          \/ \E x \in Senders : Send(x)
                          \/ Consume)
  BY <1>11, <1>9 DEF CapturerAlone, captureVars, CallCommand, CallClose, CallCloseAgain,
      CloseReturns, Send, CheckDone, OfferCommand, SendMeetsDone, GetAnswer, Consume, deviceVars
<1>12. CASE UNCHANGED allVars
  BY <1>12, <1>9 DEF allVars, vars, deviceVars, captureVars
<1>13. CASE CapturerAlone(\E x \in Senders : TakeCommand(x))
  BY <1>13, <1>8 DEF CapturerAlone
<1> QED
  BY <1>1, <1>2, <1>3, <1>4, <1>5, <1>6, <1>7, <1>10, <1>11, <1>12, <1>13
  DEF StackNext, StackWorker, CapturerAlone

-----------------------------------------------------------------------------
(* IInv is inductive: each half is kept by its own steps, which every step   *)
(* of the stack consists of, and Coupled by the steps of the stack.          *)
LEMMA InvInit == StackInit => IInv
BY CapturerInit, LoopbackInit, CoupledInit DEF StackInit, IInv

\* The step of the induction.
LEMMA InvKeeps == ASSUME IInv, [StackNext]_allVars PROVE IInv'
BY StepOfCapturer, StepOfCapture, CapturerKeeps, LoopbackKeeps, CoupledKeeps DEF IInv

\* The induction.
LEMMA InvHolds == StackSpec => []IInv
<1>1. IInv /\ [StackNext]_allVars => IInv'
  BY InvKeeps
<1> QED BY InvInit, <1>1, PTL DEF StackSpec

-----------------------------------------------------------------------------
(* capture.go:188-247, loopback.go:60-81.  Whatever Start, Stop and a call   *)
(* of ReadPacket returned, commandLoop reads packets of a complete chain     *)
(* with a started stream, COM is initialized on its thread, and it handles   *)
(* no command while a packet is read.                                        *)
THEOREM Reads == StackSpec => []ReadsOpenStream
<1>1. ASSUME IInv PROVE ReadsOpenStream
  <2>1. ReadsStartedDevice
    BY <1>1 DEF IInv, CapturerInv, WorkerInv, ReadsStartedDevice
  <2>2. worker \in {"loop", "reading", "stopping", "command"} => at \in L!ReadPc \cup {"open"}
    BY <1>1 DEF IInv, Coupled
  <2>3. at \in L!ReadPc \cup {"open"} => held = All /\ mixFormat = 0
    BY <1>1 DEF IInv, LoopbackInv, ChainInv, L!ReadPc
  <2>4. worker \in {"loop", "reading", "stopping", "command"} =>
            com /\ (streaming <=> device = "started")
    BY <1>1 DEF IInv, CapturerInv, WorkerInv, Coupled, Looping
  <2>5. at \in L!ReadPc => worker = "reading"
    BY <1>1 DEF IInv, CapturerInv, TypeOK, WorkerPc, Coupled, L!ReadPc
  <2> QED BY <2>1, <2>2, <2>3, <2>4, <2>5, ObjectsAre DEF ReadsOpenStream
<1> QED BY InvHolds, <1>1, PTL

(* capture.go:133-147, 176-198.  When Close returns, the worker has exited,  *)
(* the objects are released, COM is left, both channels are closed and no    *)
(* call waits for an answer.                                                 *)
THEOREM Releases == StackSpec => []CloseReleases
<1>1. ASSUME CapturerInv PROVE CloseReleases
  <2>1. ASSUME NEW c \in Closers, call[c] = "returned"
        PROVE  /\ worker = "exited" /\ errorsClosed /\ framesClosed
               /\ device = "released" /\ ~com /\ ~running
               /\ \A x \in Senders : call[x] = "waiting" => answer[x] # "none"
    <3>1. worker = "exited" /\ new = "ok"
      BY <1>1, <2>1 DEF CapturerInv, WorkerInv, CallInv, Senders
    <3>2. errorsClosed /\ framesClosed /\ ~com /\ ~running /\ device = "released"
      BY <1>1, <3>1 DEF CapturerInv, WorkerInv, TypeOK, Looping
    <3>3. \A x \in Senders : x # current
      BY <1>1, <3>1, SendersAssumption DEF CapturerInv, CallInv, Senders
    <3> QED BY <1>1, <3>1, <3>2, <3>3 DEF CapturerInv, CallInv
  <2> QED BY <1>1, <2>1 DEF CapturerInv, CloseReleases
<1>2. IInv => CapturerInv
  BY DEF IInv
<1> QED BY InvHolds, <1>1, <1>2, PTL

(* loopback.go:18-54, 105-125.  No object, memory or buffer is left behind,  *)
(* whichever call fails and whichever commands were handled.                 *)
THEOREM LeavesNothing == StackSpec => []NothingLeft
<1>1. ASSUME IInv PROVE NothingLeft
  <2>1. L!TypeOK
    BY <1>1, ObjectsAre DEF IInv, LoopbackInv, LoopbackType, L!TypeOK
  <2>2. at = "closed" => held = {} /\ mixFormat = 0
    BY <1>1 DEF IInv, LoopbackInv, ChainInv
  <2>3. ASSUME NEW i \in 2..4, L!Objects[i] \in held PROVE L!Objects[i - 1] \in held
    <3>1. i = 2 \/ i = 3 \/ i = 4
      OBVIOUS
    <3> QED BY <3>1, <2>3, <1>1, ObjectsAre DEF IInv, LoopbackInv, ChainInv
  <2>4. at = "open" /\ lent => <<dropped + 1, "releaseBuffer">> \in reported
    BY <1>1 DEF IInv, LoopbackInv, PacketInv
  <2> QED BY <2>1, <2>2, <2>3, <2>4, ObjectsAre DEF NothingLeft, L!NothingLeft
<1> QED BY InvHolds, <1>1, PTL

(* capture_client.go:60-116.  The packets returned are those recorded, each  *)
(* once and in order, over any number of stops and starts; one that is       *)
(* missing was reported.                                                     *)
THEOREM InOrder == StackSpec => []PacketsInOrder
<1>1. IInv => PacketsInOrder
  BY DEF IInv, LoopbackInv, PacketInv, PacketsInOrder
<1> QED BY InvHolds, <1>1, PTL

(* capture.go:236-239.  Capture that ends without a command leaves an error  *)
(* in c.errors, which is not closed yet.                                     *)
THEOREM EndsNoticed == StackSpec => CaptureEndsNoticed
<1>1. ASSUME IInv, [StackNext]_allVars
      PROVE  [running /\ ~running' /\ worker # "command" => errors' > 0 /\ ~errorsClosed']_vars
  <2>1. ASSUME Next, running, ~running', worker # "command" PROVE errors' > 0 /\ ~errorsClosed'
    <3>1. PICK a \in {"nil", "failed"} : StopAfterError(a)
      BY <2>1 DEF Next, Worker, ComInit, ComInitFails, OpenLoopback, OpenLoopbackFails,
          TakeCommand, HandleStart, HandleStop, HandleClose, HandleStartAgain, HandleStopIdle,
          Holds, Poll, ReadPacket, ReadNothing, ReadFails, CloseLoopback, ComUninit, CloseErrors,
          CloseFrames, CloseDone, CallCommand, CallClose, CallCloseAgain, CloseReturns, Send,
          CheckDone, OfferCommand, SendMeetsDone, GetAnswer, Consume
    <3>2. errors \in 0..ErrorCap /\ ErrorCap \in Nat \ {0} /\ ~errorsClosed
      BY <1>1, <3>1, CapAssumption DEF IInv, CapturerInv, TypeOK, WorkerInv, StopAfterError
    <3> QED BY <3>1, <3>2 DEF StopAfterError, SendError
  <2> QED BY <1>1, <2>1, StepOfCapturer
<1> QED BY InvHolds, <1>1, PTL DEF StackSpec, CaptureEndsNoticed

(* The stack does what Capturer says of the capturer over any device, and    *)
(* what LoopbackCapture says of the chain under any order of calls.          *)
THEOREM StackImplements == StackSpec => Init /\ [][Next]_vars /\ L!Spec
<1>1. [StackNext]_allVars => [Next]_vars
  BY StepOfCapturer
<1>2. [StackNext]_allVars => [L!Next]_(L!vars)
  BY StepOfCapture DEF L!vars, L!chainVars, L!engineVars, L!readVars, captureVars
<1>3. StackInit => Init /\ L!Init
  BY DEF StackInit
<1> QED BY <1>1, <1>2, <1>3, PTL DEF StackSpec, L!Spec

-----------------------------------------------------------------------------
(* Sample formats. *)

\* The fields of a raw format.
LEMMA RawFields ==
    ASSUME NEW raw \in Raw
    PROVE  /\ raw.tag \in Tags /\ raw.sub \in SubFormats
           /\ raw.bits \in Nat /\ raw.valid \in Nat /\ ValidBits(raw) \in Nat
BY BitsAssumption DEF Raw, ValidBits

\* A recognized width is the width itself.
LEMMA IntSampleWidth ==
    ASSUME NEW bits \in Nat
    PROVE  /\ IntSample(bits) = "Int16" <=> bits = 16
           /\ IntSample(bits) = "Int24" <=> bits = 24
           /\ IntSample(bits) = "Int32" <=> bits = 32
           /\ IntSample(bits) # "Float32"
           /\ IntSample(bits) \in SampleFormats
BY DEF IntSample, SampleFormats

LEMMA FloatSampleWidth ==
    ASSUME NEW bits \in Nat
    PROVE  /\ FloatSample(bits) = "Float32" <=> bits = 32
           /\ FloatSample(bits) \in {"Float32", "Unknown"}
BY DEF FloatSample

(* pcm.go:41-80.  For every pair and triple of bytes the sample is what the  *)
(* bytes mean, and in its range.                                             *)
LEMMA SamplesAreInRange ==
    ASSUME NEW sample \in {"Int16", "Int24"}, NEW bytes \in Samples(sample)
    PROVE  /\ SampleValue(sample, bytes) = TwosComplement(bytes)
           /\ SampleValue(sample, bytes) \in -HalfRange(sample)..(HalfRange(sample) - 1)
<1>1. ASSUME NEW b \in Samples("Int16")
      PROVE  /\ SampleValue("Int16", b) = TwosComplement(b)
             /\ SampleValue("Int16", b) \in -HalfRange("Int16")..(HalfRange("Int16") - 1)
  <2>1. b \in [1..2 -> Byte] /\ Len(b) = 2
    BY DEF Samples
  <2>2. b[1] \in Byte /\ b[2] \in Byte
    BY <2>1
  <2>3. PICK low \in 0..255, high \in 0..255 : low = b[1] /\ high = b[2]
    BY <2>2, ByteAssumption
  <2>4. PICK u \in Int : u = low + 256 * high
    OBVIOUS
  <2>5. TwosComplement(b) = low + 256 * (IF high >= 128 THEN high - 256 ELSE high)
    BY <2>1, <2>3 DEF TwosComplement
  <2>6. SampleValue("Int16", b) = Signed16(u)
    BY <2>3, <2>4, SMT DEF SampleValue, Unsigned16
  <2>7. /\ Signed16(u) = low + 256 * (IF high >= 128 THEN high - 256 ELSE high)
        /\ Signed16(u) \in Int /\ -32768 <= Signed16(u) /\ Signed16(u) < 32768
    <3>1. CASE high >= 128
      BY <2>4, <3>1, SMT DEF Signed16
    <3>2. CASE ~(high >= 128)
      BY <2>4, <3>2, SMT DEF Signed16
    <3> QED BY <3>1, <3>2, SMT
  <2>8. HalfRange("Int16") = 32768
    BY SMT DEF HalfRange
  <2>9. SampleValue("Int16", b) = TwosComplement(b)
    BY <2>5, <2>6, <2>7, SMT
  <2>10. /\ HalfRange("Int16") \in Int /\ Signed16(u) \in Int
         /\ -HalfRange("Int16") <= Signed16(u) /\ Signed16(u) < HalfRange("Int16")
    BY <2>7, <2>8, SMT
  <2>11. Signed16(u) \in -HalfRange("Int16")..(HalfRange("Int16") - 1)
    BY <2>10
  <2> QED BY <2>6, <2>9, <2>11
<1>2. ASSUME NEW b \in Samples("Int24")
      PROVE  /\ SampleValue("Int24", b) = TwosComplement(b)
             /\ SampleValue("Int24", b) \in -HalfRange("Int24")..(HalfRange("Int24") - 1)
  <2>1. b \in [1..3 -> Byte] /\ Len(b) = 3
    BY DEF Samples
  <2>2. b[1] \in Byte /\ b[2] \in Byte /\ b[3] \in Byte
    BY <2>1
  <2>3. PICK low \in 0..255, mid \in 0..255, high \in 0..255 :
             low = b[1] /\ mid = b[2] /\ high = b[3]
    BY <2>2, ByteAssumption
  <2>4. PICK u \in Int : u = low + 256 * mid + 65536 * high
    BY SMT
  <2>5. TwosComplement(b) = low + 256 * mid
                              + 65536 * (IF high >= 128 THEN high - 256 ELSE high)
    BY <2>1, <2>3, SMT DEF TwosComplement
  <2>6. SampleValue("Int24", b) = Signed24(u)
    BY <2>3, <2>4, SMT DEF SampleValue, Unsigned24
  <2>7. /\ Signed24(u) = low + 256 * mid + 65536 * (IF high >= 128 THEN high - 256 ELSE high)
        /\ Signed24(u) \in Int /\ -8388608 <= Signed24(u) /\ Signed24(u) < 8388608
    <3>1. CASE high >= 128
      BY <2>4, <3>1, SMT DEF Signed24
    <3>2. CASE ~(high >= 128)
      BY <2>4, <3>2, SMT DEF Signed24
    <3> QED BY <3>1, <3>2, SMT
  <2>8. HalfRange("Int24") = 8388608
    BY SMT DEF HalfRange
  <2>9. SampleValue("Int24", b) = TwosComplement(b)
    BY <2>5, <2>6, <2>7, SMT
  <2>10. /\ HalfRange("Int24") \in Int /\ Signed24(u) \in Int
         /\ -HalfRange("Int24") <= Signed24(u) /\ Signed24(u) < HalfRange("Int24")
    BY <2>7, <2>8, SMT
  <2>11. Signed24(u) \in -HalfRange("Int24")..(HalfRange("Int24") - 1)
    BY <2>10
  <2> QED BY <2>6, <2>9, <2>11
<1> QED BY <1>1, <1>2

(* format.go:24-103, pcm.go:10-23.  For every set of bit depths, the formats *)
(* that ConvertToFloat32 accepts are those it converts rightly.              *)
LEMMA FormatsAreTold ==
    ASSUME NEW raw \in Raw, ~FallsBack(raw)
    PROVE  /\ CanConvert(Parse(raw)) => Is(raw, Parse(raw).sample)
           /\ (\E sample \in SampleFormats : Is(raw, sample)) => CanConvert(Parse(raw))
<1>1. Parse(raw).sample = SampleOf(raw) /\ Parse(raw).bits = raw.bits
  BY DEF Parse
<1> USE RawFields, IntSampleWidth, FloatSampleWidth
<1>2. CASE raw.tag = "pcm"
  <2>1. SampleOf(raw) = IntSample(raw.bits)
    BY <1>2 DEF SampleOf, SampleOfTag, FallsBack
  <2>2. IsInt(raw) /\ ~IsFloat(raw) /\ Width(raw) = raw.bits
    BY <1>2 DEF IsInt, IsFloat, Width
  <2> QED BY <1>1, <2>1, <2>2 DEF CanConvert, Is, SampleFormats
<1>3. CASE raw.tag = "float"
  <2>1. SampleOf(raw) = FloatSample(raw.bits)
    BY <1>3 DEF SampleOf, SampleOfTag, FallsBack
  <2>2. ~IsInt(raw) /\ IsFloat(raw)
    BY <1>3 DEF IsInt, IsFloat
  <2> QED BY <1>1, <2>1, <2>2 DEF CanConvert, Is, SampleFormats
<1>4. CASE raw.tag = "other"
  <2>1. SampleOf(raw) = "Unknown" /\ ~IsInt(raw) /\ ~IsFloat(raw)
    BY <1>4 DEF SampleOf, SampleOfTag, FallsBack, IsInt, IsFloat
  <2> QED BY <1>1, <2>1 DEF CanConvert, Is, SampleFormats
<1>5. CASE raw.tag = "extensible"
  <2>1. SampleOf(raw) = SampleOfSub(raw)
    BY <1>5 DEF SampleOf
  <2>2. IsInt(raw) <=> raw.sub = "pcm"
    BY <1>5 DEF IsInt
  <2>3. IsFloat(raw) <=> raw.sub = "float"
    BY <1>5 DEF IsFloat
  <2>4. Width(raw) = IF ValidBits(raw) # raw.bits THEN 0 ELSE raw.bits
    BY <1>5 DEF Width
  <2>5. CASE raw.sub = "pcm"
    <3>1. SampleOf(raw) = IntSample(ValidBits(raw))
      BY <2>1, <2>5 DEF SampleOfSub, ValidBits
    <3> QED BY <1>1, <2>2, <2>3, <2>4, <2>5, <3>1 DEF CanConvert, Is, SampleFormats
  <2>6. CASE raw.sub = "float"
    <3>1. SampleOf(raw) = FloatSample(raw.bits)
      BY <2>1, <2>6 DEF SampleOfSub
    <3> QED BY <1>1, <2>2, <2>3, <2>6, <3>1 DEF CanConvert, Is, SampleFormats
  <2>7. CASE raw.sub = "other"
    <3>1. SampleOf(raw) = "Unknown"
      BY <2>1, <2>7 DEF SampleOfSub
    <3> QED BY <1>1, <2>2, <2>3, <2>7, <3>1 DEF CanConvert, Is, SampleFormats
  <2> QED BY <2>5, <2>6, <2>7 DEF SubFormats
<1> QED BY <1>2, <1>3, <1>4, <1>5 DEF Tags

-----------------------------------------------------------------------------
(* Times. *)

\* The integers and their bounds.
LEMMA Int64Bounds == /\ MaxInt \in Nat /\ MinInt \in Int /\ MinInt < 0
                     /\ Int64 \subseteq Int /\ 0 \in Int64
BY MaxIntAssumption DEF MinInt, Int64

\* Division by 100 truncates toward zero.
LEMMA Quotient ==
    ASSUME NEW n \in Int
    PROVE  /\ Quo(n, 100) \in Int
           /\ n >= 0 => Quo(n, 100) >= 0 /\ Quo(n, 100) * 100 \in (n - 99)..n
           /\ n < 0 => Quo(n, 100) <= 0 /\ Quo(n, 100) * 100 \in n..(n + 99)
BY DEF Quo

\* Nothing is cut off a multiple.
LEMMA QuotientOfMultiple == ASSUME NEW k \in Int PROVE Quo(k * 100, 100) = k
BY DEF Quo

\* Division keeps the order.
LEMMA QuotientMonotone == ASSUME NEW n \in Int PROVE Quo(n, 100) <= Quo(n + 1, 100)
BY DEF Quo

\* A representable number of ticks does not wrap around.
LEMMA NoWrap == ASSUME NEW k \in Representable PROVE k \in Int /\ TicksToDuration(k) = k * 100
<1>1. /\ Quo(MinInt, 100) \in Int /\ Quo(MaxInt, 100) \in Int
      /\ MinInt <= Quo(MinInt, 100) * 100
      /\ Quo(MaxInt, 100) * 100 <= MaxInt
  BY Quotient, Int64Bounds
<1>2. k \in Int /\ Quo(MinInt, 100) <= k /\ k <= Quo(MaxInt, 100)
  BY <1>1 DEF Representable
<1>3. k * 100 \in Int64
  BY <1>1, <1>2, Int64Bounds DEF Int64
<1> QED BY <1>2, <1>3 DEF TicksToDuration, Wrap

\* A tick count that came of a duration fits.
LEMMA QuotientRepresentable == ASSUME NEW d \in Int64 PROVE Quo(d, 100) \in Representable
<1>1. d \in Int /\ MinInt <= d /\ d <= MaxInt /\ MinInt \in Int /\ MaxInt \in Int
  BY Int64Bounds DEF Int64
<1>2. /\ Quo(d, 100) \in Int /\ Quo(MinInt, 100) \in Int /\ Quo(MaxInt, 100) \in Int
      /\ Quo(MinInt, 100) <= Quo(d, 100)
      /\ Quo(d, 100) <= Quo(MaxInt, 100)
  BY <1>1 DEF Quo
<1> QED BY <1>2 DEF Representable

(* types.go:145-147.  Whatever the width of the integers, a representable    *)
(* time survives the way there and back, and times keep their order.         *)
LEMMA TicksAreKept ==
    ASSUME NEW ticks \in Representable
    PROVE  /\ DurationToTicks(TicksToDuration(ticks)) = ticks
           /\ ticks + 1 \in Representable => TicksToDuration(ticks) < TicksToDuration(ticks + 1)
<1>1. DurationToTicks(TicksToDuration(ticks)) = ticks
  BY NoWrap, QuotientOfMultiple DEF DurationToTicks
<1>2. ASSUME ticks + 1 \in Representable
      PROVE  TicksToDuration(ticks) < TicksToDuration(ticks + 1)
  BY <1>2, NoWrap
<1> QED BY <1>1, <1>2

(* types.go:150-152.  A duration loses less than a tick, and durations keep  *)
(* their order.                                                              *)
LEMMA DurationsAreKept ==
    ASSUME NEW d \in Int64
    PROVE  /\ LET back == TicksToDuration(DurationToTicks(d))
              IN  IF d >= 0 THEN back \in 0..d /\ d - back < 100
                            ELSE back \in d..0 /\ back - d < 100
           /\ DurationToTicks(d) <= DurationToTicks(d + 1)
<1>1. d \in Int
  BY Int64Bounds
<1>2. TicksToDuration(DurationToTicks(d)) = Quo(d, 100) * 100
  BY QuotientRepresentable, NoWrap DEF DurationToTicks
<1>3. DurationToTicks(d) <= DurationToTicks(d + 1)
  BY <1>1, QuotientMonotone DEF DurationToTicks
<1> QED BY <1>1, <1>2, <1>3, Quotient

(* capture.go:271-276.  A buffer is never longer than it was asked to be, or *)
(* negative.                                                                 *)
LEMMA LengthIsKept ==
    ASSUME NEW d \in Int64
    PROVE  /\ ReferenceTime(d) >= 0
           /\ d > 0 => ReferenceTime(d) * 100 \in (d - 99)..d
BY Quotient, Int64Bounds DEF ReferenceTime

-----------------------------------------------------------------------------
(* What is made of a value. *)

\* what is made is made of what was given, by the function it is for
MadeInv == /\ Made("parse") => made = Parse(given.raw)
           /\ Made("convert") => made = SampleValue(given.sample, given.bytes)
           /\ Made("clamp") => made = ConvertFloat(given.class)
           /\ Made("fromTicks") => made = TicksToDuration(given.number)
           /\ Made("toTicks") => made = DurationToTicks(given.number)
           /\ Made("length") => made = ReferenceTime(given.number)

ConversionInv == given \in Given /\ MadeInv

LEMMA ConversionInductive ==
    /\ ConversionInit => ConversionInv
    /\ ConversionInv /\ [ConversionNext]_conversionVars => ConversionInv'
<1>1. ConversionInit => ConversionInv
  BY DEF ConversionInit, ConversionInv, MadeInv, Made
<1>2. ASSUME ConversionInv, [ConversionNext]_conversionVars PROVE ConversionInv'
  <2>1. CASE UNCHANGED conversionVars
    BY <1>2, <2>1 DEF conversionVars, ConversionInv, MadeInv, Made
  <2>2. CASE ConversionNext
    BY <1>2, <2>2 DEF ConversionNext, ParsesFormat, ConvertsInt, ConvertsFloat, MakesDuration,
         MakesTicks, MakesReferenceTime, Makes, ConversionInv, MadeInv, Made
  <2> QED BY <1>2, <2>1, <2>2
<1> QED BY <1>1, <1>2

LEMMA ConversionInvHolds == ConversionSpec => []ConversionInv
<1> QED BY ConversionInductive, PTL DEF ConversionSpec

\* The value is of the kind its function takes.
LEMMA GivenFor ==
    ASSUME given \in Given
    PROVE  /\ given.for = "parse" => given.raw \in Raw
           /\ given.for = "convert" => /\ given.sample \in {"Int16", "Int24"}
                                       /\ given.bytes \in Samples(given.sample)
           /\ given.for = "clamp" => given.class \in FloatClasses
           /\ given.for \in {"fromTicks", "toTicks", "length"} => given.number \in Int64
BY DEF Given

(* format.go:24-103, pcm.go:10-80.  For every set of bit depths and of       *)
(* bytes, the formats that ConvertToFloat32 accepts are those it converts    *)
(* rightly, every sample of them to the value it has.                        *)
THEOREM FormatsAreTruthful == ConversionSpec => []FormatsTruthful
<1>1. ASSUME ConversionInv PROVE FormatsTruthful
  <2>1. ASSUME Made("parse"), ~FallsBack(given.raw)
        PROVE  /\ CanConvert(made) => Is(given.raw, made.sample)
               /\ (\E sample \in SampleFormats : Is(given.raw, sample)) => CanConvert(made)
    BY <1>1, <2>1, GivenFor, FormatsAreTold DEF ConversionInv, MadeInv, Made
  <2>2. ASSUME Made("convert")
        PROVE  /\ made = TwosComplement(given.bytes)
               /\ made \in -HalfRange(given.sample)..(HalfRange(given.sample) - 1)
    BY <1>1, <2>2, GivenFor, SamplesAreInRange DEF ConversionInv, MadeInv, Made
  <2>3. ASSUME Made("clamp") PROVE made \in {"-1", "0", "in range", "1"}
    BY <1>1, <2>3, GivenFor DEF ConversionInv, MadeInv, Made, FloatClasses, ConvertFloat
  <2> QED BY <1>1, <2>1, <2>2, <2>3 DEF FormatsTruthful, ConversionInv
<1> QED BY <1>1, ConversionInvHolds, PTL

(* types.go:144-152, capture.go:271-276.  For integers of every width, times *)
(* survive the way from Windows and back, lose less than a tick the other    *)
(* way, and keep their order.                                                *)
THEOREM TicksAreExact == ConversionSpec => []TicksExact
<1>1. ASSUME ConversionInv PROVE TicksExact
  <2>1. ASSUME Made("fromTicks"), given.number \in Representable
        PROVE  /\ DurationToTicks(made) = given.number
               /\ given.number + 1 \in Representable => made < TicksToDuration(given.number + 1)
    BY <1>1, <2>1, TicksAreKept DEF ConversionInv, MadeInv
  <2>2. ASSUME Made("toTicks")
        PROVE  given.number \in Int64 /\ made = DurationToTicks(given.number)
    BY <1>1, <2>2, GivenFor DEF ConversionInv, MadeInv, Made
  <2>3. ASSUME Made("length")
        PROVE  given.number \in Int64 /\ made = ReferenceTime(given.number)
    BY <1>1, <2>3, GivenFor DEF ConversionInv, MadeInv, Made
  <2> QED BY <2>1, <2>2, <2>3, DurationsAreKept, LengthIsKept DEF TicksExact
<1> QED BY <1>1, ConversionInvHolds, PTL
=============================================================================
