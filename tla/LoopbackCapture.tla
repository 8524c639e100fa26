--------------------------- MODULE LoopbackCapture ---------------------------
(***************************************************************************)
(* internal/wasapi: LoopbackCapture (loopback.go) over the COM objects of  *)
(* device.go, audio_client.go and capture_client.go.                       *)
(*                                                                         *)
(* All calls are made by one thread, the worker of Capturer: it opens the  *)
(* chain of objects, starts and stops the stream, reads packets and closes *)
(* the chain.  Any call into COM may fail.                                 *)
(*                                                                         *)
(* External: the audio engine.  It appends packets while the stream runs;  *)
(* GetBuffer lends the oldest one and fails while one is lent, and         *)
(* ReleaseBuffer takes it back and drops it.                               *)
(***************************************************************************)
EXTENDS Naturals, Sequences, FiniteSets

CONSTANT NumPackets \* bound: how many packets the engine records

\* the objects in the order they are opened; each comes from the one before
Objects == <<"enumerator", "device", "audio", "capture">>

VARIABLES
    pc,       \* where the thread is
    held,     \* the objects referenced by l
    mixFormat, \* memory of GetMixFormat that was not freed yet: 0 or 1 blocks
    started,  \* the stream runs (external)
    recorded, \* number of packets the engine has recorded (external)
    dropped,  \* number of packets taken from the engine's queue (external)
    lent,     \* the buffer of packet dropped + 1 is lent out (external)
    packet,   \* the packet copied by the ReadPacket at hand, 0 for none
    broken,   \* an error of the ReadPacket at hand
    returned, \* the packets ReadPacket returned (history)
    reported  \* the next packet and the call at hand of each error returned (history)

chainVars  == <<held, mixFormat>>
engineVars == <<started, recorded, dropped, lent>>
readVars   == <<packet, broken, returned, reported>>
vars == <<pc, chainVars, engineVars, readVars>>

OpenPc == {"enumerator", "device", "audio", "parse", "initialize", "free", "capture"}
ReadPc == {"getBuffer", "copy", "releaseBuffer"}

TypeOK == /\ pc \in OpenPc \cup ReadPc \cup {"format", "open", "closing", "closed"}
          /\ held \subseteq {Objects[i] : i \in DOMAIN Objects}
          /\ mixFormat \in 0..1
          /\ started \in BOOLEAN /\ lent \in BOOLEAN /\ broken \in BOOLEAN
          /\ recorded \in 0..NumPackets
          /\ dropped \in 0..recorded
          /\ packet \in 0..recorded
          /\ returned \in Seq(1..NumPackets)
          /\ reported \subseteq (1..(NumPackets + 1)) \X (ReadPc \cup {"open"})

Init == /\ pc = "enumerator"
        /\ held = {}
        /\ mixFormat = 0
        /\ started = FALSE /\ recorded = 0 /\ dropped = 0 /\ lent = FALSE
        /\ packet = 0 /\ broken = FALSE
        /\ returned = <<>> /\ reported = {}

-----------------------------------------------------------------------------
(* Slips: what a step could look like with a mistake in it.  None is part of *)
(* Next; each shows that a property below depends on the step it replaces.   *)

InitializeLeaks == \* InitializeLoopback does not free the format when it fails
    /\ pc = "free" /\ broken
    /\ pc' = "closing"
    /\ broken' = FALSE
    /\ UNCHANGED <<chainVars, engineVars, packet, returned, reported>>

ReleaseUnchecked == \* the deferred function does not return ReleaseBuffer's error
    /\ pc = "releaseBuffer" /\ ~broken
    /\ returned' = Append(returned, packet)
    /\ packet' = 0
    /\ pc' = "open"
    /\ UNCHANGED <<chainVars, engineVars, broken, reported>>

-----------------------------------------------------------------------------
(* OpenDefaultLoopback. *)

Opens(from, object, to) == /\ pc = from
                           /\ held' = held \cup {object}
                           /\ pc' = to
                           /\ UNCHANGED <<mixFormat, engineVars, readVars>>

NewDeviceEnumerator == Opens("enumerator", "enumerator", "device")
DefaultRenderDevice == Opens("device", "device", "audio")
ActivateAudioClient == Opens("audio", "audio", "format")
GetCaptureClient    == Opens("capture", "capture", "open")

\* the call of pc fails: l.Close() releases what there is
OpenFails == /\ pc \in {"enumerator", "device", "audio", "format", "initialize", "capture"}
             /\ pc' = "closing"
             /\ UNCHANGED <<chainVars, engineVars, readVars>>

\* IAudioClient.GetMixFormat lends a block; GetMixFormat parses and frees it
GetMixFormat == /\ pc \in {"format", "initialize"}
                /\ mixFormat' = mixFormat + 1
                /\ pc' = IF pc = "format" THEN "parse" ELSE "free"
                /\ \E b \in BOOLEAN : broken' = b \* parsing, Initialize fails
                /\ UNCHANGED <<held, engineVars, packet, returned, reported>>

FreeFormat == /\ pc \in {"parse", "free"}
              /\ mixFormat' = mixFormat - 1
              /\ pc' = IF broken THEN "closing" ELSE IF pc = "parse" THEN "initialize" ELSE "capture"
              /\ broken' = FALSE
              /\ UNCHANGED <<held, engineVars, packet, returned, reported>>

FreeInitializeFormat == pc = "free" /\ FreeFormat
FreeParsedFormat     == pc = "parse" /\ FreeFormat

Open == \/ NewDeviceEnumerator \/ DefaultRenderDevice \/ ActivateAudioClient
        \/ GetMixFormat \/ FreeParsedFormat \/ FreeInitializeFormat \/ GetCaptureClient
        \/ OpenFails

-----------------------------------------------------------------------------
(* Start, Stop and Close. *)

Start == /\ pc = "open" /\ ~started
         /\ started' = TRUE
         /\ UNCHANGED <<pc, chainVars, recorded, dropped, lent, readVars>>

Stop == /\ pc = "open" /\ started
        /\ started' = FALSE
        /\ UNCHANGED <<pc, chainVars, recorded, dropped, lent, readVars>>

Close == /\ pc = "open"
         /\ pc' = "closing"
         /\ UNCHANGED <<chainVars, engineVars, readVars>>

\* Close, one object after the other, the last opened first
CloseNext == /\ pc = "closing" /\ held # {}
             /\ \E i \in DOMAIN Objects : /\ Objects[i] \in held
                                          /\ \A k \in (i + 1)..Len(Objects) : Objects[k] \notin held
                                          /\ held' = held \ {Objects[i]}
             /\ UNCHANGED <<pc, mixFormat, engineVars, readVars>>

\* without its objects the stream is gone
CloseEnds == /\ pc = "closing" /\ held = {}
             /\ started' = FALSE
             /\ lent' = FALSE
             /\ pc' = "closed"
             /\ UNCHANGED <<chainVars, recorded, dropped, readVars>>

-----------------------------------------------------------------------------
(* ReadPacket. *)

\* an error is returned; it is about the packet that is next
ReadError == /\ reported' = reported \cup {<<dropped + 1, pc>>}
             /\ pc' = "open"

\* with no packet recorded ReadPacket returns ok = false and changes nothing
NextPacketSize == /\ pc = "open"
                  /\ recorded > dropped
                  /\ pc' = "getBuffer"
                  /\ UNCHANGED <<chainVars, engineVars, readVars>>

NextPacketSizeFails == /\ pc = "open"
                       /\ ReadError
                       /\ UNCHANGED <<chainVars, engineVars, packet, broken, returned>>

GetBuffer == /\ pc = "getBuffer"
             /\ ~lent
             /\ lent' = TRUE
             /\ pc' = "copy"
             /\ UNCHANGED <<chainVars, started, recorded, dropped, readVars>>

\* also when an earlier buffer is still lent
GetBufferFails == /\ pc = "getBuffer"
                  /\ ReadError
                  /\ UNCHANGED <<chainVars, engineVars, packet, broken, returned>>

CopyData == /\ pc = "copy"
            /\ packet' = dropped + 1
            /\ pc' = "releaseBuffer"
            /\ UNCHANGED <<chainVars, engineVars, broken, returned, reported>>

\* the block align is not positive, or the size overflows an int
CopyFails == /\ pc = "copy"
             /\ broken' = TRUE
             /\ pc' = "releaseBuffer"
             /\ UNCHANGED <<chainVars, engineVars, packet, returned, reported>>

\* the deferred ReleaseBuffer succeeds: the packet or CopyFails' error is returned
ReleaseBuffer == /\ pc = "releaseBuffer"
                 /\ lent' = FALSE
                 /\ dropped' = dropped + 1
                 /\ packet' = 0
                 /\ broken' = FALSE
                 /\ IF broken THEN ReadError /\ UNCHANGED returned
                    ELSE /\ returned' = Append(returned, packet)
                         /\ pc' = "open"
                         /\ UNCHANGED <<reported>>
                 /\ UNCHANGED <<chainVars, started, recorded>>

\* it fails: its error is returned in place of the packet
ReleaseBufferFails == /\ pc = "releaseBuffer"
                      /\ ReadError
                      /\ packet' = 0
                      /\ broken' = FALSE
                      /\ UNCHANGED <<chainVars, engineVars, returned>>

ReadPacket == \/ NextPacketSize \/ NextPacketSizeFails
              \/ GetBuffer \/ GetBufferFails \/ CopyData \/ CopyFails
              \/ ReleaseBuffer \/ ReleaseBufferFails

\* the engine records a packet (external)
Record == /\ started
          /\ recorded < NumPackets
          /\ recorded' = recorded + 1
          /\ UNCHANGED <<pc, chainVars, started, dropped, lent, readVars>>

Next == Open \/ Start \/ Stop \/ Close \/ CloseNext \/ CloseEnds \/ ReadPacket \/ Record

Spec == Init /\ [][Next]_vars
-----------------------------------------------------------------------------
(* Properties. *)

(* loopback.go:18-54, 105-125, audio_client.go:22-80, capture_client.go:89.  *)
(* Wherever opening fails, and after Close, no reference and no memory is    *)
(* left; an object is released only after the one obtained from it; and      *)
(* between two calls of ReadPacket no buffer is lent, whichever way the last *)
(* one ended, unless it reported that ReleaseBuffer failed.                  *)
NothingLeft ==
    /\ TypeOK
    /\ pc = "closed" => held = {} /\ mixFormat = 0
    /\ \A i \in 2..Len(Objects) : Objects[i] \in held => Objects[i - 1] \in held
    /\ pc = "open" /\ lent => <<dropped + 1, "releaseBuffer">> \in reported

(* capture_client.go:60-116.  The packets returned are those recorded, each  *)
(* once and in order; one that is missing was reported with an error.        *)
PacketsInOrder ==
    /\ \A i \in 1..(Len(returned) - 1) : returned[i] < returned[i + 1]
    /\ \A p \in 1..dropped : \/ \E i \in DOMAIN returned : returned[i] = p
                             \/ <<p, "releaseBuffer">> \in reported
    /\ \A i \in DOMAIN returned : returned[i] <= dropped
=============================================================================
