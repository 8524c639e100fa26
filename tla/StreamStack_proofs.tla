--------------------------- MODULE StreamStack_proofs ---------------------------
(***************************************************************************)
(* Proofs about StreamStack: first of the two waits, by the proofs of      *)
(* AsyncWait through an instance for either; then of the chain of calls    *)
(* and of what it holds; then of the chain and its waits together.         *)
(***************************************************************************)
EXTENDS StreamStack, TLAPS

OpenP == INSTANCE AsyncWait_proofs WITH
    Invokes <- OpenInvokes, wait <- openWait, outcome <- openOutcome,
    received <- openReceived, ch <- openCh, timer <- openTimer, refs <- openRefs,
    freed <- openFreed, invoke <- openInvoke, status <- openStatus,
    installed <- openInstalled, opAlive <- openAlive

BytesP == INSTANCE AsyncWait_proofs WITH
    Invokes <- ReadInvokes, wait <- readWait, outcome <- readOutcome,
    received <- readReceived, ch <- readCh, timer <- readTimer, refs <- readRefs,
    freed <- readFreed, invoke <- readInvoke, status <- readStatus,
    installed <- readInstalled, opAlive <- readAlive

\* A name of AsyncWait means the same through either instance.
LEMMA OpenSame ==
    /\ Open!Init <=> OpenP!Init
    /\ Open!Next <=> OpenP!Next
    /\ Open!RefsAccounted <=> OpenP!RefsAccounted
    /\ Open!OutcomeIsTrue <=> OpenP!OutcomeIsTrue
    /\ Open!ConstantsOK <=> OpenP!ConstantsOK
<1>1. Open!Init <=> OpenP!Init
  BY DEF Open!Init, OpenP!Init
<1>2. Open!Wait <=> OpenP!Wait
  BY DEF Open!Wait, Open!NewHandler, Open!NewHandlerFails, Open!PutCompleted,
      Open!PutCompletedFails, Open!ReceiveStatus, Open!TimeOut, Open!ClearCompleted,
      Open!GetResults, Open!CloseHandler, Open!ReleaseOp, Open!waitVars,
      Open!objectVars, Open!opVars, Open!AddRef, Open!Release, Open!Final, OpenP!Wait,
      OpenP!NewHandler, OpenP!NewHandlerFails, OpenP!PutCompleted,
      OpenP!PutCompletedFails, OpenP!ReceiveStatus, OpenP!TimeOut, OpenP!ClearCompleted,
      OpenP!GetResults, OpenP!CloseHandler, OpenP!ReleaseOp, OpenP!waitVars,
      OpenP!objectVars, OpenP!opVars, OpenP!AddRef, OpenP!Release, OpenP!Final
<1>3. Open!TimerFires <=> OpenP!TimerFires
  BY DEF Open!TimerFires, Open!objectVars, Open!opVars, OpenP!TimerFires,
      OpenP!objectVars, OpenP!opVars
<1>4. Open!Operation <=> OpenP!Operation
  BY DEF Open!Operation, Open!Complete, Open!CallInvoke, Open!InvokeGoesOn,
      Open!InvokeEnters, Open!InvokeSends, Open!InvokeLeaves, Open!InvokeEnds,
      Open!OpDies, Open!Calling, Open!GotoInvoke, Open!waitVars, Open!objectVars,
      Open!opVars, Open!AddRef, Open!Release, Open!Final, OpenP!Operation,
      OpenP!Complete, OpenP!CallInvoke, OpenP!InvokeGoesOn, OpenP!InvokeEnters,
      OpenP!InvokeSends, OpenP!InvokeLeaves, OpenP!InvokeEnds, OpenP!OpDies,
      OpenP!Calling, OpenP!GotoInvoke, OpenP!waitVars, OpenP!objectVars, OpenP!opVars,
      OpenP!AddRef, OpenP!Release, OpenP!Final
<1>5. Open!RefsAccounted <=> OpenP!RefsAccounted
  BY DEF Open!RefsAccounted, Open!TypeOK, Open!OwnRef, Open!Calling, Open!InHandler,
      Open!WaitPc, Open!Outcome, Open!InvokePc, Open!Final, Open!Cardinality,
      OpenP!RefsAccounted, OpenP!TypeOK, OpenP!OwnRef, OpenP!Calling, OpenP!InHandler,
      OpenP!WaitPc, OpenP!Outcome, OpenP!InvokePc, OpenP!Final, OpenP!Cardinality
<1>6. Open!ConstantsOK <=> OpenP!ConstantsOK
  BY DEF Open!ConstantsOK, OpenP!ConstantsOK, Open!Final, OpenP!Final, Open!IsFiniteSet,
         OpenP!IsFiniteSet
<1>7. Open!OutcomeIsTrue <=> OpenP!OutcomeIsTrue
  BY DEF Open!OutcomeIsTrue, OpenP!OutcomeIsTrue
<1> QED BY <1>1, <1>2, <1>3, <1>4, <1>5, <1>6, <1>7 DEF Open!Next, OpenP!Next

\* A name of AsyncWait means the same through either instance.
LEMMA BytesSame ==
    /\ Bytes!Init <=> BytesP!Init
    /\ Bytes!Next <=> BytesP!Next
    /\ Bytes!RefsAccounted <=> BytesP!RefsAccounted
    /\ Bytes!OutcomeIsTrue <=> BytesP!OutcomeIsTrue
    /\ Bytes!ConstantsOK <=> BytesP!ConstantsOK
<1>1. Bytes!Init <=> BytesP!Init
  BY DEF Bytes!Init, BytesP!Init
<1>2. Bytes!Wait <=> BytesP!Wait
  BY DEF Bytes!Wait, Bytes!NewHandler, Bytes!NewHandlerFails, Bytes!PutCompleted,
      Bytes!PutCompletedFails, Bytes!ReceiveStatus, Bytes!TimeOut, Bytes!ClearCompleted,
      Bytes!GetResults, Bytes!CloseHandler, Bytes!ReleaseOp, Bytes!waitVars,
      Bytes!objectVars, Bytes!opVars, Bytes!AddRef, Bytes!Release, Bytes!Final,
      BytesP!Wait, BytesP!NewHandler, BytesP!NewHandlerFails, BytesP!PutCompleted,
      BytesP!PutCompletedFails, BytesP!ReceiveStatus, BytesP!TimeOut,
      BytesP!ClearCompleted, BytesP!GetResults, BytesP!CloseHandler, BytesP!ReleaseOp,
      BytesP!waitVars, BytesP!objectVars, BytesP!opVars, BytesP!AddRef, BytesP!Release,
      BytesP!Final
<1>3. Bytes!TimerFires <=> BytesP!TimerFires
  BY DEF Bytes!TimerFires, Bytes!objectVars, Bytes!opVars, BytesP!TimerFires,
      BytesP!objectVars, BytesP!opVars
<1>4. Bytes!Operation <=> BytesP!Operation
  BY DEF Bytes!Operation, Bytes!Complete, Bytes!CallInvoke, Bytes!InvokeGoesOn,
      Bytes!InvokeEnters, Bytes!InvokeSends, Bytes!InvokeLeaves, Bytes!InvokeEnds,
      Bytes!OpDies, Bytes!Calling, Bytes!GotoInvoke, Bytes!waitVars, Bytes!objectVars,
      Bytes!opVars, Bytes!AddRef, Bytes!Release, Bytes!Final, BytesP!Operation,
      BytesP!Complete, BytesP!CallInvoke, BytesP!InvokeGoesOn, BytesP!InvokeEnters,
      BytesP!InvokeSends, BytesP!InvokeLeaves, BytesP!InvokeEnds, BytesP!OpDies,
      BytesP!Calling, BytesP!GotoInvoke, BytesP!waitVars, BytesP!objectVars,
      BytesP!opVars, BytesP!AddRef, BytesP!Release, BytesP!Final
<1>5. Bytes!RefsAccounted <=> BytesP!RefsAccounted
  BY DEF Bytes!RefsAccounted, Bytes!TypeOK, Bytes!OwnRef, Bytes!Calling,
      Bytes!InHandler, Bytes!WaitPc, Bytes!Outcome, Bytes!InvokePc, Bytes!Final,
      Bytes!Cardinality, BytesP!RefsAccounted, BytesP!TypeOK, BytesP!OwnRef,
      BytesP!Calling, BytesP!InHandler, BytesP!WaitPc, BytesP!Outcome, BytesP!InvokePc,
      BytesP!Final, BytesP!Cardinality
<1>6. Bytes!ConstantsOK <=> BytesP!ConstantsOK
  BY DEF Bytes!ConstantsOK, BytesP!ConstantsOK, Bytes!Final, BytesP!Final, Bytes!IsFiniteSet,
         BytesP!IsFiniteSet
<1>7. Bytes!OutcomeIsTrue <=> BytesP!OutcomeIsTrue
  BY DEF Bytes!OutcomeIsTrue, BytesP!OutcomeIsTrue
<1> QED BY <1>1, <1>2, <1>3, <1>4, <1>5, <1>6, <1>7 DEF Bytes!Next, BytesP!Next

\* A step of the composition is a step of each wait, or leaves it alone.
LEMMA StepsOfOpen == StackNext => Open!Next \/ UNCHANGED openVars
<1>1. CASE Chain
  BY <1>1 DEF Chain, Open!Next, Open!Wait
<1>2. CASE OpenWaits \/ OpenGoesOn
  BY <1>2 DEF OpenWaits, OpenGoesOn, Open!Next
<1>3. CASE BytesWaits \/ BytesGoOn
  BY <1>3 DEF BytesWaits, BytesGoOn
<1> QED BY <1>1, <1>2, <1>3 DEF StackNext

\* The same of the other wait.
LEMMA StepsOfBytes == StackNext => Bytes!Next \/ UNCHANGED bytesVars
<1>1. CASE Chain
  BY <1>1 DEF Chain, Bytes!Next, Bytes!Wait
<1>2. CASE BytesWaits \/ BytesGoOn
  BY <1>2 DEF BytesWaits, BytesGoOn, Bytes!Next
<1>3. CASE OpenWaits \/ OpenGoesOn
  BY <1>3 DEF OpenWaits, OpenGoesOn
<1> QED BY <1>1, <1>2, <1>3 DEF StackNext

\* What a step of the chain does to what it has got.
LEMMA ChainGets ==
    Next => /\ \/ live' \subseteq live
               \/ mode = "call" /\ step' = step + 1 /\ live' = live \cup {Now.get}
            /\ got' = got \/ (mode = "call" /\ step' = step + 1 /\ Now.get = "filled")
<1>1. CASE Calls
  <2>1. CASE CallFails \/ AsksSize \/ AsksLength \/ AsksBytes \/ AsksReference
    BY <2>1 DEF CallFails, AsksSize, AsksLength, AsksBytes, AsksReference, Returns, Goes
  <2>2. CASE GetsObject \/ GetsFilled \/ FunctionReturns
    BY <2>2 DEF GetsObject, GetsFilled, FunctionReturns, Goes, Holds
  <2> QED BY <1>1, <2>1, <2>2 DEF Calls
<1>2. CASE ReleaseLast \/ TriesUri \/ Ends
  BY <1>2 DEF ReleaseLast, TriesUri, Ends
<1> QED BY <1>1, <1>2 DEF Next

\* A step of the chain decides no wait.
LEMMA ChainKeepsOutcomes == Chain => UNCHANGED <<openOutcome, readOutcome>>
BY DEF Chain, openVars, bytesVars, Open!ReleaseOp, Bytes!ReleaseOp

\* The invariant of either wait, and what the chain has of its outcome.
BothInv == /\ OpenP!IInv /\ BytesP!IInv
           /\ live \cap OpenResults # {} => openOutcome = "result"
           /\ got > 0 => readOutcome = "result"

\* The counts of the handlers and the outcomes of the waits.
LEMMA WaitsKeep ==
    ASSUME OpenP!ConstantsOK, BytesP!ConstantsOK, OpenP!IInv, BytesP!IInv, StackNext
    PROVE  /\ OpenP!IInv' /\ BytesP!IInv'
           /\ openOutcome # "none" => openOutcome' = openOutcome
           /\ readOutcome # "none" => readOutcome' = readOutcome
<1>1. OpenP!Next \/ UNCHANGED openVars
  BY StepsOfOpen, OpenSame
<1>2. BytesP!Next \/ UNCHANGED bytesVars
  BY StepsOfBytes, BytesSame
<1>3. [OpenP!Next]_(OpenP!vars)
  BY <1>1 DEF openVars, OpenP!vars, OpenP!waitVars, OpenP!objectVars, OpenP!opVars
<1>4. [BytesP!Next]_(BytesP!vars)
  BY <1>2 DEF bytesVars, BytesP!vars, BytesP!waitVars, BytesP!objectVars, BytesP!opVars
<1>5. OpenP!IInv'
  BY <1>3, OpenP!Inductive
<1>6. BytesP!IInv'
  BY <1>4, BytesP!Inductive
<1>7. openOutcome # "none" => openOutcome' = openOutcome
  BY <1>1, OpenP!OutcomeStays DEF openVars
<1>8. readOutcome # "none" => readOutcome' = readOutcome
  BY <1>2, BytesP!OutcomeStays DEF bytesVars
<1> QED BY <1>5, <1>6, <1>7, <1>8

\* Every step keeps what the waits and the chain have of each other.
LEMMA StackKeeps ==
    ASSUME OpenP!ConstantsOK, BytesP!ConstantsOK, BothInv, [StackNext]_stackVars
    PROVE  BothInv'
<1>1. CASE UNCHANGED stackVars
  <2>1. OpenP!IInv' /\ BytesP!IInv'
    <3>1. [OpenP!Next]_(OpenP!vars) /\ [BytesP!Next]_(BytesP!vars)
      BY <1>1 DEF stackVars, openVars, bytesVars,
                  OpenP!vars, OpenP!waitVars, OpenP!objectVars, OpenP!opVars,
                  BytesP!vars, BytesP!waitVars, BytesP!objectVars, BytesP!opVars
    <3> QED BY <3>1, OpenP!Inductive, BytesP!Inductive DEF BothInv
  <2>2. UNCHANGED <<live, got, openOutcome, readOutcome>>
    BY <1>1 DEF stackVars, vars, openVars, bytesVars
  <2> QED BY <2>1, <2>2 DEF BothInv, OpenResults
<1>2. CASE StackNext
  <2>1. /\ OpenP!IInv' /\ BytesP!IInv'
        /\ openOutcome # "none" => openOutcome' = openOutcome
        /\ readOutcome # "none" => readOutcome' = readOutcome
    BY <1>2, WaitsKeep DEF BothInv
  <2>2. CASE Chain
    <3>1. UNCHANGED <<openOutcome, readOutcome>>
      BY <2>2, ChainKeepsOutcomes
    <3>2. live' \cap OpenResults # {} => openOutcome = "result"
      BY <2>2, ChainGets DEF Chain, BothInv, Awaits, Returned
    <3>3. got' > 0 => readOutcome = "result"
      <4>1. CASE got' = got
        BY <4>1 DEF BothInv
      <4>2. CASE got' # got
        BY <2>2, <4>2, ChainGets DEF Chain, Awaits, Returned, ByteResults
      <4> QED BY <4>1, <4>2
    <3> QED BY <2>1, <3>1, <3>2, <3>3 DEF BothInv, OpenResults
  <2>3. CASE OpenWaits \/ BytesWaits \/ OpenGoesOn \/ BytesGoOn
    <3>1. UNCHANGED <<live, got>>
      BY <2>3 DEF OpenWaits, BytesWaits, OpenGoesOn, BytesGoOn, vars
    <3> QED BY <2>1, <3>1 DEF BothInv, OpenResults
  <2> QED BY <1>2, <2>2, <2>3 DEF StackNext
<1> QED BY <1>1, <1>2

\* The assumption of the composition is that of the proofs about a wait.
LEMMA ConstantsAreOK == OpenP!ConstantsOK /\ BytesP!ConstantsOK
BY WaitAssumption, OpenSame, BytesSame

\* It is an invariant.
LEMMA BothInvHolds == StackSpec => []BothInv
<1>1. StackInit => BothInv
  <2> SUFFICES ASSUME StackInit PROVE BothInv
    OBVIOUS
  <2>1. OpenP!IInv /\ BytesP!IInv
    BY ConstantsAreOK, OpenSame, BytesSame, OpenP!InitIInv, BytesP!InitIInv DEF StackInit
  <2>2. live = {} /\ got = 0
    BY DEF StackInit, Init
  <2> QED BY <2>1, <2>2 DEF BothInv
<1>2. BothInv /\ [StackNext]_stackVars => BothInv'
  BY ConstantsAreOK, StackKeeps
<1> QED BY <1>1, <1>2, PTL DEF StackSpec

(* async.go:122-157, 220-225.  Whatever the chain does, and whenever an      *)
(* operation calls: the count of either completion handler is exact, and it  *)
(* is freed with the last reference, however many calls of Invoke there are. *)
THEOREM HandlersAccounted == StackSpec => []RefsAccounted
<1>1. BothInv => RefsAccounted
  BY OpenSame, BytesSame DEF BothInv, OpenP!IInv, BytesP!IInv, RefsAccounted
<1> QED BY <1>1, BothInvHolds, PTL

(* async.go:151, 179, 280-296, stream.go:104-111, 163-170.  The outcome of a *)
(* wait is that of its operation, and the chain has a stream, a file or      *)
(* bytes only of an operation that completed, whatever the size of the       *)
(* stream and the number of calls of Invoke.                                 *)
THEOREM OutcomesAreTrue == StackSpec => []OutcomeIsTrue
<1>1. BothInv => OutcomeIsTrue
  BY OpenSame, BytesSame DEF BothInv, OpenP!IInv, BytesP!IInv, OutcomeIsTrue
<1> QED BY <1>1, BothInvHolds, PTL

-----------------------------------------------------------------------------
(* What the chain holds. *)

\* the call at i gets an object whose release is deferred
Gets(i) == Script[i].in # "none" /\ Script[i].get # "nothing"

\* what has been got by the first n calls and is not released by a function that returned
Due(n) == {i \in 1..n : /\ Gets(i)
                        /\ \A j \in i..n : Script[j].get = "nothing"
                                               => Script[j].in # Script[i].in}

\* The calls that read the bytes of a reference, one by one.
LEMMA ReadCalls ==
    /\ Len(Read) = 16 /\ DOMAIN Read = 1..16
    /\ Read[1] = Get("refStream", "ref", "read")
    /\ Read[2] = Get("openOp", "refStream", "open")
    /\ Read[3] = Get("stream", "openOp", "read")
    /\ Read[4] = Leave("open")
    /\ Read[5] = Get("randomStream", "stream", "read")
    /\ Read[6] = Get("inputStream", "randomStream", "read")
    /\ Read[7] = Ask("size", "randomStream")
    /\ Read[8] = Get("bufferFactory", "ref", "create")
    /\ Read[9] = Get("buffer", "bufferFactory", "read")
    /\ Read[10] = Leave("create")
    /\ Read[11] = Get("readOp", "inputStream", "input")
    /\ Read[12] = Get("filled", "readOp", "read")
    /\ Read[13] = Leave("input")
    /\ Read[14] = Ask("length", "filled")
    /\ Read[15] = Get("byteAccess", "filled", "bytes")
    /\ Read[16] = Ask("bytes", "byteAccess")
BY DEF Read

\* The calls that make a reference to a file.
LEMMA FileCalls ==
    /\ Len(File) = 7 /\ DOMAIN File = 1..7
    /\ File[1] = Get("fileFactory", "ref", "storage")
    /\ File[2] = Get("path", "ref", "storage")
    /\ File[3] = Get("fileOp", "fileFactory", "storage")
    /\ File[4] = Get("file", "fileOp", "from")
    /\ File[5] = Leave("storage")
    /\ File[6] = Get("referenceFactory", "ref", "reference")
    /\ File[7] = Ask("reference", "referenceFactory")
BY DEF File

\* The calls that make a reference to a URI.
LEMMA UriCalls ==
    /\ Len(Uri) = 6 /\ DOMAIN Uri = 1..6
    /\ Uri[1] = Get("uriFactory", "ref", "string")
    /\ Uri[2] = Get("path", "ref", "string")
    /\ Uri[3] = Get("uri", "uriFactory", "from")
    /\ Uri[4] = Leave("string")
    /\ Uri[5] = Get("referenceFactory", "ref", "reference")
    /\ Uri[6] = Ask("reference", "referenceFactory")
BY DEF Uri

\* An object is got by one call of a chain.
LEMMA GotOnce ==
    ASSUME routine \in Routines,
           NEW i \in 1..Len(Script), NEW j \in 1..Len(Script),
           Gets(i), Gets(j), Script[i].get = Script[j].get
    PROVE  i = j
<1>1. CASE routine = "read"
  <2>1. Script = Read
    BY <1>1 DEF Script
  <2> QED BY <1>1, <2>1, ReadCalls DEF Gets, Get, Ask, Leave
<1>2. CASE routine = "file"
  <2>1. Script = File
    BY <1>2 DEF Script
  <2> QED BY <1>2, <2>1, FileCalls DEF Gets, Get, Ask, Leave
<1>3. CASE routine = "uri"
  <2>1. Script = Uri
    BY <1>3 DEF Script
  <2> QED BY <1>3, <2>1, UriCalls DEF Gets, Get, Ask, Leave
<1> QED BY <1>1, <1>2, <1>3 DEF Routines

\* Every call of a chain is one of the scripts'.
LEMMA InScripts ==
    ASSUME routine \in Routines, NEW n \in 1..Len(Script)
    PROVE  Script[n] \in Scripts
<1>1. CASE routine = "read"
  <2>1. Script = Read
    BY <1>1 DEF Script
  <2> QED BY <1>1, <2>1, ReadCalls DEF Scripts, Range
<1>2. CASE routine = "file"
  <2>1. Script = File
    BY <1>2 DEF Script
  <2> QED BY <1>2, <2>1, FileCalls DEF Scripts, Range
<1>3. CASE routine = "uri"
  <2>1. Script = Uri
    BY <1>3 DEF Script
  <2> QED BY <1>3, <2>1, UriCalls DEF Scripts, Range
<1> QED BY <1>1, <1>2, <1>3 DEF Routines

\* Where each call stands.
LEMMA Places ==
    ASSUME routine \in Routines, NEW n \in 1..Len(Script)
    PROVE  /\ Gets(n) \/ Script[n].get \in {"nothing", "size", "length"}
                  => n + 1 \in 1..Len(Script)
           /\ Gets(n) => Script[n].get \in AllObjects
           /\ Script[n].get = "size" => routine = "read" /\ n = 7
           /\ Script[n].get = "length" => routine = "read" /\ n = 14
           /\ Script[n].get = "filled" => routine = "read" /\ n = 12 /\ Gets(n)
           /\ Script[n].get = "bytes" => routine = "read" /\ n = 16
           /\ Script[n].get = "reference" => routine # "read"
<1> /\ Gets(n) => Script[n].get \in AllObjects
    /\ Len(Script) \in Nat
  <2>1. Len(Script) \in Nat
    BY ReadCalls, FileCalls, UriCalls DEF Script, Routines
  <2> QED BY <2>1, InScripts DEF AllObjects, Gets
<1>1. CASE routine = "read"
  <2>1. Script = Read
    BY <1>1 DEF Script
  <2> QED BY <1>1, <2>1, ReadCalls DEF Gets, Get, Ask, Leave
<1>2. CASE routine = "file"
  <2>1. Script = File
    BY <1>2 DEF Script
  <2> QED BY <1>2, <2>1, FileCalls DEF Gets, Get, Ask, Leave
<1>3. CASE routine = "uri"
  <2>1. Script = Uri
    BY <1>3 DEF Script
  <2> QED BY <1>3, <2>1, UriCalls DEF Gets, Get, Ask, Leave
<1> QED BY <1>1, <1>2, <1>3 DEF Routines

\* The object a call is made on was got before, and no function released it.
LEMMA OnIsDue ==
    ASSUME routine \in Routines, NEW n \in 1..Len(Script), Script[n].on # "ref"
    PROVE  \E i \in Due(n - 1) : Script[i].get = Script[n].on
<1>1. CASE routine = "read"
  <2>1. Script = Read
    BY <1>1 DEF Script
  <2> QED BY <1>1, <2>1, ReadCalls DEF Due, Gets, Get, Ask, Leave
<1>2. CASE routine = "file"
  <2>1. Script = File
    BY <1>2 DEF Script
  <2> QED BY <1>2, <2>1, FileCalls DEF Due, Gets, Get, Ask, Leave
<1>3. CASE routine = "uri"
  <2>1. Script = Uri
    BY <1>3 DEF Script
  <2> QED BY <1>3, <2>1, UriCalls DEF Due, Gets, Get, Ask, Leave
<1> QED BY <1>1, <1>2, <1>3 DEF Routines

\* What a call adds to the releases that are due, or takes away.
LEMMA DueNext ==
    ASSUME routine \in Routines, NEW n \in 1..Len(Script)
    PROVE  /\ Due(0) = {}
           /\ Gets(n) => Due(n) = Due(n - 1) \cup {n}
           /\ Script[n].get = "nothing" =>
                  Due(n) = {i \in Due(n - 1) : Script[i].in # Script[n].in}
           /\ ~Gets(n) /\ Script[n].get # "nothing" => Due(n) = Due(n - 1)
           /\ Due(n - 1) \subseteq 1..(n - 1)
<1> n \in Nat \ {0}
  <2>1. Len(Script) \in Nat
    BY ReadCalls, FileCalls, UriCalls DEF Script, Routines
  <2> QED BY <2>1
<1>1. \A i \in 1..(n - 1) : i..n = (i..(n - 1)) \cup {n}
  OBVIOUS
<1>2. 1..n = (1..(n - 1)) \cup {n} /\ n..n = {n}
  OBVIOUS
<1> QED BY <1>1, <1>2 DEF Due, Gets
(* The chain: what it holds is what its calls got and no function released,  *)
(* less what the deferred releases have released; and what the earlier calls *)
(* have established of the failures, the size and the bytes.                 *)
ChainInv ==
    /\ TypeOK
    /\ live = Objects(held)
    /\ mode = "call" => held = Due(step - 1)
    /\ mode = "unwind" => held \subseteq Due(step - 1)
    /\ mode = "done" => held = {}
    /\ mode = "call" <=> outcome = "pending"
    /\ outcome = "error" <=> routine \in failed
    /\ failed \ {routine} = IF routine = "uri" THEN {"file"} ELSE {}
    /\ routine = "read" /\ step > 7 => size \in 1..MaxThumbnailBytes
    /\ routine = "read" /\ step > 14 => got > 0
    /\ outcome = "bytes" => routine = "read" /\ step = 16
    /\ outcome = "nothing" => routine = "read" /\ (got = 0 \/ step = 16)

\* The calls of a chain are those of its routine.
LEMMA SameCalls ==
    ASSUME UNCHANGED routine
    PROVE  /\ Script' = Script
           /\ \A n : Due(n)' = Due(n)
<1>1. Script' = Script
  BY DEF Script
<1> QED BY <1>1 DEF Due, Gets

\* A deferred release that is due is of an object the chain got, and of no other.
LEMMA Released ==
    ASSUME ChainInv, NEW rest \in SUBSET held
    PROVE  /\ \A i \in held : i \in 1..Len(Script) /\ Gets(i)
           /\ live \ Objects(held \ rest) = Objects(rest)
<1>1. \A i \in held : i \in 1..Len(Script) /\ Gets(i)
  BY DEF ChainInv, TypeOK, Due
<1>2. \A i, j \in held : Script[i].get = Script[j].get => i = j
  BY <1>1, GotOnce DEF ChainInv, TypeOK
<1> QED BY <1>1, <1>2 DEF ChainInv, Objects

\* The chain is at a call of its routine, and the sizes are numbers.
LEMMA ChainIsTyped ==
    ASSUME ChainInv
    PROVE  /\ routine \in Routines /\ step \in 1..Len(Script)
           /\ Len(Script) \in Nat
           /\ size \in Nat /\ got \in Nat /\ MaxThumbnailBytes \in Nat
<1>1. Len(Script) \in Nat
  BY ReadCalls, FileCalls, UriCalls DEF Script, Routines, ChainInv, TypeOK
<1>2. size \in Nat /\ got \in Nat
  BY SizeAssumption DEF ChainInv, TypeOK
<1> QED BY <1>1, <1>2, SizeAssumption DEF ChainInv, TypeOK

\* A chain that returns keeps the invariant, with an outcome that is true.
LEMMA ReturnsKeeps ==
    ASSUME ChainInv, mode = "call", NEW what, Returns(what),
           \/ what = "error" /\ failed' = failed \cup {routine}
           \/ what = "bytes" /\ Now.get = "bytes" /\ UNCHANGED failed
           \/ what = "nothing" /\ UNCHANGED failed /\ routine = "read" /\ (got = 0 \/ step = 16)
           \/ what = "reference" /\ UNCHANGED failed
    PROVE  ChainInv'
<1>1. /\ UNCHANGED <<routine, step, live, held, size, got>>
      /\ mode' = "unwind" /\ outcome' = what
  BY DEF Returns
<1>2. Script' = Script /\ Due(step - 1)' = Due(step - 1)
  BY <1>1, SameCalls DEF Due, Gets
<1>3. TypeOK'
  BY <1>1, <1>2 DEF ChainInv, TypeOK, Outcomes, Routines
<1>4. live' = Objects(held)'
  BY <1>1, <1>2 DEF ChainInv, Objects
<1>5. (mode = "unwind" => held \subseteq Due(step - 1))'
  BY <1>1, <1>2 DEF ChainInv
<1>6. what = "bytes" => routine = "read" /\ step = 16
  BY ChainIsTyped, Places DEF Now
<1>7. routine \notin failed
  BY DEF ChainInv
<1>8. /\ (outcome = "error" <=> routine \in failed)'
      /\ (failed \ {routine} = IF routine = "uri" THEN {"file"} ELSE {})'
  BY <1>1, <1>7 DEF ChainInv
<1> QED BY <1>1, <1>3, <1>4, <1>5, <1>6, <1>8 DEF ChainInv

\* A call that gets an object adds it to what is held.
LEMMA HoldsKeeps ==
    ASSUME ChainInv, mode = "call", Gets(step), Holds(Now.get), Goes,
           got' = got \/ (Now.get = "filled" /\ got' \in 0..size)
    PROVE  ChainInv'
<1>1. /\ UNCHANGED <<routine, mode, failed, size, outcome>> /\ step' = step + 1
      /\ live' = live \cup {Script[step].get} /\ held' = held \cup {step}
  BY DEF Goes, Holds, Now
<1> USE ChainIsTyped
<1>2. Script' = Script /\ \A n : Due(n)' = Due(n)
  BY <1>1, SameCalls
<1>3. /\ step + 1 \in 1..Len(Script) /\ Script[step].get \in AllObjects
      /\ Script[step].get = "filled" => routine = "read" /\ step = 12
  BY Places
<1>4. Due(step) = Due(step - 1) \cup {step}
  BY DueNext
<1>5. Due(step - 1)' = Due(step)
  BY <1>1, <1>2 DEF Due, Gets
<1>6. (held = Due(step - 1))'
  BY <1>1, <1>4, <1>5 DEF ChainInv
<1>7. live' = Objects(held)'
  BY <1>1, <1>2 DEF ChainInv, Objects
<1>8. /\ (routine = "read" /\ step > 7 => size \in 1..MaxThumbnailBytes)'
      /\ (routine = "read" /\ step > 14 => got > 0)'
      /\ got' \in 0..size /\ got' <= MaxThumbnailBytes
  <2>1. routine = "read" => step # 7 /\ step # 14
    BY <1>1, <1>2, Places, ReadCalls DEF Script, Gets, Ask
  <2>2. Now.get = "filled" => routine = "read" /\ step = 12
    BY <1>3 DEF Now
  <2> QED BY <1>1, <2>1, <2>2 DEF ChainInv, TypeOK
<1>9. TypeOK'
  BY <1>1, <1>2, <1>3, <1>8 DEF ChainInv, TypeOK
<1> QED BY <1>1, <1>6, <1>7, <1>8, <1>9 DEF ChainInv

\* An inner function that returns releases what it got, and no result of it.
LEMMA FunctionReturnsKeeps ==
    ASSUME ChainInv, FunctionReturns
    PROVE  ChainInv'
<1>1. /\ UNCHANGED <<routine, mode, failed, size, outcome, got>> /\ step' = step + 1
      /\ mode = "call" /\ Script[step].get = "nothing"
      /\ held' = {i \in held : Script[i].in # Script[step].in}
      /\ live' = live \ Objects(held \ held')
  BY DEF FunctionReturns, Goes, Now, Outside
<1> USE ChainIsTyped
<1>2. Script' = Script /\ \A n : Due(n)' = Due(n)
  BY <1>1, SameCalls
<1>3. step + 1 \in 1..Len(Script)
  BY <1>1, Places
<1>4. Due(step) = {i \in Due(step - 1) : Script[i].in # Script[step].in}
  BY <1>1, DueNext
<1>5. Due(step - 1)' = Due(step)
  BY <1>1, <1>2 DEF Due, Gets
<1>6. (held = Due(step - 1))'
  BY <1>1, <1>4, <1>5 DEF ChainInv
<1>7. live' = Objects(held)'
  <2>1. held' \in SUBSET held
    BY <1>1
  <2>2. live' = Objects(held')
    BY <1>1, <2>1, Released
  <2> QED BY <1>2, <2>2 DEF Objects
<1>8. /\ (routine = "read" /\ step > 7 => size \in 1..MaxThumbnailBytes)'
      /\ (routine = "read" /\ step > 14 => got > 0)'
  <2>1. routine = "read" => step # 7 /\ step # 14
    BY <1>1, ReadCalls DEF Script, Ask
  <2> QED BY <1>1, <2>1 DEF ChainInv
<1>9. TypeOK'
  <2>1. live' \subseteq AllObjects /\ held' \subseteq 1..Len(Script)
    BY <1>1 DEF ChainInv, TypeOK
  <2> QED BY <1>1, <1>2, <1>3, <2>1 DEF ChainInv, TypeOK
<1> QED BY <1>1, <1>6, <1>7, <1>8, <1>9 DEF ChainInv

\* A question is answered, and the answer bounds what follows.
LEMMA AsksKeep ==
    ASSUME ChainInv, mode = "call", Goes, UNCHANGED <<live, held, got>>,
           \/ Now.get = "size" /\ size # 0 /\ size <= MaxThumbnailBytes
           \/ Now.get = "length" /\ got # 0
    PROVE  ChainInv'
<1>1. /\ UNCHANGED <<routine, mode, failed, size, outcome, got, live, held>>
      /\ step' = step + 1
      /\ Script[step].get \in {"size", "length"}
      /\ Script[step].get = "size" => size \in 1..MaxThumbnailBytes
      /\ Script[step].get = "length" => got > 0
  BY ChainIsTyped DEF Goes, Now
<1> USE ChainIsTyped
<1>2. Script' = Script /\ \A n : Due(n)' = Due(n)
  BY <1>1, SameCalls
<1>3. /\ step + 1 \in 1..Len(Script)
      /\ routine = "read"
      /\ Script[step].get = "size" => step = 7
      /\ Script[step].get = "length" => step = 14
      /\ ~Gets(step)
  <2>1. routine = "read"
    BY <1>1, Places
  <2>2. Script = Read
    BY <2>1 DEF Script
  <2>3. step = 7 \/ step = 14
    BY <1>1, Places
  <2> QED BY <1>1, <2>1, <2>2, <2>3, Places, ReadCalls DEF Gets, Ask
<1>4. Due(step) = Due(step - 1)
  BY <1>1, <1>3, DueNext
<1>5. Due(step - 1)' = Due(step)
  BY <1>1, <1>2 DEF Due, Gets
<1>6. (held = Due(step - 1))'
  BY <1>1, <1>4, <1>5 DEF ChainInv
<1>7. live' = Objects(held)'
  BY <1>1, <1>2 DEF ChainInv, Objects
<1>8. /\ (routine = "read" /\ step > 7 => size \in 1..MaxThumbnailBytes)'
      /\ (routine = "read" /\ step > 14 => got > 0)'
  BY <1>1, <1>3 DEF ChainInv
<1>9. TypeOK'
  BY <1>1, <1>2, <1>3 DEF ChainInv, TypeOK
<1> QED BY <1>1, <1>6, <1>7, <1>8, <1>9 DEF ChainInv

\* Whatever a call returns, the invariant is kept.
LEMMA CallsKeep == ASSUME ChainInv, Calls PROVE ChainInv'
<1> USE ChainIsTyped
<1>1. CASE CallFails
  <2>1. mode = "call" /\ Returns("error") /\ failed' = failed \cup {routine}
    BY <1>1 DEF CallFails
  <2> QED BY <2>1, ReturnsKeeps
<1>2. CASE GetsObject
  <2>1. mode = "call" /\ Gets(step) /\ Holds(Now.get) /\ Goes /\ got' = got
    BY <1>2 DEF GetsObject, Gets, Now
  <2> QED BY <2>1, HoldsKeeps
<1>3. CASE GetsFilled
  <2>1. /\ mode = "call" /\ Now.get = "filled" /\ Holds(Now.get) /\ Goes
        /\ got' \in 0..size
    BY <1>3 DEF GetsFilled
  <2>2. Gets(step)
    BY <2>1, Places DEF Now
  <2> QED BY <2>1, <2>2, HoldsKeeps
<1>4. CASE FunctionReturns
  BY <1>4, FunctionReturnsKeeps
<1>5. CASE AsksSize
  <2>1. mode = "call" /\ Now.get = "size" /\ routine = "read" /\ got \in 0..size
    BY <1>5, Places DEF AsksSize, Now, ChainInv, TypeOK
  <2>2. CASE size = 0
    <3>1. got = 0 /\ Returns("nothing") /\ UNCHANGED failed
      BY <1>5, <2>1, <2>2 DEF AsksSize
    <3> QED BY <2>1, <3>1, ReturnsKeeps
  <2>3. CASE size > MaxThumbnailBytes
    <3>1. Returns("error") /\ failed' = failed \cup {routine}
      BY <1>5, <2>3, SizeAssumption DEF AsksSize
    <3> QED BY <2>1, <3>1, ReturnsKeeps
  <2>4. CASE size # 0 /\ size <= MaxThumbnailBytes
    <3>1. Goes /\ UNCHANGED <<live, held, got>>
      BY <1>5, <2>4 DEF AsksSize
    <3> QED BY <2>1, <2>4, <3>1, AsksKeep
  <2> QED BY <2>2, <2>3, <2>4
<1>6. CASE AsksLength
  <2>1. mode = "call" /\ Now.get = "length" /\ routine = "read"
    BY <1>6, Places DEF AsksLength, Now
  <2>2. CASE got = 0
    <3>1. Returns("nothing") /\ UNCHANGED failed
      BY <1>6, <2>2 DEF AsksLength
    <3> QED BY <2>1, <2>2, <3>1, ReturnsKeeps
  <2>3. CASE got # 0
    <3>1. Goes /\ UNCHANGED <<live, held, got>>
      BY <1>6, <2>3 DEF AsksLength
    <3> QED BY <2>1, <2>3, <3>1, AsksKeep
  <2> QED BY <2>2, <2>3
<1>7. CASE AsksBytes
  <2>1. /\ mode = "call" /\ Now.get = "bytes" /\ UNCHANGED failed
        /\ Returns("bytes") \/ Returns("nothing")
    BY <1>7 DEF AsksBytes
  <2>2. routine = "read" /\ step = 16
    BY <2>1, Places DEF Now
  <2>3. CASE Returns("bytes")
    BY <2>1, <2>3, ReturnsKeeps
  <2>4. CASE Returns("nothing")
    BY <2>1, <2>2, <2>4, ReturnsKeeps
  <2> QED BY <2>1, <2>3, <2>4
<1>8. CASE AsksReference
  <2>1. mode = "call" /\ Returns("reference") /\ UNCHANGED failed
    BY <1>8 DEF AsksReference
  <2> QED BY <2>1, ReturnsKeeps
<1> QED BY <1>1, <1>2, <1>3, <1>4, <1>5, <1>6, <1>7, <1>8 DEF Calls

\* A deferred release takes one object from what is held.
LEMMA ReleaseLastKeeps == ASSUME ChainInv, ReleaseLast PROVE ChainInv'
<1>1. /\ UNCHANGED <<routine, step, mode, failed, size, got, outcome>>
      /\ mode = "unwind"
  BY DEF ReleaseLast
<1>2. PICK last \in held : /\ held' = held \ {last}
                           /\ live' = live \ {Script[last].get}
  BY DEF ReleaseLast
<1>3. Script' = Script /\ Due(step - 1)' = Due(step - 1)
  BY <1>1, SameCalls DEF Due, Gets
<1>4. live' = Objects(held')
  <2>1. held' \in SUBSET held /\ held \ held' = {last}
    BY <1>2
  <2>2. live \ Objects(held \ held') = Objects(held')
    BY <2>1, Released
  <2>3. Objects(held \ held') = {Script[last].get}
    BY <2>1 DEF Objects
  <2> QED BY <1>2, <2>2, <2>3
<1>5. (live = Objects(held))' /\ (mode = "unwind" => held \subseteq Due(step - 1))'
  BY <1>1, <1>2, <1>3, <1>4 DEF Objects, ChainInv
<1>6. TypeOK'
  <2>1. live' \subseteq AllObjects /\ held' \subseteq 1..Len(Script)
    BY <1>2 DEF ChainInv, TypeOK
  <2> QED BY <1>1, <1>3, <2>1 DEF ChainInv, TypeOK
<1> QED BY <1>1, <1>5, <1>6 DEF ChainInv

\* The fallback starts with nothing held.
LEMMA TriesUriKeeps == ASSUME ChainInv, TriesUri PROVE ChainInv'
<1>1. /\ mode = "unwind" /\ held = {} /\ routine = "file" /\ outcome = "error"
      /\ routine' = "uri" /\ step' = 1 /\ mode' = "call" /\ outcome' = "pending"
      /\ UNCHANGED <<live, held, failed, size, got>>
  BY DEF TriesUri, FileFailed
<1>2. failed = {"file"}
  BY <1>1 DEF ChainInv
<1>3. (held = Due(step - 1))'
  BY <1>1 DEF Due
<1>4. live = {} /\ (live = Objects(held))'
  BY <1>1 DEF ChainInv, Objects
<1>5. Len(Script') = 6
  BY <1>1, UriCalls DEF Script
<1>6. TypeOK'
  <2>1. step' \in 1..Len(Script') /\ live' \subseteq AllObjects /\ held' \subseteq 1..Len(Script')
    BY <1>1, <1>4, <1>5
  <2> QED BY <1>1, <2>1 DEF ChainInv, TypeOK, Routines, Outcomes
<1> QED BY <1>1, <1>2, <1>3, <1>4, <1>6 DEF ChainInv

\* A chain ends with nothing held.
LEMMA EndsKeeps == ASSUME ChainInv, Ends PROVE ChainInv'
<1>1. /\ UNCHANGED <<routine, step, live, held, failed, size, got, outcome>>
      /\ mode = "unwind" /\ mode' = "done" /\ held = {}
  BY DEF Ends
<1>2. Script' = Script
  BY <1>1, SameCalls
<1>3. TypeOK' /\ (live = Objects(held))'
  BY <1>1, <1>2 DEF ChainInv, TypeOK, Objects
<1> QED BY <1>1, <1>3 DEF ChainInv

\* Every step of a chain keeps the invariant.
LEMMA ChainKeeps == ASSUME ChainInv, [Next]_vars PROVE ChainInv'
<1>1. CASE UNCHANGED vars
  <2>1. Script' = Script /\ Due(step - 1)' = Due(step - 1)
    BY <1>1, SameCalls DEF vars, Due, Gets
  <2> QED BY <1>1, <2>1 DEF vars, ChainInv, TypeOK, Objects
<1> QED BY <1>1, CallsKeep, ReleaseLastKeeps, TriesUriKeeps, EndsKeeps DEF Next

\* A chain begins with nothing held.
LEMMA ChainInit == Init => ChainInv
<1> SUFFICES ASSUME Init PROVE ChainInv
  OBVIOUS
<1>1. 1 \in 1..Len(Script)
  <2>1. CASE routine = "read"
    BY <2>1, ReadCalls DEF Script
  <2>2. CASE routine = "file"
    BY <2>2, FileCalls DEF Script
  <2> QED BY <2>1, <2>2 DEF Init
<1>2. held = Due(step - 1) /\ live = Objects(held)
  BY DEF Init, Due, Objects
<1>3. TypeOK
  BY <1>1, SizeAssumption DEF Init, TypeOK, Routines, Outcomes
<1> QED BY <1>2, <1>3 DEF Init, ChainInv

\* What the chain promises of its end, and of the objects it calls.
LEMMA ChainPromises == ASSUME ChainInv PROVE NothingLeaked /\ UsedWhileHeld
<1> USE ChainIsTyped
<1>1. UsedWhileHeld
  <2> SUFFICES ASSUME mode = "call", Script[step].on # "ref" PROVE Script[step].on \in live
    BY DEF UsedWhileHeld, Now
  <2>1. PICK i \in Due(step - 1) : Script[i].get = Script[step].on
    BY OnIsDue
  <2> QED BY <2>1 DEF ChainInv, Objects
<1>2. NothingLeaked
  <2>1. TypeOK
    BY DEF ChainInv
  <2> SUFFICES ASSUME mode = "done"
               PROVE  /\ live = {}
                      /\ outcome = "bytes" => /\ got \in 1..size /\ size <= MaxThumbnailBytes
                                              /\ failed = {}
                      /\ outcome = "nothing" => failed = {} /\ (got = 0 \/ Now.get = "bytes")
                      /\ outcome = "reference" => routine \notin failed
                      /\ outcome = "error" => routine \in failed
                      /\ outcome \in {"bytes", "nothing", "reference", "error"}
    BY <2>1 DEF NothingLeaked
  <2>2. live = {}
    BY DEF ChainInv, Objects
  <2>3. outcome \in {"bytes", "nothing", "reference", "error"}
    BY DEF ChainInv, TypeOK, Outcomes
  <2>4. ASSUME outcome \in {"bytes", "nothing"} PROVE routine = "read" /\ failed = {}
    BY <2>4 DEF ChainInv
  <2>5. routine = "read" /\ step = 16 => Now.get = "bytes"
    BY ReadCalls DEF Now, Script, Ask
  <2>6. outcome = "bytes" => got \in 1..size /\ size <= MaxThumbnailBytes
    BY DEF ChainInv, TypeOK
  <2> QED BY <2>2, <2>3, <2>4, <2>5, <2>6 DEF ChainInv
<1> QED BY <1>1, <1>2

\* What the steps of a wait do to its operation.
LEMMA OpenStays ==
    ASSUME openWait # "returned" => openAlive = TRUE
    PROVE  /\ Open!Wait \/ Open!TimerFires \/ Open!Operation
                  => (openWait' # "returned" => openAlive' = TRUE)
           /\ Open!TimerFires \/ Open!Operation => UNCHANGED openWait
           /\ Open!ReleaseOp => openWait' = "returned"
<1>1. Open!Wait => (openWait' # "returned" => openAlive' = TRUE)
  BY DEF Open!Wait, Open!NewHandler, Open!NewHandlerFails, Open!PutCompleted,
      Open!PutCompletedFails, Open!ReceiveStatus, Open!TimeOut, Open!ClearCompleted,
      Open!GetResults, Open!CloseHandler, Open!ReleaseOp, Open!opVars
<1>2. Open!TimerFires \/ Open!Operation
          => UNCHANGED openWait /\ (openAlive' = openAlive \/ openWait = "returned")
  BY DEF Open!TimerFires, Open!Operation, Open!Complete, Open!CallInvoke, Open!InvokeGoesOn,
      Open!InvokeEnters, Open!InvokeSends, Open!InvokeLeaves, Open!InvokeEnds,
      Open!OpDies, Open!waitVars, Open!opVars
<1>3. Open!ReleaseOp => openWait' = "returned"
  BY DEF Open!ReleaseOp
<1> QED BY <1>1, <1>2, <1>3

\* The same of the other wait.
LEMMA BytesStay ==
    ASSUME readWait # "returned" => readAlive = TRUE
    PROVE  /\ Bytes!Wait \/ Bytes!TimerFires \/ Bytes!Operation
                  => (readWait' # "returned" => readAlive' = TRUE)
           /\ Bytes!TimerFires \/ Bytes!Operation => UNCHANGED readWait
           /\ Bytes!ReleaseOp => readWait' = "returned"
<1>1. Bytes!Wait => (readWait' # "returned" => readAlive' = TRUE)
  BY DEF Bytes!Wait, Bytes!NewHandler, Bytes!NewHandlerFails, Bytes!PutCompleted,
      Bytes!PutCompletedFails, Bytes!ReceiveStatus, Bytes!TimeOut, Bytes!ClearCompleted,
      Bytes!GetResults, Bytes!CloseHandler, Bytes!ReleaseOp, Bytes!opVars
<1>2. Bytes!TimerFires \/ Bytes!Operation
          => UNCHANGED readWait /\ (readAlive' = readAlive \/ readWait = "returned")
  BY DEF Bytes!TimerFires, Bytes!Operation, Bytes!Complete, Bytes!CallInvoke,
      Bytes!InvokeGoesOn, Bytes!InvokeEnters, Bytes!InvokeSends, Bytes!InvokeLeaves,
      Bytes!InvokeEnds, Bytes!OpDies, Bytes!waitVars, Bytes!opVars
<1>3. Bytes!ReleaseOp => readWait' = "returned"
  BY DEF Bytes!ReleaseOp
<1> QED BY <1>1, <1>2, <1>3

\* A chain that waits holds the operation it waits for.
LEMMA AwaitsHeld ==
    ASSUME ChainInv
    PROVE  /\ Awaits(OpenResults) => live \cap OpenOps # {}
           /\ Awaits(ByteResults) => live \cap ByteOps # {}
<1>1. routine \in Routines /\ step \in 1..Len(Script)
  BY ChainIsTyped
<1>2. /\ Script[step].get \in OpenResults => Script[step].on \in OpenOps
      /\ Script[step].get \in ByteResults => Script[step].on \in ByteOps
  <2> USE DEF OpenResults, OpenOps, ByteResults, ByteOps
  <2>1. CASE routine = "read"
    <3>1. Script = Read
      BY <2>1 DEF Script
    <3> QED BY <1>1, <3>1, ReadCalls DEF Get, Ask, Leave
  <2>2. CASE routine = "file"
    <3>1. Script = File
      BY <2>2 DEF Script
    <3> QED BY <1>1, <3>1, FileCalls DEF Get, Ask, Leave
  <2>3. CASE routine = "uri"
    <3>1. Script = Uri
      BY <2>3 DEF Script
    <3> QED BY <1>1, <3>1, UriCalls DEF Get, Ask, Leave
  <2> QED BY <1>1, <2>1, <2>2, <2>3 DEF Routines
<1>3. mode = "call" /\ Script[step].on # "ref" => Script[step].on \in live
  BY ChainPromises DEF UsedWhileHeld, Now
<1> QED BY <1>2, <1>3 DEF Awaits, Now, OpenOps, ByteOps

(* The chain and its waits: an operation is there until its wait has         *)
(* returned, and from when the wait has begun until then the chain holds it. *)
HeldInv == /\ ChainInv
           /\ openWait # "returned" => openAlive = TRUE
           /\ readWait # "returned" => readAlive = TRUE
           /\ openWait \notin {"start", "returned"} => live \cap OpenOps # {}
           /\ readWait \notin {"start", "returned"} => live \cap ByteOps # {}

\* The steps of the chain, of the waits and of the operations keep it.
LEMMA HeldKeeps == ASSUME HeldInv, [StackNext]_stackVars PROVE HeldInv'
<1>1. ChainInv
  BY DEF HeldInv
<1>2. CASE UNCHANGED stackVars
  <2>1. UNCHANGED vars
    BY <1>2 DEF stackVars
  <2>2. ChainInv'
    BY <1>1, <2>1, ChainKeeps
  <2> QED BY <1>2, <2>2 DEF HeldInv, stackVars, vars, openVars, bytesVars, OpenOps, ByteOps
<1>3. CASE Chain
  <2>1. ChainInv'
    BY <1>1, <1>3, ChainKeeps DEF Chain
  <2>2. /\ openWait' # "returned" => openAlive' = TRUE
        /\ openWait' \notin {"start", "returned"} => live' \cap OpenOps # {}
    <3>1. CASE live \cap OpenOps \subseteq live'
      <4>1. UNCHANGED <<openWait, openAlive>>
        BY <1>3, <3>1 DEF Chain, openVars
      <4> QED BY <3>1, <4>1 DEF HeldInv
    <3>2. CASE ~(live \cap OpenOps \subseteq live')
      <4>1. openWait' = "returned"
        BY <1>3, <3>2, OpenStays DEF Chain, HeldInv
      <4> QED BY <4>1
    <3> QED BY <3>1, <3>2
  <2>3. /\ readWait' # "returned" => readAlive' = TRUE
        /\ readWait' \notin {"start", "returned"} => live' \cap ByteOps # {}
    <3>1. CASE live \cap ByteOps \subseteq live'
      <4>1. UNCHANGED <<readWait, readAlive>>
        BY <1>3, <3>1 DEF Chain, bytesVars
      <4> QED BY <3>1, <4>1 DEF HeldInv
    <3>2. CASE ~(live \cap ByteOps \subseteq live')
      <4>1. readWait' = "returned"
        BY <1>3, <3>2, BytesStay DEF Chain, HeldInv
      <4> QED BY <4>1
    <3> QED BY <3>1, <3>2
  <2> QED BY <2>1, <2>2, <2>3 DEF HeldInv, OpenOps, ByteOps
<1>4. CASE OpenWaits \/ OpenGoesOn
  <2>1. UNCHANGED vars /\ UNCHANGED <<live, readWait, readAlive>>
    BY <1>4 DEF OpenWaits, OpenGoesOn, vars, bytesVars
  <2>2. ChainInv'
    BY <1>1, <2>1, ChainKeeps
  <2>3. openWait' # "returned" => openAlive' = TRUE
    BY <1>4, OpenStays DEF OpenWaits, OpenGoesOn, HeldInv
  <2>4. openWait' = openWait \/ live \cap OpenOps # {}
    BY <1>1, <1>4, OpenStays, AwaitsHeld DEF OpenWaits, OpenGoesOn, HeldInv
  <2> QED BY <2>1, <2>2, <2>3, <2>4 DEF HeldInv, OpenOps, ByteOps
<1>5. CASE BytesWaits \/ BytesGoOn
  <2>1. UNCHANGED vars /\ UNCHANGED <<live, openWait, openAlive>>
    BY <1>5 DEF BytesWaits, BytesGoOn, vars, openVars
  <2>2. ChainInv'
    BY <1>1, <2>1, ChainKeeps
  <2>3. readWait' # "returned" => readAlive' = TRUE
    BY <1>5, BytesStay DEF BytesWaits, BytesGoOn, HeldInv
  <2>4. readWait' = readWait \/ live \cap ByteOps # {}
    BY <1>1, <1>5, BytesStay, AwaitsHeld DEF BytesWaits, BytesGoOn, HeldInv
  <2> QED BY <2>1, <2>2, <2>3, <2>4 DEF HeldInv, OpenOps, ByteOps
<1> QED BY <1>2, <1>3, <1>4, <1>5 DEF StackNext

\* It is an invariant.
LEMMA HeldInvHolds == StackSpec => []HeldInv
<1>1. StackInit => HeldInv
  <2> SUFFICES ASSUME StackInit PROVE HeldInv
    OBVIOUS
  <2>1. ChainInv
    BY ChainInit DEF StackInit
  <2>2. openWait = "start" /\ openAlive = TRUE /\ readWait = "start" /\ readAlive = TRUE
    BY DEF StackInit, Open!Init, Bytes!Init
  <2> QED BY <2>1, <2>2 DEF HeldInv
<1>2. HeldInv /\ [StackNext]_stackVars => HeldInv'
  BY HeldKeeps
<1> QED BY <1>1, <1>2, PTL DEF StackSpec

(* stream.go:35-190, storage.go:36-158.  Whichever calls fail and whatever   *)
(* the operations do, a chain that has been left holds none of the objects   *)
(* it got, and its outcome is what happened: for every size of the stream    *)
(* and every bound on a thumbnail.                                           *)
THEOREM ChainsLeakNothing == StackSpec => []NothingLeaked
<1>1. HeldInv => NothingLeaked
  BY ChainPromises DEF HeldInv
<1> QED BY <1>1, HeldInvHolds, PTL

(* stream.go:104-111, 163-170, storage.go:72-79.  No object is released      *)
(* before the last call on it, and the operation of a wait is held by the    *)
(* chain until WaitTimeout has returned, however many calls of Invoke the    *)
(* operation makes.                                                          *)
THEOREM OperationsHeld == StackSpec => []HeldWhileUsed
<1>1. HeldInv => HeldWhileUsed
  BY ChainPromises DEF HeldInv, HeldWhileUsed
<1> QED BY <1>1, HeldInvHolds, PTL
=============================================================================
