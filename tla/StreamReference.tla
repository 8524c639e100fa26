--------------------------- MODULE StreamReference ---------------------------
(***************************************************************************)
(* internal/winrt: the two ways through the stream references of           *)
(* thumbnails.  ReadRandomAccessStreamReference (stream.go) reads the bytes *)
(* of a reference; RandomAccessStreamReferenceFromFile (storage.go) makes a *)
(* reference from a path, over a StorageFile or else over a file URI.      *)
(*                                                                         *)
(* Each is a chain of COM calls, any of which may fail.  A call is made on *)
(* an object got before and gets the next one, whose release is deferred   *)
(* by the Go function that got it, or by that function's caller when the   *)
(* object is its result.                                                   *)
(*                                                                         *)
(* A nil reference has no bytes: that return is left out.                  *)
(*                                                                         *)
(* External: the size of the stream, and how many bytes ReadAsync delivers: *)
(* the call passes inputStreamOptionsPartial, with which it may complete   *)
(* before the buffer is full.                                              *)
(***************************************************************************)
EXTENDS Naturals, Sequences, SequencesExt

CONSTANT MaxThumbnailBytes \* 16 MiB in the code

ASSUME SizeAssumption == MaxThumbnailBytes \in Nat \ {0}

VARIABLES
    routine,  \* the chain that is walked
    step,     \* index of its next call
    live,     \* the objects that are referenced, ref aside
    held,     \* the calls whose object has its release deferred, as indices
    mode,     \* "call", "unwind" (the deferred releases run) or "done"
    failed,   \* the routines in which a call failed
    size,     \* the stream's size (external)
    got,      \* length of the buffer ReadAsync delivered
    outcome   \* what the caller gets: bytes, a reference, an error, nothing

vars == <<routine, step, live, held, mode, failed, size, got, outcome>>

\* a call on an object that gets an object released by a function
Get(object, on, in) == [get |-> object, on |-> on, in |-> in]
\* a call that gets no object to release
Ask(what, on) == [get |-> what, on |-> on, in |-> "none"]
\* a function returns
Leave(function) == [get |-> "nothing", on |-> "ref", in |-> function]

\* the bytes of ref
Read == <<Get("refStream", "ref", "read"),
          Get("openOp", "refStream", "open"),
          Get("stream", "openOp", "read"),
          Leave("open"),
          Get("randomStream", "stream", "read"),
          Get("inputStream", "randomStream", "read"),
          Ask("size", "randomStream"),
          Get("bufferFactory", "ref", "create"),
          Get("buffer", "bufferFactory", "read"),
          Leave("create"),
          Get("readOp", "inputStream", "input"),
          Get("filled", "readOp", "read"),
          Leave("input"),
          Ask("length", "filled"),
          Get("byteAccess", "filled", "bytes"),
          Ask("bytes", "byteAccess")>>

\* a reference to the file of a path
File == <<Get("fileFactory", "ref", "storage"),
          Get("path", "ref", "storage"),
          Get("fileOp", "fileFactory", "storage"),
          Get("file", "fileOp", "from"),
          Leave("storage"),
          Get("referenceFactory", "ref", "reference"),
          Ask("reference", "referenceFactory")>>

\* a reference to the file's URI
Uri == <<Get("uriFactory", "ref", "string"),
         Get("path", "ref", "string"),
         Get("uri", "uriFactory", "from"),
         Leave("string"),
         Get("referenceFactory", "ref", "reference"),
         Ask("reference", "referenceFactory")>>

Routines == {"read", "file", "uri"}
Script == CASE routine = "read" -> Read
            [] routine = "file" -> File
            [] routine = "uri"  -> Uri

Scripts == Range(Read) \cup Range(File) \cup Range(Uri)
AllObjects == {s.get : s \in {c \in Scripts : c.in # "none"}}
Outcomes == {"pending", "bytes", "reference", "error", "nothing"}

TypeOK == /\ routine \in Routines
          /\ step \in 1..Len(Script)
          /\ live \subseteq AllObjects
          /\ held \subseteq 1..Len(Script)
          /\ mode \in {"call", "unwind", "done"}
          /\ failed \in SUBSET Routines
          /\ size \in 0..(MaxThumbnailBytes + 1)
          /\ got \in 0..size /\ got <= MaxThumbnailBytes
          /\ outcome \in Outcomes

Init == /\ routine \in {"read", "file"}
        /\ step = 1
        /\ live = {}
        /\ held = {}
        /\ mode = "call"
        /\ failed = {}
        /\ size \in 0..(MaxThumbnailBytes + 1)
        /\ got = 0
        /\ outcome = "pending"

Now == Script[step]
Objects(calls) == {Script[i].get : i \in calls}
\* the deferred releases of the functions that have not returned
Outside(function) == {i \in held : Script[i].in # function}

-----------------------------------------------------------------------------
(* Slips: what a step could look like with a mistake in it.  None is part of *)
(* Next; each shows that a property below depends on the step it replaces.   *)

LeaveReleasesResult == \* an inner function also releases what it returns
    /\ mode = "call" /\ Now.get = "nothing"
    /\ held' = Outside(Now.in)
    /\ live' = Objects(held' \ {step - 1})
    /\ step' = step + 1
    /\ UNCHANGED <<routine, mode, failed, size, got, outcome>>

GetUndeferred == \* nothing releases what CreateFromUri and CreateFromFile are called on
    /\ mode = "call"
    /\ Now.in # "none" /\ Now.get \notin {"nothing", "filled"}
    /\ live' = live \cup {Now.get}
    /\ held' = IF Now.in = "reference" THEN held ELSE held \cup {step}
    /\ step' = step + 1
    /\ UNCHANGED <<routine, mode, failed, size, got, outcome>>

-----------------------------------------------------------------------------
(* The calls. *)

Returns(what) == /\ mode' = "unwind"
                 /\ outcome' = what
                 /\ UNCHANGED <<routine, step, live, held, size, got>>

Goes == /\ step' = step + 1
        /\ UNCHANGED <<routine, mode, failed, size, outcome>>

CallFails == /\ mode = "call" /\ Now.get # "nothing"
             /\ Returns("error")
             /\ failed' = failed \cup {routine}

Holds(object) == /\ live' = live \cup {object}
                 /\ held' = held \cup {step}

GetsObject == /\ mode = "call"
              /\ Now.in # "none" /\ Now.get \notin {"nothing", "filled"}
              /\ Holds(Now.get)
              /\ Goes /\ UNCHANGED got

\* inputStreamRead delivers any part of what was asked for
GetsFilled == /\ mode = "call" /\ Now.get = "filled"
              /\ \E n \in 0..size : got' = n
              /\ Holds(Now.get)
              /\ Goes

\* the deferred releases of an inner function that succeeded
FunctionReturns == /\ mode = "call" /\ Now.get = "nothing"
                   /\ held' = Outside(Now.in)
                   /\ live' = live \ Objects(held \ held')
                   /\ Goes /\ UNCHANGED got

AsksSize == /\ mode = "call" /\ Now.get = "size"
            /\ CASE size = 0 -> Returns("nothing") /\ UNCHANGED failed
                 [] size > MaxThumbnailBytes -> /\ Returns("error")
                                                /\ failed' = failed \cup {routine}
                 [] OTHER -> Goes /\ UNCHANGED <<live, held, got>>

AsksLength == /\ mode = "call" /\ Now.get = "length"
              /\ IF got = 0 THEN Returns("nothing") /\ UNCHANGED failed
                 ELSE Goes /\ UNCHANGED <<live, held, got>>

\* the bytes are copied out of the buffer, unless its data pointer is nil
AsksBytes == /\ mode = "call" /\ Now.get = "bytes"
             /\ Returns("bytes") \/ Returns("nothing")
             /\ UNCHANGED failed

\* the caller owns the reference
AsksReference == /\ mode = "call" /\ Now.get = "reference"
                 /\ Returns("reference")
                 /\ UNCHANGED failed

Calls == \/ CallFails \/ GetsObject \/ GetsFilled \/ FunctionReturns
         \/ AsksSize \/ AsksLength \/ AsksBytes \/ AsksReference

-----------------------------------------------------------------------------
(* The deferred releases at the end of a chain, and what follows them. *)

ReleaseLast == /\ mode = "unwind"
               /\ \E last \in held :
                      /\ \A i \in held : i <= last
                      /\ held' = held \ {last}
                      /\ live' = live \ {Script[last].get}
               /\ UNCHANGED <<routine, step, mode, failed, size, got, outcome>>

\* a call of storageFileFromPath failed
FileFailed == /\ routine = "file" /\ outcome = "error"
              /\ File[step].in = "storage" \/ File[step].get = "file"

TriesUri == /\ mode = "unwind" /\ held = {}
            /\ FileFailed
            /\ routine' = "uri"
            /\ step' = 1
            /\ mode' = "call"
            /\ outcome' = "pending"
            /\ UNCHANGED <<live, held, failed, size, got>>

Ends == /\ mode = "unwind" /\ held = {}
        /\ ~FileFailed
        /\ mode' = "done"
        /\ UNCHANGED <<routine, step, live, held, failed, size, got, outcome>>

Next == Calls \/ ReleaseLast \/ TriesUri \/ Ends

Spec == Init /\ [][Next]_vars
-----------------------------------------------------------------------------
(* Properties. *)

(* stream.go:35-190, storage.go:36-158.  Whichever call fails, a chain that  *)
(* has been left holds none of the objects it got, and its outcome is what   *)
(* happened: bytes are at most the maximum and not more than the stream has; *)
(* no error and no bytes means that none were there, or that the buffer had  *)
(* no data pointer; bytes or a reference come of a chain without a failure.  *)
NothingLeaked ==
    /\ TypeOK
    /\ mode = "done" =>
           /\ live = {}
           /\ CASE outcome = "bytes" -> got \in 1..size /\ size <= MaxThumbnailBytes
                                          /\ failed = {}
                [] outcome = "nothing" -> failed = {} /\ (got = 0 \/ Now.get = "bytes")
                [] outcome = "reference" -> routine \notin failed
                [] outcome = "error" -> routine \in failed

(* stream.go:93-206, storage.go:48-171.  No object is released before the    *)
(* last call on it, though inner functions release what they do not return.  *)
UsedWhileHeld == mode = "call" /\ Now.on # "ref" => Now.on \in live

(* stream.go:25 "ReadRandomAccessStreamReference reads all bytes from an     *)
(* IRandomAccessStreamReference."  ReadAsync is called once, with            *)
(* inputStreamOptionsPartial, and the bytes it delivers are all there are.   *)
ReadsAllBytes == mode = "done" /\ outcome = "bytes" => got = size
=============================================================================
