----------------------------- MODULE Creator_proofs -----------------------------
(***************************************************************************)
(* Proofs about Creator, for any setters of any kinds, any finite number   *)
(* of calls of Close, any presses, button properties and capacity of the   *)
(* channel: NothingLeft, NilMeansShown and MetadataWhole.                  *)
(*                                                                         *)
(* LeftInv is about what the creator holds: which function runs, where it  *)
(* is, who holds c.mu, where every object is and when a callback may run.  *)
(* It is inductive, and implies NothingLeft.                               *)
(*                                                                         *)
(* ShownInv is about what the display shows: a function that runs started  *)
(* last, so whatever is put after a setter was through is put by a later   *)
(* one.  It is inductive together with LeftInv.                            *)
(*                                                                         *)
(* A script is a sequence of calls; what the proofs need of the scripts is *)
(* stated once, in SetterScripts, MakerScript and Prepared.                *)
(***************************************************************************)
EXTENDS Creator, FiniteSetTheorems, TLAPS
-----------------------------------------------------------------------------
(* The invariant. *)

\* what the executor keeps: functions run one at a time, an answer is what a function returned
ExecutorInv ==
    /\ \A j, k \in Jobs : Running(j) /\ Running(k) => j = k
    /\ \A j \in Jobs :
           /\ status[j] \in {"new", "submitted", "running"} =>
                  outcome[j] = "nothing" /\ answer[j] = "nothing"
           /\ status[j] = "done" => outcome[j] \in Outcomes /\ answer[j] = "nothing"
           /\ status[j] = "answered" => \/ answer[j] = outcome[j]
                                        \/ answer[j] = "refused" /\ outcome[j] = "nothing"
    /\ stopped => Executor!Idle

\* what the place of New and of a method says of its function
PlaceInv ==
    /\ status[Maker] = "new" <=> new = "start"
    /\ status[Maker] = "answered" <=> new \notin {"start", "making"}
    /\ status[Undoer] = "new" <=> new \in {"start", "making", "failing", "ok"}
    /\ status[Undoer] = "answered" <=> new \in {"closeWorker", "failed"}
    /\ new = "ok" => outcome[Maker] = "nil"
    /\ new \notin {"start", "making", "ok"} => outcome[Maker] # "nil"
    /\ new # "ok" => \A j \in Setters \cup Closers : call[j] = "idle"
    /\ \A j \in Setters \cup Closers :
           /\ status[j] = "new" <=> call[j] \in {"idle", "entry", "refused"}
           /\ status[j] = "answered" <=> call[j] \in {"stopping", "returned"}

\* where the function that runs is
StepInv ==
    /\ step = "none" <=> Executor!Idle
    /\ \A c \in Setters : Running(c) => step \in {"lock", "script"}
    /\ Running(Maker) => step = "script"
    /\ \A x \in Closers \cup {Undoer} :
           Running(x) => step \in {"lock", "closeHandler", "drain", "release"}
    /\ step = "script" => pos > 0

\* who holds c.mu has found the Creator open, and it stays open; one Close has closed it
LockInv ==
    /\ locked <=> step = "script" /\ ~Running(Maker)
    /\ locked => closed = FALSE
    /\ closed <=> \E x \in Closers : status[x] # "new"
    /\ \A x, y \in Closers : status[x] # "new" /\ status[y] # "new" => x = y

\* every object is in a field or in the copies of closeWinRT, or is local to a function that runs
FieldInv ==
    /\ held \ Locals = (fields \cup taken) \ {"ButtonEvent"}
    /\ IF step \in {"closeHandler", "drain", "release"} THEN fields = {} ELSE taken = {}
    /\ step # "script" => held \cap Locals = {}
    /\ status[Maker] \in {"new", "submitted"} => fields = {}
    /\ Running(Maker) => \A i \in 1..(pos - 1) :
                            ScriptOf(Maker)[i] \in Fields => ScriptOf(Maker)[i] \in fields
    /\ outcome[Maker] = "nil" /\ closed = FALSE => fields = Fields \cup {"ButtonEvent"}
    /\ \A x \in Closers \cup {Undoer} : status[x] \in {"done", "answered"} => fields = {}

\* a callback runs only while the handler is registered and not closed
GateInv ==
    /\ active # {} => registered
    /\ phase = "closed" => active = {}
    /\ registered => \/ "ButtonEvent" \in fields
                     \/ step \in {"closeHandler", "drain"}
                     \/ phase = "closed"

\* New fails and Close returns only when the worker has stopped
StopInv == /\ new = "failed" => stopped
           /\ \A x \in Closers : call[x] = "returned" => stopped

\* the function that runs is the last that started
Started == {j \in Jobs : turn[j] # 0}

TurnInv ==
    /\ \A j \in Jobs : turn[j] <= Cardinality(Started)
    /\ \A j \in Jobs : Running(j) => turn[j] = Cardinality(Started)

\* what is left of the work of a function that puts, up to its place and once it is done
PutInv ==
    /\ \A j \in Writers : Running(j) /\ step = "script" =>
           \A i \in 1..(pos - 1) : LET p == ScriptOf(j)[i] IN
               /\ p \in Properties => put[p] = j
               /\ p \in Shown => shown[p] = j
    /\ \A c \in Setters : outcome[c] = "nil" =>
           \A p \in Visible(KindOf[c]) :
               /\ shown[p] # Nobody /\ turn[shown[p]] >= turn[c]
               /\ p \in Display => put[p] # Nobody /\ turn[put[p]] >= turn[c]

\* metadata is put together, and shown together
PutsMetadata(j) == j = Maker \/ (j \in Setters /\ KindOf[j] = "media")
Whole(screen) == screen["Title"] = screen["Artist"] /\ screen["Title"] = screen["Type"]

MetadataInv ==
    (\A j \in Writers : outcome[j] # "failed") =>
        /\ Whole(shown)
        /\ \/ Whole(put)
           \/ step = "script" /\ \E j \in Writers : Running(j) /\ PutsMetadata(j)

\* only a function that has started has a turn
UnstartedInv == \A j \in Jobs : status[j] \in {"new", "submitted"} => turn[j] = 0

LeftInv == /\ TypeOK /\ UnstartedInv /\ ExecutorInv
           /\ PlaceInv /\ StepInv /\ LockInv
           /\ FieldInv /\ GateInv /\ StopInv

ShownInv == TurnInv /\ PutInv /\ MetadataInv
-----------------------------------------------------------------------------
(* The scripts. *)

\* everything a script may have
Items == ButtonProperties \cup
    {"IsEnabled", "PlaybackStatus", "PlaybackRate", "Timeline", "Type", "AppMediaId", "Title",
     "Artist", "Thumbnail", "MediaPlayer", "MediaPlayer2", "Smtc", "Smtc2", "Display",
     "MusicProperties", "StreamReference", "TimelineProperties", "Update", "Register",
     "Unsupported"}

\* A script after another.
LEMMA Concat ==
    ASSUME NEW S, NEW s \in Seq(S), NEW t \in Seq(S)
    PROVE  /\ s \o t \in Seq(S) /\ Len(s) \in Nat /\ Len(t) \in Nat
           /\ Len(s \o t) = Len(s) + Len(t)
           /\ \A i \in 1..Len(s) : (s \o t)[i] = s[i]
           /\ \A i \in 1..Len(t) : (s \o t)[Len(s) + i] = t[i]
OBVIOUS

\* Sequences of one length with the same items are equal.
LEMMA SeqEqual ==
    ASSUME NEW S, NEW s \in Seq(S), NEW t \in Seq(S), Len(s) = Len(t),
           \A i \in 1..Len(s) : s[i] = t[i]
    PROVE  s = t
OBVIOUS

\* The scripts of setTimelineInfoLocked.
LEMMA TimelineScripts ==
    /\ setTimelineInfoLocked(FALSE) = <<"TimelineProperties", "Timeline">>
    /\ setTimelineInfoLocked(TRUE) = <<"TimelineProperties", "PlaybackRate", "Timeline">>
<1> DEFINE a == <<"TimelineProperties">>
           b == <<"PlaybackRate">>
           c == <<"Timeline">>
           ac == <<"TimelineProperties", "Timeline">>
           abc == <<"TimelineProperties", "PlaybackRate", "Timeline">>
<1>1. a \in Seq(Items) /\ b \in Seq(Items) /\ c \in Seq(Items)
  BY DEF Items
<1>2. /\ Len(a) = 1 /\ a[1] = "TimelineProperties"
      /\ Len(b) = 1 /\ b[1] = "PlaybackRate"
      /\ Len(c) = 1 /\ c[1] = "Timeline"
  OBVIOUS
<1>3. /\ ac \in Seq(Items) /\ Len(ac) = 2 /\ ac[1] = "TimelineProperties" /\ ac[2] = "Timeline"
      /\ abc \in Seq(Items) /\ Len(abc) = 3 /\ abc[1] = "TimelineProperties"
      /\ abc[2] = "PlaybackRate" /\ abc[3] = "Timeline"
  BY DEF Items
<1>4. a \o <<>> = a
  OBVIOUS
<1>5. setTimelineInfoLocked(FALSE) = a \o c
  BY <1>4 DEF setTimelineInfoLocked
<1>6. setTimelineInfoLocked(TRUE) = (a \o b) \o c
  BY DEF setTimelineInfoLocked
<1> HIDE DEF a, b, c, ac, abc
<1>7. a \o c = ac
  <2>1. a \o c \in Seq(Items) /\ Len(a \o c) = 2 /\ (a \o c)[1] = a[1] /\ (a \o c)[1 + 1] = c[1]
    BY <1>1, <1>2, Concat
  <2>2. \A i \in 1..2 : (a \o c)[i] = ac[i]
    BY <1>2, <1>3, <2>1
  <2> QED BY <1>3, <2>1, <2>2, SeqEqual
<1>8. (a \o b) \o c = abc
  <2>1. a \o b \in Seq(Items) /\ Len(a \o b) = 2 /\ (a \o b)[1] = a[1] /\ (a \o b)[1 + 1] = b[1]
    BY <1>1, <1>2, Concat
  <2>2. /\ (a \o b) \o c \in Seq(Items) /\ Len((a \o b) \o c) = 3
        /\ ((a \o b) \o c)[1] = (a \o b)[1] /\ ((a \o b) \o c)[2] = (a \o b)[2]
        /\ ((a \o b) \o c)[2 + 1] = c[1]
    BY <1>1, <1>2, <2>1, Concat
  <2>3. \A i \in 1..3 : ((a \o b) \o c)[i] = abc[i]
    BY <1>2, <1>3, <2>1, <2>2
  <2> QED BY <1>3, <2>2, <2>3, SeqEqual
<1> QED BY <1>5, <1>6, <1>7, <1>8 DEF ac, abc

\* The script of each kind of setter.
LEMMA KindScripts ==
    /\ Script("enabled") = <<"IsEnabled">>
    /\ Script("buttons") = ButtonPuts
    /\ Script("advanced") = <<"Unsupported">>
    /\ Script("status") = <<"PlaybackStatus">>
    /\ Script("media") = <<"Type", "MusicProperties", "Title", "Artist", "Update">>
    /\ Script("thumbnail") = <<"StreamReference", "Thumbnail", "Update">>
    /\ Script("timeline") = <<"TimelineProperties", "Timeline">>
    /\ Script("timelineRate") = <<"TimelineProperties", "PlaybackRate", "Timeline">>
<1>1. Script("enabled") = <<"IsEnabled">>
  BY DEF Script
<1>2. Script("buttons") = ButtonPuts
  BY DEF Script, setEnabledButtonsLocked
<1>3. Script("advanced") = <<"Unsupported">>
  BY DEF Script, setEnabledButtonsLocked
<1>4. Script("status") = <<"PlaybackStatus">>
  BY DEF Script
<1>5. Script("media") = <<"Type", "MusicProperties", "Title", "Artist", "Update">>
  BY DEF Script, setMediaInfoLocked
<1>6. Script("thumbnail") = <<"StreamReference", "Thumbnail", "Update">>
  BY DEF Script, setThumbnailFromFileLocked
<1>7. Script("timeline") = <<"TimelineProperties", "Timeline">>
  BY TimelineScripts DEF Script
<1>8. Script("timelineRate") = <<"TimelineProperties", "PlaybackRate", "Timeline">>
  BY TimelineScripts DEF Script
<1> QED BY <1>1, <1>2, <1>3, <1>4, <1>5, <1>6, <1>7, <1>8

\* The properties of the buttons, each put and shown at once.
LEMMA ButtonItems ==
    /\ ButtonPuts \in Seq(ButtonProperties) /\ Len(ButtonPuts) \in Nat \ {0}
    /\ DOMAIN ButtonPuts = 1..Len(ButtonPuts)
    /\ \A i \in 1..Len(ButtonPuts) : ButtonPuts[i] \in ButtonProperties /\ ButtonPuts[i] \in Shown
    /\ ToSet(ButtonPuts) \subseteq ButtonProperties
<1>1. ButtonPuts \in Seq(ButtonProperties) /\ Len(ButtonPuts) \in Nat \ {0}
  BY ButtonAssumption
<1>2. DOMAIN ButtonPuts = 1..Len(ButtonPuts)
  BY <1>1
<1>3. \A i \in 1..Len(ButtonPuts) : ButtonPuts[i] \in ButtonProperties
  BY <1>1
<1> QED BY <1>1, <1>2, <1>3 DEF ToSet, Shown

\* A property is no object; an object of a field is not local to its function.
LEMMA ItemKinds ==
    /\ \A p \in Shown : p \notin Fields \cup Scratch \cup Display \cup {"Register", "Update"}
    /\ \A p \in Display : p \notin Fields \cup Scratch \cup {"Register", "Update"}
    /\ \A p \in Fields :
           p \notin Locals \cup Properties \cup {"Register", "Update", "ButtonEvent"}
    /\ Scratch \subseteq Locals
BY ButtonItems DEF Shown, Display, Fields, Scratch, Locals, Properties, ButtonProperties

\* The script of a setter gets no object of a field; what it puts to be shown by Update it
\* shows with its last call; only SetMediaInfo puts the type, the title and the artist.
LEMMA SetterScripts ==
    ASSUME NEW k \in Kinds
    PROVE  /\ Script(k) \in Seq(Items) /\ Len(Script(k)) \in Nat \ {0}
           /\ DOMAIN Script(k) = 1..Len(Script(k))
           /\ \A i \in 1..Len(Script(k)) :
                 /\ Script(k)[i] \notin Fields \cup {"Register"}
                 /\ Script(k)[i] \in Display => Script(k)[Len(Script(k))] = "Update"
                 /\ k # "media" => Script(k)[i] \notin {"Type", "Title", "Artist"}
           /\ k = "media" => /\ Len(Script(k)) = 5
                             /\ Script(k)[1] = "Type" /\ Script(k)[3] = "Title"
                             /\ Script(k)[4] = "Artist"
                             /\ \A i \in 1..5 : Script(k)[i] = "Update" => i = 5
<1>1. CASE k = "enabled"
  <2>1. Script(k) = <<"IsEnabled">>
    BY <1>1, KindScripts
  <2>2. Script(k) \in Seq(Items)
    BY <2>1 DEF Items
  <2>3. /\ Len(Script(k)) = 1 /\ DOMAIN Script(k) = 1..1
        /\ Script(k)[1] = "IsEnabled"
    BY <2>1
  <2> QED BY <1>1, <2>2, <2>3 DEF Fields, Display
<1>2. CASE k = "buttons"
  <2>1. Script(k) = ButtonPuts
    BY <1>2, KindScripts
  <2>2. \A i \in 1..Len(ButtonPuts) :
           /\ ButtonPuts[i] \in Items
           /\ ButtonPuts[i] \notin Fields \cup {"Register"} \cup Display
    BY ButtonItems, ItemKinds DEF Items
  <2>3. ButtonPuts \in Seq(Items)
    BY <2>2, ButtonItems
  <2>4. {"Type", "Title", "Artist"} \subseteq Display
    BY DEF Display
  <2> QED BY <1>2, <2>1, <2>2, <2>3, <2>4, ButtonItems
<1>3. CASE k = "advanced"
  <2>1. Script(k) = <<"Unsupported">>
    BY <1>3, KindScripts
  <2>2. Script(k) \in Seq(Items)
    BY <2>1 DEF Items
  <2>3. /\ Len(Script(k)) = 1 /\ DOMAIN Script(k) = 1..1
        /\ Script(k)[1] = "Unsupported"
    BY <2>1
  <2> QED BY <1>3, <2>2, <2>3 DEF Fields, Display
<1>4. CASE k = "status"
  <2>1. Script(k) = <<"PlaybackStatus">>
    BY <1>4, KindScripts
  <2>2. Script(k) \in Seq(Items)
    BY <2>1 DEF Items
  <2>3. /\ Len(Script(k)) = 1 /\ DOMAIN Script(k) = 1..1
        /\ Script(k)[1] = "PlaybackStatus"
    BY <2>1
  <2> QED BY <1>4, <2>2, <2>3 DEF Fields, Display
<1>5. CASE k = "media"
  <2>1. Script(k) = <<"Type", "MusicProperties", "Title", "Artist", "Update">>
    BY <1>5, KindScripts
  <2>2. Script(k) \in Seq(Items)
    BY <2>1 DEF Items
  <2>3. /\ Len(Script(k)) = 5 /\ DOMAIN Script(k) = 1..5
        /\ Script(k)[1] = "Type" /\ Script(k)[2] = "MusicProperties" /\ Script(k)[3] = "Title"
        /\ Script(k)[4] = "Artist" /\ Script(k)[5] = "Update"
    BY <2>1
  <2> QED BY <1>5, <2>2, <2>3 DEF Fields, Display
<1>6. CASE k = "thumbnail"
  <2>1. Script(k) = <<"StreamReference", "Thumbnail", "Update">>
    BY <1>6, KindScripts
  <2>2. Script(k) \in Seq(Items)
    BY <2>1 DEF Items
  <2>3. /\ Len(Script(k)) = 3 /\ DOMAIN Script(k) = 1..3
        /\ Script(k)[1] = "StreamReference" /\ Script(k)[2] = "Thumbnail"
        /\ Script(k)[3] = "Update"
    BY <2>1
  <2> QED BY <1>6, <2>2, <2>3 DEF Fields, Display
<1>7. CASE k = "timeline"
  <2>1. Script(k) = <<"TimelineProperties", "Timeline">>
    BY <1>7, KindScripts
  <2>2. Script(k) \in Seq(Items)
    BY <2>1 DEF Items
  <2>3. /\ Len(Script(k)) = 2 /\ DOMAIN Script(k) = 1..2
        /\ Script(k)[1] = "TimelineProperties" /\ Script(k)[2] = "Timeline"
    BY <2>1
  <2> QED BY <1>7, <2>2, <2>3 DEF Fields, Display
<1>8. CASE k = "timelineRate"
  <2>1. Script(k) = <<"TimelineProperties", "PlaybackRate", "Timeline">>
    BY <1>8, KindScripts
  <2>2. Script(k) \in Seq(Items)
    BY <2>1 DEF Items
  <2>3. /\ Len(Script(k)) = 3 /\ DOMAIN Script(k) = 1..3
        /\ Script(k)[1] = "TimelineProperties" /\ Script(k)[2] = "PlaybackRate"
        /\ Script(k)[3] = "Timeline"
    BY <2>1
  <2> QED BY <1>8, <2>2, <2>3 DEF Fields, Display
<1> QED BY <1>1, <1>2, <1>3, <1>4, <1>5, <1>6, <1>7, <1>8 DEF Kinds

Has(s, p) == \E i \in 1..Len(s) : s[i] = p

\* Type, title and artist come before any Update
Prepared(s) == \E i, j, k \in 1..Len(s) :
                  /\ s[i] = "Type" /\ s[j] = "Title" /\ s[k] = "Artist"
                  /\ \A n \in 1..Len(s) : s[n] = "Update" => i < n /\ j < n /\ k < n

\* What a script has it still has with another after it, and the order of its items.
LEMMA After ==
    ASSUME NEW s \in Seq(Items), NEW t \in Seq(Items)
    PROVE  /\ \A p : Has(s \o t, p) <=> Has(s, p) \/ Has(t, p)
           /\ Prepared(s) => Prepared(s \o t)
<1>1. /\ s \o t \in Seq(Items) /\ Len(s) \in Nat /\ Len(t) \in Nat
      /\ Len(s \o t) = Len(s) + Len(t)
      /\ \A i \in 1..Len(s) : (s \o t)[i] = s[i]
      /\ \A i \in 1..Len(t) : (s \o t)[Len(s) + i] = t[i]
  BY Concat
<1>2. 1..Len(s \o t) = (1..Len(s)) \cup {Len(s) + i : i \in 1..Len(t)}
  <2>1. ASSUME NEW n \in 1..Len(s \o t), n \notin 1..Len(s)
        PROVE  n - Len(s) \in 1..Len(t) /\ n = Len(s) + (n - Len(s))
    BY <1>1, <2>1
  <2>2. \A i \in 1..Len(t) : Len(s) + i \in 1..Len(s \o t)
    BY <1>1
  <2>3. \A i \in 1..Len(s) : i \in 1..Len(s \o t)
    BY <1>1
  <2> QED BY <2>1, <2>2, <2>3
<1> DEFINE w == s \o t
<1> HIDE DEF w
<1>3. \A p : Has(w, p) <=> Has(s, p) \/ Has(t, p)
  BY <1>1, <1>2 DEF Has, w
<1>4. ASSUME Prepared(s) PROVE Prepared(w)
  <2>1. PICK i, j, k \in 1..Len(s) :
            /\ s[i] = "Type" /\ s[j] = "Title" /\ s[k] = "Artist"
            /\ \A n \in 1..Len(s) : s[n] = "Update" => i < n /\ j < n /\ k < n
    BY <1>4 DEF Prepared
  <2>2. i \in 1..Len(w) /\ j \in 1..Len(w) /\ k \in 1..Len(w)
    BY <1>1 DEF w
  <2>3. w[i] = "Type" /\ w[j] = "Title" /\ w[k] = "Artist"
    BY <1>1, <2>1 DEF w
  <2>4. ASSUME NEW n \in 1..Len(w), w[n] = "Update" PROVE i < n /\ j < n /\ k < n
    <3>1. CASE n \in 1..Len(s)
      BY <1>1, <2>1, <2>4, <3>1 DEF w
    <3>2. CASE n \notin 1..Len(s)
      BY <1>1, <2>4, <3>2 DEF w
    <3> QED BY <3>1, <3>2
  <2> QED BY <2>2, <2>3, <2>4 DEF Prepared
<1> QED BY <1>3, <1>4 DEF w

\* Type, then anything but Update, and then title, artist and Update.
LEMMA MetadataFollows ==
    ASSUME NEW s \in Seq(Items), NEW m \in Seq(Items)
    PROVE  /\ ~Has(s, "Update") /\ Has(s, "Type")
           /\ Len(m) = 4 /\ m[2] = "Title" /\ m[3] = "Artist"
           /\ \A i \in 1..4 : m[i] = "Update" => i = 4
           => Prepared(s \o m)
<1> DEFINE w == s \o m
<1>1. /\ Len(s) \in Nat /\ Len(w) = Len(s) + Len(m)
      /\ \A n \in 1..Len(s) : w[n] = s[n]
      /\ \A n \in 1..Len(m) : w[Len(s) + n] = m[n]
  BY Concat
<1> HIDE DEF w
<1> SUFFICES ASSUME ~Has(s, "Update"), Has(s, "Type"),
                    Len(m) = 4, m[2] = "Title", m[3] = "Artist",
                    \A i \in 1..4 : m[i] = "Update" => i = 4
             PROVE  Prepared(w)
  BY DEF w
<1>2. PICK i \in 1..Len(s) : s[i] = "Type"
  BY DEF Has
<1>3. \A n \in 1..Len(w) : w[n] = "Update" => n > Len(s) + 3
  <2> SUFFICES ASSUME NEW n \in 1..Len(w), w[n] = "Update" PROVE n > Len(s) + 3
    OBVIOUS
  <2>1. n \notin 1..Len(s)
    BY <1>1 DEF Has
  <2>2. n - Len(s) \in 1..4 /\ n = Len(s) + (n - Len(s))
    BY <1>1, <2>1
  <2>3. m[n - Len(s)] = "Update"
    BY <1>1, <2>2
  <2> QED BY <1>1, <2>2, <2>3
<1>4. w[i] = "Type" /\ w[Len(s) + 2] = "Title" /\ w[Len(s) + 3] = "Artist"
  BY <1>1, <1>2
<1>5. /\ i \in 1..Len(w) /\ Len(s) + 2 \in 1..Len(w) /\ Len(s) + 3 \in 1..Len(w)
      /\ i <= Len(s)
  BY <1>1
<1>6. \A n \in 1..Len(w) : w[n] = "Update" => i < n /\ Len(s) + 2 < n /\ Len(s) + 3 < n
  BY <1>1, <1>3, <1>5
<1> QED BY <1>4, <1>5, <1>6 DEF Prepared

\* What comes before the last item.
LEMMA OneMore ==
    ASSUME NEW s \in Seq(Items), NEW l \in Seq(Items), Len(l) = 1
    PROVE  /\ Len(s) \in Nat /\ Len(s \o l) = Len(s) + 1
           /\ (s \o l)[Len(s) + 1] = l[1]
           /\ \A p : Has(s, p) => \E i \in 1..Len(s) : (s \o l)[i] = p
<1>1. /\ Len(s) \in Nat /\ Len(s \o l) = Len(s) + Len(l)
      /\ \A i \in 1..Len(s) : (s \o l)[i] = s[i]
      /\ \A i \in 1..Len(l) : (s \o l)[Len(s) + i] = l[i]
  BY Concat
<1> QED BY <1>1 DEF Has

\* The script of New: it gets every field before it registers for the buttons.
LEMMA MakerScript ==
    LET s == ScriptOf(Maker) IN
    /\ s \in Seq(Items) /\ Len(s) \in Nat \ {0}
    /\ s[Len(s)] = "Register"
    /\ \A p \in Fields : \E i \in 1..(Len(s) - 1) : s[i] = p
    /\ Prepared(s)
<1> DEFINE objects == <<"MediaPlayer", "MediaPlayer2", "Smtc", "Smtc2">>
           display == <<"Display", "Type", "AppMediaId">>
           media   == Tail(setMediaInfoLocked)
           last    == <<"Register">>
           s1 == objects \o Script("enabled")
           s2 == s1 \o Script("buttons")
           s3 == s2 \o Script("status")
           s4 == s3 \o display
           s5 == s4 \o media
           s6 == s5 \o Optional("thumbnail")
           s7 == s6 \o Optional("timeline")
<1>1. ScriptOf(Maker) = s7 \o last
  BY DEF ScriptOf, initWithMediaPlayer
<1>2. /\ objects \in Seq(Items) /\ Has(objects, "MediaPlayer") /\ Has(objects, "Smtc")
      /\ Has(objects, "Smtc2") /\ ~Has(objects, "Update")
  BY DEF Items, Has
<1>3. /\ display \in Seq(Items) /\ Has(display, "Display") /\ Has(display, "Type")
      /\ ~Has(display, "Update")
  BY DEF Items, Has
<1>4. last \in Seq(Items) /\ Len(last) = 1 /\ last[1] = "Register"
  BY DEF Items
<1>5. /\ media \in Seq(Items) /\ Len(media) = 4
      /\ media[2] = "Title" /\ media[3] = "Artist"
      /\ \A i \in 1..4 : media[i] = "Update" => i = 4
  BY DEF setMediaInfoLocked, Items
<1>6. /\ Script("enabled") \in Seq(Items) /\ ~Has(Script("enabled"), "Update")
      /\ Script("status") \in Seq(Items) /\ ~Has(Script("status"), "Update")
  <2>1. Script("enabled") = <<"IsEnabled">> /\ Script("status") = <<"PlaybackStatus">>
    BY KindScripts
  <2>2. Script("enabled") \in Seq(Items) /\ Script("status") \in Seq(Items)
    BY SetterScripts DEF Kinds
  <2>3. /\ Len(Script("enabled")) = 1 /\ Script("enabled")[1] = "IsEnabled"
        /\ Len(Script("status")) = 1 /\ Script("status")[1] = "PlaybackStatus"
    BY <2>1
  <2> QED BY <2>2, <2>3 DEF Has
<1>7. Script("buttons") \in Seq(Items) /\ ~Has(Script("buttons"), "Update")
  <2>1. Script("buttons") \in Seq(Items)
    BY SetterScripts DEF Kinds
  <2>2. \A i \in 1..Len(ButtonPuts) : ButtonPuts[i] # "Update"
    BY ButtonItems DEF ButtonProperties
  <2>3. Script("buttons") = ButtonPuts
    BY KindScripts
  <2> QED BY <2>1, <2>2, <2>3 DEF Has
<1>8. Optional("thumbnail") \in Seq(Items) /\ Optional("timeline") \in Seq(Items)
  BY SetterScripts DEF Optional, Kinds
<1> HIDE DEF objects, display, media, last
<1>9. s1 \in Seq(Items) /\ s2 \in Seq(Items) /\ s3 \in Seq(Items) /\ s4 \in Seq(Items)
  BY <1>2, <1>3, <1>6, <1>7, Concat
<1>10. s5 \in Seq(Items) /\ s6 \in Seq(Items) /\ s7 \in Seq(Items)
  BY <1>5, <1>8, <1>9, Concat
<1>11. /\ ~Has(s4, "Update") /\ Has(s4, "Type")
       /\ \A p \in Fields : Has(s4, p)
  <2>1. ~Has(s1, "Update") /\ ~Has(s2, "Update") /\ ~Has(s3, "Update") /\ ~Has(s4, "Update")
    BY <1>2, <1>3, <1>6, <1>7, <1>9, After
  <2>2. \A p : Has(objects, p) => Has(s1, p) /\ Has(s2, p) /\ Has(s3, p) /\ Has(s4, p)
    BY <1>2, <1>3, <1>6, <1>7, <1>9, After
  <2>3. \A p : Has(display, p) => Has(s4, p)
    BY <1>3, <1>9, After
  <2> QED BY <1>2, <1>3, <2>1, <2>2, <2>3 DEF Fields
<1>12. Prepared(s5)
  BY <1>5, <1>9, <1>11, MetadataFollows
<1>13. /\ \A p \in Fields : Has(s7, p)
       /\ Prepared(s7)
  <2>1. \A p \in Fields : Has(s5, p) /\ Has(s6, p) /\ Has(s7, p)
    BY <1>5, <1>8, <1>9, <1>10, <1>11, After
  <2>2. Prepared(s6) /\ Prepared(s7)
    BY <1>8, <1>10, <1>12, After
  <2> QED BY <2>1, <2>2
<1> HIDE DEF s7
<1>14. Prepared(s7 \o last) /\ s7 \o last \in Seq(Items)
  BY <1>4, <1>10, <1>13, After, Concat
<1>15. /\ Len(s7) \in Nat /\ Len(s7 \o last) = Len(s7) + 1 /\ (s7 \o last)[Len(s7) + 1] = last[1]
       /\ \A p : Has(s7, p) => \E i \in 1..Len(s7) : (s7 \o last)[i] = p
  BY <1>4, <1>10, OneMore
<1> QED BY <1>1, <1>4, <1>13, <1>14, <1>15
-----------------------------------------------------------------------------
(* The executor. *)

\* Initially the executor is idle and nothing has an answer.
LEMMA ExecutorInit == ASSUME Init PROVE ExecutorInv
BY DEF Init, ExecutorInv, Running, Executor!Init, Executor!Nothing

\* the executor keeps it
LEMMA ExecutorKeeps ==
    ASSUME Executor!TypeOK, ExecutorInv, [Executor!Next]_workerVars
    PROVE  Executor!TypeOK' /\ ExecutorInv'
<1> USE DEF ExecutorInv, Running, Executor!TypeOK, Executor!Status, Executor!Nothing,
            Executor!Refused, Outcomes
<1>1. ASSUME NEW j \in Jobs, Executor!Submit(j) PROVE Executor!TypeOK' /\ ExecutorInv'
  BY <1>1 DEF Executor!Submit, Executor!Idle
<1>2. ASSUME NEW j \in Jobs, Executor!Start(j) PROVE Executor!TypeOK' /\ ExecutorInv'
  BY <1>2 DEF Executor!Start, Executor!Idle
<1>3. ASSUME NEW j \in Jobs, NEW o \in Outcomes, Executor!Finish(j, o)
      PROVE  Executor!TypeOK' /\ ExecutorInv'
  BY <1>3 DEF Executor!Finish, Executor!Idle
<1>4. ASSUME NEW j \in Jobs, Executor!Answer(j) PROVE Executor!TypeOK' /\ ExecutorInv'
  BY <1>4 DEF Executor!Answer, Executor!Idle
<1>5. ASSUME NEW j \in Jobs, Executor!Refuse(j) PROVE Executor!TypeOK' /\ ExecutorInv'
  BY <1>5 DEF Executor!Refuse, Executor!Idle
<1>6. CASE Executor!Stop
  BY <1>6 DEF Executor!Stop, Executor!Idle
<1>7. CASE UNCHANGED workerVars
  BY <1>7 DEF workerVars, Executor!Idle
<1> QED BY <1>1, <1>2, <1>3, <1>4, <1>5, <1>6, <1>7 DEF Executor!Next

\* the steps of New and of the methods
Calling == \/ New
           \/ \E j \in Setters \cup Closers : Enter(j)
           \/ \E c \in Setters : Do(c)
           \/ \E x \in Closers : Close(x)

\* what they leave alone
CallingFrame == <<config, held, fields, taken, locked, step, pos, screenVars, turn, buttons,
                  registered, gateVars>>

\* the presses, and the program that receives them
Pressing == (\E d \in Presses : PressArrives(d) \/ PressHandled(d)) \/ Receive

PressingFrame == <<ownVars, step, pos, stopping, screenVars, turn, registered, workerVars>>

\* A caller changes the places of calls and what it gives to the executor.
LEMMA CallingIs == ASSUME Calling
                   PROVE  /\ UNCHANGED CallingFrame
                          /\ \/ \E j \in Jobs : Executor!Submit(j) \/ Executor!Answer(j)
                             \/ \E c \in Setters : Executor!Refuse(c)
                             \/ UNCHANGED workerVars
<1> USE DEF CallingFrame, Jobs
<1>1. CASE New
  BY <1>1 DEF New, StartMaking, Made, StartUndoing, Undone, NewFails
<1>2. ASSUME NEW j \in Setters \cup Closers, Enter(j)
      PROVE  UNCHANGED CallingFrame /\ UNCHANGED workerVars
  BY <1>2 DEF Enter, Moves
<1>3. ASSUME NEW c \in Setters, Do(c)
      PROVE  /\ UNCHANGED CallingFrame
             /\ \/ Executor!Submit(c) \/ Executor!Answer(c) \/ Executor!Refuse(c)
                \/ UNCHANGED workerVars
  BY <1>3 DEF Do, Refused, DoSubmits, DoReturns, WorkerRefuses, Moves
<1>4. ASSUME NEW x \in Closers, Close(x)
      PROVE  /\ UNCHANGED CallingFrame
             /\ Executor!Submit(x) \/ Executor!Answer(x) \/ UNCHANGED workerVars
  BY <1>4 DEF Close, Refused, CloseBegins, StopWorker, CloseReturns, Moves
<1> QED BY <1>1, <1>2, <1>3, <1>4 DEF Calling

\* A press changes what is in the handler and in the channel.
LEMMA PressingIs == ASSUME Pressing PROVE UNCHANGED PressingFrame
BY DEF Pressing, PressingFrame, PressArrives, PressHandled, Receive

\* A call neither starts nor ends a function.
LEMMA CallingKeepsRunning ==
    ASSUME TypeOK, Calling
    PROVE  /\ \A j \in Jobs : Running(j)' <=> Running(j)
           /\ UNCHANGED <<outcome, stopped>>
           /\ Executor!Idle' <=> Executor!Idle
BY CallingIs DEF Running, workerVars, Executor!Submit, Executor!Answer, Executor!Refuse, TypeOK,
                 Executor!TypeOK, Executor!Idle, Jobs

\* every step is a call's, a press or the worker's
LEMMA Steps == [Next]_vars <=> Calling \/ Pressing \/ Worker \/ UNCHANGED vars
BY DEF Next, Calling, Pressing

\* a function returns, or goes on
LEMMA WorkerIs == ASSUME Worker
                  PROVE  \/ \E j \in Jobs : \/ Executor!Start(j)
                                            \/ \E o \in Outcomes : Executor!Finish(j, o)
                         \/ Executor!Stop
                         \/ UNCHANGED workerVars
<1> USE DEF Outcomes
<1>1. ASSUME NEW j \in Jobs, StartJob(j) PROVE Executor!Start(j)
  BY <1>1 DEF StartJob
<1>2. ASSUME NEW c \in Setters, FindsClosed(c) \/ Locks(c)
      PROVE  (\E o \in Outcomes : Executor!Finish(c, o)) \/ UNCHANGED workerVars
  BY <1>2 DEF FindsClosed, Locks, Ends
<1>3. ASSUME NEW j \in Writers, Advances(j) \/ Completes(j) \/ Fails(j)
      PROVE  (\E o \in Outcomes : Executor!Finish(j, o)) \/ UNCHANGED workerVars
  BY <1>3 DEF Advances, Completes, Fails, Ends
<1>4. ASSUME NEW x \in Closers \cup {Undoer}, closeWinRT(x)
      PROVE  (\E o \in Outcomes : Executor!Finish(x, o)) \/ UNCHANGED workerVars
  BY <1>4 DEF closeWinRT, TakeFields, CloseHandler, HandlerClosed, ReleaseFields
<1>5. CASE WorkerStops
  BY <1>5 DEF WorkerStops
<1> QED BY <1>1, <1>2, <1>3, <1>4, <1>5 DEF Worker, Jobs, Writers

\* Every step is one of the serial executor, or leaves it alone.
LEMMA StepOfExecutor == ASSUME [Next]_vars PROVE [Executor!Next]_workerVars
<1>1. CASE Calling
  BY <1>1, CallingIs DEF Executor!Next, Jobs
<1>2. CASE Pressing
  BY <1>2, PressingIs DEF PressingFrame
<1>3. CASE Worker
  BY <1>3, WorkerIs DEF Executor!Next
<1>4. CASE UNCHANGED vars
  BY <1>4 DEF vars
<1> QED BY <1>1, <1>2, <1>3, <1>4, Steps

\* What has begun does not begin again, and what has stopped does not go on.
LEMMA Goes ==
    ASSUME TypeOK, [Next]_vars
    PROVE  /\ \A j \in Jobs : status'[j] \in {"new", "submitted"} =>
                                  status[j] \in {"new", "submitted"}
           /\ stopped => stopped'
BY StepOfExecutor DEF Executor!Next, workerVars, Executor!Submit, Executor!Start, Executor!Finish,
   Executor!Answer, Executor!Refuse, Executor!Stop, TypeOK, Executor!TypeOK, Executor!Status

-----------------------------------------------------------------------------
(* Types. *)

\* There are finitely many functions, so that those that started can be counted.
LEMMA JobsFinite == IsFiniteSet(Jobs)
<1>1. IsFiniteSet({Maker} \cup {Undoer})
  BY FS_Singleton, FS_Union
<1>2. IsFiniteSet(Setters \cup Closers)
  BY JobsAssumption, FS_Union
<1>3. Jobs = (Setters \cup Closers) \cup ({Maker} \cup {Undoer})
  BY DEF Jobs
<1> QED BY <1>1, <1>2, <1>3, FS_Union

\* Another function starts.
LEMMA Starts ==
    ASSUME TypeOK, NEW j \in Jobs, turn[j] = 0
    PROVE  /\ Cardinality(Started) \in Nat
           /\ Cardinality(Started) + 1 \in 0..Cardinality(Jobs)
           /\ Cardinality(Started \cup {j}) = Cardinality(Started) + 1
<1>1. Started \subseteq Jobs /\ j \notin Started
  BY DEF Started
<1>2. IsFiniteSet(Started) /\ Cardinality(Started) \in Nat
  BY <1>1, JobsFinite, FS_Subset, FS_CardinalityType
<1>3. IsFiniteSet(Started \cup {j}) /\ Cardinality(Started \cup {j}) = Cardinality(Started) + 1
  BY <1>1, <1>2, FS_AddElement
<1>4. Cardinality(Started \cup {j}) <= Cardinality(Jobs)
  <2>1. Started \cup {j} \subseteq Jobs
    BY <1>1
  <2> QED BY <2>1, JobsFinite, FS_Subset
<1>5. Cardinality(Jobs) \in Nat
  BY JobsFinite, FS_CardinalityType
<1> QED BY <1>2, <1>3, <1>4, <1>5

\* The script of a function that puts.
LEMMA WriterScripts ==
    ASSUME NEW j \in Writers
    PROVE  ScriptOf(j) \in Seq(Items) /\ Len(ScriptOf(j)) \in Nat \ {0}
<1>1. CASE j = Maker
  BY <1>1, MakerScript
<1>2. CASE j # Maker
  <2>1. j \in Setters /\ KindOf[j] \in Kinds
    BY <1>2, KindAssumption DEF Writers
  <2>2. ScriptOf(j) = Script(KindOf[j])
    BY <1>2 DEF ScriptOf
  <2> QED BY <2>1, <2>2, SetterScripts
<1> QED BY <1>1, <1>2

\* What the call at pos does, by its item.
LEMMA PutsIs ==
    ASSUME TypeOK, NEW j \in Writers, Puts(j)
    PROVE  LET p == Item(j) IN
           \/ /\ p \in Shown
              /\ put' = [put EXCEPT ![p] = j] /\ shown' = [shown EXCEPT ![p] = j]
              /\ registered' = registered /\ fields' = fields
           \/ /\ p \in Display
              /\ put' = [put EXCEPT ![p] = j]
              /\ shown' = shown /\ registered' = registered /\ fields' = fields
           \/ /\ p = "Update"
              /\ put' = put
              /\ shown' = [q \in Properties |-> IF q \in Display THEN put[q] ELSE shown[q]]
              /\ registered' = registered /\ fields' = fields
           \/ /\ p \in Fields
              /\ put' = put /\ shown' = shown /\ registered' = registered
              /\ fields' = fields \cup {p}
           \/ /\ p = "Register"
              /\ put' = put /\ shown' = shown /\ registered' = TRUE
              /\ fields' = fields \cup {"ButtonEvent"}
           \/ /\ p \notin Properties \cup Fields \cup {"Update", "Register"}
              /\ put' = put /\ shown' = shown /\ registered' = registered /\ fields' = fields

<1> DEFINE p == Item(j)
           next == [q \in Properties |-> IF q \in Display THEN put[q] ELSE shown[q]]
<1>1. put' = IF p \in Properties THEN [put EXCEPT ![p] = j] ELSE put
  BY DEF Puts
<1>2. shown' = CASE p \in Shown -> [shown EXCEPT ![p] = j]
                 [] p = "Update" -> next
                 [] OTHER -> shown
  BY DEF Puts
<1>3. registered' = (registered \/ p = "Register") /\ registered \in BOOLEAN
  BY DEF Puts, TypeOK
<1>4. fields' = CASE p \in Fields -> fields \cup {p}
                  [] p = "Register" -> fields \cup {"ButtonEvent"}
                  [] OTHER -> fields
  BY DEF Puts
<1>5. Properties = Shown \cup Display
  BY DEF Properties
<1> HIDE DEF p, next
<1>6. /\ p \in Properties => put' = [put EXCEPT ![p] = j]
      /\ p \notin Properties => put' = put
  BY <1>1
<1>7. /\ p \in Shown => shown' = [shown EXCEPT ![p] = j]
      /\ p = "Update" => shown' = next
      /\ p \notin Shown /\ p # "Update" => shown' = shown
  BY <1>2, ItemKinds
<1>8. /\ p = "Register" => registered' = TRUE
      /\ p # "Register" => registered' = registered
  BY <1>3
<1>9. /\ p \in Fields => fields' = fields \cup {p}
      /\ p = "Register" => fields' = fields \cup {"ButtonEvent"}
      /\ p \notin Fields /\ p # "Register" => fields' = fields
  BY <1>4, ItemKinds
<1>10. /\ p \in Shown => p \notin Fields \cup Display \cup {"Register", "Update"}
       /\ p \in Display => p \notin Fields \cup {"Register", "Update"}
       /\ p \in Fields => p \notin Properties \cup {"Register", "Update"}
       /\ p \in {"Register", "Update"} => p \notin Properties \cup Fields
  BY <1>5, ItemKinds
<1> QED BY <1>5, <1>6, <1>7, <1>8, <1>9, <1>10 DEF p, next

\* types, for what a function puts
LEMMA PutsTypes ==
    ASSUME TypeOK, NEW j \in Writers, Puts(j)
    PROVE  /\ put' \in [Properties -> Writers \cup {Nobody}]
           /\ shown' \in [Properties -> Writers \cup {Nobody}]
           /\ registered' \in BOOLEAN
           /\ fields' \subseteq Fields \cup {"ButtonEvent"}
<1>1. /\ put \in [Properties -> Writers \cup {Nobody}]
      /\ shown \in [Properties -> Writers \cup {Nobody}]
      /\ registered \in BOOLEAN /\ fields \subseteq Fields \cup {"ButtonEvent"}
  BY DEF TypeOK
<1> DEFINE p == Item(j)
<1>2. \/ /\ p \in Properties
         /\ put' = [put EXCEPT ![p] = j]
         /\ shown' \in {shown, [shown EXCEPT ![p] = j]}
      \/ /\ put' = put
         /\ shown' \in {shown, [q \in Properties |-> IF q \in Display THEN put[q] ELSE shown[q]]}
  BY PutsIs DEF Properties
<1>3. /\ registered' \in {registered, TRUE}
      /\ fields' \subseteq fields \cup Fields \cup {"ButtonEvent"}
  BY PutsIs
<1> HIDE DEF p
<1> QED BY <1>1, <1>2, <1>3

\* types, for every step
LEMMA TypeKeeps == ASSUME TypeOK, ExecutorInv, UnstartedInv, [Next]_vars PROVE TypeOK'
<1>0. Executor!TypeOK'
  BY StepOfExecutor, ExecutorKeeps DEF TypeOK
<1>1. CASE UNCHANGED vars
  BY <1>0, <1>1 DEF TypeOK, vars, ownVars, screenVars, workerVars, gateVars, Gate!TypeOK
<1>2. CASE Calling
  <2>1. UNCHANGED CallingFrame
    BY <1>2, CallingIs
  <2>2. new' \in {"start", "making", "failing", "undoing", "closeWorker", "ok", "failed"}
    BY <1>2 DEF Calling, New, StartMaking, Made, StartUndoing, Undone, NewFails, TypeOK,
         Enter, Do, Refused, DoSubmits, DoReturns, WorkerRefuses, Moves, Close, CloseBegins,
         StopWorker, CloseReturns
  <2>3. closed' \in BOOLEAN /\ stopping' \in BOOLEAN
    BY <1>2 DEF Calling, New, StartMaking, Made, StartUndoing, Undone, NewFails, TypeOK,
         Enter, Do, Refused, DoSubmits, DoReturns, WorkerRefuses, Moves, Close, CloseBegins,
         StopWorker, CloseReturns
  <2>4. call' \in [Setters \cup Closers ->
                     {"idle", "entry", "inDo", "stopping", "refused", "returned"}]
    BY <1>2 DEF Calling, New, StartMaking, Made, StartUndoing, Undone, NewFails, TypeOK,
         Enter, Do, Refused, DoSubmits, DoReturns, WorkerRefuses, Moves, Close, CloseBegins,
         StopWorker, CloseReturns, Goto
  <2> QED BY <1>0, <2>1, <2>2, <2>3, <2>4
          DEF TypeOK, CallingFrame, screenVars, gateVars, Gate!TypeOK
<1>3. CASE Pressing
  <2>1. UNCHANGED PressingFrame
    BY <1>3, PressingIs
  <2>2. Gate!TypeOK'
    BY <1>3 DEF TypeOK, Gate!TypeOK, Pressing, PressArrives, PressHandled, Receive, gateVars,
         Gate!Enter, Gate!TurnAway, Gate!Leave
  <2>3. buttons' \in 0..ButtonCap
    BY <1>3, ButtonAssumption DEF TypeOK, Pressing, PressArrives, PressHandled, Receive
  <2> QED BY <1>0, <2>1, <2>2, <2>3 DEF TypeOK, PressingFrame, ownVars, screenVars
<1>4. ASSUME NEW j \in Jobs, StartJob(j) PROVE TypeOK'
  <2>1. turn[j] = 0
    BY <1>4 DEF UnstartedInv, StartJob, Executor!Start
  <2>2. turn' = [turn EXCEPT ![j] = 1 + Cardinality(Started)]
    BY <1>4 DEF StartJob, Started
  <2>3. turn' \in [Jobs -> 0..Cardinality(Jobs)]
    <3>1. Cardinality(Started) \in Nat /\ Cardinality(Started) + 1 \in 0..Cardinality(Jobs)
      BY <2>1, Starts
    <3>2. 1 + Cardinality(Started) \in 0..Cardinality(Jobs)
      BY <3>1
    <3> QED BY <2>2, <3>2 DEF TypeOK
  <2>4. step' \in {"script", "lock"} /\ pos' \in Nat
    BY <1>4 DEF StartJob
  <2>5. UNCHANGED <<ownVars, stopping, screenVars, buttons, registered, gateVars>>
    BY <1>4 DEF StartJob
  <2>6. Gate!TypeOK'
    BY <2>5 DEF TypeOK, gateVars, Gate!TypeOK
  <2>7. step' \in {"none", "lock", "script", "closeHandler", "drain", "release"}
    BY <2>4
  <2>8. UNCHANGED <<new, config, held, fields, taken, closed, locked, call, stopping, put,
                    shown, buttons, registered>>
    BY <2>5 DEF ownVars, screenVars
  <2>9. pos' \in Nat
    BY <2>4
  <2> QED BY <1>0, <2>3, <2>6, <2>7, <2>8, <2>9 DEF TypeOK
<1>5. ASSUME NEW c \in Setters, FindsClosed(c) \/ Locks(c) PROVE TypeOK'
  <2>1. CASE FindsClosed(c)
    BY <1>0, <2>1 DEF FindsClosed, Ends, TypeOK, screenVars, gateVars, Gate!TypeOK
  <2>2. CASE Locks(c)
    BY <1>0, <2>2 DEF Locks, TypeOK, screenVars, gateVars, Gate!TypeOK
  <2> QED BY <1>5, <2>1, <2>2
<1>6. ASSUME NEW j \in Writers, Advances(j) PROVE TypeOK'
  <2>1. held' \subseteq Fields \cup Locals /\ pos' \in Nat
    BY <1>6 DEF Advances, TypeOK
  <2> QED BY <1>0, <1>6, <2>1, PutsTypes DEF Advances, TypeOK, gateVars, Gate!TypeOK
<1>7. ASSUME NEW j \in Writers, Completes(j) PROVE TypeOK'
  BY <1>0, <1>7, PutsTypes DEF Completes, Ends, TypeOK, gateVars, Gate!TypeOK
<1>8. ASSUME NEW j \in Writers, Fails(j) PROVE TypeOK'
  BY <1>0, <1>8 DEF Fails, Ends, TypeOK, screenVars, gateVars, Gate!TypeOK
<1>9. ASSUME NEW x \in Closers \cup {Undoer}, closeWinRT(x) PROVE TypeOK'
  <2>1. CASE TakeFields(x) \/ ReleaseFields(x)
    BY <1>0, <2>1 DEF TakeFields, ReleaseFields, TypeOK, screenVars, gateVars, Gate!TypeOK
  <2>2. CASE CloseHandler(x) \/ HandlerClosed(x)
    BY <1>0, <2>2 DEF CloseHandler, HandlerClosed, TypeOK, ownVars, screenVars, Gate!TypeOK,
         Gate!BeginClose, Gate!FinishClose
  <2> QED BY <1>9, <2>1, <2>2 DEF closeWinRT
<1>10. CASE WorkerStops
  BY <1>0, <1>10 DEF WorkerStops, TypeOK, ownVars, screenVars, gateVars, Gate!TypeOK
<1> QED BY <1>1, <1>2, <1>3, <1>4, <1>5, <1>6, <1>7, <1>8, <1>9, <1>10, Steps DEF Worker
-----------------------------------------------------------------------------
(* Places. *)

\* A function ends, and only it.
LEMMA FinishIs ==
    ASSUME Executor!TypeOK, ExecutorInv, NEW j \in Jobs, NEW o, Executor!Finish(j, o)
    PROVE  /\ status[j] = "running" /\ status'[j] = "done" /\ outcome'[j] = o
           /\ UNCHANGED <<answer, stopped>>
           /\ \A k \in Jobs : k # j =>
                 /\ status'[k] = status[k] /\ outcome'[k] = outcome[k]
                 /\ status[k] # "running"
           /\ Executor!Idle' = TRUE
BY DEF Executor!Finish, Executor!TypeOK, ExecutorInv, Running, Executor!Idle, Executor!Status

\* A function starts, and only it.
LEMMA StartIs ==
    ASSUME Executor!TypeOK, NEW j \in Jobs, Executor!Start(j)
    PROVE  /\ status[j] = "submitted" /\ status'[j] = "running"
           /\ UNCHANGED <<outcome, answer, stopped>>
           /\ \A k \in Jobs : k # j => status'[k] = status[k] /\ status[k] # "running"
           /\ Executor!Idle = TRUE /\ Executor!Idle' = FALSE /\ ~stopped
BY DEF Executor!Start, Executor!TypeOK, Executor!Idle, Executor!Status

\* The worker does nothing to the calls, and passes through no place that PlaceInv tells apart.
LEMMA WorkerPlaces ==
    ASSUME TypeOK, ExecutorInv, Worker
    PROVE  /\ UNCHANGED <<new, call, closed, config, stopping>>
           /\ \A j \in Jobs : /\ status'[j] = "new" <=> status[j] = "new"
                              /\ status'[j] = "answered" <=> status[j] = "answered"
                              /\ status[j] = "answered" => outcome'[j] = outcome[j]
<1>1. UNCHANGED <<new, call, closed, config, stopping>>
  BY DEF Worker, StartJob, FindsClosed, Locks, Advances, Completes, Fails, closeWinRT, TakeFields,
         CloseHandler, HandlerClosed, ReleaseFields, WorkerStops, ownVars
<1>2. ASSUME NEW j \in Jobs
      PROVE  /\ status'[j] = "new" <=> status[j] = "new"
             /\ status'[j] = "answered" <=> status[j] = "answered"
             /\ status[j] = "answered" => outcome'[j] = outcome[j]
  <2>0. Executor!TypeOK
    BY DEF TypeOK
  <2>1. ASSUME NEW k \in Jobs, Executor!Start(k)
        PROVE  /\ status'[j] = "new" <=> status[j] = "new"
               /\ status'[j] = "answered" <=> status[j] = "answered"
               /\ status[j] = "answered" => outcome'[j] = outcome[j]
    BY <2>0, <2>1, StartIs
  <2>2. ASSUME NEW k \in Jobs, NEW o \in Outcomes, Executor!Finish(k, o)
        PROVE  /\ status'[j] = "new" <=> status[j] = "new"
               /\ status'[j] = "answered" <=> status[j] = "answered"
               /\ status[j] = "answered" => outcome'[j] = outcome[j]
    BY <2>0, <2>2, FinishIs DEF ExecutorInv
  <2>3. CASE Executor!Stop \/ UNCHANGED workerVars
    BY <2>3 DEF Executor!Stop, workerVars
  <2> QED BY <2>1, <2>2, <2>3, WorkerIs
<1> QED BY <1>1, <1>2

\* New, the methods and their functions go on together
LEMMA PlaceKeeps == ASSUME TypeOK, ExecutorInv, PlaceInv, [Next]_vars PROVE PlaceInv'
<1>0. /\ {Maker, Undoer} \cap (Setters \cup Closers) = {} /\ Maker # Undoer
      /\ Setters \cap Closers = {} /\ Jobs = Setters \cup Closers \cup {Maker, Undoer}
  BY JobsAssumption DEF Jobs
<1>1. CASE UNCHANGED vars
  BY <1>1 DEF PlaceInv, vars, ownVars, workerVars
<1>2. CASE Pressing
  BY <1>2, PressingIs DEF PlaceInv, PressingFrame, ownVars, workerVars
<1>3. CASE Worker
  BY <1>0, <1>3, WorkerPlaces DEF PlaceInv, ExecutorInv
<1>4. CASE New
  <2> USE <1>0 DEF PlaceInv, TypeOK, Executor!TypeOK, Executor!Status, ExecutorInv, Outcomes
  <2>1. CASE StartMaking
    BY <2>1 DEF StartMaking, Executor!Submit
  <2>2. CASE Made
    BY <2>2 DEF Made, Executor!Answer
  <2>3. CASE StartUndoing
    BY <2>3 DEF StartUndoing, Executor!Submit
  <2>4. CASE Undone
    BY <2>4 DEF Undone, Executor!Answer
  <2>5. CASE NewFails
    BY <2>5 DEF NewFails, workerVars
  <2> QED BY <1>4, <2>1, <2>2, <2>3, <2>4, <2>5 DEF New
<1>5. ASSUME NEW j \in Setters \cup Closers, Enter(j) PROVE PlaceInv'
  BY <1>0, <1>5 DEF PlaceInv, TypeOK, Enter, Moves, Goto, workerVars
<1>6. ASSUME NEW c \in Setters, Do(c) PROVE PlaceInv'
  <2> USE <1>0 DEF PlaceInv, TypeOK, Executor!TypeOK, Executor!Status, Moves, Goto
  <2>1. CASE Refused(c)
    BY <2>1 DEF Refused, workerVars
  <2>2. CASE DoSubmits(c)
    BY <2>2 DEF DoSubmits, Executor!Submit
  <2>3. CASE DoReturns(c)
    BY <2>3 DEF DoReturns, Executor!Answer
  <2>4. CASE WorkerRefuses(c)
    BY <2>4 DEF WorkerRefuses, Executor!Refuse
  <2> QED BY <1>6, <2>1, <2>2, <2>3, <2>4 DEF Do
<1>7. ASSUME NEW x \in Closers, Close(x) PROVE PlaceInv'
  <2> USE <1>0 DEF PlaceInv, TypeOK, Executor!TypeOK, Executor!Status, Moves, Goto
  <2>1. CASE Refused(x)
    BY <2>1 DEF Refused, workerVars
  <2>2. CASE CloseBegins(x)
    BY <2>2 DEF CloseBegins, Executor!Submit
  <2>3. CASE StopWorker(x)
    BY <2>3 DEF StopWorker, Executor!Answer
  <2>4. CASE CloseReturns(x)
    BY <2>4 DEF CloseReturns, workerVars
  <2> QED BY <1>7, <2>1, <2>2, <2>3, <2>4 DEF Close
<1> QED BY <1>1, <1>2, <1>3, <1>4, <1>5, <1>6, <1>7, Steps DEF Calling

\* where the function that runs may be
LEMMA StepKeeps == ASSUME TypeOK, ExecutorInv, StepInv, [Next]_vars PROVE StepInv'
<1>0. /\ {Maker, Undoer} \cap (Setters \cup Closers) = {} /\ Maker # Undoer
      /\ Setters \cap Closers = {} /\ Jobs = Setters \cup Closers \cup {Maker, Undoer}
      /\ Writers = Setters \cup {Maker} /\ Executor!TypeOK
  BY JobsAssumption DEF Jobs, Writers, TypeOK
<1>1. CASE UNCHANGED vars
  BY <1>1 DEF StepInv, vars, workerVars, Running, Executor!Idle
<1>2. CASE Pressing
  BY <1>2, PressingIs DEF StepInv, PressingFrame, workerVars, Running, Executor!Idle
<1>3. CASE Calling
  BY <1>0, <1>3, CallingKeepsRunning, CallingIs DEF StepInv, CallingFrame
<1>4. ASSUME NEW j \in Jobs, StartJob(j) PROVE StepInv'
  <2>1. /\ step' = IF j = Maker THEN "script" ELSE "lock"
        /\ pos' = IF j = Maker THEN 1 ELSE 0
    BY <1>4 DEF StartJob
  <2>2. Executor!Idle' = FALSE /\ \A k \in Jobs : Running(k)' => k = j
    BY <1>0, <1>4, StartIs DEF StartJob, Running
  <2> QED BY <1>0, <2>1, <2>2 DEF StepInv
<1>5. ASSUME NEW j \in Jobs, NEW o, Executor!Finish(j, o), step' = "none" PROVE StepInv'
  <2>1. Executor!Idle' = TRUE /\ \A k \in Jobs : ~Running(k)'
    BY <1>0, <1>5, FinishIs DEF Running
  <2> QED BY <1>0, <1>5, <2>1 DEF StepInv
<1>6. ASSUME NEW j \in Jobs, Running(j), UNCHANGED workerVars,
             \/ j \in Writers /\ step' = "script" /\ pos' > 0
             \/ j \in Closers \cup {Undoer} /\ step' \in {"closeHandler", "drain", "release"}
      PROVE  StepInv'
  <2>1. \A k \in Jobs : Running(k)' <=> k = j
    BY <1>6 DEF ExecutorInv, Running, workerVars
  <2>2. Executor!Idle' = FALSE
    BY <1>6, <2>1 DEF Executor!Idle, Running
  <2> QED BY <1>0, <1>6, <2>1, <2>2 DEF StepInv
<1>7. CASE WorkerStops
  BY <1>7 DEF WorkerStops, Executor!Stop, StepInv, Running, Executor!Idle
<1>8. ASSUME NEW c \in Setters, FindsClosed(c) \/ Locks(c) PROVE StepInv'
  BY <1>0, <1>5, <1>6, <1>8 DEF FindsClosed, Locks, Ends
<1>9. ASSUME NEW j \in Writers, Advances(j) \/ Completes(j) \/ Fails(j) PROVE StepInv'
  <2>1. CASE Advances(j)
    <3>1. Running(j) /\ UNCHANGED workerVars /\ step' = "script" /\ pos' > 0
      BY <2>1 DEF Advances, StepInv, TypeOK
    <3> QED BY <1>0, <1>6, <3>1
  <2>2. CASE Completes(j) \/ Fails(j)
    BY <1>0, <1>5, <2>2 DEF Completes, Fails, Ends
  <2> QED BY <1>9, <2>1, <2>2
<1>10. ASSUME NEW x \in Closers \cup {Undoer}, closeWinRT(x) PROVE StepInv'
  <2>1. CASE TakeFields(x) \/ CloseHandler(x) \/ HandlerClosed(x)
    <3>1. Running(x) /\ UNCHANGED workerVars /\ step' \in {"closeHandler", "drain", "release"}
      BY <2>1 DEF TakeFields, CloseHandler, HandlerClosed
    <3> QED BY <1>0, <1>6, <3>1
  <2>2. CASE ReleaseFields(x)
    BY <1>0, <1>5, <2>2 DEF ReleaseFields
  <2> QED BY <1>10, <2>1, <2>2 DEF closeWinRT
<1> QED BY <1>1, <1>2, <1>3, <1>4, <1>7, <1>8, <1>9, <1>10, Steps DEF Worker
-----------------------------------------------------------------------------
(* The lock, the fields and the handler. *)

\* Only its start gives a function a turn.
LEMMA UnstartedKeeps == ASSUME TypeOK, UnstartedInv, [Next]_vars PROVE UnstartedInv'
<1> SUFFICES ASSUME NEW j \in Jobs, status'[j] \in {"new", "submitted"} PROVE turn'[j] = 0
  BY DEF UnstartedInv
<1>1. status[j] \in {"new", "submitted"} /\ turn[j] = 0
  BY Goes DEF UnstartedInv
<1>2. CASE Calling \/ Pressing \/ UNCHANGED vars
  BY <1>1, <1>2, CallingIs, PressingIs DEF CallingFrame, PressingFrame, vars
<1>3. CASE Worker
  <2>1. ASSUME NEW k \in Jobs, StartJob(k) PROVE turn'[j] = 0
    <3>1. k # j
      BY <2>1 DEF StartJob, Executor!Start, TypeOK, Executor!TypeOK
    <3> QED BY <1>1, <2>1, <3>1 DEF StartJob, TypeOK
  <2>2. CASE \A k \in Jobs : ~StartJob(k)
    <3>1. turn' = turn
      BY <1>3, <2>2 DEF Worker, FindsClosed, Locks, Advances, Completes, Fails, closeWinRT,
         TakeFields, CloseHandler, HandlerClosed, ReleaseFields, WorkerStops
    <3> QED BY <1>1, <3>1
  <2> QED BY <2>1, <2>2
<1> QED BY <1>2, <1>3, Steps

\* who holds c.mu, and who has closed c
LEMMA LockKeeps ==
    ASSUME TypeOK, ExecutorInv, StepInv, LockInv, [Next]_vars PROVE LockInv'
<1>0. /\ {Maker, Undoer} \cap (Setters \cup Closers) = {} /\ Maker # Undoer
      /\ Setters \cap Closers = {} /\ Jobs = Setters \cup Closers \cup {Maker, Undoer}
      /\ Writers = Setters \cup {Maker} /\ Executor!TypeOK
      /\ locked \in BOOLEAN /\ closed \in BOOLEAN
  BY JobsAssumption DEF Jobs, Writers, TypeOK
<1>1. CASE UNCHANGED vars
  BY <1>1 DEF LockInv, vars, ownVars, workerVars, Running
<1>2. CASE Pressing
  BY <1>2, PressingIs DEF LockInv, PressingFrame, ownVars, workerVars, Running
<1>3. CASE Calling
  <2>0. UNCHANGED <<locked, step>> /\ Running(Maker)' = Running(Maker)
    BY <1>0, <1>3, CallingKeepsRunning, CallingIs DEF CallingFrame, Running
  <2>1. CASE UNCHANGED closed /\ \A x \in Closers : status'[x] = "new" <=> status[x] = "new"
    BY <2>0, <2>1 DEF LockInv
  <2>2. ASSUME NEW x \in Closers, CloseBegins(x) PROVE LockInv'
    <3>1. ~locked /\ closed = FALSE /\ closed' = TRUE
      BY <1>0, <2>2 DEF CloseBegins
    <3>2. /\ status'[x] = "submitted" /\ \A y \in Closers : y # x => status'[y] = status[y]
      BY <1>0, <2>2 DEF CloseBegins, Executor!Submit, Executor!TypeOK
    <3>3. \A y \in Closers : status[y] = "new"
      BY <3>1 DEF LockInv
    <3> QED BY <2>0, <3>1, <3>2, <3>3 DEF LockInv
  <2>3. CASE New
    BY <1>0, <2>1, <2>3 DEF New, StartMaking, Made, StartUndoing, Undone, NewFails, workerVars,
         Executor!Submit, Executor!Answer, Executor!TypeOK
  <2>4. ASSUME NEW j \in Setters \cup Closers, Enter(j) PROVE LockInv'
    BY <2>1, <2>4 DEF Enter, workerVars
  <2>5. ASSUME NEW c \in Setters, Do(c) PROVE LockInv'
    BY <1>0, <2>1, <2>5 DEF Do, Refused, DoSubmits, DoReturns, WorkerRefuses, workerVars,
         Executor!Submit, Executor!Answer, Executor!Refuse, Executor!TypeOK
  <2>6. ASSUME NEW x \in Closers, Refused(x) \/ StopWorker(x) \/ CloseReturns(x) PROVE LockInv'
    BY <1>0, <2>1, <2>6 DEF Refused, StopWorker, CloseReturns, workerVars, Executor!Answer,
         Executor!TypeOK
  <2> QED BY <1>3, <2>2, <2>3, <2>4, <2>5, <2>6 DEF Calling, Close
<1>4. CASE Worker
  <2>1. UNCHANGED closed /\ \A x \in Closers : status'[x] = "new" <=> status[x] = "new"
    BY <1>0, <1>4, WorkerPlaces
  <2>2. /\ locked' <=> step' = "script" /\ ~Running(Maker)'
        /\ locked' => closed = FALSE
    <3>1. ASSUME NEW j \in Jobs, StartJob(j)
          PROVE  locked' = FALSE /\ ~(step' = "script" /\ ~Running(Maker)')
      <4>1. step = "none" /\ locked' = locked
        BY <1>0, <3>1, StartIs DEF StartJob, ownVars, StepInv
      <4>2. locked = FALSE
        BY <1>0, <4>1 DEF LockInv
      <4>3. CASE j = Maker
        <5>1. Running(Maker)'
          BY <1>0, <3>1, <4>3, StartIs DEF StartJob, Running
        <5> QED BY <4>1, <4>2, <5>1
      <4>4. CASE j # Maker
        BY <3>1, <4>1, <4>2, <4>4 DEF StartJob
      <4> QED BY <4>3, <4>4
    <3>2. ASSUME NEW c \in Setters, Locks(c)
          PROVE  locked' = TRUE /\ step' = "script" /\ ~Running(Maker)' /\ closed = FALSE
      <4>1. Running(c) /\ UNCHANGED workerVars /\ c # Maker
        BY <1>0, <3>2 DEF Locks
      <4>2. ~Running(Maker) /\ ~Running(Maker)'
        BY <1>0, <4>1 DEF ExecutorInv, Running, workerVars
      <4> QED BY <1>0, <3>2, <4>2 DEF Locks, Open
    <3>3. ASSUME NEW j \in Writers, Advances(j)
          PROVE  UNCHANGED <<locked, step>> /\ Running(Maker)' = Running(Maker)
      BY <3>3 DEF Advances, workerVars, Running
    <3>4. ASSUME NEW j, NEW o, Ends(j, o) PROVE locked' = FALSE /\ step' = "none"
      BY <3>4 DEF Ends
    <3>5. ASSUME NEW x \in Closers \cup {Undoer}, closeWinRT(x)
          PROVE  locked' = FALSE /\ step' # "script"
      <4>1. locked' = locked /\ step' # "script" /\ step # "script"
        BY <3>5 DEF closeWinRT, TakeFields, CloseHandler, HandlerClosed, ReleaseFields, ownVars
      <4> QED BY <1>0, <4>1 DEF LockInv
    <3>6. CASE WorkerStops
      BY <3>6 DEF WorkerStops, ownVars, Executor!Stop, LockInv, Running
    <3>7. ASSUME NEW c \in Setters, FindsClosed(c) PROVE locked' = FALSE /\ step' = "none"
      BY <3>4, <3>7 DEF FindsClosed
    <3>8. ASSUME NEW j \in Writers, Completes(j) \/ Fails(j)
          PROVE  locked' = FALSE /\ step' = "none"
      BY <3>4, <3>8 DEF Completes, Fails
    <3>9. CASE \E j \in Writers : Advances(j)
      BY <3>3, <3>9 DEF LockInv
    <3> QED BY <1>4, <3>1, <3>2, <3>5, <3>6, <3>7, <3>8, <3>9 DEF Worker
  <2> QED BY <2>1, <2>2 DEF LockInv
<1> QED BY <1>1, <1>2, <1>3, <1>4, Steps

\* who returns finds the worker stopped
LEMMA StopKeeps == ASSUME TypeOK, StopInv, [Next]_vars PROVE StopInv'
<1>0. stopped => stopped'
  BY Goes
<1>1. CASE Pressing \/ Worker \/ UNCHANGED vars
  <2>1. UNCHANGED <<new, call>>
    BY <1>1, PressingIs DEF PressingFrame, vars, ownVars, Worker, StartJob, FindsClosed, Locks,
       Advances, Completes, Fails, closeWinRT, TakeFields, CloseHandler, HandlerClosed,
       ReleaseFields, WorkerStops
  <2> QED BY <1>0, <2>1 DEF StopInv
<1>2. CASE New
  BY <1>0, <1>2 DEF StopInv, New, StartMaking, Made, StartUndoing, Undone, NewFails
<1>3. ASSUME NEW j \in Setters \cup Closers, Enter(j) PROVE StopInv'
  BY <1>0, <1>3 DEF StopInv, TypeOK, Enter, Moves, Goto
<1>4. ASSUME NEW c \in Setters, Do(c) PROVE StopInv'
  BY <1>0, <1>4, JobsAssumption
     DEF StopInv, TypeOK, Do, Refused, DoSubmits, DoReturns, WorkerRefuses, Moves, Goto
<1>5. ASSUME NEW x \in Closers, Close(x) PROVE StopInv'
  BY <1>0, <1>5
     DEF StopInv, TypeOK, Close, Refused, CloseBegins, StopWorker, CloseReturns, Moves, Goto
<1> QED BY <1>1, <1>2, <1>3, <1>4, <1>5, Steps DEF Calling

\* A function that puts loses no field, and registers with a field for the handler.
LEMMA PutsFields ==
    ASSUME TypeOK, NEW j \in Writers, Puts(j)
    PROVE  /\ fields \subseteq fields'
           /\ registered' = TRUE => registered = TRUE \/ "ButtonEvent" \in fields'
           /\ Item(j) \in Fields => fields' = fields \cup {Item(j)}
           /\ Item(j) = "Register" => fields' = fields \cup {"ButtonEvent"}
           /\ Item(j) \notin Fields \cup {"Register"} => fields' = fields
BY PutsIs, ItemKinds

\* callbacks run while the handler is open
LEMMA GateKeeps == ASSUME TypeOK, ExecutorInv, StepInv, GateInv, [Next]_vars PROVE GateInv'
<1>0. /\ Executor!TypeOK /\ registered \in BOOLEAN
      /\ Writers \subseteq Jobs /\ Setters \subseteq Jobs
  BY DEF TypeOK, Jobs, Writers
<1>1. CASE Calling \/ UNCHANGED vars
  BY <1>1, CallingIs DEF CallingFrame, vars, ownVars, gateVars, GateInv
<1>2. CASE Pressing
  BY <1>2, PressingIs
     DEF GateInv, PressingFrame, ownVars, Pressing, PressArrives, PressHandled, Receive, gateVars,
         Gate!Enter, Gate!TurnAway, Gate!Leave, TypeOK, Gate!TypeOK
<1>3. ASSUME NEW j \in Jobs, StartJob(j) PROVE GateInv'
  <2>1. step = "none"
    BY <1>0, <1>3, StartIs DEF StartJob, StepInv
  <2> QED BY <1>3, <2>1 DEF StartJob, GateInv, ownVars, gateVars
<1>4. ASSUME NEW c \in Setters, FindsClosed(c) \/ Locks(c) PROVE GateInv'
  BY <1>4 DEF FindsClosed, Locks, Ends, GateInv, gateVars
<1>5. ASSUME NEW j \in Writers, Advances(j) \/ Completes(j) PROVE GateInv'
  <2>1. Puts(j) /\ step = "script" /\ UNCHANGED gateVars
    BY <1>5 DEF Advances, Completes
  <2>2. /\ fields \subseteq fields'
        /\ registered' = TRUE => registered = TRUE \/ "ButtonEvent" \in fields'
        /\ registered' \in BOOLEAN /\ (registered = TRUE => registered' = TRUE)
    BY <1>0, <2>1, PutsFields, PutsTypes, PutsIs
  <2> QED BY <1>0, <2>1, <2>2 DEF GateInv, gateVars
<1>6. ASSUME NEW j \in Writers, Fails(j) PROVE GateInv'
  BY <1>6 DEF Fails, Ends, GateInv, gateVars
<1>7. ASSUME NEW x \in Closers \cup {Undoer}, closeWinRT(x) PROVE GateInv'
  <2>1. CASE TakeFields(x)
    BY <2>1 DEF TakeFields, GateInv, gateVars
  <2>2. CASE CloseHandler(x) \/ HandlerClosed(x)
    BY <2>2 DEF CloseHandler, HandlerClosed, GateInv, ownVars, Gate!BeginClose, Gate!FinishClose
  <2>3. CASE ReleaseFields(x)
    BY <2>3 DEF ReleaseFields, GateInv, gateVars
  <2> QED BY <1>7, <2>1, <2>2, <2>3 DEF closeWinRT
<1>8. CASE WorkerStops
  BY <1>8 DEF WorkerStops, ownVars, gateVars, GateInv
<1> QED BY <1>1, <1>2, <1>3, <1>4, <1>5, <1>6, <1>7, <1>8, Steps DEF Worker
\* What the call at pos gets goes into a field, or stays a local.
LEMMA PutsHeld ==
    ASSUME TypeOK, FieldInv, NEW j \in Writers, Puts(j), taken = {},
           held' = IF Item(j) \in {"Update", "Timeline"} THEN held \ Scratch
                   ELSE held \cup ({Item(j)} \cap (Fields \cup Locals))
    PROVE  held' \ Locals = fields' \ {"ButtonEvent"}
<1> DEFINE p == Item(j)
<1>1. held \ Locals = fields \ {"ButtonEvent"}
  BY DEF FieldInv
<1>2. /\ p \in Fields => fields' = fields \cup {p}
      /\ p = "Register" => fields' = fields \cup {"ButtonEvent"}
      /\ p \notin Fields \cup {"Register"} => fields' = fields
  BY PutsFields
<1>3. Scratch \subseteq Locals /\ \A q \in Fields : q \notin Locals /\ q # "ButtonEvent"
  BY ItemKinds
<1>4. "Update" \notin Fields /\ "Timeline" \notin Fields /\ "Register" \notin Fields \cup Locals
  BY DEF Fields, Locals, Scratch
<1>5. p \in {"Update", "Timeline"} => p # "Register"
  OBVIOUS
<1>6. /\ p \in {"Update", "Timeline"} => held' = held \ Scratch
      /\ p \notin {"Update", "Timeline"} => held' = held \cup ({p} \cap (Fields \cup Locals))
  OBVIOUS
<1> HIDE DEF p
<1>7. CASE p \in {"Update", "Timeline"}
  BY <1>1, <1>2, <1>3, <1>4, <1>5, <1>6, <1>7 DEF p
<1>8. CASE p \in Fields
  BY <1>1, <1>2, <1>3, <1>4, <1>6, <1>8 DEF p
<1>9. CASE p = "Register"
  BY <1>1, <1>2, <1>3, <1>4, <1>6, <1>9 DEF p
<1>10. CASE p \notin Fields \cup {"Register", "Update", "Timeline"}
  BY <1>1, <1>2, <1>3, <1>4, <1>6, <1>10 DEF p
<1> QED BY <1>7, <1>8, <1>9, <1>10 DEF p

\* The items of a setter, and of New's script at its end.
LEMMA LastItems ==
    ASSUME TypeOK, StepInv, NEW j \in Writers, step = "script", Running(j)
    PROVE  /\ pos \in Nat \ {0}
           /\ pos <= Len(ScriptOf(j)) /\ j # Maker => Item(j) \notin Fields \cup {"Register"}
           /\ pos = Len(ScriptOf(j)) /\ j = Maker => Item(j) = "Register"
<1>1. pos \in Nat \ {0}
  BY DEF StepInv, TypeOK
<1>2. CASE j = Maker
  BY <1>1, <1>2, MakerScript DEF Item
<1>3. CASE j # Maker
  <2>1. j \in Setters /\ KindOf[j] \in Kinds
    BY <1>3, KindAssumption DEF Writers
  <2>2. ScriptOf(j) = Script(KindOf[j])
    BY <1>3 DEF ScriptOf
  <2>3. /\ Len(Script(KindOf[j])) \in Nat
        /\ \A i \in 1..Len(Script(KindOf[j])) :
               Script(KindOf[j])[i] \notin Fields \cup {"Register"}
    BY <2>1, SetterScripts
  <2> QED BY <1>1, <1>3, <2>2, <2>3 DEF Item
<1> QED BY <1>2, <1>3

\* New goes through its script in order.
LEMMA ScriptStays == ASSUME config' = config, NEW j PROVE ScriptOf(j)' = ScriptOf(j)
BY DEF ScriptOf, initWithMediaPlayer, Optional

\* Where New's function runs nothing has been taken, and c is open to nobody.
LEMMA WhileMaking ==
    ASSUME TypeOK, PlaceInv, LockInv, Running(Maker)
    PROVE  /\ new = "making"
           /\ \A x \in Closers \cup {Undoer} : status[x] = "new"
<1>1. new = "making"
  BY DEF PlaceInv, Running, TypeOK
<1>2. \A x \in Closers : call[x] = "idle"
  BY <1>1 DEF PlaceInv
<1> QED BY <1>1, <1>2 DEF PlaceInv

\* A call of a script that succeeds puts the object it gets where FieldInv says.
LEMMA AdvanceFields ==
    ASSUME TypeOK, ExecutorInv, PlaceInv, StepInv, LockInv, FieldInv,
           NEW j \in Writers, Advances(j)
    PROVE  FieldInv'
<1>0. /\ {Maker, Undoer} \cap (Setters \cup Closers) = {} /\ Maker # Undoer
      /\ Jobs = Setters \cup Closers \cup {Maker, Undoer}
      /\ Writers = Setters \cup {Maker}
  BY JobsAssumption DEF Jobs, Writers
<1>1. /\ Running(j) /\ step = "script" /\ step' = "script" /\ UNCHANGED <<config, closed, taken>>
      /\ Puts(j) /\ UNCHANGED <<status, outcome>> /\ pos' = pos + 1 /\ pos < Len(ScriptOf(j))
  BY DEF Advances, workerVars
<1>2. taken = {} /\ pos \in Nat \ {0} /\ Len(ScriptOf(j)) \in Nat
  BY <1>1, LastItems, WriterScripts DEF FieldInv
<1>3. held' \ Locals = fields' \ {"ButtonEvent"}
  BY <1>1, <1>2, PutsHeld DEF Advances
<1>4. CASE j # Maker
  <2>1. j # Maker => Item(j) \notin Fields \cup {"Register"}
    BY <1>1, <1>2, LastItems
  <2>2. fields' = fields
    BY <1>1, <1>4, <2>1, PutsFields
  <2>3. ~Running(Maker)
    BY <1>0, <1>1, <1>4 DEF ExecutorInv
  <2>4. ~Running(Maker)'
    BY <1>1, <2>3 DEF Running
  <2> QED BY <1>1, <1>2, <1>3, <2>2, <2>4 DEF FieldInv
<1>5. CASE j = Maker
  <2>1. fields \subseteq fields' /\ (Item(j) \in Fields => Item(j) \in fields')
    BY <1>1, PutsFields
  <2>2. ScriptOf(Maker)' = ScriptOf(Maker)
    BY <1>1, ScriptStays
  <2>3. ASSUME NEW i \in 1..(pos' - 1), ScriptOf(Maker)[i] \in Fields
        PROVE  ScriptOf(Maker)[i] \in fields'
    <3>1. CASE i = pos
      BY <1>5, <2>1, <2>3, <3>1 DEF Item
    <3>2. CASE i # pos
      <4>1. i \in 1..(pos - 1)
        BY <1>1, <1>2, <3>2
      <4> QED BY <1>1, <1>5, <2>1, <2>3, <4>1 DEF FieldInv
    <3> QED BY <3>1, <3>2
  <2>4. Running(Maker)' => \A i \in 1..(pos' - 1) :
               ScriptOf(Maker)'[i] \in Fields => ScriptOf(Maker)'[i] \in fields'
    BY <2>2, <2>3
  <2>5. /\ status'[Maker] = "running" /\ outcome'[Maker] = "nothing"
        /\ \A x \in Closers \cup {Undoer} : status'[x] = "new"
    BY <1>0, <1>1, <1>5, WhileMaking DEF Running, ExecutorInv
  <2> QED BY <1>1, <1>2, <1>3, <2>4, <2>5 DEF FieldInv
<1> QED BY <1>4, <1>5

\* the function that puts ends at its last call
LEMMA CompleteFields ==
    ASSUME TypeOK, ExecutorInv, PlaceInv, StepInv, LockInv, FieldInv,
           NEW j \in Writers, Completes(j)
    PROVE  FieldInv'
<1>0. /\ {Maker, Undoer} \cap (Setters \cup Closers) = {} /\ Maker # Undoer
      /\ Jobs = Setters \cup Closers \cup {Maker, Undoer}
      /\ Writers = Setters \cup {Maker} /\ Setters \cap Closers = {} /\ Executor!TypeOK
  BY JobsAssumption DEF Jobs, Writers, TypeOK
<1>1. /\ Running(j) /\ step = "script" /\ step' = "none" /\ UNCHANGED <<closed, taken>>
      /\ Puts(j) /\ Executor!Finish(j, "nil") /\ pos = Len(ScriptOf(j)) /\ held' = held \ Locals
  BY DEF Completes, Ends
<1>2. taken = {} /\ held \ Locals = fields \ {"ButtonEvent"}
  BY <1>1 DEF FieldInv
<1>3. /\ status'[j] = "done"
      /\ \A k \in Jobs : k # j =>
            status'[k] = status[k] /\ outcome'[k] = outcome[k] /\ status[k] # "running"
  BY <1>0, <1>1, FinishIs
<1>4. ~Running(Maker)'
  BY <1>0, <1>3 DEF Running
<1>5. CASE j # Maker
  <2>1. j # Maker => Item(j) \notin Fields \cup {"Register"}
    BY <1>1, LastItems, WriterScripts
  <2>2. fields' = fields
    BY <1>1, <1>5, <2>1, PutsFields
  <2>3. /\ status'[Maker] = status[Maker] /\ outcome'[Maker] = outcome[Maker]
        /\ \A x \in Closers \cup {Undoer} : status'[x] = status[x]
    BY <1>0, <1>3, <1>5
  <2> QED BY <1>1, <1>2, <1>4, <2>2, <2>3 DEF FieldInv
<1>6. CASE j = Maker
  <2>1. Item(j) = "Register"
    BY <1>1, <1>6, LastItems, WriterScripts
  <2>2. fields' = fields \cup {"ButtonEvent"}
    BY <1>1, <2>1, PutsFields
  <2>3. Fields \subseteq fields
    <3>1. \A i \in 1..(pos - 1) : ScriptOf(Maker)[i] \in Fields => ScriptOf(Maker)[i] \in fields
      BY <1>1, <1>6 DEF FieldInv
    <3>2. \A p \in Fields : \E i \in 1..(pos - 1) : ScriptOf(Maker)[i] = p
      BY <1>1, <1>6, MakerScript
    <3> QED BY <3>1, <3>2
  <2>4. fields' = Fields \cup {"ButtonEvent"}
    BY <2>2, <2>3 DEF TypeOK
  <2>5. "ButtonEvent" \notin held
    BY DEF TypeOK, Fields, Locals, Scratch
  <2>6. held' \ Locals = fields' \ {"ButtonEvent"}
    BY <1>1, <1>2, <2>2
  <2>7. \A x \in Closers \cup {Undoer} : status'[x] = "new"
    BY <1>0, <1>1, <1>3, <1>6, WhileMaking
  <2> QED BY <1>1, <1>2, <1>3, <1>4, <1>6, <2>4, <2>6, <2>7 DEF FieldInv
<1> QED BY <1>5, <1>6

\* every object is somewhere
LEMMA FieldKeeps ==
    ASSUME TypeOK, ExecutorInv, PlaceInv, StepInv, LockInv, FieldInv, [Next]_vars
    PROVE  FieldInv'
<1>0. /\ {Maker, Undoer} \cap (Setters \cup Closers) = {} /\ Maker # Undoer
      /\ Jobs = Setters \cup Closers \cup {Maker, Undoer}
      /\ Writers = Setters \cup {Maker} /\ Setters \cap Closers = {} /\ Executor!TypeOK
  BY JobsAssumption DEF Jobs, Writers, TypeOK
<1> DEFINE Same == /\ UNCHANGED <<config, held, fields, taken, step, pos>>
                   /\ closed => closed'
                   /\ Running(Maker)' => Running(Maker)
                   /\ status'[Maker] \in {"new", "submitted"} =>
                          status[Maker] \in {"new", "submitted"}
                   /\ outcome'[Maker] = "nil" => outcome[Maker] = "nil"
                   /\ \A x \in Closers \cup {Undoer} :
                          status'[x] \in {"done", "answered"} =>
                              status[x] \in {"done", "answered"}
<1>1. ASSUME Same PROVE FieldInv'
  <2>1. ScriptOf(Maker)' = ScriptOf(Maker)
    BY <1>1, ScriptStays
  <2> QED BY <1>1, <2>1 DEF FieldInv, TypeOK
<1>2. CASE Pressing \/ WorkerStops \/ UNCHANGED vars
  <2>1. UNCHANGED ownVars /\ UNCHANGED <<step, pos, status, outcome>>
    BY <1>2, PressingIs DEF PressingFrame, WorkerStops, vars, workerVars, Executor!Stop
  <2> QED BY <1>1, <2>1 DEF ownVars, Running
<1>3. CASE Calling
  <2>1. UNCHANGED <<config, held, fields, taken, step, pos, outcome>>
    BY <1>3, CallingIs, CallingKeepsRunning DEF CallingFrame
  <2>2. Running(Maker)' <=> Running(Maker)
    BY <1>0, <1>3, CallingKeepsRunning
  <2>3. closed => closed'
    BY <1>3 DEF Calling, New, StartMaking, Made, StartUndoing, Undone, NewFails,
         Enter, Do, Refused, DoSubmits, DoReturns, WorkerRefuses, Moves, Close, CloseBegins,
         StopWorker, CloseReturns
  <2>4. \A x \in Closers \cup {Undoer} :
            status'[x] \in {"done", "answered"} => status[x] \in {"done", "answered"}
    BY <1>0, <1>3, CallingIs DEF workerVars, Executor!Submit, Executor!Answer, Executor!Refuse,
         Executor!TypeOK
  <2>5. status'[Maker] \in {"new", "submitted"} => status[Maker] \in {"new", "submitted"}
    BY <1>0, Goes
  <2> QED BY <1>1, <2>1, <2>2, <2>3, <2>4, <2>5
<1> HIDE DEF Same
<1>4. ASSUME NEW j \in Jobs, StartJob(j) PROVE FieldInv'
  <2>1. /\ UNCHANGED <<held, fields, taken, closed, outcome>>
        /\ step' \in {"script", "lock"} /\ (j = Maker => pos' = 1)
        /\ status[j] = "submitted" /\ status'[j] = "running"
        /\ \A k \in Jobs : k # j => status'[k] = status[k] /\ status[k] # "running"
    BY <1>0, <1>4, StartIs DEF StartJob, ownVars
  <2>2. step = "none"
    BY <1>0, <1>4, StartIs DEF StartJob, StepInv
  <2>3. Running(Maker)' => \A i \in 1..(pos' - 1) :
               ScriptOf(Maker)'[i] \in Fields => ScriptOf(Maker)'[i] \in fields'
    BY <1>0, <2>1 DEF Running
  <2>4. /\ status'[Maker] \in {"new", "submitted"} => status[Maker] \in {"new", "submitted"}
        /\ \A x \in Closers \cup {Undoer} :
              status'[x] \in {"done", "answered"} => status[x] \in {"done", "answered"}
    BY <1>0, <2>1
  <2> QED BY <2>1, <2>2, <2>3, <2>4 DEF FieldInv
<1>5. ASSUME NEW j \in Writers, NEW o \in {"closed", "failed"}, Ends(j, o),
             UNCHANGED <<fields, taken, closed>>, step \in {"lock", "script"}
      PROVE  FieldInv'
  <2>1. Executor!Finish(j, o) /\ held' = held \ Locals /\ step' = "none"
    BY <1>5 DEF Ends
  <2>2. /\ status'[j] = "done" /\ outcome'[j] = o
        /\ \A k \in Jobs : k # j =>
              status'[k] = status[k] /\ outcome'[k] = outcome[k] /\ status[k] # "running"
    BY <1>0, <2>1, FinishIs
  <2>3. /\ ~Running(Maker)'
        /\ outcome'[Maker] = "nil" => outcome[Maker] = "nil"
        /\ status'[Maker] \in {"new", "submitted"} => status[Maker] \in {"new", "submitted"}
        /\ \A x \in Closers \cup {Undoer} : status'[x] = status[x]
    BY <1>0, <2>2 DEF Running
  <2> QED BY <1>5, <2>1, <2>3 DEF FieldInv
<1>6. ASSUME NEW c \in Setters, FindsClosed(c) PROVE FieldInv'
  BY <1>0, <1>5, <1>6 DEF FindsClosed
<1>7. ASSUME NEW j \in Writers, Fails(j) PROVE FieldInv'
  BY <1>5, <1>7 DEF Fails
<1>8. ASSUME NEW c \in Setters, Locks(c) PROVE FieldInv'
  <2>1. /\ UNCHANGED <<held, fields, taken, closed, status, outcome>> /\ Running(c)
        /\ step = "lock" /\ step' = "script"
    BY <1>8 DEF Locks, workerVars
  <2>2. ~Running(Maker)'
    BY <1>0, <2>1 DEF ExecutorInv, Running
  <2> QED BY <2>1, <2>2 DEF FieldInv
<1>9. ASSUME NEW x \in Closers \cup {Undoer}, closeWinRT(x) PROVE FieldInv'
  <2>1. Running(x) /\ ~Running(Maker) /\ UNCHANGED closed
    BY <1>0, <1>9 DEF closeWinRT, TakeFields, CloseHandler, HandlerClosed, ReleaseFields,
       ExecutorInv, ownVars
  <2>2. ~(outcome[Maker] = "nil" /\ closed = FALSE)
    <3>1. status[x] = "running"
      BY <2>1 DEF Running
    <3>2. CASE x = Undoer
      BY <3>1, <3>2 DEF PlaceInv
    <3>3. CASE x \in Closers
      BY <3>1, <3>3 DEF LockInv, TypeOK
    <3> QED BY <3>2, <3>3
  <2>3. CASE TakeFields(x)
    <3>1. /\ taken' = fields /\ fields' = {} /\ step' \in {"closeHandler", "release"}
          /\ UNCHANGED <<held, status, outcome>> /\ step = "lock"
      BY <2>3 DEF TakeFields, workerVars
    <3>2. ~Running(Maker)'
      BY <2>1, <3>1 DEF Running
    <3> QED BY <2>1, <2>2, <3>1, <3>2 DEF FieldInv
  <2>4. CASE CloseHandler(x) \/ HandlerClosed(x)
    <3>1. /\ UNCHANGED <<held, fields, taken, status, outcome>>
          /\ step \in {"closeHandler", "drain"} /\ step' \in {"drain", "release"}
      BY <2>4 DEF CloseHandler, HandlerClosed, workerVars, ownVars
    <3>2. ~Running(Maker)'
      BY <2>1, <3>1 DEF Running
    <3> QED BY <2>1, <2>2, <3>1, <3>2 DEF FieldInv
  <2>5. CASE ReleaseFields(x)
    <3>1. /\ held' = held \ taken /\ taken' = {} /\ UNCHANGED fields /\ step = "release"
          /\ step' = "none"
      BY <2>5 DEF ReleaseFields
    <3>2. PICK o \in {"nil", "failed"} : Executor!Finish(x, o)
      BY <2>5 DEF ReleaseFields
    <3>3. \A k \in Jobs : k # x => status'[k] = status[k] /\ outcome'[k] = outcome[k]
      BY <1>0, <3>2, FinishIs
    <3>4. status'[Maker] = status[Maker] /\ outcome'[Maker] = outcome[Maker] /\ ~Running(Maker)'
      BY <1>0, <2>1, <3>3 DEF Running
    <3>5. fields = {} /\ held \ Locals = taken \ {"ButtonEvent"} /\ held \cap Locals = {}
      BY <3>1 DEF FieldInv
    <3>6. "ButtonEvent" \notin held
      BY DEF TypeOK, Fields, Locals, Scratch
    <3>7. held' = {}
      BY <3>1, <3>5
    <3> QED BY <2>1, <2>2, <3>1, <3>4, <3>5, <3>7 DEF FieldInv
  <2> QED BY <1>9, <2>3, <2>4, <2>5 DEF closeWinRT
<1> QED BY <1>2, <1>3, <1>4, <1>6, <1>7, <1>8, <1>9, AdvanceFields, CompleteFields,
            Steps DEF Worker
-----------------------------------------------------------------------------
(* LeftInv. *)

\* Initially nothing is held and nothing runs.
LEMMA LeftInit == ASSUME Init PROVE LeftInv
<1>0. /\ {Maker, Undoer} \cap (Setters \cup Closers) = {} /\ Maker # Undoer
      /\ Jobs = Setters \cup Closers \cup {Maker, Undoer}
  BY JobsAssumption DEF Jobs
<1>1. /\ new = "start" /\ held = {} /\ fields = {} /\ taken = {} /\ closed = FALSE
      /\ locked = FALSE /\ stopping = FALSE /\ registered = FALSE /\ step = "none" /\ pos = 0
      /\ buttons = 0 /\ config \in Configs /\ shown = put /\ put = [p \in Properties |-> Nobody]
      /\ turn = [j \in Jobs |-> 0] /\ call = [j \in Setters \cup Closers |-> "idle"]
      /\ Executor!Init /\ Gate!Init
  BY DEF Init
<1>2. Executor!TypeOK
  BY <1>1 DEF Executor!Init, Executor!TypeOK, Executor!Status
<1>3. Gate!TypeOK
  BY <1>1 DEF Gate!Init, Gate!TypeOK
<1>4. turn \in [Jobs -> 0..Cardinality(Jobs)]
  BY <1>1, JobsFinite, FS_CardinalityType
<1>5. TypeOK
  <2>1. put \in [Properties -> Writers \cup {Nobody}] /\ {put, shown} \subseteq {put}
    BY <1>1
  <2>2. {put, shown} \subseteq [Properties -> Writers \cup {Nobody}]
    BY <2>1
  <2>3. /\ held \subseteq Fields \cup Locals
        /\ {fields, taken} \subseteq SUBSET (Fields \cup {"ButtonEvent"})
        /\ {closed, locked, stopping, registered} \subseteq BOOLEAN
        /\ call \in [Setters \cup Closers ->
                        {"idle", "entry", "inDo", "stopping", "refused", "returned"}]
    BY <1>1
  <2>4. buttons \in 0..ButtonCap /\ pos \in Nat
    BY <1>1, ButtonAssumption
  <2> QED BY <1>1, <1>2, <1>3, <1>4, <2>2, <2>3, <2>4 DEF TypeOK
<1>6. ExecutorInv
  BY ExecutorInit
<1>7. /\ status = [j \in Jobs |-> "new"] /\ outcome = [j \in Jobs |-> "nothing"]
      /\ Executor!Idle = TRUE /\ \A j \in Jobs : ~Running(j)
  BY <1>1 DEF Executor!Init, Executor!Idle, Executor!Nothing, Running
<1>8. UnstartedInv /\ PlaceInv /\ StepInv /\ LockInv /\ StopInv
  BY <1>0, <1>1, <1>7 DEF UnstartedInv, PlaceInv, StepInv, LockInv, StopInv
<1>9. FieldInv
  BY <1>0, <1>1, <1>7 DEF FieldInv
<1>10. GateInv
  BY <1>1 DEF GateInv, Gate!Init
<1> QED BY <1>5, <1>6, <1>8, <1>9, <1>10 DEF LeftInv

\* Every step keeps LeftInv.
LEMMA LeftKeeps == ASSUME LeftInv, [Next]_vars PROVE LeftInv'
<1>1. /\ TypeOK /\ UnstartedInv /\ ExecutorInv /\ PlaceInv /\ StepInv /\ LockInv /\ FieldInv
      /\ GateInv /\ StopInv
  BY DEF LeftInv
<1>2. ExecutorInv'
  BY <1>1, StepOfExecutor, ExecutorKeeps DEF TypeOK
<1>3. TypeOK' /\ UnstartedInv' /\ PlaceInv'
  BY <1>1, TypeKeeps, UnstartedKeeps, PlaceKeeps
<1>4. StepInv' /\ LockInv' /\ FieldInv' /\ GateInv' /\ StopInv'
  BY <1>1, StepKeeps, LockKeeps, FieldKeeps, GateKeeps, StopKeeps
<1> QED BY <1>2, <1>3, <1>4 DEF LeftInv

\* LeftInv says it.
LEMMA LeftPromises == ASSUME LeftInv PROVE NothingLeft
<1>0. /\ Jobs = Setters \cup Closers \cup {Maker, Undoer}
      /\ {Maker, Undoer} \cap (Setters \cup Closers) = {}
      /\ TypeOK /\ ExecutorInv /\ PlaceInv /\ StepInv /\ LockInv /\ FieldInv /\ GateInv /\ StopInv
  BY JobsAssumption DEF Jobs, LeftInv
<1>1. ASSUME step = "script", ~Running(Maker) PROVE Fields \subseteq held \cap fields
  <2>1. PICK j \in Jobs : Running(j)
    BY <1>0, <1>1 DEF StepInv, Executor!Idle, Running
  <2>2. j \in Setters
    BY <1>0, <1>1, <2>1 DEF StepInv
  <2>3. new = "ok"
    BY <1>0, <2>1, <2>2 DEF PlaceInv, Running
  <2>4. outcome[Maker] = "nil" /\ closed = FALSE
    BY <1>0, <1>1, <2>3 DEF PlaceInv, LockInv, TypeOK
  <2>5. /\ fields = Fields \cup {"ButtonEvent"}
        /\ held \ Locals = (fields \cup taken) \ {"ButtonEvent"}
    BY <1>0, <2>4 DEF FieldInv
  <2>6. "ButtonEvent" \notin Fields
    BY DEF Fields
  <2> QED BY <2>5, <2>6
<1>2. ASSUME new = "failed" \/ \E x \in Closers : call[x] = "returned"
      PROVE  held = {} /\ active = {} /\ stopped /\ step = "none"
  <2>1. stopped
    BY <1>0, <1>2 DEF StopInv
  <2>2. step = "none"
    BY <1>0, <2>1 DEF ExecutorInv, StepInv
  <2>3. \E x \in Closers \cup {Undoer} : status[x] = "answered"
    BY <1>0, <1>2 DEF PlaceInv
  <2>4. fields = {} /\ taken = {}
    BY <1>0, <2>2, <2>3 DEF FieldInv
  <2>5. held \ Locals = {} /\ held \cap Locals = {}
    BY <1>0, <2>2, <2>4 DEF FieldInv
  <2>6. active = {}
    BY <1>0, <2>2, <2>4 DEF GateInv
  <2> QED BY <2>1, <2>2, <2>5, <2>6
<1> QED BY <1>0, <1>1, <1>2 DEF NothingLeft

\* LeftInv is an invariant.
LEMMA LeftInvHolds == Spec => []LeftInv
<1>1. Init => LeftInv
  BY LeftInit
<1>2. LeftInv /\ [Next]_vars => LeftInv'
  BY LeftKeeps
<1> QED BY <1>1, <1>2, PTL DEF Spec

(* create.go:148-154, 608-616, 634-694.  In whatever order any number of     *)
(* setters, presses and calls of Close come, and whichever call of New       *)
(* fails: a setter calls into Windows only while c has its objects, and when *)
(* New failed, or the Close that did the work returned, nothing is held and  *)
(* nothing runs, on the worker or in the handler, or will.                   *)
THEOREM LeavesNothing == Spec => []NothingLeft
<1>1. LeftInv => NothingLeft
  BY LeftPromises
<1> QED BY <1>1, LeftInvHolds, PTL
-----------------------------------------------------------------------------
(* What is put and what is shown. *)

\* Every step is the start of a function, changes what is put or shown, or does neither.
LEMMA ScreenSteps ==
    ASSUME LeftInv, [Next]_vars
    PROVE  \/ \E j \in Jobs : StartJob(j)
           \/ \E j \in Writers : Advances(j) \/ Completes(j) \/ Fails(j)
           \/ /\ UNCHANGED <<screenVars, turn>>
              /\ \A j \in Jobs : Running(j)' => Running(j)
              /\ \A j \in Writers : outcome'[j] # outcome[j] =>
                     outcome'[j] = "closed" /\ outcome[j] = "nothing"
              /\ \/ UNCHANGED <<step, pos, config>> /\ \A j \in Jobs : Running(j)' <=> Running(j)
                 \/ step # "script" /\ (step' = "script" => pos' = 1)
<1>0. /\ TypeOK /\ ExecutorInv /\ StepInv /\ Executor!TypeOK
      /\ {Maker, Undoer} \cap (Setters \cup Closers) = {} /\ Maker # Undoer
      /\ Setters \cap Closers = {} /\ Jobs = Setters \cup Closers \cup {Maker, Undoer}
      /\ Writers = Setters \cup {Maker}
  BY JobsAssumption DEF LeftInv, TypeOK, Jobs, Writers
<1> DEFINE Rest == /\ UNCHANGED <<screenVars, turn>>
                   /\ \A j \in Jobs : Running(j)' => Running(j)
                   /\ \A j \in Writers : outcome'[j] # outcome[j] =>
                          outcome'[j] = "closed" /\ outcome[j] = "nothing"
                   /\ \/ /\ UNCHANGED <<step, pos, config>>
                         /\ \A j \in Jobs : Running(j)' <=> Running(j)
                      \/ step # "script" /\ (step' = "script" => pos' = 1)
<1>1. ASSUME Pressing \/ WorkerStops \/ UNCHANGED vars PROVE Rest
  <2>1. UNCHANGED <<ownVars, step, pos, screenVars, turn, status, outcome>>
    BY <1>1, PressingIs DEF PressingFrame, WorkerStops, vars, workerVars, Executor!Stop
  <2> QED BY <2>1 DEF Running, ownVars
<1>2. ASSUME Calling PROVE Rest
  BY <1>0, <1>2, CallingIs, CallingKeepsRunning DEF CallingFrame
<1>3. ASSUME NEW c \in Setters, FindsClosed(c) PROVE Rest
  <2>1. /\ step = "lock" /\ step' = "none" /\ UNCHANGED <<screenVars, turn>>
        /\ Executor!Finish(c, "closed")
    BY <1>3 DEF FindsClosed, Ends
  <2>2. /\ status[c] = "running" /\ status'[c] = "done" /\ outcome'[c] = "closed"
        /\ \A k \in Jobs : k # c => status'[k] = status[k] /\ outcome'[k] = outcome[k]
    BY <1>0, <2>1, FinishIs
  <2>3. outcome[c] = "nothing"
    BY <1>0, <2>2 DEF ExecutorInv
  <2> QED BY <1>0, <2>1, <2>2, <2>3 DEF Running
<1>4. ASSUME NEW c \in Setters, Locks(c) PROVE Rest
  BY <1>4 DEF Locks, workerVars, Running
<1>5. ASSUME NEW x \in Closers \cup {Undoer}, closeWinRT(x) PROVE Rest
  <2>1. CASE TakeFields(x) \/ CloseHandler(x) \/ HandlerClosed(x)
    <3>1. /\ UNCHANGED <<screenVars, turn, status, outcome>> /\ step # "script"
          /\ step' # "script"
      BY <2>1 DEF TakeFields, CloseHandler, HandlerClosed, workerVars
    <3> QED BY <3>1 DEF Running
  <2>2. CASE ReleaseFields(x)
    <3>1. /\ UNCHANGED <<screenVars, turn>> /\ step = "release" /\ step' = "none"
      BY <2>2 DEF ReleaseFields
    <3>2. PICK o \in {"nil", "failed"} : Executor!Finish(x, o)
      BY <2>2 DEF ReleaseFields
    <3>3. /\ status'[x] = "done"
          /\ \A k \in Jobs : k # x => status'[k] = status[k] /\ outcome'[k] = outcome[k]
      BY <1>0, <3>2, FinishIs
    <3> QED BY <1>0, <3>1, <3>3 DEF Running
  <2> QED BY <1>5, <2>1, <2>2 DEF closeWinRT
<1> HIDE DEF Rest
<1>6. Rest \/ (\E j \in Jobs : StartJob(j))
           \/ (\E j \in Writers : Advances(j) \/ Completes(j) \/ Fails(j))
  BY <1>1, <1>2, <1>3, <1>4, <1>5, Steps DEF Worker
<1> QED BY <1>6 DEF Rest

\* The turns: who starts comes last, and who runs has started last.
LEMMA TurnKeeps == ASSUME LeftInv, TurnInv, [Next]_vars PROVE TurnInv'
<1>0. /\ TypeOK /\ ExecutorInv /\ UnstartedInv /\ Executor!TypeOK /\ Writers \subseteq Jobs
      /\ turn \in [Jobs -> 0..Cardinality(Jobs)]
  BY DEF LeftInv, TypeOK, Writers, Jobs
<1>1. ASSUME NEW j \in Jobs, StartJob(j) PROVE TurnInv'
  <2>1. /\ turn[j] = 0 /\ turn' = [turn EXCEPT ![j] = 1 + Cardinality(Started)]
        /\ \A k \in Jobs : Running(k)' => k = j
    BY <1>0, <1>1, StartIs DEF StartJob, Started, UnstartedInv, Running
  <2>2. /\ Cardinality(Started) \in Nat
        /\ Cardinality(Started \cup {j}) = Cardinality(Started) + 1
    BY <1>0, <2>1, Starts
  <2>3. /\ turn'[j] = 1 + Cardinality(Started)
        /\ \A k \in Jobs : k # j => turn'[k] = turn[k]
    BY <1>0, <2>1
  <2>4. Started' = Started \cup {j}
    BY <1>0, <2>2, <2>3 DEF Started
  <2>5. \A k \in Jobs : turn[k] \in Nat /\ turn[k] <= Cardinality(Started)
    BY <1>0 DEF TurnInv
  <2>6. Cardinality(Started)' = Cardinality(Started) + 1
    BY <2>2, <2>4
  <2>7. \A k \in Jobs : turn'[k] <= Cardinality(Started) + 1
    BY <2>2, <2>3, <2>5
  <2>8. \A k \in Jobs : Running(k)' => turn'[k] = Cardinality(Started) + 1
    BY <2>1, <2>2, <2>3
  <2> QED BY <2>6, <2>7, <2>8 DEF TurnInv
<1>2. ASSUME turn' = turn, \A j \in Jobs : Running(j)' => Running(j) PROVE TurnInv'
  BY <1>2 DEF TurnInv, Started
<1>3. ASSUME NEW j \in Writers, Advances(j) \/ Completes(j) \/ Fails(j) PROVE TurnInv'
  <2>1. turn' = turn
    BY <1>3 DEF Advances, Completes, Fails
  <2>2. UNCHANGED workerVars \/ \E o \in Outcomes : Executor!Finish(j, o)
    BY <1>3 DEF Advances, Completes, Fails, Ends, Outcomes
  <2>3. \A k \in Jobs : Running(k)' => Running(k)
    BY <1>0, <2>2, FinishIs DEF workerVars, Running
  <2> QED BY <1>2, <2>1, <2>3
<1> QED BY <1>1, <1>2, <1>3, ScreenSteps

\* what a function has done when its call at pos is done as well
LEMMA PutsSoFar ==
    ASSUME LeftInv, PutInv, NEW j \in Writers, Running(j), step = "script", Puts(j)
    PROVE  \A i \in 1..pos : LET p == ScriptOf(j)[i] IN
               /\ p \in Properties => put'[p] = j
               /\ p \in Shown => shown'[p] = j
<1>0. /\ TypeOK /\ pos \in Nat /\ j \in Jobs
      /\ put \in [Properties -> Writers \cup {Nobody}]
      /\ shown \in [Properties -> Writers \cup {Nobody}]
  BY DEF LeftInv, TypeOK, Jobs, Writers
<1> SUFFICES ASSUME NEW i \in 1..pos
             PROVE  /\ ScriptOf(j)[i] \in Properties => put'[ScriptOf(j)[i]] = j
                    /\ ScriptOf(j)[i] \in Shown => shown'[ScriptOf(j)[i]] = j
  OBVIOUS
<1>1. Shown \subseteq Properties /\ Display \subseteq Properties
  BY DEF Properties
<1> DEFINE p == ScriptOf(j)[i]
           q == Item(j)
<1>2. CASE i = pos
  <2>1. p = q
    BY <1>2 DEF Item
  <2>2. /\ q \in Properties => put' = [put EXCEPT ![q] = j]
        /\ q \in Shown => shown' = [shown EXCEPT ![q] = j]
    BY <1>0, PutsIs, ItemKinds DEF Properties
  <2> HIDE DEF p, q
  <2>3. /\ p \in Properties => put'[p] = j
        /\ p \in Shown => shown'[p] = j
    BY <1>0, <1>1, <2>1, <2>2
  <2> QED BY <2>3 DEF p
<1>3. CASE i # pos
  <2>1. i \in 1..(pos - 1)
    BY <1>0, <1>3
  <2>2. /\ p \in Properties => put[p] = j
        /\ p \in Shown => shown[p] = j
    BY <1>0, <2>1 DEF PutInv
  <2>3. /\ put' \in {put, [put EXCEPT ![q] = j]}
        /\ \/ shown' \in {shown, [shown EXCEPT ![q] = j]}
           \/ shown' = [r \in Properties |-> IF r \in Display THEN put[r] ELSE shown[r]]
    BY <1>0, PutsIs
  <2>4. p \in Shown => p \notin Display
    BY ItemKinds
  <2> HIDE DEF p, q
  <2>5. p \in Properties => put'[p] = j
    BY <1>0, <2>2, <2>3
  <2>6. p \in Shown => shown'[p] = j
    BY <1>0, <1>1, <2>2, <2>3, <2>4
  <2> QED BY <2>5, <2>6 DEF p
<1> QED BY <1>2, <1>3
\* What comes over the work of an earlier function is the work of the one that runs.
LEMMA PutsOver ==
    ASSUME LeftInv, TurnInv, PutInv, NEW j \in Writers, Running(j), Puts(j), turn' = turn,
           NEW c \in Setters, outcome[c] = "nil"
    PROVE  \A p \in Visible(KindOf[c]) :
               /\ shown'[p] # Nobody /\ turn'[shown'[p]] >= turn'[c]
               /\ p \in Display => put'[p] # Nobody /\ turn'[put'[p]] >= turn'[c]
<1>0. /\ TypeOK /\ j \in Jobs /\ c \in Jobs /\ Nobody \notin Jobs
      /\ put \in [Properties -> Writers \cup {Nobody}]
      /\ shown \in [Properties -> Writers \cup {Nobody}]
      /\ \A k \in Jobs : turn[k] \in Nat
  BY JobsAssumption DEF LeftInv, TypeOK, Jobs, Writers
<1>1. turn[j] >= turn[c]
  BY <1>0 DEF TurnInv
<1> SUFFICES ASSUME NEW p \in Visible(KindOf[c])
             PROVE  /\ shown'[p] # Nobody /\ turn'[shown'[p]] >= turn'[c]
                    /\ p \in Display => put'[p] # Nobody /\ turn'[put'[p]] >= turn'[c]
  OBVIOUS
<1>2. p \in Properties
  BY DEF Visible
<1>3. /\ shown[p] # Nobody /\ turn[shown[p]] >= turn[c]
      /\ p \in Display => put[p] # Nobody /\ turn[put[p]] >= turn[c]
  BY DEF PutInv
<1> DEFINE q == Item(j)
<1>4. /\ put' \in {put, [put EXCEPT ![q] = j]}
      /\ \/ shown' \in {shown, [shown EXCEPT ![q] = j]}
         \/ shown' = [r \in Properties |-> IF r \in Display THEN put[r] ELSE shown[r]]
  BY <1>0, PutsIs
<1> HIDE DEF q
<1>5. /\ put'[p] \in {put[p], j}
      /\ shown'[p] \in {shown[p], j} \/ (p \in Display /\ shown'[p] = put[p])
  BY <1>0, <1>2, <1>4
<1> QED BY <1>0, <1>1, <1>3, <1>5

\* a setter that has gone through its script has put and shown what it is for
LEMMA CompleteShows ==
    ASSUME LeftInv, TurnInv, PutInv, NEW c \in Setters, Completes(c)
    PROVE  \A p \in Visible(KindOf[c]) : shown'[p] = c /\ put'[p] = c
<1>0. /\ TypeOK /\ StepInv /\ c \in Jobs /\ c \in Writers /\ c # Maker
  BY JobsAssumption DEF LeftInv, Jobs, Writers
<1>1. /\ Running(c) /\ step = "script" /\ Puts(c) /\ pos = Len(ScriptOf(c))
  BY DEF Completes
<1>2. ScriptOf(c) = Script(KindOf[c]) /\ KindOf[c] \in Kinds
  BY <1>0, KindAssumption DEF ScriptOf
<1> DEFINE s == ScriptOf(c)
<1>3. /\ Len(s) \in Nat \ {0} /\ DOMAIN s = 1..Len(s)
      /\ \A i \in 1..Len(s) : s[i] \in Display => s[Len(s)] = "Update"
  BY <1>2, SetterScripts
<1>4. \A i \in 1..Len(s) : /\ s[i] \in Properties => put'[s[i]] = c
                           /\ s[i] \in Shown => shown'[s[i]] = c
  BY <1>0, <1>1, PutsSoFar
<1> SUFFICES ASSUME NEW p \in Visible(KindOf[c]) PROVE shown'[p] = c /\ put'[p] = c
  OBVIOUS
<1>5. p \in Properties /\ \E i \in DOMAIN s : s[i] = p
  BY <1>2 DEF Visible, ToSet
<1>6. PICK i \in 1..Len(s) : s[i] = p
  BY <1>3, <1>5
<1>7. put'[p] = c
  BY <1>4, <1>5, <1>6
<1>8. CASE p \in Shown
  BY <1>4, <1>6, <1>7, <1>8
<1>9. CASE p \in Display
  <2>1. Item(c) = "Update"
    BY <1>1, <1>3, <1>6, <1>9 DEF Item
  <2>2. /\ put' = put
        /\ shown' = [r \in Properties |-> IF r \in Display THEN put[r] ELSE shown[r]]
    BY <1>0, <1>1, <2>1, PutsIs, ItemKinds
  <2> HIDE DEF s
  <2>3. shown'[p] = put[p]
    BY <1>5, <1>9, <2>2
  <2> QED BY <1>7, <2>2, <2>3
<1> QED BY <1>5, <1>8, <1>9 DEF Properties

\* Every step keeps PutInv.
LEMMA PutKeeps == ASSUME LeftInv, TurnInv, PutInv, [Next]_vars PROVE PutInv'
<1>0. /\ TypeOK /\ ExecutorInv /\ StepInv /\ UnstartedInv /\ Executor!TypeOK
      /\ Writers \subseteq Jobs /\ Setters \subseteq Writers /\ Nobody \notin Jobs
      /\ put \in [Properties -> Writers \cup {Nobody}]
      /\ shown \in [Properties -> Writers \cup {Nobody}]
      /\ \A k \in Jobs : turn[k] \in Nat
      /\ Maker \notin Setters /\ pos \in Nat
  BY JobsAssumption DEF LeftInv, TypeOK, Writers, Jobs
<1> DEFINE Done(j) == \A i \in 1..(pos - 1) : LET p == ScriptOf(j)[i] IN
                          /\ p \in Properties => put[p] = j
                          /\ p \in Shown => shown[p] = j
           Lasts(c) == \A p \in Visible(KindOf[c]) :
                          /\ shown[p] # Nobody /\ turn[shown[p]] >= turn[c]
                          /\ p \in Display => put[p] # Nobody /\ turn[put[p]] >= turn[c]
<1>1. /\ PutInv <=> /\ \A j \in Writers : Running(j) /\ step = "script" => Done(j)
                    /\ \A c \in Setters : outcome[c] = "nil" => Lasts(c)
      /\ PutInv' <=> /\ \A j \in Writers : Running(j)' /\ step' = "script" => Done(j)'
                     /\ \A c \in Setters : outcome'[c] = "nil" => Lasts(c)'
  BY DEF PutInv
<1>2. ASSUME NEW j \in Jobs, StartJob(j) PROVE PutInv'
  <2>1. /\ turn[j] = 0 /\ turn' = [turn EXCEPT ![j] = 1 + Cardinality(Started)]
        /\ Cardinality(Started) \in Nat
        /\ UNCHANGED <<put, shown, outcome>>
        /\ step' = "script" => pos' = 1
        /\ outcome[j] = "nothing"
    BY <1>0, <1>2, StartIs, Starts
       DEF StartJob, Started, UnstartedInv, screenVars, ExecutorInv
  <2>2. /\ turn'[j] \in Nat
        /\ \A k \in Jobs : turn'[k] >= turn[k]
        /\ \A k \in Jobs : k # j => turn'[k] = turn[k]
    BY <1>0, <2>1 DEF TypeOK
  <2>3. \A k \in Writers : step' = "script" => Done(k)'
    BY <2>1
  <2>4. ASSUME NEW c \in Setters, outcome'[c] = "nil" PROVE Lasts(c)'
    <3>1. c # j /\ Lasts(c) /\ outcome[c] = "nil"
      BY <1>1, <2>1, <2>4
    <3>2. ASSUME NEW p \in Visible(KindOf[c])
          PROVE  /\ shown[p] # Nobody /\ turn'[shown[p]] >= turn'[c]
                 /\ p \in Display => put[p] # Nobody /\ turn'[put[p]] >= turn'[c]
      <4>1. p \in Properties
        BY DEF Visible
      <4>2. /\ shown[p] # Nobody /\ turn[shown[p]] >= turn[c]
            /\ p \in Display => put[p] # Nobody /\ turn[put[p]] >= turn[c]
        BY <3>1
      <4>3. shown[p] \in Jobs /\ (p \in Display => put[p] \in Jobs)
        BY <1>0, <4>1, <4>2
      <4>4. c \in Jobs /\ turn'[c] = turn[c]
        BY <1>0, <2>2, <3>1
      <4>5. \A k \in Jobs : turn'[k] \in Nat
        BY <1>0, <2>2
      <4> QED BY <1>0, <2>2, <4>2, <4>3, <4>4, <4>5
    <3> QED BY <2>1, <3>2
  <2> QED BY <1>1, <2>3, <2>4
<1>3. ASSUME NEW j \in Writers, Advances(j) PROVE PutInv'
  <2>1. /\ Running(j) /\ step = "script" /\ Puts(j) /\ turn' = turn /\ config' = config
        /\ pos' = pos + 1 /\ UNCHANGED <<status, outcome>>
    BY <1>3 DEF Advances, workerVars
  <2>2. \A i \in 1..pos : LET p == ScriptOf(j)[i] IN
               /\ p \in Properties => put'[p] = j
               /\ p \in Shown => shown'[p] = j
    BY <2>1, PutsSoFar
  <2>3. ScriptOf(j)' = ScriptOf(j) /\ pos' - 1 = pos
    BY <1>0, <2>1, ScriptStays
  <2>4. Done(j)'
    BY <2>2, <2>3
  <2>5. \A k \in Writers : Running(k)' => k = j
    BY <1>0, <2>1 DEF ExecutorInv, Running
  <2>6. ASSUME NEW c \in Setters, outcome'[c] = "nil" PROVE Lasts(c)'
    BY <2>1, <2>6, PutsOver
  <2> HIDE DEF Done, Lasts
  <2> QED BY <1>1, <2>4, <2>5, <2>6
<1>4. ASSUME NEW j \in Writers, Completes(j) PROVE PutInv'
  <2>1. /\ Running(j) /\ Puts(j) /\ turn' = turn /\ step' = "none"
        /\ Executor!Finish(j, "nil")
    BY <1>4 DEF Completes, Ends
  <2>2. \A k \in Jobs : k # j => outcome'[k] = outcome[k]
    BY <1>0, <2>1, FinishIs
  <2>3. ASSUME NEW c \in Setters, outcome'[c] = "nil" PROVE Lasts(c)'
    <3>1. CASE c # j
      BY <1>0, <2>1, <2>2, <2>3, <3>1, PutsOver
    <3>2. CASE c = j
      <4>1. \A p \in Visible(KindOf[c]) : shown'[p] = c /\ put'[p] = c
        BY <1>4, <3>2, CompleteShows
      <4>2. c # Nobody /\ turn'[c] >= turn'[c]
        BY <1>0, <2>1
      <4> QED BY <4>1, <4>2
    <3> QED BY <3>1, <3>2
  <2> HIDE DEF Done, Lasts
  <2> QED BY <1>1, <2>1, <2>3
<1>5. ASSUME NEW j \in Writers, Fails(j) PROVE PutInv'
  <2>1. /\ UNCHANGED <<put, shown, turn>> /\ step' = "none" /\ Executor!Finish(j, "failed")
    BY <1>5 DEF Fails, Ends, screenVars
  <2>2. \A k \in Setters : outcome'[k] = "nil" => outcome[k] = "nil"
    BY <1>0, <2>1, FinishIs
  <2>3. \A k \in Setters : Lasts(k)' <=> Lasts(k)
    BY <2>1
  <2> HIDE DEF Done, Lasts
  <2> QED BY <1>1, <2>1, <2>2, <2>3
<1>6. ASSUME UNCHANGED <<screenVars, turn>>,
             \A j \in Jobs : Running(j)' => Running(j),
             \A j \in Writers : outcome'[j] # outcome[j] =>
                     outcome'[j] = "closed" /\ outcome[j] = "nothing",
             \/ UNCHANGED <<step, pos, config>>
             \/ step # "script" /\ (step' = "script" => pos' = 1)
      PROVE  PutInv'
  <2>1. UNCHANGED <<put, shown, turn>>
    BY <1>6 DEF screenVars
  <2>2. \A k \in Setters : outcome'[k] = "nil" => outcome[k] = "nil"
    BY <1>0, <1>6
  <2>3. \A k \in Setters : Lasts(k)' <=> Lasts(k)
    BY <2>1
  <2>4. ASSUME NEW j \in Writers, Running(j)', step' = "script" PROVE Done(j)'
    <3>1. CASE UNCHANGED <<step, pos, config>>
      <4>1. Done(j) /\ ScriptOf(j)' = ScriptOf(j)
        BY <1>0, <1>1, <1>6, <2>4, <3>1, ScriptStays
      <4> QED BY <2>1, <3>1, <4>1
    <3>2. CASE pos' = 1
      BY <3>2
    <3> QED BY <1>6, <2>4, <3>1, <3>2
  <2> HIDE DEF Done, Lasts
  <2> QED BY <1>1, <2>2, <2>3, <2>4
<1> HIDE DEF Done, Lasts
<1> QED BY <1>2, <1>3, <1>4, <1>5, <1>6, ScreenSteps
\* Who puts metadata puts type, title and artist before Update, and ends with no metadata.
LEMMA MetadataScripts ==
    ASSUME NEW j \in Writers, PutsMetadata(j)
    PROVE  /\ Prepared(ScriptOf(j))
           /\ ScriptOf(j)[Len(ScriptOf(j))] \in {"Update", "Register"}
<1>1. CASE j = Maker
  BY <1>1, MakerScript
<1>2. CASE j # Maker
  <2>1. KindOf[j] = "media" /\ ScriptOf(j) = Script("media") /\ "media" \in Kinds
    BY <1>2 DEF PutsMetadata, ScriptOf, Kinds
  <2> DEFINE s == Script("media")
  <2>2. /\ Len(s) = 5 /\ s[1] = "Type" /\ s[3] = "Title" /\ s[4] = "Artist"
        /\ \A i \in 1..5 : s[i] = "Update" => i = 5
        /\ s[1] \in Display => s[5] = "Update"
    <3>1. /\ Len(s) = 5 /\ s[1] = "Type" /\ s[3] = "Title" /\ s[4] = "Artist"
          /\ \A i \in 1..5 : s[i] = "Update" => i = 5
      BY <2>1, SetterScripts
    <3>2. \A i \in 1..Len(s) : s[i] \in Display => s[Len(s)] = "Update"
      BY <2>1, SetterScripts
    <3>3. 1 \in 1..5
      OBVIOUS
    <3> HIDE DEF s
    <3> QED BY <3>1, <3>2, <3>3
  <2> HIDE DEF s
  <2>3. s[5] = "Update"
    BY <2>2 DEF Display
  <2>4. Prepared(s)
    <3>1. \A n \in 1..Len(s) : s[n] = "Update" => 1 < n /\ 3 < n /\ 4 < n
      BY <2>2
    <3>2. 1 \in 1..Len(s) /\ 3 \in 1..Len(s) /\ 4 \in 1..Len(s)
      BY <2>2
    <3> QED BY <2>2, <3>1, <3>2 DEF Prepared
  <2> QED BY <2>1, <2>2, <2>3, <2>4 DEF s
<1> QED BY <1>1, <1>2

\* Before Update, and at the end, type, title and artist are all of the function that runs.
LEMMA MetadataPut ==
    ASSUME LeftInv, PutInv, NEW j \in Writers, PutsMetadata(j), Running(j), step = "script",
           pos \in 1..Len(ScriptOf(j)), Item(j) = "Update" \/ pos = Len(ScriptOf(j))
    PROVE  put["Type"] = j /\ put["Title"] = j /\ put["Artist"] = j
<1> DEFINE s == ScriptOf(j)
<1>1. PICK a, b, c \in 1..Len(s) :
          /\ s[a] = "Type" /\ s[b] = "Title" /\ s[c] = "Artist"
          /\ \A n \in 1..Len(s) : s[n] = "Update" => a < n /\ b < n /\ c < n
  BY MetadataScripts DEF Prepared
<1>2. Len(s) \in Nat /\ s[Len(s)] \in {"Update", "Register"} /\ Item(j) = s[pos]
  BY MetadataScripts, WriterScripts DEF Item
<1> HIDE DEF s
<1>3. a \in 1..(pos - 1) /\ b \in 1..(pos - 1) /\ c \in 1..(pos - 1)
  <2>1. CASE s[pos] = "Update"
    BY <1>1, <1>2, <2>1 DEF s
  <2>2. CASE pos = Len(s)
    <3>1. a # Len(s) /\ b # Len(s) /\ c # Len(s)
      BY <1>1, <1>2
    <3> QED BY <1>2, <2>2, <3>1
  <2> QED BY <1>2, <2>1, <2>2 DEF s
<1>4. \A i \in 1..(pos - 1) : s[i] \in Properties => put[s[i]] = j
  BY DEF PutInv, s
<1>5. {"Type", "Title", "Artist"} \subseteq Properties
  BY DEF Properties, Display
<1> QED BY <1>1, <1>3, <1>4, <1>5

\* Whoever runs, metadata is shown as a whole, and stays whole unless it is being put.
LEMMA MetadataPuts ==
    ASSUME LeftInv, PutInv, NEW j \in Writers, Running(j), step = "script", Puts(j),
           pos \in 1..Len(ScriptOf(j)), Whole(shown), Whole(put) \/ PutsMetadata(j)
    PROVE  /\ Whole(shown')
           /\ Whole(put') \/ PutsMetadata(j)
           /\ pos = Len(ScriptOf(j)) => Whole(put')
<1> DEFINE p == Item(j)
           M == {"Type", "Title", "Artist"}
<1>0. /\ put \in [Properties -> Writers \cup {Nobody}]
      /\ shown \in [Properties -> Writers \cup {Nobody}]
      /\ M \subseteq Display /\ M \subseteq Properties /\ TypeOK
  BY DEF LeftInv, TypeOK, Properties, Display
<1>1. /\ p \notin Properties => put' = put
      /\ p \in Properties => put' = [put EXCEPT ![p] = j]
      /\ p \in Shown => shown' = [shown EXCEPT ![p] = j]
      /\ p = "Update" =>
             shown' = [r \in Properties |-> IF r \in Display THEN put[r] ELSE shown[r]]
      /\ p \notin Shown \cup {"Update"} => shown' = shown
  BY <1>0, PutsIs, ItemKinds DEF Properties
<1>2. \A q \in M : q \notin Shown
  BY <1>0, ItemKinds
<1>3. "Update" \notin Properties /\ "Register" \notin Properties
  BY ItemKinds DEF Properties
<1>4. PutsMetadata(j) /\ (p = "Update" \/ pos = Len(ScriptOf(j))) =>
          put["Type"] = j /\ put["Title"] = j /\ put["Artist"] = j
  BY MetadataPut
<1>5. PutsMetadata(j) /\ pos = Len(ScriptOf(j)) => p \notin Properties
  BY <1>3, MetadataScripts DEF Item
<1>6. ~PutsMetadata(j) => p \notin M
  <2> SUFFICES ASSUME ~PutsMetadata(j) PROVE p \notin M
    OBVIOUS
  <2>1. j # Maker /\ j \in Setters /\ KindOf[j] # "media" /\ KindOf[j] \in Kinds
    BY KindAssumption DEF PutsMetadata, Writers
  <2>2. ScriptOf(j) = Script(KindOf[j])
    BY <2>1 DEF ScriptOf
  <2>3. \A i \in 1..Len(Script(KindOf[j])) : Script(KindOf[j])[i] \notin M
    BY <2>1, SetterScripts
  <2> QED BY <2>2, <2>3 DEF Item
<1> HIDE DEF p, M
<1>7. M = {"Type", "Title", "Artist"}
  BY DEF M
<1>8. \A q \in M : shown'[q] = IF p = "Update" THEN put[q] ELSE shown[q]
  BY <1>0, <1>1, <1>2
<1>9. ~PutsMetadata(j) => \A q \in M : put'[q] = put[q]
  BY <1>0, <1>1, <1>6
<1>10. Whole(put) \/ p # "Update" \/ (put["Type"] = j /\ put["Title"] = j /\ put["Artist"] = j)
  BY <1>4
<1>11. Whole(shown')
  BY <1>7, <1>8, <1>10 DEF Whole
<1>12. Whole(put') \/ PutsMetadata(j)
  BY <1>7, <1>9 DEF Whole
<1>13. pos = Len(ScriptOf(j)) => Whole(put')
  BY <1>1, <1>4, <1>5, <1>12 DEF Whole
<1> QED BY <1>11, <1>12, <1>13

\* Every step keeps MetadataInv.
LEMMA MetadataKeeps ==
    ASSUME LeftInv, PutInv, MetadataInv, [Next]_vars PROVE MetadataInv'
<1>0. /\ TypeOK /\ ExecutorInv /\ StepInv /\ Executor!TypeOK
      /\ Writers \subseteq Jobs /\ pos \in Nat
  BY DEF LeftInv, TypeOK, Writers, Jobs
<1> DEFINE Sound == \A j \in Writers : outcome[j] # "failed"
           Putting == step = "script" /\ \E j \in Writers : Running(j) /\ PutsMetadata(j)
<1>1. /\ MetadataInv <=> (Sound => Whole(shown) /\ (Whole(put) \/ Putting))
      /\ MetadataInv' <=> (Sound' => Whole(shown') /\ (Whole(put') \/ Putting'))
  BY DEF MetadataInv, Whole
<1>2. ASSUME UNCHANGED <<put, shown>>, Sound' => Sound, step # "script" \/ (Putting => Putting')
      PROVE  MetadataInv'
  <2>1. step # "script" => ~Putting
    OBVIOUS
  <2>2. Whole(put') = Whole(put) /\ Whole(shown') = Whole(shown)
    BY <1>2
  <2> HIDE DEF Sound, Putting
  <2> QED BY <1>1, <1>2, <2>1, <2>2
<1>3. ASSUME NEW j \in Jobs, StartJob(j) PROVE MetadataInv'
  <2>1. UNCHANGED <<put, shown, outcome>> /\ step = "none"
    BY <1>0, <1>3, StartIs DEF StartJob, screenVars, StepInv
  <2> QED BY <1>2, <2>1
<1>4. ASSUME NEW j \in Writers, Advances(j) \/ Completes(j) PROVE MetadataInv'
  <2>1. /\ Running(j) /\ step = "script" /\ Puts(j) /\ pos <= Len(ScriptOf(j)) /\ pos > 0
    BY <1>0, <1>4, WriterScripts DEF Advances, Completes, StepInv
  <2>2. pos \in 1..Len(ScriptOf(j))
    BY <1>0, <2>1, WriterScripts
  <2>3. Sound' => Sound
    <3>1. UNCHANGED outcome \/ Executor!Finish(j, "nil")
      BY <1>4 DEF Advances, Completes, Ends, workerVars
    <3>2. outcome[j] = "nothing"
      BY <1>0, <2>1 DEF ExecutorInv, Running
    <3>3. CASE UNCHANGED outcome
      BY <3>3
    <3>4. CASE Executor!Finish(j, "nil")
      <4>1. \A k \in Jobs : k # j => outcome'[k] = outcome[k]
        BY <1>0, <3>4, FinishIs
      <4> QED BY <1>0, <3>2, <4>1
    <3> QED BY <3>1, <3>3, <3>4
  <2>4. Putting => PutsMetadata(j)
    BY <1>0, <2>1 DEF ExecutorInv
  <2>5. ASSUME Sound' PROVE Whole(shown') /\ (Whole(put') \/ Putting')
    <3>1. Whole(shown) /\ (Whole(put) \/ PutsMetadata(j))
      BY <1>1, <2>3, <2>4, <2>5
    <3>2. /\ Whole(shown')
          /\ Whole(put') \/ PutsMetadata(j)
          /\ pos = Len(ScriptOf(j)) => Whole(put')
      BY <2>1, <2>2, <3>1, MetadataPuts
    <3>3. CASE Advances(j)
      <4>1. step' = "script" /\ Running(j)'
        BY <3>3, <2>1 DEF Advances, workerVars, Running
      <4> QED BY <3>2, <4>1
    <3>4. CASE Completes(j)
      BY <3>2, <3>4 DEF Completes
    <3> QED BY <1>4, <3>3, <3>4
  <2> HIDE DEF Sound, Putting
  <2> QED BY <1>1, <2>5
<1>5. ASSUME NEW j \in Writers, Fails(j) PROVE MetadataInv'
  <2>1. Executor!Finish(j, "failed")
    BY <1>5 DEF Fails, Ends
  <2>2. ~Sound'
    BY <1>0, <2>1, FinishIs
  <2> HIDE DEF Sound, Putting
  <2> QED BY <1>1, <2>2
<1>6. ASSUME UNCHANGED <<screenVars, turn>>,
             \A j \in Writers : outcome'[j] # outcome[j] =>
                     outcome'[j] = "closed" /\ outcome[j] = "nothing",
             \/ UNCHANGED <<step, pos, config>> /\ \A j \in Jobs : Running(j)' <=> Running(j)
             \/ step # "script"
      PROVE  MetadataInv'
  <2>1. UNCHANGED <<put, shown>>
    BY <1>6 DEF screenVars
  <2>2. Sound' => Sound
    BY <1>6
  <2>3. step # "script" \/ (Putting => Putting')
    BY <1>0, <1>6
  <2> HIDE DEF Sound, Putting
  <2> QED BY <1>2, <2>1, <2>2, <2>3
<1> HIDE DEF Sound, Putting
<1> QED BY <1>3, <1>4, <1>5, <1>6, ScreenSteps

-----------------------------------------------------------------------------
(* The results. *)

\* Initially nothing has been put and nothing shown.
LEMMA ShownInit == ASSUME Init PROVE ShownInv
<1>1. /\ shown = put /\ put = [p \in Properties |-> Nobody] /\ turn = [j \in Jobs |-> 0]
      /\ \A j \in Jobs : ~Running(j) /\ outcome[j] = "nothing"
  BY DEF Init, Executor!Init, Executor!Nothing, Running
<1>2. Writers \subseteq Jobs /\ Setters \subseteq Jobs
  BY DEF Writers, Jobs
<1>3. Started = {}
  BY <1>1 DEF Started
<1>4. TurnInv
  BY <1>1, <1>3, FS_EmptySet DEF TurnInv
<1>5. PutInv
  BY <1>1, <1>2 DEF PutInv
<1>6. MetadataInv
  BY <1>1 DEF MetadataInv, Whole, Properties, Display
<1> QED BY <1>4, <1>5, <1>6 DEF ShownInv

\* Both parts together are an invariant.
LEMMA InvHolds == Spec => [](LeftInv /\ ShownInv)
<1>1. Init => LeftInv /\ ShownInv
  BY LeftInit, ShownInit
<1>2. LeftInv /\ ShownInv /\ [Next]_vars => (LeftInv /\ ShownInv)'
  BY LeftKeeps, TurnKeeps, PutKeeps, MetadataKeeps DEF ShownInv
<1> QED BY <1>1, <1>2, PTL DEF Spec

(* create.go:232-540.  What a setter that returned nil was to show is shown, *)
(* as it put it or as a function that started later did, for any number of   *)
(* setters at once and whatever calls of theirs fail.                        *)
THEOREM NilShown == Spec => []NilMeansShown
<1>1. LeftInv /\ ShownInv => NilMeansShown
  <2> SUFFICES ASSUME LeftInv, ShownInv, NEW c \in Setters, answer[c] = "nil",
                      NEW p \in Visible(KindOf[c])
               PROVE  shown[p] # Nobody /\ turn[shown[p]] >= turn[c]
    BY DEF NilMeansShown
  <2>1. c \in Jobs /\ status[c] \in {"new", "submitted", "running", "done", "answered"}
    BY DEF LeftInv, TypeOK, Executor!TypeOK, Executor!Status, Jobs
  <2>2. outcome[c] = "nil"
    BY <2>1 DEF LeftInv, ExecutorInv
  <2> QED BY <2>2 DEF ShownInv, PutInv
<1> QED BY <1>1, InvHolds, PTL

(* create.go:495-540.  While no function failed, the title, the artist and   *)
(* the type shown are those of one and the same call, also when setters run  *)
(* between two calls of SetMediaInfo.                                        *)
THEOREM ShownWhole == Spec => []MetadataWhole
<1>1. LeftInv /\ ShownInv => MetadataWhole
  BY DEF ShownInv, MetadataInv, MetadataWhole, Whole
<1> QED BY <1>1, InvHolds, PTL
================================================================================
