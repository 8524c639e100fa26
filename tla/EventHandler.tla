---------------------------- MODULE EventHandler ----------------------------
(***************************************************************************)
(* internal/winrt/event.go: EventHandler, one subscription of the program  *)
(* to a WinRT event, and the COM object it hands to the event source.      *)
(*                                                                         *)
(* The object lives in C memory and counts its references: one is the      *)
(* EventHandler's own (h.obj), one is the source's for each subscription,  *)
(* and a source that is delivering an event holds one more for as long as  *)
(* the delivery lasts, so that an Invoke may begin after the subscription  *)
(* is gone.  Register, Unregister, Close and the deliveries run on threads *)
(* of their own; h.mu is held by a thread between two steps only in        *)
(* Register, which calls add_X under it.  The event source is external: it *)
(* is modelled by the references and calls COM lets it make.               *)
(***************************************************************************)
EXTENDS Integers, FiniteSets

CONSTANTS Registrars,    \* the calls of Register; each names its token
          Unregistrars,  \* the calls of Unregister
          Closers,       \* the calls of Close
          Deliveries,    \* the events the source delivers to the handler
          RemoveMayFail, \* whether remove_X may return a failure
          NoToken,       \* h.token and h.source are zero
          NoThread       \* h.mu is free

ASSUME TokenAssumption == NoToken \notin Registrars
ASSUME ThreadAssumption == NoThread \notin Registrars
ASSUME DeliveriesAssumption == IsFiniteSet(Deliveries)
ASSUME RegistrarsAssumption == IsFiniteSet(Registrars)
ASSUME ClosersAssumption == IsFiniteSet(Closers)
ASSUME RemoveAssumption == RemoveMayFail \in BOOLEAN
ASSUME TakersAssumption == Unregistrars \cap Closers = {}

VARIABLES
    mu,          \* the registrar that holds h.mu over add_X, or NoThread
    obj,         \* h.obj is not nil
    refs,        \* the reference count in the object
    freed,       \* the object and both cgo handles are gone
    token,       \* h.token with h.source, NoToken when not h.registered
    closed,      \* h.closed
    inflight,    \* h.inflight
    reg, unreg, closing, \* where each call is
    taken,       \* the registration a call of Unregister or Close took
    delivery,    \* where each delivery is
    subs,        \* the subscriptions the source holds (external)
    sourceRefs   \* the references the handler holds to the source

objectVars == <<obj, refs, freed>>
handlerVars == <<mu, token, closed, inflight>>
callVars   == <<reg, unreg, closing, taken>>
sourceVars == <<subs, sourceRefs>>
vars == <<objectVars, handlerVars, callVars, delivery, sourceVars>>

Takers == Unregistrars \cup Closers

RegPc      == {"idle", "adding", "added", "returned"}
UnregPc    == {"idle", "removing", "restoring", "returned"}
ClosePc    == {"idle", "removing", "draining", "waiting", "releasing", "closed", "returned"}
DeliveryPc == {"idle", "raised", "entered", "callback", "leaving", "left", "over"}

TypeOK == /\ mu \in Registrars \cup {NoThread}
          /\ obj \in BOOLEAN
          /\ refs \in Nat
          /\ freed \in BOOLEAN
          /\ token \in Registrars \cup {NoToken}
          /\ closed \in BOOLEAN
          /\ inflight \in Nat
          /\ reg \in [Registrars -> RegPc]
          /\ unreg \in [Unregistrars -> UnregPc]
          /\ closing \in [Closers -> ClosePc]
          /\ taken \in [Takers -> Registrars \cup {NoToken}]
          /\ delivery \in [Deliveries -> DeliveryPc]
          /\ subs \in SUBSET Registrars
          /\ sourceRefs \in Nat

\* NewTypedEventHandler; the allocation of the object may have failed
Init == /\ mu = NoThread
        /\ \/ obj = TRUE /\ refs = 1 /\ freed = FALSE
           \/ obj = FALSE /\ refs = 0 /\ freed = TRUE
        /\ token = NoToken
        /\ closed = FALSE
        /\ inflight = 0
        /\ reg = [r \in Registrars |-> "idle"]
        /\ unreg = [u \in Unregistrars |-> "idle"]
        /\ closing = [c \in Closers |-> "idle"]
        /\ taken = [x \in Takers |-> NoToken]
        /\ delivery = [d \in Deliveries |-> "idle"]
        /\ subs = {}
        /\ sourceRefs = 0

-----------------------------------------------------------------------------
\* eventAddRef
AddRef == /\ refs' = refs + 1
          /\ UNCHANGED freed

\* eventRelease, n times: the last reference frees the object and its handles
ReleaseRefs(n) == /\ refs' = refs - n
                  /\ freed' = (freed \/ refs = n)

\* the source drops subscription t, if it still has it, and its reference
Unsubscribe(t) == /\ subs' = subs \ {t}
                  /\ IF t \in subs THEN ReleaseRefs(1) ELSE UNCHANGED <<refs, freed>>

Unlocked == mu = NoThread

GotoReg(r, pc)      == reg' = [reg EXCEPT ![r] = pc]
GotoUnreg(u, pc)    == unreg' = [unreg EXCEPT ![u] = pc]
GotoClose(c, pc)    == closing' = [closing EXCEPT ![c] = pc]
GotoDelivery(d, pc) == delivery' = [delivery EXCEPT ![d] = pc]

\* Register refuses: closed, already registered, or the object is missing
RegisterIdles == closed \/ token # NoToken \/ ~obj

-----------------------------------------------------------------------------
(* Slips: what a step could look like with a mistake in it.  None is part of *)
(* Next; each shows that a property below depends on the step it replaces.   *)

InvokeUncounted(d) == \* eventInvoke without its eventAddRef
    /\ delivery[d] = "raised"
    /\ GotoDelivery(d, "entered")
    /\ UNCHANGED <<objectVars, handlerVars, callVars, sourceVars>>

EndInvokeSilently(d) == \* endInvoke does not wake the waiting Close
    /\ delivery[d] = "callback"
    /\ Unlocked
    /\ inflight' = inflight - 1
    /\ GotoDelivery(d, "leaving")
    /\ UNCHANGED <<objectVars, mu, token, closed, callVars, sourceVars>>

CloseKeepsSource(c, ok) == \* a failed remove_X returns before Release(source)
    /\ closing[c] = "removing"
    /\ IF ok THEN Unsubscribe(taken[c]) /\ sourceRefs' = sourceRefs - 1
             ELSE UNCHANGED <<subs, refs, freed, sourceRefs>>
    /\ taken' = [taken EXCEPT ![c] = NoToken]
    /\ GotoClose(c, "draining")
    /\ UNCHANGED <<obj, handlerVars, reg, unreg, delivery>>

CloseDrainsNothing(c) == \* Close does not wait for h.inflight
    /\ closing[c] = "draining"
    /\ Unlocked
    /\ obj' = FALSE
    /\ GotoClose(c, IF obj THEN "releasing" ELSE "closed")
    /\ UNCHANGED <<refs, freed, handlerVars, reg, unreg, taken, delivery, sourceVars>>

-----------------------------------------------------------------------------
(* Register. *)

\* takes h.mu; its guards return an error or nil at once
RegisterRefuses(r) == /\ reg[r] = "idle"
                      /\ Unlocked
                      /\ RegisterIdles
                      /\ GotoReg(r, "returned")
                      /\ UNCHANGED <<objectVars, handlerVars, unreg, closing, taken,
                                     delivery, sourceVars>>

RegisterEnters(r) == /\ reg[r] = "idle"
                     /\ Unlocked
                     /\ ~RegisterIdles
                     /\ mu' = r
                     /\ GotoReg(r, "adding")
                     /\ UNCHANGED <<objectVars, token, closed, inflight, unreg, closing,
                                    taken, delivery, sourceVars>>

\* add_X succeeds: the source queries the object and keeps the reference
AddSucceeds(r) == /\ reg[r] = "adding"
                  /\ AddRef
                  /\ subs' = subs \cup {r}
                  /\ GotoReg(r, "added")
                  /\ UNCHANGED <<obj, handlerVars, unreg, closing, taken, delivery, sourceRefs>>

\* add_X returns a failure; the deferred Unlock runs
AddFails(r) == /\ reg[r] = "adding"
               /\ mu' = NoThread
               /\ GotoReg(r, "returned")
               /\ UNCHANGED <<objectVars, token, closed, inflight, unreg, closing, taken,
                              delivery, sourceVars>>

\* AddRef(source); the registration is recorded; the deferred Unlock runs
RegisterReturns(r) == /\ reg[r] = "added"
                      /\ sourceRefs' = sourceRefs + 1
                      /\ token' = r
                      /\ mu' = NoThread
                      /\ GotoReg(r, "returned")
                      /\ UNCHANGED <<objectVars, closed, inflight, unreg, closing, taken,
                                     delivery, subs>>

Register(r) == \/ RegisterRefuses(r) \/ RegisterEnters(r) \/ AddSucceeds(r)
               \/ AddFails(r) \/ RegisterReturns(r)

-----------------------------------------------------------------------------
(* Unregister. *)

\* takeRegistration: nothing to take
UnregisterIdles(u) == /\ unreg[u] = "idle"
                      /\ Unlocked
                      /\ token = NoToken
                      /\ GotoUnreg(u, "returned")
                      /\ UNCHANGED <<objectVars, handlerVars, reg, closing, taken, delivery,
                                     sourceVars>>

TakeRegistration(u) == /\ unreg[u] = "idle"
                       /\ Unlocked
                       /\ token # NoToken
                       /\ taken' = [taken EXCEPT ![u] = token]
                       /\ token' = NoToken
                       /\ GotoUnreg(u, "removing")
                       /\ UNCHANGED <<objectVars, mu, closed, inflight, reg, closing,
                                      delivery, sourceVars>>

\* remove_X succeeds, then Release(source)
UnregisterRemoves(u) == /\ unreg[u] = "removing"
                        /\ Unsubscribe(taken[u])
                        /\ sourceRefs' = sourceRefs - 1
                        /\ taken' = [taken EXCEPT ![u] = NoToken]
                        /\ GotoUnreg(u, "returned")
                        /\ UNCHANGED <<obj, handlerVars, reg, closing, delivery>>

RemoveFails(u) == /\ RemoveMayFail
                  /\ unreg[u] = "removing"
                  /\ GotoUnreg(u, "restoring")
                  /\ UNCHANGED <<objectVars, handlerVars, reg, closing, taken, delivery,
                                 sourceVars>>

\* restoreRegistration: only an open handler takes the registration back
RestoreRegistration(u) == /\ unreg[u] = "restoring"
                          /\ Unlocked
                          /\ token' = IF closed THEN token ELSE taken[u]
                          /\ taken' = [taken EXCEPT ![u] = NoToken]
                          /\ GotoUnreg(u, "returned")
                          /\ UNCHANGED <<objectVars, mu, closed, inflight, reg, closing,
                                         delivery, sourceVars>>

Unregister(u) == \/ UnregisterIdles(u) \/ TakeRegistration(u) \/ UnregisterRemoves(u)
                 \/ RemoveFails(u) \/ RestoreRegistration(u)

-----------------------------------------------------------------------------
(* Close. *)

\* if h.closed { return nil }: another Close is or was at work
CloseIdles(c) == /\ closing[c] = "idle"
                 /\ Unlocked
                 /\ closed
                 /\ GotoClose(c, "returned")
                 /\ UNCHANGED <<objectVars, handlerVars, reg, unreg, taken, delivery,
                                sourceVars>>

\* h.closed = true and the registration, if any, is this call's to remove
CloseBegins(c) == /\ closing[c] = "idle"
                  /\ Unlocked
                  /\ ~closed
                  /\ closed' = TRUE
                  /\ taken' = [taken EXCEPT ![c] = token]
                  /\ token' = NoToken
                  /\ GotoClose(c, IF token # NoToken THEN "removing" ELSE "draining")
                  /\ UNCHANGED <<objectVars, mu, inflight, reg, unreg, delivery, sourceVars>>

\* remove_X succeeds (ok) or fails; Release(source) either way
CloseRemoves(c, ok) == /\ closing[c] = "removing"
                       /\ IF ok THEN Unsubscribe(taken[c])
                                ELSE UNCHANGED <<subs, refs, freed>>
                       /\ sourceRefs' = sourceRefs - 1
                       /\ taken' = [taken EXCEPT ![c] = NoToken]
                       /\ GotoClose(c, "draining")
                       /\ UNCHANGED <<obj, handlerVars, reg, unreg, delivery>>

\* for h.inflight > 0 { h.cond.Wait() }: wait until endInvoke broadcasts
CloseWaits(c) == /\ closing[c] = "draining"
                 /\ Unlocked
                 /\ inflight > 0
                 /\ GotoClose(c, "waiting")
                 /\ UNCHANGED <<objectVars, handlerVars, reg, unreg, taken, delivery,
                                sourceVars>>

\* no callback is left: h.obj = nil
CloseDrains(c) == /\ closing[c] = "draining"
                  /\ Unlocked
                  /\ inflight = 0
                  /\ obj' = FALSE
                  /\ GotoClose(c, IF obj THEN "releasing" ELSE "closed")
                  /\ UNCHANGED <<refs, freed, handlerVars, reg, unreg, taken, delivery,
                                 sourceVars>>

\* eventRelease(obj): the handler's own reference
CloseReleases(c) == /\ closing[c] = "releasing"
                    /\ ReleaseRefs(1)
                    /\ GotoClose(c, "closed")
                    /\ UNCHANGED <<obj, handlerVars, reg, unreg, taken, delivery, sourceVars>>

Close(c) == \/ CloseIdles(c) \/ CloseBegins(c)
            \/ CloseRemoves(c, TRUE)
            \/ RemoveMayFail /\ CloseRemoves(c, FALSE)
            \/ CloseWaits(c) \/ CloseDrains(c) \/ CloseReleases(c)

-----------------------------------------------------------------------------
(* eventInvoke, on a thread of the source. *)

\* the source copies its list of handlers and holds a reference for the call
Raise(d) == /\ delivery[d] = "idle"
            /\ subs # {}
            /\ AddRef
            /\ GotoDelivery(d, "raised")
            /\ UNCHANGED <<obj, handlerVars, callVars, sourceVars>>

\* eventAddRef(self)
InvokeEnters(d) == /\ delivery[d] = "raised"
                   /\ AddRef
                   /\ GotoDelivery(d, "entered")
                   /\ UNCHANGED <<obj, handlerVars, callVars, sourceVars>>

\* the handle is resolved; beginInvoke refuses a closed handler
BeginInvokeRefuses(d) == /\ delivery[d] = "entered"
                         /\ Unlocked
                         /\ closed
                         /\ GotoDelivery(d, "leaving")
                         /\ UNCHANGED <<objectVars, handlerVars, callVars, sourceVars>>

\* beginInvoke counts the callback in, and the callback starts
BeginInvoke(d) == /\ delivery[d] = "entered"
                  /\ Unlocked
                  /\ ~closed
                  /\ inflight' = inflight + 1
                  /\ GotoDelivery(d, "callback")
                  /\ UNCHANGED <<objectVars, mu, token, closed, callVars, sourceVars>>

\* the callback returns; endInvoke wakes every waiting Close at zero
EndInvoke(d) == /\ delivery[d] = "callback"
                /\ Unlocked
                /\ inflight' = inflight - 1
                /\ closing' = [c \in Closers |->
                                 IF inflight = 1 /\ closing[c] = "waiting"
                                 THEN "draining" ELSE closing[c]]
                /\ GotoDelivery(d, "leaving")
                /\ UNCHANGED <<objectVars, mu, token, closed, reg, unreg, taken, sourceVars>>

\* the deferred eventRelease(self)
InvokeLeaves(d) == /\ delivery[d] = "leaving"
                   /\ ReleaseRefs(1)
                   /\ GotoDelivery(d, "left")
                   /\ UNCHANGED <<obj, handlerVars, callVars, sourceVars>>

\* the source drops the reference it held for the delivery
RaiseEnds(d) == /\ delivery[d] = "left"
                /\ ReleaseRefs(1)
                /\ GotoDelivery(d, "over")
                /\ UNCHANGED <<obj, handlerVars, callVars, sourceVars>>

Deliver(d) == \/ InvokeEnters(d) \/ BeginInvokeRefuses(d) \/ BeginInvoke(d)
              \/ EndInvoke(d) \/ InvokeLeaves(d) \/ RaiseEnds(d)

\* external: a source nobody references goes away with its subscriptions
SourceDies == /\ sourceRefs = 0
              /\ mu = NoThread
              /\ subs # {}
              /\ subs' = {}
              /\ ReleaseRefs(Cardinality(subs))
              /\ UNCHANGED <<obj, handlerVars, callVars, delivery, sourceRefs>>

-----------------------------------------------------------------------------
Next == \/ \E r \in Registrars : Register(r)
        \/ \E u \in Unregistrars : Unregister(u)
        \/ \E c \in Closers : Close(c)
        \/ \E d \in Deliveries : Raise(d) \/ Deliver(d)
        \/ SourceDies

(* A goroutine inside a call is scheduled again, h.mu is handed on (Go's     *)
(* mutexes do not starve a waiter), and a delivery that has begun ends: the  *)
(* callbacks of this program only send to a channel without blocking.        *)
Fairness == /\ \A r \in Registrars : WF_vars(reg[r] # "idle" /\ Register(r))
            /\ \A u \in Unregistrars : WF_vars(unreg[u] # "idle" /\ Unregister(u))
            /\ \A c \in Closers : WF_vars(closing[c] # "idle" /\ Close(c))
            /\ \A d \in Deliveries : WF_vars(Deliver(d))

Spec == Init /\ [][Next]_vars /\ Fairness

-----------------------------------------------------------------------------
(* Properties. *)

Snapshots == {d \in Deliveries : delivery[d] \notin {"idle", "over"}}
Entered   == {d \in Deliveries : delivery[d] \in {"entered", "callback", "leaving"}}
Callbacks == {d \in Deliveries : delivery[d] = "callback"}
Releasers == {c \in Closers : closing[c] = "releasing"}
Mine      == ({token} \cup {taken[x] : x \in Takers}) \ {NoToken}
Own       == IF obj \/ Releasers # {} THEN 1 ELSE 0

(* event.go:251-297, event_test.go:31-33.  The count in the object is the    *)
(* number of references that exist: the handler's own, the source's          *)
(* subscriptions, and two for a delivery inside eventInvoke.  The object is  *)
(* freed exactly at zero, so that none of these ever touches a freed one,    *)
(* not even a delivery that begins after Close.                              *)
RefsAccounted ==
    /\ TypeOK
    /\ refs = Own + Cardinality(subs) + Cardinality(Snapshots) + Cardinality(Entered)
    /\ freed <=> refs = 0

(* event.go:139-172.  When the call of Close that closed the handler has     *)
(* returned, no callback runs and none will: what it uses may be torn down.  *)
NoCallbackAfterClose ==
    (\E c \in Closers : closing[c] \in {"releasing", "closed"}) =>
        closed /\ inflight = 0 /\ Callbacks = {}

(* event.go:116, 131-136, 155-158.  A registration that the handler keeps or *)
(* is about to remove is one the source has, and holds a reference to the    *)
(* source; until an Unregister returns, which may have lost a registration   *)
(* in restoreRegistration, there are no other references to the source.      *)
SourceRefsAccounted ==
    /\ Mine \subseteq subs
    /\ Cardinality(Mine) <= sourceRefs
    /\ (\A u \in Unregistrars : unreg[u] # "returned")
         => sourceRefs = Cardinality(Mine)

(* event.go:160-163, 309-316.  A Close that waits for callbacks is woken     *)
(* when the last one ends, whatever arrives meanwhile: Close returns.        *)
CloseAnswered ==
    \A c \in Closers : closing[c] # "idle" ~> closing[c] \in {"closed", "returned"}

Over  == {d \in Deliveries : delivery[d] \in {"leaving", "left", "over"}}
Phase == IF ~closed THEN "open"
         ELSE IF \E c \in Closers : closing[c] \in {"releasing", "closed"}
         THEN "closed" ELSE "closing"

Gate == INSTANCE CallbackGate WITH active <- Callbacks, over <- Over, phase <- Phase

(* The callback is guarded as CallbackGate says.                             *)
ImplementsGate == Gate!Spec
=============================================================================
