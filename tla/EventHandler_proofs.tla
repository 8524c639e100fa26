------------------------ MODULE EventHandler_proofs ------------------------
(***************************************************************************)
(* Proofs about EventHandler for any number of registrations, closes and   *)
(* deliveries: the counts in the object and in the source, and that no     *)
(* callback runs once Close is through.  All follow from IInv, which says  *)
(* who holds h.mu, which Close is at work, and who owns a registration.    *)
(***************************************************************************)
EXTENDS EventHandler, FiniteSetTheorems, TLAPS

\* the Closes past "if h.closed": the one that closed the handler
Active(c) == closing[c] \notin {"idle", "returned"}

\* the registration that a call holds while it removes or restores it
Holding(x) == \/ x \in Unregistrars /\ unreg[x] \in {"removing", "restoring"}
              \/ x \in Closers /\ closing[x] = "removing"

\* h.mu: while Register calls add_X, nothing it checked changes
LockInv == /\ \A r \in Registrars : reg[r] \in {"adding", "added"} <=> mu = r
           /\ mu # NoThread => obj /\ ~closed /\ token = NoToken

\* one Close does the work, it alone drops h.obj, and only after the callbacks
CloseInv == /\ \A c \in Closers : Active(c) => closed
            /\ \A c, e \in Closers : Active(c) /\ Active(e) => c = e
            /\ \A c \in Closers :
                 closing[c] \in {"releasing", "closed"} => inflight = 0 /\ ~obj

\* inflight counts the callbacks that run
InflightInv == inflight = Cardinality(Callbacks)

\* a registration has one owner, and the source has it
TokenInv ==
    /\ \A x \in Takers : Holding(x) <=> taken[x] # NoToken
    /\ \A x \in Takers : taken[x] # NoToken => taken[x] # token
    /\ \A x, y \in Takers : taken[x] # NoToken /\ taken[x] = taken[y] => x = y
    /\ \A r \in Mine : reg[r] = "returned"
    /\ \A r \in Registrars : reg[r] = "added" => r \in subs
    /\ \A r \in subs : reg[r] \in {"added", "returned"}

IInv == /\ RefsAccounted
        /\ SourceRefsAccounted
        /\ LockInv
        /\ CloseInv
        /\ InflightInv
        /\ TokenInv

-----------------------------------------------------------------------------
(* The sets that are counted, and how a step changes their counts.           *)

LEMMA Finiteness ==
  /\ TypeOK => IsFiniteSet(subs) /\ IsFiniteSet(Mine)
  /\ IsFiniteSet(Snapshots) /\ IsFiniteSet(Entered) /\ IsFiniteSet(Callbacks)
<1>1. ASSUME TypeOK PROVE subs \in SUBSET Registrars /\ Mine \in SUBSET Registrars
  BY <1>1 DEF TypeOK, Mine
<1>2. /\ Snapshots \in SUBSET Deliveries
      /\ Entered \in SUBSET Deliveries
      /\ Callbacks \in SUBSET Deliveries
  BY DEF Snapshots, Entered, Callbacks
<1>3. TypeOK => IsFiniteSet(subs) /\ IsFiniteSet(Mine)
  BY <1>1, FS_Subset, RegistrarsAssumption
<1>4. IsFiniteSet(Snapshots) /\ IsFiniteSet(Entered) /\ IsFiniteSet(Callbacks)
  BY <1>2, FS_Subset, DeliveriesAssumption
<1> QED BY <1>3, <1>4

LEMMA Counts ==
  /\ TypeOK => Cardinality(subs) \in Nat /\ Cardinality(Mine) \in Nat
  /\ Cardinality(Snapshots) \in Nat
  /\ Cardinality(Entered) \in Nat
  /\ Cardinality(Callbacks) \in Nat
  BY Finiteness, FS_CardinalityType

\* the count of a set to which one element is added or from which it is taken
LEMMA OneElement ==
  ASSUME NEW S, NEW x, IsFiniteSet(S)
  PROVE  /\ Cardinality(S \cup {x}) = Cardinality(S) + (IF x \in S THEN 0 ELSE 1)
         /\ Cardinality(S \ {x}) = Cardinality(S) - (IF x \in S THEN 1 ELSE 0)
<1>1. Cardinality(S) \in Nat
  BY FS_CardinalityType
<1>2. Cardinality(S \cup {x}) = IF x \in S THEN Cardinality(S) ELSE Cardinality(S) + 1
  BY FS_AddElement
<1>3. Cardinality(S \ {x}) = IF x \in S THEN Cardinality(S) - 1 ELSE Cardinality(S)
  BY FS_RemoveElement
<1> QED BY <1>1, <1>2, <1>3

\* a delivery that moves to pc is counted where pc says, and nowhere else
LEMMA DeliveryMoves ==
  ASSUME TypeOK, NEW d \in Deliveries, NEW pc \in DeliveryPc, GotoDelivery(d, pc)
  PROVE  /\ Snapshots' = IF pc \in {"idle", "over"} THEN Snapshots \ {d}
                                                    ELSE Snapshots \cup {d}
         /\ Entered' = IF pc \in {"entered", "callback", "leaving"}
                       THEN Entered \cup {d} ELSE Entered \ {d}
         /\ Callbacks' = IF pc = "callback" THEN Callbacks \cup {d} ELSE Callbacks \ {d}
<1>1. \A e \in Deliveries : delivery'[e] = IF e = d THEN pc ELSE delivery[e]
  BY DEF TypeOK, GotoDelivery
<1>2. Snapshots' = {e \in Deliveries : delivery'[e] \notin {"idle", "over"}}
  BY DEF Snapshots
<1>3. Entered' = {e \in Deliveries : delivery'[e] \in {"entered", "callback", "leaving"}}
  BY DEF Entered
<1>4. Callbacks' = {e \in Deliveries : delivery'[e] = "callback"}
  BY DEF Callbacks
<1> QED BY <1>1, <1>2, <1>3, <1>4 DEF Snapshots, Entered, Callbacks

\* the reference of the handler itself depends on h.obj and the one releaser
LEMMA OwnKept == UNCHANGED <<obj, closing>> => UNCHANGED Own
  BY DEF Own, Releasers

\* eventAddRef by someone who has a reference
LEMMA Retained ==
  ASSUME refs \in Nat, refs > 0, freed <=> refs = 0, freed \in BOOLEAN, AddRef
  PROVE  refs' = refs + 1 /\ (freed' <=> refs' = 0)
  BY DEF AddRef

\* eventRelease by those who have n references
LEMMA Released ==
  ASSUME refs \in Nat, NEW n \in Nat, n <= refs, freed <=> refs = 0, freed \in BOOLEAN,
         ReleaseRefs(n)
  PROVE  refs' = refs - n /\ (freed' <=> refs' = 0)
<1>1. refs' = refs - n /\ (freed' <=> freed \/ refs = n)
  BY Zenon DEF ReleaseRefs
<1>2. (refs' = 0 <=> refs = n) /\ (refs = 0 => refs = n)
  BY <1>1
<1> QED BY <1>1, <1>2

\* a subscription that goes takes the source's reference with it
LEMMA Unsubscribed ==
  ASSUME IInv, NEW t \in Registrars, t \in subs, Unsubscribe(t)
  PROVE  /\ subs' = subs \ {t}
         /\ Cardinality(subs') = Cardinality(subs) - 1
         /\ refs' = refs - 1
         /\ freed' <=> refs' = 0
<1>1. IsFiniteSet(subs) /\ Cardinality(subs) \in Nat
  BY Finiteness, Counts DEF IInv, RefsAccounted
<1>2. subs' = subs \ {t} /\ ReleaseRefs(1)
  BY DEF Unsubscribe
<1>3. Cardinality(subs') = Cardinality(subs) - 1
  BY <1>1, <1>2, FS_RemoveElement
<1>4. Cardinality(subs) >= 1
  BY <1>1, FS_EmptySet
<1>5. refs \in Nat /\ refs >= 1 /\ freed \in BOOLEAN /\ (freed <=> refs = 0)
  BY <1>1, <1>4, Counts DEF IInv, RefsAccounted, TypeOK, Own
<1>6. refs' = refs - 1 /\ (freed' <=> refs' = 0)
  BY <1>2, <1>5, Released
<1> QED BY <1>2, <1>3, <1>6
-----------------------------------------------------------------------------
(* The count in the object.                                                  *)

RefCount == /\ refs = Own + Cardinality(subs) + Cardinality(Snapshots) + Cardinality(Entered)
            /\ freed <=> refs = 0

\* steps that leave all that RefCount speaks of alone
Uncounted == UNCHANGED <<objectVars, closing, delivery, subs>>

LEMMA RegisterCounts ==
  ASSUME IInv, NEW r \in Registrars, Register(r) PROVE RefCount'
<1> USE DEF objectVars, handlerVars, sourceVars
<1>1. CASE Uncounted
  BY <1>1 DEF Uncounted, RefCount, Own, Releasers, Snapshots, Entered, IInv, RefsAccounted
<1>2. CASE AddSucceeds(r)
  <2>1. obj /\ r \notin subs
    BY <1>2, ThreadAssumption DEF AddSucceeds, IInv, LockInv, TokenInv
  <2>2. UNCHANGED <<Own, Snapshots, Entered>> /\ Own = 1
    BY <1>2, <2>1, OwnKept DEF AddSucceeds, Snapshots, Entered, Own
  <2>3. IsFiniteSet(subs) /\ subs' = subs \cup {r}
    BY <1>2, Finiteness DEF AddSucceeds, IInv, RefsAccounted
  <2>4. Cardinality(subs') = Cardinality(subs) + 1
    BY <2>1, <2>3, FS_AddElement
  <2>5. /\ refs \in Nat /\ refs > 0 /\ freed \in BOOLEAN /\ (freed <=> refs = 0)
        /\ refs = Own + Cardinality(subs) + Cardinality(Snapshots) + Cardinality(Entered)
    BY <2>2, Counts DEF IInv, RefsAccounted, TypeOK
  <2>6. refs' = refs + 1 /\ (freed' <=> refs' = 0)
    BY <1>2, <2>5, Retained DEF AddSucceeds
  <2> QED BY <2>2, <2>4, <2>5, <2>6, Counts DEF RefCount, IInv, RefsAccounted
<1>3. ~AddSucceeds(r) => Uncounted
  BY DEF Register, RegisterRefuses, RegisterEnters, AddFails, RegisterReturns, Uncounted
<1> QED BY <1>1, <1>2, <1>3

LEMMA RemoveCounts ==
  ASSUME IInv, NEW x \in Takers, Holding(x), Unsubscribe(taken[x]),
         UNCHANGED <<Own, delivery>>
  PROVE  RefCount'
<1>1. taken[x] \in Registrars /\ taken[x] \in subs
  BY TokenAssumption DEF IInv, TokenInv, SourceRefsAccounted, Mine, RefsAccounted, TypeOK
<1>2. /\ refs' = refs - 1 /\ (freed' <=> refs' = 0)
      /\ Cardinality(subs') = Cardinality(subs) - 1
  BY <1>1, Unsubscribed
<1>3. UNCHANGED <<Snapshots, Entered>>
  BY DEF Snapshots, Entered
<1> QED BY <1>2, <1>3, Counts DEF RefCount, Own, IInv, RefsAccounted, TypeOK

LEMMA UnregisterCounts ==
  ASSUME IInv, NEW u \in Unregistrars, Unregister(u) PROVE RefCount'
<1> USE DEF objectVars, handlerVars, sourceVars
<1>1. CASE Uncounted
  BY <1>1 DEF Uncounted, RefCount, Own, Releasers, Snapshots, Entered, IInv, RefsAccounted
<1>2. CASE UnregisterRemoves(u)
  <2>1. Holding(u) /\ u \in Takers
    BY <1>2 DEF UnregisterRemoves, Holding, Takers
  <2>2. UNCHANGED <<Own, delivery>> /\ Unsubscribe(taken[u])
    BY <1>2, OwnKept DEF UnregisterRemoves
  <2> QED BY <2>1, <2>2, RemoveCounts
<1>3. ~UnregisterRemoves(u) => Uncounted
  BY DEF Unregister, UnregisterIdles, TakeRegistration, RemoveFails, RestoreRegistration,
         Uncounted
<1> QED BY <1>1, <1>2, <1>3

LEMMA CloseCounts ==
  ASSUME IInv, NEW c \in Closers, Close(c) PROVE RefCount'
<1> USE DEF objectVars, handlerVars, sourceVars
<1>t. /\ closing \in [Closers -> ClosePc] /\ obj \in BOOLEAN /\ freed \in BOOLEAN
      /\ refs \in Nat
      /\ refs = Own + Cardinality(subs) + Cardinality(Snapshots) + Cardinality(Entered)
      /\ freed <=> refs = 0
  BY DEF IInv, RefsAccounted, TypeOK
<1>1. CASE /\ UNCHANGED <<objectVars, delivery, subs>>
           /\ closing[c] # "releasing"
           /\ \E pc \in ClosePc \ {"releasing"} : GotoClose(c, pc)
  <2>1. UNCHANGED <<Releasers, Snapshots, Entered>>
    BY <1>t, <1>1 DEF GotoClose, Releasers, Snapshots, Entered
  <2>2. UNCHANGED Own
    BY <1>1, <2>1 DEF Own
  <2> QED BY <1>t, <1>1, <2>1, <2>2 DEF RefCount
<1>2. ASSUME NEW ok \in BOOLEAN, CloseRemoves(c, ok) PROVE RefCount'
  <2>1. Holding(c) /\ c \in Takers /\ UNCHANGED delivery
    BY <1>2 DEF CloseRemoves, Holding, Takers
  <2>2. UNCHANGED <<Releasers, obj>>
    BY <1>t, <1>2 DEF CloseRemoves, GotoClose, Releasers
  <2>3. UNCHANGED Own
    BY <2>2 DEF Own
  <2>4. CASE Unsubscribe(taken[c])
    BY <2>1, <2>3, <2>4, RemoveCounts
  <2>5. CASE UNCHANGED <<subs, refs, freed>>
    BY <1>t, <2>1, <2>3, <2>5 DEF RefCount, Snapshots, Entered
  <2> QED BY <1>2, <2>4, <2>5 DEF CloseRemoves
<1>3. CASE CloseDrains(c)
  <2>1. CASE obj
    <3>1. c \in Releasers'
      BY <1>t, <1>3, <2>1 DEF CloseDrains, GotoClose, Releasers
    <3>2. Own = 1 /\ Own' = 1
      BY <2>1, <3>1 DEF Own
    <3> QED BY <1>t, <1>3, <3>2 DEF CloseDrains, RefCount, Snapshots, Entered
  <2>2. CASE ~obj
    <3>1. UNCHANGED <<obj, Releasers>>
      BY <1>t, <1>3, <2>2 DEF CloseDrains, GotoClose, Releasers
    <3>2. UNCHANGED Own
      BY <3>1 DEF Own
    <3> QED BY <1>t, <1>3, <3>2 DEF CloseDrains, RefCount, Snapshots, Entered
  <2> QED BY <2>1, <2>2
<1>4. CASE CloseReleases(c)
  <2>1. ~obj /\ Releasers = {c} /\ Releasers' = {}
    BY <1>t, <1>4 DEF CloseReleases, GotoClose, Releasers, IInv, CloseInv, Active
  <2>2. Own = 1 /\ Own' = 0
    BY <1>4, <2>1 DEF Own, CloseReleases
  <2>3. refs >= 1 /\ Cardinality(subs) \in Nat
    BY <1>t, <2>2, Counts DEF IInv, RefsAccounted
  <2>4. refs' = refs - 1 /\ (freed' <=> refs' = 0)
    BY <1>t, <1>4, <2>3, Released DEF CloseReleases
  <2>5. UNCHANGED <<subs, Snapshots, Entered>>
    BY <1>4 DEF CloseReleases, Snapshots, Entered
  <2> QED BY <1>t, <2>2, <2>3, <2>4, <2>5, Counts DEF RefCount
<1>5. CASE CloseIdles(c) \/ CloseBegins(c) \/ CloseWaits(c)
  BY <1>1, <1>5 DEF CloseIdles, CloseBegins, CloseWaits, ClosePc
<1> QED BY <1>2, <1>3, <1>4, <1>5 DEF Close

LEMMA DeliveryCounts ==
  ASSUME IInv, NEW d \in Deliveries, Raise(d) \/ Deliver(d) PROVE RefCount'
<1> USE DEF objectVars, handlerVars, callVars, sourceVars
<1>t. /\ TypeOK /\ refs \in Nat /\ freed \in BOOLEAN /\ Cardinality(subs) \in Nat
      /\ refs = Own + Cardinality(subs) + Cardinality(Snapshots) + Cardinality(Entered)
      /\ freed <=> refs = 0
      /\ Own \in {0, 1}
      /\ IsFiniteSet(subs) /\ IsFiniteSet(Snapshots) /\ IsFiniteSet(Entered)
  BY Counts, Finiteness DEF IInv, RefsAccounted, TypeOK, Own
<1>u. UNCHANGED <<Own, subs>>
  <2>1. UNCHANGED <<obj, Releasers, subs>>
    BY <1>t DEF Raise, Deliver, InvokeEnters, BeginInvokeRefuses, BeginInvoke, EndInvoke,
                InvokeLeaves, RaiseEnds, Releasers, TypeOK
  <2> QED BY <2>1 DEF Own
<1>c. /\ d \in Snapshots <=> delivery[d] \notin {"idle", "over"}
      /\ d \in Entered <=> delivery[d] \in {"entered", "callback", "leaving"}
      /\ d \in Snapshots => Cardinality(Snapshots) >= 1
      /\ d \in Entered => Cardinality(Entered) >= 1
      /\ subs # {} => Cardinality(subs) >= 1
  BY <1>t, FS_EmptySet, Counts DEF Snapshots, Entered
<1>s. /\ Cardinality(Snapshots \cup {d}) =
           Cardinality(Snapshots) + (IF d \in Snapshots THEN 0 ELSE 1)
      /\ Cardinality(Snapshots \ {d}) =
           Cardinality(Snapshots) - (IF d \in Snapshots THEN 1 ELSE 0)
      /\ Cardinality(Entered \cup {d}) =
           Cardinality(Entered) + (IF d \in Entered THEN 0 ELSE 1)
      /\ Cardinality(Entered \ {d}) =
           Cardinality(Entered) - (IF d \in Entered THEN 1 ELSE 0)
  BY <1>t, OneElement
<1>1. CASE Raise(d)
  <2>1. Snapshots' = Snapshots \cup {d} /\ Entered' = Entered \ {d}
    BY <1>t, <1>1, DeliveryMoves DEF Raise, DeliveryPc
  <2>2. refs' = refs + 1 /\ (freed' <=> refs' = 0)
    BY <1>t, <1>c, <1>1, Retained, Counts DEF Raise
  <2> QED BY <1>t, <1>u, <1>c, <1>s, <1>1, <2>1, <2>2, Counts DEF Raise, RefCount
<1>2. CASE InvokeEnters(d)
  <2>1. Snapshots' = Snapshots \cup {d} /\ Entered' = Entered \cup {d}
    BY <1>t, <1>2, DeliveryMoves DEF InvokeEnters, DeliveryPc
  <2>2. refs' = refs + 1 /\ (freed' <=> refs' = 0)
    BY <1>t, <1>c, <1>2, Retained, Counts DEF InvokeEnters
  <2> QED BY <1>t, <1>u, <1>c, <1>s, <1>2, <2>1, <2>2, Counts DEF InvokeEnters, RefCount
<1>3. CASE BeginInvokeRefuses(d) \/ BeginInvoke(d) \/ EndInvoke(d)
  <2>1. Snapshots' = Snapshots \cup {d} /\ Entered' = Entered \cup {d}
    BY <1>t, <1>3, DeliveryMoves
       DEF BeginInvokeRefuses, BeginInvoke, EndInvoke, DeliveryPc
  <2>2. d \in Snapshots /\ d \in Entered /\ UNCHANGED <<refs, freed>>
    BY <1>c, <1>3 DEF BeginInvokeRefuses, BeginInvoke, EndInvoke
  <2>3. Snapshots' = Snapshots /\ Entered' = Entered
    BY <2>1, <2>2
  <2> QED BY <1>t, <1>u, <2>2, <2>3 DEF RefCount
<1>4. CASE InvokeLeaves(d)
  <2>1. Snapshots' = Snapshots \cup {d} /\ Entered' = Entered \ {d}
    BY <1>t, <1>4, DeliveryMoves DEF InvokeLeaves, DeliveryPc
  <2>2. refs' = refs - 1 /\ (freed' <=> refs' = 0)
    BY <1>t, <1>c, <1>4, Released, Counts DEF InvokeLeaves
  <2> QED BY <1>t, <1>u, <1>c, <1>s, <1>4, <2>1, <2>2, Counts DEF InvokeLeaves, RefCount
<1>5. CASE RaiseEnds(d)
  <2>1. Snapshots' = Snapshots \ {d} /\ Entered' = Entered \ {d}
    BY <1>t, <1>5, DeliveryMoves DEF RaiseEnds, DeliveryPc
  <2>2. refs' = refs - 1 /\ (freed' <=> refs' = 0)
    BY <1>t, <1>c, <1>5, Released, Counts DEF RaiseEnds
  <2> QED BY <1>t, <1>u, <1>c, <1>s, <1>5, <2>1, <2>2, Counts DEF RaiseEnds, RefCount
<1> QED BY <1>1, <1>2, <1>3, <1>4, <1>5 DEF Deliver

LEMMA SourceDiesCounts ==
  ASSUME IInv, SourceDies PROVE RefCount'
<1> USE DEF handlerVars, callVars
<1>1. /\ refs \in Nat /\ freed \in BOOLEAN /\ Cardinality(subs) \in Nat
      /\ refs = Own + Cardinality(subs) + Cardinality(Snapshots) + Cardinality(Entered)
      /\ freed <=> refs = 0
      /\ Own \in {0, 1}
  BY Counts DEF IInv, RefsAccounted, TypeOK, Own
<1>2. refs' = refs - Cardinality(subs) /\ (freed' <=> refs' = 0)
  BY <1>1, Released, Counts DEF SourceDies
<1>3. Cardinality(subs') = 0
  BY FS_EmptySet DEF SourceDies
<1>4. UNCHANGED <<Own, Snapshots, Entered>>
  BY DEF SourceDies, Own, Releasers, Snapshots, Entered
<1> QED BY <1>1, <1>2, <1>3, <1>4, Counts DEF RefCount
-----------------------------------------------------------------------------
(* The types of everything but the counters.                                 *)

LEMMA NextTypeOK ==
  ASSUME TypeOK, [Next]_vars, refs' \in Nat, inflight' \in Nat, sourceRefs' \in Nat
  PROVE  TypeOK'
<1> USE DEF TypeOK, objectVars, handlerVars, callVars, sourceVars, Takers, ReleaseRefs,
            AddRef, Unsubscribe, GotoReg, GotoUnreg, GotoClose, GotoDelivery, RegPc, UnregPc,
            ClosePc, DeliveryPc
<1>1. ASSUME NEW r \in Registrars, Register(r) PROVE TypeOK'
  BY <1>1 DEF Register, RegisterRefuses, RegisterEnters, AddSucceeds, AddFails,
              RegisterReturns
<1>2. ASSUME NEW u \in Unregistrars, Unregister(u) PROVE TypeOK'
  BY <1>2 DEF Unregister, UnregisterIdles, TakeRegistration, UnregisterRemoves, RemoveFails,
              RestoreRegistration
<1>3. ASSUME NEW c \in Closers, Close(c) PROVE TypeOK'
  BY <1>3 DEF Close, CloseIdles, CloseBegins, CloseRemoves, CloseWaits, CloseDrains,
              CloseReleases
<1>4. ASSUME NEW d \in Deliveries, Raise(d) \/ Deliver(d) PROVE TypeOK'
  <2>1. CASE EndInvoke(d)
    BY <2>1 DEF EndInvoke
  <2>2. CASE ~EndInvoke(d)
    BY <1>4, <2>2 DEF Raise, Deliver, InvokeEnters, BeginInvokeRefuses, BeginInvoke,
                      InvokeLeaves, RaiseEnds
  <2> QED BY <2>1, <2>2
<1>5. CASE SourceDies
  BY <1>5 DEF SourceDies
<1>6. CASE UNCHANGED vars
  BY <1>6 DEF vars
<1> QED BY <1>1, <1>2, <1>3, <1>4, <1>5, <1>6 DEF Next

-----------------------------------------------------------------------------
(* h.mu, and which Close is at work.                                         *)

LEMMA NextLockInv == IInv /\ [Next]_vars => LockInv'
<1> SUFFICES ASSUME IInv, [Next]_vars PROVE LockInv'
  OBVIOUS
<1> USE DEF LockInv, Unlocked, objectVars, handlerVars, callVars, sourceVars
<1>t. TypeOK /\ LockInv
  BY DEF IInv, RefsAccounted
<1>1. ASSUME NEW r \in Registrars, Register(r) PROVE LockInv'
  BY <1>t, <1>1, ThreadAssumption
     DEF Register, RegisterRefuses, RegisterEnters, AddSucceeds, AddFails, RegisterReturns,
         RegisterIdles, GotoReg, TypeOK
<1>2. ASSUME NEW u \in Unregistrars, Unregister(u) PROVE LockInv'
  BY <1>t, <1>2 DEF Unregister, UnregisterIdles, TakeRegistration, UnregisterRemoves,
                    RemoveFails, RestoreRegistration
<1>3. ASSUME NEW c \in Closers, Close(c) PROVE LockInv'
  BY <1>t, <1>3 DEF Close, CloseIdles, CloseBegins, CloseRemoves, CloseWaits, CloseDrains,
                    CloseReleases
<1>4. ASSUME NEW d \in Deliveries, Raise(d) \/ Deliver(d) PROVE LockInv'
  BY <1>t, <1>4 DEF Raise, Deliver, InvokeEnters, BeginInvokeRefuses, BeginInvoke, EndInvoke,
                    InvokeLeaves, RaiseEnds
<1>5. CASE SourceDies \/ UNCHANGED vars
  BY <1>t, <1>5 DEF SourceDies, vars
<1> QED BY <1>1, <1>2, <1>3, <1>4, <1>5 DEF Next

LEMMA NextCloseInv == IInv /\ [Next]_vars => CloseInv'
<1> SUFFICES ASSUME IInv, [Next]_vars PROVE CloseInv'
  OBVIOUS
<1> USE DEF CloseInv, Active, objectVars, handlerVars, callVars, sourceVars
<1>t. TypeOK /\ CloseInv
  BY DEF IInv, RefsAccounted
<1>1. ASSUME NEW r \in Registrars, Register(r) PROVE CloseInv'
  BY <1>t, <1>1 DEF Register, RegisterRefuses, RegisterEnters, AddSucceeds, AddFails,
                    RegisterReturns
<1>2. ASSUME NEW u \in Unregistrars, Unregister(u) PROVE CloseInv'
  BY <1>t, <1>2 DEF Unregister, UnregisterIdles, TakeRegistration, UnregisterRemoves,
                    RemoveFails, RestoreRegistration
<1>3. ASSUME NEW c \in Closers, Close(c) PROVE CloseInv'
  BY <1>t, <1>3 DEF Close, CloseIdles, CloseBegins, CloseRemoves, CloseWaits, CloseDrains,
                    CloseReleases, GotoClose, TypeOK, ClosePc
<1>4. ASSUME NEW d \in Deliveries, Raise(d) \/ Deliver(d) PROVE CloseInv'
  <2>1. CASE BeginInvoke(d)
    BY <1>t, <2>1 DEF BeginInvoke
  <2>2. CASE EndInvoke(d)
    <3>1. inflight # 0
      <4>1. d \in Callbacks
        BY <2>2 DEF EndInvoke, Callbacks
      <4> QED BY <4>1, Finiteness, FS_EmptySet DEF IInv, InflightInv
    <3>2. \A c \in Closers :
             /\ closing'[c] = IF inflight = 1 /\ closing[c] = "waiting"
                              THEN "draining" ELSE closing[c]
             /\ closing[c] \notin {"releasing", "closed"}
      BY <1>t, <2>2, <3>1 DEF EndInvoke
    <3>3. UNCHANGED closed
      BY <2>2 DEF EndInvoke
    <3>4. \A c \in Closers : /\ Active(c) <=> Active(c)'
                             /\ closing'[c] \notin {"releasing", "closed"}
      BY <3>2
    <3> QED BY <1>t, <3>3, <3>4
  <2>3. CASE ~BeginInvoke(d) /\ ~EndInvoke(d)
    BY <1>t, <1>4, <2>3 DEF Raise, Deliver, InvokeEnters, BeginInvokeRefuses, InvokeLeaves,
                            RaiseEnds
  <2> QED BY <2>1, <2>2, <2>3
<1>5. CASE SourceDies \/ UNCHANGED vars
  BY <1>t, <1>5 DEF SourceDies, vars
<1> QED BY <1>1, <1>2, <1>3, <1>4, <1>5 DEF Next

LEMMA NextInflightInv == IInv /\ [Next]_vars => InflightInv'
<1> SUFFICES ASSUME IInv, [Next]_vars PROVE InflightInv'
  OBVIOUS
<1> USE DEF InflightInv, objectVars, handlerVars, callVars, sourceVars
<1>t. TypeOK /\ InflightInv /\ IsFiniteSet(Callbacks)
  BY Finiteness DEF IInv, RefsAccounted
<1>1. CASE UNCHANGED <<inflight, delivery>>
  BY <1>t, <1>1 DEF Callbacks
<1>2. ASSUME NEW d \in Deliveries, Raise(d) \/ Deliver(d) PROVE InflightInv'
  <2>c. d \in Callbacks <=> delivery[d] = "callback"
    BY DEF Callbacks
  <2>1. CASE BeginInvoke(d)
    <3>1. Callbacks' = Callbacks \cup {d}
      BY <1>t, <2>1, DeliveryMoves DEF BeginInvoke, DeliveryPc
    <3> QED BY <1>t, <2>c, <2>1, <3>1, OneElement, Counts DEF BeginInvoke
  <2>2. CASE EndInvoke(d)
    <3>1. Callbacks' = Callbacks \ {d}
      BY <1>t, <2>2, DeliveryMoves DEF EndInvoke, DeliveryPc
    <3> QED BY <1>t, <2>c, <2>2, <3>1, OneElement, Counts DEF EndInvoke
  <2>3. CASE ~BeginInvoke(d) /\ ~EndInvoke(d)
    <3>1. UNCHANGED inflight
      BY <1>2, <2>3 DEF Raise, Deliver, InvokeEnters, BeginInvokeRefuses, InvokeLeaves,
                        RaiseEnds
    <3>2. Callbacks' = Callbacks \ {d} /\ delivery[d] # "callback"
      BY <1>t, <1>2, <2>3, DeliveryMoves
         DEF Raise, Deliver, InvokeEnters, BeginInvokeRefuses, InvokeLeaves, RaiseEnds,
             DeliveryPc
    <3>3. UNCHANGED Callbacks
      BY <2>c, <3>2
    <3> QED BY <1>t, <3>1, <3>3
  <2> QED BY <2>1, <2>2, <2>3
<1>3. ASSUME NEW r \in Registrars, Register(r) PROVE UNCHANGED <<inflight, delivery>>
  BY <1>3 DEF Register, RegisterRefuses, RegisterEnters, AddSucceeds, AddFails,
              RegisterReturns
<1>4. ASSUME NEW u \in Unregistrars, Unregister(u) PROVE UNCHANGED <<inflight, delivery>>
  BY <1>4 DEF Unregister, UnregisterIdles, TakeRegistration, UnregisterRemoves, RemoveFails,
              RestoreRegistration
<1>5. ASSUME NEW c \in Closers, Close(c) PROVE UNCHANGED <<inflight, delivery>>
  BY <1>5 DEF Close, CloseIdles, CloseBegins, CloseRemoves, CloseWaits, CloseDrains,
              CloseReleases
<1>6. SourceDies \/ UNCHANGED vars => UNCHANGED <<inflight, delivery>>
  BY DEF SourceDies, vars
<1> QED BY <1>1, <1>2, <1>3, <1>4, <1>5, <1>6 DEF Next
-----------------------------------------------------------------------------
(* Who owns a registration, and the references to the source.                *)

SourceInv == SourceRefsAccounted /\ TokenInv /\ sourceRefs \in Nat

\* steps that leave all that SourceInv speaks of alone
Unowned == UNCHANGED <<token, taken, reg, subs, sourceRefs>>

LEMMA RegisterSource ==
  ASSUME IInv, NEW r \in Registrars, Register(r) PROVE SourceInv'
<1> USE DEF objectVars, handlerVars, sourceVars
<1>t. /\ TypeOK /\ SourceRefsAccounted /\ TokenInv /\ LockInv
      /\ IsFiniteSet(Mine) /\ Cardinality(Mine) \in Nat
  BY Finiteness, Counts DEF IInv, RefsAccounted
<1>1. CASE RegisterRefuses(r) \/ RegisterEnters(r) \/ AddFails(r) \/ AddSucceeds(r)
  <2>1. /\ UNCHANGED <<token, taken, unreg, closing, sourceRefs>>
        /\ subs' = subs \/ (subs' = subs \cup {r} /\ reg'[r] = "added")
        /\ reg[r] \in {"idle", "adding"}
        /\ \A s \in Registrars \ {r} : reg'[s] = reg[s]
        /\ reg'[r] \in {"returned", "adding", "added"}
        /\ reg'[r] = "added" => subs' = subs \cup {r}
    BY <1>t, <1>1 DEF RegisterRefuses, RegisterEnters, AddFails, AddSucceeds, GotoReg, TypeOK
  <2>2. UNCHANGED Mine /\ (\A x \in Takers : Holding(x)' <=> Holding(x))
    BY <2>1 DEF Mine, Holding
  <2>3. r \notin Mine /\ r \notin subs /\ Mine \subseteq Registrars /\ subs \subseteq Registrars
    BY <1>t, <2>1 DEF TokenInv, Mine, TypeOK
  <2>4. TokenInv'
    BY <1>t, <2>1, <2>2, <2>3 DEF TokenInv
  <2>5. SourceRefsAccounted'
    BY <1>t, <2>1, <2>2 DEF SourceRefsAccounted
  <2> QED BY <1>t, <2>1, <2>4, <2>5 DEF SourceInv, TypeOK
<1>2. CASE RegisterReturns(r)
  <2>1. /\ UNCHANGED <<taken, unreg, closing, subs>>
        /\ token' = r /\ token = NoToken /\ sourceRefs' = sourceRefs + 1
        /\ reg[r] = "added" /\ reg'[r] = "returned"
        /\ \A s \in Registrars \ {r} : reg'[s] = reg[s]
    BY <1>t, <1>2, ThreadAssumption DEF RegisterReturns, GotoReg, TypeOK, LockInv
  <2>2. /\ r \notin Mine /\ Mine \subseteq Registrars
        /\ r \in subs /\ subs \subseteq Registrars
    BY <1>t, <2>1 DEF TokenInv, Mine, TypeOK
  <2>3. Mine' = Mine \cup {r}
    BY <2>1, TokenAssumption DEF Mine
  <2>4. Cardinality(Mine') = Cardinality(Mine) + 1
    BY <1>t, <2>2, <2>3, OneElement
  <2>5. \A x \in Takers : (Holding(x)' <=> Holding(x)) /\ taken[x] # r
    BY <2>1, <2>2, TokenAssumption DEF Holding, Mine
  <2>6. TokenInv'
    BY <1>t, <2>1, <2>2, <2>3, <2>5 DEF TokenInv
  <2>7. SourceRefsAccounted'
    BY <1>t, <2>1, <2>2, <2>3, <2>4 DEF SourceRefsAccounted, TypeOK
  <2> QED BY <1>t, <2>1, <2>6, <2>7 DEF SourceInv, TypeOK
<1> QED BY <1>1, <1>2 DEF Register

\* a call removes the registration it holds and releases the source
LEMMA RemoveSource ==
  ASSUME IInv, NEW x \in Takers, Holding(x), ~Holding(x)',
         \A y \in Takers \ {x} : Holding(y)' <=> Holding(y),
         subs' = subs \/ subs' = subs \ {taken[x]}, sourceRefs' = sourceRefs - 1,
         taken' = [taken EXCEPT ![x] = NoToken], UNCHANGED <<token, reg>>,
         \A u \in Unregistrars : unreg[u] = "returned" => unreg'[u] = "returned"
  PROVE  SourceInv'
<1>t. /\ TypeOK /\ SourceRefsAccounted /\ TokenInv /\ sourceRefs \in Nat
      /\ IsFiniteSet(Mine) /\ Cardinality(Mine) \in Nat
      /\ taken \in [Takers -> Registrars \cup {NoToken}]
  BY Finiteness, Counts DEF IInv, RefsAccounted, TypeOK
<1>1. /\ \A y \in Takers : taken'[y] = IF y = x THEN NoToken ELSE taken[y]
      /\ taken[x] \in Mine /\ taken[x] # token
      /\ \A y \in Takers \ {x} : taken[y] # taken[x]
  BY <1>t DEF TokenInv, Mine
<1>2. Mine' = Mine \ {taken[x]}
  BY <1>1 DEF Mine
<1>3. Cardinality(Mine') = Cardinality(Mine) - 1
  BY <1>t, <1>1, <1>2, OneElement
<1>4. Cardinality(Mine) >= 1
  BY <1>t, <1>1, FS_EmptySet
<1>5. sourceRefs' \in Nat /\ SourceRefsAccounted'
  BY <1>t, <1>1, <1>2, <1>3, <1>4 DEF SourceRefsAccounted
<1>6. reg[taken[x]] = "returned"
  BY <1>t, <1>1 DEF TokenInv
<1>7. TokenInv'
  BY <1>t, <1>1, <1>2, <1>6 DEF TokenInv
<1> QED BY <1>5, <1>7 DEF SourceInv

\* a call takes the registration the handler kept, if there is one
LEMMA TakeSource ==
  ASSUME IInv, NEW x \in Takers, ~Holding(x),
         Holding(x)' <=> token # NoToken, \A y \in Takers \ {x} : Holding(y)' <=> Holding(y),
         taken' = [taken EXCEPT ![x] = token], token' = NoToken,
         UNCHANGED <<reg, subs, sourceRefs>>,
         \A u \in Unregistrars : unreg[u] = "returned" => unreg'[u] = "returned"
  PROVE  SourceInv'
<1>t. /\ SourceRefsAccounted /\ TokenInv /\ sourceRefs \in Nat
      /\ taken \in [Takers -> Registrars \cup {NoToken}]
  BY DEF IInv, RefsAccounted, TypeOK
<1>1. /\ \A y \in Takers : taken'[y] = IF y = x THEN token ELSE taken[y]
      /\ taken[x] = NoToken
  BY <1>t DEF TokenInv
<1>2. Mine' = Mine
  BY <1>1 DEF Mine
<1>3. SourceRefsAccounted'
  BY <1>t, <1>2 DEF SourceRefsAccounted
<1>4. TokenInv'
  BY <1>t, <1>1, <1>2 DEF TokenInv
<1> QED BY <1>t, <1>3, <1>4 DEF SourceInv

LEMMA KeepSource ==
  ASSUME IInv, Unowned, \A x \in Takers : Holding(x)' <=> Holding(x),
         \A u \in Unregistrars : unreg[u] = "returned" => unreg'[u] = "returned"
  PROVE  SourceInv'
<1>1. UNCHANGED Mine
  BY DEF Unowned, Mine
<1>2. SourceRefsAccounted /\ TokenInv /\ sourceRefs \in Nat
  BY DEF IInv, RefsAccounted, TypeOK
<1> QED
  BY <1>1, <1>2 DEF Unowned, SourceInv, SourceRefsAccounted, TokenInv

LEMMA UnregisterSource ==
  ASSUME IInv, NEW u \in Unregistrars, Unregister(u) PROVE SourceInv'
<1> USE DEF objectVars, handlerVars, sourceVars
<1>t. /\ TypeOK /\ SourceRefsAccounted /\ TokenInv
      /\ u \in Takers /\ u \notin Closers
      /\ unreg \in [Unregistrars -> UnregPc]
  BY TakersAssumption DEF IInv, RefsAccounted, Takers, TypeOK
<1>h. ASSUME NEW pc \in UnregPc, unreg[u] # "returned", GotoUnreg(u, pc), UNCHANGED closing
      PROVE  /\ Holding(u)' <=> pc \in {"removing", "restoring"}
             /\ \A y \in Takers \ {u} : Holding(y)' <=> Holding(y)
             /\ \A v \in Unregistrars : unreg[v] = "returned" => unreg'[v] = "returned"
             /\ unreg'[u] = pc
  BY <1>t, <1>h DEF GotoUnreg, Holding
<1>1. CASE UnregisterIdles(u) \/ RemoveFails(u)
  <2>1. Unowned /\ UNCHANGED closing
    BY <1>1 DEF UnregisterIdles, RemoveFails, Unowned
  <2>2. CASE UnregisterIdles(u)
    <3>1. ~Holding(u) /\ GotoUnreg(u, "returned") /\ unreg[u] # "returned"
      BY <1>t, <2>2 DEF UnregisterIdles, Holding
    <3>2. \A y \in Takers : Holding(y)' <=> Holding(y)
      BY <1>h, <2>1, <3>1 DEF UnregPc
    <3> QED BY <1>h, <2>1, <3>1, <3>2, KeepSource DEF UnregPc
  <2>3. CASE RemoveFails(u)
    <3>1. Holding(u) /\ GotoUnreg(u, "restoring") /\ unreg[u] # "returned"
      BY <1>t, <2>3 DEF RemoveFails, Holding
    <3>2. \A y \in Takers : Holding(y)' <=> Holding(y)
      BY <1>h, <2>1, <3>1 DEF UnregPc
    <3> QED BY <1>h, <2>1, <3>1, <3>2, KeepSource DEF UnregPc
  <2> QED BY <1>1, <2>2, <2>3
<1>2. CASE TakeRegistration(u)
  <2>1. /\ ~Holding(u) /\ GotoUnreg(u, "removing") /\ unreg[u] # "returned"
        /\ token # NoToken
        /\ taken' = [taken EXCEPT ![u] = token] /\ token' = NoToken
        /\ UNCHANGED <<reg, subs, sourceRefs, closing>>
    BY <1>t, <1>2 DEF TakeRegistration, Holding
  <2> QED BY <1>t, <1>h, <2>1, TakeSource DEF UnregPc
<1>3. CASE UnregisterRemoves(u)
  <2>1. /\ Holding(u) /\ GotoUnreg(u, "returned") /\ unreg[u] # "returned"
        /\ subs' = subs \ {taken[u]} /\ sourceRefs' = sourceRefs - 1
        /\ taken' = [taken EXCEPT ![u] = NoToken]
        /\ UNCHANGED <<token, reg, closing>>
    BY <1>t, <1>3 DEF UnregisterRemoves, Unsubscribe, Holding
  <2> QED BY <1>t, <1>h, <2>1, RemoveSource DEF UnregPc
<1>4. CASE RestoreRegistration(u)
  <2>1. /\ Holding(u) /\ GotoUnreg(u, "returned") /\ unreg[u] # "returned"
        /\ token' = token \/ token' = taken[u]
        /\ taken' = [taken EXCEPT ![u] = NoToken]
        /\ UNCHANGED <<reg, subs, sourceRefs, closing>>
    BY <1>t, <1>4 DEF RestoreRegistration, Holding
  <2>2. /\ \A y \in Takers : taken'[y] = IF y = u THEN NoToken ELSE taken[y]
        /\ taken[u] # NoToken /\ taken[u] # token
        /\ \A y \in Takers \ {u} : taken[y] # NoToken => taken[y] # taken[u]
    BY <1>t, <2>1 DEF TokenInv, TypeOK
  <2>3. Mine' \subseteq Mine
    BY <1>t, <2>1, <2>2 DEF Mine
  <2>4. Cardinality(Mine') <= Cardinality(Mine) /\ Cardinality(Mine') \in Nat
    BY <1>t, <2>3, Finiteness, FS_Subset, FS_CardinalityType
  <2>5. unreg'[u] = "returned" /\ ~Holding(u)' /\ \A y \in Takers \ {u} : Holding(y)' <=> Holding(y)
    BY <1>h, <2>1 DEF UnregPc
  <2>6. SourceRefsAccounted'
    BY <1>t, <2>1, <2>3, <2>4, <2>5, Counts DEF SourceRefsAccounted, TypeOK
  <2>7. TokenInv'
    BY <1>t, <2>1, <2>2, <2>3, <2>5 DEF TokenInv
  <2> QED BY <1>t, <2>1, <2>6, <2>7 DEF SourceInv, TypeOK
<1> QED BY <1>1, <1>2, <1>3, <1>4 DEF Unregister

LEMMA CloseSource ==
  ASSUME IInv, NEW c \in Closers, Close(c) PROVE SourceInv'
<1> USE DEF objectVars, handlerVars, sourceVars
<1>t. /\ TypeOK /\ TokenInv
      /\ c \in Takers /\ c \notin Unregistrars
      /\ closing \in [Closers -> ClosePc]
      /\ UNCHANGED unreg
  BY TakersAssumption
     DEF IInv, RefsAccounted, Takers, TypeOK, Close, CloseIdles, CloseBegins, CloseRemoves,
         CloseWaits, CloseDrains, CloseReleases
<1>h. ASSUME NEW pc \in ClosePc, GotoClose(c, pc)
      PROVE  /\ Holding(c)' <=> pc = "removing"
             /\ \A y \in Takers \ {c} : Holding(y)' <=> Holding(y)
  BY <1>t, <1>h DEF GotoClose, Holding
<1>1. CASE CloseIdles(c) \/ CloseWaits(c) \/ CloseDrains(c) \/ CloseReleases(c)
  <2>1. /\ Unowned /\ ~Holding(c)
        /\ \E pc \in ClosePc \ {"removing"} : GotoClose(c, pc)
    BY <1>t, <1>1 DEF CloseIdles, CloseWaits, CloseDrains, CloseReleases, Unowned, Holding,
                      ClosePc
  <2>2. \A y \in Takers : Holding(y)' <=> Holding(y)
    BY <1>h, <2>1
  <2> QED BY <1>t, <2>1, <2>2, KeepSource
<1>2. CASE CloseBegins(c)
  <2>1. /\ ~Holding(c)
        /\ GotoClose(c, IF token # NoToken THEN "removing" ELSE "draining")
        /\ taken' = [taken EXCEPT ![c] = token] /\ token' = NoToken
        /\ UNCHANGED <<reg, subs, sourceRefs>>
    BY <1>t, <1>2 DEF CloseBegins, Holding
  <2>2. Holding(c)' <=> token # NoToken
    BY <1>h, <2>1 DEF ClosePc
  <2>3. \A y \in Takers \ {c} : Holding(y)' <=> Holding(y)
    BY <1>h, <2>1 DEF ClosePc
  <2> QED BY <1>t, <2>1, <2>2, <2>3, TakeSource
<1>3. ASSUME NEW ok \in BOOLEAN, CloseRemoves(c, ok) PROVE SourceInv'
  <2>1. /\ Holding(c) /\ GotoClose(c, "draining")
        /\ subs' = subs \/ subs' = subs \ {taken[c]}
        /\ sourceRefs' = sourceRefs - 1
        /\ taken' = [taken EXCEPT ![c] = NoToken]
        /\ UNCHANGED <<token, reg>>
    BY <1>t, <1>3 DEF CloseRemoves, Unsubscribe, Holding
  <2>2. ~Holding(c)' /\ \A y \in Takers \ {c} : Holding(y)' <=> Holding(y)
    BY <1>h, <2>1 DEF ClosePc
  <2> QED BY <1>t, <2>1, <2>2, RemoveSource
<1> QED BY <1>1, <1>2, <1>3 DEF Close
LEMMA SourceDiesSource ==
  ASSUME IInv, SourceDies PROVE SourceInv'
<1> USE DEF handlerVars, callVars
<1>t. /\ TypeOK /\ SourceRefsAccounted /\ TokenInv /\ LockInv
      /\ IsFiniteSet(Mine) /\ Cardinality(Mine) \in Nat
  BY Finiteness, Counts DEF IInv, RefsAccounted
<1>1. /\ UNCHANGED <<token, taken, reg, unreg, closing, sourceRefs>>
      /\ subs' = {} /\ sourceRefs = 0 /\ mu = NoThread
  BY DEF SourceDies
<1>2. Mine = {} /\ Cardinality(Mine) = 0
  BY <1>t, <1>1, FS_EmptySet DEF SourceRefsAccounted
<1>3. UNCHANGED Mine /\ (\A x \in Takers : Holding(x)' <=> Holding(x))
  BY <1>1 DEF Mine, Holding
<1>4. \A r \in Registrars : reg[r] # "added"
  BY <1>t, <1>1, ThreadAssumption DEF LockInv
<1>5. TokenInv'
  BY <1>t, <1>1, <1>2, <1>3, <1>4 DEF TokenInv
<1>6. SourceRefsAccounted'
  BY <1>1, <1>2, <1>3 DEF SourceRefsAccounted
<1> QED BY <1>t, <1>1, <1>5, <1>6 DEF SourceInv, TypeOK

-----------------------------------------------------------------------------
(* The inductive invariant.                                                  *)

LEMMA InitIInv == Init => IInv
<1> SUFFICES ASSUME Init PROVE IInv
  OBVIOUS
<1> USE DEF Init
<1>0. obj \in BOOLEAN /\ freed \in BOOLEAN /\ refs \in Nat
  <2>1. obj \in BOOLEAN /\ freed \in BOOLEAN
    BY Zenon
  <2>2. refs \in {0, 1}
    BY Zenon
  <2> QED BY <2>1, <2>2
<1>1. TypeOK
  <2>1. /\ reg \in [Registrars -> RegPc] /\ unreg \in [Unregistrars -> UnregPc]
        /\ closing \in [Closers -> ClosePc] /\ delivery \in [Deliveries -> DeliveryPc]
        /\ taken \in [Takers -> Registrars \cup {NoToken}]
    BY DEF RegPc, UnregPc, ClosePc, DeliveryPc
  <2>2. closed \in BOOLEAN /\ inflight \in Nat /\ sourceRefs \in Nat
    OBVIOUS
  <2>3. /\ mu \in Registrars \cup {NoThread} /\ token \in Registrars \cup {NoToken}
        /\ subs \in SUBSET Registrars
    OBVIOUS
  <2> QED BY ONLY <1>0, <2>1, <2>2, <2>3 DEF TypeOK
<1>2. /\ subs = {} /\ Snapshots = {} /\ Entered = {} /\ Callbacks = {} /\ Mine = {}
      /\ Releasers = {}
  BY DEF Snapshots, Entered, Callbacks, Mine, Releasers
<1>3. RefsAccounted /\ InflightInv /\ SourceRefsAccounted
  BY <1>1, <1>2, FS_EmptySet DEF RefsAccounted, Own, InflightInv, SourceRefsAccounted
<1>4. LockInv
  BY ThreadAssumption DEF LockInv
<1>5. CloseInv
  BY DEF CloseInv, Active
<1>6. TokenInv
  BY <1>2 DEF TokenInv, Holding
<1> QED BY <1>3, <1>4, <1>5, <1>6 DEF IInv

LEMMA NextIInv == IInv /\ [Next]_vars => IInv'
<1> SUFFICES ASSUME IInv, [Next]_vars PROVE IInv'
  OBVIOUS
<1>1. LockInv' /\ CloseInv' /\ InflightInv'
  BY NextLockInv, NextCloseInv, NextInflightInv
<1>2. RefCount' /\ SourceInv'
  <2>1. ASSUME NEW r \in Registrars, Register(r) PROVE RefCount' /\ SourceInv'
    BY <2>1, RegisterCounts, RegisterSource
  <2>2. ASSUME NEW u \in Unregistrars, Unregister(u) PROVE RefCount' /\ SourceInv'
    BY <2>2, UnregisterCounts, UnregisterSource
  <2>3. ASSUME NEW c \in Closers, Close(c) PROVE RefCount' /\ SourceInv'
    BY <2>3, CloseCounts, CloseSource
  <2>4. ASSUME NEW d \in Deliveries, Raise(d) \/ Deliver(d) PROVE RefCount' /\ SourceInv'
    <3>1. /\ Unowned /\ UNCHANGED unreg
          /\ \A x \in Takers : Holding(x)' <=> Holding(x)
      <4>1. UNCHANGED <<token, taken, reg, subs, sourceRefs, unreg>>
        BY <2>4 DEF Raise, Deliver, InvokeEnters, BeginInvokeRefuses, BeginInvoke, EndInvoke,
                    InvokeLeaves, RaiseEnds, handlerVars, callVars, sourceVars
      <4>2. \A c \in Closers : closing'[c] = "removing" <=> closing[c] = "removing"
        BY <2>4 DEF Raise, Deliver, InvokeEnters, BeginInvokeRefuses, BeginInvoke, EndInvoke,
                    InvokeLeaves, RaiseEnds, callVars
      <4> QED BY <4>1, <4>2 DEF Unowned, Holding
    <3> QED BY <2>4, <3>1, DeliveryCounts, KeepSource
  <2>5. CASE SourceDies
    BY <2>5, SourceDiesCounts, SourceDiesSource
  <2>6. CASE UNCHANGED vars
    <3>1. UNCHANGED <<Own, Snapshots, Entered, Mine, refs, freed, subs, sourceRefs>>
      BY <2>6 DEF vars, objectVars, callVars, handlerVars, sourceVars, Own, Releasers,
                  Snapshots, Entered, Mine
    <3>2. Unowned /\ UNCHANGED unreg /\ \A x \in Takers : Holding(x)' <=> Holding(x)
      BY <2>6 DEF vars, callVars, handlerVars, sourceVars, Unowned, Holding
    <3> QED BY <3>1, <3>2, KeepSource DEF RefCount, IInv, RefsAccounted
  <2> QED BY <2>1, <2>2, <2>3, <2>4, <2>5, <2>6 DEF Next
<1>3. TypeOK'
  <2>1. subs' \in SUBSET Registrars
    <3>1. SourceInv' /\ subs \in SUBSET Registrars
      BY <1>2 DEF IInv, RefsAccounted, TypeOK
    <3> QED
      BY <3>1 DEF Next, Register, RegisterRefuses, RegisterEnters, AddSucceeds, AddFails,
           RegisterReturns, Unregister, UnregisterIdles, TakeRegistration, UnregisterRemoves,
           RemoveFails, RestoreRegistration, Close, CloseIdles, CloseBegins, CloseRemoves,
           CloseWaits, CloseDrains, CloseReleases, Raise, Deliver, InvokeEnters,
           BeginInvokeRefuses, BeginInvoke, EndInvoke, InvokeLeaves, RaiseEnds, SourceDies,
           vars, sourceVars, Unsubscribe
  <2>2. IsFiniteSet(subs')
    BY <2>1, FS_Subset, RegistrarsAssumption
  <2>3. /\ Cardinality(subs') \in Nat
        /\ Cardinality(Snapshots') \in Nat
        /\ Cardinality(Entered') \in Nat
        /\ Cardinality(Callbacks') \in Nat
    <3>1. Snapshots' \in SUBSET Deliveries /\ Entered' \in SUBSET Deliveries
            /\ Callbacks' \in SUBSET Deliveries
      BY DEF Snapshots, Entered, Callbacks
    <3>2. IsFiniteSet(Snapshots') /\ IsFiniteSet(Entered') /\ IsFiniteSet(Callbacks')
      BY <3>1, FS_Subset, DeliveriesAssumption
    <3> QED BY <2>2, <3>2, FS_CardinalityType
  <2>4. refs' \in Nat /\ inflight' \in Nat /\ sourceRefs' \in Nat
    BY <1>1, <1>2, <2>3 DEF RefCount, Own, InflightInv, SourceInv
  <2> QED BY <2>4, NextTypeOK DEF IInv, RefsAccounted
<1> QED
  BY <1>1, <1>2, <1>3 DEF IInv, RefsAccounted, RefCount, SourceInv

(* IInv holds in every state EventHandler can reach.                         *)
THEOREM Inductive == Spec => []IInv
  BY InitIInv, NextIInv, PTL DEF Spec

(* event.go:251-297: the count in the object is the number of references     *)
(* that exist, and the object is freed exactly at zero.                      *)
THEOREM RefsAreAccounted == Spec => []RefsAccounted
<1>1. IInv => RefsAccounted
  BY DEF IInv
<1> QED BY Inductive, <1>1, PTL

(* event.go:116, 131-136, 155-158: every registration the handler keeps is   *)
(* one the source has, with a reference to the source.                       *)
THEOREM SourceRefsAreAccounted == Spec => []SourceRefsAccounted
<1>1. IInv => SourceRefsAccounted
  BY DEF IInv
<1> QED BY Inductive, <1>1, PTL

(* event.go:139-172: when the Close that closed the handler is through, no   *)
(* callback runs and none will.                                              *)
THEOREM NoCallbackAfter == Spec => []NoCallbackAfterClose
<1>1. IInv => NoCallbackAfterClose
  <2> SUFFICES ASSUME IInv, NEW c \in Closers, closing[c] \in {"releasing", "closed"}
               PROVE  closed /\ inflight = 0 /\ Callbacks = {}
    BY DEF NoCallbackAfterClose
  <2>1. closed /\ inflight = 0
    BY DEF IInv, CloseInv, Active
  <2>2. Callbacks = {}
    BY <2>1, Finiteness, FS_EmptySet DEF IInv, InflightInv
  <2> QED BY <2>1, <2>2
<1> QED BY Inductive, <1>1, PTL
-----------------------------------------------------------------------------
(* Refinement: the steps of CallbackGate that EventHandler's steps amount to.*)

LEMMA GateInit == Init => Gate!Init
  BY DEF Init, Gate!Init, Callbacks, Over, Phase

\* a delivery moves to pc: whether it is over then
LEMMA OverMoves ==
  ASSUME TypeOK, NEW d \in Deliveries, NEW pc \in DeliveryPc, GotoDelivery(d, pc)
  PROVE  Over' = IF pc \in {"leaving", "left", "over"} THEN Over \cup {d} ELSE Over \ {d}
<1>1. \A e \in Deliveries : delivery'[e] = IF e = d THEN pc ELSE delivery[e]
  BY DEF TypeOK, GotoDelivery
<1>2. Over' = {e \in Deliveries : delivery'[e] \in {"leaving", "left", "over"}}
  BY DEF Over
<1> QED BY <1>1, <1>2 DEF Over

LEMMA GateOfDelivery ==
  ASSUME IInv, NEW d \in Deliveries, Raise(d) \/ Deliver(d)
  PROVE  [Gate!Next]_(Gate!vars)
<1> USE DEF objectVars, handlerVars, callVars, sourceVars
<1>t. /\ TypeOK
      /\ d \in Callbacks <=> delivery[d] = "callback"
      /\ d \in Over <=> delivery[d] \in {"leaving", "left", "over"}
  BY DEF IInv, RefsAccounted, Callbacks, Over
<1>p. UNCHANGED Phase
  <2>1. UNCHANGED closed
    BY DEF Raise, Deliver, InvokeEnters, BeginInvokeRefuses, BeginInvoke, EndInvoke,
           InvokeLeaves, RaiseEnds
  <2>2. \A c \in Closers : closing'[c] \in {"releasing", "closed"}
                             <=> closing[c] \in {"releasing", "closed"}
    BY DEF Raise, Deliver, InvokeEnters, BeginInvokeRefuses, BeginInvoke, EndInvoke,
           InvokeLeaves, RaiseEnds
  <2> QED BY <2>1, <2>2 DEF Phase
<1>1. CASE BeginInvoke(d)
  <2>1. Callbacks' = Callbacks \cup {d} /\ Over' = Over \ {d}
    BY <1>t, <1>1, DeliveryMoves, OverMoves DEF BeginInvoke, DeliveryPc
  <2>2. Phase = "open" /\ d \notin Callbacks \cup Over
    BY <1>t, <1>1 DEF BeginInvoke, Phase
  <2>3. Gate!Enter(d)
    BY <1>p, <2>1, <2>2 DEF Gate!Enter
  <2> QED BY <2>3 DEF Gate!Next
<1>2. CASE BeginInvokeRefuses(d)
  <2>1. Callbacks' = Callbacks \ {d} /\ Over' = Over \cup {d}
    BY <1>t, <1>2, DeliveryMoves, OverMoves DEF BeginInvokeRefuses, DeliveryPc
  <2>2. Phase # "open" /\ d \notin Callbacks \cup Over
    BY <1>t, <1>2 DEF BeginInvokeRefuses, Phase
  <2>3. Gate!TurnAway(d)
    BY <1>p, <2>1, <2>2 DEF Gate!TurnAway
  <2> QED BY <2>3 DEF Gate!Next
<1>3. CASE EndInvoke(d)
  <2>1. Callbacks' = Callbacks \ {d} /\ Over' = Over \cup {d}
    BY <1>t, <1>3, DeliveryMoves, OverMoves DEF EndInvoke, DeliveryPc
  <2>2. d \in Callbacks
    BY <1>t, <1>3 DEF EndInvoke
  <2>3. Gate!Leave(d)
    BY <1>p, <2>1, <2>2 DEF Gate!Leave
  <2> QED BY <2>3 DEF Gate!Next
<1>4. CASE Raise(d) \/ InvokeEnters(d)
  <2>1. Callbacks' = Callbacks \ {d} /\ Over' = Over \ {d}
    BY <1>t, <1>4, DeliveryMoves, OverMoves DEF Raise, InvokeEnters, DeliveryPc
  <2>2. d \notin Callbacks /\ d \notin Over
    BY <1>t, <1>4 DEF Raise, InvokeEnters
  <2> QED BY <1>p, <2>1, <2>2 DEF Gate!vars
<1>5. CASE InvokeLeaves(d) \/ RaiseEnds(d)
  <2>1. Callbacks' = Callbacks \ {d} /\ Over' = Over \cup {d}
    BY <1>t, <1>5, DeliveryMoves, OverMoves DEF InvokeLeaves, RaiseEnds, DeliveryPc
  <2>2. d \notin Callbacks /\ d \in Over
    BY <1>t, <1>5 DEF InvokeLeaves, RaiseEnds
  <2> QED BY <1>p, <2>1, <2>2 DEF Gate!vars
<1> QED BY <1>1, <1>2, <1>3, <1>4, <1>5 DEF Deliver

LEMMA GateOfClose ==
  ASSUME IInv, NEW c \in Closers, Close(c)
  PROVE  [Gate!Next]_(Gate!vars)
<1> USE DEF objectVars, handlerVars, sourceVars
<1>t. closing \in [Closers -> ClosePc] /\ CloseInv
  BY DEF IInv, RefsAccounted, TypeOK
<1>d. UNCHANGED <<Callbacks, Over>>
  BY DEF Close, CloseIdles, CloseBegins, CloseRemoves, CloseWaits, CloseDrains,
         CloseReleases, Callbacks, Over
<1>1. CASE CloseBegins(c)
  <2>1. ~closed /\ closed' /\ \A e \in Closers : closing'[e] \notin {"releasing", "closed"}
    BY <1>t, <1>1 DEF CloseBegins, GotoClose, CloseInv, Active
  <2>2. Phase = "open" /\ Phase' = "closing"
    BY <2>1 DEF Phase
  <2>3. Gate!BeginClose
    BY <1>d, <2>2 DEF Gate!BeginClose
  <2> QED BY <2>3 DEF Gate!Next
<1>2. CASE CloseDrains(c)
  <2>1. closed /\ closed' /\ inflight = 0
    BY <1>t, <1>2 DEF CloseDrains, CloseInv, Active
  <2>2. \A e \in Closers : closing[e] \notin {"releasing", "closed"}
    BY <1>t, <1>2 DEF CloseDrains, CloseInv, Active
  <2>3. closing'[c] \in {"releasing", "closed"}
    BY <1>t, <1>2 DEF CloseDrains, GotoClose
  <2>4. Phase = "closing" /\ Phase' = "closed"
    BY <2>1, <2>2, <2>3 DEF Phase
  <2>5. Callbacks = {}
    BY <2>1, Finiteness, FS_EmptySet DEF IInv, InflightInv
  <2>6. Gate!FinishClose
    BY <1>d, <2>4, <2>5 DEF Gate!FinishClose
  <2> QED BY <2>6 DEF Gate!Next
<1>3. CASE ~CloseBegins(c) /\ ~CloseDrains(c)
  <2>1. UNCHANGED closed
    BY <1>3 DEF Close, CloseIdles, CloseRemoves, CloseWaits, CloseReleases
  <2>2. \A e \in Closers : closing'[e] \in {"releasing", "closed"}
                             <=> closing[e] \in {"releasing", "closed"}
    BY <1>t, <1>3 DEF Close, CloseIdles, CloseRemoves, CloseWaits, CloseReleases, GotoClose
  <2>3. UNCHANGED Phase
    BY <2>1, <2>2 DEF Phase
  <2> QED BY <1>d, <2>3 DEF Gate!vars
<1> QED BY <1>1, <1>2, <1>3

LEMMA GateNext == IInv /\ [Next]_vars => [Gate!Next]_(Gate!vars)
<1> SUFFICES ASSUME IInv, [Next]_vars PROVE [Gate!Next]_(Gate!vars)
  OBVIOUS
<1> USE DEF objectVars, handlerVars, callVars, sourceVars
<1>1. CASE UNCHANGED <<closed, closing, delivery>>
  BY <1>1 DEF Gate!vars, Callbacks, Over, Phase
<1>2. ASSUME NEW r \in Registrars, Register(r) PROVE UNCHANGED <<closed, closing, delivery>>
  BY <1>2 DEF Register, RegisterRefuses, RegisterEnters, AddSucceeds, AddFails,
              RegisterReturns
<1>3. ASSUME NEW u \in Unregistrars, Unregister(u)
      PROVE  UNCHANGED <<closed, closing, delivery>>
  BY <1>3 DEF Unregister, UnregisterIdles, TakeRegistration, UnregisterRemoves, RemoveFails,
              RestoreRegistration
<1>4. SourceDies \/ UNCHANGED vars => UNCHANGED <<closed, closing, delivery>>
  BY DEF SourceDies, vars
<1> QED BY <1>1, <1>2, <1>3, <1>4, GateOfDelivery, GateOfClose DEF Next

(* event.go as a whole: the callback is guarded as CallbackGate promises,    *)
(* which is what Creator relies on.                                          *)
THEOREM Implements == Spec => ImplementsGate
  BY GateInit, GateNext, Inductive, PTL DEF Spec, ImplementsGate, Gate!Spec
=============================================================================
