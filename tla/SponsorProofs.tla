--------------------------- MODULE SponsorProofs ---------------------------
(***************************************************************************)
(* Proofs about RentPlan, for every set of wallets, contexts and messages  *)
(* and any limits, and about Sponsor, for every transaction that clients   *)
(* can send and any caps.                                                  *)
(***************************************************************************)
EXTENDS Sponsor, MoneyProofs

-----------------------------------------------------------------------------
(***************************************************************************)
(* The plans of the rent payments.                                         *)
(***************************************************************************)
(* A plan is only ever ended when no context is left in it. *)
EndedEmpty == \A r \in pending : r.ended # None => r.ended.contexts = {}

PlansTyped   == plans \in [Wallet -> Plan \cup {None}]
PendingTyped == pending \subseteq Request
OwnerInv     == /\ now \in Nat /\ requests \in Nat
                /\ PlansTyped /\ PendingTyped /\ EndedEmpty /\ ContextsOwnedOnce

(* What the registry does to one wallet's plan, it leaves the others'. *)
LEMMA SweptTyped == PlansTyped => Swept \in [Wallet -> Plan \cup {None}]
  BY DEF PlansTyped, Swept

LEMMA SweptOwnsNoMore ==
    ASSUME PlansTyped, NEW c \in Context
    PROVE  Owners(Swept, c) \subseteq Owners(plans, c)
  BY DEF PlansTyped, Swept, Owners

LEMMA MessageType ==
    ASSUME NEW m \in Message
    PROVE  /\ m.wallet \in Wallet /\ m.signed \in BOOLEAN
           /\ m.created \in SUBSET Context /\ m.touched \in SUBSET Context
           /\ m.closed \in SUBSET Context /\ m.cost \in 0 .. WorstCase
  BY MessageAssumption

(* The plan of a wallet, and the plan it becomes, are plans. *)
LEMMA JoinedIsPlan ==
    ASSUME NEW ps \in [Wallet -> Plan \cup {None}], NEW m \in Message,
           now \in Nat, requests \in Nat
    PROVE  /\ PlanFor(ps, m) \in Plan
           /\ Joined(ps, m) \in Plan
           /\ Joined(ps, m).contexts \subseteq PlanFor(ps, m).contexts \cup m.created
<1>1. PlanFor(ps, m) \in Plan
  <2>1. CASE ps[m.wallet] # None
    BY <2>1, MessageType DEF PlanFor
  <2>2. CASE ps[m.wallet] = None
    BY <2>2 DEF PlanFor, Plan
  <2>. QED BY <2>1, <2>2
<1>2. Added(m) \in SUBSET Context
  BY MessageType DEF Added
<1>3. Joined(ps, m) \in Plan
  <2>1. /\ PlanFor(ps, m).preparations \in Nat
        /\ PlanFor(ps, m).contexts \in SUBSET Context
    BY <1>1 DEF Plan
  <2>2. (IF Preparing(m) THEN PlanFor(ps, m).preparations + 1
         ELSE PlanFor(ps, m).preparations) \in Nat
    BY <2>1
  <2>3. (PlanFor(ps, m).contexts \cup Added(m)) \ Spent(ps, m) \in SUBSET Context
    BY <2>1, <1>2
  <2>. QED BY <1>1, <2>2, <2>3 DEF Joined, Plan
<1>4. Joined(ps, m).contexts = (PlanFor(ps, m).contexts \cup Added(m)) \ Spent(ps, m)
  BY <1>1 DEF Joined, Plan
<1>. QED BY <1>1, <1>3, <1>4 DEF Added

LEMMA PlansAfterTyped ==
    ASSUME NEW ps \in [Wallet -> Plan \cup {None}], NEW m \in Message,
           now \in Nat, requests \in Nat
    PROVE  PlansAfter(ps, m) \in [Wallet -> Plan \cup {None}]
  BY JoinedIsPlan, MessageType DEF PlansAfter

(* An accepted request brings its wallet only contexts that nobody owned or *)
(* that were its own.                                                       *)
LEMMA AdmitOwners ==
    ASSUME NEW ps \in [Wallet -> Plan \cup {None}], NEW m \in Message,
           now \in Nat, requests \in Nat, NEW c \in Context
    PROVE  Owners(PlansAfter(ps, m), c) \subseteq
               Owners(ps, c) \cup (IF c \in m.created THEN {m.wallet} ELSE {})
<1>. SUFFICES ASSUME NEW w \in Wallet, w \in Owners(PlansAfter(ps, m), c)
              PROVE  w \in Owners(ps, c) \/ (c \in m.created /\ w = m.wallet)
  BY DEF Owners
<1>1. CASE w # m.wallet
  BY <1>1 DEF Owners, PlansAfter
<1>2. CASE w = m.wallet
  <2>1. CASE Registered(ps, m) /\ ~Ends(ps, m)
    <3>1. PlansAfter(ps, m)[w] = Joined(ps, m)
      BY <1>2, <2>1, MessageType DEF PlansAfter
    <3>2. c \in PlanFor(ps, m).contexts \cup m.created
      BY <3>1, JoinedIsPlan DEF Owners
    <3>3. CASE ps[w] # None
      BY <3>2, <3>3, <1>2 DEF Owners, PlanFor
    <3>4. CASE ps[w] = None
      BY <3>2, <3>4, <1>2 DEF PlanFor
    <3>. QED BY <3>3, <3>4
  <2>2. CASE Ends(ps, m)
    BY <1>2, <2>2, MessageType DEF PlansAfter, Owners
  <2>3. CASE ~Registered(ps, m) /\ ~Ends(ps, m)
    BY <2>3 DEF PlansAfter, Owners
  <2>. QED BY <2>1, <2>2, <2>3
<1>. QED BY <1>1, <1>2

(* An undo brings its wallet only contexts that no other wallet owns. *)
LEMMA UndoOwners ==
    ASSUME OwnerInv, NEW r \in pending, NEW c \in Context
    PROVE  Owners(Undo(r), c) \subseteq
               Owners(plans, c) \cup (IF c \in Restored(r) THEN {r.msg.wallet} ELSE {})
<1>. SUFFICES ASSUME NEW w \in Wallet, w \in Owners(Undo(r), c)
              PROVE  w \in Owners(plans, c) \/ (c \in Restored(r) /\ w = r.msg.wallet)
  BY DEF Owners
<1>1. CASE UndoTarget(r) = None
  BY <1>1 DEF Undo, Owners
<1>2. CASE UndoTarget(r) # None /\ w # r.msg.wallet
  BY <1>2 DEF Undo, Owners, OwnerInv, PlansTyped
<1>3. CASE UndoTarget(r) # None /\ w = r.msg.wallet
  <2>1. r.msg \in Message /\ r \in Request
    BY DEF OwnerInv, PendingTyped, Request
  <2>2. UndoTarget(r) \in Plan
    BY <1>3, <2>1, MessageType DEF UndoTarget, OwnerInv, PlansTyped, Request
  <2>3. Undo(r)[w] = Undone(r) /\ c \in Undone(r).contexts
    BY <1>3 DEF Undo, Owners, OwnerInv, PlansTyped
  <2>4. c \in UndoTarget(r).contexts \/ c \in Restored(r)
    BY <2>2, <2>3 DEF Undone, Plan
  <2>5. c \in UndoTarget(r).contexts => c \in plans[w].contexts /\ plans[w] # None
    BY <1>3 DEF UndoTarget, OwnerInv, EndedEmpty
  <2>. QED BY <1>3, <2>4, <2>5 DEF Owners
<1>. QED BY <1>1, <1>2, <1>3

LEMMA UndoTyped ==
    ASSUME OwnerInv, NEW r \in pending
    PROVE  Undo(r) \in [Wallet -> Plan \cup {None}]
<1>1. r.msg \in Message /\ r \in Request
  BY DEF OwnerInv, PendingTyped, Request
<1>2. CASE UndoTarget(r) = None
  BY <1>2 DEF Undo, OwnerInv, PlansTyped
<1>3. CASE UndoTarget(r) # None
  <2>1. UndoTarget(r) \in Plan
    BY <1>1, <1>3, MessageType DEF UndoTarget, OwnerInv, PlansTyped, Request
  <2>2. Restored(r) \in SUBSET Context /\ Added(r.msg) \in SUBSET Context
    BY <1>1, MessageType DEF Restored, Added, Request
  <2>3. Undone(r) \in Plan
    <3>1. /\ UndoTarget(r).preparations \in Nat
          /\ UndoTarget(r).contexts \in SUBSET Context
      BY <2>1 DEF Plan
    <3>2. (IF Preparing(r.msg) /\ UndoTarget(r).preparations > 0
           THEN UndoTarget(r).preparations - 1 ELSE UndoTarget(r).preparations) \in Nat
      BY <3>1
    <3>3. (UndoTarget(r).contexts \ Added(r.msg)) \cup Restored(r) \in SUBSET Context
      BY <2>2, <3>1
    <3>. QED BY <2>1, <3>2, <3>3 DEF Undone, Plan
  <2>. QED BY <1>3, <2>3 DEF Undo, OwnerInv, PlansTyped
<1>. QED BY <1>2, <1>3

-----------------------------------------------------------------------------
(***************************************************************************)
(* Types, booking and the replay guard: what a request in flight relies on *)
(* is still there when it ends.  A request is booked and remembered by its *)
(* number; one that fails forgets its message, which no other request of   *)
(* it is young enough to miss, unless it is among the `forgotten`.         *)
(***************************************************************************)
InFlightOnce == pending \cap cosigned = {}
Numbered == \A r \in pending \cup cosigned : r.id <= requests /\ r.at <= now
Distinct == \A r, s \in pending \cup cosigned : r.id = s.id => r = s
Remembered == \A r \in pending \cup cosigned :
    now - r.at <= ReplayWindow /\ r.id \notin forgotten =>
        seen[r.msg] # None /\ r.at <= seen[r.msg]

RequestInv == /\ TypeOK /\ EndedEmpty /\ InFlightOnce /\ Numbered /\ Distinct
              /\ Remembered /\ CosignedOncePerWindow
IInv == RequestInv /\ ContextsOwnedOnce

LEMMA IInvGivesOwnerInv == IInv => OwnerInv
  BY DEF IInv, RequestInv, TypeOK, OwnerInv, PlansTyped, PendingTyped

LEMMA RequestForTyped ==
    ASSUME NEW ps \in [Wallet -> Plan \cup {None}], NEW m \in Message,
           now \in Nat, requests \in Nat
    PROVE  /\ RequestFor(ps, m) \in Request
           /\ RequestFor(ps, m).id = requests + 1 /\ RequestFor(ps, m).at = now
           /\ RequestFor(ps, m).msg = m
           /\ RequestFor(ps, m).ended # None => RequestFor(ps, m).ended.contexts = {}
<1>1. PlanFor(ps, m) \in Plan /\ Joined(ps, m) \in Plan
  BY JoinedIsPlan
<1>2. PlanFor(ps, m).id \in Nat \ {0} /\ PlanFor(ps, m).contexts \in SUBSET Context
  BY <1>1 DEF Plan
<1>3. Spent(ps, m) \in SUBSET Context
  BY <1>2 DEF Spent
<1>4. (IF Ends(ps, m) THEN Joined(ps, m) ELSE None) \in Plan \cup {None}
  BY <1>1
<1>. QED BY <1>2, <1>3, <1>4 DEF RequestFor, Request, Ends

LEMMA InitIInv == Init => IInv
<1>. SUFFICES ASSUME Init PROVE IInv
  OBVIOUS
<1>. USE DEF Init
<1>1. TypeOK
  BY DEF TypeOK
<1>2. EndedEmpty /\ InFlightOnce /\ Numbered /\ Distinct /\ Remembered
  BY DEF EndedEmpty, InFlightOnce, Numbered, Distinct, Remembered
<1>3. CosignedOncePerWindow
  BY DEF CosignedOncePerWindow
<1>4. ContextsOwnedOnce
  BY DEF ContextsOwnedOnce, Owners
<1>. QED BY <1>1, <1>2, <1>3, <1>4 DEF IInv, RequestInv

(* The step that admits a request. *)
LEMMA AdmitStep ==
    ASSUME IInv, NEW m \in Message, Admit(m)
    PROVE  IInv'
<1>. DEFINE new == RequestFor(Swept, m)
            all == pending \cup cosigned
<1>. USE DEF IInv, RequestInv
<1>1. /\ now \in Nat /\ requests \in Nat /\ PlansTyped
      /\ pending \subseteq Request /\ cosigned \subseteq Request
      /\ now' = now /\ requests' = requests + 1 /\ cosigned' = cosigned
      /\ pending' = pending \cup {new} /\ seen' = [seen EXCEPT ![m] = now]
      /\ plans' = PlansAfter(Swept, m) /\ forgotten' = forgotten
  BY DEF TypeOK, Admit, PlansTyped
<1>2. Swept \in [Wallet -> Plan \cup {None}]
  BY <1>1, SweptTyped
<1>3. /\ new \in Request /\ new.id = requests + 1 /\ new.at = now /\ new.msg = m
      /\ new.ended # None => new.ended.contexts = {}
  BY <1>1, <1>2, RequestForTyped
<1>. HIDE DEF new
<1>4. \A r \in all : r.id \in Nat /\ r.at \in Nat /\ r.id <= requests /\ r.at <= now /\ r.msg \in Message
  BY <1>1 DEF Numbered, Request
<1>5. new \notin all
  BY <1>1, <1>3, <1>4
<1>6. TypeOK'
  <2>1. plans' \in [Wallet -> Plan \cup {None}]
    BY <1>1, <1>2, PlansAfterTyped
  <2>2. seen' \in [Message -> Nat \cup {None}]
    BY <1>1 DEF TypeOK
  <2>3. book' \subseteq [id : Nat \ {0}, wallet : Wallet, at : Nat, lamports : 0 .. WorstCase]
    <3>1. Since(Day) \subseteq book
      BY DEF Since
    <3>2. Entry(requests + 1, m.wallet, now, WorstCase)
             \in [id : Nat \ {0}, wallet : Wallet, at : Nat, lamports : 0 .. WorstCase]
      BY <1>1, MessageType, LimitAssumption DEF Entry
    <3>. QED BY <3>1, <3>2 DEF TypeOK, Admit, Reserved
  <2>4. ASSUME NEW r \in pending', now' - r.at <= Day
        PROVE  Entry(r.id, r.msg.wallet, r.at, WorstCase) \in book'
    <3>1. CASE r \in pending
      <4>1. Entry(r.id, r.msg.wallet, r.at, WorstCase) \in book
        BY <1>1, <2>4, <3>1 DEF TypeOK
      <4>2. Entry(r.id, r.msg.wallet, r.at, WorstCase).at = r.at
        BY DEF Entry
      <4>3. Entry(r.id, r.msg.wallet, r.at, WorstCase) \in Since(Day)
        BY <1>1, <2>4, <4>1, <4>2 DEF Since
      <4>. QED BY <4>3 DEF Admit, Reserved
    <3>2. CASE r = new
      BY <1>3, <3>2 DEF Admit, Reserved
    <3>. QED BY <1>1, <3>1, <3>2
  <2>. QED BY <1>1, <1>3, <2>1, <2>2, <2>3, <2>4 DEF TypeOK
<1>7. EndedEmpty' /\ InFlightOnce' /\ Numbered' /\ Distinct'
  BY <1>1, <1>3, <1>4, <1>5 DEF EndedEmpty, InFlightOnce, Numbered, Distinct
<1>9. Remembered'
  BY <1>1, <1>3, <1>4, LimitAssumption DEF Remembered, TypeOK
<1>10. CosignedOncePerWindow'
  <2>1. ASSUME NEW r \in all, r.msg = m, r.id \notin forgotten
        PROVE  now - r.at > ReplayWindow
    <3>1. SUFFICES ASSUME now - r.at <= ReplayWindow PROVE FALSE
      BY <1>1, <1>4, LimitAssumption
    <3>2. seen[m] # None /\ r.at <= seen[m] /\ seen[m] \in Nat
      BY <2>1, <3>1 DEF Remembered, TypeOK
    <3>3. now - seen[m] <= ReplayWindow
      BY <1>1, <1>4, <3>1, <3>2, LimitAssumption
    <3>. QED BY <3>2, <3>3 DEF Admit, Replayed
  <2>. SUFFICES ASSUME NEW r \in (pending \cup cosigned)', NEW s \in (pending \cup cosigned)',
                       r.id < s.id, r.msg = s.msg, r.id \notin forgotten'
                PROVE  s.at - r.at > ReplayWindow
    BY DEF CosignedOncePerWindow
  <2>2. CASE r \in all /\ s \in all
    BY <1>1, <2>2 DEF CosignedOncePerWindow
  <2>3. CASE r \in all /\ s = new
    BY <1>1, <1>3, <2>1, <2>3
  <2>4. CASE r = new
    BY <1>1, <1>3, <1>4, <2>4
  <2>. QED BY <1>1, <2>2, <2>3, <2>4
<1>11. ContextsOwnedOnce'
  <2>. SUFFICES ASSUME NEW c \in Context, NEW w \in Wallet, NEW x \in Wallet,
                       w \in Owners(plans', c), x \in Owners(plans', c)
                PROVE  w = x
    BY DEF ContextsOwnedOnce, Owners
  <2>1. Owners(plans', c) \subseteq
           Owners(Swept, c) \cup (IF c \in m.created THEN {m.wallet} ELSE {})
    BY <1>1, <1>2, AdmitOwners
  <2>2. c \in m.created => Owners(Swept, c) = {}
    BY DEF Admit, PlanAccepts
  <2>3. Owners(Swept, c) \subseteq Owners(plans, c)
    BY <1>1, SweptOwnsNoMore
  <2>. QED BY <2>1, <2>2, <2>3 DEF ContextsOwnedOnce
<1>. QED BY <1>6, <1>7, <1>9, <1>10, <1>11

(* The steps that leave requests, bookings and memory alone. *)
LEMMA RefuseStep ==
    ASSUME IInv, NEW m \in Message, Refuse(m)
    PROVE  IInv'
<1>. USE DEF IInv, RequestInv
<1>1. /\ PlansTyped /\ plans' = Swept
      /\ UNCHANGED <<now, seen, book, pending, requests, cosigned, forgotten>>
  BY DEF TypeOK, PlansTyped, Refuse
<1>2. TypeOK'
  BY <1>1, SweptTyped DEF TypeOK, Entry
<1>3. EndedEmpty' /\ InFlightOnce' /\ Numbered' /\ Distinct' /\ Remembered'
  BY <1>1 DEF EndedEmpty, InFlightOnce, Numbered, Distinct, Remembered
<1>4. CosignedOncePerWindow'
  BY <1>1 DEF CosignedOncePerWindow
<1>5. ContextsOwnedOnce'
  <2>1. \A c \in Context : Owners(plans', c) \subseteq Owners(plans, c)
    BY <1>1, SweptOwnsNoMore
  <2>. QED BY <2>1 DEF ContextsOwnedOnce
<1>. QED BY <1>2, <1>3, <1>4, <1>5

LEMMA TickStep ==
    ASSUME IInv, Tick
    PROVE  IInv'
<1>. USE DEF IInv, RequestInv
<1>1. /\ now \in Nat /\ now' = now + 1
      /\ UNCHANGED <<plans, seen, book, pending, requests, cosigned, forgotten>>
      /\ pending \subseteq Request /\ cosigned \subseteq Request
  BY DEF TypeOK, Tick
<1>2. \A r \in pending \cup cosigned : r.at \in Nat /\ r.at <= now /\ r.msg \in Message
  BY <1>1 DEF Numbered, Request
<1>3. TypeOK'
  <2>1. ASSUME NEW r \in pending', now' - r.at <= Day
        PROVE  Entry(r.id, r.msg.wallet, r.at, WorstCase) \in book'
    <3>1. now - r.at <= Day
      BY <1>1, <1>2, <2>1, LimitAssumption
    <3>. QED BY <1>1, <3>1 DEF TypeOK
  <2>. QED BY <1>1, <2>1 DEF TypeOK
<1>4. EndedEmpty' /\ InFlightOnce' /\ Distinct'
  BY <1>1 DEF EndedEmpty, InFlightOnce, Distinct
<1>5. Numbered'
  BY <1>1, <1>2 DEF Numbered
<1>7. Remembered'
  <2>. SUFFICES ASSUME NEW r \in (pending \cup cosigned)', now' - r.at <= ReplayWindow,
                       r.id \notin forgotten'
                PROVE  (seen[r.msg] # None /\ r.at <= seen[r.msg])'
    BY DEF Remembered
  <2>1. r \in pending \cup cosigned /\ now - r.at <= ReplayWindow /\ r.id \notin forgotten
    BY <1>1, <1>2, LimitAssumption
  <2>. QED BY <1>1, <2>1 DEF Remembered
<1>8. CosignedOncePerWindow' /\ ContextsOwnedOnce'
  BY <1>1 DEF CosignedOncePerWindow, ContextsOwnedOnce, Owners
<1>. QED BY <1>3, <1>4, <1>5, <1>7, <1>8

(* Dropping or rewriting the entry of one request leaves those of the others. *)
LEMMA OthersStayBooked ==
    ASSUME IInv, NEW r \in pending,
           book' = Cancelled(r) \/ book' = Committed(r)
    PROVE  /\ book' \subseteq [id : Nat \ {0}, wallet : Wallet, at : Nat, lamports : 0 .. WorstCase]
           /\ \A s \in pending \ {r} : now - s.at <= Day =>
                  Entry(s.id, s.msg.wallet, s.at, WorstCase) \in book'
<1>. USE DEF IInv, RequestInv
<1>1. r \in Request /\ r.msg \in Message
  BY DEF TypeOK, Request
<1>2. Entry(r.id, r.msg.wallet, r.at, r.msg.cost)
         \in [id : Nat \ {0}, wallet : Wallet, at : Nat, lamports : 0 .. WorstCase]
  BY <1>1, MessageType DEF Entry, Request
<1>3. Cancelled(r) \subseteq book
  BY DEF Cancelled
<1>4. ASSUME NEW s \in pending \ {r}, now - s.at <= Day
      PROVE  Entry(s.id, s.msg.wallet, s.at, WorstCase) \in Cancelled(r)
  <2>1. s.id # r.id
    BY DEF Distinct
  <2>2. Entry(s.id, s.msg.wallet, s.at, WorstCase).id = s.id
    BY DEF Entry
  <2>3. Entry(s.id, s.msg.wallet, s.at, WorstCase) \in book
    BY <1>4 DEF TypeOK
  <2>. QED BY <2>1, <2>2, <2>3 DEF Cancelled
<1>. QED BY <1>2, <1>3, <1>4 DEF TypeOK, Committed

LEMMA CosignStep ==
    ASSUME IInv, NEW r \in pending, Cosign(r)
    PROVE  IInv'
<1>. USE DEF IInv, RequestInv
<1>1. /\ pending' = pending \ {r} /\ cosigned' = cosigned \cup {r}
      /\ book' = Committed(r)
      /\ UNCHANGED <<now, plans, seen, requests, forgotten>>
      /\ pending' \cup cosigned' = pending \cup cosigned
  BY DEF Cosign
<1>2. TypeOK'
  <2>1. /\ book' \subseteq [id : Nat \ {0}, wallet : Wallet, at : Nat, lamports : 0 .. WorstCase]
        /\ \A s \in pending \ {r} : now - s.at <= Day =>
               Entry(s.id, s.msg.wallet, s.at, WorstCase) \in book'
    BY <1>1, OthersStayBooked
  <2>. QED BY <1>1, <2>1 DEF TypeOK
<1>3. EndedEmpty' /\ InFlightOnce' /\ Numbered' /\ Distinct' /\ Remembered'
  BY <1>1 DEF EndedEmpty, InFlightOnce, Numbered, Distinct, Remembered
<1>4. CosignedOncePerWindow'
  BY <1>1 DEF CosignedOncePerWindow
<1>5. ContextsOwnedOnce'
  BY <1>1 DEF ContextsOwnedOnce, Owners
<1>. QED BY <1>2, <1>3, <1>4, <1>5

LEMMA FailStep ==
    ASSUME IInv, NEW r \in pending, Fail(r)
    PROVE  IInv'
<1>. USE DEF IInv, RequestInv
<1>. DEFINE rest == (pending \ {r}) \cup cosigned
<1>1. /\ pending' = pending \ {r} /\ cosigned' = cosigned
      /\ book' = Cancelled(r) /\ seen' = [seen EXCEPT ![r.msg] = None]
      /\ plans' = Undo(r) /\ now' = now /\ requests' = requests
      /\ forgotten' = IF Outlived(r) THEN forgotten \cup {s.id : s \in Later(r)} ELSE forgotten
  BY DEF Fail
<1>2. OwnerInv
  BY IInvGivesOwnerInv
<1>3. r.msg \in Message /\ r.at \in Nat /\ r.id \in Nat /\ now \in Nat /\ r.at <= now
  BY DEF TypeOK, Request, Numbered
<1>4. TypeOK'
  <2>1. plans' \in [Wallet -> Plan \cup {None}]
    BY <1>1, <1>2, UndoTyped
  <2>2. seen' \in [Message -> Nat \cup {None}]
    BY <1>1 DEF TypeOK
  <2>3. /\ book' \subseteq [id : Nat \ {0}, wallet : Wallet, at : Nat, lamports : 0 .. WorstCase]
        /\ \A s \in pending \ {r} : now - s.at <= Day =>
               Entry(s.id, s.msg.wallet, s.at, WorstCase) \in book'
    BY <1>1, OthersStayBooked
  <2>4. forgotten' \subseteq Nat
    BY <1>1 DEF TypeOK, Later, Request
  <2>. QED BY <1>1, <2>1, <2>2, <2>3, <2>4 DEF TypeOK
<1>5. EndedEmpty' /\ InFlightOnce' /\ Numbered' /\ Distinct'
  BY <1>1 DEF EndedEmpty, InFlightOnce, Numbered, Distinct
<1>6. CosignedOncePerWindow'
  BY <1>1 DEF CosignedOncePerWindow
(* A younger one of its message is too close to r, or r has outlived it.   *)
<1>7. ASSUME NEW s \in rest, s.msg = r.msg, s.id \notin forgotten'
      PROVE  now - s.at > ReplayWindow
  <2>1. s \in pending \cup cosigned /\ s # r
    BY DEF InFlightOnce
  <2>2. s.id \in Nat /\ s.at \in Nat /\ s.at <= now /\ s.id # r.id
    BY <2>1 DEF TypeOK, Request, Numbered, Distinct
  <2>3. s.id \notin forgotten
    BY <1>1, <1>7
  <2>4. CASE s.id < r.id
    <3>1. r.at - s.at > ReplayWindow
      BY <1>7, <2>1, <2>3, <2>4 DEF CosignedOncePerWindow
    <3>. QED BY <1>3, <2>2, <3>1, LimitAssumption
  <2>5. CASE r.id < s.id
    <3>1. ~Outlived(r)
      BY <1>1, <1>7, <2>1, <2>5 DEF Later
    <3>2. now - r.at <= ReplayWindow /\ r.id \notin forgotten
      BY <1>3, <3>1, LimitAssumption DEF Outlived
    <3>3. s.at - r.at > ReplayWindow
      BY <1>7, <2>1, <2>5, <3>2 DEF CosignedOncePerWindow
    <3>. QED BY <1>3, <2>2, <3>2, <3>3, LimitAssumption
  <2>. QED BY <1>3, <2>2, <2>4, <2>5
<1>8. Remembered'
  <2>. SUFFICES ASSUME NEW s \in rest, now - s.at <= ReplayWindow,
                       s.id \notin forgotten'
                PROVE  seen'[s.msg] # None /\ s.at <= seen'[s.msg]
    BY <1>1 DEF Remembered
  <2>1. s.msg # r.msg
    <3>1. s.at \in Nat
      BY DEF TypeOK, Request
    <3>. QED BY <1>3, <1>7, <3>1, LimitAssumption
  <2>2. s.msg \in Message /\ seen'[s.msg] = seen[s.msg] /\ s.id \notin forgotten
    BY <1>1, <2>1 DEF TypeOK, Request
  <2>. QED BY <2>2 DEF Remembered
<1>9. ContextsOwnedOnce'
  <2>. SUFFICES ASSUME NEW c \in Context, NEW w \in Wallet, NEW x \in Wallet,
                       w \in Owners(plans', c), x \in Owners(plans', c)
                PROVE  w = x
    BY DEF ContextsOwnedOnce, Owners
  <2>1. Owners(plans', c) \subseteq
           Owners(plans, c) \cup (IF c \in Restored(r) THEN {r.msg.wallet} ELSE {})
    BY <1>1, <1>2, UndoOwners
  <2>2. c \in Restored(r) => Owners(plans, c) \subseteq {r.msg.wallet}
    BY DEF Restored
  <2>. QED BY <2>1, <2>2 DEF ContextsOwnedOnce
<1>. QED BY <1>4, <1>5, <1>6, <1>8, <1>9

-----------------------------------------------------------------------------
LEMMA NextIInv == IInv /\ [Next]_vars => IInv'
<1>. SUFFICES ASSUME IInv, [Next]_vars PROVE IInv'
  OBVIOUS
<1>1. ASSUME NEW m \in Message, Admit(m) PROVE IInv'
  BY <1>1, AdmitStep
<1>2. ASSUME NEW m \in Message, Refuse(m) PROVE IInv'
  BY <1>2, RefuseStep
<1>3. ASSUME NEW r \in pending, Cosign(r) PROVE IInv'
  BY <1>3, CosignStep
<1>4. ASSUME NEW r \in pending, Fail(r) PROVE IInv'
  BY <1>4, FailStep
<1>5. CASE Tick
  BY <1>5, TickStep
<1>6. CASE UNCHANGED vars
  BY <1>6 DEF vars, IInv, RequestInv, TypeOK, EndedEmpty, InFlightOnce, Numbered, Distinct,
              Remembered, CosignedOncePerWindow, ContextsOwnedOnce, Owners
<1>. QED BY <1>1, <1>2, <1>3, <1>4, <1>5, <1>6 DEF Next

THEOREM Inductive == Spec => []IInv
  BY InitIInv, NextIInv, PTL DEF Spec

(* Types, and a booking for every request in flight: see TypeOK.            *)
THEOREM TypeCorrect == Spec => []TypeOK
<1>1. IInv => TypeOK
  BY DEF IInv, RequestInv
<1>. QED BY <1>1, Inductive, PTL

(* Whatever requests are admitted, sent, undone and swept in whatever       *)
(* order, no context is part of the plans of two wallets: admit and the     *)
(* undo closure of rentplan.ts.                                             *)
THEOREM NoContextShared == Spec => []ContextsOwnedOnce
<1>1. IInv => ContextsOwnedOnce
  BY DEF IInv
<1>. QED BY <1>1, Inductive, PTL

(* The replay guard of sponsorRentPayment, whatever a request takes: no     *)
(* message is co-signed twice while it could land, but for those a failure  *)
(* later than the window (treasury.ts:708) has made it forget.              *)
THEOREM NoReplay == Spec => []CosignedOncePerWindow
<1>1. IInv => CosignedOncePerWindow
  BY DEF IInv, RequestInv
<1>. QED BY <1>1, Inductive, PTL

-----------------------------------------------------------------------------
(***************************************************************************)
(* The budget.  An entry of the limiter stands for every request that can  *)
(* still cost the treasury something, and is worth at least what it costs: *)
(* what is paid is at most what is booked, and what is booked is within    *)
(* the limits because a request is booked at its worst and only ever       *)
(* rewritten downwards.  A set of wallets gives the limit of one of them   *)
(* and of the backend in one statement.                                    *)
(***************************************************************************)
EntryType == [id : Nat \ {0}, wallet : Wallet, at : Nat, lamports : Nat]
BookedToday(X) == {e \in Since(Day) : e.wallet \in X}

BooksFinite == IsFiniteSet(book) /\ IsFiniteSet(pending) /\ IsFiniteSet(cosigned)
Backs(e, r) == /\ e.id = r.id /\ e.wallet = r.msg.wallet /\ e.at = r.at
               /\ r.msg.cost <= e.lamports
PaidIsBooked == \A r \in PaidToday : \E e \in Since(Day) : Backs(e, r)
WithinDay == /\ \A w \in Wallet : Lamports(BookedToday({w})) <= WalletLamports
             /\ Lamports(BookedToday(Wallet)) <= GlobalLamports

BudgetInv == IInv /\ BooksFinite /\ PaidIsBooked /\ WithinDay

(* The two sums of the model are sums.                                      *)
LEMMA LamportsIsSum ==
    ASSUME NEW S, IsFiniteSet(S)
    PROVE  Lamports(S) = Sum([e \in S |-> e.lamports], S)
<1> DEFINE f == [e \in S |-> e.lamports]
           Adds(g) == g = [s \in SUBSET S |->
               IF s = {} THEN 0
               ELSE (CHOOSE x \in s : TRUE).lamports + g[s \ {CHOOSE x \in s : TRUE}]]
           fold == CHOOSE g : Adds(g)
<1>1. Lamports(S) = fold[S]
  BY DEF Lamports, MapThenSumSet, MapThenFoldSet
<1>2. ASSUME NEW g PROVE IsTable(g, f, SUBSET S) <=> Adds(g)
  <2>1. ASSUME NEW s \in SUBSET S, s # {} PROVE f[Pick(s)] = Pick(s).lamports
    BY <2>1, PickIn
  <2> QED BY <2>1 DEF IsTable, Step, Pick
<1>3. IsTable(fold, f, SUBSET S)
  <2>1. \E g : Adds(g)
    <3> HIDE DEF Adds, f
    <3> QED BY <1>2, TableExists
  <2>2. Adds(fold)
    <3> HIDE DEF Adds
    <3> QED BY <2>1
  <2> HIDE DEF Adds, f
  <2> QED BY <1>2, <2>2
<1> HIDE DEF f, fold
<1> QED BY <1>1, <1>3, TableIsSum DEF f

LEMMA PaidIsSum ==
    ASSUME NEW S, IsFiniteSet(S)
    PROVE  Paid(S) = Sum([r \in S |-> r.msg.cost], S)
<1> DEFINE f == [r \in S |-> r.msg.cost]
           Adds(g) == g = [s \in SUBSET S |->
               IF s = {} THEN 0
               ELSE (CHOOSE x \in s : TRUE).msg.cost + g[s \ {CHOOSE x \in s : TRUE}]]
           fold == CHOOSE g : Adds(g)
<1>1. Paid(S) = fold[S]
  BY DEF Paid, MapThenSumSet, MapThenFoldSet
<1>2. ASSUME NEW g PROVE IsTable(g, f, SUBSET S) <=> Adds(g)
  <2>1. ASSUME NEW s \in SUBSET S, s # {} PROVE f[Pick(s)] = Pick(s).msg.cost
    BY <2>1, PickIn
  <2> QED BY <2>1 DEF IsTable, Step, Pick
<1>3. IsTable(fold, f, SUBSET S)
  <2>1. \E g : Adds(g)
    <3> HIDE DEF Adds, f
    <3> QED BY <1>2, TableExists
  <2>2. Adds(fold)
    <3> HIDE DEF Adds
    <3> QED BY <2>1
  <2> HIDE DEF Adds, f
  <2> QED BY <1>2, <2>2
<1> HIDE DEF f, fold
<1> QED BY <1>1, <1>3, TableIsSum DEF f

(* Entries that all have a counterpart of their own, worth at least as      *)
(* much, add up to at most those.                                           *)
LEMMA LamportsAtMost ==
    ASSUME NEW S \in SUBSET EntryType, NEW T \in SUBSET EntryType,
           IsFiniteSet(S), IsFiniteSet(T),
           NEW m, \A e \in S : m[e] \in T /\ e.lamports <= m[e].lamports,
           \A e, d \in S : m[e] = m[d] => e = d
    PROVE  Lamports(S) <= Lamports(T)
<1> DEFINE f == [e \in S |-> e.lamports]
           g == [e \in T |-> e.lamports]
<1>1. (\A e \in S : f[e] \in Int) /\ (\A e \in T : g[e] \in Nat)
  BY LimitAssumption DEF EntryType
<1>2. \A e \in S : m[e] \in T /\ f[e] <= g[m[e]]
  OBVIOUS
<1> HIDE DEF f, g
<1>3. Sum(f, S) <= Sum(g, T)
  BY <1>1, <1>2, SumAtMost
<1> QED BY <1>3, LamportsIsSum DEF f, g

LEMMA LamportsType ==
    ASSUME NEW S \in SUBSET EntryType, IsFiniteSet(S)
    PROVE  Lamports(S) \in Nat
<1> DEFINE f == [e \in S |-> e.lamports]
<1>1. \A e \in S : f[e] \in Nat
  BY LimitAssumption DEF EntryType
<1> HIDE DEF f
<1>2. Sum(f, S) \in Nat
  BY <1>1, SumNat
<1> QED BY <1>2, LamportsIsSum DEF f

LEMMA LamportsMonotone ==
    ASSUME NEW T \in SUBSET EntryType, IsFiniteSet(T), NEW S \in SUBSET T
    PROVE  Lamports(S) <= Lamports(T)
<1> DEFINE m == [e \in T |-> e]
<1>1. IsFiniteSet(S) /\ S \in SUBSET EntryType
  BY FS_Subset
<1>2. \A e \in S : m[e] \in T /\ e.lamports <= m[e].lamports
  BY LimitAssumption DEF EntryType
<1>3. \A e, d \in S : m[e] = m[d] => e = d
  OBVIOUS
<1> HIDE DEF m
<1> QED BY <1>1, <1>2, <1>3, LamportsAtMost

LEMMA LamportsAdd ==
    ASSUME NEW S \in SUBSET EntryType, IsFiniteSet(S), NEW e \in EntryType, e \notin S
    PROVE  Lamports(S \cup {e}) = e.lamports + Lamports(S)
<1> DEFINE T == S \cup {e}
           f == [d \in T |-> d.lamports]
           g == [d \in S |-> d.lamports]
<1>1. IsFiniteSet(T)
  BY FS_AddElement
<1>2. f[e] = e.lamports /\ f[e] \in Int /\ \A d \in S : f[d] \in Int /\ f[d] = g[d]
  BY LimitAssumption DEF EntryType
<1>3. Lamports(T) = Sum(f, T) /\ Lamports(S) = Sum(g, S)
  <2> HIDE DEF T
  <2> QED BY <1>1, LamportsIsSum
<1> HIDE DEF f, g
<1>4. Sum(f, T) = f[e] + Sum(f, S)
  BY <1>2, SumAdd
<1>5. Sum(f, S) = Sum(g, S)
  BY <1>2, SumSame
<1> QED BY <1>2, <1>3, <1>4, <1>5

(* Who has booked: one wallet's entries and everybody's, and their types.   *)
LEMMA TodayTyped ==
    ASSUME book \subseteq EntryType, IsFiniteSet(book), NEW X \in SUBSET Wallet
    PROVE  /\ BookedToday(X) \in SUBSET EntryType /\ IsFiniteSet(BookedToday(X))
           /\ Lamports(BookedToday(X)) \in Nat
           /\ BookedToday(Wallet) = Since(Day)
           /\ \A w \in Wallet : OfWallet(Since(Day), w) = BookedToday({w})
<1>1. BookedToday(X) \in SUBSET EntryType /\ BookedToday(X) \in SUBSET book
  BY DEF BookedToday, Since
<1>2. IsFiniteSet(BookedToday(X))
  BY <1>1, FS_Subset
<1>3. Lamports(BookedToday(X)) \in Nat
  BY <1>1, <1>2, LamportsType
<1>4. BookedToday(Wallet) = Since(Day)
  BY DEF BookedToday, Since, EntryType
<1>5. \A w \in Wallet : OfWallet(Since(Day), w) = BookedToday({w})
  BY DEF BookedToday, OfWallet
<1> QED BY <1>1, <1>2, <1>3, <1>4, <1>5

LEMMA BookTyped == IInv => book \subseteq EntryType
  BY DEF IInv, RequestInv, TypeOK, EntryType

(* A step after which nobody has booked more keeps within the limits.       *)
LEMMA NoMoreBooked ==
    ASSUME BudgetInv, IInv', IsFiniteSet(book'),
           \A X \in SUBSET Wallet : Lamports(BookedToday(X)') <= Lamports(BookedToday(X))
    PROVE  WithinDay'
<1>1. book \subseteq EntryType /\ book' \subseteq EntryType /\ IsFiniteSet(book)
  <2>1. book' \subseteq EntryType
    BY DEF IInv, RequestInv, TypeOK, EntryType
  <2> QED BY <2>1, BookTyped DEF BudgetInv, BooksFinite
<1>2. ASSUME NEW X \in SUBSET Wallet, NEW cap \in Nat, Lamports(BookedToday(X)) <= cap
      PROVE  Lamports(BookedToday(X)') <= cap
  <2>1. Lamports(BookedToday(X)) \in Nat
    BY <1>1, TodayTyped
  <2>2. BookedToday(X)' \in SUBSET EntryType /\ BookedToday(X)' \in SUBSET book'
    BY <1>1 DEF BookedToday, Since
  <2>3. Lamports(BookedToday(X)') \in Nat
    <3>1. IsFiniteSet(BookedToday(X)')
      BY <2>2, FS_Subset
    <3> QED BY <2>2, <3>1, LamportsType
  <2> QED BY <1>2, <2>1, <2>3
<1>3. Lamports(BookedToday(Wallet)') <= GlobalLamports
  BY <1>2, LimitAssumption DEF BudgetInv, WithinDay
<1>4. ASSUME NEW w \in Wallet PROVE Lamports(BookedToday({w})') <= WalletLamports
  BY <1>2, LimitAssumption DEF BudgetInv, WithinDay
<1>5. /\ Lamports(BookedToday(Wallet)') = Lamports(BookedToday(Wallet))'
      /\ \A w \in Wallet : Lamports(BookedToday({w})') = Lamports(BookedToday({w}))'
  BY DEF Lamports, MapThenSumSet, MapThenFoldSet
<1> QED BY <1>3, <1>4, <1>5 DEF WithinDay

LEMMA FewerBooked ==
    ASSUME BudgetInv, IInv', IsFiniteSet(book'), Since(Day)' \subseteq Since(Day)
    PROVE  WithinDay'
<1>1. book \subseteq EntryType /\ IsFiniteSet(book)
  BY BookTyped DEF BudgetInv, BooksFinite
<1>2. ASSUME NEW X \in SUBSET Wallet
      PROVE  Lamports(BookedToday(X)') <= Lamports(BookedToday(X))
  <2>1. BookedToday(X) \in SUBSET EntryType /\ IsFiniteSet(BookedToday(X))
    BY <1>1, TodayTyped
  <2>2. BookedToday(X)' \in SUBSET BookedToday(X)
    BY DEF BookedToday
  <2> QED BY <2>1, <2>2, LamportsMonotone
<1> QED BY <1>2, NoMoreBooked

(* A request is admitted: its wallet has room for the worst case.           *)
LEMMA AdmitBudget ==
    ASSUME BudgetInv, IInv', NEW m \in Message, Admit(m)
    PROVE  BudgetInv'
<1> DEFINE new == RequestFor(Swept, m)
           e   == Entry(requests + 1, m.wallet, now, WorstCase)
<1>1. /\ now' = now /\ cosigned' = cosigned /\ pending' = pending \cup {new}
      /\ book' = Since(Day) \cup {e} /\ now \in Nat /\ requests \in Nat
      /\ m.wallet \in Wallet /\ m.cost \in 0 .. WorstCase
  BY MessageType DEF Admit, Reserved, BudgetInv, IInv, RequestInv, TypeOK
<1>2. /\ e.id = requests + 1 /\ e.wallet = m.wallet /\ e.at = now
      /\ e.lamports = WorstCase /\ e \in EntryType
  BY <1>1, LimitAssumption DEF Entry, EntryType
<1>3. new.id = requests + 1 /\ new.at = now /\ new.msg = m
  <2>1. Swept \in [Wallet -> Plan \cup {None}]
    BY SweptTyped DEF BudgetInv, IInv, RequestInv, TypeOK, PlansTyped
  <2> QED BY <1>1, <2>1, RequestForTyped
<1> HIDE DEF e, new
<1>4. book \subseteq EntryType /\ IsFiniteSet(book)
  BY BookTyped DEF BudgetInv, BooksFinite
<1>5. Since(Day)' = Since(Day) \cup {e}
  BY <1>1, <1>2, LimitAssumption DEF Since
<1>6. BooksFinite'
  <2>1. IsFiniteSet(Since(Day))
    BY <1>4, FS_Subset DEF Since
  <2> QED BY <1>1, <2>1, FS_AddElement DEF BudgetInv, BooksFinite
<1>7. PaidIsBooked'
  <2> SUFFICES ASSUME NEW r \in PaidToday' PROVE \E d \in Since(Day)' : Backs(d, r)
    BY DEF PaidIsBooked, Backs
  <2>1. r = new \/ r \in PaidToday
    BY <1>1 DEF PaidToday
  <2>2. CASE r = new
    <3>1. m.cost <= e.lamports
      BY <1>1, <1>2, LimitAssumption
    <3> QED BY <1>2, <1>3, <1>5, <2>2, <3>1 DEF Backs
  <2> QED BY <1>5, <2>1, <2>2 DEF BudgetInv, PaidIsBooked
<1>8. ASSUME NEW X \in SUBSET Wallet, NEW cap \in Nat, Lamports(BookedToday(X)) <= cap,
             m.wallet \in X => Lamports(BookedToday(X)) + WorstCase <= cap
      PROVE  Lamports(BookedToday(X)') <= cap
  <2>1. /\ BookedToday(X) \in SUBSET EntryType /\ IsFiniteSet(BookedToday(X))
        /\ Lamports(BookedToday(X)) \in Nat
    BY <1>4, TodayTyped
  <2>2. CASE m.wallet \notin X \/ e \in BookedToday(X)
    <3>1. BookedToday(X)' = BookedToday(X)
      BY <1>2, <1>5, <2>2 DEF BookedToday
    <3> QED BY <1>8, <3>1
  <2>3. CASE m.wallet \in X /\ e \notin BookedToday(X)
    <3>1. BookedToday(X)' = BookedToday(X) \cup {e}
      BY <1>2, <1>5, <2>3 DEF BookedToday
    <3>2. Lamports(BookedToday(X) \cup {e}) = WorstCase + Lamports(BookedToday(X))
      BY <1>2, <2>1, <2>3, LamportsAdd
    <3> QED BY <1>8, <2>1, <2>3, <3>1, <3>2, LimitAssumption
  <2> QED BY <2>2, <2>3
<1>9. WithinDay'
  <2>1. BookedToday(Wallet) = Since(Day) /\ OfWallet(Since(Day), m.wallet) = BookedToday({m.wallet})
    BY <1>1, <1>4, TodayTyped
  <2>2. /\ Lamports(BookedToday(Wallet)) + WorstCase <= GlobalLamports
        /\ Lamports(BookedToday({m.wallet})) + WorstCase <= WalletLamports
    BY <2>1 DEF Admit, WithinLimits
  <2>3. Lamports(BookedToday(Wallet)') <= GlobalLamports
    BY <1>8, <2>2, LimitAssumption DEF BudgetInv, WithinDay
  <2>4. ASSUME NEW w \in Wallet PROVE Lamports(BookedToday({w})') <= WalletLamports
    BY <1>8, <2>2, LimitAssumption DEF BudgetInv, WithinDay
  <2>5. /\ Lamports(BookedToday(Wallet)') = Lamports(BookedToday(Wallet))'
        /\ \A w \in Wallet : Lamports(BookedToday({w})') = Lamports(BookedToday({w}))'
    BY DEF Lamports, MapThenSumSet, MapThenFoldSet
  <2> QED BY <2>3, <2>4, <2>5 DEF WithinDay
<1> QED BY <1>6, <1>7, <1>9 DEF BudgetInv

(* It was sent: its entry is rewritten to what it cost, which is no more.   *)
LEMMA CosignBudget ==
    ASSUME BudgetInv, IInv', NEW r \in pending, Cosign(r)
    PROVE  BudgetInv'
<1> DEFINE c == Entry(r.id, r.msg.wallet, r.at, r.msg.cost)
           b == Entry(r.id, r.msg.wallet, r.at, WorstCase)
<1>1. /\ now' = now /\ pending' = pending \ {r} /\ cosigned' = cosigned \cup {r}
      /\ book' = Cancelled(r) \cup {c} /\ pending' \cup cosigned' = pending \cup cosigned
  BY DEF Cosign, Committed
<1>2. /\ r.msg.wallet \in Wallet /\ r.msg.cost \in 0 .. WorstCase /\ r.at \in Nat
      /\ now - r.at <= Day => b \in book
      /\ book \subseteq EntryType /\ IsFiniteSet(book)
      /\ now \in Nat
  BY MessageType, BookTyped DEF BudgetInv, BooksFinite, IInv, RequestInv, TypeOK, Request
<1>3. /\ c.id = r.id /\ c.wallet = r.msg.wallet /\ c.at = r.at /\ c.lamports = r.msg.cost
      /\ b.id = r.id /\ b.wallet = r.msg.wallet /\ b.at = r.at /\ b.lamports = WorstCase
  BY DEF Entry
<1> HIDE DEF c, b
<1>4. BooksFinite'
  <2>1. IsFiniteSet(Cancelled(r))
    BY <1>2, FS_Subset DEF Cancelled
  <2> QED BY <1>1, <2>1, FS_AddElement, FS_RemoveElement DEF BudgetInv, BooksFinite
<1>5. PaidIsBooked'
  <2> SUFFICES ASSUME NEW s \in PaidToday' PROVE \E d \in Since(Day)' : Backs(d, s)
    BY DEF PaidIsBooked, Backs
  <2>1. s \in PaidToday /\ s \in pending \cup cosigned /\ now - s.at <= Day
    BY <1>1 DEF PaidToday
  <2>2. CASE s = r
    <3>1. c \in Since(Day)' /\ r.msg.cost <= c.lamports
      BY <1>1, <1>2, <1>3, <2>1, <2>2, LimitAssumption DEF Since
    <3> QED BY <1>3, <2>2, <3>1 DEF Backs
  <2>3. CASE s # r
    <3>1. PICK d \in Since(Day) : Backs(d, s)
      BY <2>1 DEF BudgetInv, PaidIsBooked
    <3>2. s.id # r.id
      BY <2>1, <2>3 DEF BudgetInv, IInv, RequestInv, Distinct
    <3>3. d \in Since(Day)'
      BY <1>1, <3>1, <3>2 DEF Since, Cancelled, Backs
    <3> QED BY <3>1, <3>3
  <2> QED BY <2>2, <2>3
<1>6. WithinDay'
  <2>1. ASSUME NEW X \in SUBSET Wallet
        PROVE  Lamports(BookedToday(X)') <= Lamports(BookedToday(X))
    <3> DEFINE S == BookedToday(X)'
               m == [d \in S |-> IF d.id = r.id THEN b ELSE d]
    <3>1. BookedToday(X) \in SUBSET EntryType /\ IsFiniteSet(BookedToday(X))
      BY <1>2, TodayTyped
    <3>2. S \in SUBSET EntryType /\ IsFiniteSet(S)
      <4>1. S \in SUBSET book' /\ book' \subseteq EntryType
        BY DEF BookedToday, Since, IInv, RequestInv, TypeOK, EntryType
      <4> QED BY <1>4, <4>1, FS_Subset DEF BooksFinite
    <3>3. ASSUME NEW d \in S
          PROVE  /\ m[d] \in BookedToday(X) /\ d.lamports <= m[d].lamports
                 /\ d.id = r.id => d = c
                 /\ m[d].id = d.id
      <4>1. d \in Cancelled(r) \/ d = c
        BY <1>1 DEF BookedToday, Since
      <4>2. d.wallet \in X /\ now - d.at <= Day /\ d.lamports \in Nat
        BY <1>1, <3>2 DEF BookedToday, Since, EntryType
      <4>3. CASE d.id # r.id
        <5>1. d \in BookedToday(X)
          BY <1>3, <4>1, <4>2, <4>3 DEF BookedToday, Since, Cancelled
        <5> QED BY <4>2, <4>3, <5>1, LimitAssumption
      <4>4. CASE d.id = r.id
        <5>1. d = c
          BY <4>1, <4>4 DEF Cancelled
        <5>2. b \in BookedToday(X)
          BY <1>2, <1>3, <4>2, <5>1 DEF BookedToday, Since
        <5> QED BY <1>2, <1>3, <4>2, <4>4, <5>1, <5>2, LimitAssumption
      <4> QED BY <4>3, <4>4
    <3>4. \A d, e \in S : m[d] = m[e] => d = e
      BY <3>3
    <3> HIDE DEF m
    <3> QED BY <3>1, <3>2, <3>3, <3>4, LamportsAtMost
  <2> QED BY <1>4, <2>1, NoMoreBooked DEF BooksFinite
<1> QED BY <1>4, <1>5, <1>6 DEF BudgetInv

(* It failed: nothing was spent, and its entry goes.                        *)
LEMMA FailBudget ==
    ASSUME BudgetInv, IInv', NEW r \in pending, Fail(r)
    PROVE  BudgetInv'
<1>1. /\ now' = now /\ pending' = pending \ {r} /\ cosigned' = cosigned
      /\ book' = Cancelled(r)
  BY DEF Fail
<1>2. BooksFinite'
  <2>1. IsFiniteSet(Cancelled(r))
    BY FS_Subset DEF Cancelled, BudgetInv, BooksFinite
  <2> QED BY <1>1, <2>1, FS_RemoveElement DEF BudgetInv, BooksFinite
<1>3. Since(Day)' \subseteq Since(Day)
  BY <1>1 DEF Since, Cancelled
<1>4. PaidIsBooked'
  <2> SUFFICES ASSUME NEW s \in PaidToday' PROVE \E d \in Since(Day)' : Backs(d, s)
    BY DEF PaidIsBooked, Backs
  <2>1. s \in PaidToday /\ s \in pending \cup cosigned /\ s # r
    BY <1>1 DEF PaidToday, BudgetInv, IInv, RequestInv, InFlightOnce
  <2>2. PICK d \in Since(Day) : Backs(d, s)
    BY <2>1 DEF BudgetInv, PaidIsBooked
  <2>3. s.id # r.id
    BY <2>1 DEF BudgetInv, IInv, RequestInv, Distinct
  <2>4. d \in Since(Day)'
    BY <1>1, <2>2, <2>3 DEF Since, Cancelled, Backs
  <2> QED BY <2>2, <2>4
<1> QED BY <1>2, <1>3, <1>4, FewerBooked DEF BudgetInv, BooksFinite

LEMMA TickBudget ==
    ASSUME BudgetInv, IInv', Tick
    PROVE  BudgetInv'
<1>1. /\ now \in Nat /\ now' = now + 1 /\ UNCHANGED <<book, pending, cosigned>>
      /\ book \subseteq EntryType
      /\ \A r \in pending \cup cosigned : r.at \in Nat
  BY BookTyped DEF Tick, BudgetInv, IInv, RequestInv, TypeOK, Request
<1>2. BooksFinite'
  BY <1>1 DEF BudgetInv, BooksFinite
<1>3. Since(Day)' \subseteq Since(Day)
  BY <1>1, LimitAssumption DEF Since, EntryType
<1>4. PaidIsBooked'
  <2> SUFFICES ASSUME NEW s \in PaidToday' PROVE \E d \in Since(Day)' : Backs(d, s)
    BY DEF PaidIsBooked, Backs
  <2>1. s \in PaidToday /\ now + 1 - s.at <= Day
    BY <1>1, LimitAssumption DEF PaidToday
  <2>2. PICK d \in Since(Day) : Backs(d, s)
    BY <2>1 DEF BudgetInv, PaidIsBooked
  <2>3. d \in book' /\ d.at = s.at
    BY <1>1, <2>2 DEF Since, Backs
  <2>4. now' - d.at <= Day
    <3>1. s.at \in Nat
      BY <1>1, <2>1 DEF PaidToday
    <3> QED BY <1>1, <2>1, <2>3, <3>1
  <2> QED BY <2>2, <2>3, <2>4 DEF Since
<1> QED BY <1>2, <1>3, <1>4, FewerBooked DEF BudgetInv, BooksFinite

LEMMA IdleBudget ==
    ASSUME BudgetInv, IInv', UNCHANGED <<now, book, pending, cosigned>>
    PROVE  BudgetInv'
<1>1. Since(Day)' = Since(Day) /\ PaidToday' = PaidToday /\ BooksFinite'
  BY DEF Since, PaidToday, BudgetInv, BooksFinite
<1>2. PaidIsBooked'
  BY <1>1 DEF BudgetInv, PaidIsBooked, Backs
<1> QED BY <1>1, <1>2, FewerBooked DEF BudgetInv, BooksFinite

LEMMA InitBudget == Init => BudgetInv
<1> SUFFICES ASSUME Init PROVE BudgetInv
  OBVIOUS
<1>1. IInv
  BY InitIInv
<1>2. BooksFinite /\ PaidIsBooked
  BY FS_EmptySet DEF Init, BooksFinite, PaidIsBooked, PaidToday
<1>3. WithinDay
  <2>1. \A X : BookedToday(X) = {}
    BY DEF Init, BookedToday, Since
  <2>2. Lamports({}) = 0
    BY LamportsIsSum, SumEmpty, FS_EmptySet
  <2> QED BY <2>1, <2>2, LimitAssumption DEF WithinDay
<1> QED BY <1>1, <1>2, <1>3 DEF BudgetInv

LEMMA NextBudget == BudgetInv /\ [Next]_vars => BudgetInv'
<1> SUFFICES ASSUME BudgetInv, [Next]_vars PROVE BudgetInv'
  OBVIOUS
<1>1. IInv'
  BY NextIInv DEF BudgetInv
<1>2. ASSUME NEW m \in Message, Admit(m) PROVE BudgetInv'
  BY <1>1, <1>2, AdmitBudget
<1>3. ASSUME NEW m \in Message, Refuse(m) PROVE BudgetInv'
  BY <1>1, <1>3, IdleBudget DEF Refuse
<1>4. ASSUME NEW r \in pending, Cosign(r) PROVE BudgetInv'
  BY <1>1, <1>4, CosignBudget
<1>5. ASSUME NEW r \in pending, Fail(r) PROVE BudgetInv'
  BY <1>1, <1>5, FailBudget
<1>6. CASE Tick
  BY <1>1, <1>6, TickBudget
<1>7. CASE UNCHANGED vars
  BY <1>1, <1>7, IdleBudget DEF vars
<1> QED BY <1>2, <1>3, <1>4, <1>5, <1>6, <1>7 DEF Next

(* What has been or can still be paid today is at most what is booked.      *)
LEMMA BookedCovers ==
    ASSUME BudgetInv
    PROVE  BudgetCoversSpend
<1> DEFINE PaidBy(X) == {r \in PaidToday : r.msg.wallet \in X}
<1>1. book \subseteq EntryType /\ IsFiniteSet(book)
  BY BookTyped DEF BudgetInv, BooksFinite
<1>2. ASSUME NEW X \in SUBSET Wallet
      PROVE  /\ Paid(PaidBy(X)) \in Int /\ Lamports(BookedToday(X)) \in Int
             /\ Paid(PaidBy(X)) <= Lamports(BookedToday(X))
  <2> DEFINE S == PaidBy(X)
             T == BookedToday(X)
             f == [r \in S |-> r.msg.cost]
             g == [e \in T |-> e.lamports]
             m == [r \in S |-> CHOOSE e \in Since(Day) : Backs(e, r)]
  <2>1. T \in SUBSET EntryType /\ IsFiniteSet(T) /\ Lamports(T) \in Nat
    BY <1>1, TodayTyped
  <2>2. IsFiniteSet(S)
    <3>1. IsFiniteSet(pending \cup cosigned)
      BY FS_Union DEF BudgetInv, BooksFinite
    <3>2. S \in SUBSET (pending \cup cosigned)
      BY DEF PaidToday
    <3> QED BY <3>1, <3>2, FS_Subset
  <2>3. ASSUME NEW r \in S
        PROVE  /\ r \in pending \cup cosigned /\ r.msg.cost \in Nat /\ r.msg.wallet \in X
               /\ r.id \in Nat
               /\ m[r] \in Since(Day) /\ Backs(m[r], r)
    <3>1. r \in PaidToday
      OBVIOUS
    <3>2. r \in pending \cup cosigned /\ r \in Request
      BY DEF PaidToday, BudgetInv, IInv, RequestInv, TypeOK
    <3>3. r.msg.cost \in Nat
      BY <3>2, MessageType, LimitAssumption DEF Request
    <3>4. \E e \in Since(Day) : Backs(e, r)
      BY <3>1 DEF BudgetInv, PaidIsBooked
    <3> QED BY <3>2, <3>3, <3>4 DEF Request
  <2>4. ASSUME NEW r \in S
        PROVE  m[r] \in T /\ f[r] <= g[m[r]] /\ f[r] \in Nat /\ f[r] \in Int
    <3> HIDE DEF m
    <3>1. m[r] \in T
      BY <2>3 DEF Backs, BookedToday
    <3>2. f[r] <= g[m[r]] /\ f[r] \in Nat
      BY <2>3, <3>1 DEF Backs
    <3> QED BY <3>1, <3>2
  <2>5. \A r, s \in S : m[r] = m[s] => r = s
    <3> HIDE DEF m, S
    <3> QED BY <2>3 DEF Backs, BudgetInv, IInv, RequestInv, Distinct
  <2>6. \A e \in T : g[e] \in Nat
    BY <2>1, LimitAssumption DEF EntryType
  <2> HIDE DEF S, T, f, g, m
  <2>7. Sum(f, S) <= Sum(g, T)
    BY <2>1, <2>2, <2>4, <2>5, <2>6, SumAtMost
  <2>8. Sum(f, S) \in Nat
    BY <2>2, <2>4, SumNat
  <2>9. Paid(S) = Sum(f, S) /\ Lamports(T) = Sum(g, T)
    BY <2>1, <2>2, PaidIsSum, LamportsIsSum DEF f, g
  <2>10. Paid(S) \in Int /\ Lamports(T) \in Int /\ Paid(S) <= Lamports(T)
    BY <2>1, <2>7, <2>8, <2>9
  <2> QED BY <2>10 DEF S, T
<1>3. PaidBy(Wallet) = PaidToday
  <2>1. \A r \in PaidToday : r.msg.wallet \in Wallet
    BY MessageType DEF PaidToday, BudgetInv, IInv, RequestInv, TypeOK, Request
  <2> QED BY <2>1
<1>4. \A w \in Wallet : PaidBy({w}) = {r \in PaidToday : r.msg.wallet = w}
  OBVIOUS
<1> HIDE DEF PaidBy
<1>5. Paid(PaidToday) <= GlobalLamports
  <2>1. Lamports(BookedToday(Wallet)) <= GlobalLamports
    BY DEF BudgetInv, WithinDay
  <2> QED BY <1>2, <1>3, <2>1, LimitAssumption
<1>6. ASSUME NEW w \in Wallet
      PROVE  Paid({r \in PaidToday : r.msg.wallet = w}) <= WalletLamports
  <2>1. Lamports(BookedToday({w})) <= WalletLamports
    BY DEF BudgetInv, WithinDay
  <2>2. Paid(PaidBy({w})) <= WalletLamports
    BY <1>2, <2>1, LimitAssumption
  <2> QED BY <1>4, <2>2
<1> QED BY <1>5, <1>6 DEF BudgetCoversSpend

(* The treasury's daily limits, of each wallet and of the backend, cover    *)
(* what it pays for rent payments, those in flight included (limits.ts as   *)
(* sponsorRentPayment uses it).                                             *)
THEOREM BudgetHolds == Spec => []BudgetCoversSpend
<1>1. Spec => []BudgetInv
  BY InitBudget, NextBudget, PTL DEF Spec
<1>2. BudgetInv => BudgetCoversSpend
  BY BookedCovers
<1> QED BY <1>1, <1>2, PTL

-----------------------------------------------------------------------------
(***************************************************************************)
(* The preparations of a plan.  A plan counts every transaction paid for   *)
(* by the treasury that is or may be sent under its number, also while it  *)
(* is away: at most one request in flight can bring a plan back, and only  *)
(* one that no wallet has.                                                 *)
(***************************************************************************)
PreparedFor(p) == {r \in pending \cup cosigned : r.plan = p /\ Preparing(r.msg)}
IsLive(w, p)   == plans[w] # None /\ plans[w].id = p

(* A plan's number names one plan of one wallet.                            *)
NumbersOfPlans ==
    /\ \A w \in Wallet : plans[w] # None => plans[w].id <= requests
    /\ \A r \in pending \cup cosigned : r.plan <= requests
    /\ \A w, x \in Wallet, p \in Nat : IsLive(w, p) /\ IsLive(x, p) => w = x
    /\ \A r \in pending \cup cosigned, w \in Wallet : IsLive(w, r.plan) => r.msg.wallet = w
    /\ \A r, s \in pending \cup cosigned : r.plan = s.plan => r.msg.wallet = s.msg.wallet
(* What a request ended is its own plan, and it alone can bring it back.    *)
EndedAway ==
    /\ \A r \in pending : r.ended # None =>
           r.ended.id = r.plan /\ \A w \in Wallet : ~IsLive(w, r.plan)
    /\ \A r, s \in pending : r.ended # None /\ s.ended # None /\ r.plan = s.plan => r = s
Counts(plan) ==
    Cardinality(PreparedFor(plan.id)) <= plan.preparations /\ plan.preparations <= MaxPreparations
PlansCount ==
    /\ \A w \in Wallet : plans[w] # None => Counts(plans[w])
    /\ \A r \in pending : r.ended # None => Counts(r.ended)
    /\ \A p \in Nat : Cardinality(PreparedFor(p)) <= MaxPreparations

PlanInv == BudgetInv /\ NumbersOfPlans /\ EndedAway /\ PlansCount

LEMMA PreparedFinite ==
    ASSUME BudgetInv, NEW p
    PROVE  IsFiniteSet(PreparedFor(p)) /\ Cardinality(PreparedFor(p)) \in Nat
<1>1. IsFiniteSet(pending \cup cosigned)
  BY FS_Union DEF BudgetInv, BooksFinite
<1>2. PreparedFor(p) \in SUBSET (pending \cup cosigned)
  BY DEF PreparedFor
<1>3. IsFiniteSet(PreparedFor(p))
  BY <1>1, <1>2, FS_Subset
<1> QED BY <1>3, FS_CardinalityType

LEMMA PlanTypes ==
    ASSUME PlanInv
    PROVE  /\ requests \in Nat /\ now \in Nat
           /\ \A w \in Wallet : plans[w] # None =>
                 plans[w] \in Plan /\ plans[w].id \in Nat /\ plans[w].preparations \in Nat
           /\ \A r \in pending \cup cosigned :
                 r.plan \in Nat /\ r.msg \in Message /\ r.msg.wallet \in Wallet
           /\ \A r \in pending : r.ended # None =>
                 r.ended \in Plan /\ r.ended.id \in Nat /\ r.ended.preparations \in Nat
  BY MessageType DEF PlanInv, BudgetInv, IInv, RequestInv, TypeOK, Plan, Request

(* A plan that a request joins, and what it becomes.                        *)
LEMMA JoinedFields ==
    ASSUME NEW ps \in [Wallet -> Plan \cup {None}], NEW m \in Message,
           now \in Nat, requests \in Nat
    PROVE  /\ Joined(ps, m).id = PlanFor(ps, m).id
           /\ Joined(ps, m).preparations = IF Preparing(m) THEN PlanFor(ps, m).preparations + 1
                                                           ELSE PlanFor(ps, m).preparations
<1>1. PlanFor(ps, m) \in Plan
  BY JoinedIsPlan
<1> QED BY <1>1 DEF Joined, Plan

LEMMA AdmitPlans ==
    ASSUME PlanInv, BudgetInv', NEW m \in Message, Admit(m)
    PROVE  PlanInv'
<1> DEFINE new  == RequestFor(Swept, m)
           plan == PlanFor(Swept, m)
           next == Joined(Swept, m)
           w    == m.wallet
           all  == pending \cup cosigned
           reg  == Registered(Swept, m)
           ends == Ends(Swept, m)
<1>1. /\ requests' = requests + 1 /\ cosigned' = cosigned /\ pending' = pending \cup {new}
      /\ plans' = PlansAfter(Swept, m) /\ requests \in Nat /\ now \in Nat /\ w \in Wallet
  BY PlanTypes, MessageType DEF Admit
<1>2. Swept \in [Wallet -> Plan \cup {None}] /\ plans \in [Wallet -> Plan \cup {None}]
  BY SweptTyped DEF PlanInv, BudgetInv, IInv, RequestInv, TypeOK, PlansTyped
<1>3. \A x \in Wallet : Swept[x] # None => Swept[x] = plans[x]
  BY DEF Swept
<1>4. /\ new.plan = plan.id /\ new.msg = m /\ new.ended = IF ends THEN next ELSE None
      /\ next \in Plan /\ plan \in Plan /\ next.id = plan.id
      /\ next.preparations = IF Preparing(m) THEN plan.preparations + 1 ELSE plan.preparations
  BY <1>1, <1>2, JoinedIsPlan, JoinedFields DEF RequestFor
<1>5. plan.id \in Nat /\ plan.preparations \in Nat /\ next.preparations \in Nat
  BY <1>4 DEF Plan
<1>6. /\ reg <=> Swept[w] # None \/ Preparing(m)
      /\ ends => reg
  BY DEF Registered, Ends
(* The plan is the wallet's live one, or a new one with a number of its own. *)
<1>7. \/ Swept[w] # None /\ plan = plans[w] /\ plans[w] # None
      \/ Swept[w] = None /\ plan.id = requests + 1 /\ plan.preparations = 0
  BY <1>1, <1>3 DEF PlanFor
<1>8. ASSUME NEW x \in Wallet, plans'[x] # None
      PROVE  \/ x # w /\ plans'[x] = plans[x]
             \/ x = w /\ plans'[x] = next /\ reg /\ ~ends
  <2>1. CASE ends
    <3>1. plans' = [Swept EXCEPT ![w] = None]
      BY <1>1, <2>1 DEF PlansAfter
    <3> QED BY <1>2, <1>3, <1>8, <3>1
  <2>2. CASE ~ends /\ reg
    <3>1. plans' = [Swept EXCEPT ![w] = next]
      BY <1>1, <2>2 DEF PlansAfter
    <3> QED BY <1>2, <1>3, <1>8, <2>2, <3>1
  <2>3. CASE ~ends /\ ~reg
    <3>1. plans' = Swept
      BY <1>1, <2>3 DEF PlansAfter
    <3> QED BY <1>3, <1>6, <1>8, <2>3, <3>1
  <2> QED BY <2>1, <2>2, <2>3
<1> HIDE DEF new, plan, next, w, reg, ends
(* Nobody else has the plan, and nobody can bring it back.                  *)
<1>9. /\ plan.id <= requests + 1
      /\ \A r \in all : r.plan = plan.id => r.msg.wallet = w
      /\ \A r \in pending : r.ended # None => r.plan # plan.id
      /\ \A x \in Wallet : x # w /\ plans[x] # None => plans[x].id # plan.id
  <2>1. CASE plan = plans[w] /\ plans[w] # None
    BY <1>1, <2>1, PlanTypes DEF PlanInv, NumbersOfPlans, EndedAway, IsLive
  <2>2. CASE plan.id = requests + 1
    BY <1>1, <2>2, PlanTypes DEF PlanInv, NumbersOfPlans
  <2> QED BY <1>7, <2>1, <2>2
<1>10. /\ Cardinality(PreparedFor(plan.id)) <= plan.preparations
       /\ plan.preparations <= MaxPreparations
       /\ Preparing(m) => plan.preparations < MaxPreparations
  <2>1. CASE Swept[w] # None /\ plan = plans[w] /\ plans[w] # None
    <3>1. Counts(plan)
      BY <1>1, <2>1 DEF PlanInv, PlansCount
    <3>2. Preparing(m) => plan.preparations < MaxPreparations
      BY <1>3, <1>1, <2>1 DEF Admit, PlanAccepts, w
    <3> QED BY <3>1, <3>2 DEF Counts
  <2>2. CASE plan.id = requests + 1 /\ plan.preparations = 0
    <3>1. PreparedFor(requests + 1) = {}
      BY <1>1, PlanTypes DEF PreparedFor, PlanInv, NumbersOfPlans
    <3> QED BY <2>2, <3>1, FS_EmptySet, LimitAssumption
  <2> QED BY <1>7, <2>1, <2>2
<1>11. ASSUME NEW p
       PROVE  /\ PreparedFor(p)' = PreparedFor(p) \cup
                     (IF Preparing(m) /\ p = plan.id THEN {new} ELSE {})
              /\ IsFiniteSet(PreparedFor(p)) /\ Cardinality(PreparedFor(p)) \in Nat
  BY <1>1, <1>4, PreparedFinite DEF PreparedFor, PlanInv
<1>12. ASSUME NEW p, p = plan.id
       PROVE  /\ Cardinality(PreparedFor(p)') <= next.preparations
              /\ Cardinality(PreparedFor(p)') \in Nat
              /\ next.preparations <= MaxPreparations
  <2> DEFINE S == PreparedFor(p)
  <2>1. IsFiniteSet(S) /\ Cardinality(S) \in Nat /\ Cardinality(S) <= plan.preparations
    BY <1>10, <1>11, <1>12
  <2>2. CASE ~Preparing(m)
    <3>1. S' = S
      BY <1>11, <2>2
    <3> QED BY <1>4, <1>10, <2>1, <2>2, <3>1
  <2>3. CASE Preparing(m)
    <3>1. S' = S \cup {new}
      BY <1>11, <1>12, <2>3
    <3>2. Cardinality(S') \in Nat /\ Cardinality(S') <= Cardinality(S) + 1
      <4> HIDE DEF S
      <4>1. IsFiniteSet(S \cup {new}) /\ Cardinality(S \cup {new}) <= Cardinality(S) + 1
        BY <2>1, FS_AddElement
      <4> QED BY <3>1, <4>1, FS_CardinalityType
    <3> QED BY <1>4, <1>5, <1>10, <2>1, <2>3, <3>2, LimitAssumption
  <2> QED BY <2>2, <2>3
<1>13. \A p : p # plan.id => PreparedFor(p)' = PreparedFor(p)
  BY <1>11
<1>14. NumbersOfPlans'
  <2>1. \A x \in Wallet : plans'[x] # None => plans'[x].id <= requests'
    BY <1>1, <1>4, <1>5, <1>8, <1>9, PlanTypes DEF PlanInv, NumbersOfPlans
  <2>2. \A r \in (pending \cup cosigned)' : r.plan <= requests'
    BY <1>1, <1>4, <1>5, <1>9, PlanTypes DEF PlanInv, NumbersOfPlans
  <2>3. ASSUME NEW x \in Wallet, NEW y \in Wallet, NEW p \in Nat, IsLive(x, p)', IsLive(y, p)'
        PROVE  x = y
    BY <1>4, <1>8, <1>9, <2>3 DEF IsLive, PlanInv, NumbersOfPlans
  <2>4. ASSUME NEW r \in (pending \cup cosigned)', NEW x \in Wallet, IsLive(x, r.plan)'
        PROVE  r.msg.wallet = x
    <3>1. CASE r = new
      <4>1. r.plan = plan.id /\ r.msg.wallet = w
        BY <1>4, <3>1 DEF w
      <4> QED BY <1>4, <1>8, <1>9, <2>4, <4>1 DEF IsLive
    <3>2. CASE r \in all
      BY <1>4, <1>8, <1>9, <2>4, <3>2 DEF IsLive, PlanInv, NumbersOfPlans
    <3> QED BY <1>1, <3>1, <3>2
  <2>5. ASSUME NEW r \in (pending \cup cosigned)', NEW s \in (pending \cup cosigned)', r.plan = s.plan
        PROVE  r.msg.wallet = s.msg.wallet
    <3>1. new.plan = plan.id /\ new.msg.wallet = w
      BY <1>4 DEF w
    <3> QED BY <1>1, <1>9, <2>5, <3>1 DEF PlanInv, NumbersOfPlans
  <2> QED BY <2>1, <2>2, <2>3, <2>4, <2>5 DEF NumbersOfPlans
<1>15. EndedAway'
  <2>1. ASSUME NEW r \in pending', r.ended # None
        PROVE  r.ended.id = r.plan /\ \A x \in Wallet : ~IsLive(x, r.plan)'
    <3>1. CASE r = new
      <4>1. ends /\ r.ended = next /\ r.plan = plan.id
        BY <1>4, <2>1, <3>1
      <4> QED BY <1>4, <1>8, <1>9, <4>1 DEF IsLive
    <3>2. CASE r \in pending
      <4>1. r.ended.id = r.plan /\ r.plan # plan.id
        BY <1>9, <2>1, <3>2 DEF PlanInv, EndedAway
      <4>2. ASSUME NEW x \in Wallet, IsLive(x, r.plan)' PROVE FALSE
        BY <1>4, <1>8, <2>1, <3>2, <4>1, <4>2 DEF IsLive, PlanInv, EndedAway
      <4> QED BY <4>1, <4>2
    <3> QED BY <1>1, <3>1, <3>2
  <2>2. ASSUME NEW r \in pending', NEW s \in pending', r.ended # None, s.ended # None,
               r.plan = s.plan
        PROVE  r = s
    BY <1>1, <1>4, <1>9, <2>2 DEF PlanInv, EndedAway
  <2> QED BY <2>1, <2>2 DEF EndedAway
<1>16. PlansCount'
  <2>1. \A q : q = next => Counts(q)'
    BY <1>4, <1>12 DEF Counts
  <2>2. ASSUME NEW x \in Wallet, plans'[x] # None PROVE Counts(plans[x])'
    <3>1. CASE x = w
      <4>1. plans'[x] = next
        BY <1>8, <2>2, <3>1
      <4> QED BY <2>1, <4>1 DEF Counts
    <3>2. CASE x # w
      <4>1. plans'[x] = plans[x] /\ plans[x].id # plan.id /\ Counts(plans[x])
        BY <1>8, <1>9, <2>2, <3>2 DEF PlanInv, PlansCount
      <4> QED BY <1>13, <4>1 DEF Counts
    <3> QED BY <3>1, <3>2
  <2>3. ASSUME NEW r \in pending', r.ended # None PROVE Counts(r.ended)'
    <3>1. CASE r = new
      BY <1>4, <2>1, <2>3, <3>1 DEF Counts
    <3>2. CASE r \in pending
      <4>1. r.ended.id # plan.id /\ Counts(r.ended)
        BY <1>9, <2>3, <3>2 DEF PlanInv, PlansCount, EndedAway
      <4> QED BY <1>13, <4>1 DEF Counts
    <3> QED BY <1>1, <3>1, <3>2
  <2>4. ASSUME NEW p \in Nat PROVE Cardinality(PreparedFor(p)') <= MaxPreparations
    <3>1. CASE p # plan.id
      BY <1>13, <3>1 DEF PlanInv, PlansCount
    <3>2. CASE p = plan.id
      BY <1>5, <1>12, <3>2, LimitAssumption
    <3> QED BY <3>1, <3>2
  <2> QED BY <2>2, <2>3, <2>4 DEF PlansCount
<1> QED BY <1>14, <1>15, <1>16 DEF PlanInv

(* Steps that add no request and leave every live plan as it is, or drop it.*)
LEMMA KeptPlans ==
    ASSUME PlanInv, BudgetInv', requests' = requests,
           pending' \subseteq pending, pending' \cup cosigned' = pending \cup cosigned,
           \A w \in Wallet : plans'[w] # None => plans'[w] = plans[w]
    PROVE  PlanInv'
<1>1. \A w \in Wallet : \A p : IsLive(w, p)' => IsLive(w, p)
  BY DEF IsLive
<1>2. \A p : PreparedFor(p)' = PreparedFor(p)
  BY DEF PreparedFor
<1>3. NumbersOfPlans'
  BY <1>1 DEF PlanInv, NumbersOfPlans
<1>4. EndedAway'
  BY <1>1 DEF PlanInv, EndedAway
<1>5. PlansCount'
  <2>1. ASSUME NEW q, Counts(q) PROVE Counts(q)'
    BY <1>2, <2>1 DEF Counts
  <2>2. \A w \in Wallet : plans'[w] # None => Counts(plans'[w])
    BY DEF PlanInv, PlansCount
  <2>3. ASSUME NEW w \in Wallet, plans'[w] # None PROVE Counts(plans[w])'
    BY <1>2, <2>2, <2>3 DEF Counts
  <2>4. \A r \in pending' : r.ended # None => Counts(r.ended)'
    BY <2>1 DEF PlanInv, PlansCount
  <2>5. \A p \in Nat : Cardinality(PreparedFor(p)') <= MaxPreparations
    BY <1>2 DEF PlanInv, PlansCount
  <2> QED BY <2>3, <2>4, <2>5 DEF PlansCount
<1> QED BY <1>3, <1>4, <1>5 DEF PlanInv

(* A request that fails gives its place back, to the plan that counted it.  *)
LEMMA FailPlans ==
    ASSUME PlanInv, BudgetInv', NEW r \in pending, Fail(r)
    PROVE  PlanInv'
<1> DEFINE w   == r.msg.wallet
           t   == UndoTarget(r)
           all == pending \cup cosigned
<1>1. /\ pending' = pending \ {r} /\ cosigned' = cosigned /\ requests' = requests
      /\ plans' = Undo(r) /\ requests \in Nat /\ w \in Wallet /\ r.plan \in Nat /\ r.plan <= requests
      /\ pending' \cup cosigned' = all \ {r}
  BY PlanTypes DEF Fail, PlanInv, NumbersOfPlans, BudgetInv, IInv, RequestInv, InFlightOnce
<1>2. \A p : PreparedFor(p)' = PreparedFor(p) \ {r}
  BY <1>1 DEF PreparedFor
<1>3. \A p : IsFiniteSet(PreparedFor(p)) /\ Cardinality(PreparedFor(p)) \in Nat
  BY PreparedFinite DEF PlanInv
<1>4. ASSUME NEW p
      PROVE  /\ Cardinality(PreparedFor(p)') \in Nat
             /\ Cardinality(PreparedFor(p)') =
                   IF r \in PreparedFor(p) THEN Cardinality(PreparedFor(p)) - 1
                                           ELSE Cardinality(PreparedFor(p))
  BY <1>2, <1>3, FS_RemoveElement, FS_CardinalityType
<1>5. ASSUME NEW q, Counts(q), q.preparations \in Nat PROVE Counts(q)'
  <2>1. /\ Cardinality(PreparedFor(q.id)') <= Cardinality(PreparedFor(q.id))
        /\ Cardinality(PreparedFor(q.id)') \in Nat
    BY <1>3, <1>4
  <2> QED BY <1>3, <1>5, <2>1 DEF Counts
<1>6. \A s \in pending' : s.ended # None => Counts(s.ended)'
  BY <1>1, <1>5, PlanTypes DEF PlanInv, PlansCount
<1>7. \A p \in Nat : Cardinality(PreparedFor(p)') <= MaxPreparations
  BY <1>3, <1>4, LimitAssumption DEF PlanInv, PlansCount
<1>8. CASE t = None
  <2>1. plans' = plans
    BY <1>1, <1>8 DEF Undo
  <2>2. \A x \in Wallet : \A p : IsLive(x, p)' <=> IsLive(x, p)
    BY <2>1 DEF IsLive
  <2>3. NumbersOfPlans' /\ EndedAway'
    BY <1>1, <2>1, <2>2 DEF PlanInv, NumbersOfPlans, EndedAway
  <2>4. \A x \in Wallet : plans'[x] # None => Counts(plans'[x])
    BY <2>1 DEF PlanInv, PlansCount
  <2>5. ASSUME NEW x \in Wallet, plans'[x] # None PROVE Counts(plans[x])'
    <3>1. \E q : q = plans[x] /\ Counts(q)' /\ plans'[x] = q
      BY <1>5, <2>1, <2>4, <2>5, PlanTypes
    <3> QED BY <3>1 DEF Counts
  <2> QED BY <1>6, <1>7, <2>3, <2>5 DEF PlanInv, PlansCount
<1>9. CASE t # None
  <2> DEFINE u == Undone(r)
  <2>1. /\ t \in Plan /\ t.id = r.plan /\ Counts(t) /\ t.preparations \in Nat
        /\ \/ plans[w] # None /\ t = plans[w]
           \/ plans[w] = None /\ r.ended # None
    BY <1>1, <1>9, PlanTypes DEF UndoTarget, PlanInv, EndedAway, PlansCount
  <2>2. u.id = r.plan /\ u.preparations = IF Preparing(r.msg) /\ t.preparations > 0
                                          THEN t.preparations - 1 ELSE t.preparations
    BY <2>1 DEF Undone, Plan
  <2>3. ASSUME NEW x \in Wallet, plans'[x] # None
        PROVE  (x = w /\ plans'[x] = u) \/ (x # w /\ plans'[x] = plans[x])
    <3>1. \E v : plans' = [plans EXCEPT ![w] = v] /\ (v = None \/ v = u)
      BY <1>1, <1>9 DEF Undo
    <3>2. plans \in [Wallet -> Plan \cup {None}]
      BY DEF PlanInv, BudgetInv, IInv, RequestInv, TypeOK
    <3> HIDE DEF u, w
    <3> QED BY <2>3, <3>1, <3>2
  <2> HIDE DEF u, t, w
(* Nobody else has the plan or can bring it back. *)
  <2>4. /\ \A x \in Wallet : x # w => ~IsLive(x, r.plan)
        /\ \A s \in pending : s.ended # None /\ s # r => s.plan # r.plan
    <3>1. CASE plans[w] # None /\ t = plans[w]
      BY <1>1, <2>1, <3>1 DEF PlanInv, NumbersOfPlans, EndedAway, IsLive
    <3>2. CASE r.ended # None
      BY <1>1, <3>2 DEF PlanInv, EndedAway
    <3> QED BY <2>1, <3>1, <3>2
  <2>5. \A s \in all : s.plan = r.plan => s.msg.wallet = w
    BY DEF PlanInv, NumbersOfPlans, w
  <2>6. \A x \in Wallet : \A p : IsLive(x, p)' =>
            \/ x = w /\ p = r.plan
            \/ x # w /\ p # r.plan /\ IsLive(x, p)
    BY <2>2, <2>3, <2>4 DEF IsLive
  <2>7. NumbersOfPlans'
    <3>1. \A x \in Wallet : plans'[x] # None => plans'[x].id <= requests'
      BY <1>1, <2>2, <2>3 DEF PlanInv, NumbersOfPlans
    <3>2. \A x, y \in Wallet, p \in Nat : IsLive(x, p)' /\ IsLive(y, p)' => x = y
      BY <2>6 DEF PlanInv, NumbersOfPlans
    <3>3. \A s \in all, x \in Wallet : IsLive(x, s.plan)' => s.msg.wallet = x
      BY <2>5, <2>6 DEF PlanInv, NumbersOfPlans
    <3> QED BY <1>1, <3>1, <3>2, <3>3 DEF PlanInv, NumbersOfPlans
  <2>8. EndedAway'
    <3>1. ASSUME NEW s \in pending', s.ended # None
          PROVE  s.ended.id = s.plan /\ \A x \in Wallet : ~IsLive(x, s.plan)'
      <4>1. s \in pending /\ s # r /\ s.plan # r.plan
        BY <1>1, <2>4, <3>1
      <4> QED BY <2>6, <3>1, <4>1 DEF PlanInv, EndedAway
    <3>2. \A s, v \in pending' : s.ended # None /\ v.ended # None /\ s.plan = v.plan => s = v
      BY <1>1 DEF PlanInv, EndedAway
    <3> QED BY <3>1, <3>2 DEF EndedAway
  <2>9. ASSUME NEW q, q = u PROVE Counts(q)'
    <3> DEFINE n == Cardinality(PreparedFor(r.plan))
    <3>1. n \in Nat /\ n <= t.preparations /\ t.preparations <= MaxPreparations
      BY <1>3, <2>1 DEF Counts
    <3>2. r \in PreparedFor(r.plan) <=> Preparing(r.msg)
      BY DEF PreparedFor
    <3>3. r \in PreparedFor(r.plan) => n # 0
      BY <1>3, FS_EmptySet
    <3>4. Cardinality(PreparedFor(r.plan)') = IF Preparing(r.msg) THEN n - 1 ELSE n
      BY <1>4, <3>2
    <3> HIDE DEF n
    <3>5. Cardinality(PreparedFor(r.plan)') <= u.preparations /\ u.preparations <= MaxPreparations
      BY <2>1, <2>2, <3>1, <3>2, <3>3, <3>4, LimitAssumption
    <3> QED BY <2>2, <2>9, <3>5 DEF Counts
  <2>10. ASSUME NEW x \in Wallet, plans'[x] # None PROVE Counts(plans[x])'
    <3>1. CASE x = w
      <4>1. \E q : q = u /\ Counts(q)' /\ plans'[x] = q
        BY <2>3, <2>9, <2>10, <3>1
      <4> QED BY <4>1 DEF Counts
    <3>2. CASE x # w
      <4>1. plans'[x] = plans[x] /\ Counts(plans[x]) /\ plans[x].preparations \in Nat
        BY <2>3, <2>10, <3>2, PlanTypes DEF PlanInv, PlansCount
      <4>2. \E q : q = plans[x] /\ Counts(q)' /\ plans'[x] = q
        BY <1>5, <4>1
      <4> QED BY <4>2 DEF Counts
    <3> QED BY <3>1, <3>2
  <2> QED BY <1>6, <1>7, <2>7, <2>8, <2>10 DEF PlanInv, PlansCount
<1> QED BY <1>8, <1>9

LEMMA InitPlans == Init => PlanInv
<1> SUFFICES ASSUME Init PROVE PlanInv
  OBVIOUS
<1>1. \A p : PreparedFor(p) = {}
  BY DEF Init, PreparedFor
<1>2. NumbersOfPlans /\ EndedAway
  BY DEF Init, NumbersOfPlans, EndedAway, IsLive
<1>3. PlansCount
  BY <1>1, FS_EmptySet, LimitAssumption DEF Init, PlansCount
<1> QED BY <1>2, <1>3, InitBudget DEF PlanInv

LEMMA NextPlans == PlanInv /\ [Next]_vars => PlanInv'
<1> SUFFICES ASSUME PlanInv, [Next]_vars PROVE PlanInv'
  OBVIOUS
<1>1. BudgetInv'
  BY NextBudget DEF PlanInv
<1>2. ASSUME NEW m \in Message, Admit(m) PROVE PlanInv'
  BY <1>1, <1>2, AdmitPlans
<1>3. ASSUME NEW m \in Message, Refuse(m) PROVE PlanInv'
  <2>1. \A w \in Wallet : plans'[w] # None => plans'[w] = plans[w]
    BY <1>3 DEF Refuse, Swept
  <2> QED BY <1>1, <1>3, <2>1, KeptPlans DEF Refuse
<1>4. ASSUME NEW r \in pending, Cosign(r) PROVE PlanInv'
  <2>1. pending' \subseteq pending /\ pending' \cup cosigned' = pending \cup cosigned
    BY <1>4 DEF Cosign
  <2> QED BY <1>1, <1>4, <2>1, KeptPlans DEF Cosign
<1>5. ASSUME NEW r \in pending, Fail(r) PROVE PlanInv'
  BY <1>1, <1>5, FailPlans
<1>6. CASE Tick
  BY <1>1, <1>6, KeptPlans DEF Tick
<1>7. CASE UNCHANGED vars
  BY <1>1, <1>7, KeptPlans DEF vars
<1> QED BY <1>2, <1>3, <1>4, <1>5, <1>6, <1>7 DEF Next

(* MAX_PREPARATION_TXS of rentplan.ts: through failures that give their     *)
(* place back and plans that end, expire and come back, one plan never has  *)
(* more transactions that are, or may be, sent at the treasury's cost.      *)
THEOREM PreparationsHold == Spec => []PreparationsCapped
<1>1. Spec => []PlanInv
  BY InitPlans, NextPlans, PTL DEF Spec
<1>2. PlanInv => PreparationsCapped
  BY DEF PlanInv, PlansCount, PreparationsCapped, PreparedFor
<1> QED BY <1>1, <1>2, PTL

(* Both caps on what one payment and one day can cost the treasury.         *)
THEOREM CapsAlwaysHold == Spec => []CapsHold
<1>1. PreparationsCapped /\ BudgetCoversSpend => CapsHold
  BY DEF CapsHold
<1> QED BY <1>1, PreparationsHold, BudgetHolds, PTL

-----------------------------------------------------------------------------
(***************************************************************************)
(* Rolling back.  While the only request in flight is the last one         *)
(* admitted, `plans` is what that request made of `before`; undoing it     *)
(* gives `before` back because the contexts it created were nobody's, what *)
(* it consumed nobody else can have claimed, and a plan that is empty and  *)
(* counts nothing is never kept.                                           *)
(***************************************************************************)
Base(ps, r) ==
    IF ps[r.msg.wallet] # None THEN ps[r.msg.wallet]
    ELSE [id |-> r.id, startedAt |-> r.at, preparations |-> 0, contexts |-> {}]
Grown(ps, r) ==
    [Base(ps, r) EXCEPT !.preparations = IF Preparing(r.msg) THEN @ + 1 ELSE @,
                        !.contexts = (@ \cup Added(r.msg)) \ r.spent]

Worthwhile(plan) == plan.contexts # {} \/ plan.preparations > 0
AllWorthwhile(ps) == \A w \in Wallet : ps[w] # None => Worthwhile(ps[w])
SharesNothing(ps) ==
    \A c \in Context, w, x \in Wallet : w \in Owners(ps, c) /\ x \in Owners(ps, c) => w = x

(* r found ps and left the plans as they are. *)
AdmittedOn(ps, r) ==
    /\ ps \in [Wallet -> Plan \cup {None}] /\ SharesNothing(ps) /\ AllWorthwhile(ps)
    /\ \A c \in r.msg.created : Owners(ps, c) = {}
    /\ r.plan = Base(ps, r).id
    /\ r.spent = (r.msg.closed \ r.msg.created) \cap Base(ps, r).contexts
    /\ \/ ps[r.msg.wallet] = None /\ r.ended = None /\ plans = ps
       \/ r.ended = Grown(ps, r) /\ plans = [ps EXCEPT ![r.msg.wallet] = None]
       \/ r.ended = None /\ plans = [ps EXCEPT ![r.msg.wallet] = Grown(ps, r)]

BeforeHolds == before # None => \E r \in pending : pending = {r} /\ AdmittedOn(before, r)
RollbackInv == IInv /\ AllWorthwhile(plans) /\ BeforeHolds

LEMMA BaseIsPlan ==
    ASSUME NEW r \in Request, NEW ps \in [Wallet -> Plan \cup {None}]
    PROVE  /\ r.msg \in Message /\ r.msg.wallet \in Wallet
           /\ Base(ps, r) \in Plan /\ Grown(ps, r) \in Plan
           /\ Grown(ps, r).contexts = (Base(ps, r).contexts \cup Added(r.msg)) \ r.spent
           /\ Grown(ps, r).preparations = IF Preparing(r.msg) THEN Base(ps, r).preparations + 1
                                                              ELSE Base(ps, r).preparations
           /\ Grown(ps, r).id = Base(ps, r).id
<1> DEFINE base == Base(ps, r)
<1>1. /\ r.msg \in Message /\ r.msg.wallet \in Wallet /\ r.id \in Nat \ {0} /\ r.at \in Nat
      /\ Added(r.msg) \in SUBSET Context /\ r.spent \in SUBSET Context
  BY MessageType DEF Request, Added
<1>2. base \in Plan
  <2>1. CASE ps[r.msg.wallet] # None
    BY <1>1, <2>1 DEF Base
  <2>2. CASE ps[r.msg.wallet] = None
    BY <1>1, <2>2 DEF Base, Plan
  <2> QED BY <2>1, <2>2
<1> HIDE DEF base
<1>3. /\ base.preparations \in Nat /\ base.contexts \in SUBSET Context
      /\ (base.contexts \cup Added(r.msg)) \ r.spent \in SUBSET Context
  BY <1>1, <1>2 DEF Plan
<1>4. (IF Preparing(r.msg) THEN base.preparations + 1 ELSE base.preparations) \in Nat
  BY <1>3
<1>5. Grown(ps, r) = [base EXCEPT !.preparations = IF Preparing(r.msg) THEN @ + 1 ELSE @,
                                  !.contexts = (@ \cup Added(r.msg)) \ r.spent]
  BY DEF Grown, base
<1> QED BY <1>1, <1>2, <1>3, <1>4, <1>5 DEF Plan, base

(* Undoing the delta of a request from the plan it made gives back what it  *)
(* found.                                                                   *)
LEMMA UndoneIsBase ==
    ASSUME IInv, NEW r \in pending, NEW ps, AdmittedOn(ps, r), UndoTarget(r) = Grown(ps, r)
    PROVE  Undone(r) = Base(ps, r)
<1> DEFINE w    == r.msg.wallet
           base == Base(ps, r)
           next == Grown(ps, r)
<1>1. /\ r \in Request /\ ps \in [Wallet -> Plan \cup {None}]
      /\ r.spent = (r.msg.closed \ r.msg.created) \cap base.contexts
      /\ \A c \in r.msg.created : Owners(ps, c) = {}
  BY DEF AdmittedOn, IInv, RequestInv, TypeOK
<1>2. /\ base \in Plan /\ next \in Plan /\ w \in Wallet /\ r.msg.created \in SUBSET Context
      /\ next.contexts = (base.contexts \cup Added(r.msg)) \ r.spent
      /\ next.preparations = IF Preparing(r.msg) THEN base.preparations + 1 ELSE base.preparations
      /\ next.id = base.id /\ next.startedAt = base.startedAt
  BY <1>1, BaseIsPlan, MessageType DEF Grown, Plan
<1>3. /\ base.preparations \in Nat /\ base.contexts \in SUBSET Context
      /\ next.preparations \in Nat /\ next.contexts \in SUBSET Context
  BY <1>2 DEF Plan
<1>4. \A c \in base.contexts : ps[w] # None /\ w \in Owners(ps, c)
  BY <1>2 DEF Base, Owners
<1>5. \A c \in r.msg.created : c \notin base.contexts
  BY <1>1, <1>4
<1>6. Restored(r) = r.spent
  <2>1. ASSUME NEW c \in r.spent, NEW x \in Owners(plans, c) PROVE x = w
    <3>1. c \in base.contexts /\ c \in Context
      BY <1>1, <1>3
    <3>2. x # w => x \in Owners(ps, c)
      BY <1>1, <1>2 DEF AdmittedOn, Owners
    <3> QED BY <1>2, <1>4, <3>1, <3>2 DEF AdmittedOn, SharesNothing, Owners
  <2> QED BY <2>1 DEF Restored
<1>7. (next.contexts \ Added(r.msg)) \cup Restored(r) = base.contexts
  <2>1. r.spent \subseteq base.contexts /\ Added(r.msg) \cap base.contexts = {}
    BY <1>1, <1>5 DEF Added
  <2> HIDE DEF base, next
  <2> QED BY <1>2, <1>6, <2>1
<1>8. (IF Preparing(r.msg) /\ next.preparations > 0 THEN next.preparations - 1
       ELSE next.preparations) = base.preparations
  BY <1>2, <1>3
<1>9. Undone(r) = [next EXCEPT !.contexts = base.contexts, !.preparations = base.preparations]
  BY <1>2, <1>7, <1>8 DEF Undone, Plan
<1> HIDE DEF base, next
<1>10. Undone(r) = base
  BY <1>2, <1>9 DEF Plan
<1> QED BY <1>10 DEF base

LEMMA UndoGivesBack ==
    ASSUME IInv, NEW r \in pending, NEW ps, AdmittedOn(ps, r)
    PROVE  Undo(r) = ps
<1> DEFINE w    == r.msg.wallet
           next == Grown(ps, r)
<1>1. /\ r \in Request /\ ps \in [Wallet -> Plan \cup {None}] /\ AllWorthwhile(ps)
  BY DEF AdmittedOn, IInv, RequestInv, TypeOK
<1>2. /\ w \in Wallet /\ Base(ps, r) \in Plan /\ next \in Plan /\ next # None
      /\ next.id = Base(ps, r).id /\ Base(ps, r).preparations \in Nat
  BY <1>1, BaseIsPlan, NoneAssumption DEF Plan
<1>3. CASE ps[w] = None /\ r.ended = None /\ plans = ps
  BY <1>3 DEF Undo, UndoTarget
<1>4. CASE \/ r.ended = next /\ plans = [ps EXCEPT ![w] = None]
           \/ r.ended = None /\ plans = [ps EXCEPT ![w] = next]
  <2>1. UndoTarget(r) = next
    BY <1>1, <1>2, <1>4 DEF UndoTarget, AdmittedOn
  <2>2. Undone(r) = Base(ps, r)
    BY <2>1, UndoneIsBase
  <2>3. (IF Undone(r).contexts = {} /\ Undone(r).preparations = 0 THEN None ELSE Undone(r)) = ps[w]
    BY <1>1, <1>2, <2>2 DEF Base, AllWorthwhile, Worthwhile
  <2>4. Undo(r) = [plans EXCEPT ![w] = ps[w]]
    BY <1>2, <2>1, <2>3 DEF Undo
  <2>5. \E v : plans = [ps EXCEPT ![w] = v]
    BY <1>4
  <2> HIDE DEF w
  <2> QED BY <1>1, <1>2, <2>4, <2>5
<1> QED BY <1>3, <1>4 DEF AdmittedOn

LEMMA AdmitRollback ==
    ASSUME RollbackInv, IInv', NEW m \in Message, Admit(m)
    PROVE  RollbackInv'
<1> DEFINE new  == RequestFor(Swept, m)
           next == Joined(Swept, m)
           plan == PlanFor(Swept, m)
<1>1. /\ now \in Nat /\ requests \in Nat /\ m.wallet \in Wallet
      /\ Swept \in [Wallet -> Plan \cup {None}]
      /\ plans' = PlansAfter(Swept, m) /\ pending' = pending \cup {new}
      /\ before' = IF pending = {} THEN Swept ELSE None
  BY MessageType, SweptTyped DEF Admit, RollbackInv, IInv, RequestInv, TypeOK, PlansTyped
<1>2. /\ new.id = requests + 1 /\ new.at = now /\ new.msg = m /\ new.plan = plan.id
      /\ new.spent = Spent(Swept, m) /\ new.ended = IF Ends(Swept, m) THEN next ELSE None
  BY DEF RequestFor
<1>3. plan \in Plan /\ next \in Plan
  BY <1>1, JoinedIsPlan
<1>4. /\ next.preparations = IF Preparing(m) THEN plan.preparations + 1 ELSE plan.preparations
      /\ plan.preparations \in Nat
  BY <1>1, <1>3, JoinedFields DEF Plan
<1>5. AllWorthwhile(Swept)
  BY DEF RollbackInv, AllWorthwhile, Swept
<1>6. Registered(Swept, m) /\ ~Ends(Swept, m) => Worthwhile(next)
  BY <1>4 DEF Ends, Preparing, Worthwhile
<1>7. AllWorthwhile(plans)'
  <2>1. AllWorthwhile(PlansAfter(Swept, m))
    BY <1>1, <1>5, <1>6 DEF AllWorthwhile, PlansAfter
  <2> QED BY <1>1, <2>1 DEF AllWorthwhile, Worthwhile
<1>8. ASSUME NEW ps, NEW r, ps = Swept, r = new PROVE AdmittedOn(ps, r)'
  <2>1. /\ Base(Swept, new) = plan
        /\ Grown(Swept, new) = next
    BY <1>2 DEF Base, Grown, PlanFor, Joined
  <2>2. SharesNothing(Swept)
    BY <1>1, SweptOwnsNoMore DEF SharesNothing, RollbackInv, IInv, RequestInv, TypeOK,
       ContextsOwnedOnce, PlansTyped
  <2>3. \A c \in m.created : Owners(Swept, c) = {}
    BY DEF Admit, PlanAccepts
  <2>4. new.spent = (m.closed \ m.created) \cap plan.contexts
    BY <1>2 DEF Spent
  <2>5. \/ Swept[m.wallet] = None /\ new.ended = None /\ plans' = Swept
        \/ new.ended = next /\ plans' = [Swept EXCEPT ![m.wallet] = None]
        \/ new.ended = None /\ plans' = [Swept EXCEPT ![m.wallet] = next]
    BY <1>1, <1>2 DEF PlansAfter, Registered
  <2> HIDE DEF new, next, plan
  <2>6. AllWorthwhile(ps)'
    BY <1>5, <1>8 DEF AllWorthwhile, Worthwhile
  <2>7. SharesNothing(ps)' /\ \A c \in r.msg.created : Owners(ps, c)' = {}
    BY <1>2, <1>8, <2>2, <2>3 DEF SharesNothing, Owners
  <2>8. Base(ps, r)' = plan
    BY <1>8, <2>1 DEF Base
  <2>9. Grown(ps, r)' = next
    BY <1>8, <2>1 DEF Grown, Base, Preparing, Added
  <2> QED BY <1>1, <1>2, <1>8, <2>4, <2>5, <2>6, <2>7, <2>8, <2>9 DEF AdmittedOn
<1>9. BeforeHolds'
  <2>1. CASE pending = {}
    <3> HIDE DEF new
    <3>1. pending' = {new} /\ before' = Swept
      BY <1>1, <2>1
    <3>2. ASSUME NEW ps, NEW r, ps = Swept, r = new PROVE AdmittedOn(before, r)'
      <4>1. AdmittedOn(ps, r)' /\ before' = ps
        BY <1>8, <3>1, <3>2
      <4> QED BY <4>1 DEF AdmittedOn, AllWorthwhile, Worthwhile, SharesNothing, Owners,
                          Base, Grown, Preparing, Added
    <3>3. \E r : r = new /\ AdmittedOn(before, r)'
      BY <3>2
    <3> QED BY <3>1, <3>3 DEF BeforeHolds
  <2>2. CASE pending # {}
    BY <1>1, <2>2 DEF BeforeHolds
  <2> QED BY <2>1, <2>2
<1> QED BY <1>7, <1>9 DEF RollbackInv

LEMMA FailRollback ==
    ASSUME RollbackInv, IInv', NEW r \in pending, Fail(r)
    PROVE  RollbackInv'
<1> DEFINE w == r.msg.wallet
           u == Undone(r)
           t == UndoTarget(r)
<1>1. /\ plans' = Undo(r) /\ before' = None /\ w \in Wallet /\ r \in Request
      /\ plans \in [Wallet -> Plan \cup {None}]
  BY MessageType DEF Fail, RollbackInv, IInv, RequestInv, TypeOK, Request
<1>2. CASE t = None
  <2>1. plans' = plans
    BY <1>1, <1>2 DEF Undo
  <2>2. AllWorthwhile(plans)'
    BY <2>1 DEF RollbackInv, AllWorthwhile, Worthwhile
  <2> QED BY <1>1, <2>2 DEF RollbackInv, BeforeHolds
<1>3. CASE t # None
  <2>1. t \in Plan
    BY <1>1, <1>3 DEF UndoTarget, Request
  <2>2. u.preparations \in Nat
    BY <2>1 DEF Undone, Plan
  <2>3. ASSUME NEW x \in Wallet, plans'[x] # None
        PROVE  (x = w /\ plans'[x] = u /\ Worthwhile(u)) \/ (x # w /\ plans'[x] = plans[x])
    <3>1. plans' = [plans EXCEPT ![w] = IF u.contexts = {} /\ u.preparations = 0
                                        THEN None ELSE u]
      BY <1>1, <1>3 DEF Undo
    <3>2. u.contexts # {} \/ u.preparations # 0 => Worthwhile(u)
      BY <2>2 DEF Worthwhile
    <3> HIDE DEF u, w
    <3>3. CASE u.contexts = {} /\ u.preparations = 0
      <4>1. plans' = [plans EXCEPT ![w] = None]
        BY <3>1, <3>3
      <4> QED BY <1>1, <2>3, <4>1
    <3>4. CASE ~(u.contexts = {} /\ u.preparations = 0)
      <4>1. plans' = [plans EXCEPT ![w] = u]
        BY <3>1, <3>4
      <4> QED BY <1>1, <2>3, <3>2, <3>4, <4>1
    <3> QED BY <3>3, <3>4
  <2> HIDE DEF u, w
  <2>4. AllWorthwhile(plans)'
    BY <2>3 DEF RollbackInv, AllWorthwhile, Worthwhile
  <2> QED BY <1>1, <2>4 DEF RollbackInv, BeforeHolds
<1> QED BY <1>2, <1>3

LEMMA NextRollback == RollbackInv /\ [Next]_vars => RollbackInv'
<1> SUFFICES ASSUME RollbackInv, [Next]_vars PROVE RollbackInv'
  OBVIOUS
<1>1. IInv'
  BY NextIInv DEF RollbackInv
<1>2. ASSUME NEW m \in Message, Admit(m) PROVE RollbackInv'
  BY <1>1, <1>2, AdmitRollback
<1>3. ASSUME NEW m \in Message, Refuse(m) PROVE RollbackInv'
  <2>1. before' = None /\ \A w \in Wallet : plans'[w] # None => plans'[w] = plans[w]
    BY <1>3 DEF Refuse, Swept
  <2> QED BY <1>1, <2>1 DEF RollbackInv, AllWorthwhile, Worthwhile, BeforeHolds
<1>4. ASSUME NEW r \in pending, Cosign(r) PROVE RollbackInv'
  BY <1>1, <1>4 DEF Cosign, RollbackInv, AllWorthwhile, Worthwhile, BeforeHolds
<1>5. ASSUME NEW r \in pending, Fail(r) PROVE RollbackInv'
  BY <1>1, <1>5, FailRollback
<1>6. CASE Tick \/ UNCHANGED vars
  <2>1. plans' = plans /\ pending' = pending /\ before' = before
    BY <1>6 DEF Tick, vars
  <2>2. AllWorthwhile(plans)'
    BY <2>1 DEF RollbackInv, AllWorthwhile, Worthwhile
  <2>3. ASSUME NEW r, AdmittedOn(before, r) PROVE AdmittedOn(before, r)'
    BY <2>1, <2>3 DEF AdmittedOn, AllWorthwhile, Worthwhile, SharesNothing, Owners, Base, Grown,
                      Preparing, Added
  <2>4. BeforeHolds'
    BY <2>1, <2>3 DEF RollbackInv, BeforeHolds
  <2> QED BY <1>1, <2>2, <2>4 DEF RollbackInv
<1> QED BY <1>2, <1>3, <1>4, <1>5, <1>6 DEF Next

LEMMA FailingIsFail ==
    ASSUME IInv, Next, Failing
    PROVE  \E r \in pending : Fail(r)
<1>1. ASSUME NEW m \in Message, Admit(m) PROVE FALSE
  <2> DEFINE new == RequestFor(Swept, m)
  <2>1. pending' = pending \cup {new} /\ new.id = requests + 1 /\ requests \in Nat
    BY <1>1 DEF Admit, RequestFor, IInv, RequestInv, TypeOK
  <2> HIDE DEF new
  <2>2. \A r \in pending : r.id \in Nat /\ r.id <= requests
    BY DEF IInv, RequestInv, TypeOK, Numbered, Request
  <2> QED BY <2>1, <2>2 DEF Failing
<1>2. ASSUME NEW r \in pending, Cosign(r) PROVE FALSE
  BY <1>2 DEF Cosign, Failing, IInv, RequestInv, InFlightOnce
<1> QED BY <1>1, <1>2 DEF Next, Refuse, Tick, Failing

(* "A retry is legitimate" (treasury.md): a request that fails with no      *)
(* other admitted since it was leaves every wallet's plan exactly as it     *)
(* found it, be it joined, started or ended by that request.                *)
THEOREM RollbackIsExact == Spec => RollbackExact
<1>1. Init => RollbackInv
  BY InitIInv DEF Init, RollbackInv, AllWorthwhile, BeforeHolds
<1>2. RollbackInv /\ [Next]_vars => [Failing /\ before # None => plans' = before]_vars
  <2> SUFFICES ASSUME RollbackInv, Next, Failing, before # None PROVE plans' = before
    OBVIOUS
  <2>1. PICK r \in pending : Fail(r)
    BY FailingIsFail DEF RollbackInv
  <2>2. AdmittedOn(before, r)
    BY DEF RollbackInv, BeforeHolds
  <2> QED BY <2>1, <2>2, UndoGivesBack DEF Fail, RollbackInv
<1> QED BY <1>1, <1>2, NextRollback, PTL DEF Spec, RollbackExact

-----------------------------------------------------------------------------
(***************************************************************************)
(* The offers.  What the instructions of an accepted transaction can take  *)
(* from the key that signs is at most what is booked for it.               *)
(***************************************************************************)
Transaction(t) == /\ IsFiniteSet(t.signers) /\ DOMAIN t.ixs = 1 .. Len(t.ixs)
                  /\ \A i \in DOMAIN t.ixs : t.ixs[i].n \in Nat
                  /\ WellFormed(t)

LEMMA GreatestIn ==
    ASSUME NEW S \in SUBSET Nat, NEW n \in Nat, S \subseteq 1 .. n, S # {}
    PROVE  Max(S) \in S
<1> DEFINE B == {k \in Nat : \A i \in S : i <= k}
<1>1. SUFFICES ASSUME \A k \in S : \E i \in S : ~(i <= k) PROVE FALSE
  BY DEF Max
<1>2. ASSUME NEW k \in B PROVE \E j \in B : j < k
  <2>1. k # 0
    <3>1. PICK i \in S : TRUE
      OBVIOUS
    <3> QED BY <3>1
  <2>2. k \notin S
    BY <1>1
  <2>3. \A i \in S : i <= k - 1
    BY <2>2
  <2> QED BY <2>1, <2>3
<1>3. n \in B
  OBVIOUS
<1> HIDE DEF B
<1>4. B = {}
  <2>1. B \in SUBSET Nat
    BY DEF B
  <2> QED BY <1>2, <2>1, NoLeast
<1> QED BY <1>3, <1>4

LEMMA DivNat ==
    ASSUME NEW a \in Nat, NEW b \in Nat \ {0}
    PROVE  a \div b \in Nat
  OBVIOUS

LEMMA FeeType ==
    ASSUME NEW t, Transaction(t)
    PROVE  worstCaseFeeLamports(t) \in Nat
<1>1. Len(t.ixs) \in Nat
  BY PolicyAssumption DEF Transaction, WellFormed
<1>2. ASSUME NEW op PROVE Setting(t, op) \in Nat \/ Setting(t, op) = Unset
  <2> DEFINE at == Having(t, "budget", op)
  <2>1. at \in SUBSET Nat /\ at \subseteq 1 .. Len(t.ixs)
    BY DEF Having, Transaction
  <2>2. at # {} => Max(at) \in DOMAIN t.ixs
    <3> HIDE DEF at
    <3>1. at # {} => Max(at) \in at
      BY <1>1, <2>1, GreatestIn
    <3> QED BY <2>1, <3>1 DEF Transaction
  <2> QED BY <2>2 DEF Setting, Transaction
<1>3. units(t) \in Nat
  <2>1. DEFAULT_CU_PER_INSTRUCTION * Len(t.ixs) \in Nat
    BY <1>1, PolicyAssumption
  <2>2. ASSUME NEW a \in Nat, NEW b \in Nat PROVE Min({a, b}) \in Nat
    BY DEF Min
  <2>3. Min({DEFAULT_CU_PER_INSTRUCTION * Len(t.ixs), MAX_CU_PER_TRANSACTION}) \in Nat
    BY <2>1, <2>2, PolicyAssumption
  <2> QED BY <1>2, <2>3 DEF units, unitLimit
<1>4. LAMPORTS_PER_SIGNATURE * Cardinality(t.signers) \in Nat
  BY FS_CardinalityType, PolicyAssumption DEF Transaction
<1>5. unitPriceMicroLamports(t) \in Nat \/ unitPriceMicroLamports(t) = Unset
  BY <1>2 DEF unitPriceMicroLamports
<1>6. unitPriceMicroLamports(t) \in Nat =>
          (units(t) * unitPriceMicroLamports(t) + MICRO - 1) \div MICRO \in Nat
  <2>1. unitPriceMicroLamports(t) \in Nat =>
            units(t) * unitPriceMicroLamports(t) + MICRO - 1 \in Nat
    BY <1>3, PolicyAssumption
  <2> QED BY <2>1, DivNat, PolicyAssumption
<1> QED BY <1>4, <1>5, <1>6 DEF worstCaseFeeLamports

(* What a transaction takes, and what requests cost, are sums. *)
LEMMA TakenIsSum ==
    ASSUME NEW t, NEW key, IsFiniteSet(DOMAIN t.ixs)
    PROVE  Taken(t, key) = Sum([i \in DOMAIN t.ixs |-> TakenBy(t, i, key)], DOMAIN t.ixs)
<1> DEFINE S == DOMAIN t.ixs
           f == [i \in S |-> TakenBy(t, i, key)]
           Adds(g) == g = [s \in SUBSET S |->
               IF s = {} THEN 0
               ELSE TakenBy(t, CHOOSE x \in s : TRUE, key) + g[s \ {CHOOSE x \in s : TRUE}]]
           fold == CHOOSE g : Adds(g)
<1>1. Taken(t, key) = fold[S]
  BY DEF Taken, MapThenSumSet, MapThenFoldSet
<1>2. ASSUME NEW g PROVE IsTable(g, f, SUBSET S) <=> Adds(g)
  <2>1. ASSUME NEW s \in SUBSET S, s # {} PROVE f[Pick(s)] = TakenBy(t, Pick(s), key)
    BY <2>1, PickIn
  <2> QED BY <2>1 DEF IsTable, Step, Pick
<1>3. IsTable(fold, f, SUBSET S)
  <2>1. \E g : Adds(g)
    <3> HIDE DEF Adds, f
    <3> QED BY <1>2, TableExists
  <2>2. Adds(fold)
    <3> HIDE DEF Adds
    <3> QED BY <2>1
  <2> HIDE DEF Adds, f
  <2> QED BY <1>2, <2>2
<1> HIDE DEF f, fold
<1> QED BY <1>1, <1>3, TableIsSum DEF f

LEMMA SpentIsSum ==
    ASSUME NEW S, IsFiniteSet(S)
    PROVE  SpentOf(S) = Sum([r \in S |-> Cost(r)], S)
<1> DEFINE f == [r \in S |-> Cost(r)]
           Adds(g) == g = [s \in SUBSET S |->
               IF s = {} THEN 0
               ELSE Cost(CHOOSE x \in s : TRUE) + g[s \ {CHOOSE x \in s : TRUE}]]
           fold == CHOOSE g : Adds(g)
<1>1. SpentOf(S) = fold[S]
  BY DEF SpentOf, MapThenSumSet, MapThenFoldSet
<1>2. ASSUME NEW g PROVE IsTable(g, f, SUBSET S) <=> Adds(g)
  <2>1. ASSUME NEW s \in SUBSET S, s # {} PROVE f[Pick(s)] = Cost(Pick(s))
    BY <2>1, PickIn
  <2> QED BY <2>1 DEF IsTable, Step, Pick
<1>3. IsTable(fold, f, SUBSET S)
  <2>1. \E g : Adds(g)
    <3> HIDE DEF Adds, f
    <3> QED BY <1>2, TableExists
  <2>2. Adds(fold)
    <3> HIDE DEF Adds
    <3> QED BY <2>1
  <2> HIDE DEF Adds, f
  <2> QED BY <1>2, <2>2
<1> HIDE DEF f, fold
<1> QED BY <1>1, <1>3, TableIsSum DEF f

LEMMA TakenByType ==
    ASSUME NEW t, Transaction(t), NEW key, NEW i \in DOMAIN t.ixs
    PROVE  /\ TakenBy(t, i, key) \in Nat
           /\ Uses(t.ixs[i], key) = {} => TakenBy(t, i, key) = 0
           /\ t.ixs[i].prog = "ata" /\ Uses(t.ixs[i], key) = {"payer"} =>
                 TakenBy(t, i, key) \in {0, ATA_RENT_LAMPORTS}
  BY PolicyAssumption DEF TakenBy, Everything, Transaction

LEMMA TakenType ==
    ASSUME NEW t, Transaction(t), NEW key
    PROVE  Taken(t, key) \in Nat /\ IsFiniteSet(DOMAIN t.ixs)
<1> DEFINE f == [i \in DOMAIN t.ixs |-> TakenBy(t, i, key)]
<1>1. IsFiniteSet(DOMAIN t.ixs)
  <2>1. Len(t.ixs) \in Nat
    BY PolicyAssumption DEF Transaction, WellFormed
  <2>2. IsFiniteSet(1 .. Len(t.ixs))
    BY <2>1, FS_Interval
  <2> QED BY <2>2 DEF Transaction
<1>2. \A i \in DOMAIN t.ixs : f[i] \in Nat
  BY TakenByType
<1> HIDE DEF f
<1>3. Sum(f, DOMAIN t.ixs) \in Nat
  BY <1>1, <1>2, SumNat
<1> QED BY <1>1, <1>3, TakenIsSum DEF f

(* The exemption of sponsorFundedAtaInstructions is one instruction, and it *)
(* makes the sponsor pay for one account.                                   *)
LEMMA OneExempt ==
    ASSUME NEW t, Transaction(t), NEW key,
           NEW i \in sponsorFundedAtaInstructions(t, key),
           NEW j \in sponsorFundedAtaInstructions(t, key)
    PROVE  /\ i = j /\ i \in DOMAIN t.ixs
           /\ t.ixs[i].prog = "ata" /\ Uses(t.ixs[i], key) = {"payer"}
<1> DEFINE verdicts == Having(t, "relstate", "submit_verdict")
           exempt(v) == {k \in DOMAIN t.ixs : CreatesForVerdict(t, k, v, key)}
<1>1. PICK v \in verdicts : i \in exempt(v) /\ Cardinality(exempt(v)) <= 1 /\ Cardinality(verdicts) = 1
  BY DEF sponsorFundedAtaInstructions
<1>2. PICK u \in verdicts : j \in exempt(u)
  BY DEF sponsorFundedAtaInstructions
<1>3. IsFiniteSet(verdicts) /\ IsFiniteSet(exempt(v))
  <2>1. verdicts \in SUBSET DOMAIN t.ixs /\ exempt(v) \in SUBSET DOMAIN t.ixs
    BY DEF Having
  <2> QED BY <2>1, TakenType, FS_Subset
<1>4. \A S : IsFiniteSet(S) /\ Cardinality(S) <= 1 => \A x, y \in S : x = y
  <2> SUFFICES ASSUME NEW S, IsFiniteSet(S), Cardinality(S) <= 1, S # {}
               PROVE  \A x, y \in S : x = y
    OBVIOUS
  <2>1. Cardinality(S) \in Nat /\ Cardinality(S) # 0
    BY FS_CardinalityType, FS_EmptySet
  <2>2. Cardinality(S) = 1
    BY <2>1
  <2> QED BY <2>2, FS_Singleton
<1>5. u = v
  <2> HIDE DEF verdicts
  <2> QED BY <1>1, <1>2, <1>3, <1>4
<1>6. i = j
  <2> HIDE DEF exempt
  <2> QED BY <1>1, <1>2, <1>3, <1>4, <1>5
<1> QED BY <1>1, <1>6 DEF CreatesForVerdict

LEMMA SponsorTakes ==
    ASSUME NEW t, Transaction(t), NEW key, SponsorNotUsedByInstructions(t, key)
    PROVE  /\ bookedLamports(t, key) \in Nat
           /\ Taken(t, key) + worstCaseFeeLamports(t) <= bookedLamports(t, key)
<1> DEFINE D == DOMAIN t.ixs
           f == [i \in D |-> TakenBy(t, i, key)]
           exempt == sponsorFundedAtaInstructions(t, key)
<1>1. /\ IsFiniteSet(D) /\ worstCaseFeeLamports(t) \in Nat /\ ATA_RENT_LAMPORTS \in Nat
      /\ Taken(t, key) = Sum(f, D)
  BY TakenType, TakenIsSum, FeeType, PolicyAssumption
<1>2. \A i \in D : f[i] \in Nat /\ (i \notin exempt => f[i] = 0)
  BY TakenByType DEF SponsorNotUsedByInstructions
<1>3. CASE exempt = {}
  <2> HIDE DEF f, D
  <2>1. Sum(f, D) = 0
    BY <1>1, <1>2, <1>3, SumZero
  <2> QED BY <1>1, <1>3, <2>1 DEF bookedLamports
<1>4. CASE exempt # {}
  <2>1. PICK i \in exempt : TRUE
    BY <1>4
  <2>2. i \in D /\ f[i] \in {0, ATA_RENT_LAMPORTS} /\ \A j \in exempt : i = j
    BY <2>1, OneExempt, TakenByType
  <2> HIDE DEF f, D, exempt
  <2>3. IsFiniteSet(D \ {i}) /\ \A j \in D \ {i} : f[j] = 0
    BY <1>1, <1>2, <2>2, FS_RemoveElement
  <2>4. Sum(f, D \ {i}) = 0
    BY <2>3, SumZero
  <2>5. Sum(f, D) = f[i] + Sum(f, D \ {i})
    BY <1>1, <1>2, <2>2, SumRemove
  <2>6. bookedLamports(t, key) = worstCaseFeeLamports(t) + ATA_RENT_LAMPORTS
    BY <1>4 DEF bookedLamports, exempt
  <2> QED BY <1>1, <2>2, <2>4, <2>5, <2>6
<1> QED BY <1>3, <1>4

-----------------------------------------------------------------------------
(***************************************************************************)
(* The inductive invariant.  Every request that is booked has an entry in  *)
(* its route's limiter, worth what it is booked with; what it is booked    *)
(* with covers what it costs once that is known; and what is booked is     *)
(* within the caps.  For a set-up the cost is measured with two reads of a *)
(* balance that others move: `first` and the balance are both too low only *)
(* when it went down and up again in between.                              *)
(***************************************************************************)
Asking  == {"simulating", "before", "simulate", "after", "sending", "balance", "running"}
Kept    == {"sent", "failed"}
AskType == [id : Nat \ {0}, route : Route, wallet : Wallet, at : Nat, pc : Asking \cup Kept,
            fee : Nat, takes : Nat, booked : Nat, first : Int, post : Int,
            moved : SUBSET {"up", "down"}, life : Nat, landed : BOOLEAN]

SponsorTyped ==
    /\ now \in Nat /\ purse \in Nat /\ restarts \in Nat /\ lastAsk \in Nat
    /\ asks \subseteq AskType /\ IsFiniteSet(asks)
    /\ kept \subseteq AskType /\ IsFiniteSet(kept)
    /\ books \in [Route -> SUBSET EntryType]
    /\ \A route \in Route : IsFiniteSet(books[route])

(* Requests have numbers of their own, and where they are says their route. *)
Told ==
    /\ \A r \in asks \cup kept : r.id <= lastAsk /\ r.life <= restarts
    /\ \A r, s \in asks \cup kept : r.id = s.id => r = s
    /\ \A r \in asks : /\ r.life = restarts /\ r.pc \in Asking
                       /\ r.pc \in {"balance", "running"} <=> r.route = "dust"
    /\ \A r \in kept : r.pc \in Kept

Measured(r) ==
    /\ r.pc \in {"simulating", "sending", "balance", "running", "sent"}
           /\ r.moved # {"up", "down"} => Cost(r) <= r.booked
    /\ r.pc \in {"before", "simulate", "after"} => r.booked = Policy.rent + r.fee
    /\ r.pc = "balance" => r.booked = Dust
    /\ r.pc = "simulate" /\ "up" \notin r.moved => purse <= r.first
    /\ r.pc = "after" /\ "up" \notin r.moved => r.takes + r.post <= r.first
    /\ r.pc = "after" /\ "down" \notin r.moved => r.takes + r.post <= purse
AllMeasured == \A r \in asks \cup kept : Measured(r)

OnBooks(r) == r.pc \notin {"balance", "failed"} /\ r.life = restarts /\ now - r.at <= Day
StandsFor(e, r) == e.id = r.id /\ e.wallet = r.wallet /\ e.at = r.at /\ r.booked <= e.lamports
Accounted ==
    /\ \A route \in Route : \A e \in books[route] : e.id <= lastAsk
    /\ \A r \in asks : \A e \in books[r.route] : e.id = r.id => r.booked <= e.lamports
    /\ \A r \in asks \cup kept :
           OnBooks(r) => \E e \in Booked(r.route, Day) : StandsFor(e, r)

BookedOf(route, X) == {e \in Booked(route, Day) : e.wallet \in X}
WithinCaps ==
    \A route \in Route :
        /\ Lamports(BookedOf(route, Wallet)) <= Caps[route].global
        /\ \A w \in Wallet : Lamports(BookedOf(route, {w})) <= Caps[route].wallet

SponsorInv == SponsorTyped /\ Told /\ AllMeasured /\ Accounted /\ WithinCaps

LEMMA SponsorOffered ==
    ASSUME NEW offer \in SponsorOffers
    PROVE  /\ offer.wallet \in Wallet /\ offer.fee \in Nat /\ offer.takes \in Nat
           /\ offer.booked \in Nat /\ offer.takes + offer.fee <= offer.booked
<1>1. PICK p \in Sponsorable \X Wallet :
          /\ SponsorAccepts(p[1], p[2], FeePayer)
          /\ offer = Offer(p[2], worstCaseFeeLamports(p[1]), Taken(p[1], FeePayer),
                           bookedLamports(p[1], FeePayer))
  BY DEF SponsorOffers
<1>2. Transaction(p[1]) /\ SponsorNotUsedByInstructions(p[1], FeePayer) /\ p[2] \in Wallet
  BY <1>1, OffersAssumption DEF SponsorAccepts, Cosignable, Transaction
<1> QED BY <1>1, <1>2, SponsorTakes, FeeType, TakenType DEF Offer

LEMMA SetupOffered ==
    ASSUME NEW offer \in SetupOffers
    PROVE  /\ offer.wallet \in Wallet /\ offer.fee \in Nat /\ offer.takes \in Nat
           /\ offer.booked \in Nat /\ offer.booked = Policy.rent + offer.fee
<1>1. PICK p \in Setups \X Wallet :
          /\ SetupAccepts(p[1], p[2], Treasury)
          /\ offer = Offer(p[2], worstCaseFeeLamports(p[1]), Taken(p[1], Treasury),
                           Policy.rent + worstCaseFeeLamports(p[1]))
  BY DEF SetupOffers
<1>2. Transaction(p[1]) /\ p[2] \in Wallet
  BY <1>1, OffersAssumption DEF SetupAccepts, Cosignable, Transaction
<1>3. worstCaseFeeLamports(p[1]) \in Nat /\ Taken(p[1], Treasury) \in Nat /\ Policy.rent \in Nat
  BY <1>2, FeeType, TakenType, PolicyAssumption
<1> QED BY <1>1, <1>2, <1>3 DEF Offer

LEMMA AskFields ==
    ASSUME SponsorTyped, NEW route \in Route, NEW pc \in Asking, NEW offer,
           offer.wallet \in Wallet, offer.fee \in Nat, offer.takes \in Nat, offer.booked \in Nat
    PROVE  LET r == Ask(route, pc, offer) IN
           /\ r \in AskType
           /\ r.id = lastAsk + 1 /\ r.route = route /\ r.wallet = offer.wallet /\ r.at = now
           /\ r.pc = pc /\ r.fee = offer.fee /\ r.takes = offer.takes /\ r.booked = offer.booked
           /\ r.moved = {} /\ r.life = restarts
  BY DEF Ask, AskType, SponsorTyped

(* A request that goes on keeps what it is. *)
LEMMA Updated ==
    ASSUME NEW r \in AskType
    PROVE  /\ \A pc \in Asking \cup Kept : [r EXCEPT !.pc = pc] \in AskType
           /\ [r EXCEPT !.landed = TRUE] \in AskType
           /\ \A n \in Int : [r EXCEPT !.pc = "simulate", !.first = n] \in AskType
           /\ \A n \in Int : [r EXCEPT !.pc = "after", !.post = n] \in AskType
           /\ \A n \in Nat : [r EXCEPT !.pc = "sending", !.booked = n,
                                        !.first = 0, !.post = 0] \in AskType
           /\ \A n \in Nat : [r EXCEPT !.at = n] \in AskType
           /\ \A n \in Nat : [r EXCEPT !.pc = "running", !.at = n] \in AskType
           /\ \A way \in {"up", "down"} : [r EXCEPT !.moved = @ \cup {way}] \in AskType
<1>1. \A pc \in Asking \cup Kept : [r EXCEPT !.pc = pc] \in AskType
  BY DEF AskType
<1>2. [r EXCEPT !.landed = TRUE] \in AskType
  BY DEF AskType
<1>3. {"simulate", "after", "sending", "running"} \subseteq Asking \cup Kept
  BY DEF Asking, Kept
<1>4. \A n \in Int : [r EXCEPT !.pc = "simulate", !.first = n] \in AskType
  BY <1>3 DEF AskType
<1>5. \A n \in Int : [r EXCEPT !.pc = "after", !.post = n] \in AskType
  BY <1>3 DEF AskType
<1>6. ASSUME NEW n \in Nat
      PROVE  [r EXCEPT !.pc = "sending", !.booked = n, !.first = 0, !.post = 0] \in AskType
  <2> DEFINE s == [r EXCEPT !.pc = "sending", !.booked = n]
             u == [s EXCEPT !.first = 0]
  <2>1. s \in AskType
    BY <1>3 DEF AskType
  <2>2. u \in AskType
    <3> HIDE DEF s
    <3> QED BY <2>1 DEF AskType
  <2>3. [u EXCEPT !.post = 0] \in AskType
    <3> HIDE DEF u
    <3> QED BY <2>2 DEF AskType
  <2>4. [r EXCEPT !.pc = "sending", !.booked = n, !.first = 0, !.post = 0] = [u EXCEPT !.post = 0]
    BY DEF AskType
  <2> QED BY <2>3, <2>4
<1>7. \A n \in Nat : [r EXCEPT !.at = n] \in AskType
  BY DEF AskType
<1>8. \A n \in Nat : [r EXCEPT !.pc = "running", !.at = n] \in AskType
  BY <1>3 DEF AskType
<1>9. ASSUME NEW way \in {"up", "down"} PROVE [r EXCEPT !.moved = @ \cup {way}] \in AskType
  <2>1. r.moved \cup {way} \in SUBSET {"up", "down"}
    BY DEF AskType
  <2> QED BY <2>1 DEF AskType
<1> QED BY <1>1, <1>2, <1>4, <1>5, <1>6, <1>7, <1>8, <1>9

Shifted(r, way) == IF r.pc \in Reading THEN [r EXCEPT !.moved = @ \cup {way}] ELSE r
LEMMA ShiftedFields ==
    ASSUME NEW r \in AskType, NEW way \in {"up", "down"}
    PROVE  LET s == Shifted(r, way) IN
           /\ s \in AskType
           /\ s.id = r.id /\ s.route = r.route /\ s.wallet = r.wallet /\ s.at = r.at
           /\ s.pc = r.pc /\ s.fee = r.fee /\ s.takes = r.takes /\ s.booked = r.booked
           /\ s.first = r.first /\ s.post = r.post /\ s.life = r.life
           /\ s.moved = IF r.pc \in Reading THEN r.moved \cup {way} ELSE r.moved
           /\ r.pc \notin Reading => s = r
<1>1. Shifted(r, way) \in AskType
  BY Updated DEF Shifted
<1> QED BY <1>1 DEF Shifted, AskType

LEMMA MovedFacts ==
    ASSUME NEW S \in SUBSET AskType, IsFiniteSet(S), NEW way \in {"up", "down"}
    PROVE  /\ Moved(S, way) \in SUBSET AskType /\ IsFiniteSet(Moved(S, way))
           /\ \A q \in Moved(S, way) : \E r \in S : q = Shifted(r, way)
           /\ \A r \in S : Shifted(r, way) \in Moved(S, way)
<1>1. Moved(S, way) = {Shifted(r, way) : r \in S}
  BY DEF Moved, Shifted
<1>2. IsFiniteSet({Shifted(r, way) : r \in S})
  <2> DEFINE f == [r \in S |-> Shifted(r, way)]
  <2>1. {f[r] : r \in S} = {Shifted(r, way) : r \in S}
    OBVIOUS
  <2> HIDE DEF f
  <2> QED BY <2>1, FiniteImage
<1> QED BY <1>1, <1>2, ShiftedFields

(* The three things a limiter does. *)
LEMMA ReserveFacts ==
    ASSUME SponsorTyped, NEW r \in AskType
    PROVE  /\ Reserve(r) \in [Route -> SUBSET EntryType]
           /\ \A route \in Route :
                 /\ IsFiniteSet(Reserve(r)[route])
                 /\ route # r.route => Reserve(r)[route] = books[route]
           /\ Reserve(r)[r.route] = Booked(r.route, Day) \cup {Entry(r.id, r.wallet, now, r.booked)}
           /\ Entry(r.id, r.wallet, now, r.booked) \in EntryType
<1>1. r.route \in Route /\ books \in [Route -> SUBSET EntryType]
  BY DEF SponsorTyped, AskType
<1>2. Entry(r.id, r.wallet, now, r.booked) \in EntryType
  BY DEF SponsorTyped, AskType, EntryType, Entry
<1>3. Booked(r.route, Day) \in SUBSET EntryType /\ IsFiniteSet(Booked(r.route, Day))
  <2>1. Booked(r.route, Day) \in SUBSET books[r.route]
    BY DEF Booked
  <2> QED BY <1>1, <2>1, FS_Subset DEF SponsorTyped
<1> DEFINE next == Booked(r.route, Day) \cup {Entry(r.id, r.wallet, now, r.booked)}
<1>4. next \in SUBSET EntryType /\ IsFiniteSet(next)
  BY <1>2, <1>3, FS_AddElement
<1> HIDE DEF next
<1>5. Reserve(r) = [books EXCEPT ![r.route] = next]
  BY DEF Reserve, next
<1> QED BY <1>1, <1>2, <1>4, <1>5 DEF next, SponsorTyped

LEMMA CancelFacts ==
    ASSUME SponsorTyped, NEW r \in AskType
    PROVE  /\ Cancel(r) \in [Route -> SUBSET EntryType]
           /\ \A route \in Route :
                 /\ IsFiniteSet(Cancel(r)[route])
                 /\ Cancel(r)[route] \subseteq books[route]
                 /\ \A e \in books[route] : e.id # r.id => e \in Cancel(r)[route]
<1>1. r.route \in Route /\ books \in [Route -> SUBSET EntryType]
  BY DEF SponsorTyped, AskType
<1> DEFINE next == {e \in books[r.route] : e.id # r.id}
<1>2. next \in SUBSET books[r.route] /\ IsFiniteSet(next)
  BY <1>1, FS_Subset DEF SponsorTyped
<1>3. Cancel(r) = [books EXCEPT ![r.route] = next]
  BY DEF Cancel
<1>4. \A e \in books[r.route] : e.id # r.id => e \in next
  OBVIOUS
<1> HIDE DEF next
<1> QED BY <1>1, <1>2, <1>3, <1>4 DEF SponsorTyped

Rewritten(e, r) == IF e.id = r.id THEN [e EXCEPT !.lamports = r.booked] ELSE e
LEMMA CommitFacts ==
    ASSUME SponsorTyped, NEW r \in AskType
    PROVE  /\ Commit(r) \in [Route -> SUBSET EntryType]
           /\ \A route \in Route :
                 /\ IsFiniteSet(Commit(r)[route])
                 /\ route # r.route => Commit(r)[route] = books[route]
           /\ Commit(r)[r.route] = {Rewritten(e, r) : e \in books[r.route]}
           /\ \A e \in EntryType :
                 LET d == Rewritten(e, r) IN
                 /\ d \in EntryType
                 /\ d.id = e.id /\ d.wallet = e.wallet /\ d.at = e.at
                 /\ d.lamports = IF e.id = r.id THEN r.booked ELSE e.lamports
<1>1. r.route \in Route /\ books \in [Route -> SUBSET EntryType] /\ r.booked \in Nat
  BY DEF SponsorTyped, AskType
<1>2. \A e \in EntryType :
          LET d == Rewritten(e, r) IN
          /\ d \in EntryType
          /\ d.id = e.id /\ d.wallet = e.wallet /\ d.at = e.at
          /\ d.lamports = IF e.id = r.id THEN r.booked ELSE e.lamports
  BY <1>1 DEF Rewritten, EntryType
<1> DEFINE next == {Rewritten(e, r) : e \in books[r.route]}
<1>3. next \in SUBSET EntryType
  BY <1>1, <1>2
<1>4. IsFiniteSet(next)
  <2> DEFINE f == [e \in books[r.route] |-> Rewritten(e, r)]
  <2>1. {f[e] : e \in books[r.route]} = next /\ IsFiniteSet(books[r.route])
    BY <1>1 DEF SponsorTyped
  <2> HIDE DEF f, next
  <2> QED BY <2>1, FiniteImage
<1>5. Commit(r) = [books EXCEPT ![r.route] = next]
  BY DEF Commit, Rewritten
<1> HIDE DEF next
<1> QED BY <1>1, <1>2, <1>3, <1>4, <1>5 DEF SponsorTyped, next

-----------------------------------------------------------------------------
(***************************************************************************)
(* What a step does to the caps, and to the entries that requests have.    *)
(***************************************************************************)
LEMMA BookedTyped ==
    ASSUME SponsorTyped, NEW route \in Route, NEW X \in SUBSET Wallet
    PROVE  /\ Booked(route, Day) \in SUBSET EntryType /\ IsFiniteSet(Booked(route, Day))
           /\ BookedOf(route, X) \in SUBSET EntryType /\ IsFiniteSet(BookedOf(route, X))
           /\ Lamports(BookedOf(route, X)) \in Nat
           /\ Booked(route, Day) = BookedOf(route, Wallet)
           /\ \A w \in Wallet : OfWallet(Booked(route, Day), w) = BookedOf(route, {w})
<1>1. Booked(route, Day) \in SUBSET books[route] /\ books[route] \in SUBSET EntryType
  BY DEF Booked, SponsorTyped
<1>2. IsFiniteSet(Booked(route, Day))
  BY <1>1, FS_Subset DEF SponsorTyped
<1>3. BookedOf(route, X) \in SUBSET Booked(route, Day)
  BY DEF BookedOf
<1>4. IsFiniteSet(BookedOf(route, X)) /\ BookedOf(route, X) \in SUBSET EntryType
  BY <1>1, <1>2, <1>3, FS_Subset
<1>5. Booked(route, Day) = BookedOf(route, Wallet)
  BY <1>1 DEF BookedOf, EntryType
<1>6. \A w \in Wallet : OfWallet(Booked(route, Day), w) = BookedOf(route, {w})
  BY DEF OfWallet, BookedOf
<1> QED BY <1>1, <1>2, <1>4, <1>5, <1>6, LamportsType

LEMMA CapTypes ==
    \A route \in Route :
        Caps[route].global \in Nat /\ Caps[route].wallet \in Nat
  BY SponsorAssumption

(* Fewer or smaller entries stay within the caps. *)
LEMMA CapsKept ==
    ASSUME SponsorTyped, SponsorTyped', WithinCaps,
           \A route \in Route : \E m :
               /\ \A e \in Booked(route, Day)' :
                     m[e] \in Booked(route, Day) /\ m[e].wallet = e.wallet /\ e.lamports <= m[e].lamports
               /\ \A e, d \in Booked(route, Day)' : m[e] = m[d] => e = d
    PROVE  WithinCaps'
<1>1. ASSUME NEW route \in Route, NEW X \in SUBSET Wallet
      PROVE  /\ Lamports(BookedOf(route, X)') <= Lamports(BookedOf(route, X))
             /\ Lamports(BookedOf(route, X)') \in Nat /\ Lamports(BookedOf(route, X)) \in Nat
  <2> DEFINE S == BookedOf(route, X)'
             T == BookedOf(route, X)
  <2>1. PICK m : /\ \A e \in Booked(route, Day)' :
                       /\ m[e] \in Booked(route, Day) /\ m[e].wallet = e.wallet
                       /\ e.lamports <= m[e].lamports
                 /\ \A e, d \in Booked(route, Day)' : m[e] = m[d] => e = d
    OBVIOUS
  <2>2. T \in SUBSET EntryType /\ IsFiniteSet(T) /\ Lamports(T) \in Nat
    BY BookedTyped
  <2>3. S \in SUBSET books'[route] /\ books'[route] \in SUBSET EntryType /\ IsFiniteSet(books'[route])
    BY DEF BookedOf, Booked, SponsorTyped
  <2>4. S \in SUBSET EntryType /\ IsFiniteSet(S)
    BY <2>3, FS_Subset
  <2>5. \A e \in S : m[e] \in T /\ e.lamports <= m[e].lamports
    BY <2>1 DEF BookedOf
  <2>6. \A e, d \in S : m[e] = m[d] => e = d
    BY <2>1 DEF BookedOf
  <2> HIDE DEF S, T
  <2>7. Lamports(S) <= Lamports(T)
    BY <2>2, <2>4, <2>5, <2>6, LamportsAtMost
  <2>8. Lamports(S) \in Nat
    BY <2>4, LamportsType
  <2> QED BY <2>2, <2>7, <2>8 DEF S, T
<1>2. ASSUME NEW route \in Route, NEW X \in SUBSET Wallet
      PROVE  Lamports(BookedOf(route, X))' = Lamports(BookedOf(route, X)')
  BY DEF Lamports, MapThenSumSet, MapThenFoldSet
<1> QED BY <1>1, <1>2, CapTypes DEF WithinCaps

LEMMA FewerBookedAsks ==
    ASSUME SponsorTyped, SponsorTyped', WithinCaps,
           \A route \in Route : Booked(route, Day)' \subseteq Booked(route, Day)
    PROVE  WithinCaps'
<1>1. ASSUME NEW route \in Route
      PROVE  \E m : /\ \A e \in Booked(route, Day)' :
                          /\ m[e] \in Booked(route, Day) /\ m[e].wallet = e.wallet
                          /\ e.lamports <= m[e].lamports
                    /\ \A e, d \in Booked(route, Day)' : m[e] = m[d] => e = d
  <2> DEFINE m == [e \in Booked(route, Day) |-> e]
  <2>1. \A e \in Booked(route, Day) : e.lamports \in Nat
    BY BookedTyped DEF EntryType
  <2>2. /\ \A e \in Booked(route, Day)' :
             m[e] \in Booked(route, Day) /\ m[e].wallet = e.wallet /\ e.lamports <= m[e].lamports
        /\ \A e, d \in Booked(route, Day)' : m[e] = m[d] => e = d
    BY <2>1
  <2> HIDE DEF m
  <2> QED BY <2>2
<1> QED BY <1>1, CapsKept

(* A request is booked within the caps, or not at all. *)
LEMMA CapsReserve ==
    ASSUME SponsorTyped, SponsorTyped', WithinCaps, NEW r \in AskType,
           Within(r.route, r.wallet, r.booked), books' = Reserve(r), now' = now
    PROVE  WithinCaps'
<1> DEFINE e == Entry(r.id, r.wallet, now, r.booked)
<1>1. /\ r.route \in Route /\ r.wallet \in Wallet /\ r.booked \in Nat /\ e \in EntryType
      /\ e.wallet = r.wallet /\ e.lamports = r.booked
  BY ReserveFacts DEF AskType, Entry
<1>2. ASSUME NEW route \in Route, NEW X \in SUBSET Wallet
      PROVE  BookedOf(route, X)' = IF route = r.route /\ r.wallet \in X
                                   THEN BookedOf(route, X) \cup {e} ELSE BookedOf(route, X)
  <2>1. now - e.at <= Day /\ \A d \in Booked(route, Day) : now - d.at <= Day
    BY LimitAssumption DEF Booked, Entry, SponsorTyped
  <2>2. Booked(route, Day)' = IF route = r.route THEN Booked(route, Day) \cup {e}
                                                 ELSE Booked(route, Day)
    BY <2>1, ReserveFacts DEF Booked
  <2> HIDE DEF e
  <2> QED BY <1>1, <2>2 DEF BookedOf
<1> HIDE DEF e
<1>3. ASSUME NEW route \in Route, NEW X \in SUBSET Wallet
      PROVE  /\ Lamports(BookedOf(route, X))' = Lamports(BookedOf(route, X)')
             /\ Lamports(BookedOf(route, X)) \in Nat
             /\ \/ Lamports(BookedOf(route, X)') = Lamports(BookedOf(route, X))
                \/ /\ route = r.route /\ r.wallet \in X
                   /\ Lamports(BookedOf(route, X)') = Lamports(BookedOf(route, X)) + r.booked
  <2>1. Lamports(BookedOf(route, X))' = Lamports(BookedOf(route, X)')
    BY DEF Lamports, MapThenSumSet, MapThenFoldSet
  <2>2. /\ BookedOf(route, X) \in SUBSET EntryType /\ IsFiniteSet(BookedOf(route, X))
        /\ Lamports(BookedOf(route, X)) \in Nat
    BY BookedTyped
  <2>3. CASE e \in BookedOf(route, X) \/ ~(route = r.route /\ r.wallet \in X)
    <3>1. BookedOf(route, X)' = BookedOf(route, X)
      BY <1>2, <2>3
    <3> QED BY <2>1, <2>2, <3>1
  <2>4. CASE e \notin BookedOf(route, X) /\ route = r.route /\ r.wallet \in X
    <3>1. BookedOf(route, X)' = BookedOf(route, X) \cup {e}
      BY <1>2, <2>4
    <3>2. Lamports(BookedOf(route, X) \cup {e}) = e.lamports + Lamports(BookedOf(route, X))
      BY <1>1, <2>2, <2>4, LamportsAdd
    <3> QED BY <1>1, <2>1, <2>2, <2>4, <3>1, <3>2
  <2> QED BY <2>3, <2>4
<1>4. /\ Lamports(BookedOf(r.route, Wallet)) + r.booked <= Caps[r.route].global
      /\ Lamports(BookedOf(r.route, {r.wallet})) + r.booked <= Caps[r.route].wallet
  BY <1>1, BookedTyped DEF Within
<1>5. ASSUME NEW route \in Route
      PROVE  Lamports(BookedOf(route, Wallet))' <= Caps[route].global
  BY <1>3, <1>4 DEF WithinCaps
<1>6. ASSUME NEW route \in Route, NEW w \in Wallet
      PROVE  Lamports(BookedOf(route, {w}))' <= Caps[route].wallet
  <2>1. {w} \in SUBSET Wallet
    OBVIOUS
  <2>2. r.wallet \in {w} => r.wallet = w
    OBVIOUS
  <2> QED BY <1>3, <1>4, <2>1, <2>2 DEF WithinCaps
<1> QED BY <1>5, <1>6 DEF WithinCaps

(* What was booked is rewritten to no more. *)
LEMMA CapsCommit ==
    ASSUME SponsorTyped, SponsorTyped', WithinCaps, NEW r \in AskType,
           \A e \in books[r.route] : e.id = r.id => r.booked <= e.lamports,
           books' = Commit(r), now' = now
    PROVE  WithinCaps'
<1>1. ASSUME NEW route \in Route
      PROVE  \E m : /\ \A e \in Booked(route, Day)' :
                          /\ m[e] \in Booked(route, Day) /\ m[e].wallet = e.wallet
                          /\ e.lamports <= m[e].lamports
                    /\ \A e, d \in Booked(route, Day)' : m[e] = m[d] => e = d
  <2>1. books[route] \in SUBSET EntryType /\ \A e \in EntryType : e.lamports \in Nat
    BY DEF SponsorTyped, EntryType
  <2>2. CASE route # r.route
    <3> DEFINE m == [e \in books[route] |-> e]
    <3>1. Booked(route, Day)' = Booked(route, Day)
      BY <2>2, CommitFacts DEF Booked
    <3>2. /\ \A e \in Booked(route, Day)' :
               m[e] \in Booked(route, Day) /\ m[e].wallet = e.wallet /\ e.lamports <= m[e].lamports
          /\ \A e, d \in Booked(route, Day)' : m[e] = m[d] => e = d
      BY <2>1, <3>1 DEF Booked
    <3> HIDE DEF m
    <3> QED BY <3>2
  <2>3. CASE route = r.route
    <3> DEFINE S == Booked(route, Day)'
               m == [e \in S |-> CHOOSE d \in books[route] : e = Rewritten(d, r)]
    <3>1. ASSUME NEW e \in S
          PROVE  m[e] \in books[route] /\ e = Rewritten(m[e], r) /\ now - e.at <= Day
      <4>1. e \in {Rewritten(d, r) : d \in books[route]} /\ now - e.at <= Day
        BY <2>3, CommitFacts DEF Booked
      <4> QED BY <4>1
    <3> HIDE DEF m
    <3>2. ASSUME NEW e \in S
          PROVE  m[e] \in Booked(route, Day) /\ m[e].wallet = e.wallet /\ e.lamports <= m[e].lamports
      <4>1. m[e] \in EntryType
        BY <2>1, <3>1
      <4>2. /\ e.wallet = m[e].wallet /\ e.at = m[e].at
            /\ e.lamports = IF m[e].id = r.id THEN r.booked ELSE m[e].lamports
        BY <3>1, <4>1, CommitFacts
      <4> QED BY <2>1, <2>3, <3>1, <4>1, <4>2 DEF Booked
    <3>3. \A e, d \in S : m[e] = m[d] => e = d
      BY <3>1
    <3> QED BY <3>2, <3>3
  <2> QED BY <2>2, <2>3
<1> QED BY <1>1, CapsKept

(* A step that touches the entries of one request, and requests that keep   *)
(* what they are booked with. *)
LEMMA AccountedStep ==
    ASSUME SponsorTyped, Told, Accounted, NEW n,
           lastAsk' \in Nat, lastAsk <= lastAsk',
           \A route \in Route :
               /\ \A e \in books'[route] : e.id \in Nat /\ e.id <= lastAsk'
               /\ \A e \in books'[route] : e.id = n \/ e \in books[route]
               /\ \A e \in Booked(route, Day) :
                     e.id # n /\ now' - e.at <= Day => e \in books'[route],
           \A q \in asks' \cup kept' : q.id = n \/
               \E p \in asks \cup kept :
                   /\ p.id = q.id /\ p.route = q.route /\ p.wallet = q.wallet /\ p.at = q.at
                   /\ p.booked = q.booked /\ p.route \in Route
                   /\ q \in asks' => p \in asks
                   /\ OnBooks(q)' => OnBooks(p) /\ now' - q.at <= Day,
           \A q \in asks' : q.id = n =>
               \A e \in books'[q.route] : e.id = n => q.booked <= e.lamports,
           \A q \in asks' \cup kept' : q.id = n /\ OnBooks(q)' =>
               \E e \in books'[q.route] : StandsFor(e, q) /\ now' - e.at <= Day
    PROVE  Accounted'
<1>1. \A route \in Route : \A e \in books'[route] : e.id <= lastAsk'
  OBVIOUS
<1>2. ASSUME NEW q \in asks', NEW e \in books'[q.route], e.id = q.id PROVE q.booked <= e.lamports
  <2>1. CASE q.id = n
    BY <1>2, <2>1
  <2>2. CASE q.id # n
    <3>1. PICK p \in asks : p.id = q.id /\ p.route = q.route /\ p.booked = q.booked /\ p.route \in Route
      BY <2>2
    <3>2. e \in books[p.route]
      BY <1>2, <2>2, <3>1
    <3> QED BY <1>2, <3>1, <3>2 DEF Accounted
  <2> QED BY <2>1, <2>2
<1>3. ASSUME NEW q \in (asks \cup kept)', OnBooks(q)'
      PROVE  \E e \in Booked(q.route, Day)' : StandsFor(e, q)
  <2>1. CASE q.id = n
    BY <1>3, <2>1 DEF Booked
  <2>2. CASE q.id # n
    <3>1. PICK p \in asks \cup kept :
              /\ p.id = q.id /\ p.route = q.route /\ p.wallet = q.wallet /\ p.at = q.at
              /\ p.booked = q.booked /\ p.route \in Route /\ OnBooks(p) /\ now' - q.at <= Day
      BY <1>3, <2>2
    <3>2. PICK e \in Booked(p.route, Day) : StandsFor(e, p)
      BY <3>1 DEF Accounted
    <3>3. e \in books'[q.route] /\ now' - e.at <= Day
      BY <2>2, <3>1, <3>2 DEF StandsFor, SponsorTyped, AskType
    <3> QED BY <3>1, <3>2, <3>3 DEF StandsFor, Booked
  <2> QED BY <2>1, <2>2
<1>4. \A q \in (asks \cup kept)' : OnBooks(q)' => \E e \in Booked(q.route, Day)' : StandsFor(e, q)'
  BY <1>3 DEF StandsFor
<1> QED BY <1>1, <1>2, <1>4 DEF Accounted

(* A request that goes on, or is answered, as s. *)
Onward(r, s) == s.id = r.id /\ s.route = r.route /\ s.wallet = r.wallet /\ s.life = r.life
LEMMA ToldOnward ==
    ASSUME Told, NEW r \in asks, NEW s, Onward(r, s),
           lastAsk' = lastAsk, restarts' = restarts,
           \/ /\ asks' = (asks \ {r}) \cup {s} /\ kept' = kept /\ s.pc \in Asking
              /\ s.pc \in {"balance", "running"} <=> r.pc \in {"balance", "running"}
           \/ asks' = asks \ {r} /\ kept' = kept
           \/ asks' = asks \ {r} /\ kept' = kept \cup {s} /\ s.pc \in Kept
    PROVE  Told'
<1>1. \A q \in asks' \cup kept' : q = s \/ (q \in asks \cup kept /\ q # r)
  <2>1. r \notin kept
    BY DEF Told, Asking, Kept
  <2> QED BY <2>1
<1>2. \A q \in asks' \cup kept' : q.id <= lastAsk /\ q.life <= restarts
  BY <1>1 DEF Told, Onward
<1>3. \A p, q \in asks' \cup kept' : p.id = q.id => p = q
  BY <1>1 DEF Told, Onward
<1>4. \A q \in asks' : /\ q.life = restarts /\ q.pc \in Asking
                       /\ q.pc \in {"balance", "running"} <=> q.route = "dust"
  BY DEF Told, Onward
<1>5. \A q \in kept' : q.pc \in Kept
  BY DEF Told
<1> QED BY <1>2, <1>3, <1>4, <1>5 DEF Told

-----------------------------------------------------------------------------
(***************************************************************************)
(* The steps.                                                              *)
(***************************************************************************)
LEMMA AskRoutes ==
    ASSUME SponsorTyped, NEW q \in asks \cup kept
    PROVE  /\ q \in AskType /\ q.route \in Route /\ q.id \in Nat /\ q.at \in Nat /\ q.life \in Nat
           /\ q.booked \in Nat /\ q.fee \in Nat /\ q.takes \in Nat
           /\ q.first \in Int /\ q.post \in Int /\ Cost(q) \in Nat
  BY DEF SponsorTyped, AskType, Cost

(* Any other request while now, the process and the balance stay. *)
LEMMA OthersMeasured ==
    ASSUME AllMeasured, purse' = purse, NEW q \in asks \cup kept
    PROVE  Measured(q)'
  BY DEF AllMeasured, Measured, Cost

LEMMA NewAsk ==
    ASSUME SponsorInv, NEW r \in AskType, r.id = lastAsk + 1, r.life = restarts, r.pc \in Asking,
           r.pc \in {"balance", "running"} <=> r.route = "dust",
           asks' = asks \cup {r}, lastAsk' = lastAsk + 1,
           restarts' = restarts, kept' = kept
    PROVE  /\ Told' /\ asks' \subseteq AskType /\ IsFiniteSet(asks') /\ lastAsk' \in Nat
           /\ \A q \in asks \cup kept : q.id # r.id
<1>1. \A q \in asks \cup kept : q.id \in Nat /\ q.id <= lastAsk /\ lastAsk \in Nat
  BY AskRoutes DEF SponsorInv, Told, SponsorTyped
<1>2. \A q \in asks' \cup kept' : q.id <= lastAsk' /\ q.life <= restarts'
  BY <1>1 DEF SponsorInv, SponsorTyped, Told
<1>3. \A p, q \in asks' \cup kept' : p.id = q.id => p = q
  BY <1>1 DEF SponsorInv, Told
<1>4. /\ \A q \in asks' : /\ q.life = restarts' /\ q.pc \in Asking
                          /\ q.pc \in {"balance", "running"} <=> q.route = "dust"
      /\ \A q \in kept' : q.pc \in Kept
  BY DEF SponsorInv, Told
<1>5. asks' \subseteq AskType /\ IsFiniteSet(asks') /\ lastAsk' \in Nat
  BY FS_AddElement DEF SponsorInv, SponsorTyped
<1> QED BY <1>1, <1>2, <1>3, <1>4, <1>5 DEF Told

LEMMA BookingStep ==
    ASSUME SponsorInv, NEW r \in AskType, r.id = lastAsk + 1, r.life = restarts, r.at = now,
           \/ r.pc = "simulating" /\ r.takes + r.fee <= r.booked
           \/ r.pc = "before" /\ r.booked = Policy.rent + r.fee,
           r.route # "dust", Within(r.route, r.wallet, r.booked),
           asks' = asks \cup {r}, lastAsk' = lastAsk + 1, books' = Reserve(r),
           now' = now, purse' = purse, restarts' = restarts, kept' = kept
    PROVE  SponsorInv'
<1>1. r.pc \in Asking /\ r.pc \notin {"balance", "running"}
  BY DEF Asking
<1>2. /\ Told' /\ asks' \subseteq AskType /\ IsFiniteSet(asks') /\ lastAsk' \in Nat
      /\ \A q \in asks \cup kept : q.id # r.id
  BY <1>1, NewAsk
<1>3. SponsorTyped'
  BY <1>2, ReserveFacts DEF SponsorInv, SponsorTyped
<1>4. WithinCaps'
  BY <1>3, CapsReserve DEF SponsorInv
<1>5. Measured(r)'
  BY DEF Measured, Cost
<1>6. AllMeasured'
  BY <1>5, OthersMeasured DEF SponsorInv, AllMeasured
<1>7. Accounted'
  <2> DEFINE d == Entry(r.id, r.wallet, now, r.booked)
  <2>1. /\ d.id = r.id /\ d.at = r.at /\ d.wallet = r.wallet /\ d.lamports = r.booked
        /\ d \in EntryType /\ r.route \in Route /\ r.booked \in Nat /\ lastAsk \in Nat /\ now \in Nat
        /\ \A route \in Route : books[route] \subseteq EntryType
    BY ReserveFacts DEF Entry, AskType, SponsorInv, SponsorTyped
  <2>2. /\ \A route \in Route : route # r.route => books'[route] = books[route]
        /\ books'[r.route] = Booked(r.route, Day) \cup {d}
    <3>1. SponsorTyped
      BY DEF SponsorInv
    <3> QED BY <3>1, ReserveFacts
  <2> HIDE DEF d
  <2>3. ASSUME NEW route \in Route
        PROVE  /\ \A e \in books'[route] : e.id \in Nat /\ e.id <= lastAsk'
               /\ \A e \in books'[route] : e.id = r.id \/ e \in books[route]
               /\ \A e \in Booked(route, Day) :
                     e.id # r.id /\ now' - e.at <= Day => e \in books'[route]
    <3>1. \A e \in books[route] : e.id \in Nat /\ e.id <= lastAsk
      BY <2>1 DEF SponsorInv, Accounted, EntryType
    <3>2. \A e \in books'[route] : e = d \/ e \in books[route]
      BY <2>2 DEF Booked
    <3>3. Booked(route, Day) \subseteq books'[route]
      BY <2>2 DEF Booked
    <3> QED BY <2>1, <3>1, <3>2, <3>3
  <2>4. \A q \in asks' \cup kept' : q.id = r.id \/
            \E p \in asks \cup kept :
                /\ p.id = q.id /\ p.route = q.route /\ p.wallet = q.wallet /\ p.at = q.at
                /\ p.booked = q.booked /\ p.route \in Route
                /\ q \in asks' => p \in asks
                /\ OnBooks(q)' => OnBooks(p) /\ now' - q.at <= Day
    <3> SUFFICES ASSUME NEW q \in asks' \cup kept', q.id # r.id
                 PROVE  /\ q \in asks \cup kept /\ q.route \in Route /\ (q \in asks' => q \in asks)
                        /\ (OnBooks(q)' => OnBooks(q) /\ now' - q.at <= Day)
      OBVIOUS
    <3>1. q \in asks \cup kept /\ (q \in asks' => q \in asks)
      OBVIOUS
    <3> QED BY <3>1, AskRoutes DEF OnBooks, SponsorInv
  <2>5. \A q \in asks' \cup kept' : q.id = r.id => q = r
    BY <1>2
  <2>6. \A e \in books'[r.route] : e.id = r.id => e = d
    <3>1. \A e \in books[r.route] : e.id \in Nat /\ e.id <= lastAsk
      BY <2>1 DEF SponsorInv, Accounted, EntryType
    <3> QED BY <2>1, <2>2, <3>1 DEF Booked
  <2>7. \A q \in asks' : q.id = r.id => \A e \in books'[q.route] : e.id = r.id => q.booked <= e.lamports
    BY <2>1, <2>5, <2>6
  <2>8. \A q \in asks' \cup kept' : q.id = r.id /\ OnBooks(q)' =>
            \E e \in books'[q.route] : StandsFor(e, q) /\ now' - e.at <= Day
    <3>1. d \in books'[r.route] /\ StandsFor(d, r) /\ now - d.at <= Day
      BY <2>1, <2>2, LimitAssumption DEF StandsFor
    <3> QED BY <2>5, <3>1
  <2>9. lastAsk' \in Nat /\ lastAsk <= lastAsk'
    BY <2>1
  <2> QED BY <2>3, <2>4, <2>7, <2>8, <2>9, AccountedStep DEF SponsorInv
<1> QED BY <1>2, <1>3, <1>4, <1>6, <1>7 DEF SponsorInv

LEMMA BookEntries ==
    ASSUME SponsorInv, NEW route \in Route, NEW e \in books[route]
    PROVE  e \in EntryType /\ e.id \in Nat /\ e.id <= lastAsk /\ lastAsk \in Nat
  BY DEF SponsorInv, SponsorTyped, Accounted, EntryType

(* A request that goes on or is answered, with the entry it has: kept, given*)
(* back when it comes to nothing, or rewritten when it is sent.             *)
LEMMA OnwardStep ==
    ASSUME SponsorInv, NEW r \in asks, NEW s \in AskType, Onward(r, s), s.at = r.at,
           lastAsk' = lastAsk, restarts' = restarts, now' = now, purse' = purse,
           \/ /\ asks' = (asks \ {r}) \cup {s} /\ kept' = kept /\ s.pc \in Asking
              /\ s.pc \in {"balance", "running"} <=> r.pc \in {"balance", "running"}
           \/ asks' = asks \ {r} /\ kept' = kept
           \/ asks' = asks \ {r} /\ kept' = kept \cup {s} /\ s.pc \in Kept,
           \/ books' = books /\ s.booked <= r.booked /\ (r.pc = "balance" => s.pc = "failed")
           \/ books' = Cancel(r) /\ s.pc = "failed"
           \/ books' = Commit(r) /\ s.booked = r.booked /\ s.pc = "sent" /\ r.pc # "balance",
           Measured(s)'
    PROVE  SponsorInv'
<1>1. Told'
  BY ToldOnward DEF SponsorInv
<1>2. /\ r \in AskType /\ r.route \in Route /\ r.id \in Nat /\ s.booked \in Nat /\ r.booked \in Nat
      /\ \A q \in asks' \cup kept' : q = s \/ (q \in asks \cup kept /\ q # r)
      /\ \A q \in asks' : q # s => q \in asks
      /\ s.pc = "failed" => s \notin asks'
      /\ SponsorTyped
  <2>1. r \notin kept /\ \A q \in asks : q.pc # "failed"
    BY DEF SponsorInv, Told, Asking, Kept
  <2>2. "failed" \notin Asking
    BY DEF Asking
  <2> QED BY <2>1, <2>2, AskRoutes DEF SponsorInv, AskType
<1>3. SponsorTyped'
  <2>1. /\ asks' \subseteq AskType /\ IsFiniteSet(asks')
        /\ kept' \subseteq AskType /\ IsFiniteSet(kept')
    <3>1. /\ asks \subseteq AskType /\ IsFiniteSet(asks) /\ kept \subseteq AskType /\ IsFiniteSet(kept)
          /\ asks' = (asks \ {r}) \cup {s} \/ asks' = asks \ {r}
          /\ kept' = kept \/ kept' = kept \cup {s}
      BY <1>2 DEF SponsorTyped
    <3>2. IsFiniteSet(asks \ {r}) /\ IsFiniteSet(kept \cup {s})
      BY <3>1, FS_AddElement, FS_RemoveElement
    <3>3. IsFiniteSet((asks \ {r}) \cup {s})
      BY <3>2, FS_AddElement
    <3> QED BY <3>1, <3>2, <3>3
  <2>2. books' \in [Route -> SUBSET EntryType] /\ \A route \in Route : IsFiniteSet(books'[route])
    BY <1>2, CancelFacts, CommitFacts DEF SponsorTyped
  <2> QED BY <1>2, <2>1, <2>2 DEF SponsorTyped
<1>4. WithinCaps'
  <2>1. CASE books' = Commit(r)
    BY <1>2, <1>3, <2>1, CapsCommit DEF SponsorInv, Accounted
  <2>2. CASE books' = books \/ books' = Cancel(r)
    <3>1. \A route \in Route : Booked(route, Day)' \subseteq Booked(route, Day)
      BY <1>2, <2>2, CancelFacts DEF Booked
    <3> QED BY <1>3, <3>1, FewerBookedAsks DEF SponsorInv
  <2> QED BY <2>1, <2>2
<1>5. AllMeasured'
  BY <1>2, OthersMeasured DEF SponsorInv, AllMeasured
<1>6. \A q \in asks \cup kept : q # r => q.id # r.id
  BY DEF SponsorInv, Told
<1>7. Accounted'
  <2>1. ASSUME NEW route \in Route
        PROVE  /\ \A e \in books'[route] : e.id \in Nat /\ e.id <= lastAsk'
               /\ \A e \in books'[route] : e.id = r.id \/ e \in books[route]
               /\ \A e \in Booked(route, Day) :
                     e.id # r.id /\ now' - e.at <= Day => e \in books'[route]
    <3>1. CASE books' = books \/ books' = Cancel(r)
      BY <1>2, <3>1, CancelFacts, BookEntries DEF Booked
    <3>2. CASE books' = Commit(r) /\ route # r.route
      BY <1>2, <3>2, CommitFacts, BookEntries DEF Booked
    <3>3. CASE books' = Commit(r) /\ route = r.route
      <4>1. books'[route] = {Rewritten(e, r) : e \in books[route]}
        BY <1>2, <3>3, CommitFacts
      <4>2. \A e \in books[route] : e.id # r.id => Rewritten(e, r) = e
        BY DEF Rewritten
      <4>3. \A e \in books[route] : Rewritten(e, r).id = e.id
        BY <1>2, CommitFacts, BookEntries
      <4> QED BY <1>2, <4>1, <4>2, <4>3, BookEntries DEF Booked
    <3> QED BY <3>1, <3>2, <3>3
  <2>2. \A q \in asks' \cup kept' : q.id = r.id \/
            \E p \in asks \cup kept :
                /\ p.id = q.id /\ p.route = q.route /\ p.wallet = q.wallet /\ p.at = q.at
                /\ p.booked = q.booked /\ p.route \in Route
                /\ q \in asks' => p \in asks
                /\ OnBooks(q)' => OnBooks(p) /\ now' - q.at <= Day
    <3> SUFFICES ASSUME NEW q \in asks' \cup kept', q.id # r.id
                 PROVE  /\ q \in asks \cup kept /\ q.route \in Route /\ (q \in asks' => q \in asks)
                        /\ (OnBooks(q)' => OnBooks(q) /\ now' - q.at <= Day)
      OBVIOUS
    <3>1. q \in asks \cup kept /\ (q \in asks' => q \in asks)
      BY <1>2 DEF Onward
    <3> QED BY <1>2, <3>1, AskRoutes DEF OnBooks
  <2>3. \A q \in asks' \cup kept' : q.id = r.id => q = s
    BY <1>2, <1>6
  <2>4. \A q \in asks' : q.id = r.id => \A e \in books'[q.route] : e.id = r.id => q.booked <= e.lamports
    <3> SUFFICES ASSUME s \in asks', NEW e \in books'[r.route], e.id = r.id PROVE s.booked <= e.lamports
      BY <2>3 DEF Onward
    <3>1. books' = books /\ s.booked <= r.booked
      <4>1. s.pc \in Asking
        BY <1>1 DEF Told
      <4> QED BY <1>2, <4>1 DEF Asking
    <3>2. r.booked <= e.lamports /\ e.lamports \in Nat
      BY <1>2, <3>1, BookEntries DEF SponsorInv, Accounted, EntryType
    <3> QED BY <1>2, <3>1, <3>2
  <2>5. \A q \in asks' \cup kept' : q.id = r.id /\ OnBooks(q)' =>
            \E e \in books'[q.route] : StandsFor(e, q) /\ now' - e.at <= Day
    <3> SUFFICES ASSUME OnBooks(s)' PROVE \E e \in books'[r.route] : StandsFor(e, s) /\ now - e.at <= Day
      BY <2>3 DEF Onward
    <3>1. OnBooks(r) /\ s.pc # "failed"
      BY DEF OnBooks, Onward, SponsorInv, Told, Asking
    <3>2. PICK e \in Booked(r.route, Day) : StandsFor(e, r)
      BY <3>1 DEF SponsorInv, Accounted
    <3>3. e \in books[r.route] /\ e \in EntryType /\ e.lamports \in Nat /\ now - e.at <= Day
      BY <1>2, <3>2, BookEntries DEF Booked, EntryType
    <3>4. CASE books' = books
      BY <1>2, <3>1, <3>2, <3>3, <3>4 DEF StandsFor, Onward
    <3>5. CASE books' = Commit(r) /\ s.booked = r.booked
      <4>1. Rewritten(e, r) \in books'[r.route]
        BY <1>2, <3>3, <3>5, CommitFacts
      <4>2. StandsFor(Rewritten(e, r), s) /\ Rewritten(e, r).at = e.at
        BY <1>2, <3>2, <3>3, <3>5, CommitFacts DEF StandsFor, Onward
      <4> QED BY <3>3, <4>1, <4>2
    <3> QED BY <3>1, <3>4, <3>5
  <2>6. lastAsk' \in Nat /\ lastAsk <= lastAsk'
    BY <1>2 DEF SponsorTyped
  <2> QED BY <1>2, <2>1, <2>2, <2>4, <2>5, <2>6, AccountedStep DEF SponsorInv
<1> QED BY <1>1, <1>3, <1>4, <1>5, <1>7 DEF SponsorInv

(* The balance moves, and whoever is between two reads of it notes which    *)
(* way; r may be a grant that is answered, or a transaction that lands.     *)
LEMMA MovedStep ==
    ASSUME SponsorInv, NEW way \in {"up", "down"}, NEW X \in SUBSET asks,
           asks' = Moved(X, way), purse' \in Nat,
           way = "up" => purse <= purse', way = "down" => purse' <= purse,
           books' = books, now' = now, lastAsk' = lastAsk, restarts' = restarts,
           NEW r, NEW s \in AskType, Onward(r, s), s.at = r.at, s.booked = r.booked,
           s.fee = r.fee, s.takes = r.takes, s.moved = r.moved,
           \/ kept' = kept
           \/ r \in asks \ X /\ r.pc = "running" /\ s.pc = "sent" /\ kept' = kept \cup {s}
           \/ r \in kept /\ s.pc = r.pc /\ kept' = (kept \ {r}) \cup {s}
    PROVE  SponsorInv'
<1>1. /\ SponsorTyped /\ X \in SUBSET AskType /\ IsFiniteSet(X)
      /\ \A q \in asks' : \E p \in X : q = Shifted(p, way)
  <2>1. X \in SUBSET AskType /\ IsFiniteSet(X)
    BY FS_Subset DEF SponsorInv, SponsorTyped
  <2> QED BY <2>1, MovedFacts DEF SponsorInv
<1>2. ASSUME NEW q \in kept'
      PROVE  \/ q \in kept /\ (kept' # kept => q # r \/ q = s)
             \/ q = s /\ r \in asks \cup kept /\ (r \in asks => r \notin X /\ r.pc = "running" /\ s.pc = "sent")
                      /\ (r \in kept => s.pc = r.pc)
  <2>1. asks \cap kept = {}
    BY DEF SponsorInv, Told, Asking, Kept
  <2> QED BY <2>1
<1>3. SponsorTyped'
  <2>1. asks' \subseteq AskType /\ IsFiniteSet(asks')
    BY <1>1, MovedFacts
  <2>2. kept' \subseteq AskType /\ IsFiniteSet(kept')
    <3>1. IsFiniteSet(kept \cup {s}) /\ IsFiniteSet(kept \ {r})
      BY <1>1, FS_AddElement, FS_RemoveElement DEF SponsorTyped
    <3>2. IsFiniteSet((kept \ {r}) \cup {s})
      BY <3>1, FS_AddElement
    <3> QED BY <1>1, <3>1, <3>2 DEF SponsorTyped
  <2> QED BY <1>1, <2>1, <2>2 DEF SponsorTyped
(* What a request was before the step. *)
<1>4. ASSUME NEW q \in asks'
      PROVE  \E p \in X : /\ q = Shifted(p, way) /\ p \in AskType
                          /\ q.id = p.id /\ q.route = p.route /\ q.wallet = p.wallet /\ q.at = p.at
                          /\ q.pc = p.pc /\ q.fee = p.fee /\ q.takes = p.takes /\ q.booked = p.booked
                          /\ q.first = p.first /\ q.post = p.post /\ q.life = p.life
                          /\ q.moved = IF p.pc \in Reading THEN p.moved \cup {way} ELSE p.moved
  <2>1. PICK p \in X : q = Shifted(p, way)
    BY <1>1
  <2>2. p \in AskType
    BY <1>1
  <2> DEFINE u == Shifted(p, way)
  <2>3. /\ u.id = p.id /\ u.route = p.route /\ u.wallet = p.wallet /\ u.at = p.at
        /\ u.pc = p.pc /\ u.fee = p.fee /\ u.takes = p.takes /\ u.booked = p.booked
        /\ u.first = p.first /\ u.post = p.post /\ u.life = p.life
        /\ u.moved = IF p.pc \in Reading THEN p.moved \cup {way} ELSE p.moved
    BY <2>2, ShiftedFields
  <2>4. q = u
    BY <2>1
  <2> HIDE DEF u
  <2> QED BY <2>1, <2>2, <2>3, <2>4
<1>5. Told'
  <2>1. \A q \in asks' \cup kept' : q.id <= lastAsk /\ q.life <= restarts
    <3>1. ASSUME NEW q \in asks' PROVE q.id <= lastAsk /\ q.life <= restarts
      <4>1. PICK p \in X : q.id = p.id /\ q.life = p.life
        BY <1>4
      <4> QED BY <4>1 DEF SponsorInv, Told
    <3>2. \A q \in kept' : q.id <= lastAsk /\ q.life <= restarts
      BY <1>2 DEF SponsorInv, Told, Onward
    <3> QED BY <3>1, <3>2
  <2>2. ASSUME NEW p \in asks' \cup kept', NEW q \in asks' \cup kept', p.id = q.id
        PROVE  p = q
    <3>1. CASE p \in asks' /\ q \in asks'
      <4>1. PICK u \in X : p = Shifted(u, way) /\ p.id = u.id
        BY <1>4, <3>1
      <4>2. PICK v \in X : q = Shifted(v, way) /\ q.id = v.id
        BY <1>4, <3>1
      <4>3. u = v
        BY <2>2, <4>1, <4>2 DEF SponsorInv, Told
      <4> QED BY <4>1, <4>2, <4>3
    <3>2. CASE p \in kept' /\ q \in kept'
      BY <1>2, <2>2, <3>2 DEF SponsorInv, Told, Onward
    <3>3. ASSUME NEW u \in asks', NEW v \in kept', u.id = v.id PROVE FALSE
      <4>1. PICK x \in X : u.id = x.id
        BY <1>4
      <4>2. x \notin kept
        BY DEF SponsorInv, Told, Asking, Kept
      <4> QED BY <1>2, <3>3, <4>1, <4>2 DEF SponsorInv, Told, Onward
    <3> QED BY <2>2, <3>1, <3>2, <3>3
  <2>3. ASSUME NEW q \in asks'
        PROVE  /\ q.life = restarts /\ q.pc \in Asking
               /\ q.pc \in {"balance", "running"} <=> q.route = "dust"
    <3>1. PICK p \in X : q.life = p.life /\ q.pc = p.pc /\ q.route = p.route
      BY <1>4
    <3> QED BY <3>1 DEF SponsorInv, Told
  <2>4. \A q \in kept' : q.pc \in Kept
    BY <1>2 DEF SponsorInv, Told, Kept
  <2> QED BY <2>1, <2>2, <2>3, <2>4 DEF Told
<1>6. AllMeasured'
  <2>1. ASSUME NEW q \in asks' PROVE Measured(q)'
    <3>1. PICK p \in X : /\ p \in AskType
                         /\ q.pc = p.pc /\ q.fee = p.fee /\ q.takes = p.takes /\ q.booked = p.booked
                         /\ q.first = p.first /\ q.post = p.post
                         /\ q.moved = IF p.pc \in Reading THEN p.moved \cup {way} ELSE p.moved
      BY <1>4
    <3>2. Measured(p) /\ p.first \in Int /\ p.post \in Int /\ p.takes \in Nat /\ purse \in Nat
      BY <1>1, <3>1, AskRoutes DEF SponsorInv, AllMeasured, SponsorTyped
    <3> QED BY <3>1, <3>2 DEF Measured, Cost, Reading
  <2>2. ASSUME NEW q \in kept' PROVE Measured(q)'
    <3>1. CASE q \in kept
      BY <3>1 DEF SponsorInv, AllMeasured, Measured, Told, Kept, Cost
    <3>2. CASE q \notin kept
      <4>1. q = s /\ r \in asks \cup kept /\ (s.pc = r.pc \/ (r.pc = "running" /\ s.pc = "sent"))
        BY <1>2, <3>2
      <4>2. s.pc \in Kept
        BY <1>5, <4>1 DEF Told
      <4>3. Measured(r)
        BY <4>1 DEF SponsorInv, AllMeasured
      <4> QED BY <4>1, <4>2, <4>3 DEF Measured, Cost, Kept
    <3> QED BY <3>1, <3>2
  <2> QED BY <2>1, <2>2 DEF AllMeasured
<1>7. WithinCaps'
  <2>1. \A route \in Route : Booked(route, Day)' \subseteq Booked(route, Day)
    BY DEF Booked
  <2> QED BY <1>1, <1>3, <2>1, FewerBookedAsks DEF SponsorInv
<1>8. Accounted'
  <2>1. ASSUME NEW q \in asks' \cup kept'
        PROVE  \E p \in asks \cup kept :
                   /\ p.id = q.id /\ p.route = q.route /\ p.wallet = q.wallet /\ p.at = q.at
                   /\ p.booked = q.booked /\ p.route \in Route
                   /\ q \in asks' => p \in asks
                   /\ OnBooks(q)' => OnBooks(p) /\ now' - q.at <= Day
    <3>1. CASE q \in asks'
      <4>1. PICK p \in X : /\ q.id = p.id /\ q.route = p.route /\ q.wallet = p.wallet /\ q.at = p.at
                           /\ q.pc = p.pc /\ q.booked = p.booked /\ q.life = p.life
        BY <1>4, <3>1
      <4> QED BY <1>1, <4>1, AskRoutes DEF OnBooks
    <3>2. CASE q \notin asks'
      <4>1. q \in kept' /\ (q \in kept \/ (q = s /\ r \in asks \cup kept
                                            /\ (s.pc = r.pc \/ r.pc = "running")))
        BY <1>2, <3>2
      <4> QED BY <1>1, <3>2, <4>1, AskRoutes DEF OnBooks, Onward
    <3> QED BY <3>1, <3>2
  <2>2. \A route \in Route :
            /\ \A e \in books'[route] : e.id \in Nat /\ e.id <= lastAsk'
            /\ \A e \in books'[route] : e.id = 0 \/ e \in books[route]
            /\ \A e \in Booked(route, Day) : e.id # 0 /\ now' - e.at <= Day => e \in books'[route]
    BY BookEntries DEF Booked
  <2>3. \A q \in asks' \cup kept' : q.id # 0
    BY <1>3 DEF SponsorTyped, AskType
  <2>4. lastAsk' \in Nat /\ lastAsk <= lastAsk'
    BY <1>1 DEF SponsorTyped
  <2> QED BY <1>1, <2>1, <2>2, <2>3, <2>4, AccountedStep DEF SponsorInv
<1> QED BY <1>3, <1>5, <1>6, <1>7, <1>8 DEF SponsorInv

(* A step that only lets time pass, or concerns none of these variables.    *)
LEMMA IdleStep ==
    ASSUME SponsorInv, now' \in Nat, now <= now',
           UNCHANGED <<books, asks, purse, lastAsk, restarts, kept>>
    PROVE  SponsorInv'
<1>1. SponsorTyped /\ SponsorTyped'
  BY DEF SponsorInv, SponsorTyped
<1>2. Told' /\ AllMeasured'
  BY OthersMeasured DEF SponsorInv, Told, AllMeasured
<1>3. \A route \in Route : \A e \in books[route] : e.at \in Nat
  BY BookEntries DEF EntryType
<1>4. now \in Nat
  BY <1>1 DEF SponsorTyped
<1>5. \A route \in Route : Booked(route, Day)' \subseteq Booked(route, Day)
  BY <1>3, <1>4, LimitAssumption DEF Booked
<1>6. WithinCaps'
  BY <1>1, <1>5, FewerBookedAsks DEF SponsorInv
<1>7. Accounted'
  <2>1. \A route \in Route :
            /\ \A e \in books'[route] : e.id \in Nat /\ e.id <= lastAsk'
            /\ \A e \in books'[route] : e.id = 0 \/ e \in books[route]
            /\ \A e \in Booked(route, Day) : e.id # 0 /\ now' - e.at <= Day => e \in books'[route]
    BY BookEntries DEF Booked
  <2>2. \A q \in asks' \cup kept' : q.id # 0
    BY <1>1 DEF SponsorTyped, AskType
  <2>3. ASSUME NEW q \in asks' \cup kept'
        PROVE  \E p \in asks \cup kept :
                   /\ p.id = q.id /\ p.route = q.route /\ p.wallet = q.wallet /\ p.at = q.at
                   /\ p.booked = q.booked /\ p.route \in Route
                   /\ q \in asks' => p \in asks
                   /\ OnBooks(q)' => OnBooks(p) /\ now' - q.at <= Day
    <3>1. q \in asks \cup kept /\ q.at \in Nat /\ q.route \in Route /\ (q \in asks' => q \in asks)
      BY <1>1, AskRoutes
    <3>2. OnBooks(q)' => OnBooks(q) /\ now' - q.at <= Day
      BY <1>4, <3>1, LimitAssumption DEF OnBooks
    <3> QED BY <3>1, <3>2
  <2>4. lastAsk' \in Nat /\ lastAsk <= lastAsk'
    BY <1>1 DEF SponsorTyped
  <2> QED BY <1>1, <2>1, <2>2, <2>3, <2>4, AccountedStep DEF SponsorInv
<1> QED BY <1>1, <1>2, <1>6, <1>7 DEF SponsorInv

(* A request for dust is marked, but not booked before it knows the balance.*)
LEMMA AskDustStep ==
    ASSUME SponsorInv, NEW w \in Wallet, AskDust(w)
    PROVE  SponsorInv'
<1> DEFINE offer == Offer(w, 0, Dust, Dust)
<1>0. PICK r : r = Ask("dust", "balance", offer)
  OBVIOUS
<1>1. /\ r \in AskType /\ r.id = lastAsk + 1 /\ r.life = restarts /\ r.pc = "balance"
      /\ r.route = "dust" /\ r.takes = Dust /\ r.fee = 0 /\ r.booked = Dust
  <2>1. "dust" \in Route /\ "balance" \in Asking /\ Dust \in Nat
    BY SponsorAssumption DEF Route, Asking
  <2>2. /\ offer.wallet = w /\ offer.fee = 0 /\ offer.takes = Dust /\ offer.booked = Dust
        /\ SponsorTyped
    BY DEF Offer, SponsorInv
  <2> HIDE DEF offer
  <2> QED BY <1>0, <2>1, <2>2, AskFields
<1>2. /\ asks' = asks \cup {r} /\ lastAsk' = lastAsk + 1 /\ now' = now
      /\ UNCHANGED <<books, purse, restarts, kept>>
  BY <1>0 DEF AskDust, Begin, vars
<1>3. /\ Told' /\ asks' \subseteq AskType /\ IsFiniteSet(asks') /\ lastAsk' \in Nat
      /\ \A q \in asks \cup kept : q.id # r.id
  BY <1>1, <1>2, NewAsk DEF Asking
<1>4. SponsorTyped /\ SponsorTyped'
  BY <1>2, <1>3 DEF SponsorInv, SponsorTyped
<1>5. Measured(r)'
  BY <1>1, SponsorAssumption DEF Measured, Cost
<1>6. AllMeasured'
  BY <1>2, <1>5, OthersMeasured DEF SponsorInv, AllMeasured
<1>7. WithinCaps'
  <2>1. \A route \in Route : Booked(route, Day)' \subseteq Booked(route, Day)
    BY <1>2 DEF Booked
  <2> QED BY <1>4, <2>1, FewerBookedAsks DEF SponsorInv
<1>8. Accounted'
  <2>1. lastAsk' \in Nat /\ lastAsk <= lastAsk'
    BY <1>2, <1>4 DEF SponsorTyped
  <2>2. \A route \in Route :
            /\ \A e \in books'[route] : e.id \in Nat /\ e.id <= lastAsk'
            /\ \A e \in books'[route] : e.id = r.id \/ e \in books[route]
            /\ \A e \in Booked(route, Day) : e.id # r.id /\ now' - e.at <= Day => e \in books'[route]
    BY <1>2, <2>1, BookEntries DEF Booked
  <2>3. ASSUME NEW q \in asks' \cup kept', q.id # r.id
        PROVE  \E p \in asks \cup kept :
                   /\ p.id = q.id /\ p.route = q.route /\ p.wallet = q.wallet /\ p.at = q.at
                   /\ p.booked = q.booked /\ p.route \in Route
                   /\ q \in asks' => p \in asks
                   /\ OnBooks(q)' => OnBooks(p) /\ now' - q.at <= Day
    <3>1. q \in asks \cup kept /\ q.route \in Route /\ (q \in asks' => q \in asks)
      BY <1>2, <1>4, <2>3, AskRoutes
    <3>2. OnBooks(q)' => OnBooks(q) /\ now' - q.at <= Day
      BY <1>2 DEF OnBooks
    <3> QED BY <3>1, <3>2
  <2>4. \A q \in asks' \cup kept' : q.id = r.id => q = r
    BY <1>2, <1>3
  <2>5. ASSUME NEW q \in asks', q.id = r.id, NEW e \in books'[q.route], e.id = r.id
        PROVE  q.booked <= e.lamports
    <3>1. q.route \in Route /\ e.id <= lastAsk /\ lastAsk \in Nat
      BY <1>2, <1>3, <2>5, BookEntries DEF AskType
    <3> QED BY <1>1, <2>5, <3>1
  <2>6. \A q \in asks' \cup kept' : ~(q.id = r.id /\ OnBooks(q)')
    BY <1>1, <2>4 DEF OnBooks
  <2> QED BY <1>4, <2>1, <2>2, <2>3, <2>5, <2>6, AccountedStep DEF SponsorInv
<1> QED BY <1>3, <1>4, <1>6, <1>7, <1>8 DEF SponsorInv

(* A restart forgets what counted: nothing of this life is left.            *)
LEMMA RestartStep ==
    ASSUME SponsorInv, Restart
    PROVE  SponsorInv'
<1>1. /\ restarts' = restarts + 1 /\ asks' = {} /\ books' = [route \in Route |-> {}]
      /\ now' = now /\ purse' = purse /\ lastAsk' = lastAsk
      /\ kept' = kept \cup {[r EXCEPT !.pc = "failed"] : r \in {q \in asks : q.pc \in {"sending", "running"}}}
  BY DEF Restart
<1>2. SponsorTyped
  BY DEF SponsorInv
<1>3. ASSUME NEW q \in kept'
      PROVE  \/ q \in kept
             \/ \E r \in asks : /\ q = [r EXCEPT !.pc = "failed"]
                                /\ q.id = r.id /\ q.life = r.life /\ q.pc = "failed" /\ q \in AskType
  <2>1. CASE q \notin kept
    <3>1. PICK r \in asks : q = [r EXCEPT !.pc = "failed"]
      BY <1>1, <2>1
    <3>2. r \in AskType
      BY <1>2 DEF SponsorTyped
    <3>3. q \in AskType
      BY <3>1, <3>2, Updated DEF Kept
    <3>4. q.id = r.id /\ q.life = r.life /\ q.pc = "failed"
      BY <3>1, <3>2 DEF AskType
    <3> QED BY <3>1, <3>3, <3>4
  <2> QED BY <2>1
<1>4. SponsorTyped'
  <2>1. kept' \subseteq AskType
    BY <1>2, <1>3 DEF SponsorTyped
  <2>2. IsFiniteSet(kept')
    <3> DEFINE S == {q \in asks : q.pc \in {"sending", "running"}}
               f == [r \in S |-> [r EXCEPT !.pc = "failed"]]
    <3>1. IsFiniteSet(S)
      BY <1>2, FS_Subset DEF SponsorTyped
    <3>2. {f[r] : r \in S} = {[r EXCEPT !.pc = "failed"] : r \in S}
      OBVIOUS
    <3>3. kept' = kept \cup {f[r] : r \in S}
      BY <1>1, <3>2
    <3> HIDE DEF f, S
    <3>4. IsFiniteSet({f[r] : r \in S})
      BY <3>1, FiniteImage
    <3> QED BY <1>2, <3>3, <3>4, FS_Union DEF SponsorTyped
  <2>3. books' \in [Route -> SUBSET EntryType] /\ \A route \in Route : IsFiniteSet(books'[route])
    BY <1>1, FS_EmptySet
  <2> QED BY <1>1, <1>2, <2>1, <2>2, <2>3, FS_EmptySet DEF SponsorTyped
<1>5. ASSUME NEW q \in kept' PROVE q.id <= lastAsk /\ q.life <= restarts /\ q.life \in Nat /\ q.pc \in Kept
  BY <1>2, <1>3, <1>4 DEF SponsorInv, Told, Kept, SponsorTyped, AskType
<1>6. Told'
  <2>1. \A q \in asks' \cup kept' : q.id <= lastAsk' /\ q.life <= restarts'
    BY <1>1, <1>2, <1>5 DEF SponsorTyped
  <2>2. ASSUME NEW p \in kept', NEW q \in kept', p.id = q.id PROVE p = q
    <3>1. asks \cap kept = {}
      BY DEF SponsorInv, Told, Asking, Kept
    <3>2. CASE p \in kept /\ q \in kept
      BY <2>2, <3>2 DEF SponsorInv, Told
    <3>3. CASE p \notin kept /\ q \notin kept
      <4>1. PICK r \in asks : p = [r EXCEPT !.pc = "failed"] /\ p.id = r.id
        BY <1>3, <3>3
      <4>2. PICK s \in asks : q = [s EXCEPT !.pc = "failed"] /\ q.id = s.id
        BY <1>3, <3>3
      <4>3. r = s
        BY <2>2, <4>1, <4>2 DEF SponsorInv, Told
      <4> QED BY <4>1, <4>2, <4>3
    <3>4. ASSUME NEW u \in kept', NEW v \in kept, u \notin kept, u.id = v.id PROVE FALSE
      <4>1. PICK r \in asks : u.id = r.id
        BY <1>3, <3>4
      <4> QED BY <3>1, <3>4, <4>1 DEF SponsorInv, Told
    <3> QED BY <2>2, <3>2, <3>3, <3>4
  <2> QED BY <1>1, <1>5, <2>1, <2>2 DEF Told
<1>7. AllMeasured'
  <2>1. ASSUME NEW q \in kept' PROVE Measured(q)'
    <3>1. CASE q \in kept
      BY <1>1, <3>1, OthersMeasured DEF SponsorInv
    <3>2. CASE q \notin kept
      BY <1>3, <3>2 DEF Measured
    <3> QED BY <3>1, <3>2
  <2> QED BY <1>1, <2>1 DEF AllMeasured
<1>8. WithinCaps'
  <2>1. \A route \in Route : Booked(route, Day)' \subseteq Booked(route, Day)
    BY <1>1 DEF Booked
  <2> QED BY <1>2, <1>4, <2>1, FewerBookedAsks DEF SponsorInv
<1>9. Accounted'
  <2>1. \A q \in asks' \cup kept' : ~OnBooks(q)'
    BY <1>1, <1>2, <1>5 DEF OnBooks, SponsorTyped
  <2>2. \A route \in Route : books'[route] = {}
    BY <1>1
  <2> QED BY <1>1, <2>1, <2>2 DEF Accounted
<1> QED BY <1>4, <1>6, <1>7, <1>8, <1>9 DEF SponsorInv

(* Dust is booked, from now on, once the balance is known to be low. *)
LEMMA RunStep ==
    ASSUME SponsorInv, NEW r \in asks, ReadHeld(r), held[r.wallet] < Dust,
           Within("dust", r.wallet, Dust)
    PROVE  SponsorInv'
<1>0. PICK s, u : s = [r EXCEPT !.pc = "running", !.at = now] /\ u = [r EXCEPT !.at = now]
  OBVIOUS
<1>1. /\ asks' = (asks \ {r}) \cup {s} /\ books' = Reserve(u) /\ r.pc = "balance"
      /\ now' = now /\ UNCHANGED <<purse, lastAsk, restarts, kept>>
  BY <1>0 DEF ReadHeld, Resume, vars
<1>2. /\ SponsorTyped /\ r \in AskType /\ r.route = "dust" /\ r.booked = Dust
      /\ r.booked \in Nat /\ r.id \in Nat /\ r.route \in Route
      /\ r.moved # {"up", "down"} => Cost(r) <= r.booked
      /\ now \in Nat /\ r.life = restarts
  BY <1>1, AskRoutes DEF SponsorInv, Told, AllMeasured, Measured, SponsorTyped
<1>3. /\ s \in AskType /\ u \in AskType
      /\ s.id = r.id /\ s.route = r.route /\ s.wallet = r.wallet /\ s.life = r.life /\ s.at = now
      /\ s.booked = r.booked /\ s.pc = "running" /\ s.moved = r.moved /\ Cost(s) = Cost(r)
      /\ u.id = r.id /\ u.route = r.route /\ u.wallet = r.wallet /\ u.booked = r.booked
  <2>1. s \in AskType /\ u \in AskType
    BY <1>0, <1>2, Updated
  <2> QED BY <1>0, <1>2, <2>1 DEF AskType, Cost
<1>4. Told'
  BY <1>1, <1>3, ToldOnward DEF SponsorInv, Onward, Asking
<1>5. SponsorTyped'
  <2>1. asks' \subseteq AskType /\ IsFiniteSet(asks')
    BY <1>1, <1>2, <1>3, FS_AddElement, FS_RemoveElement DEF SponsorTyped
  <2>2. books' \in [Route -> SUBSET EntryType] /\ \A route \in Route : IsFiniteSet(books'[route])
    BY <1>1, <1>2, <1>3, ReserveFacts
  <2> QED BY <1>1, <1>2, <2>1, <2>2 DEF SponsorTyped
<1>6. WithinCaps'
  BY <1>1, <1>2, <1>3, <1>5, CapsReserve DEF SponsorInv
<1>7. \A q \in asks' \cup kept' : q = s \/ (q \in asks \cup kept /\ q # r)
  <2>1. r \notin kept
    BY DEF SponsorInv, Told, Asking, Kept
  <2> QED BY <1>1, <2>1
<1>8. AllMeasured'
  <2>1. Measured(s)'
    BY <1>2, <1>3 DEF Measured, Cost
  <2> QED BY <1>1, <1>7, <2>1, OthersMeasured DEF SponsorInv, AllMeasured
<1>9. Accounted'
  <2> DEFINE d == Entry(u.id, u.wallet, now, u.booked)
  <2>1. /\ d.id = r.id /\ d.at = now /\ d.wallet = r.wallet /\ d.lamports = r.booked /\ d \in EntryType
    BY <1>2, <1>3, ReserveFacts DEF Entry
  <2>2. /\ \A route \in Route : route # r.route => books'[route] = books[route]
        /\ books'[r.route] = Booked(r.route, Day) \cup {d}
    BY <1>1, <1>2, <1>3, ReserveFacts
  <2> HIDE DEF d
  <2>3. /\ \A q \in asks \cup kept : q # r => q.id # r.id
        /\ r.id <= lastAsk /\ lastAsk \in Nat
    BY <1>2 DEF SponsorInv, Told, SponsorTyped
  <2>4. ASSUME NEW route \in Route
        PROVE  /\ \A e \in books'[route] : e.id \in Nat /\ e.id <= lastAsk'
               /\ \A e \in books'[route] : e.id = r.id \/ e \in books[route]
               /\ \A e \in Booked(route, Day) :
                     e.id # r.id /\ now' - e.at <= Day => e \in books'[route]
    <3>1. \A e \in books'[route] : e = d \/ e \in books[route]
      BY <2>2 DEF Booked
    <3>2. Booked(route, Day) \subseteq books'[route]
      BY <2>2 DEF Booked
    <3> QED BY <1>1, <1>2, <2>1, <2>3, <3>1, <3>2, BookEntries
  <2>5. ASSUME NEW q \in asks' \cup kept', q.id # r.id
        PROVE  \E p \in asks \cup kept :
                   /\ p.id = q.id /\ p.route = q.route /\ p.wallet = q.wallet /\ p.at = q.at
                   /\ p.booked = q.booked /\ p.route \in Route
                   /\ q \in asks' => p \in asks
                   /\ OnBooks(q)' => OnBooks(p) /\ now' - q.at <= Day
    <3>1. q \in asks \cup kept /\ q.route \in Route /\ (q \in asks' => q \in asks)
      BY <1>1, <1>2, <1>3, <2>5, AskRoutes
    <3>2. OnBooks(q)' => OnBooks(q) /\ now' - q.at <= Day
      BY <1>1 DEF OnBooks
    <3> QED BY <3>1, <3>2
  <2>6. \A q \in asks' \cup kept' : q.id = r.id => q = s
    BY <1>7, <2>3
  <2>7. ASSUME NEW q \in asks', q.id = r.id, NEW e \in books'[q.route], e.id = r.id
        PROVE  q.booked <= e.lamports
    <3>1. q = s
      BY <2>6, <2>7
    <3>2. e = d \/ e \in books[r.route]
      BY <1>3, <2>2, <2>7, <3>1 DEF Booked
    <3> QED BY <1>2, <1>3, <2>1, <2>7, <3>1, <3>2 DEF SponsorInv, Accounted
  <2>8. \A q \in asks' \cup kept' : q.id = r.id /\ OnBooks(q)' =>
            \E e \in books'[q.route] : StandsFor(e, q) /\ now' - e.at <= Day
    <3>1. d \in books'[s.route] /\ StandsFor(d, s) /\ now - d.at <= Day
      BY <1>2, <1>3, <2>1, <2>2, LimitAssumption DEF StandsFor
    <3> QED BY <1>1, <2>6, <3>1
  <2>9. lastAsk' \in Nat /\ lastAsk <= lastAsk'
    BY <1>1, <2>3
  <2> QED BY <1>2, <2>4, <2>5, <2>7, <2>8, <2>9, AccountedStep DEF SponsorInv
<1> QED BY <1>4, <1>5, <1>6, <1>8, <1>9 DEF SponsorInv

LEMMA SponsorInvInit == SponsorInit => SponsorInv
<1> SUFFICES ASSUME SponsorInit PROVE SponsorInv
  OBVIOUS
<1>1. /\ asks = {} /\ kept = {} /\ books = [route \in Route |-> {}] /\ now = 0
      /\ purse = StartPurse /\ lastAsk = 0 /\ restarts = 0
  BY DEF SponsorInit, Init
<1>2. SponsorTyped
  BY <1>1, FS_EmptySet, SponsorAssumption DEF SponsorTyped
<1>3. Told /\ AllMeasured /\ Accounted
  BY <1>1 DEF Told, AllMeasured, Accounted
<1>4. Lamports({}) = 0
  <2> DEFINE f == [e \in {} |-> e.lamports]
  <2>1. Sum(f, {}) = 0
    <3> HIDE DEF f
    <3> QED BY SumEmpty
  <2> QED BY <2>1, LamportsIsSum, FS_EmptySet
<1>5. \A route \in Route : \A X : BookedOf(route, X) = {}
  BY <1>1 DEF BookedOf, Booked
<1>6. WithinCaps
  BY <1>4, <1>5, CapTypes DEF WithinCaps
<1> QED BY <1>2, <1>3, <1>6 DEF SponsorInv

(* A request that only changes where it is keeps everything else. *)
LEMMA PcFields ==
    ASSUME NEW r \in AskType, NEW pc \in Asking \cup Kept, NEW s, s = [r EXCEPT !.pc = pc]
    PROVE  /\ s \in AskType /\ Onward(r, s) /\ s.at = r.at /\ s.pc = pc /\ s.booked = r.booked
           /\ s.fee = r.fee /\ s.takes = r.takes /\ s.moved = r.moved /\ r.booked \in Nat
<1>1. s \in AskType
  BY Updated
<1> QED BY <1>1 DEF AskType, Onward

LEMMA SponsorStepInv ==
    ASSUME SponsorInv, SponsorStep
    PROVE  SponsorInv'
<1> DEFINE goal == SponsorInv'
<1>0. /\ SponsorTyped /\ Policy.rent \in Nat
      /\ \A r \in asks \cup kept : r \in AskType /\ Measured(r)
      /\ \A r \in asks : r.pc \in Asking /\ (r.pc \in {"balance", "running"} <=> r.route = "dust")
  BY AskRoutes, PolicyAssumption DEF SponsorInv, AllMeasured, Told
<1>1. ASSUME NEW offer \in SponsorOffers, Sponsor(offer) PROVE goal
  <2>1. PICK r : r = Ask("sponsor", "simulating", offer)
    OBVIOUS
  <2>2. /\ r \in AskType /\ r.id = lastAsk + 1 /\ r.life = restarts /\ r.at = now
        /\ r.pc = "simulating" /\ r.takes + r.fee <= r.booked /\ r.route = "sponsor"
    BY <1>0, <2>1, SponsorOffered, AskFields DEF Route, Asking
  <2>3. /\ Within(r.route, r.wallet, r.booked) /\ books' = Reserve(r)
        /\ asks' = asks \cup {r} /\ lastAsk' = lastAsk + 1
        /\ now' = now /\ purse' = purse /\ restarts' = restarts /\ kept' = kept
    BY <1>1, <2>1, <2>2 DEF Sponsor, Begin, vars
  <2> QED BY <2>2, <2>3, BookingStep
<1>2. ASSUME NEW offer \in SetupOffers, SetUp(offer) PROVE goal
  <2>1. PICK r : r = Ask("setup", "before", offer)
    OBVIOUS
  <2>2. /\ r \in AskType /\ r.id = lastAsk + 1 /\ r.life = restarts /\ r.at = now
        /\ r.pc = "before" /\ r.booked = Policy.rent + r.fee /\ r.route = "setup"
    BY <1>0, <2>1, SetupOffered, AskFields DEF Route, Asking
  <2>3. /\ Within(r.route, r.wallet, r.booked) /\ books' = Reserve(r)
        /\ asks' = asks \cup {r} /\ lastAsk' = lastAsk + 1
        /\ now' = now /\ purse' = purse /\ restarts' = restarts /\ kept' = kept
    BY <1>2, <2>1, <2>2 DEF SetUp, Begin, vars
  <2> QED BY <2>2, <2>3, BookingStep
<1>3. ASSUME NEW w \in Wallet, AskDust(w) PROVE goal
  BY <1>3, AskDustStep
<1>4. ASSUME NEW w \in Wallet, WalletSpends(w) PROVE goal
  BY <1>0, <1>4, IdleStep DEF WalletSpends, vars, SponsorTyped
<1>5. ASSUME NEW r \in asks, Simulated(r) PROVE goal
  <2>1. PICK s : s = [r EXCEPT !.pc = "sending"]
    OBVIOUS
  <2>2. /\ s \in AskType /\ Onward(r, s) /\ s.at = r.at /\ s.pc = "sending" /\ s.booked = r.booked
        /\ s.moved = r.moved /\ s.fee = r.fee /\ s.takes = r.takes /\ r.booked \in Nat
    BY <1>0, <2>1, PcFields DEF Asking
  <2>3. /\ asks' = (asks \ {r}) \cup {s} /\ r.pc = "simulating"
        /\ UNCHANGED <<now, books, purse, lastAsk, restarts, kept>>
    BY <1>5, <2>1 DEF Simulated, Resume, vars
  <2>4. Measured(s)'
    BY <1>0, <2>2, <2>3 DEF Measured, Cost
  <2> QED BY <2>2, <2>3, <2>4, OnwardStep DEF Asking
<1>6. ASSUME NEW r \in asks, SimulationFails(r) PROVE goal
  <2>1. PICK s : s = [r EXCEPT !.pc = "failed"]
    OBVIOUS
  <2>2. s \in AskType /\ Onward(r, s) /\ s.at = r.at /\ s.pc = "failed"
    BY <1>0, <2>1, PcFields DEF Kept
  <2>3. Measured(s)'
    BY <2>2 DEF Measured
  <2> QED BY <1>6, <2>2, <2>3, OnwardStep DEF SimulationFails, Drop, vars
<1>7. ASSUME NEW r \in asks, ReadBefore(r) PROVE goal
  <2>1. PICK s : s = [r EXCEPT !.pc = "simulate", !.first = purse]
    OBVIOUS
  <2>2. /\ s \in AskType /\ Onward(r, s) /\ s.at = r.at /\ s.pc = "simulate" /\ s.booked = r.booked
        /\ s.fee = r.fee /\ s.first = purse /\ r.booked \in Nat /\ purse \in Nat
    <3>1. s \in AskType
      <4>1. r \in AskType /\ purse \in Int
        BY <1>0 DEF SponsorTyped
      <4> QED BY <2>1, <4>1, Updated
    <3> QED BY <1>0, <2>1, <3>1 DEF AskType, Onward, SponsorTyped
  <2>3. /\ asks' = (asks \ {r}) \cup {s} /\ r.pc = "before"
        /\ UNCHANGED <<now, books, purse, lastAsk, restarts, kept>>
    BY <1>7, <2>1 DEF ReadBefore, Resume, vars
  <2>4. Measured(s)'
    BY <1>0, <2>2, <2>3 DEF Measured, Cost
  <2> QED BY <2>2, <2>3, <2>4, OnwardStep DEF Asking
<1>8. ASSUME NEW r \in asks, Simulate(r) PROVE goal
  <2>1. PICK s : s = [r EXCEPT !.pc = "after", !.post = purse - r.takes]
    OBVIOUS
  <2>2. /\ s \in AskType /\ Onward(r, s) /\ s.at = r.at /\ s.pc = "after" /\ s.booked = r.booked
        /\ s.fee = r.fee /\ s.takes = r.takes /\ s.first = r.first /\ s.moved = r.moved
        /\ s.post = purse - r.takes
        /\ r.booked \in Nat /\ purse \in Nat /\ r.takes \in Nat /\ r.first \in Int
    <3>1. s \in AskType
      <4>1. r \in AskType /\ purse - r.takes \in Int
        BY <1>0, AskRoutes DEF SponsorTyped
      <4> QED BY <2>1, <4>1, Updated
    <3> QED BY <1>0, <2>1, <3>1 DEF AskType, Onward, SponsorTyped
  <2>3. /\ asks' = (asks \ {r}) \cup {s} /\ r.pc = "simulate"
        /\ UNCHANGED <<now, books, purse, lastAsk, restarts, kept>>
    BY <1>8, <2>1 DEF Simulate, Resume, vars
  <2>4. Measured(s)'
    BY <1>0, <2>2, <2>3 DEF Measured, Cost
  <2> QED BY <2>2, <2>3, <2>4, OnwardStep DEF Asking
<1>9. ASSUME NEW r \in asks, ReadAfter(r), spent(r) \in 0 .. Policy.rent PROVE goal
  <2>1. PICK s : s = [r EXCEPT !.pc = "sending", !.booked = spent(r) + r.fee, !.first = 0, !.post = 0]
    OBVIOUS
  <2>2. spent(r) \in Nat /\ spent(r) <= Policy.rent /\ r.fee \in Nat
    BY <1>0, <1>9, AskRoutes
  <2>3. /\ s \in AskType /\ Onward(r, s) /\ s.at = r.at /\ s.pc = "sending"
        /\ s.booked = spent(r) + r.fee /\ s.fee = r.fee /\ s.takes = r.takes /\ s.moved = r.moved
        /\ r.takes \in Nat /\ r.first \in Int /\ r.post \in Int /\ r.moved \subseteq {"up", "down"}
        /\ purse \in Nat
    <3>1. s \in AskType
      <4>1. r \in AskType /\ spent(r) + r.fee \in Nat
        BY <1>0, <2>2
      <4> HIDE DEF spent
      <4> QED BY <2>1, <4>1, Updated
    <3> HIDE DEF spent
    <3> QED BY <1>0, <2>1, <3>1 DEF AskType, Onward, SponsorTyped
  <2>4. /\ asks' = (asks \ {r}) \cup {s} /\ r.pc = "after"
        /\ UNCHANGED <<now, books, purse, lastAsk, restarts, kept>>
    BY <1>9, <2>1 DEF ReadAfter, Resume, vars
  <2>5. s.booked <= r.booked /\ r.booked = Policy.rent + r.fee
    BY <1>0, <2>2, <2>3, <2>4 DEF Measured
  <2>6. r.moved # {"up", "down"} => r.takes <= spent(r)
    <3>1. reference(r) \in Int /\ reference(r) >= r.first /\ reference(r) >= purse
      <4>1. \A a, b \in Int : Max({a, b}) \in Int /\ Max({a, b}) >= a /\ Max({a, b}) >= b
        BY DEF Max
      <4> QED BY <2>3, <4>1 DEF reference
    <3>2. r.moved # {"up", "down"} => "up" \notin r.moved \/ "down" \notin r.moved
      BY <2>3
    <3>3. r.moved # {"up", "down"} => r.takes + r.post <= reference(r)
      BY <1>0, <2>3, <2>4, <3>1, <3>2 DEF Measured
    <3> QED BY <2>3, <3>1, <3>3 DEF spent
  <2>7. Measured(s)'
    BY <2>2, <2>3, <2>6 DEF Measured, Cost
  <2> QED BY <2>3, <2>4, <2>5, <2>7, OnwardStep DEF Asking
<1>10. ASSUME NEW r \in asks, ReadAfter(r), spent(r) \notin 0 .. Policy.rent PROVE goal
  <2>1. PICK s : s = [r EXCEPT !.pc = "failed"]
    OBVIOUS
  <2>2. s \in AskType /\ Onward(r, s) /\ s.at = r.at /\ s.pc = "failed"
    BY <1>0, <2>1, PcFields DEF Kept
  <2>3. Measured(s)'
    BY <2>2 DEF Measured
  <2> QED BY <1>10, <2>2, <2>3, OnwardStep DEF ReadAfter, Drop, vars
<1>11. ASSUME NEW r \in asks, Send(r) PROVE goal
  <2>1. PICK s : s = [r EXCEPT !.pc = "sent"]
    OBVIOUS
  <2>2. /\ s \in AskType /\ Onward(r, s) /\ s.at = r.at /\ s.pc = "sent" /\ s.booked = r.booked
        /\ s.moved = r.moved /\ s.fee = r.fee /\ s.takes = r.takes
    BY <1>0, <2>1, PcFields DEF Kept
  <2>3. /\ asks' = asks \ {r} /\ kept' = kept \cup {s} /\ r.pc = "sending" /\ books' = Commit(r)
        /\ UNCHANGED <<now, purse, lastAsk, restarts>>
    BY <1>11, <2>1 DEF Send, Drop, Keep, vars
  <2>4. Measured(s)'
    BY <1>0, <2>2, <2>3 DEF Measured, Cost
  <2> QED BY <2>2, <2>3, <2>4, OnwardStep DEF Kept
<1>12. ASSUME NEW r \in asks, SendFails(r) PROVE goal
  <2>1. PICK s : s = [r EXCEPT !.pc = "failed"]
    OBVIOUS
  <2>2. s \in AskType /\ Onward(r, s) /\ s.at = r.at /\ s.pc = "failed"
    BY <1>0, <2>1, PcFields DEF Kept
  <2>3. Measured(s)'
    BY <2>2 DEF Measured
  <2> QED BY <1>12, <2>2, <2>3, OnwardStep DEF SendFails, Drop, vars
<1>13. ASSUME NEW r \in asks, ReadHeld(r) PROVE goal
  <2>1. CASE held[r.wallet] < Dust /\ Within("dust", r.wallet, Dust)
    BY <1>13, <2>1, RunStep
  <2>2. CASE ~(held[r.wallet] < Dust /\ Within("dust", r.wallet, Dust))
    <3>1. PICK s : s = [r EXCEPT !.pc = "failed"]
      OBVIOUS
    <3>2. s \in AskType /\ Onward(r, s) /\ s.at = r.at /\ s.pc = "failed" /\ s.booked <= r.booked
      BY <1>0, <3>1, PcFields DEF Kept
    <3>3. Measured(s)'
      BY <3>2 DEF Measured
    <3> QED BY <1>13, <2>2, <3>2, <3>3, OnwardStep DEF ReadHeld, Drop, vars
  <2> QED BY <2>1, <2>2
<1>14. ASSUME NEW r \in asks, Granted(r) PROVE goal
  <2>1. PICK s : s = [r EXCEPT !.landed = TRUE, !.pc = "sent"]
    OBVIOUS
  <2>2. /\ s \in AskType /\ Onward(r, s) /\ s.at = r.at /\ s.booked = r.booked /\ s.fee = r.fee
        /\ s.takes = r.takes /\ s.moved = r.moved /\ s.pc = "sent"
    <3> DEFINE u == [r EXCEPT !.landed = TRUE]
    <3>1. u \in AskType /\ r \in AskType /\ u.id = r.id /\ u.route = r.route /\ u.wallet = r.wallet
          /\ u.life = r.life /\ u.at = r.at /\ u.booked = r.booked /\ u.fee = r.fee
          /\ u.takes = r.takes /\ u.moved = r.moved
      <4>1. r \in AskType
        BY <1>0
      <4>2. u \in AskType
        BY <4>1, Updated
      <4> QED BY <4>1, <4>2 DEF AskType
    <3>2. s = [u EXCEPT !.pc = "sent"]
      BY <2>1, <3>1 DEF AskType
    <3> HIDE DEF u
    <3> QED BY <3>1, <3>2, PcFields DEF Onward, Kept
  <2>3. /\ asks' = Moved(asks \ {r}, "down") /\ purse' = purse - Dust /\ purse >= Dust
        /\ r.pc = "running" /\ kept' = kept \cup {s}
        /\ UNCHANGED <<books, now, lastAsk, restarts>>
    <3>1. s = [[r EXCEPT !.landed = TRUE] EXCEPT !.pc = "sent"]
      BY <1>0, <2>1 DEF AskType
    <3> QED BY <1>14, <3>1 DEF Granted, Keep, vars
  <2>4. purse' \in Nat /\ purse' <= purse
    BY <1>0, <2>3, SponsorAssumption DEF SponsorTyped
  <2>5. asks \ {r} \in SUBSET asks /\ r \in asks \ (asks \ {r})
    OBVIOUS
  <2> QED BY <2>2, <2>3, <2>4, <2>5, MovedStep
<1>15. ASSUME NEW r \in asks, DustFails(r) PROVE goal
  <2>1. PICK s : s = [r EXCEPT !.pc = "failed"]
    OBVIOUS
  <2>2. s \in AskType /\ Onward(r, s) /\ s.at = r.at /\ s.pc = "failed"
    BY <1>0, <2>1, PcFields DEF Kept
  <2>3. Measured(s)'
    BY <2>2 DEF Measured
  <2>4. /\ asks' = asks \ {r} /\ (kept' = kept \/ kept' = kept \cup {s}) /\ books' = Cancel(r)
        /\ UNCHANGED <<now, purse, lastAsk, restarts>>
    BY <1>15, <2>1 DEF DustFails, Drop, Keep, vars
  <2> QED BY <2>2, <2>3, <2>4, OnwardStep DEF Kept
<1>16. ASSUME NEW r \in kept, Land(r) PROVE goal
  <2>1. PICK s : s = [r EXCEPT !.landed = TRUE]
    OBVIOUS
  <2>2. /\ s \in AskType /\ Onward(r, s) /\ s.at = r.at /\ s.booked = r.booked /\ s.fee = r.fee
        /\ s.takes = r.takes /\ s.moved = r.moved /\ s.pc = r.pc
    <3>1. s \in AskType
      <4>1. r \in AskType /\ purse \in Int
        BY <1>0 DEF SponsorTyped
      <4> QED BY <2>1, <4>1, Updated
    <3> QED BY <1>0, <2>1, <3>1 DEF AskType, Onward
  <2>3. /\ asks' = Moved(asks, "down") /\ purse' = purse - Cost(r) /\ purse >= Cost(r)
        /\ kept' = (kept \ {r}) \cup {s}
        /\ UNCHANGED <<books, now, lastAsk, restarts>>
    BY <1>16, <2>1 DEF Land, vars
  <2>4. purse' \in Nat /\ purse' <= purse
    BY <1>0, <2>3, AskRoutes DEF SponsorTyped
  <2> QED BY <2>2, <2>3, <2>4, MovedStep
<1>17. ASSUME NEW way \in {"up", "down"}, RentMoves(way) PROVE goal
  <2>1. /\ asks' = Moved(asks, way) /\ UNCHANGED <<books, now, lastAsk, restarts, kept>>
        /\ way = "up" => purse' = purse + 1
        /\ way = "down" => purse > 0 /\ purse' = purse - 1
    BY <1>17 DEF RentMoves, vars
  <2>2. /\ purse' \in Nat
        /\ way = "up" => purse <= purse'
        /\ way = "down" => purse' <= purse
    BY <1>0, <2>1 DEF SponsorTyped
  <2>3. CASE asks = {} /\ kept = {}
    <3>1. asks' = {} /\ kept' = {}
      BY <2>1, <2>3 DEF Moved
    <3>2. SponsorTyped' /\ Told' /\ AllMeasured' /\ Accounted'
      BY <1>0, <2>1, <2>2, <2>3, <3>1 DEF SponsorInv, SponsorTyped, Told, AllMeasured, Accounted
    <3>3. \A route \in Route : Booked(route, Day)' \subseteq Booked(route, Day)
      BY <2>1 DEF Booked
    <3>4. WithinCaps'
      BY <1>0, <3>2, <3>3, FewerBookedAsks DEF SponsorInv
    <3> QED BY <3>2, <3>4 DEF SponsorInv
  <2>4. CASE asks \cup kept # {}
    <3>1. PICK q \in asks \cup kept : TRUE
      BY <2>4
    <3>2. q \in AskType /\ Onward(q, q) /\ asks \in SUBSET asks
      BY <1>0 DEF Onward
    <3> QED BY <2>1, <2>2, <3>2, MovedStep
  <2> QED BY <2>3, <2>4
<1> QED BY <1>1, <1>2, <1>3, <1>4, <1>5, <1>6, <1>7, <1>8, <1>9, <1>10, <1>11, <1>12, <1>13,
           <1>14, <1>15, <1>16, <1>17 DEF SponsorStep

LEMMA SponsorNextInv == SponsorInv /\ [SponsorNext]_<<vars, sponsorVars>> => SponsorInv'
<1> SUFFICES ASSUME SponsorInv, [SponsorNext]_<<vars, sponsorVars>> PROVE SponsorInv'
  OBVIOUS
<1>1. now \in Nat
  BY DEF SponsorInv, SponsorTyped
<1>2. CASE SponsorStep
  BY <1>2, SponsorStepInv
<1>3. CASE Restart
  BY <1>3, RestartStep
<1>4. CASE Next /\ UNCHANGED sponsorVars
  <2>1. now' = now \/ now' = now + 1
    BY <1>4 DEF Next, Admit, Refuse, Cosign, Fail, Tick
  <2> QED BY <1>1, <1>4, <2>1, IdleStep DEF sponsorVars
<1>5. CASE UNCHANGED <<vars, sponsorVars>>
  BY <1>1, <1>5, IdleStep DEF vars, sponsorVars
<1> QED BY <1>2, <1>3, <1>4, <1>5 DEF SponsorNext

(* What the counted requests can cost is covered by their entries, one each.*)
LEMMA BookedCoversSpend ==
    ASSUME SponsorInv
    PROVE  SpendWithinCaps
<1> DEFINE By(route, X) == {r \in Counted(route) : r.wallet \in X}
<1>1. SponsorTyped
  BY DEF SponsorInv
<1>2. ASSUME NEW route \in Route, NEW X \in SUBSET Wallet
      PROVE  /\ SpentOf(By(route, X)) \in Nat /\ Lamports(BookedOf(route, X)) \in Nat
             /\ SpentOf(By(route, X)) <= Lamports(BookedOf(route, X))
  <2> DEFINE S == By(route, X)
             T == BookedOf(route, X)
             f == [r \in S |-> Cost(r)]
             g == [e \in T |-> e.lamports]
             m == [r \in S |-> CHOOSE e \in Booked(route, Day) : StandsFor(e, r)]
  <2>1. T \in SUBSET EntryType /\ IsFiniteSet(T) /\ Lamports(T) \in Nat
    BY <1>1, BookedTyped
  <2>2. IsFiniteSet(S)
    <3>1. IsFiniteSet(asks \cup kept)
      BY <1>1, FS_Union DEF SponsorTyped
    <3>2. S \in SUBSET (asks \cup kept)
      BY DEF Counted
    <3> QED BY <3>1, <3>2, FS_Subset
  <2>3. ASSUME NEW r \in S
        PROVE  /\ r \in asks \cup kept /\ r.wallet \in X /\ Cost(r) \in Nat /\ r.booked \in Nat
               /\ Cost(r) <= r.booked
               /\ m[r] \in Booked(route, Day) /\ StandsFor(m[r], r)
    <3>1. /\ r \in asks \cup kept /\ r.route = route /\ r.wallet \in X
          /\ r.life = restarts /\ now - r.at <= Day
          /\ r.pc \in {"sending", "running", "sent"} /\ r.moved # {"up", "down"}
      BY DEF Counted
    <3>2. Cost(r) \in Nat /\ r.booked \in Nat
      BY <1>1, <3>1, AskRoutes
    <3>3. Cost(r) <= r.booked
      BY <3>1 DEF SponsorInv, AllMeasured, Measured
    <3>4. \E e \in Booked(route, Day) : StandsFor(e, r)
      BY <3>1 DEF SponsorInv, Accounted, OnBooks
    <3> QED BY <3>1, <3>2, <3>3, <3>4
  <2>4. ASSUME NEW r \in S
        PROVE  m[r] \in T /\ f[r] <= g[m[r]] /\ f[r] \in Int /\ f[r] \in Nat
    <3> HIDE DEF m
    <3>1. m[r] \in T
      BY <2>3 DEF StandsFor, BookedOf
    <3>2. m[r].lamports \in Nat
      BY <2>1, <3>1 DEF EntryType
    <3> QED BY <2>3, <3>1, <3>2 DEF StandsFor
  <2>5. \A r, s \in S : m[r] = m[s] => r = s
    <3> HIDE DEF m, S
    <3> QED BY <2>3 DEF StandsFor, SponsorInv, Told
  <2>6. \A e \in T : g[e] \in Nat
    BY <2>1 DEF EntryType
  <2> HIDE DEF S, T, f, g, m
  <2>7. Sum(f, S) <= Sum(g, T)
    BY <2>1, <2>2, <2>4, <2>5, <2>6, SumAtMost
  <2>8. Sum(f, S) \in Nat
    BY <2>2, <2>4, SumNat
  <2>9. SpentOf(S) = Sum(f, S) /\ Lamports(T) = Sum(g, T)
    BY <2>1, <2>2, SpentIsSum, LamportsIsSum DEF f, g
  <2>10. SpentOf(S) \in Nat /\ Lamports(T) \in Nat /\ SpentOf(S) <= Lamports(T)
    BY <2>1, <2>7, <2>8, <2>9
  <2> QED BY <2>10 DEF S, T
<1>3. \A route \in Route : By(route, Wallet) = Counted(route)
  BY <1>1 DEF Counted, SponsorTyped, AskType
<1>4. \A route \in Route, w \in Wallet : By(route, {w}) = {r \in Counted(route) : r.wallet = w}
  OBVIOUS
<1> HIDE DEF By
<1>5. ASSUME NEW route \in Route PROVE SpentOf(Counted(route)) <= Caps[route].global
  <2>1. Lamports(BookedOf(route, Wallet)) <= Caps[route].global
    BY DEF SponsorInv, WithinCaps
  <2> QED BY <1>2, <1>3, <2>1, CapTypes
<1>6. ASSUME NEW route \in Route, NEW w \in Wallet
      PROVE  SpentOf({r \in Counted(route) : r.wallet = w}) <= Caps[route].wallet
  <2>1. Lamports(BookedOf(route, {w})) <= Caps[route].wallet
    BY DEF SponsorInv, WithinCaps
  <2>2. SpentOf(By(route, {w})) <= Caps[route].wallet
    BY <1>2, <2>1, CapTypes
  <2> QED BY <1>4, <2>2
<1> QED BY <1>5, <1>6 DEF SpendWithinCaps

(* What the day's transactions can take from the two keys is within the     *)
(* caps of their route, whatever instructions they hold and however many    *)
(* are in flight while the treasury's balance moves.                        *)
THEOREM SpendStaysWithinCaps == SponsorSpec => []SpendWithinCaps
<1>1. SponsorSpec => []SponsorInv
  BY SponsorInvInit, SponsorNextInv, PTL DEF SponsorSpec
<1>2. SponsorInv => SpendWithinCaps
  BY BookedCoversSpend
<1> QED BY <1>1, <1>2, PTL

-----------------------------------------------------------------------------
(***************************************************************************)
(* Rent dust once per wallet.  A mark and a grant of this life of the      *)
(* process come and go together; other routes concern neither.             *)
(***************************************************************************)
Marks ==
    \A w \in Wallet :
        /\ \A r, s \in GrantsOf(w) : r = s
        /\ w \in dustGranted <=> GrantsOf(w) # {}
DustInv == SponsorInv /\ Marks

(* The three things a step does to the grants. *)
LEMMA GrantsStay ==
    ASSUME Marks, dustGranted' = dustGranted,
           \A w \in Wallet : \A q : q \in GrantsOf(w)' <=> q \in GrantsOf(w)
    PROVE  Marks'
<1>1. \A w \in Wallet : GrantsOf(w)' = GrantsOf(w)
  OBVIOUS
<1>2. \A w \in Wallet : (\A r, s \in GrantsOf(w)' : r = s) /\ (w \in dustGranted' <=> GrantsOf(w)' # {})
  BY <1>1 DEF Marks
<1> QED BY <1>2 DEF Marks

LEMMA GrantGoesOn ==
    ASSUME Marks, NEW x \in Wallet, NEW r \in GrantsOf(x), NEW s,
           dustGranted' = dustGranted \/ dustGranted' = dustGranted \cup {x},
           \A w \in Wallet : \A q :
               q \in GrantsOf(w)' <=> (q \in GrantsOf(w) /\ q # r) \/ (w = x /\ q = s)
    PROVE  Marks'
<1>1. ASSUME NEW w \in Wallet
      PROVE  (\A p, q \in GrantsOf(w)' : p = q) /\ (w \in dustGranted' <=> GrantsOf(w)' # {})
  <2>1. CASE w = x
    <3>1. \A q : q \in GrantsOf(w)' <=> q = s
      BY <2>1 DEF Marks
    <3>2. w \in dustGranted
      BY <2>1 DEF Marks
    <3> QED BY <3>1, <3>2
  <2>2. CASE w # x
    <3>1. \A q : q \in GrantsOf(w)' <=> q \in GrantsOf(w) /\ q # r
      BY <2>2
    <3>2. r \notin GrantsOf(w)
      BY <2>2 DEF GrantsOf
    <3>3. GrantsOf(w)' = GrantsOf(w)
      BY <3>1, <3>2
    <3> QED BY <2>2, <3>3 DEF Marks
  <2> QED BY <2>1, <2>2
<1> QED BY <1>1 DEF Marks

LEMMA GrantGoes ==
    ASSUME Marks, NEW x \in Wallet, NEW r \in GrantsOf(x), dustGranted' = dustGranted \ {x},
           \A w \in Wallet : \A q : q \in GrantsOf(w)' <=> q \in GrantsOf(w) /\ q # r
    PROVE  Marks'
<1>1. ASSUME NEW w \in Wallet
      PROVE  (\A p, q \in GrantsOf(w)' : p = q) /\ (w \in dustGranted' <=> GrantsOf(w)' # {})
  <2>1. CASE w = x
    <3>1. GrantsOf(w)' = {}
      BY <2>1 DEF Marks
    <3> QED BY <2>1, <3>1
  <2>2. CASE w # x
    <3>1. r \notin GrantsOf(w)
      BY <2>2 DEF GrantsOf
    <3>2. GrantsOf(w)' = GrantsOf(w)
      BY <3>1
    <3> QED BY <2>2, <3>2 DEF Marks
  <2> QED BY <2>1, <2>2
<1> QED BY <1>1 DEF Marks

(* A request of another route is nobody's grant, before and after.          *)
LEMMA OtherRoute ==
    ASSUME Marks, dustGranted' = dustGranted, restarts' = restarts, NEW S, NEW T,
           \A q \in S \cup T : q.route # "dust",
           \A q : /\ q \in asks' => q \in asks \/ q \in T
                  /\ q \in asks => q \in asks' \/ q \in S
                  /\ q \in kept' => q \in kept \/ q \in T
                  /\ q \in kept => q \in kept' \/ q \in S
    PROVE  Marks'
  BY GrantsStay DEF GrantsOf

LEMMA RestGrants ==
    ASSUME DustInv, NEW way \in {"up", "down"}, NEW X \in SUBSET asks, asks' = Moved(X, way)
    PROVE  \A q : q.route = "dust" => (q \in asks' <=> q \in X)
<1>1. /\ X \in SUBSET AskType /\ IsFiniteSet(X)
      /\ \A q \in X : q.route = "dust" => q.pc \notin Reading
  <2>1. IsFiniteSet(X) /\ X \in SUBSET AskType
    BY FS_Subset DEF DustInv, SponsorInv, SponsorTyped
  <2> QED BY <2>1 DEF DustInv, SponsorInv, Told, Reading
<1>2. /\ \A q \in asks' : \E p \in X : q = Shifted(p, way)
      /\ \A p \in X : Shifted(p, way) \in asks'
  BY <1>1, MovedFacts
<1>3. \A p \in X : /\ p.pc \notin Reading => Shifted(p, way) = p
                   /\ Shifted(p, way).route = p.route
  BY <1>1, ShiftedFields
<1> QED BY <1>1, <1>2, <1>3

LEMMA SponsorStepMarks ==
    ASSUME DustInv, SponsorStep
    PROVE  Marks'
<1> DEFINE goal == Marks'
<1>0. /\ Marks /\ asks \cap kept = {} /\ SponsorTyped
      /\ \A r \in asks : /\ r \in AskType /\ r.wallet \in Wallet /\ r.life = restarts
                         /\ r.pc \in {"balance", "running"} <=> r.route = "dust"
      /\ \A r \in kept : r \in AskType /\ r.wallet \in Wallet
  BY DEF DustInv, SponsorInv, Told, SponsorTyped, AskType, Asking, Kept
<1>1. ASSUME NEW r, r.route # "dust", dustGranted' = dustGranted, restarts' = restarts,
             asks' = asks \cup {r}, kept' = kept
      PROVE  goal
  <2>1. \A w \in Wallet : \A q : q \in GrantsOf(w)' <=> q \in GrantsOf(w)
    BY <1>1 DEF GrantsOf
  <2> QED BY <1>0, <1>1, <2>1, GrantsStay
<1>2. ASSUME NEW offer \in SponsorOffers, Sponsor(offer) PROVE goal
  <2>1. PICK r : r = Ask("sponsor", "simulating", offer)
    OBVIOUS
  <2>2. r.route # "dust"
    BY <2>1 DEF Ask
  <2> QED BY <1>1, <1>2, <2>1, <2>2 DEF Sponsor, Begin
<1>3. ASSUME NEW offer \in SetupOffers, SetUp(offer) PROVE goal
  <2>1. PICK r : r = Ask("setup", "before", offer)
    OBVIOUS
  <2>2. r.route # "dust"
    BY <2>1 DEF Ask
  <2> QED BY <1>1, <1>3, <2>1, <2>2 DEF SetUp, Begin
<1>4. ASSUME NEW x \in Wallet, AskDust(x) PROVE goal
  <2>1. PICK r : r = Ask("dust", "balance", Offer(x, 0, Dust, Dust))
    OBVIOUS
  <2>2. r.route = "dust" /\ r.wallet = x /\ r.life = restarts
    BY <2>1 DEF Ask, Offer
  <2>3. /\ x \notin dustGranted /\ dustGranted' = dustGranted \cup {x}
        /\ asks' = asks \cup {r} /\ kept' = kept /\ restarts' = restarts
    BY <1>4, <2>1 DEF AskDust, Begin, Marked
  <2>4. GrantsOf(x) = {}
    BY <1>0, <2>3 DEF Marks
  <2>5. \A w \in Wallet : \A q : q \in GrantsOf(w)' <=> q \in GrantsOf(w) \/ (w = x /\ q = r)
    BY <2>2, <2>3 DEF GrantsOf
  <2>6. ASSUME NEW w \in Wallet
        PROVE  (\A p, q \in GrantsOf(w)' : p = q) /\ (w \in dustGranted' <=> GrantsOf(w)' # {})
    BY <1>0, <2>3, <2>4, <2>5 DEF Marks
  <2> QED BY <2>6 DEF Marks
<1>5. ASSUME NEW r \in asks,
             \/ Simulated(r) \/ SimulationFails(r) \/ ReadBefore(r) \/ Simulate(r)
             \/ ReadAfter(r) \/ Send(r) \/ SendFails(r)
      PROVE  goal
  <2>1. r.pc \notin {"balance", "running"}
    BY <1>5 DEF Simulated, SimulationFails, ReadBefore, Simulate, ReadAfter, Send, SendFails
  <2>2. r \in AskType /\ r.route # "dust"
    BY <1>0, <2>1
  <2>3. \E s : /\ asks' = (asks \ {r}) \cup {s} \/ asks' = asks \ {r}
               /\ kept' = kept \/ kept' = kept \cup {s}
               /\ s.route # "dust"
    <3> DEFINE t(pc) == [r EXCEPT !.pc = pc]
               u == [r EXCEPT !.pc = "simulate", !.first = purse]
               v == [r EXCEPT !.pc = "after", !.post = purse - r.takes]
               x == [r EXCEPT !.pc = "sending", !.booked = spent(r) + r.fee, !.first = 0, !.post = 0]
    <3>1. (\A pc : t(pc).route # "dust") /\ u.route # "dust" /\ v.route # "dust" /\ x.route # "dust"
      BY <2>2 DEF AskType
    <3>2. \/ asks' = (asks \ {r}) \cup {t("sending")} /\ kept' = kept
          \/ asks' = (asks \ {r}) \cup {u} /\ kept' = kept
          \/ asks' = (asks \ {r}) \cup {v} /\ kept' = kept
          \/ asks' = (asks \ {r}) \cup {x} /\ kept' = kept
          \/ asks' = asks \ {r} /\ kept' = kept \cup {t("sent")}
          \/ asks' = asks \ {r} /\ kept' = kept
      BY <1>5 DEF Simulated, SimulationFails, ReadBefore, Simulate, ReadAfter, Send, SendFails,
                  Resume, Drop, Keep
    <3> HIDE DEF t, u, v, x
    <3>3. t("sending").route # "dust" /\ t("sent").route # "dust"
      BY <3>1
    <3> QED BY <2>2, <3>1, <3>2, <3>3
  <2>4. PICK s : /\ asks' = (asks \ {r}) \cup {s} \/ asks' = asks \ {r}
                 /\ kept' = kept \/ kept' = kept \cup {s}
                 /\ s.route # "dust"
    BY <2>3
  <2>5. dustGranted' = dustGranted /\ restarts' = restarts
    BY <1>5 DEF Simulated, SimulationFails, ReadBefore, Simulate, ReadAfter, Send, SendFails
  <2> DEFINE S == {r}
             T == {s}
  <2>6. (\A q \in S \cup T : q.route # "dust")
        /\ \A q : /\ q \in asks' => q \in asks \/ q \in T
                  /\ q \in asks => q \in asks' \/ q \in S
                  /\ q \in kept' => q \in kept \/ q \in T
                  /\ q \in kept => q \in kept' \/ q \in S
    BY <2>2, <2>4
  <2> HIDE DEF S, T
  <2> QED BY <1>0, <2>5, <2>6, OtherRoute
<1>6. ASSUME NEW r \in asks, ReadHeld(r) PROVE goal
  <2>0. r \in GrantsOf(r.wallet) /\ r.wallet \in Wallet /\ r \in AskType
    BY <1>0, <1>6 DEF ReadHeld, GrantsOf
  <2>1. CASE held[r.wallet] < Dust /\ Within("dust", r.wallet, Dust)
    <3>1. PICK s : s = [r EXCEPT !.pc = "running", !.at = now]
      OBVIOUS
    <3>2. s.route = "dust" /\ s.wallet = r.wallet /\ s.life = r.life
      BY <1>0, <1>6, <2>0, <3>1 DEF ReadHeld, AskType
    <3>3. /\ asks' = (asks \ {r}) \cup {s}
          /\ dustGranted' = dustGranted /\ restarts' = restarts /\ kept' = kept
      BY <1>6, <2>1, <3>1 DEF ReadHeld, Resume
    <3>4. \A w \in Wallet : \A q :
              q \in GrantsOf(w)' <=> (q \in GrantsOf(w) /\ q # r) \/ (w = r.wallet /\ q = s)
      BY <1>0, <3>2, <3>3 DEF GrantsOf
    <3> QED BY <1>0, <2>0, <3>3, <3>4, GrantGoesOn
  <2>2. CASE ~(held[r.wallet] < Dust /\ Within("dust", r.wallet, Dust))
    <3>1. /\ asks' = asks \ {r} /\ dustGranted' = dustGranted \ {r.wallet}
          /\ restarts' = restarts /\ kept' = kept
      BY <1>6, <2>2 DEF ReadHeld, Drop, Released
    <3>2. \A w \in Wallet : \A q : q \in GrantsOf(w)' <=> q \in GrantsOf(w) /\ q # r
      BY <1>0, <3>1 DEF GrantsOf
    <3> QED BY <1>0, <2>0, <3>1, <3>2, GrantGoes
  <2> QED BY <2>1, <2>2
<1>7. ASSUME NEW r \in asks, Granted(r) PROVE goal
  <2>1. PICK s : s = [[r EXCEPT !.landed = TRUE] EXCEPT !.pc = "sent"]
    OBVIOUS
  <2>2. /\ r \in GrantsOf(r.wallet) /\ r.wallet \in Wallet /\ r.route = "dust"
        /\ s.route = "dust" /\ s.wallet = r.wallet /\ s.life = r.life /\ s.pc = "sent"
    BY <1>0, <1>7, <2>1 DEF Granted, GrantsOf, AskType
  <2>3. /\ asks' = Moved(asks \ {r}, "down") /\ kept' = kept \cup {s}
        /\ dustGranted' = dustGranted \cup {r.wallet} /\ restarts' = restarts
    BY <1>7, <2>1 DEF Granted, Keep
  <2>4. \A q : q.route = "dust" => (q \in asks' <=> q \in asks /\ q # r)
    <3>1. asks \ {r} \in SUBSET asks
      OBVIOUS
    <3>2. \A q : q.route = "dust" => (q \in asks' <=> q \in asks \ {r})
      BY <2>3, <3>1, RestGrants
    <3> QED BY <3>2
  <2>5. ASSUME NEW w \in Wallet, NEW q
        PROVE  q \in GrantsOf(w)' <=> (q \in GrantsOf(w) /\ q # r) \/ (w = r.wallet /\ q = s)
    <3>1. r \notin kept /\ s.life = restarts
      BY <1>0, <2>2
    <3>2. CASE q.route = "dust"
      <4>1. q \in asks' <=> q \in asks /\ q # r
        BY <2>4, <3>2
      <4> QED BY <2>2, <2>3, <3>1, <3>2, <4>1 DEF GrantsOf
    <3>3. CASE q.route # "dust"
      BY <2>2, <3>3 DEF GrantsOf
    <3> QED BY <3>2, <3>3
  <2>6. \A w \in Wallet : \A q :
            q \in GrantsOf(w)' <=> (q \in GrantsOf(w) /\ q # r) \/ (w = r.wallet /\ q = s)
    BY <2>5
  <2>7. dustGranted' = dustGranted \cup {r.wallet} /\ r \in GrantsOf(r.wallet) /\ r.wallet \in Wallet
    BY <2>2, <2>3
  <2> QED BY <1>0, <2>6, <2>7, GrantGoesOn
<1>8. ASSUME NEW r \in asks, DustFails(r) PROVE goal
  <2>1. PICK s : s = [r EXCEPT !.pc = "failed"]
    OBVIOUS
  <2>2. r \in GrantsOf(r.wallet) /\ r.wallet \in Wallet /\ s.pc = "failed"
    BY <1>0, <1>8, <2>1 DEF DustFails, GrantsOf, AskType
  <2>3. /\ asks' = asks \ {r} /\ (kept' = kept \/ kept' = kept \cup {s})
        /\ dustGranted' = dustGranted \ {r.wallet} /\ restarts' = restarts
    BY <1>8, <2>1 DEF DustFails, Drop, Keep, Released
  <2>4. \A w \in Wallet : \A q : q \in GrantsOf(w)' <=> q \in GrantsOf(w) /\ q # r
    BY <1>0, <2>2, <2>3 DEF GrantsOf
  <2> QED BY <1>0, <2>2, <2>3, <2>4, GrantGoes
<1>9. ASSUME NEW r \in kept, Land(r) PROVE goal
  <2>1. PICK s : s = [r EXCEPT !.landed = TRUE]
    OBVIOUS
  <2>2. r \in AskType /\ r.wallet \in Wallet /\ s.route = r.route /\ s.wallet = r.wallet
        /\ s.life = r.life /\ s.pc = r.pc
    BY <1>0, <2>1 DEF AskType
  <2>3. /\ asks' = Moved(asks, "down") /\ kept' = (kept \ {r}) \cup {s}
        /\ dustGranted' = dustGranted /\ restarts' = restarts
    BY <1>9, <2>1 DEF Land
  <2>4. \A q : q.route = "dust" => (q \in asks' <=> q \in asks)
    <3>1. asks \in SUBSET asks
      OBVIOUS
    <3> QED BY <2>3, <3>1, RestGrants
  <2>5. CASE r \in GrantsOf(r.wallet)
    <3>1. \A w \in Wallet : \A q :
              q \in GrantsOf(w)' <=> (q \in GrantsOf(w) /\ q # r) \/ (w = r.wallet /\ q = s)
      BY <1>0, <2>2, <2>3, <2>4, <2>5 DEF GrantsOf
    <3> QED BY <1>0, <2>2, <2>3, <2>5, <3>1, GrantGoesOn
  <2>6. CASE r \notin GrantsOf(r.wallet)
    <3>1. \A w \in Wallet : \A q : q \in GrantsOf(w)' <=> q \in GrantsOf(w)
      BY <1>0, <2>2, <2>3, <2>4, <2>6 DEF GrantsOf
    <3> QED BY <1>0, <2>3, <3>1, GrantsStay
  <2> QED BY <2>5, <2>6
<1>10. ASSUME NEW way \in {"up", "down"}, RentMoves(way) PROVE goal
  <2>1. /\ asks' = Moved(asks, way) /\ kept' = kept
        /\ dustGranted' = dustGranted /\ restarts' = restarts /\ asks \in SUBSET asks
    BY <1>10 DEF RentMoves
  <2>2. \A q : q.route = "dust" => (q \in asks' <=> q \in asks)
    BY <2>1, RestGrants
  <2>3. \A w \in Wallet : \A q : q \in GrantsOf(w)' <=> q \in GrantsOf(w)
    BY <2>1, <2>2 DEF GrantsOf
  <2> QED BY <1>0, <2>1, <2>3, GrantsStay
<1>11. ASSUME NEW w \in Wallet, WalletSpends(w) PROVE goal
  BY <1>0, <1>11, GrantsStay DEF WalletSpends, GrantsOf
<1> QED BY <1>2, <1>3, <1>4, <1>5, <1>6, <1>7, <1>8, <1>9, <1>10, <1>11 DEF SponsorStep

LEMMA RestartMarks ==
    ASSUME DustInv, Restart
    PROVE  Marks'
<1>1. /\ restarts' = restarts + 1 /\ asks' = {} /\ dustGranted' = {} /\ restarts \in Nat
      /\ kept' = kept \cup {[r EXCEPT !.pc = "failed"] : r \in {q \in asks : q.pc \in {"sending", "running"}}}
  BY DEF Restart, DustInv, SponsorInv, SponsorTyped
<1>2. ASSUME NEW q \in kept', q.pc = "sent" PROVE q \in kept
  <2>1. ASSUME NEW r \in asks, q = [r EXCEPT !.pc = "failed"] PROVE FALSE
    <3>1. r \in AskType
      BY DEF DustInv, SponsorInv, SponsorTyped
    <3> QED BY <1>2, <2>1, <3>1 DEF AskType
  <2> QED BY <1>1, <2>1
<1>3. \A q \in kept : q.life <= restarts /\ q.life \in Nat
  BY DEF DustInv, SponsorInv, Told, SponsorTyped, AskType
<1>4. \A w \in Wallet : GrantsOf(w)' = {}
  BY <1>1, <1>2, <1>3 DEF GrantsOf
<1>5. \A w \in Wallet : (\A p, q \in GrantsOf(w)' : p = q) /\ (w \in dustGranted' <=> GrantsOf(w)' # {})
  BY <1>1, <1>4
<1> QED BY <1>5 DEF Marks

LEMMA SponsorNextMarks == DustInv /\ [SponsorNext]_<<vars, sponsorVars>> => DustInv'
<1> SUFFICES ASSUME DustInv, [SponsorNext]_<<vars, sponsorVars>> PROVE Marks'
  BY SponsorNextInv DEF DustInv
<1>1. CASE SponsorStep
  BY <1>1, SponsorStepMarks
<1>2. CASE Restart
  BY <1>2, RestartMarks
<1>3. CASE UNCHANGED sponsorVars
  BY <1>3, GrantsStay DEF sponsorVars, GrantsOf, DustInv
<1> QED BY <1>1, <1>2, <1>3 DEF SponsorNext

LEMMA MarkedOnce == DustInv => DustOnce
<1> SUFFICES ASSUME DustInv, NEW w \in Wallet PROVE Cardinality(GrantsOf(w)) <= 1
  BY DEF DustInv, Marks, DustOnce
<1>1. CASE GrantsOf(w) = {}
  BY <1>1, FS_EmptySet
<1>2. CASE GrantsOf(w) # {}
  <2>1. PICK r : r \in GrantsOf(w)
    BY <1>2
  <2>2. GrantsOf(w) = {r}
    BY <2>1 DEF DustInv, Marks
  <2> QED BY <2>2, FS_Singleton
<1> QED BY <1>1, <1>2

(* "Once per wallet": in one life of the process a wallet has at most one   *)
(* grant, in flight or made, and it is marked exactly while it has one; a   *)
(* failed grant never leaves it locked out.                                 *)
THEOREM DustGrantedOnce == SponsorSpec => []DustOnce
<1>1. SponsorInit => DustInv
  <2> SUFFICES ASSUME SponsorInit PROVE Marks
    BY SponsorInvInit DEF DustInv
  <2> QED BY DEF SponsorInit, Marks, GrantsOf
<1>2. SponsorSpec => []DustInv
  BY <1>1, SponsorNextMarks, PTL DEF SponsorSpec
<1> QED BY <1>2, MarkedOnce, PTL
=============================================================================
