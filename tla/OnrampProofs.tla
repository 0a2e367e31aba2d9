---------------------------- MODULE OnrampProofs ----------------------------
(***************************************************************************)
(* Proofs about Onramp, for any number of top-ups, wallets, requests at    *)
(* once, failures and restarts: an event has one attempt at a time, mints  *)
(* at most once for each attempt that failed, each restart and one more,   *)
(* and the reserve of provider traffic is what its attempts credited and   *)
(* enough for every mint that has landed or still may; and with operators  *)
(* beside them the peg and the daily caps are passed by no more than what  *)
(* the other requests carry.                                               *)
(***************************************************************************)
EXTENDS Onramp, MoneyProofs

-----------------------------------------------------------------------------
(* The invariants. *)
TaskRec == [pc : Pcs, src : Source \cup {None},
            supplySeen : Nat \cup {None}, reserveSeen : Nat \cup {None}]
ChainType ==
    /\ supply \in Nat /\ orphans \in [Source -> Nat] /\ minted \in [Source -> Nat]
MemoryType ==
    /\ mockReserve \in Nat /\ seeding \in {"no", "running", "done", "rejected"}
    /\ task \in [Slot -> TaskRec] /\ inFlight \subseteq Event
    /\ credits \in [Event -> [status : {"credited", "rejected"}, at : Nat] \cup {None}]
ProviderType ==
    /\ payment \in [Event -> {"none", "open", "paid"}] /\ acked \subseteq Event
    /\ now \in Nat /\ failed \in [Event -> Nat] /\ crashes \in Nat /\ adminOps \in Nat
Types == ChainType /\ MemoryType /\ ProviderType

(* Who leads an attempt, who is past crediting the reserve for it, and who  *)
(* has sent its mint.                                                       *)
MintPcs == {"flying", "landed", "after"}
PastPcs == {"reading"} \cup MintPcs
LeadPcs == {"treasury"} \cup PastPcs
Has(e, P) == \E t \in Slot : task[t].src = e /\ task[t].pc \in P

(* One leader for an event in flight, none for any other; whoever waits     *)
(* waits for one; and nothing is sent before the ledger is seeded.          *)
Tidy ==
    \A t \in Slot :
          /\ task[t].pc = "idle" => task[t] = IdleTask
          /\ task[t].pc \in PastPcs => task[t].src \in Source
          /\ task[t].pc = "treasury" => task[t].src \in Event
          /\ task[t].pc = "waiting" => task[t].src \in inFlight
          /\ task[t].pc = "reading" /\ task[t].reserveSeen # None => seeding = "done"
          /\ task[t].pc \in MintPcs => seeding = "done"
OneLeader ==
    \A t, u \in Slot : task[t].src \in Event /\ task[t].src = task[u].src
                       /\ task[t].pc \in LeadPcs /\ task[u].pc \in LeadPcs => t = u
InFlightLed == \A e \in Event : e \in inFlight <=> Has(e, LeadPcs)
NotYetCredited == \A e \in inFlight : credits[e] = None
SlotInv == Tidy /\ OneLeader /\ InFlightLed /\ NotYetCredited

One(b) == IF b THEN 1 ELSE 0
Credited(e) == credits[e] # None /\ credits[e].status = "credited"

(* A mint belongs to an attempt that failed, to one a restart cut off, to   *)
(* the one that was credited or to the one under way.                       *)
MintOk(e) == minted[e] + orphans[e] + One(Has(e, {"flying"}))
                 <= failed[e] + crashes + One(Credited(e)) + One(Has(e, MintPcs))
MintInv == \A e \in Event : MintOk(e)

(* What provider traffic alone has minted, and credited.                    *)
Attempts(e) == failed[e] + One(Credited(e)) + One(Has(e, PastPcs))
MintedWorth  == [e \in Event |-> minted[e] * Amount[e]]
CreditedWorth == [e \in Event |-> Attempts(e) * Amount[e]]
MintedSum   == Sum(MintedWorth, Event)
CreditedSum == Sum(CreditedWorth, Event)
NoneByAdmin == /\ \A t \in Slot : task[t].src # Admin
               /\ orphans[Admin] = 0 /\ minted[Admin] = 0
NoneUnseeded == seeding # "done" => \A e \in Event : minted[e] = 0 /\ orphans[e] = 0
ReserveIs == mockReserve = (IF seeding = "done" THEN InitialSupply ELSE 0) + CreditedSum
ReserveInv ==
    Untouched => NoneByAdmin /\ NoneUnseeded /\ supply = InitialSupply + MintedSum /\ ReserveIs

-----------------------------------------------------------------------------
(* What requests in flight can pass.  Load is the most that the requests of *)
(* a set of slots can carry.                                                *)
Load(S) == Cardinality(S) * LargestAmount

(* A wrap that has read the supply, and has yet to learn of its mint.       *)
Pending(t) == task[t].pc \in {"reading", "flying"} /\ task[t].supplySeen # None
Late(n)    == {u \in Slot : Pending(u) /\ task[u].supplySeen <= n}

(* A wrap has the headroom it saw, but for what those that read no more     *)
(* than it did can still mint, or they all fit the bound.                   *)
Fits(t) == LET seen == task[t].supplySeen IN
    \/ supply + Load(Late(seen) \ {t}) <= seen + Ahead
    \/ supply + Load(Late(seen)) <= mockReserve + Ahead
Reads(t) ==
    /\ task[t].pc \in {"reading", "flying"} =>
          /\ task[t].supplySeen # None => task[t].supplySeen <= supply
          /\ task[t].reserveSeen # None => task[t].reserveSeen <= mockReserve
    /\ task[t].pc = "flying" =>
          task[t].supplySeen # None /\ task[t].supplySeen + AmountOf(task[t].src) <= mockReserve
NoneOrphaned == \A s \in Source : orphans[s] = 0
PegBounded   == seeding = "done" => supply <= mockReserve + Ahead
Pegged == /\ NoneOrphaned /\ PegBounded
          /\ \A t \in Slot : Reads(t) /\ (Pending(t) => Fits(t))
PegInv == faults = 0 /\ crashes = 0 => Pegged

(* The credits under way for a wallet.                                      *)
Runners(w) == {t \in Slot : task[t].pc \in LeadPcs /\ task[t].src \in Event /\ WalletOf[task[t].src] = w}
CapBounded(w) ==
    LET credited == CreditedToday(w) IN
        /\ credited <= CapLimit + Ahead
        /\ Runners(w) # {} => \E t \in Runners(w) :
              credited + Amount[task[t].src] + Load(Runners(w) \ {t}) <= CapLimit + Ahead

-----------------------------------------------------------------------------
(* Sums. *)

(* One summand changes. *)
LEMMA SumMoves ==
    ASSUME NEW S, IsFiniteSet(S), NEW f, NEW g, \A y \in S : f[y] \in Int /\ g[y] \in Int,
           NEW x \in S, \A y \in S \ {x} : g[y] = f[y]
    PROVE  Sum(g, S) = Sum(f, S) + g[x] - f[x]
<1>1. Sum(f, S) = f[x] + Sum(f, S \ {x}) /\ Sum(g, S) = g[x] + Sum(g, S \ {x})
  BY SumRemove
<1>2. IsFiniteSet(S \ {x})
  BY FS_RemoveElement
<1>3. Sum(f, S \ {x}) = Sum(g, S \ {x}) /\ Sum(f, S \ {x}) \in Int
  BY <1>2, SumSame, SumType
<1>4. f[x] \in Int /\ g[x] \in Int
  OBVIOUS
<1> QED BY <1>1, <1>3, <1>4

(* A sum of sums, again by the smallest counterexample.                     *)
LEMMA SumPlus ==
    ASSUME NEW f, NEW g, NEW h, NEW S, IsFiniteSet(S),
           \A x \in S : f[x] \in Int /\ g[x] \in Int /\ h[x] = f[x] + g[x]
    PROVE  Sum(h, S) = Sum(f, S) + Sum(g, S)
<1> DEFINE Bad(t) == Sum(h, t) # Sum(f, t) + Sum(g, t)
           B == {n \in Nat : \E t \in SUBSET S : Cardinality(t) = n /\ Bad(t)}
<1>1. ASSUME NEW n \in B PROVE \E m \in B : m < n
  <2>1. PICK t \in SUBSET S : Cardinality(t) = n /\ Bad(t)
    OBVIOUS
  <2>2. t # {} /\ IsFiniteSet(t)
    <3>1. ~Bad({})
      BY SumEmpty
    <3> HIDE DEF Bad
    <3> QED BY <2>1, <3>1, FS_Subset
  <2> DEFINE x == Pick(t)
             u == t \ {Pick(t)}
  <2>3. x \in t /\ x \in S /\ u \in SUBSET S
    BY <2>2, PickIn
  <2>4. /\ Sum(f, t) = f[x] + Sum(f, u) /\ Sum(g, t) = g[x] + Sum(g, u)
        /\ Sum(h, t) = h[x] + Sum(h, u)
    BY <2>2, SumPick
  <2>5. Cardinality(u) < n /\ Cardinality(u) \in Nat
    BY <2>1, <2>3, OneLess
  <2>6. IsFiniteSet(u) /\ Sum(f, u) \in Int /\ Sum(g, u) \in Int
    BY <2>3, FS_Subset, SumType
  <2>7. f[x] \in Int /\ g[x] \in Int /\ h[x] = f[x] + g[x]
    BY <2>3
  <2>8. Bad(u)
    <3> HIDE DEF x, u
    <3> QED BY <2>1, <2>4, <2>6, <2>7
  <2>9. Cardinality(u) \in B
    <3> HIDE DEF Bad
    <3> QED BY <2>3, <2>5, <2>8
  <2> QED BY <2>5, <2>9
<1>2. B = {}
  <2> HIDE DEF B
  <2>1. B \in SUBSET Nat
    BY DEF B
  <2> QED BY <1>1, <2>1, NoLeast
<1>3. Cardinality(S) \in Nat
  BY FS_CardinalityType
<1> QED BY <1>2, <1>3

(* A fold over a set is the sum of the function that it maps.               *)
LEMMA FoldIsSum ==
    ASSUME NEW f, NEW S, IsFiniteSet(S), NEW fold,
           fold = CHOOSE g : g = [s \in SUBSET S |->
               IF s = {} THEN 0
               ELSE f[CHOOSE x \in s : TRUE] + g[s \ {CHOOSE x \in s : TRUE}]]
    PROVE  fold[S] = Sum(f, S)
<1> DEFINE Adds(g) == g = [s \in SUBSET S |->
               IF s = {} THEN 0
               ELSE f[CHOOSE x \in s : TRUE] + g[s \ {CHOOSE x \in s : TRUE}]]
<1>1. ASSUME NEW g PROVE IsTable(g, f, SUBSET S) <=> Adds(g)
  BY DEF IsTable, Step, Pick
<1>2. IsTable(fold, f, SUBSET S)
  <2>1. \E g : Adds(g)
    <3> HIDE DEF Adds
    <3> QED BY <1>1, TableExists
  <2>2. fold = CHOOSE g : Adds(g)
    OBVIOUS
  <2> HIDE DEF Adds
  <2>3. Adds(fold)
    BY <2>1, <2>2
  <2> QED BY <1>1, <2>3
<1> QED BY <1>2, TableIsSum

-----------------------------------------------------------------------------
(* Slots. *)

(* A set with one element, or none. *)
LEMMA AtMostOne ==
    ASSUME NEW S, \A x, y \in S : x = y
    PROVE  IsFiniteSet(S) /\ Cardinality(S) = One(S # {})
<1>1. CASE S = {}
  BY <1>1, FS_EmptySet DEF One
<1>2. CASE S # {}
  <2>1. PICK x : S = {x}
    BY <1>2
  <2> QED BY <1>2, <2>1, FS_Singleton DEF One
<1> QED BY <1>1, <1>2

LEMMA SlotType ==
    ASSUME MemoryType, SlotInv, NEW t \in Slot
    PROVE  /\ task[t] \in TaskRec /\ task[t].pc \in Pcs
           /\ task[t].src \in Event => task[t].pc \in LeadPcs \cup {"waiting"}
           /\ task[t].pc \in LeadPcs => task[t].src \in Source
  BY EventAssumption DEF MemoryType, TaskRec, SlotInv, Tidy, IdleTask, Pcs, LeadPcs, PastPcs, MintPcs, Source

LEMMA CountsAreOne ==
    ASSUME MemoryType, SlotInv, NEW e \in Event
    PROVE  /\ Flying(e) = One(Has(e, {"flying"}))
           /\ Cardinality({t \in LeadersOf(e) : task[t].pc # "treasury"}) = One(Has(e, PastPcs))
           /\ Cardinality(LeadersOf(e)) = One(e \in inFlight)
           /\ \A T \in SUBSET Slot : Cardinality({t \in T : task[t].pc = "flying" /\ task[t].src = e})
                                     = One(\E t \in T : task[t].pc = "flying" /\ task[t].src = e)
<1>1. \A t \in LeadersOf(e) : t \in Slot /\ task[t].src = e /\ task[t].pc \in LeadPcs
  BY SlotType DEF LeadersOf
<1>2. \A t, u \in LeadersOf(e) : t = u
  BY <1>1 DEF SlotInv, OneLeader
<1>3. Flying(e) = One(Has(e, {"flying"}))
  <2> DEFINE S == {t \in Slot : task[t].pc = "flying" /\ task[t].src = e}
  <2>1. \A t, u \in S : t = u
    BY <1>2 DEF LeadersOf
  <2>2. S # {} <=> Has(e, {"flying"})
    BY DEF Has
  <2> QED BY <2>1, <2>2, AtMostOne DEF Flying, One
<1>4. Cardinality({t \in LeadersOf(e) : task[t].pc # "treasury"}) = One(Has(e, PastPcs))
  <2> DEFINE S == {t \in LeadersOf(e) : task[t].pc # "treasury"}
  <2>1. \A t, u \in S : t = u
    BY <1>2
  <2>2. S # {} <=> Has(e, PastPcs)
    BY <1>1 DEF Has, LeadersOf, LeadPcs, PastPcs, MintPcs
  <2> QED BY <2>1, <2>2, AtMostOne DEF One
<1>5. Cardinality(LeadersOf(e)) = One(e \in inFlight)
  <2>1. LeadersOf(e) # {} <=> Has(e, LeadPcs)
    BY <1>1 DEF Has, LeadersOf, LeadPcs, PastPcs, MintPcs
  <2>2. LeadersOf(e) # {} <=> e \in inFlight
    BY <2>1 DEF SlotInv, InFlightLed
  <2> QED BY <1>2, <2>2, AtMostOne DEF One
<1>6. ASSUME NEW T \in SUBSET Slot
      PROVE  Cardinality({t \in T : task[t].pc = "flying" /\ task[t].src = e})
             = One(\E t \in T : task[t].pc = "flying" /\ task[t].src = e)
  <2> DEFINE S == {t \in T : task[t].pc = "flying" /\ task[t].src = e}
  <2>1. \A t, u \in S : t = u
    BY <1>2 DEF LeadersOf
  <2>2. S # {} <=> \E t \in T : task[t].pc = "flying" /\ task[t].src = e
    OBVIOUS
  <2> QED BY <2>1, <2>2, AtMostOne DEF One
<1> QED BY <1>3, <1>4, <1>5, <1>6

(* One slot moves: an event neither its old nor its new leader is about     *)
(* stays as it is, and the event it leads is where it is.                   *)
LEMMA HasMoves ==
    ASSUME MemoryType, SlotInv, NEW t \in Slot, NEW r, task' = [task EXCEPT ![t] = r],
           NEW e, NEW P \in SUBSET LeadPcs
    PROVE  /\ (task[t].src # e \/ task[t].pc \notin P) /\ (r.src # e \/ r.pc \notin P)
                 => (Has(e, P)' <=> Has(e, P))
           /\ e \in Event /\ task[t].src = e /\ task[t].pc \in LeadPcs /\ r.src = e
                 => (Has(e, P) <=> task[t].pc \in P) /\ (Has(e, P)' <=> r.pc \in P)
<1>0. task \in [Slot -> TaskRec]
  BY DEF MemoryType
<1>1. \A u \in Slot : task'[u] = IF u = t THEN r ELSE task[u]
  BY <1>0
<1>2. ASSUME task[t].src # e \/ task[t].pc \notin P, r.src # e \/ r.pc \notin P
      PROVE  Has(e, P)' <=> Has(e, P)
  BY <1>1, <1>2 DEF Has
<1>3. ASSUME e \in Event, task[t].src = e, task[t].pc \in LeadPcs, r.src = e
      PROVE  (Has(e, P) <=> task[t].pc \in P) /\ (Has(e, P)' <=> r.pc \in P)
  <2>1. \A u \in Slot : task[u].src = e /\ task[u].pc \in LeadPcs => u = t
    BY <1>3 DEF SlotInv, OneLeader
  <2> QED BY <1>1, <1>3, <2>1 DEF Has
<1> QED BY <1>2, <1>3

(* A leader takes its next step. *)
LEMMA LeaderKeeps ==
    ASSUME MemoryType, SlotInv, NEW t \in Slot, NEW r \in TaskRec, task' = [task EXCEPT ![t] = r],
           task[t].pc \in LeadPcs, r.src = task[t].src, r.pc \in PastPcs,
           seeding = "done" => seeding' = "done",
           r.pc = "reading" /\ r.reserveSeen # None => seeding' = "done",
           r.pc \in MintPcs => seeding' = "done",
           inFlight' = inFlight, credits' = credits
    PROVE  SlotInv'
<1>0. \A u \in Slot : task'[u] = IF u = t THEN r ELSE task[u]
  BY DEF MemoryType
<1>1. task[t].src \in Source
  BY SlotType
<1>2. Tidy'
  BY <1>0, <1>1 DEF SlotInv, Tidy, PastPcs, MintPcs
<1>3. OneLeader'
  <2>1. \A u \in Slot : task'[u].src = task[u].src
                        /\ (task'[u].pc \in LeadPcs <=> task[u].pc \in LeadPcs)
    BY <1>0 DEF LeadPcs
  <2> QED BY <2>1 DEF SlotInv, OneLeader
<1>4. InFlightLed'
  <2>1. \A u \in Slot : task'[u].src = task[u].src
                        /\ (task'[u].pc \in LeadPcs <=> task[u].pc \in LeadPcs)
    BY <1>0 DEF LeadPcs
  <2> QED BY <2>1 DEF SlotInv, InFlightLed, Has
<1> QED BY <1>2, <1>3, <1>4 DEF SlotInv, NotYetCredited

(* An idle slot takes a request up. *)
LEMMA TakenUpKeeps ==
    ASSUME MemoryType, SlotInv, NEW t \in Slot, NEW r \in TaskRec, task' = [task EXCEPT ![t] = r],
           task[t].pc = "idle", seeding = "done" => seeding' = "done",
           credits' = credits,
           \/ r.pc = "waiting" /\ r.src \in inFlight /\ inFlight' = inFlight
           \/ /\ r.pc = "treasury" /\ r.src \in Event \ inFlight /\ credits[r.src] = None
              /\ inFlight' = inFlight \cup {r.src}
           \/ /\ r.pc = "reading" /\ r.src = Admin /\ inFlight' = inFlight
              /\ r.reserveSeen # None => seeding' = "done"
    PROVE  SlotInv'
<1>0. \A u \in Slot : task'[u] = IF u = t THEN r ELSE task[u]
  BY DEF MemoryType
<1>1. inFlight \subseteq Event /\ Admin \notin Event /\ Source = Event \cup {Admin}
  BY EventAssumption DEF MemoryType, Source
<1>2. Tidy'
  BY <1>0, <1>1 DEF SlotInv, Tidy, PastPcs, MintPcs
<1>3. OneLeader'
  <2>1. \A u \in Slot : task[u].src \in Event /\ task[u].pc \in LeadPcs => task[u].src \in inFlight
    BY DEF SlotInv, InFlightLed, Has
  <2>2. r.src \in Event /\ r.pc \in LeadPcs => r.src \notin inFlight
    BY <1>1 DEF LeadPcs, PastPcs, MintPcs
  <2> QED BY <1>0, <2>1, <2>2 DEF SlotInv, OneLeader
<1>4. InFlightLed'
  <2> SUFFICES ASSUME NEW e \in Event PROVE e \in inFlight' <=> Has(e, LeadPcs)'
    BY DEF InFlightLed
  <2>1. e \in inFlight <=> Has(e, LeadPcs)
    BY DEF SlotInv, InFlightLed
  <2>2. task[t].pc \notin LeadPcs
    BY DEF LeadPcs, PastPcs, MintPcs
  <2>3. CASE r.pc = "treasury"
    <3>1. r.pc \in LeadPcs
      BY <2>3 DEF LeadPcs
    <3>2. Has(e, LeadPcs)' <=> Has(e, LeadPcs) \/ e = r.src
      BY <1>0, <2>2, <3>1 DEF Has
    <3> QED BY <2>1, <2>3, <3>2
  <2>4. CASE r.pc # "treasury"
    <3>1. r.src # e \/ r.pc \notin LeadPcs
      BY <2>4, <1>1 DEF LeadPcs, PastPcs, MintPcs
    <3>2. Has(e, LeadPcs)' <=> Has(e, LeadPcs)
      BY <1>0, <2>2, <3>1 DEF Has
    <3> QED BY <2>1, <2>4, <3>2
  <2> QED BY <2>3, <2>4
<1>5. NotYetCredited'
  BY DEF SlotInv, NotYetCredited
<1> QED BY <1>2, <1>3, <1>4, <1>5 DEF SlotInv

(* Attempts end: their slots and their followers are free, and no other     *)
(* slot is.                                                                 *)
LEMMA Freed ==
    ASSUME MemoryType, SlotInv, NEW T \in SUBSET Slot, \A t \in T : task[t].pc \in LeadPcs,
           FreeSlots(T)
    PROVE  /\ \A u \in Slot : task'[u] = task[u] \/ task'[u] = IdleTask
           /\ \A u \in Slot : task[u].pc \in LeadPcs =>
                 task'[u] = IF u \in T THEN IdleTask ELSE task[u]
           /\ \A u \in Slot : task[u].pc = "waiting" /\ task'[u] # IdleTask =>
                 task[u].src \notin EventsOf(T)
           /\ task' \in [Slot -> TaskRec]
<1>1. /\ task' = [u \in Slot |-> IF u \in SettledWith(T) THEN IdleTask ELSE task[u]]
      /\ task \in [Slot -> TaskRec]
  BY DEF FreeSlots, MemoryType
<1>2. IdleTask \in TaskRec
  BY DEF IdleTask, TaskRec, Pcs
<1>3. \A u \in Slot : task[u].pc \in LeadPcs => (u \in SettledWith(T) <=> u \in T)
  BY DEF SettledWith, LeadPcs, PastPcs, MintPcs
<1>4. \A u \in Slot : task[u].pc = "waiting" /\ task[u].src \in EventsOf(T) => u \in SettledWith(T)
  BY DEF SettledWith, EventsOf
<1> QED BY <1>1, <1>2, <1>3, <1>4

LEMMA FreedKeeps ==
    ASSUME MemoryType, SlotInv, NEW T \in SUBSET Slot, \A t \in T : task[t].pc \in LeadPcs,
           FreeSlots(T), inFlight' = StillInFlight(T), seeding = "done" => seeding' = "done",
           \A e \in inFlight' : credits'[e] = credits[e]
    PROVE  SlotInv'
<1>0. \A u \in Slot : task'[u] = task[u] \/ (task'[u] = IdleTask /\ task'[u].pc = "idle")
  BY Freed DEF IdleTask
<1>1. inFlight' = inFlight \ EventsOf(T)
  BY DEF StillInFlight
<1>2. Tidy'
  <2> SUFFICES ASSUME NEW u \in Slot, task'[u] = task[u], task[u].pc # "idle"
               PROVE  /\ task[u].pc \in PastPcs => task[u].src \in Source
                      /\ task[u].pc = "treasury" => task[u].src \in Event
                      /\ task[u].pc = "waiting" => task[u].src \in inFlight'
                      /\ task[u].pc = "reading" /\ task[u].reserveSeen # None => seeding' = "done"
                      /\ task[u].pc \in MintPcs => seeding' = "done"
    BY <1>0 DEF SlotInv, Tidy, PastPcs, MintPcs
  <2>1. task[u].pc = "waiting" => task[u].src \notin EventsOf(T)
    <3>1. task[u].pc # "idle" /\ task'[u] # IdleTask
      BY DEF IdleTask
    <3> QED BY <3>1, Freed
  <2> QED BY <2>1, <1>1 DEF SlotInv, Tidy
<1>3. \A u \in Slot : task'[u].pc \in LeadPcs =>
          task'[u] = task[u] /\ task[u].pc \in LeadPcs /\ u \notin T
  <2>1. "idle" \notin LeadPcs
    BY DEF LeadPcs, PastPcs, MintPcs
  <2> SUFFICES ASSUME NEW u \in Slot, task'[u].pc \in LeadPcs
               PROVE  task'[u] = task[u] /\ task[u].pc \in LeadPcs /\ u \notin T
    OBVIOUS
  <2>2. task'[u] = task[u]
    BY <1>0, <2>1
  <2>3. u \notin T
    <3>1. task[u].pc \in LeadPcs /\ task'[u] # IdleTask
      BY <2>1, <2>2 DEF IdleTask
    <3> QED BY <3>1, Freed
  <2> QED BY <2>2, <2>3
<1>4. OneLeader'
  BY <1>3 DEF SlotInv, OneLeader
<1>5. InFlightLed'
  <2> SUFFICES ASSUME NEW e \in Event PROVE e \in inFlight' <=> Has(e, LeadPcs)'
    BY DEF InFlightLed
  <2>1. ASSUME e \in inFlight' PROVE Has(e, LeadPcs)'
    <3>1. e \in inFlight /\ e \notin EventsOf(T)
      BY <2>1, <1>1
    <3>2. PICK u \in Slot : task[u].src = e /\ task[u].pc \in LeadPcs
      BY <3>1 DEF SlotInv, InFlightLed, Has
    <3>3. u \notin T
      BY <3>1, <3>2, EventAssumption DEF EventsOf
    <3>4. task'[u] = task[u]
      BY <3>2, <3>3, Freed
    <3> QED BY <3>2, <3>4 DEF Has
  <2>2. ASSUME Has(e, LeadPcs)' PROVE e \in inFlight'
    <3>1. PICK u \in Slot : task'[u].src = e /\ task'[u].pc \in LeadPcs
      BY <2>2 DEF Has
    <3>2. task[u].src = e /\ task[u].pc \in LeadPcs /\ u \notin T
      BY <1>3, <3>1
    <3>3. e \in inFlight
      BY <3>2 DEF SlotInv, InFlightLed, Has
    <3>4. e \notin EventsOf(T)
      BY <3>2 DEF EventsOf, SlotInv, OneLeader
    <3> QED BY <1>1, <3>3, <3>4
  <2> QED BY <2>1, <2>2
<1>6. NotYetCredited'
  BY <1>1 DEF SlotInv, NotYetCredited
<1> QED BY <1>2, <1>4, <1>5, <1>6 DEF SlotInv

(* What is left of the events once they have ended. *)
LEMMA HasFreed ==
    ASSUME MemoryType, SlotInv, NEW T \in SUBSET Slot, \A t \in T : task[t].pc \in LeadPcs,
           FreeSlots(T), NEW e \in Event, NEW P \in SUBSET LeadPcs
    PROVE  /\ e \notin EventsOf(T) => (Has(e, P)' <=> Has(e, P))
           /\ e \in EventsOf(T) => /\ ~Has(e, P)'
                                   /\ Has(e, P) <=> \E t \in T : task[t].src = e /\ task[t].pc \in P
<1>1. "idle" \notin LeadPcs
  BY DEF LeadPcs, PastPcs, MintPcs
<1>2. \A u \in Slot : task'[u].pc \in P => task'[u] = task[u] /\ u \notin T
  BY <1>1, Freed DEF IdleTask
<1>3. \A u \in Slot : task[u].pc \in P /\ u \notin T => task'[u] = task[u]
  BY Freed
<1>4. ASSUME e \notin EventsOf(T) PROVE Has(e, P)' <=> Has(e, P)
  <2>1. \A t \in T : task[t].src # e
    BY <1>4, EventAssumption DEF EventsOf
  <2> QED BY <1>2, <1>3, <2>1 DEF Has
<1>5. ASSUME e \in EventsOf(T)
      PROVE  ~Has(e, P)' /\ (Has(e, P) <=> \E t \in T : task[t].src = e /\ task[t].pc \in P)
  <2>1. PICK t \in T : task[t].src = e
    BY <1>5 DEF EventsOf
  <2>2. \A u \in Slot : task[u].src = e /\ task[u].pc \in LeadPcs => u = t
    BY <2>1 DEF SlotInv, OneLeader
  <2> QED BY <1>2, <2>1, <2>2 DEF Has
<1> QED BY <1>4, <1>5

-----------------------------------------------------------------------------
(* The types. *)

LEMMA AmountType == ASSUME NEW s \in Source PROVE AmountOf(s) \in Nat \ {0}
  BY EventAssumption DEF AmountOf, Source

LEMMA CountType ==
    ASSUME NEW S \in SUBSET Slot PROVE IsFiniteSet(S) /\ Cardinality(S) \in Nat
  BY EventAssumption, FS_Subset, FS_CardinalityType

LEMMA TypesStart == Init => Types /\ SlotInv /\ MintInv
<1> SUFFICES ASSUME Init PROVE Types /\ SlotInv /\ MintInv
  OBVIOUS
<1>1. IdleTask \in TaskRec /\ IdleTask.pc = "idle" /\ IdleTask.src = None
  BY DEF IdleTask, TaskRec, Pcs
<1>2. Types
  BY <1>1, EventAssumption DEF Init, Types, ChainType, MemoryType, ProviderType
<1>3. \A e \in Event, P \in SUBSET LeadPcs : ~Has(e, P)
  BY <1>1 DEF Init, Has, LeadPcs, PastPcs, MintPcs
<1>4. SlotInv
  BY <1>1, <1>3 DEF Init, SlotInv, Tidy, OneLeader, InFlightLed, NotYetCredited, LeadPcs, PastPcs, MintPcs
<1>5. {"flying"} \in SUBSET LeadPcs /\ MintPcs \in SUBSET LeadPcs
  BY DEF LeadPcs, PastPcs, MintPcs
<1>6. MintInv
  BY <1>3, <1>5 DEF Init, MintInv, MintOk, One, Credited, Source
<1> QED BY <1>2, <1>4, <1>6

(* Throw leaves its counters natural numbers. *)
LEMMA ThrowTypes ==
    ASSUME Types, SlotInv, NEW T \in SUBSET Slot, \A t \in T : task[t].pc \in LeadPcs, Throw(T),
           seeding' \in {"no", "running", "done", "rejected"}
    PROVE  Types'
<1>1. task' \in [Slot -> TaskRec]
  BY Freed DEF Throw, Types
<1>2. orphans' \in [Source -> Nat]
  <2>1. \A s \in Source : Cardinality({t \in T : task[t].pc = "flying" /\ task[t].src = s}) \in Nat
    BY CountType
  <2> QED BY <2>1 DEF Throw, Types, ChainType
<1>3. failed' \in [Event -> Nat]
  BY DEF Throw, Types, ProviderType
<1> QED
  BY <1>1, <1>2, <1>3 DEF Throw, StillInFlight, Types, ChainType, MemoryType, ProviderType, provider

LEMMA MintTypes ==
    ASSUME Types, NEW s \in Source, MintLands(s)
    PROVE  supply' \in Nat /\ minted' \in [Source -> Nat]
  BY AmountType DEF MintLands, Types, ChainType

LEMMA TypesKeep ==
    ASSUME Types, SlotInv, [Next]_vars
    PROVE  Types'
<1> USE DEF chain, process, provider, budget
<1>0. IdleTask \in TaskRec
  BY DEF IdleTask, TaskRec, Pcs
<1>1. ASSUME NEW e \in Event, Checkout(e) \/ Pay(e) \/ Replay(e) \/ Reject(e) PROVE Types'
  BY <1>1 DEF Checkout, Pay, Replay, Reject, Types, ChainType, MemoryType, ProviderType
<1>2. ASSUME NEW t \in Slot, NEW r \in TaskRec, task' = [task EXCEPT ![t] = r]
      PROVE  task' \in [Slot -> TaskRec]
  BY <1>2 DEF Types, MemoryType
<1>3. ASSUME NEW e \in Event, NEW t \in Slot, Join(e, t) PROVE Types'
  <2>1. task' = [task EXCEPT ![t] = [task[t] EXCEPT !.pc = "waiting", !.src = e]] /\ task[t] \in TaskRec
    BY <1>3 DEF Join, Types, MemoryType
  <2>2. [task[t] EXCEPT !.pc = "waiting", !.src = e] \in TaskRec
    BY <2>1 DEF TaskRec, Pcs, Source
  <2> QED BY <1>2, <1>3, <2>1, <2>2 DEF Join, Types, ChainType, MemoryType, ProviderType
<1>4. ASSUME NEW e \in Event, NEW t \in Slot, Lead(e, t) PROVE Types'
  <2>1. task' = [task EXCEPT ![t] = [task[t] EXCEPT !.pc = "treasury", !.src = e]] /\ task[t] \in TaskRec
    BY <1>4 DEF Lead, Types, MemoryType
  <2>2. [task[t] EXCEPT !.pc = "treasury", !.src = e] \in TaskRec
    BY <2>1 DEF TaskRec, Pcs, Source
  <2> QED BY <1>2, <1>4, <2>1, <2>2 DEF Lead, Types, ChainType, MemoryType, ProviderType
<1>5. ASSUME NEW t \in Slot, NEW s \in Source, NEW n \in Nat, mockReserve' = n, StartReading(t, s, n),
             UNCHANGED <<chain, inFlight, credits, provider, now, failed, crashes>>, adminOps' \in Nat
      PROVE  Types'
  <2> DEFINE r == [pc |-> "reading", src |-> s, supplySeen |-> None,
                   reserveSeen |-> IF seeding = "done" THEN n ELSE None]
  <2>1. r \in TaskRec
    BY DEF TaskRec, Pcs
  <2>2. task' = [task EXCEPT ![t] = r] /\ seeding' \in {"no", "running", "done", "rejected"}
    BY <1>5 DEF StartReading, Types, MemoryType
  <2> HIDE DEF r
  <2>3. task' \in [Slot -> TaskRec]
    BY <1>2, <2>1, <2>2
  <2> QED BY <1>5, <2>2, <2>3 DEF Types, ChainType, MemoryType, ProviderType
<1>6. ASSUME NEW t \in Slot, CreditReserve(t) PROVE Types'
  <2>1. task[t].src \in Source
    BY <1>6 DEF CreditReserve, SlotInv, Tidy, Source
  <2>2. mockReserve + AmountOf(task[t].src) \in Nat
    BY <2>1, AmountType DEF Types, MemoryType
  <2>3. adminOps' \in Nat
    BY <1>6 DEF CreditReserve, Types, ProviderType
  <2>4. /\ mockReserve' = mockReserve + AmountOf(task[t].src)
        /\ StartReading(t, task[t].src, mockReserve + AmountOf(task[t].src))
        /\ UNCHANGED <<chain, inFlight, credits, provider, now, failed, crashes>>
    BY <1>6 DEF CreditReserve
  <2> QED BY <1>5, <2>1, <2>2, <2>3, <2>4
<1>7. ASSUME NEW t \in Slot, NEW credit \in BOOLEAN, AdminWrap(t, credit) PROVE Types'
  <2>1. Admin \in Source
    BY DEF Source
  <2> DEFINE n == IF credit THEN mockReserve + AdminAmount ELSE mockReserve
  <2>2. n \in Nat
    BY EventAssumption DEF Types, MemoryType
  <2>3. adminOps' \in Nat
    BY <1>7 DEF AdminWrap, Types, ProviderType
  <2>4. /\ mockReserve' = n /\ StartReading(t, Admin, n)
        /\ UNCHANGED <<chain, inFlight, credits, provider, now, failed, crashes>>
    BY <1>7 DEF AdminWrap
  <2> HIDE DEF n
  <2> QED BY <1>5, <2>1, <2>2, <2>3, <2>4
<1>8. CASE AdminCredit
  BY <1>8, EventAssumption DEF AdminCredit, Types, ChainType, MemoryType, ProviderType
<1>9. CASE InvariantRoute
  BY <1>9 DEF InvariantRoute, Types, ChainType, MemoryType, ProviderType
<1>10. CASE SeedReturns
  <2>1. mockReserve' \in Nat
    BY <1>10 DEF SeedReturns, SeededReserve, Types, ChainType, MemoryType
  <2>2. \A t \in Slot : [task[t] EXCEPT !.reserveSeen = mockReserve'] \in TaskRec
    BY <2>1 DEF Types, MemoryType, TaskRec
  <2>3. task' \in [Slot -> TaskRec]
    BY <1>10, <2>2 DEF SeedReturns, Types, MemoryType
  <2> QED BY <1>10, <2>1, <2>3 DEF SeedReturns, Types, ChainType, MemoryType, ProviderType
<1>11. ASSUME NEW t \in Slot, SupplyReturns(t) PROVE Types'
  <2>1. [task[t] EXCEPT !.supplySeen = supply] \in TaskRec
    BY DEF Types, MemoryType, ChainType, TaskRec
  <2>2. task' = [task EXCEPT ![t] = [task[t] EXCEPT !.supplySeen = supply]]
    BY <1>11 DEF SupplyReturns
  <2>3. task' \in [Slot -> TaskRec]
    BY <1>2, <2>1, <2>2
  <2> QED BY <1>11, <2>3 DEF SupplyReturns, Types, ChainType, MemoryType, ProviderType
<1>12. ASSUME NEW t \in Slot, NEW pc \in Pcs, task' = [task EXCEPT ![t].pc = pc]
       PROVE  task' \in [Slot -> TaskRec]
  <2>1. [task[t] EXCEPT !.pc = pc] \in TaskRec
    BY DEF Types, MemoryType, TaskRec
  <2>2. task' = [task EXCEPT ![t] = [task[t] EXCEPT !.pc = pc]]
    BY <1>12
  <2> QED BY <1>2, <2>1, <2>2
<1>13. ASSUME NEW t \in Slot, Send(t) \/ RunReturns(t) PROVE Types'
  <2>1. task' \in [Slot -> TaskRec]
    BY <1>12, <1>13 DEF Send, RunReturns, Pcs
  <2> QED BY <1>13, <2>1 DEF Send, RunReturns, Types, ChainType, MemoryType, ProviderType
<1>14. ASSUME NEW t \in Slot, Land(t) PROVE Types'
  <2>1. task[t].src \in Source
    BY <1>14, SlotType DEF Land, Types, LeadPcs, PastPcs, MintPcs
  <2>2. supply' \in Nat /\ minted' \in [Source -> Nat]
    BY <1>14, <2>1, MintTypes DEF Land
  <2>3. task' \in [Slot -> TaskRec]
    BY <1>12, <1>14 DEF Land, Pcs
  <2> QED BY <1>14, <2>2, <2>3 DEF Land, Types, ChainType, MemoryType, ProviderType
<1>15. ASSUME NEW s \in Source, OrphanLands(s) \/ OrphanDropped(s) PROVE Types'
  <2>1. supply' \in Nat /\ minted' \in [Source -> Nat]
    BY <1>15, MintTypes DEF OrphanLands, OrphanDropped, Types, ChainType
  <2>2. orphans' \in [Source -> Nat]
    BY <1>15 DEF OrphanLands, OrphanDropped, Types, ChainType
  <2> QED BY <1>15, <2>1, <2>2 DEF OrphanLands, OrphanDropped, Types, ChainType, MemoryType, ProviderType
<1>16. ASSUME NEW t \in Slot, Credit(t) \/ AdminWrapReturns(t) PROVE Types'
  <2>1. FreeSlots({t}) /\ task[t].pc \in LeadPcs
    BY <1>16 DEF Credit, AdminWrapReturns, LeadPcs, PastPcs, MintPcs
  <2>2. task' \in [Slot -> TaskRec]
    BY <2>1, Freed DEF Types
  <2>3. CASE AdminWrapReturns(t)
    BY <2>2, <2>3 DEF AdminWrapReturns, Types, ChainType, MemoryType, ProviderType
  <2>4. CASE Credit(t)
    <3> PICK e : e = task[t].src
      OBVIOUS
    <3>1. e \in Event
      BY <2>1, <2>4, SlotType DEF Credit, Types, Source
    <3>2. /\ credits' = [credits EXCEPT ![e] = [status |-> "credited", at |-> now]]
          /\ acked' = acked \cup {e} /\ inFlight' = StillInFlight({t})
          /\ UNCHANGED <<chain, mockReserve, seeding, payment, now, budget, failed>>
      BY <2>4 DEF Credit
    <3>3. credits' \in [Event -> [status : {"credited", "rejected"}, at : Nat] \cup {None}]
      BY <3>1, <3>2 DEF Types, MemoryType, ProviderType
    <3> QED BY <2>2, <3>1, <3>2, <3>3 DEF StillInFlight, Types, ChainType, MemoryType, ProviderType
  <2> QED BY <1>16, <2>3, <2>4
<1>17. ASSUME NEW t \in Slot, InvariantViolation(t) \/ RpcFails(t) \/ ReserveRejects(t) PROVE Types'
  <2>1. task[t].pc \in LeadPcs /\ Throw({t}) /\ seeding' = seeding
    BY <1>17 DEF InvariantViolation, RpcFails, ReserveRejects, BothRead, AwaitsSeed,
                 LeadPcs, PastPcs, MintPcs
  <2> QED BY <2>1, ThrowTypes DEF Types, MemoryType
<1>18. CASE SeedFails
  <2> DEFINE T == {t \in Slot : AwaitsSeed(t)}
  <2>1. Throw(T) /\ seeding' = "rejected"
    BY <1>18 DEF SeedFails
  <2>2. \A t \in T : task[t].pc \in LeadPcs
    BY DEF AwaitsSeed, LeadPcs, PastPcs, MintPcs
  <2> HIDE DEF T
  <2>3. T \in SUBSET Slot
    BY DEF T
  <2> QED BY <2>1, <2>2, <2>3, ThrowTypes
<1>19. ASSUME NEW w \in Wallet, NEW n, Payout(w, n) PROVE Types'
  BY <1>19 DEF Payout, Types, ChainType, MemoryType, ProviderType
<1>20. CASE Crash
  <2>1. orphans' \in [Source -> Nat]
    <3>1. \A s \in Source : Cardinality({t \in Slot : task[t].pc = "flying" /\ task[t].src = s}) \in Nat
      BY CountType
    <3>2. orphans' = [s \in Source |->
              orphans[s] + Cardinality({t \in Slot : task[t].pc = "flying" /\ task[t].src = s})]
      BY <1>20 DEF Crash
    <3>3. \A s \in Source : orphans[s] \in Nat
      BY DEF Types, ChainType
    <3> QED BY <3>1, <3>2, <3>3
  <2>2. MemoryType'
    BY <1>20, <1>0 DEF Crash, MemoryType
  <2> QED BY <1>20, <2>1, <2>2 DEF Crash, Types, ChainType, ProviderType
<1>21. CASE Tick \/ UNCHANGED vars
  BY <1>21 DEF Tick, vars, Types, ChainType, MemoryType, ProviderType
<1> QED BY <1>1, <1>3, <1>4, <1>6, <1>7, <1>8, <1>9, <1>10, <1>11, <1>13, <1>14, <1>15, <1>16,
           <1>17, <1>18, <1>19, <1>20, <1>21 DEF Next, Deliver, Progress

-----------------------------------------------------------------------------
(* The slots. *)

(* What one slot becomes, action by action. *)
LEMMA SlotSteps ==
    ASSUME Types, SlotInv, NEW t \in Slot
    PROVE  /\ \A e \in Event : Join(e, t) =>
                task' = [task EXCEPT ![t] = [task[t] EXCEPT !.pc = "waiting", !.src = e]]
           /\ \A e \in Event : Lead(e, t) =>
                task' = [task EXCEPT ![t] = [task[t] EXCEPT !.pc = "treasury", !.src = e]]
           /\ SupplyReturns(t) => task' = [task EXCEPT ![t] = [task[t] EXCEPT !.supplySeen = supply]]
           /\ Send(t) => task' = [task EXCEPT ![t] = [task[t] EXCEPT !.pc = "flying"]]
           /\ Land(t) => task' = [task EXCEPT ![t] = [task[t] EXCEPT !.pc = "landed"]]
           /\ RunReturns(t) => task' = [task EXCEPT ![t] = [task[t] EXCEPT !.pc = "after"]]
  BY DEF Join, Lead, SupplyReturns, Send, Land, RunReturns

Reading(s, seen) == [pc |-> "reading", src |-> s, supplySeen |-> None, reserveSeen |-> seen]

LEMMA ReadingStarts ==
    ASSUME Types, NEW t, NEW s \in Source, NEW n \in Nat, StartReading(t, s, n)
    PROVE  \E seen \in Nat \cup {None} :
              /\ task' = [task EXCEPT ![t] = Reading(s, seen)]
              /\ Reading(s, seen) \in TaskRec
              /\ seen # None => seeding' = "done"
              /\ seeding = "done" <=> seeding' = "done"
  BY DEF StartReading, Reading, TaskRec, Pcs

(* The attempts that end, in one slot or in several. *)
Ends(T) == /\ T \in SUBSET Slot /\ \A t \in T : task[t].pc \in LeadPcs
           /\ FreeSlots(T) /\ inFlight' = StillInFlight(T)
           /\ seeding = "done" => seeding' = "done"

LEMMA EndsAre ==
    ASSUME Types, SlotInv
    PROVE  /\ \A t \in Slot :
                (Credit(t) \/ AdminWrapReturns(t) \/ InvariantViolation(t)
                    \/ RpcFails(t) \/ ReserveRejects(t)) => Ends({t})
           /\ SeedFails => Ends({t \in Slot : AwaitsSeed(t)})
<1>1. ASSUME NEW t \in Slot, Credit(t) \/ InvariantViolation(t) \/ RpcFails(t) \/ ReserveRejects(t)
      PROVE  Ends({t})
  BY <1>1 DEF Credit, InvariantViolation, RpcFails, ReserveRejects, Throw, BothRead,
              AwaitsSeed, Ends, LeadPcs, PastPcs, MintPcs
<1>2. ASSUME NEW t \in Slot, AdminWrapReturns(t) PROVE Ends({t})
  <2>1. StillInFlight({t}) = inFlight
    BY <1>2 DEF AdminWrapReturns, StillInFlight, EventsOf
  <2> QED BY <1>2, <2>1 DEF AdminWrapReturns, Ends, LeadPcs, PastPcs, MintPcs
<1>3. ASSUME SeedFails PROVE Ends({t \in Slot : AwaitsSeed(t)})
  BY <1>3 DEF SeedFails, Throw, AwaitsSeed, Ends, LeadPcs, PastPcs, MintPcs
<1> QED BY <1>1, <1>2, <1>3

LEMMA SlotKeeps ==
    ASSUME Types, SlotInv, [Next]_vars
    PROVE  SlotInv'
<1> USE DEF chain, process, provider, budget
<1>0. MemoryType /\ \A t \in Slot : task[t] \in TaskRec
  BY DEF Types, MemoryType
<1>1. CASE UNCHANGED <<task, inFlight, credits>> /\ (seeding = "done" => seeding' = "done")
  BY <1>1 DEF SlotInv, Tidy, OneLeader, InFlightLed, NotYetCredited, Has
<1>2. CASE \/ \E e \in Event : Checkout(e) \/ Pay(e) \/ Replay(e)
           \/ \E s \in Source : OrphanLands(s) \/ OrphanDropped(s)
           \/ \E w \in Wallet : Payout(w, AdminAmount)
           \/ AdminCredit \/ InvariantRoute \/ Tick \/ UNCHANGED vars
  <2>1. UNCHANGED <<task, inFlight, credits>> /\ (seeding = "done" => seeding' = "done")
    BY <1>2 DEF Checkout, Pay, Replay, OrphanLands, OrphanDropped, Payout, AdminCredit,
                InvariantRoute, Tick, vars
  <2> QED BY <1>1, <2>1
<1>3. ASSUME NEW e \in Event, Reject(e) PROVE SlotInv'
  <2>1. /\ e \notin inFlight /\ UNCHANGED <<task, inFlight, seeding>>
        /\ credits' = [credits EXCEPT ![e] = [status |-> "rejected", at |-> now]]
    BY <1>3 DEF Reject, Fresh
  <2> QED BY <2>1, <1>0 DEF SlotInv, Tidy, OneLeader, InFlightLed, NotYetCredited, Has, MemoryType
<1>4. ASSUME NEW e \in Event, NEW t \in Slot, Join(e, t) PROVE SlotInv'
  <2> DEFINE r == [task[t] EXCEPT !.pc = "waiting", !.src = e]
  <2>1. r \in TaskRec /\ r.pc = "waiting" /\ r.src = e
    BY <1>0 DEF TaskRec, Pcs, Source
  <2>2. task' = [task EXCEPT ![t] = r]
    BY <1>4, SlotSteps
  <2>3. task[t].pc = "idle" /\ e \in inFlight /\ UNCHANGED <<inFlight, credits, seeding>>
    BY <1>4 DEF Join, IdleTask
  <2> HIDE DEF r
  <2> QED BY <1>0, <2>1, <2>2, <2>3, TakenUpKeeps
<1>5. ASSUME NEW e \in Event, NEW t \in Slot, Lead(e, t) PROVE SlotInv'
  <2> DEFINE r == [task[t] EXCEPT !.pc = "treasury", !.src = e]
  <2>1. r \in TaskRec /\ r.pc = "treasury" /\ r.src = e
    BY <1>0 DEF TaskRec, Pcs, Source
  <2>2. task' = [task EXCEPT ![t] = r]
    BY <1>5, SlotSteps
  <2>3. /\ task[t].pc = "idle" /\ e \notin inFlight /\ credits[e] = None
        /\ inFlight' = inFlight \cup {e} /\ UNCHANGED <<credits, seeding>>
    BY <1>5 DEF Lead, Fresh, IdleTask
  <2> HIDE DEF r
  <2> QED BY <1>0, <2>1, <2>2, <2>3, TakenUpKeeps
<1>6. ASSUME NEW t \in Slot, CreditReserve(t) PROVE SlotInv'
  <2> PICK s : s = task[t].src
    OBVIOUS
  <2>1. s \in Source /\ task[t].pc \in LeadPcs /\ mockReserve + AmountOf(s) \in Nat
    <3>1. s \in Source /\ task[t].pc = "treasury"
      BY <1>6 DEF CreditReserve, SlotInv, Tidy, Source
    <3> QED BY <3>1, AmountType DEF MemoryType, Types, LeadPcs
  <2>2. StartReading(t, s, mockReserve + AmountOf(s)) /\ UNCHANGED <<inFlight, credits>>
    BY <1>6 DEF CreditReserve
  <2>3. PICK seen \in Nat \cup {None} :
              /\ task' = [task EXCEPT ![t] = Reading(s, seen)]
              /\ Reading(s, seen) \in TaskRec
              /\ seen # None => seeding' = "done"
              /\ seeding = "done" <=> seeding' = "done"
    BY <2>1, <2>2, ReadingStarts
  <2>4. /\ Reading(s, seen).pc = "reading" /\ Reading(s, seen).src = s
        /\ Reading(s, seen).reserveSeen = seen
        /\ "reading" \in PastPcs /\ "reading" \notin MintPcs
    BY DEF Reading, PastPcs, MintPcs
  <2> QED BY <1>0, <2>1, <2>2, <2>3, <2>4, LeaderKeeps
<1>7. ASSUME NEW t \in Slot, NEW credit \in BOOLEAN, AdminWrap(t, credit) PROVE SlotInv'
  <2> PICK n : n = IF credit THEN mockReserve + AdminAmount ELSE mockReserve
    OBVIOUS
  <2>1. Admin \in Source /\ n \in Nat
    BY EventAssumption DEF Source, Types, MemoryType
  <2>2. StartReading(t, Admin, n) /\ UNCHANGED <<inFlight, credits>> /\ task[t].pc = "idle"
    BY <1>7 DEF AdminWrap, IdleTask
  <2>3. PICK seen \in Nat \cup {None} :
              /\ task' = [task EXCEPT ![t] = Reading(Admin, seen)]
              /\ Reading(Admin, seen) \in TaskRec
              /\ seen # None => seeding' = "done"
              /\ seeding = "done" <=> seeding' = "done"
    BY <2>1, <2>2, ReadingStarts
  <2>4. /\ Reading(Admin, seen).pc = "reading" /\ Reading(Admin, seen).src = Admin
        /\ Reading(Admin, seen).reserveSeen = seen
    BY DEF Reading
  <2> QED BY <1>0, <2>1, <2>2, <2>3, <2>4, TakenUpKeeps
<1>8. CASE SeedReturns
  <2>1. /\ seeding' = "done" /\ UNCHANGED <<inFlight, credits>>
        /\ \A t \in Slot : /\ task'[t].pc = task[t].pc /\ task'[t].src = task[t].src
                           /\ task[t].pc = "idle" => task'[t] = task[t]
    BY <1>0, <1>8 DEF SeedReturns, AwaitsSeed, TaskRec
  <2> QED BY <2>1 DEF SlotInv, Tidy, OneLeader, InFlightLed, NotYetCredited, Has
<1>9. ASSUME NEW t \in Slot, SupplyReturns(t) PROVE SlotInv'
  <2> DEFINE r == [task[t] EXCEPT !.supplySeen = supply]
  <2>1. r \in TaskRec /\ r.pc = task[t].pc /\ r.src = task[t].src /\ r.reserveSeen = task[t].reserveSeen
    BY <1>0 DEF TaskRec, Types, ChainType
  <2>2. task' = [task EXCEPT ![t] = r]
    BY <1>9, SlotSteps
  <2>3. /\ task[t].pc = "reading" /\ UNCHANGED <<inFlight, credits, seeding>>
        /\ task[t].pc \in LeadPcs /\ r.pc \in PastPcs /\ r.pc \notin MintPcs
    BY <1>9, <2>1 DEF SupplyReturns, LeadPcs, PastPcs, MintPcs
  <2>4. r.reserveSeen # None => seeding' = "done"
    BY <2>1, <2>3 DEF SlotInv, Tidy
  <2> HIDE DEF r
  <2> QED BY <1>0, <2>1, <2>2, <2>3, <2>4, LeaderKeeps
<1>10. ASSUME NEW t \in Slot, NEW pc \in MintPcs, task' = [task EXCEPT ![t] = [task[t] EXCEPT !.pc = pc]],
              UNCHANGED <<inFlight, credits, seeding>>, seeding = "done", task[t].pc \in LeadPcs
       PROVE  SlotInv'
  <2> DEFINE r == [task[t] EXCEPT !.pc = pc]
  <2>1. r \in TaskRec /\ r.pc = pc /\ r.src = task[t].src /\ r.pc \in PastPcs
    BY <1>0 DEF TaskRec, Pcs, PastPcs, MintPcs
  <2>2. task' = [task EXCEPT ![t] = r]
    BY <1>10
  <2> HIDE DEF r
  <2> QED BY <1>0, <1>10, <2>1, <2>2, LeaderKeeps
<1>11. ASSUME NEW t \in Slot, Send(t) \/ Land(t) \/ RunReturns(t) PROVE SlotInv'
  <2>1. UNCHANGED <<inFlight, credits, seeding>> /\ seeding = "done" /\ task[t].pc \in LeadPcs
    BY <1>11 DEF Send, Land, RunReturns, BothRead, SlotInv, Tidy, LeadPcs, PastPcs, MintPcs
  <2>2. "flying" \in MintPcs /\ "landed" \in MintPcs /\ "after" \in MintPcs
    BY DEF MintPcs
  <2> QED BY <1>10, <1>11, <2>1, <2>2, SlotSteps
<1>12. ASSUME NEW t \in Slot, Credit(t) PROVE SlotInv'
  <2>1. Ends({t})
    BY <1>12, EndsAre
  <2>2. \A e \in inFlight' : credits'[e] = credits[e]
    <3>1. inFlight' = inFlight \ EventsOf({t}) /\ inFlight \subseteq Event /\ task[t].src # Admin
      BY <1>0, <1>12, <2>1 DEF Ends, StillInFlight, MemoryType, Credit
    <3>2. credits' = [credits EXCEPT ![task[t].src] = [status |-> "credited", at |-> now]]
      BY <1>12 DEF Credit
    <3> QED BY <1>0, <3>1, <3>2 DEF EventsOf, MemoryType
  <2> QED BY <1>0, <2>1, <2>2, FreedKeeps DEF Ends
<1>13. ASSUME NEW t \in Slot, AdminWrapReturns(t) \/ InvariantViolation(t) \/ RpcFails(t) \/ ReserveRejects(t)
       PROVE  SlotInv'
  <2>1. Ends({t}) /\ UNCHANGED credits
    BY <1>13, EndsAre DEF AdminWrapReturns, InvariantViolation, RpcFails, ReserveRejects, Throw
  <2> QED BY <1>0, <2>1, FreedKeeps DEF Ends
<1>14. CASE SeedFails
  <2> DEFINE T == {t \in Slot : AwaitsSeed(t)}
  <2>1. Ends(T) /\ UNCHANGED credits
    BY <1>14, EndsAre DEF SeedFails, Throw
  <2> HIDE DEF T
  <2> QED BY <1>0, <2>1, FreedKeeps DEF Ends
<1>15. CASE Crash
  <2>1. /\ \A t \in Slot : task'[t] = IdleTask /\ task'[t].pc = "idle"
        /\ inFlight' = {}
    BY <1>15 DEF Crash, IdleTask
  <2> QED BY <2>1 DEF SlotInv, Tidy, OneLeader, InFlightLed, NotYetCredited, Has, LeadPcs, PastPcs, MintPcs
<1> QED BY <1>2, <1>3, <1>4, <1>5, <1>6, <1>7, <1>8, <1>9, <1>11, <1>12, <1>13, <1>14, <1>15
        DEF Next, Deliver, Progress

-----------------------------------------------------------------------------
(* Where an event stands: whether its attempt has credited the reserve,     *)
(* sent its mint, and waits for it.                                         *)
Kept(e) == /\ Has(e, PastPcs)' <=> Has(e, PastPcs)
           /\ Has(e, MintPcs)' <=> Has(e, MintPcs)
           /\ Has(e, {"flying"})' <=> Has(e, {"flying"})

LEMMA PcSets ==
    /\ PastPcs \in SUBSET LeadPcs /\ MintPcs \in SUBSET LeadPcs /\ {"flying"} \in SUBSET LeadPcs
    /\ MintPcs \in SUBSET PastPcs
    /\ {"flying", "landed", "after"} \in SUBSET MintPcs /\ "reading" \in PastPcs /\ "treasury" \in LeadPcs
    /\ {"idle", "waiting", "treasury"} \cap PastPcs = {} /\ "reading" \notin MintPcs
    /\ "reading" # "flying" /\ "landed" # "flying" /\ "after" # "flying"
    /\ {"idle", "waiting"} \cap LeadPcs = {}
  BY DEF LeadPcs, PastPcs, MintPcs

LEMMA KeptBySlot ==
    ASSUME Types, SlotInv, NEW t \in Slot, NEW r, task' = [task EXCEPT ![t] = r], NEW e \in Event,
           \/ (task[t].src # e \/ task[t].pc \notin PastPcs) /\ (r.src # e \/ r.pc \notin PastPcs)
           \/ /\ task[t].src = r.src /\ task[t].pc \in LeadPcs
              /\ \/ r.pc = task[t].pc
                 \/ r.pc \in {"landed", "after"} /\ task[t].pc \in {"landed", "after"}
    PROVE  Kept(e)
<1>0. MemoryType
  BY DEF Types
<1>1. CASE (task[t].src # e \/ task[t].pc \notin PastPcs) /\ (r.src # e \/ r.pc \notin PastPcs)
  <2>1. ASSUME NEW P \in SUBSET PastPcs PROVE Has(e, P)' <=> Has(e, P)
    BY <1>0, <1>1, PcSets, HasMoves
  <2> QED BY <2>1, PcSets DEF Kept
<1>2. CASE /\ task[t].src = r.src /\ task[t].pc \in LeadPcs
           /\ \/ r.pc = task[t].pc
              \/ r.pc \in {"landed", "after"} /\ task[t].pc \in {"landed", "after"}
  <2>1. CASE task[t].src # e
    BY <1>1, <1>2, <2>1
  <2>2. CASE task[t].src = e
    <3>1. ASSUME NEW P \in {PastPcs, MintPcs, {"flying"}} PROVE Has(e, P)' <=> Has(e, P)
      <4>1. P \in SUBSET LeadPcs
        BY PcSets
      <4>2. r.pc \in P <=> task[t].pc \in P
        BY <1>2, PcSets DEF PastPcs, MintPcs
      <4> QED BY <1>0, <1>2, <2>2, <4>1, <4>2, HasMoves
    <3> QED BY <3>1 DEF Kept
  <2> QED BY <2>1, <2>2
<1> QED BY <1>1, <1>2

LEMMA KeptByStep ==
    ASSUME Types, SlotInv, NEW e \in Event
    PROVE  /\ UNCHANGED task \/ SeedReturns => Kept(e)
           /\ \A d \in Event, t \in Slot : Join(d, t) \/ Lead(d, t) => Kept(e)
           /\ \A t \in Slot : SupplyReturns(t) \/ RunReturns(t) => Kept(e)
           /\ \A t \in Slot, credit \in BOOLEAN : AdminWrap(t, credit) => Kept(e)
<1>0. /\ task \in [Slot -> TaskRec]
      /\ \A t \in Slot : task[t] \in TaskRec /\ (task[t].pc = "idle" => task[t].src = None)
  BY DEF Types, MemoryType, SlotInv, Tidy, IdleTask
<1>1. ASSUME UNCHANGED task \/ SeedReturns PROVE Kept(e)
  <2>1. \A t \in Slot : task'[t].pc = task[t].pc /\ task'[t].src = task[t].src
    BY <1>0, <1>1 DEF SeedReturns, AwaitsSeed, TaskRec
  <2> QED BY <2>1 DEF Kept, Has
<1>2. ASSUME NEW d \in Event, NEW t \in Slot, Join(d, t) \/ Lead(d, t) PROVE Kept(e)
  <2>1. task[t].pc = "idle"
    BY <1>2 DEF Join, Lead, IdleTask
  <2>2. ASSUME NEW pc \in {"waiting", "treasury"},
               task' = [task EXCEPT ![t] = [task[t] EXCEPT !.pc = pc, !.src = d]]
        PROVE  Kept(e)
    <3> DEFINE r == [task[t] EXCEPT !.pc = pc, !.src = d]
    <3>1. r.pc = pc
      BY <1>0 DEF TaskRec
    <3>2. task' = [task EXCEPT ![t] = r]
      BY <2>2
    <3> HIDE DEF r
    <3>3. task[t].pc \notin PastPcs /\ r.pc \notin PastPcs
      BY <2>1, <3>1, PcSets
    <3> QED BY <3>2, <3>3, KeptBySlot
  <2> QED BY <1>2, <2>2, SlotSteps
<1>3. ASSUME NEW t \in Slot, SupplyReturns(t) PROVE Kept(e)
  <2> DEFINE r == [task[t] EXCEPT !.supplySeen = supply]
  <2>1. r.pc = task[t].pc /\ r.src = task[t].src /\ task[t].pc = "reading"
    BY <1>0, <1>3 DEF TaskRec, SupplyReturns
  <2>2. task' = [task EXCEPT ![t] = r]
    BY <1>3, SlotSteps
  <2> HIDE DEF r
  <2>3. task[t].pc \in LeadPcs
    BY <2>1, PcSets
  <2> QED BY <2>1, <2>2, <2>3, KeptBySlot
<1>4. ASSUME NEW t \in Slot, RunReturns(t) PROVE Kept(e)
  <2> DEFINE r == [task[t] EXCEPT !.pc = "after"]
  <2>1. r.pc = "after" /\ r.src = task[t].src /\ task[t].pc = "landed"
    BY <1>0, <1>4 DEF TaskRec, RunReturns
  <2>2. task' = [task EXCEPT ![t] = r]
    BY <1>4, SlotSteps
  <2> HIDE DEF r
  <2>3. task[t].pc \in LeadPcs
    BY <2>1, PcSets
  <2> QED BY <2>1, <2>2, <2>3, KeptBySlot
<1>5. ASSUME NEW t \in Slot, NEW credit \in BOOLEAN, AdminWrap(t, credit) PROVE Kept(e)
  <2> PICK n : n = IF credit THEN mockReserve + AdminAmount ELSE mockReserve
    OBVIOUS
  <2>1. Admin \in Source /\ n \in Nat /\ e # Admin
    BY EventAssumption DEF Source, Types, MemoryType
  <2>2. StartReading(t, Admin, n) /\ task[t].pc = "idle"
    BY <1>5 DEF AdminWrap, IdleTask
  <2>3. PICK seen \in Nat \cup {None} : task' = [task EXCEPT ![t] = Reading(Admin, seen)]
    BY <2>1, <2>2, ReadingStarts
  <2>4. Reading(Admin, seen).src # e /\ task[t].pc \notin PastPcs
    BY <2>1, <2>2, PcSets DEF Reading
  <2> QED BY <2>3, <2>4, KeptBySlot
<1> QED BY <1>1, <1>2, <1>3, <1>4, <1>5

(* The steps that move an event on. *)
LEMMA MovedByStep ==
    ASSUME Types, SlotInv, NEW e \in Event, NEW t \in Slot
    PROVE  /\ CreditReserve(t) \/ Send(t) \/ Land(t) => (task[t].src # e => Kept(e))
           /\ CreditReserve(t) /\ task[t].src = e =>
                 /\ ~Has(e, PastPcs) /\ Has(e, PastPcs)'
                 /\ ~Has(e, MintPcs)' /\ ~Has(e, MintPcs) /\ ~Has(e, {"flying"}) /\ ~Has(e, {"flying"})'
           /\ Send(t) /\ task[t].src = e =>
                 /\ Has(e, PastPcs) /\ Has(e, PastPcs)'
                 /\ Has(e, MintPcs)' /\ ~Has(e, MintPcs) /\ Has(e, {"flying"})' /\ ~Has(e, {"flying"})
           /\ Land(t) /\ task[t].src = e =>
                 /\ Has(e, PastPcs) /\ Has(e, PastPcs)'
                 /\ Has(e, MintPcs)' /\ Has(e, MintPcs) /\ Has(e, {"flying"}) /\ ~Has(e, {"flying"})'
<1>0. MemoryType /\ task[t] \in TaskRec
  BY DEF Types, MemoryType
<1>1. ASSUME NEW r, task' = [task EXCEPT ![t] = r], r.src = task[t].src, task[t].pc \in LeadPcs
      PROVE  /\ task[t].src # e => Kept(e)
             /\ task[t].src = e => \A P \in SUBSET LeadPcs :
                    (Has(e, P) <=> task[t].pc \in P) /\ (Has(e, P)' <=> r.pc \in P)
  <2>1. ASSUME task[t].src # e PROVE Kept(e)
    BY <1>1, <2>1, KeptBySlot
  <2>2. ASSUME task[t].src = e, NEW P \in SUBSET LeadPcs
        PROVE  (Has(e, P) <=> task[t].pc \in P) /\ (Has(e, P)' <=> r.pc \in P)
    BY <1>0, <1>1, <2>2, HasMoves
  <2> QED BY <2>1, <2>2
<1>2. ASSUME CreditReserve(t)
      PROVE  /\ task[t].src # e => Kept(e)
             /\ task[t].src = e =>
                 /\ ~Has(e, PastPcs) /\ Has(e, PastPcs)'
                 /\ ~Has(e, MintPcs)' /\ ~Has(e, MintPcs) /\ ~Has(e, {"flying"}) /\ ~Has(e, {"flying"})'
  <2> PICK s : s = task[t].src
    OBVIOUS
  <2>1. s \in Source /\ task[t].pc = "treasury" /\ mockReserve + AmountOf(s) \in Nat
    <3>1. s \in Source /\ task[t].pc = "treasury"
      BY <1>2 DEF CreditReserve, SlotInv, Tidy, Source
    <3> QED BY <3>1, AmountType DEF MemoryType, Types
  <2>2. StartReading(t, s, mockReserve + AmountOf(s))
    BY <1>2 DEF CreditReserve
  <2>3. PICK seen \in Nat \cup {None} : task' = [task EXCEPT ![t] = Reading(s, seen)]
    BY <2>1, <2>2, ReadingStarts
  <2>4. Reading(s, seen).src = task[t].src /\ Reading(s, seen).pc = "reading"
    BY DEF Reading
  <2>5. task[t].pc \in LeadPcs
    BY <2>1, PcSets
  <2>6. "treasury" \notin MintPcs
    BY DEF MintPcs
  <2> PICK r : r = Reading(s, seen)
    OBVIOUS
  <2>7. task' = [task EXCEPT ![t] = r] /\ r.src = task[t].src /\ r.pc = "reading"
    BY <2>3, <2>4
  <2>8. /\ task[t].src # e => Kept(e)
        /\ task[t].src = e => \A P \in SUBSET LeadPcs :
               (Has(e, P) <=> task[t].pc \in P) /\ (Has(e, P)' <=> r.pc \in P)
    BY <1>1, <2>5, <2>7
  <2>9. ASSUME task[t].src = e
        PROVE  /\ ~Has(e, PastPcs) /\ Has(e, PastPcs)'
               /\ ~Has(e, MintPcs)' /\ ~Has(e, MintPcs)
               /\ ~Has(e, {"flying"}) /\ ~Has(e, {"flying"})'
    <3>1. /\ Has(e, PastPcs) <=> task[t].pc \in PastPcs
          /\ Has(e, PastPcs)' <=> r.pc \in PastPcs
      BY <2>8, <2>9, PcSets
    <3>2. /\ Has(e, MintPcs) <=> task[t].pc \in MintPcs
          /\ Has(e, MintPcs)' <=> r.pc \in MintPcs
      BY <2>8, <2>9, PcSets
    <3>3. /\ Has(e, {"flying"}) <=> task[t].pc \in {"flying"}
          /\ Has(e, {"flying"})' <=> r.pc \in {"flying"}
      BY <2>8, <2>9, PcSets
    <3> QED BY <2>1, <2>6, <2>7, <3>1, <3>2, <3>3, PcSets
  <2> QED BY <2>8, <2>9
<1>3. ASSUME Send(t)
      PROVE  /\ task[t].src # e => Kept(e)
             /\ task[t].src = e =>
                 /\ Has(e, PastPcs) /\ Has(e, PastPcs)'
                 /\ Has(e, MintPcs)' /\ ~Has(e, MintPcs) /\ Has(e, {"flying"})' /\ ~Has(e, {"flying"})
  <2> DEFINE r == [task[t] EXCEPT !.pc = "flying"]
  <2>1. r.pc = "flying" /\ r.src = task[t].src /\ task[t].pc = "reading"
    BY <1>0, <1>3 DEF TaskRec, Send, BothRead
  <2>2. task' = [task EXCEPT ![t] = r]
    BY <1>3, SlotSteps
  <2> HIDE DEF r
  <2>3. task[t].pc \in LeadPcs
    BY <2>1, PcSets
  <2>4. /\ task[t].src # e => Kept(e)
        /\ task[t].src = e => \A P \in SUBSET LeadPcs :
               (Has(e, P) <=> task[t].pc \in P) /\ (Has(e, P)' <=> r.pc \in P)
    BY <1>1, <2>1, <2>2, <2>3
  <2>5. ASSUME task[t].src = e
        PROVE  /\ Has(e, PastPcs) /\ Has(e, PastPcs)'
               /\ Has(e, MintPcs)' /\ ~Has(e, MintPcs)
               /\ Has(e, {"flying"})' /\ ~Has(e, {"flying"})
    <3>1. /\ Has(e, PastPcs) <=> task[t].pc \in PastPcs
          /\ Has(e, PastPcs)' <=> r.pc \in PastPcs
      BY <2>4, <2>5, PcSets
    <3>2. /\ Has(e, MintPcs) <=> task[t].pc \in MintPcs
          /\ Has(e, MintPcs)' <=> r.pc \in MintPcs
      BY <2>4, <2>5, PcSets
    <3>3. /\ Has(e, {"flying"}) <=> task[t].pc \in {"flying"}
          /\ Has(e, {"flying"})' <=> r.pc \in {"flying"}
      BY <2>4, <2>5, PcSets
    <3> QED BY <2>1, <3>1, <3>2, <3>3 DEF PastPcs, MintPcs
  <2> QED BY <2>4, <2>5
<1>4. ASSUME Land(t)
      PROVE  /\ task[t].src # e => Kept(e)
             /\ task[t].src = e =>
                 /\ Has(e, PastPcs) /\ Has(e, PastPcs)'
                 /\ Has(e, MintPcs)' /\ Has(e, MintPcs) /\ Has(e, {"flying"}) /\ ~Has(e, {"flying"})'
  <2> DEFINE r == [task[t] EXCEPT !.pc = "landed"]
  <2>1. r.pc = "landed" /\ r.src = task[t].src /\ task[t].pc = "flying"
    BY <1>0, <1>4 DEF TaskRec, Land
  <2>2. task' = [task EXCEPT ![t] = r]
    BY <1>4, SlotSteps
  <2> HIDE DEF r
  <2>3. task[t].pc \in LeadPcs
    BY <2>1, PcSets
  <2>4. /\ task[t].src # e => Kept(e)
        /\ task[t].src = e => \A P \in SUBSET LeadPcs :
               (Has(e, P) <=> task[t].pc \in P) /\ (Has(e, P)' <=> r.pc \in P)
    BY <1>1, <2>1, <2>2, <2>3
  <2>5. ASSUME task[t].src = e
        PROVE  /\ Has(e, PastPcs) /\ Has(e, PastPcs)'
               /\ Has(e, MintPcs)' /\ Has(e, MintPcs)
               /\ Has(e, {"flying"}) /\ ~Has(e, {"flying"})'
    <3>1. /\ Has(e, PastPcs) <=> task[t].pc \in PastPcs
          /\ Has(e, PastPcs)' <=> r.pc \in PastPcs
      BY <2>4, <2>5, PcSets
    <3>2. /\ Has(e, MintPcs) <=> task[t].pc \in MintPcs
          /\ Has(e, MintPcs)' <=> r.pc \in MintPcs
      BY <2>4, <2>5, PcSets
    <3>3. /\ Has(e, {"flying"}) <=> task[t].pc \in {"flying"}
          /\ Has(e, {"flying"})' <=> r.pc \in {"flying"}
      BY <2>4, <2>5, PcSets
    <3> QED BY <2>1, <3>1, <3>2, <3>3 DEF PastPcs, MintPcs
  <2> QED BY <2>4, <2>5
<1> QED BY <1>2, <1>3, <1>4

LEMMA EndedByStep ==
    ASSUME Types, SlotInv, NEW e \in Event, NEW T, Ends(T)
    PROVE  /\ e \notin EventsOf(T) => Kept(e)
           /\ e \in EventsOf(T) =>
                 /\ ~Has(e, PastPcs)' /\ ~Has(e, MintPcs)' /\ ~Has(e, {"flying"})'
                 /\ Has(e, {"flying"}) <=> \E t \in T : task[t].pc = "flying" /\ task[t].src = e
                 /\ Has(e, PastPcs) <=> \E t \in T : task[t].pc \in PastPcs /\ task[t].src = e
                 /\ Has(e, MintPcs) <=> \E t \in T : task[t].pc \in MintPcs /\ task[t].src = e
<1>1. MemoryType /\ T \in SUBSET Slot /\ FreeSlots(T) /\ \A t \in T : task[t].pc \in LeadPcs
  BY DEF Types, Ends
<1>2. ASSUME NEW P \in SUBSET LeadPcs
      PROVE  /\ e \notin EventsOf(T) => (Has(e, P)' <=> Has(e, P))
             /\ e \in EventsOf(T) => /\ ~Has(e, P)'
                                     /\ Has(e, P) <=> \E t \in T : task[t].src = e /\ task[t].pc \in P
  BY <1>1, HasFreed
<1>3. e \notin EventsOf(T) => Kept(e)
  BY <1>2, PcSets DEF Kept
<1> QED BY <1>2, <1>3, PcSets

-----------------------------------------------------------------------------
(* Mints and attempts. *)

Counters(e) == minted[e] \in Nat /\ orphans[e] \in Nat /\ failed[e] \in Nat /\ crashes \in Nat

LEMMA CountersType == ASSUME Types, NEW e \in Event PROVE Counters(e)
  BY DEF Counters, Types, ChainType, ProviderType, Source

LEMMA OneType == ASSUME NEW b PROVE One(b) \in {0, 1} /\ (b => One(b) = 1) /\ (~b => One(b) = 0)
  BY DEF One

(* An event that stays where it is, with no more mints.                     *)
LEMMA MintKept ==
    ASSUME Types, Types', NEW e \in Event, MintOk(e), Kept(e), Credited(e)' <=> Credited(e),
           minted'[e] + orphans'[e] <= minted[e] + orphans[e],
           failed'[e] = failed[e], crashes' = crashes
    PROVE  MintOk(e)'
<1>1. Counters(e) /\ Counters(e)'
  BY CountersType DEF Counters, Types, ChainType, ProviderType, Source
<1>2. /\ One(Has(e, {"flying"}))' = One(Has(e, {"flying"})) /\ One(Has(e, MintPcs))' = One(Has(e, MintPcs))
      /\ One(Credited(e))' = One(Credited(e))
  BY DEF Kept, One
<1>3. One(Has(e, {"flying"})) \in {0, 1} /\ One(Has(e, MintPcs)) \in {0, 1} /\ One(Credited(e)) \in {0, 1}
  BY OneType
<1> QED BY <1>1, <1>2, <1>3 DEF MintOk, Counters

(* An attempt that throws leaves its mint behind, and counts.               *)
LEMMA MintThrown ==
    ASSUME Types, Types', SlotInv, NEW e \in Event, MintOk(e), NEW T, Ends(T), Throw(T)
    PROVE  MintOk(e)'
<1>0. MemoryType /\ T \in SUBSET Slot
  BY DEF Types, Ends
<1>1. Counters(e) /\ Counters(e)'
  BY CountersType DEF Counters, Types, ChainType, ProviderType, Source
<1>2a. PICK n : n = One(\E t \in T : task[t].pc = "flying" /\ task[t].src = e)
  OBVIOUS
<1>2. Credited(e)' <=> Credited(e)
  BY DEF Throw, Credited
<1>3. /\ failed'[e] = failed[e] + (IF e \in EventsOf(T) THEN 1 ELSE 0)
      /\ orphans'[e] = orphans[e] + n
      /\ minted'[e] = minted[e] /\ crashes' = crashes
  <2>1. orphans'[e] = orphans[e] + Cardinality({t \in T : task[t].pc = "flying" /\ task[t].src = e})
    BY DEF Throw, Source
  <2>2. Cardinality({t \in T : task[t].pc = "flying" /\ task[t].src = e})
            = One(\E t \in T : task[t].pc = "flying" /\ task[t].src = e)
    BY <1>0, CountsAreOne
  <2> QED BY <1>2a, <2>1, <2>2 DEF Throw
<1>4. CASE e \notin EventsOf(T)
  <2>1. ~\E t \in T : task[t].pc = "flying" /\ task[t].src = e
    BY <1>4, EventAssumption DEF EventsOf
  <2>2. n = 0
    BY <1>2a, <2>1 DEF One
  <2>3. Kept(e)
    BY <1>4, EndedByStep
  <2>4. failed'[e] = failed[e] /\ minted'[e] + orphans'[e] <= minted[e] + orphans[e]
    BY <1>1, <1>3, <1>4, <2>2 DEF Counters
  <2> QED BY <1>2, <1>3, <2>3, <2>4, MintKept
<1>5. CASE e \in EventsOf(T)
  <2>1. /\ ~Has(e, MintPcs)' /\ ~Has(e, {"flying"})'
        /\ Has(e, {"flying"}) <=> \E t \in T : task[t].pc = "flying" /\ task[t].src = e
    BY <1>5, EndedByStep
  <2>2. /\ One(Has(e, {"flying"}))' = 0 /\ One(Has(e, MintPcs))' = 0
        /\ n = One(Has(e, {"flying"}))
        /\ One(Credited(e))' = One(Credited(e))
    BY <1>2, <1>2a, <2>1 DEF One
  <2>3. One(Has(e, {"flying"})) \in {0, 1} /\ One(Has(e, MintPcs)) \in {0, 1} /\ One(Credited(e)) \in {0, 1}
    BY OneType
  <2> QED BY <1>1, <1>3, <1>5, <2>2, <2>3 DEF MintOk, Counters
<1> QED BY <1>4, <1>5

LEMMA UnmintedSteps ==
    ASSUME Types, SlotInv, NEW e \in Event,
           \/ \E d \in Event : Checkout(d) \/ Pay(d) \/ Replay(d) \/ \E t \in Slot : Join(d, t) \/ Lead(d, t)
           \/ \E t \in Slot : \/ SupplyReturns(t) \/ RunReturns(t) \/ AdminWrapReturns(t)
                              \/ \E credit \in BOOLEAN : AdminWrap(t, credit)
           \/ \E w \in Wallet : Payout(w, AdminAmount)
           \/ AdminCredit \/ InvariantRoute \/ SeedReturns \/ Tick \/ UNCHANGED vars
    PROVE  Kept(e) /\ UNCHANGED <<minted, orphans, failed, crashes, credits>>
<1> USE DEF chain, process, provider, budget
<1>1. UNCHANGED <<minted, orphans, failed, crashes, credits>>
  BY DEF Checkout, Pay, Replay, Join, Lead, SupplyReturns, RunReturns, AdminWrapReturns, AdminWrap,
         Payout, AdminCredit, InvariantRoute, SeedReturns, Tick, vars
<1>2. ASSUME NEW t \in Slot, AdminWrapReturns(t) PROVE Kept(e)
  <2>1. EventsOf({t}) = {}
    BY <1>2 DEF AdminWrapReturns, EventsOf
  <2>2. Ends({t})
    BY <1>2, EndsAre
  <2> QED BY <2>1, <2>2, EndedByStep
<1>3. ASSUME UNCHANGED task \/ SeedReturns PROVE Kept(e)
  BY <1>3, KeptByStep
<1>4. ASSUME \/ \E d \in Event : Checkout(d) \/ Pay(d) \/ Replay(d)
             \/ \E w \in Wallet : Payout(w, AdminAmount)
             \/ AdminCredit \/ InvariantRoute \/ Tick \/ UNCHANGED vars
      PROVE  UNCHANGED task
  BY <1>4 DEF Checkout, Pay, Replay, Payout, AdminCredit, InvariantRoute, Tick, vars
<1> QED BY <1>1, <1>2, <1>3, <1>4, KeptByStep

LEMMA MintKeeps ==
    ASSUME Types, Types', SlotInv, MintInv, [Next]_vars
    PROVE  MintInv'
<1> SUFFICES ASSUME NEW e \in Event PROVE MintOk(e)'
  BY DEF MintInv
<1> USE DEF chain, process, provider, budget
<1>0. MintOk(e) /\ Counters(e) /\ Counters(e)' /\ MemoryType /\ e \in Source /\ e # Admin
  BY CountersType, EventAssumption
     DEF MintInv, Counters, Types, ChainType, ProviderType, Source
<1>a. One(Has(e, {"flying"})) \in {0, 1} /\ One(Has(e, MintPcs)) \in {0, 1} /\ One(Credited(e)) \in {0, 1}
  BY OneType
<1>1. CASE UNCHANGED <<minted, orphans, failed, crashes>> /\ (Credited(e)' <=> Credited(e)) /\ Kept(e)
  <2>1. minted'[e] + orphans'[e] <= minted[e] + orphans[e]
    BY <1>0, <1>1 DEF Counters
  <2> QED BY <1>0, <1>1, <2>1, MintKept
<1>2. CASE \/ \E d \in Event : Checkout(d) \/ Pay(d) \/ Replay(d) \/ \E t \in Slot : Join(d, t) \/ Lead(d, t)
           \/ \E t \in Slot : \/ SupplyReturns(t) \/ RunReturns(t) \/ AdminWrapReturns(t)
                              \/ \E credit \in BOOLEAN : AdminWrap(t, credit)
           \/ \E w \in Wallet : Payout(w, AdminAmount)
           \/ AdminCredit \/ InvariantRoute \/ SeedReturns \/ Tick \/ UNCHANGED vars
  <2>1. Kept(e) /\ UNCHANGED <<minted, orphans, failed, crashes, credits>>
    BY <1>2, UnmintedSteps
  <2>2. Credited(e)' <=> Credited(e)
    BY <2>1 DEF Credited
  <2> QED BY <1>1, <2>1, <2>2
<1>3. ASSUME NEW d \in Event, Reject(d) PROVE MintOk(e)'
  <2>1. /\ UNCHANGED <<minted, orphans, failed, crashes, task>> /\ credits[d] = None
        /\ credits' = [credits EXCEPT ![d] = [status |-> "rejected", at |-> now]]
    BY <1>3 DEF Reject, Fresh
  <2>2. Credited(e)' <=> Credited(e)
    BY <1>0, <2>1 DEF Credited, MemoryType
  <2> QED BY <1>1, <2>1, <2>2, KeptByStep
<1>4. ASSUME NEW t \in Slot, CreditReserve(t) \/ Send(t) \/ Land(t), task[t].src # e PROVE MintOk(e)'
  <2>1. Kept(e) /\ UNCHANGED <<orphans, failed, crashes, credits>>
    BY <1>4, MovedByStep DEF CreditReserve, Send, Land
  <2>2. minted'[e] = minted[e]
    <3>1. CASE Land(t)
      BY <1>0, <1>4, <3>1 DEF Land, MintLands, Types, ChainType
    <3>2. CASE CreditReserve(t) \/ Send(t)
      BY <3>2 DEF CreditReserve, Send
    <3> QED BY <1>4, <3>1, <3>2
  <2>3. Credited(e)' <=> Credited(e)
    BY <2>1 DEF Credited
  <2>4. minted'[e] + orphans'[e] <= minted[e] + orphans[e]
    BY <1>0, <2>1, <2>2 DEF Counters
  <2> QED BY <1>0, <2>1, <2>3, <2>4, MintKept
<1>5. ASSUME NEW t \in Slot, CreditReserve(t), task[t].src = e PROVE MintOk(e)'
  <2>1. ~Has(e, MintPcs)' /\ ~Has(e, MintPcs) /\ ~Has(e, {"flying"}) /\ ~Has(e, {"flying"})'
    BY <1>5, MovedByStep
  <2>2. UNCHANGED <<minted, orphans, failed, crashes, credits>>
    BY <1>5 DEF CreditReserve
  <2>3. /\ One(Has(e, {"flying"}))' = One(Has(e, {"flying"})) /\ One(Has(e, MintPcs))' = One(Has(e, MintPcs))
        /\ One(Credited(e))' = One(Credited(e))
    BY <2>1, <2>2 DEF One, Credited
  <2> QED BY <1>0, <2>2, <2>3 DEF MintOk
<1>6. ASSUME NEW t \in Slot, Send(t), task[t].src = e PROVE MintOk(e)'
  <2>1. Has(e, MintPcs)' /\ ~Has(e, MintPcs) /\ Has(e, {"flying"})' /\ ~Has(e, {"flying"})
    BY <1>6, MovedByStep
  <2>2. UNCHANGED <<minted, orphans, failed, crashes, credits>>
    BY <1>6 DEF Send
  <2>3. /\ One(Has(e, {"flying"})) = 0 /\ One(Has(e, MintPcs)) = 0
        /\ One(Has(e, {"flying"}))' = 1 /\ One(Has(e, MintPcs))' = 1
        /\ One(Credited(e))' = One(Credited(e))
    BY <2>1, <2>2 DEF One, Credited
  <2> QED BY <1>0, <1>a, <2>2, <2>3 DEF MintOk, Counters
<1>7. ASSUME NEW t \in Slot, Land(t), task[t].src = e PROVE MintOk(e)'
  <2>1. Has(e, MintPcs)' /\ Has(e, MintPcs) /\ Has(e, {"flying"}) /\ ~Has(e, {"flying"})'
    BY <1>7, MovedByStep
  <2>2. UNCHANGED <<orphans, failed, crashes, credits>> /\ minted'[e] = minted[e] + 1
    BY <1>0, <1>7 DEF Land, MintLands, Types, ChainType
  <2>3. /\ One(Has(e, {"flying"})) = 1 /\ One(Has(e, MintPcs)) = 1
        /\ One(Has(e, {"flying"}))' = 0 /\ One(Has(e, MintPcs))' = 1
        /\ One(Credited(e))' = One(Credited(e))
    BY <2>1, <2>2 DEF One, Credited
  <2> QED BY <1>0, <1>a, <2>2, <2>3 DEF MintOk, Counters
<1>8. ASSUME NEW s \in Source, OrphanLands(s) \/ OrphanDropped(s) PROVE MintOk(e)'
  <2>1. UNCHANGED <<task, credits, failed, crashes>>
    BY <1>8 DEF OrphanLands, OrphanDropped
  <2>2. minted'[e] + orphans'[e] <= minted[e] + orphans[e]
    <3>1. minted \in [Source -> Nat] /\ orphans \in [Source -> Nat] /\ orphans[s] > 0
      BY <1>8 DEF Types, ChainType, OrphanLands, OrphanDropped
    <3>2. CASE OrphanLands(s)
      <4>1. minted' = [minted EXCEPT ![s] = @ + 1] /\ orphans' = [orphans EXCEPT ![s] = @ - 1]
        BY <3>2 DEF OrphanLands, MintLands
      <4> QED BY <1>0, <3>1, <4>1
    <3>3. CASE OrphanDropped(s)
      <4>1. minted' = minted /\ orphans' = [orphans EXCEPT ![s] = @ - 1]
        BY <3>3 DEF OrphanDropped
      <4> QED BY <1>0, <3>1, <4>1
    <3> QED BY <1>8, <3>2, <3>3
  <2>3. Credited(e)' <=> Credited(e)
    BY <2>1 DEF Credited
  <2> QED BY <1>0, <2>1, <2>2, <2>3, KeptByStep, MintKept
<1>9. ASSUME NEW t \in Slot, InvariantViolation(t) \/ RpcFails(t) \/ ReserveRejects(t) PROVE MintOk(e)'
  <2>1. Ends({t}) /\ Throw({t})
    BY <1>9, EndsAre DEF InvariantViolation, RpcFails, ReserveRejects
  <2> QED BY <1>0, <2>1, MintThrown
<1>10. CASE SeedFails
  <2> DEFINE T == {t \in Slot : AwaitsSeed(t)}
  <2>1. Ends(T) /\ Throw(T)
    BY <1>10, EndsAre DEF SeedFails
  <2> HIDE DEF T
  <2> QED BY <1>0, <2>1, MintThrown
<1>11. ASSUME NEW t \in Slot, Credit(t) PROVE MintOk(e)'
  <2>1. /\ Ends({t}) /\ UNCHANGED <<minted, orphans, failed, crashes>> /\ task[t].pc = "after"
        /\ task[t].src # Admin
        /\ credits' = [credits EXCEPT ![task[t].src] = [status |-> "credited", at |-> now]]
    BY <1>11, EndsAre DEF Credit
  <2>2. CASE e # task[t].src
    <3>1. e \notin EventsOf({t})
      BY <2>2 DEF EventsOf
    <3>2. Credited(e)' <=> Credited(e)
      BY <1>0, <2>1, <2>2 DEF Credited, MemoryType
    <3> QED BY <1>1, <2>1, <3>1, <3>2, EndedByStep
  <2>3. CASE e = task[t].src
    <3>1. e \in EventsOf({t})
      BY <1>0, <2>3 DEF EventsOf
    <3>2. ~Has(e, MintPcs)' /\ ~Has(e, {"flying"})' /\ ~Has(e, {"flying"}) /\ Has(e, MintPcs)
      BY <2>1, <2>3, <3>1, EndedByStep DEF MintPcs
    <3>3. ~Credited(e) /\ Credited(e)'
      <4>1. Has(e, LeadPcs)
        BY <3>2, PcSets DEF Has
      <4>2. credits[e] = None
        BY <4>1 DEF SlotInv, InFlightLed, NotYetCredited
      <4>3. credits'[e] = [status |-> "credited", at |-> now]
        BY <1>0, <2>1, <2>3 DEF MemoryType
      <4>4. credits'[e] # None
        BY <4>3, EventAssumption DEF Types, ProviderType
      <4> QED BY <4>2, <4>3, <4>4 DEF Credited
    <3>4. /\ One(Has(e, {"flying"})) = 0 /\ One(Has(e, MintPcs)) = 1 /\ One(Credited(e)) = 0
          /\ One(Has(e, {"flying"}))' = 0 /\ One(Has(e, MintPcs))' = 0 /\ One(Credited(e))' = 1
      BY <3>2, <3>3 DEF One
    <3> QED BY <1>0, <2>1, <3>4 DEF MintOk, Counters
  <2> QED BY <2>2, <2>3
<1>12. CASE Crash
  <2>1. /\ crashes' = crashes + 1 /\ UNCHANGED <<minted, failed>>
        /\ credits'[e] = None /\ \A t \in Slot : task'[t].pc = "idle"
        /\ orphans'[e] = orphans[e] + Flying(e)
    BY <1>0, <1>12 DEF Crash, IdleTask, Flying
  <2>2. orphans'[e] = orphans[e] + One(Has(e, {"flying"}))
    BY <1>0, <2>1, CountsAreOne
  <2>3. ~Has(e, {"flying"})' /\ ~Has(e, MintPcs)' /\ ~Credited(e)'
    BY <2>1 DEF Has, MintPcs, Credited
  <2>4. One(Has(e, {"flying"}))' = 0 /\ One(Has(e, MintPcs))' = 0 /\ One(Credited(e))' = 0
    BY <2>3 DEF One
  <2>5. One(Credited(e)) + One(Has(e, MintPcs)) <= 1
    <3>1. Has(e, MintPcs) => Has(e, LeadPcs)
      BY PcSets DEF Has
    <3>2. ~Has(e, MintPcs) \/ ~Credited(e)
      BY <3>1 DEF SlotInv, InFlightLed, NotYetCredited, Credited
    <3> QED BY <3>2 DEF One
  <2> QED BY <1>0, <1>a, <2>1, <2>2, <2>4, <2>5 DEF MintOk, Counters
<1> QED BY <1>2, <1>3, <1>4, <1>5, <1>6, <1>7, <1>8, <1>9, <1>10, <1>11, <1>12
        DEF Next, Deliver, Progress

-----------------------------------------------------------------------------
(* The reserve. *)

LEMMA AttemptsType ==
    ASSUME Types, NEW e \in Event
    PROVE  Attempts(e) \in Nat /\ minted[e] \in Nat /\ Amount[e] \in Nat
<1>1. Counters(e) /\ Amount[e] \in Nat
  BY CountersType, EventAssumption
<1>2. One(Credited(e)) \in {0, 1} /\ One(Has(e, PastPcs)) \in {0, 1}
  BY OneType
<1> QED BY <1>1, <1>2 DEF Attempts, Counters

LEMMA MintedStays ==
    ASSUME \A e \in Event : minted'[e] = minted[e]
    PROVE  MintedSum' = MintedSum
<1>1. PICK f : f = MintedWorth
  OBVIOUS
<1>2. PICK g : g = MintedWorth'
  OBVIOUS
<1>3. MintedSum = Sum(f, Event)
  BY <1>1 DEF MintedSum
<1>4. MintedSum' = Sum(g, Event)
  BY <1>2 DEF MintedSum
<1>5. \A e \in Event : f[e] = g[e]
  BY <1>1, <1>2 DEF MintedWorth
<1>6. IsFiniteSet(Event)
  BY EventAssumption
<1> QED BY <1>3, <1>4, <1>5, <1>6, SumSame

LEMMA MintedMoves ==
    ASSUME Types, Types', NEW s \in Event, minted'[s] = minted[s] + 1,
           \A e \in Event \ {s} : minted'[e] = minted[e]
    PROVE  MintedSum' = MintedSum + Amount[s]
<1>1. PICK f : f = MintedWorth
  OBVIOUS
<1>2. PICK g : g = MintedWorth'
  OBVIOUS
<1>3. MintedSum = Sum(f, Event)
  BY <1>1 DEF MintedSum
<1>4. MintedSum' = Sum(g, Event)
  BY <1>2 DEF MintedSum
<1>5. \A e \in Event : minted[e] \in Nat /\ minted'[e] \in Nat /\ Amount[e] \in Nat
  BY EventAssumption DEF Types, ChainType, Source
<1>6. \A e \in Event : /\ f[e] = minted[e] * Amount[e] /\ g[e] = minted'[e] * Amount[e]
                       /\ f[e] \in Int /\ g[e] \in Int
  BY <1>1, <1>2, <1>5 DEF MintedWorth
<1>7. \A e \in Event \ {s} : g[e] = f[e]
  BY <1>6
<1>8. g[s] = f[s] + Amount[s]
  <2>1. \A m, n \in Nat : (m + 1) * n = m * n + n
    OBVIOUS
  <2>2. g[s] = (minted[s] + 1) * Amount[s] /\ f[s] = minted[s] * Amount[s]
    BY <1>6
  <2> QED BY <1>5, <2>1, <2>2
<1>9. IsFiniteSet(Event)
  BY EventAssumption
<1>10. Sum(g, Event) = Sum(f, Event) + g[s] - f[s] /\ Sum(f, Event) \in Int
  BY <1>6, <1>7, <1>9, SumMoves, SumType
<1> QED BY <1>3, <1>4, <1>5, <1>6, <1>8, <1>10

LEMMA CreditedStays ==
    ASSUME \A e \in Event : Attempts(e)' = Attempts(e)
    PROVE  CreditedSum' = CreditedSum
<1>1. PICK f : f = CreditedWorth
  OBVIOUS
<1>2. PICK g : g = CreditedWorth'
  OBVIOUS
<1>3. CreditedSum = Sum(f, Event)
  BY <1>1 DEF CreditedSum
<1>4. CreditedSum' = Sum(g, Event)
  BY <1>2 DEF CreditedSum
<1>5. \A e \in Event : f[e] = g[e]
  BY <1>1, <1>2 DEF CreditedWorth
<1>6. IsFiniteSet(Event)
  BY EventAssumption
<1> QED BY <1>3, <1>4, <1>5, <1>6, SumSame

LEMMA CreditedMoves ==
    ASSUME Types, NEW s \in Event, Attempts(s)' = Attempts(s) + 1,
           \A e \in Event \ {s} : Attempts(e)' = Attempts(e)
    PROVE  CreditedSum' = CreditedSum + Amount[s]
<1>1. PICK f : f = CreditedWorth
  OBVIOUS
<1>2. PICK g : g = CreditedWorth'
  OBVIOUS
<1>3. CreditedSum = Sum(f, Event)
  BY <1>1 DEF CreditedSum
<1>4. CreditedSum' = Sum(g, Event)
  BY <1>2 DEF CreditedSum
<1>5. \A e \in Event : Attempts(e) \in Nat /\ Attempts(e)' \in Nat /\ Amount[e] \in Nat
  BY AttemptsType
<1>6. \A e \in Event : /\ f[e] = Attempts(e) * Amount[e] /\ g[e] = Attempts(e)' * Amount[e]
                       /\ f[e] \in Int /\ g[e] \in Int
  BY <1>1, <1>2, <1>5 DEF CreditedWorth
<1>7. \A e \in Event \ {s} : g[e] = f[e]
  BY <1>6
<1>8. g[s] = f[s] + Amount[s]
  BY <1>5, <1>6
<1>9. IsFiniteSet(Event)
  BY EventAssumption
<1>10. Sum(g, Event) = Sum(f, Event) + g[s] - f[s] /\ Sum(f, Event) \in Int
  BY <1>6, <1>7, <1>9, SumMoves, SumType
<1> QED BY <1>3, <1>4, <1>5, <1>6, <1>8, <1>10

(* A world without operators and restarts stays one backwards.              *)
LEMMA UntouchedBefore ==
    ASSUME Types, [Next]_vars, Untouched'
    PROVE  /\ Untouched /\ ~Crash /\ ~AdminCredit
           /\ \A t \in Slot, credit \in BOOLEAN : ~AdminWrap(t, credit)
<1> USE DEF chain, process, provider, budget
<1>1. crashes \in Nat /\ adminOps \in Nat /\ crashes' = 0 /\ adminOps' = 0
  BY DEF Types, ProviderType, Untouched
<1>2. ~Crash /\ ~AdminCredit /\ \A t \in Slot, credit \in BOOLEAN : ~AdminWrap(t, credit)
  BY <1>1 DEF Crash, AdminCredit, AdminWrap
<1>3. ASSUME NEW e \in Event, Checkout(e) \/ Pay(e) \/ Deliver(e) PROVE UNCHANGED <<crashes, adminOps>>
  BY <1>3 DEF Checkout, Pay, Deliver, Replay, Reject, Join, Lead
<1>4. ASSUME NEW t \in Slot, Progress(t) \/ RpcFails(t) PROVE UNCHANGED <<crashes, adminOps>>
  BY <1>4 DEF Progress, CreditReserve, SupplyReturns, Send, Land, RunReturns, Credit, AdminWrapReturns,
              InvariantViolation, ReserveRejects, RpcFails, Fault, Throw
<1>5. ASSUME \/ \E s \in Source : OrphanLands(s) \/ OrphanDropped(s)
             \/ \E w \in Wallet : Payout(w, AdminAmount)
             \/ InvariantRoute \/ SeedReturns \/ SeedFails \/ Tick \/ UNCHANGED vars
      PROVE  UNCHANGED <<crashes, adminOps>>
  BY <1>5 DEF OrphanLands, OrphanDropped, Payout, InvariantRoute, SeedReturns, SeedFails, Throw, Tick, vars
<1>6. UNCHANGED <<crashes, adminOps>>
  BY <1>2, <1>3, <1>4, <1>5 DEF Next
<1> QED BY <1>1, <1>2, <1>6 DEF Untouched

(* Only CreditReserve starts an attempt the reserve counts.                 *)
LEMMA AttemptKept ==
    ASSUME NEW e, Kept(e), failed'[e] = failed[e], Credited(e)' <=> Credited(e)
    PROVE  Attempts(e)' = Attempts(e)
<1>1. One(Has(e, PastPcs))' = One(Has(e, PastPcs)) /\ One(Credited(e))' = One(Credited(e))
  BY DEF Kept, One
<1> QED BY <1>1 DEF Attempts

LEMMA AttemptThrown ==
    ASSUME Types, SlotInv, NEW e \in Event, NEW T, Ends(T), Throw(T),
           \A t \in T : task[t].pc \in PastPcs
    PROVE  Attempts(e)' = Attempts(e)
<1>1. Counters(e)
  BY CountersType
<1>2. Credited(e)' <=> Credited(e)
  BY DEF Throw, Credited
<1>3. failed'[e] = failed[e] + (IF e \in EventsOf(T) THEN 1 ELSE 0)
  BY DEF Throw
<1>4. CASE e \notin EventsOf(T)
  <2>1. Kept(e)
    BY <1>4, EndedByStep
  <2> QED BY <1>1, <1>2, <1>3, <1>4, <2>1, AttemptKept DEF Counters
<1>5. CASE e \in EventsOf(T)
  <2>1. ~Has(e, PastPcs)' /\ Has(e, PastPcs)
    BY <1>5, EndedByStep DEF EventsOf
  <2>2. One(Has(e, PastPcs))' = 0 /\ One(Has(e, PastPcs)) = 1 /\ One(Credited(e))' = One(Credited(e))
    BY <1>2, <2>1 DEF One
  <2>3. One(Credited(e)) \in {0, 1}
    BY OneType
  <2> QED BY <1>1, <1>3, <1>5, <2>2, <2>3 DEF Attempts, Counters
<1> QED BY <1>4, <1>5

LEMMA AttemptsByStep ==
    ASSUME Types, SlotInv, [Next]_vars, Untouched', NEW e \in Event
    PROVE  \/ Attempts(e)' = Attempts(e)
           \/ /\ Attempts(e)' = Attempts(e) + 1
              /\ \E t \in Slot : CreditReserve(t) /\ task[t].src = e
<1> USE DEF chain, process, provider, budget
<1> DEFINE Same == Attempts(e)' = Attempts(e)
<1>0. MemoryType /\ Counters(e) /\ e # Admin
  BY CountersType, EventAssumption DEF Types
<1>1. CASE \/ \E d \in Event : Checkout(d) \/ Pay(d) \/ Replay(d) \/ \E t \in Slot : Join(d, t) \/ Lead(d, t)
           \/ \E t \in Slot : SupplyReturns(t) \/ RunReturns(t) \/ AdminWrapReturns(t)
           \/ \E w \in Wallet : Payout(w, AdminAmount)
           \/ InvariantRoute \/ SeedReturns \/ Tick \/ UNCHANGED vars
  <2>1. Kept(e) /\ UNCHANGED <<minted, orphans, failed, crashes, credits>>
    BY <1>1, UnmintedSteps
  <2>2. Credited(e)' <=> Credited(e)
    BY <2>1 DEF Credited
  <2> QED BY <2>1, <2>2, AttemptKept
<1>2. ASSUME NEW d \in Event, Reject(d) PROVE Same
  <2>1. /\ UNCHANGED <<failed, task>> /\ credits[d] = None
        /\ credits' = [credits EXCEPT ![d] = [status |-> "rejected", at |-> now]]
    BY <1>2 DEF Reject, Fresh
  <2>2. Credited(e)' <=> Credited(e)
    BY <1>0, <2>1 DEF Credited, MemoryType
  <2> QED BY <2>1, <2>2, KeptByStep, AttemptKept
<1>3. ASSUME NEW t \in Slot, CreditReserve(t) \/ Send(t) \/ Land(t), task[t].src # e PROVE Same
  <2>1. Kept(e) /\ UNCHANGED <<failed, credits>>
    BY <1>3, MovedByStep DEF CreditReserve, Send, Land
  <2>2. Credited(e)' <=> Credited(e)
    BY <2>1 DEF Credited
  <2> QED BY <2>1, <2>2, AttemptKept
<1>4. ASSUME NEW t \in Slot, Send(t) \/ Land(t), task[t].src = e PROVE Same
  <2>1. (Has(e, PastPcs)' <=> Has(e, PastPcs)) /\ UNCHANGED <<failed, credits>>
    BY <1>4, MovedByStep DEF Send, Land
  <2>2. One(Has(e, PastPcs))' = One(Has(e, PastPcs)) /\ One(Credited(e))' = One(Credited(e))
    BY <2>1 DEF One, Credited
  <2> QED BY <2>1, <2>2 DEF Attempts
<1>5. ASSUME NEW t \in Slot, CreditReserve(t), task[t].src = e PROVE Attempts(e)' = Attempts(e) + 1
  <2>1. ~Has(e, PastPcs) /\ Has(e, PastPcs)' /\ UNCHANGED <<failed, credits>>
    BY <1>5, MovedByStep DEF CreditReserve
  <2>2. /\ One(Has(e, PastPcs))' = 1 /\ One(Has(e, PastPcs)) = 0
        /\ One(Credited(e))' = One(Credited(e))
    BY <2>1 DEF One, Credited
  <2>3. One(Credited(e)) \in {0, 1}
    BY OneType
  <2>4. failed'[e] = failed[e]
    BY <2>1
  <2> QED BY <1>0, <2>2, <2>3, <2>4 DEF Attempts, Counters
<1>6. ASSUME NEW s \in Source, OrphanLands(s) \/ OrphanDropped(s) PROVE Same
  <2>1. UNCHANGED <<task, credits, failed>>
    BY <1>6 DEF OrphanLands, OrphanDropped
  <2>2. Credited(e)' <=> Credited(e)
    BY <2>1 DEF Credited
  <2> QED BY <2>1, <2>2, KeptByStep, AttemptKept
<1>7. ASSUME NEW t \in Slot, InvariantViolation(t) \/ RpcFails(t) \/ ReserveRejects(t) PROVE Same
  <2>1. Ends({t}) /\ Throw({t}) /\ task[t].pc \in PastPcs
    BY <1>7, EndsAre DEF InvariantViolation, RpcFails, ReserveRejects, BothRead, AwaitsSeed, PastPcs, MintPcs
  <2> QED BY <2>1, AttemptThrown
<1>8. CASE SeedFails
  <2> DEFINE T == {t \in Slot : AwaitsSeed(t)}
  <2>1. Ends(T) /\ Throw(T)
    BY <1>8, EndsAre DEF SeedFails
  <2>2. \A t \in T : task[t].pc \in PastPcs
    BY DEF AwaitsSeed, PastPcs
  <2> HIDE DEF T
  <2> QED BY <2>1, <2>2, AttemptThrown
<1>9. ASSUME NEW t \in Slot, Credit(t) PROVE Same
  <2>1. /\ Ends({t}) /\ UNCHANGED failed /\ task[t].pc = "after"
        /\ task[t].src # Admin
        /\ credits' = [credits EXCEPT ![task[t].src] = [status |-> "credited", at |-> now]]
    BY <1>9, EndsAre DEF Credit
  <2>2. CASE e # task[t].src
    <3>1. e \notin EventsOf({t})
      BY <2>2 DEF EventsOf
    <3>2. Credited(e)' <=> Credited(e)
      BY <1>0, <2>1, <2>2 DEF Credited, MemoryType
    <3> QED BY <2>1, <3>1, <3>2, EndedByStep, AttemptKept
  <2>3. CASE e = task[t].src
    <3>1. e \in EventsOf({t})
      BY <1>0, <2>3 DEF EventsOf
    <3>2. ~Has(e, PastPcs)' /\ Has(e, PastPcs)
      BY <2>1, <2>3, <3>1, EndedByStep DEF PastPcs, MintPcs
    <3>3. ~Credited(e) /\ Credited(e)'
      <4>1. Has(e, LeadPcs)
        BY <3>2, PcSets DEF Has
      <4>2. credits[e] = None
        BY <4>1 DEF SlotInv, InFlightLed, NotYetCredited
      <4>3. credits'[e] = [status |-> "credited", at |-> now]
        BY <1>0, <2>1, <2>3 DEF MemoryType
      <4>4. credits'[e] # None
        BY <4>3, EventAssumption DEF Types, ProviderType
      <4> QED BY <4>2, <4>3, <4>4 DEF Credited
    <3>4. /\ One(Has(e, PastPcs)) = 1 /\ One(Credited(e)) = 0
          /\ One(Has(e, PastPcs))' = 0 /\ One(Credited(e))' = 1
      BY <3>2, <3>3 DEF One
    <3> QED BY <1>0, <2>1, <3>4 DEF Attempts, Counters
  <2> QED BY <2>2, <2>3
<1> HIDE DEF Same
<1>10. Same \/ \E t \in Slot : CreditReserve(t) /\ task[t].src = e
  <2>1. ASSUME NEW t \in Slot, CreditReserve(t) \/ Send(t) \/ Land(t)
        PROVE  Same \/ (CreditReserve(t) /\ task[t].src = e)
    BY <2>1, <1>3, <1>4
  <2> QED BY UntouchedBefore, <2>1, <1>1, <1>2, <1>6, <1>7, <1>8, <1>9
          DEF Next, Deliver, Progress, Same
<1> QED BY <1>5, <1>10 DEF Same

(* What provider traffic alone can hold, lose and mint.                     *)
LEMMA NoneByAdminKeeps ==
    ASSUME Types, SlotInv, NoneByAdmin, [Next]_vars, Untouched'
    PROVE  NoneByAdmin'
<1> USE DEF chain, process, provider, budget
<1>0. /\ task \in [Slot -> TaskRec] /\ Admin \notin Event /\ None # Admin /\ MemoryType /\ Admin \in Source
      /\ orphans \in [Source -> Nat] /\ minted \in [Source -> Nat]
      /\ \A t \in Slot : task[t].src # Admin
      /\ orphans[Admin] = 0 /\ minted[Admin] = 0
      /\ IdleTask.src = None
  BY EventAssumption DEF Types, ChainType, MemoryType, NoneByAdmin, Source, IdleTask
<1>1. ASSUME UNCHANGED <<task, orphans, minted>> PROVE NoneByAdmin'
  BY <1>0, <1>1 DEF NoneByAdmin
<1>2. CASE \/ \E d \in Event : Checkout(d) \/ Pay(d) \/ Replay(d) \/ Reject(d)
           \/ \E w \in Wallet : Payout(w, AdminAmount)
           \/ InvariantRoute \/ Tick \/ UNCHANGED vars
  <2>1. UNCHANGED <<task, orphans, minted>>
    BY <1>2 DEF Checkout, Pay, Replay, Reject, Payout, InvariantRoute, Tick, vars
  <2> QED BY <1>1, <2>1
<1>3. ASSUME NEW t \in Slot, NEW r, task' = [task EXCEPT ![t] = r], r.src # Admin,
             orphans'[Admin] = 0, minted'[Admin] = 0
      PROVE  NoneByAdmin'
  BY <1>0, <1>3 DEF NoneByAdmin
<1>4. ASSUME NEW d \in Event, NEW t \in Slot, Join(d, t) \/ Lead(d, t) PROVE NoneByAdmin'
  <2>1. UNCHANGED <<orphans, minted>>
    BY <1>4 DEF Join, Lead
  <2>2. ASSUME NEW pc, task' = [task EXCEPT ![t] = [task[t] EXCEPT !.pc = pc, !.src = d]] PROVE NoneByAdmin'
    <3> DEFINE r == [task[t] EXCEPT !.pc = pc, !.src = d]
    <3>1. r.src # Admin
      BY <1>0 DEF TaskRec
    <3>2. task' = [task EXCEPT ![t] = r]
      BY <2>2
    <3> HIDE DEF r
    <3>3. orphans'[Admin] = 0 /\ minted'[Admin] = 0
      BY <1>0, <2>1
    <3> QED BY <1>3, <3>1, <3>2, <3>3
  <2>3. CASE Join(d, t)
    BY <2>2, <2>3, SlotSteps
  <2>4. CASE Lead(d, t)
    BY <2>2, <2>4, SlotSteps
  <2> QED BY <1>4, <2>3, <2>4
<1>5. ASSUME NEW t \in Slot, CreditReserve(t) PROVE NoneByAdmin'
  <2> PICK s : s = task[t].src
    OBVIOUS
  <2>1. s \in Source /\ s # Admin /\ mockReserve + AmountOf(s) \in Nat
    <3>1. s \in Source /\ s # Admin
      BY <1>0, <1>5 DEF CreditReserve, SlotInv, Tidy, Source
    <3> QED BY <3>1, AmountType DEF MemoryType, Types
  <2>2. StartReading(t, s, mockReserve + AmountOf(s)) /\ UNCHANGED <<orphans, minted>>
    BY <1>5 DEF CreditReserve
  <2>3. PICK seen \in Nat \cup {None} : task' = [task EXCEPT ![t] = Reading(s, seen)]
    BY <2>1, <2>2, ReadingStarts
  <2>4. Reading(s, seen).src # Admin
    BY <2>1 DEF Reading
  <2> QED BY <1>0, <1>3, <2>2, <2>3, <2>4
<1>6. CASE SeedReturns
  <2>1. UNCHANGED <<orphans, minted>> /\ \A t \in Slot : task'[t].src = task[t].src
    BY <1>0, <1>6 DEF SeedReturns, AwaitsSeed, TaskRec
  <2> QED BY <1>0, <2>1 DEF NoneByAdmin
<1>7. ASSUME NEW t \in Slot, SupplyReturns(t) \/ Send(t) \/ RunReturns(t) \/ Land(t) PROVE NoneByAdmin'
  <2>1. orphans'[Admin] = 0 /\ minted'[Admin] = 0
    <3>1. CASE Land(t)
      <4>1. minted' = [minted EXCEPT ![task[t].src] = @ + 1] /\ UNCHANGED orphans
        BY <3>1 DEF Land, MintLands
      <4> QED BY <1>0, <4>1
    <3>2. CASE SupplyReturns(t) \/ Send(t) \/ RunReturns(t)
      BY <1>0, <3>2 DEF SupplyReturns, Send, RunReturns
    <3> QED BY <1>7, <3>1, <3>2
  <2>2. ASSUME NEW pc, task' = [task EXCEPT ![t] = [task[t] EXCEPT !.pc = pc]]
        PROVE  \A u \in Slot : task'[u].src = task[u].src
    BY <1>0, <2>2 DEF TaskRec
  <2>3. ASSUME SupplyReturns(t) PROVE \A u \in Slot : task'[u].src = task[u].src
    <3>1. task' = [task EXCEPT ![t] = [task[t] EXCEPT !.supplySeen = supply]]
      BY <2>3, SlotSteps
    <3> QED BY <1>0, <3>1 DEF TaskRec
  <2>4. \A u \in Slot : task'[u].src = task[u].src
    BY <1>7, <2>2, <2>3, SlotSteps
  <2> QED BY <1>0, <2>1, <2>4 DEF NoneByAdmin
<1>8. ASSUME NEW s \in Source, OrphanLands(s) \/ OrphanDropped(s) PROVE NoneByAdmin'
  <2>1. s # Admin /\ UNCHANGED task
    BY <1>0, <1>8 DEF OrphanLands, OrphanDropped
  <2>2. orphans' = [orphans EXCEPT ![s] = @ - 1] /\ minted' \in {minted, [minted EXCEPT ![s] = @ + 1]}
    BY <1>8 DEF OrphanLands, OrphanDropped, MintLands
  <2> QED BY <1>0, <2>1, <2>2 DEF NoneByAdmin
<1>9. ASSUME NEW T, Ends(T), UNCHANGED minted, orphans'[Admin] = 0 PROVE NoneByAdmin'
  <2>1. \A u \in Slot : task'[u] = task[u] \/ task'[u] = IdleTask
    BY <1>0, <1>9, Freed DEF Ends
  <2> QED BY <1>0, <1>9, <2>1 DEF NoneByAdmin
<1>10. ASSUME NEW T \in SUBSET Slot, Throw(T) PROVE UNCHANGED minted /\ orphans'[Admin] = 0
  <2>1. {t \in T : task[t].pc = "flying" /\ task[t].src = Admin} = {}
    BY <1>0
  <2>2. Cardinality({t \in T : task[t].pc = "flying" /\ task[t].src = Admin}) = 0
    BY <2>1, FS_EmptySet
  <2>3. orphans'[Admin] = orphans[Admin] + Cardinality({t \in T : task[t].pc = "flying" /\ task[t].src = Admin})
    BY <1>0, <1>10 DEF Throw
  <2>4. orphans'[Admin] = 0
    BY <1>0, <2>2, <2>3
  <2> QED BY <1>10, <2>4 DEF Throw
<1>11. ASSUME NEW t \in Slot, Credit(t) \/ AdminWrapReturns(t) PROVE NoneByAdmin'
  BY <1>0, <1>9, <1>11, EndsAre DEF Credit, AdminWrapReturns
<1>12. ASSUME NEW t \in Slot, InvariantViolation(t) \/ RpcFails(t) \/ ReserveRejects(t) PROVE NoneByAdmin'
  <2>1. Ends({t}) /\ Throw({t})
    BY <1>12, EndsAre DEF InvariantViolation, RpcFails, ReserveRejects
  <2> QED BY <1>9, <1>10, <2>1
<1>13. CASE SeedFails
  <2> DEFINE T == {t \in Slot : AwaitsSeed(t)}
  <2>1. Ends(T) /\ Throw(T) /\ T \in SUBSET Slot
    BY <1>13, EndsAre DEF SeedFails
  <2> HIDE DEF T
  <2> QED BY <1>9, <1>10, <2>1
<1> QED BY UntouchedBefore, <1>2, <1>4, <1>5, <1>6, <1>7, <1>8, <1>11, <1>12, <1>13
        DEF Next, Deliver, Progress

(* Who moves the chain, the seeding and the ledger.                         *)
LEMMA MovesByStep ==
    ASSUME Types, SlotInv, [Next]_vars, Untouched'
    PROVE  /\ \/ UNCHANGED <<supply, minted>>
              \/ \E s \in Source : MintLands(s) /\ (seeding = "done" \/ orphans[s] > 0)
           /\ \A e \in Event : orphans'[e] <= orphans[e] \/ seeding = "done"
           /\ SeedReturns \/ (seeding' = "done" <=> seeding = "done")
           /\ SeedReturns \/ UNCHANGED mockReserve \/ \E t \in Slot : CreditReserve(t)
<1> USE DEF chain, process, provider, budget
<1> DEFINE Goal == /\ \/ UNCHANGED <<supply, minted>>
                      \/ \E s \in Source : MintLands(s) /\ (seeding = "done" \/ orphans[s] > 0)
                   /\ \A e \in Event : orphans'[e] <= orphans[e] \/ seeding = "done"
                   /\ SeedReturns \/ (seeding' = "done" <=> seeding = "done")
                   /\ SeedReturns \/ UNCHANGED mockReserve \/ \E t \in Slot : CreditReserve(t)
<1> SUFFICES Goal
  OBVIOUS
<1>0. MemoryType /\ orphans \in [Source -> Nat] /\ \A e \in Event : e \in Source /\ orphans[e] \in Nat
  BY DEF Types, ChainType, Source
<1>1. ASSUME UNCHANGED <<supply, minted, orphans, mockReserve>>, seeding' = "done" <=> seeding = "done"
      PROVE  Goal
  BY <1>0, <1>1
<1>2. CASE \/ \E d \in Event : Checkout(d) \/ Pay(d) \/ Replay(d) \/ Reject(d)
                               \/ \E t \in Slot : Join(d, t) \/ Lead(d, t)
           \/ \E t \in Slot : SupplyReturns(t) \/ Send(t) \/ RunReturns(t) \/ Credit(t) \/ AdminWrapReturns(t)
           \/ \E w \in Wallet : Payout(w, AdminAmount)
           \/ InvariantRoute \/ Tick \/ UNCHANGED vars
  <2>1. UNCHANGED <<supply, minted, orphans, mockReserve>> /\ (seeding' = "done" <=> seeding = "done")
    BY <1>2 DEF Checkout, Pay, Replay, Reject, Join, Lead, SupplyReturns, Send, RunReturns, Credit,
                AdminWrapReturns, Payout, InvariantRoute, Tick, vars
  <2> HIDE DEF Goal
  <2> QED BY <1>1, <2>1
<1>3. ASSUME NEW t \in Slot, CreditReserve(t) PROVE Goal
  <2>1. UNCHANGED <<supply, minted, orphans>> /\ (seeding' = "done" <=> seeding = "done")
    BY <1>3 DEF CreditReserve, StartReading
  <2> QED BY <1>0, <1>3, <2>1
<1>4. CASE SeedReturns
  <2>1. UNCHANGED <<supply, minted, orphans>>
    BY <1>4 DEF SeedReturns
  <2> QED BY <1>0, <1>4, <2>1
<1>5. ASSUME NEW t \in Slot, task[t].pc = "flying" PROVE seeding = "done"
  BY <1>5 DEF SlotInv, Tidy, MintPcs
<1>6. ASSUME NEW t \in Slot, Land(t) PROVE Goal
  <2>1. /\ MintLands(task[t].src) /\ task[t].src \in Source
        /\ UNCHANGED <<orphans, seeding, mockReserve>> /\ seeding = "done"
    BY <1>0, <1>5, <1>6, SlotType DEF Land, LeadPcs, PastPcs, MintPcs
  <2> QED BY <1>0, <2>1
<1>7. ASSUME NEW s \in Source, OrphanLands(s) \/ OrphanDropped(s) PROVE Goal
  <2>1. \A e \in Event : orphans'[e] <= orphans[e]
    <3>1. orphans' = [orphans EXCEPT ![s] = @ - 1]
      BY <1>7 DEF OrphanLands, OrphanDropped
    <3> QED BY <1>0, <3>1
  <2>2. UNCHANGED <<seeding, mockReserve>> /\ (UNCHANGED <<supply, minted>> \/ (MintLands(s) /\ orphans[s] > 0))
    BY <1>7 DEF OrphanLands, OrphanDropped
  <2> QED BY <2>1, <2>2
<1>8. ASSUME NEW T \in SUBSET Slot, Throw(T), seeding' = "done" <=> seeding = "done" PROVE Goal
  <2>1. ASSUME NEW e \in Event, seeding # "done" PROVE orphans'[e] <= orphans[e]
    <3>1. {t \in T : task[t].pc = "flying" /\ task[t].src = e} = {}
      BY <1>5, <2>1
    <3>2. Cardinality({t \in T : task[t].pc = "flying" /\ task[t].src = e}) = 0
      BY <3>1, FS_EmptySet
    <3>3. orphans'[e] = orphans[e] + Cardinality({t \in T : task[t].pc = "flying" /\ task[t].src = e})
      BY <1>0, <1>8 DEF Throw
    <3> QED BY <1>0, <3>2, <3>3
  <2>2. UNCHANGED <<supply, minted, mockReserve>>
    BY <1>8 DEF Throw
  <2> QED BY <1>8, <2>1, <2>2
<1>9. ASSUME NEW t \in Slot, InvariantViolation(t) \/ RpcFails(t) \/ ReserveRejects(t) PROVE Goal
  <2>1. Throw({t}) /\ UNCHANGED seeding
    BY <1>9 DEF InvariantViolation, RpcFails, ReserveRejects
  <2> HIDE DEF Goal
  <2> QED BY <1>8, <2>1
<1>10. CASE SeedFails
  <2> DEFINE T == {t \in Slot : AwaitsSeed(t)}
  <2>1. Throw(T) /\ T \in SUBSET Slot /\ (seeding' = "done" <=> seeding = "done")
    BY <1>10 DEF SeedFails
  <2> HIDE DEF T, Goal
  <2> QED BY <1>8, <2>1
<1> HIDE DEF Goal
<1> QED BY UntouchedBefore, <1>2, <1>3, <1>4, <1>6, <1>7, <1>9, <1>10 DEF Next, Deliver, Progress

LEMMA NoneUnseededKeeps ==
    ASSUME Types, Types', SlotInv, NoneByAdmin, NoneUnseeded, [Next]_vars, Untouched'
    PROVE  NoneUnseeded'
<1> SUFFICES ASSUME seeding' # "done", NEW e \in Event PROVE minted'[e] = 0 /\ orphans'[e] = 0
  BY DEF NoneUnseeded
<1>1. seeding # "done"
  BY MovesByStep DEF SeedReturns
<1>2. /\ minted[e] = 0 /\ orphans[e] = 0 /\ \A s \in Source : orphans[s] = 0
      /\ orphans' \in [Source -> Nat] /\ e \in Source
  BY <1>1 DEF NoneUnseeded, NoneByAdmin, Types, ChainType, Source
<1>3. UNCHANGED minted
  BY <1>1, <1>2, MovesByStep
<1>4. orphans'[e] <= 0 /\ orphans'[e] \in Nat
  BY <1>1, <1>2, MovesByStep
<1> QED BY <1>2, <1>3, <1>4

LEMMA SupplyKeeps ==
    ASSUME Types, Types', SlotInv, NoneByAdmin, NoneByAdmin', supply = InitialSupply + MintedSum,
           [Next]_vars, Untouched'
    PROVE  supply' = InitialSupply + MintedSum'
<1>1. CASE UNCHANGED <<supply, minted>>
  BY <1>1, MintedStays
<1>2. ASSUME NEW s \in Source, MintLands(s) PROVE supply' = InitialSupply + MintedSum'
  <2>1. supply' = supply + AmountOf(s) /\ minted' = [minted EXCEPT ![s] = @ + 1] /\ minted \in [Source -> Nat]
    BY <1>2 DEF MintLands, Types, ChainType
  <2>2. s \in Event /\ AmountOf(s) = Amount[s]
    <3>1. s # Admin
      <4>1. minted[Admin] = 0 /\ minted'[Admin] = 0
        BY DEF NoneByAdmin
      <4> QED BY <2>1, <4>1
    <3> QED BY <3>1 DEF AmountOf, Source
  <2>3. MintedSum' = MintedSum + Amount[s]
    <3>1. minted'[s] = minted[s] + 1 /\ \A e \in Event \ {s} : minted'[e] = minted[e]
      BY <2>1 DEF Source
    <3> QED BY <2>2, <3>1, MintedMoves
  <2>4. MintedSum \in Int /\ Amount[s] \in Int /\ InitialSupply \in Int
    <3>1. \A e \in Event : MintedWorth[e] \in Int
      BY AttemptsType DEF MintedWorth
    <3>2. MintedSum \in Int
      <4> PICK f : f = MintedWorth
        OBVIOUS
      <4>1. \A e \in Event : f[e] \in Int
        BY <3>1
      <4> QED BY <4>1, EventAssumption, SumType DEF MintedSum
    <3> QED BY <2>2, <3>2, EventAssumption
  <2> QED BY <2>1, <2>2, <2>3, <2>4
<1> QED BY <1>1, <1>2, MovesByStep

LEMMA SumsType == ASSUME Types PROVE MintedSum \in Nat /\ CreditedSum \in Nat
<1>1. PICK f : f = MintedWorth
  OBVIOUS
<1>2. PICK g : g = CreditedWorth
  OBVIOUS
<1>3. \A e \in Event : f[e] \in Nat /\ g[e] \in Nat
  BY <1>1, <1>2, AttemptsType DEF MintedWorth, CreditedWorth
<1> QED BY <1>1, <1>2, <1>3, EventAssumption, SumNat DEF MintedSum, CreditedSum

LEMMA ReserveIsKeeps ==
    ASSUME Types, Types', SlotInv, NoneByAdmin, NoneUnseeded, supply = InitialSupply + MintedSum, ReserveIs,
           [Next]_vars, Untouched'
    PROVE  ReserveIs'
<1>0. /\ MintedSum \in Nat /\ CreditedSum \in Nat /\ InitialSupply \in Nat /\ mockReserve \in Nat
      /\ mockReserve = (IF seeding = "done" THEN InitialSupply ELSE 0) + CreditedSum
  BY SumsType, EventAssumption DEF ReserveIs, Types, MemoryType
<1>1. ASSUME NEW t \in Slot, CreditReserve(t) PROVE ReserveIs'
  <2>1. PICK s : s = task[t].src
    OBVIOUS
  <2>2. s \in Event /\ AmountOf(s) = Amount[s] /\ Amount[s] \in Nat
    BY <1>1, <2>1, EventAssumption DEF CreditReserve, SlotInv, Tidy, AmountOf
  <2>3. mockReserve' = mockReserve + Amount[s] /\ (seeding' = "done" <=> seeding = "done")
    BY <1>1, <2>1, <2>2 DEF CreditReserve, StartReading
  <2>4. Attempts(s)' = Attempts(s) + 1
    <3>1. ~Has(s, PastPcs) /\ Has(s, PastPcs)' /\ UNCHANGED <<failed, credits>>
      BY <1>1, <2>1, <2>2, MovedByStep DEF CreditReserve
    <3>2. One(Has(s, PastPcs))' = 1 /\ One(Has(s, PastPcs)) = 0 /\ One(Credited(s))' = One(Credited(s))
      BY <3>1 DEF One, Credited
    <3>3. One(Credited(s)) \in {0, 1} /\ Counters(s)
      BY <2>2, OneType, CountersType
    <3>4. failed'[s] = failed[s]
      BY <3>1
    <3> QED BY <3>2, <3>3, <3>4 DEF Attempts, Counters
  <2>5. ASSUME NEW e \in Event \ {s} PROVE Attempts(e)' = Attempts(e)
    <3>1. Kept(e) /\ UNCHANGED <<failed, credits>>
      BY <1>1, <2>1, MovedByStep DEF CreditReserve
    <3>2. failed'[e] = failed[e] /\ (Credited(e)' <=> Credited(e))
      BY <3>1 DEF Credited
    <3> QED BY <3>1, <3>2, AttemptKept
  <2>6. CreditedSum' = CreditedSum + Amount[s]
    BY <2>2, <2>4, <2>5, CreditedMoves
  <2> QED BY <1>0, <2>2, <2>3, <2>6 DEF ReserveIs
<1>2. ASSUME \A t \in Slot : ~CreditReserve(t) PROVE CreditedSum' = CreditedSum
  BY <1>2, AttemptsByStep, CreditedStays
<1>3. CASE SeedReturns
  <2>1. CreditedSum' = CreditedSum
    <3>1. \A e \in Event : Kept(e) /\ UNCHANGED <<failed, credits>>
      BY <1>3, KeptByStep DEF SeedReturns
    <3>2. \A e \in Event : failed'[e] = failed[e] /\ (Credited(e)' <=> Credited(e))
      BY <3>1 DEF Credited
    <3> QED BY <3>1, <3>2, AttemptKept, CreditedStays
  <2>2. MintedSum = 0
    <3>1. \A e \in Event : minted[e] = 0
      BY <1>3 DEF SeedReturns, NoneUnseeded
    <3>2. PICK f : f = MintedWorth
      OBVIOUS
    <3>3. \A e \in Event : f[e] = 0
      BY <3>1, <3>2, EventAssumption DEF MintedWorth
    <3> QED BY <3>2, <3>3, EventAssumption, SumZero DEF MintedSum
  <2>3. seeding # "done" /\ seeding' = "done" /\ mockReserve' = mockReserve + supply
    BY <1>3 DEF SeedReturns, SeededReserve
  <2> QED BY <1>0, <2>1, <2>2, <2>3 DEF ReserveIs
<1>4. CASE ~SeedReturns /\ \A t \in Slot : ~CreditReserve(t)
  <2>1. UNCHANGED mockReserve /\ (seeding' = "done" <=> seeding = "done")
    BY <1>4, MovesByStep
  <2>2. CreditedSum' = CreditedSum
    BY <1>2, <1>4
  <2> QED BY <1>0, <2>1, <2>2 DEF ReserveIs
<1> QED BY <1>1, <1>3, <1>4

LEMMA ReserveStart == Init => ReserveInv
<1> SUFFICES ASSUME Init PROVE ReserveInv
  OBVIOUS
<1>1. Types
  BY TypesStart
<1>2. \A e \in Event : minted[e] = 0 /\ orphans[e] = 0 /\ failed[e] = 0 /\ credits[e] = None
  BY DEF Init, Source
<1>3. NoneByAdmin /\ NoneUnseeded
  BY <1>2, EventAssumption DEF Init, NoneByAdmin, NoneUnseeded, Source, IdleTask
<1>4. MintedSum = 0
  <2>1. PICK f : f = MintedWorth
    OBVIOUS
  <2>2. \A e \in Event : f[e] = 0
    BY <1>2, <2>1, EventAssumption DEF MintedWorth
  <2> QED BY <2>1, <2>2, EventAssumption, SumZero DEF MintedSum
<1>5. CreditedSum = 0
  <2>1. PICK f : f = CreditedWorth
    OBVIOUS
  <2>2. ASSUME NEW e \in Event PROVE Attempts(e) = 0
    <3>1. ~Has(e, PastPcs) /\ ~Credited(e)
      BY <1>2 DEF Init, Has, IdleTask, PastPcs, MintPcs, Credited
    <3>2. One(Has(e, PastPcs)) = 0 /\ One(Credited(e)) = 0
      BY <3>1 DEF One
    <3> QED BY <1>2, <3>2 DEF Attempts
  <2>3. \A e \in Event : f[e] = 0
    BY <2>1, <2>2, EventAssumption DEF CreditedWorth
  <2> QED BY <2>1, <2>3, EventAssumption, SumZero DEF CreditedSum
<1>6. supply = InitialSupply + MintedSum /\ ReserveIs
  BY <1>4, <1>5, EventAssumption DEF Init, ReserveIs
<1> QED BY <1>3, <1>6 DEF ReserveInv

LEMMA ReserveKeeps ==
    ASSUME Types, Types', SlotInv, ReserveInv, [Next]_vars
    PROVE  ReserveInv'
<1> SUFFICES ASSUME Untouched'
             PROVE  NoneByAdmin' /\ NoneUnseeded' /\ supply' = InitialSupply + MintedSum' /\ ReserveIs'
  BY DEF ReserveInv
<1>1. NoneByAdmin /\ NoneUnseeded /\ supply = InitialSupply + MintedSum /\ ReserveIs
  BY UntouchedBefore DEF ReserveInv
<1>2. NoneByAdmin'
  BY <1>1, NoneByAdminKeeps
<1>3. NoneUnseeded'
  BY <1>1, NoneUnseededKeeps
<1>4. supply' = InitialSupply + MintedSum'
  BY <1>1, <1>2, SupplyKeeps
<1>5. ReserveIs'
  BY <1>1, ReserveIsKeeps
<1> QED BY <1>2, <1>3, <1>4, <1>5

-----------------------------------------------------------------------------
(* The theorems. *)
OnrampInv == Types /\ SlotInv /\ MintInv /\ ReserveInv

(* The inductive invariant: one leader for an event in flight and none for  *)
(* any other, a mint for each attempt at the most, and a reserve that is    *)
(* what the attempts credited.                                              *)
THEOREM OnrampInvariant == Spec => []OnrampInv
<1>1. Init => OnrampInv
  BY TypesStart, ReserveStart DEF OnrampInv
<1>2. OnrampInv /\ [Next]_vars => OnrampInv'
  <2> SUFFICES ASSUME OnrampInv, [Next]_vars PROVE OnrampInv'
    OBVIOUS
  <2>1. Types /\ SlotInv /\ MintInv /\ ReserveInv
    BY DEF OnrampInv
  <2>2. Types'
    BY <2>1, TypesKeep
  <2> QED BY <2>1, <2>2, SlotKeeps, MintKeeps, ReserveKeeps DEF OnrampInv
<1> QED BY <1>1, <1>2, PTL DEF Spec

LEMMA LedOnce == ASSUME Types, SlotInv PROVE TypeOK
<1>1. MemoryType
  BY DEF Types
<1>2. \A e \in Event : Cardinality(LeadersOf(e)) = (IF e \in inFlight THEN 1 ELSE 0)
  <2> SUFFICES ASSUME NEW e \in Event
               PROVE  Cardinality(LeadersOf(e)) = (IF e \in inFlight THEN 1 ELSE 0)
    OBVIOUS
  <2>1. Cardinality(LeadersOf(e)) = One(e \in inFlight)
    BY <1>1, CountsAreOne
  <2> QED BY <2>1 DEF One
<1>3. \A t \in Slot : task[t].pc = "waiting" => task[t].src \in inFlight
  BY DEF SlotInv, Tidy
<1> QED BY <1>2, <1>3 DEF TypeOK, Types, ChainType, MemoryType, ProviderType, TaskRec

(* An event whose mint is on its way is not credited yet.                   *)
LEMMA NotBoth ==
    ASSUME SlotInv, NEW e \in Event PROVE One(Credited(e)) + One(Has(e, MintPcs)) <= 1
<1>1. Has(e, MintPcs) => Has(e, LeadPcs)
  BY PcSets DEF Has
<1>2. ~Has(e, MintPcs) \/ ~Credited(e)
  BY <1>1 DEF SlotInv, InFlightLed, NotYetCredited, Credited
<1> QED BY <1>2 DEF One

(* Duplicated and concurrent deliveries never mint by themselves, whatever  *)
(* the deliveries, the failures and the restarts: an event has one leader   *)
(* in handleWebhook's inFlight map, and is minted at most once more than    *)
(* its attempts failed and the process died (onramp.ts:299).                *)
THEOREM DeliveriesAlwaysSound == Spec => []DeliveriesSound
<1>1. ASSUME OnrampInv PROVE DeliveriesSound
  <2>0. Types /\ SlotInv /\ MintInv /\ MemoryType
    BY <1>1 DEF OnrampInv, Types
  <2>1. TypeOK
    BY <2>0, LedOnce
  <2>2. ASSUME NEW e \in Event PROVE minted[e] + OnTheWay(e) <= failed[e] + crashes + 1
    <3>1. OnTheWay(e) = orphans[e] + One(Has(e, {"flying"}))
      BY <2>0, CountsAreOne DEF OnTheWay
    <3>2. /\ One(Has(e, {"flying"})) \in {0, 1} /\ One(Credited(e)) \in {0, 1}
          /\ One(Has(e, MintPcs)) \in {0, 1}
      BY OneType
    <3>3. Counters(e) /\ One(Credited(e)) + One(Has(e, MintPcs)) <= 1 /\ MintOk(e)
      BY <2>0, CountersType, NotBoth DEF MintInv
    <3> QED BY <3>1, <3>2, <3>3 DEF MintOk, Counters
  <2> QED BY <2>1, <2>2 DEF DeliveriesSound, OneMintPerAttempt
<1> QED BY <1>1, OnrampInvariant, PTL

-----------------------------------------------------------------------------
(* The sums of Onramp, as sums of functions. *)

LEMMA OnTheWayIsSum ==
    ASSUME IsFiniteSet(Source)
    PROVE  SumOver(Source, LAMBDA s : OnTheWay(s) * AmountOf(s))
               = Sum([s \in Source |-> OnTheWay(s) * AmountOf(s)], Source)
<1> DEFINE f == [s \in Source |-> OnTheWay(s) * AmountOf(s)]
           Adds(g) == g = [s \in SUBSET Source |->
               IF s = {} THEN 0
               ELSE OnTheWay(CHOOSE x \in s : TRUE) * AmountOf(CHOOSE x \in s : TRUE)
                    + g[s \ {CHOOSE x \in s : TRUE}]]
           fold == CHOOSE g : Adds(g)
<1>1. SumOver(Source, LAMBDA s : OnTheWay(s) * AmountOf(s)) = fold[Source]
  BY DEF SumOver, MapThenSumSet, MapThenFoldSet
<1>2. ASSUME NEW g PROVE IsTable(g, f, SUBSET Source) <=> Adds(g)
  <2>1. ASSUME NEW s \in SUBSET Source, s # {}
        PROVE  f[Pick(s)] = OnTheWay(Pick(s)) * AmountOf(Pick(s))
    BY <2>1, PickIn
  <2> QED BY <2>1 DEF IsTable, Step, Pick
<1>3. IsTable(fold, f, SUBSET Source)
  <2>1. \E g : Adds(g)
    <3> HIDE DEF Adds, f
    <3> QED BY <1>2, TableExists
  <2>2. Adds(fold)
    <3> HIDE DEF Adds
    <3> QED BY <2>1
  <2> HIDE DEF Adds, f
  <2> QED BY <1>2, <2>2
<1> HIDE DEF f, fold
<1> QED BY <1>1, <1>3, TableIsSum DEF f

LEMMA AttemptsIsSum ==
    SumOver(Event, LAMBDA e : AttemptsCredited(e) * Amount[e])
        = Sum([e \in Event |-> AttemptsCredited(e) * Amount[e]], Event)
<1> DEFINE f == [e \in Event |-> AttemptsCredited(e) * Amount[e]]
           Adds(g) == g = [s \in SUBSET Event |->
               IF s = {} THEN 0
               ELSE AttemptsCredited(CHOOSE x \in s : TRUE) * Amount[CHOOSE x \in s : TRUE]
                    + g[s \ {CHOOSE x \in s : TRUE}]]
           fold == CHOOSE g : Adds(g)
<1>1. SumOver(Event, LAMBDA e : AttemptsCredited(e) * Amount[e]) = fold[Event]
  BY DEF SumOver, MapThenSumSet, MapThenFoldSet
<1>2. ASSUME NEW g PROVE IsTable(g, f, SUBSET Event) <=> Adds(g)
  <2>1. ASSUME NEW s \in SUBSET Event, s # {}
        PROVE  f[Pick(s)] = AttemptsCredited(Pick(s)) * Amount[Pick(s)]
    BY <2>1, PickIn
  <2> QED BY <2>1 DEF IsTable, Step, Pick
<1>3. IsTable(fold, f, SUBSET Event)
  <2>1. \E g : Adds(g)
    <3> HIDE DEF Adds, f
    <3> QED BY <1>2, TableExists, EventAssumption
  <2>2. Adds(fold)
    <3> HIDE DEF Adds
    <3> QED BY <2>1
  <2> HIDE DEF Adds, f
  <2> QED BY <1>2, <2>2
<1> HIDE DEF f, fold
<1> QED BY <1>1, <1>3, TableIsSum, EventAssumption DEF f

LEMMA ProductFacts ==
    \A m, n, k \in Nat : /\ (m + n) * k = m * k + n * k
                         /\ m <= n => m * k <= n * k
                         /\ m * k \in Nat
<1>1. \A m, n, k \in Nat : (m + n) * k = m * k + n * k /\ m * k \in Nat
  OBVIOUS
<1>2. ASSUME NEW m \in Nat, NEW n \in Nat, NEW k \in Nat, m <= n PROVE m * k <= n * k
  <2>1. PICK d \in Nat : n = m + d
    <3>1. n - m \in Nat /\ n = m + (n - m)
      BY <1>2
    <3> QED BY <3>1
  <2>2. n * k = m * k + d * k /\ m * k \in Nat /\ d * k \in Nat
    BY <1>1, <2>1
  <2> QED BY <2>2
<1> QED BY <1>1, <1>2

(* What has landed and what still may, event by event, is no more than what *)
(* its attempts credited.                                                   *)
LEMMA CoverOne ==
    ASSUME Types, SlotInv, MintInv, Untouched, NEW e \in Event
    PROVE  OnTheWay(e) \in Nat /\ minted[e] + OnTheWay(e) <= Attempts(e)
<1>1. MemoryType /\ Counters(e) /\ MintOk(e) /\ crashes = 0
  BY CountersType DEF Types, MintInv, Untouched
<1>2. OnTheWay(e) = orphans[e] + One(Has(e, {"flying"}))
  BY <1>1, CountsAreOne DEF OnTheWay
<1>3. /\ One(Has(e, {"flying"})) \in {0, 1} /\ One(Credited(e)) \in {0, 1}
      /\ One(Has(e, MintPcs)) \in {0, 1} /\ One(Has(e, PastPcs)) \in {0, 1}
  BY OneType
<1>4. One(Has(e, MintPcs)) <= One(Has(e, PastPcs))
  <2>1. Has(e, MintPcs) => Has(e, PastPcs)
    BY PcSets DEF Has
  <2> QED BY <2>1 DEF One
<1> QED BY <1>1, <1>2, <1>3, <1>4 DEF MintOk, Attempts, Counters

LEMMA Covers == ASSUME Types, SlotInv, MintInv, ReserveInv PROVE ReserveCoversMints
<1> SUFFICES ASSUME Untouched, seeding = "done"
             PROVE  supply + SumOver(Source, LAMBDA s : OnTheWay(s) * AmountOf(s)) <= mockReserve
  BY DEF ReserveCoversMints
<1>1. NoneByAdmin /\ supply = InitialSupply + MintedSum /\ mockReserve = InitialSupply + CreditedSum
  BY DEF ReserveInv, ReserveIs
<1>2. /\ IsFiniteSet(Event) /\ Source = Event \cup {Admin} /\ Admin \notin Event
      /\ InitialSupply \in Nat /\ \A e \in Event : Amount[e] \in Nat
  BY EventAssumption DEF Source
<1>3. IsFiniteSet(Source) /\ Source \ {Admin} = Event
  <2>1. IsFiniteSet(Event \cup {Admin})
    BY <1>2, FS_AddElement
  <2> QED BY <1>2, <2>1
<1>4. PICK h : h = [s \in Source |-> OnTheWay(s) * AmountOf(s)]
  OBVIOUS
<1>5. PICK f : f = MintedWorth
  OBVIOUS
<1>6. PICK g : g = CreditedWorth
  OBVIOUS
<1>7. h[Admin] = 0
  <2>1. {t \in Slot : task[t].pc = "flying" /\ task[t].src = Admin} = {}
    BY <1>1 DEF NoneByAdmin
  <2>2. Flying(Admin) = 0
    BY <2>1, FS_EmptySet DEF Flying
  <2>3. OnTheWay(Admin) = 0
    BY <1>1, <2>2 DEF NoneByAdmin, OnTheWay
  <2>4. AmountOf(Admin) \in Nat
    BY <1>2, AmountType
  <2> QED BY <1>2, <1>4, <2>3, <2>4
<1>8. ASSUME NEW e \in Event
      PROVE  /\ f[e] \in Nat /\ g[e] \in Nat /\ h[e] \in Nat
             /\ f[e] + h[e] <= g[e]
  <2>1. /\ OnTheWay(e) \in Nat /\ minted[e] + OnTheWay(e) <= Attempts(e)
        /\ minted[e] \in Nat /\ Attempts(e) \in Nat /\ Amount[e] \in Nat
    BY CoverOne, AttemptsType
  <2>2. f[e] = minted[e] * Amount[e] /\ g[e] = Attempts(e) * Amount[e] /\ h[e] = OnTheWay(e) * Amount[e]
    BY <1>2, <1>4, <1>5, <1>6 DEF MintedWorth, CreditedWorth, AmountOf
  <2>3. /\ f[e] \in Nat /\ g[e] \in Nat /\ h[e] \in Nat
        /\ (minted[e] + OnTheWay(e)) * Amount[e] = f[e] + h[e]
    BY <2>1, <2>2, ProductFacts
  <2>4. minted[e] + OnTheWay(e) \in Nat
    BY <2>1
  <2>5. (minted[e] + OnTheWay(e)) * Amount[e] <= g[e]
    BY <2>1, <2>2, <2>4, ProductFacts
  <2> QED BY <2>3, <2>5
<1>9. SumOver(Source, LAMBDA s : OnTheWay(s) * AmountOf(s)) = Sum(h, Event)
  <2>1. SumOver(Source, LAMBDA s : OnTheWay(s) * AmountOf(s)) = Sum(h, Source)
    BY <1>3, <1>4, OnTheWayIsSum
  <2>2. Sum(h, Source) = h[Admin] + Sum(h, Source \ {Admin})
    <3>1. \A s \in Source : h[s] \in Int
      BY <1>2, <1>7, <1>8
    <3>2. Admin \in Source
      BY <1>2
    <3> QED BY <1>3, <3>1, <3>2, SumRemove
  <2>3. Sum(h, Event) \in Nat
    BY <1>2, <1>8, SumNat
  <2>4. Sum(h, Source) = Sum(h, Event)
    BY <1>3, <1>7, <2>2, <2>3
  <2> QED BY <2>1, <2>4
<1> DEFINE k == [e \in Event |-> f[e] + h[e]]
<1>10. Sum(k, Event) = Sum(f, Event) + Sum(h, Event)
  <2>1. \A e \in Event : f[e] \in Int /\ h[e] \in Int /\ k[e] = f[e] + h[e]
    BY <1>8
  <2> HIDE DEF k
  <2> QED BY <1>2, <2>1, SumPlus
<1>11. Sum(k, Event) <= Sum(g, Event)
  <2>1. \A e \in Event : k[e] \in Int /\ g[e] \in Nat /\ k[e] <= g[e]
    BY <1>8
  <2> DEFINE m == [e \in Event |-> e]
  <2>2. /\ \A e \in Event : m[e] \in Event /\ k[e] <= g[m[e]]
        /\ \A d, e \in Event : m[d] = m[e] => d = e
    BY <2>1
  <2> HIDE DEF k, m
  <2> QED BY <1>2, <2>1, <2>2, SumAtMost
<1>12. MintedSum = Sum(f, Event) /\ CreditedSum = Sum(g, Event)
  BY <1>5, <1>6 DEF MintedSum, CreditedSum
<1>13. Sum(f, Event) \in Nat /\ Sum(g, Event) \in Nat /\ Sum(h, Event) \in Nat
  BY <1>2, <1>8, SumNat
<1>14. supply + Sum(h, Event) <= mockReserve
  BY <1>1, <1>2, <1>10, <1>11, <1>12, <1>13
<1> QED BY <1>9, <1>14

LEMMA Accounted == ASSUME Types, SlotInv, ReserveInv PROVE ReserveAccounted
<1> SUFFICES ASSUME Untouched
             PROVE  mockReserve = (IF seeding = "done" THEN InitialSupply ELSE 0)
                        + SumOver(Event, LAMBDA e : AttemptsCredited(e) * Amount[e])
  BY DEF ReserveAccounted
<1>1. mockReserve = (IF seeding = "done" THEN InitialSupply ELSE 0) + CreditedSum
  BY DEF ReserveInv, ReserveIs
<1>2. PICK f : f = [e \in Event |-> AttemptsCredited(e) * Amount[e]]
  OBVIOUS
<1>3. PICK g : g = CreditedWorth
  OBVIOUS
<1>4. ASSUME NEW e \in Event PROVE f[e] = g[e]
  <2>1. MemoryType
    BY DEF Types
  <2>2. Cardinality({t \in LeadersOf(e) : task[t].pc # "treasury"}) = One(Has(e, PastPcs))
    BY <2>1, CountsAreOne
  <2>3. (IF credits[e] # None /\ credits[e].status = "credited" THEN 1 ELSE 0) = One(Credited(e))
    BY DEF One, Credited
  <2>4. AttemptsCredited(e) = Attempts(e)
    BY <2>2, <2>3 DEF AttemptsCredited, Attempts
  <2> QED BY <1>2, <1>3, <2>4 DEF CreditedWorth
<1>5. SumOver(Event, LAMBDA e : AttemptsCredited(e) * Amount[e]) = Sum(f, Event)
  BY <1>2, AttemptsIsSum
<1>6. Sum(f, Event) = CreditedSum
  BY <1>3, <1>4, EventAssumption, SumSame DEF CreditedSum
<1> QED BY <1>1, <1>5, <1>6

(* As long as only provider traffic and its retries touch the treasury, the *)
(* mock reserve is exactly the supply it was seeded with and one credit for *)
(* each attempt, whenever the seeding read returns, and it covers every     *)
(* mint that landed or still may (treasury.ts: creditReserve, reserve,      *)
(* wrap): the peg.                                                          *)
THEOREM ReserveAlwaysSound == Spec => []ReserveSound
<1>1. ASSUME OnrampInv PROVE ReserveSound
  <2>1. Types /\ SlotInv /\ MintInv /\ ReserveInv
    BY <1>1 DEF OnrampInv
  <2> QED BY <2>1, Covers, Accounted DEF ReserveSound
<1> QED BY <1>1, OnrampInvariant, PTL

-----------------------------------------------------------------------------
(* What requests in flight can pass.                                        *)

LEMMA SummandAtMost ==
    ASSUME NEW f, NEW S, IsFiniteSet(S), \A x \in S : f[x] \in Nat, NEW x \in S
    PROVE  f[x] <= Sum(f, S)
<1>1. \A y \in S : f[y] \in Int
  OBVIOUS
<1>2. Sum(f, S) = f[x] + Sum(f, S \ {x})
  BY <1>1, SumRemove
<1>3. IsFiniteSet(S \ {x}) /\ \A y \in S \ {x} : f[y] \in Nat
  BY FS_RemoveElement
<1>4. Sum(f, S \ {x}) \in Nat /\ f[x] \in Nat
  BY <1>3, SumNat
<1> QED BY <1>2, <1>4

(* A finite set of numbers has a largest one: the least of its upper bounds. *)
LEMMA LargestIn ==
    ASSUME NEW S, S \subseteq Nat, IsFiniteSet(S), S # {}
    PROVE  Max(S) \in S /\ \A n \in S : n <= Max(S)
<1> DEFINE Above == {b \in Nat : \A n \in S : n <= b}
           id == [n \in S |-> n]
<1>1. Sum(id, S) \in Above
  <2>1. \A n \in S : id[n] = n /\ id[n] \in Nat /\ id[n] \in Int
    OBVIOUS
  <2> HIDE DEF id
  <2>2. Sum(id, S) \in Nat
    BY <2>1, SumNat
  <2>3. \A n \in S : n <= Sum(id, S)
    BY <2>1, SummandAtMost
  <2> QED BY <2>2, <2>3
<1>2. PICK b \in Above : \A c \in Above : b <= c
  <2> HIDE DEF id
  <2> QED BY <1>1, LowestExists
<1>3. b \in S
  <2> SUFFICES ASSUME b \notin S PROVE FALSE
    OBVIOUS
  <2>1. \A n \in S : n <= b - 1 /\ n \in Nat
    BY <1>2
  <2>2. b - 1 \in Above
    <3>1. PICK n : n \in S
      OBVIOUS
    <3>2. n \in Nat /\ n <= b - 1 /\ b \in Nat
      BY <1>2, <2>1, <3>1
    <3>3. b - 1 \in Nat
      BY <3>2
    <3> QED BY <2>1, <3>3
  <2> QED BY <1>2, <2>2
<1>4. \A n \in S : b >= n
  BY <1>2
<1> QED BY <1>3, <1>4 DEF Max

LEMMA LargestType ==
    /\ LargestAmount \in Nat
    /\ \A s \in Source : AmountOf(s) \in Nat /\ AmountOf(s) <= LargestAmount
    /\ \A e \in Event : Amount[e] \in Nat /\ Amount[e] <= LargestAmount
<1> DEFINE S == {Amount[e] : e \in Event} \cup {AdminAmount}
<1>1. S \subseteq Nat /\ AdminAmount \in S
  BY EventAssumption
<1>2. IsFiniteSet(S)
  <2>1. IsFiniteSet({Amount[e] : e \in Event})
    BY EventAssumption, FiniteImage
  <2> QED BY <2>1, FS_AddElement
<1>3. LargestAmount = Max(S)
  BY DEF LargestAmount
<1>4. Max(S) \in S /\ \A n \in S : n <= Max(S)
  <2> HIDE DEF S
  <2> QED BY <1>1, <1>2, LargestIn
<1>5. \A e \in Event : Amount[e] \in S
  OBVIOUS
<1> HIDE DEF S
<1> QED BY <1>1, <1>3, <1>4, <1>5 DEF AmountOf, Source

(* Load counts a slot more for every slot of the set, and Ahead is what all *)
(* but one of them can carry.                                               *)
LEMMA LoadType == ASSUME NEW S \in SUBSET Slot PROVE Load(S) \in Nat
  BY CountType, LargestType, ProductFacts DEF Load

LEMMA LoadMonotone ==
    ASSUME NEW S \in SUBSET Slot, NEW T \in SUBSET S
    PROVE  Load(T) <= Load(S)
<1>1. IsFiniteSet(S) /\ Cardinality(S) \in Nat /\ Cardinality(T) \in Nat
  BY CountType
<1>2. Cardinality(T) <= Cardinality(S)
  BY <1>1, FS_Subset
<1> QED BY <1>1, <1>2, LargestType, ProductFacts DEF Load

LEMMA LoadOneLess ==
    ASSUME NEW S \in SUBSET Slot, NEW t \in S
    PROVE  Load(S) = Load(S \ {t}) + LargestAmount
<1>1. IsFiniteSet(S) /\ Cardinality(S) \in Nat /\ Cardinality(S \ {t}) \in Nat
  BY CountType
<1>2. Cardinality(S) = Cardinality(S \ {t}) + 1
  <2>1. Cardinality(S \ {t}) = Cardinality(S) - 1
    BY <1>1, FS_RemoveElement
  <2> QED BY <1>1, <2>1
<1>3. (Cardinality(S \ {t}) + 1) * LargestAmount
          = Cardinality(S \ {t}) * LargestAmount + 1 * LargestAmount
  BY <1>1, LargestType, ProductFacts
<1> QED BY <1>2, <1>3, LargestType DEF Load

LEMMA LoadAhead ==
    /\ Ahead \in Nat
    /\ \A t \in Slot : \A S \in SUBSET (Slot \ {t}) : Load(S) <= Ahead
<1>1. \A t \in Slot : Load(Slot \ {t}) = Ahead
  BY EventAssumption, FS_RemoveElement DEF Load, Ahead
<1>2. Ahead \in Nat
  <2>1. PICK t : t \in Slot
    BY EventAssumption
  <2> QED BY <1>1, <2>1, LoadType
<1>3. ASSUME NEW t \in Slot, NEW S \in SUBSET (Slot \ {t}) PROVE Load(S) <= Ahead
  BY <1>1, LoadMonotone
<1> QED BY <1>2, <1>3

(* What a step that neither reads nor mints does to a slot: it is not on    *)
(* its way to a mint any more, it starts its reads, or it keeps what it has *)
(* read of the supply.                                                      *)
Bound(t) == task[t].pc \in {"reading", "flying"}
QuietSlot(t) ==
    Bound(t)' =>
        /\ task'[t].reserveSeen # None =>
              \/ Bound(t) /\ task'[t].reserveSeen = task[t].reserveSeen
              \/ task'[t].reserveSeen <= mockReserve'
        /\ \/ task'[t].pc = "reading" /\ task'[t].supplySeen = None
           \/ /\ Bound(t) /\ task'[t].src = task[t].src
              /\ task'[t].supplySeen = task[t].supplySeen
              /\ task'[t].pc = "flying" =>
                    \/ task[t].pc = "flying"
                    \/ /\ task[t].supplySeen # None /\ task[t].reserveSeen # None
                       /\ task[t].supplySeen + AmountOf(task[t].src) <= task[t].reserveSeen
Quiet ==
    /\ supply' = supply /\ mockReserve <= mockReserve' /\ NoneOrphaned'
    /\ seeding' = "done" => seeding = "done" \/ supply <= mockReserve'
    /\ \A t \in Slot : QuietSlot(t)

(* Pending slots have a source and have seen a number. *)
LEMMA SlotReads ==
    ASSUME Types, SlotInv, NEW t \in Slot
    PROVE  /\ task[t] \in TaskRec
           /\ Bound(t) => /\ AmountOf(task[t].src) \in Nat
                          /\ AmountOf(task[t].src) <= LargestAmount
           /\ task[t].supplySeen # None => task[t].supplySeen \in Nat
           /\ task[t].reserveSeen # None => task[t].reserveSeen \in Nat
           /\ Late(task[t].supplySeen) \in SUBSET Slot
<1>1. task[t] \in TaskRec
  BY DEF Types, MemoryType
<1>2. Bound(t) => task[t].src \in Source
  BY DEF Bound, SlotInv, Tidy, PastPcs, MintPcs
<1> QED BY <1>1, <1>2, LargestType DEF TaskRec, Late

LEMMA PegQuiet ==
    ASSUME Types, Types', SlotInv, SlotInv', Pegged, Quiet
    PROVE  Pegged'
<1>0. /\ supply \in Nat /\ mockReserve \in Nat /\ mockReserve' \in Nat /\ supply' = supply
      /\ mockReserve <= mockReserve' /\ Ahead \in Nat
  BY LoadAhead DEF Types, ChainType, MemoryType, Quiet
<1>1. PegBounded'
  <2> SUFFICES ASSUME seeding' = "done" PROVE supply' <= mockReserve' + Ahead
    BY DEF PegBounded, Ahead, LargestAmount
  <2>1. supply <= mockReserve + Ahead \/ supply <= mockReserve'
    BY DEF Pegged, PegBounded, Quiet
  <2>2. \A s, n, m, a \in Nat : n <= m /\ (s <= n + a \/ s <= m) => s <= m + a
    OBVIOUS
  <2> QED BY <1>0, <2>1, <2>2
<1>2. ASSUME NEW t \in Slot PROVE Reads(t)'
  <2> SUFFICES ASSUME Bound(t)'
               PROVE  /\ task'[t].supplySeen # None => task'[t].supplySeen <= supply
                      /\ task'[t].reserveSeen # None => task'[t].reserveSeen <= mockReserve'
                      /\ task'[t].pc = "flying" =>
                            /\ task'[t].supplySeen # None
                            /\ task'[t].supplySeen + AmountOf(task'[t].src) <= mockReserve'
    BY <1>0 DEF Reads, Bound
  <2>1. QuietSlot(t) /\ Reads(t)
    BY DEF Quiet, Pegged
  <2>2. task'[t].supplySeen # None => task'[t].supplySeen <= supply
    BY <2>1 DEF QuietSlot, Reads, Bound
  <2>3. task'[t].reserveSeen # None => task'[t].reserveSeen <= mockReserve'
    <3>1. ASSUME Bound(t), task[t].reserveSeen # None PROVE task[t].reserveSeen <= mockReserve'
      <4>1. task[t].reserveSeen \in Nat /\ task[t].reserveSeen <= mockReserve
        BY <2>1, <3>1, SlotReads DEF Reads, Bound
      <4> QED BY <1>0, <4>1
    <3> QED BY <2>1, <3>1 DEF QuietSlot
  <2>4. ASSUME task'[t].pc = "flying"
        PROVE  /\ task'[t].supplySeen # None
               /\ task'[t].supplySeen + AmountOf(task'[t].src) <= mockReserve'
    <3>1. /\ Bound(t) /\ task'[t].src = task[t].src /\ task'[t].supplySeen = task[t].supplySeen
          /\ \/ task[t].pc = "flying"
             \/ /\ task[t].supplySeen # None /\ task[t].reserveSeen # None
                /\ task[t].supplySeen + AmountOf(task[t].src) <= task[t].reserveSeen
      BY <2>1, <2>4 DEF QuietSlot
    <3>2. /\ AmountOf(task[t].src) \in Nat
          /\ task[t].supplySeen # None => task[t].supplySeen \in Nat
          /\ task[t].reserveSeen # None => task[t].reserveSeen \in Nat
      BY <3>1, SlotReads
    <3> PICK n, m, a : n = task[t].supplySeen /\ m = task[t].reserveSeen /\ a = AmountOf(task[t].src)
      OBVIOUS
    <3>3. n # None /\ n + a <= mockReserve'
      <4>1. CASE task[t].pc = "flying"
        <5>1. n # None /\ n + a <= mockReserve
          BY <2>1, <4>1 DEF Reads
        <5> QED BY <1>0, <3>2, <5>1
      <4>2. CASE task[t].pc # "flying"
        <5>1. n # None /\ m # None /\ n + a <= m /\ m <= mockReserve
          BY <2>1, <3>1, <4>2 DEF Reads, Bound
        <5> QED BY <1>0, <3>2, <5>1
      <4> QED BY <4>1, <4>2
    <3> QED BY <3>1, <3>3
  <2> QED BY <2>2, <2>3, <2>4
<1>3. ASSUME NEW t \in Slot, Pending(t)'
      PROVE  Pending(t) /\ task'[t].supplySeen = task[t].supplySeen
  BY <1>3 DEF Pending, Quiet, QuietSlot, Bound
<1>4. ASSUME NEW t \in Slot, Pending(t)' PROVE Fits(t)'
  <2> PICK n : n = task[t].supplySeen
    OBVIOUS
  <2>1. Pending(t) /\ task'[t].supplySeen = n /\ Fits(t)
    BY <1>3, <1>4 DEF Pegged
  <2>2. n \in Nat
    BY <2>1, SlotReads DEF Pending
  <2> DEFINE S == Late(n)
             R == {u \in Slot : Pending(u)' /\ task'[u].supplySeen <= n}
  <2>3. R \in SUBSET S /\ R \ {t} \in SUBSET (S \ {t}) /\ S \in SUBSET Slot /\ S \ {t} \in SUBSET Slot
    BY <1>3 DEF Late
  <2>4. Late(task[t].supplySeen)' = R
    BY <2>1 DEF Late
  <2>5. \/ supply + Load(S \ {t}) <= n + Ahead
        \/ supply + Load(S) <= mockReserve + Ahead
    BY <2>1 DEF Fits
  <2> HIDE DEF S, R
  <2>6. /\ Load(R) <= Load(S) /\ Load(R \ {t}) <= Load(S \ {t})
        /\ Load(S) \in Nat /\ Load(S \ {t}) \in Nat /\ Load(R) \in Nat /\ Load(R \ {t}) \in Nat
    <3>1. R \in SUBSET Slot /\ R \ {t} \in SUBSET Slot
      BY <2>3
    <3> QED BY <2>3, <3>1, LoadMonotone, LoadType
  <2>7. \/ supply + Load(R \ {t}) <= n + Ahead
        \/ supply + Load(R) <= mockReserve' + Ahead
    <3>1. CASE supply + Load(S \ {t}) <= n + Ahead
      BY <1>0, <2>2, <2>6, <3>1
    <3>2. CASE supply + Load(S) <= mockReserve + Ahead
      BY <1>0, <2>2, <2>6, <3>2
    <3> QED BY <2>5, <3>1, <3>2
  <2>8. supply' = supply /\ task'[t].supplySeen = n
    BY <1>0, <2>1
  <2> QED BY <2>4, <2>7, <2>8 DEF Fits
<1> QED BY <1>1, <1>2, <1>4 DEF Pegged, Quiet

(* A wrap reads the supply: nothing that reads no more than it has minted   *)
(* since, and the others in flight fit ahead of it.                         *)
LEMMA PegReads ==
    ASSUME Types, SlotInv, Pegged, NEW t \in Slot, SupplyReturns(t)
    PROVE  Pegged'
<1>0. supply \in Nat /\ mockReserve \in Nat /\ Ahead \in Nat
  BY LoadAhead DEF Types, ChainType, MemoryType
<1>1. /\ UNCHANGED <<supply, mockReserve, orphans, seeding>> /\ task[t].pc = "reading"
      /\ task[t].supplySeen = None
  BY DEF SupplyReturns, chain
<1>2. \A u \in Slot : task'[u] = IF u = t THEN [task[t] EXCEPT !.supplySeen = supply] ELSE task[u]
  <2>1. task' = [task EXCEPT ![t] = [task[t] EXCEPT !.supplySeen = supply]]
    BY DEF SupplyReturns
  <2>2. task \in [Slot -> TaskRec]
    BY DEF Types, MemoryType
  <2> QED BY <2>1, <2>2
<1>3. /\ task[t] \in TaskRec
      /\ task'[t].supplySeen = supply /\ task'[t].pc = "reading"
      /\ task'[t].src = task[t].src /\ task'[t].reserveSeen = task[t].reserveSeen
  BY <1>1, <1>2 DEF Types, MemoryType, TaskRec
<1>4. NoneOrphaned' /\ PegBounded'
  BY <1>1 DEF Pegged, NoneOrphaned, PegBounded
<1>5. ASSUME NEW u \in Slot PROVE Reads(u)'
  <2>1. Reads(u)
    BY DEF Pegged
  <2>2. CASE u = t
    BY <1>0, <1>1, <1>3, <2>1, <2>2 DEF Reads
  <2>3. CASE u # t
    BY <1>1, <1>2, <2>1, <2>3 DEF Reads
  <2> QED BY <2>2, <2>3
<1>6. \A u \in Slot : Pending(u)' => u = t \/ (Pending(u) /\ task'[u].supplySeen = task[u].supplySeen)
  BY <1>2 DEF Pending
<1>7. ASSUME NEW u \in Slot, Pending(u)' PROVE Fits(u)'
  <2> PICK n : n = task'[u].supplySeen
    OBVIOUS
  <2> DEFINE R == {v \in Slot : Pending(v)' /\ task'[v].supplySeen <= n}
  <2>1. Late(task[u].supplySeen)' = R
    BY DEF Late
  <2>2. R \in SUBSET Slot /\ R \ {u} \in SUBSET (Slot \ {u}) /\ R \ {u} \in SUBSET Slot
    OBVIOUS
  <2>3. n \in Nat /\ n <= supply
    <3>1. CASE u = t
      BY <1>0, <1>3, <3>1
    <3>2. CASE u # t
      <4>1. task'[u] = task[u] /\ Pending(u)
        BY <1>2, <1>7, <3>2 DEF Pending
      <4>2. Reads(u)
        BY DEF Pegged
      <4> QED BY <4>1, <4>2, SlotReads DEF Reads, Pending
    <3> QED BY <3>1, <3>2
  <2>4. CASE n = supply
    <3> HIDE DEF R
    <3>1. Load(R \ {u}) \in Nat /\ Load(R \ {u}) <= Ahead
      BY <2>2, LoadType, LoadAhead
    <3>2. supply' + Load(R \ {u}) <= n + Ahead
      BY <1>0, <1>1, <2>4, <3>1
    <3> QED BY <2>1, <3>2 DEF Fits
  <2>5. CASE n < supply
    <3>1. u # t
      BY <1>0, <1>3, <2>5
    <3>2. Pending(u) /\ task[u].supplySeen = n /\ Fits(u)
      BY <1>6, <1>7, <3>1 DEF Pegged
    <3>3. t \notin R
      BY <1>0, <1>3, <2>3, <2>5
    <3>4. R = Late(n)
      <4>1. \A v \in Slot : v # t => (Pending(v)' <=> Pending(v)) /\ task'[v] = task[v]
        BY <1>2 DEF Pending
      <4>2. ~Pending(t)
        BY <1>1 DEF Pending
      <4> QED BY <3>3, <4>1, <4>2 DEF Late
    <3> HIDE DEF R
    <3>5. \/ supply' + Load(R \ {u}) <= n + Ahead
          \/ supply' + Load(R) <= mockReserve' + Ahead
      BY <1>1, <3>2, <3>4 DEF Fits
    <3> QED BY <2>1, <3>5 DEF Fits
  <2> QED BY <1>0, <2>3, <2>4, <2>5
<1> QED BY <1>4, <1>5, <1>7 DEF Pegged

(* A mint lands: it fits what its wrap saw, so it fits the bound, and so do *)
(* the mints of those that had seen less; those that had seen as much have  *)
(* one request less to leave room for.                                      *)
LEMMA PegLands ==
    ASSUME Types, SlotInv, Pegged, NEW t \in Slot, Land(t)
    PROVE  Pegged'
<1>0. supply \in Nat /\ mockReserve \in Nat /\ Ahead \in Nat /\ LargestAmount \in Nat
  BY LoadAhead, LargestType DEF Types, ChainType, MemoryType
<1>1. /\ UNCHANGED <<mockReserve, orphans, seeding>> /\ task[t].pc = "flying"
      /\ task[t] \in TaskRec
  BY DEF Land, Types, MemoryType
<1> PICK a : a = AmountOf(task[t].src)
  OBVIOUS
<1> PICK s : s = task[t].supplySeen
  OBVIOUS
<1>2. /\ a \in Nat /\ a <= LargestAmount /\ s \in Nat /\ s + a <= mockReserve
      /\ supply' = supply + a /\ Pending(t) /\ Fits(t)
  <2>1. Reads(t) /\ (Pending(t) => Fits(t))
    BY DEF Pegged
  <2>2. s # None /\ s + a <= mockReserve /\ Pending(t)
    BY <1>1, <2>1 DEF Reads, Pending
  <2>3. a \in Nat /\ a <= LargestAmount /\ s \in Nat
    BY <1>1, <2>2, SlotReads DEF Bound
  <2>4. supply' = supply + a
    BY DEF Land, MintLands
  <2> QED BY <2>1, <2>2, <2>3, <2>4
<1>3. \A u \in Slot : u # t => task'[u] = task[u]
  <2>1. task' = [task EXCEPT ![t] = [task[t] EXCEPT !.pc = "landed"]]
    BY DEF Land
  <2>2. task \in [Slot -> TaskRec]
    BY DEF Types, MemoryType
  <2> QED BY <2>1, <2>2
<1>4. task'[t].pc = "landed"
  <2>1. task' = [task EXCEPT ![t] = [task[t] EXCEPT !.pc = "landed"]]
    BY DEF Land
  <2>2. task \in [Slot -> TaskRec]
    BY DEF Types, MemoryType
  <2> QED BY <1>1, <2>1, <2>2 DEF TaskRec
<1>5. \A u \in Slot : (Pending(u)' <=> Pending(u) /\ u # t)
  BY <1>3, <1>4 DEF Pending
<1>6. /\ s <= supply
      /\ Late(s) \in SUBSET Slot /\ t \in Late(s) /\ Late(s) \ {t} \in SUBSET Slot
      /\ Load(Late(s)) = Load(Late(s) \ {t}) + LargestAmount /\ Load(Late(s) \ {t}) \in Nat
  <2>1. Late(s) \in SUBSET Slot /\ t \in Late(s) /\ Late(s) \ {t} \in SUBSET Slot
    BY <1>2 DEF Late
  <2>2. Reads(t)
    BY DEF Pegged
  <2>3. s <= supply
    BY <1>1, <1>2, <2>2 DEF Reads, Pending
  <2> QED BY <2>1, <2>3, LoadOneLess, LoadType
<1>7. supply + a + Load(Late(s) \ {t}) <= mockReserve + Ahead
  <2>1. \/ supply + Load(Late(s) \ {t}) <= s + Ahead
        \/ supply + Load(Late(s)) <= mockReserve + Ahead
    BY <1>2 DEF Fits
  <2>2. CASE supply + Load(Late(s) \ {t}) <= s + Ahead
    BY <1>0, <1>2, <1>6, <2>2
  <2>3. CASE supply + Load(Late(s)) <= mockReserve + Ahead
    BY <1>0, <1>2, <1>6, <2>3
  <2> QED BY <2>1, <2>2, <2>3
<1>8. NoneOrphaned' /\ PegBounded'
  <2>1. NoneOrphaned'
    BY <1>1 DEF Pegged, NoneOrphaned
  <2>2. supply' <= mockReserve + Ahead
    BY <1>0, <1>2, <1>6, <1>7
  <2> QED BY <1>1, <2>1, <2>2 DEF PegBounded
<1>9. ASSUME NEW u \in Slot PROVE Reads(u)'
  <2>1. Reads(u)
    BY DEF Pegged
  <2>2. CASE u = t
    BY <1>4, <2>2 DEF Reads
  <2>3. CASE u # t
    <3>1. task[u].supplySeen # None => task[u].supplySeen \in Nat
      BY SlotReads
    <3>2. ASSUME task[u].supplySeen \in Nat, task[u].supplySeen <= supply
          PROVE  task[u].supplySeen <= supply'
      BY <1>0, <1>2, <3>2
    <3> QED BY <1>1, <1>3, <2>1, <2>3, <3>1, <3>2 DEF Reads
  <2> QED BY <2>2, <2>3
<1>10. ASSUME NEW u \in Slot, Pending(u)' PROVE Fits(u)'
  <2> PICK n : n = task[u].supplySeen
    OBVIOUS
  <2>1. Pending(u) /\ u # t /\ task'[u].supplySeen = n /\ Fits(u)
    BY <1>3, <1>5, <1>10 DEF Pegged
  <2>2. n \in Nat
    BY <2>1, SlotReads DEF Pending
  <2> DEFINE S == Late(n)
  <2>3. Late(task[u].supplySeen)' = S \ {t}
    BY <1>3, <1>5, <2>1 DEF Late
  <2>4. S \in SUBSET Slot /\ S \ {t} \in SUBSET Slot /\ S \ {u} \in SUBSET Slot /\ u \in S
        /\ (S \ {t}) \ {u} \in SUBSET Slot
    BY <2>1, <2>2 DEF Late
  <2>5. \/ supply + Load(S \ {u}) <= n + Ahead
        \/ supply + Load(S) <= mockReserve + Ahead
    BY <2>1 DEF Fits
  <2>6. CASE s <= n
    <3>1. t \in S
      BY <1>2, <2>6 DEF Late
    <3> HIDE DEF S
    <3>2. Load(S) = Load(S \ {t}) + LargestAmount /\ Load(S \ {t}) \in Nat
      BY <2>4, <3>1, LoadOneLess, LoadType
    <3>3. Load(S \ {u}) = Load((S \ {t}) \ {u}) + LargestAmount /\ Load((S \ {t}) \ {u}) \in Nat
      <4>1. t \in S \ {u} /\ (S \ {u}) \ {t} = (S \ {t}) \ {u}
        BY <2>1, <3>1
      <4> QED BY <2>4, <4>1, LoadOneLess, LoadType
    <3>4. \/ supply' + Load((S \ {t}) \ {u}) <= n + Ahead
          \/ supply' + Load(S \ {t}) <= mockReserve + Ahead
      <4>1. CASE supply + Load(S \ {u}) <= n + Ahead
        <5>1. supply' + Load((S \ {t}) \ {u}) <= n + Ahead
          BY <1>0, <1>2, <2>2, <3>3, <4>1
        <5> QED BY <5>1
      <4>2. CASE supply + Load(S) <= mockReserve + Ahead
        <5>1. supply' + Load(S \ {t}) <= mockReserve + Ahead
          BY <1>0, <1>2, <3>2, <4>2
        <5> QED BY <5>1
      <4> QED BY <2>5, <4>1, <4>2
    <3> QED BY <1>1, <2>1, <2>3, <3>4 DEF Fits
  <2>7. CASE n < s
    <3>1. S \ {t} \in SUBSET (Late(s) \ {t})
      BY <1>2, <2>2, <2>7, SlotReads DEF Late, Pending
    <3> HIDE DEF S
    <3>2. Load(S \ {t}) <= Load(Late(s) \ {t}) /\ Load(S \ {t}) \in Nat
      BY <1>6, <2>4, <3>1, LoadMonotone, LoadType
    <3>3. supply' + Load(S \ {t}) <= mockReserve + Ahead
      BY <1>0, <1>2, <1>6, <1>7, <3>2
    <3> QED BY <1>1, <2>1, <2>3, <3>3 DEF Fits
  <2> QED BY <1>2, <2>2, <2>6, <2>7
<1> QED BY <1>8, <1>9, <1>10 DEF Pegged

LEMMA QuietRest ==
    ASSUME Types, Types', Pegged, supply' = supply, mockReserve <= mockReserve', NoneOrphaned',
           seeding' = "done" => seeding = "done",
           \A u \in Slot : task'[u] = task[u] \/ task'[u].pc \notin {"reading", "flying"}
    PROVE  Quiet
<1>1. ASSUME NEW u \in Slot PROVE QuietSlot(u)
  BY DEF QuietSlot, Bound
<1> QED BY <1>1 DEF Quiet

(* With no fault and no restart no mint is orphaned: whoever throws has not *)
(* sent one.                                                                *)
LEMMA ThrowsQuietly ==
    ASSUME Types, Types', SlotInv, Pegged, NEW T \in SUBSET Slot, Throw(T),
           \A t \in T : task[t].pc = "reading", seeding' = "done" => seeding = "done"
    PROVE  Quiet
<1>1. \A t \in T : task[t].pc \in LeadPcs
  BY PcSets
<1>2. \A u \in Slot : task'[u] = task[u] \/ task'[u].pc \notin {"reading", "flying"}
  <2>1. \A u \in Slot : task'[u] = task[u] \/ task'[u] = IdleTask
    BY <1>1, Freed DEF Throw, Types
  <2> QED BY <2>1 DEF IdleTask
<1>3. NoneOrphaned'
  <2>1. ASSUME NEW s \in Source PROVE orphans'[s] = 0
    <3>1. {t \in T : task[t].pc = "flying" /\ task[t].src = s} = {}
      OBVIOUS
    <3>2. orphans'[s] = orphans[s] + Cardinality({t \in T : task[t].pc = "flying" /\ task[t].src = s})
      BY DEF Throw
    <3>3. orphans[s] = 0
      BY DEF Pegged, NoneOrphaned
    <3> QED BY <3>1, <3>2, <3>3, FS_EmptySet
  <2> QED BY <2>1 DEF NoneOrphaned
<1>4. supply' = supply /\ mockReserve <= mockReserve'
  BY DEF Throw, Types, MemoryType
<1> QED BY <1>2, <1>3, <1>4, QuietRest

LEMMA QuietOrReads ==
    ASSUME Types, Types', SlotInv, Pegged, [Next]_vars, faults \in Nat, faults' = 0, crashes' = 0
    PROVE  Quiet \/ \E t \in Slot : SupplyReturns(t) \/ Land(t)
<1> USE DEF chain, process, provider, budget
<1>0. /\ supply \in Nat /\ mockReserve \in Nat /\ task \in [Slot -> TaskRec]
      /\ \A t \in Slot : task[t] \in TaskRec
      /\ NoneOrphaned /\ crashes \in Nat
  BY DEF Types, ChainType, MemoryType, ProviderType, Pegged
<1>1. ASSUME UNCHANGED <<supply, mockReserve, orphans>>, seeding' = "done" => seeding = "done",
             \A u \in Slot : task'[u] = task[u] \/ task'[u].pc \notin {"reading", "flying"}
      PROVE  Quiet
  BY <1>0, <1>1, QuietRest DEF NoneOrphaned
<1>2. ASSUME NEW t \in Slot, NEW pc, pc \notin {"reading", "flying"},
             task'[t].pc = pc, \A u \in Slot : u # t => task'[u] = task[u]
      PROVE  \A u \in Slot : task'[u] = task[u] \/ task'[u].pc \notin {"reading", "flying"}
  BY <1>2
<1>3. CASE \/ \E e \in Event : Checkout(e) \/ Pay(e) \/ Replay(e) \/ Reject(e)
           \/ \E w \in Wallet : Payout(w, AdminAmount)
           \/ InvariantRoute \/ Tick \/ UNCHANGED vars
  BY <1>1, <1>3 DEF Checkout, Pay, Replay, Reject, Payout, InvariantRoute, Tick, vars
<1>4. ASSUME NEW e \in Event, NEW t \in Slot, Join(e, t) \/ Lead(e, t) PROVE Quiet
  <2>1. UNCHANGED <<supply, mockReserve, orphans, seeding>>
    BY <1>4 DEF Join, Lead
  <2>2. ASSUME NEW pc \in {"waiting", "treasury"},
               task' = [task EXCEPT ![t] = [task[t] EXCEPT !.pc = pc, !.src = e]]
        PROVE  task'[t].pc = pc /\ \A u \in Slot : u # t => task'[u] = task[u]
    BY <1>0, <2>2 DEF TaskRec
  <2>3. \E pc \in {"waiting", "treasury"} :
            task' = [task EXCEPT ![t] = [task[t] EXCEPT !.pc = pc, !.src = e]]
    BY <1>4 DEF Join, Lead
  <2> QED BY <1>1, <1>2, <2>1, <2>2, <2>3
<1>5. ASSUME NEW t \in Slot, RunReturns(t) PROVE Quiet
  <2>1. UNCHANGED <<supply, mockReserve, orphans, seeding>>
    BY <1>5 DEF RunReturns
  <2>2. task' = [task EXCEPT ![t] = [task[t] EXCEPT !.pc = "after"]]
    BY <1>5 DEF RunReturns
  <2>3. task'[t].pc = "after" /\ \A u \in Slot : u # t => task'[u] = task[u]
    BY <1>0, <2>2 DEF TaskRec
  <2> QED BY <1>1, <1>2, <2>1, <2>3
<1>6. ASSUME NEW t \in Slot, Credit(t) \/ AdminWrapReturns(t) PROVE Quiet
  <2>1. Ends({t})
    BY <1>6, EndsAre
  <2>2. \A u \in Slot : task'[u] = task[u] \/ task'[u] = IdleTask
    BY <2>1, Freed DEF Ends, Types
  <2>3. UNCHANGED <<supply, mockReserve, orphans, seeding>>
    BY <1>6 DEF Credit, AdminWrapReturns
  <2>4. \A u \in Slot : task'[u] = task[u] \/ task'[u].pc \notin {"reading", "flying"}
    BY <2>2 DEF IdleTask
  <2> QED BY <1>1, <2>3, <2>4
<1>7. ASSUME NEW t \in Slot, InvariantViolation(t) \/ ReserveRejects(t) PROVE Quiet
  <2>1. Throw({t}) /\ task[t].pc = "reading" /\ UNCHANGED seeding
    BY <1>7 DEF InvariantViolation, ReserveRejects, BothRead, AwaitsSeed
  <2> QED BY <2>1, ThrowsQuietly
<1>8. CASE SeedFails
  <2> DEFINE T == {t \in Slot : AwaitsSeed(t)}
  <2>1. Throw(T) /\ seeding' = "rejected"
    BY <1>8 DEF SeedFails
  <2>2. T \in SUBSET Slot /\ \A t \in T : task[t].pc = "reading"
    BY DEF AwaitsSeed
  <2> HIDE DEF T
  <2> QED BY <2>1, <2>2, ThrowsQuietly
<1>9. ASSUME NEW t \in Slot, Send(t) PROVE Quiet
  <2>1. /\ UNCHANGED <<supply, mockReserve, orphans, seeding>>
        /\ task' = [task EXCEPT ![t] = [task[t] EXCEPT !.pc = "flying"]]
        /\ BothRead(t) /\ AssertInvariant(t)
    BY <1>9 DEF Send
  <2>2. /\ task'[t].pc = "flying" /\ task'[t].src = task[t].src
        /\ task'[t].supplySeen = task[t].supplySeen /\ task'[t].reserveSeen = task[t].reserveSeen
        /\ \A u \in Slot : u # t => task'[u] = task[u]
    BY <1>0, <2>1 DEF TaskRec
  <2>3. QuietSlot(t)
    BY <2>1, <2>2 DEF QuietSlot, Bound, BothRead, AssertInvariant
  <2>4. ASSUME NEW u \in Slot, u # t PROVE QuietSlot(u)
    BY <2>2, <2>4 DEF QuietSlot, Bound
  <2> QED BY <1>0, <2>1, <2>3, <2>4 DEF Quiet, NoneOrphaned
<1>10. ASSUME NEW t, NEW s, StartReading(t, s, mockReserve'), UNCHANGED <<supply, orphans>>,
              mockReserve <= mockReserve'
       PROVE  Quiet
  <2>1. /\ task' = [task EXCEPT ![t] = Reading(s, IF seeding = "done" THEN mockReserve' ELSE None)]
        /\ seeding' = "done" => seeding = "done"
    BY <1>10 DEF StartReading, Reading
  <2>2. mockReserve' <= mockReserve'
    BY DEF Types, MemoryType
  <2>3. ASSUME NEW u \in Slot PROVE QuietSlot(u)
    <3>1. CASE u = t
      <4>1. /\ task'[u].pc = "reading" /\ task'[u].supplySeen = None
            /\ task'[u].reserveSeen = IF seeding = "done" THEN mockReserve' ELSE None
        BY <1>0, <2>1, <3>1 DEF Reading
      <4> QED BY <2>2, <4>1 DEF QuietSlot
    <3>2. CASE u # t
      <4>1. task'[u] = task[u]
        BY <1>0, <2>1, <3>2
      <4> QED BY <4>1 DEF QuietSlot, Bound
    <3> QED BY <3>1, <3>2
  <2> QED BY <1>0, <1>10, <2>1, <2>3 DEF Quiet, NoneOrphaned
<1>11. ASSUME NEW t \in Slot, CreditReserve(t) PROVE Quiet
  <2>1. AmountOf(task[t].src) \in Nat
    <3>1. task[t].src \in Source
      BY <1>11, SlotType, PcSets DEF CreditReserve, Types, LeadPcs
    <3> QED BY <3>1, AmountType
  <2>2. /\ StartReading(t, task[t].src, mockReserve') /\ UNCHANGED <<supply, orphans>>
        /\ mockReserve' = mockReserve + AmountOf(task[t].src)
    BY <1>11 DEF CreditReserve
  <2> QED BY <1>0, <1>10, <2>1, <2>2
<1>12. ASSUME NEW t \in Slot, NEW credit \in BOOLEAN, AdminWrap(t, credit) PROVE Quiet
  <2>1. mockReserve <= mockReserve'
    BY <1>0, <1>12, EventAssumption DEF AdminWrap
  <2>2. StartReading(t, Admin, mockReserve') /\ UNCHANGED <<supply, orphans>>
    BY <1>12 DEF AdminWrap
  <2> QED BY <1>10, <2>1, <2>2
<1>13. CASE AdminCredit
  <2>1. mockReserve <= mockReserve' /\ UNCHANGED <<supply, orphans, task>>
        /\ (seeding' = "done" => seeding = "done")
    BY <1>0, <1>13, EventAssumption DEF AdminCredit
  <2> QED BY <1>0, <2>1, QuietRest DEF NoneOrphaned
<1>14. CASE SeedReturns
  <2>1. /\ mockReserve' = mockReserve + supply /\ UNCHANGED <<supply, orphans>>
        /\ task' = [t \in Slot |-> IF AwaitsSeed(t) THEN [task[t] EXCEPT !.reserveSeen = mockReserve']
                                   ELSE task[t]]
    BY <1>14 DEF SeedReturns, SeededReserve
  <2>2. mockReserve <= mockReserve' /\ supply <= mockReserve' /\ mockReserve' <= mockReserve'
    BY <1>0, <2>1
  <2>3. ASSUME NEW u \in Slot PROVE QuietSlot(u)
    <3>1. CASE AwaitsSeed(u)
      <4>1. task'[u] = [task[u] EXCEPT !.reserveSeen = mockReserve']
        BY <2>1, <3>1
      <4>2. /\ task'[u].pc = task[u].pc /\ task'[u].src = task[u].src
            /\ task'[u].supplySeen = task[u].supplySeen /\ task'[u].reserveSeen = mockReserve'
        BY <1>0, <4>1 DEF TaskRec
      <4>3. task[u].pc = "reading"
        BY <3>1 DEF AwaitsSeed
      <4> QED BY <2>2, <4>2, <4>3 DEF QuietSlot, Bound
    <3>2. CASE ~AwaitsSeed(u)
      <4>1. task'[u] = task[u]
        BY <2>1, <3>2
      <4> QED BY <4>1 DEF QuietSlot, Bound
    <3> QED BY <3>1, <3>2
  <2> QED BY <1>0, <2>1, <2>2, <2>3 DEF Quiet, NoneOrphaned
<1>15. ASSUME NEW s \in Source, OrphanLands(s) \/ OrphanDropped(s) PROVE FALSE
  <2>1. orphans[s] > 0
    BY <1>15 DEF OrphanLands, OrphanDropped
  <2> QED BY <1>0, <2>1 DEF NoneOrphaned
<1>16. ASSUME NEW t \in Slot, RpcFails(t) PROVE FALSE
  <2>1. faults' = faults + 1
    BY <1>16 DEF RpcFails, Fault
  <2> QED BY <2>1
<1>17. CASE Crash
  <2>1. crashes' = crashes + 1
    BY <1>17 DEF Crash
  <2> QED BY <1>0, <2>1
<1> QED BY <1>3, <1>4, <1>5, <1>6, <1>7, <1>8, <1>9, <1>11, <1>12, <1>13, <1>14, <1>15, <1>16, <1>17
        DEF Next, Deliver, Progress

(* Faults and restarts are counted, and only these two counters say so.     *)
LEMMA CountedBefore ==
    ASSUME Types, faults \in Nat, [Next]_vars
    PROVE  faults' \in Nat /\ (faults' = 0 => faults = 0) /\ (crashes' = 0 => crashes = 0)
<1>1. crashes \in Nat
  BY DEF Types, ProviderType
<1>2. (faults' = faults \/ faults' = faults + 1) /\ (crashes' = crashes \/ crashes' = crashes + 1)
  BY DEF Next, Deliver, Progress, Checkout, Pay, Replay, Join, Reject, Lead, CreditReserve, AdminWrap,
         AdminCredit, InvariantRoute, SeedReturns, SupplyReturns, Send, Land, OrphanLands, OrphanDropped,
         RunReturns, Credit, AdminWrapReturns, Throw, Fault, InvariantViolation, RpcFails, SeedFails,
         ReserveRejects, Payout, Crash, Tick, vars, budget
<1> QED BY <1>1, <1>2

LEMMA PegKeeps ==
    ASSUME Types, Types', SlotInv, SlotInv', faults \in Nat, PegInv, [Next]_vars
    PROVE  PegInv'
<1> SUFFICES ASSUME faults' = 0, crashes' = 0 PROVE Pegged'
  BY DEF PegInv
<1>1. Pegged
  BY CountedBefore DEF PegInv
<1> QED BY <1>1, QuietOrReads, PegQuiet, PegReads, PegLands

-----------------------------------------------------------------------------
(* The logs of the daily caps.                                              *)

(* What a log still counts at an instant, and what was credited to a wallet *)
(* in the window before it.                                                 *)
Recent(n)        == {i \in Instant : n - i <= Window}
UsedAt(log, n)   == Sum(log, Recent(n))
CreditedBy(w, n) == {e \in Event : WalletOf[e] = w /\ Credited(e) /\ n - credits[e].at <= Window}
CreditedAt(w, n) == Sum(Amount, CreditedBy(w, n))

Log == [Instant -> Nat]
LogType == /\ capLog \in [Wallet -> Log] /\ payoutLog \in [Wallet -> Log]
           /\ now \in Instant /\ faults \in Nat

(* The log of a wallet and the credits of its events agree from now on.     *)
LogInv == \A w \in Wallet, n \in Nat : now <= n => UsedAt(capLog[w], n) = CreditedAt(w, n)

LEMMA InstantsFinite ==
    /\ Instant \subseteq Nat
    /\ \A n : IsFiniteSet(Recent(n)) /\ Recent(n) \in SUBSET Instant
<1>0. 0 \in Int /\ MaxNow \in Int /\ MaxNow \in Nat
  BY EventAssumption
<1>1. IsFiniteSet(Instant)
  <2>1. IsFiniteSet(0 .. MaxNow)
    BY <1>0, FS_Interval, Zenon
  <2> QED BY <2>1 DEF Instant
<1>2. Instant \subseteq Nat
  BY <1>0 DEF Instant
<1>3. \A n : Recent(n) \in SUBSET Instant
  BY DEF Recent
<1> QED BY <1>1, <1>2, <1>3, FS_Subset

LEMMA CreditedFinite ==
    ASSUME NEW w, NEW n
    PROVE  /\ IsFiniteSet(CreditedBy(w, n)) /\ CreditedBy(w, n) \in SUBSET Event
           /\ \A e \in CreditedBy(w, n) : Amount[e] \in Nat /\ Amount[e] \in Int
           /\ CreditedAt(w, n) \in Nat
<1>1. IsFiniteSet(CreditedBy(w, n)) /\ CreditedBy(w, n) \in SUBSET Event
  BY EventAssumption, FS_Subset DEF CreditedBy
<1>2. \A e \in CreditedBy(w, n) : Amount[e] \in Nat /\ Amount[e] \in Int
  BY EventAssumption, <1>1
<1>3. CreditedAt(w, n) \in Nat
  BY <1>1, <1>2, SumNat DEF CreditedAt
<1> QED BY <1>1, <1>2, <1>3

LEMMA UsedIsSum == ASSUME NEW log PROVE Used(log) = UsedAt(log, now)
<1>1. IsFiniteSet(Live) /\ Live = Recent(now)
  <2>1. Live = Recent(now)
    BY DEF Live, Recent
  <2> QED BY <2>1, InstantsFinite
<1>2. Used(log) = MapThenSumSet(LAMBDA t : log[t], Live)
  BY DEF Used, SumOver
<1>3. MapThenSumSet(LAMBDA t : log[t], Live) = Sum(log, Live)
  BY <1>1, FoldIsSum DEF MapThenSumSet, MapThenFoldSet
<1> QED BY <1>1, <1>2, <1>3 DEF UsedAt

LEMMA CreditedTodayIsSum == \A w : CreditedToday(w) = CreditedAt(w, now)
<1> SUFFICES ASSUME NEW w PROVE CreditedToday(w) = CreditedAt(w, now)
  OBVIOUS
<1> DEFINE S == {e \in Event : /\ WalletOf[e] = w /\ credits[e] # None
                               /\ credits[e].status = "credited" /\ now - credits[e].at <= Window}
<1>1. S = CreditedBy(w, now)
  BY DEF CreditedBy, Credited
<1>2. CreditedToday(w) = MapThenSumSet(LAMBDA e : Amount[e], S)
  BY DEF CreditedToday, SumOver
<1> HIDE DEF S
<1>3. IsFiniteSet(S)
  BY <1>1, CreditedFinite
<1>4. MapThenSumSet(LAMBDA e : Amount[e], S) = Sum(Amount, S)
  BY <1>3, FoldIsSum DEF MapThenSumSet, MapThenFoldSet
<1> QED BY <1>1, <1>2, <1>4 DEF CreditedAt

LEMMA CreditedTodayIsSumNext == (\A w : CreditedToday(w) = CreditedAt(w, now))'
  BY CreditedTodayIsSum, PTL

(* An entry counts as long as it is in the window, and dropping those that  *)
(* are not changes nothing from then on.                                    *)
LEMMA RecordedCounts ==
    ASSUME now \in Instant, NEW log \in Log, NEW a \in Nat, NEW n \in Nat, now <= n
    PROVE  /\ Recorded(log, a) \in Log
           /\ UsedAt(log, n) \in Nat
           /\ UsedAt(Recorded(log, a), n) = UsedAt(log, n) + (IF n - now <= Window THEN a ELSE 0)
<1> DEFINE new == Recorded(log, a)
<1>0. now \in Nat /\ Window \in Nat /\ Instant \subseteq Nat /\ Recent(n) \in SUBSET Instant
      /\ IsFiniteSet(Recent(n))
  BY EventAssumption, InstantsFinite
<1>1. new \in Log
  BY DEF Recorded, Log
<1>2. \A i \in Instant : new[i] = (IF i \in Live THEN log[i] ELSE 0) + (IF i = now THEN a ELSE 0)
  BY DEF Recorded
<1>3. now \in Live
  BY <1>0 DEF Live
<1>4. \A i \in Recent(n) : i \in Live
  BY <1>0 DEF Recent, Live
<1> HIDE DEF new
<1>5. \A i \in Recent(n) : /\ i # now => new[i] = log[i]
                           /\ i = now => new[i] = log[i] + a
                           /\ new[i] \in Int /\ log[i] \in Int /\ log[i] \in Nat
  <2> SUFFICES ASSUME NEW i \in Recent(n)
               PROVE  /\ i # now => new[i] = log[i]
                      /\ i = now => new[i] = log[i] + a
                      /\ new[i] \in Int /\ log[i] \in Int /\ log[i] \in Nat
    OBVIOUS
  <2>1. log[i] \in Nat /\ new[i] \in Nat /\ i \in Live /\ i \in Instant
    BY <1>0, <1>1, <1>4 DEF Log
  <2> QED BY <1>2, <2>1
<1>6. Sum(log, Recent(n)) \in Nat
  BY <1>0, <1>5, SumNat
<1>7. CASE n - now <= Window
  <2>1. now \in Recent(n)
    BY <1>7 DEF Recent
  <2>2. \A i \in Recent(n) \ {now} : new[i] = log[i]
    BY <1>5
  <2>3. \A i \in Recent(n) : log[i] \in Int /\ new[i] \in Int
    BY <1>5
  <2>4. Sum(new, Recent(n)) = Sum(log, Recent(n)) + new[now] - log[now]
    <3> PICK S, x : S = Recent(n) /\ x = now
      OBVIOUS
    <3>1. IsFiniteSet(S) /\ x \in S
      BY <1>0, <2>1
    <3>2. \A i \in S : log[i] \in Int /\ new[i] \in Int
      BY <2>3
    <3>3. \A i \in S \ {x} : new[i] = log[i]
      BY <2>2
    <3>4. Sum(new, S) = Sum(log, S) + new[x] - log[x]
      BY <3>1, <3>2, <3>3, SumMoves
    <3> QED BY <3>4
  <2>5. new[now] = log[now] + a /\ log[now] \in Nat
    BY <1>5, <2>1
  <2>6. Sum(new, Recent(n)) = Sum(log, Recent(n)) + a
    BY <1>6, <2>4, <2>5
  <2> QED BY <1>1, <1>6, <1>7, <2>6 DEF UsedAt, new
<1>8. CASE ~(n - now <= Window)
  <2>1. \A i \in Recent(n) : new[i] = log[i]
    BY <1>5, <1>8 DEF Recent
  <2>2. Sum(new, Recent(n)) = Sum(log, Recent(n))
    BY <1>0, <2>1, SumSame
  <2>3. Sum(new, Recent(n)) = Sum(log, Recent(n)) + 0
    BY <1>6, <2>2
  <2> QED BY <1>1, <1>6, <1>8, <2>3 DEF UsedAt, new
<1> QED BY <1>7, <1>8

LEMMA NothingRecorded ==
    NoEntries \in Log /\ \A n : UsedAt(NoEntries, n) = 0
<1>1. NoEntries \in Log /\ \A i \in Instant : NoEntries[i] = 0
  BY DEF NoEntries, Log
<1>2. ASSUME NEW n PROVE UsedAt(NoEntries, n) = 0
  <2>1. \A i \in Recent(n) : NoEntries[i] = 0
    BY <1>1, InstantsFinite
  <2> QED BY <2>1, InstantsFinite, SumZero DEF UsedAt
<1> QED BY <1>1, <1>2

(* What a step does to the logs and to the credits. *)
LEMMA LogSteps ==
    ASSUME Types, SlotInv, LogType, [Next]_vars
    PROVE  /\ now' \in Instant /\ now <= now'
           /\ \/ \E t \in Slot : Credit(t)
              \/ Crash
              \/ /\ capLog' = capLog
                 /\ \A e \in Event : Credited(e)' <=> Credited(e)
                 /\ \A e \in Event : Credited(e) => credits'[e] = credits[e]
           /\ \/ Crash
              \/ UNCHANGED payoutLog
              \/ \E w \in Wallet : Payout(w, AdminAmount)
<1> USE DEF chain, process, provider, budget
<1>1. now' \in Instant /\ now <= now'
  <2>1. now \in Nat /\ now <= MaxNow /\ MaxNow \in Nat
    BY EventAssumption DEF LogType, Instant
  <2>2. Tick \/ UNCHANGED now
    BY DEF Next, Deliver, Progress, Checkout, Pay, Replay, Join, Reject, Lead, CreditReserve, AdminWrap,
           AdminCredit, InvariantRoute, SeedReturns, SupplyReturns, Send, Land, OrphanLands, OrphanDropped,
           RunReturns, Credit, AdminWrapReturns, Throw, InvariantViolation, RpcFails, SeedFails,
           ReserveRejects, Payout, Crash, vars
  <2> QED BY <2>1, <2>2 DEF Tick, Instant
<1>2. \/ \E t \in Slot : Credit(t)
      \/ \E e \in Event : Reject(e)
      \/ Crash
      \/ capLog' = capLog /\ credits' = credits
  <2>1. ASSUME NEW e \in Event, Checkout(e) \/ Pay(e) \/ Deliver(e)
        PROVE  Reject(e) \/ UNCHANGED <<capLog, credits>>
    BY <2>1 DEF Deliver, Checkout, Pay, Replay, Join, Lead
  <2>2. ASSUME NEW t \in Slot, Progress(t) \/ RpcFails(t) \/ \E credit \in BOOLEAN : AdminWrap(t, credit)
        PROVE  Credit(t) \/ UNCHANGED <<capLog, credits>>
    BY <2>2 DEF Progress, CreditReserve, AdminWrap, SupplyReturns, Send, Land, RunReturns,
                AdminWrapReturns, Throw, InvariantViolation, RpcFails, ReserveRejects
  <2>3. ASSUME \/ \E s \in Source : OrphanLands(s) \/ OrphanDropped(s)
               \/ \E w \in Wallet : Payout(w, AdminAmount)
               \/ AdminCredit \/ InvariantRoute \/ SeedReturns \/ SeedFails \/ Tick \/ UNCHANGED vars
        PROVE  UNCHANGED <<capLog, credits>>
    BY <2>3 DEF OrphanLands, OrphanDropped, Payout, AdminCredit, InvariantRoute, SeedReturns,
                SeedFails, Throw, Tick, vars
  <2> QED BY <2>1, <2>2, <2>3 DEF Next
<1>3. ASSUME NEW e \in Event, Reject(e)
      PROVE  /\ capLog' = capLog
             /\ \A d \in Event : Credited(d)' <=> Credited(d)
             /\ \A d \in Event : Credited(d) => credits'[d] = credits[d]
  <2>1. /\ capLog' = capLog /\ credits[e] = None
        /\ credits' = [credits EXCEPT ![e] = [status |-> "rejected", at |-> now]]
    BY <1>3 DEF Reject, Fresh
  <2>2. credits'[e].status = "rejected" /\ \A d \in Event : d # e => credits'[d] = credits[d]
    BY <2>1 DEF Types, MemoryType
  <2> QED BY <2>1, <2>2 DEF Credited
<1>4. ASSUME credits' = credits
      PROVE  /\ \A d \in Event : Credited(d)' <=> Credited(d)
             /\ \A d \in Event : Credited(d) => credits'[d] = credits[d]
  BY <1>4 DEF Credited
<1>5. \/ Crash
      \/ UNCHANGED payoutLog
      \/ \E w \in Wallet : Payout(w, AdminAmount)
  BY DEF Next, Deliver, Progress, Checkout, Pay, Replay, Join, Reject, Lead, CreditReserve, AdminWrap,
         AdminCredit, InvariantRoute, SeedReturns, SupplyReturns, Send, Land, OrphanLands, OrphanDropped,
         RunReturns, Credit, AdminWrapReturns, Throw, InvariantViolation, RpcFails, SeedFails,
         ReserveRejects, Tick, vars
<1> QED BY <1>1, <1>2, <1>3, <1>4, <1>5

(* A credit enters the log of its wallet. *)
LEMMA CreditRecords ==
    ASSUME Types, SlotInv, LogType, NEW t \in Slot, Credit(t)
    PROVE  \E e \in Event :
              /\ e = task[t].src /\ task[t].pc \in LeadPcs
              /\ now' = now /\ payoutLog' = payoutLog /\ ~Credited(e)
              /\ capLog' = [capLog EXCEPT ![WalletOf[e]] = Recorded(capLog[WalletOf[e]], Amount[e])]
              /\ \A n : CreditedBy(WalletOf[e], n)' = CreditedBy(WalletOf[e], n)
                                          \cup (IF n - now <= Window THEN {e} ELSE {})
              /\ \A w, n : w # WalletOf[e] => CreditedBy(w, n)' = CreditedBy(w, n)
<1> PICK e : e = task[t].src
  OBVIOUS
<1>1. task[t].pc \in LeadPcs /\ e \in Event
  <2>1. task[t].pc \in LeadPcs /\ e # Admin
    BY PcSets DEF Credit, LeadPcs, PastPcs, MintPcs
  <2> QED BY <2>1, SlotType DEF Types, Source
<1>2. credits[e] = None
  <2>1. e \in inFlight
    BY <1>1 DEF SlotInv, InFlightLed, Has
  <2> QED BY <2>1 DEF SlotInv, NotYetCredited
<1>3. /\ now' = now /\ payoutLog' = payoutLog
      /\ capLog' = [capLog EXCEPT ![WalletOf[e]] = Recorded(@, Amount[e])]
      /\ credits' = [credits EXCEPT ![e] = [status |-> "credited", at |-> now]]
  BY DEF Credit
<1>4. capLog' = [capLog EXCEPT ![WalletOf[e]] = Recorded(capLog[WalletOf[e]], Amount[e])]
  BY <1>3
<1>5. /\ ~Credited(e) /\ Credited(e)' /\ credits'[e].at = now
      /\ \A d \in Event : d # e => credits'[d] = credits[d] /\ (Credited(d)' <=> Credited(d))
  <2>1. [status |-> "credited", at |-> now] # None
    BY EventAssumption DEF LogType, Instant
  <2>2. credits'[e] = [status |-> "credited", at |-> now] /\ \A d \in Event : d # e => credits'[d] = credits[d]
    BY <1>1, <1>3 DEF Types, MemoryType
  <2> QED BY <1>2, <2>1, <2>2 DEF Credited
<1>6. \A w, n : \A d \in Event : d \in CreditedBy(w, n)' <=>
          \/ d # e /\ d \in CreditedBy(w, n)
          \/ d = e /\ WalletOf[e] = w /\ n - now <= Window
  BY <1>5 DEF CreditedBy
<1>7. \A w, n : e \notin CreditedBy(w, n)
  BY <1>5 DEF CreditedBy
<1>8. \A w, n : CreditedBy(w, n) \subseteq Event /\ CreditedBy(w, n)' \subseteq Event
  BY DEF CreditedBy
<1>9. ASSUME NEW n PROVE CreditedBy(WalletOf[e], n)' = CreditedBy(WalletOf[e], n)
                              \cup (IF n - now <= Window THEN {e} ELSE {})
  BY <1>1, <1>6, <1>7, <1>8
<1>10. ASSUME NEW w, NEW n, w # WalletOf[e] PROVE CreditedBy(w, n)' = CreditedBy(w, n)
  BY <1>6, <1>7, <1>8, <1>10
<1> QED BY <1>1, <1>3, <1>4, <1>5, <1>9, <1>10

LEMMA LogKeeps ==
    ASSUME Types, SlotInv, LogType, LogInv, [Next]_vars
    PROVE  LogType' /\ LogInv'
<1>0. now \in Nat /\ now' \in Nat /\ now' \in Instant /\ now <= now' /\ now \in Instant
      /\ \A e \in Event : Amount[e] \in Nat /\ WalletOf[e] \in Wallet
  BY LogSteps, InstantsFinite, EventAssumption DEF LogType
<1>1. faults' \in Nat
  BY CountedBefore DEF LogType
<1>2. payoutLog' \in [Wallet -> Log]
  <2>1. CASE Crash
    BY <2>1, NothingRecorded DEF Crash
  <2>2. ASSUME NEW w \in Wallet, Payout(w, AdminAmount) PROVE payoutLog' \in [Wallet -> Log]
    <3>1. payoutLog' = [payoutLog EXCEPT ![w] = Recorded(payoutLog[w], AdminAmount)]
      BY <2>2 DEF Payout
    <3>2. Recorded(payoutLog[w], AdminAmount) \in Log
      <4>1. payoutLog[w] \in Log /\ AdminAmount \in Nat /\ now <= now
        BY <1>0, EventAssumption DEF LogType
      <4> QED BY <1>0, <4>1, RecordedCounts
    <3> QED BY <3>1, <3>2 DEF LogType
  <2> QED BY <2>1, <2>2, LogSteps DEF LogType
<1>3. CASE Crash
  <2>1. capLog' = [w \in Wallet |-> NoEntries] /\ credits' = [e \in Event |-> None]
    BY <1>3 DEF Crash
  <2>2. \A w, n : CreditedBy(w, n)' = {}
    BY <2>1 DEF CreditedBy, Credited
  <2>3. LogInv'
    <3>1. ASSUME NEW w \in Wallet, NEW n \in Nat PROVE UsedAt(capLog[w], n)' = CreditedAt(w, n)'
      <4>1. UsedAt(capLog[w], n)' = UsedAt(NoEntries, n)
        BY <2>1 DEF UsedAt
      <4>2. CreditedAt(w, n)' = 0
        BY <2>2, SumEmpty DEF CreditedAt
      <4> QED BY <4>1, <4>2, NothingRecorded
    <3> QED BY <3>1 DEF LogInv
  <2>4. capLog' \in [Wallet -> Log]
    BY <2>1, NothingRecorded
  <2> QED BY <1>0, <1>1, <1>2, <2>3, <2>4 DEF LogType
<1>4. CASE /\ capLog' = capLog
           /\ \A e \in Event : Credited(e)' <=> Credited(e)
           /\ \A e \in Event : Credited(e) => credits'[e] = credits[e]
  <2>1. \A w, n : CreditedBy(w, n)' = CreditedBy(w, n)
    BY <1>4 DEF CreditedBy
  <2>2. ASSUME NEW w \in Wallet, NEW n \in Nat, now' <= n
        PROVE  UsedAt(capLog[w], n)' = CreditedAt(w, n)'
    <3>1. UsedAt(capLog[w], n)' = UsedAt(capLog[w], n)
      BY <1>4 DEF UsedAt
    <3>2. CreditedAt(w, n)' = CreditedAt(w, n)
      BY <2>1 DEF CreditedAt
    <3>3. now <= n
      BY <1>0, <2>2
    <3> QED BY <3>1, <3>2, <3>3 DEF LogInv
  <2>3. LogInv'
    BY <2>2 DEF LogInv
  <2> QED BY <1>0, <1>1, <1>2, <1>4, <2>3 DEF LogType
<1>5. ASSUME NEW t \in Slot, Credit(t) PROVE LogType' /\ LogInv'
  <2>1. PICK e \in Event :
              /\ now' = now /\ ~Credited(e)
              /\ capLog' = [capLog EXCEPT ![WalletOf[e]] = Recorded(capLog[WalletOf[e]], Amount[e])]
              /\ \A n : CreditedBy(WalletOf[e], n)' = CreditedBy(WalletOf[e], n)
                                          \cup (IF n - now <= Window THEN {e} ELSE {})
              /\ \A w, n : w # WalletOf[e] => CreditedBy(w, n)' = CreditedBy(w, n)
    BY <1>5, CreditRecords
  <2> PICK x : x = WalletOf[e]
    OBVIOUS
  <2>2. x \in Wallet /\ capLog[x] \in Log /\ Amount[e] \in Nat
    BY <1>0 DEF LogType
  <2>3. Recorded(capLog[x], Amount[e]) \in Log
    <3>1. now <= now
      BY <1>0
    <3> QED BY <1>0, <2>2, <3>1, RecordedCounts
  <2>4. /\ capLog' \in [Wallet -> Log]
        /\ \A w \in Wallet : capLog'[w] = IF w = x THEN Recorded(capLog[x], Amount[e]) ELSE capLog[w]
    BY <2>1, <2>2, <2>3 DEF LogType
  <2>5. ASSUME NEW w \in Wallet, NEW n \in Nat, now <= n
        PROVE  UsedAt(capLog[w], n)' = CreditedAt(w, n)'
    <3>1. UsedAt(capLog[w], n) = CreditedAt(w, n)
      BY <2>5 DEF LogInv
    <3>2. CASE w # x
      <4>1. UsedAt(capLog[w], n)' = UsedAt(capLog[w], n)
        BY <2>4, <3>2 DEF UsedAt
      <4>2. CreditedAt(w, n)' = CreditedAt(w, n)
        BY <2>1, <3>2 DEF CreditedAt
      <4> QED BY <3>1, <4>1, <4>2
    <3>3. CASE w = x
      <4>1. UsedAt(capLog[w], n)' = UsedAt(Recorded(capLog[x], Amount[e]), n)
        BY <2>4, <3>3 DEF UsedAt
      <4>2. UsedAt(Recorded(capLog[x], Amount[e]), n)
                = UsedAt(capLog[x], n) + (IF n - now <= Window THEN Amount[e] ELSE 0)
        BY <1>0, <2>2, <2>5, RecordedCounts
      <4>3. CreditedAt(x, n)' = CreditedAt(x, n) + (IF n - now <= Window THEN Amount[e] ELSE 0)
        <5>1. CreditedAt(x, n) \in Nat
          BY CreditedFinite
        <5>2. CASE n - now <= Window
          <6>1. CreditedBy(x, n)' = CreditedBy(x, n) \cup {e}
            BY <2>1, <5>2
          <6>2. e \notin CreditedBy(x, n)
            BY <2>1 DEF CreditedBy
          <6>3. Sum(Amount, CreditedBy(x, n) \cup {e}) = Amount[e] + Sum(Amount, CreditedBy(x, n))
            <7>1. Amount[e] \in Int
              BY <2>2
            <7> QED BY <6>2, <7>1, CreditedFinite, SumAdd
          <6>4. CreditedAt(x, n)' = Amount[e] + CreditedAt(x, n)
            BY <6>1, <6>3 DEF CreditedAt
          <6> QED BY <2>2, <5>1, <5>2, <6>4
        <5>3. CASE ~(n - now <= Window)
          <6>1. CreditedBy(x, n)' = CreditedBy(x, n)
            BY <2>1, <5>3
          <6>2. CreditedAt(x, n)' = CreditedAt(x, n)
            BY <6>1 DEF CreditedAt
          <6> QED BY <5>1, <5>3, <6>2
        <5> QED BY <5>2, <5>3
      <4> QED BY <3>1, <3>3, <4>1, <4>2, <4>3
    <3> QED BY <3>2, <3>3
  <2>6. LogInv'
    BY <2>1, <2>5 DEF LogInv
  <2> QED BY <1>0, <1>1, <1>2, <2>4, <2>6 DEF LogType
<1> QED BY <1>3, <1>4, <1>5, LogSteps

-----------------------------------------------------------------------------
(* The caps. *)
CapInv    == \A w \in Wallet : CapBounded(w)
PayoutInv == \A w \in Wallet : UsedAt(payoutLog[w], now) <= CapLimit

(* A request takes up a credit, or whoever leads one has led it before.     *)
LEMMA RunnerSteps ==
    ASSUME Types, SlotInv, [Next]_vars
    PROVE  \/ \E e \in Event, t \in Slot : Lead(e, t)
           \/ \A u \in Slot : task'[u].pc \in LeadPcs /\ task'[u].src \in Event =>
                  task[u].pc \in LeadPcs /\ task'[u].src = task[u].src
<1> USE DEF chain, process, provider, budget
<1> DEFINE Old == \A u \in Slot : task'[u].pc \in LeadPcs /\ task'[u].src \in Event =>
                      task[u].pc \in LeadPcs /\ task'[u].src = task[u].src
<1>0. task \in [Slot -> TaskRec] /\ \A u \in Slot : task[u] \in TaskRec
  BY DEF Types, MemoryType
<1>1. ASSUME UNCHANGED task PROVE Old
  BY <1>1
<1>2. ASSUME NEW t \in Slot, NEW r, task' = [task EXCEPT ![t] = r],
             \/ r.src = task[t].src /\ task[t].pc \in LeadPcs
             \/ r.src \notin Event
             \/ r.pc \notin LeadPcs
      PROVE  Old
  <2>1. \A u \in Slot : task'[u] = IF u = t THEN r ELSE task[u]
    BY <1>0, <1>2
  <2> QED BY <1>2, <2>1
<1>3. ASSUME NEW T, Ends(T) PROVE Old
  <2>1. \A u \in Slot : task'[u] = task[u] \/ task'[u] = IdleTask
    BY <1>3, Freed DEF Ends, Types
  <2>2. IdleTask.pc \notin LeadPcs
    BY PcSets DEF IdleTask, LeadPcs, PastPcs, MintPcs
  <2> QED BY <2>1, <2>2
<1> HIDE DEF Old
<1>4. ASSUME NEW e \in Event, Checkout(e) \/ Pay(e) \/ Replay(e) \/ Reject(e) PROVE Old
  <2>1. UNCHANGED task
    BY <1>4 DEF Checkout, Pay, Replay, Reject
  <2> QED BY <1>1, <2>1
<1>5. ASSUME NEW e \in Event, NEW t \in Slot, Join(e, t) PROVE Old
  <2>1. task' = [task EXCEPT ![t] = [task[t] EXCEPT !.pc = "waiting", !.src = e]]
    BY <1>5 DEF Join
  <2>2. [task[t] EXCEPT !.pc = "waiting", !.src = e].pc \notin LeadPcs
    BY <1>0 DEF TaskRec, LeadPcs, PastPcs, MintPcs
  <2> QED BY <1>2, <2>1, <2>2
<1>6. ASSUME NEW t \in Slot, SupplyReturns(t) \/ Send(t) \/ Land(t) \/ RunReturns(t) PROVE Old
  <2>1. task[t].pc \in LeadPcs
    BY <1>6 DEF SupplyReturns, Send, Land, RunReturns, BothRead, LeadPcs, PastPcs, MintPcs
  <2>2. CASE SupplyReturns(t)
    <3>1. [task[t] EXCEPT !.supplySeen = supply].src = task[t].src
      BY <1>0 DEF TaskRec
    <3>2. task' = [task EXCEPT ![t] = [task[t] EXCEPT !.supplySeen = supply]]
      BY <2>2 DEF SupplyReturns
    <3> QED BY <1>2, <2>1, <3>1, <3>2
  <2>3. CASE Send(t) \/ Land(t) \/ RunReturns(t)
    <3>1. \A pc : [task[t] EXCEPT !.pc = pc].src = task[t].src
      BY <1>0 DEF TaskRec
    <3>2. \E pc : task' = [task EXCEPT ![t] = [task[t] EXCEPT !.pc = pc]]
      BY <2>3 DEF Send, Land, RunReturns
    <3> QED BY <1>2, <2>1, <3>1, <3>2
  <2> QED BY <1>6, <2>2, <2>3
<1>7. ASSUME NEW t \in Slot, CreditReserve(t) PROVE Old
  <2>1. \E x : task' = [task EXCEPT ![t] = Reading(task[t].src, x)]
    BY <1>7 DEF CreditReserve, StartReading, Reading
  <2>2. task[t].pc \in LeadPcs
    BY <1>7 DEF CreditReserve, LeadPcs
  <2>3. \A x : Reading(task[t].src, x).src = task[t].src
    BY DEF Reading
  <2> QED BY <1>2, <2>1, <2>2, <2>3
<1>8. ASSUME NEW t \in Slot, NEW credit \in BOOLEAN, AdminWrap(t, credit) PROVE Old
  <2>1. \E x : task' = [task EXCEPT ![t] = Reading(Admin, x)]
    BY <1>8 DEF AdminWrap, StartReading, Reading
  <2>2. \A x : Reading(Admin, x).src \notin Event
    BY EventAssumption DEF Reading
  <2> QED BY <1>2, <2>1, <2>2
<1>9. ASSUME NEW t \in Slot, Credit(t) \/ AdminWrapReturns(t) \/ InvariantViolation(t) \/ RpcFails(t)
                             \/ ReserveRejects(t)
      PROVE  Old
  BY <1>3, <1>9, EndsAre
<1>10. ASSUME SeedFails PROVE Old
  <2> DEFINE T == {t \in Slot : AwaitsSeed(t)}
  <2>1. Ends(T)
    BY <1>10, EndsAre
  <2> HIDE DEF T
  <2> QED BY <1>3, <2>1
<1>11. ASSUME SeedReturns PROVE Old
  <2>1. \A u \in Slot : task'[u].src = task[u].src /\ task'[u].pc = task[u].pc
    BY <1>0, <1>11 DEF SeedReturns, AwaitsSeed, TaskRec
  <2> QED BY <2>1 DEF Old
<1>12. ASSUME \/ \E s \in Source : OrphanLands(s) \/ OrphanDropped(s)
              \/ \E w \in Wallet : Payout(w, AdminAmount)
              \/ AdminCredit \/ InvariantRoute \/ Tick \/ UNCHANGED vars
       PROVE  Old
  <2>1. UNCHANGED task
    BY <1>12 DEF OrphanLands, OrphanDropped, Payout, AdminCredit, InvariantRoute, Tick, vars
  <2> QED BY <1>1, <2>1
<1>13. ASSUME Crash PROVE Old
  <2>1. \A u \in Slot : task'[u] = IdleTask
    BY <1>13 DEF Crash
  <2>2. IdleTask.pc \notin LeadPcs
    BY PcSets DEF IdleTask, LeadPcs, PastPcs, MintPcs
  <2> QED BY <2>1, <2>2 DEF Old
<1>14. Old \/ \E e \in Event, t \in Slot : Lead(e, t)
  <2>1. ASSUME NEW e \in Event, Checkout(e) \/ Pay(e) \/ Deliver(e)
        PROVE  Old \/ \E t \in Slot : Lead(e, t)
    BY <1>4, <1>5, <2>1 DEF Deliver
  <2>2. ASSUME NEW t \in Slot, Progress(t) \/ RpcFails(t) \/ \E credit \in BOOLEAN : AdminWrap(t, credit)
        PROVE  Old
    BY <1>6, <1>7, <1>8, <1>9, <2>2 DEF Progress
  <2>3. ASSUME Next PROVE Old \/ \E e \in Event, t \in Slot : Lead(e, t)
    BY <1>10, <1>11, <1>12, <1>13, <2>1, <2>2, <2>3 DEF Next
  <2>4. ASSUME UNCHANGED vars PROVE Old
    BY <1>12, <2>4
  <2> QED BY <2>3, <2>4
<1> QED BY <1>14 DEF Old

(* Whoever leads a credit carries no more than the largest amount. *)
LEMMA RunnersType ==
    ASSUME NEW w
    PROVE  /\ Runners(w) \in SUBSET Slot
           /\ \A t \in Runners(w) :
                 /\ Runners(w) \ {t} \in SUBSET Slot
                 /\ Amount[task[t].src] \in Nat /\ Amount[task[t].src] <= LargestAmount
                 /\ Load(Runners(w) \ {t}) \in Nat
                 /\ Load(Runners(w)) = Load(Runners(w) \ {t}) + LargestAmount
                 /\ Load(Runners(w)) \in Nat
<1>1. Runners(w) \in SUBSET Slot
  BY DEF Runners
<1>2. ASSUME NEW t \in Runners(w)
      PROVE  /\ Runners(w) \ {t} \in SUBSET Slot
             /\ Amount[task[t].src] \in Nat /\ Amount[task[t].src] <= LargestAmount
             /\ Load(Runners(w) \ {t}) \in Nat
             /\ Load(Runners(w)) = Load(Runners(w) \ {t}) + LargestAmount
             /\ Load(Runners(w)) \in Nat
  <2>1. Runners(w) \ {t} \in SUBSET Slot /\ task[t].src \in Event
    BY DEF Runners
  <2> QED BY <1>1, <2>1, LargestType, LoadType, LoadOneLess
<1> QED BY <1>1, <1>2

(* Fewer credits under way, and no more credited: the bound stands.         *)
LEMMA CapSettles ==
    ASSUME NEW w, CapBounded(w), CreditedToday(w) \in Nat, CreditedToday(w)' \in Nat,
           CreditedToday(w)' <= CreditedToday(w),
           Runners(w)' \in SUBSET Runners(w), \A t \in Runners(w)' : task'[t].src = task[t].src
    PROVE  CapBounded(w)'
<1> PICK c, d : c = CreditedToday(w) /\ d = CreditedToday(w)'
  OBVIOUS
<1> PICK R : R = Runners(w)'
  OBVIOUS
<1>0. /\ c \in Nat /\ d \in Nat /\ d <= c /\ CapLimit \in Nat /\ Ahead \in Nat /\ LargestAmount \in Nat
      /\ CapLimit + Ahead \in Nat
  BY EventAssumption, LoadAhead, LargestType
<1>1. d <= CapLimit + Ahead
  <2>1. c <= CapLimit + Ahead
    BY DEF CapBounded
  <2> QED BY <1>0, <2>1
<1>2. ASSUME R # {}
      PROVE  \E t \in R : d + Amount[task'[t].src] + Load(R \ {t}) <= CapLimit + Ahead
  <2>0. R \in SUBSET Slot /\ Runners(w) \in SUBSET Slot /\ Runners(w) # {}
    BY <1>2, RunnersType
  <2>1. PICK t \in Runners(w) : c + Amount[task[t].src] + Load(Runners(w) \ {t}) <= CapLimit + Ahead
    BY <2>0 DEF CapBounded
  <2>2. /\ Amount[task[t].src] \in Nat /\ Load(Runners(w) \ {t}) \in Nat
        /\ Runners(w) \ {t} \in SUBSET Slot
    BY RunnersType
  <2>3. CASE t \in R
    <3>1. Load(R \ {t}) <= Load(Runners(w) \ {t}) /\ Load(R \ {t}) \in Nat
      <4>1. R \ {t} \in SUBSET (Runners(w) \ {t}) /\ R \ {t} \in SUBSET Slot
        BY <2>0
      <4> QED BY <2>2, <4>1, LoadMonotone, LoadType
    <3>2. d + Amount[task[t].src] + Load(R \ {t}) <= CapLimit + Ahead
      BY <1>0, <2>1, <2>2, <3>1
    <3>3. task'[t].src = task[t].src
      BY <2>3
    <3> QED BY <2>3, <3>2, <3>3
  <2>4. CASE t \notin R
    <3>1. PICK u : u \in R
      BY <1>2
    <3>2. /\ Amount[task[u].src] \in Nat /\ Amount[task[u].src] <= LargestAmount
          /\ task'[u].src = task[u].src
      BY <3>1, RunnersType
    <3>3. Load(R) <= Load(Runners(w) \ {t}) /\ Load(R) = Load(R \ {u}) + LargestAmount
          /\ Load(R \ {u}) \in Nat /\ Load(R) \in Nat
      <4>1. R \in SUBSET (Runners(w) \ {t}) /\ R \ {u} \in SUBSET Slot
        BY <2>0, <2>4
      <4> QED BY <2>0, <2>2, <3>1, <4>1, LoadMonotone, LoadType, LoadOneLess
    <3>4. d + Amount[task[u].src] + Load(R \ {u}) <= CapLimit + Ahead
      BY <1>0, <2>1, <2>2, <3>2, <3>3
    <3> QED BY <3>1, <3>2, <3>4
  <2> QED BY <2>3, <2>4
<1> QED BY <1>1, <1>2 DEF CapBounded

(* A credit is taken up within the cap, whoever else is under way.          *)
LEMMA CapLeads ==
    ASSUME Types, NEW e \in Event, NEW t \in Slot, Lead(e, t), NEW w,
           CapBounded(w), CreditedToday(w) \in Nat, CreditedToday(w)' = CreditedToday(w),
           w = WalletOf[e] => CreditedToday(w) + Amount[e] <= CapLimit
    PROVE  CapBounded(w)'
<1>1. /\ task' = [task EXCEPT ![t] = [task[t] EXCEPT !.pc = "treasury", !.src = e]]
      /\ task \in [Slot -> TaskRec] /\ task[t] \in TaskRec
  BY DEF Lead, Types, MemoryType
<1>2. /\ task'[t].pc = "treasury" /\ task'[t].src = e
      /\ \A u \in Slot : u # t => task'[u] = task[u]
  BY <1>1 DEF TaskRec
<1>3. CASE w # WalletOf[e]
  <2>1. Runners(w)' \in SUBSET Runners(w) /\ \A u \in Runners(w)' : task'[u].src = task[u].src
    BY <1>2, <1>3 DEF Runners
  <2>2. CreditedToday(w)' <= CreditedToday(w)
    OBVIOUS
  <2> QED BY <2>1, <2>2, CapSettles
<1>4. CASE w = WalletOf[e]
  <2> PICK c : c = CreditedToday(w)
    OBVIOUS
  <2> PICK R : R = Runners(w)'
    OBVIOUS
  <2>1. t \in R
    BY <1>2, <1>4 DEF Runners, LeadPcs
  <2>2. R \ {t} \in SUBSET (Slot \ {t}) /\ R \ {t} \in SUBSET Slot
    BY DEF Runners
  <2>3. Load(R \ {t}) <= Ahead /\ Load(R \ {t}) \in Nat
    BY <2>2, LoadAhead, LoadType
  <2>4. c + Amount[e] <= CapLimit /\ c \in Nat /\ Amount[e] \in Nat /\ CapLimit \in Nat /\ Ahead \in Nat
    BY <1>4, EventAssumption, LoadAhead
  <2>5. c + Amount[e] + Load(R \ {t}) <= CapLimit + Ahead /\ c <= CapLimit + Ahead
    BY <2>3, <2>4
  <2> QED BY <1>2, <2>1, <2>5 DEF CapBounded
<1> QED BY <1>3, <1>4

(* A credit comes through: it was one of those under way.                   *)
LEMMA CapCredits ==
    ASSUME Types, NEW t \in Slot, NEW w, t \in Runners(w), CapBounded(w),
           CreditedToday(w) \in Nat, CreditedToday(w)' <= CreditedToday(w) + Amount[task[t].src],
           CreditedToday(w)' \in Nat,
           Runners(w)' \in SUBSET (Runners(w) \ {t}), \A u \in Runners(w)' : task'[u].src = task[u].src
    PROVE  CapBounded(w)'
<1> PICK c, d, a : c = CreditedToday(w) /\ d = CreditedToday(w)' /\ a = Amount[task[t].src]
  OBVIOUS
<1> PICK R : R = Runners(w)'
  OBVIOUS
<1> PICK P : P = Runners(w)
  OBVIOUS
<1>0. /\ c \in Nat /\ d \in Nat /\ a \in Nat /\ a <= LargestAmount /\ d <= c + a
      /\ CapLimit \in Nat /\ Ahead \in Nat /\ LargestAmount \in Nat /\ CapLimit + Ahead \in Nat
  <2>1. a \in Nat /\ a <= LargestAmount
    BY RunnersType
  <2>2. CapLimit \in Nat /\ Ahead \in Nat /\ LargestAmount \in Nat
    BY EventAssumption, LoadAhead, LargestType
  <2> QED BY <2>1, <2>2
<1>1. PICK v \in P : c + Amount[task[v].src] + Load(P \ {v}) <= CapLimit + Ahead
  BY DEF CapBounded
<1>2. /\ P \in SUBSET Slot /\ P \ {v} \in SUBSET Slot /\ P \ {t} \in SUBSET Slot /\ R \in SUBSET (P \ {t})
      /\ t \in P /\ R \in SUBSET Slot
  BY RunnersType
<1>3. /\ Amount[task[v].src] \in Nat /\ Amount[task[v].src] <= LargestAmount /\ Load(P \ {v}) \in Nat
      /\ Load(P \ {t}) \in Nat
      /\ Load(P) = Load(P \ {v}) + LargestAmount /\ Load(P) = Load(P \ {t}) + LargestAmount
  BY <1>2, RunnersType, LoadType
(* The amount that came through leaves room for what the others carry. *)
<1>4. ASSUME v # t PROVE d + Amount[task[v].src] + Load((P \ {t}) \ {v}) <= CapLimit + Ahead
  <2>1. /\ t \in P \ {v} /\ (P \ {v}) \ {t} = (P \ {t}) \ {v} /\ (P \ {t}) \ {v} \in SUBSET Slot
    BY <1>2, <1>4
  <2>2. Load(P \ {v}) = Load((P \ {t}) \ {v}) + LargestAmount /\ Load((P \ {t}) \ {v}) \in Nat
    BY <1>2, <2>1, LoadOneLess, LoadType
  <2> QED BY <1>0, <1>1, <1>3, <2>2
<1>5. d <= CapLimit + Ahead
  <2>1. CASE v = t
    BY <1>0, <1>1, <1>3, <2>1
  <2>2. CASE v # t
    <3>1. (P \ {t}) \ {v} \in SUBSET Slot
      BY <1>2
    <3>2. Load((P \ {t}) \ {v}) \in Nat
      BY <3>1, LoadType
    <3> QED BY <1>0, <1>3, <1>4, <2>2, <3>2
  <2> QED BY <2>1, <2>2
<1>6. ASSUME R # {}
      PROVE  \E u \in R : d + Amount[task'[u].src] + Load(R \ {u}) <= CapLimit + Ahead
  <2>1. CASE v \in R
    <3>1. v # t /\ task'[v].src = task[v].src
      BY <1>2, <2>1
    <3>2. Load(R \ {v}) <= Load((P \ {t}) \ {v}) /\ Load(R \ {v}) \in Nat /\ Load((P \ {t}) \ {v}) \in Nat
      <4>1. /\ R \ {v} \in SUBSET ((P \ {t}) \ {v}) /\ (P \ {t}) \ {v} \in SUBSET Slot
            /\ R \ {v} \in SUBSET Slot
        BY <1>2
      <4> QED BY <4>1, LoadMonotone, LoadType
    <3>3. d + Amount[task[v].src] + Load(R \ {v}) <= CapLimit + Ahead
      BY <1>0, <1>3, <1>4, <3>1, <3>2
    <3> QED BY <2>1, <3>1, <3>3
  <2>2. CASE v \notin R
    <3>1. PICK u : u \in R
      BY <1>6
    <3>2. /\ Amount[task[u].src] \in Nat /\ Amount[task[u].src] <= LargestAmount
          /\ task'[u].src = task[u].src
      BY <3>1, RunnersType
    <3>3. Load(R) = Load(R \ {u}) + LargestAmount /\ Load(R \ {u}) \in Nat /\ Load(R) \in Nat
      <4>1. R \ {u} \in SUBSET Slot
        BY <1>2
      <4> QED BY <1>2, <3>1, <4>1, LoadOneLess, LoadType
    <3>4. CASE v = t
      <4>1. Load(R) <= Load(P \ {t})
        BY <1>2, LoadMonotone
      <4>2. d + Amount[task[u].src] + Load(R \ {u}) <= CapLimit + Ahead
        BY <1>0, <1>1, <1>3, <3>2, <3>3, <3>4, <4>1
      <4> QED BY <3>1, <3>2, <4>2
    <3>5. CASE v # t
      <4>1. R \in SUBSET ((P \ {t}) \ {v}) /\ (P \ {t}) \ {v} \in SUBSET Slot
        BY <1>2, <2>2
      <4>2. Load(R) <= Load((P \ {t}) \ {v}) /\ Load((P \ {t}) \ {v}) \in Nat
        BY <4>1, LoadMonotone, LoadType
      <4>3. d + Amount[task[u].src] + Load(R \ {u}) <= CapLimit + Ahead
        BY <1>0, <1>3, <1>4, <3>2, <3>3, <3>5, <4>2
      <4> QED BY <3>1, <3>2, <4>3
    <3> QED BY <3>4, <3>5
  <2> QED BY <2>1, <2>2
<1> QED BY <1>5, <1>6 DEF CapBounded

(* As time passes, a log counts less and less. *)
LEMMA UsedDrops ==
    ASSUME NEW log \in Log, NEW m \in Nat, NEW n \in Nat, m <= n
    PROVE  UsedAt(log, m) \in Nat /\ UsedAt(log, n) \in Nat /\ UsedAt(log, n) <= UsedAt(log, m)
<1>1. Recent(n) \in SUBSET Recent(m)
  <2> SUFFICES ASSUME NEW i \in Recent(n) PROVE i \in Recent(m)
    OBVIOUS
  <2>1. i \in Instant /\ i \in Nat /\ n - i <= Window /\ Window \in Nat
    BY EventAssumption, InstantsFinite DEF Recent
  <2>2. m - i <= Window
    BY <2>1
  <2> QED BY <2>1, <2>2 DEF Recent
<1>2. \A k : IsFiniteSet(Recent(k)) /\ \A i \in Recent(k) : log[i] \in Nat
  BY InstantsFinite DEF Log
<1>3. UsedAt(log, m) \in Nat /\ UsedAt(log, n) \in Nat
  BY <1>2, SumNat DEF UsedAt
<1>4. UsedAt(log, n) <= UsedAt(log, m)
  BY <1>1, <1>2, SumMonotone DEF UsedAt
<1> QED BY <1>3, <1>4

LEMMA CreditsDrop ==
    ASSUME LogType, LogType', NEW w, CreditedBy(w, now)' \in SUBSET CreditedBy(w, now)
    PROVE  /\ CreditedToday(w) \in Nat /\ CreditedToday(w)' \in Nat
           /\ CreditedToday(w)' <= CreditedToday(w)
<1>1. CreditedToday(w) = CreditedAt(w, now) /\ CreditedToday(w)' = CreditedAt(w, now)'
  BY CreditedTodayIsSum, CreditedTodayIsSumNext
<1> PICK S, R : S = CreditedBy(w, now) /\ R = CreditedBy(w, now)'
  OBVIOUS
<1>2. /\ IsFiniteSet(S) /\ R \in SUBSET S /\ IsFiniteSet(R)
      /\ \A e \in S : Amount[e] \in Nat
  BY CreditedFinite, FS_Subset
<1>3. Sum(Amount, R) <= Sum(Amount, S) /\ Sum(Amount, R) \in Nat /\ Sum(Amount, S) \in Nat
  BY <1>2, SumMonotone, SumNat
<1>4. CreditedAt(w, now) = Sum(Amount, S) /\ CreditedAt(w, now)' = Sum(Amount, R)
  BY DEF CreditedAt
<1> QED BY <1>1, <1>3, <1>4

LEMMA CapKeeps ==
    ASSUME Types, SlotInv, LogType, LogType', LogInv, CapInv, [Next]_vars
    PROVE  CapInv'
<1> SUFFICES ASSUME NEW w \in Wallet PROVE CapBounded(w)'
  BY DEF CapInv
<1>0. /\ CapBounded(w) /\ now \in Nat /\ now' \in Nat /\ now <= now' /\ now <= now
      /\ Window \in Nat
  BY LogSteps, InstantsFinite, EventAssumption DEF CapInv, LogType
<1> DEFINE Old == \A u \in Slot : task'[u].pc \in LeadPcs /\ task'[u].src \in Event =>
                      task[u].pc \in LeadPcs /\ task'[u].src = task[u].src
<1>1. ASSUME NEW e \in Event, NEW t \in Slot, Lead(e, t) PROVE CapBounded(w)'
  <2>1. now' = now /\ credits' = credits /\ CapAllows(capLog[WalletOf[e]], Amount[e])
    BY <1>1 DEF Lead
  <2>2. CreditedBy(w, now)' = CreditedBy(w, now)
    BY <2>1 DEF CreditedBy, Credited
  <2>3. CreditedToday(w) \in Nat
    BY <2>2, CreditsDrop
  <2>4. CreditedToday(w)' = CreditedToday(w)
    <3>1. CreditedAt(w, now)' = CreditedAt(w, now)
      BY <2>2 DEF CreditedAt
    <3> QED BY <3>1, CreditedTodayIsSum, CreditedTodayIsSumNext
  <2>5. ASSUME w = WalletOf[e] PROVE CreditedToday(w) + Amount[e] <= CapLimit
    <3>1. CreditedToday(w) = UsedAt(capLog[w], now)
      BY <1>0, CreditedTodayIsSum DEF LogInv
    <3>2. Used(capLog[w]) = UsedAt(capLog[w], now)
      BY UsedIsSum
    <3> QED BY <2>1, <2>5, <3>1, <3>2 DEF CapAllows
  <2> QED BY <1>0, <1>1, <2>3, <2>4, <2>5, CapLeads
<1>2. ASSUME Old, NEW t \in Slot, Credit(t) PROVE CapBounded(w)'
  <2>1. PICK e \in Event :
              /\ e = task[t].src /\ task[t].pc \in LeadPcs /\ now' = now /\ ~Credited(e)
              /\ \A n : CreditedBy(WalletOf[e], n)' = CreditedBy(WalletOf[e], n)
                                          \cup (IF n - now <= Window THEN {e} ELSE {})
              /\ \A v, n : v # WalletOf[e] => CreditedBy(v, n)' = CreditedBy(v, n)
    BY <1>2, CreditRecords
  <2>2. Runners(w)' \in SUBSET Runners(w) /\ \A u \in Runners(w)' : task'[u].src = task[u].src
    BY <1>2 DEF Runners
  <2>3. CASE w # WalletOf[e]
    <3>1. CreditedBy(w, now)' = CreditedBy(w, now)
      BY <2>1, <2>3
    <3>2. /\ CreditedToday(w) \in Nat /\ CreditedToday(w)' \in Nat
          /\ CreditedToday(w)' <= CreditedToday(w)
      BY <3>1, CreditsDrop
    <3> QED BY <1>0, <2>2, <3>2, CapSettles
  <2>4. CASE w = WalletOf[e]
    <3>1. t \in Runners(w)
      BY <2>1, <2>4 DEF Runners
    <3>2. t \notin Runners(w)'
      <4>1. Ends({t})
        BY <1>2, EndsAre
      <4>2. task'[t] = IdleTask
        BY <2>1, <4>1, Freed DEF Ends, Types
      <4> QED BY <4>2 DEF Runners, IdleTask, LeadPcs, PastPcs, MintPcs
    <3>3. CreditedBy(w, now)' = CreditedBy(w, now) \cup {e} /\ e \notin CreditedBy(w, now)
      <4>1. now - now <= Window
        BY <1>0
      <4>2. CreditedBy(w, now)' = CreditedBy(w, now) \cup {e}
        <5>1. \A n : n - now <= Window => CreditedBy(w, n)' = CreditedBy(w, n) \cup {e}
          BY <2>1, <2>4
        <5> PICK n : n = now
          OBVIOUS
        <5>2. CreditedBy(w, n)' = CreditedBy(w, n) \cup {e}
          BY <4>1, <5>1
        <5>3. CreditedBy(w, now)' = CreditedBy(w, n)'
          BY <2>1 DEF CreditedBy
        <5> QED BY <5>2, <5>3
      <4> QED BY <2>1, <4>2 DEF CreditedBy
    <3>4. CreditedAt(w, now)' = Amount[e] + CreditedAt(w, now)
      <4> PICK S : S = CreditedBy(w, now)
        OBVIOUS
      <4>1. IsFiniteSet(S) /\ e \notin S /\ \A d \in S : Amount[d] \in Int
        BY <3>3, CreditedFinite
      <4>2. Amount[e] \in Int
        BY LargestType
      <4>3. Sum(Amount, S \cup {e}) = Amount[e] + Sum(Amount, S)
        BY <4>1, <4>2, SumAdd
      <4> QED BY <3>3, <4>3 DEF CreditedAt
    <3>5. CreditedToday(w) = CreditedAt(w, now) /\ CreditedToday(w)' = CreditedAt(w, now)'
      BY CreditedTodayIsSum, CreditedTodayIsSumNext
    <3>6. /\ CreditedToday(w) \in Nat /\ CreditedToday(w)' \in Nat
          /\ CreditedToday(w)' <= CreditedToday(w) + Amount[task[t].src]
      <4> PICK c, d, a : c = CreditedAt(w, now) /\ d = CreditedAt(w, now)' /\ a = Amount[e]
        OBVIOUS
      <4>1. c \in Nat /\ a \in Nat /\ d = a + c
        BY <3>4, CreditedFinite, LargestType
      <4>2. d \in Nat /\ d <= c + a
        BY <4>1
      <4> QED BY <2>1, <3>5, <4>1, <4>2
    <3>7. Runners(w)' \in SUBSET (Runners(w) \ {t})
      BY <2>2, <3>2
    <3> QED BY <1>0, <2>2, <3>1, <3>6, <3>7, CapCredits
  <2> QED BY <2>3, <2>4
<1>3. ASSUME Old, CreditedBy(w, now)' \in SUBSET CreditedBy(w, now) PROVE CapBounded(w)'
  <2>1. Runners(w)' \in SUBSET Runners(w) /\ \A u \in Runners(w)' : task'[u].src = task[u].src
    BY <1>3 DEF Runners
  <2>2. /\ CreditedToday(w) \in Nat /\ CreditedToday(w)' \in Nat
        /\ CreditedToday(w)' <= CreditedToday(w)
    BY <1>3, CreditsDrop
  <2> QED BY <1>0, <2>1, <2>2, CapSettles
<1>4. ASSUME Crash PROVE CreditedBy(w, now)' \in SUBSET CreditedBy(w, now)
  BY <1>4 DEF Crash, CreditedBy, Credited
<1>5. ASSUME /\ \A e \in Event : Credited(e)' <=> Credited(e)
             /\ \A e \in Event : Credited(e) => credits'[e] = credits[e]
      PROVE  CreditedBy(w, now)' \in SUBSET CreditedBy(w, now)
  <2> SUFFICES ASSUME NEW e \in CreditedBy(w, now)' PROVE e \in CreditedBy(w, now)
    OBVIOUS
  <2>1. e \in Event /\ WalletOf[e] = w /\ Credited(e) /\ now' - credits[e].at <= Window
    BY <1>5 DEF CreditedBy
  <2>2. credits[e].at \in Nat
    BY <2>1 DEF Credited, Types, MemoryType
  <2>3. now - credits[e].at <= Window
    BY <1>0, <2>1, <2>2
  <2> QED BY <2>1, <2>3 DEF CreditedBy
<1> HIDE DEF Old
<1>6. (\E e \in Event, t \in Slot : Lead(e, t)) \/ Old
  BY RunnerSteps DEF Old
<1> QED BY <1>1, <1>2, <1>3, <1>4, <1>5, <1>6, LogSteps

LEMMA PayoutKeeps ==
    ASSUME Types, SlotInv, LogType, LogType', PayoutInv, [Next]_vars
    PROVE  PayoutInv'
<1> SUFFICES ASSUME NEW w \in Wallet PROVE UsedAt(payoutLog'[w], now') <= CapLimit
  BY DEF PayoutInv, UsedAt, Recent, Instant
<1>0. /\ now \in Nat /\ now' \in Nat /\ now <= now' /\ now <= now /\ now \in Instant
      /\ payoutLog[w] \in Log /\ UsedAt(payoutLog[w], now) <= CapLimit
      /\ CapLimit \in Nat /\ AdminAmount \in Nat /\ Window \in Nat
  BY LogSteps, InstantsFinite, EventAssumption DEF PayoutInv, LogType
<1>1. CASE payoutLog'[w] = payoutLog[w]
  <2>1. /\ UsedAt(payoutLog[w], now') <= UsedAt(payoutLog[w], now)
        /\ UsedAt(payoutLog[w], now') \in Nat /\ UsedAt(payoutLog[w], now) \in Nat
    BY <1>0, UsedDrops
  <2>2. UsedAt(payoutLog[w], now') <= CapLimit
    BY <1>0, <2>1
  <2> QED BY <1>1, <2>2
<1>2. CASE Crash
  <2>1. payoutLog'[w] = NoEntries
    BY <1>2 DEF Crash
  <2>2. UsedAt(NoEntries, now') = 0
    BY NothingRecorded
  <2> QED BY <1>0, <2>1, <2>2
<1>3. ASSUME Payout(w, AdminAmount) PROVE UsedAt(payoutLog'[w], now') <= CapLimit
  <2>1. /\ payoutLog'[w] = Recorded(payoutLog[w], AdminAmount) /\ now' = now
        /\ Used(payoutLog[w]) + AdminAmount <= CapLimit
    BY <1>3 DEF Payout, CapAllows, LogType
  <2>2. Used(payoutLog[w]) = UsedAt(payoutLog[w], now)
    BY UsedIsSum
  <2>3. /\ UsedAt(Recorded(payoutLog[w], AdminAmount), now)
               = UsedAt(payoutLog[w], now) + (IF now - now <= Window THEN AdminAmount ELSE 0)
        /\ UsedAt(payoutLog[w], now) \in Nat
    BY <1>0, RecordedCounts
  <2>4. now - now <= Window
    BY <1>0
  <2> QED BY <1>0, <2>1, <2>2, <2>3, <2>4
<1>4. ASSUME NEW v \in Wallet, Payout(v, AdminAmount), v # w PROVE payoutLog'[w] = payoutLog[w]
  BY <1>4 DEF Payout, LogType
<1> QED BY <1>1, <1>2, <1>3, <1>4, LogSteps

(* What bounds the requests in flight: the window's logs agree with the     *)
(* credits, every credit under way has room for the others, and every wrap  *)
(* that has read the supply has the headroom it saw but for the others.     *)
OvershootInv == LogType /\ LogInv /\ CapInv /\ PayoutInv /\ PegInv

LEMMA OvershootStart == Init => OvershootInv
<1> SUFFICES ASSUME Init PROVE OvershootInv
  OBVIOUS
<1>1. LogType
  <2>1. now = 0 /\ 0 \in Instant /\ faults = 0
    BY EventAssumption DEF Init, Instant
  <2> QED BY <2>1, NothingRecorded DEF Init, LogType
<1>2. \A w, n : CreditedBy(w, n) = {}
  BY DEF Init, CreditedBy, Credited
<1>3. \A w, n : CreditedAt(w, n) = 0
  BY <1>2, SumEmpty DEF CreditedAt
<1>4. LogInv /\ PayoutInv
  BY <1>3, NothingRecorded, EventAssumption DEF Init, LogInv, PayoutInv
<1>5. CapInv
  <2> SUFFICES ASSUME NEW w \in Wallet PROVE CapBounded(w)
    BY DEF CapInv
  <2>1. CreditedToday(w) = 0
    BY <1>3, CreditedTodayIsSum
  <2>2. Runners(w) = {}
    BY DEF Init, Runners, IdleTask, LeadPcs, PastPcs, MintPcs
  <2>3. 0 <= CapLimit + Ahead
    BY EventAssumption, LoadAhead
  <2> QED BY <2>1, <2>2, <2>3 DEF CapBounded
<1>6. PegInv
  <2>1. NoneOrphaned /\ PegBounded
    BY DEF Init, NoneOrphaned, PegBounded
  <2>2. \A t \in Slot : Reads(t) /\ ~Pending(t)
    BY DEF Init, IdleTask, Reads, Pending
  <2> QED BY <2>1, <2>2 DEF PegInv, Pegged
<1> QED BY <1>1, <1>4, <1>5, <1>6 DEF OvershootInv

(* The peg, the cap and the payouts: a mint in flight hides from the reads  *)
(* of the others (treasury.ts, wrap: checks, then awaits) and a credit      *)
(* under way from the cap (onramp.ts, creditEvent), so both can be outrun,  *)
(* but by no more than what the other requests carry at once, however many  *)
(* requests come one after another; a payout is checked and recorded in one *)
(* stretch (offramp.ts), and its cap is exact.                              *)
THEOREM OvershootsAreBounded == Spec => []OvershootBounded
<1>1. Init => OvershootInv
  BY OvershootStart
<1>2. OnrampInv /\ OnrampInv' /\ OvershootInv /\ [Next]_vars => OvershootInv'
  <2> SUFFICES ASSUME OnrampInv, OnrampInv', OvershootInv, [Next]_vars PROVE OvershootInv'
    OBVIOUS
  <2>1. Types /\ Types' /\ SlotInv /\ SlotInv' /\ LogType /\ LogInv /\ CapInv /\ PayoutInv /\ PegInv
    BY DEF OnrampInv, OvershootInv
  <2>2. LogType' /\ LogInv'
    BY <2>1, LogKeeps
  <2>3. CapInv' /\ PayoutInv'
    BY <2>1, <2>2, CapKeeps, PayoutKeeps
  <2>4. PegInv'
    BY <2>1, PegKeeps DEF LogType
  <2> QED BY <2>2, <2>3, <2>4 DEF OvershootInv
<1>3. OvershootInv => OvershootBounded
  <2> SUFFICES ASSUME OvershootInv PROVE OvershootBounded
    OBVIOUS
  <2>1. faults = 0 /\ crashes = 0 /\ seeding = "done" => supply <= mockReserve + Ahead
    BY DEF OvershootInv, PegInv, Pegged, PegBounded
  <2>2. \A w \in Wallet : CreditedToday(w) <= CapLimit + Ahead
    BY DEF OvershootInv, CapInv, CapBounded
  <2>3. \A w \in Wallet : PaidOutToday(w) <= CapLimit
    BY UsedIsSum DEF OvershootInv, PayoutInv, PaidOutToday
  <2> QED BY <2>1, <2>2, <2>3 DEF OvershootBounded
<1> QED BY <1>1, <1>2, <1>3, OnrampInvariant, PTL DEF Spec
=============================================================================
