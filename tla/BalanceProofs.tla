--------------------------- MODULE BalanceProofs ---------------------------
(***************************************************************************)
(* Proofs about Balance, for any number of calls, any amounts and any      *)
(* number of faults.                                                       *)
(***************************************************************************)
EXTENDS Balance, SequenceTheorems, TLAPS

(* The work under the lock. *)
Locked == {"create", "read", "deposit", "apply", "ready"}
Pc     == {"idle", "open", "balance", "queued", "check", "pay"} \cup Locked

(* A call as it is as long as nothing was disturbed. *)
SeenRecord == [pending : Nat, applied : Nat, rents : Nat, funded : BOOLEAN]
CallRecord == [pc : Pc, amount : Nat, tx : {"none", "flying", "landed", "rejected"},
               hung : BOOLEAN, heard : BOOLEAN, had : Nat, back : Nat, seen : SeenRecord]

Typed ==
    /\ configured \in BOOLEAN /\ funded \in BOOLEAN
    /\ public \in Nat /\ pending \in Nat /\ available \in Nat
    /\ applied \in Nat /\ rents \in Nat
    /\ topUps \in Seq(0 .. TopUp)
    /\ credited \subseteq DOMAIN topUps
    /\ DOMAIN strays = {}
    /\ task \in [Task -> CallRecord] /\ queue \in Seq(Task)
    /\ \A r \in Task : task[r].tx # "none" => task[r].pc \in Sends
    /\ inFlight \in Securing \cup {None}
    /\ need \in Nat \cup {None}
    /\ DOMAIN rent = {"says", "had"}

(* A card that shows anything shows a credited top-up. *)
Followed == card # "off" => shown \in credited

Sent(r) == task[r].tx = "landed"

(* Who works under the lock is its holder, so what r read still stands when *)
(* its transaction lands: nobody else sets the account up or moves money    *)
(* across.  Only fund_deposit can take public money that r was to move.     *)
Holds(r) == task[r].pc \in Locked => queue # <<>> /\ Head(queue) = r
Reads(r) ==
    /\ task[r].pc = "create" => (configured <=> Sent(r))
    /\ task[r].pc \in {"read", "deposit", "apply"} => configured /\ r \notin Enabling
    /\ task[r].pc = "deposit" /\ ~Sent(r) =>
           /\ ~funded => public >= task[r].amount + task[r].back
           /\ task[r].seen.funded => public >= task[r].amount

(* What a plan was made from is not of the future; an application only a    *)
(* payment can overtake, and a payment only an application.                 *)
Sees(r) ==
    /\ task[r].seen.applied <= applied /\ task[r].seen.rents <= rents
    /\ task[r].seen.funded => funded
    /\ task[r].tx = "flying" /\ task[r].pc = "apply" =>
           task[r].seen.pending = pending /\ task[r].seen.applied = applied
    /\ task[r].tx = "flying" /\ task[r].pc = "pay" => task[r].seen.rents = rents
    /\ task[r].tx = "rejected" =>
           \/ task[r].pc = "deposit" /\ funded /\ ~task[r].seen.funded
           \/ task[r].pc = "apply" /\ task[r].seen.rents < rents
           \/ task[r].pc = "pay" /\ task[r].seen.applied < applied

(* What r leaves public is what a credited top-up was to keep. *)
Keeps(r) ==
    r \in Securing /\ task[r].pc # "idle" => \E c \in credited : topUps[c] = task[r].back

(* Money is pending only between a deposit and its application. *)
Carries(r) == (task[r].pc = "deposit" /\ Sent(r)) \/ (task[r].pc = "apply" /\ ~Sent(r))
Carried    == pending # 0 => \E r \in Task : Carries(r)

(* The money of a tenant who pays: what there was when the payment began is *)
(* still there, ever more of it available.                                  *)
Worth(r) ==
    /\ task[r].pc \in {"open", "balance", "queued", "create", "read"} =>
           task[r].had <= public + pending + available
    /\ task[r].pc = "deposit" /\ ~Sent(r) => task[r].had <= task[r].amount + pending + available
    /\ Carries(r) => task[r].had <= pending + available
    /\ (task[r].pc = "apply" /\ Sent(r)) \/ task[r].pc \in {"ready", "check"} =>
           task[r].had <= available
    /\ task[r].pc = "pay" /\ ~Sent(r) => available >= Rent
Pays(r) ==
    /\ task[r].pc \in {"balance", "check", "pay"} => r \in Paying
    /\ r \in Paying /\ task[r].pc # "idle" =>
           /\ funded /\ task[r].heard /\ task[r].back = 0
           /\ rent.says = "paying" /\ rent.had = task[r].had
           /\ Worth(r)

OnePayment ==
    \A r, s \in Paying : task[r].pc # "idle" /\ task[s].pc # "idle" => r = s

Undisturbed ==
    /\ Typed /\ OnePayment /\ Carried /\ HoldbackKept /\ RefusedWhenShort /\ Followed
    /\ \A r \in Task : Holds(r) /\ Reads(r) /\ Sees(r) /\ Keeps(r) /\ Pays(r)

BalanceInv == ~disturbed => Undisturbed

-----------------------------------------------------------------------------
LEMMA CallAt ==
    ASSUME Typed, NEW r \in Task
    PROVE  /\ task[r] \in CallRecord /\ task[r].pc \in Pc /\ task[r].amount \in Nat
           /\ task[r].tx \in {"none", "flying", "landed", "rejected"} /\ task[r].had \in Nat
           /\ task[r].hung \in BOOLEAN /\ task[r].heard \in BOOLEAN /\ task[r].back \in Nat
           /\ task[r].seen \in SeenRecord
BY DEF Typed, CallRecord

LEMMA TasksApart ==
    /\ Securing \subseteq Task /\ Paying \subseteq Task /\ Enabling \subseteq Task
    /\ None \notin Task
    /\ \A r \in Paying : r \notin Securing /\ r \notin Enabling
    /\ \A r \in Securing : r \notin Enabling
BY BalanceAssumption DEF Task

(* One call moves on: its record is the only one that changes. *)
LEMMA OneRecord ==
    ASSUME Typed, NEW r \in Task, NEW x \in CallRecord, task' = [task EXCEPT ![r] = x]
    PROVE  /\ task' \in [Task -> CallRecord] /\ task'[r] = x
           /\ \A s \in Task \ {r} : task'[s] = task[s]
BY DEF Typed

LEMMA BlankSeen ==
    /\ Blank \in SeenRecord /\ Blank.applied = 0 /\ Blank.rents = 0 /\ Blank.funded = FALSE
BY DEF Blank, SeenRecord

LEMMA ToRecord ==
    ASSUME Typed, NEW r \in Task, NEW pc \in Pc, To(r, pc)
    PROVE  /\ task' \in [Task -> CallRecord]
           /\ \A s \in Task \ {r} : task'[s] = task[s]
           /\ task'[r].pc = pc /\ task'[r].tx = "none" /\ task'[r].amount = task[r].amount
           /\ task'[r].hung = task[r].hung /\ task'[r].heard = task[r].heard
           /\ task'[r].had = task[r].had /\ task'[r].back = task[r].back /\ task'[r].seen = Blank
<1>1. PICK c \in CallRecord : c = task[r]
  BY CallAt
<1>2. PICK y : y = [c EXCEPT !.pc = pc]
  OBVIOUS
<1>3. /\ y \in CallRecord /\ y.pc = pc /\ y.amount = c.amount
      /\ y.hung = c.hung /\ y.heard = c.heard /\ y.had = c.had /\ y.back = c.back
  BY <1>1, <1>2 DEF CallRecord
<1>4. PICK z : z = [y EXCEPT !.tx = "none"]
  OBVIOUS
<1>5. /\ z \in CallRecord /\ z.pc = pc /\ z.tx = "none" /\ z.amount = c.amount
      /\ z.hung = c.hung /\ z.heard = c.heard /\ z.had = c.had /\ z.back = c.back
  BY <1>3, <1>4 DEF CallRecord
<1>6. PICK x : x = [z EXCEPT !.seen = Blank]
  OBVIOUS
<1>7. /\ x \in CallRecord /\ x.pc = pc /\ x.tx = "none" /\ x.amount = c.amount
      /\ x.hung = c.hung /\ x.heard = c.heard /\ x.had = c.had /\ x.back = c.back
      /\ x.seen = Blank
  BY <1>5, <1>6, BlankSeen DEF CallRecord
<1>8. task' = [task EXCEPT ![r] = x]
  BY <1>1, <1>2, <1>4, <1>6 DEF To, Typed
<1> QED BY <1>1, <1>7, <1>8, OneRecord

LEMMA IdleRecord ==
    ASSUME Typed, NEW r \in Task, task' = [task EXCEPT ![r] = Idle]
    PROVE  /\ task' \in [Task -> CallRecord]
           /\ \A s \in Task \ {r} : task'[s] = task[s]
           /\ task'[r].pc = "idle" /\ task'[r].tx = "none" /\ task'[r].seen = Blank
<1>1. Idle \in CallRecord /\ Idle.pc = "idle" /\ Idle.tx = "none" /\ Idle.seen = Blank
  BY BlankSeen DEF Idle, CallRecord, Pc
<1> QED BY <1>1, OneRecord

LEMMA TopUpAt ==
    ASSUME Typed, NEW c \in DOMAIN topUps
    PROVE  topUps[c] \in 0 .. TopUp
<1>1. PICK S : S = 0 .. TopUp
  OBVIOUS
<1>2. topUps \in Seq(S) /\ c \in 1 .. Len(topUps)
  BY <1>1, LenProperties DEF Typed
<1>3. topUps[c] \in S
  BY <1>2, ElementOfSeq
<1> QED BY <1>1, <1>3

LEMMA BegunRecord ==
    ASSUME NEW h \in Nat, NEW b \in Nat, NEW x, x = Begun(h, b)
    PROVE  /\ x \in CallRecord /\ x.pc = "open" /\ x.tx = "none" /\ x.heard /\ x.had = h
           /\ x.back = b /\ x.seen = Blank
<1>1. x = [pc |-> "open", amount |-> 0, tx |-> "none", hung |-> FALSE, heard |-> TRUE, had |-> h,
           back |-> b, seen |-> Blank]
  BY DEF Begun, Idle
<1> QED BY <1>1, BlankSeen DEF CallRecord, Pc

(* The queue: only r joins or leaves it, and a holder who stays, stays. *)
LEMMA QueueSteps ==
    ASSUME Typed, NEW r \in Task, queue' = queue \/ queue' = Append(queue, r) \/ Left(r)
    PROVE  /\ queue' \in Seq(Task)
           /\ \A s \in Task \ {r} :
                 queue # <<>> /\ Head(queue) = s => queue' # <<>> /\ Head(queue') = s
<1>1. queue \in Seq(Task)
  BY DEF Typed
<1>2. CASE queue' = queue
  BY <1>1, <1>2
<1>3. CASE queue' = Append(queue, r)
  <2>1. /\ queue' \in Seq(Task) /\ Len(queue') = Len(queue) + 1 /\ Len(queue) \in Nat
        /\ \A i \in 1 .. Len(queue) : queue'[i] = queue[i]
    BY <1>1, <1>3, AppendProperties, LenProperties
  <2>2. queue # <<>> => Len(queue) > 0
    BY <1>1, EmptySeq
  <2>3. queue' # <<>>
    BY <2>1, EmptySeq
  <2>4. Head(queue) = queue[1] /\ Head(queue') = queue'[1]
    OBVIOUS
  <2> QED BY <2>1, <2>2, <2>3, <2>4
<1>4. CASE Left(r)
  BY <1>1, <1>4, HeadTailProperties DEF Left
<1> QED BY <1>2, <1>3, <1>4

-----------------------------------------------------------------------------
SameMoney == UNCHANGED <<money, orders>> /\ DOMAIN strays' = {}

LEMMA SameChain ==
    ASSUME Typed, UNCHANGED <<chain, orders>> PROVE SameMoney
BY DEF Typed, chain, SameMoney

LEMMA Unmoved ==
    ASSUME SameMoney
    PROVE  /\ UNCHANGED <<configured, public, pending, available, applied, rents, funded>>
           /\ UNCHANGED <<topUps, credited>> /\ DOMAIN strays' = {}
BY DEF SameMoney, money, orders

LEMMA SameScreen ==
    ASSUME Undisturbed, UNCHANGED <<orders, screen, inFlight>>
    PROVE  /\ Followed' /\ need' = need /\ rent' = rent /\ DOMAIN rent' = {"says", "had"}
           /\ inFlight' \in Securing \cup {None} /\ RefusedWhenShort'
BY DEF Undisturbed, Typed, Followed, RefusedWhenShort, orders, screen

(* A call that reads afresh, or has ended, has nothing to be overtaken. *)
LEMMA BlankSees ==
    ASSUME Typed, NEW r \in Task, SameMoney, task'[r].seen = Blank, task'[r].tx = "none"
    PROVE  Sees(r)'
BY BlankSeen, Unmoved DEF Sees, Typed

LEMMA StillKeeps ==
    ASSUME NEW r \in Task, Keeps(r), SameMoney,
           task'[r].back = task[r].back, task[r].pc # "idle"
    PROVE  Keeps(r)'
BY Unmoved DEF Keeps

(* A step of the call r that leaves the chain alone. *)
LEMMA TaskStep ==
    ASSUME Undisturbed, NEW r \in Task,
           SameMoney,
           task' \in [Task -> CallRecord], \A s \in Task \ {r} : task'[s] = task[s],
           task'[r].tx # "none" => task'[r].pc \in Sends,
           queue' = queue \/ queue' = Append(queue, r) \/ Left(r),
           inFlight' \in Securing \cup {None}, DOMAIN rent' = {"says", "had"},
           need' = need, Followed',
           rent' = rent \/ \A s \in Paying \ {r} : task[s].pc = "idle",
           r \in Paying /\ task'[r].pc # "idle" =>
               task[r].pc # "idle" \/ \A s \in Paying \ {r} : task[s].pc = "idle",
           RefusedWhenShort',
           Carries(r) => Carries(r)',
           Holds(r)', Reads(r)', Sees(r)', Keeps(r)', Pays(r)'
    PROVE  Undisturbed'
<1>1. Typed /\ \A s \in Task : Holds(s) /\ Reads(s) /\ Sees(s) /\ Keeps(s) /\ Pays(s)
  BY DEF Undisturbed
<1>2. /\ UNCHANGED <<configured, public, pending, available, applied, rents, funded>>
      /\ UNCHANGED <<topUps, credited>> /\ DOMAIN strays' = {}
  BY Unmoved
<1>3. /\ queue' \in Seq(Task)
      /\ \A s \in Task \ {r} :
            queue # <<>> /\ Head(queue) = s => queue' # <<>> /\ Head(queue') = s
  BY <1>1, QueueSteps
<1>4. Typed'
  BY <1>1, <1>2, <1>3 DEF Typed
<1>5. OnePayment'
  BY TasksApart DEF Undisturbed, OnePayment
<1>6. Carried'
  <2>1. \A s \in Task : Carries(s) => Carries(s)'
    BY DEF Carries, Sent
  <2> QED BY <1>2, <2>1 DEF Undisturbed, Carried
<1>7. HoldbackKept'
  BY <1>2 DEF Undisturbed, HoldbackKept
<1>8. ASSUME NEW s \in Task \ {r}
      PROVE  Holds(s)' /\ Reads(s)' /\ Sees(s)' /\ Keeps(s)' /\ Pays(s)'
  <2>1. Holds(s)'
    BY <1>1, <1>3 DEF Holds
  <2>2. Reads(s)'
    BY <1>1, <1>2 DEF Reads, Sent
  <2>3. Sees(s)' /\ Keeps(s)'
    BY <1>1, <1>2 DEF Sees, Keeps
  <2>4. Pays(s)'
    BY <1>1, <1>2 DEF Pays, Worth, Carries, Sent
  <2> QED BY <2>1, <2>2, <2>3, <2>4
<1> QED BY <1>4, <1>5, <1>6, <1>7, <1>8 DEF Undisturbed

-----------------------------------------------------------------------------
(* The steps that leave the chain alone, one by one. *)
LEMMA NothingMoves ==
    ASSUME Undisturbed, UNCHANGED <<chain, orders>>
    PROVE  /\ SameMoney
           /\ UNCHANGED <<configured, public, pending, available, applied, rents, funded>>
           /\ UNCHANGED <<topUps, credited>>
BY SameChain, Unmoved DEF Undisturbed

(* A call goes to where nothing of it is on its way. *)
LEMMA GoesTo ==
    ASSUME Undisturbed, NEW r \in Task, NEW pc \in Pc, To(r, pc),
           task[r].pc # "idle",
           UNCHANGED <<chain, orders, inFlight, screen>>,
           queue' = queue \/ queue' = Append(queue, r) \/ Left(r),
           ~Carries(r) \/ pc = "apply",
           Holds(r)', Reads(r)', Pays(r)'
    PROVE  Undisturbed'
<1>1. /\ task' \in [Task -> CallRecord] /\ \A s \in Task \ {r} : task'[s] = task[s]
      /\ task'[r].pc = pc /\ task'[r].tx = "none" /\ task'[r].seen = Blank
      /\ task'[r].back = task[r].back
  BY ToRecord DEF Undisturbed
<1>2. Sees(r)' /\ Keeps(r)'
  BY <1>1, NothingMoves, BlankSees, StillKeeps DEF Undisturbed
<1>3. Carries(r) => Carries(r)'
  BY <1>1 DEF Carries, Sent
<1> QED BY <1>1, <1>2, <1>3, NothingMoves, SameScreen, TaskStep

LEMMA OpenedStep ==
    ASSUME Undisturbed, NEW r \in Task, Opened(r) PROVE Undisturbed'
<1>1. /\ Typed /\ Reads(r) /\ Pays(r) /\ task[r].pc = "open"
      /\ UNCHANGED <<chain, orders, inFlight, screen>>
  BY DEF Undisturbed, Opened, At
<1>2. PICK pc \in {"balance", "queued"} :
          /\ To(r, pc) /\ (queue' = queue \/ queue' = Append(queue, r))
          /\ pc = "balance" => r \in Paying
  BY DEF Opened, Queued
<1>3. /\ task'[r].pc = pc /\ task'[r].tx = "none"
      /\ task'[r].heard = task[r].heard /\ task'[r].had = task[r].had /\ task'[r].back = task[r].back
  BY <1>1, <1>2, ToRecord DEF Pc
<1>4. Holds(r)' /\ Reads(r)' /\ ~Carries(r)
  BY <1>1, <1>3 DEF Holds, Reads, Carries, Locked, Sent
<1>5. Pays(r)'
  BY <1>1, <1>2, <1>3, NothingMoves, SameScreen DEF Pays, Worth, Carries
<1> QED BY <1>1, <1>2, <1>4, <1>5, GoesTo DEF Pc, Typed

LEMMA BalanceStep ==
    ASSUME Undisturbed, NEW r \in Task, Balance(r) \/ BalanceUnread(r) PROVE Undisturbed'
<1>1. /\ Typed /\ Reads(r) /\ Pays(r) /\ task[r].pc = "balance"
      /\ UNCHANGED <<chain, orders, inFlight, screen>>
  BY DEF Undisturbed, Balance, BalanceUnread, At
<1>2. PICK pc \in {"pay", "queued"} :
          /\ To(r, pc) /\ (queue' = queue \/ queue' = Append(queue, r))
          /\ pc = "pay" => available >= Rent
  BY DEF Balance, BalanceUnread, Queued
<1>3. /\ task'[r].pc = pc /\ task'[r].tx = "none"
      /\ task'[r].heard = task[r].heard /\ task'[r].had = task[r].had /\ task'[r].back = task[r].back
  BY <1>1, <1>2, ToRecord DEF Pc
<1>4. Holds(r)' /\ Reads(r)' /\ ~Carries(r)
  BY <1>1, <1>3 DEF Holds, Reads, Carries, Locked, Sent
<1>5. Pays(r)'
  BY <1>1, <1>2, <1>3, NothingMoves, SameScreen DEF Pays, Worth, Carries
<1> QED BY <1>1, <1>2, <1>4, <1>5, GoesTo DEF Pc, Typed

(* Whoever holds the lock and has nothing under way finds nothing pending. *)
LEMMA NothingCarried ==
    ASSUME Undisturbed, NEW r \in Task, task[r].pc \in Locked \/ queue = <<>> \/ Head(queue) = r,
           ~Carries(r)
    PROVE  pending = 0
<1>1. SUFFICES ASSUME NEW s \in Task, Carries(s) PROVE FALSE
  BY DEF Undisturbed, Carried
<1>2. task[s].pc \in Locked /\ s # r
  BY <1>1 DEF Carries, Locked
<1>3. queue # <<>> /\ Head(queue) = s
  BY <1>2 DEF Undisturbed, Holds
<1>4. task[r].pc \in Locked => Head(queue) = r
  BY DEF Undisturbed, Holds
<1> QED BY <1>2, <1>3, <1>4

LEMMA EnsureStep ==
    ASSUME Undisturbed, NEW r \in Task, Ensure(r) PROVE Undisturbed'
<1>1. /\ Typed /\ Pays(r) /\ task[r].pc = "queued" /\ queue # <<>> /\ Head(queue) = r
      /\ UNCHANGED <<chain, orders, inFlight, screen>> /\ queue' = queue
  <2>1. queue # <<>>
    BY LenProperties, EmptySeq, TasksApart DEF Undisturbed, Typed, Ensure, Turn, UnderLock, Range
  <2> QED BY <2>1 DEF Undisturbed, Ensure, At, Turn
<1>2. PICK pc \in {"create", "ready", "read"} :
          /\ To(r, pc)
          /\ pc = "create" <=> ~configured
          /\ pc = "ready" => r \in Enabling
          /\ pc = "read" => r \notin Enabling
  <2>1. configured \in BOOLEAN
    BY <1>1 DEF Typed
  <2> QED BY <2>1 DEF Ensure
<1>3. /\ task'[r].pc = pc /\ task'[r].tx = "none"
      /\ task'[r].heard = task[r].heard /\ task'[r].had = task[r].had /\ task'[r].back = task[r].back
  BY <1>1, <1>2, ToRecord DEF Pc, Locked
<1>4. Holds(r)' /\ ~Carries(r)
  BY <1>1, <1>3 DEF Holds, Carries
<1>5. Reads(r)'
  BY <1>1, <1>2, <1>3, NothingMoves DEF Reads, Sent
<1>6. Pays(r)'
  BY <1>1, <1>2, <1>3, TasksApart, NothingMoves, SameScreen DEF Pays, Worth, Carries
<1> QED BY <1>1, <1>2, <1>4, <1>5, <1>6, GoesTo DEF Pc, Locked, Typed

LEMMA ReadAccountStep ==
    ASSUME Undisturbed, NEW r \in Task, ReadAccount(r) PROVE Undisturbed'
<1>1. /\ Typed /\ Holds(r) /\ Reads(r) /\ Keeps(r) /\ Pays(r) /\ task[r].pc = "read"
      /\ UNCHANGED <<chain, orders, inFlight, screen>> /\ queue' = queue
  BY DEF Undisturbed, ReadAccount, At
<1>2. public \in Nat /\ available \in Nat /\ funded \in BOOLEAN
  BY <1>1 DEF Typed
<1>3. pending = 0
  BY <1>1, NothingCarried DEF Carries, Locked
<1>4. PICK m : m = moveable(r)
  OBVIOUS
<1>5. PICK pc : pc = IF m = 0 THEN "ready" ELSE "deposit"
  OBVIOUS
<1>6. PICK c \in CallRecord : c = task[r]
  BY <1>1, CallAt
<1>7. /\ m \in Nat /\ c.back \in Nat
      /\ c.back = 0 => m = public
      /\ m > 0 => public = m + c.back
  BY <1>2, <1>4, <1>6 DEF moveable, heldBack, CallRecord
<1>8. PICK y : y = [c EXCEPT !.amount = m]
  OBVIOUS
<1>9. /\ y \in CallRecord /\ y.tx = c.tx /\ y.heard = c.heard /\ y.had = c.had /\ y.amount = m
      /\ y.back = c.back
  BY <1>6, <1>7, <1>8 DEF CallRecord
<1>10. PICK z : z = [y EXCEPT !.seen = Seen]
  OBVIOUS
<1>11. /\ Seen \in SeenRecord /\ Seen.applied = applied /\ Seen.rents = rents /\ Seen.funded = funded
  BY <1>1 DEF Seen, SeenRecord, Typed
<1>12. /\ z \in CallRecord /\ z.tx = c.tx /\ z.heard = c.heard /\ z.had = c.had /\ z.amount = m
       /\ z.back = c.back /\ z.seen = Seen
  BY <1>9, <1>10, <1>11 DEF CallRecord
<1>13. PICK x : x = [z EXCEPT !.pc = pc]
  OBVIOUS
<1>14. /\ x \in CallRecord /\ x.tx = c.tx /\ x.heard = c.heard /\ x.had = c.had /\ x.amount = m
       /\ x.back = c.back /\ x.seen = Seen /\ x.pc = pc
  BY <1>5, <1>12, <1>13 DEF CallRecord, Pc, Locked
<1>15. task' = [task EXCEPT ![r] = x]
  BY <1>1, <1>4, <1>5, <1>6, <1>8, <1>10, <1>13 DEF ReadAccount, Typed
<1>16. task' \in [Task -> CallRecord] /\ task'[r] = x /\ \A s \in Task \ {r} : task'[s] = task[s]
  BY <1>1, <1>14, <1>15, OneRecord
<1>17. c.tx = "none"
  BY <1>1, <1>6 DEF Typed, Sends
<1>18. Holds(r)' /\ (Carries(r) => Carries(r)')
  BY <1>1 DEF Holds, Carries, Locked
<1>19. Reads(r)'
  <2>1. pc = "deposit" => public >= m + c.back /\ public >= m
    BY <1>2, <1>5, <1>7
  <2>2. configured /\ r \notin Enabling
    BY <1>1 DEF Reads
  <2>3. configured' = configured /\ public' = public /\ funded' = funded
    BY <1>1, NothingMoves
  <2>4. task'[r].pc = pc /\ task'[r].amount = m /\ task'[r].back = c.back /\ pc \notin {"create", "read", "apply"}
    BY <1>5, <1>14, <1>16
  <2>5. CASE pc = "deposit"
    <3>1. public' >= task'[r].amount + task'[r].back /\ public' >= task'[r].amount
      BY <2>1, <2>3, <2>4, <2>5
    <3> QED BY <2>2, <2>3, <2>4, <2>5, <3>1 DEF Reads
  <2>6. CASE pc # "deposit"
    BY <2>4, <2>6 DEF Reads
  <2> QED BY <2>5, <2>6
<1>20. Sees(r)' /\ Keeps(r)'
  <2>1. Sees(r)'
    BY <1>1, <1>11, <1>14, <1>16, <1>17, NothingMoves DEF Sees, Typed
  <2>2. Keeps(r)'
    BY <1>1, <1>6, <1>14, <1>16, NothingMoves, StillKeeps
  <2> QED BY <2>1, <2>2
<1>21. Pays(r)'
  <2>1. r \in Paying => task[r].had <= public + pending + available /\ task[r].back = 0
    BY <1>1 DEF Pays, Worth, Carries
  <2>2. r \in Paying => /\ pc = "deposit" => x.had <= m + pending + available
                        /\ pc = "ready" => x.had <= available
    <3>1. c.had \in Nat /\ x.had = c.had /\ c.had = task[r].had /\ c.back = task[r].back
      BY <1>6, <1>14 DEF CallRecord
    <3> QED BY <1>2, <1>3, <1>5, <1>7, <2>1, <3>1
  <2>3. r \in Paying =>
            funded /\ x.heard /\ x.back = 0 /\ rent.says = "paying" /\ rent.had = x.had
    BY <1>1, <1>6, <1>14 DEF Pays
  <2> QED BY <1>1, <1>5, <1>14, <1>16, <1>17, <2>2, <2>3, NothingMoves, SameScreen
          DEF Pays, Worth, Carries, Sent
<1>22. task'[r].tx # "none" => task'[r].pc \in Sends
  BY <1>14, <1>16, <1>17
<1>23. task'[r].pc # "idle" => task[r].pc # "idle"
  BY <1>1
<1> QED BY <1>1, <1>16, <1>18, <1>19, <1>20, <1>21, <1>22, <1>23, NothingMoves, SameScreen, TaskStep

(* A caller is told: of the shared state, only what the cards show. *)
LEMMA ToldSays ==
    ASSUME Undisturbed, NEW r \in Task, NEW says, Told(r, says), credited' = credited
    PROVE  /\ inFlight' \in Securing \cup {None} /\ DOMAIN rent' = {"says", "had"}
           /\ need' = need /\ Followed'
           /\ r \notin Paying => rent' = rent
           /\ \/ rent' = rent
              \/ r \in Paying /\ rent'.says = says /\ rent'.had = rent.had
BY DEF Undisturbed, Told, Typed, Followed

(* The end of a call: of a payment, with what its card then says. *)
LEMMA CallEnds ==
    ASSUME Undisturbed, NEW r \in Task, NEW says, task[r].pc # "idle", ~Carries(r),
           SameMoney, queue' = queue \/ Left(r),
           task' = [task EXCEPT ![r] = Idle], Told(r, says),
           r \in Paying /\ says = "refused" => task[r].had < Rent
    PROVE  Undisturbed'
<1>1. Typed /\ Pays(r) /\ credited' = credited
  BY Unmoved DEF Undisturbed
<1>2. /\ task' \in [Task -> CallRecord] /\ \A s \in Task \ {r} : task'[s] = task[s]
      /\ task'[r].pc = "idle" /\ task'[r].tx = "none" /\ task'[r].seen = Blank
  BY <1>1, IdleRecord
<1>3. Holds(r)' /\ Reads(r)' /\ Keeps(r)' /\ Pays(r)'
  BY <1>2 DEF Holds, Reads, Keeps, Locked, Pays
<1>4. Sees(r)'
  BY <1>1, <1>2, BlankSees
<1>5. /\ inFlight' \in Securing \cup {None} /\ DOMAIN rent' = {"says", "had"}
      /\ need' = need /\ Followed'
      /\ rent' = rent \/ (r \in Paying /\ rent'.says = says /\ rent'.had = rent.had)
  BY <1>1, ToldSays
<1>6. RefusedWhenShort'
  BY <1>1, <1>5 DEF Undisturbed, RefusedWhenShort, Pays
<1>7. rent' = rent \/ \A s \in Paying \ {r} : task[s].pc = "idle"
  BY <1>5 DEF Undisturbed, OnePayment
<1> QED BY <1>2, <1>3, <1>4, <1>5, <1>6, <1>7, TaskStep

LEMMA ReadyStep ==
    ASSUME Undisturbed, NEW r \in Task, Ready(r) PROVE Undisturbed'
<1>1. /\ Typed /\ Reads(r) /\ Pays(r) /\ task[r].pc = "ready" /\ task[r].pc # "idle"
      /\ UNCHANGED <<chain, orders>> /\ Left(r)
  BY DEF Undisturbed, Ready, At
<1>2. ~Carries(r)
  BY <1>1 DEF Carries
<1>3. CASE r \in Paying /\ task[r].heard
  <2>1. To(r, "check") /\ UNCHANGED <<inFlight, screen>>
    BY <1>3 DEF Ready
  <2>2. /\ task'[r].pc = "check" /\ task'[r].tx = "none"
        /\ task'[r].heard = task[r].heard /\ task'[r].had = task[r].had
        /\ task'[r].back = task[r].back
    BY <1>1, <2>1, ToRecord DEF Pc
  <2>3. Holds(r)' /\ Reads(r)'
    BY <2>2 DEF Holds, Reads, Locked
  <2>4. Pays(r)'
    BY <1>1, <1>3, <2>1, <2>2, NothingMoves, SameScreen DEF Pays, Worth, Carries
  <2> QED BY <1>1, <1>2, <2>1, <2>3, <2>4, GoesTo DEF Pc, Typed
<1>4. CASE ~(r \in Paying /\ task[r].heard)
  <2>1. task' = [task EXCEPT ![r] = Idle] /\ Told(r, "private") /\ r \notin Paying
    BY <1>1, <1>4 DEF Ready, Pays
  <2> QED BY <1>1, <1>2, <2>1, NothingMoves, CallEnds
<1> QED BY <1>3, <1>4

LEMMA CheckStep ==
    ASSUME Undisturbed, NEW r \in Task, Check(r) PROVE Undisturbed'
<1>1. /\ Typed /\ Reads(r) /\ Pays(r) /\ task[r].pc = "check" /\ task[r].pc # "idle"
      /\ UNCHANGED <<chain, orders>> /\ queue' = queue
  BY DEF Undisturbed, Check, At
<1>2. ~Carries(r)
  BY <1>1 DEF Carries
<1>3. CASE available >= Rent
  <2>1. To(r, "pay") /\ UNCHANGED <<inFlight, screen>>
    BY <1>3 DEF Check
  <2>2. /\ task'[r].pc = "pay" /\ task'[r].tx = "none"
        /\ task'[r].heard = task[r].heard /\ task'[r].had = task[r].had
        /\ task'[r].back = task[r].back
    BY <1>1, <2>1, ToRecord DEF Pc
  <2>3. Holds(r)' /\ Reads(r)'
    BY <2>2 DEF Holds, Reads, Locked
  <2>4. Pays(r)'
    BY <1>1, <1>3, <2>1, <2>2, NothingMoves, SameScreen DEF Pays, Worth, Carries
  <2> QED BY <1>1, <1>2, <2>1, <2>3, <2>4, GoesTo DEF Pc, Typed
<1>4. CASE ~(available >= Rent)
  <2>1. task' = [task EXCEPT ![r] = Idle] /\ Told(r, "refused")
    BY <1>4 DEF Check
  <2>2. task[r].had < Rent
    <3>1. task[r].had <= available
      BY <1>1 DEF Pays, Worth, Carries
    <3>2. available \in Nat /\ task[r].had \in Nat /\ Rent \in Nat
      BY <1>1, CallAt, BalanceAssumption DEF Typed
    <3> QED BY <1>4, <3>1, <3>2
  <2> QED BY <1>1, <1>2, <2>1, <2>2, NothingMoves, CallEnds
<1> QED BY <1>3, <1>4

(* A plan is made from the account as it is. *)
LEMMA SubmitStep ==
    ASSUME Undisturbed, NEW r \in Task, Submit(r) PROVE Undisturbed'
<1>1. /\ Typed /\ Holds(r) /\ Reads(r) /\ Sees(r) /\ Keeps(r) /\ Pays(r)
      /\ task[r].pc \in Sends /\ task[r].tx = "none" /\ task[r].pc # "idle"
      /\ UNCHANGED <<chain, orders, inFlight, screen>> /\ queue' = queue
  BY DEF Undisturbed, Submit, At, Sends
<1>2. PICK c \in CallRecord : c = task[r]
  BY <1>1, CallAt
<1>3. PICK y : y = [c EXCEPT !.tx = "flying"]
  OBVIOUS
<1>4. /\ y \in CallRecord /\ y.pc = c.pc /\ y.amount = c.amount /\ y.heard = c.heard
      /\ y.had = c.had /\ y.tx = "flying" /\ y.back = c.back /\ y.seen = c.seen
  BY <1>2, <1>3 DEF CallRecord
<1>5. PICK new : new = IF c.pc \in {"apply", "pay"} THEN Seen ELSE c.seen
  OBVIOUS
<1>6. /\ Seen \in SeenRecord /\ Seen.applied = applied /\ Seen.rents = rents /\ Seen.funded = funded
      /\ Seen.pending = pending
  BY <1>1 DEF Seen, SeenRecord, Typed
<1>7. PICK x : x = [y EXCEPT !.seen = new]
  OBVIOUS
<1>8. /\ x \in CallRecord /\ x.pc = c.pc /\ x.amount = c.amount /\ x.heard = c.heard
      /\ x.had = c.had /\ x.tx = "flying" /\ x.back = c.back /\ x.seen = new
  BY <1>2, <1>4, <1>5, <1>6, <1>7 DEF CallRecord
<1>9. task' = [task EXCEPT ![r] = x]
  BY <1>1, <1>2, <1>3, <1>5, <1>7 DEF Submit, Typed
<1>10. task' \in [Task -> CallRecord] /\ task'[r] = x /\ \A s \in Task \ {r} : task'[s] = task[s]
  BY <1>1, <1>8, <1>9, OneRecord
<1>11. /\ ~Sent(r) /\ ~Sent(r)' /\ task'[r].pc = task[r].pc /\ task'[r].amount = task[r].amount
       /\ task'[r].heard = task[r].heard /\ task'[r].had = task[r].had
       /\ task'[r].back = task[r].back /\ task'[r].seen = new /\ task'[r].tx = "flying"
  BY <1>1, <1>2, <1>8, <1>10 DEF Sent
<1>12. /\ task[r].pc \in {"apply", "pay"} => new = Seen
       /\ task[r].pc \notin {"apply", "pay"} => new = task[r].seen
  BY <1>2, <1>5
<1>13. Holds(r)' /\ Reads(r)' /\ (Carries(r) => Carries(r)') /\ Pays(r)'
  BY <1>1, <1>11, <1>12, NothingMoves, SameScreen DEF Holds, Reads, Pays, Worth, Carries
<1>14. Sees(r)'
  <2>1. CASE task[r].pc \in {"apply", "pay"}
    BY <1>1, <1>6, <1>11, <1>12, <2>1, NothingMoves DEF Sees, Typed
  <2>2. CASE task[r].pc \notin {"apply", "pay"}
    BY <1>1, <1>11, <1>12, <2>2, NothingMoves DEF Sees
  <2> QED BY <2>1, <2>2
<1>15. Keeps(r)'
  BY <1>1, <1>11, NothingMoves, StillKeeps
<1> QED BY <1>1, <1>10, <1>11, <1>13, <1>14, <1>15, NothingMoves, SameScreen, TaskStep

LEMMA ConfirmedStep ==
    ASSUME Undisturbed, NEW r \in Task, Confirmed(r) PROVE Undisturbed'
<1>1. /\ Typed /\ Holds(r) /\ Reads(r) /\ Pays(r) /\ Sent(r) /\ task[r].pc \in Sends
      /\ UNCHANGED <<chain, orders>> /\ queue' = queue /\ task[r].pc # "idle"
  BY DEF Undisturbed, Typed, Confirmed, Sent, Sends
<1>2. CASE task[r].pc = "pay"
  <2>1. task' = [task EXCEPT ![r] = Idle] /\ Told(r, "paid") /\ ~Carries(r)
    BY <1>2 DEF Confirmed, Carries
  <2> QED BY <1>1, <2>1, NothingMoves, CallEnds
<1>3. CASE task[r].pc # "pay"
  <2>1. PICK pc : pc = CASE task[r].pc = "create"  -> IF r \in Enabling THEN "ready" ELSE "read"
                         [] task[r].pc = "deposit" -> "apply"
                         [] task[r].pc = "apply"   -> "ready"
    OBVIOUS
  <2>2. To(r, pc) /\ UNCHANGED <<inFlight, screen>>
    BY <1>3, <2>1 DEF Confirmed
  <2>3. \/ task[r].pc = "create" /\ pc = "ready" /\ r \in Enabling
        \/ task[r].pc = "create" /\ pc = "read" /\ r \notin Enabling
        \/ task[r].pc = "deposit" /\ pc = "apply"
        \/ task[r].pc = "apply" /\ pc = "ready"
    BY <1>1, <1>3, <2>1 DEF Sends
  <2>4. /\ task'[r].pc = pc /\ task'[r].tx = "none"
        /\ task'[r].heard = task[r].heard /\ task'[r].had = task[r].had
        /\ task'[r].back = task[r].back
    BY <1>1, <2>2, <2>3, ToRecord DEF Pc, Locked
  <2>5. Holds(r)' /\ Reads(r)' /\ (~Carries(r) \/ pc = "apply")
    BY <1>1, <2>3, <2>4, NothingMoves DEF Holds, Reads, Carries, Locked, Sent
  <2>6. Pays(r)'
    <3> SUFFICES ASSUME r \in Paying
                 PROVE  /\ funded' /\ task'[r].heard /\ task'[r].back = 0
                        /\ rent'.says = "paying" /\ rent'.had = task'[r].had /\ Worth(r)'
      BY <2>3, <2>4 DEF Pays
    <3>1. /\ funded' = funded /\ public' = public /\ pending' = pending
          /\ available' = available /\ rent' = rent /\ ~Sent(r)'
      BY <1>1, <2>2, <2>4, NothingMoves, SameScreen DEF Sent
    <3>2. /\ funded /\ task[r].heard /\ task[r].back = 0
          /\ rent.says = "paying" /\ rent.had = task[r].had /\ Worth(r)
      BY <1>1 DEF Pays
    <3>3. Worth(r)'
      <4>1. CASE task[r].pc = "create" /\ pc = "read"
        BY <2>4, <3>1, <3>2, <4>1 DEF Worth, Carries
      <4>2. CASE task[r].pc = "deposit" /\ pc = "apply"
        BY <1>1, <2>4, <3>1, <3>2, <4>2 DEF Worth, Carries
      <4>3. CASE task[r].pc = "apply" /\ pc = "ready"
        BY <1>1, <2>4, <3>1, <3>2, <4>3 DEF Worth, Carries
      <4> QED BY <2>3, <4>1, <4>2, <4>3, TasksApart
    <3> QED BY <2>4, <3>1, <3>2, <3>3
  <2>7. pc \in Pc
    BY <2>3 DEF Pc, Locked
  <2> QED BY <1>1, <2>2, <2>5, <2>6, <2>7, GoesTo
<1> QED BY <1>2, <1>3

(* A call that hangs, wakes or is no longer waited for stays where it is. *)
LEMMA SameCall ==
    ASSUME Undisturbed, NEW r \in Task, NEW x \in CallRecord,
           task' = [task EXCEPT ![r] = x],
           x.pc = task[r].pc, x.tx = task[r].tx, x.amount = task[r].amount, x.had = task[r].had,
           x.back = task[r].back, x.seen = task[r].seen,
           r \in Paying => x.heard = task[r].heard,
           SameMoney, UNCHANGED <<queue, rent, need>>, Followed', inFlight' \in Securing \cup {None}
    PROVE  Undisturbed'
<1>1. Typed /\ Holds(r) /\ Reads(r) /\ Sees(r) /\ Keeps(r) /\ Pays(r)
  BY DEF Undisturbed
<1>2. task' \in [Task -> CallRecord] /\ task'[r] = x /\ \A s \in Task \ {r} : task'[s] = task[s]
  BY <1>1, OneRecord
<1>3. Sent(r)' <=> Sent(r)
  BY <1>2 DEF Sent
<1>4. Holds(r)' /\ Reads(r)' /\ (Carries(r) => Carries(r)')
  BY <1>1, <1>2, <1>3, Unmoved DEF Holds, Reads, Carries
<1>5. Sees(r)' /\ Keeps(r)'
  BY <1>1, <1>2, Unmoved DEF Sees, Keeps
<1>6. Pays(r)'
  BY <1>1, <1>2, <1>3, Unmoved DEF Pays, Worth, Carries
<1>7. DOMAIN rent' = {"says", "had"} /\ RefusedWhenShort'
  BY <1>1 DEF Undisturbed, Typed, RefusedWhenShort
<1>8. /\ task'[r].tx # "none" => task'[r].pc \in Sends
      /\ task'[r].pc # "idle" => task[r].pc # "idle"
  BY <1>1, <1>2 DEF Typed
<1> QED BY <1>2, <1>4, <1>5, <1>6, <1>7, <1>8, TaskStep

LEMMA HangStep ==
    ASSUME Undisturbed, NEW r \in Task, Hang(r) \/ Wakes(r) PROVE Undisturbed'
<1>1. Typed /\ UNCHANGED <<chain, orders, inFlight, screen>> /\ queue' = queue
  BY DEF Undisturbed, Hang, Wakes
<1>2. PICK c \in CallRecord : c = task[r]
  BY <1>1, CallAt
<1>3. PICK h \in BOOLEAN : task' = [task EXCEPT ![r].hung = h]
  BY DEF Hang, Wakes
<1>4. PICK x : x = [c EXCEPT !.hung = h]
  OBVIOUS
<1>5. x \in CallRecord /\ x.pc = c.pc /\ x.tx = c.tx /\ x.amount = c.amount /\ x.had = c.had
      /\ x.heard = c.heard /\ x.back = c.back /\ x.seen = c.seen
  BY <1>2, <1>4 DEF CallRecord
<1>6. task' = [task EXCEPT ![r] = x]
  BY <1>1, <1>2, <1>3, <1>4 DEF Typed
<1> QED BY <1>1, <1>2, <1>5, <1>6, NothingMoves, SameScreen, SameCall

LEMMA OuterStep ==
    ASSUME Undisturbed, NEW r \in Task, Outer(r) PROVE Undisturbed'
<1>1. Typed /\ UNCHANGED <<chain, orders>> /\ queue' = queue /\ Told(r, "error") /\ r \notin Paying
  BY TasksApart DEF Undisturbed, Typed, Outer
<1>2. PICK c \in CallRecord : c = task[r]
  BY <1>1, CallAt
<1>3. PICK x : x = [c EXCEPT !.heard = FALSE]
  OBVIOUS
<1>4. x \in CallRecord /\ x.pc = c.pc /\ x.tx = c.tx /\ x.amount = c.amount /\ x.had = c.had
      /\ x.back = c.back /\ x.seen = c.seen
  BY <1>2, <1>3 DEF CallRecord
<1>5. task' = [task EXCEPT ![r] = x]
  BY <1>1, <1>2, <1>3 DEF Outer, Typed
<1>6. inFlight' \in Securing \cup {None} /\ rent' = rent /\ need' = need /\ Followed'
  BY <1>1, NothingMoves, ToldSays
<1> QED BY <1>1, <1>2, <1>4, <1>5, <1>6, NothingMoves, SameCall

(* A failure that leaves nothing half done. *)
LEMMA FlyingNothing ==
    ASSUME NEW rs \in SUBSET Task, \A r \in rs : task[r].tx # "flying"
    PROVE  DOMAIN Flying(rs) = {}
<1>1. {r \in rs : task[r].tx = "flying"} = {}
  OBVIOUS
<1>2. DOMAIN SetToBag({r \in rs : task[r].tx = "flying"}) = {}
  BY <1>1 DEF SetToBag
<1> QED BY <1>2 DEF Flying, BagOfAll, BagToSet

LEMMA NoStrays ==
    ASSUME NEW rs \in SUBSET Task, \A r \in rs : task[r].tx # "flying",
           DOMAIN strays = {}, strays' = strays (+) Flying(rs)
    PROVE  DOMAIN strays' = {}
BY FlyingNothing DEF (+)

LEMMA ThrowsStep ==
    ASSUME Undisturbed, NEW r \in Task, Throws(r), ~disturbed' PROVE Undisturbed'
<1>1. /\ Typed /\ task[r].pc # "idle" /\ UNCHANGED <<money, orders>>
      /\ Left(r) /\ task' = [task EXCEPT ![r] = Idle] /\ Told(r, "error")
      /\ ~HalfDone(r)
  BY DEF Undisturbed, Throws
<1>2. task[r].tx # "flying" /\ ~Carries(r)
  BY <1>1 DEF HalfDone, Carries, Sent
<1>3. DOMAIN strays' = {}
  <2>1. PICK rs \in SUBSET Task : rs = {r}
    OBVIOUS
  <2>2. strays' = strays (+) Flying(rs)
    BY <2>1 DEF Throws
  <2> QED BY <1>1, <1>2, <2>1, <2>2, NoStrays DEF Typed
<1> QED BY <1>1, <1>2, <1>3, CallEnds DEF SameMoney

(* A call begins. *)
LEMMA BeginStep ==
    ASSUME Undisturbed, NEW r \in Task, NEW h \in Nat, NEW b \in Nat, task[r].pc = "idle",
           task' = [task EXCEPT ![r] = Begun(h, b)],
           UNCHANGED <<chain, orders>>, queue' = queue, inFlight' \in Securing \cup {None},
           DOMAIN rent' = {"says", "had"}, need' = need, Followed', RefusedWhenShort',
           rent' = rent \/ r \in Paying,
           r \in Securing => \E c \in credited : topUps[c] = b,
           r \in Paying =>
               /\ funded /\ rent'.says = "paying" /\ rent'.had = h /\ rent.says # "paying"
               /\ h = public + pending + available /\ b = 0
    PROVE  Undisturbed'
<1>1. Typed /\ public \in Nat /\ pending \in Nat /\ available \in Nat /\ SameMoney
  BY NothingMoves DEF Undisturbed, Typed
<1>2. /\ task' \in [Task -> CallRecord] /\ \A s \in Task \ {r} : task'[s] = task[s]
      /\ task'[r].pc = "open" /\ task'[r].tx = "none" /\ task'[r].heard /\ task'[r].had = h
      /\ task'[r].back = b /\ task'[r].seen = Blank
  <2>1. PICK x : x = Begun(h, b)
    OBVIOUS
  <2>2. x \in CallRecord /\ x.pc = "open" /\ x.tx = "none" /\ x.heard /\ x.had = h /\ x.back = b
        /\ x.seen = Blank
    BY <2>1, BegunRecord
  <2>3. task' = [task EXCEPT ![r] = x]
    BY <2>1
  <2>4. task' \in [Task -> CallRecord] /\ task'[r] = x /\ \A s \in Task \ {r} : task'[s] = task[s]
    BY <1>1, <2>2, <2>3, OneRecord
  <2> QED BY <2>2, <2>4
<1>3. Holds(r)' /\ Reads(r)' /\ (Carries(r) => Carries(r)')
  BY <1>2 DEF Holds, Reads, Carries, Locked
<1>4. Sees(r)'
  BY <1>1, <1>2, BlankSees
<1>5. Keeps(r)'
  BY <1>2, NothingMoves DEF Keeps
<1>6. r \in Paying => h <= public' + pending' + available'
  BY <1>1, NothingMoves
<1>7. Pays(r)'
  BY <1>2, <1>6, NothingMoves DEF Pays, Worth, Carries
<1>8. r \in Paying => \A s \in Paying \ {r} : task[s].pc = "idle"
  BY TasksApart DEF Undisturbed, Pays
<1> QED BY <1>1, <1>2, <1>3, <1>4, <1>5, <1>7, <1>8, TaskStep

LEMMA EnableStep ==
    ASSUME Undisturbed, NEW r \in Task, Enable(r) PROVE Undisturbed'
<1>1. /\ task[r].pc = "idle" /\ task' = [task EXCEPT ![r] = Begun(0, 0)]
      /\ UNCHANGED <<chain, orders, inFlight, screen>> /\ queue' = queue
      /\ r \notin Paying /\ r \notin Securing
  BY TasksApart DEF Enable
<1> QED BY <1>1, SameScreen, BeginStep

LEMMA PayRentStep ==
    ASSUME Undisturbed, NEW r \in Task, PayRent(r) PROVE Undisturbed'
<1>1. /\ Typed /\ task[r].pc = "idle" /\ r \in Paying /\ funded /\ rent.says # "paying"
      /\ UNCHANGED <<chain, orders>> /\ queue' = queue /\ inFlight' = inFlight
      /\ UNCHANGED <<shown, card, need>>
      /\ public \in Nat /\ pending \in Nat /\ available \in Nat
  BY DEF Undisturbed, Typed, PayRent
<1>2. PICK h \in Nat : h = public + pending + available
  BY <1>1
<1>3. task' = [task EXCEPT ![r] = Begun(h, 0)]
  BY <1>2 DEF PayRent
<1>4. task'[r].had = h
  <2>1. PICK x : x = Begun(h, 0)
    OBVIOUS
  <2>2. x \in CallRecord /\ x.had = h
    BY <2>1, BegunRecord
  <2>3. task' = [task EXCEPT ![r] = x]
    BY <1>3, <2>1
  <2> QED BY <1>1, <2>2, <2>3, OneRecord, TasksApart
<1>5. rent' = [says |-> "paying", had |-> h]
  BY <1>4 DEF PayRent
<1>6. DOMAIN rent' = {"says", "had"} /\ rent'.says = "paying" /\ rent'.had = h
  BY <1>5
<1>7. RefusedWhenShort' /\ inFlight' \in Securing \cup {None} /\ Followed'
  BY <1>1, <1>6, NothingMoves DEF Undisturbed, RefusedWhenShort, Typed, Followed
<1>8. r \notin Securing
  BY <1>1, TasksApart
<1> QED BY <1>1, <1>2, <1>3, <1>6, <1>7, <1>8, BeginStep

LEMMA UntouchedStep ==
    ASSUME Undisturbed, UNCHANGED <<chain, orders>>, UNCHANGED <<task, queue, inFlight, rent>>,
           need' \in Nat \cup {None}, Followed'
    PROVE  Undisturbed'
<1>1. /\ UNCHANGED <<configured, public, pending, available, applied, rents, funded>>
      /\ UNCHANGED <<topUps, credited, task, queue, inFlight, rent>> /\ DOMAIN strays' = {}
  BY NothingMoves DEF SameMoney
<1>2. Typed' /\ OnePayment' /\ HoldbackKept' /\ RefusedWhenShort'
  BY <1>1 DEF Undisturbed, Typed, OnePayment, HoldbackKept, RefusedWhenShort
<1>3. Carried'
  BY <1>1 DEF Undisturbed, Carried, Carries, Sent
<1>4. ASSUME NEW s \in Task PROVE Holds(s)' /\ Reads(s)' /\ Sees(s)' /\ Keeps(s)' /\ Pays(s)'
  BY <1>1 DEF Undisturbed, Holds, Reads, Sees, Keeps, Pays, Worth, Carries, Sent
<1> QED BY <1>2, <1>3, <1>4 DEF Undisturbed

(* A call is begun or joined for a top-up that is credited. *)
LEMMA SecureStep ==
    ASSUME Undisturbed, ShowCard \/ Retry PROVE Undisturbed'
<1>1. /\ UNCHANGED <<chain, orders>> /\ UNCHANGED <<queue, shown, need, rent>> /\ Typed
      /\ Secure
  BY DEF Undisturbed, ShowCard, Retry, Secure
<1>2. shown \in credited
  BY DEF Undisturbed, Followed, ShowCard, Retry, ToSecure
<1>3. /\ need' \in Nat \cup {None} /\ Followed' /\ DOMAIN rent' = {"says", "had"}
      /\ RefusedWhenShort'
  BY <1>1, <1>2, NothingMoves DEF Undisturbed, Typed, Followed, RefusedWhenShort
<1>4. CASE UNCHANGED <<task, inFlight>>
  BY <1>1, <1>3, <1>4, UntouchedStep
<1>5. ASSUME NEW r \in Securing, task[r].pc = "idle",
             task' = [task EXCEPT ![r] = Begun(0, topUps[shown])],
             inFlight' = r
      PROVE  Undisturbed'
  <2>1. r \in Task /\ r \notin Paying /\ inFlight' \in Securing \cup {None}
    BY <1>5, TasksApart
  <2>2. PICK b : b = topUps[shown]
    OBVIOUS
  <2>3. b \in Nat
    <3>1. shown \in DOMAIN topUps
      BY <1>1, <1>2 DEF Typed
    <3>2. b \in 0 .. TopUp
      BY <1>1, <2>2, <3>1, TopUpAt
    <3> QED BY <3>2, BalanceAssumption
  <2>4. \E c \in credited : topUps[c] = b
    BY <1>2, <2>2
  <2> QED BY <1>1, <1>3, <1>5, <2>1, <2>2, <2>3, <2>4, BeginStep
<1> QED BY <1>1, <1>4, <1>5 DEF Secure

LEMMA LeaveStep ==
    ASSUME Undisturbed, Leave \/ ShortOfDeposit PROVE Undisturbed'
<1>1. /\ Typed /\ UNCHANGED <<chain, orders>> /\ UNCHANGED <<task, queue, inFlight, rent>>
  BY DEF Undisturbed, Leave, ShortOfDeposit
<1>2. need' \in Nat \cup {None}
  <2>1. CASE Leave
    BY <1>1, <2>1 DEF Leave, Typed
  <2>2. CASE ShortOfDeposit
    <3>1. depositShortfall \in Nat
      BY <1>1, <2>2, BalanceAssumption DEF ShortOfDeposit, depositShortfall, Typed
    <3> QED BY <2>2, <3>1 DEF ShortOfDeposit
  <2> QED BY <2>1, <2>2
<1>3. Followed'
  BY <1>1, NothingMoves DEF Undisturbed, Followed, Leave, ShortOfDeposit
<1> QED BY <1>1, <1>2, <1>3, UntouchedStep

-----------------------------------------------------------------------------
(* The steps of the chain. *)
LEMMA CreditStep ==
    ASSUME Undisturbed, NEW c \in DOMAIN topUps, Credit(c) PROVE Undisturbed'
<1>1. /\ credited' = credited \cup {c} /\ public' = public + TopUp
      /\ UNCHANGED <<configured, pending, available, applied, rents, funded, strays, topUps>>
      /\ UNCHANGED <<task, queue, inFlight, shown, card, need, rent>>
  BY DEF Credit, tab, screen
<1>2. /\ Typed /\ public \in Nat /\ pending \in Nat /\ available \in Nat /\ TopUp \in Nat
  BY BalanceAssumption DEF Undisturbed, Typed
<1>3. public' \in Nat /\ public' >= public /\ public' >= TopUp
  BY <1>1, <1>2
<1>4. Typed' /\ OnePayment' /\ RefusedWhenShort' /\ Followed'
  BY <1>1, <1>3 DEF Undisturbed, Typed, OnePayment, RefusedWhenShort, Followed
<1>5. Carried'
  BY <1>1 DEF Undisturbed, Carried, Carries, Sent
<1>6. HoldbackKept'
  <2>1. topUps[c] \in 0 .. TopUp
    BY <1>2, TopUpAt
  <2>2. topUps[c] <= TopUp /\ topUps[c] \in Nat
    BY <1>2, <2>1
  <2>3. public' >= topUps[c]
    BY <1>2, <1>3, <2>2
  <2> QED BY <1>1, <2>3 DEF HoldbackKept
<1>7. ASSUME NEW s \in Task PROVE Holds(s)' /\ Reads(s)' /\ Sees(s)' /\ Keeps(s)' /\ Pays(s)'
  <2>1. task[s].amount \in Nat /\ task[s].had \in Nat /\ task[s].back \in Nat
    BY <1>2, CallAt
  <2>2. Holds(s)'
    BY <1>1 DEF Undisturbed, Holds
  <2>3. Reads(s)'
    BY <1>1, <1>2, <1>3, <2>1 DEF Undisturbed, Reads, Sent
  <2>4. Sees(s)' /\ Keeps(s)'
    BY <1>1 DEF Undisturbed, Sees, Keeps
  <2>5. Pays(s)'
    BY <1>1, <1>2, <1>3, <2>1 DEF Undisturbed, Pays, Worth, Carries, Sent
  <2> QED BY <2>2, <2>3, <2>4, <2>5
<1> QED BY <1>4, <1>5, <1>6, <1>7 DEF Undisturbed

LEMMA FundDepositStep ==
    ASSUME Undisturbed, FundDeposit PROVE Undisturbed'
<1>1. /\ ~funded /\ funded' = TRUE /\ public >= Deposit /\ public' = public - Deposit
      /\ UNCHANGED <<configured, pending, available, applied, rents, strays, topUps, credited>>
      /\ UNCHANGED <<task, queue, inFlight, shown, card, need, rent>>
  BY DEF FundDeposit, tab, screen, orders
<1>2. Typed /\ public \in Nat /\ Deposit \in Nat
  BY BalanceAssumption DEF Undisturbed, Typed
<1>3. public' \in Nat
  BY <1>1, <1>2
<1>4. Typed' /\ OnePayment' /\ RefusedWhenShort' /\ HoldbackKept' /\ Followed'
  BY <1>1, <1>3 DEF Undisturbed, Typed, OnePayment, RefusedWhenShort, HoldbackKept, Followed
<1>5. Carried'
  BY <1>1 DEF Undisturbed, Carried, Carries, Sent
<1>6. ASSUME NEW s \in Task PROVE Holds(s)' /\ Reads(s)' /\ Sees(s)' /\ Keeps(s)' /\ Pays(s)'
  <2>1. ~task[s].seen.funded
    BY <1>1 DEF Undisturbed, Sees
  <2>2. Holds(s)'
    BY <1>1 DEF Undisturbed, Holds
  <2>3. Reads(s)'
    BY <1>1, <2>1 DEF Undisturbed, Reads, Sent
  <2>4. Sees(s)' /\ Keeps(s)'
    BY <1>1, <2>1 DEF Undisturbed, Sees, Keeps
  <2>5. Pays(s)'
    BY <1>1 DEF Undisturbed, Pays
  <2> QED BY <2>2, <2>3, <2>4, <2>5
<1> QED BY <1>4, <1>5, <1>6 DEF Undisturbed

LEMMA StrayLandsStep ==
    ASSUME Undisturbed, StrayLands PROVE FALSE
BY DEF Undisturbed, Typed, StrayLands, BagToSet

(* What the chain refuses was overtaken, in one of three ways. *)
LEMMA Refusals ==
    ASSUME Undisturbed, NEW r \in Task, task[r].tx = "flying",
           ~Lawful(task[r].pc, task[r].amount, task[r].seen)
    PROVE  \/ task[r].pc = "deposit" /\ funded /\ ~task[r].seen.funded
           \/ task[r].pc = "apply" /\ task[r].seen.rents < rents
           \/ task[r].pc = "pay" /\ task[r].seen.applied < applied
<1>1. Typed /\ Reads(r) /\ Sees(r) /\ Pays(r) /\ ~Sent(r) /\ task[r].pc \in Sends
  BY DEF Undisturbed, Typed, Sent
<1>2. /\ public \in Nat /\ applied \in Nat /\ rents \in Nat /\ funded \in BOOLEAN
      /\ task[r].amount \in Nat /\ task[r].back \in Nat
      /\ task[r].seen.applied \in Nat /\ task[r].seen.rents \in Nat
      /\ task[r].seen.funded \in BOOLEAN
  BY <1>1, CallAt DEF Typed, SeenRecord
<1>3. task[r].seen.applied <= applied /\ task[r].seen.rents <= rents
  BY <1>1 DEF Sees
<1>4. CASE task[r].pc = "create"
  BY <1>1, <1>4 DEF Lawful, Reads
<1>5. CASE task[r].pc = "deposit"
  <2>1. configured /\ ~(public >= task[r].amount)
    BY <1>1, <1>5 DEF Lawful, Reads
  <2>2. ~funded => public >= task[r].amount
    BY <1>1, <1>2, <1>5 DEF Reads
  <2>3. task[r].seen.funded => public >= task[r].amount
    BY <1>1, <1>5 DEF Reads
  <2> QED BY <1>2, <1>5, <2>1, <2>2, <2>3
<1>6. CASE task[r].pc = "apply"
  <2>1. /\ configured /\ task[r].seen.pending = pending /\ task[r].seen.applied = applied
    BY <1>1, <1>6 DEF Reads, Sees
  <2>2. ~(task[r].seen.rents = rents)
    BY <1>6, <2>1 DEF Lawful
  <2> QED BY <1>2, <1>3, <1>6, <2>2
<1>7. CASE task[r].pc = "pay"
  <2>1. available >= Rent /\ task[r].seen.rents = rents
    BY <1>1, <1>7 DEF Pays, Worth, Sees
  <2>2. ~(task[r].seen.applied = applied)
    BY <1>7, <2>1 DEF Lawful
  <2> QED BY <1>2, <1>3, <1>7, <2>2
<1> QED BY <1>1, <1>4, <1>5, <1>6, <1>7 DEF Sends

LEMMA OneHolder ==
    ASSUME Undisturbed, NEW r \in Task, NEW s \in Task, task[r].pc \in Locked, task[s].pc \in Locked
    PROVE  r = s
BY DEF Undisturbed, Holds

LEMMA RefusedStep ==
    ASSUME Undisturbed, NEW r \in Task, task[r].tx = "flying",
           ~Lawful(task[r].pc, task[r].amount, task[r].seen),
           task' = [task EXCEPT ![r].tx = "rejected"],
           UNCHANGED <<chain, orders, inFlight, screen>>, queue' = queue
    PROVE  Undisturbed'
<1>1. /\ Typed /\ Holds(r) /\ Reads(r) /\ Sees(r) /\ Keeps(r) /\ Pays(r) /\ ~Sent(r)
      /\ task[r].pc \in Sends /\ task[r].pc # "idle"
  BY DEF Undisturbed, Typed, Sent, Sends
<1>2. PICK c \in CallRecord : c = task[r]
  BY <1>1, CallAt
<1>3. PICK x : x = [c EXCEPT !.tx = "rejected"]
  OBVIOUS
<1>4. /\ x \in CallRecord /\ x.pc = c.pc /\ x.amount = c.amount /\ x.heard = c.heard
      /\ x.had = c.had /\ x.tx = "rejected" /\ x.back = c.back /\ x.seen = c.seen
  BY <1>2, <1>3 DEF CallRecord
<1>5. task' = [task EXCEPT ![r] = x]
  BY <1>1, <1>2, <1>3 DEF Typed
<1>6. task' \in [Task -> CallRecord] /\ task'[r] = x /\ \A s \in Task \ {r} : task'[s] = task[s]
  BY <1>1, <1>4, <1>5, OneRecord
<1>7. /\ task'[r].pc = task[r].pc /\ task'[r].amount = task[r].amount
      /\ task'[r].heard = task[r].heard /\ task'[r].had = task[r].had
      /\ task'[r].back = task[r].back /\ task'[r].seen = task[r].seen
      /\ task'[r].tx = "rejected" /\ ~Sent(r)'
  BY <1>2, <1>4, <1>6 DEF Sent
<1>8. Holds(r)' /\ Reads(r)' /\ (Carries(r) => Carries(r)')
  BY <1>1, <1>7, NothingMoves DEF Holds, Reads, Carries
<1>9. Pays(r)'
  BY <1>1, <1>7, NothingMoves, SameScreen DEF Pays, Worth, Carries
<1>10. Sees(r)'
  BY <1>1, <1>7, NothingMoves, Refusals DEF Sees
<1>11. Keeps(r)'
  BY <1>1, <1>7, NothingMoves, StillKeeps
<1> QED BY <1>1, <1>6, <1>7, <1>8, <1>9, <1>10, <1>11, NothingMoves, SameScreen, TaskStep

(* A transaction that executes, by what it does. *)
LEMMA ExecuteStep ==
    ASSUME Undisturbed, NEW r \in Task, task[r].tx = "flying",
           Lawful(task[r].pc, task[r].amount, task[r].seen),
           Execute(task[r].pc, task[r].amount),
           task' = [task EXCEPT ![r].tx = "landed"],
           UNCHANGED <<orders, inFlight, screen>>, strays' = strays, queue' = queue
    PROVE  Undisturbed'
<1>1. /\ Typed /\ Holds(r) /\ Reads(r) /\ Pays(r) /\ ~Sent(r) /\ task[r].pc \in Sends
      /\ \A s \in Task : Holds(s) /\ Reads(s) /\ Sees(s) /\ Keeps(s) /\ Pays(s)
  BY DEF Undisturbed, Typed, Sent
<1>2. UNCHANGED <<strays, queue, inFlight, rent, need, topUps, credited, funded>> /\ Followed'
  BY SameScreen DEF Execute, orders
<1>3. PICK c \in CallRecord : c = task[r]
  BY <1>1, CallAt
<1>4. PICK x : x = [c EXCEPT !.tx = "landed"]
  OBVIOUS
<1>5. /\ x \in CallRecord /\ x.pc = c.pc /\ x.amount = c.amount /\ x.heard = c.heard
      /\ x.had = c.had /\ x.tx = "landed" /\ x.back = c.back /\ x.seen = c.seen
  BY <1>3, <1>4 DEF CallRecord
<1>6. task' = [task EXCEPT ![r] = x]
  BY <1>1, <1>3, <1>4 DEF Typed
<1>7. task' \in [Task -> CallRecord] /\ task'[r] = x /\ \A s \in Task \ {r} : task'[s] = task[s]
  BY <1>1, <1>5, <1>6, OneRecord
<1>8. /\ task'[r].pc = task[r].pc /\ task'[r].amount = task[r].amount /\ Sent(r)'
      /\ task'[r].heard = task[r].heard /\ task'[r].had = task[r].had /\ task'[r].tx = "landed"
      /\ \A s \in Task : /\ task'[s].pc = task[s].pc /\ task'[s].had = task[s].had
                         /\ task'[s].back = task[s].back /\ task'[s].seen = task[s].seen
      /\ \A s \in Task \ {r} : Sent(s)' <=> Sent(s)
  BY <1>3, <1>5, <1>7 DEF Sent
<1>9. /\ public \in Nat /\ pending \in Nat /\ available \in Nat /\ Rent \in Nat
      /\ c.amount \in Nat /\ c.back \in Nat /\ configured \in BOOLEAN /\ funded \in BOOLEAN
      /\ applied \in Nat /\ rents \in Nat
      /\ \A s \in Task : task[s].had \in Nat /\ task[s].amount \in Nat
      /\ \A s \in Task : task[s].seen.applied \in Nat /\ task[s].seen.rents \in Nat
  <2>1. c.amount \in Nat /\ c.back \in Nat
    BY <1>3 DEF CallRecord
  <2>2. \A s \in Task : task[s].seen.applied \in Nat /\ task[s].seen.rents \in Nat
    BY <1>1, CallAt DEF SeenRecord
  <2> QED BY <1>1, <2>1, <2>2, CallAt, BalanceAssumption DEF Typed
<1>10. OnePayment' /\ RefusedWhenShort'
  BY <1>2, <1>8, TasksApart DEF Undisturbed, OnePayment, RefusedWhenShort
<1>11. \A s \in Task : Holds(s)' /\ Keeps(s)'
  BY <1>1, <1>2, <1>8 DEF Holds, Keeps
<1>12. /\ applied' = applied + (IF task[r].pc = "apply" /\ pending # 0 THEN 1 ELSE 0)
       /\ rents' = rents + (IF task[r].pc = "pay" THEN 1 ELSE 0)
  BY DEF Execute
<1>13. applied' \in Nat /\ rents' \in Nat /\ applied' >= applied /\ rents' >= rents
  BY <1>9, <1>12
<1>14. ASSUME configured' \in BOOLEAN, public' \in Nat, pending' \in Nat, available' \in Nat
       PROVE  Typed'
  <2>1. \A s \in Task : task'[s].tx # "none" => task'[s].pc \in Sends
    BY <1>1, <1>7, <1>8 DEF Typed
  <2> QED BY <1>1, <1>2, <1>7, <1>13, <1>14, <2>1 DEF Typed
<1>15. Sees(r)'
  BY <1>1, <1>2, <1>8, <1>9, <1>13 DEF Sees
<1>16. CASE task[r].pc = "create"
  <2>1. configured' = TRUE /\ UNCHANGED <<public, pending, available>>
    <3>1. PICK k : k = task[r].pc
      OBVIOUS
    <3>2. PICK a : a = task[r].amount
      OBVIOUS
    <3>3. Execute(k, a) /\ k = "create"
      BY <1>16, <3>1, <3>2
    <3>4. configured'
      BY <3>3 DEF Execute
    <3>5. configured' \in BOOLEAN
      BY <3>3 DEF Execute
    <3>6. public' = public - 0 /\ pending' = pending /\ available' = available + 0 - 0
      BY <3>3 DEF Execute
    <3> QED BY <1>9, <3>4, <3>5, <3>6
  <2>2. Typed' /\ HoldbackKept'
    BY <1>2, <1>9, <1>14, <2>1 DEF Undisturbed, HoldbackKept
  <2>3. Carried'
    <3>1. \A s \in Task : Carries(s) => Carries(s)'
      BY <1>8, <1>16 DEF Carries
    <3> QED BY <2>1, <3>1 DEF Undisturbed, Carried
  <2>4. ASSUME NEW s \in Task PROVE Reads(s)' /\ Sees(s)' /\ Pays(s)'
    <3>1. CASE s = r
      BY <1>1, <1>2, <1>8, <1>15, <1>16, <2>1, <3>1 DEF Reads, Pays, Worth, Carries
    <3>2. CASE s # r
      <4>1. task[s].pc \notin Locked
        BY <1>16, <3>2, OneHolder DEF Locked
      <4>2. Reads(s)'
        BY <1>8, <4>1 DEF Reads, Locked
      <4>3. applied' = applied /\ rents' = rents
        BY <1>9, <1>12, <1>16
      <4>4. Sees(s)'
        BY <1>1, <1>2, <1>7, <2>1, <3>2, <4>3 DEF Sees
      <4>5. Pays(s)'
        BY <1>1, <1>2, <1>7, <1>8, <2>1, <3>2 DEF Pays, Worth, Carries
      <4> QED BY <4>2, <4>4, <4>5
    <3> QED BY <3>1, <3>2
  <2> QED BY <1>2, <1>10, <1>11, <2>2, <2>3, <2>4 DEF Undisturbed
<1>17. CASE task[r].pc = "deposit"
  <2>1. /\ configured' = configured /\ public' = public - c.amount /\ pending' = pending + c.amount
        /\ available' = available
    BY <1>3, <1>9, <1>17 DEF Execute
  <2>2. public >= c.amount /\ (~funded => public >= c.amount + c.back)
    BY <1>1, <1>3, <1>17 DEF Reads, Lawful
  <2>3. Typed'
    <3>1. public' \in Nat /\ pending' \in Nat
      BY <1>9, <2>1, <2>2
    <3> QED BY <1>9, <1>14, <2>1, <3>1
  <2>4. HoldbackKept'
    <3> SUFFICES ASSUME ~funded PROVE \E k \in credited : public' >= topUps[k]
      BY <1>2 DEF HoldbackKept
    <3>1. r \in Securing
      BY <1>1, <1>17 DEF Pays, Reads, Task
    <3>2. PICK k \in credited : topUps[k] = c.back
      BY <1>1, <1>3, <1>17, <3>1 DEF Keeps
    <3>3. public' >= c.back
      BY <1>9, <2>1, <2>2
    <3> QED BY <3>2, <3>3
  <2>5. Carried'
    <3>1. Carries(r)'
      BY <1>8, <1>17 DEF Carries
    <3> QED BY <3>1 DEF Carried
  <2>6. public' + pending' + available' = public + pending + available
        /\ pending' + available' = c.amount + pending + available
    BY <1>9, <2>1
  <2>7. ASSUME NEW s \in Task PROVE Reads(s)' /\ Sees(s)' /\ Pays(s)'
    <3>1. CASE s = r
      <4>1. Reads(s)'
        BY <1>1, <1>8, <1>17, <2>1, <3>1 DEF Reads
      <4>2. r \in Paying => task[r].had <= pending' + available'
        BY <1>1, <1>3, <1>17, <2>6 DEF Pays, Worth
      <4>3. Pays(s)'
        BY <1>1, <1>2, <1>8, <1>17, <3>1, <4>2 DEF Pays, Worth
      <4> QED BY <1>15, <3>1, <4>1, <4>3
    <3>2. CASE s # r
      <4>1. task[s].pc \notin Locked
        BY <1>17, <3>2, OneHolder DEF Locked
      <4>2. Reads(s)'
        BY <1>8, <4>1 DEF Reads, Locked
      <4>3. applied' = applied /\ rents' = rents
        BY <1>9, <1>12, <1>17
      <4>4. Sees(s)'
        BY <1>1, <1>2, <1>7, <3>2, <4>1, <4>3 DEF Sees, Locked
      <4>5. Pays(s)'
        BY <1>1, <1>2, <1>7, <1>8, <2>1, <2>6, <3>2, <4>1 DEF Pays, Worth, Carries, Locked
      <4> QED BY <4>2, <4>4, <4>5
    <3> QED BY <3>1, <3>2
  <2> QED BY <1>2, <1>10, <1>11, <2>3, <2>4, <2>5, <2>7 DEF Undisturbed
<1>18. CASE task[r].pc = "apply"
  <2>1. /\ configured' = configured /\ public' = public /\ pending' = 0
        /\ available' = available + pending
    BY <1>9, <1>18 DEF Execute
  <2>2. Typed' /\ HoldbackKept' /\ Carried'
    BY <1>2, <1>9, <1>14, <2>1 DEF Undisturbed, HoldbackKept, Carried
  <2>3. public' + pending' + available' = public + pending + available /\ available' >= available
        /\ available' = pending + available
    BY <1>9, <2>1
  <2>4. ASSUME NEW s \in Task PROVE Reads(s)' /\ Sees(s)' /\ Pays(s)'
    <3>1. CASE s = r
      <4>1. Reads(s)'
        BY <1>1, <1>8, <1>18, <2>1, <3>1 DEF Reads
      <4>2. r \in Paying => task[r].had <= available'
        BY <1>1, <1>18, <2>3 DEF Pays, Worth, Carries
      <4>3. Pays(s)'
        BY <1>1, <1>2, <1>8, <1>18, <3>1, <4>2 DEF Pays, Worth, Carries
      <4> QED BY <1>15, <3>1, <4>1, <4>3
    <3>2. CASE s # r
      <4>1. task[s].pc \notin Locked
        BY <1>18, <3>2, OneHolder DEF Locked
      <4>2. Reads(s)'
        BY <1>8, <4>1 DEF Reads, Locked
      <4>3. Sees(s)'
        <5>1. rents' = rents
          BY <1>9, <1>12, <1>18
        <5>2. task'[s] = task[s] /\ task[s].pc # "apply" /\ Sees(s) /\ funded' = funded
          BY <1>1, <1>2, <1>7, <3>2, <4>1 DEF Locked
        <5>3. /\ task[s].seen.applied <= applied => task[s].seen.applied <= applied'
              /\ task[s].seen.applied < applied => task[s].seen.applied < applied'
          BY <1>9, <1>13
        <5> QED BY <5>1, <5>2, <5>3 DEF Sees
      <4>4. s \in Paying /\ task[s].pc # "idle" => Worth(s)'
        <5>1. SUFFICES ASSUME s \in Paying, task[s].pc # "idle", Worth(s) PROVE Worth(s)'
          BY <1>1 DEF Pays
        <5>2. available' \in Nat /\ task[s].had \in Nat
          BY <1>9, <2>1
        <5>3. task[s].had <= available => task[s].had <= available'
          BY <1>9, <2>3, <5>2
        <5>4. available >= Rent => available' >= Rent
          BY <1>9, <2>3, <5>2
        <5> QED BY <1>7, <1>8, <2>3, <3>2, <4>1, <5>1, <5>3, <5>4 DEF Worth, Carries, Locked
      <4>5. Pays(s)'
        BY <1>1, <1>2, <1>7, <1>8, <3>2, <4>4 DEF Pays
      <4> QED BY <4>2, <4>3, <4>5
    <3> QED BY <3>1, <3>2
  <2> QED BY <1>2, <1>10, <1>11, <2>2, <2>4 DEF Undisturbed
<1>19. CASE task[r].pc = "pay"
  <2>1. r \in Paying /\ available >= Rent
    BY <1>1, <1>19 DEF Pays, Worth
  <2>2. configured' = configured /\ public' = public /\ pending' = pending
        /\ available' = available - Rent
    BY <1>9, <1>19 DEF Execute
  <2>3. available' \in Nat
    BY <1>9, <2>1, <2>2
  <2>4. Typed' /\ HoldbackKept'
    BY <1>2, <1>9, <1>14, <2>2, <2>3 DEF Undisturbed, HoldbackKept
  <2>5. Carried'
    <3>1. \A s \in Task : Carries(s) => Carries(s)'
      BY <1>8, <1>19 DEF Carries
    <3> QED BY <2>2, <3>1 DEF Undisturbed, Carried
  <2>6. ASSUME NEW s \in Task PROVE Reads(s)' /\ Sees(s)' /\ Pays(s)'
    <3>1. CASE s = r
      BY <1>1, <1>2, <1>8, <1>15, <1>19, <3>1 DEF Reads, Pays, Worth, Carries
    <3>2. CASE s # r
      <4>1. Reads(s)'
        BY <1>1, <1>2, <1>7, <1>8, <2>2, <3>2 DEF Reads
      <4>2. s \in Paying => task[s].pc = "idle"
        BY <1>19, <2>1, <3>2 DEF Undisturbed, OnePayment
      <4>3. task[s].pc # "pay"
        BY <1>1, <4>2 DEF Pays
      <4>4. Sees(s)'
        <5>1. applied' = applied /\ pending' = pending /\ funded' = funded
          BY <1>2, <1>9, <1>12, <1>19, <2>2
        <5>2. task'[s] = task[s] /\ Sees(s)
          BY <1>1, <1>7, <3>2
        <5>3. /\ task[s].seen.rents <= rents => task[s].seen.rents <= rents'
              /\ task[s].seen.rents < rents => task[s].seen.rents < rents'
          BY <1>9, <1>13
        <5> QED BY <4>3, <5>1, <5>2, <5>3 DEF Sees
      <4>5. Pays(s)'
        BY <1>1, <1>8, <4>2 DEF Pays
      <4> QED BY <4>1, <4>4, <4>5
    <3> QED BY <3>1, <3>2
  <2> QED BY <1>2, <1>10, <1>11, <2>4, <2>5, <2>6 DEF Undisturbed
<1> QED BY <1>1, <1>16, <1>17, <1>18, <1>19 DEF Sends

LEMMA LandStep ==
    ASSUME Undisturbed, NEW r \in Task, Land(r) PROVE Undisturbed'
<1>1. task[r].tx = "flying" /\ UNCHANGED <<orders, inFlight, screen>> /\ strays' = strays /\ queue' = queue
  BY DEF Land
<1>2. CASE Lawful(task[r].pc, task[r].amount, task[r].seen)
  BY <1>1, <1>2, ExecuteStep DEF Land
<1>3. CASE ~Lawful(task[r].pc, task[r].amount, task[r].seen)
  BY <1>1, <1>3, RefusedStep DEF Land, chain
<1> QED BY <1>2, <1>3

(* The page goes with nothing half done. *)
LEMMA UnloadedStep ==
    ASSUME Undisturbed, Unloaded, ~disturbed', UNCHANGED money, credited' = credited,
           topUps' \in Seq(0 .. TopUp),
           credited \subseteq DOMAIN topUps', \A c \in credited : topUps'[c] = topUps[c]
    PROVE  Undisturbed'
<1>1. /\ Typed /\ \A r \in Task : ~HalfDone(r)
      /\ task' = [r \in Task |-> Idle] /\ queue' = <<>> /\ inFlight' = None
      /\ card' = "off" /\ need' = None /\ rent' = Unpaid
      /\ UNCHANGED <<configured, public, pending, available, applied, rents, funded>>
  BY DEF Undisturbed, Unloaded, money
<1>2. Idle \in CallRecord /\ Idle.pc = "idle" /\ Idle.tx = "none" /\ Idle.seen = Blank
  BY BlankSeen DEF Idle, CallRecord, Pc
<1>3. \A r \in Task : task'[r].pc = "idle" /\ task'[r].tx = "none" /\ task'[r].seen = Blank
  BY <1>1, <1>2
<1>4. task' \in [Task -> CallRecord] /\ queue' \in Seq(Task)
  BY <1>1, <1>2
<1>5. DOMAIN strays' = {}
  <2>1. \A r \in Task : task[r].tx # "flying"
    BY <1>1 DEF HalfDone
  <2>2. strays' = strays (+) Flying(Task)
    BY DEF Unloaded
  <2> QED BY <1>1, <2>1, <2>2, NoStrays DEF Typed
<1>6. DOMAIN rent' = {"says", "had"} /\ RefusedWhenShort' /\ Followed'
  BY <1>1 DEF Unpaid, RefusedWhenShort, Followed
<1>7. Typed'
  BY <1>1, <1>3, <1>4, <1>5, <1>6 DEF Typed
<1>8. pending = 0
  BY <1>1 DEF Undisturbed, Carried, Carries, HalfDone, Sent
<1>9. Carried' /\ HoldbackKept' /\ OnePayment'
  BY <1>1, <1>3, <1>8, TasksApart DEF Undisturbed, Carried, HoldbackKept, OnePayment
<1>10. \A r \in Task : Holds(r)' /\ Reads(r)' /\ Sees(r)' /\ Keeps(r)' /\ Pays(r)'
  BY <1>1, <1>3, BlankSeen DEF Holds, Reads, Sees, Keeps, Pays, Locked, Typed
<1> QED BY <1>6, <1>7, <1>9, <1>10 DEF Undisturbed

LEMMA CloseStep ==
    ASSUME Undisturbed, Close, ~disturbed' PROVE Undisturbed'
<1>1. Unloaded /\ UNCHANGED money /\ credited' = credited /\ topUps' = topUps
  BY DEF Close, orders
<1> QED BY <1>1, UnloadedStep DEF Undisturbed, Typed

LEMMA CheckoutStep ==
    ASSUME Undisturbed, Checkout, ~disturbed' PROVE Undisturbed'
<1>1. /\ Typed /\ Unloaded /\ UNCHANGED money /\ credited' = credited
      /\ need # None => need <= TopUp
  BY DEF Undisturbed, Checkout
<1>2. PICK x : x = holdbackFor
  OBVIOUS
<1>3. x \in 0 .. TopUp
  <2>1. TopUp \in Nat /\ DefaultHoldback \in Nat /\ need \in Nat \cup {None}
    BY <1>1, BalanceAssumption DEF Typed
  <2>2. holdbackFor \in 0 .. TopUp
    BY <1>1, <2>1 DEF holdbackFor
  <2> QED BY <1>2, <2>2
<1>4. topUps' = Append(topUps, x)
  BY <1>2 DEF Checkout
<1>5. /\ topUps \in Seq(0 .. TopUp)
      /\ credited \subseteq DOMAIN topUps
  BY <1>1 DEF Typed
<1>6. /\ topUps' \in Seq(0 .. TopUp)
      /\ \A c \in DOMAIN topUps : c \in DOMAIN topUps' /\ topUps'[c] = topUps[c]
  BY <1>3, <1>4, <1>5, AppendProperties, LenProperties
<1> QED BY <1>1, <1>5, <1>6, UnloadedStep

-----------------------------------------------------------------------------
LEMMA BalanceInvInit == Init => BalanceInv
<1> SUFFICES ASSUME Init PROVE Undisturbed
  BY DEF BalanceInv
<1>1. Idle \in CallRecord /\ Idle.pc = "idle" /\ Idle.tx = "none" /\ Idle.seen = Blank
  BY BlankSeen DEF Idle, CallRecord, Pc
<1>2. \A r \in Task : task[r].pc = "idle" /\ task[r].tx = "none" /\ task[r].seen = Blank
  BY <1>1 DEF Init
<1>3. DOMAIN rent = {"says", "had"} /\ RefusedWhenShort /\ Followed
  BY DEF Init, Unpaid, RefusedWhenShort, Followed
<1>4. task \in [Task -> CallRecord] /\ queue \in Seq(Task) /\ DOMAIN strays = {}
  BY <1>1 DEF Init, EmptyBag, SetToBag
<1>5. Typed
  <2>1. topUps \in Seq(0 .. TopUp) /\ credited \subseteq DOMAIN topUps
    BY DEF Init
  <2>2. /\ configured \in BOOLEAN /\ funded \in BOOLEAN
        /\ public \in Nat /\ pending \in Nat /\ available \in Nat /\ applied \in Nat /\ rents \in Nat
        /\ inFlight \in Securing \cup {None} /\ need \in Nat \cup {None}
    BY DEF Init
  <2> QED BY <1>2, <1>3, <1>4, <2>1, <2>2 DEF Typed
<1>6. OnePayment /\ Carried /\ HoldbackKept
  BY <1>2, TasksApart DEF Init, OnePayment, Carried, HoldbackKept
<1>7. \A r \in Task : Holds(r) /\ Reads(r) /\ Sees(r) /\ Keeps(r) /\ Pays(r)
  BY <1>2, BlankSeen DEF Init, Holds, Reads, Sees, Keeps, Pays, Locked
<1> QED BY <1>3, <1>5, <1>6, <1>7 DEF Undisturbed

LEMMA BalanceInvNext == BalanceInv /\ [Next]_vars => BalanceInv'
<1> SUFFICES ASSUME BalanceInv, [Next]_vars, ~disturbed' PROVE Undisturbed'
  BY DEF BalanceInv
<1>1. ~disturbed
  <2>1. \/ disturbed' = disturbed \/ disturbed' = TRUE
        \/ \E r \in Task : Throws(r)
        \/ Unloaded
    BY DEF Next, vars, Credit, FundDeposit, ShortOfDeposit, Checkout, ShowCard, Retry, Secure, Leave,
           Close, StrayLands, Enable, PayRent, Proceeds,
           Opened, Balance, Ensure, ReadAccount, Ready, Check, Submit, Land, Confirmed,
           BalanceUnread, Hang, Wakes, Deadline, Outer
  <2> QED BY <2>1 DEF Throws, Unloaded
<1>2. Undisturbed
  BY <1>1 DEF BalanceInv
<1>3. CASE UNCHANGED vars
  <2>1. /\ UNCHANGED <<chain, orders>> /\ UNCHANGED <<task, queue, inFlight, rent>>
        /\ UNCHANGED <<shown, card, need>>
    BY <1>3 DEF vars, tab, screen
  <2>2. need' \in Nat \cup {None} /\ Followed'
    BY <1>2, <2>1, NothingMoves DEF Undisturbed, Typed, Followed
  <2> QED BY <1>2, <2>1, <2>2, UntouchedStep
<1>4. CASE FundDeposit \/ ShortOfDeposit \/ Checkout \/ ShowCard \/ Retry \/ Leave \/ Close \/ StrayLands
  BY <1>2, <1>4, FundDepositStep, LeaveStep, CheckoutStep, SecureStep, CloseStep, StrayLandsStep
<1>5. ASSUME NEW c \in DOMAIN topUps, Credit(c) PROVE Undisturbed'
  BY <1>2, <1>5, CreditStep
<1>6. ASSUME NEW r \in Task, Enable(r) \/ PayRent(r) \/ BalanceUnread(r) PROVE Undisturbed'
  BY <1>2, <1>6, EnableStep, PayRentStep, BalanceStep
<1>7. ASSUME NEW r \in Task, Proceeds(r) PROVE Undisturbed'
  BY <1>2, <1>7, OpenedStep, BalanceStep, EnsureStep, ReadAccountStep, ReadyStep, CheckStep,
     SubmitStep, LandStep, ConfirmedStep DEF Proceeds
<1>8. ASSUME NEW r \in Task, Throws(r) \/ Hang(r) \/ Wakes(r) \/ Outer(r) PROVE Undisturbed'
  BY <1>2, <1>8, ThrowsStep, HangStep, OuterStep
<1>9. ASSUME NEW r \in Task, Deadline(r) PROVE Undisturbed'
  BY <1>9 DEF Deadline
<1> QED BY <1>3, <1>4, <1>5, <1>6, <1>7, <1>8, <1>9 DEF Next

LEMMA BalanceInvariant == Spec => []BalanceInv
<1> QED BY BalanceInvInit, BalanceInvNext, PTL DEF Spec

(* However the calls of one tab interleave, wait for each other, fail and   *)
(* hang, until work is abandoned or lost half done: some top-up's holdback  *)
(* stays public until the deposit is spent (securePrivateBalance), the      *)
(* chain refuses a transaction only where fund_deposit, a payment or an     *)
(* application of another call came between the read and it (no other pair  *)
(* meets, because of withBalanceLock), nothing stays pending once the lock  *)
(* is free, and rent is refused only to who was short.                      *)
THEOREM BalanceAlwaysSound == Spec => []BalanceSound
<1>1. BalanceInv => BalanceSound
  <2> SUFFICES ASSUME Undisturbed
               PROVE  HoldbackKept /\ NoneDoomed /\ NothingPending /\ RefusedWhenShort
    BY DEF BalanceInv, BalanceSound
  <2>1. HoldbackKept /\ RefusedWhenShort
    BY DEF Undisturbed
  <2>2. NoneDoomed
    BY DEF Undisturbed, Sees, NoneDoomed
  <2>3. NothingPending
    BY DEF Undisturbed, Carried, Carries, Holds, Locked, NothingPending
  <2> QED BY <2>1, <2>2, <2>3
<1> QED BY <1>1, BalanceInvariant, PTL
=============================================================================
