---------------------------- MODULE SignInProofs ----------------------------
(***************************************************************************)
(* Proofs about SignIn, for any number of wallets, tabs and calls and any  *)
(* sizes of the store.  The store of challenges and the sessions of the    *)
(* browser have an invariant each; they share the logins only.             *)
(***************************************************************************)
EXTENDS SignIn, SequenceTheorems, FiniteSetTheorems, TLAPS

-----------------------------------------------------------------------------
(* The store.  A stored challenge has not been used, and one that did not   *)
(* take its wallet's last slot has room behind it.                          *)
Ticket ==
    [wallet : Wallet, expiresAt : Nat, attempts : Nat, process : Nat, crowded : BOOLEAN,
     sessions : Nat, grantedAt : Nat \cup {None}]

StoreTyped ==
    /\ now \in Nat /\ restarts \in Nat
    /\ tickets \in Seq(Ticket) /\ pending \subseteq DOMAIN tickets
    /\ \A n \in DOMAIN tickets : tickets[n].process <= restarts

Unused ==
    \A n \in pending :
        /\ tickets[n].sessions = 0
        /\ ~tickets[n].crowded =>
               Cardinality(Older(OfWallet(pending, tickets[n].wallet), n)) < MaxPerWallet - 1

StoreInv == StoreTyped /\ Unused /\ ChallengesHold

(* The sessions.  One that is kept was brought by a login that is over and  *)
(* was not abandoned, so it cannot be abandoned any more.                   *)
Session == [login : Nat, expiresAt : Nat, epoch : Nat]
Login   == [tab : Tab, pc : {"ask", "signed", "granted", "failed", "done"},
            nonce : Nat \cup {None}, session : Session \cup {None}, abandoned : BOOLEAN]

Brought(s) ==
    s \in Session /\ s.login \in DOMAIN logins
        /\ logins[s.login].pc = "done" /\ ~logins[s.login].abandoned

BrowserTyped ==
    /\ logins \in Seq(Login) /\ epoch \in Nat
    /\ DOMAIN stored = Wallet /\ DOMAIN cache = Tab /\ DOMAIN inFlight = Tab
    /\ \A l \in DOMAIN logins : logins[l].pc = "granted" =>
           logins[l].session \in Session /\ logins[l].session.login = l

AllBrought ==
    /\ \A t \in Tab : cache[t] # None => Brought(cache[t])
    /\ \A w \in Wallet : stored[w] # None => Brought(stored[w])

Shared ==
    \A t \in Tab : inFlight[t] # None =>
        /\ inFlight[t] \in DOMAIN logins
        /\ logins[inFlight[t]].tab = t /\ logins[inFlight[t]].pc # "done"
        /\ ~logins[inFlight[t]].abandoned

LoginsInv == BrowserTyped /\ AllBrought /\ Shared /\ OneLogin

Fresh ==
    \A t \in Tab, r \in Request :
        LET c == calls[t][r] IN
        /\ c.pc = "await" => c.try = 1 \/ c.login > c.since
        /\ c.pc = "send" => c.try = 1 \/ c.session.login > c.since

CallsInv == DOMAIN calls = Tab /\ (\A t \in Tab : DOMAIN calls[t] = Request) /\ Fresh

SignInInv == StoreInv /\ LoginsInv /\ CallsInv

-----------------------------------------------------------------------------
(* The store keeps its promises. *)
LEMMA TicketsAre ==
    ASSUME StoreTyped
    PROVE  /\ Len(tickets) \in Nat /\ DOMAIN tickets = 1 .. Len(tickets)
           /\ \A n \in DOMAIN tickets : tickets[n] \in Ticket
BY LenProperties, ElementOfSeq DEF StoreTyped

LEMMA FewerElements ==
    ASSUME NEW S, IsFiniteSet(S), NEW T \in SUBSET S
    PROVE  /\ IsFiniteSet(T)
           /\ Cardinality(T) \in Nat /\ Cardinality(S) \in Nat /\ Cardinality(T) <= Cardinality(S)
BY FS_Subset, FS_CardinalityType

LEMMA PendingFinite ==
    ASSUME StoreTyped PROVE IsFiniteSet(pending)
BY TicketsAre, FS_Interval, FS_Subset DEF StoreTyped

LEMMA LaterNumbers ==
    ASSUME NEW m \in Nat, NEW n \in 1 .. m
    PROVE  IsFiniteSet((n + 1) .. m) /\ Cardinality((n + 1) .. m) = m - n
<1>1. n \in Nat /\ n <= m /\ n + 1 \in Int /\ m \in Int
  OBVIOUS
<1>2. PICK a \in Int : a = n + 1
  BY <1>1
<1>3. IsFiniteSet(a .. m) /\ Cardinality(a .. m) = IF a > m THEN 0 ELSE m - a + 1
  BY <1>1, FS_Interval
<1>4. (IF a > m THEN 0 ELSE m - a + 1) = m - n
  BY <1>1, <1>2
<1> QED BY <1>2, <1>3, <1>4

LEMMA ChallengeStore ==
    ASSUME StoreInv, NEW w \in Wallet, Challenge(w), now' = now PROVE StoreInv'
<1> DEFINE room == WithRoom(Unexpired)
           kept == WithinQuota(room, w)
<1>1. PICK k : k = Len(tickets) + 1
  OBVIOUS
<1>2. PICK tk : tk = [wallet |-> w, expiresAt |-> now + ChallengeTtl, attempts |-> 0,
                      process |-> restarts,
                      crowded |-> Cardinality(OfWallet(room, w)) >= MaxPerWallet - 1,
                      sessions |-> 0, grantedAt |-> None]
  OBVIOUS
<1>3. /\ tickets' = Append(tickets, tk) /\ pending' = kept \cup {k} /\ restarts' = restarts
  BY <1>1, <1>2 DEF Challenge
<1>4. /\ StoreTyped /\ now \in Nat /\ restarts \in Nat /\ Len(tickets) \in Nat /\ k \in Nat
      /\ DOMAIN tickets = 1 .. Len(tickets) /\ tickets \in Seq(Ticket)
      /\ \A n \in DOMAIN tickets : tickets[n] \in Ticket
      /\ pending \subseteq DOMAIN tickets
  BY <1>1, TicketsAre DEF StoreInv, StoreTyped
<1>5. tk \in Ticket
  BY <1>2, <1>4, SignInAssumption DEF Ticket
<1>6. /\ tickets' \in Seq(Ticket) /\ Len(tickets') = k /\ DOMAIN tickets' = 1 .. k
      /\ \A n \in DOMAIN tickets : tickets'[n] = tickets[n]
      /\ tickets'[k] = tk
  BY <1>1, <1>3, <1>4, <1>5, AppendProperties, LenProperties
<1>7. /\ kept \subseteq room /\ room \subseteq Unexpired /\ Unexpired \subseteq pending
  BY DEF WithinQuota, WithRoom, Unexpired
<1>8. /\ \A n \in Unexpired \ room :
            Cardinality(Unexpired) >= MaxPending /\ ~(Cardinality(Newer(Unexpired, n)) < MaxPending - 1)
      /\ \A n \in room \ kept :
            /\ tickets[n].wallet = w
            /\ ~(Cardinality(Older(OfWallet(room, w), n)) < MaxPerWallet - 1)
  <2>1. IsFiniteSet(Unexpired)
    BY <1>4, <1>7, PendingFinite, FewerElements
  <2>2. Cardinality(Unexpired) \in Nat /\ MaxPending \in Nat
    BY <2>1, FS_CardinalityType, SignInAssumption
  <2> QED BY <2>2 DEF WithRoom, WithinQuota
<1> HIDE DEF room, kept
<1>9. IsFiniteSet(pending) /\ IsFiniteSet(OfWallet(room, w)) /\ IsFiniteSet(Unexpired)
  BY <1>4, <1>7, PendingFinite, FewerElements DEF OfWallet
<1>10. StoreTyped'
  <2>1. pending' \subseteq DOMAIN tickets'
    BY <1>1, <1>3, <1>4, <1>6, <1>7
  <2>2. \A n \in DOMAIN tickets' : tickets'[n].process <= restarts'
    <3>1. tk.process = restarts
      BY <1>2
    <3> QED BY <1>1, <1>3, <1>4, <1>6, <3>1 DEF StoreTyped
  <2> QED BY <1>3, <1>4, <1>6, <2>1, <2>2 DEF StoreTyped
<1>11. Unused'
  <2> DEFINE Before(n) == {m \in {x \in pending' : tickets'[x].wallet = tickets'[n].wallet} : m < n}
  <2>1. ASSUME NEW n \in kept, ~tickets'[n].crowded
        PROVE  Cardinality(Before(n)) < MaxPerWallet - 1
    <3>1. n \in pending /\ n \in DOMAIN tickets /\ tickets'[n] = tickets[n] /\ n < k
      BY <1>1, <1>4, <1>6, <1>7
    <3>2. PICK S : S = Older(OfWallet(pending, tickets[n].wallet), n)
      OBVIOUS
    <3>3. Before(n) \subseteq S /\ S \subseteq pending
      BY <1>1, <1>3, <1>4, <1>6, <1>7, <3>1, <3>2 DEF Older, OfWallet
    <3>4. Cardinality(S) < MaxPerWallet - 1
      BY <2>1, <3>1, <3>2 DEF StoreInv, Unused
    <3> HIDE DEF Before
    <3>5. Cardinality(Before(n)) \in Nat /\ Cardinality(S) \in Nat
          /\ Cardinality(Before(n)) <= Cardinality(S)
      BY <1>9, <3>3, FewerElements
    <3> QED BY <3>4, <3>5, SignInAssumption
  <2>2. ASSUME ~tk.crowded PROVE Cardinality(Before(k)) < MaxPerWallet - 1
    <3>1. PICK S : S = OfWallet(room, w)
      OBVIOUS
    <3>2. Before(k) \subseteq S
      BY <1>1, <1>2, <1>3, <1>4, <1>6, <1>7, <3>1 DEF OfWallet
    <3>3. ~(Cardinality(S) >= MaxPerWallet - 1)
      BY <1>2, <2>2, <3>1
    <3> HIDE DEF Before
    <3>4. Cardinality(Before(k)) \in Nat /\ Cardinality(S) \in Nat
          /\ Cardinality(Before(k)) <= Cardinality(S)
      BY <1>9, <3>1, <3>2, FewerElements
    <3> QED BY <3>3, <3>4, SignInAssumption
  <2>3. ASSUME NEW n \in pending', ~tickets'[n].crowded
        PROVE  Cardinality(Before(n)) < MaxPerWallet - 1
    BY <1>3, <1>6, <2>1, <2>2, <2>3
  <2>4. \A n \in pending' : tickets'[n].sessions = 0
    <3>1. tk.sessions = 0
      BY <1>2
    <3> QED BY <1>3, <1>4, <1>6, <1>7, <3>1 DEF StoreInv, Unused
  <2> QED BY <2>3, <2>4 DEF Unused, Older, OfWallet
<1>12. SingleUse'
  <2>1. tk.sessions = 0
    BY <1>2
  <2> QED BY <1>1, <1>4, <1>6, <2>1 DEF StoreInv, ChallengesHold, SingleUse
<1>13. OutlivesFlood'
  <2> SUFFICES ASSUME NEW n \in DOMAIN tickets', Lost(n)'
               PROVE  \/ Len(tickets') - n >= MaxPending
                      \/ tickets'[n].crowded
                      \/ tickets'[n].attempts >= MaxAttempts
    BY DEF OutlivesFlood
  <2>1. /\ n \in DOMAIN tickets /\ tickets'[n] = tickets[n] /\ n \notin pending'
        /\ n \in 1 .. Len(tickets)
        /\ tickets[n].sessions = 0 /\ tickets[n].expiresAt > now
        /\ tickets[n].process = restarts
    BY <1>1, <1>3, <1>4, <1>6 DEF Lost, Stored
  <2>2. CASE n \notin pending
    <3>1. Lost(n)
      BY <2>1, <2>2 DEF Lost, Stored
    <3>2. \/ Len(tickets) - n >= MaxPending
          \/ tickets[n].crowded
          \/ tickets[n].attempts >= MaxAttempts
      BY <2>1, <3>1 DEF StoreInv, ChallengesHold, OutlivesFlood
    <3> QED BY <1>1, <1>4, <1>6, <2>1, <3>2, SignInAssumption
  <2>3. CASE n \in pending
    <3>1. n \in Unexpired /\ n \notin kept
      BY <1>3, <2>1, <2>3 DEF Unexpired
    <3>2. CASE n \notin room
      <4>1. PICK S : S = Newer(Unexpired, n)
        OBVIOUS
      <4>2. S \subseteq (n + 1) .. Len(tickets)
        BY <1>4, <1>7, <2>1, <4>1 DEF Newer
      <4>3. IsFiniteSet((n + 1) .. Len(tickets))
            /\ Cardinality((n + 1) .. Len(tickets)) = Len(tickets) - n
        BY <1>4, <2>1, LaterNumbers
      <4>4. Cardinality(S) \in Nat /\ Cardinality(S) <= Len(tickets) - n
        BY <4>2, <4>3, FewerElements
      <4>5. ~(Cardinality(S) < MaxPending - 1)
        BY <1>8, <3>1, <3>2, <4>1
      <4> QED BY <1>1, <1>4, <1>6, <2>1, <4>4, <4>5, SignInAssumption
    <3>3. CASE n \in room
      <4>1. PICK S : S = Older(OfWallet(room, w), n)
        OBVIOUS
      <4>2. PICK T : T = Older(OfWallet(pending, w), n)
        OBVIOUS
      <4>3. S \subseteq T /\ T \subseteq pending
        BY <1>7, <4>1, <4>2 DEF Older, OfWallet
      <4>4. tickets[n].wallet = w /\ ~(Cardinality(S) < MaxPerWallet - 1)
        BY <1>8, <3>1, <3>3, <4>1
      <4>5. IsFiniteSet(T)
        BY <1>9, <4>3, FewerElements
      <4>6. Cardinality(S) \in Nat /\ Cardinality(T) \in Nat /\ Cardinality(S) <= Cardinality(T)
        BY <4>3, <4>5, FewerElements
      <4>7. ~(Cardinality(T) < MaxPerWallet - 1)
        BY <4>4, <4>6, SignInAssumption
      <4>8. tickets[n].crowded
        BY <2>3, <4>2, <4>4, <4>7 DEF StoreInv, Unused
      <4> QED BY <2>1, <4>8
    <3> QED BY <3>2, <3>3
  <2> QED BY <2>2, <2>3
<1> QED BY <1>10, <1>11, <1>12, <1>13 DEF StoreInv, ChallengesHold

(* A step that issues no challenge and frees some of the store. *)
LEMMA StoreShrinks ==
    ASSUME StoreInv, tickets' \in Seq(Ticket), Len(tickets') = Len(tickets),
           pending' \subseteq pending,
           now' \in Nat, restarts' \in Nat, restarts <= restarts',
           \A n \in DOMAIN tickets :
               /\ tickets'[n].wallet = tickets[n].wallet
               /\ tickets'[n].crowded = tickets[n].crowded
               /\ tickets'[n].process = tickets[n].process,
           \A n \in pending' : tickets'[n].sessions = 0
    PROVE  StoreTyped' /\ Unused'
<1>1. /\ StoreTyped /\ pending \subseteq DOMAIN tickets /\ restarts \in Nat
      /\ \A n \in DOMAIN tickets : tickets[n] \in Ticket
  BY TicketsAre DEF StoreInv, StoreTyped
<1>2. DOMAIN tickets' = DOMAIN tickets
  BY <1>1, LenProperties DEF StoreTyped
<1>3. \A n \in DOMAIN tickets' : tickets'[n].process <= restarts'
  <2> SUFFICES ASSUME NEW n \in DOMAIN tickets PROVE tickets'[n].process <= restarts'
    BY <1>2
  <2>1. tickets[n].process \in Nat /\ tickets[n].process <= restarts
    BY <1>1 DEF StoreTyped, Ticket
  <2> QED BY <1>1, <2>1
<1>4. StoreTyped'
  BY <1>1, <1>2, <1>3 DEF StoreTyped
<1>5. ASSUME NEW n \in pending', ~tickets'[n].crowded
      PROVE  Cardinality({m \in {x \in pending' : tickets'[x].wallet = tickets'[n].wallet} : m < n})
                 < MaxPerWallet - 1
  <2>1. n \in pending /\ ~tickets[n].crowded /\ tickets'[n].wallet = tickets[n].wallet
    BY <1>1, <1>5
  <2>2. PICK S : S = Older(OfWallet(pending, tickets[n].wallet), n)
    OBVIOUS
  <2>3. PICK T : T = {m \in {x \in pending' : tickets'[x].wallet = tickets'[n].wallet} : m < n}
    OBVIOUS
  <2>4. T \subseteq S /\ S \subseteq pending
    BY <1>1, <2>1, <2>2, <2>3 DEF Older, OfWallet
  <2>5. Cardinality(S) < MaxPerWallet - 1
    BY <2>1, <2>2 DEF StoreInv, Unused
  <2>6. IsFiniteSet(S)
    BY <1>1, <2>4, PendingFinite, FewerElements
  <2>7. Cardinality(T) \in Nat /\ Cardinality(S) \in Nat /\ Cardinality(T) <= Cardinality(S)
    BY <2>4, <2>6, FewerElements
  <2> QED BY <2>3, <2>5, <2>7, SignInAssumption
<1> QED BY <1>4, <1>5 DEF Unused, Older, OfWallet

LEMMA TicketTried ==
    ASSUME NEW a \in Ticket, NEW b, b = [a EXCEPT !.attempts = @ + 1]
    PROVE  /\ b \in Ticket /\ b.sessions = a.sessions /\ b.grantedAt = a.grantedAt
           /\ b.wallet = a.wallet /\ b.crowded = a.crowded
           /\ b.process = a.process /\ b.expiresAt = a.expiresAt
           /\ b.attempts = a.attempts + 1
BY DEF Ticket

LEMMA VerifyStore ==
    ASSUME StoreInv, NEW n, VerifyLogin(n), now' = now PROVE StoreInv'
<1>1. /\ StoreTyped /\ now \in Nat /\ restarts \in Nat /\ Len(tickets) \in Nat
      /\ DOMAIN tickets = 1 .. Len(tickets) /\ tickets \in Seq(Ticket)
      /\ \A i \in DOMAIN tickets : tickets[i] \in Ticket
      /\ pending \subseteq DOMAIN tickets
  BY TicketsAre DEF StoreInv, StoreTyped
<1>2. pending' = pending \ {n} /\ restarts' = restarts
  BY DEF VerifyLogin, Without
<1>3. CASE Valid(n)
  <2>1. n \in pending /\ n \in DOMAIN tickets /\ n \in 1 .. Len(tickets) /\ tickets[n].expiresAt > now
    BY <1>1, <1>3 DEF Valid, Stored
  <2>2. tickets[n].sessions = 0
    BY <2>1 DEF StoreInv, Unused
  <2>3. PICK tk : tk = [tickets[n] EXCEPT !.sessions = @ + 1, !.grantedAt = now]
    OBVIOUS
  <2>4. tickets' = [tickets EXCEPT ![n] = tk]
    BY <1>1, <1>3, <2>1, <2>3 DEF VerifyLogin, Granted
  <2>5. /\ tk \in Ticket /\ tk.sessions = 1 /\ tk.grantedAt = now
        /\ tk.wallet = tickets[n].wallet /\ tk.crowded = tickets[n].crowded
        /\ tk.process = tickets[n].process /\ tk.expiresAt = tickets[n].expiresAt
    <3>1. PICK a \in Ticket : a = tickets[n]
      BY <1>1, <2>1
    <3>2. PICK c : c = [a EXCEPT !.sessions = @ + 1]
      OBVIOUS
    <3>3. /\ c \in Ticket /\ c.sessions = 1
          /\ c.wallet = a.wallet /\ c.crowded = a.crowded
          /\ c.process = a.process /\ c.expiresAt = a.expiresAt
      BY <2>2, <3>1, <3>2 DEF Ticket
    <3>4. tk = [c EXCEPT !.grantedAt = now]
      BY <2>3, <3>1, <3>2
    <3> QED BY <1>1, <3>1, <3>3, <3>4 DEF Ticket
  <2>6. /\ tickets' \in Seq(Ticket) /\ Len(tickets') = Len(tickets)
        /\ DOMAIN tickets' = DOMAIN tickets
        /\ \A i \in DOMAIN tickets : tickets'[i] = IF i = n THEN tk ELSE tickets[i]
    BY <1>1, <2>1, <2>4, <2>5, ExceptSeq
  <2>7. \A i \in pending' : tickets'[i].sessions = 0
    BY <1>1, <1>2, <2>6 DEF StoreInv, Unused
  <2>8. \A i \in DOMAIN tickets :
            /\ tickets'[i].wallet = tickets[i].wallet
            /\ tickets'[i].crowded = tickets[i].crowded
            /\ tickets'[i].process = tickets[i].process
    BY <2>5, <2>6
  <2>9. StoreTyped' /\ Unused'
    BY <1>1, <1>2, <2>6, <2>7, <2>8, StoreShrinks
  <2>10. SingleUse'
    BY <1>1, <2>1, <2>5, <2>6 DEF StoreInv, ChallengesHold, SingleUse
  <2>11. OutlivesFlood'
    <3> SUFFICES ASSUME NEW i \in DOMAIN tickets, Lost(i)'
                 PROVE  \/ Len(tickets') - i >= MaxPending
                        \/ tickets'[i].crowded
                        \/ tickets'[i].attempts >= MaxAttempts
      BY <2>6 DEF OutlivesFlood
    <3>1. i # n /\ tickets'[i] = tickets[i] /\ Lost(i)
      BY <1>2, <2>5, <2>6 DEF Lost, Stored
    <3> QED BY <2>6, <3>1 DEF StoreInv, ChallengesHold, OutlivesFlood
  <2> QED BY <2>9, <2>10, <2>11 DEF StoreInv, ChallengesHold
<1>4. CASE ~Valid(n)
  <2>1. tickets' = tickets
    BY <1>4 DEF VerifyLogin
  <2>2. StoreTyped' /\ Unused'
    <3>1. \A i \in pending' : tickets'[i].sessions = 0
      BY <1>2, <2>1 DEF StoreInv, Unused
    <3> QED BY <1>1, <1>2, <2>1, <3>1, StoreShrinks
  <2>3. SingleUse'
    BY <2>1 DEF StoreInv, ChallengesHold, SingleUse
  <2>4. \A i \in DOMAIN tickets : Lost(i)' => Lost(i)
    BY <1>2, <1>4, <2>1 DEF Lost, Stored, Valid
  <2>5. OutlivesFlood'
    BY <2>1, <2>4 DEF StoreInv, ChallengesHold, OutlivesFlood
  <2> QED BY <2>2, <2>3, <2>5 DEF StoreInv, ChallengesHold
<1> QED BY <1>3, <1>4

LEMMA WrongSignatureStore ==
    ASSUME StoreInv, NEW n \in DOMAIN tickets, WrongSignature(n) PROVE StoreInv'
<1>1. /\ StoreTyped /\ now \in Nat /\ restarts \in Nat /\ Len(tickets) \in Nat
      /\ DOMAIN tickets = 1 .. Len(tickets) /\ tickets \in Seq(Ticket)
      /\ \A i \in DOMAIN tickets : tickets[i] \in Ticket
      /\ pending \subseteq DOMAIN tickets
  BY TicketsAre DEF StoreInv, StoreTyped
<1>2. /\ restarts' = restarts /\ now' = now
      /\ pending' \subseteq pending /\ pending \ {n} \subseteq pending'
      /\ n \notin pending' => tickets[n].attempts + 1 >= MaxAttempts
      /\ n \in pending
  BY DEF WrongSignature, Without, Valid, Stored
<1>3. PICK tk : tk = [tickets[n] EXCEPT !.attempts = @ + 1]
  OBVIOUS
<1>4. tickets' = [tickets EXCEPT ![n] = tk]
  BY <1>1, <1>3 DEF WrongSignature
<1>5. /\ tk \in Ticket /\ tk.sessions = tickets[n].sessions /\ tk.grantedAt = tickets[n].grantedAt
      /\ tk.wallet = tickets[n].wallet /\ tk.crowded = tickets[n].crowded
      /\ tk.process = tickets[n].process /\ tk.expiresAt = tickets[n].expiresAt
      /\ tk.attempts = tickets[n].attempts + 1
  BY <1>1, <1>3, TicketTried
<1>6. /\ tickets' \in Seq(Ticket) /\ Len(tickets') = Len(tickets)
      /\ DOMAIN tickets' = DOMAIN tickets
      /\ \A i \in DOMAIN tickets : tickets'[i] = IF i = n THEN tk ELSE tickets[i]
  BY <1>1, <1>4, <1>5, ExceptSeq
<1>7. \A i \in pending' : tickets'[i].sessions = 0
  BY <1>1, <1>2, <1>5, <1>6 DEF StoreInv, Unused
<1>8. \A i \in DOMAIN tickets :
          /\ tickets'[i].wallet = tickets[i].wallet
          /\ tickets'[i].crowded = tickets[i].crowded
          /\ tickets'[i].process = tickets[i].process
  BY <1>5, <1>6
<1>9. StoreTyped' /\ Unused'
  BY <1>1, <1>2, <1>6, <1>7, <1>8, StoreShrinks
<1>10. SingleUse'
  BY <1>1, <1>5, <1>6 DEF StoreInv, ChallengesHold, SingleUse
<1>11. OutlivesFlood'
  <2> SUFFICES ASSUME NEW i \in DOMAIN tickets, Lost(i)'
               PROVE  \/ Len(tickets') - i >= MaxPending
                      \/ tickets'[i].crowded
                      \/ tickets'[i].attempts >= MaxAttempts
    BY <1>6 DEF OutlivesFlood
  <2>1. CASE i = n
    BY <1>2, <1>5, <1>6, <2>1 DEF Lost, Stored
  <2>2. CASE i # n
    <3>1. tickets'[i] = tickets[i] /\ Lost(i)
      BY <1>2, <1>6, <2>2 DEF Lost, Stored
    <3> QED BY <1>6, <3>1 DEF StoreInv, ChallengesHold, OutlivesFlood
  <2> QED BY <2>1, <2>2
<1> QED BY <1>9, <1>10, <1>11 DEF StoreInv, ChallengesHold

LEMMA RestartStore ==
    ASSUME StoreInv, Restart PROVE StoreInv'
<1>1. /\ StoreTyped /\ now \in Nat /\ restarts \in Nat /\ tickets \in Seq(Ticket)
      /\ \A i \in DOMAIN tickets : tickets[i] \in Ticket /\ tickets[i].process <= restarts
  BY TicketsAre DEF StoreInv, StoreTyped
<1>2. tickets' = tickets /\ pending' = {} /\ restarts' = restarts + 1 /\ now' = now
  BY DEF Restart
<1>3. StoreTyped' /\ Unused'
  BY <1>1, <1>2, StoreShrinks
<1>4. SingleUse'
  BY <1>2 DEF StoreInv, ChallengesHold, SingleUse
<1>5. \A n \in DOMAIN tickets : ~Lost(n)'
  <2> SUFFICES ASSUME NEW n \in DOMAIN tickets PROVE tickets'[n].process # restarts'
    BY DEF Lost
  <2>1. tickets[n].process \in Nat /\ tickets[n].process <= restarts
    BY <1>1 DEF Ticket
  <2> QED BY <1>1, <1>2, <2>1
<1>6. OutlivesFlood'
  BY <1>2, <1>5 DEF OutlivesFlood
<1> QED BY <1>3, <1>4, <1>6 DEF StoreInv, ChallengesHold

(* Time passes, or the store is left alone. *)
LEMMA WaitingStore ==
    ASSUME StoreInv, UNCHANGED <<pending, tickets, restarts>>, now' \in {now, now + 1}
    PROVE  StoreInv'
<1>1. /\ StoreTyped /\ now \in Nat /\ now' \in Nat
      /\ \A i \in DOMAIN tickets : tickets[i] \in Ticket
  BY TicketsAre DEF StoreInv, StoreTyped
<1>2. StoreTyped' /\ Unused'
  BY <1>1 DEF StoreInv, StoreTyped, Unused, Older, OfWallet
<1>3. SingleUse'
  BY DEF StoreInv, ChallengesHold, SingleUse
<1>4. \A n \in DOMAIN tickets : Lost(n)' => Lost(n)
  BY <1>1 DEF Lost, Stored, Ticket
<1>5. OutlivesFlood'
  BY <1>4 DEF StoreInv, ChallengesHold, OutlivesFlood
<1> QED BY <1>2, <1>3, <1>5 DEF StoreInv, ChallengesHold

-----------------------------------------------------------------------------
(* The logins of the tabs and the sessions they leave. *)
LEMMA LoginsAre ==
    ASSUME BrowserTyped
    PROVE  /\ Len(logins) \in Nat /\ DOMAIN logins = 1 .. Len(logins)
           /\ logins \in Seq(Login)
           /\ \A l \in DOMAIN logins : logins[l] \in Login
BY LenProperties, ElementOfSeq DEF BrowserTyped

(* A login takes a step of its own, short of its end. *)
LEMMA LoginMoves ==
    ASSUME LoginsInv, NEW l \in DOMAIN logins, NEW x \in Login,
           logins' = [logins EXCEPT ![l] = x],
           logins[l].pc # "done", x.pc # "done",
           x.tab = logins[l].tab, x.abandoned = logins[l].abandoned,
           x.pc = "granted" => x.session \in Session /\ x.session.login = l,
           UNCHANGED <<stored, cache, inFlight, epoch>>
    PROVE  LoginsInv'
<1>1. /\ Len(logins) \in Nat /\ DOMAIN logins = 1 .. Len(logins) /\ logins \in Seq(Login)
      /\ \A i \in DOMAIN logins : logins[i] \in Login
  BY LoginsAre DEF LoginsInv
<1>2. /\ logins' \in Seq(Login) /\ DOMAIN logins' = DOMAIN logins
      /\ \A i \in DOMAIN logins : logins'[i] = IF i = l THEN x ELSE logins[i]
  BY <1>1, ExceptSeq
<1>3. BrowserTyped'
  BY <1>2 DEF LoginsInv, BrowserTyped
<1>4. AllBrought'
  BY <1>2 DEF LoginsInv, AllBrought, Brought
<1>5. Shared'
  BY <1>2 DEF LoginsInv, Shared
<1>6. OneLogin'
  BY <1>1, <1>2 DEF LoginsInv, OneLogin
<1> QED BY <1>3, <1>4, <1>5, <1>6 DEF LoginsInv

LEMMA AskLogins ==
    ASSUME LoginsInv, StoreTyped, NEW l \in DOMAIN logins, Ask(l) PROVE LoginsInv'
<1>1. logins[l] \in Login /\ logins \in Seq(Login) /\ l \in 1 .. Len(logins)
  BY LoginsAre DEF LoginsInv
<1>2. PICK k \in Nat : k = Len(tickets) + 1
  BY TicketsAre
<1>3. PICK old \in Login : old = logins[l]
  BY <1>1
<1>4. PICK y : y = [old EXCEPT !.pc = "signed"]
  OBVIOUS
<1>5. y \in Login /\ y.tab = old.tab /\ y.abandoned = old.abandoned /\ y.pc = "signed"
  BY <1>3, <1>4 DEF Login
<1>6. PICK x : x = [y EXCEPT !.nonce = k]
  OBVIOUS
<1>7. x \in Login /\ x.tab = old.tab /\ x.abandoned = old.abandoned /\ x.pc = "signed"
  BY <1>5, <1>6 DEF Login
<1>8. logins' = [logins EXCEPT ![l] = x]
  BY <1>1, <1>2, <1>3, <1>4, <1>6 DEF Ask
<1>9. logins[l].pc = "ask" /\ UNCHANGED <<stored, cache, inFlight, epoch>>
  BY DEF Ask, Challenge
<1> QED BY <1>3, <1>7, <1>8, <1>9, LoginMoves

LEMMA VerifyLogins ==
    ASSUME LoginsInv, StoreTyped, NEW l \in DOMAIN logins, Verify(l) PROVE LoginsInv'
<1>1. logins[l] \in Login /\ logins \in Seq(Login) /\ l \in 1 .. Len(logins) /\ l \in Nat
  BY LoginsAre DEF LoginsInv
<1>2. PICK old \in Login : old = logins[l]
  BY <1>1
<1>3. logins[l].pc = "signed" /\ UNCHANGED <<stored, cache, inFlight, epoch>>
  BY DEF Verify, VerifyLogin
<1>4. CASE Valid(logins[l].nonce)
  <2>1. PICK s \in Session : s = [login |-> l, expiresAt |-> now + SessionTtl, epoch |-> epoch]
    <3>1. now \in Nat /\ SessionTtl \in Nat /\ epoch \in Nat
      BY SignInAssumption DEF StoreTyped, LoginsInv, BrowserTyped
    <3>2. now + SessionTtl \in Nat
      BY <3>1
    <3> QED BY <1>1, <3>1, <3>2 DEF Session
  <2>2. PICK y : y = [old EXCEPT !.pc = "granted"]
    OBVIOUS
  <2>3. y \in Login /\ y.tab = old.tab /\ y.abandoned = old.abandoned /\ y.pc = "granted"
    BY <1>2, <2>2 DEF Login
  <2>4. PICK x : x = [y EXCEPT !.session = s]
    OBVIOUS
  <2>5. x \in Login /\ x.tab = old.tab /\ x.abandoned = old.abandoned /\ x.pc = "granted"
        /\ x.session = s
    BY <2>1, <2>3, <2>4 DEF Login
  <2>6. logins' = [logins EXCEPT ![l] = x]
    BY <1>1, <1>2, <1>4, <2>1, <2>2, <2>4 DEF Verify
  <2>7. s.login = l
    BY <2>1
  <2> QED BY <1>2, <1>3, <2>1, <2>5, <2>6, <2>7, LoginMoves
<1>5. CASE ~Valid(logins[l].nonce)
  <2>1. PICK x : x = [old EXCEPT !.pc = "failed"]
    OBVIOUS
  <2>2. x \in Login /\ x.tab = old.tab /\ x.abandoned = old.abandoned /\ x.pc = "failed"
    BY <1>2, <2>1 DEF Login
  <2>3. logins' = [logins EXCEPT ![l] = x]
    BY <1>1, <1>2, <1>5, <2>1 DEF Verify
  <2> QED BY <1>2, <1>3, <2>2, <2>3, LoginMoves
<1> QED BY <1>4, <1>5

LEMMA FailLogins ==
    ASSUME LoginsInv, NEW l \in DOMAIN logins, Fail(l) PROVE LoginsInv'
<1>1. logins[l] \in Login /\ logins \in Seq(Login) /\ l \in 1 .. Len(logins)
  BY LoginsAre DEF LoginsInv
<1>2. PICK old \in Login : old = logins[l]
  BY <1>1
<1>3. PICK x : x = [old EXCEPT !.pc = "failed"]
  OBVIOUS
<1>4. x \in Login /\ x.tab = old.tab /\ x.abandoned = old.abandoned /\ x.pc = "failed"
  BY <1>2, <1>3 DEF Login
<1>5. logins' = [logins EXCEPT ![l] = x]
  BY <1>1, <1>2, <1>3 DEF Fail
<1>6. logins[l].pc # "done" /\ UNCHANGED <<stored, cache, inFlight, epoch>>
  BY DEF Fail, backend
<1> QED BY <1>2, <1>4, <1>5, <1>6, LoginMoves

(* The end of a login: what it leaves in the tab and in storage is its own. *)
LEMMA SettleLogins ==
    ASSUME LoginsInv, NEW l \in DOMAIN logins, Settle(l) PROVE LoginsInv'
<1>1. /\ Len(logins) \in Nat /\ DOMAIN logins = 1 .. Len(logins) /\ logins \in Seq(Login)
      /\ \A i \in DOMAIN logins : logins[i] \in Login
  BY LoginsAre DEF LoginsInv
<1>2. PICK t \in Tab : t = logins[l].tab
  BY <1>1 DEF Login
<1>3. PICK s : s = IF logins[l].pc = "granted" THEN logins[l].session ELSE None
  OBVIOUS
<1>4. s # None => s \in Session /\ s.login = l
  BY <1>3 DEF LoginsInv, BrowserTyped
<1>5. PICK x : x = [logins[l] EXCEPT !.pc = "done"]
  OBVIOUS
<1>6. x \in Login /\ x.pc = "done" /\ x.tab = t /\ x.abandoned = logins[l].abandoned
  BY <1>1, <1>2, <1>5 DEF Login
<1>7. logins' = [logins EXCEPT ![l] = x]
  BY <1>1, <1>5 DEF Settle
<1>8. /\ logins' \in Seq(Login) /\ DOMAIN logins' = DOMAIN logins
      /\ \A i \in DOMAIN logins : logins'[i] = IF i = l THEN x ELSE logins[i]
  BY <1>1, <1>6, <1>7, ExceptSeq
<1>9. /\ logins[l].pc # "done"
      /\ inFlight[t] = l \/ inFlight[t] # l
      /\ inFlight[t] = l =>
             /\ inFlight' = [inFlight EXCEPT ![t] = None]
             /\ cache' = IF s = None THEN cache ELSE [cache EXCEPT ![t] = s]
             /\ stored' = IF s = None THEN stored ELSE [stored EXCEPT ![Owner[t]] = s]
      /\ inFlight[t] # l => UNCHANGED <<inFlight, cache, stored>>
      /\ epoch' = epoch
  BY <1>2, <1>3 DEF Settle, may_keep, backend
<1>10. /\ DOMAIN stored = Wallet /\ DOMAIN cache = Tab /\ DOMAIN inFlight = Tab
       /\ Owner[t] \in Wallet /\ l \in Nat /\ l # None
  BY <1>1, SignInAssumption DEF LoginsInv, BrowserTyped
<1>11. BrowserTyped'
  BY <1>6, <1>8, <1>9, <1>10 DEF LoginsInv, BrowserTyped
<1>12. \A i \in DOMAIN logins : i # l => logins'[i] = logins[i]
  BY <1>8
<1>13. \A u : Brought(u) => Brought(u)'
  BY <1>8, <1>9, <1>12 DEF Brought
<1>14. inFlight[t] = l /\ s # None => Brought(s)'
  BY <1>2, <1>4, <1>6, <1>8, <1>10 DEF Brought, LoginsInv, Shared
<1>15. AllBrought'
  <2>1. CASE inFlight[t] = l /\ s # None
    <3>1. Brought(s)'
      BY <1>14, <2>1
    <3>2. /\ \A i \in Tab : cache'[i] = IF i = t THEN s ELSE cache[i]
          /\ \A w \in Wallet : stored'[w] = IF w = Owner[t] THEN s ELSE stored[w]
      BY <1>9, <1>10, <2>1
    <3> QED BY <1>13, <3>1, <3>2 DEF LoginsInv, AllBrought, Brought
  <2>2. CASE ~(inFlight[t] = l /\ s # None)
    <3>1. cache' = cache /\ stored' = stored
      BY <1>9, <2>2
    <3> QED BY <1>13, <3>1 DEF LoginsInv, AllBrought, Brought
  <2> QED BY <2>1, <2>2
<1>16. \A i \in Tab : inFlight'[i] = IF i = t /\ inFlight[t] = l THEN None ELSE inFlight[i]
  BY <1>9, <1>10
<1>17. Shared'
  BY <1>2, <1>8, <1>10, <1>12, <1>16 DEF LoginsInv, Shared
<1>18. OneLogin'
  BY <1>1, <1>6, <1>8, <1>12, <1>16 DEF LoginsInv, OneLogin, Login
<1> QED BY <1>11, <1>15, <1>17, <1>18 DEF LoginsInv

(* clearSession abandons the login in flight, and nothing kept came of it. *)
LEMMA ForgottenAre ==
    ASSUME LoginsInv, NEW t \in Tab
    PROVE  /\ Forgotten(t) \in Seq(Login) /\ Len(Forgotten(t)) = Len(logins)
           /\ DOMAIN Forgotten(t) = DOMAIN logins
           /\ \A l \in DOMAIN logins :
                  /\ Forgotten(t)[l].tab = logins[l].tab /\ Forgotten(t)[l].pc = logins[l].pc
                  /\ Forgotten(t)[l].session = logins[l].session
                  /\ Forgotten(t)[l].abandoned <=> logins[l].abandoned \/ l = inFlight[t]
<1>1. /\ Len(logins) \in Nat /\ DOMAIN logins = 1 .. Len(logins) /\ logins \in Seq(Login)
      /\ \A i \in DOMAIN logins : logins[i] \in Login
  BY LoginsAre DEF LoginsInv
<1>2. CASE inFlight[t] = None
  BY <1>1, <1>2, SignInAssumption DEF Forgotten
<1>3. CASE inFlight[t] # None
  <2>1. PICK f \in DOMAIN logins : f = inFlight[t]
    BY <1>3 DEF LoginsInv, Shared
  <2>2. PICK x : x = [logins[f] EXCEPT !.abandoned = TRUE]
    OBVIOUS
  <2>3. /\ x \in Login /\ x.tab = logins[f].tab /\ x.pc = logins[f].pc
        /\ x.session = logins[f].session /\ x.abandoned
    BY <1>1, <2>1, <2>2 DEF Login
  <2>4. Forgotten(t) = [logins EXCEPT ![f] = x]
    BY <1>1, <1>3, <2>1, <2>2 DEF Forgotten
  <2>5. PICK F : F = [logins EXCEPT ![f] = x]
    OBVIOUS
  <2>6. /\ F \in Seq(Login) /\ Len(F) = Len(logins) /\ DOMAIN F = DOMAIN logins
        /\ \A i \in DOMAIN logins : F[i] = IF i = f THEN x ELSE logins[i]
    BY <1>1, <2>1, <2>3, <2>5, ExceptSeq
  <2>7. \A l \in DOMAIN logins :
            /\ F[l].tab = logins[l].tab /\ F[l].pc = logins[l].pc
            /\ F[l].session = logins[l].session
            /\ F[l].abandoned <=> logins[l].abandoned \/ l = f
    BY <2>3, <2>6
  <2> QED BY <2>1, <2>4, <2>5, <2>6, <2>7
<1> QED BY <1>2, <1>3

LEMMA SignOutLogins ==
    ASSUME LoginsInv, NEW t \in Tab, SignOut(t) PROVE LoginsInv'
<1>1. /\ Len(logins) \in Nat /\ DOMAIN logins = 1 .. Len(logins) /\ logins \in Seq(Login)
      /\ \A i \in DOMAIN logins : logins[i] \in Login
      /\ DOMAIN stored = Wallet /\ DOMAIN cache = Tab /\ DOMAIN inFlight = Tab
      /\ Owner[t] \in Wallet /\ epoch' = epoch
  BY LoginsAre, SignInAssumption DEF LoginsInv, BrowserTyped, SignOut, backend
<1>2. CASE account[t] # "ready"
  <2>1. UNCHANGED <<cache, inFlight, stored, logins>>
    BY <1>2 DEF SignOut
  <2> QED BY <1>1, <2>1 DEF LoginsInv, BrowserTyped, AllBrought, Brought, Shared, OneLogin
<1>3. CASE account[t] = "ready"
  <2>1. /\ cache' = [cache EXCEPT ![t] = None]
        /\ inFlight' = [inFlight EXCEPT ![t] = None]
        /\ stored' = [stored EXCEPT ![Owner[t]] = None]
        /\ logins' = Forgotten(t)
    BY <1>3 DEF SignOut
  <2>2. /\ logins' \in Seq(Login) /\ DOMAIN logins' = DOMAIN logins
        /\ \A l \in DOMAIN logins :
               /\ logins'[l].tab = logins[l].tab /\ logins'[l].pc = logins[l].pc
               /\ logins'[l].session = logins[l].session
               /\ logins'[l].abandoned <=> logins[l].abandoned \/ l = inFlight[t]
    BY <2>1, ForgottenAre
  <2>3. BrowserTyped'
    BY <1>1, <2>1, <2>2 DEF LoginsInv, BrowserTyped
  <2>4. \A l \in DOMAIN logins : l = inFlight[t] =>
            l # None /\ logins[l].tab = t /\ logins[l].pc # "done" /\ ~logins[l].abandoned
    BY <1>1, SignInAssumption DEF LoginsInv, Shared
  <2>5. \A u : Brought(u) => Brought(u)'
    BY <2>2, <2>4 DEF Brought
  <2>6. AllBrought'
    <3>1. /\ \A i \in Tab : cache'[i] = IF i = t THEN None ELSE cache[i]
          /\ \A w \in Wallet : stored'[w] = IF w = Owner[t] THEN None ELSE stored[w]
      BY <1>1, <2>1
    <3> QED BY <2>5, <3>1 DEF LoginsInv, AllBrought, Brought
  <2>7. \A i \in Tab : inFlight'[i] = IF i = t THEN None ELSE inFlight[i]
    BY <1>1, <2>1
  <2>8. Shared'
    BY <2>2, <2>4, <2>7 DEF LoginsInv, Shared
  <2>9. OneLogin'
    <3> SUFFICES ASSUME NEW l \in DOMAIN logins, logins'[l].pc # "done", ~logins'[l].abandoned
                 PROVE  inFlight'[logins'[l].tab] = l
      BY <2>2 DEF OneLogin
    <3>1. inFlight[logins[l].tab] = l /\ l # inFlight[t] /\ logins[l].tab \in Tab
      BY <1>1, <2>2 DEF LoginsInv, OneLogin, Login
    <3> QED BY <2>2, <2>7, <3>1
  <2> QED BY <2>3, <2>6, <2>8, <2>9 DEF LoginsInv
<1> QED BY <1>2, <1>3

LEMMA ReloadLogins ==
    ASSUME LoginsInv, NEW t \in Tab, Reload(t) PROVE LoginsInv'
<1>1. /\ Len(logins) \in Nat /\ DOMAIN logins = 1 .. Len(logins) /\ logins \in Seq(Login)
      /\ \A i \in DOMAIN logins : logins[i] \in Login
      /\ DOMAIN stored = Wallet /\ DOMAIN cache = Tab /\ DOMAIN inFlight = Tab
      /\ stored' = stored /\ epoch' = epoch
  BY LoginsAre DEF LoginsInv, BrowserTyped, Reload, backend
<1>2. /\ \A i \in Tab : cache'[i] = IF i = t THEN None ELSE cache[i]
      /\ \A i \in Tab : inFlight'[i] = IF i = t THEN None ELSE inFlight[i]
      /\ DOMAIN cache' = Tab /\ DOMAIN inFlight' = Tab
  BY <1>1 DEF Reload
<1>3. /\ DOMAIN logins' = DOMAIN logins
      /\ \A l \in DOMAIN logins :
             logins'[l] = IF logins[l].tab = t THEN [logins[l] EXCEPT !.pc = "done"] ELSE logins[l]
      /\ logins' = [l \in DOMAIN logins |-> logins'[l]]
  BY DEF Reload
<1>4. \A l \in DOMAIN logins :
          /\ logins'[l] \in Login
          /\ logins'[l].tab = logins[l].tab /\ logins'[l].session = logins[l].session
          /\ logins'[l].abandoned = logins[l].abandoned
          /\ logins[l].tab # t => logins'[l].pc = logins[l].pc
          /\ logins[l].tab = t => logins'[l].pc = "done"
  <2> SUFFICES ASSUME NEW l \in DOMAIN logins
               PROVE  /\ logins'[l] \in Login
                      /\ logins'[l].tab = logins[l].tab /\ logins'[l].session = logins[l].session
                      /\ logins'[l].abandoned = logins[l].abandoned
                      /\ logins[l].tab # t => logins'[l].pc = logins[l].pc
                      /\ logins[l].tab = t => logins'[l].pc = "done"
    OBVIOUS
  <2>1. PICK old \in Login : old = logins[l]
    BY <1>1
  <2>2. PICK x : x = [old EXCEPT !.pc = "done"]
    OBVIOUS
  <2>3. /\ x \in Login /\ x.tab = old.tab /\ x.session = old.session
        /\ x.abandoned = old.abandoned /\ x.pc = "done"
    BY <2>1, <2>2 DEF Login
  <2> QED BY <1>3, <2>1, <2>2, <2>3
<1>5. logins' \in Seq(Login)
  <2>1. PICK m \in Nat : m = Len(logins)
    BY <1>1
  <2>2. logins' \in [1 .. m -> Login]
    BY <1>1, <1>3, <1>4, <2>1
  <2> QED BY <2>2, SeqDef
<1>6. BrowserTyped'
  BY <1>1, <1>2, <1>3, <1>4, <1>5 DEF LoginsInv, BrowserTyped
<1>7. \A u : Brought(u) => Brought(u)'
  BY <1>3, <1>4 DEF Brought
<1>8. AllBrought'
  BY <1>1, <1>2, <1>7 DEF LoginsInv, AllBrought, Brought
<1>9. Shared'
  BY <1>2, <1>3, <1>4 DEF LoginsInv, Shared
<1>10. OneLogin'
  <2> SUFFICES ASSUME NEW l \in DOMAIN logins, logins'[l].pc # "done", ~logins'[l].abandoned
               PROVE  inFlight'[logins'[l].tab] = l
    BY <1>3 DEF OneLogin
  <2>1. logins[l].tab # t /\ inFlight[logins[l].tab] = l /\ logins[l].tab \in Tab
    BY <1>1, <1>4 DEF LoginsInv, OneLogin, Login
  <2> QED BY <1>2, <1>4, <2>1
<1> QED BY <1>6, <1>8, <1>9, <1>10 DEF LoginsInv

(* A login begins: it is the one the tab shares. *)
LEMMA NewLogins ==
    ASSUME LoginsInv, NEW t \in Tab, NEW L \in Seq(Login), Len(L) = Len(logins),
           logins' = Append(L, NewLogin(t)), inFlight' = [inFlight EXCEPT ![t] = Len(logins) + 1],
           \A l \in DOMAIN logins :
               /\ L[l].tab = logins[l].tab /\ L[l].pc = logins[l].pc
               /\ L[l].session = logins[l].session
               /\ L[l].abandoned <=> logins[l].abandoned \/ l = inFlight[t],
           DOMAIN stored' = Wallet, DOMAIN cache' = Tab, epoch' = epoch,
           \A i \in Tab : cache'[i] # None => Brought(cache'[i]),
           \A w \in Wallet : stored'[w] # None => Brought(stored'[w])
    PROVE  LoginsInv'
<1>1. /\ Len(logins) \in Nat /\ DOMAIN logins = 1 .. Len(logins) /\ logins \in Seq(Login)
      /\ \A i \in DOMAIN logins : logins[i] \in Login
      /\ DOMAIN inFlight = Tab /\ epoch \in Nat
  BY LoginsAre DEF LoginsInv, BrowserTyped
<1>2. PICK k \in Nat : k = Len(logins) + 1
  BY <1>1
<1>3. PICK x : x = NewLogin(t)
  OBVIOUS
<1>4. x \in Login /\ x.tab = t /\ x.pc = "ask" /\ x.abandoned = FALSE
  BY <1>3 DEF NewLogin, Login
<1>5. /\ logins' \in Seq(Login) /\ DOMAIN logins' = DOMAIN logins \cup {k}
      /\ \A l \in DOMAIN logins : logins'[l] = L[l] /\ l # k
      /\ logins'[k] = x
  <2>1. /\ logins' \in Seq(Login) /\ Len(logins') = k
        /\ \A l \in 1 .. Len(logins) : logins'[l] = L[l]
        /\ logins'[k] = x
    BY <1>1, <1>2, <1>3, <1>4, AppendProperties
  <2>2. DOMAIN logins' = 1 .. k
    BY <2>1, LenProperties
  <2> QED BY <1>1, <1>2, <2>1, <2>2
<1>6. \A l \in DOMAIN logins :
          /\ logins'[l].tab = logins[l].tab /\ logins'[l].pc = logins[l].pc
          /\ logins'[l].session = logins[l].session
          /\ logins'[l].abandoned <=> logins[l].abandoned \/ l = inFlight[t]
  BY <1>5
<1>7. /\ \A i \in Tab : inFlight'[i] = IF i = t THEN k ELSE inFlight[i]
      /\ DOMAIN inFlight' = Tab
  BY <1>1, <1>2
<1>8. BrowserTyped'
  BY <1>1, <1>4, <1>5, <1>6, <1>7 DEF LoginsInv, BrowserTyped
<1>9. \A l \in DOMAIN logins : l = inFlight[t] =>
          l # None /\ logins[l].tab = t /\ logins[l].pc # "done" /\ ~logins[l].abandoned
  BY <1>1, SignInAssumption DEF LoginsInv, Shared
<1>10. \A u : Brought(u) => Brought(u)'
  BY <1>5, <1>6, <1>9 DEF Brought
<1>11. AllBrought'
  BY <1>10 DEF AllBrought, Brought
<1>12. Shared'
  <2> SUFFICES ASSUME NEW i \in Tab, inFlight'[i] # None
               PROVE  /\ inFlight'[i] \in DOMAIN logins'
                      /\ logins'[inFlight'[i]].tab = i /\ logins'[inFlight'[i]].pc # "done"
                      /\ ~logins'[inFlight'[i]].abandoned
    BY DEF Shared
  <2>1. CASE i = t
    BY <1>4, <1>5, <1>7, <2>1
  <2>2. CASE i # t
    BY <1>5, <1>6, <1>7, <1>9, <2>2 DEF LoginsInv, Shared
  <2> QED BY <2>1, <2>2
<1>13. OneLogin'
  <2> SUFFICES ASSUME NEW l \in DOMAIN logins', logins'[l].pc # "done", ~logins'[l].abandoned
               PROVE  inFlight'[logins'[l].tab] = l
    BY DEF OneLogin
  <2>1. CASE l = k
    BY <1>4, <1>5, <1>7, <2>1
  <2>2. CASE l # k
    <3>1. /\ l \in DOMAIN logins /\ inFlight[logins[l].tab] = l /\ l # inFlight[t]
          /\ logins[l].tab \in Tab
      BY <1>1, <1>5, <1>6, <2>2 DEF LoginsInv, OneLogin, Login
    <3> QED BY <1>6, <1>7, <3>1
  <2> QED BY <2>1, <2>2
<1> QED BY <1>8, <1>11, <1>12, <1>13 DEF LoginsInv

LEMMA JoinLogins ==
    ASSUME LoginsInv, NEW t \in Tab, JoinLogin(t), UNCHANGED <<stored, cache, epoch>>
    PROVE  LoginsInv'
<1>1. logins \in Seq(Login) /\ DOMAIN stored = Wallet /\ DOMAIN cache = Tab
      /\ DOMAIN logins = 1 .. Len(logins)
  BY LoginsAre DEF LoginsInv, BrowserTyped
<1>2. CASE inFlight[t] # None
  <2>1. UNCHANGED <<inFlight, logins>>
    BY <1>2 DEF JoinLogin
  <2> QED BY <2>1 DEF LoginsInv, BrowserTyped, AllBrought, Brought, Shared, OneLogin
<1>3. CASE inFlight[t] = None
  <2>1. logins' = Append(logins, NewLogin(t)) /\ inFlight' = [inFlight EXCEPT ![t] = Len(logins) + 1]
    BY <1>3 DEF JoinLogin
  <2>2. PICK L \in Seq(Login) : L = logins
    BY <1>1
  <2>3. \A l \in DOMAIN logins : l # inFlight[t]
    BY <1>1, <1>3, SignInAssumption
  <2>4. /\ \A i \in Tab : cache'[i] # None => Brought(cache'[i])
        /\ \A w \in Wallet : stored'[w] # None => Brought(stored'[w])
    BY DEF LoginsInv, AllBrought, Brought
  <2>5. /\ Len(L) = Len(logins) /\ logins' = Append(L, NewLogin(t))
        /\ \A l \in DOMAIN logins :
               /\ L[l].tab = logins[l].tab /\ L[l].pc = logins[l].pc
               /\ L[l].session = logins[l].session
               /\ L[l].abandoned <=> logins[l].abandoned \/ l = inFlight[t]
    BY <2>1, <2>2, <2>3
  <2>6. DOMAIN stored' = Wallet /\ DOMAIN cache' = Tab /\ epoch' = epoch
    BY <1>1
  <2> QED BY <2>1, <2>2, <2>4, <2>5, <2>6, NewLogins
<1> QED BY <1>2, <1>3

(* A tab takes up the session it has at hand. *)
LEMMA HeldLogins ==
    ASSUME LoginsInv, NEW t \in Tab, AtHand(t), cache' = [cache EXCEPT ![t] = held(t)],
           UNCHANGED <<stored, inFlight, logins, epoch>>
    PROVE  LoginsInv'
<1>1. Owner[t] \in Wallet /\ DOMAIN cache = Tab
  BY SignInAssumption DEF LoginsInv, BrowserTyped
<1>2. PICK s : s = held(t)
  OBVIOUS
<1>3. s # None
  BY <1>2 DEF AtHand, isFresh
<1>4. Brought(s)
  BY <1>1, <1>2, <1>3 DEF held, LoginsInv, AllBrought
<1>5. Brought(s)'
  BY <1>4 DEF Brought
<1>6. \A i \in Tab : cache'[i] = IF i = t THEN s ELSE cache[i]
  BY <1>1, <1>2
<1>7. BrowserTyped' /\ Shared' /\ OneLogin'
  BY <1>1 DEF LoginsInv, BrowserTyped, Shared, OneLogin
<1>8. AllBrought'
  BY <1>5, <1>6 DEF LoginsInv, AllBrought, Brought
<1> QED BY <1>7, <1>8 DEF LoginsInv

LEMMA UntouchedLogins ==
    ASSUME LoginsInv, UNCHANGED <<stored, cache, inFlight, logins>>, epoch' \in Nat
    PROVE  LoginsInv'
BY DEF LoginsInv, BrowserTyped, AllBrought, Brought, Shared, OneLogin

LEMMA SignInWithLogins ==
    ASSUME LoginsInv, NEW t \in Tab, SignInWith(t) PROVE LoginsInv'
<1>1. UNCHANGED <<stored, epoch>>
  BY DEF SignInWith, backend
<1>2. CASE AtHand(t)
  <2>1. cache' = [cache EXCEPT ![t] = held(t)] /\ UNCHANGED <<inFlight, logins>>
    BY <1>2 DEF SignInWith
  <2> QED BY <1>1, <1>2, <2>1, HeldLogins
<1>3. CASE ~AtHand(t)
  <2>1. JoinLogin(t) /\ UNCHANGED cache
    BY <1>3 DEF SignInWith
  <2> QED BY <1>1, <2>1, JoinLogins
<1> QED BY <1>2, <1>3

LEMMA CallLogins ==
    ASSUME LoginsInv, NEW t \in Tab, NEW r \in Request, Call(t, r) PROVE LoginsInv'
<1>1. UNCHANGED <<stored, epoch>>
  BY DEF Call, backend
<1>2. CASE AtHand(t)
  <2>1. cache' = [cache EXCEPT ![t] = held(t)] /\ UNCHANGED <<inFlight, logins>>
    BY <1>2 DEF Call
  <2> QED BY <1>1, <1>2, <2>1, HeldLogins
<1>3. CASE ~AtHand(t)
  <2>1. JoinLogin(t) /\ UNCHANGED cache
    BY <1>3 DEF Call
  <2> QED BY <1>1, <2>1, JoinLogins
<1> QED BY <1>2, <1>3

LEMMA RefusedLogins ==
    ASSUME LoginsInv, NEW t \in Tab, NEW r \in Request, Refused(t, r) PROVE LoginsInv'
<1>1. /\ DOMAIN stored = Wallet /\ DOMAIN cache = Tab /\ Owner[t] \in Wallet
      /\ epoch' = epoch
      /\ stored' = [stored EXCEPT ![Owner[t]] = None]
      /\ cache' = [cache EXCEPT ![t] = None]
      /\ inFlight' = [inFlight EXCEPT ![t] = Len(logins) + 1]
      /\ logins' = Append(Forgotten(t), NewLogin(t))
  BY SignInAssumption DEF LoginsInv, BrowserTyped, Refused, backend
<1>2. PICK L : L = Forgotten(t)
  OBVIOUS
<1>3. /\ L \in Seq(Login) /\ Len(L) = Len(logins) /\ logins' = Append(L, NewLogin(t))
      /\ \A l \in DOMAIN logins :
             /\ L[l].tab = logins[l].tab /\ L[l].pc = logins[l].pc
             /\ L[l].session = logins[l].session
             /\ L[l].abandoned <=> logins[l].abandoned \/ l = inFlight[t]
  BY <1>1, <1>2, ForgottenAre
<1>4. /\ \A i \in Tab : cache'[i] = IF i = t THEN None ELSE cache[i]
      /\ \A w \in Wallet : stored'[w] = IF w = Owner[t] THEN None ELSE stored[w]
      /\ DOMAIN stored' = Wallet /\ DOMAIN cache' = Tab
  BY <1>1
<1>5. /\ \A i \in Tab : cache'[i] # None => Brought(cache'[i])
      /\ \A w \in Wallet : stored'[w] # None => Brought(stored'[w])
  BY <1>4 DEF LoginsInv, AllBrought, Brought
<1> QED BY <1>1, <1>3, <1>4, <1>5, NewLogins

-----------------------------------------------------------------------------
(* The authenticated calls. *)
LEMMA OneCall ==
    ASSUME CallsInv, NEW t \in Tab, NEW r \in Request, NEW c,
           calls' = [calls EXCEPT ![t][r] = c],
           c.pc = "await" => c.try = 1 \/ c.login > c.since,
           c.pc = "send" => c.try = 1 \/ c.session.login > c.since
    PROVE  CallsInv'
<1>1. /\ DOMAIN calls' = Tab /\ \A i \in Tab : DOMAIN calls'[i] = Request
      /\ \A i \in Tab, q \in Request : calls'[i][q] = IF i = t /\ q = r THEN c ELSE calls[i][q]
  BY DEF CallsInv
<1>2. Fresh'
  BY <1>1 DEF CallsInv, Fresh
<1> QED BY <1>1, <1>2 DEF CallsInv

LEMMA CallCalls ==
    ASSUME CallsInv, NEW t \in Tab, NEW r \in Request, Call(t, r) PROVE CallsInv'
<1>1. CASE AtHand(t)
  <2>1. PICK c : c = [pc |-> "send", try |-> 1, since |-> 0, session |-> held(t)]
    OBVIOUS
  <2>2. calls' = [calls EXCEPT ![t][r] = c]
    BY <1>1, <2>1 DEF Call
  <2>3. c.pc = "send" /\ c.try = 1
    BY <2>1
  <2> QED BY <2>2, <2>3, OneCall
<1>2. CASE ~AtHand(t)
  <2>1. PICK c : c = [pc |-> "await", try |-> 1, since |-> 0, login |-> inFlight'[t]]
    OBVIOUS
  <2>2. calls' = [calls EXCEPT ![t][r] = c]
    BY <1>2, <2>1 DEF Call
  <2>3. c.pc = "await" /\ c.try = 1
    BY <2>1
  <2> QED BY <2>2, <2>3, OneCall
<1> QED BY <1>1, <1>2

LEMMA EndedCalls ==
    ASSUME CallsInv, NEW t \in Tab, NEW r \in Request, Answered(t, r) \/ GivenUp(t, r)
    PROVE  CallsInv'
<1>1. calls' = [calls EXCEPT ![t][r] = NoCall]
  BY DEF Answered, GivenUp
<1>2. NoCall.pc = "idle"
  BY DEF NoCall
<1> QED BY <1>1, <1>2, OneCall

LEMMA RefusedCalls ==
    ASSUME CallsInv, LoginsInv, NEW t \in Tab, NEW r \in Request, Refused(t, r) PROVE CallsInv'
<1>1. Len(logins) \in Nat
  BY LoginsAre DEF LoginsInv
<1>2. PICK c : c = [pc |-> "await", try |-> 2, since |-> Len(logins), login |-> Len(logins) + 1]
  OBVIOUS
<1>3. calls' = [calls EXCEPT ![t][r] = c]
  BY <1>2 DEF Refused
<1>4. c.pc = "await" /\ c.login > c.since
  BY <1>1, <1>2
<1> QED BY <1>3, <1>4, OneCall

LEMMA ReloadCalls ==
    ASSUME CallsInv, NEW t \in Tab, Reload(t) PROVE CallsInv'
<1>1. /\ DOMAIN calls' = Tab
      /\ \A i \in Tab : calls'[i] = IF i = t THEN [r \in Request |-> NoCall] ELSE calls[i]
  BY DEF CallsInv, Reload
<1>2. Fresh'
  BY <1>1 DEF CallsInv, Fresh, NoCall
<1> QED BY <1>1, <1>2 DEF CallsInv

(* Who awaited a login goes on with the session it brought. *)
LEMMA SettleCalls ==
    ASSUME CallsInv, LoginsInv, NEW l \in DOMAIN logins, Settle(l) PROVE CallsInv'
<1>1. PICK t \in Tab : t = logins[l].tab
  BY LoginsAre DEF LoginsInv, Login
<1>2. PICK s : s = IF logins[l].pc = "granted" THEN logins[l].session ELSE None
  OBVIOUS
<1>3. s # None => s.login = l
  BY <1>2 DEF LoginsInv, BrowserTyped
<1>4. PICK f : f = [r \in Request |->
            IF calls[t][r].pc # "await" \/ calls[t][r].login # l THEN calls[t][r]
            ELSE IF s = None THEN NoCall
            ELSE [pc |-> "send", try |-> calls[t][r].try, since |-> calls[t][r].since, session |-> s]]
  OBVIOUS
<1>5. calls' = [calls EXCEPT ![t] = f]
  BY <1>1, <1>2, <1>4 DEF Settle
<1>6. DOMAIN calls' = Tab /\ \A i \in Tab : calls'[i] = IF i = t THEN f ELSE calls[i]
  BY <1>5 DEF CallsInv
<1>7. ASSUME NEW r \in Request
      PROVE  /\ f[r].pc = "await" => f[r].try = 1 \/ f[r].login > f[r].since
             /\ f[r].pc = "send" => f[r].try = 1 \/ f[r].session.login > f[r].since
  <2>1. PICK c : c = calls[t][r]
    OBVIOUS
  <2>2. /\ c.pc = "await" => c.try = 1 \/ c.login > c.since
        /\ c.pc = "send" => c.try = 1 \/ c.session.login > c.since
    BY <1>1, <2>1 DEF CallsInv, Fresh
  <2>3. CASE c.pc # "await" \/ c.login # l
    <3>1. f[r] = c
      BY <1>4, <2>1, <2>3
    <3> QED BY <2>2, <3>1
  <2>4. CASE c.pc = "await" /\ c.login = l /\ s = None
    <3>1. f[r] = NoCall
      BY <1>4, <2>1, <2>4
    <3> QED BY <3>1 DEF NoCall
  <2>5. CASE c.pc = "await" /\ c.login = l /\ s # None
    <3>1. f[r] = [pc |-> "send", try |-> c.try, since |-> c.since, session |-> s]
      BY <1>4, <2>1, <2>5
    <3>2. f[r].pc = "send" /\ f[r].try = c.try /\ f[r].since = c.since /\ f[r].session.login = l
      BY <1>3, <2>5, <3>1
    <3> QED BY <2>2, <2>5, <3>2
  <2> QED BY <2>3, <2>4, <2>5
<1>8. Fresh'
  BY <1>6, <1>7 DEF CallsInv, Fresh
<1>9. \A i \in Tab : DOMAIN calls'[i] = Request
  BY <1>4, <1>6 DEF CallsInv
<1> QED BY <1>6, <1>8, <1>9 DEF CallsInv

-----------------------------------------------------------------------------
LEMMA SignInInvInit == Init => SignInInv
<1> SUFFICES ASSUME Init PROVE SignInInv
  OBVIOUS
<1>1. tickets \in Seq(Ticket) /\ logins \in Seq(Login) /\ Len(tickets) = 0 /\ Len(logins) = 0
      /\ DOMAIN tickets = {} /\ DOMAIN logins = {}
  BY EmptySeq DEF Init
<1>2. StoreInv
  BY <1>1 DEF Init, StoreInv, StoreTyped, Unused, ChallengesHold, SingleUse, OutlivesFlood
<1>3. LoginsInv
  BY <1>1 DEF Init, LoginsInv, BrowserTyped, AllBrought, Shared, OneLogin
<1>4. CallsInv
  BY DEF Init, CallsInv, Fresh, NoCall
<1> QED BY <1>2, <1>3, <1>4 DEF SignInInv

LEMMA SignInInvNext == SignInInv /\ [Next]_vars => SignInInv'
<1> SUFFICES ASSUME StoreInv, LoginsInv, CallsInv, [Next]_vars
             PROVE  StoreInv' /\ LoginsInv' /\ CallsInv'
  BY DEF SignInInv
<1>1. StoreTyped /\ epoch \in Nat /\ restarts \in Nat
      /\ \A l \in DOMAIN logins : logins[l].tab \in Tab
  BY LoginsAre DEF StoreInv, StoreTyped, LoginsInv, BrowserTyped, Login
<1>2. ASSUME NEW w \in Wallet, StrangerAsks(w) PROVE StoreInv' /\ LoginsInv' /\ CallsInv'
  <2>1. Challenge(w) /\ now' = now /\ UNCHANGED browser /\ epoch' = epoch
    BY <1>2 DEF StrangerAsks, Challenge
  <2> QED BY <1>1, <2>1, ChallengeStore, UntouchedLogins DEF browser, CallsInv, Fresh
<1>3. ASSUME NEW n \in DOMAIN tickets, WrongSignature(n)
      PROVE  StoreInv' /\ LoginsInv' /\ CallsInv'
  <2>1. UNCHANGED browser /\ epoch' = epoch
    BY <1>3 DEF WrongSignature
  <2> QED BY <1>1, <1>3, <2>1, WrongSignatureStore, UntouchedLogins DEF browser, CallsInv, Fresh
<1>4. ASSUME Restart PROVE StoreInv' /\ LoginsInv' /\ CallsInv'
  <2>1. UNCHANGED browser /\ epoch' \in Nat
    BY <1>1, <1>4 DEF Restart
  <2> QED BY <1>4, <2>1, RestartStore, UntouchedLogins DEF browser, CallsInv, Fresh
<1>5. ASSUME NEW l \in DOMAIN logins, Ask(l) PROVE StoreInv' /\ LoginsInv' /\ CallsInv'
  <2>1. PICK w \in Wallet : w = Owner[logins[l].tab]
    BY <1>1, SignInAssumption
  <2>2. Challenge(w) /\ now' = now /\ UNCHANGED calls
    BY <1>5, <2>1 DEF Ask
  <2> QED BY <1>1, <1>5, <2>2, ChallengeStore, AskLogins DEF CallsInv, Fresh
<1>6. ASSUME NEW l \in DOMAIN logins, Verify(l) PROVE StoreInv' /\ LoginsInv' /\ CallsInv'
  <2>1. VerifyLogin(logins[l].nonce) /\ now' = now /\ UNCHANGED calls
    BY <1>6 DEF Verify
  <2> QED BY <1>1, <1>6, <2>1, VerifyStore, VerifyLogins DEF CallsInv, Fresh
<1>7. ASSUME NEW l \in DOMAIN logins, Repeat(l) PROVE StoreInv' /\ LoginsInv' /\ CallsInv'
  <2>1. VerifyLogin(logins[l].nonce) /\ now' = now /\ UNCHANGED browser /\ epoch' = epoch
    BY <1>7 DEF Repeat, VerifyLogin
  <2> QED BY <1>1, <2>1, VerifyStore, UntouchedLogins DEF browser, CallsInv, Fresh
<1>8. ASSUME NEW l \in DOMAIN logins, Fail(l) PROVE StoreInv' /\ LoginsInv' /\ CallsInv'
  <2>1. UNCHANGED <<now, backend, calls>>
    BY <1>8 DEF Fail
  <2> QED BY <1>8, <2>1, WaitingStore, FailLogins DEF backend, CallsInv, Fresh
<1>9. ASSUME NEW l \in DOMAIN logins, Settle(l) PROVE StoreInv' /\ LoginsInv' /\ CallsInv'
  <2>1. UNCHANGED <<now, backend>>
    BY <1>9 DEF Settle
  <2> QED BY <1>9, <2>1, WaitingStore, SettleLogins, SettleCalls DEF backend
<1>10. ASSUME NEW t \in Tab, SignInWith(t) PROVE StoreInv' /\ LoginsInv' /\ CallsInv'
  <2>1. UNCHANGED <<now, backend, calls>>
    BY <1>10 DEF SignInWith
  <2> QED BY <1>10, <2>1, WaitingStore, SignInWithLogins DEF backend, CallsInv, Fresh
<1>11. ASSUME NEW t \in Tab, SignOut(t) PROVE StoreInv' /\ LoginsInv' /\ CallsInv'
  <2>1. UNCHANGED <<now, backend, calls>>
    BY <1>11 DEF SignOut
  <2> QED BY <1>11, <2>1, WaitingStore, SignOutLogins DEF backend, CallsInv, Fresh
<1>12. ASSUME NEW t \in Tab, Reload(t) PROVE StoreInv' /\ LoginsInv' /\ CallsInv'
  <2>1. UNCHANGED <<now, backend>>
    BY <1>12 DEF Reload
  <2> QED BY <1>12, <2>1, WaitingStore, ReloadLogins, ReloadCalls DEF backend
<1>13. ASSUME NEW t \in Tab, NEW r \in Request, Call(t, r)
       PROVE  StoreInv' /\ LoginsInv' /\ CallsInv'
  <2>1. UNCHANGED <<now, backend>>
    BY <1>13 DEF Call
  <2> QED BY <1>13, <2>1, WaitingStore, CallLogins, CallCalls DEF backend
<1>14. ASSUME NEW t \in Tab, NEW r \in Request, Answered(t, r) \/ GivenUp(t, r)
       PROVE  StoreInv' /\ LoginsInv' /\ CallsInv'
  <2>1. UNCHANGED <<now, backend, stored, cache, inFlight, logins>>
    BY <1>14 DEF Answered, GivenUp
  <2> QED BY <1>1, <1>14, <2>1, WaitingStore, UntouchedLogins, EndedCalls DEF backend
<1>15. ASSUME NEW t \in Tab, NEW r \in Request, Refused(t, r)
       PROVE  StoreInv' /\ LoginsInv' /\ CallsInv'
  <2>1. UNCHANGED <<now, backend>>
    BY <1>15 DEF Refused
  <2> QED BY <1>15, <2>1, WaitingStore, RefusedLogins, RefusedCalls DEF backend
<1>16. ASSUME Tick PROVE StoreInv' /\ LoginsInv' /\ CallsInv'
  <2>1. now' = now + 1 /\ UNCHANGED <<backend, browser>>
    BY <1>16 DEF Tick
  <2> QED BY <1>1, <2>1, WaitingStore, UntouchedLogins DEF backend, browser, CallsInv, Fresh
<1>17. CASE UNCHANGED vars
  <2>1. UNCHANGED <<now, backend, browser>>
    BY <1>17 DEF vars
  <2> QED BY <1>1, <2>1, WaitingStore, UntouchedLogins DEF backend, browser, CallsInv, Fresh
<1> QED
  BY <1>2, <1>3, <1>4, <1>5, <1>6, <1>7, <1>8, <1>9, <1>10, <1>11, <1>12, <1>13, <1>14, <1>15,
     <1>16, <1>17 DEF Next

LEMMA SignInInvariant == Spec => []SignInInv
<1> QED BY SignInInvInit, SignInInvNext, PTL DEF Spec

(* However many challenges anybody asks for and whatever is sent to         *)
(* verifyLogin, over restarts of the backend: a challenge opens one session *)
(* at most, before it expires, and a live one goes only where the caps of   *)
(* createWalletAuth or its attempts say so.                                 *)
THEOREM ChallengesAlwaysHold == Spec => []ChallengesHold
<1>1. SignInInv => ChallengesHold
  BY DEF SignInInv, StoreInv
<1> QED BY <1>1, SignInInvariant, PTL

(* However logins, sign-outs, reloads and refused calls of any number of    *)
(* tabs interleave: what a tab or the storage keeps was brought by a login  *)
(* nobody abandoned, a tab shares one login, and the retry of withSession   *)
(* goes out with a session of a login begun after the refusal.              *)
THEOREM SessionsAlwaysSound == Spec => []SessionsSound
<1>1. SignInInv => AbandonedLeavesNothing
  BY DEF SignInInv, LoginsInv, AllBrought, Brought, AbandonedLeavesNothing
<1>2. SignInInv => OneLogin /\ RetryIsFresh
  BY DEF SignInInv, LoginsInv, CallsInv, Fresh, RetryIsFresh
<1> QED BY <1>1, <1>2, SignInInvariant, PTL DEF SessionsSound
=============================================================================
