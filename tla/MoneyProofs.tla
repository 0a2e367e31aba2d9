---------------------------- MODULE MoneyProofs ----------------------------
(***************************************************************************)
(* Proofs about amounts: the arithmetic of Money and of the app's copy of  *)
(* it, for every deposit, deduction and agreed fee, and then sums over     *)
(* finite sets, which the limits of RentPlan, Sponsor and Onramp are       *)
(* stated with.                                                            *)
(***************************************************************************)
EXTENDS Preview, WellFoundedInduction, FiniteSetTheorems, TLAPS

(* The cap on an appraiser's fee is a tenth of the deposit, rounded down.   *)
LEMMA FeeCapIsATenth ==
    ASSUME NEW d \in Nat
    PROVE  /\ AppraiserFeeCap(d) \in Nat
           /\ 10 * AppraiserFeeCap(d) <= d
BY DEF AppraiserFeeCap, APPRAISER_FEE_CAP_DIVISOR

(* The app's copy of the verdict split (lib/mediation.ts), given the fee it *)
(* quotes, is the program's.                                                *)
LEMMA SplitForeseen ==
    ASSUME NEW d \in Nat, NEW k \in Nat, NEW f \in Nat, k <= d
    PROVE  verdictSplit(d, k, feeFor(d, f)) = VerdictSplit(d, k, f)
<1>1. feeFor(d, f) = Smaller(f, AppraiserFeeCap(d))
  BY DEF feeFor, feeCap, AppraiserFeeCap
<1>2. feePayer(d, k) = (IF k * 2 > d THEN "tenant" ELSE "landlord") /\ "tenant" # "landlord"
  BY DEF feePayer
<1> QED BY <1>1, <1>2 DEF verdictSplit, VerdictSplit

(* What Shares builds is read back share by share.                          *)
LEMMA SharesFields ==
    ASSUME NEW t, NEW l, NEW a
    PROVE  /\ Shares(t, l, a)["tenant"] = t
           /\ Shares(t, l, a)["landlord"] = l
           /\ Shares(t, l, a)["appraiser"] = a
BY DEF Shares, Payee

LEMMA SharesType ==
    ASSUME NEW t \in Nat, NEW l \in Nat, NEW a \in Nat
    PROVE  Shares(t, l, a) \in Split
BY DEF Shares, Payee, Split

(* close_with_deduction and mark_default: the two legs are the deposit.     *)
THEOREM PlainSplitConserves ==
    ASSUME NEW d \in Nat, NEW k \in Nat, k <= d
    PROVE  /\ PlainSplit(d, k) \in Split
           /\ SplitTotal(PlainSplit(d, k)) = d
           /\ PlainSplit(d, k)["landlord"] = k
           /\ PlainSplit(d, k)["appraiser"] = 0
BY SharesFields, SharesType DEF PlainSplit, SplitTotal

(* verdict_split: no branch underflows, the three shares are exactly the    *)
(* deposit, and the appraiser gets no more than was agreed and no more than *)
(* a tenth.                                                                 *)
THEOREM VerdictSplitConserves ==
    ASSUME NEW d \in Nat, NEW k \in Nat, NEW f \in Nat, k <= d
    PROVE  LET s == VerdictSplit(d, k, f)
           IN /\ s \in Split
              /\ SplitTotal(s) = d
              /\ s["appraiser"] <= f
              /\ 10 * s["appraiser"] <= d
              /\ s["landlord"] <= k
              /\ k <= s["landlord"] + s["appraiser"]
              /\ 2 * k > d => s["landlord"] = k
              /\ s["landlord"] > 0 /\ 2 * k <= d => s["tenant"] = d - k
<1> DEFINE s    == VerdictSplit(d, k, f)
           pays == Smaller(f, AppraiserFeeCap(d))
<1>1. pays \in Nat /\ pays <= f /\ 10 * pays <= d
  BY FeeCapIsATenth DEF Smaller
<1>2. CASE 2 * k > d
  <2> DEFINE paid == Smaller(pays, d - k)
  <2>1. paid \in Nat /\ paid <= pays /\ paid <= d - k
    BY <1>1 DEF Smaller
  <2>2. s = Shares((d - k) - paid, k, paid)
    BY <1>2 DEF VerdictSplit
  <2>3. s["tenant"] = (d - k) - paid /\ s["landlord"] = k /\ s["appraiser"] = paid
    BY <2>2, SharesFields
  <2>4. s \in Split
    BY <2>1, <2>2, SharesType
  <2> QED
    BY <1>1, <1>2, <2>1, <2>3, <2>4 DEF SplitTotal
<1>3. CASE 2 * k <= d
  <2> DEFINE part == Smaller(pays, k)
  <2>1. part \in Nat /\ part <= pays /\ part <= k /\ (part = pays \/ part = k)
    BY <1>1 DEF Smaller
  <2>2. s = Shares((d - k) - (pays - part), k - part, pays)
    BY <1>3 DEF VerdictSplit
  <2>3. pays - part \in Nat /\ pays - part <= d - k
    BY <1>1, <1>3, <2>1
  <2>4. /\ s["tenant"] = (d - k) - (pays - part)
        /\ s["landlord"] = k - part
        /\ s["appraiser"] = pays
    BY <2>2, SharesFields
  <2>5. s \in Split
    BY <1>1, <2>1, <2>2, <2>3, SharesType
  <2> QED
    BY <1>1, <1>3, <2>1, <2>3, <2>4, <2>5 DEF SplitTotal
<1> QED
  BY <1>2, <1>3

(* One unit more awarded never takes from the landlord or gives to the      *)
(* tenant, also where the award crosses half of the deposit.                *)
THEOREM VerdictSplitMonotone ==
    ASSUME NEW d \in Nat, NEW k \in Nat, NEW f \in Nat, k < d
    PROVE  /\ VerdictSplit(d, k + 1, f)["landlord"] >= VerdictSplit(d, k, f)["landlord"]
           /\ VerdictSplit(d, k + 1, f)["tenant"] <= VerdictSplit(d, k, f)["tenant"]
<1> DEFINE pays == Smaller(f, AppraiserFeeCap(d))
           landlords(j) == IF 2 * j > d THEN j ELSE j - Smaller(pays, j)
           tenants(j)   == IF 2 * j > d THEN (d - j) - Smaller(pays, d - j)
                                        ELSE (d - j) - (pays - Smaller(pays, j))
<1>1. pays \in Nat /\ 10 * pays <= d
  BY FeeCapIsATenth DEF Smaller
<1>2. ASSUME NEW j \in Nat
      PROVE  /\ VerdictSplit(d, j, f)["landlord"] = landlords(j)
             /\ VerdictSplit(d, j, f)["tenant"] = tenants(j)
  <2>1. CASE 2 * j > d
    BY <2>1, SharesFields DEF VerdictSplit
  <2>2. CASE ~(2 * j > d)
    BY <2>2, SharesFields DEF VerdictSplit
  <2> QED
    BY <2>1, <2>2
<1>3. landlords(k + 1) >= landlords(k) /\ tenants(k + 1) <= tenants(k)
  BY <1>1 DEF Smaller
<1> QED
  BY <1>2, <1>3

(* Division rounds down.                                                    *)
LEMMA QuotientBounds ==
    ASSUME NEW a \in Nat, NEW b \in Nat \ {0}
    PROVE  /\ a \div b \in Nat
           /\ b * (a \div b) <= a
           /\ a < b * (a \div b) + b
OBVIOUS

(* return_bps is a rate: between 0 and BPS_FULL, and BPS_FULL exactly when  *)
(* nothing was withheld.                                                    *)
THEOREM ReturnBpsIsARate ==
    ASSUME NEW d \in Nat \ {0}, NEW k \in Nat, k <= d
    PROVE  /\ ReturnBps(d, k) \in 0 .. BPS_FULL
           /\ ReturnBps(d, k) = BPS_FULL <=> k = 0
<1> DEFINE q == ((d - k) * BPS_FULL) \div d
<1>1. (d - k) * BPS_FULL \in Nat /\ d - k \in Nat
  BY DEF BPS_FULL
<1>2. q \in Nat /\ d * q <= (d - k) * 10000 /\ (d - k) * 10000 < d * q + d
  BY <1>1, QuotientBounds DEF BPS_FULL
<1>3. ReturnBps(d, k) = q
  BY DEF ReturnBps
<1> HIDE DEF q
<1>4. q <= 10000
  <2> SUFFICES ASSUME q >= 10001 PROVE FALSE
    BY <1>2
  <2>1. d * q >= d * 10001
    BY <1>2
  <2> QED
    BY <1>2, <2>1
<1>5. ASSUME q = 10000 PROVE k = 0
  BY <1>2, <1>5
<1>6. ASSUME k = 0 PROVE q = 10000
  <2>1. d * 10000 < d * (q + 1)
    BY <1>2, <1>6
  <2> QED
    BY <1>2, <1>4, <2>1
<1> QED
  BY <1>2, <1>3, <1>4, <1>5, <1>6 DEF BPS_FULL

-----------------------------------------------------------------------------
(* A saturating counter stays a natural number.                             *)
LEMMA SatAddType ==
    ASSUME NEW a \in Nat, NEW b \in Nat, NEW max \in Nat
    PROVE  SatAdd(a, b, max) \in Nat
BY DEF SatAdd, Smaller

(* record_deposit_outcome leaves a record, and touches none of the counters *)
(* that its callers keep themselves.                                        *)
THEOREM RecordDepositOutcomeType ==
    ASSUME NEW p \in Profile, NEW d \in Nat, NEW k \in Nat, k <= d
    PROVE  /\ RecordDepositOutcome(p, d, k) \in Profile
           /\ RecordDepositOutcome(p, d, k).deposits_returned_full = p.deposits_returned_full
           /\ RecordDepositOutcome(p, d, k).leases_completed = p.leases_completed
<1>1. CASE d = 0
  BY <1>1 DEF RecordDepositOutcome
<1>2. CASE d # 0
  <2> DEFINE total  == SatAdd(p.deposit_total, d, U64_MAX)
             kept   == SatAdd(p.deducted_total, k, U64_MAX)
             events == SatAdd(p.deposit_events, 1, U32_MAX)
  <2>1. ReturnBps(d, k) \in Int
    <3>1. ReturnBps(d, k) \in 0 .. BPS_FULL
      BY <1>2, ReturnBpsIsARate
    <3>2. 0 .. BPS_FULL \subseteq Int
      BY DEF BPS_FULL
    <3> QED
      BY <3>1, <3>2
  <2>2. total \in Nat /\ kept \in Nat /\ events \in Nat
    BY WidthAssumption, SatAddType DEF Profile
  <2> HIDE DEF total, kept, events
  <2>3. RecordDepositOutcome(p, d, k) =
          [p EXCEPT !.last_deposit_return_bps = ReturnBps(d, k), !.deposit_total = total,
                    !.deducted_total = kept, !.deposit_events = events]
    BY <1>2 DEF RecordDepositOutcome, total, kept, events
  <2> QED
    BY <2>1, <2>2, <2>3 DEF Profile
<1> QED
  BY <1>1, <1>2

-----------------------------------------------------------------------------
(* A set of fees has a lowest one (the well-ordering of the naturals).      *)
LEMMA LowestExists ==
    ASSUME NEW S, S \subseteq Nat, S # {}
    PROVE  \E x \in S : \A y \in S : x <= y
<1>1. PICK x \in S : \A y \in S : ~(<<y, x>> \in OpToRel(<, Nat))
  BY NatLessThanWellFounded, WFMin
<1>2. \A y \in S : ~(y < x)
  BY <1>1 DEF OpToRel
<1> QED
  BY <1>2

-----------------------------------------------------------------------------
(* Sums of a function over a finite set.  The folds of the community        *)
(* modules are recursive functions over the subsets of their set; here is   *)
(* what the proofs about the limits need to know of a sum: that the         *)
(* recursion defines it, what adding and removing an element does to it,    *)
(* and when one sum is at most another.                                     *)
(*                                                                          *)
(* Each induction is a search for a smallest counterexample, by the number  *)
(* of elements (WFMin).                                                     *)

Pick(s) == CHOOSE x \in s : TRUE

(* The recursion of a fold that adds up f, over the subsets D of a set.     *)
Step(g, f, s) == IF s = {} THEN 0 ELSE f[Pick(s)] + g[s \ {Pick(s)}]
IsTable(g, f, D) == g = [s \in D |-> Step(g, f, s)]

Sum(f, S) == (CHOOSE g : IsTable(g, f, SUBSET S))[S]

LEMMA PickIn == ASSUME NEW s, s # {} PROVE Pick(s) \in s
  BY DEF Pick

(* A smaller subset, and one element less to count.                         *)
LEMMA OneLess ==
    ASSUME NEW S, IsFiniteSet(S), NEW s \in SUBSET S, NEW x \in s
    PROVE  /\ s \ {x} \in SUBSET S
           /\ Cardinality(s) \in Nat \ {0}
           /\ Cardinality(s \ {x}) = Cardinality(s) - 1
<1>1. IsFiniteSet(s)
  BY FS_Subset
<1>2. Cardinality(s) \in Nat /\ Cardinality(s \ {x}) \in Nat
  BY <1>1, FS_RemoveElement, FS_CardinalityType
<1>3. Cardinality(s) # 0
  BY <1>1, FS_EmptySet
<1> QED
  BY <1>1, <1>2, <1>3, FS_RemoveElement

(* A set of natural numbers with no least element that fails is empty: the  *)
(* form in which every induction below is used.                             *)
LEMMA NoLeast ==
    ASSUME NEW B \in SUBSET Nat,
           \A n \in B : \E m \in B : m < n
    PROVE  B = {}
<1> SUFFICES ASSUME B # {} PROVE FALSE
  OBVIOUS
<1>1. PICK n \in B : \A m \in B : ~(<<m, n>> \in OpToRel(<, Nat))
  BY NatLessThanWellFounded, WFMin
<1> QED
  BY <1>1 DEF OpToRel

(* The recursion has a solution: on the subsets of up to n elements by the  *)
(* one of up to n - 1, and no subset has more than S.                       *)
LEMMA TableExists ==
    ASSUME NEW f, NEW S, IsFiniteSet(S)
    PROVE  \E g : IsTable(g, f, SUBSET S)
<1> DEFINE Upto(n) == {s \in SUBSET S : Cardinality(s) <= n}
           Has(n)  == \E g : IsTable(g, f, Upto(n))
           B       == {n \in Nat : ~Has(n)}
<1>1. ASSUME NEW n \in B, n - 1 \notin B PROVE FALSE
  <2>0. n \in Nat /\ ~Has(n) /\ (n > 0 => Has(n - 1))
    <3> HIDE DEF Has
    <3> QED BY <1>1
  <2>1. CASE n = 0
    <3>1. Upto(0) = {{}}
      <4>1. ASSUME NEW s \in SUBSET S PROVE Cardinality(s) <= 0 <=> s = {}
        BY FS_Subset, FS_EmptySet, FS_CardinalityType
      <4> QED BY <4>1
    <3>2. IsTable([s \in {{}} |-> 0], f, {{}})
      BY DEF IsTable, Step
    <3> QED BY <2>0, <2>1, <3>1, <3>2
  <2>2. CASE n > 0
    <3>1. PICK g : IsTable(g, f, Upto(n - 1))
      BY <1>1, <2>0, <2>2
    <3> DEFINE h == [s \in Upto(n) |-> Step(g, f, s)]
    <3>2. ASSUME NEW s \in Upto(n) PROVE Step(g, f, s) = Step(h, f, s)
      <4>1. CASE s = {}
        BY <4>1 DEF Step
      <4>2. CASE s # {}
        <5> DEFINE t == s \ {Pick(s)}
        <5>1. t \in Upto(n - 1) /\ t \in Upto(n)
          BY <2>0, <4>2, PickIn, OneLess
        <5>2. g[t] = Step(g, f, t) /\ h[t] = Step(g, f, t)
          BY <3>1, <5>1 DEF IsTable
        <5> QED BY <4>2, <5>2 DEF Step
      <4> QED BY <4>1, <4>2
    <3>3. h = [s \in Upto(n) |-> Step(h, f, s)]
      <4> HIDE DEF Upto
      <4> QED BY <3>2
    <3> QED BY <2>0, <3>3 DEF IsTable
  <2> QED BY <2>0, <2>1, <2>2
<1>2. B = {}
  <2> HIDE DEF B
  <2>1. B \in SUBSET Nat
    BY DEF B
  <2>2. ASSUME NEW n \in B PROVE \E m \in B : m < n
    BY <1>1, <2>1
  <2> QED BY <2>1, <2>2, NoLeast
<1>3. Cardinality(S) \in Nat
  BY FS_CardinalityType
<1>4. Upto(Cardinality(S)) = SUBSET S
  BY FS_Subset
<1>5. Has(Cardinality(S))
  <2> HIDE DEF Has
  <2> QED BY <1>2, <1>3
<1> QED BY <1>4, <1>5

(* It has one solution, which depends on nothing but f on the set summed.   *)
LEMMA TableUnique ==
    ASSUME NEW f, NEW g, NEW S, NEW e, NEW h, NEW T, IsFiniteSet(S),
           IsTable(g, f, SUBSET S), IsTable(h, e, SUBSET T),
           NEW s \in SUBSET S, s \in SUBSET T, \A x \in s : f[x] = e[x]
    PROVE  g[s] = h[s]
<1> DEFINE Differ(t) == g[t] # h[t]
           B == {n \in Nat : \E t \in SUBSET s : Cardinality(t) = n /\ Differ(t)}
<1>1. ASSUME NEW n \in B PROVE \E m \in B : m < n
  <2>1. PICK t \in SUBSET s : Cardinality(t) = n /\ Differ(t)
    OBVIOUS
  <2>2. t \in SUBSET S /\ t \in SUBSET T
    OBVIOUS
  <2>3. g[t] = Step(g, f, t) /\ h[t] = Step(h, e, t)
    BY <2>2 DEF IsTable
  <2>4. t # {}
    BY <2>1, <2>3 DEF Step
  <2> DEFINE u == t \ {Pick(t)}
  <2>5. Differ(u)
    BY <2>1, <2>3, <2>4, PickIn DEF Step
  <2>6. u \in SUBSET s /\ Cardinality(u) < n /\ Cardinality(u) \in Nat
    BY <2>1, <2>2, <2>4, PickIn, OneLess
  <2>7. Cardinality(u) \in B
    <3> HIDE DEF Differ
    <3> QED BY <2>5, <2>6
  <2> QED BY <2>6, <2>7
<1>2. B = {}
  <2> HIDE DEF B
  <2>1. B \in SUBSET Nat
    BY DEF B
  <2> QED BY <1>1, <2>1, NoLeast
<1>3. Cardinality(s) \in Nat
  BY FS_Subset, FS_CardinalityType
<1> QED BY <1>2, <1>3

LEMMA SumTable ==
    ASSUME NEW f, NEW S, IsFiniteSet(S)
    PROVE  \E g : /\ IsTable(g, f, SUBSET S)
                  /\ \A s \in SUBSET S : Sum(f, s) = g[s]
<1> DEFINE G(s) == CHOOSE g : IsTable(g, f, SUBSET s)
<1>1. ASSUME NEW s \in SUBSET S PROVE IsTable(G(s), f, SUBSET s) /\ IsFiniteSet(s)
  <2>1. IsFiniteSet(s)
    BY FS_Subset
  <2> QED BY <2>1, TableExists
<1>2. IsTable(G(S), f, SUBSET S)
  BY <1>1
<1>3. ASSUME NEW s \in SUBSET S PROVE Sum(f, s) = G(S)[s]
  <2>1. IsTable(G(s), f, SUBSET s)
    BY <1>1
  <2> HIDE DEF G
  <2>2. G(S)[s] = G(s)[s]
    BY <1>2, <2>1, TableUnique
  <2> QED BY <2>2 DEF Sum, G
<1> HIDE DEF G
<1> QED BY <1>2, <1>3

-----------------------------------------------------------------------------
(* What a fold that follows the recursion returns is the sum.               *)
LEMMA TableIsSum ==
    ASSUME NEW f, NEW g, NEW S, IsFiniteSet(S), IsTable(g, f, SUBSET S)
    PROVE  g[S] = Sum(f, S)
<1>1. PICK h : IsTable(h, f, SUBSET S) /\ \A s \in SUBSET S : Sum(f, s) = h[s]
  BY SumTable
<1>2. S \in SUBSET S /\ Sum(f, S) = h[S]
  BY <1>1
<1>3. g[S] = h[S]
  BY <1>1, <1>2, TableUnique
<1> QED BY <1>2, <1>3

LEMMA SumSame ==
    ASSUME NEW f, NEW e, NEW S, IsFiniteSet(S), \A x \in S : f[x] = e[x]
    PROVE  Sum(f, S) = Sum(e, S)
<1>1. PICK g : IsTable(g, f, SUBSET S) /\ \A s \in SUBSET S : Sum(f, s) = g[s]
  BY SumTable
<1>2. PICK h : IsTable(h, e, SUBSET S) /\ \A s \in SUBSET S : Sum(e, s) = h[s]
  BY SumTable
<1>3. g[S] = h[S]
  BY <1>1, <1>2, TableUnique
<1> QED BY <1>1, <1>2, <1>3

LEMMA SumEmpty == ASSUME NEW f PROVE Sum(f, {}) = 0
<1>1. PICK g : IsTable(g, f, SUBSET {}) /\ \A s \in SUBSET {} : Sum(f, s) = g[s]
  BY SumTable, FS_EmptySet
<1>2. g[{}] = Step(g, f, {})
  BY <1>1 DEF IsTable
<1> QED BY <1>1, <1>2 DEF Step

LEMMA SumPick ==
    ASSUME NEW f, NEW S, IsFiniteSet(S), S # {}
    PROVE  Sum(f, S) = f[Pick(S)] + Sum(f, S \ {Pick(S)})
<1>1. PICK g : IsTable(g, f, SUBSET S) /\ \A s \in SUBSET S : Sum(f, s) = g[s]
  BY SumTable
<1>2. g[S] = f[Pick(S)] + g[S \ {Pick(S)}]
  BY <1>1 DEF IsTable, Step
<1>3. S \ {Pick(S)} \in SUBSET S
  OBVIOUS
<1> QED BY <1>1, <1>2, <1>3

(* A sum stays in any set that holds 0 and is closed under addition: Int,   *)
(* Nat, {0}.                                                                *)
LEMMA SumType ==
    ASSUME NEW f, NEW S, IsFiniteSet(S),
           NEW R, 0 \in R, \A a, b \in R : a + b \in R, \A x \in S : f[x] \in R
    PROVE  Sum(f, S) \in R
<1> DEFINE Bad(t) == Sum(f, t) \notin R
           B == {n \in Nat : \E t \in SUBSET S : Cardinality(t) = n /\ Bad(t)}
<1>1. ASSUME NEW n \in B PROVE \E m \in B : m < n
  <2>1. PICK t \in SUBSET S : Cardinality(t) = n /\ Bad(t)
    OBVIOUS
  <2>2. t # {} /\ IsFiniteSet(t)
    <3>1. Sum(f, {}) \in R
      BY SumEmpty
    <3> QED BY <2>1, <3>1, FS_Subset
  <2> DEFINE u == t \ {Pick(t)}
  <2>3. Pick(t) \in t /\ f[Pick(t)] \in R
    BY <2>2, PickIn
  <2>4. Sum(f, t) = f[Pick(t)] + Sum(f, u)
    BY <2>2, SumPick
  <2>5. Bad(u)
    BY <2>1, <2>3, <2>4
  <2>6. u \in SUBSET S /\ Cardinality(u) < n /\ Cardinality(u) \in Nat
    BY <2>1, <2>3, OneLess
  <2>7. Cardinality(u) \in B
    <3> HIDE DEF Bad
    <3> QED BY <2>5, <2>6
  <2> QED BY <2>6, <2>7
<1>2. B = {}
  <2> HIDE DEF B
  <2>1. B \in SUBSET Nat
    BY DEF B
  <2> QED BY <1>1, <2>1, NoLeast
<1>3. Cardinality(S) \in Nat
  BY FS_CardinalityType
<1> QED BY <1>2, <1>3

LEMMA SumNat ==
    ASSUME NEW f, NEW S, IsFiniteSet(S), \A x \in S : f[x] \in Nat
    PROVE  Sum(f, S) \in Nat
<1>1. 0 \in Nat /\ \A a, b \in Nat : a + b \in Nat
  OBVIOUS
<1> QED BY <1>1, SumType

LEMMA SumZero ==
    ASSUME NEW f, NEW S, IsFiniteSet(S), \A x \in S : f[x] = 0
    PROVE  Sum(f, S) = 0
<1>1. 0 \in {0} /\ \A a, b \in {0} : a + b \in {0}
  OBVIOUS
<1>2. Sum(f, S) \in {0}
  BY <1>1, SumType
<1> QED BY <1>2

(* The order in which a fold picks does not matter.                         *)
LEMMA SumRemove ==
    ASSUME NEW f, NEW S, IsFiniteSet(S), \A x \in S : f[x] \in Int, NEW x \in S
    PROVE  Sum(f, S) = f[x] + Sum(f, S \ {x})
<1> DEFINE Bad(t) == \E y \in t : Sum(f, t) # f[y] + Sum(f, t \ {y})
           B == {n \in Nat : \E t \in SUBSET S : Cardinality(t) = n /\ Bad(t)}
<1>1. ASSUME NEW n \in B PROVE \E m \in B : m < n
  <2>1. PICK t \in SUBSET S : Cardinality(t) = n /\ Bad(t)
    <3> HIDE DEF Bad
    <3> QED OBVIOUS
  <2>2. PICK y \in t : Sum(f, t) # f[y] + Sum(f, t \ {y})
    BY <2>1
  <2>3. t # {} /\ IsFiniteSet(t)
    BY FS_Subset
  <2> DEFINE p == Pick(t)
             u == t \ {p}
             v == t \ {y}
             w == u \ {y}
  <2>4. p \in t /\ f[p] \in Int /\ f[y] \in Int
    BY <2>3, PickIn
  <2>5. Sum(f, t) = f[p] + Sum(f, u)
    BY <2>3, SumPick
  <2>6. y # p /\ y \in u /\ p \in v /\ w = v \ {p}
    BY <2>2, <2>4, <2>5
  <2>7. /\ u \in SUBSET S /\ v \in SUBSET S
        /\ Cardinality(u) \in Nat /\ Cardinality(u) < n
        /\ Cardinality(v) \in Nat /\ Cardinality(v) < n
    BY <2>1, <2>4, OneLess
  <2>8. IsFiniteSet(w) /\ \A z \in w : f[z] \in Int
    BY <2>3, FS_Subset
  <2>9. Sum(f, w) \in Int
    BY <2>8, SumType
  <2>10. Sum(f, u) # f[y] + Sum(f, w) \/ Sum(f, v) # f[p] + Sum(f, w)
    <3> HIDE DEF p, u, v, w
    <3> QED BY <2>2, <2>4, <2>5, <2>9 DEF v
  <2>11. Bad(u) \/ Bad(v)
    BY <2>6, <2>10
  <2>12. Cardinality(u) \in B \/ Cardinality(v) \in B
    <3> HIDE DEF Bad
    <3> QED BY <2>7, <2>11
  <2> QED BY <2>7, <2>12
<1>2. B = {}
  <2> HIDE DEF B
  <2>1. B \in SUBSET Nat
    BY DEF B
  <2> QED BY <1>1, <2>1, NoLeast
<1>3. Cardinality(S) \in Nat
  BY FS_CardinalityType
<1>4. ~Bad(S)
  <2> HIDE DEF Bad
  <2> QED BY <1>2, <1>3
<1> QED BY <1>4

LEMMA SumAdd ==
    ASSUME NEW f, NEW S, IsFiniteSet(S), NEW x, x \notin S,
           f[x] \in Int, \A y \in S : f[y] \in Int
    PROVE  Sum(f, S \cup {x}) = f[x] + Sum(f, S)
<1> DEFINE T == S \cup {x}
<1>1. IsFiniteSet(T) /\ x \in T /\ T \ {x} = S /\ \A y \in T : f[y] \in Int
  BY FS_AddElement
<1> HIDE DEF T
<1>2. Sum(f, T) = f[x] + Sum(f, T \ {x})
  BY <1>1, SumRemove
<1> QED BY <1>1, <1>2 DEF T

-----------------------------------------------------------------------------
(* If every element of S has a counterpart of its own in T that is worth at *)
(* least as much, S adds up to at most T.                                   *)
LEMMA SumAtMost ==
    ASSUME NEW f, NEW S, IsFiniteSet(S), \A x \in S : f[x] \in Int,
           NEW e, NEW T, IsFiniteSet(T), \A y \in T : e[y] \in Nat,
           NEW m, \A x \in S : m[x] \in T /\ f[x] <= e[m[x]],
           \A x, y \in S : m[x] = m[y] => x = y
    PROVE  Sum(f, S) <= Sum(e, T)
<1> DEFINE Into(s, t) == \A x \in s : m[x] \in t
           Bad(s) == \E t \in SUBSET T : Into(s, t) /\ ~(Sum(f, s) <= Sum(e, t))
           B == {n \in Nat : \E s \in SUBSET S : Cardinality(s) = n /\ Bad(s)}
<1>1. ASSUME NEW n \in B PROVE \E k \in B : k < n
  <2>1. PICK s \in SUBSET S : Cardinality(s) = n /\ Bad(s)
    <3> HIDE DEF Bad
    <3> QED OBVIOUS
  <2>2. PICK t \in SUBSET T : Into(s, t) /\ ~(Sum(f, s) <= Sum(e, t))
    BY <2>1
  <2>3. IsFiniteSet(s) /\ IsFiniteSet(t)
    BY FS_Subset
  <2>4. Sum(e, t) \in Nat
    BY <2>3, SumNat
  <2>5. s # {}
    BY <2>2, <2>4, SumEmpty
  <2> DEFINE x == Pick(s)
             u == s \ {x}
             v == t \ {m[x]}
  <2>6. x \in s /\ m[x] \in t
    BY <2>2, <2>5, PickIn
  <2>7. Sum(f, s) = f[x] + Sum(f, u)
    BY <2>3, <2>6, SumRemove
  <2>8. Sum(e, t) = e[m[x]] + Sum(e, v)
    BY <2>3, <2>6, SumRemove
  <2>9. IsFiniteSet(u) /\ IsFiniteSet(v)
    BY <2>3, FS_Subset
  <2>10. Sum(f, u) \in Int /\ Sum(e, v) \in Int
    BY <2>9, SumType
  <2>11. Into(u, v)
    BY <2>2, <2>6
  <2>12. ~(Sum(f, u) <= Sum(e, v))
    <3>1. f[x] \in Int /\ e[m[x]] \in Int /\ f[x] <= e[m[x]]
      BY <2>6
    <3> HIDE DEF x, u, v
    <3> QED BY <2>2, <2>7, <2>8, <2>10, <3>1
  <2>13. Bad(u)
    <3>1. v \in SUBSET T
      OBVIOUS
    <3> HIDE DEF Into, u, v
    <3> QED BY <2>11, <2>12, <3>1
  <2>14. u \in SUBSET S /\ Cardinality(u) \in Nat /\ Cardinality(u) < n
    BY <2>1, <2>6, OneLess
  <2>15. Cardinality(u) \in B
    <3> HIDE DEF Bad
    <3> QED BY <2>13, <2>14
  <2> QED BY <2>14, <2>15
<1>2. B = {}
  <2> HIDE DEF B
  <2>1. B \in SUBSET Nat
    BY DEF B
  <2> QED BY <1>1, <2>1, NoLeast
<1>3. Cardinality(S) \in Nat
  BY FS_CardinalityType
<1>4. ~Bad(S)
  <2> HIDE DEF Bad
  <2> QED BY <1>2, <1>3
<1>5. Into(S, T)
  OBVIOUS
<1> QED BY <1>4, <1>5

(* In particular a part adds up to at most the whole.                       *)
LEMMA SumMonotone ==
    ASSUME NEW f, NEW T, IsFiniteSet(T), \A x \in T : f[x] \in Nat, NEW S \in SUBSET T
    PROVE  Sum(f, S) <= Sum(f, T)
<1> DEFINE m == [x \in T |-> x]
<1>1. IsFiniteSet(S) /\ \A x \in S : f[x] \in Int
  BY FS_Subset
<1>2. \A x \in S : m[x] \in T /\ f[x] <= f[m[x]]
  OBVIOUS
<1>3. \A x, y \in S : m[x] = m[y] => x = y
  OBVIOUS
<1> HIDE DEF m
<1> QED BY <1>1, <1>2, <1>3, SumAtMost

(* What a function makes of a finite set is finite. *)
LEMMA FiniteImage ==
    ASSUME NEW f, NEW S, IsFiniteSet(S)
    PROVE  IsFiniteSet({f[x] : x \in S})
<1> DEFINE T == {f[x] : x \in S}
           g == [x \in S |-> f[x]]
<1>1. g \in Surjection(S, T)
  BY DEF Surjection
<1> HIDE DEF g, T
<1>2. IsFiniteSet(T)
  BY <1>1, FS_Surjection
<1> QED BY <1>2 DEF T
=============================================================================
