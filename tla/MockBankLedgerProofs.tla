------------------------ MODULE MockBankLedgerProofs ------------------------
(***************************************************************************)
(* Machine-checked proofs that the balances of MockBank are the ones its   *)
(* ledger tells, and that it implements BankLedger: consequences of the    *)
(* inductive invariant of MockBankProofs.                                  *)
(***************************************************************************)
EXTENDS MockBankProofs, WellFoundedInduction

\* The prover of a leaf that names no other; arithmetic is for SMT.
USE Zenon

----------------------------------------------------------------------------
(* Sums over a sequence *)

Less == {pair \in Nat \X Nat : pair[1] < pair[2]}

\* A nonempty set of natural numbers has a least element.
LEMMA LeastElement ==
    ASSUME NEW T \in SUBSET Nat, T # {}
    PROVE  \E n \in T : \A m \in T : n <= m
<1>1. IsWellFoundedOn(Less, Nat)
  BY NatLessThanWellFounded DEF OpToRel, Less
<1>2. PICK n \in T : \A m \in T : ~ (<<m, n>> \in Less)
  BY <1>1, WFMin
<1>3. \A m \in T : ~ (m < n)
  BY <1>2 DEF Less
<1>. QED
  BY <1>3, SMT

\* f holds the sums of the first elements of s, up to the first n.
IsRunning(f, s, n) ==
    f = [k \in 0..n |-> IF k = 0 THEN 0 ELSE f[k - 1] + s[k]]

\* The sums of the first elements of a sequence of integers exist.
LEMMA RunningExists ==
    ASSUME NEW s \in Seq(Int), NEW n \in 0..Len(s)
    PROVE  \E f \in [0..n -> Int] : IsRunning(f, s, n)
<1>. DEFINE T == {m \in 0..Len(s) : ~ \E f \in [0..m -> Int] : IsRunning(f, s, m)}
<1>1. SUFFICES ASSUME T # {} PROVE FALSE
  OBVIOUS
<1>2. PICK m \in T : \A k \in T : m <= k
  <2>1. T \in SUBSET Nat
    BY SMT
  <2>. HIDE DEF T
  <2>. QED
    BY <1>1, <2>1, LeastElement
<1>3. CASE m = 0
  <2>1. IsRunning([k \in 0..0 |-> 0], s, 0)
    BY SMT DEF IsRunning
  <2>. QED
    BY <2>1, <1>2, <1>3, SMT
<1>4. CASE m # 0
  <2>1. m - 1 \in 0..Len(s) /\ m \in 1..Len(s) /\ m - 1 \notin T
    <3>1. Len(s) \in Nat /\ m \in 0..Len(s)
      BY SMT
    <3>2. m \in Nat /\ m - 1 \in 0..Len(s) /\ m \in 1..Len(s)
      BY <1>4, <3>1, SMT
    <3>. HIDE DEF T
    <3>3. m - 1 \notin T
      BY <1>2, <3>2, SMT
    <3>. QED
      BY <3>2, <3>3
  <2>2. PICK f \in [0..(m - 1) -> Int] : IsRunning(f, s, m - 1)
    BY <2>1
  <2>. DEFINE g == [k \in 0..m |-> IF k = m THEN f[m - 1] + s[m] ELSE f[k]]
  <2>3. s[m] \in Int
    BY <2>1, SMT
  <2>4. g \in [0..m -> Int]
    BY <2>1, <2>2, <2>3, SMT
  <2>5. ASSUME NEW k \in 0..m
        PROVE  g[k] = IF k = 0 THEN 0 ELSE g[k - 1] + s[k]
    <3>1. CASE k = m
      BY <3>1, <2>1, SMT
    <3>2. CASE k # m
      <4>1. k \in 0..(m - 1) /\ g[k] = f[k]
        BY <3>2, <2>1, SMT
      <4>2. f[k] = IF k = 0 THEN 0 ELSE f[k - 1] + s[k]
        BY <4>1, <2>2 DEF IsRunning
      <4>3. k # 0 => k - 1 \in 0..m /\ k - 1 # m
        BY <4>1, <2>1, SMT
      <4>. QED
        BY <4>1, <4>2, <4>3
    <3>. QED
      BY <3>1, <3>2
  <2>6. IsRunning(g, s, m)
    BY <2>5 DEF IsRunning
  <2>. QED
    BY <2>4, <2>6, <1>2
<1>. QED
  BY <1>3, <1>4

\* They are determined by the sequence.
LEMMA RunningUnique ==
    ASSUME NEW s, NEW n \in Nat, NEW f, NEW g, IsRunning(f, s, n), IsRunning(g, s, n)
    PROVE  f = g
<1>. DEFINE T == {k \in 0..n : f[k] # g[k]}
<1>1. SUFFICES ASSUME T # {} PROVE FALSE
  <2>1. ASSUME T = {} PROVE f = g
    <3>1. \A k \in 0..n : f[k] = g[k]
      BY <2>1
    <3>2. \A k \in 0..n : (k # 0 => k - 1 \in 0..n)
      BY SMT
    <3>. QED
      BY <3>1, <3>2, SMT DEF IsRunning
  <2>. QED
    BY <2>1
<1>2. PICK k \in T : \A j \in T : k <= j
  <2>1. T \in SUBSET Nat
    BY SMT
  <2>. HIDE DEF T
  <2>. QED
    BY <1>1, <2>1, LeastElement
<1>3. /\ f[k] = IF k = 0 THEN 0 ELSE f[k - 1] + s[k]
      /\ g[k] = IF k = 0 THEN 0 ELSE g[k - 1] + s[k]
  BY DEF IsRunning
<1>4. k # 0 => k - 1 \in 0..n /\ k - 1 \notin T
  BY <1>2, SMT
<1>. QED
  BY <1>3, <1>4

\* SumSeq is the last of them.
LEMMA SumIsLast ==
    ASSUME NEW s \in Seq(Int), NEW f, IsRunning(f, s, Len(s))
    PROVE  SumSeq(s) = f[Len(s)]
<1>. DEFINE upTo == CHOOSE g : g = [k \in 0..Len(s) |-> IF k = 0 THEN 0 ELSE g[k - 1] + s[k]]
<1>1. f = [k \in 0..Len(s) |-> IF k = 0 THEN 0 ELSE f[k - 1] + s[k]]
  BY DEF IsRunning
<1>2. IsRunning(upTo, s, Len(s))
  BY <1>1 DEF IsRunning
<1>3. upTo = f
  BY <1>2, RunningUnique, SMT
<1>. QED
  BY <1>3 DEF SumSeq

\* A sequence of integers has an integer sum.
LEMMA SumType ==
    ASSUME NEW s \in Seq(Int)
    PROVE  SumSeq(s) \in Int
<1>1. PICK f \in [0..Len(s) -> Int] : IsRunning(f, s, Len(s))
  BY RunningExists, SMT
<1>. QED
  BY <1>1, SumIsLast, SMT

\* An element more adds itself to the sum.
LEMMA SumGrows ==
    ASSUME NEW s \in Seq(Int), NEW t \in Seq(Int), Len(t) = Len(s) + 1,
           \A k \in 1..Len(s) : t[k] = s[k]
    PROVE  SumSeq(t) = SumSeq(s) + t[Len(t)]
<1>. DEFINE n == Len(s)
<1>1. PICK f \in [0..n -> Int] : IsRunning(f, s, n)
  BY RunningExists, SMT
<1>. DEFINE g == [k \in 0..(n + 1) |-> IF k = n + 1 THEN f[n] + t[n + 1] ELSE f[k]]
<1>2. ASSUME NEW k \in 0..(n + 1)
      PROVE  g[k] = IF k = 0 THEN 0 ELSE g[k - 1] + t[k]
  <2>1. CASE k = n + 1
    BY <2>1, SMT
  <2>2. CASE k # n + 1
    <3>1. k \in 0..n /\ g[k] = f[k] /\ (k # 0 => k \in 1..n /\ k - 1 \in 0..n)
      BY <2>2, SMT
    <3>2. f[k] = IF k = 0 THEN 0 ELSE f[k - 1] + s[k]
      BY <3>1, <1>1 DEF IsRunning
    <3>3. k # 0 => g[k - 1] = f[k - 1]
      BY <3>1, SMT
    <3>. QED
      BY <3>1, <3>2, <3>3
  <2>. QED
    BY <2>1, <2>2
<1>3. IsRunning(g, t, Len(t))
  BY <1>2 DEF IsRunning
<1>4. SumSeq(t) = g[n + 1] /\ SumSeq(s) = f[n]
  BY <1>1, <1>3, SumIsLast
<1>. QED
  BY <1>4, SMT

\* A change of one element changes the sum by as much.
LEMMA SumChanges ==
    ASSUME NEW s \in Seq(Int), NEW t \in Seq(Int), Len(t) = Len(s),
           NEW i \in 1..Len(s), \A k \in 1..Len(s) : k # i => t[k] = s[k]
    PROVE  SumSeq(t) = SumSeq(s) + (t[i] - s[i])
<1>. DEFINE n == Len(s)
            d == t[i] - s[i]
<1>1. PICK f \in [0..n -> Int] : IsRunning(f, s, n)
  <2>1. n \in 0..Len(s)
    BY SMT
  <2>. QED
    BY <2>1, RunningExists
<1>. DEFINE g == [k \in 0..n |-> IF k < i THEN f[k] ELSE f[k] + d]
<1>2. s[i] \in Int /\ t[i] \in Int /\ t[i] = s[i] + d /\ d \in Int
  BY SMT
<1>3. ASSUME NEW k \in 0..n
      PROVE  g[k] = IF k = 0 THEN 0 ELSE g[k - 1] + t[k]
  <2>. HIDE DEF d
  <2>1. f[k] = IF k = 0 THEN 0 ELSE f[k - 1] + s[k]
    BY <1>1 DEF IsRunning
  <2>2. CASE k = 0
    BY <2>1, <2>2, SMT
  <2>3. CASE k # 0
    <3>1. k \in 1..n /\ k - 1 \in 0..n /\ k \in Int /\ i \in Int /\ n \in Int
      BY <2>3, SMT
    <3>2. s[k] \in Int
      BY <3>1, SMT
    <3>3. f[k] \in Int /\ f[k - 1] \in Int
      BY <3>1
    <3>4. /\ g[k - 1] = IF k - 1 < i THEN f[k - 1] ELSE f[k - 1] + d
          /\ g[k] = IF k < i THEN f[k] ELSE f[k] + d
      BY <3>1
    <3>. HIDE DEF g
    <3>5. CASE k = i
      BY <2>1, <2>3, <3>1, <3>2, <3>3, <3>4, <3>5, <1>2, SMTT(20)
    <3>6. CASE k # i
      <4>1. t[k] = s[k]
        BY <3>1, <3>6
      <4>2. CASE k < i
        BY <2>1, <2>3, <3>1, <3>2, <3>3, <3>4, <4>1, <4>2, SMT
      <4>3. CASE k > i
        <5>1. g[k - 1] = f[k - 1] + d /\ g[k] = f[k] + d
          BY <3>1, <3>4, <4>3, SMT
        <5>2. f[k] = f[k - 1] + s[k]
          BY <2>1, <2>3
        <5>3. d \in Int
          BY <1>2
        <5>4. g[k] = g[k - 1] + s[k]
          <6>1. \A x, y, z \in Int : (y + z) + x = (y + x) + z
            BY SMT
          <6>2. (f[k - 1] + s[k]) + d = (f[k - 1] + d) + s[k]
            BY <3>2, <3>3, <5>3, <6>1
          <6>. QED
            BY <5>1, <5>2, <6>2
        <5>. QED
          BY <2>3, <4>1, <5>4
      <4>. QED
        BY <3>1, <3>6, <4>2, <4>3, SMT
    <3>. QED
      BY <3>5, <3>6
  <2>. QED
    BY <2>2, <2>3
<1>4. IsRunning(g, t, Len(t))
  BY <1>3 DEF IsRunning
<1>5. SumSeq(t) = g[n] /\ SumSeq(s) = f[n]
  BY <1>1, <1>4, SumIsLast
<1>. QED
  BY <1>2, <1>5, SMT

----------------------------------------------------------------------------
(* Balances *)

\* The amounts BalancesMatchLedger adds up, position by position in the ledger t.
IsOfKind(e, kind) ==
    CASE kind = "captures" -> IsCapture(e)
      [] kind = "refunds" -> IsRefund(e)
      [] OTHER -> IsActiveHold(e)
Kinds == {"captures", "refunds", "holds"}
Counted(e, a, kind) == IF e.account = a /\ IsOfKind(e, kind) THEN e.amount ELSE 0
Amounts(t, a, kind) == [i \in DOMAIN t |-> Counted(t[i], a, kind)]
Sum(t, a, kind) == SumSeq(Amounts(t, a, kind))

Matches(t, b) ==
    \A a \in Accounts :
        /\ b[a].balance = OpeningBalance[a] - Sum(t, a, "captures") + Sum(t, a, "refunds")
        /\ b[a].available = b[a].balance - Sum(t, a, "holds")

\* This is BalancesMatchLedger.
LEMMA MatchesLedger ==
    /\ BalancesMatchLedger <=> Matches(transactions, balances)
    /\ BalancesMatchLedger' <=> Matches(transactions', balances')
BY DEF BalancesMatchLedger, Matches, Total, Sum, Amounts, Counted, IsOfKind,
       IsCapture, IsRefund, IsActiveHold

\* The amounts of a ledger have a sum.
LEMMA AmountsType ==
    ASSUME NEW t \in Seq(Entry), NEW a, NEW kind
    PROVE  /\ Amounts(t, a, kind) \in Seq(Int) /\ Sum(t, a, kind) \in Int
           /\ Len(Amounts(t, a, kind)) = Len(t)
           /\ \A i \in DOMAIN t : Amounts(t, a, kind)[i] = Counted(t[i], a, kind)
<1>1. DOMAIN t = 1..Len(t) /\ Len(t) \in Nat /\ \A i \in DOMAIN t : t[i] \in Entry
  BY SMT
<1>2. \A i \in DOMAIN t : Counted(t[i], a, kind) \in Int
  <2>1. \A i \in DOMAIN t : t[i].amount \in Int
    BY <1>1 DEF Entry
  <2>. QED
    BY <2>1, SMT DEF Counted
<1>3. Amounts(t, a, kind) \in Seq(Int) /\ Len(Amounts(t, a, kind)) = Len(t)
  BY <1>1, <1>2, SMT DEF Amounts
<1>. QED
  BY <1>3, SumType DEF Sum, Amounts

\* What a new entry adds to a sum: its own amount, less the hold it settles.
Change(e, a, kind) ==
    IF e.account # a THEN 0
    ELSE CASE kind = "captures" -> IF e.type = "CAPTURE" THEN e.amount ELSE 0
           [] kind = "refunds" -> IF e.type = "REFUND" THEN e.amount ELSE 0
           [] OTHER -> IF e.type = "AUTH_HOLD" THEN e.amount
                       ELSE IF e.type \in Settlement THEN 0 - e.amount ELSE 0

\* Adding an entry changes the sums of its own account, by its own amount.
LEMMA SumOfExtended ==
    ASSUME NEW t \in Seq(Entry), NEW u \in Seq(Entry), NEW e \in Entry,
           EntryFits(t, e), Extended(t, u, e), NEW a \in Accounts, NEW kind \in Kinds
    PROVE  Sum(u, a, kind) = Sum(t, a, kind) + Change(e, a, kind)
<1>. DEFINE n == Len(t) + 1
            old == Amounts(t, a, kind)
            new == Amounts(u, a, kind)
            settles == e.type \in Settlement /\ kind = "holds"
            mid == [i \in DOMAIN t |-> IF settles /\ i = e.reference THEN 0 ELSE old[i]]
<1>1. /\ Len(t) \in Nat /\ DOMAIN t = 1..Len(t) /\ DOMAIN u = 1..n /\ Len(u) = n
      /\ u[n] = e /\ n \in DOMAIN u /\ DOMAIN t \subseteq DOMAIN u
  BY SMT DEF Extended
<1>2. /\ old \in Seq(Int) /\ Len(old) = Len(t)
      /\ \A i \in DOMAIN t : old[i] = Counted(t[i], a, kind)
      /\ new \in Seq(Int) /\ Len(new) = n
      /\ \A i \in DOMAIN u : new[i] = Counted(u[i], a, kind)
  BY <1>1, AmountsType
<1>3. /\ e.amount \in Nat /\ e.type \in TransactionTypes
      /\ e.status = IF e.type = "AUTH_HOLD" THEN "ACTIVE" ELSE "COMPLETED"
      /\ e.type \in Settlement =>
            /\ e.reference \in DOMAIN t
            /\ t[e.reference].account = e.account /\ t[e.reference].amount = e.amount
            /\ t[e.reference].type = "AUTH_HOLD" /\ t[e.reference].status = "ACTIVE"
  BY DEF EntryFits, Settlement
<1>4. \A i \in DOMAIN t : new[i] = mid[i]
  <2>. SUFFICES ASSUME NEW i \in DOMAIN t PROVE new[i] = mid[i]
    OBVIOUS
  <2>1. /\ u[i].type = t[i].type /\ u[i].account = t[i].account /\ u[i].amount = t[i].amount
        /\ u[i].status = IF e.type \in Settlement /\ i = e.reference
                         THEN "COMPLETED" ELSE t[i].status
    BY <1>1 DEF Extended
  <2>2. new[i] = Counted(u[i], a, kind) /\ old[i] = Counted(t[i], a, kind)
    BY <1>1, <1>2
  <2>3. mid[i] = IF settles /\ i = e.reference THEN 0 ELSE old[i]
    OBVIOUS
  <2>. HIDE DEF new, old, mid
  <2>4. CASE settles /\ i = e.reference
    <3>1. Counted(u[i], a, kind) = 0
      BY <2>1, <2>4 DEF Counted, IsOfKind, IsActiveHold
    <3>. QED
      BY <2>2, <2>3, <2>4, <3>1
  <2>5. CASE ~ (settles /\ i = e.reference)
    <3>1. Counted(u[i], a, kind) = Counted(t[i], a, kind)
      BY <2>1, <2>5 DEF Counted, IsOfKind, IsActiveHold, IsCapture, IsRefund, Kinds
    <3>. QED
      BY <2>2, <2>3, <2>5, <3>1
  <2>. QED
    BY <2>4, <2>5
<1>5. mid \in Seq(Int) /\ Len(mid) = Len(t)
  BY <1>1, <1>2, SMT
<1>6. SumSeq(new) = SumSeq(mid) + Counted(e, a, kind)
  <2>1. Len(new) = Len(mid) + 1 /\ \A k \in 1..Len(mid) : new[k] = mid[k]
    BY <1>1, <1>2, <1>4, <1>5
  <2>2. new[Len(new)] = Counted(e, a, kind)
    BY <1>1, <1>2
  <2>. HIDE DEF new, mid
  <2>. QED
    BY <1>2, <1>5, <2>1, <2>2, SumGrows
<1>7. SumSeq(mid) = SumSeq(old) + (IF settles /\ e.account = a THEN 0 - e.amount ELSE 0)
  <2>1. SumSeq(old) \in Int
    BY <1>2, SumType
  <2>2. CASE settles
    <3>1. /\ e.reference \in 1..Len(old) /\ mid[e.reference] = 0
          /\ \A k \in 1..Len(old) : k # e.reference => mid[k] = old[k]
      BY <1>1, <1>2, <1>3, <2>2
    <3>2. SumSeq(mid) = SumSeq(old) + (mid[e.reference] - old[e.reference])
      <4>. HIDE DEF old, mid
      <4>. QED
        BY <1>2, <1>5, <3>1, SumChanges, SMTT(20)
    <3>3. old[e.reference] = IF e.account = a THEN e.amount ELSE 0
      <4>1. old[e.reference] = Counted(t[e.reference], a, kind)
        BY <1>2, <1>3, <2>2
      <4>. HIDE DEF old
      <4>. QED
        BY <1>3, <2>2, <4>1 DEF Counted, IsOfKind, IsActiveHold
    <3>. HIDE DEF old, mid
    <3>. QED
      BY <1>3, <2>1, <2>2, <3>1, <3>2, <3>3, SMT
  <2>3. CASE ~ settles
    <3>1. mid = old
      BY <1>1, <1>2, <2>3, SMT
    <3>. HIDE DEF old, mid
    <3>. QED
      BY <2>1, <2>3, <3>1, SMT
  <2>. QED
    BY <2>2, <2>3
<1>8. Counted(e, a, kind) + (IF settles /\ e.account = a THEN 0 - e.amount ELSE 0) = Change(e, a, kind)
      /\ Counted(e, a, kind) \in Int
  BY <1>3, SMT DEF Counted, Change, IsOfKind, IsCapture, IsRefund, IsActiveHold, Kinds, Settlement,
              TransactionTypes
<1>9. SumSeq(old) \in Int
  BY <1>2, SumType
<1>10. Sum(u, a, kind) = SumSeq(new) /\ Sum(t, a, kind) = SumSeq(old)
  BY DEF Sum
<1>. HIDE DEF old, mid, new
<1>. QED
  BY <1>3, <1>6, <1>7, <1>8, <1>9, <1>10, SMT

\* A commit changes the balances as the ledger.
LEMMA BalancesCommit ==
    ASSUME BankInv, BalancesMatchLedger, NEW c \in Calls, pc[c] = "commit", Committed(entry[c])
    PROVE  BalancesMatchLedger'
<1>. DEFINE e == entry[c]
<1>1. /\ EntryFits(transactions, e) /\ e \in Entry
      /\ Extended(transactions, transactions', e)
      /\ transactions \in Seq(Entry) /\ transactions' \in Seq(Entry)
  BY CommittingEntry, CommittedLedger DEF BankInv, BankTypeOK
<1>2. e.account \in Accounts /\ e.amount \in Nat /\ e.type \in TransactionTypes
  BY <1>1 DEF EntryFits
<1>3. SUFFICES ASSUME NEW a \in Accounts
      PROVE  /\ balances'[a].balance = OpeningBalance[a]
                   - Sum(transactions', a, "captures") + Sum(transactions', a, "refunds")
             /\ balances'[a].available = balances'[a].balance - Sum(transactions', a, "holds")
  BY MatchesLedger DEF Matches
<1>4. /\ balances[a].balance = OpeningBalance[a]
            - Sum(transactions, a, "captures") + Sum(transactions, a, "refunds")
      /\ balances[a].available = balances[a].balance - Sum(transactions, a, "holds")
  BY MatchesLedger DEF Matches
<1>5. \A kind \in Kinds :
         /\ Sum(transactions', a, kind) = Sum(transactions, a, kind) + Change(e, a, kind)
         /\ Sum(transactions, a, kind) \in Int
  BY <1>1, SumOfExtended, AmountsType
<1>6. /\ Sum(transactions', a, "captures") = Sum(transactions, a, "captures") + Change(e, a, "captures")
      /\ Sum(transactions', a, "refunds") = Sum(transactions, a, "refunds") + Change(e, a, "refunds")
      /\ Sum(transactions', a, "holds") = Sum(transactions, a, "holds") + Change(e, a, "holds")
      /\ Sum(transactions, a, "captures") \in Int /\ Sum(transactions, a, "refunds") \in Int
      /\ Sum(transactions, a, "holds") \in Int
  BY <1>5 DEF Kinds
<1>7. balances[a].balance \in Int /\ balances[a].available \in Int /\ OpeningBalance[a] \in Int
  BY OpeningAssumption, SMT DEF BankInv, BankTypeOK
<1>8. /\ balances'[a].balance =
            balances[a].balance + (IF e.account = a THEN BalanceDelta(e).balance ELSE 0)
      /\ balances'[a].available =
            balances[a].available + (IF e.account = a THEN BalanceDelta(e).available ELSE 0)
  BY <1>2, <1>7, SMT DEF Committed, BankInv, BankTypeOK
<1>9. /\ Change(e, a, "captures") \in Int /\ Change(e, a, "refunds") \in Int
      /\ Change(e, a, "holds") \in Int
      /\ (IF e.account = a THEN BalanceDelta(e).balance ELSE 0) =
            Change(e, a, "refunds") - Change(e, a, "captures")
      /\ (IF e.account = a THEN BalanceDelta(e).available ELSE 0) =
            Change(e, a, "refunds") - Change(e, a, "captures") - Change(e, a, "holds")
  BY <1>2, SMT DEF BalanceDelta, Change, Settlement, TransactionTypes
<1>. QED
  BY <1>4, <1>6, <1>7, <1>8, <1>9, SMT

\* The expiry of a hold moves no money.
LEMMA BalancesExpire ==
    ASSUME BankInv, BalancesMatchLedger, NEW id \in 1..MaxTransactions, ExpireHold(id)
    PROVE  BalancesMatchLedger'
<1>1. transactions \in Seq(Entry) /\ id \in DOMAIN transactions /\ balances' = balances
  BY DEF BankInv, BankTypeOK, ExpireHold
<1>2. \A i \in DOMAIN transactions : transactions[i] \in Entry
  BY <1>1, SMT
<1>3. transactions' = [transactions EXCEPT ![id] = [transactions[id] EXCEPT !.expired = TRUE]]
  BY DEF ExpireHold
<1>4. /\ DOMAIN transactions' = DOMAIN transactions
      /\ \A i \in DOMAIN transactions :
            /\ transactions'[i].type = transactions[i].type
            /\ transactions'[i].account = transactions[i].account
            /\ transactions'[i].amount = transactions[i].amount
            /\ transactions'[i].status = transactions[i].status
  BY <1>1, <1>2, <1>3 DEF Entry
<1>5. \A a, kind : Amounts(transactions', a, kind) = Amounts(transactions, a, kind)
  BY <1>4 DEF Amounts, Counted, IsOfKind, IsCapture, IsRefund, IsActiveHold
<1>6. Matches(transactions, balances) => Matches(transactions', balances')
  BY <1>1, <1>5 DEF Matches, Sum
<1>. QED
  BY <1>6, MatchesLedger

\* Only a commit and the expiry of a hold change the ledger or a balance.
LEMMA LedgerSteps ==
    ASSUME [BankNext]_bankVars
    PROVE  \/ UNCHANGED <<balances, transactions, origin>>
           \/ \E c \in Calls : Commit(c)
           \/ \E id \in 1..MaxTransactions : ExpireHold(id)
BY DEF BankNext, ServeCall, WorkOn, Receive, Replay, Miss, FailureInjection, Validate, Accept,
       Reject, Create, Duplicate, AdjustBalances, Store, StatementError, BankRespond, Abort,
       DayPasses, CleanupIdempotencyKeys, bankVars, history

\* With an empty ledger every account has what it was opened with.
LEMMA BalancesInit == BankInit => BalancesMatchLedger
<1>. SUFFICES ASSUME BankInit PROVE BalancesMatchLedger
  OBVIOUS
<1>1. transactions = <<>> /\ transactions \in Seq(Entry) /\ Len(transactions) = 0
  BY SMT DEF BankInit
<1>2. ASSUME NEW a, NEW kind PROVE Sum(transactions, a, kind) = 0
  <2>1. Amounts(transactions, a, kind) \in Seq(Int) /\ Len(Amounts(transactions, a, kind)) = 0
    BY <1>1, AmountsType
  <2>2. IsRunning([k \in 0..0 |-> 0], Amounts(transactions, a, kind), 0)
    BY SMT DEF IsRunning
  <2>. QED
    BY <2>1, <2>2, SumIsLast, SMT DEF Sum
<1>3. \A a \in Accounts : /\ balances[a].balance = OpeningBalance[a]
                          /\ balances[a].available = OpeningBalance[a]
                          /\ OpeningBalance[a] \in Int
  BY OpeningAssumption, SMT DEF BankInit
<1>4. Matches(transactions, balances)
  BY <1>2, <1>3, SMT DEF Matches
<1>. QED
  BY <1>4, MatchesLedger

\* However transactions interleave, fail and are cut off, the balances are the
\* ones the ledger tells: the balance is what captures took and refunds gave
\* back, and what is not available is what the active holds reserve.
THEOREM BankBalancesMatchLedger == BankSpec => []BalancesMatchLedger
<1>1. BankInv /\ BalancesMatchLedger /\ [BankNext]_bankVars => BalancesMatchLedger'
  <2>. SUFFICES ASSUME BankInv, BalancesMatchLedger, [BankNext]_bankVars
                PROVE  BalancesMatchLedger'
    OBVIOUS
  <2>1. CASE UNCHANGED <<balances, transactions, origin>>
    <3>1. Matches(transactions, balances) => Matches(transactions', balances')
      BY <2>1
    <3>. QED
      BY <3>1, MatchesLedger
  <2>2. CASE \E c \in Calls : Commit(c)
    BY <2>2, BalancesCommit DEF Commit
  <2>3. CASE \E id \in 1..MaxTransactions : ExpireHold(id)
    BY <2>3, BalancesExpire
  <2>. QED
    BY <2>1, <2>2, <2>3, LedgerSteps
<1>. QED
  BY <1>1, BalancesInit, BankInvariant, PTL DEF BankSpec

----------------------------------------------------------------------------
(* The refinement of BankLedger *)

\* The values MockBank gives the variables of BankLedger.
AsLedger(t, o) ==
    [i \in DOMAIN t |-> [type |-> t[i].type, reference |-> t[i].reference,
                         status |-> t[i].status, slot |-> o[i]]]
AsCached(keys) == {keys[s].response.id : s \in BankSlots} \ {0}

\* The empty tables are an empty ledger.
LEMMA LedgerInit == BankInit => Ledger!Init
<1>. SUFFICES ASSUME BankInit PROVE Ledger!Init
  OBVIOUS
<1>1. AsLedger(transactions, origin) = <<>>
  <2>1. transactions = <<>> /\ DOMAIN transactions = {}
    BY SMT DEF BankInit
  <2>. QED
    BY <2>1, SMT DEF AsLedger
<1>2. AsCached(idempotencyKeys) = {}
  BY BankTypes DEF BankInit, AsCached, NoResponse
<1>. QED
  BY <1>1, <1>2 DEF Ledger!Init, AsLedger, AsCached, BankInit

\* A step that changes neither the ledger, but for expiries, nor what is cached.
LEMMA LedgerStutter ==
    ASSUME AsLedger(transactions, origin)' = AsLedger(transactions, origin),
           AsCached(idempotencyKeys)' = AsCached(idempotencyKeys), refused' = refused
    PROVE  UNCHANGED Ledger!ledgerVars
BY DEF Ledger!ledgerVars, AsLedger, AsCached

\* A commit performs the operation of its request in one step.
LEMMA LedgerCommit ==
    ASSUME BankInv, NEW c \in Calls, Commit(c)
    PROVE  Ledger!Next
<1>1. PICK slot, ref : slot = BankSlot(request[c]) /\ ref = entry[c].reference
  OBVIOUS
<1>. DEFINE e == entry[c]
            L == AsLedger(transactions, origin)
            n == Len(transactions) + 1
            row == [type |-> e.type, reference |-> ref, status |-> e.status, slot |-> slot]
            settled == [L EXCEPT ![ref].status = "COMPLETED"]
            base == IF e.type \in Settlement THEN settled ELSE L
<1>2. /\ pc[c] = "commit" /\ Committed(e) /\ origin' = Append(origin, slot)
      /\ idempotencyKeys' = idempotencyKeys /\ refused' = refused
  BY <1>1 DEF Commit
<1>3. /\ EntryFits(transactions, e) /\ request[c] \in BankRequests
      /\ e.type = TransactionType(request[c].path) /\ e.reference = request[c].reference
  BY <1>2, CommittingEntry
<1>4. Extended(transactions, transactions', e)
  BY <1>2, CommittedLedger
<1>5. /\ DOMAIN transactions = 1..Len(transactions) /\ Len(transactions) \in Nat
      /\ Len(origin) = Len(transactions) /\ origin \in Seq(BankSlots)
  <2>1. origin \in Seq(BankSlots) /\ Len(origin) = Len(transactions)
    BY DEF BankInv, OriginInv, BankTypeOK
  <2>2. DOMAIN transactions = 1..Len(transactions) /\ Len(transactions) \in Nat
    BY LedgerFits, SMT
  <2>. QED
    BY <2>1, <2>2
<1>6. e.type = "CAPTURE" => ref \notin refused
  BY <1>1, <1>2 DEF BankInv, OpenInv, Open
<1>7. /\ slot \in BankSlots /\ slot[2] = request[c].path /\ request[c].path \in Paths
  <2>1. slot \in BankSlots /\ request[c].path \in Paths
    BY <1>1, <1>3, RequestFacts DEF BankRequestShape
  <2>2. slot = <<request[c].key, request[c].path>>
    BY <1>1 DEF BankSlot
  <2>. QED
    BY <2>1, <2>2
<1>8. AsLedger(transactions, origin)' = Append(base, row)
  <2>1. DOMAIN L = 1..Len(transactions) /\ \A i \in 1..Len(transactions) :
           L[i] = [type |-> transactions[i].type, reference |-> transactions[i].reference,
                   status |-> transactions[i].status, slot |-> origin[i]]
    BY <1>5 DEF AsLedger
  <2>2. /\ DOMAIN transactions' = 1..n /\ transactions'[n] = e
        /\ \A i \in 1..Len(transactions) :
              /\ transactions'[i].type = transactions[i].type
              /\ transactions'[i].reference = transactions[i].reference
              /\ transactions'[i].status = IF e.type \in Settlement /\ i = ref
                                           THEN "COMPLETED" ELSE transactions[i].status
    BY <1>1, <1>4 DEF Extended
  <2>3. origin'[n] = slot /\ \A i \in 1..Len(transactions) : origin'[i] = origin[i]
    BY <1>2, <1>5, SMT
  <2>4. base = [i \in 1..Len(transactions) |-> base[i]]
    <3>1. L = [i \in 1..Len(transactions) |-> L[i]]
      BY <1>5 DEF AsLedger
    <3>. HIDE DEF L
    <3>. QED
      BY <2>1, <3>1
  <2>5. /\ base \in Seq({base[i] : i \in 1..Len(transactions)})
        /\ Len(base) = Len(transactions)
    <3>. HIDE DEF base
    <3>. DEFINE S == {base[i] : i \in 1..Len(transactions)}
    <3>1. base \in [1..Len(transactions) -> S]
      BY <2>4
    <3>. HIDE DEF S
    <3>2. base \in Seq(S) /\ Len(base) = Len(transactions)
      BY <1>5, <3>1, SMT
    <3>. QED
      BY <3>2 DEF S
  <2>6. \A i \in 1..Len(transactions) :
           base[i] = [type |-> transactions'[i].type, reference |-> transactions'[i].reference,
                      status |-> transactions'[i].status, slot |-> origin'[i]]
    <3>1. ASSUME NEW i \in 1..Len(transactions)
          PROVE  base[i] = [type |-> transactions'[i].type,
                            reference |-> transactions'[i].reference,
                            status |-> transactions'[i].status, slot |-> origin'[i]]
      <4>1. CASE e.type \in Settlement /\ i = ref
        <5>1. base[i] = [L[i] EXCEPT !.status = "COMPLETED"]
          BY <2>1, <4>1
        <5>. QED
          BY <2>1, <2>2, <2>3, <4>1, <5>1, SMT
      <4>2. CASE ~ (e.type \in Settlement /\ i = ref)
        <5>1. base[i] = L[i]
          BY <2>1, <4>2
        <5>. QED
          BY <2>1, <2>2, <2>3, <4>2, <5>1
      <4>. QED
        BY <4>1, <4>2
    <3>. QED
      BY <3>1
  <2>. HIDE DEF base
  <2>7. Append(base, row) = [i \in 1..n |-> IF i = n THEN row ELSE base[i]]
    BY <1>5, <2>5, SMT
  <2>8. \A i \in 1..n : (IF i = n THEN row ELSE base[i]) =
           [type |-> transactions'[i].type, reference |-> transactions'[i].reference,
            status |-> transactions'[i].status, slot |-> origin'[i]]
    BY <1>1, <1>5, <2>2, <2>3, <2>6, SMT
  <2>. QED
    BY <2>2, <2>7, <2>8 DEF AsLedger
<1>9. UNCHANGED <<AsCached(idempotencyKeys), refused>>
  BY <1>2 DEF AsCached
<1>10. DOMAIN L = DOMAIN transactions
      /\ \A i \in DOMAIN transactions : /\ L[i].type = transactions[i].type
                                        /\ L[i].status = transactions[i].status
                                        /\ L[i].reference = transactions[i].reference
  BY DEF AsLedger
<1>11. \E reference \in {0} \cup DOMAIN L : Ledger!Perform(slot, reference)
  <2>. HIDE DEF row
  <2>1. CASE request[c].path = "authorizations"
    <3>1. e.type = "AUTH_HOLD" /\ ref = 0 /\ e.status = "ACTIVE" /\ base = L
      BY <1>1, <1>3, <2>1 DEF TransactionType, EntryFits, Settlement
    <3>2. Ledger!Hold(slot)
      BY <1>7, <1>8, <2>1, <3>1 DEF Ledger!Hold, Ledger!Add, AsLedger, row
    <3>3. Ledger!Perform(slot, 0)
      BY <3>2 DEF Ledger!Perform
    <3>. QED
      BY <3>3
  <2>2. CASE request[c].path \in {"captures", "voids"}
    <3>1. /\ e.type = IF request[c].path = "captures" THEN "CAPTURE" ELSE "VOID"
          /\ ref \in DOMAIN transactions /\ e.status = "COMPLETED" /\ base = settled
          /\ transactions[ref].type = "AUTH_HOLD"
          /\ transactions[ref].status = "ACTIVE"
      BY <1>1, <1>3, <2>2 DEF TransactionType, EntryFits, Settlement
    <3>2. Ledger!IsActiveHold(ref)
      BY <1>10, <3>1 DEF Ledger!IsActiveHold, AsLedger
    <3>3. Ledger!Settle(slot, ref)
      BY <1>6, <1>7, <1>8, <2>2, <3>1, <3>2 DEF Ledger!Settle, Ledger!Add, AsLedger, row
    <3>4. Ledger!Perform(slot, ref)
      BY <3>3 DEF Ledger!Perform
    <3>. QED
      BY <1>10, <3>1, <3>4
  <2>3. CASE request[c].path = "refunds"
    <3>1. /\ e.type = "REFUND" /\ ref \in DOMAIN transactions
          /\ e.status = "COMPLETED" /\ base = L
          /\ transactions[ref].type = "CAPTURE"
          /\ \A i \in DOMAIN transactions :
                ~ (transactions[i].reference = ref /\ transactions[i].type = "REFUND")
      BY <1>1, <1>3, <2>3 DEF TransactionType, EntryFits, Settlement
    <3>2. Ledger!Refund(slot, ref)
      BY <1>7, <1>8, <1>10, <2>3, <3>1 DEF Ledger!Refund, Ledger!Add, AsLedger, row
    <3>3. Ledger!Perform(slot, ref)
      BY <3>2 DEF Ledger!Perform
    <3>. QED
      BY <1>10, <3>1, <3>3
  <2>. QED
    BY <1>7, <2>1, <2>2, <2>3 DEF Paths
<1>12. \E s \in BankSlots : \E i \in {0} \cup DOMAIN AsLedger(transactions, origin) :
          Ledger!Perform(s, i) /\ UNCHANGED <<AsCached(idempotencyKeys), refused>>
  BY <1>7, <1>9, <1>11
<1>. QED
  BY ONLY <1>12 DEF Ledger!Next, AsLedger, AsCached

\* A capture refused as expired: the hold is still active, and marked as refused.
LEMMA LedgerReject ==
    ASSUME BankInv, NEW c \in Calls, Reject(c)
    PROVE  Ledger!Next \/ UNCHANGED Ledger!ledgerVars
<1>1. PICK ref : ref = request[c].reference
  OBVIOUS
<1>2. transactions' = transactions /\ origin' = origin /\ idempotencyKeys' = idempotencyKeys
  BY DEF Reject
<1>3. /\ AsLedger(transactions, origin)' = AsLedger(transactions, origin)
      /\ AsCached(idempotencyKeys)' = AsCached(idempotencyKeys)
  BY <1>2 DEF AsLedger, AsCached
<1>4. CASE refused' = refused
  BY <1>3, <1>4, LedgerStutter
<1>5. CASE refused' # refused
  <2>1. ServiceError(request[c]) = "authorization_expired" /\ refused' = refused \cup {ref}
    BY <1>1, <1>5 DEF Reject
  <2>2. /\ ref \in DOMAIN transactions
        /\ transactions[ref].type = "AUTH_HOLD" /\ transactions[ref].status = "ACTIVE"
    BY <1>1, <2>1 DEF ServiceError, AuthorizeError, CaptureError, VoidError, RefundError, Exists
  <2>3. Ledger!RefuseExpired(ref)
    BY <2>1, <2>2 DEF Ledger!RefuseExpired, Ledger!IsActiveHold
  <2>4. ref \in DOMAIN AsLedger(transactions, origin)
    BY <2>2 DEF AsLedger
  <2>5. \E id \in DOMAIN AsLedger(transactions, origin) :
           /\ Ledger!RefuseExpired(id)
           /\ UNCHANGED <<AsLedger(transactions, origin), AsCached(idempotencyKeys)>>
    BY <1>3, <2>3, <2>4
  <2>6. Ledger!Next
    BY ONLY <2>5 DEF Ledger!Next, AsLedger, AsCached
  <2>. QED
    BY <2>6
<1>. QED
  BY <1>4, <1>5

\* A response that is stored is remembered: no other entry made under the key
\* and path is cached, since the slot was empty.
LEMMA LedgerStore ==
    ASSUME BankInv, NEW c \in Calls, Store(c)
    PROVE  Ledger!Next \/ UNCHANGED Ledger!ledgerVars
<1>1. PICK id, slot : id = response[c].id /\ slot = BankSlot(request[c])
  OBVIOUS
<1>2. transactions' = transactions /\ origin' = origin /\ refused' = refused
  BY DEF Store, history
<1>3. AsLedger(transactions, origin)' = AsLedger(transactions, origin)
  BY <1>2 DEF AsLedger
<1>4. slot \in BankSlots
  BY <1>1, RequestFacts DEF Store, BankInv, RequestInv
<1>5. id \in DOMAIN transactions /\ origin[id] = slot /\ id # 0
  <2>1. IsEntryOf(id, slot)
    BY <1>1 DEF Store, BankInv, AnswerInv
  <2>. QED
    BY <2>1, LedgerFits, SMT DEF IsEntryOf
<1>6. idempotencyKeys \in [BankSlots -> [response : Response, old : BOOLEAN]]
  BY DEF BankInv, BankTypeOK
<1>7. CASE UNCHANGED idempotencyKeys
  <2>1. AsCached(idempotencyKeys)' = AsCached(idempotencyKeys)
    BY <1>7 DEF AsCached
  <2>. QED
    BY <1>2, <1>3, <2>1, LedgerStutter
<1>8. CASE StoreKey(c) /\ idempotencyKeys[slot].response # NoResponse
  <2>1. idempotencyKeys' = idempotencyKeys
    BY <1>1, <1>4, <1>6, <1>8 DEF StoreKey
  <2>. QED
    BY <1>7, <2>1
<1>9. CASE StoreKey(c) /\ idempotencyKeys[slot].response = NoResponse
  <2>1. /\ idempotencyKeys'[slot].response.id = id
        /\ \A s \in BankSlots \ {slot} : idempotencyKeys'[s] = idempotencyKeys[s]
    BY <1>1, <1>4, <1>6, <1>9 DEF StoreKey
  <2>2. idempotencyKeys[slot].response.id = 0
    BY <1>9, BankTypes DEF NoResponse
  <2>3. AsCached(idempotencyKeys)' = AsCached(idempotencyKeys) \cup {id}
    BY <1>4, <1>5, <2>1, <2>2, SMT DEF AsCached
  <2>4. ASSUME NEW i \in AsCached(idempotencyKeys)
        PROVE  i \in DOMAIN transactions /\ origin[i] # slot
    <3>1. PICK s \in BankSlots : i = idempotencyKeys[s].response.id /\ i # 0
      BY DEF AsCached
    <3>2. s # slot /\ idempotencyKeys[s].response # NoResponse
      BY <2>2, <3>1, BankTypes DEF NoResponse
    <3>3. IsEntryOf(i, s)
      BY <3>1, <3>2 DEF BankInv, HistoryInv
    <3>. QED
      BY <3>2, <3>3 DEF IsEntryOf
  <2>5. Ledger!Remember(id)
    <3>1. /\ id \in DOMAIN AsLedger(transactions, origin)
          /\ AsLedger(transactions, origin)[id].slot = slot
          /\ \A i \in AsCached(idempotencyKeys) : AsLedger(transactions, origin)[i].slot # slot
      BY <1>5, <2>4 DEF AsLedger
    <3>2. /\ id \in DOMAIN AsLedger(transactions, origin)
          /\ \A i \in AsCached(idempotencyKeys) :
                AsLedger(transactions, origin)[i].slot # AsLedger(transactions, origin)[id].slot
          /\ AsCached(idempotencyKeys)' = AsCached(idempotencyKeys) \cup {id}
      BY <2>3, <3>1
    <3>. QED
      BY ONLY <3>2 DEF Ledger!Remember, AsLedger, AsCached
  <2>6. \E i \in DOMAIN AsLedger(transactions, origin) :
           Ledger!Remember(i) /\ UNCHANGED <<AsLedger(transactions, origin), refused>>
    <3>1. id \in DOMAIN AsLedger(transactions, origin)
      BY <1>5 DEF AsLedger
    <3>. QED
      BY <1>2, <1>3, <2>5, <3>1
  <2>7. Ledger!Next
    BY ONLY <2>6 DEF Ledger!Next, AsLedger, AsCached
  <2>. QED
    BY <2>7
<1>. QED
  BY <1>7, <1>8, <1>9 DEF Store

\* A step after which nothing is cached that was not.
LEMMA LedgerForget ==
    ASSUME transactions' = transactions, origin' = origin, refused' = refused,
           \A s \in BankSlots :
              idempotencyKeys'[s].response \in {idempotencyKeys[s].response, NoResponse}
    PROVE  Ledger!Next
<1>1. AsLedger(transactions, origin)' = AsLedger(transactions, origin)
  BY DEF AsLedger
<1>2. AsCached(idempotencyKeys)' \in SUBSET AsCached(idempotencyKeys)
  <2>1. \A s \in BankSlots :
           idempotencyKeys'[s].response.id \in {idempotencyKeys[s].response.id, 0}
    BY BankTypes DEF NoResponse
  <2>. QED
    BY <2>1 DEF AsCached
<1>3. /\ AsCached(idempotencyKeys)' \in SUBSET AsCached(idempotencyKeys)
      /\ UNCHANGED <<AsLedger(transactions, origin), refused>>
  BY <1>1, <1>2
<1>. QED
  BY ONLY <1>3 DEF Ledger!Next, AsLedger, AsCached

\* The other steps of the bank are none of the ledger's.
LEMMA LedgerQuiet ==
    ASSUME [BankNext]_bankVars
    PROVE  \/ UNCHANGED <<transactions, origin, refused, idempotencyKeys>>
           \/ \E c \in Calls : Commit(c) \/ Reject(c) \/ Store(c)
           \/ \E id \in 1..MaxTransactions : ExpireHold(id)
           \/ DayPasses \/ CleanupIdempotencyKeys
BY DEF BankNext, ServeCall, WorkOn, Receive, Replay, Miss, FailureInjection, Validate, Accept,
       Create, Duplicate, AdjustBalances, StatementError, BankRespond, Abort, bankVars, history

\* Every statement of the bank is a step of the ledger or invisible there: the
\* commit adds the entry, the store remembers the response.
LEMMA LedgerStep == BankInv /\ [BankNext]_bankVars => [Ledger!Next]_Ledger!ledgerVars
<1>. SUFFICES ASSUME BankInv, [BankNext]_bankVars
              PROVE  Ledger!Next \/ UNCHANGED Ledger!ledgerVars
  OBVIOUS
<1>1. CASE UNCHANGED <<transactions, origin, refused, idempotencyKeys>>
  BY <1>1, LedgerStutter DEF AsLedger, AsCached
<1>2. ASSUME NEW c \in Calls, Commit(c) \/ Reject(c) \/ Store(c)
      PROVE  Ledger!Next \/ UNCHANGED Ledger!ledgerVars
  BY <1>2, LedgerCommit, LedgerReject, LedgerStore
<1>3. ASSUME NEW id \in 1..MaxTransactions, ExpireHold(id)
      PROVE  UNCHANGED Ledger!ledgerVars
  <2>1. transactions \in Seq(Entry) /\ id \in DOMAIN transactions
    BY <1>3 DEF BankInv, BankTypeOK, ExpireHold
  <2>2. \A i \in DOMAIN transactions : transactions[i] \in Entry
    BY <2>1, SMT
  <2>3. /\ transactions' = [transactions EXCEPT ![id] = [transactions[id] EXCEPT !.expired = TRUE]]
        /\ origin' = origin /\ refused' = refused /\ idempotencyKeys' = idempotencyKeys
    BY <1>3 DEF ExpireHold, history
  <2>4. /\ DOMAIN transactions' = DOMAIN transactions
        /\ \A i \in DOMAIN transactions :
              /\ transactions'[i].type = transactions[i].type
              /\ transactions'[i].reference = transactions[i].reference
              /\ transactions'[i].status = transactions[i].status
    BY <2>1, <2>2, <2>3 DEF Entry
  <2>5. AsLedger(transactions, origin)' = AsLedger(transactions, origin)
    BY <2>3, <2>4 DEF AsLedger
  <2>6. AsCached(idempotencyKeys)' = AsCached(idempotencyKeys)
    BY <2>3 DEF AsCached
  <2>. QED
    BY <2>3, <2>5, <2>6, LedgerStutter
<1>4. CASE DayPasses \/ CleanupIdempotencyKeys
  <2>1. transactions' = transactions /\ origin' = origin /\ refused' = refused
    BY <1>4 DEF DayPasses, CleanupIdempotencyKeys, history
  <2>2. \A s \in BankSlots : idempotencyKeys[s] \in [response : Response, old : BOOLEAN]
    BY DEF BankInv, BankTypeOK
  <2>3. \A s \in BankSlots :
           idempotencyKeys'[s].response \in {idempotencyKeys[s].response, NoResponse}
    BY <1>4, <2>2, SMT DEF DayPasses, CleanupIdempotencyKeys
  <2>. QED
    BY <2>1, <2>3, LedgerForget
<1>. QED
  BY <1>1, <1>2, <1>3, <1>4, LedgerQuiet

\* Row locks, the unique index and the transactions make every operation of the
\* bank look atomic: the detailed bank implements BankLedger, in which a hold is
\* settled in one step and never captured once it was refused as expired.
THEOREM BankImplementsLedger == BankSpec => ImplementsBankLedger
<1>. QED
  BY LedgerInit, LedgerStep, BankInvariant, PTL DEF BankSpec, ImplementsBankLedger, Ledger!Spec
=============================================================================
