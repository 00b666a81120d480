--------------------------- MODULE MockBankProofs ---------------------------
(***************************************************************************)
(* Machine-checked proofs about MockBank, for any accounts, requests,      *)
(* number of concurrent calls, faults and bound on authorizations.         *)
(***************************************************************************)
EXTENDS MockBank, FiniteSetTheorems, TLAPS

\* The prover of a leaf that names no other; arithmetic is for SMT.
USE Zenon

----------------------------------------------------------------------------
(* The inductive invariant *)

\* A call whose database transaction is open and has accepted the request.
Open == {"create", "adjust", "commit"}
Settlement == {"CAPTURE", "VOID"}

\* The ledger t: every entry but a hold is about an earlier one, a hold is
\* settled by at most one entry and by one when it is not active, and a capture
\* refunded by at most one.
LedgerOK(t) ==
    /\ \A i \in DOMAIN t :
          /\ t[i].type \in TransactionTypes
          /\ t[i].account \in Accounts
          /\ t[i].amount \in Nat
          /\ t[i].type = "AUTH_HOLD" =>
                t[i].reference = 0 /\ t[i].status \in {"ACTIVE", "COMPLETED"}
          /\ t[i].type # "AUTH_HOLD" =>
                t[i].reference \in DOMAIN t /\ t[i].status = "COMPLETED"
          /\ t[i].type \in Settlement =>
                t[t[i].reference].type = "AUTH_HOLD" /\ t[t[i].reference].status = "COMPLETED"
          /\ t[i].type = "REFUND" => t[t[i].reference].type = "CAPTURE"
          /\ t[i].type = "AUTH_HOLD" /\ t[i].status # "ACTIVE" =>
                \E j \in DOMAIN t : t[j].type \in Settlement /\ t[j].reference = i
    /\ \A i, j \in DOMAIN t :
          /\ t[i].reference = t[j].reference
          /\ {t[i].type, t[j].type} \subseteq Settlement \/ {t[i].type, t[j].type} = {"REFUND"}
          => i = j

\* A call has a request until it ends, and it is validated before the transaction.
RequestInv(c) ==
    /\ pc[c] = "idle" => request[c] = NoBankRequest
    /\ pc[c] # "idle" => request[c] \in BankRequests
    /\ pc[c] \in {"lock"} \cup Open => ValidationError(request[c]) = ""

\* What an open transaction decided on still stands: it holds the row.
OpenInv(c) ==
    LET e == entry[c]
        r == request[c]
    IN
    pc[c] \in Open =>
        /\ e.type = TransactionType(r.path) /\ e.reference = r.reference
        /\ e.account \in Accounts /\ e.amount \in Nat /\ ~ e.expired
        /\ e.status = IF e.type = "AUTH_HOLD" THEN "ACTIVE" ELSE "COMPLETED"
        /\ locks[DecisiveRow(r)] = c
        /\ e.type = "AUTH_HOLD" =>
              /\ e.account = r.account /\ e.amount = r.amount
              /\ e.amount <= balances[e.account].available
        /\ e.type # "AUTH_HOLD" =>
              /\ e.reference \in DOMAIN transactions
              /\ transactions[e.reference].account = e.account
              /\ transactions[e.reference].amount = e.amount
        /\ e.type \in Settlement =>
              /\ transactions[e.reference].type = "AUTH_HOLD"
              /\ transactions[e.reference].status = "ACTIVE"
        /\ e.type = "CAPTURE" => e.reference \notin refused
        /\ e.type = "REFUND" =>
              /\ transactions[e.reference].type = "CAPTURE"
              /\ pc[c] # "create" => ~ IsReferenced(e.reference, "REFUND")
        /\ pc[c] = "commit" => locks[AccountRow(e.account)] = c

IsEntryOf(id, slot) == id \in DOMAIN transactions /\ origin[id] = slot

\* Every success that is on its way, cached or served names an entry that was
\* made under its own key and path.
AnswerInv(c) ==
    /\ pc[c] \in {"store", "respond"} /\ response[c].error = "" =>
          IsEntryOf(response[c].id, BankSlot(request[c]))
    /\ pc[c] = "store" => response[c].error = ""

\* An entry was made for a request that asked for it.
OriginInv ==
    /\ Len(origin) = Len(transactions)
    /\ \A i \in DOMAIN transactions : \E r \in BankRequests :
          /\ origin[i] = BankSlot(r)
          /\ transactions[i].type = TransactionType(r.path)
          /\ transactions[i].reference = r.reference
          /\ transactions[i].type = "AUTH_HOLD" => transactions[i].amount = r.amount

HistoryInv ==
    /\ \A i \in refused : i \in DOMAIN transactions /\ transactions[i].expired
    /\ \A s \in BankSlots :
          LET known == idempotencyKeys[s].response IN
          known # NoResponse => known.error = "" /\ IsEntryOf(known.id, s)
    /\ \A x \in served :
          /\ IsEntryOf(x.id, x.slot)
          /\ \E r \in BankRequests : x.slot = BankSlot(r) /\ x.reference = r.reference

\* Authorizations that are not yet in the ledger.
Arriving == {c \in Authorizing : pc[c] \notin {"store", "respond"}}
HoldsIn(t) == {i \in DOMAIN t : t[i].type = "AUTH_HOLD"}
CountInv == Cardinality(HoldsIn(transactions)) + Cardinality(Arriving) <= MaxHolds

BankInv ==
    /\ BankTypeOK
    /\ LedgerOK(transactions)
    /\ \A c \in Calls : RequestInv(c) /\ OpenInv(c) /\ AnswerInv(c)
    /\ OriginInv
    /\ HistoryInv
    /\ CountInv
    /\ NoOverdraft

----------------------------------------------------------------------------
(* Requests, rows and the length of the ledger *)

\* A request is of its shape, names a slot, and is not the request of an idle call.
LEMMA RequestFacts ==
    ASSUME NEW r \in BankRequests
    PROVE  BankRequestShape(r) /\ BankSlot(r) \in BankSlots /\ r # NoBankRequest
<1>1. BankRequestShape(r)
  BY BankRequestsAssumption
<1>2. BankSlot(r) \in BankSlots
  BY DEF BankSlots
<1>3. r # NoBankRequest
  <2>1. r.path # "" /\ NoBankRequest.path = ""
    BY <1>1 DEF BankRequestShape, NoBankRequest, Paths
  <2>. QED
    BY <2>1
<1>. QED
  BY <1>1, <1>2, <1>3

\* Requests under one key and path ask for the same.
LEMMA SlotFacts ==
    ASSUME NEW r \in BankRequests, NEW s \in BankRequests, BankSlot(r) = BankSlot(s)
    PROVE  r.path = s.path /\ r.reference = s.reference /\ r.amount = s.amount
<1>1. r.reference = s.reference /\ r.amount = s.amount
  BY BankKeysAssumption
<1>2. <<r.key, r.path>> = <<s.key, s.path>>
  BY DEF BankSlot
<1>. QED
  BY <1>1, <1>2

\* The bound on holds bounds the ledger: each hold is settled, and each capture
\* refunded, at most once.
LEMMA LedgerLength ==
    ASSUME NEW t \in Seq(Entry), LedgerOK(t), Cardinality(HoldsIn(t)) <= MaxHolds
    PROVE  Len(t) <= MaxTransactions
<1>. DEFINE S == {i \in DOMAIN t : t[i].type \in Settlement}
            R == {i \in DOMAIN t : t[i].type = "REFUND"}
            H == HoldsIn(t)
<1>1. DOMAIN t = 1..Len(t) /\ Len(t) \in Nat
  BY SMT
<1>2. IsFiniteSet(DOMAIN t) /\ Cardinality(DOMAIN t) = Len(t)
  BY <1>1, FS_Interval, SMT
<1>3. H \in SUBSET DOMAIN t /\ S \in SUBSET DOMAIN t /\ R \in SUBSET DOMAIN t
  BY DEF HoldsIn
<1>4. IsFiniteSet(H) /\ IsFiniteSet(S) /\ IsFiniteSet(R)
  BY <1>2, <1>3, FS_Subset
<1>5. Cardinality(S) <= Cardinality(H)
  <2>. DEFINE f == [i \in S |-> t[i].reference]
  <2>1. f \in [S -> H]
    BY DEF LedgerOK, HoldsIn, Settlement
  <2>2. \A i, j \in S : f[i] = f[j] => i = j
    BY SMT DEF LedgerOK
  <2>3. f \in Injection(S, H)
    BY <2>1, <2>2 DEF Injection, IsInjective
  <2>. QED
    BY <2>3, <1>4, FS_Injection
<1>6. Cardinality(R) <= Cardinality(S)
  <2>. DEFINE f == [i \in R |-> t[i].reference]
  <2>1. f \in [R -> S]
    BY DEF LedgerOK, Settlement
  <2>2. \A i, j \in R : f[i] = f[j] => i = j
    BY SMT DEF LedgerOK
  <2>3. f \in Injection(R, S)
    BY <2>1, <2>2 DEF Injection, IsInjective
  <2>. QED
    BY <2>3, <1>4, FS_Injection
<1>7. DOMAIN t = (H \cup S) \cup R
  <2>1. ASSUME NEW i \in DOMAIN t PROVE i \in (H \cup S) \cup R
    BY DEF LedgerOK, HoldsIn, Settlement, TransactionTypes
  <2>. QED
    BY <2>1, <1>3
<1>8. /\ IsFiniteSet(H \cup S)
      /\ Cardinality(H \cup S) = Cardinality(H) + Cardinality(S) - Cardinality(H \cap S)
  BY <1>4, FS_Union
<1>9. Cardinality(DOMAIN t) =
          Cardinality(H \cup S) + Cardinality(R) - Cardinality((H \cup S) \cap R)
  BY <1>4, <1>7, <1>8, FS_Union
<1>10. Cardinality(H \cap S) \in Nat /\ Cardinality((H \cup S) \cap R) \in Nat
  BY <1>4, <1>8, FS_Intersection, FS_CardinalityType
<1>11. {Cardinality(H), Cardinality(S), Cardinality(R)} \subseteq Nat
  BY <1>4, FS_CardinalityType
<1>12. Cardinality(H) <= MaxHolds
  OBVIOUS
<1>. HIDE DEF H, S, R
<1>. QED
  BY <1>2, <1>5, <1>6, <1>8, <1>9, <1>10, <1>11, <1>12, MaxHoldsAssumption, SMT DEF MaxTransactions

\* Distinct accounts and entries have distinct rows.
LEMMA RowFacts ==
    /\ \A a, b : AccountRow(a) = AccountRow(b) => a = b
    /\ \A i, j : TransactionRow(i) = TransactionRow(j) => i = j
    /\ \A a, i : AccountRow(a) # TransactionRow(i)
    /\ \A a \in Accounts : AccountRow(a) \in Rows
    /\ \A i \in 1..MaxTransactions : TransactionRow(i) \in Rows
BY DEF AccountRow, TransactionRow, Rows

\* A step that leaves the ledger alone leaves it in order.
LEMMA SameLedger ==
    ASSUME BankInv, transactions' = transactions
    PROVE  LedgerOK(transactions)'
<1>1. LedgerOK(transactions)
  BY DEF BankInv
<1>2. LedgerOK(transactions')
  BY <1>1
<1>. QED
  BY <1>2 DEF LedgerOK

\* The ledger fits the bound, and every row an open transaction holds exists.
LEMMA LedgerFits ==
    ASSUME BankInv
    PROVE  /\ Len(transactions) \in 0..MaxTransactions
           /\ DOMAIN transactions = 1..Len(transactions)
           /\ DOMAIN transactions \subseteq 1..MaxTransactions
           /\ IsFiniteSet(Arriving) /\ IsFiniteSet(HoldsIn(transactions))
           /\ Cardinality(Arriving) \in Nat /\ Cardinality(HoldsIn(transactions)) \in Nat
           /\ MaxTransactions \in Nat
<1>1. transactions \in Seq(Entry) /\ LedgerOK(transactions) /\ CountInv
  BY DEF BankInv, BankTypeOK
<1>2. Arriving \in SUBSET Calls
  BY DEF Arriving, Authorizing
<1>3. IsFiniteSet(Arriving) /\ Cardinality(Arriving) \in Nat
  BY <1>2, CallsAssumption, FS_Subset, FS_CardinalityType
<1>4. DOMAIN transactions = 1..Len(transactions) /\ Len(transactions) \in Nat
  BY <1>1, SMT
<1>5. HoldsIn(transactions) \in SUBSET 1..Len(transactions)
  BY <1>4 DEF HoldsIn
<1>6. IsFiniteSet(HoldsIn(transactions)) /\ Cardinality(HoldsIn(transactions)) \in Nat
  <2>1. IsFiniteSet(1..Len(transactions))
    BY <1>4, FS_Interval, SMT
  <2>. QED
    BY <2>1, <1>5, FS_Subset, FS_CardinalityType
<1>7. Cardinality(HoldsIn(transactions)) <= MaxHolds
  BY <1>1, <1>3, <1>6, MaxHoldsAssumption, SMT DEF CountInv
<1>8. Len(transactions) <= MaxTransactions
  BY <1>1, <1>7, LedgerLength
<1>9. MaxTransactions \in Nat
  BY MaxHoldsAssumption, SMT DEF MaxTransactions
<1>. QED
  BY <1>3, <1>4, <1>6, <1>8, <1>9, SMT

\* A call inside its transaction waits for rows that exist.
LEMMA OpenRows ==
    ASSUME BankInv, NEW d \in Calls, pc[d] \in Open
    PROVE  DecisiveRow(request[d]) \in Rows /\ AccountRow(entry[d].account) \in Rows
<1>1. request[d] \in BankRequests
  BY DEF BankInv, RequestInv, Open
<1>2. request[d].path \in Paths
  BY <1>1, RequestFacts DEF BankRequestShape
<1>3. OpenInv(d)
  BY DEF BankInv
<1>4. entry[d].account \in Accounts
  BY <1>3 DEF OpenInv
<1>5. CASE request[d].path = "authorizations"
  <2>1. request[d].account \in Accounts
    BY <1>3, <1>5 DEF OpenInv, TransactionType
  <2>. QED
    BY <2>1, <1>4, <1>5, RowFacts DEF DecisiveRow
<1>6. CASE request[d].path # "authorizations"
  <2>1. entry[d].type # "AUTH_HOLD" /\ entry[d].reference = request[d].reference
    BY <1>2, <1>3, <1>6 DEF OpenInv, TransactionType, Paths
  <2>2. request[d].reference \in DOMAIN transactions
    BY <1>3, <2>1 DEF OpenInv
  <2>. QED
    BY <2>2, <1>4, <1>6, RowFacts, LedgerFits DEF DecisiveRow
<1>. QED
  BY <1>5, <1>6

----------------------------------------------------------------------------
(* Steps of one call *)

\* A step of call c leaves the other calls, and the rows they hold, alone.
OnlyCall(c) ==
    \A d \in Calls \ {c} :
        /\ pc'[d] = pc[d] /\ request'[d] = request[d]
        /\ entry'[d] = entry[d] /\ response'[d] = response[d]
        /\ \A row \in Rows : locks[row] = d => locks'[row] = d

\* What the other calls decided on still stands when nothing they read changes.
LEMMA OthersOpen ==
    ASSUME BankInv, NEW c \in Calls, OnlyCall(c),
           UNCHANGED <<balances, transactions, refused>>, NEW d \in Calls \ {c}
    PROVE  OpenInv(d)'
<1>1. /\ pc'[d] = pc[d] /\ request'[d] = request[d] /\ entry'[d] = entry[d]
      /\ \A row \in Rows : locks[row] = d => locks'[row] = d
  BY DEF OnlyCall
<1>2. OpenInv(d)
  BY DEF BankInv
<1>3. CASE pc[d] \notin Open
  BY <1>1, <1>3 DEF OpenInv
<1>4. CASE pc[d] \in Open
  <2>1. DecisiveRow(request[d]) \in Rows /\ AccountRow(entry[d].account) \in Rows
    BY <1>4, OpenRows
  <2>. QED
    BY <1>1, <1>2, <1>4, <2>1 DEF OpenInv, IsReferenced, DecisiveRow
<1>. QED
  BY <1>3, <1>4

\* The steps of one call leave the requests and answers of the others alone.
LEMMA OthersAnswers ==
    ASSUME BankInv, NEW c \in Calls, OnlyCall(c), NEW d \in Calls \ {c},
           \A id, slot : IsEntryOf(id, slot) => IsEntryOf(id, slot)'
    PROVE  RequestInv(d)' /\ AnswerInv(d)'
<1>1. pc'[d] = pc[d] /\ request'[d] = request[d] /\ response'[d] = response[d]
  BY DEF OnlyCall
<1>2. RequestInv(d) /\ AnswerInv(d)
  BY DEF BankInv
<1>3. RequestInv(d)'
  BY <1>1, <1>2 DEF RequestInv, ValidationError
<1>4. AnswerInv(d)'
  BY <1>1, <1>2 DEF AnswerInv, BankSlot
<1>. QED
  BY <1>3, <1>4

\* A step of one call that changes nothing but its own control and locks.
LEMMA QuietStep ==
    ASSUME BankInv, NEW c \in Calls, OnlyCall(c),
           UNCHANGED <<balances, transactions, idempotencyKeys, history>>,
           BankTypeOK', RequestInv(c)', OpenInv(c)', AnswerInv(c)', CountInv'
    PROVE  BankInv'
<1>1. \A id, slot : IsEntryOf(id, slot) => IsEntryOf(id, slot)'
  BY DEF IsEntryOf, history
<1>2. \A d \in Calls \ {c} : RequestInv(d)' /\ OpenInv(d)' /\ AnswerInv(d)'
  BY <1>1, OthersOpen, OthersAnswers DEF history
<1>3. LedgerOK(transactions)' /\ OriginInv' /\ NoOverdraft'
  <2>1. transactions' = transactions /\ origin' = origin /\ balances' = balances
    BY DEF history
  <2>2. LedgerOK(transactions)'
    BY <2>1, SameLedger
  <2>3. OriginInv'
    BY <2>1 DEF BankInv, OriginInv
  <2>4. NoOverdraft'
    BY <2>1 DEF BankInv, NoOverdraft
  <2>. QED
    BY <2>2, <2>3, <2>4
<1>4. HistoryInv'
  BY <1>1 DEF BankInv, HistoryInv, history
<1>. QED
  BY <1>2, <1>3, <1>4 DEF BankInv

\* No authorization arrives in the step.
LEMMA CountKept ==
    ASSUME BankInv, UNCHANGED transactions, Arriving' \subseteq Arriving
    PROVE  CountInv'
<1>1. IsFiniteSet(Arriving) /\ {Cardinality(Arriving), Cardinality(HoldsIn(transactions))} \subseteq Nat
  BY LedgerFits
<1>2. Cardinality(Arriving') <= Cardinality(Arriving) /\ Cardinality(Arriving') \in Nat
  BY <1>1, FS_Subset, FS_CardinalityType
<1>3. HoldsIn(transactions)' = HoldsIn(transactions)
  BY DEF HoldsIn
<1>. QED
  BY <1>1, <1>2, <1>3, MaxHoldsAssumption, SMT DEF BankInv, CountInv

\* The codes and the empty values are of their types.
LEMMA BankTypes ==
    /\ \A code \in BankCodes : Failure(code) \in Response
    /\ \A id \in 0..MaxTransactions : Success(id) \in Response
    /\ \A id : Success(id).error = "" /\ Success(id).id = id
    /\ \A code : Failure(code).error = code /\ Failure(code).id = 0
    /\ NoEntry \in Entry
    /\ NoResponse \in Response
    /\ NoBankRequest.path = ""
<1>1. 0 \in 0..MaxTransactions
  BY MaxHoldsAssumption, SMT DEF MaxTransactions
<1>. QED
  BY <1>1, SMT DEF Failure, Success, Response, NoEntry, Entry, NoResponse, BankCodes, NoBankRequest

\* Every error the services report is one of the bank's codes.
LEMMA ErrorCodes ==
    ASSUME NEW r
    PROVE  /\ ValidationError(r) \in BankCodes
           /\ ServiceError(r) \in BankCodes
           /\ ReadErrorCode(r) \in BankCodes \ {""}
           /\ \A type : DuplicateCode(type) \in BankCodes \ {""}
<1>1. ValidationError(r) \in BankCodes
  BY DEF ValidationError, BankCodes
<1>2. ServiceError(r) \in BankCodes
  BY DEF ServiceError, AuthorizeError, CaptureError, VoidError, RefundError, BankCodes
<1>3. ReadErrorCode(r) \in BankCodes \ {""}
  BY DEF ReadErrorCode, BankCodes
<1>4. \A type : DuplicateCode(type) \in BankCodes \ {""}
  BY DEF DuplicateCode, BankCodes
<1>. QED
  BY <1>1, <1>2, <1>3, <1>4

\* A call gives its answer; its transaction, if it has one, is rolled back.
LEMMA AnswerStep ==
    ASSUME BankInv, NEW c \in Calls, NEW r \in Response, pc[c] # "idle", Answer(c, r),
           r.error = "" => IsEntryOf(r.id, BankSlot(request[c])),
           UNCHANGED <<balances, transactions, idempotencyKeys, request, history>>,
           entry' = entry \/ entry' = [entry EXCEPT ![c] = NoEntry],
           UNCHANGED locks \/ Unlock(c)
    PROVE  BankInv'
<1>1. OnlyCall(c)
  BY DEF OnlyCall, Answer, GoTo, Unlock, BankInv, BankTypeOK
<1>2. BankTypeOK'
  BY BankTypes, ZenonT(30) DEF Answer, GoTo, Unlock, BankInv, BankTypeOK, history
<1>3. pc'[c] = "respond" /\ response'[c] = r
  BY DEF Answer, GoTo, BankInv, BankTypeOK
<1>4. RequestInv(c)' /\ OpenInv(c)'
  BY <1>3 DEF RequestInv, OpenInv, Open, BankInv
<1>5. AnswerInv(c)'
  BY <1>3 DEF AnswerInv, IsEntryOf, BankSlot, history
<1>6. CountInv'
  <2>1. Arriving' \subseteq Arriving
    BY DEF Arriving, Authorizing, Answer, GoTo, BankInv, BankTypeOK
  <2>. QED
    BY <2>1, CountKept
<1>. QED
  BY <1>1, <1>2, <1>4, <1>5, <1>6, QuietStep

\* A request arrives within the bound.
LEMMA ReceiveStep ==
    ASSUME BankInv, NEW c \in Calls, NEW r \in BankRequests, MayArrive(r), Receive(c, r)
    PROVE  BankInv'
<1>1. OnlyCall(c)
  BY DEF OnlyCall, Receive, GoTo, BankInv, BankTypeOK
<1>2. BankTypeOK'
  BY DEF Receive, GoTo, BankInv, BankTypeOK, history
<1>3. pc'[c] = "lookup" /\ request'[c] = r
  BY DEF Receive, GoTo, BankInv, BankTypeOK
<1>4. RequestInv(c)' /\ OpenInv(c)' /\ AnswerInv(c)'
  BY <1>3 DEF RequestInv, OpenInv, AnswerInv, Open
<1>5. CountInv'
  <2>1. UNCHANGED transactions /\ IsFiniteSet(Arriving) /\ Cardinality(Arriving) \in Nat
    BY LedgerFits DEF Receive
  <2>2. CASE r.path # "authorizations"
    <3>1. Arriving' \subseteq Arriving
      BY <1>3, <2>2 DEF Arriving, Authorizing, Receive, GoTo, BankInv, BankTypeOK
    <3>. QED
      BY <2>1, <3>1, CountKept
  <2>3. CASE r.path = "authorizations"
    <3>1. Arriving' \in SUBSET (Arriving \cup {c})
      BY DEF Arriving, Authorizing, Receive, GoTo, BankInv, BankTypeOK
    <3>2. IsFiniteSet(Arriving \cup {c}) /\ Cardinality(Arriving \cup {c}) <= Cardinality(Arriving) + 1
      <4>1. /\ IsFiniteSet(Arriving \cup {c})
            /\ Cardinality(Arriving \cup {c}) =
                  IF c \in Arriving THEN Cardinality(Arriving) ELSE Cardinality(Arriving) + 1
        BY <2>1, FS_AddElement
      <4>. QED
        BY <2>1, <4>1, SMT
    <3>3. /\ Cardinality(Arriving') <= Cardinality(Arriving \cup {c})
          /\ {Cardinality(Arriving'), Cardinality(Arriving \cup {c})} \subseteq Nat
      BY <3>1, <3>2, FS_Subset, FS_CardinalityType
    <3>4. Arriving \in SUBSET Authorizing /\ Authorizing \in SUBSET Calls
      BY DEF Arriving, Authorizing
    <3>5. Cardinality(Arriving) <= Cardinality(Authorizing) /\ Cardinality(Authorizing) \in Nat
      BY <3>4, CallsAssumption, FS_Subset, FS_CardinalityType
    <3>6. Cardinality(Holds) + Cardinality(Authorizing) < MaxHolds
      BY <2>3 DEF MayArrive
    <3>7. Holds = HoldsIn(transactions) /\ HoldsIn(transactions)' = HoldsIn(transactions)
      BY <2>1 DEF Holds, HoldsIn
    <3>8. Cardinality(HoldsIn(transactions)) \in Nat
      BY LedgerFits
    <3>. QED
      BY <2>1, <3>2, <3>3, <3>5, <3>6, <3>7, <3>8, MaxHoldsAssumption, SMT DEF CountInv
  <2>. QED
    BY <2>2, <2>3
<1>. QED
  BY <1>1, <1>2, <1>4, <1>5, QuietStep DEF Receive

\* A cached response answers the call that asks for it again.
LEMMA ReplayStep ==
    ASSUME BankInv, NEW c \in Calls, Replay(c)
    PROVE  BankInv'
<1>1. pc[c] # "idle" /\ request[c] \in BankRequests
  BY DEF Replay, BankInv, RequestInv
<1>2. BankSlot(request[c]) \in BankSlots
  BY <1>1, RequestFacts
<1>3. CachedResponse(c) \in Response
  BY <1>2 DEF CachedResponse, BankInv, BankTypeOK
<1>4. IsEntryOf(CachedResponse(c).id, BankSlot(request[c]))
  BY <1>2 DEF Replay, CachedResponse, BankInv, HistoryInv
<1>. QED
  BY <1>1, <1>3, <1>4, AnswerStep DEF Replay

\* A failure is no success.
LEMMA FailureStep ==
    ASSUME BankInv, NEW c \in Calls, NEW code \in BankCodes \ {""}, pc[c] # "idle",
           Answer(c, Failure(code)),
           UNCHANGED <<balances, transactions, idempotencyKeys, request, history>>,
           entry' = entry \/ entry' = [entry EXCEPT ![c] = NoEntry],
           UNCHANGED locks \/ Unlock(c)
    PROVE  BankInv'
BY AnswerStep, BankTypes

\* The injected failure answers before anything is locked.
LEMMA FailureInjectionStep ==
    ASSUME BankInv, NEW c \in Calls, FailureInjection(c)
    PROVE  BankInv'
<1>1. "internal_error" \in BankCodes \ {""}
  BY DEF BankCodes
<1>. QED
  BY <1>1, FailureStep DEF FailureInjection

\* The unique index refuses a second settlement: the transaction rolls back.
LEMMA DuplicateStep ==
    ASSUME BankInv, NEW c \in Calls, Duplicate(c)
    PROVE  BankInv'
<1>1. DuplicateCode(entry[c].type) \in BankCodes \ {""}
  BY ErrorCodes
<1>. QED
  BY <1>1, FailureStep DEF Duplicate, RollBack

\* A failed statement rolls the transaction back and frees its rows.
LEMMA StatementErrorStep ==
    ASSUME BankInv, NEW c \in Calls, StatementError(c)
    PROVE  BankInv'
<1>1. "internal_error" \in BankCodes \ {""} /\ ReadErrorCode(request[c]) \in BankCodes \ {""}
  BY ErrorCodes DEF BankCodes
<1>2. PICK code \in BankCodes \ {""} : RollBack(c, code)
  BY <1>1 DEF StatementError
<1>. QED
  BY <1>2, FailureStep DEF StatementError, RollBack

\* A step from one point before the transaction to the next.
LEMMA BeforeTransaction ==
    ASSUME BankInv, NEW c \in Calls, NEW step \in {"handle", "lock"},
           pc[c] \in {"lookup", "handle"}, GoTo(c, step), caching' \in [Calls -> BOOLEAN],
           step = "lock" => ValidationError(request[c]) = "",
           UNCHANGED <<balances, transactions, idempotencyKeys, locks, request, entry,
                       response, history>>
    PROVE  BankInv'
<1>1. OnlyCall(c)
  BY DEF OnlyCall, GoTo, BankInv, BankTypeOK
<1>2. BankTypeOK'
  BY DEF GoTo, BankInv, BankTypeOK, history
<1>3. pc'[c] = step
  BY DEF GoTo, BankInv, BankTypeOK
<1>4. RequestInv(c)' /\ OpenInv(c)' /\ AnswerInv(c)'
  <2>1. RequestInv(c)'
    BY <1>3 DEF RequestInv, BankInv, ValidationError, Open
  <2>2. OpenInv(c)' /\ AnswerInv(c)'
    BY <1>3 DEF OpenInv, AnswerInv, Open
  <2>. QED
    BY <2>1, <2>2
<1>5. CountInv'
  <2>1. Arriving' \subseteq Arriving
    BY DEF Arriving, Authorizing, GoTo, BankInv, BankTypeOK
  <2>. QED
    BY <2>1, CountKept
<1>. QED
  BY <1>1, <1>2, <1>4, <1>5, QuietStep

\* The middleware finds no response to replay.
LEMMA MissStep ==
    ASSUME BankInv, NEW c \in Calls, Miss(c)
    PROVE  BankInv'
<1>1. caching' \in [Calls -> BOOLEAN]
  BY DEF Miss, BankInv, BankTypeOK
<1>. QED
  BY <1>1, BeforeTransaction DEF Miss

\* The validators refuse the request or let it into the transaction.
LEMMA ValidateStep ==
    ASSUME BankInv, NEW c \in Calls, Validate(c)
    PROVE  BankInv'
<1>1. CASE ValidationError(request[c]) = "" /\ GoTo(c, "lock") /\ UNCHANGED <<response, caching>>
  <2>1. caching' \in [Calls -> BOOLEAN]
    BY <1>1 DEF BankInv, BankTypeOK
  <2>. QED
    BY <1>1, <2>1, BeforeTransaction DEF Validate
<1>2. CASE ValidationError(request[c]) # "" /\ Answer(c, Failure(ValidationError(request[c])))
  BY <1>2, ErrorCodes, FailureStep DEF Validate
<1>. QED
  BY <1>1, <1>2 DEF Validate

\* The insert is made: no other open transaction, and no entry, has its reference.
LEMMA CreateStep ==
    ASSUME BankInv, NEW c \in Calls, Create(c)
    PROVE  BankInv'
<1>1. OnlyCall(c)
  BY DEF OnlyCall, Create, GoTo, BankInv, BankTypeOK
<1>2. BankTypeOK'
  BY DEF Create, GoTo, BankInv, BankTypeOK, history
<1>3. pc[c] = "create" /\ pc'[c] = "adjust" /\ UNCHANGED <<balances, transactions, locks, request, entry, refused>>
  BY DEF Create, GoTo, BankInv, BankTypeOK, history
<1>4. RequestInv(c)' /\ AnswerInv(c)'
  BY <1>3 DEF RequestInv, BankInv, ValidationError, Open, AnswerInv
<1>5. entry[c].type = "REFUND" => ~ IsReferenced(entry[c].reference, "REFUND")
  BY DEF Create, IsDuplicate
<1>6. OpenInv(c)
  BY DEF BankInv
<1>7. OpenInv(c)'
  BY <1>3, <1>5, <1>6 DEF OpenInv, Open, IsReferenced, DecisiveRow
<1>8. CountInv'
  <2>1. Arriving' \subseteq Arriving
    BY DEF Arriving, Authorizing, Create, GoTo, BankInv, BankTypeOK
  <2>. QED
    BY <2>1, CountKept DEF Create
<1>. QED
  BY <1>1, <1>2, <1>4, <1>7, <1>8, QuietStep DEF Create

\* A cancelled or dead call leaves no locks and no uncommitted entry.
LEMMA AbortStep ==
    ASSUME BankInv, NEW c \in Calls, Abort(c)
    PROVE  BankInv'
<1>1. OnlyCall(c)
  BY DEF OnlyCall, Abort, EndCall, Unlock, GoTo, BankInv, BankTypeOK
<1>2. BankTypeOK'
  BY BankTypes DEF Abort, EndCall, Unlock, GoTo, BankInv, BankTypeOK, history
<1>3. pc'[c] = "idle" /\ request'[c] = NoBankRequest
  BY DEF Abort, EndCall, GoTo, BankInv, BankTypeOK
<1>4. RequestInv(c)' /\ OpenInv(c)' /\ AnswerInv(c)'
  BY <1>3 DEF RequestInv, OpenInv, AnswerInv, Open
<1>5. CountInv'
  <2>1. Arriving' \subseteq Arriving
    BY BankTypes DEF Arriving, Authorizing, Abort, EndCall, GoTo, BankInv, BankTypeOK
  <2>. QED
    BY <2>1, CountKept DEF Abort
<1>. QED
  BY <1>1, <1>2, <1>4, <1>5, QuietStep DEF Abort

----------------------------------------------------------------------------
(* The transaction *)

Acceptable(c) == pc[c] = "lock" /\ ServiceError(request[c]) = ""

\* What a service checked before it accepted a request.
LEMMA AcceptedRequest ==
    ASSUME BankInv, NEW c \in Calls, Acceptable(c)
    PROVE  LET r == request[c]
               e == NewEntry(r)
           IN
           /\ e \in Entry
           /\ e.type = TransactionType(r.path) /\ e.reference = r.reference
           /\ e.account \in Accounts /\ e.amount \in Nat /\ ~ e.expired
           /\ e.status = IF e.type = "AUTH_HOLD" THEN "ACTIVE" ELSE "COMPLETED"
           /\ e.type = "AUTH_HOLD" =>
                 /\ e.account = r.account /\ e.amount = r.amount
                 /\ e.amount <= balances[e.account].available
           /\ e.type # "AUTH_HOLD" =>
                 /\ e.reference \in DOMAIN transactions
                 /\ transactions[e.reference].account = e.account
                 /\ transactions[e.reference].amount = e.amount
           /\ e.type \in Settlement =>
                 /\ transactions[e.reference].type = "AUTH_HOLD"
                 /\ transactions[e.reference].status = "ACTIVE"
           /\ e.type = "CAPTURE" => e.reference \notin refused
           /\ e.type = "REFUND" => transactions[e.reference].type = "CAPTURE"
           /\ DecisiveRow(r) \in Rows
<1>. DEFINE r == request[c]
            e == NewEntry(r)
<1>1. r \in BankRequests /\ ValidationError(r) = ""
  BY DEF BankInv, RequestInv, Acceptable
<1>2. BankRequestShape(r)
  BY <1>1, RequestFacts
<1>3. CASE r.path = "authorizations"
  <2>1. r.card = "good" /\ r.amount > 0 /\ r.amount \in Int
    <3>1. r.card \in CardDetails /\ r.amount \in Int
      BY <1>2 DEF BankRequestShape
    <3>2. r.card # "bad_number" /\ r.card # "bad_cvv" /\ ~ (r.amount <= 0)
      BY <1>1, <1>3 DEF ValidationError
    <3>3. r.card # "unknown" /\ r.card # "wrong_cvv" /\ r.card # "expired"
      BY <1>3 DEF Acceptable, ServiceError, AuthorizeError
    <3>. QED
      BY <3>1, <3>2, <3>3, SMT DEF CardDetails
  <2>2. r.account \in Accounts /\ r.reference = 0
    BY <1>2, <1>3, <2>1 DEF BankRequestShape
  <2>3. balances[r.account].available \in Int
    BY <2>2 DEF BankInv, BankTypeOK
  <2>4. r.amount <= balances[r.account].available
    BY <1>3, <2>1, <2>3, SMT DEF Acceptable, ServiceError, AuthorizeError
  <2>5. e = [type |-> "AUTH_HOLD", account |-> r.account, amount |-> r.amount,
             reference |-> 0, status |-> "ACTIVE", expired |-> FALSE]
    BY <1>3 DEF NewEntry
  <2>. HIDE DEF e
  <2>6. e \in Entry
    <3>1. 0 \in 0..MaxTransactions
      BY LedgerFits, SMT
    <3>. QED
      BY <2>1, <2>2, <2>5, <3>1 DEF Entry, TransactionTypes
  <2>7. DecisiveRow(r) \in Rows
    BY <1>3, <2>2, RowFacts DEF DecisiveRow
  <2>. QED
    <3>1. /\ e.type = "AUTH_HOLD" /\ e.account = r.account /\ e.amount = r.amount
          /\ e.reference = r.reference /\ e.status = "ACTIVE" /\ ~ e.expired
      BY <2>2, <2>5
    <3>2. e.amount \in Nat
      BY <2>1, <3>1, SMT
    <3>3. TransactionType(r.path) = "AUTH_HOLD" /\ "AUTH_HOLD" \notin Settlement
      BY <1>3 DEF TransactionType, Settlement
    <3>. QED
      BY <2>2, <2>4, <2>6, <2>7, <3>1, <3>2, <3>3 DEF e
<1>4. CASE r.path # "authorizations"
  <2>1. r.path \in {"captures", "voids", "refunds"}
    BY <1>2, <1>4 DEF BankRequestShape, Paths
  <2>2. /\ r.reference \in DOMAIN transactions
        /\ r.path \in {"captures", "voids"} =>
              /\ transactions[r.reference].type = "AUTH_HOLD"
              /\ transactions[r.reference].status = "ACTIVE"
        /\ r.path = "captures" => ~ transactions[r.reference].expired
        /\ r.path = "refunds" => transactions[r.reference].type = "CAPTURE"
    BY <2>1 DEF Acceptable, ServiceError, CaptureError, VoidError, RefundError, Exists
  <2>3. /\ e.type = TransactionType(r.path) /\ e.account = transactions[r.reference].account
        /\ e.amount = transactions[r.reference].amount /\ e.reference = r.reference
        /\ e.status = "COMPLETED" /\ e.expired = FALSE
        /\ e = [type |-> TransactionType(r.path), account |-> transactions[r.reference].account,
                amount |-> transactions[r.reference].amount, reference |-> r.reference,
                status |-> "COMPLETED", expired |-> FALSE]
    BY <1>4 DEF NewEntry
  <2>. HIDE DEF e
  <2>4. e.account \in Accounts /\ e.amount \in Nat
    BY <2>2, <2>3 DEF BankInv, LedgerOK
  <2>5. e.reference \in 0..MaxTransactions
    <3>1. \A i \in DOMAIN transactions : i \in 0..MaxTransactions
      BY LedgerFits, SMT
    <3>. QED
      BY <2>2, <2>3, <3>1
  <2>6. /\ e.type \in {"CAPTURE", "VOID", "REFUND"}
        /\ e.type = "CAPTURE" => r.path = "captures"
        /\ e.type = "VOID" => r.path = "voids"
        /\ e.type = "REFUND" => r.path = "refunds"
    BY <2>1, <2>3 DEF TransactionType
  <2>7. e \in Entry
    <3>1. \A type \in {"CAPTURE", "VOID", "REFUND"}, a \in Accounts, amount \in Int,
             i \in 0..MaxTransactions :
             [type |-> type, account |-> a, amount |-> amount, reference |-> i,
              status |-> "COMPLETED", expired |-> FALSE] \in Entry
      BY DEF Entry, TransactionTypes
    <3>2. e = [type |-> e.type, account |-> e.account, amount |-> e.amount,
               reference |-> e.reference, status |-> "COMPLETED", expired |-> FALSE]
      BY <2>3
    <3>3. e.amount \in Int
      BY <2>4, SMT
    <3>. QED
      BY <2>4, <2>5, <2>6, <3>1, <3>2, <3>3
  <2>8. r.path = "captures" => r.reference \notin refused
    BY <2>2 DEF BankInv, HistoryInv
  <2>9. DecisiveRow(r) \in Rows
    BY <1>4, <2>2, RowFacts, LedgerFits DEF DecisiveRow
  <2>. QED
    BY <2>2, <2>3, <2>4, <2>6, <2>7, <2>8, <2>9 DEF Settlement, e
<1>. QED
  BY <1>3, <1>4

\* A transaction takes a row that no other one holds.
LEMMA LockedRow ==
    ASSUME BankInv, NEW c \in Calls, NEW row \in Rows, LockRow(c, row)
    PROVE  /\ locks' \in [Rows -> Calls \cup {NoCall}]
           /\ locks'[row] = c
           /\ \A other \in Rows : locks[other] \in Calls => locks'[other] = locks[other]
<1>1. locks \in [Rows -> Calls \cup {NoCall}] /\ NoCall \notin Calls
  BY CallsAssumption DEF BankInv, BankTypeOK
<1>. QED
  BY <1>1 DEF LockRow, IsFree

\* The service takes the decisive row's lock and its checks pass.
LEMMA AcceptStep ==
    ASSUME BankInv, NEW c \in Calls, Accept(c)
    PROVE  BankInv'
<1>. DEFINE r == request[c]
            e == NewEntry(r)
<1>1. /\ e \in Entry
      /\ e.type = TransactionType(r.path) /\ e.reference = r.reference
      /\ e.account \in Accounts /\ e.amount \in Nat /\ ~ e.expired
      /\ e.status = IF e.type = "AUTH_HOLD" THEN "ACTIVE" ELSE "COMPLETED"
      /\ e.type = "AUTH_HOLD" =>
            /\ e.account = r.account /\ e.amount = r.amount
            /\ e.amount <= balances[e.account].available
      /\ e.type # "AUTH_HOLD" =>
            /\ e.reference \in DOMAIN transactions
            /\ transactions[e.reference].account = e.account
            /\ transactions[e.reference].amount = e.amount
      /\ e.type \in Settlement =>
            /\ transactions[e.reference].type = "AUTH_HOLD"
            /\ transactions[e.reference].status = "ACTIVE"
      /\ e.type = "CAPTURE" => e.reference \notin refused
      /\ e.type = "REFUND" => transactions[e.reference].type = "CAPTURE"
      /\ DecisiveRow(r) \in Rows
  BY AcceptedRequest DEF Accept, Acceptable
<1>. HIDE DEF e
<1>2. /\ locks' \in [Rows -> Calls \cup {NoCall}]
      /\ locks'[DecisiveRow(r)] = c
      /\ \A other \in Rows : locks[other] \in Calls => locks'[other] = locks[other]
  BY <1>1, LockedRow DEF Accept
<1>3. /\ pc[c] = "lock" /\ pc'[c] = "create" /\ entry'[c] = e
      /\ UNCHANGED <<balances, transactions, request, refused>>
  BY DEF Accept, GoTo, BankInv, BankTypeOK, history, e
<1>4. OnlyCall(c)
  BY <1>2 DEF OnlyCall, Accept, GoTo, BankInv, BankTypeOK
<1>5. BankTypeOK'
  BY <1>1, <1>2 DEF Accept, GoTo, BankInv, BankTypeOK, history, e
<1>6. RequestInv(c)' /\ AnswerInv(c)'
  BY <1>3 DEF RequestInv, AnswerInv, BankInv, ValidationError, Open
<1>7. OpenInv(c)'
  BY <1>1, <1>2, <1>3 DEF OpenInv, DecisiveRow, IsReferenced
<1>8. CountInv'
  <2>1. Arriving' \subseteq Arriving
    BY DEF Arriving, Authorizing, Accept, GoTo, BankInv, BankTypeOK
  <2>. QED
    BY <1>3, <2>1, CountKept
<1>. QED
  BY <1>4, <1>5, <1>6, <1>7, <1>8, QuietStep DEF Accept

\* The UPDATE takes the lock of the account's row before it changes the balance.
LEMMA AdjustBalancesStep ==
    ASSUME BankInv, NEW c \in Calls, AdjustBalances(c)
    PROVE  BankInv'
<1>. DEFINE row == AccountRow(entry[c].account)
<1>1. DecisiveRow(request[c]) \in Rows /\ row \in Rows
  BY OpenRows DEF AdjustBalances, Open
<1>2. /\ locks' \in [Rows -> Calls \cup {NoCall}]
      /\ locks'[row] = c
      /\ \A other \in Rows : locks[other] \in Calls => locks'[other] = locks[other]
  BY <1>1, LockedRow DEF AdjustBalances
<1>3. /\ pc[c] = "adjust" /\ pc'[c] = "commit"
      /\ UNCHANGED <<balances, transactions, request, entry, refused>>
  BY DEF AdjustBalances, GoTo, BankInv, BankTypeOK, history
<1>4. OnlyCall(c)
  BY <1>2 DEF OnlyCall, AdjustBalances, GoTo, BankInv, BankTypeOK
<1>5. BankTypeOK'
  BY <1>2 DEF AdjustBalances, GoTo, BankInv, BankTypeOK, history
<1>6. RequestInv(c)' /\ AnswerInv(c)'
  BY <1>3 DEF RequestInv, AnswerInv, BankInv, ValidationError, Open
<1>7. OpenInv(c)'
  <2>1. OpenInv(c)
    BY DEF BankInv
  <2>2. locks'[DecisiveRow(request[c])] = c
    BY <1>1, <1>2, <1>3, <2>1 DEF OpenInv, Open
  <2>. QED
    BY <1>2, <1>3, <2>1, <2>2 DEF OpenInv, Open, DecisiveRow, IsReferenced
<1>8. CountInv'
  <2>1. Arriving' \subseteq Arriving
    BY DEF Arriving, Authorizing, AdjustBalances, GoTo, BankInv, BankTypeOK
  <2>. QED
    BY <1>3, <2>1, CountKept
<1>. QED
  BY <1>4, <1>5, <1>6, <1>7, <1>8, QuietStep DEF AdjustBalances

\* A capture that is refused as expired: nobody else is capturing the hold,
\* since nobody else holds its row.
LEMMA RejectStep ==
    ASSUME BankInv, NEW c \in Calls, Reject(c)
    PROVE  BankInv'
<1>. DEFINE r == request[c]
<1>1. ServiceError(r) \in BankCodes \ {""}
  BY ErrorCodes DEF Reject
<1>2. CASE refused' = refused
  BY <1>1, <1>2, FailureStep DEF Reject, RollBack, history
<1>3. CASE refused' # refused
  <2>1. /\ ServiceError(r) = "authorization_expired" /\ refused' = refused \cup {r.reference}
        /\ pc[c] = "lock" /\ (RowExists(r) => IsFree(c, DecisiveRow(r)))
        /\ Answer(c, Failure(ServiceError(r))) /\ Unlock(c)
        /\ entry' = [entry EXCEPT ![c] = NoEntry]
        /\ balances' = balances /\ transactions' = transactions
        /\ idempotencyKeys' = idempotencyKeys /\ request' = request
        /\ served' = served /\ origin' = origin
    BY <1>3 DEF Reject, RollBack
  <2>2. r \in BankRequests
    BY <2>1 DEF BankInv, RequestInv
  <2>3. r.path = "captures"
    BY <2>1 DEF ServiceError, AuthorizeError, VoidError, RefundError
  <2>4. /\ r.reference \in DOMAIN transactions
        /\ transactions[r.reference].expired
    BY <2>1, <2>3 DEF ServiceError, CaptureError, Exists
  <2>5. locks[TransactionRow(r.reference)] \in {NoCall, c}
    BY <2>1, <2>3, <2>4 DEF RowExists, IsFree, DecisiveRow
  <2>6. OnlyCall(c)
    BY <2>1 DEF OnlyCall, Answer, GoTo, Unlock, BankInv, BankTypeOK
  <2>7. BankTypeOK'
    <3>1. refused' \subseteq 1..MaxTransactions
      BY <2>1, <2>4, LedgerFits DEF BankInv, BankTypeOK
    <3>. QED
      BY <1>1, <2>1, <3>1, BankTypes DEF Answer, GoTo, Unlock, BankInv, BankTypeOK
  <2>8. pc'[c] = "respond" /\ response'[c].error # ""
    BY <1>1, <2>1, BankTypes DEF Answer, GoTo, BankInv, BankTypeOK
  <2>9. RequestInv(c)' /\ OpenInv(c)' /\ AnswerInv(c)'
    <3>1. request[c] \in BankRequests /\ request'[c] = request[c]
      BY <2>1, <2>2
    <3>. QED
      BY <2>8, <3>1 DEF RequestInv, OpenInv, AnswerInv, Open
  <2>10. ASSUME NEW d \in Calls \ {c} PROVE OpenInv(d)'
    <3>1. /\ pc'[d] = pc[d] /\ request'[d] = request[d] /\ entry'[d] = entry[d]
          /\ \A row \in Rows : locks[row] = d => locks'[row] = d
      BY <2>6 DEF OnlyCall
    <3>2. OpenInv(d)
      BY DEF BankInv
    <3>3. CASE pc[d] \notin Open
      BY <3>1, <3>3 DEF OpenInv
    <3>4. CASE pc[d] \in Open
      <4>1. DecisiveRow(request[d]) \in Rows /\ AccountRow(entry[d].account) \in Rows
        BY <3>4, OpenRows
      <4>2. entry[d].type = "CAPTURE" => entry[d].reference \notin refused'
        <5>1. SUFFICES ASSUME entry[d].type = "CAPTURE", entry[d].reference = r.reference
                       PROVE  FALSE
          BY <2>1, <3>2, <3>4 DEF OpenInv
        <5>2. request[d].path = "captures" /\ request[d].reference = r.reference
          BY <3>2, <3>4, <5>1 DEF OpenInv, TransactionType
        <5>3. locks[TransactionRow(r.reference)] = d
          BY <3>2, <3>4, <5>2 DEF OpenInv, DecisiveRow
        <5>. QED
          BY <2>5, <5>3, CallsAssumption
      <4>. QED
        BY <2>1, <3>1, <3>2, <3>4, <4>1, <4>2 DEF OpenInv, IsReferenced, DecisiveRow
    <3>. QED
      BY <3>3, <3>4
  <2>11. \A id, slot : IsEntryOf(id, slot)' <=> IsEntryOf(id, slot)
    BY <2>1 DEF IsEntryOf
  <2>12. \A d \in Calls \ {c} : RequestInv(d)' /\ AnswerInv(d)'
    BY <2>6, <2>11, OthersAnswers
  <2>13. LedgerOK(transactions)' /\ OriginInv' /\ NoOverdraft'
    <3>1. LedgerOK(transactions)'
      BY <2>1, SameLedger
    <3>2. OriginInv'
      BY <2>1 DEF BankInv, OriginInv
    <3>3. NoOverdraft'
      BY <2>1 DEF BankInv, NoOverdraft
    <3>. QED
      BY <3>1, <3>2, <3>3
  <2>14. HistoryInv'
    BY <2>1, <2>4, <2>11 DEF BankInv, HistoryInv
  <2>15. CountInv'
    <3>1. Arriving' \subseteq Arriving
      BY <2>1 DEF Arriving, Authorizing, Answer, GoTo, BankInv, BankTypeOK
    <3>. QED
      BY <2>1, <3>1, CountKept
  <2>. QED
    BY <2>7, <2>9, <2>10, <2>12, <2>13, <2>14, <2>15 DEF BankInv
<1>. QED
  BY <1>2, <1>3

----------------------------------------------------------------------------
(* The commit *)

\* The ledger u is the ledger t with entry e, and with the hold e settles completed.
Extended(t, u, e) ==
    /\ Len(u) = Len(t) + 1 /\ DOMAIN u = 1..(Len(t) + 1)
    /\ u[Len(t) + 1] = e
    /\ \A i \in 1..Len(t) :
          /\ u[i].type = t[i].type /\ u[i].account = t[i].account
          /\ u[i].amount = t[i].amount /\ u[i].reference = t[i].reference
          /\ u[i].expired = t[i].expired
          /\ u[i].status = IF e.type \in Settlement /\ i = e.reference
                           THEN "COMPLETED" ELSE t[i].status

\* What an entry must be to extend the ledger t.
EntryFits(t, e) ==
    /\ e.type \in TransactionTypes /\ e.account \in Accounts /\ e.amount \in Nat
    /\ e.status = IF e.type = "AUTH_HOLD" THEN "ACTIVE" ELSE "COMPLETED"
    /\ e.type = "AUTH_HOLD" => e.reference = 0
    /\ e.type # "AUTH_HOLD" =>
          /\ e.reference \in DOMAIN t
          /\ t[e.reference].account = e.account /\ t[e.reference].amount = e.amount
    /\ e.type \in Settlement => t[e.reference].type = "AUTH_HOLD" /\ t[e.reference].status = "ACTIVE"
    /\ e.type = "REFUND" =>
          /\ t[e.reference].type = "CAPTURE"
          /\ \A i \in DOMAIN t : ~ (t[i].reference = e.reference /\ t[i].type = "REFUND")

\* A transaction that may commit has an entry that fits.
LEMMA CommittingEntry ==
    ASSUME BankInv, NEW c \in Calls, pc[c] = "commit"
    PROVE  /\ EntryFits(transactions, entry[c])
           /\ entry[c] \in Entry
           /\ request[c] \in BankRequests
           /\ entry[c].type = TransactionType(request[c].path)
           /\ entry[c].reference = request[c].reference
           /\ locks[DecisiveRow(request[c])] = c
           /\ locks[AccountRow(entry[c].account)] = c
           /\ entry[c].type = "AUTH_HOLD" =>
                 /\ entry[c].amount = request[c].amount
                 /\ entry[c].amount <= balances[entry[c].account].available
<1>1. OpenInv(c) /\ pc[c] \in Open
  BY DEF BankInv, Open
<1>2. request[c] \in BankRequests
  BY DEF BankInv, RequestInv
<1>3. BankRequestShape(request[c])
  BY <1>2, RequestFacts
<1>4. entry[c].type \in TransactionTypes
  BY <1>1 DEF OpenInv, TransactionType, TransactionTypes
<1>5. entry[c].type = "AUTH_HOLD" => entry[c].reference = 0
  <2>1. entry[c].type = "AUTH_HOLD" => request[c].path = "authorizations"
    BY <1>1 DEF OpenInv, TransactionType
  <2>. QED
    BY <1>1, <1>3, <2>1 DEF OpenInv, BankRequestShape
<1>6. EntryFits(transactions, entry[c])
  BY <1>1, <1>4, <1>5 DEF EntryFits, OpenInv, IsReferenced
<1>. QED
  BY <1>1, <1>2, <1>6 DEF OpenInv, BankInv, BankTypeOK

\* Committed writes the ledger so.
LEMMA CommittedLedger ==
    ASSUME BankInv, NEW c \in Calls, pc[c] = "commit", Committed(entry[c])
    PROVE  Extended(transactions, transactions', entry[c]) /\ transactions' \in Seq(Entry)
<1>. DEFINE t == transactions
            e == entry[c]
            base == IF e.type \in {"CAPTURE", "VOID"}
                    THEN [t EXCEPT ![e.reference].status = "COMPLETED"] ELSE t
<1>1. EntryFits(t, e) /\ e \in Entry /\ t \in Seq(Entry)
  BY CommittingEntry DEF BankInv, BankTypeOK
<1>2. Len(t) \in Nat /\ DOMAIN t = 1..Len(t) /\ \A i \in 1..Len(t) : t[i] \in Entry
  <2>1. t \in Seq(Entry)
    BY <1>1
  <2>. QED
    BY ONLY <2>1, SMT
<1>3. base \in Seq(Entry) /\ Len(base) = Len(t)
  <2>1. CASE e.type \in {"CAPTURE", "VOID"}
    <3>1. e.reference \in 1..Len(t)
      BY <1>1, <1>2, <2>1 DEF EntryFits
    <3>2. [t[e.reference] EXCEPT !.status = "COMPLETED"] \in Entry
      BY <1>2, <3>1 DEF Entry
    <3>3. base = [t EXCEPT ![e.reference] = [t[e.reference] EXCEPT !.status = "COMPLETED"]]
      BY <2>1
    <3>. QED
      BY <1>1, <1>2, <3>1, <3>2, <3>3, SMT
  <2>2. CASE e.type \notin {"CAPTURE", "VOID"}
    BY <1>1, <2>2
  <2>. QED
    BY <2>1, <2>2
<1>4. \A i \in 1..Len(t) :
          base[i] = IF e.type \in {"CAPTURE", "VOID"} /\ i = e.reference
                    THEN [t[i] EXCEPT !.status = "COMPLETED"] ELSE t[i]
  BY <1>1, <1>2
<1>5. transactions' = Append(base, e)
  BY DEF Committed
<1>. HIDE DEF base
<1>6. /\ transactions' \in Seq(Entry) /\ Len(transactions') = Len(t) + 1
      /\ DOMAIN transactions' = 1..(Len(t) + 1)
      /\ transactions'[Len(t) + 1] = e
      /\ \A i \in 1..Len(t) : transactions'[i] = base[i]
  BY <1>1, <1>2, <1>3, <1>5, SMT
<1>7. ASSUME NEW i \in 1..Len(t)
      PROVE  LET u == transactions' IN
             /\ u[i].type = t[i].type /\ u[i].account = t[i].account
             /\ u[i].amount = t[i].amount /\ u[i].reference = t[i].reference
             /\ u[i].expired = t[i].expired
             /\ u[i].status = IF e.type \in Settlement /\ i = e.reference
                              THEN "COMPLETED" ELSE t[i].status
  <2>1. t[i] \in Entry
    BY <1>2
  <2>2. transactions'[i] = IF e.type \in {"CAPTURE", "VOID"} /\ i = e.reference
                           THEN [t[i] EXCEPT !.status = "COMPLETED"] ELSE t[i]
    BY <1>4, <1>6
  <2>. QED
    BY <2>1, <2>2 DEF Entry, Settlement
<1>. QED
  BY <1>6, <1>7 DEF Extended

\* The ledger keeps its order when an entry that fits is added.
LEMMA ExtendedLedger ==
    ASSUME NEW t \in Seq(Entry), NEW u \in Seq(Entry), NEW e,
           LedgerOK(t), EntryFits(t, e), Extended(t, u, e)
    PROVE  LedgerOK(u)
<1>. DEFINE n == Len(t) + 1
<1>1. Len(t) \in Nat /\ DOMAIN t = 1..Len(t) /\ DOMAIN u = 1..n /\ n \in 1..n /\ n \notin DOMAIN t
  <2>1. Len(t) \in Nat /\ DOMAIN t = 1..Len(t)
    BY SMT
  <2>2. DOMAIN u = 1..n
    BY DEF Extended
  <2>. QED
    BY ONLY <2>1, <2>2, SMT DEF n
<1>2. u[n] = e
  BY DEF Extended
<1>3. \A i \in DOMAIN t :
          /\ i \in DOMAIN u
          /\ u[i].type = t[i].type /\ u[i].account = t[i].account
          /\ u[i].amount = t[i].amount /\ u[i].reference = t[i].reference
          /\ u[i].status = IF e.type \in Settlement /\ i = e.reference
                           THEN "COMPLETED" ELSE t[i].status
  BY <1>1, SMT DEF Extended
<1>4. \A i \in DOMAIN u : i \in DOMAIN t \/ i = n
  BY <1>1, SMT
<1>. HIDE DEF n
<1>5. ASSUME NEW i \in DOMAIN u
      PROVE  /\ u[i].type \in TransactionTypes
             /\ u[i].account \in Accounts
             /\ u[i].amount \in Nat
             /\ u[i].type = "AUTH_HOLD" =>
                   u[i].reference = 0 /\ u[i].status \in {"ACTIVE", "COMPLETED"}
             /\ u[i].type # "AUTH_HOLD" =>
                   u[i].reference \in DOMAIN u /\ u[i].status = "COMPLETED"
             /\ u[i].type \in Settlement =>
                   u[u[i].reference].type = "AUTH_HOLD" /\ u[u[i].reference].status = "COMPLETED"
             /\ u[i].type = "REFUND" => u[u[i].reference].type = "CAPTURE"
             /\ u[i].type = "AUTH_HOLD" /\ u[i].status # "ACTIVE" =>
                   \E j \in DOMAIN u : u[j].type \in Settlement /\ u[j].reference = i
  <2>1. CASE i \in DOMAIN t
    <3>1. /\ t[i].type \in TransactionTypes
          /\ t[i].account \in Accounts
          /\ t[i].amount \in Nat
          /\ t[i].type = "AUTH_HOLD" =>
                t[i].reference = 0 /\ t[i].status \in {"ACTIVE", "COMPLETED"}
          /\ t[i].type # "AUTH_HOLD" =>
                t[i].reference \in DOMAIN t /\ t[i].status = "COMPLETED"
          /\ t[i].type \in Settlement =>
                t[t[i].reference].type = "AUTH_HOLD" /\ t[t[i].reference].status = "COMPLETED"
          /\ t[i].type = "REFUND" => t[t[i].reference].type = "CAPTURE"
          /\ t[i].type = "AUTH_HOLD" /\ t[i].status # "ACTIVE" =>
                \E j \in DOMAIN t : t[j].type \in Settlement /\ t[j].reference = i
      BY <2>1 DEF LedgerOK
    <3>2. t[i].type \in Settlement => t[i].type # "AUTH_HOLD"
      BY DEF Settlement
    <3>3. u[i].type = "AUTH_HOLD" /\ u[i].status # "ACTIVE" =>
             \E j \in DOMAIN u : u[j].type \in Settlement /\ u[j].reference = i
      <4>1. CASE e.type \in Settlement /\ i = e.reference
        BY <1>1, <1>2, <4>1 DEF n
      <4>2. CASE ~ (e.type \in Settlement /\ i = e.reference)
        BY <1>3, <2>1, <3>1, <4>2
      <4>. QED
        BY <4>1, <4>2
    <3>4. t[i].type # "AUTH_HOLD" =>
             LET h == t[i].reference IN
             /\ h \in DOMAIN u /\ u[h].type = t[h].type
             /\ t[h].status = "COMPLETED" => u[h].status = "COMPLETED"
      BY <1>3, <3>1
    <3>5. /\ u[i].type = t[i].type /\ u[i].account = t[i].account
          /\ u[i].amount = t[i].amount /\ u[i].reference = t[i].reference
          /\ u[i].status \in {t[i].status, "COMPLETED"}
      BY <1>3, <2>1
    <3>. QED
      BY <3>1, <3>2, <3>3, <3>4, <3>5
  <2>2. CASE i = n
    <3>1. e.type \in Settlement => e.type # "AUTH_HOLD" /\ e.type # "REFUND"
      BY DEF Settlement
    <3>. QED
      BY <1>2, <1>3, <2>2, <3>1 DEF EntryFits
  <2>. QED
    BY <1>4, <2>1, <2>2
<1>6. ASSUME NEW i \in DOMAIN u, NEW j \in DOMAIN u, u[i].reference = u[j].reference,
             {u[i].type, u[j].type} \subseteq Settlement \/ {u[i].type, u[j].type} = {"REFUND"}
      PROVE  i = j
  <2>1. CASE i \in DOMAIN t /\ j \in DOMAIN t
    <3>1. /\ t[i].reference = t[j].reference
          /\ {t[i].type, t[j].type} \subseteq Settlement \/ {t[i].type, t[j].type} = {"REFUND"}
      <4>1. /\ t[i].reference = u[i].reference /\ t[j].reference = u[j].reference
            /\ t[i].type = u[i].type /\ t[j].type = u[j].type
        BY <1>3, <2>1
      <4>. QED
        BY <1>6, <4>1
    <3>2. \A k, l \in DOMAIN t :
             /\ t[k].reference = t[l].reference
             /\ {t[k].type, t[l].type} \subseteq Settlement \/ {t[k].type, t[l].type} = {"REFUND"}
             => k = l
      BY DEF LedgerOK
    <3>. QED
      BY <2>1, <3>1, <3>2
  <2>2. ASSUME NEW k \in DOMAIN t, u[k].reference = e.reference,
               {u[k].type, e.type} \subseteq Settlement \/ {u[k].type, e.type} = {"REFUND"}
        PROVE  FALSE
    <3>1. t[k].reference = e.reference /\ t[k].type = u[k].type
      BY <1>3, <2>2
    <3>2. CASE t[k].type \in Settlement /\ e.type \in Settlement
      BY <3>1, <3>2 DEF LedgerOK, EntryFits
    <3>3. CASE t[k].type = "REFUND" /\ e.type = "REFUND"
      BY <3>1, <3>3 DEF EntryFits
    <3>. QED
      BY <2>2, <3>1, <3>2, <3>3
  <2>. QED
    BY <1>2, <1>4, <1>6, <2>1, <2>2
<1>. QED
  BY <1>5, <1>6 DEF LedgerOK

\* Only an authorization adds a hold.
LEMMA ExtendedHolds ==
    ASSUME NEW t \in Seq(Entry), NEW u \in Seq(Entry), NEW e, Extended(t, u, e)
    PROVE  /\ IsFiniteSet(HoldsIn(t)) /\ Cardinality(HoldsIn(t)) \in Nat
           /\ Cardinality(HoldsIn(u)) =
                 IF e.type = "AUTH_HOLD" THEN Cardinality(HoldsIn(t)) + 1
                 ELSE Cardinality(HoldsIn(t))
<1>. DEFINE n == Len(t) + 1
<1>1. Len(t) \in Nat /\ DOMAIN t = 1..Len(t) /\ DOMAIN u = 1..n /\ u[n] = e
      /\ \A i \in 1..Len(t) : u[i].type = t[i].type
  BY SMT DEF Extended
<1>2. HoldsIn(t) \in SUBSET (1..Len(t))
  BY <1>1 DEF HoldsIn
<1>3. IsFiniteSet(1..Len(t))
  BY <1>1, FS_Interval, SMT
<1>4. IsFiniteSet(HoldsIn(t)) /\ Cardinality(HoldsIn(t)) \in Nat
  BY <1>2, <1>3, FS_Subset, FS_CardinalityType
<1>5. n \notin HoldsIn(t) /\ HoldsIn(u) = HoldsIn(t) \cup (IF e.type = "AUTH_HOLD" THEN {n} ELSE {})
  <2>1. n \notin 1..Len(t) /\ 1..n = 1..Len(t) \cup {n}
    BY <1>1, SMT
  <2>. HIDE DEF n
  <2>. QED
    BY <1>1, <1>2, <2>1 DEF HoldsIn
<1>6. Cardinality(HoldsIn(t) \cup {n}) =
          IF n \in HoldsIn(t) THEN Cardinality(HoldsIn(t)) ELSE Cardinality(HoldsIn(t)) + 1
  BY <1>4, FS_AddElement
<1>7. CASE e.type = "AUTH_HOLD"
  BY <1>4, <1>5, <1>6, <1>7
<1>8. CASE e.type # "AUTH_HOLD"
  <2>1. HoldsIn(u) = HoldsIn(t)
    BY <1>5, <1>8
  <2>. QED
    BY <1>4, <1>8, <2>1
<1>. QED
  BY <1>7, <1>8

\* What the commit of c leaves of what another open transaction decided on: the
\* two hold different rows.
LEMMA CommitOthers ==
    ASSUME BankInv, NEW c \in Calls, Commit(c), NEW d \in Calls \ {c}
    PROVE  OpenInv(d)'
<1>. DEFINE e == entry[c]
            o == entry[d]
<1>1. /\ pc[c] = "commit" /\ Committed(e) /\ Unlock(c) /\ refused' = refused
      /\ request' = request /\ entry' = [entry EXCEPT ![c] = NoEntry]
      /\ pc'[d] = pc[d]
  BY DEF Commit, GoTo, Answer, BankInv, BankTypeOK
<1>2. /\ EntryFits(transactions, e) /\ request[c] \in BankRequests
      /\ e.type = TransactionType(request[c].path) /\ e.reference = request[c].reference
      /\ locks[DecisiveRow(request[c])] = c /\ locks[AccountRow(e.account)] = c
  BY <1>1, CommittingEntry
<1>3. Extended(transactions, transactions', e)
  BY <1>1, CommittedLedger
<1>4. OpenInv(d)
  BY DEF BankInv
<1>5. CASE pc[d] \notin Open
  BY <1>1, <1>5 DEF OpenInv
<1>6. CASE pc[d] \in Open
  <2>1. DecisiveRow(request[d]) \in Rows /\ AccountRow(o.account) \in Rows
    BY <1>6, OpenRows
  <2>2. /\ locks[DecisiveRow(request[d])] = d
        /\ pc[d] = "commit" => locks[AccountRow(o.account)] = d
    BY <1>4, <1>6 DEF OpenInv
  <2>3. /\ locks'[DecisiveRow(request[d])] = d
        /\ pc[d] = "commit" => locks'[AccountRow(o.account)] = d
    BY <1>1, <2>1, <2>2 DEF Unlock
  <2>4. entry'[d] = o /\ request'[d] = request[d]
    BY <1>1 DEF BankInv, BankTypeOK
  <2>5. o.type = "AUTH_HOLD" => balances'[o.account] = balances[o.account]
    <3>1. SUFFICES ASSUME o.type = "AUTH_HOLD" PROVE balances'[o.account] = balances[o.account]
      OBVIOUS
    <3>2. request[d].path = "authorizations" /\ o.account = request[d].account
      BY <1>4, <1>6, <3>1 DEF OpenInv, TransactionType
    <3>3. locks[AccountRow(o.account)] = d
      BY <2>2, <3>2 DEF DecisiveRow
    <3>4. o.account # e.account
      BY <1>2, <3>3
    <3>. QED
      BY <1>1, <3>4, SMT DEF Committed, BankInv, BankTypeOK
  <2>6. o.type # "AUTH_HOLD" /\ e.type # "AUTH_HOLD" => o.reference # e.reference
    <3>1. SUFFICES ASSUME o.type # "AUTH_HOLD", e.type # "AUTH_HOLD", o.reference = e.reference
                   PROVE  FALSE
      OBVIOUS
    <3>2. /\ request[d].path # "authorizations" /\ request[d].reference = o.reference
          /\ request[c].path # "authorizations"
      BY <1>2, <1>4, <1>6, <3>1 DEF OpenInv, TransactionType
    <3>3. DecisiveRow(request[d]) = DecisiveRow(request[c])
      BY <1>2, <3>1, <3>2 DEF DecisiveRow
    <3>. QED
      BY <1>2, <2>2, <3>3
  <2>7. o.type # "AUTH_HOLD" =>
           /\ o.reference \in DOMAIN transactions'
           /\ transactions'[o.reference].type = transactions[o.reference].type
           /\ transactions'[o.reference].account = transactions[o.reference].account
           /\ transactions'[o.reference].amount = transactions[o.reference].amount
           /\ transactions'[o.reference].status = transactions[o.reference].status
    <3>1. DOMAIN transactions = 1..Len(transactions) /\ Len(transactions) \in Nat
      BY LedgerFits, SMT
    <3>2. o.type # "AUTH_HOLD" => o.reference \in 1..Len(transactions)
      BY <1>4, <1>6, <3>1 DEF OpenInv
    <3>3. e.type \in Settlement => e.type # "AUTH_HOLD"
      BY DEF Settlement
    <3>4. o.type # "AUTH_HOLD" => o.reference \in DOMAIN transactions'
      BY <1>3, <3>1, <3>2, SMT DEF Extended
    <3>. QED
      BY <1>3, <2>6, <3>2, <3>3, <3>4 DEF Extended
  <2>8. o.type = "REFUND" /\ pc[d] # "create" => ~ IsReferenced(o.reference, "REFUND")'
    <3>1. SUFFICES ASSUME o.type = "REFUND", pc[d] # "create",
                          NEW i \in DOMAIN transactions',
                          transactions'[i].reference = o.reference,
                          transactions'[i].type = "REFUND"
                   PROVE  FALSE
      BY <2>4 DEF IsReferenced
    <3>2. DOMAIN transactions = 1..Len(transactions) /\ Len(transactions) \in Nat
      BY LedgerFits, SMT
    <3>3. i \in DOMAIN transactions \/ i = Len(transactions) + 1
      BY <1>3, <3>2, SMT DEF Extended
    <3>4. CASE i \in DOMAIN transactions
      <4>1. transactions[i].reference = o.reference /\ transactions[i].type = "REFUND"
        BY <1>3, <3>1, <3>2, <3>4 DEF Extended
      <4>. QED
        BY <1>4, <1>6, <3>1, <3>4, <4>1 DEF OpenInv, IsReferenced
    <3>5. CASE i = Len(transactions) + 1
      <4>1. transactions'[i] = e
        BY <1>3, <3>5 DEF Extended
      <4>. QED
        BY <2>6, <3>1, <4>1
    <3>. QED
      BY <3>3, <3>4, <3>5
  <2>9. o.type \in Settlement \cup {"CAPTURE", "REFUND"} => o.type # "AUTH_HOLD"
    BY DEF Settlement
  <2>10. pc'[d] = pc[d] /\ refused' = refused
    BY <1>1
  <2>11. locks'[DecisiveRow(request[d])'] = d
    BY <2>3, <2>4 DEF DecisiveRow
  <2>. QED
    BY <1>4, <1>6, <2>3, <2>4, <2>5, <2>7, <2>8, <2>9, <2>10, <2>11 DEF OpenInv
<1>. QED
  BY <1>5, <1>6

\* A commit makes entry, hold status and balances visible at once and frees the rows.
LEMMA CommitStep ==
    ASSUME BankInv, NEW c \in Calls, Commit(c)
    PROVE  BankInv'
<1>. DEFINE e == entry[c]
            n == Len(transactions) + 1
<1>1. /\ pc[c] = "commit" /\ Committed(e) /\ Unlock(c)
      /\ request' = request /\ entry' = [entry EXCEPT ![c] = NoEntry]
      /\ origin' = Append(origin, BankSlot(request[c]))
      /\ idempotencyKeys' = idempotencyKeys /\ served' = served /\ refused' = refused
  BY DEF Commit
<1>2. /\ EntryFits(transactions, e) /\ request[c] \in BankRequests /\ e \in Entry
      /\ e.type = TransactionType(request[c].path) /\ e.reference = request[c].reference
      /\ e.type = "AUTH_HOLD" => e.amount = request[c].amount
      /\ e.type = "AUTH_HOLD" => e.amount <= balances[e.account].available
  BY <1>1, CommittingEntry
<1>3. Extended(transactions, transactions', e) /\ transactions' \in Seq(Entry)
  BY <1>1, CommittedLedger
<1>4. /\ transactions \in Seq(Entry) /\ LedgerOK(transactions)
      /\ DOMAIN transactions = 1..Len(transactions) /\ Len(transactions) \in Nat
      /\ Len(transactions') = n /\ DOMAIN transactions' = 1..n /\ n \in Nat
  <2>1. transactions \in Seq(Entry) /\ LedgerOK(transactions)
    BY DEF BankInv, BankTypeOK
  <2>2. DOMAIN transactions = 1..Len(transactions) /\ Len(transactions) \in Nat
    BY ONLY <2>1, SMT
  <2>3. Len(transactions') = n /\ DOMAIN transactions' = 1..n
    BY <1>3 DEF Extended
  <2>. QED
    BY <2>1, <2>2, <2>3, SMT
<1>5. LedgerOK(transactions')
  BY <1>2, <1>3, <1>4, ExtendedLedger
<1>6. pc' \in [Calls -> {"idle", "lookup", "handle", "lock", "create", "adjust", "commit",
                         "store", "respond"}]
      /\ pc'[c] \in {"store", "respond"}
      /\ \A d \in Calls \ {c} : pc'[d] = pc[d]
  BY DEF Commit, GoTo, Answer, BankInv, BankTypeOK
<1>7. CountInv' /\ Cardinality(HoldsIn(transactions')) <= MaxHolds
  <2>1. /\ IsFiniteSet(HoldsIn(transactions)) /\ Cardinality(HoldsIn(transactions)) \in Nat
        /\ Cardinality(HoldsIn(transactions')) =
              IF e.type = "AUTH_HOLD" THEN Cardinality(HoldsIn(transactions)) + 1
              ELSE Cardinality(HoldsIn(transactions))
    BY <1>3, <1>4, ExtendedHolds
  <2>2. IsFiniteSet(Arriving) /\ Cardinality(Arriving) \in Nat
    BY LedgerFits
  <2>3. Arriving' = Arriving \ {c}
    BY <1>1, <1>6 DEF Arriving, Authorizing
  <2>4. e.type = "AUTH_HOLD" => c \in Arriving
    BY <1>1, <1>2 DEF Arriving, Authorizing, TransactionType
  <2>5. /\ IsFiniteSet(Arriving \ {c})
        /\ Cardinality(Arriving \ {c}) =
              IF c \in Arriving THEN Cardinality(Arriving) - 1 ELSE Cardinality(Arriving)
    BY <2>2, FS_RemoveElement
  <2>6. Cardinality(Arriving \ {c}) \in Nat
    BY <2>5, FS_CardinalityType
  <2>7. Cardinality(HoldsIn(transactions)) + Cardinality(Arriving) <= MaxHolds
    BY DEF BankInv, CountInv
  <2>8. HoldsIn(transactions)' = HoldsIn(transactions')
    BY DEF HoldsIn
  <2>9. Cardinality(HoldsIn(transactions')) + Cardinality(Arriving \ {c}) <= MaxHolds
    BY <2>1, <2>2, <2>4, <2>5, <2>7, MaxHoldsAssumption, SMT
  <2>10. Cardinality(HoldsIn(transactions')) \in Nat
    BY <2>1, SMT
  <2>11. Cardinality(HoldsIn(transactions')) <= MaxHolds
    BY <2>6, <2>9, <2>10, MaxHoldsAssumption, SMT
  <2>. QED
    BY <2>3, <2>8, <2>9, <2>11 DEF CountInv
<1>8. n <= MaxTransactions
  BY <1>3, <1>4, <1>5, <1>7, LedgerLength
<1>9. /\ Len(origin') = n /\ origin' \in Seq(BankSlots) /\ origin'[n] = BankSlot(request[c])
      /\ \A i \in DOMAIN transactions : origin'[i] = origin[i]
  <2>1. origin \in Seq(BankSlots) /\ Len(origin) = Len(transactions)
    BY DEF BankInv, BankTypeOK, OriginInv
  <2>2. BankSlot(request[c]) \in BankSlots
    BY <1>2, RequestFacts
  <2>. QED
    BY <1>1, <1>4, <2>1, <2>2, SMT
<1>10. \A id, slot : IsEntryOf(id, slot) => IsEntryOf(id, slot)'
  <2>. SUFFICES ASSUME NEW id, NEW slot, IsEntryOf(id, slot) PROVE IsEntryOf(id, slot)'
    OBVIOUS
  <2>1. id \in DOMAIN transactions /\ origin[id] = slot
    BY DEF IsEntryOf
  <2>2. id \in 1..n
    BY <1>4, <2>1, SMT
  <2>3. origin'[id] = slot
    BY <1>9, <2>1
  <2>. QED
    BY <1>4, <2>2, <2>3 DEF IsEntryOf
<1>11. OnlyCall(c)
  BY <1>1, <1>6 DEF OnlyCall, Commit, Answer, Unlock, BankInv, BankTypeOK
<1>12. \A d \in Calls \ {c} : RequestInv(d)' /\ OpenInv(d)' /\ AnswerInv(d)'
  BY <1>10, <1>11, OthersAnswers, CommitOthers
<1>13. /\ response' \in [Calls -> Response] /\ caching' \in [Calls -> BOOLEAN]
       /\ \/ response'[c] = Success(n)
          \/ pc'[c] = "respond" /\ response'[c] = Failure("internal_error")
  <2>1. Success(n) \in Response /\ Failure("internal_error") \in Response
    <3>1. n \in 0..MaxTransactions
      BY <1>4, <1>8, LedgerFits, SMT
    <3>2. "internal_error" \in BankCodes
      BY DEF BankCodes
    <3>. QED
      BY <3>1, <3>2, BankTypes
  <2>2. Success(Len(transactions')) = Success(n)
    BY <1>4
  <2>3. /\ c \in DOMAIN pc /\ response \in [Calls -> Response]
        /\ caching \in [Calls -> BOOLEAN]
    BY DEF BankInv, BankTypeOK
  <2>4. CASE response' = [response EXCEPT ![c] = Success(Len(transactions'))] /\ UNCHANGED caching
    BY <2>1, <2>2, <2>3, <2>4
  <2>5. CASE Answer(c, Failure("internal_error"))
    BY <2>1, <2>3, <2>5 DEF Answer, GoTo
  <2>. QED
    BY <2>4, <2>5 DEF Commit
<1>14. RequestInv(c)' /\ OpenInv(c)' /\ AnswerInv(c)'
  <2>1. n \in DOMAIN transactions' /\ origin'[n] = BankSlot(request'[c])
    <3>1. n \in 1..n
      BY <1>4, SMT
    <3>2. request'[c] = request[c]
      BY <1>1
    <3>. QED
      BY <1>4, <1>9, <3>1, <3>2
  <2>2. AnswerInv(c)'
    <3>1. CASE response'[c] = Success(n)
      <4>1. response'[c].id = n /\ response'[c].error = ""
        BY <3>1, BankTypes
      <4>. QED
        BY <2>1, <4>1 DEF AnswerInv, IsEntryOf, BankSlot
    <3>2. CASE pc'[c] = "respond" /\ response'[c] = Failure("internal_error")
      BY <3>2, BankTypes DEF AnswerInv
    <3>. QED
      BY <1>13, <3>1, <3>2
  <2>. QED
    BY <1>1, <1>2, <1>6, <2>2 DEF RequestInv, OpenInv, Open
<1>15. NoOverdraft' /\ balances' \in [Accounts -> [balance : Int, available : Int]]
  <2>1. balances \in [Accounts -> [balance : Int, available : Int]] /\ NoOverdraft
    BY DEF BankInv, BankTypeOK
  <2>2. e.account \in Accounts /\ e.amount \in Nat
    BY <1>2 DEF EntryFits
  <2>3. BalanceDelta(e) \in [balance : Int, available : Int]
    BY <2>2, SMT DEF BalanceDelta
  <2>4. balances[e.account].available + BalanceDelta(e).available >= 0
    <3>1. balances[e.account].available \in Int /\ balances[e.account].available >= 0
      BY <2>1, <2>2 DEF NoOverdraft
    <3>2. BalanceDelta(e).available \in Int
          /\ BalanceDelta(e).available >= (IF e.type = "AUTH_HOLD" THEN - e.amount ELSE 0)
      BY <2>2, SMT DEF BalanceDelta
    <3>3. PICK a \in Int, d \in Int, m \in Nat :
              /\ a = balances[e.account].available /\ d = BalanceDelta(e).available
              /\ m = e.amount
      BY <2>2, <3>1, <3>2
    <3>4. /\ a >= 0 /\ d >= (IF e.type = "AUTH_HOLD" THEN - m ELSE 0)
          /\ e.type = "AUTH_HOLD" => m <= a
      BY <1>2, <3>1, <3>2, <3>3
    <3>5. a + d >= 0
      BY <3>3, <3>4, SMT
    <3>. QED
      BY <3>3, <3>5
  <2>5. balances' = [balances EXCEPT ![e.account] =
                       [balance |-> balances[e.account].balance + BalanceDelta(e).balance,
                        available |-> balances[e.account].available + BalanceDelta(e).available]]
    BY <1>1 DEF Committed
  <2>6. balances' \in [Accounts -> [balance : Int, available : Int]]
    <3>1. [balance |-> balances[e.account].balance + BalanceDelta(e).balance,
           available |-> balances[e.account].available + BalanceDelta(e).available]
          \in [balance : Int, available : Int]
      <4>1. /\ balances[e.account].balance \in Int /\ balances[e.account].available \in Int
            /\ BalanceDelta(e).balance \in Int /\ BalanceDelta(e).available \in Int
        BY <2>1, <2>2, <2>3
      <4>2. PICK total \in Int, free \in Int :
                /\ total = balances[e.account].balance + BalanceDelta(e).balance
                /\ free = balances[e.account].available + BalanceDelta(e).available
        BY <4>1, SMT
      <4>. QED
        BY <4>2
    <3>. QED
      BY <2>1, <2>5, <3>1
  <2>7. NoOverdraft'
    BY <2>1, <2>2, <2>4, <2>5 DEF NoOverdraft
  <2>. QED
    BY <2>6, <2>7
<1>16. BankTypeOK'
  <2>1. locks' \in [Rows -> Calls \cup {NoCall}] /\ entry' \in [Calls -> Entry]
    BY <1>1, BankTypes DEF Unlock, BankInv, BankTypeOK
  <2>. QED
    BY <1>1, <1>3, <1>6, <1>9, <1>13, <1>15, <2>1 DEF BankInv, BankTypeOK
<1>17. OriginInv'
  <2>1. ASSUME NEW i \in DOMAIN transactions'
        PROVE  \E r \in BankRequests :
                  /\ origin'[i] = BankSlot(r)
                  /\ transactions'[i].type = TransactionType(r.path)
                  /\ transactions'[i].reference = r.reference
                  /\ transactions'[i].type = "AUTH_HOLD" => transactions'[i].amount = r.amount
    <3>1. CASE i \in DOMAIN transactions
      <4>1. PICK r \in BankRequests :
               /\ origin[i] = BankSlot(r)
               /\ transactions[i].type = TransactionType(r.path)
               /\ transactions[i].reference = r.reference
               /\ transactions[i].type = "AUTH_HOLD" => transactions[i].amount = r.amount
        BY <3>1 DEF BankInv, OriginInv
      <4>2. /\ transactions'[i].type = transactions[i].type
            /\ transactions'[i].reference = transactions[i].reference
            /\ transactions'[i].amount = transactions[i].amount
        BY <1>3, <1>4, <3>1 DEF Extended
      <4>. QED
        BY <1>9, <3>1, <4>1, <4>2
    <3>2. CASE i = n
      <4>1. transactions'[i] = e
        BY <1>3, <3>2 DEF Extended
      <4>. QED
        BY <1>2, <1>9, <3>2, <4>1
    <3>3. i \in 1..Len(transactions) \/ i = n
      BY <1>4, <2>1, SMT
    <3>. QED
      BY <1>4, <3>1, <3>2, <3>3
  <2>. QED
    BY <1>4, <1>9, <2>1 DEF OriginInv, BankSlot, TransactionType
<1>18. HistoryInv'
  <2>1. \A i \in refused : i \in DOMAIN transactions' /\ transactions'[i].expired
    <3>1. \A i \in refused : i \in DOMAIN transactions /\ transactions[i].expired
      BY DEF BankInv, HistoryInv
    <3>2. \A i \in DOMAIN transactions :
             i \in DOMAIN transactions' /\ transactions'[i].expired = transactions[i].expired
      <4>1. \A i \in 1..Len(transactions) :
               transactions'[i].expired = transactions[i].expired
        BY <1>3 DEF Extended
      <4>2. \A i \in 1..Len(transactions) : i \in 1..n
        BY <1>4, SMT
      <4>. QED
        BY <1>4, <4>1, <4>2
    <3>. QED
      BY <3>1, <3>2
  <2>. QED
    BY <1>1, <1>10, <2>1 DEF BankInv, HistoryInv
<1>. QED
  BY <1>5, <1>7, <1>12, <1>14, <1>15, <1>16, <1>17, <1>18 DEF BankInv, LedgerOK

----------------------------------------------------------------------------
(* Answers, time and cleanup *)

\* The first response stored under a key and path stays.
LEMMA StoreStep ==
    ASSUME BankInv, NEW c \in Calls, Store(c)
    PROVE  BankInv'
<1>. DEFINE slot == BankSlot(request[c])
<1>1. /\ pc[c] = "store" /\ Answer(c, response[c])
      /\ balances' = balances /\ transactions' = transactions /\ locks' = locks
      /\ request' = request /\ entry' = entry
      /\ served' = served /\ origin' = origin /\ refused' = refused
  BY DEF Store, history
<1>2. request[c] \in BankRequests /\ slot \in BankSlots
  BY <1>1, RequestFacts DEF BankInv, RequestInv
<1>3. response[c] \in Response /\ response[c].error = "" /\ IsEntryOf(response[c].id, slot)
  BY <1>1 DEF BankInv, BankTypeOK, AnswerInv
<1>4. /\ idempotencyKeys' \in [BankSlots -> [response : Response, old : BOOLEAN]]
      /\ \A s \in BankSlots :
            \/ idempotencyKeys'[s].response = idempotencyKeys[s].response
            \/ s = slot /\ idempotencyKeys'[s].response = response[c]
  <2>. DEFINE v == IF idempotencyKeys[slot].response = NoResponse
                   THEN [response |-> response[c], old |-> FALSE] ELSE idempotencyKeys[slot]
  <2>1. idempotencyKeys \in [BankSlots -> [response : Response, old : BOOLEAN]]
    BY DEF BankInv, BankTypeOK
  <2>2. v \in [response : Response, old : BOOLEAN]
    BY <1>2, <1>3, <2>1
  <2>3. v.response \in {idempotencyKeys[slot].response, response[c]}
    OBVIOUS
  <2>4. CASE StoreKey(c)
    <3>1. idempotencyKeys' = [idempotencyKeys EXCEPT ![slot] = v]
      BY <2>4 DEF StoreKey
    <3>. HIDE DEF v
    <3>. QED
      BY <1>2, <2>1, <2>2, <2>3, <3>1
  <2>5. CASE idempotencyKeys' = idempotencyKeys
    BY <2>1, <2>5
  <2>. QED
    BY <2>4, <2>5 DEF Store
<1>5. OnlyCall(c)
  BY <1>1 DEF OnlyCall, Answer, GoTo, BankInv, BankTypeOK
<1>6. BankTypeOK'
  BY <1>1, <1>3, <1>4 DEF Answer, GoTo, BankInv, BankTypeOK
<1>7. pc'[c] = "respond" /\ response'[c] = response[c]
  BY <1>1 DEF Answer, GoTo, BankInv, BankTypeOK
<1>8. \A id, s : IsEntryOf(id, s)' <=> IsEntryOf(id, s)
  BY <1>1 DEF IsEntryOf
<1>9. RequestInv(c)' /\ OpenInv(c)' /\ AnswerInv(c)'
  BY <1>1, <1>2, <1>3, <1>7, <1>8 DEF RequestInv, OpenInv, AnswerInv, Open, BankSlot
<1>10. \A d \in Calls \ {c} : RequestInv(d)' /\ OpenInv(d)' /\ AnswerInv(d)'
  BY <1>1, <1>5, <1>8, OthersOpen, OthersAnswers
<1>11. LedgerOK(transactions)' /\ OriginInv' /\ NoOverdraft'
  <2>1. LedgerOK(transactions)'
    BY <1>1, SameLedger
  <2>2. OriginInv'
    BY <1>1 DEF BankInv, OriginInv
  <2>3. NoOverdraft'
    BY <1>1 DEF BankInv, NoOverdraft
  <2>. QED
    BY <2>1, <2>2, <2>3
<1>12. HistoryInv'
  <2>1. HistoryInv
    BY DEF BankInv
  <2>2. ASSUME NEW s \in BankSlots, idempotencyKeys'[s].response # NoResponse
        PROVE  /\ idempotencyKeys'[s].response.error = ""
               /\ IsEntryOf(idempotencyKeys'[s].response.id, s)
    BY <1>3, <1>4, <2>1, <2>2 DEF HistoryInv
  <2>. QED
    BY <1>1, <1>8, <2>1, <2>2 DEF HistoryInv
<1>13. CountInv'
  <2>1. Arriving' \subseteq Arriving
    BY <1>1 DEF Arriving, Authorizing, Answer, GoTo, BankInv, BankTypeOK
  <2>. QED
    BY <1>1, <2>1, CountKept
<1>. QED
  BY <1>6, <1>9, <1>10, <1>11, <1>12, <1>13 DEF BankInv

\* The caller hears the answer.
LEMMA BankRespondStep ==
    ASSUME BankInv, NEW c \in Calls, BankRespond(c)
    PROVE  BankInv'
<1>. DEFINE r == request[c]
<1>1. /\ pc[c] = "respond" /\ EndCall(c)
      /\ balances' = balances /\ transactions' = transactions /\ locks' = locks
      /\ idempotencyKeys' = idempotencyKeys /\ origin' = origin /\ refused' = refused
  BY DEF BankRespond
<1>2. r \in BankRequests /\ BankSlot(r) \in BankSlots /\ r.reference \in Nat
  BY <1>1, RequestFacts DEF BankInv, RequestInv, BankRequestShape
<1>3. response[c].error = "" =>
         IsEntryOf(response[c].id, BankSlot(r)) /\ response[c].id \in 1..MaxTransactions
  <2>1. response[c].error = "" => IsEntryOf(response[c].id, BankSlot(r))
    BY <1>1 DEF BankInv, AnswerInv
  <2>. QED
    BY <2>1, LedgerFits DEF IsEntryOf
<1>4. OnlyCall(c)
  BY <1>1 DEF OnlyCall, EndCall, GoTo, BankInv, BankTypeOK
<1>5. \A x \in served' :
         \/ x \in served
         \/ /\ response[c].error = ""
            /\ x = [slot |-> BankSlot(r), reference |-> r.reference, id |-> response[c].id]
  BY DEF BankRespond
<1>6. served' \subseteq [slot : BankSlots, reference : Nat, id : 1..MaxTransactions]
  <2>1. response[c].error = "" =>
           [slot |-> BankSlot(r), reference |-> r.reference, id |-> response[c].id]
              \in [slot : BankSlots, reference : Nat, id : 1..MaxTransactions]
    BY <1>2, <1>3
  <2>2. served \subseteq [slot : BankSlots, reference : Nat, id : 1..MaxTransactions]
    BY DEF BankInv, BankTypeOK
  <2>. QED
    BY <1>5, <2>1, <2>2
<1>7. BankTypeOK'
  BY <1>1, <1>6, BankTypes DEF EndCall, GoTo, BankInv, BankTypeOK
<1>8. pc'[c] = "idle" /\ request'[c] = NoBankRequest
  BY <1>1 DEF EndCall, GoTo, BankInv, BankTypeOK
<1>9. \A id, s : IsEntryOf(id, s)' <=> IsEntryOf(id, s)
  BY <1>1 DEF IsEntryOf
<1>10. RequestInv(c)' /\ OpenInv(c)' /\ AnswerInv(c)'
  BY <1>8 DEF RequestInv, OpenInv, AnswerInv, Open
<1>11. \A d \in Calls \ {c} : RequestInv(d)' /\ OpenInv(d)' /\ AnswerInv(d)'
  BY <1>1, <1>4, <1>9, OthersOpen, OthersAnswers
<1>12. LedgerOK(transactions)' /\ OriginInv' /\ NoOverdraft'
  <2>1. LedgerOK(transactions)'
    BY <1>1, SameLedger
  <2>2. OriginInv'
    BY <1>1 DEF BankInv, OriginInv
  <2>3. NoOverdraft'
    BY <1>1 DEF BankInv, NoOverdraft
  <2>. QED
    BY <2>1, <2>2, <2>3
<1>13. HistoryInv'
  <2>1. HistoryInv
    BY DEF BankInv
  <2>2. ASSUME NEW x \in served'
        PROVE  /\ IsEntryOf(x.id, x.slot)
               /\ \E q \in BankRequests : x.slot = BankSlot(q) /\ x.reference = q.reference
    <3>1. CASE x \in served
      BY <2>1, <3>1 DEF HistoryInv
    <3>2. CASE /\ response[c].error = ""
               /\ x = [slot |-> BankSlot(r), reference |-> r.reference, id |-> response[c].id]
      <4>1. x.slot = BankSlot(r) /\ x.reference = r.reference /\ x.id = response[c].id
        BY <3>2
      <4>. QED
        BY <1>2, <1>3, <3>2, <4>1
    <3>. QED
      BY <1>5, <3>1, <3>2
  <2>. QED
    BY <1>1, <1>9, <2>1, <2>2 DEF HistoryInv
<1>14. CountInv'
  <2>1. Arriving' \subseteq Arriving
    BY <1>1, BankTypes DEF Arriving, Authorizing, EndCall, GoTo, BankInv, BankTypeOK
  <2>. QED
    BY <1>1, <2>1, CountKept
<1>. QED
  BY <1>7, <1>10, <1>11, <1>12, <1>13, <1>14 DEF BankInv

\* The cached responses that remain are ones that were there.
LEMMA CacheStep ==
    ASSUME BankInv, UNCHANGED <<balances, transactions, locks, callVars, history>>,
           idempotencyKeys' \in [BankSlots -> [response : Response, old : BOOLEAN]],
           \A s \in BankSlots :
              idempotencyKeys'[s].response \in {idempotencyKeys[s].response, NoResponse}
    PROVE  BankInv'
<1>1. /\ balances' = balances /\ transactions' = transactions /\ locks' = locks
      /\ pc' = pc /\ request' = request /\ caching' = caching /\ entry' = entry
      /\ response' = response /\ served' = served /\ origin' = origin /\ refused' = refused
  BY DEF callVars, history
<1>2. BankTypeOK'
  BY <1>1 DEF BankInv, BankTypeOK
<1>3. \A id, s : IsEntryOf(id, s)' <=> IsEntryOf(id, s)
  BY <1>1 DEF IsEntryOf
<1>4. ASSUME NEW d \in Calls PROVE RequestInv(d)' /\ OpenInv(d)' /\ AnswerInv(d)'
  <2>1. RequestInv(d) /\ OpenInv(d) /\ AnswerInv(d)
    BY DEF BankInv
  <2>2. RequestInv(d)'
    BY <1>1, <2>1 DEF RequestInv, ValidationError
  <2>3. OpenInv(d)'
    BY <1>1, <2>1 DEF OpenInv, IsReferenced, DecisiveRow
  <2>4. AnswerInv(d)'
    BY <1>1, <1>3, <2>1 DEF AnswerInv, BankSlot
  <2>. QED
    BY <2>2, <2>3, <2>4
<1>5. LedgerOK(transactions)' /\ OriginInv' /\ NoOverdraft'
  <2>1. LedgerOK(transactions)'
    BY <1>1, SameLedger
  <2>2. OriginInv'
    BY <1>1 DEF BankInv, OriginInv
  <2>3. NoOverdraft'
    BY <1>1 DEF BankInv, NoOverdraft
  <2>. QED
    BY <2>1, <2>2, <2>3
<1>6. HistoryInv'
  BY <1>1, <1>3 DEF BankInv, HistoryInv
<1>7. CountInv'
  <2>1. Arriving' \subseteq Arriving
    BY <1>1 DEF Arriving, Authorizing
  <2>. QED
    BY <1>1, <2>1, CountKept
<1>. QED
  BY <1>2, <1>4, <1>5, <1>6, <1>7 DEF BankInv

\* A remembered response grows old.
LEMMA DayPassesStep ==
    ASSUME BankInv, DayPasses
    PROVE  BankInv'
<1>1. /\ idempotencyKeys' \in [BankSlots -> [response : Response, old : BOOLEAN]]
      /\ \A s \in BankSlots : idempotencyKeys'[s].response = idempotencyKeys[s].response
  <2>1. \A s \in BankSlots : idempotencyKeys[s] \in [response : Response, old : BOOLEAN]
    BY DEF BankInv, BankTypeOK
  <2>2. ASSUME NEW s \in BankSlots
        PROVE  /\ idempotencyKeys'[s] \in [response : Response, old : BOOLEAN]
               /\ idempotencyKeys'[s].response = idempotencyKeys[s].response
    BY <2>1 DEF DayPasses
  <2>3. idempotencyKeys' = [s \in BankSlots |-> idempotencyKeys'[s]]
    BY DEF DayPasses
  <2>. QED
    BY <2>2, <2>3
<1>. QED
  BY <1>1, CacheStep DEF DayPasses

\* Old responses are deleted.
LEMMA CleanupStep ==
    ASSUME BankInv, CleanupIdempotencyKeys
    PROVE  BankInv'
<1>1. /\ idempotencyKeys' \in [BankSlots -> [response : Response, old : BOOLEAN]]
      /\ \A s \in BankSlots :
            idempotencyKeys'[s].response \in {idempotencyKeys[s].response, NoResponse}
  BY BankTypes DEF CleanupIdempotencyKeys, BankInv, BankTypeOK
<1>. QED
  BY <1>1, CacheStep DEF CleanupIdempotencyKeys

\* The expiry of a hold changes nothing that an open transaction decided on.
LEMMA ExpireHoldStep ==
    ASSUME BankInv, NEW id \in 1..MaxTransactions, ExpireHold(id)
    PROVE  BankInv'
<1>1. /\ balances' = balances /\ idempotencyKeys' = idempotencyKeys /\ locks' = locks
      /\ pc' = pc /\ request' = request /\ caching' = caching /\ entry' = entry
      /\ response' = response /\ served' = served /\ origin' = origin /\ refused' = refused
  BY DEF ExpireHold, callVars, history
<1>2. transactions \in Seq(Entry) /\ id \in DOMAIN transactions
  BY DEF BankInv, BankTypeOK, ExpireHold
<1>3. [transactions[id] EXCEPT !.expired = TRUE] \in Entry
  <2>1. transactions[id] \in Entry
    BY <1>2, SMT
  <2>. QED
    BY <2>1 DEF Entry
<1>4. transactions' = [transactions EXCEPT ![id] = [transactions[id] EXCEPT !.expired = TRUE]]
  BY DEF ExpireHold
<1>5. /\ transactions' \in Seq(Entry) /\ DOMAIN transactions' = DOMAIN transactions
      /\ Len(transactions') = Len(transactions)
  BY <1>2, <1>3, <1>4, SMT
<1>6. \A i \in DOMAIN transactions :
         /\ transactions'[i].type = transactions[i].type
         /\ transactions'[i].account = transactions[i].account
         /\ transactions'[i].amount = transactions[i].amount
         /\ transactions'[i].reference = transactions[i].reference
         /\ transactions'[i].status = transactions[i].status
         /\ transactions[i].expired => transactions'[i].expired
  <2>1. \A i \in DOMAIN transactions : transactions[i] \in Entry
    BY <1>2, SMT
  <2>. QED
    BY <1>2, <1>4, <2>1 DEF Entry
<1>7. BankTypeOK'
  BY <1>1, <1>5 DEF BankInv, BankTypeOK
<1>8. \A i, s : IsEntryOf(i, s)' <=> IsEntryOf(i, s)
  BY <1>1, <1>5 DEF IsEntryOf
<1>9. ASSUME NEW d \in Calls PROVE RequestInv(d)' /\ OpenInv(d)' /\ AnswerInv(d)'
  <2>1. RequestInv(d) /\ OpenInv(d) /\ AnswerInv(d)
    BY DEF BankInv
  <2>2. RequestInv(d)'
    BY <1>1, <2>1 DEF RequestInv, ValidationError
  <2>3. OpenInv(d)'
    <3>1. \A reference, type : IsReferenced(reference, type)' <=> IsReferenced(reference, type)
      BY <1>5, <1>6 DEF IsReferenced
    <3>2. entry[d].type \in Settlement \cup {"REFUND"} => entry[d].type # "AUTH_HOLD"
      BY DEF Settlement
    <3>. QED
      BY <1>1, <1>5, <1>6, <2>1, <3>1, <3>2 DEF OpenInv, DecisiveRow
  <2>4. AnswerInv(d)'
    BY <1>1, <1>8, <2>1 DEF AnswerInv, BankSlot
  <2>. QED
    BY <2>2, <2>3, <2>4
<1>10. LedgerOK(transactions)'
  <2>1. LedgerOK(transactions)
    BY DEF BankInv
  <2>2. \A i \in DOMAIN transactions : transactions[i].type \in Settlement \cup {"REFUND"} =>
           transactions[i].reference \in DOMAIN transactions
    BY <2>1 DEF LedgerOK, Settlement
  <2>3. LedgerOK(transactions')
    <3>1. ASSUME NEW i \in DOMAIN transactions'
          PROVE  LET u == transactions' IN
                 /\ u[i].type \in TransactionTypes
                 /\ u[i].account \in Accounts
                 /\ u[i].amount \in Nat
                 /\ u[i].type = "AUTH_HOLD" =>
                       u[i].reference = 0 /\ u[i].status \in {"ACTIVE", "COMPLETED"}
                 /\ u[i].type # "AUTH_HOLD" =>
                       u[i].reference \in DOMAIN u /\ u[i].status = "COMPLETED"
                 /\ u[i].type \in Settlement =>
                       u[u[i].reference].type = "AUTH_HOLD" /\ u[u[i].reference].status = "COMPLETED"
                 /\ u[i].type = "REFUND" => u[u[i].reference].type = "CAPTURE"
                 /\ u[i].type = "AUTH_HOLD" /\ u[i].status # "ACTIVE" =>
                       \E j \in DOMAIN u : u[j].type \in Settlement /\ u[j].reference = i
      <4>1. /\ i \in DOMAIN transactions /\ DOMAIN transactions' = DOMAIN transactions
            /\ transactions'[i].type = transactions[i].type
            /\ transactions'[i].account = transactions[i].account
            /\ transactions'[i].amount = transactions[i].amount
            /\ transactions'[i].reference = transactions[i].reference
            /\ transactions'[i].status = transactions[i].status
        BY <1>5, <1>6
      <4>2. transactions[i].type # "AUTH_HOLD" =>
               LET h == transactions[i].reference IN
               /\ h \in DOMAIN transactions
               /\ transactions'[h].type = transactions[h].type
               /\ transactions'[h].status = transactions[h].status
        BY <1>6, <2>1, <4>1 DEF LedgerOK
      <4>3. transactions[i].type = "AUTH_HOLD" /\ transactions[i].status # "ACTIVE" =>
               \E j \in DOMAIN transactions' :
                  transactions'[j].type \in Settlement /\ transactions'[j].reference = i
        <5>. SUFFICES ASSUME transactions[i].type = "AUTH_HOLD", transactions[i].status # "ACTIVE"
                      PROVE  \E j \in DOMAIN transactions' :
                                transactions'[j].type \in Settlement /\ transactions'[j].reference = i
          OBVIOUS
        <5>1. PICK j \in DOMAIN transactions :
                  transactions[j].type \in Settlement /\ transactions[j].reference = i
          BY <2>1, <4>1 DEF LedgerOK
        <5>. QED
          BY <1>5, <1>6, <5>1
      <4>4. transactions[i].type \in Settlement \cup {"REFUND"} =>
               transactions[i].type # "AUTH_HOLD"
        BY DEF Settlement
      <4>5. LET t == transactions IN
            /\ t[i].type \in TransactionTypes /\ t[i].account \in Accounts /\ t[i].amount \in Nat
            /\ t[i].type = "AUTH_HOLD" =>
                  t[i].reference = 0 /\ t[i].status \in {"ACTIVE", "COMPLETED"}
            /\ t[i].type # "AUTH_HOLD" => t[i].status = "COMPLETED"
            /\ t[i].type \in Settlement =>
                  t[t[i].reference].type = "AUTH_HOLD" /\ t[t[i].reference].status = "COMPLETED"
            /\ t[i].type = "REFUND" => t[t[i].reference].type = "CAPTURE"
        BY <2>1, <4>1 DEF LedgerOK
      <4>. QED
        BY <4>1, <4>2, <4>3, <4>4, <4>5
    <3>2. ASSUME NEW i \in DOMAIN transactions', NEW j \in DOMAIN transactions',
                 transactions'[i].reference = transactions'[j].reference,
                 \/ {transactions'[i].type, transactions'[j].type} \subseteq Settlement
                 \/ {transactions'[i].type, transactions'[j].type} = {"REFUND"}
          PROVE  i = j
      <4>1. /\ i \in DOMAIN transactions /\ j \in DOMAIN transactions
            /\ transactions'[i].reference = transactions[i].reference
            /\ transactions'[j].reference = transactions[j].reference
            /\ transactions'[i].type = transactions[i].type
            /\ transactions'[j].type = transactions[j].type
        BY <1>5, <1>6
      <4>2. /\ transactions[i].reference = transactions[j].reference
            /\ \/ {transactions[i].type, transactions[j].type} \subseteq Settlement
               \/ {transactions[i].type, transactions[j].type} = {"REFUND"}
        BY <3>2, <4>1
      <4>. QED
        BY <2>1, <4>1, <4>2 DEF LedgerOK
    <3>. QED
      BY <3>1, <3>2 DEF LedgerOK
  <2>. QED
    BY <2>3 DEF LedgerOK
<1>11. OriginInv' /\ NoOverdraft'
  <2>1. OriginInv'
    <3>1. ASSUME NEW i \in DOMAIN transactions'
          PROVE  \E r \in BankRequests :
                    /\ origin'[i] = BankSlot(r)
                    /\ transactions'[i].type = TransactionType(r.path)
                    /\ transactions'[i].reference = r.reference
                    /\ transactions'[i].type = "AUTH_HOLD" => transactions'[i].amount = r.amount
      <4>1. PICK r \in BankRequests :
               /\ origin[i] = BankSlot(r)
               /\ transactions[i].type = TransactionType(r.path)
               /\ transactions[i].reference = r.reference
               /\ transactions[i].type = "AUTH_HOLD" => transactions[i].amount = r.amount
        BY <1>5 DEF BankInv, OriginInv
      <4>. QED
        BY <1>1, <1>5, <1>6, <4>1
    <3>2. Len(origin') = Len(transactions')
      BY <1>1, <1>5 DEF BankInv, OriginInv
    <3>. QED
      BY <3>1, <3>2 DEF OriginInv, BankSlot, TransactionType
  <2>2. NoOverdraft'
    BY <1>1 DEF BankInv, NoOverdraft
  <2>. QED
    BY <2>1, <2>2
<1>12. HistoryInv'
  BY <1>1, <1>5, <1>6, <1>8 DEF BankInv, HistoryInv
<1>13. CountInv'
  <2>1. Arriving' = Arriving
    BY <1>1 DEF Arriving, Authorizing
  <2>2. HoldsIn(transactions)' = HoldsIn(transactions)
    BY <1>5, <1>6 DEF HoldsIn
  <2>. QED
    BY <2>1, <2>2 DEF BankInv, CountInv
<1>. QED
  BY <1>7, <1>9, <1>10, <1>11, <1>12, <1>13 DEF BankInv

----------------------------------------------------------------------------
(* Theorems *)

\* Empty tables and idle calls satisfy the invariant.
LEMMA BankInvInit == BankInit => BankInv
<1>. SUFFICES ASSUME BankInit PROVE BankInv
  OBVIOUS
<1>1. BankTypeOK
  <2>1. balances \in [Accounts -> [balance : Int, available : Int]]
    BY OpeningAssumption, SMT DEF BankInit
  <2>2. idempotencyKeys \in [BankSlots -> [response : Response, old : BOOLEAN]]
    BY BankTypes DEF BankInit
  <2>3. transactions \in Seq(Entry) /\ origin \in Seq(BankSlots)
    BY SMT DEF BankInit
  <2>. QED
    BY <2>1, <2>2, <2>3, BankTypes DEF BankInit, BankTypeOK
<1>2. LedgerOK(transactions) /\ OriginInv /\ transactions = <<>>
  <2>1. transactions = <<>> /\ origin = <<>> /\ DOMAIN transactions = {}
    BY SMT DEF BankInit
  <2>. QED
    BY <2>1 DEF LedgerOK, OriginInv
<1>3. \A c \in Calls : RequestInv(c) /\ OpenInv(c) /\ AnswerInv(c)
  BY DEF BankInit, RequestInv, OpenInv, AnswerInv, Open
<1>4. HistoryInv
  BY DEF BankInit, HistoryInv
<1>5. CountInv
  <2>1. HoldsIn(transactions) = {}
    BY <1>2, SMT DEF HoldsIn
  <2>2. Arriving = {}
    BY BankTypes DEF BankInit, Arriving, Authorizing
  <2>. QED
    BY <2>1, <2>2, FS_EmptySet, MaxHoldsAssumption, SMT DEF CountInv
<1>6. NoOverdraft
  BY OpeningAssumption, SMT DEF BankInit, NoOverdraft
<1>. QED
  BY <1>1, <1>2, <1>3, <1>4, <1>5, <1>6 DEF BankInv

\* A step that changes nothing.
LEMMA BankStutter ==
    ASSUME BankInv, UNCHANGED bankVars
    PROVE  BankInv'
<1>1. UNCHANGED <<balances, transactions, locks, callVars, history>> /\ UNCHANGED idempotencyKeys
  BY DEF bankVars, callVars, history
<1>. QED
  BY <1>1, CacheStep DEF BankInv, BankTypeOK

\* Every step of the bank keeps the invariant.
LEMMA BankInvStep == BankInv /\ [BankNext]_bankVars => BankInv'
<1>. SUFFICES ASSUME BankInv, [BankNext]_bankVars PROVE BankInv'
  OBVIOUS
<1>1. ASSUME NEW c \in Calls, NEW r \in BankRequests, MayArrive(r), Receive(c, r) PROVE BankInv'
  BY <1>1, ReceiveStep
<1>2. ASSUME NEW c \in Calls, WorkOn(c) PROVE BankInv'
  BY <1>2, ReplayStep, MissStep, FailureInjectionStep, ValidateStep, AcceptStep, RejectStep,
     CreateStep, DuplicateStep, AdjustBalancesStep, CommitStep, StoreStep, StatementErrorStep
     DEF WorkOn
<1>3. ASSUME NEW c \in Calls, BankRespond(c) \/ Abort(c) PROVE BankInv'
  BY <1>3, BankRespondStep, AbortStep
<1>4. ASSUME NEW id \in 1..MaxTransactions, ExpireHold(id) PROVE BankInv'
  BY <1>4, ExpireHoldStep
<1>5. CASE DayPasses \/ CleanupIdempotencyKeys
  BY <1>5, DayPassesStep, CleanupStep
<1>6. CASE UNCHANGED bankVars
  BY <1>6, BankStutter
<1>. QED
  BY <1>1, <1>2, <1>3, <1>4, <1>5, <1>6 DEF BankNext, ServeCall

\* BankInv is an invariant of the bank.
THEOREM BankInvariant == BankSpec => []BankInv
<1>. QED
  BY BankInvInit, BankInvStep, PTL DEF BankSpec

\* However the calls interleave, fail and are cut off, every variable of the
\* bank stays within its type: the ledger has at most MaxTransactions entries.
THEOREM BankTypeCorrect == BankSpec => []BankTypeOK
<1>1. BankInv => BankTypeOK
  BY DEF BankInv
<1>. QED
  BY <1>1, BankInvariant, PTL

\* The account row is locked from the check of the available balance to the
\* commit of the hold (authorization service), so no account is overdrawn.
THEOREM BankNoOverdraft == BankSpec => []NoOverdraft
<1>1. BankInv => NoOverdraft
  BY DEF BankInv
<1>. QED
  BY <1>1, BankInvariant, PTL

\* "Can't capture a voided auth, can't void after capture": the row of a hold is
\* locked from the check of its status to the commit, so a hold that is not
\* active was settled by exactly one capture or void, an active one by none.
THEOREM BankSettledOnce == BankSpec => []SettledOnce
<1>1. BankInv => SettledOnce
  <2>. SUFFICES ASSUME BankInv, NEW i \in Holds
                PROVE  LET settlements == {j \in DOMAIN transactions :
                                              /\ transactions[j].reference = i
                                              /\ transactions[j].type \in {"CAPTURE", "VOID"}}
                       IN Cardinality(settlements) =
                             IF transactions[i].status = "ACTIVE" THEN 0 ELSE 1
    BY DEF SettledOnce
  <2>. DEFINE settlements == {j \in DOMAIN transactions :
                                 /\ transactions[j].reference = i
                                 /\ transactions[j].type \in {"CAPTURE", "VOID"}}
  <2>1. LedgerOK(transactions) /\ i \in DOMAIN transactions /\ transactions[i].type = "AUTH_HOLD"
    BY DEF BankInv, Holds
  <2>2. CASE transactions[i].status = "ACTIVE"
    <3>1. settlements = {}
      <4>. SUFFICES ASSUME NEW j \in DOMAIN transactions, transactions[j].reference = i,
                           transactions[j].type \in Settlement
                    PROVE  FALSE
        BY DEF Settlement
      <4>. QED
        BY <2>1, <2>2 DEF LedgerOK
    <3>. QED
      BY <2>2, <3>1, FS_EmptySet
  <2>3. CASE transactions[i].status # "ACTIVE"
    <3>1. PICK j \in DOMAIN transactions :
             transactions[j].type \in Settlement /\ transactions[j].reference = i
      BY <2>1, <2>3 DEF LedgerOK
    <3>2. \A k \in settlements : k = j
      <4>1. ASSUME NEW k \in settlements PROVE k = j
        <5>1. /\ transactions[k].reference = transactions[j].reference
              /\ {transactions[k].type, transactions[j].type} \subseteq Settlement
          BY <3>1 DEF Settlement
        <5>. QED
          BY <2>1, <3>1, <5>1 DEF LedgerOK
      <4>. QED
        BY <4>1
    <3>3. settlements = {j}
      BY <3>1, <3>2 DEF Settlement
    <3>. QED
      BY <2>3, <3>3, FS_Singleton
  <2>. QED
    BY <2>2, <2>3
<1>. QED
  BY <1>1, BankInvariant, PTL

\* What a successful answer names: the entry its request asked for.
LEMMA ServedEntry ==
    ASSUME BankInv, NEW x \in served
    PROVE  /\ x.id \in DOMAIN transactions /\ x.slot[2] \in Paths
           /\ transactions[x.id].type = TransactionType(x.slot[2])
           /\ transactions[x.id].reference = x.reference
<1>1. /\ x.id \in DOMAIN transactions /\ origin[x.id] = x.slot
      /\ \E r \in BankRequests : x.slot = BankSlot(r) /\ x.reference = r.reference
  BY DEF BankInv, HistoryInv, IsEntryOf
<1>2. PICK r \in BankRequests : x.slot = BankSlot(r) /\ x.reference = r.reference
  BY <1>1
<1>3. PICK q \in BankRequests : /\ origin[x.id] = BankSlot(q)
                                /\ transactions[x.id].type = TransactionType(q.path)
                                /\ transactions[x.id].reference = q.reference
  BY <1>1 DEF BankInv, OriginInv
<1>4. q.path = r.path /\ q.reference = r.reference
  <2>1. BankSlot(q) = BankSlot(r)
    BY <1>1, <1>2, <1>3
  <2>. QED
    BY <2>1, SlotFacts
<1>5. x.slot[2] = r.path /\ r.path \in Paths
  <2>1. r.path \in Paths
    BY RequestFacts DEF BankRequestShape
  <2>2. x.slot = <<r.key, r.path>>
    BY <1>2 DEF BankSlot
  <2>. QED
    BY <2>1, <2>2, SMT
<1>. QED
  BY <1>1, <1>2, <1>3, <1>4, <1>5

\* Whatever the middleware caches, loses or cleans up, and however calls with
\* the same or with different keys race, two successful answers about one
\* reference name the same ledger entry.
THEOREM BankOneAnswerPerReference == BankSpec => []OneAnswerPerReference
<1>1. BankInv => OneAnswerPerReference
  <2>. SUFFICES ASSUME BankInv, NEW x \in served, NEW y \in served, x.slot[2] = y.slot[2],
                       x.slot[2] # "authorizations", x.reference = y.reference
                PROVE  x.id = y.id
    BY DEF OneAnswerPerReference
  <2>1. /\ x.id \in DOMAIN transactions /\ y.id \in DOMAIN transactions
        /\ transactions[x.id].type = transactions[y.id].type
        /\ transactions[x.id].reference = transactions[y.id].reference
        /\ transactions[x.id].type \in {"CAPTURE", "VOID", "REFUND"}
    BY ServedEntry DEF TransactionType, Paths
  <2>2. \/ {transactions[x.id].type, transactions[y.id].type} \subseteq Settlement
        \/ {transactions[x.id].type, transactions[y.id].type} = {"REFUND"}
    BY <2>1 DEF Settlement
  <2>. QED
    BY <2>1, <2>2 DEF BankInv, LedgerOK
<1>. QED
  BY <1>1, BankInvariant, PTL
=============================================================================
