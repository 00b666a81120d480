------------------------- MODULE GatewayBankProofs -------------------------
(***************************************************************************)
(* The proofs that what the gateway says of a payment agrees with what the *)
(* bank did: every bank identifier it stores is the bank's entry for that  *)
(* payment, and no money was taken behind a payment it calls pending,      *)
(* declined, voided or expired.                                            *)
(***************************************************************************)
EXTENDS GatewayBank, PaymentServiceProofs

\* The prover of a leaf that names no other; arithmetic is for SMT.
USE Zenon

----------------------------------------------------------------------------
(* The service behind the bank is the service *)

ServiceInv == TypeInv /\ ClaimInv /\ KeyInv /\ StoredInv

\* Every step of the composition is a step of the service or leaves it alone.
LEMMA ServiceSteps == [GatewayBankNext]_gatewayBankVars => [Next]_vars
<1>1. \A a \in Attempts : BankAnswer(a) => Next
  BY DEF Next, Attempt, Proceed
<1>. QED
  BY <1>1 DEF GatewayBankNext, gatewayBankVars, Service, AnswerFromBank, SuccessAnswer,
              ExpiredAnswer, OtherAnswer, LateCall, ForgetResponse

\* What was proved of the service holds of it with the bank attached.
LEMMA ServiceInvariant == GatewayBankSpec => []ServiceInv
<1>1. GatewayBankInit => ServiceInv
  BY TypeInit, ClaimInit, KeyInit, StoredInit DEF GatewayBankInit, ServiceInv
<1>2. ServiceInv /\ [GatewayBankNext]_gatewayBankVars => ServiceInv'
  BY ServiceSteps, TypeStep, ClaimStep, KeyStep, StoredStep DEF ServiceInv
<1>. QED
  BY <1>1, <1>2, PTL DEF GatewayBankSpec

----------------------------------------------------------------------------
(* The inductive invariant *)

Keys(p) == {p.authorizationKey, p.captureKey, p.voidKey, p.refundKey}

\* The keys in S are unset or owner has given them to payment id.
OwnedBy(owner, id, S) == \A k \in S : k # 0 => k \in DOMAIN owner /\ owner[k] = id

\* No bank operation key is shared by two payments, wherever it is kept: in a
\* row, in the copy an attempt may write back, or in a call on its way.
Owns(owner) ==
    /\ \A id \in PaymentIDs :
          /\ OwnedBy(owner, id, Keys(payments[id]))
          /\ \A b \in BankOperations : OwnedBy(owner, id, called[id][b])
    /\ \A a \in Attempts : pc[a] \in {"bank", "complete"} =>
          OwnedBy(owner, paymentID[a], Keys(payment[a]))

KeysOwned == \E owner \in [1..nextBankOperationKey - 1 -> PaymentIDs] : Owns(owner)

\* Every bank identifier of p is an entry under p's own key (MoneyAgrees for
\* one payment).
Backed(p) ==
    /\ p.authorizationID # 0 => IsEntry(p.authorizationID, p.authorizationKey, "authorize", 0)
    /\ p.captureID # 0 => IsEntry(p.captureID, p.captureKey, "capture", p.authorizationID)
    /\ p.voidID # 0 => IsEntry(p.voidID, p.voidKey, "void", p.authorizationID)
    /\ p.refundID # 0 => IsEntry(p.refundID, p.refundKey, "refund", p.captureID)

\* The row p after the calls c: it is backed, a declined payment was never
\* settled, a refund was sent for a captured one only, and the bank refused the
\* capture of an expired one.
RowBank(p, c) ==
    /\ Backed(p)
    /\ p.status = "declined" => c["capture"] = {} /\ c["void"] = {}
    /\ c["refund"] # {} => p.status \in {"captured", "refunded"}
    /\ p.status = "expired" => p.authorizationID \in refused

\* What an attempt knows of the bank's entries agrees with the row it will write.
CopyBank(a) ==
    LET operation == request[a].operation
        row == payments[paymentID[a]]
        p == payment[a]
    IN
    pc[a] \in {"bank", "complete"} =>
        /\ Backed(p)
        /\ p.status = "expired" => p.authorizationID \in refused
        /\ called[paymentID[a]][BankOperation(operation)] # {}
        /\ operation \in {"capture_payment", "void_payment", "refund_payment"} =>
              p.authorizationID = row.authorizationID
        /\ operation = "refund_payment" =>
              p.captureID = row.captureID /\ p.captureKey = row.captureKey
        /\ pc[a] = "bank" =>
              BankOperationKey(operation, p) \in called[paymentID[a]][BankOperation(operation)]

EntryType == [authorize |-> "AUTH_HOLD", capture |-> "CAPTURE",
              void |-> "VOID", refund |-> "REFUND"]

BankSlot == Nat \X {"authorizations", "captures", "voids", "refunds"}

BankEntry == [type : {"AUTH_HOLD", "CAPTURE", "VOID", "REFUND"}, reference : Nat,
              status : {"ACTIVE", "COMPLETED"}, slot : BankSlot]

\* The entry was made for a call the gateway sent, about the payment of the call.
AskedFor(entry, id, b) ==
    /\ entry.type = EntryType[b]
    /\ entry.slot[2] = Paths[b]
    /\ entry.slot[1] \in called[id][b]
    /\ entry.reference = Reference(b, payments[id])

EntriesAskedFor ==
    \A i \in DOMAIN ledger :
        \E id \in PaymentIDs, b \in BankOperations : AskedFor(ledger[i], id, b)

Settlement(i) == ledger[i].type \in {"CAPTURE", "VOID"}

\* A hold is settled by one entry, and not by a capture once it was refused.
SettledHolds ==
    \A i \in DOMAIN ledger : Settlement(i) =>
        /\ ledger[i].reference \in DOMAIN ledger
        /\ ledger[ledger[i].reference].status = "COMPLETED"
        /\ \A j \in DOMAIN ledger :
              Settlement(j) /\ ledger[j].reference = ledger[i].reference => j = i
        /\ ledger[i].type = "CAPTURE" => ledger[i].reference \notin refused

LedgerInv ==
    /\ ledger \in Seq(BankEntry)
    /\ cached \subseteq DOMAIN ledger
    /\ SettledHolds

MoneyInv ==
    /\ LedgerInv
    /\ EntriesAskedFor
    /\ KeysOwned
    /\ \A id \in PaymentIDs : RowBank(payments[id], called[id])
    /\ \A a \in Attempts : CopyBank(a)

----------------------------------------------------------------------------
(* The bank's ledger *)

\* Entries stay, but for the status of a hold, and refusals are final.
LedgerGrows ==
    /\ \A i \in DOMAIN ledger :
          /\ i \in DOMAIN ledger'
          /\ ledger'[i].slot = ledger[i].slot
          /\ ledger'[i].reference = ledger[i].reference
          /\ ledger'[i].type = ledger[i].type
    /\ refused \subseteq refused'

\* The path of a request decides the type of the entry it makes.
LEMMA PathFacts ==
    /\ \A b \in BankOperations :
          /\ Paths[b] \in {"authorizations", "captures", "voids", "refunds"}
          /\ EntryType[b] \in {"AUTH_HOLD", "CAPTURE", "VOID", "REFUND"}
          /\ Paths[b] = "authorizations" <=> b = "authorize"
          /\ Paths[b] = "captures" <=> b = "capture"
          /\ Paths[b] = "voids" <=> b = "void"
          /\ Paths[b] = "refunds" <=> b = "refund"
    /\ \A b, c \in BankOperations : Paths[b] = Paths[c] => b = c
    /\ EntryType["authorize"] = "AUTH_HOLD" /\ EntryType["capture"] = "CAPTURE"
    /\ EntryType["void"] = "VOID" /\ EntryType["refund"] = "REFUND"
BY SMT DEF BankOperations, Paths, EntryType

\* No two operations of the bank are asked for at one path.
LEMMA PathsDiffer ==
    ASSUME NEW b \in BankOperations, NEW c \in BankOperations, Paths[b] = Paths[c]
    PROVE  b = c
BY PathFacts

\* The ledger with a hold marked settled.
WithSettled(reference) == [ledger EXCEPT ![reference].status = "COMPLETED"]

\* A request under slot about reference adds entry to the ledger before.
Performed(slot, reference, entry, before) ==
    /\ ledger' = Append(before, entry)
    /\ entry.slot = slot
    /\ entry.reference = IF slot[2] = "authorizations" THEN 0 ELSE reference
    /\ \E b \in BankOperations : slot[2] = Paths[b] /\ entry.type = EntryType[b]
    /\ \/ entry.type \notin {"CAPTURE", "VOID"} /\ before = ledger
       \/ /\ entry.type \in {"CAPTURE", "VOID"}
          /\ reference \in DOMAIN ledger /\ ledger[reference].status = "ACTIVE"
          /\ entry.type = "CAPTURE" => reference \notin refused
          /\ before = WithSettled(reference)

\* Carrying out a request adds the entry of its path at the end.
LEMMA PerformFacts ==
    ASSUME NEW slot \in BankSlot, NEW reference \in Nat, Bank!Perform(slot, reference)
    PROVE  \E entry \in BankEntry : \E before : Performed(slot, reference, entry, before)
<1>. DEFINE New(type, r, status) == [type |-> type, reference |-> r, status |-> status, slot |-> slot]
<1>1. \A type \in {"AUTH_HOLD", "CAPTURE", "VOID", "REFUND"}, r \in Nat,
         status \in {"ACTIVE", "COMPLETED"} :
          /\ New(type, r, status) \in BankEntry
          /\ New(type, r, status).slot = slot /\ New(type, r, status).reference = r
          /\ New(type, r, status).type = type
  BY DEF BankEntry
<1>2. /\ "authorize" \in BankOperations /\ Paths["authorize"] = "authorizations"
      /\ "capture" \in BankOperations /\ Paths["capture"] = "captures"
      /\ "void" \in BankOperations /\ Paths["void"] = "voids"
      /\ "refund" \in BankOperations /\ Paths["refund"] = "refunds"
  BY DEF BankOperations, Paths
<1>3. CASE Bank!Hold(slot)
  <2>1. slot[2] = "authorizations" /\ ledger' = Append(ledger, New("AUTH_HOLD", 0, "ACTIVE"))
    BY <1>3 DEF Bank!Hold, Bank!Add
  <2>2. PICK entry \in BankEntry : entry = New("AUTH_HOLD", 0, "ACTIVE")
    BY <1>1
  <2>3. entry.slot = slot /\ entry.reference = 0 /\ entry.type = "AUTH_HOLD"
    BY <1>1, <2>2
  <2>. HIDE DEF New
  <2>4. Performed(slot, reference, entry, ledger)
    BY <1>2, <2>1, <2>2, <2>3, PathFacts DEF Performed
  <2>. QED
    BY <2>4
<1>4. CASE Bank!Settle(slot, reference)
  <2>1. reference \in DOMAIN ledger /\ ledger[reference].status = "ACTIVE"
    BY <1>4 DEF Bank!Settle, Bank!IsActiveHold
  <2>2. \/ /\ slot[2] = "voids"
           /\ ledger' = Append(WithSettled(reference), New("VOID", reference, "COMPLETED"))
        \/ /\ slot[2] = "captures" /\ reference \notin refused
           /\ ledger' = Append(WithSettled(reference), New("CAPTURE", reference, "COMPLETED"))
    BY <1>4 DEF Bank!Settle, Bank!Add, WithSettled
  <2>3. PICK b \in {"void", "capture"} :
            /\ slot[2] = Paths[b] /\ (b = "capture" => reference \notin refused)
            /\ ledger' = Append(WithSettled(reference), New(EntryType[b], reference, "COMPLETED"))
    BY <1>2, <2>2, PathFacts
  <2>4. /\ slot[2] # "authorizations" /\ EntryType[b] \in {"CAPTURE", "VOID"}
        /\ (EntryType[b] = "CAPTURE" => b = "capture") /\ b \in BankOperations
    BY <1>2, <2>3, PathFacts
  <2>5. PICK entry \in BankEntry : entry = New(EntryType[b], reference, "COMPLETED")
    BY <1>1, <2>4
  <2>6. entry.slot = slot /\ entry.reference = reference /\ entry.type = EntryType[b]
    BY <1>1, <2>4, <2>5
  <2>. HIDE DEF New
  <2>7. Performed(slot, reference, entry, WithSettled(reference))
    BY <2>1, <2>3, <2>4, <2>5, <2>6 DEF Performed
  <2>. QED
    BY <2>5, <2>7
<1>5. CASE Bank!Refund(slot, reference)
  <2>1. /\ slot[2] = "refunds"
        /\ ledger' = Append(ledger, New("REFUND", reference, "COMPLETED"))
    BY <1>5 DEF Bank!Refund, Bank!Add
  <2>2. PICK entry \in BankEntry : entry = New("REFUND", reference, "COMPLETED")
    BY <1>1
  <2>3. entry.slot = slot /\ entry.reference = reference /\ entry.type = "REFUND"
    BY <1>1, <2>2
  <2>. HIDE DEF New
  <2>4. Performed(slot, reference, entry, ledger)
    BY <1>2, <2>1, <2>2, <2>3, PathFacts, SMT DEF Performed
  <2>. QED
    BY <2>4
<1>. QED
  BY <1>3, <1>4, <1>5 DEF Bank!Perform

\* Marking a hold settled changes its status and nothing else.
LEMMA WithSettledFacts ==
    ASSUME ledger \in Seq(BankEntry), NEW h \in DOMAIN ledger
    PROVE  /\ WithSettled(h) \in Seq(BankEntry) /\ Len(WithSettled(h)) = Len(ledger)
           /\ DOMAIN WithSettled(h) = DOMAIN ledger
           /\ \A i \in DOMAIN ledger :
                 /\ WithSettled(h)[i].slot = ledger[i].slot
                 /\ WithSettled(h)[i].reference = ledger[i].reference
                 /\ WithSettled(h)[i].type = ledger[i].type
                 /\ i # h => WithSettled(h)[i].status = ledger[i].status
                 /\ i = h => WithSettled(h)[i].status = "COMPLETED"
<1>. DEFINE e == [ledger[h] EXCEPT !.status = "COMPLETED"]
<1>1. ledger[h] \in BankEntry
  BY SMT
<1>2. /\ e \in BankEntry /\ e.slot = ledger[h].slot /\ e.reference = ledger[h].reference
      /\ e.type = ledger[h].type /\ e.status = "COMPLETED"
  BY <1>1 DEF BankEntry
<1>3. WithSettled(h) = [ledger EXCEPT ![h] = e]
  BY DEF WithSettled
<1>. HIDE DEF e
<1>4. /\ [ledger EXCEPT ![h] = e] \in Seq(BankEntry)
      /\ Len([ledger EXCEPT ![h] = e]) = Len(ledger)
      /\ DOMAIN [ledger EXCEPT ![h] = e] = DOMAIN ledger
  BY <1>2, SMT
<1>5. \A i \in DOMAIN ledger : [ledger EXCEPT ![h] = e][i] = IF i = h THEN e ELSE ledger[i]
  OBVIOUS
<1>. QED
  BY <1>2, <1>3, <1>4, <1>5

\* The bank carries out a request: the ledger keeps its form and gains the entry.
LEMMA CarriedOut ==
    ASSUME LedgerInv, NEW call, NEW id, call.slot \in BankSlot, call.reference \in Nat,
           CarryOut(call, id)
    PROVE  /\ LedgerInv' /\ LedgerGrows
           /\ DOMAIN ledger' = DOMAIN ledger \cup {id} /\ id \notin DOMAIN ledger
           /\ ledger'[id].slot = call.slot
           /\ ledger'[id].reference =
                 IF call.slot[2] = "authorizations" THEN 0 ELSE call.reference
           /\ \E b \in BankOperations :
                 call.slot[2] = Paths[b] /\ ledger'[id].type = EntryType[b]
<1>. DEFINE slot == call.slot
            reference == call.reference
<1>1. PICK entry \in BankEntry : \E before : Performed(slot, reference, entry, before)
  BY PerformFacts DEF CarryOut
<1>2. PICK before : Performed(slot, reference, entry, before)
  BY <1>1
<1>3. ledger \in Seq(BankEntry) /\ UNCHANGED refused
  BY DEF LedgerInv, CarryOut
<1>4. /\ before \in Seq(BankEntry) /\ Len(before) = Len(ledger) /\ DOMAIN before = DOMAIN ledger
      /\ \A i \in DOMAIN ledger :
            /\ before[i].slot = ledger[i].slot /\ before[i].reference = ledger[i].reference
            /\ before[i].type = ledger[i].type
            /\ ledger[i].status = "COMPLETED" => before[i].status = "COMPLETED"
  <2>1. CASE before = ledger
    BY <1>3, <2>1
  <2>2. CASE reference \in DOMAIN ledger /\ before = WithSettled(reference)
    BY <1>3, <2>2, WithSettledFacts
  <2>. QED
    BY <1>2, <2>1, <2>2 DEF Performed
<1>5. ledger' = Append(before, entry) /\ id = Len(ledger')
  BY <1>2 DEF Performed, CarryOut
<1>6. /\ ledger' \in Seq(BankEntry) /\ Len(ledger') = Len(ledger) + 1
      /\ id = Len(ledger) + 1 /\ ledger'[id] = entry
      /\ DOMAIN ledger' = DOMAIN ledger \cup {id} /\ id \notin DOMAIN ledger
      /\ \A i \in DOMAIN ledger : ledger'[i] = before[i]
  BY <1>3, <1>4, <1>5, SMT
<1>7. LedgerGrows
  BY <1>3, <1>4, <1>6 DEF LedgerGrows
<1>8. cached' \subseteq DOMAIN ledger'
  BY <1>6 DEF CarryOut, LedgerInv
<1>9. SettledHolds'
  <2>. SUFFICES ASSUME NEW i \in DOMAIN ledger', Settlement(i)'
                PROVE  /\ ledger'[i].reference \in DOMAIN ledger'
                       /\ ledger'[ledger'[i].reference].status = "COMPLETED"
                       /\ \A j \in DOMAIN ledger' :
                             Settlement(j)' /\ ledger'[j].reference = ledger'[i].reference => j = i
                       /\ ledger'[i].type = "CAPTURE" => ledger'[i].reference \notin refused'
    BY DEF SettledHolds
  <2>1. \A j \in DOMAIN ledger : /\ Settlement(j)' <=> Settlement(j)
                                 /\ ledger'[j].reference = ledger[j].reference
                                 /\ ledger'[j].type = ledger[j].type
    BY <1>4, <1>6 DEF Settlement
  <2>2. \A j \in DOMAIN ledger : Settlement(j) =>
           /\ ledger[j].reference \in DOMAIN ledger
           /\ ledger[ledger[j].reference].status = "COMPLETED"
           /\ ledger'[ledger[j].reference].status = "COMPLETED"
           /\ ledger[j].type = "CAPTURE" => ledger[j].reference \notin refused
           /\ \A n \in DOMAIN ledger :
                 Settlement(n) /\ ledger[n].reference = ledger[j].reference => n = j
    BY <1>4, <1>6 DEF LedgerInv, SettledHolds
  <2>3. ASSUME Settlement(id)'
        PROVE  /\ entry.reference = reference /\ reference \in DOMAIN ledger
               /\ ledger[reference].status = "ACTIVE"
               /\ ledger'[reference].status = "COMPLETED"
               /\ entry.type = "CAPTURE" => reference \notin refused
    <3>1. entry.type \in {"CAPTURE", "VOID"}
      BY <1>6, <2>3 DEF Settlement
    <3>2. /\ reference \in DOMAIN ledger /\ ledger[reference].status = "ACTIVE"
          /\ entry.type = "CAPTURE" => reference \notin refused
          /\ before = WithSettled(reference)
      BY <1>2, <3>1 DEF Performed
    <3>3. slot[2] # "authorizations"
      BY <1>2, <3>1, PathFacts DEF Performed
    <3>4. entry.reference = reference
      BY <1>2, <3>3 DEF Performed
    <3>. QED
      BY <1>3, <1>6, <3>2, <3>4, WithSettledFacts, SMT
  <2>4. CASE i \in DOMAIN ledger
    <3>1. Settlement(i)
      BY <2>1, <2>4
    <3>2. Settlement(id)' => entry.reference # ledger[i].reference
      BY <2>2, <2>3, <2>4, <3>1
    <3>. QED
      BY <1>3, <1>6, <2>1, <2>2, <2>4, <3>1, <3>2, SMT
  <2>5. CASE i = id
    <3>1. \A j \in DOMAIN ledger : Settlement(j) => ledger[j].reference # entry.reference
      BY <2>2, <2>3, <2>5
    <3>. QED
      BY <1>3, <1>6, <2>1, <2>3, <2>5, <3>1
  <2>. QED
    BY <1>6, <2>4, <2>5
<1>. QED
  BY <1>2, <1>6, <1>7, <1>8, <1>9 DEF LedgerInv, Performed

\* An expired hold is refused: no capture settled it.
LEMMA ExpiryRefused ==
    ASSUME LedgerInv, NEW hold, Bank!RefuseExpired(hold), UNCHANGED <<ledger, cached>>
    PROVE  LedgerInv' /\ LedgerGrows /\ hold \in refused'
<1>1. hold \in DOMAIN ledger /\ ledger[hold].status = "ACTIVE" /\ refused' = refused \cup {hold}
  BY DEF Bank!RefuseExpired, Bank!IsActiveHold
<1>2. SettledHolds'
  BY <1>1 DEF LedgerInv, SettledHolds, Settlement
<1>. QED
  BY <1>1, <1>2 DEF LedgerInv, LedgerGrows

\* A ledger that nobody writes, with all or fewer responses remembered.
LEMMA BankKept ==
    ASSUME LedgerInv, UNCHANGED <<ledger, refused>>, cached' \subseteq cached
    PROVE  LedgerInv' /\ LedgerGrows
<1>1. SettledHolds'
  BY DEF LedgerInv, SettledHolds, Settlement
<1>. QED
  BY <1>1 DEF LedgerInv, LedgerGrows

----------------------------------------------------------------------------
(* What is known of the bank's entries stays true *)

\* A payment that is backed stays backed.
LEMMA BackedKept ==
    ASSUME LedgerGrows, NEW p, Backed(p)
    PROVE  Backed(p)'
BY DEF LedgerGrows, Backed, IsEntry

\* The row p, after the calls c, keeps in q what those calls were about.
Follows(p, c, q) ==
    /\ c["capture"] # {} \/ c["void"] # {} \/ c["refund"] # {} =>
          q.authorizationID = p.authorizationID
    /\ c["refund"] # {} => q.captureID = p.captureID /\ q.captureKey = p.captureKey

RowsFollow == \A id \in PaymentIDs : Follows(payments[id], called[id], payments'[id])

CallsGrow ==
    \A id \in PaymentIDs, b \in BankOperations : called[id][b] \subseteq called'[id][b]

\* An entry made for a call stays the entry of that call.
LEMMA AskedForKept ==
    ASSUME RowsFollow, CallsGrow, NEW entry, NEW id \in PaymentIDs, NEW b \in BankOperations,
           AskedFor(entry, id, b)
    PROVE  AskedFor(entry, id, b)'
<1>1. called[id][b] # {} /\ called[id][b] \subseteq called'[id][b]
  BY DEF AskedFor, CallsGrow
<1>2. Reference(b, payments'[id]) = Reference(b, payments[id])
  BY <1>1 DEF RowsFollow, Follows, Reference, BankOperations
<1>. QED
  BY <1>1, <1>2 DEF AskedFor

\* Entries that were there are still asked for.
LEMMA EntriesKept ==
    ASSUME EntriesAskedFor, RowsFollow, CallsGrow, LedgerGrows, NEW i \in DOMAIN ledger
    PROVE  \E id \in PaymentIDs, b \in BankOperations : AskedFor(ledger[i], id, b)'
<1>1. PICK id \in PaymentIDs, b \in BankOperations : AskedFor(ledger[i], id, b)
  BY DEF EntriesAskedFor
<1>2. PICK entry : entry = ledger[i]
  OBVIOUS
<1>3. AskedFor(entry, id, b)'
  BY <1>1, <1>2, AskedForKept
<1>4. PICK new : new = ledger'[i]
  OBVIOUS
<1>. QED
  BY <1>1, <1>2, <1>3, <1>4 DEF AskedFor, LedgerGrows

\* An attempt that does not move keeps what it knows of the bank's entries.
LEMMA CopyBankKept ==
    ASSUME TypeInv, LedgerGrows, RowsFollow, CallsGrow, NEW a \in Attempts, CopyBank(a),
           pc'[a] = pc[a], request'[a] = request[a], paymentID'[a] = paymentID[a],
           payment'[a] = payment[a]
    PROVE  CopyBank(a)'
<1>. SUFFICES ASSUME pc[a] \in {"bank", "complete"} PROVE CopyBank(a)'
  BY DEF CopyBank
<1>. DEFINE operation == request[a].operation
            b == BankOperation(operation)
            id == paymentID[a]
<1>1. id \in PaymentIDs /\ b \in BankOperations
  BY DEF TypeInv, Placed, BankOperation, BankOperations
<1>2. called[id][b] # {} /\ called[id][b] \subseteq called'[id][b]
  BY <1>1 DEF CopyBank, CallsGrow
<1>3. Follows(payments[id], called[id], payments'[id])
  BY <1>1 DEF RowsFollow
<1>4. /\ operation \in {"capture_payment", "void_payment", "refund_payment"} =>
            payments'[id].authorizationID = payments[id].authorizationID
      /\ operation = "refund_payment" =>
            /\ payments'[id].captureID = payments[id].captureID
            /\ payments'[id].captureKey = payments[id].captureKey
  BY <1>2, <1>3 DEF Follows, BankOperation
<1>5. PICK p : p = payment[a]
  OBVIOUS
<1>6. Backed(p)'
  BY <1>5, BackedKept DEF CopyBank
<1>7. Backed(payment[a])'
  BY <1>5, <1>6 DEF Backed
<1>8. payment[a].status = "expired" => payment[a].authorizationID \in refused'
  BY DEF CopyBank, LedgerGrows
<1>. QED
  BY <1>2, <1>4, <1>7, <1>8 DEF CopyBank

\* Owning keys of a set is owning those of its members.
LEMMA OwnedSubset ==
    ASSUME NEW owner, NEW id, NEW S, NEW T, OwnedBy(owner, id, S), T \subseteq S \cup {0}
    PROVE  OwnedBy(owner, id, T)
BY DEF OwnedBy

\* The generator hands out a key no payment has yet.
LEMMA FreshKeyOwned ==
    ASSUME TypeInv, KeysOwned, NEW id \in PaymentIDs,
           nextBankOperationKey' = nextBankOperationKey + 1
    PROVE  \E owner \in [1..nextBankOperationKey' - 1 -> PaymentIDs] :
              /\ Owns(owner)
              /\ nextBankOperationKey \in DOMAIN owner /\ owner[nextBankOperationKey] = id
              /\ OwnedBy(owner, id, Keys(payments[id]))
<1>. DEFINE n == nextBankOperationKey
<1>1. n \in Nat \ {0}
  BY DEF TypeInv, TypeOK
<1>2. PICK old \in [1..n - 1 -> PaymentIDs] : Owns(old)
  BY DEF KeysOwned
<1>3. PICK owner \in [1..n -> PaymentIDs] :
          owner = [k \in 1..n |-> IF k = n THEN id ELSE old[k]]
  <2>1. \A k \in 1..n : k # n => k \in 1..n - 1
    BY <1>1, SMT
  <2>. QED
    BY <2>1
<1>4. n \in DOMAIN owner /\ owner[n] = id /\ nextBankOperationKey' - 1 = n
  BY <1>1, <1>3, SMT
<1>5. \A k \in DOMAIN old : k \in DOMAIN owner /\ owner[k] = old[k]
  BY <1>1, <1>3, SMT
<1>6. ASSUME NEW i, NEW S, OwnedBy(old, i, S) PROVE OwnedBy(owner, i, S)
  BY <1>5, <1>6 DEF OwnedBy
<1>7. Owns(owner)
  BY <1>2, <1>6 DEF Owns
<1>8. OwnedBy(owner, id, Keys(payments[id]))
  BY <1>7 DEF Owns
<1>. QED
  BY <1>3, <1>4, <1>7, <1>8

\* A row nobody writes and whose calls stay the same keeps its meaning.
LEMMA RowBankKept ==
    ASSUME LedgerGrows, NEW p, NEW c, RowBank(p, c),
           NEW id \in PaymentIDs, payments'[id] = p, called'[id] = c
    PROVE  RowBank(payments[id], called[id])'
<1>1. Backed(p)'
  BY BackedKept DEF RowBank
<1>2. Backed(payments[id])'
  BY <1>1 DEF Backed
<1>. QED
  BY <1>2 DEF RowBank, LedgerGrows

----------------------------------------------------------------------------
(* Steps of the service *)

\* The row q that a transaction leaves for payment id, as far as the bank goes.
RowFits(id, q) ==
    /\ RowBank(q, called[id])
    /\ Follows(payments[id], called[id], q)

\* One row is written, the bank is not involved.
LEMMA OneRowWritten ==
    ASSUME TypeInv, NEW id \in PaymentIDs, NEW q, RowFits(id, q),
           payments' = [payments EXCEPT ![id] = q]
    PROVE  /\ payments'[id] = q
           /\ \A i \in PaymentIDs \ {id} : payments'[i] = payments[i]
           /\ RowsFollow
<1>1. payments'[id] = q /\ \A i \in PaymentIDs \ {id} : payments'[i] = payments[i]
  BY DEF TypeInv, TypeOK
<1>. QED
  BY <1>1 DEF RowsFollow, RowFits, Follows

\* Attempt a calls the bank after its transaction left q in the row.
LEMMA MoneyCalled ==
    ASSUME TypeInv, MoneyInv, UNCHANGED bankVars, NEW a \in Attempts, request[a] \in Requests,
           NEW id \in PaymentIDs, NEW q \in Payment, CallBank(a, id, q), UNCHANGED request,
           payments' = [payments EXCEPT ![id] = q], RowFits(id, q),
           q.status = ExpectedStatus(request[a].operation),
           NEW owner \in [1..nextBankOperationKey' - 1 -> PaymentIDs], Owns(owner),
           OwnedBy(owner, id, Keys(q))
    PROVE  MoneyInv'
<1>. DEFINE operation == request[a].operation
            b == BankOperation(operation)
            k == BankOperationKey(operation, q)
<1>1. operation \in Operations /\ b \in BankOperations
  BY RequestFacts DEF BankOperation, BankOperations
<1>2. k \in Keys(q)
  BY DEF Keys, BankOperationKey
<1>3. /\ payments'[id] = q /\ RowsFollow
      /\ \A i \in PaymentIDs \ {id} : payments'[i] = payments[i]
  BY OneRowWritten
<1>4. /\ called' = [called EXCEPT ![id][b] = @ \cup {k}]
      /\ pc'[a] = "bank" /\ paymentID'[a] = id /\ payment'[a] = q
      /\ \A i \in Attempts \ {a} : /\ pc'[i] = pc[i] /\ paymentID'[i] = paymentID[i]
                                   /\ payment'[i] = payment[i] /\ request'[i] = request[i]
  BY DEF CallBank, GoTo, TypeInv, TypeOK
<1>5. /\ called'[id][b] = called[id][b] \cup {k}
      /\ \A d \in BankOperations \ {b} : called'[id][d] = called[id][d]
      /\ \A i \in PaymentIDs \ {id} : called'[i] = called[i]
  BY <1>1, <1>4 DEF TypeInv, TypeOK
<1>. HIDE DEF operation, b, k
<1>6. CallsGrow
  BY <1>1, <1>5 DEF CallsGrow
<1>7. LedgerInv' /\ LedgerGrows
  BY BankKept DEF MoneyInv, bankVars
<1>8. EntriesAskedFor'
  BY <1>3, <1>6, <1>7, EntriesKept DEF MoneyInv, EntriesAskedFor, bankVars
<1>9. KeysOwned'
  <2>1. OwnedBy(owner, id, {k})
    BY <1>2, OwnedSubset DEF OwnedBy
  <2>2. \A d \in BankOperations : OwnedBy(owner, id, called'[id][d])
    <3>1. \A d \in BankOperations : OwnedBy(owner, id, called[id][d])
      BY DEF Owns
    <3>2. OwnedBy(owner, id, called[id][b] \cup {k})
      BY <1>1, <2>1, <3>1 DEF OwnedBy
    <3>3. OwnedBy(owner, id, called'[id][b])
      BY <1>5, <3>2
    <3>4. \A d \in BankOperations \ {b} : OwnedBy(owner, id, called'[id][d])
      BY <1>5, <3>1
    <3>. QED
      BY <3>3, <3>4
  <2>3. Owns(owner)'
    BY <1>3, <1>4, <1>5, <2>2 DEF Owns
  <2>. QED
    BY <2>3 DEF KeysOwned
<1>10. ASSUME NEW i \in PaymentIDs PROVE RowBank(payments[i], called[i])'
  <2>1. CASE i = id
    <3>1. Backed(q)'
      BY BackedKept, <1>7 DEF RowFits, RowBank
    <3>2. q.status # "declined" /\ q.status # "expired"
      BY <1>1 DEF ExpectedStatus, operation
    <3>3. called'[id]["refund"] # {} => q.status \in {"captured", "refunded"}
      <4>1. CASE b = "refund"
        BY <1>1, <4>1 DEF ExpectedStatus, BankOperation, b, operation, Operations
      <4>2. CASE b # "refund"
        BY <1>5, <4>2 DEF RowFits, RowBank, BankOperations
      <4>. QED
        BY <4>1, <4>2
    <3>4. Backed(payments[id])'
      BY <1>3, <3>1 DEF Backed
    <3>. QED
      BY <1>3, <2>1, <3>2, <3>3, <3>4 DEF RowBank
  <2>2. CASE i # id
    BY <1>3, <1>5, <1>7, <2>2, RowBankKept DEF MoneyInv
  <2>. QED
    BY <2>1, <2>2
<1>11. ASSUME NEW i \in Attempts PROVE CopyBank(i)'
  <2>1. CASE i = a
    <3>1. Backed(q)'
      BY BackedKept, <1>7 DEF RowFits, RowBank
    <3>2. Backed(payment[a])'
      BY <1>4, <3>1 DEF Backed
    <3>3. q.status # "expired"
      BY <1>1 DEF ExpectedStatus, operation
    <3>4. k \in called'[id][b]
      BY <1>5
    <3>. QED
      BY <1>3, <1>4, <2>1, <3>2, <3>3, <3>4 DEF CopyBank, operation, b, k
  <2>2. CASE i # a
    BY <1>3, <1>4, <1>6, <1>7, <2>2, CopyBankKept DEF MoneyInv
  <2>. QED
    BY <2>1, <2>2
<1>. QED
  BY <1>7, <1>8, <1>9, <1>10, <1>11 DEF MoneyInv

\* Attempt a returns after its transaction left q in the row.
LEMMA MoneyWritten ==
    ASSUME TypeInv, MoneyInv, UNCHANGED bankVars, NEW a \in Attempts,
           NEW id \in PaymentIDs, NEW q \in Payment, NEW answer, Return(a, answer),
           UNCHANGED <<request, paymentID, called>>,
           payments' = [payments EXCEPT ![id] = q], RowFits(id, q),
           NEW owner \in [1..nextBankOperationKey' - 1 -> PaymentIDs], Owns(owner),
           OwnedBy(owner, id, Keys(q))
    PROVE  MoneyInv'
<1>1. /\ payments'[id] = q /\ RowsFollow
      /\ \A i \in PaymentIDs \ {id} : payments'[i] = payments[i]
  BY OneRowWritten
<1>2. /\ pc'[a] = "respond"
      /\ \A i \in Attempts \ {a} : pc'[i] = pc[i] /\ payment'[i] = payment[i]
  BY DEF Return, GoTo, TypeInv, TypeOK
<1>3. CallsGrow /\ LedgerInv' /\ LedgerGrows
  BY BankKept DEF CallsGrow, MoneyInv, bankVars
<1>4. EntriesAskedFor'
  BY <1>1, <1>3, EntriesKept DEF MoneyInv, EntriesAskedFor, bankVars
<1>5. KeysOwned'
  <2>1. Owns(owner)'
    BY <1>1, <1>2 DEF Owns
  <2>. QED
    BY <2>1 DEF KeysOwned
<1>6. ASSUME NEW i \in PaymentIDs PROVE RowBank(payments[i], called[i])'
  <2>1. CASE i = id
    BY <1>1, <1>3, <2>1, RowBankKept DEF RowFits
  <2>2. CASE i # id
    BY <1>1, <1>3, <2>2, RowBankKept DEF MoneyInv
  <2>. QED
    BY <2>1, <2>2
<1>7. ASSUME NEW i \in Attempts PROVE CopyBank(i)'
  <2>1. CASE i = a
    BY <1>2, <2>1 DEF CopyBank
  <2>2. CASE i # a
    BY <1>1, <1>2, <1>3, <2>2, CopyBankKept DEF MoneyInv
  <2>. QED
    BY <2>1, <2>2
<1>. QED
  BY <1>3, <1>4, <1>5, <1>6, <1>7 DEF MoneyInv

\* The attempt stays where it is, or no longer has a copy it could write.
Quiet(a) ==
    \/ /\ pc'[a] = pc[a] /\ request'[a] = request[a] /\ paymentID'[a] = paymentID[a]
       /\ payment'[a] = payment[a]
    \/ pc'[a] \notin {"bank", "complete"}

\* No row is written and no call is sent; the bank may do as it likes as long
\* as what it adds was asked for.
LEMMA MoneyQuiet ==
    ASSUME TypeInv, MoneyInv, UNCHANGED <<payments, called, nextBankOperationKey>>,
           \A a \in Attempts : Quiet(a), LedgerInv', LedgerGrows,
           \A i \in DOMAIN ledger' \ DOMAIN ledger :
               \E id \in PaymentIDs, b \in BankOperations : AskedFor(ledger[i], id, b)'
    PROVE  MoneyInv'
<1>1. RowsFollow /\ CallsGrow
  BY DEF RowsFollow, Follows, CallsGrow
<1>2. EntriesAskedFor'
  BY <1>1, EntriesKept DEF MoneyInv, EntriesAskedFor
<1>3. KeysOwned'
  <2>1. PICK owner \in [1..nextBankOperationKey - 1 -> PaymentIDs] : Owns(owner)
    BY DEF MoneyInv, KeysOwned
  <2>2. Owns(owner)'
    BY <2>1 DEF Owns, Quiet
  <2>. QED
    BY <2>1, <2>2 DEF KeysOwned
<1>4. \A id \in PaymentIDs : RowBank(payments[id], called[id])'
  BY RowBankKept DEF MoneyInv
<1>5. ASSUME NEW a \in Attempts PROVE CopyBank(a)'
  <2>1. CASE pc'[a] \notin {"bank", "complete"}
    BY <2>1 DEF CopyBank
  <2>2. CASE /\ pc'[a] = pc[a] /\ request'[a] = request[a] /\ paymentID'[a] = paymentID[a]
             /\ payment'[a] = payment[a]
    BY <1>1, <2>2, CopyBankKept DEF MoneyInv
  <2>. QED
    BY <2>1, <2>2 DEF Quiet
<1>. QED
  BY <1>2, <1>3, <1>4, <1>5 DEF MoneyInv

\* Storing a bank operation key disturbs nothing that was sent or answered.
LEMMA EnsureFits ==
    ASSUME NEW p \in Payment, NEW c, NEW operation \in Operations, NEW key \in Nat \ {0},
           IsLoadable(p), RowKeys(p, c), RowBank(p, c), p.status = ExpectedStatus(operation)
    PROVE  LET q == ensureBankOperationKey(operation, p, key)
           IN  /\ RowBank(q, c) /\ Follows(p, c, q)
               /\ IF BankOperationKey(operation, p) = 0 THEN Keys(q) \subseteq Keys(p) \cup {key}
                                                        ELSE q = p
<1>. DEFINE q == ensureBankOperationKey(operation, p, key)
<1>1. CASE BankOperationKey(operation, p) # 0
  BY <1>1 DEF ensureBankOperationKey, Follows
<1>2. CASE BankOperationKey(operation, p) = 0
  <2>1. operation \in {"capture_payment", "void_payment", "refund_payment"}
    BY <1>2 DEF BankOperationKey, IsLoadable, LoadPayment, Operations
  <2>2. CASE operation = "capture_payment"
    <3>1. q = [p EXCEPT !.captureKey = key]
      BY <1>2, <2>2 DEF ensureBankOperationKey, SetCaptureBankOperationKey
    <3>2. /\ p.status = "authorized" /\ p.captureID = 0 /\ c["refund"] = {}
      BY <2>2 DEF ExpectedStatus, IsLoadable, LoadPayment, RowKeys
    <3>. HIDE DEF q
    <3>. QED
      BY <1>2, <3>1, <3>2 DEF RowBank, Backed, Follows, Keys, Payment, q
  <2>3. CASE operation = "void_payment"
    <3>1. q = [p EXCEPT !.voidKey = key]
      BY <1>2, <2>3 DEF ensureBankOperationKey, SetVoidBankOperationKey
    <3>2. p.voidID = 0
      BY <2>3 DEF ExpectedStatus, IsLoadable, LoadPayment
    <3>. HIDE DEF q
    <3>. QED
      BY <1>2, <3>1, <3>2 DEF RowBank, Backed, Follows, Keys, Payment, q
  <2>4. CASE operation = "refund_payment"
    <3>1. q = [p EXCEPT !.refundKey = key]
      BY <1>2, <2>4 DEF ensureBankOperationKey, SetRefundBankOperationKey
    <3>2. p.refundID = 0
      BY <2>4 DEF ExpectedStatus, IsLoadable, LoadPayment
    <3>. HIDE DEF q
    <3>. QED
      BY <1>2, <3>1, <3>2 DEF RowBank, Backed, Follows, Keys, Payment, q
  <2>. QED
    BY <2>1, <2>2, <2>3, <2>4
<1>. QED
  BY <1>1, <1>2

\* Writing back the copy of an attempt is what the bank's entries call for.
LEMMA OutcomeFits ==
    ASSUME ServiceInv, MoneyInv, NEW a \in Attempts, pc[a] = "complete",
           payments[paymentID[a]].status = ExpectedStatus(request[a].operation)
    PROVE  RowFits(paymentID[a], payment[a])
<1>. DEFINE operation == request[a].operation
            id == paymentID[a]
            row == payments[id]
            p == payment[a]
            c == called[id]
<1>1. operation \in Operations /\ id \in PaymentIDs
  BY RequestFacts DEF ServiceInv, TypeInv, Placed
<1>2. RowKeys(row, c) /\ RowBank(row, c) /\ CopyBank(a)
  BY <1>1 DEF ServiceInv, KeyInv, MoneyInv
<1>3. p.status \in Outcomes(operation)
  BY DEF ServiceInv, KeyInv, CopyKeys
<1>4. Backed(p) /\ (p.status = "expired" => p.authorizationID \in refused)
  BY <1>2 DEF CopyBank
<1>5. row.status = ExpectedStatus(operation)
  OBVIOUS
<1>6. CASE operation \in {"authorize_payment", "retry_authorization"}
  <2>1. c["capture"] = {} /\ c["void"] = {} /\ c["refund"] = {}
    BY <1>2, <1>5, <1>6 DEF RowKeys, ExpectedStatus
  <2>. QED
    BY <1>4, <2>1 DEF RowFits, RowBank, Follows
<1>7. CASE operation \in {"capture_payment", "void_payment"}
  <2>1. c["refund"] = {}
    BY <1>2, <1>5, <1>7 DEF RowKeys, ExpectedStatus
  <2>2. p.authorizationID = row.authorizationID /\ p.status # "declined"
    BY <1>2, <1>3, <1>7 DEF CopyBank, Outcomes
  <2>. QED
    BY <1>4, <2>1, <2>2 DEF RowFits, RowBank, Follows
<1>8. CASE operation = "refund_payment"
  <2>1. /\ p.authorizationID = row.authorizationID /\ p.status = "refunded"
        /\ p.captureID = row.captureID /\ p.captureKey = row.captureKey
    BY <1>2, <1>3, <1>8 DEF CopyBank, Outcomes
  <2>. QED
    BY <1>4, <2>1 DEF RowFits, RowBank, Follows
<1>. QED
  BY <1>1, <1>6, <1>7, <1>8 DEF Operations

\* Steps of the service in which nothing is heard from the bank.
LEMMA MoneyServiceStep ==
    ASSUME ServiceInv, MoneyInv, Service(Next)
    PROVE  MoneyInv'
<1>0. TypeInv /\ KeyInv /\ StoredInv /\ UNCHANGED bankVars
  BY DEF ServiceInv, Service
<1>. DEFINE n == nextBankOperationKey
<1>1. n \in Nat \ {0}
  BY <1>0 DEF TypeInv, TypeOK
<1>2. PICK owner \in [1..n - 1 -> PaymentIDs] : Owns(owner)
  BY DEF MoneyInv, KeysOwned
<1>3. ASSUME UNCHANGED <<payments, called, nextBankOperationKey>>, \A a \in Attempts : Quiet(a)
      PROVE  MoneyInv'
  <2>1. LedgerInv' /\ LedgerGrows /\ DOMAIN ledger' = DOMAIN ledger
    BY <1>0, BankKept DEF MoneyInv, bankVars
  <2>. QED
    BY <1>0, <1>3, <2>1, MoneyQuiet
<1>4. ASSUME NEW a \in Attempts, Recover(a) PROVE MoneyInv'
  <2>. DEFINE r == request[a]
              record == idempotencyRecords[Slot(r)]
              id == record.paymentID
              p == payments[id]
  <2>1. r \in Requests /\ record \in Record /\ RecoveryError(r, record) = ""
    BY <1>0, <1>4, RequestFacts DEF Recover, TypeInv, TypeOK, Placed
  <2>2. id \in PaymentIDs
    BY <2>1, ErrorTypes
  <2>3. p \in Payment /\ p.status = ExpectedStatus(r.operation)
    BY <1>0, <2>1, <2>2 DEF RecoveryError, TypeInv, TypeOK
  <2>4. RowFits(id, p) /\ OwnedBy(owner, id, Keys(p))
    BY <1>2, <2>2 DEF RowFits, MoneyInv, Follows, Owns
  <2>5. /\ payments' = [payments EXCEPT ![id] = p]
        /\ UNCHANGED <<payments, request, nextBankOperationKey>>
    BY <1>0, <1>4 DEF Recover, RecoverClaim, TypeInv, TypeOK
  <2>. HIDE DEF record
  <2>6. CASE CallBank(a, id, p)
    BY <1>0, <1>2, <2>1, <2>2, <2>3, <2>4, <2>5, <2>6, MoneyCalled
  <2>7. CASE CommitLost(a)
    <3>1. /\ pc'[a] = "respond"
          /\ \A i \in Attempts \ {a} : pc'[i] = pc[i] /\ payment'[i] = payment[i]
      BY <1>0, <2>7 DEF CommitLost, Return, GoTo, TypeInv, TypeOK
    <3>2. UNCHANGED <<request, paymentID>>
      BY <2>5, <2>7 DEF CommitLost
    <3>3. \A i \in Attempts : Quiet(i)
      BY <3>1, <3>2 DEF Quiet
    <3>. QED
      BY <1>3, <2>5, <2>7, <3>3 DEF CommitLost
  <2>. QED
    BY <1>4, <2>6, <2>7 DEF Recover, record
<1>5. ASSUME NEW a \in Attempts, NEW id \in PaymentIDs, StartAuthorization(a, id)
      PROVE  MoneyInv'
  <2>. DEFINE r == request[a]
              p == NewPendingPayment(n, r.card)
  <2>1. r \in Requests /\ r.operation = "authorize_payment"
    BY <1>0, <1>5 DEF StartAuthorization, TypeInv, Placed
  <2>2. payments' = [payments EXCEPT ![id] = p] /\ UNCHANGED request /\ n' = n + 1
    BY <1>5 DEF StartAuthorization, InsertAuthorization
  <2>3. payments'[id] = p
    BY <1>0, <2>2 DEF TypeInv, TypeOK
  <2>4. p \in Payment /\ p.status = "pending"
    BY <1>1, <2>1, RequestFacts
       DEF NewPendingPayment, NoPayment, Payment, Key, BankID, PaymentStatus
  <2>5. Keys(p) \subseteq {n} \cup {0}
    BY DEF NewPendingPayment, NoPayment, Keys
  <2>6. p.authorizationID = 0 /\ p.captureID = 0 /\ p.voidID = 0 /\ p.refundID = 0
    BY DEF NewPendingPayment, NoPayment
  <2>. HIDE DEF p
  <2>7. called[id]["capture"] = {} /\ called[id]["void"] = {} /\ called[id]["refund"] = {}
    BY <1>0, <1>5 DEF StartAuthorization, KeyInv, RowKeys
  <2>8. RowFits(id, p)
    BY <2>4, <2>6, <2>7 DEF RowFits, RowBank, Backed, Follows
  <2>9. PICK new \in [1..nextBankOperationKey' - 1 -> PaymentIDs] :
            Owns(new) /\ n \in DOMAIN new /\ new[n] = id
    BY <1>0, <2>2, FreshKeyOwned DEF MoneyInv
  <2>10. OwnedBy(new, id, Keys(p))
    BY <2>5, <2>9 DEF OwnedBy
  <2>11. CASE CallBank(a, id, payments'[id])
    BY <1>0, <2>1, <2>2, <2>3, <2>4, <2>8, <2>9, <2>10, <2>11, MoneyCalled DEF ExpectedStatus
  <2>12. CASE CommitLost(a)
    BY <1>0, <2>2, <2>4, <2>8, <2>9, <2>10, <2>12, MoneyWritten DEF CommitLost
  <2>. QED
    BY <1>5, <2>11, <2>12 DEF StartAuthorization
<1>6. ASSUME NEW a \in Attempts, ClaimPayment(a) PROVE MoneyInv'
  <2>. DEFINE r == request[a]
              id == r.paymentID
              row == payments[id]
              p == ensureBankOperationKey(r.operation, row, n)
  <2>1. r \in Requests /\ r.operation \in Operations /\ id \in PaymentIDs
    BY <1>0, <1>6, RequestFacts DEF ClaimPayment, TypeInv, Placed
  <2>2. payments' = [payments EXCEPT ![id] = p] /\ UNCHANGED request
    BY <1>6 DEF ClaimPayment, InsertClaim
  <2>3. payments'[id] = p
    BY <1>0, <2>1, <2>2 DEF TypeInv, TypeOK
  <2>4. /\ row \in Payment /\ RowKeys(row, called[id]) /\ RowBank(row, called[id])
        /\ called[id] \in [BankOperations -> SUBSET Nat]
    BY <1>0, <2>1 DEF KeyInv, MoneyInv, TypeInv, TypeOK
  <2>5. row.status # "absent" /\ row.status = ExpectedStatus(r.operation)
    BY <1>6 DEF ClaimPayment, AcquireError
  <2>6. IsLoadable(row)
    BY <1>0, <2>1, <2>5 DEF StoredInv, RowsInOrder
  <2>7. p \in Payment
    BY <1>1, <2>1, <2>4, EnsureKeyTypes
  <2>8. /\ RowBank(p, called[id]) /\ Follows(row, called[id], p)
        /\ IF BankOperationKey(r.operation, row) = 0 THEN Keys(p) \subseteq Keys(row) \cup {n}
                                                     ELSE p = row
    BY <1>1, <2>1, <2>4, <2>5, <2>6, EnsureFits
  <2>9. p.status = row.status
    BY <1>1, <2>1, <2>4, <2>5, EnsureKeepsRowKeys
  <2>. HIDE DEF p
  <2>10. PICK new \in [1..nextBankOperationKey' - 1 -> PaymentIDs] :
             Owns(new) /\ OwnedBy(new, id, Keys(p))
    <3>1. CASE BankOperationKey(r.operation, row) = 0
      <4>1. n' = n + 1
        BY <1>6, <3>1 DEF ClaimPayment
      <4>2. PICK new \in [1..nextBankOperationKey' - 1 -> PaymentIDs] :
                /\ Owns(new) /\ n \in DOMAIN new /\ new[n] = id
                /\ OwnedBy(new, id, Keys(row))
        BY <1>0, <2>1, <4>1, FreshKeyOwned DEF MoneyInv
      <4>3. OwnedBy(new, id, Keys(p))
        BY <2>8, <3>1, <4>2 DEF OwnedBy
      <4>. QED
        BY <4>2, <4>3
    <3>2. CASE BankOperationKey(r.operation, row) # 0
      <4>1. n' = n /\ p = row
        BY <1>6, <2>8, <3>2 DEF ClaimPayment
      <4>2. OwnedBy(owner, id, Keys(p))
        BY <1>2, <2>1, <4>1 DEF Owns
      <4>. QED
        BY <1>2, <4>1, <4>2
    <3>. QED
      BY <3>1, <3>2
  <2>11. RowFits(id, p)
    BY <2>8 DEF RowFits
  <2>12. CASE CallBank(a, id, payments'[id])
    BY <1>0, <2>1, <2>2, <2>3, <2>5, <2>7, <2>9, <2>10, <2>11, <2>12, MoneyCalled
  <2>13. CASE CommitLost(a)
    BY <1>0, <2>1, <2>2, <2>7, <2>10, <2>11, <2>13, MoneyWritten DEF CommitLost
  <2>. QED
    BY <1>6, <2>12, <2>13 DEF ClaimPayment
<1>7. ASSUME NEW a \in Attempts, BankAnswer(a) PROVE FALSE
  <2>1. pc[a] = "bank" /\ pc'[a] \in {"complete", "release"}
    BY <1>0, <1>7 DEF BankAnswer, AuthorizationAnswer, CaptureAnswer, VoidAnswer, RefundAnswer,
                      BankError, Completing, GoTo, TypeInv, TypeOK
  <2>. QED
    BY <2>1 DEF Service
<1>8. ASSUME NEW a \in Attempts, Complete(a) PROVE MoneyInv'
  <2>. DEFINE r == request[a]
              id == paymentID[a]
              p == payment[a]
  <2>1. id \in PaymentIDs /\ p \in Payment /\ pc[a] = "complete"
    BY <1>0, <1>8 DEF Complete, TypeInv, TypeOK, Placed
  <2>2. payments[id].status = ExpectedStatus(r.operation)
    BY <1>8 DEF Complete, CompleteError
  <2>3. RowFits(id, p)
    BY <2>1, <2>2, OutcomeFits
  <2>4. OwnedBy(owner, id, Keys(p))
    BY <1>2, <2>1 DEF Owns
  <2>5. /\ payments' = [payments EXCEPT ![id] = p]
        /\ UNCHANGED <<request, paymentID, called, nextBankOperationKey>>
        /\ \E answer : Return(a, answer)
    BY <1>8 DEF Complete, CompletePaymentCommand
  <2>. QED
    BY <1>0, <1>2, <2>1, <2>3, <2>4, <2>5, MoneyWritten
<1>9. ASSUME NEW a \in Attempts,
             \/ \E r \in Requests : Begin(a, r)
             \/ NothingToRecover(a) \/ SlotTaken(a)
      PROVE  MoneyInv'
  <2>1. /\ UNCHANGED <<payments, called, paymentID, payment, nextBankOperationKey>>
        /\ \A i \in Attempts \ {a} : request'[i] = request[i]
        /\ \E step \in {"recover", "insert", "select"} : pc' = [pc EXCEPT ![a] = step]
    BY <1>0, <1>9 DEF Begin, NothingToRecover, SlotTaken, GoTo, storeVars, TypeInv, TypeOK
  <2>2. \A i \in Attempts : Quiet(i)
    BY <1>0, <2>1 DEF Quiet, TypeInv, TypeOK
  <2>. QED
    BY <1>3, <2>1, <2>2
<1>10. ASSUME NEW a \in Attempts,
              \/ RejectRecovery(a) \/ RejectClaim(a) \/ Select(a)
              \/ RejectComplete(a) \/ Release(a) \/ DatabaseError(a)
       PROVE  MoneyInv'
  <2>1. /\ UNCHANGED <<payments, called, request, paymentID, nextBankOperationKey>>
        /\ \E answer : Return(a, answer)
    BY <1>10 DEF RejectRecovery, RejectClaim, Select, RejectComplete, Release,
                 ReleasePaymentCommand, DatabaseError, storeVars
  <2>2. \A i \in Attempts : Quiet(i)
    BY <1>0, <2>1 DEF Return, GoTo, Quiet, TypeInv, TypeOK
  <2>. QED
    BY <1>3, <2>1, <2>2
<1>11. ASSUME NEW a \in Attempts, Forget(a) PROVE MoneyInv'
  <2>1. \A i \in Attempts : Quiet(i)
    BY <1>0, <1>11 DEF Forget, GoTo, Quiet, TypeInv, TypeOK
  <2>. QED
    BY <1>3, <1>11, <2>1 DEF Forget, storeVars
<1>12. CASE Cleanup \/ Tick
  <2>1. UNCHANGED <<payments, called, pc, request, paymentID, payment, nextBankOperationKey>>
    BY <1>12 DEF Cleanup, CleanupCompletedIdempotencyRecords, Tick, StoreTick, attemptVars
  <2>. QED
    BY <1>3, <2>1 DEF Quiet
<1>. QED
  BY <1>4, <1>5, <1>6, <1>7, <1>8, <1>9, <1>10, <1>11, <1>12
     DEF Service, Next, Attempt, Proceed, Respond, Crash

----------------------------------------------------------------------------
(* Steps of the bank *)

\* A request on its way has a key of its payment and the payment's reference.
LEMMA CallFacts ==
    ASSUME TypeInv, KeyInv, NEW id \in PaymentIDs, NEW b \in BankOperations,
           NEW k \in called[id][b]
    PROVE  LET call == BankCall(id, b, k)
           IN  /\ call.slot \in BankSlot /\ call.reference \in Nat
               /\ call.slot = <<k, Paths[b]>>
               /\ call.reference = Reference(b, payments[id])
               /\ (call.slot[2] = "authorizations") => Reference(b, payments[id]) = 0
               /\ k \in Nat \ {0}
<1>1. payments[id] \in Payment /\ k \in Nat
  BY DEF TypeInv, TypeOK
<1>2. payments[id].authorizationID \in Nat /\ payments[id].captureID \in Nat
  <2>1. BankID \subseteq Nat
    BY BankIDsAssumption, SMT DEF BankID
  <2>2. payments[id].authorizationID \in BankID /\ payments[id].captureID \in BankID
    BY <1>1 DEF Payment
  <2>. QED
    BY <2>1, <2>2
<1>3. Reference(b, payments[id]) \in Nat
  BY <1>2 DEF Reference
<1>4. k # 0
  BY DEF KeyInv, RowKeys
<1>5. Paths[b] = "authorizations" => Reference(b, payments[id]) = 0
  BY PathFacts DEF Reference
<1>. QED
  BY <1>1, <1>3, <1>4, <1>5, PathFacts DEF BankCall, BankSlot

\* The entry the bank makes of a request on its way is asked for by it.
LEMMA CarriedOutAsked ==
    ASSUME TypeInv, KeyInv, LedgerInv, NEW id \in PaymentIDs, NEW b \in BankOperations,
           NEW k \in called[id][b], NEW i, CarryOut(BankCall(id, b, k), i),
           UNCHANGED <<payments, called>>
    PROVE  /\ LedgerInv' /\ LedgerGrows
           /\ DOMAIN ledger' = DOMAIN ledger \cup {i}
           /\ AskedFor(ledger[i], id, b)'
           /\ ledger'[i].slot = <<k, Paths[b]>>
<1>. DEFINE call == BankCall(id, b, k)
<1>1. /\ call.slot \in BankSlot /\ call.reference \in Nat
      /\ call.slot = <<k, Paths[b]>> /\ call.reference = Reference(b, payments[id])
      /\ (call.slot[2] = "authorizations") => Reference(b, payments[id]) = 0
  BY CallFacts, SMTT(20)
<1>. HIDE DEF call
<1>2. CarryOut(call, i)
  BY DEF call
<1>3. /\ LedgerInv' /\ LedgerGrows /\ DOMAIN ledger' = DOMAIN ledger \cup {i}
      /\ ledger'[i].slot = call.slot
      /\ ledger'[i].reference =
            IF call.slot[2] = "authorizations" THEN 0 ELSE call.reference
      /\ \E d \in BankOperations : call.slot[2] = Paths[d] /\ ledger'[i].type = EntryType[d]
  BY <1>1, <1>2, CarriedOut, SMT
<1>4. ledger'[i].reference = Reference(b, payments'[id])
  BY <1>1, <1>3
<1>5. ledger'[i].type = EntryType[b]
  <2>1. PICK d \in BankOperations :
            call.slot[2] = Paths[d] /\ ledger'[i].type = EntryType[d]
    BY <1>3
  <2>2. call.slot[2] = Paths[b]
    BY <1>1, SMT
  <2>3. d = b
    BY ONLY <2>1, <2>2, b \in BankOperations, PathsDiffer
  <2>. QED
    BY <2>1, <2>3
<1>6. ledger'[i].slot = <<k, Paths[b]>>
  BY <1>1, <1>3
<1>7. AskedFor(ledger[i], id, b)'
  <2>1. ledger'[i].slot[1] = k /\ ledger'[i].slot[2] = Paths[b]
    BY ONLY <1>6, SMT
  <2>2. k \in called'[id][b]
    OBVIOUS
  <2>. QED
    BY ONLY <1>4, <1>5, <2>1, <2>2 DEF AskedFor
<1>. QED
  BY <1>3, <1>6, <1>7

\* Two calls under one key are calls of one payment.
LEMMA OneOwner ==
    ASSUME KeyInv, KeysOwned, NEW id \in PaymentIDs, NEW j \in PaymentIDs,
           NEW b \in BankOperations, NEW d \in BankOperations,
           NEW k, k \in called[id][b] \cup Keys(payments[id]), k # 0,
           k \in called[j][d] \cup Keys(payments[j])
    PROVE  id = j
BY SMT DEF KeysOwned, Owns, OwnedBy

\* A response that is remembered for a call is the entry of that call.
LEMMA RememberedAsked ==
    ASSUME TypeInv, KeyInv, MoneyInv, NEW id \in PaymentIDs, NEW b \in BankOperations,
           NEW k \in called[id][b], NEW i \in DOMAIN ledger, ledger[i].slot = <<k, Paths[b]>>
    PROVE  AskedFor(ledger[i], id, b)
<1>1. PICK j \in PaymentIDs, d \in BankOperations : AskedFor(ledger[i], j, d)
  BY DEF MoneyInv, EntriesAskedFor
<1>2. d = b /\ k \in called[j][b]
  BY <1>1, PathFacts, SMT DEF AskedFor
<1>3. k # 0
  BY DEF KeyInv, RowKeys
<1>4. j = id
  BY <1>2, <1>3, OneOwner DEF MoneyInv
<1>. QED
  BY <1>1, <1>2, <1>4

\* The copy p marked with the entry i the bank made of its operation is backed.
LEMMA MarkedBacked ==
    ASSUME NEW p \in Payment, NEW operation \in Operations, NEW i \in BankIDs, IsLoadable(p),
           p.status = ExpectedStatus(operation), Backed(p)',
           IsEntry(i, BankOperationKey(operation, p), BankOperation(operation),
                   Reference(BankOperation(operation), p))'
    PROVE  LET q == Marked(BankOperation(operation), p, i)
           IN  /\ Backed(q)' /\ Keys(q) \subseteq Keys(p) \cup {0}
               /\ q.status # "expired"
               /\ operation \in {"capture_payment", "void_payment", "refund_payment"} =>
                     q.authorizationID = p.authorizationID
               /\ operation = "refund_payment" =>
                     q.captureID = p.captureID /\ q.captureKey = p.captureKey
<1>. DEFINE q == Marked(BankOperation(operation), p, i)
<1>1. CASE operation \in {"authorize_payment", "retry_authorization"}
  <2>1. q = MarkAuthorized(p, i)
    BY <1>1 DEF Marked, BankOperation
  <2>2. /\ q.status = "authorized" /\ q.authorizationID = i /\ q.captureID = p.captureID
        /\ q.voidID = p.voidID /\ q.refundID = p.refundID
    BY <2>1 DEF MarkAuthorized, Payment
  <2>3. /\ q.authorizationKey = p.authorizationKey /\ q.captureKey = p.captureKey
        /\ q.voidKey = p.voidKey /\ q.refundKey = p.refundKey
    BY <2>1 DEF MarkAuthorized, Payment
  <2>4. p.captureID = 0 /\ p.voidID = 0 /\ p.refundID = 0
    BY <1>1 DEF IsLoadable, LoadPayment, ExpectedStatus
  <2>5. IsEntry(i, p.authorizationKey, "authorize", 0)'
    BY <1>1 DEF BankOperationKey, BankOperation, Reference
  <2>. HIDE DEF q
  <2>. QED
    BY <1>1, <2>2, <2>3, <2>4, <2>5 DEF Backed, Keys, q
<1>2. CASE operation = "capture_payment"
  <2>1. q = MarkCaptured(p, i)
    BY <1>2 DEF Marked, BankOperation
  <2>2. /\ q.status = "captured" /\ q.authorizationID = p.authorizationID /\ q.captureID = i
        /\ q.voidID = p.voidID /\ q.refundID = p.refundID
    BY <2>1 DEF MarkCaptured, Payment
  <2>3. /\ q.authorizationKey = p.authorizationKey /\ q.captureKey = p.captureKey
        /\ q.voidKey = 0 /\ q.refundKey = p.refundKey
    BY <2>1 DEF MarkCaptured, Payment
  <2>4. p.voidID = 0 /\ p.refundID = 0
    BY <1>2 DEF IsLoadable, LoadPayment, ExpectedStatus
  <2>5. IsEntry(i, p.captureKey, "capture", p.authorizationID)'
    BY <1>2 DEF BankOperationKey, BankOperation, Reference
  <2>. HIDE DEF q
  <2>. QED
    BY <1>2, <2>2, <2>3, <2>4, <2>5 DEF Backed, Keys, q
<1>3. CASE operation = "void_payment"
  <2>1. q = MarkVoided(p, i)
    BY <1>3 DEF Marked, BankOperation
  <2>2. /\ q.status = "voided" /\ q.authorizationID = p.authorizationID
        /\ q.captureID = p.captureID /\ q.voidID = i /\ q.refundID = p.refundID
    BY <2>1 DEF MarkVoided, Payment
  <2>3. /\ q.authorizationKey = p.authorizationKey /\ q.captureKey = 0
        /\ q.voidKey = p.voidKey /\ q.refundKey = p.refundKey
    BY <2>1 DEF MarkVoided, Payment
  <2>4. p.captureID = 0 /\ p.refundID = 0
    BY <1>3 DEF IsLoadable, LoadPayment, ExpectedStatus
  <2>5. IsEntry(i, p.voidKey, "void", p.authorizationID)'
    BY <1>3 DEF BankOperationKey, BankOperation, Reference
  <2>. HIDE DEF q
  <2>. QED
    BY <1>3, <2>2, <2>3, <2>4, <2>5 DEF Backed, Keys, q
<1>4. CASE operation = "refund_payment"
  <2>1. q = MarkRefunded(p, i)
    BY <1>4 DEF Marked, BankOperation
  <2>2. /\ q.status = "refunded" /\ q.authorizationID = p.authorizationID
        /\ q.captureID = p.captureID /\ q.voidID = p.voidID /\ q.refundID = i
    BY <2>1 DEF MarkRefunded, Payment
  <2>3. /\ q.authorizationKey = p.authorizationKey /\ q.captureKey = p.captureKey
        /\ q.voidKey = p.voidKey /\ q.refundKey = p.refundKey
    BY <2>1 DEF MarkRefunded, Payment
  <2>4. IsEntry(i, p.refundKey, "refund", p.captureID)'
    BY <1>4 DEF BankOperationKey, BankOperation, Reference
  <2>. HIDE DEF q
  <2>. QED
    BY <1>4, <2>2, <2>3, <2>4 DEF Backed, Keys, q
<1>. QED
  BY <1>1, <1>2, <1>3, <1>4 DEF Operations

\* The bank's answer turns the copy of attempt a into q.
LEMMA MoneyAnswered ==
    ASSUME TypeInv, MoneyInv, NEW a \in Attempts, pc[a] = "bank", NEW q, Completing(a, q),
           UNCHANGED <<payments, called, nextBankOperationKey, request, paymentID>>,
           LedgerInv', LedgerGrows,
           \A i \in DOMAIN ledger' \ DOMAIN ledger :
               \E id \in PaymentIDs, b \in BankOperations : AskedFor(ledger[i], id, b)',
           Backed(q)', q.status = "expired" => q.authorizationID \in refused',
           Keys(q) \subseteq Keys(payment[a]) \cup {0},
           request[a].operation \in {"capture_payment", "void_payment", "refund_payment"} =>
               q.authorizationID = payment[a].authorizationID,
           request[a].operation = "refund_payment" =>
               q.captureID = payment[a].captureID /\ q.captureKey = payment[a].captureKey
    PROVE  MoneyInv'
<1>1. RowsFollow /\ CallsGrow
  BY DEF RowsFollow, Follows, CallsGrow
<1>2. EntriesAskedFor'
  BY <1>1, EntriesKept DEF MoneyInv, EntriesAskedFor
<1>3. /\ pc'[a] = "complete" /\ payment'[a] = q
      /\ \A i \in Attempts \ {a} : pc'[i] = pc[i] /\ payment'[i] = payment[i]
  BY DEF Completing, GoTo, TypeInv, TypeOK
<1>4. KeysOwned'
  <2>1. PICK owner \in [1..nextBankOperationKey - 1 -> PaymentIDs] : Owns(owner)
    BY DEF MoneyInv, KeysOwned
  <2>2. OwnedBy(owner, paymentID[a], Keys(payment[a]))
    BY <2>1 DEF Owns
  <2>3. OwnedBy(owner, paymentID[a], Keys(q))
    BY <2>2, OwnedSubset
  <2>4. Owns(owner)'
    BY <1>3, <2>1, <2>3 DEF Owns
  <2>. QED
    BY <2>1, <2>4 DEF KeysOwned
<1>5. \A id \in PaymentIDs : RowBank(payments[id], called[id])'
  BY RowBankKept DEF MoneyInv
<1>6. ASSUME NEW i \in Attempts PROVE CopyBank(i)'
  <2>1. CASE i = a
    <3>1. CopyBank(a)
      BY DEF MoneyInv
    <3>2. Backed(payment[a])'
      BY <1>3 DEF Backed
    <3>. QED
      BY <1>3, <2>1, <3>1, <3>2 DEF CopyBank
  <2>2. CASE i # a
    BY <1>1, <1>3, <2>2, CopyBankKept DEF MoneyInv
  <2>. QED
    BY <2>1, <2>2
<1>. QED
  BY <1>2, <1>4, <1>5, <1>6 DEF MoneyInv

\* The bank carries out the request of an attempt, or answers from memory.
LEMMA MoneySuccess ==
    ASSUME ServiceInv, MoneyInv, NEW a \in Attempts, SuccessAnswer(a)
    PROVE  MoneyInv'
<1>. DEFINE operation == request[a].operation
            b == BankOperation(operation)
            id == paymentID[a]
            row == payments[id]
            p == payment[a]
            k == BankOperationKey(operation, p)
<1>0. TypeInv /\ KeyInv /\ StoredInv
  BY DEF ServiceInv
<1>1. PICK i \in BankIDs : Succeeds(CallOf(a), i) /\ Completing(a, Marked(b, p, i))
  BY DEF SuccessAnswer
<1>2. /\ pc[a] = "bank"
      /\ UNCHANGED <<payments, called, nextBankOperationKey, request, paymentID>>
  BY DEF SuccessAnswer, BankAnswer, storeVars
<1>3. /\ operation \in Operations /\ b \in BankOperations /\ id \in PaymentIDs
      /\ p \in Payment
  BY <1>0, <1>2, RequestFacts DEF TypeInv, TypeOK, Placed, BankOperation, BankOperations
<1>4. IsLoadable(p) /\ p.status = ExpectedStatus(operation)
  BY <1>0, <1>2 DEF StoredInv, CopyInv
<1>5. /\ Backed(p) /\ k \in called[id][b]
      /\ operation \in {"capture_payment", "void_payment", "refund_payment"} =>
            p.authorizationID = row.authorizationID
      /\ operation = "refund_payment" => p.captureID = row.captureID
  BY <1>2 DEF MoneyInv, CopyBank
<1>6. Reference(b, row) = Reference(b, p)
  BY <1>3, <1>5 DEF Reference, BankOperation, Operations
<1>7. CallOf(a) = BankCall(id, b, k)
  BY DEF CallOf
<1>8. BankCall(id, b, k).slot = <<k, Paths[b]>>
  BY DEF BankCall
<1>. HIDE DEF operation, b, id, row, p, k
<1>9. PICK n \in PaymentIDs, d \in BankOperations : n = id /\ d = b
  BY <1>3
<1>10. /\ LedgerInv' /\ LedgerGrows /\ i \in DOMAIN ledger'
      /\ DOMAIN ledger' \subseteq DOMAIN ledger \cup {i}
      /\ AskedFor(ledger[i], n, d)' /\ ledger'[i].slot = <<k, Paths[b]>>
  <2>1. CASE CarryOut(BankCall(id, b, k), i)
    <3>1. PICK key \in called[n][d] : key = k
      BY <1>5, <1>9
    <3>2. LedgerInv /\ CarryOut(BankCall(n, d, key), i)
      BY <1>9, <2>1, <3>1 DEF MoneyInv
    <3>3. /\ LedgerInv' /\ LedgerGrows /\ DOMAIN ledger' = DOMAIN ledger \cup {i}
          /\ AskedFor(ledger[i], n, d)' /\ ledger'[i].slot = <<key, Paths[d]>>
      <4>1. TypeInv /\ KeyInv /\ LedgerInv /\ UNCHANGED <<payments, called>>
        BY <1>0, <1>2, <3>2
      <4>2. CarryOut(BankCall(n, d, key), i)
        BY <3>2
      <4>. QED
        BY ONLY <4>1, <4>2, n \in PaymentIDs, d \in BankOperations,
                key \in called[n][d], CarriedOutAsked, ZenonT(60)
    <3>. QED
      BY <1>9, <3>1, <3>3
  <2>2. CASE i \in cached /\ ledger[i].slot = <<k, Paths[b]>> /\ UNCHANGED bankVars
    <3>1. LedgerInv' /\ LedgerGrows
      BY <2>2, BankKept DEF MoneyInv, bankVars
    <3>2. i \in DOMAIN ledger /\ DOMAIN ledger' = DOMAIN ledger
      BY <2>2 DEF MoneyInv, LedgerInv, bankVars
    <3>3. AskedFor(ledger[i], id, b)
      BY <1>0, <1>3, <1>5, <2>2, <3>2, RememberedAsked
    <3>4. AskedFor(ledger[i], n, d)'
      BY <1>2, <1>9, <2>2, <3>3 DEF AskedFor, bankVars
    <3>. QED
      BY <2>2, <3>1, <3>2, <3>4 DEF bankVars
  <2>. QED
    BY <1>1, <1>7, <1>8, <2>1, <2>2 DEF Succeeds
<1>11. PICK q : q = Marked(b, p, i)
  OBVIOUS
<1>12. PICK old \in Payment : old = p
  BY <1>3
<1>13. PICK o \in Operations : o = operation
  BY <1>3
<1>14. IsEntry(i, BankOperationKey(o, old), BankOperation(o), Reference(BankOperation(o), old))'
  <2>1. ledger'[i].reference = Reference(b, old)
    BY <1>2, <1>6, <1>10, <1>12, <1>9 DEF AskedFor, row
  <2>. QED
    BY <1>10, <1>12, <1>13, <2>1 DEF IsEntry, b, k
<1>15. Backed(old)'
  BY <1>5, <1>10, <1>12, BackedKept
<1>16. q = Marked(BankOperation(o), old, i)
  BY <1>11, <1>12, <1>13 DEF b
<1>17. /\ Backed(q)' /\ Keys(q) \subseteq Keys(old) \cup {0}
       /\ q.status # "expired"
       /\ o \in {"capture_payment", "void_payment", "refund_payment"} =>
             q.authorizationID = old.authorizationID
       /\ o = "refund_payment" => q.captureID = old.captureID /\ q.captureKey = old.captureKey
  BY <1>4, <1>12, <1>13, <1>14, <1>15, <1>16, MarkedBacked
<1>18. ASSUME NEW j \in DOMAIN ledger' \ DOMAIN ledger
       PROVE  \E m \in PaymentIDs, e \in BankOperations : AskedFor(ledger[j], m, e)'
  BY <1>10
<1>. QED
  BY <1>0, <1>1, <1>2, <1>10, <1>11, <1>12, <1>13, <1>17, <1>18, MoneyAnswered DEF p, operation

\* The hold expired: the bank refuses to capture it from now on.
LEMMA MoneyExpired ==
    ASSUME ServiceInv, MoneyInv, NEW a \in Attempts, ExpiredAnswer(a)
    PROVE  MoneyInv'
<1>0. TypeInv /\ KeyInv /\ StoredInv
  BY DEF ServiceInv
<1>1. /\ pc[a] = "bank" /\ request[a].operation = "capture_payment"
      /\ UNCHANGED <<payments, called, nextBankOperationKey, request, paymentID, ledger, cached>>
      /\ Completing(a, MarkExpired(payment[a]))
      /\ Bank!RefuseExpired(payment[a].authorizationID)
  BY DEF ExpiredAnswer, BankAnswer, storeVars
<1>2. PICK p \in Payment : p = payment[a]
  BY <1>0 DEF TypeInv, TypeOK
<1>3. PICK q : q = MarkExpired(p)
  OBVIOUS
<1>4. Backed(p) /\ IsLoadable(p) /\ p.status = "authorized"
  BY <1>0, <1>1, <1>2 DEF MoneyInv, CopyBank, StoredInv, CopyInv, ExpectedStatus
<1>5. LedgerInv' /\ LedgerGrows /\ p.authorizationID \in refused'
  BY <1>1, <1>2, ExpiryRefused DEF MoneyInv
<1>6. /\ q.authorizationID = p.authorizationID /\ q.captureID = p.captureID
      /\ q.voidID = p.voidID /\ q.refundID = p.refundID
      /\ q.authorizationKey = p.authorizationKey /\ q.refundKey = p.refundKey
      /\ q.captureKey = 0 /\ q.voidKey = 0
  BY <1>3 DEF MarkExpired, Payment
<1>7. p.captureID = 0 /\ p.voidID = 0 /\ p.refundID = 0
  BY <1>4 DEF IsLoadable, LoadPayment
<1>8. Backed(p)'
  BY <1>4, <1>5, BackedKept
<1>9. Backed(q)'
  BY <1>6, <1>7, <1>8 DEF Backed
<1>10. Keys(q) \subseteq Keys(p) \cup {0}
  BY <1>6 DEF Keys
<1>. QED
  BY <1>0, <1>1, <1>2, <1>3, <1>5, <1>6, <1>9, <1>10, MoneyAnswered

\* The answer says nothing of an entry, or cannot be used.
LEMMA MoneyOther ==
    ASSUME ServiceInv, MoneyInv, NEW a \in Attempts, OtherAnswer(a)
    PROVE  MoneyInv'
<1>0. TypeInv /\ KeyInv /\ StoredInv
  BY DEF ServiceInv
<1>1. /\ pc[a] = "bank" /\ UNCHANGED bankVars
      /\ UNCHANGED <<payments, called, nextBankOperationKey, request, paymentID>>
  BY DEF OtherAnswer, BankAnswer, storeVars
<1>2. PICK p \in Payment : p = payment[a]
  BY <1>0 DEF TypeInv, TypeOK
<1>3. LedgerInv' /\ LedgerGrows /\ DOMAIN ledger' = DOMAIN ledger
  BY <1>1, BankKept DEF MoneyInv, bankVars
<1>4. Backed(p) /\ IsLoadable(p)
  BY <1>0, <1>1, <1>2 DEF MoneyInv, CopyBank, StoredInv, CopyInv
<1>5. CASE BankError(a)
  <2>1. \A i \in Attempts : Quiet(i)
    BY <1>0, <1>1, <1>5 DEF BankError, GoTo, Quiet, TypeInv, TypeOK
  <2>. QED
    BY <1>0, <1>1, <1>3, <2>1, MoneyQuiet
<1>6. ASSUME NEW q, Completing(a, q) PROVE q.status \in {"pending", "declined"}
  BY <1>0, <1>6 DEF OtherAnswer, Completing, GoTo, TypeInv, TypeOK
<1>7. CASE AuthorizationAnswer(a)
  <2>1. p.status = "pending" /\ request[a].operation \in {"authorize_payment", "retry_authorization"}
    BY <1>2, <1>7 DEF AuthorizationAnswer
  <2>2. \A i : MarkAuthorized(p, i).status = "authorized"
    BY DEF MarkAuthorized, Payment
  <2>3. PICK q : Completing(a, q) /\ (q = p \/ \E reason : q = MarkDeclined(p, reason))
    BY <1>2, <1>6, <1>7, <2>2 DEF AuthorizationAnswer
  <2>4. /\ p.authorizationID = 0 /\ p.captureID = 0 /\ p.voidID = 0 /\ p.refundID = 0
    BY <1>4, <2>1 DEF IsLoadable, LoadPayment
  <2>5. /\ q.authorizationID = 0 /\ q.captureID = p.captureID
        /\ q.voidID = p.voidID /\ q.refundID = p.refundID
    BY <2>3, <2>4 DEF MarkDeclined, Payment
  <2>6. /\ q.authorizationKey = p.authorizationKey /\ q.captureKey = p.captureKey
        /\ q.voidKey = p.voidKey /\ q.refundKey = p.refundKey
    BY <2>3 DEF MarkDeclined, Payment
  <2>7. Backed(q)' /\ Keys(q) \subseteq Keys(p) \cup {0}
    BY <2>4, <2>5, <2>6 DEF Backed, Keys
  <2>8. q.status # "expired"
    BY <1>6, <2>3
  <2>. QED
    BY <1>0, <1>1, <1>2, <1>3, <2>1, <2>3, <2>7, <2>8, MoneyAnswered
<1>8. CASE CaptureAnswer(a) \/ VoidAnswer(a) \/ RefundAnswer(a)
  <2>1. /\ \A i : MarkCaptured(p, i).status = "captured" /\ MarkVoided(p, i).status = "voided"
        /\ \A i : MarkRefunded(p, i).status = "refunded"
        /\ MarkExpired(p).status = "expired"
    BY DEF MarkCaptured, MarkVoided, MarkRefunded, MarkExpired, Payment
  <2>. QED
    BY <1>2, <1>6, <1>8, <2>1 DEF CaptureAnswer, VoidAnswer, RefundAnswer
<1>. QED
  BY <1>5, <1>7, <1>8 DEF OtherAnswer, BankAnswer

\* A request nobody waits for is carried out.
LEMMA MoneyLate ==
    ASSUME ServiceInv, MoneyInv, LateCall
    PROVE  MoneyInv'
<1>0. TypeInv /\ KeyInv /\ LedgerInv /\ UNCHANGED vars
  BY DEF ServiceInv, MoneyInv, LateCall
<1>1. UNCHANGED <<payments, called, nextBankOperationKey>> /\ \A a \in Attempts : Quiet(a)
  BY <1>0 DEF vars, Quiet
<1>2. PICK call \in Sent, i \in BankIDs : CarryOut(call, i)
  BY DEF LateCall
<1>3. PICK id \in PaymentIDs, b \in BankOperations :
          \E k \in called[id][b] : call = BankCall(id, b, k)
  BY <1>2, SMT DEF Sent
<1>4. PICK k \in called[id][b] : call = BankCall(id, b, k)
  BY <1>3
<1>5. /\ LedgerInv' /\ LedgerGrows /\ DOMAIN ledger' = DOMAIN ledger \cup {i}
      /\ AskedFor(ledger[i], id, b)'
  BY <1>0, <1>1, <1>2, <1>4, CarriedOutAsked
<1>. QED
  BY <1>0, <1>1, <1>5, MoneyQuiet

----------------------------------------------------------------------------
(* The invariant, and what it says *)

\* An empty ledger and no payment agree.
LEMMA MoneyInit == GatewayBankInit => MoneyInv
<1>. SUFFICES ASSUME GatewayBankInit PROVE MoneyInv
  OBVIOUS
<1>1. Init /\ ledger = <<>> /\ cached = {} /\ refused = {}
  BY DEF GatewayBankInit, Bank!Init
<1>2. LedgerInv /\ EntriesAskedFor
  <2>1. DOMAIN ledger = {} /\ ledger \in Seq(BankEntry)
    BY <1>1, SMT
  <2>2. SettledHolds
    BY <2>1 DEF SettledHolds
  <2>3. EntriesAskedFor
    BY <2>1 DEF EntriesAskedFor
  <2>. QED
    BY <1>1, <2>1, <2>2, <2>3 DEF LedgerInv
<1>3. /\ Keys(NoPayment) = {0} /\ NoPayment.status = "absent"
      /\ NoPayment.authorizationID = 0 /\ NoPayment.captureID = 0
      /\ NoPayment.voidID = 0 /\ NoPayment.refundID = 0
  BY DEF NoPayment, Keys
<1>4. /\ \A id \in PaymentIDs : /\ payments[id] = NoPayment
                                /\ \A b \in BankOperations : called[id][b] = {}
      /\ \A a \in Attempts : pc[a] = "idle"
      /\ nextBankOperationKey = 1
  BY <1>1 DEF Init, StoreInit
<1>5. KeysOwned
  <2>1. 1..nextBankOperationKey - 1 = {}
    BY <1>4, SMT
  <2>2. [k \in {} |-> k] \in [{} -> PaymentIDs]
    OBVIOUS
  <2>3. PICK owner \in [1..nextBankOperationKey - 1 -> PaymentIDs] : TRUE
    BY <2>1, <2>2
  <2>4. Owns(owner)
    BY <1>3, <1>4, SMT DEF Owns, OwnedBy
  <2>. QED
    BY <2>3, <2>4 DEF KeysOwned
<1>6. \A id \in PaymentIDs : RowBank(payments[id], called[id])
  BY <1>3, <1>4 DEF RowBank, Backed, BankOperations
<1>7. \A a \in Attempts : CopyBank(a)
  BY <1>4 DEF CopyBank
<1>. QED
  BY <1>2, <1>5, <1>6, <1>7 DEF MoneyInv

\* Every step of the gateway and the bank keeps them in agreement.
LEMMA MoneyStep == ServiceInv /\ MoneyInv /\ [GatewayBankNext]_gatewayBankVars => MoneyInv'
<1>. SUFFICES ASSUME ServiceInv, MoneyInv, [GatewayBankNext]_gatewayBankVars PROVE MoneyInv'
  OBVIOUS
<1>1. ASSUME UNCHANGED <<vars, ledger, refused>>, cached' \subseteq cached PROVE MoneyInv'
  <2>1. UNCHANGED <<payments, called, nextBankOperationKey>> /\ \A a \in Attempts : Quiet(a)
    BY <1>1 DEF vars, Quiet
  <2>2. LedgerInv' /\ LedgerGrows /\ DOMAIN ledger' = DOMAIN ledger
    BY <1>1, BankKept DEF MoneyInv
  <2>. QED
    BY <2>1, <2>2, MoneyQuiet DEF ServiceInv
<1>2. CASE ForgetResponse
  BY <1>1, <1>2 DEF ForgetResponse
<1>3. CASE UNCHANGED gatewayBankVars
  BY <1>1, <1>3 DEF gatewayBankVars, bankVars
<1>4. CASE Service(Next)
  BY <1>4, MoneyServiceStep
<1>5. CASE \E a \in Attempts : AnswerFromBank(a)
  BY <1>5, MoneySuccess, MoneyExpired, MoneyOther DEF AnswerFromBank
<1>6. CASE LateCall
  BY <1>6, MoneyLate
<1>. QED
  BY <1>2, <1>3, <1>4, <1>5, <1>6 DEF GatewayBankNext

\* The gateway and the bank agree for good.
LEMMA MoneyInvariant == GatewayBankSpec => [](ServiceInv /\ MoneyInv)
<1>. QED
  BY ServiceInvariant, MoneyInit, MoneyStep, PTL DEF GatewayBankSpec

\* With the bank attached the gateway is still the payment service: whatever was
\* proved of the service alone, with a bank that may answer anything, holds here.
THEOREM GatewayBankImplementsService == GatewayBankSpec => Spec
<1>1. GatewayBankInit => Init
  BY DEF GatewayBankInit
<1>. QED
  BY <1>1, ServiceSteps, PTL DEF GatewayBankSpec, Spec

\* Through crashes, missed deadlines, recoveries, duplicated and late requests
\* and forgotten responses, every bank identifier in the payments table is the
\* bank's own entry for that payment, under its key and about its hold.
THEOREM MoneyAlwaysAgrees == GatewayBankSpec => []MoneyAgrees
<1>1. MoneyInv => MoneyAgrees
  BY DEF MoneyInv, MoneyAgrees, RowBank, Backed
<1>. QED
  BY <1>1, MoneyInvariant, PTL

\* The payment a capture entry was made for is past its authorization, and the
\* hold it took is that payment's.
LEMMA CaptureOwner ==
    ASSUME ServiceInv, MoneyInv, NEW i \in DOMAIN ledger, ledger[i].type = "CAPTURE"
    PROVE  \E j \in PaymentIDs :
              /\ payments[j].status \notin {"absent", "pending", "declined"}
              /\ payments[j].authorizationKey # 0
              /\ ledger[i].reference = payments[j].authorizationID
              /\ ledger[ledger[i].reference].slot =
                    <<payments[j].authorizationKey, Paths["authorize"]>>
<1>1. PICK j \in PaymentIDs, b \in BankOperations : AskedFor(ledger[i], j, b)
  BY DEF MoneyInv, EntriesAskedFor
<1>. DEFINE q == payments[j]
<1>2. b = "capture"
  <2>1. EntryType[b] = "CAPTURE"
    BY <1>1 DEF AskedFor
  <2>. QED
    BY <2>1, PathFacts DEF BankOperations
<1>3. called[j]["capture"] # {} /\ ledger[i].reference = q.authorizationID
  BY <1>1, <1>2 DEF AskedFor, Reference
<1>4. RowKeys(q, called[j]) /\ RowBank(q, called[j])
  BY DEF ServiceInv, KeyInv, MoneyInv
<1>5. q.status \notin {"absent", "pending", "declined"} /\ q.authorizationKey # 0
  BY <1>3, <1>4 DEF RowKeys, RowBank
<1>6. IsLoadable(q)
  BY <1>5 DEF ServiceInv, StoredInv, RowsInOrder
<1>7. q.authorizationID # 0
  BY <1>5, <1>6 DEF IsLoadable, StatusPrivateFieldsCheck
<1>8. IsEntry(q.authorizationID, q.authorizationKey, "authorize", 0)
  BY <1>4, <1>7 DEF RowBank, Backed
<1>. QED
  BY <1>3, <1>5, <1>8 DEF IsEntry

\* No money is taken behind a payment the gateway calls pending, declined,
\* voided or expired, neither before nor after it says so: a key belongs to one
\* payment, a hold is settled once, and a refused hold is never captured.
THEOREM NothingEverTaken == GatewayBankSpec => []NothingTaken
<1>1. ServiceInv /\ MoneyInv => NothingTaken
  <2>. SUFFICES ASSUME ServiceInv, MoneyInv, NEW id \in PaymentIDs,
                       payments[id].status \in {"pending", "declined", "voided", "expired"},
                       NEW i \in TakenFor(payments[id])
                PROVE  FALSE
    BY DEF NothingTaken
  <2>. DEFINE p == payments[id]
              h == ledger[i].reference
  <2>1. /\ i \in DOMAIN ledger /\ ledger[i].type = "CAPTURE"
        /\ ledger[h].slot = <<p.authorizationKey, Paths["authorize"]>>
    BY DEF TakenFor
  <2>2. PICK j \in PaymentIDs :
            /\ payments[j].status \notin {"absent", "pending", "declined"}
            /\ payments[j].authorizationKey # 0
            /\ h = payments[j].authorizationID
            /\ ledger[h].slot = <<payments[j].authorizationKey, Paths["authorize"]>>
    BY <2>1, CaptureOwner
  <2>3. p.authorizationKey = payments[j].authorizationKey
    BY ONLY <2>1, <2>2, SMT
  <2>4. id = j
    <3>1. /\ p.authorizationKey \in Keys(p) /\ p.authorizationKey \in Keys(payments[j])
          /\ "authorize" \in BankOperations
      BY <2>3 DEF Keys, BankOperations
    <3>. QED
      BY <2>2, <2>3, <3>1, OneOwner DEF ServiceInv, MoneyInv
  <2>5. p.status \in {"voided", "expired"} /\ h = p.authorizationID
    BY <2>2, <2>4
  <2>6. RowBank(p, called[id]) /\ IsLoadable(p)
    BY <2>5 DEF ServiceInv, MoneyInv, StoredInv, RowsInOrder
  <2>7. Settlement(i) /\ h \notin refused
    BY <2>1 DEF Settlement, MoneyInv, LedgerInv, SettledHolds
  <2>8. CASE p.status = "expired"
    BY <2>5, <2>6, <2>7, <2>8 DEF RowBank
  <2>9. CASE p.status = "voided"
    <3>. DEFINE v == p.voidID
    <3>1. v # 0
      BY <2>6, <2>9 DEF IsLoadable, LoadPayment
    <3>2. v \in DOMAIN ledger /\ ledger[v].slot[2] = Paths["void"] /\ ledger[v].reference = h
      <4>1. IsEntry(v, p.voidKey, "void", p.authorizationID)
        BY <2>6, <3>1 DEF RowBank, Backed
      <4>. QED
        BY <2>5, <4>1, SMT DEF IsEntry
    <3>3. PICK n \in PaymentIDs, d \in BankOperations : AskedFor(ledger[v], n, d)
      BY <3>2 DEF MoneyInv, EntriesAskedFor
    <3>4. ledger[v].type = "VOID"
      BY <3>2, <3>3, PathFacts DEF AskedFor, BankOperations
    <3>5. Settlement(v)
      BY <3>4 DEF Settlement
    <3>6. v = i
      BY <2>1, <2>7, <3>2, <3>5 DEF MoneyInv, LedgerInv, SettledHolds
    <3>. QED
      BY <2>1, <3>4, <3>6
  <2>. QED
    BY <2>5, <2>8, <2>9
<1>. QED
  BY <1>1, MoneyInvariant, PTL
=============================================================================
