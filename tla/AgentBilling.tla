---------------------------- MODULE AgentBilling ----------------------------
(***************************************************************************)
(* What one agent owes the office: packages/db/src/agent-billing.ts.       *)
(*                                                                         *)
(* Invoices are made by hand or from a recurring rule, payments and credit *)
(* memos are applied to them.  A balance is nowhere stored: it is the total*)
(* of a row less the sum of its applications, read before the transaction  *)
(* that adds an application writes.  A handler reads (one snapshot stands  *)
(* for the reads of its statements) and later commits what it computed.    *)
(*                                                                         *)
(* Days are numbered and the rule falls due every day.  Invoices are paid  *)
(* in the order they were made, which stands for the order of due dates.   *)
(* The accounting page, which edits any row and looks at no application,   *)
(* is left out.                                                            *)
(***************************************************************************)
EXTENDS Integers, Sequences, FiniteSets, Functions, FiniteSetsExt, ReadThenWrite

CONSTANTS
  Prices,    \* of charges and credit memos
  Amounts,   \* that people ask to pay or to apply
  LastDate,  \* days looked at
  MaxRows    \* how many rows are made

ASSUME BillingAssumption ==
  /\ Prices \subseteq Nat \ {0} /\ Amounts \subseteq Nat \ {0}
  /\ LastDate \in Nat /\ MaxRows \in Nat \ {0}

VARIABLES
  rows,     \* invoices, credit memos and payments of the agent
  applied,  \* what is applied from one row to another, in all
  rule      \* the recurring charge

vars == <<rows, applied, rule, slot, stale>>

Ids == 1..MaxRows

----------------------------------------------------------------------------
Row(type, total, status, due) ==
  [type |-> type, total |-> total, status |-> status, due |-> due]

\* perhaps a credit memo: no handler makes one that can be applied
Init ==
  /\ rows \in {<<>>} \cup {<<Row("credit_memo", a, "posted", 0)>> : a \in Prices}
  /\ applied = [p \in Ids \X Ids |-> 0]
  /\ rule \in [amount : Prices, next : {1}, end : 1..LastDate, active : {TRUE}]
  /\ slot = [s \in Slots |-> Idle]
  /\ stale = FALSE

----------------------------------------------------------------------------
(* Balances *)

\* sumApplications of applicationsTo and of applicationsFrom
Sum(i) ==
  IF rows[i].type = "invoice" THEN MapThenSumSet(LAMBDA j : applied[<<j, i>>], Ids)
                              ELSE MapThenSumSet(LAMBDA j : applied[<<i, j>>], Ids)

Rest_Total(i) == rows[i].total

\* getInvoiceOutstandingAmount, getSourceRemainingAmount
Rest(i) == Max({0, rows[i].total - Sum(i)})

OfType(type) == {i \in DOMAIN rows : rows[i].type = type}

Synced_Touched(row, sum) ==
  IF sum > 0 THEN "completed" ELSE IF row.type = "invoice" THEN "open" ELSE "posted"

\* syncAppliedTransactionStatus (drafts and void rows come from the accounting page
\* only)
Synced(row, sum) ==
  IF sum >= row.total THEN "completed"
  ELSE IF row.type = "invoice" THEN "open" ELSE "posted"

----------------------------------------------------------------------------
\* requests that read what the others write
Balances == {"pay", "credit"}
Recurring == {"generate", "update"}

Await(s, op, put) ==
  /\ slot[s].op = "idle"
  /\ slot' = [slot EXCEPT ![s] = [op |-> op, put |-> put, fresh |-> TRUE]]
  /\ UNCHANGED <<rows, applied, rule, stale>>

\* a transaction that fails leaves nothing
Abort(s) ==
  /\ slot[s].op # "idle"
  /\ slot' = [slot EXCEPT ![s] = Idle]
  /\ UNCHANGED <<rows, applied, rule, stale>>

----------------------------------------------------------------------------
(* Charges *)

\* createAgentBillingCharges looks at no row
Charge ==
  /\ Len(rows) < MaxRows
  /\ \E a \in Prices : rows' = Append(rows, Row("invoice", a, "open", 0))
  /\ UNCHANGED <<applied, rule, slot, stale>>

\* the dates that generateDueAgentBillingCharges steps through
Due(asOf) == rule.next..Min({asOf, rule.end})

Cursor_Today(asOf) == asOf + 1

\* where it stops
Cursor(asOf) == rule.next + Cardinality(Due(asOf))

ReadRule(s) ==
  \E asOf \in 1..LastDate :
    /\ rule.active /\ rule.next <= asOf
    /\ Await(s, "generate", [dates |-> Due(asOf), amount |-> rule.amount,
                             next |-> Cursor(asOf)])

Generate(s) ==
  LET put == slot[s].put
      n == Cardinality(put.dates)
  IN
  /\ slot[s].op = "generate"
  /\ Len(rows) + n <= MaxRows
  /\ rows' = rows \o [k \in 1..n |->
                Row("invoice", put.amount, "open", Min(put.dates) + k - 1)]
  /\ rule' = [rule EXCEPT !.next = put.next]
  /\ Commit(s, Recurring)
  /\ UNCHANGED applied

\* updateAgentRecurringChargeRule writes back the due date it read.  (A date that is
\* typed in means what it says and is left out.)
ReadToUpdate(s) ==
  \E end \in 1..LastDate, active \in BOOLEAN :
    Await(s, "update", [rule EXCEPT !.end = end, !.active = active])

Update(s) ==
  /\ slot[s].op = "update"
  /\ rule' = slot[s].put
  /\ Commit(s, Recurring)
  /\ UNCHANGED <<rows, applied>>

----------------------------------------------------------------------------
(* Payments and credits *)

Applicable_Asked(asked, from, to) == Max({0, asked})

\* applyAccountingTransactionToInvoice applies no more than is left on either side
Applicable(asked, from, to) == Max({0, Min({asked, from, to})})

\* the statuses that change when share is applied to invoices
Settled(share) ==
  LET now == [i \in DOMAIN share |-> Synced(rows[i], Sum(i) + share[i])]
  IN Restrict(now, {i \in DOMAIN share : share[i] > 0 /\ now[i] # rows[i].status})

\* recordAgentBillingPayment: what is asked, or all that is owed, from the first
\* of the chosen invoices on
Shares(I, asked) ==
  [i \in I |-> LET left == asked - MapThenSumSet(Rest, {j \in I : j < i})
               IN Applicable(left, left, Rest(i))]

ReadToPay(s) ==
  \E I \in SUBSET OfType("invoice"), amount \in Amounts \cup {None} :
    LET asked == IF amount = None THEN MapThenSumSet(Rest, I) ELSE amount IN
    /\ I # {} /\ asked > 0
    /\ Await(s, "pay", [total |-> asked, share |-> Shares(I, asked),
                        status |-> Settled(Shares(I, asked))])

\* applyAgentBillingCreditMemo
ReadToCredit(s) ==
  \E c \in OfType("credit_memo"), i \in OfType("invoice"), amount \in Amounts \cup {None} :
    LET asked == IF amount = None THEN Min({Rest(c), Rest(i)}) ELSE amount
        share == [j \in {i} |-> Applicable(asked, Rest(c), Rest(i))]
        settled == Settled(share)
        used == Synced(rows[c], Sum(c) + share[i])
        changed == DOMAIN settled \cup (IF used # rows[c].status THEN {c} ELSE {})
    IN
    /\ Rest(c) > 0 /\ Rest(i) > 0
    /\ Await(s, "credit", [from |-> c, share |-> share,
         status |-> [j \in changed |-> IF j = c THEN used ELSE settled[j]]])

Applying(from, share) ==
  [p \in Ids \X Ids |->
     applied[p] + IF p[1] = from /\ p[2] \in DOMAIN share THEN share[p[2]] ELSE 0]

Marked(status) ==
  [i \in DOMAIN rows |-> IF i \in DOMAIN status THEN [rows[i] EXCEPT !.status = status[i]]
                         ELSE rows[i]]

Pay(s) ==
  LET put == slot[s].put
      payment == Row("received_payment", put.total, "posted", 0)
      used == MapThenSumSet(LAMBDA i : put.share[i], DOMAIN put.share)
  IN
  /\ slot[s].op = "pay"
  /\ Len(rows) < MaxRows
  /\ rows' = Append(Marked(put.status),
                    [payment EXCEPT !.status = Synced(payment, used)])
  /\ applied' = Applying(Len(rows) + 1, put.share)
  /\ Commit(s, Balances)
  /\ UNCHANGED rule

Credit(s) ==
  LET put == slot[s].put IN
  /\ slot[s].op = "credit"
  /\ rows' = Marked(put.status)
  /\ applied' = Applying(put.from, put.share)
  /\ Commit(s, Balances)
  /\ UNCHANGED rule

Next ==
  \/ Charge
  \/ \E s \in Slots :
       \/ ReadRule(s) \/ Generate(s) \/ ReadToUpdate(s) \/ Update(s)
       \/ ReadToPay(s) \/ Pay(s) \/ ReadToCredit(s) \/ Credit(s) \/ Abort(s)

Spec == Init /\ [][Next]_vars

----------------------------------------------------------------------------
(* Properties *)

TypeOK ==
  /\ rows \in Seq([type : {"invoice", "credit_memo", "received_payment"},
                    total : Nat, status : {"open", "posted", "completed"}, due : 0..LastDate])
  /\ Len(rows) <= MaxRows
  /\ applied \in [Ids \X Ids -> Nat]
  /\ rule \in [amount : Prices, next : 1..(LastDate + 1), end : 1..LastDate,
               active : BOOLEAN]
  /\ \A s \in Slots : slot[s].op \in {"idle", "generate", "update", "pay", "credit"}
  /\ stale \in BOOLEAN

\* Under any overlap, a payment is not applied to more than it paid, although the
\* same invoices may be paid twice at the same time (recordAgentBillingPayment).
PaymentsCover ==
  \A i \in OfType("received_payment") : Sum(i) <= rows[i].total

\* Under any overlap, nothing shows completed that is not settled
\* (syncAppliedTransactionStatus).
CompletedMeansSettled ==
  \A i \in DOMAIN rows :
    rows[i].status = "completed" => Sum(i) >= rows[i].total

\* As long as nobody wrote over what they had not seen, no invoice is settled twice
\* and no credit is spent twice (applyAccountingTransactionToInvoice).
NothingTwice ==
  ~stale => \A i \in DOMAIN rows : Sum(i) <= rows[i].total

\* Likewise each day up to the next due date was charged once and none after it,
\* however often charges are generated and the rule paused, ended and extended
\* (generateDueAgentBillingCharges).
EachDayOnce ==
  ~stale =>
    \A d \in 1..LastDate :
      Cardinality({i \in DOMAIN rows : rows[i].due = d}) = IF d < rule.next THEN 1 ELSE 0
=============================================================================
