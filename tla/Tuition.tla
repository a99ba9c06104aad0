------------------------------ MODULE Tuition -------------------------------
(***************************************************************************)
(* A student's tuition and its payments (app/lms/tuition.go, payment.go,   *)
(* store/sqlstore/lms_store).  The row keeps what has been paid beside the *)
(* payments table; CreatePayment saves the payment and then recomputes the *)
(* row from the table, one store call at a time.  Payments are inserted or *)
(* go with their tuition, so the table is its sum.                         *)
(***************************************************************************)
EXTENDS LmsRequests

CONSTANTS Amounts,   \* amounts of a payment
          Totals     \* total amounts of a tuition

ASSUME TuitionAssumption ==
    /\ Amounts \subseteq Nat \ {0}
    /\ Totals \subseteq Nat

VARIABLES tuition,   \* the row: total, paid, remaining and status
          there,     \* is the row there?
          payments,  \* the sum of its payments
          pay,       \* worker -> program counter and locals
          settled    \* history: was the row last written by a recomputation
                     \* that no payment and no edit overtook?

tuitionVars == <<tuition, there, payments, pay, settled>>

NewRow(total) == [total |-> total, paid |-> 0, remaining |-> 0, status |-> "PENDING"]
NoRequest == [pc |-> "idle", row |-> NewRow(0), sum |-> 0, fresh |-> FALSE]

\* CreateTuition has stored what the form sent.
TuitionInit ==
    /\ \E total \in Totals : tuition = NewRow(total)
    /\ there = TRUE
    /\ payments = 0
    /\ pay = [w \in Workers |-> NoRequest]
    /\ settled = FALSE

PayAt(w, pc) == pay[w].pc = pc

\* The other requests whose locals a write makes out of date
Overtakes(w, pcs) ==
    [v \in Workers |-> IF v # w /\ pay[v].pc \in pcs
                       THEN [pay[v] EXCEPT !.fresh = FALSE] ELSE pay[v]]

\* A store call fails and the request with it.
PayFails(w) ==
    /\ ~PayAt(w, "idle")
    /\ StoreFaults
    /\ pay' = [pay EXCEPT ![w] = NoRequest]
    /\ UNCHANGED <<requests, tuition, there, payments, settled>>

-----------------------------------------------------------------------------
(***************************************************************************)
(* CreatePayment and updateTuitionAfterPayment                             *)
(***************************************************************************)

\* Payment().Save
CreatePayment(w, amount) ==
    /\ PayAt(w, "idle")
    /\ there
    /\ Begin
    /\ payments' = payments + amount
    /\ pay' = [Overtakes(w, {"write"}) EXCEPT ![w].pc = "get"]
    /\ settled' = FALSE
    /\ UNCHANGED <<tuition, there>>

\* Tuition().Get, or not found
PayGet(w) ==
    /\ PayAt(w, "get")
    /\ pay' = [pay EXCEPT ![w] = IF there
                  THEN [@ EXCEPT !.pc = "sum", !.row = tuition, !.fresh = TRUE]
                  ELSE NoRequest]
    /\ UNCHANGED <<requests, tuition, there, payments, settled>>

\* Mutant: the payment just saved is counted once more.
PaySumTwice(w) ==
    /\ PayAt(w, "sum")
    /\ pay' = [pay EXCEPT ![w].pc = "write", ![w].sum = payments + 1]
    /\ UNCHANGED <<requests, tuition, there, payments, settled>>

\* Payment().GetByTuition
PaySum(w) ==
    /\ PayAt(w, "sum")
    /\ pay' = [pay EXCEPT ![w].pc = "write", ![w].sum = payments]
    /\ UNCHANGED <<requests, tuition, there, payments, settled>>

\* Mutant: a tuition paid to the last cent is not PAID.
RecomputedStrict(row, sum) ==
    [row EXCEPT !.paid = sum, !.remaining = row.total - sum,
                !.status = IF row.total - sum < 0 THEN "PAID"
                           ELSE IF sum > 0 THEN "PARTIAL" ELSE @]

\* The row as the payments make it; without payments the status stays.
Recomputed(row, sum) ==
    [row EXCEPT !.paid = sum, !.remaining = row.total - sum,
                !.status = IF row.total - sum <= 0 THEN "PAID"
                           ELSE IF sum > 0 THEN "PARTIAL" ELSE @]

\* Tuition().Update of the whole row; a row that is gone is not found.
PayWrite(w) ==
    /\ PayAt(w, "write")
    /\ IF there
       THEN /\ tuition' = Recomputed(pay[w].row, pay[w].sum)
            /\ settled' = pay[w].fresh
       ELSE UNCHANGED <<tuition, settled>>
    /\ pay' = [pay EXCEPT ![w] = NoRequest]
    /\ UNCHANGED <<requests, there, payments>>

-----------------------------------------------------------------------------
(***************************************************************************)
(* UpdateTuition and DeleteTuition                                         *)
(***************************************************************************)

\* The client fetches the row it is going to edit.
EditOpen(w) ==
    /\ PayAt(w, "idle")
    /\ there
    /\ Begin
    /\ pay' = [pay EXCEPT ![w].pc = "edit", ![w].row = tuition]
    /\ UNCHANGED <<tuition, there, payments, settled>>

\* UpdateTuition: the client's row replaces the stored one, the columns it
\* did not mean to change included: as it fetched them, or zero when its
\* form leaves out the amounts the server computes.
UpdateTuition(w, total, whole) ==
    /\ PayAt(w, "edit")
    /\ IF there
       THEN /\ tuition' = [pay[w].row EXCEPT !.total = total,
                                             !.paid = IF whole THEN @ ELSE 0,
                                             !.remaining = IF whole THEN @ ELSE 0]
            /\ settled' = FALSE
            /\ pay' = [Overtakes(w, {"sum", "write"}) EXCEPT ![w] = NoRequest]
       ELSE /\ pay' = [pay EXCEPT ![w] = NoRequest]
            /\ UNCHANGED <<tuition, settled>>
    /\ UNCHANGED <<requests, there, payments>>

\* The row goes, and its payments with it (ON DELETE CASCADE).
TuitionRemoved ==
    /\ there' = FALSE
    /\ payments' = 0
    /\ UNCHANGED <<tuition, pay, settled>>

DeleteTuition == there /\ Begin /\ TuitionRemoved

TuitionNext ==
    \/ \E w \in Workers :
          \/ \E amount \in Amounts : CreatePayment(w, amount)
          \/ PayGet(w) \/ PaySum(w) \/ PayWrite(w) \/ PayFails(w)
          \/ EditOpen(w)
          \/ \E total \in Totals, whole \in BOOLEAN : UpdateTuition(w, total, whole)
    \/ DeleteTuition

-----------------------------------------------------------------------------
(***************************************************************************)
(* Properties                                                              *)
(***************************************************************************)

\* However payments, edits and failures interleave, the row never claims
\* more money than was recorded (updateTuitionAfterPayment sums the table
\* and never adds to the row).
PaidNeverOverstated == there => tuition.paid <= payments

\* A recomputation no payment and no edit has overtaken repairs the row,
\* whatever lost updates or failures have left in it: paid, remaining and
\* status agree with the payments table (updateTuitionAfterPayment).
RecomputationRepairs ==
    (there /\ settled) =>
        /\ tuition.paid = payments
        /\ tuition.remaining = tuition.total - payments
        /\ (tuition.status = "PAID") <=> (payments >= tuition.total)
        /\ (0 < payments /\ payments < tuition.total) => tuition.status = "PARTIAL"
=============================================================================
