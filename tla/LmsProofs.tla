----------------------------- MODULE LmsProofs ------------------------------
(***************************************************************************)
(* Proofs about Lms for any number of concurrent requests, any amounts and *)
(* any class: the tuition row against its payments, the replacement of     *)
(* attendance sheets, and the conflict check against the timetable.        *)
(***************************************************************************)
EXTENDS Lms, FiniteSetTheorems, TLAPS

Rows == [total : Nat, paid : Nat, remaining : Int, status : {"PENDING", "PARTIAL", "PAID"}]
PayRequests == [pc : {"idle", "get", "sum", "write", "edit"}, row : Rows,
                sum : Nat, fresh : BOOLEAN]

\* Every variable of the tuition has its type.
TuitionTypes ==
    /\ tuition \in Rows
    /\ there \in BOOLEAN
    /\ payments \in Nat
    /\ pay \in [Workers -> PayRequests]
    /\ settled \in BOOLEAN

\* A request that has saved its payment finds a payment, and what requests
\* are about to write claims no more than there is; a sum nobody has
\* overtaken is exact.
InHandSound(w) ==
    there =>
        /\ pay[w].pc \in {"get", "sum", "write"} => payments > 0
        /\ pay[w].pc = "write" => pay[w].sum <= payments
        /\ pay[w].pc = "edit" => pay[w].row.paid <= payments
        /\ (pay[w].pc = "write" /\ pay[w].fresh) => pay[w].sum = payments

\* The inductive invariant of the tuition.
TuitionInv ==
    /\ TuitionTypes
    /\ \A w \in Workers : InHandSound(w)
    /\ PaidNeverOverstated
    /\ RecomputationRepairs

-----------------------------------------------------------------------------
(***************************************************************************)
(* The tuition                                                             *)
(***************************************************************************)

\* A row that CreateTuition stores.
LEMMA NewRowType == \A total \in Nat : NewRow(total) \in Rows
BY DEF NewRow, Rows

\* A worker without a request has harmless locals.
LEMMA NoRequestType == NoRequest \in PayRequests /\ NoRequest.pc = "idle"
BY NewRowType DEF NoRequest, PayRequests

\* What updateTuitionAfterPayment writes agrees with the sum it is given.
LEMMA RecomputedSound ==
    ASSUME NEW row \in Rows, NEW sum \in Nat
    PROVE  /\ Recomputed(row, sum) \in Rows
           /\ Recomputed(row, sum).paid = sum
           /\ Recomputed(row, sum).total = row.total
           /\ Recomputed(row, sum).remaining = row.total - sum
           /\ sum >= row.total => Recomputed(row, sum).status = "PAID"
           /\ 0 < sum /\ sum < row.total => Recomputed(row, sum).status = "PARTIAL"
<1> DEFINE Status == IF row.total - sum <= 0 THEN "PAID"
                     ELSE IF sum > 0 THEN "PARTIAL" ELSE row.status
<1>1. row.total \in Nat /\ row.total - sum \in Int /\ row.status \in {"PENDING", "PARTIAL", "PAID"}
  BY DEF Rows
<1>2. Status \in {"PENDING", "PARTIAL", "PAID"}
  BY <1>1
<1>3. /\ sum >= row.total => Status = "PAID"
      /\ 0 < sum /\ sum < row.total => Status = "PARTIAL"
  BY <1>1
<1>4. Recomputed(row, sum) = [total |-> row.total, paid |-> sum,
                              remaining |-> row.total - sum, status |-> Status]
  <2>1. Recomputed(row, sum) = [row EXCEPT !.paid = sum, !.remaining = row.total - sum,
                                           !.status = Status]
    BY DEF Recomputed
  <2> HIDE DEF Status
  <2> QED
    BY <2>1 DEF Rows
<1> HIDE DEF Status
<1> QED
  BY <1>1, <1>2, <1>3, <1>4 DEF Rows

\* Another request's locals when a write overtakes them.
LEMMA OvertakesSound ==
    ASSUME TuitionTypes, NEW w \in Workers, NEW pcs
    PROVE  /\ Overtakes(w, pcs) \in [Workers -> PayRequests]
           /\ \A v \in Workers :
                 /\ Overtakes(w, pcs)[v].pc = pay[v].pc
                 /\ Overtakes(w, pcs)[v].row = pay[v].row
                 /\ Overtakes(w, pcs)[v].sum = pay[v].sum
                 /\ Overtakes(w, pcs)[v].fresh => pay[v].fresh
                 /\ v # w /\ pay[v].pc \in pcs => ~Overtakes(w, pcs)[v].fresh
           /\ Overtakes(w, pcs)[w] = pay[w]
<1>1. ASSUME NEW v \in Workers
      PROVE  LET o == IF v # w /\ pay[v].pc \in pcs
                      THEN [pay[v] EXCEPT !.fresh = FALSE] ELSE pay[v]
             IN  /\ o \in PayRequests
                 /\ o.pc = pay[v].pc /\ o.row = pay[v].row /\ o.sum = pay[v].sum
                 /\ o.fresh => pay[v].fresh
                 /\ v # w /\ pay[v].pc \in pcs => ~o.fresh
  BY DEF TuitionTypes, PayRequests
<1> QED
  BY <1>1 DEF Overtakes

\* The form's tuition is unpaid and no request is under way.
LEMMA TuitionInvInit == TuitionInit => TuitionInv
<1> SUFFICES ASSUME TuitionInit PROVE TuitionInv
  OBVIOUS
<1>1. PICK total \in Totals : tuition = NewRow(total)
  BY DEF TuitionInit
<1>2. TuitionTypes
  BY <1>1, NewRowType, NoRequestType, TuitionAssumption DEF TuitionInit, TuitionTypes
<1>3. \A w \in Workers : pay[w].pc = "idle"
  BY NoRequestType DEF TuitionInit
<1>4. tuition.paid = 0 /\ payments = 0 /\ ~settled
  BY <1>1 DEF TuitionInit, NewRow
<1> QED
  BY <1>2, <1>3, <1>4 DEF TuitionInv, InHandSound, PaidNeverOverstated, RecomputationRepairs

\* A worker whose request ends, and nothing else, keeps the invariant.
LEMMA RequestEnds ==
    ASSUME TuitionInv, NEW w \in Workers,
           pay' = [pay EXCEPT ![w] = NoRequest],
           UNCHANGED <<tuition, there, payments, settled>>
    PROVE  TuitionInv'
<1>1. TuitionTypes'
  BY NoRequestType DEF TuitionInv, TuitionTypes
<1>2. \A v \in Workers : pay'[v] = IF v = w THEN NoRequest ELSE pay[v]
  BY DEF TuitionInv, TuitionTypes
<1>3. \A v \in Workers : InHandSound(v)'
  BY <1>2, NoRequestType DEF TuitionInv, InHandSound
<1> QED
  BY <1>1, <1>3 DEF TuitionInv, PaidNeverOverstated, RecomputationRepairs

\* Payment().Save: the table grows, and every sum taken is overtaken.
LEMMA CreatePaymentStep ==
    ASSUME TuitionInv, NEW w \in Workers, NEW amount \in Amounts, CreatePayment(w, amount)
    PROVE  TuitionInv'
<1>1. amount \in Nat /\ amount > 0 /\ payments \in Nat
  BY TuitionAssumption DEF TuitionInv, TuitionTypes
<1>2. payments' = payments + amount /\ payments' \in Nat /\ payments' > payments
  BY <1>1 DEF CreatePayment
<1> DEFINE over == Overtakes(w, {"write"})
<1>3. /\ over \in [Workers -> PayRequests]
      /\ \A v \in Workers : /\ over[v].pc = pay[v].pc
                            /\ over[v].row = pay[v].row
                            /\ over[v].sum = pay[v].sum
                            /\ v # w /\ pay[v].pc = "write" => ~over[v].fresh
  BY OvertakesSound DEF TuitionInv
<1>4. pay' = [over EXCEPT ![w].pc = "get"]
  BY DEF CreatePayment
<1> HIDE DEF over
<1>5. /\ pay' \in [Workers -> PayRequests]
      /\ pay'[w].pc = "get"
      /\ \A v \in Workers \ {w} : pay'[v] = over[v]
  BY <1>3, <1>4 DEF PayRequests
<1>6. TuitionTypes'
  BY <1>2, <1>5 DEF TuitionInv, TuitionTypes, CreatePayment
<1>7. ASSUME NEW v \in Workers PROVE InHandSound(v)'
  <2>1. CASE v = w
    BY <2>1, <1>1, <1>2, <1>5 DEF InHandSound
  <2>2. CASE v # w
    <3>1. pay[v].sum \in Nat /\ pay[v].row.paid \in Nat /\ InHandSound(v)
      BY DEF TuitionInv, TuitionTypes, PayRequests, Rows
    <3>2. there
      BY DEF CreatePayment
    <3>3. /\ pay'[v].pc = pay[v].pc /\ pay'[v].row = pay[v].row /\ pay'[v].sum = pay[v].sum
          /\ pay[v].pc = "write" => ~pay'[v].fresh
      BY <2>2, <1>3, <1>5
    <3> QED
      BY <3>1, <3>2, <3>3, <1>1, <1>2 DEF InHandSound
  <2> QED
    BY <2>1, <2>2
<1>8. PaidNeverOverstated' /\ RecomputationRepairs'
  <2>1. tuition' = tuition /\ tuition.paid \in Nat /\ tuition.paid <= payments /\ ~settled'
    BY DEF TuitionInv, TuitionTypes, Rows, PaidNeverOverstated, CreatePayment
  <2> QED
    BY <2>1, <1>1, <1>2 DEF PaidNeverOverstated, RecomputationRepairs
<1> QED
  BY <1>6, <1>7, <1>8 DEF TuitionInv

\* Tuition().Get takes the row along; its paid amount will be replaced.
LEMMA PayGetStep ==
    ASSUME TuitionInv, NEW w \in Workers, PayGet(w) PROVE TuitionInv'
<1>1. CASE ~there
  BY <1>1, RequestEnds DEF PayGet
<1>2. CASE there
  <2>1. /\ pay' = [pay EXCEPT ![w] = [@ EXCEPT !.pc = "sum", !.row = tuition, !.fresh = TRUE]]
        /\ UNCHANGED <<tuition, there, payments, settled>>
        /\ pay[w].pc = "get"
    BY <1>2 DEF PayGet, PayAt
  <2>2. TuitionTypes'
    BY <2>1 DEF TuitionInv, TuitionTypes, PayRequests
  <2>3. pay'[w].pc = "sum" /\ \A v \in Workers \ {w} : pay'[v] = pay[v]
    BY <2>1 DEF TuitionInv, TuitionTypes, PayRequests
  <2>4. \A v \in Workers : InHandSound(v)'
    BY <2>1, <2>3 DEF TuitionInv, InHandSound
  <2> QED
    BY <2>1, <2>2, <2>4 DEF TuitionInv, PaidNeverOverstated, RecomputationRepairs
<1> QED
  BY <1>1, <1>2

\* Payment().GetByTuition: the sum is exact when it is taken.
LEMMA PaySumStep ==
    ASSUME TuitionInv, NEW w \in Workers, PaySum(w) PROVE TuitionInv'
<1>1. /\ pay' = [pay EXCEPT ![w].pc = "write", ![w].sum = payments]
      /\ UNCHANGED <<tuition, there, payments, settled>>
      /\ pay[w].pc = "sum"
      /\ payments \in Nat
  BY DEF PaySum, PayAt, TuitionInv, TuitionTypes
<1>2. TuitionTypes'
  BY <1>1 DEF TuitionInv, TuitionTypes, PayRequests
<1>3. /\ pay'[w].pc = "write" /\ pay'[w].sum = payments
      /\ \A v \in Workers \ {w} : pay'[v] = pay[v]
  BY <1>1 DEF TuitionInv, TuitionTypes, PayRequests
<1>4. ASSUME NEW v \in Workers PROVE InHandSound(v)'
  <2>1. CASE v = w
    BY <2>1, <1>1, <1>3 DEF TuitionInv, InHandSound
  <2>2. CASE v # w
    BY <2>2, <1>1, <1>3 DEF TuitionInv, InHandSound
  <2> QED
    BY <2>1, <2>2
<1> QED
  BY <1>1, <1>2, <1>4 DEF TuitionInv, PaidNeverOverstated, RecomputationRepairs

\* Tuition().Update after a recomputation
LEMMA PayWriteStep ==
    ASSUME TuitionInv, NEW w \in Workers, PayWrite(w) PROVE TuitionInv'
<1>1. CASE ~there
  BY <1>1, RequestEnds DEF PayWrite
<1>2. CASE there
  <2>1. /\ pay' = [pay EXCEPT ![w] = NoRequest]
        /\ tuition' = Recomputed(pay[w].row, pay[w].sum)
        /\ settled' = pay[w].fresh
        /\ UNCHANGED <<there, payments>>
        /\ pay[w].pc = "write"
    BY <1>2 DEF PayWrite, PayAt
  <2>2. /\ pay[w].row \in Rows /\ pay[w].sum \in Nat /\ pay[w].fresh \in BOOLEAN
        /\ payments \in Nat
    BY DEF TuitionInv, TuitionTypes, PayRequests
  <2>3. TuitionTypes'
    BY <2>1, <2>2, RecomputedSound, NoRequestType DEF TuitionInv, TuitionTypes
  <2>4. \A v \in Workers : pay'[v] = IF v = w THEN NoRequest ELSE pay[v]
    BY <2>1 DEF TuitionInv, TuitionTypes
  <2>5. \A v \in Workers : InHandSound(v)'
    BY <2>1, <2>4, NoRequestType DEF TuitionInv, InHandSound
  <2>6. /\ pay[w].sum <= payments
        /\ payments > 0
        /\ pay[w].fresh => pay[w].sum = payments
    BY <1>2, <2>1 DEF TuitionInv, InHandSound
  <2>7. PaidNeverOverstated'
    BY <2>1, <2>2, <2>6, RecomputedSound DEF PaidNeverOverstated
  <2>8. RecomputationRepairs'
    <3> SUFFICES ASSUME pay[w].fresh PROVE RecomputationRepairs'
      BY <2>1 DEF RecomputationRepairs
    <3> DEFINE row == pay[w].row
    <3>1. /\ tuition'.paid = payments
          /\ tuition'.total = row.total
          /\ tuition'.remaining = row.total - payments
          /\ payments >= row.total => tuition'.status = "PAID"
          /\ 0 < payments /\ payments < row.total => tuition'.status = "PARTIAL"
      BY <2>1, <2>2, <2>6, RecomputedSound
    <3>2. row.total \in Nat
      BY <2>2 DEF Rows
    <3> QED
      BY <3>1, <3>2, <2>1, <2>2, <2>6 DEF RecomputationRepairs
  <2> QED
    BY <2>3, <2>5, <2>7, <2>8 DEF TuitionInv
<1> QED
  BY <1>1, <1>2

\* The client's copy of the row claims no more than the row does.
LEMMA EditOpenStep ==
    ASSUME TuitionInv, NEW w \in Workers, EditOpen(w) PROVE TuitionInv'
<1>1. /\ pay' = [pay EXCEPT ![w].pc = "edit", ![w].row = tuition]
      /\ UNCHANGED <<tuition, there, payments, settled>>
  BY DEF EditOpen
<1>2. TuitionTypes'
  BY <1>1 DEF TuitionInv, TuitionTypes, PayRequests
<1>3. /\ pay'[w].pc = "edit" /\ pay'[w].row = tuition
      /\ \A v \in Workers \ {w} : pay'[v] = pay[v]
  BY <1>1 DEF TuitionInv, TuitionTypes, PayRequests
<1>4. \A v \in Workers : InHandSound(v)'
  BY <1>1, <1>3 DEF TuitionInv, InHandSound, PaidNeverOverstated
<1> QED
  BY <1>1, <1>2, <1>4 DEF TuitionInv, PaidNeverOverstated, RecomputationRepairs

\* UpdateTuition puts back what the client had, or zero.
LEMMA UpdateTuitionStep ==
    ASSUME TuitionInv, NEW w \in Workers, NEW total \in Totals, NEW whole \in BOOLEAN,
           UpdateTuition(w, total, whole)
    PROVE  TuitionInv'
<1>1. CASE ~there
  BY <1>1, RequestEnds DEF UpdateTuition
<1>2. CASE there
  <2> DEFINE over == Overtakes(w, {"sum", "write"})
  <2>1. /\ over \in [Workers -> PayRequests]
        /\ \A v \in Workers : /\ over[v].pc = pay[v].pc
                              /\ over[v].row = pay[v].row
                              /\ over[v].sum = pay[v].sum
                              /\ over[v].fresh => pay[v].fresh
    BY OvertakesSound DEF TuitionInv
  <2>2. /\ pay' = [over EXCEPT ![w] = NoRequest]
        /\ tuition' = [pay[w].row EXCEPT !.total = total,
                                         !.paid = IF whole THEN @ ELSE 0,
                                         !.remaining = IF whole THEN @ ELSE 0]
        /\ settled' = FALSE
        /\ UNCHANGED <<there, payments>>
        /\ pay[w].pc = "edit"
    BY <1>2 DEF UpdateTuition, PayAt
  <2> HIDE DEF over
  <2>3. total \in Nat /\ pay[w].row \in Rows /\ payments \in Nat
    BY TuitionAssumption DEF TuitionInv, TuitionTypes, PayRequests
  <2>4. tuition' \in Rows /\ tuition'.paid \in {pay[w].row.paid, 0}
    <3> DEFINE row == pay[w].row
    <3>1. row.paid \in Nat /\ row.remaining \in Int /\ row.status \in {"PENDING", "PARTIAL", "PAID"}
      BY <2>3 DEF Rows
    <3>2. tuition' = [total |-> total, paid |-> IF whole THEN row.paid ELSE 0,
                      remaining |-> IF whole THEN row.remaining ELSE 0,
                      status |-> row.status]
      BY <2>2, <2>3 DEF Rows
    <3> HIDE DEF row
    <3>3. tuition' \in Rows /\ tuition'.paid \in {row.paid, 0}
      BY <2>3, <3>1, <3>2 DEF Rows
    <3> QED
      BY <3>3 DEF row
  <2>5. /\ pay' \in [Workers -> PayRequests]
        /\ \A v \in Workers : pay'[v] = IF v = w THEN NoRequest ELSE over[v]
    BY <2>1, <2>2, NoRequestType
  <2>6. TuitionTypes'
    BY <2>2, <2>3, <2>4, <2>5 DEF TuitionInv, TuitionTypes
  <2>7. \A v \in Workers : InHandSound(v)'
    BY <2>1, <2>2, <2>5, NoRequestType DEF TuitionInv, InHandSound
  <2>8. pay[w].row.paid <= payments
    BY <1>2, <2>2 DEF TuitionInv, InHandSound
  <2>9. PaidNeverOverstated' /\ RecomputationRepairs'
    BY <2>2, <2>3, <2>4, <2>8 DEF PaidNeverOverstated, RecomputationRepairs
  <2> QED
    BY <2>6, <2>7, <2>9 DEF TuitionInv
<1> QED
  BY <1>1, <1>2

\* A tuition that is deleted makes no claim any more.
LEMMA TuitionRemovedStep == ASSUME TuitionInv, TuitionRemoved PROVE TuitionInv'
BY DEF TuitionInv, TuitionTypes, TuitionRemoved, InHandSound, PaidNeverOverstated,
       RecomputationRepairs

\* Every request on the class keeps the tuition's invariant.
LEMMA TuitionInvNext == ASSUME TuitionInv, [Next]_vars PROVE TuitionInv'
<1>1. CASE UNCHANGED tuitionVars
  BY <1>1 DEF TuitionInv, TuitionTypes, InHandSound, PaidNeverOverstated,
              RecomputationRepairs, tuitionVars
<1>2. ASSUME NEW w \in Workers, PayFails(w) PROVE TuitionInv'
  BY <1>2, RequestEnds DEF PayFails
<1>3. CASE TuitionNext
  BY <1>2, <1>3, CreatePaymentStep, PayGetStep, PaySumStep, PayWriteStep, EditOpenStep,
     UpdateTuitionStep, TuitionRemovedStep DEF TuitionNext, DeleteTuition
<1>4. CASE DeleteClass
  BY <1>4, TuitionRemovedStep DEF DeleteClass
<1> QED
  BY <1>1, <1>3, <1>4 DEF Next, vars

\* The invariant of the tuition holds in every behaviour of the services.
LEMMA TuitionInvariance == Spec => []TuitionInv
<1>1. Init => TuitionInv
  BY TuitionInvInit DEF Init
<1> QED
  BY <1>1, TuitionInvNext, PTL DEF Spec

\* However many payments, edits, deletions and failures interleave, the
\* tuition row never claims more money than the payments table holds.
THEOREM PaidAlwaysBacked == Spec => []PaidNeverOverstated
<1>1. TuitionInv => PaidNeverOverstated
  BY DEF TuitionInv
<1> QED
  BY <1>1, TuitionInvariance, PTL

\* A recomputation nobody overtakes leaves a row that agrees with the
\* payments, whatever earlier lost updates and failures had made of it.
THEOREM RecomputationAlwaysRepairs == Spec => []RecomputationRepairs
<1>1. TuitionInv => RecomputationRepairs
  BY DEF TuitionInv
<1> QED
  BY <1>1, TuitionInvariance, PTL

-----------------------------------------------------------------------------
(***************************************************************************)
(* Attendance sheets                                                       *)
(***************************************************************************)

Sheets == [pc : {"insert"}, session : Nat, sheet : Nat, todo : SUBSET Students,
           after : SUBSET Nat]
Records == [session : Nat, student : Students, sheet : Nat, after : SUBSET Nat]
Active(w) == mark[w].pc = "insert"

\* Every variable the sheets depend on has its type.
SheetTypes ==
    /\ served \in Nat
    /\ issued \in Nat
    /\ DOMAIN sessions \subseteq Nat
    /\ attendance \subseteq Records
    /\ mark \in [Workers -> {NoSheet} \cup Sheets]
    /\ filed \subseteq Nat

\* A sheet under way is no other's and not filed.
SheetsApart ==
    /\ \A s \in filed : s < served
    /\ \A w \in Workers : Active(w) =>
          /\ mark[w].sheet < served
          /\ mark[w].sheet \notin filed
          /\ \A v \in Workers : (v # w /\ Active(v)) => mark[v].sheet # mark[w].sheet

\* A sheet comes after filed sheets only, and no row of those is left in its
\* session.
SheetsAfter ==
    /\ \A a \in attendance : a.after \subseteq filed
    /\ \A w \in Workers : Active(w) =>
          /\ mark[w].after \subseteq filed
          /\ \A a \in attendance :
                a.session = mark[w].session => a.sheet \notin mark[w].after

\* The inductive invariant of the sheets.
SheetInv == SheetTypes /\ SheetsApart /\ SheetsAfter /\ SheetReplaced

\* No sheet is under way at first.
LEMMA SheetInvInit == Init => SheetInv
<1> SUFFICES ASSUME Init PROVE SheetInv
  OBVIOUS
<1>1. SheetTypes
  BY DEF Init, RequestsInit, ScheduleInit, SheetTypes
<1>2. \A w \in Workers : ~Active(w)
  BY DEF Init, ScheduleInit, NoSheet, Active
<1>3. attendance = {} /\ filed = {}
  BY DEF Init, ScheduleInit
<1> QED
  BY <1>1, <1>2, <1>3 DEF SheetInv, SheetsApart, SheetsAfter, SheetReplaced

\* Requests of other kinds at most take rows away.
LEMMA SheetsKept ==
    ASSUME SheetInv, SheetTypes', UNCHANGED <<mark, filed>>,
           served' \in {served, served + 1}, attendance' \subseteq attendance
    PROVE  SheetInv'
<1>1. served \in Nat /\ filed \subseteq Nat /\ \A w \in Workers : Active(w) => mark[w].sheet \in Nat
  BY DEF SheetInv, SheetTypes, Active, Sheets, NoSheet
<1>2. SheetsApart'
  BY <1>1 DEF SheetInv, SheetsApart, Active
<1>3. SheetsAfter' /\ SheetReplaced'
  BY DEF SheetInv, SheetsAfter, SheetReplaced, Active
<1> QED
  BY <1>2, <1>3 DEF SheetInv

\* DeleteBySession makes room for a sheet with a number of its own.
LEMMA SaveAttendanceStep ==
    ASSUME SheetInv, NEW w \in Workers, NEW id \in DOMAIN sessions,
           NEW students \in SUBSET Students, SaveAttendance(w, id, students)
    PROVE  SheetInv'
<1> DEFINE new == [pc |-> "insert", session |-> id, sheet |-> served,
                   todo |-> students, after |-> filed]
<1>1. /\ served' = served + 1 /\ served \in Nat
      /\ attendance' = {a \in attendance : a.session # id}
      /\ mark' = [mark EXCEPT ![w] = new]
      /\ UNCHANGED <<sessions, issued, filed>>
  BY DEF SaveAttendance, Begin, SheetInv, SheetTypes
<1>2. new \in Sheets
  BY <1>1 DEF SheetInv, SheetTypes, Sheets
<1>3. SheetTypes'
  BY <1>1, <1>2 DEF SheetInv, SheetTypes
<1>4. mark'[w] = new /\ \A v \in Workers \ {w} : mark'[v] = mark[v]
  BY <1>1 DEF SheetInv, SheetTypes
<1>5. /\ \A v \in Workers : Active(v) => mark[v].sheet \in Nat /\ mark[v].sheet < served
      /\ \A s \in filed : s \in Nat /\ s < served
  <2>1. \A v \in Workers : Active(v) => mark[v] \in Sheets
    BY DEF SheetInv, SheetTypes, Active, NoSheet
  <2>2. \A v \in Workers : Active(v) => mark[v].sheet \in Nat
    BY <2>1 DEF Sheets
  <2> QED
    BY <2>2 DEF SheetInv, SheetTypes, SheetsApart
<1>6. SheetsApart'
  <2>1. \A s \in filed' : s < served'
    BY <1>1, <1>5
  <2>2. ASSUME NEW v \in Workers, Active(v)'
        PROVE  /\ mark'[v].sheet < served' /\ mark'[v].sheet \notin filed'
               /\ \A u \in Workers : (u # v /\ Active(u)') => mark'[u].sheet # mark'[v].sheet
    <3>1. CASE v = w
      BY <3>1, <1>1, <1>4, <1>5 DEF Active
    <3>2. CASE v # w
      BY <3>2, <2>2, <1>1, <1>4, <1>5 DEF Active, SheetInv, SheetsApart
    <3> QED
      BY <3>1, <3>2
  <2> QED
    BY <2>1, <2>2 DEF SheetsApart
<1>7. SheetsAfter' /\ SheetReplaced'
  BY <1>1, <1>4 DEF SheetInv, SheetsAfter, SheetReplaced, Active
<1> QED
  BY <1>3, <1>6, <1>7 DEF SheetInv

\* A row is inserted beside rows of sheets that are not filed or not before it.
LEMMA InsertRecordStep ==
    ASSUME SheetInv, NEW w \in Workers, NEW student \in Students, InsertRecord(w, student)
    PROVE  SheetInv'
<1> DEFINE m == mark[w]
           row == [session |-> m.session, student |-> student,
                   sheet |-> m.sheet, after |-> m.after]
<1>1. /\ Active(w)
      /\ attendance' = attendance \cup {row}
      /\ mark' = [mark EXCEPT ![w].todo = @ \ {student}]
      /\ UNCHANGED <<served, sessions, issued, filed>>
  BY DEF InsertRecord, Active, requests
<1>2. mark[w] \in Sheets
  BY <1>1 DEF SheetInv, SheetTypes, Active, NoSheet
<1>3. row \in Records
  BY <1>2 DEF Sheets, Records
<1>4. /\ mark'[w] \in Sheets
      /\ mark'[w].pc = "insert" /\ mark'[w].session = m.session
      /\ mark'[w].sheet = m.sheet /\ mark'[w].after = m.after
      /\ \A v \in Workers \ {w} : mark'[v] = mark[v]
  BY <1>1, <1>2 DEF SheetInv, SheetTypes, Sheets
<1>5. SheetTypes'
  <2>1. mark' \in [Workers -> {NoSheet} \cup Sheets]
    BY <1>1, <1>4 DEF SheetInv, SheetTypes
  <2> QED
    BY <2>1, <1>1, <1>3 DEF SheetInv, SheetTypes
<1>6. \A v \in Workers : /\ Active(v)' <=> Active(v)
                          /\ mark'[v].session = mark[v].session
                          /\ mark'[v].sheet = mark[v].sheet
                          /\ mark'[v].after = mark[v].after
  BY <1>1, <1>4 DEF Active
<1>7. SheetsApart'
  BY <1>1, <1>6 DEF SheetInv, SheetsApart
<1>8. m.sheet \notin filed /\ m.after \subseteq filed
  BY <1>1 DEF SheetInv, SheetsApart, SheetsAfter
<1>9. row.session = m.session /\ row.sheet = m.sheet /\ row.after = m.after
  OBVIOUS
<1> HIDE DEF row, m
<1>10. SheetsAfter'
  BY <1>1, <1>6, <1>8, <1>9 DEF SheetInv, SheetsAfter
<1>11. SheetReplaced'
  <2>1. \A a \in attendance : a.session = m.session => a.sheet \notin m.after
    BY <1>1 DEF SheetInv, SheetsAfter, m
  <2>2. \A a \in attendance : m.sheet \notin a.after
    BY <1>8 DEF SheetInv, SheetsAfter
  <2> QED
    BY <1>1, <1>8, <1>9, <2>1, <2>2 DEF SheetInv, SheetReplaced
<1> QED
  BY <1>5, <1>7, <1>10, <1>11 DEF SheetInv

\* The sheet that ends is filed, and no other worker's.
LEMMA SheetEndsStep ==
    ASSUME SheetInv, NEW w \in Workers, SheetEnds(w) PROVE SheetInv'
<1>1. /\ Active(w)
      /\ filed' = filed \cup {mark[w].sheet}
      /\ mark' = [mark EXCEPT ![w] = NoSheet]
      /\ UNCHANGED <<served, sessions, issued, attendance>>
  BY DEF SheetEnds, Active, requests
<1>2. mark[w].sheet \in Nat
  BY <1>1 DEF SheetInv, SheetTypes, Active, NoSheet, Sheets
<1>3. SheetTypes'
  BY <1>1, <1>2 DEF SheetInv, SheetTypes
<1>4. ~Active(w)' /\ \A v \in Workers \ {w} : mark'[v] = mark[v]
  BY <1>1 DEF SheetInv, SheetTypes, NoSheet, Active
<1>5. SheetsApart'
  BY <1>1, <1>4 DEF SheetInv, SheetsApart, Active
<1>6. SheetsAfter' /\ SheetReplaced'
  BY <1>1, <1>4 DEF SheetInv, SheetsAfter, SheetReplaced, Active
<1> QED
  BY <1>3, <1>5, <1>6 DEF SheetInv

\* Every request on the class keeps the sheets' invariant.
LEMMA SheetInvNext == ASSUME SheetInv, [Next]_vars PROVE SheetInv'
<1> DEFINE Other == /\ UNCHANGED <<mark, filed>>
                    /\ served' \in {served, served + 1}
                    /\ attendance' \subseteq attendance
                    /\ issued' \in Nat
                    /\ DOMAIN sessions' \subseteq Nat
<1>1. Other => SheetInv'
  <2> SUFFICES ASSUME Other PROVE SheetInv'
    OBVIOUS
  <2>1. SheetTypes'
    BY DEF SheetInv, SheetTypes
  <2> QED
    BY <2>1, SheetsKept
<1>2. issued \in Nat /\ DOMAIN sessions \subseteq Nat
  BY DEF SheetInv, SheetTypes
<1>3. ASSUME UNCHANGED vars \/ (TuitionNext /\ UNCHANGED scheduleVars) PROVE Other
  BY <1>2, <1>3 DEF vars, requests, scheduleVars, TuitionNext, CreatePayment, PayGet, PaySum,
                    PayWrite, PayFails, EditOpen, UpdateTuition, DeleteTuition, Begin
<1>4. ASSUME DeleteClass PROVE Other
  BY <1>2, <1>4 DEF DeleteClass
<1>5. ASSUME NEW w \in Workers, SaveOccurrence(w) \/ UpdateRow(w) \/ BookingFails(w)
      PROVE  Other
  <2>1. CASE SaveOccurrence(w)
    <3>1. /\ UNCHANGED <<served, attendance, mark, filed>>
          /\ \/ UNCHANGED <<sessions, issued>>
             \/ /\ issued' = issued + 1
                /\ DOMAIN sessions' = DOMAIN sessions \cup {issued + 1}
      BY <2>1 DEF SaveOccurrence, requests
    <3> QED
      BY <3>1, <1>2
  <2>2. CASE UpdateRow(w)
    BY <2>2, <1>2 DEF UpdateRow, requests
  <2>3. CASE BookingFails(w)
    BY <2>3, <1>2 DEF BookingFails, requests
  <2> QED
    BY <1>5, <2>1, <2>2, <2>3
<1>6. ASSUME NEW id, DeleteSession(id) PROVE Other
  BY <1>2, <1>6 DEF DeleteSession, WithoutRow, Begin
<1>7. ASSUME NEW w, NEW t, NEW l, NEW force, NEW weeks, CreateSessionsWithRepeat(w, t, l, weeks, force)
      PROVE  Other
  BY <1>2, <1>7 DEF CreateSessionsWithRepeat, Begin
<1>8. ASSUME NEW w, NEW id, NEW t, NEW l, NEW live, NEW force,
             UpdateSession(w, id, t, l, live, force)
      PROVE  Other
  BY <1>2, <1>8 DEF UpdateSession, Begin
<1> HIDE DEF Other
<1>9. CASE ScheduleNext
  BY <1>1, <1>5, <1>6, <1>7, <1>8, <1>9, SaveAttendanceStep, InsertRecordStep, SheetEndsStep
  DEF ScheduleNext
<1> QED
  BY <1>1, <1>3, <1>4, <1>9 DEF Next

\* The invariant of the sheets holds in every behaviour of the services.
LEMMA SheetInvariance == Spec => []SheetInv
BY SheetInvInit, SheetInvNext, PTL DEF Spec

\* SaveAttendance never leaves a row of a sheet that had been saved before
\* beside a row of its own; rows mix only when requests overlapped.
THEOREM SheetAlwaysReplaced == Spec => []SheetReplaced
<1>1. SheetInv => SheetReplaced
  BY DEF SheetInv
<1> QED
  BY <1>1, SheetInvariance, PTL

-----------------------------------------------------------------------------
(***************************************************************************)
(* The conflict check                                                      *)
(***************************************************************************)

Lesson == [teacher : Teachers, start : Nat, end : Nat, live : BOOLEAN, saw : SUBSET Nat,
           missed : SUBSET Nat]
Series == [pc : {"save"}, teacher : Teachers, lesson : Lessons, next : Nat, weeks : Nat,
           saw : SUBSET Nat, missed : SUBSET Nat]
Edits == [pc : {"update"}, id : Nat, row : Lesson, saw : SUBSET Nat, missed : SUBSET Nat]

\* Every variable the check depends on has its type, and ids are issued once.
ScheduleTypes ==
    /\ issued \in Nat
    /\ DOMAIN sessions \subseteq 1 .. issued
    /\ \A i \in DOMAIN sessions :
          /\ sessions[i] \in Lesson
          /\ sessions[i].saw \subseteq 1 .. issued
    /\ book \in [Workers -> {NoBooking} \cup Series \cup Edits]
    /\ \A w \in Workers : book[w] # NoBooking => book[w].saw \subseteq 1 .. issued

\* Of the rows in saw, none that counts overlaps the lesson.
Apart(table, saw, lesson) ==
    \A j \in saw \cap DOMAIN table :
        table[j].live /\ table[j].teacher = lesson.teacher => ~Overlap(table[j], lesson)

\* What a request found free before its first store call is still free of
\* the rows it saw, as long as nobody has rewritten them.
StillFree(table, b) ==
    /\ b.pc = "save" =>
          /\ b.next < b.weeks
          /\ \A k \in 0 .. b.weeks - 1 :
                Apart(table, b.saw, Row(b.teacher, b.lesson, k, TRUE, {}))
    /\ b.pc = "update" => b.id \notin b.saw /\ Apart(table, b.saw, b.row)

\* The inductive invariant of the schedule.
ScheduleInv ==
    /\ ScheduleTypes
    /\ \A w \in Workers : StillFree(sessions, book[w])
    /\ SeenNeverOverlaps

\* An occurrence of a series.
LEMMA OccurrenceType ==
    ASSUME NEW t \in Teachers, NEW l \in Lessons, NEW k \in Nat
    PROVE  /\ Row(t, l, k, TRUE, {}) \in Lesson
           /\ Row(t, l, k, TRUE, {}).teacher = t
           /\ Row(t, l, k, TRUE, {}).saw = {}
<1>1. l[1] \in Nat /\ l[2] \in Nat /\ Week \in Nat
  BY ScheduleAssumption
<1>2. k * Week \in Nat
  BY <1>1
<1>3. l[1] + k * Week \in Nat /\ l[2] + k * Week \in Nat
  BY <1>1, <1>2
<1> QED
  BY <1>1, <1>2, <1>3 DEF Row, Lesson

\* The row of an update.
LEMMA UpdatedRow ==
    ASSUME NEW t \in Teachers, NEW l \in Lessons, NEW live \in BOOLEAN
    PROVE  Row(t, l, 0, live, {}) \in Lesson /\ Row(t, l, 0, live, {}).teacher = t
<1>1. l[1] \in Nat /\ l[2] \in Nat /\ 0 * Week = 0
  BY ScheduleAssumption
<1>2. l[1] + 0 * Week \in Nat /\ l[2] + 0 * Week \in Nat
  BY <1>1
<1> QED
  BY <1>2 DEF Row, Lesson

\* A later week does not start earlier.
LEMMA WeeksGrow ==
    ASSUME NEW k \in Nat, NEW n \in Nat, k <= n
    PROVE  k * Week <= n * Week
<1>1. Week \in Nat
  BY ScheduleAssumption
<1>2. PICK d \in Nat : n = k + d
  <2>1. n - k \in Nat /\ n = k + (n - k)
    OBVIOUS
  <2> QED
    BY <2>1
<1>3. n * Week = k * Week + d * Week
  BY <1>1, <1>2
<1>4. k * Week \in Nat /\ d * Week \in Nat
  BY <1>1
<1> QED
  BY <1>3, <1>4

\* When the rows that match the query fit the limit, FindTeacherConflicts
\* leaves none of them out, whatever else the teacher's schedule holds
\* (session_store.go:119-145): then the check misses nothing.
THEOREM FittingAnswerIsWhole ==
    ASSUME ScheduleTypes, NEW teacher, NEW span, NEW exclude,
           Cardinality(Matching(teacher, span, exclude)) <= RowCap,
           NEW page \in FindTeacherConflicts(teacher, span, exclude)
    PROVE  Matching(teacher, span, exclude) \ page = {}
<1> DEFINE found == Matching(teacher, span, exclude)
<1>1. page \subseteq found /\ (page = found \/ Cardinality(page) = RowCap)
  BY DEF FindTeacherConflicts
<1>2. IsFiniteSet(DOMAIN sessions)
  <2>1. IsFiniteSet(1 .. issued)
    BY FS_Interval DEF ScheduleTypes
  <2> QED
    BY <2>1, FS_Subset DEF ScheduleTypes
<1>3. found \subseteq DOMAIN sessions
  BY DEF Matching
<1>4. Cardinality(found) <= RowCap /\ RowCap \in Nat
  BY ScheduleAssumption
<1> HIDE DEF found
<1>5. IsFiniteSet(found)
  BY <1>2, <1>3, FS_Subset
<1>6. IsFiniteSet(page) /\ Cardinality(page) <= Cardinality(found)
      /\ (Cardinality(page) = Cardinality(found) => page = found)
  BY <1>1, <1>5, FS_Subset
<1>7. Cardinality(page) \in Nat /\ Cardinality(found) \in Nat
  BY <1>5, <1>6, FS_CardinalityType
<1>8. page = found
  BY <1>1, <1>4, <1>6, <1>7
<1> QED
  BY <1>8 DEF found

\* checkOccurrenceConflicts asks for the span of the series: every lesson that
\* overlaps one of its occurrences matches the query, and is in the answer or
\* was cut from it.
LEMMA ClearMeansApart ==
    ASSUME ScheduleTypes, NEW teacher \in Teachers,
           NEW occurrences \in SUBSET Lesson, NEW exclude,
           NEW first \in occurrences, NEW last \in occurrences,
           \A o \in occurrences : first.start <= o.start /\ o.end <= last.end /\ o.teacher = teacher,
           NEW missed \in Checks(teacher, occurrences, exclude, FALSE)
    PROVE  \A o \in occurrences : Apart(sessions, (DOMAIN sessions \ exclude) \ missed, o)
<1> DEFINE from == CHOOSE s \in {o.start : o \in occurrences} :
                       \A o \in occurrences : s <= o.start
           to == CHOOSE e \in {o.end : o \in occurrences} :
                       \A o \in occurrences : e >= o.end
           span == [start |-> from, end |-> to]
<1>0. \A o \in occurrences : o.start \in Nat /\ o.end \in Nat
  BY DEF Lesson
<1>1. from \in {o.start : o \in occurrences} /\ \A o \in occurrences : from <= o.start
  BY <1>0
<1>2. to \in {o.end : o \in occurrences} /\ \A o \in occurrences : to >= o.end
  BY <1>0
<1>3. from \in Nat /\ to \in Nat
  BY <1>0, <1>1, <1>2
<1>4. span = Span(occurrences)
  BY DEF Span
<1>5. span.start = from /\ span.end = to
  OBVIOUS
<1> HIDE DEF from, to, span
<1>6. PICK page \in Clear(teacher, occurrences, exclude) :
         missed = Matching(teacher, span, exclude) \ page
  BY <1>4 DEF Checks
<1>7. \A i \in page, o \in occurrences : ~Overlap(sessions[i], o)
  BY DEF Clear
<1>8. ASSUME NEW o \in occurrences,
             NEW j \in ((DOMAIN sessions \ exclude) \ missed) \cap DOMAIN sessions,
             sessions[j].live, sessions[j].teacher = o.teacher, Overlap(sessions[j], o)
      PROVE  FALSE
  <2>1. sessions[j].start \in Nat /\ sessions[j].end \in Nat
    BY DEF ScheduleTypes, Lesson
  <2>2. Overlap(sessions[j], span)
    BY <1>0, <1>1, <1>2, <1>3, <1>5, <1>8, <2>1 DEF Overlap
  <2>3. j \in Matching(teacher, span, exclude)
    BY <1>8, <2>2 DEF Matching
  <2>4. j \in page
    BY <1>6, <1>8, <2>3
  <2> QED
    BY <1>7, <1>8, <2>4
<1> QED
  BY <1>8 DEF Apart

\* What an answer leaves out are rows of the table.
LEMMA MissedAreRows ==
    ASSUME NEW teacher, NEW occurrences, NEW exclude, NEW force \in BOOLEAN,
           NEW missed \in Checks(teacher, occurrences, exclude, force)
    PROVE  missed \subseteq DOMAIN sessions
BY DEF Checks, Matching

\* A row forgets an id and keeps everything else.
LEMMA RowForgets ==
    ASSUME NEW r \in Lesson, NEW id
    PROVE  /\ Forgets(r, id) \in Lesson
           /\ Forgets(r, id).teacher = r.teacher /\ Forgets(r, id).live = r.live
           /\ Forgets(r, id).start = r.start /\ Forgets(r, id).end = r.end
           /\ Forgets(r, id).saw = r.saw \ {id}
<1>1. Forgets(r, id) = [r EXCEPT !.saw = r.saw \ {id}, !.missed = r.missed \ {id}]
  BY DEF Forgets, Lesson
<1> QED
  BY <1>1 DEF Lesson

\* A request forgets an id and keeps everything else.
LEMMA RequestForgets ==
    ASSUME NEW b \in {NoBooking} \cup Series \cup Edits, NEW id
    PROVE  /\ b = NoBooking => Forgets(b, id) = NoBooking
           /\ b \in Series => /\ Forgets(b, id) \in Series
                              /\ Forgets(b, id).teacher = b.teacher
                              /\ Forgets(b, id).lesson = b.lesson
                              /\ Forgets(b, id).next = b.next
                              /\ Forgets(b, id).weeks = b.weeks
                              /\ Forgets(b, id).saw = b.saw \ {id}
           /\ b \in Edits => /\ Forgets(b, id) \in Edits
                             /\ Forgets(b, id).id = b.id
                             /\ Forgets(b, id).row = b.row
                             /\ Forgets(b, id).saw = b.saw \ {id}
<1>1. ASSUME b = NoBooking PROVE Forgets(b, id) = NoBooking
  BY <1>1 DEF Forgets, NoBooking
<1>2. ASSUME b \in Series \/ b \in Edits
      PROVE  Forgets(b, id) = [b EXCEPT !.saw = b.saw \ {id}, !.missed = b.missed \ {id}]
  BY <1>2 DEF Forgets, Series, Edits
<1>3. ASSUME b \in Series
      PROVE  /\ Forgets(b, id) \in Series
             /\ Forgets(b, id).teacher = b.teacher /\ Forgets(b, id).lesson = b.lesson
             /\ Forgets(b, id).next = b.next /\ Forgets(b, id).weeks = b.weeks
             /\ Forgets(b, id).saw = b.saw \ {id}
  BY <1>2, <1>3 DEF Series
<1>4. ASSUME b \in Edits
      PROVE  /\ Forgets(b, id) \in Edits
             /\ Forgets(b, id).id = b.id /\ Forgets(b, id).row = b.row
             /\ Forgets(b, id).saw = b.saw \ {id}
  BY <1>2, <1>4 DEF Edits
<1> QED
  BY <1>1, <1>3, <1>4

\* Rows that stand as they did.
SameRows(old, new, ids) ==
    \A j \in ids \cap DOMAIN new :
        /\ j \in DOMAIN old
        /\ new[j].teacher = old[j].teacher /\ new[j].live = old[j].live
        /\ new[j].start = old[j].start /\ new[j].end = old[j].end

\* A lesson that was free of rows is free of those that still stand.
LEMMA ApartKept ==
    ASSUME NEW old, NEW new, NEW saw, NEW kept \in SUBSET saw, NEW lesson,
           Apart(old, saw, lesson), SameRows(old, new, kept)
    PROVE  Apart(new, kept, lesson)
BY DEF Apart, SameRows, Overlap

\* A request stays right about the rows it has not forgotten.
LEMMA FreeKept ==
    ASSUME NEW old, NEW new, NEW b \in {NoBooking} \cup Series \cup Edits, NEW id,
           StillFree(old, b), b # NoBooking => SameRows(old, new, b.saw \ {id})
    PROVE  StillFree(new, Forgets(b, id))
<1> DEFINE c == Forgets(b, id)
<1>1. CASE b = NoBooking
  <2>1. c = NoBooking /\ NoBooking.pc = "idle"
    BY <1>1, RequestForgets DEF NoBooking
  <2> QED
    BY <2>1 DEF StillFree
<1>2. CASE b \in Series
  <2>1. /\ c.pc = "save" /\ c.teacher = b.teacher /\ c.lesson = b.lesson /\ c.next = b.next
        /\ c.weeks = b.weeks /\ c.saw = b.saw \ {id} /\ b.pc = "save" /\ b # NoBooking
    BY <1>2, RequestForgets DEF Series, NoBooking
  <2> HIDE DEF c
  <2>2. ASSUME NEW k \in 0 .. b.weeks - 1
        PROVE  Apart(new, c.saw, Row(c.teacher, c.lesson, k, TRUE, {}))
    <3>1. Apart(old, b.saw, Row(b.teacher, b.lesson, k, TRUE, {}))
      BY <2>1 DEF StillFree
    <3> QED
      BY <2>1, <3>1, ApartKept
  <2>3. StillFree(new, c)
    BY <2>1, <2>2 DEF StillFree
  <2> QED
    BY <2>3 DEF c
<1>3. CASE b \in Edits
  <2>1. /\ c.pc = "update" /\ c.id = b.id /\ c.row = b.row
        /\ c.saw = b.saw \ {id} /\ b.pc = "update" /\ b # NoBooking
    BY <1>3, RequestForgets DEF Edits, NoBooking
  <2> HIDE DEF c
  <2>2. Apart(new, c.saw, c.row)
    BY <2>1, ApartKept DEF StillFree
  <2>3. StillFree(new, c)
    BY <2>1, <2>2 DEF StillFree
  <2> QED
    BY <2>3 DEF c
<1> QED
  BY <1>1, <1>2, <1>3

\* A request that sees the same rows still stands.
LEMMA FreeStands ==
    ASSUME NEW old, NEW new, NEW b \in {NoBooking} \cup Series \cup Edits,
           StillFree(old, b), b # NoBooking => SameRows(old, new, b.saw)
    PROVE  StillFree(new, b)
<1>1. CASE b = NoBooking
  BY <1>1 DEF StillFree, NoBooking
<1>2. CASE b \in Series
  <2>1. b.pc = "save" /\ b # NoBooking
    BY <1>2 DEF Series, NoBooking
  <2>2. ASSUME NEW k \in 0 .. b.weeks - 1
        PROVE  Apart(new, b.saw, Row(b.teacher, b.lesson, k, TRUE, {}))
    BY <2>1, ApartKept DEF StillFree
  <2> QED
    BY <2>1, <2>2 DEF StillFree
<1>3. CASE b \in Edits
  <2>1. b.pc = "update" /\ b # NoBooking
    BY <1>3 DEF Edits, NoBooking
  <2> QED
    BY <2>1, ApartKept DEF StillFree
<1> QED
  BY <1>1, <1>2, <1>3

\* A worker without a request has nothing to be wrong about.
LEMMA IdleFree == NoBooking.pc = "idle" /\ \A table : StillFree(table, NoBooking)
BY DEF NoBooking, StillFree

\* One lesson, seen by nobody, is there at first.
LEMMA ScheduleInvInit == ScheduleInit => ScheduleInv
<1> SUFFICES ASSUME ScheduleInit PROVE ScheduleInv
  OBVIOUS
<1>1. PICK t \in Teachers, l \in Lessons : sessions = [i \in {1} |-> Row(t, l, 0, TRUE, {})]
  BY DEF ScheduleInit
<1>2. Row(t, l, 0, TRUE, {}) \in Lesson /\ Row(t, l, 0, TRUE, {}).saw = {}
  BY OccurrenceType
<1>3. DOMAIN sessions = {1} /\ sessions[1] \in Lesson /\ sessions[1].saw = {}
  BY <1>1, <1>2
<1>4. ScheduleTypes
  <2>1. issued = 1 /\ book = [w \in Workers |-> NoBooking]
    BY DEF ScheduleInit
  <2>2. 1 \in Nat /\ 1 .. 1 = {1}
    OBVIOUS
  <2> QED
    BY <1>3, <2>1, <2>2 DEF ScheduleTypes
<1>5. \A w \in Workers : StillFree(sessions, book[w])
  BY IdleFree DEF ScheduleInit
<1> QED
  BY <1>3, <1>4, <1>5 DEF ScheduleInv, SeenNeverOverlaps, NeverOverlaps

\* A worker takes a request whose check has passed.
LEMMA BookingBegins ==
    ASSUME ScheduleInv, NEW w \in Workers, NEW b \in Series \cup Edits,
           b.saw \subseteq DOMAIN sessions, StillFree(sessions, b),
           book' = [book EXCEPT ![w] = b], UNCHANGED <<sessions, issued>>
    PROVE  ScheduleInv'
<1>1. /\ book' \in [Workers -> {NoBooking} \cup Series \cup Edits]
      /\ \A v \in Workers : book'[v] = IF v = w THEN b ELSE book[v]
  BY DEF ScheduleInv, ScheduleTypes
<1>2. ScheduleTypes'
  BY <1>1 DEF ScheduleInv, ScheduleTypes
<1>3. \A v \in Workers : StillFree(sessions', book'[v])
  BY <1>1 DEF ScheduleInv
<1> QED
  BY <1>2, <1>3 DEF ScheduleInv, SeenNeverOverlaps, NeverOverlaps

\* A request ends, and nothing else happens.
LEMMA BookingEnds ==
    ASSUME ScheduleInv, NEW w \in Workers,
           book' = [book EXCEPT ![w] = NoBooking], UNCHANGED <<sessions, issued>>
    PROVE  ScheduleInv'
<1>1. /\ book' \in [Workers -> {NoBooking} \cup Series \cup Edits]
      /\ \A v \in Workers : book'[v] = IF v = w THEN NoBooking ELSE book[v]
  BY DEF ScheduleInv, ScheduleTypes
<1>2. ScheduleTypes'
  BY <1>1 DEF ScheduleInv, ScheduleTypes
<1>3. \A v \in Workers : StillFree(sessions', book'[v])
  BY <1>1, IdleFree DEF ScheduleInv
<1> QED
  BY <1>2, <1>3 DEF ScheduleInv, SeenNeverOverlaps, NeverOverlaps

\* The occurrences of a series lie between the first and the last.
LEMMA SeriesSpan ==
    ASSUME NEW t \in Teachers, NEW l \in Lessons, NEW n \in Nat, NEW k \in Nat, k <= n
    PROVE  /\ Row(t, l, k, TRUE, {}) \in Lesson
           /\ Row(t, l, k, TRUE, {}).teacher = t
           /\ Row(t, l, 0, TRUE, {}).start <= Row(t, l, k, TRUE, {}).start
           /\ Row(t, l, k, TRUE, {}).end <= Row(t, l, n, TRUE, {}).end
<1>1. l[1] \in Nat /\ l[2] \in Nat /\ k * Week \in Nat /\ n * Week \in Nat /\ 0 * Week = 0
  BY ScheduleAssumption
<1>2. k * Week <= n * Week
  BY WeeksGrow
<1>3. l[1] + 0 * Week <= l[1] + k * Week /\ l[2] + k * Week <= l[2] + n * Week
  BY <1>1, <1>2
<1>4. Row(t, l, k, TRUE, {}) \in Lesson /\ Row(t, l, k, TRUE, {}).teacher = t
  BY OccurrenceType
<1> QED
  BY <1>3, <1>4 DEF Row

\* The check of a series that is not forced.
LEMMA SeriesFree ==
    ASSUME ScheduleTypes, NEW t \in Teachers, NEW l \in Lessons, NEW weeks \in Nat, weeks > 0,
           NEW missed \in Checks(t, {Row(t, l, k, TRUE, {}) : k \in 0 .. weeks - 1}, {}, FALSE)
    PROVE  \A k \in 0 .. weeks - 1 :
              Apart(sessions, DOMAIN sessions \ missed, Row(t, l, k, TRUE, {}))
<1> DEFINE occ(k) == Row(t, l, k, TRUE, {})
           all == {occ(k) : k \in 0 .. weeks - 1}
<1>1. ASSUME NEW k \in 0 .. weeks - 1
      PROVE  /\ occ(k) \in Lesson /\ occ(k).teacher = t
             /\ occ(0).start <= occ(k).start /\ occ(k).end <= occ(weeks - 1).end
  <2>1. k \in Nat /\ weeks - 1 \in Nat /\ k <= weeks - 1
    OBVIOUS
  <2> QED
    BY <2>1, SeriesSpan
<1>2. /\ occ(0) \in all /\ occ(weeks - 1) \in all
      /\ 0 \in 0 .. weeks - 1 /\ weeks - 1 \in 0 .. weeks - 1
  <2>1. 0 \in 0 .. weeks - 1 /\ weeks - 1 \in 0 .. weeks - 1
    OBVIOUS
  <2> QED
    BY <2>1
<1>3. missed \in Checks(t, all, {}, FALSE)
  OBVIOUS
<1> HIDE DEF occ
<1>4. /\ all \in SUBSET Lesson
      /\ \A o \in all : occ(0).start <= o.start /\ o.end <= occ(weeks - 1).end /\ o.teacher = t
  BY <1>1
<1> HIDE DEF all
<1>5. \A o \in all : Apart(sessions, (DOMAIN sessions \ {}) \ missed, o)
  BY <1>2, <1>3, <1>4, ClearMeansApart
<1>6. \A k \in 0 .. weeks - 1 : occ(k) \in all
  BY DEF all
<1>7. DOMAIN sessions \ {} = DOMAIN sessions
  OBVIOUS
<1> QED
  BY <1>5, <1>6, <1>7 DEF occ

\* CreateSessionsWithRepeat begins: forced, or every occurrence is free.
LEMMA CreateStep ==
    ASSUME ScheduleInv, NEW w \in Workers, NEW t \in Teachers, NEW l \in Lessons,
           NEW weeks \in 1 .. MaxRepeat, NEW force \in BOOLEAN,
           CreateSessionsWithRepeat(w, t, l, weeks, force)
    PROVE  ScheduleInv'
<1> DEFINE all == {Row(t, l, k, TRUE, {}) : k \in 0 .. weeks - 1}
<1>1. PICK missed \in Checks(t, all, {}, force) :
         /\ book' = [book EXCEPT ![w] =
                       [pc |-> "save", teacher |-> t, lesson |-> l, next |-> 0, weeks |-> weeks,
                        saw |-> (IF force THEN {} ELSE DOMAIN sessions) \ missed,
                        missed |-> missed]]
         /\ UNCHANGED <<sessions, issued>>
  BY DEF CreateSessionsWithRepeat
<1> DEFINE saw == (IF force THEN {} ELSE DOMAIN sessions) \ missed
           b == [pc |-> "save", teacher |-> t, lesson |-> l, next |-> 0, weeks |-> weeks,
                 saw |-> saw, missed |-> missed]
<1>2. weeks \in Nat /\ weeks > 0
  BY ScheduleAssumption
<1>3. saw \subseteq DOMAIN sessions /\ missed \subseteq DOMAIN sessions
      /\ DOMAIN sessions \subseteq Nat
  BY MissedAreRows DEF ScheduleInv, ScheduleTypes
<1>4. \A k \in 0 .. weeks - 1 : Apart(sessions, saw, Row(t, l, k, TRUE, {}))
  <2>1. CASE force
    BY <2>1 DEF Apart
  <2>2. CASE ~force
    <3>1. missed \in Checks(t, all, {}, FALSE) /\ saw = DOMAIN sessions \ missed
      BY <2>2
    <3> QED
      BY <1>2, <3>1, SeriesFree DEF ScheduleInv
  <2> QED
    BY <2>1, <2>2
<1>7. book' = [book EXCEPT ![w] = b]
  BY <1>1
<1> HIDE DEF saw
<1>5. /\ b \in Series /\ b.pc = "save" /\ b.next = 0 /\ b.weeks = weeks /\ b.saw = saw
      /\ b.teacher = t /\ b.lesson = l
  BY <1>2, <1>3 DEF Series
<1> HIDE DEF b
<1>6. StillFree(sessions, b)
  BY <1>2, <1>4, <1>5 DEF StillFree
<1> QED
  BY <1>1, <1>3, <1>5, <1>6, <1>7, BookingBegins

\* UpdateSession begins: forced, or the hour is free but for the row itself.
LEMMA UpdateSessionStep ==
    ASSUME ScheduleInv, NEW w \in Workers, NEW t \in Teachers, NEW l \in Lessons,
           NEW id \in DOMAIN sessions, NEW live \in BOOLEAN, NEW force \in BOOLEAN,
           UpdateSession(w, id, t, l, live, force)
    PROVE  ScheduleInv'
<1> DEFINE row == Row(t, l, 0, live, {})
<1>1. PICK missed \in Checks(t, {row}, {id}, force) :
         /\ book' = [book EXCEPT ![w] =
                       [pc |-> "update", id |-> id, row |-> row,
                        saw |-> (IF force THEN {} ELSE DOMAIN sessions \ {id}) \ missed,
                        missed |-> missed]]
         /\ UNCHANGED <<sessions, issued>>
  BY DEF UpdateSession
<1> DEFINE saw == (IF force THEN {} ELSE DOMAIN sessions \ {id}) \ missed
           b == [pc |-> "update", id |-> id, row |-> row, saw |-> saw, missed |-> missed]
<1>2. row \in Lesson /\ row.teacher = t
  BY UpdatedRow
<1> HIDE DEF row
<1>3. /\ saw \subseteq DOMAIN sessions /\ id \notin saw /\ missed \subseteq DOMAIN sessions
      /\ DOMAIN sessions \subseteq Nat /\ id \in Nat
  BY MissedAreRows DEF ScheduleInv, ScheduleTypes
<1>4. Apart(sessions, saw, row)
  <2>1. CASE force
    BY <2>1 DEF Apart
  <2>2. CASE ~force
    <3>1. row.start \in Nat /\ row.end \in Nat
      BY <1>2 DEF Lesson
    <3>2. /\ {row} \in SUBSET Lesson /\ row \in {row}
          /\ \A o \in {row} : row.start <= o.start /\ o.end <= row.end /\ o.teacher = t
      BY <1>2, <3>1
    <3>3. missed \in Checks(t, {row}, {id}, FALSE) /\ ScheduleTypes
      BY <2>2 DEF ScheduleInv
    <3>4. \A o \in {row} : Apart(sessions, (DOMAIN sessions \ {id}) \ missed, o)
      BY <3>2, <3>3, ClearMeansApart
    <3> QED
      BY <2>2, <3>4
  <2> QED
    BY <2>1, <2>2
<1>7. book' = [book EXCEPT ![w] = b]
  BY <1>1
<1> HIDE DEF saw
<1>5. b \in Edits /\ b.pc = "update" /\ b.id = id /\ b.row = row /\ b.saw = saw
  BY <1>2, <1>3 DEF Edits
<1> HIDE DEF b
<1>6. StillFree(sessions, b)
  BY <1>3, <1>4, <1>5 DEF StillFree
<1> QED
  BY <1>1, <1>3, <1>5, <1>6, <1>7, BookingBegins

\* Save adds a row that nobody has seen, free of the rows its request saw.
LEMMA SaveOccurrenceStep ==
    ASSUME ScheduleInv, NEW w \in Workers, SaveOccurrence(w)
    PROVE  ScheduleInv'
<1>1. CASE ~classLives
  BY <1>1, BookingEnds DEF SaveOccurrence
<1>2. CASE classLives
  <2> DEFINE b == book[w]
             id == issued + 1
             new == [Row(b.teacher, b.lesson, b.next, TRUE, b.saw) EXCEPT !.missed = b.missed]
             occ == Row(b.teacher, b.lesson, b.next, TRUE, {})
             rest == IF b.next + 1 = b.weeks THEN NoBooking ELSE [b EXCEPT !.next = b.next + 1]
  <2>1. /\ b.pc = "save"
        /\ issued' = id
        /\ sessions' = [i \in DOMAIN sessions \cup {id} |-> IF i = id THEN new ELSE sessions[i]]
        /\ book' = [book EXCEPT ![w] = rest]
    BY <1>2 DEF SaveOccurrence
  <2>2. b \in Series /\ b # NoBooking
    BY <2>1 DEF ScheduleInv, ScheduleTypes, NoBooking, Edits
  <2>3. /\ b.teacher \in Teachers /\ b.lesson \in Lessons /\ b.next \in Nat /\ b.weeks \in Nat
        /\ b.saw \in SUBSET Nat /\ b.missed \in SUBSET Nat
    BY <2>2 DEF Series
  <2>4. /\ new \in Lesson /\ new.saw = b.saw /\ new.teacher = b.teacher
        /\ new.start = occ.start /\ new.end = occ.end /\ occ.teacher = b.teacher
        /\ occ \in Lesson
    <3> HIDE DEF b
    <3>1. occ.teacher = b.teacher /\ occ \in Lesson
      BY <2>3, OccurrenceType
    <3> DEFINE row == Row(b.teacher, b.lesson, b.next, TRUE, b.saw)
    <3>2. row = [teacher |-> b.teacher, start |-> occ.start, end |-> occ.end,
                 live |-> TRUE, saw |-> b.saw, missed |-> {}]
      BY DEF Row
    <3>3. new = [row EXCEPT !.missed = b.missed]
      OBVIOUS
    <3> HIDE DEF occ, new, row
    <3>4. /\ row \in Lesson /\ row.saw = b.saw /\ row.teacher = occ.teacher
          /\ row.start = occ.start /\ row.end = occ.end
      BY <2>3, <3>1, <3>2 DEF Lesson
    <3>5. /\ new \in Lesson /\ new.saw = row.saw /\ new.teacher = row.teacher
          /\ new.start = row.start /\ new.end = row.end
      BY <2>3, <3>3, <3>4 DEF Lesson
    <3> QED
      BY <3>1, <3>4, <3>5
  <2>5. /\ issued \in Nat /\ id \in Nat /\ id \notin 1 .. issued /\ 1 .. issued \subseteq 1 .. id
        /\ id \in 1 .. id
    BY DEF ScheduleInv, ScheduleTypes
  <2>6. /\ b.saw \subseteq 1 .. issued
        /\ \A v \in Workers : book[v] # NoBooking => book[v].saw \subseteq 1 .. issued
        /\ DOMAIN sessions \subseteq 1 .. issued
        /\ \A i \in DOMAIN sessions : sessions[i] \in Lesson /\ sessions[i].saw \subseteq 1 .. issued
    BY <2>2 DEF ScheduleInv, ScheduleTypes
  <2> HIDE DEF id, new
  <2>7. /\ DOMAIN sessions' = DOMAIN sessions \cup {id}
        /\ sessions'[id] = new
        /\ \A i \in DOMAIN sessions : sessions'[i] = sessions[i]
    BY <2>1, <2>5, <2>6
  <2>8. \A s \in SUBSET (1 .. issued) : SameRows(sessions, sessions', s)
    BY <2>5, <2>7 DEF SameRows
  <2>9. StillFree(sessions', b)
    BY <2>2, <2>6, <2>8, FreeStands DEF ScheduleInv
  <2>10. /\ rest \in {NoBooking} \cup Series
         /\ rest # NoBooking => rest.saw = b.saw
         /\ StillFree(sessions', rest)
    <3>1. CASE b.next + 1 = b.weeks
      BY <3>1, IdleFree
    <3>2. CASE b.next + 1 # b.weeks
      <4> DEFINE c == [b EXCEPT !.next = b.next + 1]
      <4>1. b.next + 1 \in Nat
        BY <2>3
      <4>2. /\ c \in Series /\ c.pc = "save" /\ c.teacher = b.teacher /\ c.lesson = b.lesson
            /\ c.weeks = b.weeks /\ c.saw = b.saw /\ c.next = b.next + 1
        BY <2>2, <4>1 DEF Series
      <4>3. b.next < b.weeks
        BY <2>1 DEF ScheduleInv, StillFree
      <4> HIDE DEF c
      <4>4. c.next < c.weeks
        BY <2>3, <3>2, <4>2, <4>3
      <4>5. StillFree(sessions', c)
        BY <2>1, <2>9, <4>2, <4>4 DEF StillFree
      <4>6. rest = c
        BY <3>2 DEF c
      <4> HIDE DEF rest
      <4> QED
        BY <4>2, <4>5, <4>6
    <3> QED
      BY <3>1, <3>2
  <2> HIDE DEF rest
  <2>11. /\ book' \in [Workers -> {NoBooking} \cup Series \cup Edits]
         /\ \A v \in Workers : book'[v] = IF v = w THEN rest ELSE book[v]
    BY <2>1, <2>10 DEF ScheduleInv, ScheduleTypes
  <2>12. ScheduleTypes'
    <3>1. \A i \in DOMAIN sessions' : sessions'[i] \in Lesson /\ sessions'[i].saw \subseteq 1 .. id
      BY <2>4, <2>5, <2>6, <2>7
    <3>2. \A v \in Workers : book'[v] # NoBooking => book'[v].saw \subseteq 1 .. id
      BY <2>2, <2>5, <2>6, <2>10, <2>11
    <3>3. DOMAIN sessions' \subseteq 1 .. id
      BY <2>5, <2>6, <2>7
    <3> QED
      BY <2>1, <2>5, <2>11, <3>1, <3>2, <3>3 DEF ScheduleTypes
  <2>13. ASSUME NEW v \in Workers PROVE StillFree(sessions', book'[v])
    <3>1. CASE v = w
      BY <3>1, <2>10, <2>11
    <3>2. CASE v # w
      <4>1. book[v] \in {NoBooking} \cup Series \cup Edits /\ StillFree(sessions, book[v])
        BY DEF ScheduleInv, ScheduleTypes
      <4>2. book[v] # NoBooking => SameRows(sessions, sessions', book[v].saw)
        BY <2>6, <2>8
      <4> QED
        BY <3>2, <2>11, <4>1, <4>2, FreeStands
    <3> QED
      BY <3>1, <3>2
  <2>14. SeenNeverOverlaps'
    <3> SUFFICES ASSUME NEW i \in DOMAIN sessions', NEW j \in DOMAIN sessions',
                        j \in sessions'[i].saw, sessions'[i].live, sessions'[j].live,
                        sessions'[i].teacher = sessions'[j].teacher
                 PROVE  ~Overlap(sessions'[i], sessions'[j])
      BY DEF SeenNeverOverlaps, NeverOverlaps, Overlap
    <3>1. j # id /\ j \in DOMAIN sessions
      BY <2>4, <2>5, <2>6, <2>7
    <3>2. CASE i # id
      BY <3>1, <3>2, <2>7 DEF ScheduleInv, SeenNeverOverlaps, NeverOverlaps
    <3>3. CASE i = id
      <4>1. Apart(sessions, b.saw, occ)
        <5>1. b.next \in 0 .. b.weeks - 1
          <6>1. b.next < b.weeks
            BY <2>1 DEF ScheduleInv, StillFree
          <6> QED
            BY <6>1, <2>3
        <5> QED
          BY <2>1, <5>1 DEF ScheduleInv, StillFree
      <4>2. sessions'[i] = new /\ sessions'[j] = sessions[j] /\ j \in b.saw
        BY <2>4, <2>7, <3>1, <3>3
      <4>3. ~Overlap(sessions[j], occ)
        BY <2>4, <3>1, <4>1, <4>2 DEF Apart
      <4>4. /\ sessions[j].start \in Nat /\ sessions[j].end \in Nat
            /\ occ.start \in Nat /\ occ.end \in Nat
        BY <2>4, <2>6, <3>1 DEF Lesson
      <4> HIDE DEF occ
      <4> QED
        BY <2>4, <4>2, <4>3, <4>4 DEF Overlap
    <3> QED
      BY <3>2, <3>3
  <2> QED
    BY <2>12, <2>13, <2>14 DEF ScheduleInv
<1> QED
  BY <1>1, <1>2

\* Requests that forget a row, over a table where the others stand.
LEMMA AllForget ==
    ASSUME ScheduleInv, NEW id, NEW table,
           SameRows(sessions, table, Nat \ {id}), NEW v \in Workers
    PROVE  /\ Forgets(book[v], id) \in {NoBooking} \cup Series \cup Edits
           /\ Forgets(book[v], id) # NoBooking => Forgets(book[v], id).saw \subseteq 1 .. issued
           /\ StillFree(table, Forgets(book[v], id))
<1>1. /\ book[v] \in {NoBooking} \cup Series \cup Edits
      /\ book[v] # NoBooking => book[v].saw \subseteq 1 .. issued
      /\ StillFree(sessions, book[v])
  BY DEF ScheduleInv, ScheduleTypes
<1>2. /\ Forgets(book[v], id) \in {NoBooking} \cup Series \cup Edits
      /\ book[v] = NoBooking => Forgets(book[v], id) = NoBooking
      /\ book[v] # NoBooking => Forgets(book[v], id).saw = book[v].saw \ {id}
  BY <1>1, RequestForgets
<1>3. book[v] # NoBooking => SameRows(sessions, table, book[v].saw \ {id})
  <2>1. book[v] # NoBooking => book[v].saw \subseteq Nat
    BY <1>1 DEF Series, Edits
  <2> QED
    BY <2>1 DEF SameRows
<1> QED
  BY <1>1, <1>2, <1>3, FreeKept

\* Update rewrites a row; everybody forgets what it had been.
LEMMA UpdateRowStep ==
    ASSUME ScheduleInv, NEW w \in Workers, UpdateRow(w)
    PROVE  ScheduleInv'
<1> DEFINE b == book[w]
<1>1. CASE b.id \notin DOMAIN sessions
  BY <1>1, BookingEnds DEF UpdateRow
<1>2. CASE b.id \in DOMAIN sessions
  <2> DEFINE id == b.id
             new == [b.row EXCEPT !.saw = b.saw, !.missed = b.missed]
  <2>1. /\ b.pc = "update"
        /\ sessions' = [i \in DOMAIN sessions |-> IF i = id THEN new ELSE Forgets(sessions[i], id)]
        /\ book' = [BookingsForget(id) EXCEPT ![w] = NoBooking]
        /\ issued' = issued
    BY <1>2 DEF UpdateRow
  <2>2. b \in Edits /\ b # NoBooking
    BY <2>1 DEF ScheduleInv, ScheduleTypes, NoBooking, Series
  <2>3. b.row \in Lesson /\ b.saw \in SUBSET Nat /\ b.missed \in SUBSET Nat
    BY <2>2 DEF Edits
  <2>4. /\ new \in Lesson /\ new.saw = b.saw /\ new.teacher = b.row.teacher
        /\ new.live = b.row.live /\ new.start = b.row.start /\ new.end = b.row.end
    <3> HIDE DEF b
    <3> QED
      BY <2>3 DEF Lesson
  <2>5. id \notin b.saw /\ Apart(sessions, b.saw, b.row) /\ b.saw \subseteq 1 .. issued
    BY <2>1, <2>2 DEF ScheduleInv, ScheduleTypes, StillFree
  <2> HIDE DEF new, id
  <2>6. /\ DOMAIN sessions' = DOMAIN sessions
        /\ sessions'[id] = new
        /\ \A i \in DOMAIN sessions \ {id} : sessions'[i] = Forgets(sessions[i], id)
    BY <1>2, <2>1 DEF id
  <2>7. \A i \in DOMAIN sessions \ {id} :
           /\ sessions[i] \in Lesson /\ sessions'[i] \in Lesson
           /\ sessions'[i].teacher = sessions[i].teacher /\ sessions'[i].live = sessions[i].live
           /\ sessions'[i].start = sessions[i].start /\ sessions'[i].end = sessions[i].end
           /\ sessions'[i].saw = sessions[i].saw \ {id}
           /\ sessions[i].saw \subseteq 1 .. issued
    BY <2>6, RowForgets DEF ScheduleInv, ScheduleTypes
  <2>8. SameRows(sessions, sessions', Nat \ {id})
    BY <2>6, <2>7 DEF SameRows
  <2>9. \A v \in Workers : book'[v] = IF v = w THEN NoBooking ELSE Forgets(book[v], id)
    BY <2>1 DEF BookingsForget
  <2>10. \A v \in Workers :
            /\ book'[v] \in {NoBooking} \cup Series \cup Edits
            /\ book'[v] # NoBooking => book'[v].saw \subseteq 1 .. issued
            /\ StillFree(sessions', book'[v])
    BY <2>8, <2>9, AllForget, IdleFree
  <2>11. ScheduleTypes'
    <3>1. book' \in [Workers -> {NoBooking} \cup Series \cup Edits]
      BY <2>1, <2>10 DEF BookingsForget
    <3>2. \A i \in DOMAIN sessions : sessions'[i] \in Lesson /\ sessions'[i].saw \subseteq 1 .. issued
      BY <2>4, <2>5, <2>6, <2>7
    <3> QED
      BY <2>1, <2>6, <2>10, <3>1, <3>2 DEF ScheduleInv, ScheduleTypes
  <2>12. SeenNeverOverlaps'
    <3> SUFFICES ASSUME NEW i \in DOMAIN sessions', NEW j \in DOMAIN sessions',
                        j \in sessions'[i].saw, sessions'[i].live, sessions'[j].live,
                        sessions'[i].teacher = sessions'[j].teacher
                 PROVE  ~Overlap(sessions'[i], sessions'[j])
      BY DEF SeenNeverOverlaps, NeverOverlaps, Overlap
    <3>1. j # id
      BY <2>4, <2>5, <2>6, <2>7
    <3>2. CASE i # id
      <4>1. ~Overlap(sessions[i], sessions[j])
        BY <2>6, <2>7, <3>1, <3>2 DEF ScheduleInv, SeenNeverOverlaps, NeverOverlaps
      <4> QED
        BY <2>6, <2>7, <3>1, <3>2, <4>1 DEF Overlap
    <3>3. CASE i = id
      <4>1. ~Overlap(sessions[j], b.row)
        BY <2>4, <2>5, <2>6, <2>7, <3>1, <3>3 DEF Apart
      <4>2. /\ sessions[j].start \in Nat /\ sessions[j].end \in Nat
            /\ b.row.start \in Nat /\ b.row.end \in Nat
        BY <2>3, <2>6, <2>7, <3>1 DEF Lesson
      <4>3. sessions'[j].start = sessions[j].start /\ sessions'[j].end = sessions[j].end
        BY <2>6, <2>7, <3>1
      <4>4. sessions'[i].start = b.row.start /\ sessions'[i].end = b.row.end
        BY <2>4, <2>6, <3>3
      <4> HIDE DEF b
      <4> QED
        BY <4>1, <4>2, <4>3, <4>4 DEF Overlap
    <3> QED
      BY <3>2, <3>3
  <2> QED
    BY <2>10, <2>11, <2>12 DEF ScheduleInv
<1> QED
  BY <1>1, <1>2

\* Delete takes a row away; everybody forgets it.
LEMMA DeleteSessionStep ==
    ASSUME ScheduleInv, NEW id, DeleteSession(id)
    PROVE  ScheduleInv'
<1>1. /\ sessions' = [i \in DOMAIN sessions \ {id} |-> Forgets(sessions[i], id)]
      /\ book' = [v \in Workers |-> Forgets(book[v], id)]
      /\ issued' = issued
  BY DEF DeleteSession, WithoutRow, BookingsForget
<1>2. \A i \in DOMAIN sessions \ {id} :
         /\ sessions[i] \in Lesson /\ sessions'[i] \in Lesson
         /\ sessions'[i].teacher = sessions[i].teacher /\ sessions'[i].live = sessions[i].live
         /\ sessions'[i].start = sessions[i].start /\ sessions'[i].end = sessions[i].end
         /\ sessions'[i].saw = sessions[i].saw \ {id}
         /\ sessions[i].saw \subseteq 1 .. issued
  BY <1>1, RowForgets DEF ScheduleInv, ScheduleTypes
<1>3. DOMAIN sessions' = DOMAIN sessions \ {id}
  BY <1>1
<1>4. SameRows(sessions, sessions', Nat \ {id})
  BY <1>2, <1>3 DEF SameRows
<1>5. \A v \in Workers :
         /\ book'[v] \in {NoBooking} \cup Series \cup Edits
         /\ book'[v] # NoBooking => book'[v].saw \subseteq 1 .. issued
         /\ StillFree(sessions', book'[v])
  BY <1>1, <1>4, AllForget
<1>6. ScheduleTypes'
  <2>1. book' \in [Workers -> {NoBooking} \cup Series \cup Edits]
    BY <1>1, <1>5
  <2>2. \A i \in DOMAIN sessions' : sessions'[i] \in Lesson /\ sessions'[i].saw \subseteq 1 .. issued
    BY <1>2, <1>3
  <2> QED
    BY <1>1, <1>3, <1>5, <2>1, <2>2 DEF ScheduleInv, ScheduleTypes
<1>7. SeenNeverOverlaps'
  BY <1>2, <1>3 DEF ScheduleInv, SeenNeverOverlaps, NeverOverlaps, Overlap
<1> QED
  BY <1>5, <1>6, <1>7 DEF ScheduleInv

\* With the class go its rows, and every request forgets them.
LEMMA DeleteClassSchedule ==
    ASSUME ScheduleInv, DeleteClass
    PROVE  ScheduleInv'
<1> DEFINE blank(b) == IF "saw" \in DOMAIN b THEN [b EXCEPT !.saw = {}, !.missed = {}] ELSE b
<1>1. /\ DOMAIN sessions' = {}
      /\ book' = [v \in Workers |-> blank(book[v])]
      /\ issued' = issued
  BY DEF DeleteClass
<1>2. ASSUME NEW b \in {NoBooking} \cup Series \cup Edits, StillFree(sessions, b)
      PROVE  /\ blank(b) \in {NoBooking} \cup Series \cup Edits
             /\ blank(b) # NoBooking => blank(b).saw = {}
             /\ StillFree(sessions', blank(b))
  <2>1. CASE b = NoBooking
    <3>1. blank(b) = NoBooking
      BY <2>1 DEF NoBooking
    <3> QED
      BY <3>1, IdleFree
  <2>2. CASE b \in Series
    <3> DEFINE c == [b EXCEPT !.saw = {}, !.missed = {}]
    <3>1. blank(b) = c
      BY <2>2 DEF Series
    <3>2. c \in Series /\ c.saw = {} /\ c.pc = "save" /\ c.next = b.next /\ c.weeks = b.weeks
      BY <2>2 DEF Series
    <3> HIDE DEF c, blank
    <3>3. b.next < b.weeks
      BY <1>2, <2>2 DEF StillFree, Series
    <3>4. StillFree(sessions', c)
      BY <1>1, <3>2, <3>3 DEF StillFree, Apart
    <3> QED
      BY <3>1, <3>2, <3>4
  <2>3. CASE b \in Edits
    <3> DEFINE c == [b EXCEPT !.saw = {}, !.missed = {}]
    <3>1. blank(b) = c
      BY <2>3 DEF Edits
    <3>2. c \in Edits /\ c.saw = {} /\ c.pc = "update"
      BY <2>3 DEF Edits
    <3> HIDE DEF c, blank
    <3>3. StillFree(sessions', c)
      BY <1>1, <3>2 DEF StillFree, Apart
    <3> QED
      BY <3>1, <3>2, <3>3
  <2> QED
    BY <2>1, <2>2, <2>3
<1> HIDE DEF blank
<1>3. \A v \in Workers : /\ book'[v] \in {NoBooking} \cup Series \cup Edits
                         /\ book'[v] # NoBooking => book'[v].saw = {}
                         /\ StillFree(sessions', book'[v])
  BY <1>1, <1>2 DEF ScheduleInv, ScheduleTypes
<1>4. ScheduleTypes'
  BY <1>1, <1>3 DEF ScheduleInv, ScheduleTypes
<1> QED
  BY <1>1, <1>3, <1>4 DEF ScheduleInv, SeenNeverOverlaps, NeverOverlaps

\* Every request on the class keeps the schedule's invariant.
LEMMA ScheduleInvNext == ASSUME ScheduleInv, [Next]_vars PROVE ScheduleInv'
<1>1. ASSUME UNCHANGED <<sessions, issued, book>> PROVE ScheduleInv'
  BY <1>1 DEF ScheduleInv, ScheduleTypes, SeenNeverOverlaps, NeverOverlaps
<1>2. CASE UNCHANGED vars \/ (TuitionNext /\ UNCHANGED scheduleVars)
  BY <1>1, <1>2 DEF vars, scheduleVars
<1>3. CASE DeleteClass
  BY <1>3, DeleteClassSchedule
<1>4. ASSUME NEW w \in Workers, BookingFails(w) PROVE ScheduleInv'
  BY <1>4, BookingEnds DEF BookingFails
<1>5. ASSUME NEW w \in Workers, NEW id \in DOMAIN sessions, NEW students \in SUBSET Students,
             SaveAttendance(w, id, students)
      PROVE  ScheduleInv'
  BY <1>1, <1>5 DEF SaveAttendance
<1>6. ASSUME NEW w \in Workers, SheetEnds(w) PROVE ScheduleInv'
  BY <1>1, <1>6 DEF SheetEnds
<1>7. ASSUME NEW w \in Workers, NEW student \in Students, InsertRecord(w, student)
      PROVE  ScheduleInv'
  BY <1>1, <1>7 DEF InsertRecord
<1>8. CASE ScheduleNext
  BY <1>4, <1>5, <1>6, <1>7, <1>8, CreateStep, UpdateSessionStep, SaveOccurrenceStep,
     UpdateRowStep, DeleteSessionStep DEF ScheduleNext
<1> QED
  BY <1>2, <1>3, <1>8 DEF Next

\* A lesson booked without force never overlaps a lesson that was in the table
\* when its request checked and that the row limit did not cut from the
\* answer, however its series, other bookings, edits and deletions interleave
\* (CreateSessionsWithRepeat, session.go:76-115).
THEOREM SeenLessonsApart == Spec => []SeenNeverOverlaps
<1>1. Init => ScheduleInv
  BY ScheduleInvInit DEF Init
<1>2. ScheduleInv /\ [Next]_vars => ScheduleInv'
  BY ScheduleInvNext
<1>3. ScheduleInv => SeenNeverOverlaps
  BY DEF ScheduleInv
<1> QED
  BY <1>1, <1>2, <1>3, PTL DEF Spec
=============================================================================
