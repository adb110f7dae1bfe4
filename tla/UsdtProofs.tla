------------------------------ MODULE UsdtProofs ------------------------------
(* Theorems about UsdtPayment, for every value of its constants. *)
EXTENDS UsdtPayment, TLAPS

LEMMA NullsTyped == NoOrder \in OrderRow /\ NoTransfer \in TransferRow /\ NoJob \in Job
<1>1. (CHOOSE u \in Users : TRUE) \in Users /\ (CHOOSE a \in Amounts : TRUE) \in Amounts
  BY UsdtAssumption
<1>2. 0 \in 0..Expire /\ 0 \in 0..Confirm /\ 0 \in 0..TransferAge /\ 0 \in 0..(RetryLimit - 1)
  BY UsdtAssumption DEF TransferAge
<1>3. QED
  BY <1>1, <1>2 DEF NoOrder, OrderRow, NoTransfer, TransferRow, NoJob, Job, Statuses

\* Rows after an update: their type, and the fields it leaves alone.
LEMMA StatusRow ==
  ASSUME NEW r \in OrderRow, NEW s \in Statuses
  PROVE LET q == [r EXCEPT !.status = s]
        IN /\ q \in OrderRow /\ q.status = s /\ q.amount = r.amount /\ q.tooOld = r.tooOld
           /\ q.tx = r.tx /\ q.manual = r.manual
BY DEF OrderRow

LEMMA PaidRow ==
  ASSUME NEW r \in OrderRow, NEW t \in Transfers \cup {0}
  PROVE LET q == AsPaid(r, t)
        IN /\ q \in OrderRow /\ q.status = "paid" /\ q.tx = t
           /\ q.amount = r.amount /\ q.tooOld = r.tooOld /\ q.manual = r.manual
<1>1. 0 \in 0..Confirm
  BY UsdtAssumption
<1>2. QED
  BY <1>1 DEF AsPaid, OrderRow, Statuses

LEMMA ManualRow ==
  ASSUME NEW r \in OrderRow, NEW t \in Transfers \cup {0}
  PROVE LET q == AsVouched(r, t)
        IN /\ q \in OrderRow /\ q.status = "confirmed" /\ q.manual = TRUE
           /\ q.amount = r.amount /\ q.tooOld = r.tooOld
BY DEF AsVouched, OrderRow, Statuses

LEMMA NewRow ==
  ASSUME NEW u \in Users, NEW a \in Amounts
  PROVE NewOrder(u, a) \in OrderRow /\ NewOrder(u, a).status = "pending"
<1>1. Expire \in 0..Expire
  BY UsdtAssumption
<1>2. QED
  BY <1>1, NullsTyped DEF NewOrder, OrderRow, Statuses

\* The row after a tick.
Aged(r) ==
  IF r.status = "absent" THEN r
  ELSE [r EXCEPT !.ttl = IF @ > 0 THEN @ - 1 ELSE 0,
                 !.paidAge = IF r.status = "paid" THEN Older(@, Confirm) ELSE @]

LEMMA AgedRow ==
  ASSUME NEW r \in OrderRow
  PROVE /\ Aged(r) \in OrderRow /\ Aged(r).status = r.status /\ Aged(r).amount = r.amount
        /\ Aged(r).tooOld = r.tooOld /\ Aged(r).tx = r.tx /\ Aged(r).manual = r.manual
<1>1. \A n \in 0..Expire : (IF n > 0 THEN n - 1 ELSE 0) \in 0..Expire
  BY UsdtAssumption
<1>2. \A n \in 0..Confirm : Older(n, Confirm) \in 0..Confirm
  BY UsdtAssumption DEF Older
<1>3. r.ttl \in 0..Expire /\ r.paidAge \in 0..Confirm
  BY DEF OrderRow
<1>4. QED
  BY <1>1, <1>2, <1>3 DEF Aged, OrderRow

LEMMA AgedTransfer ==
  ASSUME NEW t \in TransferRow
  PROVE LET q == [t EXCEPT !.age = Older(@, TransferAge)]
        IN q \in TransferRow /\ q.seen = t.seen /\ q.amount = t.amount
<1>1. \A n \in 0..TransferAge : Older(n, TransferAge) \in 0..TransferAge
  BY UsdtAssumption DEF Older, TransferAge
<1>2. QED
  BY <1>1 DEF TransferRow

LEMMA JobTyped ==
  /\ \A o \in Orders : [NoJob EXCEPT !.id = o] \in Job
  /\ \A u \in Users : [NoJob EXCEPT !.user = u] \in Job
  /\ \A o \in Orders, t \in Transfers, b \in BOOLEAN :
       [NoJob EXCEPT !.id = o, !.tx = t, !.ready = b] \in Job
  /\ \A o \in Orders, b \in BOOLEAN : [NoJob EXCEPT !.id = o, !.done = b] \in Job
BY NullsTyped DEF Job

LEMMA TypeInit == Init => UsdtTypeOK
BY NullsTyped, UsdtAssumption DEF Init, UsdtTypeOK, Labels

\* What threads do to their own pc, batch and job.
LEMMA NextRowTyped ==
  ASSUME UsdtTypeOK, NEW p \in Procs, NEW rows \in SUBSET Snapshot, NextRow(p, rows)
  PROVE pc' \in [Procs -> Labels] /\ batch' \in [Procs -> SUBSET Snapshot] /\ job' \in [Procs -> Job]
BY NullsTyped DEF UsdtTypeOK, NextRow, Goto, Labels

LEMMA GotoTyped ==
  ASSUME UsdtTypeOK, NEW p \in Procs, NEW label \in Labels, NEW j \in Job, Goto(p, label, j)
  PROVE pc' \in [Procs -> Labels] /\ job' \in [Procs -> Job]
BY DEF UsdtTypeOK, Goto

\* One thread's step keeps the types.
LEMMA TypeProc ==
  ASSUME UsdtTypeOK, NEW p \in Procs, Call(p) \/ Step(p) \/ UpdateError(p) \/ Crash(p)
  PROVE UsdtTypeOK'
<1> USE DEF Fault
<1>0. /\ job[p] \in Job /\ job[p].id \in Orders \cup {0} /\ job[p].user \in Users
      /\ batch[p] \in SUBSET Snapshot /\ NoJob \in Job
      /\ \A o \in Orders : order[o] \in OrderRow /\ grants[o] \in Nat
  BY NullsTyped DEF UsdtTypeOK, Job
<1>1. ASSUME NEW u \in Users, CreateOrder(p, u) PROVE UsdtTypeOK'
  <2>1. [NoJob EXCEPT !.user = u] \in Job /\ "insert" \in Labels
    BY JobTyped DEF Labels
  <2>2. pc' \in [Procs -> Labels] /\ job' \in [Procs -> Job]
    BY <1>1, <2>1, GotoTyped DEF CreateOrder
  <2>3. QED
    BY <1>1, <2>2, UsdtAssumption DEF CreateOrder, UsdtTypeOK
<1>2. ASSUME NEW o \in Orders, GetOrder(p, o) PROVE UsdtTypeOK'
  <2>1. {Row(o)} \in SUBSET Snapshot
    BY <1>2 DEF GetOrder, Row, Snapshot, Statuses
  <2>2. QED
    BY <1>2, <2>1, NextRowTyped DEF GetOrder, UsdtTypeOK
<1>3. ASSUME NEW o \in Orders, ManualRead(p, o) PROVE UsdtTypeOK'
  <2>1. [NoJob EXCEPT !.id = o, !.done = (order[o].status = "confirmed")] \in Job
        /\ "manual" \in Labels
    BY JobTyped DEF Labels
  <2>2. pc' \in [Procs -> Labels] /\ job' \in [Procs -> Job]
    BY <1>3, <2>1, GotoTyped DEF ManualRead
  <2>3. QED
    BY <1>3, <2>2 DEF ManualRead, UsdtTypeOK
<1>4. ASSUME NEW a \in Amounts, Insert(p, a) PROVE UsdtTypeOK'
  <2>1. order' \in [Orders -> OrderRow]
    BY <1>4, <1>0, NewRow DEF Insert, UsdtTypeOK
  <2>2. job[p].tries + 1 < RetryLimit => [job[p] EXCEPT !.tries = job[p].tries + 1] \in Job
    <3>1. job[p].tries + 1 < RetryLimit => job[p].tries + 1 \in 0..(RetryLimit - 1)
      BY <1>0, UsdtAssumption DEF Job
    <3>2. QED
      BY <1>0, <3>1 DEF Job
  <2>3. pc' \in [Procs -> Labels] /\ job' \in [Procs -> Job]
    BY <1>4, <1>0, <2>2, GotoTyped DEF Insert, Labels
  <2>4. QED
    BY <1>4, <2>1, <2>3 DEF Insert, UsdtTypeOK
<1>5. CASE Refresh(p)
  <2>1. PICK x \in batch[p] : RefreshPaid(p, x) \/ RefreshFound(p, x) \/ RefreshNothing(p, x)
    BY <1>5 DEF Refresh
  <2>2. x.id \in Orders /\ batch[p] \ {x} \in SUBSET Snapshot
    BY <1>0, <2>1 DEF Snapshot
  <2>3. [NoJob EXCEPT !.id = x.id] \in Job /\ {"confirm", "markPaid", "markExpired"} \subseteq Labels
    BY <2>2, JobTyped DEF Labels
  <2>4. CASE RefreshPaid(p, x)
    <3>1. pc' \in [Procs -> Labels] /\ job' \in [Procs -> Job] /\ batch' \in [Procs -> SUBSET Snapshot]
      BY <2>4, <2>2, <2>3, GotoTyped, NextRowTyped DEF RefreshPaid, UsdtTypeOK
    <3>2. QED
      BY <1>5, <2>4, <3>1 DEF Refresh, RefreshPaid, UsdtTypeOK
  <2>5. CASE RefreshFound(p, x)
    <3>1. PICK t \in Matching(x.id), known \in BOOLEAN :
            Goto(p, "markPaid", [NoJob EXCEPT !.id = x.id, !.tx = t,
                                              !.ready = known /\ transfer[t].age >= Confirm])
      BY <2>5 DEF RefreshFound
    <3>2. t \in Transfers /\ (known /\ transfer[t].age >= Confirm) \in BOOLEAN
      BY <3>1 DEF Matching
    <3>3. [NoJob EXCEPT !.id = x.id, !.tx = t, !.ready = known /\ transfer[t].age >= Confirm] \in Job
      BY <3>2, <2>2, JobTyped
    <3>4. pc' \in [Procs -> Labels] /\ job' \in [Procs -> Job]
      BY <3>1, <3>3, <2>3, GotoTyped
    <3>5. QED
      BY <1>5, <2>5, <2>2, <3>4 DEF Refresh, RefreshFound, UsdtTypeOK
  <2>6. CASE RefreshNothing(p, x)
    <3>1. pc' \in [Procs -> Labels] /\ job' \in [Procs -> Job] /\ batch' \in [Procs -> SUBSET Snapshot]
      BY <2>6, <2>2, <2>3, GotoTyped, NextRowTyped DEF RefreshNothing, UsdtTypeOK
    <3>2. faults' \in 0..MaxFaults
      BY <2>6, UsdtAssumption DEF RefreshNothing, UsdtTypeOK
    <3>3. QED
      BY <1>5, <3>1, <3>2 DEF Refresh, UsdtTypeOK
  <2>7. QED
    BY <2>1, <2>4, <2>5, <2>6
<1>6. CASE MarkPaid(p)
  <2>1. order' \in [Orders -> OrderRow]
    <3>1. job[p].tx \in Transfers \cup {0}
      BY <1>0 DEF Job
    <3>2. \A o \in Orders :
            AsPaid(order[o], job[p].tx) \in OrderRow
      BY <1>0, <3>1, PaidRow
    <3>3. QED
      BY <1>6, <1>0, <3>2 DEF MarkPaid, UsdtTypeOK
  <2>2. pc' \in [Procs -> Labels] /\ job' \in [Procs -> Job] /\ batch' \in [Procs -> SUBSET Snapshot]
    BY <1>6, <1>0, GotoTyped, NextRowTyped DEF MarkPaid, Done, Labels, UsdtTypeOK
  <2>3. QED
    BY <1>6, <2>1, <2>2 DEF MarkPaid, UsdtTypeOK
<1>7. CASE MarkExpired(p)
  <2>1. order' \in [Orders -> OrderRow]
    <3>1. \A o \in Orders : [order[o] EXCEPT !.status = "expired"] \in OrderRow
      BY <1>0, StatusRow DEF Statuses
    <3>2. QED
      BY <1>7, <1>0, <3>1 DEF MarkExpired, SetStatus, UsdtTypeOK
  <2>2. QED
    BY <1>7, <1>0, <2>1, NextRowTyped DEF MarkExpired, Done, UsdtTypeOK
<1>8. CASE ConfirmRead(p)
  <2>1. pc' \in [Procs -> Labels] /\ job' \in [Procs -> Job] /\ batch' \in [Procs -> SUBSET Snapshot]
    BY <1>8, <1>0, GotoTyped, NextRowTyped DEF ConfirmRead, Done, Labels, UsdtTypeOK
  <2>2. QED
    BY <1>8, <2>1 DEF ConfirmRead, UsdtTypeOK
<1>9. CASE ConfirmUpdate(p)
  <2>1. order' \in [Orders -> OrderRow]
    <3>1. \A o \in Orders : [order[o] EXCEPT !.status = "confirmed"] \in OrderRow
      BY <1>0, StatusRow DEF Statuses
    <3>2. QED
      BY <1>9, <1>0, <3>1 DEF ConfirmUpdate, SetStatus, UsdtTypeOK
  <2>2. pc' \in [Procs -> Labels] /\ job' \in [Procs -> Job]
    BY <1>9, <1>0, GotoTyped DEF ConfirmUpdate, Labels
  <2>3. QED
    BY <1>9, <2>1, <2>2 DEF ConfirmUpdate, UsdtTypeOK
<1>10. CASE Activate(p)
  <2>1. grants' \in [Orders -> Nat] /\ faults' \in 0..MaxFaults
    BY <1>10, <1>0, UsdtAssumption DEF Activate, UsdtTypeOK
  <2>2. QED
    BY <1>10, <1>0, <2>1, NextRowTyped DEF Activate, Done, UsdtTypeOK
<1>11. CASE ManualUpdate(p)
  <2>1. order' \in [Orders -> OrderRow]
    <3>1. \A o \in Orders, t \in Transfers \cup {0} :
            AsVouched(order[o], t) \in OrderRow
      BY <1>0, ManualRow
    <3>2. PICK t \in Transfers \cup {0} :
            order' = [order EXCEPT ![job[p].id] = AsVouched(@, t)]
      BY <1>11 DEF ManualUpdate
    <3>3. QED
      BY <1>0, <3>1, <3>2 DEF UsdtTypeOK
  <2>2. pc' \in [Procs -> Labels] /\ job' \in [Procs -> Job]
    BY <1>11, <1>0, GotoTyped DEF ManualUpdate, Labels
  <2>3. QED
    BY <1>11, <2>1, <2>2 DEF ManualUpdate, UsdtTypeOK
<1>12. CASE UpdateError(p)
  BY <1>12, <1>0, NextRowTyped, UsdtAssumption DEF UpdateError, Done, UsdtTypeOK
<1>13. CASE Crash(p)
  BY <1>13, NextRowTyped, UsdtAssumption DEF Crash, UsdtTypeOK
<1>14. QED
  BY <1>1, <1>2, <1>3, <1>4, <1>5, <1>6, <1>7, <1>8, <1>9, <1>10, <1>11, <1>12, <1>13
  DEF Call, Step

LEMMA TypeStep == UsdtTypeOK /\ [Next]_vars => UsdtTypeOK'
<1> SUFFICES ASSUME UsdtTypeOK, [Next]_vars PROVE UsdtTypeOK'
  OBVIOUS
<1>1. CASE Tick
  <2>1. order' = [o \in Orders |-> Aged(order[o])]
    BY <1>1 DEF Tick, Aged
  <2>2. order' \in [Orders -> OrderRow]
    BY <2>1, AgedRow DEF UsdtTypeOK
  <2>3. transfer' \in [Transfers -> TransferRow]
    BY <1>1, AgedTransfer DEF Tick, UsdtTypeOK
  <2>4. QED
    BY <1>1, <2>2, <2>3 DEF Tick, UsdtTypeOK
<1>2. CASE Scan
  <2>1. Worker \in Procs /\ {Row(o) : o \in {x \in Orders : order[x].status \in ActiveStatuses}}
                             \in SUBSET Snapshot
    BY DEF Procs, Row, Snapshot, ActiveStatuses, Statuses
  <2>2. QED
    BY <1>2, <2>1, NextRowTyped DEF Scan, UsdtTypeOK
<1>3. ASSUME NEW o \in Orders, Transfer(o) PROVE UsdtTypeOK'
  <2>1. [seen |-> TRUE, amount |-> order[o].amount, age |-> 0] \in TransferRow
    <3>1. order[o].amount \in Amounts /\ 0 \in 0..TransferAge
      BY UsdtAssumption DEF UsdtTypeOK, OrderRow, TransferAge
    <3>2. QED
      BY <3>1 DEF TransferRow
  <2>2. transfer' \in [Transfers -> TransferRow]
    BY <1>3, <2>1 DEF Transfer, UsdtTypeOK
  <2>3. QED
    BY <1>3, <2>2 DEF Transfer, UsdtTypeOK
<1>4. ASSUME NEW p \in Procs, Call(p) \/ Step(p) \/ UpdateError(p) \/ Crash(p) PROVE UsdtTypeOK'
  BY <1>4, TypeProc
<1>5. CASE UNCHANGED vars
  BY <1>5 DEF UsdtTypeOK, vars
<1>6. QED
  BY <1>1, <1>2, <1>3, <1>4, <1>5 DEF Next

\* Every reachable state of the orders, the chain and the threads is well typed.
THEOREM UsdtTypeCorrect == Spec => []UsdtTypeOK
<1>1. QED
  BY TypeInit, TypeStep, PTL DEF Spec

-----------------------------------------------------------------------------
(* What every step grants all threads: shared state only moves forward.     *)

OrderForward(o) ==
  /\ StatusStep(o)
  /\ order[o].status # "absent" =>
       /\ order'[o].amount = order[o].amount /\ order'[o].tooOld = order[o].tooOld
       /\ order'[o].status # "absent"
  /\ order'[o].status \in {"paid", "confirmed"} /\ ~order'[o].manual =>
       /\ order[o].status # "absent"
       /\ \/ order[o].status \in {"paid", "confirmed"} /\ ~order[o].manual
             /\ order'[o].tx = order[o].tx
          \/ order'[o].tx \in Matching(o)

TransferForward(t) ==
  transfer[t].seen => transfer'[t].seen /\ transfer'[t].amount = transfer[t].amount

Forward ==
  (\A o \in Orders : OrderForward(o)) /\ (\A t \in Transfers : TransferForward(t))

LEMMA SameOrders ==
  ASSUME UsdtTypeOK, UNCHANGED order PROVE \A o \in Orders : OrderForward(o)
<1> SUFFICES ASSUME NEW o \in Orders PROVE OrderForward(o)
  OBVIOUS
<1>1. order'[o] = order[o]
  OBVIOUS
<1>2. QED
  BY <1>1 DEF OrderForward, StatusStep

LEMMA SameTransfers ==
  ASSUME UNCHANGED transfer PROVE \A t \in Transfers : TransferForward(t)
BY DEF TransferForward

\* An update of one row leaves the others as they are.
LEMMA OneOrder ==
  ASSUME UsdtTypeOK, NEW x \in Orders, NEW r, order' = [order EXCEPT ![x] = r],
         OrderForward(x)
  PROVE \A o \in Orders : OrderForward(o)
<1> SUFFICES ASSUME NEW o \in Orders, o # x PROVE OrderForward(o)
  OBVIOUS
<1>1. order'[o] = order[o]
  BY DEF UsdtTypeOK
<1>2. QED
  BY <1>1 DEF OrderForward, StatusStep

LEMMA ForwardProc ==
  ASSUME UsdtTypeOK, PaymentInv, NEW p \in Procs, Step(p)
  PROVE Forward
<1> DEFINE j == job[p]
<1>0. /\ UNCHANGED transfer /\ JobInv(p)
      /\ \A o \in Orders : order[o] \in OrderRow
  BY DEF Step, Insert, Refresh, MarkPaid, MarkExpired, ConfirmRead, ConfirmUpdate,
         Activate, ManualUpdate, PaymentInv, UsdtTypeOK
<1>1. SUFFICES \A o \in Orders : OrderForward(o)
  BY <1>0, SameTransfers DEF Forward
<1>2. CASE UNCHANGED order
  BY <1>2, SameOrders
<1>3. ASSUME NEW a \in Amounts, Insert(p, a) PROVE \A o \in Orders : OrderForward(o)
  <2>1. CASE UNCHANGED order
    BY <2>1, SameOrders
  <2>2. CASE \E o \in Orders :
               /\ \A x \in Orders : order[x].status = "absent" <=> x >= o
               /\ order' = [order EXCEPT ![o] = NewOrder(j.user, a)]
    <3>1. PICK o \in Orders :
               /\ \A x \in Orders : order[x].status = "absent" <=> x >= o
               /\ order' = [order EXCEPT ![o] = NewOrder(j.user, a)]
      BY <2>2
    <3>2. order[o].status = "absent" /\ j.user \in Users
      BY <3>1 DEF Orders, UsdtTypeOK, Job
    <3>3. order'[o].status = "pending"
      BY <3>1, <3>2, NewRow DEF UsdtTypeOK
    <3>4. OrderForward(o)
      BY <3>2, <3>3 DEF OrderForward, StatusStep
    <3>5. QED
      BY <3>1, <3>4, OneOrder
  <2>3. QED
    BY <1>3, <2>1, <2>2 DEF Insert
<1>4. CASE MarkPaid(p) /\ order' # order
  <2>1. /\ j.id \in Orders /\ j.tx \in Matching(j.id)
        /\ order[j.id].status \in {"pending", "expired"}
        /\ order' = [order EXCEPT ![j.id] = AsPaid(order[j.id], j.tx)]
    BY <1>4, <1>0 DEF MarkPaid, JobInv, Labels
  <2>2. j.tx \in Transfers /\ order'[j.id] = AsPaid(order[j.id], j.tx)
    BY <2>1 DEF Matching, UsdtTypeOK
  <2>3. OrderForward(j.id)
    BY <1>0, <2>1, <2>2, PaidRow DEF OrderForward, StatusStep
  <2>4. QED
    BY <2>1, <2>3, OneOrder
<1>5. CASE MarkExpired(p) /\ order' # order
  <2>1. /\ j.id \in Orders /\ order[j.id].status = "pending"
        /\ order' = [order EXCEPT ![j.id] = [order[j.id] EXCEPT !.status = "expired"]]
    BY <1>5, <1>0 DEF MarkExpired, SetStatus, JobInv, Labels
  <2>2. order'[j.id] = [order[j.id] EXCEPT !.status = "expired"]
    BY <2>1 DEF UsdtTypeOK
  <2>3. OrderForward(j.id)
    BY <1>0, <2>1, <2>2, StatusRow DEF OrderForward, StatusStep, Statuses
  <2>4. QED
    BY <2>1, <2>3, OneOrder
<1>6. CASE ConfirmUpdate(p) /\ order' # order
  <2>1. /\ j.id \in Orders /\ order[j.id].status = "paid"
        /\ order' = [order EXCEPT ![j.id] = [order[j.id] EXCEPT !.status = "confirmed"]]
    BY <1>6, <1>0 DEF ConfirmUpdate, SetStatus, JobInv, Labels, ActiveStatuses
  <2>2. order'[j.id] = [order[j.id] EXCEPT !.status = "confirmed"]
    BY <2>1 DEF UsdtTypeOK
  <2>3. OrderForward(j.id)
    BY <1>0, <2>1, <2>2, StatusRow DEF OrderForward, StatusStep, Statuses
  <2>4. QED
    BY <2>1, <2>3, OneOrder
<1>7. CASE ManualUpdate(p)
  <2>1. PICK t \in Transfers \cup {0} : order' = [order EXCEPT ![j.id] = AsVouched(order[j.id], t)]
    BY <1>7 DEF ManualUpdate
  <2>2. j.id \in Orders /\ order[j.id].status # "absent"
    BY <1>7, <1>0 DEF ManualUpdate, JobInv, Labels
  <2>3. order'[j.id] = AsVouched(order[j.id], t)
    BY <2>1, <2>2 DEF UsdtTypeOK
  <2>4. /\ order'[j.id].status = "confirmed" /\ order'[j.id].manual
        /\ order'[j.id].amount = order[j.id].amount /\ order'[j.id].tooOld = order[j.id].tooOld
    <3>1. order[j.id] \in OrderRow
      BY <1>0, <2>2
    <3>2. LET q == AsVouched(order[j.id], t)
          IN /\ q.status = "confirmed" /\ q.manual = TRUE
             /\ q.amount = order[j.id].amount /\ q.tooOld = order[j.id].tooOld
      BY <3>1, ManualRow
    <3>3. QED
      BY <2>3, <3>2, Zenon
  <2>5. OrderForward(j.id)
    BY <2>2, <2>4 DEF OrderForward, StatusStep
  <2>6. QED
    BY <2>1, <2>2, <2>5, OneOrder
<1>8. QED
  BY <1>2, <1>3, <1>4, <1>5, <1>6, <1>7 DEF Step, Refresh, ConfirmRead, Activate

LEMMA ForwardStep ==
  ASSUME UsdtTypeOK, PaymentInv, [Next]_vars
  PROVE Forward
<1>1. CASE Tick
  <2>1. order' = [o \in Orders |-> Aged(order[o])]
    BY <1>1 DEF Tick, Aged
  <2>2. ASSUME NEW o \in Orders PROVE OrderForward(o)
    <3>1. order[o] \in OrderRow /\ order'[o] = Aged(order[o])
      BY <2>1 DEF UsdtTypeOK
    <3>2. QED
      BY <3>1, AgedRow DEF OrderForward, StatusStep
  <2>3. \A t \in Transfers : TransferForward(t)
    BY <1>1, AgedTransfer DEF Tick, UsdtTypeOK, TransferForward
  <2>4. QED
    BY <2>2, <2>3 DEF Forward
<1>2. ASSUME NEW o \in Orders, Transfer(o) PROVE Forward
  <2>1. \A t \in Transfers : TransferForward(t)
    <3>1. PICK t \in Transfers :
            /\ \A x \in Transfers : ~transfer[x].seen <=> x >= t
            /\ transfer' = [transfer EXCEPT ![t] =
                              [seen |-> TRUE, amount |-> order[o].amount, age |-> 0]]
      BY <1>2 DEF Transfer
    <3>2. ~transfer[t].seen
      BY <3>1 DEF Transfers
    <3>3. \A x \in Transfers : x # t => transfer'[x] = transfer[x]
      BY <3>1 DEF UsdtTypeOK
    <3>4. QED
      BY <3>2, <3>3 DEF TransferForward
  <2>2. QED
    BY <1>2, <2>1, SameOrders DEF Forward, Transfer
<1>3. ASSUME NEW p \in Procs, Step(p) PROVE Forward
  BY <1>3, ForwardProc
<1>4. CASE UNCHANGED <<order, transfer>>
  BY <1>4, SameOrders, SameTransfers DEF Forward
<1>5. QED
  BY <1>1, <1>2, <1>3, <1>4
  DEF Next, Scan, Call, CreateOrder, GetOrder, ManualRead, UpdateError, Crash, vars

-----------------------------------------------------------------------------
(* A thread that does not move keeps what it knows about its orders. *)

LEMMA MatchingGrows ==
  ASSUME Forward, NEW o \in Orders, order[o].status # "absent", NEW t \in Matching(o)
  PROVE t \in Matching(o)'
BY DEF Forward, OrderForward, TransferForward, Matching

LEMMA StatusKept ==
  ASSUME Forward, NEW o \in Orders
  PROVE /\ order[o].status # "absent" => order'[o].status # "absent"
        /\ order[o].status \in {"paid", "confirmed"} => order'[o].status \in {"paid", "confirmed"}
        /\ order[o].status = "confirmed" => order'[o].status = "confirmed"
BY DEF Forward, OrderForward, StatusStep

LEMMA BatchKept ==
  ASSUME UsdtTypeOK, Forward, NEW p \in Procs, BatchInv(p), batch'[p] \subseteq batch[p]
  PROVE BatchInv(p)'
<1>1. \A x \in batch[p] : x.id \in Orders
  BY DEF UsdtTypeOK, Snapshot
<1>2. QED
  BY <1>1, StatusKept DEF BatchInv

LEMMA JobKept ==
  ASSUME UsdtTypeOK, Forward, NEW p \in Procs, JobInv(p), pc'[p] = pc[p], job'[p] = job[p]
  PROVE JobInv(p)'
<1> DEFINE o == job[p].id
<1>1. CASE pc[p] \in {"idle", "insert", "refresh"}
  BY <1>1 DEF JobInv
<1>2. CASE pc[p] \in Labels \ {"idle", "insert", "refresh"}
  <2>1. o \in Orders /\ order[o].status # "absent"
    BY <1>2 DEF JobInv
  <2>2. pc[p] = "markPaid" => job[p].tx \in Matching(o)'
    BY <2>1, MatchingGrows DEF JobInv
  <2>3. QED
    BY <2>1, <2>2, StatusKept DEF JobInv, Matching
<1>3. QED
  BY <1>1, <1>2 DEF UsdtTypeOK

\* A thread that turns to its next row, or starts an insert, has no order.
LEMMA JobFree ==
  ASSUME NEW p \in Procs, pc'[p] \in {"idle", "insert", "refresh"}
  PROVE JobInv(p)'
BY DEF JobInv

LEMMA NextRowLocal ==
  ASSUME UsdtTypeOK, NEW p \in Procs, NEW rows, NextRow(p, rows)
  PROVE /\ pc'[p] \in {"idle", "refresh"} /\ batch'[p] = rows
        /\ \A q \in Procs \ {p} : pc'[q] = pc[q] /\ job'[q] = job[q] /\ batch'[q] = batch[q]
BY DEF UsdtTypeOK, NextRow, Goto

LEMMA GotoLocal ==
  ASSUME UsdtTypeOK, NEW p \in Procs, NEW label, NEW j, Goto(p, label, j)
  PROVE /\ pc'[p] = label /\ job'[p] = j
        /\ \A q \in Procs \ {p} : pc'[q] = pc[q] /\ job'[q] = job[q]
BY DEF UsdtTypeOK, Goto

\* A step of p touches no other thread.
LEMMA Local ==
  ASSUME UsdtTypeOK, NEW p \in Procs, Call(p) \/ Step(p) \/ UpdateError(p) \/ Crash(p)
  PROVE \A q \in Procs \ {p} : pc'[q] = pc[q] /\ job'[q] = job[q] /\ batch'[q] = batch[q]
BY DEF Call, CreateOrder, GetOrder, ManualRead, Step, Insert, Refresh, RefreshPaid,
       RefreshFound, RefreshNothing, MarkPaid, MarkExpired, ConfirmRead, ConfirmUpdate,
       Activate, ManualUpdate, UpdateError, Crash, Done, NextRow, Goto, UsdtTypeOK

\* The moving thread establishes what its next step needs.
LEMMA OwnStep ==
  ASSUME UsdtTypeOK, PaymentInv, Forward, NEW p \in Procs,
         Call(p) \/ Step(p) \/ UpdateError(p) \/ Crash(p)
  PROVE JobInv(p)' /\ BatchInv(p)'
<1> DEFINE j == job[p]
<1>0. JobInv(p) /\ BatchInv(p)
  BY DEF PaymentInv
<1>a. ASSUME Done(p) PROVE JobInv(p)' /\ BatchInv(p)'
  <2>1. pc'[p] \in {"idle", "refresh"} /\ batch'[p] = batch[p]
    BY <1>a, NextRowLocal DEF Done
  <2>2. QED
    BY <2>1, <1>0, JobFree, BatchKept
<1>1. ASSUME NEW u \in Users, CreateOrder(p, u) PROVE JobInv(p)' /\ BatchInv(p)'
  BY <1>1, <1>0, GotoLocal, JobFree, BatchKept DEF CreateOrder
<1>2. ASSUME NEW o \in Orders, GetOrder(p, o) PROVE JobInv(p)' /\ BatchInv(p)'
  <2>1. pc'[p] \in {"idle", "refresh"} /\ batch'[p] = {Row(o)} /\ order'[o] = order[o]
    BY <1>2, NextRowLocal DEF GetOrder
  <2>2. BatchInv(p)'
    BY <1>2, <2>1 DEF GetOrder, BatchInv, Row
  <2>3. QED
    BY <2>1, <2>2, JobFree
<1>3. ASSUME NEW o \in Orders, ManualRead(p, o) PROVE JobInv(p)' /\ BatchInv(p)'
  <2>1. pc'[p] = "manual" /\ job'[p].id = o /\ UNCHANGED <<order, batch>> /\ order[o].status # "absent"
    <3> DEFINE k == [NoJob EXCEPT !.id = o, !.done = (order[o].status = "confirmed")]
    <3>1. Goto(p, "manual", k) /\ k.id = o
      BY <1>3 DEF ManualRead, NoJob
    <3> HIDE DEF k
    <3>2. QED
      BY <1>3, <3>1, GotoLocal DEF ManualRead
  <2>2. JobInv(p)'
    BY <2>1 DEF JobInv
  <2>3. QED
    BY <2>1, <2>2, <1>0, BatchKept
<1>4. ASSUME NEW a \in Amounts, Insert(p, a) PROVE JobInv(p)' /\ BatchInv(p)'
  <2>1. pc'[p] \in {"idle", "insert"} /\ UNCHANGED batch
    BY <1>4, GotoLocal DEF Insert
  <2>2. QED
    BY <2>1, <1>0, JobFree, BatchKept
<1>5. CASE Refresh(p)
  <2>1. PICK x \in batch[p] : RefreshPaid(p, x) \/ RefreshFound(p, x) \/ RefreshNothing(p, x)
    BY <1>5 DEF Refresh
  <2>2. /\ x.id \in Orders /\ order[x.id].status # "absent"
        /\ x.status = "paid" => order[x.id].status \in {"paid", "confirmed"}
        /\ UNCHANGED <<order, transfer>>
    BY <1>5, <1>0, <2>1 DEF BatchInv, UsdtTypeOK, Snapshot, Refresh
  <2>3. batch'[p] \subseteq batch[p]
    <3>1. NextRow(p, batch[p] \ {x}) \/ batch' = [batch EXCEPT ![p] = @ \ {x}]
      BY <2>1 DEF RefreshPaid, RefreshFound, RefreshNothing
    <3>2. batch'[p] = batch[p] \ {x}
      BY <3>1, NextRowLocal DEF UsdtTypeOK
    <3>3. QED
      BY <3>2
  <2>4. BatchInv(p)'
    BY <1>0, <2>3, BatchKept
  <2>5. CASE pc'[p] \in {"idle", "refresh"}
    BY <2>4, <2>5, JobFree
  <2>6. CASE RefreshPaid(p, x) /\ pc'[p] \notin {"idle", "refresh"}
    <3>1. pc'[p] = "confirm" /\ job'[p].id = x.id /\ x.status = "paid"
      BY <2>6, GotoLocal, NextRowLocal DEF RefreshPaid, NoJob
    <3>2. QED
      BY <2>2, <2>4, <3>1 DEF JobInv
  <2>7. CASE RefreshFound(p, x)
    <3> DEFINE k(t, known) ==
                 [NoJob EXCEPT !.id = x.id, !.tx = t,
                               !.ready = known /\ transfer[t].age >= Confirm]
    <3>1. PICK t \in Matching(x.id), known \in BOOLEAN : Goto(p, "markPaid", k(t, known))
      BY <2>7 DEF RefreshFound
    <3>2. k(t, known).id = x.id /\ k(t, known).tx = t
      BY DEF NoJob
    <3> HIDE DEF k
    <3>3. pc'[p] = "markPaid" /\ job'[p].id = x.id /\ job'[p].tx = t
      BY <3>1, <3>2, GotoLocal
    <3>4. t \in Matching(x.id)'
      BY <2>2, <3>1, MatchingGrows
    <3>5. JobInv(p)'
      BY <2>2, <3>3, <3>4 DEF JobInv, Matching
    <3>6. QED
      BY <2>4, <3>5
  <2>8. CASE RefreshNothing(p, x) /\ pc'[p] \notin {"idle", "refresh"}
    <3>1. pc'[p] = "markExpired" /\ job'[p].id = x.id
      BY <2>8, GotoLocal, NextRowLocal DEF RefreshNothing, NoJob
    <3>2. QED
      BY <2>2, <2>4, <3>1 DEF JobInv
  <2>9. QED
    BY <2>1, <2>5, <2>6, <2>7, <2>8
<1>6. CASE MarkPaid(p)
  <2>1. CASE Done(p)
    BY <1>a, <2>1
  <2>2. CASE ~Done(p)
    <3>1. /\ pc'[p] = "confirm" /\ job'[p] = j /\ UNCHANGED batch
          /\ \/ order' = [order EXCEPT ![j.id] = AsPaid(order[j.id], j.tx)]
             \/ order' = order /\ order[j.id].status \notin {"pending", "expired"}
      BY <1>6, <2>2, GotoLocal DEF MarkPaid
    <3>2. /\ j.id \in Orders /\ order[j.id] \in OrderRow /\ order[j.id].status # "absent"
          /\ j.tx \in Transfers
      BY <1>6, <1>0 DEF MarkPaid, JobInv, Labels, UsdtTypeOK, Matching
    <3>3. order[j.id].status \in Statuses
      BY <3>2 DEF OrderRow
    <3>4. order'[j.id].status \in {"paid", "confirmed"}
      BY <3>1, <3>2, <3>3, PaidRow DEF UsdtTypeOK, Statuses
    <3>5. JobInv(p)'
      BY <3>1, <3>2, <3>4 DEF JobInv
    <3>6. QED
      BY <3>1, <3>5, <1>0, BatchKept
  <2>3. QED
    BY <2>1, <2>2
<1>7. CASE ConfirmRead(p)
  <2>1. CASE Done(p)
    BY <1>a, <2>1
  <2>2. CASE ~Done(p)
    <3>1. pc[p] = "confirm" /\ pc'[p] = "update" /\ job'[p] = j /\ UNCHANGED <<batch, order>>
      BY <1>7, <2>2, GotoLocal DEF ConfirmRead
    <3>2. JobInv(p)'
      BY <3>1, <1>0 DEF JobInv, Labels
    <3>3. QED
      BY <3>1, <3>2, <1>0, BatchKept
  <2>3. QED
    BY <2>1, <2>2
<1>8. CASE ConfirmUpdate(p)
  <2>1. pc[p] = "update" /\ pc'[p] = "activate" /\ job'[p] = j /\ UNCHANGED batch
    BY <1>8, GotoLocal DEF ConfirmUpdate
  <2>2. j.id \in Orders /\ order[j.id].status \in {"paid", "confirmed"} /\ order[j.id] \in OrderRow
    BY <2>1, <1>0 DEF JobInv, Labels, UsdtTypeOK
  <2>3. \/ order' = [order EXCEPT ![j.id] = [order[j.id] EXCEPT !.status = "confirmed"]]
        \/ order' = order /\ order[j.id].status = "confirmed"
    BY <1>8, <2>2 DEF ConfirmUpdate, SetStatus, ActiveStatuses
  <2>4. order'[j.id].status = "confirmed"
    <3>1. CASE order' = [order EXCEPT ![j.id] = [order[j.id] EXCEPT !.status = "confirmed"]]
      <4>1. order'[j.id] = [order[j.id] EXCEPT !.status = "confirmed"]
        BY <2>2, <3>1 DEF UsdtTypeOK
      <4>2. QED
        BY <2>2, <4>1, StatusRow DEF Statuses
    <3>2. QED
      BY <2>3, <3>1
  <2>5. JobInv(p)'
    BY <2>1, <2>2, <2>4 DEF JobInv
  <2>6. QED
    BY <2>1, <2>5, <1>0, BatchKept
<1>9. CASE ManualUpdate(p)
  <2>1. /\ UNCHANGED batch
        /\ pc'[p] = "idle" \/ (pc'[p] = "activate" /\ job'[p] = j)
    <3>1. Goto(p, IF j.done THEN "idle" ELSE "activate", IF j.done THEN NoJob ELSE j)
      BY <1>9 DEF ManualUpdate
    <3>2. CASE j.done
      <4>1. Goto(p, "idle", NoJob)
        BY <3>1, <3>2, Zenon
      <4>2. pc'[p] = "idle"
        BY <4>1 DEF Goto, UsdtTypeOK
      <4>3. QED
        BY <1>9, <4>2 DEF ManualUpdate
    <3>3. CASE ~j.done
      <4>1. Goto(p, "activate", j)
        BY <3>1, <3>3, Zenon
      <4>2. pc'[p] = "activate" /\ job'[p] = j
        BY <4>1 DEF Goto, UsdtTypeOK
      <4>3. QED
        BY <1>9, <4>2 DEF ManualUpdate
    <3>4. QED
      BY <3>2, <3>3
  <2>2. PICK t \in Transfers \cup {0} : order' = [order EXCEPT ![j.id] = AsVouched(order[j.id], t)]
    BY <1>9 DEF ManualUpdate
  <2>3. j.id \in Orders /\ order[j.id] \in OrderRow
    BY <1>9, <1>0 DEF ManualUpdate, JobInv, Labels, UsdtTypeOK
  <2>4. order'[j.id].status = "confirmed"
    BY <2>2, <2>3, ManualRow DEF UsdtTypeOK
  <2>5. JobInv(p)'
    BY <2>1, <2>3, <2>4, JobFree DEF JobInv
  <2>6. QED
    BY <2>1, <2>5, <1>0, BatchKept
<1>10. CASE Crash(p)
  <2>1. pc'[p] \in {"idle", "refresh"} /\ batch'[p] = {}
    BY <1>10, NextRowLocal DEF Crash
  <2>2. QED
    BY <2>1, <1>0, JobFree, BatchKept
<1>11. QED
  BY <1>a, <1>1, <1>2, <1>3, <1>4, <1>5, <1>6, <1>7, <1>8, <1>9, <1>10
  DEF Call, Step, MarkExpired, Activate, UpdateError

LEMMA PaymentInit == Init => PaymentInv
<1> SUFFICES ASSUME Init PROVE PaymentInv
  OBVIOUS
<1>1. \A o \in Orders : order[o].status = "absent" /\ grants[o] = 0
  BY DEF Init, NoOrder
<1>2. \A p \in Procs : pc[p] = "idle" /\ batch[p] = {}
  BY DEF Init
<1>3. QED
  BY <1>1, <1>2 DEF PaymentInv, ActivatedIsConfirmed, PaidByTransfer, JobInv, BatchInv

LEMMA PaymentStep == UsdtTypeOK /\ PaymentInv /\ [Next]_vars => PaymentInv'
<1> SUFFICES ASSUME UsdtTypeOK, PaymentInv, [Next]_vars PROVE PaymentInv'
  OBVIOUS
<1>0. Forward
  BY ForwardStep
<1>1. ActivatedIsConfirmed'
  <2>1. CASE UNCHANGED grants
    BY <1>0, <2>1, StatusKept DEF PaymentInv, ActivatedIsConfirmed
  <2>2. ASSUME NEW p \in Procs, Activate(p), ~UNCHANGED grants PROVE ActivatedIsConfirmed'
    <3>1. job[p].id \in Orders /\ order[job[p].id].status = "confirmed"
      BY <2>2 DEF Activate, PaymentInv, JobInv, Labels
    <3>2. \A o \in Orders : o # job[p].id => grants'[o] = grants[o]
      BY <2>2 DEF Activate, UsdtTypeOK
    <3>3. UNCHANGED order
      BY <2>2 DEF Activate
    <3>4. QED
      BY <3>1, <3>2, <3>3 DEF PaymentInv, ActivatedIsConfirmed
  <2>3. QED
    BY <2>1, <2>2
    DEF Next, Tick, Scan, Transfer, Call, CreateOrder, GetOrder, ManualRead, Step, Insert,
        Refresh, MarkPaid, MarkExpired, ConfirmRead, ConfirmUpdate, ManualUpdate,
        UpdateError, Crash, vars
<1>2. PaidByTransfer'
  <2> SUFFICES ASSUME NEW o \in Orders,
                      order'[o].status \in {"paid", "confirmed"}, ~order'[o].manual
               PROVE order'[o].tx \in Matching(o)'
    BY DEF PaidByTransfer
  <2>1. order[o].status # "absent" /\ order'[o].tx \in Matching(o)
    BY <1>0 DEF Forward, OrderForward, PaymentInv, PaidByTransfer
  <2>2. QED
    BY <1>0, <2>1, MatchingGrows
<1>3. ASSUME NEW q \in Procs PROVE JobInv(q)' /\ BatchInv(q)'
  <2>0. JobInv(q) /\ BatchInv(q)
    BY DEF PaymentInv
  <2>1. CASE pc'[q] = pc[q] /\ job'[q] = job[q] /\ batch'[q] = batch[q]
    BY <1>0, <2>0, <2>1, JobKept, BatchKept
  <2>2. ASSUME NEW p \in Procs, Call(p) \/ Step(p) \/ UpdateError(p) \/ Crash(p)
        PROVE JobInv(q)' /\ BatchInv(q)'
    <3>1. CASE p = q
      BY <1>0, <2>2, <3>1, OwnStep
    <3>2. CASE p # q
      BY <2>1, <2>2, <3>2, Local
    <3>3. QED
      BY <3>1, <3>2
  <2>3. CASE Scan
    <3> DEFINE rows == {Row(o) : o \in {x \in Orders : order[x].status \in ActiveStatuses}}
    <3>1. NextRow(Worker, rows) /\ Worker \in Procs /\ UNCHANGED order
      BY <2>3 DEF Scan, Procs
    <3>2. \A x \in rows : order[x.id].status # "absent" /\ x.status = order[x.id].status
      BY DEF Row, ActiveStatuses
    <3> HIDE DEF rows
    <3>3. CASE q = Worker
      <4>1. pc'[q] \in {"idle", "refresh"} /\ batch'[q] = rows
        BY <3>1, <3>3, NextRowLocal
      <4>2. BatchInv(q)'
        BY <3>1, <3>2, <4>1 DEF BatchInv
      <4>3. QED
        BY <4>1, <4>2, JobFree
    <3>4. CASE q # Worker
      BY <2>1, <3>1, <3>4, NextRowLocal
    <3>5. QED
      BY <3>3, <3>4
  <2>4. CASE Tick \/ (\E o \in Orders : Transfer(o)) \/ UNCHANGED vars
    BY <2>1, <2>4 DEF Tick, Transfer, vars
  <2>5. QED
    BY <2>2, <2>3, <2>4 DEF Next
<1>4. QED
  BY <1>1, <1>2, <1>3 DEF PaymentInv

LEMMA PaymentAlways == Spec => [](UsdtTypeOK /\ PaymentInv)
<1>1. QED
  BY TypeInit, TypeStep, PaymentInit, PaymentStep, PTL DEF Spec

\* Memberships are activated for confirmed orders only, for any number of
\* threads, orders and transfers and with any fault of the model.
THEOREM ActivationNeedsConfirmation == Spec => []ActivatedIsConfirmed
<1>1. UsdtTypeOK /\ PaymentInv => ActivatedIsConfirmed
  BY DEF PaymentInv
<1>2. QED
  BY <1>1, PaymentAlways, PTL

\* An order that got paid without an administrator was paid by a transfer of
\* its amount made in its time.
THEOREM PaymentNeedsTransfer == Spec => []PaidByTransfer
<1>1. UsdtTypeOK /\ PaymentInv => PaidByTransfer
  BY DEF PaymentInv
<1>2. QED
  BY <1>1, PaymentAlways, PTL

\* No thread, however stale the rows it holds, moves an order back or past a
\* state.
THEOREM OrdersMoveForward == Spec => StatusForward
<1>1. UsdtTypeOK /\ PaymentInv /\ [Next]_vars => [\A o \in Orders : StatusStep(o)]_vars
  BY ForwardStep DEF Forward, OrderForward
<1>2. QED
  BY <1>1, PaymentAlways, PTL DEF Spec, StatusForward
=============================================================================
