---------------------------- MODULE GridProofs ------------------------------
(***************************************************************************)
(* Proofs about GridOrders, for every grid and every set of disturbances:  *)
(* types (GridTypeCorrect), fills posted once (FillsPostedOnce) and orders *)
(* with their rows (OrdersHaveRows).  Each step of the model is described  *)
(* once, by what it does to the threads, rows and orders (the lemmas whose *)
(* names end in Step); the three invariants are then kept kind by kind.    *)
(***************************************************************************)
EXTENDS GridOrders, TotalsProofs

-----------------------------------------------------------------------------
(* Types, and the state of a thread *)

Base == GridTypeOK /\ PlacedInv /\ ThreadInv

LEMMA OrdersAre ==
  /\ Orders \subseteq Nat \ {0} /\ 0 \notin Orders /\ IsFiniteSet(Orders) /\ MaxOrders \in Nat
  /\ Amount \in Nat \ {0} /\ NoCell \notin Cells
BY GridAssumption, FS_Interval DEF Orders

LEMMA ThreadsAre == Threads = {"runner", "poller", "stopper"}
BY DEF Threads

LEMMA NullsTyped ==
  /\ Idle \in Thread /\ EmptyCell \in Cell /\ EmptyCell.st = "idle" /\ EmptyCell.leg = 0
  /\ Idle.pc = "idle" /\ Idle.after = "idle" /\ Idle.ret = "idle" /\ Idle.ord = 0 /\ Idle.batch = {}
  /\ Idle.todo = {}
  /\ Unplaced.st = "none" /\ NoRow.st = "none" /\ NoRow.obs = 0 /\ NoRow.done = 0
  /\ Unplaced.fill = 0 /\ Unplaced.qty = 0
BY DEF Idle, Thread, EmptyCell, Cell, Pcs, Afters, Returns, OrderStates, Unplaced, NoRow

LEMMA IdleOK == ASSUME NEW n \in Nat PROVE ThreadOK(Idle, n)
BY NullsTyped DEF ThreadOK

\* Orders are never taken back.
LEMMA ThreadLater ==
  ASSUME NEW w \in Thread, NEW n \in Nat, NEW m \in Nat, n <= m, ThreadOK(w, n)
  PROVE ThreadOK(w, m)
<1>1. w.todo \subseteq Orders /\ w.ord \in {0} \cup Orders /\ \A x \in w.batch : x.id \in Orders
  BY DEF Thread
<1>2. \A o \in w.todo \cup {x.id : x \in w.batch} : o <= m
  <2> TAKE o \in w.todo \cup {x.id : x \in w.batch}
  <2>1. o \in Nat /\ o <= n
    BY <1>1, OrdersAre DEF ThreadOK
  <2>2. QED
    BY <2>1
<1>3. w.ord <= m
  BY <1>1, OrdersAre DEF ThreadOK
<1>4. w.pc \in {"insert", "cancelRow"} => w.own \in 1 .. m
  BY DEF ThreadOK
<1>5. QED
  BY <1>2, <1>3, <1>4 DEF ThreadOK

\* The list of a poll, and how a poll goes on.
LEMMA GoOnOK ==
  ASSUME NEW b, b \subseteq [id : Orders, done : Nat, obs : Nat], NEW n \in Nat, \A x \in b : x.id <= n
  PROVE /\ GoOn(b) \in Thread /\ ThreadOK(GoOn(b), n)
        /\ GoOn(b).ord = 0 /\ GoOn(b).batch = b /\ GoOn(b).after = "idle" /\ GoOn(b).ret = "idle"
        /\ GoOn(b).pc \in {"idle", "query"} /\ GoOn(b).vst = Idle.vst
<1>1. CASE b = {}
  BY <1>1, NullsTyped, IdleOK DEF GoOn
<1>2. CASE b # {}
  <2> DEFINE w == [Idle EXCEPT !.pc = "query", !.batch = b]
  <2>1. GoOn(b) = w
    BY <1>2 DEF GoOn
  <2>2. /\ w \in Thread /\ w.pc = "query" /\ w.batch = b /\ w.ord = 0 /\ w.after = "idle" /\ w.ret = "idle"
        /\ w.todo = {} /\ w.vst = Idle.vst
    <3>1. Idle \in Thread /\ "query" \in Pcs /\ b \in SUBSET [id : Orders, done : Nat, obs : Nat]
      BY NullsTyped DEF Pcs
    <3>2. w \in Thread
      BY <3>1, Zenon DEF Thread
    <3>3. QED
      BY <3>1, <3>2, NullsTyped DEF Thread
  <2> HIDE DEF w
  <2>3. ThreadOK(w, n)
    BY <2>2 DEF ThreadOK
  <2>4. QED
    BY <2>1, <2>2, <2>3
<1>3. QED
  BY <1>1, <1>2

\* One thread takes a new state.
LEMMA ThreadSet ==
  ASSUME ThreadInv, NEW t \in Threads, NEW w \in Thread, SetThread(t, w)
  PROVE /\ thread' \in [Threads -> Thread] /\ thread'[t] = w
        /\ \A u \in Threads \ {t} : thread'[u] = thread[u]
BY DEF ThreadInv, SetThread

LEMMA ThreadMove ==
  ASSUME Base, NEW t \in Threads, thread' \in [Threads -> Thread],
         \A u \in Threads \ {t} : thread'[u] = thread[u],
         used' \in Nat, used <= used', ThreadOK(thread'[t], used'),
         t = "poller" => thread'[t].after # "sweep",
         t = "stopper" => thread'[t].ord = 0 /\ thread'[t].pc # "query"
  PROVE ThreadInv'
<1>1. used \in Nat
  BY OrdersAre DEF Base, GridTypeOK
<1>2. \A u \in Threads \ {t} : ThreadOK(thread'[u], used')
  BY <1>1, ThreadLater DEF Base, ThreadInv
<1>3. thread'["poller"].after # "sweep" /\ thread'["stopper"].ord = 0 /\ thread'["stopper"].pc # "query"
  BY ThreadsAre DEF Base, ThreadInv, Polling
<1>4. QED
  BY <1>2, <1>3 DEF ThreadInv, Polling

\* What is known of a thread and of the order it handles.
LEMMA ThreadFacts ==
  ASSUME Base, NEW t \in Threads
  PROVE /\ thread[t] \in Thread /\ ThreadOK(thread[t], used) /\ used \in Nat /\ used \in 0 .. MaxOrders
        /\ thread[t].pc \in Pcs
        /\ t = "poller" => thread[t].after # "sweep"
        /\ t = "stopper" => thread[t].ord = 0 /\ thread[t].pc # "query"
        /\ thread[t].ord # 0 => thread[t].ord \in Orders /\ venue[thread[t].ord].cell \in Cells
        /\ thread[t].batch \subseteq [id : Orders, done : Nat, obs : Nat]
        /\ \A x \in thread[t].batch : x.id <= used
<1>1. thread[t] \in Thread /\ ThreadOK(thread[t], used) /\ used \in 0 .. MaxOrders
  BY DEF Base, ThreadInv, GridTypeOK
<1>2. thread[t].ord # 0 => thread[t].ord \in Orders /\ venue[thread[t].ord].cell \in Cells
  BY <1>1, OrdersAre DEF Thread, ThreadOK, Base, PlacedInv
<1>3. thread[t].batch \subseteq [id : Orders, done : Nat, obs : Nat] /\ thread[t].pc \in Pcs
  BY <1>1 DEF Thread
<1>4. \A x \in thread[t].batch : x.id <= used
  BY <1>1 DEF ThreadOK
<1>5. /\ t = "poller" => thread[t].after # "sweep"
      /\ t = "stopper" => thread[t].ord = 0 /\ thread[t].pc # "query"
  BY DEF Base, ThreadInv, Polling
<1>6. QED
  BY <1>1, <1>2, <1>3, <1>4, <1>5, OrdersAre

\* A placement ends.
LEMMA ReturnOK ==
  ASSUME Base, NEW t \in Threads, thread[t].pc \in {"place", "insert", "mark"} \/ thread[t].after = "place"
  PROVE /\ Return(t) \in Thread /\ ThreadOK(Return(t), used)
        /\ Return(t).pc = thread[t].ret /\ Return(t).pc \in {"status", "held", "seed", "enter"}
        /\ Return(t).ret = "idle" /\ Return(t).after = "idle" /\ Return(t).own = 0
        /\ Return(t).ord = thread[t].ord /\ Return(t).batch = thread[t].batch
        /\ Return(t).todo = thread[t].todo /\ Return(t).total = thread[t].total /\ Return(t).vst = thread[t].vst
        /\ Return(t).left = thread[t].left /\ Return(t).new = thread[t].new
<1>1. /\ thread[t] \in Thread /\ ThreadOK(thread[t], used)
      /\ thread[t].ret \in {"status", "held", "seed", "enter"}
  BY ThreadFacts DEF ThreadOK, Thread, Returns
<1>2. /\ Return(t) \in Thread
      /\ Return(t).pc = thread[t].ret /\ Return(t).pc \in {"status", "held", "seed", "enter"}
      /\ Return(t).ret = "idle" /\ Return(t).after = "idle" /\ Return(t).own = 0
      /\ Return(t).ord = thread[t].ord /\ Return(t).batch = thread[t].batch
      /\ Return(t).todo = thread[t].todo /\ Return(t).total = thread[t].total /\ Return(t).vst = thread[t].vst
      /\ Return(t).left = thread[t].left /\ Return(t).new = thread[t].new
  <2>1. Return(t) \in Thread
    <3>1. /\ thread[t].ret \in Pcs /\ NoCell \in Cells \cup {NoCell} /\ 0 \in Nat /\ FALSE \in BOOLEAN
          /\ "idle" \in Returns /\ "idle" \in Afters
      BY <1>1 DEF Pcs, Returns, Afters
    <3>2. QED
      BY <1>1, <3>1, Zenon DEF Return, Thread
  <2>2. QED
    BY <1>1, <2>1 DEF Return, Thread
<1>3. ThreadOK(Return(t), used)
  BY <1>1, <1>2 DEF ThreadOK
<1>4. QED
  BY <1>2, <1>3

-----------------------------------------------------------------------------
(* Quantities *)

LEMMA StateTyped ==
  ASSUME Base
  PROVE /\ row \in [Orders -> Row] /\ venue \in [Orders -> VenueOrder] /\ used \in 0 .. MaxOrders
        /\ used \in Nat /\ cell \in [Cells -> Cell] /\ posted \in [Orders -> Nat] /\ faults \subseteq Faults
        /\ active \in BOOLEAN /\ running \in BOOLEAN /\ wanted \in BOOLEAN /\ paused \in BOOLEAN
        /\ seeded \subseteq Cells
BY OrdersAre DEF Base, GridTypeOK

LEMMA NetType ==
  ASSUME NEW q \in [Orders -> Nat] PROVE Net(q) \in Int
<1>1. /\ [o \in Orders |-> IF venue[o].buy THEN q[o] ELSE 0] \in [Orders -> Nat]
      /\ [o \in Orders |-> IF venue[o].buy THEN 0 ELSE q[o]] \in [Orders -> Nat]
  OBVIOUS
<1>2. /\ Total([o \in Orders |-> IF venue[o].buy THEN q[o] ELSE 0]) \in Nat
      /\ Total([o \in Orders |-> IF venue[o].buy THEN 0 ELSE q[o]]) \in Nat
  BY <1>1, OrdersAre, TotalType
<1>3. QED
  BY <1>2 DEF Net

LEMMA RemainingType ==
  ASSUME Base, NEW S \in SUBSET Orders PROVE RemainingOf(S) \in Nat
<1>1. \A o \in S : MaxOf(0, Remaining(o)) \in Nat
  BY StateTyped DEF MaxOf, Remaining, Row, VenueOrder
<1>2. IsFiniteSet(S)
  BY OrdersAre, FS_Subset
<1>3. [o \in S |-> MaxOf(0, Remaining(o))] \in [S -> Nat]
  BY <1>1
<1>4. QED
  BY <1>2, <1>3, TotalType DEF RemainingOf

LEMMA QuantitiesTyped ==
  ASSUME Base
  PROVE /\ Position \in Nat /\ VenuePosition \in Int /\ OpenExitQty \in Nat /\ HeldCellQty \in Nat
        /\ \A q \in Nat : ExitQuantity(q) \in Nat
<1>1. Net(posted) \in Int
  BY StateTyped, NetType
<1>2. Position \in Nat
  BY <1>1 DEF Position, MaxOf
<1>3. VenuePosition \in Int
  <2>1. [o \in Orders |-> venue[o].fill] \in [Orders -> Nat]
    BY StateTyped DEF VenueOrder
  <2>2. QED
    BY <2>1, NetType DEF VenuePosition
<1>4. OpenExitQty \in Nat
  BY RemainingType DEF OpenExitQty
<1>5. HeldCellQty \in Nat
  <2>1. [c \in Cells |-> IF cell[c].st = "held" THEN cell[c].leg ELSE 0] \in [Cells -> Nat]
    BY StateTyped DEF Cell
  <2>2. QED
    BY <2>1, GridAssumption, TotalType DEF HeldCellQty
<1>6. \A q \in Nat : ExitQuantity(q) \in Nat
  BY <1>2, <1>3, <1>4 DEF ExitQuantity, MinOf, MaxOf
<1>7. QED
  BY <1>2, <1>3, <1>4, <1>5, <1>6

\* The cells a pass reads.
LEMMA CellsTyped ==
  ASSUME Base PROVE HeldCells \in SUBSET (Cells \X Nat) /\ IdleCells \in SUBSET (Cells \X Nat)
<1>1. \A c \in Cells : cell[c].leg \in Nat
  BY StateTyped DEF Cell
<1>2. QED
  BY <1>1, OrdersAre DEF HeldCells, IdleCells

\* A row that is open, or that has a fill, is of an order that was placed.
LEMMA PlacedRows ==
  ASSUME Base, NEW o \in Orders, Open(o) \/ row[o].done < row[o].obs \/ venue[o].st = "open"
  PROVE o <= used
<1>1. ~(o <= used) => venue[o] = Unplaced /\ row[o] = NoRow
  BY DEF Base, PlacedInv
<1>2. QED
  BY <1>1, NullsTyped DEF Open

-----------------------------------------------------------------------------
(* Faults *)

LEMMA FaultTyped ==
  ASSUME Base, NEW kinds, Disturb(kinds)
  PROVE faults' \subseteq Faults /\ faults \subseteq faults' /\ kinds \subseteq faults'
BY StateTyped DEF Disturb

LEMMA FaultsKept ==
  ASSUME NEW kinds, faults \subseteq faults', Without(kinds)' PROVE Without(kinds)
BY DEF Without

-----------------------------------------------------------------------------
(* One thread moves *)

\* Thread t takes the state w, and the orders are n.
Moves(t, w, n) ==
  /\ w \in Thread /\ SetThread(t, w) /\ ThreadOK(w, n)
  /\ t = "poller" => w.after # "sweep"
  /\ t = "stopper" => w.ord = 0 /\ w.pc # "query"

LEMMA MovesTo ==
  ASSUME Base, NEW t \in Threads, NEW w, Moves(t, w, used'), used' \in Nat, used <= used'
  PROVE /\ ThreadInv' /\ thread' \in [Threads -> Thread] /\ thread'[t] = w
        /\ \A u \in Threads \ {t} : thread'[u] = thread[u]
<1>1. w \in Thread /\ SetThread(t, w) /\ ThreadInv
  BY DEF Moves, Base
<1>2. /\ thread' \in [Threads -> Thread] /\ thread'[t] = w
      /\ \A u \in Threads \ {t} : thread'[u] = thread[u]
  BY <1>1, ThreadSet
<1>3. ThreadInv'
  BY <1>2, ThreadMove DEF Moves
<1>4. QED
  BY <1>2, <1>3

\* The tables are as they were but for the states of rows, and cells keep their type.
LEMMA BaseRows ==
  ASSUME Base, NEW t \in Threads, NEW w, Moves(t, w, used), UNCHANGED <<used, venue>>,
         row' \in [Orders -> Row], \A o \in Orders : used < o => row'[o] = row[o],
         cell' \in [Cells -> Cell], posted' \in [Orders -> Nat], faults' \subseteq Faults,
         active' \in BOOLEAN, running' \in BOOLEAN, wanted' \in BOOLEAN, paused' \in BOOLEAN, seeded' \subseteq Cells
  PROVE /\ Base' /\ thread' \in [Threads -> Thread] /\ thread'[t] = w
        /\ \A u \in Threads \ {t} : thread'[u] = thread[u]
<1>1. used' = used /\ used \in Nat /\ used <= used /\ venue' = venue
  BY StateTyped
<1>2. Moves(t, w, used')
  BY <1>1
<1>3. /\ ThreadInv' /\ thread' \in [Threads -> Thread] /\ thread'[t] = w
      /\ \A u \in Threads \ {t} : thread'[u] = thread[u]
  BY <1>1, <1>2, MovesTo
<1>4. PlacedInv'
  BY <1>1, OrdersAre DEF Base, PlacedInv
<1>5. \A u \in Threads : thread'[u].pc \in Pcs
  BY <1>3 DEF Thread
<1>6. venue' \in [Orders -> VenueOrder] /\ used' \in 0 .. MaxOrders
  BY <1>1, StateTyped
<1>7. GridTypeOK'
  BY <1>5, <1>6 DEF GridTypeOK
<1>8. QED
  BY <1>3, <1>4, <1>7 DEF Base

\* Only the thread and the cells change.
LEMMA BaseQuiet ==
  ASSUME Base, NEW t \in Threads, NEW w, Moves(t, w, used),
         UNCHANGED <<row, venue, used, posted, active, running, wanted, paused>>,
         cell' \in [Cells -> Cell], faults' \subseteq Faults, seeded' \subseteq Cells
  PROVE /\ Base' /\ thread' \in [Threads -> Thread] /\ thread'[t] = w
        /\ \A u \in Threads \ {t} : thread'[u] = thread[u]
<1>1. /\ row' \in [Orders -> Row] /\ (\A o \in Orders : used < o => row'[o] = row[o])
      /\ posted' \in [Orders -> Nat] /\ UNCHANGED <<used, venue>>
      /\ active' \in BOOLEAN /\ running' \in BOOLEAN /\ wanted' \in BOOLEAN /\ paused' \in BOOLEAN
  BY StateTyped
<1>2. QED
  BY <1>1, BaseRows

-----------------------------------------------------------------------------
(* The steps of a thread, described *)

\* A thread goes on without beginning or ending a poll.
Carries(t) ==
  /\ \A u \in Threads \ {t} : thread'[u] = thread[u]
  /\ thread'[t].ord = thread[t].ord /\ thread'[t].batch = thread[t].batch
  /\ thread[t].ord # 0 => thread'[t].total = thread[t].total /\ thread'[t].vst = thread[t].vst
  /\ thread'[t].pc \notin {"query", "post"}
  /\ thread[t].ord # 0 /\ (thread'[t].pc = "held" \/ thread'[t].ret = "held")
       => thread[t].pc = "held" \/ thread[t].ret = "held"

\* The venue's quantities stay, and an order that is over stays over.
VenueKept ==
  \A o \in Orders : /\ venue'[o].fill = venue[o].fill
                    /\ venue'[o].st = "open" => venue[o].st = "open"

\* What a row says was seen and processed stays.
RowsKept == \A o \in Orders : row'[o].obs = row[o].obs /\ row'[o].done = row[o].done

\* The orders a thread is to cancel were placed.
LEMMA TodoPlaced ==
  ASSUME Base, NEW t \in Threads, NEW o \in thread[t].todo
  PROVE o \in Orders /\ o <= used /\ o \in 1 .. used
<1>1. thread[t] \in Thread /\ ThreadOK(thread[t], used) /\ used \in Nat
  BY ThreadFacts
<1>2. o \in Orders
  BY <1>1 DEF Thread
<1>3. o <= used
  BY <1>1 DEF ThreadOK
<1>4. QED
  BY <1>1, <1>2, <1>3, OrdersAre

\* How a thread goes on after a refused cancel.
LEMMA RefusalOK ==
  ASSUME Base, NEW t \in Threads, thread[t].pc = "cancel", NEW o \in thread[t].todo
  PROVE LET w == AfterRefusal(t, o) IN
        /\ w \in Thread /\ ThreadOK(w, used)
        /\ w.ord = thread[t].ord /\ w.batch = thread[t].batch /\ w.total = thread[t].total
        /\ w.vst = thread[t].vst /\ w.pc \notin {"query", "post", "insert"}
        /\ w.pc = "held" \/ w.ret = "held" => thread[t].ret = "held"
        /\ IF CleanUp(t) THEN w.pc = "cancelRow" /\ w.own = o /\ w.todo = thread[t].todo /\ w.after = thread[t].after
             ELSE w.pc # "cancelRow" /\ w.after # "sweep"
<1>1. /\ thread[t] \in Thread /\ ThreadOK(thread[t], used) /\ o \in Orders /\ o <= used /\ used \in Nat
      /\ o \in 1 .. used
  BY ThreadFacts, TodoPlaced
<1>2. CASE CleanUp(t)
  <2> DEFINE w == [thread[t] EXCEPT !.pc = "cancelRow", !.own = o]
  <2>1. AfterRefusal(t, o) = w
    BY <1>2 DEF AfterRefusal
  <2>2. w \in Thread
    <3>1. "cancelRow" \in Pcs /\ o \in {0} \cup Orders
      BY <1>1 DEF Pcs
    <3>2. QED
      BY <1>1, <3>1, Zenon DEF Thread
  <2>3. /\ w.pc = "cancelRow" /\ w.own = o /\ w.after = thread[t].after /\ w.ret = thread[t].ret
        /\ w.todo = thread[t].todo /\ w.ord = thread[t].ord /\ w.batch = thread[t].batch
        /\ w.total = thread[t].total /\ w.vst = thread[t].vst /\ w.cell = thread[t].cell
    BY <1>1 DEF Thread
  <2> HIDE DEF w
  <2>4. ThreadOK(w, used)
    BY <1>1, <2>3 DEF ThreadOK
  <2>5. QED
    BY <1>2, <2>1, <2>2, <2>3, <2>4
<1>3. CASE ~CleanUp(t) /\ thread[t].after = "place"
  <2> DEFINE w == [Return(t) EXCEPT !.todo = {}]
             v == Return(t)
  <2>1. AfterRefusal(t, o) = w
    BY <1>3 DEF AfterRefusal
  <2>2. /\ v \in Thread /\ ThreadOK(v, used)
        /\ v.pc = thread[t].ret /\ v.pc \in {"status", "held", "seed", "enter"}
        /\ v.ret = "idle" /\ v.after = "idle" /\ v.ord = thread[t].ord /\ v.batch = thread[t].batch
        /\ v.total = thread[t].total /\ v.vst = thread[t].vst
    BY <1>3, ReturnOK
  <2> HIDE DEF v
  <2>3. w = [v EXCEPT !.todo = {}]
    BY DEF v
  <2> HIDE DEF w
  <2>4. /\ w \in Thread /\ w.pc = v.pc /\ w.after = v.after /\ w.ret = v.ret
        /\ w.todo = {} /\ w.ord = v.ord /\ w.batch = v.batch
        /\ w.total = v.total /\ w.vst = v.vst /\ w.cell = v.cell /\ w.own = v.own /\ w.new = v.new
    BY <2>2, <2>3 DEF Thread
  <2>5. ThreadOK(w, used)
    BY <2>2, <2>4 DEF ThreadOK
  <2>6. QED
    BY <1>3, <2>1, <2>2, <2>4, <2>5
<1>4. CASE ~CleanUp(t) /\ thread[t].after # "place"
  <2> DEFINE w == [thread[t] EXCEPT !.todo = thread[t].todo \ {o}]
  <2>1. AfterRefusal(t, o) = w
    BY <1>4 DEF AfterRefusal
  <2>2. /\ w \in Thread /\ w.pc = "cancel" /\ w.after = thread[t].after /\ w.ret = thread[t].ret
        /\ w.todo = thread[t].todo \ {o} /\ w.ord = thread[t].ord /\ w.batch = thread[t].batch
        /\ w.total = thread[t].total /\ w.vst = thread[t].vst /\ w.cell = thread[t].cell
    BY <1>1 DEF Thread
  <2> HIDE DEF w
  <2>3. ThreadOK(w, used)
    BY <1>1, <2>2 DEF ThreadOK
  <2>4. QED
    BY <1>4, <2>1, <2>2, <2>3 DEF CleanUp
<1>5. QED
  BY <1>2, <1>3, <1>4

\* An order at the venue is cancelled if it is open.
VenueCancelled(o) ==
  venue' = IF venue[o].st = "open" THEN [venue EXCEPT ![o].st = "cancelled"] ELSE venue

LEMMA CancelledAtVenue ==
  ASSUME Base, NEW o \in Orders, o <= used, VenueCancelled(o)
  PROVE /\ venue' \in [Orders -> VenueOrder] /\ VenueKept /\ venue'[o].st # "open"
        /\ (UNCHANGED <<row, used>> => PlacedInv') /\ \A x \in Orders \ {o} : venue'[x] = venue[x]
<1>1. CASE venue[o].st = "open"
  <2> DEFINE v == [venue[o] EXCEPT !.st = "cancelled"]
  <2>1. v \in VenueOrder /\ v.st = "cancelled" /\ v.fill = venue[o].fill /\ v.cell = venue[o].cell
    BY StateTyped DEF VenueOrder, OrderStates
  <2>2. venue' = [venue EXCEPT ![o] = v]
    BY <1>1 DEF VenueCancelled
  <2> HIDE DEF v
  <2>3. venue' \in [Orders -> VenueOrder] /\ venue'[o] = v /\ \A x \in Orders \ {o} : venue'[x] = venue[x]
    BY <2>1, <2>2, StateTyped
  <2>4. VenueKept
    BY <2>1, <2>3 DEF VenueKept
  <2>5. ASSUME UNCHANGED <<row, used>> PROVE PlacedInv'
    BY <2>1, <2>3, <2>5 DEF Base, PlacedInv
  <2>6. QED
    BY <2>1, <2>3, <2>4, <2>5
<1>2. CASE venue[o].st # "open"
  <2>1. venue' = venue
    BY <1>2 DEF VenueCancelled
  <2>2. QED
    BY <1>2, <2>1, StateTyped DEF VenueKept, Base, PlacedInv
<1>3. QED
  BY <1>1, <1>2

\* The venue and the thread change.
LEMMA BaseVenue ==
  ASSUME Base, NEW t \in Threads, NEW w, Moves(t, w, used'),
         UNCHANGED <<row, cell, posted, active, running, wanted, paused, seeded>>,
         used' \in 0 .. MaxOrders, used <= used',
         venue' \in [Orders -> VenueOrder], PlacedInv', faults' \subseteq Faults
  PROVE /\ Base' /\ thread' \in [Threads -> Thread] /\ thread'[t] = w
        /\ \A u \in Threads \ {t} : thread'[u] = thread[u]
<1>1. used' \in Nat
  BY OrdersAre
<1>3. /\ ThreadInv' /\ thread' \in [Threads -> Thread] /\ thread'[t] = w
      /\ \A u \in Threads \ {t} : thread'[u] = thread[u]
  BY <1>1, MovesTo
<1>5. \A u \in Threads : thread'[u].pc \in Pcs
  BY <1>3 DEF Thread
<1>6. /\ row' \in [Orders -> Row] /\ posted' \in [Orders -> Nat] /\ cell' \in [Cells -> Cell] /\ seeded' \subseteq Cells
      /\ active' \in BOOLEAN /\ running' \in BOOLEAN /\ wanted' \in BOOLEAN /\ paused' \in BOOLEAN
  BY StateTyped
<1>7. GridTypeOK'
  BY <1>5, <1>6 DEF GridTypeOK
<1>8. QED
  BY <1>3, <1>7 DEF Base

LEMMA CancelVenueStep ==
  ASSUME Base, NEW t \in Threads, CancelAtVenue(t)
  PROVE /\ Base' /\ Carries(t) /\ VenueKept /\ faults \subseteq faults'
        /\ UNCHANGED <<row, posted>> /\ thread[t].pc = "cancel" /\ thread'[t].pc # "insert"
        /\ thread'[t].pc = "cancelRow" =>
             /\ thread'[t].own \in Orders /\ thread'[t].todo = thread[t].todo
             /\ thread'[t].after = thread[t].after
             /\ venue'[thread'[t].own].st # "open" \/ "cleanup" \in faults'
        /\ thread'[t].pc # "cancelRow" => thread'[t].after # "sweep"
<1>1. PICK o \in thread[t].todo :
        /\ thread[t].pc = "cancel"
        /\ \/ /\ VenueCancelled(o)
              /\ SetThread(t, [thread[t] EXCEPT !.pc = "cancelRow", !.own = o])
              /\ UNCHANGED faults
           \/ /\ venue[o].st # "open"
              /\ SetThread(t, AfterRefusal(t, o))
              /\ UNCHANGED <<venue, faults>>
           \/ /\ venue[o].st = "open"
              /\ Fault(IF CleanUp(t) THEN "cleanup" ELSE "cancel")
              /\ SetThread(t, AfterRefusal(t, o))
              /\ UNCHANGED venue
        /\ UNCHANGED <<row, used, cell, posted, life, paused, seeded>>
  BY Zenon DEF CancelAtVenue, VenueCancelled
<1>2. /\ thread[t] \in Thread /\ ThreadOK(thread[t], used) /\ used \in Nat /\ o \in Orders /\ o <= used /\ o \in 1 .. used
      /\ t = "poller" => thread[t].after # "sweep"
      /\ t = "stopper" => thread[t].ord = 0
      /\ used' = used /\ used' \in 0 .. MaxOrders /\ used <= used'
  BY <1>1, ThreadFacts, TodoPlaced
<1>3. UNCHANGED <<row, used, cell, posted, active, running, wanted, paused, seeded>>
  BY <1>1 DEF life
<1>4. CASE VenueCancelled(o) /\ SetThread(t, [thread[t] EXCEPT !.pc = "cancelRow", !.own = o]) /\ UNCHANGED faults
  <2> DEFINE w == [thread[t] EXCEPT !.pc = "cancelRow", !.own = o]
  <2>1. w \in Thread
    <3>1. "cancelRow" \in Pcs /\ o \in {0} \cup Orders
      BY <1>2 DEF Pcs
    <3>2. QED
      BY <1>2, <3>1, Zenon DEF Thread
  <2>2. /\ w.pc = "cancelRow" /\ w.own = o /\ w.after = thread[t].after /\ w.ret = thread[t].ret
        /\ w.todo = thread[t].todo /\ w.ord = thread[t].ord /\ w.batch = thread[t].batch
        /\ w.total = thread[t].total /\ w.vst = thread[t].vst /\ w.cell = thread[t].cell
    BY <1>2 DEF Thread
  <2>3. SetThread(t, w)
    BY <1>4
  <2> HIDE DEF w
  <2>4. ThreadOK(w, used)
    BY <1>1, <1>2, <2>2 DEF ThreadOK
  <2>5. Moves(t, w, used')
    BY <1>2, <2>1, <2>2, <2>3, <2>4 DEF Moves
  <2>6. venue' \in [Orders -> VenueOrder] /\ VenueKept /\ venue'[o].st # "open" /\ PlacedInv'
    BY <1>2, <1>3, <1>4, CancelledAtVenue
  <2>7. /\ Base' /\ thread'[t] = w /\ \A u \in Threads \ {t} : thread'[u] = thread[u]
    BY <1>2, <1>3, <1>4, <2>5, <2>6, StateTyped, BaseVenue
  <2>8. Carries(t)
    BY <2>2, <2>7 DEF Carries
  <2>9. QED
    BY <1>1, <1>2, <1>3, <1>4, <2>2, <2>6, <2>7, <2>8
<1>5. CASE /\ SetThread(t, AfterRefusal(t, o)) /\ UNCHANGED venue
           /\ \/ venue[o].st # "open" /\ UNCHANGED faults
              \/ venue[o].st = "open" /\ Fault(IF CleanUp(t) THEN "cleanup" ELSE "cancel")
  <2>1. PICK w : w = AfterRefusal(t, o)
    OBVIOUS
  <2>2. /\ w \in Thread /\ ThreadOK(w, used)
        /\ w.ord = thread[t].ord /\ w.batch = thread[t].batch /\ w.total = thread[t].total
        /\ w.vst = thread[t].vst /\ w.pc \notin {"query", "post", "insert"}
        /\ w.pc = "held" \/ w.ret = "held" => thread[t].ret = "held"
        /\ IF CleanUp(t) THEN w.pc = "cancelRow" /\ w.own = o /\ w.todo = thread[t].todo /\ w.after = thread[t].after
             ELSE w.pc # "cancelRow" /\ w.after # "sweep"
    BY <1>1, <2>1, RefusalOK
  <2>3. Moves(t, w, used')
    BY <1>2, <1>5, <2>1, <2>2 DEF Moves
  <2>4. /\ faults \subseteq faults' /\ faults' \subseteq Faults
        /\ venue[o].st # "open" \/ ~CleanUp(t) \/ "cleanup" \in faults'
    BY <1>5, StateTyped, FaultTyped DEF Fault
  <2>5. VenueKept /\ venue' \in [Orders -> VenueOrder] /\ PlacedInv'
    BY <1>3, <1>5, StateTyped DEF VenueKept, Base, PlacedInv
  <2>6. /\ Base' /\ thread'[t] = w /\ \A u \in Threads \ {t} : thread'[u] = thread[u]
    BY <1>2, <1>3, <2>3, <2>4, <2>5, BaseVenue
  <2>7. Carries(t)
    BY <2>2, <2>6 DEF Carries
  <2>8. QED
    BY <1>1, <1>2, <1>3, <1>5, <2>2, <2>4, <2>5, <2>6, <2>7
<1>6. QED
  BY <1>1, <1>4, <1>5

LEMMA CancelRowStep ==
  ASSUME Base, NEW t \in Threads, CancelRow(t)
  PROVE /\ Base' /\ Carries(t) /\ RowsKept
        /\ UNCHANGED <<venue, posted, faults>> /\ thread[t].pc = "cancelRow" /\ thread'[t].pc = "cancel"
        /\ thread[t].own \in Orders /\ thread'[t].todo = thread[t].todo \ {thread[t].own}
        /\ thread'[t].after = thread[t].after
        /\ \A o \in Orders \ {thread[t].own} : row'[o] = row[o]
<1>1. /\ thread[t] \in Thread /\ ThreadOK(thread[t], used) /\ used \in Nat /\ used \in 0 .. MaxOrders
      /\ thread[t].pc = "cancelRow"
      /\ t = "poller" => thread[t].after # "sweep"
      /\ t = "stopper" => thread[t].ord = 0
  BY ThreadFacts DEF CancelRow
<1>2. PICK o \in Orders : o = thread[t].own /\ o <= used
  <2>1. thread[t].own \in 1 .. used /\ thread[t].own \in {0} \cup Orders
    BY <1>1 DEF ThreadOK, Thread
  <2>2. QED
    BY <1>1, <2>1
<1> DEFINE w == [thread[t] EXCEPT !.pc = "cancel", !.own = 0, !.todo = thread[t].todo \ {o}]
           r == [row[o] EXCEPT !.st = "cancelled"]
<1>3. /\ SetThread(t, w) /\ row' = [row EXCEPT ![o] = r]
      /\ UNCHANGED <<venue, used, cell, posted, active, running, wanted, paused, seeded, faults>>
  BY <1>2 DEF CancelRow, life
<1>4. r \in Row /\ r.obs = row[o].obs /\ r.done = row[o].done
  BY StateTyped DEF Row
<1>5. w \in Thread
  <2>1. "cancel" \in Pcs /\ 0 \in {0} \cup Orders /\ thread[t].todo \ {o} \in SUBSET Orders
    BY <1>1 DEF Pcs, Thread
  <2>2. QED
    BY <1>1, <2>1, Zenon DEF Thread
<1>6. /\ w.pc = "cancel" /\ w.own = 0 /\ w.after = thread[t].after /\ w.ret = thread[t].ret
      /\ w.todo = thread[t].todo \ {o} /\ w.ord = thread[t].ord /\ w.batch = thread[t].batch
      /\ w.total = thread[t].total /\ w.vst = thread[t].vst /\ w.cell = thread[t].cell
  BY <1>1 DEF Thread
<1> HIDE DEF w, r
<1>7. row' \in [Orders -> Row] /\ row'[o] = r /\ \A x \in Orders \ {o} : row'[x] = row[x]
  BY <1>3, <1>4, StateTyped
<1>8. ThreadOK(w, used)
  BY <1>1, <1>6 DEF ThreadOK
<1>9. Moves(t, w, used)
  BY <1>1, <1>3, <1>5, <1>6, <1>8 DEF Moves
<1>10. \A x \in Orders : used < x => row'[x] = row[x]
  BY <1>1, <1>2, <1>7, OrdersAre
<1>11. Base' /\ thread'[t] = w /\ \A u \in Threads \ {t} : thread'[u] = thread[u]
  BY <1>3, <1>7, <1>9, <1>10, StateTyped, BaseRows
<1>12. Carries(t)
  BY <1>6, <1>11 DEF Carries
<1>13. RowsKept
  BY <1>4, <1>7 DEF RowsKept
<1>14. QED
  BY <1>1, <1>2, <1>3, <1>6, <1>7, <1>11, <1>12, <1>13

LEMMA CancelsDoneStep ==
  ASSUME Base, NEW t \in Threads, CancelsDone(t)
  PROVE /\ Base' /\ Carries(t)
        /\ UNCHANGED <<row, venue, posted, faults>> /\ thread[t].pc = "cancel" /\ thread[t].todo = {}
        /\ thread'[t].pc \notin {"insert", "cancelRow", "cancel"}
        /\ thread'[t].after = "sweep" => thread[t].after = "sweep"
<1>1. /\ thread[t] \in Thread /\ ThreadOK(thread[t], used) /\ used \in Nat /\ used \in 0 .. MaxOrders
      /\ thread[t].pc = "cancel" /\ thread[t].todo = {}
      /\ t = "poller" => thread[t].after # "sweep"
      /\ t = "stopper" => thread[t].ord = 0
  BY ThreadFacts DEF CancelsDone
<1>2. thread[t].after \in {"idle", "place", "pause", "held", "enter", "sweep"}
  BY <1>1 DEF Thread, Afters
<1>3. PICK cs : cs = IF thread[t].after = "held" THEN HeldCells
                     ELSE IF thread[t].after = "enter" THEN IdleCells ELSE thread[t].cells
  OBVIOUS
<1>4. cs \in SUBSET (Cells \X Nat)
  BY <1>1, <1>3, CellsTyped DEF Thread
<1>5. PICK a : a = IF thread[t].after = "sweep" THEN "sweep" ELSE "idle"
  OBVIOUS
<1> DEFINE w == [thread[t] EXCEPT !.pc = thread[t].after, !.after = a, !.cells = cs]
<1>6. /\ SetThread(t, w)
      /\ UNCHANGED <<row, venue, used, cell, posted, active, running, wanted, paused, seeded, faults>>
  BY <1>3, <1>5 DEF CancelsDone, life
<1>7. w \in Thread
  <2>1. thread[t].after \in Pcs /\ a \in Afters
    BY <1>2, <1>5 DEF Pcs, Afters
  <2>2. QED
    BY <1>1, <1>4, <2>1, Zenon DEF Thread
<1>8. /\ w.pc = thread[t].after /\ w.own = thread[t].own /\ w.after = a /\ w.ret = thread[t].ret
      /\ w.todo = {} /\ w.ord = thread[t].ord /\ w.batch = thread[t].batch
      /\ w.total = thread[t].total /\ w.vst = thread[t].vst /\ w.cell = thread[t].cell
  BY <1>1 DEF Thread
<1> HIDE DEF w
<1>9. ThreadOK(w, used)
  BY <1>1, <1>2, <1>5, <1>8 DEF ThreadOK
<1>10. Moves(t, w, used)
  BY <1>1, <1>2, <1>5, <1>6, <1>7, <1>8, <1>9 DEF Moves
<1>11. Base' /\ thread'[t] = w /\ \A u \in Threads \ {t} : thread'[u] = thread[u]
  BY <1>6, <1>10, StateTyped, BaseQuiet
<1>12. thread[t].ord # 0 => w.pc = "place"
  BY <1>1, <1>8 DEF ThreadOK
<1>13. Carries(t)
  BY <1>2, <1>8, <1>11, <1>12 DEF Carries
<1>14. QED
  BY <1>1, <1>2, <1>5, <1>6, <1>8, <1>11, <1>13

LEMMA PlaceStep ==
  ASSUME Base, NEW t \in Threads, PlaceLimit(t)
  PROVE /\ Base' /\ Carries(t) /\ faults \subseteq faults'
        /\ UNCHANGED <<row, posted>> /\ thread[t].pc = "place" /\ thread'[t].after = "idle"
        /\ \/ venue' = venue /\ thread'[t].pc \notin {"insert", "cancelRow", "cancel"}
           \/ /\ thread'[t].pc = "insert" /\ thread'[t].own \in Orders
              /\ venue'[thread'[t].own].fill = 0 /\ venue[thread'[t].own] = Unplaced
              /\ row[thread'[t].own] = NoRow
              /\ \A o \in Orders \ {thread'[t].own} : venue'[o] = venue[o]
<1>1. /\ thread[t] \in Thread /\ ThreadOK(thread[t], used) /\ used \in Nat /\ used \in 0 .. MaxOrders
      /\ thread[t].pc = "place" /\ thread[t].cell \in Cells /\ thread[t].qty \in Nat /\ thread[t].buy \in BOOLEAN
      /\ t = "poller" => thread[t].after # "sweep"
      /\ t = "stopper" => thread[t].ord = 0
  <2>1. /\ thread[t] \in Thread /\ ThreadOK(thread[t], used) /\ used \in Nat /\ used \in 0 .. MaxOrders
        /\ t = "poller" => thread[t].after # "sweep"
        /\ t = "stopper" => thread[t].ord = 0
    BY ThreadFacts
  <2>2. thread[t].pc = "place"
    BY DEF PlaceLimit
  <2>3. QED
    BY <2>1, <2>2 DEF Thread, ThreadOK
<1>2. PICK q \in Nat : q = IF thread[t].buy THEN thread[t].qty ELSE ExitQuantity(thread[t].qty)
  BY <1>1, QuantitiesTyped
<1> DEFINE w1 == [thread[t] EXCEPT !.pc = "insert", !.own = used + 1, !.qty = q]
           v == [st |-> "open", cell |-> thread[t].cell, buy |-> thread[t].buy, qty |-> q, fill |-> 0]
<1>3. /\ UNCHANGED <<row, cell, posted, active, running, wanted, paused, seeded>>
      /\ \/ SetThread(t, Return(t)) /\ UNCHANGED <<venue, used>> /\ (UNCHANGED faults \/ Fault("refuse"))
         \/ /\ used < MaxOrders /\ used' = used + 1 /\ venue' = [venue EXCEPT ![used + 1] = v]
            /\ SetThread(t, w1) /\ UNCHANGED faults
  BY <1>2 DEF PlaceLimit, life
<1>4. faults \subseteq faults' /\ faults' \subseteq Faults
  BY <1>3, StateTyped, FaultTyped DEF Fault
<1>5. CASE SetThread(t, Return(t)) /\ UNCHANGED <<venue, used>>
  <2>1. PICK w : w = Return(t)
    OBVIOUS
  <2>2. /\ w \in Thread /\ ThreadOK(w, used)
        /\ w.pc = thread[t].ret /\ w.pc \in {"status", "held", "seed", "enter"}
        /\ w.ret = "idle" /\ w.after = "idle" /\ w.ord = thread[t].ord /\ w.batch = thread[t].batch
        /\ w.total = thread[t].total /\ w.vst = thread[t].vst
    BY <1>1, <2>1, ReturnOK
  <2>3. Moves(t, w, used)
    BY <1>1, <1>5, <2>1, <2>2 DEF Moves
  <2>4. Base' /\ thread'[t] = w /\ \A u \in Threads \ {t} : thread'[u] = thread[u]
    BY <1>3, <1>4, <1>5, <2>3, StateTyped, BaseQuiet
  <2>5. Carries(t)
    BY <2>2, <2>4 DEF Carries
  <2>6. QED
    BY <1>1, <1>3, <1>4, <1>5, <2>2, <2>4, <2>5
<1>6. CASE /\ used < MaxOrders /\ used' = used + 1 /\ venue' = [venue EXCEPT ![used + 1] = v]
           /\ SetThread(t, w1)
  <2>1. PICK o \in Orders : o = used + 1
    BY <1>1, <1>6, GridAssumption DEF Orders
  <2>2. v \in VenueOrder /\ v.st = "open" /\ v.fill = 0 /\ v.cell = thread[t].cell
    BY <1>1 DEF VenueOrder, OrderStates
  <2>3. w1 \in Thread
    <3>1. "insert" \in Pcs /\ used + 1 \in {0} \cup Orders
      BY <2>1 DEF Pcs
    <3>2. QED
      BY <1>1, <3>1, Zenon DEF Thread
  <2>4. /\ w1.pc = "insert" /\ w1.own = o /\ w1.after = thread[t].after /\ w1.ret = thread[t].ret
        /\ w1.todo = thread[t].todo /\ w1.ord = thread[t].ord /\ w1.batch = thread[t].batch
        /\ w1.total = thread[t].total /\ w1.vst = thread[t].vst /\ w1.cell = thread[t].cell
    BY <1>1, <2>1 DEF Thread
  <2> HIDE DEF w1, v
  <2>5. venue' \in [Orders -> VenueOrder] /\ venue'[o] = v /\ \A x \in Orders \ {o} : venue'[x] = venue[x]
    BY <1>6, <2>1, <2>2, StateTyped
  <2>6. venue[o] = Unplaced /\ row[o] = NoRow
    <3>1. ~(o <= used)
      BY <1>1, <2>1
    <3>2. QED
      BY <3>1 DEF Base, PlacedInv
  <2>7. PlacedInv'
    <3> SUFFICES ASSUME NEW x \in Orders
                 PROVE IF x <= used' THEN venue'[x].cell \in Cells /\ venue'[x].st # "none"
                         ELSE venue'[x] = Unplaced /\ row'[x] = NoRow
      BY DEF PlacedInv
    <3>1. IF x <= used THEN venue[x].cell \in Cells /\ venue[x].st # "none"
            ELSE venue[x] = Unplaced /\ row[x] = NoRow
      BY DEF Base, PlacedInv
    <3>2. CASE x = o
      BY <1>1, <1>6, <2>1, <2>2, <2>5, <3>2
    <3>3. CASE x # o
      <4>1. x <= used' <=> x <= used
        BY <1>1, <1>6, <2>1, <3>3, OrdersAre
      <4>2. QED
        BY <1>3, <2>5, <3>1, <3>3, <4>1
    <3>4. QED
      BY <3>2, <3>3
  <2>8. ThreadOK(w1, used + 1)
    <3>1. used + 1 \in Nat /\ used <= used + 1 /\ used + 1 \in 1 .. (used + 1)
      BY <1>1
    <3>2. ThreadOK(thread[t], used + 1)
      BY <1>1, <3>1, ThreadLater
    <3>3. QED
      BY <1>1, <2>1, <2>4, <3>1, <3>2 DEF ThreadOK
  <2>9. used' \in 0 .. MaxOrders /\ used <= used' /\ used' = used + 1
    BY <1>1, <1>6, OrdersAre
  <2>10. thread[t].after = "idle"
    BY <1>1 DEF ThreadOK
  <2>11. Moves(t, w1, used')
    BY <1>1, <1>6, <2>3, <2>4, <2>8, <2>9, <2>10 DEF Moves
  <2>12. Base' /\ thread'[t] = w1 /\ \A u \in Threads \ {t} : thread'[u] = thread[u]
    BY <1>3, <1>4, <2>5, <2>7, <2>9, <2>11, BaseVenue
  <2>13. Carries(t)
    BY <2>4, <2>12 DEF Carries
  <2>14. QED
    BY <1>1, <1>3, <1>4, <2>2, <2>4, <2>5, <2>6, <2>10, <2>12, <2>13
<1>7. QED
  BY <1>3, <1>5, <1>6

LEMMA InsertStep ==
  ASSUME Base, NEW t \in Threads, InsertRow(t)
  PROVE /\ Base' /\ Carries(t) /\ RowsKept /\ VenueKept /\ faults \subseteq faults'
        /\ posted' = posted /\ thread[t].pc = "insert" /\ thread'[t].after = "idle"
        /\ thread'[t].pc \notin {"insert", "cancelRow", "cancel"} /\ thread[t].own \in Orders
        /\ row'[thread[t].own].st = "open" \/ venue'[thread[t].own].st # "open"
        /\ \A o \in Orders : row'[o].st # row[o].st => row'[o].st = "open"
<1>1. /\ thread[t] \in Thread /\ ThreadOK(thread[t], used) /\ used \in Nat /\ used \in 0 .. MaxOrders
      /\ thread[t].pc = "insert"
      /\ t = "poller" => thread[t].after # "sweep"
      /\ t = "stopper" => thread[t].ord = 0
  BY ThreadFacts DEF InsertRow
<1>2. PICK o \in Orders : o = thread[t].own /\ o <= used
  <2>1. thread[t].own \in 1 .. used /\ thread[t].own \in {0} \cup Orders
    BY <1>1 DEF ThreadOK, Thread
  <2>2. QED
    BY <1>1, <2>1
<1>3. thread[t].after = "idle"
  BY <1>1 DEF ThreadOK
<1> DEFINE r == [row[o] EXCEPT !.st = "open"]
           w1 == [thread[t] EXCEPT !.pc = "mark"]
<1>4. /\ UNCHANGED <<used, cell, posted, active, running, wanted, paused, seeded>>
      /\ \/ row' = [row EXCEPT ![o] = r] /\ SetThread(t, w1) /\ UNCHANGED <<venue, faults>>
         \/ Fault("insert") /\ VenueCancelled(o) /\ SetThread(t, Return(t)) /\ UNCHANGED row
  BY <1>1, <1>2, StateTyped DEF InsertRow, Goto, SetThread, life, VenueCancelled, Base, ThreadInv
<1>5. CASE row' = [row EXCEPT ![o] = r] /\ SetThread(t, w1) /\ UNCHANGED <<venue, faults>>
  <2>1. r \in Row /\ r.obs = row[o].obs /\ r.done = row[o].done /\ r.st = "open"
    BY StateTyped DEF Row
  <2>2. /\ w1 \in Thread /\ w1.pc = "mark" /\ w1.own = o /\ w1.after = "idle" /\ w1.ret = thread[t].ret
        /\ w1.todo = thread[t].todo /\ w1.ord = thread[t].ord /\ w1.batch = thread[t].batch
        /\ w1.total = thread[t].total /\ w1.vst = thread[t].vst /\ w1.cell = thread[t].cell
    <3>1. "mark" \in Pcs
      BY DEF Pcs
    <3>2. QED
      BY <1>1, <1>2, <1>3, <3>1 DEF Thread
  <2> HIDE DEF r, w1
  <2>3. row' \in [Orders -> Row] /\ row'[o] = r /\ \A x \in Orders \ {o} : row'[x] = row[x]
    BY <1>5, <2>1, StateTyped
  <2>4. ThreadOK(w1, used)
    BY <1>1, <2>2 DEF ThreadOK
  <2>5. Moves(t, w1, used)
    BY <1>1, <1>5, <2>2, <2>4 DEF Moves
  <2>6. \A x \in Orders : used < x => row'[x] = row[x]
    BY <1>1, <1>2, <2>3, OrdersAre
  <2>7. Base' /\ thread'[t] = w1 /\ \A u \in Threads \ {t} : thread'[u] = thread[u]
    BY <1>4, <1>5, <2>3, <2>5, <2>6, StateTyped, BaseRows
  <2>8. Carries(t)
    BY <2>2, <2>7 DEF Carries
  <2>9. RowsKept /\ VenueKept
    BY <1>5, <2>1, <2>3 DEF RowsKept, VenueKept
  <2>10. QED
    BY <1>1, <1>2, <1>4, <1>5, <2>1, <2>2, <2>3, <2>7, <2>8, <2>9
<1>6. CASE Fault("insert") /\ VenueCancelled(o) /\ SetThread(t, Return(t)) /\ UNCHANGED row
  <2>1. PICK w : w = Return(t)
    OBVIOUS
  <2>2. /\ w \in Thread /\ ThreadOK(w, used)
        /\ w.pc = thread[t].ret /\ w.pc \in {"status", "held", "seed", "enter"}
        /\ w.ret = "idle" /\ w.after = "idle" /\ w.ord = thread[t].ord /\ w.batch = thread[t].batch
        /\ w.total = thread[t].total /\ w.vst = thread[t].vst
    BY <1>1, <2>1, ReturnOK
  <2>3. used' = used /\ used' \in 0 .. MaxOrders /\ used <= used' /\ faults \subseteq faults' /\ faults' \subseteq Faults
    BY <1>1, <1>4, <1>6, FaultTyped DEF Fault
  <2>4. Moves(t, w, used')
    BY <1>1, <1>6, <2>1, <2>2, <2>3 DEF Moves
  <2>5. venue' \in [Orders -> VenueOrder] /\ VenueKept /\ venue'[o].st # "open" /\ PlacedInv'
    BY <1>2, <1>4, <1>6, CancelledAtVenue
  <2>6. Base' /\ thread'[t] = w /\ \A u \in Threads \ {t} : thread'[u] = thread[u]
    BY <1>4, <1>6, <2>3, <2>4, <2>5, BaseVenue
  <2>7. Carries(t)
    BY <2>2, <2>6 DEF Carries
  <2>8. RowsKept
    BY <1>6 DEF RowsKept
  <2>9. QED
    BY <1>1, <1>2, <1>4, <1>6, <2>2, <2>3, <2>5, <2>6, <2>7, <2>8
<1>7. QED
  BY <1>4, <1>5, <1>6

LEMMA MarkStep ==
  ASSUME Base, NEW t \in Threads, MarkCell(t)
  PROVE /\ Base' /\ Carries(t) /\ UNCHANGED <<row, venue, posted, faults>>
        /\ thread[t].pc = "mark" /\ thread'[t].after = "idle"
        /\ thread'[t].pc \notin {"insert", "cancelRow", "cancel"}
<1>1. /\ thread[t] \in Thread /\ ThreadOK(thread[t], used) /\ used \in Nat
      /\ thread[t].pc = "mark"
      /\ t = "poller" => thread[t].after # "sweep"
      /\ t = "stopper" => thread[t].ord = 0
  BY ThreadFacts DEF MarkCell
<1>2. thread[t].cell \in Cells /\ thread[t].qty \in Nat /\ thread[t].left \in Int
  BY <1>1 DEF ThreadOK, Thread
<1>3. PICK l \in Int : l = IF thread[t].ret = "seed" THEN thread[t].left - Amount ELSE 0
  BY <1>2, OrdersAre
<1>4. PICK c : c = [st |-> IF thread[t].buy THEN "buyOpen" ELSE "held", leg |-> thread[t].qty]
  OBVIOUS
<1>5. PICK v : v = Return(t)
  OBVIOUS
<1>6. /\ v \in Thread /\ ThreadOK(v, used)
      /\ v.pc = thread[t].ret /\ v.pc \in {"status", "held", "seed", "enter"}
      /\ v.ret = "idle" /\ v.after = "idle" /\ v.ord = thread[t].ord /\ v.batch = thread[t].batch
      /\ v.total = thread[t].total /\ v.vst = thread[t].vst /\ v.left = thread[t].left
  BY <1>1, <1>5, ReturnOK
<1> DEFINE w == [v EXCEPT !.left = l]
<1>7. /\ SetThread(t, w) /\ cell' = [cell EXCEPT ![thread[t].cell] = c]
      /\ seeded' \in {seeded, seeded \cup {thread[t].cell}}
      /\ UNCHANGED <<row, venue, used, posted, active, running, wanted, paused, faults>>
  BY <1>3, <1>4, <1>5, <1>6 DEF MarkCell, life
<1>8. c \in Cell
  BY <1>2, <1>4 DEF Cell
<1>9. cell' \in [Cells -> Cell] /\ seeded' \subseteq Cells
  BY <1>2, <1>7, <1>8, StateTyped
<1>10. /\ w \in Thread /\ w.pc = v.pc /\ w.own = v.own /\ w.after = "idle" /\ w.ret = "idle"
       /\ w.todo = v.todo /\ w.ord = v.ord /\ w.batch = v.batch
       /\ w.total = v.total /\ w.vst = v.vst /\ w.cell = v.cell /\ w.new = v.new
  BY <1>6 DEF Thread
<1> HIDE DEF w
<1>11. ThreadOK(w, used)
  BY <1>6, <1>10 DEF ThreadOK
<1>12. Moves(t, w, used)
  BY <1>1, <1>6, <1>7, <1>10, <1>11 DEF Moves
<1>13. Base' /\ thread'[t] = w /\ \A u \in Threads \ {t} : thread'[u] = thread[u]
  BY <1>7, <1>9, <1>12, StateTyped, BaseQuiet
<1>14. Carries(t)
  BY <1>6, <1>10, <1>13 DEF Carries
<1>15. QED
  BY <1>1, <1>6, <1>7, <1>10, <1>13, <1>14

LEMMA NextCellStep ==
  ASSUME Base, NEW t \in Threads, NextCell(t)
  PROVE /\ Base' /\ Carries(t) /\ UNCHANGED <<row, venue, posted, faults>>
        /\ thread[t].pc \in {"held", "seed", "enter"} /\ thread'[t].after = "idle"
        /\ thread'[t].pc \notin {"insert", "cancelRow", "cancel"}
<1>1. /\ thread[t] \in Thread /\ ThreadOK(thread[t], used) /\ used \in Nat
      /\ thread[t].pc \in {"held", "seed", "enter"}
      /\ t = "poller" => thread[t].after # "sweep"
      /\ t = "stopper" => thread[t].ord = 0
  BY ThreadFacts DEF NextCell
<1>2. thread[t].after = "idle"
  BY <1>1 DEF ThreadOK
<1>3. PICK x \in thread[t].cells :
        \/ SetThread(t, [thread[t] EXCEPT !.cells = thread[t].cells \ {x}])
        \/ SetThread(t, [[thread[t] EXCEPT !.cells = thread[t].cells \ {x}]
                           EXCEPT !.pc = "place", !.ret = thread[t].pc, !.cell = x[1],
                                  !.buy = (thread[t].pc = "enter"), !.qty = x[2]])
  BY Zenon DEF NextCell
<1>4. UNCHANGED <<row, venue, used, cell, posted, active, running, wanted, paused, seeded, faults>>
  BY DEF NextCell, life
<1>5. x[1] \in Cells /\ x[2] \in Nat /\ thread[t].cells \ {x} \in SUBSET (Cells \X Nat)
  BY <1>1 DEF Thread
<1> DEFINE w1 == [thread[t] EXCEPT !.cells = thread[t].cells \ {x}]
<1>6. /\ w1 \in Thread /\ w1.pc = thread[t].pc /\ w1.own = thread[t].own /\ w1.after = "idle" /\ w1.ret = thread[t].ret
      /\ w1.todo = thread[t].todo /\ w1.ord = thread[t].ord /\ w1.batch = thread[t].batch
      /\ w1.total = thread[t].total /\ w1.vst = thread[t].vst /\ w1.cell = thread[t].cell /\ w1.new = thread[t].new
  BY <1>1, <1>2, <1>5 DEF Thread
<1>7. CASE SetThread(t, w1)
  <2> HIDE DEF w1
  <2>1. ThreadOK(w1, used)
    BY <1>1, <1>2, <1>6 DEF ThreadOK
  <2>2. Moves(t, w1, used)
    BY <1>1, <1>6, <1>7, <2>1 DEF Moves
  <2>3. Base' /\ thread'[t] = w1 /\ \A u \in Threads \ {t} : thread'[u] = thread[u]
    BY <1>4, <2>2, StateTyped, BaseQuiet
  <2>4. Carries(t)
    BY <1>1, <1>6, <2>3 DEF Carries
  <2>5. QED
    BY <1>1, <1>4, <1>6, <2>3, <2>4
<1>8. CASE SetThread(t, [w1 EXCEPT !.pc = "place", !.ret = thread[t].pc, !.cell = x[1],
                                   !.buy = (thread[t].pc = "enter"), !.qty = x[2]])
  <2>0. PICK c \in Cells, b \in BOOLEAN, q \in Nat, p \in {"held", "seed", "enter"} :
          SetThread(t, [w1 EXCEPT !.pc = "place", !.ret = p, !.cell = c, !.buy = b, !.qty = q])
          /\ p = thread[t].pc
    BY <1>1, <1>5, <1>8
  <2> DEFINE w == [w1 EXCEPT !.pc = "place", !.ret = p, !.cell = c, !.buy = b, !.qty = q]
  <2>1. SetThread(t, w)
    BY <2>0
  <2> HIDE DEF w1
  <2>2. w \in Thread
    <3>1. "place" \in Pcs /\ p \in Returns /\ c \in Cells \cup {NoCell}
      BY DEF Pcs, Returns
    <3>2. QED
      BY <1>6, <3>1, Zenon DEF Thread
  <2>3. /\ w.pc = "place" /\ w.own = w1.own /\ w.after = w1.after /\ w.ret = p
        /\ w.todo = w1.todo /\ w.ord = w1.ord /\ w.batch = w1.batch
        /\ w.total = w1.total /\ w.vst = w1.vst /\ w.cell = c /\ w.new = w1.new
    BY <1>6 DEF Thread
  <2> HIDE DEF w
  <2>4. ThreadOK(w, used)
    BY <1>1, <1>6, <2>0, <2>3 DEF ThreadOK
  <2>5. Moves(t, w, used)
    BY <1>1, <1>6, <2>1, <2>2, <2>3, <2>4 DEF Moves
  <2>6. Base' /\ thread'[t] = w /\ \A u \in Threads \ {t} : thread'[u] = thread[u]
    BY <1>4, <2>5, StateTyped, BaseQuiet
  <2>7. Carries(t)
    BY <1>1, <1>6, <2>0, <2>3, <2>6 DEF Carries, ThreadOK
  <2>8. QED
    BY <1>1, <1>4, <1>6, <2>3, <2>6, <2>7
<1>9. QED
  BY <1>3, <1>7, <1>8

\* A poll goes on with what is left of its list, or ends.
Ends(t) ==
  /\ \A u \in Threads \ {t} : thread'[u] = thread[u]
  /\ thread'[t].ord = 0 /\ thread'[t].batch \subseteq thread[t].batch
  /\ thread'[t].after = "idle" /\ thread'[t].ret = "idle" /\ thread'[t].pc \in {"idle", "query"}
  /\ Polling(t)

LEMMA GoOnMoves ==
  ASSUME Base, NEW t \in Threads, Polling(t), NEW b, b \subseteq thread[t].batch, SetThread(t, GoOn(b))
  PROVE /\ Moves(t, GoOn(b), used)
        /\ GoOn(b).ord = 0 /\ GoOn(b).batch = b /\ GoOn(b).after = "idle" /\ GoOn(b).ret = "idle"
        /\ GoOn(b).pc \in {"idle", "query"}
<1>1. /\ thread[t].batch \subseteq [id : Orders, done : Nat, obs : Nat]
      /\ (\A x \in thread[t].batch : x.id <= used) /\ used \in Nat
  BY ThreadFacts
<1>2. b \subseteq [id : Orders, done : Nat, obs : Nat] /\ \A x \in b : x.id <= used
  BY <1>1
<1>3. /\ GoOn(b) \in Thread /\ ThreadOK(GoOn(b), used)
      /\ GoOn(b).ord = 0 /\ GoOn(b).batch = b /\ GoOn(b).after = "idle" /\ GoOn(b).ret = "idle"
      /\ GoOn(b).pc \in {"idle", "query"}
  BY <1>1, <1>2, GoOnOK
<1>4. t # "stopper"
  BY DEF Base, ThreadInv
<1>5. QED
  BY <1>3, <1>4 DEF Moves

LEMMA CellsDoneStep ==
  ASSUME Base, NEW t \in Threads, CellsDone(t)
  PROVE /\ Base' /\ UNCHANGED <<row, venue, posted, faults>>
        /\ thread[t].pc \in {"held", "seed", "enter"} /\ thread'[t].after = "idle"
        /\ thread'[t].pc \in {"seed", "idle", "query"}
        /\ IF thread[t].ord # 0 THEN Ends(t) /\ thread[t].pc = "held" ELSE Carries(t)
<1>1. /\ thread[t] \in Thread /\ ThreadOK(thread[t], used) /\ used \in Nat
      /\ thread[t].pc \in {"held", "seed", "enter"}
      /\ t = "poller" => thread[t].after # "sweep"
      /\ t = "stopper" => thread[t].ord = 0
  BY ThreadFacts DEF CellsDone
<1>2. UNCHANGED <<row, venue, used, cell, posted, active, running, wanted, paused, seeded, faults>>
  BY DEF CellsDone, life
<1>3. CASE thread[t].ord # 0
  <2>1. SetThread(t, GoOn(thread[t].batch)) /\ Polling(t)
    BY <1>3 DEF CellsDone, Polling
  <2>2. PICK w : w = GoOn(thread[t].batch)
    OBVIOUS
  <2>3. /\ Moves(t, w, used)
        /\ w.ord = 0 /\ w.batch = thread[t].batch /\ w.after = "idle" /\ w.ret = "idle"
        /\ w.pc \in {"idle", "query"}
    BY <2>1, <2>2, GoOnMoves
  <2>4. Base' /\ thread'[t] = w /\ \A u \in Threads \ {t} : thread'[u] = thread[u]
    BY <1>2, <2>3, StateTyped, BaseQuiet
  <2>5. Ends(t)
    BY <2>1, <2>3, <2>4 DEF Ends
  <2>6. thread[t].pc = "held"
    BY <1>1, <1>3 DEF ThreadOK
  <2>7. QED
    BY <1>2, <1>3, <2>3, <2>4, <2>5, <2>6
<1>4. CASE thread[t].ord = 0 /\ thread[t].pc = "held"
  <2>1. PICK l \in Int, cs \in SUBSET (Cells \X Nat) :
          SetThread(t, [thread[t] EXCEPT !.pc = "seed", !.cells = cs, !.left = l])
    <3>1. thread[t].left - MaxOf(HeldCellQty, OpenExitQty) \in Int
      BY <1>1, QuantitiesTyped DEF Thread, MaxOf
    <3>2. SetThread(t, [thread[t] EXCEPT !.pc = "seed", !.cells = IdleCells,
                          !.left = thread[t].left - MaxOf(HeldCellQty, OpenExitQty)])
      BY <1>4 DEF CellsDone
    <3>3. QED
      BY <3>1, <3>2, CellsTyped
  <2> DEFINE w == [thread[t] EXCEPT !.pc = "seed", !.cells = cs, !.left = l]
  <2>2. w \in Thread
    <3>1. "seed" \in Pcs
      BY DEF Pcs
    <3>2. QED
      BY <1>1, <3>1, Zenon DEF Thread
  <2>3. /\ w.pc = "seed" /\ w.own = thread[t].own /\ w.after = thread[t].after /\ w.ret = thread[t].ret
        /\ w.todo = thread[t].todo /\ w.ord = thread[t].ord /\ w.batch = thread[t].batch
        /\ w.total = thread[t].total /\ w.vst = thread[t].vst /\ w.cell = thread[t].cell
    BY <1>1 DEF Thread
  <2>4. SetThread(t, w)
    BY <2>1
  <2> HIDE DEF w
  <2>5. ThreadOK(w, used) /\ thread[t].after = "idle"
    BY <1>1, <1>4, <2>3 DEF ThreadOK
  <2>6. Moves(t, w, used)
    BY <1>1, <2>2, <2>3, <2>4, <2>5 DEF Moves
  <2>7. Base' /\ thread'[t] = w /\ \A u \in Threads \ {t} : thread'[u] = thread[u]
    BY <1>2, <2>6, StateTyped, BaseQuiet
  <2>8. Carries(t)
    BY <1>4, <2>3, <2>7 DEF Carries
  <2>9. QED
    BY <1>1, <1>2, <1>4, <2>3, <2>5, <2>7, <2>8
<1>5. CASE thread[t].ord = 0 /\ thread[t].pc # "held"
  <2>1. SetThread(t, Idle)
    BY <1>5 DEF CellsDone
  <2>2. Moves(t, Idle, used)
    BY <1>1, <2>1, NullsTyped, IdleOK DEF Moves
  <2>3. Base' /\ thread'[t] = Idle /\ \A u \in Threads \ {t} : thread'[u] = thread[u]
    BY <1>2, <2>2, StateTyped, BaseQuiet
  <2>4. thread[t].batch = {}
    BY <1>1, <1>5 DEF ThreadOK
  <2>5. Carries(t)
    BY <1>5, <2>3, <2>4, NullsTyped DEF Carries
  <2>6. QED
    BY <1>1, <1>2, <1>5, <2>3, <2>5, NullsTyped
<1>6. QED
  BY <1>3, <1>4, <1>5

LEMMA PollDoneStep ==
  ASSUME Base, NEW t \in Threads, PollDone(t)
  PROVE /\ Base' /\ UNCHANGED <<row, venue, posted, faults>> /\ Ends(t)
        /\ thread[t].pc = "query" /\ thread[t].ord = 0
<1>1. /\ thread[t] \in Thread /\ ThreadOK(thread[t], used) /\ used \in Nat /\ thread[t].pc = "query"
      /\ SetThread(t, Idle)
  BY ThreadFacts DEF PollDone
<1>2. UNCHANGED <<row, venue, used, cell, posted, active, running, wanted, paused, seeded, faults>>
  BY DEF PollDone, life
<1>3. Moves(t, Idle, used)
  BY <1>1, NullsTyped, IdleOK DEF Moves
<1>4. Base' /\ thread'[t] = Idle /\ \A u \in Threads \ {t} : thread'[u] = thread[u]
  BY <1>2, <1>3, StateTyped, BaseQuiet
<1>5. Ends(t)
  BY <1>1, <1>4, NullsTyped DEF Ends, Polling
<1>6. thread[t].ord = 0
  BY <1>1 DEF ThreadOK
<1>7. QED
  BY <1>1, <1>2, <1>4, <1>5, <1>6

\* A poll asks for one of its orders, or passes over it.
Asked(t, x) ==
  /\ \A u \in Threads \ {t} : thread'[u] = thread[u]
  /\ thread'[t].ord = x.id /\ thread'[t].batch = thread[t].batch \ {x}
  /\ thread'[t].total = (IF venue[x.id].fill > 0 THEN venue[x.id].fill ELSE x.obs)
  /\ thread'[t].new = thread'[t].total - x.done /\ thread'[t].vst = venue[x.id].st
  /\ thread'[t].pc \in {"post", "status"} /\ (thread'[t].pc = "post" <=> thread'[t].total > x.done)
  /\ thread'[t].after = "idle" /\ thread'[t].ret = "idle"

LEMMA PollQueryStep ==
  ASSUME Base, NEW t \in Threads, PollQuery(t)
  PROVE /\ Base' /\ UNCHANGED <<row, venue, posted>> /\ faults \subseteq faults'
        /\ thread[t].pc = "query" /\ thread[t].ord = 0
        /\ \/ Ends(t)
           \/ \E x \in thread[t].batch : Asked(t, x)
<1>1. /\ thread[t] \in Thread /\ ThreadOK(thread[t], used) /\ used \in Nat /\ thread[t].pc = "query"
      /\ t # "stopper" /\ Polling(t)
      /\ thread[t].batch \subseteq [id : Orders, done : Nat, obs : Nat]
      /\ \A x \in thread[t].batch : x.id <= used
  BY ThreadFacts DEF PollQuery, Polling
<1>2. thread[t].ord = 0
  BY <1>1 DEF ThreadOK
<1>3. UNCHANGED <<row, venue, used, cell, posted, active, running, wanted, paused, seeded>>
  BY DEF PollQuery, life
<1>4. PICK x \in thread[t].batch :
        \/ /\ SetThread(t, [Idle EXCEPT
                !.pc = IF (IF venue[x.id].fill > 0 THEN venue[x.id].fill ELSE x.obs) > x.done
                         THEN "post" ELSE "status",
                !.batch = thread[t].batch \ {x}, !.ord = x.id,
                !.new = (IF venue[x.id].fill > 0 THEN venue[x.id].fill ELSE x.obs) - x.done,
                !.total = IF venue[x.id].fill > 0 THEN venue[x.id].fill ELSE x.obs,
                !.vst = venue[x.id].st])
           /\ UNCHANGED faults
        \/ Fault("query") /\ SetThread(t, GoOn(thread[t].batch \ {x}))
  BY Zenon DEF PollQuery
<1>5. faults \subseteq faults' /\ faults' \subseteq Faults
  BY <1>4, StateTyped, FaultTyped DEF Fault
<1>6. /\ x.id \in Orders /\ x.id <= used /\ x.done \in Nat /\ x.obs \in Nat
      /\ venue[x.id].fill \in Nat /\ venue[x.id].st \in OrderStates
  BY <1>1, StateTyped DEF VenueOrder
<1>7. CASE SetThread(t, GoOn(thread[t].batch \ {x}))
  <2>0. PICK b : b = thread[t].batch \ {x} /\ b \subseteq thread[t].batch /\ SetThread(t, GoOn(b))
    BY <1>7
  <2>1. PICK w : w = GoOn(b)
    OBVIOUS
  <2>2. /\ Moves(t, w, used)
        /\ w.ord = 0 /\ w.batch = b /\ w.after = "idle" /\ w.ret = "idle"
        /\ w.pc \in {"idle", "query"}
    <3>1. Polling(t) /\ b \subseteq thread[t].batch /\ SetThread(t, GoOn(b))
      BY <1>1, <2>0
    <3>2. QED
      BY <2>1, <3>1, GoOnMoves
  <2>3. Base' /\ thread'[t] = w /\ \A u \in Threads \ {t} : thread'[u] = thread[u]
    BY <1>3, <1>5, <2>2, StateTyped, BaseQuiet
  <2>4. Ends(t)
    BY <1>1, <2>0, <2>2, <2>3 DEF Ends
  <2>5. QED
    BY <1>1, <1>2, <1>3, <1>5, <2>3, <2>4
<1>8. CASE SetThread(t, [Idle EXCEPT
                !.pc = IF (IF venue[x.id].fill > 0 THEN venue[x.id].fill ELSE x.obs) > x.done
                         THEN "post" ELSE "status",
                !.batch = thread[t].batch \ {x}, !.ord = x.id,
                !.new = (IF venue[x.id].fill > 0 THEN venue[x.id].fill ELSE x.obs) - x.done,
                !.total = IF venue[x.id].fill > 0 THEN venue[x.id].fill ELSE x.obs,
                !.vst = venue[x.id].st])
  <2>1. PICK n \in Nat : n = IF venue[x.id].fill > 0 THEN venue[x.id].fill ELSE x.obs
    BY <1>6
  <2>2. PICK p \in Pcs : p = IF n > x.done THEN "post" ELSE "status"
    BY DEF Pcs
  <2>3. PICK b : b = thread[t].batch \ {x}
    OBVIOUS
  <2>4. PICK d \in Int : d = n - x.done
    BY <1>6, <2>1
  <2>5. PICK v \in OrderStates, o \in Orders : v = venue[x.id].st /\ o = x.id
    BY <1>6
  <2> DEFINE w == [Idle EXCEPT !.pc = p, !.batch = b, !.ord = o, !.new = d, !.total = n, !.vst = v]
  <2>6. SetThread(t, w)
    BY <1>8, <2>1, <2>2, <2>3, <2>4, <2>5
  <2>7. w \in Thread
    <3>1. Idle \in Thread /\ o \in {0} \cup Orders /\ b \in SUBSET [id : Orders, done : Nat, obs : Nat]
      BY <1>1, <2>3, NullsTyped
    <3>2. QED
      BY <3>1, Zenon DEF Thread
  <2>8. /\ w.pc = p /\ w.batch = b /\ w.ord = o /\ w.new = d /\ w.total = n /\ w.vst = v
        /\ w.after = "idle" /\ w.ret = "idle" /\ w.todo = {}
    BY NullsTyped DEF Thread
  <2> HIDE DEF w
  <2>9. ThreadOK(w, used)
    <3>1. d > 0 <=> n > x.done
      BY <1>6, <2>4
    <3>2. o <= used /\ o # 0 /\ \A y \in b : y.id <= used
      BY <1>1, <1>6, <2>3, <2>5, OrdersAre
    <3>3. QED
      BY <2>2, <2>8, <3>1, <3>2 DEF ThreadOK
  <2>10. Moves(t, w, used)
    BY <1>1, <2>6, <2>7, <2>8, <2>9 DEF Moves
  <2>11. Base' /\ thread'[t] = w /\ \A u \in Threads \ {t} : thread'[u] = thread[u]
    BY <1>3, <1>5, <2>10, StateTyped, BaseQuiet
  <2>12. Asked(t, x)
    BY <2>1, <2>2, <2>3, <2>4, <2>5, <2>8, <2>11 DEF Asked
  <2>13. QED
    BY <1>1, <1>2, <1>3, <1>5, <2>11, <2>12
<1>9. QED
  BY <1>4, <1>7, <1>8

LEMMA PostFillStep ==
  ASSUME Base, NEW t \in Threads, PostFill(t)
  PROVE /\ Base' /\ Carries(t) /\ UNCHANGED <<row, venue>> /\ faults \subseteq faults'
        /\ thread[t].pc = "post" /\ thread'[t].after = "idle" /\ thread'[t].pc \in {"cell", "status"}
        /\ thread[t].ord \in Orders /\ thread'[t].ret = thread[t].ret
        /\ posted'[thread[t].ord] \in {posted[thread[t].ord], posted[thread[t].ord] + thread[t].new}
        /\ \A o \in Orders \ {thread[t].ord} : posted'[o] = posted[o]
<1>1. /\ thread[t] \in Thread /\ ThreadOK(thread[t], used) /\ used \in Nat /\ thread[t].pc = "post"
      /\ t = "poller" => thread[t].after # "sweep"
      /\ t = "stopper" => thread[t].ord = 0
      /\ thread[t].ord # 0 => thread[t].ord \in Orders /\ venue[thread[t].ord].cell \in Cells
  BY ThreadFacts DEF PostFill
<1>2. /\ thread[t].ord # 0 /\ thread[t].ord \in Orders /\ venue[thread[t].ord].cell \in Cells
      /\ thread[t].new \in Int /\ thread[t].new > 0 /\ thread[t].after = "idle"
  BY <1>1 DEF ThreadOK, Thread
<1>3. PICK o \in Orders : o = thread[t].ord
  BY <1>2
<1>4. PICK c \in Cell, p \in {"cell", "status"} :
        c = cell[venue[o].cell] /\ p = IF paused /\ venue[o].buy THEN "status" ELSE "cell"
  BY <1>2, <1>3, StateTyped
<1> DEFINE w == [thread[t] EXCEPT !.pc = p, !.prior = c]
<1>5. /\ SetThread(t, w)
      /\ UNCHANGED <<row, venue, used, cell, active, running, wanted, paused, seeded>>
      /\ \/ posted' = [posted EXCEPT ![o] = posted[o] + thread[t].new] /\ UNCHANGED faults
         \/ Fault("post") /\ UNCHANGED posted
  BY <1>3, <1>4 DEF PostFill, life
<1>6. /\ posted' \in [Orders -> Nat] /\ posted'[o] \in {posted[o], posted[o] + thread[t].new}
      /\ \A x \in Orders \ {o} : posted'[x] = posted[x]
  <2>1. posted[o] + thread[t].new \in Nat
    BY <1>2, StateTyped
  <2>2. QED
    BY <1>5, <2>1, StateTyped
<1>7. faults \subseteq faults' /\ faults' \subseteq Faults
  BY <1>5, StateTyped, FaultTyped DEF Fault
<1>8. w \in Thread
  <2>1. p \in Pcs
    BY DEF Pcs
  <2>2. QED
    BY <1>1, <2>1, Zenon DEF Thread
<1>9. /\ w.pc = p /\ w.own = thread[t].own /\ w.after = thread[t].after /\ w.ret = thread[t].ret
      /\ w.todo = thread[t].todo /\ w.ord = thread[t].ord /\ w.batch = thread[t].batch /\ w.new = thread[t].new
      /\ w.total = thread[t].total /\ w.vst = thread[t].vst /\ w.cell = thread[t].cell
  BY <1>1 DEF Thread
<1> HIDE DEF w
<1>10. ThreadOK(w, used)
  BY <1>1, <1>9 DEF ThreadOK
<1>11. Moves(t, w, used)
  BY <1>1, <1>5, <1>8, <1>9, <1>10, <1>2 DEF Moves
<1>12. Base' /\ thread'[t] = w /\ \A u \in Threads \ {t} : thread'[u] = thread[u]
  BY <1>5, <1>6, <1>7, <1>11, StateTyped, BaseRows
<1>13. Carries(t)
  BY <1>9, <1>12 DEF Carries
<1>14. QED
  BY <1>1, <1>2, <1>3, <1>5, <1>6, <1>7, <1>9, <1>12, <1>13

LEMMA FillCellStep ==
  ASSUME Base, NEW t \in Threads, FillCell(t)
  PROVE /\ Base' /\ Carries(t) /\ UNCHANGED <<row, venue, posted, faults>>
        /\ thread[t].pc = "cell" /\ thread'[t].after = "idle"
        /\ thread'[t].pc \in {"cover", "place", "status"}
<1>0. thread[t].pc = "cell"
  <2>1. thread[t] \in Thread /\ [thread[t] EXCEPT !.prior = EmptyCell].pc = "cell"
    BY ThreadFacts DEF FillCell
  <2>2. QED
    BY <2>1 DEF Thread
<1>1. /\ thread[t] \in Thread /\ ThreadOK(thread[t], used) /\ used \in Nat
      /\ t = "poller" => thread[t].after # "sweep"
      /\ t = "stopper" => thread[t].ord = 0
      /\ thread[t].ord # 0 => thread[t].ord \in Orders /\ venue[thread[t].ord].cell \in Cells
  BY ThreadFacts
<1>2. /\ thread[t].ord # 0 /\ thread[t].after = "idle" /\ thread[t].new \in Int /\ thread[t].new > 0
      /\ thread[t].prior \in Cell /\ thread[t].new \in Nat /\ thread[t].prior.leg \in Nat
  BY <1>0, <1>1 DEF ThreadOK, Thread, Cell
<1>3. PICK o \in Orders, c \in Cells : o = thread[t].ord /\ c = venue[o].cell
  BY <1>1, <1>2
<1>4. PICK leg \in Nat : leg = IF venue[o].buy THEN HeldAfterEntry(thread[t].prior, thread[t].new)
                                ELSE HeldAfterExit(thread[t].prior, thread[t].new)
  BY <1>2 DEF HeldAfterEntry, HeldAfterExit, MaxOf
<1> DEFINE v == [thread[t] EXCEPT !.prior = EmptyCell]
           after == [st |-> IF leg > 0 THEN "held" ELSE "idle", leg |-> leg]
<1>5. /\ v \in Thread /\ v.pc = "cell" /\ v.own = thread[t].own /\ v.after = thread[t].after /\ v.ret = thread[t].ret
      /\ v.todo = thread[t].todo /\ v.ord = thread[t].ord /\ v.batch = thread[t].batch /\ v.new = thread[t].new
      /\ v.total = thread[t].total /\ v.vst = thread[t].vst /\ v.cell = thread[t].cell
  BY <1>0, <1>1, NullsTyped DEF Thread
<1>6. /\ UNCHANGED <<row, venue, used, posted, active, running, wanted, paused, seeded, faults>>
      /\ cell' = [cell EXCEPT ![c] = after]
      /\ \/ SetThread(t, [v EXCEPT !.pc = "cover", !.qty = leg])
         \/ SetThread(t, [v EXCEPT !.pc = "place", !.ret = "status", !.cell = c, !.buy = TRUE, !.qty = v.new])
         \/ SetThread(t, [v EXCEPT !.pc = "status"])
  <2> HIDE DEF v
  <2>1. v = [thread[t] EXCEPT !.prior = EmptyCell]
    BY DEF v
  <2>2. QED
    BY <1>3, <1>4, <1>5, <2>1 DEF FillCell, life
<1> HIDE DEF v
<1>7. after \in Cell
  BY DEF Cell
<1> HIDE DEF after
<1>8. cell' \in [Cells -> Cell]
  BY <1>6, <1>7, StateTyped
<1>9. \A w : /\ Moves(t, w, used) /\ w.ord = v.ord /\ w.batch = v.batch /\ w.total = v.total /\ w.vst = v.vst
             /\ w.pc \in {"cover", "place", "status"} /\ (w.ret = "held" => v.ret = "held") /\ w.after = "idle"
             => /\ Base' /\ Carries(t) /\ thread'[t].after = "idle"
                /\ thread'[t].pc \in {"cover", "place", "status"}
  <2> TAKE w
  <2> HAVE /\ Moves(t, w, used) /\ w.ord = v.ord /\ w.batch = v.batch /\ w.total = v.total /\ w.vst = v.vst
           /\ w.pc \in {"cover", "place", "status"} /\ (w.ret = "held" => v.ret = "held") /\ w.after = "idle"
  <2>1. Base' /\ thread'[t] = w /\ \A u \in Threads \ {t} : thread'[u] = thread[u]
    BY <1>6, <1>8, StateTyped, BaseQuiet
  <2>2. Carries(t)
    BY <1>5, <2>1 DEF Carries
  <2>3. QED
    BY <2>1, <2>2
<1>10. /\ Base' /\ Carries(t) /\ thread'[t].after = "idle"
       /\ thread'[t].pc \in {"cover", "place", "status"}
  <2>1. CASE SetThread(t, [v EXCEPT !.pc = "cover", !.qty = leg])
    <3> DEFINE w == [v EXCEPT !.pc = "cover", !.qty = leg]
    <3>1. w \in Thread
      <4>1. "cover" \in Pcs
        BY DEF Pcs
      <4>2. QED
        BY <1>5, <4>1, Zenon DEF Thread
    <3>2. /\ w.pc = "cover" /\ w.own = v.own /\ w.after = v.after /\ w.ret = v.ret
          /\ w.todo = v.todo /\ w.ord = v.ord /\ w.batch = v.batch /\ w.new = v.new
          /\ w.total = v.total /\ w.vst = v.vst /\ w.cell = v.cell
      BY <1>5 DEF Thread
    <3>3. SetThread(t, w)
      BY <2>1
    <3> HIDE DEF w
    <3>4. ThreadOK(w, used)
      BY <1>0, <1>1, <1>5, <3>2 DEF ThreadOK
    <3>5. Moves(t, w, used)
      BY <1>1, <1>2, <1>5, <3>1, <3>2, <3>3, <3>4 DEF Moves
    <3>6. QED
      BY <1>2, <1>5, <1>9, <3>2, <3>5
  <2>2. CASE SetThread(t, [v EXCEPT !.pc = "place", !.ret = "status", !.cell = c, !.buy = TRUE, !.qty = v.new])
    <3>0. PICK n \in Nat : n = v.new
      BY <1>2, <1>5
    <3> DEFINE w == [v EXCEPT !.pc = "place", !.ret = "status", !.cell = c, !.buy = TRUE, !.qty = n]
    <3>1. w \in Thread
      <4>1. "place" \in Pcs /\ "status" \in Returns /\ TRUE \in BOOLEAN /\ c \in Cells \cup {NoCell}
        BY DEF Pcs, Returns
      <4>2. QED
        BY <1>5, <4>1, Zenon DEF Thread
    <3>2. /\ w.pc = "place" /\ w.own = v.own /\ w.after = v.after /\ w.ret = "status"
          /\ w.todo = v.todo /\ w.ord = v.ord /\ w.batch = v.batch /\ w.new = v.new
          /\ w.total = v.total /\ w.vst = v.vst /\ w.cell = c
      BY <1>5 DEF Thread
    <3>3. SetThread(t, w)
      BY <2>2, <3>0
    <3> HIDE DEF w
    <3>4. ThreadOK(w, used)
      BY <1>0, <1>1, <1>2, <1>5, <3>2 DEF ThreadOK
    <3>5. Moves(t, w, used)
      BY <1>1, <1>2, <1>5, <3>1, <3>2, <3>3, <3>4 DEF Moves
    <3>6. QED
      BY <1>2, <1>5, <1>9, <3>2, <3>5
  <2>3. CASE SetThread(t, [v EXCEPT !.pc = "status"])
    <3> DEFINE w == [v EXCEPT !.pc = "status"]
    <3>1. w \in Thread
      <4>1. "status" \in Pcs
        BY DEF Pcs
      <4>2. QED
        BY <1>5, <4>1, Zenon DEF Thread
    <3>2. /\ w.pc = "status" /\ w.own = v.own /\ w.after = v.after /\ w.ret = v.ret
          /\ w.todo = v.todo /\ w.ord = v.ord /\ w.batch = v.batch /\ w.new = v.new
          /\ w.total = v.total /\ w.vst = v.vst /\ w.cell = v.cell
      BY <1>5 DEF Thread
    <3>3. SetThread(t, w)
      BY <2>3
    <3> HIDE DEF w
    <3>4. ThreadOK(w, used)
      BY <1>0, <1>1, <1>5, <3>2 DEF ThreadOK
    <3>5. Moves(t, w, used)
      BY <1>1, <1>2, <1>5, <3>1, <3>2, <3>3, <3>4 DEF Moves
    <3>6. QED
      BY <1>2, <1>5, <1>9, <3>2, <3>5
  <2>4. QED
    BY <1>6, <2>1, <2>2, <2>3
<1>11. QED
  BY <1>0, <1>6, <1>10

LEMMA CoverStep ==
  ASSUME Base, NEW t \in Threads, EnsureExitCoverage(t)
  PROVE /\ Base' /\ Carries(t) /\ UNCHANGED <<row, venue, posted, faults>>
        /\ thread[t].pc = "cover" /\ thread'[t].after # "sweep"
        /\ thread'[t].pc \in {"cancel", "status"}
<1>1. /\ thread[t] \in Thread /\ ThreadOK(thread[t], used) /\ used \in Nat /\ thread[t].pc = "cover"
      /\ t = "poller" => thread[t].after # "sweep"
      /\ t = "stopper" => thread[t].ord = 0
      /\ thread[t].ord # 0 => thread[t].ord \in Orders /\ venue[thread[t].ord].cell \in Cells
  BY ThreadFacts DEF EnsureExitCoverage
<1>2. thread[t].ord # 0 /\ thread[t].after = "idle"
  BY <1>1 DEF ThreadOK
<1>3. PICK c \in Cells : c = venue[thread[t].ord].cell
  BY <1>1, <1>2
<1>4. PICK S : S = OpenOf(c, FALSE)
  OBVIOUS
<1>5. S \in SUBSET Orders /\ \A o \in S : o <= used
  BY <1>4, PlacedRows DEF OpenOf
<1>6. /\ UNCHANGED <<row, venue, used, cell, posted, active, running, wanted, paused, seeded, faults>>
      /\ \/ SetThread(t, [thread[t] EXCEPT !.pc = "status", !.qty = 0])
         \/ SetThread(t, [thread[t] EXCEPT !.pc = "cancel", !.after = "place", !.todo = S,
                            !.ret = "status", !.cell = c])
  BY <1>3, <1>4, Zenon DEF EnsureExitCoverage, life
<1>7. CASE SetThread(t, [thread[t] EXCEPT !.pc = "status", !.qty = 0])
  <2> DEFINE w == [thread[t] EXCEPT !.pc = "status", !.qty = 0]
  <2>1. w \in Thread
    <3>1. "status" \in Pcs /\ 0 \in Nat
      BY DEF Pcs
    <3>2. QED
      BY <1>1, <3>1, Zenon DEF Thread
  <2>2. /\ w.pc = "status" /\ w.own = thread[t].own /\ w.after = thread[t].after /\ w.ret = thread[t].ret
        /\ w.todo = thread[t].todo /\ w.ord = thread[t].ord /\ w.batch = thread[t].batch /\ w.new = thread[t].new
        /\ w.total = thread[t].total /\ w.vst = thread[t].vst /\ w.cell = thread[t].cell
    BY <1>1 DEF Thread
  <2>3. SetThread(t, w)
    BY <1>7
  <2> HIDE DEF w
  <2>4. ThreadOK(w, used)
    BY <1>1, <2>2 DEF ThreadOK
  <2>5. Moves(t, w, used)
    BY <1>1, <1>2, <2>1, <2>2, <2>3, <2>4 DEF Moves
  <2>6. Base' /\ thread'[t] = w /\ \A u \in Threads \ {t} : thread'[u] = thread[u]
    BY <1>6, <2>5, StateTyped, BaseQuiet
  <2>7. Carries(t)
    BY <2>2, <2>6 DEF Carries
  <2>8. QED
    BY <1>1, <1>2, <1>6, <2>2, <2>6, <2>7
<1>8. CASE SetThread(t, [thread[t] EXCEPT !.pc = "cancel", !.after = "place", !.todo = S,
                           !.ret = "status", !.cell = c])
  <2> DEFINE w == [thread[t] EXCEPT !.pc = "cancel", !.after = "place", !.todo = S,
                     !.ret = "status", !.cell = c]
  <2>1. w \in Thread
    <3>1. "cancel" \in Pcs /\ "place" \in Afters /\ "status" \in Returns /\ c \in Cells \cup {NoCell}
      BY DEF Pcs, Afters, Returns
    <3>2. QED
      BY <1>1, <1>5, <3>1, Zenon DEF Thread
  <2>2. /\ w.pc = "cancel" /\ w.own = thread[t].own /\ w.after = "place" /\ w.ret = "status"
        /\ w.todo = S /\ w.ord = thread[t].ord /\ w.batch = thread[t].batch /\ w.new = thread[t].new
        /\ w.total = thread[t].total /\ w.vst = thread[t].vst /\ w.cell = c
    BY <1>1 DEF Thread
  <2>3. SetThread(t, w)
    BY <1>8
  <2> HIDE DEF w
  <2>4. ThreadOK(w, used)
    BY <1>1, <1>5, <2>2 DEF ThreadOK
  <2>5. Moves(t, w, used)
    BY <1>1, <1>2, <2>1, <2>2, <2>3, <2>4 DEF Moves
  <2>6. Base' /\ thread'[t] = w /\ \A u \in Threads \ {t} : thread'[u] = thread[u]
    BY <1>6, <2>5, StateTyped, BaseQuiet
  <2>7. Carries(t)
    BY <2>2, <2>6 DEF Carries
  <2>8. QED
    BY <1>1, <1>6, <2>2, <2>6, <2>7
<1>9. QED
  BY <1>6, <1>7, <1>8

\* The thread of a handler writes the row of its order.
LEMMA BaseStored ==
  ASSUME Base, NEW t \in Threads, NEW w, Moves(t, w, used), NEW o \in Orders, o <= used, NEW r \in Row,
         row' = [row EXCEPT ![o] = r],
         UNCHANGED <<venue, used, cell, posted, active, running, wanted, paused, seeded>>, faults' \subseteq Faults
  PROVE /\ Base' /\ thread'[t] = w /\ \A u \in Threads \ {t} : thread'[u] = thread[u]
        /\ row'[o] = r /\ \A x \in Orders \ {o} : row'[x] = row[x]
<1>1. row' \in [Orders -> Row] /\ row'[o] = r /\ \A x \in Orders \ {o} : row'[x] = row[x]
  BY StateTyped
<1>2. \A x \in Orders : used < x => row'[x] = row[x]
  BY <1>1, StateTyped, OrdersAre
<1>3. Base' /\ thread'[t] = w /\ \A u \in Threads \ {t} : thread'[u] = thread[u]
  BY <1>1, <1>2, StateTyped, BaseRows
<1>4. QED
  BY <1>1, <1>3

LEMMA StorePollStep ==
  ASSUME Base, NEW t \in Threads, StorePoll(t)
  PROVE /\ Base' /\ UNCHANGED <<venue, posted, faults>>
        /\ thread[t].pc = "status" /\ thread'[t].after = "idle" /\ thread[t].ord \in Orders
        /\ row'[thread[t].ord].obs = thread[t].total /\ row'[thread[t].ord].done = thread[t].total
        /\ thread[t].vst = "open" => row'[thread[t].ord].st \in {"open", "partial"}
        /\ \A x \in Orders \ {thread[t].ord} : row'[x] = row[x]
        /\ \A u \in Threads \ {t} : thread'[u] = thread[u]
        /\ \/ Ends(t)
           \/ /\ thread'[t].pc = "held" /\ thread'[t].ord = thread[t].ord /\ thread'[t].batch = thread[t].batch
              /\ thread'[t].total = thread[t].total /\ thread'[t].vst = thread[t].vst
<1>1. /\ thread[t] \in Thread /\ ThreadOK(thread[t], used) /\ used \in Nat /\ thread[t].pc = "status"
      /\ t = "poller" => thread[t].after # "sweep"
      /\ t = "stopper" => thread[t].ord = 0
      /\ thread[t].ord # 0 => thread[t].ord \in Orders /\ venue[thread[t].ord].cell \in Cells
  BY ThreadFacts DEF StorePoll
<1>2. /\ thread[t].ord # 0 /\ thread[t].ord \in Orders /\ thread[t].ord <= used /\ thread[t].after = "idle" /\ Polling(t)
      /\ thread[t].total \in Nat /\ thread[t].vst \in OrderStates
  BY <1>1 DEF ThreadOK, Polling, Thread
<1>3. PICK o \in Orders : o = thread[t].ord /\ o <= used
  BY <1>2
<1>4. PICK r : r = PolledRow(row[o], thread[t])
  OBVIOUS
<1>5. /\ r \in Row /\ r.obs = thread[t].total /\ r.done = thread[t].total
      /\ (thread[t].vst = "open" => r.st \in {"open", "partial"})
  BY <1>2, <1>4 DEF PolledRow, Row, OrderStates
<1>6. /\ row' = [row EXCEPT ![o] = r]
      /\ UNCHANGED <<venue, used, cell, posted, active, running, wanted, paused, seeded, faults>>
      /\ \/ SetThread(t, [thread[t] EXCEPT !.pc = "held", !.cells = HeldCells])
         \/ SetThread(t, GoOn(thread[t].batch))
  BY <1>3, <1>4 DEF StorePoll, life
<1>7. CASE SetThread(t, GoOn(thread[t].batch))
  <2>2. PICK w : w = GoOn(thread[t].batch)
    OBVIOUS
  <2>3. /\ Moves(t, w, used)
        /\ w.ord = 0 /\ w.batch = thread[t].batch /\ w.after = "idle" /\ w.ret = "idle"
        /\ w.pc \in {"idle", "query"}
    BY <1>2, <1>7, <2>2, GoOnMoves
  <2>4. /\ Base' /\ thread'[t] = w /\ \A u \in Threads \ {t} : thread'[u] = thread[u]
        /\ row'[o] = r /\ \A x \in Orders \ {o} : row'[x] = row[x]
    BY <1>3, <1>5, <1>6, <2>3, StateTyped, BaseStored
  <2>5. Ends(t)
    BY <1>2, <2>3, <2>4 DEF Ends
  <2>6. QED
    BY <1>1, <1>2, <1>3, <1>5, <1>6, <2>3, <2>4, <2>5
<1>8. CASE SetThread(t, [thread[t] EXCEPT !.pc = "held", !.cells = HeldCells])
  <2>1. PICK cs \in SUBSET (Cells \X Nat) : cs = HeldCells
    BY CellsTyped
  <2> DEFINE w == [thread[t] EXCEPT !.pc = "held", !.cells = cs]
  <2>2. w \in Thread
    <3>1. "held" \in Pcs
      BY DEF Pcs
    <3>2. QED
      BY <1>1, <3>1, Zenon DEF Thread
  <2>3. /\ w.pc = "held" /\ w.own = thread[t].own /\ w.after = thread[t].after /\ w.ret = thread[t].ret
        /\ w.todo = thread[t].todo /\ w.ord = thread[t].ord /\ w.batch = thread[t].batch /\ w.new = thread[t].new
        /\ w.total = thread[t].total /\ w.vst = thread[t].vst /\ w.cell = thread[t].cell
    BY <1>1 DEF Thread
  <2>4. SetThread(t, w)
    BY <1>8, <2>1
  <2> HIDE DEF w
  <2>5. ThreadOK(w, used)
    BY <1>1, <2>3 DEF ThreadOK
  <2>6. Moves(t, w, used)
    BY <1>1, <1>2, <2>2, <2>3, <2>4, <2>5 DEF Moves
  <2>7. /\ Base' /\ thread'[t] = w /\ \A u \in Threads \ {t} : thread'[u] = thread[u]
        /\ row'[o] = r /\ \A x \in Orders \ {o} : row'[x] = row[x]
    BY <1>3, <1>5, <1>6, <2>6, StateTyped, BaseStored
  <2>8. QED
    BY <1>1, <1>2, <1>3, <1>5, <1>6, <2>3, <2>7
<1>9. QED
  BY <1>6, <1>7, <1>8

LEMMA PollRaisesStep ==
  ASSUME Base, NEW t \in Threads, PollRaises(t)
  PROVE /\ Base' /\ UNCHANGED <<venue, posted>> /\ faults \subseteq faults' /\ "raise" \in faults'
        /\ thread[t].pc \in {"cell", "cover"} /\ Ends(t) /\ thread[t].ord \in Orders
        /\ row'[thread[t].ord].st = "partial"
        /\ \A x \in Orders \ {thread[t].ord} : row'[x] = row[x]
<1>1. /\ thread[t] \in Thread /\ ThreadOK(thread[t], used) /\ used \in Nat /\ thread[t].pc \in {"cell", "cover"}
      /\ thread[t].ord # 0 => thread[t].ord \in Orders /\ venue[thread[t].ord].cell \in Cells
  BY ThreadFacts DEF PollRaises
<1>2. /\ thread[t].ord # 0 /\ thread[t].ord \in Orders /\ thread[t].ord <= used /\ Polling(t)
      /\ thread[t].total \in Nat
  BY <1>1 DEF ThreadOK, Polling, Thread
<1>3. PICK o \in Orders : o = thread[t].ord /\ o <= used
  BY <1>2
<1> DEFINE r == [row[o] EXCEPT !.st = "partial", !.obs = thread[t].total]
<1>4. r \in Row /\ r.st = "partial"
  BY <1>2, StateTyped DEF Row
<1>5. /\ row' = [row EXCEPT ![o] = r] /\ Fault("raise") /\ SetThread(t, GoOn(thread[t].batch))
      /\ UNCHANGED <<venue, used, cell, posted, active, running, wanted, paused, seeded>>
  BY <1>3 DEF PollRaises, life
<1> HIDE DEF r
<1>6. faults \subseteq faults' /\ faults' \subseteq Faults /\ "raise" \in faults'
  BY <1>5, FaultTyped DEF Fault
<1>7. PICK w : w = GoOn(thread[t].batch)
  OBVIOUS
<1>8. /\ Moves(t, w, used)
      /\ w.ord = 0 /\ w.batch = thread[t].batch /\ w.after = "idle" /\ w.ret = "idle"
      /\ w.pc \in {"idle", "query"}
  BY <1>2, <1>5, <1>7, GoOnMoves
<1>9. /\ Base' /\ thread'[t] = w /\ \A u \in Threads \ {t} : thread'[u] = thread[u]
      /\ row'[o] = r /\ \A x \in Orders \ {o} : row'[x] = row[x]
  BY <1>3, <1>4, <1>5, <1>6, <1>8, BaseStored
<1>10. Ends(t)
  BY <1>2, <1>8, <1>9 DEF Ends
<1>11. QED
  BY <1>1, <1>2, <1>3, <1>4, <1>5, <1>6, <1>9, <1>10

LEMMA SweepStep ==
  ASSUME Base, NEW t \in Threads, SweepRows(t)
  PROVE /\ Base' /\ Carries(t) /\ RowsKept /\ UNCHANGED <<venue, posted, faults>>
        /\ thread[t].pc = "sweep" /\ thread'[t].pc = "release" /\ thread[t].after = "sweep"
<1>1. /\ thread[t] \in Thread /\ ThreadOK(thread[t], used) /\ used \in Nat /\ thread[t].pc = "sweep"
      /\ t = "poller" => thread[t].after # "sweep"
      /\ t = "stopper" => thread[t].ord = 0
  BY ThreadFacts DEF SweepRows
<1> DEFINE w == [thread[t] EXCEPT !.pc = "release"]
<1>2. /\ SetThread(t, w)
      /\ row' = [o \in Orders |-> IF Open(o) THEN [row[o] EXCEPT !.st = "cancelled"] ELSE row[o]]
      /\ UNCHANGED <<venue, used, cell, posted, active, running, wanted, paused, seeded, faults>>
  BY <1>1 DEF SweepRows, Goto, SetThread, life, Base, ThreadInv
<1>3. \A o \in Orders : /\ row[o] \in Row /\ [row[o] EXCEPT !.st = "cancelled"] \in Row
                        /\ [row[o] EXCEPT !.st = "cancelled"].obs = row[o].obs
                        /\ [row[o] EXCEPT !.st = "cancelled"].done = row[o].done
  BY StateTyped DEF Row
<1>4. row' \in [Orders -> Row] /\ RowsKept
  BY <1>2, <1>3 DEF RowsKept
<1>5. \A o \in Orders : used < o => row'[o] = row[o]
  <2> TAKE o \in Orders
  <2> HAVE used < o
  <2>1. ~(o <= used)
    BY <1>1, OrdersAre
  <2>2. ~Open(o)
    BY <2>1, PlacedRows
  <2>3. QED
    BY <1>2, <2>2
<1>6. w \in Thread /\ w.pc = "release" /\ w.own = thread[t].own /\ w.after = thread[t].after /\ w.ret = thread[t].ret
      /\ w.todo = thread[t].todo /\ w.ord = thread[t].ord /\ w.batch = thread[t].batch /\ w.new = thread[t].new
      /\ w.total = thread[t].total /\ w.vst = thread[t].vst /\ w.cell = thread[t].cell
  <2>1. "release" \in Pcs
    BY DEF Pcs
  <2>2. QED
    BY <1>1, <2>1 DEF Thread
<1> HIDE DEF w
<1>7. ThreadOK(w, used) /\ thread[t].after = "sweep" /\ thread[t].ord = 0
  BY <1>1, <1>6 DEF ThreadOK
<1>8. Moves(t, w, used)
  BY <1>1, <1>2, <1>6, <1>7 DEF Moves
<1>9. Base' /\ thread'[t] = w /\ \A u \in Threads \ {t} : thread'[u] = thread[u]
  BY <1>2, <1>4, <1>5, <1>8, StateTyped, BaseRows
<1>10. Carries(t)
  BY <1>6, <1>7, <1>9 DEF Carries
<1>11. QED
  BY <1>1, <1>2, <1>4, <1>6, <1>7, <1>9, <1>10

LEMMA ReleaseStep ==
  ASSUME Base, NEW t \in Threads, ReleaseCells(t)
  PROVE /\ Base' /\ Carries(t) /\ UNCHANGED <<row, venue, posted, faults>>
        /\ thread[t].pc = "release" /\ thread'[t] = Idle /\ thread[t].after = "sweep" /\ thread[t].ord = 0
<1>1. /\ thread[t] \in Thread /\ ThreadOK(thread[t], used) /\ used \in Nat /\ thread[t].pc = "release"
  BY ThreadFacts DEF ReleaseCells
<1>2. /\ SetThread(t, Idle)
      /\ cell' = [c \in Cells |-> IF cell[c].st = "buyOpen" THEN EmptyCell ELSE cell[c]]
      /\ active' \in BOOLEAN /\ wanted' \in BOOLEAN
      /\ UNCHANGED <<row, venue, used, posted, paused, seeded, faults>>
  BY DEF ReleaseCells
<1>3. running' \in BOOLEAN
  BY Zenon DEF ReleaseCells
<1>4. cell' \in [Cells -> Cell]
  BY <1>2, StateTyped, NullsTyped
<1>5. Moves(t, Idle, used)
  BY <1>1, <1>2, NullsTyped, IdleOK DEF Moves
<1>6. Base' /\ thread'[t] = Idle /\ \A u \in Threads \ {t} : thread'[u] = thread[u]
  <2>1. row' \in [Orders -> Row] /\ (\A o \in Orders : used < o => row'[o] = row[o])
        /\ posted' \in [Orders -> Nat] /\ UNCHANGED <<used, venue>> /\ faults' \subseteq Faults
        /\ paused' \in BOOLEAN /\ seeded' \subseteq Cells
    BY <1>2, StateTyped
  <2>2. QED
    BY <1>2, <1>3, <1>4, <1>5, <2>1, BaseRows
<1>7. thread[t].after = "sweep" /\ thread[t].ord = 0 /\ thread[t].batch = {}
  BY <1>1 DEF ThreadOK
<1>8. Carries(t)
  BY <1>6, <1>7, NullsTyped DEF Carries
<1>9. QED
  BY <1>1, <1>2, <1>6, <1>7, <1>8

\* A thread that is idle begins to cancel a list of orders.
Starts(t, a, S) ==
  /\ \A u \in Threads \ {t} : thread'[u] = thread[u]
  /\ thread[t].pc = "idle" /\ thread'[t].pc = "cancel" /\ thread'[t].after = a /\ thread'[t].todo = S
  /\ thread'[t].ord = 0

Fresh(w, a, S) ==
  /\ w \in Thread /\ w.pc = "cancel" /\ w.after = a /\ w.todo = S /\ w.ord = 0 /\ w.batch = {} /\ w.ret = "idle"

LEMMA FreshList ==
  ASSUME NEW a \in Afters, NEW S \in SUBSET Orders, NEW l \in Int
  PROVE /\ Fresh([Idle EXCEPT !.pc = "cancel", !.after = a, !.todo = S, !.left = l], a, S)
        /\ Fresh([Idle EXCEPT !.pc = "cancel", !.after = a, !.todo = S], a, S)
        /\ Fresh([Idle EXCEPT !.pc = "cancel", !.todo = S], "idle", S)
<1> DEFINE w1 == [Idle EXCEPT !.pc = "cancel", !.after = a, !.todo = S, !.left = l]
           w2 == [Idle EXCEPT !.pc = "cancel", !.after = a, !.todo = S]
           w3 == [Idle EXCEPT !.pc = "cancel", !.todo = S]
<1>1. "cancel" \in Pcs /\ Idle \in Thread
  BY NullsTyped DEF Pcs
<1>2. w1 \in Thread
  BY <1>1, Zenon DEF Thread
<1>3. w2 \in Thread
  BY <1>1, Zenon DEF Thread
<1>4. w3 \in Thread
  BY <1>1, Zenon DEF Thread
<1>5. w1.pc = "cancel" /\ w1.after = a /\ w1.todo = S /\ w1.ord = 0 /\ w1.batch = {} /\ w1.ret = "idle"
  BY <1>1, NullsTyped DEF Thread
<1>6. w2.pc = "cancel" /\ w2.after = a /\ w2.todo = S /\ w2.ord = 0 /\ w2.batch = {} /\ w2.ret = "idle"
  BY <1>1, NullsTyped DEF Thread
<1>7. w3.pc = "cancel" /\ w3.after = "idle" /\ w3.todo = S /\ w3.ord = 0 /\ w3.batch = {} /\ w3.ret = "idle"
  BY <1>1, NullsTyped DEF Thread
<1> HIDE DEF w1, w2, w3
<1>8. Fresh(w1, a, S) /\ Fresh(w2, a, S) /\ Fresh(w3, "idle", S)
  BY <1>2, <1>3, <1>4, <1>5, <1>6, <1>7 DEF Fresh
<1>9. QED
  BY <1>8 DEF w1, w2, w3

LEMMA StartMoves ==
  ASSUME Base, NEW t \in Threads, NEW a, a # "place", NEW S, S \subseteq Orders, \A o \in S : o <= used,
         NEW w, Fresh(w, a, S), SetThread(t, w),
         thread[t].pc = "idle", t = "poller" => a # "sweep",
         UNCHANGED <<row, venue, used, cell, posted, active, running, wanted, paused, seeded>>, faults' \subseteq Faults
  PROVE Base' /\ Carries(t) /\ Starts(t, a, S)
<1>1. w \in Thread
  BY DEF Fresh
<1>2. /\ w.pc = "cancel" /\ w.after = a /\ w.todo = S /\ w.ord = 0 /\ w.batch = {} /\ w.ret = "idle"
  BY DEF Fresh
<1>4. ThreadOK(w, used)
  <2>1. used \in Nat /\ 0 <= used
    BY StateTyped
  <2>2. QED
    BY <1>2, <2>1 DEF ThreadOK
<1>5. Moves(t, w, used)
  BY <1>1, <1>2, <1>4 DEF Moves
<1>6. Base' /\ thread'[t] = w /\ \A u \in Threads \ {t} : thread'[u] = thread[u]
  BY <1>5, StateTyped, BaseQuiet
<1>7. thread[t].ord = 0 /\ thread[t].batch = {}
  BY ThreadFacts DEF ThreadOK
<1>8. Carries(t) /\ Starts(t, a, S)
  BY <1>2, <1>6, <1>7 DEF Carries, Starts
<1>9. QED
  BY <1>6, <1>8

LEMMA DuplicatesOpen ==
  ASSUME Base, NEW buy \in BOOLEAN
  PROVE Duplicates(buy) \subseteq Orders /\ \A o \in Duplicates(buy) : o <= used
<1>1. \A c \in Cells : OpenOf(c, buy) \subseteq {o \in Orders : Open(o)}
  BY DEF OpenOf
<1>2. Duplicates(buy) \subseteq {o \in Orders : Open(o)}
  BY <1>1 DEF Duplicates
<1>3. QED
  BY <1>2, PlacedRows

\* A pass of the runner begins; it does not while the strategy is being stopped.
Passes(S) ==
  /\ \E a \in Afters \ {"sweep", "place"} : Starts("runner", a, S)
  /\ ShuttingDown => "late" \in faults'

LEMMA BeginStep ==
  ASSUME Base, HandleBoundary \/ SyncExitCoverage \/ SyncGridOrders \/ WithdrawOrders
  PROVE /\ Base' /\ Carries("runner") /\ UNCHANGED <<row, venue, posted>> /\ faults \subseteq faults'
        /\ \E S : Passes(S)
<1>1. \E w, a, S, kinds :
        /\ a \in Afters \ {"sweep", "place"} /\ S \in SUBSET Orders
        /\ Begin(w, kinds) /\ Fresh(w, a, S) /\ \A o \in S : o <= used
  <2>1. CASE HandleBoundary
    <3>1. PICK S \in SUBSET Orders : S = {o \in Orders : Open(o) /\ venue[o].buy}
      OBVIOUS
    <3>2. PICK w : w = [Idle EXCEPT !.pc = "cancel", !.after = "pause", !.todo = S]
      OBVIOUS
    <3>3. Begin(w, {"boundary"})
      BY <2>1, <3>1, <3>2 DEF HandleBoundary
    <3>4. "pause" \in Afters \ {"sweep", "place"} /\ 0 \in Int
      BY DEF Afters
    <3>5. Fresh(w, "pause", S)
      BY <3>2, <3>4, FreshList
    <3>6. \A o \in S : o <= used
      BY <3>1, PlacedRows
    <3>7. QED
      BY <3>3, <3>4, <3>5, <3>6
  <2>2. CASE SyncExitCoverage
    <3>1. PICK S \in SUBSET Orders : S = Duplicates(FALSE) /\ \A o \in S : o <= used
      BY DuplicatesOpen
    <3>2. PICK w : w = [Idle EXCEPT !.pc = "cancel", !.after = "held", !.todo = S, !.left = Position]
      OBVIOUS
    <3>3. Begin(w, {})
      BY <2>2, <3>1, <3>2 DEF SyncExitCoverage
    <3>4. "held" \in Afters \ {"sweep", "place"} /\ Position \in Int
      BY QuantitiesTyped DEF Afters
    <3>5. Fresh(w, "held", S)
      BY <3>2, <3>4, FreshList
    <3>6. QED
      BY <3>1, <3>3, <3>4, <3>5
  <2>3. CASE SyncGridOrders
    <3>1. PICK S \in SUBSET Orders : S = Duplicates(TRUE) /\ \A o \in S : o <= used
      BY DuplicatesOpen
    <3>2. PICK w : w = [Idle EXCEPT !.pc = "cancel", !.after = "enter", !.todo = S]
      OBVIOUS
    <3>3. Begin(w, {})
      BY <2>3, <3>1, <3>2 DEF SyncGridOrders
    <3>4. "enter" \in Afters \ {"sweep", "place"} /\ 0 \in Int
      BY DEF Afters
    <3>5. Fresh(w, "enter", S)
      BY <3>2, <3>4, FreshList
    <3>6. QED
      BY <3>1, <3>3, <3>4, <3>5
  <2>4. CASE WithdrawOrders
    <3>0. PICK exits \in BOOLEAN :
            Begin([Idle EXCEPT !.pc = "cancel",
                               !.todo = {o \in Orders : Open(o) /\ (venue[o].buy \/ exits)}], {"ownership"})
      BY <2>4, Zenon DEF WithdrawOrders
    <3>1. PICK S \in SUBSET Orders : S = {o \in Orders : Open(o) /\ (venue[o].buy \/ exits)}
      OBVIOUS
    <3>2. PICK w : w = [Idle EXCEPT !.pc = "cancel", !.todo = S]
      OBVIOUS
    <3>3. Begin(w, {"ownership"})
      BY <3>0, <3>1, <3>2
    <3>4. "idle" \in Afters \ {"sweep", "place"} /\ 0 \in Int
      BY DEF Afters
    <3>5. Fresh(w, "idle", S)
      BY <3>2, <3>4, FreshList
    <3>6. \A o \in S : o <= used
      BY <3>1, PlacedRows
    <3>7. QED
      BY <3>3, <3>4, <3>5, <3>6
  <2>5. QED
    BY <2>1, <2>2, <2>3, <2>4
<1>2. PICK w, a, S, kinds :
        /\ a \in Afters \ {"sweep", "place"} /\ S \in SUBSET Orders
        /\ Begin(w, kinds) /\ Fresh(w, a, S) /\ \A o \in S : o <= used
  BY <1>1
<1>3. /\ thread["runner"].pc = "idle" /\ Disturb(kinds \cup When(ShuttingDown, "late"))
      /\ SetThread("runner", w)
      /\ UNCHANGED <<row, venue, used, cell, posted, active, running, wanted, paused, seeded>>
  BY <1>2 DEF Begin, RunnerIdle, life
<1>4. /\ faults \subseteq faults' /\ faults' \subseteq Faults
      /\ ShuttingDown => "late" \in faults'
  BY <1>3, FaultTyped DEF When
<1>5. "runner" \in Threads /\ "runner" # "poller"
  BY ThreadsAre
<1>6. Base' /\ Carries("runner") /\ Starts("runner", a, S)
  BY <1>2, <1>3, <1>4, <1>5, StartMoves
<1>7. QED
  BY <1>2, <1>3, <1>4, <1>6 DEF Passes

\* A stop begins with the list of the open rows; it is alone, or it is late.
LEMMA ShutdownStep ==
  ASSUME Base, NEW t \in Threads, Shutdown(t)
  PROVE /\ Base' /\ Carries(t) /\ UNCHANGED <<row, venue, posted>> /\ faults \subseteq faults'
        /\ Starts(t, "sweep", {o \in Orders : Open(o)})
        /\ "late" \in faults' \/ \A u \in Threads : thread[u].pc = "idle"
<1>1. PICK S \in SUBSET Orders : S = {o \in Orders : Open(o)}
  OBVIOUS
<1>2. PICK kinds : /\ Disturb(kinds) /\ \/ "late" \in kinds
                                        \/ \A u \in Threads : thread[u].pc = "idle"
  BY DEF Shutdown, When
<1>3. PICK w : w = [Idle EXCEPT !.pc = "cancel", !.after = "sweep", !.todo = S]
  OBVIOUS
<1>4. /\ thread[t].pc = "idle" /\ t # "poller" /\ SetThread(t, w)
      /\ UNCHANGED <<row, venue, used, cell, posted, active, running, wanted, paused, seeded>>
  BY <1>1, <1>3, ThreadsAre DEF Shutdown, life
<1>5. faults \subseteq faults' /\ faults' \subseteq Faults /\ kinds \subseteq faults'
  BY <1>2, FaultTyped
<1>6. "sweep" \in Afters /\ (\A o \in S : o <= used) /\ 0 \in Int
  BY <1>1, PlacedRows DEF Afters
<1>7. Fresh(w, "sweep", S)
  BY <1>3, <1>6, FreshList
<1>8. Base' /\ Carries(t) /\ Starts(t, "sweep", S)
  BY <1>4, <1>5, <1>6, <1>7, StartMoves
<1>9. QED
  BY <1>1, <1>2, <1>4, <1>5, <1>8

LEMMA PauseStep ==
  ASSUME Base, PauseEntries
  PROVE /\ Base' /\ Carries("runner") /\ UNCHANGED <<row, venue, posted, faults>>
        /\ thread["runner"].pc = "pause" /\ thread'["runner"] = Idle /\ thread["runner"].ord = 0
<1>1. /\ "runner" \in Threads /\ thread["runner"] \in Thread /\ ThreadOK(thread["runner"], used)
      /\ used \in Nat /\ thread["runner"].pc = "pause"
  BY ThreadFacts, ThreadsAre DEF PauseEntries
<1>2. /\ SetThread("runner", Idle) /\ paused' = TRUE
      /\ UNCHANGED <<row, venue, used, cell, posted, active, running, wanted, seeded, faults>>
  BY DEF PauseEntries, life
<1>3. Moves("runner", Idle, used)
  BY <1>1, <1>2, NullsTyped, IdleOK DEF Moves
<1>4. Base' /\ thread'["runner"] = Idle /\ \A u \in Threads \ {"runner"} : thread'[u] = thread[u]
  BY <1>1, <1>2, <1>3, StateTyped, BaseRows
<1>5. thread["runner"].ord = 0 /\ thread["runner"].batch = {}
  BY <1>1 DEF ThreadOK
<1>6. Carries("runner")
  BY <1>4, <1>5, NullsTyped DEF Carries
<1>7. QED
  BY <1>1, <1>2, <1>4, <1>5, <1>6

-----------------------------------------------------------------------------
(* Polls that begin, the venue and the process *)

\* An idle thread begins to poll these rows.
Lists(t, S) ==
  /\ \A u \in Threads \ {t} : thread'[u] = thread[u]
  /\ thread[t].pc = "idle" /\ thread'[t].pc \in {"idle", "query"} /\ thread'[t].ord = 0
  /\ thread'[t].batch = Batch(S) /\ thread'[t].after = "idle" /\ thread'[t].ret = "idle"

LEMMA BatchTyped ==
  ASSUME Base, NEW S, S \subseteq Orders, \A o \in S : o <= used
  PROVE /\ Batch(S) \subseteq [id : Orders, done : Nat, obs : Nat]
        /\ \A x \in Batch(S) : /\ x.id \in S /\ x.id <= used /\ x.done = row[x.id].done /\ x.obs = row[x.id].obs
                               /\ \A y \in Batch(S) : x.id = y.id => x = y
<1>1. \A o \in S : row[o].done \in Nat /\ row[o].obs \in Nat
  BY StateTyped DEF Row
<1>2. QED
  BY <1>1 DEF Batch

LEMMA ListMoves ==
  ASSUME Base, NEW t \in Threads, t # "stopper", NEW S, S \subseteq Orders, \A o \in S : o <= used,
         SetThread(t, GoOn(Batch(S))), thread[t].pc = "idle", active' \in BOOLEAN,
         UNCHANGED <<row, venue, used, cell, posted, running, wanted, paused, seeded>>, faults' \subseteq Faults
  PROVE Base' /\ Lists(t, S)
<1>1. PICK b : b = Batch(S)
  OBVIOUS
<1>2. b \subseteq [id : Orders, done : Nat, obs : Nat] /\ (\A x \in b : x.id <= used) /\ used \in Nat
  BY <1>1, BatchTyped, StateTyped
<1>3. PICK w : w = GoOn(b)
  OBVIOUS
<1>4. /\ w \in Thread /\ ThreadOK(w, used)
      /\ w.ord = 0 /\ w.batch = b /\ w.after = "idle" /\ w.ret = "idle" /\ w.pc \in {"idle", "query"}
  BY <1>2, <1>3, GoOnOK
<1>5. Moves(t, w, used)
  BY <1>1, <1>3, <1>4 DEF Moves
<1>6. Base' /\ thread'[t] = w /\ \A u \in Threads \ {t} : thread'[u] = thread[u]
  BY <1>5, StateTyped, BaseRows
<1>7. QED
  BY <1>1, <1>4, <1>6 DEF Lists

LEMMA PollListStep ==
  ASSUME Base, PollList
  PROVE /\ Base' /\ UNCHANGED <<row, venue, posted>> /\ faults \subseteq faults'
        /\ Lists("poller", {o \in Orders : Open(o)})
        /\ ShuttingDown => "late" \in faults'
        /\ Polling("runner") => "overlap" \in faults'
<1>1. PICK S : S = {o \in Orders : Open(o)}
  OBVIOUS
<1>2. S \subseteq Orders /\ \A o \in S : o <= used
  BY <1>1, PlacedRows
<1>3. /\ thread["poller"].pc = "idle" /\ SetThread("poller", GoOn(Batch(S)))
      /\ UNCHANGED <<row, venue, used, cell, posted, active, running, wanted, paused, seeded>>
  BY <1>1 DEF PollList, life
<1>4. Disturb(When(ShuttingDown, "late") \cup When(Polling("runner"), "overlap"))
  BY DEF PollList
<1>5. faults \subseteq faults' /\ faults' \subseteq Faults
      /\ When(ShuttingDown, "late") \cup When(Polling("runner"), "overlap") \subseteq faults'
  BY <1>4, FaultTyped
<1>6. Base' /\ Lists("poller", S)
  BY <1>2, <1>3, <1>5, ThreadsAre, StateTyped, ListMoves
<1>7. QED
  BY <1>1, <1>3, <1>5, <1>6 DEF When

LEMMA RegisterStep ==
  ASSUME Base, Register
  PROVE /\ Base' /\ UNCHANGED <<row, venue, posted>> /\ faults \subseteq faults'
        /\ Lists("runner", {o \in Orders : Open(o) \/ row[o].done < row[o].obs})
        /\ thread["stopper"].pc = "idle"
        /\ Polling("poller") => "overlap" \in faults'
<1>1. PICK S : S = {o \in Orders : Open(o) \/ row[o].done < row[o].obs}
  OBVIOUS
<1>2. S \subseteq Orders /\ \A o \in S : o <= used
  BY <1>1, PlacedRows
<1>3. /\ thread["runner"].pc = "idle" /\ SetThread("runner", GoOn(Batch(S))) /\ active' = TRUE
      /\ thread["stopper"].pc = "idle"
      /\ UNCHANGED <<row, venue, used, cell, posted, running, wanted, paused, seeded>>
  BY <1>1 DEF Register, RunnerIdle
<1>4. Disturb(When(Polling("poller"), "overlap"))
  BY DEF Register
<1>5. faults \subseteq faults' /\ faults' \subseteq Faults /\ When(Polling("poller"), "overlap") \subseteq faults'
  BY <1>4, FaultTyped
<1>6. Base' /\ Lists("runner", S)
  BY <1>2, <1>3, <1>5, ThreadsAre, StateTyped, ListMoves
<1>7. QED
  BY <1>1, <1>3, <1>5, <1>6 DEF When

OrderBecomes(o, v) == venue' = [venue EXCEPT ![o] = v]

LEMMA VenueStep ==
  ASSUME Base, NEW o \in Orders, VenueFills(o) \/ VenueCancels(o)
  PROVE /\ Base' /\ UNCHANGED <<row, posted, thread>> /\ faults \subseteq faults'
        /\ \A x \in Orders : /\ venue[x].fill <= venue'[x].fill
                             /\ venue'[x].st = "open" => venue[x].st = "open"
<1>1. /\ UNCHANGED <<row, used, cell, posted, thread, active, running, wanted, paused, seeded>>
      /\ venue[o].st = "open" /\ faults \subseteq faults' /\ faults' \subseteq Faults
  BY FaultTyped, StateTyped DEF VenueFills, VenueCancels, Fault, life
<1>2. PICK v \in VenueOrder : /\ OrderBecomes(o, v) /\ venue[o].fill <= v.fill
                              /\ v.cell = venue[o].cell /\ v.st # "none"
  <2>1. CASE VenueFills(o)
    <3>1. venue[o] \in VenueOrder /\ venue[o].fill \in Nat
      BY StateTyped DEF VenueOrder
    <3>2. PICK n \in Nat, st \in {"filled", "open"} :
            n = venue[o].fill + 1 /\ st = IF venue[o].fill + 1 = venue[o].qty THEN "filled" ELSE "open"
      BY <3>1
    <3> DEFINE v == [venue[o] EXCEPT !.fill = n, !.st = st]
    <3>3. OrderBecomes(o, v)
      BY <2>1, <3>2 DEF VenueFills, OrderBecomes
    <3>4. v \in VenueOrder /\ v.cell = venue[o].cell /\ v.st # "none" /\ v.fill = n
      BY <3>1 DEF VenueOrder, OrderStates
    <3>5. venue[o].fill <= n
      BY <3>1, <3>2
    <3> HIDE DEF v
    <3>6. QED
      BY <3>3, <3>4, <3>5
  <2>2. CASE VenueCancels(o)
    <3> DEFINE v == [venue[o] EXCEPT !.st = "cancelled"]
    <3>1. OrderBecomes(o, v)
      BY <2>2 DEF VenueCancels, OrderBecomes
    <3>2. venue[o] \in VenueOrder /\ venue[o].fill \in Nat
      BY StateTyped DEF VenueOrder
    <3>3. v \in VenueOrder /\ v.cell = venue[o].cell /\ v.st # "none" /\ v.fill = venue[o].fill
      BY <3>2 DEF VenueOrder, OrderStates
    <3>4. venue[o].fill <= v.fill
      BY <3>2, <3>3
    <3> HIDE DEF v
    <3>5. QED
      BY <3>1, <3>3, <3>4
  <2>3. QED
    BY <2>1, <2>2
<1>3. venue' \in [Orders -> VenueOrder] /\ venue'[o] = v /\ \A x \in Orders \ {o} : venue'[x] = venue[x]
  BY <1>2, StateTyped DEF OrderBecomes
<1>4. \A x \in Orders : /\ venue[x].fill <= venue'[x].fill
                        /\ venue'[x].st = "open" => venue[x].st = "open"
  <2>1. \A x \in Orders : venue[x].fill \in Nat
    BY StateTyped DEF VenueOrder
  <2>2. QED
    BY <1>1, <1>2, <1>3, <2>1
<1>5. o <= used
  BY <1>1, PlacedRows
<1>6. PlacedInv'
  BY <1>1, <1>2, <1>3, <1>5 DEF Base, PlacedInv
<1>7. ThreadInv'
  BY <1>1, Zenon DEF Base, ThreadInv, ThreadOK, Polling
<1>8. GridTypeOK'
  BY <1>1, <1>3 DEF Base, GridTypeOK
<1>9. QED
  BY <1>1, <1>4, <1>6, <1>7, <1>8 DEF Base

\* Starting again changes nothing but the flags.
LEMMA BaseFlags ==
  ASSUME Base, UNCHANGED <<row, venue, used, cell, posted, thread, seeded, faults>>,
         active' \in BOOLEAN, running' \in BOOLEAN, wanted' \in BOOLEAN, paused' \in BOOLEAN
  PROVE Base'
<1>1. PlacedInv'
  BY DEF Base, PlacedInv
<1>2. ThreadInv'
  BY Zenon DEF Base, ThreadInv, ThreadOK, Polling
<1>3. GridTypeOK'
  BY DEF Base, GridTypeOK
<1>4. QED
  BY <1>1, <1>2, <1>3 DEF Base

LEMMA CrashStep ==
  ASSUME Base, Crash
  PROVE /\ Base' /\ "crash" \in faults' /\ faults \subseteq faults'
<1>1. /\ UNCHANGED <<row, venue, used, cell, posted, wanted, paused, seeded>>
      /\ thread' = [t \in Threads |-> Idle] /\ active' = FALSE /\ running' = FALSE
      /\ faults \subseteq faults' /\ faults' \subseteq Faults /\ "crash" \in faults'
  BY FaultTyped DEF Crash, Fault
<1>2. PlacedInv'
  BY <1>1 DEF Base, PlacedInv
<1>3. \A t \in Threads : thread'[t] = Idle
  BY <1>1
<1>4. ThreadInv'
  <2>1. used' \in Nat /\ thread' \in [Threads -> Thread]
    BY <1>1, StateTyped, NullsTyped
  <2>2. \A t \in Threads : ThreadOK(thread'[t], used')
    BY <1>3, <2>1, IdleOK
  <2>3. thread'["poller"].after # "sweep" /\ thread'["stopper"].ord = 0 /\ thread'["stopper"].pc # "query"
    BY <1>3, ThreadsAre, NullsTyped
  <2>4. QED
    BY <2>1, <2>2, <2>3 DEF ThreadInv, Polling
<1>5. \A t \in Threads : thread'[t].pc \in Pcs
  BY <1>3, NullsTyped DEF Thread
<1>6. GridTypeOK'
  BY <1>1, <1>5 DEF Base, GridTypeOK
<1>7. QED
  BY <1>1, <1>2, <1>4, <1>6 DEF Base

-----------------------------------------------------------------------------
(* Types and the numbering of orders *)

LEMMA BaseInit == Init => Base
<1> SUFFICES ASSUME Init PROVE Base
  OBVIOUS
<1>1. NoRow \in Row /\ Unplaced \in VenueOrder /\ EmptyCell \in Cell
  BY DEF NoRow, Row, Unplaced, VenueOrder, OrderStates, EmptyCell, Cell
<1>2. used = 0 /\ \A t \in Threads : thread[t] = Idle
  BY DEF Init
<1>3. GridTypeOK
  <2>1. \A t \in Threads : thread[t].pc \in Pcs
    BY <1>2, NullsTyped DEF Pcs
  <2>2. /\ row \in [Orders -> Row] /\ venue \in [Orders -> VenueOrder] /\ cell \in [Cells -> Cell]
        /\ posted \in [Orders -> Nat] /\ used \in 0 .. MaxOrders
    BY <1>1, OrdersAre DEF Init
  <2>3. QED
    BY <2>1, <2>2 DEF Init, GridTypeOK
<1>4. PlacedInv
  BY <1>2, OrdersAre DEF Init, PlacedInv
<1>5. ThreadInv
  <2>1. thread \in [Threads -> Thread]
    BY NullsTyped DEF Init
  <2>2. \A t \in Threads : ThreadOK(thread[t], used)
    BY <1>2, IdleOK
  <2>3. thread["poller"].after # "sweep" /\ ~Polling("stopper")
    BY <1>2, ThreadsAre, NullsTyped DEF Polling
  <2>4. QED
    BY <2>1, <2>2, <2>3 DEF ThreadInv
<1>6. QED
  BY <1>3, <1>4, <1>5 DEF Base

LEMMA BaseStep == Base /\ [Next]_vars => Base'
<1> SUFFICES ASSUME Base, [Next]_vars PROVE Base'
  OBVIOUS
<1>1. ASSUME NEW t \in Threads, ThreadStep(t) \/ Shutdown(t) PROVE Base'
  BY <1>1, CancelVenueStep, CancelRowStep, CancelsDoneStep, PlaceStep, InsertStep, MarkStep, NextCellStep,
     CellsDoneStep, PollQueryStep, PollDoneStep, PostFillStep, FillCellStep, CoverStep, StorePollStep,
     PollRaisesStep, SweepStep, ReleaseStep, ShutdownStep DEF ThreadStep, Step
<1>2. ASSUME Restart \/ Startup PROVE Base'
  BY <1>2, StateTyped, BaseFlags DEF Restart, Startup
<1>3. CASE UNCHANGED vars
  BY <1>3, StateTyped, BaseFlags DEF vars
<1>4. QED
  BY <1>1, <1>2, <1>3, BeginStep, PauseStep, RegisterStep, PollListStep, VenueStep, CrashStep DEF Next

\* Type correctness (GridTypeOK) for every grid, every bound on orders and every
\* set of disturbances: quantities never go below zero, whatever the venue and
\* the three threads do to the rows and cells (engine.py, poller.py).
THEOREM GridTypeCorrect == Spec => []GridTypeOK
<1>1. Base => GridTypeOK
  BY DEF Base
<1>2. QED
  BY BaseInit, BaseStep, <1>1, PTL DEF Spec

-----------------------------------------------------------------------------
(* Fills are posted once *)

FillsGrow == \A o \in Orders : venue[o].fill <= venue'[o].fill

LEMMA FillsTyped ==
  ASSUME Base
  PROVE \A o \in Orders : /\ venue[o].fill \in Nat /\ row[o].obs \in Nat /\ row[o].done \in Nat /\ posted[o] \in Nat
                          /\ row[o].st \in {"none", "open", "partial", "filled", "cancelled"}
BY StateTyped DEF VenueOrder, Row

LEMMA FillsTypedNext ==
  ASSUME Base'
  PROVE \A o \in Orders : /\ venue'[o].fill \in Nat /\ row'[o].obs \in Nat /\ row'[o].done \in Nat /\ posted'[o] \in Nat
BY DEF Base, GridTypeOK, VenueOrder, Row

LEMMA PollTyped ==
  ASSUME Base, NEW u \in Threads
  PROVE /\ thread[u].total \in Nat /\ thread[u].new \in Int /\ thread[u].ord \in {0} \cup Orders
        /\ \A x \in thread[u].batch : x.id \in Orders /\ x.done \in Nat /\ x.obs \in Nat
BY ThreadFacts DEF Thread

\* A poll that keeps what it read, or part of it, stays right.
LEMMA PollKept ==
  ASSUME Base, Base', NEW u \in Threads, PollOK(u), FillsGrow,
         thread'[u].batch \subseteq thread[u].batch, thread'[u].ord \in {0, thread[u].ord},
         \A x \in thread'[u].batch : row'[x.id].done = row[x.id].done,
         thread'[u].ord # 0 =>
           /\ thread'[u].total = thread[u].total /\ row'[thread[u].ord].done = row[thread[u].ord].done
           /\ posted'[thread[u].ord] = posted[thread[u].ord]
           /\ thread'[u].pc # "post" \/ (thread'[u].pc = thread[u].pc /\ thread'[u].new = thread[u].new)
           /\ thread'[u].pc = "held" \/ thread'[u].ret = "held" => thread[u].pc = "held" \/ thread[u].ret = "held"
  PROVE PollOK(u)'
<1>1. /\ thread[u].total \in Nat /\ thread[u].new \in Int /\ thread[u].ord \in {0} \cup Orders
      /\ \A x \in thread[u].batch : x.id \in Orders /\ x.done \in Nat /\ x.obs \in Nat
  BY PollTyped
<1>2. ASSUME NEW x \in thread'[u].batch
      PROVE /\ x.done = row'[x.id].done /\ x.obs <= venue'[x.id].fill
            /\ x.id # thread'[u].ord /\ \A y \in thread'[u].batch : x.id = y.id => x = y
  <2>1. x \in thread[u].batch /\ x.id \in Orders /\ x.obs \in Nat /\ x.id # 0
    BY <1>1, <1>2, OrdersAre
  <2>2. /\ x.done = row[x.id].done /\ x.obs <= venue[x.id].fill
        /\ x.id # thread[u].ord /\ \A y \in thread[u].batch : x.id = y.id => x = y
    BY <2>1 DEF PollOK
  <2>3. x.obs <= venue'[x.id].fill
    <3>1. venue[x.id].fill \in Nat /\ venue'[x.id].fill \in Nat /\ venue[x.id].fill <= venue'[x.id].fill
      BY <2>1, FillsTyped, FillsTypedNext DEF FillsGrow
    <3>2. QED
      BY <2>1, <2>2, <3>1
  <2>4. QED
    BY <1>2, <2>1, <2>2, <2>3
<1>3. CASE thread'[u].ord = 0
  BY <1>2, <1>3 DEF PollOK
<1>4. CASE thread'[u].ord # 0
  <2>1. PICK o \in Orders : o = thread[u].ord /\ o = thread'[u].ord
    BY <1>1, <1>4
  <2>2. /\ row[o].done <= thread[u].total /\ posted[o] <= thread[u].total /\ thread[u].total <= venue[o].fill
        /\ thread[u].pc = "post" => posted[o] <= row[o].done /\ thread[u].new = thread[u].total - row[o].done
        /\ thread[u].pc = "held" \/ thread[u].ret = "held" => row[o].done = thread[u].total
    BY <1>4, <2>1 DEF PollOK
  <2>3. venue[o].fill \in Nat /\ venue'[o].fill \in Nat /\ venue[o].fill <= venue'[o].fill
    BY FillsTyped, FillsTypedNext DEF FillsGrow
  <2>4. thread[u].total <= venue'[o].fill
    BY <1>1, <2>2, <2>3
  <2>5. /\ row'[o].done = row[o].done /\ posted'[o] = posted[o] /\ thread'[u].total = thread[u].total
        /\ thread'[u].pc # "post" \/ (thread'[u].pc = thread[u].pc /\ thread'[u].new = thread[u].new)
        /\ thread'[u].pc = "held" \/ thread'[u].ret = "held" => thread[u].pc = "held" \/ thread[u].ret = "held"
    BY <1>4, <2>1
  <2>6. /\ row'[o].done <= thread'[u].total /\ posted'[o] <= thread'[u].total /\ thread'[u].total <= venue'[o].fill
        /\ thread'[u].pc = "post" => posted'[o] <= row'[o].done /\ thread'[u].new = thread'[u].total - row'[o].done
        /\ thread'[u].pc = "held" \/ thread'[u].ret = "held" => row'[o].done = thread'[u].total
    BY <2>2, <2>4, <2>5
  <2>7. QED
    BY <1>2, <2>1, <2>6 DEF PollOK
<1>5. QED
  BY <1>3, <1>4

LEMMA PostMove ==
  ASSUME PostInv, faults \subseteq faults',
         Without({"crash", "raise", "overlap"})' => ~(Polling("runner") /\ Polling("poller"))',
         ASSUME Without({"crash", "raise", "overlap"}), NEW u \in Threads PROVE PollOK(u)',
         ASSUME Without({"crash", "raise", "overlap"}), NEW o \in Orders PROVE PostedOK(o)'
  PROVE PostInv'
BY FaultsKept DEF PostInv

\* What is posted stays accounted for by the row or by a thread that is past posting.
LEMMA PostedKept ==
  ASSUME Base, Base', NEW o \in Orders, PostedOK(o), FillsGrow,
         row'[o].obs = row[o].obs, row'[o].done = row[o].done, posted'[o] = posted[o],
         \A u \in Threads : thread[u].ord = o /\ thread[u].pc # "post" =>
           posted[o] <= row[o].done \/ (thread'[u].ord = o /\ thread'[u].pc # "post")
  PROVE PostedOK(o)'
<1>1. /\ venue[o].fill \in Nat /\ venue'[o].fill \in Nat /\ venue[o].fill <= venue'[o].fill
      /\ row[o].obs \in Nat /\ row[o].done \in Nat
  BY FillsTyped, FillsTypedNext DEF FillsGrow
<1>2. row'[o].obs <= venue'[o].fill /\ row'[o].done <= venue'[o].fill
  BY <1>1 DEF PostedOK
<1>3. posted'[o] <= row'[o].done \/ \E t \in Threads : thread'[t].ord = o /\ thread'[t].pc # "post"
  BY DEF PostedOK
<1>4. QED
  BY <1>2, <1>3 DEF PostedOK

\* A step that neither begins nor ends a poll.
LEMMA PostCarries ==
  ASSUME Base, Base', PostInv, NEW t \in Threads, Carries(t), RowsKept, posted' = posted, FillsGrow,
         faults \subseteq faults'
  PROVE PostInv'
<1>1. Without({"crash", "raise", "overlap"})' => ~(Polling("runner") /\ Polling("poller"))'
  <2>1. \A u \in Threads : Polling(u)' => Polling(u)
    BY DEF Polling, Carries
  <2>2. QED
    BY <2>1, ThreadsAre, FaultsKept DEF PostInv
<1>2. ASSUME Without({"crash", "raise", "overlap"}), NEW u \in Threads PROVE PollOK(u)'
  <2>1. PollOK(u)
    BY <1>2 DEF PostInv
  <2>2. /\ thread[u].ord \in {0} \cup Orders /\ \A x \in thread[u].batch : x.id \in Orders
    BY PollTyped
  <2>3. CASE u = t
    <3>1. /\ thread'[u].batch \subseteq thread[u].batch /\ thread'[u].ord \in {0, thread[u].ord}
          /\ \A x \in thread'[u].batch : row'[x.id].done = row[x.id].done
      BY <2>2, <2>3 DEF Carries, RowsKept
    <3>2. thread'[u].ord # 0 =>
           /\ thread'[u].total = thread[u].total /\ row'[thread[u].ord].done = row[thread[u].ord].done
           /\ posted'[thread[u].ord] = posted[thread[u].ord]
           /\ thread'[u].pc # "post" \/ (thread'[u].pc = thread[u].pc /\ thread'[u].new = thread[u].new)
           /\ thread'[u].pc = "held" \/ thread'[u].ret = "held" => thread[u].pc = "held" \/ thread[u].ret = "held"
      BY <2>2, <2>3 DEF Carries, RowsKept
    <3>3. QED
      BY <2>1, <3>1, <3>2, PollKept
  <2>4. CASE u # t
    <3>1. /\ thread'[u] = thread[u]
          /\ \A x \in thread'[u].batch : row'[x.id].done = row[x.id].done
          /\ thread[u].ord # 0 => row'[thread[u].ord].done = row[thread[u].ord].done
      BY <2>2, <2>4 DEF Carries, RowsKept
    <3>2. QED
      BY <2>1, <3>1, PollKept
  <2>5. QED
    BY <2>3, <2>4
<1>3. ASSUME Without({"crash", "raise", "overlap"}), NEW o \in Orders PROVE PostedOK(o)'
  <2>1. PostedOK(o) /\ row'[o].obs = row[o].obs /\ row'[o].done = row[o].done
    BY <1>3 DEF PostInv, RowsKept
  <2>2. \A u \in Threads : thread[u].ord = o /\ thread[u].pc # "post" =>
           thread'[u].ord = o /\ thread'[u].pc # "post"
    BY DEF Carries
  <2>3. QED
    BY <2>1, <2>2, PostedKept
<1>4. QED
  BY <1>1, <1>2, <1>3, PostMove

\* A step that leaves the threads alone.
LEMMA PostStill ==
  ASSUME Base, Base', PostInv, UNCHANGED <<thread, row, posted>>, FillsGrow, faults \subseteq faults'
  PROVE PostInv'
<1>1. Without({"crash", "raise", "overlap"})' => ~(Polling("runner") /\ Polling("poller"))'
  BY FaultsKept DEF PostInv, Polling
<1>2. ASSUME Without({"crash", "raise", "overlap"}), NEW u \in Threads PROVE PollOK(u)'
  BY <1>2, PollKept DEF PostInv
<1>3. ASSUME Without({"crash", "raise", "overlap"}), NEW o \in Orders PROVE PostedOK(o)'
  BY <1>3, PostedKept DEF PostInv
<1>4. QED
  BY <1>1, <1>2, <1>3, PostMove

\* A poll ends or goes on to its next order, whose fill is accounted for.
LEMMA PostEnds ==
  ASSUME Base, Base', PostInv, NEW t \in Threads, Ends(t), UNCHANGED <<row, venue, posted>>,
         faults \subseteq faults', thread[t].ord # 0 => thread[t].pc = "held"
  PROVE PostInv'
<1>0. FillsGrow
  BY FillsTyped DEF FillsGrow
<1>1. Without({"crash", "raise", "overlap"})' => ~(Polling("runner") /\ Polling("poller"))'
  <2>1. \A u \in Threads : Polling(u)' => Polling(u)
    BY DEF Polling, Ends
  <2>2. QED
    BY <2>1, ThreadsAre, FaultsKept DEF PostInv
<1>2. ASSUME Without({"crash", "raise", "overlap"}), NEW u \in Threads PROVE PollOK(u)'
  <2>1. PollOK(u)
    BY <1>2 DEF PostInv
  <2>2. CASE u = t
    <3>1. thread'[u].batch \subseteq thread[u].batch /\ thread'[u].ord = 0
      BY <2>2 DEF Ends
    <3>2. QED
      BY <1>0, <2>1, <3>1, PollKept
  <2>3. CASE u # t
    <3>1. thread'[u] = thread[u]
      BY <2>3 DEF Ends
    <3>2. QED
      BY <1>0, <2>1, <3>1, PollKept
  <2>4. QED
    BY <2>2, <2>3
<1>3. ASSUME Without({"crash", "raise", "overlap"}), NEW o \in Orders PROVE PostedOK(o)'
  <2>1. PostedOK(o) /\ PollOK(t)
    BY <1>3 DEF PostInv
  <2>2. ASSUME NEW u \in Threads, thread[u].ord = o, thread[u].pc # "post"
        PROVE posted[o] <= row[o].done \/ (thread'[u].ord = o /\ thread'[u].pc # "post")
    <3>1. CASE u = t
      <4>1. thread[t].ord # 0 /\ thread[t].pc = "held"
        BY <2>2, <3>1, OrdersAre
      <4>2. QED
        BY <2>1, <2>2, <3>1, <4>1 DEF PollOK
    <3>2. CASE u # t
      BY <2>2, <3>2 DEF Ends
    <3>3. QED
      BY <3>1, <3>2
  <2>3. QED
    BY <1>0, <2>1, <2>2, PostedKept
<1>4. QED
  BY <1>1, <1>2, <1>3, PostMove

\* Without an overlap only one thread polls.
LEMMA OnePoller ==
  ASSUME Base, PostInv, Without({"crash", "raise", "overlap"}), NEW t \in Threads, Polling(t), NEW u \in Threads, u # t
  PROVE ~Polling(u) /\ thread[u].ord = 0 /\ thread[u].batch = {}
<1>1. ~(Polling("runner") /\ Polling("poller")) /\ ~Polling("stopper")
  BY DEF PostInv, Base, ThreadInv
<1>2. ~Polling(u)
  BY <1>1, ThreadsAre
<1>3. thread[u].pc # "query" /\ thread[u].ord = 0
  BY <1>2 DEF Polling
<1>4. ThreadOK(thread[u], used)
  BY ThreadFacts
<1>5. QED
  BY <1>2, <1>3, <1>4 DEF ThreadOK

\* A thread that polls nothing stays right.
LEMMA NoPollKept ==
  ASSUME Base, Base', NEW u \in Threads, PollOK(u), FillsGrow, thread'[u] = thread[u],
         thread[u].ord = 0, thread[u].batch = {}
  PROVE PollOK(u)'
BY PollKept

LEMMA PostPosts ==
  ASSUME Base, PostInv, NEW t \in Threads, PostFill(t) PROVE PostInv'
<1>1. /\ Base' /\ Carries(t) /\ UNCHANGED <<row, venue>> /\ faults \subseteq faults'
      /\ thread[t].pc = "post" /\ thread'[t].pc \in {"cell", "status"} /\ thread'[t].ret = thread[t].ret
      /\ thread[t].ord \in Orders
      /\ posted'[thread[t].ord] \in {posted[thread[t].ord], posted[thread[t].ord] + thread[t].new}
      /\ \A o \in Orders \ {thread[t].ord} : posted'[o] = posted[o]
  BY PostFillStep
<1>2. PICK m \in Orders : m = thread[t].ord /\ m # 0
  BY <1>1, OrdersAre
<1>3. Polling(t) /\ FillsGrow
  BY <1>1, <1>2, FillsTyped DEF Polling, FillsGrow
<1>4. Without({"crash", "raise", "overlap"})' => ~(Polling("runner") /\ Polling("poller"))'
  <2>1. \A u \in Threads : Polling(u)' => Polling(u)
    BY <1>1 DEF Polling, Carries
  <2>2. QED
    BY <1>1, <2>1, ThreadsAre, FaultsKept DEF PostInv
<1>5. ASSUME Without({"crash", "raise", "overlap"})
      PROVE /\ row[m].done <= thread[t].total /\ posted[m] <= row[m].done /\ thread[t].total <= venue[m].fill
            /\ posted'[m] <= thread[t].total
            /\ thread[t].ret # "held" \/ row[m].done = thread[t].total
  <2>1. PollOK(t)
    BY <1>5 DEF PostInv
  <2>2. /\ row[m].done <= thread[t].total /\ posted[m] <= row[m].done /\ thread[t].total <= venue[m].fill
        /\ thread[t].new = thread[t].total - row[m].done
        /\ thread[t].ret # "held" \/ row[m].done = thread[t].total
    BY <1>1, <1>2, <2>1 DEF PollOK
  <2>3. row[m].done \in Nat /\ posted[m] \in Nat /\ thread[t].total \in Nat
    BY FillsTyped, PollTyped
  <2>4. posted'[m] \in {posted[m], posted[m] + thread[t].new}
    BY <1>1, <1>2
  <2>5. QED
    BY <2>2, <2>3, <2>4
<1>6. ASSUME Without({"crash", "raise", "overlap"}), NEW u \in Threads PROVE PollOK(u)'
  <2>1. PollOK(u)
    BY <1>6 DEF PostInv
  <2>2. CASE u = t
    <3>1. /\ thread'[t].batch = thread[t].batch /\ thread'[t].ord = m /\ thread'[t].total = thread[t].total
          /\ thread'[t].pc \notin {"post", "held"}
      BY <1>1, <1>2 DEF Carries
    <3>2. \A x \in thread[t].batch : /\ x.done = row[x.id].done /\ x.obs <= venue[x.id].fill
                                     /\ x.id # m /\ \A y \in thread[t].batch : x.id = y.id => x = y
      BY <1>2, <2>1, <2>2 DEF PollOK
    <3>3. QED
      BY <1>1, <1>5, <1>6, <2>2, <3>1, <3>2 DEF PollOK
  <2>3. CASE u # t
    <3>1. thread[u].ord = 0 /\ thread[u].batch = {} /\ thread'[u] = thread[u]
      BY <1>1, <1>3, <1>6, <2>3, OnePoller DEF Carries
    <3>2. QED
      BY <1>1, <1>3, <2>1, <3>1, NoPollKept
  <2>4. QED
    BY <2>2, <2>3
<1>7. ASSUME Without({"crash", "raise", "overlap"}), NEW o \in Orders PROVE PostedOK(o)'
  <2>1. PostedOK(o)
    BY <1>7 DEF PostInv
  <2>2. thread'[t].ord = m /\ thread'[t].pc # "post"
    BY <1>1, <1>2 DEF Carries
  <2>3. CASE o = m
    BY <1>1, <2>1, <2>2, <2>3 DEF PostedOK
  <2>4. CASE o # m
    <3>1. posted'[o] = posted[o]
      BY <1>1, <1>2, <2>4
    <3>2. \A u \in Threads : thread[u].ord = o /\ thread[u].pc # "post" =>
            thread'[u].ord = o /\ thread'[u].pc # "post"
      BY <1>1, <1>2, <2>4 DEF Carries
    <3>3. QED
      BY <1>1, <1>3, <2>1, <3>1, <3>2, PostedKept
  <2>5. QED
    BY <2>3, <2>4
<1>8. QED
  BY <1>1, <1>4, <1>6, <1>7, PostMove

LEMMA PostStores ==
  ASSUME Base, PostInv, NEW t \in Threads, StorePoll(t) PROVE PostInv'
<1>1. /\ Base' /\ UNCHANGED <<venue, posted, faults>>
      /\ thread[t].pc = "status" /\ thread[t].ord \in Orders
      /\ row'[thread[t].ord].obs = thread[t].total /\ row'[thread[t].ord].done = thread[t].total
      /\ \A x \in Orders \ {thread[t].ord} : row'[x] = row[x]
      /\ \A u \in Threads \ {t} : thread'[u] = thread[u]
      /\ \/ Ends(t)
         \/ /\ thread'[t].pc = "held" /\ thread'[t].ord = thread[t].ord /\ thread'[t].batch = thread[t].batch
            /\ thread'[t].total = thread[t].total
  BY StorePollStep
<1>2. PICK m \in Orders : m = thread[t].ord /\ m # 0
  BY <1>1, OrdersAre
<1>3. Polling(t) /\ FillsGrow /\ faults \subseteq faults'
  BY <1>1, <1>2, FillsTyped DEF Polling, FillsGrow
<1>4. Without({"crash", "raise", "overlap"})' => ~(Polling("runner") /\ Polling("poller"))'
  <2>1. \A u \in Threads : Polling(u)' => Polling(u)
    BY <1>1, <1>3 DEF Polling
  <2>2. QED
    BY <1>3, <2>1, ThreadsAre, FaultsKept DEF PostInv
<1>5. ASSUME Without({"crash", "raise", "overlap"})
      PROVE /\ posted[m] <= thread[t].total /\ thread[t].total <= venue[m].fill
            /\ \A x \in thread[t].batch : /\ x.done = row[x.id].done /\ x.obs <= venue[x.id].fill
                                          /\ x.id # m /\ \A y \in thread[t].batch : x.id = y.id => x = y
  BY <1>2, <1>5 DEF PostInv, PollOK
<1>6. \A x \in thread[t].batch : x.id \in Orders
  BY PollTyped
<1>7. ASSUME Without({"crash", "raise", "overlap"}), NEW u \in Threads PROVE PollOK(u)'
  <2>1. PollOK(u)
    BY <1>7 DEF PostInv
  <2>2. CASE u # t
    <3>1. thread[u].ord = 0 /\ thread[u].batch = {} /\ thread'[u] = thread[u]
      BY <1>1, <1>3, <1>7, <2>2, OnePoller
    <3>2. QED
      BY <1>1, <1>3, <2>1, <3>1, NoPollKept
  <2>3. CASE u = t /\ Ends(t)
    <3>1. thread'[t].batch \subseteq thread[t].batch /\ thread'[t].ord = 0
      BY <2>3 DEF Ends
    <3>2. \A x \in thread'[t].batch : row'[x.id].done = row[x.id].done
      BY <1>1, <1>2, <1>5, <1>6, <1>7, <3>1
    <3>3. QED
      BY <1>1, <1>3, <2>1, <2>3, <3>1, <3>2, PollKept
  <2>4. CASE /\ u = t /\ thread'[t].pc = "held" /\ thread'[t].ord = thread[t].ord
             /\ thread'[t].batch = thread[t].batch /\ thread'[t].total = thread[t].total
    <3>1. \A x \in thread'[t].batch :
            /\ x.done = row'[x.id].done /\ x.obs <= venue'[x.id].fill
            /\ x.id # m /\ \A y \in thread'[t].batch : x.id = y.id => x = y
      BY <1>1, <1>2, <1>5, <1>6, <1>7, <2>4
    <3>2. thread[t].total <= thread[t].total
      BY PollTyped
    <3>3. /\ row'[m].done <= thread'[t].total /\ posted'[m] <= thread'[t].total /\ thread'[t].total <= venue'[m].fill
          /\ row'[m].done = thread'[t].total
      BY <1>1, <1>2, <1>5, <1>7, <2>4, <3>2
    <3>4. QED
      BY <1>2, <2>4, <3>1, <3>3 DEF PollOK
  <2>5. QED
    BY <1>1, <2>2, <2>3, <2>4
<1>8. ASSUME Without({"crash", "raise", "overlap"}), NEW o \in Orders PROVE PostedOK(o)'
  <2>1. PostedOK(o)
    BY <1>8 DEF PostInv
  <2>2. CASE o = m
    BY <1>1, <1>2, <1>5, <1>8, <2>2 DEF PostedOK
  <2>3. CASE o # m
    <3>1. \A u \in Threads : thread[u].ord = o /\ thread[u].pc # "post" =>
            thread'[u].ord = o /\ thread'[u].pc # "post"
      BY <1>1, <1>2, <2>3
    <3>2. QED
      BY <1>1, <1>2, <1>3, <2>1, <2>3, <3>1, PostedKept
  <2>4. QED
    BY <2>2, <2>3
<1>9. QED
  BY <1>3, <1>4, <1>7, <1>8, PostMove

LEMMA PostAsks ==
  ASSUME Base, PostInv, NEW t \in Threads, PollQuery(t), NEW x \in thread[t].batch, Asked(t, x) PROVE PostInv'
<1>1. /\ Base' /\ UNCHANGED <<row, venue, posted>> /\ faults \subseteq faults'
      /\ thread[t].pc = "query" /\ thread[t].ord = 0 /\ Polling(t) /\ FillsGrow
  BY PollQueryStep, FillsTyped DEF Polling, FillsGrow
<1>2. PICK m \in Orders : m = x.id /\ m # 0
  BY PollTyped, OrdersAre
<1>3. x.done \in Nat /\ x.obs \in Nat /\ venue[m].fill \in Nat /\ row[m].done \in Nat /\ posted[m] \in Nat
  BY PollTyped, FillsTyped
<1>4. /\ \A u \in Threads \ {t} : thread'[u] = thread[u]
      /\ thread'[t].ord = m /\ thread'[t].batch = thread[t].batch \ {x}
      /\ thread'[t].total = (IF venue[m].fill > 0 THEN venue[m].fill ELSE x.obs)
      /\ thread'[t].new = thread'[t].total - x.done
      /\ thread'[t].pc \in {"post", "status"} /\ thread'[t].ret = "idle"
  BY <1>2 DEF Asked
<1>5. Without({"crash", "raise", "overlap"})' => ~(Polling("runner") /\ Polling("poller"))'
  <2>1. \A u \in Threads : Polling(u)' => Polling(u)
    BY <1>1, <1>4 DEF Polling
  <2>2. QED
    BY <1>1, <2>1, ThreadsAre, FaultsKept DEF PostInv
<1>6. ASSUME Without({"crash", "raise", "overlap"})
      PROVE /\ x.done = row[m].done /\ posted[m] <= row[m].done
            /\ row[m].done <= thread'[t].total /\ thread'[t].total <= venue[m].fill
            /\ posted[m] <= thread'[t].total
  <2>1. PollOK(t) /\ PostedOK(m)
    BY <1>6 DEF PostInv
  <2>2. x.done = row[m].done /\ x.obs <= venue[m].fill
    BY <1>2, <2>1 DEF PollOK
  <2>3. \A u \in Threads : thread[u].ord # m
    <3> TAKE u \in Threads
    <3>1. CASE u = t
      BY <1>1, <1>2, <3>1
    <3>2. CASE u # t
      BY <1>1, <1>2, <1>6, <3>2, OnePoller
    <3>3. QED
      BY <3>1, <3>2
  <2>4. posted[m] <= row[m].done /\ row[m].done <= venue[m].fill
    BY <2>1, <2>3 DEF PostedOK
  <2>5. QED
    BY <1>3, <1>4, <2>2, <2>4
<1>7. ASSUME Without({"crash", "raise", "overlap"}), NEW u \in Threads PROVE PollOK(u)'
  <2>1. PollOK(u)
    BY <1>7 DEF PostInv
  <2>2. CASE u # t
    <3>1. thread[u].ord = 0 /\ thread[u].batch = {} /\ thread'[u] = thread[u]
      BY <1>1, <1>4, <1>7, <2>2, OnePoller
    <3>2. QED
      BY <1>1, <2>1, <3>1, NoPollKept
  <2>3. CASE u = t
    <3>1. \A y \in thread'[t].batch : /\ y.done = row'[y.id].done /\ y.obs <= venue'[y.id].fill /\ y.id # m
                                      /\ \A z \in thread'[t].batch : y.id = z.id => y = z
      BY <1>1, <1>2, <1>4, <2>1, <2>3 DEF PollOK
    <3>2. QED
      BY <1>1, <1>2, <1>4, <1>6, <1>7, <2>3, <3>1 DEF PollOK
  <2>4. QED
    BY <2>2, <2>3
<1>8. ASSUME Without({"crash", "raise", "overlap"}), NEW o \in Orders PROVE PostedOK(o)'
  <2>1. PostedOK(o)
    BY <1>8 DEF PostInv
  <2>2. \A u \in Threads : thread[u].ord = o /\ thread[u].pc # "post" =>
          thread'[u].ord = o /\ thread'[u].pc # "post"
    BY <1>1, <1>4, OrdersAre
  <2>3. QED
    BY <1>1, <2>1, <2>2, PostedKept
<1>9. QED
  BY <1>1, <1>5, <1>7, <1>8, PostMove

LEMMA PostLists ==
  ASSUME Base, Base', PostInv, NEW t \in Threads, NEW S, S \subseteq Orders, \A o \in S : o <= used, Lists(t, S),
         UNCHANGED <<row, venue, posted>>, faults \subseteq faults',
         \A u \in Threads \ {t} : Polling(u) => "overlap" \in faults'
  PROVE PostInv'
<1>0. FillsGrow
  BY FillsTyped DEF FillsGrow
<1>1. Without({"crash", "raise", "overlap"})' => ~(Polling("runner") /\ Polling("poller"))'
  <2>1. ASSUME Without({"crash", "raise", "overlap"})', NEW u \in Threads \ {t} PROVE ~Polling(u)'
    BY <2>1 DEF Without, Lists, Polling
  <2>2. QED
    BY <2>1, ThreadsAre
<1>2. ASSUME Without({"crash", "raise", "overlap"}), NEW u \in Threads PROVE PollOK(u)'
  <2>1. PollOK(u)
    BY <1>2 DEF PostInv
  <2>2. CASE u # t
    <3>1. thread'[u] = thread[u]
      BY <2>2 DEF Lists
    <3>2. QED
      BY <1>0, <2>1, <3>1, PollKept
  <2>3. CASE u = t
    <3>1. thread'[t].batch = Batch(S) /\ thread'[t].ord = 0
      BY DEF Lists
    <3>2. \A x \in Batch(S) : /\ x.id \in Orders /\ x.id # 0 /\ x.done = row[x.id].done /\ x.obs = row[x.id].obs
                              /\ \A y \in Batch(S) : x.id = y.id => x = y
      BY BatchTyped, OrdersAre
    <3>3. \A o \in Orders : row[o].obs <= venue[o].fill
      BY <1>2 DEF PostInv, PostedOK
    <3>4. \A x \in thread'[t].batch :
            /\ x.done = row'[x.id].done /\ x.obs <= venue'[x.id].fill
            /\ x.id # thread'[t].ord /\ \A y \in thread'[t].batch : x.id = y.id => x = y
      BY <3>1, <3>2, <3>3
    <3>5. QED
      BY <2>3, <3>1, <3>4 DEF PollOK
  <2>4. QED
    BY <2>2, <2>3
<1>3. ASSUME Without({"crash", "raise", "overlap"}), NEW o \in Orders PROVE PostedOK(o)'
  <2>1. PostedOK(o)
    BY <1>3 DEF PostInv
  <2>2. thread[t].ord = 0
    <3>1. ThreadOK(thread[t], used) /\ thread[t].pc = "idle"
      BY ThreadFacts DEF Lists
    <3>2. QED
      BY <3>1 DEF ThreadOK
  <2>3. \A u \in Threads : thread[u].ord = o /\ thread[u].pc # "post" =>
          thread'[u].ord = o /\ thread'[u].pc # "post"
    BY <2>2, OrdersAre DEF Lists
  <2>4. QED
    BY <1>0, <2>1, <2>3, PostedKept
<1>4. QED
  BY <1>1, <1>2, <1>3, PostMove

LEMMA KeptGrow == ASSUME Base, VenueKept \/ venue' = venue PROVE FillsGrow
BY FillsTyped DEF VenueKept, FillsGrow

LEMMA SameRows == ASSUME row' = row PROVE RowsKept
BY DEF RowsKept

\* The steps of a thread.
LEMMA PostThread ==
  ASSUME Base, PostInv, NEW t \in Threads, ThreadStep(t) \/ Shutdown(t) PROVE PostInv'
<1>1. Base'
  BY BaseStep DEF Next
<1>2. CASE PlaceLimit(t)
  <2>1. /\ Carries(t) /\ faults \subseteq faults' /\ UNCHANGED <<row, posted>>
        /\ \/ venue' = venue
           \/ /\ thread'[t].own \in Orders
              /\ venue'[thread'[t].own].fill = 0 /\ venue[thread'[t].own] = Unplaced
              /\ \A o \in Orders \ {thread'[t].own} : venue'[o] = venue[o]
    BY <1>2, PlaceStep
  <2>2. FillsGrow
    BY <2>1, FillsTyped, NullsTyped DEF FillsGrow
  <2>3. QED
    BY <1>1, <2>1, <2>2, SameRows, PostCarries
<1>3. CASE CancelAtVenue(t) \/ CancelRow(t) \/ InsertRow(t)
  <2>1. /\ Carries(t) /\ RowsKept /\ posted' = posted /\ faults \subseteq faults'
        /\ VenueKept \/ venue' = venue
    BY <1>3, CancelVenueStep, CancelRowStep, InsertStep, SameRows
  <2>2. QED
    BY <1>1, <2>1, KeptGrow, PostCarries
<1>4. CASE CancelsDone(t) \/ MarkCell(t) \/ NextCell(t) \/ FillCell(t) \/ EnsureExitCoverage(t)
           \/ SweepRows(t) \/ ReleaseCells(t) \/ Shutdown(t)
  <2>1. Carries(t) /\ RowsKept /\ UNCHANGED <<venue, posted>> /\ faults \subseteq faults'
    BY <1>4, CancelsDoneStep, MarkStep, NextCellStep, FillCellStep, CoverStep, SweepStep, ReleaseStep,
       ShutdownStep, SameRows
  <2>2. QED
    BY <1>1, <2>1, KeptGrow, PostCarries
<1>5. CASE CellsDone(t)
  <2>1. /\ UNCHANGED <<row, venue, posted, faults>>
        /\ IF thread[t].ord # 0 THEN Ends(t) /\ thread[t].pc = "held" ELSE Carries(t)
    BY <1>5, CellsDoneStep
  <2>2. CASE thread[t].ord # 0
    BY <1>1, <2>1, <2>2, PostEnds
  <2>3. CASE thread[t].ord = 0
    BY <1>1, <2>1, <2>3, KeptGrow, SameRows, PostCarries
  <2>4. QED
    BY <2>2, <2>3
<1>6. CASE PollQuery(t)
  <2>1. /\ UNCHANGED <<row, venue, posted>> /\ faults \subseteq faults' /\ thread[t].ord = 0
        /\ Ends(t) \/ \E x \in thread[t].batch : Asked(t, x)
    BY <1>6, PollQueryStep
  <2>2. QED
    BY <1>1, <1>6, <2>1, PostEnds, PostAsks
<1>7. CASE PollDone(t)
  <2>1. UNCHANGED <<row, venue, posted, faults>> /\ thread[t].ord = 0 /\ Ends(t)
    BY <1>7, PollDoneStep
  <2>2. QED
    BY <1>1, <2>1, PostEnds
<1>8. CASE PollRaises(t)
  <2>1. "raise" \in faults'
    BY <1>8, PollRaisesStep
  <2>2. QED
    BY <2>1 DEF PostInv, Without
<1>9. QED
  BY <1>2, <1>3, <1>4, <1>5, <1>6, <1>7, <1>8, PostPosts, PostStores DEF ThreadStep, Step

LEMMA PostStep == Base /\ PostInv /\ [Next]_vars => PostInv'
<1> SUFFICES ASSUME Base, PostInv, [Next]_vars PROVE PostInv'
  OBVIOUS
<1>1. Base'
  BY BaseStep
<1>2. CASE HandleBoundary \/ SyncExitCoverage \/ SyncGridOrders \/ WithdrawOrders \/ PauseEntries
  <2>1. Carries("runner") /\ UNCHANGED <<row, venue, posted>> /\ faults \subseteq faults' /\ "runner" \in Threads
    BY <1>2, BeginStep, PauseStep, ThreadsAre
  <2>2. QED
    BY <1>1, <2>1, KeptGrow, SameRows, PostCarries
<1>3. CASE PollList
  <2>1. PICK S : S = {o \in Orders : Open(o)}
    OBVIOUS
  <2>2. /\ UNCHANGED <<row, venue, posted>> /\ faults \subseteq faults' /\ Lists("poller", S)
        /\ Polling("runner") => "overlap" \in faults'
    BY <1>3, <2>1, PollListStep
  <2>3. /\ "poller" \in Threads /\ S \subseteq Orders /\ (\A o \in S : o <= used)
        /\ \A u \in Threads \ {"poller"} : Polling(u) => "overlap" \in faults'
    BY <2>1, <2>2, PlacedRows, ThreadsAre DEF Base, ThreadInv
  <2>4. QED
    BY <1>1, <2>2, <2>3, PostLists
<1>4. CASE Register
  <2>1. PICK S : S = {o \in Orders : Open(o) \/ row[o].done < row[o].obs}
    OBVIOUS
  <2>2. /\ UNCHANGED <<row, venue, posted>> /\ faults \subseteq faults' /\ Lists("runner", S)
        /\ Polling("poller") => "overlap" \in faults'
    BY <1>4, <2>1, RegisterStep
  <2>3. /\ "runner" \in Threads /\ S \subseteq Orders /\ (\A o \in S : o <= used)
        /\ \A u \in Threads \ {"runner"} : Polling(u) => "overlap" \in faults'
    BY <2>1, <2>2, PlacedRows, ThreadsAre DEF Base, ThreadInv
  <2>4. QED
    BY <1>1, <2>2, <2>3, PostLists
<1>5. ASSUME NEW o \in Orders, VenueFills(o) \/ VenueCancels(o) PROVE PostInv'
  <2>1. UNCHANGED <<row, posted, thread>> /\ faults \subseteq faults' /\ FillsGrow
    BY <1>5, VenueStep DEF FillsGrow
  <2>2. QED
    BY <1>1, <2>1, PostStill
<1>6. CASE Restart \/ Startup \/ UNCHANGED vars
  <2>1. UNCHANGED <<row, posted, thread, venue, faults>>
    BY <1>6 DEF Restart, Startup, vars
  <2>2. QED
    BY <1>1, <2>1, KeptGrow, PostStill
<1>7. CASE Crash
  <2>1. "crash" \in faults'
    BY <1>7, CrashStep
  <2>2. QED
    BY <2>1 DEF PostInv, Without
<1>8. QED
  BY <1>2, <1>3, <1>4, <1>5, <1>6, <1>7, PostThread DEF Next

LEMMA PostInit == Init => PostInv
<1> SUFFICES ASSUME Init PROVE PostInv
  OBVIOUS
<1>1. \A t \in Threads : thread[t] = Idle
  BY DEF Init
<1>2. ~(Polling("runner") /\ Polling("poller"))
  BY <1>1, ThreadsAre, NullsTyped DEF Polling
<1>3. \A t \in Threads : PollOK(t)
  BY <1>1, NullsTyped DEF PollOK
<1>4. \A o \in Orders : PostedOK(o)
  BY NullsTyped DEF Init, PostedOK
<1>5. QED
  BY <1>2, <1>3, <1>4 DEF PostInv

LEMMA PostedBound == ASSUME Base, PostInv PROVE PostedOnce
<1> SUFFICES ASSUME Without({"crash", "raise", "overlap"}), NEW o \in Orders PROVE posted[o] <= venue[o].fill
  BY DEF PostedOnce
<1>1. venue[o].fill \in Nat /\ row[o].done \in Nat /\ posted[o] \in Nat
  BY FillsTyped
<1>2. PostedOK(o) /\ \A t \in Threads : PollOK(t)
  BY DEF PostInv
<1>3. CASE posted[o] <= row[o].done
  BY <1>1, <1>2, <1>3 DEF PostedOK
<1>4. ASSUME NEW t \in Threads, thread[t].ord = o PROVE posted[o] <= venue[o].fill
  <2>1. posted[o] <= thread[t].total /\ thread[t].total <= venue[o].fill
    BY <1>2, <1>4, OrdersAre DEF PollOK
  <2>2. QED
    BY <1>1, <2>1, PollTyped
<1>5. QED
  BY <1>2, <1>3, <1>4 DEF PostedOK

\* No fill of a grid order is posted to the position and the trades more than
\* once (PostedOnce), for every grid, every amount, any number of orders and any
\* disturbance but the three the property names: a posting that fails, a stop
\* that overlaps a poll, cancels and replacements never make the poll post again
\* what processed_fill_qty covers (_poll_order in poller.py).
THEOREM FillsPostedOnce == Spec => []PostedOnce
<1>1. Base /\ PostInv => PostedOnce
  BY PostedBound
<1>2. QED
  BY BaseInit, BaseStep, PostInit, PostStep, <1>1, PTL DEF Spec

-----------------------------------------------------------------------------
(* Orders without a row *)

Undisturbed == Without({"crash", "cleanup", "late"})

LEMMA OrphanFacts ==
  ASSUME Base, OrphanInv, Undisturbed
  PROVE /\ \A o \in Orders : venue[o].st = "open" =>
             Open(o) \/ \E t \in Threads : thread[t].pc = "insert" /\ thread[t].own = o
        /\ \A t \in Threads :
             /\ thread[t].pc = "cancelRow" => venue[thread[t].own].st # "open"
             /\ thread[t].ord # 0 /\ thread[t].vst # "open" => venue[thread[t].ord].st # "open"
             /\ SweepOK(t)
BY DEF OrphanInv, NoOrphan, Undisturbed

\* A stop is alone: when a thread steps, no other one is stopping the strategy.
LEMMA StopsAlone ==
  ASSUME Base, OrphanInv, Undisturbed, NEW t \in Threads, thread[t].pc # "idle"
  PROVE \A u \in Threads \ {t} : thread[u].after # "sweep"
BY OrphanFacts DEF SweepOK

LEMMA IdleStopsNot ==
  ASSUME Base, NEW t \in Threads, thread[t].pc = "idle" PROVE thread[t].after = "idle"
BY ThreadFacts DEF ThreadOK

\* A step of thread t keeps the invariant.
LEMMA OrphanMove ==
  ASSUME Base, Base', OrphanInv, Undisturbed, NEW t \in Threads,
         \A u \in Threads \ {t} : thread'[u] = thread[u],
         \A u \in Threads \ {t} : thread[u].after # "sweep",
         SweepOK(t)',
         thread'[t].pc = "cancelRow" => venue'[thread'[t].own].st # "open",
         thread'[t].ord # 0 /\ thread'[t].vst # "open" => venue'[thread'[t].ord].st # "open",
         \A o \in Orders : o <= used /\ venue'[o].st = "open" => venue[o].st = "open",
         \A o \in Orders : venue'[o].st = "open" =>
           \/ row'[o].st \in {"open", "partial"}
           \/ thread'[t].pc = "insert" /\ thread'[t].own = o
           \/ venue[o].st = "open" /\ row'[o].st = row[o].st /\ ~(thread[t].pc = "insert" /\ thread[t].own = o)
  PROVE OrphanInv'
<1>1. ASSUME NEW o \in Orders, venue'[o].st = "open"
      PROVE row'[o].st \in {"open", "partial"} \/ \E u \in Threads : thread'[u].pc = "insert" /\ thread'[u].own = o
  <2>1. CASE venue[o].st = "open" /\ row'[o].st = row[o].st /\ ~(thread[t].pc = "insert" /\ thread[t].own = o)
    <3>1. Open(o) \/ \E u \in Threads : thread[u].pc = "insert" /\ thread[u].own = o
      BY <2>1, OrphanFacts
    <3>2. QED
      BY <2>1, <3>1 DEF Open
  <2>2. QED
    BY <1>1, <2>1
<1>2. NoOrphan'
  BY <1>1 DEF NoOrphan, Open
<1>3. ASSUME NEW u \in Threads \ {t}
      PROVE /\ thread'[u].pc = "cancelRow" => venue'[thread'[u].own].st # "open"
            /\ thread'[u].ord # 0 /\ thread'[u].vst # "open" => venue'[thread'[u].ord].st # "open"
            /\ SweepOK(u)'
  <2>1. thread'[u] = thread[u] /\ thread[u].after # "sweep" /\ used \in Nat /\ used \in 0 .. MaxOrders
    BY <1>3, ThreadFacts
  <2>2. /\ thread[u].pc = "cancelRow" => venue[thread[u].own].st # "open"
        /\ thread[u].ord # 0 /\ thread[u].vst # "open" => venue[thread[u].ord].st # "open"
    BY <1>3, OrphanFacts
  <2>3. /\ thread[u].pc = "cancelRow" => thread[u].own \in Orders /\ thread[u].own <= used
        /\ thread[u].ord # 0 => thread[u].ord \in Orders /\ thread[u].ord <= used
    <3>1. ThreadOK(thread[u], used) /\ (thread[u].ord # 0 => thread[u].ord \in Orders)
      BY <1>3, ThreadFacts
    <3>2. thread[u].pc = "cancelRow" => thread[u].own \in 1 .. used
      BY <3>1 DEF ThreadOK
    <3>3. thread[u].ord <= used
      BY <3>1 DEF ThreadOK
    <3>4. QED
      BY <2>1, <3>1, <3>2, <3>3, OrdersAre DEF Orders
  <2>4. SweepOK(u)'
    BY <2>1 DEF SweepOK
  <2>5. QED
    BY <2>1, <2>2, <2>3, <2>4
<1>4. QED
  BY <1>2, <1>3 DEF OrphanInv

\* The venue's orders do not come back, and no row that matters changes.
LEMMA OrphanCarries ==
  ASSUME Base, Base', OrphanInv, Undisturbed, NEW t \in Threads, Carries(t), thread[t].pc # "idle",
         VenueKept \/ venue' = venue, SweepOK(t)', thread[t].pc # "insert",
         thread'[t].pc = "cancelRow" => venue'[thread'[t].own].st # "open",
         \A o \in Orders : venue'[o].st = "open" => row'[o].st = row[o].st
  PROVE OrphanInv'
<1>1. /\ \A u \in Threads \ {t} : thread'[u] = thread[u]
      /\ \A u \in Threads \ {t} : thread[u].after # "sweep"
      /\ \A o \in Orders : venue'[o].st = "open" => venue[o].st = "open"
  BY StopsAlone DEF Carries, VenueKept
<1>2. thread'[t].ord # 0 /\ thread'[t].vst # "open" => venue'[thread'[t].ord].st # "open"
  <2>1. SUFFICES ASSUME thread'[t].ord # 0, thread'[t].vst # "open" PROVE venue'[thread'[t].ord].st # "open"
    OBVIOUS
  <2>2. thread'[t].ord = thread[t].ord /\ thread'[t].vst = thread[t].vst
    BY <2>1 DEF Carries
  <2>3. thread[t].ord \in Orders /\ venue[thread[t].ord].st # "open"
    BY <2>1, <2>2, OrphanFacts, ThreadFacts
  <2>4. QED
    BY <1>1, <2>2, <2>3
<1>3. QED
  BY <1>1, <1>2, OrphanMove

\* A thread that does not stop the strategy goes on.
LEMMA OrphanOnward ==
  ASSUME Base, Base', OrphanInv, Undisturbed, NEW t \in Threads, Carries(t), thread[t].pc \notin {"idle", "insert"},
         UNCHANGED <<row, venue>>, thread'[t].after # "sweep", thread'[t].pc # "cancelRow"
  PROVE OrphanInv'
<1>1. SweepOK(t)'
  BY DEF SweepOK
<1>2. QED
  BY <1>1, OrphanCarries

\* A poll ends, or goes on with its list.
LEMMA OrphanEnds ==
  ASSUME Base, Base', OrphanInv, Undisturbed, NEW t \in Threads, venue' = venue, Ends(t),
         thread[t].pc \notin {"idle", "insert"},
         \A o \in Orders : venue[o].st = "open" => row'[o].st = row[o].st \/ row'[o].st \in {"open", "partial"}
  PROVE OrphanInv'
<1>1. /\ SweepOK(t)' /\ \A u \in Threads \ {t} : thread'[u] = thread[u]
      /\ thread'[t].ord = 0 /\ thread'[t].pc # "cancelRow"
  BY DEF SweepOK, Ends
<1>2. \A u \in Threads \ {t} : thread[u].after # "sweep"
  BY StopsAlone
<1>3. QED
  BY <1>1, <1>2, OrphanMove

LEMMA OrphanCancels ==
  ASSUME Base, Base', OrphanInv, Undisturbed, Undisturbed', NEW t \in Threads,
         CancelAtVenue(t) \/ CancelRow(t) \/ CancelsDone(t)
  PROVE OrphanInv'
<1>1. CASE CancelAtVenue(t)
  <2>1. /\ Carries(t) /\ VenueKept /\ UNCHANGED <<row, posted>> /\ thread[t].pc = "cancel"
        /\ thread'[t].pc = "cancelRow" =>
             /\ thread'[t].own \in Orders /\ thread'[t].todo = thread[t].todo
             /\ thread'[t].after = thread[t].after
             /\ venue'[thread'[t].own].st # "open" \/ "cleanup" \in faults'
        /\ thread'[t].pc # "cancelRow" => thread'[t].after # "sweep"
    BY <1>1, CancelVenueStep
  <2>2. thread'[t].pc = "cancelRow" => venue'[thread'[t].own].st # "open"
    BY <2>1 DEF Undisturbed, Without
  <2>3. SweepOK(t)'
    BY <2>1, OrphanFacts DEF SweepOK, Carries, VenueKept
  <2>4. QED
    BY <2>1, <2>2, <2>3, OrphanCarries
<1>2. CASE CancelRow(t)
  <2>1. /\ Carries(t) /\ venue' = venue /\ thread[t].pc = "cancelRow" /\ thread'[t].pc = "cancel"
        /\ thread[t].own \in Orders /\ thread'[t].todo = thread[t].todo \ {thread[t].own}
        /\ thread'[t].after = thread[t].after
        /\ \A o \in Orders \ {thread[t].own} : row'[o] = row[o]
    BY <1>2, CancelRowStep
  <2>2. venue[thread[t].own].st # "open" /\ SweepOK(t)
    BY <2>1, OrphanFacts
  <2>3. SweepOK(t)'
    BY <2>1, <2>2 DEF SweepOK, Carries
  <2>4. QED
    BY <2>1, <2>2, <2>3, OrphanCarries
<1>3. CASE CancelsDone(t)
  <2>1. /\ Carries(t) /\ UNCHANGED <<row, venue>> /\ thread[t].pc = "cancel" /\ thread[t].todo = {}
        /\ thread'[t].pc \notin {"insert", "cancelRow", "cancel"}
        /\ thread'[t].after = "sweep" => thread[t].after = "sweep"
    BY <1>3, CancelsDoneStep
  <2>2. SweepOK(t)'
    BY <2>1, OrphanFacts DEF SweepOK, Carries
  <2>3. QED
    BY <2>1, <2>2, OrphanCarries
<1>4. QED
  BY <1>1, <1>2, <1>3

LEMMA OrphanPlaces ==
  ASSUME Base, Base', OrphanInv, Undisturbed, NEW t \in Threads, PlaceLimit(t) \/ InsertRow(t)
  PROVE OrphanInv'
<1>1. CASE PlaceLimit(t)
  <2>1. /\ Carries(t) /\ row' = row /\ thread[t].pc = "place" /\ thread'[t].after = "idle"
        /\ \/ venue' = venue /\ thread'[t].pc \notin {"insert", "cancelRow", "cancel"}
           \/ /\ thread'[t].pc = "insert" /\ thread'[t].own \in Orders
              /\ venue[thread'[t].own] = Unplaced
              /\ \A o \in Orders \ {thread'[t].own} : venue'[o] = venue[o]
    BY <1>1, PlaceStep
  <2>2. CASE venue' = venue /\ thread'[t].pc \notin {"insert", "cancelRow", "cancel"}
    BY <2>1, <2>2, OrphanOnward
  <2>3. CASE /\ thread'[t].pc = "insert" /\ thread'[t].own \in Orders
             /\ venue[thread'[t].own] = Unplaced
             /\ \A o \in Orders \ {thread'[t].own} : venue'[o] = venue[o]
    <3>1. ~(thread'[t].own <= used)
      BY <2>3, NullsTyped DEF Base, PlacedInv
    <3>2. /\ SweepOK(t)' /\ \A u \in Threads \ {t} : thread'[u] = thread[u]
      BY <2>1 DEF SweepOK, Carries
    <3>3. \A u \in Threads \ {t} : thread[u].after # "sweep"
      BY <2>1, StopsAlone
    <3>4. thread'[t].ord # 0 /\ thread'[t].vst # "open" => venue'[thread'[t].ord].st # "open"
      <4>1. SUFFICES ASSUME thread'[t].ord # 0, thread'[t].vst # "open" PROVE venue'[thread'[t].ord].st # "open"
        OBVIOUS
      <4>2. thread'[t].ord = thread[t].ord /\ thread'[t].vst = thread[t].vst
        BY <2>1, <4>1 DEF Carries
      <4>3. /\ thread[t].ord \in Orders /\ venue[thread[t].ord].st # "open"
            /\ ThreadOK(thread[t], used)
        BY <4>1, <4>2, OrphanFacts, ThreadFacts
      <4>4. thread[t].ord # thread'[t].own
        BY <3>1, <4>3 DEF ThreadOK
      <4>5. QED
        BY <2>3, <4>2, <4>3, <4>4
    <3>5. /\ \A o \in Orders : o <= used /\ venue'[o].st = "open" => venue[o].st = "open"
          /\ \A o \in Orders : venue'[o].st = "open" =>
               thread'[t].own = o \/ (venue[o].st = "open" /\ row'[o].st = row[o].st)
      BY <2>1, <2>3, <3>1
    <3>6. thread'[t].pc # "cancelRow" /\ thread[t].pc # "insert"
      BY <2>1, <2>3
    <3>7. QED
      BY <2>3, <3>2, <3>3, <3>4, <3>5, <3>6, OrphanMove
  <2>4. QED
    BY <2>1, <2>2, <2>3
<1>2. CASE InsertRow(t)
  <2>1. /\ Carries(t) /\ VenueKept /\ thread[t].pc = "insert" /\ thread'[t].after = "idle"
        /\ thread'[t].pc \notin {"insert", "cancelRow", "cancel"} /\ thread[t].own \in Orders
        /\ row'[thread[t].own].st = "open" \/ venue'[thread[t].own].st # "open"
        /\ \A o \in Orders : row'[o].st # row[o].st => row'[o].st = "open"
    BY <1>2, InsertStep
  <2>2. /\ SweepOK(t)' /\ \A u \in Threads \ {t} : thread'[u] = thread[u]
        /\ \A o \in Orders : venue'[o].st = "open" => venue[o].st = "open"
    BY <2>1 DEF SweepOK, Carries, VenueKept
  <2>3. \A u \in Threads \ {t} : thread[u].after # "sweep"
    BY <2>1, StopsAlone
  <2>4. thread'[t].ord # 0 /\ thread'[t].vst # "open" => venue'[thread'[t].ord].st # "open"
    <3>1. SUFFICES ASSUME thread'[t].ord # 0, thread'[t].vst # "open" PROVE venue'[thread'[t].ord].st # "open"
      OBVIOUS
    <3>2. thread'[t].ord = thread[t].ord /\ thread'[t].vst = thread[t].vst
      BY <2>1, <3>1 DEF Carries
    <3>3. thread[t].ord \in Orders /\ venue[thread[t].ord].st # "open"
      BY <3>1, <3>2, OrphanFacts, ThreadFacts
    <3>4. QED
      BY <2>2, <3>2, <3>3
  <2>5. QED
    BY <2>1, <2>2, <2>3, <2>4, OrphanMove
<1>3. QED
  BY <1>1, <1>2

LEMMA OrphanStops ==
  ASSUME Base, Base', OrphanInv, Undisturbed, Undisturbed', NEW t \in Threads,
         SweepRows(t) \/ ReleaseCells(t) \/ Shutdown(t)
  PROVE OrphanInv'
<1>1. CASE SweepRows(t) \/ ReleaseCells(t)
  <2>1. /\ Carries(t) /\ venue' = venue /\ thread[t].after = "sweep" /\ thread[t].pc \in {"sweep", "release"}
        /\ thread'[t].pc \in {"release", "idle"}
    BY <1>1, SweepStep, ReleaseStep, NullsTyped
  <2>2. \A o \in Orders : venue[o].st # "open"
    BY <2>1, OrphanFacts DEF SweepOK
  <2>3. SweepOK(t)'
    BY <2>1, <2>2, OrphanFacts DEF SweepOK, Carries
  <2>4. QED
    BY <2>1, <2>2, <2>3, OrphanCarries
<1>2. CASE Shutdown(t)
  <2>1. /\ UNCHANGED <<row, venue>> /\ Starts(t, "sweep", {o \in Orders : Open(o)})
        /\ "late" \in faults' \/ \A u \in Threads : thread[u].pc = "idle"
    BY <1>2, ShutdownStep
  <2>2. \A u \in Threads : thread[u].pc = "idle" /\ thread[u].after = "idle"
    BY <2>1, IdleStopsNot DEF Undisturbed, Without
  <2>3. \A o \in Orders : venue[o].st = "open" => Open(o)
    BY <2>2, OrphanFacts
  <2>4. /\ thread'[t].pc = "cancel" /\ thread'[t].todo = {o \in Orders : Open(o)} /\ thread'[t].ord = 0
        /\ \A u \in Threads \ {t} : thread'[u] = thread[u]
    BY <2>1 DEF Starts
  <2>5. SweepOK(t)'
    BY <2>1, <2>2, <2>3, <2>4 DEF SweepOK
  <2>6. QED
    BY <2>1, <2>2, <2>4, <2>5, OrphanMove
<1>3. QED
  BY <1>1, <1>2

LEMMA OrphanPolls ==
  ASSUME Base, Base', OrphanInv, Undisturbed, NEW t \in Threads,
         PollQuery(t) \/ PollDone(t) \/ StorePoll(t) \/ PollRaises(t) \/ CellsDone(t)
  PROVE OrphanInv'
<1>1. CASE PollQuery(t)
  <2>1. /\ UNCHANGED <<row, venue>> /\ thread[t].pc = "query"
        /\ Ends(t) \/ \E x \in thread[t].batch : Asked(t, x)
    BY <1>1, PollQueryStep
  <2>2. CASE Ends(t)
    BY <2>1, <2>2, OrphanEnds
  <2>3. ASSUME NEW x \in thread[t].batch, Asked(t, x) PROVE OrphanInv'
    <3>1. /\ SweepOK(t)' /\ \A u \in Threads \ {t} : thread'[u] = thread[u]
          /\ thread'[t].ord = x.id /\ thread'[t].vst = venue[x.id].st /\ thread'[t].pc # "cancelRow"
      BY <2>3 DEF SweepOK, Asked
    <3>2. \A u \in Threads \ {t} : thread[u].after # "sweep"
      BY <2>1, StopsAlone
    <3>3. QED
      BY <2>1, <3>1, <3>2, OrphanMove
  <2>4. QED
    BY <2>1, <2>2, <2>3
<1>2. CASE PollDone(t)
  <2>1. UNCHANGED <<row, venue>> /\ Ends(t) /\ thread[t].pc = "query"
    BY <1>2, PollDoneStep
  <2>2. QED
    BY <2>1, OrphanEnds
<1>3. CASE StorePoll(t)
  <2>1. /\ venue' = venue /\ thread[t].pc = "status" /\ thread'[t].after = "idle" /\ thread[t].ord \in Orders
        /\ thread[t].vst = "open" => row'[thread[t].ord].st \in {"open", "partial"}
        /\ \A x \in Orders \ {thread[t].ord} : row'[x] = row[x]
        /\ \A u \in Threads \ {t} : thread'[u] = thread[u]
        /\ \/ Ends(t)
           \/ /\ thread'[t].pc = "held" /\ thread'[t].ord = thread[t].ord
              /\ thread'[t].vst = thread[t].vst
    BY <1>3, StorePollStep
  <2>2. thread[t].vst # "open" => venue[thread[t].ord].st # "open"
    BY <2>1, OrphanFacts, OrdersAre
  <2>3. \A o \in Orders : venue[o].st = "open" => row'[o].st = row[o].st \/ row'[o].st \in {"open", "partial"}
    BY <2>1, <2>2
  <2>4. CASE Ends(t)
    BY <2>1, <2>3, <2>4, OrphanEnds
  <2>5. CASE thread'[t].pc = "held" /\ thread'[t].ord = thread[t].ord /\ thread'[t].vst = thread[t].vst
    <3>1. SweepOK(t)'
      BY <2>1 DEF SweepOK
    <3>2. \A u \in Threads \ {t} : thread[u].after # "sweep"
      BY <2>1, StopsAlone
    <3>3. QED
      BY <2>1, <2>2, <2>3, <2>5, <3>1, <3>2, OrphanMove
  <2>6. QED
    BY <2>1, <2>4, <2>5
<1>4. CASE PollRaises(t)
  <2>1. /\ venue' = venue /\ thread[t].pc \in {"cell", "cover"} /\ Ends(t) /\ thread[t].ord \in Orders
        /\ row'[thread[t].ord].st = "partial"
        /\ \A x \in Orders \ {thread[t].ord} : row'[x] = row[x]
    BY <1>4, PollRaisesStep
  <2>2. QED
    BY <2>1, OrphanEnds
<1>5. CASE CellsDone(t)
  <2>1. /\ UNCHANGED <<row, venue>> /\ thread[t].pc \in {"held", "seed", "enter"} /\ thread'[t].after = "idle"
        /\ thread'[t].pc \in {"seed", "idle", "query"}
        /\ IF thread[t].ord # 0 THEN Ends(t) /\ thread[t].pc = "held" ELSE Carries(t)
    BY <1>5, CellsDoneStep
  <2>2. CASE thread[t].ord # 0
    BY <2>1, <2>2, OrphanEnds
  <2>3. CASE thread[t].ord = 0
    BY <2>1, <2>3, OrphanOnward
  <2>4. QED
    BY <2>2, <2>3
<1>6. QED
  BY <1>1, <1>2, <1>3, <1>4, <1>5

LEMMA OrphanOther ==
  ASSUME Base, Base', OrphanInv, Undisturbed, NEW t \in Threads,
         MarkCell(t) \/ NextCell(t) \/ PostFill(t) \/ FillCell(t) \/ EnsureExitCoverage(t)
  PROVE OrphanInv'
<1>1. /\ Carries(t) /\ UNCHANGED <<row, venue>> /\ thread'[t].after # "sweep" /\ thread'[t].pc # "cancelRow"
      /\ thread[t].pc \in {"mark", "held", "seed", "enter", "post", "cell", "cover"}
  BY MarkStep, NextCellStep, PostFillStep, FillCellStep, CoverStep
<1>2. QED
  BY <1>1, OrphanOnward

\* An idle thread begins a pass or a poll while nobody stops the strategy.
LEMMA OrphanBegins ==
  ASSUME Base, Base', OrphanInv, Undisturbed, NEW t \in Threads, UNCHANGED <<row, venue>>,
         \A u \in Threads \ {t} : thread'[u] = thread[u], thread[t].pc # "insert",
         ~ShuttingDown, thread'[t].ord = 0, thread'[t].pc # "cancelRow", thread'[t].after # "sweep"
  PROVE OrphanInv'
<1>1. SweepOK(t)' /\ \A u \in Threads \ {t} : thread[u].after # "sweep"
  BY DEF SweepOK, ShuttingDown
<1>2. QED
  BY <1>1, OrphanMove

LEMMA OrphanPasses ==
  ASSUME Base, Base', OrphanInv, Undisturbed, Undisturbed',
         \/ HandleBoundary \/ SyncExitCoverage \/ SyncGridOrders \/ WithdrawOrders
         \/ PauseEntries \/ PollList \/ Register
  PROVE OrphanInv'
<1>1. CASE HandleBoundary \/ SyncExitCoverage \/ SyncGridOrders \/ WithdrawOrders
  <2>1. PICK S : UNCHANGED <<row, venue>> /\ Passes(S)
    BY <1>1, BeginStep
  <2>2. PICK a \in Afters \ {"sweep", "place"} : Starts("runner", a, S) /\ (ShuttingDown => "late" \in faults')
    BY <2>1 DEF Passes
  <2>3. /\ \A u \in Threads \ {"runner"} : thread'[u] = thread[u]
        /\ thread["runner"].pc # "insert" /\ thread'["runner"].pc # "cancelRow"
        /\ thread'["runner"].ord = 0 /\ thread'["runner"].after # "sweep"
    BY <2>2 DEF Starts
  <2>4. ~ShuttingDown /\ "runner" \in Threads
    BY <2>2, ThreadsAre DEF Undisturbed, Without
  <2>5. QED
    BY <2>1, <2>3, <2>4, OrphanBegins
<1>2. CASE PauseEntries
  <2>1. /\ Carries("runner") /\ UNCHANGED <<row, venue>> /\ thread["runner"].pc = "pause"
        /\ thread'["runner"] = Idle /\ "runner" \in Threads
    BY <1>2, PauseStep, ThreadsAre
  <2>2. QED
    BY <2>1, NullsTyped, OrphanOnward
<1>3. CASE PollList
  <2>1. /\ UNCHANGED <<row, venue>> /\ Lists("poller", {o \in Orders : Open(o)})
        /\ ShuttingDown => "late" \in faults'
    BY <1>3, PollListStep
  <2>2. ~ShuttingDown /\ "poller" \in Threads
    BY <2>1, ThreadsAre DEF Undisturbed, Without
  <2>3. /\ \A u \in Threads \ {"poller"} : thread'[u] = thread[u]
        /\ thread["poller"].pc # "insert" /\ thread'["poller"].pc # "cancelRow"
        /\ thread'["poller"].ord = 0 /\ thread'["poller"].after # "sweep"
    BY <2>1 DEF Lists
  <2>4. QED
    BY <2>1, <2>2, <2>3, OrphanBegins
<1>4. CASE Register
  <2>1. /\ UNCHANGED <<row, venue>> /\ Lists("runner", {o \in Orders : Open(o) \/ row[o].done < row[o].obs})
        /\ thread["stopper"].pc = "idle"
    BY <1>4, RegisterStep
  <2>2. /\ \A u \in Threads \ {"runner"} : thread'[u] = thread[u]
        /\ thread["runner"].pc = "idle" /\ thread'["runner"].pc # "cancelRow"
        /\ thread'["runner"].ord = 0 /\ thread'["runner"].after # "sweep"
    BY <2>1 DEF Lists
  <2>3. ~ShuttingDown /\ "runner" \in Threads
    <3>1. thread["runner"].after = "idle" /\ thread["stopper"].after = "idle" /\ thread["poller"].after # "sweep"
      BY <2>1, <2>2, ThreadsAre, IdleStopsNot DEF Base, ThreadInv
    <3>2. QED
      BY <3>1, ThreadsAre DEF ShuttingDown
  <2>4. QED
    BY <2>1, <2>2, <2>3, OrphanBegins
<1>5. QED
  BY <1>1, <1>2, <1>3, <1>4

LEMMA OrphanStill ==
  ASSUME Base, Base', OrphanInv, Undisturbed, UNCHANGED <<row, thread>>,
         \A o \in Orders : venue'[o].st = "open" => venue[o].st = "open"
  PROVE OrphanInv'
<1>1. ASSUME NEW o \in Orders, venue'[o].st = "open"
      PROVE Open(o)' \/ \E t \in Threads : thread'[t].pc = "insert" /\ thread'[t].own = o
  BY <1>1, OrphanFacts DEF Open
<1>2. ASSUME NEW t \in Threads
      PROVE /\ thread'[t].pc = "cancelRow" => venue'[thread'[t].own].st # "open"
            /\ thread'[t].ord # 0 /\ thread'[t].vst # "open" => venue'[thread'[t].ord].st # "open"
            /\ SweepOK(t)'
  <2>1. /\ thread[t].pc = "cancelRow" => thread[t].own \in Orders
        /\ thread[t].ord # 0 => thread[t].ord \in Orders
    <3>1. thread[t] \in Thread /\ ThreadOK(thread[t], used) /\ used \in 0 .. MaxOrders
      BY <1>2, ThreadFacts
    <3>2. QED
      BY <3>1, OrdersAre DEF ThreadOK, Thread, Orders
  <2>2. /\ thread[t].pc = "cancelRow" => venue[thread[t].own].st # "open"
        /\ thread[t].ord # 0 /\ thread[t].vst # "open" => venue[thread[t].ord].st # "open"
        /\ SweepOK(t)
    BY <1>2, OrphanFacts
  <2>3. SweepOK(t)'
    BY <2>2 DEF SweepOK
  <2>4. QED
    BY <2>1, <2>2, <2>3
<1>3. QED
  BY <1>1, <1>2 DEF OrphanInv, NoOrphan

LEMMA OrphanStep == Base /\ OrphanInv /\ [Next]_vars => OrphanInv'
<1> SUFFICES ASSUME Base, OrphanInv, [Next]_vars PROVE OrphanInv'
  OBVIOUS
<1>1. Base'
  BY BaseStep
<1>2. faults \subseteq faults'
  <2>1. ASSUME NEW t \in Threads, ThreadStep(t) \/ Shutdown(t) PROVE faults \subseteq faults'
    BY <2>1, CancelVenueStep, CancelRowStep, CancelsDoneStep, PlaceStep, InsertStep, MarkStep, NextCellStep,
       CellsDoneStep, PollQueryStep, PollDoneStep, PostFillStep, FillCellStep, CoverStep, StorePollStep,
       PollRaisesStep, SweepStep, ReleaseStep, ShutdownStep DEF ThreadStep, Step
  <2>2. CASE Restart \/ Startup \/ UNCHANGED vars
    BY <2>2 DEF Restart, Startup, vars
  <2>3. QED
    BY <2>1, <2>2, BeginStep, PauseStep, RegisterStep, PollListStep, VenueStep, CrashStep DEF Next
<1>3. CASE ~Undisturbed'
  BY <1>3 DEF OrphanInv, NoOrphan, Undisturbed
<1>4. CASE Undisturbed'
  <2>1. Undisturbed
    BY <1>2, <1>4 DEF Undisturbed, Without
  <2>2. ASSUME NEW t \in Threads, ThreadStep(t) \/ Shutdown(t) PROVE OrphanInv'
    BY <1>1, <1>4, <2>1, <2>2, OrphanCancels, OrphanPlaces, OrphanStops, OrphanPolls, OrphanOther
       DEF ThreadStep, Step
  <2>3. ASSUME NEW o \in Orders, VenueFills(o) \/ VenueCancels(o) PROVE OrphanInv'
    <3>1. UNCHANGED <<row, thread>> /\ \A x \in Orders : venue'[x].st = "open" => venue[x].st = "open"
      BY <2>3, VenueStep
    <3>2. QED
      BY <1>1, <2>1, <3>1, OrphanStill
  <2>4. CASE Restart \/ Startup \/ UNCHANGED vars
    <3>1. UNCHANGED <<row, thread, venue>>
      BY <2>4 DEF Restart, Startup, vars
    <3>2. QED
      BY <1>1, <2>1, <3>1, OrphanStill
  <2>5. CASE Crash
    BY <1>4, <2>5, CrashStep DEF Undisturbed, Without
  <2>6. QED
    BY <1>1, <1>4, <2>1, <2>2, <2>3, <2>4, <2>5, OrphanPasses DEF Next
<1>5. QED
  BY <1>3, <1>4

LEMMA OrphanInit == Init => OrphanInv
<1> SUFFICES ASSUME Init PROVE OrphanInv
  OBVIOUS
<1>1. \A t \in Threads : thread[t].pc = "idle" /\ thread[t].ord = 0 /\ thread[t].after = "idle"
  BY NullsTyped DEF Init
<1>2. \A o \in Orders : venue[o].st # "open"
  BY NullsTyped DEF Init
<1>3. QED
  BY <1>1, <1>2 DEF OrphanInv, NoOrphan, SweepOK

\* Every grid order that is open at the venue has an open row, or is about to get
\* one from the thread that placed it (NoOrphan), for every grid, any number of
\* orders and every interleaving of the runner, the poller and a stop: no
\* replacement, refused or late cancel, failed insert or poll loses an order
\* (_place_limit in engine.py, _poll_order in poller.py), but for the crash, the
\* failed clean-up and the overlapped stop the property names.
THEOREM OrdersHaveRows == Spec => []NoOrphan
<1>1. OrphanInv => NoOrphan
  BY DEF OrphanInv, NoOrphan
<1>2. QED
  BY BaseInit, BaseStep, OrphanInit, OrphanStep, <1>1, PTL DEF Spec
=============================================================================
