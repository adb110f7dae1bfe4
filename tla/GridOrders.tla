----------------------------- MODULE GridOrders ------------------------------
(***************************************************************************)
(* The resting orders of one live long grid.  The runner thread of the     *)
(* strategy hangs entry orders on idle cells and exit orders on cells that *)
(* hold inventory; the fill poller, a thread of the same process, asks the *)
(* venue about the open rows, posts new fills to the position and the      *)
(* trades, moves the cell on and hangs the exit; a stop withdraws all      *)
(* orders from the thread of the command.  All three use the engine        *)
(* without a lock: every transaction and every venue call is one step.     *)
(*                                                                         *)
(* A quantity is a number of units.  A short grid is the mirror image.     *)
(* Prices enter as the choice to cross a boundary or not; the initial      *)
(* market position, fees and the private stream are left out.              *)
(***************************************************************************)
EXTENDS Integers, FiniteSets, Totals

CONSTANTS
  Cells,      \* the cells of the grid
  NoCell,     \* not a cell
  Amount,     \* units of one grid line
  MaxOrders,  \* bound: orders placed in a behaviour
  Faults,     \* disturbances that may happen, a subset of FaultKinds
  MaxFaults   \* bound: disturbances in a behaviour

\* The process dies; the venue refuses an order or a cancel, in a replacement
\* or in a clean-up; an insert, a query or a posting fails; the fill handler
\* raises after the posting; the poll at startup overlaps the poller; the
\* strategy is stopped; the stop overlaps a poll or a pass; the price leaves
\* the grid; the position at the venue is not the strategy's; the venue cancels.
FaultKinds == {"crash", "refuse", "cancel", "cleanup", "insert", "query", "post", "raise",
               "overlap", "stop", "late", "boundary", "ownership", "venueCancel"}

ASSUME GridAssumption ==
  /\ IsFiniteSet(Cells) /\ NoCell \notin Cells /\ Amount \in Nat \ {0} /\ MaxOrders \in Nat
  /\ Faults \subseteq FaultKinds /\ MaxFaults \in Nat

VARIABLES
  row,      \* qd_grid_resting_orders
  venue,    \* the orders at the venue
  used,     \* number of orders placed
  cell,     \* qd_grid_cells
  posted,   \* quantity posted to position and trades, per order
  thread,   \* what the runner, the poller and a stop are doing
  active,   \* the runner is registered: the poller serves the strategy
  running,  \* the runner thread is alive
  wanted,   \* the status of the strategy is running
  paused,   \* _paused_entries of the engine
  seeded,   \* _initial_seeded_cells
  faults    \* the kinds of fault that have happened

life == <<active, running, wanted>>
vars == <<row, venue, used, cell, posted, thread, active, running, wanted, paused, seeded, faults>>

-----------------------------------------------------------------------------
(* Data *)

Orders == 1 .. MaxOrders
Threads == {"runner", "poller", "stopper"}

NoRow == [st |-> "none", obs |-> 0, done |-> 0]
Unplaced == [st |-> "none", cell |-> NoCell, buy |-> FALSE, qty |-> 0, fill |-> 0]
EmptyCell == [st |-> "idle", leg |-> 0]

Idle == [pc |-> "idle", after |-> "idle", ret |-> "idle", todo |-> {}, cells |-> {},
         batch |-> {}, ord |-> 0, new |-> 0, total |-> 0, vst |-> "none",
         prior |-> EmptyCell, cell |-> NoCell, buy |-> FALSE, qty |-> 0, own |-> 0,
         left |-> 0]

Pcs == {"idle", "cancel", "cancelRow", "pause", "held", "seed", "enter", "sweep",
        "release", "place", "insert", "mark", "query", "post", "cell", "cover", "status"}

\* Mutant: partly filled rows are not listed.
Untouched(o) == row[o].st = "open"

\* The rows list_open returns.
Open(o) == row[o].st \in {"open", "partial"}

OpenOf(c, buy) == {o \in Orders : Open(o) /\ venue[o].cell = c /\ venue[o].buy = buy}

\* What is left of a row, by what was processed of it.
Remaining(o) == venue[o].qty - row[o].done

MinOf(a, b) == IF a <= b THEN a ELSE b
MaxOf(a, b) == IF a >= b THEN a ELSE b

\* A quantity of the orders, bought less sold.
Net(q) ==
  Total([o \in Orders |-> IF venue[o].buy THEN q[o] ELSE 0])
    - Total([o \in Orders |-> IF venue[o].buy THEN 0 ELSE q[o]])

\* The strategy's position by its ledger, and the position at the venue.
Position == MaxOf(0, Net(posted))
VenuePosition == Net([o \in Orders |-> venue[o].fill])

\* What is left of a set of orders.
RemainingOf(S) == Total([o \in S |-> MaxOf(0, Remaining(o))])

OpenExitQty == RemainingOf({o \in Orders : Open(o) /\ ~venue[o].buy})
HeldCellQty == Total([c \in Cells |-> IF cell[c].st = "held" THEN cell[c].leg ELSE 0])

\* The cells a pass reads, with the quantity it would hang there.
HeldCells == {<<c, cell[c].leg>> : c \in {x \in Cells : cell[x].st = "held"}}
IdleCells == {<<c, Amount>> : c \in {x \in Cells : cell[x].st = "idle"}}

SetThread(t, w) == thread' = [thread EXCEPT ![t] = w]
\* A placement ends: the caller goes on.
Return(t) == [thread[t] EXCEPT !.pc = thread[t].ret, !.ret = "idle", !.cell = NoCell,
                               !.buy = FALSE, !.qty = 0, !.own = 0, !.after = "idle"]
Polling(t) == thread[t].pc = "query" \/ thread[t].ord # 0

\* A poll goes on with what is left of its list.
GoOn(batch) == IF batch = {} THEN Idle ELSE [Idle EXCEPT !.pc = "query", !.batch = batch]
Goto(t, pc) == thread' = [thread EXCEPT ![t].pc = pc]

\* The disturbances of these kinds happen in this step.  An overlap or a price
\* outside the grid goes on; a stop and its overlap count as one.
Disturb(kinds) ==
  /\ kinds \subseteq Faults /\ Cardinality((faults \cup kinds) \ {"late"}) <= MaxFaults
  /\ kinds \cap faults \subseteq {"overlap", "late", "boundary"}
  /\ faults' = faults \cup kinds
Fault(k) == Disturb({k})
When(cond, k) == IF cond THEN {k} ELSE {}
Without(kinds) == faults \cap kinds = {}

Init ==
  /\ row = [o \in Orders |-> NoRow]
  /\ venue = [o \in Orders |-> Unplaced]
  /\ used = 0
  /\ cell = [c \in Cells |-> EmptyCell]
  /\ posted = [o \in Orders |-> 0]
  /\ thread = [t \in Threads |-> Idle]
  /\ active = FALSE /\ running = FALSE /\ wanted = TRUE /\ paused = FALSE /\ seeded = {} /\ faults = {}

-----------------------------------------------------------------------------
(* Cancelling a list of orders.  Where the list is to be replaced ("place")  *)
(* an error ends the replacement; when entries are withdrawn ("pause") the   *)
(* row stays open; a clean-up closes the row whatever the venue says.        *)

CleanUp(t) == thread[t].after \in {"held", "enter", "sweep"}

\* Mutant: the rows of a failed withdrawal are closed too.
CloseRow(t, o) == [thread[t] EXCEPT !.pc = "cancelRow", !.own = o]

\* How a thread goes on when the venue refused to cancel o.
AfterRefusal(t, o) ==
  IF CleanUp(t) THEN [thread[t] EXCEPT !.pc = "cancelRow", !.own = o]
    ELSE IF thread[t].after = "place" THEN [Return(t) EXCEPT !.todo = {}]
    ELSE [thread[t] EXCEPT !.todo = @ \ {o}]

\* cancel_grid_order: the venue may refuse for an order that is over.
CancelAtVenue(t) ==
  \E o \in thread[t].todo :
    /\ thread[t].pc = "cancel"
    /\ \/ /\ venue' = IF venue[o].st = "open"
                        THEN [venue EXCEPT ![o].st = "cancelled"] ELSE venue
          /\ SetThread(t, [thread[t] EXCEPT !.pc = "cancelRow", !.own = o])
          /\ UNCHANGED faults
       \/ /\ venue[o].st # "open"
          /\ SetThread(t, AfterRefusal(t, o))
          /\ UNCHANGED <<venue, faults>>
       \/ /\ venue[o].st = "open"
          /\ Fault(IF CleanUp(t) THEN "cleanup" ELSE "cancel")
          /\ SetThread(t, AfterRefusal(t, o))
          /\ UNCHANGED venue
    /\ UNCHANGED <<row, used, cell, posted, life, paused, seeded>>

CancelRow(t) ==
  /\ thread[t].pc = "cancelRow"
  /\ row' = [row EXCEPT ![thread[t].own].st = "cancelled"]
  /\ SetThread(t, [thread[t] EXCEPT !.pc = "cancel", !.own = 0, !.todo = @ \ {thread[t].own}])
  /\ UNCHANGED <<venue, used, cell, posted, life, paused, seeded, faults>>

\* The list is through; the pass that follows reads the cells.
CancelsDone(t) ==
  LET w == thread[t] IN
  /\ w.pc = "cancel" /\ w.todo = {}
  /\ SetThread(t, [w EXCEPT
       !.pc = w.after,
       !.after = IF w.after = "sweep" THEN "sweep" ELSE "idle",
       !.cells = IF w.after = "held" THEN HeldCells
                 ELSE IF w.after = "enter" THEN IdleCells ELSE @])
  /\ UNCHANGED <<row, venue, used, cell, posted, life, paused, seeded, faults>>

-----------------------------------------------------------------------------
(* _place_limit *)

\* _resolve_grid_exit_quantity: no more than the strategy owns, the venue holds
\* and no resting exit has reserved.
ExitQuantity(q) ==
  MinOf(q, MaxOf(0, MinOf(Position, VenuePosition) - OpenExitQty))

PlaceLimit(t) ==
  LET w == thread[t]
      q == IF w.buy THEN w.qty ELSE ExitQuantity(w.qty)
  IN /\ w.pc = "place"
     /\ \/ /\ q <= 0 \/ used = MaxOrders
           /\ SetThread(t, Return(t))
           /\ UNCHANGED <<venue, used, faults>>
        \/ /\ q > 0 /\ Fault("refuse")
           /\ SetThread(t, Return(t))
           /\ UNCHANGED <<venue, used>>
        \/ /\ q > 0 /\ used < MaxOrders
           /\ used' = used + 1
           /\ venue' = [venue EXCEPT ![used + 1] =
                [st |-> "open", cell |-> w.cell, buy |-> w.buy, qty |-> q, fill |-> 0]]
           /\ SetThread(t, [w EXCEPT !.pc = "insert", !.own = used + 1, !.qty = q])
           /\ UNCHANGED faults
     /\ UNCHANGED <<row, cell, posted, life, paused, seeded>>

\* The row is inserted; when that fails the order is cancelled again.
InsertRow(t) ==
  LET o == thread[t].own IN
  /\ thread[t].pc = "insert"
  /\ \/ /\ row' = [row EXCEPT ![o].st = "open"]
        /\ Goto(t, "mark")
        /\ UNCHANGED <<venue, faults>>
     \/ /\ Fault("insert")
        /\ venue' = IF venue[o].st = "open"
                      THEN [venue EXCEPT ![o].st = "cancelled"] ELSE venue
        /\ SetThread(t, Return(t))
        /\ UNCHANGED row
  /\ UNCHANGED <<used, cell, posted, life, paused, seeded>>

\* The cell takes the state of the new order, whatever it says by now.  A
\* placement for seeding is remembered.
MarkCell(t) ==
  LET w == thread[t] IN
  /\ w.pc = "mark"
  /\ cell' = [cell EXCEPT ![w.cell] =
       [st |-> IF w.buy THEN "buyOpen" ELSE "held", leg |-> w.qty]]
  /\ seeded' = IF w.ret = "seed" THEN seeded \cup {w.cell} ELSE seeded
  /\ SetThread(t, [Return(t) EXCEPT !.left = IF w.ret = "seed" THEN @ - Amount ELSE 0])
  /\ UNCHANGED <<row, venue, used, posted, life, paused, faults>>

-----------------------------------------------------------------------------
(* Walking the cells: held cells without exit, idle cells to seed from       *)
(* unassigned inventory, idle cells to enter                                 *)

NoOrders(c) == OpenOf(c, TRUE) = {} /\ OpenOf(c, FALSE) = {}

\* Mutant: a cell that holds inventory is taken to have its exit.
NeverBare(c) == FALSE

\* A cell that lost its exit.
NeedsExit(c) == OpenOf(c, FALSE) = {}

\* Cell state and inventory are as the pass read them, the rows are read now.
Wanted(w, c) ==
  CASE w.pc = "held" -> NeedsExit(c)
    [] w.pc = "seed" -> c \notin seeded /\ NoOrders(c) /\ w.left >= Amount
    [] w.pc = "enter" -> NoOrders(c)

NextCell(t) ==
  \E x \in thread[t].cells :
    LET w == thread[t]
        rest == [w EXCEPT !.cells = @ \ {x}]
    IN /\ w.pc \in {"held", "seed", "enter"}
       /\ SetThread(t, IF ~Wanted(w, x[1]) \/ x[2] = 0 THEN rest
            ELSE [rest EXCEPT !.pc = "place", !.ret = w.pc, !.cell = x[1],
                    !.buy = (w.pc = "enter"), !.qty = x[2]])
       /\ UNCHANGED <<row, venue, used, cell, posted, life, paused, seeded, faults>>

\* After the held cells a coverage pass seeds; a poll goes on with its batch.
CellsDone(t) ==
  LET w == thread[t] IN
  /\ w.pc \in {"held", "seed", "enter"} /\ w.cells = {}
  /\ SetThread(t, IF w.ord # 0 THEN GoOn(w.batch)
                    ELSE IF w.pc = "held"
                      THEN [w EXCEPT !.pc = "seed", !.cells = IdleCells,
                                     !.left = @ - MaxOf(HeldCellQty, OpenExitQty)]
                    ELSE Idle)
  /\ UNCHANGED <<row, venue, used, cell, posted, life, paused, seeded, faults>>

-----------------------------------------------------------------------------
(* The runner *)

ShuttingDown == \E t \in Threads : thread[t].after = "sweep"
RunnerIdle == running /\ wanted /\ thread["runner"].pc = "idle"

\* A pass of the runner begins, possibly while a stop is under way.
Begin(w, kinds) ==
  /\ RunnerIdle
  /\ SetThread("runner", w)
  /\ Disturb(kinds \cup When(ShuttingDown, "late"))
  /\ UNCHANGED <<row, venue, used, cell, posted, life, paused, seeded>>

\* Mutant: duplicates are left alone.
NoDuplicates(buy) == {}

\* All but the largest of several open orders of a cell.
Duplicates(buy) ==
  UNION {LET os == OpenOf(c, buy) IN
         IF Cardinality(os) <= 1 THEN {}
           ELSE os \ {CHOOSE o \in os : \A x \in os : Remaining(o) >= Remaining(x)}
         : c \in Cells}

\* The price leaves the grid: entries are withdrawn, then paused.
HandleBoundary ==
  Begin([Idle EXCEPT !.pc = "cancel", !.after = "pause",
                     !.todo = {o \in Orders : Open(o) /\ venue[o].buy}], {"boundary"})

PauseEntries ==
  /\ thread["runner"].pc = "pause"
  /\ paused' = TRUE
  /\ SetThread("runner", Idle)
  /\ UNCHANGED <<row, venue, used, cell, posted, life, seeded, faults>>

SyncExitCoverage ==
  /\ Position > 0
  /\ Begin([Idle EXCEPT !.pc = "cancel", !.after = "held",
                        !.todo = Duplicates(FALSE), !.left = Position], {})

SyncGridOrders ==
  /\ ~paused
  /\ Begin([Idle EXCEPT !.pc = "cancel", !.after = "enter", !.todo = Duplicates(TRUE)], {})

\* The entries, and the exits too when the account holds less than it should,
\* are withdrawn when the venue's position is not the strategy's to add to.
WithdrawOrders ==
  \E exits \in BOOLEAN :
    /\ ~paused
    /\ Begin([Idle EXCEPT !.pc = "cancel",
                          !.todo = {o \in Orders : Open(o) /\ (venue[o].buy \/ exits)}],
             {"ownership"})

\* A stop: every open row is cancelled at the venue, by the thread of the stop
\* command and once more by the runner when it ends.
Shutdown(t) ==
  /\ thread[t].pc = "idle"
  /\ IF t = "stopper" THEN wanted ELSE t = "runner" /\ running /\ ~wanted
  /\ Disturb(When(t = "stopper", "stop") \cup
             When(\E u \in Threads : thread[u].pc # "idle", "late"))
  /\ SetThread(t, [Idle EXCEPT !.pc = "cancel", !.after = "sweep",
                               !.todo = {o \in Orders : Open(o)}])
  /\ UNCHANGED <<row, venue, used, cell, posted, life, paused, seeded>>

\* What is open by then is closed in the table.
SweepRows(t) ==
  /\ thread[t].pc = "sweep"
  /\ row' = [o \in Orders |-> IF Open(o) THEN [row[o] EXCEPT !.st = "cancelled"] ELSE row[o]]
  /\ Goto(t, "release")
  /\ UNCHANGED <<venue, used, cell, posted, life, paused, seeded, faults>>

\* Cells without inventory are released and the runner is unregistered; the
\* status is stopped, or the runner ends.
ReleaseCells(t) ==
  /\ thread[t].pc = "release"
  /\ cell' = [c \in Cells |-> IF cell[c].st = "buyOpen" THEN EmptyCell ELSE cell[c]]
  /\ SetThread(t, Idle)
  /\ active' = FALSE
  /\ wanted' = FALSE
  /\ running' = (running /\ t = "stopper")
  /\ UNCHANGED <<row, venue, used, posted, paused, seeded, faults>>

\* The strategy is started again by its user, ...
Restart ==
  /\ ~running /\ ~wanted /\ thread["stopper"].pc = "idle"
  /\ wanted' = TRUE
  /\ UNCHANGED <<row, venue, used, cell, posted, thread, active, running, paused, seeded, faults>>

\* ... a runner starts on the rows and cells it finds, ...
Startup ==
  /\ ~running /\ wanted /\ thread["stopper"].pc = "idle"
  /\ running' = TRUE /\ paused' = FALSE
  /\ UNCHANGED <<row, venue, used, cell, posted, thread, active, wanted, seeded, faults>>

-----------------------------------------------------------------------------
(* The poller *)

Batch(S) == {[id |-> o, done |-> row[o].done, obs |-> row[o].obs] : o \in S}

\* The poller reads the open rows.
PollList ==
  /\ active /\ thread["poller"].pc = "idle"
  /\ \E o \in Orders : Open(o)
  /\ Disturb(When(ShuttingDown, "late") \cup When(Polling("runner"), "overlap"))
  /\ SetThread("poller", GoOn(Batch({o \in Orders : Open(o)})))
  /\ UNCHANGED <<row, venue, used, cell, posted, life, paused, seeded>>

\* The starting runner registers and polls the open rows and the rows with a
\* fill that was seen and not processed, beside the poller.
Register ==
  /\ RunnerIdle /\ ~active /\ thread["stopper"].pc = "idle"
  /\ Disturb(When(Polling("poller"), "overlap"))
  /\ active' = TRUE
  /\ SetThread("runner", GoOn(Batch({o \in Orders : Open(o) \/ row[o].done < row[o].obs})))
  /\ UNCHANGED <<row, venue, used, cell, posted, running, wanted, paused, seeded>>

\* The venue answers for one row of the list, or does not.
PollQuery(t) ==
  \E x \in thread[t].batch :
    LET v == venue[x.id]
        total == IF v.fill > 0 THEN v.fill ELSE x.obs
        rest == thread[t].batch \ {x}
    IN /\ thread[t].pc = "query" /\ (active \/ t = "runner")
       /\ \/ /\ SetThread(t, [Idle EXCEPT
                  !.pc = IF total > x.done THEN "post" ELSE "status",
                  !.batch = rest, !.ord = x.id, !.new = total - x.done,
                  !.total = total, !.vst = v.st])
             /\ UNCHANGED faults
          \/ Fault("query") /\ SetThread(t, GoOn(rest))
       /\ UNCHANGED <<row, venue, used, cell, posted, life, paused, seeded>>

\* The poller leaves a strategy that is no longer registered.
PollDone(t) ==
  /\ thread[t].pc = "query" /\ ~active /\ t = "poller"
  /\ SetThread(t, Idle)
  /\ UNCHANGED <<row, venue, used, cell, posted, life, paused, seeded, faults>>

\* on_order_filled: the fill is posted, an error of which is only logged, and
\* the cell is read.  While entries are paused an entry fill ends here.
PostFill(t) ==
  LET w == thread[t]
      v == venue[w.ord]
  IN /\ w.pc = "post"
     /\ \/ posted' = [posted EXCEPT ![w.ord] = @ + w.new] /\ UNCHANGED faults
        \/ Fault("post") /\ UNCHANGED posted
     /\ SetThread(t, [w EXCEPT !.pc = IF paused /\ v.buy THEN "status" ELSE "cell",
                               !.prior = cell[v.cell]])
     /\ UNCHANGED <<row, venue, used, cell, life, paused, seeded>>

\* What a cell holds after an entry fill.
HeldAfterEntry(prior, new) == new + (IF prior.st = "held" THEN prior.leg ELSE 0)

\* Mutant: the rest is not kept from going below zero.
OverSold(prior, new) == prior.leg - new

\* What a cell holds after an exit fill.
HeldAfterExit(prior, new) == MaxOf(0, prior.leg - new)

\* An entry fill makes the cell held, an exit fill reduces it and, when nothing
\* is left and the cell allows it, hangs the next entry.
FillCell(t) ==
  LET w == [thread[t] EXCEPT !.prior = EmptyCell]
      prior == thread[t].prior
      c == venue[w.ord].cell
      buy == venue[w.ord].buy
      leg == IF buy THEN HeldAfterEntry(prior, w.new) ELSE HeldAfterExit(prior, w.new)
      after == [st |-> IF leg > 0 THEN "held" ELSE "idle", leg |-> leg]
      again == ~buy /\ leg = 0 /\ ~paused /\ NoOrders(c)
  IN /\ w.pc = "cell"
     /\ cell' = [cell EXCEPT ![c] = after]
     /\ SetThread(t,
          IF buy THEN [w EXCEPT !.pc = "cover", !.qty = leg]
          ELSE IF again THEN [w EXCEPT !.pc = "place", !.ret = "status",
                                         !.cell = c, !.buy = TRUE, !.qty = w.new]
          ELSE [w EXCEPT !.pc = "status"])
     /\ UNCHANGED <<row, venue, used, posted, life, paused, seeded, faults>>

\* _ensure_cell_exit_coverage: exits that do not add up to what the cell holds
\* are cancelled and replaced by one that does.
EnsureExitCoverage(t) ==
  LET w == thread[t]
      c == venue[w.ord].cell
      exits == OpenOf(c, FALSE)
  IN /\ w.pc = "cover"
     /\ SetThread(t, IF RemainingOf(exits) = w.qty THEN [w EXCEPT !.pc = "status", !.qty = 0]
                     ELSE [w EXCEPT !.pc = "cancel", !.after = "place", !.todo = exits,
                                    !.ret = "status", !.cell = c])
     /\ UNCHANGED <<row, venue, used, cell, posted, life, paused, seeded, faults>>

\* Mutant: the processed quantity is not stored.
UnprocessedRow(r, w) ==
  [r EXCEPT !.obs = w.total,
            !.st = IF w.vst = "open" /\ w.total > 0 THEN "partial" ELSE w.vst]

\* The row after a poll.
PolledRow(r, w) ==
  [st |-> IF w.vst = "open" /\ w.total > 0 THEN "partial" ELSE w.vst,
   obs |-> w.total, done |-> w.total]

\* The answer is stored; a cancelled partial fill may have left a cell without
\* its exit.
StorePoll(t) ==
  LET w == thread[t] IN
  /\ w.pc = "status"
  /\ row' = [row EXCEPT ![w.ord] = PolledRow(@, w)]
  /\ SetThread(t, IF w.vst = "cancelled" /\ w.total > 0
       THEN [w EXCEPT !.pc = "held", !.cells = HeldCells]
       ELSE GoOn(w.batch))
  /\ UNCHANGED <<venue, used, cell, posted, life, paused, seeded, faults>>

\* The handler raises after the posting: the fill is left to be processed.
PollRaises(t) ==
  LET w == thread[t] IN
  /\ w.pc \in {"cell", "cover"} /\ Fault("raise")
  /\ row' = [row EXCEPT ![w.ord] = [row[w.ord] EXCEPT !.st = "partial", !.obs = w.total]]
  /\ SetThread(t, GoOn(w.batch))
  /\ UNCHANGED <<venue, used, cell, posted, life, paused, seeded>>

-----------------------------------------------------------------------------
(* The venue and the process *)

VenueFills(o) ==
  /\ venue[o].st = "open" /\ (venue[o].buy \/ VenuePosition > 0)
  /\ venue' = [venue EXCEPT ![o] =
       [venue[o] EXCEPT !.fill = @ + 1,
                        !.st = IF venue[o].fill + 1 = venue[o].qty THEN "filled" ELSE "open"]]
  /\ UNCHANGED <<row, used, cell, posted, thread, life, paused, seeded, faults>>

VenueCancels(o) ==
  /\ venue[o].st = "open" /\ Fault("venueCancel")
  /\ venue' = [venue EXCEPT ![o].st = "cancelled"]
  /\ UNCHANGED <<row, used, cell, posted, thread, life, paused, seeded>>

\* The process dies with both threads.
Crash ==
  /\ running /\ Fault("crash")
  /\ thread' = [t \in Threads |-> Idle]
  /\ active' = FALSE /\ running' = FALSE
  /\ UNCHANGED <<row, venue, used, cell, posted, wanted, paused, seeded>>

Step(t) ==
  \/ CancelAtVenue(t) \/ CancelRow(t) \/ CancelsDone(t)
  \/ PlaceLimit(t) \/ InsertRow(t) \/ MarkCell(t)
  \/ NextCell(t) \/ CellsDone(t)
  \/ PollQuery(t) \/ PollDone(t) \/ PostFill(t) \/ FillCell(t)
  \/ EnsureExitCoverage(t) \/ StorePoll(t) \/ PollRaises(t)

ThreadStep(t) == Step(t) \/ SweepRows(t) \/ ReleaseCells(t)

Next ==
  \/ \E t \in Threads : ThreadStep(t) \/ Shutdown(t)
  \/ HandleBoundary \/ PauseEntries \/ SyncExitCoverage \/ SyncGridOrders \/ WithdrawOrders
  \/ Restart \/ Startup \/ Register \/ PollList
  \/ \E o \in Orders : VenueFills(o) \/ VenueCancels(o)
  \/ Crash

Spec == Init /\ [][Next]_vars

\* Every thread goes on with what it has begun, the poller polls, the passes of
\* the runner come round as long as the strategy is to run, the runner starts
\* and registers, and it ends when the strategy is stopped.  Nothing is assumed
\* of prices, users and the venue.
Fairness ==
  /\ \A t \in Threads : WF_vars(ThreadStep(t))
  /\ WF_vars(PauseEntries) /\ WF_vars(Shutdown("runner")) /\ WF_vars(Startup)
  /\ SF_vars(Register) /\ SF_vars(PollList)
  /\ SF_vars(SyncExitCoverage) /\ SF_vars(SyncGridOrders)

FairSpec == Spec /\ Fairness

-----------------------------------------------------------------------------
(* Properties *)

Row == [st : {"none", "open", "partial", "filled", "cancelled"}, obs : Nat, done : Nat]
OrderStates == {"none", "open", "filled", "cancelled"}
VenueOrder == [st : OrderStates, cell : Cells \cup {NoCell},
               buy : BOOLEAN, qty : Nat, fill : Nat]
Cell == [st : {"idle", "buyOpen", "held"}, leg : Nat]

\* Type invariant of the tables, the venue and the two threads.
GridTypeOK ==
  /\ row \in [Orders -> Row] /\ venue \in [Orders -> VenueOrder]
  /\ used \in 0 .. MaxOrders
  /\ cell \in [Cells -> Cell]
  /\ posted \in [Orders -> Nat]
  /\ \A t \in Threads : thread[t].pc \in Pcs
  /\ {active, running, wanted} \subseteq BOOLEAN /\ paused \in BOOLEAN /\ seeded \subseteq Cells
  /\ faults \subseteq Faults

\* A fill is posted to the position and the trades at most once, over partial
\* fills, cancels and restarts (_poll_order, processed_fill_qty), unless a crash,
\* an exception or a second poll comes between posting and storing.
PostedOnce ==
  Without({"crash", "raise", "overlap"}) => \A o \in Orders : posted[o] <= venue[o].fill

\* An order at the venue has an open row, or the thread that placed it is about
\* to insert it (_place_limit, _cancel_position_orders_on_exchange), so that
\* polls, passes and the stop reach it; a stop that overlaps nothing leaves none.
NoOrphan ==
  Without({"crash", "cleanup", "late"}) =>
    \A o \in Orders : venue[o].st = "open" =>
      Open(o) \/ \E t \in Threads : thread[t].pc = "insert" /\ thread[t].own = o

\* A cell holds inventory the strategy may sell and no exit rests there.
Bare(c) ==
  /\ wanted /\ cell[c].st = "held" /\ OpenOf(c, FALSE) = {}
  /\ ExitQuantity(cell[c].leg) > 0

\* A cell that holds sellable inventory without an exit gets one, by the handler
\* of the fill or by a later pass of the runner (sync_held_cell_exits), however
\* the two interleave, as long as the bound on orders allows.
HeldCovered == \A c \in Cells : Bare(c) ~> (~Bare(c) \/ used = MaxOrders)

\* A fill of an open row is posted, unless the row is cancelled over it, the
\* strategy is stopped or the posting failed (_poll_once, list_open).
FillPosted ==
  \A o \in Orders :
    (row[o].st \in {"open", "partial"} /\ posted[o] < venue[o].fill)
      ~> (row[o].st = "cancelled" \/ posted[o] >= venue[o].fill \/ ~wanted \/ ~Without({"post"}))

\* Two exits on one cell, hung by the poller and the runner for the same
\* inventory, do not stay (_dedupe_open_exit_orders).
ExitsDeduped ==
  \A c \in Cells :
    Cardinality(OpenOf(c, FALSE)) > 1
      ~> (Cardinality(OpenOf(c, FALSE)) <= 1 \/ ~wanted \/ Position = 0)
-----------------------------------------------------------------------------
(* Inductive invariants, for the proofs *)

Afters == {"idle", "place", "pause", "held", "enter", "sweep"}
Returns == {"idle", "status", "held", "seed", "enter"}

Thread ==
  [pc : Pcs, after : Afters, ret : Returns, todo : SUBSET Orders,
   cells : SUBSET (Cells \X Nat), batch : SUBSET [id : Orders, done : Nat, obs : Nat],
   ord : {0} \cup Orders, new : Int, total : Nat, vst : OrderStates, prior : Cell,
   cell : Cells \cup {NoCell}, buy : BOOLEAN, qty : Nat, own : {0} \cup Orders, left : Int]

\* Orders are numbered as they are placed.
PlacedInv ==
  \A o \in Orders :
    IF o <= used THEN venue[o].cell \in Cells /\ venue[o].st # "none"
      ELSE venue[o] = Unplaced /\ row[o] = NoRow

\* A thread that places an order has its cell and knows where to return to; one
\* that handles a poll has its order, and one that stops keeps saying so.  The
\* orders it knows are among the n placed.
ThreadOK(w, n) ==
  /\ \A o \in w.todo \cup {x.id : x \in w.batch} : o <= n
  /\ w.ord <= n
  /\ w.pc \in {"insert", "cancelRow"} => w.own \in 1 .. n
  /\ w.pc \in {"place", "insert", "mark"} \/ w.after = "place" => w.cell \in Cells /\ w.ret # "idle"
  /\ w.ret = "status" => w.ord # 0
  /\ w.pc \in {"post", "cell"} => w.new > 0
  /\ w.pc \in {"post", "cell", "cover", "status"} => w.ord # 0
  /\ w.pc \in {"idle", "query", "pause", "seed", "enter", "sweep", "release"} => w.ord = 0
  /\ w.pc \in {"cancel", "cancelRow"} /\ w.ord # 0 => w.after = "place"
  /\ w.ret \in {"seed", "enter"} => w.ord = 0
  /\ w.pc # "query" /\ w.ord = 0 => w.batch = {}
  /\ w.after # "idle" => w.pc \in {"cancel", "cancelRow", "sweep", "release"}
  /\ w.pc \in {"sweep", "release"} => w.after = "sweep"
  /\ w.after = "place" => w.ord # 0

ThreadInv ==
  /\ thread \in [Threads -> Thread]
  /\ \A t \in Threads : ThreadOK(thread[t], used)
  /\ thread["poller"].after # "sweep" /\ ~Polling("stopper")

\* What a poll has read is there, nobody else stores it meanwhile, and a fill it
\* posts is the part of the answer that was not processed.
PollOK(t) ==
  LET w == thread[t] IN
  /\ \A x \in w.batch : /\ x.done = row[x.id].done /\ x.obs <= venue[x.id].fill
                         /\ x.id # w.ord /\ \A y \in w.batch : x.id = y.id => x = y
  /\ w.ord # 0 =>
       /\ row[w.ord].done <= w.total /\ posted[w.ord] <= w.total /\ w.total <= venue[w.ord].fill
       /\ w.pc = "post" => posted[w.ord] <= row[w.ord].done /\ w.new = w.total - row[w.ord].done
       /\ w.pc = "held" \/ w.ret = "held" => row[w.ord].done = w.total

\* A fill is posted beyond what its row says is processed only while the poll
\* that posted it is about to store it.
PostedOK(o) ==
  /\ row[o].obs <= venue[o].fill /\ row[o].done <= venue[o].fill
  /\ posted[o] <= row[o].done \/ \E t \in Threads : thread[t].ord = o /\ thread[t].pc # "post"

PostInv ==
  Without({"crash", "raise", "overlap"}) =>
    /\ ~(Polling("runner") /\ Polling("poller"))
    /\ \A t \in Threads : PollOK(t)
    /\ \A o \in Orders : PostedOK(o)

\* A row is closed only when its order is over: a cancel was accepted or came too
\* late, the venue said so, or a stop, which is alone, has gone through its list.
SweepOK(t) ==
  LET w == thread[t] IN
  w.after = "sweep" =>
    /\ \A u \in Threads \ {t} : thread[u].pc = "idle"
    /\ \A o \in Orders : venue[o].st = "open" => w.pc \in {"cancel", "cancelRow"} /\ o \in w.todo

OrphanInv ==
  Without({"crash", "cleanup", "late"}) =>
    /\ NoOrphan
    /\ \A t \in Threads :
         /\ thread[t].pc = "cancelRow" => venue[thread[t].own].st # "open"
         /\ thread[t].ord # 0 /\ thread[t].vst # "open" => venue[thread[t].ord].st # "open"
         /\ SweepOK(t)
=============================================================================
