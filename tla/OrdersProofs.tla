---------------------------- MODULE OrdersProofs -----------------------------
(* Theorems about PendingOrders and ExecutionStreams, for every value of their *)
(* constants.                                                                  *)
EXTENDS ExecutionStreams, TotalsProofs

\* A worker dies: a sync that dies is remembered.
WorkerGone(p) ==
  /\ SetWorker(p, Idle)
  /\ faults \subseteq faults' /\ faults' \subseteq Faults
  /\ Syncing(p) => "syncCrash" \in faults'
  /\ UNCHANGED <<row, venue, traded, applied>>

\* A worker claims a sent row, as in the queue or for an audit.
SentClaimed(p, o) == ClaimSentRow(p, o) /\ faults \subseteq faults' /\ faults' \subseteq Faults

\* The steps of the queue that both specifications have.
CoreNext ==
  \/ \E o \in Orders : Submit(o) \/ RequeueProcessing(o) \/ RequeueSyncing(o)
  \/ \E p \in Procs, o \in Orders : Claim(p, o) \/ SentClaimed(p, o)
  \/ \E p \in Procs : WorkerStep(p) \/ WorkerGone(p)
  \/ \E o \in Orders, l \in Legs : VenueFills(o, l) \/ VenueCancels(o, l)

LEMMA FaultStep ==
  ASSUME NEW k, faults \subseteq Faults, Fault(k)
  PROVE faults' = faults \cup {k} /\ faults' \subseteq Faults
BY DEF Fault

LEMMA NextIsCore == PendingTypeOK /\ [Next]_vars => CoreNext \/ UNCHANGED vars
<1> SUFFICES ASSUME PendingTypeOK, Next PROVE CoreNext
  OBVIOUS
<1>1. ASSUME NEW p \in Procs, NEW o \in Orders, ClaimSent(p, o) PROVE SentClaimed(p, o)
  BY <1>1 DEF ClaimSent, SentClaimed, PendingTypeOK
<1>2. ASSUME NEW p \in Procs, Crash(p) PROVE WorkerGone(p)
  <2>1. \E k : Fault(k) /\ (Syncing(p) => k = "syncCrash")
    BY <1>2 DEF Crash
  <2>2. faults \subseteq faults' /\ faults' \subseteq Faults /\ (Syncing(p) => "syncCrash" \in faults')
    BY <2>1, FaultStep DEF PendingTypeOK
  <2>3. QED
    BY <1>2, <2>2 DEF Crash, WorkerGone
<1>3. QED
  BY <1>1, <1>2 DEF Next, CoreNext

-----------------------------------------------------------------------------
(* Legs *)

LEMMA LegFacts ==
  /\ <<"lmt", 0>> \in Legs /\ <<"mkt", 0>> \in Legs /\ <<"lmt", 0>> # <<"mkt", 0>>
  /\ NoLeg \notin Legs
  /\ \A i \in 1 .. MaxAttempts : <<"new", i>> \in Legs
  /\ \A i : <<"new", i>> # <<"lmt", 0>> /\ <<"new", i>> # <<"mkt", 0>>
BY DEF Legs, NoLeg

LEMMA LegsOfKind ==
  /\ LegsOf("market") = {<<"mkt", 0>>} /\ LegsOf("limit") = {<<"lmt", 0>>}
  /\ LegsOf("maker") = {<<"lmt", 0>>, <<"mkt", 0>>}
  /\ LegsOf("alpaca") = {"new"} \X (1 .. MaxAttempts)
  /\ LegsOf("signal") = {} /\ LegsOf("none") = {}
BY DEF LegsOf

LEMMA LegsOfLegs == \A a \in AlgoKinds \cup {"none"} : LegsOf(a) \subseteq Legs
BY LegsOfKind, LegFacts DEF Legs, AlgoKinds

LEMMA LegsFinite == IsFiniteSet(Legs)
<1> DEFINE A == {<<"lmt", 0>>, <<"mkt", 0>>}
           B == {"new"} \X (1 .. MaxAttempts)
<1>1. IsFiniteSet(B)
  BY AttemptsAssumption, RowUnits
<1>2. IsFiniteSet({<<"lmt", 0>>}) /\ IsFiniteSet({<<"mkt", 0>>})
  BY FS_Singleton
<1>3. A = {<<"lmt", 0>>} \cup {<<"mkt", 0>>}
  OBVIOUS
<1>4. IsFiniteSet(A)
  BY <1>2, <1>3, FS_Union
<1> HIDE DEF A, B
<1>5. IsFiniteSet(A \cup B)
  BY <1>1, <1>4, FS_Union
<1>6. QED
  BY <1>5 DEF Legs, A, B

-----------------------------------------------------------------------------
(* Types, and the shape of a worker's state *)

Base == PendingTypeOK /\ ThreadInv /\ LegInv

LEMMA NullsTyped ==
  /\ NoRow \in Row /\ NoRow.st = "none" /\ NoRow.algo = "none" /\ NoRow.leg = NoLeg
  /\ Idle \in Thread /\ Idle.pc = "idle" /\ Idle.ord = NoOrder /\ Idle.leg = NoLeg
  /\ Idle.after = "idle" /\ Idle.got = 0 /\ Idle.lim = 0 /\ Idle.mkt = -1 /\ Idle.delta = 0
  /\ Unplaced \in VenueLeg /\ Unplaced.st = "none" /\ Unplaced.fill = 0 /\ Unplaced.qty = 0
BY OrdersAssumption, AmountAssumption, AttemptsAssumption
   DEF NoRow, Row, Statuses, Idle, Thread, Pcs, OrderIds, LegStates, Unplaced, VenueLeg

\* One row, or one thread, is written.
LEMMA RowSet ==
  ASSUME row \in [Orders -> Row], NEW o \in Orders, NEW r \in Row, SetRow(o, r)
  PROVE /\ row' \in [Orders -> Row] /\ row'[o] = r
        /\ \A x \in Orders \ {o} : row'[x] = row[x]
BY DEF SetRow

LEMMA WorkerSet ==
  ASSUME worker \in [Procs -> Thread], NEW p \in Procs, NEW w \in Thread, SetWorker(p, w)
  PROVE /\ worker' \in [Procs -> Thread] /\ worker'[p] = w
        /\ \A x \in Procs \ {p} : worker'[x] = worker[x]
BY DEF SetWorker

\* The kind of an order never changes once its row is inserted.
AlgoKept == \A o \in Orders : row[o].algo # "none" => row'[o].algo = row[o].algo

LEMMA ThreadFrame ==
  ASSUME ThreadInv, AlgoKept, worker \in [Procs -> Thread],
         NEW p \in Procs, worker'[p] = worker[p]
  PROVE ThreadOK(worker[p])'
<1>1. CASE worker[p].pc = "idle"
  <2>1. worker'[p] = Idle
    BY <1>1 DEF ThreadInv, ThreadOK
  <2>2. QED
    BY <2>1, NullsTyped, AmountAssumption DEF ThreadOK
<1>2. CASE worker[p].pc # "idle"
  <2>1. ThreadOK(worker[p]) /\ worker[p].ord \in Orders /\ row[worker[p].ord].algo # "none"
    BY <1>2 DEF ThreadInv, ThreadOK
  <2>2. row'[worker[p].ord].algo = row[worker[p].ord].algo
    BY <2>1 DEF AlgoKept
  <2>3. QED
    BY <1>2, <2>1, <2>2 DEF ThreadOK
<1>3. QED
  BY <1>1, <1>2

LEMMA ThreadStep ==
  ASSUME Base, AlgoKept, NEW p \in Procs, NEW w \in Thread, SetWorker(p, w), ThreadOK(w)'
  PROVE ThreadInv'
<1>1. worker'[p] = w /\ \A x \in Procs \ {p} : worker'[x] = worker[x]
  BY WorkerSet DEF Base, PendingTypeOK
<1>2. QED
  BY <1>1, ThreadFrame DEF ThreadInv, Base, PendingTypeOK

\* What Base says of a worker that is on an order.
LEMMA OnOrder ==
  ASSUME Base, NEW p \in Procs, worker[p].pc # "idle"
  PROVE /\ worker[p].ord \in Orders /\ worker[p] \in Thread /\ row[worker[p].ord] \in Row
        /\ row[worker[p].ord].algo \in AlgoKinds /\ row[worker[p].ord].st # "none"
        /\ worker[p].leg # NoLeg => worker[p].leg \in Legs
        /\ ThreadOK(worker[p])
<1>1. ThreadOK(worker[p]) /\ worker[p] \in Thread
  BY DEF Base, PendingTypeOK, ThreadInv
<1>2. worker[p].ord \in Orders /\ row[worker[p].ord].algo # "none"
  BY <1>1 DEF ThreadOK
<1>3. row[worker[p].ord] \in Row
  BY <1>2 DEF Base, PendingTypeOK
<1>4. row[worker[p].ord].st # "none"
  BY <1>2, NullsTyped DEF Base, LegInv
<1>5. QED
  BY <1>1, <1>2, <1>3, <1>4 DEF Row, Thread

\* The rows change, the legs do not.
LEMMA LegFrame ==
  ASSUME Base, AlgoKept, row' \in [Orders -> Row], venue' = venue,
         \A o \in Orders : \/ row'[o] = row[o]
                           \/ /\ row'[o].st # "none" /\ row'[o].algo # "none"
                              /\ row'[o].leg # NoLeg => row'[o].leg \in LegsOf(row'[o].algo)
  PROVE LegInv'
<1> SUFFICES ASSUME NEW o \in Orders
             PROVE /\ row'[o].st = "none" \/ row'[o].algo = "none" => row'[o] = NoRow
                   /\ row'[o].leg # NoLeg => row'[o].leg \in LegsOf(row'[o].algo)
                   /\ \A l \in Legs :
                       /\ venue'[o][l].st # "none" => l \in LegsOf(row'[o].algo)
                       /\ venue'[o][l].st = "none" => venue'[o][l] = Unplaced
                       /\ venue'[o][l].st = "open" => venue'[o][l].fill < venue'[o][l].qty
  BY DEF LegInv
<1>1. \A l \in Legs : venue[o][l].st # "none" => row[o].algo # "none"
  BY LegsOfKind DEF Base, LegInv
<1>2. QED
  BY <1>1 DEF Base, LegInv, AlgoKept

LEMMA BaseInit == Init => Base
BY NullsTyped, AmountAssumption, LegsOfKind
   DEF Init, Base, PendingTypeOK, ThreadInv, ThreadOK, LegInv, Statuses

LEMMA BaseSubmit == ASSUME Base, NEW o \in Orders, Submit(o) PROVE Base'
<1>1. PICK a \in Algos : SetRow(o, [NoRow EXCEPT !.st = "pending", !.algo = a])
  BY DEF Submit
<1> DEFINE r == [NoRow EXCEPT !.st = "pending", !.algo = a]
<1>2. r \in Row /\ r.algo = a /\ r.st = "pending" /\ r.leg = NoLeg
  BY AlgosAssumption, NullsTyped DEF Row, Statuses
<1> HIDE DEF r
<1>3. row' \in [Orders -> Row] /\ row'[o] = r /\ \A x \in Orders \ {o} : row'[x] = row[x]
  BY <1>1, <1>2, RowSet DEF Base, PendingTypeOK, r
<1>4. row[o].algo = "none"
  BY NullsTyped DEF Submit, Base, LegInv
<1>5. AlgoKept
  BY <1>3, <1>4 DEF AlgoKept
<1>6. UNCHANGED <<venue, traded, applied, worker, faults>>
  BY DEF Submit
<1>7. PendingTypeOK'
  BY <1>3, <1>6 DEF Base, PendingTypeOK
<1>8. ThreadInv'
  BY <1>5, <1>6, ThreadFrame DEF Base, PendingTypeOK, ThreadInv
<1>9. LegInv'
  BY <1>2, <1>3, <1>5, <1>6, LegFrame, AlgosAssumption DEF AlgoKinds
<1>10. QED
  BY <1>7, <1>8, <1>9 DEF Base

\* A row gets another status and keeps the rest, whoever does it.
LEMMA StatusSet ==
  ASSUME Base, NEW o \in Orders, row[o].st # "none", NEW st \in Statuses \ {"none"},
         SetRow(o, [row[o] EXCEPT !.st = st])
  PROVE /\ row' \in [Orders -> Row] /\ row'[o] = [row[o] EXCEPT !.st = st]
        /\ row'[o].st = st /\ row'[o].algo = row[o].algo /\ row'[o].leg = row[o].leg
        /\ row'[o].filled = row[o].filled /\ row'[o].tracked = row[o].tracked
        /\ row'[o].attempts = row[o].attempts
        /\ \A x \in Orders \ {o} : row'[x] = row[x]
        /\ AlgoKept
        /\ venue' = venue => LegInv'
<1> DEFINE r == [row[o] EXCEPT !.st = st]
<1>1. /\ r \in Row /\ r.st = st /\ r.algo = row[o].algo /\ r.leg = row[o].leg
      /\ r.filled = row[o].filled /\ r.tracked = row[o].tracked /\ r.attempts = row[o].attempts
  BY DEF Base, PendingTypeOK, Row
<1>2. SetRow(o, r)
  OBVIOUS
<1>3. row' \in [Orders -> Row] /\ row'[o] = r /\ \A x \in Orders \ {o} : row'[x] = row[x]
  BY <1>1, <1>2, RowSet DEF Base, PendingTypeOK
<1> HIDE DEF r
<1>4. AlgoKept
  BY <1>1, <1>3 DEF AlgoKept
<1>5. venue' = venue => LegInv'
  BY <1>1, <1>3, <1>4, LegFrame, NullsTyped DEF Base, LegInv
<1>6. QED
  BY <1>1, <1>3, <1>4, <1>5 DEF r

LEMMA BaseRequeue ==
  ASSUME Base, NEW o \in Orders, RequeueProcessing(o) \/ RequeueSyncing(o)
  PROVE Base'
<1>1. UNCHANGED <<venue, traded, applied, worker, faults>> /\ row[o].st # "none"
  BY DEF RequeueProcessing, RequeueSyncing
<1>2. PICK st \in Statuses \ {"none"} : SetRow(o, [row[o] EXCEPT !.st = st])
  BY DEF RequeueProcessing, RequeueSyncing, Statuses
<1>3. row' \in [Orders -> Row] /\ AlgoKept /\ LegInv'
  BY <1>1, <1>2, StatusSet
<1>4. ThreadInv'
  BY <1>1, <1>3, ThreadFrame DEF Base, PendingTypeOK, ThreadInv
<1>5. QED
  BY <1>1, <1>3, <1>4 DEF Base, PendingTypeOK

\* A worker takes a row: the claims, described.
LEMMA ClaimStep ==
  ASSUME Base, NEW p \in Procs, NEW o \in Orders, Claim(p, o)
  PROVE /\ row' \in [Orders -> Row] /\ AlgoKept /\ LegInv'
        /\ row[o].st = "pending" /\ row'[o].st = "processing" /\ row'[o].algo = row[o].algo
        /\ row'[o].leg = row[o].leg /\ row'[o].filled = row[o].filled
        /\ row'[o].tracked = row[o].tracked
        /\ \A x \in Orders \ {o} : row'[x] = row[x]
        /\ worker' \in [Procs -> Thread]
        /\ worker[p].pc = "idle" /\ worker'[p].pc = "dispatch" /\ worker'[p].ord = o
        /\ worker'[p].attempt \in 1 .. MaxAttempts /\ worker'[p].lim = 0 /\ worker'[p].mkt = -1
        /\ worker'[p].got = 0
        /\ worker'[p].leg = NoLeg /\ worker'[p].after = "idle" /\ worker'[p].delta = 0
        /\ \A x \in Procs \ {p} : worker'[x] = worker[x]
        /\ UNCHANGED <<venue, traded, applied, faults>>
<1> DEFINE r == [row[o] EXCEPT !.st = "processing", !.attempts = @ + 1]
           w == [Idle EXCEPT !.pc = "dispatch", !.ord = o, !.attempt = row[o].attempts + 1]
<1>1. row[o] \in Row /\ row[o].attempts \in 0 .. MaxAttempts
  BY DEF Base, PendingTypeOK, Row
<1>2. row[o].attempts + 1 \in 1 .. MaxAttempts /\ row[o].attempts + 1 \in 0 .. MaxAttempts
  BY <1>1, AttemptsAssumption DEF Claim
<1>3. /\ r \in Row /\ r.st = "processing" /\ r.algo = row[o].algo /\ r.leg = row[o].leg
      /\ r.filled = row[o].filled /\ r.tracked = row[o].tracked
  BY <1>1, <1>2 DEF Row, Statuses
<1>4. /\ w \in Thread /\ w.pc = "dispatch" /\ w.ord = o /\ w.attempt = row[o].attempts + 1
      /\ w.lim = 0 /\ w.mkt = -1 /\ w.leg = NoLeg /\ w.after = "idle" /\ w.delta = 0 /\ w.got = 0
  BY <1>2, NullsTyped DEF Thread, Pcs, OrderIds
<1>5. SetRow(o, r) /\ SetWorker(p, w)
  BY DEF Claim
<1> HIDE DEF r, w
<1>6. row' \in [Orders -> Row] /\ row'[o] = r /\ \A x \in Orders \ {o} : row'[x] = row[x]
  BY <1>3, <1>5, RowSet DEF Base, PendingTypeOK
<1>7. worker' \in [Procs -> Thread] /\ worker'[p] = w /\ \A x \in Procs \ {p} : worker'[x] = worker[x]
  BY <1>4, <1>5, WorkerSet DEF Base, PendingTypeOK
<1>8. AlgoKept
  BY <1>3, <1>6 DEF AlgoKept
<1>9. UNCHANGED <<venue, traded, applied, faults>> /\ worker[p].pc = "idle" /\ row[o].st = "pending"
  BY DEF Claim
<1>10. LegInv'
  BY <1>3, <1>6, <1>8, <1>9, LegFrame, NullsTyped DEF Base, LegInv
<1>11. QED
  BY <1>2, <1>3, <1>4, <1>6, <1>7, <1>8, <1>9, <1>10

LEMMA BaseClaim == ASSUME Base, NEW p \in Procs, NEW o \in Orders, Claim(p, o) PROVE Base'
<1>1. row'[o].algo # "none"
  BY ClaimStep, NullsTyped, LegsOfKind DEF Base, LegInv
<1>2. ThreadOK(worker[p])'
  BY <1>1, ClaimStep, AmountAssumption DEF ThreadOK
<1>3. ThreadInv'
  BY <1>2, ClaimStep, ThreadFrame DEF Base, PendingTypeOK, ThreadInv
<1>4. QED
  BY <1>3, ClaimStep DEF Base, PendingTypeOK

LEMMA SentClaimStep ==
  ASSUME Base, NEW p \in Procs, NEW o \in Orders, SentClaimed(p, o)
  PROVE /\ row' \in [Orders -> Row] /\ AlgoKept /\ LegInv'
        /\ row[o].st \in {"sent", "filled"} /\ row[o].leg # NoLeg
        /\ row'[o].st = "syncing" /\ row'[o].algo = row[o].algo
        /\ row'[o].leg = row[o].leg /\ row'[o].filled = row[o].filled
        /\ row'[o].tracked = row[o].tracked
        /\ \A x \in Orders \ {o} : row'[x] = row[x]
        /\ worker' \in [Procs -> Thread]
        /\ worker[p].pc = "idle" /\ worker'[p].pc = "query" /\ worker'[p].ord = o
        /\ worker'[p].lim = 0 /\ worker'[p].mkt = -1
        /\ worker'[p].leg = row[o].leg /\ worker'[p].after = "idle" /\ worker'[p].delta = 0
        /\ worker'[p].prev = row[o].filled /\ worker'[p].base = TrackedFillBaseline(row[o])
        /\ \A x \in Procs \ {p} : worker'[x] = worker[x]
        /\ UNCHANGED <<venue, traded, applied>>
        /\ faults \subseteq faults' /\ faults' \subseteq Faults
<1> DEFINE w == [Idle EXCEPT !.pc = "query", !.ord = o, !.leg = row[o].leg,
                     !.prev = row[o].filled, !.base = TrackedFillBaseline(row[o])]
<1>1. row[o] \in Row
  BY DEF Base, PendingTypeOK
<1>2. TrackedFillBaseline(row[o]) \in Nat
  BY <1>1 DEF TrackedFillBaseline, Row
<1>3. /\ w \in Thread /\ w.pc = "query" /\ w.ord = o /\ w.leg = row[o].leg
      /\ w.prev = row[o].filled /\ w.base = TrackedFillBaseline(row[o])
      /\ w.lim = 0 /\ w.mkt = -1 /\ w.after = "idle" /\ w.delta = 0
  BY <1>1, <1>2, NullsTyped DEF Thread, Row, Pcs, OrderIds
<1>4. /\ SetRow(o, [row[o] EXCEPT !.st = "syncing"]) /\ SetWorker(p, w) /\ worker[p].pc = "idle"
      /\ UNCHANGED <<venue, traded, applied>> /\ faults \subseteq faults' /\ faults' \subseteq Faults
  BY DEF SentClaimed, ClaimSentRow
<1>5. row[o].st \in {"sent", "filled"} /\ row[o].leg # NoLeg
  BY DEF SentClaimed, ClaimSentRow, Reconcilable
<1> HIDE DEF w
<1>6. worker' \in [Procs -> Thread] /\ worker'[p] = w /\ \A x \in Procs \ {p} : worker'[x] = worker[x]
  BY <1>3, <1>4, WorkerSet DEF Base, PendingTypeOK
<1>7. QED
  BY <1>3, <1>4, <1>5, <1>6, StatusSet DEF Statuses

LEMMA BaseSentClaim ==
  ASSUME Base, NEW p \in Procs, NEW o \in Orders, SentClaimed(p, o) PROVE Base'
<1>1. row'[o].algo # "none" /\ row[o].leg \in LegsOf(row'[o].algo)
  BY SentClaimStep, NullsTyped DEF Base, LegInv
<1>2. ThreadOK(worker[p])'
  BY <1>1, SentClaimStep, AmountAssumption DEF ThreadOK
<1>3. ThreadInv'
  BY <1>2, SentClaimStep, ThreadFrame DEF Base, PendingTypeOK, ThreadInv
<1>4. QED
  BY <1>3, SentClaimStep DEF Base, PendingTypeOK

\* A worker is done, with its row, or without it when it died.
LEMMA GoneStep ==
  ASSUME Base, NEW p \in Procs, SetWorker(p, Idle)
  PROVE /\ worker' \in [Procs -> Thread] /\ worker'[p] = Idle
        /\ \A x \in Procs \ {p} : worker'[x] = worker[x]
        /\ AlgoKept => ThreadInv'
<1>1. /\ worker' \in [Procs -> Thread] /\ worker'[p] = Idle
      /\ \A x \in Procs \ {p} : worker'[x] = worker[x]
  BY NullsTyped, WorkerSet DEF Base, PendingTypeOK
<1>2. ThreadOK(Idle)'
  BY NullsTyped, AmountAssumption DEF ThreadOK
<1>3. QED
  BY <1>1, <1>2, ThreadFrame DEF ThreadInv, Base, PendingTypeOK

LEMMA BaseGone == ASSUME Base, NEW p \in Procs, WorkerGone(p) PROVE Base'
<1>1. UNCHANGED <<row, venue, traded, applied>> /\ faults' \subseteq Faults /\ SetWorker(p, Idle)
  BY DEF WorkerGone
<1>2. AlgoKept
  BY <1>1 DEF AlgoKept
<1>3. LegInv'
  BY <1>1 DEF Base, LegInv
<1>4. QED
  BY <1>1, <1>2, <1>3, GoneStep DEF Base, PendingTypeOK

\* A leg at the venue changes; a leg that changes was placed for this kind of order.
LegBecomes(o, l, v) == venue' = [venue EXCEPT ![o][l] = v]

LEMMA LegSet ==
  ASSUME Base, NEW o \in Orders, NEW l \in Legs, NEW v \in VenueLeg,
         LegBecomes(o, l, v), l \in LegsOf(row[o].algo),
         v.st # "none", v.st = "open" => v.fill < v.qty
  PROVE /\ venue' \in [Orders -> [Legs -> VenueLeg]]
        /\ venue'[o][l] = v
        /\ \A x \in Orders, m \in Legs : (x # o \/ m # l) => venue'[x][m] = venue[x][m]
        /\ row' = row => LegInv'
        /\ \A st \in Statuses \ {"none"} : SetRow(o, [row[o] EXCEPT !.st = st]) => LegInv'
<1>1. venue \in [Orders -> [Legs -> VenueLeg]]
  BY DEF Base, PendingTypeOK
<1>2. venue' \in [Orders -> [Legs -> VenueLeg]] /\ venue'[o][l] = v
  BY <1>1 DEF LegBecomes
<1>3. \A x \in Orders, m \in Legs : (x # o \/ m # l) => venue'[x][m] = venue[x][m]
  BY <1>1 DEF LegBecomes
<1>4. row' = row => LegInv'
  BY <1>2, <1>3 DEF Base, LegInv
<1>5. ASSUME NEW st \in Statuses \ {"none"}, SetRow(o, [row[o] EXCEPT !.st = st]) PROVE LegInv'
  <2>1. row[o].algo # "none" /\ row[o].st # "none"
    BY LegsOfKind, NullsTyped DEF Base, LegInv
  <2>2. /\ row'[o].st = st /\ row'[o].algo = row[o].algo /\ row'[o].leg = row[o].leg
        /\ \A x \in Orders \ {o} : row'[x] = row[x]
    BY <1>5, <2>1, StatusSet
  <2>3. QED
    BY <1>2, <1>3, <2>1, <2>2 DEF Base, LegInv
<1>6. QED
  BY <1>2, <1>3, <1>4, <1>5

\* Nothing at the venue is undone: quantities stay, fills grow, an end is final.
VenueGrows ==
  \A o \in Orders, l \in Legs :
    /\ venue[o][l].fill <= venue'[o][l].fill
    /\ venue[o][l].st \notin {"none", "open"} => venue'[o][l] = venue[o][l]
    /\ venue[o][l].st = "open" => venue'[o][l].st # "none" /\ venue'[o][l].qty = venue[o][l].qty

LEMMA VenueSame ==
  ASSUME Base, venue' = venue PROVE VenueGrows
BY DEF Base, PendingTypeOK, VenueGrows, VenueLeg

LEMMA LegsSame == ASSUME LegInv, UNCHANGED <<row, venue>> PROVE LegInv'
BY DEF LegInv

LEMMA VenueStep ==
  ASSUME Base, NEW o \in Orders, NEW l \in Legs, VenueFills(o, l) \/ VenueCancels(o, l)
  PROVE /\ Base' /\ VenueGrows /\ UNCHANGED <<row, traded, applied, worker, faults>>
        /\ \A x \in Orders, m \in Legs : (x # o \/ m # l) => venue'[x][m] = venue[x][m]
        /\ venue[o][l].st = "open" /\ venue'[o][l].st # "none"
<1>1. venue[o][l] \in VenueLeg /\ venue[o][l].st = "open" /\ l \in LegsOf(row[o].algo)
      /\ venue[o][l].fill < venue[o][l].qty
  BY DEF VenueFills, VenueCancels, Base, PendingTypeOK, LegInv
<1>2. UNCHANGED <<row, traded, applied, worker, faults>>
  BY DEF VenueFills, VenueCancels
<1>3. PICK v \in VenueLeg :
        /\ LegBecomes(o, l, v) /\ v.st # "none" /\ v.qty = venue[o][l].qty
        /\ (v.st = "open" => v.fill < v.qty) /\ venue[o][l].fill <= v.fill
  <2>1. CASE VenueFills(o, l)
    <3> DEFINE v == [venue[o][l] EXCEPT !.fill = @ + 1,
                       !.st = IF venue[o][l].fill + 1 = venue[o][l].qty THEN "filled" ELSE "open"]
    <3>1. /\ venue[o][l].fill \in 0 .. Amount /\ venue[o][l].qty \in 0 .. Amount
          /\ venue[o][l].fill + 1 \in 0 .. Amount
      BY <1>1, AmountAssumption DEF VenueLeg
    <3>2. v \in VenueLeg /\ v.qty = venue[o][l].qty /\ v.fill = venue[o][l].fill + 1
          /\ v.st = IF venue[o][l].fill + 1 = venue[o][l].qty THEN "filled" ELSE "open"
      BY <1>1, <3>1 DEF VenueLeg, LegStates
    <3>3. LegBecomes(o, l, v)
      BY <2>1 DEF VenueFills, Base, PendingTypeOK, LegBecomes
    <3> HIDE DEF v
    <3>4. (v.st = "open" => v.fill < v.qty) /\ venue[o][l].fill <= v.fill /\ v.st # "none"
      BY <1>1, <3>1, <3>2, AmountAssumption
    <3>5. QED
      BY <3>2, <3>3, <3>4
  <2>2. CASE VenueCancels(o, l)
    <3> DEFINE v == [venue[o][l] EXCEPT !.st = "cancelled"]
    <3>1. v \in VenueLeg /\ v.st = "cancelled" /\ v.qty = venue[o][l].qty /\ v.fill = venue[o][l].fill
      BY <1>1 DEF VenueLeg, LegStates
    <3>2. LegBecomes(o, l, v)
      BY <2>2 DEF VenueCancels, Base, PendingTypeOK, LegBecomes
    <3> HIDE DEF v
    <3>3. venue[o][l].fill <= v.fill
      BY <1>1, <3>1, AmountAssumption DEF VenueLeg
    <3>4. QED
      BY <3>1, <3>2, <3>3
  <2>3. QED
    BY <2>1, <2>2
<1>4. /\ venue' \in [Orders -> [Legs -> VenueLeg]] /\ venue'[o][l] = v /\ LegInv'
      /\ \A x \in Orders, m \in Legs : (x # o \/ m # l) => venue'[x][m] = venue[x][m]
  BY <1>1, <1>2, <1>3, LegSet
<1>5. VenueGrows
  BY <1>1, <1>3, <1>4 DEF VenueGrows, VenueLeg, Base, PendingTypeOK
<1>6. AlgoKept
  BY <1>2 DEF AlgoKept
<1>7. ThreadInv'
  BY <1>2, <1>6, ThreadFrame DEF Base, PendingTypeOK, ThreadInv
<1>8. QED
  BY <1>1, <1>2, <1>3, <1>4, <1>5, <1>7 DEF Base, PendingTypeOK

-----------------------------------------------------------------------------
(* The steps of a worker, described field by field *)

\* Only worker p moves, and it stays on its order.
Moves(p) ==
  /\ worker' \in [Procs -> Thread]
  /\ worker'[p].ord = worker[p].ord /\ worker'[p].attempt = worker[p].attempt
  /\ worker'[p].prev = worker[p].prev /\ worker'[p].base = worker[p].base
  /\ \A x \in Procs \ {p} : worker'[x] = worker[x]

\* Worker p is done.
Leaves(p) ==
  /\ worker' \in [Procs -> Thread] /\ worker'[p] = Idle
  /\ \A x \in Procs \ {p} : worker'[x] = worker[x]

LEMMA FinalFillNat ==
  ASSUME Base, NEW p \in Procs, worker[p].pc = "sent" PROVE FinalFill(p) \in Nat
<1>1. worker[p].leg \in Legs /\ worker[p].ord \in Orders /\ worker[p].got \in Nat
  BY OnOrder DEF ThreadOK, Thread
<1>2. CurrentLeg(p) \in VenueLeg
  BY <1>1 DEF Base, PendingTypeOK, CurrentLeg
<1>3. QED
  BY <1>1, <1>2, AmountAssumption DEF FinalFill, VenueLeg

LEMMA LegOfThread ==
  ASSUME Base, NEW p \in Procs, worker[p].pc \in {"wait", "cancel", "sent", "query"}
  PROVE /\ worker[p].leg \in Legs /\ worker[p].leg \in LegsOf(row[worker[p].ord].algo)
        /\ CurrentLeg(p) = venue[worker[p].ord][worker[p].leg] /\ CurrentLeg(p) \in VenueLeg
        /\ CurrentLeg(p).fill \in Nat /\ CurrentLeg(p).fill \in 0 .. Amount
        /\ CurrentLeg(p).st \in LegStates
<1>1. /\ worker[p].leg \in Legs /\ worker[p].leg \in LegsOf(row[worker[p].ord].algo)
      /\ worker[p].ord \in Orders
  BY OnOrder DEF ThreadOK
<1>2. CurrentLeg(p) = venue[worker[p].ord][worker[p].leg] /\ CurrentLeg(p) \in VenueLeg
  BY <1>1 DEF Base, PendingTypeOK, CurrentLeg
<1>3. CurrentLeg(p).fill \in 0 .. Amount /\ CurrentLeg(p).st \in LegStates
  BY <1>2 DEF VenueLeg
<1>4. QED
  BY <1>1, <1>2, <1>3, AmountAssumption

LEMMA WaitLimitStep ==
  ASSUME Base, NEW p \in Procs, WaitLimit(p)
  PROVE /\ Moves(p) /\ UNCHANGED <<row, venue, traded, applied, faults>>
        /\ worker[p].pc = "wait" /\ worker[p].leg = <<"lmt", 0>>
        /\ \/ /\ worker'[p].pc = "sent" /\ worker'[p].got = CurrentLeg(p).fill
              /\ worker'[p].vst = CurrentLeg(p).st /\ worker'[p].lim = worker[p].lim
           \/ /\ worker'[p].pc = "cancel" /\ worker'[p].got = worker[p].got
              /\ worker'[p].vst = worker[p].vst /\ worker'[p].lim = CurrentLeg(p).fill
              /\ CurrentLeg(p).fill < Amount
        /\ worker'[p].mkt = worker[p].mkt /\ worker'[p].leg = worker[p].leg
        /\ worker'[p].after = worker[p].after /\ worker'[p].delta = worker[p].delta
<1> DEFINE v == CurrentLeg(p)
           w1 == [worker[p] EXCEPT !.pc = "sent", !.got = v.fill, !.vst = v.st]
           w2 == [worker[p] EXCEPT !.pc = "cancel", !.lim = v.fill]
<1>1. v.fill \in 0 .. Amount /\ v.fill \in Nat /\ v.st \in LegStates /\ worker[p] \in Thread
  BY LegOfThread, OnOrder DEF WaitLimit
<1> HIDE DEF v
<1>2. w1 \in Thread /\ w2 \in Thread
  BY <1>1 DEF Thread, Pcs
<1>3. IF IsFinalFill(v.fill, v.st) THEN SetWorker(p, w1) ELSE SetWorker(p, w2)
  BY DEF WaitLimit, v
<1>4. ~IsFinalFill(v.fill, v.st) => v.fill < Amount
  BY <1>1, AmountAssumption DEF IsFinalFill
<1>5. CASE SetWorker(p, w1)
  <2>1. worker' \in [Procs -> Thread] /\ worker'[p] = w1 /\ \A x \in Procs \ {p} : worker'[x] = worker[x]
    BY <1>2, <1>5, WorkerSet DEF Base, PendingTypeOK
  <2>2. QED
    BY <1>1, <2>1 DEF WaitLimit, Moves, v, Thread
<1>6. CASE ~IsFinalFill(v.fill, v.st) /\ SetWorker(p, w2)
  <2>1. worker' \in [Procs -> Thread] /\ worker'[p] = w2 /\ \A x \in Procs \ {p} : worker'[x] = worker[x]
    BY <1>2, <1>6, WorkerSet DEF Base, PendingTypeOK
  <2>2. QED
    BY <1>1, <1>4, <1>6, <2>1 DEF WaitLimit, Moves, v, Thread
<1>7. QED
  BY <1>3, <1>5, <1>6

LEMMA WaitMarketStep ==
  ASSUME Base, NEW p \in Procs, WaitMarket(p)
  PROVE /\ Moves(p) /\ UNCHANGED <<row, venue, traded, applied, faults>>
        /\ worker[p].pc = "wait" /\ worker[p].leg # <<"lmt", 0>>
        /\ worker'[p].pc = "sent" /\ worker'[p].got = worker[p].lim + CurrentLeg(p).fill
        /\ worker'[p].vst = CurrentLeg(p).st /\ worker'[p].lim = worker[p].lim
        /\ worker'[p].mkt >= 0 => worker[p].mkt >= 0
        /\ worker'[p].leg = worker[p].leg
        /\ worker'[p].after = worker[p].after /\ worker'[p].delta = worker[p].delta
<1> DEFINE v == CurrentLeg(p)
           w1 == [worker[p] EXCEPT !.pc = "sent", !.got = worker[p].lim + v.fill,
                     !.mkt = IF @ < 0 THEN @ ELSE v.fill, !.vst = v.st]
<1>1. v.fill \in Nat /\ v.st \in LegStates /\ worker[p] \in Thread
  BY LegOfThread, OnOrder DEF WaitMarket
<1> HIDE DEF v
<1>2. worker[p].lim \in Nat /\ worker[p].lim + v.fill \in Nat
  BY <1>1, AmountAssumption DEF Thread
<1>3. w1 \in Thread
  BY <1>1, <1>2 DEF Thread, Pcs
<1>4. SetWorker(p, w1)
  BY DEF WaitMarket, v
<1>5. worker' \in [Procs -> Thread] /\ worker'[p] = w1 /\ \A x \in Procs \ {p} : worker'[x] = worker[x]
  BY <1>3, <1>4, WorkerSet DEF Base, PendingTypeOK
<1>6. QED
  BY <1>1, <1>5 DEF WaitMarket, Moves, v, Thread

\* The leg a worker is about to place is one of its order's.
LEMMA PlaceLegs ==
  ASSUME Base, NEW p \in Procs, Placing(p)
  PROVE /\ worker[p].pc \in {"dispatch", "market"} /\ PlaceLeg(p) \in Legs
        /\ PlaceLeg(p) \in LegsOf(row[worker[p].ord].algo)
        /\ row[worker[p].ord].algo = "maker"
             => PlaceLeg(p) = IF worker[p].pc = "dispatch" THEN <<"lmt", 0>> ELSE <<"mkt", 0>>
<1>1. /\ worker[p].ord \in Orders /\ row[worker[p].ord].algo \in AlgoKinds
      /\ worker[p].pc \in {"dispatch", "market"} /\ ThreadOK(worker[p])
  BY OnOrder DEF Placing
<1>2. /\ worker[p].attempt \in 1 .. MaxAttempts
      /\ worker[p].pc = "market" => row[worker[p].ord].algo = "maker"
      /\ row[worker[p].ord].algo = "signal" => FALSE
  BY <1>1 DEF ThreadOK, Placing
<1>3. QED
  BY <1>1, <1>2, LegFacts, LegsOfKind DEF PlaceLeg, PlacePhase, ClientId, AlgoKinds

\* The venue takes an order: only that leg changes.
LEMMA AcceptStep ==
  ASSUME Base, NEW p \in Procs, Placing(p), VenueAccepts(p)
  PROVE /\ venue' \in [Orders -> [Legs -> VenueLeg]] /\ VenueGrows
        /\ venue[worker[p].ord][PlaceLeg(p)] = Unplaced
        /\ venue'[worker[p].ord][PlaceLeg(p)].st = "open"
        /\ venue'[worker[p].ord][PlaceLeg(p)].fill = 0
        /\ \A x \in Orders, m \in Legs :
             (x # worker[p].ord \/ m # PlaceLeg(p)) => venue'[x][m] = venue[x][m]
        /\ row' = row => LegInv'
        /\ \A st \in Statuses \ {"none"} :
             SetRow(worker[p].ord, [row[worker[p].ord] EXCEPT !.st = st]) => LegInv'
<1>1. PICK o \in Orders : o = worker[p].ord
  BY OnOrder DEF Placing
<1>2. PICK l \in Legs : l = PlaceLeg(p) /\ l \in LegsOf(row[o].algo)
  BY <1>1, PlaceLegs
<1>3. worker[p] \in Thread /\ worker[p].lim < Amount
  BY OnOrder DEF Placing, ThreadOK
<1> DEFINE v == [st |-> "open", qty |-> Amount - worker[p].lim, fill |-> 0]
<1>4. v \in VenueLeg /\ v.st = "open" /\ v.fill < v.qty /\ v.fill = 0
  BY <1>3, AmountAssumption DEF VenueLeg, LegStates, Thread
<1>5. venue[o][l].st = "none" /\ LegBecomes(o, l, v)
  BY <1>1, <1>2 DEF VenueAccepts, LegBecomes
<1> HIDE DEF v
<1>6. /\ venue' \in [Orders -> [Legs -> VenueLeg]] /\ venue'[o][l] = v
      /\ \A x \in Orders, m \in Legs : (x # o \/ m # l) => venue'[x][m] = venue[x][m]
      /\ row' = row => LegInv'
      /\ \A st \in Statuses \ {"none"} : SetRow(o, [row[o] EXCEPT !.st = st]) => LegInv'
  <2>1. v \in VenueLeg /\ v.st # "none" /\ (v.st = "open" => v.fill < v.qty)
    BY <1>4
  <2>2. QED
    BY <1>2, <1>5, <2>1, LegSet
<1>7. venue[o][l] = Unplaced
  BY <1>5 DEF Base, LegInv
<1>8. VenueGrows
  BY <1>4, <1>5, <1>6, <1>7, NullsTyped DEF VenueGrows, VenueLeg, Base, PendingTypeOK
<1>9. QED
  BY <1>1, <1>2, <1>4, <1>6, <1>7, <1>8

LEMMA PlaceStep ==
  ASSUME Base, NEW p \in Procs, Place(p)
  PROVE /\ Moves(p) /\ UNCHANGED <<row, traded, applied, faults>>
        /\ Placing(p) /\ VenueAccepts(p)
        /\ worker'[p].pc = IF row[worker[p].ord].algo = "limit" THEN "sent" ELSE "wait"
        /\ worker'[p].leg = PlaceLeg(p) /\ worker'[p].got = worker[p].got
        /\ worker'[p].mkt >= 0 => worker[p].pc = "market"
        /\ worker'[p].vst = worker[p].vst /\ worker'[p].lim = worker[p].lim
        /\ worker'[p].after = worker[p].after /\ worker'[p].delta = worker[p].delta
<1> DEFINE w1 == [worker[p] EXCEPT
                    !.pc = IF row[worker[p].ord].algo = "limit" THEN "sent" ELSE "wait",
                    !.leg = PlaceLeg(p), !.mkt = IF worker[p].pc = "market" THEN 0 ELSE -1]
<1>1. worker[p] \in Thread /\ PlaceLeg(p) \in Legs
  BY PlaceLegs, OnOrder DEF Place, Placing
<1>2. w1 \in Thread
  <2>1. /\ (IF row[worker[p].ord].algo = "limit" THEN "sent" ELSE "wait") \in Pcs
        /\ PlaceLeg(p) \in Legs \cup {NoLeg}
        /\ (IF worker[p].pc = "market" THEN 0 ELSE -1) \in Nat \cup {-1}
    BY <1>1 DEF Pcs
  <2>2. QED
    BY <1>1, <2>1, Zenon DEF Thread
<1>3. SetWorker(p, w1)
  BY DEF Place
<1>4. worker' \in [Procs -> Thread] /\ worker'[p] = w1 /\ \A x \in Procs \ {p} : worker'[x] = worker[x]
  BY <1>2, <1>3, WorkerSet DEF Base, PendingTypeOK
<1>5. QED
  BY <1>1, <1>4 DEF Place, Moves, Thread

LEMMA BasePlace == ASSUME Base, NEW p \in Procs, Place(p) PROVE Base'
<1>1. worker[p].pc # "idle" /\ UNCHANGED <<row, traded, applied, faults>> /\ AlgoKept
  BY PlaceStep DEF Placing, AlgoKept
<1>2. /\ worker[p].ord \in Orders /\ row[worker[p].ord].algo # "none" /\ ThreadOK(worker[p])
      /\ worker[p] \in Thread
  BY <1>1, OnOrder DEF ThreadOK
<1>3. worker[p].after = "idle" /\ worker[p].attempt \in 1 .. MaxAttempts
  BY <1>2, PlaceStep DEF ThreadOK, Placing, Thread
<1>4. ThreadOK(worker[p])'
  BY <1>1, <1>2, <1>3, PlaceStep, PlaceLegs, LegFacts DEF ThreadOK, Moves
<1>5. ThreadInv'
  BY <1>1, <1>4, PlaceStep, ThreadFrame DEF Moves, ThreadInv, Base, PendingTypeOK
<1>6. LegInv' /\ venue' \in [Orders -> [Legs -> VenueLeg]]
  BY <1>1, PlaceStep, AcceptStep
<1>7. QED
  BY <1>1, <1>5, <1>6, PlaceStep DEF Moves, Base, PendingTypeOK

\* A worker fails its row and is done, whatever happened at the venue.
LEMMA FailStep ==
  ASSUME Base, NEW p \in Procs, worker[p].pc # "idle", MarkFailed(p)
  PROVE /\ Leaves(p) /\ UNCHANGED <<traded, applied>> /\ row' \in [Orders -> Row]
        /\ row'[worker[p].ord].st = "failed" /\ AlgoKept /\ ThreadInv'
        /\ row'[worker[p].ord].algo = row[worker[p].ord].algo
        /\ row'[worker[p].ord].leg = row[worker[p].ord].leg
        /\ row'[worker[p].ord].filled = row[worker[p].ord].filled
        /\ row'[worker[p].ord].tracked = row[worker[p].ord].tracked
        /\ \A x \in Orders \ {worker[p].ord} : row'[x] = row[x]
        /\ venue' = venue => LegInv'
<1>1. PICK o \in Orders : o = worker[p].ord /\ row[o].st # "none"
  BY OnOrder
<1>2. SetRow(o, [row[o] EXCEPT !.st = "failed"]) /\ SetWorker(p, Idle) /\ UNCHANGED <<traded, applied>>
  BY <1>1 DEF MarkFailed
<1>3. QED
  BY <1>1, <1>2, StatusSet, GoneStep DEF Statuses, Leaves

LEMMA BaseFail ==
  ASSUME Base, NEW p \in Procs,
         RejectDispatch(p) \/ PlaceRefused(p) \/ PlaceLost(p)
  PROVE Base' /\ MarkFailed(p) /\ worker[p].pc \in {"dispatch", "market"}
<1>1. worker[p].pc \in {"dispatch", "market"} /\ MarkFailed(p)
  BY DEF RejectDispatch, PlaceRefused, PlaceLost, Placing
<1>2. CASE RejectDispatch(p) \/ PlaceRefused(p)
  BY <1>1, <1>2, FailStep DEF RejectDispatch, PlaceRefused, Base, PendingTypeOK, Leaves
<1>3. CASE PlaceLost(p)
  <2>1. venue' \in [Orders -> [Legs -> VenueLeg]] /\ LegInv'
    BY <1>3, AcceptStep DEF PlaceLost, MarkFailed, Statuses
  <2>2. faults' \subseteq Faults
    BY <1>3, FaultStep DEF PlaceLost, Base, PendingTypeOK
  <2>3. QED
    BY <1>1, <2>1, <2>2, FailStep DEF Base, PendingTypeOK, Leaves
<1>4. QED
  BY <1>1, <1>2, <1>3

LEMMA NotifyStep ==
  ASSUME Base, NEW p \in Procs, NotifySignal(p)
  PROVE /\ Base' /\ Leaves(p) /\ UNCHANGED <<venue, traded, applied, faults>> /\ AlgoKept
        /\ worker[p].pc = "dispatch" /\ row[worker[p].ord].algo = "signal"
        /\ row'[worker[p].ord].algo = "signal"
        /\ row'[worker[p].ord].leg = row[worker[p].ord].leg
        /\ row'[worker[p].ord].filled = row[worker[p].ord].filled
        /\ row'[worker[p].ord].tracked = row[worker[p].ord].tracked
        /\ \A x \in Orders \ {worker[p].ord} : row'[x] = row[x]
        /\ row'[worker[p].ord].st \in {"sent", "failed"}
<1>1. /\ worker[p].pc = "dispatch" /\ row[worker[p].ord].algo = "signal"
      /\ UNCHANGED <<venue, traded, applied, faults>> /\ SetWorker(p, Idle)
  BY DEF NotifySignal
<1>2. PICK o \in Orders : o = worker[p].ord /\ row[o].st # "none"
  BY <1>1, OnOrder
<1>3. PICK st \in {"sent", "failed"} : SetRow(o, [row[o] EXCEPT !.st = st])
  BY <1>2 DEF NotifySignal
<1>4. st \in Statuses \ {"none"}
  BY DEF Statuses
<1>5. /\ row' \in [Orders -> Row]
      /\ row'[o].st = st /\ row'[o].algo = row[o].algo /\ row'[o].leg = row[o].leg
      /\ row'[o].filled = row[o].filled /\ row'[o].tracked = row[o].tracked
      /\ \A x \in Orders \ {o} : row'[x] = row[x]
      /\ AlgoKept /\ LegInv'
  BY <1>1, <1>2, <1>3, <1>4, StatusSet
<1>6. Leaves(p) /\ ThreadInv'
  BY <1>1, <1>5, GoneStep DEF Leaves
<1>7. Base'
  BY <1>1, <1>5, <1>6 DEF Base, PendingTypeOK, Leaves
<1>8. QED
  BY <1>1, <1>2, <1>5, <1>6, <1>7

\* A cancel that goes through.
Cancelled(p) ==
  /\ Moves(p) /\ UNCHANGED <<row, traded, applied, faults>>
  /\ worker[p].pc = "cancel" /\ worker'[p].pc = "market"
  /\ worker'[p].lim = worker[p].lim /\ worker'[p].got = worker[p].got
  /\ worker'[p].mkt = worker[p].mkt /\ worker'[p].leg = worker[p].leg
  /\ worker'[p].vst = worker[p].vst
  /\ worker'[p].after = worker[p].after /\ worker'[p].delta = worker[p].delta
  /\ VenueGrows
  /\ \A x \in Orders, m \in Legs : x # worker[p].ord => venue'[x][m] = venue[x][m]
  /\ \A m \in Legs : venue'[worker[p].ord][m].fill = venue[worker[p].ord][m].fill

LEMMA CancelStep ==
  ASSUME Base, NEW p \in Procs, CancelLimit(p)
  PROVE /\ Base'
        /\ \/ Cancelled(p)
           \/ MarkFailed(p) /\ UNCHANGED <<venue, faults>> /\ worker[p].pc = "cancel"
<1>1. worker[p].pc = "cancel" /\ UNCHANGED faults
  BY DEF CancelLimit
<1>2. CASE MarkFailed(p) /\ UNCHANGED venue
  <2>1. worker' \in [Procs -> Thread] /\ row' \in [Orders -> Row] /\ ThreadInv' /\ LegInv'
        /\ UNCHANGED <<traded, applied>>
    BY <1>1, <1>2, FailStep, SMTT(30) DEF Leaves
  <2>2. QED
    BY <1>1, <1>2, <2>1 DEF Base, PendingTypeOK
<1>3. ASSUME venue' = IF CurrentLeg(p).st = "open"
                        THEN [venue EXCEPT ![worker[p].ord][worker[p].leg].st = "cancelled"]
                        ELSE venue,
             SetWorker(p, [worker[p] EXCEPT !.pc = "market"]), UNCHANGED <<row, traded, applied>>
      PROVE Base' /\ Cancelled(p)
  <2> DEFINE w1 == [worker[p] EXCEPT !.pc = "market"]
  <2>1. /\ worker[p] \in Thread /\ ThreadOK(worker[p])
        /\ worker[p].leg \in Legs /\ worker[p].ord \in Orders
        /\ worker[p].leg \in LegsOf(row[worker[p].ord].algo)
    BY <1>1, OnOrder, LegOfThread
  <2>2. w1 \in Thread
    BY <2>1 DEF Thread, Pcs
  <2>3. worker' \in [Procs -> Thread] /\ worker'[p] = w1 /\ \A x \in Procs \ {p} : worker'[x] = worker[x]
    BY <1>3, <2>2, WorkerSet DEF Base, PendingTypeOK
  <2>4. /\ Moves(p) /\ worker'[p].pc = "market"
        /\ worker'[p].lim = worker[p].lim /\ worker'[p].got = worker[p].got
        /\ worker'[p].mkt = worker[p].mkt /\ worker'[p].leg = worker[p].leg
        /\ worker'[p].vst = worker[p].vst
        /\ worker'[p].after = worker[p].after /\ worker'[p].delta = worker[p].delta
    BY <2>1, <2>3 DEF Moves, Thread
  <2>5. PICK o \in Orders, l \in Legs : o = worker[p].ord /\ l = worker[p].leg
    BY <2>1
  <2>6. /\ venue' \in [Orders -> [Legs -> VenueLeg]] /\ LegInv' /\ VenueGrows
        /\ \A x \in Orders, m \in Legs : x # o => venue'[x][m] = venue[x][m]
        /\ \A m \in Legs : venue'[o][m].fill = venue[o][m].fill
    <3>1. CASE venue[o][l].st = "open"
      <4> DEFINE v == [venue[o][l] EXCEPT !.st = "cancelled"]
      <4>1. venue[o][l] \in VenueLeg
        BY DEF Base, PendingTypeOK
      <4>2. v \in VenueLeg /\ v.st = "cancelled" /\ v.fill = venue[o][l].fill /\ v.qty = venue[o][l].qty
        BY <4>1 DEF VenueLeg, LegStates
      <4>3. LegBecomes(o, l, v)
        BY <1>3, <2>5, <3>1 DEF CurrentLeg, Base, PendingTypeOK, LegBecomes
      <4> HIDE DEF v
      <4>4. /\ venue' \in [Orders -> [Legs -> VenueLeg]] /\ venue'[o][l] = v /\ LegInv'
            /\ \A x \in Orders, m \in Legs : (x # o \/ m # l) => venue'[x][m] = venue[x][m]
        <5>1. /\ l \in LegsOf(row[o].algo) /\ row' = row /\ v.st # "none"
              /\ (v.st = "open" => v.fill < v.qty)
          BY <1>3, <2>1, <2>5, <4>2
        <5>2. v \in VenueLeg
          BY <4>2
        <5>3. QED
          BY <5>1, <5>2, <4>3, LegSet
      <4>5. VenueGrows
        BY <3>1, <4>2, <4>4 DEF VenueGrows, VenueLeg, Base, PendingTypeOK
      <4>6. QED
        BY <4>2, <4>4, <4>5
    <3>2. CASE venue[o][l].st # "open"
      <4>1. venue' = venue
        BY <1>3, <2>5, <3>2 DEF CurrentLeg
      <4>2. QED
        <5>1. venue' \in [Orders -> [Legs -> VenueLeg]] /\ VenueGrows
          BY <4>1, VenueSame, SMTT(30) DEF Base, PendingTypeOK
        <5>2. LegInv'
          BY <1>3, <4>1, LegsSame DEF Base
        <5>3. QED
          BY <4>1, <5>1, <5>2
    <3>3. QED
      BY <3>1, <3>2
  <2>7. AlgoKept
    BY <1>3 DEF AlgoKept
  <2>8. ThreadOK(worker[p])'
    BY <1>1, <1>3, <2>1, <2>4 DEF ThreadOK, Moves
  <2>9. ThreadInv'
    BY <2>7, <2>8, <2>3, ThreadFrame DEF ThreadInv, Base, PendingTypeOK
  <2>10. Base'
    BY <1>1, <1>3, <2>3, <2>6, <2>9 DEF Base, PendingTypeOK
  <2>11. QED
    BY <1>1, <1>3, <2>4, <2>5, <2>6, <2>10 DEF Cancelled
<1>4. QED
  BY <1>1, <1>2, <1>3 DEF CancelLimit

\* Workers move and nothing else that Base speaks of does.
LEMMA BaseMove ==
  ASSUME Base, NEW p \in Procs, UNCHANGED <<row, venue>>, faults' \subseteq Faults,
         worker' \in [Procs -> Thread], \A x \in Procs \ {p} : worker'[x] = worker[x],
         traded' \in [Orders -> Nat], applied' \in [Orders -> Nat], ThreadOK(worker[p])'
  PROVE Base'
<1>1. AlgoKept
  BY DEF AlgoKept
<1>2. ThreadInv'
  BY <1>1, ThreadFrame DEF ThreadInv, Base, PendingTypeOK
<1>3. LegInv'
  BY DEF Base, LegInv
<1>4. QED
  BY <1>2, <1>3 DEF Base, PendingTypeOK

LEMMA BaseWait ==
  ASSUME Base, NEW p \in Procs, WaitLimit(p) \/ WaitMarket(p)
  PROVE Base'
<1>1. worker[p].pc = "wait" /\ UNCHANGED <<row, venue, traded, applied, faults>> /\ Moves(p)
  BY WaitLimitStep, WaitMarketStep
<1>2. ThreadOK(worker[p]) /\ worker[p].ord \in Orders /\ worker[p] \in Thread
  BY <1>1, OnOrder
<1>3. CASE WaitLimit(p)
  <2>1. row[worker[p].ord].algo = "maker"
    <3>1. worker[p].leg = <<"lmt", 0>> /\ row[worker[p].ord].algo # "limit"
      BY <1>1, <1>2, <1>3, WaitLimitStep DEF ThreadOK
    <3>2. <<"lmt", 0>> \in LegsOf(row[worker[p].ord].algo) /\ row[worker[p].ord].algo \in AlgoKinds
      BY <1>1, <3>1, LegOfThread, OnOrder
    <3>3. QED
      BY <3>1, <3>2, LegsOfKind DEF AlgoKinds
  <2>2. ThreadOK(worker[p])'
    BY <1>1, <1>2, <1>3, <2>1, WaitLimitStep DEF ThreadOK, Moves
  <2>3. QED
    BY <1>1, <2>2, BaseMove DEF Moves, Base, PendingTypeOK
<1>4. CASE WaitMarket(p)
  <2>1. ThreadOK(worker[p])'
    BY <1>1, <1>2, <1>4, WaitMarketStep DEF ThreadOK, Moves
  <2>2. QED
    BY <1>1, <2>1, BaseMove DEF Moves, Base, PendingTypeOK
<1>5. QED
  BY <1>3, <1>4

LEMMA MarkSentStep ==
  ASSUME Base, NEW p \in Procs, MarkSent(p)
  PROVE /\ Base' /\ Moves(p) /\ AlgoKept /\ UNCHANGED <<venue, traded, applied, faults>>
        /\ worker[p].pc = "sent" /\ worker'[p].pc = "record" /\ FinalFill(p) \in Nat
        /\ worker'[p].got = FinalFill(p) /\ worker'[p].lim = worker[p].lim
        /\ worker'[p].leg = worker[p].leg
        /\ worker'[p].after = worker[p].after /\ worker'[p].delta = worker[p].delta
        /\ row'[worker[p].ord].st =
             IF row[worker[p].ord].st = "filled" \/ IsFinalFill(FinalFill(p), worker[p].vst)
               THEN "filled" ELSE "sent"
        /\ row'[worker[p].ord].algo = row[worker[p].ord].algo
        /\ row'[worker[p].ord].filled = MaxOf(row[worker[p].ord].filled, FinalFill(p))
        /\ row'[worker[p].ord].tracked = worker[p].mkt
        /\ row'[worker[p].ord].leg = worker[p].leg /\ worker[p].leg \in Legs
        /\ \A x \in Orders \ {worker[p].ord} : row'[x] = row[x]
<1>1. worker[p].pc = "sent" /\ UNCHANGED <<venue, traded, applied, faults>>
  BY DEF MarkSent
<1>2. PICK o \in Orders : o = worker[p].ord /\ row[o].st # "none"
  BY <1>1, OnOrder
<1>3. PICK f \in Nat : f = FinalFill(p)
  BY <1>1, FinalFillNat
<1> DEFINE r == [row[o] EXCEPT !.st = IF @ = "filled" \/ IsFinalFill(f, worker[p].vst)
                                        THEN "filled" ELSE "sent",
                               !.filled = MaxOf(@, f), !.tracked = worker[p].mkt,
                               !.leg = worker[p].leg]
           w1 == [worker[p] EXCEPT !.pc = "record", !.got = f]
<1>4. /\ worker[p] \in Thread /\ ThreadOK(worker[p]) /\ row[o] \in Row
      /\ row[o].algo \in AlgoKinds /\ worker[p].leg \in Legs /\ worker[p].leg \in LegsOf(row[o].algo)
  BY <1>1, <1>2, OnOrder, LegOfThread
<1>5. SetRow(o, r) /\ SetWorker(p, w1)
  BY <1>2, <1>3 DEF MarkSent
<1>6. MaxOf(row[o].filled, f) \in Nat
  BY <1>4 DEF MaxOf, Row
<1>7. /\ r \in Row /\ r.algo = row[o].algo /\ r.filled = MaxOf(row[o].filled, f)
      /\ r.tracked = worker[p].mkt /\ r.leg = worker[p].leg
      /\ r.st = IF row[o].st = "filled" \/ IsFinalFill(f, worker[p].vst) THEN "filled" ELSE "sent"
  BY <1>4, <1>6 DEF Row, Thread, Statuses
<1>8. w1 \in Thread
  BY <1>4 DEF Thread, Pcs
<1>9. worker' \in [Procs -> Thread] /\ worker'[p] = w1 /\ \A x \in Procs \ {p} : worker'[x] = worker[x]
  BY <1>5, <1>8, WorkerSet DEF Base, PendingTypeOK
<1>10. /\ Moves(p) /\ worker'[p].pc = "record" /\ worker'[p].got = f /\ worker'[p].lim = worker[p].lim
       /\ worker'[p].mkt = worker[p].mkt /\ worker'[p].leg = worker[p].leg
       /\ worker'[p].after = worker[p].after /\ worker'[p].delta = worker[p].delta
  BY <1>4, <1>9 DEF Moves, Thread
<1> HIDE DEF r, w1
<1>11. row' \in [Orders -> Row] /\ row'[o] = r /\ \A x \in Orders \ {o} : row'[x] = row[x]
  BY <1>5, <1>7, RowSet DEF Base, PendingTypeOK
<1>12. AlgoKept
  BY <1>7, <1>11 DEF AlgoKept
<1>13. LegInv'
  BY <1>1, <1>4, <1>7, <1>11, <1>12, LegFrame DEF AlgoKinds
<1>14. ThreadOK(worker[p])'
  BY <1>2, <1>1, <1>4, <1>7, <1>10, <1>11 DEF ThreadOK, Moves
<1>15. ThreadInv'
  BY <1>9, <1>12, <1>14, ThreadFrame DEF ThreadInv, Base, PendingTypeOK
<1>16. Base'
  BY <1>1, <1>9, <1>11, <1>13, <1>15 DEF Base, PendingTypeOK
<1>17. QED
  BY <1>1, <1>2, <1>3, <1>4, <1>7, <1>10, <1>11, <1>12, <1>16

LEMMA ReadStep ==
  ASSUME Base, NEW p \in Procs, ReadUnrecorded(p)
  PROVE /\ Base' /\ UNCHANGED <<row, venue, traded, applied, faults>> /\ worker[p].pc = "record"
        /\ worker[p].after = "idle"
        /\ \/ Leaves(p)
           \/ /\ Moves(p) /\ worker'[p].pc = "position" /\ worker'[p].after = worker[p].after
              /\ worker'[p].delta = MaxOf(0, worker[p].got - traded[worker[p].ord])
              /\ worker'[p].got = worker[p].got
<1>1. worker[p].pc = "record" /\ UNCHANGED <<row, venue, traded, applied, faults>>
  BY DEF ReadUnrecorded
<1>2. PICK o \in Orders : o = worker[p].ord
  BY <1>1, OnOrder
<1>3. worker[p] \in Thread /\ ThreadOK(worker[p]) /\ traded[o] \in Nat /\ worker[p].got \in Nat
  BY <1>1, OnOrder DEF Base, PendingTypeOK, Thread
<1>4. PICK d \in Nat : d = UnrecordedPendingFill(o, worker[p].got) /\ d = MaxOf(0, worker[p].got - traded[o])
  BY <1>3 DEF UnrecordedPendingFill, MaxOf
<1>5. worker[p].after = "idle"
  BY <1>1, <1>3 DEF ThreadOK, Thread
<1> DEFINE w1 == [worker[p] EXCEPT !.pc = "position", !.delta = d]
<1>6. SetWorker(p, Idle) \/ SetWorker(p, w1)
  BY <1>2, <1>4 DEF ReadUnrecorded
<1>7. CASE SetWorker(p, Idle)
  <2>1. AlgoKept /\ LegInv'
    BY <1>1 DEF AlgoKept, Base, LegInv
  <2>2. QED
    BY <1>1, <1>5, <1>7, <2>1, GoneStep DEF Leaves, Base, PendingTypeOK
<1>8. CASE SetWorker(p, w1)
  <2>1. w1 \in Thread
    BY <1>3 DEF Thread, Pcs
  <2>2. worker' \in [Procs -> Thread] /\ worker'[p] = w1 /\ \A x \in Procs \ {p} : worker'[x] = worker[x]
    BY <1>8, <2>1, WorkerSet DEF Base, PendingTypeOK
  <2>3. /\ Moves(p) /\ worker'[p].pc = "position" /\ worker'[p].after = worker[p].after
        /\ worker'[p].delta = d /\ worker'[p].got = worker[p].got
        /\ worker'[p].lim = worker[p].lim /\ worker'[p].mkt = worker[p].mkt
        /\ worker'[p].leg = worker[p].leg
    BY <1>3, <2>2 DEF Moves, Thread
  <2>4. ThreadOK(worker[p])'
    BY <1>1, <1>2, <1>3, <2>3 DEF ThreadOK, Moves
  <2>5. Base'
    BY <1>1, <2>2, <2>4, BaseMove DEF Base, PendingTypeOK
  <2>6. QED
    BY <1>1, <1>2, <1>4, <1>5, <2>3, <2>5
<1>9. QED
  BY <1>6, <1>7, <1>8

LEMMA ApplyStep ==
  ASSUME Base, NEW p \in Procs, ApplyPosition(p)
  PROVE /\ Base' /\ Moves(p) /\ UNCHANGED <<row, venue, traded, faults>>
        /\ worker[p].pc = "position" /\ worker'[p].pc = "trade"
        /\ worker'[p].after = worker[p].after /\ worker'[p].delta = worker[p].delta
        /\ worker'[p].got = worker[p].got /\ worker'[p].cum = worker[p].cum
        /\ worker'[p].leg = worker[p].leg /\ worker'[p].vst = worker[p].vst
        /\ applied'[worker[p].ord] = applied[worker[p].ord] + worker[p].delta
        /\ \A x \in Orders \ {worker[p].ord} : applied'[x] = applied[x]
<1>1. worker[p].pc = "position" /\ UNCHANGED <<row, venue, traded, faults>>
  BY DEF ApplyPosition
<1>2. PICK o \in Orders : o = worker[p].ord
  BY <1>1, OnOrder
<1>3. worker[p] \in Thread /\ ThreadOK(worker[p]) /\ worker[p].delta \in Nat
  BY <1>1, OnOrder DEF Thread
<1> DEFINE w1 == [worker[p] EXCEPT !.pc = "trade"]
<1>4. w1 \in Thread
  BY <1>3 DEF Thread, Pcs
<1>5. worker' \in [Procs -> Thread] /\ worker'[p] = w1 /\ \A x \in Procs \ {p} : worker'[x] = worker[x]
  BY <1>4, WorkerSet DEF ApplyPosition, Base, PendingTypeOK
<1>6. /\ Moves(p) /\ worker'[p].pc = "trade" /\ worker'[p].after = worker[p].after
      /\ worker'[p].delta = worker[p].delta /\ worker'[p].got = worker[p].got
      /\ worker'[p].lim = worker[p].lim /\ worker'[p].mkt = worker[p].mkt
      /\ worker'[p].leg = worker[p].leg /\ worker'[p].cum = worker[p].cum
      /\ worker'[p].vst = worker[p].vst
  BY <1>3, <1>5 DEF Moves, Thread
<1>7. ThreadOK(worker[p])'
  BY <1>1, <1>2, <1>3, <1>6 DEF ThreadOK, Moves
<1>8. /\ applied' \in [Orders -> Nat] /\ applied'[o] = applied[o] + worker[p].delta
      /\ \A x \in Orders \ {o} : applied'[x] = applied[x]
  BY <1>2, <1>3 DEF ApplyPosition, Base, PendingTypeOK
<1>9. Base'
  BY <1>1, <1>5, <1>7, <1>8, BaseMove DEF Base, PendingTypeOK
<1>10. QED
  BY <1>1, <1>2, <1>6, <1>8, <1>9

LEMMA TradeStep ==
  ASSUME Base, NEW p \in Procs, RecordTrade(p)
  PROVE /\ Base' /\ UNCHANGED <<row, venue, applied, faults>> /\ worker[p].pc = "trade"
        /\ \/ worker[p].after = "idle" /\ Leaves(p)
           \/ /\ worker[p].after = "snapshot" /\ Moves(p) /\ worker'[p].pc = "snapshot"
              /\ worker'[p].after = "snapshot" /\ worker'[p].delta = worker[p].delta
              /\ worker'[p].cum = worker[p].cum /\ worker'[p].leg = worker[p].leg
              /\ worker'[p].vst = worker[p].vst
        /\ traded'[worker[p].ord] = traded[worker[p].ord] + worker[p].delta
        /\ \A x \in Orders \ {worker[p].ord} : traded'[x] = traded[x]
<1>1. worker[p].pc = "trade" /\ UNCHANGED <<row, venue, applied, faults>>
  BY DEF RecordTrade
<1>2. PICK o \in Orders : o = worker[p].ord
  BY <1>1, OnOrder
<1>3. /\ worker[p] \in Thread /\ ThreadOK(worker[p]) /\ worker[p].delta \in Nat
      /\ worker[p].after \in {"idle", "snapshot"}
  BY <1>1, OnOrder DEF Thread
<1>4. /\ traded' \in [Orders -> Nat] /\ traded'[o] = traded[o] + worker[p].delta
      /\ \A x \in Orders \ {o} : traded'[x] = traded[x]
  BY <1>2, <1>3 DEF RecordTrade, Base, PendingTypeOK
<1>5. CASE worker[p].after = "idle"
  <2>1. SetWorker(p, Idle) /\ AlgoKept /\ LegInv'
    BY <1>1, <1>5 DEF RecordTrade, AlgoKept, Base, LegInv
  <2>2. QED
    BY <1>1, <1>2, <1>4, <1>5, <2>1, GoneStep DEF Leaves, Base, PendingTypeOK
<1>6. CASE worker[p].after = "snapshot"
  <2> DEFINE w1 == [worker[p] EXCEPT !.pc = "snapshot"]
  <2>1. w1 \in Thread
    BY <1>3 DEF Thread, Pcs
  <2>2. SetWorker(p, w1)
    BY <1>6 DEF RecordTrade
  <2>3. worker' \in [Procs -> Thread] /\ worker'[p] = w1 /\ \A x \in Procs \ {p} : worker'[x] = worker[x]
    BY <2>1, <2>2, WorkerSet DEF Base, PendingTypeOK
  <2>4. /\ Moves(p) /\ worker'[p].pc = "snapshot" /\ worker'[p].after = worker[p].after
        /\ worker'[p].delta = worker[p].delta
        /\ worker'[p].lim = worker[p].lim /\ worker'[p].mkt = worker[p].mkt
        /\ worker'[p].leg = worker[p].leg /\ worker'[p].cum = worker[p].cum
        /\ worker'[p].vst = worker[p].vst
    BY <1>3, <2>3 DEF Moves, Thread
  <2>5. ThreadOK(worker[p])'
    BY <1>1, <1>2, <1>3, <1>6, <2>4 DEF ThreadOK, Moves
  <2>6. Base'
    BY <1>1, <1>4, <2>3, <2>5, BaseMove DEF Base, PendingTypeOK
  <2>7. QED
    BY <1>1, <1>2, <1>4, <1>6, <2>4, <2>6
<1>7. QED
  BY <1>3, <1>5, <1>6

LEMMA QueryStep ==
  ASSUME Base, NEW p \in Procs, QueryFill(p) \/ QueryNoPrice(p)
  PROVE /\ Base' /\ Moves(p) /\ UNCHANGED <<row, venue, traded, applied>>
        /\ faults \subseteq faults' /\ faults' \subseteq Faults
        /\ worker[p].pc = "query" /\ worker'[p].leg = worker[p].leg
        /\ worker'[p].cum = CurrentLeg(p).fill
        /\ \/ /\ worker'[p].delta = MaxOf(0, CurrentLeg(p).fill - worker[p].base)
              /\ worker'[p].after = "snapshot" /\ worker'[p].vst = CurrentLeg(p).st
              /\ worker'[p].pc = IF worker'[p].delta > 0 THEN "position" ELSE "snapshot"
              /\ faults' = faults
           \/ /\ worker'[p].delta = worker[p].delta /\ worker'[p].after = worker[p].after
              /\ worker'[p].pc = "snapshot" /\ CurrentLeg(p).fill > worker[p].base
              /\ worker'[p].vst \in {CurrentLeg(p).st, "noPrice"}
              /\ "noPrice" \in faults'
<1>1. worker[p].pc = "query" /\ UNCHANGED <<row, venue, traded, applied>>
  BY DEF QueryFill, QueryNoPrice
<1>2. PICK o \in Orders : o = worker[p].ord
  BY <1>1, OnOrder
<1>3. /\ worker[p] \in Thread /\ ThreadOK(worker[p]) /\ CurrentLeg(p).fill \in Nat
      /\ CurrentLeg(p).st \in LegStates /\ worker[p].base \in Nat
  BY <1>1, OnOrder, LegOfThread DEF Thread
<1>4. CASE QueryFill(p)
  <2>1. PICK d \in Nat : d = MaxOf(0, CurrentLeg(p).fill - worker[p].base)
    BY <1>3 DEF MaxOf
  <2> DEFINE w1 == [worker[p] EXCEPT !.cum = CurrentLeg(p).fill, !.vst = CurrentLeg(p).st,
                      !.delta = d, !.pc = IF d > 0 THEN "position" ELSE "snapshot",
                      !.after = "snapshot"]
  <2>2. w1 \in Thread
    <3>1. /\ CurrentLeg(p).fill \in Nat /\ CurrentLeg(p).st \in LegStates \cup {"noPrice"} /\ d \in Nat
          /\ (IF d > 0 THEN "position" ELSE "snapshot") \in Pcs
      BY <1>3, <2>1 DEF Pcs
    <3>2. QED
      BY <1>3, <3>1, Zenon DEF Thread
  <2>3. SetWorker(p, w1) /\ faults' = faults
    BY <1>4, <2>1 DEF QueryFill
  <2>4. worker' \in [Procs -> Thread] /\ worker'[p] = w1 /\ \A x \in Procs \ {p} : worker'[x] = worker[x]
    BY <2>2, <2>3, WorkerSet DEF Base, PendingTypeOK
  <2>5. /\ Moves(p) /\ worker'[p].pc = (IF d > 0 THEN "position" ELSE "snapshot")
        /\ worker'[p].after = "snapshot" /\ worker'[p].delta = d
        /\ worker'[p].lim = worker[p].lim /\ worker'[p].mkt = worker[p].mkt
        /\ worker'[p].leg = worker[p].leg /\ worker'[p].cum = CurrentLeg(p).fill
        /\ worker'[p].vst = CurrentLeg(p).st
    BY <1>3, <2>4 DEF Moves, Thread
  <2>6. ThreadOK(worker[p])'
    BY <1>1, <1>2, <1>3, <2>5 DEF ThreadOK, Moves
  <2>7. Base'
    BY <1>1, <2>3, <2>4, <2>6, BaseMove DEF Base, PendingTypeOK
  <2>8. QED
    BY <1>1, <2>1, <2>3, <2>5, <2>7 DEF Base, PendingTypeOK
<1>5. CASE QueryNoPrice(p)
  <2>1. PICK st \in {CurrentLeg(p).st, "noPrice"} :
          st = IF row[o].algo = "alpaca" THEN CurrentLeg(p).st ELSE "noPrice"
    OBVIOUS
  <2> DEFINE w1 == [worker[p] EXCEPT !.cum = CurrentLeg(p).fill, !.pc = "snapshot", !.vst = st]
  <2>2. w1 \in Thread
    <3>1. CurrentLeg(p).fill \in Nat /\ st \in LegStates \cup {"noPrice"} /\ "snapshot" \in Pcs
      BY <1>3, <2>1 DEF Pcs
    <3>2. QED
      BY <1>3, <3>1, Zenon DEF Thread
  <2>3. SetWorker(p, w1) /\ Fault("noPrice") /\ CurrentLeg(p).fill > worker[p].base
    BY <1>2, <1>5, <2>1 DEF QueryNoPrice
  <2>4. worker' \in [Procs -> Thread] /\ worker'[p] = w1 /\ \A x \in Procs \ {p} : worker'[x] = worker[x]
    BY <2>2, <2>3, WorkerSet DEF Base, PendingTypeOK
  <2>5. /\ Moves(p) /\ worker'[p].pc = "snapshot"
        /\ worker'[p].after = worker[p].after /\ worker'[p].delta = worker[p].delta
        /\ worker'[p].lim = worker[p].lim /\ worker'[p].mkt = worker[p].mkt
        /\ worker'[p].leg = worker[p].leg /\ worker'[p].cum = CurrentLeg(p).fill
        /\ worker'[p].vst = st
    BY <1>3, <2>4 DEF Moves, Thread
  <2>6. ThreadOK(worker[p])'
    BY <1>1, <1>2, <1>3, <2>5 DEF ThreadOK, Moves
  <2>7. faults' = faults \cup {"noPrice"} /\ faults' \subseteq Faults
    BY <2>3, FaultStep DEF Base, PendingTypeOK
  <2>8. Base'
    BY <1>1, <2>4, <2>6, <2>7, BaseMove DEF Base, PendingTypeOK
  <2>9. QED
    BY <1>1, <2>3, <2>5, <2>7, <2>8
<1>6. QED
  BY <1>4, <1>5

\* A sync ends: with the snapshot, or without an answer of the venue.
SyncEnds(p) ==
  /\ Leaves(p) /\ AlgoKept /\ UNCHANGED <<venue, traded, applied>>
  /\ faults \subseteq faults' /\ faults' \subseteq Faults
  /\ row'[worker[p].ord].algo = row[worker[p].ord].algo
  /\ row'[worker[p].ord].leg = row[worker[p].ord].leg
  /\ \A x \in Orders \ {worker[p].ord} : row'[x] = row[x]

LEMMA QueryFailsStep ==
  ASSUME Base, NEW p \in Procs, QueryFails(p)
  PROVE /\ Base' /\ SyncEnds(p) /\ worker[p].pc = "query"
        /\ \/ row' = row /\ row[worker[p].ord].algo = "alpaca"
           \/ /\ row'[worker[p].ord].st = "sent" /\ row'[worker[p].ord].tracked = -1
              /\ row'[worker[p].ord].filled = worker[p].prev
<1>1. /\ worker[p].pc = "query" /\ UNCHANGED <<venue, traded, applied>> /\ SetWorker(p, Idle)
      /\ Fault("query")
  BY DEF QueryFails
<1>2. PICK o \in Orders : o = worker[p].ord
  BY <1>1, OnOrder
<1>3. worker[p] \in Thread /\ row[o] \in Row /\ row[o].algo \in AlgoKinds
  BY <1>1, <1>2, OnOrder
<1>4. faults \subseteq faults' /\ faults' \subseteq Faults
  BY <1>1, FaultStep DEF Base, PendingTypeOK
<1> DEFINE r == [row[o] EXCEPT !.st = "sent", !.tracked = -1, !.filled = worker[p].prev]
<1>5. /\ r \in Row /\ r.st = "sent" /\ r.tracked = -1 /\ r.filled = worker[p].prev
      /\ r.algo = row[o].algo /\ r.leg = row[o].leg
  BY <1>3 DEF Row, Thread, Statuses
<1>6. (row' = row /\ row[o].algo = "alpaca") \/ SetRow(o, r)
  BY <1>2 DEF QueryFails, SetRow
<1> HIDE DEF r
<1>7. CASE row' = row /\ row[o].algo = "alpaca"
  <2>1. AlgoKept /\ LegInv'
    BY <1>1, <1>7 DEF AlgoKept, Base, LegInv
  <2>2. Leaves(p) /\ ThreadInv'
    BY <1>1, <2>1, GoneStep DEF Leaves
  <2>3. Base'
    BY <1>1, <1>4, <1>7, <2>1, <2>2 DEF Base, PendingTypeOK, Leaves
  <2>4. QED
    BY <1>1, <1>2, <1>4, <1>7, <2>1, <2>2, <2>3 DEF SyncEnds
<1>8. CASE SetRow(o, r)
  <2>1. row' \in [Orders -> Row] /\ row'[o] = r /\ \A x \in Orders \ {o} : row'[x] = row[x]
    BY <1>5, <1>8, RowSet DEF Base, PendingTypeOK
  <2>2. AlgoKept
    BY <1>5, <2>1 DEF AlgoKept
  <2>3. LegInv'
    BY <1>1, <1>3, <1>5, <2>1, <2>2, LegFrame DEF AlgoKinds, Base, LegInv
  <2>4. Leaves(p) /\ ThreadInv'
    BY <1>1, <2>2, GoneStep DEF Leaves
  <2>5. Base'
    BY <1>1, <1>4, <2>1, <2>3, <2>4 DEF Base, PendingTypeOK, Leaves
  <2>6. QED
    BY <1>1, <1>2, <1>4, <1>5, <2>1, <2>2, <2>4, <2>5 DEF SyncEnds
<1>9. QED
  BY <1>6, <1>7, <1>8

LEMMA SnapshotStep ==
  ASSUME Base, NEW p \in Procs, UpdateSnapshot(p)
  PROVE /\ Base' /\ SyncEnds(p) /\ worker[p].pc = "snapshot" /\ faults' = faults
        /\ AggregateFill(p) \in Nat /\ row'[worker[p].ord].filled = AggregateFill(p)
        /\ row'[worker[p].ord].tracked = worker[p].cum
        /\ row'[worker[p].ord].st = ReconciledQueueStatus(row[worker[p].ord].algo,
                                        AggregateFill(p), worker[p].vst)
        /\ row'[worker[p].ord].st \in {"filled", "cancelled", "sent"}
<1>1. /\ worker[p].pc = "snapshot" /\ UNCHANGED <<venue, traded, applied, faults>>
      /\ SetWorker(p, Idle)
  BY DEF UpdateSnapshot
<1>2. PICK o \in Orders : o = worker[p].ord
  BY <1>1, OnOrder
<1>3. worker[p] \in Thread /\ row[o] \in Row /\ row[o].algo \in AlgoKinds
  BY <1>1, <1>2, OnOrder
<1>4. PICK f \in Nat : f = AggregateFill(p)
  BY <1>3 DEF AggregateFill, Thread
<1>5. PICK st \in {"filled", "cancelled", "sent"} :
        st = ReconciledQueueStatus(row[o].algo, f, worker[p].vst)
  BY DEF ReconciledQueueStatus
<1> DEFINE r == [row[o] EXCEPT !.st = st, !.filled = f, !.tracked = worker[p].cum]
<1>6. /\ r \in Row /\ r.st = st /\ r.tracked = worker[p].cum /\ r.filled = f
      /\ r.algo = row[o].algo /\ r.leg = row[o].leg
  BY <1>3 DEF Row, Thread, Statuses
<1>7. SetRow(o, r)
  BY <1>2, <1>4, <1>5 DEF UpdateSnapshot
<1> HIDE DEF r
<1>8. row' \in [Orders -> Row] /\ row'[o] = r /\ \A x \in Orders \ {o} : row'[x] = row[x]
  BY <1>6, <1>7, RowSet DEF Base, PendingTypeOK
<1>9. AlgoKept
  BY <1>6, <1>8 DEF AlgoKept
<1>10. LegInv'
  BY <1>1, <1>3, <1>6, <1>8, <1>9, LegFrame DEF AlgoKinds, Base, LegInv
<1>11. Leaves(p) /\ ThreadInv'
  BY <1>1, <1>9, GoneStep DEF Leaves
<1>12. Base'
  BY <1>1, <1>8, <1>10, <1>11 DEF Base, PendingTypeOK, Leaves
<1>13. QED
  BY <1>1, <1>2, <1>4, <1>5, <1>6, <1>8, <1>9, <1>11, <1>12 DEF SyncEnds, Base, PendingTypeOK

LEMMA BaseStep == Base /\ CoreNext => Base'
<1> SUFFICES ASSUME Base, CoreNext PROVE Base'
  OBVIOUS
<1>1. ASSUME NEW p \in Procs, WorkerStep(p) PROVE Base'
  BY <1>1, BaseFail, NotifyStep, BasePlace, BaseWait, CancelStep, MarkSentStep, ReadStep,
     QueryStep, QueryFailsStep, SnapshotStep, ApplyStep, TradeStep
     DEF WorkerStep, DispatchStep, SyncStep, PersistStep
<1>2. QED
  BY <1>1, BaseSubmit, BaseRequeue, BaseClaim, BaseSentClaim, BaseGone, VenueStep DEF CoreNext

LEMMA BaseStutter == Base /\ UNCHANGED vars => Base'
BY DEF Base, vars, PendingTypeOK, ThreadInv, ThreadOK, LegInv

LEMMA BaseAlways == Spec => []Base
<1>1. Base /\ [Next]_vars => Base'
  BY BaseStep, BaseStutter, NextIsCore DEF Base
<1>2. QED
  BY <1>1, BaseInit, PTL DEF Spec

\* The queue, the venue and the worker threads have the types stated, in every
\* step of every worker and whatever fails (pending_order_worker.py).
THEOREM PendingTypeCorrect == Spec => []PendingTypeOK
<1>1. Base => PendingTypeOK
  BY DEF Base
<1>2. QED
  BY <1>1, BaseAlways, PTL

LEMMA LegInvPlacedOnce == Base => PlacedOnce
<1> SUFFICES ASSUME Base, NEW o \in Orders, row[o].algo \in {"market", "limit"}
             PROVE Exposure(o) <= Amount
  BY DEF PlacedOnce
<1> DEFINE q == [l \in Legs |-> IF venue[o][l].st \in {"open", "filled"}
                                  THEN venue[o][l].qty ELSE venue[o][l].fill]
<1>1. \A l \in Legs : venue[o][l] \in VenueLeg
  BY DEF Base, PendingTypeOK
<1>2. \A l \in Legs : q[l] \in 0 .. Amount
  BY <1>1 DEF VenueLeg
<1>3. q \in [Legs -> Nat]
  BY <1>2, AmountAssumption
<1>4. PICK x \in Legs : LegsOf(row[o].algo) = {x}
  BY LegsOfKind, LegFacts
<1>5. \A l \in Legs \ {x} : q[l] = 0
  <2> SUFFICES ASSUME NEW l \in Legs \ {x} PROVE q[l] = 0
    OBVIOUS
  <2>1. venue[o][l] = Unplaced
    BY <1>4 DEF Base, LegInv
  <2>2. QED
    BY <2>1, NullsTyped
<1>6. Exposure(o) = Total(q)
  BY DEF Exposure
<1> HIDE DEF q
<1>7. Total(q) = q[x]
  BY <1>3, <1>5, LegsFinite, TotalOne
<1>8. QED
  BY <1>2, <1>6, <1>7, AmountAssumption

\* However often a dispatch is repeated, by one worker or by several, the client
\* order id keeps a market or limit order from standing twice at the venue.
THEOREM NeverPlacedTwice == Spec => []PlacedOnce
BY LegInvPlacedOnce, BaseAlways, PTL

-----------------------------------------------------------------------------
(* Claims *)

\* A busy worker is in exactly one stage.
LEMMA Stages ==
  ASSUME Base, NEW p \in Procs
  PROVE /\ worker[p].pc = "idle" => worker[p] = Idle /\ worker[p].ord = NoOrder
        /\ worker[p].pc = "idle" <=> ~(Early(p) \/ Late(p) \/ Reconciling(p))
        /\ ~(Early(p) /\ Late(p)) /\ ~(Early(p) /\ Reconciling(p)) /\ ~(Late(p) /\ Reconciling(p))
        /\ worker[p].pc = "idle" <=> worker[p].ord = NoOrder
<1>1. ThreadOK(worker[p]) /\ worker[p] \in Thread
  BY DEF Base, PendingTypeOK, ThreadInv
<1>2. worker[p].pc = "idle" => worker[p] = Idle /\ worker[p].ord = NoOrder
  BY <1>1, NullsTyped DEF ThreadOK
<1>3. worker[p].pc # "idle" => worker[p].ord # NoOrder
  BY <1>1, OrdersAssumption DEF ThreadOK
<1>4. worker[p].pc \in Pcs /\ worker[p].after \in {"idle", "snapshot"}
  BY <1>1 DEF Thread
<1>5. worker[p].after = "snapshot" => worker[p].pc \in {"position", "trade", "snapshot"}
  BY <1>1 DEF ThreadOK
<1>6. QED
  BY <1>2, <1>3, <1>4, <1>5 DEF Early, Late, Reconciling, Pcs

\* The stage of a worker that does not move.
LEMMA StageFrame ==
  ASSUME NEW p \in Procs, worker'[p] = worker[p]
  PROVE Early(p)' = Early(p) /\ Late(p)' = Late(p) /\ Reconciling(p)' = Reconciling(p)
BY DEF Early, Late, Reconciling

LEMMA FaultsKept ==
  ASSUME faults \subseteq faults', NEW K, Without(K)' PROVE Without(K)
BY DEF Without

\* What ClaimInv says of two workers, with the first one busy.
Apart(p, q) ==
  \/ Late(p) /\ Reconciling(q)
  \/ Reconciling(p) /\ Late(q)
  \/ Reconciling(p) /\ Reconciling(q) /\ ~Without({"audit"})

RowKept(o) == row'[o].leg = row[o].leg /\ row'[o].filled = row[o].filled /\ row'[o].tracked = row[o].tracked

\* A worker goes on in its stage.
LEMMA ClaimMove ==
  ASSUME Base, Base', ClaimInv, NEW p \in Procs, Moves(p), worker[p].pc # "idle", row' = row,
         faults \subseteq faults',
         Early(p)' = Early(p), Late(p)' = Late(p), Reconciling(p)' = Reconciling(p),
         \A o \in Orders : row[o].leg = NoLeg => traded'[o] = traded[o] /\ applied'[o] = applied[o]
  PROVE ClaimInv'
<1>1. \A q \in Procs : /\ Early(q)' = Early(q) /\ Late(q)' = Late(q) /\ Reconciling(q)' = Reconciling(q)
                       /\ worker'[q].ord = worker[q].ord /\ worker'[q].prev = worker[q].prev
                       /\ worker'[q].pc = "idle" <=> worker[q].pc = "idle"
  <2>1. worker'[p].pc # "idle"
    <3>1. worker'[p].after = "snapshot" => worker'[p].pc \in {"position", "trade", "snapshot"}
      BY DEF Base, ThreadInv, ThreadOK
    <3>2. Early(p)' \/ Late(p)' \/ Reconciling(p)'
      BY Stages
    <3>3. QED
      BY <3>1, <3>2 DEF Early, Late, Reconciling
  <2>2. QED
    BY <2>1, StageFrame DEF Moves
<1>2. Without({"audit"})' => Without({"audit"})
  BY FaultsKept
<1>3. QED
  BY <1>1, <1>2 DEF ClaimInv

\* A worker leaves its row, which nobody has got from it meanwhile.
LEMMA ClaimLeave ==
  ASSUME Base, ClaimInv, NEW p \in Procs, Leaves(p), worker[p].pc # "idle",
         faults \subseteq faults',
         \A x \in Orders \ {worker[p].ord} : row'[x] = row[x],
         row'[worker[p].ord].leg = row[worker[p].ord].leg,
         row' = row \/ ~Late(p),
         IF row[worker[p].ord].leg = NoLeg THEN RowKept(worker[p].ord)
           ELSE row'[worker[p].ord].st \notin {"none", "pending", "processing"},
         \A o \in Orders : row[o].leg = NoLeg => traded'[o] = traded[o] /\ applied'[o] = applied[o]
  PROVE ClaimInv'
<1>1. PICK o \in Orders : o = worker[p].ord
  BY OnOrder
<1>2. worker'[p].pc = "idle" /\ ~Early(p)' /\ ~Late(p)' /\ ~Reconciling(p)'
  BY NullsTyped DEF Leaves, Early, Late, Reconciling
<1>3. \A q \in Procs \ {p} : /\ Early(q)' = Early(q) /\ Late(q)' = Late(q) /\ Reconciling(q)' = Reconciling(q)
                              /\ worker'[q] = worker[q]
  BY StageFrame DEF Leaves
<1>4. Without({"audit"})' => Without({"audit"})
  BY FaultsKept
<1>5. ASSUME NEW q \in Procs \ {p}
      PROVE /\ Early(q) => row'[worker[q].ord] = row[worker[q].ord]
            /\ Late(q) \/ Reconciling(q) => row'[worker[q].ord].leg = row[worker[q].ord].leg
            /\ Reconciling(q) /\ Without({"audit"}) => row'[worker[q].ord] = row[worker[q].ord]
  <2>1. worker[q].pc # "idle" => worker[q].ord \in Orders
    BY OnOrder
  <2>2. CASE worker[q].pc # "idle" /\ worker[q].ord = o
    <3>1. Apart(p, q)
      BY <1>1, <2>2 DEF ClaimInv, Apart
    <3>2. QED
      BY <1>1, <2>2, <3>1, Stages DEF Apart
  <2>3. CASE worker[q].pc = "idle" \/ worker[q].ord # o
    BY <1>1, <2>1, <2>3, Stages
  <2>4. QED
    BY <2>2, <2>3
<1>6. \A q \in Procs : Early(q)' => row'[worker'[q].ord].st = "processing" /\ row'[worker'[q].ord].leg = NoLeg
  BY <1>2, <1>3, <1>5 DEF ClaimInv
<1>7. \A q \in Procs : Late(q)' \/ Reconciling(q)' => row'[worker'[q].ord].leg # NoLeg
  BY <1>2, <1>3, <1>5 DEF ClaimInv
<1>8. \A q \in Procs : Reconciling(q)' /\ Without({"audit"})'
        => row'[worker'[q].ord].st = "syncing" /\ row'[worker'[q].ord].filled = worker'[q].prev
  BY <1>2, <1>3, <1>4, <1>5 DEF ClaimInv
<1>9. \A x, y \in Procs : x # y /\ worker'[x].ord = worker'[y].ord /\ worker'[x].pc # "idle" => Apart(x, y)'
  <2> SUFFICES ASSUME NEW x \in Procs, NEW y \in Procs, x # y,
                      worker'[x].ord = worker'[y].ord, worker'[x].pc # "idle"
               PROVE Apart(x, y)'
    OBVIOUS
  <2>1. x # p /\ worker'[x] = worker[x]
    BY <1>2, <1>3
  <2>2. y # p
    BY <2>1, NullsTyped, OnOrder, OrdersAssumption DEF Leaves
  <2>3. Apart(x, y)
    BY <1>3, <2>1, <2>2 DEF ClaimInv, Apart
  <2>4. QED
    BY <1>3, <1>4, <2>1, <2>2, <2>3 DEF Apart
<1>10. \A x \in Orders :
         IF row'[x].leg = NoLeg
           THEN row'[x].filled = 0 /\ row'[x].tracked = -1 /\ traded'[x] = 0 /\ applied'[x] = 0
           ELSE row'[x].st \notin {"none", "pending", "processing"}
  BY <1>1 DEF ClaimInv, RowKept
<1>11. QED
  BY <1>6, <1>7, <1>8, <1>9, <1>10 DEF ClaimInv, Apart

LEMMA ClaimInit == Init => ClaimInv
<1> SUFFICES ASSUME Init PROVE ClaimInv
  OBVIOUS
<1>1. \A p \in Procs : worker[p] = Idle /\ ~Early(p) /\ ~Late(p) /\ ~Reconciling(p)
  BY NullsTyped DEF Init, Early, Late, Reconciling
<1>2. \A o \in Orders : row[o] = NoRow /\ traded[o] = 0 /\ applied[o] = 0
  BY DEF Init
<1>3. QED
  BY <1>1, <1>2, NullsTyped DEF ClaimInv, NoRow

\* The rows change and no worker moves.
LEMMA ClaimRow ==
  ASSUME Base, ClaimInv, NEW o \in Orders, UNCHANGED <<traded, applied, worker, faults>>,
         \A x \in Orders \ {o} : row'[x] = row[x], \A p \in Procs : worker[p].ord # o,
         RowKept(o),
         row[o].leg # NoLeg => row'[o].st \notin {"none", "pending", "processing"}
  PROVE ClaimInv'
<1>1. \A q \in Procs : /\ Early(q)' = Early(q) /\ Late(q)' = Late(q) /\ Reconciling(q)' = Reconciling(q)
                       /\ worker'[q] = worker[q]
                       /\ worker[q].pc # "idle" => row'[worker[q].ord] = row[worker[q].ord]
  BY StageFrame, OnOrder
<1>2. Without({"audit"})' = Without({"audit"})
  BY DEF Without
<1>3. QED
  BY <1>1, <1>2, Stages DEF ClaimInv, RowKept

\* A stale row has no worker.
LEMMA StaleFree ==
  ASSUME Base, Paced, NEW o \in Orders, Stale(o), \E p \in Procs : worker[p].pc = "idle"
  PROVE \A p \in Procs : worker[p].ord # o
<1>1. PICK i \in Procs : worker[i].pc = "idle" /\ worker[i].ord = NoOrder
  BY Stages
<1>2. CASE ~Slow
  BY <1>2 DEF Stale, Busy
<1>3. CASE \A p, q \in Procs : p = q
  BY <1>1, <1>3, OrdersAssumption
<1>4. QED
  BY <1>2, <1>3 DEF Paced

\* A worker p comes to a row that no dispatch has and joins whoever is there.
LEMMA ClaimJoin ==
  ASSUME Base, ClaimInv, NEW p \in Procs, NEW o \in Orders, worker[p].pc = "idle",
         worker'[p].ord = o, worker'[p].prev = row[o].filled \/ ~Reconciling(p)',
         \A q \in Procs \ {p} : worker'[q] = worker[q],
         \A x \in Orders \ {o} : row'[x] = row[x], RowKept(o), UNCHANGED <<traded, applied>>,
         faults \subseteq faults', ~Late(p)',
         IF Early(p)' THEN /\ row[o].st = "pending" /\ row'[o].st = "processing" /\ ~Reconciling(p)'
                      ELSE /\ row[o].st \in {"sent", "filled"} /\ row'[o].st = "syncing"
                           /\ row[o].leg # NoLeg /\ Reconciling(p)'
  PROVE ClaimInv'
<1>1. \A q \in Procs \ {p} : /\ Early(q)' = Early(q) /\ Late(q)' = Late(q) /\ Reconciling(q)' = Reconciling(q)
                              /\ worker'[q] = worker[q]
  BY StageFrame
<1>2. Without({"audit"})' => Without({"audit"})
  BY FaultsKept
<1>3. ASSUME NEW q \in Procs \ {p}, worker[q].ord = o
      PROVE ~Early(p)' /\ (Late(q) \/ (Reconciling(q) /\ ~Without({"audit"}))) /\ ~Early(q)
  <2>1. worker[q].pc # "idle"
    BY <1>3, Stages, OrdersAssumption
  <2>2. ~Early(q)
    BY <1>3 DEF ClaimInv
  <2>3. Late(q) \/ Reconciling(q)
    BY <2>1, <2>2, Stages
  <2>4. row[o].leg # NoLeg
    BY <1>3, <2>3 DEF ClaimInv
  <2>5. ~Early(p)'
    BY <2>4 DEF ClaimInv
  <2>6. Reconciling(q) => ~Without({"audit"})
    BY <1>3, <2>5 DEF ClaimInv
  <2>7. QED
    BY <2>2, <2>3, <2>5, <2>6
<1>4. ASSUME NEW q \in Procs \ {p}, Early(q) \/ Late(q) \/ Reconciling(q), worker[q].ord # o
      PROVE row'[worker[q].ord] = row[worker[q].ord]
  BY <1>4, Stages, OnOrder
<1>5. \A q \in Procs : Early(q)' => row'[worker'[q].ord].st = "processing" /\ row'[worker'[q].ord].leg = NoLeg
  BY <1>1, <1>3, <1>4 DEF ClaimInv, RowKept
<1>6. \A q \in Procs : Late(q)' \/ Reconciling(q)' => row'[worker'[q].ord].leg # NoLeg
  BY <1>1, <1>3, <1>4 DEF ClaimInv, RowKept
<1>7. \A q \in Procs : Reconciling(q)' /\ Without({"audit"})'
        => row'[worker'[q].ord].st = "syncing" /\ row'[worker'[q].ord].filled = worker'[q].prev
  <2> SUFFICES ASSUME NEW q \in Procs, Reconciling(q)', Without({"audit"})'
               PROVE row'[worker'[q].ord].st = "syncing" /\ row'[worker'[q].ord].filled = worker'[q].prev
    OBVIOUS
  <2>1. CASE q = p
    BY <2>1 DEF RowKept
  <2>2. CASE q # p
    <3>1. Reconciling(q) /\ worker'[q] = worker[q] /\ Without({"audit"})
      BY <1>1, <1>2, <2>2
    <3>2. worker[q].ord # o
      BY <1>3, <2>2, <3>1, Stages
    <3>3. QED
      BY <1>4, <2>2, <3>1, <3>2 DEF ClaimInv
  <2>3. QED
    BY <2>1, <2>2
<1>8. \A x, y \in Procs : x # y /\ worker'[x].ord = worker'[y].ord /\ worker'[x].pc # "idle" => Apart(x, y)'
  <2> SUFFICES ASSUME NEW x \in Procs, NEW y \in Procs, x # y,
                      worker'[x].ord = worker'[y].ord, worker'[x].pc # "idle"
               PROVE Apart(x, y)'
    OBVIOUS
  <2>1. CASE x # p /\ y # p
    BY <1>1, <1>2, <2>1 DEF ClaimInv, Apart
  <2>2. CASE x = p
    BY <1>1, <1>2, <1>3, <2>2 DEF Apart
  <2>3. CASE y = p
    BY <1>1, <1>2, <1>3, <2>3 DEF Apart
  <2>4. QED
    BY <2>1, <2>2, <2>3
<1>9. \A x \in Orders :
         IF row'[x].leg = NoLeg
           THEN row'[x].filled = 0 /\ row'[x].tracked = -1 /\ traded'[x] = 0 /\ applied'[x] = 0
           ELSE row'[x].st \notin {"none", "pending", "processing"}
  BY DEF ClaimInv, RowKept
<1>10. QED
  BY <1>5, <1>6, <1>7, <1>8, <1>9 DEF ClaimInv, Apart

LEMMA ClaimQueue ==
  ASSUME Base, ClaimInv, Paced,
         \/ \E o \in Orders : Submit(o) \/ RequeueProcessing(o) \/ RequeueSyncing(o)
         \/ \E p \in Procs, o \in Orders : Claim(p, o) \/ SentClaimed(p, o)
         \/ \E o \in Orders, l \in Legs : VenueFills(o, l) \/ VenueCancels(o, l)
  PROVE ClaimInv'
<1>1. ASSUME NEW o \in Orders, Submit(o) PROVE ClaimInv'
  <2>1. PICK a \in Algos : SetRow(o, [NoRow EXCEPT !.st = "pending", !.algo = a])
    BY <1>1 DEF Submit
  <2>2. row[o] = NoRow /\ UNCHANGED <<traded, applied, worker, faults>>
    BY <1>1 DEF Submit, Base, LegInv
  <2>3. RowKept(o) /\ \A x \in Orders \ {o} : row'[x] = row[x]
    BY <2>1, <2>2, NullsTyped DEF SetRow, RowKept, Base, PendingTypeOK, Row
  <2>4. \A p \in Procs : worker[p].ord # o
    BY <2>2, Stages, OnOrder, NullsTyped, OrdersAssumption
  <2>5. QED
    BY <2>2, <2>3, <2>4, NullsTyped, ClaimRow
<1>2. ASSUME NEW o \in Orders, RequeueProcessing(o) \/ RequeueSyncing(o) PROVE ClaimInv'
  <2>1. \A p \in Procs : worker[p].ord # o
    BY <1>2, StaleFree DEF RequeueProcessing, RequeueSyncing
  <2>2. /\ row[o].st # "none" /\ UNCHANGED <<traded, applied, worker, faults>>
        /\ \/ row[o].st = "processing" /\ SetRow(o, [row[o] EXCEPT !.st = "pending"])
           \/ row[o].st = "syncing" /\ SetRow(o, [row[o] EXCEPT !.st = "sent"])
    BY <1>2 DEF RequeueProcessing, RequeueSyncing
  <2>3. /\ RowKept(o) /\ \A x \in Orders \ {o} : row'[x] = row[x]
        /\ \/ row[o].st = "processing"
           \/ row'[o].st = "sent"
    BY <2>2, StatusSet DEF RowKept, Statuses
  <2>4. row[o].leg # NoLeg => row[o].st # "processing"
    BY DEF ClaimInv
  <2>5. QED
    BY <2>1, <2>2, <2>3, <2>4, ClaimRow
<1>3. ASSUME NEW p \in Procs, NEW o \in Orders, Claim(p, o) PROVE ClaimInv'
  <2>1. Early(p)' /\ ~Late(p)' /\ ~Reconciling(p)'
    BY <1>3, ClaimStep DEF Early, Late, Reconciling
  <2>2. QED
    BY <1>3, <2>1, ClaimStep, ClaimJoin DEF RowKept
<1>4. ASSUME NEW p \in Procs, NEW o \in Orders, SentClaimed(p, o) PROVE ClaimInv'
  <2>1. ~Early(p)' /\ ~Late(p)' /\ Reconciling(p)'
    BY <1>4, SentClaimStep DEF Early, Late, Reconciling
  <2>2. QED
    BY <1>4, <2>1, SentClaimStep, ClaimJoin DEF RowKept
<1>5. ASSUME NEW o \in Orders, NEW l \in Legs, VenueFills(o, l) \/ VenueCancels(o, l) PROVE ClaimInv'
  <2>1. UNCHANGED <<row, traded, applied, worker, faults>>
    BY <1>5, VenueStep
  <2>2. QED
    BY <2>1 DEF ClaimInv, Early, Late, Reconciling, Without
<1>6. QED
  BY <1>1, <1>2, <1>3, <1>4, <1>5

\* A dispatch is alone on its order.
LEMMA EarlyAlone ==
  ASSUME Base, ClaimInv, NEW p \in Procs, Early(p), NEW q \in Procs \ {p}
  PROVE worker[q].ord # worker[p].ord
BY Stages DEF ClaimInv

LEMMA ClaimMarkSent ==
  ASSUME Base, ClaimInv, NEW p \in Procs, MarkSent(p) PROVE ClaimInv'
<1>1. PICK o \in Orders : o = worker[p].ord
  BY MarkSentStep, OnOrder
<1>2. Early(p) /\ ~Early(p)' /\ Late(p)' /\ ~Reconciling(p)' /\ worker'[p].ord = o
  <2>1. worker[p].after = "idle"
    BY MarkSentStep, Stages DEF Early, Reconciling, Base, PendingTypeOK, Thread
  <2>2. QED
    BY <1>1, <2>1, MarkSentStep DEF Early, Late, Reconciling, Moves
<1>3. \A q \in Procs \ {p} : /\ Early(q)' = Early(q) /\ Late(q)' = Late(q) /\ Reconciling(q)' = Reconciling(q)
                              /\ worker'[q] = worker[q] /\ worker[q].ord # o
  BY <1>1, <1>2, StageFrame, EarlyAlone, MarkSentStep DEF Moves
<1>4. \A q \in Procs \ {p} : Early(q) \/ Late(q) \/ Reconciling(q) => row'[worker[q].ord] = row[worker[q].ord]
  BY <1>1, <1>3, Stages, OnOrder, MarkSentStep
<1>5. row'[o].leg # NoLeg /\ row'[o].st \in {"filled", "sent"}
  BY <1>1, LegFacts, MarkSentStep
<1>6. UNCHANGED <<traded, applied, faults>> /\ \A x \in Orders \ {o} : row'[x] = row[x]
  BY <1>1, MarkSentStep
<1>7. Without({"audit"})' = Without({"audit"})
  BY <1>6 DEF Without
<1>8. \A x, y \in Procs : x # y /\ worker'[x].ord = worker'[y].ord /\ worker'[x].pc # "idle" => Apart(x, y)'
  <2> SUFFICES ASSUME NEW x \in Procs, NEW y \in Procs, x # y,
                      worker'[x].ord = worker'[y].ord, worker'[x].pc # "idle"
               PROVE Apart(x, y)'
    OBVIOUS
  <2>1. x # p /\ y # p
    BY <1>2, <1>3
  <2>2. QED
    BY <1>3, <1>7, <2>1 DEF ClaimInv, Apart
<1>9. \A q \in Procs :
        /\ Early(q)' => row'[worker'[q].ord].st = "processing" /\ row'[worker'[q].ord].leg = NoLeg
        /\ Late(q)' \/ Reconciling(q)' => row'[worker'[q].ord].leg # NoLeg
        /\ Reconciling(q)' /\ Without({"audit"})'
             => row'[worker'[q].ord].st = "syncing" /\ row'[worker'[q].ord].filled = worker'[q].prev
  BY <1>2, <1>3, <1>4, <1>5, <1>7 DEF ClaimInv
<1>10. \A x \in Orders :
         IF row'[x].leg = NoLeg
           THEN row'[x].filled = 0 /\ row'[x].tracked = -1 /\ traded'[x] = 0 /\ applied'[x] = 0
           ELSE row'[x].st \notin {"none", "pending", "processing"}
  BY <1>5, <1>6 DEF ClaimInv
<1>11. QED
  BY <1>8, <1>9, <1>10 DEF ClaimInv, Apart

\* The local variable "after" before and after the recording.
LEMMA AfterOf ==
  ASSUME Base, NEW p \in Procs
  PROVE /\ worker[p].after \in {"idle", "snapshot"}
        /\ worker[p].pc \notin {"position", "trade", "snapshot"} => worker[p].after = "idle"
BY DEF Base, PendingTypeOK, Thread, ThreadInv, ThreadOK

LEMMA ClaimWorker ==
  ASSUME Base, ClaimInv, NEW p \in Procs, WorkerStep(p) PROVE ClaimInv'
<1>0. Base'
  BY BaseStep DEF CoreNext
<1> USE AfterOf
<1>1. ASSUME MarkFailed(p), worker[p].pc \in {"dispatch", "market", "cancel"}, faults \subseteq faults'
      PROVE ClaimInv'
  <2>1. Early(p) /\ ~Late(p)
    BY <1>1, Stages DEF Early
  <2>2. row[worker[p].ord].leg = NoLeg
    BY <2>1 DEF ClaimInv
  <2>3. QED
    BY <1>1, <2>1, <2>2, FailStep, ClaimLeave DEF RowKept
<1>2. CASE RejectDispatch(p) \/ PlaceRefused(p) \/ PlaceLost(p)
  <2>1. faults \subseteq faults'
    BY <1>2, FaultStep DEF RejectDispatch, PlaceRefused, PlaceLost, Base, PendingTypeOK
  <2>2. QED
    BY <1>1, <1>2, <2>1, BaseFail
<1>3. CASE NotifySignal(p)
  <2>1. Early(p) /\ ~Late(p)
    BY <1>3, NotifyStep, Stages DEF Early
  <2>2. row[worker[p].ord].leg = NoLeg
    BY <2>1 DEF ClaimInv
  <2>3. QED
    BY <1>3, <2>1, <2>2, NotifyStep, ClaimLeave DEF RowKept
<1>4. CASE Place(p)
  <2>1. /\ Early(p)' = Early(p) /\ Late(p)' = Late(p) /\ Reconciling(p)' = Reconciling(p)
        /\ worker[p].pc # "idle"
    BY <1>4, PlaceStep, PlaceLegs DEF Early, Late, Reconciling
  <2>2. QED
    BY <1>0, <1>4, <2>1, PlaceStep, ClaimMove
<1>5. CASE WaitLimit(p)
  <2>1. /\ Early(p)' = Early(p) /\ Late(p)' = Late(p) /\ Reconciling(p)' = Reconciling(p)
        /\ worker[p].pc # "idle"
    BY <1>5, WaitLimitStep DEF Early, Late, Reconciling
  <2>2. QED
    BY <1>0, <1>5, <2>1, WaitLimitStep, ClaimMove
<1>6. CASE WaitMarket(p)
  <2>1. /\ Early(p)' = Early(p) /\ Late(p)' = Late(p) /\ Reconciling(p)' = Reconciling(p)
        /\ worker[p].pc # "idle"
    BY <1>6, WaitMarketStep DEF Early, Late, Reconciling
  <2>2. QED
    BY <1>0, <1>6, <2>1, WaitMarketStep, ClaimMove
<1>7. CASE CancelLimit(p)
  <2>1. CASE Cancelled(p)
    <3>1. /\ Early(p)' = Early(p) /\ Late(p)' = Late(p) /\ Reconciling(p)' = Reconciling(p)
          /\ worker[p].pc # "idle"
      BY <2>1 DEF Cancelled, Early, Late, Reconciling
    <3>2. QED
      BY <1>0, <2>1, <3>1, ClaimMove DEF Cancelled
  <2>2. CASE MarkFailed(p) /\ UNCHANGED <<venue, faults>> /\ worker[p].pc = "cancel"
    BY <1>1, <2>2
  <2>3. QED
    BY <1>7, <2>1, <2>2, CancelStep
<1>8. CASE MarkSent(p)
  BY <1>8, ClaimMarkSent
<1>9. CASE ReadUnrecorded(p)
  <2>1. /\ ~Early(p) /\ Late(p) /\ ~Reconciling(p) /\ worker[p].pc # "idle"
        /\ UNCHANGED <<row, traded, applied, faults>>
    BY <1>9, ReadStep DEF Early, Late, Reconciling
  <2>2. row[worker[p].ord].leg # NoLeg /\ worker[p].ord \in Orders
    BY <2>1, OnOrder DEF ClaimInv
  <2>3. row[worker[p].ord].st \notin {"none", "pending", "processing"}
    BY <2>2 DEF ClaimInv
  <2>4. CASE Leaves(p)
    BY <2>1, <2>2, <2>3, <2>4, ClaimLeave
  <2>5. CASE Moves(p) /\ worker'[p].pc = "position" /\ worker'[p].after = worker[p].after
    <3>1. Early(p)' = Early(p) /\ Late(p)' = Late(p) /\ Reconciling(p)' = Reconciling(p)
      BY <1>9, <2>5, ReadStep DEF Early, Late, Reconciling
    <3>2. QED
      BY <1>0, <2>1, <2>5, <3>1, ClaimMove
  <2>6. QED
    BY <1>9, <2>4, <2>5, ReadStep
<1>10. CASE ApplyPosition(p)
  <2>1. /\ Early(p)' = Early(p) /\ Late(p)' = Late(p) /\ Reconciling(p)' = Reconciling(p)
        /\ worker[p].pc # "idle" /\ (Late(p) \/ Reconciling(p))
    BY <1>10, ApplyStep DEF Early, Late, Reconciling
  <2>2. row[worker[p].ord].leg # NoLeg
    BY <2>1 DEF ClaimInv
  <2>3. QED
    BY <1>0, <1>10, <2>1, <2>2, ApplyStep, ClaimMove
<1>11. CASE RecordTrade(p)
  <2>1. worker[p].pc # "idle" /\ (Late(p) \/ Reconciling(p)) /\ UNCHANGED <<row, applied, faults>>
    BY <1>11, TradeStep DEF Late, Reconciling
  <2>2. row[worker[p].ord].leg # NoLeg /\ worker[p].ord \in Orders
    BY <2>1, OnOrder DEF ClaimInv
  <2>3. row[worker[p].ord].st \notin {"none", "pending", "processing"}
    BY <2>2 DEF ClaimInv
  <2>4. CASE Leaves(p)
    BY <1>11, <2>1, <2>2, <2>3, <2>4, TradeStep, ClaimLeave
  <2>5. CASE ~Leaves(p)
    <3>1. /\ Moves(p) /\ Early(p)' = Early(p) /\ Late(p)' = Late(p) /\ Reconciling(p)' = Reconciling(p)
      BY <1>11, <2>5, TradeStep DEF Early, Late, Reconciling
    <3>2. QED
      BY <1>0, <1>11, <2>1, <2>2, <3>1, TradeStep, ClaimMove
  <2>6. QED
    BY <2>4, <2>5
<1>12. CASE QueryFill(p) \/ QueryNoPrice(p)
  <2>1. /\ Early(p)' = Early(p) /\ Late(p)' = Late(p) /\ Reconciling(p)' = Reconciling(p)
        /\ worker[p].pc # "idle"
    BY <1>12, QueryStep DEF Early, Late, Reconciling
  <2>2. QED
    BY <1>0, <1>12, <2>1, QueryStep, ClaimMove
<1>13. CASE QueryFails(p) \/ UpdateSnapshot(p)
  <2>1. /\ Reconciling(p) /\ ~Late(p) /\ worker[p].pc # "idle" /\ SyncEnds(p)
    BY <1>13, QueryFailsStep, SnapshotStep, Stages DEF Reconciling
  <2>2. row[worker[p].ord].leg # NoLeg /\ worker[p].ord \in Orders
    BY <2>1, OnOrder DEF ClaimInv
  <2>3. row[worker[p].ord].st \notin {"none", "pending", "processing"}
    BY <2>2 DEF ClaimInv
  <2>4. row'[worker[p].ord].st \notin {"none", "pending", "processing"}
    BY <1>13, <2>3, QueryFailsStep, SnapshotStep
  <2>5. QED
    BY <2>1, <2>2, <2>4, ClaimLeave DEF SyncEnds
<1>14. QED
  BY <1>2, <1>3, <1>4, <1>5, <1>6, <1>7, <1>8, <1>9, <1>10, <1>11, <1>12, <1>13
     DEF WorkerStep, DispatchStep, SyncStep, PersistStep

LEMMA ClaimGone == ASSUME Base, ClaimInv, NEW p \in Procs, WorkerGone(p) PROVE ClaimInv'
<1>1. /\ Leaves(p) /\ UNCHANGED <<row, venue, traded, applied>> /\ faults \subseteq faults'
  BY GoneStep DEF WorkerGone, Leaves
<1>2. CASE worker[p].pc # "idle"
  BY <1>1, <1>2, OnOrder, ClaimLeave DEF ClaimInv, RowKept
<1>3. CASE worker[p].pc = "idle"
  <2>1. worker'[p] = worker[p]
    BY <1>1, <1>3, Stages DEF Leaves
  <2>2. worker' = worker
    BY <1>1, <2>1 DEF Leaves, Base, PendingTypeOK
  <2>3. Without({"audit"})' => Without({"audit"})
    BY <1>1, FaultsKept
  <2>4. QED
    BY <1>1, <2>2, <2>3 DEF ClaimInv, Early, Late, Reconciling
<1>4. QED
  BY <1>2, <1>3

LEMMA ClaimInvStep == ASSUME Base, ClaimInv, Paced, CoreNext PROVE ClaimInv'
BY ClaimQueue, ClaimWorker, ClaimGone DEF CoreNext

-----------------------------------------------------------------------------
(* What a dispatch has read *)

LEMMA CoreVenueGrows == ASSUME Base, CoreNext PROVE VenueGrows
<1>1. ASSUME NEW p \in Procs, WorkerStep(p), venue' # venue PROVE VenueGrows
  <2>1. Place(p) \/ PlaceLost(p) \/ CancelLimit(p)
    BY <1>1 DEF WorkerStep, DispatchStep, SyncStep, PersistStep, RejectDispatch, NotifySignal,
       PlaceRefused, WaitLimit, WaitMarket, MarkSent, ReadUnrecorded, QueryFill, QueryNoPrice,
       QueryFails, UpdateSnapshot, ApplyPosition, RecordTrade
  <2>2. CASE Place(p) \/ PlaceLost(p)
    BY <2>2, AcceptStep DEF Place, PlaceLost
  <2>3. CASE CancelLimit(p)
    BY <1>1, <2>3, CancelStep DEF Cancelled
  <2>4. QED
    BY <2>1, <2>2, <2>3
<1>2. ASSUME NEW o \in Orders, Submit(o) \/ RequeueProcessing(o) \/ RequeueSyncing(o) PROVE venue' = venue
  BY <1>2 DEF Submit, RequeueProcessing, RequeueSyncing
<1>3. ASSUME NEW p \in Procs, NEW o \in Orders, Claim(p, o) \/ SentClaimed(p, o) PROVE venue' = venue
  BY <1>3, ClaimStep, SentClaimStep
<1>4. ASSUME NEW p \in Procs, WorkerGone(p) PROVE venue' = venue
  BY <1>4 DEF WorkerGone
<1>5. QED
  BY <1>1, <1>2, <1>3, <1>4, VenueSame, VenueStep DEF CoreNext

\* The fills a worker speaks of are numbers, and they grow.
LEMMA FillsGrow ==
  ASSUME Base, Base', VenueGrows, NEW o \in Orders, NEW l \in Legs
  PROVE /\ venue[o][l].fill \in Nat /\ venue'[o][l].fill \in Nat
        /\ venue[o][l].fill <= venue'[o][l].fill
<1>1. venue[o][l] \in VenueLeg /\ venue'[o][l] \in VenueLeg
  BY DEF Base, PendingTypeOK
<1>2. QED
  BY <1>1, AmountAssumption DEF VenueLeg, VenueGrows

LEMMA ReadFrame ==
  ASSUME Base, Base', VenueGrows, NEW q \in Procs, ReadOK(q), worker'[q] = worker[q]
  PROVE ReadOK(q)'
<1>1. CASE worker[q].pc = "idle"
  BY <1>1, StageFrame, Stages DEF ReadOK
<1>2. CASE worker[q].pc # "idle"
  <2>1. /\ worker[q].ord \in Orders /\ worker[q].lim \in Nat /\ worker[q].got \in Nat
        /\ worker[q].leg # NoLeg => worker[q].leg \in Legs
    BY <1>2, OnOrder, AmountAssumption DEF Thread
  <2>2. worker[q].pc = "sent" => worker[q].leg \in Legs
    BY LegOfThread
  <2>3. LET w == worker[q] IN
        /\ Early(q) => w.lim <= venue'[w.ord][<<"lmt", 0>>].fill
        /\ w.pc = "sent" => w.got <= w.lim + venue'[w.ord][w.leg].fill
    BY <2>1, <2>2, FillsGrow, LegFacts DEF ReadOK
  <2>4. QED
    BY <2>3, StageFrame DEF ReadOK
<1>3. QED
  BY <1>1, <1>2

LEMMA ReadInit == Init => ReadInv
BY NullsTyped DEF Init, ReadInv, ReadOK, Early

\* A worker that is not in a dispatch has nothing to say.
LEMMA ReadOther ==
  ASSUME NEW p \in Procs,
         worker'[p].pc \in {"idle", "query", "record", "position", "trade", "snapshot"}
  PROVE ReadOK(p)'
BY DEF ReadOK, Early

LEMMA ReadWorker ==
  ASSUME Base, Base', ReadInv, VenueGrows, NEW p \in Procs, WorkerStep(p)
  PROVE ReadOK(p)' /\ \A q \in Procs \ {p} : worker'[q] = worker[q]
<1> USE LegFacts
<1>1. CASE RejectDispatch(p) \/ PlaceRefused(p) \/ PlaceLost(p)
  BY <1>1, BaseFail, FailStep, ReadOther, NullsTyped DEF Leaves
<1>2. CASE NotifySignal(p)
  BY <1>2, NotifyStep, ReadOther, NullsTyped DEF Leaves
<1>3. CASE Place(p)
  <2>1. PICK o \in Orders : o = worker[p].ord
    BY <1>3, PlaceStep, PlaceLegs, OnOrder
  <2>2. /\ worker[p].pc \in {"dispatch", "market"} /\ worker'[p].leg = PlaceLeg(p) /\ PlaceLeg(p) \in Legs
        /\ worker'[p].lim = worker[p].lim /\ worker'[p].ord = o /\ worker'[p].pc \in {"wait", "sent"}
        /\ worker'[p].got = worker[p].got /\ worker[p].lim \in Nat
        /\ worker'[p].pc = "sent" => row[o].algo = "limit"
    BY <1>3, <2>1, PlaceStep, PlaceLegs, OnOrder, AmountAssumption DEF Moves, Thread
  <2>3. worker[p].lim <= venue'[o][<<"lmt", 0>>].fill
    <3>1. worker[p].lim <= venue[o][<<"lmt", 0>>].fill
      BY <2>1, <2>2 DEF ReadInv, ReadOK, Early
    <3>2. QED
      BY <2>2, <3>1, FillsGrow
  <2>4. worker[p].pc = "dispatch" => worker[p].lim = 0
    BY <2>2, OnOrder DEF ThreadOK
  <2>5. PlaceLeg(p) = <<"lmt", 0>> => worker[p].lim = 0
    <3>1. worker[p].pc = "market" => row[o].algo = "maker"
      BY <2>1, <2>2, OnOrder DEF ThreadOK
    <3>2. QED
      BY <1>3, <2>1, <2>2, <2>4, <3>1, PlaceLegs, PlaceStep
  <2>6. worker'[p].pc = "sent" => worker[p].got <= worker[p].lim + venue'[o][PlaceLeg(p)].fill
    <3>1. row[o].algo = "limit" => worker[p].pc = "dispatch"
      BY <2>1, <2>2, OnOrder DEF ThreadOK
    <3>2. worker[p].pc = "dispatch" => worker[p].got = 0
      BY <2>2, OnOrder DEF ThreadOK
    <3>3. QED
      BY <2>2, <3>1, <3>2, FillsGrow
  <2>7. QED
    BY <1>3, <2>1, <2>2, <2>3, <2>5, <2>6, PlaceStep DEF ReadOK, Early, Moves
<1>4. CASE WaitLimit(p)
  <2>1. PICK o \in Orders : o = worker[p].ord
    BY <1>4, WaitLimitStep, OnOrder
  <2>2. /\ worker[p].lim = 0 /\ CurrentLeg(p).fill = venue[o][<<"lmt", 0>>].fill
        /\ worker[p].lim <= venue[o][<<"lmt", 0>>].fill /\ venue' = venue
        /\ venue[o][<<"lmt", 0>>].fill \in Nat
    BY <1>4, <2>1, WaitLimitStep, FillsGrow DEF ReadInv, ReadOK, Early, CurrentLeg
  <2>3. QED
    BY <1>4, <2>1, <2>2, WaitLimitStep DEF ReadOK, Early, Moves
<1>5. CASE WaitMarket(p)
  <2>1. PICK o \in Orders : o = worker[p].ord
    BY <1>5, WaitMarketStep, OnOrder
  <2>2. /\ CurrentLeg(p).fill = venue[o][worker[p].leg].fill /\ CurrentLeg(p).fill \in Nat
        /\ worker[p].lim <= venue[o][<<"lmt", 0>>].fill /\ venue' = venue /\ worker[p].lim \in Nat
    BY <1>5, <2>1, WaitMarketStep, LegOfThread, OnOrder, AmountAssumption
       DEF ReadInv, ReadOK, Early, CurrentLeg, Thread
  <2>3. QED
    BY <1>5, <2>1, <2>2, WaitMarketStep DEF ReadOK, Early, Moves
<1>6. CASE CancelLimit(p)
  <2>1. CASE Cancelled(p)
    <3>1. PICK o \in Orders : o = worker[p].ord
      BY <2>1, OnOrder DEF Cancelled
    <3>2. worker[p].lim <= venue[o][<<"lmt", 0>>].fill
      BY <2>1, <3>1 DEF Cancelled, ReadInv, ReadOK, Early
    <3>3. QED
      BY <2>1, <3>1, <3>2 DEF Cancelled, ReadOK, Early, Moves
  <2>2. CASE MarkFailed(p) /\ worker[p].pc = "cancel"
    BY <2>2, FailStep, ReadOther, NullsTyped DEF Leaves
  <2>3. QED
    BY <1>6, <2>1, <2>2, CancelStep
<1>7. CASE MarkSent(p)
  BY <1>7, MarkSentStep, ReadOther DEF Moves
<1>8. CASE ReadUnrecorded(p)
  BY <1>8, ReadStep, ReadOther, NullsTyped DEF Moves, Leaves
<1>9. CASE QueryFill(p) \/ QueryNoPrice(p)
  BY <1>9, QueryStep, ReadOther DEF Moves
<1>10. CASE QueryFails(p) \/ UpdateSnapshot(p)
  BY <1>10, QueryFailsStep, SnapshotStep, ReadOther, NullsTyped DEF SyncEnds, Leaves
<1>11. CASE ApplyPosition(p)
  BY <1>11, ApplyStep, ReadOther DEF Moves
<1>12. CASE RecordTrade(p)
  BY <1>12, TradeStep, ReadOther, NullsTyped DEF Moves, Leaves
<1>13. QED
  BY <1>1, <1>2, <1>3, <1>4, <1>5, <1>6, <1>7, <1>8, <1>9, <1>10, <1>11, <1>12
     DEF WorkerStep, DispatchStep, SyncStep, PersistStep

LEMMA ReadStepInv == ASSUME Base, ReadInv, CoreNext PROVE ReadInv'
<1>1. Base' /\ VenueGrows
  BY BaseStep, CoreVenueGrows
<1>2. ASSUME NEW p \in Procs, ReadOK(p)', \A q \in Procs \ {p} : worker'[q] = worker[q]
      PROVE ReadInv'
  BY <1>1, <1>2, ReadFrame DEF ReadInv
<1>3. ASSUME worker' = worker PROVE ReadInv'
  BY <1>1, <1>3, ReadFrame DEF ReadInv
<1>4. ASSUME NEW o \in Orders, Submit(o) \/ RequeueProcessing(o) \/ RequeueSyncing(o) PROVE ReadInv'
  BY <1>3, <1>4 DEF Submit, RequeueProcessing, RequeueSyncing
<1>5. ASSUME NEW p \in Procs, NEW o \in Orders, Claim(p, o) PROVE ReadInv'
  <2>1. ReadOK(p)'
    BY <1>1, <1>5, ClaimStep, FillsGrow, LegFacts DEF ReadOK
  <2>2. QED
    BY <1>2, <1>5, <2>1, ClaimStep
<1>6. ASSUME NEW p \in Procs, NEW o \in Orders, SentClaimed(p, o) PROVE ReadInv'
  BY <1>2, <1>6, SentClaimStep, ReadOther
<1>7. ASSUME NEW p \in Procs, WorkerStep(p) PROVE ReadInv'
  BY <1>1, <1>2, <1>7, ReadWorker
<1>8. ASSUME NEW p \in Procs, WorkerGone(p) PROVE ReadInv'
  BY <1>2, <1>8, GoneStep, ReadOther, NullsTyped DEF WorkerGone
<1>9. ASSUME NEW o \in Orders, NEW l \in Legs, VenueFills(o, l) \/ VenueCancels(o, l) PROVE ReadInv'
  BY <1>3, <1>9, VenueStep
<1>10. QED
  BY <1>4, <1>5, <1>6, <1>7, <1>8, <1>9 DEF CoreNext

-----------------------------------------------------------------------------
(* Rows and the legs they track *)

NoMaker == \A o \in Orders : row[o].algo # "maker"

\* The rows that a step of a worker writes keep their kind.
LEMMA WorkerAlgo ==
  ASSUME Base, NEW p \in Procs, WorkerStep(p)
  PROVE AlgoKept /\ \A o \in Orders : row[o].algo = "none" => row'[o] = row[o]
<1>1. CASE row' = row
  BY <1>1 DEF AlgoKept
<1>2. CASE row' # row
  <2>1. \/ MarkFailed(p) /\ worker[p].pc # "idle"
        \/ NotifySignal(p) \/ MarkSent(p) \/ QueryFails(p) \/ UpdateSnapshot(p)
    BY <1>2 DEF WorkerStep, DispatchStep, SyncStep, PersistStep, RejectDispatch, Place, PlaceRefused,
       PlaceLost, Placing, WaitLimit, WaitMarket, CancelLimit, ReadUnrecorded, QueryFill, QueryNoPrice,
       ApplyPosition, RecordTrade
  <2>2. AlgoKept /\ worker[p].pc # "idle" /\ \A x \in Orders \ {worker[p].ord} : row'[x] = row[x]
    BY <2>1, FailStep, NotifyStep, MarkSentStep, QueryFailsStep, SnapshotStep DEF SyncEnds
  <2>3. row[worker[p].ord].algo # "none"
    BY <2>2, OnOrder DEF ThreadOK
  <2>4. QED
    BY <2>2, <2>3
<1>3. QED
  BY <1>1, <1>2

\* A row gets its kind from the session and keeps it.
LEMMA CoreAlgo ==
  ASSUME Base, CoreNext
  PROVE AlgoKept /\ \A o \in Orders : row'[o].algo = row[o].algo \/ row'[o].algo \in Algos
<1>1. ASSUME NEW p \in Procs, WorkerStep(p)
      PROVE AlgoKept /\ \A o \in Orders : row[o].algo = "none" => row'[o] = row[o]
  BY <1>1, WorkerAlgo
<1>2. ASSUME NEW o \in Orders, Submit(o) PROVE AlgoKept /\ \A x \in Orders : row'[x].algo = row[x].algo \/ row'[x].algo \in Algos
  <2>1. PICK a \in Algos : SetRow(o, [NoRow EXCEPT !.st = "pending", !.algo = a])
    BY <1>2 DEF Submit
  <2>2. row[o].algo = "none"
    BY <1>2, NullsTyped DEF Submit, Base, LegInv
  <2>3. row'[o].algo = a /\ \A x \in Orders \ {o} : row'[x] = row[x]
    BY <2>1, NullsTyped DEF SetRow, Base, PendingTypeOK, Row
  <2>4. QED
    BY <2>2, <2>3 DEF AlgoKept
<1>3. ASSUME NEW o \in Orders, RequeueProcessing(o) \/ RequeueSyncing(o) PROVE \A x \in Orders : row'[x].algo = row[x].algo
  BY <1>3, StatusSet DEF RequeueProcessing, RequeueSyncing, Statuses
<1>4. ASSUME NEW p \in Procs, NEW o \in Orders, Claim(p, o) \/ SentClaimed(p, o)
      PROVE \A x \in Orders : row'[x].algo = row[x].algo
  BY <1>4, ClaimStep, SentClaimStep
<1>5. ASSUME NEW p \in Procs, WorkerGone(p) PROVE row' = row
  BY <1>5 DEF WorkerGone
<1>6. ASSUME NEW o \in Orders, NEW l \in Legs, VenueFills(o, l) \/ VenueCancels(o, l) PROVE row' = row
  BY <1>6, VenueStep
<1>7. QED
  BY <1>1, <1>2, <1>3, <1>4, <1>5, <1>6 DEF CoreNext, AlgoKept

LEMMA NoMakerStep == ASSUME Base, NoMaker, "maker" \notin Algos, CoreNext PROVE NoMaker'
BY CoreAlgo DEF NoMaker

\* What a row and a sync say of the venue stays true while the venue fills.
LEMMA TrackFrame ==
  ASSUME Base, Base', ClaimInv, TrackInv, VenueGrows, AlgoKept, faults \subseteq faults',
         \A o \in Orders : RowKept(o) \/ (Without({"audit"})' => RowTracked(o)'),
         \A o \in Orders : row[o].leg = NoLeg \/ row'[o].leg = row[o].leg,
         \A p \in Procs : worker'[p] = worker[p] \/ (Without({"audit"})' => SyncOK(p)')
  PROVE TrackInv'
<1> SUFFICES ASSUME Without({"audit"})'
             PROVE (\A o \in Orders : RowTracked(o)') /\ (\A p \in Procs : SyncOK(p)')
  BY DEF TrackInv
<1>1. (\A o \in Orders : RowTracked(o)) /\ (\A p \in Procs : SyncOK(p))
  BY FaultsKept DEF TrackInv
<1>2. ASSUME NEW o \in Orders PROVE RowTracked(o)'
  <2>1. CASE RowKept(o) /\ row[o].leg # NoLeg
    <3>1. row[o].leg \in Legs /\ row[o].algo # "none" /\ row[o].filled \in Nat
      BY <2>1, NullsTyped DEF Base, LegInv, PendingTypeOK, Row
    <3>2. row'[o].algo = row[o].algo
      BY <3>1 DEF AlgoKept
    <3>3. QED
      BY <1>1, <2>1, <3>1, <3>2, FillsGrow DEF RowTracked, RowKept
  <2>2. CASE RowKept(o) /\ row[o].leg = NoLeg
    BY <2>2 DEF RowTracked, RowKept
  <2>3. QED
    BY <2>1, <2>2
<1>3. ASSUME NEW p \in Procs, worker'[p] = worker[p] PROVE SyncOK(p)'
  <2>1. CASE Reconciling(p)
    <3>1. worker[p].pc # "idle" /\ row[worker[p].ord].leg # NoLeg
      BY <2>1, Stages DEF ClaimInv
    <3>2. worker[p].ord \in Orders /\ worker[p].leg = row[worker[p].ord].leg /\ worker[p].cum \in Nat
      BY <1>1, <2>1, <3>1, OnOrder DEF SyncOK, Thread
    <3>3. row'[worker[p].ord].leg = row[worker[p].ord].leg /\ worker[p].leg \in Legs
      BY <3>1, <3>2 DEF Base, PendingTypeOK, Row
    <3>4. worker[p].cum <= venue[worker[p].ord][worker[p].leg].fill
            => worker[p].cum <= venue'[worker[p].ord][worker[p].leg].fill
      BY <3>2, <3>3, FillsGrow
    <3>5. QED
      BY <1>1, <1>3, <2>1, <3>2, <3>3, <3>4 DEF SyncOK
  <2>2. CASE ~Reconciling(p)
    BY <1>3, <2>2, StageFrame DEF SyncOK
  <2>3. QED
    BY <2>1, <2>2
<1>4. QED
  BY <1>2, <1>3

\* A worker that does not reconcile has nothing to say of the venue.
LEMMA TrackOther ==
  ASSUME NEW p \in Procs, ~Reconciling(p)' PROVE SyncOK(p)'
BY DEF SyncOK

LEMMA GoneOther == ASSUME NEW p \in Procs, Leaves(p) PROVE ~Reconciling(p)'
BY NullsTyped DEF Leaves, Reconciling

\* The steps of a worker that write no quantity in a row.
LEMMA TrackQuiet ==
  ASSUME Base, Base', ClaimInv, TrackInv, VenueGrows, AlgoKept, faults \subseteq faults', NEW p \in Procs,
         \A o \in Orders : RowKept(o), \A q \in Procs \ {p} : worker'[q] = worker[q],
         Without({"audit"})' => SyncOK(p)'
  PROVE TrackInv'
BY TrackFrame DEF RowKept

LEMMA TrackSent ==
  ASSUME Base, ClaimInv, ReadInv, TrackInv, NoMaker, NEW p \in Procs, MarkSent(p)
  PROVE TrackInv'
<1>1. PICK o \in Orders : o = worker[p].ord
  BY MarkSentStep, OnOrder
<1>2. Early(p) /\ row[o].leg = NoLeg /\ row[o].filled = 0
  BY <1>1, MarkSentStep DEF Early, ClaimInv
<1>3. /\ worker[p].lim \in Nat /\ worker[p].mkt \in Nat \cup {-1} /\ worker[p].leg \in Legs
      /\ CurrentLeg(p).fill = venue[o][worker[p].leg].fill /\ CurrentLeg(p).fill \in Nat
      /\ worker[p].got \in Nat
  BY <1>1, MarkSentStep, OnOrder, LegOfThread, AmountAssumption DEF Thread
<1>4. worker[p].lim = 0 /\ worker[p].mkt = -1
  <2>1. row[o].algo # "maker" /\ ThreadOK(worker[p])
    BY <1>1, MarkSentStep, OnOrder DEF NoMaker
  <2>2. ~(worker[p].lim > 0) /\ ~(worker[p].mkt >= 0)
    BY <1>1, <2>1 DEF ThreadOK
  <2>3. QED
    BY <1>3, <2>2
<1>5. FinalFill(p) <= venue[o][worker[p].leg].fill
  <2>1. worker[p].got <= worker[p].lim + venue[o][worker[p].leg].fill
    BY <1>1, MarkSentStep DEF ReadInv, ReadOK
  <2>2. QED
    BY <1>3, <1>4, <2>1 DEF FinalFill
<1>6. RowTracked(o)'
  <2>1. row'[o].filled = FinalFill(p) /\ row'[o].tracked = -1 /\ row'[o].leg = worker[p].leg /\ venue' = venue
    BY <1>1, <1>2, <1>4, MarkSentStep DEF MaxOf
  <2>2. QED
    BY <1>5, <2>1 DEF RowTracked
<1>7. Base' /\ VenueGrows /\ AlgoKept /\ faults \subseteq faults'
  BY MarkSentStep, VenueSame
<1>8. SyncOK(p)' /\ \A q \in Procs \ {p} : worker'[q] = worker[q]
  BY <1>2, MarkSentStep, TrackOther, AfterOf DEF Reconciling, Moves
<1>9. \A x \in Orders \ {o} : RowKept(x)
  BY <1>1, MarkSentStep DEF RowKept
<1>10. \A x \in Orders : row[x].leg = NoLeg \/ row'[x].leg = row[x].leg
  BY <1>2, <1>9 DEF RowKept
<1>11. QED
  BY <1>6, <1>7, <1>8, <1>9, <1>10, TrackFrame

LEMMA TrackSync ==
  ASSUME Base, ClaimInv, TrackInv, NEW p \in Procs,
         QueryFill(p) \/ QueryNoPrice(p) \/ QueryFails(p) \/ UpdateSnapshot(p)
  PROVE TrackInv'
<1>1. worker[p].pc \in {"query", "snapshot"} /\ Reconciling(p)
  BY DEF QueryFill, QueryNoPrice, QueryFails, UpdateSnapshot, Reconciling
<1>2. PICK o \in Orders : o = worker[p].ord
  BY <1>1, OnOrder
<1>3. /\ worker[p].prev \in Nat /\ worker[p].base \in Nat /\ worker[p].cum \in Nat /\ worker[p].delta \in Nat
      /\ row[o].leg # NoLeg /\ row[o].leg \in Legs /\ row[o].filled \in Nat
  BY <1>1, <1>2, OnOrder DEF Thread, ClaimInv, Row
<1>4. Base' /\ venue' = venue /\ VenueGrows /\ faults \subseteq faults'
  BY QueryStep, QueryFailsStep, SnapshotStep, VenueSame DEF SyncEnds
<1>5. ASSUME Without({"audit"})'
      PROVE /\ worker[p].prev = row[o].filled /\ worker[p].prev <= worker[p].base
            /\ worker[p].leg = row[o].leg
            /\ row[o].filled <= venue[o][row[o].leg].fill
            /\ worker[p].pc # "query" => worker[p].prev + worker[p].delta <= worker[p].cum
                                         /\ worker[p].cum <= venue[o][row[o].leg].fill
  <2>1. Without({"audit"})
    BY <1>4, <1>5, FaultsKept
  <2>2. worker[p].prev = row[o].filled
    BY <1>1, <1>2, <2>1 DEF ClaimInv
  <2>3. RowTracked(o) /\ SyncOK(p)
    BY <2>1 DEF TrackInv
  <2>4. QED
    BY <1>1, <1>2, <1>3, <2>2, <2>3 DEF RowTracked, SyncOK
<1>6. CASE QueryFill(p) \/ QueryNoPrice(p)
  <2>1. row' = row /\ AlgoKept /\ (\A x \in Orders : RowKept(x)) /\ \A q \in Procs \ {p} : worker'[q] = worker[q]
    BY <1>6, QueryStep DEF AlgoKept, RowKept, Moves
  <2>2. CurrentLeg(p).fill = venue[o][worker[p].leg].fill /\ CurrentLeg(p).fill \in Nat
    BY <1>2, <1>6, QueryStep, LegOfThread
  <2>3. ASSUME Without({"audit"})' PROVE SyncOK(p)'
    <3>1. worker[p].delta = 0
      <4>1. worker[p].pc = "query" /\ worker[p].after = "idle"
        BY <1>6, QueryStep, AfterOf
      <4>2. QED
        BY <4>1, OnOrder DEF ThreadOK
    <3>2. worker'[p].prev + worker'[p].delta <= worker'[p].cum
      <4>1. CASE worker'[p].delta = MaxOf(0, CurrentLeg(p).fill - worker[p].base)
        BY <1>3, <1>5, <1>6, <2>2, <2>3, <4>1, QueryStep DEF MaxOf, Moves
      <4>2. CASE worker'[p].delta = worker[p].delta /\ CurrentLeg(p).fill > worker[p].base
        BY <1>3, <1>5, <1>6, <2>2, <2>3, <3>1, <4>2, QueryStep DEF Moves
      <4>3. QED
        BY <1>6, <4>1, <4>2, QueryStep
    <3>3. worker'[p].cum <= venue'[o][worker[p].leg].fill
      BY <1>4, <1>6, <2>2, QueryStep
    <3>4. /\ worker'[p].ord = o /\ worker'[p].leg = worker[p].leg /\ worker'[p].prev = worker[p].prev
          /\ worker'[p].base = worker[p].base
      BY <1>2, <1>6, QueryStep DEF Moves
    <3>5. QED
      BY <1>5, <2>1, <2>3, <3>2, <3>3, <3>4 DEF SyncOK
  <2>4. QED
    BY <1>4, <2>1, <2>3, TrackQuiet
<1>7. CASE QueryFails(p) \/ UpdateSnapshot(p)
  <2>1. SyncEnds(p) /\ SyncOK(p)' /\ AlgoKept
    BY <1>7, QueryFailsStep, SnapshotStep, GoneOther, TrackOther DEF SyncEnds
  <2>2. \A x \in Orders \ {o} : RowKept(x)
    BY <1>2, <2>1 DEF SyncEnds, RowKept
  <2>3. row'[o].leg = row[o].leg /\ row'[o].algo = row[o].algo
    BY <1>2, <2>1 DEF SyncEnds
  <2>4. ASSUME Without({"audit"})', ~RowKept(o) PROVE RowTracked(o)'
    <3>1. CASE QueryFails(p)
      <4>1. row'[o].filled = worker[p].prev /\ row'[o].tracked = -1
        BY <1>2, <2>4, <3>1, QueryFailsStep DEF RowKept
      <4>2. QED
        BY <1>4, <1>5, <2>3, <2>4, <4>1 DEF RowTracked
    <3>2. CASE UpdateSnapshot(p)
      <4>1. /\ row'[o].filled = AggregateFill(p) /\ row'[o].tracked = worker[p].cum
            /\ AggregateFill(p) <= worker[p].cum /\ AggregateFill(p) \in Nat
        BY <1>2, <1>3, <1>5, <2>4, <3>2, SnapshotStep DEF AggregateFill
      <4>2. worker[p].cum <= venue'[o][row'[o].leg].fill
        BY <1>4, <1>5, <2>3, <2>4, <3>2, SnapshotStep
      <4>3. venue'[o][row'[o].leg].fill \in Nat
        BY <1>3, <1>4, <2>3, FillsGrow
      <4>4. QED
        BY <1>3, <4>1, <4>2, <4>3, SMTT(30) DEF RowTracked
    <3>3. QED
      BY <1>7, <3>1, <3>2
  <2>5. \A q \in Procs \ {p} : worker'[q] = worker[q]
    BY <2>1 DEF SyncEnds, Leaves
  <2>6. \A x \in Orders : row[x].leg = NoLeg \/ row'[x].leg = row[x].leg
    BY <2>2, <2>3 DEF RowKept
  <2>7. QED
    BY <1>4, <2>1, <2>2, <2>4, <2>5, <2>6, TrackFrame
<1>8. QED
  BY <1>6, <1>7

LEMMA TrackInvStep ==
  ASSUME Base, ClaimInv, ReadInv, TrackInv, NoMaker, CoreNext PROVE TrackInv'
<1>1. Base' /\ VenueGrows /\ AlgoKept
  BY BaseStep, CoreVenueGrows, CoreAlgo
<1>2. ASSUME NEW o \in Orders, Submit(o) \/ RequeueProcessing(o) \/ RequeueSyncing(o) PROVE TrackInv'
  <2>1. worker' = worker /\ faults' = faults
    BY <1>2 DEF Submit, RequeueProcessing, RequeueSyncing
  <2>2. \A x \in Orders : RowKept(x)
    <3>1. CASE Submit(o)
      <4>1. PICK a \in Algos : SetRow(o, [NoRow EXCEPT !.st = "pending", !.algo = a])
        BY <3>1 DEF Submit
      <4>2. row[o] = NoRow
        BY <3>1 DEF Submit, Base, LegInv
      <4>3. QED
        BY <4>1, <4>2, NullsTyped DEF SetRow, RowKept, Base, PendingTypeOK, Row
    <3>2. CASE RequeueProcessing(o) \/ RequeueSyncing(o)
      BY <3>2, StatusSet DEF RequeueProcessing, RequeueSyncing, Statuses, RowKept
    <3>3. QED
      BY <1>2, <3>1, <3>2
  <2>3. QED
    BY <1>1, <2>1, <2>2, TrackFrame DEF RowKept
<1>3. ASSUME NEW p \in Procs, NEW o \in Orders, Claim(p, o) PROVE TrackInv'
  <2>1. ~Reconciling(p)' /\ \A x \in Orders : RowKept(x)
    BY <1>3, ClaimStep DEF Reconciling, RowKept
  <2>2. QED
    BY <1>1, <1>3, <2>1, ClaimStep, TrackOther, TrackQuiet
<1>4. ASSUME NEW p \in Procs, NEW o \in Orders, SentClaimed(p, o) PROVE TrackInv'
  <2>1. \A x \in Orders : RowKept(x)
    BY <1>4, SentClaimStep DEF RowKept
  <2>2. ASSUME Without({"audit"})' PROVE SyncOK(p)'
    <3>1. RowTracked(o)
      BY <1>4, <2>2, SentClaimStep, FaultsKept DEF TrackInv
    <3>2. row[o].filled <= TrackedFillBaseline(row[o])
      BY <1>4, <3>1, SentClaimStep DEF RowTracked, TrackedFillBaseline, Base, PendingTypeOK, Row
    <3>3. QED
      BY <1>4, <3>2, SentClaimStep DEF SyncOK
  <2>3. QED
    BY <1>1, <1>4, <2>1, <2>2, SentClaimStep, TrackQuiet
<1>5. ASSUME NEW p \in Procs, WorkerGone(p) PROVE TrackInv'
  <2>1. Leaves(p) /\ faults \subseteq faults' /\ \A x \in Orders : RowKept(x)
    BY <1>5, GoneStep DEF WorkerGone, RowKept, Leaves
  <2>2. QED
    BY <1>1, <2>1, GoneOther, TrackOther, TrackQuiet DEF Leaves
<1>6. ASSUME NEW o \in Orders, NEW l \in Legs, VenueFills(o, l) \/ VenueCancels(o, l) PROVE TrackInv'
  BY <1>1, <1>6, VenueStep, TrackFrame DEF RowKept
<1>7. ASSUME NEW p \in Procs, DispatchStep(p), ~MarkSent(p) PROVE TrackInv'
  <2>1. /\ ~Reconciling(p)' /\ faults \subseteq faults' /\ \A q \in Procs \ {p} : worker'[q] = worker[q]
        /\ \A x \in Orders : RowKept(x)
    <3>1. CASE RejectDispatch(p) \/ PlaceRefused(p) \/ PlaceLost(p)
      <4>1. faults \subseteq faults'
        BY <3>1, FaultStep DEF RejectDispatch, PlaceRefused, PlaceLost, Base, PendingTypeOK
      <4>2. QED
        BY <3>1, <4>1, BaseFail, FailStep, GoneOther DEF Leaves, RowKept
    <3>2. CASE NotifySignal(p)
      BY <3>2, NotifyStep, GoneOther DEF Leaves, RowKept
    <3>3. CASE Place(p)
      BY <3>3, PlaceStep, PlaceLegs, AfterOf DEF Moves, RowKept, Reconciling
    <3>4. CASE WaitLimit(p) \/ WaitMarket(p)
      BY <3>4, WaitLimitStep, WaitMarketStep, AfterOf DEF Moves, RowKept, Reconciling
    <3>5. CASE CancelLimit(p)
      <4>1. CASE Cancelled(p)
        BY <4>1, AfterOf DEF Cancelled, Moves, RowKept, Reconciling
      <4>2. CASE MarkFailed(p) /\ UNCHANGED <<venue, faults>> /\ worker[p].pc = "cancel"
        BY <4>2, FailStep, GoneOther DEF Leaves, RowKept
      <4>3. QED
        BY <3>5, <4>1, <4>2, CancelStep
    <3>6. CASE ReadUnrecorded(p)
      BY <3>6, ReadStep, GoneOther DEF Leaves, Moves, RowKept, Reconciling
    <3>7. QED
      BY <1>7, <3>1, <3>2, <3>3, <3>4, <3>5, <3>6 DEF DispatchStep
  <2>2. QED
    BY <1>1, <2>1, TrackOther, TrackQuiet
<1>8. ASSUME NEW p \in Procs, PersistStep(p) PROVE TrackInv'
  <2>1. /\ faults' = faults /\ (\A q \in Procs \ {p} : worker'[q] = worker[q]) /\ row' = row /\ venue' = venue
    BY <1>8, ApplyStep, TradeStep DEF PersistStep, Moves, Leaves
  <2>2. ASSUME Without({"audit"})' PROVE SyncOK(p)'
    <3>1. CASE Reconciling(p)'
      <4>1. /\ Moves(p) /\ worker'[p].delta = worker[p].delta /\ worker'[p].cum = worker[p].cum
            /\ worker'[p].leg = worker[p].leg /\ worker'[p].after = worker[p].after
            /\ worker[p].pc \in {"position", "trade"} /\ worker'[p].pc # "query"
        BY <1>8, <3>1, ApplyStep, TradeStep, GoneOther DEF PersistStep
      <4>2. Reconciling(p)
        <5>1. CASE ApplyPosition(p)
          BY <3>1, <4>1, <5>1, ApplyStep DEF Reconciling
        <5>2. CASE RecordTrade(p)
          BY <3>1, <5>2, TradeStep, GoneOther DEF Reconciling
        <5>3. QED
          BY <1>8, <5>1, <5>2 DEF PersistStep
      <4>3. SyncOK(p)
        BY <2>1, <2>2, FaultsKept DEF TrackInv
      <4>4. QED
        BY <2>1, <4>1, <4>2, <4>3 DEF SyncOK, Moves
    <3>2. QED
      BY <3>1, TrackOther
  <2>3. QED
    BY <1>1, <2>1, <2>2, TrackQuiet DEF RowKept
<1>9. QED
  BY <1>2, <1>3, <1>4, <1>5, <1>6, <1>7, <1>8, TrackSent, TrackSync
     DEF CoreNext, WorkerStep, SyncStep

-----------------------------------------------------------------------------
(* What is recorded, still to be recorded, and accounted for by the row *)

LEMMA TermType ==
  ASSUME Base, NEW o \in Orders, NEW p \in Procs
  PROVE /\ OwedTrade(o, worker[p]) \in Nat /\ OwedPosition(o, worker[p]) \in Nat
        /\ AheadTrade(o, worker[p]) \in Nat /\ AheadPosition(o, worker[p]) \in Nat
        /\ traded[o] \in Nat /\ applied[o] \in Nat /\ row[o].filled \in Nat
<1>1. worker[p].got \in Nat /\ worker[p].delta \in Nat /\ traded[o] \in Nat
  BY DEF Base, PendingTypeOK, Thread
<1>2. MaxOf(0, worker[p].got - traded[o]) \in Nat
  BY <1>1 DEF MaxOf
<1>3. applied[o] \in Nat /\ row[o].filled \in Nat
  BY DEF Base, PendingTypeOK, Row
<1>4. QED
  BY <1>1, <1>2, <1>3 DEF OwedTrade, OwedPosition, AheadTrade, AheadPosition

LEMMA TermsTyped ==
  ASSUME Base, NEW o \in Orders
  PROVE /\ [p \in Procs |-> OwedTrade(o, worker[p])] \in [Procs -> Nat]
        /\ [p \in Procs |-> OwedPosition(o, worker[p])] \in [Procs -> Nat]
        /\ [p \in Procs |-> AheadTrade(o, worker[p])] \in [Procs -> Nat]
        /\ [p \in Procs |-> AheadPosition(o, worker[p])] \in [Procs -> Nat]
BY TermType

\* Where nothing is owed, and nothing is ahead of the row.
LEMMA TermZero ==
  ASSUME Base, NEW o \in Orders, NEW p \in Procs
  PROVE /\ worker[p].ord # o \/ ~Late(p)
             => OwedTrade(o, worker[p]) = 0 /\ OwedPosition(o, worker[p]) = 0
        /\ worker[p].ord # o \/ ~Reconciling(p)
             => AheadTrade(o, worker[p]) = 0 /\ AheadPosition(o, worker[p]) = 0
<1>1. worker[p].after \in {"idle", "snapshot"}
  BY AfterOf
<1>2. worker[p].ord # o \/ ~Late(p) => OwedTrade(o, worker[p]) = 0
  <2>1. CASE worker[p].ord # o \/ worker[p].after = "snapshot"
    BY <2>1 DEF OwedTrade
  <2>2. CASE worker[p].after = "idle" /\ ~Late(p)
    <3>1. worker[p].pc \notin {"record", "position", "trade"}
      BY <2>2 DEF Late
    <3>2. QED
      BY <3>1 DEF OwedTrade
  <2>3. QED
    BY <1>1, <2>1, <2>2
<1>3. worker[p].ord # o \/ ~Reconciling(p) => AheadTrade(o, worker[p]) = 0
  BY <1>1 DEF AheadTrade, Reconciling
<1>4. worker[p].ord # o \/ ~Reconciling(p) => AheadPosition(o, worker[p]) = 0
  BY <1>3 DEF AheadPosition, Reconciling
<1>5. QED
  BY <1>2, <1>3, <1>4 DEF OwedPosition

LEMMA TermTypeNext ==
  ASSUME Base', NEW o \in Orders, NEW p \in Procs
  PROVE /\ OwedTrade(o, worker[p])' \in Nat /\ OwedPosition(o, worker[p])' \in Nat
        /\ AheadTrade(o, worker[p])' \in Nat /\ AheadPosition(o, worker[p])' \in Nat
        /\ traded'[o] \in Nat /\ applied'[o] \in Nat /\ row'[o].filled \in Nat
<1>1. worker'[p].got \in Nat /\ worker'[p].delta \in Nat /\ traded'[o] \in Nat
  BY DEF Base, PendingTypeOK, Thread
<1>2. MaxOf(0, worker'[p].got - traded'[o]) \in Nat
  BY <1>1 DEF MaxOf
<1>3. applied'[o] \in Nat /\ row'[o].filled \in Nat
  BY DEF Base, PendingTypeOK, Row
<1>4. QED
  BY <1>1, <1>2, <1>3 DEF OwedTrade, OwedPosition, AheadTrade, AheadPosition

LEMMA TermZeroNext ==
  ASSUME Base', NEW o \in Orders, NEW p \in Procs
  PROVE /\ worker'[p].ord # o \/ ~Late(p)'
             => OwedTrade(o, worker[p])' = 0 /\ OwedPosition(o, worker[p])' = 0
        /\ worker'[p].ord # o \/ ~Reconciling(p)'
             => AheadTrade(o, worker[p])' = 0 /\ AheadPosition(o, worker[p])' = 0
<1>1. worker'[p].after \in {"idle", "snapshot"}
  BY DEF Base, PendingTypeOK, Thread
<1>2. worker'[p].ord # o \/ ~Late(p)' => OwedTrade(o, worker[p])' = 0
  <2>1. CASE worker'[p].ord # o \/ worker'[p].after = "snapshot"
    BY <2>1 DEF OwedTrade
  <2>2. CASE worker'[p].after = "idle" /\ ~Late(p)'
    <3>1. worker'[p].pc \notin {"record", "position", "trade"}
      BY <2>2 DEF Late
    <3>2. QED
      BY <3>1 DEF OwedTrade
  <2>3. QED
    BY <1>1, <2>1, <2>2
<1>3. worker'[p].ord # o \/ ~Reconciling(p)' => AheadTrade(o, worker[p])' = 0
  BY <1>1 DEF AheadTrade, Reconciling
<1>4. worker'[p].ord # o \/ ~Reconciling(p)' => AheadPosition(o, worker[p])' = 0
  BY <1>3 DEF AheadPosition, Reconciling
<1>5. QED
  BY <1>2, <1>3, <1>4 DEF OwedPosition

\* A step records no more than it takes off what is owed, or adds to the row or
\* ahead of it: for one worker, and for all of them.
TermSlack(o, p) ==
  /\ traded[o] <= traded'[o]
  /\ traded'[o] + OwedTrade(o, worker[p])' + row[o].filled + AheadTrade(o, worker[p])
       <= traded[o] + OwedTrade(o, worker[p]) + row'[o].filled + AheadTrade(o, worker[p])'
  /\ applied'[o] + OwedPosition(o, worker[p])' + row[o].filled + AheadPosition(o, worker[p])
       <= applied[o] + OwedPosition(o, worker[p]) + row'[o].filled + AheadPosition(o, worker[p])'

Slack(o) ==
  /\ traded'[o] + OwedTrades(o)' + row[o].filled + AheadTrades(o)
       <= traded[o] + OwedTrades(o) + row'[o].filled + AheadTrades(o)'
  /\ applied'[o] + OwedPositions(o)' + row[o].filled + AheadPositions(o)
       <= applied[o] + OwedPositions(o) + row'[o].filled + AheadPositions(o)'

\* A worker that does not move owes no more than before.
LEMMA OwedShrinks ==
  ASSUME Base, NEW o \in Orders, NEW q \in Procs, worker'[q] = worker[q], traded'[o] \in Nat,
         traded[o] <= traded'[o]
  PROVE /\ OwedTrade(o, worker[q])' <= OwedTrade(o, worker[q])
        /\ OwedPosition(o, worker[q])' <= OwedPosition(o, worker[q])
        /\ AheadTrade(o, worker[q])' = AheadTrade(o, worker[q])
        /\ AheadPosition(o, worker[q])' = AheadPosition(o, worker[q])
<1>1. worker[q].got \in Nat /\ worker[q].delta \in Nat /\ traded[o] \in Nat
  BY DEF Base, PendingTypeOK, Thread
<1>2. OwedTrade(o, worker[q])' <= OwedTrade(o, worker[q])
  BY <1>1 DEF OwedTrade, MaxOf
<1>3. OwedPosition(o, worker[q])' <= OwedPosition(o, worker[q])
  BY <1>2 DEF OwedPosition
<1>4. QED
  BY <1>2, <1>3 DEF AheadTrade, AheadPosition

LEMMA SlackMove ==
  ASSUME Base, Base', NEW p \in Procs, \A q \in Procs \ {p} : worker'[q] = worker[q],
         NEW o \in Orders, TermSlack(o, p)
  PROVE Slack(o)
<1> DEFINE OT == [q \in Procs |-> OwedTrade(o, worker[q])]
           OP == [q \in Procs |-> OwedPosition(o, worker[q])]
           AT == [q \in Procs |-> AheadTrade(o, worker[q])]
           AP == [q \in Procs |-> AheadPosition(o, worker[q])]
           NOT == [q \in Procs |-> OwedTrade(o, worker[q])']
           NOP == [q \in Procs |-> OwedPosition(o, worker[q])']
           NAT == [q \in Procs |-> AheadTrade(o, worker[q])']
           NAP == [q \in Procs |-> AheadPosition(o, worker[q])']
<1>1. /\ OT \in [Procs -> Nat] /\ OP \in [Procs -> Nat] /\ AT \in [Procs -> Nat] /\ AP \in [Procs -> Nat]
  BY TermsTyped
<1>2. /\ NOT \in [Procs -> Nat] /\ NOP \in [Procs -> Nat] /\ NAT \in [Procs -> Nat] /\ NAP \in [Procs -> Nat]
  BY TermTypeNext
<1>3. /\ OwedTrades(o) = Total(OT) /\ OwedPositions(o) = Total(OP)
      /\ AheadTrades(o) = Total(AT) /\ AheadPositions(o) = Total(AP)
      /\ OwedTrades(o)' = Total(NOT) /\ OwedPositions(o)' = Total(NOP)
      /\ AheadTrades(o)' = Total(NAT) /\ AheadPositions(o)' = Total(NAP)
  BY DEF OwedTrades, OwedPositions, AheadTrades, AheadPositions
<1>4. \A q \in Procs \ {p} : NOT[q] <= OT[q] /\ NOP[q] <= OP[q] /\ NAT[q] = AT[q] /\ NAP[q] = AP[q]
  BY OwedShrinks DEF TermSlack, Base, PendingTypeOK
<1>5. /\ OT[p] = OwedTrade(o, worker[p]) /\ OP[p] = OwedPosition(o, worker[p])
      /\ AT[p] = AheadTrade(o, worker[p]) /\ AP[p] = AheadPosition(o, worker[p])
      /\ NOT[p] = OwedTrade(o, worker[p])' /\ NOP[p] = OwedPosition(o, worker[p])'
      /\ NAT[p] = AheadTrade(o, worker[p])' /\ NAP[p] = AheadPosition(o, worker[p])'
  OBVIOUS
<1>6. /\ traded[o] \in Nat /\ applied[o] \in Nat /\ row[o].filled \in Nat
      /\ traded'[o] \in Nat /\ applied'[o] \in Nat /\ row'[o].filled \in Nat
  BY TermType, TermTypeNext
<1> HIDE DEF OT, OP, AT, AP, NOT, NOP, NAT, NAP
<1>7. /\ Total(OT) \in Nat /\ Total(OP) \in Nat /\ Total(AT) \in Nat /\ Total(AP) \in Nat
      /\ Total(NOT) \in Nat /\ Total(NOP) \in Nat /\ Total(NAT) \in Nat /\ Total(NAP) \in Nat
  BY <1>1, <1>2, TotalType, ProcsAssumption
<1>8. /\ OT[p] \in Nat /\ OP[p] \in Nat /\ AT[p] \in Nat /\ AP[p] \in Nat
      /\ NOT[p] \in Nat /\ NOP[p] \in Nat /\ NAT[p] \in Nat /\ NAP[p] \in Nat
  BY <1>1, <1>2
<1>9. Total(NOT) + OT[p] <= Total(OT) + NOT[p] /\ Total(NOP) + OP[p] <= Total(OP) + NOP[p]
  BY <1>1, <1>2, <1>4, TotalBound, ProcsAssumption
<1>10. Total(NAT) + AT[p] = Total(AT) + NAT[p] /\ Total(NAP) + AP[p] = Total(AP) + NAP[p]
  BY <1>1, <1>2, <1>4, TotalUpdate, ProcsAssumption
<1>11. /\ traded'[o] + NOT[p] + row[o].filled + AT[p] <= traded[o] + OT[p] + row'[o].filled + NAT[p]
       /\ applied'[o] + NOP[p] + row[o].filled + AP[p] <= applied[o] + OP[p] + row'[o].filled + NAP[p]
  BY <1>5 DEF TermSlack
<1>12. /\ traded'[o] + Total(NOT) + row[o].filled + Total(AT) <= traded[o] + Total(OT) + row'[o].filled + Total(NAT)
       /\ applied'[o] + Total(NOP) + row[o].filled + Total(AP) <= applied[o] + Total(OP) + row'[o].filled + Total(NAP)
  BY <1>6, <1>7, <1>8, <1>9, <1>10, <1>11
<1>13. QED
  BY <1>3, <1>12 DEF Slack

\* The quantities of the other orders, and of all of them when no worker moves.
OthersKept(o) ==
  \A x \in Orders \ {o} : row'[x] = row[x] /\ traded'[x] = traded[x] /\ applied'[x] = applied[x]

\* A worker that is on no order but o moves.
LEMMA SlackAt ==
  ASSUME Base, Base', NEW p \in Procs, \A q \in Procs \ {p} : worker'[q] = worker[q],
         NEW o \in Orders, worker[p].ord \in {o, NoOrder}, worker'[p].ord \in {o, NoOrder},
         OthersKept(o), TermSlack(o, p)
  PROVE \A x \in Orders : Slack(x)
<1> SUFFICES ASSUME NEW x \in Orders PROVE TermSlack(x, p)
  BY SlackMove
<1>1. CASE x # o
  <2>1. worker[p].ord # x /\ worker'[p].ord # x
    BY <1>1, OrdersAssumption
  <2>2. /\ traded[x] \in Nat /\ applied[x] \in Nat /\ row[x].filled \in Nat
        /\ traded'[x] = traded[x] /\ applied'[x] = applied[x] /\ row'[x].filled = row[x].filled
    BY <1>1, TermType DEF OthersKept
  <2>3. QED
    BY <2>1, <2>2, TermZero, TermZeroNext DEF TermSlack
<1>2. QED
  BY <1>1

\* Nobody records anything.
LEMMA SlackQuiet ==
  ASSUME Base, Base', NEW p \in Procs, \A q \in Procs \ {p} : worker'[q] = worker[q],
         UNCHANGED <<traded, applied>>, \A o \in Orders : row'[o].filled = row[o].filled,
         ~Late(p)', ~Reconciling(p) \/ \A o \in Orders : AheadTrade(o, worker[p]) = 0 /\ AheadPosition(o, worker[p]) = 0
  PROVE \A x \in Orders : Slack(x)
<1> SUFFICES ASSUME NEW x \in Orders PROVE TermSlack(x, p)
  BY SlackMove
<1>1. OwedTrade(x, worker[p])' = 0 /\ OwedPosition(x, worker[p])' = 0
  BY TermZeroNext
<1>2. AheadTrade(x, worker[p]) = 0 /\ AheadPosition(x, worker[p]) = 0
  BY TermZero
<1>3. QED
  BY <1>1, <1>2, TermType, TermTypeNext DEF TermSlack

LEMMA SumsTyped ==
  ASSUME Base, NEW o \in Orders
  PROVE /\ OwedTrades(o) \in Nat /\ OwedPositions(o) \in Nat
        /\ AheadTrades(o) \in Nat /\ AheadPositions(o) \in Nat
BY TermsTyped, TotalType, ProcsAssumption DEF OwedTrades, OwedPositions, AheadTrades, AheadPositions

LEMMA SumsTypedNext ==
  ASSUME Base', NEW o \in Orders
  PROVE /\ OwedTrades(o)' \in Nat /\ OwedPositions(o)' \in Nat
        /\ AheadTrades(o)' \in Nat /\ AheadPositions(o)' \in Nat
<1>1. /\ [p \in Procs |-> OwedTrade(o, worker[p])'] \in [Procs -> Nat]
      /\ [p \in Procs |-> OwedPosition(o, worker[p])'] \in [Procs -> Nat]
      /\ [p \in Procs |-> AheadTrade(o, worker[p])'] \in [Procs -> Nat]
      /\ [p \in Procs |-> AheadPosition(o, worker[p])'] \in [Procs -> Nat]
  BY TermTypeNext
<1>2. QED
  BY <1>1, TotalType, ProcsAssumption DEF OwedTrades, OwedPositions, AheadTrades, AheadPositions

LEMMA SlackStill ==
  ASSUME Base, Base', UNCHANGED <<traded, applied, worker>>, \A o \in Orders : row'[o].filled = row[o].filled
  PROVE \A x \in Orders : Slack(x)
<1> SUFFICES ASSUME NEW x \in Orders PROVE Slack(x)
  OBVIOUS
<1>1. \A q \in Procs : /\ OwedTrade(x, worker[q])' = OwedTrade(x, worker[q])
                       /\ OwedPosition(x, worker[q])' = OwedPosition(x, worker[q])
                       /\ AheadTrade(x, worker[q])' = AheadTrade(x, worker[q])
                       /\ AheadPosition(x, worker[q])' = AheadPosition(x, worker[q])
  BY DEF OwedTrade, OwedPosition, AheadTrade, AheadPosition
<1>2. /\ OwedTrades(x)' = OwedTrades(x) /\ OwedPositions(x)' = OwedPositions(x)
      /\ AheadTrades(x)' = AheadTrades(x) /\ AheadPositions(x)' = AheadPositions(x)
  BY <1>1 DEF OwedTrades, OwedPositions, AheadTrades, AheadPositions
<1>3. /\ OwedTrades(x) \in Nat /\ OwedPositions(x) \in Nat /\ AheadTrades(x) \in Nat /\ AheadPositions(x) \in Nat
      /\ traded[x] \in Nat /\ applied[x] \in Nat /\ row[x].filled \in Nat
  BY SumsTyped DEF Base, PendingTypeOK, Row
<1>4. QED
  BY <1>2, <1>3 DEF Slack

\* What a sync will store covers what it has added.
Covered ==
  Without({"audit"}) =>
    \A p \in Procs : Reconciling(p) /\ worker[p].pc # "query"
      => worker[p].prev + worker[p].delta <= worker[p].cum

LEMMA SlackSent ==
  ASSUME Base, ClaimInv, NEW p \in Procs, MarkSent(p) PROVE \A x \in Orders : Slack(x)
<1>1. PICK o \in Orders : o = worker[p].ord
  BY MarkSentStep, OnOrder
<1>2. /\ Early(p) /\ row[o].leg = NoLeg /\ row[o].filled = 0 /\ traded[o] = 0 /\ applied[o] = 0
  BY <1>1, MarkSentStep DEF Early, ClaimInv
<1>3. /\ Base' /\ UNCHANGED <<traded, applied>> /\ worker'[p].ord = o /\ worker'[p].pc = "record"
      /\ worker'[p].got = FinalFill(p) /\ FinalFill(p) \in Nat /\ row'[o].filled = FinalFill(p)
      /\ worker'[p].after = "idle" /\ \A q \in Procs \ {p} : worker'[q] = worker[q]
  BY <1>1, <1>2, MarkSentStep, AfterOf DEF Moves, MaxOf
<1>4. OwedTrade(o, worker[p])' = FinalFill(p) /\ OwedPosition(o, worker[p])' = FinalFill(p)
  BY <1>2, <1>3 DEF OwedTrade, OwedPosition, MaxOf
<1>5. /\ AheadTrade(o, worker[p])' = 0 /\ AheadPosition(o, worker[p])' = 0
      /\ AheadTrade(o, worker[p]) = 0 /\ AheadPosition(o, worker[p]) = 0
      /\ OwedTrade(o, worker[p]) = 0 /\ OwedPosition(o, worker[p]) = 0
  BY <1>2, <1>3, Stages, TermZero, TermZeroNext DEF Reconciling
<1>6. TermSlack(o, p)
  BY <1>2, <1>3, <1>4, <1>5 DEF TermSlack
<1>7. OthersKept(o)
  BY <1>1, <1>3, MarkSentStep DEF OthersKept
<1>8. QED
  BY <1>1, <1>3, <1>6, <1>7, SlackAt

LEMMA SlackRead ==
  ASSUME Base, NEW p \in Procs, ReadUnrecorded(p) PROVE \A x \in Orders : Slack(x)
<1>1. PICK o \in Orders : o = worker[p].ord
  BY ReadStep, OnOrder
<1>2. /\ Base' /\ UNCHANGED <<row, traded, applied>> /\ worker[p].pc = "record" /\ worker[p].after = "idle"
      /\ \A q \in Procs \ {p} : worker'[q] = worker[q]
  BY ReadStep DEF Moves, Leaves
<1>3. CASE Leaves(p)
  <2>1. ~Late(p)' /\ ~Reconciling(p)
    BY <1>2, <1>3, NullsTyped DEF Leaves, Late, Reconciling
  <2>2. QED
    BY <1>2, <2>1, SlackQuiet
<1>4. CASE ~Leaves(p)
  <2>1. /\ worker'[p].ord = o /\ worker'[p].pc = "position" /\ worker'[p].after = "idle"
        /\ worker'[p].delta = MaxOf(0, worker[p].got - traded[o])
    BY <1>1, <1>2, <1>4, ReadStep DEF Moves
  <2>2. /\ OwedTrade(o, worker[p])' = OwedTrade(o, worker[p])
        /\ OwedPosition(o, worker[p])' = OwedPosition(o, worker[p])
    BY <1>1, <1>2, <2>1 DEF OwedTrade, OwedPosition
  <2>3. /\ AheadTrade(o, worker[p])' = 0 /\ AheadPosition(o, worker[p])' = 0
        /\ AheadTrade(o, worker[p]) = 0 /\ AheadPosition(o, worker[p]) = 0
    BY <1>2, <2>1 DEF AheadTrade, AheadPosition
  <2>4. TermSlack(o, p)
    BY <1>2, <2>2, <2>3, TermType DEF TermSlack
  <2>5. QED
    BY <1>1, <1>2, <2>1, <2>4, SlackAt DEF OthersKept
<1>5. QED
  BY <1>3, <1>4

LEMMA SlackApply ==
  ASSUME Base, NEW p \in Procs, ApplyPosition(p) PROVE \A x \in Orders : Slack(x)
<1>1. PICK o \in Orders : o = worker[p].ord
  BY ApplyStep, OnOrder
<1>2. /\ Base' /\ UNCHANGED <<row, traded>> /\ worker[p].pc = "position" /\ worker'[p].pc = "trade"
      /\ worker'[p].ord = o /\ worker'[p].after = worker[p].after /\ worker'[p].delta = worker[p].delta
      /\ applied'[o] = applied[o] + worker[p].delta /\ OthersKept(o)
      /\ \A q \in Procs \ {p} : worker'[q] = worker[q]
  BY <1>1, ApplyStep DEF Moves, OthersKept
<1>3. worker[p].delta \in Nat /\ worker[p].after \in {"idle", "snapshot"}
  BY AfterOf DEF Base, PendingTypeOK, Thread
<1>4. OwedTrade(o, worker[p])' = OwedTrade(o, worker[p]) /\ OwedPosition(o, worker[p])' = 0
  BY <1>1, <1>2 DEF OwedTrade, OwedPosition
<1>5. AheadTrade(o, worker[p])' = 0 /\ AheadTrade(o, worker[p]) = 0 /\ AheadPosition(o, worker[p]) = 0
  BY <1>2 DEF AheadTrade, AheadPosition
<1>6. OwedPosition(o, worker[p]) = IF worker[p].after = "idle" THEN worker[p].delta ELSE 0
  BY <1>1, <1>2, <1>3 DEF OwedTrade, OwedPosition
<1>7. AheadPosition(o, worker[p])' = IF worker[p].after = "idle" THEN 0 ELSE worker[p].delta
  BY <1>1, <1>2, <1>3 DEF AheadTrade, AheadPosition
<1>8. TermSlack(o, p)
  BY <1>2, <1>3, <1>4, <1>5, <1>6, <1>7, TermType DEF TermSlack
<1>9. QED
  BY <1>1, <1>2, <1>8, SlackAt

LEMMA SlackTrade ==
  ASSUME Base, NEW p \in Procs, RecordTrade(p) PROVE \A x \in Orders : Slack(x)
<1>1. PICK o \in Orders : o = worker[p].ord
  BY TradeStep, OnOrder
<1>2. /\ Base' /\ UNCHANGED <<row, applied>> /\ worker[p].pc = "trade"
      /\ traded'[o] = traded[o] + worker[p].delta /\ OthersKept(o)
      /\ \A q \in Procs \ {p} : worker'[q] = worker[q]
  BY <1>1, TradeStep DEF Moves, Leaves, OthersKept
<1>3. worker[p].delta \in Nat
  BY DEF Base, PendingTypeOK, Thread
<1>4. CASE worker[p].after = "idle"
  <2>1. worker'[p] = Idle /\ worker'[p].ord = NoOrder /\ ~Late(p)' /\ ~Reconciling(p)' /\ ~Reconciling(p)
    BY <1>2, <1>4, TradeStep, NullsTyped DEF Leaves, Late, Reconciling
  <2>2. /\ OwedTrade(o, worker[p])' = 0 /\ OwedPosition(o, worker[p])' = 0
        /\ AheadTrade(o, worker[p])' = 0 /\ AheadPosition(o, worker[p])' = 0
        /\ AheadTrade(o, worker[p]) = 0 /\ AheadPosition(o, worker[p]) = 0
    BY <1>2, <2>1, TermZero, TermZeroNext
  <2>3. OwedTrade(o, worker[p]) = worker[p].delta /\ OwedPosition(o, worker[p]) = 0
    BY <1>1, <1>2, <1>4 DEF OwedTrade, OwedPosition
  <2>4. TermSlack(o, p)
    BY <1>2, <1>3, <2>2, <2>3, TermType DEF TermSlack
  <2>5. QED
    BY <1>1, <1>2, <2>1, <2>4, SlackAt
<1>5. CASE worker[p].after = "snapshot"
  <2>1. /\ worker'[p].ord = o /\ worker'[p].pc = "snapshot" /\ worker'[p].after = "snapshot"
        /\ worker'[p].delta = worker[p].delta
    BY <1>1, <1>5, TradeStep DEF Moves
  <2>2. /\ OwedTrade(o, worker[p])' = 0 /\ OwedPosition(o, worker[p])' = 0
        /\ OwedTrade(o, worker[p]) = 0 /\ OwedPosition(o, worker[p]) = 0
    BY <1>5, <2>1 DEF OwedTrade, OwedPosition
  <2>3. /\ AheadTrade(o, worker[p])' = worker[p].delta /\ AheadPosition(o, worker[p])' = worker[p].delta
        /\ AheadTrade(o, worker[p]) = 0 /\ AheadPosition(o, worker[p]) = worker[p].delta
    BY <1>1, <1>2, <1>5, <2>1 DEF AheadTrade, AheadPosition
  <2>4. TermSlack(o, p)
    BY <1>2, <1>3, <2>2, <2>3, TermType DEF TermSlack
  <2>5. QED
    BY <1>1, <1>2, <2>1, <2>4, SlackAt
<1>6. QED
  BY <1>4, <1>5, AfterOf

LEMMA SlackSync ==
  ASSUME Base, ClaimInv, Covered, Without({"audit"})', NEW p \in Procs,
         QueryFill(p) \/ QueryNoPrice(p) \/ QueryFails(p) \/ UpdateSnapshot(p)
  PROVE \A x \in Orders : Slack(x)
<1>1. worker[p].pc \in {"query", "snapshot"} /\ Reconciling(p) /\ ~Late(p)
  BY DEF QueryFill, QueryNoPrice, QueryFails, UpdateSnapshot, Reconciling, Late
<1>2. PICK o \in Orders : o = worker[p].ord
  BY <1>1, OnOrder
<1>3. Base' /\ UNCHANGED <<traded, applied>> /\ Without({"audit"})
  BY QueryStep, QueryFailsStep, SnapshotStep, FaultsKept DEF SyncEnds
<1>4. row[o].filled = worker[p].prev
  BY <1>1, <1>2, <1>3 DEF ClaimInv
<1>5. worker[p].pc = "query" => \A x \in Orders : AheadTrade(x, worker[p]) = 0 /\ AheadPosition(x, worker[p]) = 0
  <2>1. worker[p].pc = "query" => worker[p].after = "idle"
    BY AfterOf
  <2>2. QED
    BY <2>1 DEF AheadTrade, AheadPosition
<1>6. CASE QueryFill(p) \/ QueryNoPrice(p)
  <2>1. worker[p].pc = "query" /\ row' = row /\ \A q \in Procs \ {p} : worker'[q] = worker[q]
    BY <1>6, QueryStep DEF Moves
  <2>2. ~Late(p)'
    BY <1>6, QueryStep DEF Late
  <2>3. QED
    BY <1>3, <1>5, <2>1, <2>2, SlackQuiet
<1>7. CASE QueryFails(p)
  <2>1. /\ worker[p].pc = "query" /\ (\A q \in Procs \ {p} : worker'[q] = worker[q])
        /\ \A x \in Orders \ {o} : row'[x] = row[x]
    BY <1>2, <1>7, QueryFailsStep DEF SyncEnds, Leaves
  <2>2. \A x \in Orders : row'[x].filled = row[x].filled
    BY <1>2, <1>4, <1>7, <2>1, QueryFailsStep
  <2>3. ~Late(p)'
    BY <1>7, QueryFailsStep, NullsTyped DEF SyncEnds, Leaves, Late
  <2>4. QED
    BY <1>3, <1>5, <2>1, <2>2, <2>3, SlackQuiet
<1>8. CASE UpdateSnapshot(p)
  <2>1. /\ worker[p].pc = "snapshot" /\ (\A q \in Procs \ {p} : worker'[q] = worker[q])
        /\ worker'[p] = Idle /\ worker'[p].ord = NoOrder /\ ~Late(p)' /\ ~Reconciling(p)'
        /\ OthersKept(o)
    BY <1>2, <1>3, <1>8, SnapshotStep, NullsTyped DEF SyncEnds, Leaves, Late, Reconciling, OthersKept
  <2>2. worker[p].prev \in Nat /\ worker[p].delta \in Nat /\ worker[p].cum \in Nat
    BY DEF Base, PendingTypeOK, Thread
  <2>3. row[o].filled + worker[p].delta <= row'[o].filled
    <3>1. worker[p].prev + worker[p].delta <= worker[p].cum
      BY <1>1, <1>3, <2>1 DEF Covered
    <3>2. row'[o].filled = AggregateFill(p) /\ AggregateFill(p) \in {worker[p].cum, worker[p].prev + worker[p].delta}
      BY <1>2, <1>8, SnapshotStep DEF AggregateFill
    <3>3. QED
      BY <1>4, <2>2, <3>1, <3>2
  <2>4. /\ OwedTrade(o, worker[p])' = 0 /\ OwedPosition(o, worker[p])' = 0
        /\ AheadTrade(o, worker[p])' = 0 /\ AheadPosition(o, worker[p])' = 0
        /\ OwedTrade(o, worker[p]) = 0 /\ OwedPosition(o, worker[p]) = 0
    BY <1>1, <1>3, <2>1, TermZero, TermZeroNext
  <2>5. AheadTrade(o, worker[p]) = worker[p].delta /\ AheadPosition(o, worker[p]) = worker[p].delta
    BY <1>2, <2>1 DEF AheadTrade, AheadPosition
  <2>6. TermSlack(o, p)
    BY <1>3, <2>2, <2>3, <2>4, <2>5, TermType, TermTypeNext DEF TermSlack
  <2>7. QED
    BY <1>2, <1>3, <2>1, <2>6, SlackAt
<1>9. QED
  BY <1>6, <1>7, <1>8

\* No step records more than it owes.
LEMMA SlackStep ==
  ASSUME Base, ClaimInv, Covered, CoreNext, Without({"audit"})',
         Without({"syncCrash"})' \/ \A p \in Procs : ~Reconciling(p)
  PROVE \A x \in Orders : Slack(x)
<1>1. Base'
  BY BaseStep
<1>2. ASSUME NEW o \in Orders, Submit(o) \/ RequeueProcessing(o) \/ RequeueSyncing(o) PROVE \A x \in Orders : Slack(x)
  <2>1. UNCHANGED <<traded, applied, worker>> /\ \A x \in Orders : row'[x].filled = row[x].filled
    <3>1. CASE Submit(o)
      <4>1. PICK a \in Algos : SetRow(o, [NoRow EXCEPT !.st = "pending", !.algo = a])
        BY <3>1 DEF Submit
      <4>2. row[o] = NoRow
        BY <3>1 DEF Submit, Base, LegInv
      <4>3. QED
        BY <3>1, <4>1, <4>2, NullsTyped DEF Submit, SetRow, Base, PendingTypeOK, Row
    <3>2. CASE RequeueProcessing(o) \/ RequeueSyncing(o)
      BY <3>2, StatusSet DEF RequeueProcessing, RequeueSyncing, Statuses
    <3>3. QED
      BY <1>2, <3>1, <3>2
  <2>2. QED
    BY <1>1, <2>1, SlackStill
<1>3. ASSUME NEW p \in Procs, NEW o \in Orders, Claim(p, o) \/ SentClaimed(p, o) PROVE \A x \in Orders : Slack(x)
  <2>1. /\ UNCHANGED <<traded, applied>> /\ (\A q \in Procs \ {p} : worker'[q] = worker[q])
        /\ (\A x \in Orders : row'[x].filled = row[x].filled) /\ worker[p].pc = "idle" /\ ~Late(p)'
    BY <1>3, ClaimStep, SentClaimStep DEF Late
  <2>2. ~Reconciling(p)
    BY <2>1, Stages
  <2>3. QED
    BY <1>1, <2>1, <2>2, SlackQuiet
<1>4. ASSUME NEW p \in Procs, WorkerGone(p) PROVE \A x \in Orders : Slack(x)
  <2>1. /\ UNCHANGED <<row, traded, applied>> /\ (\A q \in Procs \ {p} : worker'[q] = worker[q])
        /\ ~Late(p)' /\ (Without({"syncCrash"})' => ~Syncing(p))
    BY <1>1, <1>4, GoneStep, NullsTyped DEF WorkerGone, Late, Without
  <2>2. worker[p].after = "idle" /\ (worker[p].pc = "snapshot" => worker[p].delta = 0)
    BY <2>1, AfterOf DEF Syncing, Reconciling, Base, ThreadInv, ThreadOK
  <2>3. \A o \in Orders : AheadTrade(o, worker[p]) = 0 /\ AheadPosition(o, worker[p]) = 0
    BY <2>2 DEF AheadTrade, AheadPosition
  <2>4. QED
    BY <1>1, <2>1, <2>3, SlackQuiet
<1>5. ASSUME NEW o \in Orders, NEW l \in Legs, VenueFills(o, l) \/ VenueCancels(o, l) PROVE \A x \in Orders : Slack(x)
  BY <1>1, <1>5, VenueStep, SlackStill
<1>6. ASSUME NEW p \in Procs, DispatchStep(p), ~MarkSent(p), ~ReadUnrecorded(p) PROVE \A x \in Orders : Slack(x)
  <2>1. /\ ~Late(p)' /\ Early(p) /\ UNCHANGED <<traded, applied>> /\ (\A q \in Procs \ {p} : worker'[q] = worker[q])
        /\ \A x \in Orders : row'[x].filled = row[x].filled
    <3>1. CASE RejectDispatch(p) \/ PlaceRefused(p) \/ PlaceLost(p)
      BY <3>1, BaseFail, FailStep, NullsTyped DEF Leaves, Late, Early
    <3>2. CASE NotifySignal(p)
      BY <3>2, NotifyStep, NullsTyped DEF Leaves, Late, Early
    <3>3. CASE Place(p)
      BY <3>3, PlaceStep, PlaceLegs DEF Moves, Late, Early
    <3>4. CASE WaitLimit(p) \/ WaitMarket(p)
      BY <3>4, WaitLimitStep, WaitMarketStep DEF Moves, Late, Early
    <3>5. CASE CancelLimit(p)
      <4>1. CASE Cancelled(p)
        BY <4>1 DEF Cancelled, Moves, Late, Early
      <4>2. CASE MarkFailed(p) /\ UNCHANGED <<venue, faults>> /\ worker[p].pc = "cancel"
        BY <4>2, FailStep, NullsTyped DEF Leaves, Late, Early
      <4>3. QED
        BY <3>5, <4>1, <4>2, CancelStep
    <3>6. QED
      BY <1>6, <3>1, <3>2, <3>3, <3>4, <3>5 DEF DispatchStep
  <2>2. ~Reconciling(p)
    BY <2>1, Stages
  <2>3. QED
    BY <1>1, <2>1, <2>2, SlackQuiet
<1>7. QED
  BY <1>1, <1>2, <1>3, <1>4, <1>5, <1>6, SlackSent, SlackRead, SlackApply, SlackTrade, SlackSync
     DEF CoreNext, WorkerStep, SyncStep, PersistStep

LEMMA FillInit == Init => FillInv
<1> SUFFICES ASSUME Init, NEW o \in Orders
             PROVE /\ traded[o] + OwedTrades(o) <= row[o].filled + AheadTrades(o)
                   /\ applied[o] + OwedPositions(o) <= row[o].filled + AheadPositions(o)
  BY DEF FillInv
<1>1. Base /\ traded[o] = 0 /\ applied[o] = 0 /\ row[o].filled = 0
  BY BaseInit DEF Init, NoRow
<1>2. \A p \in Procs : ~Late(p) /\ ~Reconciling(p)
  BY NullsTyped DEF Init, Late, Reconciling
<1>3. OwedTrades(o) = 0 /\ OwedPositions(o) = 0
  BY <1>1, <1>2, TermZero, TermsTyped, TotalZero DEF OwedTrades, OwedPositions
<1>4. QED
  BY <1>1, <1>3, SumsTyped

LEMMA TrackInit == Init => TrackInv
BY NullsTyped DEF Init, TrackInv, RowTracked, SyncOK, Reconciling

LEMMA TrackCovers == TrackInv => Covered
BY DEF TrackInv, SyncOK, Covered

LEMMA AmountsNext ==
  ASSUME Base', NEW o \in Orders PROVE traded'[o] \in Nat /\ applied'[o] \in Nat /\ row'[o].filled \in Nat
BY DEF Base, PendingTypeOK, Row

LEMMA FillInvStep ==
  ASSUME Base, ClaimInv, Covered, FillInv, CoreNext, faults \subseteq faults' PROVE FillInv'
<1> SUFFICES ASSUME Without({"syncCrash", "audit"})', NEW o \in Orders
             PROVE /\ traded'[o] + OwedTrades(o)' <= row'[o].filled + AheadTrades(o)'
                   /\ applied'[o] + OwedPositions(o)' <= row'[o].filled + AheadPositions(o)'
  BY DEF FillInv
<1>1. /\ traded[o] + OwedTrades(o) <= row[o].filled + AheadTrades(o)
      /\ applied[o] + OwedPositions(o) <= row[o].filled + AheadPositions(o)
  BY FaultsKept DEF FillInv
<1>2. Slack(o)
  BY SlackStep DEF Without
<1>3. /\ OwedTrades(o) \in Nat /\ OwedPositions(o) \in Nat /\ AheadTrades(o) \in Nat /\ AheadPositions(o) \in Nat
      /\ traded[o] \in Nat /\ applied[o] \in Nat /\ row[o].filled \in Nat
  BY SumsTyped DEF Base, PendingTypeOK, Row
<1>4. Base'
  BY BaseStep
<1>5. OwedTrades(o)' \in Nat /\ OwedPositions(o)' \in Nat /\ AheadTrades(o)' \in Nat /\ AheadPositions(o)' \in Nat
  BY <1>4, SumsTypedNext
<1>6. traded'[o] \in Nat /\ applied'[o] \in Nat /\ row'[o].filled \in Nat
  BY <1>4, AmountsNext
<1>7. QED
  BY <1>1, <1>2, <1>3, <1>5, <1>6 DEF Slack

LEMMA CoreFaults == ASSUME Base, CoreNext PROVE faults \subseteq faults'
<1>1. ASSUME NEW p \in Procs, WorkerStep(p) PROVE faults \subseteq faults'
  <2>1. ASSUME NEW k, Fault(k) PROVE faults \subseteq faults'
    BY <2>1, FaultStep DEF Base, PendingTypeOK
  <2>2. QED
    BY <1>1, <2>1 DEF WorkerStep, DispatchStep, SyncStep, PersistStep, RejectDispatch, NotifySignal, Place,
       PlaceRefused, PlaceLost, WaitLimit, WaitMarket, CancelLimit, MarkSent, ReadUnrecorded,
       QueryFill, QueryNoPrice, QueryFails, UpdateSnapshot, ApplyPosition, RecordTrade
<1>2. QED
  BY <1>1 DEF CoreNext, Submit, RequeueProcessing, RequeueSyncing, Claim, SentClaimed, WorkerGone,
     VenueFills, VenueCancels

-----------------------------------------------------------------------------
(* The theorem for reconciliation over REST *)

RestInv == Base /\ ClaimInv /\ ReadInv /\ TrackInv /\ NoMaker /\ FillInv

LEMMA RestStutter == RestInv /\ UNCHANGED vars => RestInv'
<1> SUFFICES ASSUME RestInv, UNCHANGED vars PROVE RestInv'
  OBVIOUS
<1> USE DEF RestInv, vars
<1>1. Base'
  BY BaseStutter
<1>2. ClaimInv' /\ ReadInv' /\ NoMaker'
  BY DEF ClaimInv, ReadInv, ReadOK, NoMaker, Early, Late, Reconciling, Without
<1>3. TrackInv'
  BY DEF TrackInv, RowTracked, SyncOK, Reconciling, Without
<1>4. FillInv'
  BY Zenon DEF FillInv, OwedTrades, OwedPositions, AheadTrades, AheadPositions, OwedTrade, OwedPosition,
     AheadTrade, AheadPosition, Without
<1>5. QED
  BY <1>1, <1>2, <1>3, <1>4

\* The venue has filled what the row and the sync ahead of it account for.
LEMMA RestFills == ASSUME RestInv PROVE FillRecordedOnce
<1> SUFFICES ASSUME Without({"syncCrash", "audit"}), NEW o \in Orders
             PROVE traded[o] <= VenueFill(o) /\ applied[o] <= VenueFill(o)
  BY DEF FillRecordedOnce, NoDuplicateFill
<1> USE DEF RestInv
<1>1. Without({"audit"})
  BY DEF Without
<1>2. /\ OwedTrades(o) \in Nat /\ OwedPositions(o) \in Nat /\ AheadTrades(o) \in Nat /\ AheadPositions(o) \in Nat
      /\ traded[o] \in Nat /\ applied[o] \in Nat /\ row[o].filled \in Nat
  BY SumsTyped DEF Base, PendingTypeOK, Row
<1>3. /\ traded[o] <= row[o].filled + AheadTrades(o) /\ applied[o] <= row[o].filled + AheadPositions(o)
  BY <1>2 DEF FillInv
<1> DEFINE v == [l \in Legs |-> venue[o][l].fill]
<1>4. v \in [Legs -> Nat]
  BY AmountAssumption DEF Base, PendingTypeOK, VenueLeg
<1>5. VenueFill(o) = Total(v) /\ Total(v) \in Nat /\ \A l \in Legs : venue[o][l].fill <= Total(v)
  BY <1>4, LegsFinite, TotalTerm, TotalType DEF VenueFill
<1>6. row[o].filled <= VenueFill(o)
  <2>1. CASE row[o].leg = NoLeg
    BY <1>5, <2>1 DEF ClaimInv
  <2>2. CASE row[o].leg # NoLeg
    <3>1. row[o].leg \in Legs /\ row[o].filled <= venue[o][row[o].leg].fill
      BY <1>1, <2>2 DEF TrackInv, RowTracked, Base, PendingTypeOK, Row
    <3>2. QED
      BY <1>2, <1>4, <1>5, <3>1
  <2>3. QED
    BY <2>1, <2>2
<1>7. CASE \A p \in Procs : ~Reconciling(p) \/ worker[p].ord # o
  <2>1. AheadTrades(o) = 0 /\ AheadPositions(o) = 0
    BY <1>7, TermZero, TermsTyped, TotalZero DEF AheadTrades, AheadPositions
  <2>2. QED
    BY <1>2, <1>3, <1>5, <1>6, <2>1
<1>8. ASSUME NEW p \in Procs, Reconciling(p), worker[p].ord = o
      PROVE traded[o] <= VenueFill(o) /\ applied[o] <= VenueFill(o)
  <2>1. \A q \in Procs \ {p} : ~Reconciling(q) \/ worker[q].ord # o
    BY <1>1, <1>8, Stages DEF ClaimInv
  <2>2. /\ AheadTrades(o) = AheadTrade(o, worker[p]) /\ AheadPositions(o) = AheadPosition(o, worker[p])
    <3> DEFINE AT == [q \in Procs |-> AheadTrade(o, worker[q])]
               AP == [q \in Procs |-> AheadPosition(o, worker[q])]
    <3>1. AT \in [Procs -> Nat] /\ AP \in [Procs -> Nat]
      BY TermsTyped
    <3>2. \A q \in Procs \ {p} : AT[q] = 0 /\ AP[q] = 0
      BY <2>1, TermZero
    <3>3. AT[p] = AheadTrade(o, worker[p]) /\ AP[p] = AheadPosition(o, worker[p])
      OBVIOUS
    <3>4. AheadTrades(o) = Total(AT) /\ AheadPositions(o) = Total(AP)
      BY DEF AheadTrades, AheadPositions
    <3> HIDE DEF AT, AP
    <3>5. Total(AT) = AT[p] /\ Total(AP) = AP[p]
      BY <3>1, <3>2, TotalOne, ProcsAssumption
    <3>6. QED
      BY <3>3, <3>4, <3>5
  <2>3. row[o].filled = worker[p].prev /\ row[o].leg # NoLeg
    BY <1>1, <1>8 DEF ClaimInv
  <2>4. worker[p].prev \in Nat /\ worker[p].delta \in Nat /\ worker[p].cum \in Nat
    BY DEF Base, PendingTypeOK, Thread
  <2>5. AheadTrade(o, worker[p]) \in {0, worker[p].delta} /\ AheadPosition(o, worker[p]) \in {0, worker[p].delta}
    BY DEF AheadTrade, AheadPosition
  <2>6. CASE worker[p].pc = "query"
    <3>1. AheadTrade(o, worker[p]) = 0 /\ AheadPosition(o, worker[p]) = 0
      BY <2>6, AfterOf DEF AheadTrade, AheadPosition
    <3>2. QED
      BY <1>2, <1>3, <1>5, <1>6, <2>2, <3>1
  <2>7. CASE worker[p].pc # "query"
    <3>1. /\ worker[p].prev + worker[p].delta <= worker[p].cum /\ worker[p].leg = row[o].leg
          /\ worker[p].cum <= venue[o][worker[p].leg].fill
      BY <1>1, <1>8, <2>7 DEF TrackInv, SyncOK
    <3>2. worker[p].leg \in Legs
      BY <2>3, <3>1 DEF Base, PendingTypeOK, Row
    <3>3. worker[p].prev + worker[p].delta <= VenueFill(o)
      BY <1>4, <1>5, <2>4, <3>1, <3>2
    <3>4. QED
      BY <1>2, <1>3, <1>5, <2>2, <2>3, <2>4, <2>5, <3>3
  <2>8. QED
    BY <2>6, <2>7
<1>9. QED
  BY <1>7, <1>8

\* Where no dispatch outlasts the stale time, or one worker does all the work,
\* and limit-then-market orders are left out, the dispatch and the syncs after
\* it record no unit twice, whatever fails and whoever dies in a dispatch
\* (persist_strategy_fill, _mark_sent, _sync_live_sent_orders).
THEOREM RestRecordsOnce ==
  ASSUME Paced, "maker" \notin Algos
  PROVE Spec => []FillRecordedOnce
<1>1. Init => RestInv
  BY BaseInit, ClaimInit, ReadInit, TrackInit, FillInit, NullsTyped DEF RestInv, NoMaker, Init
<1>2. RestInv /\ [Next]_vars => RestInv'
  <2> SUFFICES ASSUME RestInv, [Next]_vars PROVE RestInv'
    OBVIOUS
  <2>1. CASE CoreNext
    BY <2>1, BaseStep, ClaimInvStep, ReadStepInv, TrackInvStep, NoMakerStep, TrackCovers, FillInvStep,
       CoreFaults DEF RestInv
  <2>2. CASE UNCHANGED vars
    BY <2>2, RestStutter
  <2>3. QED
    BY <2>1, <2>2, NextIsCore DEF RestInv, Base
<1>3. RestInv => FillRecordedOnce
  BY RestFills
<1>4. QED
  BY <1>1, <1>2, <1>3, PTL DEF Spec

-----------------------------------------------------------------------------
(* The private streams *)

LEMMA StreamersFinite == IsFiniteSet(Streamers)
BY StreamAssumption, ProcsAssumption, FS_Subset

LEMMA EventParts ==
  ASSUME NEW e \in Events
  PROVE /\ e[1] \in Orders /\ e[2] \in Legs /\ e[2] # NoLeg /\ e[3] \in 1 .. Amount /\ e[3] \in Nat
BY LegFacts, AmountAssumption DEF Events

\* The threads of the projectors and the event table do not touch the queue.
Aside ==
  /\ UNCHANGED <<row, venue, worker>> /\ faults \subseteq faults' /\ faults' \subseteq Faults

\* A projector writes the quantity of a row, and its status if that is the end.
RowProjected(o) ==
  /\ row' \in [Orders -> Row] /\ \A x \in Orders \ {o} : row'[x] = row[x]
  /\ row'[o].algo = row[o].algo /\ row'[o].leg = row[o].leg /\ row[o].leg # NoLeg
  /\ row'[o].tracked = row[o].tracked /\ row'[o].st \in {row[o].st, "filled"}
  /\ UNCHANGED <<venue, worker, traded, applied, faults>>

LEMMA BaseAside ==
  ASSUME Base, Aside, traded' \in [Orders -> Nat], applied' \in [Orders -> Nat] PROVE Base'
BY DEF Base, Aside, PendingTypeOK, ThreadInv, ThreadOK, LegInv

LEMMA BaseProjected ==
  ASSUME Base, NEW o \in Orders, RowProjected(o) PROVE Base' /\ AlgoKept
<1>1. AlgoKept
  BY DEF AlgoKept, RowProjected
<1>2. row[o].st # "none" /\ row[o].algo # "none" /\ row[o].leg \in LegsOf(row[o].algo)
  BY NullsTyped DEF RowProjected, Base, LegInv
<1>3. LegInv'
  BY <1>1, <1>2, LegFrame DEF RowProjected
<1>4. ThreadInv'
  BY <1>1, ThreadFrame DEF RowProjected, Base, PendingTypeOK, ThreadInv
<1>5. QED
  BY <1>1, <1>3, <1>4 DEF RowProjected, Base, PendingTypeOK

LEMMA ClaimAside ==
  ASSUME Base, ClaimInv, Aside,
         \A o \in Orders : row[o].leg = NoLeg => traded'[o] = traded[o] /\ applied'[o] = applied[o]
  PROVE ClaimInv'
<1>1. Without({"audit"})' => Without({"audit"})
  BY FaultsKept DEF Aside
<1>2. \A q \in Procs : Early(q)' = Early(q) /\ Late(q)' = Late(q) /\ Reconciling(q)' = Reconciling(q)
  BY StageFrame DEF Aside
<1>3. QED
  BY <1>1, <1>2 DEF ClaimInv, Aside

LEMMA ClaimProjected ==
  ASSUME Base, ClaimInv, NoSyncInv, NEW o \in Orders, RowProjected(o) PROVE ClaimInv'
<1>1. Without({"audit"})' = Without({"audit"})
  BY DEF Without, RowProjected
<1>2. \A q \in Procs : /\ Early(q)' = Early(q) /\ Late(q)' = Late(q) /\ Reconciling(q)' = Reconciling(q)
                       /\ worker'[q] = worker[q]
  BY StageFrame DEF RowProjected
<1>3. \A q \in Procs : Early(q) => worker[q].ord # o
  BY DEF ClaimInv, RowProjected
<1>4. \A q \in Procs : Early(q) \/ Late(q) \/ Reconciling(q) => worker[q].ord \in Orders
  BY Stages, OnOrder
<1>5. QED
  BY <1>1, <1>2, <1>3, <1>4 DEF ClaimInv, RowProjected, NoSyncInv

LEMMA ReadAside ==
  ASSUME Base, Base', ReadInv, worker' = worker, venue' = venue PROVE ReadInv'
BY VenueSame, ReadFrame DEF ReadInv

\* What the steps of a projector do to the queue.
LEMMA ProjectRowStep ==
  ASSUME Base, ProjectorInv, NEW q \in Streamers, NEW e \in Events, ProjectRow(q, e)
  PROVE /\ RowProjected(e[1]) /\ row[e[1]].leg = e[2]
        /\ row'[e[1]].filled = TargetFill(row[e[1]], e) /\ TargetFill(row[e[1]], e) \in Nat
        /\ row[e[1]].filled \in Nat /\ row[e[1]].filled <= TargetFill(row[e[1]], e)
        /\ projector' \in [Streamers -> Projector] /\ projector[q].pc = "idle" /\ projector'[q].ev = e
        /\ projector'[q].pc = IF TargetFill(row[e[1]], e) > row[e[1]].filled THEN "position" ELSE "fee"
        /\ projector'[q].delta = TargetFill(row[e[1]], e) - row[e[1]].filled
        /\ \A x \in Streamers \ {q} : projector'[x] = projector[x]
        /\ UNCHANGED <<inbox, tries, tradedBy, feeBy, feesAdded>>
        /\ e[3] <= venue[e[1]][e[2]].fill /\ e \notin tradedBy
<1>1. PICK o \in Orders : o = e[1]
  BY EventParts
<1>2. PICK t : t = TargetFill(row[o], e)
  OBVIOUS
<1>3. row[o] \in Row /\ row[o].filled \in Nat /\ e[3] \in Nat
  BY EventParts DEF Base, PendingTypeOK, Row
<1>4. t \in Nat /\ row[o].filled <= t
  BY <1>2, <1>3 DEF TargetFill, MaxOf
<1>5. PICK st \in Statuses : /\ st \in {row[o].st, "filled"}
                             /\ SetRow(o, [row[o] EXCEPT !.filled = t, !.st = st])
  <2> DEFINE full == venue[o][e[2]].qty = e[3]
             st == IF full /\ row[o].st \notin {"failed", "cancelled"} THEN "filled" ELSE row[o].st
  <2>1. SetRow(o, [row[o] EXCEPT !.filled = t, !.st = st])
    BY <1>1, <1>2 DEF ProjectRow
  <2>2. st \in Statuses /\ st \in {row[o].st, "filled"}
    BY <1>3 DEF Row, Statuses
  <2>3. QED
    BY <2>1, <2>2
<1> DEFINE r == [row[o] EXCEPT !.filled = t, !.st = st]
           w == [pc |-> IF t > row[o].filled THEN "position" ELSE "fee", ev |-> e, delta |-> t - row[o].filled]
<1>6. /\ r \in Row /\ r.algo = row[o].algo /\ r.leg = row[o].leg /\ r.tracked = row[o].tracked
      /\ r.filled = t /\ r.st = st
  BY <1>3, <1>4 DEF Row
<1>7. t - row[o].filled \in Nat
  BY <1>3, <1>4
<1>8. w \in Projector
  BY <1>7 DEF Projector
<1>9. projector' = [projector EXCEPT ![q] = w]
  BY <1>1, <1>2 DEF ProjectRow
<1>10. SetRow(o, r)
  BY <1>5
<1> HIDE DEF r
<1>11. row' \in [Orders -> Row] /\ row'[o] = r /\ \A x \in Orders \ {o} : row'[x] = row[x]
  BY <1>6, <1>10, RowSet DEF Base, PendingTypeOK
<1>12. /\ projector' \in [Streamers -> Projector] /\ projector'[q] = w
       /\ \A x \in Streamers \ {q} : projector'[x] = projector[x]
  BY <1>8, <1>9 DEF ProjectorInv
<1>13. /\ UNCHANGED <<venue, traded, applied, worker, faults>> /\ row[o].leg = e[2] /\ inbox[e] # "none"
       /\ UNCHANGED <<inbox, tries, tradedBy, feeBy, feesAdded>> /\ projector[q].pc = "idle"
       /\ e \notin tradedBy
  BY <1>1 DEF ProjectRow, ResolveBinding, Pending, AlreadyProjected
<1>14. RowProjected(o)
  BY <1>5, <1>6, <1>11, <1>13, EventParts DEF RowProjected
<1>15. e[3] <= venue[o][e[2]].fill
  BY <1>1, <1>13 DEF ProjectorInv
<1>16. QED
  BY <1>1, <1>2, <1>3, <1>4, <1>6, <1>11, <1>12, <1>13, <1>14, <1>15

\* A projector goes from one stage to another with its event, or is done with it.
ProjectorOn(q, a, b) ==
  /\ projector' \in [Streamers -> Projector] /\ projector[q].pc = a /\ projector'[q].pc = b
  /\ projector'[q].ev = projector[q].ev /\ projector'[q].delta = projector[q].delta
  /\ \A x \in Streamers \ {q} : projector'[x] = projector[x]

ProjectorRests(q) ==
  /\ projector' \in [Streamers -> Projector] /\ projector[q].pc # "idle" /\ projector'[q] = ProjectorIdle
  /\ \A x \in Streamers \ {q} : projector'[x] = projector[x]

LEMMA ProjectorFacts ==
  ASSUME ProjectorInv, NEW q \in Streamers
  PROVE /\ projector[q] \in Projector /\ projector[q].delta \in Nat
        /\ projector[q].pc # "idle" => /\ projector[q].ev \in Events /\ projector[q].ev[1] \in Orders
                                        /\ row[projector[q].ev[1]].leg # NoLeg
                                        /\ inbox[projector[q].ev] # "none"
BY EventParts DEF ProjectorInv, Projector

LEMMA IdleProjector ==
  /\ ProjectorIdle \in Projector /\ ProjectorIdle.pc = "idle"
BY DEF ProjectorIdle, Projector

LEMMA SetStage ==
  ASSUME ProjectorInv, NEW q \in Streamers, NEW b \in {"position", "trade", "fee", "mark"},
         projector' = [projector EXCEPT ![q].pc = b]
  PROVE ProjectorOn(q, projector[q].pc, b)
<1> DEFINE w == [projector[q] EXCEPT !.pc = b]
<1>1. projector[q] \in Projector
  BY DEF ProjectorInv
<1>2. w \in Projector /\ w.pc = b /\ w.ev = projector[q].ev /\ w.delta = projector[q].delta
  BY <1>1 DEF Projector
<1>3. projector' = [projector EXCEPT ![q] = w]
  BY DEF ProjectorInv
<1> HIDE DEF w
<1>4. projector' \in [Streamers -> Projector] /\ projector'[q] = w /\ \A x \in Streamers \ {q} : projector'[x] = projector[x]
  BY <1>2, <1>3 DEF ProjectorInv
<1>5. QED
  BY <1>2, <1>4 DEF ProjectorOn

LEMMA SetRest ==
  ASSUME ProjectorInv, NEW q \in Streamers, projector[q].pc # "idle",
         projector' = [projector EXCEPT ![q] = ProjectorIdle]
  PROVE ProjectorRests(q)
BY IdleProjector DEF ProjectorInv, ProjectorRests

LEMMA ProjectPositionStep ==
  ASSUME Base, ProjectorInv, NEW q \in Streamers, ProjectPosition(q)
  PROVE /\ Aside /\ ProjectorOn(q, "position", "trade")
        /\ UNCHANGED <<traded, faults, inbox, tries, tradedBy, feeBy, feesAdded>>
        /\ projector[q].ev[1] \in Orders /\ row[projector[q].ev[1]].leg # NoLeg
        /\ applied' \in [Orders -> Nat]
        /\ applied'[projector[q].ev[1]] = applied[projector[q].ev[1]] + projector[q].delta
        /\ \A x \in Orders \ {projector[q].ev[1]} : applied'[x] = applied[x]
<1>1. projector[q].pc = "position"
  BY DEF ProjectPosition
<1>2. PICK o \in Orders : o = projector[q].ev[1] /\ row[o].leg # NoLeg
  BY <1>1, ProjectorFacts
<1>3. PICK d \in Nat : d = projector[q].delta
  BY ProjectorFacts
<1>4. applied' = [applied EXCEPT ![o] = @ + d] /\ applied \in [Orders -> Nat]
  BY <1>2, <1>3 DEF ProjectPosition, Base, PendingTypeOK
<1>5. applied' \in [Orders -> Nat] /\ applied'[o] = applied[o] + d /\ \A x \in Orders \ {o} : applied'[x] = applied[x]
  BY <1>4
<1>6. Aside /\ UNCHANGED <<traded, faults, inbox, tries, tradedBy, feeBy, feesAdded>>
  BY DEF ProjectPosition, Aside, Base, PendingTypeOK
<1>7. ProjectorOn(q, "position", "trade")
  BY <1>1, SetStage DEF ProjectPosition
<1>8. QED
  BY <1>2, <1>3, <1>5, <1>6, <1>7

LEMMA ProjectTradeStep ==
  ASSUME Base, ProjectorInv, NEW q \in Streamers, ProjectTrade(q)
  PROVE /\ Aside /\ ProjectorOn(q, "trade", "mark")
        /\ UNCHANGED <<applied, faults, inbox, tries, feeBy>>
        /\ projector[q].ev \in Events /\ projector[q].ev \notin tradedBy
        /\ projector[q].ev[1] \in Orders /\ row[projector[q].ev[1]].leg # NoLeg
        /\ traded' \in [Orders -> Nat]
        /\ traded'[projector[q].ev[1]] = traded[projector[q].ev[1]] + projector[q].delta
        /\ \A x \in Orders \ {projector[q].ev[1]} : traded'[x] = traded[x]
        /\ tradedBy' = tradedBy \cup {projector[q].ev}
        /\ feesAdded' \in [Events -> Nat]
        /\ feesAdded'[projector[q].ev] = feesAdded[projector[q].ev] + 1
        /\ \A e \in Events \ {projector[q].ev} : feesAdded'[e] = feesAdded[e]
<1>1. projector[q].pc = "trade" /\ projector[q].ev \notin tradedBy
  BY DEF ProjectTrade
<1>2. PICK e \in Events : e = projector[q].ev
  BY <1>1, ProjectorFacts
<1>3. PICK o \in Orders : o = e[1] /\ row[o].leg # NoLeg
  BY <1>1, <1>2, ProjectorFacts
<1>4. PICK d \in Nat : d = projector[q].delta
  BY ProjectorFacts
<1>5. /\ traded' = [traded EXCEPT ![o] = @ + d] /\ traded \in [Orders -> Nat]
      /\ feesAdded' = [feesAdded EXCEPT ![e] = @ + 1] /\ feesAdded \in [Events -> Nat]
      /\ tradedBy' = tradedBy \cup {e}
  BY <1>2, <1>3, <1>4 DEF ProjectTrade, Base, PendingTypeOK, ProjectorInv
<1>6. traded' \in [Orders -> Nat] /\ traded'[o] = traded[o] + d /\ \A x \in Orders \ {o} : traded'[x] = traded[x]
  BY <1>5
<1>7. feesAdded' \in [Events -> Nat] /\ feesAdded'[e] = feesAdded[e] + 1 /\ \A x \in Events \ {e} : feesAdded'[x] = feesAdded[x]
  BY <1>5
<1>8. Aside /\ UNCHANGED <<applied, faults, inbox, tries, feeBy>>
  BY DEF ProjectTrade, Aside, Base, PendingTypeOK
<1>9. ProjectorOn(q, "trade", "mark")
  BY <1>1, SetStage DEF ProjectTrade
<1>10. QED
  BY <1>1, <1>2, <1>3, <1>4, <1>5, <1>6, <1>7, <1>8, <1>9

LEMMA LateFeeStep ==
  ASSUME Base, ProjectorInv, NEW q \in Streamers, ApplyLateFee(q) \/ NoLateFee(q)
  PROVE /\ UNCHANGED vars /\ ProjectorOn(q, "fee", "mark") /\ UNCHANGED <<inbox, tries, tradedBy>>
        /\ projector[q].ev \in Events
        /\ \/ UNCHANGED <<feeBy, feesAdded>>
           \/ /\ feeBy' = feeBy \cup {projector[q].ev} /\ feesAdded' \in [Events -> Nat]
              /\ \/ feesAdded'[projector[q].ev] = feesAdded[projector[q].ev]
                 \/ /\ projector[q].ev \notin feeBy
                    /\ feesAdded'[projector[q].ev] = feesAdded[projector[q].ev] + 1
              /\ \A e \in Events \ {projector[q].ev} : feesAdded'[e] = feesAdded[e]
<1>1. projector[q].pc = "fee" /\ UNCHANGED vars /\ UNCHANGED <<inbox, tries, tradedBy>>
  BY DEF ApplyLateFee, NoLateFee
<1>2. PICK e \in Events : e = projector[q].ev
  BY <1>1, ProjectorFacts
<1>3. ProjectorOn(q, "fee", "mark")
  BY <1>1, SetStage DEF ApplyLateFee, NoLateFee
<1>4. CASE NoLateFee(q)
  BY <1>1, <1>2, <1>3, <1>4 DEF NoLateFee
<1>5. CASE ApplyLateFee(q)
  <2>1. PICK n \in (IF FeeOpen(e) THEN {0, 1} ELSE {0}) : feesAdded' = [feesAdded EXCEPT ![e] = @ + n]
    BY <1>2, <1>5 DEF ApplyLateFee
  <2>2. feesAdded \in [Events -> Nat] /\ n \in Nat
    BY <2>1 DEF ProjectorInv
  <2>3. feesAdded' \in [Events -> Nat] /\ feesAdded'[e] = feesAdded[e] + n /\ \A x \in Events \ {e} : feesAdded'[x] = feesAdded[x]
    BY <2>1, <2>2
  <2>4. feeBy' = feeBy \cup {e} /\ (n = 0 \/ (n = 1 /\ e \notin feeBy))
    BY <1>2, <1>5, <2>1 DEF ApplyLateFee, FeeOpen
  <2>5. feesAdded[e] \in Nat
    BY <2>2
  <2>6. QED
    BY <1>1, <1>2, <1>3, <2>3, <2>4, <2>5
<1>6. QED
  BY <1>4, <1>5

LEMMA RestStep ==
  ASSUME Base, ProjectorInv, NEW q \in Streamers, LateFeeTooEarly(q) \/ ProjectFails(q) \/ MarkProcessed(q)
  PROVE /\ Aside /\ UNCHANGED <<traded, applied, tradedBy, feeBy, feesAdded>> /\ ProjectorRests(q)
        /\ inbox' \in [Events -> {"none", "new", "done"}]
        /\ \A e \in Events : inbox[e] = "none" <=> inbox'[e] = "none"
<1>1. projector[q].pc # "idle"
  BY DEF LateFeeTooEarly, ProjectFails, MarkProcessed
<1>2. PICK e \in Events : e = projector[q].ev /\ inbox[e] # "none"
  BY <1>1, ProjectorFacts
<1>3. ProjectorRests(q)
  BY <1>1, SetRest DEF LateFeeTooEarly, ProjectFails, MarkProcessed
<1>4. inbox \in [Events -> {"none", "new", "done"}]
  BY DEF ProjectorInv
<1>5. CASE LateFeeTooEarly(q) \/ MarkProcessed(q)
  <2>1. Aside /\ UNCHANGED <<traded, applied, tradedBy, feeBy, feesAdded>>
    BY <1>5 DEF LateFeeTooEarly, MarkProcessed, vars, Aside, Base, PendingTypeOK
  <2>2. inbox' = inbox \/ inbox' = [inbox EXCEPT ![e] = "done"]
    BY <1>2, <1>5 DEF LateFeeTooEarly, MarkProcessed
  <2>3. QED
    BY <1>2, <1>3, <1>4, <2>1, <2>2
<1>6. CASE ProjectFails(q)
  <2>1. faults \subseteq faults' /\ faults' \subseteq Faults
    BY <1>6, FaultStep DEF ProjectFails, Base, PendingTypeOK
  <2>2. UNCHANGED <<row, venue, traded, applied, worker, inbox, tradedBy, feeBy, feesAdded>>
    BY <1>6 DEF ProjectFails
  <2>3. QED
    BY <1>3, <1>4, <2>1, <2>2 DEF Aside
<1>7. QED
  BY <1>5, <1>6

\* An event is stored or closed: only the event table changes.
LEMMA TableStep ==
  ASSUME Base, ProjectorInv, NEW e \in Events,
         Ingest(e) \/ \E q \in Streamers : SkipProjected(q, e) \/ DropUnbound(q, e)
  PROVE /\ UNCHANGED vars /\ UNCHANGED <<projector, tradedBy, feeBy, feesAdded>>
        /\ inbox' \in [Events -> {"none", "new", "done"}]
        /\ \A x \in Events : inbox[x] # "none" => inbox'[x] # "none"
        /\ \A x \in Events : inbox'[x] # "none" => x[3] <= venue[x[1]][x[2]].fill
<1>1. inbox \in [Events -> {"none", "new", "done"}]
  BY DEF ProjectorInv
<1>2. UNCHANGED vars /\ UNCHANGED <<projector, tradedBy, feeBy, feesAdded>>
  BY DEF Ingest, SkipProjected, DropUnbound
<1>3. e[3] <= venue[e[1]][e[2]].fill
  <2>1. CASE Ingest(e)
    <3>1. e[1] \in Orders /\ e[2] \in Legs /\ e[3] \in Nat
      BY EventParts
    <3>2. venue[e[1]][e[2]].fill \in Nat /\ venue[e[1]][e[2]].fill >= e[3]
      BY <2>1, <3>1, AmountAssumption DEF Ingest, Base, PendingTypeOK, VenueLeg
    <3>3. QED
      BY <3>1, <3>2
  <2>2. CASE \E q \in Streamers : SkipProjected(q, e) \/ DropUnbound(q, e)
    BY <2>2 DEF SkipProjected, DropUnbound, Pending, ProjectorInv
  <2>3. QED
    BY <2>1, <2>2
<1>4. PICK v \in {"new", "done"} : inbox' = [inbox EXCEPT ![e] = v]
  BY DEF Ingest, SkipProjected, DropUnbound
<1>5. inbox' \in [Events -> {"none", "new", "done"}] /\ inbox'[e] = v /\ \A x \in Events \ {e} : inbox'[x] = inbox[x]
  BY <1>1, <1>4
<1>6. QED
  BY <1>2, <1>3, <1>5 DEF ProjectorInv

LEMMA CrashStep ==
  ASSUME Base, ProjectorInv, NEW p \in Procs, ProcessCrash(p)
  PROVE /\ WorkerGone(p) /\ CoreNext /\ UNCHANGED <<inbox, tries, tradedBy, feeBy, feesAdded>>
        /\ projector' \in [Streamers -> Projector]
        /\ \A q \in Streamers : projector'[q] \in {projector[q], ProjectorIdle}
<1>1. \E k : Fault(k) /\ (Syncing(p) => k = "syncCrash")
  BY DEF ProcessCrash
<1>2. faults \subseteq faults' /\ faults' \subseteq Faults /\ (Syncing(p) => "syncCrash" \in faults')
  BY <1>1, FaultStep DEF Base, PendingTypeOK
<1>3. WorkerGone(p) /\ UNCHANGED <<inbox, tries, tradedBy, feeBy, feesAdded>>
  BY <1>2 DEF ProcessCrash, WorkerGone
<1>4. /\ projector' \in [Streamers -> Projector]
      /\ \A q \in Streamers : projector'[q] \in {projector[q], ProjectorIdle}
  BY IdleProjector DEF ProcessCrash, ProjectorInv
<1>5. QED
  BY <1>3, <1>4 DEF CoreNext

LEMMA AuditStep ==
  ASSUME Base, NEW p \in Procs, NEW o \in Orders, RestAudit(p, o)
  PROVE CoreNext /\ UNCHANGED streamVars /\ ~Without({"audit"})'
<1>1. faults' = faults \cup {"audit"} /\ faults' \subseteq Faults
  BY FaultStep DEF RestAudit, Base, PendingTypeOK
<1>2. SentClaimed(p, o)
  BY <1>1 DEF RestAudit, SentClaimed
<1>3. QED
  BY <1>1, <1>2 DEF CoreNext, RestAudit, Without

LEMMA QueueIsCore == QueueNext => CoreNext /\ UNCHANGED streamVars
BY DEF QueueNext, CoreNext

\* A row that was sent keeps tracking a leg.
LEMMA CoreLegs ==
  ASSUME Base, CoreNext
  PROVE \A o \in Orders : row[o].leg # NoLeg => row'[o].leg # NoLeg
<1>1. ASSUME NEW p \in Procs, WorkerStep(p), row' # row
      PROVE \A o \in Orders : row[o].leg # NoLeg => row'[o].leg # NoLeg
  <2>1. \/ MarkFailed(p) /\ worker[p].pc # "idle"
        \/ NotifySignal(p) \/ MarkSent(p) \/ QueryFails(p) \/ UpdateSnapshot(p)
    BY <1>1 DEF WorkerStep, DispatchStep, SyncStep, PersistStep, RejectDispatch, Place, PlaceRefused,
       PlaceLost, Placing, WaitLimit, WaitMarket, CancelLimit, ReadUnrecorded, QueryFill, QueryNoPrice,
       ApplyPosition, RecordTrade
  <2>2. /\ \A x \in Orders \ {worker[p].ord} : row'[x] = row[x]
        /\ ~MarkSent(p) => row'[worker[p].ord].leg = row[worker[p].ord].leg
    BY <2>1, FailStep, NotifyStep, MarkSentStep, QueryFailsStep, SnapshotStep DEF SyncEnds
  <2>3. MarkSent(p) => row'[worker[p].ord].leg # NoLeg
    BY MarkSentStep, LegFacts
  <2>4. QED
    BY <2>2, <2>3
<1>2. ASSUME NEW o \in Orders, Submit(o) PROVE \A x \in Orders : row[x].leg # NoLeg => row'[x].leg # NoLeg
  BY <1>2, NullsTyped DEF Submit, SetRow, Base, PendingTypeOK, LegInv
<1>3. ASSUME NEW o \in Orders, RequeueProcessing(o) \/ RequeueSyncing(o) PROVE \A x \in Orders : row'[x].leg = row[x].leg
  BY <1>3, StatusSet DEF RequeueProcessing, RequeueSyncing, Statuses
<1>4. ASSUME NEW p \in Procs, NEW o \in Orders, Claim(p, o) \/ SentClaimed(p, o)
      PROVE \A x \in Orders : row'[x].leg = row[x].leg
  BY <1>4, ClaimStep, SentClaimStep
<1>5. ASSUME NEW p \in Procs, WorkerGone(p) PROVE row' = row
  BY <1>5 DEF WorkerGone
<1>6. ASSUME NEW o \in Orders, NEW l \in Legs, VenueFills(o, l) \/ VenueCancels(o, l) PROVE row' = row
  BY <1>6, VenueStep
<1>7. QED
  BY <1>1, <1>2, <1>3, <1>4, <1>5, <1>6 DEF CoreNext

\* No step of a worker turns a dispatch into a sync.
LEMMA StaysOut ==
  ASSUME Base, NEW p \in Procs, WorkerStep(p), ~Reconciling(p)
  PROVE /\ ~Reconciling(p)' /\ (\A q \in Procs \ {p} : worker'[q] = worker[q])
        /\ MarkSent(p) \/ \A o \in Orders : row'[o].filled = row[o].filled
<1>1. CASE RejectDispatch(p) \/ PlaceRefused(p) \/ PlaceLost(p)
  BY <1>1, BaseFail, FailStep, GoneOther DEF Leaves
<1>2. CASE NotifySignal(p)
  BY <1>2, NotifyStep, GoneOther DEF Leaves
<1>3. CASE Place(p)
  BY <1>3, PlaceStep, PlaceLegs, AfterOf DEF Moves, Reconciling
<1>4. CASE WaitLimit(p) \/ WaitMarket(p)
  BY <1>4, WaitLimitStep, WaitMarketStep, AfterOf DEF Moves, Reconciling
<1>5. CASE CancelLimit(p)
  <2>1. CASE Cancelled(p)
    BY <2>1, AfterOf DEF Cancelled, Moves, Reconciling
  <2>2. CASE MarkFailed(p) /\ UNCHANGED <<venue, faults>> /\ worker[p].pc = "cancel"
    BY <2>2, FailStep, GoneOther DEF Leaves
  <2>3. QED
    BY <1>5, <2>1, <2>2, CancelStep
<1>6. CASE MarkSent(p)
  BY <1>6, MarkSentStep, AfterOf DEF Moves, Reconciling
<1>7. CASE ReadUnrecorded(p)
  BY <1>7, ReadStep, GoneOther DEF Leaves, Moves, Reconciling
<1>8. CASE QueryFill(p) \/ QueryNoPrice(p) \/ QueryFails(p) \/ UpdateSnapshot(p)
  BY <1>8 DEF QueryFill, QueryNoPrice, QueryFails, UpdateSnapshot, Reconciling
<1>9. CASE ApplyPosition(p)
  BY <1>9, ApplyStep DEF Moves, Reconciling
<1>10. CASE RecordTrade(p)
  BY <1>10, TradeStep, GoneOther DEF Leaves, Reconciling
<1>11. QED
  BY <1>1, <1>2, <1>3, <1>4, <1>5, <1>6, <1>7, <1>8, <1>9, <1>10
     DEF WorkerStep, DispatchStep, SyncStep, PersistStep

LEMMA NoSyncQueue ==
  ASSUME Base, QueueNext, \A p \in Procs : ~Reconciling(p)
  PROVE /\ \A p \in Procs : ~Reconciling(p)'
        /\ (\E p \in Procs : MarkSent(p)) \/ \A o \in Orders : row'[o].filled = row[o].filled
<1>1. ASSUME NEW o \in Orders, Submit(o) \/ RequeueProcessing(o) \/ RequeueSyncing(o)
      PROVE worker' = worker /\ \A x \in Orders : row'[x].filled = row[x].filled
  <2>1. CASE Submit(o)
    <3>1. PICK a \in Algos : SetRow(o, [NoRow EXCEPT !.st = "pending", !.algo = a])
      BY <2>1 DEF Submit
    <3>2. row[o] = NoRow
      BY <2>1 DEF Submit, Base, LegInv
    <3>3. QED
      BY <2>1, <3>1, <3>2, NullsTyped DEF Submit, SetRow, Base, PendingTypeOK, Row
  <2>2. CASE RequeueProcessing(o) \/ RequeueSyncing(o)
    BY <2>2, StatusSet DEF RequeueProcessing, RequeueSyncing, Statuses
  <2>3. QED
    BY <1>1, <2>1, <2>2
<1>2. ASSUME NEW p \in Procs, NEW o \in Orders, Claim(p, o)
      PROVE /\ ~Reconciling(p)' /\ (\A q \in Procs \ {p} : worker'[q] = worker[q])
            /\ \A x \in Orders : row'[x].filled = row[x].filled
  BY <1>2, ClaimStep DEF Reconciling
<1>3. ASSUME NEW o \in Orders, NEW l \in Legs, VenueFills(o, l) \/ VenueCancels(o, l)
      PROVE worker' = worker /\ row' = row
  BY <1>3, VenueStep
<1>4. QED
  BY <1>1, <1>2, <1>3, StaysOut, StageFrame DEF QueueNext

LEMMA ProjectorFrame ==
  ASSUME Base, Base', ProjectorInv, VenueGrows,
         \A o \in Orders : row[o].leg # NoLeg => row'[o].leg # NoLeg,
         projector' \in [Streamers -> Projector], inbox' \in [Events -> {"none", "new", "done"}],
         feesAdded' \in [Events -> Nat],
         \A x \in Events : inbox[x] # "none" => inbox'[x] # "none",
         \A x \in Events : inbox'[x] # "none" => inbox[x] # "none" \/ x[3] <= venue[x[1]][x[2]].fill,
         \A q \in Streamers :
           \/ projector'[q].pc = "idle"
           \/ projector'[q].ev = projector[q].ev /\ projector[q].pc # "idle"
           \/ /\ projector'[q].ev \in Events /\ inbox[projector'[q].ev] # "none"
              /\ row[projector'[q].ev[1]].leg # NoLeg
  PROVE ProjectorInv'
<1>1. ASSUME NEW e \in Events, inbox'[e] # "none" PROVE e[3] <= venue'[e[1]][e[2]].fill
  <2>1. e[3] <= venue[e[1]][e[2]].fill
    BY <1>1 DEF ProjectorInv
  <2>2. QED
    BY <2>1, EventParts, FillsGrow
<1>2. ASSUME NEW q \in Streamers, projector'[q].pc # "idle"
      PROVE /\ projector'[q].ev \in Events /\ inbox'[projector'[q].ev] # "none"
            /\ row'[projector'[q].ev[1]].leg # NoLeg
  BY <1>2, ProjectorFacts, EventParts
<1>3. QED
  BY <1>1, <1>2 DEF ProjectorInv

\* What holds of the streams however slow a dispatch is, and where none is slow.
StreamCore == Base /\ NoSyncInv /\ ProjectorInv
StreamBase == StreamCore /\ ClaimInv /\ ReadInv

LEMMA StreamBaseInit == StreamInit => StreamBase
<1>1. StreamInit => Base /\ ClaimInv /\ ReadInv
  BY BaseInit, ClaimInit, ReadInit DEF StreamInit
<1>2. StreamInit => NoSyncInv
  BY NullsTyped DEF StreamInit, Init, NoSyncInv, Reconciling
<1>3. StreamInit => ProjectorInv
  BY IdleProjector DEF StreamInit, ProjectorInv
<1>4. QED
  BY <1>1, <1>2, <1>3 DEF StreamBase, StreamCore

\* The steps of the queue, an audit and a crash.
LEMMA StreamCoreQueue ==
  ASSUME StreamCore, CoreNext, UNCHANGED <<inbox, feesAdded>>,
         projector' \in [Streamers -> Projector],
         \A q \in Streamers : projector'[q] \in {projector[q], ProjectorIdle},
         NoSyncInv'
  PROVE StreamCore'
<1>1. Base' /\ VenueGrows
  BY BaseStep, CoreVenueGrows DEF StreamCore
<1>2. \A o \in Orders : row[o].leg # NoLeg => row'[o].leg # NoLeg
  BY CoreLegs DEF StreamCore
<1>3. ProjectorInv'
  BY <1>1, <1>2, ProjectorFrame, IdleProjector DEF StreamCore, ProjectorInv
<1>4. QED
  BY <1>1, <1>3 DEF StreamCore

\* The steps of a projector that write no row.
LEMMA StreamCoreAside ==
  ASSUME StreamCore, Aside, traded' \in [Orders -> Nat], applied' \in [Orders -> Nat],
         projector' \in [Streamers -> Projector], inbox' \in [Events -> {"none", "new", "done"}],
         feesAdded' \in [Events -> Nat],
         \A x \in Events : inbox[x] # "none" => inbox'[x] # "none",
         \A x \in Events : inbox'[x] # "none" => inbox[x] # "none" \/ x[3] <= venue[x[1]][x[2]].fill,
         \A q \in Streamers :
           \/ projector'[q].pc = "idle"
           \/ projector'[q].ev = projector[q].ev /\ projector[q].pc # "idle"
  PROVE StreamCore'
<1>1. Base' /\ VenueGrows
  BY BaseAside, VenueSame DEF StreamCore, Aside
<1>2. NoSyncInv'
  BY FaultsKept, StageFrame DEF StreamCore, NoSyncInv, Aside
<1>3. ProjectorInv'
  BY <1>1, ProjectorFrame DEF StreamCore, Aside
<1>4. QED
  BY <1>1, <1>2, <1>3 DEF StreamCore

LEMMA StreamCoreRow ==
  ASSUME StreamCore, NEW q \in Streamers, NEW e \in Events, ProjectRow(q, e) PROVE StreamCore'
<1>1. /\ RowProjected(e[1]) /\ projector' \in [Streamers -> Projector] /\ projector'[q].ev = e
      /\ (\A x \in Streamers \ {q} : projector'[x] = projector[x])
      /\ UNCHANGED <<inbox, feesAdded>> /\ row[e[1]].leg = e[2]
  BY ProjectRowStep DEF StreamCore
<1>2. e[1] \in Orders /\ e[2] # NoLeg
  BY EventParts
<1>3. Base'
  BY <1>1, <1>2, BaseProjected DEF StreamCore
<1>4. UNCHANGED <<venue, worker, faults>> /\ VenueGrows
  BY <1>1, VenueSame DEF RowProjected, StreamCore
<1>5. NoSyncInv'
  BY <1>4, StageFrame DEF StreamCore, NoSyncInv, Without
<1>6. \A o \in Orders : row[o].leg # NoLeg => row'[o].leg # NoLeg
  BY <1>1, <1>2 DEF RowProjected
<1>7. inbox[e] # "none"
  BY DEF ProjectRow, Pending
<1>8. ProjectorInv'
  BY <1>1, <1>2, <1>3, <1>4, <1>6, <1>7, ProjectorFrame DEF StreamCore, ProjectorInv
<1>9. QED
  BY <1>3, <1>5, <1>8 DEF StreamCore

LEMMA StreamCoreStep == ASSUME StreamCore, StreamNext PROVE StreamCore'
<1> USE DEF StreamCore
<1>0. /\ traded \in [Orders -> Nat] /\ applied \in [Orders -> Nat] /\ feesAdded \in [Events -> Nat]
      /\ inbox \in [Events -> {"none", "new", "done"}] /\ projector \in [Streamers -> Projector]
  BY DEF Base, PendingTypeOK, ProjectorInv
<1>1. CASE QueueNext
  <2>1. CoreNext /\ UNCHANGED streamVars
    BY <1>1, QueueIsCore
  <2>2. NoSyncInv'
    BY <1>1, <2>1, NoSyncQueue, CoreFaults, FaultsKept DEF NoSyncInv
  <2>3. QED
    BY <1>0, <2>1, <2>2, StreamCoreQueue DEF streamVars
<1>2. ASSUME NEW p \in Procs, NEW o \in Orders, RestAudit(p, o) PROVE StreamCore'
  <2>1. NoSyncInv'
    BY <1>2, AuditStep DEF NoSyncInv
  <2>2. QED
    BY <1>0, <1>2, <2>1, AuditStep, StreamCoreQueue DEF streamVars
<1>3. ASSUME NEW p \in Procs, ProcessCrash(p) PROVE StreamCore'
  <2>1. Leaves(p) /\ faults \subseteq faults'
    BY <1>3, CrashStep, GoneStep DEF WorkerGone, Leaves
  <2>2. NoSyncInv'
    BY <2>1, GoneOther, StageFrame, FaultsKept DEF NoSyncInv, Leaves
  <2>3. QED
    BY <1>3, <2>2, CrashStep, StreamCoreQueue
<1>4. ASSUME NEW e \in Events, Ingest(e) \/ \E q \in Streamers : SkipProjected(q, e) \/ DropUnbound(q, e)
      PROVE StreamCore'
  <2>1. Aside /\ UNCHANGED <<traded, applied, projector, feesAdded>>
    BY <1>4, TableStep DEF vars, Aside, Base, PendingTypeOK
  <2>2. QED
    BY <1>0, <1>4, <2>1, TableStep, StreamCoreAside
<1>5. ASSUME NEW q \in Streamers, ProjectPosition(q) PROVE StreamCore'
  BY <1>0, <1>5, ProjectPositionStep, StreamCoreAside DEF ProjectorOn
<1>6. ASSUME NEW q \in Streamers, ProjectTrade(q) PROVE StreamCore'
  BY <1>0, <1>6, ProjectTradeStep, StreamCoreAside DEF ProjectorOn
<1>7. ASSUME NEW q \in Streamers, ApplyLateFee(q) \/ NoLateFee(q) PROVE StreamCore'
  <2>1. Aside /\ UNCHANGED <<traded, applied, inbox>> /\ feesAdded' \in [Events -> Nat]
    BY <1>0, <1>7, LateFeeStep DEF vars, Aside, Base, PendingTypeOK
  <2>2. QED
    BY <1>0, <1>7, <2>1, LateFeeStep, StreamCoreAside DEF ProjectorOn
<1>8. ASSUME NEW q \in Streamers, LateFeeTooEarly(q) \/ ProjectFails(q) \/ MarkProcessed(q) PROVE StreamCore'
  <2>1. \A x \in Streamers : projector'[x].pc = "idle" \/ (projector'[x].ev = projector[x].ev /\ projector[x].pc # "idle")
    BY <1>8, RestStep, IdleProjector DEF ProjectorRests
  <2>2. /\ Aside /\ UNCHANGED <<traded, applied, feesAdded>> /\ projector' \in [Streamers -> Projector]
        /\ inbox' \in [Events -> {"none", "new", "done"}]
        /\ \A x \in Events : inbox[x] = "none" <=> inbox'[x] = "none"
    BY <1>8, RestStep DEF ProjectorRests
  <2>3. QED
    BY <1>0, <2>1, <2>2, StreamCoreAside
<1>9. QED
  BY <1>1, <1>2, <1>3, <1>4, <1>5, <1>6, <1>7, <1>8, StreamCoreRow
     DEF StreamNext, TakeEvent, ProjectorStep

\* A step of a projector or of the event table leaves the queue alone, but for
\* the quantity and the status of the row it projects on.
LEMMA StreamSteps ==
  ASSUME StreamCore, StreamNext
  PROVE \/ CoreNext
        \/ \E o \in Orders : RowProjected(o)
        \/ /\ Aside
           /\ \A o \in Orders : row[o].leg = NoLeg => traded'[o] = traded[o] /\ applied'[o] = applied[o]
<1> USE DEF StreamCore
<1>1. ASSUME NEW q \in Streamers, ProjectorStep(q)
      PROVE Aside /\ \A o \in Orders : row[o].leg = NoLeg => traded'[o] = traded[o] /\ applied'[o] = applied[o]
  <2>1. CASE ProjectPosition(q)
    BY <2>1, ProjectPositionStep
  <2>2. CASE ProjectTrade(q)
    BY <2>2, ProjectTradeStep
  <2>3. CASE ApplyLateFee(q) \/ NoLateFee(q)
    BY <2>3, LateFeeStep DEF vars, Aside, Base, PendingTypeOK
  <2>4. CASE LateFeeTooEarly(q) \/ ProjectFails(q) \/ MarkProcessed(q)
    BY <2>4, RestStep
  <2>5. QED
    BY <1>1, <2>1, <2>2, <2>3, <2>4 DEF ProjectorStep
<1>2. ASSUME NEW e \in Events, Ingest(e) \/ \E q \in Streamers : SkipProjected(q, e) \/ DropUnbound(q, e)
      PROVE Aside /\ UNCHANGED <<traded, applied>>
  BY <1>2, TableStep DEF vars, Aside, Base, PendingTypeOK
<1>3. ASSUME NEW q \in Streamers, NEW e \in Events, ProjectRow(q, e) PROVE \E o \in Orders : RowProjected(o)
  BY <1>3, ProjectRowStep, EventParts
<1>4. QED
  BY <1>1, <1>2, <1>3, QueueIsCore, AuditStep, CrashStep DEF StreamNext, TakeEvent

LEMMA StreamBaseStep == ASSUME StreamBase, Paced, StreamNext PROVE StreamBase'
<1> USE DEF StreamBase, StreamCore
<1>1. StreamCore'
  BY StreamCoreStep
<1>2. CASE CoreNext
  BY <1>1, <1>2, ClaimInvStep, ReadStepInv
<1>3. ASSUME NEW o \in Orders, RowProjected(o) PROVE ClaimInv' /\ ReadInv'
  BY <1>1, <1>3, ClaimProjected, ReadAside DEF RowProjected
<1>4. CASE /\ Aside
           /\ \A o \in Orders : row[o].leg = NoLeg => traded'[o] = traded[o] /\ applied'[o] = applied[o]
  BY <1>1, <1>4, ClaimAside, ReadAside DEF Aside
<1>5. QED
  BY <1>1, <1>2, <1>3, <1>4, StreamSteps

-----------------------------------------------------------------------------
(* What the projectors will still add *)

TradesOf(o, f) == [q \in Streamers |-> ReportedTrade(o, f[q])]
PositionsOf(o, f) == [q \in Streamers |-> ReportedPosition(o, f[q])]

LEMMA ReportedTyped ==
  ASSUME NEW f \in [Streamers -> Projector], NEW o
  PROVE /\ TradesOf(o, f) \in [Streamers -> Nat] /\ PositionsOf(o, f) \in [Streamers -> Nat]
        /\ Total(TradesOf(o, f)) \in Nat /\ Total(PositionsOf(o, f)) \in Nat
<1>1. \A q \in Streamers : ReportedTrade(o, f[q]) \in Nat /\ ReportedPosition(o, f[q]) \in Nat
  BY DEF ReportedTrade, ReportedPosition, Projector
<1>2. TradesOf(o, f) \in [Streamers -> Nat] /\ PositionsOf(o, f) \in [Streamers -> Nat]
  BY <1>1 DEF TradesOf, PositionsOf
<1>3. QED
  BY <1>2, StreamersFinite, TotalType

LEMMA ReportedAre ==
  ASSUME NEW o
  PROVE /\ ReportedTrades(o) = Total(TradesOf(o, projector))
        /\ ReportedTrades(o)' = Total(TradesOf(o, projector'))
        /\ ReportedPositions(o) = Total(PositionsOf(o, projector))
        /\ ReportedPositions(o)' = Total(PositionsOf(o, projector'))
BY DEF ReportedTrades, ReportedPositions, TradesOf, PositionsOf

LEMMA ReportedNone ==
  ASSUME NEW w, w.pc \notin {"position", "trade"}, NEW o
  PROVE ReportedTrade(o, w) = 0 /\ ReportedPosition(o, w) = 0
BY DEF ReportedTrade, ReportedPosition

\* A step of one projector, and a crash, which may end one.
LEMMA ReportedMove ==
  ASSUME NEW f \in [Streamers -> Projector], NEW g \in [Streamers -> Projector], NEW o,
         NEW q \in Streamers, \A x \in Streamers \ {q} : g[x] = f[x]
  PROVE /\ Total(TradesOf(o, g)) + ReportedTrade(o, f[q]) = Total(TradesOf(o, f)) + ReportedTrade(o, g[q])
        /\ Total(PositionsOf(o, g)) + ReportedPosition(o, f[q])
             = Total(PositionsOf(o, f)) + ReportedPosition(o, g[q])
<1>1. /\ TradesOf(o, f) \in [Streamers -> Nat] /\ PositionsOf(o, f) \in [Streamers -> Nat]
      /\ TradesOf(o, g) \in [Streamers -> Nat] /\ PositionsOf(o, g) \in [Streamers -> Nat]
  BY ReportedTyped
<1>2. \A x \in Streamers :
        /\ TradesOf(o, f)[x] = ReportedTrade(o, f[x]) /\ TradesOf(o, g)[x] = ReportedTrade(o, g[x])
        /\ PositionsOf(o, f)[x] = ReportedPosition(o, f[x]) /\ PositionsOf(o, g)[x] = ReportedPosition(o, g[x])
  BY DEF TradesOf, PositionsOf
<1>3. \A x \in Streamers \ {q} :
        TradesOf(o, g)[x] = TradesOf(o, f)[x] /\ PositionsOf(o, g)[x] = PositionsOf(o, f)[x]
  BY <1>2
<1>4. /\ Total(TradesOf(o, g)) + TradesOf(o, f)[q] = Total(TradesOf(o, f)) + TradesOf(o, g)[q]
      /\ Total(PositionsOf(o, g)) + PositionsOf(o, f)[q] = Total(PositionsOf(o, f)) + PositionsOf(o, g)[q]
  BY <1>1, <1>3, StreamersFinite, TotalUpdate
<1>5. QED
  BY <1>2, <1>4

LEMMA ReportedEnds ==
  ASSUME NEW f \in [Streamers -> Projector], NEW g \in [Streamers -> Projector], NEW o,
         \A x \in Streamers : g[x] \in {f[x], ProjectorIdle}
  PROVE /\ Total(TradesOf(o, g)) <= Total(TradesOf(o, f))
        /\ Total(PositionsOf(o, g)) <= Total(PositionsOf(o, f))
<1>1. /\ TradesOf(o, f) \in [Streamers -> Nat] /\ PositionsOf(o, f) \in [Streamers -> Nat]
      /\ TradesOf(o, g) \in [Streamers -> Nat] /\ PositionsOf(o, g) \in [Streamers -> Nat]
  BY ReportedTyped
<1>2. \A x \in Streamers :
        /\ TradesOf(o, f)[x] = ReportedTrade(o, f[x]) /\ TradesOf(o, g)[x] = ReportedTrade(o, g[x])
        /\ PositionsOf(o, f)[x] = ReportedPosition(o, f[x]) /\ PositionsOf(o, g)[x] = ReportedPosition(o, g[x])
  BY DEF TradesOf, PositionsOf
<1>3. ReportedTrade(o, ProjectorIdle) = 0 /\ ReportedPosition(o, ProjectorIdle) = 0
  BY IdleProjector, ReportedNone
<1>4. \A x \in Streamers :
        TradesOf(o, g)[x] <= TradesOf(o, f)[x] /\ PositionsOf(o, g)[x] <= PositionsOf(o, f)[x]
  <2> TAKE x \in Streamers
  <2>1. CASE g[x] = f[x]
    BY <1>1, <1>2, <2>1
  <2>2. CASE g[x] = ProjectorIdle
    BY <1>1, <1>2, <1>3, <2>2
  <2>3. QED
    BY <2>1, <2>2
<1>5. QED
  BY <1>1, <1>4, StreamersFinite, TotalMonotone

\* The workers owe no more when a projector records.
LEMMA OwedSumsShrink ==
  ASSUME Base, Base', worker' = worker, NEW o \in Orders, traded[o] <= traded'[o]
  PROVE OwedTrades(o)' <= OwedTrades(o) /\ OwedPositions(o)' <= OwedPositions(o)
<1> DEFINE OT == [q \in Procs |-> OwedTrade(o, worker[q])]
           OP == [q \in Procs |-> OwedPosition(o, worker[q])]
           NOT == [q \in Procs |-> OwedTrade(o, worker[q])']
           NOP == [q \in Procs |-> OwedPosition(o, worker[q])']
<1>1. OT \in [Procs -> Nat] /\ OP \in [Procs -> Nat] /\ NOT \in [Procs -> Nat] /\ NOP \in [Procs -> Nat]
  BY TermsTyped, TermTypeNext
<1>2. /\ OwedTrades(o) = Total(OT) /\ OwedPositions(o) = Total(OP)
      /\ OwedTrades(o)' = Total(NOT) /\ OwedPositions(o)' = Total(NOP)
  BY DEF OwedTrades, OwedPositions
<1>3. \A q \in Procs : NOT[q] <= OT[q] /\ NOP[q] <= OP[q]
  BY OwedShrinks DEF Base, PendingTypeOK
<1> HIDE DEF OT, OP, NOT, NOP
<1>4. Total(NOT) <= Total(OT) /\ Total(NOP) <= Total(OP)
  BY <1>1, <1>3, TotalMonotone, ProcsAssumption
<1>5. QED
  BY <1>2, <1>4

\* A step records no more than it takes off what is owed, or adds to the row.
StreamSlack(o) ==
  /\ traded'[o] + OwedTrades(o)' + ReportedTrades(o)' + row[o].filled
       <= traded[o] + OwedTrades(o) + ReportedTrades(o) + row'[o].filled
  /\ applied'[o] + OwedPositions(o)' + ReportedPositions(o)' + row[o].filled
       <= applied[o] + OwedPositions(o) + ReportedPositions(o) + row'[o].filled

LEMMA ProjectorSlack ==
  ASSUME Base, Base', worker' = worker, projector \in [Streamers -> Projector],
         projector' \in [Streamers -> Projector], NEW q \in Streamers,
         \A x \in Streamers \ {q} : projector'[x] = projector[x],
         NEW o \in Orders, traded[o] <= traded'[o],
         traded'[o] + ReportedTrade(o, projector'[q]) + row[o].filled
           <= traded[o] + ReportedTrade(o, projector[q]) + row'[o].filled,
         applied'[o] + ReportedPosition(o, projector'[q]) + row[o].filled
           <= applied[o] + ReportedPosition(o, projector[q]) + row'[o].filled
  PROVE StreamSlack(o)
<1>1. OwedTrades(o)' <= OwedTrades(o) /\ OwedPositions(o)' <= OwedPositions(o)
  BY OwedSumsShrink
<1>2. /\ OwedTrades(o) \in Nat /\ OwedPositions(o) \in Nat /\ OwedTrades(o)' \in Nat /\ OwedPositions(o)' \in Nat
      /\ traded[o] \in Nat /\ applied[o] \in Nat /\ row[o].filled \in Nat
      /\ traded'[o] \in Nat /\ applied'[o] \in Nat /\ row'[o].filled \in Nat
  BY SumsTyped, SumsTypedNext DEF Base, PendingTypeOK, Row
<1>3. /\ ReportedTrades(o)' + ReportedTrade(o, projector[q]) = ReportedTrades(o) + ReportedTrade(o, projector'[q])
      /\ ReportedPositions(o)' + ReportedPosition(o, projector[q])
           = ReportedPositions(o) + ReportedPosition(o, projector'[q])
  BY ReportedMove, ReportedAre
<1>4. /\ ReportedTrades(o) \in Nat /\ ReportedTrades(o)' \in Nat
      /\ ReportedPositions(o) \in Nat /\ ReportedPositions(o)' \in Nat
  BY ReportedTyped, ReportedAre
<1>5. /\ ReportedTrade(o, projector[q]) \in Nat /\ ReportedTrade(o, projector'[q]) \in Nat
      /\ ReportedPosition(o, projector[q]) \in Nat /\ ReportedPosition(o, projector'[q]) \in Nat
  BY DEF ReportedTrade, ReportedPosition, Projector
<1>6. QED
  BY <1>1, <1>2, <1>3, <1>4, <1>5 DEF StreamSlack

LEMMA VenueFillGrows ==
  ASSUME Base, Base', VenueGrows, NEW o \in Orders
  PROVE VenueFill(o) \in Nat /\ VenueFill(o)' \in Nat /\ VenueFill(o) <= VenueFill(o)'
<1> DEFINE v == [l \in Legs |-> venue[o][l].fill]
           n == [l \in Legs |-> venue'[o][l].fill]
<1>1. v \in [Legs -> Nat] /\ n \in [Legs -> Nat] /\ \A l \in Legs : v[l] <= n[l]
  BY FillsGrow
<1>2. VenueFill(o) = Total(v) /\ VenueFill(o)' = Total(n)
  BY DEF VenueFill
<1> HIDE DEF v, n
<1>3. QED
  BY <1>1, <1>2, LegsFinite, TotalType, TotalMonotone

LEMMA LegFillCounts ==
  ASSUME Base, NEW o \in Orders, NEW l \in Legs
  PROVE VenueFill(o) \in Nat /\ venue[o][l].fill \in Nat /\ venue[o][l].fill <= VenueFill(o)
<1> DEFINE v == [k \in Legs |-> venue[o][k].fill]
<1>1. v \in [Legs -> Nat]
  BY AmountAssumption DEF Base, PendingTypeOK, VenueLeg
<1>2. VenueFill(o) = Total(v) /\ v[l] = venue[o][l].fill
  BY DEF VenueFill
<1> HIDE DEF v
<1>3. QED
  BY <1>1, <1>2, LegsFinite, TotalType, TotalTerm

LEMMA TwoLegsCount ==
  ASSUME Base, NEW o \in Orders, NEW k \in Legs, NEW l \in Legs, k # l
  PROVE venue[o][k].fill + venue[o][l].fill <= VenueFill(o)
<1> DEFINE v == [m \in Legs |-> venue[o][m].fill]
<1>1. v \in [Legs -> Nat]
  BY AmountAssumption DEF Base, PendingTypeOK, VenueLeg
<1>2. VenueFill(o) = Total(v) /\ v[l] = venue[o][l].fill /\ v[k] = venue[o][k].fill
  BY DEF VenueFill
<1> HIDE DEF v
<1>3. v[k] + v[l] <= Total(v)
  BY <1>1, LegsFinite, TotalTwo
<1>4. QED
  BY <1>2, <1>3

\* The fill that a dispatch stores is there at the venue.
LEMMA FinalFillThere ==
  ASSUME Base, ReadInv, NEW p \in Procs, worker[p].pc = "sent"
  PROVE FinalFill(p) <= VenueFill(worker[p].ord)
<1>1. PICK o \in Orders : o = worker[p].ord
  BY OnOrder
<1>2. PICK l \in Legs : l = worker[p].leg /\ CurrentLeg(p) = venue[o][l]
  BY <1>1, LegOfThread
<1>3. <<"lmt", 0>> \in Legs
  BY LegFacts
<1>4. /\ worker[p].lim <= venue[o][<<"lmt", 0>>].fill /\ (l = <<"lmt", 0>> => worker[p].lim = 0)
      /\ worker[p].got <= worker[p].lim + venue[o][l].fill
  BY <1>1, <1>2 DEF ReadInv, ReadOK, Early
<1>5. /\ venue[o][l].fill \in Nat /\ venue[o][l].fill <= VenueFill(o) /\ VenueFill(o) \in Nat
      /\ venue[o][<<"lmt", 0>>].fill \in Nat
  BY <1>3, LegFillCounts
<1>6. worker[p].lim \in Nat /\ worker[p].got \in Nat
  BY AmountAssumption DEF Base, PendingTypeOK, Thread
<1>7. worker[p].got <= VenueFill(o)
  <2>1. CASE l = <<"lmt", 0>>
    BY <1>4, <1>5, <1>6, <2>1
  <2>2. CASE l # <<"lmt", 0>>
    <3>1. venue[o][<<"lmt", 0>>].fill + venue[o][l].fill <= VenueFill(o)
      BY <1>3, <2>2, TwoLegsCount
    <3>2. QED
      BY <1>4, <1>5, <1>6, <3>1
  <2>3. QED
    BY <2>1, <2>2
<1>8. QED
  BY <1>1, <1>2, <1>5, <1>7 DEF FinalFill

\* One step of the bound: what the row accounts for is at the venue.
LEMMA StreamFillKeep ==
  ASSUME StreamBase, StreamBase', VenueGrows, StreamFillInv, faults \subseteq faults',
         Without({"audit"})' =>
           \A o \in Orders : StreamSlack(o) /\ (row'[o].filled <= row[o].filled \/ row'[o].filled <= VenueFill(o))
  PROVE StreamFillInv'
<1> SUFFICES ASSUME Without({"audit"})', NEW o \in Orders
             PROVE /\ row'[o].filled <= VenueFill(o)'
                   /\ traded'[o] + OwedTrades(o)' + ReportedTrades(o)' <= row'[o].filled
                   /\ applied'[o] + OwedPositions(o)' + ReportedPositions(o)' <= row'[o].filled
  BY DEF StreamFillInv
<1> USE DEF StreamBase, StreamCore
<1>1. /\ row[o].filled <= VenueFill(o)
      /\ traded[o] + OwedTrades(o) + ReportedTrades(o) <= row[o].filled
      /\ applied[o] + OwedPositions(o) + ReportedPositions(o) <= row[o].filled
  BY FaultsKept DEF StreamFillInv
<1>2. VenueFill(o) \in Nat /\ VenueFill(o)' \in Nat /\ VenueFill(o) <= VenueFill(o)'
  BY VenueFillGrows
<1>3. /\ OwedTrades(o) \in Nat /\ OwedPositions(o) \in Nat /\ OwedTrades(o)' \in Nat /\ OwedPositions(o)' \in Nat
      /\ traded[o] \in Nat /\ applied[o] \in Nat /\ row[o].filled \in Nat
      /\ traded'[o] \in Nat /\ applied'[o] \in Nat /\ row'[o].filled \in Nat
  BY SumsTyped, SumsTypedNext DEF Base, PendingTypeOK, Row
<1>4. /\ ReportedTrades(o) \in Nat /\ ReportedTrades(o)' \in Nat
      /\ ReportedPositions(o) \in Nat /\ ReportedPositions(o)' \in Nat
  BY ReportedTyped, ReportedAre DEF ProjectorInv
<1>5. StreamSlack(o) /\ (row'[o].filled <= row[o].filled \/ row'[o].filled <= VenueFill(o))
  OBVIOUS
<1>6. QED
  BY <1>1, <1>2, <1>3, <1>4, <1>5 DEF StreamSlack

\* A step of the queue, or a crash.
LEMMA CoreSlack ==
  ASSUME StreamBase, Paced, CoreNext, projector' \in [Streamers -> Projector],
         \A q \in Streamers : projector'[q] \in {projector[q], ProjectorIdle},
         Without({"audit"})', \A p \in Procs : ~Reconciling(p)', NEW o \in Orders
  PROVE StreamSlack(o)
<1> USE DEF StreamBase, StreamCore
<1>1. Without({"audit"}) /\ Base'
  BY CoreFaults, FaultsKept, BaseStep
<1>2. \A p \in Procs : ~Reconciling(p)
  BY <1>1 DEF NoSyncInv
<1>3. Slack(o)
  BY <1>2, SlackStep DEF Covered
<1>4. AheadTrades(o) = 0 /\ AheadPositions(o) = 0
  BY <1>2, TermZero, TermsTyped, TotalZero DEF AheadTrades, AheadPositions
<1>5. AheadTrades(o)' = 0 /\ AheadPositions(o)' = 0
  <2> DEFINE AT == [q \in Procs |-> AheadTrade(o, worker[q])']
             AP == [q \in Procs |-> AheadPosition(o, worker[q])']
  <2>1. AT \in [Procs -> Nat] /\ AP \in [Procs -> Nat] /\ \A q \in Procs : AT[q] = 0 /\ AP[q] = 0
    BY <1>1, TermTypeNext, TermZeroNext
  <2>2. AheadTrades(o)' = Total(AT) /\ AheadPositions(o)' = Total(AP)
    BY DEF AheadTrades, AheadPositions
  <2> HIDE DEF AT, AP
  <2>3. QED
    BY <2>1, <2>2, TotalZero
<1>6. ReportedTrades(o)' <= ReportedTrades(o) /\ ReportedPositions(o)' <= ReportedPositions(o)
  BY ReportedEnds, ReportedAre DEF ProjectorInv
<1>7. /\ OwedTrades(o) \in Nat /\ OwedPositions(o) \in Nat /\ OwedTrades(o)' \in Nat /\ OwedPositions(o)' \in Nat
      /\ traded[o] \in Nat /\ applied[o] \in Nat /\ row[o].filled \in Nat
      /\ traded'[o] \in Nat /\ applied'[o] \in Nat /\ row'[o].filled \in Nat
  BY <1>1, SumsTyped, SumsTypedNext DEF Base, PendingTypeOK, Row
<1>8. /\ ReportedTrades(o) \in Nat /\ ReportedTrades(o)' \in Nat
      /\ ReportedPositions(o) \in Nat /\ ReportedPositions(o)' \in Nat
  BY ReportedTyped, ReportedAre DEF ProjectorInv
<1>9. QED
  BY <1>3, <1>4, <1>5, <1>6, <1>7, <1>8 DEF Slack, StreamSlack

\* A step of a projector that writes no row.
LEMMA AsideSlack ==
  ASSUME StreamBase, StreamBase', Aside, NEW q \in Streamers,
         \A x \in Streamers \ {q} : projector'[x] = projector[x],
         \A o \in Orders :
           /\ traded[o] <= traded'[o]
           /\ traded'[o] + ReportedTrade(o, projector'[q]) <= traded[o] + ReportedTrade(o, projector[q])
           /\ applied'[o] + ReportedPosition(o, projector'[q]) <= applied[o] + ReportedPosition(o, projector[q])
  PROVE \A o \in Orders : StreamSlack(o) /\ row'[o].filled <= row[o].filled
<1> TAKE o \in Orders
<1> USE DEF StreamBase, StreamCore
<1>1. /\ projector \in [Streamers -> Projector] /\ projector' \in [Streamers -> Projector]
      /\ worker' = worker /\ row' = row
  BY DEF ProjectorInv, Aside
<1>2. /\ ReportedTrade(o, projector[q]) \in Nat /\ ReportedTrade(o, projector'[q]) \in Nat
      /\ ReportedPosition(o, projector[q]) \in Nat /\ ReportedPosition(o, projector'[q]) \in Nat
  BY <1>1 DEF ReportedTrade, ReportedPosition, Projector
<1>3. /\ traded[o] \in Nat /\ applied[o] \in Nat /\ row[o].filled \in Nat
      /\ traded'[o] \in Nat /\ applied'[o] \in Nat /\ row'[o].filled = row[o].filled
  BY <1>1 DEF Base, PendingTypeOK, Row
<1>4. /\ traded'[o] + ReportedTrade(o, projector'[q]) + row[o].filled
           <= traded[o] + ReportedTrade(o, projector[q]) + row'[o].filled
      /\ applied'[o] + ReportedPosition(o, projector'[q]) + row[o].filled
           <= applied[o] + ReportedPosition(o, projector[q]) + row'[o].filled
  BY <1>2, <1>3
<1>5. StreamSlack(o)
  BY <1>1, <1>4, ProjectorSlack
<1>6. QED
  BY <1>3, <1>5

LEMMA RowSlack ==
  ASSUME StreamBase, StreamBase', Cumulative, NEW q \in Streamers, NEW e \in Events, ProjectRow(q, e)
  PROVE \A o \in Orders : StreamSlack(o) /\ (row'[o].filled <= row[o].filled \/ row'[o].filled <= VenueFill(o))
<1> TAKE o \in Orders
<1> USE DEF StreamBase, StreamCore
<1>1. PICK t \in Nat : t = TargetFill(row[e[1]], e)
  BY ProjectRowStep
<1>2. /\ RowProjected(e[1]) /\ row[e[1]].leg = e[2] /\ row'[e[1]].filled = t
      /\ row[e[1]].filled \in Nat /\ row[e[1]].filled <= t
      /\ projector[q].pc = "idle" /\ projector'[q].ev = e
      /\ projector'[q].pc = IF t > row[e[1]].filled THEN "position" ELSE "fee"
      /\ projector'[q].delta = t - row[e[1]].filled
      /\ \A x \in Streamers \ {q} : projector'[x] = projector[x]
      /\ e[3] <= venue[e[1]][e[2]].fill
  BY <1>1, ProjectRowStep
<1>3. /\ UNCHANGED <<traded, applied, worker>>
      /\ projector \in [Streamers -> Projector] /\ projector' \in [Streamers -> Projector]
      /\ traded[o] \in Nat /\ applied[o] \in Nat /\ row[o].filled \in Nat
  BY <1>2 DEF RowProjected, ProjectorInv, Base, PendingTypeOK, Row
<1>4. ReportedTrade(o, projector[q]) = 0 /\ ReportedPosition(o, projector[q]) = 0
  BY <1>2, ReportedNone
<1>5. CASE o # e[1]
  <2>1. row'[o].filled = row[o].filled
    BY <1>2, <1>5 DEF RowProjected
  <2>2. ReportedTrade(o, projector'[q]) = 0 /\ ReportedPosition(o, projector'[q]) = 0
    BY <1>2, <1>5 DEF ReportedTrade, ReportedPosition
  <2>3. StreamSlack(o)
    BY <1>2, <1>3, <1>4, <2>1, <2>2, ProjectorSlack
  <2>4. QED
    BY <1>3, <2>1, <2>3
<1>6. CASE o = e[1]
  <2>1. /\ ReportedTrade(o, projector'[q]) = t - row[o].filled
        /\ ReportedPosition(o, projector'[q]) = t - row[o].filled
    BY <1>2, <1>6 DEF ReportedTrade, ReportedPosition
  <2>2. /\ traded'[o] + ReportedTrade(o, projector'[q]) + row[o].filled
             <= traded[o] + ReportedTrade(o, projector[q]) + row'[o].filled
        /\ applied'[o] + ReportedPosition(o, projector'[q]) + row[o].filled
             <= applied[o] + ReportedPosition(o, projector[q]) + row'[o].filled
        /\ traded[o] <= traded'[o]
    BY <1>2, <1>3, <1>4, <1>6, <2>1
  <2>3. StreamSlack(o)
    BY <1>2, <1>3, <2>2, ProjectorSlack
  <2>4. t = row[o].filled \/ t = e[3]
    BY <1>1, <1>6 DEF TargetFill, MaxOf
  <2>5. e[2] \in Legs /\ e[3] \in Nat
    BY EventParts
  <2>6. e[3] <= VenueFill(o)
    BY <1>2, <1>6, <2>5, LegFillCounts
  <2>7. QED
    BY <1>2, <1>3, <1>6, <2>3, <2>4, <2>6
<1>7. QED
  BY <1>5, <1>6

LEMMA PositionSlack ==
  ASSUME StreamBase, StreamBase', NEW q \in Streamers, ProjectPosition(q)
  PROVE \A o \in Orders : StreamSlack(o) /\ row'[o].filled <= row[o].filled
<1> USE DEF StreamBase, StreamCore
<1>1. PICK d \in Nat : d = projector[q].delta
  BY ProjectorFacts
<1>2. /\ Aside /\ ProjectorOn(q, "position", "trade") /\ UNCHANGED traded
      /\ applied'[projector[q].ev[1]] = applied[projector[q].ev[1]] + d
      /\ \A x \in Orders \ {projector[q].ev[1]} : applied'[x] = applied[x]
  BY <1>1, ProjectPositionStep
<1>3. ASSUME NEW o \in Orders
      PROVE /\ traded[o] <= traded'[o]
            /\ traded'[o] + ReportedTrade(o, projector'[q]) <= traded[o] + ReportedTrade(o, projector[q])
            /\ applied'[o] + ReportedPosition(o, projector'[q]) <= applied[o] + ReportedPosition(o, projector[q])
  <2>1. traded[o] \in Nat /\ applied[o] \in Nat
    BY DEF Base, PendingTypeOK
  <2>2. /\ ReportedTrade(o, projector'[q]) = ReportedTrade(o, projector[q])
        /\ ReportedTrade(o, projector[q]) \in {0, d}
        /\ ReportedPosition(o, projector'[q]) = 0
        /\ ReportedPosition(o, projector[q]) = IF projector[q].ev[1] = o THEN d ELSE 0
    BY <1>1, <1>2 DEF ReportedTrade, ReportedPosition, ProjectorOn
  <2>3. QED
    BY <1>2, <2>1, <2>2
<1>4. QED
  BY <1>2, <1>3, AsideSlack DEF ProjectorOn

LEMMA TradeSlack ==
  ASSUME StreamBase, StreamBase', NEW q \in Streamers, ProjectTrade(q)
  PROVE \A o \in Orders : StreamSlack(o) /\ row'[o].filled <= row[o].filled
<1> USE DEF StreamBase, StreamCore
<1>1. PICK d \in Nat : d = projector[q].delta
  BY ProjectorFacts
<1>2. /\ Aside /\ ProjectorOn(q, "trade", "mark") /\ UNCHANGED applied
      /\ traded'[projector[q].ev[1]] = traded[projector[q].ev[1]] + d
      /\ \A x \in Orders \ {projector[q].ev[1]} : traded'[x] = traded[x]
  BY <1>1, ProjectTradeStep
<1>3. ASSUME NEW o \in Orders
      PROVE /\ traded[o] <= traded'[o]
            /\ traded'[o] + ReportedTrade(o, projector'[q]) <= traded[o] + ReportedTrade(o, projector[q])
            /\ applied'[o] + ReportedPosition(o, projector'[q]) <= applied[o] + ReportedPosition(o, projector[q])
  <2>1. traded[o] \in Nat /\ applied[o] \in Nat
    BY DEF Base, PendingTypeOK
  <2>2. /\ ReportedTrade(o, projector'[q]) = 0 /\ ReportedPosition(o, projector'[q]) = 0
        /\ ReportedPosition(o, projector[q]) = 0
        /\ ReportedTrade(o, projector[q]) = IF projector[q].ev[1] = o THEN d ELSE 0
    BY <1>1, <1>2 DEF ReportedTrade, ReportedPosition, ProjectorOn
  <2>3. QED
    BY <1>2, <2>1, <2>2
<1>4. QED
  BY <1>2, <1>3, AsideSlack DEF ProjectorOn

\* The other steps of a projector record nothing.
LEMMA EndSlack ==
  ASSUME StreamBase, StreamBase', NEW q \in Streamers,
         ApplyLateFee(q) \/ NoLateFee(q) \/ LateFeeTooEarly(q) \/ ProjectFails(q) \/ MarkProcessed(q)
  PROVE \A o \in Orders : StreamSlack(o) /\ row'[o].filled <= row[o].filled
<1> USE DEF StreamBase, StreamCore
<1>1. /\ Aside /\ UNCHANGED <<traded, applied>> /\ projector'[q].pc \notin {"position", "trade"}
      /\ \A x \in Streamers \ {q} : projector'[x] = projector[x]
  <2>1. CASE ApplyLateFee(q) \/ NoLateFee(q)
    BY <2>1, LateFeeStep DEF ProjectorOn, vars, Aside, Base, PendingTypeOK
  <2>2. CASE LateFeeTooEarly(q) \/ ProjectFails(q) \/ MarkProcessed(q)
    BY <2>2, RestStep, IdleProjector DEF ProjectorRests
  <2>3. QED
    BY <2>1, <2>2
<1>2. ASSUME NEW o \in Orders
      PROVE /\ traded[o] <= traded'[o]
            /\ traded'[o] + ReportedTrade(o, projector'[q]) <= traded[o] + ReportedTrade(o, projector[q])
            /\ applied'[o] + ReportedPosition(o, projector'[q]) <= applied[o] + ReportedPosition(o, projector[q])
  <2>1. traded[o] \in Nat /\ applied[o] \in Nat /\ projector[q] \in Projector
    BY DEF Base, PendingTypeOK, ProjectorInv
  <2>2. /\ ReportedTrade(o, projector'[q]) = 0 /\ ReportedPosition(o, projector'[q]) = 0
    BY <1>1, ReportedNone
  <2>3. ReportedTrade(o, projector[q]) \in Nat /\ ReportedPosition(o, projector[q]) \in Nat
    BY <2>1 DEF ReportedTrade, ReportedPosition, Projector
  <2>4. QED
    BY <1>1, <2>1, <2>2, <2>3
<1>3. QED
  BY <1>1, <1>2, AsideSlack

\* Nothing that the bound speaks of changes.
LEMMA StreamFillStill ==
  ASSUME StreamFillInv, UNCHANGED vars, projector' = projector PROVE StreamFillInv'
<1>1. /\ \A o \in Orders : row'[o] = row[o] /\ traded'[o] = traded[o] /\ applied'[o] = applied[o]
                           /\ VenueFill(o)' = VenueFill(o)
                           /\ OwedTrades(o)' = OwedTrades(o) /\ OwedPositions(o)' = OwedPositions(o)
                           /\ ReportedTrades(o)' = ReportedTrades(o) /\ ReportedPositions(o)' = ReportedPositions(o)
  BY DEF vars, VenueFill, OwedTrades, OwedPositions, OwedTrade, OwedPosition, ReportedTrades, ReportedPositions
<1>2. Without({"audit"})' = Without({"audit"})
  BY DEF vars, Without
<1>3. QED
  BY <1>1, <1>2 DEF StreamFillInv

LEMMA StreamFillInit == StreamInit => StreamFillInv
<1> SUFFICES ASSUME StreamInit, NEW o \in Orders
             PROVE /\ row[o].filled <= VenueFill(o)
                   /\ traded[o] + OwedTrades(o) + ReportedTrades(o) <= row[o].filled
                   /\ applied[o] + OwedPositions(o) + ReportedPositions(o) <= row[o].filled
  BY DEF StreamFillInv
<1>1. StreamBase /\ Init
  BY StreamBaseInit DEF StreamInit
<1>2. Base /\ traded[o] = 0 /\ applied[o] = 0 /\ row[o].filled = 0
  BY <1>1, BaseInit DEF Init, NoRow
<1>3. \A p \in Procs : ~Late(p)
  BY <1>1, NullsTyped DEF Init, Late
<1>4. OwedTrades(o) = 0 /\ OwedPositions(o) = 0
  BY <1>2, <1>3, TermZero, TermsTyped, TotalZero DEF OwedTrades, OwedPositions
<1>5. ReportedTrades(o) = 0 /\ ReportedPositions(o) = 0
  <2>1. TradesOf(o, projector) \in [Streamers -> Nat] /\ PositionsOf(o, projector) \in [Streamers -> Nat]
    BY <1>1, ReportedTyped DEF StreamBase, StreamCore, ProjectorInv
  <2>2. \A q \in Streamers : TradesOf(o, projector)[q] = 0 /\ PositionsOf(o, projector)[q] = 0
    BY IdleProjector, ReportedNone DEF StreamInit, TradesOf, PositionsOf
  <2>3. QED
    BY <2>1, <2>2, TotalZero, ReportedAre
<1>6. VenueFill(o) \in Nat
  BY <1>2, LegFillCounts, LegFacts
<1>7. QED
  BY <1>2, <1>4, <1>5, <1>6

LEMMA StreamFillStep ==
  ASSUME StreamBase, Paced, Cumulative, StreamFillInv, StreamNext PROVE StreamFillInv'
<1> USE DEF StreamBase, StreamCore
<1>1. StreamBase'
  BY StreamBaseStep
<1>2. CASE QueueNext
  <2>1. CoreNext /\ UNCHANGED projector /\ VenueGrows /\ faults \subseteq faults'
    BY <1>2, QueueIsCore, CoreVenueGrows, CoreFaults DEF streamVars
  <2>2. ASSUME Without({"audit"})', NEW o \in Orders
        PROVE StreamSlack(o) /\ (row'[o].filled <= row[o].filled \/ row'[o].filled <= VenueFill(o))
    <3>1. \A p \in Procs : ~Reconciling(p) /\ ~Reconciling(p)'
      BY <1>1, <2>1, <2>2, FaultsKept DEF NoSyncInv
    <3>2. StreamSlack(o)
      BY <2>1, <2>2, <3>1, CoreSlack DEF ProjectorInv
    <3>3. row[o].filled \in Nat /\ row'[o].filled \in Nat
      BY <1>1 DEF Base, PendingTypeOK, Row
    <3>4. ASSUME NEW p \in Procs, MarkSent(p)
          PROVE row'[o].filled <= row[o].filled \/ row'[o].filled <= VenueFill(o)
      <4>1. CASE o # worker[p].ord
        BY <3>3, <3>4, <4>1, MarkSentStep
      <4>2. CASE o = worker[p].ord
        <5>1. /\ row'[o].filled = MaxOf(row[o].filled, FinalFill(p)) /\ FinalFill(p) <= VenueFill(o)
          BY <3>4, <4>2, MarkSentStep, FinalFillThere
        <5>2. QED
          BY <3>3, <5>1 DEF MaxOf
      <4>3. QED
        BY <4>1, <4>2
    <3>5. QED
      BY <1>2, <3>1, <3>2, <3>3, <3>4, NoSyncQueue
  <2>3. QED
    BY <1>1, <2>1, <2>2, StreamFillKeep
<1>3. ASSUME NEW p \in Procs, NEW o \in Orders, RestAudit(p, o) PROVE StreamFillInv'
  BY <1>3, AuditStep DEF StreamFillInv
<1>4. ASSUME NEW p \in Procs, ProcessCrash(p) PROVE StreamFillInv'
  <2>1. /\ CoreNext /\ VenueGrows /\ faults \subseteq faults' /\ row' = row
        /\ projector' \in [Streamers -> Projector]
        /\ \A q \in Streamers : projector'[q] \in {projector[q], ProjectorIdle}
    BY <1>4, CrashStep, CoreVenueGrows, CoreFaults DEF WorkerGone
  <2>2. ASSUME Without({"audit"})', NEW o \in Orders PROVE StreamSlack(o) /\ row'[o].filled <= row[o].filled
    <3>1. \A q \in Procs : ~Reconciling(q)'
      BY <1>1, <2>2 DEF NoSyncInv
    <3>2. row[o].filled \in Nat
      BY DEF Base, PendingTypeOK, Row
    <3>3. QED
      BY <2>1, <2>2, <3>1, <3>2, CoreSlack
  <2>3. QED
    BY <1>1, <2>1, <2>2, StreamFillKeep
<1>5. ASSUME NEW e \in Events, Ingest(e) \/ \E q \in Streamers : SkipProjected(q, e) \/ DropUnbound(q, e)
      PROVE StreamFillInv'
  BY <1>5, TableStep, StreamFillStill
<1>6. ASSUME NEW q \in Streamers, NEW e \in Events, ProjectRow(q, e) PROVE StreamFillInv'
  <2>1. VenueGrows /\ faults \subseteq faults'
    BY <1>6, ProjectRowStep, VenueSame DEF RowProjected
  <2>2. QED
    BY <1>1, <1>6, <2>1, RowSlack, StreamFillKeep
<1>7. ASSUME NEW q \in Streamers, ProjectorStep(q) PROVE StreamFillInv'
  <2>1. Aside
    BY <1>7, ProjectPositionStep, ProjectTradeStep, LateFeeStep, RestStep
       DEF ProjectorStep, vars, Aside, Base, PendingTypeOK
  <2>2. VenueGrows /\ faults \subseteq faults'
    BY <2>1, VenueSame DEF Aside
  <2>3. \A o \in Orders : StreamSlack(o) /\ row'[o].filled <= row[o].filled
    BY <1>1, <1>7, PositionSlack, TradeSlack, EndSlack DEF ProjectorStep
  <2>4. QED
    BY <1>1, <2>2, <2>3, StreamFillKeep
<1>8. QED
  BY <1>2, <1>3, <1>4, <1>5, <1>6, <1>7 DEF StreamNext, TakeEvent

LEMMA StreamBaseStutter == StreamBase /\ UNCHANGED allVars => StreamBase'
<1> SUFFICES ASSUME StreamBase, UNCHANGED allVars PROVE StreamBase'
  OBVIOUS
<1> USE DEF StreamBase, StreamCore, allVars, vars, streamVars
<1>1. Base'
  BY BaseStutter
<1>2. ClaimInv' /\ ReadInv' /\ NoSyncInv'
  BY DEF ClaimInv, ReadInv, ReadOK, NoSyncInv, Early, Late, Reconciling, Without
<1>3. ProjectorInv'
  BY DEF ProjectorInv
<1>4. QED
  BY <1>1, <1>2, <1>3

\* Where the venue's events carry cumulative quantities and no dispatch outlasts
\* the stale time, the dispatch and the event processors of any number of
\* processes record no unit twice, whatever order the events come in and whoever
\* dies, until REST audits a row (_project_pending_order, persist_strategy_fill).
THEOREM StreamRecordsOnce ==
  ASSUME Paced, Cumulative
  PROVE StreamSpec => []FillRecordedOnce
<1> DEFINE IInv == StreamBase /\ StreamFillInv
<1>1. StreamInit => IInv
  BY StreamBaseInit, StreamFillInit
<1>2. IInv /\ [StreamNext]_allVars => IInv'
  BY StreamBaseStep, StreamFillStep, StreamBaseStutter, StreamFillStill DEF allVars, streamVars
<1>3. IInv => FillRecordedOnce
  <2> SUFFICES ASSUME IInv, Without({"syncCrash", "audit"}), NEW o \in Orders
               PROVE traded[o] <= VenueFill(o) /\ applied[o] <= VenueFill(o)
    BY DEF FillRecordedOnce, NoDuplicateFill
  <2>1. /\ row[o].filled <= VenueFill(o)
        /\ traded[o] + OwedTrades(o) + ReportedTrades(o) <= row[o].filled
        /\ applied[o] + OwedPositions(o) + ReportedPositions(o) <= row[o].filled
    BY DEF StreamFillInv, Without
  <2>2. /\ OwedTrades(o) \in Nat /\ OwedPositions(o) \in Nat /\ ReportedTrades(o) \in Nat
        /\ ReportedPositions(o) \in Nat /\ traded[o] \in Nat /\ applied[o] \in Nat /\ row[o].filled \in Nat
    BY SumsTyped, ReportedTyped, ReportedAre DEF StreamBase, StreamCore, ProjectorInv, Base, PendingTypeOK, Row
  <2>3. VenueFill(o) \in Nat
    BY LegFillCounts, LegFacts DEF StreamBase, StreamCore
  <2>4. QED
    BY <2>1, <2>2, <2>3
<1>4. QED
  BY <1>1, <1>2, <1>3, PTL DEF StreamSpec

-----------------------------------------------------------------------------
(* The fees of the events *)

OneStreamer == \A p, q \in Streamers : p = q

\* Before an audit the quantity of a row only grows.
LEMMA FilledGrows ==
  ASSUME StreamCore, StreamNext, Without({"audit"})', NEW o \in Orders
  PROVE row[o].filled \in Nat /\ row'[o].filled \in Nat /\ row[o].filled <= row'[o].filled
<1> USE DEF StreamCore
<1>1. row[o].filled \in Nat /\ row'[o].filled \in Nat
  BY StreamCoreStep DEF Base, PendingTypeOK, Row
<1>2. CASE QueueNext
  <2>1. \A p \in Procs : ~Reconciling(p)
    BY <1>2, QueueIsCore, CoreFaults, FaultsKept DEF NoSyncInv
  <2>2. ASSUME NEW p \in Procs, MarkSent(p) PROVE row[o].filled <= row'[o].filled
    <3>1. CASE o # worker[p].ord
      BY <1>1, <2>2, <3>1, MarkSentStep
    <3>2. CASE o = worker[p].ord
      BY <1>1, <2>2, <3>2, MarkSentStep DEF MaxOf
    <3>3. QED
      BY <3>1, <3>2
  <2>3. QED
    BY <1>1, <1>2, <2>1, <2>2, NoSyncQueue
<1>3. ASSUME NEW p \in Procs, NEW x \in Orders, RestAudit(p, x) PROVE FALSE
  BY <1>3, AuditStep
<1>4. ASSUME NEW p \in Procs, ProcessCrash(p) PROVE row' = row
  BY <1>4 DEF ProcessCrash
<1>5. ASSUME NEW q \in Streamers, NEW e \in Events, ProjectRow(q, e) PROVE row[o].filled <= row'[o].filled
  <2>1. /\ RowProjected(e[1]) /\ row[e[1]].filled <= TargetFill(row[e[1]], e)
        /\ row'[e[1]].filled = TargetFill(row[e[1]], e)
    BY <1>5, ProjectRowStep
  <2>2. QED
    BY <1>1, <2>1 DEF RowProjected
<1>6. ASSUME NEW q \in Streamers, ProjectorStep(q) PROVE row' = row
  BY <1>6 DEF ProjectorStep, ProjectPosition, ProjectTrade, ApplyLateFee, NoLateFee, LateFeeTooEarly,
     ProjectFails, MarkProcessed, vars
<1>7. ASSUME NEW e \in Events, Ingest(e) \/ \E q \in Streamers : SkipProjected(q, e) \/ DropUnbound(q, e)
      PROVE row' = row
  BY <1>7, TableStep DEF vars
<1>8. QED
  BY <1>1, <1>2, <1>3, <1>4, <1>5, <1>6, <1>7 DEF StreamNext, TakeEvent

\* What the invariant says of an event, and of a projector.
FeeOK(e) ==
  /\ feesAdded[e] <= 1
  /\ e \notin tradedBy /\ e \notin feeBy => feesAdded[e] = 0
  /\ e \in feeBy => Cumulative /\ row[e[1]].filled >= e[3]

ProjectorOK(q) ==
  /\ projector[q].pc \in {"position", "trade", "fee"} => projector[q].ev \notin tradedBy
  /\ projector[q].pc \in {"position", "trade"} => projector[q].ev \notin feeBy
  /\ projector[q].pc = "fee" => Cumulative /\ row[projector[q].ev[1]].filled >= projector[q].ev[3]

LEMMA FeeParts ==
  /\ FeeInv <=> (Without({"audit"}) => (\A e \in Events : FeeOK(e)) /\ (\A q \in Streamers : ProjectorOK(q)))
  /\ FeeInv' <=> (Without({"audit"})' => (\A e \in Events : FeeOK(e)') /\ (\A q \in Streamers : ProjectorOK(q)'))
BY DEF FeeInv, FeeOK, ProjectorOK

\* The parts survive while quantities grow and no fee or trade is added.
LEMMA FeeFrame ==
  ASSUME StreamCore, StreamCore', \A o \in Orders : row[o].filled <= row'[o].filled,
         NEW e \in Events, FeeOK(e), feesAdded'[e] = feesAdded[e],
         e \in tradedBy => e \in tradedBy', e \in feeBy <=> e \in feeBy'
  PROVE FeeOK(e)'
<1>1. e[1] \in Orders /\ e[3] \in Nat /\ row[e[1]].filled \in Nat /\ row'[e[1]].filled \in Nat
  BY EventParts DEF StreamCore, Base, PendingTypeOK, Row
<1>2. QED
  BY <1>1 DEF FeeOK

LEMMA ProjectorKept ==
  ASSUME StreamCore, StreamCore', \A o \in Orders : row[o].filled <= row'[o].filled,
         UNCHANGED <<tradedBy, feeBy>>, NEW q \in Streamers, ProjectorOK(q),
         \/ projector'[q].pc \in {"idle", "mark"}
         \/ projector'[q] = projector[q]
         \/ /\ projector[q].pc = "position" /\ projector'[q].pc = "trade"
            /\ projector'[q].ev = projector[q].ev
  PROVE ProjectorOK(q)'
<1>1. CASE projector'[q].pc \in {"idle", "mark"}
  BY <1>1 DEF ProjectorOK
<1>2. CASE projector'[q] = projector[q]
  <2>1. CASE projector[q].pc = "idle"
    BY <1>2, <2>1 DEF ProjectorOK
  <2>2. CASE projector[q].pc # "idle"
    <3>1. projector[q].ev \in Events
      BY <2>2, ProjectorFacts DEF StreamCore
    <3>2. /\ projector[q].ev[1] \in Orders /\ projector[q].ev[3] \in Nat
          /\ row[projector[q].ev[1]].filled \in Nat /\ row'[projector[q].ev[1]].filled \in Nat
      BY <3>1, EventParts DEF StreamCore, Base, PendingTypeOK, Row
    <3>3. QED
      BY <1>2, <3>2 DEF ProjectorOK
  <2>3. QED
    BY <2>1, <2>2
<1>3. CASE /\ projector[q].pc = "position" /\ projector'[q].pc = "trade"
           /\ projector'[q].ev = projector[q].ev
  BY <1>3 DEF ProjectorOK
<1>4. QED
  BY <1>1, <1>2, <1>3

LEMMA FeeRow ==
  ASSUME StreamCore, StreamCore', NEW q \in Streamers, NEW e \in Events, ProjectRow(q, e), FeeOK(e)
  PROVE ProjectorOK(q)'
<1>1. PICK o \in Orders : o = e[1]
  BY EventParts
<1>2. PICK t \in Nat : t = TargetFill(row[o], e)
  BY <1>1, ProjectRowStep DEF StreamCore
<1>3. /\ row'[o].filled = t /\ row[o].filled \in Nat /\ row[o].filled <= t /\ projector'[q].ev = e
      /\ projector'[q].pc = IF t > row[o].filled THEN "position" ELSE "fee"
      /\ UNCHANGED <<tradedBy, feeBy>> /\ e \notin tradedBy /\ e[3] \in Nat
  BY <1>1, <1>2, ProjectRowStep, EventParts DEF StreamCore
<1>4. CASE t > row[o].filled
  <2>1. e \notin feeBy
    BY <1>1, <1>2, <1>3, <1>4 DEF FeeOK, TargetFill, MaxOf
  <2>2. QED
    BY <1>3, <1>4, <2>1 DEF ProjectorOK
<1>5. CASE ~(t > row[o].filled)
  <2>1. Cumulative /\ row'[o].filled >= e[3]
    BY <1>2, <1>3, <1>5 DEF TargetFill, MaxOf
  <2>2. QED
    BY <1>1, <1>3, <1>5, <2>1 DEF ProjectorOK
<1>6. QED
  BY <1>4, <1>5

LEMMA FeeStep ==
  ASSUME StreamCore, OneStreamer, FeeInv, StreamNext PROVE FeeInv'
<1>1. StreamCore'
  BY StreamCoreStep
<1> SUFFICES ASSUME Without({"audit"})' PROVE (\A x \in Events : FeeOK(x)') /\ (\A q \in Streamers : ProjectorOK(q)')
  BY FeeParts
<1>2. \A o \in Orders : row[o].filled <= row'[o].filled
  BY FilledGrows
<1> USE DEF StreamCore
<1>3. faults \subseteq faults'
  BY StreamSteps, CoreFaults DEF RowProjected, Aside
<1>4. (\A x \in Events : FeeOK(x)) /\ (\A q \in Streamers : ProjectorOK(q))
  BY <1>3, FaultsKept, FeeParts
<1> DEFINE Kept == (\A x \in Events : FeeOK(x)') /\ (\A q \in Streamers : ProjectorOK(q)')
<1>5. CASE QueueNext
  <2>1. UNCHANGED streamVars
    BY <1>5, QueueIsCore
  <2>2. QED
    BY <1>1, <1>2, <1>4, <2>1, FeeFrame, ProjectorKept DEF streamVars
<1>6. ASSUME NEW p \in Procs, NEW o \in Orders, RestAudit(p, o) PROVE Kept
  BY <1>6, AuditStep
<1>7. ASSUME NEW p \in Procs, ProcessCrash(p) PROVE Kept
  BY <1>1, <1>2, <1>4, <1>7, CrashStep, IdleProjector, FeeFrame, ProjectorKept
<1>8. ASSUME NEW e \in Events, Ingest(e) \/ \E q \in Streamers : SkipProjected(q, e) \/ DropUnbound(q, e)
      PROVE Kept
  BY <1>1, <1>2, <1>4, <1>8, TableStep, FeeFrame, ProjectorKept
<1>9. ASSUME NEW q \in Streamers, NEW e \in Events, ProjectRow(q, e) PROVE Kept
  <2>1. UNCHANGED <<tradedBy, feeBy, feesAdded>> /\ \A x \in Streamers \ {q} : projector'[x] = projector[x]
    BY <1>9, ProjectRowStep
  <2>2. QED
    BY <1>1, <1>2, <1>4, <1>9, <2>1, FeeRow, FeeFrame, ProjectorKept
<1>10. ASSUME NEW q \in Streamers, ProjectPosition(q) PROVE Kept
  BY <1>1, <1>2, <1>4, <1>10, ProjectPositionStep, FeeFrame, ProjectorKept DEF ProjectorOn
<1>11. ASSUME NEW q \in Streamers, ProjectTrade(q) PROVE Kept
  <2>1. PICK e \in Events : e = projector[q].ev
    BY <1>11, ProjectTradeStep
  <2>2. /\ projector[q].pc = "trade" /\ projector'[q].pc = "mark" /\ UNCHANGED <<row, feeBy>>
        /\ tradedBy' = tradedBy \cup {e} /\ feesAdded'[e] = feesAdded[e] + 1 /\ e \notin tradedBy
        /\ \A x \in Events \ {e} : feesAdded'[x] = feesAdded[x]
    BY <1>11, <2>1, ProjectTradeStep DEF ProjectorOn, Aside
  <2>3. e \notin feeBy /\ feesAdded[e] = 0
    BY <1>4, <2>1, <2>2 DEF ProjectorOK, FeeOK
  <2>4. FeeOK(e)'
    BY <2>2, <2>3 DEF FeeOK
  <2>5. ProjectorOK(q)'
    BY <2>2 DEF ProjectorOK
  <2>6. QED
    BY <1>1, <1>2, <1>4, <2>2, <2>4, <2>5, FeeFrame DEF OneStreamer
<1>12. ASSUME NEW q \in Streamers, ApplyLateFee(q) \/ NoLateFee(q) PROVE Kept
  <2>1. PICK e \in Events : e = projector[q].ev
    BY <1>12, LateFeeStep
  <2>2. /\ projector[q].pc = "fee" /\ projector'[q].pc = "mark" /\ UNCHANGED tradedBy /\ row' = row
        /\ \/ UNCHANGED <<feeBy, feesAdded>>
           \/ /\ feeBy' = feeBy \cup {e} /\ feesAdded' \in [Events -> Nat]
              /\ feesAdded'[e] = feesAdded[e] \/ (e \notin feeBy /\ feesAdded'[e] = feesAdded[e] + 1)
              /\ \A x \in Events \ {e} : feesAdded'[x] = feesAdded[x]
    BY <1>12, <2>1, LateFeeStep DEF ProjectorOn, vars
  <2>3. e \notin tradedBy /\ Cumulative /\ row[e[1]].filled >= e[3]
    BY <1>4, <2>1, <2>2 DEF ProjectorOK
  <2>4. ProjectorOK(q)'
    BY <2>2 DEF ProjectorOK
  <2>5. CASE UNCHANGED <<feeBy, feesAdded>>
    BY <1>1, <1>2, <1>4, <2>2, <2>4, <2>5, FeeFrame DEF OneStreamer
  <2>6. CASE /\ feeBy' = feeBy \cup {e}
             /\ feesAdded'[e] = feesAdded[e] \/ (e \notin feeBy /\ feesAdded'[e] = feesAdded[e] + 1)
             /\ \A x \in Events \ {e} : feesAdded'[x] = feesAdded[x]
    <3>1. FeeOK(e)'
      BY <1>4, <2>2, <2>3, <2>6 DEF FeeOK
    <3>2. QED
      BY <1>1, <1>2, <1>4, <2>2, <2>4, <2>6, <3>1, FeeFrame DEF OneStreamer
  <2>7. QED
    BY <2>2, <2>5, <2>6
<1>13. ASSUME NEW q \in Streamers, LateFeeTooEarly(q) \/ ProjectFails(q) \/ MarkProcessed(q) PROVE Kept
  BY <1>1, <1>2, <1>4, <1>13, RestStep, IdleProjector, FeeFrame, ProjectorKept DEF ProjectorRests
<1>14. QED
  BY <1>5, <1>6, <1>7, <1>8, <1>9, <1>10, <1>11, <1>12, <1>13 DEF StreamNext, TakeEvent, ProjectorStep

LEMMA StreamCoreStutter == StreamCore /\ UNCHANGED allVars => StreamCore'
<1> SUFFICES ASSUME StreamCore, UNCHANGED allVars PROVE StreamCore'
  OBVIOUS
<1> USE DEF StreamCore, allVars, vars, streamVars
<1>1. Base'
  BY BaseStutter
<1>2. NoSyncInv' /\ ProjectorInv'
  BY DEF NoSyncInv, ProjectorInv, Reconciling, Without
<1>3. QED
  BY <1>1, <1>2

\* However slow a dispatch is, whatever order the events come in and wherever
\* the process dies, its event processor adds the fee of an event to the trades
\* at most once, until REST audits a row (_already_projected, _apply_late_fee).
THEOREM FeesCountOnce ==
  ASSUME OneStreamer
  PROVE StreamSpec => [](Without({"audit"}) => FeeCountedOnce)
<1> DEFINE IInv == StreamCore /\ FeeInv
<1>1. StreamInit => IInv
  BY StreamBaseInit, IdleProjector DEF StreamBase, StreamInit, FeeInv
<1>2. IInv /\ [StreamNext]_allVars => IInv'
  <2> SUFFICES ASSUME IInv, [StreamNext]_allVars PROVE IInv'
    OBVIOUS
  <2>1. CASE StreamNext
    BY <2>1, StreamCoreStep, FeeStep
  <2>2. CASE UNCHANGED allVars
    <3>1. FeeInv'
      BY <2>2 DEF FeeInv, Without, allVars, streamVars, vars
    <3>2. QED
      BY <2>2, <3>1, StreamCoreStutter
  <2>3. QED
    BY <2>1, <2>2
<1>3. IInv => (Without({"audit"}) => FeeCountedOnce)
  BY DEF FeeInv, FeeCountedOnce
<1>4. QED
  BY <1>1, <1>2, <1>3, PTL DEF StreamSpec

\* The streams do not get an order to the venue twice either, however slow a
\* dispatch is (client order ids, _claim_pending_order).
THEOREM StreamNeverPlacesTwice == StreamSpec => [](PendingTypeOK /\ PlacedOnce)
<1>1. StreamInit => StreamCore
  BY StreamBaseInit DEF StreamBase
<1>2. StreamCore /\ [StreamNext]_allVars => StreamCore'
  BY StreamCoreStep, StreamCoreStutter
<1>3. StreamCore => PendingTypeOK /\ PlacedOnce
  BY LegInvPlacedOnce DEF StreamCore, Base
<1>4. QED
  BY <1>1, <1>2, <1>3, PTL DEF StreamSpec

-----------------------------------------------------------------------------
(* The lane and the rows that are settled *)

NoAudit == "audit" \notin faults

\* The leg of a sync is the leg of its row.
LEMMA SyncLeg ==
  ASSUME Base, ClaimInv, TrackInv, NoAudit, NEW p \in Procs, Reconciling(p)
  PROVE /\ worker[p].ord \in Orders /\ worker[p].leg \in Legs /\ worker[p].leg = row[worker[p].ord].leg
        /\ row[worker[p].ord].st = "syncing" /\ row[worker[p].ord].filled = worker[p].prev
<1>1. worker[p].ord \in Orders
  BY Stages, OnOrder
<1>2. Without({"audit"})
  BY DEF NoAudit, Without
<1>3. worker[p].leg = row[worker[p].ord].leg /\ row[worker[p].ord].leg # NoLeg
      /\ row[worker[p].ord].st = "syncing" /\ row[worker[p].ord].filled = worker[p].prev
  BY <1>2 DEF TrackInv, SyncOK, ClaimInv
<1>4. QED
  BY <1>1, <1>3 DEF Base, PendingTypeOK, Row

\* No leg is placed for o.
NonePlaced(o) == \A l \in Legs : venue[o][l].st = "none" => venue'[o][l].st = "none"

LEMMA NonePlacedSame == ASSUME NEW o \in Orders, venue' = venue PROVE NonePlaced(o)
BY DEF NonePlaced

LEMMA AnswerFrame ==
  ASSUME Base, ClaimInv, TrackInv, NoAudit, VenueGrows, NEW q \in Procs, AnswerOK(q),
         worker'[q] = worker[q], Early(q) => NonePlaced(worker[q].ord)
  PROVE AnswerOK(q)'
<1>1. Early(q)' = Early(q) /\ Reconciling(q)' = Reconciling(q)
  BY StageFrame
<1>2. worker[q].pc = "sent" => worker[q].leg \in Legs /\ worker[q].ord \in Orders
  BY LegOfThread, OnOrder
<1>3. Reconciling(q) => worker[q].leg \in Legs /\ worker[q].ord \in Orders
  BY SyncLeg
<1>4. Early(q)' => \A l \in Legs \ {worker'[q].leg} : venue'[worker'[q].ord][l].st = "none"
  BY <1>1 DEF AnswerOK, NonePlaced
<1>5. worker[q].pc = "sent" /\ worker[q].vst \in {"filled", "cancelled"} =>
        venue'[worker[q].ord][worker[q].leg] = venue[worker[q].ord][worker[q].leg]
  BY <1>2 DEF AnswerOK, VenueGrows
<1>6. Reconciling(q) /\ worker[q].pc # "query" /\ worker[q].vst \in {"filled", "cancelled"} =>
        venue'[worker[q].ord][worker[q].leg] = venue[worker[q].ord][worker[q].leg]
  BY <1>3 DEF AnswerOK, VenueGrows
<1>7. QED
  BY <1>1, <1>4, <1>5, <1>6 DEF AnswerOK

LEMMA OneLegFrame ==
  ASSUME Base, VenueGrows, NEW o \in Orders, OneLegOK(o), row'[o] = row[o], NonePlaced(o),
         row[o].st = "processing" =>
           \A p \in Procs : Early(p) /\ worker[p].ord = o => Early(p)' /\ worker'[p].ord = o
  PROVE OneLegOK(o)'
<1>1. row[o].st \in {"filled", "cancelled"} => venue'[o][row[o].leg].st # "open"
  <2> SUFFICES ASSUME row[o].st \in {"filled", "cancelled"} PROVE venue'[o][row[o].leg].st # "open"
    OBVIOUS
  <2>1. PICK l \in Legs : l = row[o].leg /\ venue[o][l].st # "open"
    BY DEF OneLegOK, Base, PendingTypeOK, Row
  <2>2. QED
    BY <2>1 DEF VenueGrows, NonePlaced
<1>2. QED
  BY <1>1 DEF OneLegOK, NonePlaced

\* The invariant without its premise.
Over == (\A o \in Orders : OneLegOK(o)) /\ (\A p \in Procs : AnswerOK(p))

\* Worker p moves on order o, which no one else is on if a leg is placed.
LEMMA OverFrame ==
  ASSUME Base, ClaimInv, TrackInv, NoAudit, Over, VenueGrows, NEW p \in Procs, NEW o \in Orders,
         \A q \in Procs \ {p} : worker'[q] = worker[q], worker[p].ord \in {o, NoOrder},
         \A x \in Orders \ {o} : row'[x] = row[x] /\ NonePlaced(x),
         (\A q \in Procs \ {p} : worker[q].ord # o) \/ NonePlaced(o),
         OneLegOK(o)', AnswerOK(p)'
  PROVE Over'
<1>1. ASSUME NEW x \in Orders \ {o} PROVE OneLegOK(x)'
  <2>1. \A q \in Procs : Early(q) /\ worker[q].ord = x => Early(q)' /\ worker'[q].ord = x
    BY StageFrame, OrdersAssumption
  <2>2. QED
    BY <2>1, OneLegFrame DEF Over
<1>2. ASSUME NEW q \in Procs \ {p} PROVE AnswerOK(q)'
  <2>1. Early(q) => worker[q].ord \in Orders
    BY Stages, OnOrder
  <2>2. Early(q) => NonePlaced(worker[q].ord)
    BY <2>1
  <2>3. QED
    BY <2>2, AnswerFrame DEF Over
<1>3. QED
  BY <1>1, <1>2 DEF Over

\* A worker that is not on an order and asks nothing.
LEMMA AnswerRest ==
  ASSUME NEW p \in Procs, worker'[p].pc \notin {"dispatch", "wait", "cancel", "market", "sent"},
         worker'[p].pc = "query" \/ ~Reconciling(p)'
  PROVE AnswerOK(p)'
BY DEF AnswerOK, Early

LEMMA AnswerLeft == ASSUME NEW p \in Procs, Leaves(p) PROVE AnswerOK(p)'
BY AnswerRest, GoneOther, NullsTyped DEF Leaves

\* The venue, the session and the queue.
LEMMA OverQueue ==
  ASSUME Base, ClaimInv, TrackInv, NoAudit, Over, Paced, NEW o \in Orders,
         Submit(o) \/ RequeueProcessing(o) \/ RequeueSyncing(o)
  PROVE Over'
<1>1. worker' = worker /\ venue' = venue /\ VenueGrows
  BY VenueSame DEF Submit, RequeueProcessing, RequeueSyncing
<1>2. \A q \in Procs : AnswerOK(q)'
  <2> TAKE q \in Procs
  <2>1. Early(q) => NonePlaced(worker[q].ord)
    BY <1>1 DEF NonePlaced
  <2>2. QED
    BY <1>1, <2>1, AnswerFrame DEF Over
<1>3. OneLegOK(o)' /\ \A x \in Orders \ {o} : row'[x] = row[x]
  <2>1. CASE Submit(o)
    <3>1. PICK a \in Algos : SetRow(o, [NoRow EXCEPT !.st = "pending", !.algo = a])
      BY <2>1 DEF Submit
    <3>2. row[o] = NoRow /\ row[o].algo = "none"
      BY <2>1, NullsTyped DEF Submit, Base, LegInv
    <3>3. \A l \in Legs : venue[o][l].st = "none"
      BY <3>2, LegsOfKind DEF Base, LegInv
    <3>4. row'[o].st = "pending" /\ row'[o].leg = NoLeg /\ \A x \in Orders \ {o} : row'[x] = row[x]
      BY <3>1, NullsTyped DEF SetRow, Base, PendingTypeOK, Row
    <3>5. QED
      BY <1>1, <3>3, <3>4 DEF OneLegOK
  <2>2. CASE RequeueProcessing(o)
    <3>1. \A p \in Procs : worker[p].ord # o
      BY <2>2, StaleFree DEF RequeueProcessing
    <3>2. QED
      BY <2>2, <3>1 DEF RequeueProcessing, Over, OneLegOK
  <2>3. CASE RequeueSyncing(o)
    <3>1. row'[o].st = "sent" /\ row'[o].leg = row[o].leg /\ \A x \in Orders \ {o} : row'[x] = row[x]
      BY <2>3, StatusSet DEF RequeueSyncing, Statuses
    <3>2. QED
      BY <1>1, <3>1 DEF Over, OneLegOK
  <2>4. QED
    BY <2>1, <2>2, <2>3
<1>4. ASSUME NEW x \in Orders \ {o} PROVE OneLegOK(x)'
  <2>1. \A q \in Procs : Early(q) /\ worker[q].ord = x => Early(q)' /\ worker'[q].ord = x
    BY <1>1, StageFrame
  <2>2. QED
    BY <1>1, <1>3, <2>1, OneLegFrame, NonePlacedSame DEF Over
<1>5. QED
  BY <1>2, <1>3, <1>4 DEF Over

LEMMA OverVenue ==
  ASSUME Base, ClaimInv, TrackInv, NoAudit, Over, NEW o \in Orders, NEW l \in Legs,
         VenueFills(o, l) \/ VenueCancels(o, l)
  PROVE Over'
<1>1. worker' = worker /\ row' = row /\ VenueGrows
  BY VenueStep
<1>2. \A x \in Orders : NonePlaced(x)
  BY VenueStep DEF NonePlaced
<1>3. ASSUME NEW q \in Procs PROVE AnswerOK(q)'
  <2>1. Early(q) => NonePlaced(worker[q].ord)
    BY <1>2, Stages, OnOrder
  <2>2. QED
    BY <1>1, <2>1, AnswerFrame DEF Over
<1>4. ASSUME NEW x \in Orders PROVE OneLegOK(x)'
  <2>1. \A q \in Procs : Early(q) /\ worker[q].ord = x => Early(q)' /\ worker'[q].ord = x
    BY <1>1, StageFrame
  <2>2. QED
    BY <1>1, <1>2, <2>1, OneLegFrame DEF Over
<1>5. QED
  BY <1>3, <1>4 DEF Over

LEMMA OverClaims ==
  ASSUME Base, ClaimInv, TrackInv, NoAudit, Over, NEW p \in Procs, NEW o \in Orders,
         Claim(p, o) \/ SentClaimed(p, o)
  PROVE Over'
<1>1. CASE Claim(p, o)
  <2>1. worker[p].ord = NoOrder /\ venue' = venue /\ VenueGrows /\ NonePlaced(o)
        /\ \A x \in Orders \ {o} : row'[x] = row[x] /\ NonePlaced(x)
    BY <1>1, ClaimStep, Stages, VenueSame, NonePlacedSame
  <2>2. row'[o].st = "processing" /\ row'[o].leg = NoLeg
    BY <1>1, ClaimStep DEF ClaimInv
  <2>3. Early(p)' /\ worker'[p].ord = o /\ worker'[p].pc = "dispatch" /\ worker'[p].leg = NoLeg
        /\ ~Reconciling(p)'
    BY <1>1, ClaimStep DEF Early, Reconciling
  <2>4. worker'[p].vst = "none"
    BY <1>1 DEF Claim, SetWorker, Idle, Base, PendingTypeOK
  <2>5. \A l \in Legs : venue'[o][l].st = "none"
    BY <1>1, <2>1, ClaimStep DEF Over, OneLegOK
  <2>6. OneLegOK(o)' /\ AnswerOK(p)'
    BY <2>2, <2>3, <2>4, <2>5 DEF OneLegOK, AnswerOK
  <2>7. QED
    BY <1>1, <2>1, <2>6, ClaimStep, OverFrame
<1>2. CASE SentClaimed(p, o)
  <2>1. worker[p].ord = NoOrder /\ venue' = venue /\ VenueGrows /\ NonePlaced(o)
        /\ \A x \in Orders \ {o} : row'[x] = row[x] /\ NonePlaced(x)
    BY <1>2, SentClaimStep, Stages, VenueSame, NonePlacedSame
  <2>2. OneLegOK(o)'
    BY <1>2, <2>1, SentClaimStep DEF Over, OneLegOK
  <2>3. AnswerOK(p)'
    BY <1>2, SentClaimStep, AnswerRest
  <2>4. QED
    BY <1>2, <2>1, <2>2, <2>3, SentClaimStep, OverFrame
<1>3. QED
  BY <1>1, <1>2

\* Without maker orders a worker places one leg, with nothing before it.
LEMMA PlainWorker ==
  ASSUME Base, NoMaker, NEW p \in Procs
  PROVE /\ worker[p].pc \notin {"cancel", "market"} /\ ~WaitLimit(p) /\ ~CancelLimit(p)
        /\ worker[p].pc # "idle" => worker[p].lim = 0 /\ worker[p].mkt = -1
<1>1. worker[p] \in Thread /\ ThreadOK(worker[p])
  BY DEF Base, PendingTypeOK, ThreadInv
<1>2. worker[p].pc # "idle" => worker[p].ord \in Orders /\ row[worker[p].ord].algo \in AlgoKinds \ {"maker"}
  BY OnOrder DEF NoMaker
<1>3. worker[p].pc \notin {"cancel", "market"}
  BY <1>1, <1>2 DEF ThreadOK
<1>4. worker[p].pc # "idle" => worker[p].lim = 0 /\ worker[p].mkt = -1
  <2>1. worker[p].lim \in Nat /\ worker[p].mkt \in Nat \cup {-1}
    BY <1>1, AmountAssumption DEF Thread
  <2>2. worker[p].pc # "idle" => ~(worker[p].lim > 0) /\ ~(worker[p].mkt >= 0)
    BY <1>1, <1>2 DEF ThreadOK
  <2>3. QED
    BY <2>1, <2>2
<1>5. ~WaitLimit(p)
  <2> SUFFICES ASSUME WaitLimit(p) PROVE FALSE
    OBVIOUS
  <2>1. worker[p].pc = "wait" /\ worker[p].leg = <<"lmt", 0>>
    BY DEF WaitLimit
  <2>2. row[worker[p].ord].algo # "limit" /\ <<"lmt", 0>> \in LegsOf(row[worker[p].ord].algo)
    BY <1>1, <2>1, LegOfThread DEF ThreadOK
  <2>3. QED
    BY <1>2, <2>1, <2>2, LegsOfKind DEF AlgoKinds
<1>6. QED
  BY <1>3, <1>4, <1>5 DEF CancelLimit

\* A fill that is final is all that the leg will fill.
LEMMA FinalIsOver ==
  ASSUME NEW v \in VenueLeg, v.st = "open" => v.fill < v.qty, NEW f \in Nat, f <= v.fill, NEW st,
         st \in {"filled", "cancelled"} => v.st = st /\ v.fill = f, IsFinalFill(f, st) \/ st = "cancelled"
  PROVE v.st # "open" /\ v.fill = f
<1>1. v.fill \in 0 .. Amount /\ v.qty \in 0 .. Amount
  BY DEF VenueLeg
<1>2. CASE st \in {"filled", "cancelled"}
  BY <1>2
<1>3. CASE f >= Amount
  BY <1>1, <1>3, AmountAssumption
<1>4. QED
  BY <1>2, <1>3 DEF IsFinalFill

\* The result that a dispatch stores.
LEMMA SentResult ==
  ASSUME Base, ClaimInv, ReadInv, NoMaker, NEW p \in Procs, AnswerOK(p), MarkSent(p)
  PROVE /\ worker[p].ord \in Orders /\ worker[p].leg \in Legs /\ Early(p)
        /\ row[worker[p].ord].st = "processing" /\ row[worker[p].ord].filled = 0
        /\ row[worker[p].ord].leg = NoLeg
        /\ row'[worker[p].ord].st \in {"sent", "filled"} /\ row'[worker[p].ord].leg = worker[p].leg
        /\ row'[worker[p].ord].filled = FinalFill(p) /\ row'[worker[p].ord].tracked = -1
        /\ row'[worker[p].ord].st = "filled" =>
             /\ venue[worker[p].ord][worker[p].leg].st # "open"
             /\ venue[worker[p].ord][worker[p].leg].fill = FinalFill(p)
<1>1. PICK o \in Orders : o = worker[p].ord
  BY MarkSentStep, OnOrder
<1>2. Early(p) /\ row[o].leg = NoLeg /\ row[o].filled = 0 /\ row[o].st = "processing"
  BY <1>1, MarkSentStep DEF Early, ClaimInv
<1>3. PICK l \in Legs : l = worker[p].leg /\ CurrentLeg(p) = venue[o][l]
  BY <1>1, MarkSentStep, LegOfThread
<1>4. PICK v \in VenueLeg : v = venue[o][l] /\ (v.st = "open" => v.fill < v.qty)
  BY DEF Base, PendingTypeOK, LegInv
<1>5. worker[p].lim = 0 /\ worker[p].mkt = -1 /\ worker[p].got \in Nat /\ v.fill \in Nat
  BY <1>4, MarkSentStep, PlainWorker, OnOrder, AmountAssumption DEF Thread, VenueLeg
<1>6. PICK f \in Nat : f = FinalFill(p) /\ f <= v.fill
                       /\ (worker[p].vst \in {"filled", "cancelled"} => v.st = worker[p].vst /\ v.fill = f)
  <2>1. worker[p].got <= v.fill
    BY <1>1, <1>3, <1>4, <1>5, MarkSentStep DEF ReadInv, ReadOK
  <2>2. worker[p].vst \in {"filled", "cancelled"} => v.st = worker[p].vst /\ v.fill = worker[p].got
    BY <1>1, <1>3, <1>4, MarkSentStep DEF AnswerOK
  <2>3. FinalFill(p) \in {v.fill, worker[p].got}
    BY <1>3, <1>4 DEF FinalFill
  <2>4. QED
    BY <1>5, <2>1, <2>2, <2>3
<1>7. /\ row'[o].st = IF IsFinalFill(f, worker[p].vst) THEN "filled" ELSE "sent"
      /\ row'[o].filled = f /\ row'[o].tracked = -1 /\ row'[o].leg = l
  BY <1>1, <1>2, <1>3, <1>5, <1>6, MarkSentStep DEF MaxOf
<1>8. row'[o].st = "filled" => v.st # "open" /\ v.fill = f
  BY <1>4, <1>6, <1>7, FinalIsOver
<1>9. QED
  BY <1>1, <1>2, <1>3, <1>4, <1>6, <1>7, <1>8

\* The snapshot that a sync stores.
LEMMA SnapshotResult ==
  ASSUME Base, ClaimInv, TrackInv, NoAudit, NEW p \in Procs, AnswerOK(p), UpdateSnapshot(p)
  PROVE row'[worker[p].ord].st \in {"filled", "cancelled"} =>
          /\ venue[worker[p].ord][worker[p].leg].st # "open"
          /\ SyncExact(p) => venue[worker[p].ord][worker[p].leg].fill = AggregateFill(p)
<1> SUFFICES ASSUME row'[worker[p].ord].st \in {"filled", "cancelled"}
             PROVE /\ venue[worker[p].ord][worker[p].leg].st # "open"
                   /\ SyncExact(p) => venue[worker[p].ord][worker[p].leg].fill = AggregateFill(p)
  OBVIOUS
<1>1. Reconciling(p) /\ worker[p].pc = "snapshot"
  BY SnapshotStep DEF Reconciling
<1>2. PICK o \in Orders, l \in Legs : o = worker[p].ord /\ l = worker[p].leg
  BY <1>1, SyncLeg
<1>3. PICK v \in VenueLeg : v = venue[o][l] /\ (v.st = "open" => v.fill < v.qty)
  BY DEF Base, PendingTypeOK, LegInv
<1>4. worker[p].vst \in {"filled", "cancelled"} => v.st = worker[p].vst /\ v.fill = worker[p].cum
  BY <1>1, <1>2, <1>3 DEF AnswerOK
<1>5. /\ worker[p].prev + worker[p].delta <= worker[p].cum /\ worker[p].cum <= v.fill
      /\ worker[p].prev \in Nat /\ worker[p].delta \in Nat /\ worker[p].cum \in Nat
  <2>1. Without({"audit"})
    BY DEF NoAudit, Without
  <2>2. QED
    BY <1>1, <1>2, <1>3, <2>1 DEF TrackInv, SyncOK, Base, PendingTypeOK, Thread
<1>6. v.fill \in 0 .. Amount /\ v.qty \in 0 .. Amount
  BY DEF VenueLeg
<1>7. AggregateFill(p) \in {worker[p].cum, worker[p].prev + worker[p].delta} /\ AggregateFill(p) \in Nat
  BY <1>5 DEF AggregateFill
<1>8. \/ worker[p].vst \in {"filled", "cancelled"}
      \/ AggregateFill(p) >= Amount
  <2>1. row'[o].st = ReconciledQueueStatus(row[o].algo, AggregateFill(p), worker[p].vst)
    BY <1>2, SnapshotStep
  <2>2. QED
    BY <1>2, <2>1 DEF ReconciledQueueStatus, IsFinalFill
<1>9. v.st # "open" /\ v.fill = worker[p].cum
  <2>1. CASE worker[p].vst \in {"filled", "cancelled"}
    BY <1>4, <2>1
  <2>2. CASE AggregateFill(p) >= Amount
    <3>1. PICK g \in Nat, c \in Nat : g = AggregateFill(p) /\ c = worker[p].cum /\ g <= c /\ c <= v.fill /\ Amount <= g
      BY <1>5, <1>7, <2>2
    <3>2. worker[p].cum = Amount /\ v.fill = Amount
      BY <1>6, <3>1, AmountAssumption
    <3>3. QED
      BY <1>3, <1>6, <3>2, AmountAssumption
  <2>3. QED
    BY <1>8, <2>1, <2>2
<1>10. SyncExact(p) => AggregateFill(p) = worker[p].cum
  BY <1>1, <1>5, <1>7 DEF SyncExact
<1>11. QED
  BY <1>2, <1>3, <1>9, <1>10

\* A worker goes on beside the row and the venue.
LEMMA OverQuiet ==
  ASSUME Base, ClaimInv, TrackInv, NoAudit, Over, NEW p \in Procs, UNCHANGED <<row, venue>>,
         worker[p].pc # "idle", \A q \in Procs \ {p} : worker'[q] = worker[q],
         Early(p) => Early(p)' /\ worker'[p].ord = worker[p].ord, AnswerOK(p)'
  PROVE Over'
<1>1. PICK o \in Orders : o = worker[p].ord
  BY OnOrder
<1>2. VenueGrows /\ \A x \in Orders : NonePlaced(x)
  BY VenueSame, NonePlacedSame
<1>3. \A q \in Procs : Early(q) /\ worker[q].ord = o => Early(q)' /\ worker'[q].ord = o
  BY <1>1, StageFrame
<1>4. OneLegOK(o)'
  BY <1>2, <1>3, OneLegFrame DEF Over
<1>5. QED
  BY <1>1, <1>2, <1>4, OverFrame

\* A worker ends its work on a row that stays without a leg, or keeps its leg
\* and is not closed.
LEMMA OverEnds ==
  ASSUME Base, ClaimInv, TrackInv, NoAudit, Over, VenueGrows, NEW p \in Procs, NEW o \in Orders,
         worker[p].ord = o, Leaves(p), OneLegOK(o)',
         \A x \in Orders \ {o} : row'[x] = row[x] /\ NonePlaced(x),
         (\A q \in Procs \ {p} : worker[q].ord # o) \/ NonePlaced(o)
  PROVE Over'
BY AnswerLeft, OverFrame DEF Leaves

LEMMA OverWorker ==
  ASSUME Base, ClaimInv, ReadInv, TrackInv, NoMaker, NoAudit, Over, NEW p \in Procs, WorkerStep(p)
  PROVE Over'
<1>1. AnswerOK(p) /\ VenueGrows
  BY CoreVenueGrows DEF Over, CoreNext
<1>2. CASE RejectDispatch(p) \/ PlaceRefused(p) \/ PlaceLost(p) \/ NotifySignal(p)
  <2>1. worker[p].pc \in {"dispatch", "market"} /\ Early(p)
    BY <1>2, BaseFail, NotifyStep DEF Early
  <2>2. PICK o \in Orders : o = worker[p].ord
    BY <2>1, OnOrder
  <2>3. row[o].leg = NoLeg /\ \A q \in Procs \ {p} : worker[q].ord # o
    BY <2>1, <2>2, EarlyAlone DEF ClaimInv
  <2>4. /\ Leaves(p) /\ row'[o].st \in {"failed", "sent"} /\ row'[o].leg = NoLeg
        /\ \A x \in Orders \ {o} : row'[x] = row[x]
    <3>1. CASE NotifySignal(p)
      BY <2>2, <2>3, <3>1, NotifyStep
    <3>2. CASE RejectDispatch(p) \/ PlaceRefused(p) \/ PlaceLost(p)
      BY <2>1, <2>2, <2>3, <3>2, BaseFail, FailStep
    <3>3. QED
      BY <1>2, <3>1, <3>2
  <2>5. \A x \in Orders \ {o} : NonePlaced(x)
    <3>1. CASE venue' = venue
      BY <3>1, NonePlacedSame
    <3>2. CASE PlaceLost(p)
      BY <2>2, <3>2, AcceptStep DEF PlaceLost, NonePlaced
    <3>3. QED
      BY <1>2, <3>1, <3>2 DEF RejectDispatch, PlaceRefused, NotifySignal
  <2>6. OneLegOK(o)'
    BY <2>4 DEF OneLegOK
  <2>7. QED
    BY <1>1, <2>2, <2>3, <2>4, <2>5, <2>6, OverEnds
<1>3. CASE Place(p)
  <2>1. Placing(p) /\ VenueAccepts(p) /\ worker[p].pc = "dispatch" /\ Early(p) /\ row' = row
    BY <1>3, PlaceStep, PlaceLegs, PlainWorker DEF Early
  <2>2. PICK o \in Orders : o = worker[p].ord
    BY <2>1, OnOrder
  <2>3. row[o].leg = NoLeg /\ row[o].st = "processing" /\ \A q \in Procs \ {p} : worker[q].ord # o
    BY <2>1, <2>2, EarlyAlone DEF ClaimInv
  <2>4. /\ worker'[p].pc \in {"sent", "wait"} /\ worker'[p].ord = o /\ worker'[p].leg = PlaceLeg(p)
        /\ worker'[p].vst = "none" /\ \A q \in Procs \ {p} : worker'[q] = worker[q]
        /\ worker'[p].after = "idle"
    BY <1>1, <1>3, <2>1, <2>2, PlaceStep, AfterOf DEF Moves, AnswerOK
  <2>5. \A l \in Legs \ {PlaceLeg(p)} : venue'[o][l].st = "none"
    <3>1. \A l \in Legs : venue[o][l].st = "none"
      BY <1>1, <2>1, <2>2, LegFacts DEF AnswerOK
    <3>2. QED
      BY <2>1, <2>2, <3>1, AcceptStep
  <2>6. Early(p)' /\ ~Reconciling(p)'
    BY <2>4 DEF Early, Reconciling
  <2>7. AnswerOK(p)'
    BY <2>4, <2>5, <2>6 DEF AnswerOK
  <2>8. OneLegOK(o)'
    BY <2>1, <2>3, <2>4, <2>6 DEF OneLegOK
  <2>9. \A x \in Orders \ {o} : row'[x] = row[x] /\ NonePlaced(x)
    BY <2>1, <2>2, AcceptStep DEF NonePlaced
  <2>10. QED
    BY <1>1, <2>2, <2>3, <2>4, <2>7, <2>8, <2>9, OverFrame
<1>4. CASE WaitMarket(p)
  <2>1. /\ worker[p].pc = "wait" /\ worker'[p].pc = "sent" /\ UNCHANGED <<row, venue>>
        /\ \A q \in Procs \ {p} : worker'[q] = worker[q]
        /\ worker'[p].ord = worker[p].ord /\ worker'[p].leg = worker[p].leg /\ worker[p].lim = 0
        /\ worker'[p].vst = CurrentLeg(p).st /\ worker'[p].got = 0 + CurrentLeg(p).fill
        /\ worker'[p].after = "idle"
    BY <1>4, WaitMarketStep, PlainWorker, AfterOf DEF Moves
  <2>2. worker'[p].got = CurrentLeg(p).fill /\ CurrentLeg(p) = venue[worker[p].ord][worker[p].leg]
    BY <2>1, LegOfThread
  <2>3. Early(p) /\ Early(p)' /\ ~Reconciling(p)'
    BY <2>1 DEF Early, Reconciling
  <2>4. AnswerOK(p)'
    BY <1>1, <2>1, <2>2, <2>3 DEF AnswerOK
  <2>5. QED
    BY <2>1, <2>3, <2>4, OverQuiet
<1>5. CASE MarkSent(p)
  <2>1. PICK o \in Orders, l \in Legs : o = worker[p].ord /\ l = worker[p].leg
    BY <1>1, <1>5, SentResult
  <2>2. /\ venue' = venue /\ \A x \in Orders \ {o} : row'[x] = row[x]
        /\ \A q \in Procs \ {p} : worker'[q] = worker[q] /\ worker'[p].pc = "record"
        /\ ~Reconciling(p)'
    BY <1>5, <2>1, MarkSentStep, AfterOf DEF Moves, Reconciling
  <2>3. \A m \in Legs \ {l} : venue[o][m].st = "none"
    BY <1>1, <1>5, <2>1, SentResult DEF AnswerOK
  <2>4. row'[o].st \in {"sent", "filled"} /\ row'[o].leg = l /\ (row'[o].st = "filled" => venue[o][l].st # "open")
    BY <1>1, <1>5, <2>1, SentResult
  <2>5. OneLegOK(o)'
    BY <2>2, <2>3, <2>4, LegFacts DEF OneLegOK
  <2>6. AnswerOK(p)'
    BY <1>5, <2>2, MarkSentStep, AnswerRest
  <2>7. QED
    BY <1>1, <2>1, <2>2, <2>5, <2>6, NonePlacedSame, OverFrame
<1>6. CASE ReadUnrecorded(p)
  <2>1. worker[p].pc = "record" /\ UNCHANGED <<row, venue>> /\ ~Early(p)
    BY <1>6, ReadStep DEF Early
  <2>2. AnswerOK(p)' /\ \A q \in Procs \ {p} : worker'[q] = worker[q]
    <3>1. CASE Leaves(p)
      BY <3>1, AnswerLeft DEF Leaves
    <3>2. CASE ~Leaves(p)
      <4>1. Moves(p) /\ worker'[p].pc = "position" /\ worker'[p].after = "idle"
        BY <1>6, <3>2, ReadStep
      <4>2. QED
        BY <4>1, AnswerRest DEF Moves, Reconciling
    <3>3. QED
      BY <3>1, <3>2
  <2>3. QED
    BY <2>1, <2>2, OverQuiet
<1>7. CASE ApplyPosition(p) \/ RecordTrade(p)
  <2>1. worker[p].pc \in {"position", "trade"} /\ UNCHANGED <<row, venue>> /\ ~Early(p)
    BY <1>7, ApplyStep, TradeStep DEF Early
  <2>2. AnswerOK(p)' /\ \A q \in Procs \ {p} : worker'[q] = worker[q]
    <3>1. CASE Leaves(p)
      BY <3>1, AnswerLeft DEF Leaves
    <3>2. CASE ~Leaves(p)
      <4>1. /\ Moves(p) /\ worker'[p].pc \in {"trade", "snapshot"} /\ worker'[p].after = worker[p].after
            /\ worker'[p].cum = worker[p].cum /\ worker'[p].leg = worker[p].leg
            /\ worker'[p].vst = worker[p].vst /\ (worker'[p].pc = "snapshot" => worker[p].after = "snapshot")
        BY <1>7, <3>2, ApplyStep, TradeStep
      <4>2. Reconciling(p)' => Reconciling(p)
        BY <4>1 DEF Reconciling
      <4>3. ~Early(p)'
        BY <4>1 DEF Early
      <4>4. AnswerOK(p)'
        BY <1>1, <2>1, <4>1, <4>2, <4>3 DEF AnswerOK, Moves
      <4>5. QED
        BY <4>1, <4>4 DEF Moves
    <3>3. QED
      BY <3>1, <3>2
  <2>3. QED
    BY <2>1, <2>2, OverQuiet
<1>8. CASE QueryFill(p) \/ QueryNoPrice(p)
  <2>1. /\ worker[p].pc = "query" /\ UNCHANGED <<row, venue>> /\ ~Early(p) /\ Moves(p)
        /\ worker'[p].leg = worker[p].leg /\ worker'[p].cum = CurrentLeg(p).fill
        /\ worker'[p].vst \in {CurrentLeg(p).st, "noPrice"} /\ worker'[p].pc \in {"position", "snapshot"}
    BY <1>8, QueryStep DEF Early
  <2>2. CurrentLeg(p) = venue[worker[p].ord][worker[p].leg]
    BY <2>1, LegOfThread
  <2>3. AnswerOK(p)'
    BY <2>1, <2>2 DEF AnswerOK, Moves, Early
  <2>4. QED
    BY <2>1, <2>3, OverQuiet DEF Moves
<1>9. CASE QueryFails(p) \/ UpdateSnapshot(p)
  <2>1. worker[p].pc \in {"query", "snapshot"} /\ Reconciling(p) /\ SyncEnds(p)
    BY <1>9, QueryFailsStep, SnapshotStep DEF Reconciling
  <2>2. PICK o \in Orders, l \in Legs : o = worker[p].ord /\ l = worker[p].leg /\ l = row[o].leg /\ row[o].st = "syncing"
    BY <2>1, SyncLeg
  <2>3. /\ venue' = venue /\ row'[o].leg = l /\ Leaves(p) /\ \A x \in Orders \ {o} : row'[x] = row[x]
        /\ row'[o].st \in {"sent", "syncing", "filled", "cancelled"}
        /\ row'[o].st \in {"filled", "cancelled"} => venue[o][l].st # "open"
    <3>1. CASE QueryFails(p)
      BY <2>1, <2>2, <3>1, QueryFailsStep DEF SyncEnds
    <3>2. CASE UpdateSnapshot(p)
      BY <1>1, <2>1, <2>2, <3>2, SnapshotStep, SnapshotResult DEF SyncEnds
    <3>3. QED
      BY <1>9, <3>1, <3>2
  <2>4. OneLegOK(o)'
    BY <2>2, <2>3, LegFacts DEF OneLegOK, Over
  <2>5. QED
    BY <1>1, <2>2, <2>3, <2>4, NonePlacedSame, OverEnds
<1>10. QED
  BY <1>2, <1>3, <1>4, <1>5, <1>6, <1>7, <1>8, <1>9, PlainWorker
     DEF WorkerStep, DispatchStep, SyncStep, PersistStep

LEMMA OverInvStep ==
  ASSUME Base, ClaimInv, ReadInv, TrackInv, NoMaker, NoAudit, OverInv, Paced, Next
  PROVE OverInv'
<1>1. faults \subseteq faults'
  BY NextIsCore, CoreFaults DEF Base, vars
<1> SUFFICES ASSUME Without({"crash"})' PROVE Over'
  BY DEF OverInv, Over
<1>2. Over
  BY <1>1, FaultsKept DEF OverInv, Over
<1>3. ASSUME NEW p \in Procs, Crash(p) PROVE Over'
  <2>1. Syncing(p)
    BY <1>3 DEF Crash, Fault, Without
  <2>2. ~Early(p) /\ worker[p].pc # "idle" /\ UNCHANGED <<row, venue>>
    BY <1>3, <2>1, AfterOf DEF Crash, Syncing, Early
  <2>3. Leaves(p)
    BY <1>3, GoneStep DEF Crash, Leaves
  <2>4. QED
    BY <1>2, <2>2, <2>3, AnswerLeft, OverQuiet DEF Leaves
<1>4. ASSUME NEW p \in Procs, NEW o \in Orders, ClaimSent(p, o) PROVE SentClaimed(p, o)
  BY <1>4 DEF ClaimSent, SentClaimed, Base, PendingTypeOK
<1>5. QED
  BY <1>2, <1>3, <1>4, OverQueue, OverClaims, OverWorker, OverVenue DEF Next

Queued(o) == row[o].st \in {"pending", "processing"}

\* The invariant without its premise.
Lane ==
  /\ \A o \in Orders : row[o].st = "failed" => \A l \in Legs : venue[o][l].st # "open"
  /\ \A a, b \in Orders : Live(a) /\ Live(b) => a = b

\* The row of a live order keeps the lane busy.
LEMMA LiveActive ==
  ASSUME Base, Over, Lane, NEW o \in Orders, Live(o) PROVE row[o].st \in ActivePending
<1>1. row[o].st \in Statuses /\ row[o].leg \in Legs \cup {NoLeg}
  BY DEF Base, PendingTypeOK, Row
<1>2. CASE row[o].st = "none"
  <2>1. row[o].algo = "none"
    BY <1>2, NullsTyped DEF Base, LegInv
  <2>2. \A l \in Legs : venue[o][l].st = "none"
    BY <2>1, LegsOfKind DEF Base, LegInv
  <2>3. QED
    BY <1>2, <2>2 DEF Live
<1>3. CASE row[o].st \in {"filled", "cancelled"}
  <2>1. \A l \in Legs : venue[o][l].st # "open"
    BY <1>1, <1>3 DEF Over, OneLegOK
  <2>2. QED
    BY <1>3, <2>1 DEF Live
<1>4. CASE row[o].st = "failed"
  BY <1>4 DEF Lane, Live
<1>5. QED
  BY <1>1, <1>2, <1>3, <1>4 DEF Statuses, ActivePending

\* A step that queues no row and places only for a row that is processed.
LEMMA LaneFrame ==
  ASSUME Lane, AlgoKept,
         \A x \in Orders : row'[x].st \in {"pending", "processing"} => Queued(x),
         \A x \in Orders : row'[x].st = "failed" =>
           row[x].st = "failed" \/ \A l \in Legs : venue'[x][l].st # "open",
         \A x \in Orders, l \in Legs :
           venue'[x][l].st = "open" => venue[x][l].st = "open" \/ row[x].st = "processing"
  PROVE Lane'
<1>1. ASSUME NEW x \in Orders, Live(x)' PROVE Live(x)
  <2>1. row[x].algo # "signal"
    BY <1>1 DEF Live, AlgoKept
  <2>2. CASE row'[x].st \in {"pending", "processing"}
    BY <2>1, <2>2 DEF Live, Queued
  <2>3. CASE \E l \in Legs : venue'[x][l].st = "open"
    BY <2>1, <2>3 DEF Live
  <2>4. QED
    BY <1>1, <2>2, <2>3 DEF Live
<1>2. ASSUME NEW x \in Orders, row'[x].st = "failed", NEW l \in Legs PROVE venue'[x][l].st # "open"
  BY <1>2 DEF Lane
<1>3. QED
  BY <1>1, <1>2 DEF Lane

\* A session joins the lane when no order of it is live.
LEMMA LaneSubmit ==
  ASSUME Base, Over, Lane, NEW o \in Orders, Submit(o) PROVE Lane'
<1>1. PICK a \in Algos : ~HasInflight(a) /\ SetRow(o, [NoRow EXCEPT !.st = "pending", !.algo = a])
  BY DEF Submit
<1>2. row'[o].st = "pending" /\ row'[o].algo = a /\ \A x \in Orders \ {o} : row'[x] = row[x]
  BY <1>1, NullsTyped DEF SetRow, Base, PendingTypeOK, Row
<1>3. venue' = venue
  BY DEF Submit
<1>4. \A x \in Orders \ {o} : Live(x)' => Live(x)
  BY <1>2, <1>3 DEF Live
<1>5. \A x \in Orders : row'[x].st = "failed" => \A l \in Legs : venue'[x][l].st # "open"
  BY <1>2, <1>3 DEF Lane
<1>6. CASE a = "signal"
  <2>1. ~Live(o)'
    BY <1>2, <1>6 DEF Live
  <2>2. QED
    BY <1>4, <1>5, <2>1 DEF Lane
<1>7. CASE a # "signal"
  <2>1. \A x \in Orders : ~Live(x)
    BY <1>1, <1>7, LiveActive DEF HasInflight
  <2>2. QED
    BY <1>4, <1>5, <2>1 DEF Lane
<1>8. QED
  BY <1>6, <1>7

\* The rows and the legs after a step of a worker.
LEMMA LaneWorker ==
  ASSUME Base, ClaimInv, TrackInv, NoMaker, NoAudit, Over, Lane, NEW p \in Procs, WorkerStep(p), ~PlaceLost(p)
  PROVE Lane'
<1>1. AlgoKept /\ AnswerOK(p)
  BY WorkerAlgo DEF Over
<1>2. CASE RejectDispatch(p) \/ PlaceRefused(p) \/ NotifySignal(p)
  <2>1. worker[p].pc = "dispatch" /\ Early(p)
    BY <1>2, BaseFail, NotifyStep, PlainWorker DEF Early
  <2>2. PICK o \in Orders : o = worker[p].ord
    BY <2>1, OnOrder
  <2>3. \A l \in Legs : venue[o][l].st = "none"
    BY <1>1, <2>1, <2>2, LegFacts DEF AnswerOK
  <2>4. venue' = venue /\ row'[o].st \in {"failed", "sent"} /\ \A x \in Orders \ {o} : row'[x] = row[x]
    <3>1. CASE NotifySignal(p)
      BY <2>2, <3>1, NotifyStep
    <3>2. CASE RejectDispatch(p) \/ PlaceRefused(p)
      BY <2>1, <2>2, <3>2, BaseFail, FailStep DEF RejectDispatch, PlaceRefused
    <3>3. QED
      BY <1>2, <3>1, <3>2
  <2>5. QED
    BY <1>1, <2>3, <2>4, LaneFrame DEF Queued
<1>3. CASE Place(p)
  <2>1. Placing(p) /\ VenueAccepts(p) /\ worker[p].pc # "idle" /\ Early(p) /\ row' = row
    BY <1>3, PlaceStep, PlaceLegs DEF Early
  <2>2. PICK o \in Orders : o = worker[p].ord /\ row[o].st = "processing"
    BY <2>1, OnOrder DEF ClaimInv
  <2>3. \A x \in Orders, l \in Legs : venue'[x][l].st = "open" => venue[x][l].st = "open" \/ row[x].st = "processing"
    BY <2>1, <2>2, AcceptStep
  <2>4. QED
    BY <1>1, <2>1, <2>3, LaneFrame DEF Queued
<1>4. CASE row' = row /\ venue' = venue
  BY <1>1, <1>4, LaneFrame DEF Queued
<1>5. CASE MarkSent(p) \/ QueryFails(p) \/ UpdateSnapshot(p)
  <2>1. worker[p].pc # "idle"
    BY <1>5, MarkSentStep, QueryFailsStep, SnapshotStep
  <2>2. PICK o \in Orders : o = worker[p].ord
    BY <2>1, OnOrder
  <2>3. /\ venue' = venue /\ \A x \in Orders \ {o} : row'[x] = row[x]
        /\ row' = row \/ row'[o].st \in {"sent", "filled", "cancelled"}
    <3>1. CASE MarkSent(p)
      BY <2>2, <3>1, MarkSentStep
    <3>2. CASE QueryFails(p)
      BY <2>2, <3>2, QueryFailsStep DEF SyncEnds
    <3>3. CASE UpdateSnapshot(p)
      BY <2>2, <3>3, SnapshotStep DEF SyncEnds
    <3>4. QED
      BY <1>5, <3>1, <3>2, <3>3
  <2>4. QED
    BY <1>1, <2>3, LaneFrame DEF Queued
<1>6. QED
  <2>1. \/ RejectDispatch(p) \/ PlaceRefused(p) \/ NotifySignal(p) \/ Place(p)
        \/ MarkSent(p) \/ QueryFails(p) \/ UpdateSnapshot(p)
        \/ WaitMarket(p) \/ ReadUnrecorded(p) \/ QueryFill(p) \/ QueryNoPrice(p)
        \/ ApplyPosition(p) \/ RecordTrade(p)
    BY PlainWorker DEF WorkerStep, DispatchStep, SyncStep, PersistStep
  <2>2. WaitMarket(p) \/ ReadUnrecorded(p) \/ QueryFill(p) \/ QueryNoPrice(p)
        \/ ApplyPosition(p) \/ RecordTrade(p) => row' = row /\ venue' = venue
    BY WaitMarketStep, ReadStep, QueryStep, ApplyStep, TradeStep
  <2>3. QED
    BY <1>2, <1>3, <1>4, <1>5, <2>1, <2>2

LEMMA LaneInvStep ==
  ASSUME Base, ClaimInv, ReadInv, TrackInv, NoMaker, NoAudit, OverInv, LaneInv, Next
  PROVE LaneInv'
<1>1. faults \subseteq faults'
  BY NextIsCore, CoreFaults DEF Base, vars
<1> SUFFICES ASSUME Without({"crash", "lostReply"})' PROVE Lane'
  BY DEF LaneInv, Lane
<1>2. Over /\ Lane
  <2>1. Without({"crash", "lostReply"})
    BY <1>1, FaultsKept
  <2>2. Without({"crash"})
    BY <2>1 DEF Without
  <2>3. QED
    BY <2>1, <2>2 DEF OverInv, Over, LaneInv, Lane
<1>3. ASSUME NEW p \in Procs, Crash(p) PROVE Lane'
  <2>1. row' = row /\ venue' = venue
    BY <1>3 DEF Crash
  <2>2. QED
    BY <1>2, <2>1, LaneFrame DEF Queued, AlgoKept
<1>4. ASSUME NEW p \in Procs, WorkerStep(p) PROVE Lane'
  <2>1. ~PlaceLost(p)
    BY DEF PlaceLost, Fault, Without
  <2>2. QED
    BY <1>2, <1>4, <2>1, LaneWorker
<1>5. ASSUME NEW o \in Orders, RequeueProcessing(o) \/ RequeueSyncing(o) PROVE Lane'
  <2>1. /\ venue' = venue /\ \A x \in Orders \ {o} : row'[x] = row[x]
        /\ AlgoKept /\ row'[o].st \in {"pending", "sent"} /\ (row'[o].st = "pending" => Queued(o))
    BY <1>5, StatusSet DEF RequeueProcessing, RequeueSyncing, Statuses, Queued
  <2>2. QED
    BY <1>2, <2>1, LaneFrame DEF Queued
<1>6. ASSUME NEW p \in Procs, NEW o \in Orders, Claim(p, o) \/ ClaimSent(p, o) PROVE Lane'
  <2>1. ClaimSent(p, o) => SentClaimed(p, o)
    BY DEF ClaimSent, SentClaimed, Base, PendingTypeOK
  <2>2. /\ venue' = venue /\ \A x \in Orders \ {o} : row'[x] = row[x]
        /\ AlgoKept /\ row'[o].st \in {"processing", "syncing"} /\ (row'[o].st = "processing" => Queued(o))
    BY <1>6, <2>1, ClaimStep, SentClaimStep DEF Queued
  <2>3. QED
    BY <1>2, <2>2, LaneFrame DEF Queued
<1>7. ASSUME NEW o \in Orders, NEW l \in Legs, VenueFills(o, l) \/ VenueCancels(o, l) PROVE Lane'
  <2>1. /\ row' = row /\ venue[o][l].st = "open"
        /\ \A x \in Orders, m \in Legs : (x # o \/ m # l) => venue'[x][m] = venue[x][m]
    BY <1>7, VenueStep
  <2>2. \A x \in Orders, m \in Legs : venue'[x][m].st = "open" => venue[x][m].st = "open"
    BY <2>1
  <2>3. QED
    BY <1>2, <2>1, <2>2, LaneFrame DEF Queued, AlgoKept
<1>8. QED
  BY <1>2, <1>3, <1>4, <1>5, <1>6, <1>7, LaneSubmit DEF Next

\* A REST audit beside a stream is not a step of this specification.
LEMMA NoAuditStep == ASSUME NoAudit, Next PROVE NoAudit'
<1>1. ASSUME NEW k, k # "audit", Fault(k) PROVE NoAudit'
  BY <1>1 DEF Fault, NoAudit
<1>2. ASSUME NEW p \in Procs, Crash(p) PROVE NoAudit'
  BY <1>1, <1>2 DEF Crash
<1>3. ASSUME NEW p \in Procs, PlaceLost(p) \/ QueryNoPrice(p) \/ QueryFails(p) PROVE NoAudit'
  BY <1>1, <1>3 DEF PlaceLost, QueryNoPrice, QueryFails
<1>4. CASE faults' = faults
  BY <1>4 DEF NoAudit
<1>5. QED
  BY <1>2, <1>3, <1>4 DEF Next, Submit, RequeueProcessing, RequeueSyncing, Claim, ClaimSent, VenueFills,
     VenueCancels, WorkerStep, DispatchStep, SyncStep, PersistStep, RejectDispatch, NotifySignal, Place,
     PlaceRefused, WaitLimit, WaitMarket, CancelLimit, MarkSent, ReadUnrecorded, QueryFill, UpdateSnapshot,
     ApplyPosition, RecordTrade

LaneCore == Base /\ ClaimInv /\ ReadInv /\ TrackInv /\ NoMaker /\ NoAudit /\ OverInv

LEMMA LaneCoreInit == Init => LaneCore
<1> SUFFICES ASSUME Init PROVE LaneCore
  OBVIOUS
<1>1. Base /\ ClaimInv /\ ReadInv /\ TrackInv /\ NoMaker /\ NoAudit
  BY BaseInit, ClaimInit, ReadInit, TrackInit, NullsTyped DEF NoMaker, NoAudit, Init
<1>2. \A o \in Orders : OneLegOK(o)
  BY NullsTyped DEF Init, OneLegOK
<1>3. \A p \in Procs : worker[p] = Idle
  BY DEF Init
<1>4. \A p \in Procs : AnswerOK(p)
  BY <1>3, NullsTyped DEF AnswerOK, Early, Reconciling
<1>5. QED
  BY <1>1, <1>2, <1>4 DEF LaneCore, OverInv

LEMMA LaneCoreStutter == LaneCore /\ UNCHANGED vars => LaneCore'
<1> SUFFICES ASSUME LaneCore, UNCHANGED vars PROVE LaneCore'
  OBVIOUS
<1> USE DEF LaneCore
<1>1. Base'
  BY BaseStutter
<1>2. ClaimInv' /\ ReadInv' /\ NoMaker' /\ NoAudit'
  BY DEF ClaimInv, ReadInv, ReadOK, NoMaker, NoAudit, Early, Late, Reconciling, Without, vars
<1>3. TrackInv'
  BY DEF TrackInv, RowTracked, SyncOK, Reconciling, Without, vars
<1>4. OverInv'
  BY DEF OverInv, OneLegOK, AnswerOK, Early, Reconciling, Without, vars
<1>5. QED
  BY <1>1, <1>2, <1>3, <1>4

LEMMA LaneCoreStep ==
  ASSUME LaneCore, Paced, "maker" \notin Algos, Next PROVE LaneCore'
<1> USE DEF LaneCore
<1>1. CASE CoreNext
  BY <1>1, BaseStep, ClaimInvStep, ReadStepInv, TrackInvStep, NoMakerStep, NoAuditStep, OverInvStep
<1>2. CASE UNCHANGED vars
  BY <1>2, LaneCoreStutter
<1>3. QED
  BY <1>1, <1>2, NextIsCore DEF Base

\* One order is live, and an order that is open at the venue is.
LEMMA LaneIsSerial == ASSUME Base, LaneInv PROVE LaneSerial
<1> SUFFICES ASSUME Without({"crash", "lostReply"})
             PROVE Cardinality({o \in Orders : \E l \in Legs : venue[o][l].st = "open"}) <= 1
  BY DEF LaneSerial
<1> DEFINE S == {o \in Orders : \E l \in Legs : venue[o][l].st = "open"}
<1>1. \A o \in S : Live(o)
  <2> SUFFICES ASSUME NEW o \in Orders, NEW l \in Legs, venue[o][l].st = "open" PROVE Live(o)
    OBVIOUS
  <2>1. l \in LegsOf(row[o].algo)
    BY DEF Base, LegInv
  <2>2. row[o].algo # "signal"
    BY <2>1, LegsOfKind
  <2>3. QED
    BY <2>2 DEF Live
<1>2. \A a, b \in S : a = b
  BY <1>1 DEF LaneInv
<1> HIDE DEF S
<1>3. CASE S = {}
  BY <1>3, FS_EmptySet DEF S
<1>4. CASE S # {}
  <2>1. PICK a \in S : S = {a}
    BY <1>2, <1>4
  <2>2. Cardinality(S) = 1
    BY <2>1, FS_Singleton
  <2>3. QED
    BY <2>2 DEF S
<1>5. QED
  BY <1>3, <1>4

\* Where no dispatch outlasts the stale time, or one worker does all the work,
\* and limit-then-market orders are left out, the lane gate of the gateway holds
\* at the venue: whatever fails, the next order of a lane is placed only when no
\* earlier one is open there, unless a dispatch died or a placement was not
\* answered (has_inflight_live_order, _mark_sent, _sync_live_sent_orders).
THEOREM LaneStaysSerial ==
  ASSUME Paced, "maker" \notin Algos
  PROVE Spec => []LaneSerial
<1> DEFINE I == LaneCore /\ LaneInv
<1>1. Init => I
  <2> SUFFICES ASSUME Init PROVE I
    OBVIOUS
  <2>1. LaneCore
    BY LaneCoreInit
  <2>2. \A o \in Orders : row[o].st = "none" /\ \A l \in Legs : venue[o][l].st = "none"
    BY NullsTyped DEF Init
  <2>3. \A o \in Orders : ~Live(o)
    BY <2>2 DEF Live
  <2>4. QED
    BY <2>1, <2>2, <2>3 DEF LaneInv
<1>2. I /\ [Next]_vars => I'
  <2> SUFFICES ASSUME I, [Next]_vars PROVE I'
    OBVIOUS
  <2>1. CASE Next
    BY <2>1, LaneCoreStep, LaneInvStep DEF LaneCore
  <2>2. CASE UNCHANGED vars
    BY <2>2, LaneCoreStutter DEF LaneInv, Live, Without, vars
  <2>3. QED
    BY <2>1, <2>2
<1>3. I => LaneSerial
  BY LaneIsSerial DEF LaneCore
<1> HIDE DEF I
<1>4. QED
  BY <1>1, <1>2, <1>3, PTL DEF Spec

\* The invariant without its premise, for the one worker p.
Exact(p) ==
  /\ \A o \in Orders : RowExact(o) /\ RecordsExact(o, worker[p])
  /\ SyncExact(p)

\* The records are those of the row where the worker is not at them.
LEMMA RecordsRest ==
  ASSUME Base, NEW p \in Procs, NEW o \in Orders,
         worker[p].ord # o \/ worker[p].pc \notin {"record", "position", "trade", "snapshot"}
  PROVE RecordsExact(o, worker[p]) <=> traded[o] = row[o].filled /\ applied[o] = row[o].filled
<1>1. worker[p].pc \notin {"record", "position", "trade", "snapshot"} => worker[p].after = "idle"
  BY AfterOf
<1>2. /\ OwedTrade(o, worker[p]) = 0 /\ OwedPosition(o, worker[p]) = 0
      /\ AheadTrade(o, worker[p]) = 0 /\ AheadPosition(o, worker[p]) = 0
  BY <1>1 DEF OwedTrade, OwedPosition, AheadTrade, AheadPosition
<1>3. QED
  BY <1>2, TermType DEF RecordsExact

LEMMA RecordsRestNext ==
  ASSUME Base', NEW p \in Procs, NEW o \in Orders,
         worker'[p].ord # o \/ worker'[p].pc \notin {"record", "position", "trade", "snapshot"}
  PROVE RecordsExact(o, worker[p])' <=> traded'[o] = row'[o].filled /\ applied'[o] = row'[o].filled
<1>1. worker'[p].pc \notin {"record", "position", "trade", "snapshot"} => worker'[p].after = "idle"
  BY DEF Base, PendingTypeOK, Thread, ThreadInv, ThreadOK
<1>2. /\ OwedTrade(o, worker[p])' = 0 /\ OwedPosition(o, worker[p])' = 0
      /\ AheadTrade(o, worker[p])' = 0 /\ AheadPosition(o, worker[p])' = 0
  BY <1>1 DEF OwedTrade, OwedPosition, AheadTrade, AheadPosition
<1>3. QED
  BY <1>2, TermTypeNext DEF RecordsExact

\* A closed row stays exact: its leg is over.
LEMMA RowExactFrame ==
  ASSUME Base, Base', VenueGrows, NEW o \in Orders, OneLegOK(o), RowExact(o), row'[o] = row[o], NonePlaced(o)
  PROVE RowExact(o)'
<1>1. row[o].st \in {"filled", "cancelled"} => venue'[o][row[o].leg].fill = venue[o][row[o].leg].fill
  <2> SUFFICES ASSUME row[o].st \in {"filled", "cancelled"}
               PROVE venue'[o][row[o].leg].fill = venue[o][row[o].leg].fill
    OBVIOUS
  <2>1. PICK l \in Legs : l = row[o].leg /\ venue[o][l].st # "open"
    BY DEF OneLegOK, Base, PendingTypeOK, Row
  <2>2. CASE venue[o][l].st = "none"
    BY <2>1, <2>2 DEF NonePlaced, Base, LegInv
  <2>3. CASE venue[o][l].st # "none"
    BY <2>1, <2>3 DEF VenueGrows
  <2>4. QED
    BY <2>1, <2>2, <2>3
<1>2. QED
  BY <1>1 DEF RowExact

LEMMA ExactFrame ==
  ASSUME Base, Base', Over, VenueGrows, NEW p \in Procs, Exact(p), NEW o \in Orders,
         worker[p].ord \in {o, NoOrder}, worker'[p].ord \in {o, NoOrder},
         \A x \in Orders \ {o} : /\ row'[x] = row[x] /\ traded'[x] = traded[x] /\ applied'[x] = applied[x]
                                 /\ NonePlaced(x),
         RowExact(o)', RecordsExact(o, worker[p])', SyncExact(p)'
  PROVE Exact(p)'
<1>1. ASSUME NEW x \in Orders \ {o} PROVE RowExact(x)' /\ RecordsExact(x, worker[p])'
  <2>1. worker[p].ord # x /\ worker'[p].ord # x
    BY OrdersAssumption
  <2>2. RecordsExact(x, worker[p])'
    BY <2>1, RecordsRest, RecordsRestNext DEF Exact
  <2>3. QED
    BY <2>2, RowExactFrame DEF Exact, Over
<1>2. QED
  BY <1>1 DEF Exact

\* Only the venue and the stage of rows without a closed one change.
LEMMA ExactQueue ==
  ASSUME Base, Base', Over, NEW p \in Procs, Exact(p), NEW o \in Orders,
         Submit(o) \/ RequeueProcessing(o) \/ RequeueSyncing(o)
  PROVE Exact(p)'
<1>1. worker' = worker /\ venue' = venue /\ UNCHANGED <<traded, applied>> /\ VenueGrows
  BY VenueSame DEF Submit, RequeueProcessing, RequeueSyncing
<1>2. /\ row'[o].filled = row[o].filled /\ row'[o].tracked = row[o].tracked
      /\ row'[o].st \in {"pending", "sent"} /\ \A x \in Orders \ {o} : row'[x] = row[x]
  <2>1. CASE Submit(o)
    <3>1. PICK a \in Algos : SetRow(o, [NoRow EXCEPT !.st = "pending", !.algo = a])
      BY <2>1 DEF Submit
    <3>2. row[o] = NoRow
      BY <2>1 DEF Submit, Base, LegInv
    <3>3. QED
      BY <3>1, <3>2, NullsTyped DEF SetRow, Base, PendingTypeOK, Row
  <2>2. CASE RequeueProcessing(o) \/ RequeueSyncing(o)
    BY <2>2, StatusSet DEF RequeueProcessing, RequeueSyncing, Statuses
  <2>3. QED
    BY <2>1, <2>2
<1>3. ASSUME NEW x \in Orders PROVE RowExact(x)' /\ RecordsExact(x, worker[p])'
  <2>1. RowExact(x)'
    BY <1>1, <1>2 DEF Exact, RowExact
  <2>2. row'[x].filled = row[x].filled
    BY <1>2
  <2>3. QED
    BY <1>1, <2>1, <2>2 DEF Exact, RecordsExact, OwedTrade, OwedPosition, AheadTrade, AheadPosition
<1>4. SyncExact(p)'
  BY <1>1 DEF Exact, SyncExact, Reconciling
<1>5. QED
  BY <1>3, <1>4 DEF Exact

LEMMA ExactVenue ==
  ASSUME Base, Base', Over, NEW p \in Procs, Exact(p), NEW o \in Orders, NEW l \in Legs,
         VenueFills(o, l) \/ VenueCancels(o, l)
  PROVE Exact(p)'
<1>1. worker' = worker /\ row' = row /\ UNCHANGED <<traded, applied>> /\ VenueGrows
  BY VenueStep
<1>2. \A x \in Orders : NonePlaced(x)
  BY VenueStep DEF NonePlaced
<1>3. ASSUME NEW x \in Orders PROVE RowExact(x)' /\ RecordsExact(x, worker[p])'
  <2>1. RowExact(x)'
    BY <1>1, <1>2, RowExactFrame DEF Exact, Over
  <2>2. QED
    BY <1>1, <2>1 DEF Exact, RecordsExact, OwedTrade, OwedPosition, AheadTrade, AheadPosition
<1>4. SyncExact(p)'
  BY <1>1 DEF Exact, SyncExact, Reconciling
<1>5. QED
  BY <1>3, <1>4 DEF Exact

LEMMA ExactClaims ==
  ASSUME Base, Base', Over, NEW p \in Procs, Exact(p), NEW o \in Orders, Claim(p, o) \/ SentClaimed(p, o)
  PROVE Exact(p)'
<1>1. /\ worker[p].pc = "idle" /\ worker'[p].ord = o /\ worker'[p].pc \in {"dispatch", "query"}
      /\ venue' = venue /\ UNCHANGED <<traded, applied>>
      /\ row'[o].filled = row[o].filled /\ row'[o].tracked = row[o].tracked
      /\ row'[o].st \in {"processing", "syncing"} /\ \A x \in Orders \ {o} : row'[x] = row[x]
      /\ worker'[p].after = "idle"
  BY ClaimStep, SentClaimStep
<1>2. worker[p].ord = NoOrder /\ VenueGrows /\ \A x \in Orders : NonePlaced(x)
  BY <1>1, Stages, VenueSame, NonePlacedSame
<1>3. RowExact(o)' /\ RecordsExact(o, worker[p])'
  <2>1. RowExact(o)'
    BY <1>1 DEF Exact, RowExact
  <2>2. RecordsExact(o, worker[p]) /\ worker[p].pc \notin {"record", "position", "trade", "snapshot"}
        /\ worker'[p].pc \notin {"record", "position", "trade", "snapshot"}
    BY <1>1 DEF Exact
  <2>3. traded[o] = row[o].filled /\ applied[o] = row[o].filled
    BY <2>2, RecordsRest
  <2>4. QED
    BY <1>1, <2>1, <2>2, <2>3, RecordsRestNext
<1>4. SyncExact(p)'
  <2>1. CASE Claim(p, o)
    <3>1. ~Reconciling(p)'
      BY <2>1, ClaimStep DEF Reconciling
    <3>2. QED
      BY <3>1 DEF SyncExact
  <2>2. CASE SentClaimed(p, o)
    <3>1. worker'[p].pc = "query" /\ worker'[p].prev = row[o].filled /\ worker'[p].base = TrackedFillBaseline(row[o])
      BY <2>2, SentClaimStep
    <3>2. TrackedFillBaseline(row[o]) = row[o].filled
      BY DEF Exact, RowExact, TrackedFillBaseline
    <3>3. QED
      BY <3>1, <3>2 DEF SyncExact
  <2>3. QED
    BY <2>1, <2>2
<1>5. worker[p].ord \in {o, NoOrder} /\ worker'[p].ord \in {o, NoOrder}
  BY <1>1, <1>2
<1>6. QED
  BY <1>1, <1>2, <1>3, <1>4, <1>5, ExactFrame

\* A dispatch that has stored nothing yet, and the ways it ends without a result.
LEMMA ExactDispatch ==
  ASSUME Base, Base', ClaimInv, NoMaker, Over, NEW p \in Procs, Exact(p),
         RejectDispatch(p) \/ PlaceRefused(p) \/ PlaceLost(p) \/ NotifySignal(p) \/ Place(p) \/ WaitMarket(p)
  PROVE Exact(p)'
<1>1. worker[p].pc \in {"dispatch", "market", "wait"} /\ Early(p)
  BY BaseFail, NotifyStep, PlaceStep, PlaceLegs, WaitMarketStep DEF Early
<1>2. PICK o \in Orders : o = worker[p].ord
  BY <1>1, OnOrder
<1>3. row[o].leg = NoLeg /\ row[o].st = "processing" /\ row[o].filled = 0 /\ row[o].tracked = -1
      /\ traded[o] = 0 /\ applied[o] = 0
  BY <1>1, <1>2 DEF ClaimInv
<1>4. VenueGrows
  BY CoreVenueGrows DEF CoreNext, WorkerStep, DispatchStep
<1>5. UNCHANGED <<traded, applied>>
  BY DEF RejectDispatch, PlaceRefused, PlaceLost, NotifySignal, Place, WaitMarket, MarkFailed
<1>6. \A x \in Orders \ {o} : NonePlaced(x)
  <2>1. CASE venue' = venue
    BY <2>1, NonePlacedSame
  <2>2. CASE PlaceLost(p) \/ Place(p)
    BY <1>2, <2>2, AcceptStep DEF PlaceLost, Place, NonePlaced
  <2>3. QED
    BY <2>1, <2>2 DEF RejectDispatch, PlaceRefused, NotifySignal, WaitMarket
<1>7. /\ worker'[p].ord \in {o, NoOrder} /\ worker'[p].pc \in {"idle", "wait", "sent"} /\ worker'[p].after = "idle"
      /\ row'[o].st \in {"processing", "failed", "sent"} /\ row'[o].filled = 0 /\ row'[o].tracked = -1
      /\ \A x \in Orders \ {o} : row'[x] = row[x]
  <2>1. CASE RejectDispatch(p) \/ PlaceRefused(p) \/ PlaceLost(p)
    BY <1>1, <1>2, <1>3, <2>1, BaseFail, FailStep, NullsTyped DEF Leaves
  <2>2. CASE NotifySignal(p)
    BY <1>2, <1>3, <2>2, NotifyStep, NullsTyped DEF Leaves
  <2>3. CASE Place(p)
    BY <1>1, <1>2, <1>3, <2>3, PlaceStep, AfterOf DEF Moves
  <2>4. CASE WaitMarket(p)
    BY <1>1, <1>2, <1>3, <2>4, WaitMarketStep, AfterOf DEF Moves
  <2>5. QED
    BY <2>1, <2>2, <2>3, <2>4
<1>8. RowExact(o)' /\ SyncExact(p)'
  BY <1>7 DEF RowExact, SyncExact, Reconciling
<1>9. RecordsExact(o, worker[p])'
  BY <1>3, <1>5, <1>7, RecordsRestNext
<1>10. QED
  BY <1>2, <1>4, <1>5, <1>6, <1>7, <1>8, <1>9, ExactFrame

LEMMA ExactSent ==
  ASSUME Base, Base', ClaimInv, ReadInv, NoMaker, Over, NEW p \in Procs, Exact(p), MarkSent(p)
  PROVE Exact(p)'
<1>1. PICK o \in Orders, l \in Legs, f \in Nat : o = worker[p].ord /\ l = worker[p].leg /\ f = FinalFill(p)
  BY MarkSentStep, SentResult DEF Over
<1>2. /\ row'[o].leg = l /\ row'[o].filled = f /\ row'[o].tracked = -1 /\ row[o].leg = NoLeg
      /\ row'[o].st \in {"sent", "filled"} /\ (row'[o].st = "filled" => venue[o][l].fill = f)
  BY <1>1, SentResult DEF Over
<1>3. /\ UNCHANGED <<venue, traded, applied>> /\ VenueGrows /\ \A x \in Orders \ {o} : row'[x] = row[x] /\ NonePlaced(x)
      /\ worker'[p].pc = "record" /\ worker'[p].got = f /\ worker'[p].after = "idle" /\ worker'[p].ord = o
  BY <1>1, MarkSentStep, VenueSame, NonePlacedSame, AfterOf DEF Moves
<1>4. traded[o] = 0 /\ applied[o] = 0
  BY <1>2 DEF ClaimInv
<1>5. RowExact(o)' /\ SyncExact(p)'
  BY <1>2, <1>3 DEF RowExact, SyncExact, Reconciling
<1>6. /\ OwedTrade(o, worker[p])' = f /\ OwedPosition(o, worker[p])' = f
      /\ AheadTrade(o, worker[p])' = 0 /\ AheadPosition(o, worker[p])' = 0
  <2>1. MaxOf(0, worker'[p].got - traded'[o]) = f
    BY <1>3, <1>4 DEF MaxOf
  <2>2. QED
    BY <1>3, <2>1 DEF OwedTrade, OwedPosition, AheadTrade, AheadPosition
<1>7. RecordsExact(o, worker[p])'
  BY <1>2, <1>3, <1>4, <1>6 DEF RecordsExact
<1>8. QED
  BY <1>1, <1>3, <1>5, <1>7, ExactFrame

LEMMA ExactRead ==
  ASSUME Base, Base', Over, NEW p \in Procs, Exact(p), ReadUnrecorded(p)
  PROVE Exact(p)'
<1>1. PICK o \in Orders : o = worker[p].ord
  BY ReadStep, OnOrder
<1>2. /\ UNCHANGED <<row, venue, traded, applied>> /\ VenueGrows /\ \A x \in Orders : NonePlaced(x)
      /\ worker[p].pc = "record" /\ worker[p].after = "idle"
  BY ReadStep, VenueSame, NonePlacedSame
<1>3. PICK d \in Nat : d = MaxOf(0, worker[p].got - traded[o])
  BY DEF MaxOf, Base, PendingTypeOK, Thread
<1>4. /\ OwedTrade(o, worker[p]) = d /\ OwedPosition(o, worker[p]) = d
      /\ AheadTrade(o, worker[p]) = 0 /\ AheadPosition(o, worker[p]) = 0
  BY <1>1, <1>2, <1>3 DEF OwedTrade, OwedPosition, AheadTrade, AheadPosition
<1>5. traded[o] + d = row[o].filled + 0 /\ applied[o] + d = row[o].filled + 0
  BY <1>4 DEF Exact, RecordsExact
<1>6. RowExact(o)'
  BY <1>2, RowExactFrame DEF Exact, Over
<1>7. CASE Leaves(p)
  <2>1. d = 0
    <3> SUFFICES ASSUME d > 0 PROVE FALSE
      BY <1>3
    <3>1. worker'[p].pc = "position"
      BY <1>1, <1>3 DEF ReadUnrecorded, UnrecordedPendingFill, SetWorker, Base, PendingTypeOK, Thread
    <3>2. QED
      BY <1>7, <3>1, NullsTyped DEF Leaves
  <2>2. worker'[p].ord = NoOrder /\ worker'[p].pc = "idle" /\ worker'[p].after = "idle"
    BY <1>7, NullsTyped DEF Leaves
  <2>3. traded'[o] = row'[o].filled /\ applied'[o] = row'[o].filled
    BY <1>2, <1>5, <2>1, TermType
  <2>4. RecordsExact(o, worker[p])' /\ SyncExact(p)'
    BY <2>2, <2>3, RecordsRestNext DEF SyncExact, Reconciling
  <2>5. QED
    BY <1>1, <1>2, <1>6, <2>2, <2>4, ExactFrame
<1>8. CASE ~Leaves(p)
  <2>1. worker'[p].ord = o /\ worker'[p].pc = "position" /\ worker'[p].after = "idle" /\ worker'[p].delta = d
    BY <1>1, <1>2, <1>3, <1>8, ReadStep DEF Moves
  <2>2. /\ OwedTrade(o, worker[p])' = d /\ OwedPosition(o, worker[p])' = d
        /\ AheadTrade(o, worker[p])' = 0 /\ AheadPosition(o, worker[p])' = 0
    BY <2>1 DEF OwedTrade, OwedPosition, AheadTrade, AheadPosition
  <2>3. RecordsExact(o, worker[p])'
    BY <1>2, <1>5, <2>2 DEF RecordsExact
  <2>4. SyncExact(p)'
    BY <2>1 DEF SyncExact, Reconciling
  <2>5. QED
    BY <1>1, <1>2, <1>6, <2>1, <2>3, <2>4, ExactFrame
<1>9. QED
  BY <1>7, <1>8

LEMMA ExactPersist ==
  ASSUME Base, Base', Over, NEW p \in Procs, Exact(p), ApplyPosition(p) \/ RecordTrade(p)
  PROVE Exact(p)'
<1>1. PICK o \in Orders, d \in Nat : o = worker[p].ord /\ d = worker[p].delta
  BY ApplyStep, TradeStep, OnOrder DEF Base, PendingTypeOK, Thread
<1>2. UNCHANGED <<row, venue>> /\ VenueGrows /\ \A x \in Orders : NonePlaced(x)
  BY ApplyStep, TradeStep, VenueSame, NonePlacedSame
<1>3. RowExact(o)' /\ RecordsExact(o, worker[p])
  BY <1>2, RowExactFrame DEF Exact, Over
<1>4. traded[o] \in Nat /\ applied[o] \in Nat /\ row[o].filled \in Nat
  BY TermType
<1>5. worker[p].after \in {"idle", "snapshot"}
  BY AfterOf
<1>6. CASE ApplyPosition(p)
  <2>1. /\ worker[p].pc = "position" /\ worker'[p].pc = "trade" /\ worker'[p].ord = o /\ worker'[p].after = worker[p].after
        /\ worker'[p].delta = d /\ applied'[o] = applied[o] + d /\ traded' = traded
        /\ \A x \in Orders \ {o} : applied'[x] = applied[x]
    BY <1>1, <1>6, ApplyStep DEF Moves
  <2>2. RecordsExact(o, worker[p])'
    <3>1. CASE worker[p].after = "idle"
      <4>1. /\ OwedTrade(o, worker[p]) = d /\ OwedPosition(o, worker[p]) = d
            /\ AheadTrade(o, worker[p]) = 0 /\ AheadPosition(o, worker[p]) = 0
            /\ OwedTrade(o, worker[p])' = d /\ OwedPosition(o, worker[p])' = 0
            /\ AheadTrade(o, worker[p])' = 0 /\ AheadPosition(o, worker[p])' = 0
        BY <1>1, <2>1, <3>1 DEF OwedTrade, OwedPosition, AheadTrade, AheadPosition
      <4>2. QED
        BY <1>2, <1>3, <1>4, <2>1, <4>1 DEF RecordsExact
    <3>2. CASE worker[p].after = "snapshot"
      <4>1. /\ OwedTrade(o, worker[p]) = 0 /\ OwedPosition(o, worker[p]) = 0
            /\ AheadTrade(o, worker[p]) = 0 /\ AheadPosition(o, worker[p]) = 0
            /\ OwedTrade(o, worker[p])' = 0 /\ OwedPosition(o, worker[p])' = 0
            /\ AheadTrade(o, worker[p])' = 0 /\ AheadPosition(o, worker[p])' = d
        BY <1>1, <2>1, <3>2 DEF OwedTrade, OwedPosition, AheadTrade, AheadPosition
      <4>2. QED
        BY <1>2, <1>3, <1>4, <2>1, <4>1 DEF RecordsExact
    <3>3. QED
      BY <1>5, <3>1, <3>2
  <2>3. SyncExact(p)'
    <3>1. /\ worker'[p].base = worker[p].base /\ worker'[p].prev = worker[p].prev /\ worker'[p].cum = worker[p].cum
          /\ worker'[p].delta = worker[p].delta
      BY <1>6, ApplyStep DEF Moves
    <3>2. Reconciling(p)' => Reconciling(p)
      BY <2>1 DEF Reconciling
    <3>3. QED
      BY <2>1, <3>1, <3>2 DEF Exact, SyncExact
  <2>4. QED
    BY <1>1, <1>2, <1>3, <2>1, <2>2, <2>3, ExactFrame
<1>7. CASE RecordTrade(p)
  <2>1. /\ worker[p].pc = "trade" /\ traded'[o] = traded[o] + d /\ applied' = applied
        /\ \A x \in Orders \ {o} : traded'[x] = traded[x]
    BY <1>1, <1>7, TradeStep
  <2>2. CASE worker[p].after = "idle"
    <3>1. worker'[p].ord = NoOrder /\ worker'[p].pc = "idle" /\ worker'[p].after = "idle"
      BY <1>7, <2>2, TradeStep, NullsTyped DEF Leaves
    <3>2. /\ OwedTrade(o, worker[p]) = d /\ OwedPosition(o, worker[p]) = 0
          /\ AheadTrade(o, worker[p]) = 0 /\ AheadPosition(o, worker[p]) = 0
      BY <1>1, <2>1, <2>2 DEF OwedTrade, OwedPosition, AheadTrade, AheadPosition
    <3>3. traded'[o] = row'[o].filled /\ applied'[o] = row'[o].filled
      BY <1>2, <1>3, <1>4, <2>1, <3>2 DEF RecordsExact
    <3>4. RecordsExact(o, worker[p])' /\ SyncExact(p)'
      BY <3>1, <3>3, RecordsRestNext DEF SyncExact, Reconciling
    <3>5. QED
      BY <1>1, <1>2, <1>3, <2>1, <3>1, <3>4, ExactFrame
  <2>3. CASE worker[p].after = "snapshot"
    <3>1. /\ worker'[p].ord = o /\ worker'[p].pc = "snapshot" /\ worker'[p].after = "snapshot" /\ worker'[p].delta = d
          /\ worker'[p].base = worker[p].base /\ worker'[p].prev = worker[p].prev /\ worker'[p].cum = worker[p].cum
      BY <1>1, <1>7, <2>3, TradeStep DEF Moves
    <3>2. /\ OwedTrade(o, worker[p]) = 0 /\ OwedPosition(o, worker[p]) = 0
          /\ AheadTrade(o, worker[p]) = 0 /\ AheadPosition(o, worker[p]) = d
          /\ OwedTrade(o, worker[p])' = 0 /\ OwedPosition(o, worker[p])' = 0
          /\ AheadTrade(o, worker[p])' = d /\ AheadPosition(o, worker[p])' = d
      BY <1>1, <2>1, <2>3, <3>1 DEF OwedTrade, OwedPosition, AheadTrade, AheadPosition
    <3>3. RecordsExact(o, worker[p])'
      BY <1>2, <1>3, <1>4, <2>1, <3>2 DEF RecordsExact
    <3>4. SyncExact(p)'
      BY <1>1, <2>1, <2>3, <3>1 DEF Exact, SyncExact, Reconciling
    <3>5. QED
      BY <1>1, <1>2, <1>3, <2>1, <3>1, <3>3, <3>4, ExactFrame
  <2>4. QED
    BY <1>5, <2>2, <2>3
<1>8. QED
  BY <1>6, <1>7

LEMMA ExactQuery ==
  ASSUME Base, Base', ClaimInv, TrackInv, NoAudit, Over, NEW p \in Procs, Exact(p),
         QueryFill(p), "noPrice" \notin faults'
  PROVE Exact(p)'
<1>1. Reconciling(p) /\ worker[p].pc = "query" /\ worker[p].after = "idle"
  BY QueryStep, AfterOf DEF Reconciling
<1>2. PICK o \in Orders, l \in Legs :
        o = worker[p].ord /\ l = worker[p].leg /\ l = row[o].leg /\ row[o].filled = worker[p].prev
  BY <1>1, SyncLeg
<1>3. PICK n \in Nat : n = venue[o][l].fill /\ n = CurrentLeg(p).fill
  BY <1>1, <1>2, LegOfThread
<1>4. worker[p].prev \in Nat /\ worker[p].base = worker[p].prev /\ worker[p].prev <= n
  <2>1. row[o].filled <= n
    <3>1. Without({"audit"})
      BY DEF NoAudit, Without
    <3>2. RowTracked(o) /\ row[o].leg # NoLeg
      BY <1>2, <3>1, LegFacts DEF TrackInv
    <3>3. QED
      BY <1>2, <1>3, <3>2 DEF RowTracked
  <2>2. QED
    BY <1>1, <1>2, <2>1, TermType DEF Exact, SyncExact
<1>5. /\ UNCHANGED <<row, venue, traded, applied>> /\ VenueGrows /\ \A x \in Orders : NonePlaced(x)
      /\ worker'[p].ord = o /\ worker'[p].prev = worker[p].prev /\ worker'[p].base = worker[p].base
      /\ worker'[p].cum = n /\ worker'[p].delta = MaxOf(0, n - worker[p].base) /\ worker'[p].after = "snapshot"
      /\ worker'[p].pc = IF worker'[p].delta > 0 THEN "position" ELSE "snapshot"
  BY <1>2, <1>3, QueryStep, VenueSame, NonePlacedSame DEF Moves
<1>6. PICK d \in Nat : d = worker'[p].delta /\ n = worker[p].prev + d
  BY <1>3, <1>4, <1>5 DEF MaxOf
<1>7. SyncExact(p)'
  BY <1>4, <1>5, <1>6 DEF SyncExact
<1>8. RowExact(o)' /\ RecordsExact(o, worker[p])
  BY <1>5, RowExactFrame DEF Exact, Over
<1>9. traded[o] = row[o].filled /\ applied[o] = row[o].filled
  BY <1>1, <1>8, RecordsRest
<1>10. /\ OwedTrade(o, worker[p])' = 0 /\ OwedPosition(o, worker[p])' = 0
       /\ AheadTrade(o, worker[p])' = 0 /\ AheadPosition(o, worker[p])' = 0
  BY <1>5, <1>6 DEF OwedTrade, OwedPosition, AheadTrade, AheadPosition
<1>11. RecordsExact(o, worker[p])'
  BY <1>5, <1>9, <1>10, TermType DEF RecordsExact
<1>12. QED
  BY <1>2, <1>5, <1>7, <1>8, <1>11, ExactFrame

LEMMA ExactSyncEnds ==
  ASSUME Base, Base', ClaimInv, TrackInv, NoAudit, Over, NEW p \in Procs, Exact(p),
         QueryFails(p) \/ UpdateSnapshot(p)
  PROVE Exact(p)'
<1>1. Reconciling(p) /\ worker[p].pc \in {"query", "snapshot"} /\ SyncEnds(p)
  BY QueryFailsStep, SnapshotStep DEF Reconciling
<1>2. PICK o \in Orders, l \in Legs : /\ o = worker[p].ord /\ l = worker[p].leg /\ l = row[o].leg
                                      /\ row[o].filled = worker[p].prev /\ row[o].st = "syncing"
  BY <1>1, SyncLeg
<1>3. /\ UNCHANGED <<venue, traded, applied>> /\ VenueGrows /\ \A x \in Orders : NonePlaced(x)
      /\ worker'[p].ord = NoOrder /\ worker'[p].pc = "idle" /\ worker'[p].after = "idle"
      /\ row'[o].leg = l /\ \A x \in Orders \ {o} : row'[x] = row[x]
  BY <1>1, <1>2, VenueSame, NonePlacedSame, NullsTyped DEF SyncEnds, Leaves
<1>4. RowExact(o) /\ RecordsExact(o, worker[p]) /\ SyncExact(p)
  BY DEF Exact
<1>5. SyncExact(p)'
  BY <1>3 DEF SyncExact, Reconciling
<1>6. CASE QueryFails(p)
  <2>1. worker[p].pc = "query" /\ row'[o].filled = row[o].filled /\ row'[o].tracked \in {row[o].tracked, -1}
        /\ row'[o].st \in {"syncing", "sent"}
    BY <1>2, <1>6, QueryFailsStep
  <2>2. RowExact(o)'
    BY <1>4, <2>1 DEF RowExact
  <2>3. traded[o] = row[o].filled /\ applied[o] = row[o].filled
    BY <1>4, <2>1, RecordsRest
  <2>4. RecordsExact(o, worker[p])'
    BY <1>3, <2>1, <2>3, RecordsRestNext
  <2>5. QED
    BY <1>2, <1>3, <1>5, <2>2, <2>4, ExactFrame
<1>7. CASE UpdateSnapshot(p)
  <2>1. worker[p].pc = "snapshot" /\ row'[o].filled = AggregateFill(p) /\ row'[o].tracked = worker[p].cum
    BY <1>2, <1>7, SnapshotStep
  <2>2. /\ worker[p].cum = worker[p].prev + worker[p].delta /\ worker[p].prev \in Nat /\ worker[p].delta \in Nat
        /\ AggregateFill(p) = worker[p].cum
    BY <1>1, <1>4, <2>1 DEF SyncExact, AggregateFill, Base, PendingTypeOK, Thread
  <2>3. row'[o].st \in {"filled", "cancelled"} => venue[o][l].fill = AggregateFill(p)
    BY <1>2, <1>4, <1>7, SnapshotResult DEF Over
  <2>4. RowExact(o)'
    BY <1>3, <2>1, <2>2, <2>3 DEF RowExact
  <2>5. /\ OwedTrade(o, worker[p]) = 0 /\ OwedPosition(o, worker[p]) = 0
        /\ AheadTrade(o, worker[p]) = worker[p].delta /\ AheadPosition(o, worker[p]) = worker[p].delta
    BY <1>2, <2>1 DEF OwedTrade, OwedPosition, AheadTrade, AheadPosition
  <2>6. traded[o] = row'[o].filled /\ applied[o] = row'[o].filled
    BY <1>2, <1>4, <2>1, <2>2, <2>5, TermType DEF RecordsExact
  <2>7. RecordsExact(o, worker[p])'
    BY <1>3, <2>6, RecordsRestNext
  <2>8. QED
    BY <1>2, <1>3, <1>5, <2>4, <2>7, ExactFrame
<1>8. QED
  BY <1>6, <1>7

LEMMA ExactInvStep ==
  ASSUME LaneCore, LaneCore', ExactInv, NEW p, Procs = {p}, Next PROVE ExactInv'
<1> USE DEF LaneCore
<1>0. p \in Procs
  OBVIOUS
<1>1. faults \subseteq faults'
  BY NextIsCore, CoreFaults DEF Base, vars
<1>2. ExactInv <=> (Without({"crash", "syncCrash", "noPrice"}) => Exact(p))
  BY DEF ExactInv, Exact
<1>3. ExactInv' <=> (Without({"crash", "syncCrash", "noPrice"})' => Exact(p)')
  BY DEF ExactInv, Exact
<1> SUFFICES ASSUME Without({"crash", "syncCrash", "noPrice"})' PROVE Exact(p)'
  BY <1>3
<1>4. Exact(p) /\ Over
  <2>1. Without({"crash", "syncCrash", "noPrice"})
    BY <1>1, FaultsKept
  <2>2. Without({"crash"})
    BY <2>1 DEF Without
  <2>3. QED
    BY <1>2, <2>1, <2>2 DEF OverInv, Over
<1>5. "noPrice" \notin faults' /\ "crash" \notin faults' /\ "syncCrash" \notin faults'
  BY DEF Without
<1>6. ~Crash(p)
  BY <1>5 DEF Crash, Fault
<1>7. ASSUME WorkerStep(p) PROVE Exact(p)'
  <2>1. ~QueryNoPrice(p)
    BY <1>5 DEF QueryNoPrice, Fault
  <2>2. QED
    BY <1>0, <1>4, <1>5, <1>7, <2>1, PlainWorker, ExactDispatch, ExactSent, ExactRead, ExactPersist, ExactQuery,
       ExactSyncEnds DEF WorkerStep, DispatchStep, SyncStep, PersistStep
<1>8. ASSUME NEW o \in Orders, ClaimSent(p, o) PROVE SentClaimed(p, o)
  BY <1>8 DEF ClaimSent, SentClaimed, Base, PendingTypeOK
<1>9. QED
  BY <1>0, <1>4, <1>6, <1>7, <1>8, ExactQueue, ExactClaims, ExactVenue DEF Next

\* A closed row at rest has one leg, which is over and which it holds exactly.
LEMMA ExactSettled ==
  ASSUME LaneCore, ExactInv, NEW p, Procs = {p} PROVE SettledRow
<1> USE DEF LaneCore
<1> SUFFICES ASSUME NEW o \in Orders, row[o].st \in {"filled", "cancelled"}, ~Busy(o),
                    Without({"crash", "syncCrash", "noPrice"})
             PROVE /\ \A l \in Legs : venue[o][l].st # "open"
                   /\ row[o].filled = VenueFill(o) /\ traded[o] = VenueFill(o) /\ applied[o] = VenueFill(o)
  BY DEF SettledRow
<1>1. p \in Procs /\ worker[p].ord # o
  BY DEF Busy
<1>2. OneLegOK(o) /\ RowExact(o) /\ RecordsExact(o, worker[p])
  BY <1>1 DEF OverInv, ExactInv, Without
<1>3. PICK l \in Legs : l = row[o].leg /\ venue[o][l].st # "open" /\ row[o].filled = venue[o][l].fill
  BY <1>2 DEF OneLegOK, RowExact, Base, PendingTypeOK, Row
<1>4. \A m \in Legs \ {l} : venue[o][m].st = "none" /\ venue[o][m].fill = 0
  BY <1>2, <1>3, LegFacts, NullsTyped DEF OneLegOK, Base, LegInv
<1>5. traded[o] = row[o].filled /\ applied[o] = row[o].filled
  BY <1>1, <1>2, RecordsRest
<1>6. VenueFill(o) = venue[o][l].fill
  <2> DEFINE v == [m \in Legs |-> venue[o][m].fill]
  <2>1. v \in [Legs -> Nat] /\ v[l] = venue[o][l].fill /\ VenueFill(o) = Total(v)
    BY AmountAssumption DEF Base, PendingTypeOK, VenueLeg, VenueFill
  <2>2. \A m \in Legs \ {l} : v[m] = 0
    BY <1>4
  <2> HIDE DEF v
  <2>3. Total(v) = v[l]
    BY <2>1, <2>2, TotalOne, LegsFinite
  <2>4. QED
    BY <2>1, <2>3
<1>7. QED
  BY <1>3, <1>4, <1>5, <1>6

\* Where one worker does all the work, as the lease of the trading services has
\* it, and limit-then-market orders are left out, a row that has come to rest as
\* filled or cancelled is settled: the row, the trades and the position hold what
\* the venue filled and nothing is open there, unless a worker died or a fill
\* came without its price (_mark_sent, persist_strategy_fill,
\* _sync_live_sent_orders, _sync_alpaca_sent_orders).
THEOREM RowsSettle ==
  ASSUME NEW p, Procs = {p}, "maker" \notin Algos
  PROVE Spec => []SettledRow
<1> DEFINE I == LaneCore /\ ExactInv
<1>1. Paced
  BY DEF Paced
<1>2. Init => I
  <2> SUFFICES ASSUME Init PROVE I
    OBVIOUS
  <2>1. LaneCore
    BY LaneCoreInit
  <2>2. p \in Procs /\ worker[p] = Idle
    BY DEF Init
  <2>3. /\ NoRow.filled = 0 /\ NoRow.tracked = -1
        /\ \A o \in Orders : row[o] = NoRow /\ traded[o] = 0 /\ applied[o] = 0
    BY DEF Init, NoRow
  <2>4. \A o \in Orders : RowExact(o)
    BY <2>3, NullsTyped DEF RowExact
  <2>5. ASSUME NEW o \in Orders PROVE RecordsExact(o, worker[p])
    <3>1. worker[p].ord # o
      BY <2>2, NullsTyped, OrdersAssumption
    <3>2. QED
      BY <2>1, <2>2, <2>3, <3>1, RecordsRest DEF LaneCore
  <2>6. SyncExact(p)
    BY <2>2, NullsTyped DEF SyncExact, Reconciling
  <2>7. QED
    BY <2>1, <2>2, <2>4, <2>5, <2>6 DEF ExactInv
<1>3. I /\ [Next]_vars => I'
  <2> SUFFICES ASSUME I, [Next]_vars PROVE I'
    OBVIOUS
  <2>1. CASE Next
    <3>1. LaneCore'
      BY <1>1, <2>1, LaneCoreStep
    <3>2. QED
      BY <2>1, <3>1, ExactInvStep
  <2>2. CASE UNCHANGED vars
    <3>1. ExactInv'
      BY <2>2 DEF ExactInv, RowExact, RecordsExact, SyncExact, OwedTrade, OwedPosition, AheadTrade, AheadPosition,
         Reconciling, Without, vars
    <3>2. QED
      BY <2>2, <3>1, LaneCoreStutter
  <2>3. QED
    BY <2>1, <2>2
<1>4. I => SettledRow
  BY ExactSettled
<1> HIDE DEF I
<1>5. QED
  BY <1>2, <1>3, <1>4, PTL DEF Spec
=============================================================================
