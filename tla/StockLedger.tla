---------------------------- MODULE StockLedger ----------------------------
(***************************************************************************)
(* Stock movements of the inventory module: InventoryCommonService's       *)
(* allocateLotsFIFO and applyBalanceDelta, called line by line inside one  *)
(* database transaction by every flow that moves stock (order approval,    *)
(* transfer dispatch and receipt, goods receipt).                          *)
(*                                                                         *)
(* PostgreSQL runs the transactions at READ COMMITTED, the default the     *)
(* code leaves in place: a statement sees what is committed when it starts *)
(* plus the transaction's own writes; an UPDATE or an upsert locks its row *)
(* until the transaction ends and is applied to the row's latest committed *)
(* version.  So a transaction is kept as the set of its pending changes,   *)
(* private to its worker until Commit makes them all visible at once.      *)
(***************************************************************************)
EXTENDS Integers, Sequences, FiniteSets, Functions, Relation

CONSTANTS
    Workers,    \* requests in flight, each with a database connection
    Keys,       \* the (warehouse_id, sku_id) pairs with stock
    Requests,   \* the line sequences a flow may post in one transaction
    MaxLots,    \* bound: rows of inv_lot
    InitLots,   \* the lots received before the behaviour starts
    InitOnHand  \* and the balances they were posted to

LotIds == 1..MaxLots

(* rank stands for (expiry_date NULLS LAST, received_at); the id breaks    *)
(* ties, as the ORDER BY of allocateLotsFIFO does.                          *)
Lot  == [key : Keys, rank : Nat, avail : Int]
Line == [dir : {"in", "out"}, key : Keys, qty : Nat \ {0}, rank : Nat]

ASSUME RequestsAssumption == Requests \subseteq Seq(Line)
ASSUME LotsAssumption ==
    /\ MaxLots \in Nat
    /\ DOMAIN InitLots \subseteq LotIds
    /\ InitLots \in [DOMAIN InitLots -> Lot]
    /\ InitOnHand \in [Keys -> Nat]
    /\ \A k \in Keys :
         InitOnHand[k] =
           SumFunctionOnSet([l \in DOMAIN InitLots |-> InitLots[l].avail],
                            {l \in DOMAIN InitLots : InitLots[l].key = k})

(* A lot is inserted with what was received; no race has overdrawn one yet.*)
ASSUME InitLotsAssumption == \A l \in DOMAIN InitLots : InitLots[l].avail >= 0

(* A transaction moves stock one way: dispatches and approvals are all     *)
(* OUT, receipts are all IN.                                               *)
ASSUME OneWayAssumption ==
    \A r \in Requests : \A i, j \in DOMAIN r : r[i].dir = r[j].dir

VARIABLES
    onHand,     \* committed inv_stock_balance.qty_on_hand, by key
    ledger,     \* committed inv_txn, by key: sum of qty_in minus qty_out
    lots,       \* committed inv_lot
    pc,         \* where each worker's transaction stands
    todo,       \* the lines left; Head is the line in progress
    snap,       \* rows selected by allocateLotsFIFO and not yet updated
    rem,        \* its local `remaining`
    delta,      \* pending change of qty_on_hand, by key
    held,       \* balance rows the transaction has locked
    posted,     \* pending inv_txn inserts, by key (net)
    taken,      \* pending decrements of inv_lot (a positive one is a lock)
    newLots,    \* pending inv_lot inserts
    raced       \* history: keys two open transactions worked on at once

committed == <<onHand, ledger, lots>>
pending == <<todo, snap, rem, delta, held, posted, taken, newLots>>
stockVars == <<committed, pc, pending, raced>>

IsPartial(f, S, T) == DOMAIN f \subseteq S /\ f \in [DOMAIN f -> T]
Zero(S) == [x \in S |-> 0]
NoLots == [l \in {} |-> 0]

SumAvail(k) ==
    SumFunctionOnSet([l \in DOMAIN lots |-> lots[l].avail],
                     {l \in DOMAIN lots : lots[l].key = k})

----------------------------------------------------------------------------
(* What a transaction sees and waits for.                                  *)

VisibleAvail(w, l) == lots[l].avail - taken[w][l]

(* The rows of allocateLotsFIFO's SELECT (qty_available > 0).              *)
Candidates(w, k) ==
    {l \in DOMAIN lots : lots[l].key = k /\ VisibleAvail(w, l) > 0}

EarlierLot(l, m) ==
    \/ lots[l].rank < lots[m].rank
    \/ lots[l].rank = lots[m].rank /\ l <= m

IsNextById(w, l) == \A m \in DOMAIN snap[w] : l <= m  \* mutant: no ORDER BY

(* l is the row the loop over the selected lots has come to.               *)
IsNext(w, l) == \A m \in DOMAIN snap[w] : EarlierLot(l, m)

LotFree(w, l) == \A v \in Workers \ {w} : taken[v][l] = 0
BalanceFree(w, k) == \A v \in Workers \ {w} : k \notin held[v]

(* v holds the row lock that w's next statement needs.                     *)
WaitsFor(w, v) ==
    /\ v # w
    /\ \/ /\ pc[w] = "take"
          /\ \E l \in DOMAIN snap[w] : IsNext(w, l) /\ taken[v][l] > 0
       \/ /\ pc[w] = "upsert"
          /\ Head(todo[w]).key \in held[v]

Deadlocked(w) ==
    LET waits == [p \in Workers \X Workers |-> WaitsFor(p[1], p[2])]
    IN  TransitiveClosure(waits, Workers)[w, w]

(* Keys a worker's open transaction has read or written.                   *)
Touches(v, k) ==
    \/ k \in held[v]
    \/ \E l \in DOMAIN snap[v] : lots[l].key = k
    \/ \E l \in DOMAIN lots : taken[v][l] > 0 /\ lots[l].key = k
    \/ \E l \in DOMAIN newLots[v] : newLots[v][l].key = k

NoteRace(w, k) ==
    raced' = IF \E v \in Workers \ {w} : Touches(v, k) THEN raced \cup {k}
                                                       ELSE raced

----------------------------------------------------------------------------
StockInit ==
    /\ lots = InitLots
    /\ onHand = InitOnHand
    /\ ledger = InitOnHand
    /\ pc = [w \in Workers |-> "idle"]
    /\ todo = [w \in Workers |-> <<>>]
    /\ snap = [w \in Workers |-> NoLots]
    /\ rem = [w \in Workers |-> 0]
    /\ delta = [w \in Workers |-> Zero(Keys)]
    /\ held = [w \in Workers |-> {}]
    /\ posted = [w \in Workers |-> Zero(Keys)]
    /\ taken = [w \in Workers |-> Zero(LotIds)]
    /\ newLots = [w \in Workers |-> NoLots]
    /\ raced = {}

(* Mutant: the balance rows stay locked when the transaction ends.         *)
DiscardKeepsLocks(w) ==
    /\ pc' = [pc EXCEPT ![w] = "idle"]
    /\ todo' = [todo EXCEPT ![w] = <<>>]
    /\ snap' = [snap EXCEPT ![w] = NoLots]
    /\ rem' = [rem EXCEPT ![w] = 0]
    /\ delta' = [delta EXCEPT ![w] = Zero(Keys)]
    /\ posted' = [posted EXCEPT ![w] = Zero(Keys)]
    /\ taken' = [taken EXCEPT ![w] = Zero(LotIds)]
    /\ newLots' = [newLots EXCEPT ![w] = NoLots]
    /\ UNCHANGED held

(* dataSource.transaction rolls back and rethrows when the callback throws *)
(* or its connection is lost: every pending change and lock goes.          *)
Discard(w) ==
    /\ pc' = [pc EXCEPT ![w] = "idle"]
    /\ todo' = [todo EXCEPT ![w] = <<>>]
    /\ snap' = [snap EXCEPT ![w] = NoLots]
    /\ rem' = [rem EXCEPT ![w] = 0]
    /\ delta' = [delta EXCEPT ![w] = Zero(Keys)]
    /\ held' = [held EXCEPT ![w] = {}]
    /\ posted' = [posted EXCEPT ![w] = Zero(Keys)]
    /\ taken' = [taken EXCEPT ![w] = Zero(LotIds)]
    /\ newLots' = [newLots EXCEPT ![w] = NoLots]

(* Mutant: inv_txn rows saved outside the transaction's manager survive.   *)
RollbackKeepsJournal(w) ==
    /\ Discard(w)
    /\ ledger' = [k \in Keys |-> ledger[k] + posted[w][k]]
    /\ UNCHANGED <<onHand, lots, raced>>

Rollback(w) == Discard(w) /\ UNCHANGED <<committed, raced>>

(* BEGIN.                                                                  *)
Begin(w, request) ==
    /\ pc[w] = "idle"
    /\ pc' = [pc EXCEPT ![w] = "line"]
    /\ todo' = [todo EXCEPT ![w] = request]
    /\ UNCHANGED <<committed, snap, rem, delta, held, posted, taken, newLots,
                   raced>>

(* An OUT line: insert its inv_txn row, select the lots, give up when they *)
(* do not cover the quantity.                                              *)
SelectLots(w) ==
    /\ pc[w] = "line" /\ todo[w] # <<>> /\ Head(todo[w]).dir = "out"
    /\ LET line == Head(todo[w])
           rows == [l \in Candidates(w, line.key) |-> VisibleAvail(w, l)]
       IN  IF SumFunction(rows) < line.qty
           THEN Rollback(w)
           ELSE /\ pc' = [pc EXCEPT ![w] = "take"]
                /\ snap' = [snap EXCEPT ![w] = rows]
                /\ rem' = [rem EXCEPT ![w] = line.qty]
                /\ posted' = [posted EXCEPT ![w][line.key] = @ - line.qty]
                /\ NoteRace(w, line.key)
                /\ UNCHANGED <<committed, todo, delta, held, taken, newLots>>

TakeAllOf(w, l) == rem[w]            \* mutant: takes past the lot

TakeOf(w, l) == IF snap[w][l] < rem[w] THEN snap[w][l] ELSE rem[w]

(* One UPDATE inv_lot SET qty_available = qty_available - take: the amount *)
(* comes from the earlier SELECT, the row is the latest version.           *)
TakeLot(w) ==
    /\ pc[w] = "take"
    /\ \E l \in DOMAIN snap[w] :
         /\ IsNext(w, l)
         /\ LotFree(w, l)
         /\ taken' = [taken EXCEPT ![w][l] = @ + TakeOf(w, l)]
         /\ rem' = [rem EXCEPT ![w] = @ - TakeOf(w, l)]
         /\ IF rem[w] = TakeOf(w, l)
            THEN /\ pc' = [pc EXCEPT ![w] = "upsert"]
                 /\ snap' = [snap EXCEPT ![w] = NoLots]
            ELSE /\ snap' = [snap EXCEPT ![w] = Restrict(@, DOMAIN @ \ {l})]
                 /\ UNCHANGED pc
    /\ UNCHANGED <<committed, todo, delta, held, posted, newLots, raced>>

UnusedIds ==
    LotIds \ (DOMAIN lots \cup UNION {DOMAIN newLots[v] : v \in Workers})

(* An IN line: insert inv_txn, the new inv_lot and their link.  The id is  *)
(* the smallest unused one, so that rolled back inserts do not use up the  *)
(* bounded ids.                                                            *)
InsertLot(w) ==
    /\ pc[w] = "line" /\ todo[w] # <<>> /\ Head(todo[w]).dir = "in"
    /\ LET line == Head(todo[w])
           row == [key |-> line.key, rank |-> line.rank, avail |-> line.qty]
       IN  /\ \E id \in UnusedIds :
                /\ \A m \in UnusedIds : id <= m
                /\ newLots' = [newLots EXCEPT
                     ![w] = [l \in DOMAIN @ \cup {id} |->
                               IF l = id THEN row ELSE @[l]]]
           /\ posted' = [posted EXCEPT ![w][line.key] = @ + line.qty]
           /\ pc' = [pc EXCEPT ![w] = "upsert"]
           /\ NoteRace(w, line.key)
           /\ UNCHANGED <<committed, todo, snap, rem, delta, held, taken>>

SignDropped(line) == line.qty        \* mutant: delta_on_hand: String(qtyOut)

Signed(line) == IF line.dir = "in" THEN line.qty ELSE -line.qty

(* Mutant: the upsert runs on the data source, outside the transaction.    *)
UpsertOutsideTransaction(w) ==
    /\ pc[w] = "upsert"
    /\ LET line == Head(todo[w])
       IN  onHand' = [onHand EXCEPT ![line.key] = @ + Signed(line)]
    /\ pc' = [pc EXCEPT ![w] = "check"]
    /\ UNCHANGED <<ledger, lots, pending, raced>>

(* applyBalanceDelta: INSERT ... ON CONFLICT DO UPDATE, a relative change  *)
(* of a locked row.                                                        *)
UpsertBalance(w) ==
    /\ pc[w] = "upsert"
    /\ LET line == Head(todo[w])
       IN  /\ BalanceFree(w, line.key)
           /\ held' = [held EXCEPT ![w] = @ \cup {line.key}]
           /\ delta' = [delta EXCEPT ![w][line.key] = @ + Signed(line)]
    /\ pc' = [pc EXCEPT ![w] = "check"]
    /\ UNCHANGED <<committed, todo, snap, rem, posted, taken, newLots, raced>>

(* Mutant: no negative guard.                                              *)
CheckDropped(w) ==
    /\ pc[w] = "check"
    /\ pc' = [pc EXCEPT ![w] = "line"]
    /\ todo' = [todo EXCEPT ![w] = Tail(@)]
    /\ UNCHANGED <<committed, snap, rem, delta, held, posted, taken, newLots,
                   raced>>

(* applyBalanceDelta: SELECT the row back, throw when it went negative.    *)
CheckBalance(w) ==
    /\ pc[w] = "check"
    /\ LET k == Head(todo[w]).key
       IN  IF onHand[k] + delta[w][k] < 0
           THEN Rollback(w)
           ELSE /\ pc' = [pc EXCEPT ![w] = "line"]
                /\ todo' = [todo EXCEPT ![w] = Tail(@)]
                /\ UNCHANGED <<committed, snap, rem, delta, held, posted,
                               taken, newLots, raced>>

(* COMMIT once every line is posted.                                       *)
Commit(w) ==
    /\ pc[w] = "line" /\ todo[w] = <<>>
    /\ onHand' = [k \in Keys |-> onHand[k] + delta[w][k]]
    /\ ledger' = [k \in Keys |-> ledger[k] + posted[w][k]]
    /\ lots' = [l \in DOMAIN lots \cup DOMAIN newLots[w] |->
                  IF l \in DOMAIN lots
                  THEN [lots[l] EXCEPT !.avail = @ - taken[w][l]]
                  ELSE newLots[w][l]]
    /\ Discard(w)
    /\ UNCHANGED raced

(* The connection or the process dies, or the database picks this          *)
(* transaction to break a deadlock.                                        *)
Crash(w) == pc[w] # "idle" /\ Rollback(w)
DeadlockVictim(w) == pc[w] # "idle" /\ Deadlocked(w) /\ Rollback(w)

Step(w) ==
    \/ SelectLots(w)
    \/ TakeLot(w)
    \/ InsertLot(w)
    \/ UpsertBalance(w)
    \/ CheckBalance(w)
    \/ Commit(w)

(* Bound: an IN request starts only when inv_lot has room for its lines.   *)
RoomFor(request) ==
    LET waiting(v) == Cardinality({i \in DOMAIN todo[v] : todo[v][i].dir = "in"})
                        + Cardinality(DOMAIN newLots[v])
        all == SumFunction([v \in Workers |-> waiting(v)])
    IN  \/ \A i \in DOMAIN request : request[i].dir = "out"
        \/ Cardinality(DOMAIN lots) + all + Len(request) <= MaxLots

StockNext ==
    \E w \in Workers :
        \/ \E request \in Requests : RoomFor(request) /\ Begin(w, request)
        \/ Step(w)
        \/ Crash(w)
        \/ DeadlockVictim(w)

(* A waiting transaction is queued by PostgreSQL on its row lock, in       *)
(* order, so one that can run again and again does run; a deadlock is      *)
(* detected after deadlock_timeout.  Nothing forces a crash.               *)
StockFairness ==
    \A w \in Workers : /\ SF_stockVars(Step(w))
                       /\ WF_stockVars(DeadlockVictim(w))

StockSafety == StockInit /\ [][StockNext]_stockVars
StockSpec == StockSafety /\ StockFairness

----------------------------------------------------------------------------
(* Properties.                                                             *)

(* Every variable has the shape of its table or local variable.            *)
StockTypeOK ==
    /\ onHand \in [Keys -> Int]
    /\ ledger \in [Keys -> Int]
    /\ IsPartial(lots, LotIds, Lot)
    /\ pc \in [Workers -> {"idle", "line", "take", "upsert", "check"}]
    /\ todo \in [Workers -> Seq(Line)]
    /\ DOMAIN snap = Workers
    /\ \A w \in Workers : IsPartial(snap[w], LotIds, Nat)
    /\ rem \in [Workers -> Nat]
    /\ delta \in [Workers -> [Keys -> Int]]
    /\ held \in [Workers -> SUBSET Keys]
    /\ posted \in [Workers -> [Keys -> Int]]
    /\ taken \in [Workers -> [LotIds -> Nat]]
    /\ DOMAIN newLots = Workers
    /\ \A w \in Workers : IsPartial(newLots[w], LotIds, Lot)
    /\ raced \subseteq Keys

(* The negative guard of applyBalanceDelta works under concurrency: no     *)
(* committed qty_on_hand is ever below zero, although the change and the   *)
(* test are separate statements and other transactions run in between.     *)
OnHandNeverNegative == \A k \in Keys : onHand[k] >= 0

(* What makes the guard work, and what the proofs rest on.  A balance row  *)
(* has one owner at a time; a transaction changes only rows it owns; a row *)
(* it owns would be left non-negative by its commit, save the one it is    *)
(* about to test; and its journal entries run ahead of its balance changes *)
(* by exactly the line between the two.                                    *)
LocksExclusive ==
    \A w, v \in Workers : w # v => held[w] \cap held[v] = {}

ChangesAreLocked ==
    \A w \in Workers : \A k \in Keys : delta[w][k] # 0 => k \in held[w]

InProgress(w, k) == todo[w] # <<>> /\ Head(todo[w]).key = k

LockedIsCovered ==
    \A w \in Workers : \A k \in held[w] :
        \/ onHand[k] + delta[w][k] >= 0
        \/ pc[w] = "check" /\ InProgress(w, k)

LineInProgress ==
    \A w \in Workers :
        /\ pc[w] \in {"take", "upsert", "check"} => todo[w] # <<>>
        /\ pc[w] = "take" => Head(todo[w]).dir = "out"
        /\ pc[w] = "idle" => posted[w] = Zero(Keys) /\ delta[w] = Zero(Keys)

JournalLead(w, k) ==
    IF pc[w] \in {"take", "upsert"} /\ InProgress(w, k)
    THEN Signed(Head(todo[w])) ELSE 0

JournalLeadsBalance ==
    \A w \in Workers : \A k \in Keys :
        posted[w][k] = delta[w][k] + JournalLead(w, k)

LocksProtectBalances ==
    /\ LocksExclusive
    /\ ChangesAreLocked
    /\ LockedIsCovered
    /\ LineInProgress
    /\ JournalLeadsBalance

(* The balance row always agrees with the journal: qty_on_hand is the sum  *)
(* of qty_in minus qty_out of the committed inv_txn rows of its key, the   *)
(* two being written by different statements of a transaction.             *)
BalanceIsLedger == \A k \in Keys : onHand[k] = ledger[k]

(* The lots of a key always add up to its balance: allocateLotsFIFO and    *)
(* applyBalanceDelta move the same quantity, in one transaction.           *)
LotsMatchBalance == \A k \in Keys : SumAvail(k) = onHand[k]

(* A lot is never overdrawn by allocateLotsFIFO as long as no two          *)
(* transactions work on its key at the same time: the plan made from the   *)
(* SELECT still fits the rows when the UPDATEs run.                        *)
LotsCoveredUnlessRaced ==
    \A l \in DOMAIN lots : lots[l].avail >= 0 \/ lots[l].key \in raced

(* First expired, first out: a commit draws on a lot only if it leaves     *)
(* nothing in the lots of the key that come before it, unless transactions *)
(* overlapped on the key.                                                  *)
EarliestLotsFirst ==
    [][\A l, m \in DOMAIN lots :
         (/\ l # m /\ lots[l].key = lots[m].key /\ EarlierLot(l, m)
          /\ lots[l].key \notin raced
          /\ lots'[m].avail < lots[m].avail)
         => lots'[l].avail <= 0]_stockVars

(* Every transaction ends, in spite of row locks taken in the order the    *)
(* caller lists the lines: no request waits for ever on another.           *)
TransactionsEnd == \A w \in Workers : pc[w] # "idle" ~> pc[w] = "idle"

Book == INSTANCE StockBook WITH book <- onHand

(* The promise of StockBook, kept by the committed balances.               *)
ImplementsStockBook == Book!BookSpec
============================================================================
