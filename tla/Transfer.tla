------------------------------ MODULE Transfer ------------------------------
(***************************************************************************)
(* Transfers from a centre warehouse to a distributor's: TransferService's *)
(* createAndDispatch and receive.  A dispatch takes the stock out at the   *)
(* centre and inserts the document in one transaction.  Receipts bring it  *)
(* in at the distributor, in parts: each saves the lines' new totals,      *)
(* computed from the ones it read, sets the status from what it sees, and  *)
(* bills the distributor for what it brought in.                           *)
(*                                                                         *)
(* A line's SKU and the two warehouses of a transfer do not change, so a   *)
(* line has one stock key at either end.                                   *)
(***************************************************************************)
EXTENDS StockLedger, SavedEntity

CONSTANTS
    TransferIds,
    LineNos,
    FromKey, ToKey,  \* the stock keys of a line
    Plans,           \* the items of a dispatch: [line, qty] in order
    Receipts         \* the lines of a receipt, likewise

LineLists == {s \in Seq([line : LineNos, qty : Nat \ {0}]) :
                s # <<>> /\ \A i, j \in DOMAIN s : s[i].line = s[j].line => i = j}

ASSUME FiniteAssumption == IsFiniteSet(TransferIds) /\ IsFiniteSet(LineNos)
ASSUME TransferAssumption ==
    /\ FromKey \in [LineNos -> Keys] /\ ToKey \in [LineNos -> Keys]
    /\ \A l, m \in LineNos : FromKey[l] # ToKey[m]
    /\ \A s \in Plans \cup Receipts : s \in LineLists

Posting(dir, keyOf, s) ==
    [i \in DOMAIN s |->
       [dir |-> dir, key |-> keyOf[s[i].line], qty |-> s[i].qty, rank |-> 1]]

Dispatched(plan) == Posting("out", FromKey, plan)
BroughtIn(receipt) == Posting("in", ToKey, receipt)

ASSUME PostingsAssumption ==
    Requests = {Dispatched(p) : p \in Plans} \cup {BroughtIn(r) : r \in Receipts}

VARIABLES
    transfer,   \* committed inv_transfer rows
    items,      \* committed inv_transfer_item rows, by transfer and line
    billed,     \* committed ar_invoice_item: quantity, by transfer and line
    req,        \* the request each worker handles
    overlapped  \* history: transfers two requests worked on at once

transferVars == <<transfer, items, billed, req, overlapped>>
vars == <<stockVars, transferVars>>

Header == [status : {"dispatched", "partial", "received"}, receivedAt : BOOLEAN]
Item == [dispatched : Nat \ {0}, received : Nat]

NoRequest == [op |-> "none"]

(* head, rows: the entities in memory.  lines: what is left to do.  asked: *)
(* all of it.  diff: the columns the next UPDATE sets.  headSet, rowsSet:  *)
(* those the transaction has set; locks: the lines it has locked.  bill:   *)
(* the invoice lines it has inserted.                                      *)
Request(op, t, at, head, rows, lines) ==
    [op |-> op, transfer |-> t, at |-> at, head |-> head, rows |-> rows,
     lines |-> lines, asked |-> lines, diff |-> {}, headSet |-> {},
     headLock |-> FALSE, rowsSet |-> [l \in LineNos |-> {}],
     locks |-> {}, bill |-> <<>>]

Idle(w) == req[w].op = "none"
At(w, stage) == ~Idle(w) /\ req[w].at = stage
On(v, t) == ~Idle(v) /\ req[v].transfer = t
End(w) == req' = [req EXCEPT ![w] = NoRequest]

HeadFree(w) ==
    \A v \in Workers \ {w} : On(v, req[w].transfer) => ~req[v].headLock
RowFree(w, l) ==
    \A v \in Workers \ {w} : On(v, req[w].transfer) => l \notin req[v].locks

(* The quantity a list has for a line.                                     *)
QtyOf(s, l) == SumFunction([i \in {j \in DOMAIN s : s[j].line = l} |-> s[i].qty])

----------------------------------------------------------------------------
TransferInit ==
    /\ StockInit
    /\ transfer = [t \in {} |-> 0]
    /\ items = [t \in {} |-> 0]
    /\ billed = [t \in TransferIds |-> Zero(LineNos)]
    /\ req = [w \in Workers |-> NoRequest]
    /\ overlapped = {}

(* createAndDispatch.                                                      *)

NewHeader == [status |-> "dispatched", receivedAt |-> FALSE]
NewItems(plan) ==
    [l \in {plan[i].line : i \in DOMAIN plan} |->
       [dispatched |-> QtyOf(plan, l), received |-> 0]]

OpenDispatch(w, t, plan) ==
    /\ Idle(w)
    /\ t \notin DOMAIN transfer /\ \A v \in Workers : ~On(v, t)
    /\ req' = [req EXCEPT
         ![w] = Request("dispatch", t, "issue", NewHeader, NewItems(plan), plan)]
    /\ Begin(w, Dispatched(plan))
    /\ UNCHANGED <<transfer, items, billed, overlapped>>

(* One statement of StockLedger; when it throws, the request is over.      *)
IssueStatement(w) ==
    /\ At(w, "issue")
    /\ SelectLots(w) \/ TakeLot(w) \/ UpsertBalance(w) \/ CheckBalance(w)
    /\ req' = IF pc'[w] = "idle" THEN [req EXCEPT ![w] = NoRequest] ELSE req
    /\ UNCHANGED <<transfer, items, billed, overlapped>>

CommitDispatch(w) ==
    LET r == req[w]
        added(table, row) == [t \in DOMAIN table \cup {r.transfer} |->
                                IF t = r.transfer THEN row ELSE table[t]]
    IN  /\ At(w, "issue")
        /\ Commit(w)
        /\ transfer' = added(transfer, r.head)
        /\ items' = added(items, r.rows)
        /\ End(w)
        /\ UNCHANGED <<billed, overlapped>>

----------------------------------------------------------------------------
(* receive.                                                                *)

OpenReceive(w, t, receipt) ==
    /\ Idle(w)
    /\ transfer[t].status \in {"dispatched", "partial"}
    /\ req' = [req EXCEPT
         ![w] = Request("receive", t, "find", transfer[t], items[t], receipt)]
    /\ overlapped' = IF \E v \in Workers : On(v, t)
                     THEN overlapped \cup {t} ELSE overlapped
    /\ UNCHANGED <<stockVars, transfer, items, billed>>

FindItems(w) ==
    /\ At(w, "find")
    /\ IF RoomFor(BroughtIn(req[w].lines))      \* else: the bound is reached
       THEN /\ Begin(w, BroughtIn(req[w].lines))
            /\ req' = [req EXCEPT ![w].rows = items[req[w].transfer],
                                  ![w].at = "receive"]
       ELSE End(w) /\ UNCHANGED stockVars
    /\ UNCHANGED <<transfer, items, billed, overlapped>>

FitsBefore(row, qty) == row.received <= row.dispatched   \* mutant: adds later

Fits(row, qty) == row.received + qty <= row.dispatched

(* One line: journal entry, lot and link, and the new total in memory.     *)
ReceiveLine(w) ==
    LET r == req[w]
        line == Head(r.lines)
    IN  /\ At(w, "receive") /\ r.lines # <<>>
        /\ IF line.line \in DOMAIN r.rows /\ Fits(r.rows[line.line], line.qty)
           THEN /\ InsertLot(w)
                /\ req' = [req EXCEPT
                             ![w].rows[line.line].received = @ + line.qty,
                             ![w].at = "loadRow"]
           ELSE /\ Rollback(w)
                /\ End(w)
        /\ UNCHANGED <<transfer, items, billed, overlapped>>

(* save(row): the new total ('1') is never the text of the column          *)
(* ('1.0000'), so it is always set.                                        *)
LoadRow(w) ==
    LET r == req[w]
        l == Head(r.lines).line
    IN  /\ At(w, "loadRow")
        /\ req' = [req EXCEPT
             ![w].diff = {"received"} \cup
                           Differing(r.rows[l], items[r.transfer][l]),
             ![w].at = "writeRow"]
        /\ UNCHANGED <<stockVars, transfer, items, billed, overlapped>>

WriteRow(w) ==
    LET r == req[w]
        l == Head(r.lines).line
    IN  /\ At(w, "writeRow")
        /\ RowFree(w, l)
        /\ req' = [req EXCEPT ![w].rowsSet[l] = r.diff, ![w].diff = {},
                              ![w].locks = @ \cup {l}, ![w].at = "balance"]
        /\ UNCHANGED <<stockVars, transfer, items, billed, overlapped>>

BalanceStatement(w) ==
    /\ At(w, "balance")
    /\ \/ UpsertBalance(w) /\ UNCHANGED req
       \/ /\ CheckBalance(w)
          /\ req' = IF pc'[w] = "idle"
                    THEN [req EXCEPT ![w] = NoRequest]
                    ELSE [req EXCEPT ![w].lines = Tail(@), ![w].at = "receive"]
    /\ UNCHANGED <<transfer, items, billed, overlapped>>

(* The rows of a transfer as w's transaction sees them.                    *)
RowsSeen(w) ==
    LET r == req[w]
    IN  [l \in DOMAIN items[r.transfer] |->
           Overlay(items[r.transfer][l], r.rows[l], r.rowsSet[l])]

AllIn(rows) == \A l \in DOMAIN rows : rows[l].received >= rows[l].dispatched
AnyIn(rows) == \E l \in DOMAIN rows : rows[l].received > 0

AnyInFirst(head, rows) ==    \* mutant: the two tests swapped
    IF AnyIn(rows) THEN [head EXCEPT !.status = "partial"]
    ELSE IF AllIn(rows) THEN [status |-> "received", receivedAt |-> TRUE]
    ELSE head

WithStatus(head, rows) ==
    IF AllIn(rows) THEN [status |-> "received", receivedAt |-> TRUE]
    ELSE IF AnyIn(rows) THEN [head EXCEPT !.status = "partial"]
    ELSE head

(* The items are read again, the copy of the header is not.                *)
Refresh(w) ==
    /\ At(w, "receive") /\ req[w].lines = <<>>
    /\ req' = [req EXCEPT ![w].head = WithStatus(@, RowsSeen(w)),
                          ![w].at = "loadHead"]
    /\ UNCHANGED <<stockVars, transfer, items, billed, overlapped>>

LoadHead(w) ==
    /\ At(w, "loadHead")
    /\ req' = [req EXCEPT
         ![w].diff = Differing(req[w].head, transfer[req[w].transfer]),
         ![w].at = "writeHead"]
    /\ UNCHANGED <<stockVars, transfer, items, billed, overlapped>>

(* updated_at differs always, so there is always an UPDATE.                *)
WriteHead(w) ==
    /\ At(w, "writeHead")
    /\ HeadFree(w)
    /\ req' = [req EXCEPT ![w].headSet = req[w].diff, ![w].diff = {},
                          ![w].headLock = TRUE, ![w].at = "invoice"]
    /\ UNCHANGED <<stockVars, transfer, items, billed, overlapped>>

(* Mutant: the invoice is saved by arRepo, outside the transaction.        *)
InvoiceOutside(w) ==
    /\ At(w, "invoice")
    /\ req' = [req EXCEPT ![w].at = "commit"]
    /\ billed' = [billed EXCEPT ![req[w].transfer] =
                    [l \in LineNos |-> @[l] + QtyOf(req[w].asked, l)]]
    /\ UNCHANGED <<stockVars, transfer, items, overlapped>>

(* Mutant: only the first line goes on the invoice.                        *)
InvoiceFirstLine(w) ==
    /\ At(w, "invoice")
    /\ req' = [req EXCEPT ![w].bill = <<Head(req[w].asked)>>, ![w].at = "commit"]
    /\ UNCHANGED <<stockVars, transfer, items, billed, overlapped>>

(* The AR invoice, one line for each line received.                        *)
InsertInvoice(w) ==
    /\ At(w, "invoice")
    /\ req' = [req EXCEPT ![w].bill = req[w].asked, ![w].at = "commit"]
    /\ UNCHANGED <<stockVars, transfer, items, billed, overlapped>>

CommitReceive(w) ==
    LET r == req[w]
    IN  /\ At(w, "commit")
        /\ Commit(w)
        /\ transfer' = [transfer EXCEPT ![r.transfer] =
                          Overlay(@, r.head, r.headSet)]
        /\ items' = [items EXCEPT ![r.transfer] = RowsSeen(w)]
        /\ billed' = [billed EXCEPT ![r.transfer] =
                        [l \in LineNos |-> @[l] + QtyOf(r.bill, l)]]
        /\ End(w)
        /\ UNCHANGED overlapped

----------------------------------------------------------------------------
(* A check before the transaction fails (no price, no access), or the      *)
(* process or the connection dies.                                         *)
Abandon(w) ==
    /\ ~Idle(w)
    /\ End(w)
    /\ IF pc[w] = "idle" THEN UNCHANGED stockVars ELSE Rollback(w)
    /\ UNCHANGED <<transfer, items, billed, overlapped>>

(* v holds the row lock that w's next statement needs.                     *)
BlockedBy(w, v) ==
    /\ v # w /\ ~Idle(w)
    /\ \/ req[w].at \in {"issue", "balance"} /\ WaitsFor(w, v)
       \/ /\ On(v, req[w].transfer)
          /\ \/ req[w].at = "writeHead" /\ req[v].headLock
             \/ /\ req[w].at = "writeRow"
                /\ Head(req[w].lines).line \in req[v].locks

InDeadlock(w) ==
    LET blocked == [p \in Workers \X Workers |-> BlockedBy(p[1], p[2])]
    IN  TransitiveClosure(blocked, Workers)[w, w]

BreakDeadlock(w) == InDeadlock(w) /\ Abandon(w)

Open(w) ==
    \/ \E t \in TransferIds, plan \in Plans : OpenDispatch(w, t, plan)
    \/ \E t \in DOMAIN transfer, receipt \in Receipts : OpenReceive(w, t, receipt)

Proceed(w) ==
    \/ IssueStatement(w)
    \/ CommitDispatch(w)
    \/ FindItems(w)
    \/ ReceiveLine(w)
    \/ LoadRow(w)
    \/ WriteRow(w)
    \/ BalanceStatement(w)
    \/ Refresh(w)
    \/ LoadHead(w)
    \/ WriteHead(w)
    \/ InsertInvoice(w)
    \/ CommitReceive(w)

TransferNext ==
    \E w \in Workers : Open(w) \/ Proceed(w) \/ Abandon(w) \/ BreakDeadlock(w)

TransferSpec == TransferInit /\ [][TransferNext]_vars

----------------------------------------------------------------------------
(* Properties.                                                             *)

(* Every transfer has a header and at least one line.                      *)
TransferTypeOK ==
    /\ StockTypeOK
    /\ IsPartial(transfer, TransferIds, Header)
    /\ DOMAIN items = DOMAIN transfer
    /\ \A t \in DOMAIN items :
         items[t] # <<>> /\ IsPartial(items[t], LineNos, Item)
    /\ billed \in [TransferIds -> [LineNos -> Nat]]
    /\ overlapped \subseteq TransferIds

DispatchedFrom(t, k) ==
    SumFunction([l \in {m \in DOMAIN items[t] : FromKey[m] = k} |->
                   items[t][l].dispatched])
BilledInto(t, k) == SumFunctionOnSet(billed[t], {l \in LineNos : ToKey[l] = k})

(* Every unit is accounted for: the centre's balance fell by what the      *)
(* transfers say was dispatched, the distributor's rose by what he was     *)
(* billed for, and nothing else moved, whatever overlaps or fails.         *)
StockIsAccountedFor ==
    \A k \in Keys :
        onHand[k] = InitOnHand[k]
          - SumFunction([t \in DOMAIN items |-> DispatchedFrom(t, k)])
          + SumFunction([t \in TransferIds |-> BilledInto(t, k)])

(* Whatever overlaps, a line never shows more received than was billed:    *)
(* saves can lose a receipt but not invent one.                            *)
TotalsBackedByBills ==
    \A t \in DOMAIN items : \A l \in DOMAIN items[t] :
        items[t][l].received <= billed[t][l]

(* As long as no two requests worked on a transfer at once: its totals are *)
(* what was billed, within what was dispatched, and its status and         *)
(* received_at say which part of it has arrived.                           *)
UncontendedTransfersAgree ==
    \A t \in DOMAIN transfer \ overlapped :
        /\ \A l \in DOMAIN items[t] :
             /\ items[t][l].received = billed[t][l]
             /\ items[t][l].received <= items[t][l].dispatched
        /\ transfer[t].status = "received" <=> AllIn(items[t])
        /\ transfer[t].status = "dispatched" <=> ~AnyIn(items[t])
        /\ transfer[t].receivedAt <=> AllIn(items[t])

Life == INSTANCE TransferLife
            WITH doc <- [t \in DOMAIN transfer |->
                           [status |-> transfer[t].status, rows |-> items[t],
                            billed |-> billed[t]]],
                 book <- onHand

(* Until two receipts work on one transfer at once, the module keeps       *)
(* TransferLife's promise, whatever happens to other transfers.            *)
ImplementsTransferLife ==
    /\ Life!LifeInit
    /\ [][overlapped' = {} => Life!LifeNext]_(Life!lifeVars)
=============================================================================
