-------------------------------- MODULE Grn --------------------------------
(***************************************************************************)
(* Goods receipt notes: create, update, delete, receive and post.  A GRN   *)
(* is a header and numbered lines, each with the quantity expected and the *)
(* quantity received so far.  Receiving posts stock through StockLedger    *)
(* and, line by line in the same transaction, saves the line's new total,  *)
(* computed from the total it read when it began.                          *)
(*                                                                         *)
(* save(entity) is SavedEntity's.  The finders' `deleted_at: null` is no   *)
(* condition: TypeORM leaves a null out of the WHERE clause.               *)
(*                                                                         *)
(* The note's warehouse and the SKU of a line say where a receipt posts;   *)
(* an update may change both, whatever was received before.                *)
(***************************************************************************)
EXTENDS StockLedger, SavedEntity

CONSTANTS
    GrnIds,
    LineNos,
    Warehouses,
    Skus,
    Payloads,     \* the items of a request by line: what it gives of
                  \* sku_id and qty_expected
    Receipts,     \* the receive_lines of a request: [line, qty] in order
    MaxRequests   \* bound: requests of a behaviour

ASSUME FiniteAssumption ==
    /\ IsFiniteSet(GrnIds) /\ IsFiniteSet(LineNos)
    /\ IsFiniteSet(Warehouses) /\ IsFiniteSet(Skus)
ASSUME GrnAssumption ==
    /\ Keys = Warehouses \X Skus
    /\ \A p \in Payloads : \A l \in DOMAIN p :
         /\ l \in LineNos
         /\ DOMAIN p[l] \subseteq {"sku", "expected"}
         /\ "sku" \in DOMAIN p[l] => p[l].sku \in Skus
         /\ "expected" \in DOMAIN p[l] => p[l].expected \in Nat \ {0}
    /\ \A r \in Receipts :
         /\ r # <<>>
         /\ r \in Seq([line : LineNos, qty : Nat \ {0}])
         /\ \A i, j \in DOMAIN r : r[i].line = r[j].line => i = j

(* Where a note's warehouse and rows say that a line is received.  (A line *)
(* the note does not have is never posted.)                                *)
KeyOf(warehouse, rows, l) ==
    <<warehouse, IF l \in DOMAIN rows THEN rows[l].sku ELSE CHOOSE s \in Skus : TRUE>>

(* What a receipt posts.                                                   *)
StockLines(warehouse, rows, r) ==
    [i \in DOMAIN r |->
       [dir |-> "in", key |-> KeyOf(warehouse, rows, r[i].line),
        qty |-> r[i].qty, rank |-> 1]]

ASSUME ReceiptsArePosted ==
    \A r \in Receipts, h \in Warehouses, s \in [LineNos -> Skus] :
        StockLines(h, [l \in LineNos |-> [sku |-> s[l]]], r) \in Requests

VARIABLES
    grn,        \* committed inv_grn rows
    items,      \* committed inv_grn_item rows, by note and line
    req,        \* the request each worker handles
    begun,      \* how many requests there have been
    received,   \* history: stock received by <<note, line, key>>
    repointed,  \* history: notes whose warehouse, or a line's SKU, was
                \* changed after a receipt
    overlapped  \* history: notes two requests worked on at once

history == <<begun, received, repointed, overlapped>>
grnVars == <<grn, items, req, history>>
vars == <<stockVars, grnVars>>

Header == [status : {"draft", "posted"}, deleted : BOOLEAN, warehouse : Warehouses]
Item == [sku : Skus, expected : Nat, received : Nat]

NoRequest == [op |-> "none"]

(* head, rows: the entities in memory.  lines: what is left to do.  asked: *)
(* all of it.  diff: the columns the next UPDATE sets.  headSet, rowsSet:  *)
(* what the transaction has set; a row in it is locked, and so is the      *)
(* header when headLock.  new: lines it has inserted.                      *)
Request(op, g, at, head, rows, lines) ==
    [op |-> op, grn |-> g, at |-> at, head |-> head, rows |-> rows,
     lines |-> lines, asked |-> lines, diff |-> {}, headSet |-> {},
     headLock |-> FALSE, rowsSet |-> [l \in LineNos |-> {}],
     locks |-> {}, new |-> {}, autoPost |-> FALSE]

Idle(w) == req[w].op = "none"
At(w, stage) == ~Idle(w) /\ req[w].at = stage
On(v, g) == ~Idle(v) /\ req[v].grn = g
End(w) == req' = [req EXCEPT ![w] = NoRequest]

HeadFree(w) == \A v \in Workers \ {w} : On(v, req[w].grn) => ~req[v].headLock
RowFree(w, l) ==
    \A v \in Workers \ {w} : On(v, req[w].grn) => l \notin req[v].locks

(* create wants both of every line; for a line new to a note, update takes *)
(* a missing quantity as 0.                                                *)
Complete(payload) ==
    DOMAIN payload # {} /\ \A l \in DOMAIN payload : DOMAIN payload[l] = {"sku", "expected"}

NewRow(asked) ==
    [sku |-> asked.sku, received |-> 0,
     expected |-> IF "expected" \in DOMAIN asked THEN asked.expected ELSE 0]

Rows(payload) == [l \in DOMAIN payload |-> NewRow(payload[l])]

FullyReceived(rows) == \A l \in DOMAIN rows : rows[l].received >= rows[l].expected

----------------------------------------------------------------------------
GrnInit ==
    /\ StockInit
    /\ grn = [g \in {} |-> 0]
    /\ items = [g \in {} |-> 0]
    /\ req = [w \in Workers |-> NoRequest]
    /\ begun = 0
    /\ received = Zero(GrnIds \X LineNos \X Keys)
    /\ repointed = {}
    /\ overlapped = {}

Open(w, request) ==
    /\ Idle(w) /\ begun < MaxRequests
    /\ begun' = begun + 1
    /\ req' = [req EXCEPT ![w] = request]
    /\ overlapped' = IF \E v \in Workers \ {w} : On(v, request.grn)
                     THEN overlapped \cup {request.grn} ELSE overlapped
    /\ UNCHANGED <<grn, items, received, repointed>>

Draft(warehouse) ==
    [status |-> "draft", deleted |-> FALSE, warehouse |-> warehouse]

(* create: one transaction; the note shows when it commits.  auto_post     *)
(* without receive_lines always throws, as nothing has been received.      *)
Create(w, g, warehouse, payload) ==
    /\ Idle(w) /\ Complete(payload)
    /\ begun < MaxRequests
    /\ begun' = begun + 1
    /\ g \notin DOMAIN grn /\ \A v \in Workers : ~On(v, g)
    /\ grn' = [h \in DOMAIN grn \cup {g} |-> IF h = g THEN Draft(warehouse) ELSE grn[h]]
    /\ items' = [h \in DOMAIN items \cup {g} |->
                   IF h = g THEN Rows(payload) ELSE items[h]]
    /\ UNCHANGED <<stockVars, req, received, repointed, overlapped>>

(* create with receive_lines: the new lines are received at once.          *)
OpenCreate(w, g, warehouse, payload, r, autoPost) ==
    LET posts == StockLines(warehouse, payload, r)
    IN  /\ Complete(payload)
        /\ g \notin DOMAIN grn /\ \A v \in Workers : ~On(v, g)
        /\ RoomFor(posts)
        /\ Open(w, [Request("create", g, "receive", Draft(warehouse), Rows(payload), r)
                      EXCEPT !.autoPost = autoPost])
        /\ Begin(w, posts)

OpenReceive(w, g, r) ==
    /\ grn[g].status = "draft"
    /\ Open(w, Request("receive", g, "find", grn[g], items[g], r))
    /\ UNCHANGED stockVars

(* The lines in any order; none changes the header only.  Leaving the      *)
(* warehouse out is to give the one that was read.                         *)
OpenUpdate(w, g, warehouse, payload) ==
    /\ grn[g].status = "draft"
    /\ \E lines \in {s \in [1..Cardinality(DOMAIN payload) -> DOMAIN payload] :
                       \A i, j \in DOMAIN s : s[i] = s[j] => i = j} :
         Open(w, Request("update", g, "head", [grn[g] EXCEPT !.warehouse = warehouse],
                         items[g],
                         [i \in DOMAIN lines |->
                            [line |-> lines[i], asked |-> payload[lines[i]]]]))
    /\ UNCHANGED stockVars

OpenDelete(w, g) ==
    /\ grn[g].status = "draft"
    /\ Open(w, Request("delete", g, "head", [grn[g] EXCEPT !.deleted = TRUE],
                       items[g], <<>>))
    /\ UNCHANGED stockVars

OpenPost(w, g) ==
    /\ grn[g].status = "draft"
    /\ Open(w, Request("post", g, "items", grn[g], items[g], <<>>))
    /\ UNCHANGED stockVars

----------------------------------------------------------------------------
(* Saving the header.                                                      *)

(* postTx reads the items in a statement of its own.                       *)
CheckReceived(w) ==
    /\ At(w, "items")
    /\ IF FullyReceived(items[req[w].grn])
       THEN req' = [req EXCEPT ![w].head.status = "posted", ![w].at = "head"]
       ELSE End(w)
    /\ UNCHANGED <<stockVars, grn, items, history>>

LoadHead(w) ==
    /\ At(w, "head")
    /\ req' = [req EXCEPT ![w].diff = Differing(req[w].head, grn[req[w].grn]),
                          ![w].at = "writeHead"]
    /\ UNCHANGED <<stockVars, grn, items, history>>

(* delete and post: the only write of the request.                         *)
WriteHeadAlone(w) ==
    LET r == req[w]
    IN  /\ At(w, "writeHead") /\ r.op \in {"delete", "post"}
        /\ HeadFree(w)
        /\ grn' = [grn EXCEPT ![r.grn] = Overlay(@, r.head, r.diff)]
        /\ End(w)
        /\ UNCHANGED <<stockVars, items, history>>

(* update: touch says that a column outside the model was changed.         *)
WriteHead(w) ==
    LET r == req[w]
    IN  /\ At(w, "writeHead") /\ r.op = "update"
        /\ \E touch \in BOOLEAN :
             IF r.diff = {} /\ ~touch
             THEN req' = [req EXCEPT ![w].at = "find"]
             ELSE /\ HeadFree(w)
                  /\ req' = [req EXCEPT ![w].headSet = r.diff, ![w].diff = {},
                                        ![w].headLock = TRUE, ![w].at = "find"]
        /\ UNCHANGED <<stockVars, grn, items, history>>

----------------------------------------------------------------------------
(* Working through the lines.                                              *)

FindForUpdate(w) ==
    /\ At(w, "find") /\ req[w].op = "update"
    /\ req' = [req EXCEPT ![w].rows = items[req[w].grn], ![w].at = "amend"]
    /\ UNCHANGED <<stockVars, grn, items, history>>

FindForReceive(w) ==
    /\ At(w, "find") /\ req[w].op = "receive"
    /\ LET r == req[w]
           posts == StockLines(r.head.warehouse, items[r.grn], r.lines)
       IN  IF RoomFor(posts)      \* else: the bound is reached
           THEN /\ Begin(w, posts)
                /\ req' = [req EXCEPT ![w].rows = items[r.grn],
                                      ![w].at = "receive"]
           ELSE End(w) /\ UNCHANGED stockVars
    /\ UNCHANGED <<grn, items, history>>

(* Mutant: expects less than was received.                                 *)
AmendUnchecked(w) ==
    LET r == req[w]
        line == Head(r.lines)
    IN  /\ At(w, "amend") /\ r.lines # <<>> /\ line.line \in DOMAIN r.rows
        /\ req' = [req EXCEPT
             ![w].rows[line.line] = Overlay(@, line.asked, DOMAIN line.asked),
             ![w].at = "loadRow"]
        /\ UNCHANGED <<stockVars, grn, items, history>>

(* update, a line the note has: not below what was received.               *)
AmendLine(w) ==
    LET r == req[w]
        line == Head(r.lines)
    IN  /\ At(w, "amend") /\ r.lines # <<>> /\ line.line \in DOMAIN r.rows
        /\ IF /\ "expected" \in DOMAIN line.asked
              /\ line.asked.expected < r.rows[line.line].received
           THEN End(w)
           ELSE req' = [req EXCEPT
                  ![w].rows[line.line] = Overlay(@, line.asked, DOMAIN line.asked),
                  ![w].at = "loadRow"]
        /\ UNCHANGED <<stockVars, grn, items, history>>

(* update, a line it does not have: insert it, unless the payload gives no *)
(* SKU or a row with that line number was committed since (unique index);  *)
(* waits for one that is not committed.                                    *)
InsertLine(w) ==
    LET r == req[w]
        line == Head(r.lines)
    IN  /\ At(w, "amend") /\ r.lines # <<>> /\ line.line \notin DOMAIN r.rows
        /\ RowFree(w, line.line)
        /\ IF "sku" \notin DOMAIN line.asked \/ line.line \in DOMAIN items[r.grn]
           THEN End(w)
           ELSE req' = [req EXCEPT
                  ![w].rows = [l \in DOMAIN @ \cup {line.line} |->
                                 IF l = line.line THEN NewRow(line.asked)
                                 ELSE @[l]],
                  ![w].new = @ \cup {line.line},
                  ![w].locks = @ \cup {line.line},
                  ![w].lines = Tail(@)]
        /\ UNCHANGED <<stockVars, grn, items, history>>

(* receive: the totals are those of FindForReceive.                        *)
FitsMore(row, qty) == row.received <= row.expected   \* mutant: adds later

Fits(row, qty) == row.received + qty <= row.expected

ReceiveLine(w) ==
    LET r == req[w]
        line == Head(r.lines)
    IN  /\ At(w, "receive") /\ r.lines # <<>>
        /\ IF line.line \in DOMAIN r.rows /\ Fits(r.rows[line.line], line.qty)
           THEN /\ InsertLot(w)
                /\ req' = [req EXCEPT
                             ![w].rows[line.line].received = @ + line.qty,
                             ![w].at = "loadRow"]
           ELSE /\ Rollback(w)
                /\ End(w)
        /\ UNCHANGED <<grn, items, history>>

(* save(row); a row inserted by this very transaction has no rival.  The   *)
(* total a receipt computes ('1') is never the text of the column          *)
(* ('1.0000'); what the caller of update sends may be.                     *)
LoadRow(w) ==
    LET r == req[w]
        l == Head(r.lines).line
        retyped == IF r.op = "receive" THEN {{"received"}}
                   ELSE SUBSET (DOMAIN Head(r.lines).asked \cap {"expected"})
    IN  /\ At(w, "loadRow")
        /\ IF r.op = "create"
           THEN req' = [req EXCEPT ![w].at = "writeRow"]
           ELSE \E own \in retyped :
                  req' = [req EXCEPT
                    ![w].diff = own \cup Differing(r.rows[l], items[r.grn][l]),
                    ![w].at = "writeRow"]
        /\ UNCHANGED <<stockVars, grn, items, history>>

(* Mutant: the row is saved by itemRepo, outside the transaction.          *)
WriteRowOutside(w) ==
    LET r == req[w]
        l == Head(r.lines).line
        known == r.grn \in DOMAIN items /\ l \in DOMAIN items[r.grn]
    IN  /\ At(w, "writeRow")
        /\ RowFree(w, l)
        /\ items' = IF known
                    THEN [items EXCEPT ![r.grn][l] = Overlay(@, r.rows[l], r.diff)]
                    ELSE items
        /\ req' = [req EXCEPT
             ![w].lines = IF r.op = "update" THEN Tail(@) ELSE @,
             ![w].at = IF r.op = "update" THEN "amend" ELSE "balance"]
        /\ UNCHANGED <<stockVars, grn, history>>

WriteRow(w) ==
    LET r == req[w]
        l == Head(r.lines).line
    IN  /\ At(w, "writeRow")
        /\ RowFree(w, l)
        /\ req' = [req EXCEPT
             ![w].rowsSet[l] = r.diff, ![w].diff = {},
             ![w].locks = @ \cup {l},
             ![w].lines = IF r.op = "update" THEN Tail(@) ELSE @,
             ![w].at = IF r.op = "update" THEN "amend" ELSE "balance"]
        /\ UNCHANGED <<stockVars, grn, items, history>>

BalanceStatement(w) ==
    /\ At(w, "balance")
    /\ \/ UpsertBalance(w) /\ UNCHANGED req
       \/ /\ CheckBalance(w)
          /\ req' = IF pc'[w] = "idle"
                    THEN [req EXCEPT ![w] = NoRequest]
                    ELSE [req EXCEPT ![w].lines = Tail(@), ![w].at = "receive"]
    /\ UNCHANGED <<grn, items, history>>

----------------------------------------------------------------------------
(* Commits.                                                                *)

(* The committed rows of a note once w's changes are applied to them.      *)
RowsAfter(w) ==
    LET r == req[w]
    IN  [l \in DOMAIN items[r.grn] \cup r.new |->
           IF l \in r.new THEN r.rows[l]
           ELSE Overlay(items[r.grn][l], r.rows[l], r.rowsSet[l])]

CommitUpdate(w) ==
    LET r == req[w]
        head == Overlay(grn[r.grn], r.head, r.headSet)
        rows == RowsAfter(w)
        moved(l) == KeyOf(head.warehouse, rows, l)
                      # KeyOf(grn[r.grn].warehouse, items[r.grn], l)
    IN  /\ At(w, "amend") /\ r.lines = <<>>
        /\ grn' = [grn EXCEPT ![r.grn] = head]
        /\ items' = [items EXCEPT ![r.grn] = rows]
        /\ repointed' = IF \E l \in DOMAIN items[r.grn] :
                             items[r.grn][l].received > 0 /\ moved(l)
                        THEN repointed \cup {r.grn} ELSE repointed
        /\ End(w)
        /\ UNCHANGED <<stockVars, begun, received, overlapped>>

(* What a committed receipt brought in, by line and key.                   *)
NoteReceived(w) ==
    LET r == req[w]
        brought(l) == {i \in DOMAIN r.asked : r.asked[i].line = l}
    IN  received' = [c \in DOMAIN received |->
          received[c] +
            IF c[1] = r.grn /\ c[3] = KeyOf(r.head.warehouse, r.rows, c[2])
            THEN SumFunctionOnSet([i \in DOMAIN r.asked |-> r.asked[i].qty], brought(c[2]))
            ELSE 0]

CommitReceive(w) ==
    LET r == req[w]
    IN  /\ At(w, "receive") /\ r.op = "receive" /\ r.lines = <<>>
        /\ Commit(w)
        /\ items' = [items EXCEPT ![r.grn] = RowsAfter(w)]
        /\ NoteReceived(w)
        /\ End(w)
        /\ UNCHANGED <<grn, begun, repointed, overlapped>>

CommitCreate(w) ==
    LET r == req[w]
        status == IF r.autoPost THEN "posted" ELSE "draft"
        row == [r.head EXCEPT !.status = status]
    IN  /\ At(w, "receive") /\ r.op = "create" /\ r.lines = <<>>
        /\ End(w)
        /\ IF r.autoPost /\ ~FullyReceived(r.rows)
           THEN Rollback(w) /\ UNCHANGED <<grn, items, received>>
           ELSE /\ Commit(w)
                /\ grn' = [g \in DOMAIN grn \cup {r.grn} |->
                             IF g = r.grn THEN row ELSE grn[g]]
                /\ items' = [g \in DOMAIN items \cup {r.grn} |->
                               IF g = r.grn THEN r.rows ELSE items[g]]
                /\ NoteReceived(w)
        /\ UNCHANGED <<begun, repointed, overlapped>>

----------------------------------------------------------------------------
(* A check before the transaction fails, or the connection is lost.        *)
Abandon(w) ==
    /\ ~Idle(w)
    /\ End(w)
    /\ IF pc[w] = "idle" THEN UNCHANGED stockVars ELSE Rollback(w)
    /\ UNCHANGED <<grn, items, history>>

(* v holds the row lock that w's next statement needs.                     *)
BlockedBy(w, v) ==
    /\ v # w /\ ~Idle(w)
    /\ \/ At(w, "balance") /\ WaitsFor(w, v)
       \/ /\ On(v, req[w].grn)
          /\ \/ req[w].at = "writeHead" /\ req[v].headLock
             \/ /\ req[w].at \in {"writeRow", "amend"} /\ req[w].lines # <<>>
                /\ Head(req[w].lines).line \in req[v].locks

InDeadlock(w) ==
    LET blocked == [p \in Workers \X Workers |-> BlockedBy(p[1], p[2])]
    IN  TransitiveClosure(blocked, Workers)[w, w]

BreakDeadlock(w) == InDeadlock(w) /\ Abandon(w)

Receive(w) ==
    \/ \E g \in GrnIds, warehouse \in Warehouses, payload \in Payloads :
         \/ Create(w, g, warehouse, payload)
         \/ \E r \in Receipts, autoPost \in BOOLEAN :
              OpenCreate(w, g, warehouse, payload, r, autoPost)
    \/ \E g \in DOMAIN grn :
         \/ \E r \in Receipts : OpenReceive(w, g, r)
         \/ \E warehouse \in Warehouses, payload \in Payloads \cup {[l \in {} |-> 0]} :
              OpenUpdate(w, g, warehouse, payload)
         \/ OpenDelete(w, g)
         \/ OpenPost(w, g)

Proceed(w) ==
    \/ CheckReceived(w)
    \/ LoadHead(w)
    \/ WriteHeadAlone(w)
    \/ WriteHead(w)
    \/ FindForUpdate(w)
    \/ FindForReceive(w)
    \/ AmendLine(w)
    \/ InsertLine(w)
    \/ ReceiveLine(w)
    \/ LoadRow(w)
    \/ WriteRow(w)
    \/ BalanceStatement(w)
    \/ CommitUpdate(w)
    \/ CommitReceive(w)
    \/ CommitCreate(w)

GrnNext ==
    \E w \in Workers :
        Receive(w) \/ Proceed(w) \/ Abandon(w) \/ BreakDeadlock(w)

GrnSpec == GrnInit /\ [][GrnNext]_vars

----------------------------------------------------------------------------
(* Properties.                                                             *)

(* Every note has a header and at least one line.                          *)
GrnTypeOK ==
    /\ StockTypeOK
    /\ IsPartial(grn, GrnIds, Header)
    /\ DOMAIN items = DOMAIN grn
    /\ \A g \in DOMAIN items :
         items[g] # <<>> /\ IsPartial(items[g], LineNos, Item)
    /\ received \in [GrnIds \X LineNos \X Keys -> Nat]
    /\ repointed \subseteq GrnIds
    /\ overlapped \subseteq GrnIds

StockFrom(cells) == SumFunctionOnSet(received, cells)
StockOn(g, l) == StockFrom({g} \X {l} \X Keys)

(* Whatever overlaps, a line never shows more received than the stock that *)
(* came in on it: saves can lose a receipt but not invent one.             *)
TotalsBackedByStock ==
    \A g \in DOMAIN items : \A l \in DOMAIN items[g] :
        items[g][l].received <= StockOn(g, l)

(* All stock on hand came in on some line: a receipt adds to the balance   *)
(* of the warehouse and SKU it read and to no other, and never without its *)
(* commit.                                                                 *)
StockCameInOnLines ==
    \A k \in Keys : onHand[k] = InitOnHand[k] + StockFrom(GrnIds \X LineNos \X {k})

(* As long as no two requests worked on a note at once: its totals are the *)
(* stock received, within what is expected; a posted note is all in.  The  *)
(* stock is in the warehouse, and of the SKU, that the note names, unless  *)
(* an update has changed one of them after a receipt.                      *)
UncontendedNotesAgree ==
    \A g \in DOMAIN grn \ overlapped :
        /\ \A l \in DOMAIN items[g] :
             /\ items[g][l].received = StockOn(g, l)
             /\ items[g][l].received <= items[g][l].expected
             /\ g \notin repointed =>
                  StockOn(g, l) = received[<<g, l, KeyOf(grn[g].warehouse, items[g], l)>>]
        /\ grn[g].status = "posted" => FullyReceived(items[g])

Life == INSTANCE GrnLife
            WITH note <- [g \in DOMAIN grn |->
                            [status |-> grn[g].status,
                             deleted |-> grn[g].deleted,
                             warehouse |-> grn[g].warehouse,
                             rows |-> items[g]]],
                 book <- onHand

(* Until two requests work on one note at once, the module keeps GrnLife's *)
(* promise.                                                                *)
ImplementsGrnLife ==
    /\ Life!LifeInit
    /\ [][overlapped' = {} => Life!LifeNext]_(Life!lifeVars)
============================================================================
