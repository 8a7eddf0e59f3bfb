------------------------------- MODULE Orders -------------------------------
(***************************************************************************)
(* The order requests of the sales module: create, edit, submit, approve   *)
(* and reject.  Each checks the status of the row it read, works on that   *)
(* copy, and saves it later, with nothing locked in between.               *)
(*                                                                         *)
(* TypeORM's save(entity) is two statements: SELECT the row, then UPDATE   *)
(* the columns in which the entity in memory differs from it, whether or   *)
(* not the request meant to change them.  Outside a transaction the UPDATE *)
(* commits at once; inside one it locks the row and stays pending.         *)
(*                                                                         *)
(* Stock is issued by the statements of StockLedger, in the transaction    *)
(* that approves the order.  An order's distributor, hence its warehouse,  *)
(* does not change, so a line names its stock key.                         *)
(***************************************************************************)
EXTENDS StockLedger

CONSTANT OrderIds

ASSUME OrderIdsAssumption == IsFiniteSet(OrderIds)

(* Every line the DTOs let through moves stock out, and there is one.      *)
ASSUME OrderLinesAssumption ==
    \A lines \in Requests :
        lines # <<>> /\ \A i \in DOMAIN lines : lines[i].dir = "out"

VARIABLES
    so,         \* committed so_order rows
    items,      \* committed so_order_item rows, as the order's lines
    req,        \* the request each worker handles
    issues,     \* history: the line lists issued for each order
    overlapped  \* history: orders two requests worked on at once

orderVars == <<so, items, req, issues, overlapped>>
vars == <<stockVars, orderVars>>

(* amount is what the header's totals were computed from.                  *)
Row == [status : {"draft", "submitted", "approved", "rejected"},
        submitted : BOOLEAN, approved : BOOLEAN, rejected : BOOLEAN,
        amount : Requests]
Columns == {"status", "submitted", "approved", "rejected", "amount"}

(* A request in progress.  copy: the entity in memory.  lines: those of    *)
(* the edit, or the ones to issue.  touch: a column outside the model      *)
(* changes (a time stamp, a remark).  diff: the columns the next UPDATE    *)
(* sets to the copy's.  dirty: those the transaction has set.  rowLock,    *)
(* swap: it has locked the row, replaced the items.                        *)
RequestRecord ==
    [op : {"update", "submit", "approve", "reject"}, order : OrderIds,
     at : {"load", "write", "delete", "deleting", "missed", "commit",
           "items", "begin", "issue"},
     copy : Row, lines : Requests \cup {<<>>}, touch : BOOLEAN,
     diff : SUBSET Columns, dirty : SUBSET Columns,
     rowLock : BOOLEAN, swap : BOOLEAN]
NoRequest == [op |-> "none"]

Request(op, o, at, copy, lines, touch) ==
    [op |-> op, order |-> o, at |-> at, copy |-> copy, lines |-> lines,
     touch |-> touch, diff |-> {}, dirty |-> {},
     rowLock |-> FALSE, swap |-> FALSE]

Idle(w) == req[w].op = "none"
At(w, stage) == ~Idle(w) /\ req[w].at = stage
GoTo(w, stage) == req' = [req EXCEPT ![w].at = stage]
On(v, o) == ~Idle(v) /\ req[v].order = o

(* The row after UPDATE ... SET these columns to the copy's.               *)
Overlay(row, copy, columns) ==
    LET value(c) == IF c \in columns THEN copy[c] ELSE row[c]
    IN  [status |-> value("status"), submitted |-> value("submitted"),
         approved |-> value("approved"), rejected |-> value("rejected"),
         amount |-> value("amount")]

(* The row as the request's own transaction sees it.                       *)
Stored(w) == Overlay(so[req[w].order], req[w].copy, req[w].dirty)

Differing(w) == {c \in Columns : req[w].copy[c] # Stored(w)[c]}

(* Mutant: the save uses another connection than the transaction's.        *)
RowFreeOfAll(w) == \A v \in Workers : On(v, req[w].order) => ~req[v].rowLock

RowFree(w) == \A v \in Workers \ {w} : On(v, req[w].order) => ~req[v].rowLock
ItemsFree(w) == \A v \in Workers \ {w} : On(v, req[w].order) => ~req[v].swap

----------------------------------------------------------------------------
OrdersInit ==
    /\ StockInit
    /\ so = [o \in {} |-> 0]
    /\ items = [o \in {} |-> 0]
    /\ req = [w \in Workers |-> NoRequest]
    /\ issues = [o \in OrderIds |-> <<>>]
    /\ overlapped = {}

(* createDraft, once its checks passed: one transaction inserts the header *)
(* and the items and sets the totals, and nothing of it shows before.      *)
CreateDraft(w, o, lines, submitNow) ==
    /\ Idle(w) /\ o \notin DOMAIN so
    /\ LET status == IF submitNow THEN "submitted" ELSE "draft"
           row == [status |-> status, submitted |-> submitNow,
                   approved |-> FALSE, rejected |-> FALSE, amount |-> lines]
       IN  so' = [p \in DOMAIN so \cup {o} |-> IF p = o THEN row ELSE so[p]]
    /\ items' = [p \in DOMAIN items \cup {o} |->
                   IF p = o THEN lines ELSE items[p]]
    /\ UNCHANGED <<stockVars, req, issues, overlapped>>

(* The findOne at the head of a request.                                   *)
Open(w, op, o, at, copy, lines, touch) ==
    /\ Idle(w)
    /\ req' = [req EXCEPT ![w] = Request(op, o, at, copy, lines, touch)]
    /\ overlapped' = IF \E v \in Workers \ {w} : On(v, o)
                     THEN overlapped \cup {o} ELSE overlapped
    /\ UNCHANGED <<stockVars, so, items, issues>>

MarkedSubmitted(row) == [row EXCEPT !.status = "submitted", !.submitted = TRUE]
MarkedApproved(row) == [row EXCEPT !.status = "approved", !.approved = TRUE]
MarkedRejected(row) == [row EXCEPT !.status = "rejected", !.rejected = TRUE]

OpenUpdate(w, o, lines, touch) ==
    /\ so[o].status = "draft"
    /\ Open(w, "update", o, "load", so[o], lines, touch)

OpenSubmit(w, o) ==
    /\ so[o].status = "draft"
    /\ items[o] # <<>>
    /\ Open(w, "submit", o, "load", MarkedSubmitted(so[o]), <<>>, TRUE)

OpenApprove(w, o) ==
    /\ so[o].status = "submitted"
    /\ Open(w, "approve", o, "items", so[o], <<>>, TRUE)

RejectAnyStatus(w, o) ==    \* mutant: no status check
    Open(w, "reject", o, "load", MarkedRejected(so[o]), <<>>, TRUE)

OpenReject(w, o) ==
    /\ so[o].status = "submitted"
    /\ Open(w, "reject", o, "load", MarkedRejected(so[o]), <<>>, TRUE)

----------------------------------------------------------------------------
(* approve: read the items, begin, issue them line by line, then mark the  *)
(* copy that was read before all that.                                     *)
ReadItems(w) ==
    /\ At(w, "items")
    /\ items[req[w].order] # <<>>
    /\ req' = [req EXCEPT ![w].lines = items[req[w].order], ![w].at = "begin"]
    /\ UNCHANGED <<stockVars, so, items, issues, overlapped>>

BeginIssue(w) ==
    /\ At(w, "begin")
    /\ Begin(w, req[w].lines)
    /\ GoTo(w, "issue")
    /\ UNCHANGED <<so, items, issues, overlapped>>

(* One statement of StockLedger; when it throws, the request is over.      *)
IssueStatement(w) ==
    /\ At(w, "issue")
    /\ SelectLots(w) \/ TakeLot(w) \/ UpsertBalance(w) \/ CheckBalance(w)
    /\ req' = IF pc'[w] = "idle" THEN [req EXCEPT ![w] = NoRequest] ELSE req
    /\ UNCHANGED <<so, items, issues, overlapped>>

MarkApproved(w) ==
    /\ At(w, "issue")
    /\ pc[w] = "line" /\ todo[w] = <<>>
    /\ req' = [req EXCEPT ![w].copy = MarkedApproved(@), ![w].at = "load"]
    /\ UNCHANGED <<stockVars, so, items, issues, overlapped>>

----------------------------------------------------------------------------
(* save(copy): SELECT the row and keep what differs.                       *)
SaveLoad(w) ==
    /\ At(w, "load")
    /\ req' = [req EXCEPT ![w].diff = Differing(w),
                          ![w].at = "write"]
    /\ UNCHANGED <<stockVars, so, items, issues, overlapped>>

AfterWrite(r) ==
    IF r.op = "update" /\ ~r.swap THEN "delete" ELSE "commit"

(* Mutant: approve saves the header on the data source, not the manager.   *)
SaveWriteOutside(w) ==
    LET r == req[w]
    IN  /\ At(w, "write") /\ r.op \in {"update", "approve"}
        /\ RowFree(w)
        /\ so' = [so EXCEPT ![r.order] = Overlay(@, r.copy, r.diff)]
        /\ req' = [req EXCEPT ![w].touch = FALSE, ![w].at = AfterWrite(r)]
        /\ UNCHANGED <<stockVars, items, issues, overlapped>>

(* save(copy), second half, inside a transaction: no UPDATE when nothing   *)
(* differs.                                                                *)
SaveWrite(w) ==
    LET r == req[w]
    IN  /\ At(w, "write") /\ r.op \in {"update", "approve"}
        /\ IF r.diff = {} /\ ~r.touch
           THEN GoTo(w, AfterWrite(r))
           ELSE /\ RowFree(w)
                /\ req' = [req EXCEPT
                     ![w].dirty = @ \cup r.diff,
                     ![w].touch = FALSE, ![w].rowLock = TRUE,
                     ![w].at = AfterWrite(r)]
        /\ UNCHANGED <<stockVars, so, items, issues, overlapped>>

(* submit and reject: the UPDATE commits on its own.                       *)
SaveAlone(w) ==
    LET r == req[w]
    IN  /\ At(w, "write") /\ r.op \in {"submit", "reject"}
        /\ RowFree(w)
        /\ so' = [so EXCEPT ![r.order] = Overlay(@, r.copy, r.diff)]
        /\ req' = [req EXCEPT ![w] = NoRequest]
        /\ UNCHANGED <<stockVars, items, issues, overlapped>>

(* Mutant: the totals are not computed again.                              *)
ReplaceItemsOnly(w) ==
    /\ At(w, "delete") \/ At(w, "deleting")
    /\ ItemsFree(w)
    /\ req' = [req EXCEPT ![w].swap = TRUE, ![w].at = "load"]
    /\ UNCHANGED <<stockVars, so, items, issues, overlapped>>

(* updateDraft: delete the old lines and insert the new ones, numbered     *)
(* from 1 again; the totals go into the copy for the second save.  A       *)
(* DELETE that meets rows another transaction has deleted waits for it.    *)
ReplaceItems(w) ==
    /\ At(w, "delete") \/ At(w, "deleting")
    /\ ItemsFree(w)
    /\ req' = [req EXCEPT ![w].swap = TRUE, ![w].copy.amount = req[w].lines,
                          ![w].at = "load"]
    /\ UNCHANGED <<stockVars, so, items, issues, overlapped>>

DeleteWaits(w) ==
    /\ At(w, "delete") /\ ~ItemsFree(w)
    /\ GoTo(w, "deleting")
    /\ UNCHANGED <<stockVars, so, items, issues, overlapped>>

(* The rows it waited for are gone and the new ones are not in its         *)
(* snapshot, so it deletes nothing and its line 1 breaks the unique index  *)
(* on (company_id, order_id, line_no).                                     *)
InsertClashes(w) ==
    /\ At(w, "missed")
    /\ req' = [req EXCEPT ![w] = NoRequest]
    /\ UNCHANGED <<stockVars, so, items, issues, overlapped>>

CommitUpdate(w) ==
    LET r == req[w]
    IN  /\ At(w, "commit") /\ r.op = "update"
        /\ so' = [so EXCEPT ![r.order] = Overlay(@, r.copy, r.dirty)]
        /\ items' = [items EXCEPT ![r.order] = r.lines]
        /\ req' = [v \in Workers |->
                     IF v = w THEN NoRequest
                     ELSE IF On(v, r.order) /\ req[v].at = "deleting"
                     THEN [req[v] EXCEPT !.at = "missed"]
                     ELSE req[v]]
        /\ UNCHANGED <<stockVars, issues, overlapped>>

CommitApprove(w) ==
    LET r == req[w]
    IN  /\ At(w, "commit") /\ r.op = "approve"
        /\ Commit(w)
        /\ so' = [so EXCEPT ![r.order] = Overlay(@, r.copy, r.dirty)]
        /\ issues' = [issues EXCEPT ![r.order] = Append(@, r.lines)]
        /\ req' = [req EXCEPT ![w] = NoRequest]
        /\ UNCHANGED <<items, overlapped>>

----------------------------------------------------------------------------
(* Mutant: an error is caught inside the transaction, which then commits   *)
(* what it has done.                                                       *)
AbandonCommits(w) ==
    /\ ~Idle(w)
    /\ req' = [req EXCEPT ![w] = NoRequest]
    /\ IF pc[w] = "idle"
       THEN UNCHANGED stockVars
       ELSE /\ onHand' = [k \in Keys |-> onHand[k] + delta[w][k]]
            /\ ledger' = [k \in Keys |-> ledger[k] + posted[w][k]]
            /\ Discard(w)
            /\ UNCHANGED <<lots, raced>>
    /\ UNCHANGED <<so, items, issues, overlapped>>

(* A check before the transaction fails (no price, not enough stock in the *)
(* caller's warehouses), or the process or the connection dies.            *)
Abandon(w) ==
    /\ ~Idle(w)
    /\ req' = [req EXCEPT ![w] = NoRequest]
    /\ IF pc[w] = "idle" THEN UNCHANGED stockVars ELSE Rollback(w)
    /\ UNCHANGED <<so, items, issues, overlapped>>

(* v holds the row lock that w's next statement needs.                     *)
BlockedBy(w, v) ==
    \/ WaitsFor(w, v)
    \/ /\ v # w /\ ~Idle(w) /\ On(v, req[w].order)
       /\ \/ req[w].at = "write" /\ req[v].rowLock
          \/ req[w].at \in {"delete", "deleting"} /\ req[v].swap

InDeadlock(w) ==
    LET blocked == [p \in Workers \X Workers |-> BlockedBy(p[1], p[2])]
    IN  TransitiveClosure(blocked, Workers)[w, w]

BreakDeadlock(w) == InDeadlock(w) /\ Abandon(w)

Proceed(w) ==
    \/ ReadItems(w)
    \/ BeginIssue(w)
    \/ IssueStatement(w)
    \/ MarkApproved(w)
    \/ SaveLoad(w)
    \/ SaveWrite(w)
    \/ SaveAlone(w)
    \/ ReplaceItems(w)
    \/ DeleteWaits(w)
    \/ InsertClashes(w)
    \/ CommitUpdate(w)
    \/ CommitApprove(w)

Receive(w) ==
    \/ \E o \in OrderIds, lines \in Requests, submitNow \in BOOLEAN :
         CreateDraft(w, o, lines, submitNow)
    \/ \E o \in DOMAIN so :
         \/ \E lines \in Requests, touch \in BOOLEAN :
              OpenUpdate(w, o, lines, touch)
         \/ OpenSubmit(w, o)
         \/ OpenApprove(w, o)
         \/ OpenReject(w, o)

OrdersNext ==
    \E w \in Workers :
        Receive(w) \/ Proceed(w) \/ Abandon(w) \/ BreakDeadlock(w)

OrdersSafety == OrdersInit /\ [][OrdersNext]_vars

(* As for StockLedger: row locks are granted in order, deadlocks detected. *)
OrdersSpec ==
    /\ OrdersSafety
    /\ \A w \in Workers : SF_vars(Proceed(w)) /\ WF_vars(BreakDeadlock(w))

----------------------------------------------------------------------------
(* Properties.                                                             *)

(* Every order has its header, its lines and, while a request is at work   *)
(* on it, a copy of the shape of its row.                                  *)
OrdersTypeOK ==
    /\ StockTypeOK
    /\ IsPartial(so, OrderIds, Row)
    /\ DOMAIN items = DOMAIN so /\ items \in [DOMAIN so -> Requests]
    /\ req \in [Workers -> RequestRecord \cup {NoRequest}]
    /\ issues \in [OrderIds -> Seq(Requests)]
    /\ overlapped \subseteq OrderIds

(* An order that counts as approved had its stock issued: the status and   *)
(* the time stamp are never saved without the issue, whatever overlaps.    *)
ApprovedWasIssued ==
    \A o \in DOMAIN so :
        so[o].status = "approved" \/ so[o].approved => issues[o] # <<>>

(* Stock leaves only with an approval, whole: each balance is what it was  *)
(* less the lines of every approval that committed.                        *)
StockLeavesByApproval ==
    LET issued(o, k) == SumFunction([i \in DOMAIN issues[o] |->
                                       Book!Effect(issues[o][i], k)])
    IN  \A k \in Keys :
          onHand[k] = InitOnHand[k]
                        + SumFunction([o \in OrderIds |-> issued(o, k)])

(* As long as no two requests worked on an order at once: it is approved   *)
(* exactly when its lines, as they now stand, were issued once; its totals *)
(* belong to its lines; its time stamps tell the way it went.              *)
UncontendedOrdersAgree ==
    \A o \in DOMAIN so \ overlapped :
        /\ issues[o] = IF so[o].status = "approved" THEN <<items[o]>> ELSE <<>>
        /\ so[o].amount = items[o]
        /\ so[o].submitted <=> so[o].status # "draft"
        /\ so[o].approved <=> so[o].status = "approved"
        /\ so[o].rejected <=> so[o].status = "rejected"

(* Stock moves under an order only by StockLedger's steps, and one         *)
(* transaction at a time per request.                                      *)
IssuesByLedger == StockSafety

(* Every request on an order comes to an end, in spite of the locks on     *)
(* header, lines, lots and balances.                                       *)
RequestsEnd == \A w \in Workers : ~Idle(w) ~> Idle(w)

Life == INSTANCE OrderLife
            WITH order <- [o \in DOMAIN so |->
                             [status |-> so[o].status, lines |-> items[o]]],
                 book <- onHand

(* Until two requests work on one order at once, the sales module keeps    *)
(* OrderLife's promise, whatever happens to other orders and their stock.  *)
ImplementsOrderLife ==
    /\ Life!LifeInit
    /\ [][overlapped' = {} => Life!LifeNext]_(Life!lifeVars)

(* 'Only SUBMITTED can be approved' (approve): so stock is issued for an   *)
(* order once.  Two approvals that both read SUBMITTED both issue it.      *)
IssuedOnce == \A o \in OrderIds : Len(issues[o]) <= 1
=============================================================================
