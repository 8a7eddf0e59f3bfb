---------------------------- MODULE TransferLife ----------------------------
(***************************************************************************)
(* What the inventory module promises about a transfer: what is dispatched *)
(* leaves the centre at once and arrives in parts, never more than was     *)
(* dispatched; every arrival is billed; and the status says how much has   *)
(* arrived.  Transfer implements this as long as requests do not overlap.  *)
(***************************************************************************)
EXTENDS Integers, Sequences

CONSTANTS Keys, Requests, TransferIds, LineNos, Plans, Receipts,
          Dispatched(_), BroughtIn(_)

VARIABLES
    doc,    \* the transfers there are: status, rows by line, billed by line
    book    \* on-hand quantities

Stock == INSTANCE StockBook

lifeVars == <<doc, book>>

Lines(s) == {s[i].line : i \in DOMAIN s}
Qty(s, l) == IF l \in Lines(s)
             THEN s[CHOOSE i \in DOMAIN s : s[i].line = l].qty ELSE 0

StatusOf(rows) ==
    IF \A l \in DOMAIN rows : rows[l].received = rows[l].dispatched
    THEN "received"
    ELSE IF \A l \in DOMAIN rows : rows[l].received = 0
    THEN "dispatched" ELSE "partial"

LifeInit ==
    /\ doc = [t \in {} |-> 0]
    /\ Stock!BookInit

Dispatch(t, plan) ==
    LET rows == [l \in Lines(plan) |->
                   [dispatched |-> Qty(plan, l), received |-> 0]]
    IN  /\ t \notin DOMAIN doc
        /\ doc' = [u \in DOMAIN doc \cup {t} |->
                     IF u = t THEN [status |-> "dispatched", rows |-> rows,
                                    billed |-> [l \in LineNos |-> 0]]
                              ELSE doc[u]]
        /\ Stock!Post(Dispatched(plan))

Arrive(t, receipt) ==
    LET rows == [l \in DOMAIN doc[t].rows |->
                   [doc[t].rows[l] EXCEPT !.received = @ + Qty(receipt, l)]]
    IN  /\ Lines(receipt) \subseteq DOMAIN rows
        /\ \A l \in DOMAIN rows : rows[l].received <= rows[l].dispatched
        /\ doc' = [doc EXCEPT ![t] =
                     [status |-> StatusOf(rows), rows |-> rows,
                      billed |-> [l \in LineNos |-> @.billed[l] + Qty(receipt, l)]]]
        /\ Stock!Post(BroughtIn(receipt))

LifeNext ==
    \/ \E t \in TransferIds, plan \in Plans : Dispatch(t, plan)
    \/ \E t \in DOMAIN doc, receipt \in Receipts : Arrive(t, receipt)

LifeSpec == LifeInit /\ [][LifeNext]_lifeVars
=============================================================================
