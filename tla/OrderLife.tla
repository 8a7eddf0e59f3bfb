----------------------------- MODULE OrderLife -----------------------------
(***************************************************************************)
(* What the sales module promises about an order: it is edited while a     *)
(* draft, submitted, then approved or rejected once, and its stock leaves  *)
(* in the same step that approves it.  Orders, where each of these is a    *)
(* request of several reads and writes, implements it as long as requests  *)
(* do not overlap.                                                         *)
(***************************************************************************)
EXTENDS Integers

CONSTANTS Keys, Requests, OrderIds

VARIABLES
    order,  \* the orders there are: status and ordered lines
    book    \* on-hand quantities

lifeVars == <<order, book>>

Stock == INSTANCE StockBook

LifeInit ==
    /\ order = [o \in {} |-> 0]
    /\ Stock!BookInit

Place(o, lines, status) ==
    /\ o \notin DOMAIN order
    /\ status \in {"draft", "submitted"}
    /\ order' = [p \in DOMAIN order \cup {o} |->
                   IF p = o THEN [status |-> status, lines |-> lines]
                            ELSE order[p]]
    /\ UNCHANGED book

Edit(o, lines) ==
    /\ order[o].status = "draft"
    /\ order' = [order EXCEPT ![o].lines = lines]
    /\ UNCHANGED book

Move(o, from, to) ==
    /\ order[o].status = from
    /\ order' = [order EXCEPT ![o].status = to]

LifeNext ==
    \/ \E o \in OrderIds, lines \in Requests, status \in {"draft", "submitted"} :
         Place(o, lines, status)
    \/ \E o \in DOMAIN order :
         \/ \E lines \in Requests : Edit(o, lines)
         \/ Move(o, "draft", "submitted") /\ UNCHANGED book
         \/ Move(o, "submitted", "approved") /\ Stock!Post(order[o].lines)
         \/ Move(o, "submitted", "rejected") /\ UNCHANGED book

LifeSpec == LifeInit /\ [][LifeNext]_lifeVars
============================================================================
