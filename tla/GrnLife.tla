------------------------------ MODULE GrnLife ------------------------------
(***************************************************************************)
(* What the inventory module promises about a goods receipt note: a draft  *)
(* is amended and received in parts, never beyond what is expected; stock  *)
(* comes in with the totals; it is posted once everything is in, and then  *)
(* it stands.  Deleting marks the note and nothing else.  Grn implements   *)
(* this as long as requests do not overlap.                                *)
(***************************************************************************)
EXTENDS Integers, Sequences

CONSTANTS Keys, Requests, GrnIds, LineNos, Warehouses,
          Receipts, Payloads, StockLines(_, _, _)

VARIABLES
    note,   \* the notes there are: status, deleted, warehouse, rows by line
    book    \* on-hand quantities

Stock == INSTANCE StockBook

lifeVars == <<note, book>>

Received(rows, r) ==
    [l \in DOMAIN rows |->
       IF \E i \in DOMAIN r : r[i].line = l
       THEN [rows[l] EXCEPT !.received =
               @ + r[CHOOSE i \in DOMAIN r : r[i].line = l].qty]
       ELSE rows[l]]

Fits(rows, r) ==
    \A i \in DOMAIN r :
        /\ r[i].line \in DOMAIN rows
        /\ rows[r[i].line].received + r[i].qty <= rows[r[i].line].expected

AllIn(rows) == \A l \in DOMAIN rows : rows[l].received = rows[l].expected

(* An amendment gives what it will of SKU and quantity; it keeps what was  *)
(* received.                                                               *)
Amended(rows, payload) ==
    [l \in DOMAIN rows \cup DOMAIN payload |->
       LET given == IF l \in DOMAIN payload THEN payload[l] ELSE <<>>
           row == IF l \in DOMAIN rows THEN rows[l]
                  ELSE [sku |-> given.sku, expected |-> 0, received |-> 0]
       IN  [c \in DOMAIN row |-> IF c \in DOMAIN given THEN given[c] ELSE row[c]]]

Whole(payload) == \A l \in DOMAIN payload : DOMAIN payload[l] = {"sku", "expected"}

NoRows == [l \in {} |-> 0]

LifeInit ==
    /\ note = [g \in {} |-> 0]
    /\ Stock!BookInit

Enter(g, rows, status, warehouse) ==
    /\ g \notin DOMAIN note
    /\ status = "posted" => AllIn(rows)
    /\ note' = [h \in DOMAIN note \cup {g} |->
                  IF h = g
                  THEN [status |-> status, deleted |-> FALSE,
                        warehouse |-> warehouse, rows |-> rows]
                  ELSE note[h]]

Amend(g, warehouse, payload) ==
    /\ note[g].status = "draft"
    /\ \A l \in DOMAIN payload \ DOMAIN note[g].rows : "sku" \in DOMAIN payload[l]
    /\ \A l \in DOMAIN payload \cap DOMAIN note[g].rows :
         "expected" \in DOMAIN payload[l] =>
             payload[l].expected >= note[g].rows[l].received
    /\ note' = [note EXCEPT ![g].rows = Amended(@, payload),
                            ![g].warehouse = warehouse]
    /\ UNCHANGED book

Receive(g, r) ==
    /\ note[g].status = "draft"
    /\ Fits(note[g].rows, r)
    /\ note' = [note EXCEPT ![g].rows = Received(@, r)]
    /\ Stock!Post(StockLines(note[g].warehouse, note[g].rows, r))

Finish(g) ==
    /\ note[g].status = "draft" /\ AllIn(note[g].rows)
    /\ note' = [note EXCEPT ![g].status = "posted"]
    /\ UNCHANGED book

Remove(g) ==
    /\ note[g].status = "draft"
    /\ note' = [note EXCEPT ![g].deleted = TRUE]
    /\ UNCHANGED book

LifeNext ==
    \/ \E g \in GrnIds, warehouse \in Warehouses, payload \in Payloads :
         LET rows == Amended(NoRows, payload)
         IN  /\ Whole(payload)
             /\ \/ Enter(g, rows, "draft", warehouse) /\ UNCHANGED book
                \/ \E r \in Receipts, status \in {"draft", "posted"} :
                     /\ Fits(rows, r)
                     /\ Enter(g, Received(rows, r), status, warehouse)
                     /\ Stock!Post(StockLines(warehouse, rows, r))
    \/ \E g \in DOMAIN note :
         \/ \E warehouse \in Warehouses, payload \in Payloads \cup {NoRows} :
              Amend(g, warehouse, payload)
         \/ \E r \in Receipts : Receive(g, r)
         \/ Finish(g)
         \/ Remove(g)

LifeSpec == LifeInit /\ [][LifeNext]_lifeVars
============================================================================
