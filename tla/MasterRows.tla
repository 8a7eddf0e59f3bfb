----------------------------- MODULE MasterRows -----------------------------
(***************************************************************************)
(* How the services of the master data work on their tables.  A request    *)
(* reads the row it is about, checks what it refers to and its code, each  *)
(* by a SELECT of its own, and then inserts a row or saves its copy of the *)
(* one it read.  Nothing is locked before the last statement.  A deleted   *)
(* row stays in its table, with deleted_at set.                            *)
(*                                                                         *)
(* Catalog, Distributors and Sites say for each service what its requests  *)
(* read and check; MasterData composes them.                               *)
(***************************************************************************)
EXTENDS Integers, Sequences, FiniteSets

CONSTANTS
    Workers,        \* requests in flight, each with a database connection
    MaxRows,        \* bound: the rows of a table
    Codes,
    FirstRows,      \* what the tables may hold at the start
    MaxRequests     \* bound: requests

Tables == {"brand", "category", "subCategory", "sku", "distributor",
           "warehouse", "policy", "orgNode", "route", "outlet", "company"}

ASSUME MasterAssumption == MaxRequests \in Nat /\ MaxRows \in Nat

VARIABLES
    rows,       \* the rows of each table, in the order of their ids
    req,        \* the request each worker handles
    begun,      \* requests so far
    asked,      \* the tables requests of this behaviour are about
    stale       \* history: tables that two requests worked on at once

vars == <<rows, req, begun, asked, stale>>

INSTANCE SavedEntity

Ids == 1..MaxRows
None == 0           \* a column that is NULL
Active == "active"
Inactive == "inactive"
Status == {Active, Inactive}

NoRequest == [todo |-> <<>>]

(* A request in progress: what is left to do, the row it is about (None:   *)
(* one to insert), and that row as in memory.  refs: the rows it refers    *)
(* to.  any: its code is looked for among the deleted rows, too.  diff:    *)
(* the columns its UPDATE will set.  gone, a history of it: whether the    *)
(* row was deleted when it was read.                                       *)
Request(table, id, entity, refs, any, todo) ==
    [table |-> table, id |-> id, entity |-> entity, refs |-> refs, any |-> any,
     diff |-> {}, todo |-> todo,
     gone |-> id # None /\ rows[table][id].deleted]

Idle(w) == req[w].todo = <<>>
Others(w) == {v \in Workers \ {w} : ~Idle(v)}
Doing(w, step) == ~Idle(w) /\ Head(req[w].todo) = step
Table(w) == rows[req[w].table]

Done(w) == req' = [req EXCEPT ![w].todo = Tail(@)]
End(w) == req' = [req EXCEPT ![w] = NoRequest]

(* The steps of repository.save.                                           *)
Insert == <<"insert">>
Save == <<"load", "write">>

----------------------------------------------------------------------------
RowsInit ==
    /\ \E first \in FirstRows : rows = first.rows /\ asked = first.asked
    /\ req = [w \in Workers |-> NoRequest]
    /\ begun = 0
    /\ stale = {}

(* A row stays on a request's mind from its read to its save.              *)
Open(w, request) ==
    /\ Idle(w) /\ begun < MaxRequests /\ request.table \in asked
    /\ begun' = begun + 1
    /\ req' = [req EXCEPT ![w] = request]
    /\ stale' = stale \cup
         {t \in {request.table} : \E v \in Others(w) : req[v].table = t}
    /\ UNCHANGED <<rows, asked>>

(* Bound: a request to insert starts only when the table has room for its  *)
(* row, or its two rows, beside those that are under way.                  *)
Inserting(table) ==
    LET inserting == {v \in Workers : ~Idle(v) /\ req[v].table = table /\ req[v].id = None}
        bulk == {v \in inserting : req[v].todo[Len(req[v].todo)] = "insertAll"}
    IN  Cardinality(inserting) + Cardinality(bulk)
Room(table) ==
    Len(rows[table]) + Inserting(table) < MaxRows

OpenInsert(w, table, entity, refs, any, todo) ==
    /\ Room(table)
    /\ Open(w, Request(table, None, entity, refs, any, todo))

(* What a service finds by id: live rows, or deleted ones too when it      *)
(* states `deleted_at: null`, which TypeORM leaves out of the query.       *)
Live(table) == {i \in DOMAIN rows[table] : ~rows[table][i].deleted}
All(table) == DOMAIN rows[table]

(* A row in memory with a copy of the columns the request brings.          *)
Patched(row, patch) ==
    [c \in DOMAIN row |-> IF c \in DOMAIN patch THEN patch[c] ELSE row[c]]

OpenSave(w, table, id, patch, refs, any, todo) ==
    Open(w, Request(table, id, Patched(rows[table][id], patch), refs, any, todo))

(* The rows a request refers to, each in the state that is asked for.      *)
Ref(table, id, need) == [table |-> table, id |-> id, need |-> need]
Meets(ref) ==
    /\ ref.id \in DOMAIN rows[ref.table]
    /\ \A c \in DOMAIN ref.need : rows[ref.table][ref.id][c] = ref.need[c]

Nothing == [c \in {} |-> None]
NotDeleted == [deleted |-> FALSE]

(* A code is free when no other row has it.                                *)
CodeFree(w, among) ==
    \A i \in among \ {req[w].id} : Table(w)[i].code # req[w].entity.code

Check(w, step, holds) ==
    /\ Doing(w, step)
    /\ IF holds THEN Done(w) ELSE End(w)
    /\ UNCHANGED <<rows, begun, asked, stale>>

CheckRefs(w) == Check(w, "refs", \A ref \in req[w].refs : Meets(ref))

CheckCode(w) ==
    Check(w, "code", CodeFree(w, IF req[w].any THEN All(req[w].table)
                                 ELSE Live(req[w].table)))

(* The unique index on the code; deleted rows count, save for policies.    *)
Indexed(table) == IF table = "policy" THEN Live(table) ELSE All(table)

InsertRow(w) ==
    /\ Doing(w, "insert")
    /\ IF CodeFree(w, Indexed(req[w].table))
       THEN rows' = [rows EXCEPT ![req[w].table] = Append(@, req[w].entity)]
       ELSE UNCHANGED rows
    /\ End(w)
    /\ UNCHANGED <<begun, asked, stale>>

Load(w) ==
    /\ Doing(w, "load")
    /\ req' = [req EXCEPT ![w].todo = Tail(@),
                 ![w].diff = Differing(req[w].entity, Table(w)[req[w].id])]
    /\ UNCHANGED <<rows, begun, asked, stale>>

(* No other row in the index has the code of this one.                     *)
Distinct(table, id, row) ==
    \/ table = "policy" /\ row.deleted
    \/ \A i \in Indexed(table) \ {id} : rows[table][i].code # row.code

(* The UPDATE of these columns, which a taken code makes fail.             *)
UpdateRow(w, columns) ==
    /\ Doing(w, "write")
    /\ LET row == Overlay(Table(w)[req[w].id], req[w].entity, columns)
       IN  IF Distinct(req[w].table, req[w].id, row)
           THEN rows' = [rows EXCEPT ![req[w].table][req[w].id] = row]
           ELSE UNCHANGED rows
    /\ End(w)
    /\ UNCHANGED <<begun, asked, stale>>

(* Mutant: the UPDATE sets every column.                                   *)
WriteAll(w) == UpdateRow(w, DOMAIN req[w].entity)

Write(w) == UpdateRow(w, req[w].diff)

(* The connection is lost, or the process dies.  Each statement commits by *)
(* itself, or the transaction has written nothing before its last.         *)
Abandon(w) ==
    /\ ~Idle(w)
    /\ End(w)
    /\ UNCHANGED <<rows, begun, asked, stale>>
=============================================================================
