----------------------------- MODULE OrgImport -----------------------------
(***************************************************************************)
(* The bulk import of org nodes, beside the requests of OrgTree.           *)
(*                                                                         *)
(* One transaction reads the nodes its rows and their parent codes name,   *)
(* and then takes the rows one after the other: a known code is saved from *)
(* the copy read at the start and, if its parent differs from the copy's,  *)
(* its path and the paths below it are rewritten; another code is created. *)
(* A row that fails is noted and the loop goes on; after an error of the   *)
(* database PostgreSQL refuses the rest, and COMMIT rolls back.            *)
(*                                                                         *)
(* A row's statements are one step.  What the transaction wrote is private *)
(* until it commits, and whoever wants to write those rows waits.  Codes   *)
(* are told apart by the ids of their nodes.  Rows refused for their name  *)
(* or their dates are as if the payload did not have them.                 *)
(***************************************************************************)
EXTENDS OrgTree

CONSTANT MaxRows    \* bound: rows of a payload

ASSUME ImportAssumption == MaxRows \in Nat

VARIABLE batch      \* the import in progress

importVars == <<vars, batch>>

NoBatch == [todo |-> <<>>]
Importing == batch # NoBatch

(* A row of a payload names a node and its parent.                         *)
ImportRows == Ids \X (Ids \cup {Root})
Payloads ==
    {s \in UNION {[1..k -> ImportRows] : k \in 1..MaxRows} :
       \A i, j \in DOMAIN s : s[i][1] = s[j][1] => i = j}

Named(payload) ==
    {payload[i][1] : i \in DOMAIN payload} \cup {payload[i][2] : i \in DOMAIN payload}

(* Bound: what an import counts against MaxRequests.                       *)
Cost(payload) == Len(payload) + 1

ImportInit == OrgInit /\ batch = NoBatch

(* The codes are in the table, or new: those take the last ids of the      *)
(* sequence, out of the way of the creations.  byCode: the rows of the two *)
(* SELECTs, removed ones included.                                         *)
OpenImport(payload, upsert) ==
    LET fresh == {payload[i][1] : i \in DOMAIN payload} \ DOMAIN node
    IN  /\ Cost(payload) <= MaxRequests - begun
        /\ fresh \subseteq Unused
        /\ \A n \in fresh, m \in Unused \ fresh : m < n
        /\ begun' = begun + Cost(payload)
        /\ batch' = [asked  |-> payload,
                     todo   |-> payload,
                     upsert |-> upsert,
                     fresh  |-> fresh,
                     byCode |-> [n \in Named(payload) \cap DOMAIN node |-> node[n]],
                     rows   |-> [n \in {} |-> 0],
                     failed |-> FALSE,
                     alone  |-> Quiet,
                     begun  |-> begun + Cost(payload),
                     marks  |-> {}]
        /\ UNCHANGED <<node, req, disturbed>>

(* The table as the transaction sees it.                                   *)
View ==
    [n \in DOMAIN node \cup DOMAIN batch.rows |->
       IF n \in DOMAIN batch.rows THEN batch.rows[n] ELSE node[n]]

PathIn(view, p, n) == IF p = Root THEN <<n>> ELSE Append(view[p].path, n)

(* Mutant: only the node itself.                                           *)
RebuiltNode(view, n) == [view EXCEPT ![n].path = PathIn(view, view[n].parent, n)]

(* rebuildPathSubtree, as in OrgTree.                                      *)
Rebuilt(view, n) ==
    LET old == view[n].path
        new == PathIn(view, view[n].parent, n)
        moved == [view EXCEPT ![n].path = new]
    IN  IF old = new THEN view
        ELSE [m \in DOMAIN view |->
                IF moved[m].live /\ Below(old, moved[m].path)
                THEN [moved[m] EXCEPT !.path = Regrafted(@, old, new)]
                ELSE moved[m]]

Entry == Head(batch.todo)
ParentFound == Entry[2] = Root \/ Entry[2] \in DOMAIN batch.byCode
Known == Entry[1] \in DOMAIN batch.byCode
Runs == Importing /\ batch.todo # <<>> /\ ~batch.failed /\ ParentFound

(* A row is dealt with: the transaction saved node n and sees view.        *)
Written(n, view, marks) ==
    /\ batch' = [batch EXCEPT
                   !.todo = Tail(@), !.marks = @ \cup marks,
                   !.byCode = [m \in DOMAIN @ \cup {n} |->
                                 IF m \in DOMAIN @ THEN @[m] ELSE view[m]],
                   !.rows = [m \in DOMAIN @ \cup {n} \cup
                                  {k \in DOMAIN View : view[k] # View[k]} |-> view[m]]]
    /\ UNCHANGED vars

(* exists: saved from its copy, path included.  marks: the row ends up     *)
(* below itself, or a path an earlier row rewrote is put back.             *)
ImportUpdate ==
    LET n == Entry[1]
        p == Entry[2]
        copy == [batch.byCode[n] EXCEPT !.parent = p]
        saved == [View EXCEPT ![n] = Overlay(@, copy, Differing(copy, @))]
        moves == batch.byCode[n].parent # p
    IN  /\ Runs /\ Known /\ batch.upsert
        /\ Written(n, IF moves THEN Rebuilt(saved, n) ELSE saved,
                   {k \in {"loop", "torn"} :
                      \/ k = "loop" /\ moves /\ LoopsUnder(View, n, p)
                      \/ k = "torn" /\ copy.path # View[n].path})

(* The row is inserted, and its path set from its parent's.                *)
ImportCreate ==
    LET n == Entry[1]
        row == [parent |-> Entry[2], path |-> PathIn(View, Entry[2], n), live |-> TRUE]
    IN  /\ Runs /\ ~Known
        /\ Written(n, [m \in DOMAIN View \cup {n} |-> IF m = n THEN row ELSE View[m]], {})

(* A row without its parent, or a known code without upsert, is noted; so  *)
(* is every row once the transaction is aborted.                           *)
ImportSkip ==
    /\ Importing /\ batch.todo # <<>>
    /\ batch.failed \/ ~ParentFound \/ (Known /\ ~batch.upsert)
    /\ batch' = [batch EXCEPT !.todo = Tail(@)]
    /\ UNCHANGED vars

(* Mutant: as if the statement alone had failed.                           *)
ImportFailAlone ==
    /\ Runs
    /\ batch' = [batch EXCEPT !.todo = Tail(@)]
    /\ UNCHANGED vars

(* The database refuses a statement, for a code taken meanwhile or a       *)
(* deadlock: the error is caught, the transaction aborted.                 *)
ImportFail ==
    /\ Runs
    /\ batch' = [batch EXCEPT !.todo = Tail(@), !.failed = TRUE]
    /\ UNCHANGED vars

CommitImport ==
    /\ Importing /\ batch.todo = <<>>
    /\ node' = IF batch.failed THEN node ELSE View
    /\ disturbed' =
         disturbed \cup batch.marks
         \cup (IF batch.alone /\ begun = batch.begun THEN {} ELSE {"overlap"})
    /\ batch' = NoBatch
    /\ UNCHANGED <<req, begun>>

(* The connection is lost, or a row throws outside its try: rolled back.   *)
AbandonImport ==
    /\ Importing
    /\ batch' = NoBatch
    /\ UNCHANGED vars

(* A request's statement waits for the rows the import has written, and    *)
(* the sequence gave it other ids.  The import keeps one worker busy.      *)
Besides ==
    /\ OrgNext
    /\ Importing =>
         /\ \A n \in DOMAIN batch.rows \cap DOMAIN node : node'[n] = node[n]
         /\ \A w \in Workers :
              req'[w].op = "create" => req'[w].id \notin batch.fresh
         /\ \E w \in Workers : Idle(w)'
    /\ UNCHANGED batch

Import ==
    \/ /\ ~Importing /\ begun + 2 <= MaxRequests /\ \E w \in Workers : Idle(w)
       /\ \E payload \in Payloads, upsert \in BOOLEAN : OpenImport(payload, upsert)
    \/ ImportUpdate \/ ImportCreate \/ ImportSkip \/ ImportFail
    \/ CommitImport \/ AbandonImport

ImportNext == Besides \/ Import

ImportSpec == ImportInit /\ [][ImportNext]_importVars

----------------------------------------------------------------------------
(* Properties, beside those of OrgTree.                                    *)

(* The path of another node changes only by a move of a node on that path, *)
(* be it by a request or by a row of an import.                            *)
PathsChangeAsAsked ==
    [][\A n \in DOMAIN node : node'[n].path # node[n].path =>
         \/ \E w \in Workers :
              /\ ~Idle(w)
              /\ \/ req[w].id = n
                 \/ /\ req[w].op = "move"
                    /\ \E i \in DOMAIN node[n].path : node[n].path[i] = req[w].id
         \/ /\ Importing
            /\ \E m \in DOMAIN batch.byCode \cap DOMAIN batch.rows :
                 \E i \in DOMAIN node[n].path : node[n].path[i] = m]_importVars

(* A row that names a parent nobody knows yet, or a node nobody may update.*)
Refused(i) ==
    LET n == batch.asked[i][1]
        p == batch.asked[i][2]
    IN  \/ p # Root /\ p \notin DOMAIN batch.byCode
        \/ p \in batch.fresh /\ \E j \in DOMAIN batch.asked : j >= i /\ batch.asked[j][1] = p
        \/ n \notin batch.fresh /\ ~batch.upsert

(* An import that changes the tree has put every row in its place, but for *)
(* those it refused itself: one the database refused, also when it is      *)
(* noted and the loop goes on, takes all the others with it.               *)
ImportsAreWhole ==
    [][Importing /\ ~Importing' /\ node' # node =>
         \A i \in DOMAIN batch.asked :
           \/ Refused(i)
           \/ /\ batch.asked[i][1] \in DOMAIN node'
              /\ node'[batch.asked[i][1]].parent = batch.asked[i][2]]_importVars

----------------------------------------------------------------------------
(* The readers of the tree: the nodes a user's scope nodes give access to. *)

(* distributors: the paths of the scope nodes, then LIKE.                  *)
DistributorNodes(S) == UNION {Subtree(r) : r \in S \cap Live}

(* outlets and orders: a recursive query over the parents.                 *)
OutletNodes(S) == LiveBelow(S \cap Live)

(* As long as requests and imports come one by one, run to their end and   *)
(* move no node to a parent whose path goes through it (which a removed    *)
(* node keeps when those above it move), the lists that select by path (of trees and  *)
(* distributors) and those that follow the parents (of outlets and orders) *)
(* give the same nodes for a user's scopes, of which some may have been    *)
(* removed.  (A node whose chain of parents is interrupted by a removed    *)
(* one may be found by its path in addition.)                              *)
ExpansionsAgree ==
    Quiet /\ disturbed = {} =>
        \A S \in SUBSET DOMAIN node :
            /\ OutletNodes(S) \subseteq DistributorNodes(S)
            /\ DistributorNodes(S) \cap Attached \subseteq OutletNodes(S)
=============================================================================
