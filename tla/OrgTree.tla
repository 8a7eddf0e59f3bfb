------------------------------ MODULE OrgTree ------------------------------
(***************************************************************************)
(* The org hierarchy: every node has a parent link and a materialised path *)
(* of ids from its root to itself, by which subtrees are queried.          *)
(*                                                                         *)
(* A node is created in a transaction.  A node is moved, renamed or        *)
(* removed by statements that commit one by one: the row is read, saved as *)
(* TypeORM saves it (see SavedEntity), and after a move read again, given  *)
(* its new path, saved again, and then the paths that begin with the old   *)
(* one are rewritten by one UPDATE.                                        *)
(*                                                                         *)
(* Finders ignore their condition deleted_at: null, so a removed node can  *)
(* be moved, renamed, removed again and be a parent.                       *)
(***************************************************************************)
EXTENDS Integers, Sequences, FiniteSets

CONSTANTS
    Workers,    \* requests in flight
    Ids,        \* the ids the sequence of the table hands out
    MaxRequests \* bound: requests a behaviour begins

ASSUME OrgAssumption == Ids \subseteq Nat \ {0} /\ MaxRequests \in Nat

Root == 0       \* parent_id NULL

VARIABLES
    node,       \* md_org_hierarchy: parent, path and deleted_at, by id
    req,        \* the request each worker handles
    begun,      \* requests begun, for the bound
    disturbed   \* history: what happened beyond requests one by one

vars == <<node, req, begun, disturbed>>

INSTANCE SavedEntity

Row == [parent : Ids \cup {Root}, path : Seq(Ids), live : BOOLEAN]

(* A request in progress.  copy: the entity in memory.  old: the path it   *)
(* had before the move.  diff: the columns the next UPDATE sets.           *)
RequestRecord ==
    [op : {"create", "move", "rename", "remove"}, id : Ids,
     at : {"insert", "load", "write", "node", "parent", "loadPath",
           "writePath", "subtree"},
     copy : Row, old : Seq(Ids), diff : SUBSET {"parent", "path", "live"}]
NoRequest == [op |-> "none"]

Idle(w) == req[w].op = "none"
At(w, step) == ~Idle(w) /\ req[w].at = step
Quiet == \A w \in Workers : Idle(w)

(* Mutant: takes the path of the old parent.                               *)
BelowParent(old, path) ==
    /\ Len(old) <= Len(path)
    /\ SubSeq(path, 1, Len(old) - 1) = SubSeq(old, 1, Len(old) - 1)

(* path LIKE 'old%': every id is closed by a slash.                        *)
Below(old, path) ==
    Len(old) <= Len(path) /\ SubSeq(path, 1, Len(old)) = old

(* Mutant: as '^old.*' would replace.                                      *)
RegraftedWhole(path, old, new) == new

(* regexp_replace(path, '^old', 'new').                                    *)
Regrafted(path, old, new) == new \o SubSeq(path, Len(old) + 1, Len(path))

(* Both path builders: the parent's path, if there is one, and the node.   *)
PathUnder(p, n) == IF p = Root THEN <<n>> ELSE Append(node[p].path, n)

----------------------------------------------------------------------------
OrgInit ==
    /\ node = [n \in {} |-> 0]
    /\ req = [w \in Workers |-> NoRequest]
    /\ begun = 0
    /\ disturbed = {}

(* The ids of the sequence not yet taken, in its order.                    *)
Unused ==
    Ids \ (DOMAIN node \cup {req[w].id : w \in {v \in Workers : ~Idle(v)}})
IsNextId(n) == n \in Unused /\ \A m \in Unused : n <= m

Open(w, op, n, at, copy) ==
    /\ Idle(w)
    /\ begun < MaxRequests
    /\ begun' = begun + 1
    /\ req' = [req EXCEPT ![w] =
                 [op |-> op, id |-> n, at |-> at, copy |-> copy,
                  old |-> <<>>, diff |-> {}]]
    /\ disturbed' = IF Quiet THEN disturbed ELSE disturbed \cup {"overlap"}
    /\ UNCHANGED node

(* The parent is there: rows are never taken out of the table.             *)
IsParent(p) == p = Root \/ p \in DOMAIN node

(* create: in a transaction the parent is looked up, the row inserted, and *)
(* the parent's path read to compute the node's.                           *)
OpenCreate(w, n, p) ==
    /\ IsNextId(n) /\ IsParent(p)
    /\ Open(w, "create", n, "insert",
            [parent |-> p, path |-> PathUnder(p, n), live |-> TRUE])

CommitCreate(w) ==
    /\ At(w, "insert")
    /\ node' = [m \in DOMAIN node \cup {req[w].id} |->
                  IF m = req[w].id THEN req[w].copy ELSE node[m]]
    /\ req' = [req EXCEPT ![w] = NoRequest]
    /\ UNCHANGED <<begun, disturbed>>

(* update: the row is read, then the new parent.  Only the node itself is  *)
(* refused as its parent.                                                  *)
OpenMove(w, n, p) ==
    /\ n \in DOMAIN node /\ IsParent(p) /\ p # n
    /\ node[n].parent # p
    /\ Open(w, "move", n, "load", [node[n] EXCEPT !.parent = p])

(* update of anything but the parent.                                      *)
OpenRename(w, n) ==
    /\ n \in DOMAIN node
    /\ Open(w, "rename", n, "load", node[n])

OpenRemove(w, n) ==
    /\ n \in DOMAIN node
    /\ Open(w, "remove", n, "load", [node[n] EXCEPT !.live = FALSE])

(* repo.save(row): the SELECT, then the UPDATE of what differs.            *)
SaveLoad(w) ==
    /\ At(w, "load") \/ At(w, "loadPath")
    /\ req' = [req EXCEPT
                 ![w].at = IF @ = "load" THEN "write" ELSE "writePath",
                 ![w].diff = Differing(req[w].copy, node[req[w].id])]
    /\ UNCHANGED <<node, begun, disturbed>>

Saved(w) ==
    [node EXCEPT ![req[w].id] = Overlay(@, req[w].copy, req[w].diff)]

(* History: node n of the table gets a parent that, by its path, is below  *)
(* it.                                                                     *)
LoopsUnder(table, n, p) == p # Root /\ Below(table[n].path, table[p].path)

SaveWrite(w) ==
    /\ At(w, "write")
    /\ node' = Saved(w)
    /\ IF req[w].op = "move"
       THEN /\ req' = [req EXCEPT ![w].at = "node", ![w].diff = {}]
            /\ disturbed' = IF LoopsUnder(node, req[w].id, req[w].copy.parent)
                            THEN disturbed \cup {"loop"} ELSE disturbed
       ELSE /\ req' = [req EXCEPT ![w] = NoRequest]
            /\ UNCHANGED disturbed
    /\ UNCHANGED begun

(* rebuildPathSubtree: the node as it is now, its parent's path, and the   *)
(* end if the path is right already.                                       *)
ReadNode(w) ==
    /\ At(w, "node")
    /\ req' = [req EXCEPT ![w].at = "parent", ![w].copy = node[req[w].id],
                          ![w].old = node[req[w].id].path]
    /\ UNCHANGED <<node, begun, disturbed>>

ReadParent(w) ==
    LET path == PathUnder(req[w].copy.parent, req[w].id)
    IN  /\ At(w, "parent")
        /\ req' = [req EXCEPT ![w] =
                     IF path = req[w].old THEN NoRequest
                     ELSE [@ EXCEPT !.at = "loadPath", !.copy.path = path]]
        /\ UNCHANGED <<node, begun, disturbed>>

SavePath(w) ==
    /\ At(w, "writePath")
    /\ node' = Saved(w)
    /\ req' = [req EXCEPT ![w].at = "subtree", ![w].diff = {}]
    /\ UNCHANGED <<begun, disturbed>>

(* One UPDATE of the rows that are not deleted and whose path begins with  *)
(* the old one.                                                            *)
UpdateSubtree(w) ==
    LET old == req[w].old
        new == req[w].copy.path
    IN  /\ At(w, "subtree")
        /\ node' = [m \in DOMAIN node |->
                      IF node[m].live /\ Below(old, node[m].path)
                      THEN [node[m] EXCEPT !.path = Regrafted(@, old, new)]
                      ELSE node[m]]
        /\ req' = [req EXCEPT ![w] = NoRequest]
        /\ UNCHANGED <<begun, disturbed>>

(* A request ends early: the connection is lost or the process dies.  What *)
(* it committed stays.                                                     *)
Abandon(w) ==
    /\ ~Idle(w)
    /\ req' = [req EXCEPT ![w] = NoRequest]
    /\ disturbed' = IF req[w].at \in {"node", "parent", "loadPath",
                                       "writePath", "subtree"}
                    THEN disturbed \cup {"torn"} ELSE disturbed
    /\ UNCHANGED <<node, begun>>

Receive(w) ==
    \/ \E n \in Ids, p \in Ids \cup {Root} : OpenCreate(w, n, p) \/ OpenMove(w, n, p)
    \/ \E n \in Ids : OpenRename(w, n) \/ OpenRemove(w, n)

Proceed(w) ==
    \/ CommitCreate(w) \/ SaveLoad(w) \/ SaveWrite(w) \/ ReadNode(w)
    \/ ReadParent(w) \/ SavePath(w) \/ UpdateSubtree(w)

OrgNext == \E w \in Workers : Receive(w) \/ Proceed(w) \/ Abandon(w)

OrgSpec == OrgInit /\ [][OrgNext]_vars

----------------------------------------------------------------------------
(* Properties.                                                             *)

(* Every row has a path, and a request's entity the shape of a row.        *)
OrgTypeOK ==
    /\ DOMAIN node \subseteq Ids
    /\ node \in [DOMAIN node -> Row]
    /\ req \in [Workers -> RequestRecord \cup {NoRequest}]
    /\ begun \in 0..MaxRequests
    /\ disturbed \subseteq {"overlap", "loop", "torn"}

(* Nodes of S and the live nodes below them: the least set that holds the  *)
(* live children of its members.                                           *)
LiveBelow(S) ==
    {n \in DOMAIN node :
       \A T \in SUBSET DOMAIN node :
         /\ S \subseteq T
         /\ \A m \in DOMAIN node : node[m].live /\ node[m].parent \in T => m \in T
         => n \in T}

Live == {n \in DOMAIN node : node[n].live}
Attached == LiveBelow({n \in Live : node[n].parent = Root})

(* What getTree and getSubordinateRoutes select for a root.                *)
Subtree(r) == {n \in Live : Below(node[r].path, node[n].path)}

(* Whatever requests overlap or break off, no two nodes get the same path: *)
(* a path ends in its own node.  So the prefix UPDATE of a move never      *)
(* takes a node for the one that moved.                                    *)
PathsTellNodesApart ==
    \A n \in DOMAIN node :
        /\ Len(node[n].path) > 0 /\ node[n].path[Len(node[n].path)] = n
        /\ \A m \in DOMAIN node \ {n} : node[m].path # node[n].path

(* A request changes the path of another node only as part of a move of a  *)
(* node that is on that path.                                              *)
PathsChangeByMoves ==
    [][\A n \in DOMAIN node : node'[n].path # node[n].path =>
         \E w \in Workers :
           /\ ~Idle(w)
           /\ \/ req[w].id = n
              \/ /\ req[w].op = "move"
                 /\ \E i \in DOMAIN node[n].path : node[n].path[i] = req[w].id]_vars
============================================================================
