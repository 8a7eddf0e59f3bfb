--------------------------- MODULE OrgTreeProofs ---------------------------
(***************************************************************************)
(* For any number of nodes, requests and imports.  Whatever overlaps,      *)
(* breaks off or makes a loop: a path ends in its own node, so no two      *)
(* nodes share one; a path changes only as a move or an import asked for;  *)
(* and an import is whole.  The invariant says of the copies requests and  *)
(* imports hold, and will save, what it says of the table.                 *)
(*                                                                         *)
(* When nothing overlaps, breaks off or makes a loop, the paths of live    *)
(* nodes are as their parents say, so the lists that select by path and    *)
(* those that follow the parents agree.  What a request or an import has   *)
(* still to write is part of that invariant.                               *)
(***************************************************************************)
EXTENDS OrgImport, SequenceTheorems, TLAPS

EndsIn(path, n) == path \in Seq(Ids) /\ Len(path) > 0 /\ path[Len(path)] = n

TableShape ==
    /\ DOMAIN node \subseteq Ids
    /\ node \in [DOMAIN node -> Row]
    /\ \A n \in DOMAIN node : /\ EndsIn(node[n].path, n)
                              /\ node[n].parent \in DOMAIN node \cup {Root}

(* The steps a move takes after its first save, the last four of which     *)
(* know the old path.                                                      *)
KnowsOld == {"parent", "loadPath", "writePath", "subtree"}

(* What holds of a request in progress while the table has the nodes ids.  *)
Sound(r, ids) ==
    /\ r \in RequestRecord
    /\ EndsIn(r.copy.path, r.id)
    /\ r.copy.parent \in ids \cup {Root}
    /\ IF r.at = "insert" THEN r.op = "create" ELSE r.id \in ids
    /\ r.at \in KnowsOld => EndsIn(r.old, r.id)
    /\ r.at \in KnowsOld \cup {"node"} => r.op = "move"

OrgInvariant ==
    /\ TableShape
    /\ req \in [Workers -> RequestRecord \cup {NoRequest}]
    /\ \A w \in Workers : req[w] = NoRequest \/ Sound(req[w], DOMAIN node)
    /\ begun \in 0..MaxRequests
    /\ disturbed \subseteq {"overlap", "loop", "torn"}

----------------------------------------------------------------------------
(* Sequences.                                                              *)

LEMMA LastOfConcat ==
    ASSUME NEW S, NEW s \in Seq(S), NEW t \in Seq(S), Len(t) > 0
    PROVE  /\ s \o t \in Seq(S)
           /\ Len(s \o t) = Len(s) + Len(t)
           /\ (s \o t)[Len(s \o t)] = t[Len(t)]
  <1>1. Len(s) \in Nat /\ Len(t) \in Nat
    OBVIOUS
  <1>2. s \o t \in Seq(S) /\ Len(s \o t) = Len(s) + Len(t)
    OBVIOUS
  <1>3. (s \o t)[Len(s) + Len(t)] = t[Len(s) + Len(t) - Len(s)]
    BY <1>1
  <1>4. Len(s) + Len(t) - Len(s) = Len(t)
    BY <1>1
  <1> QED
    BY <1>2, <1>3, <1>4

LEMMA LastOfRest ==
    ASSUME NEW S, NEW s \in Seq(S), NEW k \in Nat, k < Len(s)
    PROVE  /\ SubSeq(s, k + 1, Len(s)) \in Seq(S)
           /\ Len(SubSeq(s, k + 1, Len(s))) = Len(s) - k
           /\ SubSeq(s, k + 1, Len(s))[Len(s) - k] = s[Len(s)]
  <1>1. Len(s) \in Nat /\ Len(s) - k \in 1 .. Len(s) - (k + 1) + 1
        /\ k + 1 + (Len(s) - k) - 1 = Len(s)
    OBVIOUS
  <1>2. \A i \in (k + 1) .. Len(s) : s[i] \in S
    BY <1>1
  <1> QED
    BY <1>1, <1>2, SubSeqProperties

(* The UPDATE of a move, on a path that begins with the old one: the new   *)
(* path ends where the path did.                                           *)
LEMMA RegraftedEnds ==
    ASSUME NEW n \in Ids, NEW m \in Ids, NEW old, NEW new, NEW path,
           EndsIn(old, n), EndsIn(new, n), EndsIn(path, m), Below(old, path)
    PROVE  EndsIn(Regrafted(path, old, new), m)
  <1> DEFINE rest == SubSeq(path, Len(old) + 1, Len(path))
  <1>1. /\ old \in Seq(Ids) /\ new \in Seq(Ids) /\ path \in Seq(Ids)
        /\ Len(old) \in Nat \ {0} /\ Len(new) \in Nat \ {0}
        /\ Len(path) \in Nat \ {0} /\ Len(old) <= Len(path)
    BY DEF EndsIn, Below
  <1>2. CASE Len(path) = Len(old)
    <2>1. path[Len(path)] = old[Len(old)]
      <3>1. SubSeq(path, 1, Len(old))[Len(old)] = path[Len(old)]
        BY <1>1
      <3> QED
        BY <3>1, <1>2 DEF Below
    <2>2. m = n
      BY <2>1 DEF EndsIn
    <2>3. rest = <<>>
      BY <1>1, <1>2
    <2>4. Regrafted(path, old, new) = new
      BY <1>1, <2>3, ConcatEmptySeq DEF Regrafted
    <2> QED
      BY <2>2, <2>4
  <1>3. CASE Len(path) > Len(old)
    <2>1. rest \in Seq(Ids) /\ Len(rest) = Len(path) - Len(old)
          /\ rest[Len(rest)] = path[Len(path)]
      BY <1>1, <1>3, LastOfRest
    <2> HIDE DEF rest
    <2>2. EndsIn(new \o rest, m)
      BY <1>1, <1>3, <2>1, LastOfConcat DEF EndsIn
    <2> QED
      BY <2>2 DEF Regrafted, rest
  <1> QED
    BY <1>1, <1>2, <1>3

----------------------------------------------------------------------------
(* The paths the two builders make.                                        *)
LEMMA PathUnderEnds ==
    ASSUME TableShape, NEW n \in Ids, NEW p \in DOMAIN node \cup {Root}
    PROVE  EndsIn(PathUnder(p, n), n)
  <1>1. CASE p = Root
    BY <1>1 DEF PathUnder, EndsIn
  <1>2. CASE p # Root
    <2>1. node[p].path \in Seq(Ids)
      BY <1>2 DEF TableShape, EndsIn
    <2> QED
      BY <1>2, <2>1 DEF PathUnder, EndsIn
  <1> QED
    BY <1>1, <1>2

(* A save leaves each column as it was or as the copy has it.              *)
LEMMA OverlayOfRows ==
    ASSUME NEW row \in Row, NEW copy \in Row, NEW columns
    PROVE  /\ Overlay(row, copy, columns) \in Row
           /\ Overlay(row, copy, columns).path \in {row.path, copy.path}
           /\ Overlay(row, copy, columns).parent \in {row.parent, copy.parent}
  BY DEF Overlay, Row

LEMMA SavedShape ==
    ASSUME OrgInvariant, NEW w \in Workers, Sound(req[w], DOMAIN node),
           req[w].at # "insert", node' = Saved(w)
    PROVE  TableShape' /\ DOMAIN node' = DOMAIN node
  <1> DEFINE n == req[w].id
             saved == Overlay(node[n], req[w].copy, req[w].diff)
  <1>1. /\ n \in DOMAIN node /\ n \in Ids /\ node[n] \in Row
        /\ req[w].copy \in Row
        /\ EndsIn(node[n].path, n) /\ EndsIn(req[w].copy.path, n)
        /\ node[n].parent \in DOMAIN node \cup {Root}
        /\ req[w].copy.parent \in DOMAIN node \cup {Root}
    BY DEF OrgInvariant, TableShape, Sound, RequestRecord
  <1>2. /\ saved \in Row /\ EndsIn(saved.path, n)
        /\ saved.parent \in DOMAIN node \cup {Root}
    BY <1>1, OverlayOfRows
  <1>3. node' = [node EXCEPT ![n] = saved]
    BY <1>1 DEF Saved
  <1> HIDE DEF saved, n
  <1> QED
    BY <1>1, <1>2, <1>3 DEF OrgInvariant, TableShape, EndsIn

(* Requests stay sound while the table gains rows.                         *)
LEMMA SoundKept ==
    ASSUME NEW r, NEW ids, NEW more, Sound(r, ids), ids \subseteq more
    PROVE  Sound(r, more)
  BY DEF Sound

(* A step of one request.                                                  *)
LEMMA RequestStep ==
    ASSUME OrgInvariant, NEW w \in Workers,
           TableShape', DOMAIN node \subseteq DOMAIN node',
           begun' \in 0..MaxRequests,
           disturbed' \subseteq {"overlap", "loop", "torn"},
           NEW r, req' = [req EXCEPT ![w] = r],
           r = NoRequest \/ Sound(r, DOMAIN node')
    PROVE  OrgInvariant'
  <1>1. /\ req'[w] = r /\ \A v \in Workers \ {w} : req'[v] = req[v]
        /\ req' \in [Workers -> RequestRecord \cup {NoRequest}]
    BY DEF OrgInvariant, Sound
  <1>2. \A v \in Workers \ {w} :
           req[v] = NoRequest \/ Sound(req[v], DOMAIN node')
    BY SoundKept DEF OrgInvariant
  <1>3. \A v \in Workers : req'[v] = NoRequest \/ Sound(req'[v], DOMAIN node')
    BY <1>1, <1>2
  <1> QED
    BY <1>1, <1>3 DEF OrgInvariant

----------------------------------------------------------------------------
LEMMA OrgInitInvariant == OrgInit => OrgInvariant
  BY OrgAssumption DEF OrgInit, OrgInvariant, TableShape, NoRequest

(* What a request in progress is known to be.                              *)
LEMMA Progressing ==
    ASSUME OrgInvariant, NEW w \in Workers, ~Idle(w)
    PROVE  /\ Sound(req[w], DOMAIN node)
           /\ req[w].id \in Ids
           /\ req[w].at # "insert" => /\ req[w].id \in DOMAIN node
                                      /\ node[req[w].id] \in Row
                                      /\ EndsIn(node[req[w].id].path, req[w].id)
  BY DEF OrgInvariant, TableShape, Idle, NoRequest, Sound, RequestRecord

(* A request begins, with a copy that is already sound.                    *)
LEMMA OpenStep ==
    ASSUME OrgInvariant, NEW w \in Workers,
           NEW op \in {"create", "move", "rename", "remove"}, NEW n \in Ids,
           NEW at \in {"insert", "load"}, NEW copy \in Row,
           EndsIn(copy.path, n), copy.parent \in DOMAIN node \cup {Root},
           IF at = "insert" THEN op = "create" ELSE n \in DOMAIN node,
           Open(w, op, n, at, copy)
    PROVE  OrgInvariant'
  <1> DEFINE r == [op |-> op, id |-> n, at |-> at, copy |-> copy,
                   old |-> <<>>, diff |-> {}]
  <1>1. Sound(r, DOMAIN node)
    BY DEF Sound, RequestRecord, KnowsOld
  <1>2. begun' \in 0..MaxRequests
    BY OrgAssumption DEF Open, OrgInvariant
  <1>3. disturbed' \subseteq {"overlap", "loop", "torn"}
    BY DEF Open, OrgInvariant
  <1>4. node' = node /\ req' = [req EXCEPT ![w] = r]
    BY DEF Open
  <1>5. TableShape'
    BY <1>4 DEF OrgInvariant, TableShape
  <1> HIDE DEF r
  <1> QED
    BY <1>1, <1>2, <1>3, <1>4, <1>5, RequestStep

LEMMA ReceiveStep ==
    ASSUME OrgInvariant, NEW w \in Workers, Receive(w)
    PROVE  OrgInvariant'
  <1>1. \A n \in DOMAIN node : /\ n \in Ids /\ node[n] \in Row
                               /\ EndsIn(node[n].path, n)
                               /\ node[n].parent \in DOMAIN node \cup {Root}
    BY DEF OrgInvariant, TableShape
  <1>2. ASSUME NEW n \in Ids, NEW p \in Ids \cup {Root}, OpenCreate(w, n, p)
        PROVE  OrgInvariant'
    <2> DEFINE copy == [parent |-> p, path |-> PathUnder(p, n), live |-> TRUE]
    <2>1. p \in DOMAIN node \cup {Root}
      BY <1>2 DEF OpenCreate, IsParent
    <2>2. EndsIn(PathUnder(p, n), n)
      BY <2>1, PathUnderEnds DEF OrgInvariant
    <2>3. copy \in Row /\ EndsIn(copy.path, n) /\ copy.parent = p
      BY <2>2 DEF Row, EndsIn
    <2>4. Open(w, "create", n, "insert", copy)
      BY <1>2 DEF OpenCreate
    <2> HIDE DEF copy
    <2> QED
      BY <2>1, <2>3, <2>4, OpenStep
  <1>3. ASSUME NEW n \in Ids, NEW p \in Ids \cup {Root}, OpenMove(w, n, p)
        PROVE  OrgInvariant'
    <2> DEFINE copy == [node[n] EXCEPT !.parent = p]
    <2>1. n \in DOMAIN node /\ p \in DOMAIN node \cup {Root}
      BY <1>3 DEF OpenMove, IsParent
    <2>2. copy \in Row /\ copy.path = node[n].path /\ copy.parent = p
      BY <1>1, <2>1 DEF Row
    <2>3. Open(w, "move", n, "load", copy)
      BY <1>3 DEF OpenMove
    <2> HIDE DEF copy
    <2> QED
      BY <1>1, <2>1, <2>2, <2>3, OpenStep
  <1>4. ASSUME NEW n \in Ids, OpenRename(w, n)
        PROVE  OrgInvariant'
    BY <1>1, <1>4, OpenStep DEF OpenRename
  <1>5. ASSUME NEW n \in Ids, OpenRemove(w, n)
        PROVE  OrgInvariant'
    <2> DEFINE copy == [node[n] EXCEPT !.live = FALSE]
    <2>1. n \in DOMAIN node
      BY <1>5 DEF OpenRemove
    <2>2. copy \in Row /\ copy.path = node[n].path
          /\ copy.parent = node[n].parent
      BY <1>1, <2>1 DEF Row
    <2>3. Open(w, "remove", n, "load", copy)
      BY <1>5 DEF OpenRemove
    <2> HIDE DEF copy
    <2> QED
      BY <1>1, <2>1, <2>2, <2>3, OpenStep
  <1> QED
    BY <1>2, <1>3, <1>4, <1>5 DEF Receive

----------------------------------------------------------------------------
(* A step of a request in progress that leaves the table alone.            *)
LEMMA ReadingStep ==
    ASSUME OrgInvariant, NEW w \in Workers, UNCHANGED <<node, begun>>,
           disturbed' \subseteq {"overlap", "loop", "torn"},
           NEW r, req' = [req EXCEPT ![w] = r],
           r = NoRequest \/ Sound(r, DOMAIN node)
    PROVE  OrgInvariant'
  <1>1. TableShape' /\ DOMAIN node' = DOMAIN node
        /\ begun' \in 0..MaxRequests
    BY DEF OrgInvariant, TableShape
  <1> QED
    BY <1>1, RequestStep

LEMMA CommitCreateStep ==
    ASSUME OrgInvariant, NEW w \in Workers, CommitCreate(w)
    PROVE  OrgInvariant'
  <1> DEFINE n == req[w].id
             copy == req[w].copy
  <1>1. /\ n \in Ids /\ copy \in Row /\ EndsIn(copy.path, n)
        /\ copy.parent \in DOMAIN node \cup {Root}
    BY Progressing DEF CommitCreate, At, Sound, RequestRecord
  <1>2. node' = [m \in DOMAIN node \cup {n} |-> IF m = n THEN copy ELSE node[m]]
    BY DEF CommitCreate
  <1> HIDE DEF n, copy
  <1>3. TableShape' /\ DOMAIN node \subseteq DOMAIN node'
    BY <1>1, <1>2 DEF OrgInvariant, TableShape, EndsIn
  <1>4. /\ begun' \in 0..MaxRequests
        /\ disturbed' \subseteq {"overlap", "loop", "torn"}
        /\ req' = [req EXCEPT ![w] = NoRequest]
    BY DEF CommitCreate, OrgInvariant
  <1> QED
    BY <1>3, <1>4, RequestStep

LEMMA SaveLoadStep ==
    ASSUME OrgInvariant, NEW w \in Workers, SaveLoad(w)
    PROVE  OrgInvariant'
  <1> DEFINE next == IF req[w].at = "load" THEN "write" ELSE "writePath"
             diff == Differing(req[w].copy, node[req[w].id])
             r == [req[w] EXCEPT !.at = next, !.diff = diff]
  <1>1. /\ Sound(req[w], DOMAIN node) /\ node[req[w].id] \in Row
        /\ req[w].at \in {"load", "loadPath"}
    BY Progressing DEF SaveLoad, At
  <1>2. diff \in SUBSET {"parent", "path", "live"}
    BY <1>1 DEF Differing, Row
  <1>3. /\ next \in {"write", "writePath"}
        /\ next \in KnowsOld => req[w].at \in KnowsOld
    BY <1>1 DEF KnowsOld
  <1>4. req' = [req EXCEPT ![w] = r]
    BY DEF SaveLoad, OrgInvariant
  <1> HIDE DEF next, diff
  <1>5. Sound(r, DOMAIN node)
    BY <1>1, <1>2, <1>3 DEF Sound, RequestRecord
  <1>6. UNCHANGED <<node, begun>>
        /\ disturbed' \subseteq {"overlap", "loop", "torn"}
    BY DEF SaveLoad, OrgInvariant
  <1> HIDE DEF r
  <1> QED
    BY <1>4, <1>5, <1>6, ReadingStep

LEMMA SaveWriteStep ==
    ASSUME OrgInvariant, NEW w \in Workers, SaveWrite(w)
    PROVE  OrgInvariant'
  <1> DEFINE r == IF req[w].op = "move"
                  THEN [req[w] EXCEPT !.at = "node", !.diff = {}] ELSE NoRequest
  <1>1. Sound(req[w], DOMAIN node) /\ req[w].at = "write"
    BY Progressing DEF SaveWrite, At
  <1>2. TableShape' /\ DOMAIN node' = DOMAIN node
    BY <1>1, SavedShape DEF SaveWrite
  <1>3. req' = [req EXCEPT ![w] = r]
    BY DEF SaveWrite, OrgInvariant
  <1>4. r = NoRequest \/ Sound(r, DOMAIN node)
    BY <1>1 DEF Sound, RequestRecord, KnowsOld
  <1>5. /\ begun' \in 0..MaxRequests
        /\ disturbed' \subseteq {"overlap", "loop", "torn"}
    BY DEF SaveWrite, OrgInvariant
  <1> HIDE DEF r
  <1> QED
    BY <1>2, <1>3, <1>4, <1>5, RequestStep

LEMMA ReadNodeStep ==
    ASSUME OrgInvariant, NEW w \in Workers, ReadNode(w)
    PROVE  OrgInvariant'
  <1> DEFINE r == [req[w] EXCEPT !.at = "parent", !.copy = node[req[w].id],
                                 !.old = node[req[w].id].path]
  <1>1. /\ Sound(req[w], DOMAIN node) /\ req[w].at = "node" /\ req[w].id \in DOMAIN node
        /\ node[req[w].id] \in Row
        /\ EndsIn(node[req[w].id].path, req[w].id)
        /\ node[req[w].id].parent \in DOMAIN node \cup {Root}
    BY Progressing DEF ReadNode, At, OrgInvariant, TableShape
  <1>2. Sound(r, DOMAIN node)
    BY <1>1 DEF Sound, RequestRecord, EndsIn, KnowsOld
  <1>3. req' = [req EXCEPT ![w] = r]
    BY DEF ReadNode, OrgInvariant
  <1>4. UNCHANGED <<node, begun>>
        /\ disturbed' \subseteq {"overlap", "loop", "torn"}
    BY DEF ReadNode, OrgInvariant
  <1> HIDE DEF r
  <1> QED
    BY <1>2, <1>3, <1>4, ReadingStep

LEMMA ReadParentStep ==
    ASSUME OrgInvariant, NEW w \in Workers, ReadParent(w)
    PROVE  OrgInvariant'
  <1> DEFINE path == PathUnder(req[w].copy.parent, req[w].id)
             grafted == [req[w] EXCEPT !.at = "loadPath", !.copy.path = path]
             r == IF path = req[w].old THEN NoRequest ELSE grafted
  <1>1. Sound(req[w], DOMAIN node) /\ req[w].at = "parent"
    BY Progressing DEF ReadParent, At
  <1>2. EndsIn(path, req[w].id)
    BY <1>1, PathUnderEnds DEF OrgInvariant, Sound, RequestRecord
  <1> HIDE DEF path
  <1>3. Sound(grafted, DOMAIN node)
    BY <1>1, <1>2 DEF Sound, RequestRecord, Row, EndsIn, KnowsOld
  <1> HIDE DEF grafted
  <1>4. req' = [req EXCEPT ![w] = r]
    BY DEF ReadParent, OrgInvariant, path, grafted
  <1>5. UNCHANGED <<node, begun>>
        /\ disturbed' \subseteq {"overlap", "loop", "torn"}
    BY DEF ReadParent, OrgInvariant
  <1>6. r = NoRequest \/ Sound(r, DOMAIN node)
    BY <1>3
  <1> HIDE DEF r
  <1> QED
    BY <1>4, <1>5, <1>6, ReadingStep

LEMMA SavePathStep ==
    ASSUME OrgInvariant, NEW w \in Workers, SavePath(w)
    PROVE  OrgInvariant'
  <1> DEFINE r == [req[w] EXCEPT !.at = "subtree", !.diff = {}]
  <1>1. Sound(req[w], DOMAIN node) /\ req[w].at = "writePath"
    BY Progressing DEF SavePath, At
  <1>2. TableShape' /\ DOMAIN node' = DOMAIN node
    BY <1>1, SavedShape DEF SavePath
  <1>3. req' = [req EXCEPT ![w] = r]
    BY DEF SavePath, OrgInvariant
  <1>4. Sound(r, DOMAIN node)
    BY <1>1 DEF Sound, RequestRecord, KnowsOld
  <1>5. /\ begun' \in 0..MaxRequests
        /\ disturbed' \subseteq {"overlap", "loop", "torn"}
    BY DEF SavePath, OrgInvariant
  <1> HIDE DEF r
  <1> QED
    BY <1>2, <1>3, <1>4, <1>5, RequestStep

LEMMA UpdateSubtreeStep ==
    ASSUME OrgInvariant, NEW w \in Workers, UpdateSubtree(w)
    PROVE  OrgInvariant'
  <1> DEFINE id == req[w].id
             old == req[w].old
             new == req[w].copy.path
             moved(m) == [node[m] EXCEPT !.path = Regrafted(@, old, new)]
  <1>1. id \in Ids /\ EndsIn(old, id) /\ EndsIn(new, id)
    BY Progressing DEF UpdateSubtree, At, Sound, KnowsOld
  <1>2. node' = [m \in DOMAIN node |->
                   IF node[m].live /\ Below(old, node[m].path)
                   THEN moved(m) ELSE node[m]]
    BY DEF UpdateSubtree
  <1> HIDE DEF id, old, new
  <1>3. ASSUME NEW m \in DOMAIN node, Below(old, node[m].path)
        PROVE  /\ moved(m) \in Row /\ EndsIn(moved(m).path, m)
               /\ moved(m).parent \in DOMAIN node \cup {Root}
    <2>1. /\ m \in Ids /\ node[m] \in Row /\ EndsIn(node[m].path, m)
          /\ node[m].parent \in DOMAIN node \cup {Root}
      BY DEF OrgInvariant, TableShape
    <2>2. EndsIn(Regrafted(node[m].path, old, new), m)
      BY <1>1, <1>3, <2>1, RegraftedEnds
    <2> QED
      BY <2>1, <2>2 DEF Row, EndsIn
  <1> HIDE DEF moved
  <1>4. TableShape' /\ DOMAIN node' = DOMAIN node
    BY <1>2, <1>3 DEF OrgInvariant, TableShape
  <1>5. /\ begun' \in 0..MaxRequests
        /\ disturbed' \subseteq {"overlap", "loop", "torn"}
        /\ req' = [req EXCEPT ![w] = NoRequest]
    BY DEF UpdateSubtree, OrgInvariant
  <1> QED
    BY <1>4, <1>5, RequestStep

LEMMA AbandonStep ==
    ASSUME OrgInvariant, NEW w \in Workers, Abandon(w)
    PROVE  OrgInvariant'
  BY ReadingStep DEF Abandon, OrgInvariant

LEMMA OrgNextInvariant == OrgInvariant /\ [OrgNext]_vars => OrgInvariant'
  <1> SUFFICES ASSUME OrgInvariant, [OrgNext]_vars PROVE OrgInvariant'
    OBVIOUS
  <1>1. CASE UNCHANGED vars
    BY <1>1 DEF OrgInvariant, TableShape, vars
  <1>2. ASSUME NEW w \in Workers, Receive(w) \/ Proceed(w) \/ Abandon(w)
        PROVE  OrgInvariant'
    <2>1. CASE Receive(w)
      BY <2>1, ReceiveStep
    <2>2. CASE Proceed(w)
      BY <2>2, CommitCreateStep, SaveLoadStep, SaveWriteStep, ReadNodeStep,
         ReadParentStep, SavePathStep, UpdateSubtreeStep DEF Proceed
    <2>3. CASE Abandon(w)
      BY <2>3, AbandonStep
    <2> QED
      BY <1>2, <2>1, <2>2, <2>3
  <1> QED
    BY <1>1, <1>2 DEF OrgNext

(* The invariant holds in every reachable state.                           *)
THEOREM OrgInvariantHolds == OrgSpec => []OrgInvariant
  <1>1. OrgInit => OrgInvariant
    BY OrgInitInvariant
  <1>2. OrgInvariant /\ [OrgNext]_vars => OrgInvariant'
    BY OrgNextInvariant
  <1> QED
    BY <1>1, <1>2, PTL DEF OrgSpec

(* Every row and every entity in memory has the shape of a row.            *)
THEOREM OrgTypesHold == OrgSpec => []OrgTypeOK
  <1>1. OrgInvariant => OrgTypeOK
    <2> SUFFICES ASSUME OrgInvariant PROVE OrgTypeOK
      OBVIOUS
    <2> QED
      BY DEF OrgInvariant, OrgTypeOK, TableShape
  <1> QED
    BY <1>1, OrgInvariantHolds, PTL

(* No two nodes ever have the same path, whatever requests overlap, break  *)
(* off or make a loop: every path ends in its own node.                    *)
THEOREM PathsStayApart == OrgSpec => []PathsTellNodesApart
  <1>1. OrgInvariant => PathsTellNodesApart
    BY DEF OrgInvariant, TableShape, EndsIn, PathsTellNodesApart
  <1> QED
    BY <1>1, OrgInvariantHolds, PTL

----------------------------------------------------------------------------
(* Which paths a step can change.                                          *)
PathsKept ==
    \A n \in DOMAIN node : node'[n].path # node[n].path =>
         \E w \in Workers :
           /\ ~Idle(w)
           /\ \/ req[w].id = n
              \/ /\ req[w].op = "move"
                 /\ \E i \in DOMAIN node[n].path : node[n].path[i] = req[w].id

(* A path that begins with another one has its last id on it.              *)
LEMMA BelowGoesThrough ==
    ASSUME NEW n \in Ids, NEW m \in Ids, NEW old, NEW path,
           EndsIn(old, n), EndsIn(path, m), Below(old, path)
    PROVE  \E i \in DOMAIN path : path[i] = n
  <1>1. /\ Len(old) \in 1..Len(path) /\ old[Len(old)] = n
        /\ Len(path) \in Nat /\ path \in Seq(Ids)
    BY DEF EndsIn, Below
  <1>2. SubSeq(path, 1, Len(old))[Len(old)] = path[Len(old)]
    BY <1>1
  <1>3. path[Len(old)] = n
    BY <1>1, <1>2 DEF Below
  <1>4. Len(old) \in DOMAIN path
    BY <1>1
  <1> QED
    BY <1>3, <1>4

LEMMA StepKeepsPaths == OrgInvariant /\ [OrgNext]_vars => PathsKept
  <1> SUFFICES ASSUME OrgInvariant, [OrgNext]_vars PROVE PathsKept
    OBVIOUS
  <1>1. CASE node' = node
    BY <1>1 DEF PathsKept
  <1>2. ASSUME NEW w \in Workers, CommitCreate(w)
        PROVE  PathsKept
    BY <1>2 DEF CommitCreate, At, PathsKept
  <1>3. ASSUME NEW w \in Workers, ~Idle(w), node' = Saved(w)
        PROVE  PathsKept
    BY <1>3 DEF Saved, PathsKept, OrgInvariant, TableShape
  <1>4. ASSUME NEW w \in Workers, UpdateSubtree(w)
        PROVE  PathsKept
    <2>1. /\ req[w].id \in Ids /\ EndsIn(req[w].old, req[w].id)
          /\ req[w].op = "move" /\ ~Idle(w)
      BY <1>4, Progressing DEF UpdateSubtree, At, Sound, KnowsOld
    <2>2. \A n \in DOMAIN node :
             node'[n].path # node[n].path => Below(req[w].old, node[n].path)
      BY <1>4 DEF UpdateSubtree
    <2>3. \A n \in DOMAIN node : n \in Ids /\ EndsIn(node[n].path, n)
      BY DEF OrgInvariant, TableShape
    <2> QED
      BY <2>1, <2>2, <2>3, BelowGoesThrough DEF PathsKept
  <1>5. CASE UNCHANGED vars
    BY <1>1, <1>5 DEF vars
  <1>6. ASSUME NEW w \in Workers, Receive(w) \/ Abandon(w)
        PROVE  node' = node
    BY <1>6 DEF Receive, Abandon, OpenCreate, OpenMove, OpenRename, OpenRemove, Open
  <1>7. ASSUME NEW w \in Workers, SaveLoad(w) \/ ReadNode(w) \/ ReadParent(w)
        PROVE  node' = node
    BY <1>7 DEF SaveLoad, ReadNode, ReadParent
  <1>8. ASSUME NEW w \in Workers, SaveWrite(w) \/ SavePath(w)
        PROVE  PathsKept
    BY <1>3, <1>8 DEF SaveWrite, SavePath, At
  <1> QED
    BY <1>1, <1>2, <1>4, <1>5, <1>6, <1>7, <1>8 DEF OrgNext, Proceed

(* A request changes another node's path only as part of a move of a node  *)
(* on that path.                                                           *)
THEOREM PathsChangeOnlyByMoves == OrgSpec => PathsChangeByMoves
  <1>1. OrgInvariant /\ [OrgNext]_vars
          => [\A n \in DOMAIN node : node'[n].path # node[n].path =>
                \E w \in Workers :
                  /\ ~Idle(w)
                  /\ \/ req[w].id = n
                     \/ /\ req[w].op = "move"
                        /\ \E i \in DOMAIN node[n].path :
                             node[n].path[i] = req[w].id]_vars
    BY StepKeepsPaths DEF PathsKept
  <1> QED
    BY <1>1, OrgInvariantHolds, PTL DEF OrgSpec, PathsChangeByMoves

----------------------------------------------------------------------------
(* Imports.  The rows a transaction has written and the copies it has read *)
(* are sound like those of the table, in which it will put the former.     *)
SoundRows(f, ids) ==
    \A n \in DOMAIN f : EndsIn(f[n].path, n) /\ f[n].parent \in ids \cup {Root}

RowTables == UNION {[S -> Row] : S \in SUBSET Ids}

SoundTable(t) == t \in RowTables /\ SoundRows(t, DOMAIN t)

BatchRecord ==
    [asked : Seq(ImportRows), todo : Seq(ImportRows), upsert : BOOLEAN,
     fresh : SUBSET Ids, byCode : RowTables, rows : RowTables,
     failed : BOOLEAN, alone : BOOLEAN, begun : Nat,
     marks : SUBSET {"loop", "torn"}]

(* The rows still to take are the last of the payload, which names every   *)
(* code once.  A code that is asked for has been read, or is new; a new    *)
(* one that has a copy is of a row already taken.                          *)
Taken(b) == Len(b.asked) - Len(b.todo)
InOrder(b) ==
    /\ Len(b.todo) <= Len(b.asked)
    /\ \A i \in 1..Len(b.todo) : b.todo[i] = b.asked[Taken(b) + i]
    /\ \A i, j \in 1..Len(b.asked) : b.asked[i][1] = b.asked[j][1] => i = j
CodesKnown(b) ==
    /\ \A i \in 1..Len(b.asked) : b.asked[i][1] \in b.fresh \cup DOMAIN b.byCode
    /\ \A n \in b.fresh \cap DOMAIN b.byCode : \E i \in 1..Taken(b) : b.asked[i][1] = n

(* A path the transaction changes is one of a node it saved.               *)
On(n, path) == \E i \in DOMAIN path : path[i] = n
ChangesAsked(b, table) ==
    \A n \in DOMAIN table \cap DOMAIN b.rows :
        b.rows[n].path # table[n].path =>
            \E m \in DOMAIN b.byCode \cap DOMAIN b.rows : On(m, table[n].path)

(* Every row taken is in its place, or the import refused it.              *)
InPlace(b, i) ==
    /\ b.asked[i][1] \in DOMAIN b.rows
    /\ b.rows[b.asked[i][1]].parent = b.asked[i][2]
RefusedBy(b, i) ==
    LET n == b.asked[i][1]
        p == b.asked[i][2]
    IN  \/ p # Root /\ p \notin DOMAIN b.byCode
        \/ p \in b.fresh /\ \E j \in 1..Len(b.asked) : j >= i /\ b.asked[j][1] = p
        \/ n \notin b.fresh /\ ~b.upsert
RowsTaken(b) ==
    ~b.failed => \A i \in 1..Taken(b) : InPlace(b, i) \/ RefusedBy(b, i)

BatchSound(b, table) ==
    /\ b \in BatchRecord
    /\ InOrder(b) /\ CodesKnown(b)
    /\ SoundRows(b.rows, DOMAIN table \cup DOMAIN b.rows)
    /\ SoundRows(b.byCode, DOMAIN table \cup DOMAIN b.rows)
    /\ DOMAIN b.byCode \subseteq DOMAIN table \cup DOMAIN b.rows
    /\ DOMAIN b.rows \subseteq DOMAIN table \cup b.fresh
    /\ ChangesAsked(b, table) /\ RowsTaken(b)

(* No request creates a node of the import.                                *)
CreatesApart ==
    \A w \in Workers : req[w].op = "create" => req[w].id \notin batch.fresh

ImportInvariant ==
    /\ OrgInvariant
    /\ Importing => BatchSound(batch, node) /\ CreatesApart

----------------------------------------------------------------------------
LEMMA RowTableTypes ==
    ASSUME NEW f
    PROVE  f \in RowTables <=> DOMAIN f \subseteq Ids /\ f \in [DOMAIN f -> Row]
  BY DEF RowTables

LEMMA EndsOn == ASSUME NEW n, NEW path, EndsIn(path, n) PROVE On(n, path)
  BY DEF On, EndsIn

LEMMA TableIsSound == OrgInvariant => SoundTable(node)
  BY RowTableTypes DEF OrgInvariant, TableShape, SoundTable, SoundRows

LEMMA SoundIsTable == ASSUME SoundTable(node)' PROVE TableShape'
  BY RowTableTypes DEF TableShape, SoundTable, SoundRows

LEMMA ViewIs ==
    ASSUME OrgInvariant, BatchSound(batch, node)
    PROVE  /\ SoundTable(View) /\ DOMAIN View = DOMAIN node \cup DOMAIN batch.rows
           /\ \A n \in DOMAIN batch.rows : View[n] = batch.rows[n]
           /\ \A n \in DOMAIN node \ DOMAIN batch.rows : View[n] = node[n]
  <1>1. /\ SoundTable(node) /\ batch.rows \in RowTables
        /\ SoundRows(batch.rows, DOMAIN node \cup DOMAIN batch.rows)
    BY TableIsSound DEF BatchSound, BatchRecord
  <1>2. /\ DOMAIN View = DOMAIN node \cup DOMAIN batch.rows
        /\ \A n \in DOMAIN batch.rows : View[n] = batch.rows[n]
        /\ \A n \in DOMAIN node \ DOMAIN batch.rows : View[n] = node[n]
    BY DEF View
  <1>3. /\ DOMAIN View \subseteq Ids /\ \A n \in DOMAIN View : View[n] \in Row
        /\ View = [n \in DOMAIN View |-> View[n]]
    <2>1. View = [n \in DOMAIN View |-> View[n]]
      BY DEF View
    <2>2. DOMAIN node \subseteq Ids /\ DOMAIN batch.rows \subseteq Ids
      BY <1>1, RowTableTypes DEF SoundTable
    <2>3. \A n \in DOMAIN node : node[n] \in Row
      BY <1>1, RowTableTypes DEF SoundTable
    <2>4. \A n \in DOMAIN batch.rows : batch.rows[n] \in Row
      BY <1>1, RowTableTypes
    <2> HIDE DEF View
    <2> QED
      BY <1>2, <2>1, <2>2, <2>3, <2>4
  <1> HIDE DEF View
  <1>4. View \in RowTables
    BY <1>3, RowTableTypes
  <1>5. SoundRows(View, DOMAIN View)
    BY <1>1, <1>2 DEF SoundTable, SoundRows
  <1> QED
    BY <1>2, <1>4, <1>5 DEF SoundTable

LEMMA PathInEnds ==
    ASSUME NEW view, SoundTable(view), NEW n \in Ids, NEW p \in DOMAIN view \cup {Root}
    PROVE  EndsIn(PathIn(view, p, n), n)
  <1>1. CASE p = Root
    BY <1>1 DEF PathIn, EndsIn
  <1>2. CASE p # Root
    <2>1. view[p].path \in Seq(Ids)
      BY <1>2 DEF SoundTable, SoundRows, EndsIn
    <2> QED
      BY <1>2, <2>1 DEF PathIn, EndsIn
  <1> QED
    BY <1>1, <1>2

(* Rewriting the paths below n leaves the table sound, parents and lives   *)
(* as they are, and the other paths that do not go through n.              *)
RewritesBelow(view, new, n) ==
    /\ SoundTable(new) /\ DOMAIN new = DOMAIN view
    /\ \A m \in DOMAIN view : new[m].parent = view[m].parent
    /\ \A m \in DOMAIN view : new[m].live = view[m].live
    /\ \A m \in DOMAIN view : new[m].path # view[m].path => On(n, view[m].path)

LEMMA RebuiltIs ==
    ASSUME NEW view, SoundTable(view), NEW n \in DOMAIN view
    PROVE  RewritesBelow(view, Rebuilt(view, n), n)
  <1> DEFINE old == view[n].path
             new == PathIn(view, view[n].parent, n)
             moved == [view EXCEPT ![n].path = new]
             built == [m \in DOMAIN view |->
                         IF moved[m].live /\ Below(old, moved[m].path)
                         THEN [moved[m] EXCEPT !.path = Regrafted(@, old, new)]
                         ELSE moved[m]]
  <1>1. /\ DOMAIN view \subseteq Ids /\ view \in [DOMAIN view -> Row]
        /\ \A m \in DOMAIN view : /\ view[m] \in Row /\ EndsIn(view[m].path, m)
                                  /\ view[m].parent \in DOMAIN view \cup {Root}
    BY RowTableTypes DEF SoundTable, SoundRows
  <1>2. EndsIn(old, n) /\ EndsIn(new, n) /\ n \in Ids
    BY <1>1, PathInEnds
  <1>3. /\ DOMAIN moved = DOMAIN view /\ moved[n] \in Row /\ moved[n].path = new
        /\ moved[n].parent = view[n].parent /\ moved[n].live = view[n].live
        /\ \A m \in DOMAIN view \ {n} : moved[m] = view[m]
    BY <1>1, <1>2 DEF Row, EndsIn
  <1>4. Rebuilt(view, n) = IF old = new THEN view ELSE built
    BY DEF Rebuilt
  <1>5. CASE old = new
    <2>1. RewritesBelow(view, view, n)
      BY DEF RewritesBelow
    <2> QED
      BY <1>4, <1>5, <2>1
  <1>6. CASE old # new
    <2>1. ASSUME NEW m \in DOMAIN view
          PROVE  /\ moved[m] \in Row /\ EndsIn(moved[m].path, m)
                 /\ moved[m].parent = view[m].parent /\ moved[m].live = view[m].live
                 /\ moved[m].path # view[m].path => On(n, view[m].path)
      <3>1. CASE m = n
        <4>1. On(n, old)
          BY <1>2, EndsOn
        <4> QED
          BY <1>2, <1>3, <3>1, <4>1
      <3>2. CASE m # n
        BY <1>1, <1>3, <3>2
      <3> QED
        BY <3>1, <3>2
    <2> HIDE DEF moved
    <2>2. ASSUME NEW m \in DOMAIN view
          PROVE  /\ built[m] \in Row /\ EndsIn(built[m].path, m)
                 /\ built[m].parent = view[m].parent /\ built[m].live = view[m].live
                 /\ built[m].path # view[m].path => On(n, view[m].path)
      <3> PICK row : row = moved[m]
        OBVIOUS
      <3>1. /\ row \in Row /\ EndsIn(row.path, m) /\ m \in Ids
            /\ row.parent = view[m].parent /\ row.live = view[m].live
            /\ row.path # view[m].path => On(n, view[m].path)
        BY <1>1, <2>1
      <3>2. built[m] = IF row.live /\ Below(old, row.path)
                       THEN [row EXCEPT !.path = Regrafted(@, old, new)] ELSE row
        OBVIOUS
      <3> HIDE DEF built, old, new
      <3>3. CASE row.live /\ Below(old, row.path)
        <4>1. EndsIn(Regrafted(row.path, old, new), m)
          BY <1>2, <3>1, <3>3, RegraftedEnds
        <4>2. On(n, row.path)
          BY <1>2, <3>1, <3>3, BelowGoesThrough DEF On
        <4>3. [row EXCEPT !.path = Regrafted(@, old, new)] \in Row
          BY <3>1, <4>1 DEF Row, EndsIn
        <4> QED
          BY <3>1, <3>2, <3>3, <4>1, <4>2, <4>3 DEF Row
      <3>4. CASE ~(row.live /\ Below(old, row.path))
        BY <3>1, <3>2, <3>4
      <3> QED
        BY <3>3, <3>4
    <2>3. DOMAIN built = DOMAIN view /\ built = [m \in DOMAIN view |-> built[m]]
      OBVIOUS
    <2> HIDE DEF built, old, new
    <2>4. built \in RowTables
      BY <1>1, <2>2, <2>3, RowTableTypes
    <2>5. SoundTable(built)
      BY <1>1, <2>2, <2>3, <2>4 DEF SoundTable, SoundRows
    <2>6. RewritesBelow(view, built, n)
      BY <2>2, <2>3, <2>5 DEF RewritesBelow
    <2> QED
      BY <1>4, <1>6, <2>6
  <1> QED
    BY <1>5, <1>6

----------------------------------------------------------------------------
(* The row in work is the next of the payload.                             *)
LEMMA NextEntry ==
    ASSUME NEW b \in BatchRecord, InOrder(b), b.todo # <<>>
    PROVE  LET k == Taken(b) + 1
           IN  /\ k \in 1..Len(b.asked) /\ Head(b.todo) = b.asked[k]
               /\ Head(b.todo) \in ImportRows
               /\ Tail(b.todo) \in Seq(ImportRows)
               /\ Len(b.asked) - Len(Tail(b.todo)) = k
               /\ Len(Tail(b.todo)) <= Len(b.asked)
               /\ \A i \in 1..Len(Tail(b.todo)) : Tail(b.todo)[i] = b.asked[k + i]
  <1>1. PICK s, t : s = b.todo /\ t = b.asked
    OBVIOUS
  <1>2. s \in Seq(ImportRows) /\ t \in Seq(ImportRows) /\ s # <<>> /\ Len(s) <= Len(t)
        /\ \A i \in 1..Len(s) : s[i] = t[Len(t) - Len(s) + i]
    BY <1>1 DEF BatchRecord, InOrder, Taken
  <1>3. Len(s) \in Nat \ {0} /\ Len(t) \in Nat /\ Head(s) = s[1] /\ s[1] \in ImportRows
        /\ Tail(s) \in Seq(ImportRows) /\ Len(Tail(s)) = Len(s) - 1
        /\ \A i \in 1..Len(Tail(s)) : Tail(s)[i] = s[i + 1]
    BY <1>2
  <1>4. Taken(b) = Len(t) - Len(s)
    BY <1>1 DEF Taken
  <1>5. \A i \in 1..Len(Tail(s)) : Tail(s)[i] = t[Len(t) - Len(s) + 1 + i]
    <2> SUFFICES ASSUME NEW i \in 1..Len(Tail(s))
                 PROVE  Tail(s)[i] = t[Len(t) - Len(s) + 1 + i]
      OBVIOUS
    <2>1. i + 1 \in 1..Len(s) /\ Len(t) - Len(s) + (i + 1) = Len(t) - Len(s) + 1 + i
      BY <1>3
    <2> QED
      BY <1>2, <1>3, <2>1
  <1>6. 1 \in 1..Len(s) /\ Len(t) - Len(s) + 1 \in 1..Len(t)
        /\ Len(t) - (Len(s) - 1) = Len(t) - Len(s) + 1 /\ Len(s) - 1 <= Len(t)
    BY <1>2, <1>3
  <1>7. PICK k : k = Len(t) - Len(s) + 1
    OBVIOUS
  <1>8. /\ Taken(b) + 1 = k /\ k \in 1..Len(t) /\ Head(s) = t[k]
        /\ Len(t) - Len(Tail(s)) = k /\ Len(Tail(s)) <= Len(t)
    BY <1>2, <1>3, <1>4, <1>6, <1>7
  <1>9. \A i \in 1..Len(Tail(s)) : Tail(s)[i] = t[k + i]
    BY <1>5, <1>7
  <1> QED
    BY <1>1, <1>3, <1>8, <1>9

(* What the steps of an import that deal with a row keep.                  *)
RowDealtWith(b, c) ==
    /\ c \in BatchRecord /\ c.asked = b.asked /\ c.todo = Tail(b.todo)
    /\ c.upsert = b.upsert /\ c.fresh = b.fresh
    /\ b.failed => c.failed

LEMMA DealtInOrder ==
    ASSUME NEW b \in BatchRecord, NEW c, InOrder(b), b.todo # <<>>, RowDealtWith(b, c)
    PROVE  InOrder(c) /\ Taken(c) = Taken(b) + 1
  <1>1. PICK t, k : t = Tail(b.todo) /\ k = Taken(b) + 1
    OBVIOUS
  <1>2. /\ Len(b.asked) - Len(t) = k /\ Len(t) <= Len(b.asked)
        /\ \A i \in 1..Len(t) : t[i] = b.asked[k + i]
    BY <1>1, NextEntry
  <1>3. /\ c.asked = b.asked /\ c.todo = t /\ Taken(c) = k
    BY <1>1, <1>2 DEF RowDealtWith, Taken
  <1>4. \A i, j \in 1..Len(b.asked) : b.asked[i][1] = b.asked[j][1] => i = j
    BY DEF InOrder
  <1>5. InOrder(c)
    BY <1>2, <1>3, <1>4 DEF InOrder
  <1> QED
    BY <1>1, <1>3, <1>5

(* The row just taken is dealt with, and what is known of the earlier ones *)
(* stays, whatever rows and copies the transaction now has in addition.    *)
LEMMA TakesRow ==
    ASSUME NEW b \in BatchRecord, NEW c, InOrder(b), CodesKnown(b), RowsTaken(b),
           b.todo # <<>>, RowDealtWith(b, c),
           DOMAIN b.byCode \subseteq DOMAIN c.byCode,
           DOMAIN c.byCode \subseteq DOMAIN b.byCode \cup {Head(b.todo)[1]},
           DOMAIN b.rows \subseteq DOMAIN c.rows,
           \A n \in DOMAIN b.rows :
               n # Head(b.todo)[1] => c.rows[n].parent = b.rows[n].parent,
           c.failed \/ InPlace(c, Taken(b) + 1) \/ RefusedBy(c, Taken(b) + 1)
    PROVE  CodesKnown(c) /\ RowsTaken(c)
  <1> DEFINE k == Taken(b) + 1
             n == Head(b.todo)[1]
  <1>1. /\ k \in 1..Len(b.asked) /\ n = b.asked[k][1] /\ Taken(c) = k
        /\ Taken(b) \in Int /\ 1..k = 1..Taken(b) \cup {k} /\ Taken(b) < k
        /\ \A i \in 1..Taken(b) : i \in 1..Len(b.asked) /\ b.asked[i][1] # n
    <2>1. /\ k \in 1..Len(b.asked) /\ n = b.asked[k][1] /\ Taken(c) = k
      BY NextEntry, DealtInOrder
    <2>2. Taken(b) \in Int /\ Len(b.asked) \in Nat
      BY DEF Taken, BatchRecord
    <2>3. Taken(b) < k
      BY <2>2
    <2>4. 0 <= Taken(b)
      BY <2>1, <2>2
    <2>5. 1..k = 1..Taken(b) \cup {k}
      BY <2>2, <2>4
    <2>6. \A i \in 1..Taken(b) : i \in 1..Len(b.asked) /\ i # k
      BY <2>1, <2>2
    <2> HIDE DEF k, n
    <2> QED
      BY <2>1, <2>2, <2>3, <2>5, <2>6 DEF InOrder
  <1> HIDE DEF k, n
  <1>2. CodesKnown(c)
    <2>1. \A i \in 1..Len(c.asked) : c.asked[i][1] \in c.fresh \cup DOMAIN c.byCode
      BY DEF CodesKnown, RowDealtWith
    <2>2. ASSUME NEW m \in c.fresh \cap DOMAIN c.byCode
          PROVE  \E i \in 1..Taken(c) : c.asked[i][1] = m
      <3>1. CASE m = n
        BY <1>1, <3>1 DEF RowDealtWith
      <3>2. CASE m # n
        <4>1. m \in b.fresh \cap DOMAIN b.byCode
          BY <2>2, <3>2 DEF RowDealtWith, n
        <4> QED
          BY <1>1, <4>1 DEF CodesKnown, RowDealtWith
      <3> QED
        BY <3>1, <3>2
    <2> QED
      BY <2>1, <2>2 DEF CodesKnown
  <1>3. ASSUME ~c.failed, NEW i \in 1..Taken(b)
        PROVE  InPlace(c, i) \/ RefusedBy(c, i)
    <2>1. InPlace(b, i) \/ RefusedBy(b, i)
      BY <1>3 DEF RowsTaken, RowDealtWith
    <2>2. CASE InPlace(b, i)
      <3>1. b.asked[i][1] # n
        BY <1>1
      <3> QED
        BY <2>2, <3>1 DEF InPlace, RowDealtWith, n
    <2>3. CASE RefusedBy(b, i)
      <3> DEFINE p == b.asked[i][2]
      <3>1. CASE p # Root /\ p \notin DOMAIN b.byCode /\ p \in DOMAIN c.byCode
        <4>1. p = n
          BY <3>1 DEF n
        <4>2. p \in b.fresh
          BY <1>1, <3>1, <4>1 DEF CodesKnown
        <4>3. k >= i
          BY <1>1
        <4> QED
          BY <1>1, <4>1, <4>2, <4>3 DEF RefusedBy, RowDealtWith
      <3>2. CASE ~(p # Root /\ p \notin DOMAIN b.byCode /\ p \in DOMAIN c.byCode)
        BY <2>3, <3>2 DEF RefusedBy, RowDealtWith
      <3> QED
        BY <3>1, <3>2
    <2> QED
      BY <2>1, <2>2, <2>3
  <1>4. RowsTaken(c)
    BY <1>1, <1>3 DEF RowsTaken, k
  <1> QED
    BY <1>2, <1>4

(* What a row writes: node n, in its place, and perhaps paths through n.   *)
Writes(n, p, old, new) ==
    /\ SoundTable(new) /\ DOMAIN new = DOMAIN old \cup {n} /\ new[n].parent = p
    /\ \A m \in DOMAIN old \ {n} : new[m].parent = old[m].parent
    /\ \A m \in DOMAIN old : new[m].path # old[m].path => On(n, old[m].path)

LEMMA WrittenIs ==
    ASSUME OrgInvariant, BatchSound(batch, node), batch.todo # <<>>, NEW n,
           NEW view, NEW p, NEW marks \in SUBSET {"loop", "torn"},
           Writes(n, p, View, view), Written(n, view, marks),
           NEW c, c = batch'
    PROVE  /\ RowDealtWith(batch, c) /\ c.failed = batch.failed
           /\ DOMAIN c.byCode = DOMAIN batch.byCode \cup {n}
           /\ \A m \in DOMAIN batch.byCode : c.byCode[m] = batch.byCode[m]
           /\ n \notin DOMAIN batch.byCode => c.byCode[n] = view[n]
           /\ DOMAIN batch.rows \subseteq DOMAIN c.rows /\ n \in DOMAIN c.rows
           /\ DOMAIN c.rows \subseteq DOMAIN view
           /\ \A m \in DOMAIN c.rows : c.rows[m] = view[m]
           /\ \A m \in DOMAIN View \ DOMAIN c.rows : view[m] = View[m]
  <1> DEFINE byCode == [m \in DOMAIN batch.byCode \cup {n} |->
                          IF m \in DOMAIN batch.byCode THEN batch.byCode[m] ELSE view[m]]
             rows == [m \in DOMAIN batch.rows \cup {n} \cup
                              {k \in DOMAIN View : view[k] # View[k]} |-> view[m]]
  <1>1. c = [batch EXCEPT !.todo = Tail(@), !.marks = @ \cup marks,
                          !.byCode = byCode, !.rows = rows]
    BY DEF Written
  <1>2. /\ batch \in BatchRecord /\ DOMAIN View = DOMAIN node \cup DOMAIN batch.rows
        /\ InOrder(batch)
    BY ViewIs DEF BatchSound
  <1>3. /\ SoundTable(view) /\ DOMAIN view = DOMAIN View \cup {n}
        /\ DOMAIN view \subseteq Ids /\ \A m \in DOMAIN view : view[m] \in Row
    BY RowTableTypes DEF Writes, SoundTable
  <1>4. byCode \in RowTables
    <2>1. DOMAIN batch.byCode \subseteq Ids /\ \A m \in DOMAIN batch.byCode : batch.byCode[m] \in Row
      BY <1>2, RowTableTypes DEF BatchRecord
    <2>2. DOMAIN byCode \subseteq Ids /\ byCode \in [DOMAIN byCode -> Row]
      BY <1>3, <2>1
    <2> QED
      BY <2>2, RowTableTypes
  <1>5. /\ DOMAIN rows \subseteq DOMAIN view /\ \A m \in DOMAIN rows : rows[m] = view[m]
        /\ DOMAIN batch.rows \subseteq DOMAIN rows /\ n \in DOMAIN rows
        /\ \A m \in DOMAIN View \ DOMAIN rows : view[m] = View[m]
    BY <1>2, <1>3
  <1>6. rows \in RowTables
    <2>1. DOMAIN rows \subseteq Ids /\ rows \in [DOMAIN rows -> Row]
      BY <1>3, <1>5
    <2> QED
      BY <2>1, RowTableTypes
  <1>7. /\ DOMAIN byCode = DOMAIN batch.byCode \cup {n}
        /\ \A m \in DOMAIN batch.byCode : byCode[m] = batch.byCode[m]
        /\ n \notin DOMAIN batch.byCode => byCode[n] = view[n]
    OBVIOUS
  <1>8. Tail(batch.todo) \in Seq(ImportRows)
    BY <1>2, NextEntry
  <1> HIDE DEF byCode, rows
  <1>9. /\ c \in BatchRecord /\ c.asked = batch.asked /\ c.todo = Tail(batch.todo)
        /\ c.upsert = batch.upsert /\ c.fresh = batch.fresh /\ c.failed = batch.failed
        /\ c.byCode = byCode /\ c.rows = rows
    BY <1>1, <1>2, <1>4, <1>6, <1>8 DEF BatchRecord
  <1> QED
    BY <1>5, <1>7, <1>9 DEF RowDealtWith

LEMMA WrittenSound ==
    ASSUME OrgInvariant, BatchSound(batch, node), batch.todo # <<>>,
           NEW view, NEW marks \in SUBSET {"loop", "torn"},
           Writes(Entry[1], Entry[2], View, view), Written(Entry[1], view, marks)
    PROVE  BatchSound(batch', node)
  <1> PICK n, p : n = Entry[1] /\ p = Entry[2]
    OBVIOUS
  <1> PICK c : c = batch'
    OBVIOUS
  <1> PICK k : k = Taken(batch) + 1
    OBVIOUS
  <1>0. n = Head(batch.todo)[1] /\ p = Head(batch.todo)[2]
    BY DEF Entry
  <1>1. Writes(n, p, View, view) /\ Written(n, view, marks)
    OBVIOUS
  <1>2. /\ RowDealtWith(batch, c) /\ c.failed = batch.failed
        /\ DOMAIN c.byCode = DOMAIN batch.byCode \cup {n}
        /\ \A m \in DOMAIN batch.byCode : c.byCode[m] = batch.byCode[m]
        /\ n \notin DOMAIN batch.byCode => c.byCode[n] = view[n]
        /\ DOMAIN batch.rows \subseteq DOMAIN c.rows /\ n \in DOMAIN c.rows
        /\ DOMAIN c.rows \subseteq DOMAIN view
        /\ \A m \in DOMAIN c.rows : c.rows[m] = view[m]
        /\ \A m \in DOMAIN View \ DOMAIN c.rows : view[m] = View[m]
    <2> HIDE DEF View
    <2> QED
      BY <1>1, WrittenIs
  <1>3. /\ batch \in BatchRecord /\ InOrder(batch) /\ CodesKnown(batch)
        /\ RowsTaken(batch) /\ ChangesAsked(batch, node)
        /\ SoundRows(batch.byCode, DOMAIN node \cup DOMAIN batch.rows)
        /\ DOMAIN batch.byCode \subseteq DOMAIN node \cup DOMAIN batch.rows
        /\ DOMAIN batch.rows \subseteq DOMAIN node \cup batch.fresh
    BY DEF BatchSound
  <1>4. /\ SoundTable(View) /\ DOMAIN View = DOMAIN node \cup DOMAIN batch.rows
        /\ \A m \in DOMAIN batch.rows : View[m] = batch.rows[m]
        /\ \A m \in DOMAIN node \ DOMAIN batch.rows : View[m] = node[m]
    BY ViewIs
  <1>5. /\ k \in 1..Len(batch.asked) /\ n = batch.asked[k][1] /\ p = batch.asked[k][2]
    BY <1>0, <1>3, NextEntry
  <1> HIDE DEF View
  <1>6. /\ SoundRows(view, DOMAIN view) /\ DOMAIN view = DOMAIN View \cup {n}
        /\ view[n].parent = p
        /\ \A m \in DOMAIN View \ {n} : view[m].parent = View[m].parent
        /\ \A m \in DOMAIN View : view[m].path # View[m].path => On(n, View[m].path)
    BY <1>1 DEF Writes, SoundTable
  <1>7. DOMAIN view = DOMAIN node \cup DOMAIN c.rows
    BY <1>2, <1>4, <1>6
  <1>8. /\ SoundRows(c.rows, DOMAIN node \cup DOMAIN c.rows)
        /\ SoundRows(c.byCode, DOMAIN node \cup DOMAIN c.rows)
    BY <1>2, <1>3, <1>4, <1>6, <1>7 DEF SoundRows
  <1>9. DOMAIN c.byCode \subseteq DOMAIN node \cup DOMAIN c.rows
    BY <1>2, <1>3
  <1>10. DOMAIN c.rows \subseteq DOMAIN node \cup c.fresh
    <2>1. n \in batch.fresh \cup DOMAIN batch.byCode
      BY <1>3, <1>5 DEF CodesKnown
    <2>2. n \in DOMAIN node \cup batch.fresh
      BY <1>3, <2>1
    <2> QED
      BY <1>2, <1>3, <1>4, <1>6, <2>2 DEF RowDealtWith
  <1>11. ChangesAsked(c, node)
    <2> SUFFICES ASSUME NEW m \in DOMAIN node \cap DOMAIN c.rows,
                        c.rows[m].path # node[m].path
                 PROVE  \E l \in DOMAIN c.byCode \cap DOMAIN c.rows : On(l, node[m].path)
      BY DEF ChangesAsked
    <2>1. CASE View[m].path = node[m].path
      BY <1>2, <1>4, <1>6, <2>1
    <2>2. CASE View[m].path # node[m].path
      <3>1. m \in DOMAIN batch.rows /\ batch.rows[m].path # node[m].path
        BY <1>4, <2>2
      <3>2. PICK l \in DOMAIN batch.byCode \cap DOMAIN batch.rows : On(l, node[m].path)
        BY <1>3, <3>1 DEF ChangesAsked
      <3> QED
        BY <1>2, <3>2
    <2> QED
      BY <2>1, <2>2
  <1>12. CodesKnown(c) /\ RowsTaken(c)
    <2>1. \A m \in DOMAIN batch.rows : m # n => c.rows[m].parent = batch.rows[m].parent
      BY <1>2, <1>4, <1>6
    <2>2. InPlace(c, k)
      BY <1>2, <1>5, <1>6 DEF InPlace, RowDealtWith
    <2> QED
      BY <1>0, <1>2, <1>3, <2>1, <2>2, TakesRow
  <1>13. InOrder(c) /\ c \in BatchRecord
    BY <1>2, <1>3, DealtInOrder DEF RowDealtWith
  <1> QED
    BY <1>8, <1>9, <1>10, <1>11, <1>12, <1>13 DEF BatchSound

----------------------------------------------------------------------------
LEMMA RewritesWrites ==
    ASSUME NEW old, NEW mid, NEW new, NEW n \in DOMAIN old, NEW p,
           Writes(n, p, old, mid), RewritesBelow(mid, new, n)
    PROVE  Writes(n, p, old, new)
  <1>1. ASSUME NEW m \in DOMAIN old, new[m].path # old[m].path
        PROVE  On(n, old[m].path)
    <2>1. CASE mid[m].path = old[m].path
      BY <1>1, <2>1 DEF Writes, RewritesBelow
    <2>2. CASE mid[m].path # old[m].path
      BY <2>2 DEF Writes
    <2> QED
      BY <2>1, <2>2
  <1> QED
    BY <1>1 DEF Writes, RewritesBelow

(* A row put in the place of n: its path may be another one of n's.        *)
LEMMA PutWrites ==
    ASSUME NEW old, SoundTable(old), NEW n \in Ids, NEW p \in DOMAIN old \cup {Root},
           NEW row \in Row, EndsIn(row.path, n), row.parent = p,
           NEW new, new = [m \in DOMAIN old \cup {n} |-> IF m = n THEN row ELSE old[m]]
    PROVE  Writes(n, p, old, new)
  <1>1. /\ DOMAIN old \subseteq Ids
        /\ \A m \in DOMAIN old : /\ old[m] \in Row /\ EndsIn(old[m].path, m)
                                 /\ old[m].parent \in DOMAIN old \cup {Root}
    BY RowTableTypes DEF SoundTable, SoundRows
  <1>2. /\ DOMAIN new = DOMAIN old \cup {n} /\ new[n] = row
        /\ \A m \in DOMAIN old \ {n} : new[m] = old[m]
    OBVIOUS
  <1>3. new \in RowTables
    <2>1. DOMAIN new \subseteq Ids /\ new \in [DOMAIN new -> Row]
      BY <1>1, <1>2
    <2> QED
      BY <2>1, RowTableTypes
  <1>4. SoundTable(new)
    BY <1>1, <1>2, <1>3 DEF SoundTable, SoundRows
  <1>5. n \in DOMAIN old => On(n, old[n].path)
    BY <1>1, EndsOn
  <1> QED
    BY <1>2, <1>4, <1>5 DEF Writes

(* A save of all columns that differ leaves the row as the copy is.        *)
LEMMA OverlayWhole ==
    ASSUME NEW row \in Row, NEW copy \in Row
    PROVE  Overlay(row, copy, Differing(copy, row)) = copy
  <1>1. /\ DOMAIN row = {"parent", "path", "live"}
        /\ copy = [c \in {"parent", "path", "live"} |-> copy[c]]
    BY DEF Row
  <1>2. \A c \in DOMAIN row : (IF c \in Differing(copy, row) THEN copy[c] ELSE row[c]) = copy[c]
    BY DEF Differing
  <1> QED
    BY <1>1, <1>2 DEF Overlay

LEMMA ImportUpdateStep ==
    ASSUME OrgInvariant, BatchSound(batch, node), ImportUpdate
    PROVE  BatchSound(batch', node)
  <1> DEFINE n == Entry[1]
             p == Entry[2]
             copy == [batch.byCode[n] EXCEPT !.parent = p]
             row == Overlay(View[n], copy, Differing(copy, View[n]))
             saved == [View EXCEPT ![n] = Overlay(@, copy, Differing(copy, @))]
             moves == batch.byCode[n].parent # p
             view == IF moves THEN Rebuilt(saved, n) ELSE saved
             marks == {k \in {"loop", "torn"} :
                         \/ k = "loop" /\ moves /\ LoopsUnder(View, n, p)
                         \/ k = "torn" /\ copy.path # View[n].path}
  <1>1. /\ batch.todo # <<>> /\ Written(n, view, marks)
        /\ n \in DOMAIN batch.byCode /\ p \in DOMAIN batch.byCode \cup {Root}
    <2>1. Written(n, view, marks)
      BY Zenon DEF ImportUpdate
    <2>2. Runs /\ Known
      BY Zenon DEF ImportUpdate
    <2> HIDE DEF view, marks
    <2> QED
      BY <2>1, <2>2 DEF Runs, Known, ParentFound
  <1>2. /\ SoundTable(View) /\ DOMAIN View = DOMAIN node \cup DOMAIN batch.rows
    BY ViewIs
  <1>3. /\ batch.byCode \in RowTables
        /\ DOMAIN batch.byCode \subseteq DOMAIN View
        /\ SoundRows(batch.byCode, DOMAIN View)
    BY <1>2 DEF BatchSound, BatchRecord
  <1> HIDE DEF View
  <1>4. /\ n \in DOMAIN View /\ n \in Ids /\ p \in DOMAIN View \cup {Root}
        /\ p \in Ids \cup {Root}
        /\ View[n] \in Row /\ EndsIn(View[n].path, n)
        /\ batch.byCode[n] \in Row /\ EndsIn(batch.byCode[n].path, n)
    <2>1. n \in DOMAIN View /\ p \in DOMAIN View \cup {Root} /\ DOMAIN View \subseteq Ids
      BY <1>1, <1>2, <1>3, RowTableTypes DEF SoundTable
    <2>2. View[n] \in Row /\ EndsIn(View[n].path, n)
      BY <1>2, <2>1, RowTableTypes DEF SoundTable, SoundRows
    <2>3. batch.byCode[n] \in Row /\ EndsIn(batch.byCode[n].path, n)
      BY <1>1, <1>3, RowTableTypes DEF SoundRows
    <2> QED
      BY <2>1, <2>2, <2>3
  <1>5. copy \in Row /\ copy.parent = p /\ EndsIn(copy.path, n)
    BY <1>4 DEF Row
  <1> HIDE DEF copy
  <1>6. row \in Row /\ row.parent = p /\ EndsIn(row.path, n)
    BY <1>4, <1>5, OverlayWhole
  <1>7. saved = [m \in DOMAIN View \cup {n} |-> IF m = n THEN row ELSE View[m]]
    BY <1>4
  <1> HIDE DEF row, saved
  <1>8. Writes(n, p, View, saved)
    BY <1>2, <1>4, <1>6, <1>7, PutWrites
  <1>9. Writes(n, p, View, view)
    <2>1. SoundTable(saved) /\ n \in DOMAIN saved
      BY <1>8 DEF Writes
    <2>2. Writes(n, p, View, Rebuilt(saved, n))
      BY <1>4, <1>8, <2>1, RebuiltIs, RewritesWrites
    <2> QED
      BY <1>8, <2>2
  <1>10. marks \in SUBSET {"loop", "torn"}
    OBVIOUS
  <1> HIDE DEF view, marks
  <1> QED
    BY <1>1, <1>9, <1>10, WrittenSound

LEMMA ImportCreateStep ==
    ASSUME OrgInvariant, BatchSound(batch, node), ImportCreate
    PROVE  BatchSound(batch', node)
  <1> DEFINE n == Entry[1]
             p == Entry[2]
             row == [parent |-> p, path |-> PathIn(View, p, n), live |-> TRUE]
             view == [m \in DOMAIN View \cup {n} |-> IF m = n THEN row ELSE View[m]]
  <1>1. /\ batch.todo # <<>> /\ Written(n, view, {})
        /\ p \in DOMAIN batch.byCode \cup {Root}
    BY DEF ImportCreate, Runs, ParentFound
  <1>2. /\ SoundTable(View) /\ DOMAIN View = DOMAIN node \cup DOMAIN batch.rows
    BY ViewIs
  <1>3. Entry \in ImportRows
    BY <1>1, NextEntry DEF Entry, BatchSound
  <1>4. n \in Ids /\ p \in DOMAIN View \cup {Root} /\ p \in Ids \cup {Root}
    BY <1>1, <1>2, <1>3 DEF BatchSound, ImportRows
  <1> HIDE DEF View
  <1>5. EndsIn(PathIn(View, p, n), n)
    BY <1>2, <1>4, PathInEnds
  <1>6. row \in Row /\ EndsIn(row.path, n) /\ row.parent = p
    BY <1>4, <1>5 DEF Row, EndsIn
  <1> HIDE DEF row
  <1>7. Writes(n, p, View, view)
    BY <1>2, <1>4, <1>6, PutWrites
  <1> HIDE DEF view
  <1> QED
    BY <1>1, <1>7, WrittenSound

(* A row that is only noted.                                               *)
LEMMA NotedStep ==
    ASSUME OrgInvariant, BatchSound(batch, node), batch.todo # <<>>,
           NEW failed \in BOOLEAN, batch.failed => failed,
           batch' = [batch EXCEPT !.todo = Tail(@), !.failed = failed],
           failed \/ ~ParentFound \/ (Known /\ ~batch.upsert)
    PROVE  BatchSound(batch', node)
  <1> PICK c : c = batch'
    OBVIOUS
  <1> PICK k : k = Taken(batch) + 1
    OBVIOUS
  <1>1. /\ batch \in BatchRecord /\ InOrder(batch) /\ CodesKnown(batch)
        /\ RowsTaken(batch)
    BY DEF BatchSound
  <1>2. /\ k \in 1..Len(batch.asked) /\ Head(batch.todo) = batch.asked[k]
        /\ Tail(batch.todo) \in Seq(ImportRows) /\ Taken(batch) < k
    <2>1. Taken(batch) \in Int
      BY <1>1 DEF Taken, BatchRecord
    <2> QED
      <3>1. /\ k \in 1..Len(batch.asked) /\ Head(batch.todo) = batch.asked[k]
            /\ Tail(batch.todo) \in Seq(ImportRows)
        BY <1>1, NextEntry
      <3> QED
        BY <2>1, <3>1
  <1>3. /\ c \in BatchRecord /\ c.asked = batch.asked /\ c.todo = Tail(batch.todo)
        /\ c.upsert = batch.upsert /\ c.fresh = batch.fresh /\ c.failed = failed
        /\ c.byCode = batch.byCode /\ c.rows = batch.rows
    BY <1>1, <1>2 DEF BatchRecord
  <1>4. RowDealtWith(batch, c)
    BY <1>3 DEF RowDealtWith
  <1>5. c.failed \/ RefusedBy(c, k)
    <2>1. CASE ~ParentFound
      BY <1>2, <1>3, <2>1 DEF ParentFound, Entry, RefusedBy
    <2>2. CASE Known /\ ~batch.upsert
      <3>1. batch.asked[k][1] \in DOMAIN batch.byCode
        BY <1>2, <2>2 DEF Known, Entry
      <3>2. batch.asked[k][1] \notin batch.fresh
        <4> SUFFICES ASSUME batch.asked[k][1] \in batch.fresh PROVE FALSE
          OBVIOUS
        <4>1. PICK i \in 1..Taken(batch) : batch.asked[i][1] = batch.asked[k][1]
          BY <1>1, <3>1 DEF CodesKnown
        <4>2. i \in 1..Len(batch.asked) /\ i # k
          <5>1. Taken(batch) \in Int /\ Len(batch.asked) \in Nat
            BY <1>1 DEF Taken, BatchRecord
          <5> QED
            BY <1>2, <5>1
        <4> QED
          BY <1>1, <1>2, <4>1, <4>2 DEF InOrder
      <3> QED
        BY <1>3, <2>2, <3>2 DEF RefusedBy
    <2> QED
      BY <1>3, <2>1, <2>2
  <1>6. CodesKnown(c) /\ RowsTaken(c)
    BY <1>1, <1>3, <1>4, <1>5, TakesRow
  <1>7. InOrder(c)
    BY <1>1, <1>4, DealtInOrder
  <1> QED
    BY <1>3, <1>6, <1>7 DEF BatchSound, ChangesAsked

LEMMA OpenImportStep ==
    ASSUME ImportInvariant, NEW payload \in Payloads, NEW upsert \in BOOLEAN,
           OpenImport(payload, upsert)
    PROVE  ImportInvariant'
  <1> DEFINE fresh == {payload[i][1] : i \in DOMAIN payload} \ DOMAIN node
             byCode == [n \in Named(payload) \cap DOMAIN node |-> node[n]]
             none == [n \in {} |-> 0]
  <1>1. /\ UNCHANGED <<node, req, disturbed>> /\ fresh \subseteq Unused
        /\ begun' = begun + Cost(payload) /\ Cost(payload) <= MaxRequests - begun
        /\ batch' = [asked |-> payload, todo |-> payload, upsert |-> upsert,
                     fresh |-> fresh, byCode |-> byCode, rows |-> none,
                     failed |-> FALSE, alone |-> Quiet,
                     begun |-> begun + Cost(payload), marks |-> {}]
    BY DEF OpenImport
  <1>2. /\ payload \in Seq(ImportRows) /\ Len(payload) \in Nat
        /\ DOMAIN payload = 1..Len(payload)
        /\ \A i, j \in 1..Len(payload) : payload[i][1] = payload[j][1] => i = j
        /\ \A i \in 1..Len(payload) : payload[i][1] \in Ids
    <2>1. PICK n \in 1..MaxRows : payload \in [1..n -> ImportRows]
      BY DEF Payloads
    <2>2. /\ \A i, j \in DOMAIN payload : payload[i][1] = payload[j][1] => i = j
      BY DEF Payloads
    <2>3. n \in Nat /\ payload \in Seq(ImportRows)
      BY <2>1, ImportAssumption
    <2>4. Len(payload) = n /\ DOMAIN payload = 1..n
      BY <2>1, <2>3
    <2>5. \A i \in 1..n : payload[i][1] \in Ids
      BY <2>1 DEF ImportRows
    <2> QED
      BY <2>2, <2>3, <2>4, <2>5
  <1>3. begun + Cost(payload) \in 0..MaxRequests
    BY <1>1, <1>2, OrgAssumption DEF Cost, ImportInvariant, OrgInvariant
  <1>4. OrgInvariant'
    BY <1>1, <1>3 DEF ImportInvariant, OrgInvariant, TableShape
  <1>5. /\ DOMAIN node \subseteq Ids /\ \A n \in DOMAIN node : node[n] \in Row
        /\ SoundRows(node, DOMAIN node)
    BY TableIsSound, RowTableTypes DEF ImportInvariant, SoundTable
  <1>6. /\ byCode \in RowTables /\ none \in RowTables /\ fresh \subseteq Ids
        /\ SoundRows(byCode, DOMAIN node) /\ SoundRows(none, DOMAIN node)
        /\ DOMAIN byCode \subseteq DOMAIN node /\ DOMAIN none = {}
    <2>1. DOMAIN byCode \subseteq Ids /\ byCode \in [DOMAIN byCode -> Row]
      BY <1>5
    <2>2. DOMAIN none \subseteq Ids /\ none \in [DOMAIN none -> Row]
      OBVIOUS
    <2>3. fresh \subseteq Ids
      BY <1>2
    <2>4. SoundRows(byCode, DOMAIN node) /\ SoundRows(none, DOMAIN node)
      BY <1>5 DEF SoundRows
    <2> QED
      BY <2>1, <2>2, <2>3, <2>4, RowTableTypes
  <1>7. \A i \in 1..Len(payload) : payload[i][1] \in fresh \cup DOMAIN byCode
    BY <1>2 DEF Named
  <1>8. fresh \cap DOMAIN byCode = {}
    OBVIOUS
  <1> HIDE DEF fresh, byCode, none
  <1> PICK b : b = batch'
    OBVIOUS
  <1>9. /\ b.asked = payload /\ b.todo = payload /\ b.upsert = upsert
        /\ b.fresh = fresh /\ b.byCode = byCode /\ b.rows = none
        /\ b.failed = FALSE /\ b.begun = begun + Cost(payload) /\ b.marks = {}
    BY <1>1
  <1>10. b \in BatchRecord
    <2>1. PICK alone : alone = Quiet /\ alone \in BOOLEAN
      BY Zenon DEF Quiet
    <2>2. b = [asked |-> payload, todo |-> payload, upsert |-> upsert,
               fresh |-> fresh, byCode |-> byCode, rows |-> none,
               failed |-> FALSE, alone |-> alone,
               begun |-> begun + Cost(payload), marks |-> {}]
      BY <1>1, <2>1
    <2>3. begun + Cost(payload) \in Nat
      BY <1>3, OrgAssumption
    <2> QED
      BY <1>2, <1>6, <2>1, <2>2, <2>3 DEF BatchRecord
  <1>11. InOrder(b) /\ CodesKnown(b) /\ RowsTaken(b)
    <2>1. Taken(b) = 0
      BY <1>2, <1>9 DEF Taken
    <2>2. InOrder(b)
      BY <1>2, <1>9, <2>1 DEF InOrder
    <2>3. CodesKnown(b)
      BY <1>7, <1>8, <1>9 DEF CodesKnown
    <2>4. RowsTaken(b)
      BY <2>1 DEF RowsTaken
    <2> QED
      BY <2>2, <2>3, <2>4
  <1>12. BatchSound(b, node)
    <2>1. DOMAIN node \cup DOMAIN b.rows = DOMAIN node
      BY <1>6, <1>9
    <2>2. ChangesAsked(b, node)
      BY <1>6, <1>9 DEF ChangesAsked
    <2>3. /\ SoundRows(b.rows, DOMAIN node) /\ SoundRows(b.byCode, DOMAIN node)
          /\ DOMAIN b.byCode \subseteq DOMAIN node
          /\ DOMAIN b.rows \subseteq DOMAIN node \cup b.fresh
      BY <1>6, <1>9
    <2> QED
      BY <1>10, <1>11, <2>1, <2>2, <2>3 DEF BatchSound
  <1>13. \A w \in Workers : req[w].op = "create" => req[w].id \notin fresh
    BY <1>1 DEF Unused, Idle
  <1>14. CreatesApart'
    BY <1>1, <1>9, <1>13 DEF CreatesApart
  <1>15. BatchSound(batch, node)'
    BY <1>1, <1>12
  <1> QED
    BY <1>4, <1>14, <1>15 DEF ImportInvariant

LEMMA CommitImportStep ==
    ASSUME ImportInvariant, CommitImport
    PROVE  ImportInvariant'
  <1>1. /\ Importing /\ batch' = NoBatch /\ UNCHANGED <<req, begun>>
        /\ node' = IF batch.failed THEN node ELSE View
        /\ disturbed' =
             disturbed \cup batch.marks
             \cup (IF batch.alone /\ begun = batch.begun THEN {} ELSE {"overlap"})
    BY DEF CommitImport
  <1>2. OrgInvariant /\ BatchSound(batch, node) /\ batch.marks \in SUBSET {"loop", "torn"}
    BY <1>1 DEF ImportInvariant, BatchSound, BatchRecord
  <1>3. SoundTable(node) /\ SoundTable(View) /\ DOMAIN node \subseteq DOMAIN View
    BY <1>2, TableIsSound, ViewIs
  <1> HIDE DEF View
  <1>4. SoundTable(node') /\ DOMAIN node \subseteq DOMAIN node'
    BY <1>1, <1>3
  <1>5. TableShape'
    BY <1>4, SoundIsTable
  <1>6. disturbed' \subseteq {"overlap", "loop", "torn"}
    BY <1>1, <1>2 DEF OrgInvariant
  <1>7. \A w \in Workers : req[w] = NoRequest \/ Sound(req[w], DOMAIN node')
    BY <1>2, <1>4, SoundKept DEF OrgInvariant
  <1>8. OrgInvariant'
    BY <1>1, <1>2, <1>5, <1>6, <1>7 DEF OrgInvariant
  <1> QED
    BY <1>1, <1>8 DEF ImportInvariant, Importing

(* The rows a request's step adds to the table are of its own node.        *)
LEMMA TableGrows ==
    ASSUME OrgInvariant, [OrgNext]_vars
    PROVE  /\ DOMAIN node \subseteq DOMAIN node'
           /\ \A n \in DOMAIN node' \ DOMAIN node :
                \E w \in Workers : req[w].op = "create" /\ req[w].id = n
  <1>1. ASSUME NEW w \in Workers, CommitCreate(w)
        PROVE  /\ DOMAIN node' = DOMAIN node \cup {req[w].id}
               /\ req[w].op = "create"
    BY <1>1, Progressing DEF CommitCreate, At, Sound
  <1>2. ASSUME NEW w \in Workers, SaveWrite(w) \/ SavePath(w) \/ UpdateSubtree(w)
        PROVE  DOMAIN node' = DOMAIN node
    BY <1>2 DEF SaveWrite, SavePath, Saved, UpdateSubtree
  <1>3. ASSUME NEW w \in Workers, Receive(w) \/ Abandon(w)
        PROVE  node' = node
    BY <1>3 DEF Receive, Abandon, OpenCreate, OpenMove, OpenRename, OpenRemove, Open
  <1>4. ASSUME NEW w \in Workers, SaveLoad(w) \/ ReadNode(w) \/ ReadParent(w)
        PROVE  node' = node
    BY <1>4 DEF SaveLoad, ReadNode, ReadParent
  <1>5. CASE UNCHANGED vars
    BY <1>5 DEF vars
  <1> QED
    BY <1>1, <1>2, <1>3, <1>4, <1>5 DEF OrgNext, Proceed

LEMMA BesidesStep ==
    ASSUME ImportInvariant, Besides
    PROVE  ImportInvariant'
  <1>1. OrgNext /\ batch' = batch
    BY DEF Besides
  <1>2. OrgInvariant /\ OrgInvariant'
    BY <1>1, OrgNextInvariant DEF ImportInvariant
  <1>3. CASE ~Importing
    BY <1>1, <1>2, <1>3 DEF ImportInvariant, Importing
  <1>4. CASE Importing
    <2>1. /\ \A n \in DOMAIN batch.rows \cap DOMAIN node : node'[n] = node[n]
          /\ \A w \in Workers : req'[w].op = "create" => req'[w].id \notin batch.fresh
      BY <1>4 DEF Besides
    <2>2. BatchSound(batch, node) /\ CreatesApart
      BY <1>4 DEF ImportInvariant
    <2>3. /\ DOMAIN node \subseteq DOMAIN node'
          /\ DOMAIN batch.rows \cap DOMAIN node' \subseteq DOMAIN node
      BY <1>1, <1>2, <2>2, TableGrows DEF CreatesApart, BatchSound
    <2>4. ChangesAsked(batch, node')
      BY <2>1, <2>2, <2>3 DEF ChangesAsked, BatchSound
    <2>5. /\ SoundRows(batch.rows, DOMAIN node' \cup DOMAIN batch.rows)
          /\ SoundRows(batch.byCode, DOMAIN node' \cup DOMAIN batch.rows)
      BY <2>2, <2>3 DEF BatchSound, SoundRows
    <2>6. BatchSound(batch, node')
      BY <2>2, <2>3, <2>4, <2>5 DEF BatchSound
    <2>7. CreatesApart'
      BY <1>1, <2>1 DEF CreatesApart
    <2>8. BatchSound(batch, node)'
      BY <1>1, <2>6
    <2> QED
      BY <1>2, <2>7, <2>8 DEF ImportInvariant
  <1> QED
    BY <1>3, <1>4

----------------------------------------------------------------------------
(* A step that only deals with a row of the import.                        *)
LEMMA RowStep ==
    ASSUME ImportInvariant, Importing, UNCHANGED vars,
           BatchSound(batch', node), batch'.fresh = batch.fresh
    PROVE  ImportInvariant'
  <1>1. OrgInvariant'
    BY DEF ImportInvariant, OrgInvariant, TableShape, vars
  <1>2. BatchSound(batch, node)'
    BY DEF vars
  <1>3. CreatesApart'
    BY DEF ImportInvariant, CreatesApart, vars
  <1> QED
    BY <1>1, <1>2, <1>3 DEF ImportInvariant

LEMMA WrittenKeeps ==
    ASSUME batch \in BatchRecord, NEW n, NEW view, NEW marks, Written(n, view, marks)
    PROVE  UNCHANGED vars /\ batch'.fresh = batch.fresh
  <1>1. UNCHANGED vars
    BY Zenon DEF Written
  <1>2. batch'.fresh = batch.fresh
    BY DEF Written, BatchRecord
  <1> QED
    BY <1>1, <1>2

LEMMA ImportRowStep ==
    ASSUME ImportInvariant, ImportUpdate \/ ImportCreate \/ ImportSkip \/ ImportFail
    PROVE  ImportInvariant' /\ UNCHANGED vars
  <1>1. Importing /\ batch.todo # <<>>
    <2>1. CASE ImportUpdate
      <3>1. Runs
        BY <2>1, Zenon DEF ImportUpdate
      <3> QED
        BY <3>1 DEF Runs
    <2>2. CASE ImportCreate \/ ImportSkip \/ ImportFail
      BY <2>2 DEF ImportCreate, ImportSkip, ImportFail, Runs
    <2> QED
      BY <2>1, <2>2
  <1>2. /\ OrgInvariant /\ BatchSound(batch, node) /\ batch \in BatchRecord
        /\ batch.failed \in BOOLEAN
    BY <1>1 DEF ImportInvariant, BatchSound, BatchRecord
  <1>3. CASE ImportUpdate
    <2>1. PICK n, view, marks : Written(n, view, marks)
      BY <1>3, Zenon DEF ImportUpdate
    <2> QED
      BY <1>1, <1>2, <1>3, <2>1, WrittenKeeps, ImportUpdateStep, RowStep
  <1>4. CASE ImportCreate
    <2>1. PICK n, view, marks : Written(n, view, marks)
      BY <1>4, Zenon DEF ImportCreate
    <2> QED
      BY <1>1, <1>2, <1>4, <2>1, WrittenKeeps, ImportCreateStep, RowStep
  <1>5. CASE ImportSkip
    <2> DEFINE failed == batch.failed
    <2>1. batch' = [batch EXCEPT !.todo = Tail(@), !.failed = failed] /\ UNCHANGED vars
      BY <1>2, <1>5 DEF ImportSkip, BatchRecord
    <2>2. failed \/ ~ParentFound \/ (Known /\ ~batch.upsert)
      BY <1>5 DEF ImportSkip
    <2>3. batch'.fresh = batch.fresh
      BY <1>2, <2>1 DEF BatchRecord
    <2> HIDE DEF failed
    <2>4. failed \in BOOLEAN /\ (batch.failed => failed)
      BY <1>2 DEF failed
    <2>5. BatchSound(batch', node)
      BY <1>1, <1>2, <2>1, <2>2, <2>4, NotedStep
    <2> QED
      BY <1>1, <2>1, <2>3, <2>5, RowStep
  <1>6. CASE ImportFail
    <2>1. batch' = [batch EXCEPT !.todo = Tail(@), !.failed = TRUE] /\ UNCHANGED vars
      BY <1>6 DEF ImportFail
    <2>2. batch'.fresh = batch.fresh
      BY <1>2, <2>1 DEF BatchRecord
    <2>3. BatchSound(batch', node)
      BY <1>1, <1>2, <2>1, NotedStep
    <2> QED
      BY <1>1, <2>1, <2>2, <2>3, RowStep
  <1> QED
    BY <1>3, <1>4, <1>5, <1>6

LEMMA ImportInitInvariant == ImportInit => ImportInvariant
  BY OrgInitInvariant DEF ImportInit, ImportInvariant, Importing

LEMMA ImportNextInvariant == ImportInvariant /\ [ImportNext]_importVars => ImportInvariant'
  <1> SUFFICES ASSUME ImportInvariant, [ImportNext]_importVars PROVE ImportInvariant'
    OBVIOUS
  <1>1. CASE UNCHANGED importVars
    <2>1. UNCHANGED vars /\ batch' = batch
      BY <1>1 DEF importVars
    <2>2. CASE Importing
      <3>1. BatchSound(batch', node)
        BY <2>1, <2>2 DEF ImportInvariant
      <3> QED
        BY <2>1, <2>2, <3>1, RowStep
    <2>3. CASE ~Importing
      BY <2>1, <2>3 DEF ImportInvariant, OrgInvariant, TableShape, Importing, vars
    <2> QED
      BY <2>2, <2>3
  <1>2. CASE Besides
    BY <1>2, BesidesStep
  <1>3. CASE \E payload \in Payloads, upsert \in BOOLEAN : OpenImport(payload, upsert)
    BY <1>3, OpenImportStep
  <1>4. CASE ImportUpdate \/ ImportCreate \/ ImportSkip \/ ImportFail
    BY <1>4, ImportRowStep
  <1>5. CASE CommitImport
    BY <1>5, CommitImportStep
  <1>6. CASE AbandonImport
    BY <1>6 DEF AbandonImport, ImportInvariant, OrgInvariant, TableShape, Importing, vars
  <1> QED
    BY <1>1, <1>2, <1>3, <1>4, <1>5, <1>6 DEF ImportNext, Import

(* The invariant holds in every state of requests and imports.             *)
THEOREM ImportInvariantHolds == ImportSpec => []ImportInvariant
  <1>1. ImportInit => ImportInvariant
    BY ImportInitInvariant
  <1>2. ImportInvariant /\ [ImportNext]_importVars => ImportInvariant'
    BY ImportNextInvariant
  <1> QED
    BY <1>1, <1>2, PTL DEF ImportSpec

(* No two nodes ever have the same path, whatever requests and imports     *)
(* overlap, break off or make a loop.                                      *)
THEOREM PathsStayApartBesideImports == ImportSpec => []PathsTellNodesApart
  <1>1. ImportInvariant => PathsTellNodesApart
    BY DEF ImportInvariant, OrgInvariant, TableShape, EndsIn, PathsTellNodesApart
  <1> QED
    BY <1>1, ImportInvariantHolds, PTL

----------------------------------------------------------------------------
(* What a commit does to the table, by the kind of row.                    *)
LEMMA CommitIs ==
    ASSUME ImportInvariant, CommitImport
    PROVE  /\ Importing /\ batch.todo = <<>> /\ BatchSound(batch, node)
           /\ node' # node =>
                /\ ~batch.failed /\ SoundTable(node')
                /\ DOMAIN node' = DOMAIN node \cup DOMAIN batch.rows
                /\ \A n \in DOMAIN batch.rows : node'[n] = batch.rows[n]
                /\ \A n \in DOMAIN node \ DOMAIN batch.rows : node'[n] = node[n]
  <1>1. /\ Importing /\ batch.todo = <<>> /\ BatchSound(batch, node) /\ OrgInvariant
        /\ node' = IF batch.failed THEN node ELSE View
    BY DEF CommitImport, ImportInvariant
  <1>2. /\ SoundTable(View) /\ DOMAIN View = DOMAIN node \cup DOMAIN batch.rows
        /\ \A n \in DOMAIN batch.rows : View[n] = batch.rows[n]
        /\ \A n \in DOMAIN node \ DOMAIN batch.rows : View[n] = node[n]
    BY <1>1, ViewIs
  <1> HIDE DEF View
  <1>3. node' # node => ~batch.failed /\ node' = View
    BY <1>1
  <1> QED
    BY <1>1, <1>2, <1>3

(* The other steps of an import leave the table alone.                     *)
LEMMA OnlyCommitsWrite ==
    ASSUME ImportInvariant, ImportNext, ~CommitImport, ~Besides
    PROVE  node' = node
  <1>1. CASE \E payload \in Payloads, upsert \in BOOLEAN : OpenImport(payload, upsert)
    BY <1>1 DEF OpenImport
  <1>2. CASE ImportUpdate \/ ImportCreate \/ ImportSkip \/ ImportFail
    BY <1>2, ImportRowStep DEF vars
  <1>3. CASE AbandonImport
    BY <1>3 DEF AbandonImport, vars
  <1> QED
    BY <1>1, <1>2, <1>3 DEF ImportNext, Import

(* The paths a step of requests or imports changes.                        *)
PathsAsked ==
    \A n \in DOMAIN node : node'[n].path # node[n].path =>
         \/ \E w \in Workers :
              /\ ~Idle(w)
              /\ \/ req[w].id = n
                 \/ /\ req[w].op = "move"
                    /\ \E i \in DOMAIN node[n].path : node[n].path[i] = req[w].id
         \/ /\ Importing
            /\ \E m \in DOMAIN batch.byCode \cap DOMAIN batch.rows :
                 \E i \in DOMAIN node[n].path : node[n].path[i] = m

LEMMA StepAsksPaths == ImportInvariant /\ [ImportNext]_importVars => PathsAsked
  <1> SUFFICES ASSUME ImportInvariant, [ImportNext]_importVars PROVE PathsAsked
    OBVIOUS
  <1>1. CASE node' = node
    BY <1>1 DEF PathsAsked
  <1>2. CASE Besides
    <2>1. OrgInvariant /\ [OrgNext]_vars
      BY <1>2 DEF Besides, ImportInvariant
    <2> QED
      BY <2>1, StepKeepsPaths DEF PathsKept, PathsAsked
  <1>3. CASE CommitImport /\ node' # node
    <2>1. /\ Importing /\ ChangesAsked(batch, node)
          /\ \A n \in DOMAIN batch.rows : node'[n] = batch.rows[n]
          /\ \A n \in DOMAIN node \ DOMAIN batch.rows : node'[n] = node[n]
      BY <1>3, CommitIs DEF BatchSound
    <2>2. ASSUME NEW n \in DOMAIN node, node'[n].path # node[n].path
          PROVE  \E m \in DOMAIN batch.byCode \cap DOMAIN batch.rows : On(m, node[n].path)
      BY <2>1, <2>2 DEF ChangesAsked
    <2> QED
      BY <2>1, <2>2 DEF PathsAsked, On
  <1> QED
    BY <1>1, <1>2, <1>3, OnlyCommitsWrite DEF importVars, vars

(* The path of another node changes only by a move of a node on that path, *)
(* be it by a request or by a row of an import.                            *)
THEOREM PathsChangeOnlyAsAsked == ImportSpec => PathsChangeAsAsked
  <1>1. ImportInvariant /\ [ImportNext]_importVars
          => [\A n \in DOMAIN node : node'[n].path # node[n].path =>
                \/ \E w \in Workers :
                     /\ ~Idle(w)
                     /\ \/ req[w].id = n
                        \/ /\ req[w].op = "move"
                           /\ \E i \in DOMAIN node[n].path : node[n].path[i] = req[w].id
                \/ /\ Importing
                   /\ \E m \in DOMAIN batch.byCode \cap DOMAIN batch.rows :
                        \E i \in DOMAIN node[n].path : node[n].path[i] = m]_importVars
    BY StepAsksPaths DEF PathsAsked
  <1> QED
    BY <1>1, ImportInvariantHolds, PTL DEF ImportSpec, PathsChangeAsAsked

----------------------------------------------------------------------------
(* A commit that changes the tree puts every row in its place, or the      *)
(* import refused it.                                                      *)
Whole ==
    Importing /\ ~Importing' /\ node' # node =>
         \A i \in DOMAIN batch.asked :
           \/ Refused(i)
           \/ /\ batch.asked[i][1] \in DOMAIN node'
              /\ node'[batch.asked[i][1]].parent = batch.asked[i][2]

LEMMA StepIsWhole == ImportInvariant /\ [ImportNext]_importVars => Whole
  <1> SUFFICES ASSUME ImportInvariant, [ImportNext]_importVars,
                      Importing, ~Importing', node' # node
               PROVE  \A i \in DOMAIN batch.asked :
                        \/ Refused(i)
                        \/ /\ batch.asked[i][1] \in DOMAIN node'
                           /\ node'[batch.asked[i][1]].parent = batch.asked[i][2]
    BY DEF Whole
  <1>1. CommitImport
    <2>1. ~Besides
      BY DEF Besides, Importing
    <2>2. ~UNCHANGED importVars
      BY DEF importVars, vars
    <2> QED
      BY <2>1, <2>2, OnlyCommitsWrite
  <1>2. /\ BatchSound(batch, node) /\ batch.todo = <<>> /\ ~batch.failed
        /\ DOMAIN node' = DOMAIN node \cup DOMAIN batch.rows
        /\ \A n \in DOMAIN batch.rows : node'[n] = batch.rows[n]
    BY <1>1, CommitIs
  <1>3. /\ DOMAIN batch.asked = 1..Len(batch.asked)
        /\ Taken(batch) = Len(batch.asked)
    BY <1>2 DEF BatchSound, BatchRecord, Taken
  <1>4. \A i \in DOMAIN batch.asked : InPlace(batch, i) \/ RefusedBy(batch, i)
    BY <1>2, <1>3 DEF BatchSound, RowsTaken
  <1>5. \A i \in DOMAIN batch.asked : RefusedBy(batch, i) => Refused(i)
    BY <1>3 DEF RefusedBy, Refused
  <1> QED
    BY <1>2, <1>4, <1>5 DEF InPlace

(* An import that changes the tree has put every row in its place, but for *)
(* those it refused itself.                                                *)
THEOREM ImportsStayWhole == ImportSpec => ImportsAreWhole
  <1>1. ImportInvariant /\ [ImportNext]_importVars
          => [Importing /\ ~Importing' /\ node' # node =>
                \A i \in DOMAIN batch.asked :
                  \/ Refused(i)
                  \/ /\ batch.asked[i][1] \in DOMAIN node'
                     /\ node'[batch.asked[i][1]].parent = batch.asked[i][2]]_importVars
    BY StepIsWhole DEF Whole
  <1> QED
    BY <1>1, ImportInvariantHolds, PTL DEF ImportSpec, ImportsAreWhole

----------------------------------------------------------------------------
(* Paths that are as the parents say, among the live nodes.                *)
Fits(t, m) ==
    t[m].live /\ (t[m].parent = Root \/ t[t[m].parent].live)
      => t[m].path = PathIn(t, t[m].parent, m)
StraightBut(t, n) == \A m \in DOMAIN t \ {n} : Fits(t, m)
Straight(t) == \A m \in DOMAIN t : Fits(t, m)

LEMMA BelowItself == ASSUME NEW path \in Seq(Ids) PROVE Below(path, path)
  <1>1. SubSeq(path, 1, Len(path)) = path
    OBVIOUS
  <1> QED
    BY <1>1 DEF Below

LEMMA BelowAppend ==
    ASSUME NEW old \in Seq(Ids), NEW path \in Seq(Ids), NEW m \in Ids
    PROVE  Below(old, Append(path, m)) <=> Below(old, path) \/ old = Append(path, m)
  <1> PICK long : long = Append(path, m)
    OBVIOUS
  <1>1. /\ long \in Seq(Ids) /\ Len(long) = Len(path) + 1
        /\ \A i \in 1..Len(path) : long[i] = path[i]
        /\ Len(old) \in Nat /\ Len(path) \in Nat
    OBVIOUS
  <1>2. CASE Len(old) <= Len(path)
    <2>1. SubSeq(long, 1, Len(old)) = SubSeq(path, 1, Len(old))
      <3>1. /\ SubSeq(long, 1, Len(old)) = [i \in 1..Len(old) |-> long[i]]
            /\ SubSeq(path, 1, Len(old)) = [i \in 1..Len(old) |-> path[i]]
        BY <1>1, <1>2
      <3> QED
        BY <1>1, <1>2, <3>1
    <2>2. old # long
      BY <1>1, <1>2
    <2> QED
      BY <1>1, <1>2, <2>1, <2>2 DEF Below
  <1>3. CASE Len(old) = Len(path) + 1
    <2>1. SubSeq(long, 1, Len(old)) = long
      BY <1>1, <1>3
    <2>2. ~Below(old, path)
      BY <1>1, <1>3 DEF Below
    <2>3. Below(old, long) <=> old = long
      BY <1>1, <1>3, <2>1 DEF Below
    <2> QED
      BY <2>2, <2>3
  <1>4. CASE Len(old) > Len(path) + 1
    <2>1. old # long
      BY <1>1, <1>4
    <2> QED
      BY <1>1, <1>4, <2>1 DEF Below
  <1> QED
    BY <1>1, <1>2, <1>3, <1>4

LEMMA BelowOne ==
    ASSUME NEW old \in Seq(Ids), Len(old) > 0, NEW m \in Ids, Below(old, <<m>>)
    PROVE  old = <<m>>
  <1>1. Append(<<>>, m) = <<m>> /\ <<>> \in Seq(Ids) /\ Len(<<>>) = 0
    OBVIOUS
  <1>2. ~Below(old, <<>>)
    BY <1>1 DEF Below
  <1> QED
    BY <1>1, <1>2, BelowAppend

(* The path below a path that is rewritten is rewritten likewise.          *)
LEMMA RegraftedAppend ==
    ASSUME NEW old \in Seq(Ids), NEW new \in Seq(Ids), NEW path \in Seq(Ids), NEW m \in Ids,
           Below(old, path)
    PROVE  Regrafted(Append(path, m), old, new) = Append(Regrafted(path, old, new), m)
  <1> DEFINE rest == SubSeq(path, Len(old) + 1, Len(path))
             more == SubSeq(Append(path, m), Len(old) + 1, Len(path) + 1)
  <1>1. Len(old) \in Nat /\ Len(path) \in Nat /\ Len(old) <= Len(path)
    BY DEF Below
  <1>2. rest \in Seq(Ids) /\ Len(rest) = Len(path) - Len(old)
        /\ \A i \in 1..Len(rest) : rest[i] = path[Len(old) + i]
    <2>1. \A i \in Len(old) + 1 .. Len(path) : path[i] \in Ids
      BY <1>1
    <2> QED
      BY <1>1, <2>1, SubSeqProperties
  <1>3. more \in Seq(Ids) /\ Len(more) = Len(path) + 1 - Len(old)
        /\ \A i \in 1..Len(more) : more[i] = Append(path, m)[Len(old) + i]
    <2>1. \A i \in Len(old) + 1 .. Len(path) + 1 : Append(path, m)[i] \in Ids
      BY <1>1
    <2>2. Append(path, m) \in Seq(Ids) /\ Len(Append(path, m)) = Len(path) + 1
      OBVIOUS
    <2> QED
      BY <1>1, <2>1, <2>2, SubSeqProperties
  <1> HIDE DEF rest, more
  <1>4. more = Append(rest, m)
    <2> PICK r, q, k : r = rest /\ q = Append(rest, m) /\ k = Len(rest)
      OBVIOUS
    <2>1. /\ r \in Seq(Ids) /\ k \in Nat /\ Len(r) = k
          /\ q = Append(r, m)
      BY <1>2
    <2>2. /\ q \in Seq(Ids) /\ Len(q) = k + 1 /\ q[k + 1] = m
          /\ \A i \in 1..k : q[i] = r[i]
      BY <2>1
    <2>3. /\ more \in Seq(Ids) /\ Len(more) = k + 1
          /\ k = Len(path) - Len(old)
      BY <1>1, <1>2, <1>3
    <2>4. ASSUME NEW i \in 1..k + 1 PROVE more[i] = q[i]
      <3>1. more[i] = Append(path, m)[Len(old) + i]
        BY <1>3, <2>3, <2>4
      <3>2. CASE i = k + 1
        <4>1. Len(old) + i = Len(path) + 1
          BY <1>1, <2>3, <3>2
        <4> QED
          BY <2>2, <3>1, <3>2, <4>1
      <3>3. CASE i # k + 1
        <4>1. i \in 1..k /\ Len(old) + i \in 1..Len(path)
          <5> PICK a, b : a = Len(old) /\ b = Len(path)
            OBVIOUS
          <5>1. a \in Nat /\ b \in Nat /\ k \in Nat /\ k = b - a
            BY <1>1, <2>1, <2>3
          <5>2. i \in Nat /\ 1 <= i /\ i <= k + 1
            BY <2>4, <5>1
          <5>3. i <= k
            BY <3>3, <5>1, <5>2
          <5> QED
            BY <5>1, <5>2, <5>3
        <4>2. Append(path, m)[Len(old) + i] = path[Len(old) + i]
          BY <1>1, <4>1
        <4>3. q[i] = path[Len(old) + i]
          BY <1>2, <2>1, <2>2, <4>1
        <4> QED
          BY <3>1, <4>2, <4>3
      <3> QED
        BY <3>2, <3>3
    <2>5. more = q
      BY <2>2, <2>3, <2>4, SeqEqual
    <2> QED
      BY <2>5
  <1>5. new \o Append(rest, m) = Append(new \o rest, m)
    BY <1>2
  <1>6. Len(Append(path, m)) = Len(path) + 1
    OBVIOUS
  <1> QED
    BY <1>4, <1>5, <1>6 DEF Regrafted, rest, more

LEMMA RegraftedItself ==
    ASSUME NEW old \in Seq(Ids), NEW new \in Seq(Ids)
    PROVE  Regrafted(old, old, new) = new
  <1>1. SubSeq(old, Len(old) + 1, Len(old)) = <<>>
    OBVIOUS
  <1> QED
    BY <1>1, ConcatEmptySeq DEF Regrafted

(* What a removed node keeps is no matter for the live ones: rewriting the *)
(* paths below n, unless its parent's is among them, makes them straight.  *)
LEMMA RebuiltStraight ==
    ASSUME NEW view, SoundTable(view), NEW n \in DOMAIN view,
           StraightBut(view, n), ~LoopsUnder(view, n, view[n].parent)
    PROVE  Straight(Rebuilt(view, n))
  <1> DEFINE old == view[n].path
             p == view[n].parent
             new == PathIn(view, p, n)
             moved == [view EXCEPT ![n].path = new]
             built == [m \in DOMAIN view |->
                         IF moved[m].live /\ Below(old, moved[m].path)
                         THEN [moved[m] EXCEPT !.path = Regrafted(@, old, new)]
                         ELSE moved[m]]
  <1>1. /\ DOMAIN view \subseteq Ids
        /\ \A m \in DOMAIN view : /\ view[m] \in Row /\ EndsIn(view[m].path, m)
                                  /\ view[m].path \in Seq(Ids) /\ Len(view[m].path) > 0
                                  /\ view[m].parent \in DOMAIN view \cup {Root}
    BY RowTableTypes DEF SoundTable, SoundRows, EndsIn
  <1>2. /\ n \in Ids /\ p \in DOMAIN view \cup {Root} /\ n # Root /\ Root \notin DOMAIN view
        /\ EndsIn(old, n) /\ EndsIn(new, n)
        /\ old \in Seq(Ids) /\ Len(old) > 0 /\ new \in Seq(Ids)
    BY <1>1, PathInEnds, OrgAssumption DEF EndsIn, Root
  <1>3. Rebuilt(view, n) = IF old = new THEN view ELSE built
    BY DEF Rebuilt
  <1>4. CASE old = new
    <2>1. Fits(view, n)
      BY <1>4 DEF Fits
    <2> QED
      BY <1>3, <1>4, <2>1 DEF Straight, StraightBut
  <1>5. CASE old # new
    <2>1. p # Root => p # n /\ ~Below(old, view[p].path)
      BY <1>2, BelowItself DEF LoopsUnder
    <2>2. ~Below(old, new)
      <3>1. CASE p = Root
        BY <1>2, <1>5, <3>1, BelowOne DEF PathIn
      <3>2. CASE p # Root
        BY <1>1, <1>2, <1>5, <2>1, <3>2, BelowAppend DEF PathIn
      <3> QED
        BY <3>1, <3>2
    <2>3. /\ moved[n].path = new /\ moved[n].parent = p /\ moved[n].live = view[n].live
          /\ \A m \in DOMAIN view \ {n} : moved[m] = view[m]
      BY <1>1 DEF Row
    <2> HIDE DEF moved, new, old, p
    <2>4. DOMAIN built = DOMAIN view
      OBVIOUS
    <2>5. built[n].path = new /\ built[n].parent = p /\ built[n].live = view[n].live
      BY <2>2, <2>3
    <2>6. ASSUME NEW m \in DOMAIN view \ {n}
          PROVE  /\ built[m].parent = view[m].parent /\ built[m].live = view[m].live
                 /\ built[m].path = IF view[m].live /\ Below(old, view[m].path)
                                    THEN Regrafted(view[m].path, old, new)
                                    ELSE view[m].path
      <3>1. built[m] = IF view[m].live /\ Below(old, view[m].path)
                       THEN [view[m] EXCEPT !.path = Regrafted(@, old, new)] ELSE view[m]
        BY <2>3
      <3> HIDE DEF built
      <3>2. view[m] \in Row
        BY <1>1
      <3> QED
        BY <3>1, <3>2 DEF Row
    <2> HIDE DEF built
    <2>7. Fits(built, n)
      <3>1. CASE p = Root
        BY <2>5, <3>1 DEF Fits, PathIn, new
      <3>2. CASE p # Root
        <4>1. built[p].path = view[p].path
          BY <1>2, <2>1, <2>6, <3>2
        <4> QED
          BY <2>5, <3>2, <4>1 DEF Fits, PathIn, new
      <3> QED
        BY <3>1, <3>2
    <2>8. ASSUME NEW m \in DOMAIN view \ {n}, built[m].live,
                 built[m].parent = Root \/ built[built[m].parent].live
          PROVE  built[m].path = PathIn(built, built[m].parent, m)
      <3> PICK q : q = view[m].parent
        OBVIOUS
      <3>1. /\ built[m].parent = q /\ q \in DOMAIN view \cup {Root} /\ view[m].live
            /\ built[m].path = IF Below(old, view[m].path)
                               THEN Regrafted(view[m].path, old, new) ELSE view[m].path
            /\ m \in Ids /\ m \in DOMAIN view /\ m # n
        BY <1>1, <2>6, <2>8
      <3>2. old # view[m].path
        BY <1>1, <1>2, <3>1 DEF EndsIn
      <3>3. CASE q = Root
        <4>1. view[m].path = <<m>>
          BY <3>1, <3>3 DEF StraightBut, Fits, PathIn
        <4>2. ~Below(old, view[m].path)
          BY <1>2, <3>1, <3>2, <4>1, BelowOne
        <4> QED
          BY <3>1, <3>3, <4>1, <4>2 DEF PathIn
      <3>4. CASE q = n
        <4>1. view[m].path = Append(old, m)
          <5>1. view[n].live /\ q # Root
            BY <1>2, <2>5, <2>8, <3>1, <3>4
          <5> QED
            BY <3>1, <3>4, <5>1 DEF StraightBut, Fits, PathIn, old
        <4>2. Below(old, view[m].path)
          BY <1>2, <3>1, <4>1, BelowAppend, BelowItself
        <4>3. built[m].path = Append(new, m)
          BY <1>2, <3>1, <4>1, <4>2, BelowItself, RegraftedAppend, RegraftedItself
        <4> QED
          BY <1>2, <2>5, <3>1, <3>4, <4>3 DEF PathIn
      <3>5. CASE q # Root /\ q # n
        <4>1. q \in DOMAIN view \ {n} /\ view[q].live /\ view[q].path \in Seq(Ids)
          BY <1>1, <2>6, <2>8, <3>1, <3>5
        <4>2. view[m].path = Append(view[q].path, m)
          BY <3>1, <3>5, <4>1 DEF StraightBut, Fits, PathIn
        <4>3. Below(old, view[m].path) <=> Below(old, view[q].path)
          BY <1>2, <3>1, <3>2, <4>1, <4>2, BelowAppend
        <4>4. built[m].path = Append(built[q].path, m)
          <5>1. CASE Below(old, view[q].path)
            <6>1. Regrafted(Append(view[q].path, m), old, new)
                    = Append(Regrafted(view[q].path, old, new), m)
              BY <1>2, <3>1, <4>1, <5>1, RegraftedAppend
            <6>2. built[q].path = Regrafted(view[q].path, old, new)
              BY <2>6, <4>1, <5>1
            <6>3. built[m].path = Regrafted(view[m].path, old, new)
              BY <3>1, <4>3, <5>1
            <6> QED
              BY <4>2, <6>1, <6>2, <6>3
          <5>2. CASE ~Below(old, view[q].path)
            BY <2>6, <3>1, <4>1, <4>2, <4>3, <5>2
          <5> QED
            BY <5>1, <5>2
        <4> QED
          BY <3>1, <3>5, <4>4 DEF PathIn
      <3> QED
        BY <3>3, <3>4, <3>5
    <2>9. Straight(built)
      BY <2>4, <2>7, <2>8 DEF Straight, Fits
    <2> QED
      BY <1>3, <1>5, <2>9
  <1> QED
    BY <1>4, <1>5

(* A row put in the place of n with its path, and not brought to life,     *)
(* leaves the others as they were.                                         *)
LEMMA PutStraightBut ==
    ASSUME NEW t, SoundTable(t), NEW n \in DOMAIN t, StraightBut(t, n),
           NEW row \in Row, row.path = t[n].path, row.live => t[n].live
    PROVE  StraightBut([t EXCEPT ![n] = row], n)
  <1> DEFINE new == [t EXCEPT ![n] = row]
  <1>1. /\ DOMAIN new = DOMAIN t /\ new[n] = row
        /\ \A m \in DOMAIN t \ {n} : new[m] = t[m]
    OBVIOUS
  <1>2. \A m \in DOMAIN t : t[m].parent \in DOMAIN t \cup {Root}
    BY DEF SoundTable, SoundRows
  <1> HIDE DEF new
  <1>3. \A m \in DOMAIN t : new[m].path = t[m].path /\ (new[m].live => t[m].live)
    BY <1>1
  <1>4. ASSUME NEW m \in DOMAIN t \ {n} PROVE Fits(new, m)
    <2>1. Fits(t, m)
      BY DEF StraightBut
    <2> PICK q : q = t[m].parent
      OBVIOUS
    <2>2. q \in DOMAIN t \cup {Root} /\ new[m].parent = q /\ new[m] = t[m]
      BY <1>1, <1>2
    <2>3. CASE q = Root
      BY <2>1, <2>2, <2>3 DEF Fits, PathIn
    <2>4. CASE q # Root
      BY <1>3, <2>1, <2>2, <2>4 DEF Fits, PathIn
    <2> QED
      BY <2>3, <2>4
  <1>5. StraightBut(new, n)
    BY <1>1, <1>4 DEF StraightBut
  <1> QED
    BY <1>5 DEF new

LEMMA StraightParts ==
    ASSUME NEW t, NEW n \in DOMAIN t
    PROVE  Straight(t) <=> StraightBut(t, n) /\ Fits(t, n)
  BY DEF Straight, StraightBut

(* A new node, with the path its parent gives it.                          *)
LEMMA InsertStraight ==
    ASSUME NEW t, SoundTable(t), Straight(t), NEW n \in Ids, n \notin DOMAIN t,
           NEW p \in DOMAIN t \cup {Root}, NEW row,
           row.parent = p, row.path = PathIn(t, p, n),
           NEW new, new = [m \in DOMAIN t \cup {n} |-> IF m = n THEN row ELSE t[m]]
    PROVE  Straight(new)
  <1>1. /\ DOMAIN new = DOMAIN t \cup {n} /\ new[n] = row
        /\ \A m \in DOMAIN t : new[m] = t[m]
    OBVIOUS
  <1>2. \A m \in DOMAIN t : t[m].parent \in DOMAIN t \cup {Root}
    BY DEF SoundTable, SoundRows
  <1>3. \A q \in DOMAIN t \cup {Root} : \A m : PathIn(new, q, m) = PathIn(t, q, m)
    BY <1>1 DEF PathIn
  <1>4. ASSUME NEW m \in DOMAIN t PROVE Fits(new, m)
    BY <1>1, <1>2, <1>3 DEF Straight, Fits
  <1>5. Fits(new, n)
    BY <1>1, <1>3 DEF Fits
  <1> QED
    BY <1>1, <1>4, <1>5 DEF Straight

----------------------------------------------------------------------------
(* What holds of the table while one request runs alone, at each of its    *)
(* steps: after a move has saved its node, all other paths fit, and the    *)
(* new parent is not below the node.                                       *)
Moved(t, n) == StraightBut(t, n) /\ ~LoopsUnder(t, n, t[n].parent)

Resaved(r, t, before) ==
    /\ Moved(before, r.id) /\ t[r.id].path = r.copy.path /\ r.copy.path # r.old
    /\ r.copy.path = PathIn(before, t[r.id].parent, r.id)

InStep(r, t) ==
    LET n == r.id
    IN  /\ r.at = "insert" =>
             /\ Straight(t) /\ n \notin DOMAIN t /\ r.copy.live
             /\ r.copy.path = PathIn(t, r.copy.parent, n)
        /\ r.at \in {"load", "write"} =>
             /\ Straight(t) /\ r.op # "create" /\ r.copy.path = t[n].path
             /\ r.copy.live => t[n].live
             /\ r.op = "rename" => r.copy = t[n]
             /\ r.op = "remove" => ~r.copy.live
        /\ r.at \in {"node", "parent", "loadPath", "writePath"} => Moved(t, n)
        /\ r.at = "parent" => r.copy = t[n]
        /\ r.at \in {"parent", "loadPath", "writePath"} => r.old = t[n].path
        /\ r.at \in {"loadPath", "writePath"} =>
             /\ r.copy = [t[n] EXCEPT !.path = PathIn(t, t[n].parent, n)]
             /\ r.copy.path # r.old
        /\ r.at \in {"write", "writePath"} => r.diff = Differing(r.copy, t[n])
        /\ r.at = "subtree" => Resaved(r, t, [t EXCEPT ![n].path = r.old])

Alone(w) == ~Idle(w) /\ \A v \in Workers \ {w} : Idle(v)

Calm ==
    disturbed = {} =>
        \/ Quiet /\ Straight(node)
        \/ \E w \in Workers : Alone(w) /\ InStep(req[w], node)

(* An import that has been alone so far, made no loop and put no path back:*)
(* the table it sees is straight, and the rows it has still to take are in *)
(* it as it has read them, but for their paths, or are new.                *)
ToTake(b, t) ==
    \A i \in 1..Len(b.todo) :
        LET n == b.todo[i][1]
        IN  IF n \in DOMAIN b.byCode
            THEN /\ n \in DOMAIN t /\ t[n].parent = b.byCode[n].parent
                 /\ t[n].live = b.byCode[n].live
            ELSE n \notin DOMAIN t

Unspoilt == disturbed = {} /\ batch.marks = {} /\ batch.alone /\ begun = batch.begun

ImportCalm ==
    Importing =>
        /\ begun >= batch.begun
        /\ Unspoilt => Quiet /\ Straight(View) /\ ToTake(batch, View)

CalmInvariant == ImportInvariant /\ Calm /\ ImportCalm

----------------------------------------------------------------------------
(* A request that begins or goes on keeps the calm, if what it finds while *)
(* it is alone leads to what its next step should find.                    *)
GoesOn(r) == IF r = NoRequest THEN Straight(node') ELSE r.op # "none" /\ InStep(r, node')

LEMMA CalmAfter ==
    ASSUME OrgInvariant, NEW w \in Workers, NEW r, req' = [req EXCEPT ![w] = r],
           disturbed' = {} => (\A v \in Workers \ {w} : Idle(v)) /\ GoesOn(r)
    PROVE  Calm'
  <1> SUFFICES ASSUME disturbed' = {}
               PROVE  \/ Quiet' /\ Straight(node')
                      \/ \E v \in Workers : Alone(v)' /\ InStep(req'[v], node')
    BY DEF Calm
  <1>1. /\ req'[w] = r /\ \A v \in Workers \ {w} : req'[v] = req[v]
    BY DEF OrgInvariant
  <1>2. \A v \in Workers \ {w} : Idle(v)'
    BY <1>1 DEF Idle
  <1>3. CASE r = NoRequest
    <2>1. Idle(w)'
      BY <1>1, <1>3 DEF Idle, NoRequest
    <2>2. Quiet'
      BY <1>2, <2>1 DEF Quiet
    <2> QED
      BY <1>3, <2>2 DEF GoesOn
  <1>4. CASE r # NoRequest
    <2>1. ~Idle(w)' /\ InStep(req'[w], node')
      BY <1>1, <1>4 DEF Idle, GoesOn
    <2>2. Alone(w)'
      BY <1>2, <2>1 DEF Alone
    <2> QED
      BY <2>1, <2>2
  <1> QED
    BY <1>3, <1>4

LEMMA CalmOpen ==
    ASSUME OrgInvariant, Calm, NEW w \in Workers, NEW op, op # "none", NEW n, NEW at, NEW copy,
           Open(w, op, n, at, copy),
           Straight(node) => InStep([op |-> op, id |-> n, at |-> at, copy |-> copy,
                                     old |-> <<>>, diff |-> {}], node)
    PROVE  Calm'
  <1> DEFINE r == [op |-> op, id |-> n, at |-> at, copy |-> copy, old |-> <<>>, diff |-> {}]
  <1>1. /\ req' = [req EXCEPT ![w] = r] /\ node' = node
        /\ disturbed' = IF Quiet THEN disturbed ELSE disturbed \cup {"overlap"}
    BY DEF Open
  <1>2. r # NoRequest /\ r.op # "none"
    BY DEF NoRequest
  <1>3. Straight(node) => InStep(r, node)
    OBVIOUS
  <1> HIDE DEF r
  <1>4. disturbed' = {} => Quiet /\ Straight(node)
    BY <1>1 DEF Calm, Alone, Quiet
  <1>5. disturbed' = {} => (\A v \in Workers \ {w} : Idle(v)) /\ GoesOn(r)
    BY <1>1, <1>2, <1>3, <1>4 DEF Quiet, GoesOn
  <1> QED
    BY <1>1, <1>5, CalmAfter

LEMMA CalmOn ==
    ASSUME OrgInvariant, Calm, NEW w \in Workers, ~Idle(w), disturbed \subseteq disturbed',
           NEW r, req' = [req EXCEPT ![w] = r],
           disturbed' = {} /\ InStep(req[w], node) => GoesOn(r)
    PROVE  Calm'
  <1>1. disturbed' = {} => Alone(w) /\ InStep(req[w], node)
    BY DEF Calm, Alone, Quiet
  <1> QED
    BY <1>1, CalmAfter DEF Alone

LEMMA PathInTable == \A p, n : PathUnder(p, n) = PathIn(node, p, n)
  BY DEF PathUnder, PathIn

LEMMA CalmReceive ==
    ASSUME OrgInvariant, Calm, NEW w \in Workers, Receive(w)
    PROVE  Calm'
  <1>1. \A n \in DOMAIN node : node[n] \in Row
    BY DEF OrgInvariant, TableShape
  <1>2. ASSUME NEW n \in Ids, NEW p \in Ids \cup {Root}, OpenCreate(w, n, p)
        PROVE  Calm'
    <2> DEFINE copy == [parent |-> p, path |-> PathUnder(p, n), live |-> TRUE]
               r == [op |-> "create", id |-> n, at |-> "insert", copy |-> copy,
                     old |-> <<>>, diff |-> {}]
    <2>1. Open(w, "create", n, "insert", copy) /\ n \notin DOMAIN node
      BY <1>2 DEF OpenCreate, IsNextId, Unused
    <2>2. copy.path = PathIn(node, copy.parent, n) /\ copy.live
      BY PathInTable
    <2> HIDE DEF copy
    <2>3. Straight(node) => InStep(r, node)
      BY <2>1, <2>2 DEF InStep
    <2> QED
      BY <2>1, <2>3, CalmOpen
  <1>3. ASSUME NEW n \in Ids, NEW p \in Ids \cup {Root}, OpenMove(w, n, p)
        PROVE  Calm'
    <2> DEFINE copy == [node[n] EXCEPT !.parent = p]
               r == [op |-> "move", id |-> n, at |-> "load", copy |-> copy,
                     old |-> <<>>, diff |-> {}]
    <2>1. Open(w, "move", n, "load", copy) /\ n \in DOMAIN node
      BY <1>3 DEF OpenMove
    <2>2. copy.path = node[n].path /\ copy.live = node[n].live
      BY <1>1, <2>1 DEF Row
    <2> HIDE DEF copy
    <2>3. Straight(node) => InStep(r, node)
      BY <2>1, <2>2 DEF InStep
    <2> QED
      BY <2>1, <2>3, CalmOpen
  <1>4. ASSUME NEW n \in Ids, OpenRename(w, n)
        PROVE  Calm'
    <2> DEFINE r == [op |-> "rename", id |-> n, at |-> "load", copy |-> node[n],
                     old |-> <<>>, diff |-> {}]
    <2>1. Open(w, "rename", n, "load", node[n]) /\ n \in DOMAIN node
      BY <1>4 DEF OpenRename
    <2>2. Straight(node) => InStep(r, node)
      BY <2>1 DEF InStep
    <2> QED
      BY <2>1, <2>2, CalmOpen
  <1>5. ASSUME NEW n \in Ids, OpenRemove(w, n)
        PROVE  Calm'
    <2> DEFINE copy == [node[n] EXCEPT !.live = FALSE]
               r == [op |-> "remove", id |-> n, at |-> "load", copy |-> copy,
                     old |-> <<>>, diff |-> {}]
    <2>1. Open(w, "remove", n, "load", copy) /\ n \in DOMAIN node
      BY <1>5 DEF OpenRemove
    <2>2. copy.path = node[n].path /\ ~copy.live
      BY <1>1, <2>1 DEF Row
    <2> HIDE DEF copy
    <2>3. Straight(node) => InStep(r, node)
      BY <2>1, <2>2 DEF InStep
    <2> QED
      BY <2>1, <2>3, CalmOpen
  <1> QED
    BY <1>2, <1>3, <1>4, <1>5 DEF Receive

LEMMA CalmCreate ==
    ASSUME OrgInvariant, Calm, NEW w \in Workers, CommitCreate(w)
    PROVE  Calm'
  <1> PICK n, row : n = req[w].id /\ row = req[w].copy
    OBVIOUS
  <1>1. /\ ~Idle(w) /\ req[w].at = "insert" /\ req' = [req EXCEPT ![w] = NoRequest]
        /\ disturbed' = disturbed
        /\ node' = [m \in DOMAIN node \cup {n} |-> IF m = n THEN row ELSE node[m]]
    BY DEF CommitCreate, At
  <1>2. n \in Ids /\ row.parent \in DOMAIN node \cup {Root} /\ SoundTable(node)
    BY <1>1, Progressing, TableIsSound DEF Sound
  <1>3. InStep(req[w], node) => /\ Straight(node) /\ n \notin DOMAIN node
                                /\ row.path = PathIn(node, row.parent, n)
    BY <1>1 DEF InStep
  <1>4. InStep(req[w], node) => Straight(node')
    BY <1>1, <1>2, <1>3, InsertStraight
  <1> QED
    BY <1>1, <1>4, CalmOn DEF GoesOn

LEMMA CalmLoad ==
    ASSUME OrgInvariant, Calm, NEW w \in Workers, SaveLoad(w)
    PROVE  Calm'
  <1> DEFINE next == IF req[w].at = "load" THEN "write" ELSE "writePath"
             diff == Differing(req[w].copy, node[req[w].id])
             r == [req[w] EXCEPT !.at = next, !.diff = diff]
  <1>1. /\ ~Idle(w) /\ req[w].at \in {"load", "loadPath"} /\ Sound(req[w], DOMAIN node)
        /\ UNCHANGED <<node, disturbed>>
    BY Progressing DEF SaveLoad, At
  <1>2. req' = [req EXCEPT ![w] = r]
    BY DEF SaveLoad, OrgInvariant
  <1>3. /\ r.op = req[w].op /\ r.id = req[w].id /\ r.at = next /\ r.copy = req[w].copy
        /\ r.old = req[w].old /\ r.diff = diff /\ r.op # "none"
    BY <1>1 DEF Sound, RequestRecord
  <1> HIDE DEF r
  <1>4. r # NoRequest
    BY <1>3 DEF NoRequest
  <1>5. InStep(req[w], node) => InStep(r, node)
    BY <1>1, <1>3 DEF InStep
  <1> QED
    BY <1>1, <1>2, <1>3, <1>4, <1>5, CalmOn DEF GoesOn

(* A node saved with its path: the others fit still, and whether its       *)
(* parent is below it is as before.                                        *)
LEMMA PutMoved ==
    ASSUME NEW t, SoundTable(t), Straight(t), NEW n \in DOMAIN t, NEW row \in Row,
           row.path = t[n].path, row.live => t[n].live, row.parent \in DOMAIN t \cup {Root},
           ~LoopsUnder(t, n, row.parent)
    PROVE  Moved([t EXCEPT ![n] = row], n)
  <1> DEFINE new == [t EXCEPT ![n] = row]
  <1>1. StraightBut(new, n)
    BY StraightParts, PutStraightBut
  <1>2. new[n] = row /\ \A m \in DOMAIN t : new[m].path = t[m].path
    OBVIOUS
  <1> HIDE DEF new
  <1>3. ~LoopsUnder(new, n, new[n].parent)
    BY <1>2 DEF LoopsUnder
  <1> QED
    BY <1>1, <1>3 DEF Moved, new

LEMMA CalmWrite ==
    ASSUME OrgInvariant, Calm, NEW w \in Workers, SaveWrite(w)
    PROVE  Calm'
  <1> PICK n, copy : n = req[w].id /\ copy = req[w].copy
    OBVIOUS
  <1>1. /\ ~Idle(w) /\ req[w].at = "write" /\ Sound(req[w], DOMAIN node)
        /\ node' = [node EXCEPT ![n] = Overlay(@, copy, req[w].diff)]
        /\ disturbed \subseteq disturbed'
    BY Progressing DEF SaveWrite, At, Saved
  <1>2. /\ n \in DOMAIN node /\ node[n] \in Row /\ copy \in Row
        /\ copy.parent \in DOMAIN node \cup {Root} /\ SoundTable(node)
        /\ req[w].op \in {"create", "move", "rename", "remove"}
    BY <1>1, Progressing, TableIsSound DEF Sound, RequestRecord
  <1>3. InStep(req[w], node) =>
           /\ Straight(node) /\ req[w].op # "create" /\ copy.path = node[n].path
           /\ copy.live => node[n].live
           /\ req[w].op = "rename" => copy = node[n]
           /\ req[w].op = "remove" => ~copy.live
           /\ req[w].diff = Differing(copy, node[n])
    BY <1>1 DEF InStep
  <1>4. InStep(req[w], node) => node' = [node EXCEPT ![n] = copy]
    <2>1. InStep(req[w], node) => Overlay(node[n], copy, req[w].diff) = copy
      BY <1>2, <1>3, OverlayWhole
    <2> QED
      BY <1>1, <1>2, <2>1
  <1>5. CASE req[w].op = "move"
    <2> DEFINE r == [req[w] EXCEPT !.at = "node", !.diff = {}]
    <2>1. req' = [req EXCEPT ![w] = r]
      BY <1>5 DEF SaveWrite, OrgInvariant
    <2>2. r.op = "move" /\ r.at = "node" /\ r.id = n
      BY <1>1, <1>5 DEF Sound, RequestRecord
    <2> HIDE DEF r
    <2>3. disturbed' = {} => ~LoopsUnder(node, n, copy.parent)
      BY <1>5 DEF SaveWrite
    <2>4. disturbed' = {} /\ InStep(req[w], node) => Moved(node', n)
      BY <1>2, <1>3, <1>4, <2>3, PutMoved
    <2>5. disturbed' = {} /\ InStep(req[w], node) => GoesOn(r)
      BY <2>2, <2>4 DEF GoesOn, InStep, NoRequest
    <2> QED
      BY <1>1, <2>1, <2>5, CalmOn
  <1>6. CASE req[w].op # "move"
    <2>1. req' = [req EXCEPT ![w] = NoRequest]
      BY <1>6 DEF SaveWrite
    <2>2. CASE req[w].op = "rename"
      <3>1. InStep(req[w], node) => node' = node
        BY <1>2, <1>3, <1>4, <2>2 DEF OrgInvariant, TableShape
      <3>2. InStep(req[w], node) => GoesOn(NoRequest)
        BY <1>3, <3>1 DEF GoesOn
      <3> QED
        BY <1>1, <2>1, <3>2, CalmOn
    <2>3. CASE req[w].op # "rename"
      <3>1. ASSUME InStep(req[w], node) PROVE Straight(node')
        <4>1. ~copy.live /\ node' = [node EXCEPT ![n] = copy]
          BY <1>2, <1>3, <1>4, <1>6, <2>3, <3>1
        <4>2. StraightBut(node', n)
          BY <1>2, <1>3, <3>1, <4>1, StraightParts, PutStraightBut
        <4>3. n \in DOMAIN node' /\ node'[n] = copy
          BY <1>2, <4>1
        <4>4. Fits(node', n)
          BY <4>1, <4>3 DEF Fits
        <4> QED
          BY <4>2, <4>3, <4>4, StraightParts
      <3> QED
        BY <1>1, <2>1, <3>1, CalmOn DEF GoesOn
    <2> QED
      BY <2>2, <2>3
  <1> QED
    BY <1>5, <1>6

LEMMA CalmReadNode ==
    ASSUME OrgInvariant, Calm, NEW w \in Workers, ReadNode(w)
    PROVE  Calm'
  <1> DEFINE n == req[w].id
             r == [req[w] EXCEPT !.at = "parent", !.copy = node[n], !.old = node[n].path]
  <1>1. /\ ~Idle(w) /\ req[w].at = "node" /\ Sound(req[w], DOMAIN node)
        /\ UNCHANGED <<node, disturbed>>
    BY Progressing DEF ReadNode, At
  <1>2. req' = [req EXCEPT ![w] = r]
    BY DEF ReadNode, OrgInvariant
  <1>3. /\ r.op # "none" /\ r.id = n /\ r.at = "parent" /\ r.copy = node[n]
        /\ r.old = node[n].path
    BY <1>1 DEF Sound, RequestRecord
  <1> HIDE DEF r
  <1>4. r # NoRequest
    BY <1>3 DEF NoRequest
  <1>5. InStep(req[w], node) => InStep(r, node)
    BY <1>1, <1>3 DEF InStep
  <1> QED
    BY <1>1, <1>2, <1>3, <1>4, <1>5, CalmOn DEF GoesOn

LEMMA CalmReadParent ==
    ASSUME OrgInvariant, Calm, NEW w \in Workers, ReadParent(w)
    PROVE  Calm'
  <1> DEFINE n == req[w].id
             path == PathUnder(req[w].copy.parent, n)
             grafted == [req[w] EXCEPT !.at = "loadPath", !.copy.path = path]
             r == IF path = req[w].old THEN NoRequest ELSE grafted
  <1>1. /\ ~Idle(w) /\ req[w].at = "parent" /\ Sound(req[w], DOMAIN node)
        /\ UNCHANGED <<node, disturbed>> /\ n \in DOMAIN node
    BY Progressing DEF ReadParent, At
  <1>2. req' = [req EXCEPT ![w] = r]
    BY DEF ReadParent, OrgInvariant
  <1>3. /\ grafted.op # "none" /\ grafted.id = n /\ grafted.at = "loadPath"
        /\ grafted.copy = [req[w].copy EXCEPT !.path = path]
        /\ grafted.copy.path = path /\ grafted.old = req[w].old
    BY <1>1 DEF Sound, RequestRecord, Row
  <1>4. InStep(req[w], node) =>
           /\ Moved(node, n) /\ req[w].old = node[n].path /\ req[w].copy = node[n]
           /\ path = PathIn(node, node[n].parent, n)
    BY <1>1, PathInTable DEF InStep
  <1> HIDE DEF grafted, path
  <1>5. InStep(req[w], node) => GoesOn(r)
    <2> SUFFICES ASSUME InStep(req[w], node) PROVE GoesOn(r)
      OBVIOUS
    <2>1. CASE path = req[w].old
      <3>1. Fits(node, n)
        BY <1>4, <2>1 DEF Fits
      <3>2. Straight(node')
        BY <1>1, <1>4, <3>1, StraightParts DEF Moved
      <3> QED
        BY <2>1, <3>2 DEF GoesOn
    <2>2. CASE path # req[w].old
      <3>1. InStep(grafted, node)
        BY <1>3, <1>4, <2>2 DEF InStep
      <3>2. r = grafted /\ grafted # NoRequest
        BY <1>3, <2>2 DEF NoRequest
      <3> QED
        BY <1>1, <1>3, <3>1, <3>2 DEF GoesOn
    <2> QED
      BY <2>1, <2>2
  <1> HIDE DEF r
  <1> QED
    BY <1>1, <1>2, <1>5, CalmOn

LEMMA CalmSavePath ==
    ASSUME OrgInvariant, Calm, NEW w \in Workers, SavePath(w)
    PROVE  Calm'
  <1> PICK n, copy, old : n = req[w].id /\ copy = req[w].copy /\ old = req[w].old
    OBVIOUS
  <1> DEFINE r == [req[w] EXCEPT !.at = "subtree", !.diff = {}]
             before == [node' EXCEPT ![n].path = old]
  <1>1. /\ ~Idle(w) /\ req[w].at = "writePath" /\ Sound(req[w], DOMAIN node)
        /\ node' = [node EXCEPT ![n] = Overlay(@, copy, req[w].diff)]
        /\ UNCHANGED disturbed
    BY Progressing DEF SavePath, At, Saved
  <1>2. /\ n \in DOMAIN node /\ node[n] \in Row /\ copy \in Row
        /\ node \in [DOMAIN node -> Row]
    BY <1>1, Progressing DEF Sound, RequestRecord, OrgInvariant, TableShape
  <1>3. req' = [req EXCEPT ![w] = r]
    BY DEF SavePath, OrgInvariant
  <1>4. /\ r.op # "none" /\ r.id = n /\ r.at = "subtree" /\ r.copy = copy /\ r.old = old
    BY <1>1 DEF Sound, RequestRecord
  <1> HIDE DEF r
  <1>5. ASSUME InStep(req[w], node) PROVE InStep(r, node')
    <2>1. /\ Moved(node, n) /\ old = node[n].path /\ copy.path # old
          /\ copy = [node[n] EXCEPT !.path = PathIn(node, node[n].parent, n)]
          /\ req[w].diff = Differing(copy, node[n])
      BY <1>1, <1>5 DEF InStep
    <2>2. node' = [node EXCEPT ![n] = copy]
      <3>1. Overlay(node[n], copy, req[w].diff) = copy
        BY <1>2, <2>1, OverlayWhole
      <3> QED
        BY <1>1, <1>2, <3>1
    <2>3. copy.parent = node[n].parent /\ copy.live = node[n].live
          /\ copy.path = PathIn(node, node[n].parent, n)
      BY <1>2, <2>1 DEF Row
    <2>4. node'[n] = copy /\ [copy EXCEPT !.path = old] = node[n]
      BY <1>2, <2>1, <2>2, <2>3 DEF Row
    <2>5. before = [node' EXCEPT ![n] = [copy EXCEPT !.path = old]]
      BY <2>4
    <2>6. before = node
      BY <1>2, <2>2, <2>4, <2>5
    <2>7. [node' EXCEPT ![r.id].path = r.old] = node
      BY <1>4, <2>6
    <2>8. Resaved(r, node', node)
      BY <1>4, <2>1, <2>3, <2>4 DEF Resaved
    <2> QED
      BY <1>4, <2>7, <2>8 DEF InStep
  <1>6. r # NoRequest
    BY <1>4 DEF NoRequest
  <1> QED
    BY <1>1, <1>3, <1>4, <1>5, <1>6, CalmOn DEF GoesOn

Repathed(t, n, path) == [t EXCEPT ![n].path = path]
Regrown(t, ids, old, new) ==
    [m \in ids |-> IF t[m].live /\ Below(old, t[m].path)
                   THEN [t[m] EXCEPT !.path = Regrafted(@, old, new)] ELSE t[m]]

LEMMA RebuiltBy ==
    ASSUME NEW view, NEW n, NEW old, NEW new, NEW moved, old = view[n].path,
           new = PathIn(view, view[n].parent, n), moved = Repathed(view, n, new),
           old # new
    PROVE  Rebuilt(view, n) = Regrown(moved, DOMAIN view, old, new)
  BY DEF Rebuilt, Regrown, Repathed

LEMMA CalmSubtree ==
    ASSUME OrgInvariant, Calm, NEW w \in Workers, UpdateSubtree(w)
    PROVE  Calm'
  <1> PICK n, old, new : n = req[w].id /\ old = req[w].old /\ new = req[w].copy.path
    OBVIOUS
  <1> DEFINE before == [node EXCEPT ![n].path = old]
  <1>1. /\ ~Idle(w) /\ req[w].at = "subtree" /\ Sound(req[w], DOMAIN node)
        /\ UNCHANGED disturbed /\ req' = [req EXCEPT ![w] = NoRequest]
        /\ node' = Regrown(node, DOMAIN node, old, new)
    BY Progressing DEF UpdateSubtree, At, Regrown
  <1>2. /\ n \in DOMAIN node /\ node[n] \in Row /\ EndsIn(old, n) /\ SoundTable(node)
        /\ node \in [DOMAIN node -> Row]
    BY <1>1, Progressing, TableIsSound DEF Sound, KnowsOld, OrgInvariant, TableShape
  <1>3. /\ DOMAIN before = DOMAIN node /\ before[n] = [node[n] EXCEPT !.path = old]
        /\ \A m \in DOMAIN node \ {n} : before[m] = node[m]
        /\ before = [m \in DOMAIN node |-> before[m]]
    BY <1>2
  <1>4. [node[n] EXCEPT !.path = old] \in Row /\ before[n].path = old
        /\ before[n].parent = node[n].parent
    BY <1>2, <1>3 DEF Row, EndsIn
  <1>5. SoundTable(before)
    <2> HIDE DEF before
    <2>1. DOMAIN before \subseteq Ids /\ before \in [DOMAIN before -> Row]
      BY <1>2, <1>3, <1>4, RowTableTypes DEF SoundTable
    <2>2. SoundRows(before, DOMAIN before)
      BY <1>2, <1>3, <1>4 DEF SoundTable, SoundRows
    <2> QED
      BY <2>1, <2>2, RowTableTypes DEF SoundTable
  <1>6. ASSUME InStep(req[w], node) PROVE Straight(node')
    <2>1. /\ Moved(before, n) /\ node[n].path = new /\ new # old
          /\ new = PathIn(before, node[n].parent, n)
      BY <1>1, <1>6 DEF InStep, Resaved
    <2>2. [before EXCEPT ![n].path = new] = node
      <3> HIDE DEF before
      <3>1. [before[n] EXCEPT !.path = new] = node[n]
        BY <1>2, <1>3, <2>1 DEF Row
      <3> QED
        BY <1>2, <1>3, <3>1
    <2> HIDE DEF before
    <2>3. Rebuilt(before, n) = node'
      <3>1. new = PathIn(before, before[n].parent, n)
        BY <1>4, <2>1
      <3>2. node = Repathed(before, n, new) /\ old = before[n].path /\ old # new
        BY <1>4, <2>1, <2>2 DEF Repathed
      <3>3. Rebuilt(before, n) = Regrown(node, DOMAIN before, old, new)
        BY <3>1, <3>2, RebuiltBy
      <3> QED
        BY <1>1, <1>3, <3>3
    <2>4. Straight(Rebuilt(before, n))
      BY <1>2, <1>3, <1>5, <2>1, RebuiltStraight DEF Moved
    <2> QED
      BY <2>3, <2>4
  <1> QED
    BY <1>1, <1>6, CalmOn DEF GoesOn

LEMMA CalmAbandon ==
    ASSUME OrgInvariant, Calm, NEW w \in Workers, Abandon(w)
    PROVE  Calm'
  <1>1. /\ ~Idle(w) /\ req' = [req EXCEPT ![w] = NoRequest] /\ node' = node
        /\ disturbed \subseteq disturbed'
        /\ disturbed' = {} => req[w].at \in {"insert", "load", "write"}
    BY Progressing DEF Abandon, Sound, RequestRecord
  <1>2. disturbed' = {} /\ InStep(req[w], node) => Straight(node)
    BY <1>1 DEF InStep
  <1> QED
    BY <1>1, <1>2, CalmOn DEF GoesOn

LEMMA CalmNext == OrgInvariant /\ Calm /\ [OrgNext]_vars => Calm'
  <1> SUFFICES ASSUME OrgInvariant, Calm, [OrgNext]_vars PROVE Calm'
    OBVIOUS
  <1>1. CASE UNCHANGED vars
    BY <1>1 DEF Calm, Quiet, Alone, Idle, vars
  <1>2. ASSUME NEW w \in Workers, Receive(w) \/ Proceed(w) \/ Abandon(w)
        PROVE  Calm'
    <2>1. CASE Receive(w)
      BY <2>1, CalmReceive
    <2>2. CASE Proceed(w)
      BY <2>2, CalmCreate, CalmLoad, CalmWrite, CalmReadNode, CalmReadParent,
         CalmSavePath, CalmSubtree DEF Proceed
    <2>3. CASE Abandon(w)
      BY <2>3, CalmAbandon
    <2> QED
      BY <1>2, <2>1, <2>2, <2>3
  <1> QED
    BY <1>1, <1>2 DEF OrgNext

----------------------------------------------------------------------------
(* The rows still to take after the next one do not name its node.         *)
LEMMA TailEntries ==
    ASSUME NEW b \in BatchRecord, InOrder(b), b.todo # <<>>
    PROVE  \A i \in 1..Len(Tail(b.todo)) :
             /\ i + 1 \in 1..Len(b.todo) /\ Tail(b.todo)[i] = b.todo[i + 1]
             /\ Tail(b.todo)[i][1] # Head(b.todo)[1]
  <1>1. PICK k : k = Taken(b) + 1
    OBVIOUS
  <1>2. /\ k \in 1..Len(b.asked) /\ Head(b.todo) = b.asked[k]
        /\ Len(b.asked) - Len(Tail(b.todo)) = k
        /\ \A i \in 1..Len(Tail(b.todo)) : Tail(b.todo)[i] = b.asked[k + i]
    BY <1>1, NextEntry
  <1>3. b.todo \in Seq(ImportRows) /\ Len(b.asked) \in Nat
    BY DEF BatchRecord
  <1>4. /\ Len(Tail(b.todo)) = Len(b.todo) - 1 /\ Len(b.todo) \in Nat
        /\ \A i \in 1..Len(Tail(b.todo)) : Tail(b.todo)[i] = b.todo[i + 1]
    BY <1>3
  <1> SUFFICES ASSUME NEW i \in 1..Len(Tail(b.todo))
               PROVE  /\ i + 1 \in 1..Len(b.todo) /\ Tail(b.todo)[i] = b.todo[i + 1]
                      /\ Tail(b.todo)[i][1] # Head(b.todo)[1]
    OBVIOUS
  <1>5. PICK a, t : a = Len(b.asked) /\ t = Len(Tail(b.todo))
    OBVIOUS
  <1>6. k + i \in 1..a /\ k + i # k /\ i + 1 \in 1..Len(b.todo)
    <2>1. a \in Nat /\ t \in Nat /\ k \in 1..a /\ a - t = k /\ i \in 1..t
      BY <1>2, <1>3, <1>4, <1>5
    <2>2. t = Len(b.todo) - 1 /\ Len(b.todo) \in Nat
      BY <1>4, <1>5
    <2> QED
      BY <2>1, <2>2
  <1>7. b.asked[k + i][1] # b.asked[k][1]
    BY <1>2, <1>5, <1>6 DEF InOrder
  <1> QED
    BY <1>2, <1>4, <1>6, <1>7

(* The row just taken stays calm, if what it wrote is straight and spares  *)
(* the lives of the others.                                                *)
LEMMA CalmWritten ==
    ASSUME ImportInvariant, Importing, ImportCalm, batch.todo # <<>>,
           NEW n, n = Entry[1], NEW p, NEW view, NEW marks \in SUBSET {"loop", "torn"},
           Writes(n, p, View, view), Written(n, view, marks),
           Straight(View) /\ ToTake(batch, View) /\ marks = {} =>
             /\ Straight(view)
             /\ \A m \in DOMAIN View \ {n} : view[m].live = View[m].live
    PROVE  ImportCalm'
  <1> PICK c : c = batch'
    OBVIOUS
  <1>1. OrgInvariant /\ BatchSound(batch, node) /\ batch \in BatchRecord /\ InOrder(batch)
    BY DEF ImportInvariant, BatchSound
  <1>2. /\ RowDealtWith(batch, c)
        /\ DOMAIN c.byCode = DOMAIN batch.byCode \cup {n}
        /\ \A m \in DOMAIN batch.byCode : c.byCode[m] = batch.byCode[m]
        /\ DOMAIN batch.rows \subseteq DOMAIN c.rows /\ n \in DOMAIN c.rows
        /\ DOMAIN c.rows \subseteq DOMAIN view
        /\ \A m \in DOMAIN c.rows : c.rows[m] = view[m]
        /\ \A m \in DOMAIN View \ DOMAIN c.rows : view[m] = View[m]
    <2> HIDE DEF View
    <2> QED
      BY <1>1, WrittenIs
  <1>3. c.marks = batch.marks \cup marks /\ c.alone = batch.alone /\ c.begun = batch.begun
    BY <1>1 DEF Written, BatchRecord
  <1>4. UNCHANGED vars
    BY Zenon DEF Written
  <1>5. /\ DOMAIN View = DOMAIN node \cup DOMAIN batch.rows
        /\ \A m \in DOMAIN node \ DOMAIN batch.rows : View[m] = node[m]
    BY <1>1, ViewIs
  <1> HIDE DEF View
  <1>6. /\ view = [m \in DOMAIN view |-> view[m]] /\ DOMAIN view = DOMAIN View \cup {n}
        /\ \A m \in DOMAIN View \ {n} : view[m].parent = View[m].parent
    BY RowTableTypes DEF Writes, SoundTable
  <1>7. View' = view
    <2>1. DOMAIN view = DOMAIN node' \cup DOMAIN c.rows
      BY <1>2, <1>4, <1>5, <1>6 DEF vars
    <2>2. \A m \in DOMAIN view :
             view[m] = IF m \in DOMAIN c.rows THEN c.rows[m] ELSE node'[m]
      BY <1>2, <1>4, <1>5, <2>1 DEF vars
    <2>3. View' = [m \in DOMAIN node' \cup DOMAIN c.rows |->
                     IF m \in DOMAIN c.rows THEN c.rows[m] ELSE node'[m]]
      BY DEF View
    <2> QED
      BY <1>6, <2>1, <2>2, <2>3
  <1>8. ASSUME ToTake(batch, View), \A m \in DOMAIN View \ {n} : view[m].live = View[m].live
        PROVE  ToTake(c, view)
    <2> SUFFICES ASSUME NEW i \in 1..Len(c.todo), NEW m, m = c.todo[i][1]
                 PROVE  IF m \in DOMAIN c.byCode
                        THEN /\ m \in DOMAIN view /\ view[m].parent = c.byCode[m].parent
                             /\ view[m].live = c.byCode[m].live
                        ELSE m \notin DOMAIN view
      BY DEF ToTake
    <2>1. /\ i + 1 \in 1..Len(batch.todo) /\ m = batch.todo[i + 1][1] /\ m # n
      BY <1>1, <1>2, TailEntries DEF RowDealtWith, Entry
    <2>2. IF m \in DOMAIN batch.byCode
          THEN /\ m \in DOMAIN View /\ View[m].parent = batch.byCode[m].parent
               /\ View[m].live = batch.byCode[m].live
          ELSE m \notin DOMAIN View
      BY <1>8, <2>1 DEF ToTake
    <2> QED
      BY <1>2, <1>6, <1>8, <2>1, <2>2
  <1>9. begun >= batch.begun /\ (Unspoilt => Quiet /\ Straight(View) /\ ToTake(batch, View))
    BY DEF ImportCalm
  <1>10. begun' >= c.begun
    BY <1>3, <1>4, <1>9 DEF vars
  <1>11. ASSUME Unspoilt' PROVE (Quiet /\ Straight(View) /\ ToTake(batch, View))'
    <2>1. Unspoilt /\ marks = {}
      BY <1>3, <1>4, <1>11 DEF Unspoilt, vars
    <2>2. Straight(view) /\ ToTake(c, view)
      BY <1>8, <1>9, <2>1
    <2>3. Quiet'
      BY <1>4, <1>9, <2>1 DEF Quiet, Idle, vars
    <2> QED
      BY <1>7, <2>2, <2>3
  <1> QED
    BY <1>10, <1>11 DEF ImportCalm

LEMMA CalmNoted ==
    ASSUME ImportInvariant, Importing, ImportCalm, batch.todo # <<>>, UNCHANGED vars,
           NEW failed, batch' = [batch EXCEPT !.todo = Tail(@), !.failed = failed]
    PROVE  ImportCalm'
  <1> PICK c : c = batch'
    OBVIOUS
  <1>1. batch \in BatchRecord /\ InOrder(batch)
    BY DEF ImportInvariant, BatchSound
  <1>2. /\ c.todo = Tail(batch.todo) /\ c.byCode = batch.byCode /\ c.rows = batch.rows
        /\ c.marks = batch.marks /\ c.alone = batch.alone /\ c.begun = batch.begun
    BY <1>1 DEF BatchRecord
  <1>3. View' = View
    BY <1>2 DEF View, vars
  <1> HIDE DEF View
  <1>4. ToTake(batch, View) => ToTake(c, View)
    BY <1>1, <1>2, TailEntries DEF ToTake
  <1>5. begun >= batch.begun /\ (Unspoilt => Quiet /\ Straight(View) /\ ToTake(batch, View))
    BY DEF ImportCalm
  <1>6. begun' >= c.begun
    BY <1>2, <1>5 DEF vars
  <1>7. ASSUME Unspoilt' PROVE (Quiet /\ Straight(View) /\ ToTake(batch, View))'
    <2>1. Unspoilt
      BY <1>2, <1>7 DEF Unspoilt, vars
    <2>2. Quiet'
      BY <1>5, <2>1 DEF Quiet, Idle, vars
    <2> QED
      BY <1>3, <1>4, <1>5, <2>1, <2>2
  <1> QED
    BY <1>6, <1>7 DEF ImportCalm

LEMMA CalmImportUpdate ==
    ASSUME ImportInvariant, Importing, ImportCalm, ImportUpdate
    PROVE  ImportCalm'
  <1> DEFINE n == Entry[1]
             p == Entry[2]
             copy == [batch.byCode[n] EXCEPT !.parent = p]
             row == Overlay(View[n], copy, Differing(copy, View[n]))
             saved == [View EXCEPT ![n] = Overlay(@, copy, Differing(copy, @))]
             moves == batch.byCode[n].parent # p
             view == IF moves THEN Rebuilt(saved, n) ELSE saved
             marks == {k \in {"loop", "torn"} :
                         \/ k = "loop" /\ moves /\ LoopsUnder(View, n, p)
                         \/ k = "torn" /\ copy.path # View[n].path}
  <1>1. /\ batch.todo # <<>> /\ Written(n, view, marks)
        /\ n \in DOMAIN batch.byCode /\ p \in DOMAIN batch.byCode \cup {Root}
    <2>1. Written(n, view, marks)
      BY Zenon DEF ImportUpdate
    <2>2. Runs /\ Known
      BY Zenon DEF ImportUpdate
    <2> HIDE DEF view, marks
    <2> QED
      BY <2>1, <2>2 DEF Runs, Known, ParentFound
  <1>2. OrgInvariant /\ BatchSound(batch, node) /\ batch \in BatchRecord
    BY DEF ImportInvariant, BatchSound
  <1>3. SoundTable(View) /\ DOMAIN View = DOMAIN node \cup DOMAIN batch.rows
    BY <1>2, ViewIs
  <1>4. /\ batch.byCode \in RowTables
        /\ DOMAIN batch.byCode \subseteq DOMAIN View
        /\ SoundRows(batch.byCode, DOMAIN View)
    BY <1>2, <1>3 DEF BatchSound, BatchRecord
  <1> HIDE DEF View
  <1>5. /\ n \in DOMAIN View /\ n \in Ids /\ p \in DOMAIN View \cup {Root}
        /\ p \in Ids \cup {Root} /\ View \in [DOMAIN View -> Row]
        /\ View[n] \in Row /\ EndsIn(View[n].path, n)
        /\ batch.byCode[n] \in Row /\ EndsIn(batch.byCode[n].path, n)
    BY <1>1, <1>3, <1>4, RowTableTypes DEF SoundTable, SoundRows
  <1>6. /\ copy \in Row /\ copy.parent = p /\ copy.live = batch.byCode[n].live
        /\ EndsIn(copy.path, n)
    BY <1>5 DEF Row
  <1> HIDE DEF copy
  <1>7. row = copy
    BY <1>5, <1>6, OverlayWhole
  <1>8. /\ saved = [View EXCEPT ![n] = copy]
        /\ saved = [m \in DOMAIN View \cup {n} |-> IF m = n THEN copy ELSE View[m]]
    BY <1>5, <1>7
  <1> HIDE DEF row, saved
  <1>9. Writes(n, p, View, saved)
    BY <1>3, <1>5, <1>6, <1>8, PutWrites
  <1>10. SoundTable(saved) /\ n \in DOMAIN saved /\ DOMAIN saved = DOMAIN View
    BY <1>5, <1>9 DEF Writes
  <1>11. /\ Writes(n, p, View, Rebuilt(saved, n))
         /\ \A m \in DOMAIN View : Rebuilt(saved, n)[m].live = saved[m].live
    BY <1>5, <1>9, <1>10, RebuiltIs, RewritesWrites DEF RewritesBelow
  <1>12. Writes(n, p, View, view) /\ marks \in SUBSET {"loop", "torn"}
    BY <1>9, <1>11
  <1>13. ASSUME Straight(View), ToTake(batch, View), marks = {}
         PROVE  Straight(view) /\ \A m \in DOMAIN View \ {n} : view[m].live = View[m].live
    <2>1. copy.path = View[n].path /\ (moves => ~LoopsUnder(View, n, p))
      BY <1>13
    <2>2. 1 \in 1..Len(batch.todo) /\ n = batch.todo[1][1]
      BY <1>1, <1>2 DEF BatchRecord, Entry
    <2>3. View[n].parent = batch.byCode[n].parent /\ View[n].live = batch.byCode[n].live
      BY <1>1, <1>13, <2>2 DEF ToTake
    <2>4. \A m \in DOMAIN View \ {n} : saved[m] = View[m]
      BY <1>8
    <2> HIDE DEF marks, n, p
    <2>5. CASE moves
      <3>1. Moved(saved, n)
        BY <1>3, <1>5, <1>6, <1>8, <1>13, <2>1, <2>3, <2>5, PutMoved
      <3>2. Straight(Rebuilt(saved, n))
        BY <1>10, <3>1, RebuiltStraight DEF Moved
      <3> QED
        BY <1>11, <2>4, <2>5, <3>2
    <2>6. CASE ~moves
      <3>1. copy.parent = View[n].parent /\ copy.live = View[n].live
        BY <1>6, <2>3, <2>6
      <3>2. copy = View[n]
        BY <1>5, <1>6, <2>1, <3>1 DEF Row
      <3>3. saved = View
        BY <1>5, <1>8, <3>2
      <3> QED
        BY <1>13, <2>6, <3>3
    <2> QED
      BY <2>5, <2>6
  <1> HIDE DEF view, marks
  <1> QED
    BY <1>1, <1>12, <1>13, CalmWritten

LEMMA CalmImportCreate ==
    ASSUME ImportInvariant, Importing, ImportCalm, ImportCreate
    PROVE  ImportCalm'
  <1> DEFINE n == Entry[1]
             p == Entry[2]
             row == [parent |-> p, path |-> PathIn(View, p, n), live |-> TRUE]
             view == [m \in DOMAIN View \cup {n} |-> IF m = n THEN row ELSE View[m]]
  <1>1. /\ batch.todo # <<>> /\ Written(n, view, {}) /\ n \notin DOMAIN batch.byCode
        /\ p \in DOMAIN batch.byCode \cup {Root}
    BY DEF ImportCreate, Runs, ParentFound, Known
  <1>2. OrgInvariant /\ BatchSound(batch, node) /\ batch \in BatchRecord
    BY DEF ImportInvariant, BatchSound
  <1>3. /\ SoundTable(View) /\ DOMAIN View = DOMAIN node \cup DOMAIN batch.rows
    BY <1>2, ViewIs
  <1>4. Entry \in ImportRows
    BY <1>1, <1>2, NextEntry DEF Entry, BatchSound
  <1>5. n \in Ids /\ p \in DOMAIN View \cup {Root} /\ p \in Ids \cup {Root}
    BY <1>1, <1>2, <1>3, <1>4 DEF BatchSound, ImportRows
  <1> HIDE DEF View
  <1>6. EndsIn(PathIn(View, p, n), n)
    BY <1>3, <1>5, PathInEnds
  <1>7. row \in Row /\ EndsIn(row.path, n) /\ row.parent = p /\ row.path = PathIn(View, p, n)
    BY <1>5, <1>6 DEF Row, EndsIn
  <1> HIDE DEF row
  <1>8. Writes(n, p, View, view)
    BY <1>3, <1>5, <1>7, PutWrites
  <1>9. ASSUME Straight(View), ToTake(batch, View)
        PROVE  Straight(view) /\ \A m \in DOMAIN View \ {n} : view[m].live = View[m].live
    <2>1. 1 \in 1..Len(batch.todo) /\ n = batch.todo[1][1]
      BY <1>1, <1>2 DEF BatchRecord, Entry
    <2>2. n \notin DOMAIN View
      BY <1>1, <1>9, <2>1 DEF ToTake
    <2> HIDE DEF n, p
    <2>3. Straight(view)
      BY <1>3, <1>5, <1>7, <1>9, <2>2, InsertStraight
    <2> QED
      BY <2>3
  <1> HIDE DEF view
  <1> QED
    BY <1>1, <1>8, <1>9, CalmWritten

LEMMA CalmOpenImport ==
    ASSUME ImportInvariant, Calm, NEW payload \in Payloads, NEW upsert \in BOOLEAN,
           OpenImport(payload, upsert)
    PROVE  ImportCalm'
  <1>1. /\ UNCHANGED <<node, req, disturbed>> /\ begun' = begun + Cost(payload)
        /\ batch'.todo = payload /\ batch'.alone = Quiet /\ batch'.begun = begun'
        /\ batch'.byCode = [n \in Named(payload) \cap DOMAIN node |-> node[n]]
        /\ batch'.rows = [n \in {} |-> 0]
    BY DEF OpenImport
  <1>2. DOMAIN payload = 1..Len(payload)
    <2>1. PICK n \in 1..MaxRows : payload \in [1..n -> ImportRows]
      BY DEF Payloads
    <2> QED
      BY <2>1, ImportAssumption
  <1>3. View' = node
    <2>1. View' = [n \in DOMAIN node \cup DOMAIN batch'.rows |->
                     IF n \in DOMAIN batch'.rows THEN batch'.rows[n] ELSE node[n]]
      BY <1>1 DEF View
    <2>2. DOMAIN batch'.rows = {}
      BY <1>1
    <2>3. node = [n \in DOMAIN node |-> node[n]]
      BY DEF ImportInvariant, OrgInvariant, TableShape
    <2> QED
      BY <2>1, <2>2, <2>3
  <1>4. ToTake(batch', node)
    <2>1. \A i \in 1..Len(payload) : payload[i][1] \in Named(payload)
      BY <1>2 DEF Named
    <2> QED
      BY <1>1, <2>1 DEF ToTake
  <1>5. begun' >= batch'.begun
    BY <1>1, OrgAssumption DEF ImportInvariant, OrgInvariant, Cost
  <1>6. ASSUME Unspoilt' PROVE (Quiet /\ Straight(View) /\ ToTake(batch, View))'
    <2>1. Quiet /\ disturbed = {}
      BY <1>1, <1>6 DEF Unspoilt
    <2>2. Straight(node)
      BY <2>1 DEF Calm, Alone, Quiet
    <2>3. Quiet'
      BY <1>1, <2>1 DEF Quiet, Idle
    <2> QED
      BY <1>3, <1>4, <2>2, <2>3
  <1> QED
    BY <1>5, <1>6 DEF ImportCalm

(* Requests are counted when they begin, and only then can all be idle     *)
(* before a step.                                                          *)
LEMMA OrgCounts ==
    ASSUME OrgInvariant, OrgNext
    PROVE  begun' >= begun /\ disturbed \subseteq disturbed' /\ (Quiet => begun' = begun + 1)
  <1>1. begun \in Nat
    BY OrgAssumption DEF OrgInvariant
  <1>2. ASSUME NEW w \in Workers, Receive(w)
        PROVE  begun' = begun + 1 /\ disturbed \subseteq disturbed'
    BY <1>2 DEF Receive, OpenCreate, OpenMove, OpenRename, OpenRemove, Open
  <1>3. ASSUME NEW w \in Workers, Proceed(w) \/ Abandon(w)
        PROVE  begun' = begun /\ ~Idle(w)
    BY <1>3 DEF Proceed, CommitCreate, SaveLoad, SaveWrite, ReadNode, ReadParent,
                SavePath, UpdateSubtree, Abandon, At
  <1>4. ASSUME NEW w \in Workers, Proceed(w) \/ Abandon(w)
        PROVE  disturbed \subseteq disturbed'
    BY <1>4 DEF Proceed, CommitCreate, SaveLoad, SaveWrite, ReadNode, ReadParent,
                SavePath, UpdateSubtree, Abandon
  <1> QED
    BY <1>1, <1>2, <1>3, <1>4 DEF OrgNext, Quiet

LEMMA CalmBesides ==
    ASSUME ImportInvariant, Calm, ImportCalm, Besides
    PROVE  Calm' /\ ImportCalm'
  <1>1. OrgInvariant /\ OrgNext /\ batch' = batch
    BY DEF Besides, ImportInvariant
  <1>2. Calm'
    BY <1>1, CalmNext
  <1>3. /\ begun' >= begun /\ disturbed \subseteq disturbed'
        /\ Quiet => begun' = begun + 1
    BY <1>1, OrgCounts
  <1>4. ASSUME Importing PROVE begun' >= batch.begun /\ ~Unspoilt'
    <2>1. /\ begun >= batch.begun /\ (Unspoilt => Quiet)
          /\ begun \in Nat /\ begun' \in Nat /\ batch.begun \in Nat
      <3>1. OrgInvariant'
        BY <1>1, OrgNextInvariant
      <3> QED
        BY <1>1, <1>4, <3>1, OrgAssumption
        DEF ImportCalm, ImportInvariant, BatchSound, BatchRecord, OrgInvariant
    <2>2. Unspoilt' => Unspoilt /\ begun' = batch.begun
      BY <1>1, <1>3, <2>1 DEF Unspoilt
    <2> QED
      BY <1>3, <2>1, <2>2 DEF Unspoilt
  <1>5. ImportCalm'
    BY <1>1, <1>4 DEF ImportCalm, Importing
  <1> QED
    BY <1>2, <1>5

LEMMA CalmCommit ==
    ASSUME ImportInvariant, Calm, ImportCalm, CommitImport
    PROVE  Calm' /\ ImportCalm'
  <1>1. /\ Importing /\ batch' = NoBatch /\ UNCHANGED <<req, begun>>
        /\ node' = IF batch.failed THEN node ELSE View
        /\ disturbed' =
             disturbed \cup batch.marks
             \cup (IF batch.alone /\ begun = batch.begun THEN {} ELSE {"overlap"})
    BY DEF CommitImport
  <1> HIDE DEF View
  <1>2. ASSUME disturbed' = {} PROVE Quiet' /\ Straight(node')
    <2>1. disturbed = {} /\ Unspoilt
      BY <1>1, <1>2 DEF Unspoilt
    <2>2. Quiet /\ Straight(View)
      BY <1>1, <2>1 DEF ImportCalm
    <2>3. Straight(node)
      BY <2>1, <2>2 DEF Calm, Alone, Quiet
    <2>4. Quiet'
      BY <1>1, <2>2 DEF Quiet, Idle
    <2> QED
      BY <1>1, <2>2, <2>3, <2>4
  <1>3. Calm'
    BY <1>2 DEF Calm
  <1> QED
    BY <1>1, <1>3 DEF ImportCalm, Importing

LEMMA CalmRow ==
    ASSUME ImportInvariant, ImportCalm,
           ImportUpdate \/ ImportCreate \/ ImportSkip \/ ImportFail
    PROVE  ImportCalm'
  <1>1. Importing /\ batch.todo # <<>>
    <2>1. CASE ImportUpdate
      <3>1. Runs
        BY <2>1, Zenon DEF ImportUpdate
      <3> QED
        BY <3>1 DEF Runs
    <2>2. CASE ImportCreate \/ ImportSkip \/ ImportFail
      BY <2>2 DEF ImportCreate, ImportSkip, ImportFail, Runs
    <2> QED
      BY <2>1, <2>2
  <1>2. CASE ImportUpdate
    BY <1>1, <1>2, CalmImportUpdate
  <1>3. CASE ImportCreate
    BY <1>1, <1>3, CalmImportCreate
  <1>4. CASE ImportSkip
    <2>1. batch' = [batch EXCEPT !.todo = Tail(@), !.failed = batch.failed]
      <3>1. batch \in BatchRecord
        BY <1>1 DEF ImportInvariant, BatchSound
      <3> QED
        BY <1>4, <3>1 DEF ImportSkip, BatchRecord
    <2> QED
      BY <1>1, <1>4, <2>1, CalmNoted DEF ImportSkip
  <1>5. CASE ImportFail
    BY <1>1, <1>5, CalmNoted DEF ImportFail
  <1> QED
    BY <1>2, <1>3, <1>4, <1>5, ImportRowStep

LEMMA CalmInit == ImportInit => Calm /\ ImportCalm
  BY DEF ImportInit, OrgInit, Calm, Quiet, Idle, NoRequest, Straight, ImportCalm, Importing

LEMMA CalmImportNext ==
    CalmInvariant /\ [ImportNext]_importVars => CalmInvariant'
  <1> SUFFICES ASSUME ImportInvariant, Calm, ImportCalm, [ImportNext]_importVars
               PROVE  Calm' /\ ImportCalm'
    BY ImportNextInvariant DEF CalmInvariant
  <1>1. OrgInvariant
    BY DEF ImportInvariant
  <1>2. UNCHANGED vars => Calm'
    BY <1>1, CalmNext
  <1>3. CASE UNCHANGED importVars
    <2>1. UNCHANGED vars /\ batch' = batch
      BY <1>3 DEF importVars
    <2>2. View' = View
      BY <2>1 DEF View, vars
    <2> HIDE DEF View
    <2>3. ImportCalm'
      BY <2>1, <2>2 DEF ImportCalm, Importing, Unspoilt, Quiet, Idle, vars
    <2> QED
      BY <1>2, <2>1, <2>3
  <1>4. CASE Besides
    BY <1>4, CalmBesides
  <1>5. CASE \E payload \in Payloads, upsert \in BOOLEAN : OpenImport(payload, upsert)
    <2>1. Calm'
      BY <1>5 DEF OpenImport, Calm, Quiet, Alone, Idle
    <2> QED
      BY <1>5, <2>1, CalmOpenImport
  <1>6. CASE ImportUpdate \/ ImportCreate \/ ImportSkip \/ ImportFail
    BY <1>2, <1>6, CalmRow, ImportRowStep
  <1>7. CASE CommitImport
    BY <1>7, CalmCommit
  <1>8. CASE AbandonImport
    BY <1>2, <1>8 DEF AbandonImport, ImportCalm, Importing
  <1> QED
    BY <1>3, <1>4, <1>5, <1>6, <1>7, <1>8 DEF ImportNext, Import

THEOREM CalmHolds == ImportSpec => []CalmInvariant
  <1>1. ImportInit => CalmInvariant
    BY CalmInit, ImportInitInvariant DEF CalmInvariant
  <1> QED
    BY <1>1, CalmImportNext, PTL DEF ImportSpec

----------------------------------------------------------------------------
(* The two ways to the nodes below: paths, and parents.                    *)
LEMMA LiveBelowLeast ==
    ASSUME NEW S \in SUBSET DOMAIN node, NEW T \in SUBSET DOMAIN node, S \subseteq T,
           \A m \in DOMAIN node : node[m].live /\ node[m].parent \in T => m \in T
    PROVE  LiveBelow(S) \subseteq T
  BY DEF LiveBelow

LEMMA LiveBelowClosed ==
    ASSUME NEW S \in SUBSET DOMAIN node
    PROVE  /\ S \subseteq LiveBelow(S)
           /\ \A m \in DOMAIN node :
                node[m].live /\ node[m].parent \in LiveBelow(S) => m \in LiveBelow(S)
  BY DEF LiveBelow

(* The live child of a live node has its path, and itself.                 *)
LEMMA LiveChild ==
    ASSUME OrgInvariant, Straight(node), NEW m \in Live, NEW q \in Live, node[m].parent = q
    PROVE  node[m].path = Append(node[q].path, m)
  <1>1. q # Root
    BY OrgAssumption DEF Live, OrgInvariant, TableShape, Root
  <1> QED
    BY <1>1 DEF Live, Straight, Fits, PathIn

LEMMA StraightAgrees ==
    ASSUME OrgInvariant, Straight(node), NEW S \in SUBSET DOMAIN node
    PROVE  /\ OutletNodes(S) \subseteq DistributorNodes(S)
           /\ DistributorNodes(S) \cap Attached \subseteq OutletNodes(S)
  <1>1. \A m \in DOMAIN node : /\ m \in Ids /\ node[m].path \in Seq(Ids)
                               /\ Len(node[m].path) > 0
    BY DEF OrgInvariant, TableShape, EndsIn
  <1>2. \A m, r \in DOMAIN node : node[m].path = node[r].path => m = r
    BY DEF OrgInvariant, TableShape, EndsIn
  <1>3. S \cap Live \subseteq DOMAIN node /\ Live \subseteq DOMAIN node
    BY DEF Live
  <1>4. OutletNodes(S) \subseteq DistributorNodes(S)
    <2> DEFINE T == DistributorNodes(S)
    <2>1. T \subseteq Live
      BY DEF DistributorNodes, Subtree
    <2>2. S \cap Live \subseteq T
      BY <1>1, <1>3, BelowItself DEF DistributorNodes, Subtree
    <2>3. ASSUME NEW m \in DOMAIN node, node[m].live, node[m].parent \in T
          PROVE  m \in T
      <3> PICK q : q = node[m].parent
        OBVIOUS
      <3>1. PICK r \in S \cap Live : q \in Live /\ Below(node[r].path, node[q].path)
        BY <2>3 DEF DistributorNodes, Subtree
      <3>2. m \in Live
        BY <2>3 DEF Live
      <3>3. node[m].path = Append(node[q].path, m)
        BY <3>1, <3>2, LiveChild
      <3>4. Below(node[r].path, node[m].path)
        BY <1>1, <1>3, <3>1, <3>3, BelowAppend
      <3> QED
        BY <3>1, <3>2, <3>4 DEF DistributorNodes, Subtree
    <2> HIDE DEF T
    <2>4. LiveBelow(S \cap Live) \subseteq T
      BY <1>3, <2>1, <2>2, <2>3, LiveBelowLeast
    <2> QED
      BY <2>4 DEF OutletNodes, T
  <1>5. DistributorNodes(S) \cap Attached \subseteq OutletNodes(S)
    <2> DEFINE O == OutletNodes(S)
               Roots == {m \in Live : node[m].parent = Root}
               U == {m \in Live : \A r \in S \cap Live :
                                    Below(node[r].path, node[m].path) => m \in O}
    <2>1. /\ S \cap Live \subseteq O
          /\ \A m \in DOMAIN node : node[m].live /\ node[m].parent \in O => m \in O
      BY <1>3, LiveBelowClosed DEF OutletNodes
    <2> HIDE DEF O
    <2>2. Roots \subseteq U
      <3> SUFFICES ASSUME NEW m \in Live, node[m].parent = Root, NEW r \in S \cap Live,
                          Below(node[r].path, node[m].path)
                   PROVE  m \in O
        OBVIOUS
      <3>1. node[m].path = <<m>>
        BY <1>3 DEF Straight, Fits, PathIn, Live
      <3>2. node[r].path = node[m].path
        BY <1>1, <1>3, <3>1, BelowOne
      <3> QED
        BY <1>2, <1>3, <2>1, <3>2
    <2>3. ASSUME NEW m \in DOMAIN node, node[m].live, node[m].parent \in U
          PROVE  m \in U
      <3> PICK q : q = node[m].parent
        OBVIOUS
      <3>1. m \in Live /\ q \in Live
        BY <2>3 DEF Live
      <3>2. node[m].path = Append(node[q].path, m)
        BY <3>1, LiveChild
      <3>3. ASSUME NEW r \in S \cap Live, Below(node[r].path, node[m].path)
            PROVE  m \in O
        <4>1. Below(node[r].path, node[q].path) \/ node[r].path = node[m].path
          BY <1>1, <1>3, <3>1, <3>2, <3>3, BelowAppend
        <4>2. CASE Below(node[r].path, node[q].path)
          BY <2>1, <2>3, <4>2
        <4>3. CASE node[r].path = node[m].path
          BY <1>2, <1>3, <2>1, <4>3
        <4> QED
          BY <4>1, <4>2, <4>3
      <3> QED
        BY <3>1, <3>3
    <2>4. U \subseteq DOMAIN node /\ Roots \subseteq DOMAIN node
      BY <1>3
    <2> HIDE DEF U
    <2>5. LiveBelow(Roots) \subseteq U
      BY <2>2, <2>3, <2>4, LiveBelowLeast
    <2>6. Attached \subseteq U
      BY <2>5 DEF Attached
    <2> SUFFICES ASSUME NEW n \in DistributorNodes(S), n \in Attached PROVE n \in O
      BY DEF O
    <2>7. PICK r \in S \cap Live : n \in Live /\ Below(node[r].path, node[n].path)
      BY DEF DistributorNodes, Subtree
    <2> QED
      BY <2>6, <2>7 DEF U
  <1> QED
    BY <1>4, <1>5

(* Once requests and imports come one by one, run to their end and move no *)
(* node to a parent whose path goes through it, the lists that select by   *)
(* path and those that follow the parents agree.                           *)
THEOREM QueriesAgree == ImportSpec => []ExpansionsAgree
  <1>1. CalmInvariant => ExpansionsAgree
    <2> SUFFICES ASSUME CalmInvariant, Quiet, disturbed = {} PROVE ExpansionsAgree
      BY DEF ExpansionsAgree
    <2>1. OrgInvariant /\ Straight(node)
      BY DEF CalmInvariant, ImportInvariant, Calm, Alone, Quiet
    <2> QED
      BY <2>1, StraightAgrees DEF ExpansionsAgree
  <1> QED
    BY <1>1, CalmHolds, PTL
=============================================================================
