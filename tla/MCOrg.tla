------------------------------- MODULE MCOrg -------------------------------
(* The requests and imports start from any tree of up to three nodes, as   *)
(* creations leave them, so that a moved node can have a child and a       *)
(* destination; a fourth node can be created.  Another start has a removed *)
(* node.  Two requests at a time, beside an import.                        *)
EXTENDS OrgImport, TLC

WorkerSymmetry == Permutations(Workers)

Trees ==
    UNION {{p \in [1..k -> 0..2] : \A n \in 1..k : p[n] < n} : k \in 0..3}

PathOf(tree, n) ==
    LET f[m \in 0..3] == IF m = Root THEN <<>> ELSE Append(f[tree[m]], m) IN f[n]

(* Node 3 was removed and its parent moved: it kept the path through 1.    *)
Lagging == << [parent |-> 0, path |-> <<1>>, live |-> TRUE],
              [parent |-> 0, path |-> <<2>>, live |-> TRUE],
              [parent |-> 2, path |-> <<1, 2, 3>>, live |-> FALSE],
              [parent |-> 1, path |-> <<1, 4>>, live |-> TRUE] >>

MCInit ==
    /\ \/ \E tree \in Trees :
            node = [n \in DOMAIN tree |->
                      [parent |-> tree[n], path |-> PathOf(tree, n), live |-> TRUE]]
       \/ node = Lagging
    /\ req = [w \in Workers |-> NoRequest]
    /\ begun = 0
    /\ disturbed = {}
    /\ batch = NoBatch

MCSpec == MCInit /\ [][ImportNext]_importVars
=============================================================================
