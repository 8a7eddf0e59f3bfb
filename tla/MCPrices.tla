------------------------------ MODULE MCPrices ------------------------------
(* A default and a scoped list, two requests at a time: on their items, or  *)
(* on lists and scopes while orders are priced.                             *)
EXTENDS PriceLists, TLC

Line(from, to) == [from |-> from, to |-> to]
To(list, dist, org, type, from) ==
    [list |-> list, dist |-> dist, org |-> org, type |-> type, active |-> TRUE,
     from |-> from, to |-> Forever]
List(default) == [default |-> default, active |-> TRUE, live |-> TRUE]
ItemOf(list, from) == [list |-> list, from |-> from, to |-> Forever, live |-> TRUE]

MCPayloads == { <<Line(1, 1), Line(2, Keep)>>, <<Line(1, 2)>> }
MCImports == { <<Line(None, 1), Line(2, 2)>> }
Buyer(dist, org, type) == [dist |-> dist, org |-> org, type |-> type]
MCContexts == {Buyer(0, 0, 0), Buyer(1, 0, 0), Buyer(1, 1, 1), Buyer(2, 1, 1), Buyer(0, 1, 0)}

OfList1(default) == [table |-> "lists", list |-> 1, row |-> List(default)]
OfScope(row) == [table |-> "scopes", row |-> row]
MCWorkbooks == {
    <<OfList1(FALSE), OfScope(To(1, 1, 0, 0, 1))>>,
    <<OfScope(To(2, 1, 1, 1, 1)), OfScope([To(2, 0, 1, 1, 0) EXCEPT !.to = 1])>>,
    <<OfScope(To(2, 1, 1, 1, 2))>> }

MCNewScopes == {To(1, 2, 0, 0, 0), To(2, 1, 1, 1, 1)}

MCStarts == {
    [about |-> "items", items |-> NoRows, lists |-> 1 :> List(TRUE) @@ 2 :> List(FALSE),
     scopes |-> 1 :> To(2, 0, 0, 0, 2) @@ 2 :> To(2, 1, 0, 0, 0)],
    [about |-> "lists", items |-> 1 :> ItemOf(1, 1) @@ 2 :> ItemOf(2, 1),
     lists |-> 2 :> List(FALSE),
     scopes |-> 1 :> To(2, 1, 0, 0, 0) @@ 2 :> To(2, 0, 1, 1, 1)] }

WorkerSymmetry == Permutations(Workers)
=============================================================================
