------------------------------ MODULE MCSchemes ------------------------------
(* Two schemes of a rule each; a third rule may be created or imported.    *)
EXTENDS Schemes

MCScheme(code, priority, stack) ==
    [key |-> <<code>>, priority |-> priority, stack |-> stack, active |-> TRUE]
MCRule(code, sort, buy, qty, amount, percent, off) ==
    [key |-> <<code, sort>>, buy |-> buy, minQty |-> qty, minAmount |-> amount,
     free |-> NULL, percent |-> percent, off |-> off]
Buy(sku, qty, price) == [sku |-> sku, qty |-> qty, price |-> price]

MCStored == << MCScheme(1, 0, FALSE), MCRule(1, 1, NULL, 0, NULL, 10, 3),
               MCScheme(2, 0, TRUE), MCRule(2, 2, 7, 2, NULL, NULL, 5) >>
FreeGoods == [MCRule(2, 1, 7, NULL, 6, NULL, NULL) EXCEPT !.free = 1]
MCNewRows == { FreeGoods }
MCPatches == { [percent |-> 0], [off |-> 0, stack |-> TRUE],
               [sort |-> 1, active |-> FALSE] }
MCWorkbooks == {
    << MCScheme(2, 1, FALSE), MCRule(1, 1, NULL, 0, NULL, NULL, 2),
       MCRule(2, 1, 9, 1, NULL, 50, NULL) >>,
    << FreeGoods, MCRule(1, 1, NULL, 0, NULL, 10, 3) >> }
MCOrders == { << Buy(7, 1, 5), Buy(8, 2, 10), Buy(7, 2, 2) >> }

WorkerSymmetry == Permutations(Workers)
=============================================================================
