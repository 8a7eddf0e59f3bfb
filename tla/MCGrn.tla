------------------------------- MODULE MCGrn -------------------------------
(* One note of up to two lines, two warehouses and two SKUs, and two       *)
(* requests at a time.                                                     *)
EXTENDS Grn, TLC

CONSTANTS h1, h2, s1, s2

MCKeys == {h1, h2} \X {s1, s2}
MCInitLots == <<>>
MCInitOnHand == [k \in MCKeys |-> 0]

Of(line, qty) == [line |-> line, qty |-> qty]

(* A note of one line; updates that expect less and add a line, or change  *)
(* the SKU; receipts of half the line and of the whole.                    *)
GrowingNote ==
    { 1 :> [sku |-> s1, expected |-> 2],
      1 :> [expected |-> 1] @@ 2 :> [sku |-> s1],
      1 :> [sku |-> s2] }
FirstLineReceipts == { <<Of(1, 1)>>, <<Of(1, 2)>> }
FirstLineRequests ==
    {StockLines(h, 1 :> [sku |-> s], r) : h \in {h1, h2}, s \in {s1, s2},
                                          r \in FirstLineReceipts}

Symmetry ==
    {p @@ q : p \in Permutations(Workers), q \in Permutations(Warehouses)}
============================================================================
