--------------------------- MODULE MCStockLedger ---------------------------
(* Two requests at a time on two keys.  Key k1 has two lots received in    *)
(* the opposite order of their expiry; the requests need part of a lot,    *)
(* more than a lot, both keys in the two orders (so that row locks can     *)
(* deadlock), the same key twice, and a receipt.                           *)
EXTENDS StockLedger, TLC

CONSTANTS k1, k2

MCKeys == {k1, k2}

Row(k, rank, avail) == [key |-> k, rank |-> rank, avail |-> avail]
MCInitLots == 1 :> Row(k1, 2, 1) @@ 2 :> Row(k1, 1, 2) @@ 3 :> Row(k2, 1, 2)
MCInitOnHand == k1 :> 3 @@ k2 :> 2

In(k, qty, rank) == [dir |-> "in", key |-> k, qty |-> qty, rank |-> rank]
Out(k, qty) == [dir |-> "out", key |-> k, qty |-> qty, rank |-> 0]

MCRequests ==
    { <<Out(k1, 1)>>,
      <<Out(k1, 2), Out(k2, 1)>>,
      <<Out(k2, 1), Out(k1, 1)>>,
      <<Out(k1, 1), Out(k1, 1)>>,
      <<In(k1, 1, 1)>> }

WorkerSymmetry == Permutations(Workers)
============================================================================
