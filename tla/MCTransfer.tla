----------------------------- MODULE MCTransfer -----------------------------
(* Two lines with an SKU each.  The first SKU's stock at the centre is in  *)
(* two lots, received in the opposite order of their expiry.               *)
EXTENDS Transfer, TLC

CONSTANTS c1, c2, d1, d2    \* stock keys at the centre and the distributor

MCKeys == {c1, c2, d1, d2}
MCFromKey == 1 :> c1 @@ 2 :> c2
MCToKey == 1 :> d1 @@ 2 :> d2
Lot1(k, rank, avail) == [key |-> k, rank |-> rank, avail |-> avail]
MCInitLots == 1 :> Lot1(c1, 2, 1) @@ 2 :> Lot1(c1, 1, 1) @@ 3 :> Lot1(c2, 1, 1)
MCInitOnHand == c1 :> 2 @@ c2 :> 1 @@ d1 :> 0 @@ d2 :> 0

Of(line, qty) == [line |-> line, qty |-> qty]
MCPlans == { <<Of(1, 2)>>, <<Of(1, 1), Of(2, 1)>> }
MCReceipts == { <<Of(1, 1)>>, <<Of(2, 1)>>, <<Of(1, 1), Of(2, 1)>>,
                <<Of(2, 1), Of(1, 1)>> }
MCRequests == {Dispatched(p) : p \in MCPlans} \cup {BroughtIn(r) : r \in MCReceipts}

(* For liveness: both lines dispatched, received in either order.          *)
LivePlans == { <<Of(1, 1), Of(2, 1)>> }
LiveReceipts == { <<Of(1, 1), Of(2, 1)>>, <<Of(2, 1), Of(1, 1)>> }
LiveRequests ==
    {Dispatched(p) : p \in LivePlans} \cup {BroughtIn(r) : r \in LiveReceipts}

WorkerSymmetry == Permutations(Workers)
=============================================================================
