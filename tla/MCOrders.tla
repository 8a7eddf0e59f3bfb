------------------------------ MODULE MCOrders ------------------------------
(* One order and two requests at a time.  The two line lists need one unit *)
(* or, in two lines, two units of a stock of two: after one issue the      *)
(* other list fails at its second line.                                    *)
EXTENDS Orders, TLC

CONSTANT k1

MCKeys == {k1}
MCInitLots == 1 :> [key |-> k1, rank |-> 1, avail |-> 2]
MCInitOnHand == k1 :> 2

Out(k, qty) == [dir |-> "out", key |-> k, qty |-> qty, rank |-> 0]
MCRequests == { <<Out(k1, 1)>>, <<Out(k1, 1), Out(k1, 1)>> }
============================================================================
