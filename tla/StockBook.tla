----------------------------- MODULE StockBook -----------------------------
(***************************************************************************)
(* What the stock module promises its callers: the on-hand quantities      *)
(* change only by whole requests, every line of one or none of it, and no  *)
(* quantity is ever negative.  StockLedger, where a request is many        *)
(* statements interleaved with those of others, implements it.             *)
(***************************************************************************)
EXTENDS Integers, Sequences, Functions

CONSTANTS Keys, Requests

VARIABLE book

(* What posting a line, and all the lines of a request, adds to a key.     *)
LineEffect(line, k) ==
    IF line.key # k THEN 0 ELSE IF line.dir = "in" THEN line.qty ELSE -line.qty

Effect(request, k) ==
    SumFunctionOnSet([i \in DOMAIN request |-> LineEffect(request[i], k)],
                     DOMAIN request)

BookInit == book \in [Keys -> Nat]

Post(request) ==
    /\ book' = [k \in Keys |-> book[k] + Effect(request, k)]
    /\ \A k \in Keys : book'[k] >= 0

BookSpec == BookInit /\ [][\E request \in Requests : Post(request)]_book
============================================================================
