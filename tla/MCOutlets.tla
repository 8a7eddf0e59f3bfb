----------------------------- MODULE MCOutlets -----------------------------
(* Two outlets and two requests at a time.  The lists map an outlet from   *)
(* each of three days, for good or for two of them, the other outlet, and  *)
(* both in either order, so that requests can lock each other out.         *)
EXTENDS OutletMaps, TLC

CONSTANTS o1, o2

From(o, day, to) == [outlet |-> o, from |-> day, to |-> to]
MCOutletSet == {o1, o2}
MCLists ==
    { <<From(o1, 1, 2)>>, <<From(o1, 2, Forever)>>, <<From(o1, 3, Forever)>>,
      <<From(o2, 1, Forever)>>,
      <<From(o1, 3, Forever), From(o2, 1, Forever)>>,
      <<From(o2, 1, Forever), From(o1, 3, Forever)>> }
============================================================================
