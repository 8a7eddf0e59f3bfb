---------------------------- MODULE MCMasterData ----------------------------
(* Each behaviour is about one table or two that belong together, with a   *)
(* row or two at the start.                                                *)
EXTENDS MasterData, TLC

Empty == [t \in Tables |-> <<>>]

(* Tables with these rows, and requests about the tables asked.            *)
Start(asks, tables) ==
    [asked |-> asks, rows |-> tables @@ Empty]

MCFirstRows ==
    { Start({"brand", "sku"}, [brand |-> <<Entry("A")>>, sku |-> <<SkuEntry("A", 1, 0, 0)>>]),
      Start({"category", "subCategory"},
            [category |-> <<Entry("A")>>, subCategory |-> <<SubEntry("A", 1)>>]),
      Start({"distributor"},
            [distributor |-> <<Distributor("A", Primary, 0)>>]),
      Start({"distributor"},
            [distributor |-> <<Distributor("A", Primary, 0), Distributor("B", Primary, 0),
                               Distributor("C", Primary, 0)>>]),
      Start({"warehouse"},
            [distributor |-> <<Distributor("A", Primary, 0)>>,
             warehouse |-> <<Warehouse("A", Owner(Primary, 1), TRUE)>>]),
      Start({"policy"}, [policy |-> <<Policy("A", 1, 2)>>]),
      Start({"route"}, [orgNode |-> <<Entry("A")>>, route |-> <<Route("A", 1, 1, 2)>>]),
      Start({"outlet"}, [outlet |-> <<>>]),
      Start({"company"}, [company |-> <<CompanyRow("A")>>]) }
=============================================================================
