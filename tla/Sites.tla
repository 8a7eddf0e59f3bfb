------------------------------- MODULE Sites -------------------------------
(***************************************************************************)
(* Routes of a territory, outlets and companies.  Their services find      *)
(* deleted rows as they do live ones: a deleted row can be updated and     *)
(* deleted again.  Deletion leaves the status.                             *)
(***************************************************************************)
EXTENDS MasterRows

CONSTANTS LastDay       \* bound: the days are 1..LastDay

Days == 1..LastDay
Forever == LastDay + 1  \* effective_to NULL

ASSUME SitesAssumption == LastDay \in Nat

Route(code, territory, from, to) ==
    [code |-> code, status |-> Active, deleted |-> FALSE,
     territory |-> territory, from |-> from, to |-> to]
Outlet(code) == [code |-> code, status |-> Inactive, deleted |-> FALSE]
CompanyRow(code) == [code |-> code, status |-> Active, deleted |-> FALSE]

Removed == [deleted |-> TRUE]

(* ensureEffectiveWindow.                                                  *)
Window(row) == row.from <= row.to

(* ensureTerritory: the org node is there, deleted or not.                 *)
Territory(id) == {Ref("orgNode", id, Nothing)}

CreateRoute(w) == \E c \in Codes, t \in All("orgNode"), from \in Days, to \in Days \cup {Forever} :
    LET route == Route(c, t, from, to)
    IN  /\ Window(route)
        /\ OpenInsert(w, "route", route, Territory(t), TRUE, <<"refs">> \o Insert)

UpdateRoute(w) ==
    \/ \E i \in All("route"), t \in All("orgNode") :
         OpenSave(w, "route", i, [territory |-> t], Territory(t), TRUE, <<"refs">> \o Save)
    \/ \E i \in All("route"), d \in Days \cup {Forever}, s \in Status :
       \E patch \in {[from |-> d], [to |-> d], [status |-> s]} :
         /\ patch # [from |-> Forever]
         /\ Window(Patched(rows["route"][i], patch))
         /\ OpenSave(w, "route", i, patch, {}, TRUE, Save)

RemoveRoute(w) == \E i \in All("route") :
    OpenSave(w, "route", i, Removed, {}, TRUE, Save)

CreateOutlet(w) == \E c \in Codes :
    OpenInsert(w, "outlet", Outlet(c), {}, TRUE, Insert)

(* bulkCreate: no live outlet may have one of the codes; then one INSERT,  *)
(* which a deleted outlet's code makes fail.                               *)
BulkCreateOutlets(w) == \E a, b \in Codes :
    /\ a # b
    /\ Len(rows["outlet"]) + Inserting("outlet") + 2 <= MaxRows
    /\ Open(w, Request("outlet", None, <<Outlet(a), Outlet(b)>>, {}, FALSE,
                       <<"codes", "insertAll">>))

HasCode(w, among) ==
    \E i \in among, j \in DOMAIN req[w].entity :
        rows["outlet"][i].code = req[w].entity[j].code

CheckCodes(w) == Check(w, "codes", ~HasCode(w, Live("outlet")))

InsertAll(w) ==
    /\ Doing(w, "insertAll")
    /\ IF HasCode(w, All("outlet")) THEN UNCHANGED rows
       ELSE rows' = [rows EXCEPT !["outlet"] = @ \o req[w].entity]
    /\ End(w)
    /\ UNCHANGED <<begun, asked, stale>>

(* Mutant: a change of status brings a deleted outlet back.                *)
UpdateOutletRevives(w) ==
    \/ \E i \in All("outlet"), c \in Codes :
         OpenSave(w, "outlet", i, [code |-> c], {}, TRUE, <<"code">> \o Save)
    \/ \E i \in All("outlet"), s \in Status :
         OpenSave(w, "outlet", i, [status |-> s, deleted |-> FALSE], {}, TRUE, Save)

UpdateOutlet(w) ==
    \/ \E i \in All("outlet"), c \in Codes :
         OpenSave(w, "outlet", i, [code |-> c], {}, TRUE, <<"code">> \o Save)
    \/ \E i \in All("outlet"), s \in Status :
         OpenSave(w, "outlet", i, [status |-> s], {}, TRUE, Save)

RemoveOutlet(w) == \E i \in All("outlet") :
    OpenSave(w, "outlet", i, Removed, {}, TRUE, Save)

CreateCompany(w) == \E c \in Codes :
    OpenInsert(w, "company", CompanyRow(c), {}, TRUE, Insert)

UpdateCompany(w) == \E i \in All("company"), s \in Status :
    OpenSave(w, "company", i, [status |-> s], {}, TRUE, Save)

RemoveCompany(w) == \E i \in All("company") :
    OpenSave(w, "company", i, Removed, {}, TRUE, Save)

SitesBegin(w) ==
    \/ CreateRoute(w) \/ UpdateRoute(w) \/ RemoveRoute(w)
    \/ CreateOutlet(w) \/ BulkCreateOutlets(w) \/ UpdateOutlet(w) \/ RemoveOutlet(w)
    \/ CreateCompany(w) \/ UpdateCompany(w) \/ RemoveCompany(w)
=============================================================================
