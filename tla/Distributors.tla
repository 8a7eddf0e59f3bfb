---------------------------- MODULE Distributors ----------------------------
(***************************************************************************)
(* Distributors, a SUB under a PRIMARY one; the warehouses of the company  *)
(* and of distributors, one of them the owner's default; and the policies  *)
(* for a distributor's stock of a SKU.                                     *)
(***************************************************************************)
EXTENDS MasterRows

CONSTANT
    Quantities      \* of a policy, with Unlimited as the greatest

VARIABLE
    carried     \* history: owners that got a default warehouse unasked

Company == "company"    \* owner types; those of a distributor are its type
Primary == "primary"
Sub == "sub"
Unlimited == 9          \* maxQty NULL; a minQty of NULL is 0

ASSUME QuantitiesAssumption == Quantities \subseteq 0..Unlimited

Distributor(code, type, parent) ==
    [code |-> code, status |-> Active, deleted |-> FALSE,
     type |-> type, parent |-> parent]
Warehouse(code, owner, default) ==
    [code |-> code, status |-> Active, deleted |-> FALSE,
     owner |-> owner, default |-> default]
Policy(key, lo, hi) ==
    [code |-> key, status |-> Active, deleted |-> FALSE, lo |-> lo, hi |-> hi]

Kept == UNCHANGED carried

----------------------------------------------------------------------------
(* assertParentValid.                                                      *)
ParentFits(type, parent) == (type = Sub) <=> (parent # None)

(* Mutant: any active distributor can be a parent.                         *)
ParentRefsAny(type, parent) ==
    IF type = Sub THEN {Ref("distributor", parent, [status |-> Active])} ELSE {}

ParentRefs(type, parent) ==
    IF type = Sub THEN {Ref("distributor", parent, [status |-> Active, type |-> Primary])}
    ELSE {}

CreateDistributor(w) == \E c \in Codes, type \in {Primary, Sub}, p \in All("distributor") \cup {None} :
    /\ ParentFits(type, p)
    /\ OpenInsert(w, "distributor", Distributor(c, type, p), ParentRefs(type, p), TRUE,
                  <<"code", "refs">> \o Insert)
    /\ Kept

(* What update checks: a parent of null in the request counts as none in   *)
(* the request, although it is then saved.                                 *)
ParentChecked(row, patch) ==
    IF "parent" \in DOMAIN patch /\ patch.parent # None THEN patch.parent
    ELSE row.parent

UpdatePlace(w) ==
    \E i \in Live("distributor"), type \in {Primary, Sub}, p \in All("distributor") \cup {None} :
      \E patch \in {[type |-> type], [parent |-> p], [type |-> type, parent |-> p]} :
        LET row == rows["distributor"][i]
            checked == ParentChecked(row, patch)
            kind == Patched(row, patch).type
        IN  /\ ParentFits(kind, checked)
            /\ OpenSave(w, "distributor", i, patch, ParentRefs(kind, checked), TRUE,
                        <<"refs">> \o Save)

UpdateDistributor(w) ==
    /\ \/ UpdatePlace(w)
       \/ \E i \in Live("distributor"), patch \in {[code |-> c] : c \in Codes} :
            OpenSave(w, "distributor", i, patch, {}, TRUE, <<"code">> \o Save)
    /\ Kept

(* inactivate, activate; update with a status.                             *)
ActivateDistributor(w) == \E i \in Live("distributor"), s \in Status :
    /\ OpenSave(w, "distributor", i, [status |-> s], {}, TRUE, Save)
    /\ Kept

----------------------------------------------------------------------------
Owner(type, id) == [type |-> type, id |-> id]
Owners == {Owner(type, i) : type \in {Primary, Sub}, i \in All("distributor")}
            \cup {Owner(Company, None)}

(* assertValidOwner.                                                       *)
OwnerRefs(owner) ==
    IF owner.type = Company THEN {}
    ELSE {Ref("distributor", owner.id,
              [deleted |-> FALSE, status |-> Active, type |-> owner.type])}

Defaulted(default) == IF default THEN <<"unset">> ELSE <<>>

CreateWarehouse(w) == \E c \in Codes, o \in Owners, d \in BOOLEAN :
    /\ OpenInsert(w, "warehouse", Warehouse(c, o, d), OwnerRefs(o), FALSE,
                  <<"refs", "code">> \o Defaulted(d) \o Insert)
    /\ Kept

(* A new owner: unless the request says otherwise, the warehouse comes     *)
(* with its default.                                                       *)
UpdateOwner(w) == \E i \in Live("warehouse"), o \in Owners :
    \E patch \in {[owner |-> o], [owner |-> o, default |-> TRUE], [owner |-> o, default |-> FALSE]} :
      LET named == "default" \in DOMAIN patch
      IN  /\ OpenSave(w, "warehouse", i, patch, OwnerRefs(o), FALSE,
                      <<"refs">> \o Defaulted(named /\ patch.default) \o Save)
          /\ carried' = IF ~named /\ rows["warehouse"][i].default THEN carried \cup {o}
                        ELSE carried

UpdateWarehouse(w) ==
    \/ UpdateOwner(w)
    \/ \E i \in Live("warehouse"), s \in Status :
         OpenSave(w, "warehouse", i, [status |-> s], {}, FALSE, Save) /\ Kept
    \/ \E i \in Live("warehouse"), c \in Codes, d \in BOOLEAN :
       \E patch \in {[code |-> c], [default |-> d], [code |-> c, default |-> d]} :
         /\ OpenSave(w, "warehouse", i, patch, {}, FALSE,
                     Defaulted("default" \in DOMAIN patch /\ d)
                     \o (IF "code" \in DOMAIN patch THEN <<"code">> ELSE <<>>) \o Save)
         /\ Kept

MakeDefault(w) == \E i \in Live("warehouse") :
    /\ OpenSave(w, "warehouse", i, [default |-> TRUE], {}, FALSE,
                <<"unset">> \o Save)
    /\ Kept

RemoveWarehouse(w) == \E i \in Live("warehouse") :
    /\ OpenSave(w, "warehouse", i, [deleted |-> TRUE], {}, FALSE, Save)
    /\ Kept

(* Mutant: every warehouse of the owner stays a default.                   *)
OtherDefaultsNone(w) == {}

OtherDefaults(w) ==
    {i \in Live("warehouse") \ {req[w].id} :
       /\ rows["warehouse"][i].owner = req[w].entity.owner
       /\ rows["warehouse"][i].default}

WithoutOthers(w) ==
    [i \in All("warehouse") |->
       [rows["warehouse"][i] EXCEPT !.default = @ /\ i \notin OtherDefaults(w)]]

UnsetOtherDefaults(w) ==
    /\ Doing(w, "unset")
    /\ Done(w)
    /\ rows' = [rows EXCEPT !["warehouse"] = WithoutOthers(w)]
    /\ UNCHANGED <<begun, asked, stale, carried>>

----------------------------------------------------------------------------
(* validateMinMax; an update checks what comes with what it read.          *)
CreatePolicy(w) == \E key \in Codes, lo, hi \in Quantities :
    /\ lo <= hi
    /\ OpenInsert(w, "policy", Policy(key, lo, hi), {}, FALSE, Insert)
    /\ Kept

UpdatePolicy(w) == \E i \in Live("policy"), q \in Quantities, s \in Status :
    \E patch \in {[lo |-> q], [hi |-> q], [status |-> s]} :
      /\ Patched(rows["policy"][i], patch).lo <= Patched(rows["policy"][i], patch).hi
      /\ OpenSave(w, "policy", i, patch, {}, FALSE, Save)
      /\ Kept

SoftDeletePolicy(w) == \E i \in Live("policy") :
    /\ OpenSave(w, "policy", i, [deleted |-> TRUE], {}, FALSE, Save)
    /\ Kept

DistributorsBegin(w) ==
    \/ CreateDistributor(w) \/ UpdateDistributor(w) \/ ActivateDistributor(w)
    \/ CreateWarehouse(w) \/ UpdateWarehouse(w) \/ MakeDefault(w) \/ RemoveWarehouse(w)
    \/ CreatePolicy(w) \/ UpdatePolicy(w) \/ SoftDeletePolicy(w)
=============================================================================
