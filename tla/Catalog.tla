------------------------------ MODULE Catalog ------------------------------
(***************************************************************************)
(* Brands, categories, sub-categories and SKUs.  A name, a description or  *)
(* a size that a request brings is not kept: its save then writes back     *)
(* only what another request changed in between.                           *)
(***************************************************************************)
EXTENDS MasterRows

Entry(code) == [code |-> code, status |-> Active, deleted |-> FALSE]
SubEntry(code, category) ==
    [code |-> code, status |-> Active, deleted |-> FALSE, category |-> category]
SkuEntry(code, brand, category, sub) ==
    [code |-> code, status |-> Active, deleted |-> FALSE,
     brand |-> brand, category |-> category, subCategory |-> sub]

(* A code in the request, or none; a new one is looked for first.          *)
Recodings == {[code |-> c] : c \in Codes} \cup {Nothing}
Recode(patch) == IF "code" \in DOMAIN patch THEN <<"code">> \o Save ELSE Save

Create(w, table) == \E c \in Codes :
    OpenInsert(w, table, Entry(c), {}, TRUE, <<"code">> \o Insert)

Update(w, table) == \E i \in Live(table), patch \in Recodings :
    OpenSave(w, table, i, patch, {}, TRUE, Recode(patch))

ChangeStatus(w, table) == \E i \in Live(table), s \in Status :
    OpenSave(w, table, i, [status |-> s], {}, TRUE, Save)

Deleted == [deleted |-> TRUE, status |-> Inactive]

Delete(w, table) == \E i \in Live(table) :
    OpenSave(w, table, i, Deleted, {}, TRUE, Save)

CreateBrand(w) == Create(w, "brand")
UpdateBrand(w) == Update(w, "brand")
ChangeBrandStatus(w) == ChangeStatus(w, "brand")
DeleteBrand(w) == Delete(w, "brand")

CreateCategory(w) == Create(w, "category")
UpdateCategory(w) == Update(w, "category")
ChangeCategoryStatus(w) == ChangeStatus(w, "category")
DeleteCategory(w) == Delete(w, "category")

(* A sub-category's category has to be there; it may have been deleted.    *)
CreateSubCategory(w) == \E c \in Codes, k \in All("category") :
    OpenInsert(w, "subCategory", SubEntry(c, k), {Ref("category", k, Nothing)}, TRUE,
               <<"refs", "code">> \o Insert)

UpdateSubCategory(w) ==
    \/ \E i \in All("subCategory"), patch \in Recodings :
         OpenSave(w, "subCategory", i, patch, {}, TRUE, Recode(patch))
    \/ \E i \in All("subCategory"), k \in All("category") :
         OpenSave(w, "subCategory", i, [category |-> k],
                  {Ref("category", k, Nothing)}, TRUE, <<"refs">> \o Save)

ChangeSubCategoryStatus(w) == ChangeStatus(w, "subCategory")
DeleteSubCategory(w) == Delete(w, "subCategory")

(* validateFk: each row the SKU refers to is there, if it names one.       *)
SkuRefs(columns) ==
    {Ref(t, columns[t], Nothing) : t \in {u \in DOMAIN columns : columns[u] # None}}

CreateSku(w) ==
    \E c \in Codes, b \in All("brand") \cup {None}, k \in All("category") \cup {None},
       s \in All("subCategory") \cup {None} :
    OpenInsert(w, "sku", SkuEntry(c, b, k, s),
               SkuRefs([brand |-> b, category |-> k, subCategory |-> s]), TRUE,
               <<"refs", "code">> \o Insert)

(* update, softDelete and setStatus find deleted SKUs as well.             *)
UpdateSku(w) ==
    \/ \E i \in All("sku"), patch \in Recodings :
         OpenSave(w, "sku", i, patch, {}, TRUE, Recode(patch))
    \/ \E i \in All("sku"), b \in All("brand") \cup {None} :
         OpenSave(w, "sku", i, [brand |-> b], SkuRefs([brand |-> b]), TRUE,
                  <<"refs">> \o Save)

SoftDeleteSku(w) == \E i \in All("sku") :
    OpenSave(w, "sku", i, Deleted, {}, TRUE, Save)

SetSkuStatus(w) == \E i \in All("sku"), s \in Status :
    OpenSave(w, "sku", i, [status |-> s], {}, TRUE, Save)

CatalogBegin(w) ==
    \/ CreateBrand(w) \/ UpdateBrand(w) \/ ChangeBrandStatus(w) \/ DeleteBrand(w)
    \/ CreateCategory(w) \/ UpdateCategory(w) \/ ChangeCategoryStatus(w)
    \/ DeleteCategory(w)
    \/ CreateSubCategory(w) \/ UpdateSubCategory(w) \/ ChangeSubCategoryStatus(w)
    \/ DeleteSubCategory(w)
    \/ CreateSku(w) \/ UpdateSku(w) \/ SoftDeleteSku(w) \/ SetSkuStatus(w)
=============================================================================
