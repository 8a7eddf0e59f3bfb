-------------------------- MODULE MasterDataProofs --------------------------
(***************************************************************************)
(* For any number of requests, rows and codes: an owner has one default    *)
(* warehouse and distributors form trees, as long as the requests on their *)
(* table come one after the other: a request then finds its row as it left *)
(* it, between any two of its statements.  However they overlap, columns   *)
(* stay typed, codes stay distinct, and a deleted row comes back only by   *)
(* the save of a copy that was read while the row was live.                *)
(***************************************************************************)
EXTENDS MasterData, SequenceTheorems, TLAPS

Before == {"refs", "code", "unset"}
Steps == Before \cup {"load", "write", "insert", "codes", "insertAll"}

Will(todo, step) == \E k \in 1..Len(todo) : todo[k] = step

(* A plan that begins a request.                                           *)
Fresh(todo) == Head(todo) # "write"

(* What is left to do of a save, an insertion and a bulk insertion.        *)
SaveTodo(todo) ==
    /\ todo \in Seq(Steps) /\ todo # <<>>
    /\ \A k \in 1..Len(todo) :
         /\ todo[k] \in Before \cup {"load", "write"}
         /\ todo[k] = "write" <=> k = Len(todo)
         /\ todo[k] = "load" <=> k = Len(todo) - 1

InsertTodo(todo) ==
    /\ todo \in Seq(Steps) /\ todo # <<>>
    /\ \A k \in 1..Len(todo) :
         /\ todo[k] \in Before \cup {"insert"}
         /\ todo[k] = "insert" <=> k = Len(todo)

BulkTodo(todo) == todo \in {<<"codes", "insertAll">>, <<"insertAll">>}

IsRow(t, row) == DOMAIN row = Columns[t]
IsTable(t, table) ==
    /\ \E S : table \in Seq(S)
    /\ \A i \in DOMAIN table : IsRow(t, table[i])

Fields == {"table", "id", "entity", "refs", "any", "diff", "todo", "gone"}

Saving(q) ==
    q.id \in DOMAIN rows[q.table] /\ IsRow(q.table, q.entity) /\ SaveTodo(q.todo)
Adding(q) ==
    q.id = None /\ IsRow(q.table, q.entity) /\ InsertTodo(q.todo)
AddingMany(q) ==
    q.id = None /\ q.table = "outlet" /\ BulkTodo(q.todo) /\ IsTable("outlet", q.entity)

Sound(q) ==
    /\ DOMAIN q = Fields
    /\ q.table \in Tables
    /\ Saving(q) \/ Adding(q) \/ AddingMany(q)
    /\ Will(q.todo, "unset") => q.table = "warehouse"

(* The shape of the tables and of the requests.                            *)
Shape ==
    /\ DOMAIN rows = Tables
    /\ \A t \in Tables : IsTable(t, rows[t])
    /\ DOMAIN req = Workers
    /\ \A w \in Workers : req[w] = NoRequest \/ Sound(req[w])

----------------------------------------------------------------------------
(* What is left to do.                                                     *)

LEMMA SaveGoesOn ==
    ASSUME NEW s, SaveTodo(s), Head(s) # "write"
    PROVE  /\ SaveTodo(Tail(s))
           /\ Tail(s) = <<"write">> => Head(s) = "load"
           /\ \A step : Will(Tail(s), step) => Will(s, step)
           /\ \A step : Will(s, step) => Head(s) = step \/ Will(Tail(s), step)
  <1>1. /\ s \in Seq(Steps) /\ s # <<>>
        /\ \A k \in 1..Len(s) :
         /\ s[k] \in Before \cup {"load", "write"}
         /\ s[k] = "write" <=> k = Len(s)
         /\ s[k] = "load" <=> k = Len(s) - 1
    BY DEF SaveTodo
  <1>0. PICK t : t = Tail(s)
    OBVIOUS
  <1>2. /\ t \in Seq(Steps)
        /\ Len(t) = Len(s) - 1
        /\ \A i \in 1..Len(t) : t[i] = s[i + 1]
    BY <1>0, <1>1, HeadTailProperties
  <1>3. Len(s) \in Nat /\ Len(s) >= 1 /\ Head(s) = s[1]
    BY <1>1
  <1>4. Len(s) # 1
    BY <1>1, <1>3
  <1>5. SaveTodo(t)
    <2>1. t # <<>>
      BY <1>2, <1>3, <1>4
    <2>2. ASSUME NEW k \in 1..Len(t)
          PROVE  /\ t[k] \in Before \cup {"load", "write"}
                 /\ t[k] = "write" <=> k = Len(t)
                 /\ t[k] = "load" <=> k = Len(t) - 1
      <3>1. k + 1 \in 1..Len(s) /\ t[k] = s[k + 1]
        BY <1>2, <1>3
      <3>2. /\ s[k + 1] \in Before \cup {"load", "write"}
            /\ s[k + 1] = "write" <=> k + 1 = Len(s)
            /\ s[k + 1] = "load" <=> k + 1 = Len(s) - 1
        BY <1>1, <3>1
      <3>3. (k + 1 = Len(s) <=> k = Len(t)) /\ (k + 1 = Len(s) - 1 <=> k = Len(t) - 1)
        BY <1>2, <1>3
      <3> QED
        BY <3>1, <3>2, <3>3
    <2> QED
      BY <1>2, <2>1, <2>2 DEF SaveTodo
  <1>6. t = <<"write">> => Head(s) = "load"
    BY <1>1, <1>2, <1>3
  <1>7. \A step : Will(t, step) => Will(s, step)
    BY <1>2, <1>3 DEF Will
  <1>8. \A step : Will(s, step) => Head(s) = step \/ Will(t, step)
    <2> SUFFICES ASSUME NEW step, NEW k \in 1..Len(s), s[k] = step, k # 1
                 PROVE  Will(t, step)
      BY <1>3 DEF Will
    <2>1. k - 1 \in 1..Len(t) /\ t[k - 1] = s[k]
      BY <1>2, <1>3
    <2> QED
      BY <2>1 DEF Will
  <1> QED
    BY <1>0, <1>5, <1>6, <1>7, <1>8

LEMMA InsertGoesOn ==
    ASSUME NEW s, InsertTodo(s), Head(s) # "insert"
    PROVE  /\ InsertTodo(Tail(s))
           /\ \A step : Will(Tail(s), step) => Will(s, step)
           /\ \A step : Will(s, step) => Head(s) = step \/ Will(Tail(s), step)
  <1>1. /\ s \in Seq(Steps) /\ s # <<>>
        /\ \A k \in 1..Len(s) :
         /\ s[k] \in Before \cup {"insert"}
         /\ s[k] = "insert" <=> k = Len(s)
    BY DEF InsertTodo
  <1>0. PICK t : t = Tail(s)
    OBVIOUS
  <1>2. /\ t \in Seq(Steps)
        /\ Len(t) = Len(s) - 1
        /\ \A i \in 1..Len(t) : t[i] = s[i + 1]
    BY <1>0, <1>1, HeadTailProperties
  <1>3. Len(s) \in Nat /\ Len(s) >= 1 /\ Head(s) = s[1]
    BY <1>1
  <1>4. Len(s) # 1
    BY <1>1, <1>3
  <1>5. InsertTodo(t)
    <2>1. t # <<>>
      BY <1>2, <1>3, <1>4
    <2>2. ASSUME NEW k \in 1..Len(t)
          PROVE  /\ t[k] \in Before \cup {"insert"}
                 /\ t[k] = "insert" <=> k = Len(t)
      BY <1>1, <1>2, <1>3
    <2> QED
      BY <1>2, <2>1, <2>2 DEF InsertTodo
  <1>7. \A step : Will(t, step) => Will(s, step)
    BY <1>2, <1>3 DEF Will
  <1>8. \A step : Will(s, step) => Head(s) = step \/ Will(t, step)
    <2> SUFFICES ASSUME NEW step, NEW k \in 1..Len(s), s[k] = step, k # 1
                 PROVE  Will(t, step)
      BY <1>3 DEF Will
    <2>1. k - 1 \in 1..Len(t) /\ t[k - 1] = s[k]
      BY <1>2, <1>3
    <2> QED
      BY <2>1 DEF Will
  <1> QED
    BY <1>0, <1>5, <1>7, <1>8

LEMMA SavePlans ==
    ASSUME NEW p \in Seq(Before)
    PROVE  /\ SaveTodo(p \o Save) /\ Fresh(p \o Save)
           /\ \A step \in Before : Will(p \o Save, step) <=> Will(p, step)
  <1>1. Save \in Seq(Steps) /\ Len(Save) = 2 /\ Save[1] = "load" /\ Save[2] = "write"
    BY DEF Save, Steps
  <1>2. p \in Seq(Steps)
    BY SeqMonotonic DEF Steps
  <1>3. /\ p \o Save \in Seq(Steps)
        /\ Len(p \o Save) = Len(p) + 2
        /\ \A i \in 1..Len(p) + 2 : (p \o Save)[i] = IF i <= Len(p) THEN p[i] ELSE Save[i - Len(p)]
    <2>1. /\ p \o Save \in Seq(Steps)
          /\ Len(p \o Save) = Len(p) + Len(Save)
          /\ \A i \in 1..Len(p) + Len(Save) :
               (p \o Save)[i] = IF i <= Len(p) THEN p[i] ELSE Save[i - Len(p)]
      BY <1>1, <1>2, ConcatProperties
    <2> QED
      BY <1>1, <2>1
  <1>4. Len(p) \in Nat /\ \A i \in 1..Len(p) : p[i] \in Before
    BY ElementOfSeq, LenProperties
  <1>5. \A i \in 1..Len(p) + 2 :
          /\ i <= Len(p) => (p \o Save)[i] = p[i] /\ p[i] \in Before
          /\ i = Len(p) + 1 => (p \o Save)[i] = "load"
          /\ i = Len(p) + 2 => (p \o Save)[i] = "write"
    BY <1>1, <1>3, <1>4
  <1>6. SaveTodo(p \o Save)
    <2>1. p \o Save # <<>>
      BY <1>3, <1>4
    <2>2. ASSUME NEW k \in 1..Len(p \o Save)
          PROVE  /\ (p \o Save)[k] \in Before \cup {"load", "write"}
                 /\ (p \o Save)[k] = "write" <=> k = Len(p \o Save)
                 /\ (p \o Save)[k] = "load" <=> k = Len(p \o Save) - 1
      <3>1. k <= Len(p) \/ k = Len(p) + 1 \/ k = Len(p) + 2
        BY <1>3, <1>4
      <3> QED
        BY <1>3, <1>4, <1>5, <3>1 DEF Before
    <2> QED
      BY <1>3, <2>1, <2>2 DEF SaveTodo
  <1>7. ASSUME NEW step \in Before PROVE Will(p \o Save, step) <=> Will(p, step)
    <2>1. step # "load" /\ step # "write"
      BY DEF Before
    <2> QED
      BY <1>3, <1>4, <1>5, <2>1 DEF Will
  <1>8. Fresh(p \o Save)
    <2>1. Head(p \o Save) = (p \o Save)[1] /\ Len(p \o Save) # 1 /\ 1 \in 1..Len(p \o Save)
      BY <1>3, <1>4
    <2> QED
      BY <1>6, <2>1 DEF SaveTodo, Fresh
  <1> QED
    BY <1>6, <1>7, <1>8

LEMMA InsertFresh == ASSUME NEW s, InsertTodo(s) PROVE Fresh(s)
  <1>1. Len(s) \in Nat /\ Len(s) >= 1 /\ Head(s) = s[1]
    BY DEF InsertTodo
  <1> QED
    BY <1>1 DEF InsertTodo, Fresh, Before

LEMMA InsertPlans ==
    ASSUME NEW p \in Seq(Before)
    PROVE  /\ InsertTodo(p \o Insert)
           /\ \A step \in Before : Will(p \o Insert, step) <=> Will(p, step)
  <1>1. Insert \in Seq(Steps) /\ Len(Insert) = 1 /\ Insert[1] = "insert"
    BY DEF Insert, Steps
  <1>2. p \in Seq(Steps)
    BY SeqMonotonic DEF Steps
  <1>3. /\ p \o Insert \in Seq(Steps)
        /\ Len(p \o Insert) = Len(p) + 1
        /\ \A i \in 1..Len(p) + 1 :
             (p \o Insert)[i] = IF i <= Len(p) THEN p[i] ELSE Insert[i - Len(p)]
    <2>1. /\ p \o Insert \in Seq(Steps)
          /\ Len(p \o Insert) = Len(p) + Len(Insert)
          /\ \A i \in 1..Len(p) + Len(Insert) :
               (p \o Insert)[i] = IF i <= Len(p) THEN p[i] ELSE Insert[i - Len(p)]
      BY <1>1, <1>2, ConcatProperties
    <2> QED
      BY <1>1, <2>1
  <1>4. Len(p) \in Nat /\ \A i \in 1..Len(p) : p[i] \in Before
    BY ElementOfSeq, LenProperties
  <1>5. \A i \in 1..Len(p) + 1 :
          /\ i <= Len(p) => (p \o Insert)[i] = p[i] /\ p[i] \in Before
          /\ i = Len(p) + 1 => (p \o Insert)[i] = "insert"
    BY <1>1, <1>3, <1>4
  <1>6. InsertTodo(p \o Insert)
    <2>1. p \o Insert # <<>>
      BY <1>3, <1>4
    <2>2. ASSUME NEW k \in 1..Len(p \o Insert)
          PROVE  /\ (p \o Insert)[k] \in Before \cup {"insert"}
                 /\ (p \o Insert)[k] = "insert" <=> k = Len(p \o Insert)
      <3>1. k <= Len(p) \/ k = Len(p) + 1
        BY <1>3, <1>4
      <3> QED
        BY <1>3, <1>4, <1>5, <3>1 DEF Before
    <2> QED
      BY <1>3, <2>1, <2>2 DEF InsertTodo
  <1>7. ASSUME NEW step \in Before PROVE Will(p \o Insert, step) <=> Will(p, step)
    <2>1. step # "insert"
      BY DEF Before
    <2> QED
      BY <1>3, <1>4, <1>5, <2>1 DEF Will
  <1> QED
    BY <1>6, <1>7

(* A plan that does not look for other defaults, and one that does.        *)
PlainSave(todo) == SaveTodo(todo) /\ ~Will(todo, "unset") /\ Fresh(todo)
PlainInsert(todo) == InsertTodo(todo) /\ ~Will(todo, "unset")

LEMMA Todos ==
    /\ PlainSave(Save) /\ PlainSave(<<"code">> \o Save) /\ PlainSave(<<"refs">> \o Save)
    /\ PlainInsert(Insert) /\ PlainInsert(<<"code">> \o Insert)
    /\ PlainInsert(<<"refs">> \o Insert) /\ PlainInsert(<<"refs", "code">> \o Insert)
    /\ PlainInsert(<<"code", "refs">> \o Insert)
  <1>1. /\ <<>> \in Seq(Before) /\ <<"code">> \in Seq(Before) /\ <<"refs">> \in Seq(Before)
        /\ <<"refs", "code">> \in Seq(Before) /\ <<"code", "refs">> \in Seq(Before)
        /\ "unset" \in Before
    BY DEF Before
  <1>2. /\ ~Will(<<>>, "unset") /\ ~Will(<<"code">>, "unset") /\ ~Will(<<"refs">>, "unset")
        /\ ~Will(<<"refs", "code">>, "unset") /\ ~Will(<<"code", "refs">>, "unset")
    BY DEF Will
  <1>3. Save \in Seq(Steps) /\ Insert \in Seq(Steps)
    BY DEF Save, Insert, Steps
  <1>4. <<>> \o Save = Save /\ <<>> \o Insert = Insert
    BY <1>3, ConcatEmptySeq
  <1>5. PlainSave(Save) /\ PlainInsert(Insert)
    BY <1>1, <1>2, <1>4, SavePlans, InsertPlans DEF PlainSave, PlainInsert
  <1>6. PlainSave(<<"code">> \o Save) /\ PlainSave(<<"refs">> \o Save)
    BY <1>1, <1>2, SavePlans DEF PlainSave
  <1>7. PlainInsert(<<"code">> \o Insert) /\ PlainInsert(<<"refs">> \o Insert)
    BY <1>1, <1>2, InsertPlans DEF PlainInsert
  <1>8. PlainInsert(<<"refs", "code">> \o Insert) /\ PlainInsert(<<"code", "refs">> \o Insert)
    BY <1>1, <1>2, InsertPlans DEF PlainInsert
  <1> QED
    BY <1>5, <1>6, <1>7, <1>8

LEMMA Recoded == ASSUME NEW patch PROVE PlainSave(Recode(patch))
  BY Todos DEF Recode

----------------------------------------------------------------------------
(* The requests that begin.                                                *)

LEMMA SaveBegins ==
    ASSUME NEW w, NEW table \in Tables, NEW id \in DOMAIN rows[table],
           IsTable(table, rows[table]), NEW patch, NEW refs, NEW any, NEW todo,
           SaveTodo(todo), Fresh(todo), Will(todo, "unset") => table = "warehouse",
           OpenSave(w, table, id, patch, refs, any, todo)
    PROVE  LET q == Request(table, id, Patched(rows[table][id], patch), refs, any, todo)
           IN  Open(w, q) /\ Sound(q) /\ Fresh(q.todo)
  <1> DEFINE q == Request(table, id, Patched(rows[table][id], patch), refs, any, todo)
  <1>1. /\ DOMAIN q = Fields /\ q.table = table /\ q.id = id /\ q.todo = todo
        /\ q.entity = Patched(rows[table][id], patch)
    BY DEF Request, Fields
  <1>2. IsRow(table, q.entity)
    BY <1>1 DEF IsTable, IsRow, Patched
  <1>3. Open(w, q)
    BY DEF OpenSave
  <1> QED
    BY <1>1, <1>2, <1>3 DEF Sound, Saving

LEMMA InsertBegins ==
    ASSUME NEW w, NEW table \in Tables, NEW entity, IsRow(table, entity),
           NEW refs, NEW any, NEW todo,
           InsertTodo(todo), Will(todo, "unset") => table = "warehouse",
           OpenInsert(w, table, entity, refs, any, todo)
    PROVE  LET q == Request(table, None, entity, refs, any, todo)
           IN  Open(w, q) /\ Sound(q) /\ Fresh(q.todo)
  <1> DEFINE q == Request(table, None, entity, refs, any, todo)
  <1>1. /\ DOMAIN q = Fields /\ q.table = table /\ q.id = None /\ q.todo = todo
        /\ q.entity = entity
    BY DEF Request, Fields
  <1>2. Open(w, q)
    BY DEF OpenInsert
  <1> QED
    BY <1>1, <1>2, InsertFresh DEF Sound, Adding

(* A request that begins on a table.                                       *)
BeginsOn(w, tables) == \E q : Open(w, q) /\ Sound(q) /\ Fresh(q.todo) /\ q.table \in tables

LEMMA SaveBeginsOn ==
    ASSUME Shape, NEW w, NEW table \in Tables, NEW id \in DOMAIN rows[table],
           NEW patch, NEW refs, NEW any, NEW todo, PlainSave(todo),
           OpenSave(w, table, id, patch, refs, any, todo)
    PROVE  BeginsOn(w, {table})
  <1> DEFINE q == Request(table, id, Patched(rows[table][id], patch), refs, any, todo)
  <1>1. IsTable(table, rows[table]) /\ SaveTodo(todo) /\ ~Will(todo, "unset") /\ Fresh(todo)
    BY DEF Shape, PlainSave
  <1>2. Open(w, q) /\ Sound(q) /\ Fresh(q.todo)
    BY <1>1, SaveBegins
  <1>3. q.table = table
    BY DEF Request
  <1> QED
    BY <1>2, <1>3 DEF BeginsOn

LEMMA InsertBeginsOn ==
    ASSUME NEW w, NEW table \in Tables, NEW entity, IsRow(table, entity),
           NEW refs, NEW any, NEW todo, PlainInsert(todo),
           OpenInsert(w, table, entity, refs, any, todo)
    PROVE  BeginsOn(w, {table})
  <1> DEFINE q == Request(table, None, entity, refs, any, todo)
  <1>1. InsertTodo(todo) /\ ~Will(todo, "unset")
    BY DEF PlainInsert
  <1>2. Open(w, q) /\ Sound(q) /\ Fresh(q.todo)
    BY <1>1, InsertBegins
  <1>3. q.table = table
    BY DEF Request
  <1> QED
    BY <1>2, <1>3 DEF BeginsOn

LEMMA RowsHaveColumns ==
    /\ \A c : IsRow("brand", Entry(c)) /\ IsRow("category", Entry(c))
    /\ \A c, k : IsRow("subCategory", SubEntry(c, k))
    /\ \A c, b, k, s : IsRow("sku", SkuEntry(c, b, k, s))
    /\ \A c, type, p : IsRow("distributor", Distributor(c, type, p))
    /\ \A c, o, d : IsRow("warehouse", Warehouse(c, o, d))
    /\ \A key, lo, hi : IsRow("policy", Policy(key, lo, hi))
    /\ \A c, t, from, to : IsRow("route", Route(c, t, from, to))
    /\ \A c : IsRow("outlet", Outlet(c)) /\ IsRow("company", CompanyRow(c))
  <1>1. \A c : IsRow("brand", Entry(c)) /\ IsRow("category", Entry(c))
    BY DEF IsRow, Columns, Tables, Entry
  <1>2. \A c, k : IsRow("subCategory", SubEntry(c, k))
    BY DEF IsRow, Columns, Tables, SubEntry
  <1>3. \A c, b, k, s : IsRow("sku", SkuEntry(c, b, k, s))
    BY DEF IsRow, Columns, Tables, SkuEntry
  <1>4. \A c, type, p : IsRow("distributor", Distributor(c, type, p))
    BY DEF IsRow, Columns, Tables, Distributor
  <1>5. \A c, o, d : IsRow("warehouse", Warehouse(c, o, d))
    BY DEF IsRow, Columns, Tables, Warehouse
  <1>6. \A key, lo, hi : IsRow("policy", Policy(key, lo, hi))
    BY DEF IsRow, Columns, Tables, Policy
  <1>7. \A c, t, from, to : IsRow("route", Route(c, t, from, to))
    BY DEF IsRow, Columns, Tables, Route
  <1>8. \A c : IsRow("outlet", Outlet(c)) /\ IsRow("company", CompanyRow(c))
    BY DEF IsRow, Columns, Tables, Outlet, CompanyRow
  <1> QED
    BY <1>1, <1>2, <1>3, <1>4, <1>5, <1>6, <1>7, <1>8

Simple == {"brand", "category", "subCategory"}

LEMMA SimpleBegins ==
    ASSUME Shape, NEW w, NEW table \in Simple,
           Update(w, table) \/ ChangeStatus(w, table) \/ Delete(w, table)
    PROVE  BeginsOn(w, {table})
  <1>1. table \in Tables /\ Live(table) \subseteq DOMAIN rows[table]
    BY DEF Simple, Tables, Live
  <1>2. CASE Update(w, table)
    BY <1>1, <1>2, SaveBeginsOn, Recoded DEF Update
  <1>3. CASE ChangeStatus(w, table)
    BY <1>1, <1>3, SaveBeginsOn, Todos DEF ChangeStatus
  <1>4. CASE Delete(w, table)
    BY <1>1, <1>4, SaveBeginsOn, Todos DEF Delete
  <1> QED
    BY <1>2, <1>3, <1>4

Elsewhere == Tables \ {"warehouse", "distributor"}

LEMMA CatalogBegins ==
    ASSUME Shape, NEW w, CatalogBegin(w)
    PROVE  BeginsOn(w, Elsewhere)
  <1> USE DEF All
  <1>0. /\ {"brand", "category", "subCategory", "sku"} \subseteq Elsewhere
        /\ \A t \in Elsewhere : BeginsOn(w, {t}) => BeginsOn(w, Elsewhere)
        /\ Elsewhere \subseteq Tables
    BY DEF Elsewhere, Tables, BeginsOn
  <1>1. CASE CreateBrand(w) \/ CreateCategory(w)
    <2>1. \A t \in {"brand", "category"} : Create(w, t) => BeginsOn(w, {t})
      BY <1>0, InsertBeginsOn, RowsHaveColumns, Todos DEF Create
    <2> QED
      BY <1>0, <1>1, <2>1 DEF CreateBrand, CreateCategory
  <1>2. CASE \/ UpdateBrand(w) \/ ChangeBrandStatus(w) \/ DeleteBrand(w)
    BY <1>0, <1>2, SimpleBegins DEF Simple, UpdateBrand, ChangeBrandStatus, DeleteBrand
  <1>3. CASE UpdateCategory(w) \/ ChangeCategoryStatus(w) \/ DeleteCategory(w)
    BY <1>0, <1>3, SimpleBegins
       DEF Simple, UpdateCategory, ChangeCategoryStatus, DeleteCategory
  <1>4. CASE ChangeSubCategoryStatus(w) \/ DeleteSubCategory(w)
    BY <1>0, <1>4, SimpleBegins DEF Simple, ChangeSubCategoryStatus, DeleteSubCategory
  <1>5. CASE CreateSubCategory(w)
    BY <1>0, <1>5, InsertBeginsOn, RowsHaveColumns, Todos DEF CreateSubCategory
  <1>6. CASE UpdateSubCategory(w)
    BY <1>0, <1>6, SaveBeginsOn, Recoded, Todos DEF UpdateSubCategory
  <1>7. CASE CreateSku(w)
    BY <1>0, <1>7, InsertBeginsOn, RowsHaveColumns, Todos DEF CreateSku
  <1>8. CASE UpdateSku(w)
    BY <1>0, <1>8, SaveBeginsOn, Recoded, Todos DEF UpdateSku
  <1>9. CASE SoftDeleteSku(w) \/ SetSkuStatus(w)
    BY <1>0, <1>9, SaveBeginsOn, Todos DEF SoftDeleteSku, SetSkuStatus
  <1> QED
    BY <1>1, <1>2, <1>3, <1>4, <1>5, <1>6, <1>7, <1>8, <1>9 DEF CatalogBegin

LEMMA SitesBegins ==
    ASSUME Shape, NEW w, SitesBegin(w)
    PROVE  BeginsOn(w, Elsewhere)
  <1> USE DEF All
  <1>0. /\ {"route", "outlet", "company"} \subseteq Elsewhere
        /\ \A t \in Elsewhere : BeginsOn(w, {t}) => BeginsOn(w, Elsewhere)
        /\ Elsewhere \subseteq Tables
    BY DEF Elsewhere, Tables, BeginsOn
  <1>1. CASE CreateRoute(w)
    BY <1>0, <1>1, InsertBeginsOn, RowsHaveColumns, Todos DEF CreateRoute
  <1>2. CASE UpdateRoute(w)
    BY <1>0, <1>2, SaveBeginsOn, Todos DEF UpdateRoute
  <1>3. CASE RemoveRoute(w)
    BY <1>0, <1>3, SaveBeginsOn, Todos DEF RemoveRoute
  <1>4. CASE CreateOutlet(w)
    BY <1>0, <1>4, InsertBeginsOn, RowsHaveColumns, Todos DEF CreateOutlet
  <1>5. CASE BulkCreateOutlets(w)
    <2>1. PICK a, b \in Codes :
            Open(w, Request("outlet", None, <<Outlet(a), Outlet(b)>>, {}, FALSE,
                            <<"codes", "insertAll">>))
      BY <1>5 DEF BulkCreateOutlets
    <2>2. PICK q : q = Request("outlet", None, <<Outlet(a), Outlet(b)>>, {}, FALSE,
                               <<"codes", "insertAll">>)
      OBVIOUS
    <2>3. /\ DOMAIN q = Fields /\ q.table = "outlet" /\ q.id = None
          /\ q.todo = <<"codes", "insertAll">>
          /\ q.entity = <<Outlet(a), Outlet(b)>>
      BY <2>2 DEF Request, Fields
    <2>4. IsTable("outlet", q.entity)
      <3>1. q.entity \in Seq({Outlet(a), Outlet(b)})
        BY <2>3
      <3>2. DOMAIN q.entity = 1..2 /\ q.entity[1] = Outlet(a) /\ q.entity[2] = Outlet(b)
        BY <2>3
      <3> QED
        BY <3>1, <3>2, RowsHaveColumns DEF IsTable
    <2>5. ~Will(q.todo, "unset")
      BY <2>3 DEF Will
    <2>6. Sound(q)
      BY <2>3, <2>4, <2>5 DEF Sound, AddingMany, BulkTodo, Tables
    <2>7. Fresh(q.todo)
      BY <2>3 DEF Fresh
    <2> QED
      BY <1>0, <2>1, <2>2, <2>3, <2>6, <2>7 DEF BeginsOn
  <1>6. CASE UpdateOutlet(w)
    BY <1>0, <1>6, SaveBeginsOn, Todos DEF UpdateOutlet
  <1>7. CASE RemoveOutlet(w)
    BY <1>0, <1>7, SaveBeginsOn, Todos DEF RemoveOutlet
  <1>8. CASE CreateCompany(w)
    BY <1>0, <1>8, InsertBeginsOn, RowsHaveColumns, Todos DEF CreateCompany
  <1>9. CASE UpdateCompany(w) \/ RemoveCompany(w)
    BY <1>0, <1>9, SaveBeginsOn, Todos DEF UpdateCompany, RemoveCompany
  <1> QED
    BY <1>1, <1>2, <1>3, <1>4, <1>5, <1>6, <1>7, <1>8, <1>9 DEF SitesBegin
(* What a request on warehouses has to do before its row may be a default, *)
(* and one on distributors before its row may be under another.            *)
DefaultAsked(q) ==
    q.table = "warehouse" /\ q.entity.default /\ q.entity.owner \notin carried' =>
      \/ Will(q.todo, "unset")
      \/ LET row == rows["warehouse"][q.id]
         IN  /\ q.id \in DOMAIN rows["warehouse"]
             /\ ~row.deleted /\ row.default /\ row.owner = q.entity.owner

AsParent(q, p) ==
    \E ref \in q.refs : /\ ref.table = "distributor" /\ ref.id = p
                        /\ "type" \in DOMAIN ref.need /\ ref.need.type = Primary

SamePlace(q) ==
    LET row == rows["distributor"][q.id]
    IN  /\ q.id \in DOMAIN rows["distributor"]
        /\ q.entity.type = row.type /\ q.entity.parent = row.parent

NewPlace(q) ==
    LET row == rows["distributor"][q.id]
    IN  /\ q.entity.type = Primary => q.entity.parent = None
        /\ \/ q.entity.parent = None
           \/ q.id \in DOMAIN rows["distributor"] /\ q.entity.parent = row.parent
           \/ Will(q.todo, "refs") /\ AsParent(q, q.entity.parent)

ParentAsked(q) == q.table = "distributor" => SamePlace(q) \/ NewPlace(q)

Begins(w) ==
    /\ carried \subseteq carried'
    /\ \E q : Open(w, q) /\ Sound(q) /\ Fresh(q.todo) /\ DefaultAsked(q) /\ ParentAsked(q)

LEMMA BeginsElsewhere ==
    ASSUME NEW w, BeginsOn(w, Elsewhere), Kept
    PROVE  Begins(w)
  BY DEF BeginsOn, Elsewhere, Begins, DefaultAsked, ParentAsked, Kept

LEMMA DistributorChecks ==
    ASSUME NEW q, NEW type \in {Primary, Sub}, NEW p,
           p # None => Will(q.todo, "refs"), ParentFits(type, p),
           q.refs = ParentRefs(type, p),
           q.entity.type = type, q.entity.parent \in {p, None}
    PROVE  NewPlace(q)
  <1>1. Primary # Sub
    BY DEF Primary, Sub
  <1>2. CASE type = Primary
    BY <1>1, <1>2 DEF ParentFits, NewPlace
  <1>3. CASE type = Sub
    <2>1. p # None /\ Will(q.todo, "refs")
      BY <1>3 DEF ParentFits
    <2>2. PICK ref : ref = Ref("distributor", p, [status |-> Active, type |-> Primary])
      OBVIOUS
    <2>3. /\ ref.table = "distributor" /\ ref.id = p
          /\ "type" \in DOMAIN ref.need /\ ref.need.type = Primary
      BY <2>2 DEF Ref
    <2>4. ref \in q.refs
      BY <1>3, <2>2 DEF ParentRefs
    <2>5. AsParent(q, p)
      BY <2>3, <2>4 DEF AsParent
    <2> QED
      BY <1>1, <1>3, <2>1, <2>5 DEF NewPlace
  <1> QED
    BY <1>2, <1>3

LEMMA RefsFirst ==
    /\ Will(<<"refs">> \o Save, "refs")
    /\ Will(<<"code", "refs">> \o Insert, "refs")
  <1>1. <<"refs">> \in Seq(Before) /\ <<"code", "refs">> \in Seq(Before) /\ "refs" \in Before
    BY DEF Before
  <1>2. Will(<<"refs">>, "refs")
    BY DEF Will
  <1>3. Will(<<"code", "refs">>, "refs")
    <2>1. 2 \in 1..Len(<<"code", "refs">>) /\ <<"code", "refs">>[2] = "refs"
      OBVIOUS
    <2> QED
      BY <2>1 DEF Will
  <1> QED
    BY <1>1, <1>2, <1>3, SavePlans, InsertPlans

LEMMA DistributorBegins ==
    ASSUME Shape, NEW w,
           CreateDistributor(w) \/ UpdateDistributor(w) \/ ActivateDistributor(w)
    PROVE  Begins(w)
  <1>0. /\ "distributor" \in Tables /\ "distributor" # "warehouse"
        /\ IsTable("distributor", rows["distributor"])
    BY DEF Tables, Shape
  <1>1. CASE CreateDistributor(w)
    <2>1. PICK c \in Codes, type \in {Primary, Sub}, p \in All("distributor") \cup {None} :
            /\ ParentFits(type, p)
            /\ OpenInsert(w, "distributor", Distributor(c, type, p), ParentRefs(type, p), TRUE,
                          <<"code", "refs">> \o Insert)
            /\ Kept
      BY <1>1 DEF CreateDistributor
    <2>2. PICK q : q = Request("distributor", None, Distributor(c, type, p),
                               ParentRefs(type, p), TRUE, <<"code", "refs">> \o Insert)
      OBVIOUS
    <2>3. Open(w, q) /\ Sound(q) /\ Fresh(q.todo)
      <3>1. IsRow("distributor", Distributor(c, type, p))
        BY RowsHaveColumns
      <3>2. PlainInsert(<<"code", "refs">> \o Insert)
        BY Todos
      <3> QED
        BY <1>0, <2>1, <2>2, <3>1, <3>2, InsertBegins DEF PlainInsert
    <2>4. /\ q.table = "distributor" /\ q.refs = ParentRefs(type, p)
          /\ q.entity.type = type /\ q.entity.parent = p
          /\ q.todo = <<"code", "refs">> \o Insert
      BY <2>2 DEF Request, Distributor
    <2>5. NewPlace(q)
      BY <2>1, <2>4, RefsFirst, DistributorChecks
    <2> QED
      BY <1>0, <2>1, <2>3, <2>4, <2>5 DEF Begins, DefaultAsked, ParentAsked, Kept
  <1>2. CASE UpdatePlace(w) /\ Kept
    <2>1. PICK i \in Live("distributor"), type \in {Primary, Sub},
               p \in All("distributor") \cup {None} :
            \E patch \in {[type |-> type], [parent |-> p], [type |-> type, parent |-> p]} :
              LET row == rows["distributor"][i]
                  checked == ParentChecked(row, patch)
                  kind == Patched(row, patch).type
              IN  /\ ParentFits(kind, checked)
                  /\ OpenSave(w, "distributor", i, patch, ParentRefs(kind, checked), TRUE,
                              <<"refs">> \o Save)
      BY <1>2 DEF UpdatePlace
    <2> DEFINE row == rows["distributor"][i]
    <2>2. PICK patch \in {[type |-> type], [parent |-> p], [type |-> type, parent |-> p]} :
              /\ ParentFits(Patched(row, patch).type, ParentChecked(row, patch))
              /\ OpenSave(w, "distributor", i, patch,
                          ParentRefs(Patched(row, patch).type, ParentChecked(row, patch)), TRUE,
                          <<"refs">> \o Save)
      BY <2>1
    <2>3. PICK q : q = Request("distributor", i, Patched(row, patch),
                               ParentRefs(Patched(row, patch).type, ParentChecked(row, patch)),
                               TRUE, <<"refs">> \o Save)
      OBVIOUS
    <2>4. i \in DOMAIN rows["distributor"]
      BY DEF Live
    <2>5. Open(w, q) /\ Sound(q) /\ Fresh(q.todo)
      <3>1. PlainSave(<<"refs">> \o Save)
        BY Todos
      <3> QED
        BY <1>0, <2>2, <2>3, <2>4, <3>1, SaveBegins DEF PlainSave
    <2>6. /\ q.table = "distributor" /\ q.id = i /\ q.entity = Patched(row, patch)
          /\ q.refs = ParentRefs(q.entity.type, ParentChecked(row, patch))
          /\ q.todo = <<"refs">> \o Save
      BY <2>3 DEF Request
    <2>7. DOMAIN row = {"code", "status", "deleted", "type", "parent"}
      BY <1>0, <2>4 DEF IsTable, IsRow, Columns, Tables
    <2>8. /\ q.entity.type = IF "type" \in DOMAIN patch THEN patch.type ELSE row.type
          /\ q.entity.parent = IF "parent" \in DOMAIN patch THEN patch.parent ELSE row.parent
      BY <2>6, <2>7 DEF Patched
    <2>9. q.entity.parent \in {ParentChecked(row, patch), None}
      BY <2>8 DEF ParentChecked
    <2>10. NewPlace(q)
      <3>1. CASE q.entity.type \in {Primary, Sub}
        <4>1. ParentFits(q.entity.type, ParentChecked(row, patch))
          BY <2>2, <2>6
        <4>2. Will(q.todo, "refs")
          BY <2>6, RefsFirst
        <4> QED
          BY <2>6, <2>9, <3>1, <4>1, <4>2, DistributorChecks
      <3>2. CASE q.entity.type \notin {Primary, Sub}
        <4>1. ParentChecked(row, patch) = None
          BY <2>2, <2>6, <3>2 DEF ParentFits
        <4> QED
          BY <2>9, <3>2, <4>1 DEF NewPlace
      <3> QED
        BY <3>1, <3>2
    <2> QED
      BY <1>0, <1>2, <2>5, <2>6, <2>10 DEF Begins, DefaultAsked, ParentAsked, Kept
  <1>3. ASSUME NEW i \in Live("distributor"), NEW patch, NEW todo, Kept,
               "type" \notin DOMAIN patch, "parent" \notin DOMAIN patch, PlainSave(todo),
               OpenSave(w, "distributor", i, patch, {}, TRUE, todo)
        PROVE  Begins(w)
    <2> DEFINE row == rows["distributor"][i]
    <2>1. PICK q : q = Request("distributor", i, Patched(row, patch), {}, TRUE, todo)
      OBVIOUS
    <2>2. i \in DOMAIN rows["distributor"]
      BY DEF Live
    <2>3. Open(w, q) /\ Sound(q) /\ Fresh(q.todo)
      BY <1>0, <1>3, <2>1, <2>2, SaveBegins DEF PlainSave
    <2>4. q.table = "distributor" /\ q.id = i /\ q.entity = Patched(row, patch)
      BY <2>1 DEF Request
    <2>5. DOMAIN row = {"code", "status", "deleted", "type", "parent"}
      BY <1>0, <2>2 DEF IsTable, IsRow, Columns, Tables
    <2>6. SamePlace(q)
      BY <1>3, <2>2, <2>4, <2>5 DEF SamePlace, Patched
    <2> QED
      BY <1>0, <1>3, <2>3, <2>4, <2>6 DEF Begins, DefaultAsked, ParentAsked, Kept
  <1>4. CASE \E i \in Live("distributor"), patch \in {[code |-> c] : c \in Codes} :
               OpenSave(w, "distributor", i, patch, {}, TRUE, <<"code">> \o Save) /\ Kept
    <2>1. PICK i \in Live("distributor"), c \in Codes :
            OpenSave(w, "distributor", i, [code |-> c], {}, TRUE, <<"code">> \o Save) /\ Kept
      BY <1>4
    <2>2. "type" \notin DOMAIN [code |-> c] /\ "parent" \notin DOMAIN [code |-> c]
      OBVIOUS
    <2>3. PlainSave(<<"code">> \o Save)
      BY Todos
    <2> QED
      BY <1>3, <2>1, <2>2, <2>3
  <1>5. CASE ActivateDistributor(w)
    <2>1. PICK i \in Live("distributor"), s \in Status :
            OpenSave(w, "distributor", i, [status |-> s], {}, TRUE, Save) /\ Kept
      BY <1>5 DEF ActivateDistributor
    <2>2. "type" \notin DOMAIN [status |-> s] /\ "parent" \notin DOMAIN [status |-> s]
      OBVIOUS
    <2>3. PlainSave(Save)
      BY Todos
    <2> QED
      BY <1>3, <2>1, <2>2, <2>3
  <1> QED
    BY <1>1, <1>2, <1>4, <1>5 DEF UpdateDistributor
LEMMA DefaultTodos ==
    ASSUME NEW p \in Seq(Before), NEW d \in {<<>>, <<"unset">>}
    PROVE  /\ SaveTodo(p \o d \o Save) /\ SaveTodo(d \o p \o Save)
           /\ Fresh(p \o d \o Save) /\ Fresh(d \o p \o Save)
           /\ InsertTodo(p \o d \o Insert)
           /\ d = <<"unset">> => /\ Will(p \o d \o Save, "unset") /\ Will(d \o p \o Save, "unset")
                                 /\ Will(p \o d \o Insert, "unset")
  <1>1. d \in Seq(Before) /\ "unset" \in Before
    <2>1. <<>> \in Seq(Before) /\ <<"unset">> \in Seq(Before)
      BY DEF Before
    <2> QED
      BY <2>1 DEF Before
  <1>2. /\ p \o d \in Seq(Before) /\ Len(p \o d) = Len(p) + Len(d)
        /\ \A i \in 1..Len(p) + Len(d) : (p \o d)[i] = IF i <= Len(p) THEN p[i] ELSE d[i - Len(p)]
    BY <1>1, ConcatProperties
  <1>3. /\ d \o p \in Seq(Before) /\ Len(d \o p) = Len(d) + Len(p)
        /\ \A i \in 1..Len(d) + Len(p) : (d \o p)[i] = IF i <= Len(d) THEN d[i] ELSE p[i - Len(d)]
    BY <1>1, ConcatProperties
  <1>4. Len(p) \in Nat
    BY LenProperties
  <1>5. ASSUME d = <<"unset">> PROVE Will(p \o d, "unset") /\ Will(d \o p, "unset")
    <2>1. Len(d) = 1 /\ d[1] = "unset"
      BY <1>5
    <2>2. (p \o d)[Len(p) + 1] = "unset" /\ Len(p) + 1 \in 1..Len(p \o d)
      BY <1>2, <1>4, <2>1
    <2>3. (d \o p)[1] = "unset" /\ 1 \in 1..Len(d \o p)
      BY <1>3, <1>4, <2>1
    <2> QED
      BY <2>2, <2>3 DEF Will
  <1>6. /\ SaveTodo(p \o d \o Save) /\ SaveTodo(d \o p \o Save)
        /\ Fresh(p \o d \o Save) /\ Fresh(d \o p \o Save)
        /\ InsertTodo(p \o d \o Insert)
    BY <1>2, <1>3, SavePlans, InsertPlans
  <1>7. /\ Will(p \o d \o Save, "unset") <=> Will(p \o d, "unset")
        /\ Will(d \o p \o Save, "unset") <=> Will(d \o p, "unset")
        /\ Will(p \o d \o Insert, "unset") <=> Will(p \o d, "unset")
    BY <1>1, <1>2, <1>3, SavePlans, InsertPlans
  <1> QED
    BY <1>5, <1>6, <1>7

LEMMA WarehouseSaves ==
    ASSUME Shape, NEW w, NEW i \in Live("warehouse"), NEW patch, NEW refs, NEW todo,
           SaveTodo(todo), Fresh(todo), carried \subseteq carried',
           "default" \in DOMAIN patch => ~patch.default \/ Will(todo, "unset"),
           "default" \notin DOMAIN patch /\ "owner" \in DOMAIN patch =>
             ~rows["warehouse"][i].default \/ patch.owner \in carried',
           OpenSave(w, "warehouse", i, patch, refs, FALSE, todo)
    PROVE  Begins(w)
  <1> DEFINE row == rows["warehouse"][i]
  <1>1. /\ "warehouse" \in Tables /\ "warehouse" # "distributor"
        /\ IsTable("warehouse", rows["warehouse"])
    BY DEF Tables, Shape
  <1>2. PICK q : q = Request("warehouse", i, Patched(row, patch), refs, FALSE, todo)
    OBVIOUS
  <1>3. i \in DOMAIN rows["warehouse"] /\ ~row.deleted
    BY DEF Live
  <1>4. Open(w, q) /\ Sound(q) /\ Fresh(q.todo)
    BY <1>1, <1>2, <1>3, SaveBegins
  <1>5. q.table = "warehouse" /\ q.id = i /\ q.entity = Patched(row, patch) /\ q.todo = todo
    BY <1>2 DEF Request
  <1>6. DOMAIN row = {"code", "status", "deleted", "owner", "default"}
    BY <1>1, <1>3 DEF IsTable, IsRow, Columns, Tables
  <1>7. /\ q.entity.default = IF "default" \in DOMAIN patch THEN patch.default ELSE row.default
        /\ q.entity.owner = IF "owner" \in DOMAIN patch THEN patch.owner ELSE row.owner
    BY <1>5, <1>6 DEF Patched
  <1>8. DefaultAsked(q)
    <2> SUFFICES ASSUME q.entity.default, q.entity.owner \notin carried', ~Will(q.todo, "unset")
                 PROVE  row.default /\ row.owner = q.entity.owner
      BY <1>3, <1>5 DEF DefaultAsked
    <2>1. "default" \notin DOMAIN patch
      BY <1>5, <1>7
    <2>2. row.default
      BY <1>7, <2>1
    <2>3. "owner" \notin DOMAIN patch
      BY <1>7, <2>1, <2>2
    <2> QED
      BY <1>7, <2>2, <2>3
  <1>9. ParentAsked(q)
    BY <1>1, <1>5 DEF ParentAsked
  <1> QED
    BY <1>4, <1>8, <1>9 DEF Begins

LEMMA WarehouseBegins ==
    ASSUME Shape, NEW w,
           CreateWarehouse(w) \/ UpdateWarehouse(w) \/ MakeDefault(w) \/ RemoveWarehouse(w)
    PROVE  Begins(w)
  <1>0. \A b : /\ Defaulted(b) \in {<<>>, <<"unset">>}
               /\ b => Defaulted(b) = <<"unset">>
    BY DEF Defaulted
  <1>00. /\ <<"refs">> \in Seq(Before) /\ <<"refs", "code">> \in Seq(Before)
         /\ <<"code">> \in Seq(Before) /\ <<>> \in Seq(Before)
    BY DEF Before
  <1>000. ASSUME Kept PROVE carried \subseteq carried'
    BY <1>000 DEF Kept
  <1>1. CASE CreateWarehouse(w)
    <2>1. PICK c \in Codes, o \in Owners, d \in BOOLEAN :
            /\ OpenInsert(w, "warehouse", Warehouse(c, o, d), OwnerRefs(o), FALSE,
                          <<"refs", "code">> \o Defaulted(d) \o Insert)
            /\ Kept
      BY <1>1 DEF CreateWarehouse
    <2>2. PICK todo : todo = <<"refs", "code">> \o Defaulted(d) \o Insert
      OBVIOUS
    <2>3. InsertTodo(todo) /\ (d => Will(todo, "unset"))
      <3>1. PICK u : u = Defaulted(d)
        OBVIOUS
      <3>2. todo = <<"refs", "code">> \o u \o Insert
        BY <2>2, <3>1
      <3>3. u \in {<<>>, <<"unset">>}
        BY <3>1 DEF Defaulted
      <3>4. d => u = <<"unset">>
        BY <3>1 DEF Defaulted
      <3>5. InsertTodo(todo) /\ (u = <<"unset">> => Will(todo, "unset"))
        BY <1>00, <3>2, <3>3, DefaultTodos
      <3> QED
        BY <3>4, <3>5
    <2>4. PICK q : q = Request("warehouse", None, Warehouse(c, o, d), OwnerRefs(o), FALSE, todo)
      OBVIOUS
    <2>5. Open(w, q) /\ Sound(q) /\ Fresh(q.todo)
      <3>1. IsRow("warehouse", Warehouse(c, o, d)) /\ "warehouse" \in Tables
        BY RowsHaveColumns DEF Tables
      <3> QED
        BY <2>1, <2>2, <2>3, <2>4, <3>1, InsertBegins
    <2>6. q.table = "warehouse" /\ q.todo = todo /\ q.entity.default = d
      BY <2>4 DEF Request, Warehouse
    <2>7. DefaultAsked(q) /\ ParentAsked(q)
      BY <2>3, <2>6 DEF DefaultAsked, ParentAsked
    <2> QED
      BY <1>000, <2>1, <2>5, <2>7 DEF Begins
  <1>2. CASE UpdateOwner(w)
    <2>1. PICK i \in Live("warehouse"), o \in Owners :
            \E patch \in {[owner |-> o], [owner |-> o, default |-> TRUE],
                          [owner |-> o, default |-> FALSE]} :
              LET named == "default" \in DOMAIN patch
              IN  /\ OpenSave(w, "warehouse", i, patch, OwnerRefs(o), FALSE,
                              <<"refs">> \o Defaulted(named /\ patch.default) \o Save)
                  /\ carried' = IF ~named /\ rows["warehouse"][i].default THEN carried \cup {o}
                                ELSE carried
      BY <1>2 DEF UpdateOwner
    <2>2. PICK patch \in {[owner |-> o], [owner |-> o, default |-> TRUE],
                          [owner |-> o, default |-> FALSE]} :
            \E d : /\ d = Defaulted("default" \in DOMAIN patch /\ patch.default)
                   /\ OpenSave(w, "warehouse", i, patch, OwnerRefs(o), FALSE,
                               <<"refs">> \o d \o Save)
                   /\ carried' = IF "default" \notin DOMAIN patch /\ rows["warehouse"][i].default
                                 THEN carried \cup {o} ELSE carried
      BY <2>1
    <2>02. PICK d : /\ d = Defaulted("default" \in DOMAIN patch /\ patch.default)
                    /\ OpenSave(w, "warehouse", i, patch, OwnerRefs(o), FALSE,
                                <<"refs">> \o d \o Save)
                    /\ carried' = IF "default" \notin DOMAIN patch
                                       /\ rows["warehouse"][i].default
                                  THEN carried \cup {o} ELSE carried
      BY <2>2
    <2>3. PICK todo : todo = <<"refs">> \o d \o Save
      OBVIOUS
    <2>4. /\ SaveTodo(todo) /\ Fresh(todo)
          /\ d = <<"unset">> => Will(todo, "unset")
      <3>1. d \in {<<>>, <<"unset">>}
        BY <2>02 DEF Defaulted
      <3> QED
        BY <1>00, <2>3, <3>1, DefaultTodos
    <2>5. /\ carried \subseteq carried'
          /\ "default" \in DOMAIN patch => ~patch.default \/ Will(todo, "unset")
      BY <2>02, <2>4 DEF Defaulted
    <2>6. patch.owner = o
      OBVIOUS
    <2>7. "default" \notin DOMAIN patch /\ "owner" \in DOMAIN patch =>
            ~rows["warehouse"][i].default \/ patch.owner \in carried'
      BY <2>02, <2>6
    <2> QED
      BY <2>02, <2>3, <2>4, <2>5, <2>7, WarehouseSaves
  <1>3. ASSUME NEW i \in Live("warehouse"), NEW s \in Status,
               OpenSave(w, "warehouse", i, [status |-> s], {}, FALSE, Save) /\ Kept
        PROVE  Begins(w)
    <2>1. "default" \notin DOMAIN [status |-> s] /\ "owner" \notin DOMAIN [status |-> s]
      OBVIOUS
    <2> QED
      BY <1>000, <1>3, <2>1, Todos, WarehouseSaves DEF PlainSave
  <1>4. ASSUME NEW i \in Live("warehouse"), NEW c \in Codes, NEW d \in BOOLEAN,
               NEW patch \in {[code |-> c], [default |-> d], [code |-> c, default |-> d]},
               NEW u, NEW p, u = Defaulted("default" \in DOMAIN patch /\ d),
               p = IF "code" \in DOMAIN patch THEN <<"code">> ELSE <<>>,
               OpenSave(w, "warehouse", i, patch, {}, FALSE, u \o p \o Save),
               Kept
        PROVE  Begins(w)
    <2>1. u \in {<<>>, <<"unset">>} /\ p \in Seq(Before)
      BY <1>00, <1>4 DEF Defaulted
    <2>2. PICK todo : todo = u \o p \o Save
      OBVIOUS
    <2>3. /\ SaveTodo(todo) /\ Fresh(todo)
          /\ u = <<"unset">> => Will(todo, "unset")
      BY <2>1, <2>2, DefaultTodos
    <2>4. "default" \in DOMAIN patch => ~patch.default \/ Will(todo, "unset")
      BY <1>4, <2>3 DEF Defaulted
    <2>5. "owner" \notin DOMAIN patch
      OBVIOUS
    <2> QED
      BY <1>000, <1>4, <2>1, <2>2, <2>3, <2>4, <2>5, WarehouseSaves
  <1>5. CASE UpdateWarehouse(w)
    <2>1. CASE \E i \in Live("warehouse"), s \in Status :
                 OpenSave(w, "warehouse", i, [status |-> s], {}, FALSE, Save) /\ Kept
      BY <1>3, <2>1
    <2>2. CASE \E i \in Live("warehouse"), c \in Codes, d \in BOOLEAN :
               \E patch \in {[code |-> c], [default |-> d], [code |-> c, default |-> d]} :
                 /\ OpenSave(w, "warehouse", i, patch, {}, FALSE,
                             Defaulted("default" \in DOMAIN patch /\ d)
                             \o (IF "code" \in DOMAIN patch THEN <<"code">> ELSE <<>>) \o Save)
                 /\ Kept
      <3>1. PICK i \in Live("warehouse"), c \in Codes, d \in BOOLEAN :
               \E patch \in {[code |-> c], [default |-> d], [code |-> c, default |-> d]} :
                 /\ OpenSave(w, "warehouse", i, patch, {}, FALSE,
                             Defaulted("default" \in DOMAIN patch /\ d)
                             \o (IF "code" \in DOMAIN patch THEN <<"code">> ELSE <<>>) \o Save)
                 /\ Kept
        BY <2>2
      <3>2. PICK patch \in {[code |-> c], [default |-> d], [code |-> c, default |-> d]} :
                 /\ OpenSave(w, "warehouse", i, patch, {}, FALSE,
                             Defaulted("default" \in DOMAIN patch /\ d)
                             \o (IF "code" \in DOMAIN patch THEN <<"code">> ELSE <<>>) \o Save)
                 /\ Kept
        BY <3>1
      <3>3. PICK u, p :
              /\ u = Defaulted("default" \in DOMAIN patch /\ d)
              /\ p = IF "code" \in DOMAIN patch THEN <<"code">> ELSE <<>>
              /\ OpenSave(w, "warehouse", i, patch, {}, FALSE, u \o p \o Save)
              /\ Kept
        BY <3>2
      <3> QED
        BY <1>4, <3>3
    <2> QED
      BY <1>2, <1>5, <2>1, <2>2 DEF UpdateWarehouse
  <1>6. CASE MakeDefault(w)
    <2>1. PICK i \in Live("warehouse") :
            /\ OpenSave(w, "warehouse", i, [default |-> TRUE], {}, FALSE, <<"unset">> \o Save)
            /\ Kept
      BY <1>6 DEF MakeDefault
    <2>2. <<"unset">> \in Seq(Before) /\ Will(<<"unset">>, "unset") /\ "unset" \in Before
      BY DEF Before, Will
    <2>3. SaveTodo(<<"unset">> \o Save) /\ Fresh(<<"unset">> \o Save) /\ Will(<<"unset">> \o Save, "unset")
      BY <2>2, SavePlans
    <2> QED
      BY <1>000, <2>1, <2>3, WarehouseSaves
  <1>7. CASE RemoveWarehouse(w)
    <2>1. PICK i \in Live("warehouse") :
            OpenSave(w, "warehouse", i, [deleted |-> TRUE], {}, FALSE, Save) /\ Kept
      BY <1>7 DEF RemoveWarehouse
    <2>2. "default" \notin DOMAIN [deleted |-> TRUE] /\ "owner" \notin DOMAIN [deleted |-> TRUE]
      OBVIOUS
    <2> QED
      BY <1>000, <2>1, <2>2, Todos, WarehouseSaves DEF PlainSave
  <1> QED
    BY <1>1, <1>5, <1>6, <1>7

LEMMA PolicyBegins ==
    ASSUME Shape, NEW w, CreatePolicy(w) \/ UpdatePolicy(w) \/ SoftDeletePolicy(w)
    PROVE  Begins(w)
  <1>1. /\ "policy" \in Tables /\ Live("policy") \subseteq DOMAIN rows["policy"]
        /\ BeginsOn(w, {"policy"}) => BeginsOn(w, Elsewhere)
    BY DEF Tables, Live, Elsewhere, BeginsOn
  <1>2. CASE CreatePolicy(w)
    BY <1>1, <1>2, InsertBeginsOn, RowsHaveColumns, Todos, BeginsElsewhere DEF CreatePolicy
  <1>3. CASE UpdatePolicy(w)
    BY <1>1, <1>3, SaveBeginsOn, Todos, BeginsElsewhere DEF UpdatePolicy
  <1>4. CASE SoftDeletePolicy(w)
    BY <1>1, <1>4, SaveBeginsOn, Todos, BeginsElsewhere DEF SoftDeletePolicy
  <1> QED
    BY <1>2, <1>3, <1>4

(* Every request begins as its service has it.                             *)
LEMMA RequestsBegin ==
    ASSUME Shape, NEW w,
           \/ (CatalogBegin(w) \/ SitesBegin(w)) /\ Kept
           \/ DistributorsBegin(w)
    PROVE  Begins(w)
  BY CatalogBegins, SitesBegins, BeginsElsewhere, DistributorBegins, WarehouseBegins,
     PolicyBegins DEF DistributorsBegin
----------------------------------------------------------------------------
(* The steps of a request.                                                 *)

Only(w) == DOMAIN req' = Workers /\ \A v \in Workers \ {w} : req'[v] = req[v]

Further(q, r) ==
    /\ DOMAIN r = Fields
    /\ r.table = q.table /\ r.id = q.id /\ r.entity = q.entity /\ r.refs = q.refs
    /\ r.todo = Tail(q.todo) /\ r.gone = q.gone

(* A step that leaves the tables alone.                                    *)
Quiet(w) ==
    /\ rows' = rows
    /\ \/ req'[w] = NoRequest
       \/ /\ Further(req[w], req'[w])
          /\ Head(req[w].todo) \in {"refs", "code", "codes", "load"}
          /\ Head(req[w].todo) = "refs" => \A ref \in req[w].refs : Meets(ref)
          /\ Head(req[w].todo) = "load" =>
               req'[w].diff = Differing(req[w].entity, Table(w)[req[w].id])

(* One that changes the table of the request, and ends it or goes on.      *)
Alone(w) ==
    /\ DOMAIN rows' = Tables
    /\ \A t \in Tables \ {req[w].table} : rows'[t] = rows[t]
    /\ IsTable(req[w].table, rows'[req[w].table])

Grows(w) ==
    LET table == rows'[req[w].table]
    IN  /\ Alone(w) /\ req'[w] = NoRequest
        /\ DOMAIN Table(w) \subseteq DOMAIN table
        /\ \A i \in DOMAIN Table(w) : table[i] = Table(w)[i]
        /\ req[w].table # "outlet" =>
             /\ ~Will(req[w].todo, "unset") /\ ~Will(req[w].todo, "refs")
             /\ req[w].id = None
             /\ \A i \in DOMAIN table \ DOMAIN Table(w) : table[i] = req[w].entity
             /\ \A i, j \in DOMAIN table \ DOMAIN Table(w) : i = j

Writes(w) ==
    LET table == rows'[req[w].table]
        id == req[w].id
    IN  /\ Alone(w) /\ req'[w] = NoRequest
        /\ req[w].todo = <<"write">>
        /\ DOMAIN table = DOMAIN Table(w) /\ id \in DOMAIN table
        /\ \A i \in DOMAIN table \ {id} : table[i] = Table(w)[i]
        /\ table[id] = Overlay(Table(w)[id], req[w].entity, req[w].diff)

Unsets(w) ==
    LET table == rows'["warehouse"]
    IN  /\ req[w].table = "warehouse" /\ Alone(w)
        /\ Further(req[w], req'[w]) /\ Head(req[w].todo) = "unset"
        /\ DOMAIN table = DOMAIN Table(w)
        /\ \A i \in DOMAIN table : 
             table[i] = [Table(w)[i] EXCEPT !.default = @ /\ i \notin OtherDefaults(w)]

(* What a step adds to a table: the row of the request, or each of its     *)
(* rows, once.                                                             *)
AddsOne(w) ==
    LET table == rows'[req[w].table]
        new == DOMAIN table \ DOMAIN Table(w)
    IN  /\ Adding(req[w])
        /\ \A i \in DOMAIN Table(w) : table[i] = Table(w)[i]
        /\ \A i \in new : table[i] = req[w].entity
        /\ \A i, j \in new : i = j

AddsMany(w) ==
    LET table == rows'["outlet"]
        entity == req[w].entity
        new == DOMAIN table \ DOMAIN Table(w)
    IN  /\ AddingMany(req[w])
        /\ \A i \in DOMAIN Table(w) : table[i] = Table(w)[i]
        /\ \E nth \in [new -> DOMAIN entity] :
             /\ \A i \in new : table[i] = entity[nth[i]]
             /\ \A i, j \in new : nth[i] = nth[j] => i = j

Handles(w) ==
    /\ ~Idle(w) /\ Only(w) /\ UNCHANGED <<stale, carried>>
    /\ Quiet(w) \/ Grows(w) \/ Writes(w) \/ Unsets(w)

LEMMA Underway ==
    ASSUME Shape, NEW w \in Workers, ~Idle(w)
    PROVE  /\ Sound(req[w]) /\ req[w].table \in Tables
           /\ IsTable(req[w].table, Table(w))
  BY DEF Shape, Idle, NoRequest, Sound, Table

LEMMA EndsOnly ==
    ASSUME Shape, NEW w \in Workers, End(w)
    PROVE  Only(w) /\ req'[w] = NoRequest
  BY DEF Shape, End, Only

LEMMA DoneFurther ==
    ASSUME Shape, NEW w \in Workers, ~Idle(w), Done(w)
    PROVE  Only(w) /\ Further(req[w], req'[w])
  <1>1. DOMAIN req[w] = Fields
    BY Underway DEF Sound
  <1>2. Only(w) /\ req'[w] = [req[w] EXCEPT !.todo = Tail(@)]
    BY DEF Shape, Done, Only
  <1> QED
    BY <1>1, <1>2 DEF Further, Fields

LEMMA CheckHandles ==
    ASSUME Shape, NEW w \in Workers, Kept,
           CheckRefs(w) \/ CheckCode(w) \/ CheckCodes(w)
    PROVE  Handles(w)
  <1>1. /\ ~Idle(w) /\ UNCHANGED <<rows, stale, carried>>
        /\ Head(req[w].todo) \in {"refs", "code", "codes"}
        /\ \/ End(w)
           \/ Done(w) /\ (Head(req[w].todo) = "refs" => \A ref \in req[w].refs : Meets(ref))
    BY DEF CheckRefs, CheckCode, CheckCodes, Check, Doing, Kept
  <1> QED
    BY <1>1, EndsOnly, DoneFurther DEF Handles, Quiet

LEMMA LoadHandles ==
    ASSUME Shape, NEW w \in Workers, Kept, Load(w)
    PROVE  Handles(w)
  <1>1. /\ ~Idle(w) /\ UNCHANGED <<rows, stale, carried>> /\ Head(req[w].todo) = "load"
        /\ req' = [req EXCEPT ![w].todo = Tail(@),
                     ![w].diff = Differing(req[w].entity, Table(w)[req[w].id])]
    BY DEF Load, Doing, Kept
  <1>2. DOMAIN req[w] = Fields
    BY <1>1, Underway DEF Sound
  <1>3. PICK d : d = Differing(req[w].entity, Table(w)[req[w].id])
    OBVIOUS
  <1>4. /\ Only(w)
        /\ req'[w] = [req[w] EXCEPT !.todo = Tail(@), !.diff = d]
    BY <1>1, <1>3 DEF Shape, Only
  <1>5. Further(req[w], req'[w]) /\ req'[w].diff = d
    BY <1>2, <1>4 DEF Further, Fields
  <1> QED
    BY <1>1, <1>3, <1>4, <1>5 DEF Handles, Quiet

LEMMA AbandonHandles ==
    ASSUME Shape, NEW w \in Workers, Kept, Abandon(w)
    PROVE  Handles(w)
  BY EndsOnly DEF Abandon, Handles, Quiet, Kept

LEMMA InsertHandles ==
    ASSUME Shape, NEW w \in Workers, Kept, InsertRow(w)
    PROVE  Handles(w) /\ (rows' # rows => AddsOne(w))
  <1> DEFINE t == req[w].table
             e == req[w].entity
  <1>1. /\ ~Idle(w) /\ UNCHANGED <<stale, carried>> /\ Head(req[w].todo) = "insert"
        /\ Only(w) /\ req'[w] = NoRequest
        /\ rows' = rows \/ rows' = [rows EXCEPT ![t] = Append(@, e)]
    BY EndsOnly DEF InsertRow, Doing, Kept
  <1>2. t \in Tables /\ Sound(req[w]) /\ IsTable(t, rows[t]) /\ DOMAIN rows = Tables
    BY <1>1, Underway DEF Shape, Table
  <1>3. CASE rows' = rows
    BY <1>1, <1>3 DEF Handles, Quiet
  <1>4. CASE rows' = [rows EXCEPT ![t] = Append(@, e)]
    <2>1. Adding(req[w]) /\ Head(req[w].todo) = req[w].todo[1] /\ Len(req[w].todo) = 1
      <3>1. ~SaveTodo(req[w].todo)
        <4> SUFFICES ASSUME SaveTodo(req[w].todo) PROVE FALSE
          OBVIOUS
        <4>1. Len(req[w].todo) \in Nat /\ Len(req[w].todo) >= 1
              /\ Head(req[w].todo) = req[w].todo[1]
          BY DEF SaveTodo
        <4> QED
          BY <1>1, <4>1 DEF SaveTodo, Before
      <3>2. ~BulkTodo(req[w].todo)
        BY <1>1 DEF BulkTodo
      <3>3. Adding(req[w])
        BY <1>2, <3>1, <3>2 DEF Sound, Saving, AddingMany
      <3>4. Len(req[w].todo) \in Nat /\ Len(req[w].todo) >= 1
              /\ Head(req[w].todo) = req[w].todo[1]
        BY <3>3 DEF Adding, InsertTodo
      <3>50. \A k \in 1..Len(req[w].todo) :
               req[w].todo[k] = "insert" <=> k = Len(req[w].todo)
        BY <3>3 DEF Adding, InsertTodo
      <3>5. req[w].todo[1] = "insert" <=> 1 = Len(req[w].todo)
        <4>1. 1 \in 1..Len(req[w].todo)
          BY <3>4
        <4> QED
          BY <3>50, <4>1, Zenon
      <3> QED
        BY <1>1, <3>3, <3>4, <3>5
    <2>2. ~Will(req[w].todo, "unset") /\ ~Will(req[w].todo, "refs")
      BY <1>1, <2>1 DEF Will
    <2>3. PICK S : rows[t] \in Seq(S)
      BY <1>2 DEF IsTable
    <2>4. rows[t] \in Seq(S \cup {e})
      BY <2>3, SeqMonotonic
    <2>5. PICK new : new = Append(rows[t], e)
      OBVIOUS
    <2>6. /\ new \in Seq(S \cup {e}) /\ Len(rows[t]) \in Nat
          /\ DOMAIN rows[t] = 1..Len(rows[t]) /\ DOMAIN new = 1..(Len(rows[t]) + 1)
          /\ \A i \in DOMAIN rows[t] : new[i] = rows[t][i]
          /\ new[Len(rows[t]) + 1] = e
      BY <2>4, <2>5, AppendProperties, LenProperties
    <2>7. /\ DOMAIN rows[t] \subseteq DOMAIN new
          /\ \A i \in DOMAIN new \ DOMAIN rows[t] : i = Len(rows[t]) + 1
      BY <2>6
    <2>8. IsTable(t, new)
      <3>1. IsRow(t, e)
        BY <2>1 DEF Adding
      <3>2. \A i \in DOMAIN rows[t] : IsRow(t, rows[t][i])
        BY <1>2 DEF IsTable
      <3> QED
        BY <2>6, <2>7, <3>1, <3>2 DEF IsTable
    <2>9. DOMAIN rows' = Tables /\ rows'[t] = new /\ \A u \in Tables \ {t} : rows'[u] = rows[u]
      BY <1>2, <1>4, <2>5
    <2>10. Alone(w)
      BY <2>8, <2>9 DEF Alone
    <2>11. Grows(w)
      BY <1>1, <2>1, <2>2, <2>6, <2>7, <2>9, <2>10 DEF Grows, Adding, Table
    <2>12. AddsOne(w)
      BY <2>1, <2>6, <2>7, <2>9 DEF AddsOne, Table
    <2> QED
      BY <1>1, <2>11, <2>12 DEF Handles
  <1> QED
    BY <1>1, <1>3, <1>4

LEMMA InsertAllHandles ==
    ASSUME Shape, NEW w \in Workers, Kept, InsertAll(w)
    PROVE  Handles(w) /\ (rows' # rows => AddsMany(w))
  <1> DEFINE e == req[w].entity
  <1>1. /\ ~Idle(w) /\ UNCHANGED <<stale, carried>> /\ Head(req[w].todo) = "insertAll"
        /\ Only(w) /\ req'[w] = NoRequest
        /\ rows' = rows \/ rows' = [rows EXCEPT !["outlet"] = @ \o e]
    BY EndsOnly DEF InsertAll, Doing, Kept
  <1>2. Sound(req[w]) /\ DOMAIN rows = Tables /\ "outlet" \in Tables
    BY <1>1, Underway DEF Shape, Tables
  <1>3. CASE rows' = rows
    BY <1>1, <1>3 DEF Handles, Quiet
  <1>4. CASE rows' = [rows EXCEPT !["outlet"] = @ \o e]
    <2>1. AddingMany(req[w])
      <3>1. ~SaveTodo(req[w].todo)
        <4> SUFFICES ASSUME SaveTodo(req[w].todo) PROVE FALSE
          OBVIOUS
        <4>1. Len(req[w].todo) \in Nat /\ Len(req[w].todo) >= 1
              /\ Head(req[w].todo) = req[w].todo[1]
          BY DEF SaveTodo
        <4> QED
          BY <1>1, <4>1 DEF SaveTodo, Before
      <3>2. ~InsertTodo(req[w].todo)
        <4> SUFFICES ASSUME InsertTodo(req[w].todo) PROVE FALSE
          OBVIOUS
        <4>1. Len(req[w].todo) \in Nat /\ Len(req[w].todo) >= 1
              /\ Head(req[w].todo) = req[w].todo[1]
          BY DEF InsertTodo
        <4> QED
          BY <1>1, <4>1 DEF InsertTodo, Before
      <3> QED
        BY <1>2, <3>1, <3>2 DEF Sound, Saving, Adding
    <2>2. req[w].table = "outlet" /\ IsTable("outlet", e) /\ IsTable("outlet", rows["outlet"])
      BY <1>2, <2>1 DEF AddingMany, Shape
    <2>3. PICK S, T : rows["outlet"] \in Seq(S) /\ e \in Seq(T)
      BY <2>2 DEF IsTable
    <2>4. rows["outlet"] \in Seq(S \cup T) /\ e \in Seq(S \cup T)
      BY <2>3, SeqMonotonic
    <2>5. PICK old, new : old = rows["outlet"] /\ new = old \o e
      OBVIOUS
    <2>6. /\ new \in Seq(S \cup T) /\ Len(new) = Len(old) + Len(e)
          /\ \A i \in 1..Len(old) + Len(e) :
               new[i] = IF i <= Len(old) THEN old[i] ELSE e[i - Len(old)]
      BY <2>4, <2>5, ConcatProperties
    <2>7. /\ Len(old) \in Nat /\ Len(e) \in Nat /\ DOMAIN old = 1..Len(old)
          /\ DOMAIN e = 1..Len(e) /\ DOMAIN new = 1..(Len(old) + Len(e))
      BY <2>4, <2>5, <2>6, LenProperties
    <2>8. /\ DOMAIN old \subseteq DOMAIN new
          /\ \A i \in DOMAIN old : new[i] = old[i]
          /\ \A i \in DOMAIN new \ DOMAIN old : i - Len(old) \in DOMAIN e /\ new[i] = e[i - Len(old)]
      BY <2>6, <2>7
    <2>9. IsTable("outlet", new)
      <3>1. ASSUME NEW i \in DOMAIN new PROVE IsRow("outlet", new[i])
        BY <2>2, <2>5, <2>8 DEF IsTable
      <3> QED
        BY <2>6, <3>1 DEF IsTable
    <2>10. /\ DOMAIN rows' = Tables /\ rows'["outlet"] = new
           /\ \A u \in Tables \ {"outlet"} : rows'[u] = rows[u]
      BY <1>2, <1>4, <2>5
    <2>11. /\ Table(w) = old /\ rows'[req[w].table] = new
      BY <2>2, <2>5, <2>10 DEF Table
    <2>12. Alone(w)
      BY <2>2, <2>9, <2>10 DEF Alone
    <2>13. Grows(w)
      BY <1>1, <2>2, <2>8, <2>11, <2>12 DEF Grows
    <2>14. AddsMany(w)
      <3>1. PICK nth : nth = [i \in DOMAIN new \ DOMAIN old |-> i - Len(old)]
        OBVIOUS
      <3>2. /\ nth \in [DOMAIN new \ DOMAIN old -> DOMAIN e]
            /\ \A i \in DOMAIN new \ DOMAIN old : new[i] = e[nth[i]]
            /\ \A i, j \in DOMAIN new \ DOMAIN old : nth[i] = nth[j] => i = j
        BY <2>7, <2>8, <3>1
      <3> QED
        BY <2>1, <2>2, <2>8, <2>11, <3>2 DEF AddsMany
    <2> QED
      BY <1>1, <2>13, <2>14 DEF Handles
  <1> QED
    BY <1>1, <1>3, <1>4

LEMMA WriteHandles ==
    ASSUME Shape, NEW w \in Workers, Kept, Write(w)
    PROVE  Handles(w) /\ (rows' # rows => Writes(w))
  <1> DEFINE t == req[w].table
             id == req[w].id
             row == Overlay(Table(w)[id], req[w].entity, req[w].diff)
  <1>1. /\ ~Idle(w) /\ UNCHANGED <<stale, carried>> /\ Head(req[w].todo) = "write"
        /\ Only(w) /\ req'[w] = NoRequest
        /\ rows' = rows \/ rows' = [rows EXCEPT ![t][id] = row]
    BY EndsOnly DEF Write, UpdateRow, Doing, Kept
  <1>2. t \in Tables /\ Sound(req[w]) /\ IsTable(t, Table(w)) /\ DOMAIN rows = Tables
    BY <1>1, Underway DEF Shape
  <1>3. CASE rows' = rows
    BY <1>1, <1>3 DEF Handles, Quiet
  <1>4. CASE rows' = [rows EXCEPT ![t][id] = row]
    <2>1. Saving(req[w]) /\ req[w].todo = <<"write">>
      <3>1. ~InsertTodo(req[w].todo)
        BY <1>1, InsertFresh DEF Fresh
      <3>2. ~BulkTodo(req[w].todo)
        BY <1>1 DEF BulkTodo
      <3>3. Saving(req[w])
        BY <1>2, <3>1, <3>2 DEF Sound, Adding, AddingMany
      <3>4. PICK s : s = req[w].todo
        OBVIOUS
      <3>5. /\ s \in Seq(Steps) /\ s # <<>> /\ Head(s) = "write"
            /\ \A k \in 1..Len(s) : s[k] = "write" <=> k = Len(s)
        BY <1>1, <3>3, <3>4 DEF Saving, SaveTodo
      <3>6. Len(s) \in Nat /\ Len(s) >= 1 /\ Head(s) = s[1]
        BY <3>5
      <3>60. 1 \in 1..Len(s)
        BY <3>6
      <3>7. s[1] = "write" <=> 1 = Len(s)
        BY <3>5, <3>60, Zenon
      <3>8. Len(s) = 1 /\ s[1] = "write"
        BY <3>5, <3>6, <3>7
      <3>9. s = <<"write">>
        BY <3>5, <3>8
      <3> QED
        BY <3>3, <3>4, <3>9
    <2>2. id \in DOMAIN Table(w)
      BY <2>1 DEF Saving, Table
    <2>3. PICK r : r = row
      OBVIOUS
    <2>4. PICK new : new = [Table(w) EXCEPT ![id] = r]
      OBVIOUS
    <2>5. DOMAIN rows' = Tables /\ rows'[t] = new /\ \A u \in Tables \ {t} : rows'[u] = rows[u]
      BY <1>2, <1>4, <2>3, <2>4 DEF Table
    <2>6. /\ DOMAIN new = DOMAIN Table(w) /\ new[id] = r
          /\ \A i \in DOMAIN new \ {id} : new[i] = Table(w)[i]
      BY <2>2, <2>4
    <2>7. IsRow(t, r)
      <3>1. DOMAIN Table(w)[id] = Columns[t]
        BY <1>2, <2>2 DEF IsTable, IsRow
      <3> QED
        BY <2>3, <3>1 DEF IsRow, Overlay
    <2>8. IsTable(t, new)
      <3>1. PICK S : Table(w) \in Seq(S)
        BY <1>2 DEF IsTable
      <3>2. Table(w) \in Seq(S \cup {r})
        BY <3>1, SeqMonotonic
      <3>3. id \in 1..Len(Table(w))
        BY <2>2, <3>2, LenProperties
      <3>4. new \in Seq(S \cup {r})
        BY <2>4, <3>2, <3>3, ExceptSeq
      <3>5. \A i \in DOMAIN new : IsRow(t, new[i])
        BY <1>2, <2>6, <2>7 DEF IsTable
      <3> QED
        BY <3>4, <3>5 DEF IsTable
    <2>9. Alone(w)
      BY <2>5, <2>8 DEF Alone
    <2>10. Writes(w)
      BY <1>1, <2>1, <2>2, <2>3, <2>5, <2>6, <2>9 DEF Writes
    <2> QED
      BY <1>1, <2>10 DEF Handles
  <1> QED
    BY <1>1, <1>3, <1>4

LEMMA UnsetHandles ==
    ASSUME Shape, NEW w \in Workers, UnsetOtherDefaults(w)
    PROVE  Handles(w) /\ Unsets(w)
  <1> DEFINE unset(i) == [rows["warehouse"][i] EXCEPT !.default = @ /\ i \notin OtherDefaults(w)]
  <1>1. /\ ~Idle(w) /\ UNCHANGED <<stale, carried>> /\ Head(req[w].todo) = "unset"
        /\ Only(w) /\ Further(req[w], req'[w])
        /\ rows' = [rows EXCEPT !["warehouse"] = WithoutOthers(w)]
    BY DoneFurther DEF UnsetOtherDefaults, Doing
  <1>2. PICK new : new = WithoutOthers(w)
    OBVIOUS
  <1>3. DOMAIN rows = Tables /\ Sound(req[w])
    BY <1>1, Underway DEF Shape
  <1>4. /\ DOMAIN rows' = Tables /\ rows'["warehouse"] = new
        /\ \A t \in Tables \ {"warehouse"} : rows'[t] = rows[t]
    BY <1>1, <1>2, <1>3 DEF Tables
  <1>5. req[w].table = "warehouse"
    <2>1. PICK s : s = req[w].todo
      OBVIOUS
    <2>2. s \in Seq(Steps) /\ s # <<>>
      <3>1. ~BulkTodo(s)
        BY <1>1, <2>1 DEF BulkTodo
      <3> QED
        BY <1>3, <2>1, <3>1 DEF Sound, Saving, Adding, AddingMany, SaveTodo, InsertTodo
    <2>3. 1 \in 1..Len(s) /\ s[1] = "unset"
      BY <1>1, <2>1, <2>2
    <2> QED
      BY <1>3, <2>1, <2>3 DEF Sound, Will
  <1>6. IsTable("warehouse", rows["warehouse"])
    BY DEF Shape, Tables
  <1>7. DOMAIN new = DOMAIN rows["warehouse"] /\ \A i \in DOMAIN new : new[i] = unset(i)
    BY <1>2 DEF WithoutOthers, All
  <1>8. IsTable("warehouse", new)
    <2>1. \A i \in DOMAIN new : IsRow("warehouse", new[i])
      BY <1>6, <1>7 DEF IsTable, IsRow
    <2>2. PICK S : rows["warehouse"] \in Seq(S)
      BY <1>6 DEF IsTable
    <2>3. Len(rows["warehouse"]) \in Nat /\ DOMAIN new = 1..Len(rows["warehouse"])
      BY <1>7, <2>2, LenProperties
    <2>4. new \in [1..Len(rows["warehouse"]) -> {unset(i) : i \in DOMAIN rows["warehouse"]}]
      BY <1>2, <2>3 DEF WithoutOthers, All
    <2>5. new \in Seq({unset(i) : i \in DOMAIN rows["warehouse"]})
      BY <2>3, <2>4, SeqDef
    <2> QED
      BY <2>1, <2>5 DEF IsTable
  <1>9. Alone(w)
    BY <1>4, <1>5, <1>8 DEF Alone
  <1>10. Unsets(w)
    BY <1>1, <1>4, <1>5, <1>7, <1>9 DEF Unsets, Table
  <1> QED
    BY <1>1, <1>10 DEF Handles

(* Whatever a request does once it has begun.                              *)
LEMMA RequestsHandled ==
    ASSUME Shape, NEW w \in Workers,
           ((Proceed(w) \/ Abandon(w)) /\ Kept) \/ UnsetOtherDefaults(w)
    PROVE  Handles(w)
  BY CheckHandles, LoadHandles, AbandonHandles, InsertHandles, InsertAllHandles,
     WriteHandles, UnsetHandles DEF Proceed
----------------------------------------------------------------------------
(* The shape is kept.                                                      *)

LEMMA TodoGoesOn ==
    ASSUME NEW q, NEW r, Sound(q), Further(q, r),
           Head(q.todo) \in {"refs", "code", "codes", "load", "unset"}
    PROVE  /\ Sound(r)
           /\ r.todo = <<"write">> => Head(q.todo) = "load"
           /\ \A step \in Before : Will(r.todo, step) => Will(q.todo, step)
           /\ \A step \in Before : Will(q.todo, step) =>
                                     Head(q.todo) = step \/ Will(r.todo, step)
  <1> USE DEF Further
  <1>1. Head(q.todo) # "write" /\ Head(q.todo) # "insert"
    OBVIOUS
  <1>2. CASE Saving(q)
    <2>1. /\ SaveTodo(r.todo)
          /\ r.todo = <<"write">> => Head(q.todo) = "load"
          /\ \A step : Will(r.todo, step) => Will(q.todo, step)
          /\ \A step : Will(q.todo, step) => Head(q.todo) = step \/ Will(r.todo, step)
      BY <1>1, <1>2, SaveGoesOn DEF Saving
    <2>2. Saving(r)
      BY <1>2, <2>1 DEF Saving
    <2> QED
      BY <2>1, <2>2 DEF Sound
  <1>3. CASE Adding(q)
    <2>1. /\ InsertTodo(r.todo)
          /\ \A step : Will(r.todo, step) => Will(q.todo, step)
          /\ \A step : Will(q.todo, step) => Head(q.todo) = step \/ Will(r.todo, step)
      BY <1>1, <1>3, InsertGoesOn DEF Adding
    <2>2. Adding(r)
      BY <1>3, <2>1 DEF Adding
    <2>3. r.todo # <<"write">>
      <3>1. Head(<<"write">>) = "write"
        OBVIOUS
      <3>2. PICK s : s = r.todo
        OBVIOUS
      <3>3. Head(s) # "write"
        BY <2>1, <3>2, InsertFresh DEF Fresh
      <3> QED
        BY <3>1, <3>2, <3>3
    <2> QED
      BY <2>1, <2>2, <2>3 DEF Sound
  <1>4. CASE AddingMany(q)
    <2>1. q.todo = <<"codes", "insertAll">>
      <3>1. Head(<<"insertAll">>) = "insertAll"
        OBVIOUS
      <3> QED
        BY <1>4, <3>1 DEF AddingMany, BulkTodo
    <2>2. r.todo = <<"insertAll">>
      BY <2>1
    <2>3. AddingMany(r)
      BY <1>4, <2>2 DEF AddingMany, BulkTodo
    <2>4. \A step \in Before : ~Will(r.todo, step) /\ ~Will(q.todo, step)
      BY <2>1, <2>2 DEF Will, Before
    <2>5. "unset" \in Before
      BY DEF Before
    <2>6. r.todo # <<"write">>
      <3>1. <<"insertAll">>[1] = "insertAll" /\ <<"write">>[1] = "write"
        OBVIOUS
      <3>2. <<"insertAll">> # <<"write">>
        BY <3>1
      <3> QED
        BY <2>2, <3>2
    <2> QED
      BY <2>3, <2>4, <2>5, <2>6 DEF Sound
  <1> QED
    BY <1>2, <1>3, <1>4 DEF Sound

(* Tables only grow.                                                       *)
Grown == /\ DOMAIN rows' = Tables
         /\ \A t \in Tables : IsTable(t, rows'[t]) /\ DOMAIN rows[t] \subseteq DOMAIN rows'[t]

LEMMA ShapeKept ==
    ASSUME Shape, NEW w \in Workers, Only(w), Grown,
           req'[w] = NoRequest \/ Sound(req'[w])
    PROVE  Shape'
  <1>1. ASSUME NEW q, Sound(q) PROVE Sound(q)'
    <2>1. q.table \in Tables
      BY <1>1 DEF Sound
    <2>2. Saving(q) => Saving(q)'
      BY <2>1 DEF Saving, Grown
    <2>3. Adding(q) => Adding(q)'
      BY DEF Adding
    <2>4. AddingMany(q) => AddingMany(q)'
      BY DEF AddingMany
    <2> QED
      BY <1>1, <2>2, <2>3, <2>4 DEF Sound
  <1>2. PICK r : r = req'
    OBVIOUS
  <1>3. \A v \in Workers : r[v] = NoRequest \/ Sound(r[v])
    BY <1>2 DEF Shape, Only
  <1>4. \A v \in Workers : (req[v] = NoRequest \/ Sound(req[v]))'
    BY <1>1, <1>2, <1>3
  <1> QED
    BY <1>4 DEF Shape, Only, Grown

LEMMA HandledGrow ==
    ASSUME Shape, NEW w \in Workers, Handles(w)
    PROVE  Grown
  <1>1. /\ DOMAIN rows = Tables /\ \A t \in Tables : IsTable(t, rows[t])
        /\ req[w].table \in Tables
    BY Underway DEF Shape, Handles
  <1>2. CASE Quiet(w)
    BY <1>1, <1>2 DEF Quiet, Grown
  <1>3. CASE Grows(w)
    BY <1>1, <1>3 DEF Grows, Alone, Grown, Table
  <1>4. CASE Writes(w)
    BY <1>1, <1>4 DEF Writes, Alone, Grown, Table
  <1>5. CASE Unsets(w)
    BY <1>1, <1>5 DEF Unsets, Alone, Grown, Table
  <1> QED
    BY <1>2, <1>3, <1>4, <1>5 DEF Handles

(* A request that goes on, or has ended.                                   *)
LEMMA HandledGoesOn ==
    ASSUME Shape, NEW w \in Workers, Handles(w)
    PROVE  \/ req'[w] = NoRequest
           \/ /\ Further(req[w], req'[w])
              /\ Head(req[w].todo) \in {"refs", "code", "codes", "load", "unset"}
              /\ Head(req[w].todo) = "load" =>
                   /\ rows' = rows
                   /\ req'[w].diff = Differing(req[w].entity, Table(w)[req[w].id])
  BY DEF Handles, Quiet, Grows, Writes, Unsets

LEMMA ShapeHandled ==
    ASSUME Shape, NEW w \in Workers, Handles(w)
    PROVE  Shape'
  <1>1. Sound(req[w]) /\ Only(w)
    BY Underway DEF Handles
  <1>2. PICK r : r = req'[w]
    OBVIOUS
  <1>3. r = NoRequest \/ Sound(r)
    BY <1>1, <1>2, HandledGoesOn, TodoGoesOn
  <1> QED
    BY <1>1, <1>2, <1>3, HandledGrow, ShapeKept

LEMMA OpenOnly ==
    ASSUME Shape, NEW w \in Workers, NEW q, Open(w, q)
    PROVE  /\ Idle(w) /\ Only(w) /\ req'[w] = q /\ rows' = rows
           /\ stale \subseteq stale'
           /\ \A v \in Others(w) : req[v].table = q.table => q.table \in stale'
  BY DEF Shape, Open, Only

LEMMA ShapeBegun ==
    ASSUME Shape, NEW w \in Workers, Begins(w)
    PROVE  Shape'
  <1>1. PICK q : Open(w, q) /\ Sound(q)
    BY DEF Begins
  <1>2. Only(w) /\ req'[w] = q /\ rows' = rows
    BY <1>1, OpenOnly
  <1>3. Grown
    BY <1>2 DEF Grown, Shape
  <1>4. PICK r : r = req'[w]
    OBVIOUS
  <1>5. r = NoRequest \/ Sound(r)
    BY <1>1, <1>2, <1>4
  <1> QED
    BY <1>2, <1>3, <1>4, <1>5, ShapeKept
----------------------------------------------------------------------------
(* Requests on a table come one after the other, unless it is marked; one  *)
(* about to write will set what its row still differs in.                  *)
Single ==
    \A t \in Tables \ stale : \A w \in Workers : ~Idle(w) /\ req[w].table = t =>
      /\ \A v \in Workers : ~Idle(v) /\ req[v].table = t => v = w
      /\ req[w].todo = <<"write">> =>
           req[w].diff = Differing(req[w].entity, rows[t][req[w].id])

LEMMA OtherTables ==
    ASSUME NEW w \in Workers, Handles(w), NEW t \in Tables, t # req[w].table
    PROVE  rows'[t] = rows[t]
  BY DEF Handles, Quiet, Grows, Writes, Unsets, Alone

LEMMA OthersAtWork ==
    ASSUME Shape, NEW w \in Workers, Handles(w), NEW v \in Workers, ~Idle(v)'
    PROVE  /\ ~Idle(v) /\ req'[v].table = req[v].table /\ req'[v].id = req[v].id
           /\ req'[v].entity = req[v].entity /\ req'[v].refs = req[v].refs
           /\ v # w => req'[v] = req[v]
           /\ v = w => Further(req[w], req'[w])
  <1>1. CASE v # w
    BY <1>1 DEF Handles, Only, Idle
  <1>2. CASE v = w
    BY <1>2, HandledGoesOn DEF Handles, Idle, NoRequest, Further
  <1> QED
    BY <1>1, <1>2

LEMMA SingleHandled ==
    ASSUME Shape, Single, NEW w \in Workers, Handles(w)
    PROVE  Single'
  <1> SUFFICES ASSUME NEW t \in Tables \ stale, NEW u \in Workers,
                      ~Idle(u)', req'[u].table = t
               PROVE  /\ \A v \in Workers : ~Idle(v)' /\ req'[v].table = t => v = u
                      /\ req'[u].todo = <<"write">> =>
                           req'[u].diff = Differing(req'[u].entity, rows'[t][req'[u].id])
    BY DEF Single, Handles
  <1>1. /\ ~Idle(u) /\ req[u].table = t
        /\ \A v \in Workers : ~Idle(v) /\ req[v].table = t => v = u
        /\ req[u].todo = <<"write">> =>
             req[u].diff = Differing(req[u].entity, rows[t][req[u].id])
    BY OthersAtWork DEF Single
  <1>2. \A v \in Workers : ~Idle(v)' /\ req'[v].table = t => v = u
    BY <1>1, OthersAtWork
  <1>3. ASSUME req'[u].todo = <<"write">>
        PROVE  req'[u].diff = Differing(req'[u].entity, rows'[t][req'[u].id])
    <2>1. CASE u # w
      <3>1. req'[u] = req[u]
        BY <2>1, OthersAtWork
      <3>2. ~Idle(w) /\ t # req[w].table
        BY <1>1, <2>1 DEF Handles
      <3>3. rows'[t] = rows[t]
        BY <3>2, OtherTables
      <3> QED
        BY <1>1, <1>3, <3>1, <3>3
    <2>2. CASE u = w
      <3>1. Further(req[w], req'[w]) /\ Sound(req[w])
        BY <2>2, OthersAtWork, Underway DEF Handles
      <3>2. req'[w] # NoRequest
        BY <2>2 DEF Idle, NoRequest
      <3>3. Head(req[w].todo) \in {"refs", "code", "codes", "load", "unset"}
        BY <3>2, HandledGoesOn
      <3>4. PICK r : r = req'[w]
        OBVIOUS
      <3>5. Head(req[w].todo) = "load"
        BY <1>3, <2>2, <3>1, <3>3, <3>4, TodoGoesOn
      <3>6. rows' = rows /\ req'[w].diff = Differing(req[w].entity, Table(w)[req[w].id])
        BY <3>2, <3>5, HandledGoesOn
      <3> QED
        BY <1>1, <2>2, <3>1, <3>6 DEF Further, Table
    <2> QED
      BY <2>1, <2>2
  <1> QED
    BY <1>2, <1>3

LEMMA SingleBegun ==
    ASSUME Shape, Single, NEW w \in Workers, Begins(w)
    PROVE  Single'
  <1>1. PICK q : Open(w, q) /\ Sound(q) /\ Fresh(q.todo)
    BY DEF Begins
  <1>2. /\ Idle(w) /\ Only(w) /\ req'[w] = q /\ rows' = rows
        /\ stale \subseteq stale'
        /\ \A v \in Others(w) : req[v].table = q.table => q.table \in stale'
    BY <1>1, OpenOnly
  <1>3. Head(<<"write">>) = "write"
    OBVIOUS
  <1>4. q.todo # <<"write">>
    BY <1>1, <1>3 DEF Fresh
  <1> SUFFICES ASSUME NEW t \in Tables \ stale', NEW u \in Workers,
                      ~Idle(u)', req'[u].table = t
               PROVE  /\ \A v \in Workers : ~Idle(v)' /\ req'[v].table = t => v = u
                      /\ req'[u].todo = <<"write">> =>
                           req'[u].diff = Differing(req'[u].entity, rows'[t][req'[u].id])
    BY DEF Single
  <1>5. \A v \in Workers \ {w} : ~Idle(v)' /\ req'[v].table = t =>
          ~Idle(v) /\ req[v].table = t /\ v \in Others(w) /\ t # q.table
    BY <1>2 DEF Only, Idle, Others
  <1>6. CASE u = w
    BY <1>2, <1>4, <1>5, <1>6
  <1>7. CASE u # w
    <2>1. ~Idle(u) /\ req[u].table = t /\ t # q.table /\ req'[u] = req[u] /\ t \notin stale
      BY <1>2, <1>5, <1>7 DEF Only
    <2>2. /\ \A v \in Workers : ~Idle(v) /\ req[v].table = t => v = u
          /\ req[u].todo = <<"write">> =>
               req[u].diff = Differing(req[u].entity, rows[t][req[u].id])
      BY <2>1 DEF Single
    <2>3. \A v \in Workers : ~Idle(v)' /\ req'[v].table = t => v = u
      BY <1>2, <1>5, <2>1, <2>2
    <2> QED
      BY <1>2, <2>1, <2>2, <2>3
  <1> QED
    BY <1>6, <1>7
----------------------------------------------------------------------------
(* Default warehouses.                                                     *)

NoOther(warehouses, id, owner) ==
    \A i \in DOMAIN warehouses \ {id} :
        ~warehouses[i].deleted /\ warehouses[i].default => warehouses[i].owner # owner

MayBeDefault(q, warehouses, exempt) ==
    q.entity.default /\ q.entity.owner \notin exempt =>
      Will(q.todo, "unset") \/ NoOther(warehouses, q.id, q.entity.owner)

Defaults ==
    "warehouse" \notin stale =>
      /\ OneDefault(rows["warehouse"], carried)
      /\ \A w \in Workers : ~Idle(w) /\ req[w].table = "warehouse" =>
           MayBeDefault(req[w], rows["warehouse"], carried)

LEMMA OneDefaultWith ==
    ASSUME NEW t, NEW u, NEW id, NEW exempt, OneDefault(t, exempt),
           \A i \in DOMAIN u \ {id} : i \in DOMAIN t /\ u[i] = t[i],
           id \in DOMAIN u /\ u[id].default /\ u[id].owner \notin exempt =>
             NoOther(t, id, u[id].owner)
    PROVE  OneDefault(u, exempt)
  <1> SUFFICES ASSUME NEW i \in DOMAIN u, NEW j \in DOMAIN u,
                      ~u[i].deleted, u[i].default, ~u[j].deleted, u[j].default,
                      u[i].owner = u[j].owner, u[i].owner \notin exempt
               PROVE  i = j
    BY DEF OneDefault
  <1>1. CASE i = id /\ j # id
    BY <1>1 DEF NoOther
  <1>2. CASE j = id /\ i # id
    BY <1>2 DEF NoOther
  <1>3. CASE i # id /\ j # id
    BY <1>3 DEF OneDefault
  <1> QED
    BY <1>1, <1>2, <1>3

LEMMA OneDefaultLess ==
    ASSUME NEW t, NEW u, NEW more, NEW exempt, OneDefault(t, exempt), exempt \subseteq more,
           DOMAIN u = DOMAIN t,
           \A i \in DOMAIN u : /\ u[i].deleted = t[i].deleted /\ u[i].owner = t[i].owner
                               /\ u[i].default => t[i].default
    PROVE  OneDefault(u, more)
  <1> SUFFICES ASSUME NEW i \in DOMAIN u, NEW j \in DOMAIN u,
                      ~u[i].deleted, u[i].default, ~u[j].deleted, u[j].default,
                      u[i].owner = u[j].owner, u[i].owner \notin more
               PROVE  i = j
    BY DEF OneDefault
  <1> QED
    BY DEF OneDefault

LEMMA NoneIsNoRow ==
    ASSUME Shape, NEW t \in Tables
    PROVE  None \notin DOMAIN rows[t]
  <1>1. PICK S : rows[t] \in Seq(S)
    BY DEF Shape, IsTable
  <1> QED
    BY <1>1, LenProperties DEF None

LEMMA WarehouseColumns ==
    ASSUME Shape, NEW i \in DOMAIN rows["warehouse"]
    PROVE  DOMAIN rows["warehouse"][i] = {"code", "status", "deleted", "owner", "default"}
  BY DEF Shape, IsTable, IsRow, Columns, Tables

LEMMA OneDefaultHandled ==
    ASSUME Shape, Single, Defaults, NEW w \in Workers, Handles(w), "warehouse" \notin stale
    PROVE  OneDefault(rows'["warehouse"], carried)
  <1> DEFINE old == rows["warehouse"]
             new == rows'["warehouse"]
             e == req[w].entity
             id == req[w].id
  <1>1. "warehouse" \in Tables /\ ~Idle(w)
    BY DEF Tables, Handles
  <1>2. OneDefault(old, carried)
    BY DEF Defaults
  <1>3. CASE req[w].table # "warehouse" \/ Quiet(w)
    BY <1>1, <1>2, <1>3, OtherTables DEF Quiet
  <1>4. CASE req[w].table = "warehouse" /\ Grows(w)
    <2>1. MayBeDefault(req[w], old, carried) /\ ~Will(req[w].todo, "unset") /\ id = None
      BY <1>1, <1>4 DEF Defaults, Grows
    <2>2. e.default /\ e.owner \notin carried => NoOther(old, None, e.owner)
      BY <2>1 DEF MayBeDefault
    <2>3. None \notin DOMAIN old
      BY <1>1, NoneIsNoRow
    <2>4. /\ DOMAIN old \subseteq DOMAIN new
          /\ \A i \in DOMAIN old : new[i] = old[i]
          /\ \A i \in DOMAIN new \ DOMAIN old : new[i] = e
          /\ \A i, j \in DOMAIN new \ DOMAIN old : i = j
      BY <1>4 DEF Grows, Table
    <2> HIDE DEF old, new, e
    <2>5. CASE DOMAIN new = DOMAIN old
      <3>1. \A i \in DOMAIN new \ {None} : i \in DOMAIN old /\ new[i] = old[i]
        BY <2>4, <2>5
      <3>2. None \notin DOMAIN new
        BY <2>3, <2>5
      <3> QED
        BY <1>2, <3>1, <3>2, OneDefaultWith DEF new
    <2>6. ASSUME NEW n \in DOMAIN new \ DOMAIN old
          PROVE  OneDefault(new, carried)
      <3>1. \A i \in DOMAIN new \ {n} : i \in DOMAIN old /\ new[i] = old[i]
        BY <2>4, <2>6
      <3>2. new[n].default /\ new[n].owner \notin carried => NoOther(old, n, new[n].owner)
        BY <2>2, <2>3, <2>4, <2>6 DEF NoOther
      <3> QED
        BY <1>2, <3>1, <3>2, OneDefaultWith
    <2> QED
      BY <2>4, <2>5, <2>6 DEF new
  <1>5. CASE req[w].table = "warehouse" /\ Writes(w)
    <2>1. /\ req[w].todo = <<"write">> /\ MayBeDefault(req[w], old, carried)
          /\ req[w].diff = Differing(e, old[id])
      BY <1>1, <1>5 DEF Defaults, Single, Writes
    <2>2. /\ DOMAIN new = DOMAIN old /\ id \in DOMAIN old
          /\ \A i \in DOMAIN new \ {id} : new[i] = old[i]
          /\ new[id] = Overlay(old[id], e, req[w].diff)
      BY <1>5 DEF Writes, Table
    <2>3. ~Will(req[w].todo, "unset")
      BY <2>1 DEF Will
    <2>4. DOMAIN old[id] = {"code", "status", "deleted", "owner", "default"}
      BY <2>2, WarehouseColumns
    <2>5. new[id].default = e.default /\ new[id].owner = e.owner
      BY <2>1, <2>2, <2>4 DEF Overlay, Differing
    <2>6. new[id].default /\ new[id].owner \notin carried => NoOther(old, id, new[id].owner)
      BY <2>1, <2>3, <2>5 DEF MayBeDefault
    <2>7. \A i \in DOMAIN new \ {id} : i \in DOMAIN old /\ new[i] = old[i]
      BY <2>2
    <2> HIDE DEF old, new, e, id
    <2>8. OneDefault(new, carried)
      BY <1>2, <2>6, <2>7, OneDefaultWith
    <2> QED
      BY <2>8 DEF new
  <1>6. CASE Unsets(w)
    <2>1. /\ DOMAIN new = DOMAIN old
          /\ \A i \in DOMAIN new :
               new[i] = [old[i] EXCEPT !.default = @ /\ i \notin OtherDefaults(w)]
      BY <1>6 DEF Unsets, Table
    <2>2. ASSUME NEW i \in DOMAIN new
          PROVE  /\ new[i].deleted = old[i].deleted /\ new[i].owner = old[i].owner
                 /\ new[i].default => old[i].default
      <3>1. DOMAIN old[i] = {"code", "status", "deleted", "owner", "default"}
        BY <2>1, WarehouseColumns
      <3>2. new[i] = [old[i] EXCEPT !.default = @ /\ i \notin OtherDefaults(w)]
        BY <2>1
      <3> HIDE DEF old, new
      <3>3. new[i].default = (old[i].default /\ i \notin OtherDefaults(w))
        BY <3>1, <3>2
      <3> QED
        BY <3>1, <3>2, <3>3
    <2> HIDE DEF old, new
    <2> QED
      BY <1>2, <2>1, <2>2, OneDefaultLess DEF new
  <1> QED
    BY <1>3, <1>4, <1>5, <1>6 DEF Handles

LEMMA MayBeDefaultHandled ==
    ASSUME Shape, Single, Defaults, NEW w \in Workers, Handles(w), "warehouse" \notin stale,
           NEW v \in Workers, ~Idle(v)', req'[v].table = "warehouse"
    PROVE  MayBeDefault(req'[v], rows'["warehouse"], carried)
  <1> DEFINE old == rows["warehouse"]
             new == rows'["warehouse"]
             q == req[v]
  <1>1. /\ "warehouse" \in Tables /\ ~Idle(w) /\ ~Idle(v) /\ q.table = "warehouse"
        /\ v # w => req'[v] = q
        /\ v = w => Further(req[w], req'[w])
    BY OthersAtWork DEF Tables, Handles
  <1>2. MayBeDefault(q, old, carried)
    BY <1>1 DEF Defaults
  <1>3. CASE v # w
    <2>1. req[w].table # "warehouse"
      BY <1>1, <1>3 DEF Single
    <2> QED
      BY <1>1, <1>2, <1>3, <2>1, OtherTables
  <1>4. CASE v = w
    <2>1. PICK r : r = req'[w]
      OBVIOUS
    <2>2. /\ Further(q, r) /\ Sound(q)
          /\ Head(q.todo) \in {"refs", "code", "codes", "load", "unset"}
      <3>1. req'[w] # NoRequest
        BY <1>4 DEF Idle, NoRequest
      <3> QED
        BY <1>1, <1>4, <2>1, <3>1, HandledGoesOn, Underway
    <2>3. Will(q.todo, "unset") => Head(q.todo) = "unset" \/ Will(r.todo, "unset")
      BY <2>2, TodoGoesOn DEF Before
    <2>4. r.entity = q.entity /\ r.id = q.id
      BY <2>2 DEF Further
    <2>5. CASE Unsets(w)
      <3>1. /\ DOMAIN new = DOMAIN old
            /\ \A i \in DOMAIN new :
                 new[i] = [old[i] EXCEPT !.default = @ /\ i \notin OtherDefaults(w)]
        BY <2>5 DEF Unsets, Table
      <3>2. \A i \in DOMAIN new : /\ new[i].deleted = old[i].deleted
                                  /\ new[i].owner = old[i].owner
                                  /\ new[i].default => old[i].default /\ i \notin OtherDefaults(w)
        BY <3>1, WarehouseColumns
      <3>3. NoOther(new, q.id, q.entity.owner)
        BY <1>4, <3>1, <3>2 DEF NoOther, OtherDefaults, Live
      <3> QED
        BY <1>4, <2>1, <2>4, <3>3 DEF MayBeDefault
    <2>6. CASE Quiet(w)
      <3>1. new = old /\ Head(q.todo) # "unset"
        <4>1. req'[w] # NoRequest
          BY <1>4 DEF Idle, NoRequest
        <4> QED
          BY <1>4, <2>6, <4>1 DEF Quiet
      <3> QED
        BY <1>2, <1>4, <2>1, <2>3, <2>4, <3>1 DEF MayBeDefault
    <2>7. ~Grows(w) /\ ~Writes(w)
      BY <1>4 DEF Grows, Writes, Idle, NoRequest
    <2> QED
      BY <2>5, <2>6, <2>7 DEF Handles
  <1> QED
    BY <1>3, <1>4

LEMMA DefaultsHandled ==
    ASSUME Shape, Single, Defaults, NEW w \in Workers, Handles(w)
    PROVE  Defaults'
  <1>1. stale' = stale /\ carried' = carried
    BY DEF Handles
  <1> QED
    BY <1>1, OneDefaultHandled, MayBeDefaultHandled DEF Defaults

LEMMA DefaultsBegun ==
    ASSUME Shape, Defaults, NEW w \in Workers, Begins(w)
    PROVE  Defaults'
  <1>1. PICK q : Open(w, q) /\ Sound(q) /\ DefaultAsked(q)
    BY DEF Begins
  <1>2. /\ Idle(w) /\ Only(w) /\ req'[w] = q /\ rows' = rows /\ stale \subseteq stale'
        /\ carried \subseteq carried'
    BY <1>1, OpenOnly DEF Begins
  <1> SUFFICES ASSUME "warehouse" \notin stale'
               PROVE  /\ OneDefault(rows["warehouse"], carried')
                      /\ \A v \in Workers : ~Idle(v)' /\ req'[v].table = "warehouse" =>
                           MayBeDefault(req'[v], rows["warehouse"], carried')
    BY <1>2 DEF Defaults
  <1>3. OneDefault(rows["warehouse"], carried)
    BY <1>2 DEF Defaults
  <1>4. OneDefault(rows["warehouse"], carried')
    BY <1>2, <1>3, OneDefaultLess
  <1>5. ASSUME NEW v \in Workers, ~Idle(v)', req'[v].table = "warehouse"
        PROVE  MayBeDefault(req'[v], rows["warehouse"], carried')
    <2>1. CASE v # w
      <3>1. req'[v] = req[v] /\ ~Idle(v)
        BY <1>2, <1>5, <2>1 DEF Only, Idle
      <3>2. MayBeDefault(req[v], rows["warehouse"], carried)
        BY <1>2, <1>5, <3>1 DEF Defaults
      <3> QED
        BY <1>2, <3>1, <3>2 DEF MayBeDefault
    <2>2. CASE v = w
      <3> SUFFICES ASSUME q.entity.default, q.entity.owner \notin carried',
                          ~Will(q.todo, "unset")
                   PROVE  NoOther(rows["warehouse"], q.id, q.entity.owner)
        BY <1>2, <2>2 DEF MayBeDefault
      <3>1. LET row == rows["warehouse"][q.id]
            IN  /\ q.id \in DOMAIN rows["warehouse"]
                /\ ~row.deleted /\ row.default /\ row.owner = q.entity.owner
        BY <1>1, <1>2, <1>5, <2>2 DEF DefaultAsked
      <3> QED
        BY <1>4, <3>1 DEF NoOther, OneDefault
    <2> QED
      BY <2>1, <2>2
  <1> QED
    BY <1>4, <1>5
----------------------------------------------------------------------------
(* Distributors.                                                           *)

MayBeUnder(q, distributors) ==
    LET p == q.entity.parent
    IN  /\ q.entity.type = Primary => p = None
        /\ \/ p = None
           \/ q.id \in DOMAIN distributors /\ p = distributors[q.id].parent
           \/ p \in DOMAIN distributors /\ distributors[p].parent = None
           \/ Will(q.todo, "refs") /\ AsParent(q, p)

Parents ==
    "distributor" \notin stale =>
      /\ Trees(rows["distributor"])
      /\ \A w \in Workers : ~Idle(w) /\ req[w].table = "distributor" =>
           MayBeUnder(req[w], rows["distributor"])

(* A row that is put under one without a parent leaves trees.              *)
LEMMA TreesWith ==
    ASSUME NEW t, NEW u, NEW id, None \notin DOMAIN u, Trees(t),
           \A i \in DOMAIN u \ {id} : i \in DOMAIN t /\ u[i] = t[i],
           id \in DOMAIN u =>
             /\ u[id].type = Primary => u[id].parent = None
             /\ \/ u[id].parent = None
                \/ id \in DOMAIN t /\ u[id].parent = t[id].parent
                \/ u[id].parent \in DOMAIN t /\ t[u[id].parent].parent = None
    PROVE  Trees(u)
  <1>1. ASSUME NEW i \in DOMAIN u, u[i].type = Primary
        PROVE  u[i].parent = None
    BY <1>1 DEF Trees
  <1>2. ASSUME NEW group \in SUBSET DOMAIN u, group # {}
        PROVE  \E i \in group : u[i].parent \notin group \ {i}
    <2>1. CASE id \notin group
      <3>1. group \in SUBSET DOMAIN t /\ \A i \in group : u[i] = t[i]
        BY <2>1
      <3>2. PICK i \in group : t[i].parent \notin group \ {i}
        BY <1>2, <3>1 DEF Trees
      <3> QED
        BY <3>1, <3>2
    <2>2. CASE id \in group /\ u[id].parent \notin group \ {id}
      BY <2>2
    <2>3. CASE id \in group /\ u[id].parent \in group \ {id}
      <3>1. u[id].parent # None
        BY <2>3
      <3>2. CASE id \in DOMAIN t /\ u[id].parent = t[id].parent
        <4>1. group \in SUBSET DOMAIN t /\ \A i \in group : u[i].parent = t[i].parent
          BY <3>2
        <4>2. PICK i \in group : t[i].parent \notin group \ {i}
          BY <1>2, <4>1 DEF Trees
        <4> QED
          BY <4>1, <4>2
      <3>3. CASE u[id].parent \in DOMAIN t /\ t[u[id].parent].parent = None
        <4>1. PICK p : p = u[id].parent
          OBVIOUS
        <4>2. p \in group /\ p # id /\ u[p] = t[p] /\ t[p].parent = None
          BY <2>3, <3>3, <4>1
        <4>3. None \notin group
          OBVIOUS
        <4> QED
          BY <4>2, <4>3
      <3> QED
        BY <2>3, <3>1, <3>2, <3>3
    <2> QED
      BY <2>1, <2>2, <2>3
  <1> QED
    BY <1>1, <1>2 DEF Trees

LEMMA NoneIsNoPlace ==
    ASSUME NEW t, NEW table, IsTable(t, table)
    PROVE  None \notin DOMAIN table
  <1>1. PICK S : table \in Seq(S)
    BY DEF IsTable
  <1> QED
    BY <1>1, LenProperties DEF None

LEMMA TreesHandled ==
    ASSUME Shape, Single, Parents, NEW w \in Workers, Handles(w), "distributor" \notin stale
    PROVE  Trees(rows'["distributor"])
  <1> DEFINE old == rows["distributor"]
             new == rows'["distributor"]
             e == req[w].entity
             id == req[w].id
  <1>1. "distributor" \in Tables /\ ~Idle(w) /\ "distributor" # "warehouse"
    BY DEF Tables, Handles
  <1>2. Trees(old)
    BY DEF Parents
  <1>3. CASE req[w].table # "distributor" \/ Quiet(w) \/ Unsets(w)
    <2>1. req[w].table # "distributor" \/ Quiet(w)
      BY <1>1, <1>3 DEF Unsets
    <2> QED
      BY <1>1, <1>2, <2>1, OtherTables DEF Quiet
  <1>4. CASE req[w].table = "distributor" /\ Grows(w)
    <2>1. /\ MayBeUnder(req[w], old) /\ ~Will(req[w].todo, "refs") /\ id = None
          /\ IsTable("distributor", new)
      BY <1>1, <1>4 DEF Parents, Grows, Alone
    <2>2. None \notin DOMAIN old /\ None \notin DOMAIN new
      <3>1. IsTable("distributor", old)
        BY <1>1 DEF Shape
      <3> QED
        BY <2>1, <3>1, NoneIsNoPlace
    <2>3. /\ e.type = Primary => e.parent = None
          /\ e.parent = None \/ (e.parent \in DOMAIN old /\ old[e.parent].parent = None)
      BY <2>1, <2>2 DEF MayBeUnder
    <2>4. /\ DOMAIN old \subseteq DOMAIN new
          /\ \A i \in DOMAIN old : new[i] = old[i]
          /\ \A i \in DOMAIN new \ DOMAIN old : new[i] = e
          /\ \A i, j \in DOMAIN new \ DOMAIN old : i = j
      BY <1>1, <1>4 DEF Grows, Table
    <2> HIDE DEF old, new, e
    <2>5. CASE DOMAIN new = DOMAIN old
      <3>1. \A i \in DOMAIN new \ {None} : i \in DOMAIN old /\ new[i] = old[i]
        BY <2>4, <2>5
      <3> QED
        BY <1>2, <2>2, <3>1, TreesWith DEF new
    <2>6. ASSUME NEW n \in DOMAIN new \ DOMAIN old
          PROVE  Trees(new)
      <3>1. \A i \in DOMAIN new \ {n} : i \in DOMAIN old /\ new[i] = old[i]
        BY <2>4, <2>6
      <3>2. new[n] = e
        BY <2>4, <2>6
      <3>3. /\ new[n].type = Primary => new[n].parent = None
            /\ \/ new[n].parent = None
               \/ n \in DOMAIN old /\ new[n].parent = old[n].parent
               \/ new[n].parent \in DOMAIN old /\ old[new[n].parent].parent = None
        BY <2>3, <3>2
      <3> QED
        BY <1>2, <2>2, <3>1, <3>3, TreesWith
    <2> QED
      BY <2>4, <2>5, <2>6 DEF new
  <1>5. CASE req[w].table = "distributor" /\ Writes(w)
    <2>1. /\ req[w].todo = <<"write">> /\ MayBeUnder(req[w], old)
          /\ req[w].diff = Differing(e, old[id])
          /\ IsTable("distributor", old)
      BY <1>1, <1>5 DEF Parents, Single, Writes, Shape
    <2>2. /\ DOMAIN new = DOMAIN old /\ id \in DOMAIN old
          /\ new[id] = Overlay(old[id], e, req[w].diff)
      BY <1>5 DEF Writes, Table
    <2>3. \A i \in DOMAIN new \ {id} : i \in DOMAIN old /\ new[i] = old[i]
      BY <1>5, <2>2 DEF Writes, Table
    <2>4. ~Will(req[w].todo, "refs")
      BY <2>1 DEF Will
    <2>5. DOMAIN old[id] = {"code", "status", "deleted", "type", "parent"}
      BY <2>1, <2>2 DEF IsTable, IsRow, Columns, Tables
    <2>6. new[id].type = e.type /\ new[id].parent = e.parent
      BY <2>1, <2>2, <2>5 DEF Overlay, Differing
    <2>7. /\ e.type = Primary => e.parent = None
          /\ \/ e.parent = None
             \/ id \in DOMAIN old /\ e.parent = old[id].parent
             \/ e.parent \in DOMAIN old /\ old[e.parent].parent = None
      BY <2>1, <2>4 DEF MayBeUnder
    <2>8. None \notin DOMAIN new
      BY <2>1, <2>2, NoneIsNoPlace
    <2> HIDE DEF old, new, e, id
    <2>9. /\ new[id].type = Primary => new[id].parent = None
          /\ \/ new[id].parent = None
             \/ id \in DOMAIN old /\ new[id].parent = old[id].parent
             \/ new[id].parent \in DOMAIN old /\ old[new[id].parent].parent = None
      BY <2>6, <2>7
    <2>10. Trees(new)
      BY <1>2, <2>3, <2>8, <2>9, TreesWith
    <2> QED
      BY <2>10 DEF new
  <1> QED
    BY <1>3, <1>4, <1>5 DEF Handles

LEMMA MayBeUnderHandled ==
    ASSUME Shape, Single, Parents, NEW w \in Workers, Handles(w), "distributor" \notin stale,
           NEW v \in Workers, ~Idle(v)', req'[v].table = "distributor"
    PROVE  MayBeUnder(req'[v], rows'["distributor"])
  <1> DEFINE old == rows["distributor"]
             new == rows'["distributor"]
             q == req[v]
  <1>1. /\ "distributor" \in Tables /\ "distributor" # "warehouse"
        /\ ~Idle(w) /\ ~Idle(v) /\ q.table = "distributor"
        /\ v # w => req'[v] = q
        /\ v = w => Further(req[w], req'[w])
    BY OthersAtWork DEF Tables, Handles
  <1>2. MayBeUnder(q, old) /\ Trees(old)
    BY <1>1 DEF Parents
  <1>3. CASE v # w
    <2>1. req[w].table # "distributor"
      BY <1>1, <1>3 DEF Single
    <2> QED
      BY <1>1, <1>2, <1>3, <2>1, OtherTables
  <1>4. CASE v = w
    <2>1. PICK r : r = req'[w]
      OBVIOUS
    <2>2. req'[w] # NoRequest
      BY <1>4 DEF Idle, NoRequest
    <2>3. /\ Further(q, r) /\ Sound(q)
          /\ Head(q.todo) \in {"refs", "code", "codes", "load", "unset"}
      BY <1>1, <1>4, <2>1, <2>2, HandledGoesOn, Underway
    <2>4. Will(q.todo, "refs") => Head(q.todo) = "refs" \/ Will(r.todo, "refs")
      BY <2>3, TodoGoesOn DEF Before
    <2>5. r.entity = q.entity /\ r.id = q.id /\ r.refs = q.refs
      BY <2>3 DEF Further
    <2>6. Quiet(w)
      BY <1>1, <1>4, <2>2 DEF Handles, Grows, Writes, Unsets
    <2>7. new = old /\ (Head(q.todo) = "refs" => \A ref \in q.refs : Meets(ref))
      BY <1>4, <2>2, <2>6 DEF Quiet
    <2>8. ASSUME Head(q.todo) = "refs", NEW p, AsParent(q, p)
          PROVE  p \in DOMAIN old /\ old[p].parent = None
      <3>1. PICK ref \in q.refs : /\ ref.table = "distributor" /\ ref.id = p
                                  /\ "type" \in DOMAIN ref.need /\ ref.need.type = Primary
        BY <2>8 DEF AsParent
      <3>2. p \in DOMAIN old /\ old[p]["type"] = Primary
        BY <2>7, <2>8, <3>1 DEF Meets
      <3> QED
        BY <1>2, <3>2 DEF Trees
    <2>9. AsParent(r, q.entity.parent) <=> AsParent(q, q.entity.parent)
      BY <2>5 DEF AsParent
    <2>10. MayBeUnder(r, old)
      BY <1>2, <2>4, <2>5, <2>8, <2>9 DEF MayBeUnder
    <2> QED
      BY <1>4, <2>1, <2>7, <2>10
  <1> QED
    BY <1>3, <1>4

LEMMA ParentsHandled ==
    ASSUME Shape, Single, Parents, NEW w \in Workers, Handles(w)
    PROVE  Parents'
  <1>1. stale' = stale
    BY DEF Handles
  <1> QED
    BY <1>1, TreesHandled, MayBeUnderHandled DEF Parents

LEMMA ParentsBegun ==
    ASSUME Shape, Parents, NEW w \in Workers, Begins(w)
    PROVE  Parents'
  <1>1. PICK q : Open(w, q) /\ Sound(q) /\ ParentAsked(q)
    BY DEF Begins
  <1>2. /\ Idle(w) /\ Only(w) /\ req'[w] = q /\ rows' = rows /\ stale \subseteq stale'
    BY <1>1, OpenOnly
  <1> SUFFICES ASSUME "distributor" \notin stale'
               PROVE  /\ Trees(rows["distributor"])
                      /\ \A v \in Workers : ~Idle(v)' /\ req'[v].table = "distributor" =>
                           MayBeUnder(req'[v], rows["distributor"])
    BY <1>2 DEF Parents
  <1>3. Trees(rows["distributor"])
    BY <1>2 DEF Parents
  <1>4. ASSUME NEW v \in Workers, ~Idle(v)', req'[v].table = "distributor"
        PROVE  MayBeUnder(req'[v], rows["distributor"])
    <2>1. CASE v # w
      <3>1. req'[v] = req[v] /\ ~Idle(v)
        BY <1>2, <1>4, <2>1 DEF Only, Idle
      <3> QED
        BY <1>2, <1>4, <3>1 DEF Parents
    <2>2. CASE v = w /\ SamePlace(q)
      BY <1>2, <1>3, <2>2 DEF SamePlace, Trees, MayBeUnder
    <2>3. CASE v = w /\ NewPlace(q)
      BY <1>2, <2>3 DEF NewPlace, MayBeUnder
    <2> QED
      BY <1>1, <1>2, <1>4, <2>1, <2>2, <2>3 DEF ParentAsked
  <1> QED
    BY <1>3, <1>4

----------------------------------------------------------------------------
(* The theorems.                                                           *)

MasterInv == Shape /\ Single /\ Defaults /\ Parents

LEMMA MasterBegins ==
    ASSUME MasterInit
    PROVE  MasterInv
  <1>1. PICK first \in FirstRows : rows = first.rows
    BY DEF MasterInit, RowsInit
  <1>2. DOMAIN first.rows = Tables
    BY FirstRowsAssumption
  <1>3. ASSUME NEW t \in Tables
        PROVE  IsTable(t, first.rows[t])
    <2>1. first.rows[t] \in Seq({first.rows[t][i] : i \in DOMAIN first.rows[t]})
      BY FirstRowsAssumption
    <2>2. \A i \in DOMAIN first.rows[t] : DOMAIN first.rows[t][i] = Columns[t]
      BY FirstRowsAssumption
    <2> QED
      BY <2>1, <2>2 DEF IsTable, IsRow
  <1>4. OneDefault(first.rows["warehouse"], {})
    BY FirstRowsAssumption
  <1>5. Trees(first.rows["distributor"])
    BY FirstRowsAssumption
  <1>6. /\ DOMAIN rows = Tables
        /\ \A t \in Tables : IsTable(t, rows[t])
        /\ OneDefault(rows["warehouse"], {})
        /\ Trees(rows["distributor"])
    BY <1>1, <1>2, <1>3, <1>4, <1>5
  <1>7. req = [w \in Workers |-> NoRequest] /\ carried = {}
    BY DEF MasterInit, RowsInit
  <1>8. \A w \in Workers : req[w] = NoRequest /\ Idle(w)
    BY <1>7 DEF Idle, NoRequest
  <1>9. Shape
    BY <1>6, <1>7, <1>8 DEF Shape
  <1>10. Single
    BY <1>8 DEF Single
  <1>11. Defaults
    BY <1>6, <1>7, <1>8 DEF Defaults
  <1>12. Parents
    BY <1>6, <1>8 DEF Parents
  <1> QED
    BY <1>9, <1>10, <1>11, <1>12 DEF MasterInv

(* A step begins a request or handles one.                                 *)
LEMMA MasterStep ==
    ASSUME Shape, MasterNext
    PROVE  \E w \in Workers : Begins(w) \/ Handles(w)
  <1>1. PICK w \in Workers :
          \/ (CatalogBegin(w) \/ SitesBegin(w) \/ Proceed(w) \/ Abandon(w)) /\ Kept
          \/ DistributorsBegin(w)
          \/ UnsetOtherDefaults(w)
    BY DEF MasterNext
  <1> QED
    BY <1>1, RequestsBegin, RequestsHandled

LEMMA MasterGoesOn ==
    ASSUME MasterInv, [MasterNext]_masterVars
    PROVE  MasterInv'
  <1>1. CASE MasterNext
    <2>1. PICK w \in Workers : Begins(w) \/ Handles(w)
      BY <1>1, MasterStep DEF MasterInv
    <2>2. CASE Begins(w)
      BY <2>2, ShapeBegun, SingleBegun, DefaultsBegun, ParentsBegun DEF MasterInv
    <2>3. CASE Handles(w)
      BY <2>3, ShapeHandled, SingleHandled, DefaultsHandled, ParentsHandled DEF MasterInv
    <2> QED
      BY <2>1, <2>2, <2>3
  <1>2. CASE UNCHANGED masterVars
    BY <1>2 DEF masterVars, vars, MasterInv, Shape, Single, Defaults, Parents, Sound, Saving,
                Adding, AddingMany, Idle
  <1> QED
    BY <1>1, <1>2

THEOREM MasterInvariantHolds == MasterSpec => []MasterInv
  <1>1. MasterInit => MasterInv
    BY MasterBegins
  <1>2. MasterInv /\ [MasterNext]_masterVars => MasterInv'
    BY MasterGoesOn
  <1> QED
    BY <1>1, <1>2, PTL DEF MasterSpec

(* An owner has one default warehouse, unless two requests worked on       *)
(* warehouses at once or one came to it with its default: another default  *)
(* is unset before a warehouse is created as one, made one or moved as     *)
(* one, and nothing else makes a default.                                  *)
THEOREM OneDefaultEach == MasterSpec => []OneDefaultPerOwner
  <1>1. MasterInv => OneDefaultPerOwner
    BY DEF MasterInv, Defaults, OneDefaultPerOwner
  <1> QED
    BY <1>1, MasterInvariantHolds, PTL

(* No way up from a distributor leads back to it, by way of others, and a  *)
(* PRIMARY one has no parent, unless two requests worked on distributors   *)
(* at once: a SUB is only put under one that is PRIMARY, which has no      *)
(* parent, whatever is then made of either.                                *)
THEOREM DistributorsStayTrees == MasterSpec => []DistributorsFormTrees
  <1>1. MasterInv => DistributorsFormTrees
    BY DEF MasterInv, Parents, DistributorsFormTrees
  <1> QED
    BY <1>1, MasterInvariantHolds, PTL

----------------------------------------------------------------------------
(* What the columns hold, in the tables and in the entities of requests.   *)

TypedRow(tables, t, row) ==
    DOMAIN row = Columns[t] /\ \A c \in Columns[t] \ {"code"} : row[c] \in Values(tables, t, c)

(* The rows of a bulk insertion, with a code each.                         *)
TypedRows(tables, entity) ==
    /\ \A j \in DOMAIN entity : TypedRow(tables, "outlet", entity[j])
    /\ \A j, k \in DOMAIN entity : entity[j].code = entity[k].code => j = k

(* What a request will write: what was deleted when it was read stays so.  *)
TypedAsk(tables, q) ==
    IF BulkTodo(q.todo) THEN TypedRows(tables, q.entity)
    ELSE TypedRow(tables, q.table, q.entity) /\ (q.gone => q.entity.deleted)

TypesInv ==
    /\ Typed(rows) /\ CodesTell(rows)
    /\ \A w \in Workers : ~Idle(w) => TypedAsk(rows, req[w])

BeginsTyped(w) == \E q : Open(w, q) /\ TypedAsk(rows, q)

LEMMA NotBulk ==
    ASSUME NEW s, SaveTodo(s) \/ InsertTodo(s)
    PROVE  ~BulkTodo(s)
  <1>1. Len(s) \in Nat /\ Len(s) >= 1
    BY DEF SaveTodo, InsertTodo
  <1>2. s[1] \notin {"codes", "insertAll"}
    <2>1. 1 \in 1..Len(s)
      BY <1>1
    <2> QED
      BY <2>1 DEF SaveTodo, InsertTodo, Before
  <1>3. <<"codes", "insertAll">>[1] = "codes" /\ <<"insertAll">>[1] = "insertAll"
    OBVIOUS
  <1> QED
    BY <1>2, <1>3 DEF BulkTodo

LEMMA SaveTyped ==
    ASSUME Shape, Typed(rows), NEW w, NEW table \in Tables, NEW id \in DOMAIN rows[table],
           NEW patch, NEW refs, NEW any, NEW todo, SaveTodo(todo),
           \A c \in Columns[table] \ {"code"} :
             c \in DOMAIN patch => patch[c] \in Values(rows, table, c),
           "deleted" \in DOMAIN patch => patch.deleted,
           OpenSave(w, table, id, patch, refs, any, todo)
    PROVE  BeginsTyped(w)
  <1>1. PICK q : q = Request(table, id, Patched(rows[table][id], patch), refs, any, todo)
    OBVIOUS
  <1>2. /\ q.table = table /\ q.todo = todo /\ q.entity = Patched(rows[table][id], patch)
        /\ Open(w, q) /\ q.gone = (id # None /\ rows[table][id].deleted)
    BY <1>1 DEF Request, OpenSave
  <1>3. DOMAIN rows[table][id] = Columns[table]
    BY DEF Shape, IsTable, IsRow
  <1>4. \A c \in Columns[table] \ {"code"} : rows[table][id][c] \in Values(rows, table, c)
    BY DEF Typed
  <1>5. TypedRow(rows, table, q.entity)
    BY <1>2, <1>3, <1>4 DEF TypedRow, Patched
  <1>6. q.gone => q.entity.deleted
    <2>1. "deleted" \in DOMAIN rows[table][id]
      BY <1>3 DEF Columns
    <2> QED
      BY <1>2, <2>1 DEF Patched
  <1> QED
    BY <1>2, <1>5, <1>6, NotBulk DEF TypedAsk, BeginsTyped

LEMMA InsertTyped ==
    ASSUME NEW w, NEW table \in Tables, NEW entity, TypedRow(rows, table, entity),
           NEW refs, NEW any, NEW todo, InsertTodo(todo),
           OpenInsert(w, table, entity, refs, any, todo)
    PROVE  BeginsTyped(w)
  <1>1. PICK q : q = Request(table, None, entity, refs, any, todo)
    OBVIOUS
  <1>2. q.table = table /\ q.todo = todo /\ q.entity = entity /\ ~q.gone /\ Open(w, q)
    BY <1>1 DEF Request, OpenInsert
  <1> QED
    BY <1>2, NotBulk DEF TypedAsk, BeginsTyped

(* The columns of a new row.                                               *)
LEMMA ColumnsAre ==
    /\ \A t \in {"brand", "category", "orgNode", "outlet", "company"} :
         Columns[t] = {"code", "status", "deleted"}
    /\ Columns["subCategory"] = {"code", "status", "deleted", "category"}
    /\ Columns["sku"] = {"code", "status", "deleted", "brand", "category", "subCategory"}
    /\ Columns["distributor"] = {"code", "status", "deleted", "type", "parent"}
    /\ Columns["warehouse"] = {"code", "status", "deleted", "owner", "default"}
    /\ Columns["policy"] = {"code", "status", "deleted", "lo", "hi"}
    /\ Columns["route"] = {"code", "status", "deleted", "territory", "from", "to"}
  BY DEF Columns, Tables

(* What a request may bring for the columns every table has.               *)
LEMMA PlainValues ==
    ASSUME NEW tables, NEW t \in Tables
    PROVE  /\ Values(tables, t, "status") = Status
           /\ Values(tables, t, "deleted") = BOOLEAN
           /\ Active \in Status /\ Inactive \in Status
  BY DEF Values, Status

LEMMA OtherValues ==
    ASSUME NEW tables
    PROVE  /\ \A t \in {"brand", "category", "subCategory"} :
                Values(tables, "sku", t) = DOMAIN tables[t] \cup {None}
           /\ Values(tables, "subCategory", "category") = DOMAIN tables["category"]
           /\ Values(tables, "distributor", "type") = {Primary, Sub}
           /\ Values(tables, "distributor", "parent") = DOMAIN tables["distributor"] \cup {None}
           /\ Values(tables, "warehouse", "owner") = {Owner(Company, None)} \cup
                {Owner(type, i) : type \in {Primary, Sub}, i \in DOMAIN tables["distributor"]}
           /\ Values(tables, "warehouse", "default") = BOOLEAN
           /\ Values(tables, "policy", "lo") = Quantities
           /\ Values(tables, "policy", "hi") = Quantities
           /\ Values(tables, "route", "territory") = DOMAIN tables["orgNode"]
           /\ Values(tables, "route", "from") = Days
           /\ Values(tables, "route", "to") = Days \cup {Forever}
  <1>1. \A t \in {"brand", "category", "subCategory"} :
         Values(tables, "sku", t) = DOMAIN tables[t] \cup {None}
    BY DEF Values
  <1>2. Values(tables, "subCategory", "category") = DOMAIN tables["category"]
    BY DEF Values
  <1>3. Values(tables, "distributor", "type") = {Primary, Sub}
    BY DEF Values
  <1>4. Values(tables, "distributor", "parent") = DOMAIN tables["distributor"] \cup {None}
    BY DEF Values
  <1>5. Values(tables, "warehouse", "owner") = {Owner(Company, None)} \cup
            {Owner(type, i) : type \in {Primary, Sub}, i \in DOMAIN tables["distributor"]}
    BY DEF Values
  <1>6. Values(tables, "warehouse", "default") = BOOLEAN
    BY DEF Values
  <1>7. Values(tables, "policy", "lo") = Quantities /\ Values(tables, "policy", "hi") = Quantities
    BY DEF Values
  <1>8. Values(tables, "route", "territory") = DOMAIN tables["orgNode"]
    BY DEF Values
  <1>9. /\ Values(tables, "route", "from") = Days
        /\ Values(tables, "route", "to") = Days \cup {Forever}
    BY DEF Values
  <1> QED
    BY <1>1, <1>2, <1>3, <1>4, <1>5, <1>6, <1>7, <1>8, <1>9

LEMMA RowValues ==
    /\ \A t \in {"brand", "category", "subCategory"} :
         Values(rows, "sku", t) = DOMAIN rows[t] \cup {None}
    /\ Values(rows, "subCategory", "category") = DOMAIN rows["category"]
    /\ Values(rows, "distributor", "type") = {Primary, Sub}
    /\ Values(rows, "distributor", "parent") = DOMAIN rows["distributor"] \cup {None}
    /\ Values(rows, "warehouse", "owner") = Owners
    /\ Values(rows, "warehouse", "default") = BOOLEAN
    /\ Values(rows, "policy", "lo") = Quantities /\ Values(rows, "policy", "hi") = Quantities
    /\ Values(rows, "route", "territory") = DOMAIN rows["orgNode"]
    /\ Values(rows, "route", "from") = Days
    /\ Values(rows, "route", "to") = Days \cup {Forever}
  <1>1. PICK tables : tables = rows
    OBVIOUS
  <1>2. Owners = {Owner(Company, None)} \cup
            {Owner(type, i) : type \in {Primary, Sub}, i \in DOMAIN tables["distributor"]}
    BY <1>1 DEF Owners, All
  <1> QED
    BY <1>1, <1>2, OtherValues

LEMMA RowTyped ==
    ASSUME NEW t \in Tables, NEW row, DOMAIN row = Columns[t],
           row.status \in {Active, Inactive}, row.deleted \in BOOLEAN,
           \A c \in Columns[t] \ {"code", "status", "deleted"} : row[c] \in Values(rows, t, c)
    PROVE  TypedRow(rows, t, row)
  <1>1. Values(rows, t, "status") = Status /\ Values(rows, t, "deleted") = BOOLEAN
    BY PlainValues
  <1> QED
    BY <1>1 DEF TypedRow, Status

LEMMA NewRowsTyped ==
    ASSUME NEW c \in Codes
    PROVE  /\ TypedRow(rows, "brand", Entry(c)) /\ TypedRow(rows, "category", Entry(c))
           /\ \A k \in All("category") : TypedRow(rows, "subCategory", SubEntry(c, k))
           /\ \A b \in All("brand") \cup {None}, k \in All("category") \cup {None},
                 s \in All("subCategory") \cup {None} : TypedRow(rows, "sku", SkuEntry(c, b, k, s))
           /\ \A type \in {Primary, Sub}, p \in All("distributor") \cup {None} :
                TypedRow(rows, "distributor", Distributor(c, type, p))
           /\ \A o \in Owners, d \in BOOLEAN : TypedRow(rows, "warehouse", Warehouse(c, o, d))
           /\ \A lo, hi \in Quantities : TypedRow(rows, "policy", Policy(c, lo, hi))
           /\ \A t \in All("orgNode"), from \in Days, to \in Days \cup {Forever} :
                TypedRow(rows, "route", Route(c, t, from, to))
           /\ TypedRow(rows, "outlet", Outlet(c)) /\ TypedRow(rows, "company", CompanyRow(c))
  <1> USE DEF All
  <1>0. {"brand", "category", "subCategory", "sku", "distributor", "warehouse", "policy",
         "route", "outlet", "company"} \subseteq Tables
    BY DEF Tables
  <1>1. TypedRow(rows, "brand", Entry(c)) /\ TypedRow(rows, "category", Entry(c))
    <2>1. PICK row : row = Entry(c)
      OBVIOUS
    <2>2. /\ DOMAIN row = {"code", "status", "deleted"}
          /\ row.status \in {Active, Inactive}
      BY <2>1 DEF Entry
    <2>3. row.deleted \in BOOLEAN
      BY <2>1 DEF Entry
    <2> QED
      BY <1>0, <2>1, <2>2, <2>3, ColumnsAre, RowValues, RowTyped
  <1>2. ASSUME NEW k \in All("category")
        PROVE  TypedRow(rows, "subCategory", SubEntry(c, k))
    <2>1. PICK row : row = SubEntry(c, k)
      OBVIOUS
    <2>2. /\ DOMAIN row = {"code", "status", "deleted", "category"}
          /\ row.status \in {Active, Inactive}
          /\ row.category = k
      BY <2>1 DEF SubEntry
    <2>3. row.deleted \in BOOLEAN
      BY <2>1 DEF SubEntry
    <2>4. "subCategory" \in Tables /\ Columns["subCategory"] = DOMAIN row
      BY <1>0, <2>2, ColumnsAre
    <2>5. \A x \in DOMAIN row \ {"code", "status", "deleted"} :
            row[x] \in Values(rows, "subCategory", x)
      BY <2>2, <2>3, RowValues
    <2> QED
      BY <2>1, <2>2, <2>3, <2>4, <2>5, RowTyped
  <1>3. ASSUME NEW b \in All("brand") \cup {None}, NEW k \in All("category") \cup {None},
               NEW s \in All("subCategory") \cup {None}
        PROVE  TypedRow(rows, "sku", SkuEntry(c, b, k, s))
    <2>1. PICK row : row = SkuEntry(c, b, k, s)
      OBVIOUS
    <2>2. /\ DOMAIN row = {"code", "status", "deleted", "brand", "category", "subCategory"}
          /\ row.status \in {Active, Inactive}
          /\ row.brand = b /\ row.category = k /\ row.subCategory = s
      BY <2>1 DEF SkuEntry
    <2>3. row.deleted \in BOOLEAN
      BY <2>1 DEF SkuEntry
    <2>4. "sku" \in Tables /\ Columns["sku"] = DOMAIN row
      BY <1>0, <2>2, ColumnsAre
    <2>5. \A x \in DOMAIN row \ {"code", "status", "deleted"} :
            row[x] \in Values(rows, "sku", x)
      BY <2>2, <2>3, RowValues
    <2> QED
      BY <2>1, <2>2, <2>3, <2>4, <2>5, RowTyped
  <1>4. ASSUME NEW type \in {Primary, Sub}, NEW p \in All("distributor") \cup {None}
        PROVE  TypedRow(rows, "distributor", Distributor(c, type, p))
    <2>1. PICK row : row = Distributor(c, type, p)
      OBVIOUS
    <2>2. /\ DOMAIN row = {"code", "status", "deleted", "type", "parent"}
          /\ row.status \in {Active, Inactive}
          /\ row.type = type /\ row.parent = p
      BY <2>1 DEF Distributor
    <2>3. row.deleted \in BOOLEAN
      BY <2>1 DEF Distributor
    <2>4. "distributor" \in Tables /\ Columns["distributor"] = DOMAIN row
      BY <1>0, <2>2, ColumnsAre
    <2>5. \A x \in DOMAIN row \ {"code", "status", "deleted"} :
            row[x] \in Values(rows, "distributor", x)
      BY <2>2, <2>3, RowValues
    <2> QED
      BY <2>1, <2>2, <2>3, <2>4, <2>5, RowTyped
  <1>5. ASSUME NEW o \in Owners, NEW d \in BOOLEAN
        PROVE  TypedRow(rows, "warehouse", Warehouse(c, o, d))
    <2>1. PICK row : row = Warehouse(c, o, d)
      OBVIOUS
    <2>2. /\ DOMAIN row = {"code", "status", "deleted", "owner", "default"}
          /\ row.status \in {Active, Inactive}
          /\ row.owner = o
      BY <2>1 DEF Warehouse
    <2>3. row.deleted \in BOOLEAN /\ row.default \in BOOLEAN
      BY <2>1 DEF Warehouse
    <2>4. "warehouse" \in Tables /\ Columns["warehouse"] = DOMAIN row
      BY <1>0, <2>2, ColumnsAre
    <2>5. \A x \in DOMAIN row \ {"code", "status", "deleted"} :
            row[x] \in Values(rows, "warehouse", x)
      BY <2>2, <2>3, RowValues
    <2> QED
      BY <2>1, <2>2, <2>3, <2>4, <2>5, RowTyped
  <1>6. ASSUME NEW lo \in Quantities, NEW hi \in Quantities
        PROVE  TypedRow(rows, "policy", Policy(c, lo, hi))
    <2>1. PICK row : row = Policy(c, lo, hi)
      OBVIOUS
    <2>2. /\ DOMAIN row = {"code", "status", "deleted", "lo", "hi"}
          /\ row.status \in {Active, Inactive}
          /\ row.lo = lo /\ row.hi = hi
      BY <2>1 DEF Policy
    <2>3. row.deleted \in BOOLEAN
      BY <2>1 DEF Policy
    <2>4. "policy" \in Tables /\ Columns["policy"] = DOMAIN row
      BY <1>0, <2>2, ColumnsAre
    <2>5. \A x \in DOMAIN row \ {"code", "status", "deleted"} :
            row[x] \in Values(rows, "policy", x)
      BY <2>2, <2>3, RowValues
    <2> QED
      BY <2>1, <2>2, <2>3, <2>4, <2>5, RowTyped
  <1>7. ASSUME NEW t \in All("orgNode"), NEW from \in Days, NEW to \in Days \cup {Forever}
        PROVE  TypedRow(rows, "route", Route(c, t, from, to))
    <2>1. PICK row : row = Route(c, t, from, to)
      OBVIOUS
    <2>2. /\ DOMAIN row = {"code", "status", "deleted", "territory", "from", "to"}
          /\ row.status \in {Active, Inactive}
          /\ row.territory = t /\ row.from = from /\ row.to = to
      BY <2>1 DEF Route
    <2>3. row.deleted \in BOOLEAN
      BY <2>1 DEF Route
    <2>4. "route" \in Tables /\ Columns["route"] = DOMAIN row
      BY <1>0, <2>2, ColumnsAre
    <2>5. \A x \in DOMAIN row \ {"code", "status", "deleted"} :
            row[x] \in Values(rows, "route", x)
      BY <2>2, <2>3, RowValues
    <2> QED
      BY <2>1, <2>2, <2>3, <2>4, <2>5, RowTyped
  <1>8. TypedRow(rows, "outlet", Outlet(c))
    <2>1. PICK row : row = Outlet(c)
      OBVIOUS
    <2>2. /\ DOMAIN row = {"code", "status", "deleted"}
          /\ row.status \in {Active, Inactive}
      BY <2>1 DEF Outlet
    <2>3. row.deleted \in BOOLEAN
      BY <2>1 DEF Outlet
    <2> QED
      BY <1>0, <2>1, <2>2, <2>3, ColumnsAre, RowValues, RowTyped
  <1>9. TypedRow(rows, "company", CompanyRow(c))
    <2>1. PICK row : row = CompanyRow(c)
      OBVIOUS
    <2>2. /\ DOMAIN row = {"code", "status", "deleted"}
          /\ row.status \in {Active, Inactive}
      BY <2>1 DEF CompanyRow
    <2>3. row.deleted \in BOOLEAN
      BY <2>1 DEF CompanyRow
    <2> QED
      BY <1>0, <2>1, <2>2, <2>3, ColumnsAre, RowValues, RowTyped
  <1> QED
    BY <1>1, <1>2, <1>3, <1>4, <1>5, <1>6, <1>7, <1>8, <1>9

(* What a patch brings fits the columns of the table, and undeletes no row.*)
Good(t, patch) ==
    /\ \A c \in Columns[t] \ {"code"} :
         c \in DOMAIN patch => patch[c] \in Values(rows, t, c)
    /\ "deleted" \in DOMAIN patch => patch.deleted

LEMMA PlainPatches ==
    ASSUME NEW t \in Tables
    PROVE  /\ \A patch \in Recodings : Good(t, patch)
           /\ \A c \in Codes : Good(t, [code |-> c])
           /\ \A s \in Status : Good(t, [status |-> s])
           /\ Good(t, Deleted) /\ Good(t, Removed) /\ Good(t, [deleted |-> TRUE])
  <1>1. ASSUME NEW c \in Codes PROVE Good(t, [code |-> c])
    BY PlainValues DEF Good
  <1>2. Good(t, Nothing)
    BY DEF Good, Nothing
  <1>3. ASSUME NEW s \in Status PROVE Good(t, [status |-> s])
    BY PlainValues DEF Good
  <1>4. Good(t, Deleted) /\ Good(t, Removed) /\ Good(t, [deleted |-> TRUE])
    <2>1. Values(rows, t, "status") = Status /\ Values(rows, t, "deleted") = BOOLEAN
      BY PlainValues
    <2>2. PICK d, r : d = Deleted /\ r = Removed
      OBVIOUS
    <2>3. /\ DOMAIN d = {"status", "deleted"} /\ d.status \in Status
          /\ DOMAIN r = {"deleted"}
      BY <2>2 DEF Deleted, Removed, Status
    <2>4. d.deleted = TRUE /\ r.deleted = TRUE
      BY <2>2 DEF Deleted, Removed
    <2> QED
      BY <2>1, <2>2, <2>3, <2>4 DEF Good, Removed
  <1> QED
    BY <1>1, <1>2, <1>3, <1>4 DEF Recodings

LEMMA CatalogTyped ==
    ASSUME Shape, Typed(rows), NEW w, CatalogBegin(w)
    PROVE  BeginsTyped(w)
  <1> USE DEF All
  <1>0. /\ {"brand", "category", "subCategory", "sku"} \subseteq Tables
        /\ \A t : Live(t) \subseteq DOMAIN rows[t]
    BY DEF Tables, Live
  <1>1. ASSUME NEW t \in Tables, NEW id \in DOMAIN rows[t], NEW patch, Good(t, patch),
               NEW refs, NEW any, NEW todo, PlainSave(todo),
               OpenSave(w, t, id, patch, refs, any, todo)
        PROVE  BeginsTyped(w)
    BY <1>1, SaveTyped DEF Good, PlainSave
  <1>2. ASSUME NEW t \in Tables, NEW entity, TypedRow(rows, t, entity), NEW refs, NEW any, NEW todo,
               PlainInsert(todo), OpenInsert(w, t, entity, refs, any, todo)
        PROVE  BeginsTyped(w)
    BY <1>2, InsertTyped DEF PlainInsert
  <1>3. ASSUME NEW t \in {"brand", "category"}, Create(w, t)
        PROVE  BeginsTyped(w)
    BY <1>0, <1>2, <1>3, NewRowsTyped, Todos DEF Create
  <1>4. ASSUME NEW t \in {"brand", "category", "subCategory"},
               Update(w, t) \/ ChangeStatus(w, t) \/ Delete(w, t)
        PROVE  BeginsTyped(w)
    <2>1. CASE Update(w, t)
      BY <1>0, <1>1, <2>1, PlainPatches, Recoded DEF Update
    <2>2. CASE ChangeStatus(w, t)
      BY <1>0, <1>1, <2>2, PlainPatches, Todos DEF ChangeStatus
    <2>3. CASE Delete(w, t)
      BY <1>0, <1>1, <2>3, PlainPatches, Todos DEF Delete
    <2> QED
      BY <1>4, <2>1, <2>2, <2>3
  <1>5. CASE CreateSubCategory(w)
    BY <1>0, <1>2, <1>5, NewRowsTyped, Todos DEF CreateSubCategory
  <1>6. CASE UpdateSubCategory(w)
    <2>1. CASE \E i \in All("subCategory"), patch \in Recodings :
                 OpenSave(w, "subCategory", i, patch, {}, TRUE, Recode(patch))
      BY <1>0, <1>1, <2>1, PlainPatches, Recoded
    <2>2. CASE \E i \in All("subCategory"), k \in All("category") :
                 OpenSave(w, "subCategory", i, [category |-> k],
                          {Ref("category", k, Nothing)}, TRUE, <<"refs">> \o Save)
      <3>1. ASSUME NEW k \in All("category") PROVE Good("subCategory", [category |-> k])
        BY RowValues DEF Good
      <3> QED
        BY <1>0, <1>1, <2>2, <3>1, Todos
    <2> QED
      BY <1>6, <2>1, <2>2 DEF UpdateSubCategory
  <1>7. CASE CreateSku(w)
    BY <1>0, <1>2, <1>7, NewRowsTyped, Todos DEF CreateSku
  <1>8. CASE UpdateSku(w)
    <2>1. CASE \E i \in All("sku"), patch \in Recodings :
                 OpenSave(w, "sku", i, patch, {}, TRUE, Recode(patch))
      BY <1>0, <1>1, <2>1, PlainPatches, Recoded
    <2>2. CASE \E i \in All("sku"), b \in All("brand") \cup {None} :
                 OpenSave(w, "sku", i, [brand |-> b], SkuRefs([brand |-> b]), TRUE,
                          <<"refs">> \o Save)
      <3>1. ASSUME NEW b \in All("brand") \cup {None} PROVE Good("sku", [brand |-> b])
        BY RowValues DEF Good
      <3> QED
        BY <1>0, <1>1, <2>2, <3>1, Todos
    <2> QED
      BY <1>8, <2>1, <2>2 DEF UpdateSku
  <1>9. CASE SoftDeleteSku(w) \/ SetSkuStatus(w)
    BY <1>0, <1>1, <1>9, PlainPatches, Todos DEF SoftDeleteSku, SetSkuStatus
  <1> QED
    BY <1>3, <1>4, <1>5, <1>6, <1>7, <1>8, <1>9
       DEF CatalogBegin, CreateBrand, UpdateBrand, ChangeBrandStatus, DeleteBrand,
           CreateCategory, UpdateCategory, ChangeCategoryStatus, DeleteCategory,
           ChangeSubCategoryStatus, DeleteSubCategory

LEMMA SitesTyped ==
    ASSUME Shape, Typed(rows), NEW w, SitesBegin(w)
    PROVE  BeginsTyped(w)
  <1> USE DEF All
  <1>0. {"route", "outlet", "company"} \subseteq Tables
    BY DEF Tables
  <1>1. ASSUME NEW t \in Tables, NEW id \in DOMAIN rows[t], NEW patch, Good(t, patch),
               NEW refs, NEW any, NEW todo, PlainSave(todo),
               OpenSave(w, t, id, patch, refs, any, todo)
        PROVE  BeginsTyped(w)
    BY <1>1, SaveTyped DEF Good, PlainSave
  <1>2. ASSUME NEW t \in Tables, NEW entity, TypedRow(rows, t, entity), NEW refs, NEW any, NEW todo,
               PlainInsert(todo), OpenInsert(w, t, entity, refs, any, todo)
        PROVE  BeginsTyped(w)
    BY <1>2, InsertTyped DEF PlainInsert
  <1>3. CASE CreateRoute(w)
    <2>1. PICK c \in Codes, t \in All("orgNode"), from \in Days, to \in Days \cup {Forever} :
            OpenInsert(w, "route", Route(c, t, from, to), Territory(t), TRUE,
                       <<"refs">> \o Insert)
      BY <1>3 DEF CreateRoute
    <2>2. TypedRow(rows, "route", Route(c, t, from, to))
      BY NewRowsTyped
    <2> QED
      BY <1>0, <1>2, <2>1, <2>2, Todos
  <1>4. CASE UpdateRoute(w)
    <2>1. CASE \E i \in All("route"), t \in All("orgNode") :
                 OpenSave(w, "route", i, [territory |-> t], Territory(t), TRUE,
                          <<"refs">> \o Save)
      <3>1. ASSUME NEW t \in All("orgNode") PROVE Good("route", [territory |-> t])
        BY RowValues DEF Good
      <3> QED
        BY <1>0, <1>1, <2>1, <3>1, Todos
    <2>2. CASE \E i \in All("route"), d \in Days \cup {Forever}, s \in Status :
               \E patch \in {[from |-> d], [to |-> d], [status |-> s]} :
                 /\ patch # [from |-> Forever]
                 /\ OpenSave(w, "route", i, patch, {}, TRUE, Save)
      <3>1. ASSUME NEW d \in Days \cup {Forever}, NEW s \in Status,
                   NEW patch \in {[from |-> d], [to |-> d], [status |-> s]},
                   patch # [from |-> Forever]
            PROVE  Good("route", patch)
        <4>1. CASE patch = [status |-> s]
          BY <1>0, <4>1, PlainPatches
        <4>2. CASE patch = [to |-> d]
          BY <4>2, RowValues DEF Good
        <4>3. CASE patch = [from |-> d]
          <5>1. d \in Days
            BY <3>1, <4>3
          <5> QED
            BY <4>3, <5>1, RowValues DEF Good
        <4> QED
          BY <4>1, <4>2, <4>3
      <3> QED
        BY <1>0, <1>1, <2>2, <3>1, Todos
    <2> QED
      BY <1>4, <2>1, <2>2 DEF UpdateRoute
  <1>5. CASE BulkCreateOutlets(w)
    <2>1. PICK a \in Codes, b \in Codes :
            /\ a # b
            /\ Open(w, Request("outlet", None, <<Outlet(a), Outlet(b)>>, {}, FALSE,
                               <<"codes", "insertAll">>))
      BY <1>5 DEF BulkCreateOutlets
    <2>2. PICK q : q = Request("outlet", None, <<Outlet(a), Outlet(b)>>, {}, FALSE,
                               <<"codes", "insertAll">>)
      OBVIOUS
    <2>3. q.todo = <<"codes", "insertAll">> /\ q.entity = <<Outlet(a), Outlet(b)>>
      BY <2>2 DEF Request
    <2>4. TypedRow(rows, "outlet", Outlet(a)) /\ TypedRow(rows, "outlet", Outlet(b))
      BY NewRowsTyped
    <2>5. Outlet(a).code = a /\ Outlet(b).code = b
      BY DEF Outlet
    <2>6. TypedRows(rows, q.entity)
      <3>1. /\ DOMAIN q.entity = {1, 2}
            /\ q.entity[1] = Outlet(a) /\ q.entity[2] = Outlet(b)
        BY <2>3
      <3> QED
        BY <2>1, <2>4, <2>5, <3>1 DEF TypedRows
    <2> QED
      BY <2>1, <2>2, <2>3, <2>6 DEF BeginsTyped, TypedAsk, BulkTodo
  <1>6. CASE CreateOutlet(w) \/ CreateCompany(w)
    BY <1>0, <1>2, <1>6, NewRowsTyped, Todos DEF CreateOutlet, CreateCompany
  <1>7. CASE UpdateOutlet(w) \/ UpdateCompany(w)
    BY <1>0, <1>1, <1>7, PlainPatches, Todos DEF UpdateOutlet, UpdateCompany
  <1>8. CASE RemoveRoute(w) \/ RemoveOutlet(w) \/ RemoveCompany(w)
    BY <1>0, <1>1, <1>8, PlainPatches, Todos DEF RemoveRoute, RemoveOutlet, RemoveCompany
  <1> QED
    BY <1>3, <1>4, <1>5, <1>6, <1>7, <1>8 DEF SitesBegin

LEMMA DistributorsTyped ==
    ASSUME Shape, Typed(rows), NEW w,
           \/ CreateDistributor(w) \/ UpdateDistributor(w) \/ ActivateDistributor(w)
           \/ CreatePolicy(w) \/ UpdatePolicy(w) \/ SoftDeletePolicy(w)
    PROVE  BeginsTyped(w)
  <1> USE DEF All
  <1>0. /\ {"distributor", "policy"} \subseteq Tables
        /\ \A t : Live(t) \subseteq DOMAIN rows[t]
    BY DEF Tables, Live
  <1>1. ASSUME NEW t \in Tables, NEW id \in DOMAIN rows[t], NEW patch, Good(t, patch),
               NEW refs, NEW any, NEW todo, PlainSave(todo),
               OpenSave(w, t, id, patch, refs, any, todo)
        PROVE  BeginsTyped(w)
    BY <1>1, SaveTyped DEF Good, PlainSave
  <1>2. ASSUME NEW t \in Tables, NEW entity, TypedRow(rows, t, entity), NEW refs, NEW any, NEW todo,
               PlainInsert(todo), OpenInsert(w, t, entity, refs, any, todo)
        PROVE  BeginsTyped(w)
    BY <1>2, InsertTyped DEF PlainInsert
  <1>3. CASE CreateDistributor(w)
    BY <1>0, <1>2, <1>3, NewRowsTyped, Todos DEF CreateDistributor
  <1>4. CASE UpdatePlace(w)
    <2>1. PICK i \in Live("distributor"), type \in {Primary, Sub},
               p \in All("distributor") \cup {None} :
            \E patch \in {[type |-> type], [parent |-> p], [type |-> type, parent |-> p]} :
              \E refs : OpenSave(w, "distributor", i, patch, refs, TRUE, <<"refs">> \o Save)
      BY <1>4 DEF UpdatePlace
    <2>2. ASSUME NEW patch \in {[type |-> type], [parent |-> p],
                                [type |-> type, parent |-> p]}
          PROVE  Good("distributor", patch)
      BY RowValues DEF Good
    <2> QED
      BY <1>0, <1>1, <2>1, <2>2, Todos
  <1>5. CASE UpdateDistributor(w) \/ ActivateDistributor(w)
    BY <1>0, <1>1, <1>4, <1>5, PlainPatches, Todos DEF UpdateDistributor, ActivateDistributor
  <1>6. CASE CreatePolicy(w)
    BY <1>0, <1>2, <1>6, NewRowsTyped, Todos DEF CreatePolicy
  <1>7. CASE UpdatePolicy(w)
    <2>1. ASSUME NEW q \in Quantities, NEW s \in Status,
                 NEW patch \in {[lo |-> q], [hi |-> q], [status |-> s]}
          PROVE  Good("policy", patch)
      <3>1. CASE patch = [status |-> s]
        BY <1>0, <3>1, PlainPatches
      <3>2. CASE patch = [lo |-> q] \/ patch = [hi |-> q]
        BY <3>2, RowValues DEF Good
      <3> QED
        BY <3>1, <3>2
    <2> QED
      BY <1>0, <1>1, <1>7, <2>1, Todos DEF UpdatePolicy
  <1>8. CASE SoftDeletePolicy(w)
    BY <1>0, <1>1, <1>8, PlainPatches, Todos DEF SoftDeletePolicy
  <1> QED
    BY <1>3, <1>5, <1>6, <1>7, <1>8

LEMMA WarehousesTyped ==
    ASSUME Shape, Typed(rows), NEW w,
           CreateWarehouse(w) \/ UpdateWarehouse(w) \/ MakeDefault(w) \/ RemoveWarehouse(w)
    PROVE  BeginsTyped(w)
  <1>0. "warehouse" \in Tables /\ Live("warehouse") \subseteq DOMAIN rows["warehouse"]
    BY DEF Tables, Live
  <1>00. /\ <<"refs">> \in Seq(Before) /\ <<"refs", "code">> \in Seq(Before)
         /\ <<"code">> \in Seq(Before) /\ <<>> \in Seq(Before)
    BY DEF Before
  <1>01. \A b : Defaulted(b) \in {<<>>, <<"unset">>}
    BY DEF Defaulted
  <1>1. ASSUME NEW id \in Live("warehouse"), NEW patch, Good("warehouse", patch), NEW refs,
               NEW any, NEW todo, SaveTodo(todo),
               OpenSave(w, "warehouse", id, patch, refs, any, todo)
        PROVE  BeginsTyped(w)
    BY <1>0, <1>1, SaveTyped DEF Good
  <1>2. CASE CreateWarehouse(w)
    <2>1. PICK c \in Codes, o \in Owners, d \in BOOLEAN :
            OpenInsert(w, "warehouse", Warehouse(c, o, d), OwnerRefs(o), FALSE,
                       <<"refs", "code">> \o Defaulted(d) \o Insert)
      BY <1>2 DEF CreateWarehouse
    <2>2. PICK u : u = Defaulted(d)
      OBVIOUS
    <2>3. PICK todo : todo = <<"refs", "code">> \o u \o Insert
      OBVIOUS
    <2>4. InsertTodo(todo)
      BY <1>00, <2>2, <2>3, DefaultTodos DEF Defaulted
    <2>5. TypedRow(rows, "warehouse", Warehouse(c, o, d))
      BY NewRowsTyped
    <2> QED
      BY <1>0, <2>1, <2>2, <2>3, <2>4, <2>5, InsertTyped
  <1>3. CASE UpdateOwner(w)
    <2>1. PICK i \in Live("warehouse"), o \in Owners :
            \E patch \in {[owner |-> o], [owner |-> o, default |-> TRUE],
                          [owner |-> o, default |-> FALSE]} :
              \E d : /\ d = Defaulted("default" \in DOMAIN patch /\ patch.default)
                     /\ OpenSave(w, "warehouse", i, patch, OwnerRefs(o), FALSE,
                                 <<"refs">> \o d \o Save)
      BY <1>3 DEF UpdateOwner
    <2>2. PICK patch \in {[owner |-> o], [owner |-> o, default |-> TRUE],
                          [owner |-> o, default |-> FALSE]} :
            \E d : /\ d = Defaulted("default" \in DOMAIN patch /\ patch.default)
                   /\ OpenSave(w, "warehouse", i, patch, OwnerRefs(o), FALSE,
                               <<"refs">> \o d \o Save)
      BY <2>1
    <2>3. PICK d : /\ d = Defaulted("default" \in DOMAIN patch /\ patch.default)
                   /\ OpenSave(w, "warehouse", i, patch, OwnerRefs(o), FALSE,
                               <<"refs">> \o d \o Save)
      BY <2>2
    <2>4. PICK todo : todo = <<"refs">> \o d \o Save
      OBVIOUS
    <2>5. SaveTodo(todo)
      <3>1. d \in {<<>>, <<"unset">>}
        BY <2>3 DEF Defaulted
      <3> QED
        BY <1>00, <2>4, <3>1, DefaultTodos
    <2>6. Good("warehouse", patch)
      <3>1. /\ Values(rows, "warehouse", "owner") = Owners
            /\ Values(rows, "warehouse", "default") = BOOLEAN
        BY RowValues
      <3>2. /\ DOMAIN patch \subseteq {"owner", "default"}
            /\ patch.owner = o
        OBVIOUS
      <3>3. "default" \in DOMAIN patch => patch.default \in BOOLEAN
        <4>1. CASE patch = [owner |-> o, default |-> TRUE]
          BY <4>1
        <4>2. CASE patch = [owner |-> o, default |-> FALSE]
          BY <4>2
        <4>3. CASE patch = [owner |-> o]
          BY <4>3
        <4> QED
          BY <4>1, <4>2, <4>3
      <3> QED
        BY <3>1, <3>2, <3>3 DEF Good
    <2> QED
      BY <1>1, <2>3, <2>4, <2>5, <2>6
  <1>4. ASSUME NEW i \in Live("warehouse"), NEW c \in Codes, NEW d \in BOOLEAN,
               NEW patch \in {[code |-> c], [default |-> d], [code |-> c, default |-> d]},
               NEW u \in {<<>>, <<"unset">>}, NEW p \in {<<"code">>, <<>>},
               OpenSave(w, "warehouse", i, patch, {}, FALSE, u \o p \o Save)
        PROVE  BeginsTyped(w)
    <2>1. PICK todo : todo = u \o p \o Save
      OBVIOUS
    <2>2. SaveTodo(todo)
      BY <1>00, <2>1, DefaultTodos
    <2>3. Good("warehouse", patch)
      <3>1. Values(rows, "warehouse", "default") = BOOLEAN
        BY RowValues
      <3>2. /\ DOMAIN patch \subseteq {"code", "default"}
            /\ "default" \in DOMAIN patch => patch.default = d
        OBVIOUS
      <3> QED
        BY <3>1, <3>2 DEF Good
    <2> QED
      BY <1>1, <1>4, <2>1, <2>2, <2>3
  <1>5. CASE UpdateWarehouse(w) /\ ~UpdateOwner(w)
    <2>1. CASE \E i \in Live("warehouse"), s \in Status :
                 OpenSave(w, "warehouse", i, [status |-> s], {}, FALSE, Save) /\ Kept
      BY <1>0, <1>1, <2>1, PlainPatches, Todos DEF PlainSave
    <2>2. CASE \E i \in Live("warehouse"), c \in Codes, d \in BOOLEAN :
               \E patch \in {[code |-> c], [default |-> d], [code |-> c, default |-> d]} :
                 /\ OpenSave(w, "warehouse", i, patch, {}, FALSE,
                             Defaulted("default" \in DOMAIN patch /\ d)
                             \o (IF "code" \in DOMAIN patch THEN <<"code">> ELSE <<>>) \o Save)
                 /\ Kept
      <3>1. PICK i \in Live("warehouse"), c \in Codes, d \in BOOLEAN :
               \E patch \in {[code |-> c], [default |-> d], [code |-> c, default |-> d]} :
                 /\ OpenSave(w, "warehouse", i, patch, {}, FALSE,
                             Defaulted("default" \in DOMAIN patch /\ d)
                             \o (IF "code" \in DOMAIN patch THEN <<"code">> ELSE <<>>) \o Save)
                 /\ Kept
        BY <2>2
      <3>2. PICK patch \in {[code |-> c], [default |-> d], [code |-> c, default |-> d]} :
                 /\ OpenSave(w, "warehouse", i, patch, {}, FALSE,
                             Defaulted("default" \in DOMAIN patch /\ d)
                             \o (IF "code" \in DOMAIN patch THEN <<"code">> ELSE <<>>) \o Save)
                 /\ Kept
        BY <3>1
      <3>3. PICK u, p :
              /\ u = Defaulted("default" \in DOMAIN patch /\ d)
              /\ p = IF "code" \in DOMAIN patch THEN <<"code">> ELSE <<>>
              /\ OpenSave(w, "warehouse", i, patch, {}, FALSE, u \o p \o Save)
        BY <3>2
      <3>4. u \in {<<>>, <<"unset">>} /\ p \in {<<"code">>, <<>>}
        BY <3>3 DEF Defaulted
      <3> QED
        BY <1>4, <3>3, <3>4
    <2> QED
      BY <1>5, <2>1, <2>2 DEF UpdateWarehouse
  <1>6. CASE MakeDefault(w)
    <2>1. Good("warehouse", [default |-> TRUE])
      <3>1. PICK patch : patch = [default |-> TRUE]
        OBVIOUS
      <3>2. DOMAIN patch = {"default"}
        BY <3>1
      <3>3. patch.default \in BOOLEAN
        BY <3>1
      <3> QED
        BY <3>1, <3>2, <3>3, RowValues DEF Good
    <2>2. SaveTodo(<<"unset">> \o Save)
      <3>1. <<"unset">> \in Seq(Before)
        BY DEF Before
      <3> QED
        BY <3>1, SavePlans
    <2> QED
      BY <1>1, <1>6, <2>1, <2>2 DEF MakeDefault
  <1>7. CASE RemoveWarehouse(w)
    BY <1>0, <1>1, <1>7, PlainPatches, Todos DEF RemoveWarehouse, PlainSave
  <1> QED
    BY <1>2, <1>3, <1>5, <1>6, <1>7

LEMMA RequestsTyped ==
    ASSUME Shape, Typed(rows), NEW w,
           CatalogBegin(w) \/ SitesBegin(w) \/ DistributorsBegin(w)
    PROVE  BeginsTyped(w)
  BY CatalogTyped, SitesTyped, DistributorsTyped, WarehousesTyped DEF DistributorsBegin

----------------------------------------------------------------------------
(* Tables only grow, so what fits their columns goes on to fit.            *)

LEMMA ValuesGrow ==
    ASSUME Shape, Grown, NEW t \in Tables, NEW c \in Columns[t] \ {"code"}
    PROVE  Values(rows, t, c) \subseteq Values(rows', t, c)
  <1>1. \A u \in Tables : DOMAIN rows[u] \subseteq DOMAIN rows'[u]
    BY DEF Grown
  <1>2. PICK new : new = rows'
    OBVIOUS
  <1>3. \A u \in {"brand", "category", "subCategory", "distributor", "orgNode"} :
          DOMAIN rows[u] \subseteq DOMAIN new[u]
    BY <1>1, <1>2 DEF Tables
  <1>4. CASE c \in {"status", "deleted"}
    BY <1>4, PlainValues
  <1>5. CASE c \notin {"status", "deleted"}
    <2>1. CASE t = "sku"
      <3>1. c \in {"brand", "category", "subCategory"}
        BY <1>5, <2>1, ColumnsAre
      <3> QED
        BY <1>2, <1>3, <2>1, <3>1, OtherValues
    <2>2. CASE t = "subCategory"
      BY <1>2, <1>3, <1>5, <2>2, ColumnsAre, OtherValues
    <2>3. CASE t = "distributor"
      BY <1>2, <1>3, <1>5, <2>3, ColumnsAre, OtherValues
    <2>4. CASE t = "warehouse"
      BY <1>2, <1>3, <1>5, <2>4, ColumnsAre, OtherValues
    <2>5. CASE t = "policy"
      BY <1>2, <1>5, <2>5, ColumnsAre, OtherValues
    <2>6. CASE t = "route"
      BY <1>2, <1>3, <1>5, <2>6, ColumnsAre, OtherValues
    <2>7. CASE t \in {"brand", "category", "orgNode", "outlet", "company"}
      BY <1>5, <2>7, ColumnsAre
    <2> QED
      BY <2>1, <2>2, <2>3, <2>4, <2>5, <2>6, <2>7 DEF Tables
  <1> QED
    BY <1>4, <1>5

LEMMA TypedGrow ==
    ASSUME Shape, Grown
    PROVE  /\ \A t \in Tables : \A row : TypedRow(rows, t, row) => TypedRow(rows', t, row)
           /\ \A q : q.table \in Tables /\ TypedAsk(rows, q) => TypedAsk(rows', q)
  <1>1. PICK new : new = rows'
    OBVIOUS
  <1>2. \A t \in Tables : \A c \in Columns[t] \ {"code"} :
          Values(rows, t, c) \subseteq Values(new, t, c)
    BY <1>1, ValuesGrow
  <1>3. \A t \in Tables : \A row : TypedRow(rows, t, row) => TypedRow(new, t, row)
    BY <1>2 DEF TypedRow
  <1>4. \A e : TypedRows(rows, e) => TypedRows(new, e)
    BY <1>3 DEF TypedRows, Tables
  <1> QED
    BY <1>1, <1>3, <1>4 DEF TypedAsk

(* What a request that goes on will write stays what it was.               *)
LEMMA AskGoesOn ==
    ASSUME NEW tables, NEW q, NEW r, Sound(q), Further(q, r), TypedAsk(tables, q),
           Head(q.todo) \in {"refs", "code", "codes", "load", "unset"}
    PROVE  TypedAsk(tables, r)
  <1>1. r.entity = q.entity /\ r.table = q.table /\ r.todo = Tail(q.todo) /\ r.gone = q.gone
    BY DEF Further
  <1>2. CASE SaveTodo(q.todo) \/ InsertTodo(q.todo)
    <2>1. SaveTodo(r.todo) \/ InsertTodo(r.todo)
      BY <1>1, <1>2, SaveGoesOn, InsertGoesOn
    <2> QED
      BY <1>1, <1>2, <2>1, NotBulk DEF TypedAsk
  <1>3. CASE BulkTodo(q.todo)
    <2>1. q.todo = <<"codes", "insertAll">>
      <3>1. Head(<<"insertAll">>) = "insertAll"
        OBVIOUS
      <3> QED
        BY <1>3, <3>1 DEF BulkTodo
    <2>2. r.todo = <<"insertAll">>
      BY <1>1, <2>1
    <2> QED
      BY <1>1, <1>3, <2>2 DEF TypedAsk, BulkTodo
  <1> QED
    BY <1>2, <1>3 DEF Sound, Saving, Adding, AddingMany

(* The requests, once one of them has gone on or ended.                    *)
LEMMA AsksHandled ==
    ASSUME Shape, TypesInv, NEW w \in Workers, Handles(w)
    PROVE  \A v \in Workers : ~Idle(v)' => TypedAsk(rows', req'[v])
  <1>1. Grown
    BY HandledGrow
  <1>2. Sound(req[w]) /\ req[w].table \in Tables /\ ~Idle(w)
    BY Underway DEF Handles
  <1>3. PICK next : next = req'
    OBVIOUS
  <1>4. ASSUME NEW v \in Workers, ~Idle(v)' PROVE TypedAsk(rows', next[v])
    <2>1. CASE v # w
      <3>1. next[v] = req[v] /\ ~Idle(v)
        BY <1>3, <1>4, <2>1 DEF Handles, Only, Idle
      <3>2. req[v].table \in Tables /\ TypedAsk(rows, req[v])
        BY <3>1, Underway DEF TypesInv
      <3> QED
        BY <1>1, <3>1, <3>2, TypedGrow
    <2>2. CASE v = w
      <3>1. next[w] # NoRequest
        BY <1>3, <1>4, <2>2 DEF Idle, NoRequest
      <3>2. /\ Further(req[w], next[w])
            /\ Head(req[w].todo) \in {"refs", "code", "codes", "load", "unset"}
        BY <1>3, <3>1, HandledGoesOn
      <3>3. TypedAsk(rows, req[w])
        BY <1>2 DEF TypesInv
      <3>4. TypedAsk(rows, next[w])
        BY <1>2, <3>2, <3>3, AskGoesOn
      <3>5. next[w].table \in Tables
        BY <1>2, <3>2 DEF Further
      <3> QED
        BY <1>1, <2>2, <3>4, <3>5, TypedGrow
    <2> QED
      BY <2>1, <2>2
  <1> QED
    BY <1>3, <1>4

----------------------------------------------------------------------------
(* Rows added have columns that fit, and codes of their own.               *)

Adds(w) ==
    LET t == req[w].table
        table == rows'[t]
        new == DOMAIN table \ DOMAIN Table(w)
    IN  /\ \A i \in DOMAIN Table(w) : table[i] = Table(w)[i]
        /\ \A i \in new : TypedRow(rows, t, table[i])
        /\ \A i \in new, j \in Indexed(t) : table[i].code # Table(w)[j].code
        /\ \A i, j \in new : table[i].code = table[j].code => i = j

LEMMA InsertAdds ==
    ASSUME Shape, TypesInv, NEW w \in Workers, Kept, InsertRow(w), rows' # rows
    PROVE  Adds(w)
  <1>1. AddsOne(w)
    BY InsertHandles
  <1>2. CodeFree(w, Indexed(req[w].table)) /\ ~Idle(w)
    BY DEF InsertRow, Doing
  <1>3. TypedRow(rows, req[w].table, req[w].entity)
    BY <1>1, <1>2, NotBulk DEF AddsOne, Adding, TypesInv, TypedAsk
  <1>4. req[w].id \notin Indexed(req[w].table)
    <2>1. req[w].table \in Tables
      BY <1>2, Underway
    <2>2. None \notin DOMAIN rows[req[w].table]
      BY <2>1, NoneIsNoRow DEF Shape
    <2> QED
      BY <1>1, <2>2 DEF AddsOne, Adding, Indexed, Live, All
  <1> QED
    BY <1>1, <1>2, <1>3, <1>4 DEF Adds, AddsOne, CodeFree

LEMMA InsertAllAdds ==
    ASSUME Shape, TypesInv, NEW w \in Workers, Kept, InsertAll(w), rows' # rows
    PROVE  Adds(w)
  <1>1. AddsMany(w)
    BY InsertAllHandles
  <1>2. ~HasCode(w, All("outlet")) /\ ~Idle(w)
    BY DEF InsertAll, Doing
  <1>3. TypedRows(rows, req[w].entity) /\ req[w].table = "outlet"
    BY <1>1, <1>2 DEF AddsMany, AddingMany, TypesInv, TypedAsk
  <1>4. Indexed("outlet") = DOMAIN rows["outlet"] /\ Table(w) = rows["outlet"]
    BY <1>3 DEF Indexed, All, Table
  <1>5. \A i \in DOMAIN rows["outlet"], j \in DOMAIN req[w].entity :
          rows["outlet"][i].code # req[w].entity[j].code
    BY <1>2 DEF HasCode, All
  <1> QED
    BY <1>1, <1>3, <1>4, <1>5 DEF Adds, AddsMany, TypedRows

LEMMA TypedAdded ==
    ASSUME Shape, TypesInv, NEW w \in Workers, Handles(w), Adds(w),
           \A t \in Tables \ {req[w].table} : rows'[t] = rows[t]
    PROVE  Typed(rows') /\ CodesTell(rows')
  <1>1. Grown /\ req[w].table \in Tables
    BY HandledGrow, Underway DEF Handles
  <1>2. PICK new : new = rows'
    OBVIOUS
  <1>3. PICK t : t = req[w].table
    OBVIOUS
  <1>4. /\ \A i \in DOMAIN rows[t] : new[t][i] = rows[t][i]
        /\ \A i \in DOMAIN new[t] \ DOMAIN rows[t] :
             /\ TypedRow(rows, t, new[t][i])
             /\ \A j \in Indexed(t) : new[t][i].code # rows[t][j].code
        /\ \A i, j \in DOMAIN new[t] \ DOMAIN rows[t] :
             new[t][i].code = new[t][j].code => i = j
        /\ \A u \in Tables \ {t} : new[u] = rows[u]
    BY <1>2, <1>3 DEF Adds, Table
  <1>5. \A u \in Tables : \A i \in DOMAIN new[u] : TypedRow(rows, u, new[u][i])
    <2>1. \A u \in Tables : \A i \in DOMAIN rows[u] : TypedRow(rows, u, rows[u][i])
      BY DEF TypesInv, Typed, TypedRow, Shape, IsTable, IsRow
    <2> QED
      BY <1>4, <2>1
  <1>6. Typed(new)
    BY <1>1, <1>2, <1>5, TypedGrow DEF Typed, TypedRow
  <1>7. CodesTell(new)
    <2> SUFFICES ASSUME NEW u \in Tables, NEW i \in DOMAIN new[u], NEW j \in DOMAIN new[u],
                        new[u][i].code = new[u][j].code,
                        u = "policy" => ~new[u][i].deleted /\ ~new[u][j].deleted
                 PROVE  i = j
      BY DEF CodesTell
    <2>0. CodesTell(rows)
      BY DEF TypesInv
    <2>1. CASE i \in DOMAIN rows[u] /\ j \in DOMAIN rows[u]
      BY <1>4, <2>0, <2>1 DEF CodesTell
    <2>2. ASSUME NEW a \in DOMAIN rows[u], u = "policy" => ~new[u][a].deleted, u = t
          PROVE  a \in Indexed(t)
      BY <1>4, <2>2 DEF Indexed, All, Live
    <2> QED
      BY <1>4, <2>1, <2>2
  <1> QED
    BY <1>2, <1>6, <1>7

----------------------------------------------------------------------------
(* A save keeps the columns fit: each is the row's or the entity's.        *)

LEMMA SavesTyped ==
    ASSUME Shape, TypesInv, NEW w \in Workers, Write(w), Writes(w), Handles(w), rows' # rows
    PROVE  Typed(rows') /\ CodesTell(rows')
  <1>1. Grown /\ req[w].table \in Tables /\ ~Idle(w)
    BY HandledGrow, Underway DEF Handles
  <1>2. PICK new : new = rows'
    OBVIOUS
  <1>3. PICK t, id : t = req[w].table /\ id = req[w].id
    OBVIOUS
  <1>4. PICK row : row = Overlay(rows[t][id], req[w].entity, req[w].diff)
    OBVIOUS
  <1>5. /\ DOMAIN new[t] = DOMAIN rows[t] /\ id \in DOMAIN rows[t] /\ new[t][id] = row
        /\ \A i \in DOMAIN rows[t] \ {id} : new[t][i] = rows[t][i]
        /\ \A u \in Tables \ {t} : new[u] = rows[u]
        /\ t \in Tables
    BY <1>1, <1>2, <1>3, <1>4 DEF Writes, Alone, Table
  <1>6. Distinct(t, id, row)
    BY <1>3, <1>4 DEF Write, UpdateRow, Table
  <1>7. \A u \in Tables : \A i \in DOMAIN rows[u] : TypedRow(rows, u, rows[u][i])
    BY DEF TypesInv, Typed, TypedRow, Shape, IsTable, IsRow
  <1>8. TypedRow(rows, t, req[w].entity)
    <2>1. ~BulkTodo(req[w].todo)
      <3>1. <<"write">>[1] = "write" /\ <<"codes", "insertAll">>[1] = "codes"
            /\ <<"insertAll">>[1] = "insertAll"
        OBVIOUS
      <3> QED
        BY <3>1 DEF Writes, BulkTodo
    <2> QED
      BY <1>1, <1>3, <2>1 DEF TypesInv, TypedAsk
  <1>9. TypedRow(rows, t, row)
    BY <1>4, <1>5, <1>7, <1>8 DEF TypedRow, Overlay
  <1>10. Typed(new)
    <2>1. \A u \in Tables : \A i \in DOMAIN new[u] : TypedRow(rows, u, new[u][i])
      BY <1>5, <1>7, <1>9
    <2> QED
      BY <1>1, <1>2, <2>1, TypedGrow DEF Typed, TypedRow
  <1>11. CodesTell(new)
    <2> SUFFICES ASSUME NEW u \in Tables, NEW i \in DOMAIN new[u], NEW j \in DOMAIN new[u],
                        new[u][i].code = new[u][j].code,
                        u = "policy" => ~new[u][i].deleted /\ ~new[u][j].deleted
                 PROVE  i = j
      BY DEF CodesTell
    <2>0. CodesTell(rows)
      BY DEF TypesInv
    <2>1. CASE u # t \/ (i # id /\ j # id)
      BY <1>5, <2>0, <2>1 DEF CodesTell
    <2>2. ASSUME NEW a \in DOMAIN rows[t] \ {id}, t = "policy" => ~row.deleted,
                 t = "policy" => ~new[t][a].deleted, u = t
          PROVE  new[t][a].code # row.code
      <3>1. a \in Indexed(t) \ {id}
        BY <1>5, <2>2 DEF Indexed, All, Live
      <3> QED
        BY <1>5, <1>6, <2>2, <3>1 DEF Distinct
    <2> QED
      BY <1>5, <2>1, <2>2
  <1> QED
    BY <1>2, <1>10, <1>11

LEMMA UnsetsTyped ==
    ASSUME Shape, TypesInv, NEW w \in Workers, Unsets(w), Handles(w)
    PROVE  Typed(rows') /\ CodesTell(rows')
  <1>1. Grown
    BY HandledGrow
  <1>2. PICK new : new = rows'
    OBVIOUS
  <1>3. /\ \A u \in Tables \ {"warehouse"} : new[u] = rows[u]
        /\ DOMAIN new["warehouse"] = DOMAIN rows["warehouse"]
        /\ \A i \in DOMAIN new["warehouse"] :
             \E d \in BOOLEAN : new["warehouse"][i] = [rows["warehouse"][i] EXCEPT !.default = d]
    BY <1>2 DEF Unsets, Alone, Table
  <1>4. \A u \in Tables : \A i \in DOMAIN rows[u] : TypedRow(rows, u, rows[u][i])
    BY DEF TypesInv, Typed, TypedRow, Shape, IsTable, IsRow
  <1>5. ASSUME NEW i \in DOMAIN new["warehouse"]
        PROVE  /\ TypedRow(rows, "warehouse", new["warehouse"][i])
               /\ new["warehouse"][i].code = rows["warehouse"][i].code
    <2>1. PICK d \in BOOLEAN :
            new["warehouse"][i] = [rows["warehouse"][i] EXCEPT !.default = d]
      BY <1>3
    <2>2. TypedRow(rows, "warehouse", rows["warehouse"][i])
      BY <1>3, <1>4 DEF Tables
    <2>3. Columns["warehouse"] = {"code", "status", "deleted", "owner", "default"}
          /\ Values(rows, "warehouse", "default") = BOOLEAN
      BY ColumnsAre, OtherValues
    <2> QED
      BY <2>1, <2>2, <2>3 DEF TypedRow
  <1>6. Typed(new)
    <2>1. \A u \in Tables : \A i \in DOMAIN new[u] : TypedRow(rows, u, new[u][i])
      BY <1>3, <1>4, <1>5
    <2> QED
      BY <1>1, <1>2, <2>1, TypedGrow DEF Typed, TypedRow
  <1>7. CodesTell(new)
    <2> SUFFICES ASSUME NEW u \in Tables, NEW i \in DOMAIN new[u], NEW j \in DOMAIN new[u],
                        new[u][i].code = new[u][j].code,
                        u = "policy" => ~new[u][i].deleted /\ ~new[u][j].deleted
                 PROVE  i = j
      BY DEF CodesTell
    <2>0. CodesTell(rows)
      BY DEF TypesInv
    <2>1. CASE u = "warehouse"
      <3>1. u # "policy"
        BY <2>1
      <3> QED
        BY <1>3, <1>5, <2>0, <2>1, <3>1 DEF CodesTell
    <2>2. CASE u # "warehouse"
      BY <1>3, <2>0, <2>2 DEF CodesTell
    <2> QED
      BY <2>1, <2>2
  <1> QED
    BY <1>2, <1>6, <1>7

----------------------------------------------------------------------------
LEMMA TypesGoOn ==
    ASSUME Shape, TypesInv, MasterNext
    PROVE  TypesInv'
  <1>1. PICK w \in Workers :
          \/ (CatalogBegin(w) \/ SitesBegin(w) \/ Proceed(w) \/ Abandon(w)) /\ Kept
          \/ DistributorsBegin(w)
          \/ UnsetOtherDefaults(w)
    BY DEF MasterNext
  <1>2. CASE CatalogBegin(w) \/ SitesBegin(w) \/ DistributorsBegin(w)
    <2>1. PICK q : Open(w, q) /\ TypedAsk(rows, q)
      BY <1>2, RequestsTyped DEF BeginsTyped, TypesInv
    <2>2. Only(w) /\ req'[w] = q /\ rows' = rows
      BY <2>1, OpenOnly
    <2>3. PICK next : next = req'
      OBVIOUS
    <2>4. ASSUME NEW v \in Workers, ~Idle(v)' PROVE TypedAsk(rows, next[v])
      <3>1. CASE v # w
        BY <2>2, <2>3, <2>4, <3>1 DEF Only, Idle, TypesInv
      <3> QED
        BY <2>1, <2>2, <2>3, <3>1
    <2> QED
      BY <2>2, <2>3, <2>4 DEF TypesInv
  <1>3. CASE ((Proceed(w) \/ Abandon(w)) /\ Kept) \/ UnsetOtherDefaults(w)
    <2>1. Handles(w)
      BY <1>3, RequestsHandled
    <2>2. \A v \in Workers : ~Idle(v)' => TypedAsk(rows', req'[v])
      BY <2>1, AsksHandled
    <2>3. Typed(rows') /\ CodesTell(rows')
      <3>1. CASE rows' = rows
        BY <3>1 DEF TypesInv
      <3>2. CASE rows' # rows /\ (InsertRow(w) \/ InsertAll(w)) /\ Kept
        <4>1. Adds(w)
          BY <3>2, InsertAdds, InsertAllAdds
        <4>2. \A t \in Tables \ {req[w].table} : rows'[t] = rows[t]
          BY <2>1, <3>2 DEF Handles, Quiet, Grows, Writes, Unsets, Alone
        <4> QED
          BY <2>1, <4>1, <4>2, TypedAdded
      <3>3. CASE rows' # rows /\ Write(w) /\ Kept
        <4>1. Writes(w)
          BY <3>3, WriteHandles
        <4> QED
          BY <2>1, <3>3, <4>1, SavesTyped
      <3>4. CASE UnsetOtherDefaults(w)
        <4>1. Unsets(w)
          BY <3>4, UnsetHandles
        <4> QED
          BY <2>1, <4>1, UnsetsTyped
      <3>5. CASE CheckRefs(w) \/ CheckCode(w) \/ CheckCodes(w) \/ Load(w) \/ Abandon(w)
        BY <3>1, <3>5 DEF CheckRefs, CheckCode, CheckCodes, Check, Load, Abandon
      <3> QED
        BY <1>3, <3>1, <3>2, <3>3, <3>4, <3>5 DEF Proceed
    <2> QED
      BY <2>2, <2>3 DEF TypesInv
  <1> QED
    BY <1>1, <1>2, <1>3

LEMMA TypesInvHolds == MasterSpec => []TypesInv
  <1>1. MasterInit => TypesInv
    <2> SUFFICES ASSUME MasterInit PROVE TypesInv
      OBVIOUS
    <2>1. PICK first \in FirstRows : rows = first.rows
      BY DEF MasterInit, RowsInit
    <2>2. Typed(first.rows) /\ CodesTell(first.rows)
      BY FirstRowsAssumption
    <2>3. \A w \in Workers : Idle(w)
      BY DEF MasterInit, RowsInit, Idle, NoRequest
    <2> QED
      BY <2>1, <2>2, <2>3 DEF TypesInv
  <1>2. MasterInv /\ TypesInv /\ [MasterNext]_masterVars => TypesInv'
    <2>1. CASE UNCHANGED masterVars
      BY <2>1 DEF masterVars, vars, TypesInv, Idle
    <2> QED
      BY <2>1, TypesGoOn DEF MasterInv
  <1> QED
    BY <1>1, <1>2, MasterInvariantHolds, PTL DEF MasterSpec

(* Type correctness: what is kept of a row fits its columns and what it    *)
(* refers to is there, and no two rows have one code, although a code is   *)
(* looked for some statements before it is inserted: the unique index      *)
(* refuses what came in between, in a bulk insertion all of it.            *)
THEOREM MasterTypesHold == MasterSpec => []MasterTypeOK
  <1>1. TypesInv => MasterTypeOK
    BY DEF TypesInv, MasterTypeOK
  <1> QED
    BY <1>1, TypesInvHolds, PTL

----------------------------------------------------------------------------
(* A save sets a column to that of its entity, so that one brings a row    *)
(* back whose entity is not deleted; it was not when it was read, either.  *)
LEMMA DeletedStay ==
    ASSUME Shape, TypesInv, MasterNext, NEW t \in Tables, NEW i \in DOMAIN rows[t],
           rows[t][i].deleted, ~rows'[t][i].deleted
    PROVE  \E w \in Workers : /\ Saves(w, t, i)
                             /\ ~req[w].gone /\ "deleted" \in req[w].diff
  <1>1. PICK w \in Workers : Begins(w) \/ Handles(w)
    BY MasterStep
  <1>2. rows' # rows
    OBVIOUS
  <1>3. Handles(w)
    BY <1>1, <1>2, OpenOnly DEF Begins
  <1>4. req[w].table = t /\ ~Quiet(w) /\ Table(w) = rows[t]
    BY <1>2, <1>3, OtherTables DEF Quiet, Table
  <1>5. ~Grows(w)
    BY <1>4 DEF Grows
  <1>6. ~Unsets(w)
    <2> SUFFICES ASSUME Unsets(w) PROVE FALSE
      OBVIOUS
    <2>1. t = "warehouse"
      BY <1>4 DEF Unsets
    <2>2. rows'[t][i] = [rows[t][i] EXCEPT !.default = @ /\ i \notin OtherDefaults(w)]
      BY <1>4, <2>1 DEF Unsets
    <2>3. DOMAIN rows[t][i] = {"code", "status", "deleted", "owner", "default"}
      BY <2>1, WarehouseColumns
    <2> QED
      BY <2>2, <2>3
  <1>7. Writes(w)
    BY <1>3, <1>4, <1>5, <1>6 DEF Handles
  <1>8. /\ req[w].todo = <<"write">>
        /\ i # req[w].id => rows'[t][i] = rows[t][i]
        /\ rows'[t][req[w].id] = Overlay(rows[t][req[w].id], req[w].entity, req[w].diff)
    BY <1>4, <1>7 DEF Writes
  <1>9. req[w].id = i
    BY <1>8
  <1>10. "deleted" \in DOMAIN rows[t][i]
    BY DEF Shape, IsTable, IsRow, Columns
  <1>11. "deleted" \in req[w].diff /\ ~req[w].entity.deleted
    BY <1>8, <1>9, <1>10 DEF Overlay
  <1>12. Doing(w, "write")
    BY <1>3, <1>8 DEF Doing, Handles
  <1>13. ~req[w].gone
    <2>1. ~BulkTodo(req[w].todo)
      <3>1. <<"write">>[1] = "write" /\ <<"codes", "insertAll">>[1] = "codes"
            /\ <<"insertAll">>[1] = "insertAll"
        OBVIOUS
      <3> QED
        BY <1>8, <3>1 DEF BulkTodo
    <2>2. TypedAsk(rows, req[w])
      BY <1>3 DEF Handles, TypesInv
    <2> QED
      BY <1>11, <2>1, <2>2 DEF TypedAsk
  <1> QED
    BY <1>4, <1>9, <1>11, <1>12, <1>13 DEF Saves

(* A deleted row comes back only by a save that overlaps with the          *)
(* deletion: its copy was read while the row was live, and compared when   *)
(* it no longer was.  No service writes back a row that it finds deleted   *)
(* as one that is live, whatever the columns it patches.                   *)
THEOREM DeletedRowsStay == MasterSpec => DeletedStayDeleted
  <1> DEFINE Comes == \A t \in Tables : \A i \in DOMAIN rows[t] :
         rows[t][i].deleted /\ ~rows'[t][i].deleted =>
           \E w \in Workers : /\ Saves(w, t, i)
                             /\ ~req[w].gone /\ "deleted" \in req[w].diff
  <1>1. MasterInv /\ TypesInv /\ [MasterNext]_masterVars => [Comes]_masterVars
    <2> SUFFICES ASSUME MasterInv, TypesInv, MasterNext PROVE Comes
      OBVIOUS
    <2> QED
      BY DeletedStay DEF MasterInv
  <1>2. DeletedStayDeleted <=> [][Comes]_masterVars
    BY DEF DeletedStayDeleted
  <1> HIDE DEF Comes
  <1> QED
    BY <1>1, <1>2, MasterInvariantHolds, TypesInvHolds, PTL DEF MasterSpec
=============================================================================
