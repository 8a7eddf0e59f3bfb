------------------------------- MODULE Schemes -------------------------------
(***************************************************************************)
(* Schemes: the discounts and free goods an order earns.  Schemes have a   *)
(* priority, and rules in an order; a rule has a threshold, of a SKU or of *)
(* the whole order, and rewards.  applySchemesToOrder reads schemes and    *)
(* rules by two statements and takes them in order until one of a scheme   *)
(* that does not stack applies.  Meanwhile schemes and rules are created,  *)
(* edited, deleted and imported.  The code of a scheme never changes and   *)
(* is unique, so it stands for its id.  Rows once deleted count like any   *)
(* other, for TypeORM drops the condition deleted_at: null; deleted_at is  *)
(* left out.  Numbers are brought in the notation of the database, so that *)
(* save() compares them as such.                                           *)
(***************************************************************************)
EXTENDS Integers, Sequences, FiniteSets, SequencesExt, Relation

CONSTANTS
    Workers,    \* requests in flight, each with a database connection
    Codes,      \* scheme codes
    MaxRows,    \* bound: rows of md_scheme and md_scheme_rule
    MaxRequests,    \* bound: requests in all
    Stored,     \* the rows there are at first
    Orders,     \* the lines an order may have: SKU, quantity, unit price
    NewRows,    \* the schemes and rules a request may bring
    Patches,    \* the columns a request may bring, with their values
    Workbooks   \* the rows a workbook may bring, schemes first

NULL == -1
Ids == 1..MaxRows
Number == Nat \cup {NULL}

(* active: status, dates and scope of the scheme suit the order's day and  *)
(* buyer.  The key is that of the unique index.                            *)
Scheme == [key : {<<c>> : c \in Codes}, priority : Nat, stack : BOOLEAN,
           active : BOOLEAN]
Rule == [key : Codes \X Nat, buy : Number, minQty : Number, minAmount : Number,
         free : Number, percent : Number, off : Number]
Row == Scheme \cup Rule

IsScheme(row) == Len(row.key) = 1
IsRule(row) == Len(row.key) = 2
IsRows(f) == DOMAIN f \subseteq Ids /\ \A i \in DOMAIN f : f[i] \in Row

(* The checks of a rule: it has a threshold, which may be 0, and a reward. *)
Worthwhile(rule) ==
    /\ rule.minQty # NULL \/ rule.minAmount # NULL
    /\ rule.free > 0 \/ rule.percent > 0 \/ rule.off > 0

ASSUME SchemesAssumption ==
    /\ Codes \subseteq Nat /\ MaxRows \in Nat /\ MaxRequests \in Nat
    /\ IsRows(Stored) /\ NewRows \subseteq Row
    /\ \A row \in NewRows \cup {Stored[i] : i \in DOMAIN Stored} :
         IsRule(row) => Worthwhile(row)
    /\ \A s \in Orders : s \in Seq([sku : Nat, qty : Nat \ {0}, price : Nat])
    /\ \A b \in Workbooks : b \in Seq(Row)

VARIABLES
    rows,       \* committed md_scheme and md_scheme_rule rows, by id
    req,        \* the request each worker handles
    seen,       \* history: the tables as they were while an order was priced
    overlapped, \* history: rules two requests worked on at once
    begun       \* the requests there were

vars == <<rows, req, seen, overlapped, begun>>

INSTANCE SavedEntity

NoRows == [i \in {} |-> 0]
Merged(f, g) == [i \in DOMAIN f \cup DOMAIN g |->
                   IF i \in DOMAIN g THEN g[i] ELSE f[i]]

----------------------------------------------------------------------------
(* applySchemesToOrder, from the schemes and the rules found.  Discounts   *)
(* are in units of 1/Unit(o), so that a share of a line is whole.          *)

Amount(o, n) == o[n].qty * o[n].price
Total(o) == MapThenSumSet(LAMBDA n : Amount(o, n), DOMAIN o)
Base(o) == IF Total(o) = 0 THEN 1 ELSE Total(o)
Unit(o) == 100 * Base(o)

(* The line of the SKU the rule is about, the last one of them, or none:   *)
(* then the rule is about the whole order.                                 *)
LineOf(o, rule) ==
    LET bought == {n \in DOMAIN o : o[n].sku = rule.buy}
    IN  IF bought = {} THEN {} ELSE {Max(bought)}

Qty(o, rule) ==
    LET L == LineOf(o, rule)
    IN  MapThenSumSet(LAMBDA n : o[n].qty, IF L = {} THEN DOMAIN o ELSE L)
Basis(o, rule) ==
    LET L == LineOf(o, rule)
    IN  MapThenSumSet(LAMBDA n : Amount(o, n), IF L = {} THEN DOMAIN o ELSE L)

Earned(o, rule) == Qty(o, rule) >= rule.minQty /\ Basis(o, rule) >= rule.minAmount

Positive(number) == IF number > 0 THEN number ELSE 0

(* Mutant: an amount off the order comes off each of its lines.            *)
ShareInFull(o, rule, n) ==
    IF LineOf(o, rule) = {}
    THEN Amount(o, n) * Basis(o, rule) * Positive(rule.percent)
           + Unit(o) * Positive(rule.off)
    ELSE IF n \in LineOf(o, rule)
         THEN Base(o) * Basis(o, rule) * Positive(rule.percent)
                + Unit(o) * Positive(rule.off)
         ELSE 0

(* What the rule adds to the discount of a line.                           *)
Share(o, rule, n) ==
    IF LineOf(o, rule) = {}
    THEN Amount(o, n) * (Basis(o, rule) * Positive(rule.percent)
                           + 100 * Positive(rule.off))
    ELSE IF n \in LineOf(o, rule)
         THEN Base(o) * (Basis(o, rule) * Positive(rule.percent)
                           + 100 * Positive(rule.off))
         ELSE 0

SchemeOf(rule, S) == CHOOSE i \in DOMAIN S : S[i].key = <<rule.key[1]>>

(* Schemes by priority and id, both descending; rules by sort_order.       *)
Ahead(S, R, a, b) ==
    LET s == SchemeOf(R[a], S)  t == SchemeOf(R[b], S)
    IN  \/ S[s].priority > S[t].priority
        \/ S[s].priority = S[t].priority /\ s > t
        \/ s = t /\ R[a].key[2] < R[b].key[2]

(* The rules in force: those of active schemes.                            *)
InForce(S, R) == {a \in DOMAIN R : \E s \in DOMAIN S :
                    S[s].active /\ S[s].key = <<R[a].key[1]>>}

(* The loops, up to the return in the middle.                              *)
Apply(o, S, R) ==
    LET take(acc, a) ==
          IF acc.returned \/ ~Earned(o, R[a]) THEN acc
          ELSE [applied |-> acc.applied \cup {a},
                discount |-> [n \in DOMAIN o |-> acc.discount[n] + Share(o, R[a], n)],
                returned |-> ~S[SchemeOf(R[a], S)].stack]
    IN  FoldLeft(take,
                 [applied |-> {}, discount |-> [n \in DOMAIN o |-> 0],
                  returned |-> FALSE],
                 SetToSortSeq(InForce(S, R), LAMBDA a, b : Ahead(S, R, a, b)))

SchemesIn(t) == [i \in {j \in DOMAIN t : IsScheme(t[j])} |-> t[i]]
RulesIn(t) == [i \in {j \in DOMAIN t : IsRule(t[j])} |-> t[i]]

(* createDraft, updateDraft: schemeRes.lines is missing when the loops     *)
(* return in the middle, for the result then has its lines in data.  The   *)
(* discount goes by SKU, the last line of a SKU's to all of them.          *)
DiscountStored(o, res) ==
    [n \in DOMAIN o |->
       IF res.returned THEN 0
       ELSE res.discount[Max({m \in DOMAIN o : o[m].sku = o[n].sku})]]

----------------------------------------------------------------------------
(* A request in progress.  order: the lines priced.  found: the schemes an *)
(* order found.  lines: of a workbook, those left.  saving, entity: the    *)
(* row that is saved, or new, and what it is to be.  diff: the columns set.*)
(* written: the rows of an import, not committed.                          *)
NoRequest == [op |-> "none"]

Request(op, at) ==
    [op |-> op, at |-> at, order |-> <<>>, found |-> NoRows, discount |-> <<>>,
     lines |-> <<>>, asked |-> <<>>, saving |-> 0, entity |-> NoRows,
     diff |-> {}, written |-> NoRows]

Idle(w) == req[w].op = "none"
At(w, step) == ~Idle(w) /\ req[w].at = step
Others(w) == {v \in Workers \ {w} : ~Idle(v)}
Visible(w) == Merged(rows, req[w].written)
Inserted(v) == DOMAIN req[v].written \ DOMAIN rows
Free(w, i) == \A v \in Others(w) : i \notin DOMAIN req[v].written

WithKey(t, key) == {i \in DOMAIN t : t[i].key = key}
UnusedIds ==
    Ids \ (DOMAIN rows \cup UNION {Inserted(v) : v \in {u \in Workers : ~Idle(u)}})
NextId == Min(UnusedIds)

OneRowApart(t, u) ==
    Cardinality({i \in DOMAIN t \cup DOMAIN u :
                   i \notin DOMAIN t \cap DOMAIN u \/ t[i] # u[i]}) <= 1

(* Every commit shows in what an order priced meanwhile has seen, as long  *)
(* as no two of the tables are more than a row apart.                      *)
Commit(table) ==
    /\ rows' = table
    /\ seen' = [w \in Workers |->
         IF seen[w] # {} /\ \A t \in seen[w] : OneRowApart(t, table)
         THEN seen[w] \cup {table} ELSE {}]

Unchanged == UNCHANGED <<rows, seen>>

SchemesInit ==
    /\ rows = Stored
    /\ req = [w \in Workers |-> NoRequest]
    /\ seen = [w \in Workers |-> {}]
    /\ overlapped = {}
    /\ begun = 0

Touching(v) == {req[v].saving} \cup DOMAIN req[v].written

(* A request takes up a row: others may be at work on the same rule.       *)
TakeUp(w, i, request) ==
    /\ req' = [req EXCEPT ![w] = request]
    /\ overlapped' = IF IsRule(request.entity) /\ \E v \in Others(w) : i \in Touching(v)
                     THEN overlapped \cup {i} ELSE overlapped
    /\ Unchanged

Stay == UNCHANGED overlapped /\ Unchanged

Keys(t) == {t[i].key : i \in DOMAIN t}

(* Bound: a request starts only when there is room for its rows.           *)
RoomFor(lines) ==
    Cardinality(Keys(rows) \cup Keys(lines)
      \cup UNION {Keys(req[v].asked) : v \in {u \in Workers : ~Idle(u)}}) <= MaxRows

(* createScheme, createSchemeRule: the scheme is looked up, a rule of the  *)
(* same sort_order refused.                                                *)
OpenCreate(w, row) ==
    /\ Idle(w) /\ RoomFor(<<row>>)
    /\ IsRule(row) => /\ WithKey(rows, <<row.key[1]>>) # {}
                      /\ WithKey(rows, row.key) = {}
    /\ req' = [req EXCEPT ![w] =
         [Request("create", "insert") EXCEPT !.entity = row, !.asked = <<row>>]]
    /\ Stay

(* The columns of the row that the request has; sort moves a rule.         *)
Patched(row, patch) ==
    [c \in DOMAIN row |->
       IF c = "key" /\ IsRule(row) /\ "sort" \in DOMAIN patch
       THEN <<row.key[1], patch.sort>>
       ELSE IF c \in DOMAIN patch THEN patch[c] ELSE row[c]]

OpenSave(w, i, entity) ==
    /\ Idle(w)
    /\ TakeUp(w, i, [Request("edit", "load") EXCEPT !.saving = i, !.entity = entity])

(* Mutant: the columns brought are checked, not the rule they make.        *)
OpenUpdateChecked(w, i, patch) ==
    /\ "percent" \in DOMAIN patch => patch.percent >= 0
    /\ OpenSave(w, i, Patched(rows[i], patch))

(* updateScheme, updateSchemeRule: the rule is checked as patched.         *)
OpenUpdate(w, i, patch) ==
    /\ IsRule(rows[i]) => Worthwhile(Patched(rows[i], patch))
    /\ OpenSave(w, i, Patched(rows[i], patch))

(* softDeleteScheme, softDeleteSchemeRule: the copy is saved all the same. *)
OpenDelete(w, i) == OpenSave(w, i, rows[i])

(* bulkImportScheme.                                                       *)
OpenImport(w, book) ==
    /\ Idle(w) /\ RoomFor(book)
    /\ req' = [req EXCEPT ![w] =
         [Request("import", "line") EXCEPT !.lines = book, !.asked = book]]
    /\ Stay

(* Mutant: a schemes table kept from an earlier order.                     *)
OpenOrderCached(w, o) ==
    /\ Idle(w)
    /\ req' = [req EXCEPT ![w] =
         [Request("order", "rules") EXCEPT !.order = o, !.found = SchemesIn(Stored)]]
    /\ seen' = [seen EXCEPT ![w] = {rows}]
    /\ UNCHANGED <<rows, overlapped>>

(* createDraft, updateDraft: the schemes are found.                        *)
OpenOrder(w, o) ==
    /\ Idle(w)
    /\ req' = [req EXCEPT ![w] =
         [Request("order", "rules") EXCEPT !.order = o, !.found = SchemesIn(rows)]]
    /\ seen' = [seen EXCEPT ![w] = {rows}]
    /\ UNCHANGED <<rows, overlapped>>

(* The rules are found, and the order priced.                              *)
Priced(w) == Apply(req[w].order, req[w].found,
                   [i \in InForce(req[w].found, RulesIn(rows)) |-> rows[i]])

PriceOrder(w) ==
    /\ At(w, "rules")
    /\ req' = [req EXCEPT ![w].discount = DiscountStored(req[w].order, Priced(w)),
                          ![w].at = "store"]
    /\ Stay

(* The order's rows are new: they meet no other request.                   *)
StoreOrder(w) ==
    /\ At(w, "store")
    /\ req' = [req EXCEPT ![w] = NoRequest]
    /\ seen' = [seen EXCEPT ![w] = {}]
    /\ UNCHANGED <<rows, overlapped>>

Give(w) == req' = [req EXCEPT ![w] = NoRequest] /\ Stay

(* A line of a workbook: its row is found and written over, or it is new.  *)
(* A rule needs its scheme, a threshold and a reward, or the import fails. *)
TakeLine(w) ==
    LET line == Head(req[w].lines)
        same == WithKey(Visible(w), line.key)
    IN  /\ At(w, "line") /\ req[w].lines # <<>>
        /\ IF IsRule(line) /\ \/ WithKey(Visible(w), <<line.key[1]>>) = {}
                              \/ ~Worthwhile(line)
           THEN Give(w)
           ELSE \/ /\ same = {}
                   /\ req' = [req EXCEPT ![w].at = "insert", ![w].entity = line]
                   /\ Stay
                \/ \E i \in same :
                     TakeUp(w, i, [req[w] EXCEPT !.at = "load", !.saving = i,
                                                 !.entity = line])

(* save(row): SELECT and UPDATE, alone or in the import's transaction.     *)
Load(w) ==
    /\ At(w, "load")
    /\ req' = [req EXCEPT
         ![w].diff = Differing(req[w].entity, Visible(w)[req[w].saving]),
         ![w].at = "write"]
    /\ Stay

Updated(w) == Overlay(Visible(w)[req[w].saving], req[w].entity, req[w].diff)

NextLine(w, i, row) ==
    [req[w] EXCEPT !.lines = Tail(@), !.at = "line", !.saving = 0, !.diff = {},
                   !.entity = NoRows, !.written = Merged(@, [j \in {i} |-> row])]

(* A write of an import waits for its commit; others commit at once.       *)
Put(w, i, row) ==
    IF req[w].op = "import"
    THEN req' = [req EXCEPT ![w] = NextLine(w, i, row)] /\ Stay
    ELSE /\ req' = [req EXCEPT ![w] = NoRequest]
         /\ Commit(Merged(rows, [j \in {i} |-> row]))
         /\ UNCHANGED overlapped

(* The unique indexes: a changed or new key that another row has makes the *)
(* statement fail, and one not committed yet makes it wait.                *)
Waits(w, key, v) == v \in Others(w) /\ WithKey(req[v].written, key) # {}

Write(w) ==
    LET i == req[w].saving
    IN  /\ At(w, "write") /\ Free(w, i)
        /\ \A v \in Workers :
             "key" \in req[w].diff => ~Waits(w, req[w].entity.key, v)
        /\ IF "key" \in req[w].diff /\ WithKey(Visible(w), req[w].entity.key) # {}
           THEN Give(w)
           ELSE Put(w, i, Updated(w))

Insert(w) ==
    LET key == req[w].entity.key
    IN  /\ At(w, "insert")
        /\ \A v \in Workers : ~Waits(w, key, v)
        /\ IF WithKey(Visible(w), key) # {}
           THEN Give(w)
           ELSE Put(w, NextId, req[w].entity)

CommitImport(w) ==
    /\ At(w, "line") /\ req[w].lines = <<>>
    /\ req' = [req EXCEPT ![w] = NoRequest]
    /\ Commit(Visible(w))
    /\ UNCHANGED overlapped

(* The connection is lost, or the process dies.                            *)
Abandon(w) ==
    /\ ~Idle(w)
    /\ req' = [req EXCEPT ![w] = NoRequest]
    /\ seen' = [seen EXCEPT ![w] = {}]
    /\ UNCHANGED <<rows, overlapped>>

BlockedBy(w, v) ==
    \/ At(w, "insert") /\ Waits(w, req[w].entity.key, v)
    \/ /\ At(w, "write") /\ v \in Others(w)
       /\ req[w].saving \in DOMAIN req[v].written

InDeadlock(w) ==
    LET blocked == [p \in Workers \X Workers |-> BlockedBy(p[1], p[2])]
    IN  TransitiveClosure(blocked, Workers)[w, w]

BreakDeadlock(w) == InDeadlock(w) /\ Abandon(w)

Receive(w) ==
    /\ begun < MaxRequests /\ begun' = begun + 1
    /\ \/ \E row \in NewRows : OpenCreate(w, row)
       \/ \E i \in DOMAIN rows : \/ \E patch \in Patches : OpenUpdate(w, i, patch)
                                 \/ OpenDelete(w, i)
       \/ \E book \in Workbooks : OpenImport(w, book)
       \/ \E o \in Orders : OpenOrder(w, o)

Proceed(w) ==
    /\ UNCHANGED begun
    /\ \/ PriceOrder(w) \/ StoreOrder(w) \/ TakeLine(w) \/ Load(w) \/ Write(w)
       \/ Insert(w) \/ CommitImport(w) \/ Abandon(w) \/ BreakDeadlock(w)

SchemesNext == \E w \in Workers : Receive(w) \/ Proceed(w)

SchemesSpec == SchemesInit /\ [][SchemesNext]_vars

----------------------------------------------------------------------------
(* Properties.                                                             *)

(* The tables keep the shape of their columns.                             *)
SchemesTypeOK ==
    /\ IsRows(rows) /\ overlapped \subseteq Ids /\ begun \in 0..MaxRequests
    /\ \A w \in Workers :
         /\ \A t \in seen[w] : IsRows(t)
         /\ ~Idle(w) => /\ IsRows(req[w].written)
                        /\ req[w].saving \in Ids => req[w].entity \in Row

(* The rules that are to apply: no rule ahead that applies belongs to a    *)
(* scheme that does not stack.                                             *)
Due(o, S, R) ==
    {a \in InForce(S, R) : /\ Earned(o, R[a])
                           /\ ~\E b \in InForce(S, R) :
                                /\ Earned(o, R[b]) /\ Ahead(S, R, b, a)
                                /\ ~S[SchemeOf(R[b], S)].stack}

Worth(o, rule) == Base(o) * (Basis(o, rule) * Positive(rule.percent)
                               + 100 * Positive(rule.off))

(* Whatever schemes and rules there are, the discounts of an order's lines *)
(* add up to what the rules that are to apply are worth, unless the order  *)
(* is worth nothing.                                                       *)
DiscountsAddUp ==
    \A o \in Orders :
        LET S == SchemesIn(rows)  R == RulesIn(rows)  res == Apply(o, S, R)
        IN  Total(o) > 0 =>
              MapThenSumSet(LAMBDA n : res.discount[n], DOMAIN o)
                = MapThenSumSet(LAMBDA a : Worth(o, R[a]), Due(o, S, R))

(* A rule that no two requests worked on at once has a threshold and a     *)
(* reward, whichever of its columns they changed one after the other.      *)
UncontendedRulesReward ==
    \A i \in DOMAIN rows \ overlapped : IsRule(rows[i]) => Worthwhile(rows[i])

(* An order during whose pricing at most one row changes is priced as if   *)
(* all had been read at one moment, though schemes and rules are read      *)
(* apart.                                                                  *)
PricedAtOneMoment ==
    [][\A w \in Workers : PriceOrder(w) /\ seen[w] # {} =>
           \E t \in seen[w] :
              Priced(w) = Apply(req[w].order, SchemesIn(t), RulesIn(t))]_vars

(* "apply schemes" (createDraft): the discount stored with an order's      *)
(* lines is the one its schemes earn it.                                   *)
DiscountIsStored ==
    [][\A w \in Workers :
         PriceOrder(w) => req'[w].discount = Priced(w).discount]_vars
=============================================================================
