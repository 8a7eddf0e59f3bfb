----------------------------- MODULE PriceLists -----------------------------
(***************************************************************************)
(* The price lists of a company and their scopes: created, edited, deleted *)
(* and imported, while orders resolve prices from them.  A list's number   *)
(* stands for its code.  A resolution reads lists, scopes and items by     *)
(* three statements outside any transaction.                               *)
(*                                                                         *)
(* Prices has the items.  A behaviour is about the items of given lists or *)
(* about the lists and scopes of given items: a workbook with both imports *)
(* first its lists, then its items, then its scopes.                       *)
(***************************************************************************)
EXTENDS Prices

CONSTANTS
    Contexts,       \* buyers: distributor, org node and outlet type
    Workbooks,      \* rows a workbook brings, of lists, then of scopes
    NewScopes,      \* scopes a request to create one brings
    Starts,         \* what a behaviour is about, and the tables it finds
    MaxScopes,      \* bound: rows of md_price_list_scope
    MaxRequests     \* bound: requests about lists, and orders

ASSUME ListsAssumption ==
    /\ MaxScopes \in Nat /\ MaxRequests \in Nat /\ NewScopes \subseteq Scope
    /\ \A book \in Workbooks : \A n \in DOMAIN book :
         \/ /\ book[n].table = "lists" /\ book[n].list \in Lists
            /\ book[n].row \in PriceList
         \/ book[n].table = "scopes" /\ book[n].row \in Scope

VARIABLES
    terms,      \* committed rows of md_price_list and md_price_list_scope
    deal,       \* the request about them that each worker handles
    begun,      \* how many there have been
    about,      \* "items" or "lists"
    contended   \* history: two requests were at work on lists at once

termVars == <<terms, deal, begun, about, contended>>

NoDeal == [op |-> "none"]

(* Changes of lists.  id: the row of the table to save, entity: the row as *)
(* in memory, diff: the columns its UPDATE sets.  rows: those of the       *)
(* workbook left to import, asked: all of them.  written: rows the         *)
(* transaction has written and locked.                                     *)
NoTerms == [lists |-> NoRows, scopes |-> NoRows]
Saving(id, entity) ==
    [op |-> "save", at |-> "load", table |-> "lists", id |-> id, entity |-> entity,
     diff |-> {}, rows |-> <<>>, asked |-> <<>>, written |-> NoTerms]
Importing(book) ==
    [op |-> "import", at |-> "find", table |-> "lists", id |-> None, entity |-> None,
     diff |-> {}, rows |-> book, asked |-> book, written |-> NoTerms]

(* An order's resolution.  read: the tables it has read.  seen: the tables *)
(* there were at its first read, changes: rows changed since.              *)
Resolving == [op |-> "price", at |-> "scopes", read |-> terms, seen |-> terms,
              changes |-> 0]

Busy(w) == deal[w].op # "none"
Rivals(w) == {v \in Workers \ {w} : deal[v].op \in {"save", "import"}}
InDeal(w, op, at) == deal[w].op = op /\ deal[w].at = at

Known(w, table) == Merged(terms[table], deal[w].written[table])
Pending(v, table) == DOMAIN deal[v].written[table] \ DOMAIN terms[table]
Unlocked(w, table, id) == \A v \in Rivals(w) : id \notin DOMAIN deal[v].written[table]

ListsInit ==
    /\ \E start \in Starts :
         /\ terms = [lists |-> start.lists, scopes |-> start.scopes]
         /\ items = start.items
         /\ about = start.about
    /\ req = [w \in Workers |-> NoRequest]
    /\ overlapped = {}
    /\ deal = [w \in Workers |-> NoDeal]
    /\ begun = 0
    /\ contended = FALSE

Take(w, request) ==
    /\ ~Busy(w) /\ about = "lists" /\ begun < MaxRequests
    /\ begun' = begun + 1
    /\ deal' = [deal EXCEPT ![w] = request]
    /\ contended' = (contended \/ (request.op # "price" /\ Rivals(w) # {}))
    /\ UNCHANGED <<terms, about>>

Go(w, request) ==
    /\ deal' = [deal EXCEPT ![w] = request]
    /\ UNCHANGED <<terms, begun, about, contended>>

(* What w has written shows; orders in progress may have read before it.   *)
Publish(w, tables, changed) ==
    /\ terms' = tables
    /\ deal' = [v \in Workers |->
                  IF v = w THEN NoDeal
                  ELSE IF deal[v].op = "price"
                  THEN [deal[v] EXCEPT !.changes = @ + changed]
                  ELSE deal[v]]
    /\ UNCHANGED <<about>>

(* The unique indexes; rows with a NULL in the key are never the same.     *)
Collides(table, row, other) ==
    table = "lists"
    \/ \A f \in {"list", "dist", "org", "type", "from"} :
         row[f] # None /\ row[f] = other[f]

ScopeIds == 1..MaxScopes
UnusedScopes == ScopeIds \ (DOMAIN terms.scopes \cup
    UNION {DOMAIN deal[v].written.scopes :
             v \in {u \in Workers : deal[u].op \in {"save", "import"}}})

----------------------------------------------------------------------------
(* One list, or one scope.                                                 *)

(* createPriceList: one INSERT; the code's unique index refuses a second,  *)
(* and makes one wait for an import that has inserted it.                  *)
CreatePriceList(w, l, default) ==
    /\ ~Busy(w) /\ about = "lists" /\ begun < MaxRequests
    /\ l \notin DOMAIN terms.lists /\ Unlocked(w, "lists", l)
    /\ begun' = begun + 1
    /\ contended' = (contended \/ Rivals(w) # {})
    /\ LET row == [default |-> default, active |-> TRUE, live |-> TRUE]
       IN  Publish(w, [terms EXCEPT !.lists = Merged(@, [k \in {l} |-> row])], 1)

(* createPriceListScope: one INSERT for a list that is there, deleted ones *)
(* too; the unique index refuses its key, and makes it wait, alike.        *)
CreatePriceListScope(w, row) ==
    /\ ~Busy(w) /\ about = "lists" /\ begun < MaxRequests
    /\ row.list \in DOMAIN terms.lists
    /\ \A i \in DOMAIN terms.scopes : ~Collides("scopes", row, terms.scopes[i])
    /\ \A v \in Rivals(w) : \A i \in Pending(v, "scopes") :
         ~Collides("scopes", row, deal[v].written.scopes[i])
    /\ UnusedScopes # {}       \* bound: MaxScopes
    /\ begun' = begun + 1
    /\ contended' = (contended \/ Rivals(w) # {})
    /\ LET id == CHOOSE i \in UnusedScopes : \A j \in UnusedScopes : i <= j
       IN  Publish(w, [terms EXCEPT !.scopes = Merged(@, [k \in {id} |-> row])], 1)

(* Both find deleted lists, too, and save their copy.                      *)
UpdatePriceList(w, l, patch) ==
    /\ l \in DOMAIN terms.lists
    /\ Take(w, Saving(l, Overlay(terms.lists[l], patch, DOMAIN patch)))

SoftDeletePriceList(w, l) ==
    /\ l \in DOMAIN terms.lists
    /\ Take(w, Saving(l, [terms.lists[l] EXCEPT !.live = FALSE]))

(* save(row): SELECT and UPDATE; in an import, part of its transaction.    *)
LoadTerm(w) ==
    LET d == deal[w]
    IN  /\ Busy(w) /\ d.at = "load"
        /\ Go(w, [d EXCEPT !.diff = Differing(d.entity, Known(w, d.table)[d.id]),
                           !.at = "write"])

Written(w, row) ==
    [deal[w] EXCEPT !.written[deal[w].table] = Merged(@, [i \in {deal[w].id} |-> row])]

WriteTerm(w) ==
    LET d == deal[w]
        row == Overlay(Known(w, d.table)[d.id], d.entity, d.diff)
    IN  /\ Busy(w) /\ d.at = "write" /\ Unlocked(w, d.table, d.id)
        /\ IF d.op = "save"
           THEN /\ Publish(w, [terms EXCEPT !.lists[d.id] = row], 1)
                /\ UNCHANGED <<begun, contended>>
           ELSE Go(w, [Written(w, row) EXCEPT !.rows = Tail(@), !.at = "find"])

----------------------------------------------------------------------------
(* bulkImportPriceList, its lists and scopes: row by row, in one           *)
(* transaction.                                                            *)

(* Mutant: the day is no part of the key.                                  *)
SameScopeAnyDay(row, asked) ==
    row.list = asked.list
    /\ \A f \in {"dist", "org", "type"} : asked[f] \in {None, row[f]}

(* findOne by the columns of the unique index; one that is NULL in the     *)
(* workbook is no condition.                                               *)
SameScope(row, asked) ==
    /\ row.list = asked.list
    /\ \A f \in {"dist", "org", "type", "from"} : asked[f] \in {None, row[f]}

(* The row a line amends: a list stays deleted, a scope keeps its key.     *)
AmendedTerm(table, row, asked) ==
    IF table = "lists" THEN [asked EXCEPT !.live = row.live]
    ELSE [row EXCEPT !.active = asked.active, !.to = asked.to]

FindTerm(w) ==
    LET d == deal[w]
        line == Head(d.rows)
        known == Known(w, line.table)
        found == IF line.table = "lists" THEN {line.list} \cap DOMAIN known
                 ELSE {i \in DOMAIN known : SameScope(known[i], line.row)}
    IN  /\ InDeal(w, "import", "find") /\ d.rows # <<>>
        /\ IF line.table = "scopes" /\ line.row.list \notin DOMAIN Known(w, "lists")
           THEN Go(w, NoDeal)
           ELSE \/ /\ found = {}
                   /\ Go(w, [d EXCEPT !.at = "insert", !.table = line.table])
                \/ \E i \in found :
                     Go(w, [d EXCEPT !.at = "load", !.table = line.table, !.id = i,
                              !.entity = AmendedTerm(line.table, known[i], line.row)])

InsertTerm(w) ==
    LET d == deal[w]
        line == Head(d.rows)
        id == IF d.table = "lists" THEN line.list
              ELSE CHOOSE i \in UnusedScopes : \A j \in UnusedScopes : i <= j
        same(rows, i) == (d.table = "lists" => i = id) /\ Collides(d.table, line.row, rows[i])
    IN  /\ InDeal(w, "import", "insert")
        /\ d.table = "lists" \/ UnusedScopes # {}       \* bound: MaxScopes
        /\ \A v \in Rivals(w) : \A i \in Pending(v, d.table) : ~same(deal[v].written[d.table], i)
        /\ IF \E i \in DOMAIN Known(w, d.table) : same(Known(w, d.table), i)
           THEN Go(w, NoDeal)
           ELSE Go(w, [d EXCEPT !.written[d.table] = Merged(@, [i \in {id} |-> line.row]),
                                !.rows = Tail(@), !.at = "find"])

ImportPriceList(w, book) == Take(w, Importing(book))

CommitImport(w) ==
    /\ InDeal(w, "import", "find") /\ deal[w].rows = <<>>
    /\ Publish(w, [lists |-> Known(w, "lists"), scopes |-> Known(w, "scopes")],
               Len(deal[w].asked))
    /\ UNCHANGED <<begun, contended>>

(* The connection is lost, the process dies, or a deadlock is broken.      *)
AbandonTerm(w) == Busy(w) /\ Go(w, NoDeal)

----------------------------------------------------------------------------
(* resolveBestPrice.                                                       *)

(* The first read.                                                         *)
ReadLists(w) == Take(w, Resolving)

(* Mutant: the finder takes one row only.                                  *)
ReadOneScope(w) ==
    LET first == {i \in DOMAIN terms.scopes : \A j \in DOMAIN terms.scopes : i <= j}
    IN  /\ InDeal(w, "price", "scopes")
        /\ Go(w, [deal[w] EXCEPT !.read.scopes = Restrict(terms.scopes, first),
                                 !.at = "items"])

ReadScopes(w) ==
    /\ InDeal(w, "price", "scopes")
    /\ Go(w, [deal[w] EXCEPT !.read.scopes = terms.scopes, !.at = "items"])

ReadItems(w) == InDeal(w, "price", "items") /\ Go(w, NoDeal)

----------------------------------------------------------------------------
OpenOnLists(w) ==
    \/ \E l \in Lists :
         \/ \E default \in BOOLEAN : CreatePriceList(w, l, default)
         \/ \E b \in BOOLEAN :
              UpdatePriceList(w, l, [default |-> b]) \/ UpdatePriceList(w, l, [active |-> b])
         \/ SoftDeletePriceList(w, l)
    \/ \E row \in NewScopes : CreatePriceListScope(w, row)
    \/ \E book \in Workbooks : ImportPriceList(w, book)
    \/ ReadLists(w)

ProceedOnLists(w) ==
    \/ LoadTerm(w) \/ WriteTerm(w)
    \/ FindTerm(w) \/ InsertTerm(w) \/ CommitImport(w)
    \/ ReadScopes(w) \/ ReadItems(w)
    \/ AbandonTerm(w)

ListsNext ==
    \/ \E w \in Workers : (OpenOnLists(w) \/ ProceedOnLists(w)) /\ UNCHANGED vars
    \/ about = "items" /\ PricesNext /\ UNCHANGED termVars

ListsSpec == ListsInit /\ [][ListsNext]_<<vars, termVars>>

----------------------------------------------------------------------------
(* Properties.                                                             *)

(* The tables keep the shape of their columns.                             *)
ListsTypeOK ==
    /\ DOMAIN terms.lists \subseteq Lists
    /\ terms.lists \in [DOMAIN terms.lists -> PriceList]
    /\ DOMAIN terms.scopes \subseteq ScopeIds
    /\ terms.scopes \in [DOMAIN terms.scopes -> Scope]

Now == [lists |-> terms.lists, scopes |-> terms.scopes, items |-> items]
With(tables) == [lists |-> tables.lists, scopes |-> tables.scopes, items |-> items]

(* Nothing that is soft-deleted, and no default list with a scope: there   *)
(* the two computations are known to differ.                               *)
Plain(t) ==
    /\ \A i \in DOMAIN t.items : t.items[i].live
    /\ \A l \in DOMAIN t.lists : t.lists[l].live
    /\ \A s \in Range(t.scopes) : s.active => ~t.lists[s.list].default

(* The price an order is charged is the price that the list of visible     *)
(* SKUs shows, on every day and for every buyer: as of now, and, for an    *)
(* order that has read its tables one after the other while at most one    *)
(* row changed, as of its first read or now.  Items are left to            *)
(* themselves, and nothing is soft-deleted.                                *)
ShownIsCharged ==
    overlapped = {} /\ Plain(Now) =>
      \A day \in Days, c \in Contexts :
        /\ Charged(Now, day, c) = Shown(Now, day, c)
        /\ \A w \in Workers :
             LET d == deal[w]
             IN  InDeal(w, "price", "items") /\ d.changes <= 1 /\ Plain(With(d.seen)) =>
                   Charged(With(d.read), day, c) \in
                     {Shown(With(d.seen), day, c), Shown(Now, day, c)}

(* A workbook imported while no other request changes lists: the lists it  *)
(* names have its types; each of its scopes whose key has no NULL is there *)
(* with that key; and a scope it inserts or changes has the end and the    *)
(* status of a row that names nothing else than the scope has.  (A row     *)
(* with a NULL in its key may amend a narrower scope.)                     *)
ImportedScopesStand ==
    [][\A w \in Workers : CommitImport(w) /\ ~contended =>
         LET asked == Range(deal[w].asked)
             lists == {r \in asked : r.table = "lists"}
             scopes == {r.row : r \in asked \ lists}
             new == terms'.scopes
         IN  /\ \A r \in lists : terms'.lists[r.list].default = r.row.default
             /\ \A s \in scopes : (\A f \in {"dist", "org", "type", "from"} : s[f] # None)
                  => \E i \in DOMAIN new : Collides("scopes", s, new[i])
             /\ \A i \in DOMAIN new :
                  i \notin DOMAIN terms.scopes \/ new[i] # terms.scopes[i] =>
                    \E s \in scopes :
                      /\ \A f \in DOMAIN s :
                           \/ new[i][f] = s[f]
                           \/ f \in {"dist", "org", "type", "from"} /\ s[f] = None
      ]_<<vars, termVars>>

(* What a request to set items, lists or scopes has committed is what it   *)
(* was asked for.                                                          *)
StoredAsAsked == ReplacedListIsPayload /\ ImportedScopesStand
=============================================================================
