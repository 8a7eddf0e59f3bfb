------------------------------- MODULE Prices -------------------------------
(***************************************************************************)
(* Price lists: the effective-dated items of one SKU in each list, how a   *)
(* list's items are replaced, amended and imported, and which item sets    *)
(* the price on a date for a buyer.  The last is computed twice: for       *)
(* orders from rows read through finders, whose condition deleted_at: null *)
(* TypeORM drops, and for the list of visible SKUs by one SQL query.       *)
(*                                                                         *)
(* An item's prices make no difference to any of this: an item stands for  *)
(* its prices, and a request brings new ones, so that every save writes.   *)
(* Lists and scopes are PriceLists'.                                       *)
(***************************************************************************)
EXTENDS Integers, Sequences, FiniteSets, Functions, Relation

CONSTANTS
    Workers,    \* requests in flight, each with a database connection
    Lists,      \* price list ids
    LastDay,    \* bound: the days are 1..LastDay
    MaxItems,   \* bound: rows of md_price_list_item
    Payloads,   \* the items a request to set a list's items may bring
    Imports     \* the item rows a workbook may bring for a list

None == 0                   \* NULL, unless it is an effective_to
Forever == LastDay + 1      \* effective_to NULL
Keep == 0                   \* effective_to not in the request
Days == 1..LastDay

Ids == 1..MaxItems
Item == [list : Lists, from : {None} \cup Days, to : Days \cup {Forever},
         live : BOOLEAN]

(* active stands for the status and, in a list, for its dates.             *)
PriceList == [default : BOOLEAN, active : BOOLEAN, live : BOOLEAN]
Scope == [list : Lists, dist : Nat, org : Nat, type : Nat, active : BOOLEAN,
          from : {None} \cup Days, to : Days \cup {Forever}]

(* Mutant: ranges that share their first or last day do not overlap.       *)
StrictlyOverlap(a, b) == a.from < b.to /\ b.from < a.to

(* rangesOverlap: inclusive, and NULL is open-ended.                       *)
Overlap(a, b) == a.from <= b.to /\ b.from <= a.to

(* What a line not naming its effective_to is checked as.                  *)
Open(line) == [line EXCEPT !.to = IF @ = Keep THEN Forever ELSE @]

(* Lines that overlap each other are refused.                              *)
ASSUME PricesAssumption ==
    /\ LastDay \in Nat /\ MaxItems \in Nat
    /\ Lists \subseteq Nat \ {None}
    /\ Payloads \subseteq Seq([from : Days, to : {Keep, Forever} \cup Days])
    /\ \A s \in Payloads : \A i, j \in DOMAIN s :
         i # j => ~Overlap(Open(s[i]), Open(s[j]))
    /\ Imports \subseteq Seq([from : {None} \cup Days, to : {Forever} \cup Days])

VARIABLES
    items,      \* committed md_price_list_item rows, by id
    req,        \* the request each worker handles
    overlapped  \* history: lists two requests worked on at once

vars == <<items, req, overlapped>>

INSTANCE SavedEntity

NoRows == [i \in {} |-> 0]
IsRows(f) == DOMAIN f \subseteq Ids /\ f \in [DOMAIN f -> Item]

----------------------------------------------------------------------------
(* The price on a day, from tables t: lists, scopes and items, by id.      *)

InForce(row, day) == row.from <= day /\ day <= row.to

(* Mutant: a point for each condition.                                     *)
ScoreByCount(s, c) ==
    Cardinality({f \in {"dist", "org", "type"} : s[f] # None /\ s[f] = c[f]})

(* scoreScope: the conditions of a scope that the buyer meets.             *)
Score(s, c) ==
    (IF s.dist # None /\ s.dist = c.dist THEN 100 ELSE 0)
      + (IF s.org # None /\ s.org = c.org THEN 50 ELSE 0)
      + (IF s.type # None /\ s.type = c.type THEN 10 ELSE 0)

Matches(s, c) == \A f \in {"dist", "org", "type"} : s[f] \in {None, c[f]}

ScopesOn(t, l, day) ==
    {s \in Range(t.scopes) : s.list = l /\ s.active /\ InForce(s, day)}

(* A candidate: an item with its list, through a scope or none.            *)
Candidate(t, i, score, from) ==
    [item |-> i, score |-> score, scopeFrom |-> from,
     from |-> t.items[i].from, list |-> t.items[i].list]

(* By score, the scope's and the item's first day, and the list's id.      *)
Ahead(a, b) ==
    LET key(x) == <<x.score, x.scopeFrom, x.from, x.list>>
    IN  \E k \in 1..4 : /\ key(a)[k] > key(b)[k]
                        /\ \A j \in 1..k-1 : key(a)[j] = key(b)[j]

Best(C) == {c.item : c \in {a \in C : ~\E b \in C : Ahead(b, a)}}

(* Rows come ORDER BY effective_from DESC, id DESC, which in PostgreSQL    *)
(* has NULL first; the first one in force is the list's.                   *)
ListItem(t, l, day) ==
    LET rows == {i \in DOMAIN t.items : t.items[i].list = l /\ InForce(t.items[i], day)}
        rank(i) == IF t.items[i].from = None THEN Forever ELSE t.items[i].from
    IN  {i \in rows : \A j \in rows : \/ rank(i) > rank(j)
                                      \/ rank(i) = rank(j) /\ i >= j}

(* resolveBestPrice: default lists count without scopes.  Deleted lists    *)
(* and items are among the rows.                                           *)
Charged(t, day, c) ==
    LET offer(l) == IF t.lists[l].default THEN {[score |-> 0, from |-> None]}
                    ELSE {[score |-> Score(s, c), from |-> s.from] :
                            s \in {x \in ScopesOn(t, l, day) : Matches(x, c)}}
    IN  Best(UNION {{Candidate(t, i, o.score, o.from) :
                       i \in ListItem(t, l, day), o \in offer(l)} :
                    l \in {k \in DOMAIN t.lists : t.lists[k].active}})

ShownScore(s, c) ==
    LET points == [dist |-> 100, org |-> 50, type |-> 10]
    IN  SumFunctionOnSet(points, {f \in DOMAIN points : s[f] # None /\ s[f] = c[f]})

(* The SQL of listVisibleSkusWithBestPrice: items LEFT JOIN scopes, and    *)
(* any scope, or none, for a default list.                                 *)
Shown(t, day, c) ==
    LET joined(l) == ScopesOn(t, l, day)
        offer(l) ==
            IF t.lists[l].default /\ joined(l) = {} THEN {[score |-> 0, from |-> None]}
            ELSE {[score |-> ShownScore(s, c), from |-> s.from] :
                    s \in {x \in joined(l) : t.lists[l].default \/ Matches(x, c)}}
    IN  Best(UNION {{Candidate(t, i, o.score, o.from) : o \in offer(t.items[i].list)} :
                    i \in {j \in DOMAIN t.items :
                             /\ t.items[j].live /\ InForce(t.items[j], day)
                             /\ t.items[j].list \in DOMAIN t.lists
                             /\ t.lists[t.items[j].list].live
                             /\ t.lists[t.items[j].list].active}})

----------------------------------------------------------------------------
(* A request in progress.  lines: those left.  found: rows it read, as     *)
(* entities.  clear: the rows its first UPDATE selected.  saving: the row  *)
(* it saves.  diff: the columns it sets.  written: the rows the            *)
(* transaction updated or inserted.                                        *)
NoRequest == [op |-> "none"]

Request(op, l, at, lines) ==
    [op |-> op, list |-> l, at |-> at, lines |-> lines, asked |-> lines,
     found |-> NoRows, clear |-> {}, saving |-> None, diff |-> {},
     written |-> NoRows]

Idle(w) == req[w].op = "none"
At(w, step) == ~Idle(w) /\ req[w].at = step
End(w) == req' = [req EXCEPT ![w] = NoRequest]
Others(w) == {v \in Workers \ {w} : ~Idle(v)}

Merged(f, g) == [i \in DOMAIN f \cup DOMAIN g |->
                   IF i \in DOMAIN g THEN g[i] ELSE f[i]]
Visible(w) == Merged(items, req[w].written)
Inserted(v) == DOMAIN req[v].written \ DOMAIN items

Free(w, i) == \A v \in Others(w) : i \notin DOMAIN req[v].written

(* The rows of the request's list.                                         *)
OfList(w) == {i \in DOMAIN Visible(w) : Visible(w)[i].list = req[w].list}

Keys(l, lines) == {<<l, lines[n].from>> : n \in DOMAIN lines}

(* Bound: a request starts only when the table has room for its rows.      *)
RoomFor(l, lines) ==
    Cardinality({<<items[i].list, items[i].from>> : i \in DOMAIN items}
      \cup Keys(l, lines)
      \cup UNION {Keys(req[v].list, req[v].asked) : v \in {u \in Workers : ~Idle(u)}})
    <= MaxItems

Begin(w, request) ==
    /\ Idle(w) /\ RoomFor(request.list, request.lines)
    /\ req' = [req EXCEPT ![w] = request]
    /\ overlapped' = IF \E v \in Others(w) : req[v].list = request.list
                     THEN overlapped \cup {request.list} ELSE overlapped
    /\ UNCHANGED items

(* upsertPriceListItems, in either mode, and bulkImportPriceList.          *)
BeginReplace(w, l, s) == Begin(w, Request("replace", l, "select", s))
BeginUpsert(w, l, s) == Begin(w, Request("upsert", l, "find", s))
BeginImport(w, l, s) == Begin(w, Request("import", l, "scan", s))

(* replace: one UPDATE of the live rows.  It selects them, waits for those *)
(* that are locked, and passes over what is no longer live.                *)
SelectLive(w) ==
    /\ At(w, "select")
    /\ req' = [req EXCEPT ![w].clear = {i \in OfList(w) : Visible(w)[i].live},
                          ![w].at = "clear"]
    /\ UNCHANGED <<items, overlapped>>

Clear(w) ==
    LET still == {i \in req[w].clear : items[i].live}
    IN  /\ At(w, "clear")
        /\ \A i \in req[w].clear : Free(w, i)
        /\ req' = [req EXCEPT
             ![w].written = [i \in still |-> [items[i] EXCEPT !.live = FALSE]],
             ![w].at = "find"]
        /\ UNCHANGED <<items, overlapped>>

(* All rows of the list and SKU, deleted ones too.                         *)
FindAll(w) ==
    /\ At(w, "find")
    /\ req' = [req EXCEPT
         ![w].found = [i \in OfList(w) |-> Visible(w)[i]],
         ![w].at = IF req[w].op = "upsert" THEN "check" ELSE "line"]
    /\ UNCHANGED <<items, overlapped>>

(* A row in the way of a line: it overlaps, and does not begin with it.    *)
InTheWay(w, line) ==
    \E i \in OfList(w) : /\ Visible(w)[i].from # line.from
                        /\ Overlap(Visible(w)[i], Open(line))

CheckRows(w) ==
    /\ At(w, "check")
    /\ IF \E n \in DOMAIN req[w].lines : InTheWay(w, req[w].lines[n])
       THEN End(w)
       ELSE req' = [req EXCEPT ![w].at = "line"]
    /\ UNCHANGED <<items, overlapped>>

Save(w, i, entity) ==
    req' = [req EXCEPT ![w].at = "load", ![w].saving = i,
                       ![w].found = Merged(@, [j \in {i} |-> entity])]

(* Mutant: an amended row stays deleted.                                   *)
AmendedOnly(entity, line) ==
    [entity EXCEPT !.to = IF line.to = Keep THEN @ ELSE line.to]

(* The row a line amends: revived, its end changed if the line has one.    *)
Amended(entity, line) ==
    [entity EXCEPT !.live = TRUE,
                   !.to = IF line.to = Keep THEN @ ELSE line.to]

TakeLine(w) ==
    LET line == Head(req[w].lines)
        same == {i \in DOMAIN req[w].found : req[w].found[i].from = line.from}
    IN  /\ At(w, "line") /\ req[w].lines # <<>>
        /\ \/ same = {} /\ req' = [req EXCEPT ![w].at = "insert"]
           \/ \E i \in same : Save(w, i, Amended(req[w].found[i], line))
        /\ UNCHANGED <<items, overlapped>>

(* import, row by row: the overlap check, then findOne by effective_from,  *)
(* which as a NULL is no condition either; an amended row is not revived.  *)
Scan(w) ==
    /\ At(w, "scan") /\ req[w].lines # <<>>
    /\ IF InTheWay(w, Head(req[w].lines))
       THEN End(w)
       ELSE req' = [req EXCEPT ![w].at = "pick"]
    /\ UNCHANGED <<items, overlapped>>

Pick(w) ==
    LET line == Head(req[w].lines)
        found == {i \in OfList(w) : line.from \in {None, Visible(w)[i].from}}
    IN  /\ At(w, "pick")
        /\ \/ found = {} /\ req' = [req EXCEPT ![w].at = "insert"]
           \/ \E i \in found : Save(w, i, [Visible(w)[i] EXCEPT !.to = line.to])
        /\ UNCHANGED <<items, overlapped>>

NextLine(w) ==
    [req[w] EXCEPT !.lines = Tail(@), !.saving = None, !.diff = {},
                   !.at = IF req[w].op = "import" THEN "scan" ELSE "line"]

(* save(row): SELECT and UPDATE.                                           *)
Load(w) ==
    LET i == req[w].saving
    IN  /\ At(w, "load")
        /\ req' = [req EXCEPT ![w].diff = Differing(req[w].found[i], Visible(w)[i]),
                              ![w].at = "write"]
        /\ UNCHANGED <<items, overlapped>>

Write(w) ==
    LET i == req[w].saving
        row == Overlay(Visible(w)[i], req[w].found[i], req[w].diff)
    IN  /\ At(w, "write") /\ Free(w, i)
        /\ req' = [req EXCEPT ![w] = [NextLine(w) EXCEPT
                     !.written = Merged(@, [j \in {i} |-> row])]]
        /\ UNCHANGED <<items, overlapped>>

(* The unique index (price_list_id, sku_id, effective_from): a row of      *)
(* another transaction not committed makes the INSERT wait, a committed    *)
(* one makes it fail, and the request with it.  NULLs are never the same.  *)
SameKey(w, row) ==
    /\ row.list = req[w].list
    /\ row.from # None /\ row.from = Head(req[w].lines).from

InsertWaits(w, v) ==
    At(w, "insert") /\ \E i \in Inserted(v) : SameKey(w, req[v].written[i])

UnusedIds ==
    Ids \ (DOMAIN items \cup UNION {Inserted(v) : v \in {u \in Workers : ~Idle(u)}})
NextId == CHOOSE i \in UnusedIds : \A j \in UnusedIds : i <= j

Insert(w) ==
    LET line == Head(req[w].lines)
        row == [list |-> req[w].list, from |-> line.from, to |-> Open(line).to,
                live |-> TRUE]
    IN  /\ At(w, "insert") /\ UnusedIds # {}     \* bound: MaxItems
        /\ \A v \in Others(w) : ~InsertWaits(w, v)
        /\ IF \E i \in DOMAIN Visible(w) : SameKey(w, Visible(w)[i])
           THEN End(w)
           ELSE req' = [req EXCEPT ![w] = [NextLine(w) EXCEPT
                          !.written = Merged(@, [i \in {NextId} |-> row])]]
        /\ UNCHANGED <<items, overlapped>>

Commit(w) ==
    /\ At(w, "line") \/ At(w, "scan")
    /\ req[w].lines = <<>>
    /\ items' = Visible(w)
    /\ End(w)
    /\ UNCHANGED overlapped

(* The connection is lost, or the process dies.                            *)
Abandon(w) ==
    /\ ~Idle(w)
    /\ End(w)
    /\ UNCHANGED <<items, overlapped>>

BlockedBy(w, v) ==
    /\ v \in Others(w)
    /\ \/ InsertWaits(w, v)
       \/ At(w, "write") /\ req[w].saving \in DOMAIN req[v].written
       \/ At(w, "clear") /\ req[w].clear \cap DOMAIN req[v].written # {}

InDeadlock(w) ==
    LET blocked == [p \in Workers \X Workers |-> BlockedBy(p[1], p[2])]
    IN  TransitiveClosure(blocked, Workers)[w, w]

BreakDeadlock(w) == InDeadlock(w) /\ Abandon(w)

Receive(w) ==
    \E l \in Lists :
        \/ \E s \in Payloads : BeginReplace(w, l, s) \/ BeginUpsert(w, l, s)
        \/ \E s \in Imports : BeginImport(w, l, s)

Proceed(w) ==
    \/ SelectLive(w) \/ Clear(w) \/ FindAll(w) \/ CheckRows(w) \/ TakeLine(w)
    \/ Scan(w) \/ Pick(w) \/ Load(w) \/ Write(w) \/ Insert(w) \/ Commit(w)

PricesNext ==
    \E w \in Workers : Receive(w) \/ Proceed(w) \/ Abandon(w) \/ BreakDeadlock(w)

----------------------------------------------------------------------------
(* Properties.                                                             *)

(* The tables keep the shape of their columns.                             *)
PricesTypeOK ==
    /\ IsRows(items)
    /\ overlapped \subseteq Lists
    /\ \A w \in Workers : ~Idle(w) =>
         /\ req[w].list \in Lists
         /\ IsRows(req[w].found) /\ IsRows(req[w].written)
         /\ req[w].diff \subseteq {"to", "live"}

LiveOf(l) == {i \in DOMAIN items : items[i].list = l /\ items[i].live}

(* As long as no two requests work on a list at once, no two live items of *)
(* it are in force on one day, through replacements, revived rows, kept    *)
(* ends and imports.                                                       *)
OnePricePerDay ==
    \A l \in Lists \ overlapped, day \in Days :
        Cardinality({i \in LiveOf(l) : InForce(items[i], day)}) <= 1

(* A list replaced, with no other request at work on it, has the items of  *)
(* the request and no others.                                              *)
ReplacedListIsPayload ==
    [][\A w \in Workers, l \in Lists \ overlapped :
         /\ At(w, "line") /\ req[w].op = "replace" /\ req[w].list = l
         /\ Commit(w)
         => LET asked == req[w].asked
            IN  /\ {items'[i].from : i \in LiveOf(l)'}
                     = {asked[n].from : n \in DOMAIN asked}
                /\ \A i \in LiveOf(l)' : \E n \in DOMAIN asked :
                     /\ items'[i].from = asked[n].from
                     /\ asked[n].to \in {Keep, items'[i].to}]_vars
=============================================================================
