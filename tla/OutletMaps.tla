----------------------------- MODULE OutletMaps -----------------------------
(***************************************************************************)
(* The effective-dated mappings of outlets to org nodes, and in a table of *)
(* the same form to distributors.  To map an outlet from a day on, a       *)
(* transaction selects a row of the outlet that covers that day, ends it   *)
(* the day before, and inserts the new row; a bulk request does so line by *)
(* line, and goes on when a line violates the unique index.                *)
(*                                                                         *)
(* What an outlet is mapped to makes no difference to any of this: a row   *)
(* stands for its target.                                                  *)
(***************************************************************************)
EXTENDS Integers, Sequences, FiniteSetsExt, Relation

CONSTANTS
    Workers,    \* requests in flight, each with a database connection
    Outlets,
    LastDay,    \* bound: the days are 1..LastDay
    Lists,      \* the line lists a bulk request may bring
    MaxRows     \* bound: the greatest id of a row

Days == 1..LastDay
Forever == LastDay + 1      \* effective_to NULL
Line == [outlet : Outlets, from : Days, to : 0..Forever]

(* No list has two lines for an outlet and a day (the DTO check `seen`).   *)
ASSUME ListsAssumption ==
    /\ Lists \subseteq Seq(Line)
    /\ \A s \in Lists : s # <<>> /\ \A i, j \in DOMAIN s :
         s[i].outlet = s[j].outlet /\ s[i].from = s[j].from => i = j
    /\ LastDay \in Nat /\ MaxRows \in Nat

VARIABLES
    maps,       \* committed rows, by id
    req,        \* the request each worker handles
    overlapped  \* history: outlets two requests worked on at once

vars == <<maps, req, overlapped>>

INSTANCE SavedEntity

Ids == Nat \ {0}
Row == [outlet : Outlets, from : Days, to : 0..Forever, active : BOOLEAN]
NoRows == [m \in {} |-> 0]

IsRows(f) == DOMAIN f \subseteq Ids /\ f \in [DOMAIN f -> Row]

(* A request in progress.  lines: those left; Head is the line in work.    *)
(* found: the row it closes, as the entity in memory.  diff: the columns   *)
(* its UPDATE will set.  written: the rows the transaction updated or      *)
(* inserted.  aborted: a statement of the transaction failed.              *)
NoRequest == [at |-> "idle"]

Request(lines, bulk) ==
    [at |-> "find", lines |-> lines, bulk |-> bulk, found |-> NoRows,
     diff |-> {}, written |-> NoRows, aborted |-> FALSE]

Idle(w) == req[w].at = "idle"
End(w) == req' = [req EXCEPT ![w] = NoRequest]
Merged(f, g) == [m \in DOMAIN f \cup DOMAIN g |->
                   IF m \in DOMAIN g THEN g[m] ELSE f[m]]

(* The rows a statement of the transaction sees.                           *)
Visible(w) == Merged(maps, req[w].written)

(* Other transactions' updates lock the row; a row they insert makes a     *)
(* second insert with its key wait.                                        *)
Others(w) == {v \in Workers \ {w} : ~Idle(v)}
Inserted(v) == DOMAIN req[v].written \ DOMAIN maps
SameKey(row, line) == row.outlet = line.outlet /\ row.from = line.from

----------------------------------------------------------------------------
MapsInit ==
    /\ maps = NoRows
    /\ req = [w \in Workers |-> NoRequest]
    /\ overlapped = {}

OutletsOf(lines) == {lines[i].outlet : i \in DOMAIN lines}

(* What a request in progress works on: outlets of its lines, and of what  *)
(* it wrote.                                                               *)
WorksOn(v) ==
    OutletsOf(req[v].lines)
      \cup {req[v].written[m].outlet : m \in DOMAIN req[v].written}

(* Ids come from a sequence, whether or not their rows are committed, so   *)
(* that a later row has the greater one.  (The last is used again if its   *)
(* row is rolled back; nobody has seen it.)                                *)
UsedIds == DOMAIN maps \cup UNION {Inserted(v) : v \in {u \in Workers : ~Idle(u)}}
LastId == Max({0} \cup UsedIds)
NextId == LastId + 1

(* Bound: a request starts only when there are ids for its rows.           *)
RoomFor(lines) ==
    LastId + Len(lines)
      + FoldSet(LAMBDA v, sum : sum + Len(req[v].lines), 0, {v \in Workers : ~Idle(v)})
      <= MaxRows

Open(w, lines, bulk) ==
    /\ Idle(w) /\ RoomFor(lines)
    /\ bulk \/ Len(lines) = 1
    /\ req' = [req EXCEPT ![w] = Request(lines, bulk)]
    /\ overlapped' = overlapped \cup
         (OutletsOf(lines) \cap UNION {WorksOn(v) : v \in Others(w)})
    /\ UNCHANGED maps

Covers(row, outlet, day) == row.outlet = outlet /\ row.from <= day /\ day <= row.to

(* Mutant: open-ended rows only.                                           *)
OverlapsOpen(w) ==
    LET line == Head(req[w].lines)
    IN  {m \in DOMAIN Visible(w) :
           /\ Covers(Visible(w)[m], line.outlet, line.from)
           /\ Visible(w)[m].to = Forever}

(* The rows that cover effective_from.                                     *)
Overlaps(w) ==
    LET line == Head(req[w].lines)
    IN  {m \in DOMAIN Visible(w) : Covers(Visible(w)[m], line.outlet, line.from)}

(* Mutant: the same day.                                                   *)
SameDay(day) == day

(* Mutant: two days before.                                                *)
PrevDayTwice(day) == IF day > 2 THEN day - 2 ELSE 0

PrevDay(day) == day - 1

(* getOne: any one of them, whose entity is to end the day before.         *)
Find(w) ==
    /\ req[w].at = "find" /\ req[w].lines # <<>> /\ ~req[w].aborted
    /\ IF Overlaps(w) = {}
       THEN req' = [req EXCEPT ![w].at = "insert"]
       ELSE \E m \in Overlaps(w) :
              req' = [req EXCEPT ![w].at = "load",
                ![w].found = [i \in {m} |->
                   [Visible(w)[m] EXCEPT !.to = PrevDay(Head(req[w].lines).from),
                                         !.active = FALSE]]]
    /\ UNCHANGED <<maps, overlapped>>

(* In an aborted transaction every statement fails, and not as a unique    *)
(* violation: the request is answered with an error.                       *)
FindFails(w) ==
    /\ req[w].at = "find" /\ req[w].lines # <<>> /\ req[w].aborted
    /\ End(w)
    /\ UNCHANGED <<maps, overlapped>>

(* repo.save(overlap): SELECT, then UPDATE of what differs (updated_by     *)
(* perhaps, if nothing else).                                              *)
FoundId(w) == CHOOSE m \in DOMAIN req[w].found : TRUE

Load(w) ==
    LET differing == Differing(req[w].found[FoundId(w)], Visible(w)[FoundId(w)])
    IN  /\ req[w].at = "load"
        /\ \E step \in {"close", "insert"} :
             /\ differing # {} => step = "close"
             /\ req' = [req EXCEPT ![w].at = step, ![w].diff = differing]
        /\ UNCHANGED <<maps, overlapped>>

CloseWaits(w, v) ==
    req[w].at = "close" /\ FoundId(w) \in DOMAIN req[v].written

Close(w) ==
    LET m == FoundId(w)
        row == Overlay(Visible(w)[m], req[w].found[m], req[w].diff)
    IN  /\ req[w].at = "close"
        /\ \A v \in Others(w) : ~CloseWaits(w, v)
        /\ req' = [req EXCEPT ![w].at = "insert",
                              ![w].written = Merged(@, [i \in {m} |-> row])]
        /\ UNCHANGED <<maps, overlapped>>

(* The unique index (company_id, outlet_id, effective_from): a row of      *)
(* another transaction not committed yet makes the INSERT wait.            *)
InsertWaits(w, v) ==
    /\ req[w].at = "insert"
    /\ \E m \in Inserted(v) : SameKey(req[v].written[m], Head(req[w].lines))

Duplicate(w) ==
    \E m \in DOMAIN Visible(w) : SameKey(Visible(w)[m], Head(req[w].lines))

NextLine(w) ==
    [req[w] EXCEPT !.lines = Tail(@), !.at = "find", !.found = NoRows, !.diff = {}]

Insert(w) ==
    LET line == Head(req[w].lines)
        row == [outlet |-> line.outlet, from |-> line.from, to |-> line.to,
                active |-> TRUE]
    IN  /\ req[w].at = "insert"
        /\ \A v \in Others(w) : ~InsertWaits(w, v)
        /\ ~Duplicate(w)
        /\ req' = [req EXCEPT ![w] =
                     [NextLine(w) EXCEPT
                        !.written = Merged(@, [i \in {NextId} |-> row])]]
        /\ UNCHANGED <<maps, overlapped>>

(* Mutant: a bulk request skips the line in a transaction that goes on.    *)
InsertSkips(w) ==
    /\ req[w].at = "insert"
    /\ \A v \in Others(w) : ~InsertWaits(w, v)
    /\ Duplicate(w)
    /\ IF req[w].bulk
       THEN req' = [req EXCEPT ![w] = NextLine(w)]
       ELSE End(w)
    /\ UNCHANGED <<maps, overlapped>>

(* Mutant: it tries the line again.                                        *)
InsertRetries(w) ==
    /\ req[w].at = "insert"
    /\ \A v \in Others(w) : ~InsertWaits(w, v)
    /\ Duplicate(w)
    /\ IF req[w].bulk
       THEN req' = [req EXCEPT ![w].at = "find", ![w].found = NoRows]
       ELSE End(w)
    /\ UNCHANGED <<maps, overlapped>>

(* A duplicate: the request fails, or a bulk request notes it and goes on  *)
(* to the next line, in what is an aborted transaction.                    *)
InsertFails(w) ==
    /\ req[w].at = "insert"
    /\ \A v \in Others(w) : ~InsertWaits(w, v)
    /\ Duplicate(w)
    /\ IF req[w].bulk
       THEN req' = [req EXCEPT ![w] = [NextLine(w) EXCEPT !.aborted = TRUE]]
       ELSE End(w)
    /\ UNCHANGED <<maps, overlapped>>

(* COMMIT of an aborted transaction is a ROLLBACK, and no error: the       *)
(* results are returned in either case.                                    *)
Commit(w) ==
    /\ req[w].at = "find" /\ req[w].lines = <<>>
    /\ maps' = IF req[w].aborted THEN maps ELSE Visible(w)
    /\ End(w)
    /\ UNCHANGED overlapped

(* The connection is lost, or the process dies.                            *)
Abandon(w) ==
    /\ ~Idle(w)
    /\ End(w)
    /\ UNCHANGED <<maps, overlapped>>

BlockedBy(w, v) ==
    v \in Others(w) /\ (CloseWaits(w, v) \/ InsertWaits(w, v))

InDeadlock(w) ==
    LET blocked == [p \in Workers \X Workers |-> BlockedBy(p[1], p[2])]
    IN  TransitiveClosure(blocked, Workers)[w, w]

(* PostgreSQL aborts one of those that wait for each other.                *)
BreakDeadlock(w) == InDeadlock(w) /\ Abandon(w)

Proceed(w) ==
    \/ Find(w) \/ FindFails(w) \/ Load(w) \/ Close(w)
    \/ Insert(w) \/ InsertFails(w) \/ Commit(w)

MapsNext ==
    \E w \in Workers :
      \/ \E lines \in Lists, bulk \in BOOLEAN : Open(w, lines, bulk)
      \/ Proceed(w)
      \/ Abandon(w)
      \/ BreakDeadlock(w)

MapsSafety == MapsInit /\ [][MapsNext]_vars

(* As for StockLedger: row locks are granted in order, deadlocks detected. *)
MapsSpec ==
    /\ MapsSafety
    /\ \A w \in Workers : SF_vars(Proceed(w)) /\ WF_vars(BreakDeadlock(w))

----------------------------------------------------------------------------
(* The look-ups by the date of today: rows that cover it and are ACTIVE.   *)

CoveredBy(table, o, day) == {m \in DOMAIN table : Covers(table[m], o, day)}

(* The join of findOne.                                                    *)
Current(o, today) == {m \in CoveredBy(maps, o, today) : maps[m].active}

(* listMappedOrg: an entry for every row joined.                           *)
MappedOutlets(today) == UNION {{o} \X Current(o, today) : o \in Outlets}

(* list: outlets without a row are listed too.                             *)
ListedOutlets(today) ==
    MappedOutlets(today) \cup {<<o, "none">> : o \in {p \in Outlets : Current(p, today) = {}}}

(* loadOutletMeta of an order: LIMIT 1 of the same join, or NULL.          *)
TerritoryRows(o, today) == IF Current(o, today) = {} THEN {"none"} ELSE Current(o, today)

----------------------------------------------------------------------------
(* Properties.                                                             *)

(* The tables keep the shape of their columns.                             *)
MapsTypeOK ==
    /\ IsRows(maps)
    /\ overlapped \subseteq Outlets
    /\ \A w \in Workers \ {v \in Workers : Idle(v)} :
         /\ req[w].at \in {"find", "load", "close", "insert"}
         /\ req[w].lines \in Seq(Line)
         /\ IsRows(req[w].found) /\ IsRows(req[w].written)
         /\ req[w].diff \subseteq {"to", "active"}
         /\ {req[w].bulk, req[w].aborted} \subseteq BOOLEAN

(* An outlet's rows were entered in the order of their days.               *)
EnteredInOrder(o) ==
    \A m, n \in DOMAIN maps :
        maps[m].outlet = o /\ maps[n].outlet = o /\ m < n
          => maps[m].from < maps[n].from

(* One row of an outlet at most covers a day, closed rows included, if no  *)
(* two requests worked on the outlet at once and its rows were entered in  *)
(* the order of their days.                                                *)
OneRowPerDay ==
    \A o \in Outlets \ overlapped, day \in Days :
        EnteredInOrder(o) => Cardinality(CoveredBy(maps, o, day)) <= 1

(* A row is made inactive only with another stored that begins the day     *)
(* after it ends, whatever requests overlap, fail or run into duplicates.        *)
ClosedRowsReplaced ==
    \A m \in DOMAIN maps :
        ~maps[m].active =>
          \E n \in DOMAIN maps \ {m} : /\ maps[n].outlet = maps[m].outlet
                                       /\ PrevDay(maps[n].from) = maps[m].to

(* While no row of an outlet begins after today, the look-ups by today     *)
(* find every row that covers it, whatever requests overlap or fail (a row *)
(* from a later day makes the one before it inactive at once).  Unless two *)
(* requests overlapped or rows were entered out of order, the list has the *)
(* outlet once, and with it the row an order takes.                        *)
LookUpsFindTheRow ==
    \A o \in Outlets, today \in Days :
        /\ (\A m \in DOMAIN maps : maps[m].outlet = o => maps[m].from <= today)
             => {m \in DOMAIN maps : <<o, m>> \in MappedOutlets(today)}
                  = CoveredBy(maps, o, today)
        /\ o \notin overlapped /\ EnteredInOrder(o)
             => \E m \in TerritoryRows(o, today) :
                  {e \in ListedOutlets(today) : e[1] = o} = {<<o, m>>}

(* To map an outlet from a day on leaves the days before as they were, if  *)
(* no two requests work on the outlet at once.                             *)
PastIsKept ==
    [][\A o \in Outlets \ overlapped, day \in Days :
         CoveredBy(maps', o, day) # CoveredBy(maps, o, day) =>
           \E n \in DOMAIN maps' \ DOMAIN maps :
              maps'[n].outlet = o /\ maps'[n].from <= day]_vars

(* Every request ends, although bulk requests lock rows and keys in the    *)
(* order of their lines.                                                   *)
RequestsEnd == \A w \in Workers : ~Idle(w) ~> Idle(w)
=============================================================================
