-------------------------- MODULE OutletMapsProofs --------------------------
(***************************************************************************)
(* For any number of outlets, days, lists and requests: no row is closed   *)
(* without its successor, whatever overlaps, fails or runs into            *)
(* duplicates; and an outlet no two requests worked on at once has one row *)
(* per day and keeps its past.  Neither can be shown of committed rows     *)
(* alone, since a transaction makes its changes in between: the invariant  *)
(* speaks of the table as each transaction sees it, and of the entity it   *)
(* found and is about to save over a row that may have changed since.      *)
(***************************************************************************)
EXTENDS OutletMaps, FiniteSetTheorems, WellFoundedInduction, TLAPS

LEMMA LessWellFounded == IsWellFoundedOn({ss \in Nat \X Nat : ss[1] < ss[2]}, Nat)
  BY NatLessThanWellFounded DEF OpToRel

(* A set of naturals that is not empty has a least element.                *)
LEMMA LeastNatural ==
    ASSUME NEW T, T \subseteq Nat, T # {}
    PROVE  \E n \in T : \A m \in T : n <= m
  <1> DEFINE R == {ss \in Nat \X Nat : ss[1] < ss[2]}
  <1>1. PICK n \in T : \A m \in T : <<m, n>> \notin R
    <2>1. IsWellFoundedOn(R, Nat)
      BY LessWellFounded
    <2> HIDE DEF R
    <2> QED
      BY <2>1, WFMin
  <1>2. \A m \in T : ~(m < n)
    BY <1>1
  <1> QED
    BY <1>2

Tables == UNION {[S -> Row] : S \in SUBSET Ids}

Steps == {"find", "load", "close", "insert"}
RequestRecord ==
    [at : Steps, lines : Seq(Line), bulk : BOOLEAN, found : Tables,
     diff : SUBSET {"to", "active"}, written : Tables, aborted : BOOLEAN]

(* The table as a request sees it, and what its line makes of a row.       *)
View(table, r) == Merged(table, r.written)
Ended(row, line) ==
    [outlet |-> row.outlet, from |-> row.from, to |-> PrevDay(line.from), active |-> FALSE]

Succeeds(new, row) == new.outlet = row.outlet /\ PrevDay(new.from) = row.to
Replaced(table, m) == \E n \in DOMAIN table \ {m} : Succeeds(table[n], table[m])

(* The line in work is to be inserted, and will succeed the row.           *)
Awaited(r, row) == r.at = "insert" /\ Succeeds(Head(r.lines), row)

(* A row the transaction has written is the committed one, but for its     *)
(* end, or a new one.                                                      *)
WritesKnown(table, r) ==
    \A m \in DOMAIN r.written \cap DOMAIN table :
        /\ r.written[m].outlet = table[m].outlet
        /\ r.written[m].from = table[m].from
        /\ ~r.written[m].active

(* The entity it found, and the columns it will set.                       *)
FindsRow(table, r, m) ==
    LET row == View(table, r)[m]
    IN  /\ m \in DOMAIN View(table, r)
        /\ row.outlet = Head(r.lines).outlet
        /\ r.found = [i \in {m} |-> Ended(row, Head(r.lines))]
        /\ r.at = "load" => row.to # PrevDay(Head(r.lines).from) \/ ~row.active
        /\ r.at = "close" => {"to", "active"} \subseteq r.diff \/ ~row.active

FoundKnown(table, r) ==
    r.at \in {"load", "close"} => \E m \in Ids : FindsRow(table, r, m)

ClosesForLines(table, r) ==
    ~r.aborted =>
      \A m \in DOMAIN View(table, r) :
        ~View(table, r)[m].active =>
          Replaced(View(table, r), m) \/ Awaited(r, View(table, r)[m])

Grounded(table, r) ==
    /\ r.at # "find" => r.lines # <<>> /\ ~r.aborted
    /\ WritesKnown(table, r)
    /\ FoundKnown(table, r)
    /\ ClosesForLines(table, r)

MapsShape ==
    /\ maps \in Tables
    /\ overlapped \subseteq Outlets
    /\ req \in [Workers -> RequestRecord \cup {NoRequest}]

InsertsApart ==
    \A w, v \in Workers :
        w # v /\ ~Idle(w) /\ ~Idle(v) => Inserted(w) \cap Inserted(v) = {}

IdsBounded == \E b \in Nat : \A m \in UsedIds : m <= b

MapsInvariant ==
    /\ MapsShape
    /\ \A w \in Workers : ~Idle(w) => Grounded(maps, req[w])
    /\ InsertsApart /\ IdsBounded
    /\ ClosedRowsReplaced

----------------------------------------------------------------------------
(* Tables and records.                                                     *)

LEMMA TableTypes ==
    ASSUME NEW t \in Tables
    PROVE  /\ DOMAIN t \subseteq Ids /\ t \in [DOMAIN t -> Row]
           /\ \A m \in DOMAIN t :
                /\ m \in Nat /\ t[m] \in Row
                /\ t[m] = [outlet |-> t[m].outlet, from |-> t[m].from,
                           to |-> t[m].to, active |-> t[m].active]
                /\ t[m].outlet \in Outlets /\ t[m].from \in Int /\ t[m].to \in Int
                /\ t[m].from \in Days /\ t[m].active \in BOOLEAN
  <1>1. PICK S \in SUBSET Ids : t \in [S -> Row]
    BY DEF Tables
  <1>2. LastDay \in Nat
    BY ListsAssumption
  <1>3. \A x \in Row : /\ x = [outlet |-> x.outlet, from |-> x.from,
                               to |-> x.to, active |-> x.active]
                       /\ x.outlet \in Outlets /\ x.from \in Int /\ x.to \in Int
                       /\ x.from \in Days /\ x.active \in BOOLEAN
    BY <1>2 DEF Row, Days, Forever
  <1> HIDE DEF Row
  <1> QED
    BY <1>1, <1>3 DEF Ids

LEMMA IsTable ==
    ASSUME NEW S \in SUBSET Ids, NEW t \in [S -> Row]
    PROVE  t \in Tables
  BY DEF Tables

LEMMA MergedIs ==
    ASSUME NEW f \in Tables, NEW g \in Tables
    PROVE  /\ Merged(f, g) \in Tables
           /\ DOMAIN Merged(f, g) = DOMAIN f \cup DOMAIN g
           /\ \A m \in DOMAIN g : Merged(f, g)[m] = g[m]
           /\ \A m \in DOMAIN f \ DOMAIN g : Merged(f, g)[m] = f[m]
  <1>1. DOMAIN f \cup DOMAIN g \in SUBSET Ids
    BY TableTypes
  <1>2. Merged(f, g) \in [DOMAIN f \cup DOMAIN g -> Row]
    BY TableTypes DEF Merged
  <1>3. Merged(f, g) \in Tables
    BY <1>1, <1>2, IsTable
  <1> QED
    BY <1>3 DEF Merged

LEMMA OneRowTable ==
    ASSUME NEW m \in Ids, NEW row \in Row
    PROVE  /\ [i \in {m} |-> row] \in Tables
           /\ DOMAIN [i \in {m} |-> row] = {m}
           /\ [i \in {m} |-> row][m] = row
  <1>1. {m} \in SUBSET Ids /\ [i \in {m} |-> row] \in [{m} -> Row]
    OBVIOUS
  <1> QED
    BY <1>1, IsTable

LEMMA NoRowsIsTable == NoRows \in Tables /\ DOMAIN NoRows = {}
  <1>1. {} \in SUBSET Ids /\ NoRows \in [{} -> Row]
    BY DEF NoRows
  <1> QED
    BY <1>1, IsTable

Put(t, m, row) == Merged(t, [i \in {m} |-> row])

(* u is t with one row put in.                                             *)
IsPut(t, u, m, row) ==
    /\ DOMAIN u = DOMAIN t \cup {m}
    /\ u[m] = row
    /\ \A k \in DOMAIN t \ {m} : u[k] = t[k]

LEMMA PutIs ==
    ASSUME NEW t \in Tables, NEW m \in Ids, NEW row \in Row
    PROVE  Put(t, m, row) \in Tables /\ IsPut(t, Put(t, m, row), m, row)
  <1>1. PICK new : new = [i \in {m} |-> row]
    OBVIOUS
  <1>2. new \in Tables /\ DOMAIN new = {m} /\ new[m] = row
    BY <1>1, OneRowTable
  <1>3. Put(t, m, row) = Merged(t, new)
    BY <1>1 DEF Put
  <1>4. PICK u : u = Merged(t, new)
    OBVIOUS
  <1>5. u \in Tables /\ DOMAIN u = DOMAIN t \cup DOMAIN new
    BY <1>2, <1>4, MergedIs
  <1>6. \A k \in DOMAIN new : u[k] = new[k]
    BY <1>2, <1>4, MergedIs
  <1>7. \A k \in DOMAIN t \ DOMAIN new : u[k] = t[k]
    BY <1>2, <1>4, MergedIs
  <1>8. Put(t, m, row) = u
    BY <1>3, <1>4
  <1> HIDE DEF Put
  <1> QED
    BY <1>2, <1>5, <1>6, <1>7, <1>8 DEF IsPut

LEMMA EndedIsRow ==
    ASSUME NEW row \in Row, NEW line \in Line
    PROVE  /\ Ended(row, line) \in Row
           /\ Ended(row, line) = [row EXCEPT !.to = PrevDay(line.from), !.active = FALSE]
  <1>1. LastDay \in Nat
    BY ListsAssumption
  <1>2. PrevDay(line.from) \in 0..Forever
    BY <1>1 DEF Line, Days, Forever, PrevDay
  <1>3. Ended(row, line) \in Row
    BY <1>2 DEF Ended, Row
  <1>4. PICK no : no = FALSE
    OBVIOUS
  <1>5. [row EXCEPT !.to = PrevDay(line.from), !.active = FALSE]
          = [row EXCEPT !.to = PrevDay(line.from), !.active = no]
    BY <1>4
  <1>6. [row EXCEPT !.to = PrevDay(line.from), !.active = no]
          = [outlet |-> row.outlet, from |-> row.from, to |-> PrevDay(line.from), active |-> no]
    <2>1. PICK day : day = PrevDay(line.from)
      OBVIOUS
    <2>2. PICK q : q = [row EXCEPT !.to = day]
      OBVIOUS
    <2>3. q = [outlet |-> row.outlet, from |-> row.from, to |-> day, active |-> row.active]
      BY ONLY <2>2, row \in Row DEF Row
    <2>4. PICK p : p = [q EXCEPT !.active = no]
      OBVIOUS
    <2>5. p = [outlet |-> row.outlet, from |-> row.from, to |-> day, active |-> no]
      BY ONLY <2>3, <2>4
    <2>6. [row EXCEPT !.to = day, !.active = no] = p
      BY <2>2, <2>4
    <2> QED
      BY <2>1, <2>5, <2>6
  <1> QED
    BY <1>3, <1>4, <1>5, <1>6 DEF Ended

LEMMA LineTypes ==
    ASSUME NEW s \in Seq(Line), s # <<>>
    PROVE  /\ Head(s) \in Line /\ Tail(s) \in Seq(Line)
           /\ Head(s).outlet \in Outlets /\ Head(s).from \in Int /\ Head(s).to \in Int
           /\ Head(s).from \in Days /\ PrevDay(Head(s).from) \in Int
           /\ PrevDay(Head(s).from) < Head(s).from
  <1>1. LastDay \in Nat
    BY ListsAssumption
  <1>2. Head(s) \in Line /\ Tail(s) \in Seq(Line)
    OBVIOUS
  <1> QED
    BY <1>1, <1>2 DEF Line, Days, Forever, PrevDay

----------------------------------------------------------------------------
(* What each step makes of the request.                                    *)

(* No other request is touched.                                            *)
OnlyChanges(w) == req' = [v \in Workers |-> IF v = w THEN req'[w] ELSE req[v]]

LEMMA RequestIs ==
    ASSUME MapsShape, NEW w \in Workers
    PROVE  /\ req[w] \in RequestRecord \cup {NoRequest}
           /\ Idle(w) <=> req[w] = NoRequest
           /\ ~Idle(w) => req[w] \in RequestRecord
           /\ req[w] \in RequestRecord => ~Idle(w)
  BY DEF MapsShape, Idle, NoRequest, RequestRecord, Steps

LEMMA ViewIs ==
    ASSUME MapsShape, NEW w \in Workers, ~Idle(w)
    PROVE  /\ req[w] \in RequestRecord /\ maps \in Tables /\ req[w].written \in Tables
           /\ Visible(w) = View(maps, req[w]) /\ Visible(w) \in Tables
           /\ DOMAIN Visible(w) = DOMAIN maps \cup DOMAIN req[w].written
  <1>1. /\ req[w] \in RequestRecord /\ maps \in Tables /\ req[w].written \in Tables
    BY RequestIs DEF MapsShape, RequestRecord
  <1> QED
    BY <1>1, MergedIs DEF Visible, View

TakesFound(w, s) ==
    \E m \in Overlaps(w) :
        s.found = [i \in {m} |-> Ended(Visible(w)[m], Head(req[w].lines))]

LEMMA FindIs ==
    ASSUME MapsShape, NEW w \in Workers, NEW s, s = req'[w], Find(w)
    PROVE  LET r == req[w]
           IN  /\ r \in RequestRecord /\ s \in RequestRecord
               /\ r.at = "find" /\ r.lines # <<>> /\ ~r.aborted
               /\ s.lines = r.lines /\ s.bulk = r.bulk /\ s.diff = r.diff
               /\ s.written = r.written /\ ~s.aborted
               /\ \/ s.at = "insert" /\ Overlaps(w) = {}
                  \/ s.at = "load" /\ TakesFound(w, s)
               /\ OnlyChanges(w)
               /\ maps' = maps /\ overlapped' = overlapped
  <1> DEFINE r == req[w]
  <1>1. ~Idle(w) /\ r.at = "find" /\ r.lines # <<>> /\ ~r.aborted
        /\ maps' = maps /\ overlapped' = overlapped
    BY DEF Find, Idle
  <1>2. r \in RequestRecord /\ req \in [Workers -> RequestRecord \cup {NoRequest}]
    BY <1>1, RequestIs DEF MapsShape
  <1>3. CASE Overlaps(w) = {}
    <2>1. req' = [req EXCEPT ![w].at = "insert"]
      BY <1>3 DEF Find
    <2>2. s = [r EXCEPT !.at = "insert"] /\ OnlyChanges(w)
      BY <2>1, <1>2 DEF OnlyChanges
    <2> QED
      BY <2>2, <1>1, <1>2, <1>3 DEF RequestRecord, Steps
  <1>4. CASE Overlaps(w) # {}
    <2>1. PICK m \in Overlaps(w) :
            req' = [req EXCEPT ![w].at = "load",
                ![w].found = [i \in {m} |->
                   [Visible(w)[m] EXCEPT !.to = PrevDay(Head(req[w].lines).from),
                                         !.active = FALSE]]]
      BY <1>4 DEF Find
    <2>2. /\ m \in Ids /\ Visible(w)[m] \in Row /\ Head(r.lines) \in Line
      <3>1. r.lines \in Seq(Line)
        BY <1>2 DEF RequestRecord
      <3> QED
        BY <3>1, <1>1, ViewIs, TableTypes, LineTypes DEF Overlaps
    <2>3. PICK new : new = [i \in {m} |-> Ended(Visible(w)[m], Head(r.lines))]
      OBVIOUS
    <2>4. new = [i \in {m} |-> [Visible(w)[m] EXCEPT
                     !.to = PrevDay(Head(req[w].lines).from), !.active = FALSE]]
      BY <2>2, <2>3, EndedIsRow
    <2>5. new \in Tables
      BY <2>2, <2>3, EndedIsRow, OneRowTable
    <2>6. req' = [req EXCEPT ![w].at = "load", ![w].found = new]
      BY <2>1, <2>4
    <2>7. /\ s = [r EXCEPT !.at = "load", !.found = new]
          /\ OnlyChanges(w)
      BY ONLY <2>6, <1>2, s = req'[w], w \in Workers DEF OnlyChanges
    <2>8. /\ s \in RequestRecord /\ s.at = "load" /\ s.found = new /\ s.lines = r.lines
          /\ s.bulk = r.bulk /\ s.diff = r.diff /\ s.written = r.written
          /\ s.aborted = r.aborted
      BY ONLY <2>7, <2>5, <1>2 DEF RequestRecord, Steps
    <2>9. TakesFound(w, s)
      BY <2>3, <2>8 DEF TakesFound
    <2> QED
      BY <2>7, <2>8, <2>9, <1>1, <1>2
  <1> QED
    BY <1>3, <1>4

LEMMA LoadIs ==
    ASSUME MapsShape, NEW w \in Workers, NEW s, s = req'[w], Load(w),
           NEW m \in Ids, FindsRow(maps, req[w], m)
    PROVE  LET r == req[w]
               row == Visible(w)[m]
           IN  /\ r \in RequestRecord /\ s \in RequestRecord /\ r.at = "load"
               /\ s.lines = r.lines /\ s.bulk = r.bulk /\ s.found = r.found
               /\ s.written = r.written /\ s.aborted = r.aborted
               /\ s.diff = Differing(Ended(row, Head(r.lines)), row)
               /\ s.at = "close" \/ (s.at = "insert" /\ s.diff = {})
               /\ OnlyChanges(w)
               /\ maps' = maps /\ overlapped' = overlapped
  <1> DEFINE r == req[w]
             row == Visible(w)[m]
             differing == Differing(Ended(row, Head(r.lines)), row)
  <1>1. ~Idle(w) /\ r.at = "load" /\ maps' = maps /\ overlapped' = overlapped
    BY DEF Load, Idle
  <1>2. r \in RequestRecord /\ req \in [Workers -> RequestRecord \cup {NoRequest}]
    BY <1>1, RequestIs DEF MapsShape
  <1>3. r.found = [i \in {m} |-> Ended(row, Head(r.lines))]
    BY <1>1, ViewIs DEF FindsRow
  <1>4. FoundId(w) = m /\ r.found[FoundId(w)] = Ended(row, Head(r.lines))
    BY <1>3 DEF FoundId
  <1>5. PICK step \in {"close", "insert"} :
          /\ differing # {} => step = "close"
          /\ req' = [req EXCEPT ![w].at = step, ![w].diff = differing]
    BY <1>4 DEF Load
  <1>6. differing \subseteq {"to", "active"}
    <2>1. row \in Row
      BY <1>1, ViewIs, TableTypes DEF FindsRow
    <2>2. DOMAIN row = {"outlet", "from", "to", "active"}
      BY <2>1 DEF Row
    <2> QED
      BY <2>2 DEF Differing, Ended
  <1>7. PICK d : d = differing
    OBVIOUS
  <1>8. req' = [req EXCEPT ![w].at = step, ![w].diff = d]
    BY <1>5, <1>7
  <1>9. /\ s = [r EXCEPT !.at = step, !.diff = d]
        /\ OnlyChanges(w)
    BY ONLY <1>8, <1>2, s = req'[w], w \in Workers DEF OnlyChanges
  <1>10. d \subseteq {"to", "active"} /\ step \in Steps
    BY <1>5, <1>6, <1>7 DEF Steps
  <1>11. /\ s \in RequestRecord /\ s.at = step /\ s.found = r.found /\ s.lines = r.lines
         /\ s.bulk = r.bulk /\ s.diff = d /\ s.written = r.written
         /\ s.aborted = r.aborted
    BY ONLY <1>9, <1>10, <1>2 DEF RequestRecord
  <1> HIDE DEF differing
  <1> QED
    BY <1>1, <1>2, <1>5, <1>7, <1>9, <1>11 DEF differing

(* The row the UPDATE writes.                                              *)
Closed(row, line, columns) ==
    [outlet |-> row.outlet, from |-> row.from,
     to |-> IF "to" \in columns THEN PrevDay(line.from) ELSE row.to,
     active |-> IF "active" \in columns THEN FALSE ELSE row.active]

LEMMA OverlayIs ==
    ASSUME NEW row \in Row, NEW line, NEW columns
    PROVE  Overlay(row, Ended(row, line), columns) = Closed(row, line, columns)
  <1>1. DOMAIN row = {"outlet", "from", "to", "active"}
    BY DEF Row
  <1>2. DOMAIN Overlay(row, Ended(row, line), columns) = DOMAIN Closed(row, line, columns)
    BY <1>1 DEF Overlay, Closed
  <1>3. PICK e : e = Ended(row, line)
    OBVIOUS
  <1>4. e["outlet"] = row.outlet /\ e["from"] = row.from /\ e["to"] = PrevDay(line.from)
    BY <1>3 DEF Ended
  <1>5. PICK no : no = FALSE
    OBVIOUS
  <1>6. Ended(row, line) = [outlet |-> row.outlet, from |-> row.from,
                            to |-> PrevDay(line.from), active |-> no]
    BY <1>5 DEF Ended
  <1>7. e["active"] = no
    BY <1>3, <1>6
  <1>8. Closed(row, line, columns) =
          [outlet |-> row.outlet, from |-> row.from,
           to |-> IF "to" \in columns THEN PrevDay(line.from) ELSE row.to,
           active |-> IF "active" \in columns THEN no ELSE row.active]
    BY <1>5 DEF Closed
  <1>9. Overlay(row, e, columns) =
          [c \in DOMAIN row |-> IF c \in columns THEN e[c] ELSE row[c]]
    BY DEF Overlay
  <1>10. \A c \in DOMAIN row : Overlay(row, e, columns)[c] = Closed(row, line, columns)[c]
    BY <1>1, <1>4, <1>7, <1>8, <1>9
  <1> QED
    BY <1>1, <1>2, <1>3, <1>8, <1>9, <1>10

LEMMA ClosedIsRow ==
    ASSUME NEW row \in Row, NEW line \in Line, NEW columns
    PROVE  Closed(row, line, columns) \in Row
  <1>1. Ended(row, line) \in Row
    BY EndedIsRow
  <1> QED
    BY <1>1 DEF Closed, Ended, Row

LEMMA CloseIs ==
    ASSUME MapsShape, NEW w \in Workers, NEW s, s = req'[w], Close(w),
           NEW m \in Ids, FindsRow(maps, req[w], m), req[w].lines # <<>>
    PROVE  LET r == req[w]
               row == Closed(Visible(w)[m], Head(r.lines), r.diff)
           IN  /\ r \in RequestRecord /\ s \in RequestRecord
               /\ r.at = "close" /\ s.at = "insert"
               /\ s.lines = r.lines /\ s.bulk = r.bulk /\ s.found = r.found
               /\ s.diff = r.diff /\ s.aborted = r.aborted
               /\ s.written = Put(r.written, m, row)
               /\ row \in Row
               /\ OnlyChanges(w)
               /\ maps' = maps /\ overlapped' = overlapped
  <1> DEFINE r == req[w]
             row == Closed(Visible(w)[m], Head(r.lines), r.diff)
  <1>1. ~Idle(w) /\ r.at = "close" /\ maps' = maps /\ overlapped' = overlapped
    BY DEF Close, Idle
  <1>2. r \in RequestRecord /\ req \in [Workers -> RequestRecord \cup {NoRequest}]
    BY <1>1, RequestIs DEF MapsShape
  <1>3. r.found = [i \in {m} |-> Ended(Visible(w)[m], Head(r.lines))]
    BY <1>1, ViewIs DEF FindsRow
  <1>4. FoundId(w) = m /\ r.found[FoundId(w)] = Ended(Visible(w)[m], Head(r.lines))
    BY <1>3 DEF FoundId
  <1>5. Visible(w)[m] \in Row /\ Head(r.lines) \in Line
    <2>1. r.lines \in Seq(Line)
      BY <1>2 DEF RequestRecord
    <2> QED
      BY <2>1, <1>1, ViewIs, TableTypes, LineTypes DEF FindsRow
  <1>6. row \in Row
    BY <1>5, ClosedIsRow
  <1>7. Overlay(Visible(w)[m], r.found[m], r.diff) = row
    BY <1>4, <1>5, OverlayIs
  <1>8. req' = [req EXCEPT ![w].at = "insert",
                      ![w].written = Merged(@, [i \in {m} |-> row])]
    BY <1>4, <1>7 DEF Close
  <1>9. PICK new : new = Put(r.written, m, row)
    OBVIOUS
  <1>10. req' = [req EXCEPT ![w].at = "insert", ![w].written = new]
    BY <1>8, <1>9, <1>2 DEF Put
  <1>11. new \in Tables
    BY <1>2, <1>6, <1>9, PutIs DEF RequestRecord
  <1>12. /\ s = [r EXCEPT !.at = "insert", !.written = new]
         /\ OnlyChanges(w)
    BY ONLY <1>10, <1>2, s = req'[w], w \in Workers DEF OnlyChanges
  <1>13. /\ s \in RequestRecord /\ s.at = "insert" /\ s.found = r.found /\ s.lines = r.lines
         /\ s.bulk = r.bulk /\ s.diff = r.diff /\ s.written = new
         /\ s.aborted = r.aborted
    BY ONLY <1>12, <1>11, <1>2 DEF RequestRecord, Steps
  <1> HIDE DEF row
  <1> QED
    BY <1>1, <1>2, <1>6, <1>9, <1>12, <1>13 DEF row

LEMMA NextLineIs ==
    ASSUME MapsShape, NEW w \in Workers, ~Idle(w), req[w].lines # <<>>
    PROVE  LET r == req[w]
               n == NextLine(w)
           IN  /\ n \in RequestRecord /\ n.at = "find" /\ n.lines = Tail(r.lines)
               /\ n.bulk = r.bulk /\ n.found = NoRows /\ n.diff = {}
               /\ n.written = r.written /\ n.aborted = r.aborted
  <1> DEFINE r == req[w]
  <1>1. r \in RequestRecord
    BY RequestIs
  <1>2. PICK rest : rest = Tail(r.lines)
    OBVIOUS
  <1>3. rest \in Seq(Line)
    BY <1>1, <1>2, LineTypes DEF RequestRecord
  <1>4. PICK none : none = NoRows
    OBVIOUS
  <1>5. none \in Tables
    BY <1>4, NoRowsIsTable
  <1>6. PICK a : a = [r EXCEPT !.lines = rest]
    OBVIOUS
  <1>7. PICK b : b = [a EXCEPT !.at = "find"]
    OBVIOUS
  <1>8. PICK c : c = [b EXCEPT !.found = none]
    OBVIOUS
  <1>9. PICK d : d = [c EXCEPT !.diff = {}]
    OBVIOUS
  <1>10. NextLine(w) = d
    BY <1>2, <1>4, <1>6, <1>7, <1>8, <1>9 DEF NextLine
  <1>11. a \in RequestRecord /\ a.lines = rest /\ a.at = r.at /\ a.bulk = r.bulk
         /\ a.found = r.found /\ a.diff = r.diff /\ a.written = r.written
         /\ a.aborted = r.aborted
    BY ONLY <1>1, <1>3, <1>6 DEF RequestRecord
  <1>12. b \in RequestRecord /\ b.lines = rest /\ b.at = "find" /\ b.bulk = r.bulk
         /\ b.found = r.found /\ b.diff = r.diff /\ b.written = r.written
         /\ b.aborted = r.aborted
    BY ONLY <1>7, <1>11 DEF RequestRecord, Steps
  <1>13. c \in RequestRecord /\ c.lines = rest /\ c.at = "find" /\ c.bulk = r.bulk
         /\ c.found = none /\ c.diff = r.diff /\ c.written = r.written
         /\ c.aborted = r.aborted
    BY ONLY <1>5, <1>8, <1>12 DEF RequestRecord
  <1>14. d \in RequestRecord /\ d.lines = rest /\ d.at = "find" /\ d.bulk = r.bulk
         /\ d.found = none /\ d.diff = {} /\ d.written = r.written
         /\ d.aborted = r.aborted
    BY ONLY <1>9, <1>13 DEF RequestRecord
  <1> QED
    BY <1>2, <1>4, <1>10, <1>14

NewRow(line) ==
    [outlet |-> line.outlet, from |-> line.from, to |-> line.to, active |-> TRUE]

LEMMA NewRowIs ==
    ASSUME NEW line \in Line
    PROVE  NewRow(line) \in Row /\ NewRow(line).active
  BY DEF NewRow, Row, Line

LEMMA NextIdIs ==
    ASSUME MapsShape, IdsBounded
    PROVE  NextId \in Ids /\ \A m \in UsedIds : m < NextId
  <1> DEFINE S == {0} \cup UsedIds
  <1>1. UsedIds \subseteq Nat
    <2>1. DOMAIN maps \subseteq Nat
      BY TableTypes DEF MapsShape
    <2>2. ASSUME NEW v \in Workers, ~Idle(v) PROVE Inserted(v) \subseteq Nat
      <3>1. req[v].written \in Tables
        BY <2>2, ViewIs
      <3>2. DOMAIN req[v].written \subseteq Nat
        BY <3>1, TableTypes DEF Ids
      <3> QED
        BY <3>2 DEF Inserted
    <2> QED
      BY <2>1, <2>2 DEF UsedIds
  <1>2. PICK b \in Nat : \A m \in UsedIds : m <= b
    BY DEF IdsBounded
  <1> DEFINE Above == {n \in Nat : \A m \in S : m <= n}
  <1>3. b \in Above
    BY <1>1, <1>2
  <1>4. PICK n \in Above : \A k \in Above : n <= k
    BY <1>3, LeastNatural
  <1>5. n \in S
    <2>1. SUFFICES ASSUME n \notin S PROVE FALSE
      OBVIOUS
    <2>2. n # 0 /\ n \in Nat /\ \A m \in S : m <= n /\ m # n /\ m \in Nat
      BY <1>1, <1>4, <2>1
    <2>3. n - 1 \in Nat /\ \A m \in S : m <= n - 1
      BY <2>2
    <2>4. n - 1 \in Above
      BY <2>3
    <2> QED
      BY <2>2, <2>4, <1>4
  <1>6. n \in S /\ \A y \in S : n >= y
    BY <1>1, <1>4, <1>5
  <1>7. LastId \in S /\ \A y \in S : LastId >= y
    <2>1. LastId = CHOOSE x \in S : \A y \in S : x >= y
      BY DEF LastId, Max
    <2> HIDE DEF S
    <2> QED
      BY <1>6, <2>1
  <1>8. LastId \in Nat
    BY <1>1, <1>7
  <1> QED
    BY <1>1, <1>7, <1>8 DEF NextId, Ids

LEMMA InsertIs ==
    ASSUME MapsShape, IdsBounded, NEW w \in Workers, NEW s, s = req'[w], Insert(w),
           req[w].lines # <<>>
    PROVE  LET r == req[w]
               row == NewRow(Head(r.lines))
           IN  /\ r \in RequestRecord /\ s \in RequestRecord
               /\ r.at = "insert" /\ s.at = "find"
               /\ s.lines = Tail(r.lines) /\ s.bulk = r.bulk /\ s.aborted = r.aborted
               /\ s.written = Put(r.written, NextId, row)
               /\ row \in Row /\ NextId \in Ids /\ NextId \notin UsedIds
               /\ OnlyChanges(w)
               /\ maps' = maps /\ overlapped' = overlapped
  <1> DEFINE r == req[w]
             row == NewRow(Head(r.lines))
             n == NextLine(w)
  <1>1. ~Idle(w) /\ r.at = "insert" /\ maps' = maps /\ overlapped' = overlapped
    BY DEF Insert, Idle
  <1>2. r \in RequestRecord /\ req \in [Workers -> RequestRecord \cup {NoRequest}]
    BY <1>1, RequestIs DEF MapsShape
  <1>3. row \in Row
    <2>1. r.lines \in Seq(Line)
      BY <1>2 DEF RequestRecord
    <2> QED
      BY <2>1, LineTypes, NewRowIs
  <1>4. NextId \in Ids /\ NextId \notin UsedIds
    <2>1. NextId \in Int
      BY NextIdIs DEF Ids
    <2>2. ~(NextId < NextId)
      BY <2>1
    <2> QED
      BY <2>2, NextIdIs
  <1>5. PICK new : new = Put(n.written, NextId, row)
    OBVIOUS
  <1>6. n \in RequestRecord /\ n.at = "find" /\ n.lines = Tail(r.lines)
        /\ n.bulk = r.bulk /\ n.written = r.written /\ n.aborted = r.aborted
    BY <1>1, NextLineIs
  <1>7. new \in Tables
    <2>1. n.written \in Tables
      BY <1>6 DEF RequestRecord
    <2> QED
      BY <1>3, <1>4, <1>5, <2>1, PutIs
  <1>8. req' = [req EXCEPT ![w] = [n EXCEPT !.written = new]]
    BY <1>5 DEF Insert, NewRow, Put
  <1>9. s = [n EXCEPT !.written = new] /\ OnlyChanges(w)
    BY ONLY <1>8, <1>2, s = req'[w], w \in Workers DEF OnlyChanges
  <1>10. s \in RequestRecord /\ s.at = n.at /\ s.lines = n.lines /\ s.bulk = n.bulk
         /\ s.written = new /\ s.aborted = n.aborted
    BY ONLY <1>6, <1>7, <1>9 DEF RequestRecord
  <1> HIDE DEF row, n
  <1>11. new = Put(r.written, NextId, row)
    BY <1>5, <1>6
  <1> QED
    BY <1>1, <1>2, <1>3, <1>4, <1>6, <1>9, <1>10, <1>11 DEF row

LEMMA InsertFailsIs ==
    ASSUME MapsShape, NEW w \in Workers, NEW s, s = req'[w], InsertFails(w),
           req[w].lines # <<>>
    PROVE  LET r == req[w]
           IN  /\ r \in RequestRecord /\ r.at = "insert"
               /\ \/ s = NoRequest
                  \/ /\ s \in RequestRecord /\ s.at = "find" /\ s.aborted
                     /\ s.lines = Tail(r.lines) /\ s.bulk = r.bulk
                     /\ s.written = r.written
               /\ OnlyChanges(w)
               /\ maps' = maps /\ overlapped' = overlapped
  <1> DEFINE r == req[w]
             n == NextLine(w)
  <1>1. ~Idle(w) /\ r.at = "insert" /\ maps' = maps /\ overlapped' = overlapped
    BY DEF InsertFails, Idle
  <1>2. r \in RequestRecord /\ req \in [Workers -> RequestRecord \cup {NoRequest}]
    BY <1>1, RequestIs DEF MapsShape
  <1>3. CASE ~r.bulk
    <2>1. req' = [req EXCEPT ![w] = NoRequest]
      BY <1>3 DEF InsertFails, End
    <2> QED
      BY <1>1, <1>2, <2>1 DEF OnlyChanges
  <1>4. CASE r.bulk
    <2>1. PICK yes : yes = TRUE
      OBVIOUS
    <2>2. n \in RequestRecord /\ n.at = "find" /\ n.lines = Tail(r.lines)
          /\ n.bulk = r.bulk /\ n.written = r.written
      BY <1>1, NextLineIs
    <2>3. req' = [req EXCEPT ![w] = [n EXCEPT !.aborted = TRUE]]
      BY <1>4 DEF InsertFails
    <2>4. req' = [req EXCEPT ![w] = [n EXCEPT !.aborted = yes]]
      BY <2>1, <2>3
    <2>5. s = [n EXCEPT !.aborted = yes] /\ OnlyChanges(w)
      BY ONLY <2>4, <1>2, s = req'[w], w \in Workers DEF OnlyChanges
    <2>6. yes \in BOOLEAN
      BY <2>1
    <2>7. s \in RequestRecord /\ s.at = n.at /\ s.lines = n.lines /\ s.bulk = n.bulk
          /\ s.written = n.written /\ s.aborted = yes
      BY ONLY <2>2, <2>5, <2>6 DEF RequestRecord
    <2> HIDE DEF n
    <2> QED
      BY <1>1, <1>2, <2>1, <2>2, <2>5, <2>7
  <1> QED
    BY <1>3, <1>4

LEMMA EndIs ==
    ASSUME MapsShape, NEW w \in Workers, End(w)
    PROVE  /\ req'[w] = NoRequest
           /\ OnlyChanges(w)
  <1>1. req' = [req EXCEPT ![w] = NoRequest] /\ req \in [Workers -> RequestRecord \cup {NoRequest}]
    BY DEF End, MapsShape
  <1> QED
    BY <1>1 DEF OnlyChanges

LEMMA OpenIs ==
    ASSUME MapsShape, NEW w \in Workers, NEW s, s = req'[w],
           NEW lines \in Lists, NEW bulk \in BOOLEAN, Open(w, lines, bulk)
    PROVE  /\ s \in RequestRecord /\ s.at = "find" /\ s.lines = lines
           /\ s.written = NoRows /\ ~s.aborted /\ Idle(w)
           /\ OnlyChanges(w)
           /\ maps' = maps
           /\ overlapped' = overlapped \cup
                (OutletsOf(lines) \cap UNION {WorksOn(v) : v \in Others(w)})
  <1>1. Request(lines, bulk) \in RequestRecord
    <2>1. lines \in Seq(Line) /\ NoRows \in Tables /\ FALSE \in BOOLEAN
          /\ {} \in SUBSET {"to", "active"} /\ "find" \in Steps
      BY ListsAssumption, NoRowsIsTable DEF Steps
    <2> HIDE DEF NoRows
    <2> QED
      BY <2>1 DEF Request, RequestRecord
  <1>2. /\ Request(lines, bulk).at = "find" /\ Request(lines, bulk).lines = lines
        /\ Request(lines, bulk).written = NoRows /\ ~Request(lines, bulk).aborted
    BY DEF Request
  <1>3. req' = [req EXCEPT ![w] = Request(lines, bulk)]
        /\ req \in [Workers -> RequestRecord \cup {NoRequest}]
    BY DEF Open, MapsShape
  <1>4. s = Request(lines, bulk) /\ OnlyChanges(w)
    BY <1>3 DEF OnlyChanges
  <1> QED
    BY <1>1, <1>2, <1>4 DEF Open

----------------------------------------------------------------------------
(* A request's own steps keep what is known of it.                         *)

LEMMA FindGrounds ==
    ASSUME MapsShape, NEW w \in Workers, NEW s, s = req'[w], Find(w),
           Grounded(maps, req[w])
    PROVE  Grounded(maps, s)
  <1> DEFINE r == req[w]
             line == Head(r.lines)
  <1>1. /\ r \in RequestRecord /\ s \in RequestRecord
        /\ r.at = "find" /\ r.lines # <<>> /\ ~r.aborted
        /\ s.lines = r.lines /\ s.written = r.written /\ ~s.aborted
        /\ \/ s.at = "insert" /\ Overlaps(w) = {}
           \/ s.at = "load" /\ TakesFound(w, s)
    BY FindIs
  <1>2. ~Idle(w) /\ Visible(w) = View(maps, r) /\ View(maps, s) = View(maps, r)
        /\ Visible(w) \in Tables
    BY <1>1, RequestIs, ViewIs DEF View
  <1>3. WritesKnown(maps, s)
    BY <1>1 DEF Grounded, WritesKnown
  <1>4. ClosesForLines(maps, s)
    BY <1>1, <1>2 DEF Grounded, ClosesForLines, Awaited
  <1>5. FoundKnown(maps, s)
    <2>1. SUFFICES ASSUME s.at = "load" PROVE \E m \in Ids : FindsRow(maps, s, m)
      BY <1>1 DEF FoundKnown
    <2>2. PICK m \in Overlaps(w) : s.found = [i \in {m} |-> Ended(Visible(w)[m], line)]
      BY <1>1, <2>1 DEF TakesFound
    <2>3. m \in DOMAIN Visible(w) /\ Covers(Visible(w)[m], line.outlet, line.from)
      BY <2>2 DEF Overlaps
    <2>4. m \in Ids /\ Visible(w)[m].to \in Int /\ Visible(w)[m].from \in Int
      BY <1>2, <2>3, TableTypes
    <2>5. line.from \in Int /\ PrevDay(line.from) < line.from /\ PrevDay(line.from) \in Int
      BY <1>1, LineTypes DEF RequestRecord
    <2>6. Visible(w)[m].outlet = line.outlet /\ Visible(w)[m].to # PrevDay(line.from)
      BY <2>3, <2>4, <2>5 DEF Covers
    <2> QED
      BY <1>1, <1>2, <2>1, <2>2, <2>3, <2>4, <2>6 DEF FindsRow
  <1> QED
    BY <1>1, <1>3, <1>4, <1>5 DEF Grounded

LEMMA LoadGrounds ==
    ASSUME MapsShape, NEW w \in Workers, NEW s, s = req'[w], Load(w),
           Grounded(maps, req[w])
    PROVE  Grounded(maps, s)
  <1> DEFINE r == req[w]
             line == Head(r.lines)
  <1>0. r.at = "load" /\ r.lines # <<>> /\ ~r.aborted /\ ~Idle(w)
    BY DEF Load, Grounded, Idle
  <1>1. PICK m \in Ids : FindsRow(maps, r, m)
    BY <1>0 DEF Grounded, FoundKnown
  <1> DEFINE row == Visible(w)[m]
  <1>2. /\ r \in RequestRecord /\ s \in RequestRecord
        /\ s.lines = r.lines /\ s.found = r.found
        /\ s.written = r.written /\ s.aborted = r.aborted
        /\ s.diff = Differing(Ended(row, line), row)
        /\ s.at = "close" \/ (s.at = "insert" /\ s.diff = {})
    BY <1>1, LoadIs
  <1>3. Visible(w) = View(maps, r) /\ View(maps, s) = View(maps, r)
        /\ Visible(w) \in Tables
    BY <1>0, <1>2, ViewIs DEF View
  <1>4. m \in DOMAIN Visible(w) /\ row.outlet = line.outlet
        /\ (row.to # PrevDay(line.from) \/ ~row.active)
        /\ r.found = [i \in {m} |-> Ended(row, line)]
    BY <1>0, <1>1, <1>3 DEF FindsRow
  <1>5. WritesKnown(maps, s)
    BY <1>2 DEF Grounded, WritesKnown
  <1>6. ClosesForLines(maps, s)
    BY <1>0, <1>2, <1>3 DEF Grounded, ClosesForLines, Awaited
  <1>7. {"to", "active"} \subseteq s.diff \/ ~row.active
    <2>1. SUFFICES ASSUME row.active PROVE {"to", "active"} \subseteq s.diff
      OBVIOUS
    <2>2. row \in Row
      BY <1>3, <1>4, TableTypes
    <2>3. DOMAIN row = {"outlet", "from", "to", "active"} /\ row["to"] # PrevDay(line.from)
          /\ row["active"]
      BY <1>4, <2>1, <2>2 DEF Row
    <2>4. Ended(row, line)["to"] = PrevDay(line.from) /\ ~Ended(row, line)["active"]
      BY DEF Ended
    <2>5. "to" \in s.diff
      BY <1>2, <2>3, <2>4 DEF Differing
    <2>6. Ended(row, line)["active"] # row["active"]
      BY <2>3, <2>4
    <2>7. "active" \in s.diff
      BY <1>2, <2>3, <2>6 DEF Differing
    <2> QED
      BY <2>5, <2>7
  <1>8. FoundKnown(maps, s)
    <2>1. SUFFICES ASSUME s.at = "close" PROVE FindsRow(maps, s, m)
      BY <1>2 DEF FoundKnown
    <2> HIDE DEF row
    <2> QED
      BY <1>2, <1>3, <1>4, <1>7, <2>1 DEF FindsRow, row
  <1> QED
    BY <1>0, <1>2, <1>5, <1>6, <1>8 DEF Grounded

(* No row is removed, nor given another outlet or first day.               *)
KeepsPlaces(t, u) ==
    /\ DOMAIN t \subseteq DOMAIN u
    /\ \A m \in DOMAIN t : u[m].outlet = t[m].outlet /\ u[m].from = t[m].from

LEMMA StaysReplaced ==
    ASSUME NEW t, NEW u, KeepsPlaces(t, u), NEW m \in DOMAIN t, Replaced(t, m),
           u[m].to = t[m].to
    PROVE  Replaced(u, m)
  BY DEF Replaced, Succeeds, KeepsPlaces

LEMMA ViewAfterWrite ==
    ASSUME NEW table \in Tables, NEW r, NEW s, r.written \in Tables,
           NEW m \in Ids, NEW row \in Row,
           s.written = Put(r.written, m, row)
    PROVE  /\ s.written \in Tables /\ View(table, s) \in Tables
           /\ IsPut(r.written, s.written, m, row)
           /\ IsPut(View(table, r), View(table, s), m, row)
  <1>1. PICK t : t = r.written
    OBVIOUS
  <1>2. PICK u : u = s.written
    OBVIOUS
  <1>3. t \in Tables /\ u \in Tables /\ IsPut(t, u, m, row)
    BY <1>1, <1>2, PutIs
  <1>4. View(table, r) = Merged(table, t) /\ View(table, s) = Merged(table, u)
    BY <1>1, <1>2 DEF View
  <1>5. Merged(table, u) \in Tables /\ DOMAIN Merged(table, u) = DOMAIN table \cup DOMAIN u
        /\ DOMAIN Merged(table, t) = DOMAIN table \cup DOMAIN t
    BY <1>3, MergedIs
  <1>6. \A k \in DOMAIN u : Merged(table, u)[k] = u[k]
    BY <1>3, MergedIs
  <1>7. \A k \in DOMAIN table \ DOMAIN u : Merged(table, u)[k] = table[k]
    BY <1>3, MergedIs
  <1>8. \A k \in DOMAIN t : Merged(table, t)[k] = t[k]
    BY <1>3, MergedIs
  <1>9. \A k \in DOMAIN table \ DOMAIN t : Merged(table, t)[k] = table[k]
    BY <1>3, MergedIs
  <1>10. IsPut(Merged(table, t), Merged(table, u), m, row)
    BY <1>3, <1>5, <1>6, <1>7, <1>8, <1>9 DEF IsPut
  <1> QED
    BY <1>1, <1>2, <1>3, <1>4, <1>5, <1>10

LEMMA CloseGrounds ==
    ASSUME MapsShape, NEW w \in Workers, NEW s, s = req'[w], Close(w),
           Grounded(maps, req[w])
    PROVE  Grounded(maps, s)
  <1> DEFINE r == req[w]
             line == Head(r.lines)
             old == View(maps, r)
             new == View(maps, s)
  <1>0. r.at = "close" /\ r.lines # <<>> /\ ~r.aborted /\ ~Idle(w)
    BY DEF Close, Grounded, Idle
  <1>1. PICK m \in Ids : FindsRow(maps, r, m)
    BY <1>0 DEF Grounded, FoundKnown
  <1>2. PICK row : row = Closed(Visible(w)[m], line, r.diff)
    OBVIOUS
  <1>3. /\ r \in RequestRecord /\ s \in RequestRecord /\ s.at = "insert"
        /\ s.lines = r.lines /\ s.aborted = r.aborted
        /\ s.written = Put(r.written, m, row)
        /\ row \in Row
    BY <1>0, <1>1, <1>2, CloseIs
  <1>4. Visible(w) = old /\ old \in Tables /\ r.written \in Tables /\ maps \in Tables
    BY <1>0, ViewIs
  <1>5. m \in DOMAIN old /\ old[m].outlet = line.outlet
        /\ ({"to", "active"} \subseteq r.diff \/ ~old[m].active)
    BY <1>0, <1>1 DEF FindsRow
  <1>6. /\ DOMAIN s.written = DOMAIN r.written \cup {m}
        /\ s.written[m] = row
        /\ \A k \in DOMAIN r.written \ {m} : s.written[k] = r.written[k]
        /\ DOMAIN new = DOMAIN old \cup {m} /\ new[m] = row
        /\ \A k \in DOMAIN old \ {m} : new[k] = old[k]
    <2>1. IsPut(r.written, s.written, m, row) /\ IsPut(old, new, m, row)
      BY <1>3, <1>4, ViewAfterWrite
    <2> HIDE DEF old, new
    <2> QED
      BY <2>1 DEF IsPut
  <1>7. /\ row.outlet = old[m].outlet /\ row.from = old[m].from /\ ~row.active
        /\ row.to = PrevDay(line.from) \/ (row.to = old[m].to /\ ~old[m].active)
    BY <1>2, <1>4, <1>5 DEF Closed
  <1>8. WritesKnown(maps, s)
    <2>1. ASSUME m \in DOMAIN maps
          PROVE  old[m].outlet = maps[m].outlet /\ old[m].from = maps[m].from
      <3>0. /\ \A k \in DOMAIN r.written : old[k] = r.written[k]
            /\ \A k \in DOMAIN maps \ DOMAIN r.written : old[k] = maps[k]
        BY <1>4, MergedIs DEF View
      <3> HIDE DEF old
      <3>1. CASE m \in DOMAIN r.written
        <4>1. old[m] = r.written[m]
          BY <3>0, <3>1
        <4> QED
          BY <2>1, <3>1, <4>1 DEF Grounded, WritesKnown
      <3>2. CASE m \notin DOMAIN r.written
        BY <2>1, <3>0, <3>2
      <3> QED
        BY <3>1, <3>2
    <2> HIDE DEF old
    <2> QED
      BY <1>6, <1>7, <2>1 DEF Grounded, WritesKnown
  <1>9. KeepsPlaces(old, new)
    BY <1>5, <1>6, <1>7 DEF KeepsPlaces
  <1>10. ClosesForLines(maps, s)
    <2>1. SUFFICES ASSUME NEW k \in DOMAIN new, ~new[k].active
                   PROVE  Replaced(new, k) \/ Awaited(s, new[k])
      BY DEF ClosesForLines
    <2>2. \A j \in DOMAIN old : ~old[j].active => Replaced(old, j)
      BY <1>0 DEF Grounded, ClosesForLines, Awaited
    <2>3. CASE k # m
      <3>1. k \in DOMAIN old /\ new[k] = old[k]
        BY <1>6, <2>3
      <3>2. Replaced(old, k) /\ new[k].to = old[k].to
        BY <2>1, <2>2, <3>1
      <3> HIDE DEF old, new
      <3> QED
        BY <1>9, <3>1, <3>2, StaysReplaced
    <2>4. CASE k = m /\ row.to = PrevDay(line.from)
      <3>1. Awaited(s, new[k])
        BY <1>3, <1>5, <1>6, <1>7, <2>4 DEF Awaited, Succeeds
      <3> QED
        BY <3>1
    <2>5. CASE k = m /\ row.to = old[m].to /\ ~old[m].active
      <3>1. k \in DOMAIN old /\ new[k].to = old[k].to /\ Replaced(old, k)
        BY <1>5, <1>6, <2>2, <2>5
      <3> HIDE DEF old, new
      <3> QED
        BY <1>9, <3>1, StaysReplaced
    <2> QED
      BY <1>7, <2>3, <2>4, <2>5
  <1> QED
    BY <1>0, <1>3, <1>8, <1>10 DEF Grounded, FoundKnown

LEMMA InsertGrounds ==
    ASSUME MapsShape, IdsBounded, NEW w \in Workers, NEW s, s = req'[w], Insert(w),
           Grounded(maps, req[w])
    PROVE  Grounded(maps, s)
  <1> DEFINE r == req[w]
             line == Head(r.lines)
             old == View(maps, r)
             new == View(maps, s)
  <1>0. r.at = "insert" /\ r.lines # <<>> /\ ~r.aborted /\ ~Idle(w)
    BY DEF Insert, Grounded, Idle
  <1>1. PICK id : id = NextId
    OBVIOUS
  <1>2. PICK row : row = NewRow(line)
    OBVIOUS
  <1>3. /\ r \in RequestRecord /\ s \in RequestRecord /\ s.at = "find"
        /\ s.aborted = r.aborted
        /\ s.written = Put(r.written, id, row)
        /\ row \in Row /\ id \in Ids /\ id \notin UsedIds
    BY <1>0, <1>1, <1>2, InsertIs
  <1>4. old \in Tables /\ r.written \in Tables /\ maps \in Tables
        /\ DOMAIN old = DOMAIN maps \cup DOMAIN r.written
    BY <1>0, ViewIs
  <1>5. id \notin DOMAIN maps /\ id \notin DOMAIN r.written
    BY <1>0, <1>3 DEF UsedIds, Inserted
  <1>6. /\ DOMAIN s.written = DOMAIN r.written \cup {id}
        /\ \A k \in DOMAIN r.written \ {id} : s.written[k] = r.written[k]
        /\ DOMAIN new = DOMAIN old \cup {id} /\ new[id] = row
        /\ \A k \in DOMAIN old \ {id} : new[k] = old[k]
    <2>1. IsPut(r.written, s.written, id, row) /\ IsPut(old, new, id, row)
      BY <1>3, <1>4, ViewAfterWrite
    <2> HIDE DEF old, new
    <2> QED
      BY <2>1 DEF IsPut
  <1>7. WritesKnown(maps, s)
    BY <1>5, <1>6 DEF Grounded, WritesKnown
  <1>8. KeepsPlaces(old, new)
    BY <1>4, <1>5, <1>6 DEF KeepsPlaces
  <1>9. ClosesForLines(maps, s)
    <2>1. SUFFICES ASSUME NEW k \in DOMAIN new, ~new[k].active
                   PROVE  Replaced(new, k)
      BY DEF ClosesForLines
    <2>2. row.active /\ row.outlet = line.outlet /\ row.from = line.from
      BY <1>2 DEF NewRow
    <2>3. k \in DOMAIN old /\ k # id /\ new[k] = old[k]
      BY <1>6, <2>1, <2>2
    <2>4. Replaced(old, k) \/ Awaited(r, old[k])
      BY <1>0, <2>1, <2>3 DEF Grounded, ClosesForLines
    <2>5. CASE Replaced(old, k)
      <3> HIDE DEF old, new
      <3> QED
        BY <1>8, <2>3, <2>5, StaysReplaced
    <2>6. CASE Awaited(r, old[k])
      <3>1. Succeeds(new[id], new[k]) /\ id \in DOMAIN new \ {k}
        BY <1>6, <2>2, <2>3, <2>6 DEF Awaited, Succeeds
      <3> QED
        BY <3>1 DEF Replaced
    <2> QED
      BY <2>4, <2>5, <2>6
  <1> QED
    BY <1>3, <1>7, <1>9 DEF Grounded, FoundKnown

LEMMA InsertFailsGrounds ==
    ASSUME MapsShape, NEW w \in Workers, NEW s, s = req'[w], InsertFails(w),
           Grounded(maps, req[w]), s # NoRequest
    PROVE  Grounded(maps, s)
  <1>1. req[w].at = "insert" /\ req[w].lines # <<>>
    BY DEF InsertFails, Grounded
  <1>2. s.at = "find" /\ s.aborted /\ s.written = req[w].written
    BY <1>1, InsertFailsIs
  <1> QED
    BY <1>2 DEF Grounded, WritesKnown, FoundKnown, ClosesForLines

----------------------------------------------------------------------------
(* Another's commit.                                                       *)

AllReplaced(t) == \A m \in DOMAIN t : ~t[m].active => Replaced(t, m)

(* What a commit makes of the table: rows that change are closed.          *)
Follows(t, u) ==
    /\ KeepsPlaces(t, u)
    /\ \A m \in DOMAIN t : u[m] = t[m] \/ ~u[m].active

LEMMA OthersGrounded ==
    ASSUME NEW t \in Tables, NEW u \in Tables, NEW r \in RequestRecord,
           Grounded(t, r), Follows(t, u), AllReplaced(u),
           (DOMAIN u \ DOMAIN t) \cap DOMAIN r.written = {}
    PROVE  Grounded(u, r)
  <1> DEFINE old == View(t, r)
             new == View(u, r)
  <1>1. /\ DOMAIN old = DOMAIN t \cup DOMAIN r.written
        /\ \A m \in DOMAIN r.written : old[m] = r.written[m]
        /\ \A m \in DOMAIN t \ DOMAIN r.written : old[m] = t[m]
        /\ DOMAIN new = DOMAIN u \cup DOMAIN r.written
        /\ \A m \in DOMAIN r.written : new[m] = r.written[m]
        /\ \A m \in DOMAIN u \ DOMAIN r.written : new[m] = u[m]
    <2>1. PICK f : f = r.written
      OBVIOUS
    <2>2. f \in Tables
      BY <2>1 DEF RequestRecord
    <2>3. /\ DOMAIN Merged(t, f) = DOMAIN t \cup DOMAIN f
          /\ DOMAIN Merged(u, f) = DOMAIN u \cup DOMAIN f
      BY <2>2, MergedIs
    <2>4. \A m \in DOMAIN f : Merged(t, f)[m] = f[m]
      BY <2>2, MergedIs
    <2>5. \A m \in DOMAIN f : Merged(u, f)[m] = f[m]
      BY <2>2, MergedIs
    <2>6. \A m \in DOMAIN t \ DOMAIN f : Merged(t, f)[m] = t[m]
      BY <2>2, MergedIs
    <2>7. \A m \in DOMAIN u \ DOMAIN f : Merged(u, f)[m] = u[m]
      BY <2>2, MergedIs
    <2>8. old = Merged(t, f) /\ new = Merged(u, f)
      BY <2>1 DEF View
    <2> HIDE DEF old, new
    <2> QED
      BY <2>1, <2>3, <2>4, <2>5, <2>6, <2>7, <2>8
  <1>2. WritesKnown(t, r) /\ DOMAIN t \subseteq DOMAIN u
        /\ \A m \in DOMAIN t : u[m].outlet = t[m].outlet /\ u[m].from = t[m].from
    BY DEF Grounded, Follows, KeepsPlaces
  <1>3. WritesKnown(u, r)
    BY <1>2 DEF WritesKnown
  <1>4. KeepsPlaces(old, new)
    <2> HIDE DEF old, new
    <2> QED
      BY <1>1, <1>2 DEF KeepsPlaces
  <1>5. KeepsPlaces(u, new)
    <2>1. \A m \in DOMAIN u \cap DOMAIN r.written :
            r.written[m].outlet = u[m].outlet /\ r.written[m].from = u[m].from
      BY <1>3 DEF WritesKnown
    <2> HIDE DEF new
    <2> QED
      BY <1>1, <2>1 DEF KeepsPlaces
  <1>6. \A m \in DOMAIN old : new[m] = old[m] \/ ~new[m].active
    <2>1. \A m \in DOMAIN t : u[m] = t[m] \/ ~u[m].active
      BY DEF Follows
    <2> HIDE DEF old, new
    <2> QED
      BY <1>1, <1>2, <2>1
  <1>7. FoundKnown(u, r)
    <2>1. SUFFICES ASSUME r.at \in {"load", "close"} PROVE \E m \in Ids : FindsRow(u, r, m)
      BY DEF FoundKnown
    <2>2. PICK m \in Ids : FindsRow(t, r, m)
      BY <2>1 DEF Grounded, FoundKnown
    <2>3. m \in DOMAIN old /\ old[m].outlet = Head(r.lines).outlet
          /\ r.found = [i \in {m} |-> Ended(old[m], Head(r.lines))]
          /\ (r.at = "load" => old[m].to # PrevDay(Head(r.lines).from) \/ ~old[m].active)
          /\ (r.at = "close" => {"to", "active"} \subseteq r.diff \/ ~old[m].active)
      BY <2>2 DEF FindsRow
    <2>4. m \in DOMAIN new /\ new[m].outlet = old[m].outlet /\ new[m].from = old[m].from
          /\ (new[m] = old[m] \/ ~new[m].active)
      BY <1>4, <1>6, <2>3 DEF KeepsPlaces
    <2>5. Ended(new[m], Head(r.lines)) = Ended(old[m], Head(r.lines))
      BY <2>4 DEF Ended
    <2>6. FindsRow(u, r, m)
      <3>1. /\ m \in DOMAIN new /\ new[m].outlet = Head(r.lines).outlet
            /\ r.found = [i \in {m} |-> Ended(new[m], Head(r.lines))]
            /\ (r.at = "load" => new[m].to # PrevDay(Head(r.lines).from) \/ ~new[m].active)
            /\ (r.at = "close" => {"to", "active"} \subseteq r.diff \/ ~new[m].active)
        <4> HIDE DEF old, new, Ended
        <4> QED
          BY <2>3, <2>4, <2>5
      <3> QED
        BY <3>1 DEF FindsRow
    <2> QED
      BY <2>6
  <1>8. ClosesForLines(u, r)
    <2>1. SUFFICES ASSUME ~r.aborted, NEW k \in DOMAIN new, ~new[k].active
                   PROVE  Replaced(new, k) \/ Awaited(r, new[k])
      BY DEF ClosesForLines
    <2>2. CASE k \in DOMAIN r.written
      <3>1. k \in DOMAIN old /\ new[k] = old[k]
        BY <1>1, <2>2
      <3>2. Replaced(old, k) \/ Awaited(r, old[k])
        BY <2>1, <3>1 DEF Grounded, ClosesForLines
      <3> HIDE DEF old, new
      <3>3. Replaced(old, k) => Replaced(new, k)
        BY <1>4, <3>1, StaysReplaced
      <3> QED
        BY <3>1, <3>2, <3>3
    <2>3. CASE k \notin DOMAIN r.written
      <3>1. k \in DOMAIN u /\ new[k] = u[k]
        BY <1>1, <2>3
      <3>2. Replaced(u, k)
        BY <2>1, <3>1 DEF AllReplaced
      <3> HIDE DEF old, new
      <3> QED
        BY <1>5, <3>1, <3>2, StaysReplaced
    <2> QED
      BY <2>2, <2>3
  <1> QED
    BY <1>3, <1>7, <1>8 DEF Grounded

LEMMA CommittedTable ==
    ASSUME MapsShape, NEW w \in Workers, ~Idle(w), Grounded(maps, req[w]),
           req[w].at = "find", ~req[w].aborted
    PROVE  Follows(maps, Visible(w)) /\ AllReplaced(Visible(w))
  <1> DEFINE r == req[w]
             u == Visible(w)
  <1>1. u = View(maps, r) /\ r.written \in Tables /\ maps \in Tables
    BY ViewIs
  <1>2. AllReplaced(u)
    BY <1>1 DEF Grounded, ClosesForLines, Awaited, AllReplaced
  <1>3. PICK f : f = r.written
    OBVIOUS
  <1>4. f \in Tables /\ u = Merged(maps, f)
    BY <1>1, <1>3 DEF View
  <1>5. DOMAIN Merged(maps, f) = DOMAIN maps \cup DOMAIN f
    BY <1>1, <1>4, MergedIs
  <1>6. \A m \in DOMAIN f : Merged(maps, f)[m] = f[m]
    BY <1>1, <1>4, MergedIs
  <1>7. \A m \in DOMAIN maps \ DOMAIN f : Merged(maps, f)[m] = maps[m]
    BY <1>1, <1>4, MergedIs
  <1>8. \A m \in DOMAIN f \cap DOMAIN maps :
          f[m].outlet = maps[m].outlet /\ f[m].from = maps[m].from /\ ~f[m].active
    BY <1>3 DEF Grounded, WritesKnown
  <1>9. Follows(maps, u)
    <2> HIDE DEF u
    <2> QED
      BY <1>4, <1>5, <1>6, <1>7, <1>8 DEF Follows, KeepsPlaces
  <1> QED
    BY <1>2, <1>9

----------------------------------------------------------------------------
(* The invariant.                                                          *)

StepOf(w) ==
    \/ \E lines \in Lists, bulk \in BOOLEAN : Open(w, lines, bulk)
    \/ Proceed(w) \/ Abandon(w)

LEMMA NextIsStep == ASSUME MapsNext PROVE \E w \in Workers : StepOf(w)
  BY DEF MapsNext, StepOf, BreakDeadlock

(* The request has read or written something, and committed nothing.       *)
Advances(w, s) ==
    /\ s \in RequestRecord
    /\ Grounded(maps, s)
    /\ DOMAIN s.written \subseteq
         DOMAIN maps \cup (IF Idle(w) THEN {} ELSE DOMAIN req[w].written) \cup {NextId}

LEMMA NothingWritten ==
    ASSUME NEW t \in Tables, NEW s, s.written = NoRows
    PROVE  View(t, s) = t /\ DOMAIN s.written = {}
  <1>1. PICK none : none = NoRows
    OBVIOUS
  <1>2. none \in Tables /\ DOMAIN none = {}
    BY <1>1, NoRowsIsTable
  <1>3. View(t, s) = Merged(t, none)
    BY <1>1 DEF View
  <1>4. Merged(t, none) = [m \in DOMAIN t |-> t[m]]
    BY <1>2 DEF Merged
  <1> QED
    BY <1>1, <1>2, <1>3, <1>4, TableTypes

LEMMA ListedOutlet ==
    ASSUME NEW lines \in Lists
    PROVE  OutletsOf(lines) \subseteq Outlets
  <1>1. lines \in Seq(Line)
    BY ListsAssumption
  <1>2. \A i \in DOMAIN lines : lines[i] \in Line
    BY <1>1
  <1>3. \A x \in Line : x.outlet \in Outlets
    BY DEF Line
  <1> QED
    BY <1>2, <1>3 DEF OutletsOf

LEMMA OpenAdvances ==
    ASSUME MapsInvariant, NEW w \in Workers,
           NEW lines \in Lists, NEW bulk \in BOOLEAN, Open(w, lines, bulk)
    PROVE  Advances(w, req'[w])
  <1>1. PICK s : s = req'[w]
    OBVIOUS
  <1>2. /\ MapsShape /\ ClosedRowsReplaced /\ maps \in Tables
    BY DEF MapsInvariant, MapsShape
  <1>3. /\ s \in RequestRecord /\ s.at = "find" /\ s.written = NoRows
    BY <1>1, <1>2, OpenIs
  <1>4. View(maps, s) = maps
    BY <1>2, <1>3, NothingWritten
  <1>5. \A m \in DOMAIN maps : ~maps[m].active => Replaced(maps, m)
    BY <1>2 DEF ClosedRowsReplaced, Replaced, Succeeds
  <1>6. DOMAIN s.written = {}
    BY <1>3, NoRowsIsTable
  <1>7. Grounded(maps, s)
    BY <1>3, <1>4, <1>5, <1>6 DEF Grounded, WritesKnown, FoundKnown, ClosesForLines
  <1> QED
    BY <1>1, <1>3, <1>6, <1>7 DEF Advances

LEMMA StatementAdvances ==
    ASSUME MapsInvariant, NEW w \in Workers,
           Find(w) \/ Load(w) \/ Close(w) \/ Insert(w) \/ InsertFails(w)
    PROVE  req'[w] = NoRequest \/ Advances(w, req'[w])
  <1>1. PICK s : s = req'[w]
    OBVIOUS
  <1>2. ~Idle(w)
    BY DEF Idle, Find, Load, Close, Insert, InsertFails
  <1>3. MapsShape /\ IdsBounded /\ Grounded(maps, req[w])
    BY <1>2 DEF MapsInvariant
  <1>4. req[w].written \in Tables /\ DOMAIN Visible(w) = DOMAIN maps \cup DOMAIN req[w].written
        /\ Visible(w) = View(maps, req[w])
    BY <1>2, <1>3, ViewIs
  <1>5. CASE Find(w)
    BY <1>1, <1>2, <1>3, <1>5, FindIs, FindGrounds DEF Advances
  <1>6. CASE Load(w)
    <2>1. PICK m \in Ids : FindsRow(maps, req[w], m)
      BY <1>3, <1>6 DEF Grounded, FoundKnown, Load
    <2>2. s \in RequestRecord /\ s.written = req[w].written
      BY <1>1, <1>3, <1>6, <2>1, LoadIs
    <2>3. Grounded(maps, s)
      BY <1>1, <1>3, <1>6, LoadGrounds
    <2> QED
      BY <1>1, <1>2, <2>2, <2>3 DEF Advances
  <1>7. CASE Close(w)
    <2>1. req[w].at = "close" /\ req[w].lines # <<>>
      BY <1>3, <1>7 DEF Close, Grounded
    <2>2. PICK m \in Ids : FindsRow(maps, req[w], m)
      BY <1>3, <2>1 DEF Grounded, FoundKnown
    <2>3. PICK row \in Row : s.written = Put(req[w].written, m, row)
      BY <1>1, <1>3, <1>7, <2>1, <2>2, CloseIs
    <2>4. s \in RequestRecord
      BY <1>1, <1>3, <1>7, <2>1, <2>2, CloseIs
    <2>5. Grounded(maps, s)
      BY <1>1, <1>3, <1>7, CloseGrounds
    <2>6. DOMAIN s.written = DOMAIN req[w].written \cup {m}
      <3>1. IsPut(req[w].written, s.written, m, row)
        BY <1>4, <2>3, PutIs
      <3> QED
        BY <3>1 DEF IsPut
    <2>7. m \in DOMAIN maps \cup DOMAIN req[w].written
      BY <1>4, <2>2 DEF FindsRow
    <2> QED
      BY <1>1, <1>2, <2>4, <2>5, <2>6, <2>7 DEF Advances
  <1>8. CASE Insert(w)
    <2>1. req[w].lines # <<>>
      BY <1>3, <1>8 DEF Insert, Grounded
    <2>2. NextId \in Ids
      BY <1>3, NextIdIs
    <2>3. PICK row \in Row : s.written = Put(req[w].written, NextId, row)
      BY <1>1, <1>3, <1>8, <2>1, InsertIs
    <2>4. s \in RequestRecord
      BY <1>1, <1>3, <1>8, <2>1, InsertIs
    <2>5. Grounded(maps, s)
      BY <1>1, <1>3, <1>8, InsertGrounds
    <2>6. DOMAIN s.written = DOMAIN req[w].written \cup {NextId}
      <3>1. IsPut(req[w].written, s.written, NextId, row)
        BY <1>4, <2>2, <2>3, PutIs
      <3> QED
        BY <3>1 DEF IsPut
    <2> QED
      BY <1>1, <1>2, <2>4, <2>5, <2>6 DEF Advances
  <1>9. CASE InsertFails(w)
    <2>1. req[w].lines # <<>>
      BY <1>3, <1>9 DEF InsertFails, Grounded
    <2>2. s = NoRequest \/ (s \in RequestRecord /\ s.written = req[w].written)
      BY <1>1, <1>3, <1>9, <2>1, InsertFailsIs
    <2>3. s # NoRequest => Grounded(maps, s)
      BY <1>1, <1>3, <1>9, InsertFailsGrounds
    <2> QED
      BY <1>1, <1>2, <2>2, <2>3 DEF Advances
  <1> QED
    BY <1>5, <1>6, <1>7, <1>8, <1>9

LEMMA StatementChangesOne ==
    ASSUME MapsInvariant, NEW w \in Workers,
           Find(w) \/ Load(w) \/ Close(w) \/ Insert(w) \/ InsertFails(w)
    PROVE  OnlyChanges(w) /\ maps' = maps /\ overlapped' = overlapped
  <1>1. PICK s : s = req'[w]
    OBVIOUS
  <1>2. ~Idle(w)
    BY DEF Idle, Find, Load, Close, Insert, InsertFails
  <1>3. MapsShape /\ IdsBounded /\ Grounded(maps, req[w])
    BY <1>2 DEF MapsInvariant
  <1>4. req[w].at \in {"load", "close"} => \E m \in Ids : FindsRow(maps, req[w], m)
    BY <1>3 DEF Grounded, FoundKnown
  <1>5. req[w].at # "find" => req[w].lines # <<>>
    BY <1>3 DEF Grounded
  <1>6. CASE Find(w)
    BY <1>1, <1>3, <1>6, FindIs
  <1>7. CASE Load(w)
    <2>1. PICK m \in Ids : FindsRow(maps, req[w], m)
      BY <1>4, <1>7 DEF Load
    <2> QED
      BY <1>1, <1>3, <1>7, <2>1, LoadIs
  <1>8. CASE Close(w)
    <2>1. PICK m \in Ids : FindsRow(maps, req[w], m)
      BY <1>4, <1>8 DEF Close
    <2>2. req[w].lines # <<>>
      BY <1>5, <1>8 DEF Close
    <2> QED
      BY <1>1, <1>3, <1>8, <2>1, <2>2, CloseIs
  <1>9. CASE Insert(w)
    <2>1. req[w].lines # <<>>
      BY <1>5, <1>9 DEF Insert
    <2> QED
      BY <1>1, <1>3, <1>9, <2>1, InsertIs
  <1>10. CASE InsertFails(w)
    <2>1. req[w].lines # <<>>
      BY <1>5, <1>10 DEF InsertFails
    <2> QED
      BY <1>1, <1>3, <1>10, <2>1, InsertFailsIs
  <1> QED
    BY <1>2, <1>6, <1>7, <1>8, <1>9, <1>10

Ends(w) == req'[w] = NoRequest /\ maps' = maps
Publishes(w) ==
    /\ ~Idle(w) /\ req[w].at = "find" /\ req[w].lines = <<>> /\ ~req[w].aborted
    /\ req'[w] = NoRequest /\ maps' = Visible(w)

LEMMA StepKinds ==
    ASSUME MapsInvariant, NEW w \in Workers, StepOf(w)
    PROVE  /\ OnlyChanges(w)
           /\ Ends(w) \/ Publishes(w) \/ (Advances(w, req'[w]) /\ maps' = maps)
           /\ overlapped \subseteq overlapped' /\ overlapped' \subseteq Outlets
  <1>0. MapsShape /\ overlapped \subseteq Outlets
    BY DEF MapsInvariant, MapsShape
  <1>1. CASE \E lines \in Lists, bulk \in BOOLEAN : Open(w, lines, bulk)
    <2>1. PICK lines \in Lists, bulk \in BOOLEAN : Open(w, lines, bulk)
      BY <1>1
    <2>2. Advances(w, req'[w])
      BY <2>1, OpenAdvances
    <2>3. PICK s : s = req'[w]
      OBVIOUS
    <2>4. OnlyChanges(w) /\ maps' = maps
      BY <1>0, <2>1, <2>3, OpenIs
    <2>5. overlapped' = overlapped \cup
            (OutletsOf(lines) \cap UNION {WorksOn(v) : v \in Others(w)})
      BY <2>1 DEF Open
    <2>6. OutletsOf(lines) \subseteq Outlets
      BY ListedOutlet
    <2> QED
      BY <1>0, <2>2, <2>4, <2>5, <2>6
  <1>2. CASE Find(w) \/ Load(w) \/ Close(w) \/ Insert(w) \/ InsertFails(w)
    BY <1>0, <1>2, StatementAdvances, StatementChangesOne DEF Ends
  <1>3. CASE FindFails(w) \/ Abandon(w)
    <2>1. End(w) /\ maps' = maps /\ overlapped' = overlapped
      BY <1>3 DEF FindFails, Abandon
    <2> QED
      BY <1>0, <2>1, EndIs DEF Ends
  <1>4. CASE Commit(w)
    <2>1. End(w) /\ overlapped' = overlapped /\ req[w].at = "find" /\ req[w].lines = <<>>
          /\ maps' = IF req[w].aborted THEN maps ELSE Visible(w)
      BY <1>4 DEF Commit
    <2>2. req'[w] = NoRequest /\ OnlyChanges(w) /\ ~Idle(w)
      BY <1>0, <2>1, EndIs DEF Idle
    <2> QED
      BY <1>0, <2>1, <2>2 DEF Ends, Publishes
  <1> QED
    BY <1>1, <1>2, <1>3, <1>4 DEF StepOf, Proceed

LEMMA MapsInitInvariant == ASSUME MapsInit PROVE MapsInvariant
  <1>1. maps \in Tables /\ DOMAIN maps = {}
    BY NoRowsIsTable DEF MapsInit
  <1>2. req \in [Workers -> RequestRecord \cup {NoRequest}] /\ overlapped \subseteq Outlets
    BY DEF MapsInit
  <1>3. \A w \in Workers : Idle(w)
    BY DEF MapsInit, Idle, NoRequest
  <1>4. IdsBounded
    <2>1. UsedIds = {}
      BY <1>1, <1>3 DEF UsedIds
    <2> QED
      BY <2>1 DEF IdsBounded
  <1>5. InsertsApart /\ ClosedRowsReplaced
    BY <1>1, <1>3 DEF InsertsApart, ClosedRowsReplaced
  <1> QED
    BY <1>1, <1>2, <1>3, <1>4, <1>5 DEF MapsInvariant, MapsShape

(* The ids in use, with what w has inserted as given.                      *)
LEMMA UsedAfter ==
    ASSUME NEW w \in Workers, OnlyChanges(w), maps' = maps, NEW S,
           Idle(w)' \/ Inserted(w)' \subseteq S
    PROVE  UsedIds' \subseteq UsedIds \cup S
  <1>1. SUFFICES ASSUME NEW v \in Workers, ~Idle(v)', NEW m \in Inserted(v)'
                 PROVE  m \in UsedIds \cup S
    BY DEF UsedIds
  <1>2. CASE v = w
    BY <1>1, <1>2
  <1>3. CASE v # w
    <2>1. req'[v] = req[v]
      BY <1>3 DEF OnlyChanges
    <2>2. ~Idle(v) /\ m \in Inserted(v)
      BY <1>1, <2>1 DEF Idle, Inserted
    <2> QED
      BY <2>2 DEF UsedIds
  <1> QED
    BY <1>2, <1>3

LEMMA ShapeAfter ==
    ASSUME MapsShape, NEW w \in Workers, OnlyChanges(w), maps' \in Tables,
           req'[w] \in RequestRecord \cup {NoRequest}, overlapped' \subseteq Outlets
    PROVE  MapsShape'
  <1>1. \A v \in Workers : req'[v] \in RequestRecord \cup {NoRequest}
    BY DEF OnlyChanges, MapsShape
  <1>2. req' = [v \in Workers |-> req'[v]]
    BY DEF OnlyChanges
  <1> QED
    BY <1>1, <1>2 DEF MapsShape

LEMMA AdvanceKeepsInvariant ==
    ASSUME MapsInvariant, NEW w \in Workers, OnlyChanges(w),
           Ends(w) \/ (Advances(w, req'[w]) /\ maps' = maps), overlapped' \subseteq Outlets
    PROVE  MapsInvariant'
  <1>1. /\ MapsShape /\ IdsBounded /\ InsertsApart /\ ClosedRowsReplaced
        /\ \A v \in Workers : ~Idle(v) => Grounded(maps, req[v])
    BY DEF MapsInvariant
  <1>2. maps' = maps /\ maps \in Tables /\ \A v \in Workers \ {w} : req'[v] = req[v]
    BY <1>1 DEF Ends, MapsShape, OnlyChanges
  <1>3. req'[w] \in RequestRecord \cup {NoRequest}
    BY DEF Ends, Advances
  <1>4. MapsShape'
    BY <1>1, <1>2, <1>3, ShapeAfter
  <1>5. \A v \in Workers : Idle(v)' \/ Grounded(maps', req'[v])
    BY <1>1, <1>2 DEF Ends, Advances, Idle, NoRequest
  <1>6. NextId \in Ids /\ NextId \notin UsedIds
    <2>1. NextId \in Int
      BY <1>1, NextIdIs DEF Ids
    <2>2. ~(NextId < NextId)
      BY <2>1
    <2> QED
      BY <1>1, <2>2, NextIdIs
  <1>7. Idle(w)' \/ Inserted(w)' \subseteq (IF Idle(w) THEN {} ELSE Inserted(w)) \cup {NextId}
    BY <1>2 DEF Ends, Advances, Inserted, Idle, NoRequest
  <1>8. InsertsApart'
    <2>1. SUFFICES ASSUME NEW u \in Workers, NEW v \in Workers, u # v, ~Idle(u)', ~Idle(v)',
                          NEW m, m \in Inserted(u)', m \in Inserted(v)'
                   PROVE  FALSE
      BY DEF InsertsApart
    <2>2. ASSUME NEW x \in Workers \ {w}, ~Idle(x)', m \in Inserted(x)', m \in Inserted(w)',
                 ~Idle(w)'
          PROVE  FALSE
      <3>1. req'[x] = req[x]
        BY <1>2
      <3>2. ~Idle(x) /\ m \in Inserted(x)
        BY <1>2, <2>2, <3>1 DEF Idle, Inserted
      <3>3. m \in UsedIds
        BY <3>2 DEF UsedIds
      <3>4. ~Idle(w) /\ m \in Inserted(w)
        BY <1>6, <1>7, <2>2, <3>3
      <3> QED
        BY <1>1, <3>2, <3>4 DEF InsertsApart
    <2>3. CASE u # w /\ v # w
      <3>1. ~Idle(u) /\ ~Idle(v) /\ m \in Inserted(u) /\ m \in Inserted(v)
        BY <1>2, <2>1, <2>3 DEF Idle, Inserted
      <3> QED
        BY <1>1, <2>1, <3>1 DEF InsertsApart
    <2> QED
      BY <2>1, <2>2, <2>3
  <1>9. IdsBounded'
    <2>1. PICK S : S = (IF Idle(w) THEN {} ELSE Inserted(w)) \cup {NextId}
      OBVIOUS
    <2>2. UsedIds' \subseteq UsedIds \cup S
      BY <1>2, <1>7, <2>1, UsedAfter
    <2>3. S \subseteq UsedIds \cup {NextId}
      BY <2>1 DEF UsedIds
    <2>4. NextId \in Nat /\ \A m \in UsedIds : m < NextId
      BY <1>1, NextIdIs DEF Ids
    <2>5. UsedIds \subseteq Int
      <3>1. DOMAIN maps \subseteq Int
        BY <1>2, TableTypes
      <3>2. ASSUME NEW v \in Workers, ~Idle(v) PROVE Inserted(v) \subseteq Int
        <4>1. req[v].written \in Tables
          BY <1>1, <3>2, ViewIs
        <4>2. DOMAIN req[v].written \subseteq Int
          BY <4>1, TableTypes
        <4> QED
          BY <4>2 DEF Inserted
      <3> QED
        BY <3>1, <3>2 DEF UsedIds
    <2>6. \A m \in UsedIds' : m <= NextId
      BY <2>2, <2>3, <2>4, <2>5
    <2> QED
      BY <2>4, <2>6 DEF IdsBounded
  <1>10. ClosedRowsReplaced'
    BY <1>1, <1>2 DEF ClosedRowsReplaced
  <1> QED
    BY <1>4, <1>5, <1>8, <1>9, <1>10 DEF MapsInvariant

LEMMA PublishKeepsInvariant ==
    ASSUME MapsInvariant, NEW w \in Workers, OnlyChanges(w), Publishes(w),
           overlapped' \subseteq Outlets
    PROVE  MapsInvariant'
  <1>1. /\ MapsShape /\ IdsBounded /\ InsertsApart
        /\ \A v \in Workers : ~Idle(v) => Grounded(maps, req[v])
    BY DEF MapsInvariant
  <1>2. /\ ~Idle(w) /\ req[w].at = "find" /\ ~req[w].aborted
        /\ maps' = Visible(w) /\ req'[w] = NoRequest
        /\ \A v \in Workers \ {w} : req'[v] = req[v]
    BY DEF Publishes, OnlyChanges
  <1>3. /\ maps \in Tables /\ maps' \in Tables
        /\ DOMAIN maps' = DOMAIN maps \cup DOMAIN req[w].written
    BY <1>1, <1>2, ViewIs
  <1>4. Follows(maps, maps') /\ AllReplaced(maps')
    <2>1. Follows(maps, Visible(w)) /\ AllReplaced(Visible(w))
      BY <1>1, <1>2, CommittedTable
    <2> QED
      BY <1>2, <2>1
  <1>5. MapsShape'
    BY <1>1, <1>2, <1>3, ShapeAfter
  <1>6. DOMAIN maps' \ DOMAIN maps = Inserted(w)
    BY <1>3 DEF Inserted
  <1>7. ASSUME NEW v \in Workers, ~Idle(v)'
        PROVE  /\ v # w /\ ~Idle(v) /\ req'[v] = req[v]
               /\ Inserted(v)' \subseteq Inserted(v)
    <2>1. v # w
      BY <1>2, <1>7 DEF Idle, NoRequest
    <2>2. req'[v] = req[v] /\ ~Idle(v)
      BY <1>2, <1>7, <2>1 DEF Idle
    <2> QED
      BY <1>3, <2>1, <2>2 DEF Inserted
  <1>8. ASSUME NEW v \in Workers, ~Idle(v)'
        PROVE  Grounded(maps', req'[v])
    <2>1. v # w /\ ~Idle(v) /\ req'[v] = req[v]
      BY <1>7, <1>8
    <2>2. Inserted(w) \cap Inserted(v) = {}
      BY <1>1, <1>2, <2>1 DEF InsertsApart
    <2>3. (DOMAIN maps' \ DOMAIN maps) \cap DOMAIN req[v].written = {}
      BY <1>6, <2>2 DEF Inserted
    <2>4. Grounded(maps, req[v]) /\ req[v] \in RequestRecord
      BY <1>1, <2>1, RequestIs
    <2>5. PICK u : u = maps'
      OBVIOUS
    <2>6. PICK r : r = req[v]
      OBVIOUS
    <2>7. /\ u \in Tables /\ r \in RequestRecord /\ Grounded(maps, r)
          /\ Follows(maps, u) /\ AllReplaced(u)
          /\ (DOMAIN u \ DOMAIN maps) \cap DOMAIN r.written = {}
      BY <1>3, <1>4, <2>3, <2>4, <2>5, <2>6
    <2>8. Grounded(u, r)
      BY <1>3, <2>7, OthersGrounded
    <2> QED
      BY <2>1, <2>5, <2>6, <2>8
  <1>9. InsertsApart'
    <2>1. SUFFICES ASSUME NEW u \in Workers, NEW v \in Workers, u # v, ~Idle(u)', ~Idle(v)'
                   PROVE  Inserted(u)' \cap Inserted(v)' = {}
      BY DEF InsertsApart
    <2> QED
      BY <1>1, <1>7, <2>1 DEF InsertsApart
  <1>10. IdsBounded'
    <2>1. UsedIds' \subseteq UsedIds
      <3>1. DOMAIN maps' \subseteq UsedIds
        BY <1>2, <1>3 DEF UsedIds, Inserted
      <3>2. \A v \in Workers : ~Idle(v)' => Inserted(v)' \subseteq UsedIds
        BY <1>7 DEF UsedIds
      <3> QED
        BY <3>1, <3>2 DEF UsedIds
    <2> QED
      BY <1>1, <2>1 DEF IdsBounded
  <1>11. ClosedRowsReplaced'
    BY <1>4 DEF AllReplaced, ClosedRowsReplaced, Replaced, Succeeds
  <1> QED
    BY <1>1, <1>5, <1>8, <1>9, <1>10, <1>11 DEF MapsInvariant

LEMMA NextMapsInvariant ==
    ASSUME MapsInvariant, [MapsNext]_vars
    PROVE  MapsInvariant'
  <1>1. CASE UNCHANGED vars
    BY <1>1 DEF vars, MapsInvariant, MapsShape, InsertsApart, IdsBounded, UsedIds,
                Inserted, Idle, ClosedRowsReplaced
  <1>2. CASE MapsNext
    <2>1. PICK w \in Workers : StepOf(w)
      BY <1>2, NextIsStep
    <2> QED
      BY <2>1, StepKinds, AdvanceKeepsInvariant, PublishKeepsInvariant
  <1> QED
    BY <1>1, <1>2

LEMMA MapsInvariantHolds == MapsSafety => []MapsInvariant
  <1>1. MapsInit => MapsInvariant
    BY MapsInitInvariant
  <1>2. MapsInvariant /\ [MapsNext]_vars => MapsInvariant'
    BY NextMapsInvariant
  <1> QED
    BY <1>1, <1>2, PTL DEF MapsSafety

(* The tables keep the shape of their columns.                             *)
THEOREM MapsTypeCorrect == MapsSafety => []MapsTypeOK
  <1>1. ASSUME MapsInvariant PROVE MapsTypeOK
    <2>1. MapsShape
      BY <1>1 DEF MapsInvariant
    <2>2. \A t \in Tables : IsRows(t)
      BY TableTypes DEF IsRows
    <2>3. ASSUME NEW w \in Workers, ~Idle(w)
          PROVE  /\ req[w].at \in {"find", "load", "close", "insert"}
                 /\ req[w].lines \in Seq(Line)
                 /\ IsRows(req[w].found) /\ IsRows(req[w].written)
                 /\ req[w].diff \subseteq {"to", "active"}
                 /\ {req[w].bulk, req[w].aborted} \subseteq BOOLEAN
      <3>1. req[w] \in RequestRecord
        BY <2>1, <2>3, RequestIs
      <3> QED
        BY <2>2, <3>1 DEF RequestRecord, Steps
    <2>4. IsRows(maps) /\ overlapped \subseteq Outlets
      BY <2>1, <2>2 DEF MapsShape
    <2> QED
      BY <2>3, <2>4 DEF MapsTypeOK
  <1> QED
    BY <1>1, MapsInvariantHolds, PTL

(* No row is made inactive but with its successor stored, whatever         *)
(* requests overlap, fail, or go on after a duplicate.                     *)
THEOREM RowsAreReplaced == MapsSafety => []ClosedRowsReplaced
  <1>1. MapsInvariant => ClosedRowsReplaced
    BY DEF MapsInvariant
  <1> QED
    BY <1>1, MapsInvariantHolds, PTL

----------------------------------------------------------------------------
(* Outlets no two requests worked on at once.                              *)

InOrder(t, o) ==
    \A m, n \in DOMAIN t :
        t[m].outlet = o /\ t[n].outlet = o /\ m < n => t[m].from < t[n].from
CoversOnce(t, o) ==
    \A m, n \in DOMAIN t, day \in Days :
        Covers(t[m], o, day) /\ Covers(t[n], o, day) => m = n
Dated(t, o) == InOrder(t, o) => CoversOnce(t, o)

Works(r) == OutletsOf(r.lines) \cup {r.written[m].outlet : m \in DOMAIN r.written}

(* A committed row the transaction has written ends earlier, and its       *)
(* successor is written or in work.                                        *)
Shortened(t, r, m) ==
    /\ r.written[m].to < t[m].to
    /\ \/ \E n \in DOMAIN r.written \ DOMAIN t : Succeeds(r.written[n], r.written[m])
       \/ Awaited(r, r.written[m])

LineReady(t, r) ==
    LET line == Head(r.lines)
        v == View(t, r)
    IN  /\ r.at \in {"load", "close"} =>
             \A m \in DOMAIN r.found : Covers(v[m], line.outlet, line.from)
        /\ r.at = "close" => "to" \in r.diff
        /\ r.at = "insert" /\ InOrder(v, line.outlet) =>
             \A m \in DOMAIN v : ~Covers(v[m], line.outlet, line.from)

(* What a request that has the outlet to itself makes of it.               *)
OwnOutlet(t, r, o) ==
    /\ Dated(View(t, r), o)
    /\ \A m \in DOMAIN r.written \cap DOMAIN t : t[m].outlet = o => Shortened(t, r, m)
    /\ r.at # "find" /\ Head(r.lines).outlet = o => LineReady(t, r)

Undisturbed(w) ==
    ~Idle(w) /\ ~req[w].aborted =>
      \A o \in Works(req[w]) \ overlapped : OwnOutlet(maps, req[w], o)

OneRequest ==
    \A w, v \in Workers :
        w # v /\ ~Idle(w) /\ ~Idle(v) => Works(req[w]) \cap Works(req[v]) \subseteq overlapped

AloneInvariant ==
    /\ OneRequest
    /\ \A o \in Outlets \ overlapped : Dated(maps, o)
    /\ \A w \in Workers : Undisturbed(w)

(* The two tables have the same rows of the outlet.                        *)
SameOutlet(t, u, o) ==
    /\ \A m \in DOMAIN t : t[m].outlet = o => m \in DOMAIN u /\ u[m] = t[m]
    /\ \A m \in DOMAIN u : u[m].outlet = o => m \in DOMAIN t /\ t[m] = u[m]

LEMMA SameDates ==
    ASSUME NEW t, NEW u, NEW o, SameOutlet(t, u, o), Dated(t, o)
    PROVE  Dated(u, o)
  BY DEF SameOutlet, Dated, InOrder, CoversOnce, Covers

LEMMA SameOrder ==
    ASSUME NEW t, NEW u, NEW o, SameOutlet(t, u, o), InOrder(u, o)
    PROVE  InOrder(t, o)
  BY DEF SameOutlet, InOrder

(* A row of the table but not of the outlet is put in.                     *)
LEMMA PutElsewhere ==
    ASSUME NEW t, NEW u, NEW m, NEW row, IsPut(t, u, m, row), NEW o, row.outlet # o,
           m \in DOMAIN t => t[m].outlet # o
    PROVE  SameOutlet(t, u, o)
  BY DEF SameOutlet, IsPut

LEMMA ViewValues ==
    ASSUME NEW t \in Tables, NEW r \in RequestRecord
    PROVE  /\ r.written \in Tables /\ View(t, r) \in Tables
           /\ DOMAIN View(t, r) = DOMAIN t \cup DOMAIN r.written
           /\ \A m \in DOMAIN r.written : View(t, r)[m] = r.written[m]
           /\ \A m \in DOMAIN t \ DOMAIN r.written : View(t, r)[m] = t[m]
  <1>1. PICK f : f = r.written
    OBVIOUS
  <1>2. f \in Tables
    BY <1>1 DEF RequestRecord
  <1>3. Merged(t, f) \in Tables /\ DOMAIN Merged(t, f) = DOMAIN t \cup DOMAIN f
    BY <1>2, MergedIs
  <1>4. \A m \in DOMAIN f : Merged(t, f)[m] = f[m]
    BY <1>2, MergedIs
  <1>5. \A m \in DOMAIN t \ DOMAIN f : Merged(t, f)[m] = t[m]
    BY <1>2, MergedIs
  <1>6. View(t, r) = Merged(t, f)
    BY <1>1 DEF View
  <1> QED
    BY <1>1, <1>2, <1>3, <1>4, <1>5, <1>6

(* Another's commit that is not about the outlet.                          *)
LEMMA OthersOwn ==
    ASSUME NEW t \in Tables, NEW u \in Tables, NEW r \in RequestRecord, NEW o,
           Grounded(t, r), OwnOutlet(t, r, o), SameOutlet(t, u, o),
           r.at \in {"load", "close"} => DOMAIN r.found \subseteq DOMAIN View(t, r),
           DOMAIN t \subseteq DOMAIN u, (DOMAIN u \ DOMAIN t) \cap DOMAIN r.written = {}
    PROVE  OwnOutlet(u, r, o)
  <1> DEFINE old == View(t, r)
             new == View(u, r)
  <1>1. /\ DOMAIN old = DOMAIN t \cup DOMAIN r.written
        /\ \A m \in DOMAIN r.written : old[m] = r.written[m]
        /\ \A m \in DOMAIN t \ DOMAIN r.written : old[m] = t[m]
        /\ DOMAIN new = DOMAIN u \cup DOMAIN r.written
        /\ \A m \in DOMAIN r.written : new[m] = r.written[m]
        /\ \A m \in DOMAIN u \ DOMAIN r.written : new[m] = u[m]
    <2>1. /\ DOMAIN old = DOMAIN t \cup DOMAIN r.written
          /\ \A m \in DOMAIN r.written : old[m] = r.written[m]
          /\ \A m \in DOMAIN t \ DOMAIN r.written : old[m] = t[m]
      BY ViewValues
    <2>2. /\ DOMAIN new = DOMAIN u \cup DOMAIN r.written
          /\ \A m \in DOMAIN r.written : new[m] = r.written[m]
          /\ \A m \in DOMAIN u \ DOMAIN r.written : new[m] = u[m]
      BY ViewValues
    <2> QED
      BY <2>1, <2>2
  <1>2. SameOutlet(old, new, o)
    <2> HIDE DEF old, new
    <2> QED
      BY <1>1 DEF SameOutlet
  <1>3. Dated(new, o)
    <2>1. Dated(old, o)
      BY DEF OwnOutlet
    <2> HIDE DEF old, new
    <2> QED
      BY <1>2, <2>1, SameDates
  <1>4. ASSUME NEW m \in DOMAIN r.written \cap DOMAIN u, u[m].outlet = o
        PROVE  Shortened(u, r, m)
    <2>1. m \in DOMAIN t /\ t[m] = u[m]
      BY <1>4 DEF SameOutlet
    <2>2. Shortened(t, r, m)
      BY <1>4, <2>1 DEF OwnOutlet
    <2> QED
      BY <2>1, <2>2 DEF Shortened
  <1>5. ASSUME r.at # "find", Head(r.lines).outlet = o
        PROVE  LineReady(u, r)
    <2>1. LineReady(t, r)
      BY <1>5 DEF OwnOutlet
    <2>2. ASSUME NEW m \in DOMAIN old, Covers(old[m], o, Head(r.lines).from)
          PROVE  Covers(new[m], o, Head(r.lines).from)
      <3> HIDE DEF old, new
      <3> QED
        BY <1>2, <2>2 DEF SameOutlet, Covers
    <2>3. ASSUME InOrder(new, o), \A m \in DOMAIN old : ~Covers(old[m], o, Head(r.lines).from)
          PROVE  \A m \in DOMAIN new : ~Covers(new[m], o, Head(r.lines).from)
      <3> HIDE DEF old, new
      <3> QED
        BY <1>2, <2>3 DEF SameOutlet, Covers
    <2>4. InOrder(new, o) => InOrder(old, o)
      <3> HIDE DEF old, new
      <3> QED
        BY <1>2, SameOrder
    <2> HIDE DEF InOrder, Covers
    <2> QED
      BY <1>5, <2>1, <2>2, <2>3, <2>4 DEF LineReady
  <1> QED
    BY <1>3, <1>4, <1>5 DEF OwnOutlet

LEMMA HeadIsWorkedOn ==
    ASSUME NEW r \in RequestRecord, r.lines # <<>>
    PROVE  /\ Head(r.lines).outlet \in Works(r)
           /\ OutletsOf(Tail(r.lines)) \subseteq Works(r)
  <1>1. r.lines \in Seq(Line) /\ Len(r.lines) \in Nat /\ Len(r.lines) >= 1
    BY DEF RequestRecord
  <1>2. 1 \in DOMAIN r.lines /\ Head(r.lines) = r.lines[1]
    BY <1>1
  <1>3. \A i \in DOMAIN Tail(r.lines) :
          i + 1 \in DOMAIN r.lines /\ Tail(r.lines)[i] = r.lines[i + 1]
    BY <1>1
  <1> QED
    BY <1>2, <1>3 DEF Works, OutletsOf

LEMMA FindOwns ==
    ASSUME MapsShape, NEW w \in Workers, NEW s, s = req'[w], Find(w), Grounded(maps, req[w]),
           NEW o, OwnOutlet(maps, req[w], o)
    PROVE  OwnOutlet(maps, s, o)
  <1> DEFINE r == req[w]
             line == Head(r.lines)
  <1>1. /\ r \in RequestRecord /\ s \in RequestRecord
        /\ r.at = "find" /\ r.lines # <<>>
        /\ s.lines = r.lines /\ s.written = r.written
        /\ \/ s.at = "insert" /\ Overlaps(w) = {}
           \/ s.at = "load" /\ TakesFound(w, s)
    BY FindIs
  <1>2. ~Idle(w) /\ Visible(w) = View(maps, r) /\ View(maps, s) = View(maps, r)
    BY <1>1, RequestIs, ViewIs DEF View
  <1>3. ASSUME NEW m \in DOMAIN r.written \cap DOMAIN maps, maps[m].outlet = o
        PROVE  Shortened(maps, s, m)
    <2>1. Shortened(maps, r, m)
      BY <1>3 DEF OwnOutlet
    <2> QED
      BY <1>1, <2>1 DEF Shortened, Awaited
  <1>4. LineReady(maps, s)
    <2>1. CASE s.at = "insert" /\ Overlaps(w) = {}
      <3>1. \A m \in DOMAIN View(maps, s) :
              ~Covers(View(maps, s)[m], line.outlet, line.from)
        BY <1>2, <2>1 DEF Overlaps
      <3> HIDE DEF InOrder, Covers
      <3> QED
        BY <1>1, <2>1, <3>1 DEF LineReady
    <2>2. CASE s.at = "load" /\ TakesFound(w, s)
      <3>1. PICK m \in Overlaps(w) : s.found = [i \in {m} |-> Ended(Visible(w)[m], line)]
        BY <2>2 DEF TakesFound
      <3>2. Covers(View(maps, s)[m], line.outlet, line.from) /\ DOMAIN s.found = {m}
        BY <1>2, <3>1 DEF Overlaps
      <3> HIDE DEF InOrder, Covers
      <3> QED
        BY <1>1, <2>2, <3>2 DEF LineReady
    <2> QED
      BY <1>1, <2>1, <2>2
  <1> QED
    BY <1>1, <1>2, <1>3, <1>4 DEF OwnOutlet

LEMMA LoadOwns ==
    ASSUME MapsShape, NEW w \in Workers, NEW s, s = req'[w], Load(w), Grounded(maps, req[w]),
           NEW o, OwnOutlet(maps, req[w], o)
    PROVE  OwnOutlet(maps, s, o)
  <1> DEFINE r == req[w]
             line == Head(r.lines)
  <1>0. r.at = "load" /\ r.lines # <<>> /\ ~Idle(w)
    BY DEF Load, Grounded, Idle
  <1>1. PICK m \in Ids : FindsRow(maps, r, m)
    BY <1>0 DEF Grounded, FoundKnown
  <1>2. /\ r \in RequestRecord /\ s \in RequestRecord
        /\ s.lines = r.lines /\ s.found = r.found /\ s.written = r.written
        /\ s.diff = Differing(Ended(Visible(w)[m], line), Visible(w)[m])
        /\ s.at = "close" \/ (s.at = "insert" /\ s.diff = {})
    BY <1>1, LoadIs
  <1>3. Visible(w) = View(maps, r) /\ View(maps, s) = View(maps, r)
        /\ Visible(w) \in Tables
    BY <1>0, <1>2, ViewIs DEF View
  <1>4. ASSUME NEW k \in DOMAIN r.written \cap DOMAIN maps, maps[k].outlet = o
        PROVE  Shortened(maps, s, k)
    <2>1. Shortened(maps, r, k)
      BY <1>4 DEF OwnOutlet
    <2> QED
      BY <1>0, <1>2, <2>1 DEF Shortened, Awaited
  <1>5. ASSUME line.outlet = o
        PROVE  LineReady(maps, s)
    <2>1. LineReady(maps, r)
      BY <1>0, <1>5 DEF OwnOutlet
    <2>2. m \in DOMAIN Visible(w) /\ DOMAIN r.found = {m}
      BY <1>1, <1>3 DEF FindsRow
    <2>3. Covers(Visible(w)[m], line.outlet, line.from)
      BY <1>0, <1>3, <2>1, <2>2 DEF LineReady
    <2>4. Visible(w)[m] \in Row /\ Visible(w)[m].to \in Int /\ Visible(w)[m].from \in Int
      BY <1>3, <2>2, TableTypes
    <2>5. r.lines \in Seq(Line)
      BY <1>2 DEF RequestRecord
    <2>6. PrevDay(line.from) < line.from /\ PrevDay(line.from) \in Int /\ line.from \in Int
      BY <1>0, <2>5, LineTypes
    <2>7. Visible(w)[m].to # PrevDay(line.from)
      BY <2>3, <2>4, <2>6 DEF Covers
    <2>8. "to" \in s.diff
      <3>1. "to" \in DOMAIN Visible(w)[m] /\ Visible(w)[m]["to"] # PrevDay(line.from)
        BY <2>4, <2>7 DEF Row
      <3>2. Ended(Visible(w)[m], line)["to"] = PrevDay(line.from)
        BY DEF Ended
      <3> QED
        BY <1>2, <3>1, <3>2 DEF Differing
    <2>9. s.at = "close"
      BY <1>2, <2>8
    <2> HIDE DEF Covers, InOrder
    <2> QED
      BY <1>2, <1>3, <2>2, <2>3, <2>8, <2>9 DEF LineReady
  <1> QED
    BY <1>0, <1>2, <1>3, <1>4, <1>5 DEF OwnOutlet

(* A row of the outlet ends earlier, and nothing else changes.             *)
LEMMA EndsEarlier ==
    ASSUME NEW t \in Tables, NEW u, NEW m \in DOMAIN t, NEW row, IsPut(t, u, m, row),
           row.outlet = t[m].outlet, row.from = t[m].from, row.to \in Int,
           row.to <= t[m].to, NEW o
    PROVE  /\ Dated(t, o) => Dated(u, o)
           /\ InOrder(u, o) => InOrder(t, o)
  <1>1. DOMAIN u = DOMAIN t /\ u[m] = row /\ \A k \in DOMAIN t \ {m} : u[k] = t[k]
    BY DEF IsPut
  <1>2. \A k \in DOMAIN t : u[k].outlet = t[k].outlet /\ u[k].from = t[k].from
    BY <1>1
  <1>3. InOrder(u, o) <=> InOrder(t, o)
    BY <1>1, <1>2 DEF InOrder
  <1>4. \A k \in DOMAIN t : t[k].to \in Int
    BY TableTypes
  <1>5. \A day \in Days : day \in Int
    BY DEF Days
  <1>6. \A k \in DOMAIN t, day \in Days : Covers(u[k], o, day) => Covers(t[k], o, day)
    <2>1. SUFFICES ASSUME NEW day \in Days, Covers(u[m], o, day) PROVE Covers(t[m], o, day)
      BY <1>1
    <2>2. day <= t[m].to
      BY <1>1, <1>4, <1>5, <2>1 DEF Covers
    <2> QED
      BY <1>2, <2>1, <2>2 DEF Covers
  <1>7. CoversOnce(t, o) => CoversOnce(u, o)
    BY <1>1, <1>6 DEF CoversOnce
  <1> QED
    BY <1>3, <1>7 DEF Dated

LEMMA CloseOwns ==
    ASSUME MapsShape, NEW w \in Workers, NEW s, s = req'[w], Close(w), Grounded(maps, req[w]),
           NEW o, OwnOutlet(maps, req[w], o)
    PROVE  OwnOutlet(maps, s, o)
  <1> DEFINE r == req[w]
             line == Head(r.lines)
             old == View(maps, r)
             new == View(maps, s)
  <1>0. r.at = "close" /\ r.lines # <<>> /\ ~Idle(w)
    BY DEF Close, Grounded, Idle
  <1>1. PICK m \in Ids : FindsRow(maps, r, m)
    BY <1>0 DEF Grounded, FoundKnown
  <1>2. PICK row : row = Closed(Visible(w)[m], line, r.diff)
    OBVIOUS
  <1>3. /\ r \in RequestRecord /\ s \in RequestRecord /\ s.at = "insert"
        /\ s.lines = r.lines
        /\ s.written = Put(r.written, m, row)
        /\ row \in Row
    BY <1>0, <1>1, <1>2, CloseIs
  <1>4. Visible(w) = old /\ old \in Tables /\ r.written \in Tables /\ maps \in Tables
    BY <1>0, ViewIs
  <1>5. m \in DOMAIN old /\ old[m].outlet = line.outlet /\ DOMAIN r.found = {m}
    BY <1>1 DEF FindsRow
  <1>6. IsPut(r.written, s.written, m, row) /\ IsPut(old, new, m, row)
    BY <1>3, <1>4, ViewAfterWrite
  <1>7. row.outlet = line.outlet /\ row.from = old[m].from
        /\ ("to" \in r.diff => row.to = PrevDay(line.from))
    BY <1>2, <1>4, <1>5 DEF Closed
  <1>8. r.lines \in Seq(Line)
    BY <1>3 DEF RequestRecord
  <1>9. PrevDay(line.from) < line.from /\ PrevDay(line.from) \in Int /\ line.from \in Int
        /\ line.from \in Days
    BY <1>0, <1>8, LineTypes
  <1>10. /\ DOMAIN old = DOMAIN maps \cup DOMAIN r.written
         /\ \A k \in DOMAIN r.written : old[k] = r.written[k]
         /\ \A k \in DOMAIN maps \ DOMAIN r.written : old[k] = maps[k]
    BY <1>3, <1>4, ViewValues
  <1>11. \A k \in DOMAIN r.written \cap DOMAIN maps :
           r.written[k].outlet = maps[k].outlet /\ r.written[k].from = maps[k].from
    BY DEF Grounded, WritesKnown
  <1>12. /\ DOMAIN s.written = DOMAIN r.written \cup {m} /\ s.written[m] = row
         /\ \A k \in DOMAIN r.written \ {m} : s.written[k] = r.written[k]
         /\ DOMAIN new = DOMAIN old /\ new[m] = row
         /\ \A k \in DOMAIN old \ {m} : new[k] = old[k]
    <2> HIDE DEF old, new
    <2> QED
      BY <1>5, <1>6 DEF IsPut
  (* Successors written already stay.                                      *)
  <1>13. ASSUME NEW k \in DOMAIN r.written \cap DOMAIN maps, k # m, maps[k].outlet = o
         PROVE  Shortened(maps, s, k)
    <2>1. Shortened(maps, r, k)
      BY <1>13 DEF OwnOutlet
    <2>2. s.written[k] = r.written[k]
      BY <1>12, <1>13
    <2>3. PICK n \in DOMAIN r.written \ DOMAIN maps :
            Succeeds(r.written[n], r.written[k])
      BY <1>0, <2>1 DEF Shortened, Awaited
    <2>4. n \in DOMAIN s.written \ DOMAIN maps
      BY <1>12
    <2>5. s.written[n].outlet = r.written[n].outlet /\ s.written[n].from = r.written[n].from
      <3>1. CASE n = m
        <4>1. old[m] = r.written[m]
          BY <1>10, <3>1
        <4> HIDE DEF old
        <4> QED
          BY <1>5, <1>7, <1>12, <3>1, <4>1
      <3>2. CASE n # m
        BY <1>12, <3>2
      <3> QED
        BY <3>1, <3>2
    <2>6. Succeeds(s.written[n], s.written[k])
      BY <2>2, <2>3, <2>5 DEF Succeeds
    <2> QED
      BY <2>1, <2>2, <2>4, <2>6 DEF Shortened
  <1>14. CASE line.outlet # o
    <2>1. SameOutlet(old, new, o)
      <3> HIDE DEF old, new
      <3> QED
        BY <1>5, <1>6, <1>7, <1>14, PutElsewhere
    <2>2. Dated(new, o)
      <3>1. Dated(old, o)
        BY DEF OwnOutlet
      <3> HIDE DEF old, new
      <3> QED
        BY <2>1, <3>1, SameDates
    <2>3. ASSUME NEW k \in DOMAIN s.written \cap DOMAIN maps, maps[k].outlet = o
          PROVE  Shortened(maps, s, k)
      <3>1. old[k].outlet = o
        BY <1>10, <1>11, <2>3
      <3>2. k # m
        BY <1>5, <1>14, <3>1
      <3> QED
        BY <1>12, <1>13, <2>3, <3>2
    <2> QED
      BY <1>3, <1>14, <2>2, <2>3 DEF OwnOutlet
  <1>15. CASE line.outlet = o
    <2>1. LineReady(maps, r)
      BY <1>0, <1>15 DEF OwnOutlet
    <2>2. Covers(old[m], o, line.from) /\ "to" \in r.diff
      <3> HIDE DEF InOrder, Covers
      <3> QED
        BY <1>0, <1>5, <1>15, <2>1 DEF LineReady
    <2>3. row.to = PrevDay(line.from)
      BY <1>7, <2>2
    <2>4. old[m].to \in Int /\ old[m].from \in Int
      BY <1>4, <1>5, TableTypes
    <2>5. row.to \in Int /\ row.to < old[m].to
      BY <1>9, <2>2, <2>3, <2>4 DEF Covers
    <2>6. Dated(new, o) /\ (InOrder(new, o) => InOrder(old, o))
      <3>1. Dated(old, o)
        BY DEF OwnOutlet
      <3>2. row.to <= old[m].to
        BY <2>4, <2>5
      <3> HIDE DEF old, new
      <3> QED
        BY <1>4, <1>5, <1>6, <1>7, <2>5, <3>1, <3>2, EndsEarlier
    <2>7. Shortened(maps, s, m) \/ m \notin DOMAIN maps
      <3>1. SUFFICES ASSUME m \in DOMAIN maps PROVE Shortened(maps, s, m)
        OBVIOUS
      <3>2. maps[m].to \in Int
        BY <1>4, <3>1, TableTypes
      <3>3. old[m].to <= maps[m].to
        <4>1. CASE m \in DOMAIN r.written
          <5>1. old[m] = r.written[m]
            BY <1>10, <4>1
          <5>2. maps[m].outlet = o
            BY <1>5, <1>11, <1>15, <3>1, <4>1, <5>1
          <5>3. r.written[m].to < maps[m].to
            BY <3>1, <4>1, <5>2 DEF OwnOutlet, Shortened
          <5> QED
            BY <2>4, <3>2, <5>1, <5>3
        <4>2. CASE m \notin DOMAIN r.written
          BY <1>10, <2>4, <3>1, <4>2
        <4> QED
          BY <4>1, <4>2
      <3>4. s.written[m].to < maps[m].to
        BY <1>12, <2>4, <2>5, <3>2, <3>3
      <3>5. Awaited(s, s.written[m])
        BY <1>3, <1>7, <1>12, <1>15, <2>3 DEF Awaited, Succeeds
      <3> QED
        BY <3>4, <3>5 DEF Shortened
    <2>8. ASSUME NEW k \in DOMAIN s.written \cap DOMAIN maps, maps[k].outlet = o
          PROVE  Shortened(maps, s, k)
      <3>1. CASE k = m
        BY <2>7, <2>8, <3>1
      <3>2. CASE k # m
        BY <1>12, <1>13, <2>8, <3>2
      <3> QED
        BY <3>1, <3>2
    <2>9. LineReady(maps, s)
      <3>1. ASSUME InOrder(new, o), NEW k \in DOMAIN new, Covers(new[k], o, line.from)
            PROVE  FALSE
        <4>1. k # m
          BY <1>9, <1>12, <2>3, <3>1 DEF Covers
        <4>2. k \in DOMAIN old /\ Covers(old[k], o, line.from)
          BY <1>12, <3>1, <4>1
        <4>3. CoversOnce(old, o)
          BY <2>6, <3>1 DEF OwnOutlet, Dated
        <4> HIDE DEF old
        <4> QED
          BY <1>5, <1>9, <2>2, <4>1, <4>2, <4>3 DEF CoversOnce
      <3> HIDE DEF InOrder, Covers
      <3> QED
        BY <1>3, <1>15, <3>1 DEF LineReady
    <2> QED
      BY <2>6, <2>8, <2>9 DEF OwnOutlet
  <1> QED
    BY <1>14, <1>15

(* The new row has the greatest id, and the rows before it end before it.  *)
LEMMA NewRowFollows ==
    ASSUME NEW t \in Tables, NEW u, NEW n \in Ids, NEW row \in Row, IsPut(t, u, n, row),
           \A k \in DOMAIN t : k < n,
           CoversOnce(t, row.outlet), InOrder(u, row.outlet),
           \A k \in DOMAIN t : ~Covers(t[k], row.outlet, row.from)
    PROVE  CoversOnce(u, row.outlet)
  <1> DEFINE o == row.outlet
  <1>1. n \in Nat /\ row.from \in Int /\ \A day \in Days : day \in Int
    <2>1. LastDay \in Nat
      BY ListsAssumption
    <2> QED
      BY <2>1 DEF Ids, Row, Days
  <1>2. n \notin DOMAIN t
    BY <1>1
  <1>3. DOMAIN u = DOMAIN t \cup {n} /\ u[n] = row /\ \A k \in DOMAIN t : u[k] = t[k]
    BY <1>2 DEF IsPut
  <1>4. ASSUME NEW k \in DOMAIN t, NEW day \in Days,
               Covers(t[k], o, day), Covers(row, o, day)
        PROVE  FALSE
    <2>1. t[k].outlet = o /\ t[k].from \in Int /\ t[k].to \in Int
      BY <1>4, TableTypes DEF Covers
    <2>2. t[k].from < row.from
      BY <1>3, <2>1 DEF InOrder
    <2>3. ~(row.from <= t[k].to)
      BY <1>1, <2>1, <2>2 DEF Covers
    <2> QED
      BY <1>1, <1>4, <2>1, <2>3 DEF Covers
  <1>5. \A k \in DOMAIN u : k \in DOMAIN t \/ k = n
    BY <1>3
  <1> HIDE DEF o
  <1>6. CoversOnce(u, o)
    <2>1. SUFFICES ASSUME NEW k \in DOMAIN u, NEW l \in DOMAIN u, NEW day \in Days,
                          Covers(u[k], o, day), Covers(u[l], o, day)
                   PROVE  k = l
      BY DEF CoversOnce
    <2>2. CASE k \in DOMAIN t /\ l \in DOMAIN t
      BY <1>3, <2>1, <2>2 DEF CoversOnce, o
    <2>3. CASE k \in DOMAIN t /\ l = n
      BY <1>3, <1>4, <2>1, <2>3
    <2>4. CASE k = n /\ l \in DOMAIN t
      BY <1>3, <1>4, <2>1, <2>4
    <2> QED
      BY <1>5, <2>2, <2>3, <2>4
  <1> QED
    BY <1>6 DEF o

LEMMA InsertOwns ==
    ASSUME MapsShape, IdsBounded, NEW w \in Workers, NEW s, s = req'[w], Insert(w),
           Grounded(maps, req[w]), NEW o, OwnOutlet(maps, req[w], o)
    PROVE  OwnOutlet(maps, s, o)
  <1> DEFINE r == req[w]
             line == Head(r.lines)
             old == View(maps, r)
             new == View(maps, s)
  <1>0. r.at = "insert" /\ r.lines # <<>> /\ ~Idle(w)
    BY DEF Insert, Grounded, Idle
  <1>1. PICK id : id = NextId
    OBVIOUS
  <1>2. PICK row : row = NewRow(line)
    OBVIOUS
  <1>3. /\ r \in RequestRecord /\ s \in RequestRecord /\ s.at = "find"
        /\ s.written = Put(r.written, id, row)
        /\ row \in Row /\ id \in Ids /\ id \notin UsedIds
    BY <1>0, <1>1, <1>2, InsertIs
  <1>4. old \in Tables /\ r.written \in Tables /\ maps \in Tables
        /\ DOMAIN old = DOMAIN maps \cup DOMAIN r.written
    BY <1>0, ViewIs
  <1>5. id \notin DOMAIN maps /\ id \notin DOMAIN r.written
        /\ \A k \in DOMAIN old : k < id
    BY <1>0, <1>1, <1>3, <1>4, NextIdIs DEF UsedIds, Inserted
  <1>6. IsPut(r.written, s.written, id, row) /\ IsPut(old, new, id, row)
    BY <1>3, <1>4, ViewAfterWrite
  <1>7. DOMAIN s.written = DOMAIN r.written \cup {id} /\ s.written[id] = row
        /\ \A k \in DOMAIN r.written : s.written[k] = r.written[k]
    BY <1>5, <1>6 DEF IsPut
  <1>8. row.outlet = line.outlet /\ row.from = line.from
    BY <1>2 DEF NewRow
  <1>9. ASSUME NEW k \in DOMAIN s.written \cap DOMAIN maps, maps[k].outlet = o
        PROVE  Shortened(maps, s, k)
    <2>1. k \in DOMAIN r.written /\ s.written[k] = r.written[k]
      BY <1>5, <1>7, <1>9
    <2>2. Shortened(maps, r, k)
      BY <1>9, <2>1 DEF OwnOutlet
    <2>3. CASE \E n \in DOMAIN r.written \ DOMAIN maps : Succeeds(r.written[n], r.written[k])
      <3>1. \E n \in DOMAIN s.written \ DOMAIN maps : Succeeds(s.written[n], s.written[k])
        BY <1>7, <2>1, <2>3
      <3> QED
        BY <2>1, <2>2, <3>1 DEF Shortened
    <2>4. CASE Awaited(r, r.written[k])
      <3>1. Succeeds(s.written[id], s.written[k]) /\ id \in DOMAIN s.written \ DOMAIN maps
        BY <1>5, <1>7, <1>8, <2>1, <2>4 DEF Awaited, Succeeds
      <3> QED
        BY <2>1, <2>2, <3>1 DEF Shortened
    <2> QED
      BY <2>2, <2>3, <2>4 DEF Shortened
  <1>10. Dated(old, o)
    BY DEF OwnOutlet
  <1>11. Dated(new, o)
    <2>1. CASE line.outlet # o
      <3>1. SameOutlet(old, new, o)
        <4>1. id \notin DOMAIN old /\ row.outlet # o
          BY <1>4, <1>5, <1>8, <2>1
        <4> HIDE DEF old, new
        <4> QED
          BY <1>6, <4>1, PutElsewhere
      <3> HIDE DEF old, new
      <3> QED
        BY <1>10, <3>1, SameDates
    <2>2. CASE line.outlet = o
      <3>1. SUFFICES ASSUME InOrder(new, o) PROVE CoversOnce(new, o)
        BY DEF Dated
      <3>2. InOrder(old, o)
        <4>1. id \notin DOMAIN old
          BY <1>4, <1>5
        <4> HIDE DEF old, new
        <4> QED
          BY <1>6, <3>1, <4>1 DEF InOrder, IsPut
      <3>3. CoversOnce(old, o)
        BY <1>10, <3>2 DEF Dated
      <3>4. LineReady(maps, r)
        BY <1>0, <2>2 DEF OwnOutlet
      <3>5. \A k \in DOMAIN old : ~Covers(old[k], o, line.from)
        <4> HIDE DEF InOrder, Covers
        <4> QED
          BY <1>0, <2>2, <3>2, <3>4 DEF LineReady
      <3> HIDE DEF old, new
      <3> QED
        BY <1>3, <1>4, <1>5, <1>6, <1>8, <2>2, <3>1, <3>3, <3>5, NewRowFollows
    <2> QED
      BY <2>1, <2>2
  <1> QED
    BY <1>3, <1>9, <1>11 DEF OwnOutlet

(* A step of w that commits nothing: the request stays among its outlets,  *)
(* and has made of its own what it should.                                 *)
KeepsToItself(w, s, shared) ==
    /\ \A v \in Workers \ {w} : ~Idle(v) => Works(s) \cap Works(req[v]) \subseteq shared
    /\ ~s.aborted => \A o \in Works(s) \ shared : OwnOutlet(maps, s, o)

LEMMA StatementWorks ==
    ASSUME MapsInvariant, NEW w \in Workers, NEW s, s = req'[w],
           Find(w) \/ Load(w) \/ Close(w) \/ Insert(w) \/ InsertFails(w)
    PROVE  s = NoRequest \/ Works(s) \subseteq Works(req[w])
  <1> DEFINE r == req[w]
             line == Head(r.lines)
  <1>1. ~Idle(w) /\ r.lines # <<>>
    BY DEF Idle, Find, Load, Close, Insert, InsertFails, MapsInvariant, Grounded
  <1>2. MapsShape /\ IdsBounded /\ Grounded(maps, r)
    BY <1>1 DEF MapsInvariant
  <1>3. r \in RequestRecord /\ r.written \in Tables
    BY <1>1, <1>2, ViewIs
  <1>4. line.outlet \in Works(r) /\ OutletsOf(Tail(r.lines)) \subseteq Works(r)
        /\ OutletsOf(r.lines) \subseteq Works(r)
    BY <1>1, <1>3, HeadIsWorkedOn DEF Works
  <1>5. ASSUME NEW m, NEW row, IsPut(r.written, s.written, m, row), row.outlet = line.outlet,
               OutletsOf(s.lines) \subseteq Works(r)
        PROVE  Works(s) \subseteq Works(r)
    <2>1. \A k \in DOMAIN s.written : s.written[k].outlet \in Works(r)
      BY <1>4, <1>5 DEF IsPut, Works
    <2> QED
      BY <1>5, <2>1 DEF Works
  <1>6. CASE Find(w)
    <2>1. s.lines = r.lines /\ s.written = r.written
      BY <1>2, <1>6, FindIs
    <2> QED
      BY <2>1 DEF Works
  <1>7. CASE Load(w)
    <2>1. PICK m \in Ids : FindsRow(maps, r, m)
      BY <1>2, <1>7 DEF Grounded, FoundKnown, Load
    <2>2. s.lines = r.lines /\ s.written = r.written
      BY <1>2, <1>7, <2>1, LoadIs
    <2> QED
      BY <2>2 DEF Works
  <1>8. CASE Close(w)
    <2>1. r.at = "close"
      BY <1>8 DEF Close
    <2>2. PICK m \in Ids : FindsRow(maps, r, m)
      BY <1>2, <2>1 DEF Grounded, FoundKnown
    <2>3. PICK row : row = Closed(Visible(w)[m], line, r.diff)
      OBVIOUS
    <2>4. s.lines = r.lines /\ s.written = Put(r.written, m, row) /\ row \in Row
      BY <1>1, <1>2, <1>8, <2>2, <2>3, CloseIs
    <2>5. IsPut(r.written, s.written, m, row)
      BY <1>3, <2>4, PutIs
    <2>6. row.outlet = line.outlet
      <3>1. Visible(w)[m].outlet = line.outlet
        BY <1>1, <1>2, <2>2, ViewIs DEF FindsRow
      <3> QED
        BY <2>3, <3>1 DEF Closed
    <2> QED
      BY <1>4, <1>5, <2>4, <2>5, <2>6
  <1>9. CASE Insert(w)
    <2>1. PICK row : row = NewRow(line)
      OBVIOUS
    <2>2. s.lines = Tail(r.lines) /\ s.written = Put(r.written, NextId, row)
          /\ row \in Row /\ NextId \in Ids
      BY <1>1, <1>2, <1>9, <2>1, InsertIs
    <2>3. IsPut(r.written, s.written, NextId, row)
      BY <1>3, <2>2, PutIs
    <2> QED
      BY <1>4, <1>5, <2>1, <2>2, <2>3 DEF NewRow
  <1>10. CASE InsertFails(w)
    <2>1. s = NoRequest \/ (s.lines = Tail(r.lines) /\ s.written = r.written)
      BY <1>1, <1>2, <1>10, InsertFailsIs
    <2> QED
      BY <1>4, <2>1 DEF Works
  <1> QED
    BY <1>6, <1>7, <1>8, <1>9, <1>10

LEMMA StatementOwns ==
    ASSUME MapsInvariant, NEW w \in Workers, NEW s, s = req'[w],
           Find(w) \/ Load(w) \/ Close(w) \/ Insert(w) \/ InsertFails(w),
           s # NoRequest, ~s.aborted, NEW o, OwnOutlet(maps, req[w], o)
    PROVE  OwnOutlet(maps, s, o)
  <1>1. ~Idle(w) /\ req[w].lines # <<>>
    BY DEF Idle, Find, Load, Close, Insert, InsertFails, MapsInvariant, Grounded
  <1>2. MapsShape /\ IdsBounded /\ Grounded(maps, req[w])
    BY <1>1 DEF MapsInvariant
  <1>3. ~InsertFails(w)
    BY <1>1, <1>2, InsertFailsIs
  <1> QED
    BY <1>2, <1>3, FindOwns, LoadOwns, CloseOwns, InsertOwns

LEMMA StatementKeeps ==
    ASSUME MapsInvariant, AloneInvariant, NEW w \in Workers,
           Find(w) \/ Load(w) \/ Close(w) \/ Insert(w) \/ InsertFails(w)
    PROVE  req'[w] = NoRequest \/ KeepsToItself(w, req'[w], overlapped)
  <1>1. PICK s : s = req'[w]
    OBVIOUS
  <1>2. ~Idle(w) /\ ~req[w].aborted
    BY DEF Idle, Find, Load, Close, Insert, InsertFails, MapsInvariant, Grounded
  <1>3. OneRequest /\ Undisturbed(w)
    BY DEF AloneInvariant
  <1>4. SUFFICES ASSUME s # NoRequest PROVE KeepsToItself(w, s, overlapped)
    BY <1>1
  <1>5. Works(s) \subseteq Works(req[w])
    BY <1>1, <1>4, StatementWorks
  <1>6. ASSUME ~s.aborted, NEW o \in Works(s) \ overlapped
        PROVE  OwnOutlet(maps, s, o)
    <2>1. OwnOutlet(maps, req[w], o)
      BY <1>2, <1>3, <1>5, <1>6 DEF Undisturbed
    <2> QED
      BY <1>1, <1>4, <1>6, <2>1, StatementOwns
  <1>7. \A v \in Workers \ {w} : ~Idle(v) => Works(s) \cap Works(req[v]) \subseteq overlapped
    BY <1>2, <1>3, <1>5 DEF OneRequest
  <1> QED
    BY <1>6, <1>7 DEF KeepsToItself

LEMMA OpenKeeps ==
    ASSUME MapsInvariant, AloneInvariant, NEW w \in Workers,
           NEW lines \in Lists, NEW bulk \in BOOLEAN, Open(w, lines, bulk)
    PROVE  KeepsToItself(w, req'[w], overlapped')
  <1>1. PICK s : s = req'[w]
    OBVIOUS
  <1>2. PICK shared : shared = overlapped'
    OBVIOUS
  <1>3. MapsShape /\ maps \in Tables
    BY DEF MapsInvariant, MapsShape
  <1>4. /\ s.lines = lines /\ s.written = NoRows /\ s.at = "find"
        /\ shared = overlapped \cup
             (OutletsOf(lines) \cap UNION {WorksOn(v) : v \in Others(w)})
    BY <1>1, <1>2, <1>3, OpenIs
  <1>5. View(maps, s) = maps /\ DOMAIN s.written = {}
    BY <1>3, <1>4, NothingWritten
  <1>6. Works(s) = OutletsOf(lines)
    BY <1>4, <1>5 DEF Works
  <1>7. ASSUME NEW v \in Workers \ {w}, ~Idle(v)
        PROVE  Works(s) \cap Works(req[v]) \subseteq shared
    <2>1. v \in Others(w) /\ WorksOn(v) = Works(req[v])
      BY <1>7 DEF Others, WorksOn, Works
    <2> QED
      BY <1>4, <1>6, <2>1
  <1>8. ASSUME NEW o \in Works(s) \ shared
        PROVE  OwnOutlet(maps, s, o)
    <2>1. Dated(maps, o)
      BY <1>4, <1>6, <1>8, ListedOutlet DEF AloneInvariant
    <2> QED
      BY <1>4, <1>5, <2>1 DEF OwnOutlet
  <1> QED
    BY <1>1, <1>2, <1>7, <1>8 DEF KeepsToItself

(* A step that commits nothing.                                            *)
LEMMA KeptAlone ==
    ASSUME AloneInvariant, NEW w \in Workers, OnlyChanges(w), maps' = maps,
           overlapped \subseteq overlapped',
           req'[w] = NoRequest \/ KeepsToItself(w, req'[w], overlapped')
    PROVE  AloneInvariant'
  <1>1. /\ OneRequest /\ \A v \in Workers : Undisturbed(v)
        /\ \A o \in Outlets \ overlapped : Dated(maps, o)
    BY DEF AloneInvariant
  <1>2. PICK s : s = req'[w]
    OBVIOUS
  <1>3. PICK shared : shared = overlapped'
    OBVIOUS
  <1>4. s = NoRequest \/ KeepsToItself(w, s, shared)
    BY <1>2, <1>3
  <1>5. \A v \in Workers \ {w} : req'[v] = req[v]
    BY DEF OnlyChanges
  <1>6. \A v \in Workers : ~Idle(v)' => v = w \/ ~Idle(v)
    BY <1>5 DEF Idle
  <1>7. ~Idle(w)' => KeepsToItself(w, s, shared)
    BY <1>2, <1>4 DEF Idle, NoRequest
  <1>8. OneRequest'
    <2>1. SUFFICES ASSUME NEW u \in Workers, NEW v \in Workers, u # v, ~Idle(u)', ~Idle(v)'
                   PROVE  Works(req'[u]) \cap Works(req'[v]) \subseteq overlapped'
      BY DEF OneRequest, Works, OutletsOf
    <2>2. CASE u = w
      <3>1. ~Idle(v) /\ req'[v] = req[v] /\ v \in Workers \ {w}
        BY <1>5, <1>6, <2>1, <2>2
      <3>2. Works(s) \cap Works(req[v]) \subseteq shared
        BY <1>7, <2>1, <2>2, <3>1 DEF KeepsToItself
      <3> QED
        BY <1>2, <1>3, <2>2, <3>1, <3>2
    <2>3. CASE v = w
      <3>1. ~Idle(u) /\ req'[u] = req[u] /\ u \in Workers \ {w}
        BY <1>5, <1>6, <2>1, <2>3
      <3>2. Works(s) \cap Works(req[u]) \subseteq shared
        BY <1>7, <2>1, <2>3, <3>1 DEF KeepsToItself
      <3> QED
        BY <1>2, <1>3, <2>3, <3>1, <3>2
    <2>4. CASE u # w /\ v # w
      <3>1. ~Idle(u) /\ req'[u] = req[u] /\ ~Idle(v) /\ req'[v] = req[v]
        BY <1>5, <1>6, <2>1, <2>4
      <3> QED
        BY <1>1, <2>1, <3>1 DEF OneRequest
    <2> QED
      BY <2>2, <2>3, <2>4
  <1>9. ASSUME NEW v \in Workers PROVE Undisturbed(v)'
    <2>1. SUFFICES ASSUME ~Idle(v)', ~req'[v].aborted, NEW o \in Works(req'[v]) \ overlapped'
                   PROVE  OwnOutlet(maps, req'[v], o)
      BY DEF Undisturbed, Works, OutletsOf, OwnOutlet, LineReady, Shortened, Awaited,
             Succeeds, View, Merged
    <2>2. CASE v = w
      BY <1>2, <1>3, <1>7, <2>1, <2>2 DEF KeepsToItself
    <2>3. CASE v # w
      <3>1. ~Idle(v) /\ req'[v] = req[v]
        BY <1>5, <1>6, <2>1, <2>3
      <3> QED
        BY <1>1, <2>1, <3>1 DEF Undisturbed
    <2> QED
      BY <2>2, <2>3
  <1>10. \A o \in Outlets \ overlapped' : Dated(maps', o)
    BY <1>1
  <1> QED
    BY <1>8, <1>9, <1>10 DEF AloneInvariant

(* A commit is about the outlets the request worked on.                    *)
LEMMA PublishedElsewhere ==
    ASSUME NEW t \in Tables, NEW r \in RequestRecord, WritesKnown(t, r),
           NEW o, o \notin Works(r)
    PROVE  SameOutlet(t, View(t, r), o)
  <1>1. PICK u : u = View(t, r)
    OBVIOUS
  <1>2. /\ DOMAIN u = DOMAIN t \cup DOMAIN r.written
        /\ \A m \in DOMAIN r.written : u[m] = r.written[m]
        /\ \A m \in DOMAIN t \ DOMAIN r.written : u[m] = t[m]
    BY <1>1, ViewValues
  <1>3. \A m \in DOMAIN r.written : r.written[m].outlet # o
    BY DEF Works
  <1>4. \A m \in DOMAIN r.written \cap DOMAIN t : t[m].outlet # o
    BY <1>3 DEF WritesKnown
  <1> QED
    BY <1>1, <1>2, <1>3, <1>4 DEF SameOutlet

LEMMA PublishedAlone ==
    ASSUME MapsInvariant, AloneInvariant, NEW w \in Workers, OnlyChanges(w), Publishes(w),
           overlapped \subseteq overlapped'
    PROVE  AloneInvariant'
  <1>1. /\ OneRequest /\ \A v \in Workers : Undisturbed(v)
        /\ \A o \in Outlets \ overlapped : Dated(maps, o)
    BY DEF AloneInvariant
  <1>2. /\ MapsShape /\ InsertsApart
        /\ \A v \in Workers : ~Idle(v) => Grounded(maps, req[v])
    BY DEF MapsInvariant
  <1>3. /\ ~Idle(w) /\ req[w].at = "find" /\ ~req[w].aborted
        /\ maps' = Visible(w) /\ req'[w] = NoRequest
        /\ \A v \in Workers \ {w} : req'[v] = req[v]
    BY DEF Publishes, OnlyChanges
  <1>4. PICK u : u = maps'
    OBVIOUS
  <1>5. PICK shared : shared = overlapped'
    OBVIOUS
  <1>6. /\ maps \in Tables /\ u \in Tables /\ u = View(maps, req[w])
        /\ req[w] \in RequestRecord /\ DOMAIN u = DOMAIN maps \cup DOMAIN req[w].written
    BY <1>2, <1>3, <1>4, ViewIs
  <1>7. \A o : o \notin Works(req[w]) => SameOutlet(maps, u, o)
    <2>1. WritesKnown(maps, req[w])
      BY <1>2, <1>3 DEF Grounded
    <2> QED
      BY <1>6, <2>1, PublishedElsewhere
  <1>8. ASSUME NEW o \in Outlets \ shared PROVE Dated(u, o)
    <2>1. o \notin overlapped
      BY <1>5, <1>8
    <2>2. CASE o \in Works(req[w])
      <3>1. OwnOutlet(maps, req[w], o)
        BY <1>1, <1>3, <2>1, <2>2 DEF Undisturbed
      <3> QED
        BY <1>6, <3>1 DEF OwnOutlet
    <2>3. CASE o \notin Works(req[w])
      <3>1. SameOutlet(maps, u, o) /\ Dated(maps, o)
        BY <1>1, <1>7, <1>8, <2>1, <2>3
      <3> QED
        BY <3>1, SameDates
    <2> QED
      BY <2>2, <2>3
  <1>9. ASSUME NEW v \in Workers, ~Idle(v)'
        PROVE  v # w /\ ~Idle(v) /\ req'[v] = req[v]
    <2>1. v # w
      BY <1>3, <1>9 DEF Idle, NoRequest
    <2> QED
      BY <1>3, <1>9, <2>1 DEF Idle
  <1>10. ASSUME NEW v \in Workers, v # w, ~Idle(v), ~req[v].aborted,
                NEW o \in Works(req[v]) \ shared
         PROVE  OwnOutlet(u, req[v], o)
    <2>1. PICK r : r = req[v]
      OBVIOUS
    <2>2. r \in RequestRecord /\ Grounded(maps, r)
      BY <1>2, <1>10, <2>1, RequestIs
    <2>3. o \notin overlapped
      BY <1>5, <1>10
    <2>4. OwnOutlet(maps, r, o)
      BY <1>1, <1>10, <2>1, <2>3 DEF Undisturbed
    <2>5. o \notin Works(req[w])
      BY <1>1, <1>3, <1>10, <2>3 DEF OneRequest
    <2>6. SameOutlet(maps, u, o)
      BY <1>7, <2>5
    <2>7. r.at \in {"load", "close"} => DOMAIN r.found \subseteq DOMAIN View(maps, r)
      <3>1. SUFFICES ASSUME r.at \in {"load", "close"}
                     PROVE  DOMAIN r.found \subseteq DOMAIN View(maps, r)
        OBVIOUS
      <3>2. PICK m \in Ids : FindsRow(maps, r, m)
        BY <2>2, <3>1 DEF Grounded, FoundKnown
      <3>3. m \in DOMAIN View(maps, r) /\ DOMAIN r.found = {m}
        BY <3>2 DEF FindsRow
      <3> QED
        BY <3>3
    <2>8. (DOMAIN u \ DOMAIN maps) \cap DOMAIN r.written = {}
      <3>1. Inserted(w) \cap Inserted(v) = {}
        BY <1>2, <1>3, <1>10 DEF InsertsApart
      <3> QED
        BY <1>6, <2>1, <3>1 DEF Inserted
    <2>9. DOMAIN maps \subseteq DOMAIN u
      BY <1>6
    <2>10. OwnOutlet(u, r, o)
      BY <1>6, <2>2, <2>4, <2>6, <2>7, <2>8, <2>9, OthersOwn
    <2> QED
      BY <2>1, <2>10
  <1>11. OneRequest'
    <2>1. SUFFICES ASSUME NEW x \in Workers, NEW v \in Workers, x # v, ~Idle(x)', ~Idle(v)'
                   PROVE  Works(req'[x]) \cap Works(req'[v]) \subseteq overlapped'
      BY DEF OneRequest, Works, OutletsOf
    <2> QED
      BY <1>1, <1>9, <2>1 DEF OneRequest
  <1>12. ASSUME NEW v \in Workers PROVE Undisturbed(v)'
    <2>1. SUFFICES ASSUME ~Idle(v)', ~req'[v].aborted, NEW o \in Works(req'[v]) \ overlapped'
                   PROVE  OwnOutlet(maps', req'[v], o)
      BY DEF Undisturbed, Works, OutletsOf, OwnOutlet, LineReady, Shortened, Awaited,
             Succeeds, View, Merged
    <2>2. v # w /\ ~Idle(v) /\ req'[v] = req[v]
      BY <1>9, <2>1
    <2>3. OwnOutlet(u, req[v], o)
      BY <1>5, <1>10, <2>1, <2>2
    <2> QED
      BY <1>4, <2>2, <2>3
  <1>13. \A o \in Outlets \ overlapped' : Dated(maps', o)
    BY <1>4, <1>5, <1>8
  <1> QED
    BY <1>11, <1>12, <1>13 DEF AloneInvariant

LEMMA NextAlone ==
    ASSUME MapsInvariant, AloneInvariant, [MapsNext]_vars
    PROVE  AloneInvariant'
  <1>1. CASE UNCHANGED vars
    <2>1. maps' = maps /\ req' = req /\ overlapped' = overlapped
      BY <1>1 DEF vars
    <2> QED
      BY <2>1 DEF AloneInvariant, OneRequest, Undisturbed, Idle
  <1>2. CASE MapsNext
    <2>1. PICK w \in Workers : StepOf(w)
      BY <1>2, NextIsStep
    <2>2. /\ OnlyChanges(w) /\ overlapped \subseteq overlapped'
          /\ Ends(w) \/ Publishes(w) \/ (Advances(w, req'[w]) /\ maps' = maps)
      BY <2>1, StepKinds
    <2>3. CASE \E lines \in Lists, bulk \in BOOLEAN : Open(w, lines, bulk)
      <3>1. KeepsToItself(w, req'[w], overlapped')
        BY <2>3, OpenKeeps
      <3>2. maps' = maps
        BY <2>3 DEF Open
      <3> QED
        BY <2>2, <3>1, <3>2, KeptAlone
    <2>4. CASE Find(w) \/ Load(w) \/ Close(w) \/ Insert(w) \/ InsertFails(w)
      <3>1. maps' = maps /\ overlapped' = overlapped
        BY <2>4, StatementChangesOne
      <3>2. req'[w] = NoRequest \/ KeepsToItself(w, req'[w], overlapped)
        BY <2>4, StatementKeeps
      <3> QED
        BY <2>2, <3>1, <3>2, KeptAlone
    <2>5. CASE Ends(w)
      BY <2>2, <2>5, KeptAlone DEF Ends
    <2>6. CASE Publishes(w)
      BY <2>2, <2>6, PublishedAlone
    <2>7. CASE FindFails(w) \/ Commit(w) \/ Abandon(w)
      <3>1. Ends(w) \/ Publishes(w)
        <4>1. MapsShape
          BY DEF MapsInvariant
        <4>2. End(w)
          BY <2>7 DEF FindFails, Commit, Abandon
        <4>3. req'[w] = NoRequest
          BY <4>1, <4>2, EndIs
        <4> QED
          BY <2>7, <4>3 DEF FindFails, Commit, Abandon, Ends, Publishes, Idle
      <3> QED
        BY <2>5, <2>6, <3>1
    <2> QED
      BY <2>1, <2>3, <2>4, <2>7 DEF StepOf, Proceed
  <1> QED
    BY <1>1, <1>2

LEMMA AloneHolds == MapsSafety => [](MapsInvariant /\ AloneInvariant)
  <1>1. MapsInit => MapsInvariant /\ AloneInvariant
    <2>1. ASSUME MapsInit PROVE AloneInvariant
      <3>1. \A w \in Workers : Idle(w)
        BY <2>1 DEF MapsInit, Idle, NoRequest
      <3>2. DOMAIN maps = {}
        BY <2>1, NoRowsIsTable DEF MapsInit
      <3> QED
        BY <3>1, <3>2 DEF AloneInvariant, OneRequest, Undisturbed, Dated, CoversOnce
    <2> QED
      BY <2>1, MapsInitInvariant
  <1>2. MapsInvariant /\ AloneInvariant /\ [MapsNext]_vars => (MapsInvariant /\ AloneInvariant)'
    BY NextMapsInvariant, NextAlone
  <1> QED
    BY <1>1, <1>2, PTL DEF MapsSafety

----------------------------------------------------------------------------
(* What it says of the look-ups and of the past.                           *)

LEMMA OrderedOnce ==
    ASSUME AloneInvariant, NEW o \in Outlets \ overlapped, EnteredInOrder(o), NEW day \in Days,
           NEW m \in CoveredBy(maps, o, day)
    PROVE  CoveredBy(maps, o, day) = {m}
  <1>1. InOrder(maps, o)
    BY DEF EnteredInOrder, InOrder
  <1>2. CoversOnce(maps, o)
    BY <1>1 DEF AloneInvariant, Dated
  <1> QED
    BY <1>2 DEF CoversOnce, CoveredBy

(* One row of an outlet at most covers a day, if no two requests worked on *)
(* the outlet at once and its rows were entered in the order of their days.*)
THEOREM MappedOncePerDay == MapsSafety => []OneRowPerDay
  <1>1. ASSUME AloneInvariant PROVE OneRowPerDay
    <2>1. SUFFICES ASSUME NEW o \in Outlets \ overlapped, NEW day \in Days, EnteredInOrder(o)
                   PROVE  Cardinality(CoveredBy(maps, o, day)) <= 1
      BY DEF OneRowPerDay
    <2>2. CASE CoveredBy(maps, o, day) = {}
      BY <2>2, FS_EmptySet
    <2>3. CASE CoveredBy(maps, o, day) # {}
      <3>1. PICK m : m \in CoveredBy(maps, o, day)
        BY <2>3
      <3>2. CoveredBy(maps, o, day) = {m}
        BY <1>1, <2>1, <3>1, OrderedOnce
      <3>3. Cardinality({m}) = 1
        BY FS_Singleton
      <3> QED
        BY <3>2, <3>3
    <2> QED
      BY <2>2, <2>3
  <1> QED
    BY <1>1, AloneHolds, PTL

(* While no row of an outlet begins after today, the look-ups by today     *)
(* find every row that covers it; if no two requests overlapped and rows   *)
(* were entered in order, the list has the outlet once.                    *)
THEOREM LookUpsAgree == MapsSafety => []LookUpsFindTheRow
  <1>1. ASSUME MapsInvariant, AloneInvariant PROVE LookUpsFindTheRow
    <2>1. maps \in Tables /\ ClosedRowsReplaced
      BY <1>1 DEF MapsInvariant, MapsShape
    <2>2. ASSUME NEW o \in Outlets, NEW today \in Days,
                 \A m \in DOMAIN maps : maps[m].outlet = o => maps[m].from <= today
          PROVE  {m \in DOMAIN maps : <<o, m>> \in MappedOutlets(today)}
                   = CoveredBy(maps, o, today)
      <3>1. ASSUME NEW m \in CoveredBy(maps, o, today) PROVE maps[m].active
        <4>1. SUFFICES ASSUME ~maps[m].active PROVE FALSE
          OBVIOUS
        <4>2. m \in DOMAIN maps /\ maps[m].outlet = o /\ today <= maps[m].to
          BY <3>1 DEF CoveredBy, Covers
        <4>3. PICK n \in DOMAIN maps :
                maps[n].outlet = o /\ PrevDay(maps[n].from) = maps[m].to
          BY <2>1, <4>1, <4>2 DEF ClosedRowsReplaced
        <4>4. maps[n].from <= today
          BY <2>2, <4>3
        <4>5. maps[n].from \in Int /\ today \in Int
          BY <2>1, TableTypes DEF Days
        <4> QED
          BY <4>2, <4>3, <4>4, <4>5 DEF PrevDay
      <3>2. Current(o, today) = CoveredBy(maps, o, today)
        BY <3>1 DEF Current
      <3>3. \A m : <<o, m>> \in MappedOutlets(today) <=> m \in Current(o, today)
        BY DEF MappedOutlets
      <3>4. CoveredBy(maps, o, today) \subseteq DOMAIN maps
        BY DEF CoveredBy
      <3> QED
        BY <3>2, <3>3, <3>4
    <2>3. ASSUME NEW o \in Outlets, NEW today \in Days, o \notin overlapped, EnteredInOrder(o)
          PROVE  \E m \in TerritoryRows(o, today) :
                   {e \in ListedOutlets(today) : e[1] = o} = {<<o, m>>}
      <3>1. {e \in ListedOutlets(today) : e[1] = o} = {o} \X TerritoryRows(o, today)
        <4>1. \A e \in MappedOutlets(today) : e[1] = o => e \in {o} \X Current(o, today)
          BY DEF MappedOutlets
        <4>2. {o} \X Current(o, today) \subseteq MappedOutlets(today)
          BY DEF MappedOutlets
        <4> QED
          BY <4>1, <4>2 DEF ListedOutlets, TerritoryRows
      <3>2. PICK m : TerritoryRows(o, today) = {m}
        <4>1. CASE Current(o, today) = {}
          BY <4>1 DEF TerritoryRows
        <4>2. CASE Current(o, today) # {}
          <5>1. PICK m : m \in Current(o, today)
            BY <4>2
          <5>2. m \in CoveredBy(maps, o, today) /\ Current(o, today) \subseteq CoveredBy(maps, o, today)
            BY <5>1 DEF Current
          <5>3. CoveredBy(maps, o, today) = {m}
            BY <1>1, <2>3, <5>2, OrderedOnce
          <5> QED
            BY <4>2, <5>1, <5>2, <5>3 DEF TerritoryRows
        <4> QED
          BY <4>1, <4>2
      <3> QED
        BY <3>1, <3>2
    <2> QED
      BY <2>2, <2>3 DEF LookUpsFindTheRow
  <1> QED
    BY <1>1, AloneHolds, PTL

LEMMA PastKept ==
    ASSUME MapsInvariant, AloneInvariant, NEW w \in Workers, Publishes(w),
           NEW o \in Outlets \ overlapped, NEW day \in Days,
           CoveredBy(maps', o, day) # CoveredBy(maps, o, day)
    PROVE  \E n \in DOMAIN maps' \ DOMAIN maps :
             maps'[n].outlet = o /\ maps'[n].from <= day
  <1>1. PICK u : u = maps'
    OBVIOUS
  <1>2. PICK r : r = req[w]
    OBVIOUS
  <1>3. MapsShape /\ ~Idle(w) /\ Grounded(maps, r) /\ r.at = "find" /\ ~r.aborted
    BY <1>2 DEF MapsInvariant, Publishes
  <1>4. /\ maps \in Tables /\ u \in Tables /\ u = View(maps, r) /\ r \in RequestRecord
        /\ CoveredBy(u, o, day) # CoveredBy(maps, o, day)
    BY <1>1, <1>2, <1>3, ViewIs DEF Publishes
  <1>5. /\ DOMAIN u = DOMAIN maps \cup DOMAIN r.written
        /\ \A m \in DOMAIN r.written : u[m] = r.written[m]
        /\ \A m \in DOMAIN maps \ DOMAIN r.written : u[m] = maps[m]
    BY <1>4, ViewValues
  <1>6. WritesKnown(maps, r)
    BY <1>3 DEF Grounded
  <1>7. o \in Works(r)
    <2>1. SUFFICES ASSUME o \notin Works(r) PROVE FALSE
      OBVIOUS
    <2>2. SameOutlet(maps, u, o)
      BY <1>4, <1>6, <2>1, PublishedElsewhere
    <2> QED
      BY <1>4, <2>2 DEF SameOutlet, CoveredBy, Covers
  <1>8. OwnOutlet(maps, r, o)
    BY <1>2, <1>3, <1>7 DEF AloneInvariant, Undisturbed
  <1>9. PICK m : m \in CoveredBy(u, o, day) <=> m \notin CoveredBy(maps, o, day)
    BY <1>4
  <1>10. day \in Int
    BY DEF Days
  <1>11. CASE m \notin DOMAIN maps
    <2>1. m \in DOMAIN u /\ u[m].outlet = o /\ u[m].from <= day
      BY <1>9, <1>11 DEF CoveredBy, Covers
    <2> QED
      BY <1>1, <1>11, <2>1
  <1>12. CASE m \in DOMAIN maps
    <2>1. m \in DOMAIN r.written
      BY <1>5, <1>9, <1>12 DEF CoveredBy
    <2>2. u[m].outlet = maps[m].outlet /\ u[m].from = maps[m].from /\ u[m] = r.written[m]
      BY <1>5, <1>6, <1>12, <2>1 DEF WritesKnown
    <2>3. maps[m].outlet = o
      BY <1>9, <2>2 DEF CoveredBy, Covers
    <2>4. Shortened(maps, r, m)
      BY <1>8, <1>12, <2>1, <2>3 DEF OwnOutlet
    <2>5. PICK n \in DOMAIN r.written \ DOMAIN maps : Succeeds(r.written[n], r.written[m])
      BY <1>3, <2>4 DEF Shortened, Awaited
    <2>6. u[n] = r.written[n] /\ n \in DOMAIN u \ DOMAIN maps
      BY <1>5, <2>5
    <2>7. u[m].to \in Int /\ maps[m].to \in Int /\ u[n].from \in Int
      BY <1>4, <1>5, <1>12, <2>6, TableTypes
    <2>8. u[m].to < maps[m].to
      BY <2>2, <2>4 DEF Shortened
    <2>9. day > u[m].to
      BY <1>5, <1>9, <1>10, <1>12, <2>2, <2>7, <2>8 DEF CoveredBy, Covers
    <2>10. u[n].outlet = o /\ PrevDay(u[n].from) = u[m].to
      BY <2>2, <2>3, <2>5, <2>6 DEF Succeeds
    <2>11. u[n].from <= day
      BY <1>10, <2>7, <2>9, <2>10 DEF PrevDay
    <2> QED
      BY <1>1, <2>6, <2>10, <2>11
  <1> QED
    BY <1>11, <1>12

(* To map an outlet from a day on leaves the days before as they were, if  *)
(* no two requests worked on the outlet at once.                           *)
THEOREM PastStays == MapsSafety => PastIsKept
  <1>1. ASSUME MapsInvariant, AloneInvariant, [MapsNext]_vars,
               NEW o \in Outlets \ overlapped, NEW day \in Days,
               CoveredBy(maps', o, day) # CoveredBy(maps, o, day)
        PROVE  \E n \in DOMAIN maps' \ DOMAIN maps :
                 maps'[n].outlet = o /\ maps'[n].from <= day
    <2>1. maps' # maps
      BY <1>1
    <2>2. MapsNext
      BY <1>1, <2>1 DEF vars
    <2>3. PICK w \in Workers : StepOf(w)
      BY <2>2, NextIsStep
    <2>4. Publishes(w)
      BY <1>1, <2>1, <2>3, StepKinds DEF Ends
    <2> QED
      BY <1>1, <2>4, PastKept
  <1>2. MapsInvariant /\ AloneInvariant /\ [MapsNext]_vars =>
          [\A o \in Outlets \ overlapped, day \in Days :
             CoveredBy(maps', o, day) # CoveredBy(maps, o, day) =>
               \E n \in DOMAIN maps' \ DOMAIN maps :
                  maps'[n].outlet = o /\ maps'[n].from <= day]_vars
    BY <1>1
  <1> QED
    BY <1>2, AloneHolds, PTL DEF MapsSafety, PastIsKept
=============================================================================
