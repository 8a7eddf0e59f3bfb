----------------------------- MODULE GrnProofs -----------------------------
(***************************************************************************)
(* For any number of notes, lines, payloads, receipts and requests: goods  *)
(* receipts move stock by whole requests only, all stock came in on a      *)
(* line, and no line shows more received than came in on it, whatever      *)
(* overlaps.  The last is not inductive as it stands: a copy in memory may *)
(* overwrite the row at any time, so CopiesBacked says it of the copies.   *)
(***************************************************************************)
EXTENDS Grn, StockLedgerProofs

(* What lists are made of: the lines of a receipt, those of an update.     *)
Quantity == [line : LineNos, qty : Nat \ {0}]
Asked == UNION {{p[l] : l \in DOMAIN p} : p \in Payloads}
Amendment == [line : LineNos, asked : Asked]
Entry == Quantity \cup Amendment
NoRows == [l \in {} |-> 0]

LEMMA ReceiptTypes ==
    ASSUME NEW s \in Receipts
    PROVE  /\ s \in Seq(Quantity) /\ s \in Seq(Entry) /\ s # <<>>
           /\ Len(s) \in Nat \ {0} /\ DOMAIN s = 1..Len(s)
           /\ IsFiniteSet(DOMAIN s)
           /\ LinesOf(s) \subseteq LineNos
           /\ \A i \in DOMAIN s : s[i].line \in LineNos /\ s[i].qty \in Nat \ {0}
           /\ \A i, j \in DOMAIN s : s[i].line = s[j].line => i = j
  <1>1. /\ s \in Seq(Quantity) /\ s # <<>>
        /\ \A i, j \in DOMAIN s : s[i].line = s[j].line => i = j
    BY GrnAssumption DEF Quantity
  <1>2. Len(s) \in Nat \ {0} /\ DOMAIN s = 1..Len(s)
        /\ \A i \in DOMAIN s : s[i] \in Quantity
    BY <1>1
  <1>3. IsFiniteSet(1..Len(s))
    <2>1. 1 \in Int /\ Len(s) \in Int
      BY <1>2
    <2> QED
      BY <2>1, FS_Interval
  <1>4. \A i \in DOMAIN s : s[i].line \in LineNos /\ s[i].qty \in Nat \ {0}
    BY <1>2 DEF Quantity
  <1>5. s \in Seq(Entry)
    <2>1. \A i \in 1..Len(s) : s[i] \in Entry
      BY <1>2 DEF Entry
    <2> QED
      BY <1>1, <2>1
  <1> QED
    BY <1>1, <1>2, <1>3, <1>4, <1>5 DEF LinesOf

(* The quantity a receipt has for a line.                                  *)
QtyIn(s, l) ==
    SumFunctionOnSet([i \in DOMAIN s |-> s[i].qty], {i \in DOMAIN s : s[i].line = l})

LEMMA QtyOfLine ==
    ASSUME NEW s \in Receipts, NEW i \in DOMAIN s
    PROVE  QtyIn(s, s[i].line) = s[i].qty
  <1> DEFINE f == [j \in DOMAIN s |-> s[j].qty]
  <1>1. {j \in DOMAIN s : s[j].line = s[i].line} = {i}
    BY ReceiptTypes
  <1>2. f[i] = s[i].qty /\ f[i] \in Int
    BY ReceiptTypes
  <1>3. QtyIn(s, s[i].line) = SumFunctionOnSet(f, {i})
    BY <1>1 DEF QtyIn
  <1> HIDE DEF f
  <1> QED
    BY <1>2, <1>3, SumOfOne

LEMMA QtyOfNoLine ==
    ASSUME NEW s, NEW l, l \notin LinesOf(s)
    PROVE  QtyIn(s, l) = 0
  <1> DEFINE f == [j \in DOMAIN s |-> s[j].qty]
  <1>1. {j \in DOMAIN s : s[j].line = l} = {}
    BY DEF LinesOf
  <1>2. QtyIn(s, l) = SumFunctionOnSet(f, {})
    BY <1>1 DEF QtyIn
  <1> HIDE DEF f
  <1> QED
    BY <1>2, SumEmpty

LEMMA QtyTypes ==
    ASSUME NEW s \in Receipts, NEW l
    PROVE  QtyIn(s, l) \in Nat
  <1>1. CASE l \in LinesOf(s)
    <2>1. PICK i \in DOMAIN s : s[i].line = l
      BY <1>1 DEF LinesOf
    <2> QED
      BY <2>1, QtyOfLine, ReceiptTypes
  <1>2. CASE l \notin LinesOf(s)
    BY <1>2, QtyOfNoLine
  <1> QED
    BY <1>1, <1>2

(* What is left of a receipt.                                              *)
LEMMA NextLine ==
    ASSUME NEW t \in Receipts, NEW s \in Seq(Entry), Suffix(s, t), s # <<>>
    PROVE  /\ Tail(s) \in Seq(Entry) /\ Suffix(Tail(s), t)
           /\ Head(s).line \in LineNos /\ Head(s).qty \in Nat \ {0}
           /\ Head(s).line \in LinesOf(t) /\ QtyIn(t, Head(s).line) = Head(s).qty
           /\ LinesOf(s) = LinesOf(Tail(s)) \cup {Head(s).line}
           /\ Head(s).line \notin LinesOf(Tail(s))
           /\ LinesOf(s) \subseteq LinesOf(t)
  <1>1. /\ t \in Seq(Entry)
        /\ \A i, j \in DOMAIN t : t[i].line = t[j].line => i = j
    BY ReceiptTypes
  <1>2. /\ Tail(s) \in Seq(Entry) /\ Suffix(Tail(s), t)
        /\ \E n \in DOMAIN t : Head(s) = t[n]
        /\ LinesOf(s) = LinesOf(Tail(s)) \cup {Head(s).line}
        /\ Head(s).line \notin LinesOf(Tail(s))
        /\ LinesOf(s) \subseteq LinesOf(t) /\ Head(s).line \in LinesOf(t)
    BY <1>1, FirstLineOnce
  <1>3. PICK n \in DOMAIN t : Head(s) = t[n]
    BY <1>2
  <1>4. /\ Head(s).line \in LineNos /\ Head(s).qty \in Nat \ {0}
        /\ QtyIn(t, Head(s).line) = Head(s).qty
    BY <1>3, ReceiptTypes, QtyOfLine
  <1> QED
    BY <1>2, <1>4
----------------------------------------------------------------------------
(* Where receipts post.                                                    *)

RowTables == UNION {[S -> Item] : S \in SUBSET LineNos}

LEMMA RowTypes ==
    ASSUME NEW rows \in RowTables
    PROVE  /\ DOMAIN rows \subseteq LineNos /\ rows \in [DOMAIN rows -> Item]
           /\ IsFiniteSet(DOMAIN rows)
           /\ \A l \in DOMAIN rows :
                /\ rows[l] \in Item /\ DOMAIN rows[l] = {"sku", "expected", "received"}
                /\ rows[l].sku \in Skus /\ rows[l].expected \in Nat
                /\ rows[l].received \in Nat
  <1>1. DOMAIN rows \subseteq LineNos /\ rows \in [DOMAIN rows -> Item]
    BY DEF RowTables
  <1>2. \A l \in DOMAIN rows :
          /\ rows[l] \in Item /\ DOMAIN rows[l] = {"sku", "expected", "received"}
          /\ rows[l].sku \in Skus /\ rows[l].expected \in Nat
          /\ rows[l].received \in Nat
    BY <1>1 DEF Item
  <1> QED
    BY <1>1, <1>2, FiniteAssumption, FS_Subset

LEMMA KeyTypes ==
    ASSUME NEW h \in Warehouses, NEW rows \in RowTables, DOMAIN rows # {}, NEW l
    PROVE  /\ KeyOf(h, rows, l) \in Keys /\ KeyOf(h, rows, l)[2] \in Skus
           /\ KeyOf(h, rows, l) = <<h, KeyOf(h, rows, l)[2]>>
  <1>1. Skus # {}
    BY RowTypes
  <1>2. (IF l \in DOMAIN rows THEN rows[l].sku ELSE CHOOSE s \in Skus : TRUE) \in Skus
    BY <1>1, RowTypes
  <1> QED
    BY <1>2, GrnAssumption DEF KeyOf

(* Only the SKUs of the rows matter.                                       *)
LEMMA SameKeys ==
    ASSUME NEW h, NEW rows, NEW new, DOMAIN new = DOMAIN rows,
           \A l \in DOMAIN rows : new[l].sku = rows[l].sku, NEW s
    PROVE  /\ \A l : KeyOf(h, new, l) = KeyOf(h, rows, l)
           /\ StockLines(h, new, s) = StockLines(h, rows, s)
  <1>1. \A l : KeyOf(h, new, l) = KeyOf(h, rows, l)
    BY DEF KeyOf
  <1> QED
    BY <1>1 DEF StockLines

LEMMA PostsAreRequests ==
    ASSUME NEW h \in Warehouses, NEW rows \in RowTables, DOMAIN rows # {},
           NEW s \in Receipts
    PROVE  StockLines(h, rows, s) \in Requests
  <1> DEFINE sku == [l \in LineNos |-> KeyOf(h, rows, l)[2]]
             all == [l \in LineNos |-> [sku |-> sku[l]]]
  <1>1. sku \in [LineNos -> Skus]
    BY KeyTypes
  <1>2. \A l \in LineNos : KeyOf(h, all, l) = KeyOf(h, rows, l)
    <2> TAKE l \in LineNos
    <2>1. KeyOf(h, all, l) = <<h, sku[l]>>
      BY DEF KeyOf
    <2>2. sku[l] = KeyOf(h, rows, l)[2]
      OBVIOUS
    <2> HIDE DEF sku, all
    <2> QED
      BY <2>1, <2>2, KeyTypes
  <1>3. StockLines(h, all, s) = StockLines(h, rows, s)
    <2> HIDE DEF sku, all
    <2> QED
      BY <1>2, ReceiptTypes DEF StockLines
  <1>4. StockLines(h, all, s) \in Requests
    <2> HIDE DEF sku
    <2> QED
      BY <1>1, ReceiptsArePosted
  <1> QED
    BY <1>3, <1>4

(* What posting a receipt moves at a key is what it has for the lines of   *)
(* the key.                                                                *)
KeyQty(h, rows, s, k) ==
    SumFunctionOnSet([l \in LineNos |-> QtyIn(s, l)],
                     {l \in LineNos : KeyOf(h, rows, l) = k})

LEMMA PostingEffect ==
    ASSUME NEW h, NEW rows, NEW s \in Receipts, NEW k \in Keys
    PROVE  Book!Effect(StockLines(h, rows, s), k) = KeyQty(h, rows, s, k)
  <1> DEFINE lines == [i \in DOMAIN s |->
                         IF KeyOf(h, rows, s[i].line) = k THEN s[i].qty ELSE 0]
             g == [l \in LineNos |-> IF KeyOf(h, rows, l) = k THEN QtyIn(s, l) ELSE 0]
             n == [i \in DOMAIN s |-> s[i].line]
             q == [l \in LineNos |-> QtyIn(s, l)]
             S == {l \in LineNos : KeyOf(h, rows, l) = k}
  <1>1. /\ IsFiniteSet(LineNos) /\ IsFiniteSet(S) /\ S \subseteq LineNos
        /\ IsFiniteSet(DOMAIN s) /\ LinesOf(s) \subseteq LineNos
        /\ {n[i] : i \in DOMAIN s} = LinesOf(s)
    BY FiniteAssumption, ReceiptTypes, FS_Subset DEF LinesOf
  <1>2. Book!Effect(StockLines(h, rows, s), k) = SumFunctionOnSet(lines, DOMAIN s)
    <2>1. [i \in DOMAIN StockLines(h, rows, s) |->
             Book!LineEffect(StockLines(h, rows, s)[i], k)] = lines
      BY ReceiptTypes DEF StockLines, Book!LineEffect
    <2>2. DOMAIN StockLines(h, rows, s) = DOMAIN s
      BY DEF StockLines
    <2> HIDE DEF lines
    <2> QED
      BY <2>1, <2>2, BookSum DEF Book!Effect
  <1>3. \A l \in LineNos : g[l] \in Int
    BY QtyTypes
  <1>4. SumFunctionOnSet(lines, DOMAIN s) = SumFunctionOnSet(g, LinesOf(s))
    <2>1. \A i \in DOMAIN s : lines[i] \in Int /\ lines[i] = g[n[i]]
      BY ReceiptTypes, QtyOfLine
    <2>2. \A i, j \in DOMAIN s : n[i] = n[j] => i = j
      BY ReceiptTypes
    <2> HIDE DEF lines, g, n
    <2> QED
      BY <1>1, <2>1, <2>2, SumRenamed
  <1>5. SumFunctionOnSet(g, LineNos) = SumFunctionOnSet(g, LinesOf(s))
    <2>1. \A l \in LineNos \ LinesOf(s) : g[l] = 0
      BY QtyOfNoLine
    <2> HIDE DEF g
    <2> QED
      BY <1>1, <1>3, <2>1, SumOfPart
  <1>6. SumFunctionOnSet(g, LineNos) = SumFunctionOnSet(g, S)
    <2>1. \A l \in LineNos \ S : g[l] = 0
      OBVIOUS
    <2> HIDE DEF g, S
    <2> QED
      BY <1>1, <1>3, <2>1, SumOfPart
  <1>7. SumFunctionOnSet(g, S) = SumFunctionOnSet(q, S)
    <2>1. \A l \in S : g[l] = q[l]
      OBVIOUS
    <2> HIDE DEF g, q, S
    <2> QED
      BY <1>1, <2>1, SumSame
  <1> QED
    BY <1>2, <1>4, <1>5, <1>6, <1>7 DEF KeyQty
----------------------------------------------------------------------------
(* The requests.                                                           *)

Columns == {"sku", "expected", "received", "status", "deleted", "warehouse"}
Stages == {"items", "head", "writeHead", "find", "amend", "receive", "loadRow",
           "writeRow", "balance"}

RequestRecord ==
    [op : {"create", "receive", "update", "delete", "post"}, grn : GrnIds,
     at : Stages, head : Header, rows : RowTables, lines : Seq(Entry),
     asked : Seq(Entry), diff : SUBSET Columns, headSet : SUBSET Columns,
     headLock : BOOLEAN, rowsSet : [LineNos -> SUBSET Columns],
     locks : SUBSET LineNos, new : SUBSET LineNos, autoPost : BOOLEAN]

(* GrnTypeOK without StockLedger's part, and the requests.                 *)
GrnShape ==
    /\ IsPartial(grn, GrnIds, Header)
    /\ items \in [DOMAIN items -> RowTables] /\ DOMAIN items = DOMAIN grn
    /\ \A g \in DOMAIN items : DOMAIN items[g] # {} /\ items[g] \in RowTables
    /\ received \in [GrnIds \X LineNos \X Keys -> Nat]
    /\ repointed \subseteq GrnIds
    /\ overlapped \subseteq GrnIds
    /\ req \in [Workers -> RequestRecord \cup {NoRequest}]

(* The lines a request has still to take into its copies of the rows.      *)
InLine(r) == r.at \in {"loadRow", "writeRow", "balance"}
Remaining(r) == IF InLine(r) THEN Tail(r.lines) ELSE r.lines
Through(r) == LinesOf(r.asked) \ LinesOf(Remaining(r))

SetsOnlyRows(r) == \A l \in LineNos : r.rowsSet[l] # {} => l \in DOMAIN r.rows

(* What the fields of a request say of it.                                 *)
ReceiptOf(r) ==
    /\ r.asked \in Receipts /\ Suffix(r.lines, r.asked)
    /\ InLine(r) => r.lines # <<>> /\ Head(r.lines).line \in DOMAIN r.rows
    /\ Through(r) \subseteq DOMAIN r.rows
    /\ r.new = {} /\ DOMAIN r.rows # {} /\ SetsOnlyRows(r)

CreateRequest(r) ==
    /\ r.op = "create" /\ r.at \in {"receive", "loadRow", "writeRow", "balance"}
    /\ ReceiptOf(r)

ReceiveRequest(r) ==
    /\ r.op = "receive"
    /\ r.at \in {"find", "receive", "loadRow", "writeRow", "balance"}
    /\ r.at = "find" => r.lines = r.asked /\ r.rowsSet = [l \in LineNos |-> {}]
    /\ ReceiptOf(r)

(* s lists the items of the payload p.                                     *)
AsksFor(s, p) ==
    /\ s \in Seq(Entry) /\ LinesOf(s) = DOMAIN p
    /\ \A i \in DOMAIN s : s[i].asked = p[s[i].line]
    /\ \A i, j \in DOMAIN s : s[i].line = s[j].line => i = j

UpdateRequest(r) ==
    /\ r.op = "update"
    /\ r.at \in {"head", "writeHead", "find", "amend", "loadRow", "writeRow"}
    /\ \E p \in Payloads \cup {NoRows} : AsksFor(r.asked, p)
    /\ Suffix(r.lines, r.asked)
    /\ r.at \in {"head", "writeHead", "find"} =>
         r.lines = r.asked /\ r.new = {} /\ r.rowsSet = [l \in LineNos |-> {}]
    /\ InLine(r) => r.lines # <<>> /\ Head(r.lines).line \in DOMAIN r.rows \ r.new
    /\ r.new \subseteq DOMAIN r.rows /\ r.new \cap LinesOf(r.lines) = {}
    /\ SetsOnlyRows(r)

HeadRequest(r) ==
    r.op \in {"delete", "post"} /\ r.at \in {"items", "head", "writeHead"}

NoteRequest(r) == ReceiveRequest(r) \/ UpdateRequest(r) \/ HeadRequest(r)

(* The rows in memory are rows of the note, or lines inserted by update.   *)
RowsKnown(r) ==
    /\ r.grn \in DOMAIN grn
    /\ r.op \in {"receive", "update"} =>
         DOMAIN r.rows \subseteq DOMAIN items[r.grn] \cup r.new

(* A note that is being created is not there for others.                   *)
OwnNote(w) ==
    /\ req[w].grn \notin DOMAIN grn
    /\ \A v \in Workers \ {w} : ~On(v, req[w].grn)

RequestsGrounded ==
    \A w \in Workers : ~Idle(w) =>
        \/ CreateRequest(req[w]) /\ OwnNote(w)
        \/ NoteRequest(req[w]) /\ RowsKnown(req[w])

(* Nothing comes in on a line that is not there.                           *)
HasLine(g, l) == g \in DOMAIN grn /\ l \in DOMAIN items[g]
Unreceived ==
    \A g \in GrnIds, l \in LineNos, k \in Keys :
        ~HasLine(g, l) => received[<<g, l, k>>] = 0

GrnInvariant == GrnShape /\ RequestsGrounded /\ Unreceived

USE DEF GrnShape, NoRequest, Idle, IsPartial

LEMMA GrnInitInvariant == GrnInit => GrnInvariant
  BY DEF GrnInit, GrnInvariant, RequestsGrounded, Unreceived, Zero

LEMMA BusyRecord ==
    ASSUME GrnShape, NEW w \in Workers, ~Idle(w)
    PROVE  /\ req[w] \in RequestRecord /\ req[w].grn \in GrnIds
           /\ req[w].head \in Header /\ req[w].rows \in RowTables
           /\ req[w].lines \in Seq(Entry) /\ req[w].asked \in Seq(Entry)
  BY DEF RequestRecord

(* A step of a request that leaves the tables alone.                       *)
LEMMA RequestStep ==
    ASSUME GrnInvariant, NEW w \in Workers,
           UNCHANGED <<grn, items, received, repointed>>,
           overlapped' \subseteq GrnIds,
           NEW r, req' = [req EXCEPT ![w] = r],
           \/ r = NoRequest
           \/ /\ r \in RequestRecord
              /\ \/ /\ CreateRequest(r) /\ r.grn \notin DOMAIN grn
                    /\ \A v \in Workers \ {w} : ~On(v, r.grn)
                 \/ NoteRequest(r) /\ RowsKnown(r)
    PROVE  GrnInvariant'
  <1>1. req'[w] = r /\ \A v \in Workers \ {w} : req'[v] = req[v]
    BY DEF GrnInvariant
  <1>2. GrnShape'
    BY DEF GrnInvariant
  <1>3. ASSUME NEW v \in Workers \ {w}, ~Idle(v)'
        PROVE  \/ CreateRequest(req[v])' /\ OwnNote(v)'
               \/ NoteRequest(req[v])' /\ RowsKnown(req[v])'
    <2>1. req'[v] = req[v] /\ ~Idle(v)
      BY <1>1, <1>3
    <2>2. CASE CreateRequest(req[v]) /\ OwnNote(v)
      <3>1. ~On(w, req[v].grn)'
        <4>1. CASE r = NoRequest
          BY <1>1, <4>1 DEF On
        <4>2. CASE \A u \in Workers \ {w} : ~On(u, r.grn)
          BY <1>1, <2>1, <4>2 DEF On
        <4>3. CASE RowsKnown(r)
          BY <1>1, <2>2, <4>3 DEF On, RowsKnown, OwnNote
        <4> QED
          BY <4>1, <4>2, <4>3
      <3>2. OwnNote(v)'
        BY <1>1, <2>1, <2>2, <3>1 DEF OwnNote, On
      <3> QED
        BY <2>1, <2>2, <3>2
    <2>3. CASE NoteRequest(req[v]) /\ RowsKnown(req[v])
      BY <2>1, <2>3 DEF RowsKnown
    <2> QED
      BY <2>1, <2>2, <2>3 DEF GrnInvariant, RequestsGrounded
  <1>4. ASSUME ~Idle(w)'
        PROVE  \/ CreateRequest(req[w])' /\ OwnNote(w)'
               \/ NoteRequest(req[w])' /\ RowsKnown(req[w])'
    <2>1. r # NoRequest
      BY <1>1, <1>4
    <2>2. CASE /\ CreateRequest(r) /\ r.grn \notin DOMAIN grn
               /\ \A v \in Workers \ {w} : ~On(v, r.grn)
      BY <1>1, <2>2 DEF OwnNote, On
    <2>3. CASE NoteRequest(r) /\ RowsKnown(r)
      BY <1>1, <2>3 DEF RowsKnown
    <2> QED
      BY <2>1, <2>2, <2>3
  <1>5. RequestsGrounded'
    BY <1>3, <1>4 DEF RequestsGrounded
  <1>6. Unreceived'
    BY DEF Unreceived, HasLine, GrnInvariant
  <1> QED
    BY <1>2, <1>5, <1>6 DEF GrnInvariant

(* A step that writes a note, and ends the request it is the commit of.    *)
Put(table, g, row) == [h \in DOMAIN table \cup {g} |-> IF h = g THEN row ELSE table[h]]

LEMMA PutIsUpdate ==
    ASSUME NEW table, table = [h \in DOMAIN table |-> table[h]],
           NEW g \in DOMAIN table, NEW row
    PROVE  [table EXCEPT ![g] = row] = Put(table, g, row)
  BY DEF Put

LEMMA TablesStep ==
    ASSUME GrnInvariant, NEW g \in GrnIds, NEW head \in Header,
           NEW rows \in RowTables, DOMAIN rows # {},
           grn' = Put(grn, g, head), items' = Put(items, g, rows),
           g \in DOMAIN grn => DOMAIN items[g] \subseteq DOMAIN rows,
           \A v \in Workers : On(v, g)' => g \in DOMAIN grn,
           \A v \in Workers : Idle(v)' \/ req'[v] = req[v],
           req' \in [Workers -> RequestRecord \cup {NoRequest}],
           received' \in [GrnIds \X LineNos \X Keys -> Nat],
           \A h \in GrnIds, l \in LineNos, k \in Keys :
               received'[<<h, l, k>>] # received[<<h, l, k>>] => h = g /\ l \in DOMAIN rows,
           repointed' \subseteq GrnIds, overlapped' \subseteq GrnIds
    PROVE  GrnInvariant'
  <1>1. /\ DOMAIN grn' = DOMAIN grn \cup {g} /\ DOMAIN items' = DOMAIN items \cup {g}
        /\ grn'[g] = head /\ items'[g] = rows
        /\ \A h \in DOMAIN grn \ {g} : grn'[h] = grn[h] /\ items'[h] = items[h]
    BY DEF Put, GrnInvariant
  <1>2. GrnShape'
    <2>1. IsPartial(grn', GrnIds, Header)
      BY <1>1 DEF GrnInvariant, Put
    <2>2. \A h \in DOMAIN items' : DOMAIN items'[h] # {} /\ items'[h] \in RowTables
      BY <1>1 DEF GrnInvariant
    <2>3. items' \in [DOMAIN items' -> RowTables]
      BY <2>2 DEF Put
    <2> QED
      BY <1>1, <2>1, <2>2, <2>3 DEF GrnInvariant
  <1>3. ASSUME NEW v \in Workers, ~Idle(v)'
        PROVE  \/ CreateRequest(req[v])' /\ OwnNote(v)'
               \/ NoteRequest(req[v])' /\ RowsKnown(req[v])'
    <2>1. req'[v] = req[v] /\ ~Idle(v)
      BY <1>3
    <2>2. CASE CreateRequest(req[v]) /\ OwnNote(v)
      <3>1. req[v].grn \notin DOMAIN grn /\ req[v].grn # g
        BY <2>1, <2>2 DEF OwnNote, On
      <3>2. OwnNote(v)'
        BY <1>1, <2>1, <2>2, <3>1 DEF OwnNote, On
      <3> QED
        BY <2>1, <2>2, <3>2
    <2>3. CASE NoteRequest(req[v]) /\ RowsKnown(req[v])
      <3>1. /\ req[v].grn \in DOMAIN grn'
            /\ DOMAIN items[req[v].grn] \subseteq DOMAIN items'[req[v].grn]
        BY <1>1, <2>3 DEF RowsKnown
      <3>2. RowsKnown(req[v])'
        BY <2>1, <2>3, <3>1 DEF RowsKnown
      <3> QED
        BY <2>1, <2>3, <3>2
    <2> QED
      BY <2>1, <2>2, <2>3 DEF GrnInvariant, RequestsGrounded
  <1>4. Unreceived'
    <2> SUFFICES ASSUME NEW h \in GrnIds, NEW l \in LineNos, NEW k \in Keys,
                        ~HasLine(h, l)'
                 PROVE  received'[<<h, l, k>>] = 0
      BY DEF Unreceived
    <2>1. ~HasLine(h, l)
      BY <1>1 DEF HasLine, GrnInvariant
    <2>2. received[<<h, l, k>>] = 0
      BY <2>1 DEF GrnInvariant, Unreceived
    <2>3. ~(h = g /\ l \in DOMAIN rows)
      BY <1>1 DEF HasLine
    <2> QED
      BY <2>2, <2>3
  <1> QED
    BY <1>2, <1>3, <1>4 DEF GrnInvariant, RequestsGrounded
----------------------------------------------------------------------------
(* Payloads, and the requests that they begin.                             *)

LEMMA PayloadTypes ==
    ASSUME NEW p \in Payloads \cup {NoRows}
    PROVE  /\ DOMAIN p \subseteq LineNos /\ IsFiniteSet(DOMAIN p)
           /\ \A l \in DOMAIN p :
                /\ p[l] \in Asked /\ DOMAIN p[l] \subseteq {"sku", "expected"}
                /\ "sku" \in DOMAIN p[l] => p[l].sku \in Skus
                /\ "expected" \in DOMAIN p[l] => p[l].expected \in Nat \ {0}
  <1>1. CASE p \in Payloads
    <2>1. \A l \in DOMAIN p :
            /\ l \in LineNos /\ DOMAIN p[l] \subseteq {"sku", "expected"}
            /\ "sku" \in DOMAIN p[l] => p[l].sku \in Skus
            /\ "expected" \in DOMAIN p[l] => p[l].expected \in Nat \ {0}
      BY <1>1, GrnAssumption
    <2>2. \A l \in DOMAIN p : p[l] \in Asked
      BY <1>1 DEF Asked
    <2>3. DOMAIN p \subseteq LineNos
      BY <2>1
    <2>4. IsFiniteSet(DOMAIN p)
      BY <2>3, FiniteAssumption, FS_Subset
    <2> QED
      BY <2>1, <2>2, <2>3, <2>4
  <1>2. CASE p = NoRows
    <2>1. DOMAIN p = {}
      BY <1>2 DEF NoRows
    <2> QED
      BY <2>1, FS_EmptySet
  <1> QED
    BY <1>1, <1>2

LEMMA AskedTypes ==
    ASSUME NEW a \in Asked
    PROVE  /\ DOMAIN a \subseteq {"sku", "expected"}
           /\ "sku" \in DOMAIN a => a.sku \in Skus
           /\ "expected" \in DOMAIN a => a.expected \in Nat \ {0}
  <1>1. PICK p \in Payloads : \E l \in DOMAIN p : a = p[l]
    BY DEF Asked
  <1> QED
    BY <1>1, PayloadTypes

LEMMA NewRowTypes ==
    ASSUME NEW a \in Asked, "sku" \in DOMAIN a
    PROVE  /\ NewRow(a) \in Item
           /\ NewRow(a).received = 0 /\ NewRow(a).sku = a.sku
           /\ "expected" \in DOMAIN a => NewRow(a).expected = a.expected
  BY AskedTypes DEF NewRow, Item

LEMMA PayloadRows ==
    ASSUME NEW p \in Payloads, Complete(p)
    PROVE  /\ Rows(p) \in RowTables /\ DOMAIN Rows(p) = DOMAIN p /\ DOMAIN p # {}
           /\ \A l \in DOMAIN p :
                /\ Rows(p)[l].sku = p[l].sku /\ Rows(p)[l].expected = p[l].expected
                /\ Rows(p)[l].received = 0 /\ p[l].expected \in Nat \ {0}
                /\ Rows(p)[l] = NewRow(p[l])
  <1>1. /\ DOMAIN p \subseteq LineNos /\ DOMAIN p # {}
        /\ \A l \in DOMAIN p : p[l] \in Asked /\ DOMAIN p[l] = {"sku", "expected"}
    BY PayloadTypes DEF Complete
  <1>2. \A l \in DOMAIN p : NewRow(p[l]) \in Item /\ NewRow(p[l]).received = 0
          /\ NewRow(p[l]).sku = p[l].sku /\ NewRow(p[l]).expected = p[l].expected
          /\ p[l].expected \in Nat \ {0}
    BY <1>1, NewRowTypes, AskedTypes
  <1>3. Rows(p) = [l \in DOMAIN p |-> NewRow(p[l])]
    BY DEF Rows
  <1>4. Rows(p) \in [DOMAIN p -> Item]
    BY <1>2, <1>3
  <1> QED
    BY <1>1, <1>2, <1>3, <1>4 DEF RowTables

(* What an update sets of a row keeps it a row, and what was received.     *)
LEMMA OverlayAsked ==
    ASSUME NEW row \in Item, NEW a \in Asked
    PROVE  /\ Overlay(row, a, DOMAIN a) \in Item
           /\ Overlay(row, a, DOMAIN a).received = row.received
           /\ Overlay(row, a, DOMAIN a).expected
                = IF "expected" \in DOMAIN a THEN a.expected ELSE row.expected
           /\ Overlay(row, a, DOMAIN a).sku
                = IF "sku" \in DOMAIN a THEN a.sku ELSE row.sku
  BY AskedTypes DEF Overlay, Item

LEMMA IsList ==
    ASSUME NEW Q, NEW n \in Nat, NEW s, s = [i \in 1..n |-> s[i]],
           \A i \in 1..n : s[i] \in Q
    PROVE  s \in Seq(Q)
  <1>1. s \in [1..n -> Q]
    OBVIOUS
  <1> QED
    BY <1>1

LEMMA LinesReached ==
    ASSUME NEW s, NEW T, \A i \in DOMAIN s : s[i].line \in T,
           \A l \in T : \E i \in DOMAIN s : s[i].line = l
    PROVE  LinesOf(s) = T
  BY DEF LinesOf

(* The lines of an update, in the order the request has them.              *)
LEMMA AskedList ==
    ASSUME NEW p \in Payloads \cup {NoRows},
           NEW lines \in [1..Cardinality(DOMAIN p) -> DOMAIN p],
           \A i, j \in DOMAIN lines : lines[i] = lines[j] => i = j,
           NEW s, s = [i \in DOMAIN lines |->
                         [line |-> lines[i], asked |-> p[lines[i]]]]
    PROVE  s \in Seq(Entry) /\ AsksFor(s, p)
  <1> DEFINE n == Cardinality(DOMAIN p)
  <1>1. /\ IsFiniteSet(DOMAIN p) /\ DOMAIN p \subseteq LineNos
        /\ \A l \in DOMAIN p : p[l] \in Asked
    BY PayloadTypes
  <1>2. n \in Nat
    BY <1>1, FS_CardinalityType
  <1>3. s \in Seq(Entry)
    <2>1. \A i \in 1..n : s[i] \in Entry
      BY <1>1 DEF Entry, Amendment
    <2>2. s = [i \in 1..n |-> s[i]]
      OBVIOUS
    <2> HIDE DEF n
    <2> QED
      BY <1>2, <2>1, <2>2, IsList
  <1>4. lines \in Surjection(1..n, DOMAIN p)
    <2>1. 1 \in Int /\ n \in Int
      BY <1>2
    <2>2. IsFiniteSet(1..n) /\ Cardinality(1..n) = n
      <3> HIDE DEF n
      <3> QED
        BY <1>2, <2>1, FS_Interval
    <2>3. lines \in Injection(1..n, DOMAIN p)
      BY DEF Injection, IsInjective
    <2>4. Cardinality(1..n) = Cardinality(DOMAIN p)
      BY <2>2
    <2> HIDE DEF n
    <2> QED
      BY <1>1, <2>3, <2>4, FS_Injection
  <1>5. LinesOf(s) = DOMAIN p
    <2>1. \A l \in DOMAIN p : \E i \in 1..n : lines[i] = l
      BY <1>4 DEF Surjection
    <2>2. DOMAIN s = 1..n /\ \A i \in 1..n : s[i].line = lines[i] /\ lines[i] \in DOMAIN p
      OBVIOUS
    <2>3. \A i \in DOMAIN s : s[i].line \in DOMAIN p
      BY <2>2
    <2>4. \A l \in DOMAIN p : \E i \in DOMAIN s : s[i].line = l
      BY <2>1, <2>2
    <2> QED
      BY ONLY <2>3, <2>4, LinesReached
  <1>6. \A i \in DOMAIN s : s[i].line = lines[i] /\ s[i].asked = p[s[i].line]
    OBVIOUS
  <1>7. \A i, j \in DOMAIN s : s[i].line = s[j].line => i = j
    BY <1>6
  <1> QED
    BY <1>3, <1>5, <1>6, <1>7 DEF AsksFor

LEMMA NextItem ==
    ASSUME NEW p \in Payloads \cup {NoRows}, NEW t, AsksFor(t, p),
           NEW s \in Seq(Entry), Suffix(s, t), s # <<>>
    PROVE  /\ Tail(s) \in Seq(Entry) /\ Suffix(Tail(s), t)
           /\ Head(s).line \in LineNos /\ Head(s).line \in DOMAIN p
           /\ Head(s).asked = p[Head(s).line] /\ Head(s).asked \in Asked
           /\ Head(s).line \in LinesOf(t)
           /\ LinesOf(s) = LinesOf(Tail(s)) \cup {Head(s).line}
           /\ Head(s).line \notin LinesOf(Tail(s))
           /\ LinesOf(s) \subseteq LinesOf(t)
  <1>1. /\ t \in Seq(Entry) /\ LinesOf(t) = DOMAIN p
        /\ \A i \in DOMAIN t : t[i].asked = p[t[i].line]
        /\ \A i, j \in DOMAIN t : t[i].line = t[j].line => i = j
    BY DEF AsksFor
  <1>2. /\ Tail(s) \in Seq(Entry) /\ Suffix(Tail(s), t)
        /\ \E n \in DOMAIN t : Head(s) = t[n]
        /\ LinesOf(s) = LinesOf(Tail(s)) \cup {Head(s).line}
        /\ Head(s).line \notin LinesOf(Tail(s))
        /\ LinesOf(s) \subseteq LinesOf(t) /\ Head(s).line \in LinesOf(t)
    BY <1>1, FirstLineOnce
  <1>3. PICK n \in DOMAIN t : Head(s) = t[n]
    BY <1>2
  <1>4. Head(s).asked = p[Head(s).line] /\ Head(s).line \in DOMAIN p
    BY <1>1, <1>2, <1>3
  <1> QED
    BY <1>2, <1>4, PayloadTypes
----------------------------------------------------------------------------
(* Requests keep their shape.                                              *)

LEMMA PostingFacts ==
    ASSUME GrnInvariant, NEW w \in Workers, ~Idle(w),
           req[w].op \in {"create", "receive"}
    PROVE  /\ ReceiptOf(req[w]) /\ req[w].asked \in Receipts
           /\ req[w] \in RequestRecord /\ DOMAIN req[w].rows # {}
           /\ req[w].op = "create" => CreateRequest(req[w]) /\ OwnNote(w)
           /\ req[w].op = "receive" =>
                /\ ReceiveRequest(req[w]) /\ RowsKnown(req[w])
                /\ req[w].grn \in DOMAIN grn
                /\ DOMAIN req[w].rows \subseteq DOMAIN items[req[w].grn]
  <1>1. /\ req[w].op = "create" => CreateRequest(req[w]) /\ OwnNote(w)
        /\ req[w].op = "receive" => ReceiveRequest(req[w]) /\ RowsKnown(req[w])
    BY DEF GrnInvariant, RequestsGrounded, NoteRequest, CreateRequest,
       ReceiveRequest, UpdateRequest, HeadRequest
  <1>2. ReceiptOf(req[w])
    BY <1>1 DEF CreateRequest, ReceiveRequest
  <1>3. req[w] \in RequestRecord
    BY BusyRecord DEF GrnInvariant
  <1> QED
    BY <1>1, <1>2, <1>3 DEF ReceiptOf, RowsKnown

LEMMA UpdateFacts ==
    ASSUME GrnInvariant, NEW w \in Workers, ~Idle(w), req[w].op = "update"
    PROVE  /\ UpdateRequest(req[w]) /\ RowsKnown(req[w])
           /\ req[w] \in RequestRecord /\ req[w].grn \in DOMAIN grn
           /\ items[req[w].grn] \in RowTables /\ grn[req[w].grn] \in Header
           /\ DOMAIN req[w].rows \subseteq DOMAIN items[req[w].grn] \cup req[w].new
           /\ InLine(req[w]) =>
                Head(req[w].lines).line \in DOMAIN items[req[w].grn]
  <1>1. UpdateRequest(req[w]) /\ RowsKnown(req[w])
    BY DEF GrnInvariant, RequestsGrounded, NoteRequest, CreateRequest,
       ReceiveRequest, UpdateRequest, HeadRequest
  <1>2. req[w] \in RequestRecord
    BY BusyRecord DEF GrnInvariant
  <1>3. req[w].grn \in DOMAIN grn
        /\ DOMAIN req[w].rows \subseteq DOMAIN items[req[w].grn] \cup req[w].new
    BY <1>1 DEF RowsKnown, UpdateRequest
  <1>4. InLine(req[w]) => Head(req[w].lines).line \in DOMAIN items[req[w].grn]
    BY <1>1, <1>3 DEF UpdateRequest
  <1> QED
    BY <1>1, <1>2, <1>3, <1>4 DEF GrnInvariant

LEMMA HeadFacts ==
    ASSUME GrnInvariant, NEW w \in Workers, ~Idle(w),
           req[w].at \in {"items", "head", "writeHead"}
    PROVE  /\ req[w].op \in {"update", "delete", "post"}
           /\ req[w].op # "update" => HeadRequest(req[w])
           /\ RowsKnown(req[w]) /\ req[w] \in RequestRecord
           /\ req[w].grn \in DOMAIN grn /\ grn[req[w].grn] \in Header
  <1>1. /\ req[w].op \in {"update", "delete", "post"}
        /\ req[w].op # "update" => HeadRequest(req[w])
        /\ RowsKnown(req[w])
    BY DEF GrnInvariant, RequestsGrounded, NoteRequest, CreateRequest,
       ReceiveRequest, UpdateRequest, HeadRequest
  <1>2. req[w] \in RequestRecord
    BY BusyRecord DEF GrnInvariant
  <1>3. req[w].grn \in DOMAIN grn
    BY <1>1 DEF RowsKnown
  <1> QED
    BY <1>1, <1>2, <1>3 DEF GrnInvariant

LEMMA OpenInvariant ==
    ASSUME GrnInvariant, NEW w \in Workers, NEW r \in RequestRecord, Open(w, r),
           \/ /\ CreateRequest(r) /\ r.grn \notin DOMAIN grn
              /\ \A v \in Workers : ~On(v, r.grn)
           \/ NoteRequest(r) /\ RowsKnown(r)
    PROVE  GrnInvariant'
  <1>1. /\ req' = [req EXCEPT ![w] = r]
        /\ UNCHANGED <<grn, items, received, repointed>>
    BY DEF Open
  <1>2. overlapped' \subseteq GrnIds
    BY DEF Open, GrnInvariant, RequestRecord
  <1> QED
    BY <1>1, <1>2, RequestStep

LEMMA OpenCreateInvariant ==
    ASSUME GrnInvariant, NEW w \in Workers, NEW g \in GrnIds,
           NEW warehouse \in Warehouses, NEW payload \in Payloads,
           NEW s \in Receipts, NEW autoPost \in BOOLEAN,
           OpenCreate(w, g, warehouse, payload, s, autoPost)
    PROVE  GrnInvariant'
  <1> DEFINE rows == Rows(payload)
             head == Draft(warehouse)
             r == [Request("create", g, "receive", head, rows, s)
                     EXCEPT !.autoPost = autoPost]
  <1>1. /\ Open(w, r) /\ g \notin DOMAIN grn /\ \A v \in Workers : ~On(v, g)
        /\ Complete(payload)
    BY DEF OpenCreate
  <1>2. rows \in RowTables /\ DOMAIN rows # {} /\ head \in Header
    BY <1>1, PayloadRows DEF Draft, Header
  <1>3. s \in Seq(Entry) /\ Suffix(s, s)
    BY ReceiptTypes, SuffixOfItself
  <1> HIDE DEF rows, head
  <1>4. r \in RequestRecord /\ r.grn = g
    BY <1>2, <1>3 DEF Request, RequestRecord, Stages
  <1>5. CreateRequest(r)
    BY <1>2, <1>3 DEF Request, CreateRequest, ReceiptOf, InLine, Through, Remaining,
       SetsOnlyRows
  <1> HIDE DEF r
  <1> QED
    BY <1>1, <1>4, <1>5, OpenInvariant

LEMMA OpenReceiveInvariant ==
    ASSUME GrnInvariant, NEW w \in Workers, NEW g \in DOMAIN grn,
           NEW s \in Receipts, OpenReceive(w, g, s)
    PROVE  GrnInvariant'
  <1> DEFINE r == Request("receive", g, "find", grn[g], items[g], s)
  <1>1. Open(w, r) /\ g \in GrnIds
    BY DEF OpenReceive, GrnInvariant
  <1>2. items[g] \in RowTables /\ DOMAIN items[g] # {} /\ grn[g] \in Header
    BY DEF GrnInvariant
  <1>3. s \in Seq(Entry) /\ Suffix(s, s)
    BY ReceiptTypes, SuffixOfItself
  <1>4. r \in RequestRecord /\ r.grn = g
    BY <1>1, <1>2, <1>3 DEF Request, RequestRecord, Stages
  <1>5. ReceiveRequest(r)
    BY <1>2, <1>3 DEF Request, ReceiveRequest, ReceiptOf, InLine, Through, Remaining,
       SetsOnlyRows
  <1>6. RowsKnown(r)
    BY DEF Request, RowsKnown
  <1> HIDE DEF r
  <1> QED
    BY <1>1, <1>4, <1>5, <1>6, OpenInvariant DEF NoteRequest

LEMMA OpenUpdateInvariant ==
    ASSUME GrnInvariant, NEW w \in Workers, NEW g \in DOMAIN grn,
           NEW warehouse \in Warehouses, NEW p \in Payloads \cup {NoRows},
           OpenUpdate(w, g, warehouse, p)
    PROVE  GrnInvariant'
  <1>1. PICK lines \in [1..Cardinality(DOMAIN p) -> DOMAIN p] :
          /\ \A i, j \in DOMAIN lines : lines[i] = lines[j] => i = j
          /\ Open(w, Request("update", g, "head",
                             [grn[g] EXCEPT !.warehouse = warehouse], items[g],
                             [i \in DOMAIN lines |->
                                [line |-> lines[i], asked |-> p[lines[i]]]]))
    BY DEF OpenUpdate
  <1> DEFINE s == [i \in DOMAIN lines |-> [line |-> lines[i], asked |-> p[lines[i]]]]
             head == [grn[g] EXCEPT !.warehouse = warehouse]
             r == Request("update", g, "head", head, items[g], s)
  <1>2. s \in Seq(Entry) /\ AsksFor(s, p)
    <2> DEFINE t == s
    <2>1. t = [i \in DOMAIN lines |-> [line |-> lines[i], asked |-> p[lines[i]]]]
      OBVIOUS
    <2> HIDE DEF t
    <2>2. t \in Seq(Entry) /\ AsksFor(t, p)
      BY <1>1, <2>1, AskedList
    <2> QED
      BY <2>2 DEF t
  <1>3. g \in GrnIds /\ items[g] \in RowTables /\ head \in Header
    BY DEF GrnInvariant, Header
  <1>4. Open(w, r)
    BY <1>1
  <1> HIDE DEF s, head
  <1>5. Suffix(s, s)
    BY <1>2, SuffixOfItself
  <1>6. r \in RequestRecord /\ r.grn = g
    BY <1>2, <1>3 DEF Request, RequestRecord, Stages
  <1>7. UpdateRequest(r)
    BY <1>2, <1>5 DEF Request, UpdateRequest, InLine, SetsOnlyRows
  <1>8. RowsKnown(r)
    BY DEF Request, RowsKnown
  <1> HIDE DEF r
  <1> QED
    BY <1>4, <1>6, <1>7, <1>8, OpenInvariant DEF NoteRequest

LEMMA OpenHeadInvariant ==
    ASSUME GrnInvariant, NEW w \in Workers, NEW g \in DOMAIN grn,
           OpenDelete(w, g) \/ OpenPost(w, g)
    PROVE  GrnInvariant'
  <1> DEFINE gone == [grn[g] EXCEPT !.deleted = TRUE]
             d == Request("delete", g, "head", gone, items[g], <<>>)
             p == Request("post", g, "items", grn[g], items[g], <<>>)
  <1>1. /\ g \in GrnIds /\ items[g] \in RowTables /\ grn[g] \in Header
        /\ gone \in Header /\ <<>> \in Seq(Entry)
    <2>1. g \in GrnIds /\ items[g] \in RowTables /\ grn[g] \in Header
      BY DEF GrnInvariant
    <2>2. gone \in Header
      BY <2>1 DEF Header
    <2>3. <<>> \in Seq(Entry)
      OBVIOUS
    <2> QED
      BY <2>1, <2>2, <2>3
  <1>2. CASE OpenDelete(w, g)
    <2>1. Open(w, d)
      BY <1>2 DEF OpenDelete
    <2> HIDE DEF gone
    <2>2. d \in RequestRecord /\ HeadRequest(d) /\ RowsKnown(d)
      BY <1>1 DEF Request, RequestRecord, Stages, HeadRequest, RowsKnown
    <2> HIDE DEF d
    <2> QED
      BY <2>1, <2>2, OpenInvariant DEF NoteRequest
  <1>3. CASE OpenPost(w, g)
    <2>1. Open(w, p)
      BY <1>3 DEF OpenPost
    <2>2. p \in RequestRecord /\ HeadRequest(p) /\ RowsKnown(p)
      BY <1>1 DEF Request, RequestRecord, Stages, HeadRequest, RowsKnown
    <2> HIDE DEF p
    <2> QED
      BY <2>1, <2>2, OpenInvariant DEF NoteRequest
  <1> QED
    BY <1>2, <1>3

(* A step of a request that stays with its note, and the end of one.       *)
LEMMA OwnStep ==
    ASSUME GrnInvariant, NEW w \in Workers, UNCHANGED <<grn, items, history>>,
           NEW r, req' = [req EXCEPT ![w] = r],
           \/ r = NoRequest
           \/ /\ r \in RequestRecord /\ r.grn = req[w].grn
              /\ \/ CreateRequest(r) /\ OwnNote(w)
                 \/ NoteRequest(r) /\ RowsKnown(r)
    PROVE  GrnInvariant'
  <1>1. UNCHANGED <<grn, items, received, repointed>> /\ overlapped' \subseteq GrnIds
    BY DEF history, GrnInvariant
  <1>2. CreateRequest(r) /\ OwnNote(w) /\ r.grn = req[w].grn
        => r.grn \notin DOMAIN grn /\ \A v \in Workers \ {w} : ~On(v, r.grn)
    BY DEF OwnNote
  <1> QED
    BY <1>1, <1>2, RequestStep

LEMMA EndInvariant ==
    ASSUME GrnInvariant, NEW w \in Workers, UNCHANGED <<grn, items, history>>, End(w)
    PROVE  GrnInvariant'
  BY OwnStep DEF End

LEMMA CheckReceivedInvariant ==
    ASSUME GrnInvariant, NEW w \in Workers, CheckReceived(w)
    PROVE  GrnInvariant'
  <1>1. UNCHANGED <<grn, items, history>> /\ ~Idle(w) /\ req[w].at = "items"
    BY DEF CheckReceived, At
  <1>2. CASE End(w)
    BY <1>1, <1>2, EndInvariant
  <1>3. CASE req' = [req EXCEPT ![w].head.status = "posted", ![w].at = "head"]
    <2> DEFINE r == [req[w] EXCEPT !.head.status = "posted", !.at = "head"]
    <2>1. req' = [req EXCEPT ![w] = r]
      BY <1>3 DEF GrnInvariant
    <2>2. RowsKnown(req[w]) /\ req[w] \in RequestRecord /\ HeadRequest(req[w])
      <3>1. /\ RowsKnown(req[w]) /\ req[w] \in RequestRecord
            /\ req[w].op # "update" => HeadRequest(req[w])
        BY <1>1, HeadFacts
      <3>2. req[w].op # "update"
        BY <1>1 DEF GrnInvariant, RequestsGrounded, NoteRequest, CreateRequest,
           ReceiveRequest, UpdateRequest, HeadRequest
      <3> QED
        BY <3>1, <3>2
    <2>3. [req[w].head EXCEPT !.status = "posted"] \in Header
      BY <2>2 DEF RequestRecord, Header
    <2>4. r = [req[w] EXCEPT !.head = [req[w].head EXCEPT !.status = "posted"], !.at = "head"]
      BY <2>2 DEF RequestRecord
    <2>5. r \in RequestRecord /\ r.op = req[w].op /\ r.at = "head" /\ r.grn = req[w].grn
          /\ r.rows = req[w].rows /\ r.new = req[w].new
      BY <2>2, <2>3, <2>4 DEF RequestRecord, Stages
    <2> HIDE DEF r
    <2>6. NoteRequest(r) /\ RowsKnown(r)
      BY <2>2, <2>5 DEF NoteRequest, HeadRequest, RowsKnown
    <2> QED
      BY <1>1, <2>1, <2>5, <2>6, OwnStep
  <1> QED
    BY <1>2, <1>3 DEF CheckReceived

LEMMA LoadHeadInvariant ==
    ASSUME GrnInvariant, NEW w \in Workers, LoadHead(w)
    PROVE  GrnInvariant'
  <1> DEFINE d == Differing(req[w].head, grn[req[w].grn])
             r == [req[w] EXCEPT !.diff = d, !.at = "writeHead"]
  <1>1. UNCHANGED <<grn, items, history>> /\ ~Idle(w) /\ req[w].at = "head"
    BY DEF LoadHead, At
  <1>2. /\ RowsKnown(req[w]) /\ req[w] \in RequestRecord
        /\ grn[req[w].grn] \in Header
        /\ req[w].op # "update" => HeadRequest(req[w])
    BY <1>1, HeadFacts
  <1>3. req' = [req EXCEPT ![w] = r]
    BY <1>2 DEF LoadHead, GrnInvariant, RequestRecord
  <1>4. d \in SUBSET Columns
    BY <1>2 DEF Differing, Header, Columns
  <1> HIDE DEF d
  <1>5. r \in RequestRecord /\ r.grn = req[w].grn
    BY <1>2, <1>4 DEF RequestRecord, Stages
  <1>6. RowsKnown(r)
    BY <1>2 DEF RowsKnown, RequestRecord
  <1>7. NoteRequest(r)
    <2>1. CASE req[w].op = "update"
      <3>1. UpdateRequest(req[w])
        BY <1>1, <2>1, UpdateFacts
      <3>2. UpdateRequest(r)
        BY <1>1, <1>2, <3>1 DEF UpdateRequest, InLine, RequestRecord, SetsOnlyRows
      <3> QED
        BY <3>2 DEF NoteRequest
    <2>2. CASE req[w].op # "update"
      BY <1>2, <2>2 DEF HeadRequest, NoteRequest, RequestRecord
    <2> QED
      BY <2>1, <2>2
  <1> HIDE DEF r
  <1> QED
    BY <1>1, <1>3, <1>5, <1>6, <1>7, OwnStep

LEMMA WriteHeadInvariant ==
    ASSUME GrnInvariant, NEW w \in Workers, WriteHead(w)
    PROVE  GrnInvariant'
  <1>1. /\ UNCHANGED <<grn, items, history>> /\ ~Idle(w) /\ req[w].at = "writeHead"
        /\ req[w].op = "update"
    BY DEF WriteHead, At
  <1>2. UpdateRequest(req[w]) /\ RowsKnown(req[w]) /\ req[w] \in RequestRecord
    BY <1>1, UpdateFacts
  <1>3. PICK r : /\ req' = [req EXCEPT ![w] = r]
                 /\ \/ r = [req[w] EXCEPT !.at = "find"]
                    \/ r = [req[w] EXCEPT !.headSet = req[w].diff, !.diff = {},
                                          !.headLock = TRUE, !.at = "find"]
    <2>1. CASE req' = [req EXCEPT ![w].at = "find"]
      BY <2>1 DEF GrnInvariant
    <2>2. CASE req' = [req EXCEPT ![w].headSet = req[w].diff, ![w].diff = {},
                                  ![w].headLock = TRUE, ![w].at = "find"]
      <3> DEFINE t == [req[w] EXCEPT !.headSet = req[w].diff, !.diff = {},
                                     !.headLock = TRUE, !.at = "find"]
      <3>1. req' = [req EXCEPT ![w] = t]
        BY <1>2, <2>2 DEF GrnInvariant, RequestRecord
      <3> QED
        BY <3>1
    <2> QED
      BY <2>1, <2>2 DEF WriteHead
  <1>4. r \in RequestRecord /\ r.grn = req[w].grn /\ r.at = "find"
    BY ZenonT(60), <1>2, <1>3 DEF RequestRecord, Stages
  <1>5. RowsKnown(r)
    BY <1>2, <1>3 DEF RowsKnown, RequestRecord
  <1>6. UpdateRequest(r)
    BY <1>1, <1>2, <1>3 DEF UpdateRequest, InLine, RequestRecord, SetsOnlyRows
  <1> QED
    BY <1>1, <1>3, <1>4, <1>5, <1>6, OwnStep DEF NoteRequest

LEMMA FindInvariant ==
    ASSUME GrnInvariant, NEW w \in Workers, FindForUpdate(w) \/ FindForReceive(w)
    PROVE  GrnInvariant'
  <1> DEFINE now == items[req[w].grn]
             u == [req[w] EXCEPT !.rows = now, !.at = "amend"]
             p == [req[w] EXCEPT !.rows = now, !.at = "receive"]
  <1>1. UNCHANGED <<grn, items, history>> /\ ~Idle(w) /\ req[w].at = "find"
    BY DEF FindForUpdate, FindForReceive, At
  <1>2. CASE End(w)
    BY <1>1, <1>2, EndInvariant
  <1>3. CASE FindForUpdate(w)
    <2>1. req' = [req EXCEPT ![w] = u] /\ req[w].op = "update"
      BY <1>3 DEF FindForUpdate, GrnInvariant
    <2>2. /\ UpdateRequest(req[w]) /\ RowsKnown(req[w]) /\ req[w] \in RequestRecord
          /\ now \in RowTables
      BY <1>1, <2>1, UpdateFacts
    <2> HIDE DEF now
    <2>3. u \in RequestRecord /\ u.grn = req[w].grn
      BY <2>2 DEF RequestRecord, Stages
    <2>4. RowsKnown(u)
      BY <2>2 DEF RowsKnown, RequestRecord, now
    <2>5. UpdateRequest(u)
      <3>1. /\ u.op = "update" /\ u.at = "amend" /\ u.asked = req[w].asked
            /\ u.lines = req[w].lines /\ u.new = req[w].new /\ u.rowsSet = req[w].rowsSet
        BY <2>1, <2>2 DEF RequestRecord
      <3> HIDE DEF u
      <3> QED
        BY <1>1, <2>2, <3>1 DEF UpdateRequest, InLine, SetsOnlyRows
    <2> HIDE DEF u
    <2> QED
      BY <1>1, <2>1, <2>3, <2>4, <2>5, OwnStep DEF NoteRequest
  <1>4. CASE FindForReceive(w) /\ ~End(w)
    <2>1. req' = [req EXCEPT ![w] = p] /\ req[w].op = "receive"
      BY <1>4 DEF FindForReceive, GrnInvariant
    <2>2. /\ ReceiveRequest(req[w]) /\ RowsKnown(req[w]) /\ req[w] \in RequestRecord
          /\ ReceiptOf(req[w]) /\ req[w].grn \in DOMAIN grn
      BY <1>1, <2>1, PostingFacts
    <2>3. now \in RowTables /\ DOMAIN now # {}
      BY <2>2 DEF GrnInvariant
    <2> HIDE DEF now
    <2>4. p \in RequestRecord /\ p.grn = req[w].grn
      BY <2>2, <2>3 DEF RequestRecord, Stages
    <2>5. RowsKnown(p)
      BY <2>2 DEF RowsKnown, RequestRecord, now
    <2>6. ReceiveRequest(p)
      <3>1. /\ p.op = "receive" /\ p.at = "receive" /\ p.asked = req[w].asked
            /\ p.lines = req[w].lines /\ p.new = req[w].new /\ p.rows = now
            /\ req[w].lines = req[w].asked /\ p.rowsSet = [l \in LineNos |-> {}]
        BY <1>1, <2>1, <2>2 DEF RequestRecord, ReceiveRequest
      <3> HIDE DEF p
      <3>2. Through(p) = {}
        BY <3>1 DEF Through, Remaining, InLine
      <3> QED
        BY <2>2, <2>3, <3>1, <3>2 DEF ReceiveRequest, ReceiptOf, InLine, SetsOnlyRows
    <2> HIDE DEF p
    <2> QED
      BY <1>1, <2>1, <2>4, <2>5, <2>6, OwnStep DEF NoteRequest
  <1> QED
    BY <1>2, <1>3, <1>4

(* An update that has come to its lines.                                   *)
LEMMA AmendFacts ==
    ASSUME GrnInvariant, NEW w \in Workers, ~Idle(w), req[w].at = "amend",
           req[w].lines # <<>>
    PROVE  /\ req[w].op = "update" /\ UpdateRequest(req[w]) /\ RowsKnown(req[w])
           /\ req[w] \in RequestRecord /\ req[w].grn \in DOMAIN grn
           /\ items[req[w].grn] \in RowTables
           /\ Head(req[w].lines).line \in LineNos /\ Head(req[w].lines).asked \in Asked
           /\ Tail(req[w].lines) \in Seq(Entry)
           /\ Suffix(Tail(req[w].lines), req[w].asked)
           /\ LinesOf(req[w].lines)
                = LinesOf(Tail(req[w].lines)) \cup {Head(req[w].lines).line}
           /\ Head(req[w].lines).line \notin LinesOf(Tail(req[w].lines))
  <1>1. req[w].op = "update"
    BY DEF GrnInvariant, RequestsGrounded, NoteRequest, CreateRequest,
       ReceiveRequest, UpdateRequest, HeadRequest
  <1>2. /\ UpdateRequest(req[w]) /\ RowsKnown(req[w]) /\ req[w] \in RequestRecord
        /\ req[w].grn \in DOMAIN grn /\ items[req[w].grn] \in RowTables
    BY <1>1, UpdateFacts
  <1>3. PICK p \in Payloads \cup {NoRows} : AsksFor(req[w].asked, p)
    BY <1>2 DEF UpdateRequest
  <1>4. req[w].lines \in Seq(Entry) /\ Suffix(req[w].lines, req[w].asked)
    BY <1>2 DEF UpdateRequest, RequestRecord
  <1> DEFINE t == req[w].asked
             s == req[w].lines
  <1>5. AsksFor(t, p) /\ s \in Seq(Entry) /\ Suffix(s, t) /\ s # <<>>
    BY <1>3, <1>4
  <1> HIDE DEF s, t
  <1>6. /\ Tail(s) \in Seq(Entry) /\ Suffix(Tail(s), t)
        /\ Head(s).line \in LineNos /\ Head(s).asked \in Asked
        /\ LinesOf(s) = LinesOf(Tail(s)) \cup {Head(s).line}
        /\ Head(s).line \notin LinesOf(Tail(s))
    BY <1>5, NextItem
  <1> QED
    BY <1>1, <1>2, <1>6 DEF s, t

LEMMA AmendLineInvariant ==
    ASSUME GrnInvariant, NEW w \in Workers, AmendLine(w)
    PROVE  GrnInvariant'
  <1> DEFINE l == Head(req[w].lines).line
             a == Head(req[w].lines).asked
             row == Overlay(req[w].rows[l], a, DOMAIN a)
             rows == [req[w].rows EXCEPT ![l] = row]
             r == [req[w] EXCEPT !.rows = rows, !.at = "loadRow"]
  <1>1. /\ UNCHANGED <<grn, items, history>> /\ ~Idle(w) /\ req[w].at = "amend"
        /\ req[w].lines # <<>> /\ l \in DOMAIN req[w].rows
    BY DEF AmendLine, At
  <1>2. /\ req[w].op = "update" /\ UpdateRequest(req[w]) /\ RowsKnown(req[w])
        /\ req[w] \in RequestRecord /\ l \in LineNos /\ a \in Asked
        /\ LinesOf(req[w].lines) = LinesOf(Tail(req[w].lines)) \cup {l}
    BY <1>1, AmendFacts
  <1>3. CASE End(w)
    BY <1>1, <1>3, EndInvariant
  <1>4. CASE ~End(w)
    <2>1. req' = [req EXCEPT ![w] = r]
      BY <1>2, <1>4 DEF AmendLine, GrnInvariant, RequestRecord
    <2>2. req[w].rows \in RowTables
      BY <1>2 DEF RequestRecord
    <2>3. req[w].rows[l] \in Item
      BY <1>1, <2>2, RowTypes
    <2>4. row \in Item
      BY <1>2, <2>3, OverlayAsked
    <2> HIDE DEF row
    <2>5. rows \in RowTables /\ DOMAIN rows = DOMAIN req[w].rows
      BY <2>2, <2>4 DEF RowTables
    <2> HIDE DEF rows
    <2>6. r \in RequestRecord /\ r.grn = req[w].grn
      BY <1>2, <2>5 DEF RequestRecord, Stages
    <2>7. RowsKnown(r)
      BY <1>2, <2>5 DEF RowsKnown, RequestRecord
    <2>8. UpdateRequest(r)
      <3>1. /\ r.op = "update" /\ r.at = "loadRow" /\ r.asked = req[w].asked
            /\ r.lines = req[w].lines /\ r.new = req[w].new /\ r.rowsSet = req[w].rowsSet
            /\ DOMAIN r.rows = DOMAIN req[w].rows
        BY <1>2, <2>5 DEF RequestRecord
      <3>2. l \notin req[w].new
        BY <1>2 DEF UpdateRequest
      <3> HIDE DEF r
      <3> QED
        BY <1>1, <1>2, <3>1, <3>2 DEF UpdateRequest, InLine, SetsOnlyRows
    <2> HIDE DEF r
    <2> QED
      BY <1>1, <2>1, <2>6, <2>7, <2>8, OwnStep DEF NoteRequest
  <1> QED
    BY <1>3, <1>4

(* The request once it has inserted its next line.                         *)
WithLine(r) ==
    LET line == Head(r.lines)
    IN  [r EXCEPT
           !.rows = [m \in DOMAIN r.rows \cup {line.line} |->
                       IF m = line.line THEN NewRow(line.asked) ELSE r.rows[m]],
           !.new = r.new \cup {line.line}, !.locks = r.locks \cup {line.line},
           !.lines = Tail(r.lines)]

LEMMA InsertLineIs ==
    ASSUME GrnInvariant, NEW w \in Workers, InsertLine(w)
    PROVE  \/ End(w)
           \/ /\ req' = [req EXCEPT ![w] = WithLine(req[w])]
              /\ "sku" \in DOMAIN Head(req[w].lines).asked
              /\ Head(req[w].lines).line \notin DOMAIN items[req[w].grn]
  <1> SUFFICES ASSUME ~End(w)
               PROVE  /\ req' = [req EXCEPT ![w] = WithLine(req[w])]
                      /\ "sku" \in DOMAIN Head(req[w].lines).asked
                      /\ Head(req[w].lines).line \notin DOMAIN items[req[w].grn]
    OBVIOUS
  <1>1. req[w] \in RequestRecord
    BY BusyRecord DEF InsertLine, At, GrnInvariant
  <1> QED
    BY <1>1 DEF InsertLine, WithLine, GrnInvariant, RequestRecord

LEMMA InsertLineInvariant ==
    ASSUME GrnInvariant, NEW w \in Workers, InsertLine(w)
    PROVE  GrnInvariant'
  <1> DEFINE l == Head(req[w].lines).line
             a == Head(req[w].lines).asked
             rows == [m \in DOMAIN req[w].rows \cup {l} |->
                        IF m = l THEN NewRow(a) ELSE req[w].rows[m]]
             r == [req[w] EXCEPT !.rows = rows, !.new = req[w].new \cup {l},
                                 !.locks = req[w].locks \cup {l},
                                 !.lines = Tail(req[w].lines)]
  <1>1. /\ UNCHANGED <<grn, items, history>> /\ ~Idle(w) /\ req[w].at = "amend"
        /\ req[w].lines # <<>> /\ l \notin DOMAIN req[w].rows
    BY DEF InsertLine, At
  <1>2. /\ req[w].op = "update" /\ UpdateRequest(req[w]) /\ RowsKnown(req[w])
        /\ req[w] \in RequestRecord /\ l \in LineNos /\ a \in Asked
        /\ Tail(req[w].lines) \in Seq(Entry)
        /\ Suffix(Tail(req[w].lines), req[w].asked)
        /\ LinesOf(req[w].lines) = LinesOf(Tail(req[w].lines)) \cup {l}
        /\ l \notin LinesOf(Tail(req[w].lines))
    BY <1>1, AmendFacts
  <1>3. CASE End(w)
    BY <1>1, <1>3, EndInvariant
  <1>4. CASE ~End(w)
    <2>1. req' = [req EXCEPT ![w] = r] /\ "sku" \in DOMAIN a
      BY <1>4, InsertLineIs DEF WithLine
    <2>2. req[w].rows \in RowTables /\ NewRow(a) \in Item
      BY <1>2, <2>1, NewRowTypes DEF RequestRecord
    <2>3. rows \in RowTables /\ DOMAIN rows = DOMAIN req[w].rows \cup {l}
      <3>1. DOMAIN req[w].rows \cup {l} \subseteq LineNos
        BY <1>2, <2>2, RowTypes
      <3>2. rows \in [DOMAIN req[w].rows \cup {l} -> Item]
        BY <2>2, RowTypes
      <3> HIDE DEF rows
      <3> QED
        BY <3>1, <3>2 DEF RowTables
    <2> HIDE DEF rows
    <2>4. r \in RequestRecord /\ r.grn = req[w].grn
      BY <1>2, <2>3 DEF RequestRecord, Stages
    <2>5. RowsKnown(r)
      BY <1>2, <2>3 DEF RowsKnown, RequestRecord
    <2>6. UpdateRequest(r)
      <3>1. /\ r.op = "update" /\ r.at = "amend" /\ r.asked = req[w].asked
            /\ r.lines = Tail(req[w].lines) /\ r.new = req[w].new \cup {l}
            /\ r.rowsSet = req[w].rowsSet
            /\ DOMAIN r.rows = DOMAIN req[w].rows \cup {l}
        BY <1>1, <1>2, <2>3 DEF RequestRecord
      <3> HIDE DEF r
      <3> QED
        BY <1>1, <1>2, <3>1 DEF UpdateRequest, InLine, SetsOnlyRows
    <2> HIDE DEF r
    <2> QED
      BY <1>1, <2>1, <2>4, <2>5, <2>6, OwnStep DEF NoteRequest
  <1> QED
    BY <1>3, <1>4

(* A receipt that has come to a line.                                      *)
LEMMA ReceiptFacts ==
    ASSUME GrnInvariant, NEW w \in Workers, ~Idle(w),
           req[w].op \in {"create", "receive"}, req[w].lines # <<>>
    PROVE  /\ Head(req[w].lines).line \in LineNos
           /\ Head(req[w].lines).qty \in Nat \ {0}
           /\ QtyIn(req[w].asked, Head(req[w].lines).line) = Head(req[w].lines).qty
           /\ Tail(req[w].lines) \in Seq(Entry)
           /\ Suffix(Tail(req[w].lines), req[w].asked)
           /\ LinesOf(req[w].lines)
                = LinesOf(Tail(req[w].lines)) \cup {Head(req[w].lines).line}
           /\ Head(req[w].lines).line \notin LinesOf(Tail(req[w].lines))
           /\ Head(req[w].lines).line \in LinesOf(req[w].asked)
           /\ LinesOf(req[w].lines) \subseteq LinesOf(req[w].asked)
  <1>1. /\ req[w].asked \in Receipts /\ Suffix(req[w].lines, req[w].asked)
        /\ req[w].lines \in Seq(Entry)
    BY PostingFacts DEF ReceiptOf, RequestRecord
  <1> QED
    BY <1>1, NextLine

(* A step of a receipt that stays within its note and its list.            *)
LEMMA ReceiptStep ==
    ASSUME GrnInvariant, NEW w \in Workers, UNCHANGED <<grn, items, history>>,
           ~Idle(w), req[w].op \in {"create", "receive"}, req[w].at # "find",
           NEW r \in RequestRecord, req' = [req EXCEPT ![w] = r],
           r.grn = req[w].grn, r.op = req[w].op, r.asked = req[w].asked,
           r.new = req[w].new, DOMAIN r.rows = DOMAIN req[w].rows,
           r.at \in {"receive", "loadRow", "writeRow", "balance"},
           Suffix(r.lines, r.asked),
           InLine(r) => r.lines # <<>> /\ Head(r.lines).line \in DOMAIN r.rows,
           Through(r) \subseteq DOMAIN r.rows, SetsOnlyRows(r)
    PROVE  GrnInvariant'
  <1>1. /\ ReceiptOf(req[w])
        /\ req[w].op = "create" => CreateRequest(req[w]) /\ OwnNote(w)
        /\ req[w].op = "receive" => ReceiveRequest(req[w]) /\ RowsKnown(req[w])
    BY PostingFacts
  <1>2. ReceiptOf(r)
    BY <1>1 DEF ReceiptOf
  <1>3. CASE r.op = "create"
    BY <1>1, <1>2, <1>3, OwnStep DEF CreateRequest
  <1>4. CASE r.op = "receive"
    <2>1. ReceiveRequest(r)
      BY <1>2, <1>4 DEF ReceiveRequest
    <2>2. RowsKnown(r)
      BY <1>1, <1>4 DEF RowsKnown
    <2> QED
      BY <2>1, <2>2, OwnStep DEF NoteRequest
  <1> QED
    BY <1>3, <1>4

LEMMA ReceiveLineInvariant ==
    ASSUME GrnInvariant, NEW w \in Workers, ReceiveLine(w)
    PROVE  GrnInvariant'
  <1> DEFINE l == Head(req[w].lines).line
             q == Head(req[w].lines).qty
             row == [req[w].rows[l] EXCEPT !.received = @ + q]
             rows == [req[w].rows EXCEPT ![l] = row]
             r == [req[w] EXCEPT !.rows = rows, !.at = "loadRow"]
  <1>1. /\ UNCHANGED <<grn, items, history>> /\ ~Idle(w) /\ req[w].at = "receive"
        /\ req[w].lines # <<>>
    BY DEF ReceiveLine, At
  <1>2. req[w].op \in {"create", "receive"}
    BY <1>1 DEF GrnInvariant, RequestsGrounded, NoteRequest, CreateRequest,
       ReceiveRequest, UpdateRequest, HeadRequest
  <1>3. /\ ReceiptOf(req[w]) /\ req[w] \in RequestRecord
        /\ l \in LineNos /\ q \in Nat
        /\ LinesOf(req[w].lines) = LinesOf(Tail(req[w].lines)) \cup {l}
    BY <1>1, <1>2, PostingFacts, ReceiptFacts
  <1>4. CASE End(w)
    BY <1>1, <1>4, EndInvariant
  <1>5. CASE ~End(w)
    <2>1. l \in DOMAIN req[w].rows
      BY <1>5 DEF ReceiveLine
    <2>2. req[w].rows \in RowTables
      BY <1>3 DEF RequestRecord
    <2>3. req[w].rows[l] \in Item
      BY <2>1, <2>2, RowTypes
    <2>4. row \in Item
      BY <1>3, <2>3 DEF Item
    <2>5. req' = [req EXCEPT ![w] = r]
      <3>1. req' = [req EXCEPT ![w].rows[l].received = @ + q, ![w].at = "loadRow"]
        BY <1>5 DEF ReceiveLine
      <3> HIDE DEF l, q
      <3> QED
        BY <1>3, <2>1, <2>2, <3>1 DEF GrnInvariant, RequestRecord
    <2> HIDE DEF row
    <2>6. rows \in RowTables /\ DOMAIN rows = DOMAIN req[w].rows
      BY <2>2, <2>4 DEF RowTables
    <2> HIDE DEF rows
    <2>7. r \in RequestRecord
      BY <1>3, <2>6 DEF RequestRecord, Stages
    <2>8. /\ r.op = req[w].op /\ r.at = "loadRow" /\ r.asked = req[w].asked
          /\ r.lines = req[w].lines /\ r.new = req[w].new /\ r.grn = req[w].grn
          /\ DOMAIN r.rows = DOMAIN req[w].rows /\ r.rowsSet = req[w].rowsSet
      BY <1>3, <2>6 DEF RequestRecord
    <2> HIDE DEF r
    <2>9. Through(r) \subseteq DOMAIN r.rows
      <3>1. Through(req[w]) \subseteq DOMAIN req[w].rows
        BY <1>3 DEF ReceiptOf
      <3>2. Through(r) \subseteq Through(req[w]) \cup {l}
        BY <1>1, <1>3, <2>8 DEF Through, Remaining, InLine
      <3> QED
        BY <2>1, <2>8, <3>1, <3>2
    <2>10. Suffix(r.lines, r.asked) /\ SetsOnlyRows(r)
      BY <1>3, <2>8 DEF ReceiptOf, SetsOnlyRows
    <2> QED
      BY <1>1, <1>2, <2>1, <2>5, <2>7, <2>8, <2>9, <2>10, ReceiptStep
  <1> QED
    BY <1>4, <1>5

(* The request of a line being saved.                                      *)
LEMMA InLineFacts ==
    ASSUME GrnInvariant, NEW w \in Workers, ~Idle(w), InLine(req[w])
    PROVE  /\ req[w].op \in {"create", "receive", "update"}
           /\ req[w] \in RequestRecord /\ req[w].lines # <<>>
           /\ Head(req[w].lines).line \in DOMAIN req[w].rows
           /\ Head(req[w].lines).line \in LineNos
           /\ req[w].rows[Head(req[w].lines).line] \in Item
           /\ req[w].op = "update" =>
                /\ UpdateRequest(req[w]) /\ RowsKnown(req[w])
                /\ req[w].at \in {"loadRow", "writeRow"}
           /\ req[w].op # "create" =>
                /\ req[w].grn \in DOMAIN grn
                /\ Head(req[w].lines).line \in DOMAIN items[req[w].grn]
                /\ items[req[w].grn][Head(req[w].lines).line] \in Item
  <1>1. req[w].op \in {"create", "receive", "update"}
    BY DEF GrnInvariant, RequestsGrounded, NoteRequest, CreateRequest,
       ReceiveRequest, UpdateRequest, HeadRequest, InLine
  <1>2. req[w] \in RequestRecord
    BY BusyRecord DEF GrnInvariant
  <1>3. CASE req[w].op = "update"
    <2>1. /\ UpdateRequest(req[w]) /\ RowsKnown(req[w]) /\ req[w].grn \in DOMAIN grn
          /\ items[req[w].grn] \in RowTables
          /\ Head(req[w].lines).line \in DOMAIN items[req[w].grn]
      BY <1>3, UpdateFacts
    <2>2. /\ req[w].lines # <<>> /\ Head(req[w].lines).line \in DOMAIN req[w].rows
          /\ req[w].at \in {"loadRow", "writeRow"}
      BY <1>3, <2>1 DEF UpdateRequest, InLine, SetsOnlyRows
    <2>3. req[w].rows \in RowTables
      BY <1>2 DEF RequestRecord
    <2> QED
      BY <1>2, <1>3, <2>1, <2>2, <2>3, RowTypes
  <1>4. CASE req[w].op \in {"create", "receive"}
    <2>1. /\ ReceiptOf(req[w])
          /\ req[w].op = "receive" =>
               /\ req[w].grn \in DOMAIN grn
               /\ DOMAIN req[w].rows \subseteq DOMAIN items[req[w].grn]
      BY <1>4, PostingFacts
    <2>2. req[w].lines # <<>> /\ Head(req[w].lines).line \in DOMAIN req[w].rows
      BY <2>1 DEF ReceiptOf
    <2>3. req[w].rows \in RowTables
      BY <1>2 DEF RequestRecord
    <2>4. req[w].op = "receive" => items[req[w].grn] \in RowTables
      BY <2>1 DEF GrnInvariant
    <2> QED
      BY <1>2, <1>4, <2>1, <2>2, <2>3, <2>4, RowTypes
  <1> QED
    BY <1>1, <1>3, <1>4

LEMMA LoadRowIs ==
    ASSUME GrnInvariant, NEW w \in Workers, LoadRow(w)
    PROVE  \E d \in SUBSET Columns :
             /\ req' = [req EXCEPT ![w] = [req[w] EXCEPT !.diff = d, !.at = "writeRow"]]
             /\ req[w].op # "create" =>
                  Differing(req[w].rows[Head(req[w].lines).line],
                            items[req[w].grn][Head(req[w].lines).line]) \subseteq d
             /\ req[w].op = "receive" => "received" \in d
  <1> DEFINE l == Head(req[w].lines).line
             dif == Differing(req[w].rows[l], items[req[w].grn][l])
             retyped == IF req[w].op = "receive" THEN {{"received"}}
                        ELSE SUBSET (DOMAIN Head(req[w].lines).asked \cap {"expected"})
  <1>1. ~Idle(w) /\ InLine(req[w])
    BY DEF LoadRow, At, InLine
  <1>2. req[w] \in RequestRecord /\ (req[w].op # "create" => items[req[w].grn][l] \in Item)
    BY <1>1, InLineFacts
  <1>3. CASE req[w].op = "create"
    <2>1. req' = [req EXCEPT ![w].at = "writeRow"]
      BY <1>3 DEF LoadRow
    <2>2. req[w].diff \in SUBSET Columns
      BY <1>2 DEF RequestRecord
    <2>3. [req[w] EXCEPT !.at = "writeRow"]
            = [req[w] EXCEPT !.diff = req[w].diff, !.at = "writeRow"]
      BY <1>2 DEF RequestRecord
    <2> QED
      BY <1>3, <2>1, <2>2, <2>3 DEF GrnInvariant
  <1>4. CASE req[w].op # "create"
    <2>1. PICK own \in retyped :
            req' = [req EXCEPT ![w].diff = own \cup dif, ![w].at = "writeRow"]
      BY <1>4 DEF LoadRow
    <2>2. own \in SUBSET Columns /\ (req[w].op = "receive" => "received" \in own)
      BY <2>1 DEF Columns
    <2>3. dif \in SUBSET Columns
      BY <1>2, <1>4 DEF Differing, Item, Columns
    <2> HIDE DEF dif
    <2>4. req' = [req EXCEPT ![w] = [req[w] EXCEPT !.diff = own \cup dif, !.at = "writeRow"]]
      BY <2>1 DEF GrnInvariant
    <2>5. own \cup dif \in SUBSET Columns /\ dif \subseteq own \cup dif
      BY <2>2, <2>3
    <2> QED
      BY <1>4, <2>2, <2>4, <2>5 DEF dif
  <1> QED
    BY <1>3, <1>4

LEMMA LoadRowInvariant ==
    ASSUME GrnInvariant, NEW w \in Workers, LoadRow(w)
    PROVE  GrnInvariant'
  <1> DEFINE l == Head(req[w].lines).line
  <1>1. UNCHANGED <<grn, items, history>> /\ ~Idle(w) /\ req[w].at = "loadRow"
    BY DEF LoadRow, At
  <1>2. InLine(req[w])
    BY <1>1 DEF InLine
  <1>3. /\ req[w].op \in {"create", "receive", "update"}
        /\ req[w] \in RequestRecord /\ req[w].lines # <<>>
        /\ l \in DOMAIN req[w].rows /\ l \in LineNos
        /\ req[w].op = "update" => UpdateRequest(req[w]) /\ RowsKnown(req[w])
        /\ req[w].op # "create" => items[req[w].grn][l] \in Item
    BY <1>1, <1>2, InLineFacts
  <1>4. PICK d \in SUBSET Columns :
          req' = [req EXCEPT ![w] = [req[w] EXCEPT !.diff = d, !.at = "writeRow"]]
    BY LoadRowIs
  <1> DEFINE r == [req[w] EXCEPT !.diff = d, !.at = "writeRow"]
  <1>5. r \in RequestRecord
    BY <1>3, <1>4 DEF RequestRecord, Stages
  <1>6. /\ r.op = req[w].op /\ r.at = "writeRow" /\ r.asked = req[w].asked
        /\ r.lines = req[w].lines /\ r.new = req[w].new /\ r.grn = req[w].grn
        /\ r.rows = req[w].rows /\ r.rowsSet = req[w].rowsSet
        /\ req' = [req EXCEPT ![w] = r]
    BY <1>3, <1>4 DEF RequestRecord
  <1> HIDE DEF r
  <1>7. CASE req[w].op = "update"
    <2>1. UpdateRequest(r)
      BY <1>1, <1>3, <1>6, <1>7 DEF UpdateRequest, InLine, SetsOnlyRows
    <2>2. RowsKnown(r)
      BY <1>3, <1>6, <1>7 DEF RowsKnown
    <2> QED
      BY <1>1, <1>5, <1>6, <2>1, <2>2, OwnStep DEF NoteRequest
  <1>8. CASE req[w].op \in {"create", "receive"}
    <2>1. ReceiptOf(req[w])
      BY <1>1, <1>8, PostingFacts
    <2>2. /\ Through(r) \subseteq DOMAIN r.rows /\ Suffix(r.lines, r.asked)
          /\ SetsOnlyRows(r)
      BY <1>1, <1>6, <2>1 DEF ReceiptOf, Through, Remaining, InLine, SetsOnlyRows
    <2> QED
      BY <1>1, <1>3, <1>5, <1>6, <1>8, <2>2, ReceiptStep
  <1> QED
    BY <1>3, <1>7, <1>8

(* The request once it has written its row.                                *)
RowWritten(r) ==
    LET l == Head(r.lines).line
        update == r.op = "update"
    IN  [r EXCEPT !.rowsSet = [r.rowsSet EXCEPT ![l] = r.diff], !.diff = {},
                  !.locks = r.locks \cup {l},
                  !.lines = IF update THEN Tail(r.lines) ELSE r.lines,
                  !.at = IF update THEN "amend" ELSE "balance"]

LEMMA WriteRowIs ==
    ASSUME GrnInvariant, NEW w \in Workers, WriteRow(w)
    PROVE  req' = [req EXCEPT ![w] = RowWritten(req[w])]
  <1> DEFINE l == Head(req[w].lines).line
  <1>1. req[w] \in RequestRecord
    BY BusyRecord DEF WriteRow, At, GrnInvariant
  <1>2. req' = [req EXCEPT ![w].rowsSet[l] = req[w].diff, ![w].diff = {},
           ![w].locks = @ \cup {l},
           ![w].lines = IF req[w].op = "update" THEN Tail(@) ELSE @,
           ![w].at = IF req[w].op = "update" THEN "amend" ELSE "balance"]
    BY DEF WriteRow
  <1> HIDE DEF l
  <1>3. req' = [req EXCEPT ![w] =
                  [req[w] EXCEPT !.rowsSet = [req[w].rowsSet EXCEPT ![l] = req[w].diff],
                     !.diff = {}, !.locks = req[w].locks \cup {l},
                     !.lines = IF req[w].op = "update" THEN Tail(req[w].lines) ELSE req[w].lines,
                     !.at = IF req[w].op = "update" THEN "amend" ELSE "balance"]]
    BY <1>1, <1>2 DEF GrnInvariant, RequestRecord
  <1> QED
    BY <1>3 DEF RowWritten, l

LEMMA WriteRowInvariant ==
    ASSUME GrnInvariant, NEW w \in Workers, WriteRow(w)
    PROVE  GrnInvariant'
  <1> DEFINE l == Head(req[w].lines).line
             update == req[w].op = "update"
             sets == [req[w].rowsSet EXCEPT ![l] = req[w].diff]
             lines == IF update THEN Tail(req[w].lines) ELSE req[w].lines
             at == IF update THEN "amend" ELSE "balance"
             r == [req[w] EXCEPT !.rowsSet = sets, !.diff = {},
                                 !.locks = req[w].locks \cup {l},
                                 !.lines = lines, !.at = at]
  <1>1. UNCHANGED <<grn, items, history>> /\ ~Idle(w) /\ req[w].at = "writeRow"
    BY DEF WriteRow, At
  <1>2. InLine(req[w])
    BY <1>1 DEF InLine
  <1>3. /\ req[w].op \in {"create", "receive", "update"}
        /\ req[w] \in RequestRecord /\ req[w].lines # <<>>
        /\ l \in DOMAIN req[w].rows /\ l \in LineNos
        /\ req[w].op = "update" => UpdateRequest(req[w]) /\ RowsKnown(req[w])
    BY <1>1, <1>2, InLineFacts
  <1>4. req' = [req EXCEPT ![w] = r]
    BY WriteRowIs DEF RowWritten
  <1>5. sets \in [LineNos -> SUBSET Columns]
    BY <1>3 DEF RequestRecord
  <1>6. Tail(req[w].lines) \in Seq(Entry)
    BY <1>3 DEF RequestRecord
  <1>7. \A m \in LineNos : sets[m] # {} => req[w].rowsSet[m] # {} \/ m = l
    BY <1>3 DEF RequestRecord
  <1> HIDE DEF sets
  <1>8. r \in RequestRecord
    BY <1>3, <1>5, <1>6 DEF RequestRecord, Stages
  <1>9. /\ r.op = req[w].op /\ r.asked = req[w].asked /\ r.grn = req[w].grn
        /\ r.new = req[w].new /\ r.rows = req[w].rows /\ r.rowsSet = sets
        /\ r.lines = lines /\ r.at = at
    BY <1>3 DEF RequestRecord
  <1> HIDE DEF r
  <1>10. CASE update
    <2>1. /\ Suffix(req[w].lines, req[w].asked) /\ req[w].lines \in Seq(Entry)
          /\ \E p \in Payloads \cup {NoRows} : AsksFor(req[w].asked, p)
      BY <1>3, <1>10 DEF UpdateRequest, RequestRecord
    <2>2. Suffix(Tail(req[w].lines), req[w].asked)
          /\ LinesOf(Tail(req[w].lines)) \subseteq LinesOf(req[w].lines)
      <3> DEFINE s == req[w].lines
                 t == req[w].asked
      <3>1. PICK p \in Payloads \cup {NoRows} : AsksFor(t, p)
        BY <2>1
      <3>2. s \in Seq(Entry) /\ Suffix(s, t) /\ s # <<>>
        BY <1>3, <2>1
      <3> HIDE DEF s, t
      <3>3. Suffix(Tail(s), t) /\ LinesOf(Tail(s)) \subseteq LinesOf(s)
        BY ZenonT(60), <3>1, <3>2, NextItem
      <3> QED
        BY <3>3 DEF s, t
    <2>3. UpdateRequest(r)
      BY <1>1, <1>3, <1>7, <1>9, <1>10, <2>1, <2>2 DEF UpdateRequest, InLine, SetsOnlyRows
    <2>4. RowsKnown(r)
      BY <1>3, <1>9, <1>10 DEF RowsKnown
    <2> QED
      BY <1>1, <1>4, <1>8, <1>9, <2>3, <2>4, OwnStep DEF NoteRequest
  <1>11. CASE ~update
    <2>1. ReceiptOf(req[w])
      BY <1>1, <1>3, <1>11, PostingFacts
    <2>2. /\ Through(r) \subseteq DOMAIN r.rows /\ Suffix(r.lines, r.asked)
          /\ SetsOnlyRows(r)
      BY <1>1, <1>3, <1>7, <1>9, <1>11, <2>1
         DEF ReceiptOf, Through, Remaining, InLine, SetsOnlyRows
    <2> QED
      BY <1>1, <1>3, <1>4, <1>8, <1>9, <1>11, <2>2, ReceiptStep
  <1> QED
    BY <1>10, <1>11

LEMMA SameNotes ==
    ASSUME GrnInvariant, UNCHANGED <<grn, items, req, history>>
    PROVE  GrnInvariant'
  BY DEF GrnInvariant, RequestsGrounded, Unreceived, HasLine, OwnNote, RowsKnown,
     On, history

LEMMA BalanceInvariant ==
    ASSUME GrnInvariant, NEW w \in Workers, BalanceStatement(w)
    PROVE  GrnInvariant'
  <1> DEFINE r == [req[w] EXCEPT !.lines = Tail(req[w].lines), !.at = "receive"]
  <1>1. UNCHANGED <<grn, items, history>> /\ ~Idle(w) /\ req[w].at = "balance"
    BY DEF BalanceStatement, At
  <1>2. CASE UNCHANGED req
    BY <1>1, <1>2, SameNotes
  <1>3. CASE req' = [req EXCEPT ![w] = NoRequest]
    BY <1>1, <1>3, EndInvariant DEF End
  <1>4. CASE req' = [req EXCEPT ![w].lines = Tail(@), ![w].at = "receive"]
    <2>1. req' = [req EXCEPT ![w] = r]
      BY <1>4 DEF GrnInvariant
    <2>2. req[w].op \in {"create", "receive"}
      BY <1>1 DEF GrnInvariant, RequestsGrounded, NoteRequest, CreateRequest,
         ReceiveRequest, UpdateRequest, HeadRequest
    <2>3. InLine(req[w])
      BY <1>1 DEF InLine
    <2>4. req[w].lines # <<>> /\ req[w] \in RequestRecord /\ ReceiptOf(req[w])
      BY <1>1, <2>2, <2>3, InLineFacts, PostingFacts
    <2>5. Tail(req[w].lines) \in Seq(Entry) /\ Suffix(Tail(req[w].lines), req[w].asked)
      BY <1>1, <2>2, <2>4, ReceiptFacts
    <2>6. r \in RequestRecord
      BY <2>4, <2>5 DEF RequestRecord, Stages
    <2>7. /\ r.op = req[w].op /\ r.asked = req[w].asked /\ r.grn = req[w].grn
          /\ r.new = req[w].new /\ r.rows = req[w].rows
          /\ r.lines = Tail(req[w].lines) /\ r.at = "receive"
          /\ r.rowsSet = req[w].rowsSet
      BY <2>4 DEF RequestRecord
    <2> HIDE DEF r
    <2>8. /\ Through(r) \subseteq DOMAIN r.rows /\ Suffix(r.lines, r.asked)
          /\ SetsOnlyRows(r)
      BY <1>1, <2>4, <2>5, <2>7
         DEF ReceiptOf, Through, Remaining, InLine, SetsOnlyRows
    <2> QED
      BY <1>1, <2>1, <2>2, <2>6, <2>7, <2>8, ReceiptStep DEF InLine
  <1> QED
    BY <1>2, <1>3, <1>4 DEF BalanceStatement

LEMMA AbandonInvariant ==
    ASSUME GrnInvariant, NEW w \in Workers, Abandon(w) \/ BreakDeadlock(w)
    PROVE  GrnInvariant'
  BY EndInvariant DEF Abandon, BreakDeadlock
----------------------------------------------------------------------------
(* The commits.                                                            *)

LEMMA CreateInvariant ==
    ASSUME GrnInvariant, NEW w \in Workers, NEW g \in GrnIds,
           NEW warehouse \in Warehouses, NEW payload \in Payloads,
           Create(w, g, warehouse, payload)
    PROVE  GrnInvariant'
  <1> DEFINE head == Draft(warehouse)
             rows == Rows(payload)
  <1>1. head \in Header
    BY DEF Draft, Header
  <1>2. rows \in RowTables /\ DOMAIN rows # {}
    BY PayloadRows DEF Create
  <1>3. /\ g \notin DOMAIN grn /\ \A v \in Workers : ~On(v, g)
        /\ UNCHANGED <<req, received, repointed, overlapped>>
        /\ grn' = [h \in DOMAIN grn \cup {g} |-> IF h = g THEN head ELSE grn[h]]
        /\ items' = [h \in DOMAIN items \cup {g} |-> IF h = g THEN rows ELSE items[h]]
    BY DEF Create
  <1> HIDE DEF head, rows
  <1>4. grn' = Put(grn, g, head) /\ items' = Put(items, g, rows)
    BY <1>3 DEF Put
  <1>5. \A v \in Workers : ~On(v, g)'
    BY <1>3 DEF On
  <1>6. /\ req' \in [Workers -> RequestRecord \cup {NoRequest}]
        /\ received' \in [GrnIds \X LineNos \X Keys -> Nat]
        /\ repointed' \subseteq GrnIds /\ overlapped' \subseteq GrnIds
        /\ \A v \in Workers : req'[v] = req[v]
    BY <1>3 DEF GrnInvariant
  <1> QED
    BY <1>1, <1>2, <1>3, <1>4, <1>5, <1>6, TablesStep

LEMMA WriteHeadAloneInvariant ==
    ASSUME GrnInvariant, NEW w \in Workers, WriteHeadAlone(w)
    PROVE  GrnInvariant'
  <1> DEFINE g == req[w].grn
             head == Overlay(grn[g], req[w].head, req[w].diff)
  <1>1. /\ ~Idle(w) /\ req[w].at = "writeHead" /\ End(w)
        /\ UNCHANGED <<items, history>> /\ grn' = [grn EXCEPT ![g] = head]
    BY DEF WriteHeadAlone, At
  <1>2. g \in DOMAIN grn /\ grn[g] \in Header /\ req[w].head \in Header
    BY <1>1, HeadFacts DEF RequestRecord
  <1>3. head \in Header
    BY <1>2 DEF Overlay, Header
  <1>4. g \in GrnIds /\ items[g] \in RowTables /\ DOMAIN items[g] # {}
    BY <1>2 DEF GrnInvariant
  <1> HIDE DEF head, g
  <1>5. grn' = Put(grn, g, head) /\ items' = Put(items, g, items[g])
    <2>1. /\ g \in DOMAIN items /\ items = [h \in DOMAIN items |-> items[h]]
          /\ grn = [h \in DOMAIN grn |-> grn[h]]
      BY <1>2 DEF GrnInvariant
    <2>2. items' = [items EXCEPT ![g] = items[g]]
      BY <1>1, <2>1
    <2> QED
      BY <1>1, <1>2, <2>1, <2>2, PutIsUpdate
  <1>6. /\ req' \in [Workers -> RequestRecord \cup {NoRequest}]
        /\ \A v \in Workers : Idle(v)' \/ req'[v] = req[v]
    BY <1>1 DEF End, GrnInvariant
  <1>7. /\ received' \in [GrnIds \X LineNos \X Keys -> Nat]
        /\ repointed' \subseteq GrnIds /\ overlapped' \subseteq GrnIds
        /\ received' = received
    BY <1>1 DEF GrnInvariant, history
  <1> QED
    BY <1>2, <1>3, <1>4, <1>5, <1>6, <1>7, TablesStep

(* What an update or a receipt leaves of the rows.                         *)
LEMMA RowsAfterTypes ==
    ASSUME GrnInvariant, NEW w \in Workers, ~Idle(w),
           req[w].op \in {"update", "receive"}
    PROVE  /\ RowsAfter(w) \in RowTables /\ DOMAIN RowsAfter(w) # {}
           /\ DOMAIN RowsAfter(w) = DOMAIN items[req[w].grn] \cup req[w].new
           /\ req[w].grn \in DOMAIN grn /\ req[w].grn \in GrnIds
           /\ \A l \in DOMAIN RowsAfter(w) :
                RowsAfter(w)[l] = IF l \in req[w].new THEN req[w].rows[l]
                                  ELSE Overlay(items[req[w].grn][l], req[w].rows[l],
                                               req[w].rowsSet[l])
  <1> DEFINE g == req[w].grn
             after(l) == IF l \in req[w].new THEN req[w].rows[l]
                         ELSE Overlay(items[g][l], req[w].rows[l], req[w].rowsSet[l])
             S == DOMAIN items[g] \cup req[w].new
  <1>1. /\ req[w] \in RequestRecord /\ g \in DOMAIN grn /\ SetsOnlyRows(req[w])
        /\ req[w].new \subseteq DOMAIN req[w].rows
    <2>1. CASE req[w].op = "update"
      BY <2>1, UpdateFacts DEF UpdateRequest
    <2>2. CASE req[w].op = "receive"
      BY <2>2, PostingFacts DEF ReceiptOf
    <2> QED
      BY <2>1, <2>2
  <1>2. /\ g \in GrnIds /\ items[g] \in RowTables /\ DOMAIN items[g] # {}
        /\ req[w].rows \in RowTables
    BY <1>1 DEF GrnInvariant, RequestRecord
  <1>3. S \subseteq LineNos
    BY <1>1, <1>2, RowTypes
  <1>4. \A l \in S : after(l) \in Item
    <2> TAKE l \in S
    <2>1. CASE l \in req[w].new
      BY <1>1, <1>2, <2>1, RowTypes
    <2>2. CASE l \notin req[w].new /\ req[w].rowsSet[l] = {}
      <3>1. items[g][l] \in Item
        BY <1>2, <2>2, RowTypes
      <3>2. Overlay(items[g][l], req[w].rows[l], {}) = items[g][l]
        BY <3>1 DEF Overlay, Item
      <3> QED
        BY <2>2, <3>1, <3>2
    <2>3. CASE l \notin req[w].new /\ req[w].rowsSet[l] # {}
      <3>1. items[g][l] \in Item /\ l \in LineNos
        BY <1>2, <1>3, <2>3, RowTypes
      <3>2. req[w].rows[l] \in Item
        BY <1>1, <1>2, <2>3, <3>1, RowTypes DEF SetsOnlyRows
      <3>3. Overlay(items[g][l], req[w].rows[l], req[w].rowsSet[l]) \in Item
        BY <3>1, <3>2 DEF Overlay, Item
      <3> QED
        BY <2>3, <3>3
    <2> QED
      BY <2>1, <2>2, <2>3
  <1>5. RowsAfter(w) = [l \in S |-> after(l)]
    BY DEF RowsAfter
  <1> HIDE DEF after
  <1>6. RowsAfter(w) \in [S -> Item]
    BY <1>4, <1>5
  <1>7. RowsAfter(w) \in RowTables /\ DOMAIN RowsAfter(w) = S /\ S # {}
    BY <1>2, <1>3, <1>6 DEF RowTables
  <1> QED
    BY <1>1, <1>2, <1>5, <1>7 DEF after

(* What a committed receipt adds to a line and a key.                      *)
LEMMA ReceivedAfter ==
    ASSUME GrnInvariant, NEW w \in Workers, ~Idle(w),
           req[w].op \in {"create", "receive"}, NoteReceived(w)
    PROVE  /\ received' \in [GrnIds \X LineNos \X Keys -> Nat]
           /\ \A g \in GrnIds, l \in LineNos, k \in Keys :
                received'[<<g, l, k>>] = received[<<g, l, k>>] +
                  IF g = req[w].grn /\ k = KeyOf(req[w].head.warehouse, req[w].rows, l)
                  THEN QtyIn(req[w].asked, l) ELSE 0
  <1> DEFINE C == GrnIds \X LineNos \X Keys
             more(c) == IF c[1] = req[w].grn
                           /\ c[3] = KeyOf(req[w].head.warehouse, req[w].rows, c[2])
                        THEN QtyIn(req[w].asked, c[2]) ELSE 0
  <1>1. received \in [C -> Nat] /\ req[w].asked \in Receipts
    BY PostingFacts DEF GrnInvariant
  <1>2. \A c : more(c) \in Nat
    BY <1>1, QtyTypes
  <1>3. received' = [c \in C |-> received[c] + more(c)]
    BY <1>1 DEF NoteReceived, QtyIn
  <1>4. \A g \in GrnIds, l \in LineNos, k \in Keys :
          more(<<g, l, k>>) =
            IF g = req[w].grn /\ k = KeyOf(req[w].head.warehouse, req[w].rows, l)
            THEN QtyIn(req[w].asked, l) ELSE 0
    OBVIOUS
  <1> HIDE DEF more
  <1> QED
    BY <1>1, <1>2, <1>3, <1>4

(* A receipt that has been through its list.                               *)
LEMMA AllThrough ==
    ASSUME GrnInvariant, NEW w \in Workers, ~Idle(w), req[w].at = "receive",
           req[w].op \in {"create", "receive"}, req[w].lines = <<>>
    PROVE  /\ LinesOf(req[w].asked) \subseteq DOMAIN req[w].rows
           /\ Through(req[w]) = LinesOf(req[w].asked)
           /\ \A l : l \notin DOMAIN req[w].rows => QtyIn(req[w].asked, l) = 0
  <1>1. ReceiptOf(req[w])
    BY PostingFacts
  <1>2. Through(req[w]) = LinesOf(req[w].asked)
    BY NoLines DEF Through, Remaining, InLine
  <1>3. LinesOf(req[w].asked) \subseteq DOMAIN req[w].rows
    BY <1>1, <1>2 DEF ReceiptOf
  <1> QED
    BY <1>2, <1>3, QtyOfNoLine

LEMMA CommitUpdateInvariant ==
    ASSUME GrnInvariant, NEW w \in Workers, CommitUpdate(w)
    PROVE  GrnInvariant'
  <1> DEFINE g == req[w].grn
             head == Overlay(grn[g], req[w].head, req[w].headSet)
             rows == RowsAfter(w)
  <1>1. /\ ~Idle(w) /\ req[w].at = "amend" /\ End(w)
        /\ grn' = [grn EXCEPT ![g] = head] /\ items' = [items EXCEPT ![g] = rows]
        /\ UNCHANGED <<received, overlapped>>
        /\ repointed' = repointed \/ repointed' = repointed \cup {g}
    BY DEF CommitUpdate, At
  <1>2. req[w].op = "update"
    BY <1>1 DEF GrnInvariant, RequestsGrounded, NoteRequest, CreateRequest,
       ReceiveRequest, UpdateRequest, HeadRequest
  <1>3. /\ rows \in RowTables /\ DOMAIN rows # {} /\ DOMAIN items[g] \subseteq DOMAIN rows
        /\ g \in GrnIds /\ g \in DOMAIN grn
    BY <1>1, <1>2, RowsAfterTypes
  <1>4. grn[g] \in Header /\ req[w].head \in Header
    BY <1>1, <1>2, UpdateFacts DEF RequestRecord
  <1>5. head \in Header
    BY <1>4 DEF Overlay, Header
  <1> HIDE DEF head, rows, g
  <1>6. grn' = Put(grn, g, head) /\ items' = Put(items, g, rows)
    <2>1. /\ g \in DOMAIN items /\ items = [h \in DOMAIN items |-> items[h]]
          /\ grn = [h \in DOMAIN grn |-> grn[h]]
      BY <1>3 DEF GrnInvariant
    <2> QED
      BY <1>1, <1>3, <2>1, PutIsUpdate
  <1>7. /\ req' \in [Workers -> RequestRecord \cup {NoRequest}]
        /\ \A v \in Workers : Idle(v)' \/ req'[v] = req[v]
    BY <1>1 DEF End, GrnInvariant
  <1>8. /\ received' \in [GrnIds \X LineNos \X Keys -> Nat] /\ received' = received
        /\ repointed' \subseteq GrnIds /\ overlapped' \subseteq GrnIds
    BY <1>1, <1>3 DEF GrnInvariant
  <1> QED
    BY <1>3, <1>5, <1>6, <1>7, <1>8, TablesStep

LEMMA CommitReceiveInvariant ==
    ASSUME GrnInvariant, NEW w \in Workers, CommitReceive(w)
    PROVE  GrnInvariant'
  <1> DEFINE g == req[w].grn
             rows == RowsAfter(w)
  <1>1. /\ ~Idle(w) /\ req[w].at = "receive" /\ req[w].op = "receive" /\ End(w)
        /\ req[w].lines = <<>> /\ NoteReceived(w)
        /\ items' = [items EXCEPT ![g] = rows]
        /\ UNCHANGED <<grn, repointed, overlapped>>
    BY DEF CommitReceive, At
  <1>2. /\ rows \in RowTables /\ DOMAIN rows # {} /\ DOMAIN items[g] \subseteq DOMAIN rows
        /\ g \in GrnIds /\ g \in DOMAIN grn
    BY <1>1, RowsAfterTypes
  <1>3. grn[g] \in Header
    BY <1>2 DEF GrnInvariant
  <1>4. /\ received' \in [GrnIds \X LineNos \X Keys -> Nat]
        /\ \A h \in GrnIds, l \in LineNos, k \in Keys :
             received'[<<h, l, k>>] # received[<<h, l, k>>] => h = g /\ l \in DOMAIN rows
    <2>1. /\ received' \in [GrnIds \X LineNos \X Keys -> Nat]
          /\ \A h \in GrnIds, l \in LineNos, k \in Keys :
               received'[<<h, l, k>>] = received[<<h, l, k>>] +
                 IF h = g /\ k = KeyOf(req[w].head.warehouse, req[w].rows, l)
                 THEN QtyIn(req[w].asked, l) ELSE 0
      BY <1>1, ReceivedAfter
    <2>2. \A l : l \notin DOMAIN req[w].rows => QtyIn(req[w].asked, l) = 0
      BY <1>1, AllThrough
    <2>3. DOMAIN req[w].rows \subseteq DOMAIN rows
      BY <1>1, <1>2, PostingFacts
    <2>4. received \in [GrnIds \X LineNos \X Keys -> Nat]
      BY DEF GrnInvariant
    <2> HIDE DEF g, rows
    <2>5. \A h \in GrnIds, l \in LineNos, k \in Keys : received[<<h, l, k>>] \in Nat
      BY <2>4
    <2> QED
      BY <2>1, <2>2, <2>3, <2>5
  <1> HIDE DEF rows, g
  <1>5. grn' = Put(grn, g, grn[g]) /\ items' = Put(items, g, rows)
    <2>1. /\ g \in DOMAIN items /\ items = [h \in DOMAIN items |-> items[h]]
          /\ grn = [h \in DOMAIN grn |-> grn[h]]
      BY <1>2 DEF GrnInvariant
    <2>2. grn' = [grn EXCEPT ![g] = grn[g]]
      BY <1>1, <1>2, <2>1
    <2> QED
      BY <1>1, <1>2, <2>1, <2>2, PutIsUpdate
  <1>6. /\ req' \in [Workers -> RequestRecord \cup {NoRequest}]
        /\ \A v \in Workers : Idle(v)' \/ req'[v] = req[v]
    BY <1>1 DEF End, GrnInvariant
  <1>7. repointed' \subseteq GrnIds /\ overlapped' \subseteq GrnIds
    BY <1>1 DEF GrnInvariant
  <1> QED
    BY <1>2, <1>3, <1>4, <1>5, <1>6, <1>7, TablesStep

LEMMA CommitCreateInvariant ==
    ASSUME GrnInvariant, NEW w \in Workers, CommitCreate(w)
    PROVE  GrnInvariant'
  <1> DEFINE g == req[w].grn
             rows == req[w].rows
             head == [req[w].head EXCEPT
                        !.status = IF req[w].autoPost THEN "posted" ELSE "draft"]
  <1>1. /\ ~Idle(w) /\ req[w].at = "receive" /\ req[w].op = "create" /\ End(w)
        /\ req[w].lines = <<>> /\ UNCHANGED <<begun, repointed, overlapped>>
    BY DEF CommitCreate, At
  <1>2. CASE UNCHANGED <<grn, items, received>>
    <2>1. UNCHANGED <<grn, items, history>>
      BY <1>1, <1>2 DEF history
    <2> QED
      BY <1>1, <2>1, EndInvariant
  <1>3. CASE ~UNCHANGED <<grn, items, received>>
    <2>1. /\ NoteReceived(w)
          /\ grn' = [h \in DOMAIN grn \cup {g} |-> IF h = g THEN head ELSE grn[h]]
          /\ items' = [h \in DOMAIN items \cup {g} |-> IF h = g THEN rows ELSE items[h]]
      BY <1>3 DEF CommitCreate
    <2>2. /\ req[w] \in RequestRecord /\ DOMAIN rows # {} /\ OwnNote(w)
      BY <1>1, PostingFacts
    <2>3. g \in GrnIds /\ rows \in RowTables /\ req[w].head \in Header
      BY <2>2 DEF RequestRecord
    <2>4. head \in Header
      BY <2>3 DEF Header
    <2>5. /\ received' \in [GrnIds \X LineNos \X Keys -> Nat]
          /\ \A h \in GrnIds, l \in LineNos, k \in Keys :
               received'[<<h, l, k>>] # received[<<h, l, k>>] => h = g /\ l \in DOMAIN rows
      <3>1. /\ received' \in [GrnIds \X LineNos \X Keys -> Nat]
            /\ \A h \in GrnIds, l \in LineNos, k \in Keys :
                 received'[<<h, l, k>>] = received[<<h, l, k>>] +
                   IF h = g /\ k = KeyOf(req[w].head.warehouse, req[w].rows, l)
                   THEN QtyIn(req[w].asked, l) ELSE 0
        BY <1>1, <2>1, ReceivedAfter
      <3>2. \A l : l \notin DOMAIN rows => QtyIn(req[w].asked, l) = 0
        BY <1>1, AllThrough
      <3>3. received \in [GrnIds \X LineNos \X Keys -> Nat]
        BY DEF GrnInvariant
      <3> HIDE DEF g, rows
      <3>4. \A h \in GrnIds, l \in LineNos, k \in Keys : received[<<h, l, k>>] \in Nat
        BY <3>3
      <3> QED
        BY <3>1, <3>2, <3>4
    <2>6. g \notin DOMAIN grn /\ \A v \in Workers : ~Idle(v)' => req'[v].grn # g
      <3>1. g \notin DOMAIN grn /\ \A v \in Workers \ {w} : ~On(v, g)
        BY <2>2 DEF OwnNote
      <3>2. Idle(w)' /\ \A v \in Workers \ {w} : req'[v] = req[v]
        BY <1>1 DEF End, GrnInvariant
      <3> HIDE DEF g
      <3> QED
        BY <3>1, <3>2 DEF On
    <2> HIDE DEF head, rows, g
    <2>7. grn' = Put(grn, g, head) /\ items' = Put(items, g, rows)
      BY <2>1 DEF Put
    <2>8. /\ req' \in [Workers -> RequestRecord \cup {NoRequest}]
          /\ \A v \in Workers : Idle(v)' \/ req'[v] = req[v]
      BY <1>1 DEF End, GrnInvariant
    <2>9. repointed' \subseteq GrnIds /\ overlapped' \subseteq GrnIds
      BY <1>1 DEF GrnInvariant
    <2> QED
      BY <2>2, <2>3, <2>4, <2>5, <2>6, <2>7, <2>8, <2>9, TablesStep
         DEF On
  <1> QED
    BY <1>2, <1>3

LEMMA ReceiveInvariant ==
    ASSUME GrnInvariant, NEW w \in Workers, Receive(w)
    PROVE  GrnInvariant'
  BY CreateInvariant, OpenCreateInvariant, OpenReceiveInvariant,
     OpenUpdateInvariant, OpenHeadInvariant DEF Receive, NoRows

LEMMA ProceedInvariant ==
    ASSUME GrnInvariant, NEW w \in Workers, Proceed(w)
    PROVE  GrnInvariant'
  BY CheckReceivedInvariant, LoadHeadInvariant, WriteHeadAloneInvariant,
     WriteHeadInvariant, FindInvariant, AmendLineInvariant, InsertLineInvariant,
     ReceiveLineInvariant, LoadRowInvariant, WriteRowInvariant, BalanceInvariant,
     CommitUpdateInvariant, CommitReceiveInvariant, CommitCreateInvariant
  DEF Proceed

LEMMA GrnNextInvariant == GrnInvariant /\ [GrnNext]_vars => GrnInvariant'
  <1>1. ASSUME GrnInvariant, UNCHANGED vars
        PROVE  GrnInvariant'
    BY <1>1, SameNotes DEF vars, grnVars
  <1> QED
    BY <1>1, ReceiveInvariant, ProceedInvariant, AbandonInvariant DEF GrnNext

LEMMA GrnInvariantHolds == GrnSpec => []GrnInvariant
  BY GrnInitInvariant, GrnNextInvariant, PTL DEF GrnSpec
----------------------------------------------------------------------------
(* Stock.  A request is inside a stock transaction from the first          *)
(* statement after its look-ups to its end.                                *)
Posting(w) == ~Idle(w) /\ req[w].op \in {"create", "receive"} /\ req[w].at # "find"

TransactionsMatch ==
    DOMAIN pc = Workers /\ \A w \in Workers : Posting(w) <=> pc[w] # "idle"

LEMMA InitTransactions == GrnInit => TransactionsMatch
  BY DEF GrnInit, StockInit, TransactionsMatch, Posting

(* Statements about the note only.                                         *)
NoteStatement(w) ==
    \/ CheckReceived(w) \/ LoadHead(w) \/ WriteHeadAlone(w) \/ WriteHead(w)
    \/ FindForUpdate(w) \/ AmendLine(w) \/ InsertLine(w) \/ CommitUpdate(w)

LEMMA NoteStatements ==
    ASSUME GrnInvariant, NEW w \in Workers, NoteStatement(w)
    PROVE  /\ ~Posting(w) /\ ~Posting(w)'
           /\ UNCHANGED stockVars /\ \A v \in Workers \ {w} : req'[v] = req[v]
  <1>1. /\ ~Idle(w) /\ UNCHANGED stockVars
        /\ req[w].at \in {"items", "head", "writeHead", "amend"} \/ req[w].op = "update"
        /\ \A v \in Workers \ {w} : req'[v] = req[v]
    BY DEF NoteStatement, CheckReceived, LoadHead, WriteHeadAlone, WriteHead,
       FindForUpdate, AmendLine, InsertLine, CommitUpdate, At, End, GrnInvariant
  <1>2. req[w].op \notin {"create", "receive"}
    BY <1>1 DEF GrnInvariant, RequestsGrounded, NoteRequest, CreateRequest,
       ReceiveRequest, UpdateRequest, HeadRequest
  <1>3. req[w] \in RequestRecord
    BY <1>1, BusyRecord DEF GrnInvariant
  <1>4. Idle(w)' \/ req'[w].op = req[w].op
    <2>1. req'[w].op = req[w].op \/ End(w)
      <3> USE <1>3 DEF GrnInvariant, RequestRecord
      <3>1. CASE CheckReceived(w)
        BY <3>1 DEF CheckReceived, End
      <3>2. CASE LoadHead(w)
        BY <3>2 DEF LoadHead
      <3>3. CASE WriteHead(w)
        BY <3>3 DEF WriteHead
      <3>4. CASE FindForUpdate(w)
        BY <3>4 DEF FindForUpdate
      <3>5. CASE AmendLine(w)
        BY <3>5 DEF AmendLine
      <3>6. CASE InsertLine(w)
        <4>1. End(w) \/ req' = [req EXCEPT ![w] = WithLine(req[w])]
          BY <3>6, InsertLineIs
        <4> QED
          BY <4>1 DEF WithLine
      <3>7. CASE WriteHeadAlone(w) \/ CommitUpdate(w)
        BY <3>7 DEF WriteHeadAlone, CommitUpdate
      <3> QED
        BY <3>1, <3>2, <3>3, <3>4, <3>5, <3>6, <3>7 DEF NoteStatement
    <2> QED
      BY <2>1 DEF End, GrnInvariant
  <1> QED
    BY <1>1, <1>2, <1>4 DEF Posting

LEMMA NextTransactions ==
    GrnInvariant /\ TransactionsMatch /\ [GrnNext]_vars => TransactionsMatch'
  <1> SUFFICES ASSUME GrnInvariant, TransactionsMatch, [GrnNext]_vars
               PROVE  TransactionsMatch'
    OBVIOUS
  <1>1. req \in [Workers -> RequestRecord \cup {NoRequest}]
    BY DEF GrnInvariant
  <1>2. CASE UNCHANGED vars
    BY <1>2 DEF vars, stockVars, grnVars, TransactionsMatch, Posting
  <1>3. ASSUME NEW w \in Workers, Receive(w)
        PROVE  TransactionsMatch'
    <2> USE DEF TransactionsMatch, Posting
    <2>1. ASSUME NEW g \in GrnIds, NEW h \in Warehouses, NEW p \in Payloads,
                 Create(w, g, h, p)
          PROVE  TransactionsMatch'
      BY <2>1 DEF Create, stockVars
    <2>2. ASSUME NEW g \in GrnIds, NEW h \in Warehouses, NEW p \in Payloads,
                 NEW s \in Receipts, NEW autoPost \in BOOLEAN,
                 OpenCreate(w, g, h, p, s, autoPost)
          PROVE  TransactionsMatch'
      BY <1>1, <2>2 DEF OpenCreate, Open, Begin, Request
    <2>3. ASSUME NEW r, UNCHANGED stockVars, Open(w, r),
                 r.op \notin {"create", "receive"} \/ r.at = "find"
          PROVE  TransactionsMatch'
      BY <1>1, <2>3 DEF Open, stockVars
    <2>4. ASSUME NEW g \in DOMAIN grn, NEW s \in Receipts, OpenReceive(w, g, s)
          PROVE  TransactionsMatch'
      <3> DEFINE r == Request("receive", g, "find", grn[g], items[g], s)
      <3>1. r.at = "find"
        BY DEF Request
      <3>2. Open(w, r) /\ UNCHANGED stockVars
        BY <2>4 DEF OpenReceive
      <3> HIDE DEF r
      <3> QED
        BY <2>3, <3>1, <3>2
    <2>5. ASSUME NEW g \in DOMAIN grn, NEW h \in Warehouses,
                 NEW p \in Payloads \cup {NoRows}, OpenUpdate(w, g, h, p)
          PROVE  TransactionsMatch'
      <3>1. UNCHANGED stockVars /\ \E r : Open(w, r) /\ r.op = "update"
        BY <2>5 DEF OpenUpdate, Request
      <3>2. PICK r : Open(w, r) /\ r.op = "update"
        BY <3>1
      <3> QED
        BY <2>3, <3>1, <3>2
    <2>6. ASSUME NEW g \in DOMAIN grn, OpenDelete(w, g) \/ OpenPost(w, g)
          PROVE  TransactionsMatch'
      <3>1. UNCHANGED stockVars /\ \E r : Open(w, r) /\ r.op \in {"delete", "post"}
        BY <2>6 DEF OpenDelete, OpenPost, Request
      <3>2. PICK r : Open(w, r) /\ r.op \in {"delete", "post"}
        BY <3>1
      <3> QED
        BY <2>3, <3>1, <3>2
    <2> QED
      BY <1>3, <2>1, <2>2, <2>4, <2>5, <2>6 DEF Receive, NoRows
  <1>4. ASSUME NEW w \in Workers, NoteStatement(w)
        PROVE  TransactionsMatch'
    <2>1. /\ ~Posting(w) /\ ~Posting(w)' /\ pc' = pc
          /\ \A v \in Workers \ {w} : req'[v] = req[v]
      BY <1>4, NoteStatements DEF stockVars
    <2> QED
      BY <2>1 DEF TransactionsMatch, Posting
  <1>5. ASSUME NEW w \in Workers, LoadRow(w) \/ WriteRow(w)
        PROVE  TransactionsMatch'
    <2>1. ~Idle(w) /\ req[w] \in RequestRecord /\ req[w].at \in {"loadRow", "writeRow"}
      <3>1. At(w, "loadRow") \/ At(w, "writeRow")
        BY <1>5 DEF LoadRow, WriteRow
      <3> QED
        BY <3>1, BusyRecord DEF At, GrnInvariant
    <2>2. /\ pc' = pc /\ \A v \in Workers \ {w} : req'[v] = req[v]
          /\ req'[w].op = req[w].op /\ req'[w].at # "find"
      <3>1. CASE LoadRow(w)
        <4>1. PICK d \in SUBSET Columns :
                req' = [req EXCEPT ![w] = [req[w] EXCEPT !.diff = d, !.at = "writeRow"]]
          BY <3>1, LoadRowIs
        <4> QED
          BY <1>1, <2>1, <3>1, <4>1 DEF LoadRow, stockVars, RequestRecord
      <3>2. CASE WriteRow(w)
        <4>1. UNCHANGED stockVars /\ req' = [req EXCEPT ![w] = RowWritten(req[w])]
          BY <3>2, WriteRowIs DEF WriteRow
        <4> QED
          BY <1>1, <2>1, <4>1 DEF RowWritten, stockVars, RequestRecord
      <3> QED
        BY <1>5, <3>1, <3>2
    <2> QED
      BY <2>1, <2>2 DEF TransactionsMatch, Posting
  <1>6. ASSUME NEW w \in Workers, FindForReceive(w) \/ ReceiveLine(w) \/ BalanceStatement(w)
        PROVE  TransactionsMatch'
    <2>1. /\ ~Idle(w) /\ req[w] \in RequestRecord
          /\ req[w].at \in {"find", "receive", "balance"}
          /\ req[w].at = "find" => req[w].op = "receive"
      <3>1. CASE FindForReceive(w)
        BY <1>1, <3>1 DEF FindForReceive, At
      <3>2. CASE ReceiveLine(w)
        <4>1. At(w, "receive")
          BY Zenon, <3>2 DEF ReceiveLine
        <4> QED
          BY <1>1, <4>1 DEF At
      <3>3. CASE BalanceStatement(w)
        BY <1>1, <3>3 DEF BalanceStatement, At
      <3> QED
        BY <1>6, <3>1, <3>2, <3>3
    <2>2. req[w].at \in {"receive", "balance"} => req[w].op \in {"create", "receive"}
      BY <2>1 DEF GrnInvariant, RequestsGrounded, NoteRequest, CreateRequest,
         ReceiveRequest, UpdateRequest, HeadRequest
    <2>3. /\ DOMAIN pc' = Workers /\ \A v \in Workers \ {w} : pc'[v] = pc[v]
          /\ \A v \in Workers \ {w} : req'[v] = req[v]
      BY <1>1, <1>6 DEF TransactionsMatch, FindForReceive, ReceiveLine,
         BalanceStatement, Begin, InsertLot, UpsertBalance, CheckBalance, Rollback,
         Discard, End, stockVars
    <2>4. Posting(w)' <=> pc'[w] # "idle"
      <3> USE <1>1, <2>1, <2>2 DEF TransactionsMatch, Posting, At, RequestRecord
      <3>1. CASE FindForReceive(w)
        BY <3>1 DEF FindForReceive, Begin, End, stockVars
      <3>2. CASE ReceiveLine(w)
        BY <3>2 DEF ReceiveLine, InsertLot, Rollback, Discard, End
      <3>3. CASE BalanceStatement(w)
        BY <3>3 DEF BalanceStatement, UpsertBalance, CheckBalance, Rollback, Discard
      <3> QED
        BY <1>6, <3>1, <3>2, <3>3
    <2> QED
      BY <2>3, <2>4 DEF TransactionsMatch, Posting
  <1>7. ASSUME NEW w \in Workers,
               CommitReceive(w) \/ CommitCreate(w) \/ Abandon(w) \/ BreakDeadlock(w)
        PROVE  TransactionsMatch'
    BY <1>1, <1>7 DEF CommitReceive, CommitCreate, Abandon, BreakDeadlock, Commit,
       Rollback, Discard, End, stockVars, TransactionsMatch, Posting
  <1> QED
    BY <1>2, <1>3, <1>4, <1>5, <1>6, <1>7 DEF GrnNext, Proceed, NoteStatement

LEMMA TransactionsMatchHolds == GrnSpec => [](GrnInvariant /\ TransactionsMatch)
  BY GrnInvariantHolds, InitTransactions, NextTransactions, PTL DEF GrnSpec

(* Every step of a request is a step of StockLedger or leaves stock alone. *)
GrnStep(w) == Receive(w) \/ Proceed(w) \/ Abandon(w) \/ BreakDeadlock(w)
LedgerStep(w) ==
    \/ UNCHANGED stockVars \/ Step(w) \/ Crash(w)
    \/ \E request \in Requests : RoomFor(request) /\ Begin(w, request)

LEMMA LedgerSteps ==
    ASSUME GrnInvariant, TransactionsMatch, NEW w \in Workers, GrnStep(w)
    PROVE  LedgerStep(w)
  <1>1. ASSUME NEW g \in GrnIds, NEW h \in Warehouses,
               NEW p \in Payloads, NEW s \in Receipts, NEW autoPost \in BOOLEAN,
               OpenCreate(w, g, h, p, s, autoPost)
        PROVE  LedgerStep(w)
    <2>1. Complete(p)
      BY <1>1 DEF OpenCreate
    <2>2. StockLines(h, p, s) = StockLines(h, Rows(p), s)
      BY <2>1, PayloadRows, SameKeys
    <2>3. StockLines(h, p, s) \in Requests
      BY <2>1, <2>2, PayloadRows, PostsAreRequests
    <2> QED
      BY <1>1, <2>3 DEF OpenCreate, LedgerStep
  <1>2. CASE FindForReceive(w)
    <2> DEFINE posts == StockLines(req[w].head.warehouse, items[req[w].grn], req[w].lines)
    <2>1. ~Idle(w) /\ req[w].at = "find" /\ req[w].op = "receive"
      BY <1>2 DEF FindForReceive, At
    <2>2. /\ req[w] \in RequestRecord /\ req[w].grn \in DOMAIN grn
          /\ req[w].lines \in Receipts
      BY <2>1, PostingFacts DEF ReceiveRequest
    <2>3. /\ items[req[w].grn] \in RowTables /\ DOMAIN items[req[w].grn] # {}
          /\ req[w].head.warehouse \in Warehouses
      BY <2>2 DEF GrnInvariant, RequestRecord, Header
    <2>4. posts \in Requests
      BY <2>2, <2>3, PostsAreRequests
    <2> QED
      BY <1>2, <2>4 DEF FindForReceive, LedgerStep
  <1>3. CASE \/ ReceiveLine(w) \/ BalanceStatement(w)
             \/ CommitReceive(w) \/ CommitCreate(w)
             \/ Abandon(w) \/ BreakDeadlock(w)
    <2>1. CASE Step(w)
      BY <2>1 DEF LedgerStep
    <2>2. CASE Rollback(w) /\ pc[w] # "idle"
      BY <2>2 DEF LedgerStep, Crash
    <2>3. CASE (ReceiveLine(w) \/ CommitCreate(w)) /\ pc[w] = "idle"
      <3>1. ~Idle(w) /\ req[w].at = "receive"
        BY <2>3 DEF ReceiveLine, CommitCreate, At
      <3>2. req[w].op \in {"create", "receive"}
        BY <3>1 DEF GrnInvariant, RequestsGrounded, NoteRequest, CreateRequest,
           ReceiveRequest, UpdateRequest, HeadRequest
      <3> QED
        BY <2>3, <3>1, <3>2 DEF TransactionsMatch, Posting
    <2> QED
      BY <1>3, <2>1, <2>2, <2>3 DEF ReceiveLine, BalanceStatement, CommitReceive,
         CommitCreate, Abandon, BreakDeadlock, Step, LedgerStep
  <1>4. CASE NoteStatement(w) \/ LoadRow(w) \/ WriteRow(w)
    BY <1>4, NoteStatements DEF LoadRow, WriteRow, LedgerStep
  <1>5. CASE Receive(w)
    BY <1>1, <1>5 DEF Receive, Create, OpenReceive, OpenUpdate, OpenDelete, OpenPost,
       LedgerStep
  <1> QED
    BY <1>2, <1>3, <1>4, <1>5 DEF GrnStep, Proceed, NoteStatement

LEMMA StepsOfLedger ==
    GrnInvariant /\ TransactionsMatch /\ [GrnNext]_vars => [StockNext]_stockVars
  BY LedgerSteps DEF GrnNext, GrnStep, LedgerStep, StockNext, vars

(* Goods receipts move stock only by the statements of StockLedger.        *)
LEMMA MovesByLedger == GrnSpec => StockSafety
  <1>1. GrnInit => StockInit
    BY DEF GrnInit
  <1> QED
    BY <1>1, TransactionsMatchHolds, StepsOfLedger, PTL DEF GrnSpec, StockSafety

(* However requests on goods receipt notes overlap, no balance is          *)
(* negative, every balance equals its journal, and the lots of a key add   *)
(* up to it.                                                               *)
THEOREM GrnKeepStock ==
    GrnSpec => []OnHandNeverNegative /\ []BalanceIsLedger /\ []LotsMatchBalance
  BY MovesByLedger, NeverNegative, LedgerAgrees, LotsAgree, PTL

(* Headers, lines and the amounts received keep the shape of their tables, *)
(* and every note has a line.                                              *)
THEOREM GrnTypeCorrect == GrnSpec => []GrnTypeOK
  <1>1. GrnInvariant /\ StockTypeOK => GrnTypeOK
    <2> SUFFICES ASSUME GrnInvariant, StockTypeOK
                 PROVE  GrnTypeOK
      OBVIOUS
    <2>1. ASSUME NEW g \in DOMAIN items
          PROVE  items[g] # <<>> /\ IsPartial(items[g], LineNos, Item)
      <3>1. items[g] \in RowTables /\ DOMAIN items[g] # {}
        BY <2>1 DEF GrnInvariant
      <3>2. items[g] # <<>>
        BY <3>1
      <3> QED
        BY <3>1, <3>2, RowTypes
    <2> QED
      BY <2>1 DEF GrnTypeOK, GrnInvariant
  <1> QED
    BY <1>1, GrnInvariantHolds, MovesByLedger, TypeCorrect, PTL
----------------------------------------------------------------------------
(* The statements of a receipt.                                            *)
ReceiptStatement(w) ==
    ReceiveLine(w) \/ LoadRow(w) \/ WriteRow(w) \/ BalanceStatement(w)

(* What they do to the request: the next line's quantity joins the copy of *)
(* its row, and fits.                                                      *)
Advances(r, s) ==
    /\ s.op = r.op /\ s.grn = r.grn /\ s.head = r.head /\ s.asked = r.asked
    /\ s.autoPost = r.autoPost /\ s.at # "find"
    /\ DOMAIN s.rows = DOMAIN r.rows
    /\ LinesOf(Remaining(s)) \subseteq LinesOf(Remaining(r))
    /\ \A l \in DOMAIN r.rows :
         /\ s.rows[l].sku = r.rows[l].sku /\ s.rows[l].expected = r.rows[l].expected
         /\ s.rows[l].received = r.rows[l].received +
              IF l \in LinesOf(Remaining(r)) \ LinesOf(Remaining(s))
              THEN QtyIn(r.asked, l) ELSE 0
         /\ \/ s.rows[l].received = r.rows[l].received
            \/ s.rows[l].received <= s.rows[l].expected

LEMMA NothingAdded ==
    ASSUME NEW r \in RequestRecord, NEW s, s.rows = r.rows,
           s.op = r.op /\ s.grn = r.grn /\ s.head = r.head /\ s.asked = r.asked,
           s.autoPost = r.autoPost /\ s.at # "find", Remaining(s) = Remaining(r)
    PROVE  Advances(r, s)
  <1>1. \A l \in DOMAIN r.rows : r.rows[l].received \in Nat
    BY RowTypes DEF RequestRecord
  <1> QED
    BY <1>1 DEF Advances

(* The request once it has received its next line.                         *)
LineReceived(r) ==
    LET line == Head(r.lines)
    IN  [r EXCEPT !.rows = [r.rows EXCEPT
                      ![line.line] = [r.rows[line.line] EXCEPT !.received = @ + line.qty]],
                  !.at = "loadRow"]

LEMMA ReceiveLineIs ==
    ASSUME GrnInvariant, NEW w \in Workers, ReceiveLine(w), ~End(w)
    PROVE  /\ req' = [req EXCEPT ![w] = LineReceived(req[w])]
           /\ Head(req[w].lines).line \in DOMAIN req[w].rows
           /\ req[w].rows[Head(req[w].lines).line] \in Item
           /\ Fits(req[w].rows[Head(req[w].lines).line], Head(req[w].lines).qty)
  <1> DEFINE l == Head(req[w].lines).line
             q == Head(req[w].lines).qty
  <1>1. req[w] \in RequestRecord /\ l \in DOMAIN req[w].rows
        /\ Fits(req[w].rows[l], q)
    BY BusyRecord DEF ReceiveLine, At, GrnInvariant
  <1>2. req[w].rows[l] \in Item /\ req[w].rows \in RowTables
    BY <1>1, RowTypes DEF RequestRecord
  <1>3. req' = [req EXCEPT ![w].rows[l].received = @ + q, ![w].at = "loadRow"]
    BY DEF ReceiveLine
  <1> HIDE DEF l, q
  <1>4. req' = [req EXCEPT ![w] =
                  [req[w] EXCEPT !.rows = [req[w].rows EXCEPT
                                    ![l] = [req[w].rows[l] EXCEPT !.received = @ + q]],
                                 !.at = "loadRow"]]
    BY <1>1, <1>2, <1>3 DEF GrnInvariant, RequestRecord
  <1> QED
    BY <1>1, <1>2, <1>4 DEF LineReceived, l, q

LEMMA ReceiptAdvances ==
    ASSUME GrnInvariant, NEW w \in Workers, Posting(w), ReceiptStatement(w),
           ~Idle(w)'
    PROVE  Advances(req[w], req'[w])
  <1>1. /\ ~Idle(w) /\ req[w].op \in {"create", "receive"} /\ req[w] \in RequestRecord
        /\ ReceiptOf(req[w]) /\ req[w].rows \in RowTables
    BY PostingFacts DEF Posting, RequestRecord
  <1>2. \A r : req' = [req EXCEPT ![w] = r] => req'[w] = r
    BY DEF GrnInvariant
  <1>7. ~End(w)
    BY <1>2 DEF End
  <1>3. CASE ReceiveLine(w)
    <2> DEFINE r == req[w]
               s == LineReceived(r)
               l == Head(r.lines).line
               q == Head(r.lines).qty
    <2>1. ~End(w) /\ r.at = "receive" /\ r.lines # <<>>
      BY <1>3, <1>7 DEF ReceiveLine, At
    <2>2. /\ req'[w] = s /\ l \in DOMAIN r.rows /\ r.rows[l] \in Item
          /\ Fits(r.rows[l], q)
      BY <1>2, <1>3, <2>1, ReceiveLineIs
    <2>3. /\ q \in Nat \ {0} /\ QtyIn(r.asked, l) = q
          /\ LinesOf(r.lines) = LinesOf(Tail(r.lines)) \cup {l}
          /\ l \notin LinesOf(Tail(r.lines))
      BY <1>1, <2>1, ReceiptFacts
    <2>4. /\ s.op = r.op /\ s.grn = r.grn /\ s.head = r.head /\ s.asked = r.asked
          /\ s.autoPost = r.autoPost /\ s.at = "loadRow" /\ s.lines = r.lines
          /\ s.rows = [r.rows EXCEPT ![l] = [r.rows[l] EXCEPT !.received = @ + q]]
      BY <1>1 DEF LineReceived, RequestRecord
    <2>5. Remaining(r) = r.lines /\ Remaining(s) = Tail(r.lines)
      BY <2>1, <2>4 DEF Remaining, InLine
    <2>6. \A m \in DOMAIN r.rows : r.rows[m] \in Item
      BY <1>1, RowTypes
    <2> HIDE DEF s, l, q, r
    <2>7. /\ s.rows[l].received = r.rows[l].received + q
          /\ s.rows[l].sku = r.rows[l].sku /\ s.rows[l].expected = r.rows[l].expected
          /\ s.rows[l].received <= s.rows[l].expected
          /\ DOMAIN s.rows = DOMAIN r.rows
          /\ \A m \in DOMAIN r.rows \ {l} : s.rows[m] = r.rows[m]
      BY <2>2, <2>4 DEF Item, Fits
    <2>8. \A m \in DOMAIN r.rows : r.rows[m].received \in Nat
      BY <2>6 DEF Item
    <2>9. Advances(r, s)
      BY <2>3, <2>4, <2>5, <2>7, <2>8 DEF Advances
    <2> QED
      BY <2>2, <2>9 DEF r
  <1>4. CASE LoadRow(w)
    <2>1. req[w].at = "loadRow"
      BY <1>4 DEF LoadRow, At
    <2>2. PICK d \in SUBSET Columns :
            req'[w] = [req[w] EXCEPT !.diff = d, !.at = "writeRow"]
      BY <1>2, <1>4, LoadRowIs
    <2> QED
      BY <1>1, <2>1, <2>2, NothingAdded DEF RequestRecord, Remaining, InLine
  <1>5. CASE WriteRow(w)
    <2>1. req[w].at = "writeRow" /\ req'[w] = RowWritten(req[w])
      BY <1>2, <1>5, WriteRowIs DEF WriteRow, At
    <2> QED
      BY <1>1, <2>1, NothingAdded DEF RowWritten, RequestRecord, Remaining, InLine
  <1>6. CASE BalanceStatement(w)
    <2>1. req[w].at = "balance"
      BY <1>6 DEF BalanceStatement, At
    <2>2. CASE UNCHANGED req
      BY <1>1, <2>1, <2>2, NothingAdded
    <2>3. CASE ~UNCHANGED req
      <3>1. req' = [req EXCEPT ![w].lines = Tail(@), ![w].at = "receive"]
        BY <1>6, <1>7, <2>3 DEF BalanceStatement, End
      <3>2. req'[w] = [req[w] EXCEPT !.lines = Tail(req[w].lines), !.at = "receive"]
        BY <3>1 DEF GrnInvariant
      <3> QED
        BY <1>1, <2>1, <3>2, NothingAdded DEF RequestRecord, Remaining, InLine
    <2> QED
      BY <2>2, <2>3
  <1> QED
    BY <1>3, <1>4, <1>5, <1>6 DEF ReceiptStatement
----------------------------------------------------------------------------
(* What the transactions post.                                             *)
MoveOf(r) == StockLines(r.head.warehouse, r.rows, r.asked)

(* A request posts its list: as it stands, and all of it.                  *)
Moving(w) == \E request \in Requests : request = MoveOf(req[w]) /\ Posts(w, request)

MovesPosted == \A w \in Workers : pc[w] # "idle" => Moving(w)

LEMMA InitMovesPosted == GrnInit => MovesPosted
  BY DEF GrnInit, StockInit, MovesPosted

LEMMA StillMoving ==
    ASSUME NEW v \in Workers, Moving(v),
           pc'[v] = pc[v] /\ todo'[v] = todo[v] /\ delta'[v] = delta[v],
           MoveOf(req'[v]) = MoveOf(req[v])
    PROVE  Moving(v)'
  <1>1. PICK request \in Requests : request = MoveOf(req[v]) /\ Posts(v, request)
    BY DEF Moving
  <1>2. Posts(v, request)'
    BY <1>1, StillPosts
  <1> QED
    BY <1>1, <1>2 DEF Moving, MoveOf

LEMMA StepMoving ==
    ASSUME StockInvariant, NEW w \in Workers, Moving(w), Step(w),
           pc'[w] # "idle", MoveOf(req'[w]) = MoveOf(req[w])
    PROVE  Moving(w)'
  <1>1. PICK request \in Requests : request = MoveOf(req[w]) /\ Posts(w, request)
    BY DEF Moving
  <1>2. Posts(w, request)'
    BY <1>1, StepPosts
  <1> QED
    BY <1>1, <1>2 DEF Moving, MoveOf

LEMMA BeginMoving ==
    ASSUME StockInvariant, NEW w \in Workers, NEW request \in Requests,
           Begin(w, request), request = MoveOf(req'[w])
    PROVE  Moving(w)'
  <1>1. Posts(w, request)'
    BY BeginPosts
  <1> QED
    BY <1>1 DEF Moving, MoveOf

LEMMA SameMove ==
    ASSUME NEW r, NEW s, Advances(r, s)
    PROVE  MoveOf(s) = MoveOf(r)
  BY SameKeys DEF Advances, MoveOf

(* What a request does to the others: nothing.                             *)
LEMMA OthersKept ==
    ASSUME GrnInvariant, NEW w \in Workers, NEW v \in Workers \ {w}, GrnStep(w)
    PROVE  req'[v] = req[v]
  <1>1. ASSUME NEW r, Open(w, r)
        PROVE  req'[v] = req[v]
    BY <1>1 DEF Open, GrnInvariant
  <1>2. CASE Receive(w)
    BY <1>1, <1>2 DEF Receive, Create, OpenCreate, OpenReceive, OpenUpdate,
       OpenDelete, OpenPost
  <1>3. CASE NoteStatement(w)
    BY <1>3, NoteStatements
  <1>4. CASE LoadRow(w) \/ WriteRow(w)
    BY <1>4, LoadRowIs, WriteRowIs DEF GrnInvariant
  <1>5. CASE \/ FindForReceive(w) \/ ReceiveLine(w) \/ BalanceStatement(w)
             \/ CommitReceive(w) \/ CommitCreate(w) \/ Abandon(w) \/ BreakDeadlock(w)
    BY <1>5 DEF FindForReceive, ReceiveLine, BalanceStatement, CommitReceive,
       CommitCreate, Abandon, BreakDeadlock, End, GrnInvariant
  <1> QED
    BY <1>2, <1>3, <1>4, <1>5 DEF GrnStep, Proceed, NoteStatement

(* The statement that begins a receipt's stock transaction.                *)
LEMMA FindForReceiveIs ==
    ASSUME GrnInvariant, NEW w \in Workers, FindForReceive(w), ~Idle(w)'
    PROVE  /\ req'[w] = [req[w] EXCEPT !.rows = items[req[w].grn], !.at = "receive"]
           /\ req[w].lines = req[w].asked /\ req[w].asked \in Receipts
           /\ ReceiveRequest(req[w]) /\ req[w] \in RequestRecord
           /\ req[w].grn \in DOMAIN grn /\ ~Idle(w)
           /\ items[req[w].grn] \in RowTables /\ DOMAIN items[req[w].grn] # {}
           /\ req[w].head.warehouse \in Warehouses
           /\ Begin(w, StockLines(req[w].head.warehouse, items[req[w].grn], req[w].asked))
  <1>1. ~Idle(w) /\ req[w].at = "find" /\ req[w].op = "receive"
    BY DEF FindForReceive, At
  <1>2. /\ req[w] \in RequestRecord /\ req[w].grn \in DOMAIN grn
        /\ req[w].lines = req[w].asked /\ req[w].asked \in Receipts
        /\ ReceiveRequest(req[w])
    BY <1>1, PostingFacts DEF ReceiveRequest
  <1>3. /\ items[req[w].grn] \in RowTables /\ DOMAIN items[req[w].grn] # {}
        /\ req[w].head.warehouse \in Warehouses
    BY <1>2 DEF GrnInvariant, RequestRecord, Header
  <1>4. ~End(w)
    BY DEF End, GrnInvariant
  <1>5. /\ Begin(w, StockLines(req[w].head.warehouse, items[req[w].grn], req[w].lines))
        /\ req' = [req EXCEPT ![w].rows = items[req[w].grn], ![w].at = "receive"]
    BY <1>4 DEF FindForReceive
  <1> QED
    BY <1>1, <1>2, <1>3, <1>5 DEF GrnInvariant

LEMMA OpenCreateIs ==
    ASSUME GrnInvariant, NEW w \in Workers, NEW g \in GrnIds,
           NEW warehouse \in Warehouses, NEW p \in Payloads, NEW s \in Receipts,
           NEW autoPost \in BOOLEAN, OpenCreate(w, g, warehouse, p, s, autoPost)
    PROVE  /\ req'[w] = [Request("create", g, "receive", Draft(warehouse), Rows(p), s)
                           EXCEPT !.autoPost = autoPost]
           /\ Complete(p) /\ StockLines(warehouse, Rows(p), s) \in Requests
           /\ Begin(w, StockLines(warehouse, Rows(p), s))
  <1>1. /\ Complete(p) /\ Begin(w, StockLines(warehouse, p, s))
        /\ req'[w] = [Request("create", g, "receive", Draft(warehouse), Rows(p), s)
                        EXCEPT !.autoPost = autoPost]
    BY DEF OpenCreate, Open, GrnInvariant
  <1>2. StockLines(warehouse, p, s) = StockLines(warehouse, Rows(p), s)
    BY <1>1, PayloadRows, SameKeys
  <1>3. StockLines(warehouse, Rows(p), s) \in Requests
    BY <1>1, PayloadRows, PostsAreRequests
  <1> QED
    BY <1>1, <1>2, <1>3

LEMMA OwnMoving ==
    ASSUME StockInvariant, GrnInvariant, TransactionsMatch, TransactionsMatch',
           MovesPosted, NEW w \in Workers, pc'[w] # "idle", GrnStep(w)
    PROVE  Moving(w)'
  <1>1. Posting(w)' /\ ~Idle(w)'
    BY DEF TransactionsMatch, Posting
  <1>2. ASSUME NEW g \in GrnIds, NEW h \in Warehouses, NEW p \in Payloads,
               NEW s \in Receipts, NEW autoPost \in BOOLEAN,
               OpenCreate(w, g, h, p, s, autoPost)
        PROVE  Moving(w)'
    <2>1. /\ req'[w] = [Request("create", g, "receive", Draft(h), Rows(p), s)
                           EXCEPT !.autoPost = autoPost]
          /\ StockLines(h, Rows(p), s) \in Requests
          /\ Begin(w, StockLines(h, Rows(p), s))
      BY <1>2, OpenCreateIs
    <2>2. MoveOf(req'[w]) = StockLines(h, Rows(p), s)
      BY <2>1 DEF MoveOf, Request, Draft
    <2> QED
      BY <2>1, <2>2, BeginMoving
  <1>3. CASE FindForReceive(w)
    <2> DEFINE posts == StockLines(req[w].head.warehouse, items[req[w].grn], req[w].asked)
    <2>1. /\ req'[w] = [req[w] EXCEPT !.rows = items[req[w].grn], !.at = "receive"]
          /\ req[w] \in RequestRecord /\ req[w].asked \in Receipts
          /\ items[req[w].grn] \in RowTables /\ DOMAIN items[req[w].grn] # {}
          /\ req[w].head.warehouse \in Warehouses /\ Begin(w, posts)
      BY <1>1, <1>3, FindForReceiveIs
    <2>2. posts \in Requests
      BY <2>1, PostsAreRequests
    <2>3. MoveOf(req'[w]) = posts
      BY <2>1 DEF MoveOf, RequestRecord
    <2> HIDE DEF posts
    <2>4. PICK request \in Requests : request = posts
      BY <2>2
    <2> QED
      BY <2>1, <2>3, <2>4, BeginMoving
  <1>4. CASE ReceiptStatement(w) /\ Posting(w)
    <2>1. MoveOf(req'[w]) = MoveOf(req[w])
      BY <1>1, <1>4, ReceiptAdvances, SameMove
    <2>2. Moving(w)
      BY <1>4 DEF TransactionsMatch, MovesPosted
    <2>3. CASE UNCHANGED stockVars
      BY <2>1, <2>2, <2>3, StillMoving DEF stockVars, pending
    <2>4. CASE Step(w)
      BY <2>1, <2>2, <2>4, StepMoving
    <2>5. CASE ReceiveLine(w) /\ End(w)
      BY <1>1, <2>5 DEF End, GrnInvariant
    <2> QED
      BY <1>4, <2>3, <2>4, <2>5 DEF ReceiptStatement, ReceiveLine, LoadRow, WriteRow,
         BalanceStatement, Step
  <1>5. CASE ReceiptStatement(w) /\ ~Posting(w)
    <2>1. pc[w] = "idle"
      BY <1>5 DEF TransactionsMatch
    <2>2. CASE ReceiveLine(w) \/ BalanceStatement(w)
      <3>1. ~Idle(w) /\ req[w].at \in {"receive", "balance"}
        BY <2>2 DEF ReceiveLine, BalanceStatement, At
      <3>2. req[w].op \in {"create", "receive"}
        BY <3>1 DEF GrnInvariant, RequestsGrounded, CreateRequest, NoteRequest,
           ReceiveRequest, UpdateRequest, HeadRequest
      <3> QED
        BY <1>5, <3>1, <3>2 DEF Posting
    <2>3. CASE LoadRow(w) \/ WriteRow(w)
      BY <2>1, <2>3 DEF LoadRow, WriteRow, stockVars
    <2> QED
      BY <1>5, <2>2, <2>3 DEF ReceiptStatement
  <1>6. CASE NoteStatement(w)
    BY <1>1, <1>6, NoteStatements
  <1>7. CASE CommitReceive(w) \/ CommitCreate(w) \/ Abandon(w) \/ BreakDeadlock(w)
    BY <1>1, <1>7 DEF CommitReceive, CommitCreate, Abandon, BreakDeadlock, End,
       GrnInvariant
  <1>8. CASE Receive(w)
    <2>1. CASE UNCHANGED stockVars
      <3>1. pc[w] # "idle" /\ ~Idle(w)
        BY <2>1 DEF stockVars, TransactionsMatch, Posting
      <3>2. ASSUME NEW r, Open(w, r)
            PROVE  FALSE
        BY <3>1, <3>2 DEF Open
      <3> QED
        BY <1>8, <3>1, <3>2 DEF Receive, Create, OpenCreate, OpenReceive, OpenUpdate,
           OpenDelete, OpenPost
    <2> QED
      BY <1>2, <1>8, <2>1 DEF Receive, Create, OpenReceive, OpenUpdate, OpenDelete,
         OpenPost
  <1> QED
    BY <1>3, <1>4, <1>5, <1>6, <1>7, <1>8
    DEF GrnStep, Proceed, NoteStatement, ReceiptStatement

LEMMA OthersMoving ==
    ASSUME StockInvariant, GrnInvariant, TransactionsMatch, MovesPosted,
           NEW w \in Workers, NEW v \in Workers \ {w}, pc'[v] # "idle", GrnStep(w)
    PROVE  Moving(v)'
  <1>1. LedgerStep(w) /\ req'[v] = req[v]
    BY LedgerSteps, OthersKept
  <1>2. pc'[v] = pc[v] /\ todo'[v] = todo[v] /\ delta'[v] = delta[v]
    BY <1>1, OthersUntouched DEF LedgerStep, Crash, Rollback, stockVars, pending
  <1> QED
    BY <1>1, <1>2, StillMoving DEF MovesPosted

LEMMA NextMovesPosted ==
    /\ StockInvariant /\ GrnInvariant
    /\ TransactionsMatch /\ TransactionsMatch' /\ MovesPosted /\ [GrnNext]_vars
    => MovesPosted'
  <1> SUFFICES ASSUME StockInvariant, GrnInvariant, TransactionsMatch,
                      TransactionsMatch', MovesPosted, [GrnNext]_vars,
                      NEW v \in Workers, pc'[v] # "idle"
               PROVE  Moving(v)'
    BY DEF MovesPosted
  <1>1. CASE UNCHANGED vars
    <2>1. UNCHANGED <<pc, todo, delta, req>>
      BY <1>1 DEF vars, stockVars, pending, grnVars
    <2> QED
      BY <2>1, StillMoving DEF MovesPosted
  <1>2. CASE GrnNext
    BY <1>2, OwnMoving, OthersMoving DEF GrnNext, GrnStep
  <1> QED
    BY <1>1, <1>2

(* What every step of a request can count on.                              *)
GrnFacts == StockInvariant /\ GrnInvariant /\ TransactionsMatch /\ MovesPosted

LEMMA GrnFactsHold == GrnSpec => []GrnFacts
  <1>1. GrnSpec => []StockInvariant
    BY MovesByLedger, InvariantHolds, PTL
  <1>2. GrnSpec => [](StockInvariant /\ GrnInvariant /\ TransactionsMatch)
    BY <1>1, TransactionsMatchHolds, PTL
  <1> QED
    BY <1>2, InitMovesPosted, NextMovesPosted, PTL DEF GrnSpec, GrnFacts

----------------------------------------------------------------------------
(* Stock and the lines it came in on.                                      *)
LEMMA TriplesAreFinite ==
    ASSUME NEW A, NEW B, NEW C, IsFiniteSet(A), IsFiniteSet(B), IsFiniteSet(C)
    PROVE  IsFiniteSet(A \X B \X C)
  <1> DEFINE nested == (A \X B) \X C
             f == [x \in nested |-> <<x[1][1], x[1][2], x[2]>>]
  <1>1. IsFiniteSet(nested)
    <2>1. IsFiniteSet(A \X B)
      BY FS_Product
    <2> QED
      BY <2>1, FS_Product
  <1>2. f \in Surjection(nested, A \X B \X C)
    <2>1. f \in [nested -> A \X B \X C]
      OBVIOUS
    <2>2. ASSUME NEW c \in A \X B \X C
          PROVE  \E x \in nested : f[x] = c
      <3> DEFINE x == <<<<c[1], c[2]>>, c[3]>>
      <3>1. x \in nested /\ f[x] = c
        OBVIOUS
      <3> QED
        BY <3>1
    <2> QED
      BY <2>1, <2>2 DEF Surjection
  <1> HIDE DEF nested, f
  <1> QED
    BY <1>1, <1>2, FS_Surjection

LEMMA KeysAreFinite == IsFiniteSet(Keys)
  BY FiniteAssumption, GrnAssumption, FS_Product

LEMMA CellTypes ==
    ASSUME GrnInvariant, NEW G \in SUBSET GrnIds, NEW L \in SUBSET LineNos,
           NEW K \in SUBSET Keys
    PROVE  /\ IsFiniteSet(G \X L \X K)
           /\ \A c \in G \X L \X K : received[c] \in Nat
           /\ StockFrom(G \X L \X K) \in Nat
  <1>1. IsFiniteSet(G) /\ IsFiniteSet(L) /\ IsFiniteSet(K)
    BY FiniteAssumption, KeysAreFinite, FS_Subset
  <1>2. IsFiniteSet(G \X L \X K)
    BY <1>1, TriplesAreFinite
  <1>3. \A c \in G \X L \X K : received[c] \in Nat
    BY DEF GrnInvariant
  <1> DEFINE cells == G \X L \X K
  <1>4. IsFiniteSet(cells) /\ \A c \in cells : received[c] \in Nat
    BY <1>2, <1>3
  <1> HIDE DEF cells
  <1>5. SumFunctionOnSet(received, cells) \in Nat
    BY <1>4, SumIsNat
  <1> QED
    BY <1>2, <1>3, <1>5 DEF StockFrom, cells

LEMMA StockOnTypes ==
    ASSUME GrnInvariant, NEW g \in GrnIds, NEW l \in LineNos
    PROVE  /\ StockOn(g, l) \in Nat
           /\ IsFiniteSet({g} \X {l} \X Keys)
           /\ \A c \in {g} \X {l} \X Keys : received[c] \in Nat
  BY ZenonT(60), CellTypes DEF StockOn

(* A committed receipt brings in, on a line, what it has for the line.     *)
LEMMA OnLineAdds ==
    ASSUME GrnInvariant, NEW w \in Workers, ~Idle(w),
           req[w].op \in {"create", "receive"}, req[w].at # "find",
           NoteReceived(w), NEW g \in GrnIds, NEW l \in LineNos
    PROVE  StockOn(g, l)' = StockOn(g, l) +
             IF g = req[w].grn THEN QtyIn(req[w].asked, l) ELSE 0
  <1> DEFINE cells == {g} \X {l} \X Keys
             k0 == KeyOf(req[w].head.warehouse, req[w].rows, l)
             c0 == <<g, l, k0>>
  <1>1. /\ req[w].asked \in Receipts /\ req[w] \in RequestRecord
        /\ k0 \in Keys /\ QtyIn(req[w].asked, l) \in Nat
    <2>1. req[w].asked \in Receipts /\ req[w] \in RequestRecord /\ DOMAIN req[w].rows # {}
      BY BusyRecord DEF GrnInvariant, RequestsGrounded, CreateRequest, NoteRequest,
         ReceiveRequest, UpdateRequest, HeadRequest, ReceiptOf
    <2>2. req[w].rows \in RowTables /\ req[w].head.warehouse \in Warehouses
      BY <2>1 DEF RequestRecord, Header
    <2> QED
      BY <2>1, <2>2, KeyTypes, QtyTypes
  <1>2. /\ IsFiniteSet(cells) /\ \A c \in cells : received[c] \in Nat
        /\ StockOn(g, l) \in Nat
    BY StockOnTypes
  <1>3. \A k \in Keys :
          received'[<<g, l, k>>] = received[<<g, l, k>>] +
            IF g = req[w].grn /\ k = k0 THEN QtyIn(req[w].asked, l) ELSE 0
    BY ReceivedAfter
  <1>4. c0 \in cells /\ \A c \in cells : c = <<g, l, c[3]>> /\ c[3] \in Keys
    BY <1>1
  <1>5. \A c \in cells :
          received'[c] = received[c] +
            IF g = req[w].grn /\ c = c0 THEN QtyIn(req[w].asked, l) ELSE 0
    BY <1>3, <1>4
  <1>6. /\ StockOn(g, l) = SumFunctionOnSet(received, cells)
        /\ StockOn(g, l)' = SumFunctionOnSet(received', cells)
    BY DEF StockOn, StockFrom
  <1> DEFINE q == QtyIn(req[w].asked, l)
  <1>7. q \in Nat
    BY <1>1
  <1> HIDE DEF cells, c0, q
  <1>8. CASE g # req[w].grn
    <2>1. \A c \in cells : received'[c] = received[c]
      BY <1>2, <1>5, <1>8
    <2>2. SumFunctionOnSet(received', cells) = SumFunctionOnSet(received, cells)
      BY <1>2, <2>1, SumSame
    <2> QED
      BY <1>2, <1>6, <1>8, <2>2
  <1>9. CASE g = req[w].grn
    <2>1. /\ received'[c0] = received[c0] + q
          /\ \A c \in cells \ {c0} : received'[c] = received[c]
      BY <1>2, <1>4, <1>5, <1>9 DEF q
    <2>2. received[c0] \in Int /\ received'[c0] \in Int
          /\ \A c \in cells : received[c] \in Int
      BY <1>2, <1>4, <1>7, <2>1
    <2>3. SumFunctionOnSet(received', cells)
            = SumFunctionOnSet(received, cells) + (received'[c0] - received[c0])
      BY ONLY <1>2, <1>4, <2>1, <2>2, SumChange
    <2>4. StockOn(g, l)' = StockOn(g, l) + q
      BY <1>2, <1>6, <1>7, <2>1, <2>2, <2>3
    <2> QED
      BY <1>9, <2>4 DEF q
  <1> QED
    BY <1>8, <1>9

(* And at a key, what it posts there.                                      *)
LEMMA AtKeyAdds ==
    ASSUME GrnInvariant, NEW w \in Workers, ~Idle(w),
           req[w].op \in {"create", "receive"}, req[w].at # "find",
           NoteReceived(w), NEW k \in Keys
    PROVE  StockFrom(GrnIds \X LineNos \X {k})'
             = StockFrom(GrnIds \X LineNos \X {k})
               + KeyQty(req[w].head.warehouse, req[w].rows, req[w].asked, k)
  <1> DEFINE cells == GrnIds \X LineNos \X {k}
             g == req[w].grn
             s == req[w].asked
             L == {l \in LineNos : KeyOf(req[w].head.warehouse, req[w].rows, l) = k}
             q == [l \in LineNos |-> QtyIn(s, l)]
             d == [c \in cells |-> IF c[1] = g /\ c[2] \in L THEN q[c[2]] ELSE 0]
             h == [l \in LineNos |-> <<g, l, k>>]
             T == {h[l] : l \in L}
  <1>1. /\ s \in Receipts /\ g \in GrnIds
        /\ \A l \in LineNos : q[l] \in Nat
    <2>1. s \in Receipts /\ req[w] \in RequestRecord
      BY BusyRecord DEF GrnInvariant, RequestsGrounded, CreateRequest, NoteRequest,
         ReceiveRequest, UpdateRequest, HeadRequest, ReceiptOf
    <2> QED
      BY <2>1, QtyTypes DEF RequestRecord
  <1>2. /\ IsFiniteSet(cells) /\ \A c \in cells : received[c] \in Nat
        /\ StockFrom(cells) \in Nat
    BY CellTypes
  <1>3. IsFiniteSet(L) /\ L \subseteq LineNos
    BY FiniteAssumption, FS_Subset
  <1>4. \A c \in cells : received[c] \in Int /\ d[c] \in Int
                         /\ received'[c] = received[c] + d[c]
    <2> SUFFICES ASSUME NEW c \in cells
                 PROVE  /\ received[c] \in Int /\ d[c] \in Int
                        /\ received'[c] = received[c] + d[c]
      OBVIOUS
    <2> PICK f \in GrnIds, l \in LineNos : c = <<f, l, k>>
      OBVIOUS
    <2>1. received'[<<f, l, k>>] = received[<<f, l, k>>] +
            IF f = g /\ k = KeyOf(req[w].head.warehouse, req[w].rows, l)
            THEN QtyIn(s, l) ELSE 0
      BY ReceivedAfter
    <2>2. d[c] = IF f = g /\ l \in L THEN q[l] ELSE 0
      OBVIOUS
    <2> HIDE DEF cells, d
    <2> QED
      BY <1>1, <1>2, <2>1, <2>2
  <1>5. /\ T \subseteq cells /\ \A c \in cells \ T : d[c] = 0
        /\ \A l \in L : q[l] = d[h[l]]
        /\ \A x, y \in L : h[x] = h[y] => x = y
    <2>1. T \subseteq cells /\ \A l \in L : q[l] = d[h[l]]
      BY <1>1
    <2>2. ASSUME NEW c \in cells, c[1] = g, c[2] \in L
          PROVE  c \in T
      <3>1. c = h[c[2]]
        BY <2>2
      <3> QED
        BY <2>2, <3>1
    <2>3. \A c \in cells \ T : d[c] = 0
      BY <2>2
    <2>4. \A x, y \in L : h[x] = h[y] => x = y
      OBVIOUS
    <2> QED
      BY <2>1, <2>3, <2>4
  <1>6. KeyQty(req[w].head.warehouse, req[w].rows, s, k) = SumFunctionOnSet(q, L)
    BY DEF KeyQty
  <1> HIDE DEF cells, L, q, d, h, T
  <1>7. SumFunctionOnSet(received', cells)
          = SumFunctionOnSet(received, cells) + SumFunctionOnSet(d, cells)
    BY ONLY <1>2, <1>4, SumPlus
  <1>8. SumFunctionOnSet(d, cells) = SumFunctionOnSet(d, T)
    BY <1>2, <1>4, <1>5, SumOfPart
  <1>9. SumFunctionOnSet(q, L) = SumFunctionOnSet(d, T)
    <2>1. \A l \in L : q[l] \in Int /\ q[l] = d[h[l]]
      BY <1>1, <1>3, <1>5
    <2>2. SumFunctionOnSet(q, L) = SumFunctionOnSet(d, {h[l] : l \in L})
      BY <1>3, <1>5, <2>1, SumRenamed
    <2> QED
      BY <2>2 DEF T
  <1> QED
    BY <1>6, <1>7, <1>8, <1>9 DEF StockFrom, cells

(* Nothing but the commit of a receipt moves stock or brings it in.        *)
Receipt(w) ==
    \/ CommitReceive(w)
    \/ CommitCreate(w) /\ ~(req[w].autoPost /\ ~FullyReceived(req[w].rows))

LEMMA OnlyReceiptsMove ==
    ASSUME GrnInvariant, [GrnNext]_vars, ~ \E w \in Workers : Receipt(w)
    PROVE  onHand' = onHand /\ received' = received
  <1>1. CASE UNCHANGED vars
    BY <1>1 DEF vars, stockVars, committed, grnVars, history
  <1>2. ASSUME NEW w \in Workers, Receive(w)
        PROVE  UNCHANGED <<onHand, received>>
    <2>1. ASSUME NEW r, Open(w, r)
          PROVE  received' = received
      BY <2>1 DEF Open
    <2>2. ASSUME NEW posts, Begin(w, posts)
          PROVE  onHand' = onHand
      BY <2>2 DEF Begin, committed
    <2> QED
      BY ZenonT(60), <1>2, <2>1, <2>2 DEF Receive, Create, OpenCreate, OpenReceive, OpenUpdate,
         OpenDelete, OpenPost, stockVars, committed
  <1>3. ASSUME NEW w \in Workers, Proceed(w)
        PROVE  UNCHANGED <<onHand, received>>
    <2>1. CASE NoteStatement(w)
      BY <2>1, NoteStatements DEF NoteStatement, CheckReceived, LoadHead,
         WriteHeadAlone, WriteHead, FindForUpdate, AmendLine, InsertLine, CommitUpdate,
         stockVars, committed, history
    <2>2. CASE FindForReceive(w) \/ LoadRow(w) \/ WriteRow(w)
      BY <2>2 DEF FindForReceive, LoadRow, WriteRow, Begin, stockVars, committed, history
    <2>3. CASE ReceiveLine(w)
      BY <2>3 DEF ReceiveLine, InsertLot, Rollback, committed, history
    <2>4. CASE BalanceStatement(w)
      BY <2>4 DEF BalanceStatement, UpsertBalance, CheckBalance, Rollback,
         committed, history
    <2>5. CASE CommitReceive(w) \/ CommitCreate(w)
      BY <2>5 DEF Receipt, CommitCreate, Rollback, committed
    <2> QED
      BY <1>3, <2>1, <2>2, <2>3, <2>4, <2>5 DEF Proceed, NoteStatement
  <1>4. ASSUME NEW w \in Workers, Abandon(w) \/ BreakDeadlock(w)
        PROVE  UNCHANGED <<onHand, received>>
    BY <1>4 DEF Abandon, BreakDeadlock, Rollback, stockVars, committed, history
  <1> QED
    BY <1>1, <1>2, <1>3, <1>4 DEF GrnNext

LEMMA ReceiptIs ==
    ASSUME GrnFacts, NEW w \in Workers, Receipt(w)
    PROVE  /\ ~Idle(w) /\ req[w].at = "receive" /\ req[w].lines = <<>>
           /\ req[w].op \in {"create", "receive"} /\ End(w)
           /\ NoteReceived(w)
           /\ onHand' = [k \in Keys |-> onHand[k] + Book!Effect(MoveOf(req[w]), k)]
  <1>1. /\ ~Idle(w) /\ req[w].at = "receive" /\ req[w].lines = <<>>
        /\ req[w].op \in {"create", "receive"} /\ End(w)
        /\ NoteReceived(w) /\ Commit(w)
    BY DEF Receipt, CommitReceive, CommitCreate, At
  <1>2. PICK request \in Requests : request = MoveOf(req[w]) /\ Posts(w, request)
    BY <1>1 DEF Commit, GrnFacts, MovesPosted, Moving
  <1>3. onHand' = [k \in Keys |-> onHand[k] + Book!Effect(request, k)]
    BY <1>1, <1>2, CommitPosts
  <1> QED
    BY <1>1, <1>2, <1>3

LEMMA ReceiptComesIn ==
    ASSUME GrnFacts, StockCameInOnLines, NEW w \in Workers, Receipt(w)
    PROVE  StockCameInOnLines'
  <1>1. ASSUME NEW k \in Keys
        PROVE  (onHand[k] = InitOnHand[k] + StockFrom(GrnIds \X LineNos \X {k}))'
    <2> DEFINE a == StockFrom(GrnIds \X LineNos \X {k})
               b == StockFrom(GrnIds \X LineNos \X {k})'
               e == KeyQty(req[w].head.warehouse, req[w].rows, req[w].asked, k)
    <2>1. /\ ~Idle(w) /\ req[w].at = "receive" /\ NoteReceived(w)
          /\ req[w].op \in {"create", "receive"}
          /\ onHand'[k] = onHand[k] + Book!Effect(MoveOf(req[w]), k)
      BY ReceiptIs
    <2>2. req[w].asked \in Receipts
      BY <2>1 DEF GrnFacts, GrnInvariant, RequestsGrounded, CreateRequest, NoteRequest,
         ReceiveRequest, UpdateRequest, HeadRequest, ReceiptOf
    <2>3. Book!Effect(MoveOf(req[w]), k) = e
      BY <2>2, PostingEffect DEF MoveOf
    <2>4. b = a + e
      BY <2>1, AtKeyAdds DEF GrnFacts
    <2>5. /\ a \in Nat /\ InitOnHand[k] \in Nat /\ onHand[k] = InitOnHand[k] + a
      BY CellTypes, LotsAssumption DEF GrnFacts, StockCameInOnLines
    <2>6. e \in Nat
      <3> DEFINE q == [l \in LineNos |-> QtyIn(req[w].asked, l)]
                 L == {l \in LineNos :
                         KeyOf(req[w].head.warehouse, req[w].rows, l) = k}
      <3>1. IsFiniteSet(L) /\ \A l \in L : q[l] \in Nat
        BY <2>2, QtyTypes, FiniteAssumption, FS_Subset
      <3>2. e = SumFunctionOnSet(q, L)
        BY DEF KeyQty
      <3> HIDE DEF e, q, L
      <3> QED
        BY <3>1, <3>2, SumIsNat
    <2> HIDE DEF a, b, e
    <2>7. onHand'[k] = InitOnHand[k] + b
      BY <2>1, <2>3, <2>4, <2>5, <2>6
    <2> QED
      BY <2>7 DEF b
  <1> QED
    BY <1>1 DEF StockCameInOnLines

LEMMA InitStockIn == GrnInit => StockCameInOnLines
  <1> SUFFICES ASSUME GrnInit, NEW k \in Keys
               PROVE  onHand[k] = InitOnHand[k] + StockFrom(GrnIds \X LineNos \X {k})
    BY DEF StockCameInOnLines
  <1> DEFINE cells == GrnIds \X LineNos \X {k}
  <1>1. IsFiniteSet(cells) /\ \A c \in cells : received[c] = 0
    BY GrnInitInvariant, CellTypes DEF GrnInit, Zero
  <1>2. onHand[k] = InitOnHand[k] /\ InitOnHand[k] \in Nat
    BY LotsAssumption DEF GrnInit, StockInit
  <1> HIDE DEF cells
  <1>3. SumFunctionOnSet(received, cells) = 0
    BY <1>1, SumZero
  <1> QED
    BY <1>2, <1>3 DEF StockFrom, cells

(* All stock on hand came in on a line of a note, whatever overlaps or     *)
(* fails: a receipt adds to the balance it read for the line and to no     *)
(* other, and never without its commit.                                    *)
THEOREM StockComesInOnLines == GrnSpec => []StockCameInOnLines
  <1>1. GrnFacts /\ StockCameInOnLines /\ [GrnNext]_vars => StockCameInOnLines'
    <2> SUFFICES ASSUME GrnFacts, StockCameInOnLines, [GrnNext]_vars
                 PROVE  StockCameInOnLines'
      OBVIOUS
    <2>1. CASE \E w \in Workers : Receipt(w)
      BY <2>1, ReceiptComesIn
    <2>2. CASE ~ \E w \in Workers : Receipt(w)
      <3>1. onHand' = onHand /\ received' = received
        BY <2>2, OnlyReceiptsMove DEF GrnFacts
      <3> QED
        BY <3>1 DEF StockCameInOnLines, StockFrom
    <2> QED
      BY <2>1, <2>2
  <1> QED
    BY <1>1, InitStockIn, GrnFactsHold, PTL DEF GrnSpec

----------------------------------------------------------------------------
(* Totals.  What a receipt has added to its copy of a line is not counted  *)
(* as stock before it commits; everything else in the copies of the rows,  *)
(* a receipt's or an update's, was read from a committed row or is zero.   *)
Counted(r, l) ==
    IF r.op \in {"create", "receive"} /\ l \notin LinesOf(Remaining(r))
    THEN QtyIn(r.asked, l) ELSE 0

HasRows(r) ==
    \/ r.op \in {"create", "receive"} /\ r.at # "find"
    \/ r.op = "update" /\ r.at \in {"amend", "loadRow", "writeRow"}

Backed(r) ==
    HasRows(r) =>
      \A l \in DOMAIN r.rows :
        r.rows[l].received <= StockOn(r.grn, l) + Counted(r, l)

CopiesBacked == \A w \in Workers : ~Idle(w) => Backed(req[w])

LEMMA CountedTypes ==
    ASSUME GrnInvariant, NEW w \in Workers, ~Idle(w), NEW l
    PROVE  Counted(req[w], l) \in Nat
  <1>1. CASE req[w].op \in {"create", "receive"}
    <2>1. req[w].asked \in Receipts
      BY <1>1 DEF GrnInvariant, RequestsGrounded, CreateRequest, NoteRequest,
         ReceiveRequest, UpdateRequest, HeadRequest, ReceiptOf
    <2> QED
      BY <2>1, QtyTypes DEF Counted
  <1>2. CASE req[w].op \notin {"create", "receive"}
    BY <1>2 DEF Counted
  <1> QED
    BY <1>1, <1>2

(* No step takes stock from a line.                                        *)
LEMMA StockOnGrows ==
    ASSUME GrnFacts, [GrnNext]_vars, NEW g \in GrnIds, NEW l \in LineNos
    PROVE  StockOn(g, l) \in Nat /\ StockOn(g, l)' \in Nat
           /\ StockOn(g, l) <= StockOn(g, l)'
  <1>1. StockOn(g, l) \in Nat
    BY StockOnTypes DEF GrnFacts
  <1>2. CASE \E w \in Workers : Receipt(w)
    <2> PICK w \in Workers : Receipt(w)
      BY <1>2
    <2>1. /\ ~Idle(w) /\ req[w].at = "receive" /\ NoteReceived(w)
          /\ req[w].op \in {"create", "receive"}
      BY ReceiptIs
    <2>2. StockOn(g, l)' = StockOn(g, l) +
            IF g = req[w].grn THEN QtyIn(req[w].asked, l) ELSE 0
      BY <2>1, OnLineAdds DEF GrnFacts
    <2>3. req[w].asked \in Receipts
      BY <2>1 DEF GrnFacts, GrnInvariant, RequestsGrounded, CreateRequest, NoteRequest,
         ReceiveRequest, UpdateRequest, HeadRequest, ReceiptOf
    <2>4. QtyIn(req[w].asked, l) \in Nat
      BY <2>3, QtyTypes
    <2> QED
      BY <1>1, <2>2, <2>4
  <1>3. CASE ~ \E w \in Workers : Receipt(w)
    <2>1. received' = received
      BY <1>3, OnlyReceiptsMove DEF GrnFacts
    <2>2. StockOn(g, l)' = StockOn(g, l)
      BY <2>1 DEF StockOn, StockFrom
    <2> QED
      BY <1>1, <2>2
  <1> QED
    BY <1>2, <1>3

LEMMA BackedAs ==
    ASSUME NEW w, NEW s, s = req'[w], Backed(s)'
    PROVE  Backed(req[w])'
  BY DEF Backed, StockOn, StockFrom

LEMMA StillBacked ==
    ASSUME GrnFacts, [GrnNext]_vars, NEW w \in Workers, ~Idle(w), Backed(req[w]),
           NEW s, s = req[w]
    PROVE  Backed(s)'
  <1> SUFFICES ASSUME HasRows(s), NEW l \in DOMAIN s.rows
               PROVE  s.rows[l].received <= StockOn(s.grn, l)' + Counted(s, l)
    BY DEF Backed
  <1>1. req[w] \in RequestRecord /\ req[w].rows \in RowTables /\ req[w].grn \in GrnIds
    BY BusyRecord DEF GrnFacts, GrnInvariant
  <1>2. l \in LineNos /\ req[w].rows[l].received \in Nat
    BY <1>1, RowTypes
  <1>3. PICK g \in GrnIds : g = req[w].grn
    BY <1>1
  <1>4. /\ StockOn(g, l) \in Nat /\ StockOn(g, l)' \in Nat
        /\ StockOn(g, l) <= StockOn(g, l)'
    BY <1>2, StockOnGrows
  <1>5. Counted(req[w], l) \in Nat
    BY CountedTypes DEF GrnFacts
  <1>6. req[w].rows[l].received <= StockOn(g, l) + Counted(req[w], l)
    BY <1>3 DEF Backed
  <1>7. req[w].rows[l].received <= StockOn(g, l)' + Counted(req[w], l)
    BY <1>2, <1>4, <1>5, <1>6
  <1> QED
    BY <1>3, <1>7 DEF StockOn

(* A request that has read its rows from the note, or a new one.           *)
LEMMA FreshBacked ==
    ASSUME GrnFacts, [GrnNext]_vars, NEW s, NEW g \in GrnIds, s.grn = g,
           s.rows \in RowTables,
           \A l \in DOMAIN s.rows :
              \/ s.rows[l].received = 0
              \/ s.rows[l].received <= StockOn(g, l),
           \A l \in DOMAIN s.rows : Counted(s, l) \in Nat
    PROVE  \A l \in DOMAIN s.rows :
             s.rows[l].received <= StockOn(g, l)' + Counted(s, l)
  <1> SUFFICES ASSUME NEW l \in DOMAIN s.rows
               PROVE  s.rows[l].received <= StockOn(g, l)' + Counted(s, l)
    OBVIOUS
  <1>1. l \in LineNos /\ s.rows[l].received \in Nat /\ Counted(s, l) \in Nat
    BY RowTypes
  <1>2. /\ StockOn(g, l) \in Nat /\ StockOn(g, l)' \in Nat
        /\ StockOn(g, l) <= StockOn(g, l)'
    BY <1>1, StockOnGrows
  <1> QED
    BY <1>1, <1>2

LEMMA AdvancesBacked ==
    ASSUME GrnFacts, [GrnNext]_vars, NEW w \in Workers, ~Idle(w),
           Posting(w), Backed(req[w]), NEW s, Advances(req[w], s)
    PROVE  Backed(s)'
  <1> SUFFICES ASSUME NEW l \in DOMAIN s.rows
               PROVE  s.rows[l].received <= StockOn(s.grn, l)' + Counted(s, l)
    BY DEF Backed
  <1> PICK g \in GrnIds : g = req[w].grn
    BY BusyRecord DEF GrnFacts, GrnInvariant
  <1> DEFINE q == QtyIn(req[w].asked, l)
             before == LinesOf(Remaining(req[w]))
             after == LinesOf(Remaining(s))
             m == req[w].rows[l].received
             n == s.rows[l].received
  <1>1. /\ l \in DOMAIN req[w].rows /\ g = s.grn
        /\ req[w].op \in {"create", "receive"} /\ s.op = req[w].op
        /\ s.asked = req[w].asked /\ after \subseteq before
        /\ n = m + IF l \in before \ after THEN q ELSE 0
    BY DEF Posting, Advances
  <1>2. /\ l \in LineNos /\ m \in Nat
    BY <1>1, BusyRecord, RowTypes DEF GrnFacts, GrnInvariant
  <1>3. q \in Nat
    <2>1. req[w].asked \in Receipts
      BY <1>1 DEF GrnFacts, GrnInvariant, RequestsGrounded, CreateRequest, NoteRequest,
         ReceiveRequest, UpdateRequest, HeadRequest, ReceiptOf
    <2> QED
      BY <2>1, QtyTypes
  <1>4. /\ StockOn(g, l) \in Nat /\ StockOn(g, l)' \in Nat
        /\ StockOn(g, l) <= StockOn(g, l)'
    BY <1>2, StockOnGrows
  <1>5. /\ Counted(req[w], l) = IF l \in before THEN 0 ELSE q
        /\ Counted(s, l) = IF l \in after THEN 0 ELSE q
    BY <1>1 DEF Counted
  <1>6. m <= StockOn(g, l) + Counted(req[w], l)
    BY <1>1 DEF Backed, HasRows, Posting
  <1> HIDE DEF q, before, after, m, n
  <1>7. n <= StockOn(g, l)' + Counted(s, l)
    <2>1. CASE l \in after
      BY <1>1, <1>2, <1>4, <1>5, <1>6, <2>1
    <2>2. CASE l \notin after /\ l \in before
      BY <1>1, <1>2, <1>3, <1>4, <1>5, <1>6, <2>2
    <2>3. CASE l \notin before
      BY <1>1, <1>2, <1>3, <1>4, <1>5, <1>6, <2>3
    <2> QED
      BY <2>1, <2>2, <2>3
  <1> QED
    BY <1>1, <1>7 DEF n

(* The rows that a request begins with.                                    *)
LEMMA BeginsBacked ==
    ASSUME GrnFacts, TotalsBackedByStock, [GrnNext]_vars, NEW w \in Workers,
           Receive(w), ~Idle(w)', Idle(w), NEW s, s = req'[w]
    PROVE  Backed(s)'
  <1>1. req \in [Workers -> RequestRecord \cup {NoRequest}]
    BY DEF GrnFacts, GrnInvariant
  <1>2. ASSUME NEW r, Open(w, r)
        PROVE  s = r
    BY <1>1, <1>2 DEF Open
  <1>3. ASSUME NEW g \in GrnIds, NEW h \in Warehouses, NEW p \in Payloads,
               NEW t \in Receipts, NEW autoPost \in BOOLEAN,
               OpenCreate(w, g, h, p, t, autoPost)
        PROVE  Backed(s)'
    <2>1. /\ s = [Request("create", g, "receive", Draft(h), Rows(p), t)
                    EXCEPT !.autoPost = autoPost]
          /\ Complete(p)
      BY <1>3, OpenCreateIs DEF GrnFacts
    <2>2. /\ s.grn = g /\ s.rows = Rows(p) /\ s.at = "receive"
          /\ s.asked = t /\ s.lines = t /\ s.op = "create"
      BY <2>1 DEF Request
    <2>3. /\ Rows(p) \in RowTables /\ \A l \in DOMAIN Rows(p) : Rows(p)[l].received = 0
      BY <2>1, PayloadRows
    <2>4. \A l : Counted(s, l) \in Nat
      BY <2>2, QtyTypes DEF Counted
    <2> QED
      BY <2>2, <2>3, <2>4, FreshBacked DEF Backed
  <1>4. ASSUME ~HasRows(s)
        PROVE  Backed(s)'
    BY <1>4 DEF Backed
  <1>5. ASSUME NEW g \in DOMAIN grn, NEW t \in Receipts, OpenReceive(w, g, t)
        PROVE  ~HasRows(s)
    BY <1>2, <1>5 DEF OpenReceive, Request, HasRows
  <1>6. ASSUME NEW g \in DOMAIN grn, NEW h \in Warehouses,
               NEW p \in Payloads \cup {[l \in {} |-> 0]}, OpenUpdate(w, g, h, p)
        PROVE  ~HasRows(s)
    BY <1>2, <1>6 DEF OpenUpdate, Request, HasRows
  <1>7. ASSUME NEW g \in DOMAIN grn, OpenDelete(w, g) \/ OpenPost(w, g)
        PROVE  ~HasRows(s)
    BY <1>2, <1>7 DEF OpenDelete, OpenPost, Request, HasRows
  <1>8. ASSUME NEW g \in GrnIds, NEW h \in Warehouses, NEW p \in Payloads,
               Create(w, g, h, p)
        PROVE  FALSE
    BY <1>8 DEF Create
  <1> QED
    BY <1>3, <1>4, <1>5, <1>6, <1>7, <1>8 DEF Receive

LEMMA AmendsBacked ==
    ASSUME GrnFacts, TotalsBackedByStock, CopiesBacked, [GrnNext]_vars,
           NEW w \in Workers, AmendLine(w) \/ InsertLine(w), ~Idle(w)',
           NEW s, s = req'[w]
    PROVE  Backed(s)'
  <1>1. /\ ~Idle(w) /\ req[w].at = "amend" /\ req[w].lines # <<>>
    BY DEF AmendLine, InsertLine, At
  <1>2. /\ req[w] \in RequestRecord /\ req[w].rows \in RowTables
        /\ req[w].grn \in GrnIds /\ req[w].op = "update"
        /\ Head(req[w].lines).line \in LineNos /\ Head(req[w].lines).asked \in Asked
    BY <1>1, BusyRecord, AmendFacts DEF GrnFacts, GrnInvariant
  <1>3. \A l \in DOMAIN req[w].rows : req[w].rows[l].received <= StockOn(req[w].grn, l)
    <2> SUFFICES ASSUME NEW l \in DOMAIN req[w].rows
                 PROVE  req[w].rows[l].received <= StockOn(req[w].grn, l)
      OBVIOUS
    <2>1. Counted(req[w], l) = 0
      BY <1>2 DEF Counted
    <2>2. req[w].rows[l].received <= StockOn(req[w].grn, l) + Counted(req[w], l)
      BY <1>1, <1>2 DEF CopiesBacked, Backed, HasRows
    <2>3. l \in LineNos
      BY <1>2, RowTypes
    <2>4. StockOn(req[w].grn, l) \in Nat
      BY <1>2, <2>3, StockOnTypes DEF GrnFacts
    <2> QED
      BY <2>1, <2>2, <2>4
  <1>4. ~End(w)
    BY DEF End, GrnFacts, GrnInvariant
  <1>5. /\ s.grn = req[w].grn /\ s.op = "update"
        /\ \A l \in DOMAIN s.rows :
             \/ s.rows[l].received = 0
             \/ l \in DOMAIN req[w].rows /\ s.rows[l].received = req[w].rows[l].received
    <2>1. CASE AmendLine(w)
      <3> DEFINE line == Head(req[w].lines)
                 row == req[w].rows[line.line]
                 new == Overlay(row, line.asked, DOMAIN line.asked)
      <3>1. /\ line.line \in DOMAIN req[w].rows
            /\ req' = [req EXCEPT ![w] = [req[w] EXCEPT
                         !.rows = [req[w].rows EXCEPT ![line.line] = new],
                         !.at = "loadRow"]]
        BY <1>4, <2>1, <1>2 DEF AmendLine, GrnFacts, GrnInvariant, RequestRecord
      <3>2. new.received = row.received
        <4>1. "received" \notin DOMAIN line.asked
          BY <1>2, AskedTypes
        <4>2. "received" \in DOMAIN row
          BY <1>2, <3>1, RowTypes
        <4> QED
          BY <4>1, <4>2 DEF Overlay
      <3>3. s = [req[w] EXCEPT !.rows = [req[w].rows EXCEPT ![line.line] = new],
                               !.at = "loadRow"]
        BY <3>1 DEF GrnFacts, GrnInvariant
      <3> HIDE DEF line, row, new
      <3>4. s.grn = req[w].grn /\ s.op = "update"
            /\ s.rows = [req[w].rows EXCEPT ![line.line] = new]
        BY <1>2, <3>3 DEF RequestRecord
      <3> QED
        BY <3>2, <3>4 DEF row
    <2>2. CASE InsertLine(w)
      <3>1. s = WithLine(req[w]) /\ "sku" \in DOMAIN Head(req[w].lines).asked
        BY <1>4, <2>2, InsertLineIs DEF GrnFacts, GrnInvariant
      <3>2. NewRow(Head(req[w].lines).asked).received = 0
        BY <1>2, <3>1, NewRowTypes
      <3>3. /\ s.grn = req[w].grn /\ s.op = "update"
            /\ s.rows = [m \in DOMAIN req[w].rows \cup {Head(req[w].lines).line} |->
                           IF m = Head(req[w].lines).line
                           THEN NewRow(Head(req[w].lines).asked)
                           ELSE req[w].rows[m]]
        BY <1>2, <3>1 DEF WithLine, RequestRecord
      <3> QED
        BY <3>2, <3>3
    <2> QED
      BY <2>1, <2>2
  <1>6. s.rows \in RowTables /\ \A l : Counted(s, l) \in Nat
    <2>1. GrnInvariant'
      BY GrnNextInvariant DEF GrnFacts
    <2>2. req'[w] \in RequestRecord
      BY <2>1 DEF GrnInvariant
    <2> QED
      BY <1>5, <2>2 DEF Counted, RequestRecord
  <1>7. PICK g \in GrnIds : g = req[w].grn
    BY <1>2
  <1>8. \A l \in DOMAIN s.rows :
          s.rows[l].received = 0 \/ s.rows[l].received <= StockOn(g, l)
    BY <1>3, <1>5, <1>7
  <1>9. \A l \in DOMAIN s.rows : s.rows[l].received <= StockOn(g, l)' + Counted(s, l)
    BY <1>5, <1>6, <1>7, <1>8, FreshBacked
  <1>10. s.grn = g
    BY <1>5, <1>7
  <1> QED
    BY <1>9, <1>10 DEF Backed

(* The finders: the rows as committed.                                     *)
LEMMA FindsBacked ==
    ASSUME GrnFacts, TotalsBackedByStock, [GrnNext]_vars, NEW w \in Workers,
           FindForUpdate(w) \/ FindForReceive(w), ~Idle(w)', NEW s, s = req'[w]
    PROVE  Backed(s)'
  <1>1. /\ ~Idle(w) /\ req[w] \in RequestRecord /\ req[w].grn \in GrnIds
        /\ req[w].grn \in DOMAIN grn
        /\ s.rows = items[req[w].grn] /\ s.grn = req[w].grn
        /\ \A l : Counted(s, l) \in Nat
    <2>1. CASE FindForUpdate(w)
      <3>1. /\ ~Idle(w) /\ req[w].op = "update"
            /\ s = [req[w] EXCEPT !.rows = items[req[w].grn], !.at = "amend"]
        BY <2>1 DEF FindForUpdate, At, GrnFacts, GrnInvariant
      <3>2. /\ req[w] \in RequestRecord /\ req[w].grn \in DOMAIN grn
        BY <3>1, BusyRecord DEF GrnFacts, GrnInvariant, RequestsGrounded, RowsKnown,
           CreateRequest
      <3> QED
        BY <3>1, <3>2 DEF RequestRecord, Counted
    <2>2. CASE FindForReceive(w)
      <3>1. /\ s = [req[w] EXCEPT !.rows = items[req[w].grn], !.at = "receive"]
            /\ req[w].asked \in Receipts /\ ~Idle(w)
            /\ req[w] \in RequestRecord /\ req[w].grn \in DOMAIN grn
        BY <2>2, FindForReceiveIs DEF GrnFacts, GrnInvariant
      <3> QED
        BY <3>1, QtyTypes DEF RequestRecord, Counted
    <2> QED
      BY <2>1, <2>2
  <1>2. PICK g \in GrnIds : g = req[w].grn
    BY <1>1
  <1>3. s.rows \in RowTables /\ g \in DOMAIN items
    BY <1>1, <1>2 DEF GrnFacts, GrnInvariant
  <1>4. \A l \in DOMAIN s.rows : s.rows[l].received <= StockOn(g, l)
    BY <1>1, <1>2, <1>3 DEF TotalsBackedByStock
  <1>5. s.grn = g
    BY <1>1, <1>2
  <1> QED
    BY <1>1, <1>3, <1>4, <1>5, FreshBacked DEF Backed

LEMMA OwnBacked ==
    ASSUME GrnFacts, TotalsBackedByStock, CopiesBacked, NEW w \in Workers, GrnStep(w),
           [GrnNext]_vars, ~Idle(w)', NEW s, s = req'[w]
    PROVE  Backed(s)'
  <1>1. CASE Receive(w)
    <2>1. ASSUME NEW r, Open(w, r)
          PROVE  Idle(w)
      BY <2>1 DEF Open
    <2>2. Idle(w)
      BY <1>1, <2>1 DEF Receive, Create, OpenCreate, OpenReceive, OpenUpdate,
         OpenDelete, OpenPost
    <2> QED
      BY <1>1, <2>2, BeginsBacked
  <1>2. CASE ReceiptStatement(w) /\ Posting(w)
    <2>1. Advances(req[w], s) /\ ~Idle(w)
      BY <1>2, ReceiptAdvances DEF GrnFacts, Posting
    <2> QED
      BY <1>2, <2>1, AdvancesBacked DEF CopiesBacked
  <1>3. CASE ReceiptStatement(w) /\ ~Posting(w)
    <2>1. ~Idle(w) /\ (LoadRow(w) \/ WriteRow(w)) /\ InLine(req[w])
      <3>1. ~Idle(w) /\ InLine(req[w])
        BY <1>3 DEF ReceiptStatement, ReceiveLine, LoadRow, WriteRow, BalanceStatement,
           At, InLine, Posting, GrnFacts, GrnInvariant, RequestsGrounded,
           CreateRequest, NoteRequest, ReceiveRequest, UpdateRequest, HeadRequest
      <3>2. CASE ReceiveLine(w) \/ BalanceStatement(w)
        <4>1. req[w].at \in {"receive", "balance"}
          BY <3>2 DEF ReceiveLine, BalanceStatement, At
        <4>2. req[w].op \in {"create", "receive"}
          BY <3>1, <4>1 DEF GrnFacts, GrnInvariant, RequestsGrounded, CreateRequest,
             NoteRequest, ReceiveRequest, UpdateRequest, HeadRequest
        <4> QED
          BY <1>3, <3>1, <4>1, <4>2 DEF Posting
      <3> QED
        BY <1>3, <3>1, <3>2 DEF ReceiptStatement
    <2>2. /\ req[w] \in RequestRecord /\ req[w].op = "update"
          /\ req[w].at \in {"loadRow", "writeRow"}
      <3>1. /\ req[w].op \in {"create", "receive", "update"}
            /\ req[w] \in RequestRecord
            /\ req[w].op = "update" => req[w].at \in {"loadRow", "writeRow"}
        BY <2>1, InLineFacts DEF GrnFacts
      <3>2. req[w].at # "find"
        BY <2>1 DEF InLine
      <3> QED
        BY <1>3, <2>1, <3>1, <3>2 DEF Posting
    <2>3. /\ s.op = "update" /\ s.rows = req[w].rows /\ s.grn = req[w].grn
      <3>1. CASE LoadRow(w)
        <4> PICK d \in SUBSET Columns :
              req' = [req EXCEPT ![w] = [req[w] EXCEPT !.diff = d, !.at = "writeRow"]]
          BY <3>1, LoadRowIs DEF GrnFacts
        <4>1. s = [req[w] EXCEPT !.diff = d, !.at = "writeRow"]
          BY DEF GrnFacts, GrnInvariant
        <4> QED
          BY <2>2, <4>1 DEF RequestRecord
      <3>2. CASE WriteRow(w)
        <4>1. s = RowWritten(req[w])
          BY <3>2, WriteRowIs DEF GrnFacts, GrnInvariant
        <4> QED
          BY <2>2, <4>1 DEF RowWritten, RequestRecord
      <3> QED
        BY <2>1, <3>1, <3>2
    <2>4. PICK t : t = req[w]
      OBVIOUS
    <2>5. Backed(t)'
      BY <2>1, <2>4, StillBacked DEF CopiesBacked
    <2>6. HasRows(t) /\ \A l : Counted(s, l) = Counted(t, l)
      BY <2>2, <2>3, <2>4 DEF HasRows, Counted
    <2> QED
      BY <2>3, <2>4, <2>5, <2>6 DEF Backed
  <1>4. CASE FindForUpdate(w) \/ FindForReceive(w)
    BY <1>4, FindsBacked
  <1>5. CASE AmendLine(w) \/ InsertLine(w)
    BY <1>5, AmendsBacked
  <1>6. CASE \/ CommitUpdate(w) \/ CommitReceive(w) \/ CommitCreate(w)
             \/ Abandon(w) \/ BreakDeadlock(w) \/ WriteHeadAlone(w)
    BY <1>6 DEF CommitUpdate, CommitReceive, CommitCreate, Abandon, BreakDeadlock,
       WriteHeadAlone, End, GrnFacts, GrnInvariant
  <1>7. CASE CheckReceived(w) \/ LoadHead(w) \/ WriteHead(w)
    <2>1. s.at \in {"head", "writeHead", "find"} /\ s.op = req[w].op
          /\ (s.at = "find" => s.op = "update")
      <3>1. CASE CheckReceived(w)
        BY <3>1 DEF CheckReceived, End, At, GrnFacts, GrnInvariant, RequestRecord
      <3>2. CASE LoadHead(w)
        BY <3>2 DEF LoadHead, At, GrnFacts, GrnInvariant, RequestRecord
      <3>3. CASE WriteHead(w)
        BY <3>3 DEF WriteHead, At, GrnFacts, GrnInvariant, RequestRecord
      <3> QED
        BY <1>7, <3>1, <3>2, <3>3
    <2>2. req[w].op \notin {"create", "receive"}
      <3>1. ~Idle(w) /\ req[w].at \in {"items", "head", "writeHead"}
        BY <1>7 DEF CheckReceived, LoadHead, WriteHead, At
      <3> QED
        BY <3>1 DEF GrnFacts, GrnInvariant, RequestsGrounded, CreateRequest,
           NoteRequest, ReceiveRequest, UpdateRequest, HeadRequest
    <2> QED
      BY <2>1, <2>2 DEF Backed, HasRows
  <1> QED
    BY <1>1, <1>2, <1>3, <1>4, <1>5, <1>6, <1>7
    DEF GrnStep, Proceed, ReceiptStatement

(* The committed rows.                                                     *)
LEMMA OnlyCommitsWrite ==
    ASSUME GrnInvariant, NEW w \in Workers, GrnStep(w), ~CommitUpdate(w), ~Receipt(w)
    PROVE  \/ items' = items
           \/ \E g \in GrnIds, p \in Payloads :
                Complete(p) /\ items' = Put(items, g, Rows(p))
  <1>1. CASE Receive(w)
    <2>1. ASSUME NEW r, Open(w, r)
          PROVE  items' = items
      BY <2>1 DEF Open
    <2>2. ASSUME NEW g \in GrnIds, NEW h \in Warehouses, NEW p \in Payloads,
                 Create(w, g, h, p)
          PROVE  Complete(p) /\ items' = Put(items, g, Rows(p))
      BY <2>2 DEF Create, Put
    <2> QED
      BY <1>1, <2>1, <2>2 DEF Receive, OpenCreate, OpenReceive, OpenUpdate,
         OpenDelete, OpenPost
  <1>2. CASE NoteStatement(w)
    BY <1>2 DEF NoteStatement, CheckReceived, LoadHead, WriteHeadAlone, WriteHead,
       FindForUpdate, AmendLine, InsertLine
  <1>3. CASE FindForReceive(w) \/ ReceiptStatement(w)
    BY <1>3 DEF ReceiptStatement, FindForReceive, ReceiveLine, LoadRow, WriteRow,
       BalanceStatement
  <1>4. CASE CommitReceive(w) \/ CommitCreate(w) \/ Abandon(w) \/ BreakDeadlock(w)
    BY <1>4 DEF Receipt, CommitCreate, Abandon, BreakDeadlock
  <1> QED
    BY <1>1, <1>2, <1>3, <1>4 DEF GrnStep, Proceed, NoteStatement, ReceiptStatement

(* What a commit leaves on a line.                                         *)
LEMMA LineAfter ==
    ASSUME GrnInvariant, NEW w \in Workers, ~Idle(w),
           req[w].op \in {"update", "receive"}, NEW l \in DOMAIN RowsAfter(w)
    PROVE  \/ /\ l \in DOMAIN req[w].rows
              /\ RowsAfter(w)[l].received = req[w].rows[l].received
           \/ /\ l \in DOMAIN items[req[w].grn]
              /\ RowsAfter(w)[l].received = items[req[w].grn][l].received
  <1>1. /\ req[w].grn \in DOMAIN items /\ DOMAIN RowsAfter(w) = DOMAIN items[req[w].grn] \cup req[w].new
        /\ RowsAfter(w)[l] = IF l \in req[w].new THEN req[w].rows[l]
                             ELSE Overlay(items[req[w].grn][l], req[w].rows[l],
                                          req[w].rowsSet[l])
    BY RowsAfterTypes DEF GrnInvariant
  <1>2. /\ req[w].new \subseteq DOMAIN req[w].rows /\ SetsOnlyRows(req[w])
        /\ items[req[w].grn] \in RowTables
    BY <1>1 DEF GrnInvariant, RequestsGrounded, CreateRequest, NoteRequest,
       ReceiveRequest, UpdateRequest, HeadRequest, ReceiptOf
  <1>3. CASE l \in req[w].new
    BY <1>1, <1>2, <1>3
  <1>4. CASE l \notin req[w].new
    <2>1. l \in DOMAIN items[req[w].grn] /\ l \in LineNos
      BY <1>1, <1>2, <1>4, RowTypes
    <2>2. DOMAIN items[req[w].grn][l] = {"sku", "expected", "received"}
      BY <1>2, <2>1, RowTypes
    <2>3. RowsAfter(w)[l].received = IF "received" \in req[w].rowsSet[l]
            THEN req[w].rows[l].received ELSE items[req[w].grn][l].received
      BY <1>1, <1>4, <2>2 DEF Overlay
    <2>4. "received" \in req[w].rowsSet[l] => l \in DOMAIN req[w].rows
      BY <1>2, <2>1 DEF SetsOnlyRows
    <2> QED
      BY <2>1, <2>3, <2>4
  <1> QED
    BY <1>3, <1>4

(* Every unit a request has counted on a line is stock once it commits.    *)
LEMMA CommitsBacked ==
    ASSUME GrnFacts, TotalsBackedByStock, CopiesBacked, [GrnNext]_vars,
           NEW w \in Workers, CommitUpdate(w) \/ Receipt(w)
    PROVE  TotalsBackedByStock'
  <1>1. /\ ~Idle(w) /\ req[w] \in RequestRecord /\ req[w].rows \in RowTables
        /\ req[w].grn \in GrnIds /\ HasRows(req[w])
    <2>1. ~Idle(w) /\ req[w].at \in {"amend", "receive"}
      BY DEF Receipt, CommitUpdate, CommitReceive, CommitCreate, At
    <2>2. HasRows(req[w])
      BY <2>1 DEF GrnFacts, GrnInvariant, RequestsGrounded, CreateRequest, NoteRequest,
         ReceiveRequest, UpdateRequest, HeadRequest, HasRows
    <2> QED
      BY <2>1, <2>2, BusyRecord DEF GrnFacts, GrnInvariant
  <1> PICK g \in GrnIds : g = req[w].grn
    BY <1>1
  <1>2. ASSUME NEW l \in DOMAIN req[w].rows
        PROVE  req[w].rows[l].received <= StockOn(g, l)'
    <2>1. /\ l \in LineNos /\ req[w].rows[l].received \in Nat
      BY <1>1, <1>2, RowTypes
    <2>2. /\ StockOn(g, l) \in Nat /\ StockOn(g, l)' \in Nat
          /\ StockOn(g, l) <= StockOn(g, l)'
      BY <2>1, StockOnGrows
    <2>3. req[w].rows[l].received <= StockOn(g, l) + Counted(req[w], l)
      BY <1>1, <1>2 DEF CopiesBacked, Backed
    <2>4. StockOn(g, l) + Counted(req[w], l) <= StockOn(g, l)'
      <3>1. CASE CommitUpdate(w)
        <4>1. req[w].at = "amend"
          BY <3>1 DEF CommitUpdate, At
        <4>2. Counted(req[w], l) = 0
          BY <1>1, <4>1 DEF GrnFacts, GrnInvariant, RequestsGrounded, CreateRequest,
             NoteRequest, ReceiveRequest, UpdateRequest, HeadRequest, Counted
        <4> QED
          BY <2>2, <4>2
      <3>2. CASE Receipt(w)
        <4>1. /\ req[w].at = "receive" /\ req[w].op \in {"create", "receive"}
              /\ NoteReceived(w) /\ req[w].lines = <<>>
          BY <3>2, ReceiptIs
        <4>2. LinesOf(Remaining(req[w])) = {}
          BY <4>1, NoLines DEF Remaining, InLine
        <4>3. Counted(req[w], l) = QtyIn(req[w].asked, l)
          BY <4>1, <4>2 DEF Counted
        <4>4. StockOn(g, l)' = StockOn(g, l) + QtyIn(req[w].asked, l)
          BY <1>1, <2>1, <4>1, OnLineAdds DEF GrnFacts
        <4>5. Counted(req[w], l) \in Nat
          BY <1>1, CountedTypes DEF GrnFacts
        <4> QED
          BY <2>2, <4>3, <4>4, <4>5
      <3> QED
        BY <3>1, <3>2
    <2>5. Counted(req[w], l) \in Nat
      BY <1>1, CountedTypes DEF GrnFacts
    <2> QED
      BY <2>1, <2>2, <2>3, <2>4, <2>5
  <1>3. ASSUME NEW h \in DOMAIN items, NEW l \in DOMAIN items[h]
        PROVE  items[h][l].received <= StockOn(h, l)'
    <2>1. h \in GrnIds /\ l \in LineNos /\ items[h][l].received \in Nat
      BY <1>3, RowTypes DEF GrnFacts, GrnInvariant
    <2>2. /\ StockOn(h, l) \in Nat /\ StockOn(h, l)' \in Nat
          /\ StockOn(h, l) <= StockOn(h, l)'
      BY <2>1, StockOnGrows
    <2>3. items[h][l].received <= StockOn(h, l)
      BY <1>3 DEF TotalsBackedByStock
    <2> QED
      BY <2>1, <2>2, <2>3
  <1>4. PICK rows : /\ DOMAIN items' \subseteq DOMAIN items \cup {g} /\ items'[g] = rows
                    /\ \A h \in DOMAIN items \ {g} : items'[h] = items[h]
                    /\ \A l \in DOMAIN rows :
                         \/ /\ l \in DOMAIN req[w].rows
                            /\ rows[l].received = req[w].rows[l].received
                         \/ /\ g \in DOMAIN items /\ l \in DOMAIN items[g]
                            /\ rows[l].received = items[g][l].received
    <2>1. CASE CommitCreate(w) /\ Receipt(w)
      <3>1. items' = [h \in DOMAIN items \cup {g} |->
                        IF h = g THEN req[w].rows ELSE items[h]]
        <4>1. CASE CommitReceive(w)
          BY <2>1, <4>1 DEF CommitCreate, CommitReceive
        <4>2. CASE ~CommitReceive(w)
          BY <2>1, <4>2 DEF CommitCreate, Receipt
        <4> QED
          BY <4>1, <4>2
      <3> QED
        BY <3>1
    <2>2. CASE CommitUpdate(w) \/ CommitReceive(w)
      <3>1. /\ items' = [items EXCEPT ![g] = RowsAfter(w)]
            /\ req[w].op \in {"update", "receive"}
        <4>1. CASE CommitReceive(w)
          BY <4>1 DEF CommitReceive
        <4>2. CASE CommitUpdate(w)
          <5>1. items' = [items EXCEPT ![g] = RowsAfter(w)] /\ req[w].at = "amend"
            BY <4>2 DEF CommitUpdate, At
          <5> QED
            BY <1>1, <5>1 DEF GrnFacts, GrnInvariant, RequestsGrounded, CreateRequest,
               NoteRequest, ReceiveRequest, UpdateRequest, HeadRequest
        <4> QED
          BY <2>2, <4>1, <4>2
      <3>2. g \in DOMAIN items
        BY <1>1, <3>1, RowsAfterTypes DEF GrnFacts, GrnInvariant
      <3>3. \A l \in DOMAIN RowsAfter(w) :
              \/ /\ l \in DOMAIN req[w].rows
                 /\ RowsAfter(w)[l].received = req[w].rows[l].received
              \/ /\ l \in DOMAIN items[g]
                 /\ RowsAfter(w)[l].received = items[g][l].received
        BY <1>1, <3>1, LineAfter DEF GrnFacts
      <3>4. DOMAIN items' = DOMAIN items /\ items'[g] = RowsAfter(w)
            /\ \A h \in DOMAIN items \ {g} : items'[h] = items[h]
        BY <3>1, <3>2 DEF GrnFacts, GrnInvariant
      <3> QED
        BY <3>2, <3>3, <3>4
    <2> QED
      BY <2>1, <2>2 DEF Receipt
  <1>5. ASSUME NEW h \in DOMAIN items', NEW l \in DOMAIN items'[h]
        PROVE  items'[h][l].received <= StockOn(h, l)'
    <2>1. CASE h = g
      BY <1>2, <1>3, <1>4, <1>5, <2>1
    <2>2. CASE h # g
      BY <1>3, <1>4, <1>5, <2>2
    <2> QED
      BY <2>1, <2>2
  <1> QED
    BY <1>5 DEF TotalsBackedByStock

LEMMA NextTotalsBacked ==
    ASSUME GrnFacts, TotalsBackedByStock, CopiesBacked, [GrnNext]_vars
    PROVE  TotalsBackedByStock'
  <1>1. ASSUME NEW h \in DOMAIN items, NEW l \in DOMAIN items[h]
        PROVE  items[h][l].received <= StockOn(h, l)'
    <2>1. h \in GrnIds /\ l \in LineNos /\ items[h][l].received \in Nat
      BY <1>1, RowTypes DEF GrnFacts, GrnInvariant
    <2>2. /\ StockOn(h, l) \in Nat /\ StockOn(h, l)' \in Nat
          /\ StockOn(h, l) <= StockOn(h, l)'
      BY <2>1, StockOnGrows
    <2>3. items[h][l].received <= StockOn(h, l)
      BY <1>1 DEF TotalsBackedByStock
    <2> QED
      BY <2>1, <2>2, <2>3
  <1>2. CASE items' = items
    BY <1>1, <1>2 DEF TotalsBackedByStock
  <1>3. ASSUME NEW g \in GrnIds, NEW p \in Payloads, Complete(p),
               items' = Put(items, g, Rows(p))
        PROVE  TotalsBackedByStock'
    <2>1. ASSUME NEW l \in DOMAIN Rows(p)
          PROVE  Rows(p)[l].received <= StockOn(g, l)'
      <3>1. l \in LineNos /\ Rows(p)[l].received = 0
        BY <1>3, <2>1, PayloadRows, RowTypes
      <3>2. StockOn(g, l)' \in Nat
        BY <3>1, StockOnGrows
      <3> QED
        BY <3>1, <3>2
    <2>2. \A h \in DOMAIN items' : \A l \in DOMAIN items'[h] :
            items'[h][l].received <= StockOn(h, l)'
      BY <1>1, <1>3, <2>1 DEF Put
    <2> QED
      BY <2>2 DEF TotalsBackedByStock
  <1>4. CASE UNCHANGED vars
    BY <1>2, <1>4 DEF vars, grnVars
  <1>5. ASSUME NEW w \in Workers, GrnStep(w)
        PROVE  TotalsBackedByStock'
    BY <1>2, <1>3, <1>5, CommitsBacked, OnlyCommitsWrite DEF GrnFacts
  <1> QED
    BY <1>4, <1>5 DEF GrnNext, GrnStep

LEMMA NextCopiesBacked ==
    ASSUME GrnFacts, TotalsBackedByStock, CopiesBacked, [GrnNext]_vars
    PROVE  CopiesBacked'
  <1> SUFFICES ASSUME NEW v \in Workers, ~Idle(v)'
               PROVE  Backed(req[v])'
    BY DEF CopiesBacked
  <1> PICK s : s = req'[v]
    OBVIOUS
  <1>1. CASE req'[v] = req[v]
    <2>1. ~Idle(v) /\ Backed(req[v]) /\ s = req[v]
      BY <1>1 DEF CopiesBacked
    <2>2. Backed(s)'
      BY <2>1, StillBacked
    <2> QED
      BY <2>2, BackedAs
  <1>2. CASE GrnStep(v)
    <2>1. Backed(s)'
      BY <1>2, OwnBacked
    <2> QED
      BY <2>1, BackedAs
  <1>3. ASSUME NEW w \in Workers, GrnStep(w), w # v
        PROVE  req'[v] = req[v]
    BY <1>3, OthersKept DEF GrnFacts
  <1>4. CASE UNCHANGED vars
    BY <1>1, <1>4 DEF vars, grnVars
  <1> QED
    BY <1>1, <1>2, <1>3, <1>4 DEF GrnNext, GrnStep

(* Whatever overlaps, no line shows more received than the stock that came *)
(* in on it: saves of stale copies can lose a receipt but not invent one.  *)
THEOREM TotalsAreBacked == GrnSpec => []TotalsBackedByStock
  <1>1. GrnInit => TotalsBackedByStock /\ CopiesBacked
    BY DEF GrnInit, TotalsBackedByStock, CopiesBacked
  <1>2. /\ GrnFacts /\ TotalsBackedByStock /\ CopiesBacked /\ [GrnNext]_vars
        => (TotalsBackedByStock /\ CopiesBacked)'
    BY NextTotalsBacked, NextCopiesBacked
  <1> QED
    BY <1>1, <1>2, GrnFactsHold, PTL DEF GrnSpec

----------------------------------------------------------------------------
(***************************************************************************)
(* Notes that no two requests worked on at once, for any number of them:   *)
(* their totals are their stock, and each step is one of GrnLife.  The     *)
(* argument is that a request that has a note to itself knows it: its      *)
(* copies of the header and the rows are the rows as committed, plus its   *)
(* own changes, and the columns it sets are the ones that differ.          *)
(***************************************************************************)

(* The lines a request has still to write.                                 *)
Unwritten(r) == IF r.at = "balance" THEN Tail(r.lines) ELSE r.lines

(* A receipt's copies of the rows now: each with what it has counted.      *)
ReceiptRows(r, now) ==
    /\ DOMAIN r.rows = DOMAIN now
    /\ \A l \in DOMAIN now :
         /\ r.rows[l].sku = now[l].sku /\ r.rows[l].expected = now[l].expected
         /\ r.rows[l].received = now[l].received + Counted(r, l)
         /\ r.rows[l].received <= r.rows[l].expected

RowsWritten(r) ==
    /\ \A l \in LinesOf(r.asked) \ LinesOf(Unwritten(r)) : "received" \in r.rowsSet[l]
    /\ r.at = "writeRow" => "received" \in r.diff

CreateFits(r) ==
    /\ r.head = Draft(r.head.warehouse)
    /\ \E p \in Payloads : Complete(p) /\ ReceiptRows(r, Rows(p))

ReceiveFits(r, head, now) ==
    /\ r.head = head /\ head.status = "draft"
    /\ r.at # "find" => ReceiptRows(r, now) /\ RowsWritten(r)

(* An update's copies: amended by what the payload p has for the lines it  *)
(* has been through.                                                       *)
RowAmended(row, asked, new) ==
    /\ new = Overlay(row, asked, DOMAIN asked)
    /\ "expected" \in DOMAIN asked => asked.expected >= row.received

Amends(r, p, now) ==
    /\ r.new = Through(r) \ DOMAIN now /\ DOMAIN r.rows = DOMAIN now \cup r.new
    /\ \A l \in r.new : "sku" \in DOMAIN p[l] /\ r.rows[l] = NewRow(p[l])
    /\ \A l \in DOMAIN now \cap Through(r) : RowAmended(now[l], p[l], r.rows[l])
    /\ \A l \in DOMAIN now \ Through(r) : r.rows[l] = now[l]

ChangesSet(r, now) ==
    /\ \A l \in DOMAIN now \ LinesOf(Unwritten(r)) :
         Differing(r.rows[l], now[l]) \subseteq r.rowsSet[l]
    /\ r.at = "writeRow" =>
         Differing(r.rows[Head(r.lines).line], now[Head(r.lines).line]) \subseteq r.diff

UpdateFits(r, head, now) ==
    /\ head.status = "draft"
    /\ r.head = [head EXCEPT !.warehouse = r.head.warehouse]
    /\ r.at = "writeHead" => r.diff = Differing(r.head, head)
    /\ r.headSet = IF r.at \in {"head", "writeHead"} THEN {} ELSE Differing(r.head, head)
    /\ HasRows(r) => /\ \E p \in Payloads \cup {NoRows} : AsksFor(r.asked, p) /\ Amends(r, p, now)
                     /\ ChangesSet(r, now)

(* delete and post.                                                        *)
HeadFits(r, head, now) ==
    /\ head.status = "draft"
    /\ r.op = "delete" => r.at # "items" /\ r.head = [head EXCEPT !.deleted = TRUE]
    /\ r.op = "post" =>
         IF r.at = "items" THEN r.head = head
         ELSE r.head = [head EXCEPT !.status = "posted"] /\ FullyReceived(now)
    /\ r.at = "writeHead" => r.diff = Differing(r.head, head)

(* r has the note whose committed header and rows are head and now to      *)
(* itself.                                                                 *)
CopiesFit(r, head, now) ==
    /\ r.op = "receive" => ReceiveFits(r, head, now)
    /\ r.op = "update" => UpdateFits(r, head, now)
    /\ r.op \in {"delete", "post"} => HeadFits(r, head, now)

OneRequest ==
    \A w, v \in Workers :
        w # v /\ ~Idle(w) /\ On(v, req[w].grn) => req[w].grn \in overlapped

(* What is committed of the note a request is for.                         *)
HeadNow(w) == grn[req[w].grn]
RowsNow(w) == items[req[w].grn]

Undisturbed(w) ==
    ~Idle(w) =>
      IF req[w].op = "create" THEN CreateFits(req[w])
      ELSE req[w].grn \notin overlapped => CopiesFit(req[w], HeadNow(w), RowsNow(w))

AloneInvariant ==
    OneRequest /\ UncontendedNotesAgree /\ \A w \in Workers : Undisturbed(w)

----------------------------------------------------------------------------
(* The request's own steps.                                                *)
USE DEF GrnShape, NoRequest, Idle, IsPartial

LEMMA HeaderIs ==
    ASSUME NEW head \in Header
    PROVE  /\ DOMAIN head = {"status", "deleted", "warehouse"}
           /\ head = [status |-> head.status, deleted |-> head.deleted,
                      warehouse |-> head.warehouse]
  BY DEF Header

(* Setting at least the columns that differ makes a row of its copy.       *)
LEMMA OverlayIsCopy ==
    ASSUME NEW C, NEW old, old = [c \in C |-> old[c]], NEW new, new = [c \in C |-> new[c]],
           NEW columns, Differing(new, old) \subseteq columns
    PROVE  Overlay(old, new, columns) = new
  <1>1. DOMAIN old = C
    OBVIOUS
  <1>2. \A c \in C : (IF c \in columns THEN new[c] ELSE old[c]) = new[c]
    BY <1>1 DEF Differing
  <1> QED
    BY <1>1, <1>2 DEF Overlay

LEMMA HeadOverlay ==
    ASSUME NEW old \in Header, NEW new \in Header, NEW columns,
           Differing(new, old) \subseteq columns
    PROVE  Overlay(old, new, columns) = new
  <1> DEFINE C == {"status", "deleted", "warehouse"}
  <1>1. old = [c \in C |-> old[c]] /\ new = [c \in C |-> new[c]]
    BY DEF Header
  <1> QED
    BY <1>1, OverlayIsCopy

LEMMA RowOverlay ==
    ASSUME NEW old \in Item, NEW new \in Item, NEW columns,
           Differing(new, old) \subseteq columns
    PROVE  Overlay(old, new, columns) = new
  <1> DEFINE C == {"sku", "expected", "received"}
  <1>1. old = [c \in C |-> old[c]] /\ new = [c \in C |-> new[c]]
    BY DEF Item
  <1> QED
    BY <1>1, OverlayIsCopy

LEMMA FitsNow ==
    ASSUME GrnInvariant, AloneInvariant, NEW w \in Workers, ~Idle(w),
           req[w].op # "create", req[w].grn \notin overlapped
    PROVE  /\ CopiesFit(req[w], HeadNow(w), RowsNow(w))
           /\ NoteRequest(req[w]) /\ RowsKnown(req[w])
           /\ req[w] \in RequestRecord /\ req[w].grn \in DOMAIN grn
           /\ HeadNow(w) \in Header /\ RowsNow(w) \in RowTables
  <1>1. CopiesFit(req[w], HeadNow(w), RowsNow(w))
    BY DEF AloneInvariant, Undisturbed
  <1>2. NoteRequest(req[w]) /\ RowsKnown(req[w]) /\ req[w] \in RequestRecord
    BY BusyRecord DEF GrnInvariant, RequestsGrounded, CreateRequest
  <1>3. req[w].grn \in DOMAIN grn
    BY <1>2 DEF RowsKnown
  <1> QED
    BY <1>1, <1>2, <1>3 DEF HeadNow, RowsNow, GrnInvariant

LEMMA HeadStepFits ==
    ASSUME GrnInvariant, AloneInvariant, NEW w \in Workers,
           CheckReceived(w) \/ LoadHead(w) \/ WriteHead(w), ~Idle(w)',
           req[w].grn \notin overlapped, NEW s, s = req'[w]
    PROVE  CopiesFit(s, HeadNow(w), RowsNow(w))
  <1>1. ~Idle(w) /\ req[w].at \in {"items", "head", "writeHead"} /\ ~End(w)
    BY DEF CheckReceived, LoadHead, WriteHead, At, End, GrnInvariant
  <1>2. req[w].op \in {"update", "delete", "post"}
    BY <1>1 DEF GrnInvariant, RequestsGrounded, CreateRequest,
       NoteRequest, ReceiveRequest, UpdateRequest, HeadRequest
  <1>3. /\ CopiesFit(req[w], HeadNow(w), RowsNow(w)) /\ NoteRequest(req[w])
        /\ req[w] \in RequestRecord /\ HeadNow(w) \in Header
    BY <1>1, <1>2, FitsNow
  <1> PICK r : r = req[w]
    OBVIOUS
  <1>4. CASE CheckReceived(w)
    <2>1. /\ s = [r EXCEPT !.head = [r.head EXCEPT !.status = "posted"], !.at = "head"]
          /\ FullyReceived(RowsNow(w)) /\ r.at = "items"
      BY <1>1, <1>4 DEF CheckReceived, At, RowsNow, GrnInvariant
    <2>2. r.op = "post"
      BY <1>2, <1>3, <2>1 DEF CopiesFit, HeadFits, NoteRequest, UpdateRequest,
         ReceiveRequest, HeadRequest
    <2>3. s.op = "post" /\ s.at = "head" /\ s.head = [r.head EXCEPT !.status = "posted"]
      BY <1>3, <2>1, <2>2 DEF RequestRecord
    <2> QED
      BY <1>3, <2>1, <2>2, <2>3 DEF CopiesFit, HeadFits
  <1>5. CASE LoadHead(w)
    <2>1. /\ s = [r EXCEPT !.diff = Differing(r.head, HeadNow(w)), !.at = "writeHead"]
          /\ r.at = "head"
      BY <1>5 DEF LoadHead, At, HeadNow, GrnInvariant
    <2>2. /\ s.op = r.op /\ s.at = "writeHead" /\ s.head = r.head
          /\ s.diff = Differing(r.head, HeadNow(w)) /\ s.headSet = r.headSet
      BY <1>3, <2>1 DEF RequestRecord
    <2> QED
      BY <1>2, <1>3, <2>1, <2>2 DEF CopiesFit, HeadFits, UpdateFits, HasRows
  <1>6. CASE WriteHead(w)
    <2>1. r.at = "writeHead" /\ r.op = "update"
      BY <1>6 DEF WriteHead, At
    <2>2. /\ r.headSet = {} /\ r.diff = Differing(r.head, HeadNow(w))
          /\ HeadNow(w).status = "draft"
          /\ r.head = [HeadNow(w) EXCEPT !.warehouse = r.head.warehouse]
      BY <1>3, <2>1 DEF CopiesFit, UpdateFits
    <2>3. \/ s = [r EXCEPT !.at = "find"] /\ r.diff = {}
          \/ s = [r EXCEPT !.headSet = r.diff, !.diff = {}, !.headLock = TRUE, !.at = "find"]
      BY <1>6 DEF WriteHead, GrnInvariant
    <2>4. /\ s.op = "update" /\ s.at = "find" /\ s.head = r.head
          /\ s.headSet = Differing(r.head, HeadNow(w))
      BY <1>3, <2>1, <2>2, <2>3 DEF RequestRecord
    <2> QED
      BY <2>2, <2>4 DEF CopiesFit, UpdateFits, HasRows
  <1> QED
    BY <1>4, <1>5, <1>6

(* The statements of a receipt.                                            *)
LEMMA AdvanceRows ==
    ASSUME NEW r, NEW s, NEW now \in RowTables, Advances(r, s), r.op \in {"create", "receive"},
           ReceiptRows(r, now), r.asked \in Receipts
    PROVE  ReceiptRows(s, now)
  <1> DEFINE before == LinesOf(Remaining(r))
             after == LinesOf(Remaining(s))
  <1>1. /\ DOMAIN s.rows = DOMAIN now /\ after \subseteq before
        /\ s.op = r.op /\ s.asked = r.asked
    BY DEF Advances, ReceiptRows
  <1> SUFFICES ASSUME NEW l \in DOMAIN now
               PROVE  /\ s.rows[l].sku = now[l].sku /\ s.rows[l].expected = now[l].expected
                      /\ s.rows[l].received = now[l].received + Counted(s, l)
                      /\ s.rows[l].received <= s.rows[l].expected
    BY <1>1 DEF ReceiptRows
  <1> DEFINE q == QtyIn(r.asked, l)
  <1>2. /\ r.rows[l].sku = now[l].sku /\ r.rows[l].expected = now[l].expected
        /\ r.rows[l].received = now[l].received + Counted(r, l)
        /\ r.rows[l].received <= r.rows[l].expected /\ l \in DOMAIN r.rows
    BY DEF ReceiptRows
  <1>3. /\ s.rows[l].sku = r.rows[l].sku /\ s.rows[l].expected = r.rows[l].expected
        /\ s.rows[l].received = r.rows[l].received + IF l \in before \ after THEN q ELSE 0
        /\ \/ s.rows[l].received = r.rows[l].received
           \/ s.rows[l].received <= s.rows[l].expected
    BY <1>2 DEF Advances
  <1>4. /\ Counted(r, l) = IF l \in before THEN 0 ELSE q
        /\ Counted(s, l) = IF l \in after THEN 0 ELSE q
    BY <1>1 DEF Counted
  <1>5. q \in Nat /\ now[l].received \in Nat
    BY QtyTypes, RowTypes
  <1> HIDE DEF before, after, q
  <1>6. s.rows[l].received = now[l].received + Counted(s, l)
    <2>1. CASE l \in after
      BY <1>1, <1>2, <1>3, <1>4, <1>5, <2>1
    <2>2. CASE l \notin after /\ l \in before
      BY <1>1, <1>2, <1>3, <1>4, <1>5, <2>2
    <2>3. CASE l \notin before
      BY <1>1, <1>2, <1>3, <1>4, <1>5, <2>3
    <2> QED
      BY <2>1, <2>2, <2>3
  <1> QED
    BY <1>2, <1>3, <1>6

LEMMA ReceiptWrites ==
    ASSUME GrnInvariant, NEW w \in Workers, Posting(w), ReceiptStatement(w), ~Idle(w)',
           req[w].op = "receive", RowsWritten(req[w]), NEW s, s = req'[w]
    PROVE  RowsWritten(s)
  <1>1. ~Idle(w) /\ req[w] \in RequestRecord /\ ~End(w) /\ ReceiveRequest(req[w])
    BY BusyRecord DEF Posting, End, GrnInvariant, RequestsGrounded, CreateRequest,
       NoteRequest, UpdateRequest, HeadRequest
  <1> PICK r : r = req[w]
    OBVIOUS
  <1>2. CASE ReceiveLine(w)
    <2>1. s = LineReceived(r) /\ r.at = "receive"
      BY <1>1, <1>2, ReceiveLineIs DEF ReceiveLine, At, GrnInvariant
    <2>2. s.asked = r.asked /\ s.lines = r.lines /\ s.at = "loadRow" /\ s.rowsSet = r.rowsSet
      BY <1>1, <2>1 DEF LineReceived, RequestRecord
    <2> QED
      BY <2>1, <2>2 DEF RowsWritten, Unwritten
  <1>3. CASE LoadRow(w)
    <2> PICK d \in SUBSET Columns :
          /\ req' = [req EXCEPT ![w] = [req[w] EXCEPT !.diff = d, !.at = "writeRow"]]
          /\ "received" \in d
      BY <1>3, LoadRowIs
    <2>1. s = [r EXCEPT !.diff = d, !.at = "writeRow"] /\ r.at = "loadRow"
      BY <1>3 DEF LoadRow, At, GrnInvariant
    <2>2. /\ s.asked = r.asked /\ s.lines = r.lines /\ s.at = "writeRow"
          /\ s.rowsSet = r.rowsSet /\ s.diff = d
      BY <1>1, <2>1 DEF RequestRecord
    <2> QED
      BY <2>1, <2>2 DEF RowsWritten, Unwritten
  <1>4. CASE WriteRow(w)
    <2> DEFINE l == Head(r.lines).line
    <2>1. s = RowWritten(r) /\ r.at = "writeRow"
      BY <1>4, WriteRowIs DEF WriteRow, At, GrnInvariant
    <2>2. /\ s.asked = r.asked /\ s.lines = r.lines /\ s.at = "balance"
          /\ s.rowsSet = [r.rowsSet EXCEPT ![l] = r.diff]
      BY <1>1, <2>1 DEF RowWritten, RequestRecord
    <2>3. /\ r.rowsSet \in [LineNos -> SUBSET Columns] /\ "received" \in r.diff
          /\ \A m \in LinesOf(r.asked) \ LinesOf(r.lines) : "received" \in r.rowsSet[m]
      BY <1>1, <2>1 DEF RowsWritten, Unwritten, RequestRecord
    <2>4. /\ r.lines # <<>> /\ LinesOf(r.asked) \subseteq LineNos
          /\ LinesOf(r.lines) = LinesOf(Tail(r.lines)) \cup {l}
      BY <1>1, <2>1, ReceiptFacts, ReceiptTypes DEF ReceiveRequest, ReceiptOf, InLine
    <2>5. \A m \in LinesOf(r.asked) \ LinesOf(Tail(r.lines)) : "received" \in s.rowsSet[m]
      BY <2>2, <2>3, <2>4
    <2> QED
      BY <2>2, <2>5 DEF RowsWritten, Unwritten
  <1>5. CASE BalanceStatement(w)
    <2>1. r.at = "balance"
      BY <1>5 DEF BalanceStatement, At
    <2>2. CASE s = r
      BY <2>2
    <2>3. CASE s = [r EXCEPT !.lines = Tail(r.lines), !.at = "receive"]
      <3>1. /\ s.asked = r.asked /\ s.lines = Tail(r.lines) /\ s.at = "receive"
            /\ s.rowsSet = r.rowsSet
        BY <1>1, <2>3 DEF RequestRecord
      <3> QED
        BY <2>1, <3>1 DEF RowsWritten, Unwritten
    <2>4. s = r \/ s = [r EXCEPT !.lines = Tail(r.lines), !.at = "receive"]
      BY <1>1, <1>5 DEF BalanceStatement, GrnInvariant, End
    <2> QED
      BY <2>2, <2>3, <2>4
  <1> QED
    BY <1>2, <1>3, <1>4, <1>5 DEF ReceiptStatement

LEMMA ReceiptFits ==
    ASSUME GrnInvariant, AloneInvariant, NEW w \in Workers,
           Posting(w), ReceiptStatement(w), ~Idle(w)', NEW s, s = req'[w]
    PROVE  IF req[w].op = "create" THEN CreateFits(s)
           ELSE req[w].grn \notin overlapped => CopiesFit(s, HeadNow(w), RowsNow(w))
  <1>1. Advances(req[w], s) /\ req[w].op \in {"create", "receive"} /\ ~Idle(w)
    BY ReceiptAdvances DEF Posting
  <1>2. req[w].asked \in Receipts
    BY <1>1 DEF GrnInvariant, RequestsGrounded, CreateRequest, NoteRequest,
       ReceiveRequest, UpdateRequest, HeadRequest, ReceiptOf
  <1>3. s.op = req[w].op /\ s.head = req[w].head
    BY <1>1 DEF Advances
  <1>4. CASE req[w].op = "create"
    <2>1. CreateFits(req[w])
      BY <1>1, <1>4 DEF AloneInvariant, Undisturbed
    <2>2. PICK p \in Payloads : Complete(p) /\ ReceiptRows(req[w], Rows(p))
      BY <2>1 DEF CreateFits
    <2>3. Rows(p) \in RowTables
      BY <2>2, PayloadRows
    <2>4. ReceiptRows(s, Rows(p))
      BY <1>1, <1>2, <2>2, <2>3, AdvanceRows
    <2> QED
      BY <1>3, <1>4, <2>1, <2>2, <2>4 DEF CreateFits
  <1>5. CASE req[w].op = "receive" /\ req[w].grn \notin overlapped
    <2>1. CopiesFit(req[w], HeadNow(w), RowsNow(w)) /\ RowsNow(w) \in RowTables
      BY <1>1, <1>5, FitsNow
    <2>2. /\ ReceiptRows(req[w], RowsNow(w)) /\ RowsWritten(req[w])
          /\ req[w].head = HeadNow(w) /\ HeadNow(w).status = "draft"
      BY <1>5, <2>1 DEF CopiesFit, ReceiveFits, Posting
    <2>3. ReceiptRows(s, RowsNow(w))
      BY <1>1, <1>2, <2>1, <2>2, AdvanceRows
    <2>4. RowsWritten(s)
      BY <1>5, <2>2, ReceiptWrites
    <2> QED
      BY <1>3, <1>5, <2>2, <2>3, <2>4 DEF CopiesFit, ReceiveFits
  <1> QED
    BY <1>1, <1>4, <1>5

(* The finders.                                                            *)
LEMMA FindFits ==
    ASSUME GrnInvariant, AloneInvariant, NEW w \in Workers,
           FindForUpdate(w) \/ FindForReceive(w), ~Idle(w)',
           req[w].grn \notin overlapped, NEW s, s = req'[w]
    PROVE  CopiesFit(s, HeadNow(w), RowsNow(w))
  <1>1. ~Idle(w) /\ req[w].at = "find" /\ req[w].op \in {"update", "receive"}
    BY DEF FindForUpdate, FindForReceive, At
  <1>2. /\ CopiesFit(req[w], HeadNow(w), RowsNow(w)) /\ NoteRequest(req[w])
        /\ req[w] \in RequestRecord /\ HeadNow(w) \in Header /\ RowsNow(w) \in RowTables
        /\ req[w].grn \in DOMAIN grn
    BY <1>1, FitsNow
  <1> PICK r, now : r = req[w] /\ now = RowsNow(w)
    OBVIOUS
  <1>3. CASE FindForUpdate(w)
    <2>1. s = [r EXCEPT !.rows = now, !.at = "amend"] /\ r.op = "update"
      BY <1>3 DEF FindForUpdate, RowsNow, GrnInvariant
    <2>2. /\ s.op = "update" /\ s.at = "amend" /\ s.rows = now /\ s.new = r.new
          /\ s.lines = r.lines /\ s.asked = r.asked /\ s.head = r.head
          /\ s.headSet = r.headSet /\ s.rowsSet = r.rowsSet
      BY <1>2, <2>1 DEF RequestRecord
    <2>3. /\ UpdateRequest(r) /\ UpdateFits(r, HeadNow(w), now)
      BY <1>2, <2>1 DEF CopiesFit, NoteRequest, ReceiveRequest, HeadRequest
    <2>4. PICK p \in Payloads \cup {NoRows} : AsksFor(r.asked, p)
      BY <2>3 DEF UpdateRequest
    <2>5. Through(s) = {} /\ s.new = {}
      BY <1>1, <2>2, <2>3 DEF UpdateRequest, Through, Remaining, InLine
    <2>6. Amends(s, p, now)
      BY <2>2, <2>5 DEF Amends
    <2>7. ChangesSet(s, now)
      BY <2>2 DEF ChangesSet, Differing
    <2> QED
      BY <1>1, <2>2, <2>3, <2>4, <2>6, <2>7 DEF CopiesFit, UpdateFits
  <1>4. CASE FindForReceive(w)
    <2>1. /\ s = [r EXCEPT !.rows = now, !.at = "receive"]
          /\ r.lines = r.asked /\ r.op = "receive"
      BY <1>4, FindForReceiveIs DEF FindForReceive, RowsNow, GrnInvariant
    <2>2. /\ s.op = "receive" /\ s.at = "receive" /\ s.rows = now
          /\ s.lines = s.asked /\ s.head = r.head
      BY <1>2, <2>1 DEF RequestRecord
    <2>3. r.head = HeadNow(w) /\ HeadNow(w).status = "draft"
      BY <1>2, <2>1 DEF CopiesFit, ReceiveFits
    <2>4. \A l : Counted(s, l) = 0
      <3>1. \A l : l \notin LinesOf(s.asked) => QtyIn(s.asked, l) = 0
        BY QtyOfNoLine
      <3> QED
        BY <2>2, <3>1 DEF Counted, Remaining, InLine
    <2>5. ReceiptRows(s, now)
      <3> SUFFICES ASSUME NEW l \in DOMAIN now
                   PROVE  now[l].received = now[l].received + Counted(s, l)
                          /\ now[l].received <= now[l].expected
        BY <2>2 DEF ReceiptRows
      <3>1. now[l].received \in Nat
        BY <1>2, RowTypes
      <3>2. now[l].received <= now[l].expected
        BY <1>2 DEF AloneInvariant, UncontendedNotesAgree, RowsNow
      <3> QED
        BY <2>4, <3>1, <3>2
    <2>6. RowsWritten(s)
      BY <2>2 DEF RowsWritten, Unwritten
    <2> QED
      BY <2>2, <2>3, <2>5, <2>6 DEF CopiesFit, ReceiveFits
  <1> QED
    BY <1>3, <1>4

(* The lines of an update.                                                 *)
LEMMA AsksForLine ==
    ASSUME NEW s, NEW t, NEW p, AsksFor(t, p), s # <<>>, Suffix(s, t),
           s \in Seq(Entry)
    PROVE  /\ Head(s).line \in DOMAIN p /\ Head(s).asked = p[Head(s).line]
           /\ LinesOf(s) = LinesOf(Tail(s)) \cup {Head(s).line}
           /\ Head(s).line \notin LinesOf(Tail(s))
           /\ LinesOf(s) \subseteq LinesOf(t)
  <1>1. /\ t \in Seq(Entry) /\ \A i, j \in DOMAIN t : t[i].line = t[j].line => i = j
    BY DEF AsksFor
  <1>2. /\ \E n \in DOMAIN t : Head(s) = t[n]
        /\ LinesOf(s) = LinesOf(Tail(s)) \cup {Head(s).line}
        /\ Head(s).line \notin LinesOf(Tail(s))
        /\ LinesOf(s) \subseteq LinesOf(t) /\ Head(s).line \in LinesOf(t)
    BY <1>1, FirstLineOnce
  <1> QED
    BY <1>2 DEF AsksFor

LEMMA AmendingNow ==
    ASSUME GrnInvariant, AloneInvariant, NEW w \in Workers, ~Idle(w),
           req[w].op = "update", HasRows(req[w]), req[w].grn \notin overlapped
    PROVE  /\ UpdateRequest(req[w]) /\ req[w] \in RequestRecord
           /\ HeadNow(w) \in Header /\ RowsNow(w) \in RowTables /\ req[w].rows \in RowTables
           /\ req[w].grn \in DOMAIN grn
           /\ UpdateFits(req[w], HeadNow(w), RowsNow(w))
           /\ ChangesSet(req[w], RowsNow(w))
           /\ \E p \in Payloads \cup {NoRows} :
                AsksFor(req[w].asked, p) /\ Amends(req[w], p, RowsNow(w))
  <1>1. /\ CopiesFit(req[w], HeadNow(w), RowsNow(w)) /\ NoteRequest(req[w])
        /\ req[w] \in RequestRecord /\ HeadNow(w) \in Header /\ RowsNow(w) \in RowTables
        /\ req[w].grn \in DOMAIN grn
    BY FitsNow
  <1>2. UpdateRequest(req[w]) /\ req[w].rows \in RowTables
    BY <1>1 DEF NoteRequest, ReceiveRequest, HeadRequest, RequestRecord
  <1>3. UpdateFits(req[w], HeadNow(w), RowsNow(w))
    BY <1>1 DEF CopiesFit
  <1> QED
    BY <1>1, <1>2, <1>3 DEF UpdateFits

LEMMA AmendLineFits ==
    ASSUME GrnInvariant, AloneInvariant, NEW w \in Workers, AmendLine(w), ~Idle(w)',
           req[w].grn \notin overlapped, NEW s, s = req'[w]
    PROVE  CopiesFit(s, HeadNow(w), RowsNow(w))
  <1>1. /\ ~Idle(w) /\ req[w].at = "amend" /\ req[w].lines # <<>> /\ ~End(w)
        /\ req[w].op = "update"
    BY AmendFacts DEF AmendLine, At, End, GrnInvariant
  <1> PICK r, now, head : r = req[w] /\ now = RowsNow(w) /\ head = HeadNow(w)
    OBVIOUS
  <1>2. /\ UpdateRequest(r) /\ r \in RequestRecord /\ now \in RowTables
        /\ r.rows \in RowTables
        /\ UpdateFits(r, head, now) /\ ChangesSet(r, now)
    BY <1>1, AmendingNow DEF HasRows
  <1> PICK p \in Payloads \cup {NoRows} : AsksFor(r.asked, p) /\ Amends(r, p, now)
    BY <1>1, AmendingNow DEF HasRows
  <1> PICK l, asked : l = Head(r.lines).line /\ asked = Head(r.lines).asked
    OBVIOUS
  <1>3. /\ l \in DOMAIN p /\ asked = p[l] /\ l \in LinesOf(r.lines)
        /\ LinesOf(r.lines) = LinesOf(Tail(r.lines)) \cup {l}
        /\ l \notin LinesOf(Tail(r.lines)) /\ LinesOf(r.lines) \subseteq LinesOf(r.asked)
    BY <1>1, <1>2, AsksForLine DEF UpdateRequest, RequestRecord
  <1>4. Through(r) = LinesOf(r.asked) \ LinesOf(r.lines)
    BY <1>1 DEF Through, Remaining, InLine
  <1>5. /\ l \in DOMAIN r.rows
        /\ "expected" \in DOMAIN asked => ~(asked.expected < r.rows[l].received)
        /\ s = [r EXCEPT !.rows = [r.rows EXCEPT ![l] = Overlay(r.rows[l], asked, DOMAIN asked)],
                         !.at = "loadRow"]
    BY <1>1, <1>2 DEF AmendLine, GrnInvariant, RequestRecord
  <1>6. l \in DOMAIN now /\ r.rows[l] = now[l]
    BY <1>2, <1>3, <1>4, <1>5 DEF Amends, UpdateRequest
  <1>7. /\ s.op = "update" /\ s.at = "loadRow" /\ s.new = r.new /\ s.lines = r.lines
        /\ s.asked = r.asked /\ s.head = r.head /\ s.headSet = r.headSet
        /\ s.rowsSet = r.rowsSet
        /\ s.rows = [r.rows EXCEPT ![l] = Overlay(r.rows[l], asked, DOMAIN asked)]
    BY <1>1, <1>2, <1>5 DEF RequestRecord
  <1>8. Through(s) = Through(r) \cup {l} /\ l \notin Through(r)
    BY <1>3, <1>4, <1>7 DEF Through, Remaining, InLine
  <1>9. RowAmended(now[l], p[l], s.rows[l])
    <2>1. "expected" \in DOMAIN asked => asked.expected >= now[l].received
      <3>1. "expected" \in DOMAIN asked => asked.expected \in Nat
        BY <1>3, PayloadTypes
      <3>2. now[l].received \in Nat
        BY <1>2, <1>6, RowTypes
      <3> QED
        BY <1>5, <1>6, <3>1, <3>2
    <2> QED
      BY ZenonT(60), <1>3, <1>5, <1>6, <1>7, <2>1 DEF RowAmended
  <1>10. Amends(s, p, now)
    <2>1. /\ r.new = Through(r) \ DOMAIN now /\ DOMAIN r.rows = DOMAIN now \cup r.new
          /\ \A m \in r.new : "sku" \in DOMAIN p[m] /\ r.rows[m] = NewRow(p[m])
          /\ \A m \in DOMAIN now \cap Through(r) : RowAmended(now[m], p[m], r.rows[m])
          /\ \A m \in DOMAIN now \ Through(r) : r.rows[m] = now[m]
      BY <1>2 DEF Amends
    <2>2. /\ DOMAIN s.rows = DOMAIN r.rows
          /\ \A m \in DOMAIN r.rows \ {l} : s.rows[m] = r.rows[m]
      BY <1>5, <1>7
    <2>3. s.new = Through(s) \ DOMAIN now /\ DOMAIN s.rows = DOMAIN now \cup s.new
      BY <1>6, <1>7, <1>8, <2>1, <2>2
    <2>4. ASSUME NEW m \in s.new
          PROVE  "sku" \in DOMAIN p[m] /\ s.rows[m] = NewRow(p[m])
      BY <1>6, <1>7, <2>1, <2>2
    <2>5. ASSUME NEW m \in DOMAIN now \cap Through(s)
          PROVE  RowAmended(now[m], p[m], s.rows[m])
      <3>1. CASE m = l
        BY <1>9, <3>1
      <3>2. CASE m # l
        BY <1>8, <2>1, <2>2, <3>2
      <3> QED
        BY <3>1, <3>2
    <2>6. ASSUME NEW m \in DOMAIN now \ Through(s)
          PROVE  s.rows[m] = now[m]
      BY <1>8, <2>1, <2>2
    <2> QED
      BY <2>3, <2>4, <2>5, <2>6 DEF Amends
  <1>11. ChangesSet(s, now)
    <2>1. \A m \in DOMAIN now \ LinesOf(r.lines) :
            Differing(r.rows[m], now[m]) \subseteq r.rowsSet[m]
      BY <1>1, <1>2 DEF ChangesSet, Unwritten
    <2>2. \A m \in DOMAIN now \ LinesOf(r.lines) : s.rows[m] = r.rows[m]
      BY <1>3, <1>7, Zenon DEF Amends
    <2> QED
      BY <1>7, <2>1, <2>2 DEF ChangesSet, Unwritten
  <1> QED
    BY <1>1, <1>2, <1>7, <1>10, <1>11 DEF CopiesFit, UpdateFits

LEMMA InsertLineFits ==
    ASSUME GrnInvariant, AloneInvariant, NEW w \in Workers, InsertLine(w), ~Idle(w)',
           req[w].grn \notin overlapped, NEW s, s = req'[w]
    PROVE  CopiesFit(s, HeadNow(w), RowsNow(w))
  <1>1. /\ ~Idle(w) /\ req[w].at = "amend" /\ req[w].lines # <<>> /\ ~End(w)
        /\ req[w].op = "update" /\ Head(req[w].lines).line \notin DOMAIN req[w].rows
    <2>1. /\ ~Idle(w) /\ req[w].at = "amend" /\ req[w].lines # <<>>
          /\ Head(req[w].lines).line \notin DOMAIN req[w].rows
      BY DEF InsertLine, At
    <2>2. ~End(w)
      BY DEF End, GrnInvariant
    <2> QED
      BY <2>1, <2>2, AmendFacts
  <1> PICK r, now, head : r = req[w] /\ now = RowsNow(w) /\ head = HeadNow(w)
    OBVIOUS
  <1>2. /\ UpdateRequest(r) /\ r \in RequestRecord /\ now \in RowTables
        /\ r.rows \in RowTables
        /\ UpdateFits(r, head, now) /\ ChangesSet(r, now)
    BY <1>1, AmendingNow DEF HasRows
  <1> PICK p \in Payloads \cup {NoRows} : AsksFor(r.asked, p) /\ Amends(r, p, now)
    BY <1>1, AmendingNow DEF HasRows
  <1> PICK l, asked : l = Head(r.lines).line /\ asked = Head(r.lines).asked
    OBVIOUS
  <1>3. /\ l \in DOMAIN p /\ asked = p[l] /\ l \in LinesOf(r.lines)
        /\ LinesOf(r.lines) = LinesOf(Tail(r.lines)) \cup {l}
        /\ l \notin LinesOf(Tail(r.lines)) /\ LinesOf(r.lines) \subseteq LinesOf(r.asked)
    BY <1>1, <1>2, AsksForLine DEF UpdateRequest, RequestRecord
  <1>4. Through(r) = LinesOf(r.asked) \ LinesOf(r.lines)
    BY <1>1 DEF Through, Remaining, InLine
  <1>5. s = WithLine(r) /\ "sku" \in DOMAIN asked /\ l \notin DOMAIN r.rows
    BY <1>1, InsertLineIs DEF GrnInvariant
  <1>6. l \notin DOMAIN now
    BY <1>5 DEF Amends
  <1>7. /\ s.op = "update" /\ s.at = "amend" /\ s.new = r.new \cup {l}
        /\ s.lines = Tail(r.lines)
        /\ s.asked = r.asked /\ s.head = r.head /\ s.headSet = r.headSet
        /\ s.rowsSet = r.rowsSet
        /\ s.rows = [m \in DOMAIN r.rows \cup {l} |->
                       IF m = l THEN NewRow(asked) ELSE r.rows[m]]
    BY <1>1, <1>2, <1>5 DEF WithLine, RequestRecord
  <1>8. Through(s) = Through(r) \cup {l} /\ l \notin Through(r)
    BY <1>3, <1>4, <1>7 DEF Through, Remaining, InLine
  <1>9. Amends(s, p, now)
    <2>1. /\ r.new = Through(r) \ DOMAIN now /\ DOMAIN r.rows = DOMAIN now \cup r.new
          /\ \A m \in r.new : "sku" \in DOMAIN p[m] /\ r.rows[m] = NewRow(p[m])
          /\ \A m \in DOMAIN now \cap Through(r) : RowAmended(now[m], p[m], r.rows[m])
          /\ \A m \in DOMAIN now \ Through(r) : r.rows[m] = now[m]
      BY DEF Amends
    <2>2. s.new = Through(s) \ DOMAIN now /\ DOMAIN s.rows = DOMAIN now \cup s.new
      BY <1>6, <1>7, <1>8, <2>1
    <2>3. \A m \in s.new : "sku" \in DOMAIN p[m] /\ s.rows[m] = NewRow(p[m])
      BY <1>3, <1>5, <1>7, <2>1
    <2>4. \A m \in DOMAIN now : s.rows[m] = r.rows[m]
      BY <1>6, <1>7, <2>1
    <2> QED
      BY <1>6, <1>8, <2>1, <2>2, <2>3, <2>4 DEF Amends
  <1>10. ChangesSet(s, now)
    <2>1. \A m \in DOMAIN now \ LinesOf(r.lines) :
            Differing(r.rows[m], now[m]) \subseteq r.rowsSet[m]
      BY <1>1, <1>2 DEF ChangesSet, Unwritten
    <2>2. DOMAIN now \ LinesOf(Tail(r.lines)) = DOMAIN now \ LinesOf(r.lines)
      BY <1>3, <1>6
    <2>3. \A m \in DOMAIN now : s.rows[m] = r.rows[m]
      BY <1>6, <1>7 DEF Amends
    <2> QED
      BY <1>7, <2>1, <2>2, <2>3 DEF ChangesSet, Unwritten
  <1> QED
    BY <1>1, <1>2, <1>7, <1>9, <1>10 DEF CopiesFit, UpdateFits

LEMMA SaveLineFits ==
    ASSUME GrnInvariant, AloneInvariant, NEW w \in Workers, LoadRow(w) \/ WriteRow(w),
           ~Idle(w)', req[w].op = "update", req[w].grn \notin overlapped,
           NEW s, s = req'[w]
    PROVE  CopiesFit(s, HeadNow(w), RowsNow(w))
  <1>1. ~Idle(w) /\ req[w].at \in {"loadRow", "writeRow"}
    BY DEF LoadRow, WriteRow, At
  <1> PICK r, now, head : r = req[w] /\ now = RowsNow(w) /\ head = HeadNow(w)
    OBVIOUS
  <1>2. /\ UpdateRequest(r) /\ r \in RequestRecord /\ now \in RowTables
        /\ r.rows \in RowTables
        /\ UpdateFits(r, head, now) /\ ChangesSet(r, now)
    BY <1>1, AmendingNow DEF HasRows
  <1> PICK p \in Payloads \cup {NoRows} : AsksFor(r.asked, p) /\ Amends(r, p, now)
    BY <1>1, AmendingNow DEF HasRows
  <1> PICK l : l = Head(r.lines).line
    OBVIOUS
  <1>3. r.lines # <<>> /\ l \in DOMAIN r.rows \ r.new
    BY <1>1, <1>2 DEF UpdateRequest, InLine
  <1>4. /\ l \in LinesOf(r.lines)
        /\ LinesOf(r.lines) = LinesOf(Tail(r.lines)) \cup {l}
        /\ l \notin LinesOf(Tail(r.lines))
    BY <1>2, <1>3, AsksForLine DEF UpdateRequest, RequestRecord
  <1>5. l \in DOMAIN now /\ l \in LineNos
    BY <1>2, <1>3, RowTypes DEF Amends
  <1>6. CASE LoadRow(w)
    <2> PICK d \in SUBSET Columns :
          /\ req' = [req EXCEPT ![w] = [req[w] EXCEPT !.diff = d, !.at = "writeRow"]]
          /\ Differing(r.rows[l], now[l]) \subseteq d
      BY <1>6, LoadRowIs DEF RowsNow
    <2>1. s = [r EXCEPT !.diff = d, !.at = "writeRow"] /\ r.at = "loadRow"
      BY <1>6 DEF LoadRow, At, GrnInvariant
    <2>2. /\ s.op = "update" /\ s.at = "writeRow" /\ s.new = r.new /\ s.lines = r.lines
          /\ s.asked = r.asked /\ s.head = r.head /\ s.headSet = r.headSet
          /\ s.rowsSet = r.rowsSet /\ s.rows = r.rows /\ s.diff = d
      BY <1>2, <2>1 DEF RequestRecord
    <2>3. Through(s) = Through(r)
      BY <2>1, <2>2 DEF Through, Remaining, InLine
    <2>4. Amends(s, p, now)
      BY <2>2, <2>3 DEF Amends
    <2>5. ChangesSet(s, now)
      BY <1>2, <2>1, <2>2 DEF ChangesSet, Unwritten
    <2> QED
      BY <1>1, <1>2, <2>2, <2>4, <2>5 DEF CopiesFit, UpdateFits
  <1>7. CASE WriteRow(w)
    <2>1. s = RowWritten(r) /\ r.at = "writeRow"
      BY ZenonT(60), <1>7, WriteRowIs DEF WriteRow, At, GrnInvariant
    <2>2. /\ s.op = "update" /\ s.at = "amend" /\ s.new = r.new /\ s.lines = Tail(r.lines)
          /\ s.asked = r.asked /\ s.head = r.head /\ s.headSet = r.headSet
          /\ s.rowsSet = [r.rowsSet EXCEPT ![l] = r.diff] /\ s.rows = r.rows
      BY <1>2, <2>1 DEF RowWritten, RequestRecord
    <2>3. Through(s) = Through(r)
      BY <2>1, <2>2 DEF Through, Remaining, InLine
    <2>4. Amends(s, p, now)
      BY <2>2, <2>3 DEF Amends
    <2>5. ChangesSet(s, now)
      <3>1. \A m \in DOMAIN now \ LinesOf(r.lines) :
              Differing(r.rows[m], now[m]) \subseteq r.rowsSet[m]
        BY <1>2, <2>1 DEF ChangesSet, Unwritten
      <3>2. Differing(r.rows[l], now[l]) \subseteq r.diff
        BY <1>2, <2>1 DEF ChangesSet
      <3>3. DOMAIN r.rowsSet = LineNos
        BY <1>2 DEF RequestRecord
      <3>4. \A m \in DOMAIN now \ LinesOf(Tail(r.lines)) :
              Differing(r.rows[m], now[m]) \subseteq s.rowsSet[m]
        BY <1>4, <1>5, <2>2, <3>1, <3>2, <3>3
      <3> QED
        BY <2>2, <3>4 DEF ChangesSet, Unwritten
    <2> QED
      BY <1>1, <1>2, <2>2, <2>4, <2>5 DEF CopiesFit, UpdateFits
  <1> QED
    BY <1>6, <1>7

(* A request's first copies.                                               *)
LEMMA BeginFits ==
    ASSUME GrnInvariant, NEW w \in Workers, Receive(w), Idle(w), ~Idle(w)',
           NEW s, s = req'[w]
    PROVE  /\ s.op = "create" => CreateFits(s)
           /\ s.op # "create" => /\ s.grn \in DOMAIN grn
                                 /\ CopiesFit(s, grn[s.grn], items[s.grn])
                                 /\ UNCHANGED <<grn, items>>
  <1>1. req \in [Workers -> RequestRecord \cup {NoRequest}]
    BY DEF GrnInvariant
  <1>2. ASSUME NEW r, Open(w, r)
        PROVE  s = r /\ UNCHANGED <<grn, items>>
    BY <1>1, <1>2 DEF Open
  <1>3. ASSUME NEW g \in GrnIds, NEW h \in Warehouses, NEW p \in Payloads,
               NEW t \in Receipts, NEW autoPost \in BOOLEAN,
               OpenCreate(w, g, h, p, t, autoPost)
        PROVE  s.op = "create" /\ CreateFits(s)
    <2>1. /\ s = [Request("create", g, "receive", Draft(h), Rows(p), t)
                    EXCEPT !.autoPost = autoPost]
          /\ Complete(p)
      BY <1>3, OpenCreateIs
    <2>2. /\ s.grn = g /\ s.rows = Rows(p) /\ s.at = "receive" /\ s.head = Draft(h)
          /\ s.asked = t /\ s.lines = t /\ s.op = "create"
      BY <2>1 DEF Request
    <2>3. \A l : Counted(s, l) = 0
      <3>1. \A l : l \notin LinesOf(t) => QtyIn(t, l) = 0
        BY QtyOfNoLine
      <3> QED
        BY <2>2, <3>1 DEF Counted, Remaining, InLine
    <2>4. ReceiptRows(s, Rows(p))
      <3>1. \A l \in DOMAIN Rows(p) :
              Rows(p)[l].received = 0 /\ Rows(p)[l].expected \in Nat
        BY <2>1, PayloadRows, RowTypes
      <3> QED
        BY <2>2, <2>3, <3>1 DEF ReceiptRows
    <2>5. s.head = Draft(s.head.warehouse)
      BY <2>2 DEF Draft
    <2> QED
      BY <2>1, <2>2, <2>4, <2>5 DEF CreateFits
  <1>4. ASSUME NEW g \in DOMAIN grn, NEW t \in Receipts, OpenReceive(w, g, t)
        PROVE  /\ s.op # "create" /\ s.grn = g /\ CopiesFit(s, grn[g], items[g])
               /\ UNCHANGED <<grn, items>>
    <2>1. /\ s = Request("receive", g, "find", grn[g], items[g], t)
          /\ grn[g].status = "draft" /\ UNCHANGED <<grn, items>>
      BY <1>2, <1>4 DEF OpenReceive
    <2>2. s.op = "receive" /\ s.grn = g /\ s.at = "find" /\ s.head = grn[g]
      BY <2>1 DEF Request
    <2> QED
      BY <2>1, <2>2 DEF CopiesFit, ReceiveFits
  <1>5. ASSUME NEW g \in DOMAIN grn, NEW h \in Warehouses,
               NEW p \in Payloads \cup {[l \in {} |-> 0]}, OpenUpdate(w, g, h, p)
        PROVE  /\ s.op # "create" /\ s.grn = g /\ CopiesFit(s, grn[g], items[g])
               /\ UNCHANGED <<grn, items>>
    <2>1. /\ grn[g].status = "draft"
          /\ \E lines : Open(w, Request("update", g, "head",
                                        [grn[g] EXCEPT !.warehouse = h], items[g], lines))
      BY <1>5 DEF OpenUpdate
    <2>2. PICK lines :
            s = Request("update", g, "head", [grn[g] EXCEPT !.warehouse = h], items[g], lines)
            /\ UNCHANGED <<grn, items>>
      BY <1>2, <2>1
    <2>3. /\ s.op = "update" /\ s.grn = g /\ s.at = "head" /\ s.headSet = {}
          /\ s.head = [grn[g] EXCEPT !.warehouse = h]
      BY <2>2 DEF Request
    <2>4. s.head = [grn[g] EXCEPT !.warehouse = s.head.warehouse]
      <3>1. grn[g] \in Header
        BY DEF GrnInvariant
      <3> QED
        BY <2>3, <3>1 DEF Header
    <2> QED
      BY <2>1, <2>2, <2>3, <2>4 DEF CopiesFit, UpdateFits, HasRows
  <1>6. ASSUME NEW g \in DOMAIN grn, OpenDelete(w, g)
        PROVE  /\ s.op # "create" /\ s.grn = g /\ CopiesFit(s, grn[g], items[g])
               /\ UNCHANGED <<grn, items>>
    <2>1. /\ s = Request("delete", g, "head", [grn[g] EXCEPT !.deleted = TRUE], items[g], <<>>)
          /\ grn[g].status = "draft" /\ UNCHANGED <<grn, items>>
      BY <1>2, <1>6 DEF OpenDelete
    <2>2. /\ s.op = "delete" /\ s.grn = g /\ s.at = "head"
          /\ s.head = [grn[g] EXCEPT !.deleted = TRUE]
      BY <2>1 DEF Request
    <2> QED
      BY <2>1, <2>2 DEF CopiesFit, HeadFits
  <1>7. ASSUME NEW g \in DOMAIN grn, OpenPost(w, g)
        PROVE  /\ s.op # "create" /\ s.grn = g /\ CopiesFit(s, grn[g], items[g])
               /\ UNCHANGED <<grn, items>>
    <2>1. /\ s = Request("post", g, "items", grn[g], items[g], <<>>)
          /\ grn[g].status = "draft" /\ UNCHANGED <<grn, items>>
      BY <1>2, <1>7 DEF OpenPost
    <2>2. s.op = "post" /\ s.grn = g /\ s.at = "items" /\ s.head = grn[g]
      BY <2>1 DEF Request
    <2> QED
      BY <2>1, <2>2 DEF CopiesFit, HeadFits
  <1>8. ASSUME NEW g \in GrnIds, NEW h \in Warehouses, NEW p \in Payloads,
               Create(w, g, h, p)
        PROVE  FALSE
    BY <1>8 DEF Create
  <1> QED
    BY <1>3, <1>4, <1>5, <1>6, <1>7, <1>8 DEF Receive

(* A request goes on with its note, and writes nothing before its commit.  *)
LEMMA GoesOn ==
    ASSUME GrnInvariant, NEW w \in Workers, GrnStep(w), ~Receive(w), ~Idle(w)',
           NEW s, s = req'[w]
    PROVE  /\ ~Idle(w) /\ s.op = req[w].op /\ s.grn = req[w].grn
           /\ UNCHANGED <<grn, items, history>>
           /\ \/ CheckReceived(w) \/ LoadHead(w) \/ WriteHead(w)
              \/ FindForUpdate(w) \/ FindForReceive(w)
              \/ AmendLine(w) \/ InsertLine(w) \/ ReceiptStatement(w)
  <1>1. /\ ~Idle(w)
        /\ req \in [Workers -> RequestRecord \cup {NoRequest}] /\ req[w] \in RequestRecord
    <2>1. ~Idle(w)
      BY DEF GrnStep, Proceed, CheckReceived, LoadHead, WriteHeadAlone, WriteHead,
         FindForUpdate, FindForReceive, AmendLine, InsertLine, ReceiveLine, LoadRow,
         WriteRow, BalanceStatement, CommitUpdate, CommitReceive, CommitCreate, Abandon,
         BreakDeadlock, At
    <2> QED
      BY <2>1, BusyRecord DEF GrnInvariant
  <1>2. ~End(w)
    BY <1>1 DEF End
  <1>3. \/ CheckReceived(w) \/ LoadHead(w) \/ WriteHead(w)
        \/ FindForUpdate(w) \/ FindForReceive(w)
        \/ AmendLine(w) \/ InsertLine(w) \/ ReceiptStatement(w)
    BY <1>2 DEF GrnStep, Proceed, ReceiptStatement, WriteHeadAlone, CommitUpdate,
       CommitReceive, CommitCreate, Abandon, BreakDeadlock
  <1>4. CASE CheckReceived(w)
    BY <1>1, <1>2, <1>4 DEF CheckReceived, RequestRecord
  <1>5. CASE LoadHead(w) \/ WriteHead(w)
    BY <1>1, <1>5 DEF LoadHead, WriteHead, RequestRecord
  <1>6. CASE FindForUpdate(w) \/ FindForReceive(w)
    BY <1>1, <1>2, <1>6 DEF FindForUpdate, FindForReceive, RequestRecord
  <1>7. CASE AmendLine(w)
    BY <1>1, <1>2, <1>7 DEF AmendLine, RequestRecord
  <1>8. CASE InsertLine(w)
    <2>1. s = WithLine(req[w])
      BY <1>1, <1>2, <1>8, InsertLineIs
    <2>2. s.op = req[w].op /\ s.grn = req[w].grn
      BY <1>1, <2>1 DEF WithLine, RequestRecord
    <2>3. UNCHANGED <<grn, items, history>>
      BY <1>8 DEF InsertLine
    <2> QED
      BY <1>1, <1>3, <2>2, <2>3
  <1>9. CASE ReceiveLine(w)
    <2>1. s = LineReceived(req[w])
      BY <1>1, <1>2, <1>9, ReceiveLineIs
    <2>2. s.op = req[w].op /\ s.grn = req[w].grn
      BY <1>1, <2>1 DEF LineReceived, RequestRecord
    <2>3. UNCHANGED <<grn, items, history>>
      BY <1>9 DEF ReceiveLine
    <2> QED
      BY <1>1, <1>3, <2>2, <2>3
  <1>10. CASE LoadRow(w)
    <2> PICK d \in SUBSET Columns :
          req' = [req EXCEPT ![w] = [req[w] EXCEPT !.diff = d, !.at = "writeRow"]]
      BY <1>10, LoadRowIs
    <2>1. s = [req[w] EXCEPT !.diff = d, !.at = "writeRow"]
      BY <1>1
    <2>2. s.op = req[w].op /\ s.grn = req[w].grn
      BY <1>1, <2>1 DEF RequestRecord
    <2>3. UNCHANGED <<grn, items, history>>
      BY <1>10 DEF LoadRow
    <2> QED
      BY <1>1, <1>3, <2>2, <2>3
  <1>11. CASE WriteRow(w)
    <2>1. s = RowWritten(req[w])
      BY <1>1, <1>11, WriteRowIs
    <2>2. s.op = req[w].op /\ s.grn = req[w].grn
      BY <1>1, <2>1 DEF RowWritten, RequestRecord
    <2>3. UNCHANGED <<grn, items, history>>
      BY <1>11 DEF WriteRow
    <2> QED
      BY <1>1, <1>3, <2>2, <2>3
  <1>12. CASE BalanceStatement(w)
    <2>1. s = req[w] \/ s = [req[w] EXCEPT !.lines = Tail(req[w].lines), !.at = "receive"]
      BY <1>1, <1>2, <1>12 DEF BalanceStatement, End
    <2>2. s.op = req[w].op /\ s.grn = req[w].grn
      BY <1>1, <2>1 DEF RequestRecord
    <2>3. UNCHANGED <<grn, items, history>>
      BY <1>12 DEF BalanceStatement
    <2> QED
      BY <1>1, <1>3, <2>2, <2>3
  <1> QED
    BY <1>1, <1>3, <1>4, <1>5, <1>6, <1>7, <1>8, <1>9, <1>10, <1>11, <1>12
    DEF ReceiptStatement

(* Whatever step it takes, a request that keeps its note to itself keeps   *)
(* knowing it.                                                             *)
LEMMA OwnFits ==
    ASSUME GrnInvariant, AloneInvariant, NEW w \in Workers, GrnStep(w), ~Idle(w)',
           overlapped \subseteq overlapped', NEW s, s = req'[w]
    PROVE  /\ s.op = "create" => CreateFits(s)
           /\ s.op # "create" /\ s.grn \notin overlapped' =>
                CopiesFit(s, grn'[s.grn], items'[s.grn])
  <1>1. CASE Receive(w)
    <2>1. ASSUME NEW r, Open(w, r)
          PROVE  Idle(w)
      BY <2>1 DEF Open
    <2>2. Idle(w)
      BY <1>1, <2>1 DEF Receive, Create, OpenCreate, OpenReceive, OpenUpdate,
         OpenDelete, OpenPost
    <2> QED
      BY <1>1, <2>2, BeginFits
  <1>2. CASE ~Receive(w)
    <2>1. /\ ~Idle(w) /\ s.op = req[w].op /\ s.grn = req[w].grn
          /\ grn' = grn /\ items' = items
          /\ \/ CheckReceived(w) \/ LoadHead(w) \/ WriteHead(w)
             \/ FindForUpdate(w) \/ FindForReceive(w)
             \/ AmendLine(w) \/ InsertLine(w) \/ ReceiptStatement(w)
      BY <1>2, GoesOn
    <2>2. CASE ReceiptStatement(w) /\ Posting(w)
      <3>1. IF req[w].op = "create" THEN CreateFits(s)
            ELSE req[w].grn \notin overlapped => CopiesFit(s, HeadNow(w), RowsNow(w))
        BY <2>2, ReceiptFits
      <3> QED
        BY <2>1, <3>1 DEF HeadNow, RowsNow
    <2>3. CASE ~(ReceiptStatement(w) /\ Posting(w))
      <3>1. req[w].op # "create"
        <4>1. CASE req[w].op = "create"
          <5>1. Posting(w) /\ req[w].at \in {"receive", "loadRow", "writeRow", "balance"}
            BY <2>1, <4>1 DEF GrnInvariant, RequestsGrounded, CreateRequest, NoteRequest,
               ReceiveRequest, UpdateRequest, HeadRequest, Posting
          <5> QED
            BY <2>1, <2>3, <4>1, <5>1 DEF CheckReceived, LoadHead, WriteHead,
               FindForUpdate, FindForReceive, AmendLine, InsertLine, At
        <4> QED
          BY <4>1
      <3>2. ASSUME req[w].grn \notin overlapped
            PROVE  CopiesFit(s, HeadNow(w), RowsNow(w))
        <4>1. CASE CheckReceived(w) \/ LoadHead(w) \/ WriteHead(w)
          BY <3>2, <4>1, HeadStepFits
        <4>2. CASE FindForUpdate(w) \/ FindForReceive(w)
          BY <3>2, <4>2, FindFits
        <4>3. CASE AmendLine(w) \/ InsertLine(w)
          BY <3>2, <4>3, AmendLineFits, InsertLineFits
        <4>4. CASE ReceiptStatement(w) /\ ~Posting(w)
          <5>1. req[w].at \in {"receive", "loadRow", "writeRow", "balance"}
            BY <4>4 DEF ReceiptStatement, ReceiveLine, LoadRow, WriteRow,
               BalanceStatement, At
          <5>2. req[w].op = "update" /\ req[w].at \in {"loadRow", "writeRow"}
            BY <2>1, <4>4, <5>1 DEF GrnInvariant, RequestsGrounded, CreateRequest,
               NoteRequest, ReceiveRequest, UpdateRequest, HeadRequest, Posting
          <5>3. LoadRow(w) \/ WriteRow(w)
            BY <4>4, <5>2 DEF ReceiptStatement, ReceiveLine, BalanceStatement, At
          <5> QED
            BY <3>2, <5>2, <5>3, SaveLineFits
        <4> QED
          BY <2>1, <2>3, <4>1, <4>2, <4>3, <4>4
      <3> QED
        BY <2>1, <3>1, <3>2 DEF HeadNow, RowsNow
    <2> QED
      BY <2>2, <2>3
  <1> QED
    BY <1>1, <1>2

----------------------------------------------------------------------------
(* The next request of a note starts when the last is over, or else they   *)
(* are noted as overlapping.                                               *)
LEMMA NextOneRequest ==
    ASSUME GrnInvariant, OneRequest, NEW w \in Workers, GrnStep(w)
    PROVE  OneRequest' /\ overlapped \subseteq overlapped'
  <1>1. ASSUME NEW r, Open(w, r)
        PROVE  OneRequest' /\ overlapped \subseteq overlapped'
    <2>1. /\ req' = [req EXCEPT ![w] = r]
          /\ overlapped' = IF \E v \in Workers \ {w} : On(v, r.grn)
                           THEN overlapped \cup {r.grn} ELSE overlapped
      BY <1>1 DEF Open
    <2>2. \A v \in Workers \ {w} : req'[v] = req[v]
      BY <2>1 DEF GrnInvariant
    <2>3. req'[w] = r
      BY <2>1 DEF GrnInvariant
    <2>4. overlapped \subseteq overlapped'
      BY <2>1
    <2>5. ASSUME NEW v \in Workers \ {w}, On(v, r.grn)
          PROVE  r.grn \in overlapped'
      BY <2>1, <2>5
    <2>6. OneRequest'
      BY <2>2, <2>3, <2>4, <2>5 DEF OneRequest, On
    <2> QED
      BY <2>4, <2>6
  <1>2. CASE Receive(w) /\ \A r : ~Open(w, r)
    <2>1. UNCHANGED <<req, overlapped>>
      BY <1>2 DEF Receive, Create, OpenCreate, OpenReceive, OpenUpdate, OpenDelete,
         OpenPost
    <2> QED
      BY <2>1 DEF OneRequest, On
  <1>3. CASE ~Receive(w)
    <2>1. \A v \in Workers \ {w} : req'[v] = req[v]
      BY OthersKept
    <2>2. overlapped' = overlapped
      BY <1>3 DEF GrnStep, Proceed, CheckReceived, LoadHead, WriteHeadAlone, WriteHead,
         FindForUpdate, FindForReceive, AmendLine, InsertLine, ReceiveLine, LoadRow,
         WriteRow, BalanceStatement, CommitUpdate, CommitReceive, CommitCreate, Abandon,
         BreakDeadlock, history
    <2>3. ASSUME ~Idle(w)'
          PROVE  ~Idle(w) /\ req'[w].grn = req[w].grn
      BY <1>3, <2>3, GoesOn
    <2> QED
      BY <2>1, <2>2, <2>3 DEF OneRequest, On
  <1> QED
    BY <1>1, <1>2, <1>3

(* What a request does to the notes it does not work on: nothing.          *)
LEMMA OthersNotes ==
    ASSUME GrnInvariant, NEW w \in Workers, GrnStep(w), NEW g \in DOMAIN grn, ~On(w, g)
    PROVE  /\ grn'[g] = grn[g] /\ items'[g] = items[g]
           /\ \A l \in LineNos, k \in Keys : received'[<<g, l, k>>] = received[<<g, l, k>>]
           /\ g \in repointed' <=> g \in repointed
  <1>1. CASE UNCHANGED <<grn, items, received, repointed>>
    BY <1>1
  <1>2. CASE Receive(w)
    <2>1. ASSUME NEW r, Open(w, r)
          PROVE  UNCHANGED <<grn, items, received, repointed>>
      BY <2>1 DEF Open
    <2>2. ASSUME NEW h \in GrnIds, NEW x \in Warehouses, NEW p \in Payloads,
                 Create(w, h, x, p)
          PROVE  /\ grn'[g] = grn[g] /\ items'[g] = items[g]
                 /\ UNCHANGED <<received, repointed>>
      BY <2>2 DEF Create, GrnInvariant
    <2> QED
      BY <1>1, <1>2, <2>1, <2>2 DEF Receive, OpenCreate, OpenReceive, OpenUpdate,
         OpenDelete, OpenPost
  <1>3. CASE WriteHeadAlone(w)
    BY <1>3 DEF WriteHeadAlone, At, On, history, GrnInvariant
  <1>4. CASE CommitUpdate(w)
    BY <1>4 DEF CommitUpdate, At, On, GrnInvariant
  <1>5. CASE CommitReceive(w)
    <2>1. /\ ~Idle(w) /\ req[w].op \in {"create", "receive"} /\ NoteReceived(w)
          /\ grn' = grn /\ repointed' = repointed
          /\ items' = [items EXCEPT ![req[w].grn] = RowsAfter(w)]
      BY <1>5 DEF CommitReceive, At
    <2>2. g # req[w].grn /\ g \in GrnIds
      BY <2>1 DEF On, GrnInvariant
    <2>3. \A l \in LineNos, k \in Keys : received[<<g, l, k>>] \in Nat
      BY <2>2 DEF GrnInvariant
    <2>4. \A l \in LineNos, k \in Keys : received'[<<g, l, k>>] = received[<<g, l, k>>] + 0
      BY <2>1, <2>2, ReceivedAfter
    <2> QED
      BY <2>1, <2>2, <2>3, <2>4
  <1>6. CASE CommitCreate(w)
    <2>1. CASE UNCHANGED <<grn, items, received>>
      BY <1>6, <2>1 DEF CommitCreate
    <2>2. CASE ~UNCHANGED <<grn, items, received>>
      <3>1. ~(req[w].autoPost /\ ~FullyReceived(req[w].rows))
        BY <1>6, <2>2 DEF CommitCreate
      <3>2. /\ ~Idle(w) /\ req[w].op \in {"create", "receive"} /\ NoteReceived(w)
            /\ repointed' = repointed
        BY <1>6, <3>1 DEF CommitCreate, At
      <3>3. g # req[w].grn /\ g \in GrnIds
        BY <3>2 DEF On, GrnInvariant
      <3>4. grn'[g] = grn[g] /\ items'[g] = items[g]
        BY <1>6, <3>1, <3>3 DEF CommitCreate, GrnInvariant
      <3>5. \A l \in LineNos, k \in Keys : received[<<g, l, k>>] \in Nat
        BY <3>3 DEF GrnInvariant
      <3>6. \A l \in LineNos, k \in Keys : received'[<<g, l, k>>] = received[<<g, l, k>>] + 0
        BY <3>2, <3>3, ReceivedAfter
      <3> QED
        BY <3>2, <3>4, <3>5, <3>6
    <2> QED
      BY <2>1, <2>2
  <1>7. CASE \/ CheckReceived(w) \/ LoadHead(w) \/ WriteHead(w) \/ FindForUpdate(w)
             \/ FindForReceive(w) \/ AmendLine(w) \/ InsertLine(w) \/ ReceiveLine(w)
             \/ LoadRow(w) \/ WriteRow(w) \/ BalanceStatement(w) \/ Abandon(w)
             \/ BreakDeadlock(w)
    BY <1>1, <1>7 DEF CheckReceived, LoadHead, WriteHead, FindForUpdate,
       FindForReceive, AmendLine, InsertLine, ReceiveLine, LoadRow, WriteRow,
       BalanceStatement, Abandon, BreakDeadlock, history
  <1> QED
    BY <1>2, <1>3, <1>4, <1>5, <1>6, <1>7 DEF GrnStep, Proceed

LEMMA NextUndisturbed ==
    ASSUME GrnInvariant, AloneInvariant, NEW w \in Workers, GrnStep(w), NEW v \in Workers
    PROVE  Undisturbed(v)'
  <1>1. OneRequest' /\ overlapped \subseteq overlapped'
    BY NextOneRequest DEF AloneInvariant
  <1> SUFFICES ASSUME ~Idle(v)'
               PROVE  Undisturbed(v)'
    BY DEF Undisturbed
  <1> PICK s : s = req'[v]
    OBVIOUS
  <1>2. /\ s.op = "create" => CreateFits(s)
        /\ s.op # "create" /\ s.grn \notin overlapped' =>
             CopiesFit(s, grn'[s.grn], items'[s.grn])
    <2>1. CASE v = w
      BY <1>1, <2>1, OwnFits
    <2>2. CASE v # w
      <3>1. s = req[v] /\ ~Idle(v)
        BY <2>2, OthersKept
      <3>2. s.op = "create" => CreateFits(s)
        BY <3>1 DEF AloneInvariant, Undisturbed
      <3>3. ASSUME s.op # "create", s.grn \notin overlapped'
            PROVE  CopiesFit(s, grn'[s.grn], items'[s.grn])
        <4>1. s.grn \notin overlapped
          BY <1>1, <3>3
        <4>2. CopiesFit(s, grn[s.grn], items[s.grn]) /\ s.grn \in DOMAIN grn
          BY <3>1, <3>3, <4>1, FitsNow DEF HeadNow, RowsNow
        <4>3. ~On(w, s.grn)
          BY <2>2, <3>1, <4>1 DEF AloneInvariant, OneRequest
        <4>4. grn'[s.grn] = grn[s.grn] /\ items'[s.grn] = items[s.grn]
          BY <4>2, <4>3, OthersNotes
        <4> QED
          BY <4>2, <4>4
      <3> QED
        BY <3>2, <3>3
    <2> QED
      BY <2>1, <2>2
  <1> QED
    BY <1>2 DEF Undisturbed, HeadNow, RowsNow
----------------------------------------------------------------------------
(* What the commits do to a note that is their own, and to its stock.      *)

NoteAgrees(g) ==
    /\ \A l \in DOMAIN items[g] :
         /\ items[g][l].received = StockOn(g, l)
         /\ items[g][l].received <= items[g][l].expected
         /\ g \notin repointed =>
              StockOn(g, l) = received[<<g, l, KeyOf(grn[g].warehouse, items[g], l)>>]
    /\ grn[g].status = "posted" => FullyReceived(items[g])

LEMMA AgreeIs ==
    UncontendedNotesAgree <=> \A g \in DOMAIN grn \ overlapped : NoteAgrees(g)
  BY DEF UncontendedNotesAgree, NoteAgrees

LEMMA AgreesNext ==
    ASSUME NEW g, NEW head, NEW rows, grn'[g] = head, items'[g] = rows,
           \A l \in DOMAIN rows :
             /\ rows[l].received = StockOn(g, l)'
             /\ rows[l].received <= rows[l].expected
             /\ g \notin repointed' =>
                  StockOn(g, l)' = received'[<<g, l, KeyOf(head.warehouse, rows, l)>>],
           head.status = "posted" => FullyReceived(rows)
    PROVE  NoteAgrees(g)'
  BY DEF NoteAgrees, FullyReceived, KeyOf

LEMMA SameStock ==
    ASSUME GrnInvariant, NEW g \in GrnIds, NEW l \in LineNos,
           \A k \in Keys : received'[<<g, l, k>>] = received[<<g, l, k>>]
    PROVE  StockOn(g, l)' = StockOn(g, l)
  <1>1. IsFiniteSet({g} \X {l} \X Keys)
    BY StockOnTypes
  <1>2. \A c \in {g} \X {l} \X Keys : received'[c] = received[c]
    OBVIOUS
  <1>3. SumFunctionOnSet(received', {g} \X {l} \X Keys)
          = SumFunctionOnSet(received, {g} \X {l} \X Keys)
    BY <1>1, <1>2, SumSame
  <1> QED
    BY <1>3 DEF StockOn, StockFrom

LEMMA KeyWithin ==
    ASSUME GrnInvariant, NEW g \in GrnIds, NEW l \in LineNos, NEW k \in Keys
    PROVE  received[<<g, l, k>>] \in Nat /\ received[<<g, l, k>>] <= StockOn(g, l)
  <1> DEFINE S == {g} \X {l} \X Keys
             c == <<g, l, k>>
  <1>1. IsFiniteSet(S) /\ \A x \in S : received[x] \in Nat
    BY StockOnTypes
  <1>2. c \in S
    OBVIOUS
  <1>3. IsFiniteSet(S \ {c}) /\ \A x \in S \ {c} : received[x] \in Nat
    BY <1>1, FS_RemoveElement
  <1>4. StockOn(g, l) = SumFunctionOnSet(received, S)
    BY DEF StockOn, StockFrom
  <1> HIDE DEF S, c
  <1>5. SumFunctionOnSet(received, S \ {c}) \in Nat
    BY <1>3, SumIsNat
  <1>6. SumFunctionOnSet(received, S) = received[c] + SumFunctionOnSet(received, S \ {c})
    BY <1>1, <1>2, SumRemove
  <1>7. received[c] \in Nat
    BY <1>1, <1>2
  <1> QED
    BY <1>4, <1>5, <1>6, <1>7 DEF c

LEMMA NothingOn ==
    ASSUME GrnInvariant, NEW g \in GrnIds, NEW l \in LineNos, ~HasLine(g, l)
    PROVE  /\ StockOn(g, l) = 0
           /\ \A k \in Keys : received[<<g, l, k>>] = 0
  <1>1. \A k \in Keys : received[<<g, l, k>>] = 0
    BY DEF GrnInvariant, Unreceived
  <1>2. IsFiniteSet({g} \X {l} \X Keys)
    BY StockOnTypes
  <1>3. \A c \in {g} \X {l} \X Keys : received[c] = 0
    BY <1>1
  <1> QED
    BY <1>1, <1>2, <1>3, SumZero DEF StockOn, StockFrom

(* When a request has set the columns that differ, its commit leaves the   *)
(* copies in memory.                                                       *)
LEMMA RowsAfterAreCopies ==
    ASSUME GrnInvariant, NEW w \in Workers, ~Idle(w), req[w].op \in {"update", "receive"},
           NEW now, now = items[req[w].grn], NEW rows, rows = req[w].rows,
           DOMAIN rows = DOMAIN now \cup req[w].new,
           \A l \in DOMAIN now \ req[w].new :
             Differing(rows[l], now[l]) \subseteq req[w].rowsSet[l]
    PROVE  RowsAfter(w) = rows
  <1>1. /\ RowsAfter(w) \in RowTables /\ req[w].grn \in DOMAIN grn
        /\ DOMAIN RowsAfter(w) = DOMAIN now \cup req[w].new
        /\ \A l \in DOMAIN RowsAfter(w) :
             RowsAfter(w)[l] = IF l \in req[w].new THEN rows[l]
                               ELSE Overlay(now[l], rows[l], req[w].rowsSet[l])
    BY RowsAfterTypes
  <1>2. rows \in RowTables /\ now \in RowTables
    BY <1>1, BusyRecord DEF GrnInvariant
  <1>3. ASSUME NEW l \in DOMAIN RowsAfter(w), l \notin req[w].new
        PROVE  Overlay(now[l], rows[l], req[w].rowsSet[l]) = rows[l]
    <2>1. l \in DOMAIN now /\ l \in DOMAIN rows
      BY <1>1, <1>3
    <2>2. now[l] \in Item /\ rows[l] \in Item
      BY <1>2, <2>1, RowTypes
    <2> QED
      BY <1>3, <2>1, <2>2, RowOverlay
  <1>4. \A l \in DOMAIN RowsAfter(w) : RowsAfter(w)[l] = rows[l]
    BY <1>1, <1>3
  <1>5. RowsAfter(w) \in [DOMAIN RowsAfter(w) -> Item] /\ rows \in [DOMAIN rows -> Item]
    BY <1>1, <1>2, RowTypes
  <1> QED
    BY <1>1, <1>4, <1>5

LEMMA ReceiveAlone ==
    ASSUME GrnInvariant, AloneInvariant, NEW w \in Workers, CommitReceive(w),
           NEW g, g = req[w].grn, g \notin overlapped,
           NEW now, now = items[g], NEW rows, rows = req[w].rows,
           NEW r, r = req[w].asked
    PROVE  /\ ~Idle(w) /\ req[w].op = "receive" /\ req[w].at = "receive"
           /\ g \in DOMAIN grn /\ g \in GrnIds /\ r \in Receipts
           /\ now \in RowTables /\ rows \in RowTables /\ grn[g] \in Header
           /\ grn[g].status = "draft" /\ req[w].head = grn[g]
           /\ grn' = grn /\ items' = [items EXCEPT ![g] = rows]
           /\ LinesOf(r) \subseteq DOMAIN rows /\ DOMAIN rows = DOMAIN now
           /\ \A l \in DOMAIN now :
                /\ rows[l].sku = now[l].sku /\ rows[l].expected = now[l].expected
                /\ rows[l].received = now[l].received + QtyIn(r, l)
                /\ rows[l].received <= rows[l].expected
  <1>1. /\ ~Idle(w) /\ req[w].op = "receive" /\ req[w].at = "receive"
        /\ req[w].lines = <<>> /\ grn' = grn
        /\ items' = [items EXCEPT ![g] = RowsAfter(w)]
    BY DEF CommitReceive, At
  <1>2. /\ CopiesFit(req[w], grn[g], now) /\ req[w] \in RequestRecord /\ g \in DOMAIN grn
        /\ grn[g] \in Header /\ now \in RowTables
    BY <1>1, FitsNow DEF HeadNow, RowsNow
  <1>3. g \in GrnIds /\ rows \in RowTables
    BY <1>2 DEF RequestRecord
  <1>4. /\ r \in Receipts /\ req[w].new = {}
        /\ LinesOf(r) \subseteq DOMAIN rows
    BY <1>1, PostingFacts, AllThrough DEF ReceiptOf
  <1>5. /\ req[w].head = grn[g] /\ grn[g].status = "draft"
        /\ ReceiptRows(req[w], now) /\ RowsWritten(req[w])
    BY <1>1, <1>2 DEF CopiesFit, ReceiveFits
  <1>6. /\ LinesOf(Remaining(req[w])) = {} /\ LinesOf(Unwritten(req[w])) = {}
    BY <1>1, NoLines DEF Remaining, Unwritten, InLine
  <1>7. \A l : Counted(req[w], l) = QtyIn(r, l)
    BY <1>1, <1>6 DEF Counted
  <1>8. /\ DOMAIN rows = DOMAIN now
        /\ \A l \in DOMAIN now :
             /\ rows[l].sku = now[l].sku /\ rows[l].expected = now[l].expected
             /\ rows[l].received = now[l].received + QtyIn(r, l)
             /\ rows[l].received <= rows[l].expected
    BY <1>5, <1>7 DEF ReceiptRows
  <1>9. ASSUME NEW l \in DOMAIN now
        PROVE  Differing(rows[l], now[l]) \subseteq req[w].rowsSet[l]
    <2>1. DOMAIN now[l] = {"sku", "expected", "received"} /\ now[l].received \in Nat
      BY <1>2, <1>9, RowTypes
    <2>2. Differing(rows[l], now[l]) \subseteq {"received"}
      BY <1>8, <1>9, <2>1 DEF Differing
    <2>3. CASE l \in LinesOf(r)
      BY <1>5, <1>6, <2>2, <2>3 DEF RowsWritten
    <2>4. CASE l \notin LinesOf(r)
      <3>1. QtyIn(r, l) = 0
        BY <1>4, <2>4, QtyOfNoLine
      <3>2. rows[l].received = now[l].received
        BY <1>8, <1>9, <2>1, <3>1
      <3> QED
        BY <2>2, <3>2 DEF Differing
    <2> QED
      BY <2>3, <2>4
  <1>10. RowsAfter(w) = rows
    BY <1>1, <1>4, <1>8, <1>9, RowsAfterAreCopies
  <1> QED
    BY <1>1, <1>2, <1>3, <1>4, <1>5, <1>8, <1>10

(* What a note keeps when it is amended by p.                              *)
AmendedBy(p, now, rows) ==
    /\ DOMAIN rows = DOMAIN now \cup DOMAIN p
    /\ \A l \in DOMAIN p \ DOMAIN now : "sku" \in DOMAIN p[l] /\ rows[l] = NewRow(p[l])
    /\ \A l \in DOMAIN p \cap DOMAIN now : RowAmended(now[l], p[l], rows[l])
    /\ \A l \in DOMAIN now \ DOMAIN p : rows[l] = now[l]

LEMMA UpdateAlone ==
    ASSUME GrnInvariant, AloneInvariant, NEW w \in Workers, CommitUpdate(w),
           NEW g, g = req[w].grn, g \notin overlapped,
           NEW now, now = items[g], NEW rows, rows = req[w].rows,
           NEW head, head = req[w].head
    PROVE  /\ g \in DOMAIN grn /\ g \in GrnIds /\ now \in RowTables /\ rows \in RowTables
           /\ grn[g] \in Header /\ head \in Header
           /\ grn[g].status = "draft" /\ head = [grn[g] EXCEPT !.warehouse = head.warehouse]
           /\ grn' = [grn EXCEPT ![g] = head] /\ items' = [items EXCEPT ![g] = rows]
           /\ UNCHANGED <<onHand, received>>
           /\ \E p \in Payloads \cup {NoRows} : AmendedBy(p, now, rows)
           /\ repointed' = IF \E l \in DOMAIN now :
                                now[l].received > 0
                                /\ KeyOf(head.warehouse, rows, l)
                                     # KeyOf(grn[g].warehouse, now, l)
                           THEN repointed \cup {g} ELSE repointed
  <1>1. /\ ~Idle(w) /\ req[w].at = "amend" /\ req[w].lines = <<>>
        /\ UNCHANGED <<onHand, received>>
    BY DEF CommitUpdate, At, stockVars, committed
  <1>2. req[w].op = "update"
    BY <1>1 DEF GrnInvariant, RequestsGrounded, CreateRequest, NoteRequest,
       ReceiveRequest, UpdateRequest, HeadRequest
  <1>3. HasRows(req[w])
    BY <1>1, <1>2 DEF HasRows
  <1>4. /\ req[w] \in RequestRecord /\ g \in DOMAIN grn
        /\ grn[g] \in Header /\ now \in RowTables /\ rows \in RowTables
        /\ UpdateFits(req[w], grn[g], now) /\ ChangesSet(req[w], now)
        /\ \E p \in Payloads \cup {NoRows} :
             AsksFor(req[w].asked, p) /\ Amends(req[w], p, now)
    BY <1>1, <1>2, <1>3, AmendingNow DEF HeadNow, RowsNow
  <1>5. g \in GrnIds /\ head \in Header
    BY <1>4 DEF RequestRecord
  <1>6. /\ grn[g].status = "draft" /\ head = [grn[g] EXCEPT !.warehouse = head.warehouse]
        /\ req[w].headSet = Differing(head, grn[g])
    BY <1>1, <1>4 DEF UpdateFits
  <1>7. Overlay(grn[g], head, req[w].headSet) = head
    BY <1>4, <1>5, <1>6, HeadOverlay
  <1>8. /\ LinesOf(Remaining(req[w])) = {} /\ LinesOf(Unwritten(req[w])) = {}
        /\ Through(req[w]) = LinesOf(req[w].asked)
    BY <1>1, NoLines DEF Remaining, Unwritten, InLine, Through
  <1>9. PICK p \in Payloads \cup {NoRows} : AsksFor(req[w].asked, p) /\ Amends(req[w], p, now)
    BY <1>4
  <1>10. Through(req[w]) = DOMAIN p
    BY <1>8, <1>9 DEF AsksFor
  <1>11. AmendedBy(p, now, rows) /\ req[w].new = DOMAIN p \ DOMAIN now
    BY <1>9, <1>10 DEF Amends, AmendedBy
  <1>12. \A l \in DOMAIN now : Differing(rows[l], now[l]) \subseteq req[w].rowsSet[l]
    BY <1>4, <1>8 DEF ChangesSet
  <1>13. RowsAfter(w) = rows
    BY <1>1, <1>2, <1>11, <1>12, RowsAfterAreCopies DEF AmendedBy
  <1>14. /\ grn' = [grn EXCEPT ![g] = head] /\ items' = [items EXCEPT ![g] = rows]
         /\ repointed' = IF \E l \in DOMAIN now :
                              now[l].received > 0
                              /\ KeyOf(head.warehouse, rows, l)
                                   # KeyOf(grn[g].warehouse, now, l)
                         THEN repointed \cup {g} ELSE repointed
    BY <1>7, <1>13 DEF CommitUpdate
  <1> QED
    BY <1>1, <1>4, <1>5, <1>6, <1>9, <1>11, <1>14

HeadMarked(new, head, rows) ==
    \/ new = [head EXCEPT !.deleted = TRUE]
    \/ new = [head EXCEPT !.status = "posted"] /\ FullyReceived(rows)

LEMMA HeadAlone ==
    ASSUME GrnInvariant, AloneInvariant, NEW w \in Workers, WriteHeadAlone(w),
           NEW g, g = req[w].grn, g \notin overlapped,
           NEW head, head = req[w].head
    PROVE  /\ g \in DOMAIN grn /\ g \in GrnIds /\ grn[g] \in Header
           /\ items[g] \in RowTables
           /\ grn[g].status = "draft"
           /\ grn' = [grn EXCEPT ![g] = head]
           /\ UNCHANGED <<onHand, items, received, repointed>>
           /\ HeadMarked(head, grn[g], items[g])
  <1>1. /\ ~Idle(w) /\ req[w].at = "writeHead" /\ req[w].op \in {"delete", "post"}
        /\ grn' = [grn EXCEPT ![g] = Overlay(grn[g], head, req[w].diff)]
        /\ UNCHANGED <<onHand, items, received, repointed>>
    BY DEF WriteHeadAlone, At, stockVars, committed, history
  <1>2. /\ CopiesFit(req[w], grn[g], items[g]) /\ req[w] \in RequestRecord
        /\ g \in DOMAIN grn /\ grn[g] \in Header /\ items[g] \in RowTables
    BY <1>1, FitsNow DEF HeadNow, RowsNow
  <1>3. g \in GrnIds /\ head \in Header
    BY <1>2 DEF RequestRecord
  <1>4. /\ grn[g].status = "draft" /\ req[w].diff = Differing(head, grn[g])
        /\ req[w].op = "delete" => head = [grn[g] EXCEPT !.deleted = TRUE]
        /\ req[w].op = "post" =>
             head = [grn[g] EXCEPT !.status = "posted"] /\ FullyReceived(items[g])
    BY <1>1, <1>2 DEF CopiesFit, HeadFits
  <1>5. Overlay(grn[g], head, req[w].diff) = head
    BY <1>2, <1>3, <1>4, HeadOverlay
  <1> QED
    BY <1>1, <1>2, <1>3, <1>4, <1>5 DEF HeadMarked

NewHead(r) == [r.head EXCEPT !.status = IF r.autoPost THEN "posted" ELSE "draft"]

LEMMA CreateAlone ==
    ASSUME GrnInvariant, AloneInvariant, NEW w \in Workers, CommitCreate(w), Receipt(w),
           NEW g, g = req[w].grn, NEW rows, rows = req[w].rows,
           NEW r, r = req[w].asked, NEW head, head = NewHead(req[w])
    PROVE  /\ ~Idle(w) /\ req[w].op = "create" /\ req[w].at = "receive"
           /\ g \notin DOMAIN grn /\ g \in GrnIds /\ r \in Receipts
           /\ \A v \in Workers \ {w} : ~On(v, g)
           /\ req[w].head \in Header /\ req[w].head = Draft(req[w].head.warehouse)
           /\ rows \in RowTables
           /\ grn' = Put(grn, g, head) /\ items' = Put(items, g, rows)
           /\ NoteReceived(w) /\ repointed' = repointed
           /\ req[w].autoPost => FullyReceived(rows)
           /\ LinesOf(r) \subseteq DOMAIN rows
           /\ \E p \in Payloads :
                /\ Complete(p) /\ DOMAIN rows = DOMAIN p
                /\ \A l \in DOMAIN p :
                     /\ rows[l].sku = p[l].sku /\ rows[l].expected = p[l].expected
                     /\ rows[l].received = QtyIn(r, l)
                     /\ rows[l].received <= rows[l].expected
  <1>1. /\ ~Idle(w) /\ req[w].op = "create" /\ req[w].at = "receive"
        /\ req[w].lines = <<>> /\ repointed' = repointed
    BY DEF CommitCreate, At
  <1>2. ~CommitReceive(w)
    BY <1>1 DEF CommitReceive
  <1>3. ~(req[w].autoPost /\ ~FullyReceived(rows))
    BY <1>2 DEF Receipt
  <1>4. /\ NoteReceived(w) /\ DOMAIN items = DOMAIN grn
        /\ grn' = Put(grn, g, head) /\ items' = Put(items, g, rows)
    BY <1>3 DEF CommitCreate, Put, NewHead, GrnInvariant
  <1>5. /\ r \in Receipts /\ req[w] \in RequestRecord /\ OwnNote(w)
        /\ LinesOf(r) \subseteq DOMAIN rows
    BY <1>1, PostingFacts, AllThrough
  <1>6. /\ g \in GrnIds /\ rows \in RowTables /\ req[w].head \in Header
        /\ g \notin DOMAIN grn /\ \A v \in Workers \ {w} : ~On(v, g)
    BY <1>5 DEF RequestRecord, OwnNote
  <1>7. CreateFits(req[w])
    BY <1>1 DEF AloneInvariant, Undisturbed
  <1>8. PICK p \in Payloads : Complete(p) /\ ReceiptRows(req[w], Rows(p))
    BY <1>7 DEF CreateFits
  <1>9. LinesOf(Remaining(req[w])) = {}
    BY <1>1, NoLines DEF Remaining, InLine
  <1>10. \A l : Counted(req[w], l) = QtyIn(r, l) /\ QtyIn(r, l) \in Nat
    BY <1>1, <1>5, <1>9, QtyTypes DEF Counted
  <1>11. /\ DOMAIN rows = DOMAIN p
         /\ \A l \in DOMAIN p :
              /\ rows[l].sku = p[l].sku /\ rows[l].expected = p[l].expected
              /\ rows[l].received = QtyIn(r, l)
              /\ rows[l].received <= rows[l].expected
    <2>1. DOMAIN Rows(p) = DOMAIN p /\ DOMAIN rows = DOMAIN Rows(p)
      BY <1>8, PayloadRows DEF ReceiptRows
    <2>2. ASSUME NEW l \in DOMAIN p
          PROVE  /\ rows[l].sku = p[l].sku /\ rows[l].expected = p[l].expected
                 /\ rows[l].received = QtyIn(r, l)
                 /\ rows[l].received <= rows[l].expected
      <3>1. /\ Rows(p)[l].sku = p[l].sku /\ Rows(p)[l].expected = p[l].expected
            /\ Rows(p)[l].received = 0
        BY <1>8, <2>2, PayloadRows
      <3>2. /\ rows[l].sku = Rows(p)[l].sku /\ rows[l].expected = Rows(p)[l].expected
            /\ rows[l].received = Rows(p)[l].received + Counted(req[w], l)
            /\ rows[l].received <= rows[l].expected
        BY <1>8, <2>1, <2>2 DEF ReceiptRows
      <3> QED
        BY <1>10, <3>1, <3>2
    <2> QED
      BY <2>1, <2>2
  <1>12. req[w].head = Draft(req[w].head.warehouse)
    BY <1>7 DEF CreateFits
  <1> QED
    BY <1>1, <1>3, <1>4, <1>5, <1>6, <1>8, <1>11, <1>12
----------------------------------------------------------------------------
(* A note that no two requests worked on at once agrees.                   *)

LEMMA ReceiveAgrees ==
    ASSUME GrnInvariant, AloneInvariant, NEW w \in Workers, CommitReceive(w),
           NEW g, g = req[w].grn, g \notin overlapped
    PROVE  NoteAgrees(g)'
  <1>1. PICK now, rows, r : now = items[g] /\ rows = req[w].rows /\ r = req[w].asked
    OBVIOUS
  <1>2. /\ ~Idle(w) /\ req[w].op = "receive" /\ req[w].at = "receive"
        /\ g \in DOMAIN grn /\ g \in GrnIds /\ r \in Receipts
        /\ now \in RowTables /\ rows \in RowTables /\ grn[g] \in Header
        /\ grn[g].status = "draft" /\ req[w].head = grn[g]
        /\ grn' = grn /\ items' = [items EXCEPT ![g] = rows]
        /\ LinesOf(r) \subseteq DOMAIN rows /\ DOMAIN rows = DOMAIN now
        /\ \A l \in DOMAIN now :
             /\ rows[l].sku = now[l].sku /\ rows[l].expected = now[l].expected
             /\ rows[l].received = now[l].received + QtyIn(r, l)
             /\ rows[l].received <= rows[l].expected
    BY <1>1, ReceiveAlone
  <1>3. /\ NoteReceived(w) /\ repointed' = repointed
        /\ grn'[g] = grn[g] /\ items'[g] = rows
    BY <1>2 DEF CommitReceive, GrnInvariant
  <1>4. NoteAgrees(g)
    BY <1>2, AgreeIs DEF AloneInvariant
  <1>5. ASSUME NEW l \in DOMAIN rows
        PROVE  /\ rows[l].received = StockOn(g, l)'
               /\ rows[l].received <= rows[l].expected
               /\ g \notin repointed' =>
                    StockOn(g, l)' = received'[<<g, l, KeyOf(grn[g].warehouse, rows, l)>>]
    <2> DEFINE k == KeyOf(grn[g].warehouse, rows, l)
    <2>1. /\ l \in LineNos /\ now[l].received \in Nat /\ QtyIn(r, l) \in Nat
          /\ DOMAIN now # {} /\ grn[g].warehouse \in Warehouses
      BY <1>1, <1>2, <1>5, RowTypes, QtyTypes DEF GrnInvariant, Header
    <2>2. k \in Keys /\ k = KeyOf(grn[g].warehouse, now, l)
      <3>1. \A m : KeyOf(grn[g].warehouse, rows, m) = KeyOf(grn[g].warehouse, now, m)
        BY <1>2, SameKeys
      <3> QED
        BY <1>2, <2>1, <3>1, KeyTypes
    <2>3. /\ now[l].received = StockOn(g, l)
          /\ g \notin repointed => StockOn(g, l) = received[<<g, l, k>>]
      BY <1>1, <1>2, <1>4, <2>2 DEF NoteAgrees
    <2> HIDE DEF k
    <2>4. StockOn(g, l)' = StockOn(g, l) + QtyIn(r, l)
      BY <1>1, <1>2, <1>3, <2>1, OnLineAdds
    <2>5. received'[<<g, l, k>>] = received[<<g, l, k>>] +
            IF k = KeyOf(grn[g].warehouse, rows, l) THEN QtyIn(r, l) ELSE 0
      BY <1>1, <1>2, <1>3, <2>1, <2>2, ReceivedAfter
    <2>6. received'[<<g, l, k>>] = received[<<g, l, k>>] + QtyIn(r, l)
      BY <2>5 DEF k
    <2>7. rows[l].received = StockOn(g, l)' /\ rows[l].received <= rows[l].expected
      BY <1>2, <1>5, <2>1, <2>3, <2>4
    <2>8. g \notin repointed' => StockOn(g, l)' = received'[<<g, l, k>>]
      BY <1>3, <2>3, <2>4, <2>6
    <2> QED
      BY <2>7, <2>8 DEF k
  <1> QED
    BY <1>2, <1>3, <1>5, AgreesNext

LEMMA UpdateAgrees ==
    ASSUME GrnInvariant, AloneInvariant, NEW w \in Workers, CommitUpdate(w),
           NEW g, g = req[w].grn, g \notin overlapped
    PROVE  NoteAgrees(g)'
  <1>1. PICK now, rows, head : now = items[g] /\ rows = req[w].rows /\ head = req[w].head
    OBVIOUS
  <1>2. /\ g \in DOMAIN grn /\ g \in GrnIds /\ now \in RowTables /\ rows \in RowTables
        /\ grn[g] \in Header /\ head \in Header
        /\ grn[g].status = "draft" /\ head = [grn[g] EXCEPT !.warehouse = head.warehouse]
        /\ grn' = [grn EXCEPT ![g] = head] /\ items' = [items EXCEPT ![g] = rows]
        /\ UNCHANGED <<onHand, received>>
        /\ \E p \in Payloads \cup {NoRows} : AmendedBy(p, now, rows)
        /\ repointed' = IF \E l \in DOMAIN now :
                             now[l].received > 0
                             /\ KeyOf(head.warehouse, rows, l)
                                  # KeyOf(grn[g].warehouse, now, l)
                        THEN repointed \cup {g} ELSE repointed
    BY <1>1, UpdateAlone
  <1>3. grn'[g] = head /\ items'[g] = rows /\ head.status = "draft"
    BY <1>2 DEF GrnInvariant, Header
  <1>4. NoteAgrees(g)
    BY <1>2, AgreeIs DEF AloneInvariant
  <1>5. PICK p \in Payloads \cup {NoRows} : AmendedBy(p, now, rows)
    BY <1>2
  <1>6. DOMAIN now # {} /\ head.warehouse \in Warehouses
    BY <1>1, <1>2 DEF GrnInvariant, Header
  <1>7. ASSUME NEW l \in DOMAIN rows
        PROVE  /\ rows[l].received = StockOn(g, l)'
               /\ rows[l].received <= rows[l].expected
               /\ g \notin repointed' =>
                    StockOn(g, l)' = received'[<<g, l, KeyOf(head.warehouse, rows, l)>>]
    <2> DEFINE k == KeyOf(head.warehouse, rows, l)
    <2>1. l \in LineNos /\ DOMAIN rows # {} /\ rows[l].expected \in Nat
      BY <1>2, <1>5, <1>6, RowTypes DEF AmendedBy
    <2>2. k \in Keys
      BY <1>2, <1>6, <2>1, KeyTypes
    <2> HIDE DEF k
    <2>3. StockOn(g, l)' = StockOn(g, l) /\ received'[<<g, l, k>>] = received[<<g, l, k>>]
      BY <1>2, <2>1, SameStock
    <2>4. CASE l \notin DOMAIN now
      <3>1. StockOn(g, l) = 0 /\ received[<<g, l, k>>] = 0
        BY <1>1, <1>2, <2>1, <2>2, <2>4, NothingOn DEF HasLine
      <3>2. l \in DOMAIN p /\ "sku" \in DOMAIN p[l] /\ rows[l] = NewRow(p[l])
        BY <1>5, <1>7, <2>4 DEF AmendedBy
      <3>3. rows[l].received = 0
        BY <3>2 DEF NewRow
      <3> QED
        BY <2>1, <2>3, <3>1, <3>3 DEF k
    <2>5. CASE l \in DOMAIN now
      <3>1. /\ now[l].received = StockOn(g, l) /\ now[l].received <= now[l].expected
            /\ g \notin repointed =>
                 StockOn(g, l) = received[<<g, l, KeyOf(grn[g].warehouse, now, l)>>]
        BY <1>1, <1>4, <2>5 DEF NoteAgrees
      <3>2. now[l] \in Item /\ now[l].received \in Nat /\ now[l].expected \in Nat
        BY <1>2, <2>5, RowTypes
      <3>3. rows[l].received = now[l].received /\ rows[l].received <= rows[l].expected
        <4>1. CASE l \in DOMAIN p
          <5>1. /\ RowAmended(now[l], p[l], rows[l]) /\ p[l] \in Asked
                /\ "expected" \in DOMAIN p[l] => p[l].expected \in Nat
            BY <1>5, <2>5, <4>1, PayloadTypes DEF AmendedBy
          <5>2. /\ rows[l].received = now[l].received
                /\ rows[l].expected = IF "expected" \in DOMAIN p[l]
                                      THEN p[l].expected ELSE now[l].expected
            BY <3>2, <5>1, OverlayAsked DEF RowAmended
          <5> QED
            BY <3>1, <3>2, <5>1, <5>2 DEF RowAmended
        <4>2. CASE l \notin DOMAIN p
          BY <1>5, <2>5, <3>1, <4>2 DEF AmendedBy
        <4> QED
          BY <4>1, <4>2
      <3>4. ASSUME g \notin repointed'
            PROVE  StockOn(g, l) = received[<<g, l, k>>]
        <4>1. g \notin repointed
          BY <1>2, <3>4
        <4>2. now[l].received = 0 \/ k = KeyOf(grn[g].warehouse, now, l)
          BY <1>2, <2>5, <3>2, <3>4 DEF k
        <4>3. received[<<g, l, k>>] \in Nat /\ received[<<g, l, k>>] <= StockOn(g, l)
          BY <1>2, <2>1, <2>2, KeyWithin
        <4> QED
          BY <3>1, <4>1, <4>2, <4>3
      <3> QED
        BY <2>3, <3>1, <3>3, <3>4 DEF k
    <2> QED
      BY <2>4, <2>5
  <1> QED
    BY <1>3, <1>7, AgreesNext

LEMMA HeadAgrees ==
    ASSUME GrnInvariant, AloneInvariant, NEW w \in Workers, WriteHeadAlone(w),
           NEW g, g = req[w].grn, g \notin overlapped
    PROVE  NoteAgrees(g)'
  <1> PICK head : head = req[w].head
    OBVIOUS
  <1>1. PICK rows : rows = items[g]
    OBVIOUS
  <1>2. /\ g \in DOMAIN grn /\ g \in GrnIds /\ grn[g] \in Header
        /\ items[g] \in RowTables /\ grn[g].status = "draft"
        /\ grn' = [grn EXCEPT ![g] = head]
        /\ UNCHANGED <<onHand, items, received, repointed>>
        /\ HeadMarked(head, grn[g], items[g])
    BY HeadAlone
  <1>3. /\ grn'[g] = head /\ items'[g] = rows /\ head.warehouse = grn[g].warehouse
        /\ head.status = "posted" => FullyReceived(rows)
    BY <1>1, <1>2 DEF GrnInvariant, Header, HeadMarked
  <1>4. NoteAgrees(g)
    BY <1>2, AgreeIs DEF AloneInvariant
  <1>5. ASSUME NEW l \in DOMAIN rows
        PROVE  /\ rows[l].received = StockOn(g, l)'
               /\ rows[l].received <= rows[l].expected
               /\ g \notin repointed' =>
                    StockOn(g, l)' = received'[<<g, l, KeyOf(head.warehouse, rows, l)>>]
    <2>1. l \in LineNos
      BY <1>1, <1>2, <1>5, RowTypes
    <2>2. StockOn(g, l)' = StockOn(g, l)
      BY <1>2, <2>1, SameStock
    <2>3. /\ rows[l].received = StockOn(g, l) /\ rows[l].received <= rows[l].expected
          /\ g \notin repointed =>
               StockOn(g, l) = received[<<g, l, KeyOf(head.warehouse, rows, l)>>]
      BY <1>1, <1>3, <1>4, <1>5 DEF NoteAgrees
    <2> QED
      BY <1>2, <2>2, <2>3
  <1> QED
    BY <1>3, <1>5, AgreesNext

LEMMA CreateReceiptAgrees ==
    ASSUME GrnInvariant, AloneInvariant, NEW w \in Workers, CommitCreate(w), Receipt(w),
           NEW g, g = req[w].grn
    PROVE  NoteAgrees(g)'
  <1>1. PICK rows, r : rows = req[w].rows /\ r = req[w].asked
    OBVIOUS
  <1>2. PICK head : head = NewHead(req[w])
    OBVIOUS
  <1>3. /\ ~Idle(w) /\ req[w].op = "create" /\ req[w].at = "receive"
        /\ g \notin DOMAIN grn /\ g \in GrnIds /\ r \in Receipts
        /\ req[w].head \in Header /\ rows \in RowTables
        /\ grn' = Put(grn, g, head) /\ items' = Put(items, g, rows)
        /\ NoteReceived(w) /\ repointed' = repointed
        /\ req[w].autoPost => FullyReceived(rows)
        /\ \E p \in Payloads :
             /\ Complete(p) /\ DOMAIN rows = DOMAIN p
             /\ \A l \in DOMAIN p :
                  /\ rows[l].sku = p[l].sku /\ rows[l].expected = p[l].expected
                  /\ rows[l].received = QtyIn(r, l)
                  /\ rows[l].received <= rows[l].expected
    BY SMTT(30), <1>1, <1>2, CreateAlone
  <1>4. /\ grn'[g] = head /\ items'[g] = rows
        /\ head.warehouse = req[w].head.warehouse /\ head.warehouse \in Warehouses
        /\ head.status = "posted" => FullyReceived(rows)
    BY <1>2, <1>3 DEF Put, NewHead, Header
  <1>5. /\ DOMAIN rows # {}
        /\ \A l \in DOMAIN rows :
             rows[l].received = QtyIn(r, l) /\ rows[l].received <= rows[l].expected
    BY <1>3, PayloadRows
  <1>6. ASSUME NEW l \in DOMAIN rows
        PROVE  /\ rows[l].received = StockOn(g, l)'
               /\ rows[l].received <= rows[l].expected
               /\ g \notin repointed' =>
                    StockOn(g, l)' = received'[<<g, l, KeyOf(head.warehouse, rows, l)>>]
    <2> DEFINE k == KeyOf(head.warehouse, rows, l)
    <2>1. l \in LineNos /\ QtyIn(r, l) \in Nat
      BY <1>3, <1>6, RowTypes, QtyTypes
    <2>2. k \in Keys
      BY <1>3, <1>4, <1>5, KeyTypes
    <2> HIDE DEF k
    <2>3. StockOn(g, l) = 0 /\ received[<<g, l, k>>] = 0
      BY <1>3, <2>1, <2>2, NothingOn DEF HasLine
    <2>4. StockOn(g, l)' = StockOn(g, l) + QtyIn(r, l)
      BY <1>1, <1>3, <2>1, OnLineAdds
    <2>5. received'[<<g, l, k>>] = received[<<g, l, k>>] +
            IF k = KeyOf(req[w].head.warehouse, rows, l) THEN QtyIn(r, l) ELSE 0
      BY <1>1, <1>3, <2>1, <2>2, ReceivedAfter
    <2>6. received'[<<g, l, k>>] = received[<<g, l, k>>] + QtyIn(r, l)
      BY <1>4, <2>5 DEF k
    <2> QED
      BY <1>5, <2>1, <2>3, <2>4, <2>6 DEF k
  <1> QED
    BY <1>4, <1>6, AgreesNext

LEMMA CreateAgrees ==
    ASSUME GrnInvariant, NEW w \in Workers, NEW g \in GrnIds, NEW h \in Warehouses,
           NEW p \in Payloads, Create(w, g, h, p)
    PROVE  NoteAgrees(g)'
  <1>1. /\ Complete(p) /\ g \notin DOMAIN grn /\ UNCHANGED <<received, repointed>>
        /\ grn'[g] = Draft(h) /\ items'[g] = Rows(p)
    BY DEF Create
  <1>2. /\ Rows(p) \in RowTables /\ DOMAIN Rows(p) # {}
        /\ \A l \in DOMAIN Rows(p) :
             Rows(p)[l].received = 0 /\ Rows(p)[l].expected \in Nat
    BY <1>1, PayloadRows
  <1>3. PICK rows : rows = Rows(p)
    OBVIOUS
  <1>4. Draft(h).status = "draft" /\ Draft(h).warehouse = h
    BY DEF Draft
  <1>5. ASSUME NEW l \in DOMAIN rows
        PROVE  /\ rows[l].received = StockOn(g, l)'
               /\ rows[l].received <= rows[l].expected
               /\ g \notin repointed' =>
                    StockOn(g, l)' = received'[<<g, l, KeyOf(h, rows, l)>>]
    <2>1. l \in LineNos /\ KeyOf(h, rows, l) \in Keys
      BY <1>2, <1>3, <1>5, RowTypes, KeyTypes
    <2>2. StockOn(g, l) = 0 /\ \A k \in Keys : received[<<g, l, k>>] = 0
      BY <1>1, <2>1, NothingOn DEF HasLine
    <2>3. StockOn(g, l)' = StockOn(g, l)
      BY <1>1, <2>1, SameStock
    <2> QED
      BY <1>1, <1>2, <1>3, <1>5, <2>1, <2>2, <2>3
  <1>6. grn'[g] = Draft(h) /\ items'[g] = rows
    BY <1>1, <1>3
  <1> QED
    BY <1>4, <1>5, <1>6, AgreesNext

LEMMA StillAgrees ==
    ASSUME GrnInvariant, NEW g \in DOMAIN grn, NoteAgrees(g),
           grn'[g] = grn[g], items'[g] = items[g],
           \A l \in LineNos, k \in Keys : received'[<<g, l, k>>] = received[<<g, l, k>>],
           g \in repointed' <=> g \in repointed
    PROVE  NoteAgrees(g)'
  <1>1. /\ g \in GrnIds /\ items[g] \in RowTables /\ DOMAIN items[g] # {}
        /\ grn[g].warehouse \in Warehouses
    <2>1. grn[g] \in Header
      BY DEF GrnInvariant
    <2> QED
      BY <2>1 DEF GrnInvariant, Header
  <1> PICK rows, head : rows = items[g] /\ head = grn[g]
    OBVIOUS
  <1>2. ASSUME NEW l \in DOMAIN rows
        PROVE  /\ rows[l].received = StockOn(g, l)'
               /\ rows[l].received <= rows[l].expected
               /\ g \notin repointed' =>
                    StockOn(g, l)' = received'[<<g, l, KeyOf(head.warehouse, rows, l)>>]
    <2>1. l \in LineNos /\ KeyOf(head.warehouse, rows, l) \in Keys
      BY <1>1, <1>2, RowTypes, KeyTypes
    <2>2. StockOn(g, l)' = StockOn(g, l)
      BY <1>1, <2>1, SameStock
    <2>3. /\ rows[l].received = StockOn(g, l) /\ rows[l].received <= rows[l].expected
          /\ g \notin repointed =>
               StockOn(g, l) = received[<<g, l, KeyOf(head.warehouse, rows, l)>>]
      BY <1>2 DEF NoteAgrees
    <2> QED
      BY <2>1, <2>2, <2>3
  <1>3. grn'[g] = head /\ items'[g] = rows /\ (head.status = "posted" => FullyReceived(rows))
    BY DEF NoteAgrees
  <1> QED
    BY <1>2, <1>3, AgreesNext

(* Nothing but these writes a note.                                        *)
WritesNote(w) ==
    \/ WriteHeadAlone(w) \/ CommitUpdate(w) \/ Receipt(w)
    \/ \E g \in GrnIds, h \in Warehouses, p \in Payloads : Create(w, g, h, p)

LEMMA OnlyTheseWrite ==
    ASSUME GrnInvariant, NEW w \in Workers, GrnStep(w), ~WritesNote(w)
    PROVE  UNCHANGED <<onHand, grn, items, received, repointed>>
  <1>2. CASE Receive(w)
    <2>1. ASSUME NEW r, Open(w, r)
          PROVE  UNCHANGED <<grn, items, received, repointed>>
      BY <2>1 DEF Open
    <2>2. ASSUME NEW posts, Begin(w, posts)
          PROVE  onHand' = onHand
      BY <2>2 DEF Begin, committed
    <2> QED
      BY <1>2, <2>1, <2>2 DEF Receive, WritesNote, OpenCreate, OpenReceive,
         OpenUpdate, OpenDelete, OpenPost, stockVars, committed
  <1>3. CASE Proceed(w)
    <2>1. CASE CheckReceived(w) \/ LoadHead(w) \/ WriteHead(w) \/ FindForUpdate(w)
               \/ AmendLine(w) \/ InsertLine(w) \/ LoadRow(w) \/ WriteRow(w)
      BY <2>1 DEF CheckReceived, LoadHead, WriteHead, FindForUpdate, AmendLine,
         InsertLine, LoadRow, WriteRow, stockVars, committed, history
    <2>2. CASE FindForReceive(w) \/ ReceiveLine(w) \/ BalanceStatement(w)
      BY <2>2 DEF FindForReceive, Begin, ReceiveLine, InsertLot, BalanceStatement,
         UpsertBalance, CheckBalance, Rollback, stockVars, committed, history
    <2>3. CASE CommitReceive(w) \/ CommitCreate(w)
      BY <2>3 DEF WritesNote, Receipt, CommitCreate, Rollback, committed
    <2> QED
      BY <1>3, <2>1, <2>2, <2>3 DEF Proceed, WritesNote
  <1>4. CASE Abandon(w) \/ BreakDeadlock(w)
    BY <1>4 DEF Abandon, BreakDeadlock, Rollback, stockVars, committed, history
  <1> QED
    BY <1>2, <1>3, <1>4 DEF GrnStep

LEMMA NextAgree ==
    ASSUME GrnInvariant, AloneInvariant, NEW w \in Workers, GrnStep(w)
    PROVE  UncontendedNotesAgree'
  <1>1. overlapped \subseteq overlapped'
    BY NextOneRequest DEF AloneInvariant
  <1>2. ASSUME NEW g \in DOMAIN grn', g \notin overlapped'
        PROVE  NoteAgrees(g)'
    <2>1. g \notin overlapped
      BY <1>1, <1>2
    <2>2. CASE g \in DOMAIN grn /\ ~On(w, g)
      <3>1. NoteAgrees(g)
        BY <2>1, <2>2, AgreeIs DEF AloneInvariant
      <3> QED
        BY <2>2, <3>1, OthersNotes, StillAgrees
    <2>3. CASE ~WritesNote(w)
      <3>1. UNCHANGED <<grn, items, received, repointed>>
        BY <2>3, OnlyTheseWrite
      <3>2. g \in DOMAIN grn
        BY <1>2, <3>1
      <3>3. NoteAgrees(g)
        BY <2>1, <3>2, AgreeIs DEF AloneInvariant
      <3> QED
        BY <3>1, <3>2, <3>3, StillAgrees
    <2>4. CASE ~(g \in DOMAIN grn /\ ~On(w, g)) /\ WritesNote(w)
      <3>1. CASE WriteHeadAlone(w) \/ CommitUpdate(w) \/ CommitReceive(w)
        <4>1. DOMAIN grn' = DOMAIN grn
          BY <3>1 DEF WriteHeadAlone, CommitUpdate, CommitReceive
        <4>2. g = req[w].grn
          BY <1>2, <2>4, <4>1 DEF On
        <4> QED
          BY <2>1, <3>1, <4>2, HeadAgrees, UpdateAgrees, ReceiveAgrees
      <3>2. CASE CommitCreate(w) /\ Receipt(w)
        <4>1. \/ g = req[w].grn
              \/ g \in DOMAIN grn /\ ~On(w, g)
          BY <1>2, <3>2 DEF CommitCreate, Receipt, CommitReceive, At, On
        <4> QED
          BY <2>4, <3>2, <4>1, CreateReceiptAgrees
      <3>3. ASSUME NEW f \in GrnIds, NEW h \in Warehouses, NEW p \in Payloads,
                   Create(w, f, h, p)
            PROVE  NoteAgrees(g)'
        <4>1. g = f \/ (g \in DOMAIN grn /\ ~On(w, g))
          BY <1>2, <3>3 DEF Create, On
        <4> QED
          BY <2>4, <3>3, <4>1, CreateAgrees
      <3> QED
        BY <2>4, <3>1, <3>2, <3>3 DEF WritesNote, Receipt
    <2> QED
      BY <2>2, <2>3, <2>4
  <1>3. UncontendedNotesAgree' <=> (\A g \in DOMAIN grn \ overlapped : NoteAgrees(g))'
    BY AgreeIs, PTL
  <1>4. (\A g \in DOMAIN grn \ overlapped : NoteAgrees(g))'
    BY <1>2
  <1> QED
    BY <1>3, <1>4

LEMMA NextAlone ==
    GrnInvariant /\ AloneInvariant /\ [GrnNext]_vars => AloneInvariant'
  <1> SUFFICES ASSUME GrnInvariant, AloneInvariant, [GrnNext]_vars
               PROVE  AloneInvariant'
    OBVIOUS
  <1>1. CASE UNCHANGED vars
    <2>1. UNCHANGED <<grn, items, req, received, repointed, overlapped>>
      BY <1>1 DEF vars, grnVars, history
    <2>2. OneRequest' /\ UncontendedNotesAgree'
      BY <2>1 DEF AloneInvariant, OneRequest, On, UncontendedNotesAgree, StockOn,
         StockFrom, FullyReceived
    <2>3. \A w \in Workers : Undisturbed(w)'
      BY <2>1 DEF AloneInvariant, Undisturbed, HeadNow, RowsNow
    <2> QED
      BY <2>2, <2>3 DEF AloneInvariant
  <1>2. CASE GrnNext
    <2>1. PICK w \in Workers : GrnStep(w)
      BY <1>2 DEF GrnNext, GrnStep
    <2>2. OneRequest'
      BY <2>1, NextOneRequest DEF AloneInvariant
    <2>3. UncontendedNotesAgree'
      BY <2>1, NextAgree
    <2>4. \A v \in Workers : Undisturbed(v)'
      BY <2>1, NextUndisturbed
    <2> QED
      BY <2>2, <2>3, <2>4 DEF AloneInvariant
  <1> QED
    BY <1>1, <1>2

LEMMA AloneHolds == GrnSpec => []AloneInvariant
  <1>1. GrnInit => AloneInvariant
    BY DEF GrnInit, AloneInvariant, OneRequest, Undisturbed, UncontendedNotesAgree
  <1> QED
    BY <1>1, NextAlone, GrnInvariantHolds, PTL DEF GrnSpec

(* A note no two requests worked on at once: its totals are the stock that *)
(* came in on its lines, none beyond what is expected; when it is posted   *)
(* everything is in; and the stock is where the note says, unless an       *)
(* update changed that after a receipt.                                    *)
THEOREM UncontendedAgree == GrnSpec => []UncontendedNotesAgree
  <1>1. AloneInvariant => UncontendedNotesAgree
    BY DEF AloneInvariant
  <1> QED
    BY <1>1, AloneHolds, PTL
----------------------------------------------------------------------------
(* The promise of GrnLife.                                                 *)

LEMMA LifeEffect ==
    ASSUME NEW request, NEW k
    PROVE  Life!Stock!Effect(request, k) = Book!Effect(request, k)
  <1>1. \A f, S : Life!Stock!SumFunctionOnSet(f, S) = Book!SumFunctionOnSet(f, S)
    BY Zenon DEF Book!SumFunctionOnSet, Book!FoldFunctionOnSet,
       Book!MapThenFoldSet, Life!Stock!SumFunctionOnSet,
       Life!Stock!FoldFunctionOnSet, Life!Stock!MapThenFoldSet
  <1> QED
    BY <1>1 DEF Life!Stock!Effect, Life!Stock!LineEffect, Book!Effect,
       Book!LineEffect

LEMMA NoRowsTable == NoRows \in RowTables /\ DOMAIN NoRows = {} /\ Life!NoRows = NoRows
  <1>1. NoRows \in [{} -> Item]
    BY DEF NoRows
  <1> QED
    BY <1>1 DEF NoRows, Life!NoRows, RowTables

LEMMA LifeAmended ==
    ASSUME NEW p \in Payloads \cup {NoRows}, NEW now \in RowTables, NEW rows \in RowTables,
           AmendedBy(p, now, rows)
    PROVE  Life!Amended(now, p) = rows
  <1> DEFINE row(l, given) == IF l \in DOMAIN now THEN now[l]
                              ELSE [sku |-> given.sku, expected |-> 0, received |-> 0]
             amended(l, given) ==
               [c \in DOMAIN row(l, given) |->
                  IF c \in DOMAIN given THEN given[c] ELSE row(l, given)[c]]
  <1>1. DOMAIN rows = DOMAIN now \cup DOMAIN p
    BY DEF AmendedBy
  <1>2. ASSUME NEW l \in DOMAIN rows
        PROVE  amended(l, IF l \in DOMAIN p THEN p[l] ELSE <<>>) = rows[l]
    <2>1. CASE l \in DOMAIN p /\ l \notin DOMAIN now
      <3>1. /\ "sku" \in DOMAIN p[l] /\ rows[l] = NewRow(p[l])
            /\ DOMAIN p[l] \subseteq {"sku", "expected"}
        BY <2>1, PayloadTypes DEF AmendedBy
      <3> QED
        BY <2>1, <3>1 DEF NewRow
    <2>2. CASE l \in DOMAIN p /\ l \in DOMAIN now
      BY <2>2 DEF AmendedBy, RowAmended, Overlay
    <2>3. CASE l \notin DOMAIN p
      <3>1. l \in DOMAIN now /\ rows[l] = now[l]
        BY <1>1, <1>2, <2>3 DEF AmendedBy
      <3>2. now[l] \in Item
        BY <3>1, RowTypes
      <3>3. now[l] = [c \in DOMAIN now[l] |-> now[l][c]]
        BY <3>2 DEF Item
      <3>4. DOMAIN <<>> = {}
        OBVIOUS
      <3> QED
        BY <2>3, <3>1, <3>3, <3>4
    <2> QED
      BY <2>1, <2>2, <2>3
  <1>3. Life!Amended(now, p) = [l \in DOMAIN now \cup DOMAIN p |->
                                  amended(l, IF l \in DOMAIN p THEN p[l] ELSE <<>>)]
    BY DEF Life!Amended
  <1>4. rows = [l \in DOMAIN rows |-> rows[l]]
    BY RowTypes
  <1> HIDE DEF amended
  <1> QED
    BY <1>1, <1>2, <1>3, <1>4

LEMMA LifeNew ==
    ASSUME NEW p \in Payloads, Complete(p)
    PROVE  Life!Amended(Life!NoRows, p) = Rows(p) /\ Life!Whole(p)
  <1>1. Rows(p) \in RowTables /\ AmendedBy(p, NoRows, Rows(p))
    BY PayloadRows, NoRowsTable DEF AmendedBy, Complete
  <1> QED
    BY <1>1, LifeAmended, NoRowsTable DEF Life!Whole, Complete

(* rows is what is left of now when the receipt r comes in.                *)
ReceivedBy(r, now, rows) ==
    /\ DOMAIN rows = DOMAIN now
    /\ \A l \in DOMAIN now :
         /\ rows[l].sku = now[l].sku /\ rows[l].expected = now[l].expected
         /\ rows[l].received = now[l].received + QtyIn(r, l)
         /\ rows[l].received <= rows[l].expected

LEMMA LifeReceived ==
    ASSUME NEW r \in Receipts, NEW now \in RowTables, NEW rows \in RowTables,
           ReceivedBy(r, now, rows), LinesOf(r) \subseteq DOMAIN now
    PROVE  Life!Received(now, r) = rows /\ Life!Fits(now, r)
  <1>1. ASSUME NEW l \in DOMAIN now
        PROVE  Life!Received(now, r)[l] = rows[l]
    <2>1. /\ rows[l] \in Item /\ now[l] \in Item /\ now[l].received \in Nat
          /\ rows[l].sku = now[l].sku /\ rows[l].expected = now[l].expected
          /\ rows[l].received = now[l].received + QtyIn(r, l)
      BY <1>1, RowTypes DEF ReceivedBy
    <2>2. CASE l \in LinesOf(r)
      <3>1. PICK j : j = CHOOSE i \in DOMAIN r : r[i].line = l
        OBVIOUS
      <3>2. \E i \in DOMAIN r : r[i].line = l
        BY <2>2 DEF LinesOf
      <3>3. j \in DOMAIN r /\ r[j].line = l
        BY <3>1, <3>2
      <3>4. QtyIn(r, l) = r[j].qty
        BY <3>3, QtyOfLine
      <3>5. Life!Received(now, r)[l] = [now[l] EXCEPT !.received = @ + r[j].qty]
        BY <1>1, <3>1, <3>2 DEF Life!Received
      <3> QED
        BY <2>1, <3>4, <3>5 DEF Item
    <2>3. CASE l \notin LinesOf(r)
      <3>1. QtyIn(r, l) = 0
        BY <2>3, QtyOfNoLine
      <3>2. Life!Received(now, r)[l] = now[l]
        BY <1>1, <2>3 DEF Life!Received, LinesOf
      <3> QED
        BY <2>1, <3>1, <3>2 DEF Item
    <2> QED
      BY <2>2, <2>3
  <1>2. Life!Received(now, r) = [l \in DOMAIN now |-> Life!Received(now, r)[l]]
    BY DEF Life!Received
  <1>3. rows = [l \in DOMAIN now |-> rows[l]]
    BY RowTypes DEF ReceivedBy
  <1>4. ASSUME NEW i \in DOMAIN r
        PROVE  /\ r[i].line \in DOMAIN now
               /\ now[r[i].line].received + r[i].qty <= now[r[i].line].expected
    <2>1. r[i].line \in DOMAIN now
      BY DEF LinesOf
    <2>2. QtyIn(r, r[i].line) = r[i].qty
      BY QtyOfLine
    <2> QED
      BY <2>1, <2>2 DEF ReceivedBy
  <1> QED
    BY <1>1, <1>2, <1>3, <1>4 DEF Life!Fits

LEMMA LifeAllIn ==
    ASSUME NEW rows \in RowTables, FullyReceived(rows),
           \A l \in DOMAIN rows : rows[l].received <= rows[l].expected
    PROVE  Life!AllIn(rows)
  BY RowTypes DEF FullyReceived, Life!AllIn

(* A note as GrnLife sees it, and the table of them.                       *)
Seen(head, rows) ==
    [status |-> head.status, deleted |-> head.deleted, warehouse |-> head.warehouse,
     rows |-> rows]
Docs == [g \in DOMAIN grn |-> Seen(grn[g], items[g])]

NoteAppears(g, head, rows) == grn' = Put(grn, g, head) /\ items' = Put(items, g, rows)
NoteBecomes(g, head, rows) ==
    grn' = [grn EXCEPT ![g] = head] /\ items' = [items EXCEPT ![g] = rows]

LEMMA DocsPut ==
    ASSUME GrnInvariant, NEW g, NEW head, NEW rows, NoteAppears(g, head, rows)
    PROVE  Docs' = Put(Docs, g, Seen(head, rows))
  BY DEF Docs, Seen, Put, NoteAppears, GrnInvariant

(* Steps that change a note there is.                                      *)
LEMMA DocsChange ==
    ASSUME GrnInvariant, NEW g \in DOMAIN grn, NEW head, NEW rows, NoteBecomes(g, head, rows)
    PROVE  Docs' = [Docs EXCEPT ![g] = Seen(head, rows)]
  BY DEF Docs, Seen, NoteBecomes, GrnInvariant

LEMMA CreateKept ==
    ASSUME GrnInvariant, NEW w \in Workers, NEW g \in GrnIds, NEW h \in Warehouses,
           NEW p \in Payloads, Create(w, g, h, p)
    PROVE  Life!LifeNext
  <1>1. /\ Complete(p) /\ g \notin DOMAIN grn /\ onHand' = onHand
        /\ grn' = Put(grn, g, Draft(h)) /\ items' = Put(items, g, Rows(p))
    BY DEF Create, Put, stockVars, committed
  <1>2. Docs' = Put(Docs, g, Seen(Draft(h), Rows(p)))
    <2>1. NoteAppears(g, Draft(h), Rows(p))
      BY <1>1 DEF NoteAppears
    <2> QED
      BY <2>1, DocsPut
  <1>3. Life!Amended(Life!NoRows, p) = Rows(p) /\ Life!Whole(p)
    BY <1>1, LifeNew
  <1>4. Seen(Draft(h), Rows(p)) = [status |-> "draft", deleted |-> FALSE,
                                   warehouse |-> h, rows |-> Rows(p)]
    BY DEF Seen, Draft
  <1>5. g \notin DOMAIN Docs
    BY <1>1 DEF Docs
  <1>6. Life!Enter(g, Rows(p), "draft", h)
    BY <1>2, <1>4, <1>5 DEF Life!Enter, Docs, Seen, Put
  <1> QED
    BY <1>1, <1>3, <1>6 DEF Life!LifeNext

LEMMA CreateReceiptKept ==
    ASSUME GrnFacts, AloneInvariant, OnHandNeverNegative', NEW w \in Workers,
           CommitCreate(w), Receipt(w)
    PROVE  Life!LifeNext
  <1> PICK g, rows, r, head :
        g = req[w].grn /\ rows = req[w].rows /\ r = req[w].asked /\ head = NewHead(req[w])
    OBVIOUS
  <1>1. GrnInvariant
    BY DEF GrnFacts
  <1>2. /\ ~Idle(w) /\ req[w].op = "create"
        /\ g \notin DOMAIN grn /\ g \in GrnIds /\ r \in Receipts
        /\ req[w].head \in Header /\ req[w].head = Draft(req[w].head.warehouse)
        /\ rows \in RowTables
        /\ grn' = Put(grn, g, head) /\ items' = Put(items, g, rows)
        /\ req[w].autoPost => FullyReceived(rows)
        /\ LinesOf(r) \subseteq DOMAIN rows
        /\ \E p \in Payloads :
             /\ Complete(p) /\ DOMAIN rows = DOMAIN p
             /\ \A l \in DOMAIN p :
                  /\ rows[l].sku = p[l].sku /\ rows[l].expected = p[l].expected
                  /\ rows[l].received = QtyIn(r, l)
                  /\ rows[l].received <= rows[l].expected
    BY <1>1, CreateAlone
  <1>3. PICK p \in Payloads :
          /\ Complete(p) /\ DOMAIN rows = DOMAIN p
          /\ \A l \in DOMAIN p :
               /\ rows[l].sku = p[l].sku /\ rows[l].expected = p[l].expected
               /\ rows[l].received = QtyIn(r, l)
               /\ rows[l].received <= rows[l].expected
    BY <1>2
  <1>4. /\ Rows(p) \in RowTables /\ DOMAIN Rows(p) = DOMAIN rows
        /\ ReceivedBy(r, Rows(p), rows)
    <2>1. \A l \in DOMAIN p : QtyIn(r, l) \in Nat
      BY <1>2, QtyTypes
    <2> QED
      BY <1>3, <2>1, PayloadRows DEF ReceivedBy
  <1>5. Life!Received(Rows(p), r) = rows /\ Life!Fits(Rows(p), r)
    BY <1>2, <1>4, LifeReceived
  <1>6. Life!Amended(Life!NoRows, p) = Rows(p) /\ Life!Whole(p)
    BY <1>3, LifeNew
  <1> PICK h, status :
        h = req[w].head.warehouse /\ status = IF req[w].autoPost THEN "posted" ELSE "draft"
    OBVIOUS
  <1>7. /\ h \in Warehouses /\ status \in {"draft", "posted"}
        /\ status = "posted" => Life!AllIn(rows)
    <2>1. \A l \in DOMAIN rows : rows[l].received <= rows[l].expected
      BY <1>3
    <2> QED
      BY <1>2, <2>1, LifeAllIn DEF Header
  <1>8. Seen(head, rows) = [status |-> status, deleted |-> FALSE,
                            warehouse |-> h, rows |-> rows]
    <2>1. head = [Draft(h) EXCEPT !.status = status]
      BY <1>2 DEF NewHead
    <2> QED
      BY <2>1 DEF Seen, Draft
  <1>9. Docs' = Put(Docs, g, Seen(head, rows))
    <2>1. NoteAppears(g, head, rows)
      BY <1>2 DEF NoteAppears
    <2> QED
      BY <1>1, <2>1, DocsPut
  <1>10. g \notin DOMAIN Docs
    BY <1>2 DEF Docs
  <1>11. Life!Enter(g, rows, status, h)
    BY <1>7, <1>8, <1>9, <1>10 DEF Life!Enter, Docs, Seen, Put
  <1>12. Life!Stock!Post(StockLines(h, Rows(p), r))
    <2>1. onHand' = [k \in Keys |-> onHand[k] + Book!Effect(MoveOf(req[w]), k)]
      BY ReceiptIs
    <2>2. MoveOf(req[w]) = StockLines(h, Rows(p), r)
      BY <1>4, SameKeys DEF MoveOf, ReceivedBy
    <2> QED
      BY <2>1, <2>2, LifeEffect DEF Life!Stock!Post, OnHandNeverNegative
  <1> QED
    BY <1>2, <1>5, <1>6, <1>7, <1>11, <1>12 DEF Life!LifeNext

LEMMA ReceiveKept ==
    ASSUME GrnFacts, AloneInvariant, OnHandNeverNegative', NEW w \in Workers,
           CommitReceive(w), overlapped = {}
    PROVE  Life!LifeNext
  <1> PICK g, rows, r : g = req[w].grn /\ rows = req[w].rows /\ r = req[w].asked
    OBVIOUS
  <1> PICK now : now = items[g]
    OBVIOUS
  <1>1. GrnInvariant
    BY DEF GrnFacts
  <1>2. /\ ~Idle(w) /\ req[w].op = "receive" /\ req[w].at = "receive"
        /\ g \in DOMAIN grn /\ g \in GrnIds /\ r \in Receipts
        /\ now \in RowTables /\ rows \in RowTables /\ grn[g] \in Header
        /\ grn[g].status = "draft" /\ req[w].head = grn[g]
        /\ grn' = grn /\ items' = [items EXCEPT ![g] = rows]
        /\ LinesOf(r) \subseteq DOMAIN rows /\ DOMAIN rows = DOMAIN now
        /\ \A l \in DOMAIN now :
             /\ rows[l].sku = now[l].sku /\ rows[l].expected = now[l].expected
             /\ rows[l].received = now[l].received + QtyIn(r, l)
             /\ rows[l].received <= rows[l].expected
    BY <1>1, ReceiveAlone
  <1>3. Life!Received(now, r) = rows /\ Life!Fits(now, r)
    BY <1>2, LifeReceived DEF ReceivedBy
  <1>4. grn' = [grn EXCEPT ![g] = grn[g]]
    BY <1>1, <1>2 DEF GrnInvariant
  <1>5. Docs' = [Docs EXCEPT ![g] = Seen(grn[g], rows)]
    <2>1. NoteBecomes(g, grn[g], rows)
      BY <1>2, <1>4 DEF NoteBecomes
    <2> QED
      BY <1>1, <1>2, <2>1, DocsChange
  <1>6. /\ g \in DOMAIN Docs /\ Docs[g].rows = now /\ Docs[g].status = "draft"
        /\ Docs[g].warehouse = grn[g].warehouse
        /\ Seen(grn[g], rows) = [Docs[g] EXCEPT !.rows = rows]
    BY <1>2 DEF Docs, Seen
  <1>7. Life!Stock!Post(StockLines(grn[g].warehouse, now, r))
    <2>1. onHand' = [k \in Keys |-> onHand[k] + Book!Effect(MoveOf(req[w]), k)]
      BY ReceiptIs DEF Receipt
    <2>2. MoveOf(req[w]) = StockLines(grn[g].warehouse, now, r)
      BY <1>2, SameKeys DEF MoveOf
    <2> QED
      BY <2>1, <2>2, LifeEffect DEF Life!Stock!Post, OnHandNeverNegative
  <1>8. Docs' = [Docs EXCEPT ![g].rows = Life!Received(Docs[g].rows, r)]
    BY <1>3, <1>5, <1>6
  <1>9. Life!Receive(g, r)
    BY <1>3, <1>6, <1>7, <1>8 DEF Life!Receive, Docs, Seen
  <1> QED
    BY <1>2, <1>6, <1>9 DEF Life!LifeNext, Docs, Seen

LEMMA UpdateKept ==
    ASSUME GrnFacts, AloneInvariant, NEW w \in Workers, CommitUpdate(w), overlapped = {}
    PROVE  Life!LifeNext
  <1> PICK g, rows, head : g = req[w].grn /\ rows = req[w].rows /\ head = req[w].head
    OBVIOUS
  <1> PICK now : now = items[g]
    OBVIOUS
  <1>1. GrnInvariant
    BY DEF GrnFacts
  <1>2. /\ g \in DOMAIN grn /\ g \in GrnIds /\ now \in RowTables /\ rows \in RowTables
        /\ grn[g] \in Header /\ head \in Header
        /\ grn[g].status = "draft" /\ head = [grn[g] EXCEPT !.warehouse = head.warehouse]
        /\ grn' = [grn EXCEPT ![g] = head] /\ items' = [items EXCEPT ![g] = rows]
        /\ UNCHANGED <<onHand, received>>
        /\ \E p \in Payloads \cup {NoRows} : AmendedBy(p, now, rows)
    BY <1>1, UpdateAlone
  <1>3. PICK p \in Payloads \cup {NoRows} : AmendedBy(p, now, rows)
    BY <1>2
  <1>4. Life!Amended(now, p) = rows
    BY <1>2, <1>3, LifeAmended
  <1>5. Docs' = [Docs EXCEPT ![g] = Seen(head, rows)]
    <2>1. NoteBecomes(g, head, rows)
      BY <1>2 DEF NoteBecomes
    <2> QED
      BY <1>1, <1>2, <2>1, DocsChange
  <1> PICK h : h = head.warehouse
    OBVIOUS
  <1>6. /\ g \in DOMAIN Docs /\ Docs[g].rows = now /\ Docs[g].status = "draft"
        /\ Seen(head, rows) = [Docs[g] EXCEPT !.rows = rows, !.warehouse = h]
        /\ h \in Warehouses
    <2> PICK d : d = grn[g].deleted
      OBVIOUS
    <2>1. /\ grn[g] = [status |-> "draft", deleted |-> d, warehouse |-> grn[g].warehouse]
          /\ h \in Warehouses
      BY <1>2, HeaderIs DEF Header
    <2>2. head = [status |-> "draft", deleted |-> d, warehouse |-> h]
      BY <1>2, <2>1
    <2>3. /\ Docs[g] = [status |-> "draft", deleted |-> d,
                        warehouse |-> grn[g].warehouse, rows |-> now]
          /\ g \in DOMAIN Docs
      BY <1>2, <2>1 DEF Docs, Seen
    <2>4. Seen(head, rows) = [status |-> "draft", deleted |-> d, warehouse |-> h,
                              rows |-> rows]
      BY <2>2 DEF Seen
    <2>7. PICK doc : doc = [Docs[g] EXCEPT !.rows = rows, !.warehouse = h]
      OBVIOUS
    <2>5. doc = [status |-> "draft", deleted |-> d, warehouse |-> h, rows |-> rows]
      <3>1. PICK mid : mid = [Docs[g] EXCEPT !.rows = rows]
        OBVIOUS
      <3>2. mid = [status |-> "draft", deleted |-> d,
                   warehouse |-> grn[g].warehouse, rows |-> rows]
        BY ONLY <2>3, <3>1
      <3>3. doc = [mid EXCEPT !.warehouse = h]
        BY ONLY <2>7, <3>1
      <3> QED
        BY ONLY <3>2, <3>3
    <2>6. Docs[g].rows = now /\ Docs[g].status = "draft"
      BY <2>3
    <2> QED
      BY <2>1, <2>3, <2>4, <2>5, <2>6, <2>7
  <1>7. Docs' = [Docs EXCEPT ![g].rows = Life!Amended(Docs[g].rows, p), ![g].warehouse = h]
    BY <1>4, <1>5, <1>6
  <1>8. \A l \in DOMAIN p \ DOMAIN now : "sku" \in DOMAIN p[l]
    BY <1>3 DEF AmendedBy
  <1>9. \A l \in DOMAIN p \cap DOMAIN now :
          "expected" \in DOMAIN p[l] => p[l].expected >= now[l].received
    BY <1>3 DEF AmendedBy, RowAmended
  <1>10. Life!Amend(g, h, p)
    BY <1>2, <1>6, <1>7, <1>8, <1>9 DEF Life!Amend, Docs, Seen
  <1> QED
    BY <1>2, <1>6, <1>10, NoRowsTable DEF Life!LifeNext, Docs, Seen

LEMMA HeadKept ==
    ASSUME GrnFacts, AloneInvariant, NEW w \in Workers, WriteHeadAlone(w), overlapped = {}
    PROVE  Life!LifeNext
  <1> PICK g, head : g = req[w].grn /\ head = req[w].head
    OBVIOUS
  <1>1. GrnInvariant
    BY DEF GrnFacts
  <1>2. /\ g \in DOMAIN grn /\ g \in GrnIds /\ grn[g] \in Header
        /\ items[g] \in RowTables /\ grn[g].status = "draft"
        /\ grn' = [grn EXCEPT ![g] = head]
        /\ UNCHANGED <<onHand, items, received, repointed>>
        /\ HeadMarked(head, grn[g], items[g])
    BY <1>1, HeadAlone
  <1>3. items' = [items EXCEPT ![g] = items[g]]
    BY <1>1, <1>2 DEF GrnInvariant
  <1>4. Docs' = [Docs EXCEPT ![g] = Seen(head, items[g])]
    <2>1. NoteBecomes(g, head, items[g])
      BY <1>2, <1>3 DEF NoteBecomes
    <2> QED
      BY <1>1, <1>2, <2>1, DocsChange
  <1>5. g \in DOMAIN Docs /\ Docs[g].rows = items[g] /\ Docs[g].status = "draft"
    BY <1>2 DEF Docs, Seen
  <1>6. CASE head = [grn[g] EXCEPT !.deleted = TRUE]
    <2>1. Seen(head, items[g]) = [Docs[g] EXCEPT !.deleted = TRUE]
      <3> PICK d, h, yes : d = grn[g].deleted /\ h = grn[g].warehouse /\ yes = TRUE
        OBVIOUS
      <3>1. grn[g] = [status |-> "draft", deleted |-> d, warehouse |-> h]
        BY <1>2, HeaderIs
      <3>2. head = [status |-> "draft", deleted |-> yes, warehouse |-> h]
        <4>1. [grn[g] EXCEPT !.deleted = TRUE] = [grn[g] EXCEPT !.deleted = yes]
          OBVIOUS
        <4>2. head = [grn[g] EXCEPT !.deleted = yes]
          BY <1>6, <4>1
        <4> QED
          BY ONLY <3>1, <4>2
      <3>3. Docs[g] = [status |-> "draft", deleted |-> d, warehouse |-> h,
                       rows |-> items[g]]
        BY <1>2, <3>1 DEF Docs, Seen
      <3>4. Seen(head, items[g]) = [status |-> "draft", deleted |-> yes,
                                    warehouse |-> h, rows |-> items[g]]
        BY <3>2 DEF Seen
      <3>7. PICK doc : doc = [Docs[g] EXCEPT !.deleted = yes]
        OBVIOUS
      <3>5. doc = [status |-> "draft", deleted |-> yes, warehouse |-> h,
                   rows |-> items[g]]
        BY ONLY <3>3, <3>7
      <3>6. [Docs[g] EXCEPT !.deleted = TRUE] = [Docs[g] EXCEPT !.deleted = yes]
        OBVIOUS
      <3> QED
        BY <3>4, <3>5, <3>6, <3>7
    <2>2. Docs' = [Docs EXCEPT ![g].deleted = TRUE]
      BY <1>4, <1>5, <2>1
    <2>3. Life!Remove(g)
      BY <1>2, <1>5, <2>2 DEF Life!Remove, Docs, Seen
    <2> QED
      BY <1>2, <2>3 DEF Life!LifeNext
  <1>7. CASE head = [grn[g] EXCEPT !.status = "posted"] /\ FullyReceived(items[g])
    <2>1. Seen(head, items[g]) = [Docs[g] EXCEPT !.status = "posted"]
      BY <1>2, <1>7 DEF Docs, Seen, Header
    <2>2. Docs' = [Docs EXCEPT ![g].status = "posted"]
      BY <1>4, <1>5, <2>1
    <2>3. Life!AllIn(items[g])
      <3>1. NoteAgrees(g)
        BY <1>2, AgreeIs DEF AloneInvariant
      <3> QED
        BY <1>2, <1>7, <3>1, LifeAllIn DEF NoteAgrees
    <2>4. Life!Finish(g)
      BY <1>2, <1>5, <2>2, <2>3 DEF Life!Finish, Docs, Seen
    <2> QED
      BY <1>2, <2>4 DEF Life!LifeNext
  <1> QED
    BY <1>2, <1>6, <1>7 DEF HeadMarked

(* Until two requests work on one note at once, a note and its stock       *)
(* change together: a whole receipt at a time, within what is expected,    *)
(* amended and received while it is a draft, and posted when all is in.    *)
THEOREM GrnLifeIsKept == GrnSpec => ImplementsGrnLife
  <1>1. GrnInit => Life!LifeInit
    <2> SUFFICES ASSUME GrnInit
                 PROVE  Life!LifeInit
      OBVIOUS
    <2>1. Docs = [g \in {} |-> 0]
      BY DEF GrnInit, Docs
    <2>2. onHand \in [Keys -> Nat]
      BY LotsAssumption DEF GrnInit, StockInit
    <2> QED
      BY <2>1, <2>2 DEF Life!LifeInit, Life!Stock!BookInit, Docs, Seen
  <1>2. /\ GrnFacts /\ AloneInvariant /\ GrnFacts' /\ [GrnNext]_vars
        => [overlapped' = {} => Life!LifeNext]_(Life!lifeVars)
    <2> SUFFICES ASSUME GrnFacts, AloneInvariant, GrnFacts',
                        [GrnNext]_vars, overlapped' = {}
                 PROVE  Life!LifeNext \/ UNCHANGED Life!lifeVars
      OBVIOUS
    <2>1. CASE UNCHANGED vars
      <3>1. UNCHANGED <<onHand, grn, items>>
        BY <2>1 DEF vars, grnVars, stockVars, committed
      <3> QED
        BY <3>1 DEF Life!lifeVars
    <2>2. CASE GrnNext
      <3>1. PICK w \in Workers : GrnStep(w)
        BY <2>2 DEF GrnNext, GrnStep
      <3>2. overlapped = {} /\ GrnInvariant /\ OnHandNeverNegative'
        BY <3>1, NextOneRequest DEF GrnFacts, AloneInvariant, StockInvariant
      <3>3. CASE ~WritesNote(w)
        <4>1. UNCHANGED <<onHand, grn, items>>
          BY <3>1, <3>2, <3>3, OnlyTheseWrite
        <4> QED
          BY <4>1 DEF Life!lifeVars
      <3>4. CASE WriteHeadAlone(w) \/ CommitUpdate(w)
        BY <3>2, <3>4, HeadKept, UpdateKept
      <3>5. CASE Receipt(w)
        <4>1. CommitReceive(w) \/ CommitCreate(w)
          BY <3>5 DEF Receipt
        <4> QED
          BY <3>2, <3>5, <4>1, ReceiveKept, CreateReceiptKept
      <3>6. CASE \E g \in GrnIds, h \in Warehouses, p \in Payloads : Create(w, g, h, p)
        BY <3>2, <3>6, CreateKept
      <3> QED
        BY <3>3, <3>4, <3>5, <3>6 DEF WritesNote
    <2> QED
      BY <2>1, <2>2
  <1> QED
    BY <1>1, <1>2, GrnFactsHold, AloneHolds, PTL
    DEF GrnSpec, ImplementsGrnLife
=============================================================================
