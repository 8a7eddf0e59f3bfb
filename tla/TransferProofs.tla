--------------------------- MODULE TransferProofs ---------------------------
(***************************************************************************)
(* For any number of transfers, lines, receipts and requests: dispatches   *)
(* and receipts move stock by whole requests only, every unit is accounted *)
(* for, and no line shows more received than was billed.  A transfer that  *)
(* no two requests worked on at once agrees with its bills and keeps the   *)
(* promise of TransferLife; the argument is that its one receipt's copies  *)
(* of the rows are the rows as committed, plus its own quantities.         *)
(***************************************************************************)
EXTENDS Transfer, StockLedgerProofs

(* Lists of lines.                                                         *)
LEMMA ListTypes ==
    ASSUME NEW s \in LineLists
    PROVE  /\ s \in Seq([line : LineNos, qty : Nat \ {0}]) /\ s # <<>>
           /\ Len(s) \in Nat \ {0} /\ DOMAIN s = 1..Len(s)
           /\ IsFiniteSet(DOMAIN s)
           /\ LinesOf(s) \subseteq LineNos
           /\ \A i \in DOMAIN s : s[i].line \in LineNos /\ s[i].qty \in Nat \ {0}
           /\ \A i, j \in DOMAIN s : s[i].line = s[j].line => i = j
  <1>1. /\ s \in Seq([line : LineNos, qty : Nat \ {0}]) /\ s # <<>>
        /\ \A i, j \in DOMAIN s : s[i].line = s[j].line => i = j
    BY DEF LineLists
  <1>2. Len(s) \in Nat \ {0} /\ DOMAIN s = 1..Len(s)
    BY <1>1
  <1>3. IsFiniteSet(1..Len(s))
    <2>1. 1 \in Int /\ Len(s) \in Int
      BY <1>2
    <2> QED
      BY <2>1, FS_Interval
  <1>4. \A i \in DOMAIN s : s[i].line \in LineNos /\ s[i].qty \in Nat \ {0}
    <2> DEFINE Quantity == [line : LineNos, qty : Nat \ {0}]
    <2>1. s \in Seq(Quantity)
      BY <1>1
    <2> HIDE DEF Quantity
    <2>2. \A i \in DOMAIN s : s[i] \in Quantity
      BY <1>2, <2>1
    <2> QED
      BY <2>2 DEF Quantity
  <1> QED
    BY <1>1, <1>2, <1>3, <1>4 DEF LinesOf

(* A list has one line at most for a line number.                          *)
LEMMA QtyOfLine ==
    ASSUME NEW s \in LineLists, NEW i \in DOMAIN s
    PROVE  QtyOf(s, s[i].line) = s[i].qty
  <1> DEFINE here == {j \in DOMAIN s : s[j].line = s[i].line}
             f == [j \in here |-> s[j].qty]
  <1>1. here = {i}
    BY ListTypes
  <1>2. f[i] = s[i].qty /\ f[i] \in Int /\ DOMAIN f = {i}
    BY <1>1, ListTypes
  <1>3. QtyOf(s, s[i].line) = SumFunctionOnSet(f, {i})
    BY <1>1 DEF QtyOf, SumFunction
  <1> HIDE DEF f
  <1> QED
    BY <1>2, <1>3, SumOfOne

LEMMA QtyOfNoLine ==
    ASSUME NEW s \in LineLists, NEW l, l \notin LinesOf(s)
    PROVE  QtyOf(s, l) = 0
  <1> DEFINE f == [j \in {j \in DOMAIN s : s[j].line = l} |-> s[j].qty]
  <1>1. DOMAIN f = {}
    BY DEF LinesOf
  <1>2. QtyOf(s, l) = SumFunctionOnSet(f, {})
    BY <1>1 DEF QtyOf, SumFunction
  <1> HIDE DEF f
  <1> QED
    BY <1>2, SumEmpty

LEMMA QtyOfTypes ==
    ASSUME NEW s \in LineLists, NEW l
    PROVE  QtyOf(s, l) \in Nat /\ (QtyOf(s, l) > 0 <=> l \in LinesOf(s))
  <1>1. CASE l \in LinesOf(s)
    <2>1. PICK i \in DOMAIN s : s[i].line = l
      BY <1>1 DEF LinesOf
    <2>2. QtyOf(s, l) = s[i].qty /\ s[i].qty \in Nat \ {0}
      BY <2>1, QtyOfLine, ListTypes
    <2> QED
      BY <1>1, <2>2
  <1>2. CASE l \notin LinesOf(s)
    BY <1>2, QtyOfNoLine
  <1> QED
    BY <1>1, <1>2

(* What posting a list moves at a key is what it has for the key's lines.  *)
KeyQty(keyOf, s, k) ==
    SumFunctionOnSet([l \in LineNos |-> QtyOf(s, l)], {l \in LineNos : keyOf[l] = k})

LEMMA KeyQtyTypes ==
    ASSUME NEW s \in LineLists, NEW keyOf, NEW k
    PROVE  KeyQty(keyOf, s, k) \in Nat
  <1> DEFINE f == [l \in LineNos |-> QtyOf(s, l)]
             S == {l \in LineNos : keyOf[l] = k}
  <1>1. IsFiniteSet(S)
    BY FiniteAssumption, FS_Subset
  <1>2. \A l \in S : f[l] \in Nat
    BY QtyOfTypes
  <1> HIDE DEF f, S
  <1>3. SumFunctionOnSet(f, S) \in Nat
    BY <1>1, <1>2, SumIsNat
  <1> QED
    BY <1>3 DEF KeyQty, f, S

LEMMA PostingEffect ==
    ASSUME NEW dir \in {"in", "out"}, NEW keyOf \in [LineNos -> Keys],
           NEW s \in LineLists, NEW k \in Keys
    PROVE  Book!Effect(Posting(dir, keyOf, s), k) =
             IF dir = "in" THEN KeyQty(keyOf, s, k) ELSE 0 - KeyQty(keyOf, s, k)
  <1> DEFINE sign(q) == IF dir = "in" THEN q ELSE 0 - q
             lines == [i \in DOMAIN s |->
                         IF keyOf[s[i].line] = k THEN sign(s[i].qty) ELSE 0]
             g == [l \in LineNos |-> IF keyOf[l] = k THEN sign(QtyOf(s, l)) ELSE 0]
             h == [i \in DOMAIN s |-> s[i].line]
             q == [l \in LineNos |-> QtyOf(s, l)]
             S == {l \in LineNos : keyOf[l] = k}
  <1>1. /\ IsFiniteSet(LineNos) /\ IsFiniteSet(S) /\ S \subseteq LineNos
        /\ IsFiniteSet(DOMAIN s) /\ LinesOf(s) \subseteq LineNos
        /\ {h[i] : i \in DOMAIN s} = LinesOf(s)
    BY FiniteAssumption, ListTypes, FS_Subset DEF LinesOf
  <1>2. Book!Effect(Posting(dir, keyOf, s), k) = SumFunctionOnSet(lines, DOMAIN s)
    <2>1. [i \in DOMAIN Posting(dir, keyOf, s) |->
             Book!LineEffect(Posting(dir, keyOf, s)[i], k)] = lines
      BY ListTypes DEF Posting, Book!LineEffect
    <2>2. DOMAIN Posting(dir, keyOf, s) = DOMAIN s
      BY DEF Posting
    <2> HIDE DEF lines
    <2> QED
      BY <2>1, <2>2, BookSum DEF Book!Effect
  <1>3. \A l \in LineNos : QtyOf(s, l) \in Nat
    BY QtyOfTypes
  <1>4. \A l \in LineNos : g[l] \in Int
    BY <1>3
  <1>5. SumFunctionOnSet(lines, DOMAIN s) = SumFunctionOnSet(g, LinesOf(s))
    <2>1. \A i \in DOMAIN s : lines[i] \in Int /\ lines[i] = g[h[i]]
      BY ListTypes, QtyOfLine
    <2>2. \A i, j \in DOMAIN s : h[i] = h[j] => i = j
      BY ListTypes
    <2> HIDE DEF lines, g, h
    <2> QED
      BY <1>1, <2>1, <2>2, SumRenamed
  <1>6. SumFunctionOnSet(g, LineNos) = SumFunctionOnSet(g, LinesOf(s))
    <2>1. \A l \in LineNos \ LinesOf(s) : g[l] = 0
      BY QtyOfNoLine
    <2> HIDE DEF g
    <2> QED
      BY <1>1, <1>4, <2>1, SumOfPart
  <1>7. SumFunctionOnSet(g, LineNos) = SumFunctionOnSet(g, S)
    <2>1. \A l \in LineNos \ S : g[l] = 0
      OBVIOUS
    <2> HIDE DEF g, S
    <2> QED
      BY <1>1, <1>4, <2>1, SumOfPart
  <1>8. KeyQty(keyOf, s, k) = SumFunctionOnSet(q, S)
    BY DEF KeyQty
  <1>9. CASE dir = "in"
    <2>1. \A l \in S : g[l] = q[l]
      BY <1>9
    <2> HIDE DEF g, q, S
    <2>2. SumFunctionOnSet(g, S) = SumFunctionOnSet(q, S)
      BY <1>1, <2>1, SumSame
    <2> QED
      BY <1>2, <1>5, <1>6, <1>7, <1>8, <1>9, <2>2
  <1>10. CASE dir = "out"
    <2> DEFINE zero == [l \in LineNos |-> 0]
    <2>1. \A l \in S : /\ zero[l] \in Int /\ q[l] \in Int
                       /\ g[l] = zero[l] - q[l] /\ zero[l] = 0
      BY <1>3, <1>10
    <2> HIDE DEF g, q, S, zero
    <2>2. SumFunctionOnSet(g, S)
            = SumFunctionOnSet(zero, S) - SumFunctionOnSet(q, S)
      BY <1>1, <2>1, SumMinus
    <2>3. SumFunctionOnSet(zero, S) = 0
      BY <1>1, <2>1, SumZero
    <2> QED
      BY <1>2, <1>5, <1>6, <1>7, <1>8, <1>10, <2>2, <2>3
  <1> QED
    BY <1>9, <1>10
----------------------------------------------------------------------------
(* The requests.                                                           *)

Quantity == [line : LineNos, qty : Nat \ {0}]
Columns == {"dispatched", "received", "status", "receivedAt"}
Stages == {"issue", "find", "receive", "loadRow", "writeRow", "balance",
           "loadHead", "writeHead", "invoice", "commit"}
RowTables == UNION {[S -> Item] : S \in SUBSET LineNos}

RequestRecord ==
    [op : {"dispatch", "receive"}, transfer : TransferIds, at : Stages,
     head : Header, rows : RowTables, lines : Seq(Quantity),
     asked : Plans \cup Receipts, diff : SUBSET Columns,
     headSet : SUBSET Columns, headLock : BOOLEAN,
     rowsSet : [LineNos -> SUBSET Columns], locks : SUBSET LineNos,
     bill : Plans \cup Receipts \cup {<<>>}]

(* TransferTypeOK without StockLedger's part, and the requests.            *)
TransferShape ==
    /\ IsPartial(transfer, TransferIds, Header)
    /\ DOMAIN items = DOMAIN transfer
    /\ \A t \in DOMAIN items : DOMAIN items[t] # {} /\ items[t] \in RowTables
    /\ billed \in [TransferIds -> [LineNos -> Nat]]
    /\ overlapped \subseteq TransferIds
    /\ req \in [Workers -> RequestRecord \cup {NoRequest}]

InLine(r) == r.at \in {"loadRow", "writeRow", "balance"}
LinesDone(r) == r.at \in {"loadHead", "writeHead", "invoice", "commit"}

(* What a request's own fields say of it.                                  *)
DispatchRequest(r) ==
    /\ r.op = "dispatch" /\ r.at = "issue" /\ r.asked \in Plans
    /\ r.head = NewHeader /\ r.rows = NewItems(r.asked)

ReceiveRequest(r) ==
    /\ r.op = "receive" /\ r.at # "issue" /\ r.asked \in Receipts
    /\ r.at = "find" => r.lines = r.asked
    /\ Suffix(r.lines, r.asked)
    /\ InLine(r) => r.lines # <<>> /\ Head(r.lines).line \in DOMAIN r.rows
    /\ LinesDone(r) => r.lines = <<>>
    /\ r.at = "commit" => r.bill = r.asked

(* The rows of a receipt are the transfer's, but for what was received.    *)
RowsKnown(r) ==
    /\ r.transfer \in DOMAIN transfer
    /\ DOMAIN r.rows = DOMAIN items[r.transfer]
    /\ \A l \in DOMAIN r.rows :
         r.rows[l].dispatched = items[r.transfer][l].dispatched

(* A transfer that is being dispatched is not there for others.            *)
OwnTransfer(w) ==
    /\ req[w].transfer \notin DOMAIN transfer
    /\ \A v \in Workers \ {w} : ~On(v, req[w].transfer)

RequestsGrounded ==
    \A w \in Workers : ~Idle(w) =>
        \/ DispatchRequest(req[w]) /\ OwnTransfer(w)
        \/ ReceiveRequest(req[w]) /\ RowsKnown(req[w])

Unbilled == \A t \in TransferIds \ DOMAIN transfer : billed[t] = Zero(LineNos)

TransferInvariant == TransferShape /\ RequestsGrounded /\ Unbilled

USE DEF TransferShape, NoRequest, Idle, IsPartial

LEMMA TransferInitInvariant == TransferInit => TransferInvariant
  BY DEF TransferInit, TransferInvariant, RequestsGrounded, Unbilled, Zero

LEMMA BusyRecord ==
    ASSUME TransferShape, NEW w \in Workers, ~Idle(w)
    PROVE  req[w] \in RequestRecord /\ req[w].transfer \in TransferIds
  BY DEF RequestRecord

LEMMA RequestStep ==
    ASSUME TransferInvariant, NEW w \in Workers,
           UNCHANGED <<transfer, items, billed>>,
           overlapped' \subseteq TransferIds,
           NEW r, req' = [req EXCEPT ![w] = r],
           \/ r = NoRequest
           \/ /\ r \in RequestRecord
              /\ \/ /\ DispatchRequest(r) /\ r.transfer \notin DOMAIN transfer
                    /\ \A v \in Workers \ {w} : ~On(v, r.transfer)
                 \/ ReceiveRequest(r) /\ RowsKnown(r)
    PROVE  TransferInvariant'
  <1>1. req'[w] = r /\ \A v \in Workers \ {w} : req'[v] = req[v]
    BY DEF TransferInvariant
  <1>2. TransferShape'
    BY DEF TransferInvariant
  <1>3. ASSUME NEW v \in Workers \ {w}, ~Idle(v)'
        PROVE  \/ DispatchRequest(req[v])' /\ OwnTransfer(v)'
               \/ ReceiveRequest(req[v])' /\ RowsKnown(req[v])'
    <2>1. req'[v] = req[v] /\ ~Idle(v)
      BY <1>1, <1>3
    <2>2. CASE DispatchRequest(req[v]) /\ OwnTransfer(v)
      <3>1. ~On(w, req[v].transfer)'
        <4>1. CASE r = NoRequest
          BY <1>1, <4>1 DEF On
        <4>2. CASE r.transfer \notin DOMAIN transfer
                     /\ \A u \in Workers \ {w} : ~On(u, r.transfer)
          BY <1>1, <2>1, <4>2 DEF On
        <4>3. CASE RowsKnown(r)
          BY <1>1, <2>2, <4>3 DEF On, RowsKnown, OwnTransfer
        <4> QED
          BY <4>1, <4>2, <4>3
      <3>2. OwnTransfer(v)'
        BY <1>1, <2>1, <2>2, <3>1 DEF OwnTransfer, On
      <3> QED
        BY <2>1, <2>2, <3>2 DEF DispatchRequest
    <2>3. CASE ReceiveRequest(req[v]) /\ RowsKnown(req[v])
      BY <2>1, <2>3 DEF ReceiveRequest, RowsKnown, InLine, LinesDone
    <2> QED
      BY <2>1, <2>2, <2>3 DEF TransferInvariant, RequestsGrounded
  <1>4. ASSUME ~Idle(w)'
        PROVE  \/ DispatchRequest(req[w])' /\ OwnTransfer(w)'
               \/ ReceiveRequest(req[w])' /\ RowsKnown(req[w])'
    <2>1. r # NoRequest
      BY <1>1, <1>4
    <2>2. CASE /\ DispatchRequest(r) /\ r.transfer \notin DOMAIN transfer
               /\ \A v \in Workers \ {w} : ~On(v, r.transfer)
      BY <1>1, <2>2 DEF DispatchRequest, OwnTransfer, On
    <2>3. CASE ReceiveRequest(r) /\ RowsKnown(r)
      BY <1>1, <2>3 DEF ReceiveRequest, RowsKnown, InLine, LinesDone
    <2> QED
      BY <2>1, <2>2, <2>3
  <1>5. RequestsGrounded'
    BY <1>3, <1>4 DEF RequestsGrounded
  <1>6. Unbilled'
    BY DEF Unbilled, TransferInvariant
  <1> QED
    BY <1>2, <1>5, <1>6 DEF TransferInvariant

(* A line that is still to be received comes once.                         *)
LEMMA NextLine ==
    ASSUME NEW t \in LineLists, NEW s \in Seq(Quantity), Suffix(s, t), s # <<>>
    PROVE  /\ Tail(s) \in Seq(Quantity) /\ Suffix(Tail(s), t)
           /\ Head(s).line \in LineNos /\ Head(s).qty \in Nat \ {0}
           /\ Head(s).line \in LinesOf(t) /\ QtyOf(t, Head(s).line) = Head(s).qty
           /\ LinesOf(s) = LinesOf(Tail(s)) \cup {Head(s).line}
           /\ Head(s).line \notin LinesOf(Tail(s))
           /\ LinesOf(s) \subseteq LinesOf(t)
  <1>1. /\ t \in Seq(Quantity)
        /\ \A i, j \in DOMAIN t : t[i].line = t[j].line => i = j
    BY ListTypes DEF Quantity
  <1>2. /\ Tail(s) \in Seq(Quantity) /\ Suffix(Tail(s), t)
        /\ \E n \in DOMAIN t : Head(s) = t[n]
        /\ LinesOf(s) = LinesOf(Tail(s)) \cup {Head(s).line}
        /\ Head(s).line \notin LinesOf(Tail(s))
        /\ LinesOf(s) \subseteq LinesOf(t) /\ Head(s).line \in LinesOf(t)
    BY <1>1, FirstLineOnce
  <1>3. PICK n \in DOMAIN t : Head(s) = t[n]
    BY <1>2
  <1>4. /\ Head(s).line \in LineNos /\ Head(s).qty \in Nat \ {0}
        /\ QtyOf(t, Head(s).line) = Head(s).qty
    BY <1>3, ListTypes, QtyOfLine
  <1> QED
    BY <1>2, <1>4

LEMMA ListsAreLists ==
    ASSUME NEW s \in Plans \cup Receipts
    PROVE  s \in LineLists /\ s \in Seq(Quantity)
  BY TransferAssumption, ListTypes DEF Quantity

LEMMA NewRowsTypes ==
    ASSUME NEW plan \in Plans
    PROVE  /\ NewItems(plan) \in RowTables
           /\ DOMAIN NewItems(plan) = LinesOf(plan) /\ LinesOf(plan) # {}
           /\ \A l \in LinesOf(plan) :
                /\ NewItems(plan)[l].dispatched = QtyOf(plan, l)
                /\ NewItems(plan)[l].received = 0
  <1>1. /\ plan \in LineLists /\ LinesOf(plan) \subseteq LineNos
        /\ 1 \in DOMAIN plan
    BY TransferAssumption, ListTypes
  <1>2. \A l \in LinesOf(plan) : QtyOf(plan, l) \in Nat \ {0}
    BY <1>1, QtyOfTypes
  <1>3. NewItems(plan) = [l \in LinesOf(plan) |->
                            [dispatched |-> QtyOf(plan, l), received |-> 0]]
    BY DEF NewItems, LinesOf
  <1>4. NewItems(plan) \in [LinesOf(plan) -> Item]
    BY <1>2, <1>3 DEF Item
  <1>5. plan[1].line \in LinesOf(plan)
    BY <1>1 DEF LinesOf
  <1> QED
    BY <1>1, <1>3, <1>4, <1>5 DEF RowTables

LEMMA RowTypes ==
    ASSUME NEW rows \in RowTables
    PROVE  /\ DOMAIN rows \subseteq LineNos /\ rows \in [DOMAIN rows -> Item]
           /\ \A l \in DOMAIN rows :
                /\ rows[l] \in Item /\ DOMAIN rows[l] = {"dispatched", "received"}
                /\ rows[l].dispatched \in Nat \ {0} /\ rows[l].received \in Nat
  BY DEF RowTables, Item

LEMMA OpenInvariant ==
    ASSUME TransferInvariant, NEW w \in Workers, Open(w)
    PROVE  TransferInvariant'
  <1>1. ASSUME NEW t \in TransferIds, NEW plan \in Plans,
               OpenDispatch(w, t, plan)
        PROVE  TransferInvariant'
    <2> DEFINE r == Request("dispatch", t, "issue", NewHeader, NewItems(plan), plan)
    <2>1. /\ req' = [req EXCEPT ![w] = r] /\ t \notin DOMAIN transfer
          /\ \A v \in Workers : ~On(v, t)
          /\ UNCHANGED <<transfer, items, billed, overlapped>>
      BY <1>1 DEF OpenDispatch
    <2>2. /\ NewHeader \in Header /\ NewItems(plan) \in RowTables
          /\ plan \in Seq(Quantity)
      BY NewRowsTypes, ListsAreLists DEF NewHeader, Header
    <2>3. r \in RequestRecord /\ r.transfer = t /\ DispatchRequest(r)
      <3>1. r \in RequestRecord
        BY <2>2 DEF Request, RequestRecord, Stages
      <3> QED
        BY <3>1 DEF Request, DispatchRequest
    <2>4. overlapped' \subseteq TransferIds
      BY <2>1 DEF TransferInvariant
    <2> HIDE DEF r
    <2> QED
      BY <2>1, <2>3, <2>4, RequestStep
  <1>2. ASSUME NEW t \in DOMAIN transfer, NEW receipt \in Receipts,
               OpenReceive(w, t, receipt)
        PROVE  TransferInvariant'
    <2> DEFINE r == Request("receive", t, "find", transfer[t], items[t], receipt)
    <2>1. /\ req' = [req EXCEPT ![w] = r] /\ t \in TransferIds
          /\ UNCHANGED <<transfer, items, billed>>
          /\ overlapped' \subseteq TransferIds
      BY <1>2 DEF OpenReceive, TransferInvariant
    <2>2. /\ transfer[t] \in Header /\ items[t] \in RowTables
          /\ receipt \in Seq(Quantity) /\ Suffix(receipt, receipt)
      BY ListsAreLists, SuffixOfItself DEF TransferInvariant
    <2>3. r \in RequestRecord /\ r.transfer = t /\ ReceiveRequest(r)
      <3>1. r \in RequestRecord
        BY <2>1, <2>2 DEF Request, RequestRecord, Stages
      <3> QED
        BY <2>2, <3>1 DEF Request, ReceiveRequest, InLine, LinesDone
    <2>4. RowsKnown(r)
      BY DEF Request, RowsKnown, TransferInvariant
    <2> HIDE DEF r
    <2> QED
      BY <2>1, <2>3, <2>4, RequestStep
  <1> QED
    BY <1>1, <1>2 DEF Open

(* The steps of a request that leave the tables alone.                     *)
Quiet(w) ==
    \/ IssueStatement(w) \/ FindItems(w) \/ ReceiveLine(w) \/ LoadRow(w)
    \/ WriteRow(w) \/ BalanceStatement(w) \/ Refresh(w) \/ LoadHead(w)
    \/ WriteHead(w) \/ InsertInvoice(w) \/ Abandon(w) \/ BreakDeadlock(w)

(* A receipt in progress.                                                  *)
LEMMA ReceiptFacts ==
    ASSUME TransferInvariant, NEW w \in Workers, ~Idle(w), req[w].at # "issue"
    PROVE  /\ ReceiveRequest(req[w]) /\ RowsKnown(req[w])
           /\ req[w] \in RequestRecord /\ req[w].lines \in Seq(Quantity)
           /\ req[w].rows \in RowTables /\ req[w].head \in Header
           /\ req[w].transfer \in DOMAIN transfer
           /\ items[req[w].transfer] \in RowTables
           /\ transfer[req[w].transfer] \in Header
           /\ req[w].asked \in Receipts /\ req[w].asked \in LineLists
           /\ DOMAIN req[w].rows = DOMAIN items[req[w].transfer]
  <1>1. ReceiveRequest(req[w]) /\ RowsKnown(req[w])
    BY DEF TransferInvariant, RequestsGrounded, DispatchRequest
  <1>2. req[w] \in RequestRecord
    BY BusyRecord DEF TransferInvariant
  <1>3. /\ req[w].lines \in Seq(Quantity) /\ req[w].rows \in RowTables
        /\ req[w].head \in Header
    BY <1>2 DEF RequestRecord
  <1>4. /\ req[w].transfer \in DOMAIN transfer /\ req[w].asked \in Receipts
        /\ DOMAIN req[w].rows = DOMAIN items[req[w].transfer]
    BY <1>1 DEF ReceiveRequest, RowsKnown
  <1>5. /\ items[req[w].transfer] \in RowTables
        /\ transfer[req[w].transfer] \in Header
    BY <1>4 DEF TransferInvariant
  <1>6. req[w].asked \in LineLists
    BY <1>4, ListsAreLists
  <1> QED
    BY <1>1, <1>2, <1>3, <1>4, <1>5, <1>6

LEMMA QuietInvariant ==
    ASSUME TransferInvariant, NEW w \in Workers, Quiet(w)
    PROVE  TransferInvariant'
  <1>1. /\ UNCHANGED <<transfer, items, billed>> /\ overlapped' = overlapped
        /\ ~Idle(w) /\ overlapped' \subseteq TransferIds
        /\ req \in [Workers -> RequestRecord \cup {NoRequest}]
    BY DEF Quiet, IssueStatement, FindItems, ReceiveLine, LoadRow, WriteRow,
       BalanceStatement, Refresh, LoadHead, WriteHead, InsertInvoice, Abandon,
       BreakDeadlock, At, TransferInvariant
  <1>2. CASE req' = [req EXCEPT ![w] = NoRequest]
    BY <1>1, <1>2, RequestStep
  <1>3. CASE req' = req
    BY <1>1, <1>3 DEF TransferInvariant, RequestsGrounded, Unbilled,
       DispatchRequest, OwnTransfer, On, ReceiveRequest, RowsKnown, InLine,
       LinesDone
  <1>4. CASE FindItems(w)
    <2> DEFINE r == [req[w] EXCEPT !.rows = items[req[w].transfer],
                                   !.at = "receive"]
    <2>1. req[w].at = "find"
      BY <1>4 DEF FindItems, At
    <2>2. ReceiveRequest(req[w]) /\ RowsKnown(req[w]) /\ req[w] \in RequestRecord
          /\ items[req[w].transfer] \in RowTables
      BY <1>1, <2>1, ReceiptFacts
    <2>3. CASE req' = [req EXCEPT ![w] = r]
      <3>1. r \in RequestRecord /\ ReceiveRequest(r)
        BY <2>1, <2>2 DEF RequestRecord, Stages, ReceiveRequest, InLine, LinesDone
      <3>2. RowsKnown(r)
        BY <2>2 DEF RequestRecord, RowsKnown
      <3> HIDE DEF r
      <3> QED
        BY <1>1, <2>3, <3>1, <3>2, RequestStep
    <2> QED
      BY <1>1, <1>2, <1>4, <2>2, <2>3 DEF FindItems, End, RequestRecord
  <1>5. CASE ReceiveLine(w)
    <2> DEFINE line == Head(req[w].lines)
               l == line.line
               row == [req[w].rows[l] EXCEPT !.received = @ + line.qty]
               rows == [req[w].rows EXCEPT ![l] = row]
               r == [req[w] EXCEPT !.rows = rows, !.at = "loadRow"]
    <2>1. req[w].at = "receive" /\ req[w].lines # <<>>
      BY <1>5 DEF ReceiveLine, At
    <2>2. /\ ReceiveRequest(req[w]) /\ RowsKnown(req[w]) /\ req[w] \in RequestRecord
          /\ req[w].rows \in RowTables /\ req[w].lines \in Seq(Quantity)
          /\ req[w].asked \in LineLists
      BY <1>1, <2>1, ReceiptFacts
    <2>3. line.qty \in Nat
      BY <2>1, <2>2, NextLine DEF ReceiveRequest
    <2>4. CASE req' = [req EXCEPT ![w].rows[l].received = @ + line.qty,
                                  ![w].at = "loadRow"]
               /\ l \in DOMAIN req[w].rows
      <3>1. req' = [req EXCEPT ![w] = r]
        BY <1>1, <2>2, <2>4 DEF RequestRecord
      <3>2. /\ rows \in RowTables /\ DOMAIN rows = DOMAIN req[w].rows
            /\ \A m \in DOMAIN rows :
                 rows[m].dispatched = req[w].rows[m].dispatched
        <4>1. row \in Item /\ row.dispatched = req[w].rows[l].dispatched
          <5>1. req[w].rows[l] \in Item
            BY <2>2, <2>4, RowTypes
          <5>2. line.qty \in Nat
            BY <2>3
          <5> HIDE DEF l, line
          <5> QED
            BY <5>1, <5>2 DEF Item
        <4> HIDE DEF row
        <4> QED
          BY <2>2, <2>4, <4>1 DEF RowTables
      <3> HIDE DEF rows
      <3>3. r \in RequestRecord /\ ReceiveRequest(r)
        BY <2>1, <2>2, <2>4, <3>2
        DEF RequestRecord, Stages, ReceiveRequest, InLine, LinesDone
      <3>4. RowsKnown(r)
        BY <2>2, <3>2 DEF RequestRecord, RowsKnown
      <3> HIDE DEF r
      <3> QED
        BY <1>1, <3>1, <3>3, <3>4, RequestStep
    <2> QED
      BY <1>2, <1>5, <2>4 DEF ReceiveLine, End
  <1>6. CASE LoadRow(w)
    <2> DEFINE l == Head(req[w].lines).line
               diff == {"received"} \cup
                         Differing(req[w].rows[l], items[req[w].transfer][l])
               r == [req[w] EXCEPT !.diff = diff, !.at = "writeRow"]
    <2>1. req[w].at = "loadRow"
      BY <1>6 DEF LoadRow, At
    <2>2. /\ ReceiveRequest(req[w]) /\ RowsKnown(req[w]) /\ req[w] \in RequestRecord
          /\ items[req[w].transfer] \in RowTables
          /\ DOMAIN req[w].rows = DOMAIN items[req[w].transfer]
      BY <1>1, <2>1, ReceiptFacts
    <2>3. l \in DOMAIN items[req[w].transfer]
      BY <2>1, <2>2 DEF ReceiveRequest, InLine
    <2>4. diff \subseteq Columns
      <3>1. DOMAIN items[req[w].transfer][l] = {"dispatched", "received"}
        BY <2>2, <2>3, RowTypes
      <3> QED
        BY <3>1 DEF Differing, Columns
    <2>5. req' = [req EXCEPT ![w] = r]
      BY <1>1, <1>6, <2>2 DEF LoadRow, RequestRecord
    <2> HIDE DEF diff, l
    <2>6. r \in RequestRecord /\ ReceiveRequest(r)
      BY <2>1, <2>2, <2>4
      DEF RequestRecord, Stages, ReceiveRequest, InLine, LinesDone
    <2>7. RowsKnown(r)
      BY <2>2 DEF RequestRecord, RowsKnown
    <2> HIDE DEF r
    <2> QED
      BY <1>1, <2>5, <2>6, <2>7, RequestStep
  <1>7. CASE WriteRow(w)
    <2> DEFINE l == Head(req[w].lines).line
               set == [req[w].rowsSet EXCEPT ![l] = req[w].diff]
               r == [req[w] EXCEPT !.rowsSet = set, !.diff = {},
                                   !.locks = @ \cup {l}, !.at = "balance"]
    <2>1. req[w].at = "writeRow"
      BY <1>7 DEF WriteRow, At
    <2>2. /\ ReceiveRequest(req[w]) /\ RowsKnown(req[w]) /\ req[w] \in RequestRecord
          /\ req[w].rows \in RowTables
      BY <1>1, <2>1, ReceiptFacts
    <2>3. l \in LineNos
      <3>1. l \in DOMAIN req[w].rows
        BY <2>1, <2>2 DEF ReceiveRequest, InLine
      <3> QED
        BY <2>2, <3>1, RowTypes
    <2>4. set \in [LineNos -> SUBSET Columns] /\ req[w].locks \cup {l} \subseteq LineNos
      BY <2>2, <2>3 DEF RequestRecord
    <2>5. req' = [req EXCEPT ![w] = r]
      BY <1>1, <1>7, <2>2 DEF WriteRow, RequestRecord
    <2> HIDE DEF set, l
    <2>6. r \in RequestRecord /\ ReceiveRequest(r)
      BY <2>1, <2>2, <2>4
      DEF RequestRecord, Stages, ReceiveRequest, InLine, LinesDone
    <2>7. RowsKnown(r)
      BY <2>2 DEF RequestRecord, RowsKnown
    <2> HIDE DEF r
    <2> QED
      BY <1>1, <2>5, <2>6, <2>7, RequestStep
  <1>8. CASE BalanceStatement(w)
    <2> DEFINE r == [req[w] EXCEPT !.lines = Tail(@), !.at = "receive"]
    <2>1. req[w].at = "balance"
      BY <1>8 DEF BalanceStatement, At
    <2>2. /\ ReceiveRequest(req[w]) /\ RowsKnown(req[w]) /\ req[w] \in RequestRecord
          /\ req[w].lines \in Seq(Quantity) /\ req[w].asked \in LineLists
      BY <1>1, <2>1, ReceiptFacts
    <2>3. Tail(req[w].lines) \in Seq(Quantity) /\ Suffix(Tail(req[w].lines), req[w].asked)
      BY <2>1, <2>2, NextLine DEF ReceiveRequest, InLine
    <2>4. CASE req' = [req EXCEPT ![w].lines = Tail(@), ![w].at = "receive"]
      <3>1. req' = [req EXCEPT ![w] = r]
        BY <1>1, <2>2, <2>4 DEF RequestRecord
      <3>2. r \in RequestRecord /\ ReceiveRequest(r)
        BY <2>1, <2>2, <2>3
        DEF RequestRecord, Stages, ReceiveRequest, InLine, LinesDone
      <3>3. RowsKnown(r)
        BY <2>2 DEF RequestRecord, RowsKnown
      <3> HIDE DEF r
      <3> QED
        BY <1>1, <3>1, <3>2, <3>3, RequestStep
    <2> QED
      BY <1>2, <1>3, <1>8, <2>4 DEF BalanceStatement
  <1>9. CASE Refresh(w)
    <2> DEFINE head == WithStatus(req[w].head, RowsSeen(w))
               r == [req[w] EXCEPT !.head = head, !.at = "loadHead"]
    <2>1. req[w].at = "receive" /\ req[w].lines = <<>>
      BY <1>9 DEF Refresh, At
    <2>2. /\ ReceiveRequest(req[w]) /\ RowsKnown(req[w]) /\ req[w] \in RequestRecord
          /\ req[w].head \in Header
      BY <1>1, <2>1, ReceiptFacts
    <2>3. head \in Header
      BY <2>2 DEF WithStatus, Header
    <2>4. req' = [req EXCEPT ![w] = r]
      BY <1>1, <1>9, <2>2 DEF Refresh, RequestRecord
    <2> HIDE DEF head
    <2>5. r \in RequestRecord /\ ReceiveRequest(r)
      BY <2>1, <2>2, <2>3
      DEF RequestRecord, Stages, ReceiveRequest, InLine, LinesDone
    <2>6. RowsKnown(r)
      BY <2>2 DEF RequestRecord, RowsKnown
    <2> HIDE DEF r
    <2> QED
      BY <1>1, <2>4, <2>5, <2>6, RequestStep
  <1>10. CASE LoadHead(w)
    <2> DEFINE diff == Differing(req[w].head, transfer[req[w].transfer])
               r == [req[w] EXCEPT !.diff = diff, !.at = "writeHead"]
    <2>1. req[w].at = "loadHead"
      BY <1>10 DEF LoadHead, At
    <2>2. /\ ReceiveRequest(req[w]) /\ RowsKnown(req[w]) /\ req[w] \in RequestRecord
          /\ transfer[req[w].transfer] \in Header
      BY <1>1, <2>1, ReceiptFacts
    <2>3. diff \subseteq Columns
      BY <2>2 DEF Differing, Header, Columns
    <2>4. req' = [req EXCEPT ![w] = r]
      BY <1>1, <1>10, <2>2 DEF LoadHead, RequestRecord
    <2> HIDE DEF diff
    <2>5. r \in RequestRecord /\ ReceiveRequest(r)
      BY <2>1, <2>2, <2>3
      DEF RequestRecord, Stages, ReceiveRequest, InLine, LinesDone
    <2>6. RowsKnown(r)
      BY <2>2 DEF RequestRecord, RowsKnown
    <2> HIDE DEF r
    <2> QED
      BY <1>1, <2>4, <2>5, <2>6, RequestStep
  <1>11. CASE WriteHead(w) \/ InsertInvoice(w)
    <2> DEFINE r == IF req[w].at = "writeHead"
                    THEN [req[w] EXCEPT !.headSet = req[w].diff, !.diff = {},
                                        !.headLock = TRUE, !.at = "invoice"]
                    ELSE [req[w] EXCEPT !.bill = req[w].asked, !.at = "commit"]
    <2>1. req[w].at \in {"writeHead", "invoice"}
      BY <1>11 DEF WriteHead, InsertInvoice, At
    <2>2. ReceiveRequest(req[w]) /\ RowsKnown(req[w]) /\ req[w] \in RequestRecord
      BY <1>1, <2>1, ReceiptFacts
    <2>3. req' = [req EXCEPT ![w] = r]
      BY <1>1, <1>11, <2>2 DEF WriteHead, InsertInvoice, At, RequestRecord
    <2>4. r \in RequestRecord /\ ReceiveRequest(r)
      BY <2>1, <2>2 DEF RequestRecord, Stages, ReceiveRequest, InLine, LinesDone
    <2>5. RowsKnown(r)
      BY <2>2 DEF RequestRecord, RowsKnown
    <2> HIDE DEF r
    <2> QED
      BY <1>1, <2>3, <2>4, <2>5, RequestStep
  <1> QED
    BY <1>1, <1>2, <1>3, <1>4, <1>5, <1>6, <1>7, <1>8, <1>9, <1>10, <1>11
    DEF Quiet, IssueStatement, Abandon, BreakDeadlock, End

(* What a receipt's transaction sees of the rows: the quantity received is *)
(* the table's or its own, the rest is as it was dispatched.               *)
LEMMA RowsSeenTypes ==
    ASSUME TransferInvariant, NEW w \in Workers, ~Idle(w), req[w].at # "issue"
    PROVE  /\ RowsSeen(w) \in RowTables
           /\ DOMAIN RowsSeen(w) = DOMAIN items[req[w].transfer]
           /\ \A l \in DOMAIN RowsSeen(w) :
                /\ RowsSeen(w)[l].dispatched = items[req[w].transfer][l].dispatched
                /\ RowsSeen(w)[l].received =
                     IF "received" \in req[w].rowsSet[l]
                     THEN req[w].rows[l].received
                     ELSE items[req[w].transfer][l].received
  <1> DEFINE r == req[w]
             now == items[r.transfer]
  <1>1. /\ r.rows \in RowTables /\ now \in RowTables /\ DOMAIN r.rows = DOMAIN now
        /\ RowsKnown(r)
    BY ReceiptFacts
  <1>2. RowsSeen(w) = [l \in DOMAIN now |-> Overlay(now[l], r.rows[l], r.rowsSet[l])]
    BY DEF RowsSeen
  <1>3. ASSUME NEW l \in DOMAIN now
        PROVE  /\ Overlay(now[l], r.rows[l], r.rowsSet[l]) \in Item
               /\ Overlay(now[l], r.rows[l], r.rowsSet[l]).dispatched = now[l].dispatched
               /\ Overlay(now[l], r.rows[l], r.rowsSet[l]).received =
                     IF "received" \in r.rowsSet[l] THEN r.rows[l].received
                                                    ELSE now[l].received
    <2> DEFINE old == now[l]
               new == r.rows[l]
               set == r.rowsSet[l]
    <2>1. /\ old \in Item /\ new \in Item /\ new.dispatched = old.dispatched
          /\ DOMAIN old = {"dispatched", "received"}
      BY <1>1, RowTypes DEF RowsKnown
    <2> HIDE DEF old, new, set
    <2>2. Overlay(old, new, set)
            = [c \in {"dispatched", "received"} |-> IF c \in set THEN new[c] ELSE old[c]]
      BY <2>1 DEF Overlay
    <2>3. /\ Overlay(old, new, set).dispatched = old.dispatched
          /\ Overlay(old, new, set).received
               = IF "received" \in set THEN new.received ELSE old.received
      BY <2>1, <2>2
    <2>4. Overlay(old, new, set)
            = [dispatched |-> old.dispatched,
               received |-> IF "received" \in set THEN new.received ELSE old.received]
      BY <2>1, <2>2
    <2>5. Overlay(old, new, set) \in Item
      BY <2>1, <2>4 DEF Item
    <2> QED
      BY <2>3, <2>5 DEF old, new, set
  <1> HIDE DEF now
  <1>4. DOMAIN RowsSeen(w) = DOMAIN now /\ RowsSeen(w) \in [DOMAIN now -> Item]
    BY <1>2, <1>3
  <1>5. RowsSeen(w) \in RowTables
    BY <1>1, <1>4, RowTypes DEF RowTables
  <1> QED
    BY <1>2, <1>3, <1>4, <1>5 DEF now

LEMMA CommitReceiveInvariant ==
    ASSUME TransferInvariant, NEW w \in Workers, CommitReceive(w)
    PROVE  TransferInvariant'
  <1> DEFINE r == req[w]
             t == r.transfer
             head == Overlay(transfer[t], r.head, r.headSet)
             seen == RowsSeen(w)
             bills == [l \in LineNos |-> billed[t][l] + QtyOf(r.bill, l)]
  <1>1. /\ ~Idle(w) /\ r.at = "commit"
        /\ transfer' = [transfer EXCEPT ![t] = head]
        /\ items' = [items EXCEPT ![t] = seen]
        /\ billed' = [billed EXCEPT ![t] = bills]
        /\ req' = [req EXCEPT ![w] = NoRequest]
        /\ overlapped' = overlapped
    BY DEF CommitReceive, At, End
  <1>2. /\ ReceiveRequest(r) /\ t \in DOMAIN transfer /\ t \in TransferIds
        /\ r.head \in Header /\ transfer[t] \in Header
        /\ r.asked \in LineLists /\ r.bill = r.asked
    BY <1>1, ReceiptFacts DEF TransferInvariant, ReceiveRequest
  <1>3. /\ seen \in RowTables /\ DOMAIN seen = DOMAIN items[t]
        /\ \A l \in DOMAIN seen : seen[l].dispatched = items[t][l].dispatched
    BY <1>1, RowsSeenTypes
  <1>4. head \in Header
    <2> DEFINE old == transfer[t]
               new == r.head
               set == r.headSet
    <2>1. old \in Header /\ new \in Header
      BY <1>2
    <2> HIDE DEF old, new, set
    <2>2. Overlay(old, new, set)
            = [status |-> IF "status" \in set THEN new.status ELSE old.status,
               receivedAt |-> IF "receivedAt" \in set THEN new.receivedAt
                                                      ELSE old.receivedAt]
      BY <2>1 DEF Overlay, Header
    <2>3. Overlay(old, new, set) \in Header
      BY <2>1, <2>2 DEF Header
    <2> QED
      BY <2>3 DEF old, new, set
  <1>5. bills \in [LineNos -> Nat]
    <2>1. \A l \in LineNos : billed[t][l] \in Nat /\ QtyOf(r.bill, l) \in Nat
      BY <1>2, QtyOfTypes DEF TransferInvariant
    <2> QED
      BY <2>1
  <1>6. req'[w] = NoRequest /\ \A v \in Workers \ {w} : req'[v] = req[v]
    BY <1>1 DEF TransferInvariant
  <1> HIDE DEF head, seen, bills
  <1>7. TransferShape'
    <2>1. items' = [items EXCEPT ![t] = seen] /\ t \in DOMAIN items
      BY <1>1, <1>2 DEF TransferInvariant
    <2>2. \A u \in DOMAIN items' : DOMAIN items'[u] # {} /\ items'[u] \in RowTables
      BY <1>2, <1>3, <2>1 DEF TransferInvariant
    <2>3. DOMAIN items' = DOMAIN transfer' /\ IsPartial(transfer', TransferIds, Header)
      BY <1>1, <1>2, <1>4, <2>1 DEF TransferInvariant
    <2>4. billed' \in [TransferIds -> [LineNos -> Nat]]
      BY <1>1, <1>2, <1>5 DEF TransferInvariant
    <2>5. req' \in [Workers -> RequestRecord \cup {NoRequest}]
      BY <1>1 DEF TransferInvariant
    <2> QED
      BY <1>1, <2>2, <2>3, <2>4, <2>5 DEF TransferInvariant
  <1>8. ASSUME NEW v \in Workers, ~Idle(v)'
        PROVE  \/ DispatchRequest(req[v])' /\ OwnTransfer(v)'
               \/ ReceiveRequest(req[v])' /\ RowsKnown(req[v])'
    <2>1. v \in Workers \ {w} /\ req'[v] = req[v] /\ ~Idle(v)
      BY <1>6, <1>8
    <2>2. CASE DispatchRequest(req[v]) /\ OwnTransfer(v)
      <3>1. OwnTransfer(v)'
        BY <1>1, <1>6, <2>1, <2>2 DEF OwnTransfer, On
      <3> QED
        BY <2>1, <2>2, <3>1 DEF DispatchRequest
    <2>3. CASE ReceiveRequest(req[v]) /\ RowsKnown(req[v])
      <3>1. /\ DOMAIN items' = DOMAIN items /\ DOMAIN transfer' = DOMAIN transfer
            /\ \A u \in DOMAIN items :
                 /\ DOMAIN items'[u] = DOMAIN items[u]
                 /\ \A l \in DOMAIN items[u] :
                      items'[u][l].dispatched = items[u][l].dispatched
        BY <1>1, <1>3
      <3>2. RowsKnown(req[v])'
        <4> DEFINE u == req[v].transfer
        <4>1. u \in DOMAIN transfer /\ u \in DOMAIN items
          BY <2>3 DEF RowsKnown, TransferInvariant
        <4>2. /\ DOMAIN items'[u] = DOMAIN items[u]
              /\ \A l \in DOMAIN items[u] :
                   items'[u][l].dispatched = items[u][l].dispatched
          BY <3>1, <4>1
        <4>3. req'[v].transfer = u /\ req'[v].rows = req[v].rows
          BY <2>1
        <4>4. /\ DOMAIN req[v].rows = DOMAIN items[u]
              /\ \A l \in DOMAIN req[v].rows :
                   req[v].rows[l].dispatched = items[u][l].dispatched
          BY <2>3 DEF RowsKnown
        <4> HIDE DEF u
        <4> QED
          BY <3>1, <4>1, <4>2, <4>3, <4>4 DEF RowsKnown
      <3> QED
        BY <2>1, <2>3, <3>2 DEF ReceiveRequest, InLine, LinesDone
    <2> QED
      BY <2>1, <2>2, <2>3 DEF TransferInvariant, RequestsGrounded
  <1>9. RequestsGrounded'
    BY <1>8 DEF RequestsGrounded
  <1>10. Unbilled'
    BY <1>1, <1>2 DEF Unbilled, TransferInvariant
  <1> QED
    BY <1>7, <1>9, <1>10 DEF TransferInvariant

LEMMA CommitDispatchInvariant ==
    ASSUME TransferInvariant, NEW w \in Workers, CommitDispatch(w)
    PROVE  TransferInvariant'
  <1> DEFINE r == req[w]
             t == r.transfer
  <1>1. /\ ~Idle(w) /\ r.at = "issue"
        /\ transfer' = [u \in DOMAIN transfer \cup {t} |->
                          IF u = t THEN r.head ELSE transfer[u]]
        /\ items' = [u \in DOMAIN items \cup {t} |->
                       IF u = t THEN r.rows ELSE items[u]]
        /\ req' = [req EXCEPT ![w] = NoRequest]
        /\ billed' = billed /\ overlapped' = overlapped
    BY DEF CommitDispatch, At, End
  <1>2. /\ DispatchRequest(r) /\ OwnTransfer(w) /\ t \in TransferIds
        /\ r \in RequestRecord
    BY <1>1, BusyRecord DEF TransferInvariant, RequestsGrounded, ReceiveRequest
  <1>3. /\ r.head \in Header /\ r.rows \in RowTables /\ DOMAIN r.rows # {}
        /\ t \notin DOMAIN transfer /\ \A v \in Workers \ {w} : ~On(v, t)
    BY <1>2, NewRowsTypes DEF RequestRecord, DispatchRequest, OwnTransfer
  <1>4. req'[w] = NoRequest /\ \A v \in Workers \ {w} : req'[v] = req[v]
    BY <1>1 DEF TransferInvariant
  <1>5. TransferShape'
    <2>1. \A u \in DOMAIN items' : DOMAIN items'[u] # {} /\ items'[u] \in RowTables
      BY <1>1, <1>3 DEF TransferInvariant
    <2>2. DOMAIN items' = DOMAIN transfer' /\ IsPartial(transfer', TransferIds, Header)
      BY <1>1, <1>2, <1>3 DEF TransferInvariant
    <2>3. req' \in [Workers -> RequestRecord \cup {NoRequest}]
      BY <1>1 DEF TransferInvariant
    <2> QED
      BY <1>1, <2>1, <2>2, <2>3 DEF TransferInvariant
  <1>6. ASSUME NEW v \in Workers, ~Idle(v)'
        PROVE  \/ DispatchRequest(req[v])' /\ OwnTransfer(v)'
               \/ ReceiveRequest(req[v])' /\ RowsKnown(req[v])'
    <2>1. v \in Workers \ {w} /\ req'[v] = req[v] /\ ~Idle(v) /\ req[v].transfer # t
      BY <1>3, <1>4, <1>6 DEF On
    <2>2. CASE DispatchRequest(req[v]) /\ OwnTransfer(v)
      <3>1. OwnTransfer(v)'
        BY <1>1, <1>4, <2>1, <2>2 DEF OwnTransfer, On
      <3> QED
        BY <2>1, <2>2, <3>1 DEF DispatchRequest
    <2>3. CASE ReceiveRequest(req[v]) /\ RowsKnown(req[v])
      <3>1. /\ items'[req[v].transfer] = items[req[v].transfer]
            /\ req[v].transfer \in DOMAIN transfer'
        BY <1>1, <2>1, <2>3 DEF RowsKnown, TransferInvariant
      <3>2. RowsKnown(req[v])'
        BY <2>1, <2>3, <3>1 DEF RowsKnown
      <3> QED
        BY <2>1, <2>3, <3>2 DEF ReceiveRequest, InLine, LinesDone
    <2> QED
      BY <2>1, <2>2, <2>3 DEF TransferInvariant, RequestsGrounded
  <1>7. RequestsGrounded'
    BY <1>6 DEF RequestsGrounded
  <1>8. Unbilled'
    BY <1>1 DEF Unbilled, TransferInvariant
  <1> QED
    BY <1>5, <1>7, <1>8 DEF TransferInvariant

LEMMA TransferNextInvariant ==
    TransferInvariant /\ [TransferNext]_vars => TransferInvariant'
  <1> SUFFICES ASSUME TransferInvariant, [TransferNext]_vars
               PROVE  TransferInvariant'
    OBVIOUS
  <1>1. ASSUME NEW w \in Workers, Open(w)
        PROVE  TransferInvariant'
    BY <1>1, OpenInvariant
  <1>2. ASSUME NEW w \in Workers, Proceed(w)
        PROVE  TransferInvariant'
    BY <1>2, QuietInvariant, CommitDispatchInvariant, CommitReceiveInvariant
    DEF Proceed, Quiet
  <1>3. ASSUME NEW w \in Workers, Abandon(w) \/ BreakDeadlock(w)
        PROVE  TransferInvariant'
    BY <1>3, QuietInvariant DEF Quiet
  <1>4. CASE UNCHANGED vars
    BY <1>4 DEF vars, transferVars, TransferInvariant, RequestsGrounded,
       Unbilled, DispatchRequest, OwnTransfer, On, ReceiveRequest, RowsKnown,
       InLine, LinesDone
  <1> QED
    BY <1>1, <1>2, <1>3, <1>4 DEF TransferNext

LEMMA TransferInvariantHolds == TransferSpec => []TransferInvariant
  BY TransferInitInvariant, TransferNextInvariant, PTL DEF TransferSpec
----------------------------------------------------------------------------
(* Stock.                                                                  *)

LEMMA MovesAreRequests ==
    /\ \A plan \in Plans : Dispatched(plan) \in Requests
    /\ \A receipt \in Receipts : BroughtIn(receipt) \in Requests
  BY PostingsAssumption

(* A request is inside its transaction from the first statement after its  *)
(* look-ups to its end.                                                    *)
InTransaction(w) == ~Idle(w) /\ req[w].at # "find"

TransactionsMatch ==
    DOMAIN pc = Workers /\ \A w \in Workers : InTransaction(w) <=> pc[w] # "idle"

(* The line in work fits its row: ReceiveLine adds it to the copy.         *)
LineReceived(w) ==
    req' = [req EXCEPT
              ![w].rows[Head(req[w].lines).line].received = @ + Head(req[w].lines).qty,
              ![w].at = "loadRow"]
LineTaken(w) ==
    LET r == req[w]
        line == Head(r.lines)
    IN  /\ line.line \in DOMAIN r.rows /\ Fits(r.rows[line.line], line.qty)
        /\ InsertLot(w) /\ LineReceived(w)

LEMMA ReceiveLineIs ==
    ASSUME NEW w \in Workers, ReceiveLine(w)
    PROVE  /\ ~Idle(w) /\ req[w].at = "receive" /\ req[w].lines # <<>>
           /\ transfer' = transfer /\ items' = items /\ billed' = billed
           /\ overlapped' = overlapped
           /\ (Rollback(w) /\ End(w)) \/ LineTaken(w)
  BY Zenon DEF ReceiveLine, LineTaken, LineReceived, At

LEMMA LineReceivedIs ==
    ASSUME NEW w \in Workers, LineReceived(w), req[w] \in RequestRecord,
           DOMAIN req = Workers
    PROVE  /\ DOMAIN req' = Workers /\ \A v \in Workers \ {w} : req'[v] = req[v]
           /\ req'[w].at = "loadRow"
           /\ \A f \in DOMAIN req[w] \ {"rows", "at"} : req'[w][f] = req[w][f]
  BY Zenon DEF LineReceived, RequestRecord

LEMMA LineReceivedColumns ==
    ASSUME NEW w \in Workers, LineReceived(w), req[w] \in RequestRecord,
           DOMAIN req = Workers
    PROVE  /\ req'[w].op = req[w].op /\ req'[w].transfer = req[w].transfer
           /\ req'[w].asked = req[w].asked /\ req'[w].lines = req[w].lines
           /\ req'[w].head = req[w].head /\ req'[w].headSet = req[w].headSet
           /\ req'[w].rowsSet = req[w].rowsSet
  BY LineReceivedIs, Zenon DEF RequestRecord

LEMMA LineReceivedRows ==
    ASSUME NEW w \in Workers, LineReceived(w), req[w] \in RequestRecord,
           DOMAIN req = Workers, NEW l, l = Head(req[w].lines).line,
           l \in DOMAIN req[w].rows
    PROVE  /\ DOMAIN req'[w].rows = DOMAIN req[w].rows
           /\ \A m \in DOMAIN req[w].rows \ {l} : req'[w].rows[m] = req[w].rows[m]
           /\ req'[w].rows[l] = [req[w].rows[l] EXCEPT !.received = @ + Head(req[w].lines).qty]
  BY Zenon DEF LineReceived, RequestRecord

LEMMA InitTransactions == TransferInit => TransactionsMatch
  BY DEF TransferInit, StockInit, TransactionsMatch, InTransaction

LEMMA NextTransactions ==
    TransferInvariant /\ TransactionsMatch /\ [TransferNext]_vars
      => TransactionsMatch'
  <1> SUFFICES ASSUME TransferInvariant, TransactionsMatch, [TransferNext]_vars
               PROVE  TransactionsMatch'
    OBVIOUS
  <1> USE DEF TransactionsMatch, InTransaction
  <1>1. req \in [Workers -> RequestRecord \cup {NoRequest}]
    BY DEF TransferInvariant
  <1>2. CASE UNCHANGED vars
    BY <1>2 DEF vars, stockVars, transferVars
  <1>3. ASSUME NEW w \in Workers, Open(w)
        PROVE  TransactionsMatch'
    BY <1>1, <1>3 DEF Open, OpenDispatch, OpenReceive, Begin, stockVars, Request
  <1>4. ASSUME NEW w \in Workers, ~Idle(w), req[w] \in RequestRecord,
               \/ LoadRow(w) \/ WriteRow(w) \/ Refresh(w)
               \/ LoadHead(w) \/ WriteHead(w) \/ InsertInvoice(w)
        PROVE  TransactionsMatch'
    <2>1. /\ pc' = pc /\ \A v \in Workers \ {w} : req'[v] = req[v]
          /\ req[w].at # "find"
      BY <1>1, <1>4 DEF LoadRow, WriteRow, Refresh, LoadHead, WriteHead,
         InsertInvoice, At, stockVars
    <2>2. ~Idle(w)' /\ req'[w].at # "find"
      <3>1. CASE LoadRow(w)
        BY <1>1, <1>4, <3>1 DEF LoadRow, At, RequestRecord
      <3>2. CASE WriteRow(w)
        BY <1>1, <1>4, <3>2 DEF WriteRow, At, RequestRecord
      <3>3. CASE Refresh(w)
        BY <1>1, <1>4, <3>3 DEF Refresh, At, RequestRecord
      <3>4. CASE LoadHead(w)
        BY <1>1, <1>4, <3>4 DEF LoadHead, At, RequestRecord
      <3>5. CASE WriteHead(w)
        BY <1>1, <1>4, <3>5 DEF WriteHead, At, RequestRecord
      <3>6. CASE InsertInvoice(w)
        BY <1>1, <1>4, <3>6 DEF InsertInvoice, At, RequestRecord
      <3> QED
        BY <1>4, <3>1, <3>2, <3>3, <3>4, <3>5, <3>6
    <2> QED
      BY <1>4, <2>1, <2>2
  <1>5. ASSUME NEW w \in Workers, ~Idle(w), req[w] \in RequestRecord,
               IssueStatement(w) \/ BalanceStatement(w)
        PROVE  TransactionsMatch'
    <2>1. /\ DOMAIN pc' = Workers /\ \A v \in Workers \ {w} : pc'[v] = pc[v]
          /\ \A v \in Workers \ {w} : req'[v] = req[v]
      BY <1>1, <1>5 DEF IssueStatement, BalanceStatement, SelectLots, TakeLot,
         UpsertBalance, CheckBalance, Rollback, Discard
    <2>2. InTransaction(w)' <=> pc'[w] # "idle"
      BY <1>1, <1>5 DEF IssueStatement, BalanceStatement, SelectLots, TakeLot,
         UpsertBalance, CheckBalance, Rollback, Discard, At, RequestRecord
    <2> QED
      BY <2>1, <2>2
  <1>6. ASSUME NEW w \in Workers, ~Idle(w), req[w] \in RequestRecord,
               FindItems(w) \/ ReceiveLine(w)
        PROVE  TransactionsMatch'
    <2>1. /\ DOMAIN pc' = Workers /\ \A v \in Workers \ {w} : pc'[v] = pc[v]
          /\ \A v \in Workers \ {w} : req'[v] = req[v]
      BY <1>1, <1>6 DEF FindItems, ReceiveLine, Begin, InsertLot, Rollback,
         Discard, End, stockVars
    <2>2. InTransaction(w)' <=> pc'[w] # "idle"
      <3>1. CASE FindItems(w)
        BY <1>1, <1>6, <3>1
        DEF FindItems, Begin, End, stockVars, At, RequestRecord
      <3>2. CASE ReceiveLine(w)
        <4>1. CASE Rollback(w) /\ End(w)
          BY <1>1, <4>1 DEF Rollback, Discard, End
        <4>2. CASE LineTaken(w)
          <5>1. ~Idle(w)' /\ req'[w].at # "find" /\ req[w].at = "receive"
            <6>1. /\ DOMAIN req = Workers /\ LineReceived(w)
                  /\ req[w].op \in {"dispatch", "receive"}
              BY <1>1, <1>6, <4>2 DEF LineTaken, RequestRecord
            <6> QED
              BY <1>6, <3>2, <6>1, LineReceivedIs, LineReceivedColumns, ReceiveLineIs
          <5>2. pc[w] # "idle" <=> pc'[w] # "idle"
            BY <4>2 DEF LineTaken, InsertLot
          <5> QED
            BY <1>6, <5>1, <5>2
        <4> QED
          BY <3>2, <4>1, <4>2, ReceiveLineIs
      <3> QED
        BY <1>6, <3>1, <3>2
    <2> QED
      BY <2>1, <2>2
  <1>7. ASSUME NEW w \in Workers,
               \/ CommitDispatch(w) \/ CommitReceive(w)
               \/ Abandon(w) \/ BreakDeadlock(w)
        PROVE  TransactionsMatch'
    BY <1>1, <1>7 DEF CommitDispatch, CommitReceive, Abandon, BreakDeadlock,
       Commit, Rollback, Discard, End, stockVars
  <1>8. ASSUME NEW w \in Workers, Proceed(w)
        PROVE  ~Idle(w) /\ req[w] \in RequestRecord
    <2>1. ~Idle(w)
      BY <1>8 DEF Proceed, IssueStatement, CommitDispatch, FindItems,
         ReceiveLine, LoadRow, WriteRow, BalanceStatement, Refresh, LoadHead,
         WriteHead, InsertInvoice, CommitReceive, At
    <2> QED
      BY <2>1, BusyRecord DEF TransferInvariant
  <1>9. ASSUME NEW w \in Workers, Proceed(w)
        PROVE  TransactionsMatch'
    BY <1>4, <1>5, <1>6, <1>7, <1>8, <1>9 DEF Proceed
  <1> QED
    BY <1>2, <1>3, <1>7, <1>9 DEF TransferNext

LEMMA TransactionsMatchHolds ==
    TransferSpec => [](TransferInvariant /\ TransactionsMatch)
  BY TransferInvariantHolds, InitTransactions, NextTransactions, PTL
  DEF TransferSpec

(* Every step of a request is a step of StockLedger or leaves stock alone. *)
LEMMA StepsOfLedger ==
    TransferInvariant /\ TransactionsMatch /\ [TransferNext]_vars
      => [StockNext]_stockVars
  <1> SUFFICES ASSUME TransferInvariant, TransactionsMatch, [TransferNext]_vars
               PROVE  [StockNext]_stockVars
    OBVIOUS
  <1>1. ASSUME NEW w \in Workers, NEW t \in TransferIds, NEW plan \in Plans,
               OpenDispatch(w, t, plan)
        PROVE  StockNext
    <2>1. RoomFor(Dispatched(plan))
      BY DEF RoomFor, Dispatched, Posting
    <2> QED
      BY <1>1, <2>1, MovesAreRequests DEF OpenDispatch, StockNext
  <1>2. ASSUME NEW w \in Workers, FindItems(w)
        PROVE  [StockNext]_stockVars
    <2>1. req[w].lines \in Receipts
      BY <1>2, ReceiptFacts DEF FindItems, At, ReceiveRequest
    <2> QED
      BY <1>2, <2>1, MovesAreRequests DEF FindItems, StockNext
  <1>3. ASSUME NEW w \in Workers,
               \/ IssueStatement(w) \/ CommitDispatch(w) \/ ReceiveLine(w)
               \/ BalanceStatement(w) \/ CommitReceive(w)
               \/ Abandon(w) \/ BreakDeadlock(w)
        PROVE  [StockNext]_stockVars
    <2>1. CASE Step(w)
      BY <2>1 DEF StockNext
    <2>2. CASE Rollback(w) /\ pc[w] # "idle"
      BY <2>2 DEF StockNext, Crash
    <2>3. CASE ReceiveLine(w) /\ Rollback(w) /\ pc[w] = "idle"
      BY <2>3 DEF ReceiveLine, At, TransactionsMatch, InTransaction
    <2> QED
      BY <1>3, <2>1, <2>2, <2>3 DEF IssueStatement, CommitDispatch,
         BalanceStatement, CommitReceive, Abandon, BreakDeadlock, ReceiveLine,
         Step, stockVars
  <1>4. ASSUME NEW w \in Workers,
               \/ LoadRow(w) \/ WriteRow(w) \/ Refresh(w) \/ LoadHead(w)
               \/ WriteHead(w) \/ InsertInvoice(w)
               \/ \E t \in DOMAIN transfer, receipt \in Receipts :
                    OpenReceive(w, t, receipt)
        PROVE  UNCHANGED stockVars
    BY <1>4 DEF LoadRow, WriteRow, Refresh, LoadHead, WriteHead, InsertInvoice,
       OpenReceive
  <1>5. CASE UNCHANGED vars
    BY <1>5 DEF vars
  <1> QED
    BY <1>1, <1>2, <1>3, <1>4, <1>5 DEF TransferNext, Open, Proceed

(* Transfers move stock only by the statements of StockLedger.             *)
LEMMA MovesByLedger == TransferSpec => StockSafety
  <1>1. TransferInit => StockInit
    BY DEF TransferInit
  <1> QED
    BY <1>1, TransactionsMatchHolds, StepsOfLedger, PTL
    DEF TransferSpec, StockSafety

(* However requests on transfers overlap, no balance is negative, every    *)
(* balance equals its journal, and the lots of a key add up to it.         *)
THEOREM TransfersKeepStock ==
    TransferSpec => []OnHandNeverNegative /\ []BalanceIsLedger /\ []LotsMatchBalance
  BY MovesByLedger, NeverNegative, LedgerAgrees, LotsAgree, PTL

(* Headers, lines and invoices keep the shape of their tables.             *)
THEOREM TransferTypeCorrect == TransferSpec => []TransferTypeOK
  <1>1. TransferInvariant /\ StockTypeOK => TransferTypeOK
    <2> SUFFICES ASSUME TransferInvariant, StockTypeOK
                 PROVE  TransferTypeOK
      OBVIOUS
    <2>1. ASSUME NEW t \in DOMAIN items
          PROVE  items[t] # <<>> /\ IsPartial(items[t], LineNos, Item)
      <3>1. items[t] \in RowTables /\ DOMAIN items[t] # {}
        BY DEF TransferInvariant
      <3> QED
        BY <3>1, RowTypes
    <2> QED
      BY <2>1 DEF TransferInvariant, TransferTypeOK
  <1> QED
    BY <1>1, TransferInvariantHolds, MovesByLedger, TypeCorrect, PTL
----------------------------------------------------------------------------
(* What the transactions post.                                             *)

MoveOf(r) == IF r.op = "dispatch" THEN Dispatched(r.asked) ELSE BroughtIn(r.asked)

(* A request posts its list: as it stands, and all of it.                  *)
Moving(w) == \E request \in Requests : request = MoveOf(req[w]) /\ Posts(w, request)

MovesPosted == \A w \in Workers : pc[w] # "idle" => Moving(w)

LEMMA InitMovesPosted == TransferInit => MovesPosted
  BY DEF TransferInit, StockInit, MovesPosted

LEMMA StillMoving ==
    ASSUME NEW v \in Workers, Moving(v),
           pc'[v] = pc[v] /\ todo'[v] = todo[v] /\ delta'[v] = delta[v],
           req'[v].op = req[v].op, req'[v].asked = req[v].asked
    PROVE  Moving(v)'
  <1>1. PICK request \in Requests : request = MoveOf(req[v]) /\ Posts(v, request)
    BY DEF Moving
  <1>2. Posts(v, request)'
    BY <1>1, StillPosts
  <1> QED
    BY <1>1, <1>2 DEF Moving, MoveOf

LEMMA StepMoving ==
    ASSUME StockInvariant, NEW w \in Workers, Moving(w), Step(w),
           pc'[w] # "idle", req'[w].op = req[w].op, req'[w].asked = req[w].asked
    PROVE  Moving(w)'
  <1>1. PICK request \in Requests : request = MoveOf(req[w]) /\ Posts(w, request)
    BY DEF Moving
  <1>2. Posts(w, request)'
    BY <1>1, StepPosts
  <1> QED
    BY <1>1, <1>2 DEF Moving, MoveOf

LEMMA BeginMoving ==
    ASSUME StockInvariant, NEW w \in Workers, NEW request \in Requests,
           Begin(w, request), request = MoveOf(req'[w])
    PROVE  Moving(w)'
  <1>1. Posts(w, request)'
    BY BeginPosts
  <1> QED
    BY <1>1 DEF Moving, MoveOf

LEMMA OwnMoving ==
    ASSUME StockInvariant, TransferInvariant, TransactionsMatch,
           TransactionsMatch', MovesPosted, NEW w \in Workers, pc'[w] # "idle",
           Open(w) \/ Proceed(w) \/ Abandon(w) \/ BreakDeadlock(w)
    PROVE  Moving(w)'
  <1>1. req \in [Workers -> RequestRecord \cup {NoRequest}] /\ ~Idle(w)'
    BY DEF TransferInvariant, TransactionsMatch, InTransaction
  <1>2. ASSUME NEW t \in TransferIds, NEW plan \in Plans, OpenDispatch(w, t, plan)
        PROVE  Moving(w)'
    <2>1. Dispatched(plan) = MoveOf(req'[w]) /\ Dispatched(plan) \in Requests
      BY <1>1, <1>2, MovesAreRequests DEF OpenDispatch, Request, MoveOf
    <2> QED
      BY <1>2, <2>1, BeginMoving DEF OpenDispatch
  <1>3. ASSUME NEW t \in DOMAIN transfer, NEW receipt \in Receipts,
               OpenReceive(w, t, receipt)
        PROVE  Moving(w)'
    BY <1>1, <1>3 DEF OpenReceive, Request, TransactionsMatch, InTransaction
  <1>4. CASE FindItems(w)
    <2>1. /\ req[w].lines = req[w].asked /\ req[w].asked \in Receipts
          /\ req[w].op = "receive" /\ req[w] \in RequestRecord
      BY <1>4, ReceiptFacts DEF FindItems, At, ReceiveRequest
    <2>2. Begin(w, BroughtIn(req[w].asked))
      BY <1>1, <1>4, <2>1 DEF FindItems, End
    <2>3. /\ req'[w].op = "receive" /\ req'[w].asked = req[w].asked
      BY <1>1, <1>4, <2>1 DEF FindItems, End, RequestRecord
    <2>4. PICK receipt \in Receipts : receipt = req[w].asked
      BY <2>1
    <2>5. BroughtIn(receipt) \in Requests /\ BroughtIn(receipt) = MoveOf(req'[w])
      BY <2>3, <2>4, MovesAreRequests DEF MoveOf
    <2> QED
      BY <2>2, <2>4, <2>5, BeginMoving
  <1>5. CASE \/ IssueStatement(w) \/ ReceiveLine(w) \/ BalanceStatement(w)
    <2>1. Moving(w)
      <3>1. InTransaction(w)
        BY <1>5 DEF IssueStatement, ReceiveLine, BalanceStatement, At, InTransaction
      <3> QED
        BY <3>1 DEF TransactionsMatch, MovesPosted
    <2>2. req[w] \in RequestRecord
      BY <1>5, BusyRecord
      DEF IssueStatement, ReceiveLine, BalanceStatement, At, TransferInvariant
    <2>3. Step(w)
      <3>1. CASE IssueStatement(w)
        BY <1>1, <3>1 DEF IssueStatement, Step, End
      <3>2. CASE ReceiveLine(w)
        BY <1>1, <3>2, ReceiveLineIs DEF LineTaken, Step, End
      <3>3. CASE BalanceStatement(w)
        BY <1>1, <3>3 DEF BalanceStatement, Step, End
      <3> QED
        BY <1>5, <3>1, <3>2, <3>3
    <2>4. req'[w].op = req[w].op /\ req'[w].asked = req[w].asked
      <3>1. CASE IssueStatement(w)
        BY <1>1, <2>2, <3>1 DEF IssueStatement, End, RequestRecord
      <3>2. CASE ReceiveLine(w)
        BY <1>1, <2>2, <3>2 DEF ReceiveLine, End, RequestRecord
      <3>3. CASE BalanceStatement(w)
        BY <1>1, <2>2, <3>3 DEF BalanceStatement, End, RequestRecord
      <3> QED
        BY <1>5, <3>1, <3>2, <3>3
    <2> QED
      BY <2>1, <2>3, <2>4, StepMoving
  <1>6. CASE \/ LoadRow(w) \/ WriteRow(w) \/ Refresh(w) \/ LoadHead(w)
             \/ WriteHead(w) \/ InsertInvoice(w)
    <2>1. pc' = pc /\ todo' = todo /\ delta' = delta
      BY <1>6 DEF LoadRow, WriteRow, Refresh, LoadHead, WriteHead,
         InsertInvoice, stockVars, pending
    <2>2. Moving(w)
      BY <2>1 DEF MovesPosted
    <2>3. req[w] \in RequestRecord
      BY <1>6, BusyRecord DEF LoadRow, WriteRow, Refresh, LoadHead, WriteHead,
         InsertInvoice, At, TransferInvariant
    <2>4. req'[w].op = req[w].op /\ req'[w].asked = req[w].asked
      <3>1. CASE LoadRow(w)
        BY <1>1, <2>3, <3>1 DEF LoadRow, RequestRecord
      <3>2. CASE WriteRow(w)
        BY <1>1, <2>3, <3>2 DEF WriteRow, RequestRecord
      <3>3. CASE Refresh(w)
        BY <1>1, <2>3, <3>3 DEF Refresh, RequestRecord
      <3>4. CASE LoadHead(w)
        BY <1>1, <2>3, <3>4 DEF LoadHead, RequestRecord
      <3>5. CASE WriteHead(w)
        BY <1>1, <2>3, <3>5 DEF WriteHead, RequestRecord
      <3>6. CASE InsertInvoice(w)
        BY <1>1, <2>3, <3>6 DEF InsertInvoice, RequestRecord
      <3> QED
        BY <1>6, <3>1, <3>2, <3>3, <3>4, <3>5, <3>6
    <2> QED
      BY <2>1, <2>2, <2>4, StillMoving
  <1>7. ~Abandon(w) /\ ~BreakDeadlock(w) /\ ~CommitDispatch(w) /\ ~CommitReceive(w)
    BY <1>1 DEF Abandon, BreakDeadlock, CommitDispatch, CommitReceive, End
  <1> QED
    BY <1>2, <1>3, <1>4, <1>5, <1>6, <1>7 DEF Open, Proceed

LEMMA OthersMoving ==
    ASSUME StockInvariant, TransferInvariant, MovesPosted, NEW w \in Workers,
           NEW v \in Workers \ {w}, pc'[v] # "idle",
           Open(w) \/ Proceed(w) \/ Abandon(w) \/ BreakDeadlock(w)
    PROVE  Moving(v)'
  <1>1. pc'[v] = pc[v] /\ todo'[v] = todo[v] /\ delta'[v] = delta[v]
    <2>1. CASE UNCHANGED stockVars
      BY <2>1 DEF stockVars, pending
    <2>2. ASSUME NEW t \in TransferIds, NEW plan \in Plans, OpenDispatch(w, t, plan)
          PROVE  pc'[v] = pc[v] /\ todo'[v] = todo[v] /\ delta'[v] = delta[v]
      BY <2>2, OthersUntouched, MovesAreRequests DEF OpenDispatch
    <2>3. CASE FindItems(w)
      <3>1. req[w].lines \in Receipts
        BY <2>3, ReceiptFacts DEF FindItems, At, ReceiveRequest
      <3> QED
        BY <2>1, <2>3, <3>1, OthersUntouched, MovesAreRequests DEF FindItems
    <2>4. CASE Step(w) \/ Discard(w)
      BY <2>4, OthersUntouched
    <2> QED
      BY <2>1, <2>2, <2>3, <2>4 DEF Open, OpenReceive, Proceed, IssueStatement,
         CommitDispatch, ReceiveLine, LoadRow, WriteRow, BalanceStatement,
         Refresh, LoadHead, WriteHead, InsertInvoice, CommitReceive, Abandon,
         BreakDeadlock, Step, Rollback
  <1>2. req'[v] = req[v]
    BY DEF TransferInvariant, Open, OpenDispatch, OpenReceive, Proceed,
       IssueStatement, CommitDispatch, FindItems, ReceiveLine, LoadRow,
       WriteRow, BalanceStatement, Refresh, LoadHead, WriteHead,
       InsertInvoice, CommitReceive, Abandon, BreakDeadlock, End
  <1>3. Moving(v)
    BY <1>1 DEF MovesPosted
  <1> QED
    BY <1>1, <1>2, <1>3, StillMoving

LEMMA NextMovesPosted ==
    /\ StockInvariant /\ TransferInvariant
    /\ TransactionsMatch /\ TransactionsMatch' /\ MovesPosted /\ [TransferNext]_vars
    => MovesPosted'
  <1> SUFFICES ASSUME StockInvariant, TransferInvariant, TransactionsMatch,
                      TransactionsMatch', MovesPosted, [TransferNext]_vars,
                      NEW v \in Workers, pc'[v] # "idle"
               PROVE  Moving(v)'
    BY DEF MovesPosted
  <1>1. CASE UNCHANGED vars
    <2>1. UNCHANGED <<pc, todo, delta, req>>
      BY <1>1 DEF vars, stockVars, pending, transferVars
    <2> QED
      BY <2>1, StillMoving DEF MovesPosted
  <1>2. CASE TransferNext
    BY <1>2, OwnMoving, OthersMoving DEF TransferNext
  <1> QED
    BY <1>1, <1>2
----------------------------------------------------------------------------
(* Every unit is accounted for.                                            *)

ColumnQty(rows, k) ==
    SumFunction([l \in {m \in DOMAIN rows : FromKey[m] = k} |-> rows[l].dispatched])

DispatchedAt(k) == [t \in DOMAIN items |-> ColumnQty(items[t], k)]
BilledAt(k) == [t \in TransferIds |-> BilledInto(t, k)]

LEMMA ColumnTypes ==
    ASSUME NEW rows \in RowTables, NEW k
    PROVE  ColumnQty(rows, k) \in Nat
  <1> DEFINE S == {m \in DOMAIN rows : FromKey[m] = k}
             f == [l \in S |-> rows[l].dispatched]
  <1>1. IsFiniteSet(S) /\ \A l \in S : f[l] \in Nat
    BY RowTypes, FiniteAssumption, FS_Subset
  <1>2. ColumnQty(rows, k) = SumFunctionOnSet(f, S)
    BY DEF ColumnQty, SumFunction
  <1> HIDE DEF f, S
  <1> QED
    BY <1>1, <1>2, SumIsNat

LEMMA SameColumn ==
    ASSUME NEW rows, NEW new, NEW k, DOMAIN new = DOMAIN rows,
           \A l \in DOMAIN rows : new[l].dispatched = rows[l].dispatched
    PROVE  ColumnQty(new, k) = ColumnQty(rows, k)
  <1>1. [l \in {m \in DOMAIN new : FromKey[m] = k} |-> new[l].dispatched]
          = [l \in {m \in DOMAIN rows : FromKey[m] = k} |-> rows[l].dispatched]
    OBVIOUS
  <1> QED
    BY <1>1 DEF ColumnQty

(* A new transfer's lines say what its dispatch takes.                     *)
LEMMA NewColumn ==
    ASSUME NEW plan \in Plans, NEW k
    PROVE  ColumnQty(NewItems(plan), k) = KeyQty(FromKey, plan, k)
  <1> DEFINE S == {l \in LineNos : FromKey[l] = k}
             T == {l \in LinesOf(plan) : FromKey[l] = k}
             f == [l \in LineNos |-> QtyOf(plan, l)]
             g == [l \in T |-> NewItems(plan)[l].dispatched]
  <1>1. /\ IsFiniteSet(S) /\ IsFiniteSet(T) /\ T \subseteq S
        /\ \A l \in S : f[l] \in Int
        /\ \A l \in S \ T : f[l] = 0
    <2>1. plan \in LineLists /\ LinesOf(plan) \subseteq LineNos
      BY ListsAreLists, ListTypes
    <2> QED
      BY <2>1, QtyOfTypes, QtyOfNoLine, FiniteAssumption, FS_Subset
  <1>2. \A l \in T : g[l] = f[l]
    BY NewRowsTypes, <1>1
  <1>3. ColumnQty(NewItems(plan), k) = SumFunctionOnSet(g, T)
    BY NewRowsTypes DEF ColumnQty, SumFunction
  <1>4. KeyQty(FromKey, plan, k) = SumFunctionOnSet(f, S)
    BY DEF KeyQty
  <1> HIDE DEF f, g, S, T
  <1>5. SumFunctionOnSet(f, S) = SumFunctionOnSet(f, T)
    BY <1>1, SumOfPart
  <1>6. SumFunctionOnSet(g, T) = SumFunctionOnSet(f, T)
    BY <1>1, <1>2, SumSame
  <1> QED
    BY <1>3, <1>4, <1>5, <1>6

LEMMA BilledTypes ==
    ASSUME TransferShape, NEW t \in TransferIds, NEW k
    PROVE  BilledInto(t, k) \in Nat
  <1> DEFINE S == {l \in LineNos : ToKey[l] = k}
             f == billed[t]
  <1>1. IsFiniteSet(S) /\ \A l \in S : f[l] \in Nat
    BY FiniteAssumption, FS_Subset
  <1> HIDE DEF f, S
  <1>2. SumFunctionOnSet(f, S) \in Nat
    BY <1>1, SumIsNat
  <1> QED
    BY <1>2 DEF BilledInto, f, S

(* A receipt's bill adds what it brought in.                               *)
LEMMA BillAdds ==
    ASSUME TransferShape, NEW t \in TransferIds, NEW s \in LineLists, NEW k,
           billed'[t] = [l \in LineNos |-> billed[t][l] + QtyOf(s, l)]
    PROVE  BilledInto(t, k)' = BilledInto(t, k) + KeyQty(ToKey, s, k)
  <1> DEFINE S == {l \in LineNos : ToKey[l] = k}
             f == billed[t]
             g == [l \in LineNos |-> QtyOf(s, l)]
             h == [l \in LineNos |-> billed[t][l] + QtyOf(s, l)]
  <1>1. /\ IsFiniteSet(S)
        /\ \A l \in S : f[l] \in Int /\ g[l] \in Int /\ h[l] = f[l] + g[l]
    BY QtyOfTypes, FiniteAssumption, FS_Subset
  <1>2. /\ BilledInto(t, k) = SumFunctionOnSet(f, S)
        /\ KeyQty(ToKey, s, k) = SumFunctionOnSet(g, S)
        /\ BilledInto(t, k)' = SumFunctionOnSet(h, S)
    BY DEF BilledInto, KeyQty
  <1> HIDE DEF f, g, h, S
  <1> QED
    BY <1>1, <1>2, SumPlus

Accounts == [k \in Keys |->
    InitOnHand[k] - SumFunctionOnSet(DispatchedAt(k), DOMAIN items)
                  + SumFunctionOnSet(BilledAt(k), TransferIds)]

LEMMA AccountsAre == StockIsAccountedFor <=> \A k \in Keys : onHand[k] = Accounts[k]
  <1>1. ASSUME NEW k \in Keys
        PROVE  /\ SumFunction([t \in DOMAIN items |-> DispatchedFrom(t, k)])
                    = SumFunctionOnSet(DispatchedAt(k), DOMAIN items)
               /\ SumFunction([t \in TransferIds |-> BilledInto(t, k)])
                    = SumFunctionOnSet(BilledAt(k), TransferIds)
    BY DEF DispatchedFrom, DispatchedAt, BilledAt, ColumnQty, SumFunction
  <1> QED
    BY <1>1 DEF StockIsAccountedFor, Accounts

LEMMA AccountTypes ==
    ASSUME TransferShape, NEW k \in Keys
    PROVE  /\ IsFiniteSet(DOMAIN items) /\ IsFiniteSet(TransferIds)
           /\ \A t \in DOMAIN items : DispatchedAt(k)[t] \in Nat
           /\ \A t \in TransferIds : BilledAt(k)[t] \in Nat
           /\ SumFunctionOnSet(DispatchedAt(k), DOMAIN items) \in Nat
           /\ SumFunctionOnSet(BilledAt(k), TransferIds) \in Nat
           /\ InitOnHand[k] \in Nat
  <1>1. /\ IsFiniteSet(DOMAIN items) /\ IsFiniteSet(TransferIds)
        /\ \A t \in DOMAIN items : DispatchedAt(k)[t] \in Nat
        /\ \A t \in TransferIds : BilledAt(k)[t] \in Nat
        /\ InitOnHand[k] \in Nat
    BY FiniteAssumption, FS_Subset, ColumnTypes, BilledTypes, LotsAssumption
    DEF DispatchedAt, BilledAt
  <1>2. /\ SumFunctionOnSet(DispatchedAt(k), DOMAIN items) \in Nat
        /\ SumFunctionOnSet(BilledAt(k), TransferIds) \in Nat
    BY <1>1, SumIsNat
  <1> QED
    BY <1>1, <1>2

LEMMA CommitDispatchAccounts ==
    ASSUME TransferInvariant, MovesPosted, StockInvariant, StockIsAccountedFor,
           NEW w \in Workers, CommitDispatch(w)
    PROVE  StockIsAccountedFor'
  <1> DEFINE t == req[w].transfer
  <1>1. /\ ~Idle(w) /\ req[w].at = "issue" /\ Commit(w) /\ billed' = billed
        /\ items' = [u \in DOMAIN items \cup {t} |->
                       IF u = t THEN req[w].rows ELSE items[u]]
    BY DEF CommitDispatch, At
  <1>2. DispatchRequest(req[w]) /\ OwnTransfer(w) /\ t \in TransferIds
    BY <1>1, BusyRecord DEF TransferInvariant, RequestsGrounded, ReceiveRequest
  <1>3. PICK plan \in Plans : plan = req[w].asked
    BY <1>2 DEF DispatchRequest
  <1>4. t \notin DOMAIN items /\ items'[t] = NewItems(plan)
        /\ DOMAIN items' = DOMAIN items \cup {t}
        /\ \A u \in DOMAIN items : items'[u] = items[u]
    BY <1>1, <1>2, <1>3 DEF DispatchRequest, OwnTransfer, TransferInvariant
  <1>5. onHand' = [k \in Keys |-> onHand[k] + Book!Effect(Dispatched(plan), k)]
    <2>1. PICK request \in Requests : request = MoveOf(req[w]) /\ Posts(w, request)
      BY <1>1 DEF Commit, MovesPosted, Moving
    <2>2. MoveOf(req[w]) = Dispatched(plan)
      BY <1>2, <1>3 DEF MoveOf, DispatchRequest
    <2> QED
      BY <1>1, <2>1, <2>2, CommitPosts
  <1> HIDE DEF t
  <1>6. ASSUME NEW k \in Keys
        PROVE  onHand'[k] = Accounts'[k]
    <2> DEFINE f == DispatchedAt(k)
               g == DispatchedAt(k)'
               b == BilledAt(k)
               S == DOMAIN items
    <2>1. /\ IsFiniteSet(S) /\ \A u \in S : f[u] \in Nat
          /\ SumFunctionOnSet(f, S) \in Nat /\ InitOnHand[k] \in Nat
          /\ SumFunctionOnSet(b, TransferIds) \in Nat
      BY AccountTypes DEF TransferInvariant
    <2>2. /\ \A u \in S : g[u] = f[u]
          /\ g[t] = KeyQty(FromKey, plan, k)
      BY <1>4, NewColumn DEF DispatchedAt, ColumnQty
    <2>3. BilledAt(k)' = b
      BY <1>1 DEF BilledAt, BilledInto
    <2>4. plan \in LineLists /\ KeyQty(FromKey, plan, k) \in Nat
      BY ListsAreLists, KeyQtyTypes
    <2>5. Book!Effect(Dispatched(plan), k) = 0 - KeyQty(FromKey, plan, k)
      BY <2>4, PostingEffect, TransferAssumption DEF Dispatched
    <2>6. onHand[k] = InitOnHand[k] - SumFunctionOnSet(f, S)
                        + SumFunctionOnSet(b, TransferIds)
      BY AccountsAre DEF Accounts
    <2>7. onHand'[k] = onHand[k] + Book!Effect(Dispatched(plan), k)
      BY <1>5
    <2>8. Accounts'[k] = InitOnHand[k] - SumFunctionOnSet(g, S \cup {t})
                           + SumFunctionOnSet(b, TransferIds)
      BY <1>4, <2>3 DEF Accounts
    <2>9. t \notin S
      BY <1>4
    <2> HIDE DEF f, g, b, S
    <2>10. SumFunctionOnSet(g, S) = SumFunctionOnSet(f, S)
      BY <2>1, <2>2, SumSame
    <2>11. SumFunctionOnSet(g, S \cup {t}) = SumFunctionOnSet(g, S) + g[t]
      <3>1. g[t] \in Int /\ \A u \in S : g[u] \in Int
        BY <2>1, <2>2, <2>4
      <3> QED
        BY <2>1, <2>9, <3>1, SumAdd
    <2> QED
      BY <2>1, <2>2, <2>4, <2>5, <2>6, <2>7, <2>8, <2>10, <2>11
  <1>7. \A k \in Keys : onHand'[k] = Accounts'[k]
    BY <1>6
  <1>8. StockIsAccountedFor' <=> (\A k \in Keys : onHand[k] = Accounts[k])'
    BY AccountsAre, PTL
  <1> QED
    BY <1>7, <1>8

LEMMA CommitReceiveAccounts ==
    ASSUME TransferInvariant, MovesPosted, StockInvariant, StockIsAccountedFor,
           NEW w \in Workers, CommitReceive(w)
    PROVE  StockIsAccountedFor'
  <1>1. PICK t \in TransferIds :
        /\ t = req[w].transfer
        /\ ~Idle(w) /\ req[w].at = "commit" /\ Commit(w)
        /\ items' = [items EXCEPT ![t] = RowsSeen(w)]
        /\ billed' = [billed EXCEPT ![t] =
                        [l \in LineNos |-> billed[t][l] + QtyOf(req[w].bill, l)]]
    BY BusyRecord DEF CommitReceive, At, TransferInvariant
  <1>2. ReceiveRequest(req[w]) /\ t \in DOMAIN transfer /\ t \in DOMAIN items
    BY <1>1, ReceiptFacts DEF TransferInvariant
  <1>3. PICK receipt \in Receipts : receipt = req[w].asked /\ receipt = req[w].bill
    BY <1>1, <1>2 DEF ReceiveRequest
  <1>4. /\ DOMAIN items' = DOMAIN items
        /\ \A u \in DOMAIN items :
             /\ DOMAIN items'[u] = DOMAIN items[u]
             /\ \A l \in DOMAIN items[u] :
                  items'[u][l].dispatched = items[u][l].dispatched
    BY <1>1, RowsSeenTypes
  <1>5. onHand' = [k \in Keys |-> onHand[k] + Book!Effect(BroughtIn(receipt), k)]
    <2>1. PICK request \in Requests : request = MoveOf(req[w]) /\ Posts(w, request)
      BY <1>1 DEF Commit, MovesPosted, Moving
    <2>2. MoveOf(req[w]) = BroughtIn(receipt)
      BY <1>2, <1>3 DEF MoveOf, ReceiveRequest
    <2> QED
      BY <1>1, <2>1, <2>2, CommitPosts
  <1>6. /\ billed'[t] = [l \in LineNos |-> billed[t][l] + QtyOf(receipt, l)]
        /\ \A u \in TransferIds \ {t} : billed'[u] = billed[u]
    BY <1>1, <1>2, <1>3 DEF TransferInvariant
  <1>7. ASSUME NEW k \in Keys
        PROVE  onHand'[k] = Accounts'[k]
    <2> DEFINE f == DispatchedAt(k)
               b == BilledAt(k)
               c == BilledAt(k)'
               S == DOMAIN items
    <2>1. /\ IsFiniteSet(TransferIds) /\ \A u \in TransferIds : b[u] \in Nat
          /\ SumFunctionOnSet(f, S) \in Nat /\ InitOnHand[k] \in Nat
          /\ SumFunctionOnSet(b, TransferIds) \in Nat
      BY AccountTypes DEF TransferInvariant
    <2>2. DispatchedAt(k)' = f
      <3>1. \A u \in S : ColumnQty(items'[u], k) = ColumnQty(items[u], k)
        BY <1>4, SameColumn
      <3> QED
        BY <1>4, <3>1 DEF DispatchedAt, ColumnQty
    <2>3. receipt \in LineLists /\ KeyQty(ToKey, receipt, k) \in Nat
      BY ListsAreLists, KeyQtyTypes
    <2>4. /\ c[t] = b[t] + KeyQty(ToKey, receipt, k)
          /\ \A u \in TransferIds \ {t} : c[u] = b[u]
      <3>1. BilledInto(t, k)' = BilledInto(t, k) + KeyQty(ToKey, receipt, k)
        BY <1>2, <1>6, <2>3, BillAdds DEF TransferInvariant
      <3> QED
        BY <1>2, <1>6, <3>1 DEF BilledAt, BilledInto
    <2>5. Book!Effect(BroughtIn(receipt), k) = KeyQty(ToKey, receipt, k)
      BY <2>3, PostingEffect, TransferAssumption DEF BroughtIn
    <2>6. onHand[k] = InitOnHand[k] - SumFunctionOnSet(f, S)
                        + SumFunctionOnSet(b, TransferIds)
      BY AccountsAre DEF Accounts
    <2>7. onHand'[k] = onHand[k] + Book!Effect(BroughtIn(receipt), k)
      BY <1>5
    <2>8. Accounts'[k] = InitOnHand[k] - SumFunctionOnSet(f, S)
                           + SumFunctionOnSet(c, TransferIds)
      BY <1>4, <2>2 DEF Accounts
    <2> HIDE DEF f, b, c, S
    <2>9. SumFunctionOnSet(c, TransferIds)
            = SumFunctionOnSet(b, TransferIds) + (c[t] - b[t])
      <3>1. c[t] \in Int /\ \A u \in TransferIds : b[u] \in Int
        BY <1>2, <2>1, <2>3, <2>4
      <3> QED
        BY <1>2, <2>1, <2>4, <3>1, SumChange
    <2>10. b[t] \in Nat
      BY <1>2, <2>1
    <2> QED
      BY <2>1, <2>3, <2>4, <2>5, <2>6, <2>7, <2>8, <2>9, <2>10
  <1>8. \A k \in Keys : onHand'[k] = Accounts'[k]
    BY <1>7
  <1>9. StockIsAccountedFor' <=> (\A k \in Keys : onHand[k] = Accounts[k])'
    BY AccountsAre, PTL
  <1> QED
    BY <1>8, <1>9

(* Nothing but the two commits moves stock or writes the tables.           *)
LEMMA OnlyCommitsMove ==
    ASSUME [TransferNext]_vars,
           ~ \E w \in Workers : CommitDispatch(w) \/ CommitReceive(w)
    PROVE  UNCHANGED <<onHand, transfer, items, billed>>
  <1>1. CASE UNCHANGED vars
    BY <1>1 DEF vars, stockVars, committed, transferVars
  <1>2. ASSUME NEW w \in Workers, Open(w)
        PROVE  UNCHANGED <<onHand, transfer, items, billed>>
    BY <1>2 DEF Open, OpenDispatch, OpenReceive, Begin, stockVars, committed
  <1>3. ASSUME NEW w \in Workers, Proceed(w)
        PROVE  UNCHANGED <<onHand, transfer, items, billed>>
    <2>1. CASE IssueStatement(w) \/ BalanceStatement(w)
      BY <2>1 DEF IssueStatement, BalanceStatement, SelectLots, TakeLot,
         UpsertBalance, CheckBalance, Rollback, committed
    <2>2. CASE FindItems(w) \/ ReceiveLine(w)
      BY <2>2 DEF FindItems, ReceiveLine, Begin, InsertLot, Rollback,
         stockVars, committed
    <2>3. CASE \/ LoadRow(w) \/ WriteRow(w) \/ Refresh(w) \/ LoadHead(w)
               \/ WriteHead(w) \/ InsertInvoice(w)
      BY <2>3 DEF LoadRow, WriteRow, Refresh, LoadHead, WriteHead,
         InsertInvoice, stockVars, committed
    <2> QED
      BY <1>3, <2>1, <2>2, <2>3 DEF Proceed
  <1>4. ASSUME NEW w \in Workers, Abandon(w) \/ BreakDeadlock(w)
        PROVE  UNCHANGED <<onHand, transfer, items, billed>>
    BY <1>4 DEF Abandon, BreakDeadlock, Rollback, stockVars, committed
  <1> QED
    BY <1>1, <1>2, <1>3, <1>4 DEF TransferNext

LEMMA InitAccounts == TransferInit => StockIsAccountedFor
  <1> SUFFICES ASSUME TransferInit, NEW k \in Keys
               PROVE  onHand[k] = Accounts[k]
    BY AccountsAre
  <1> DEFINE f == DispatchedAt(k)
             b == BilledAt(k)
  <1>1. ASSUME NEW t \in TransferIds
        PROVE  b[t] = 0
    <2> DEFINE S == {l \in LineNos : ToKey[l] = k}
               g == billed[t]
    <2>1. IsFiniteSet(S) /\ \A l \in S : g[l] = 0
      BY FiniteAssumption, FS_Subset DEF TransferInit, Zero
    <2>2. b[t] = SumFunctionOnSet(g, S)
      BY DEF BilledAt, BilledInto
    <2> HIDE DEF S, g
    <2> QED
      BY <2>1, <2>2, SumZero
  <1>2. DOMAIN items = {}
    BY DEF TransferInit
  <1>3. onHand[k] = InitOnHand[k] /\ InitOnHand[k] \in Nat
    BY LotsAssumption DEF TransferInit, StockInit
  <1>4. Accounts[k] = InitOnHand[k] - SumFunctionOnSet(f, {})
                        + SumFunctionOnSet(b, TransferIds)
    BY <1>2 DEF Accounts
  <1> HIDE DEF f, b
  <1>5. SumFunctionOnSet(f, {}) = 0
    BY SumEmpty
  <1>6. SumFunctionOnSet(b, TransferIds) = 0
    BY <1>1, SumZero, FiniteAssumption
  <1> QED
    BY <1>3, <1>4, <1>5, <1>6

(* What every transfer's steps can count on.                               *)
TransferFacts ==
    StockInvariant /\ TransferInvariant /\ TransactionsMatch /\ MovesPosted

LEMMA TransferFactsHold == TransferSpec => []TransferFacts
  <1>1. TransferSpec => []StockInvariant
    BY MovesByLedger, InvariantHolds, PTL
  <1>2. TransferSpec => [](StockInvariant /\ TransferInvariant /\ TransactionsMatch)
    BY <1>1, TransactionsMatchHolds, PTL
  <1> QED
    BY <1>2, InitMovesPosted, NextMovesPosted, PTL DEF TransferSpec, TransferFacts

(* Every unit is accounted for, whatever overlaps or fails: the centre's   *)
(* balances fall by what the transfers say was dispatched, the             *)
(* distributors' rise by what they were billed for, and nothing else moves.*)
THEOREM UnitsAreAccountedFor == TransferSpec => []StockIsAccountedFor
  <1>1. TransferFacts /\ StockIsAccountedFor /\ [TransferNext]_vars
          => StockIsAccountedFor'
    <2> SUFFICES ASSUME TransferFacts, StockIsAccountedFor, [TransferNext]_vars
                 PROVE  StockIsAccountedFor'
      OBVIOUS
    <2>1. CASE \E w \in Workers : CommitDispatch(w) \/ CommitReceive(w)
      BY <2>1, CommitDispatchAccounts, CommitReceiveAccounts DEF TransferFacts
    <2>2. CASE ~ \E w \in Workers : CommitDispatch(w) \/ CommitReceive(w)
      <3>1. UNCHANGED <<onHand, transfer, items, billed>>
        BY <2>2, OnlyCommitsMove
      <3> QED
        BY <3>1 DEF StockIsAccountedFor, DispatchedFrom, BilledInto
    <2> QED
      BY <2>1, <2>2
  <1> QED
    BY <1>1, InitAccounts, TransferFactsHold, PTL DEF TransferSpec
----------------------------------------------------------------------------
(* Totals and bills.  A receipt's copy of a line is one that was           *)
(* committed, plus the receipt's own quantity once it has come to the      *)
(* line.  Bills only grow, so what a row said is billed for good.          *)

(* The lines a request has still to add to its copies.                     *)
Remaining(r) == IF InLine(r) THEN Tail(r.lines) ELSE r.lines

Backed(r) ==
    r.at \notin {"issue", "find"} => \A l \in DOMAIN r.rows :
        /\ r.rows[l].received <= billed[r.transfer][l] + QtyOf(r.asked, l)
        /\ l \in LinesOf(Remaining(r)) => r.rows[l].received <= billed[r.transfer][l]

BillsInvariant ==
    TotalsBackedByBills /\ \A w \in Workers : ~Idle(w) => Backed(req[w])

(* Statements that leave the copies of the rows, and what is to be added   *)
(* to them, as they are.                                                   *)
Saving(w) ==
    \/ LoadRow(w) \/ WriteRow(w) \/ BalanceStatement(w) \/ Refresh(w)
    \/ LoadHead(w) \/ WriteHead(w) \/ InsertInvoice(w)

LEMMA CopiesKept ==
    ASSUME TransferInvariant, NEW w \in Workers, Saving(w), ~Idle(w)'
    PROVE  /\ ~Idle(w) /\ req[w].at \notin {"issue", "find"}
           /\ req'[w].at \notin {"issue", "find"}
           /\ req'[w].rows = req[w].rows /\ req'[w].asked = req[w].asked
           /\ req'[w].transfer = req[w].transfer /\ req'[w].op = req[w].op
           /\ Remaining(req[w])' = Remaining(req[w])
  <1>1. ~Idle(w) /\ req[w].at \notin {"issue", "find"}
    BY DEF Saving, LoadRow, WriteRow, BalanceStatement, Refresh, LoadHead,
       WriteHead, InsertInvoice, At
  <1>2. req[w] \in RequestRecord /\ req \in [Workers -> RequestRecord \cup {NoRequest}]
    BY <1>1, BusyRecord DEF TransferInvariant
  <1>3. CASE LoadRow(w) \/ WriteRow(w)
    <2>1. CASE LoadRow(w)
      BY <1>1, <1>2, <2>1 DEF LoadRow, At, RequestRecord, Remaining, InLine
    <2>2. CASE WriteRow(w)
      BY <1>1, <1>2, <2>2 DEF WriteRow, At, RequestRecord, Remaining, InLine
    <2> QED
      BY <1>3, <2>1, <2>2
  <1>4. CASE BalanceStatement(w)
    BY <1>1, <1>2, <1>4
    DEF BalanceStatement, At, RequestRecord, Remaining, InLine
  <1>5. CASE Refresh(w) \/ LoadHead(w) \/ WriteHead(w) \/ InsertInvoice(w)
    <2>1. CASE Refresh(w)
      BY <1>1, <1>2, <2>1 DEF Refresh, At, RequestRecord, Remaining, InLine
    <2>2. CASE LoadHead(w)
      BY <1>1, <1>2, <2>2 DEF LoadHead, At, RequestRecord, Remaining, InLine
    <2>3. CASE WriteHead(w)
      BY <1>1, <1>2, <2>3 DEF WriteHead, At, RequestRecord, Remaining, InLine
    <2>4. CASE InsertInvoice(w)
      BY <1>1, <1>2, <2>4
      DEF InsertInvoice, At, RequestRecord, Remaining, InLine
    <2> QED
      BY <1>5, <2>1, <2>2, <2>3, <2>4
  <1> QED
    BY <1>1, <1>3, <1>4, <1>5 DEF Saving

LEMMA BillTypes ==
    ASSUME TransferInvariant, NEW w \in Workers, ~Idle(w), req[w].at # "issue",
           NEW l \in DOMAIN req[w].rows
    PROVE  /\ l \in LineNos /\ billed[req[w].transfer][l] \in Nat
           /\ req[w].rows[l].received \in Nat /\ QtyOf(req[w].asked, l) \in Nat
           /\ l \in DOMAIN items[req[w].transfer]
           /\ items[req[w].transfer][l].received \in Nat
  <1>1. /\ req[w].rows \in RowTables /\ req[w].transfer \in DOMAIN transfer
        /\ req[w].asked \in LineLists /\ items[req[w].transfer] \in RowTables
        /\ DOMAIN req[w].rows = DOMAIN items[req[w].transfer]
    BY ReceiptFacts
  <1>2. req[w].transfer \in TransferIds
    BY BusyRecord DEF TransferInvariant
  <1>3. /\ l \in LineNos /\ req[w].rows[l].received \in Nat
        /\ l \in DOMAIN items[req[w].transfer]
        /\ items[req[w].transfer][l].received \in Nat
    BY <1>1, RowTypes
  <1>4. billed[req[w].transfer][l] \in Nat
    BY <1>2, <1>3 DEF TransferInvariant
  <1> QED
    BY <1>1, <1>3, <1>4, QtyOfTypes

LEMMA FindItemsBacked ==
    ASSUME TransferInvariant, BillsInvariant, NEW w \in Workers, FindItems(w),
           ~Idle(w)'
    PROVE  Backed(req[w])'
  <1>1. ~Idle(w) /\ req[w].at = "find"
    BY DEF FindItems, At
  <1>2. /\ req[w] \in RequestRecord /\ req \in [Workers -> RequestRecord \cup {NoRequest}]
        /\ req[w].transfer \in DOMAIN items
        /\ DOMAIN req[w].rows = DOMAIN items[req[w].transfer]
    BY <1>1, ReceiptFacts DEF TransferInvariant
  <1>3. /\ req'[w].rows = items[req[w].transfer] /\ req'[w].asked = req[w].asked
        /\ req'[w].transfer = req[w].transfer /\ billed' = billed
    BY <1>1, <1>2 DEF FindItems, RequestRecord, End
  <1>4. ASSUME NEW l \in DOMAIN items[req[w].transfer]
        PROVE  /\ items[req[w].transfer][l].received
                    <= billed[req[w].transfer][l] + QtyOf(req[w].asked, l)
               /\ items[req[w].transfer][l].received <= billed[req[w].transfer][l]
    <2>1. items[req[w].transfer][l].received <= billed[req[w].transfer][l]
      BY <1>2 DEF BillsInvariant, TotalsBackedByBills
    <2>2. /\ billed[req[w].transfer][l] \in Nat /\ QtyOf(req[w].asked, l) \in Nat
          /\ items[req[w].transfer][l].received \in Nat
      BY <1>1, <1>2, BillTypes
    <2> QED
      BY <2>1, <2>2
  <1> QED
    BY <1>3, <1>4 DEF Backed

LEMMA ReceiveLineBacked ==
    ASSUME TransferInvariant, BillsInvariant, NEW w \in Workers, ReceiveLine(w),
           ~Idle(w)'
    PROVE  Backed(req[w])'
  <1> DEFINE line == Head(req[w].lines)
             t == req[w].transfer
             rest == Tail(req[w].lines)
  <1>1. ~Idle(w) /\ req[w].at = "receive" /\ req[w].lines # <<>>
    BY DEF ReceiveLine, At
  <1>2. /\ req[w] \in RequestRecord /\ ReceiveRequest(req[w])
        /\ req \in [Workers -> RequestRecord \cup {NoRequest}]
        /\ req[w].asked \in LineLists /\ req[w].lines \in Seq(Quantity)
        /\ Suffix(req[w].lines, req[w].asked)
    BY <1>1, ReceiptFacts DEF TransferInvariant, ReceiveRequest
  <1>3. /\ line.line \in DOMAIN req[w].rows /\ billed' = billed
        /\ LineReceived(w) /\ DOMAIN req = Workers
    BY <1>2, ReceiveLineIs DEF LineTaken, End
  <1>0. PICK q : q = req'[w]
    OBVIOUS
  <1>4. /\ q.asked = req[w].asked /\ q.transfer = t
        /\ q.at = "loadRow" /\ q.lines = req[w].lines
        /\ DOMAIN q.rows = DOMAIN req[w].rows
        /\ \A l \in DOMAIN req[w].rows \ {line.line} : q.rows[l] = req[w].rows[l]
        /\ q.rows[line.line] = [req[w].rows[line.line] EXCEPT !.received = @ + line.qty]
    <2>1. q.at = "loadRow"
      BY <1>0, <1>2, <1>3, LineReceivedIs
    <2>2. q.asked = req[w].asked /\ q.transfer = t /\ q.lines = req[w].lines
      BY <1>0, <1>2, <1>3, LineReceivedColumns
    <2>3. /\ DOMAIN q.rows = DOMAIN req[w].rows
          /\ \A l \in DOMAIN req[w].rows \ {line.line} : q.rows[l] = req[w].rows[l]
          /\ q.rows[line.line] = [req[w].rows[line.line] EXCEPT !.received = @ + line.qty]
      BY <1>0, <1>2, <1>3, LineReceivedRows
    <2> QED
      BY <2>1, <2>2, <2>3
  <1>5. q.rows[line.line].received = req[w].rows[line.line].received + line.qty
    <2>1. req[w].rows[line.line] \in Item
      BY <1>2, <1>3, RowTypes DEF RequestRecord
    <2> QED
      BY <1>4, <2>1 DEF Item
  <1>6. /\ QtyOf(req[w].asked, line.line) = line.qty
        /\ line.line \notin LinesOf(rest)
        /\ LinesOf(req[w].lines) = LinesOf(rest) \cup {line.line}
    BY <1>1, <1>2, NextLine
  <1>7. Remaining(req[w]) = req[w].lines /\ Remaining(q) = rest
    BY <1>1, <1>4 DEF Remaining, InLine
  <1>8. \A l \in DOMAIN req[w].rows :
          /\ req[w].rows[l].received <= billed[t][l] + QtyOf(req[w].asked, l)
          /\ l \in LinesOf(req[w].lines) => req[w].rows[l].received <= billed[t][l]
    BY <1>1, <1>7 DEF BillsInvariant, Backed
  <1>9. ASSUME NEW l \in DOMAIN req[w].rows
        PROVE  /\ q.rows[l].received <= billed[t][l] + QtyOf(req[w].asked, l)
               /\ l \in LinesOf(rest) => q.rows[l].received <= billed[t][l]
    <2>1. CASE l = line.line
      <3>1. /\ billed[t][l] \in Nat /\ req[w].rows[l].received \in Nat
            /\ QtyOf(req[w].asked, l) \in Nat
        BY <1>1, BillTypes
      <3>2. /\ req[w].rows[l].received <= billed[t][l]
            /\ q.rows[l].received = req[w].rows[l].received + QtyOf(req[w].asked, l)
        BY <1>5, <1>6, <1>8, <2>1
      <3>3. l \notin LinesOf(rest)
        BY <1>6, <2>1
      <3> QED
        BY <3>1, <3>2, <3>3
    <2>2. CASE l # line.line
      BY <1>4, <1>6, <1>8, <2>2
    <2> QED
      BY <2>1, <2>2
  <1>10. Backed(q)'
    BY <1>3, <1>4, <1>7, <1>9 DEF Backed
  <1> QED
    BY <1>0, <1>10

(* A request's own step, and the end of one.                               *)
LEMMA OwnBacked ==
    ASSUME TransferInvariant, BillsInvariant, NEW w \in Workers, ~Idle(w)',
           Open(w) \/ Proceed(w) \/ Abandon(w) \/ BreakDeadlock(w)
    PROVE  Backed(req[w])'
  <1>1. req \in [Workers -> RequestRecord \cup {NoRequest}]
    BY DEF TransferInvariant
  <1>2. CASE Open(w)
    BY <1>1, <1>2 DEF Open, OpenDispatch, OpenReceive, Request, Backed
  <1>3. CASE IssueStatement(w)
    BY <1>1, <1>3 DEF IssueStatement, At, Backed
  <1>4. CASE Saving(w)
    <2>1. billed' = billed
      BY <1>4 DEF Saving, LoadRow, WriteRow, BalanceStatement, Refresh,
         LoadHead, WriteHead, InsertInvoice
    <2>2. Backed(req[w]) /\ ~Idle(w) /\ req[w].at \notin {"issue", "find"}
      BY <1>4, CopiesKept DEF BillsInvariant
    <2> QED
      BY <1>4, <2>1, <2>2, CopiesKept DEF Backed
  <1>5. ~Abandon(w) /\ ~BreakDeadlock(w) /\ ~CommitDispatch(w) /\ ~CommitReceive(w)
    BY <1>1 DEF Abandon, BreakDeadlock, CommitDispatch, CommitReceive, End
  <1> QED
    BY <1>2, <1>3, <1>4, <1>5, FindItemsBacked, ReceiveLineBacked
    DEF Proceed, Saving

LEMMA OthersKept ==
    ASSUME TransferInvariant, NEW w \in Workers, NEW v \in Workers \ {w},
           Open(w) \/ Proceed(w) \/ Abandon(w) \/ BreakDeadlock(w)
    PROVE  req'[v] = req[v]
  BY DEF TransferInvariant, Open, OpenDispatch, OpenReceive, Proceed,
     IssueStatement, CommitDispatch, FindItems, ReceiveLine, LoadRow,
     WriteRow, BalanceStatement, Refresh, LoadHead, WriteHead,
     InsertInvoice, CommitReceive, Abandon, BreakDeadlock, End

(* Bills only grow, and by what the receipt asked for.                     *)
LEMMA BillsGrow ==
    ASSUME TransferInvariant, NEW w \in Workers, CommitReceive(w)
    PROVE  /\ \A t \in TransferIds, l \in LineNos :
                billed'[t][l] \in Nat /\ billed[t][l] <= billed'[t][l]
           /\ \A l \in LineNos :
                billed'[req[w].transfer][l]
                  = billed[req[w].transfer][l] + QtyOf(req[w].asked, l)
           /\ \A t \in TransferIds \ {req[w].transfer} : billed'[t] = billed[t]
  <1>1. /\ ~Idle(w) /\ req[w].at = "commit"
        /\ billed' = [billed EXCEPT ![req[w].transfer] =
             [l \in LineNos |-> billed[req[w].transfer][l] + QtyOf(req[w].bill, l)]]
    BY DEF CommitReceive, At
  <1>2. /\ req[w].bill = req[w].asked /\ req[w].asked \in LineLists
        /\ req[w].transfer \in TransferIds
    BY <1>1, ReceiptFacts DEF ReceiveRequest, TransferInvariant
  <1>3. \A l \in LineNos : QtyOf(req[w].asked, l) \in Nat
    BY <1>2, QtyOfTypes
  <1>4. \A t \in TransferIds, l \in LineNos : billed[t][l] \in Nat
    BY DEF TransferInvariant
  <1> QED
    BY <1>1, <1>2, <1>3, <1>4 DEF TransferInvariant

LEMMA CommitReceiveTotals ==
    ASSUME TransferInvariant, BillsInvariant, NEW w \in Workers, CommitReceive(w)
    PROVE  TotalsBackedByBills'
  <1> DEFINE t == req[w].transfer
  <1>1. /\ ~Idle(w) /\ req[w].at = "commit" /\ t \in DOMAIN items
        /\ items' = [items EXCEPT ![t] = RowsSeen(w)]
        /\ DOMAIN items \subseteq TransferIds
    BY ReceiptFacts DEF CommitReceive, At, TransferInvariant
  <1>2. ASSUME NEW l \in DOMAIN RowsSeen(w)
        PROVE  RowsSeen(w)[l].received <= billed'[t][l]
    <2>1. l \in DOMAIN items[t] /\ l \in DOMAIN req[w].rows
      BY <1>1, RowsSeenTypes, ReceiptFacts
    <2>2. /\ req[w].rows[l].received <= billed[t][l] + QtyOf(req[w].asked, l)
          /\ items[t][l].received <= billed[t][l]
      BY <1>1, <2>1 DEF BillsInvariant, Backed, TotalsBackedByBills
    <2>3. /\ l \in LineNos /\ billed[t][l] \in Nat /\ QtyOf(req[w].asked, l) \in Nat
          /\ items[t][l].received \in Nat
      BY <1>1, <2>1, BillTypes
    <2>4. billed'[t][l] = billed[t][l] + QtyOf(req[w].asked, l)
      BY <2>3, BillsGrow
    <2>5. RowsSeen(w)[l].received \in {req[w].rows[l].received, items[t][l].received}
      BY <1>1, RowsSeenTypes
    <2> QED
      BY <2>2, <2>3, <2>4, <2>5
  <1>3. ASSUME NEW u \in DOMAIN items \ {t}, NEW l \in DOMAIN items[u]
        PROVE  items[u][l].received <= billed'[u][l]
    BY <1>1, <1>3, BillsGrow DEF BillsInvariant, TotalsBackedByBills
  <1> HIDE DEF t
  <1> QED
    BY <1>1, <1>2, <1>3 DEF TotalsBackedByBills

LEMMA NextBillsInvariant ==
    TransferInvariant /\ BillsInvariant /\ [TransferNext]_vars => BillsInvariant'
  <1> SUFFICES ASSUME TransferInvariant, BillsInvariant, [TransferNext]_vars
               PROVE  BillsInvariant'
    OBVIOUS
  <1>1. ASSUME NEW w \in Workers, CommitReceive(w)
        PROVE  BillsInvariant'
    <2>1. TotalsBackedByBills'
      BY <1>1, CommitReceiveTotals
    <2>2. ASSUME NEW v \in Workers, ~Idle(v)'
          PROVE  Backed(req[v])'
      <3>1. v # w
        BY <1>1, <2>2 DEF CommitReceive, End, TransferInvariant
      <3>2. req'[v] = req[v] /\ ~Idle(v)
        BY <1>1, <2>2, <3>1, OthersKept DEF Proceed
      <3>3. CASE req[v].at \in {"issue", "find"}
        BY <3>2, <3>3 DEF Backed
      <3>4. ASSUME req[v].at \notin {"issue", "find"}, NEW l \in DOMAIN req[v].rows
            PROVE  /\ req[v].rows[l].received
                        <= billed'[req[v].transfer][l] + QtyOf(req[v].asked, l)
                   /\ l \in LinesOf(Remaining(req[v]))
                        => req[v].rows[l].received <= billed'[req[v].transfer][l]
        <4>1. /\ req[v].rows[l].received
                    <= billed[req[v].transfer][l] + QtyOf(req[v].asked, l)
              /\ l \in LinesOf(Remaining(req[v]))
                    => req[v].rows[l].received <= billed[req[v].transfer][l]
          BY <3>2, <3>4 DEF BillsInvariant, Backed
        <4>2. /\ l \in LineNos /\ billed[req[v].transfer][l] \in Nat
              /\ req[v].rows[l].received \in Nat /\ QtyOf(req[v].asked, l) \in Nat
              /\ req[v].transfer \in TransferIds
          BY <3>2, <3>4, BillTypes, BusyRecord DEF TransferInvariant
        <4>3. /\ billed'[req[v].transfer][l] \in Nat
              /\ billed[req[v].transfer][l] <= billed'[req[v].transfer][l]
          BY <1>1, <4>2, BillsGrow
        <4> QED
          BY <4>1, <4>2, <4>3
      <3>5. Remaining(req[v])' = Remaining(req[v])
        BY <3>2 DEF Remaining, InLine
      <3> QED
        BY <3>2, <3>3, <3>4, <3>5 DEF Backed
    <2> QED
      BY <2>1, <2>2 DEF BillsInvariant
  <1>2. ASSUME NEW w \in Workers, CommitDispatch(w)
        PROVE  TotalsBackedByBills'
    <2> DEFINE t == req[w].transfer
    <2>1. /\ ~Idle(w) /\ req[w].at = "issue" /\ billed' = billed
          /\ items' = [u \in DOMAIN items \cup {t} |->
                         IF u = t THEN req[w].rows ELSE items[u]]
      BY <1>2 DEF CommitDispatch, At
    <2>2. /\ DispatchRequest(req[w]) /\ OwnTransfer(w) /\ t \in TransferIds
      BY <2>1, BusyRecord DEF TransferInvariant, RequestsGrounded, ReceiveRequest
    <2>3. ASSUME NEW l \in DOMAIN req[w].rows
          PROVE  req[w].rows[l].received <= billed[t][l]
      <3>1. req[w].rows[l].received = 0 /\ l \in LineNos
        BY <2>2, <2>3, NewRowsTypes, RowTypes DEF DispatchRequest
      <3>2. billed[t][l] \in Nat
        BY <2>2, <3>1 DEF TransferInvariant
      <3> QED
        BY <3>1, <3>2
    <2> HIDE DEF t
    <2> QED
      BY <2>1, <2>3 DEF TotalsBackedByBills, BillsInvariant
  <1>3. CASE ~ \E w \in Workers : CommitReceive(w)
    <2>1. billed' = billed
      BY <1>3, OnlyCommitsMove DEF CommitDispatch
    <2>2. TotalsBackedByBills'
      <3>1. CASE \E w \in Workers : CommitDispatch(w)
        BY <3>1, <1>2
      <3>2. CASE ~ \E w \in Workers : CommitDispatch(w)
        BY <1>3, <3>2, OnlyCommitsMove DEF TotalsBackedByBills, BillsInvariant
      <3> QED
        BY <3>1, <3>2
    <2>3. ASSUME NEW v \in Workers, ~Idle(v)', req'[v] = req[v]
          PROVE  Backed(req[v])'
      <3>1. Backed(req[v])
        BY <2>3 DEF BillsInvariant
      <3> QED
        BY <2>1, <2>3, <3>1 DEF Backed, Remaining, InLine
    <2>4. ASSUME NEW v \in Workers, ~Idle(v)'
          PROVE  Backed(req[v])'
      <3>1. CASE UNCHANGED vars
        BY <2>3, <2>4, <3>1 DEF vars, transferVars
      <3>2. CASE TransferNext
        BY <2>3, <2>4, <3>2, OthersKept, OwnBacked DEF TransferNext
      <3> QED
        BY <3>1, <3>2
    <2> QED
      BY <2>2, <2>4 DEF BillsInvariant
  <1> QED
    BY <1>1, <1>3

(* Whatever overlaps, a line never shows more received than was billed.    *)
THEOREM TotalsAreBacked == TransferSpec => []TotalsBackedByBills
  <1>1. TransferInit => BillsInvariant
    BY DEF TransferInit, BillsInvariant, TotalsBackedByBills
  <1>2. BillsInvariant => TotalsBackedByBills
    BY DEF BillsInvariant
  <1> QED
    BY <1>1, <1>2, NextBillsInvariant, TransferInvariantHolds, PTL DEF TransferSpec
----------------------------------------------------------------------------
(* Transfers that no two requests worked on at once.  Their one receipt    *)
(* has the rows to itself: its copies are the rows as committed, plus its  *)
(* own quantities for the lines it has been through, and its UPDATEs set   *)
(* all that differs.                                                       *)

TransferAgrees(head, rows, bill) ==
    /\ \A l \in DOMAIN rows :
         rows[l].received = bill[l] /\ rows[l].received <= rows[l].dispatched
    /\ head.status = "received" <=> AllIn(rows)
    /\ head.status = "dispatched" <=> ~AnyIn(rows)
    /\ head.receivedAt <=> AllIn(rows)

(* The lines a request has still to write.                                 *)
Unwritten(r) == IF r.at = "balance" THEN Tail(r.lines) ELSE r.lines

Added(r, l) == IF l \in LinesOf(Remaining(r)) THEN 0 ELSE QtyOf(r.asked, l)

RowsFit(r, now) ==
    /\ \A l \in DOMAIN r.rows :
         /\ r.rows[l].received = now[l].received + Added(r, l)
         /\ r.rows[l].received <= r.rows[l].dispatched
    /\ LinesOf(r.asked) \ LinesOf(Remaining(r)) \subseteq DOMAIN r.rows

RowsWritten(r) ==
    /\ \A l \in LinesOf(r.asked) \ LinesOf(Unwritten(r)) : "received" \in r.rowsSet[l]
    /\ r.at = "writeRow" => "received" \in r.diff

HeadFits(r, head) ==
    /\ r.head = IF LinesDone(r) THEN WithStatus(head, r.rows) ELSE head
    /\ r.at = "writeHead" => r.diff = Differing(r.head, head)
    /\ r.at \in {"invoice", "commit"} => r.headSet = Differing(r.head, head)

(* r has the transfer whose committed header and rows are head and now to  *)
(* itself.                                                                 *)
ReceiptFits(r, head, now) ==
    IF r.at = "find" THEN r.head = head
    ELSE RowsFit(r, now) /\ RowsWritten(r) /\ HeadFits(r, head)

OneRequest ==
    \A w, v \in Workers :
        w # v /\ ~Idle(w) /\ On(v, req[w].transfer) => req[w].transfer \in overlapped

Undisturbed(w) ==
    ~Idle(w) /\ req[w].op = "receive" /\ req[w].transfer \notin overlapped =>
        ReceiptFits(req[w], transfer[req[w].transfer], items[req[w].transfer])

AloneInvariant ==
    OneRequest /\ UncontendedTransfersAgree /\ \A w \in Workers : Undisturbed(w)

LEMMA AgreeIs ==
    UncontendedTransfersAgree <=>
        \A t \in DOMAIN transfer \ overlapped :
            TransferAgrees(transfer[t], items[t], billed[t])
  BY DEF UncontendedTransfersAgree, TransferAgrees

(* What is committed of the transfer a receipt is for.                     *)
HeadNow(w) == transfer[req[w].transfer]
RowsNow(w) == items[req[w].transfer]

(* Once through its lines, the transaction sees the rows as its copies.    *)
LEMMA RowsSeenAreCopies ==
    ASSUME TransferInvariant, NEW w \in Workers, ~Idle(w), req[w].at # "issue",
           ~InLine(req[w]), req[w].lines = <<>>,
           RowsFit(req[w], RowsNow(w)), RowsWritten(req[w])
    PROVE  /\ RowsSeen(w) = req[w].rows
           /\ \A l \in DOMAIN req[w].rows :
                req[w].rows[l].received
                  = RowsNow(w)[l].received + QtyOf(req[w].asked, l)
  <1> DEFINE r == req[w]
             now == items[r.transfer]
             seen == RowsSeen(w)
  <1>1. /\ r.rows \in RowTables /\ now \in RowTables /\ DOMAIN r.rows = DOMAIN now
        /\ RowsKnown(r) /\ r.asked \in LineLists
    BY ReceiptFacts
  <1>2. /\ seen \in RowTables /\ DOMAIN seen = DOMAIN now
        /\ \A l \in DOMAIN now :
             /\ seen[l].dispatched = now[l].dispatched
             /\ seen[l].received = IF "received" \in r.rowsSet[l]
                                   THEN r.rows[l].received ELSE now[l].received
    BY RowsSeenTypes
  <1>3. LinesOf(Remaining(r)) = {} /\ LinesOf(Unwritten(r)) = {}
    BY NoLines DEF Remaining, Unwritten, InLine
  <1>4. \A l \in LinesOf(r.asked) : "received" \in r.rowsSet[l]
    BY <1>3 DEF RowsWritten
  <1>5. \A l \in DOMAIN r.rows : r.rows[l].received = now[l].received + QtyOf(r.asked, l)
    BY <1>3 DEF RowsFit, Added, RowsNow
  <1>6. \A l \in DOMAIN r.rows : r.rows[l].dispatched = now[l].dispatched
    BY <1>1 DEF RowsKnown
  <1>7. ASSUME NEW l \in DOMAIN now
        PROVE  seen[l] = r.rows[l]
    <2>1. seen[l] \in Item /\ r.rows[l] \in Item /\ now[l].received \in Nat
      BY <1>1, <1>2, RowTypes
    <2>2. seen[l].dispatched = r.rows[l].dispatched
      BY <1>1, <1>2, <1>6
    <2>3. seen[l].received = r.rows[l].received
      <3>1. CASE l \in LinesOf(r.asked)
        BY <1>2, <1>4, <3>1
      <3>2. CASE l \notin LinesOf(r.asked)
        <4>1. QtyOf(r.asked, l) = 0
          BY <1>1, <3>2, QtyOfNoLine
        <4>2. r.rows[l].received = now[l].received
          BY <1>1, <1>5, <2>1, <4>1
        <4> QED
          BY <1>2, <4>2
      <3> QED
        BY <3>1, <3>2
    <2> HIDE DEF r, seen, now
    <2> QED
      BY <2>1, <2>2, <2>3 DEF Item
  <1> HIDE DEF seen, now
  <1>8. seen = r.rows
    <2>1. seen \in [DOMAIN now -> Item] /\ r.rows \in [DOMAIN now -> Item]
      BY <1>1, <1>2, RowTypes
    <2> QED
      BY <1>7, <2>1
  <1> QED
    BY <1>5, <1>8 DEF seen, now, RowsNow

(* The rows a receipt leaves behind, and the header they give.             *)
LEMMA StatusAgrees ==
    ASSUME NEW head \in Header, NEW now \in RowTables, NEW rows \in RowTables,
           NEW bill, NEW more, TransferAgrees(head, now, bill),
           DOMAIN rows = DOMAIN now, DOMAIN now # {},
           \A l \in DOMAIN now :
               /\ rows[l].dispatched = now[l].dispatched
               /\ rows[l].received <= rows[l].dispatched
               /\ rows[l].received >= now[l].received
               /\ rows[l].received = more[l]
    PROVE  TransferAgrees(WithStatus(head, rows), rows, more)
  <1>1. \A l \in DOMAIN now :
          /\ rows[l].received \in Nat /\ now[l].received \in Nat
          /\ rows[l].dispatched \in Nat \ {0}
    BY RowTypes
  <1>2. AllIn(rows) => AnyIn(rows)
    BY <1>1 DEF AllIn, AnyIn
  <1>3. AllIn(now) => AllIn(rows)
    BY <1>1 DEF AllIn
  <1>4. AnyIn(now) => AnyIn(rows)
    BY <1>1 DEF AnyIn
  <1>5. head.status \in {"dispatched", "partial", "received"} /\ head.receivedAt \in BOOLEAN
        /\ DOMAIN head = {"status", "receivedAt"}
    BY DEF Header
  <1> DEFINE new == WithStatus(head, rows)
  <1>6. /\ new.status = "received" <=> AllIn(rows)
        /\ new.status = "dispatched" <=> ~AnyIn(rows)
        /\ new.receivedAt <=> AllIn(rows)
    <2>1. CASE AllIn(rows)
      BY <1>2, <2>1 DEF WithStatus
    <2>2. CASE ~AllIn(rows) /\ AnyIn(rows)
      <3>1. new = [head EXCEPT !.status = "partial"]
        BY <2>2 DEF WithStatus
      <3>2. new.status = "partial" /\ new.receivedAt = head.receivedAt
        BY <1>5, <3>1
      <3>3. ~head.receivedAt
        BY <1>3, <2>2 DEF TransferAgrees
      <3> QED
        BY <2>2, <3>2, <3>3
    <2>3. CASE ~AllIn(rows) /\ ~AnyIn(rows)
      BY <1>3, <1>4, <2>3 DEF WithStatus, TransferAgrees
    <2> QED
      BY <2>1, <2>2, <2>3
  <1> HIDE DEF new
  <1>7. \A l \in DOMAIN rows :
          rows[l].received = more[l] /\ rows[l].received <= rows[l].dispatched
    OBVIOUS
  <1> QED
    BY <1>6, <1>7 DEF TransferAgrees, new

(* Setting the columns that differ makes a row of its copy.                *)
LEMMA OverlayIsCopy ==
    ASSUME NEW old \in Header, NEW new \in Header
    PROVE  Overlay(old, new, Differing(new, old)) = new
  <1>1. DOMAIN old = {"status", "receivedAt"} /\ DOMAIN new = {"status", "receivedAt"}
    BY DEF Header
  <1>2. Overlay(old, new, Differing(new, old)) = [c \in {"status", "receivedAt"} |-> new[c]]
    BY <1>1 DEF Overlay, Differing
  <1>3. new = [c \in {"status", "receivedAt"} |-> new[c]]
    BY DEF Header
  <1> QED
    BY <1>2, <1>3

LEMMA FindItemsFits ==
    ASSUME TransferInvariant, AloneInvariant, NEW w \in Workers, FindItems(w),
           ~Idle(w)', req[w].transfer \notin overlapped
    PROVE  ReceiptFits(req'[w], HeadNow(w), RowsNow(w))
  <1>1. ~Idle(w) /\ req[w].at = "find"
    BY DEF FindItems, At
  <1>2. /\ ReceiveRequest(req[w]) /\ req[w] \in RequestRecord
        /\ req \in [Workers -> RequestRecord \cup {NoRequest}]
        /\ req[w].transfer \in DOMAIN transfer /\ RowsNow(w) \in RowTables
        /\ req[w].asked \in LineLists /\ DOMAIN req[w].rows = DOMAIN RowsNow(w)
    BY <1>1, ReceiptFacts DEF TransferInvariant, RowsNow
  <1>3. PICK q : q = req'[w]
    OBVIOUS
  <1>4. /\ q.rows = RowsNow(w) /\ q.asked = req[w].asked /\ q.lines = q.asked
        /\ q.head = req[w].head /\ q.at = "receive" /\ q.transfer = req[w].transfer
        /\ q.rowsSet = req[w].rowsSet
    BY <1>1, <1>2, <1>3 DEF FindItems, RequestRecord, End, ReceiveRequest, RowsNow
  <1>5. Remaining(q) = q.asked /\ Unwritten(q) = q.asked
    BY <1>4 DEF Remaining, Unwritten, InLine
  <1>6. \A l \in DOMAIN q.rows :
          /\ q.rows[l].received \in Nat
          /\ q.rows[l].received <= q.rows[l].dispatched
    BY <1>2, <1>4, RowTypes DEF AloneInvariant, UncontendedTransfersAgree, RowsNow
  <1>7. \A l \in DOMAIN q.rows : Added(q, l) = 0
    BY <1>2, <1>4, <1>5, QtyOfNoLine DEF Added
  <1>8. RowsFit(q, RowsNow(w))
    BY <1>4, <1>5, <1>6, <1>7 DEF RowsFit
  <1>9. RowsWritten(q)
    BY <1>4, <1>5 DEF RowsWritten
  <1>10. req[w].head = HeadNow(w)
    BY <1>1, <1>2 DEF AloneInvariant, Undisturbed, ReceiptFits, ReceiveRequest,
       HeadNow
  <1>11. HeadFits(q, HeadNow(w))
    BY <1>4, <1>10 DEF HeadFits, LinesDone
  <1> QED
    BY <1>3, <1>4, <1>8, <1>9, <1>11 DEF ReceiptFits

LEMMA FitsNow ==
    ASSUME TransferInvariant, AloneInvariant, NEW w \in Workers, ~Idle(w),
           req[w].at \notin {"issue", "find"}, req[w].transfer \notin overlapped
    PROVE  /\ RowsFit(req[w], RowsNow(w)) /\ RowsWritten(req[w])
           /\ HeadFits(req[w], HeadNow(w))
  <1>1. ReceiveRequest(req[w])
    BY ReceiptFacts
  <1> QED
    BY <1>1 DEF AloneInvariant, Undisturbed, ReceiptFits, ReceiveRequest, HeadNow,
       RowsNow

LEMMA ReceiveLineFits ==
    ASSUME TransferInvariant, AloneInvariant, NEW w \in Workers, ReceiveLine(w),
           ~Idle(w)', req[w].transfer \notin overlapped
    PROVE  ReceiptFits(req'[w], HeadNow(w), RowsNow(w))
  <1> DEFINE line == Head(req[w].lines)
             rest == Tail(req[w].lines)
             r == req[w]
  <1>1. ~Idle(w) /\ r.at = "receive" /\ r.lines # <<>>
    BY DEF ReceiveLine, At
  <1>2. /\ r \in RequestRecord /\ ReceiveRequest(r) /\ r.rows \in RowTables
        /\ req \in [Workers -> RequestRecord \cup {NoRequest}]
        /\ r.asked \in LineLists /\ r.lines \in Seq(Quantity)
        /\ Suffix(r.lines, r.asked) /\ RowsNow(w) \in RowTables
        /\ DOMAIN r.rows = DOMAIN RowsNow(w)
    BY <1>1, ReceiptFacts DEF TransferInvariant, ReceiveRequest, RowsNow
  <1>3. /\ line.line \in DOMAIN r.rows /\ Fits(r.rows[line.line], line.qty)
        /\ LineReceived(w) /\ DOMAIN req = Workers
    BY <1>2, ReceiveLineIs DEF LineTaken, End
  <1>4. PICK q : q = req'[w]
    OBVIOUS
  <1>5. /\ q.asked = r.asked /\ q.head = r.head /\ q.rowsSet = r.rowsSet
        /\ q.at = "loadRow" /\ q.lines = r.lines /\ q.headSet = r.headSet
        /\ DOMAIN q.rows = DOMAIN r.rows
        /\ \A l \in DOMAIN r.rows \ {line.line} : q.rows[l] = r.rows[l]
        /\ q.rows[line.line] = [r.rows[line.line] EXCEPT !.received = @ + line.qty]
    <2>1. q.at = "loadRow"
      BY <1>2, <1>3, <1>4, LineReceivedIs
    <2>2. /\ q.asked = r.asked /\ q.head = r.head /\ q.rowsSet = r.rowsSet
          /\ q.lines = r.lines /\ q.headSet = r.headSet
      BY <1>2, <1>3, <1>4, LineReceivedColumns
    <2>3. /\ DOMAIN q.rows = DOMAIN r.rows
          /\ \A l \in DOMAIN r.rows \ {line.line} : q.rows[l] = r.rows[l]
          /\ q.rows[line.line] = [r.rows[line.line] EXCEPT !.received = @ + line.qty]
      BY <1>2, <1>3, <1>4, LineReceivedRows
    <2> QED
      BY <2>1, <2>2, <2>3
  <1>6. /\ q.rows[line.line].received = r.rows[line.line].received + line.qty
        /\ q.rows[line.line].dispatched = r.rows[line.line].dispatched
    <2>1. r.rows[line.line] \in Item
      BY <1>2, <1>3, RowTypes
    <2> QED
      BY <1>5, <2>1 DEF Item
  <1>7. /\ QtyOf(r.asked, line.line) = line.qty /\ line.line \notin LinesOf(rest)
        /\ LinesOf(r.lines) = LinesOf(rest) \cup {line.line}
        /\ line.line \in LinesOf(r.asked)
    BY <1>1, <1>2, NextLine
  <1>8. /\ Remaining(r) = r.lines /\ Unwritten(r) = r.lines
        /\ Remaining(q) = rest /\ Unwritten(q) = r.lines
    BY <1>1, <1>5 DEF Remaining, Unwritten, InLine
  <1>9. RowsFit(r, RowsNow(w)) /\ RowsWritten(r) /\ HeadFits(r, HeadNow(w))
    BY <1>1, FitsNow
  <1> HIDE DEF r, line, rest
  <1>10. RowsFit(q, RowsNow(w))
    <2>1. ASSUME NEW l \in DOMAIN q.rows
          PROVE  /\ q.rows[l].received = RowsNow(w)[l].received + Added(q, l)
                 /\ q.rows[l].received <= q.rows[l].dispatched
      <3>1. /\ r.rows[l].received = RowsNow(w)[l].received + Added(r, l)
            /\ r.rows[l].received <= r.rows[l].dispatched
        BY <1>5, <1>9 DEF RowsFit
      <3>2. CASE l = line.line
        <4>1. Added(r, l) = 0 /\ Added(q, l) = line.qty
          BY <1>5, <1>7, <1>8, <3>2 DEF Added
        <4>2. r.rows[l].received = RowsNow(w)[l].received
          <5>1. RowsNow(w)[l].received \in Nat
            BY <1>2, <1>3, <3>2, RowTypes
          <5> QED
            BY <3>1, <4>1, <5>1
        <4>3. q.rows[l].received <= q.rows[l].dispatched
          BY <1>3, <1>6, <3>2 DEF Fits
        <4> QED
          BY <1>6, <3>2, <4>1, <4>2, <4>3
      <3>3. CASE l # line.line
        <4>1. Added(q, l) = Added(r, l)
          BY <1>5, <1>7, <1>8, <3>3 DEF Added
        <4> QED
          BY <1>5, <3>1, <3>3, <4>1
      <3> QED
        BY <3>2, <3>3
    <2>2. LinesOf(q.asked) \ LinesOf(Remaining(q)) \subseteq DOMAIN q.rows
      BY <1>3, <1>5, <1>7, <1>8, <1>9 DEF RowsFit
    <2> QED
      BY <2>1, <2>2 DEF RowsFit
  <1>11. RowsWritten(q)
    BY <1>5, <1>8, <1>9 DEF RowsWritten
  <1>12. HeadFits(q, HeadNow(w))
    BY <1>1, <1>5, <1>9 DEF HeadFits, LinesDone, r
  <1> QED
    BY <1>4, <1>5, <1>10, <1>11, <1>12 DEF ReceiptFits

(* The statements between a line's receipt and the commit.                 *)
LEMMA SavingFits ==
    ASSUME TransferInvariant, AloneInvariant, NEW w \in Workers, Saving(w),
           ~Idle(w)', req[w].transfer \notin overlapped
    PROVE  ReceiptFits(req'[w], HeadNow(w), RowsNow(w))
  <1> DEFINE r == req[w]
  <1>1. ~Idle(w) /\ r.at \notin {"issue", "find"}
    BY CopiesKept
  <1>2. /\ r \in RequestRecord /\ ReceiveRequest(r)
        /\ req \in [Workers -> RequestRecord \cup {NoRequest}]
        /\ r.asked \in LineLists /\ r.lines \in Seq(Quantity)
        /\ Suffix(r.lines, r.asked)
    BY <1>1, ReceiptFacts DEF TransferInvariant, ReceiveRequest
  <1>3. RowsFit(r, RowsNow(w)) /\ RowsWritten(r) /\ HeadFits(r, HeadNow(w))
    BY <1>1, FitsNow
  <1>4. PICK q : q = req'[w]
    OBVIOUS
  <1>5. /\ q.rows = r.rows /\ q.asked = r.asked /\ q.at \notin {"issue", "find"}
        /\ Remaining(q) = Remaining(r)
    <2>1. /\ req'[w].rows = req[w].rows /\ req'[w].asked = req[w].asked
          /\ req'[w].at \notin {"issue", "find"}
          /\ Remaining(req[w])' = Remaining(req[w])
      BY CopiesKept
    <2>2. Remaining(req[w])' = Remaining(q)
      BY <1>4 DEF Remaining, InLine
    <2> QED
      BY <1>4, <2>1, <2>2
  <1>6. RowsFit(q, RowsNow(w))
    BY <1>3, <1>5 DEF RowsFit, Added
  <1>7. RowsWritten(q) /\ HeadFits(q, HeadNow(w))
    <2>1. CASE LoadRow(w)
      <3>1. /\ r.at = "loadRow" /\ q.at = "writeRow" /\ "received" \in q.diff
            /\ q.lines = r.lines /\ q.rowsSet = r.rowsSet /\ q.head = r.head
        BY <1>1, <1>2, <1>4, <2>1 DEF LoadRow, At, RequestRecord
      <3> QED
        BY <1>3, <1>5, <3>1 DEF RowsWritten, Unwritten, HeadFits, LinesDone
    <2>2. CASE WriteRow(w)
      <3> DEFINE l == Head(r.lines).line
      <3>1. /\ r.at = "writeRow" /\ q.at = "balance" /\ r.lines # <<>>
            /\ q.lines = r.lines /\ q.head = r.head
            /\ req' = [req EXCEPT ![w].rowsSet[l] = r.diff, ![w].diff = {},
                              ![w].locks = @ \cup {l}, ![w].at = "balance"]
        BY <1>1, <1>2, <1>4, <2>2
        DEF WriteRow, At, RequestRecord, ReceiveRequest, InLine
      <3>2. /\ l \in LineNos /\ LinesOf(r.lines) = LinesOf(Tail(r.lines)) \cup {l}
        BY <1>2, <3>1, NextLine
      <3>3. "received" \in r.diff
        BY <1>3, <3>1 DEF RowsWritten
      <3> HIDE DEF l
      <3>4. q.rowsSet[l] = r.diff /\ \A m \in LineNos \ {l} : q.rowsSet[m] = r.rowsSet[m]
        BY <1>2, <1>4, <3>1, <3>2 DEF RequestRecord
      <3>5. LinesOf(r.asked) \subseteq LineNos
        BY <1>2, ListTypes
      <3>6. RowsWritten(q)
        BY <1>3, <1>5, <3>1, <3>2, <3>3, <3>4, <3>5 DEF RowsWritten, Unwritten
      <3> QED
        BY <1>3, <3>1, <3>6 DEF HeadFits, LinesDone
    <2>3. CASE BalanceStatement(w)
      <3>1. CASE req' = req
        BY <1>3, <1>4, <3>1
      <3>2. CASE req' # req
        <4>1. /\ r.at = "balance" /\ q.at = "receive" /\ q.lines = Tail(r.lines)
              /\ q.rowsSet = r.rowsSet /\ q.head = r.head
          BY <1>1, <1>2, <1>4, <2>3, <3>2 DEF BalanceStatement, At, RequestRecord
        <4> QED
          BY <1>3, <1>5, <4>1 DEF RowsWritten, Unwritten, HeadFits, LinesDone
      <3> QED
        BY <3>1, <3>2
    <2>4. CASE Refresh(w)
      <3>1. /\ r.at = "receive" /\ q.at = "loadHead" /\ r.lines = <<>>
            /\ q.lines = r.lines /\ q.rowsSet = r.rowsSet
            /\ q.head = WithStatus(r.head, RowsSeen(w))
        BY <1>1, <1>2, <1>4, <2>4 DEF Refresh, At, RequestRecord
      <3>2. RowsSeen(w) = r.rows
        BY <1>1, <1>3, <3>1, RowsSeenAreCopies DEF InLine
      <3>3. r.head = HeadNow(w)
        BY <1>3, <3>1 DEF HeadFits, LinesDone
      <3>4. RowsWritten(q)
        BY <1>3, <1>5, <3>1 DEF RowsWritten, Unwritten
      <3> QED
        BY <1>5, <3>1, <3>2, <3>3, <3>4 DEF HeadFits, LinesDone
    <2>5. CASE LoadHead(w)
      <3>1. /\ r.at = "loadHead" /\ q.at = "writeHead" /\ q.lines = r.lines
            /\ q.rowsSet = r.rowsSet /\ q.head = r.head
            /\ q.diff = Differing(r.head, HeadNow(w))
        BY <1>1, <1>2, <1>4, <2>5 DEF LoadHead, At, RequestRecord, HeadNow
      <3> QED
        BY <1>3, <1>5, <3>1 DEF RowsWritten, Unwritten, HeadFits, LinesDone
    <2>6. CASE WriteHead(w)
      <3>1. /\ r.at = "writeHead" /\ q.at = "invoice" /\ q.lines = r.lines
            /\ q.rowsSet = r.rowsSet /\ q.head = r.head /\ q.headSet = r.diff
        BY <1>1, <1>2, <1>4, <2>6 DEF WriteHead, At, RequestRecord
      <3> QED
        BY <1>3, <1>5, <3>1 DEF RowsWritten, Unwritten, HeadFits, LinesDone
    <2>7. CASE InsertInvoice(w)
      <3>1. /\ r.at = "invoice" /\ q.at = "commit" /\ q.lines = r.lines
            /\ q.rowsSet = r.rowsSet /\ q.head = r.head /\ q.headSet = r.headSet
        BY <1>1, <1>2, <1>4, <2>7 DEF InsertInvoice, At, RequestRecord
      <3> QED
        BY <1>3, <1>5, <3>1 DEF RowsWritten, Unwritten, HeadFits, LinesDone
    <2> QED
      BY <2>1, <2>2, <2>3, <2>4, <2>5, <2>6, <2>7 DEF Saving
  <1> QED
    BY <1>4, <1>5, <1>6, <1>7 DEF ReceiptFits

(* What such a receipt commits is its copies, and they agree with what has *)
(* then been billed.                                                       *)
LEMMA CommitReceiveAlone ==
    ASSUME TransferInvariant, AloneInvariant, NEW w \in Workers, CommitReceive(w),
           NEW t, t = req[w].transfer, t \notin overlapped,
           NEW rows, rows = req[w].rows
    PROVE  /\ t \in DOMAIN transfer /\ t \in TransferIds /\ t \in DOMAIN items
           /\ transfer' = [transfer EXCEPT ![t] = WithStatus(transfer[t], rows)]
           /\ items' = [items EXCEPT ![t] = rows]
           /\ rows \in RowTables /\ DOMAIN rows = DOMAIN items[t]
           /\ \A l \in DOMAIN rows :
                /\ rows[l].dispatched = items[t][l].dispatched
                /\ rows[l].received = items[t][l].received + QtyOf(req[w].asked, l)
                /\ rows[l].received <= rows[l].dispatched
           /\ LinesOf(req[w].asked) \subseteq DOMAIN rows
           /\ TransferAgrees(transfer'[t], items'[t], billed'[t])
  <1>1. /\ ~Idle(w) /\ req[w].at = "commit"
        /\ transfer' = [transfer EXCEPT ![t] =
                          Overlay(transfer[t], req[w].head, req[w].headSet)]
        /\ items' = [items EXCEPT ![t] = RowsSeen(w)]
    BY DEF CommitReceive, At
  <1>2. /\ ReceiveRequest(req[w]) /\ RowsKnown(req[w]) /\ req[w].head \in Header
        /\ rows \in RowTables /\ t \in DOMAIN transfer /\ t \in DOMAIN items
        /\ items[t] \in RowTables /\ transfer[t] \in Header
        /\ req[w].asked \in LineLists /\ DOMAIN rows = DOMAIN items[t]
    BY <1>1, ReceiptFacts DEF TransferInvariant
  <1>3. t \in TransferIds /\ DOMAIN items[t] # {}
    BY <1>2 DEF TransferInvariant
  <1>4. /\ RowsFit(req[w], RowsNow(w)) /\ RowsWritten(req[w])
        /\ HeadFits(req[w], HeadNow(w))
    BY <1>1, FitsNow
  <1>5. req[w].lines = <<>> /\ ~InLine(req[w]) /\ LinesDone(req[w])
    BY <1>1, <1>2 DEF ReceiveRequest, InLine, LinesDone
  <1>6. RowsNow(w) = items[t] /\ HeadNow(w) = transfer[t]
    BY DEF RowsNow, HeadNow
  <1>7. /\ RowsSeen(w) = rows
        /\ \A l \in DOMAIN rows :
             rows[l].received = items[t][l].received + QtyOf(req[w].asked, l)
    BY <1>1, <1>4, <1>5, <1>6, RowsSeenAreCopies
  <1>8. /\ req[w].head = WithStatus(transfer[t], rows)
        /\ req[w].headSet = Differing(req[w].head, transfer[t])
    BY <1>1, <1>4, <1>5, <1>6 DEF HeadFits
  <1>9. Overlay(transfer[t], req[w].head, req[w].headSet) = req[w].head
    BY <1>2, <1>8, OverlayIsCopy
  <1>10. /\ transfer' = [transfer EXCEPT ![t] = WithStatus(transfer[t], rows)]
         /\ items' = [items EXCEPT ![t] = rows]
    BY <1>1, <1>7, <1>8, <1>9
  <1>11. \A l \in DOMAIN rows :
           /\ rows[l].dispatched = items[t][l].dispatched
           /\ rows[l].received <= rows[l].dispatched
    BY <1>2, <1>4 DEF RowsKnown, RowsFit
  <1>12. LinesOf(req[w].asked) \subseteq DOMAIN rows
    <2>1. LinesOf(Remaining(req[w])) = {}
      BY <1>5, NoLines DEF Remaining
    <2> QED
      BY <1>4, <2>1 DEF RowsFit
  <1>13. \A l \in DOMAIN items[t] :
           /\ rows[l].received = billed'[t][l]
           /\ rows[l].received >= items[t][l].received
    <2> SUFFICES ASSUME NEW l \in DOMAIN items[t]
                 PROVE  /\ rows[l].received = billed'[t][l]
                        /\ rows[l].received >= items[t][l].received
      OBVIOUS
    <2>1. /\ l \in LineNos /\ items[t][l].received \in Nat
          /\ QtyOf(req[w].asked, l) \in Nat
      BY <1>2, RowTypes, QtyOfTypes
    <2>2. items[t][l].received = billed[t][l]
      BY <1>2 DEF AloneInvariant, UncontendedTransfersAgree
    <2>3. billed'[t][l] = billed[t][l] + QtyOf(req[w].asked, l)
      BY <2>1, BillsGrow
    <2>4. rows[l].received = items[t][l].received + QtyOf(req[w].asked, l)
      BY <1>2, <1>7
    <2> QED
      BY <2>1, <2>2, <2>3, <2>4
  <1>14. TransferAgrees(WithStatus(transfer[t], rows), rows, billed'[t])
    <2>1. TransferAgrees(transfer[t], items[t], billed[t])
      BY <1>2, AgreeIs DEF AloneInvariant
    <2> QED
      BY <1>2, <1>3, <1>11, <1>13, <2>1, StatusAgrees, SMTT(30)
  <1>15. transfer'[t] = WithStatus(transfer[t], rows) /\ items'[t] = rows
    BY <1>2, <1>10
  <1> QED
    BY <1>2, <1>3, <1>7, <1>10, <1>11, <1>12, <1>14, <1>15

(* A new transfer agrees: nothing of it has been received or billed.       *)
LEMMA CommitDispatchAlone ==
    ASSUME TransferInvariant, NEW w \in Workers, CommitDispatch(w),
           NEW t, t = req[w].transfer, NEW plan, plan = req[w].asked
    PROVE  /\ plan \in Plans /\ t \in TransferIds /\ t \notin DOMAIN transfer
           /\ \A v \in Workers \ {w} : ~On(v, t)
           /\ transfer' = [u \in DOMAIN transfer \cup {t} |->
                             IF u = t THEN NewHeader ELSE transfer[u]]
           /\ items' = [u \in DOMAIN items \cup {t} |->
                          IF u = t THEN NewItems(plan) ELSE items[u]]
           /\ billed' = billed /\ billed[t] = Zero(LineNos)
           /\ TransferAgrees(NewHeader, NewItems(plan), billed[t])
  <1>1. /\ ~Idle(w) /\ req[w].at = "issue" /\ billed' = billed
        /\ transfer' = [u \in DOMAIN transfer \cup {t} |->
                          IF u = t THEN req[w].head ELSE transfer[u]]
        /\ items' = [u \in DOMAIN items \cup {t} |->
                       IF u = t THEN req[w].rows ELSE items[u]]
    BY DEF CommitDispatch, At
  <1>2. DispatchRequest(req[w]) /\ OwnTransfer(w) /\ t \in TransferIds
    BY <1>1, BusyRecord DEF TransferInvariant, RequestsGrounded, ReceiveRequest
  <1>3. /\ plan \in Plans /\ req[w].head = NewHeader /\ req[w].rows = NewItems(plan)
        /\ t \notin DOMAIN transfer /\ \A v \in Workers \ {w} : ~On(v, t)
    BY <1>2 DEF DispatchRequest, OwnTransfer
  <1>4. billed[t] = Zero(LineNos)
    BY <1>2, <1>3 DEF TransferInvariant, Unbilled
  <1>5. TransferAgrees(NewHeader, NewItems(plan), billed[t])
    <2> DEFINE rows == NewItems(plan)
    <2>1. /\ DOMAIN rows # {} /\ DOMAIN rows \subseteq LineNos
          /\ \A l \in DOMAIN rows :
               rows[l].received = 0 /\ rows[l].dispatched \in Nat \ {0}
      BY <1>3, NewRowsTypes, RowTypes
    <2>2. \A l \in DOMAIN rows : billed[t][l] = 0
      BY <1>4, <2>1 DEF Zero
    <2> HIDE DEF rows
    <2>3. ~AllIn(rows) /\ ~AnyIn(rows)
      BY <2>1 DEF AllIn, AnyIn
    <2>4. TransferAgrees(NewHeader, rows, billed[t])
      BY <2>1, <2>2, <2>3 DEF TransferAgrees, NewHeader
    <2> QED
      BY <2>4 DEF rows
  <1> QED
    BY <1>1, <1>2, <1>3, <1>4, <1>5

LEMMA CommitDispatchAgrees ==
    ASSUME TransferInvariant, NEW w \in Workers, CommitDispatch(w),
           NEW t, t = req[w].transfer
    PROVE  TransferAgrees(transfer'[t], items'[t], billed'[t])
  <1>1. PICK plan : plan = req[w].asked
    OBVIOUS
  <1>2. /\ transfer' = [u \in DOMAIN transfer \cup {t} |->
                          IF u = t THEN NewHeader ELSE transfer[u]]
        /\ items' = [u \in DOMAIN items \cup {t} |->
                       IF u = t THEN NewItems(plan) ELSE items[u]]
        /\ billed' = billed
        /\ TransferAgrees(NewHeader, NewItems(plan), billed[t])
    BY <1>1, CommitDispatchAlone
  <1>3. transfer'[t] = NewHeader /\ items'[t] = NewItems(plan) /\ billed'[t] = billed[t]
    BY <1>2
  <1> QED
    BY <1>2, <1>3

(* The next request of a transfer starts when the last is over, or else    *)
(* they are noted as overlapping.                                          *)
LEMMA NextOneRequest ==
    ASSUME TransferInvariant, OneRequest, NEW w \in Workers,
           Open(w) \/ Proceed(w) \/ Abandon(w) \/ BreakDeadlock(w)
    PROVE  OneRequest' /\ overlapped \subseteq overlapped'
  <1>1. req \in [Workers -> RequestRecord \cup {NoRequest}]
        /\ \A v \in Workers \ {w} : req'[v] = req[v]
    BY OthersKept DEF TransferInvariant
  <1>2. ASSUME NEW t \in TransferIds, NEW plan \in Plans, OpenDispatch(w, t, plan)
        PROVE  OneRequest' /\ overlapped \subseteq overlapped'
    BY <1>1, <1>2 DEF OpenDispatch, Request, OneRequest, On
  <1>3. ASSUME NEW t \in DOMAIN transfer, NEW receipt \in Receipts,
               OpenReceive(w, t, receipt)
        PROVE  OneRequest' /\ overlapped \subseteq overlapped'
    <2>1. /\ Idle(w) /\ req'[w].transfer = t /\ ~Idle(w)'
          /\ overlapped' = IF \E v \in Workers : On(v, t)
                           THEN overlapped \cup {t} ELSE overlapped
      BY <1>1, <1>3 DEF OpenReceive, Request
    <2> QED
      BY <1>1, <2>1 DEF OneRequest, On
  <1>4. ASSUME ~Open(w)
        PROVE  OneRequest' /\ overlapped \subseteq overlapped'
    <2>1. overlapped' = overlapped
      BY <1>4 DEF Proceed, IssueStatement, CommitDispatch, FindItems,
         ReceiveLine, LoadRow, WriteRow, BalanceStatement, Refresh, LoadHead,
         WriteHead, InsertInvoice, CommitReceive, Abandon, BreakDeadlock
    <2>2. ~Idle(w)' => ~Idle(w) /\ req'[w].transfer = req[w].transfer
      <3>1. CASE Saving(w)
        BY <3>1, CopiesKept
      <3>2. CASE IssueStatement(w) \/ FindItems(w) \/ ReceiveLine(w)
        <4>1. CASE IssueStatement(w)
          BY <1>1, <4>1 DEF IssueStatement, At, End, RequestRecord
        <4>2. CASE FindItems(w)
          BY <1>1, <4>2 DEF FindItems, At, End, RequestRecord
        <4>3. CASE ReceiveLine(w)
          BY <1>1, <4>3, ReceiveLineIs, LineReceivedColumns, BusyRecord
          DEF LineTaken, End
        <4> QED
          BY <3>2, <4>1, <4>2, <4>3
      <3>3. CASE Abandon(w) \/ BreakDeadlock(w) \/ CommitDispatch(w) \/ CommitReceive(w)
        BY <1>1, <3>3
        DEF Abandon, BreakDeadlock, CommitDispatch, CommitReceive, End
      <3> QED
        BY <1>4, <3>1, <3>2, <3>3 DEF Proceed, Saving
    <2> QED
      BY <1>1, <2>1, <2>2 DEF OneRequest, On
  <1> QED
    BY <1>2, <1>3, <1>4 DEF Open

(* What others do to a transfer that they do not work on: nothing.         *)
LEMMA OthersTransfers ==
    ASSUME TransferInvariant, NEW w \in Workers, NEW t \in DOMAIN transfer,
           Open(w) \/ Proceed(w) \/ Abandon(w) \/ BreakDeadlock(w),
           ~On(w, t)
    PROVE  transfer'[t] = transfer[t] /\ items'[t] = items[t] /\ billed'[t] = billed[t]
  <1>1. DOMAIN items = DOMAIN transfer /\ t \in TransferIds
    BY DEF TransferInvariant
  <1>2. CASE CommitReceive(w)
    <2>1. req[w].transfer # t
      BY <1>2 DEF CommitReceive, At, On
    <2> QED
      BY <1>1, <1>2, <2>1 DEF CommitReceive, TransferInvariant
  <1>3. CASE CommitDispatch(w)
    <2>1. req[w].transfer # t
      BY <1>3 DEF CommitDispatch, At, On
    <2> QED
      BY <1>1, <1>3, <2>1 DEF CommitDispatch
  <1>4. CASE ~CommitReceive(w) /\ ~CommitDispatch(w)
    BY <1>4 DEF Open, OpenDispatch, OpenReceive, Proceed, IssueStatement,
       FindItems, ReceiveLine, LoadRow, WriteRow, BalanceStatement, Refresh,
       LoadHead, WriteHead, InsertInvoice, Abandon, BreakDeadlock
  <1> QED
    BY <1>2, <1>3, <1>4

LEMMA OwnAlone ==
    ASSUME TransferInvariant, AloneInvariant, NEW w \in Workers,
           Open(w) \/ Proceed(w) \/ Abandon(w) \/ BreakDeadlock(w)
    PROVE  Undisturbed(w)'
  <1>1. /\ req \in [Workers -> RequestRecord \cup {NoRequest}]
        /\ overlapped \subseteq overlapped'
    BY NextOneRequest DEF TransferInvariant, AloneInvariant
  <1> SUFFICES ASSUME ~Idle(w)', req'[w].op = "receive",
                      req'[w].transfer \notin overlapped'
               PROVE  ReceiptFits(req'[w], transfer'[req'[w].transfer],
                                  items'[req'[w].transfer])
    BY DEF Undisturbed
  <1>2. ~Abandon(w) /\ ~BreakDeadlock(w) /\ ~CommitDispatch(w) /\ ~CommitReceive(w)
    BY <1>1 DEF Abandon, BreakDeadlock, CommitDispatch, CommitReceive, End
  <1>3. ASSUME NEW t \in TransferIds, NEW plan \in Plans, OpenDispatch(w, t, plan)
        PROVE  FALSE
    BY <1>1, <1>3 DEF OpenDispatch, Request
  <1>4. ASSUME NEW t \in DOMAIN transfer, NEW receipt \in Receipts,
               OpenReceive(w, t, receipt)
        PROVE  ReceiptFits(req'[w], transfer'[req'[w].transfer],
                           items'[req'[w].transfer])
    <2>1. /\ req'[w].transfer = t /\ req'[w].at = "find" /\ req'[w].head = transfer[t]
          /\ transfer' = transfer
      BY <1>1, <1>4 DEF OpenReceive, Request
    <2> QED
      BY <2>1 DEF ReceiptFits
  <1>5. ~IssueStatement(w)
    <2>1. ASSUME IssueStatement(w)
          PROVE  FALSE
      <3>1. ~Idle(w) /\ req[w].at = "issue" /\ req'[w] = req[w]
        BY <1>1, <2>1 DEF IssueStatement, At
      <3>2. req[w].op = "dispatch"
        BY <3>1 DEF TransferInvariant, RequestsGrounded, DispatchRequest,
           ReceiveRequest
      <3> QED
        BY <3>1, <3>2
    <2> QED
      BY <2>1
  <1>6. ASSUME FindItems(w) \/ ReceiveLine(w) \/ Saving(w)
        PROVE  ReceiptFits(req'[w], transfer'[req'[w].transfer],
                           items'[req'[w].transfer])
    <2>1. transfer' = transfer /\ items' = items
      BY <1>6 DEF FindItems, ReceiveLine, Saving, LoadRow, WriteRow,
         BalanceStatement, Refresh, LoadHead, WriteHead, InsertInvoice
    <2>2. req'[w].transfer = req[w].transfer
      <3>1. CASE Saving(w)
        BY <3>1, CopiesKept
      <3>2. CASE FindItems(w) \/ ReceiveLine(w)
        <4>1. CASE FindItems(w)
          BY <1>1, <4>1 DEF FindItems, At, End, RequestRecord
        <4>2. CASE ReceiveLine(w)
          BY <1>1, <4>2, ReceiveLineIs, LineReceivedColumns, BusyRecord
          DEF LineTaken, End
        <4> QED
          BY <3>2, <4>1, <4>2
      <3> QED
        BY <1>6, <3>1, <3>2
    <2>3. req[w].transfer \notin overlapped
      BY <1>1, <2>2
    <2> QED
      BY <1>6, <2>1, <2>2, <2>3, FindItemsFits, ReceiveLineFits, SavingFits
      DEF HeadNow, RowsNow
  <1> QED
    BY <1>2, <1>3, <1>4, <1>5, <1>6 DEF Open, Proceed, Saving

LEMMA OthersAlone ==
    ASSUME TransferInvariant, AloneInvariant, NEW w \in Workers,
           NEW v \in Workers \ {w},
           Open(w) \/ Proceed(w) \/ Abandon(w) \/ BreakDeadlock(w)
    PROVE  Undisturbed(v)'
  <1>1. req'[v] = req[v] /\ overlapped \subseteq overlapped'
    BY NextOneRequest, OthersKept DEF AloneInvariant
  <1> SUFFICES ASSUME ~Idle(v), req[v].op = "receive",
                      req[v].transfer \notin overlapped
               PROVE  ReceiptFits(req[v], transfer'[req[v].transfer],
                                  items'[req[v].transfer])
    BY <1>1 DEF Undisturbed
  <1>2. req[v].transfer \in DOMAIN transfer
    BY DEF TransferInvariant, RequestsGrounded, DispatchRequest, RowsKnown
  <1>3. ~On(w, req[v].transfer)
    BY DEF AloneInvariant, OneRequest
  <1>4. /\ transfer'[req[v].transfer] = transfer[req[v].transfer]
        /\ items'[req[v].transfer] = items[req[v].transfer]
    BY <1>2, <1>3, OthersTransfers
  <1> QED
    BY <1>4 DEF AloneInvariant, Undisturbed

LEMMA NextAgree ==
    ASSUME TransferInvariant, AloneInvariant, NEW w \in Workers,
           Open(w) \/ Proceed(w) \/ Abandon(w) \/ BreakDeadlock(w)
    PROVE  UncontendedTransfersAgree'
  <1>1. overlapped \subseteq overlapped'
    BY NextOneRequest DEF AloneInvariant
  <1>2. \A t \in DOMAIN transfer \ overlapped :
          TransferAgrees(transfer[t], items[t], billed[t])
    BY AgreeIs DEF AloneInvariant
  <1>3. ASSUME NEW t \in DOMAIN transfer', t \notin overlapped'
        PROVE  TransferAgrees(transfer'[t], items'[t], billed'[t])
    <2>1. t \notin overlapped
      BY <1>1, <1>3
    <2>2. CASE CommitReceive(w)
      <3>1. DOMAIN transfer' = DOMAIN transfer
        BY <2>2 DEF CommitReceive
      <3>2. CASE req[w].transfer = t
        BY <2>1, <2>2, <3>2, CommitReceiveAlone
      <3>3. CASE req[w].transfer # t
        BY <1>2, <1>3, <2>1, <2>2, <3>1, <3>3, OthersTransfers DEF On
      <3> QED
        BY <3>2, <3>3
    <2>3. CASE CommitDispatch(w)
      <3>1. CASE req[w].transfer = t
        BY <2>3, <3>1, CommitDispatchAgrees
      <3>2. CASE req[w].transfer # t
        <4>1. t \in DOMAIN transfer
          BY <1>3, <2>3, <3>2 DEF CommitDispatch
        <4> QED
          BY <1>2, <2>1, <2>3, <3>2, <4>1, OthersTransfers DEF On
      <3> QED
        BY <3>1, <3>2
    <2>4. CASE ~CommitReceive(w) /\ ~CommitDispatch(w)
      <3>1. transfer' = transfer /\ items' = items /\ billed' = billed
        BY <2>4 DEF Open, OpenDispatch, OpenReceive, Proceed, IssueStatement,
           FindItems, ReceiveLine, LoadRow, WriteRow, BalanceStatement, Refresh,
           LoadHead, WriteHead, InsertInvoice, Abandon, BreakDeadlock
      <3> QED
        BY <1>2, <1>3, <2>1, <3>1
    <2> QED
      BY <2>2, <2>3, <2>4
  <1>4. UncontendedTransfersAgree' <=>
          (\A t \in DOMAIN transfer \ overlapped :
             TransferAgrees(transfer[t], items[t], billed[t]))'
    BY AgreeIs, PTL
  <1>5. (\A t \in DOMAIN transfer \ overlapped :
           TransferAgrees(transfer[t], items[t], billed[t]))'
    BY <1>3 DEF TransferAgrees, AllIn, AnyIn
  <1> QED
    BY <1>4, <1>5

LEMMA NextAlone ==
    TransferInvariant /\ AloneInvariant /\ [TransferNext]_vars => AloneInvariant'
  <1> SUFFICES ASSUME TransferInvariant, AloneInvariant, [TransferNext]_vars
               PROVE  AloneInvariant'
    OBVIOUS
  <1>1. CASE UNCHANGED vars
    <2>1. UNCHANGED <<transfer, items, billed, req, overlapped>>
      BY <1>1 DEF vars, transferVars
    <2>2. OneRequest' /\ UncontendedTransfersAgree'
      BY <2>1 DEF AloneInvariant, OneRequest, On, UncontendedTransfersAgree
    <2>3. \A w \in Workers : Undisturbed(w)'
      BY <2>1 DEF AloneInvariant, Undisturbed
    <2> QED
      BY <2>2, <2>3 DEF AloneInvariant
  <1>2. CASE TransferNext
    <2>1. PICK w \in Workers :
            Open(w) \/ Proceed(w) \/ Abandon(w) \/ BreakDeadlock(w)
      BY <1>2 DEF TransferNext
    <2>2. OneRequest'
      BY <2>1, NextOneRequest DEF AloneInvariant
    <2>3. UncontendedTransfersAgree'
      BY <2>1, NextAgree
    <2>4. \A v \in Workers : Undisturbed(v)'
      BY <2>1, OwnAlone, OthersAlone
    <2> QED
      BY <2>2, <2>3, <2>4 DEF AloneInvariant
  <1> QED
    BY <1>1, <1>2

LEMMA AloneHolds == TransferSpec => [](TransferInvariant /\ AloneInvariant)
  <1>1. TransferInit => AloneInvariant
    BY DEF TransferInit, AloneInvariant, OneRequest, Undisturbed,
       UncontendedTransfersAgree
  <1> QED
    BY <1>1, NextAlone, TransferInvariantHolds, PTL DEF TransferSpec

(* A transfer no two requests worked on at once: its totals are what was   *)
(* billed, within what was dispatched, and its status and received_at say  *)
(* how much of it has arrived.                                             *)
THEOREM UncontendedAgree == TransferSpec => []UncontendedTransfersAgree
  <1>1. AloneInvariant => UncontendedTransfersAgree
    BY DEF AloneInvariant
  <1> QED
    BY <1>1, AloneHolds, PTL
----------------------------------------------------------------------------
(* The promise of TransferLife.                                            *)

LEMMA LifeEffect ==
    ASSUME NEW request, NEW k
    PROVE  Life!Stock!Effect(request, k) = Book!Effect(request, k)
  <1>1. \A f, S : Life!Stock!SumFunctionOnSet(f, S) = Book!SumFunctionOnSet(f, S)
    BY Zenon DEF Book!SumFunctionOnSet, Book!FoldFunctionOnSet,
       Book!MapThenFoldSet, Life!Stock!SumFunctionOnSet,
       Life!Stock!FoldFunctionOnSet, Life!Stock!MapThenFoldSet
  <1> QED
    BY <1>1 DEF Life!Stock!Effect, Life!Stock!LineEffect, Book!Effect,
       Book!LineEffect

LEMMA LifeQty ==
    ASSUME NEW s \in LineLists, NEW l
    PROVE  Life!Lines(s) = LinesOf(s) /\ Life!Qty(s, l) = QtyOf(s, l)
  <1>1. Life!Lines(s) = LinesOf(s)
    BY DEF Life!Lines, LinesOf
  <1>2. CASE l \in LinesOf(s)
    <2>1. PICK j : j = CHOOSE i \in DOMAIN s : s[i].line = l
      OBVIOUS
    <2>2. \E i \in DOMAIN s : s[i].line = l
      BY <1>2 DEF LinesOf
    <2>3. j \in DOMAIN s /\ s[j].line = l
      BY <2>1, <2>2
    <2>4. Life!Qty(s, l) = s[j].qty
      BY <1>1, <1>2, <2>1 DEF Life!Qty
    <2> QED
      BY <1>1, <2>3, <2>4, QtyOfLine
  <1>3. CASE l \notin LinesOf(s)
    BY <1>1, <1>3, QtyOfNoLine DEF Life!Qty
  <1> QED
    BY <1>1, <1>2, <1>3

(* A transfer as TransferLife sees it, and the table of them.              *)
Seen(head, rows, bill) == [status |-> head.status, rows |-> rows, billed |-> bill]
Docs == [t \in DOMAIN transfer |-> Seen(transfer[t], items[t], billed[t])]

LEMMA DispatchKept ==
    ASSUME TransferFacts, OnHandNeverNegative', NEW w \in Workers, CommitDispatch(w)
    PROVE  Life!LifeNext
  <1>1. PICK t, plan : t = req[w].transfer /\ plan = req[w].asked
    OBVIOUS
  <1>2. /\ plan \in Plans /\ t \in TransferIds /\ t \notin DOMAIN transfer
        /\ transfer' = [u \in DOMAIN transfer \cup {t} |->
                          IF u = t THEN NewHeader ELSE transfer[u]]
        /\ items' = [u \in DOMAIN items \cup {t} |->
                       IF u = t THEN NewItems(plan) ELSE items[u]]
        /\ billed' = billed /\ billed[t] = Zero(LineNos)
    BY <1>1, CommitDispatchAlone DEF TransferFacts
  <1>3. DOMAIN items = DOMAIN transfer
    BY DEF TransferFacts, TransferInvariant
  <1>4. Docs' = [u \in DOMAIN Docs \cup {t} |->
                   IF u = t THEN Seen(NewHeader, NewItems(plan), Zero(LineNos))
                            ELSE Docs[u]]
    BY <1>2, <1>3 DEF Docs, Seen
  <1>5. plan \in LineLists
    BY <1>2, ListsAreLists
  <1>6. NewItems(plan) = [l \in Life!Lines(plan) |->
                            [dispatched |-> Life!Qty(plan, l), received |-> 0]]
    BY <1>5, LifeQty DEF NewItems, LinesOf
  <1>7. onHand' = [k \in Keys |-> onHand[k] + Book!Effect(Dispatched(plan), k)]
    <2>1. PICK request \in Requests : request = MoveOf(req[w]) /\ Posts(w, request)
      BY DEF CommitDispatch, Commit, TransferFacts, MovesPosted, Moving
    <2>2. MoveOf(req[w]) = Dispatched(plan)
      <3>1. ~Idle(w) /\ req[w].at = "issue"
        BY DEF CommitDispatch, At
      <3>2. req[w].op = "dispatch"
        BY <3>1 DEF TransferFacts, TransferInvariant, RequestsGrounded,
           DispatchRequest, ReceiveRequest
      <3> QED
        BY <1>1, <3>2 DEF MoveOf
    <2> QED
      BY <2>1, <2>2, CommitPosts DEF CommitDispatch
  <1>8. Life!Stock!Post(Dispatched(plan))
    BY <1>7, LifeEffect DEF Life!Stock!Post, OnHandNeverNegative
  <1>9. Life!Dispatch(t, plan)
    <2>1. t \notin DOMAIN Docs
      BY <1>2 DEF Docs
    <2>2. Seen(NewHeader, NewItems(plan), Zero(LineNos))
            = [status |-> "dispatched",
               rows |-> [l \in Life!Lines(plan) |->
                           [dispatched |-> Life!Qty(plan, l), received |-> 0]],
               billed |-> [l \in LineNos |-> 0]]
      BY <1>6 DEF Seen, NewHeader, Zero
    <2> QED
      BY <1>4, <1>8, <2>1, <2>2 DEF Life!Dispatch, Docs, Seen
  <1> QED
    BY <1>2, <1>9 DEF Life!LifeNext

LEMMA ArriveKept ==
    ASSUME TransferFacts, AloneInvariant, OnHandNeverNegative', TransferInvariant',
           NEW w \in Workers, CommitReceive(w), overlapped = {}
    PROVE  Life!LifeNext
  <1>1. PICK t, receipt, rows :
          t = req[w].transfer /\ receipt = req[w].asked /\ rows = req[w].rows
    OBVIOUS
  <1>2. /\ t \in DOMAIN transfer /\ t \in TransferIds /\ t \in DOMAIN items
        /\ transfer' = [transfer EXCEPT ![t] = WithStatus(transfer[t], rows)]
        /\ items' = [items EXCEPT ![t] = rows]
        /\ rows \in RowTables /\ DOMAIN rows = DOMAIN items[t]
        /\ \A l \in DOMAIN rows :
             /\ rows[l].dispatched = items[t][l].dispatched
             /\ rows[l].received = items[t][l].received + QtyOf(receipt, l)
             /\ rows[l].received <= rows[l].dispatched
        /\ LinesOf(receipt) \subseteq DOMAIN rows
        /\ TransferAgrees(transfer'[t], items'[t], billed'[t])
    BY <1>1, CommitReceiveAlone DEF TransferFacts
  <1>3. /\ ~Idle(w) /\ req[w].at = "commit" /\ ReceiveRequest(req[w])
        /\ receipt \in Receipts /\ req[w].bill = receipt /\ receipt \in LineLists
    BY <1>1, ReceiptFacts DEF CommitReceive, At, TransferFacts, ReceiveRequest
  <1>4. PICK bill : bill = [l \in LineNos |-> billed[t][l] + QtyOf(receipt, l)]
    OBVIOUS
  <1>5. billed' = [billed EXCEPT ![t] = bill]
    BY <1>1, <1>3, <1>4 DEF CommitReceive
  <1>6. PICK status : status = Life!StatusOf(rows)
    OBVIOUS
  <1>7. transfer'[t].status = status
    <2>1. transfer'[t].status \in {"dispatched", "partial", "received"}
      <3>1. transfer'[t] \in Header
        BY <1>2 DEF TransferInvariant
      <3> QED
        BY <3>1 DEF Header
    <2>2. items'[t] = rows
      BY <1>2
    <2>3. /\ transfer'[t].status = "received" <=> AllIn(rows)
          /\ transfer'[t].status = "dispatched" <=> ~AnyIn(rows)
      BY <1>2, <2>2 DEF TransferAgrees
    <2>4. \A l \in DOMAIN rows : rows[l].received \in Nat /\ rows[l].dispatched \in Nat
      BY <1>2, RowTypes
    <2>5. AllIn(rows) <=> \A l \in DOMAIN rows : rows[l].received = rows[l].dispatched
      BY <1>2, <2>4 DEF AllIn
    <2>6. ~AnyIn(rows) <=> \A l \in DOMAIN rows : rows[l].received = 0
      BY <2>4 DEF AnyIn
    <2> QED
      BY <1>6, <2>1, <2>3, <2>5, <2>6 DEF Life!StatusOf
  <1>8. Docs' = [Docs EXCEPT ![t] = [status |-> status, rows |-> rows, billed |-> bill]]
    <2>1. DOMAIN transfer' = DOMAIN transfer /\ items'[t] = rows /\ billed'[t] = bill
      BY <1>2, <1>5 DEF TransferFacts, TransferInvariant
    <2>2. \A u \in DOMAIN transfer \ {t} :
            transfer'[u] = transfer[u] /\ items'[u] = items[u] /\ billed'[u] = billed[u]
      BY <1>2, <1>5 DEF TransferFacts, TransferInvariant
    <2> QED
      BY <1>2, <1>7, <2>1, <2>2 DEF Docs, Seen
  <1>9. /\ t \in DOMAIN Docs /\ Docs[t].rows = items[t] /\ Docs[t].billed = billed[t]
    BY <1>2 DEF Docs, Seen
  <1>10. rows = [l \in DOMAIN items[t] |->
                   [items[t][l] EXCEPT !.received = @ + Life!Qty(receipt, l)]]
    <2>1. ASSUME NEW l \in DOMAIN items[t]
          PROVE  rows[l] = [items[t][l] EXCEPT !.received = @ + Life!Qty(receipt, l)]
      <3>1. /\ rows[l] \in Item /\ items[t][l] \in Item
            /\ rows[l].dispatched = items[t][l].dispatched
            /\ rows[l].received = items[t][l].received + Life!Qty(receipt, l)
        BY <1>2, <1>3, LifeQty, RowTypes DEF TransferFacts, TransferInvariant
      <3> QED
        BY <3>1 DEF Item
    <2>2. rows \in [DOMAIN rows -> Item]
      BY <1>2, RowTypes
    <2> QED
      BY <1>2, <2>1, <2>2
  <1>11. bill = [l \in LineNos |-> billed[t][l] + Life!Qty(receipt, l)]
    BY <1>3, <1>4, LifeQty
  <1>12. onHand' = [k \in Keys |-> onHand[k] + Book!Effect(BroughtIn(receipt), k)]
    <2>1. PICK request \in Requests : request = MoveOf(req[w]) /\ Posts(w, request)
      BY DEF CommitReceive, Commit, TransferFacts, MovesPosted, Moving
    <2>2. MoveOf(req[w]) = BroughtIn(receipt)
      BY <1>1, <1>3 DEF MoveOf, ReceiveRequest
    <2> QED
      BY <2>1, <2>2, CommitPosts DEF CommitReceive
  <1>13. Life!Stock!Post(BroughtIn(receipt))
    BY <1>12, LifeEffect DEF Life!Stock!Post, OnHandNeverNegative
  <1>14. Life!Lines(receipt) \subseteq DOMAIN rows
    BY <1>2, <1>3, LifeQty
  <1>15. Life!Arrive(t, receipt)
    <2> DEFINE doc == Docs
               now == [l \in DOMAIN doc[t].rows |->
                         [doc[t].rows[l] EXCEPT !.received = @ + Life!Qty(receipt, l)]]
    <2>1. now = rows
      BY <1>9, <1>10
    <2>2. /\ Life!Lines(receipt) \subseteq DOMAIN now
          /\ \A l \in DOMAIN now : now[l].received <= now[l].dispatched
      BY <1>2, <1>14, <2>1
    <2>3. Docs' = [doc EXCEPT ![t] =
                     [status |-> Life!StatusOf(now), rows |-> now,
                      billed |-> [l \in LineNos |->
                                    doc[t].billed[l] + Life!Qty(receipt, l)]]]
      BY <1>6, <1>8, <1>9, <1>11, <2>1
    <2> QED
      BY <1>13, <2>2, <2>3 DEF Life!Arrive, Docs, Seen
  <1> QED
    BY <1>2, <1>3, <1>9, <1>15 DEF Life!LifeNext, Docs, Seen

(* Until two receipts work on one transfer at once, a transfer's rows, its *)
(* bills and the stock at both ends change together: by a whole dispatch   *)
(* or a whole receipt, never beyond what was dispatched.                   *)
THEOREM TransferLifeIsKept == TransferSpec => ImplementsTransferLife
  <1>1. TransferInit => Life!LifeInit
    <2> SUFFICES ASSUME TransferInit
                 PROVE  Life!LifeInit
      OBVIOUS
    <2>1. Docs = [t \in {} |-> 0]
      BY DEF TransferInit, Docs
    <2>2. onHand \in [Keys -> Nat]
      BY LotsAssumption DEF TransferInit, StockInit
    <2> QED
      BY <2>1, <2>2 DEF Life!LifeInit, Life!Stock!BookInit, Docs, Seen
  <1>2. /\ TransferFacts /\ AloneInvariant /\ TransferFacts' /\ [TransferNext]_vars
        => [overlapped' = {} => Life!LifeNext]_(Life!lifeVars)
    <2> SUFFICES ASSUME TransferFacts, AloneInvariant, TransferFacts',
                        [TransferNext]_vars, overlapped' = {}
                 PROVE  Life!LifeNext \/ UNCHANGED Life!lifeVars
      OBVIOUS
    <2>1. overlapped = {}
      <3>1. CASE UNCHANGED vars
        BY <3>1 DEF vars, transferVars
      <3>2. CASE TransferNext
        BY <3>2, NextOneRequest DEF TransferNext, TransferFacts, AloneInvariant
      <3> QED
        BY <3>1, <3>2
    <2>2. OnHandNeverNegative' /\ TransferInvariant'
      BY DEF TransferFacts, StockInvariant
    <2>3. ASSUME NEW w \in Workers, CommitDispatch(w)
          PROVE  Life!LifeNext
      BY <2>2, <2>3, DispatchKept
    <2>4. ASSUME NEW w \in Workers, CommitReceive(w)
          PROVE  Life!LifeNext
      BY <2>1, <2>2, <2>4, ArriveKept
    <2>5. CASE ~ \E w \in Workers : CommitDispatch(w) \/ CommitReceive(w)
      <3>1. UNCHANGED <<onHand, transfer, items, billed>>
        BY <2>5, OnlyCommitsMove
      <3> QED
        BY <3>1 DEF Life!lifeVars
    <2> QED
      BY <2>3, <2>4, <2>5
  <1> QED
    BY <1>1, <1>2, TransferFactsHold, AloneHolds, PTL
    DEF TransferSpec, ImplementsTransferLife
=============================================================================
