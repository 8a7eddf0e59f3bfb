---------------------------- MODULE OrdersProofs ----------------------------
(***************************************************************************)
(* For any number of requests on any orders, keys and lines, whatever      *)
(* overlaps: stock moves only by StockLedger's steps, hence no balance is  *)
(* negative and every balance equals its journal; and no order shows as    *)
(* approved unless its stock was issued.  The last needs CopiesBacked: a   *)
(* copy in memory, which may overwrite the row at any time, says approved  *)
(* only if the row it was read from did, or if it belongs to the very      *)
(* transaction that issues the stock.                                      *)
(***************************************************************************)
EXTENDS Orders, StockLedgerProofs

(* OrdersTypeOK without StockLedger's part.                                *)
OrdersShape ==
    /\ IsPartial(so, OrderIds, Row)
    /\ DOMAIN items = DOMAIN so /\ items \in [DOMAIN so -> Requests]
    /\ req \in [Workers -> RequestRecord \cup {NoRequest}]
    /\ issues \in [OrderIds -> Seq(Requests)]
    /\ overlapped \subseteq OrderIds

(* A request is on an order there is; only approve issues, only update     *)
(* replaces lines; and the lines it works with are ones a request may have.*)
RequestsGrounded ==
    \A w \in Workers : ~Idle(w) =>
        /\ req[w].order \in DOMAIN so
        /\ req[w].at \in {"items", "begin", "issue"} => req[w].op = "approve"
        /\ req[w].at \in {"delete", "deleting", "missed"} => req[w].op = "update"
        /\ req[w].op = "update" => req[w].lines \in Requests
        /\ req[w].op = "approve" /\ req[w].at # "items"
             => req[w].lines \in Requests

Approved(row) == row.status = "approved" \/ row.approved

CopiesBacked ==
    \A w \in Workers :
        ~Idle(w) /\ req[w].op # "approve" /\ Approved(req[w].copy)
          => issues[req[w].order] # <<>>

OrdersInvariant ==
    OrdersShape /\ RequestsGrounded /\ ApprovedWasIssued /\ CopiesBacked

USE DEF OrdersShape, RequestsGrounded, Idle, NoRequest, IsPartial

LEMMA OrdersInitInvariant == OrdersInit => OrdersInvariant
  BY DEF OrdersInit, OrdersInvariant, ApprovedWasIssued, CopiesBacked

(* A busy worker's request is a full record.                               *)
LEMMA BusyRecord ==
    ASSUME OrdersShape, NEW w \in Workers, ~Idle(w)
    PROVE  /\ req[w] \in RequestRecord
           /\ req[w].op \in {"update", "submit", "approve", "reject"}
           /\ req[w].order \in OrderIds
           /\ req[w].copy \in Row
           /\ req[w].diff \subseteq Columns /\ req[w].dirty \subseteq Columns
  <1>1. req[w] \in RequestRecord
    OBVIOUS
  <1> QED
    BY <1>1 DEF RequestRecord

(* A saved row is made of two rows.                                        *)
LEMMA OverlayOfRows ==
    ASSUME NEW row \in Row, NEW copy \in Row, NEW columns
    PROVE  /\ Overlay(row, copy, columns) \in Row
           /\ Approved(Overlay(row, copy, columns))
                => Approved(row) \/ Approved(copy)
  BY DEF Overlay, Row, Approved

(* Every step that leaves the tables alone and takes a worker from request *)
(* to request, or to rest.                                                 *)
LEMMA RequestStep ==
    ASSUME OrdersInvariant, NEW w \in Workers,
           UNCHANGED <<so, items, issues>>,
           overlapped' \subseteq OrderIds,
           NEW r, req' = [req EXCEPT ![w] = r],
           \/ r = NoRequest
           \/ /\ r \in RequestRecord
              /\ r.order \in DOMAIN so
              /\ r.at \in {"items", "begin", "issue"} => r.op = "approve"
              /\ r.at \in {"delete", "deleting", "missed"} => r.op = "update"
              /\ r.op = "update" => r.lines \in Requests
              /\ r.op = "approve" /\ r.at # "items" => r.lines \in Requests
              /\ r.op # "approve" /\ Approved(r.copy) => issues[r.order] # <<>>
    PROVE  OrdersInvariant'
  <1> USE DEF OrdersInvariant
  <1>1. req'[w] = r /\ \A v \in Workers \ {w} : req'[v] = req[v]
    OBVIOUS
  <1>2. OrdersShape'
    <2>1. req' \in [Workers -> RequestRecord \cup {NoRequest}]
      OBVIOUS
    <2> QED
      BY <2>1
  <1>3. RequestsGrounded' /\ CopiesBacked'
    BY <1>1 DEF CopiesBacked
  <1>4. ApprovedWasIssued'
    BY DEF ApprovedWasIssued
  <1> QED
    BY <1>2, <1>3, <1>4

(* Opening a request: the copy is the row that was read, perhaps marked.   *)
LEMMA OpenInvariant ==
    ASSUME OrdersInvariant, NEW w \in Workers, NEW o \in DOMAIN so,
           NEW op \in {"update", "submit", "approve", "reject"},
           NEW at \in {"load", "items"}, at = "items" => op = "approve",
           op = "approve" => at = "items",
           NEW copy \in Row, Approved(copy) => Approved(so[o]),
           NEW lines \in Requests \cup {<<>>}, op = "update" => lines \in Requests,
           NEW touch \in BOOLEAN,
           Open(w, op, o, at, copy, lines, touch)
    PROVE  OrdersInvariant'
  <1> DEFINE r == Request(op, o, at, copy, lines, touch)
  <1>1. /\ req' = [req EXCEPT ![w] = r]
        /\ UNCHANGED <<so, items, issues>>
        /\ overlapped' \subseteq OrderIds
    BY DEF Open, OrdersInvariant
  <1>2. /\ r \in RequestRecord
        /\ r.op = op /\ r.order = o /\ r.at = at /\ r.copy = copy
        /\ r.lines = lines
    <2>1. o \in OrderIds
      BY DEF OrdersInvariant
    <2> QED
      BY <2>1 DEF Request, RequestRecord
  <1>3. Approved(copy) => issues[o] # <<>>
    BY DEF OrdersInvariant, ApprovedWasIssued, Approved
  <1> HIDE DEF r
  <1> QED
    BY <1>1, <1>2, <1>3, RequestStep

LEMMA ReceiveInvariant ==
    ASSUME OrdersInvariant, NEW w \in Workers, Receive(w)
    PROVE  OrdersInvariant'
  <1>1. ASSUME NEW o \in OrderIds, NEW lines \in Requests,
               NEW submitNow \in BOOLEAN, CreateDraft(w, o, lines, submitNow)
        PROVE  OrdersInvariant'
    <2> USE DEF OrdersInvariant
    <2> DEFINE row == [status |-> IF submitNow THEN "submitted" ELSE "draft",
                       submitted |-> submitNow, approved |-> FALSE,
                       rejected |-> FALSE, amount |-> lines]
    <2>1. /\ so' = [p \in DOMAIN so \cup {o} |-> IF p = o THEN row ELSE so[p]]
          /\ row \in Row /\ ~Approved(row)
      <3>1. row \in Row
        BY DEF Row
      <3>2. ~Approved(row)
        BY DEF Approved
      <3> QED
        BY <1>1, <3>1, <3>2 DEF CreateDraft
    <2> HIDE DEF row
    <2>2. /\ items' = [p \in DOMAIN items \cup {o} |->
                         IF p = o THEN lines ELSE items[p]]
          /\ UNCHANGED <<req, issues, overlapped>>
          /\ o \notin DOMAIN so
      BY <1>1 DEF CreateDraft
    <2>3. OrdersShape'
      BY <2>1, <2>2
    <2>4. RequestsGrounded'
      <3>1. DOMAIN so' = DOMAIN so \cup {o} /\ req' = req
        BY <2>1, <2>2
      <3> QED
        BY <3>1
    <2>5. ApprovedWasIssued' /\ CopiesBacked'
      BY <2>1, <2>2 DEF ApprovedWasIssued, CopiesBacked, Approved
    <2> QED
      BY <2>3, <2>4, <2>5
  <1>2. ASSUME NEW o \in DOMAIN so, NEW lines \in Requests,
               NEW touch \in BOOLEAN, OpenUpdate(w, o, lines, touch)
        PROVE  OrdersInvariant'
    <2>1. so[o] \in Row
      BY DEF OrdersInvariant
    <2> QED
      BY <1>2, <2>1, OpenInvariant DEF OpenUpdate
  <1>3. ASSUME NEW o \in DOMAIN so, OpenSubmit(w, o) \/ OpenReject(w, o)
        PROVE  OrdersInvariant'
    <2>1. so[o] \in Row
      BY DEF OrdersInvariant
    <2>2. /\ MarkedSubmitted(so[o]) \in Row /\ MarkedRejected(so[o]) \in Row
          /\ Approved(MarkedSubmitted(so[o])) => Approved(so[o])
          /\ Approved(MarkedRejected(so[o])) => Approved(so[o])
      BY <2>1 DEF MarkedSubmitted, MarkedRejected, Row, Approved
    <2>3. CASE OpenSubmit(w, o)
      BY <2>2, <2>3, OpenInvariant DEF OpenSubmit
    <2>4. CASE OpenReject(w, o)
      BY <2>2, <2>4, OpenInvariant DEF OpenReject
    <2> QED
      BY <1>3, <2>3, <2>4
  <1>4. ASSUME NEW o \in DOMAIN so, OpenApprove(w, o)
        PROVE  OrdersInvariant'
    <2>1. so[o] \in Row
      BY DEF OrdersInvariant
    <2> QED
      BY <1>4, <2>1, OpenInvariant DEF OpenApprove
  <1> QED
    BY <1>1, <1>2, <1>3, <1>4 DEF Receive

(* Steps of a request that touch neither orders nor issues.                *)
LEMMA InnerStepInvariant ==
    ASSUME OrdersInvariant, NEW w \in Workers,
           \/ ReadItems(w) \/ BeginIssue(w) \/ IssueStatement(w)
           \/ MarkApproved(w) \/ SaveLoad(w) \/ SaveWrite(w)
           \/ ReplaceItems(w) \/ DeleteWaits(w) \/ InsertClashes(w)
           \/ Abandon(w) \/ BreakDeadlock(w)
    PROVE  OrdersInvariant'
  <1>1. /\ UNCHANGED <<so, items, issues>> /\ overlapped' = overlapped
        /\ ~Idle(w)
    BY DEF ReadItems, BeginIssue, IssueStatement, MarkApproved, SaveLoad,
           SaveWrite, ReplaceItems, DeleteWaits, InsertClashes, Abandon,
           BreakDeadlock, At
  <1>2. /\ req[w] \in RequestRecord /\ req[w].order \in DOMAIN so
        /\ OrdersShape /\ overlapped' \subseteq OrderIds
        /\ req[w].op # "approve" /\ Approved(req[w].copy)
             => issues[req[w].order] # <<>>
    BY <1>1, BusyRecord DEF OrdersInvariant, CopiesBacked
  <1>3. CASE req' = [req EXCEPT ![w] = NoRequest]
    BY <1>1, <1>2, <1>3, RequestStep
  <1>4. CASE ReadItems(w)
    <2>1. items[req[w].order] \in Requests
      BY <1>2
    <2>2. req[w].op = "approve"
      BY <1>1, <1>4 DEF ReadItems, At, OrdersInvariant
    <2> DEFINE r == [req[w] EXCEPT !.lines = items[req[w].order], !.at = "begin"]
    <2>3. req' = [req EXCEPT ![w] = r]
      BY <1>4, <1>2 DEF ReadItems, RequestRecord
    <2>4. r \in RequestRecord /\ r.order = req[w].order /\ r.op = "approve"
          /\ r.lines \in Requests /\ r.at = "begin"
      BY <1>2, <2>1, <2>2 DEF RequestRecord
    <2> HIDE DEF r
    <2> QED
      BY <1>1, <1>2, <2>3, <2>4, RequestStep
  <1>5. CASE BeginIssue(w)
    <2> DEFINE r == [req[w] EXCEPT !.at = "issue"]
    <2>1. req[w].op = "approve" /\ req[w].lines \in Requests
      BY <1>1, <1>5 DEF BeginIssue, At, OrdersInvariant
    <2>2. req' = [req EXCEPT ![w] = r]
      BY <1>5, <1>2 DEF BeginIssue, GoTo, RequestRecord
    <2>3. r \in RequestRecord /\ r.order = req[w].order /\ r.op = "approve"
          /\ r.lines \in Requests /\ r.at = "issue"
      BY <1>2, <2>1 DEF RequestRecord
    <2> HIDE DEF r
    <2> QED
      BY <1>1, <1>2, <2>2, <2>3, RequestStep
  <1>6. CASE IssueStatement(w)
    <2>1. req' = req \/ req' = [req EXCEPT ![w] = NoRequest]
      BY <1>6 DEF IssueStatement
    <2>2. CASE req' = req
      BY <1>1, <2>2 DEF OrdersInvariant, ApprovedWasIssued, CopiesBacked
    <2> QED
      BY <1>3, <2>1, <2>2
  <1>7. CASE MarkApproved(w)
    <2> DEFINE r == [req[w] EXCEPT !.copy = MarkedApproved(req[w].copy),
                                   !.at = "load"]
    <2>1. req[w].op = "approve" /\ req[w].lines \in Requests
      BY <1>1, <1>7 DEF MarkApproved, At, OrdersInvariant
    <2>2. req' = [req EXCEPT ![w] = r]
      BY <1>7, <1>2 DEF MarkApproved, RequestRecord
    <2>3. MarkedApproved(req[w].copy) \in Row
      BY <1>2 DEF RequestRecord, MarkedApproved, Row
    <2>4. r \in RequestRecord /\ r.order = req[w].order /\ r.op = "approve"
          /\ r.lines \in Requests /\ r.at = "load"
      BY <1>2, <2>1, <2>3 DEF RequestRecord
    <2> HIDE DEF r
    <2> QED
      BY <1>1, <1>2, <2>2, <2>4, RequestStep
  <1>8. CASE SaveLoad(w)
    <2> DEFINE r == [req[w] EXCEPT !.diff = Differing(w), !.at = "write"]
    <2>1. req' = [req EXCEPT ![w] = r]
      BY <1>8, <1>2 DEF SaveLoad, RequestRecord
    <2>2. /\ r \in RequestRecord /\ r.order = req[w].order /\ r.at = "write"
          /\ r.op = req[w].op /\ r.copy = req[w].copy /\ r.lines = req[w].lines
      BY <1>2 DEF RequestRecord, Differing
    <2>3. req[w].at = "load"
      BY <1>8 DEF SaveLoad, At
    <2> HIDE DEF r
    <2> QED
      BY <1>1, <1>2, <2>1, <2>2, <2>3, RequestStep DEF OrdersInvariant
  <1>9. CASE SaveWrite(w)
    <2>1. /\ req[w].at = "write"
          /\ AfterWrite(req[w]) \in {"delete", "commit"}
          /\ AfterWrite(req[w]) = "delete" => req[w].op = "update"
      BY <1>9 DEF SaveWrite, At, AfterWrite
    <2>2. PICK r :
            /\ req' = [req EXCEPT ![w] = r]
            /\ r \in {[req[w] EXCEPT !.at = AfterWrite(req[w])],
                     [req[w] EXCEPT !.dirty = req[w].dirty \cup req[w].diff,
                                    !.touch = FALSE, !.rowLock = TRUE,
                                    !.at = AfterWrite(req[w])]}
      BY <1>9, <1>2 DEF SaveWrite, GoTo, RequestRecord
    <2>3. /\ r \in RequestRecord /\ r.order = req[w].order
          /\ r.at \in {"delete", "commit"}
          /\ r.at = "delete" => req[w].op = "update"
          /\ r.op = req[w].op /\ r.copy = req[w].copy /\ r.lines = req[w].lines
      BY ZenonT(60), <1>2, <2>1, <2>2 DEF RequestRecord
    <2> QED
      BY <1>1, <1>2, <2>1, <2>2, <2>3, RequestStep DEF OrdersInvariant
  <1>10. CASE ReplaceItems(w)
    <2> DEFINE copy == [req[w].copy EXCEPT !.amount = req[w].lines]
               r == [req[w] EXCEPT !.swap = TRUE, !.copy = copy, !.at = "load"]
    <2>1. req[w].at \in {"delete", "deleting"}
      BY <1>10 DEF ReplaceItems, At
    <2>2. req[w].op = "update" /\ req[w].lines \in Requests
      BY <1>1, <2>1 DEF OrdersInvariant
    <2>3. Approved(copy) => Approved(req[w].copy)
      BY <1>2 DEF RequestRecord, Row, Approved
    <2>4. req' = [req EXCEPT ![w] = r]
      BY <1>10, <1>2 DEF ReplaceItems, RequestRecord
    <2>5. copy \in Row
      BY <1>2, <2>2 DEF RequestRecord, Row
    <2>6. /\ r \in RequestRecord /\ r.order = req[w].order /\ r.at = "load"
          /\ r.op = "update" /\ r.copy = copy /\ r.lines = req[w].lines
      BY <1>2, <2>2, <2>5 DEF RequestRecord
    <2>7. Approved(r.copy) => issues[r.order] # <<>>
      BY <1>2, <2>2, <2>3, <2>6
    <2> HIDE DEF r, copy
    <2> QED
      BY <1>1, <1>2, <2>2, <2>4, <2>6, <2>7, RequestStep
  <1>11. CASE DeleteWaits(w)
    <2> DEFINE r == [req[w] EXCEPT !.at = "deleting"]
    <2>1. req' = [req EXCEPT ![w] = r] /\ req[w].at = "delete"
      BY <1>11, <1>2 DEF DeleteWaits, GoTo, At, RequestRecord
    <2>2. /\ r \in RequestRecord /\ r.order = req[w].order /\ r.at = "deleting"
          /\ r.op = req[w].op /\ r.copy = req[w].copy /\ r.lines = req[w].lines
      BY <1>2 DEF RequestRecord
    <2> HIDE DEF r
    <2> QED
      BY <1>1, <1>2, <2>1, <2>2, RequestStep DEF OrdersInvariant
  <1> QED
    BY <1>3, <1>4, <1>5, <1>6, <1>7, <1>8, <1>9, <1>10, <1>11
    DEF InsertClashes, Abandon, BreakDeadlock

(* SaveAlone and the commits put a copy's columns into the table.          *)
LEMMA SaveAloneInvariant ==
    ASSUME OrdersInvariant, NEW w \in Workers, SaveAlone(w)
    PROVE  OrdersInvariant'
  <1> USE DEF OrdersInvariant
  <1> DEFINE r == req[w]
             row == Overlay(so[r.order], r.copy, r.diff)
  <1>1. /\ ~Idle(w) /\ r.op # "approve"
        /\ so' = [so EXCEPT ![r.order] = row]
        /\ req' = [req EXCEPT ![w] = NoRequest]
        /\ UNCHANGED <<items, issues, overlapped>>
    BY DEF SaveAlone, At
  <1>2. r.order \in DOMAIN so /\ r.copy \in Row /\ so[r.order] \in Row
    BY <1>1, BusyRecord
  <1>3. row \in Row /\ Approved(row) => issues[r.order] # <<>>
    <2>1. Approved(row) => Approved(so[r.order]) \/ Approved(r.copy)
      BY <1>2, OverlayOfRows
    <2>2. Approved(so[r.order]) => issues[r.order] # <<>>
      BY <1>2 DEF ApprovedWasIssued, Approved
    <2>3. Approved(r.copy) => issues[r.order] # <<>>
      BY <1>1 DEF CopiesBacked
    <2> QED
      BY <2>1, <2>2, <2>3
  <1>4. row \in Row
    BY <1>2, OverlayOfRows
  <1> HIDE DEF row
  <1>5. OrdersShape'
    BY <1>1, <1>2, <1>4
  <1>6. RequestsGrounded' /\ CopiesBacked'
    BY <1>1, <1>2 DEF CopiesBacked
  <1>7. ApprovedWasIssued'
    BY <1>1, <1>2, <1>3, <1>4 DEF ApprovedWasIssued, Approved
  <1> QED
    BY <1>5, <1>6, <1>7

LEMMA CommitUpdateInvariant ==
    ASSUME OrdersInvariant, NEW w \in Workers, CommitUpdate(w)
    PROVE  OrdersInvariant'
  <1> USE DEF OrdersInvariant
  <1> DEFINE r == req[w]
             row == Overlay(so[r.order], r.copy, r.dirty)
             missed(v) == On(v, r.order) /\ req[v].at = "deleting"
  <1>1. /\ ~Idle(w) /\ r.op = "update"
        /\ so' = [so EXCEPT ![r.order] = row]
        /\ items' = [items EXCEPT ![r.order] = r.lines]
        /\ UNCHANGED <<issues, overlapped>>
    BY DEF CommitUpdate, At
  <1>2. /\ r.order \in DOMAIN so /\ r.copy \in Row /\ so[r.order] \in Row
        /\ r.lines \in Requests
    BY <1>1, BusyRecord
  <1>3. Approved(row) => issues[r.order] # <<>>
    <2>1. Approved(row) => Approved(so[r.order]) \/ Approved(r.copy)
      BY <1>2, OverlayOfRows
    <2>2. Approved(so[r.order]) => issues[r.order] # <<>>
      BY <1>2 DEF ApprovedWasIssued, Approved
    <2>3. Approved(r.copy) => issues[r.order] # <<>>
      BY <1>1 DEF CopiesBacked
    <2> QED
      BY <2>1, <2>2, <2>3
  <1>4. row \in Row
    BY <1>2, OverlayOfRows
  <1>5. req' = [v \in Workers |->
                  IF v = w THEN NoRequest
                  ELSE IF missed(v) THEN [req[v] EXCEPT !.at = "missed"]
                  ELSE req[v]]
    BY DEF CommitUpdate
  <1>6. ASSUME NEW v \in Workers \ {w}, missed(v)
        PROVE  /\ req'[v] \in RequestRecord /\ req'[v].at = "missed"
               /\ req'[v].op = req[v].op /\ req'[v].order = req[v].order
               /\ req'[v].copy = req[v].copy /\ req'[v].lines = req[v].lines
    <2>1. req[v] \in RequestRecord
      BY <1>6, BusyRecord DEF On
    <2>2. req'[v] = [req[v] EXCEPT !.at = "missed"]
      BY <1>5, <1>6
    <2> QED
      BY <2>1, <2>2 DEF RequestRecord
  <1>7. ASSUME NEW v \in Workers \ {w}, ~missed(v)
        PROVE  req'[v] = req[v]
    BY <1>5, <1>7
  <1>8. req'[w] = NoRequest
    BY <1>5
  <1> HIDE DEF row
  <1>9. OrdersShape'
    <2>1. req' \in [Workers -> RequestRecord \cup {NoRequest}]
      <3>1. \A v \in Workers : req'[v] \in RequestRecord \cup {NoRequest}
        BY <1>6, <1>7, <1>8
      <3>2. DOMAIN req' = Workers /\ req' = [v \in Workers |-> req'[v]]
        BY <1>5
      <3> QED
        BY <3>1, <3>2
    <2> QED
      BY <1>1, <1>2, <1>4, <2>1
  <1>10. RequestsGrounded' /\ CopiesBacked'
    <2> SUFFICES ASSUME NEW v \in Workers, ~Idle(v)'
                 PROVE  /\ (/\ req[v].order \in DOMAIN so
                            /\ req[v].at \in {"items", "begin", "issue"}
                                 => req[v].op = "approve"
                            /\ req[v].at \in {"delete", "deleting", "missed"}
                                 => req[v].op = "update"
                            /\ req[v].op = "update" => req[v].lines \in Requests
                            /\ req[v].op = "approve" /\ req[v].at # "items"
                                 => req[v].lines \in Requests)'
                        /\ req'[v].op # "approve" /\ Approved(req'[v].copy)
                             => issues'[req'[v].order] # <<>>
      BY DEF CopiesBacked, Approved
    <2>1. v # w
      BY <1>8
    <2>2. DOMAIN so' = DOMAIN so
      BY <1>1
    <2>3. CASE missed(v)
      BY <1>1, <1>6, <2>1, <2>2, <2>3 DEF On, CopiesBacked
    <2>4. CASE ~missed(v)
      BY <1>1, <1>7, <2>1, <2>2, <2>4 DEF CopiesBacked
    <2> QED
      BY <2>3, <2>4
  <1>11. ApprovedWasIssued'
    BY <1>1, <1>2, <1>3, <1>4 DEF ApprovedWasIssued, Approved
  <1> QED
    BY <1>9, <1>10, <1>11

LEMMA AppendIsLonger ==
    ASSUME NEW S, NEW s \in Seq(S), NEW e \in S
    PROVE  Append(s, e) \in Seq(S) /\ Append(s, e) # <<>>
  <1>1. Append(s, e) \in Seq(S) /\ Len(Append(s, e)) = Len(s) + 1
    OBVIOUS
  <1>2. Len(s) + 1 # 0
    OBVIOUS
  <1> QED
    BY <1>1, <1>2

LEMMA CommitApproveInvariant ==
    ASSUME OrdersInvariant, NEW w \in Workers, CommitApprove(w)
    PROVE  OrdersInvariant'
  <1> USE DEF OrdersInvariant
  <1> DEFINE r == req[w]
             row == Overlay(so[r.order], r.copy, r.dirty)
  <1>1. /\ ~Idle(w) /\ r.op = "approve" /\ r.at = "commit"
        /\ so' = [so EXCEPT ![r.order] = row]
        /\ issues' = [issues EXCEPT ![r.order] = Append(@, r.lines)]
        /\ req' = [req EXCEPT ![w] = NoRequest]
        /\ UNCHANGED <<items, overlapped>>
    BY DEF CommitApprove, At
  <1>2. /\ r.order \in DOMAIN so /\ r.copy \in Row /\ so[r.order] \in Row
        /\ r.lines \in Requests /\ r.order \in OrderIds
    BY <1>1, BusyRecord
  <1>3. row \in Row
    BY <1>2, OverlayOfRows
  <1>4. /\ issues' \in [OrderIds -> Seq(Requests)]
        /\ issues'[r.order] # <<>>
        /\ \A o \in OrderIds : issues[o] # <<>> => issues'[o] # <<>>
    <2>1. issues[r.order] \in Seq(Requests)
      BY <1>2
    <2>2. r.lines \in Requests
      BY <1>2
    <2>3. /\ Append(issues[r.order], r.lines) \in Seq(Requests)
          /\ Append(issues[r.order], r.lines) # <<>>
      BY <2>1, <2>2, AppendIsLonger
    <2> QED
      BY <1>1, <1>2, <2>3
  <1> HIDE DEF row
  <1>5. OrdersShape'
    BY <1>1, <1>2, <1>3, <1>4
  <1>6. RequestsGrounded'
    BY <1>1, <1>2
  <1>7. CopiesBacked'
    BY <1>1, <1>2, <1>4, BusyRecord DEF CopiesBacked
  <1>8. ApprovedWasIssued'
    BY <1>1, <1>2, <1>4 DEF ApprovedWasIssued
  <1> QED
    BY <1>5, <1>6, <1>7, <1>8

LEMMA OrdersNextInvariant ==
    OrdersInvariant /\ [OrdersNext]_vars => OrdersInvariant'
  <1> SUFFICES ASSUME OrdersInvariant, [OrdersNext]_vars
               PROVE  OrdersInvariant'
    OBVIOUS
  <1>1. ASSUME NEW w \in Workers, Receive(w)
        PROVE  OrdersInvariant'
    BY <1>1, ReceiveInvariant
  <1>2. ASSUME NEW w \in Workers, Proceed(w)
        PROVE  OrdersInvariant'
    BY <1>2, InnerStepInvariant, SaveAloneInvariant, CommitUpdateInvariant,
       CommitApproveInvariant
    DEF Proceed
  <1>3. ASSUME NEW w \in Workers, Abandon(w) \/ BreakDeadlock(w)
        PROVE  OrdersInvariant'
    BY <1>3, InnerStepInvariant
  <1>4. CASE UNCHANGED vars
    BY <1>4 DEF vars, orderVars, OrdersInvariant, ApprovedWasIssued, CopiesBacked
  <1> QED
    BY <1>1, <1>2, <1>3, <1>4 DEF OrdersNext

LEMMA OrdersInvariantHolds == OrdersSafety => []OrdersInvariant
  BY OrdersInitInvariant, OrdersNextInvariant, PTL DEF OrdersSafety

(* Every step of a request is a step of StockLedger or leaves stock alone. *)
LEMMA StepsOfLedger ==
    OrdersInvariant /\ [OrdersNext]_vars => [StockNext]_stockVars
  <1> SUFFICES ASSUME OrdersInvariant, [OrdersNext]_vars
               PROVE  [StockNext]_stockVars
    OBVIOUS
  <1>1. ASSUME NEW w \in Workers, Receive(w)
        PROVE  UNCHANGED stockVars
    BY <1>1 DEF Receive, CreateDraft, OpenUpdate, OpenSubmit, OpenApprove,
                OpenReject, Open
  <1>2. ASSUME NEW w \in Workers, BeginIssue(w)
        PROVE  StockNext
    <2>1. req[w].lines \in Requests
      BY <1>2 DEF BeginIssue, At, OrdersInvariant
    <2>2. RoomFor(req[w].lines)
      BY <2>1, OrderLinesAssumption DEF RoomFor
    <2> QED
      BY <1>2, <2>1, <2>2 DEF BeginIssue, StockNext
  <1>3. ASSUME NEW w \in Workers, IssueStatement(w) \/ CommitApprove(w)
        PROVE  StockNext
    BY <1>3 DEF IssueStatement, CommitApprove, StockNext, Step
  <1>4. ASSUME NEW w \in Workers,
               \/ ReadItems(w) \/ MarkApproved(w) \/ SaveLoad(w)
               \/ SaveWrite(w) \/ SaveAlone(w) \/ ReplaceItems(w)
               \/ DeleteWaits(w) \/ InsertClashes(w) \/ CommitUpdate(w)
        PROVE  UNCHANGED stockVars
    BY <1>4 DEF ReadItems, MarkApproved, SaveLoad, SaveWrite, SaveAlone,
                ReplaceItems, DeleteWaits, InsertClashes, CommitUpdate
  <1>5. ASSUME NEW w \in Workers, Abandon(w) \/ BreakDeadlock(w)
        PROVE  StockNext \/ UNCHANGED stockVars
    BY <1>5 DEF Abandon, BreakDeadlock, StockNext, Crash
  <1>6. CASE UNCHANGED vars
    BY <1>6 DEF vars
  <1> QED
    BY <1>1, <1>2, <1>3, <1>4, <1>5, <1>6 DEF OrdersNext, Proceed

(* approve moves stock only by the statements of StockLedger.              *)
THEOREM IssuesAreLedgerSteps == OrdersSafety => IssuesByLedger
  <1>1. OrdersInit => StockInit
    BY DEF OrdersInit
  <1> QED
    BY <1>1, OrdersInvariantHolds, StepsOfLedger, PTL
    DEF OrdersSafety, IssuesByLedger, StockSafety

(* However requests on orders overlap, no committed balance is negative    *)
(* and every balance equals its journal.                                   *)
THEOREM OrdersKeepStock ==
    OrdersSafety => []OnHandNeverNegative /\ []BalanceIsLedger
  BY IssuesAreLedgerSteps, NeverNegative, LedgerAgrees, PTL DEF IssuesByLedger

(* No order shows as approved, by status or time stamp, unless its stock   *)
(* was issued.                                                             *)
THEOREM ApprovedOrdersIssued == OrdersSafety => []ApprovedWasIssued
  <1>1. OrdersInvariant => ApprovedWasIssued
    BY DEF OrdersInvariant
  <1> QED
    BY <1>1, OrdersInvariantHolds, PTL

(* Headers, lines and requests keep the shape of their tables.             *)
THEOREM OrdersTypeCorrect == OrdersSafety => []OrdersTypeOK
  <1>1. OrdersInvariant /\ StockTypeOK => OrdersTypeOK
    BY DEF OrdersInvariant, OrdersTypeOK
  <1> QED
    BY <1>1, OrdersInvariantHolds, IssuesAreLedgerSteps, TypeCorrect, PTL
    DEF IssuesByLedger
----------------------------------------------------------------------------
(* The stock that left.  An open transaction posts the lines its approval  *)
(* read, so that what it commits is what the history says was issued.      *)
Issuing(w) ==
    /\ ~Idle(w) /\ req[w].op = "approve"
    /\ req[w].at \in {"issue", "load", "write", "commit"}
    /\ \E lines \in Requests : lines = req[w].lines /\ Posts(w, lines)

IssuesPosted == \A w \in Workers : pc[w] # "idle" => Issuing(w)

LEMMA InitIssuesPosted == OrdersInit => IssuesPosted
  BY DEF OrdersInit, StockInit, IssuesPosted

(* A request goes on while its transaction stands still.                   *)
LEMMA StillIssuing ==
    ASSUME NEW v \in Workers, Issuing(v),
           pc'[v] = pc[v] /\ todo'[v] = todo[v] /\ delta'[v] = delta[v],
           ~Idle(v)', req'[v].op = req[v].op, req'[v].lines = req[v].lines,
           req'[v].at \in {"issue", "load", "write", "commit"}
    PROVE  Issuing(v)'
  <1>1. PICK lines \in Requests : lines = req[v].lines /\ Posts(v, lines)
    BY DEF Issuing
  <1>2. Posts(v, lines)'
    BY <1>1, StillPosts
  <1> QED
    BY <1>1, <1>2 DEF Issuing

(* The requests of the others, too, stand still while a worker moves.      *)
LEMMA OthersStillIssuing ==
    ASSUME OrdersInvariant, IssuesPosted, NEW w \in Workers,
           NEW v \in Workers \ {w}, pc'[v] # "idle",
           pc'[v] = pc[v] /\ todo'[v] = todo[v] /\ delta'[v] = delta[v],
           Receive(w) \/ Proceed(w) \/ Abandon(w) \/ BreakDeadlock(w)
    PROVE  Issuing(v)'
  <1>1. Issuing(v)
    BY DEF IssuesPosted
  <1>2. CASE CommitUpdate(w)
    <2>1. req[v].at # "deleting"
      BY <1>1 DEF Issuing
    <2>2. req'[v] = req[v]
      BY <1>2, <2>1 DEF CommitUpdate
    <2> QED
      BY <1>1, <2>2, StillIssuing DEF Issuing
  <1>3. CASE ~CommitUpdate(w)
    <2>1. req'[v] = req[v]
      BY <1>3 DEF OrdersInvariant, Receive, CreateDraft, OpenUpdate,
         OpenSubmit, OpenApprove, OpenReject, Open, Proceed, ReadItems,
         BeginIssue, GoTo, IssueStatement, MarkApproved, SaveLoad, SaveWrite,
         SaveAlone, ReplaceItems, DeleteWaits, InsertClashes, CommitApprove,
         Abandon, BreakDeadlock
    <2> QED
      BY <1>1, <2>1, StillIssuing DEF Issuing
  <1> QED
    BY <1>2, <1>3

(* The step of the request itself.                                         *)
LEMMA OwnIssuing ==
    ASSUME StockInvariant, OrdersInvariant, IssuesPosted, NEW w \in Workers,
           pc'[w] # "idle",
           Receive(w) \/ Proceed(w) \/ Abandon(w) \/ BreakDeadlock(w)
    PROVE  Issuing(w)'
  <1>1. CASE BeginIssue(w)
    <2>1. /\ ~Idle(w) /\ req[w].op = "approve" /\ req[w] \in RequestRecord
          /\ req[w].lines \in Requests
      BY <1>1, BusyRecord DEF BeginIssue, At, OrdersInvariant
    <2>2. /\ ~Idle(w)' /\ req'[w].op = "approve" /\ req'[w].at = "issue"
          /\ req'[w].lines = req[w].lines
      BY <1>1, <2>1 DEF BeginIssue, GoTo, OrdersInvariant, RequestRecord
    <2>3. PICK lines \in Requests : lines = req[w].lines
      BY <2>1
    <2>4. Posts(w, lines)'
      BY <1>1, <2>3, BeginPosts DEF BeginIssue
    <2> QED
      BY <2>2, <2>3, <2>4 DEF Issuing
  <1>2. CASE ~BeginIssue(w)
    <2>1. pc[w] # "idle"
      BY <1>2 DEF OrdersInvariant, Receive, CreateDraft, OpenUpdate,
         OpenSubmit, OpenApprove, OpenReject, Open, Proceed, ReadItems,
         IssueStatement, SelectLots, TakeLot, UpsertBalance, CheckBalance,
         MarkApproved, SaveLoad, SaveWrite, SaveAlone, ReplaceItems,
         DeleteWaits, InsertClashes, CommitUpdate, CommitApprove, Commit,
         Abandon, BreakDeadlock, stockVars
    <2>2. /\ Issuing(w) /\ ~Idle(w) /\ req[w] \in RequestRecord
          /\ req[w].op = "approve"
          /\ req[w].at \in {"issue", "load", "write", "commit"}
      <3>1. Issuing(w)
        BY <2>1 DEF IssuesPosted
      <3> QED
        BY <3>1, BusyRecord DEF Issuing, OrdersInvariant
    <2>3. CASE IssueStatement(w)
      <3>1. req' = req /\ Step(w)
        BY <2>3 DEF IssueStatement, Step
      <3>2. PICK lines \in Requests : lines = req[w].lines /\ Posts(w, lines)
        BY <2>2 DEF Issuing
      <3>3. Posts(w, lines)'
        BY <3>1, <3>2, StepPosts
      <3> QED
        BY <2>2, <3>1, <3>2, <3>3 DEF Issuing
    <2>4. ~Abandon(w) /\ ~BreakDeadlock(w) /\ ~CommitApprove(w)
      <3>1. ~Discard(w)
        BY DEF Discard, StockInvariant, StockTypeOK
      <3> QED
        BY <2>1, <3>1 DEF Abandon, BreakDeadlock, CommitApprove, Commit, Rollback
    <2>5. CASE MarkApproved(w) \/ SaveLoad(w) \/ SaveWrite(w)
      <3>1. pc' = pc /\ todo' = todo /\ delta' = delta
        BY <2>5 DEF MarkApproved, SaveLoad, SaveWrite, stockVars, pending
      <3>2. /\ ~Idle(w)' /\ req'[w].op = req[w].op
            /\ req'[w].lines = req[w].lines
            /\ req'[w].at \in {"issue", "load", "write", "commit"}
        BY <2>2, <2>5 DEF MarkApproved, SaveLoad, SaveWrite, GoTo, AfterWrite,
           OrdersInvariant, RequestRecord
      <3> QED
        BY <2>2, <3>1, <3>2, StillIssuing
    <2> QED
      BY <1>2, <2>2, <2>3, <2>4, <2>5 DEF Receive, CreateDraft, OpenUpdate,
         OpenSubmit, OpenApprove, OpenReject, Open, Proceed, ReadItems,
         SaveAlone, ReplaceItems, DeleteWaits, InsertClashes, CommitUpdate, At
  <1> QED
    BY <1>1, <1>2

LEMMA NextIssuesPosted ==
    StockInvariant /\ OrdersInvariant /\ IssuesPosted /\ [OrdersNext]_vars
      => IssuesPosted'
  <1> SUFFICES ASSUME StockInvariant, OrdersInvariant, IssuesPosted,
                      [OrdersNext]_vars, NEW v \in Workers, pc'[v] # "idle"
               PROVE  Issuing(v)'
    BY DEF IssuesPosted
  <1>1. CASE UNCHANGED vars
    <2>1. UNCHANGED <<pc, todo, delta, req>>
      BY <1>1 DEF vars, stockVars, pending, orderVars
    <2> QED
      BY <2>1, StillIssuing DEF IssuesPosted, Issuing
  <1>2. CASE OrdersNext
    <2>1. PICK w \in Workers :
            Receive(w) \/ Proceed(w) \/ Abandon(w) \/ BreakDeadlock(w)
      BY <1>2 DEF OrdersNext
    <2>2. CASE v = w
      BY <2>1, <2>2, OwnIssuing
    <2>3. CASE v # w
      <3>1. pc'[v] = pc[v] /\ todo'[v] = todo[v] /\ delta'[v] = delta[v]
        <4>1. CASE UNCHANGED stockVars
          BY <4>1 DEF stockVars, pending
        <4>2. CASE BeginIssue(w)
          <5>1. req[w].lines \in Requests
            BY <4>2 DEF BeginIssue, At, OrdersInvariant
          <5> QED
            BY <2>3, <4>2, <5>1, OthersUntouched DEF BeginIssue
        <4>3. CASE Step(w) \/ Discard(w)
          BY <2>3, <4>3, OthersUntouched
        <4> QED
          BY <2>1, <4>1, <4>2, <4>3 DEF Receive, CreateDraft, OpenUpdate,
             OpenSubmit, OpenApprove, OpenReject, Open, Proceed, ReadItems,
             IssueStatement, Step, MarkApproved, SaveLoad, SaveWrite,
             SaveAlone, ReplaceItems, DeleteWaits, InsertClashes,
             CommitUpdate, CommitApprove, Abandon, BreakDeadlock, Rollback
      <3> QED
        BY <2>1, <2>3, <3>1, OthersStillIssuing
    <2> QED
      BY <2>2, <2>3
  <1> QED
    BY <1>1, <1>2

(* What the issues of an order took from a key, as StockLeavesByApproval   *)
(* counts it.                                                              *)
Effects(lists, k) == [i \in DOMAIN lists |-> Book!Effect(lists[i], k)]
Issued(o, k) == SumFunction(Effects(issues[o], k))

LEMMA EffectIsInt ==
    ASSUME NEW request \in Requests, NEW k \in Keys
    PROVE  Book!Effect(request, k) \in Int
  <1> DEFINE f == LineEffects(request, k)
  <1>1. /\ DOMAIN request = 1..Len(request) /\ Len(request) \in Nat
        /\ \A i \in 1..Len(request) : f[i] \in Int
    BY LineEffectTypes
  <1>2. IsFiniteSet(1..Len(request))
    BY <1>1, FS_Interval
  <1>3. Book!Effect(request, k) = SumFunctionOnSet(f, DOMAIN request)
    BY BookSum DEF Book!Effect, LineEffects
  <1> HIDE DEF f
  <1>4. SumFunctionOnSet(f, 1..Len(request)) \in Int
    BY <1>1, <1>2, SumIsInt
  <1> QED
    BY <1>1, <1>3, <1>4

LEMMA IssuedTypes ==
    ASSUME NEW lists \in Seq(Requests), NEW k \in Keys
    PROVE  /\ SumFunction(Effects(lists, k)) \in Int
           /\ \A i \in 1..Len(lists) : Effects(lists, k)[i] \in Int
  <1> DEFINE f == Effects(lists, k)
  <1>1. DOMAIN f = 1..Len(lists) /\ \A i \in 1..Len(lists) : f[i] \in Int
    BY EffectIsInt DEF Effects
  <1>2. IsFiniteSet(1..Len(lists))
    BY FS_Interval
  <1> HIDE DEF f
  <1>3. SumFunctionOnSet(f, 1..Len(lists)) \in Int
    BY <1>1, <1>2, SumIsInt
  <1>4. SumFunction(f) \in Int
    BY <1>1, <1>3 DEF SumFunction
  <1> QED
    BY <1>1, <1>4 DEF f

(* One more issue takes what its lines say.                                *)
LEMMA OneMoreIssue ==
    ASSUME NEW lists \in Seq(Requests), NEW lines \in Requests, NEW k \in Keys
    PROVE  SumFunction(Effects(Append(lists, lines), k))
             = SumFunction(Effects(lists, k)) + Book!Effect(lines, k)
  <1> DEFINE more == Append(lists, lines)
             f == Effects(lists, k)
             g == Effects(more, k)
             n == Len(lists)
  <1>1. /\ more \in Seq(Requests) /\ n \in Nat /\ Len(more) = n + 1
        /\ more[n + 1] = lines /\ \A i \in 1..n : more[i] = lists[i]
    OBVIOUS
  <1>2. /\ DOMAIN f = 1..n /\ DOMAIN g = 1..(n + 1)
        /\ \A i \in 1..n : f[i] = g[i]
        /\ g[n + 1] = Book!Effect(lines, k)
    BY <1>1 DEF Effects
  <1>3. \A i \in 1..(n + 1) : g[i] \in Int
    BY <1>1, IssuedTypes
  <1> HIDE DEF f, g, n, more
  <1>4. /\ IsFiniteSet(1..n) /\ n + 1 \notin 1..n
        /\ 1..(n + 1) = (1..n) \cup {n + 1}
    <2>1. n \in Nat
      BY <1>1
    <2>2. n + 1 \notin 1..n /\ 1..(n + 1) = (1..n) \cup {n + 1}
      BY <2>1
    <2>3. 1 \in Int /\ n \in Int
      BY <2>1
    <2>4. IsFiniteSet(1..n)
      BY <2>3, FS_Interval
    <2> QED
      BY <2>2, <2>4
  <1>5. SumFunctionOnSet(g, 1..n) = SumFunctionOnSet(f, 1..n)
    <2>1. \A i \in 1..n : g[i] = f[i]
      BY <1>2
    <2> QED
      BY <1>4, <2>1, SumSame
  <1>6. SumFunctionOnSet(g, (1..n) \cup {n + 1})
          = SumFunctionOnSet(g, 1..n) + g[n + 1]
    <2> DEFINE S == 1..n
               x == n + 1
    <2>1. /\ \A i \in S : g[i] \in Int
          /\ g[x] \in Int /\ x \notin S /\ IsFiniteSet(S)
      BY <1>3, <1>4
    <2> HIDE DEF S, x
    <2>2. SumFunctionOnSet(g, S \cup {x}) = SumFunctionOnSet(g, S) + g[x]
      BY <2>1, SumAdd
    <2> QED
      BY <2>2 DEF S, x
  <1>7. SumFunction(g) = SumFunction(f) + Book!Effect(lines, k)
    BY <1>2, <1>4, <1>5, <1>6 DEF SumFunction
  <1> QED
    BY <1>7 DEF f, g, more

LEMMA CommitApproveLeaves ==
    ASSUME StockInvariant, OrdersInvariant, IssuesPosted,
           StockLeavesByApproval, NEW w \in Workers, CommitApprove(w)
    PROVE  StockLeavesByApproval'
  <1> DEFINE o == req[w].order
  <1>1. PICK lines \in Requests : lines = req[w].lines /\ Posts(w, lines)
    BY DEF CommitApprove, Commit, IssuesPosted, Issuing
  <1>2. /\ o \in OrderIds /\ issues \in [OrderIds -> Seq(Requests)]
        /\ issues' = [issues EXCEPT ![o] = Append(issues[o], lines)]
    BY <1>1, BusyRecord DEF CommitApprove, At, OrdersInvariant
  <1>3. onHand' = [k \in Keys |-> onHand[k] + Book!Effect(lines, k)]
    BY <1>1, CommitPosts DEF CommitApprove
  <1> HIDE DEF o
  <1>4. ASSUME NEW k \in Keys
        PROVE  onHand'[k] = InitOnHand[k] + SumFunction([p \in OrderIds |-> Issued(p, k)'])
    <2> DEFINE f == [p \in OrderIds |-> Issued(p, k)]
               g == [p \in OrderIds |-> Issued(p, k)']
    <2>1. /\ \A p \in OrderIds : f[p] \in Int
          /\ g[o] = f[o] + Book!Effect(lines, k)
          /\ \A p \in OrderIds \ {o} : g[p] = f[p]
      <3>1. \A p \in OrderIds : f[p] \in Int
        BY <1>2, IssuedTypes DEF Issued
      <3>2. g[o] = SumFunction(Effects(Append(issues[o], lines), k))
        BY <1>2 DEF Issued, Effects, Book!Effect, Book!LineEffect
      <3>3. \A p \in OrderIds \ {o} : g[p] = f[p]
        BY <1>2 DEF Issued, Effects, Book!Effect, Book!LineEffect
      <3> QED
        BY <1>2, <3>1, <3>2, <3>3, OneMoreIssue DEF Issued
    <2>2. Book!Effect(lines, k) \in Int
      BY EffectIsInt
    <2>3. onHand[k] = InitOnHand[k] + SumFunctionOnSet(f, OrderIds)
      BY DEF StockLeavesByApproval, Issued, Effects, SumFunction
    <2>4. onHand'[k] = onHand[k] + Book!Effect(lines, k)
      BY <1>3
    <2>5. onHand[k] \in Int /\ InitOnHand[k] \in Int
      BY LotsAssumption DEF StockInvariant, StockTypeOK
    <2>6. SumFunction(g) = SumFunctionOnSet(g, OrderIds)
      BY DEF SumFunction
    <2> HIDE DEF f, g
    <2>7. g[o] \in Int
      BY <1>2, <2>1, <2>2
    <2>8. SumFunctionOnSet(g, OrderIds) = SumFunctionOnSet(f, OrderIds) + (g[o] - f[o])
      BY <1>2, <2>1, <2>7, SumChange, OrderIdsAssumption
    <2>9. SumFunctionOnSet(f, OrderIds) \in Int /\ f[o] \in Int
      BY <1>2, <2>1, SumIsInt, OrderIdsAssumption
    <2>10. onHand'[k] = InitOnHand[k] + SumFunctionOnSet(g, OrderIds)
      BY <2>1, <2>2, <2>3, <2>4, <2>5, <2>8, <2>9
    <2> QED
      BY <2>6, <2>10 DEF g
  <1> QED
    BY <1>4 DEF StockLeavesByApproval, Issued, Effects

LEMMA OnlyCommitsMove ==
    ASSUME [OrdersNext]_vars, ~ \E w \in Workers : CommitApprove(w)
    PROVE  onHand' = onHand /\ issues' = issues
  <1>1. CASE UNCHANGED vars
    BY <1>1 DEF vars, stockVars, committed, orderVars
  <1>2. ASSUME NEW w \in Workers, Receive(w)
        PROVE  UNCHANGED <<onHand, issues>>
    BY <1>2 DEF Receive, CreateDraft, OpenUpdate, OpenSubmit, OpenApprove,
       OpenReject, Open, stockVars, committed
  <1>3. ASSUME NEW w \in Workers, Proceed(w)
        PROVE  UNCHANGED <<onHand, issues>>
    <2>1. CASE IssueStatement(w)
      BY <2>1 DEF IssueStatement, SelectLots, TakeLot, UpsertBalance,
         CheckBalance, Rollback, committed
    <2>2. CASE ~IssueStatement(w)
      BY <1>3, <2>2 DEF Proceed, ReadItems, BeginIssue, Begin, MarkApproved,
         SaveLoad, SaveWrite, SaveAlone, ReplaceItems, DeleteWaits,
         InsertClashes, CommitUpdate, stockVars, committed
    <2> QED
      BY <2>1, <2>2
  <1>4. ASSUME NEW w \in Workers, Abandon(w) \/ BreakDeadlock(w)
        PROVE  UNCHANGED <<onHand, issues>>
    BY <1>4 DEF Abandon, BreakDeadlock, Rollback, stockVars, committed
  <1> QED
    BY <1>1, <1>2, <1>3, <1>4 DEF OrdersNext

LEMMA InitStockLeaves == OrdersInit => StockLeavesByApproval
  <1> SUFFICES ASSUME OrdersInit, NEW k \in Keys
               PROVE  onHand[k] = InitOnHand[k] + SumFunction([o \in OrderIds |-> Issued(o, k)])
    BY DEF StockLeavesByApproval, Issued, Effects
  <1> DEFINE f == [o \in OrderIds |-> Issued(o, k)]
  <1>1. ASSUME NEW o \in OrderIds
        PROVE  f[o] = 0
    <2>1. DOMAIN Effects(issues[o], k) = {}
      BY DEF OrdersInit, Effects
    <2> QED
      BY <2>1, SumEmpty DEF Issued, SumFunction
  <1>2. SumFunction(f) = SumFunctionOnSet(f, OrderIds)
    BY DEF SumFunction
  <1>3. onHand[k] = InitOnHand[k] /\ InitOnHand[k] \in Nat
    BY LotsAssumption DEF OrdersInit, StockInit
  <1> HIDE DEF f
  <1>4. SumFunction(f) = 0
    BY <1>1, <1>2, SumZero, OrderIdsAssumption
  <1> QED
    BY <1>3, <1>4 DEF f

(* Stock leaves only with an approval, whole: each balance is what it was  *)
(* less the lines of every approval that committed, whatever overlaps.     *)
THEOREM StockLeaves == OrdersSafety => []StockLeavesByApproval
  <1>1. /\ StockInvariant /\ OrdersInvariant /\ IssuesPosted
        /\ StockLeavesByApproval /\ [OrdersNext]_vars
        => StockLeavesByApproval'
    <2> SUFFICES ASSUME StockInvariant, OrdersInvariant, IssuesPosted,
                        StockLeavesByApproval, [OrdersNext]_vars
                 PROVE  StockLeavesByApproval'
      OBVIOUS
    <2>1. CASE \E w \in Workers : CommitApprove(w)
      BY <2>1, CommitApproveLeaves
    <2>2. CASE ~ \E w \in Workers : CommitApprove(w)
      <3>1. onHand' = onHand /\ issues' = issues
        BY <2>2, OnlyCommitsMove
      <3> QED
        BY <3>1 DEF StockLeavesByApproval, Book!Effect, Book!LineEffect
    <2> QED
      BY <2>1, <2>2
  <1>2. OrdersSafety => []StockInvariant
    BY IssuesAreLedgerSteps, InvariantHolds, PTL DEF IssuesByLedger
  <1> QED
    BY <1>1, <1>2, InitIssuesPosted, NextIssuesPosted, InitStockLeaves,
       OrdersInvariantHolds, PTL
    DEF OrdersSafety
----------------------------------------------------------------------------
(* Requests that meet no other.  Such a request has the order to itself    *)
(* from its first read to its last write: the copy in memory is the row as *)
(* it stands, but for what the request means to change, and what the save  *)
(* found different is all of it.                                           *)
OneRequest ==
    \A w, v \in Workers :
        w # v /\ ~Idle(w) /\ On(v, req[w].order) => req[w].order \in overlapped

CopyFits(w) ==
    LET r == req[w]
        row == so[r.order]
    IN  \/ /\ r.op = "update" /\ row.status = "draft"
           /\ r.copy = [row EXCEPT !.amount = IF r.swap THEN r.lines ELSE @]
           /\ r.at \in {"load", "write", "delete", "deleting", "missed", "commit"}
           /\ r.at = "commit" => r.swap
        \/ /\ r.op = "approve" /\ row.status = "submitted"
           /\ r.copy = IF r.at \in {"items", "begin", "issue"} THEN row
                       ELSE MarkedApproved(row)
           /\ r.at # "items" => r.lines = items[r.order]
        \/ /\ r.op = "submit" /\ row.status = "draft" /\ r.dirty = {}
           /\ r.copy = MarkedSubmitted(row) /\ r.at \in {"load", "write"}
        \/ /\ r.op = "reject" /\ row.status = "submitted" /\ r.dirty = {}
           /\ r.copy = MarkedRejected(row) /\ r.at \in {"load", "write"}

SaveComplete(w) ==
    LET r == req[w]
        changed == {c \in Columns : r.copy[c] # so[r.order][c]}
    IN  /\ r.at = "write" => changed \subseteq r.diff \cup r.dirty
        /\ r.at = "commit" => changed \subseteq r.dirty

Undisturbed(w) ==
    ~Idle(w) /\ req[w].order \notin overlapped => CopyFits(w) /\ SaveComplete(w)

RowAgrees(row, lines, issued) ==
    /\ issued = IF row.status = "approved" THEN <<lines>> ELSE <<>>
    /\ row.amount = lines
    /\ row.submitted <=> row.status # "draft"
    /\ row.approved <=> row.status = "approved"
    /\ row.rejected <=> row.status = "rejected"

IssuedMeansPlaced == \A o \in OrderIds \ DOMAIN so : issues[o] = <<>>

AloneInvariant ==
    /\ OneRequest
    /\ IssuedMeansPlaced
    /\ \A w \in Workers : Undisturbed(w)
    /\ UncontendedOrdersAgree

LEMMA InitAlone == OrdersInit => AloneInvariant
  BY DEF OrdersInit, AloneInvariant, OneRequest, Undisturbed, On,
     UncontendedOrdersAgree, IssuedMeansPlaced, IssuedMeansPlaced

(* A save that sets every column in which the copy differs stores the copy.*)
LEMMA OverlayIsCopy ==
    ASSUME NEW row \in Row, NEW copy \in Row, NEW columns,
           \A c \in Columns : copy[c] # row[c] => c \in columns
    PROVE  Overlay(row, copy, columns) = copy
  <1> DEFINE value(c) == IF c \in columns THEN copy[c] ELSE row[c]
  <1>1. \A c \in Columns : value(c) = copy[c]
    OBVIOUS
  <1>2. /\ value("status") = copy.status /\ value("submitted") = copy.submitted
        /\ value("approved") = copy.approved /\ value("rejected") = copy.rejected
        /\ value("amount") = copy.amount
    BY <1>1 DEF Columns
  <1>3. copy = [status |-> copy.status, submitted |-> copy.submitted,
                approved |-> copy.approved, rejected |-> copy.rejected,
                amount |-> copy.amount]
    BY DEF Row
  <1> QED
    BY <1>2, <1>3 DEF Overlay

(* A worker is left undisturbed by a step that changes neither its request *)
(* nor its order.                                                          *)
LEMMA StillUndisturbed ==
    ASSUME NEW v \in Workers, Undisturbed(v), req'[v] = req[v],
           overlapped \subseteq overlapped',
           ~Idle(v) /\ req[v].order \notin overlapped' =>
             /\ so'[req[v].order] = so[req[v].order]
             /\ items'[req[v].order] = items[req[v].order]
    PROVE  Undisturbed(v)'
  BY DEF Undisturbed, CopyFits, SaveComplete

(* A step within a request: the others, and the tables, stay as they are.  *)
LEMMA InnerAlone ==
    ASSUME AloneInvariant, NEW w \in Workers, ~Idle(w),
           UNCHANGED <<so, items, issues, overlapped>>,
           NEW r, req' = [req EXCEPT ![w] = r], OrdersShape,
           \/ r = NoRequest
           \/ r.order = req[w].order /\ Undisturbed(w)'
    PROVE  AloneInvariant'
  <1>1. req'[w] = r /\ \A v \in Workers \ {w} : req'[v] = req[v]
    OBVIOUS
  <1>2. OneRequest'
    BY <1>1 DEF AloneInvariant, OneRequest, On
  <1>3. ASSUME NEW v \in Workers
        PROVE  Undisturbed(v)'
    <2>1. CASE v = w
      BY <1>1, <2>1 DEF Undisturbed
    <2>2. CASE v # w
      BY <1>1, <2>2, StillUndisturbed DEF AloneInvariant
    <2> QED
      BY <2>1, <2>2
  <1>4. UncontendedOrdersAgree' /\ IssuedMeansPlaced'
    BY DEF AloneInvariant, UncontendedOrdersAgree, IssuedMeansPlaced
  <1> QED
    BY <1>2, <1>3, <1>4 DEF AloneInvariant

LEMMA OpenAlone ==
    ASSUME OrdersInvariant, AloneInvariant, NEW w \in Workers,
           NEW o \in DOMAIN so, NEW op, NEW at, NEW copy, NEW lines, NEW touch,
           Open(w, op, o, at, copy, lines, touch), op # "none",
           \/ op = "update" /\ so[o].status = "draft" /\ copy = so[o] /\ at = "load"
           \/ op = "approve" /\ so[o].status = "submitted" /\ copy = so[o]
              /\ at = "items"
           \/ op = "submit" /\ so[o].status = "draft" /\ at = "load"
              /\ copy = MarkedSubmitted(so[o])
           \/ op = "reject" /\ so[o].status = "submitted" /\ at = "load"
              /\ copy = MarkedRejected(so[o])
    PROVE  AloneInvariant'
  <1> DEFINE r == Request(op, o, at, copy, lines, touch)
  <1>1. /\ req' = [req EXCEPT ![w] = r] /\ Idle(w)
        /\ UNCHANGED <<so, items, issues>>
        /\ overlapped \subseteq overlapped'
        /\ \A v \in Workers \ {w} : On(v, o) => o \in overlapped'
    BY DEF Open
  <1>2. /\ r.op = op /\ r.order = o /\ r.at = at /\ r.copy = copy
        /\ r.swap = FALSE /\ r.dirty = {}
    BY DEF Request
  <1>3. req'[w] = r /\ \A v \in Workers \ {w} : req'[v] = req[v]
    BY <1>1 DEF OrdersInvariant
  <1>4. so[o] \in Row
    BY DEF OrdersInvariant
  <1> HIDE DEF r
  <1>5. OneRequest'
    BY <1>1, <1>2, <1>3 DEF AloneInvariant, OneRequest, On
  <1>6. Undisturbed(w)'
    <2>1. so[o] = [so[o] EXCEPT !.amount = @]
      BY <1>4 DEF Row
    <2> QED
      BY <1>1, <1>2, <1>3, <2>1 DEF Undisturbed, CopyFits, SaveComplete
  <1>7. ASSUME NEW v \in Workers \ {w}
        PROVE  Undisturbed(v)'
    BY <1>1, <1>3, StillUndisturbed DEF AloneInvariant
  <1>8. UncontendedOrdersAgree' /\ IssuedMeansPlaced'
    BY <1>1 DEF AloneInvariant, UncontendedOrdersAgree, IssuedMeansPlaced
  <1> QED
    BY <1>5, <1>6, <1>7, <1>8 DEF AloneInvariant

LEMMA ReceiveAlone ==
    ASSUME OrdersInvariant, AloneInvariant, NEW w \in Workers, Receive(w)
    PROVE  AloneInvariant'
  <1>1. ASSUME NEW o \in OrderIds, NEW lines \in Requests,
               NEW submitNow \in BOOLEAN, CreateDraft(w, o, lines, submitNow)
        PROVE  AloneInvariant'
    <2> DEFINE row == [status |-> IF submitNow THEN "submitted" ELSE "draft",
                       submitted |-> submitNow, approved |-> FALSE,
                       rejected |-> FALSE, amount |-> lines]
    <2>1. /\ o \notin DOMAIN so
          /\ so' = [p \in DOMAIN so \cup {o} |-> IF p = o THEN row ELSE so[p]]
          /\ items' = [p \in DOMAIN items \cup {o} |->
                         IF p = o THEN lines ELSE items[p]]
          /\ UNCHANGED <<req, issues, overlapped>>
      BY <1>1 DEF CreateDraft
    <2>2. OneRequest'
      BY <2>1 DEF AloneInvariant, OneRequest, On
    <2>3. ASSUME NEW v \in Workers
          PROVE  Undisturbed(v)'
      <3>1. ~Idle(v) => /\ so'[req[v].order] = so[req[v].order]
                        /\ items'[req[v].order] = items[req[v].order]
        BY <2>1 DEF OrdersInvariant
      <3> QED
        BY <2>1, <3>1, StillUndisturbed DEF AloneInvariant
    <2>4. UncontendedOrdersAgree'
      <3>1. issues[o] = <<>>
        BY <2>1 DEF AloneInvariant, IssuedMeansPlaced
      <3>2. /\ row.status # "approved" /\ row.amount = lines
            /\ row.submitted <=> row.status # "draft"
            /\ ~row.approved /\ ~row.rejected /\ row.status # "rejected"
        OBVIOUS
      <3> HIDE DEF row
      <3>3. ASSUME NEW p \in DOMAIN so', p \notin overlapped
            PROVE  /\ issues[p] = IF so'[p].status = "approved" THEN <<items'[p]>> ELSE <<>>
                   /\ so'[p].amount = items'[p]
                   /\ so'[p].submitted <=> so'[p].status # "draft"
                   /\ so'[p].approved <=> so'[p].status = "approved"
                   /\ so'[p].rejected <=> so'[p].status = "rejected"
        <4>1. CASE p = o
          BY <2>1, <3>1, <3>2, <4>1
        <4>2. CASE p # o
          <5>1. /\ p \in DOMAIN so /\ so'[p] = so[p] /\ items'[p] = items[p]
            BY <2>1, <3>3, <4>2 DEF OrdersInvariant
          <5> QED
            BY <3>3, <5>1 DEF AloneInvariant, UncontendedOrdersAgree
        <4> QED
          BY <4>1, <4>2
      <3> QED
        BY <2>1, <3>3 DEF UncontendedOrdersAgree
    <2>5. IssuedMeansPlaced'
      BY <2>1 DEF AloneInvariant, IssuedMeansPlaced
    <2> QED
      BY <2>2, <2>3, <2>4, <2>5 DEF AloneInvariant
  <1>2. ASSUME NEW o \in DOMAIN so, NEW lines \in Requests,
               NEW touch \in BOOLEAN, OpenUpdate(w, o, lines, touch)
        PROVE  AloneInvariant'
    BY <1>2, OpenAlone DEF OpenUpdate
  <1>3. ASSUME NEW o \in DOMAIN so, OpenSubmit(w, o)
        PROVE  AloneInvariant'
    BY <1>3, OpenAlone DEF OpenSubmit
  <1>4. ASSUME NEW o \in DOMAIN so, OpenReject(w, o)
        PROVE  AloneInvariant'
    BY <1>4, OpenAlone DEF OpenReject
  <1>5. ASSUME NEW o \in DOMAIN so, OpenApprove(w, o)
        PROVE  AloneInvariant'
    BY <1>5, OpenAlone DEF OpenApprove
  <1> QED
    BY <1>1, <1>2, <1>3, <1>4, <1>5 DEF Receive

LEMMA OverlayValue ==
    ASSUME NEW row, NEW copy, NEW columns, NEW c \in Columns
    PROVE  Overlay(row, copy, columns)[c] = IF c \in columns THEN copy[c] ELSE row[c]
  BY DEF Overlay, Columns

LEMMA InnerStepAlone ==
    ASSUME OrdersInvariant, AloneInvariant, NEW w \in Workers,
           \/ ReadItems(w) \/ BeginIssue(w) \/ IssueStatement(w)
           \/ MarkApproved(w) \/ SaveLoad(w) \/ SaveWrite(w)
           \/ ReplaceItems(w) \/ DeleteWaits(w) \/ InsertClashes(w)
           \/ Abandon(w) \/ BreakDeadlock(w)
    PROVE  AloneInvariant'
  <1> DEFINE r == req[w]
             row == so[r.order]
  <1>1. /\ UNCHANGED <<so, items, issues, overlapped>> /\ ~Idle(w)
    BY DEF ReadItems, BeginIssue, IssueStatement, MarkApproved, SaveLoad,
           SaveWrite, ReplaceItems, DeleteWaits, InsertClashes, Abandon,
           BreakDeadlock, At
  <1>2. /\ r \in RequestRecord /\ r.order \in DOMAIN so /\ OrdersShape
        /\ row \in Row /\ r.copy \in Row
    BY <1>1, BusyRecord DEF OrdersInvariant
  <1>3. r.order \notin overlapped => CopyFits(w) /\ SaveComplete(w)
    BY <1>1 DEF AloneInvariant, Undisturbed
  <1>4. CASE req' = [req EXCEPT ![w] = NoRequest]
    BY <1>1, <1>2, <1>4, InnerAlone
  <1>5. ASSUME NEW s, req' = [req EXCEPT ![w] = s], s.order = r.order,
               r.order \notin overlapped => CopyFits(w)' /\ SaveComplete(w)'
        PROVE  AloneInvariant'
    <2>1. req'[w] = s
      BY <1>2, <1>5
    <2>2. Undisturbed(w)'
      BY <1>1, <1>5, <2>1 DEF Undisturbed
    <2> QED
      BY <1>1, <1>2, <1>5, <2>2, InnerAlone
  <1>6. CASE ReadItems(w)
    <2> DEFINE s == [r EXCEPT !.lines = items[r.order], !.at = "begin"]
    <2>1. req' = [req EXCEPT ![w] = s] /\ r.op = "approve" /\ r.at = "items"
      BY <1>1, <1>6, <1>2 DEF ReadItems, At, OrdersInvariant, RequestRecord
    <2>2. /\ s.order = r.order /\ s.lines = items[r.order] /\ s.at = "begin"
          /\ s.op = "approve" /\ s.copy = r.copy /\ s.dirty = r.dirty
      BY <1>2, <2>1 DEF RequestRecord
    <2>3. req'[w] = s
      BY <1>2, <2>1
    <2> HIDE DEF s
    <2>4. r.order \notin overlapped => CopyFits(w)' /\ SaveComplete(w)'
      BY <1>1, <1>3, <2>1, <2>2, <2>3 DEF CopyFits, SaveComplete
    <2> QED
      BY <1>5, <2>1, <2>2, <2>4
  <1>7. CASE BeginIssue(w)
    <2> DEFINE s == [r EXCEPT !.at = "issue"]
    <2>1. req' = [req EXCEPT ![w] = s] /\ r.op = "approve" /\ r.at = "begin"
      BY <1>1, <1>7, <1>2 DEF BeginIssue, GoTo, At, OrdersInvariant, RequestRecord
    <2>2. /\ s.order = r.order /\ s.lines = r.lines /\ s.at = "issue"
          /\ s.op = "approve" /\ s.copy = r.copy /\ s.dirty = r.dirty
      BY <1>2, <2>1 DEF RequestRecord
    <2>3. req'[w] = s
      BY <1>2, <2>1
    <2> HIDE DEF s
    <2>4. r.order \notin overlapped => CopyFits(w)' /\ SaveComplete(w)'
      BY <1>1, <1>3, <2>1, <2>2, <2>3 DEF CopyFits, SaveComplete
    <2> QED
      BY <1>5, <2>1, <2>2, <2>4
  <1>8. CASE IssueStatement(w)
    <2>1. CASE req' = req
      <3>1. req' = [req EXCEPT ![w] = r]
        BY <1>2, <2>1
      <3>2. CopyFits(w)' = CopyFits(w) /\ SaveComplete(w)' = SaveComplete(w)
        BY <1>1, <2>1 DEF CopyFits, SaveComplete
      <3> QED
        BY <1>3, <1>5, <3>1, <3>2
    <2> QED
      BY <1>4, <1>8, <2>1 DEF IssueStatement
  <1>9. CASE MarkApproved(w)
    <2> DEFINE s == [r EXCEPT !.copy = MarkedApproved(r.copy), !.at = "load"]
    <2>1. req' = [req EXCEPT ![w] = s] /\ r.op = "approve" /\ r.at = "issue"
      BY <1>1, <1>9, <1>2 DEF MarkApproved, At, OrdersInvariant, RequestRecord
    <2>2. /\ s.order = r.order /\ s.lines = r.lines /\ s.at = "load"
          /\ s.op = "approve" /\ s.copy = MarkedApproved(r.copy)
          /\ s.dirty = r.dirty
      BY <1>2, <2>1 DEF RequestRecord
    <2>3. req'[w] = s
      BY <1>2, <2>1
    <2> HIDE DEF s
    <2>4. r.order \notin overlapped =>
            /\ row.status = "submitted" /\ r.lines = items[r.order]
            /\ MarkedApproved(r.copy) = MarkedApproved(row)
      BY <1>3, <2>1 DEF CopyFits
    <2>5. r.order \notin overlapped => CopyFits(w)' /\ SaveComplete(w)'
      <3>1. row' = row /\ items' = items
        BY <1>1, <2>2, <2>3
      <3>2. MarkedApproved(row)' = MarkedApproved(row)
        BY <3>1 DEF MarkedApproved
      <3> QED
        BY <1>1, <2>2, <2>3, <2>4, <3>1, <3>2 DEF CopyFits, SaveComplete
    <2> QED
      BY <1>5, <2>1, <2>2, <2>5
  <1>10. CASE SaveLoad(w)
    <2> DEFINE s == [r EXCEPT !.diff = Differing(w), !.at = "write"]
    <2>1. req' = [req EXCEPT ![w] = s] /\ r.at = "load"
      BY <1>10, <1>2 DEF SaveLoad, At, RequestRecord
    <2>2. /\ s.order = r.order /\ s.lines = r.lines /\ s.at = "write"
          /\ s.op = r.op /\ s.copy = r.copy /\ s.dirty = r.dirty
          /\ s.swap = r.swap /\ s.diff = Differing(w)
      BY <1>2 DEF RequestRecord
    <2>3. req'[w] = s
      BY <1>2, <2>1
    <2>4. \A c \in Columns : r.copy[c] # row[c] => c \in Differing(w) \cup r.dirty
      BY OverlayValue DEF Differing, Stored
    <2> HIDE DEF s
    <2>5. r.order \notin overlapped => CopyFits(w)'
      BY <1>1, <1>3, <2>1, <2>2, <2>3 DEF CopyFits
    <2>6. SaveComplete(w)'
      BY <1>1, <2>2, <2>3, <2>4 DEF SaveComplete
    <2> QED
      BY <1>5, <2>1, <2>2, <2>5, <2>6
  <1>11. CASE SaveWrite(w)
    <2>1. /\ r.at = "write" /\ r.op \in {"update", "approve"}
          /\ AfterWrite(r) \in {"delete", "commit"}
          /\ AfterWrite(r) = "commit" => (r.op = "update" => r.swap)
          /\ AfterWrite(r) = "delete" => r.op = "update"
      BY <1>11 DEF SaveWrite, At, AfterWrite
    <2>2. PICK s :
            /\ req' = [req EXCEPT ![w] = s]
            /\ \/ s = [r EXCEPT !.at = AfterWrite(r)] /\ r.diff = {}
               \/ s = [r EXCEPT !.dirty = r.dirty \cup r.diff,
                                !.touch = FALSE, !.rowLock = TRUE,
                                !.at = AfterWrite(r)]
      BY <1>11, <1>2 DEF SaveWrite, GoTo, RequestRecord
    <2>3. /\ s.order = r.order /\ s.lines = r.lines /\ s.at = AfterWrite(r)
          /\ s.op = r.op /\ s.copy = r.copy /\ s.swap = r.swap
          /\ s.dirty = r.dirty \cup r.diff
      BY <1>2, <2>2 DEF RequestRecord
    <2>4. req'[w] = s
      BY <1>2, <2>2
    <2>5. r.order \notin overlapped => CopyFits(w)'
      BY <1>1, <1>3, <2>1, <2>3, <2>4 DEF CopyFits
    <2>6. r.order \notin overlapped => SaveComplete(w)'
      BY <1>1, <1>3, <2>1, <2>3, <2>4 DEF SaveComplete
    <2> QED
      BY <1>5, <2>2, <2>3, <2>5, <2>6
  <1>12. CASE ReplaceItems(w)
    <2> DEFINE copy == [r.copy EXCEPT !.amount = r.lines]
               s == [r EXCEPT !.swap = TRUE, !.copy = copy, !.at = "load"]
    <2>1. req' = [req EXCEPT ![w] = s] /\ r.at \in {"delete", "deleting"}
      BY <1>12, <1>2 DEF ReplaceItems, At, RequestRecord
    <2>2. /\ s.order = r.order /\ s.lines = r.lines /\ s.at = "load"
          /\ s.op = r.op /\ s.copy = copy /\ s.swap = TRUE
      BY <1>2 DEF RequestRecord
    <2>3. req'[w] = s /\ r.op = "update"
      BY <1>1, <1>2, <2>1 DEF OrdersInvariant
    <2>4. r.order \notin overlapped => copy = [row EXCEPT !.amount = r.lines]
      BY <1>2, <1>3, <2>3 DEF CopyFits, Row
    <2> HIDE DEF s, copy
    <2>5. r.order \notin overlapped => CopyFits(w)' /\ SaveComplete(w)'
      BY <1>1, <1>3, <2>2, <2>3, <2>4 DEF CopyFits, SaveComplete
    <2> QED
      BY <1>5, <2>1, <2>2, <2>5
  <1>13. CASE DeleteWaits(w)
    <2> DEFINE s == [r EXCEPT !.at = "deleting"]
    <2>1. req' = [req EXCEPT ![w] = s] /\ r.at = "delete"
      BY <1>13, <1>2 DEF DeleteWaits, GoTo, At, RequestRecord
    <2>2. /\ s.order = r.order /\ s.lines = r.lines /\ s.at = "deleting"
          /\ s.op = r.op /\ s.copy = r.copy /\ s.swap = r.swap
      BY <1>2 DEF RequestRecord
    <2>3. req'[w] = s /\ r.op = "update"
      BY <1>1, <1>2, <2>1 DEF OrdersInvariant
    <2> HIDE DEF s
    <2>4. r.order \notin overlapped => CopyFits(w)' /\ SaveComplete(w)'
      BY <1>1, <1>3, <2>2, <2>3 DEF CopyFits, SaveComplete
    <2> QED
      BY <1>5, <2>1, <2>2, <2>4
  <1> QED
    BY <1>4, <1>6, <1>7, <1>8, <1>9, <1>10, <1>11, <1>12, <1>13
    DEF InsertClashes, Abandon, BreakDeadlock

(* The last step of a request: what it writes agrees, if it was alone.     *)
LEMMA LastStepAlone ==
    ASSUME OrdersInvariant, AloneInvariant, NEW w \in Workers, ~Idle(w),
           NEW o, o = req[w].order, NEW row, NEW lines, NEW issued,
           so' = [so EXCEPT ![o] = row], items' = [items EXCEPT ![o] = lines],
           issues' = [issues EXCEPT ![o] = issued], overlapped' = overlapped,
           req'[w] = NoRequest,
           \A v \in Workers \ {w} :
             \/ req'[v] = req[v]
             \/ /\ On(v, o) /\ req'[v].op = req[v].op
                /\ req'[v].order = req[v].order,
           o \notin overlapped => RowAgrees(row, lines, issued)
    PROVE  AloneInvariant'
  <1>1. OneRequest'
    <2> SUFFICES ASSUME NEW v \in Workers, NEW u \in Workers, v # u, ~Idle(v)',
                        ~Idle(u)', req'[u].order = req'[v].order
                 PROVE  req'[v].order \in overlapped'
      BY DEF OneRequest, On
    <2>1. v # w /\ u # w
      OBVIOUS
    <2>2. /\ ~Idle(v) /\ ~Idle(u) /\ req'[v].order = req[v].order
          /\ req'[u].order = req[u].order
      BY <2>1 DEF On
    <2> QED
      BY <2>2 DEF AloneInvariant, OneRequest, On
  <1>2. ASSUME NEW v \in Workers
        PROVE  Undisturbed(v)'
    <2>1. CASE v = w
      BY <2>1 DEF Undisturbed
    <2>2. CASE v # w /\ On(v, o)
      <3>1. o \in overlapped
        BY <2>2 DEF AloneInvariant, OneRequest
      <3>2. req'[v].order = o
        BY <2>2 DEF On
      <3> QED
        BY <3>1, <3>2 DEF Undisturbed
    <2>3. CASE v # w /\ ~On(v, o)
      <3>1. /\ req'[v] = req[v] /\ (~Idle(v) => req[v].order # o)
        BY <2>3 DEF On
      <3>2. ~Idle(v) => /\ so'[req[v].order] = so[req[v].order]
                        /\ items'[req[v].order] = items[req[v].order]
        BY <3>1 DEF OrdersInvariant
      <3> QED
        BY <3>1, <3>2, StillUndisturbed DEF AloneInvariant
    <2> QED
      BY <2>1, <2>2, <2>3
  <1>3. o \in DOMAIN so /\ o \in OrderIds
    BY DEF OrdersInvariant
  <1>4. UncontendedOrdersAgree'
    <2>1. ASSUME NEW p \in DOMAIN so, p \notin overlapped
          PROVE  RowAgrees(so'[p], items'[p], issues'[p])
      <3>1. CASE p = o
        BY <1>3, <2>1, <3>1 DEF OrdersInvariant
      <3>2. CASE p # o
        <4>1. /\ so'[p] = so[p] /\ items'[p] = items[p] /\ issues'[p] = issues[p]
          BY <2>1, <3>2 DEF OrdersInvariant
        <4> QED
          BY <2>1, <4>1
          DEF AloneInvariant, UncontendedOrdersAgree, RowAgrees
      <3> QED
        BY <3>1, <3>2
    <2>2. DOMAIN so' = DOMAIN so
      OBVIOUS
    <2> QED
      BY <2>1, <2>2 DEF UncontendedOrdersAgree, RowAgrees
  <1>5. IssuedMeansPlaced'
    BY <1>3 DEF AloneInvariant, IssuedMeansPlaced, OrdersInvariant
  <1> QED
    BY <1>1, <1>2, <1>4, <1>5 DEF AloneInvariant

(* What an undisturbed request is about to write, and over what.           *)
LEMMA RowBefore ==
    ASSUME OrdersInvariant, AloneInvariant, NEW w \in Workers, ~Idle(w),
           req[w].order \notin overlapped
    PROVE  /\ RowAgrees(so[req[w].order], items[req[w].order], issues[req[w].order])
           /\ CopyFits(w) /\ SaveComplete(w)
           /\ so[req[w].order] \in Row /\ req[w].copy \in Row
  <1>1. req[w].order \in DOMAIN so
    BY DEF OrdersInvariant
  <1> QED
    BY <1>1, BusyRecord DEF OrdersInvariant, AloneInvariant, Undisturbed,
       UncontendedOrdersAgree, RowAgrees

LEMMA SaveAloneAlone ==
    ASSUME OrdersInvariant, AloneInvariant, NEW w \in Workers, SaveAlone(w)
    PROVE  AloneInvariant'
  <1> DEFINE r == req[w]
             o == r.order
             row == Overlay(so[o], r.copy, r.diff)
             lines == items[o]
             issued == issues[o]
  <1>1. /\ ~Idle(w) /\ r.at = "write" /\ r.op \in {"submit", "reject"}
        /\ so' = [so EXCEPT ![o] = row]
        /\ req' = [req EXCEPT ![w] = NoRequest]
        /\ UNCHANGED <<items, issues, overlapped>>
    BY DEF SaveAlone, At
  <1>2. /\ items' = [items EXCEPT ![o] = lines]
        /\ issues' = [issues EXCEPT ![o] = issued]
        /\ req'[w] = NoRequest
        /\ \A v \in Workers \ {w} : req'[v] = req[v]
    BY <1>1 DEF OrdersInvariant
  <1>3. ASSUME o \notin overlapped
        PROVE  RowAgrees(row, lines, issued)
    <2>1. /\ RowAgrees(so[o], items[o], issues[o])
          /\ CopyFits(w) /\ SaveComplete(w) /\ so[o] \in Row /\ r.copy \in Row
      BY <1>1, <1>3, RowBefore
    <2>2. row = r.copy
      BY <1>1, <2>1, OverlayIsCopy DEF SaveComplete, CopyFits
    <2>3. \/ so[o].status = "draft" /\ r.copy = MarkedSubmitted(so[o])
          \/ so[o].status = "submitted" /\ r.copy = MarkedRejected(so[o])
      BY <1>1, <2>1 DEF CopyFits
    <2> HIDE DEF row, o, r
    <2> QED
      BY <2>1, <2>2, <2>3
      DEF RowAgrees, MarkedSubmitted, MarkedRejected, Row
  <1>4. \A v \in Workers \ {w} :
          \/ req'[v] = req[v]
          \/ /\ On(v, o) /\ req'[v].op = req[v].op
             /\ req'[v].order = req[v].order
    BY <1>2
  <1>5. /\ ~Idle(w) /\ overlapped' = overlapped
        /\ so' = [so EXCEPT ![o] = row] /\ req'[w] = NoRequest
    BY <1>1, <1>2
  <1>6. o = req[w].order
    OBVIOUS
  <1> HIDE DEF row, lines, issued, o, r
  <1> QED
    BY <1>2, <1>3, <1>4, <1>5, <1>6, LastStepAlone

LEMMA CommitUpdateAlone ==
    ASSUME OrdersInvariant, AloneInvariant, NEW w \in Workers, CommitUpdate(w)
    PROVE  AloneInvariant'
  <1> DEFINE r == req[w]
             o == r.order
             row == Overlay(so[o], r.copy, r.dirty)
             lines == r.lines
             issued == issues[o]
  <1>1. /\ ~Idle(w) /\ r.at = "commit" /\ r.op = "update"
        /\ so' = [so EXCEPT ![o] = row]
        /\ items' = [items EXCEPT ![o] = lines]
        /\ UNCHANGED <<issues, overlapped>>
    BY DEF CommitUpdate, At
  <1>2. /\ issues' = [issues EXCEPT ![o] = issued]
        /\ req'[w] = NoRequest
    BY <1>1 DEF CommitUpdate, OrdersInvariant
  <1>3. \A v \in Workers \ {w} :
          \/ req'[v] = req[v]
          \/ /\ On(v, o) /\ req'[v].op = req[v].op
             /\ req'[v].order = req[v].order
    <2> SUFFICES ASSUME NEW v \in Workers \ {w}, req'[v] # req[v]
                 PROVE  /\ On(v, o) /\ req'[v].op = req[v].op
                        /\ req'[v].order = req[v].order
      OBVIOUS
    <2>1. On(v, o) /\ req'[v] = [req[v] EXCEPT !.at = "missed"]
      BY DEF CommitUpdate
    <2>2. req[v] \in RequestRecord
      BY <2>1, BusyRecord DEF On, OrdersInvariant
    <2> QED
      BY <2>1, <2>2 DEF RequestRecord
  <1>4. ASSUME o \notin overlapped
        PROVE  RowAgrees(row, lines, issued)
    <2>1. /\ RowAgrees(so[o], items[o], issues[o])
          /\ CopyFits(w) /\ SaveComplete(w) /\ so[o] \in Row /\ r.copy \in Row
      BY <1>1, <1>4, RowBefore
    <2>2. row = r.copy
      BY <1>1, <2>1, OverlayIsCopy DEF SaveComplete
    <2>3. /\ so[o].status = "draft"
          /\ r.copy = [so[o] EXCEPT !.amount = r.lines]
      BY <1>1, <2>1 DEF CopyFits
    <2> HIDE DEF row, o, r
    <2> QED
      BY <2>1, <2>2, <2>3 DEF RowAgrees, Row
  <1> HIDE DEF row, lines, issued
  <1> QED
    BY <1>1, <1>2, <1>3, <1>4, LastStepAlone

LEMMA CommitApproveAlone ==
    ASSUME OrdersInvariant, AloneInvariant, NEW w \in Workers, CommitApprove(w)
    PROVE  AloneInvariant'
  <1> DEFINE r == req[w]
             o == r.order
             row == Overlay(so[o], r.copy, r.dirty)
             lines == items[o]
             issued == Append(issues[o], r.lines)
  <1>1. /\ ~Idle(w) /\ r.at = "commit" /\ r.op = "approve"
        /\ so' = [so EXCEPT ![o] = row]
        /\ issues' = [issues EXCEPT ![o] = issued]
        /\ req' = [req EXCEPT ![w] = NoRequest]
        /\ UNCHANGED <<items, overlapped>>
    BY DEF CommitApprove, At
  <1>2. /\ items' = [items EXCEPT ![o] = lines]
        /\ req'[w] = NoRequest
        /\ \A v \in Workers \ {w} : req'[v] = req[v]
    BY <1>1 DEF OrdersInvariant
  <1>3. ASSUME o \notin overlapped
        PROVE  RowAgrees(row, lines, issued)
    <2>1. /\ RowAgrees(so[o], items[o], issues[o])
          /\ CopyFits(w) /\ SaveComplete(w) /\ so[o] \in Row /\ r.copy \in Row
      BY <1>1, <1>3, RowBefore
    <2>2. row = r.copy
      BY <1>1, <2>1, OverlayIsCopy DEF SaveComplete
    <2>3. /\ so[o].status = "submitted" /\ r.copy = MarkedApproved(so[o])
          /\ r.lines = items[o]
      BY <1>1, <2>1 DEF CopyFits
    <2>4. issues[o] = <<>>
      BY <2>1, <2>3 DEF RowAgrees
    <2>5. issued = <<items[o]>>
      BY <2>3, <2>4
    <2> HIDE DEF row, o, r, issued
    <2> QED
      BY <2>1, <2>2, <2>3, <2>5 DEF RowAgrees, MarkedApproved, Row
  <1>4. \A v \in Workers \ {w} :
          \/ req'[v] = req[v]
          \/ /\ On(v, o) /\ req'[v].op = req[v].op
             /\ req'[v].order = req[v].order
    BY <1>2
  <1> HIDE DEF row, lines, issued
  <1> QED
    BY <1>1, <1>2, <1>3, <1>4, LastStepAlone

LEMMA NextAlone ==
    OrdersInvariant /\ AloneInvariant /\ [OrdersNext]_vars => AloneInvariant'
  <1> SUFFICES ASSUME OrdersInvariant, AloneInvariant, [OrdersNext]_vars
               PROVE  AloneInvariant'
    OBVIOUS
  <1>1. ASSUME NEW w \in Workers, Receive(w)
        PROVE  AloneInvariant'
    BY <1>1, ReceiveAlone
  <1>2. ASSUME NEW w \in Workers, Proceed(w)
        PROVE  AloneInvariant'
    BY <1>2, InnerStepAlone, SaveAloneAlone, CommitUpdateAlone,
       CommitApproveAlone
    DEF Proceed
  <1>3. ASSUME NEW w \in Workers, Abandon(w) \/ BreakDeadlock(w)
        PROVE  AloneInvariant'
    BY <1>3, InnerStepAlone
  <1>4. CASE UNCHANGED vars
    BY <1>4 DEF vars, orderVars, AloneInvariant, OneRequest, Undisturbed, On,
       CopyFits, SaveComplete, UncontendedOrdersAgree, IssuedMeansPlaced
  <1> QED
    BY <1>1, <1>2, <1>3, <1>4 DEF OrdersNext

LEMMA AloneInvariantHolds == OrdersSafety => [](OrdersInvariant /\ AloneInvariant)
  BY OrdersInvariantHolds, InitAlone, NextAlone, PTL DEF OrdersSafety

(* As long as no two requests worked on an order at once: it is approved   *)
(* exactly when its lines, as they now stand, were issued once, and its    *)
(* totals and time stamps belong to its lines and its status.              *)
THEOREM UncontendedAgree == OrdersSafety => []UncontendedOrdersAgree
  <1>1. AloneInvariant => UncontendedOrdersAgree
    BY DEF AloneInvariant
  <1> QED
    BY <1>1, AloneInvariantHolds, PTL
----------------------------------------------------------------------------
(* The promise of OrderLife.                                               *)

LEMMA LifeEffect ==
    ASSUME NEW request, NEW k
    PROVE  Life!Stock!Effect(request, k) = Book!Effect(request, k)
  <1>1. \A f, S : Life!Stock!SumFunctionOnSet(f, S) = Book!SumFunctionOnSet(f, S)
    BY Zenon DEF Book!SumFunctionOnSet, Book!FoldFunctionOnSet,
       Book!MapThenFoldSet, Life!Stock!SumFunctionOnSet,
       Life!Stock!FoldFunctionOnSet, Life!Stock!MapThenFoldSet
  <1> QED
    BY <1>1 DEF Life!Stock!Effect, Life!Stock!LineEffect, Book!Effect,
       Book!LineEffect

(* An order as OrderLife sees it, and the table of them.                   *)
Seen(row, lines) == [status |-> row.status, lines |-> lines]
Orders == [o \in DOMAIN so |-> Seen(so[o], items[o])]

(* The row and the lines a request leaves of its order.                    *)
Writes(o, row, lines) ==
    /\ o \in DOMAIN so
    /\ so' = [so EXCEPT ![o] = row]
    /\ items' = [items EXCEPT ![o] = lines]

(* A request that writes its order's row changes what OrderLife sees of it.*)
LEMMA OrdersAfter ==
    ASSUME OrdersInvariant, NEW o, NEW row, NEW lines, Writes(o, row, lines)
    PROVE  Orders' = [Orders EXCEPT ![o] = Seen(row, lines)]
  <1>1. DOMAIN so' = DOMAIN so /\ DOMAIN items = DOMAIN so /\ o \in DOMAIN items
    BY DEF OrdersInvariant, Writes
  <1>2. Orders' = [p \in DOMAIN so |-> Seen(so'[p], items'[p])]
    BY <1>1 DEF Orders, Seen
  <1>3. so'[o] = row /\ items'[o] = lines
    BY <1>1 DEF Writes
  <1>4. \A p \in DOMAIN so \ {o} : so'[p] = so[p] /\ items'[p] = items[p]
    BY <1>1 DEF OrdersInvariant, Writes
  <1> QED
    BY <1>2, <1>3, <1>4 DEF Orders

LEMMA OrderNow ==
    ASSUME NEW o \in DOMAIN so
    PROVE  /\ o \in DOMAIN Orders /\ Orders[o] = Seen(so[o], items[o])
           /\ Orders[o].status = so[o].status /\ Orders[o].lines = items[o]
  BY DEF Orders, Seen

LEMMA StatusSeen ==
    ASSUME OrdersInvariant, NEW o, NEW row, NEW lines, Writes(o, row, lines),
           lines = items[o]
    PROVE  /\ o \in DOMAIN Orders /\ Orders[o].status = so[o].status
           /\ Orders[o].lines = lines
           /\ Orders' = [Orders EXCEPT ![o].status = row.status]
  <1>1. /\ o \in DOMAIN Orders /\ Orders[o] = Seen(so[o], items[o])
        /\ Orders[o].status = so[o].status /\ Orders[o].lines = items[o]
    BY OrderNow DEF Writes
  <1>2. Orders' = [Orders EXCEPT ![o] = Seen(row, lines)]
    BY OrdersAfter
  <1>3. [Orders[o] EXCEPT !.status = row.status] = Seen(row, lines)
    BY <1>1 DEF Seen
  <1>4. Orders' = [Orders EXCEPT ![o].status = row.status]
    BY <1>2, <1>3
  <1> QED
    BY <1>1, <1>4

LEMMA LinesSeen ==
    ASSUME OrdersInvariant, NEW o, NEW row, NEW lines, Writes(o, row, lines),
           row.status = so[o].status
    PROVE  /\ o \in DOMAIN Orders /\ Orders[o].status = so[o].status
           /\ Orders' = [Orders EXCEPT ![o].lines = lines]
  <1>1. /\ o \in DOMAIN Orders /\ Orders[o] = Seen(so[o], items[o])
        /\ Orders[o].status = so[o].status
    BY OrderNow DEF Writes
  <1>2. Orders' = [Orders EXCEPT ![o] = Seen(row, lines)]
    BY OrdersAfter
  <1>3. [Orders[o] EXCEPT !.lines = lines] = Seen(row, lines)
    BY <1>1 DEF Seen
  <1>4. Orders' = [Orders EXCEPT ![o].lines = lines]
    BY <1>2, <1>3
  <1> QED
    BY <1>1, <1>4

LEMMA PlaceKept ==
    ASSUME OrdersInvariant, NEW w \in Workers, NEW o \in OrderIds,
           NEW lines \in Requests, NEW submitNow \in BOOLEAN,
           CreateDraft(w, o, lines, submitNow)
    PROVE  Life!LifeNext
  <1> DEFINE status == IF submitNow THEN "submitted" ELSE "draft"
             row == [status |-> status, submitted |-> submitNow,
                     approved |-> FALSE, rejected |-> FALSE, amount |-> lines]
  <1>1. /\ o \notin DOMAIN so /\ DOMAIN items = DOMAIN so
        /\ so' = [p \in DOMAIN so \cup {o} |-> IF p = o THEN row ELSE so[p]]
        /\ items' = [p \in DOMAIN items \cup {o} |->
                       IF p = o THEN lines ELSE items[p]]
        /\ onHand' = onHand
    BY DEF CreateDraft, OrdersInvariant, stockVars, committed
  <1>2. Orders' = [p \in DOMAIN Orders \cup {o} |->
                     IF p = o THEN [status |-> status, lines |-> lines]
                              ELSE Orders[p]]
    <2>1. Orders' = [p \in DOMAIN so \cup {o} |-> Seen(so'[p], items'[p])]
      BY <1>1 DEF Orders, Seen
    <2>2. Seen(so'[o], items'[o]) = [status |-> status, lines |-> lines]
      BY <1>1 DEF Seen
    <2>3. \A p \in DOMAIN so : Seen(so'[p], items'[p]) = Orders[p] /\ p # o
      BY <1>1 DEF Orders
    <2> QED
      BY <2>1, <2>2, <2>3 DEF Orders
  <1>3. o \notin DOMAIN Orders /\ status \in {"draft", "submitted"}
    BY <1>1 DEF Orders
  <1> HIDE DEF status
  <1>4. Life!Place(o, lines, status)
    BY <1>1, <1>2, <1>3 DEF Life!Place, Orders, Seen
  <1> QED
    BY <1>3, <1>4 DEF Life!LifeNext

LEMMA SaveAloneKept ==
    ASSUME OrdersInvariant, AloneInvariant, overlapped = {},
           NEW w \in Workers, SaveAlone(w)
    PROVE  Life!LifeNext
  <1> DEFINE r == req[w]
             o == r.order
             row == Overlay(so[o], r.copy, r.diff)
             lines == items[o]
  <1>1. /\ ~Idle(w) /\ r.at = "write" /\ r.op \in {"submit", "reject"}
        /\ so' = [so EXCEPT ![o] = row] /\ o \in DOMAIN so
        /\ items' = [items EXCEPT ![o] = lines] /\ onHand' = onHand
    BY DEF SaveAlone, At, OrdersInvariant, stockVars, committed
  <1>2. /\ CopyFits(w) /\ SaveComplete(w) /\ so[o] \in Row /\ r.copy \in Row
    BY <1>1, RowBefore
  <1>3. row = r.copy
    BY <1>1, <1>2, OverlayIsCopy DEF SaveComplete, CopyFits
  <1>4. \/ so[o].status = "draft" /\ row.status = "submitted"
        \/ so[o].status = "submitted" /\ row.status = "rejected"
    BY <1>1, <1>2, <1>3 DEF CopyFits, MarkedSubmitted, MarkedRejected, Row
  <1> HIDE DEF row, lines, o
  <1>5. /\ o \in DOMAIN Orders /\ Orders[o].status = so[o].status
        /\ Orders' = [Orders EXCEPT ![o].status = row.status]
    <2>1. Writes(o, row, lines) /\ lines = items[o]
      BY <1>1 DEF lines, Writes
    <2> QED
      BY <2>1, StatusSeen
  <1>6. \/ Life!Move(o, "draft", "submitted")
        \/ Life!Move(o, "submitted", "rejected")
    BY <1>4, <1>5 DEF Life!Move, Orders, Seen
  <1> QED
    BY <1>1, <1>5, <1>6 DEF Life!LifeNext, Orders, Seen

LEMMA CommitUpdateKept ==
    ASSUME OrdersInvariant, AloneInvariant, overlapped = {},
           NEW w \in Workers, CommitUpdate(w)
    PROVE  Life!LifeNext
  <1> DEFINE r == req[w]
             o == r.order
             row == Overlay(so[o], r.copy, r.dirty)
             lines == r.lines
  <1>1. /\ ~Idle(w) /\ r.at = "commit" /\ r.op = "update"
        /\ so' = [so EXCEPT ![o] = row] /\ o \in DOMAIN so
        /\ items' = [items EXCEPT ![o] = lines] /\ onHand' = onHand
        /\ lines \in Requests
    BY DEF CommitUpdate, At, OrdersInvariant, stockVars, committed
  <1>2. /\ CopyFits(w) /\ SaveComplete(w) /\ so[o] \in Row /\ r.copy \in Row
    BY <1>1, RowBefore
  <1>3. row = r.copy
    BY <1>1, <1>2, OverlayIsCopy DEF SaveComplete
  <1>4. so[o].status = "draft" /\ row.status = so[o].status
    BY <1>1, <1>2, <1>3 DEF CopyFits, Row
  <1> HIDE DEF row, lines, o
  <1>5. /\ o \in DOMAIN Orders /\ Orders[o].status = so[o].status
        /\ Orders' = [Orders EXCEPT ![o].lines = lines]
    <2>1. Writes(o, row, lines) /\ row.status = so[o].status
      BY <1>1, <1>4 DEF Writes
    <2> QED
      BY <2>1, LinesSeen
  <1>6. PICK edited \in Requests : edited = lines
    BY <1>1
  <1>7. Life!Edit(o, edited)
    BY <1>1, <1>4, <1>5, <1>6 DEF Life!Edit, Orders, Seen
  <1>8. o \in DOMAIN Orders
    BY <1>5
  <1> QED
    BY <1>7, <1>8 DEF Life!LifeNext, Orders, Seen

LEMMA CommitApproveKept ==
    ASSUME OrdersInvariant, AloneInvariant, IssuesPosted, overlapped = {},
           OnHandNeverNegative', NEW w \in Workers, CommitApprove(w)
    PROVE  Life!LifeNext
  <1> DEFINE r == req[w]
             o == r.order
             row == Overlay(so[o], r.copy, r.dirty)
             lines == items[o]
  <1>1. /\ ~Idle(w) /\ r.at = "commit" /\ r.op = "approve"
        /\ so' = [so EXCEPT ![o] = row] /\ o \in DOMAIN so
        /\ items' = [items EXCEPT ![o] = lines]
    BY DEF CommitApprove, At, OrdersInvariant
  <1>2. /\ CopyFits(w) /\ SaveComplete(w) /\ so[o] \in Row /\ r.copy \in Row
    BY <1>1, RowBefore
  <1>3. row = r.copy
    BY <1>1, <1>2, OverlayIsCopy DEF SaveComplete
  <1>4. /\ so[o].status = "submitted" /\ row.status = "approved"
        /\ r.lines = lines
    BY <1>1, <1>2, <1>3 DEF CopyFits, MarkedApproved, Row
  <1>5. onHand' = [k \in Keys |-> onHand[k] + Book!Effect(lines, k)]
    <2>1. PICK posted_lines \in Requests :
            posted_lines = r.lines /\ Posts(w, posted_lines)
      BY DEF CommitApprove, Commit, IssuesPosted, Issuing
    <2>2. onHand' = [k \in Keys |-> onHand[k] + Book!Effect(posted_lines, k)]
      BY <2>1, CommitPosts DEF CommitApprove
    <2> QED
      BY <1>4, <2>1, <2>2
  <1> HIDE DEF row, lines, o
  <1>6. /\ o \in DOMAIN Orders /\ Orders[o].status = so[o].status
        /\ Orders[o].lines = lines
        /\ Orders' = [Orders EXCEPT ![o].status = row.status]
    <2>1. Writes(o, row, lines) /\ lines = items[o]
      BY <1>1 DEF lines, Writes
    <2> QED
      BY <2>1, StatusSeen
  <1>7. Life!Move(o, "submitted", "approved")
    BY <1>4, <1>6 DEF Life!Move, Orders, Seen
  <1>8. Life!Stock!Post(lines)
    BY <1>5, LifeEffect DEF Life!Stock!Post, OnHandNeverNegative
  <1> QED
    BY <1>6, <1>7, <1>8 DEF Life!LifeNext, Orders, Seen

LEMMA OtherStepsKept ==
    ASSUME [OrdersNext]_vars,
           ~ \E w \in Workers :
               \/ SaveAlone(w) \/ CommitUpdate(w) \/ CommitApprove(w)
               \/ \E o \in OrderIds, lines \in Requests, submitNow \in BOOLEAN :
                    CreateDraft(w, o, lines, submitNow)
    PROVE  so' = so /\ items' = items
  <1>1. CASE UNCHANGED vars
    BY <1>1 DEF vars, orderVars
  <1>2. ASSUME NEW w \in Workers, Receive(w)
        PROVE  UNCHANGED <<so, items>>
    BY <1>2 DEF Receive, OpenUpdate, OpenSubmit, OpenApprove, OpenReject, Open
  <1>3. ASSUME NEW w \in Workers, Proceed(w)
        PROVE  UNCHANGED <<so, items>>
    BY <1>3 DEF Proceed, ReadItems, BeginIssue, IssueStatement, MarkApproved,
       SaveLoad, SaveWrite, ReplaceItems, DeleteWaits, InsertClashes
  <1>4. ASSUME NEW w \in Workers, Abandon(w) \/ BreakDeadlock(w)
        PROVE  UNCHANGED <<so, items>>
    BY <1>4 DEF Abandon, BreakDeadlock
  <1> QED
    BY <1>1, <1>2, <1>3, <1>4 DEF OrdersNext

LEMMA OverlapsStay ==
    ASSUME [OrdersNext]_vars
    PROVE  overlapped \subseteq overlapped'
  BY ZenonT(60) DEF OrdersNext, vars, orderVars, Receive, CreateDraft, OpenUpdate,
     OpenSubmit, OpenApprove, OpenReject, Open, Proceed, ReadItems, BeginIssue,
     IssueStatement, MarkApproved, SaveLoad, SaveWrite, SaveAlone,
     ReplaceItems, DeleteWaits, InsertClashes, CommitUpdate, CommitApprove,
     Abandon, BreakDeadlock

(* Until two requests work on one order at once, the sales module keeps    *)
(* OrderLife's promise: in particular the stock of an order leaves in the  *)
(* very step that approves it, and only then.                              *)
THEOREM OrderLifeIsKept == OrdersSafety => ImplementsOrderLife
  <1>1. OrdersInit => Life!LifeInit
    <2> SUFFICES ASSUME OrdersInit
                 PROVE  Life!LifeInit
      OBVIOUS
    <2>1. Orders = [o \in {} |-> 0]
      BY DEF OrdersInit, Orders
    <2>2. onHand \in [Keys -> Nat]
      BY LotsAssumption DEF OrdersInit, StockInit
    <2> QED
      BY <2>1, <2>2 DEF Life!LifeInit, Life!Stock!BookInit, Orders, Seen
  <1>2. /\ OrdersInvariant /\ AloneInvariant /\ IssuesPosted
        /\ StockInvariant' /\ [OrdersNext]_vars
        => [overlapped' = {} => Life!LifeNext]_(Life!lifeVars)
    <2> SUFFICES ASSUME OrdersInvariant, AloneInvariant, IssuesPosted,
                        StockInvariant', [OrdersNext]_vars, overlapped' = {}
                 PROVE  Life!LifeNext \/ UNCHANGED Life!lifeVars
      OBVIOUS
    <2>1. overlapped = {}
      BY OverlapsStay
    <2>2. ASSUME NEW w \in Workers, NEW o \in OrderIds, NEW lines \in Requests,
                 NEW submitNow \in BOOLEAN, CreateDraft(w, o, lines, submitNow)
          PROVE  Life!LifeNext
      BY <2>2, PlaceKept
    <2>3. ASSUME NEW w \in Workers, SaveAlone(w)
          PROVE  Life!LifeNext
      BY <2>1, <2>3, SaveAloneKept
    <2>4. ASSUME NEW w \in Workers, CommitUpdate(w)
          PROVE  Life!LifeNext
      BY <2>1, <2>4, CommitUpdateKept
    <2>5. ASSUME NEW w \in Workers, CommitApprove(w)
          PROVE  Life!LifeNext
      BY <2>1, <2>5, CommitApproveKept DEF StockInvariant
    <2>6. CASE ~ \E w \in Workers :
                   \/ SaveAlone(w) \/ CommitUpdate(w) \/ CommitApprove(w)
                   \/ \E o \in OrderIds, lines \in Requests, submitNow \in BOOLEAN :
                        CreateDraft(w, o, lines, submitNow)
      <3>1. so' = so /\ items' = items /\ onHand' = onHand
        BY <2>6, OtherStepsKept, OnlyCommitsMove
      <3> QED
        BY <3>1 DEF Life!lifeVars
    <2> QED
      BY <2>2, <2>3, <2>4, <2>5, <2>6
  <1>3. OrdersSafety => []StockInvariant
    BY IssuesAreLedgerSteps, InvariantHolds, PTL DEF IssuesByLedger
  <1>4. OrdersSafety => []IssuesPosted
    BY <1>3, InitIssuesPosted, NextIssuesPosted, OrdersInvariantHolds, PTL
    DEF OrdersSafety
  <1> QED
    BY <1>1, <1>2, <1>3, <1>4, AloneInvariantHolds, PTL
    DEF OrdersSafety, ImplementsOrderLife
=============================================================================
