--------------------------- MODULE TxDetailProofs ---------------------------
(***************************************************************************)
(* Proofs about TxDetail for every set of hashes and every bound on the    *)
(* requests in flight: the type invariant, and that the two panels show    *)
(* the transaction last queried whenever that query was made with no       *)
(* earlier answer outstanding.                                             *)
(***************************************************************************)
EXTENDS TxDetail, SequenceTheorems, TLAPS

USE TxDetailAssumption

\* Every request in flight in s carries the hash h.
AllFor(s, h) == \A k \in 1..Len(s) : s[k] = h

-----------------------------------------------------------------------------
(* Lemmas on the sequence helpers.                                         *)

\* Removing the answered request: one shorter, and every entry left was
\* an entry before.
LEMMA RemoveAtFacts ==
    ASSUME NEW S, NEW s \in Seq(S), NEW i \in 1..Len(s)
    PROVE  /\ RemoveAt(s, i) \in Seq(S)
           /\ Len(RemoveAt(s, i)) = Len(s) - 1
           /\ \A k \in 1..Len(s) - 1 :
                 RemoveAt(s, i)[k] = IF k < i THEN s[k] ELSE s[k + 1]
<1> DEFINE s1 == SubSeq(s, 1, i - 1)
           s2 == SubSeq(s, i + 1, Len(s))
<1>1. /\ s1 \in Seq(S) /\ Len(s1) = i - 1
      /\ \A k \in 1..i - 1 : s1[k] = s[k]
  BY SubSeqProperties
<1>2. /\ s2 \in Seq(S) /\ Len(s2) = Len(s) - i
      /\ \A k \in 1..Len(s) - i : s2[k] = s[i + k]
  BY SubSeqProperties
<1>3. RemoveAt(s, i) = s1 \o s2
  BY DEF RemoveAt
<1> HIDE DEF s1, s2
<1>4. /\ s1 \o s2 \in Seq(S)
      /\ Len(s1 \o s2) = Len(s1) + Len(s2)
      /\ \A k \in 1..Len(s1) + Len(s2) :
            (s1 \o s2)[k] = IF k <= Len(s1) THEN s1[k] ELSE s2[k - Len(s1)]
  BY <1>1, <1>2, ConcatProperties
<1>5. \A k \in 1..Len(s) - 1 :
         RemoveAt(s, i)[k] = IF k < i THEN s[k] ELSE s[k + 1]
  <2> SUFFICES ASSUME NEW k \in 1..Len(s) - 1
               PROVE  RemoveAt(s, i)[k] = IF k < i THEN s[k] ELSE s[k + 1]
    OBVIOUS
  <2>1. CASE k < i
    BY <2>1, <1>1, <1>2, <1>3, <1>4
  <2>2. CASE k >= i
    <3>1. (s1 \o s2)[k] = s2[k - (i - 1)]
      BY <2>2, <1>1, <1>2, <1>4
    <3>2. s2[k - (i - 1)] = s[k + 1]
      BY <2>2, <1>2
    <3>3. RemoveAt(s, i)[k] = s[k + 1]
      BY <3>1, <3>2, <1>3
    <3> QED
      BY <2>2, <3>3
  <2> QED
    BY <2>1, <2>2
<1> QED
  BY <1>1, <1>2, <1>3, <1>4, <1>5

\* A request list that carries only h still does so after an answer.
LEMMA RemoveAtAllFor ==
    ASSUME NEW S, NEW s \in Seq(S), NEW i \in 1..Len(s), NEW h, AllFor(s, h)
    PROVE  AllFor(RemoveAt(s, i), h)
<1> SUFFICES ASSUME NEW k \in 1..Len(RemoveAt(s, i)) PROVE RemoveAt(s, i)[k] = h
  BY DEF AllFor
<1>1. k \in 1..Len(s) - 1 /\ k + 1 \in 1..Len(s)
  BY RemoveAtFacts
<1>2. RemoveAt(s, i)[k] = IF k < i THEN s[k] ELSE s[k + 1]
  BY <1>1, RemoveAtFacts
<1>3. s[k] = h /\ s[k + 1] = h
  BY <1>1 DEF AllFor
<1> QED
  BY <1>2, <1>3

-----------------------------------------------------------------------------
(* Type correctness.                                                       *)

\* queryTxDetail(h) keeps the types.
LEMMA QueryType ==
    ASSUME TypeOK, NEW h \in Hashes, QueryTxDetail(h)
    PROVE  TypeOK'
<1>1. /\ txInflight' \in Seq(Hashes) /\ Len(txInflight') <= MaxInflight
      /\ receiptInflight' \in Seq(Hashes) /\ Len(receiptInflight') <= MaxInflight
  BY AppendProperties DEF QueryTxDetail, TypeOK
<1>2. overlapped' \in BOOLEAN
  BY DEF QueryTxDetail
<1> QED
  BY <1>1, <1>2 DEF QueryTxDetail, TypeOK

\* An answer of either method keeps the types.
LEMMA AnswerType ==
    ASSUME TypeOK,
           \/ \E i \in 1..Len(txInflight) : TxDetailSuccess(i) \/ TxDetailFailed(i)
           \/ \E i \in 1..Len(receiptInflight) : TxReceiptSuccess(i) \/ TxReceiptFailed(i)
    PROVE  TypeOK'
<1>1. CASE \E i \in 1..Len(txInflight) : TxDetailSuccess(i) \/ TxDetailFailed(i)
  <2>1. PICK i \in 1..Len(txInflight) : TxDetailSuccess(i) \/ TxDetailFailed(i)
    BY <1>1
  <2>2. txInflight' \in Seq(Hashes) /\ Len(txInflight') <= MaxInflight
    BY <2>1, RemoveAtFacts DEF TxDetailSuccess, TxDetailFailed, TypeOK
  <2>3. tx_detail_set' \in Hashes \cup {Hidden}
    BY <2>1 DEF TxDetailSuccess, TxDetailFailed, TypeOK
  <2> QED
    BY <2>1, <2>2, <2>3 DEF TxDetailSuccess, TxDetailFailed, TypeOK
<1>2. CASE \E i \in 1..Len(receiptInflight) : TxReceiptSuccess(i) \/ TxReceiptFailed(i)
  <2>1. PICK i \in 1..Len(receiptInflight) : TxReceiptSuccess(i) \/ TxReceiptFailed(i)
    BY <1>2
  <2>2. receiptInflight' \in Seq(Hashes) /\ Len(receiptInflight') <= MaxInflight
    BY <2>1, RemoveAtFacts DEF TxReceiptSuccess, TxReceiptFailed, TypeOK
  <2>3. tx_receipt_set' \in Hashes \cup {Hidden}
    BY <2>1 DEF TxReceiptSuccess, TxReceiptFailed, TypeOK
  <2> QED
    BY <2>1, <2>2, <2>3 DEF TxReceiptSuccess, TxReceiptFailed, TypeOK
<1> QED
  BY <1>1, <1>2

\* Every step keeps the types.
LEMMA TypeStep == TypeOK /\ [Next]_vars => TypeOK'
<1> SUFFICES ASSUME TypeOK, [Next]_vars PROVE TypeOK'
  OBVIOUS
<1>1. CASE \E h \in Hashes \cup {Empty} : EditTxField(h)
  BY <1>1 DEF EditTxField, TypeOK
<1>2. CASE QueryTxBtn
  BY <1>2, QueryType DEF QueryTxBtn, TypeOK
<1>3. CASE TxHashRowClick
  BY <1>3, QueryType DEF TxHashRowClick
<1>4. CASE \/ \E i \in 1..Len(txInflight) : TxDetailSuccess(i) \/ TxDetailFailed(i)
           \/ \E i \in 1..Len(receiptInflight) : TxReceiptSuccess(i) \/ TxReceiptFailed(i)
  BY <1>4, AnswerType
<1>5. CASE UNCHANGED vars
  <2>1. UNCHANGED <<query_tx_hash, tx_detail_set, tx_receipt_set, txInflight,
                    receiptInflight, lastQueried, overlapped>>
    BY <1>5 DEF vars
  <2> QED
    BY <2>1 DEF TypeOK
<1> QED
  BY <1>1, <1>2, <1>3, <1>4, <1>5 DEF Next

LEMMA TypeInit == Init => TypeOK
<1> SUFFICES ASSUME Init PROVE TypeOK
  OBVIOUS
<1>1. <<>> \in Seq(Hashes) /\ Len(<<>>) = 0
  BY EmptySeq
<1>2. overlapped \in BOOLEAN
  BY DEF Init
<1>3. /\ query_tx_hash \in Hashes \cup {Empty} /\ lastQueried \in Hashes \cup {Empty}
      /\ tx_detail_set \in Hashes \cup {Hidden} /\ tx_receipt_set \in Hashes \cup {Hidden}
  BY DEF Init
<1> QED
  BY <1>1, <1>2, <1>3 DEF Init, TypeOK

\* The type invariant holds in every reachable state of the tx query.
THEOREM TxTypeCorrect == Spec => []TypeOK
<1>1. Init => TypeOK
  BY TypeInit
<1>2. TypeOK /\ [Next]_vars => TypeOK'
  BY TypeStep
<1> QED
  BY <1>1, <1>2, PTL DEF Spec

-----------------------------------------------------------------------------
(* The panels of a query made with nothing outstanding.                    *)

\* Every request in flight belongs to the latest query, unless that query
\* overlapped an earlier one.
Fresh ==
    ~overlapped => AllFor(txInflight, lastQueried) /\ AllFor(receiptInflight, lastQueried)

\* The inductive invariant: PanelsShowLastQuery alone is not inductive,
\* since an answer still in flight could carry another hash; Fresh rules
\* that out.
IInv == TypeOK /\ PanelsShowLastQuery /\ Fresh

\* queryTxDetail(h) hides both panels; when nothing was outstanding the
\* only requests in flight are its own.
LEMMA QueryInv ==
    ASSUME IInv, NEW h \in Hashes, QueryTxDetail(h)
    PROVE  PanelsShowLastQuery' /\ Fresh'
<1>1. CASE overlapped'
  BY <1>1 DEF PanelsShowLastQuery, Fresh
<1>2. CASE ~overlapped'
  <2>1. txInflight = <<>> /\ receiptInflight = <<>>
    BY <1>2, Zenon DEF QueryTxDetail
  <2>2. txInflight' = <<h>> /\ receiptInflight' = <<h>> /\ lastQueried' = h
    BY <2>1 DEF QueryTxDetail
  <2>3. AllFor(<<h>>, h)
    BY DEF AllFor
  <2>4. tx_detail_set' = Hidden /\ tx_receipt_set' = Hidden
    BY DEF QueryTxDetail
  <2> QED
    BY <2>2, <2>3, <2>4 DEF PanelsShowLastQuery, Fresh
<1> QED
  BY <1>1, <1>2

\* A Dev_getTransaction answer shows, when the query did not overlap, the
\* hash of the latest query, and leaves only its requests in flight.
LEMMA DetailAnswerInv ==
    ASSUME IInv, NEW i \in 1..Len(txInflight),
           TxDetailSuccess(i) \/ TxDetailFailed(i)
    PROVE  PanelsShowLastQuery' /\ Fresh'
<1>1. /\ txInflight' = RemoveAt(txInflight, i)
      /\ UNCHANGED <<tx_receipt_set, receiptInflight, lastQueried, overlapped>>
      /\ tx_detail_set' \in {tx_detail_set, txInflight[i]}
  BY DEF TxDetailSuccess, TxDetailFailed
<1>2. CASE overlapped
  BY <1>1, <1>2 DEF PanelsShowLastQuery, Fresh
<1>3. CASE ~overlapped
  <2>1. AllFor(txInflight, lastQueried) /\ AllFor(receiptInflight, lastQueried)
    BY <1>3 DEF IInv, Fresh
  <2>2. txInflight[i] = lastQueried
    BY <2>1 DEF AllFor
  <2>3. AllFor(txInflight', lastQueried')
    BY <1>1, <2>1, RemoveAtAllFor DEF IInv, TypeOK
  <2> QED
    BY <1>1, <1>3, <2>1, <2>2, <2>3 DEF IInv, PanelsShowLastQuery, Fresh
<1> QED
  BY <1>2, <1>3

\* The same for a Gtas_txReceipt answer.
LEMMA ReceiptAnswerInv ==
    ASSUME IInv, NEW i \in 1..Len(receiptInflight),
           TxReceiptSuccess(i) \/ TxReceiptFailed(i)
    PROVE  PanelsShowLastQuery' /\ Fresh'
<1>1. /\ receiptInflight' = RemoveAt(receiptInflight, i)
      /\ UNCHANGED <<tx_detail_set, txInflight, lastQueried, overlapped>>
      /\ tx_receipt_set' \in {tx_receipt_set, receiptInflight[i]}
  BY DEF TxReceiptSuccess, TxReceiptFailed
<1>2. CASE overlapped
  BY <1>1, <1>2 DEF PanelsShowLastQuery, Fresh
<1>3. CASE ~overlapped
  <2>1. AllFor(txInflight, lastQueried) /\ AllFor(receiptInflight, lastQueried)
    BY <1>3 DEF IInv, Fresh
  <2>2. receiptInflight[i] = lastQueried
    BY <2>1 DEF AllFor
  <2>3. AllFor(receiptInflight', lastQueried')
    BY <1>1, <2>1, RemoveAtAllFor DEF IInv, TypeOK
  <2> QED
    BY <1>1, <1>3, <2>1, <2>2, <2>3 DEF IInv, PanelsShowLastQuery, Fresh
<1> QED
  BY <1>2, <1>3

\* Every step keeps the inductive invariant.
LEMMA InvStep == IInv /\ [Next]_vars => IInv'
<1> SUFFICES ASSUME IInv, [Next]_vars PROVE IInv'
  OBVIOUS
<1>1. TypeOK'
  BY TypeStep DEF IInv
<1>2. CASE \E h \in Hashes \cup {Empty} : EditTxField(h)
  BY <1>1, <1>2 DEF EditTxField, IInv, PanelsShowLastQuery, Fresh
<1>3. CASE QueryTxBtn
  <2>1. query_tx_hash \in Hashes
    BY <1>3 DEF QueryTxBtn, IInv, TypeOK
  <2> QED
    BY <1>1, <1>3, <2>1, QueryInv DEF QueryTxBtn, IInv
<1>4. CASE TxHashRowClick
  BY <1>1, <1>4, QueryInv DEF TxHashRowClick, IInv
<1>5. CASE \E i \in 1..Len(txInflight) : TxDetailSuccess(i) \/ TxDetailFailed(i)
  BY <1>1, <1>5, DetailAnswerInv DEF IInv
<1>6. CASE \E i \in 1..Len(receiptInflight) : TxReceiptSuccess(i) \/ TxReceiptFailed(i)
  BY <1>1, <1>6, ReceiptAnswerInv DEF IInv
<1>7. CASE UNCHANGED vars
  BY <1>1, <1>7 DEF vars, IInv, PanelsShowLastQuery, Fresh
<1> QED
  BY <1>2, <1>3, <1>4, <1>5, <1>6, <1>7 DEF Next

\* When the user waits for every answer of a query before the next one,
\* the transaction and receipt panels never show two different
\* transactions, for every set of hashes and every bound on the requests
\* in flight (tas-ext.js lines 141-142, 156, 190).
THEOREM PanelsShowLastQueryThm == Spec => []PanelsShowLastQuery
<1>1. Init => IInv
  BY TypeInit DEF Init, IInv, PanelsShowLastQuery, Fresh, AllFor
<1>2. IInv /\ [Next]_vars => IInv'
  BY InvStep
<1>3. IInv => PanelsShowLastQuery
  BY DEF IInv
<1> QED
  BY <1>1, <1>2, <1>3, PTL DEF Spec

-----------------------------------------------------------------------------
(* Each panel implements QueryPanelAbstract.                               *)

\* Appending h to the requests in flight asks for h as well.
LEMMA RequestedAppend ==
    ASSUME NEW S, NEW s \in Seq(S), NEW h \in S
    PROVE  Requested(Append(s, h)) = Requested(s) \cup {h}
<1>1. /\ Len(Append(s, h)) = Len(s) + 1
      /\ \A k \in 1..Len(s) : Append(s, h)[k] = s[k]
      /\ Append(s, h)[Len(s) + 1] = h
  BY AppendProperties
<1>2. Requested(Append(s, h)) \subseteq Requested(s) \cup {h}
  BY <1>1 DEF Requested
<1>3. Requested(s) \cup {h} \subseteq Requested(Append(s, h))
  <2>1. h \in Requested(Append(s, h))
    <3>1. Len(s) + 1 \in 1..Len(Append(s, h))
      BY <1>1
    <3> QED
      BY <1>1, <3>1 DEF Requested
  <2>2. Requested(s) \subseteq Requested(Append(s, h))
    BY <1>1 DEF Requested
  <2> QED
    BY <2>1, <2>2
<1> QED
  BY <1>2, <1>3

\* Removing the answered request at i settles one request for s[i]: s[i]
\* was asked for, and afterwards it is asked for still (another request
\* for it is in flight) or no more, every other hash as before.
LEMMA RequestedRemoveAt ==
    ASSUME NEW S, NEW s \in Seq(S), NEW i \in 1..Len(s)
    PROVE  /\ s[i] \in Requested(s)
           /\ Requested(RemoveAt(s, i)) \in
                 {Requested(s), Requested(s) \ {s[i]}}
<1> DEFINE r == RemoveAt(s, i)
<1>1. /\ Len(r) = Len(s) - 1
      /\ \A k \in 1..Len(s) - 1 : r[k] = IF k < i THEN s[k] ELSE s[k + 1]
  BY RemoveAtFacts
<1> HIDE DEF r
<1>2. Requested(r) \subseteq Requested(s)
  <2> SUFFICES ASSUME NEW k \in 1..Len(r) PROVE r[k] \in Requested(s)
    BY DEF Requested
  <2>1. CASE k < i
    BY <1>1, <2>1 DEF Requested
  <2>2. CASE ~(k < i)
    <3>1. r[k] = s[k + 1] /\ k + 1 \in 1..Len(s)
      BY <1>1, <2>2
    <3> QED
      BY <3>1 DEF Requested
  <2> QED
    BY <2>1, <2>2
<1>3. Requested(s) \ {s[i]} \subseteq Requested(r)
  <2> SUFFICES ASSUME NEW j \in 1..Len(s), s[j] # s[i]
               PROVE  s[j] \in Requested(r)
    BY DEF Requested
  <2>1. j # i
    OBVIOUS
  <2>2. CASE j < i
    <3>1. j \in 1..Len(r) /\ r[j] = s[j]
      BY <1>1, <2>2
    <3> QED
      BY <3>1 DEF Requested
  <2>3. CASE j > i
    <3>1. j - 1 \in 1..Len(r) /\ r[j - 1] = s[j]
      BY <1>1, <2>3
    <3> QED
      BY <3>1 DEF Requested
  <2> QED
    BY <2>1, <2>2, <2>3
<1>4. s[i] \in Requested(s)
  BY DEF Requested
<1>5. CASE s[i] \in Requested(r)
  <2>1. Requested(r) = Requested(s)
    BY <1>2, <1>3, <1>5
  <2> QED
    BY <1>4, <2>1 DEF r
<1>6. CASE s[i] \notin Requested(r)
  <2>1. Requested(r) = Requested(s) \ {s[i]}
    BY <1>2, <1>3, <1>6
  <2> QED
    BY <1>4, <2>1 DEF r
<1> QED
  BY <1>5, <1>6

\* Every step is a step of the transaction panel's abstract query or leaves
\* its field, its panel and its requested hashes alone.
LEMMA DetailStep ==
    ASSUME TypeOK, [Next]_vars
    PROVE  [DetailPanel!Next]_DetailPanel!pvars
<1> USE DEF DetailPanel!Next, DetailPanel!pvars
<1>1. ASSUME NEW h \in Hashes, QueryTxDetail(h) PROVE DetailPanel!Query(h)
  <2>1. Requested(txInflight') = Requested(txInflight) \cup {h}
    BY <1>1, RequestedAppend DEF QueryTxDetail, TypeOK
  <2> QED
    BY <1>1, <2>1 DEF QueryTxDetail, DetailPanel!Query
<1>2. CASE \E h \in Hashes \cup {Empty} : EditTxField(h)
  BY <1>2 DEF EditTxField, DetailPanel!Edit
<1>3. CASE QueryTxBtn
  <2>1. query_tx_hash \in Hashes
    BY <1>3 DEF QueryTxBtn, TypeOK
  <2> QED
    BY <1>1, <1>3, <2>1 DEF QueryTxBtn
<1>4. CASE TxHashRowClick
  BY <1>1, <1>4 DEF TxHashRowClick
<1>5. ASSUME NEW i \in 1..Len(txInflight), TxDetailSuccess(i) \/ TxDetailFailed(i)
      PROVE  [DetailPanel!Next]_DetailPanel!pvars
  <2> DEFINE h == txInflight[i]
  <2>1. h \in Hashes
    BY ElementOfSeq DEF TypeOK
  <2>2. /\ h \in Requested(txInflight)
        /\ Requested(txInflight') \in {Requested(txInflight), Requested(txInflight) \ {h}}
    BY <1>5, RequestedRemoveAt DEF TypeOK, TxDetailSuccess, TxDetailFailed
  <2>3. CASE TxDetailSuccess(i)
    BY <2>1, <2>2, <2>3 DEF TxDetailSuccess, DetailPanel!Show, DetailPanel!Settle
  <2>4. CASE TxDetailFailed(i)
    BY <2>1, <2>2, <2>4 DEF TxDetailFailed, DetailPanel!Fail, DetailPanel!Settle
  <2> QED
    BY <1>5, <2>3, <2>4
<1>6. CASE \E i \in 1..Len(receiptInflight) : TxReceiptSuccess(i) \/ TxReceiptFailed(i)
  BY <1>6 DEF TxReceiptSuccess, TxReceiptFailed
<1>7. CASE UNCHANGED vars
  BY <1>7 DEF vars
<1> QED
  BY <1>2, <1>3, <1>4, <1>5, <1>6, <1>7 DEF Next

\* Every step is a step of the receipt panel's abstract query or leaves
\* its field, its panel and its requested hashes alone.
LEMMA ReceiptStep ==
    ASSUME TypeOK, [Next]_vars
    PROVE  [ReceiptPanel!Next]_ReceiptPanel!pvars
<1> USE DEF ReceiptPanel!Next, ReceiptPanel!pvars
<1>1. ASSUME NEW h \in Hashes, QueryTxDetail(h) PROVE ReceiptPanel!Query(h)
  <2>1. Requested(receiptInflight') = Requested(receiptInflight) \cup {h}
    BY <1>1, RequestedAppend DEF QueryTxDetail, TypeOK
  <2> QED
    BY <1>1, <2>1 DEF QueryTxDetail, ReceiptPanel!Query
<1>2. CASE \E h \in Hashes \cup {Empty} : EditTxField(h)
  BY <1>2 DEF EditTxField, ReceiptPanel!Edit
<1>3. CASE QueryTxBtn
  <2>1. query_tx_hash \in Hashes
    BY <1>3 DEF QueryTxBtn, TypeOK
  <2> QED
    BY <1>1, <1>3, <2>1 DEF QueryTxBtn
<1>4. CASE TxHashRowClick
  BY <1>1, <1>4 DEF TxHashRowClick
<1>5. ASSUME NEW i \in 1..Len(receiptInflight), TxReceiptSuccess(i) \/ TxReceiptFailed(i)
      PROVE  [ReceiptPanel!Next]_ReceiptPanel!pvars
  <2> DEFINE h == receiptInflight[i]
  <2>1. h \in Hashes
    BY ElementOfSeq DEF TypeOK
  <2>2. /\ h \in Requested(receiptInflight)
        /\ Requested(receiptInflight') \in {Requested(receiptInflight), Requested(receiptInflight) \ {h}}
    BY <1>5, RequestedRemoveAt DEF TypeOK, TxReceiptSuccess, TxReceiptFailed
  <2>3. CASE TxReceiptSuccess(i)
    BY <2>1, <2>2, <2>3 DEF TxReceiptSuccess, ReceiptPanel!Show, ReceiptPanel!Settle
  <2>4. CASE TxReceiptFailed(i)
    BY <2>1, <2>2, <2>4 DEF TxReceiptFailed, ReceiptPanel!Fail, ReceiptPanel!Settle
  <2> QED
    BY <1>5, <2>3, <2>4
<1>6. CASE \E i \in 1..Len(txInflight) : TxDetailSuccess(i) \/ TxDetailFailed(i)
  BY <1>6 DEF TxDetailSuccess, TxDetailFailed
<1>7. CASE UNCHANGED vars
  BY <1>7 DEF vars
<1> QED
  BY <1>2, <1>3, <1>4, <1>5, <1>6, <1>7 DEF Next

\* Both panels of the transaction query implement QueryPanelAbstract, for
\* every set of hashes and every bound: each shows only a hash whose
\* request was awaiting an answer when the answer came, and a query hides
\* it, whatever order the Dev_getTransaction and Gtas_txReceipt answers of
\* several queries arrive in.
THEOREM PanelsRefineThm == Spec => PanelsRefine
<1>1. Init => DetailPanel!Init /\ ReceiptPanel!Init
  <2>1. Requested(<< >>) = {}
    BY DEF Requested
  <2> QED
    BY <2>1 DEF Init, DetailPanel!Init, ReceiptPanel!Init
<1>2. TypeOK /\ [Next]_vars => [DetailPanel!Next]_DetailPanel!pvars
  BY DetailStep
<1>3. TypeOK /\ [Next]_vars => [ReceiptPanel!Next]_ReceiptPanel!pvars
  BY ReceiptStep
<1> QED
  BY <1>1, <1>2, <1>3, TxTypeCorrect, PTL
     DEF Spec, PanelsRefine, DetailPanel!Spec, ReceiptPanel!Spec
=============================================================================
