------------------------------ MODULE TxDetail ------------------------------
(***************************************************************************)
(* The transaction-detail query of src/cmd/gtas/fronted/js/tas-ext.js.     *)
(* queryTxDetail(h) writes h into #query_tx_hash, hides #tx_detail_set and *)
(* #tx_receipt_set, and sends two independent requests: Dev_getTransaction *)
(* (its "success" answer shows #tx_detail_set) and Gtas_txReceipt (its     *)
(* "success" answer shows #tx_receipt_set).  Every answer arrives when the *)
(* network delivers it, so the answers of several queries, and the two     *)
(* answers of one query, interleave in any order.  Each panel is modelled  *)
(* by the hash whose data it shows; the texts it is filled with (hash,     *)
(* source, target, value; data, gas, logs, contract address and the labels *)
(* of the Type and status switches) all come from the answer for that      *)
(* hash, so the hash stands for them.                                      *)
(*                                                                         *)
(* lastQueried and overlapped are history variables that the code does    *)
(* not keep: the hash of the latest queryTxDetail call, and whether that   *)
(* call was made while an answer of an earlier call was still outstanding. *)
(***************************************************************************)
EXTENDS Naturals, Sequences

CONSTANTS
    Hashes,       \* transaction hashes the user can query
    Empty,        \* the empty text of #query_tx_hash
    Hidden,       \* a panel that is hidden
    MaxInflight   \* bound on the requests of each method awaiting an answer

ASSUME TxDetailAssumption ==
    /\ Empty \notin Hashes
    /\ Hidden \notin Hashes
    /\ MaxInflight \in Nat \ {0}

VARIABLES
    query_tx_hash,    \* the text of #query_tx_hash
    tx_detail_set,    \* the hash whose transaction #tx_detail_set shows
    tx_receipt_set,   \* the hash whose receipt #tx_receipt_set shows
    txInflight,       \* hashes of the Dev_getTransaction requests in flight
    receiptInflight,  \* hashes of the Gtas_txReceipt requests in flight
    lastQueried,      \* history: the hash of the latest queryTxDetail call
    overlapped        \* history: that call found an earlier answer outstanding

vars == <<query_tx_hash, tx_detail_set, tx_receipt_set, txInflight,
          receiptInflight, lastQueried, overlapped>>

TypeOK ==
    /\ query_tx_hash \in Hashes \cup {Empty}
    /\ tx_detail_set \in Hashes \cup {Hidden}
    /\ tx_receipt_set \in Hashes \cup {Hidden}
    /\ txInflight \in Seq(Hashes) /\ Len(txInflight) <= MaxInflight
    /\ receiptInflight \in Seq(Hashes) /\ Len(receiptInflight) <= MaxInflight
    /\ lastQueried \in Hashes \cup {Empty}
    /\ overlapped \in BOOLEAN

\* Removing the request at position i from the requests in flight.
RemoveAt(s, i) == SubSeq(s, 1, i - 1) \o SubSeq(s, i + 1, Len(s))

-----------------------------------------------------------------------------
(* queryTxDetail (lines 133-237) and the handlers that call it.            *)

\* Mutant: the receipt panel is not hidden before the requests are sent.
QueryTxDetailKeepReceipt(h) ==
    /\ Len(txInflight) < MaxInflight /\ Len(receiptInflight) < MaxInflight
    /\ query_tx_hash' = h
    /\ tx_detail_set' = Hidden
    /\ txInflight' = Append(txInflight, h)
    /\ receiptInflight' = Append(receiptInflight, h)
    /\ lastQueried' = h
    /\ overlapped' = (txInflight # <<>> \/ receiptInflight # <<>>)
    /\ UNCHANGED tx_receipt_set

\* queryTxDetail(h): the field shows h, both panels are hidden, and both
\* requests are sent.  The two are sent together, so their numbers in
\* flight are bounded together.
QueryTxDetail(h) ==
    /\ Len(txInflight) < MaxInflight /\ Len(receiptInflight) < MaxInflight
    /\ query_tx_hash' = h
    /\ tx_detail_set' = Hidden
    /\ tx_receipt_set' = Hidden
    /\ txInflight' = Append(txInflight, h)
    /\ receiptInflight' = Append(receiptInflight, h)
    /\ lastQueried' = h
    /\ overlapped' = (txInflight # <<>> \/ receiptInflight # <<>>)

\* The user types into #query_tx_hash.
EditTxField(h) ==
    /\ query_tx_hash' = h
    /\ UNCHANGED <<tx_detail_set, tx_receipt_set, txInflight, receiptInflight,
                   lastQueried, overlapped>>

\* Mutant: the button queries the field without the test for an empty text.
QueryTxBtnNoEmptyCheck ==
    QueryTxDetail(query_tx_hash)

\* #query_tx_btn: an empty field returns, any other text is queried.
QueryTxBtn ==
    /\ query_tx_hash # Empty
    /\ QueryTxDetail(query_tx_hash)

\* A click on a transaction hash in the transactions or bonus table of a
\* block's details (the tab change it also makes is left out).
TxHashRowClick ==
    \E h \in Hashes : QueryTxDetail(h)

\* Mutant: the success callback fills the panel from the input field
\* instead of from the answer.
TxDetailSuccessFromField(i) ==
    /\ txInflight' = RemoveAt(txInflight, i)
    /\ tx_detail_set' = query_tx_hash
    /\ UNCHANGED <<query_tx_hash, tx_receipt_set, receiptInflight,
                   lastQueried, overlapped>>

\* A "success" Dev_getTransaction answer shows the transaction it was sent
\* for.
TxDetailSuccess(i) ==
    /\ txInflight' = RemoveAt(txInflight, i)
    /\ tx_detail_set' = txInflight[i]
    /\ UNCHANGED <<query_tx_hash, tx_receipt_set, receiptInflight,
                   lastQueried, overlapped>>

\* Any other message (alert and return), an answer without result (the
\* read of rdata.result.message throws), or the ajax error callback.
TxDetailFailed(i) ==
    /\ txInflight' = RemoveAt(txInflight, i)
    /\ UNCHANGED <<query_tx_hash, tx_detail_set, tx_receipt_set,
                   receiptInflight, lastQueried, overlapped>>

\* A "success" Gtas_txReceipt answer shows the receipt it was sent for.
TxReceiptSuccess(i) ==
    /\ receiptInflight' = RemoveAt(receiptInflight, i)
    /\ tx_receipt_set' = receiptInflight[i]
    /\ UNCHANGED <<query_tx_hash, tx_detail_set, txInflight,
                   lastQueried, overlapped>>

\* Any other message returns silently (the alert is commented out), as do
\* an answer without result and the ajax error callback.
TxReceiptFailed(i) ==
    /\ receiptInflight' = RemoveAt(receiptInflight, i)
    /\ UNCHANGED <<query_tx_hash, tx_detail_set, tx_receipt_set,
                   txInflight, lastQueried, overlapped>>

-----------------------------------------------------------------------------
Init ==
    /\ query_tx_hash = Empty
    /\ tx_detail_set = Hidden
    /\ tx_receipt_set = Hidden
    /\ txInflight = <<>>
    /\ receiptInflight = <<>>
    /\ lastQueried = Empty
    /\ overlapped = FALSE

Next ==
    \/ \E h \in Hashes \cup {Empty} : EditTxField(h)
    \/ QueryTxBtn
    \/ TxHashRowClick
    \/ \E i \in 1..Len(txInflight) : TxDetailSuccess(i) \/ TxDetailFailed(i)
    \/ \E i \in 1..Len(receiptInflight) : TxReceiptSuccess(i) \/ TxReceiptFailed(i)

Spec == Init /\ [][Next]_vars

-----------------------------------------------------------------------------
(* Properties.                                                             *)

\* When the user waits for both answers of a query before making the next
\* one, the two panels show the transaction last queried or are hidden,
\* so they never show two different transactions: lines 141-142 hide both
\* panels before the requests are sent, and each success callback shows
\* the hash its own request carried.  Only a query made while an earlier
\* answer is outstanding lets the panels disagree (tas-ext.js:186).
PanelsShowLastQuery ==
    ~overlapped =>
        /\ tx_detail_set \in {Hidden, lastQueried}
        /\ tx_receipt_set \in {Hidden, lastQueried}

\* The requests in flight read as the set of hashes they carry.
Requested(s) == {s[i] : i \in 1..Len(s)}

DetailPanel == INSTANCE QueryPanelAbstract
    WITH field <- query_tx_hash, panel <- tx_detail_set,
         asked <- Requested(txInflight)

ReceiptPanel == INSTANCE QueryPanelAbstract
    WITH field <- query_tx_hash, panel <- tx_receipt_set,
         asked <- Requested(receiptInflight)

\* Each panel, seen alone, implements QueryPanelAbstract: queryTxDetail
\* hides it and asks for the hash, and its success callback shows only a
\* hash whose request was still awaiting an answer (tas-ext.js lines 150-166
\* for #tx_detail_set, 185-232 for #tx_receipt_set), never the text of the
\* field, which the user may have changed since.
PanelsRefine == DetailPanel!Spec /\ ReceiptPanel!Spec
=============================================================================
