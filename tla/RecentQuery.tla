---------------------------- MODULE RecentQuery ----------------------------
(***************************************************************************)
(* The block-detail query of src/cmd/gtas/fronted/js/tas-ext.js and its    *)
(* recent-query list.  queryBlockDetail writes the hash into               *)
(* #query_block_hash, hides #block_detail_result and sends                 *)
(* Dev_blockDetail asynchronously; several queries may be in flight and    *)
(* their answers arrive in any order.  A "success" answer shows the        *)
(* block's details and calls addRecentQuery with the queried hash, which   *)
(* keeps a list of at most 10 distinct hashes, dropping the oldest.        *)
(* Hashes are model values; the rendering of the list is left out.         *)
(*                                                                         *)
(* lastQueried and overlapped are history variables that the code does    *)
(* not keep: the hash of the latest queryBlockDetail call, and whether     *)
(* that call was made while an earlier answer was still outstanding.       *)
(***************************************************************************)
EXTENDS Naturals, Sequences, FiniteSets

CONSTANTS
    Hashes,       \* block hashes the user can query
    Empty,        \* the empty text of #query_block_hash
    NoDetail,     \* #block_detail_result hidden
    RecentCap,    \* length bound of recent_query (10)
    MaxInflight   \* bound on Dev_blockDetail requests awaiting an answer

ASSUME RecentQueryAssumption ==
    /\ Empty \notin Hashes
    /\ NoDetail \notin Hashes
    /\ RecentCap \in Nat \ {0}
    /\ MaxInflight \in Nat \ {0}

VARIABLES
    recent_query,      \* the array recent_query
    query_block_hash,  \* the text of #query_block_hash
    detail,            \* the hash whose details #block_detail_result shows
    pending,           \* hashes of the Dev_blockDetail requests in flight
    lastQueried,       \* history: the hash of the latest queryBlockDetail call
    overlapped         \* history: that call found an earlier answer outstanding

vars == <<recent_query, query_block_hash, detail, pending, lastQueried, overlapped>>

\* The hashes in a sequence.
Elems(s) == {s[i] : i \in 1..Len(s)}

TypeOK ==
    /\ recent_query \in Seq(Hashes) /\ Len(recent_query) <= RecentCap
    /\ query_block_hash \in Hashes \cup {Empty}
    /\ detail \in Hashes \cup {NoDetail}
    /\ pending \in Seq(Hashes) /\ Len(pending) <= MaxInflight
    /\ lastQueried \in Hashes \cup {Empty}
    /\ overlapped \in BOOLEAN

\* Removing the request at position i from the requests in flight.
RemoveAt(s, i) == SubSeq(s, 1, i - 1) \o SubSeq(s, i + 1, Len(s))

-----------------------------------------------------------------------------
(* addRecentQuery (lines 12-25).                                           *)

\* Mutant: the list is trimmed only when longer than 10.
AddRecentQueryLate(s, q) ==
    IF q \in Elems(s) THEN s
    ELSE Append(IF Len(s) > RecentCap THEN Tail(s) ELSE s, q)

\* Mutant: the $.inArray test is missing.
AddRecentQueryDup(s, q) ==
    Append(IF Len(s) >= RecentCap THEN Tail(s) ELSE s, q)

\* Mutant: the list is trimmed once it holds 9 entries.
AddRecentQueryEarly(s, q) ==
    IF q \in Elems(s) THEN s
    ELSE Append(IF Len(s) >= RecentCap - 1 THEN Tail(s) ELSE s, q)

\* A hash already in the list changes nothing; otherwise the oldest entry
\* is shifted out when the list holds 10, and q is pushed.
AddRecentQuery(s, q) ==
    IF q \in Elems(s) THEN s
    ELSE Append(IF Len(s) >= RecentCap THEN Tail(s) ELSE s, q)

-----------------------------------------------------------------------------
(* queryBlockDetail (lines 45-130) and the handlers that call it.          *)

\* Mutant: #block_detail_result is not hidden before the request is sent.
QueryBlockDetailKeepDetail(h) ==
    /\ Len(pending) < MaxInflight
    /\ query_block_hash' = h
    /\ pending' = Append(pending, h)
    /\ lastQueried' = h
    /\ overlapped' = (pending # <<>>)
    /\ UNCHANGED <<recent_query, detail>>

\* queryBlockDetail(h): the field shows h, the result is hidden, and the
\* request is sent.
QueryBlockDetail(h) ==
    /\ Len(pending) < MaxInflight
    /\ query_block_hash' = h
    /\ detail' = NoDetail
    /\ pending' = Append(pending, h)
    /\ lastQueried' = h
    /\ overlapped' = (pending # <<>>)
    /\ UNCHANGED recent_query

\* The user types into #query_block_hash.
EditQueryField(h) ==
    /\ query_block_hash' = h
    /\ UNCHANGED <<recent_query, detail, pending, lastQueried, overlapped>>

\* #query_block_btn: an empty field returns, any other text is queried.
QueryBlockBtn ==
    /\ query_block_hash # Empty
    /\ QueryBlockDetail(query_block_hash)

\* A click on an entry of the recent-query list, or on a block hash in the
\* block or bonus tables.
RecentQueryClick ==
    \E h \in Elems(recent_query) : QueryBlockDetail(h)

HashRowClick ==
    \E h \in Hashes : QueryBlockDetail(h)

\* Mutant: the success callback reads the hash back from #query_block_hash.
BlockDetailSuccessFromField(i) ==
    /\ pending' = RemoveAt(pending, i)
    /\ detail' = pending[i]
    /\ recent_query' =
          IF query_block_hash = Empty THEN recent_query
          ELSE AddRecentQuery(recent_query, query_block_hash)
    /\ UNCHANGED <<query_block_hash, lastQueried, overlapped>>

\* A "success" answer: the details of h are shown, then addRecentQuery(h).
BlockDetailSuccess(i) ==
    /\ pending' = RemoveAt(pending, i)
    /\ detail' = pending[i]
    /\ recent_query' = AddRecentQuery(recent_query, pending[i])
    /\ UNCHANGED <<query_block_hash, lastQueried, overlapped>>

\* Any other message (alert and return), or the ajax error callback.
BlockDetailFailed(i) ==
    /\ pending' = RemoveAt(pending, i)
    /\ UNCHANGED <<recent_query, query_block_hash, detail, lastQueried, overlapped>>

-----------------------------------------------------------------------------
Init ==
    /\ recent_query = <<>>
    /\ query_block_hash = Empty
    /\ detail = NoDetail
    /\ pending = <<>>
    /\ lastQueried = Empty
    /\ overlapped = FALSE

Next ==
    \/ \E h \in Hashes \cup {Empty} : EditQueryField(h)
    \/ QueryBlockBtn
    \/ RecentQueryClick
    \/ HashRowClick
    \/ \E i \in 1..Len(pending) : BlockDetailSuccess(i) \/ BlockDetailFailed(i)

Spec == Init /\ [][Next]_vars

-----------------------------------------------------------------------------
(* Properties.                                                             *)

\* recent_query never holds a hash twice: the $.inArray test of line 13
\* runs before the shift() of line 17, whatever order answers arrive in.
RecentDistinct ==
    \A i, j \in 1..Len(recent_query) : i < j => recent_query[i] # recent_query[j]

\* The block whose details are shown is in the recent-query list: the
\* success callback adds the hash it was called with, and no later answer
\* evicts it before another success replaces the details.
DetailRemembered ==
    detail # NoDetail => detail \in Elems(recent_query)

\* When the user waits for the answer of a query before making the next
\* one, the detail panel shows the block last queried or is hidden: line
\* 54 hides it before the request is sent and the success callback shows
\* the block its own request carried.  Only a query made while an earlier
\* answer is outstanding leaves another block's details under the hash
\* queried last (tas-ext.js:65).
DetailShowsLastQuery ==
    ~overlapped => detail \in {NoDetail, lastQueried}

\* The list as a set implements RecentQueryAbstract: never more than 10
\* hashes, and a hash leaves only to make room for a new one.
Abstract == INSTANCE RecentQueryAbstract WITH recent <- Elems(recent_query)

RecentRefines == Abstract!Spec
=============================================================================
