------------------------- MODULE RecentQueryProofs -------------------------
(***************************************************************************)
(* Proofs about RecentQuery for every set of hashes, list bound and number *)
(* of queries in flight: the type invariant, that the list holds no hash   *)
(* twice, that the block shown is in the list, and that the list as a set  *)
(* implements RecentQueryAbstract.                                         *)
(***************************************************************************)
EXTENDS RecentQuery, SequenceTheorems, FiniteSetTheorems, TLAPS

USE RecentQueryAssumption

\* Distinct positions hold distinct hashes.
Distinct(s) == \A i, j \in 1..Len(s) : i # j => s[i] # s[j]

-----------------------------------------------------------------------------
(* Lemmas on the sequence helpers.                                         *)

\* Removing one request from the requests in flight.
LEMMA RemoveAtType ==
    ASSUME NEW S, NEW s \in Seq(S), NEW i \in 1..Len(s)
    PROVE  /\ RemoveAt(s, i) \in Seq(S)
           /\ Len(RemoveAt(s, i)) = Len(s) - 1
<1> DEFINE s1 == SubSeq(s, 1, i - 1)
           s2 == SubSeq(s, i + 1, Len(s))
<1>1. s1 \in Seq(S) /\ Len(s1) = i - 1
  BY SubSeqProperties
<1>2. s2 \in Seq(S) /\ Len(s2) = Len(s) - i
  BY SubSeqProperties
<1>3. RemoveAt(s, i) = s1 \o s2
  BY DEF RemoveAt
<1> HIDE DEF s1, s2
<1>4. s1 \o s2 \in Seq(S) /\ Len(s1 \o s2) = Len(s1) + Len(s2)
  BY <1>1, <1>2, ConcatProperties
<1> QED
  BY <1>1, <1>2, <1>3, <1>4

\* Shifting out the oldest entry and pushing q.
LEMMA ShiftPushFacts ==
    ASSUME NEW S, NEW s \in Seq(S), s # <<>>, NEW q \in S
    PROVE  LET t == Append(Tail(s), q)
           IN  /\ t \in Seq(S)
               /\ Len(t) = Len(s)
               /\ \A i \in 1..Len(s) - 1 : t[i] = s[i + 1]
               /\ t[Len(s)] = q
<1>1. Tail(s) \in Seq(S) /\ Len(Tail(s)) = Len(s) - 1
      /\ \A i \in 1..Len(s) - 1 : Tail(s)[i] = s[i + 1]
  BY HeadTailProperties
<1> QED
  BY <1>1, AppendProperties

\* The list after addRecentQuery: its hashes, its length and its order.
LEMMA AddRecentQueryFacts ==
    ASSUME NEW s \in Seq(Hashes), Len(s) <= RecentCap, NEW q \in Hashes
    PROVE  LET t == AddRecentQuery(s, q)
           IN  /\ t \in Seq(Hashes)
               /\ Len(t) <= RecentCap
               /\ q \in Elems(t)
               /\ q \in Elems(s) => t = s
               /\ q \notin Elems(s) /\ Len(s) < RecentCap =>
                     /\ Elems(t) = Elems(s) \cup {q}
                     /\ Distinct(s) => Distinct(t)
               /\ q \notin Elems(s) /\ Len(s) = RecentCap /\ Distinct(s) =>
                     /\ Elems(t) = (Elems(s) \ {s[1]}) \cup {q}
                     /\ Distinct(t)
<1> DEFINE t == AddRecentQuery(s, q)
<1>1. CASE q \in Elems(s)
  <2>1. t = s
    BY <1>1 DEF AddRecentQuery
  <2> QED
    BY <1>1, <2>1
<1>2. CASE q \notin Elems(s) /\ Len(s) < RecentCap
  <2> DEFINE u == Append(s, q)
  <2>1. t = u
    BY <1>2 DEF AddRecentQuery
  <2>2. /\ u \in Seq(Hashes) /\ Len(u) = Len(s) + 1
        /\ \A i \in 1..Len(s) : u[i] = s[i]
        /\ u[Len(s) + 1] = q
    BY AppendProperties
  <2> HIDE DEF u
  <2>3. Elems(u) = Elems(s) \cup {q}
    BY <2>2 DEF Elems
  <2>4. Distinct(s) => Distinct(u)
    BY <1>2, <2>2 DEF Distinct, Elems
  <2> QED
    BY <1>2, <2>1, <2>2, <2>3, <2>4 DEF Elems
<1>3. CASE q \notin Elems(s) /\ Len(s) >= RecentCap
  <2>0. s # <<>> /\ Len(s) = RecentCap
    BY <1>3
  <2> DEFINE u == Append(Tail(s), q)
  <2>1. AddRecentQuery(s, q) = u
    BY <1>3 DEF AddRecentQuery
  <2>2. /\ u \in Seq(Hashes) /\ Len(u) = Len(s)
        /\ \A i \in 1..Len(s) - 1 : u[i] = s[i + 1]
        /\ u[Len(s)] = q
    BY <2>0, ShiftPushFacts
  <2> HIDE DEF u
  <2>3. Distinct(s) => Elems(u) = (Elems(s) \ {s[1]}) \cup {q}
    <3> SUFFICES ASSUME Distinct(s) PROVE Elems(u) = (Elems(s) \ {s[1]}) \cup {q}
      OBVIOUS
    <3>1. Elems(u) \subseteq (Elems(s) \ {s[1]}) \cup {q}
      BY <1>3, <2>0, <2>2 DEF Elems, Distinct
    <3>2. (Elems(s) \ {s[1]}) \cup {q} \subseteq Elems(u)
      <4> SUFFICES ASSUME NEW i \in 2..Len(s) PROVE s[i] \in Elems(u)
        BY <2>0, <2>2 DEF Elems
      <4>1. i - 1 \in 1..Len(s) - 1 /\ i - 1 \in 1..Len(u)
        BY <2>0, <2>2
      <4>2. u[i - 1] = s[i]
        BY <4>1, <2>2
      <4> QED
        BY <4>1, <4>2 DEF Elems
    <3> QED
      BY <3>1, <3>2
  <2>4. Distinct(s) => Distinct(u)
    BY <1>3, <2>0, <2>2 DEF Distinct, Elems
  <2>5. q \in Elems(u)
    BY <2>0, <2>2 DEF Elems
  <2> QED
    BY <1>3, <2>0, <2>1, <2>2, <2>3, <2>4, <2>5
<1> QED
  BY <1>1, <1>2, <1>3

\* A list without repeated hashes has as many hashes as entries.
LEMMA DistinctCard ==
    ASSUME NEW S, NEW s \in Seq(S), Distinct(s)
    PROVE  IsFiniteSet(Elems(s)) /\ Cardinality(Elems(s)) = Len(s)
<1>1. s \in [1..Len(s) -> Elems(s)]
  BY DEF Elems
<1>2. IsInjective(s)
  BY DEF IsInjective, Distinct
<1>3. \A y \in Elems(s) : \E i \in 1..Len(s) : s[i] = y
  BY DEF Elems
<1>4. ExistsBijection(1..Len(s), Elems(s))
  BY <1>1, <1>2, <1>3 DEF ExistsBijection, Bijection, Injection, Surjection
<1>5. IsFiniteSet(1..Len(s)) /\ Cardinality(1..Len(s)) = Len(s)
  <2>1. Len(s) \in Int
    BY LenProperties
  <2>2. \A a, b \in Int :
          /\ IsFiniteSet(a..b)
          /\ Cardinality(a..b) = IF a > b THEN 0 ELSE b - a + 1
    BY FS_Interval
  <2>3. /\ IsFiniteSet(1..Len(s))
        /\ Cardinality(1..Len(s)) = IF 1 > Len(s) THEN 0 ELSE Len(s) - 1 + 1
    BY <2>1, <2>2
  <2> QED
    BY <2>1, <2>3, LenProperties
<1> QED
  BY <1>4, <1>5, FS_Bijection

-----------------------------------------------------------------------------
(* Type correctness.                                                       *)

\* queryBlockDetail(h) keeps the types.
LEMMA QueryType ==
    ASSUME TypeOK, NEW h \in Hashes, QueryBlockDetail(h)
    PROVE  TypeOK'
<1>1. pending' \in Seq(Hashes) /\ Len(pending') <= MaxInflight
  BY AppendProperties DEF QueryBlockDetail, TypeOK
<1> QED
  BY <1>1 DEF QueryBlockDetail, TypeOK

\* A Dev_blockDetail callback keeps the types.
LEMMA AnswerType ==
    ASSUME TypeOK, NEW i \in 1..Len(pending),
           BlockDetailSuccess(i) \/ BlockDetailFailed(i)
    PROVE  TypeOK'
<1>1. pending[i] \in Hashes
  BY DEF TypeOK
<1>2. pending' \in Seq(Hashes) /\ Len(pending') <= MaxInflight
  <2>1. pending' = RemoveAt(pending, i)
    BY DEF BlockDetailSuccess, BlockDetailFailed
  <2> QED
    BY <2>1, RemoveAtType DEF TypeOK
<1>3. CASE BlockDetailSuccess(i)
  <2>1. /\ AddRecentQuery(recent_query, pending[i]) \in Seq(Hashes)
        /\ Len(AddRecentQuery(recent_query, pending[i])) <= RecentCap
    BY <1>1, AddRecentQueryFacts DEF TypeOK
  <2> QED
    BY <1>1, <1>2, <1>3, <2>1 DEF BlockDetailSuccess, TypeOK
<1>4. CASE BlockDetailFailed(i)
  BY <1>2, <1>4 DEF BlockDetailFailed, TypeOK
<1> QED
  BY <1>3, <1>4

\* Every step keeps the types.
LEMMA TypeStep == TypeOK /\ [Next]_vars => TypeOK'
<1> SUFFICES ASSUME TypeOK, [Next]_vars PROVE TypeOK'
  OBVIOUS
<1>1. CASE \E h \in Hashes \cup {Empty} : EditQueryField(h)
  BY <1>1 DEF EditQueryField, TypeOK
<1>2. CASE QueryBlockBtn
  BY <1>2, QueryType DEF QueryBlockBtn, TypeOK
<1>3. CASE RecentQueryClick
  <2>1. PICK h \in Elems(recent_query) : QueryBlockDetail(h)
    BY <1>3 DEF RecentQueryClick
  <2>2. h \in Hashes
    BY DEF Elems, TypeOK
  <2> QED
    BY <2>1, <2>2, QueryType
<1>4. CASE HashRowClick
  BY <1>4, QueryType DEF HashRowClick
<1>5. CASE \E i \in 1..Len(pending) : BlockDetailSuccess(i) \/ BlockDetailFailed(i)
  BY <1>5, AnswerType
<1>6. CASE UNCHANGED vars
  BY <1>6 DEF vars, TypeOK
<1> QED
  BY <1>1, <1>2, <1>3, <1>4, <1>5, <1>6 DEF Next

LEMMA TypeInit == Init => TypeOK
<1> SUFFICES ASSUME Init PROVE TypeOK
  OBVIOUS
<1>1. <<>> \in Seq(Hashes) /\ Len(<<>>) = 0
  BY EmptySeq
<1>2. overlapped \in BOOLEAN /\ lastQueried \in Hashes \cup {Empty}
  BY DEF Init
<1> QED
  BY <1>1, <1>2 DEF Init, TypeOK

\* The type invariant holds in every reachable state of the detail query.
THEOREM RecentTypeCorrect == Spec => []TypeOK
<1>1. Init => TypeOK
  BY TypeInit
<1>2. TypeOK /\ [Next]_vars => TypeOK'
  BY TypeStep
<1> QED
  BY <1>1, <1>2, PTL DEF Spec

-----------------------------------------------------------------------------
(* The list holds no hash twice, and holds the block shown.                *)

\* The inductive invariant: the list has no repeated hash, and the block
\* whose details are shown is in it.
IInv == TypeOK /\ Distinct(recent_query) /\ DetailRemembered

\* A "success" answer keeps both: addRecentQuery adds h without repeating
\* it, and the details shown are h's.
LEMMA SuccessInv ==
    ASSUME IInv, NEW i \in 1..Len(pending), BlockDetailSuccess(i)
    PROVE  Distinct(recent_query') /\ DetailRemembered'
<1> DEFINE h == pending[i]
<1>1. h \in Hashes /\ recent_query \in Seq(Hashes) /\ Len(recent_query) <= RecentCap
  BY DEF IInv, TypeOK
<1>2. recent_query' = AddRecentQuery(recent_query, h) /\ detail' = h
  BY DEF BlockDetailSuccess
<1>3. h \in Elems(AddRecentQuery(recent_query, h))
  BY <1>1, AddRecentQueryFacts
<1>4. Distinct(AddRecentQuery(recent_query, h))
  <2>1. CASE h \in Elems(recent_query)
    BY <1>1, <2>1, AddRecentQueryFacts DEF IInv
  <2>2. CASE h \notin Elems(recent_query) /\ Len(recent_query) < RecentCap
    BY <1>1, <2>2, AddRecentQueryFacts DEF IInv
  <2>3. CASE h \notin Elems(recent_query) /\ Len(recent_query) = RecentCap
    BY <1>1, <2>3, AddRecentQueryFacts DEF IInv
  <2> QED
    BY <1>1, <2>1, <2>2, <2>3
<1> QED
  BY <1>2, <1>3, <1>4 DEF DetailRemembered

\* Every step keeps the inductive invariant.
LEMMA InvStep == IInv /\ [Next]_vars => IInv'
<1> SUFFICES ASSUME IInv, [Next]_vars PROVE IInv'
  OBVIOUS
<1>1. TypeOK'
  BY TypeStep DEF IInv
<1>2. CASE \E i \in 1..Len(pending) : BlockDetailSuccess(i)
  BY <1>1, <1>2, SuccessInv DEF IInv
<1>3. CASE ~(\E i \in 1..Len(pending) : BlockDetailSuccess(i))
  <2>1. UNCHANGED recent_query
    BY <1>3 DEF Next, EditQueryField, QueryBlockBtn, RecentQueryClick,
           HashRowClick, QueryBlockDetail, BlockDetailFailed, vars
  <2>2. UNCHANGED detail \/ detail' = NoDetail
    BY <1>3 DEF Next, EditQueryField, QueryBlockBtn, RecentQueryClick,
           HashRowClick, QueryBlockDetail, BlockDetailFailed, vars
  <2> QED
    BY <1>1, <2>1, <2>2 DEF IInv, DetailRemembered
<1> QED
  BY <1>2, <1>3

LEMMA InvInit == Init => IInv
<1> SUFFICES ASSUME Init PROVE IInv
  OBVIOUS
<1>1. TypeOK
  BY TypeInit
<1>2. Distinct(recent_query) /\ DetailRemembered
  BY EmptySeq DEF Init, Distinct, DetailRemembered
<1> QED
  BY <1>1, <1>2 DEF IInv

THEOREM InvThm == Spec => []IInv
BY InvInit, InvStep, PTL DEF Spec

\* RecentDistinct: recent_query never holds a hash twice, whatever order the
\* Dev_blockDetail answers arrive in.
THEOREM RecentDistinctThm == Spec => []RecentDistinct
<1>1. IInv => RecentDistinct
  BY DEF IInv, Distinct, RecentDistinct
<1> QED
  BY <1>1, InvThm, PTL

\* DetailRemembered: the block whose details are shown is always in the
\* recent-query list.
THEOREM DetailRememberedThm == Spec => []DetailRemembered
<1>1. IInv => DetailRemembered
  BY DEF IInv
<1> QED
  BY <1>1, InvThm, PTL

-----------------------------------------------------------------------------
(* The detail panel of a query made with nothing outstanding.             *)

\* Every request in flight carries the hash h.
AllFor(s, h) == \A k \in 1..Len(s) : s[k] = h

\* Removing the answered request keeps every other entry, in order.
LEMMA RemoveAtEntries ==
    ASSUME NEW S, NEW s \in Seq(S), NEW i \in 1..Len(s), NEW k \in 1..Len(s) - 1
    PROVE  RemoveAt(s, i)[k] = IF k < i THEN s[k] ELSE s[k + 1]
<1> DEFINE s1 == SubSeq(s, 1, i - 1)
           s2 == SubSeq(s, i + 1, Len(s))
<1>1. /\ s1 \in Seq(S) /\ Len(s1) = i - 1
      /\ \A j \in 1..i - 1 : s1[j] = s[j]
  BY SubSeqProperties
<1>2. /\ s2 \in Seq(S) /\ Len(s2) = Len(s) - i
      /\ \A j \in 1..Len(s) - i : s2[j] = s[i + j]
  BY SubSeqProperties
<1>3. RemoveAt(s, i) = s1 \o s2
  BY DEF RemoveAt
<1> HIDE DEF s1, s2
<1>4. \A j \in 1..Len(s1) + Len(s2) :
         (s1 \o s2)[j] = IF j <= Len(s1) THEN s1[j] ELSE s2[j - Len(s1)]
  BY <1>1, <1>2, ConcatProperties
<1>5. CASE k < i
  BY <1>5, <1>1, <1>2, <1>3, <1>4
<1>6. CASE k >= i
  <2>1. (s1 \o s2)[k] = s2[k - (i - 1)]
    BY <1>6, <1>1, <1>2, <1>4
  <2>2. s2[k - (i - 1)] = s[k + 1]
    BY <1>6, <1>2
  <2>3. RemoveAt(s, i)[k] = s[k + 1]
    BY <2>1, <2>2, <1>3
  <2> QED
    BY <1>6, <2>3
<1> QED
  BY <1>5, <1>6

\* A request list that carries only h still does so after an answer.
LEMMA RemoveAtAllFor ==
    ASSUME NEW S, NEW s \in Seq(S), NEW i \in 1..Len(s), NEW h, AllFor(s, h)
    PROVE  AllFor(RemoveAt(s, i), h)
<1> SUFFICES ASSUME NEW k \in 1..Len(RemoveAt(s, i)) PROVE RemoveAt(s, i)[k] = h
  BY DEF AllFor
<1>1. k \in 1..Len(s) - 1 /\ k + 1 \in 1..Len(s)
  BY RemoveAtType
<1>2. RemoveAt(s, i)[k] = IF k < i THEN s[k] ELSE s[k + 1]
  BY <1>1, RemoveAtEntries
<1>3. s[k] = h /\ s[k + 1] = h
  BY <1>1 DEF AllFor
<1> QED
  BY <1>2, <1>3

\* The inductive invariant: an answer in flight for another block would
\* break DetailShowsLastQuery, and a query that did not overlap has none.
PInv ==
    /\ TypeOK
    /\ DetailShowsLastQuery
    /\ ~overlapped => AllFor(pending, lastQueried)

\* queryBlockDetail(h) hides the panel; with nothing outstanding its own
\* request is the only one in flight.
LEMMA QueryPInv ==
    ASSUME PInv, NEW h \in Hashes, QueryBlockDetail(h)
    PROVE  DetailShowsLastQuery' /\ (~overlapped' => AllFor(pending', lastQueried'))
<1>1. CASE overlapped'
  BY <1>1 DEF DetailShowsLastQuery
<1>2. CASE ~overlapped'
  <2>1. pending = <<>>
    BY <1>2, Zenon DEF QueryBlockDetail
  <2>2. pending' = <<h>> /\ lastQueried' = h /\ detail' = NoDetail
    BY <2>1 DEF QueryBlockDetail
  <2> QED
    BY <2>2 DEF DetailShowsLastQuery, AllFor
<1> QED
  BY <1>1, <1>2

\* An answer shows, when the query did not overlap, the block last
\* queried, and leaves only requests for it in flight.
LEMMA AnswerPInv ==
    ASSUME PInv, NEW i \in 1..Len(pending),
           BlockDetailSuccess(i) \/ BlockDetailFailed(i)
    PROVE  DetailShowsLastQuery' /\ (~overlapped' => AllFor(pending', lastQueried'))
<1>1. /\ pending' = RemoveAt(pending, i)
      /\ UNCHANGED <<lastQueried, overlapped>>
      /\ detail' \in {detail, pending[i]}
  BY DEF BlockDetailSuccess, BlockDetailFailed
<1>2. CASE overlapped
  BY <1>1, <1>2 DEF DetailShowsLastQuery
<1>3. CASE ~overlapped
  <2>1. AllFor(pending, lastQueried)
    BY <1>3 DEF PInv
  <2>2. pending[i] = lastQueried
    BY <2>1 DEF AllFor
  <2>3. AllFor(pending', lastQueried')
    BY <1>1, <2>1, RemoveAtAllFor DEF PInv, TypeOK
  <2> QED
    BY <1>1, <1>3, <2>2, <2>3 DEF PInv, DetailShowsLastQuery
<1> QED
  BY <1>2, <1>3

LEMMA PInvStep == PInv /\ [Next]_vars => PInv'
<1> SUFFICES ASSUME PInv, [Next]_vars PROVE PInv'
  OBVIOUS
<1>1. TypeOK'
  BY TypeStep DEF PInv
<1>2. CASE \E h \in Hashes \cup {Empty} : EditQueryField(h)
  BY <1>1, <1>2 DEF EditQueryField, PInv, DetailShowsLastQuery
<1>3. CASE QueryBlockBtn
  <2>1. query_block_hash \in Hashes
    BY <1>3 DEF QueryBlockBtn, PInv, TypeOK
  <2> QED
    BY <1>1, <1>3, <2>1, QueryPInv DEF QueryBlockBtn, PInv
<1>4. CASE RecentQueryClick
  <2>1. PICK h \in Elems(recent_query) : QueryBlockDetail(h)
    BY <1>4 DEF RecentQueryClick
  <2>2. h \in Hashes
    BY DEF Elems, PInv, TypeOK
  <2> QED
    BY <1>1, <2>1, <2>2, QueryPInv DEF PInv
<1>5. CASE HashRowClick
  BY <1>1, <1>5, QueryPInv DEF HashRowClick, PInv
<1>6. CASE \E i \in 1..Len(pending) : BlockDetailSuccess(i) \/ BlockDetailFailed(i)
  BY <1>1, <1>6, AnswerPInv DEF PInv
<1>7. CASE UNCHANGED vars
  BY <1>1, <1>7 DEF vars, PInv, DetailShowsLastQuery
<1> QED
  BY <1>2, <1>3, <1>4, <1>5, <1>6, <1>7 DEF Next

\* DetailShowsLastQuery: when the user waits for each answer before the
\* next query, #block_detail_result never shows a block other than the one
\* last queried, for every set of hashes and every number of queries in
\* flight (tas-ext.js lines 54, 67).
THEOREM DetailShowsLastQueryThm == Spec => []DetailShowsLastQuery
<1>1. Init => PInv
  BY TypeInit DEF Init, PInv, DetailShowsLastQuery, AllFor
<1>2. PInv /\ [Next]_vars => PInv'
  BY PInvStep
<1>3. PInv => DetailShowsLastQuery
  BY DEF PInv
<1> QED
  BY <1>1, <1>2, <1>3, PTL DEF Spec

-----------------------------------------------------------------------------
(* Refinement of RecentQueryAbstract.                                      *)

\* A "success" answer is a Remember step of the abstract list, or leaves
\* its set of hashes alone: the full list forgets exactly its oldest hash.
LEMMA SuccessRefines ==
    ASSUME IInv, NEW i \in 1..Len(pending), BlockDetailSuccess(i)
    PROVE  [\E h \in Hashes : Abstract!Remember(h)]_(Elems(recent_query))
<1> DEFINE h == pending[i]
           s == recent_query
<1>1. /\ h \in Hashes /\ s \in Seq(Hashes) /\ Len(s) <= RecentCap
      /\ Distinct(s)
  BY DEF IInv, TypeOK
<1>2. recent_query' = AddRecentQuery(s, h)
  BY DEF BlockDetailSuccess
<1>3. IsFiniteSet(Elems(s)) /\ Cardinality(Elems(s)) = Len(s)
  BY <1>1, DistinctCard
<1>7. Abstract!Cardinality(Elems(s)) = Len(s)
  <2>1. Abstract!Cardinality(Elems(s)) = Cardinality(Elems(s))
    BY DEF Abstract!Cardinality, Cardinality
  <2> QED
    BY <1>3, <2>1
<1>8. Elems(recent_query)' = Elems(recent_query')
  OBVIOUS
<1>4. CASE h \in Elems(s)
  <2>1. recent_query' = s
    BY <1>1, <1>2, <1>4, AddRecentQueryFacts
  <2> QED
    BY <2>1
<1>5. CASE h \notin Elems(s) /\ Len(s) < RecentCap
  <2>1. Elems(recent_query') = Elems(s) \cup {h}
    BY <1>1, <1>2, <1>5, AddRecentQueryFacts
  <2>2. Abstract!Remember(h)
    BY <1>7, <1>8, <1>5, <2>1 DEF Abstract!Remember
  <2> QED
    BY <1>1, <2>2
<1>6. CASE h \notin Elems(s) /\ Len(s) = RecentCap
  <2>1. Elems(recent_query') = (Elems(s) \ {s[1]}) \cup {h}
    BY <1>1, <1>2, <1>6, AddRecentQueryFacts
  <2>2. s[1] \in Elems(s)
    BY <1>1, <1>6 DEF Elems
  <2>3. Abstract!Remember(h)
    BY <1>7, <1>8, <1>6, <2>1, <2>2 DEF Abstract!Remember
  <2> QED
    BY <1>1, <2>3
<1> QED
  BY <1>1, <1>4, <1>5, <1>6

\* Every step of the detail query is a step of the abstract list or leaves
\* the set of hashes in recent_query unchanged.
LEMMA RefineStep ==
    IInv /\ [Next]_vars => [\E h \in Hashes : Abstract!Remember(h)]_(Elems(recent_query))
<1> SUFFICES ASSUME IInv, [Next]_vars
             PROVE  [\E h \in Hashes : Abstract!Remember(h)]_(Elems(recent_query))
  OBVIOUS
<1>1. CASE \E i \in 1..Len(pending) : BlockDetailSuccess(i)
  BY <1>1, SuccessRefines
<1>2. CASE ~(\E i \in 1..Len(pending) : BlockDetailSuccess(i))
  <2>1. UNCHANGED recent_query
    BY <1>2 DEF Next, EditQueryField, QueryBlockBtn, RecentQueryClick,
           HashRowClick, QueryBlockDetail, BlockDetailFailed, vars
  <2> QED
    BY <2>1
<1> QED
  BY <1>1, <1>2

\* RecentRefines: the recent-query list, read as a set, behaves as
\* RecentQueryAbstract for every list bound and every set of hashes: at
\* most RecentCap hashes, and a hash leaves only to make room for a new one.
THEOREM RecentRefinesThm == Spec => RecentRefines
<1>1. Init => Elems(recent_query) = {}
  BY DEF Init, Elems
<1>2. IInv /\ [Next]_vars => [\E h \in Hashes : Abstract!Remember(h)]_(Elems(recent_query))
  BY RefineStep
<1> QED
  BY <1>1, <1>2, InvThm, PTL DEF Spec, RecentRefines, Abstract!Spec
=============================================================================
