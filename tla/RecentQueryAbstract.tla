------------------------ MODULE RecentQueryAbstract ------------------------
(***************************************************************************)
(* What the recent-query list of tas-ext.js promises, as a set: it holds   *)
(* at most RecentCap hashes, remembering a hash adds it, and a hash is     *)
(* forgotten only to make room for a new one when the list is full.        *)
(***************************************************************************)
EXTENDS Naturals, FiniteSets

CONSTANTS Hashes, RecentCap

VARIABLE recent

\* Remembering h: nothing changes if h is known; otherwise h is added, and
\* when the list is full one known hash, any of them, makes room for it.
Remember(h) ==
    \/ h \in recent /\ UNCHANGED recent
    \/ /\ h \notin recent
       /\ Cardinality(recent) < RecentCap
       /\ recent' = recent \cup {h}
    \/ /\ h \notin recent
       /\ Cardinality(recent) = RecentCap
       /\ \E x \in recent : recent' = (recent \ {x}) \cup {h}

Spec == recent = {} /\ [][\E h \in Hashes : Remember(h)]_recent
=============================================================================
