------------------------ MODULE QueryPanelAbstract ------------------------
(***************************************************************************)
(* What one detail panel of tas-ext.js promises, whatever order its        *)
(* answers arrive in: a query writes its hash into the input field, hides  *)
(* the panel and asks for that hash; the panel then shows only a hash that *)
(* was asked for and not yet answered, and each answer, shown or not,      *)
(* settles one request for its hash (another request for the same hash    *)
(* may still be out, so the hash may stay asked for).                      *)
(***************************************************************************)
CONSTANTS Hashes, Empty, Hidden

VARIABLES
    field,   \* the text of the input field
    panel,   \* the hash whose data the panel shows, or Hidden
    asked    \* the hashes with a request awaiting its answer

pvars == <<field, panel, asked>>

\* One request for h is answered.
Settle(h) == asked' \in {asked, asked \ {h}}

\* A query of h.
Query(h) ==
    /\ field' = h
    /\ panel' = Hidden
    /\ asked' = asked \cup {h}

\* The user types into the field.
Edit(h) ==
    /\ field' = h
    /\ UNCHANGED <<panel, asked>>

\* An answer for h that the panel shows.
Show(h) ==
    /\ h \in asked
    /\ panel' = h
    /\ Settle(h)
    /\ UNCHANGED field

\* An answer for h that changes nothing on screen.
Fail(h) ==
    /\ h \in asked
    /\ Settle(h)
    /\ UNCHANGED <<field, panel>>

Init ==
    /\ field = Empty
    /\ panel = Hidden
    /\ asked = {}

Next ==
    \/ \E h \in Hashes : Query(h) \/ Show(h) \/ Fail(h)
    \/ \E h \in Hashes \cup {Empty} : Edit(h)

Spec == Init /\ [][Next]_pvars
=============================================================================
