------------------------ MODULE MCAccessGovernance ------------------------
(***************************************************************************)
(* Instances of AccessGovernance for TLC.                                  *)
(***************************************************************************)
EXTENDS AccessGovernance, FiniteSets, TLC

\* Rows and handlers of one kind are interchangeable: no action or property
\* names one of them.
Symmetry == Permutations(Identities) \cup Permutations(Requests)
              \cup Permutations(Admins) \cup Permutations(Syncers)

AtMostOne(S) == Cardinality(S) <= 1

\* Two administrators, two requests and one sync over rows that are created
\* once and a Google that only these handlers change ...
DecisionsOverlap ==
    /\ edits = 0
    /\ \A i \in Identities : identity[i].id <= 1
    /\ \A g \in Groups : group[g].id <= 1
    /\ AtMostOne({s \in Syncers : sync[s] # Idle})

\* ... or two syncs and one decision, over rows that are created twice and a
\* Google that changes once.
SyncsOverlap ==
    /\ AtMostOne({q \in Requests : request[q] # NoRow} \cup {v \in Reviews : review[v] # NoRow})
    /\ AtMostOne({a \in Admins : call[a] # Idle})

Bounds == DecisionsOverlap \/ SyncsOverlap
===========================================================================
