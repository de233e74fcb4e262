----------------------------- MODULE MCAccounts -----------------------------
(* Model values for Accounts: links and transactions are interchangeable.    *)
EXTENDS Accounts, TLC

Symmetry == Permutations(Links) \cup Permutations(Txns)

\* Bound: operators work beside registrations, sign-ins and one link, and several
\* links are followed where no operator changes anything.
OneSceneAtATime ==
    \/ Cardinality({l \in Links : links[l].issued}) <= 1
    \/ /\ \A p \in Txns : req[p].op \notin Admin
       /\ Admins = {Operator}
       /\ ~operators
       /\ \A u \in Users : users[u].exists => users[u].active
=============================================================================
