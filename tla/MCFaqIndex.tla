----------------------------- MODULE MCFaqIndex -----------------------------
(* Small instances of FaqIndex. *)
EXTENDS FaqIndex

CONSTANTS o1, o2, f1, f2, p1

TwoOracle == {o1, o2}
TwoFile == {f1, f2}
SomePush == {p1, f1}

\* The documents s, each in the version v.
Of(s, v, source) ==
    [i \in Id |-> IF i \in s THEN [content |-> v, source |-> source] ELSE Absent]

\* A table that one answer shows, and one that it cannot show, with a row
\* edited and a row added.
MCTables == {Of({o1}, 1, "oracle"), Of({o1, o2}, 2, "oracle")}
MCFileSets == {Of({f1}, 1, "file"), Of({f2}, 1, "file")}
\* A body with a document of its own and one under the id and the source of
\* the files, and a body under the source of the fetches; then two bodies for
\* two pushes.
MCPushes == {Over(Of({p1}, 1, "push"), Of({f1}, 2, "file")), Of({p1}, 1, "oracle")}
MCTwoPushes == {Of({p1}, 1, "push"), Of({f1}, 1, "push")}

\* Bounds: a larger table and a name of its own are tried with the first image
\* only; a leftover collection only with the table that one answer shows, and a
\* backend whose `total` counts the rows of the answer only with the other one.
MCInit ==
    /\ Init
    /\ Has(oracle) = {o1, o2} \/ name = "override" => Has(files) = {f1}
    /\ counted = "page" => Has(oracle) = {o1, o2}
    /\ colls[Legacy] # None => Has(oracle) = {o1}

MCSpec == MCInit /\ [][Next]_vars /\ Fairness
=============================================================================
