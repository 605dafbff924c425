-------------------------- MODULE MCDocumentSources --------------------------
(* DocumentSources on small sets, for TLC. *)
EXTENDS DocumentSources, TLC

CONSTANTS
    Here,       \* the requests that reach one pod ...
    ThisPod     \* ... this one; the others reach another

Symmetry == Permutations(Users) \union Permutations(Names) \union Permutations(Uploads)
            \union Permutations(Deletes)

PodOf(x) == IF x \in Uploads THEN upload[x].pod ELSE
            IF x \in Deletes THEN delete[x].pod ELSE choice[x].pod

\* Where a request may be served: with the pods chosen beforehand, requests of one pod
\* and of two still meet, and the states are a fraction of those with every choice.
Routed == \A x \in Others :
    PodOf(x) \in {None} \union IF x \in Here THEN {ThisPod} ELSE Pods \ {ThisPod}

RoutedSpec == Init /\ [][Next /\ Routed']_vars /\ Fairness
==============================================================================
