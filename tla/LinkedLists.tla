----------------------------- MODULE LinkedLists -----------------------------
(***************************************************************************)
(* Lists of nodes linked by a next field that ends in null, as the stacks  *)
(* and the lists of the repository build them.                             *)
(***************************************************************************)
EXTENDS Naturals, Sequences, FiniteSets

\* The nodes reached from n along next, in order, k of them at most.
Reached(n, next, null, k) ==
    LET list[i \in Nat] ==
            IF i = 0 THEN <<>>
            ELSE LET l == list[i - 1]
                     m == IF l = <<>> THEN n ELSE next[l[Len(l)]]
                 IN  IF m = null THEN l ELSE Append(l, m)
    IN  list[k]

\* The nodes c are linked from n down to null, each there once.
Chain(c, n, next, null) ==
    /\ n = IF c = <<>> THEN null ELSE c[1]
    /\ \A i \in 1 .. Len(c) : next[c[i]] = IF i = Len(c) THEN null ELSE c[i + 1]
    /\ \A i, j \in 1 .. Len(c) : c[i] = c[j] => i = j

Elements(c) == {c[i] : i \in 1 .. Len(c)}

\* The list of nodes that starts at n, and the nodes on it.
ListOf(n, next, null, Nodes) == Reached(n, next, null, Cardinality(Nodes))
OnList(n, next, null, Nodes) == Elements(ListOf(n, next, null, Nodes))

\* From n the links lead to null, through nodes.
IsLinked(n, next, null, Nodes) ==
    /\ ListOf(n, next, null, Nodes) \in Seq(Nodes)
    /\ Chain(ListOf(n, next, null, Nodes), n, next, null)
=============================================================================
