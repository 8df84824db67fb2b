-------------------------- MODULE DependencyGraph --------------------------
(***************************************************************************)
(* What is asked of the dependencies between documents: the recursive      *)
(* query of packages/core/src/search/crossref.ts, the graphs drawn from it *)
(* (packages/core/src/graph/graph-model.ts, lib/data/graph.ts) and the     *)
(* cross-references of a document.  A dependency is a pair of documents;   *)
(* its kind is left out.                                                   *)
(***************************************************************************)
EXTENDS Naturals, Sequences, FiniteSets, FiniteSetsExt

CONSTANT HopLimit       \* the deepest the query goes, 6 unless the caller says

ASSUME HopAssumption == HopLimit \in Nat \ {0}

\* The query follows dependencies or, for what refers to a document, goes against them.
Along(deps, direction) ==
    IF direction = "outgoing" THEN deps ELSE {<<e[2], e[1]>> : e \in deps}

Elems(path) == {path[i] : i \in 1..Len(path)}

\* The members of a list that are in a set, in their order.
Only(list, set) ==
    LET places == {i \in 1..Len(list) : list[i] \in set}
        rank(i) == Cardinality({j \in places : j <= i})
    IN [n \in 1..Cardinality(places) |-> list[CHOOSE i \in places : rank(i) = n]]

Orderings(S) ==
    {s \in [1..Cardinality(S) -> S] : \A i, j \in 1..Cardinality(S) : i # j => s[i] # s[j]}

\* The recursive part of dependencyClosure: paths from the document that meet no document
\* twice, and are at most so many steps long.  The first step is not compared.
Paths(steps, from, hops) ==
    LET Grown[n \in 1..hops] ==
          IF n = 1 THEN {<<from, e[2]>> : e \in {f \in steps : f[1] = from}}
          ELSE LET longest == {w \in Grown[n - 1] : Len(w) = n} IN
               Grown[n - 1] \cup
               UNION {{Append(w, e[2]) : e \in {f \in steps : f[1] = w[n] /\ f[2] \notin Elems(w)}}
                         : w \in longest}
    IN Grown[hops]

\* The row of a path: its last step.
StepRow(w) == [parent |-> w[Len(w) - 1], doc |-> w[Len(w)], depth |-> Len(w) - 1]

\* dependencyClosure: a row per step at each depth it is taken at.
Closure(deps, from, direction, hops) ==
    {StepRow(w) : w \in Paths(Along(deps, direction), from, hops)}

\* reachableDocIds
ReachableDocIds(rows) == {r.doc : r \in rows}

\* shallowest (crossref/route.ts), depthById (lib/data/export.ts): the least depth of a document.
Shallowest(rows, d) == Min({r.depth : r \in {s \in rows : s.doc = d}})

\* crossref/route.ts: what a document depends on, or what depends on it, with its distance.
CrossReferences(deps, seed, direction, allowed) ==
    LET rows == Closure(deps, seed, direction, HopLimit)
    IN [d \in ReachableDocIds(rows) \cap allowed |-> Shallowest(rows, d)]

\* buildGraphModel: the dependencies whose two ends are drawn, without loops.
Drawn(docs, deps) == {e \in deps : e[1] \in docs /\ e[2] \in docs /\ e[1] # e[2]}

\* buildNeighborhoodModel and its caller: the distance of every document in reach, the
\* document itself being at 0 (a loop does not move it), and the steps that were taken.
Neighborhood(deps, seed, allowed, hops) ==
    LET outgoing == Closure(deps, seed, "outgoing", hops)
        incoming == Closure(deps, seed, "incoming", hops)
        rows == outgoing \cup incoming
        near == ({seed} \cup ReachableDocIds(rows)) \cap allowed
        taken == {<<r.parent, r.doc>> : r \in outgoing} \cup
                 {<<r.doc, r.parent>> : r \in incoming}
    IN [depth |-> [d \in near |-> IF d = seed THEN 0 ELSE Shallowest(rows, d)],
        links |-> Drawn(near, taken)]

-----------------------------------------------------------------------------
\* The reference: what is within so many steps of a document, found a step at a time
\* without regard to paths, and how far a document is.
Within(steps, from, hops) ==
    LET Ball[n \in 0..hops] ==
          IF n = 0 THEN {from}
          ELSE Ball[n - 1] \cup {e[2] : e \in {f \in steps : f[1] \in Ball[n - 1]}}
    IN Ball[hops]

Distance(steps, from, d) ==
    Min({n \in 0..HopLimit : d \in Within(steps, from, n)})
=============================================================================
