-------------------------- MODULE ArchitecturePlan --------------------------
(***************************************************************************)
(* What a generated architecture becomes before documents are made of it:  *)
(* buildMaterializationPlan (packages/core/src/generation/                 *)
(* materialize-plan.ts).  The nodes come from a model and may name the     *)
(* same reference twice, parents that are not there, and parents in a      *)
(* circle.  Titles, summaries and blocks are left out, and of a type and a *)
(* title there is whether they are valid.                                  *)
(***************************************************************************)
EXTENDS Naturals, Sequences, FiniteSets

CONSTANTS
    NodeRefs, NoParent,
    MaxNodes,       \* bound: nodes of an architecture
    Wished           \* the edges of the architecture

ASSUME PlanAssumption ==
    NoParent \notin NodeRefs /\ MaxNodes \in Nat /\ Wished \in Seq(NodeRefs \X NodeRefs)

Nodes == [ref : NodeRefs, parent : NodeRefs \cup {NoParent}, valid : BOOLEAN]

VARIABLES
    given,      \* the nodes, as the model gave them
    plan        \* the plan of them: documents in order, and edges

planVars == <<given, plan>>

NoPlan == [built |-> FALSE, documents |-> <<>>, edges |-> {}]
PlanInit == given \in UNION {[1..n -> Nodes] : n \in 0..MaxNodes} /\ plan = NoPlan

-----------------------------------------------------------------------------
\* byRef: the first valid node of every reference.
Distinct(nodes) ==
    {i \in DOMAIN nodes : nodes[i].valid /\
        \A j \in DOMAIN nodes : j < i => ~(nodes[j].valid /\ nodes[j].ref = nodes[i].ref)}

\* The parent a node is put under, if there is such a node.
ParentIn(nodes, i) ==
    LET p == nodes[i].parent IN
    IF p # nodes[i].ref /\ \E j \in Distinct(nodes) : nodes[j].ref = p THEN p ELSE NoParent

NodeOf(nodes, r) == CHOOSE i \in Distinct(nodes) : nodes[i].ref = r

\* What is being visited, each after its parent, with the parent of the first of them if it
\* is not out yet and not being visited itself.
Climb(nodes, line, out) ==
    LET p == ParentIn(nodes, line[1]) IN
    IF p = NoParent \/ p \in out \/ p \in {nodes[line[k]].ref : k \in 1..Len(line)} THEN line
    ELSE <<NodeOf(nodes, p)>> \o line

\* visit: a node that is not out yet, after its parent.
Visit(nodes, i, out) ==
    LET Line[n \in 0..Len(nodes)] == IF n = 0 THEN <<i>> ELSE Climb(nodes, Line[n - 1], out)
    IN IF nodes[i].ref \in out THEN <<>> ELSE Line[Len(nodes)]

\* ordered
Ordered(nodes) ==
    LET First[n \in 0..Len(nodes)] ==
          IF n = 0 THEN <<>>
          ELSE IF n \notin Distinct(nodes) THEN First[n - 1]
          ELSE First[n - 1] \o
               Visit(nodes, n, {nodes[First[n - 1][m]].ref : m \in 1..Len(First[n - 1])})
    IN First[Len(nodes)]

\* The edges between documents of the plan, once each.
EdgesKept(documents) ==
    LET known == {documents[n].ref : n \in 1..Len(documents)} IN
    {e \in {Wished[n] : n \in 1..Len(Wished)} : e[1] \in known /\ e[2] \in known /\ e[1] # e[2]}

BuildPlan ==
    /\ ~plan.built
    /\ LET order == Ordered(given)
           documents == [n \in 1..Len(order) |-> [ref |-> given[order[n]].ref, node |-> order[n],
                                                  parent |-> ParentIn(given, order[n])]]
       IN plan' = [built |-> TRUE, documents |-> documents, edges |-> EdgesKept(documents)]
    /\ UNCHANGED given

PlanNext == BuildPlan
PlanSpec == PlanInit /\ [][PlanNext]_planVars

-----------------------------------------------------------------------------
\* A model that says a thing twice, or says what cannot be, is met by a plan that makes
\* each document once, as it was first said, and joins only documents it makes.
EachOnce ==
    plan.built =>
        LET documents == plan.documents
            refs == {documents[n].ref : n \in 1..Len(documents)} IN
        /\ refs = {given[i].ref : i \in {j \in DOMAIN given : given[j].valid}}
        /\ Cardinality(refs) = Len(documents)
        /\ \A n \in 1..Len(documents) : \A i \in 1..(documents[n].node - 1) :
              given[i].valid => given[i].ref # documents[n].ref
        /\ \A e \in plan.edges : e[1] \in refs /\ e[2] \in refs

\* A document follows its parent, so that the parent exists when it is made.  Where parents
\* form a circle one of its documents, and no other, comes before its own.
ParentsFirst ==
    plan.built =>
        LET documents == plan.documents
            refs == {documents[n].ref : n \in 1..Len(documents)}
            Place(r) == CHOOSE n \in 1..Len(documents) : documents[n].ref = r
            Closed(S) == \A n \in 1..Len(documents) :
                documents[n].ref \in S /\ documents[n].parent # NoParent
                   => documents[n].parent \in S
            Above(n) == {r \in refs : \A S \in SUBSET refs :
                             documents[n].parent \in S /\ Closed(S) => r \in S}
            early == {n \in 1..Len(documents) : /\ documents[n].parent # NoParent
                                                /\ Place(documents[n].parent) > n}
        IN /\ \A n \in early : documents[n].ref \in Above(n)
           /\ \A m, n \in early : m # n => documents[m].ref \notin Above(n)
=============================================================================
