-------------------------- MODULE ProvenanceGraph --------------------------
(***************************************************************************)
(* The derivation graph of include/stateprovenance/graph.hpp: a directed   *)
(* graph over state identities that the class keeps twice, once as the     *)
(* parents of every node and once as its children.                         *)
(*                                                                         *)
(* A graph is a record [nodes, parents, children] in which parents and     *)
(* children are functions on nodes.  The null identity is 0, every real    *)
(* one is a positive number, and the containers of the class (std::set,    *)
(* std::map) visit identities in increasing order.                         *)
(***************************************************************************)
EXTENDS Naturals

EmptyGraph == [nodes    |-> {},
               parents  |-> [n \in {} |-> {}],
               children |-> [n \in {} |-> {}]]

AddNode(g, n) ==
    IF n \in g.nodes
    THEN g
    ELSE [nodes    |-> g.nodes \cup {n},
          parents  |-> [x \in g.nodes \cup {n} |->
                            IF x = n THEN {} ELSE g.parents[x]],
          children |-> [x \in g.nodes \cup {n} |->
                            IF x = n THEN {} ELSE g.children[x]]]

----------------------------------------------------------------------------
(* Transitive closure.  The class walks the adjacency lists with an explicit *)
(* stack; the set it collects is the least one that holds the direct         *)
(* neighbours and is closed under the adjacency.                             *)

ClosedUnder(adjacent, S) == \A x \in S : adjacent[x] \subseteq S

Closure(adjacent, n) ==
    {m \in DOMAIN adjacent :
        \A S \in SUBSET DOMAIN adjacent :
            (adjacent[n] \subseteq S /\ ClosedUnder(adjacent, S)) => m \in S}

(* Fault: the walk stops at the direct parents. *)
AncestorsOneLevel(g, n) == IF n \in g.nodes THEN g.parents[n] ELSE {}

Ancestors(g, n)   == IF n \in g.nodes THEN Closure(g.parents, n) ELSE {}
Descendants(g, n) == IF n \in g.nodes THEN Closure(g.children, n) ELSE {}

Roots(g) == {n \in g.nodes : g.parents[n] = {}}

SharedAncestors(g, a, b) == Ancestors(g, a) \cap Ancestors(g, b)

----------------------------------------------------------------------------
(* Arcs.  add_arc throws, and the graph stays as it was, when an endpoint is *)
(* null or unknown, the arc is a loop or a duplicate, or the child already   *)
(* reaches the parent.                                                       *)

WouldCreateCycle(g, parent, child) == parent \in Descendants(g, child)

ArcRefused(g, parent, child) ==
    \/ 0 \in {parent, child}
    \/ parent = child
    \/ ~ ({parent, child} \subseteq g.nodes)
    \/ child \in g.children[parent]
    \/ WouldCreateCycle(g, parent, child)

(* The arcs insert_validated draws from the sorted set ps of parents to one  *)
(* child: it stops at the first one add_arc refuses.  Arcs into the child    *)
(* do not change what the child reaches, so whether an arc is refused does   *)
(* not depend on the ones drawn before it.                                   *)

RefusedParents(g, ps, child) == {p \in ps : ArcRefused(g, p, child)}

LinkedParents(g, ps, child) ==
    {p \in ps : \A q \in RefusedParents(g, ps, child) : p < q}

(* Fault: the arc is entered among the parents of the child only. *)
LinkParentsOneWay(g, ps, child) ==
    [g EXCEPT !.parents[child] = @ \cup LinkedParents(g, ps, child)]

LinkParents(g, ps, child) ==
    LET linked == LinkedParents(g, ps, child)
    IN  [nodes    |-> g.nodes,
         parents  |-> [x \in g.nodes |->
                          IF x = child THEN g.parents[x] \cup linked
                                       ELSE g.parents[x]],
         children |-> [x \in g.nodes |->
                          IF x \in linked THEN g.children[x] \cup {child}
                                          ELSE g.children[x]]]

----------------------------------------------------------------------------
(* The graph is acyclic exactly when every non-empty set of nodes has one    *)
(* with no parent in the set (the graphs here are finite); it is then that   *)
(* topological_order (Kahn's algorithm) reaches every node.                  *)

WellFounded(nodes, parents) ==
    \A S \in SUBSET nodes :
        S # {} => \E s \in S : parents[s] \cap S = {}
=============================================================================
