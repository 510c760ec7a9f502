---------------------------- MODULE GraphSearch ----------------------------
(***************************************************************************)
(* The loops behind the operators of ProvenanceGraph, one step for every   *)
(* turn of a loop: the walks of graph.hpp (ancestors, descendants, the     *)
(* search of would_create_cycle), Kahn's algorithm as topological_order    *)
(* and records_in_topo_order of store.hpp run it, and the breadth-first    *)
(* propagation of invalidate.hpp with the causal chains it leaves behind.  *)
(*                                                                         *)
(* A behaviour is one call.  The graph does not change during it.  The     *)
(* sorted containers of the code visit a set in increasing order, so an    *)
(* inner loop takes the least of what it has left.                         *)
(***************************************************************************)
EXTENDS ProvenanceGraph, Sequences, FiniteSets

CONSTANTS
    Graphs,         \* graphs the class may hold: add_arc keeps them acyclic
    Snapshots       \* parents of each record of a snapshot file, which may
                    \*   be cyclic and name records the file does not hold

WellFormed(g) ==
    /\ g.nodes \subseteq Nat \ {0} /\ IsFiniteSet(g.nodes)
    /\ g.parents \in [g.nodes -> SUBSET g.nodes]
    /\ g.children \in [g.nodes -> SUBSET g.nodes]

ASSUME SearchAssumption ==
    /\ \A g \in Graphs : WellFormed(g)
    /\ \A p \in Snapshots :
          /\ DOMAIN p \subseteq Nat \ {0} /\ IsFiniteSet(DOMAIN p)
          /\ \A n \in DOMAIN p : IsFiniteSet(p[n])

VARIABLES
    searched,      \* what is searched
    task,       \* the call and its arguments
    list,       \* stack of a walk, queue of the propagation, order so far
    todo,       \* what the inner loop has left of the neighbours of cur
    cur,        \* the node whose neighbours are visited, 0 before the first
    seen,       \* out of a walk, visited of the cycle search
    found,      \* whether the cycle search has reached the parent
    head,       \* position in the queue of the propagation
    origin,     \* predecessor and root_of of the nodes reached
    inDegree,   \* in_deg of Kahn's algorithm
    ready       \* its nodes of in-degree zero

walkVars   == <<list, todo, seen>>
otherVars  == <<cur, found, head, origin, inDegree, ready>>
searchVars == <<searched, task, walkVars, otherVars>>

Least(S) == CHOOSE x \in S : \A y \in S : x <= y

Top      == list[Len(list)]
Popped   == SubSeq(list, 1, Len(list) - 1)
NextTodo == todo \ {Least(todo)}

----------------------------------------------------------------------------
(* ancestors(from), descendants(from) *)

Walks == {"ancestors", "descendants"}

Adjacent == IF task.op = "ancestors" THEN searched.parents ELSE searched.children

StartWalk ==
    /\ \E op \in Walks, n \in searched.nodes : task = [op |-> op, from |-> n]
    /\ list = <<>>
    /\ todo = Adjacent[task.from]

(* Fault: a node counts as seen when it is pushed, and is then not expanded. *)
WalkPushMarks ==
    /\ task.op \in Walks
    /\ todo # {}
    /\ list' = Append(list, Least(todo))
    /\ seen' = seen \cup {Least(todo)}
    /\ todo' = NextTodo
    /\ UNCHANGED <<searched, task, otherVars>>

WalkPush ==
    /\ task.op \in Walks
    /\ todo # {}
    /\ list' = Append(list, Least(todo))
    /\ todo' = NextTodo
    /\ UNCHANGED <<searched, task, seen, otherVars>>

(* Fault: only what was not seen before is popped. *)
WalkPopKept ==
    /\ task.op \in Walks
    /\ todo = {} /\ list # <<>>
    /\ IF Top \in seen
       THEN UNCHANGED <<list, todo, seen>>
       ELSE /\ list' = Popped
            /\ seen' = seen \cup {Top}
            /\ todo' = Adjacent[Top]
    /\ UNCHANGED <<searched, task, otherVars>>

WalkPop ==
    /\ task.op \in Walks
    /\ todo = {} /\ list # <<>>
    /\ list' = Popped
    /\ seen' = seen \cup {Top}
    /\ todo' = IF Top \in seen THEN {} ELSE Adjacent[Top]
    /\ UNCHANGED <<searched, task, otherVars>>

WalkDone == task.op \in Walks /\ todo = {} /\ list = <<>>

----------------------------------------------------------------------------
(* would_create_cycle(parent, child) *)

StartCycle ==
    /\ \E p, c \in searched.nodes : p # c /\ task = [op |-> "cycle", parent |-> p, child |-> c]
    /\ list = <<task.child>>
    /\ todo = {}

CyclePop ==
    /\ task.op = "cycle"
    /\ ~ found /\ todo = {} /\ list # <<>>
    /\ list' = Popped
    /\ todo' = searched.children[Top]
    /\ UNCHANGED <<searched, task, seen, otherVars>>

(* Fault: the parent is looked for after the test of visited. *)
CycleVisitLate ==
    /\ task.op = "cycle"
    /\ ~ found /\ todo # {}
    /\ LET next == Least(todo)
       IN  /\ seen' = seen \cup {next}
           /\ list' = IF next \in seen THEN list ELSE Append(list, next)
    /\ found' = (task.parent \in seen)
    /\ todo' = NextTodo
    /\ UNCHANGED <<searched, task, cur, head, origin, inDegree, ready>>

CycleVisit ==
    /\ task.op = "cycle"
    /\ ~ found /\ todo # {}
    /\ LET next == Least(todo)
       IN  IF next = task.parent
           THEN found' = TRUE /\ UNCHANGED walkVars
           ELSE /\ list' = IF next \in seen THEN list ELSE Append(list, next)
                /\ seen' = seen \cup {next}
                /\ todo' = NextTodo
                /\ UNCHANGED found
    /\ UNCHANGED <<searched, task, cur, head, origin, inDegree, ready>>

CycleDone == task.op = "cycle" /\ (found \/ (todo = {} /\ list = <<>>))

----------------------------------------------------------------------------
(* propagate_invalidation(roots) *)

StartPropagation ==
    /\ \E roots \in SUBSET searched.nodes \ {{}} : task = [op |-> "invalidate", roots |-> roots]
    /\ list = <<>>
    /\ todo = task.roots

Reach(n, from) ==
    /\ origin' = [x \in DOMAIN origin \cup {n} |-> IF x = n THEN from ELSE origin[x]]
    /\ list' = Append(list, n)

(* The first loop enqueues the roots. *)
Seed ==
    /\ task.op = "invalidate"
    /\ cur = 0 /\ todo # {}
    /\ Reach(Least(todo), [pred |-> Least(todo), root |-> Least(todo)])
    /\ todo' = NextTodo
    /\ UNCHANGED <<searched, task, seen, cur, found, head, inDegree, ready>>

(* Fault: the last node enqueued is taken first. *)
TakeLast ==
    /\ task.op = "invalidate"
    /\ todo = {} /\ head <= Len(list)
    /\ cur' = Top
    /\ list' = [i \in DOMAIN list |-> IF i = head THEN Top
                                      ELSE IF i = Len(list) THEN list[head] ELSE list[i]]
    /\ head' = head + 1
    /\ todo' = searched.children[cur']
    /\ UNCHANGED <<searched, task, seen, found, origin, inDegree, ready>>

TakeHead ==
    /\ task.op = "invalidate"
    /\ todo = {} /\ head <= Len(list)
    /\ cur' = list[head]
    /\ head' = head + 1
    /\ todo' = searched.children[cur']
    /\ UNCHANGED <<searched, task, list, seen, found, origin, inDegree, ready>>

(* Fault: a child that was reached before is enqueued again. *)
VisitChildAgain ==
    /\ task.op = "invalidate"
    /\ cur # 0 /\ todo # {}
    /\ Reach(Least(todo), [pred |-> cur, root |-> origin[cur].root])
    /\ todo' = NextTodo
    /\ UNCHANGED <<searched, task, seen, cur, found, head, inDegree, ready>>

VisitChild ==
    /\ task.op = "invalidate"
    /\ cur # 0 /\ todo # {}
    /\ IF Least(todo) \in DOMAIN origin
       THEN UNCHANGED <<origin, list>>
       ELSE Reach(Least(todo), [pred |-> cur, root |-> origin[cur].root])
    /\ todo' = NextTodo
    /\ UNCHANGED <<searched, task, seen, cur, found, head, inDegree, ready>>

PropagationDone == task.op = "invalidate" /\ todo = {} /\ head > Len(list)

(* path_to(target), from the target back to its root: step k of the way. *)
Back(target) ==
    LET step[k \in 0..Len(list)] == IF k = 0 THEN target ELSE origin[step[k - 1]].pred
    IN  step

PathLength(target) ==
    Least({k \in 0..Len(list) : origin[Back(target)[k]].pred = Back(target)[k]})

----------------------------------------------------------------------------
(* topological_order() and records_in_topo_order(snapshot) *)

GraphOfParents(parents) ==
    [nodes    |-> DOMAIN parents,
     parents  |-> parents,
     children |-> [n \in DOMAIN parents |-> {c \in DOMAIN parents : n \in parents[c]}]]

StartOrder ==
    /\ task = [op |-> "order"]
    /\ list = <<>>
    /\ todo = {}

TakeReady ==
    /\ task.op = "order"
    /\ todo = {} /\ ready # {}
    /\ cur' = Least(ready)
    /\ ready' = ready \ {cur'}
    /\ list' = Append(list, cur')
    /\ todo' = searched.children[cur']
    /\ UNCHANGED <<searched, task, seen, found, head, origin, inDegree>>

(* Fault: a node is ready as soon as one of its parents is placed. *)
DecrementOnce ==
    /\ task.op = "order"
    /\ todo # {}
    /\ inDegree' = [inDegree EXCEPT ![Least(todo)] = 0]
    /\ ready' = IF inDegree[Least(todo)] = 0 THEN ready ELSE ready \cup {Least(todo)}
    /\ todo' = NextTodo
    /\ UNCHANGED <<searched, task, list, seen, cur, found, head, origin>>

Decrement ==
    /\ task.op = "order"
    /\ todo # {}
    /\ inDegree' = [inDegree EXCEPT ![Least(todo)] = @ - 1]
    /\ ready' = IF inDegree[Least(todo)] = 1 THEN ready \cup {Least(todo)} ELSE ready
    /\ todo' = NextTodo
    /\ UNCHANGED <<searched, task, list, seen, cur, found, head, origin>>

OrderDone == task.op = "order" /\ todo = {} /\ ready = {}

----------------------------------------------------------------------------
NothingDone ==
    /\ cur = 0
    /\ seen = {}
    /\ found = FALSE
    /\ head = 1
    /\ origin = [n \in {} |-> 0]
    /\ inDegree = [n \in searched.nodes |-> Cardinality(searched.parents[n])]
    /\ ready = {n \in searched.nodes : inDegree[n] = 0}

SearchInit ==
    /\ \/ searched \in Graphs /\ (StartWalk \/ StartCycle \/ StartPropagation)
       \/ searched \in {GraphOfParents(p) : p \in Snapshots} /\ StartOrder
    /\ NothingDone

SearchNext ==
    \/ WalkPush \/ WalkPop
    \/ CyclePop \/ CycleVisit
    \/ Seed \/ TakeHead \/ VisitChild
    \/ TakeReady \/ Decrement

SearchSpec == SearchInit /\ [][SearchNext]_searchVars

(* A call runs on a thread that is scheduled until it returns. *)
FairSearchSpec == SearchSpec /\ WF_searchVars(SearchNext)

----------------------------------------------------------------------------
(* Properties *)

(* ancestors and descendants return the transitive closure the store's        *)
(* reuse check and its indexes of lineage rely on.                            *)
WalkCollectsClosure ==
    WalkDone => seen = Closure(Adjacent, task.from)

(* would_create_cycle answers whether the new arc closes a cycle.             *)
CycleSearchIsRight ==
    CycleDone => (found <=> WouldCreateCycle(searched, task.parent, task.child))

(* The number of arcs from the nearest root, and the least root that near.    *)
Within(k) ==
    LET ball[i \in 0..k] == IF i = 0 THEN [r \in task.roots |-> {r}]
                            ELSE [r \in task.roots |->
                                     ball[i - 1][r] \cup
                                        UNION {searched.children[n] : n \in ball[i - 1][r]}]
    IN  ball[k]

Distance(n) ==
    Least({k \in 0..Cardinality(searched.nodes) : \E r \in task.roots : n \in Within(k)[r]})

(* Propagation from any set of roots affects them and everything below them,  *)
(* and reports each affected subject once.                                    *)
AffectedExactlyOnce ==
    PropagationDone =>
        /\ DOMAIN origin = task.roots \cup UNION {Descendants(searched, r) : r \in task.roots}
        /\ DOMAIN origin = {list[i] : i \in DOMAIN list}
        /\ \A i, j \in DOMAIN list : list[i] = list[j] => i = j

(* The causal chain path_to rebuilds for an affected subject starts at the    *)
(* root root_of names, follows arcs, is as short as any and, among the        *)
(* nearest roots, starts at the least: it does not depend on the order in     *)
(* which the roots were given.                                                *)
ChainsAreShortest ==
    PropagationDone =>
        \A n \in DOMAIN origin :
            /\ \A k \in 0..(PathLength(n) - 1) :
                  Back(n)[k] \in searched.children[Back(n)[k + 1]]
            /\ Back(n)[PathLength(n)] = origin[n].root
            /\ PathLength(n) = Distance(n)
            /\ origin[n].root = Least({r \in task.roots : n \in Within(Distance(n))[r]})

Positions == DOMAIN list

Precedes(order, parents) ==
    \A i \in DOMAIN order : parents[order[i]] \subseteq {order[j] : j \in 1..(i - 1)}

TopologicalOrders ==
    {order \in [1..Cardinality(searched.nodes) -> searched.nodes] :
        /\ \A i, j \in DOMAIN order : i # j => order[i] # order[j]
        /\ Precedes(order, searched.parents)}

(* Kahn's order is complete exactly when every parent exists and no cycle     *)
(* does, which is how restore tells a malformed snapshot; it is then the      *)
(* least of all topological orders, so it does not depend on the order of the *)
(* records in the file.                                                       *)
OrderIsLeast ==
    OrderDone =>
        IF Len(list) # Cardinality(searched.nodes)
        THEN TopologicalOrders = {}
        ELSE /\ list \in TopologicalOrders
             /\ \A other \in TopologicalOrders \ {list} :
                   \E i \in Positions : /\ list[i] < other[i]
                                        /\ \A j \in 1..(i - 1) : list[j] = other[j]

(* Every search returns, whatever it is given: also on a cyclic snapshot.     *)
SearchReturns == <>(WalkDone \/ CycleDone \/ PropagationDone \/ OrderDone)
=============================================================================
