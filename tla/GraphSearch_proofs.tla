------------------------- MODULE GraphSearch_proofs -------------------------
(***************************************************************************)
(* The walks of graph.hpp collect the closure, the cycle search is right,   *)
(* the propagation of an invalidation affects the roots and what is below   *)
(* them along shortest chains, and the topological order is the least one:  *)
(* for every graph, however large, and every argument.                     *)
(*                                                                         *)
(* Each invariant of a walk has two halves.  Soundness: what was reached    *)
(* lies in every set that holds the start and is closed under the arcs.     *)
(* Completeness: the arcs of a node that was dealt with lead to nodes that  *)
(* were reached or are still pending.  When nothing is pending what was     *)
(* reached is such a closed set, and so the least one.                      *)
(*                                                                         *)
(* The chains add that the queue is ordered by distance from the roots and  *)
(* that what was not reached is farther than what is being dealt with.  The *)
(* order adds that the count kept for a node is that of its parents not yet *)
(* placed, and that every node was the least that could be placed.          *)
(***************************************************************************)
EXTENDS GraphSearch, SequenceTheorems, FiniteSetTheorems, WellFoundedInduction, TLAPS

OnList == {list[i] : i \in 1..Len(list)}

----------------------------------------------------------------------------
(* Facts about numbers and sequences *)

LEMMA LeastOf ==
    ASSUME NEW S \in SUBSET Nat, S # {}
    PROVE  Least(S) \in S /\ \A y \in S : Least(S) <= y
<1> DEFINE Less == {ss \in Nat \X Nat : ss[1] < ss[2]}
<1>1. IsWellFoundedOn(Less, Nat)
  BY NatLessThanWellFounded, Zenon DEF OpToRel
<1> HIDE DEF Less
<1>2. \E x \in S : \A y \in S : ~ (<<y, x>> \in Less)
  BY <1>1, WFMin, Zenon
<1>3. PICK x \in S : \A y \in S : ~ (<<y, x>> \in Less)
  BY <1>2
<1>4. \A y \in S : x <= y
  <2> SUFFICES ASSUME NEW y \in S PROVE x <= y
    OBVIOUS
  <2>1. x \in Nat /\ y \in Nat
    OBVIOUS
  <2>2. <<y, x>> \in Less <=> y < x
    BY <2>1 DEF Less
  <2> QED
    BY <2>1, <2>2, <1>3
<1> QED
  BY <1>4 DEF Least

LEMMA Pushed ==
    ASSUME NEW N, list \in Seq(N), NEW n \in N, list' = Append(list, n)
    PROVE  list' \in Seq(N) /\ OnList' = OnList \cup {n}
  BY DEF OnList

LEMMA PoppedTop ==
    ASSUME NEW N, list \in Seq(N), list # <<>>, list' = Popped
    PROVE  /\ Top \in OnList
           /\ Top \in N
           /\ list' \in Seq(N)
           /\ OnList = OnList' \cup {Top}
<1>1. Len(list) \in Nat /\ Len(list) # 0
  OBVIOUS
<1>2. list' = [i \in 1..(Len(list) - 1) |-> list[i]]
  BY <1>1 DEF Popped
<1>3. list' \in Seq(N) /\ Len(list') = Len(list) - 1
  BY <1>1, <1>2
<1> QED
  BY <1>1, <1>2, <1>3 DEF OnList, Top

LEMMA OneElement == ASSUME NEW N, NEW n \in N PROVE <<n>> \in Seq(N)
  OBVIOUS

LEMMA NothingOnList == list = <<>> => OnList = {}
  BY DEF OnList

----------------------------------------------------------------------------
(* The walks *)

Covers(adjacent, start, S) == start \subseteq S /\ ClosedUnder(adjacent, S)

Pending == todo \cup OnList

WalkTypeOK ==
    /\ WellFormed(searched)
    /\ task.from \in searched.nodes
    /\ list \in Seq(searched.nodes)
    /\ todo \subseteq searched.nodes
    /\ seen \subseteq searched.nodes

WalkSound ==
    \A S \in SUBSET searched.nodes :
        Covers(Adjacent, Adjacent[task.from], S) => seen \cup Pending \subseteq S

WalkComplete ==
    /\ Adjacent[task.from] \subseteq seen \cup Pending
    /\ \A n \in seen : Adjacent[n] \subseteq seen \cup Pending

WalkInv == task.op \in Walks => WalkTypeOK /\ WalkSound /\ WalkComplete

LEMMA AdjacentTyped ==
    ASSUME WellFormed(searched)
    PROVE  Adjacent \in [searched.nodes -> SUBSET searched.nodes]
  BY DEF WellFormed, Adjacent

LEMMA WalkStarts == SearchInit => WalkInv
<1> SUFFICES ASSUME SearchInit, task.op \in Walks PROVE WalkInv
  BY DEF WalkInv
<1>1. searched \in Graphs /\ StartWalk
  BY DEF SearchInit, NothingDone, StartWalk, StartCycle, StartPropagation, StartOrder, Walks
<1>2. WellFormed(searched)
  BY <1>1, SearchAssumption
<1>3. task.from \in searched.nodes /\ list = <<>> /\ todo = Adjacent[task.from] /\ seen = {}
  BY <1>1 DEF StartWalk, SearchInit, NothingDone
<1>4. WalkTypeOK
  BY <1>2, <1>3, AdjacentTyped DEF WalkTypeOK
<1>5. Pending = Adjacent[task.from]
  BY <1>3, NothingOnList DEF Pending
<1> QED
  BY <1>3, <1>4, <1>5 DEF WalkInv, WalkSound, WalkComplete, Covers

LEMMA WalkPushStep ==
    ASSUME WalkInv, WalkPush
    PROVE  WalkInv'
<1> USE DEF WalkPush, NextTodo
<1>1. WalkTypeOK /\ WalkSound /\ WalkComplete
  BY DEF WalkInv
<1>2. Least(todo) \in todo
  BY <1>1, LeastOf DEF WalkTypeOK, WellFormed
<1>3. list' \in Seq(searched.nodes) /\ OnList' = OnList \cup {Least(todo)}
  BY <1>1, <1>2, Pushed DEF WalkTypeOK
<1>4. Pending' = Pending
  BY <1>2, <1>3 DEF Pending
<1>5. Adjacent' = Adjacent
  BY DEF Adjacent
<1>6. WalkTypeOK'
  BY <1>1, <1>3 DEF WalkTypeOK, WellFormed
<1>7. WalkSound'
  BY <1>1, <1>4, <1>5 DEF WalkSound, Covers, ClosedUnder
<1>8. WalkComplete'
  BY <1>1, <1>4, <1>5 DEF WalkComplete
<1> QED
  BY <1>6, <1>7, <1>8 DEF WalkInv

LEMMA WalkPopStep ==
    ASSUME WalkInv, WalkPop
    PROVE  WalkInv'
<1> USE DEF WalkPop
<1>1. WalkTypeOK /\ WalkSound /\ WalkComplete
  BY DEF WalkInv
<1>2. /\ Top \in OnList /\ Top \in searched.nodes
      /\ list' \in Seq(searched.nodes)
      /\ OnList = OnList' \cup {Top}
  BY <1>1, PoppedTop DEF WalkTypeOK
<1>3. Adjacent' = Adjacent /\ Adjacent \in [searched.nodes -> SUBSET searched.nodes]
  BY <1>1, AdjacentTyped DEF Adjacent, WalkTypeOK
<1>4. WalkTypeOK'
  BY <1>1, <1>2, <1>3 DEF WalkTypeOK, WellFormed
<1>5. todo' \subseteq Adjacent[Top]
  OBVIOUS
<1>6. WalkSound'
  <2> SUFFICES ASSUME NEW S \in SUBSET searched.nodes,
                      Covers(Adjacent, Adjacent[task.from], S)
               PROVE  (seen \cup Pending)' \subseteq S
    BY <1>3 DEF WalkSound
  <2>1. seen \cup Pending \subseteq S
    BY <1>1 DEF WalkSound
  <2>2. Top \in S
    BY <2>1, <1>2 DEF Pending
  <2>3. Adjacent[Top] \subseteq S
    BY <2>2 DEF Covers, ClosedUnder
  <2> QED
    BY <2>1, <2>2, <2>3, <1>2, <1>5 DEF Pending
<1>7. seen \cup Pending \subseteq (seen \cup Pending)'
  BY <1>2 DEF Pending
<1>8. WalkComplete'
  <2>1. Adjacent[Top] \subseteq (seen \cup Pending)'
    <3>1. CASE Top \in seen
      BY <3>1, <1>1, <1>7 DEF WalkComplete
    <3>2. CASE Top \notin seen
      BY <3>2 DEF Pending
    <3> QED
      BY <3>1, <3>2
  <2> QED
    BY <2>1, <1>1, <1>3, <1>7 DEF WalkComplete
<1> QED
  BY <1>4, <1>6, <1>8 DEF WalkInv

(* The other searches leave the task alone, and it is not a walk's. *)
LEMMA WalkUntouched ==
    ASSUME WalkInv,
           \/ CyclePop \/ CycleVisit \/ Seed \/ TakeHead \/ VisitChild
           \/ TakeReady \/ Decrement
    PROVE  WalkInv'
<1>1. task' = task /\ task.op \notin Walks
  BY DEF CyclePop, CycleVisit, Seed, TakeHead, VisitChild, TakeReady, Decrement, Walks
<1> QED
  BY <1>1 DEF WalkInv

LEMMA WalkStutters ==
    ASSUME WalkInv, UNCHANGED searchVars
    PROVE  WalkInv'
<1>1. UNCHANGED <<searched, task, list, todo, seen>>
  BY DEF searchVars, walkVars
<1>2. UNCHANGED Adjacent /\ UNCHANGED Pending
  BY <1>1 DEF Adjacent, Pending, OnList
<1>3. WalkTypeOK => WalkTypeOK'
  BY <1>1 DEF WalkTypeOK, WellFormed
<1>4. WalkSound => WalkSound'
  BY <1>1, <1>2 DEF WalkSound, Covers, ClosedUnder
<1>5. WalkComplete => WalkComplete'
  BY <1>1, <1>2 DEF WalkComplete
<1> QED
  BY <1>1, <1>3, <1>4, <1>5 DEF WalkInv

LEMMA WalkResult == WalkInv => WalkCollectsClosure
<1> SUFFICES ASSUME WalkInv, WalkDone PROVE seen = Closure(Adjacent, task.from)
  BY DEF WalkCollectsClosure
<1>1. WalkTypeOK /\ WalkSound /\ WalkComplete
  BY DEF WalkInv, WalkDone
<1>2. Pending = {}
  BY NothingOnList DEF WalkDone, Pending
<1>3. Covers(Adjacent, Adjacent[task.from], seen)
  BY <1>1, <1>2 DEF WalkComplete, Covers, ClosedUnder
<1>4. DOMAIN Adjacent = searched.nodes
  BY <1>1, AdjacentTyped DEF WalkTypeOK
<1> QED
  BY <1>1, <1>2, <1>3, <1>4 DEF Closure, WalkSound, WalkTypeOK, Covers

(* For every graph and node, when ancestors or descendants (graph.hpp) has    *)
(* emptied its stack, what it collected is the transitive closure.            *)
THEOREM WalksAreCorrect == SearchSpec => []WalkCollectsClosure
<1>1. WalkInv /\ [SearchNext]_searchVars => WalkInv'
  BY WalkPushStep, WalkPopStep, WalkUntouched, WalkStutters DEF SearchNext
<1>2. SearchSpec => []WalkInv
  BY <1>1, WalkStarts, PTL DEF SearchSpec
<1> QED
  BY <1>2, WalkResult, PTL

----------------------------------------------------------------------------
(* The cycle search *)

CycleTypeOK ==
    /\ WellFormed(searched)
    /\ task.parent \in searched.nodes /\ task.child \in searched.nodes
    /\ list \in Seq(searched.nodes)
    /\ todo \subseteq searched.nodes
    /\ seen \subseteq searched.nodes

Visited == seen \cup {task.child}

(* found says that every set holding what is below the child holds the parent. *)
CycleSound ==
    /\ OnList \subseteq Visited
    /\ \A S \in SUBSET searched.nodes :
          Covers(searched.children, searched.children[task.child], S) =>
              seen \cup todo \subseteq S /\ (found => task.parent \in S)

(* Until the parent is found, a visited node is pending or was expanded. *)
CycleComplete ==
    ~ found =>
        /\ task.parent \notin seen
        /\ \A n \in Visited : n \in OnList \/ searched.children[n] \subseteq seen \cup todo

CycleInv == task.op = "cycle" => CycleTypeOK /\ CycleSound /\ CycleComplete

LEMMA CycleStarts == SearchInit => CycleInv
<1> SUFFICES ASSUME SearchInit, task.op = "cycle"
             PROVE  CycleTypeOK /\ CycleSound /\ CycleComplete
  BY DEF CycleInv
<1>1. searched \in Graphs /\ StartCycle
  BY DEF SearchInit, NothingDone, StartWalk, StartCycle, StartPropagation, StartOrder, Walks
<1>2. WellFormed(searched)
  BY <1>1, SearchAssumption
<1>3. /\ task.parent \in searched.nodes /\ task.child \in searched.nodes
      /\ list = <<task.child>> /\ todo = {} /\ seen = {} /\ found = FALSE
  BY <1>1 DEF StartCycle, SearchInit, NothingDone
<1>4. OnList = {task.child} /\ Visited = {task.child}
  BY <1>3 DEF OnList, Visited
<1>5. CycleTypeOK
  <2>1. list \in Seq(searched.nodes)
    BY <1>3, OneElement, Zenon
  <2>2. todo \subseteq searched.nodes /\ seen \subseteq searched.nodes
    BY <1>3
  <2> QED
    BY <1>2, <1>3, <2>1, <2>2, Zenon DEF CycleTypeOK
<1>6. CycleSound
  BY <1>3, <1>4 DEF CycleSound
<1>7. CycleComplete
  BY <1>3, <1>4 DEF CycleComplete
<1> QED
  BY <1>5, <1>6, <1>7

LEMMA CyclePopStep ==
    ASSUME CycleInv, CyclePop
    PROVE  CycleInv'
<1> USE DEF CyclePop, otherVars
<1>1. CycleTypeOK /\ CycleSound /\ CycleComplete
  BY DEF CycleInv
<1>2. /\ Top \in OnList /\ Top \in searched.nodes
      /\ list' \in Seq(searched.nodes)
      /\ OnList = OnList' \cup {Top}
  BY <1>1, PoppedTop DEF CycleTypeOK
<1>3. Visited' = Visited /\ Top \in Visited
  BY <1>1, <1>2 DEF Visited, CycleSound
<1>4. CycleTypeOK'
  BY <1>1, <1>2 DEF CycleTypeOK, WellFormed
<1>5. CycleSound'
  BY <1>1, <1>2, <1>3 DEF CycleSound, Covers, ClosedUnder, Visited
<1>6. CycleComplete'
  BY <1>1, <1>2, <1>3 DEF CycleComplete
<1> QED
  BY <1>4, <1>5, <1>6 DEF CycleInv

LEMMA CycleVisitStep ==
    ASSUME CycleInv, CycleVisit
    PROVE  CycleInv'
<1> USE DEF CycleVisit
<1>1. CycleTypeOK /\ CycleSound /\ CycleComplete
  BY DEF CycleInv
<1> DEFINE next == Least(todo)
<1>2. next \in todo /\ next \in searched.nodes
  BY <1>1, LeastOf DEF CycleTypeOK, WellFormed
<1>3. searched' = searched /\ task' = task /\ ~ found
  OBVIOUS
<1> HIDE DEF next
<1>4. CASE next = task.parent
  <2>1. found' = TRUE /\ UNCHANGED <<list, todo, seen>>
    BY <1>4 DEF next, walkVars
  <2>2. OnList' = OnList /\ Visited' = Visited
    BY <1>3, <2>1 DEF OnList, Visited
  <2>3. CycleTypeOK'
    BY <1>1, <1>3, <2>1 DEF CycleTypeOK, WellFormed
  <2>4. CycleSound'
    BY <1>1, <1>2, <1>3, <1>4, <2>1, <2>2 DEF CycleSound, Covers, ClosedUnder
  <2> QED
    BY <2>1, <2>3, <2>4 DEF CycleInv, CycleComplete
<1>5. CASE next # task.parent
  <2>1. /\ list' = IF next \in seen THEN list ELSE Append(list, next)
        /\ seen' = seen \cup {next}
        /\ todo' = todo \ {next}
        /\ found' = found
    BY <1>5 DEF next, NextTodo
  <2>2. /\ list' \in Seq(searched.nodes)
        /\ OnList' = IF next \in seen THEN OnList ELSE OnList \cup {next}
    <3>1. CASE next \in seen
      BY <3>1, <1>1, <2>1 DEF CycleTypeOK, OnList
    <3>2. CASE next \notin seen
      BY <3>2, <1>1, <1>2, <2>1, Pushed DEF CycleTypeOK
    <3> QED
      BY <3>1, <3>2
  <2>3. Visited' = Visited \cup {next}
    BY <1>3, <2>1 DEF Visited
  <2>4. CycleTypeOK'
    BY <1>1, <1>2, <1>3, <2>1, <2>2 DEF CycleTypeOK, WellFormed
  <2>5. CycleSound'
    BY <1>1, <1>2, <1>3, <2>1, <2>2, <2>3 DEF CycleSound, Covers, ClosedUnder
  <2>6. CycleComplete'
    <3>1. task'.parent \notin seen'
      BY <1>1, <1>3, <1>5, <2>1 DEF CycleComplete
    <3>2. seen \cup todo \subseteq (seen \cup todo)'
      BY <2>1
    <3>3. ASSUME NEW n \in Visited'
          PROVE  n \in OnList' \/ searched.children[n] \subseteq (seen \cup todo)'
      BY <1>1, <1>3, <2>2, <2>3, <3>2, <3>3 DEF CycleComplete, Visited
    <3> QED
      BY <1>3, <3>1, <3>3 DEF CycleComplete
  <2> QED
    BY <2>4, <2>5, <2>6 DEF CycleInv
<1> QED
  BY <1>4, <1>5

LEMMA CycleUntouched ==
    ASSUME CycleInv,
           \/ WalkPush \/ WalkPop \/ Seed \/ TakeHead \/ VisitChild
           \/ TakeReady \/ Decrement
    PROVE  CycleInv'
<1>1. task' = task /\ task.op # "cycle"
  BY DEF WalkPush, WalkPop, Seed, TakeHead, VisitChild, TakeReady, Decrement, Walks
<1> QED
  BY <1>1 DEF CycleInv

LEMMA CycleStutters ==
    ASSUME CycleInv, UNCHANGED searchVars
    PROVE  CycleInv'
<1>1. UNCHANGED <<searched, task, list, todo, seen, found>>
  BY DEF searchVars, walkVars, otherVars
<1>2. UNCHANGED OnList /\ UNCHANGED Visited
  BY <1>1 DEF OnList, Visited
<1> QED
  BY <1>1, <1>2 DEF CycleInv, CycleTypeOK, CycleSound, CycleComplete,
                    WellFormed, Covers, ClosedUnder

LEMMA CycleResult == CycleInv => CycleSearchIsRight
<1> SUFFICES ASSUME CycleInv, CycleDone
             PROVE  found <=> WouldCreateCycle(searched, task.parent, task.child)
  BY DEF CycleSearchIsRight
<1>1. CycleTypeOK /\ CycleSound /\ CycleComplete
  BY DEF CycleInv, CycleDone
<1>2. /\ DOMAIN searched.children = searched.nodes
      /\ WouldCreateCycle(searched, task.parent, task.child)
           <=> task.parent \in Closure(searched.children, task.child)
  BY <1>1 DEF CycleTypeOK, WellFormed, WouldCreateCycle, Descendants
<1>3. CASE found
  BY <1>1, <1>2, <1>3 DEF CycleTypeOK, CycleSound, Closure, Covers
<1>4. CASE ~ found
  <2>1. OnList = {} /\ todo = {}
    BY <1>4, NothingOnList DEF CycleDone
  <2>2. Covers(searched.children, searched.children[task.child], seen)
    BY <1>1, <1>4, <2>1 DEF CycleComplete, Visited, Covers, ClosedUnder
  <2>3. task.parent \notin seen /\ seen \subseteq searched.nodes
    BY <1>1, <1>4 DEF CycleComplete, CycleTypeOK
  <2> QED
    BY <1>2, <1>4, <2>2, <2>3 DEF Closure, Covers
<1> QED
  BY <1>3, <1>4

(* For every graph and every arc add_arc may be asked for, when               *)
(* would_create_cycle returns, its answer is whether the arc closes a cycle.  *)
THEOREM CycleSearchesAreRight == SearchSpec => []CycleSearchIsRight
<1>1. CycleInv /\ [SearchNext]_searchVars => CycleInv'
  BY CyclePopStep, CycleVisitStep, CycleUntouched, CycleStutters DEF SearchNext
<1>2. SearchSpec => []CycleInv
  BY <1>1, CycleStarts, PTL DEF SearchSpec
<1> QED
  BY <1>2, CycleResult, PTL

----------------------------------------------------------------------------
(* The propagation *)

NoRepeats == \A i, j \in 1..Len(list) : list[i] = list[j] => i = j

PropagationTypeOK ==
    /\ WellFormed(searched)
    /\ task.roots \subseteq searched.nodes
    /\ list \in Seq(searched.nodes)
    /\ todo \subseteq searched.nodes
    /\ head \in 1..(Len(list) + 1)
    /\ DOMAIN origin = OnList

PropagationSound ==
    /\ NoRepeats
    /\ \A S \in SUBSET searched.nodes :
          Covers(searched.children, task.roots, S) => OnList \cup todo \subseteq S

(* The nodes before head were expanded, but for what todo has left of the last. *)
PropagationComplete ==
    /\ task.roots \subseteq OnList \cup todo
    /\ cur = 0 => head = 1 /\ todo \cap OnList = {}
    /\ \A i \in 1..(head - 1) : searched.children[list[i]] \subseteq OnList \cup todo

PropagationInv ==
    task.op = "invalidate" =>
        PropagationTypeOK /\ PropagationSound /\ PropagationComplete

LEMMA PropagationStarts == SearchInit => PropagationInv
<1> SUFFICES ASSUME SearchInit, task.op = "invalidate"
             PROVE  PropagationTypeOK /\ PropagationSound /\ PropagationComplete
  BY DEF PropagationInv
<1>1. searched \in Graphs /\ StartPropagation
  BY DEF SearchInit, NothingDone, StartWalk, StartCycle, StartPropagation, StartOrder, Walks
<1>2. WellFormed(searched)
  BY <1>1, SearchAssumption
<1>3. /\ task.roots \subseteq searched.nodes
      /\ list = <<>> /\ todo = task.roots /\ cur = 0 /\ head = 1 /\ DOMAIN origin = {}
  BY <1>1 DEF StartPropagation, SearchInit, NothingDone
<1>4. OnList = {} /\ Len(list) = 0
  BY <1>3, NothingOnList
<1>5. list \in Seq(searched.nodes) /\ head \in 1..(Len(list) + 1)
  BY <1>3, <1>4
<1>6. PropagationTypeOK
  BY <1>2, <1>3, <1>4, <1>5 DEF PropagationTypeOK
<1>7. PropagationSound
  BY <1>3, <1>4 DEF PropagationSound, NoRepeats, Covers
<1>8. PropagationComplete
  BY <1>3, <1>4 DEF PropagationComplete
<1> QED
  BY <1>6, <1>7, <1>8

(* As many nodes are listed as the list is long. *)
LEMMA ListedOnce ==
    ASSUME list \in Seq(searched.nodes), NoRepeats, IsFiniteSet(searched.nodes)
    PROVE  /\ OnList \subseteq searched.nodes
           /\ IsFiniteSet(OnList)
           /\ Cardinality(OnList) = Len(list)
           /\ Len(list) = Cardinality(searched.nodes) <=> OnList = searched.nodes
<1>1. list \in Seq(searched.nodes) /\ Len(list) \in Nat
  OBVIOUS
<1>2. OnList \subseteq searched.nodes
  BY <1>1 DEF OnList
<1>3. IsFiniteSet(OnList) /\ (Cardinality(searched.nodes) = Cardinality(OnList) => OnList = searched.nodes)
  BY <1>2, FS_Subset
<1>4. list \in Bijection(1..Len(list), OnList)
  <2>1. list \in [1..Len(list) -> OnList]
    BY <1>1 DEF OnList
  <2>2. list \in Injection(1..Len(list), OnList)
    BY <2>1 DEF NoRepeats, Injection, IsInjective
  <2>3. \A n \in OnList : \E i \in 1..Len(list) : list[i] = n
    BY DEF OnList
  <2>4. list \in Surjection(1..Len(list), OnList)
    BY <2>1, <2>3, Zenon DEF Surjection
  <2> QED
    BY <2>2, <2>4, Zenon DEF Bijection
<1>5. IsFiniteSet(1..Len(list)) /\ Cardinality(1..Len(list)) = Len(list)
  BY <1>1, FS_Interval
<1>6. Cardinality(OnList) = Len(list)
  BY <1>4, <1>5, FS_Bijection DEF ExistsBijection
<1> QED
  BY <1>2, <1>3, <1>6

(* What a node put at the end of the queue leaves as it was. *)
LEMMA Enqueued ==
    ASSUME PropagationTypeOK, NoRepeats,
           NEW n \in searched.nodes, n \notin OnList, list' = Append(list, n)
    PROVE  /\ list' \in Seq(searched.nodes)
           /\ OnList' = OnList \cup {n}
           /\ NoRepeats'
           /\ head \in 1..(Len(list') + 1)
           /\ \A i \in 1..(head - 1) : list'[i] = list[i]
<1>1. list \in Seq(searched.nodes) /\ head \in 1..(Len(list) + 1)
  BY DEF PropagationTypeOK
<1>2. list' \in Seq(searched.nodes) /\ OnList' = OnList \cup {n}
  BY <1>1, Pushed
<1>3. /\ Len(list') = Len(list) + 1 /\ Len(list) \in Nat
      /\ \A i \in 1..Len(list) : list'[i] = list[i]
      /\ list'[Len(list) + 1] = n
  BY <1>1
<1>4. \A i \in 1..Len(list) : list'[i] # n
  BY <1>3 DEF OnList
<1>5. NoRepeats'
  BY <1>3, <1>4 DEF NoRepeats
<1> QED
  BY <1>1, <1>2, <1>3, <1>5

LEMMA SeedStep ==
    ASSUME PropagationInv, Seed
    PROVE  PropagationInv'
<1> DEFINE n == Least(todo)
<1>1. PropagationTypeOK /\ PropagationSound /\ PropagationComplete
  BY DEF PropagationInv, Seed
<1>2. n \in todo /\ n \in searched.nodes
  BY <1>1, LeastOf DEF PropagationTypeOK, WellFormed, Seed
<1>3. /\ list' = Append(list, n) /\ DOMAIN origin' = DOMAIN origin \cup {n}
      /\ todo' = todo \ {n} /\ UNCHANGED <<searched, task, cur, head>> /\ cur = 0
  BY DEF Seed, Reach, NextTodo
<1> HIDE DEF n
<1>4. n \notin OnList
  BY <1>1, <1>2, <1>3 DEF PropagationComplete
<1>5. /\ list' \in Seq(searched.nodes)
      /\ OnList' = OnList \cup {n}
      /\ NoRepeats'
      /\ head \in 1..(Len(list') + 1)
  BY <1>1, <1>2, <1>3, <1>4, Enqueued DEF PropagationSound
<1>6. PropagationTypeOK'
  BY <1>1, <1>3, <1>5 DEF PropagationTypeOK, WellFormed
<1>7. PropagationSound'
  BY <1>1, <1>2, <1>3, <1>5 DEF PropagationSound, Covers, ClosedUnder
<1>8. PropagationComplete'
  BY <1>1, <1>2, <1>3, <1>5 DEF PropagationComplete
<1> QED
  BY <1>6, <1>7, <1>8 DEF PropagationInv

LEMMA TakeHeadStep ==
    ASSUME PropagationInv, TakeHead
    PROVE  PropagationInv'
<1>1. PropagationTypeOK /\ PropagationSound /\ PropagationComplete
  BY DEF PropagationInv, TakeHead
<1>2. /\ cur' = list[head] /\ head' = head + 1 /\ todo = {} /\ head <= Len(list)
      /\ todo' = searched.children[list[head]]
      /\ UNCHANGED <<searched, task, list, origin>>
  BY DEF TakeHead
<1>3. /\ head \in 1..Len(list) /\ head \in Nat /\ Len(list) \in Nat
      /\ list[head] \in OnList /\ list[head] \in searched.nodes
  BY <1>1, <1>2 DEF PropagationTypeOK, OnList
<1>4. /\ OnList' = OnList /\ NoRepeats' = NoRepeats
      /\ cur' # 0 /\ searched.children[list[head]] \subseteq searched.nodes
  BY <1>1, <1>2, <1>3 DEF OnList, NoRepeats, PropagationTypeOK, WellFormed
<1>5. PropagationTypeOK'
  BY <1>1, <1>2, <1>3, <1>4 DEF PropagationTypeOK, WellFormed
<1>6. PropagationSound'
  BY <1>1, <1>2, <1>3, <1>4 DEF PropagationSound, Covers, ClosedUnder
<1>7. PropagationComplete'
  <2>1. \A i \in 1..(head' - 1) : i \in 1..(head - 1) \/ i = head
    BY <1>2, <1>3
  <2> QED
    BY <1>1, <1>2, <1>4, <2>1 DEF PropagationComplete
<1> QED
  BY <1>5, <1>6, <1>7 DEF PropagationInv

LEMMA VisitChildStep ==
    ASSUME PropagationInv, VisitChild
    PROVE  PropagationInv'
<1> DEFINE n == Least(todo)
<1>1. PropagationTypeOK /\ PropagationSound /\ PropagationComplete
  BY DEF PropagationInv, VisitChild
<1>2. n \in todo /\ n \in searched.nodes
  BY <1>1, LeastOf DEF PropagationTypeOK, WellFormed, VisitChild
<1>3. /\ IF n \in OnList
         THEN UNCHANGED <<origin, list>>
         ELSE list' = Append(list, n) /\ DOMAIN origin' = DOMAIN origin \cup {n}
      /\ todo' = todo \ {n} /\ UNCHANGED <<searched, task, cur, head>> /\ cur # 0
  BY <1>1 DEF VisitChild, Reach, NextTodo, PropagationTypeOK
<1> HIDE DEF n
<1>4. /\ list' \in Seq(searched.nodes)
      /\ OnList' = OnList \cup {n}
      /\ DOMAIN origin' = OnList'
      /\ NoRepeats'
      /\ head \in 1..(Len(list') + 1)
      /\ \A i \in 1..(head - 1) : list'[i] = list[i]
  <2>1. CASE n \in OnList
    BY <2>1, <1>1, <1>3 DEF PropagationTypeOK, PropagationSound, OnList, NoRepeats
  <2>2. CASE n \notin OnList
    BY <2>2, <1>1, <1>2, <1>3, Enqueued DEF PropagationTypeOK, PropagationSound
  <2> QED
    BY <2>1, <2>2
<1>5. PropagationTypeOK'
  BY <1>1, <1>3, <1>4 DEF PropagationTypeOK, WellFormed
<1>6. PropagationSound'
  BY <1>1, <1>2, <1>3, <1>4 DEF PropagationSound, Covers, ClosedUnder
<1>7. PropagationComplete'
  <2>1. OnList \cup todo \subseteq (OnList \cup todo)'
    BY <1>3, <1>4
  <2> QED
    BY <1>1, <1>3, <1>4, <2>1 DEF PropagationComplete
<1> QED
  BY <1>5, <1>6, <1>7 DEF PropagationInv

LEMMA PropagationUntouched ==
    ASSUME PropagationInv,
           \/ WalkPush \/ WalkPop \/ CyclePop \/ CycleVisit
           \/ TakeReady \/ Decrement
    PROVE  PropagationInv'
<1>1. task' = task /\ task.op # "invalidate"
  BY DEF WalkPush, WalkPop, CyclePop, CycleVisit, TakeReady, Decrement, Walks
<1> QED
  BY <1>1 DEF PropagationInv

LEMMA PropagationStutters ==
    ASSUME PropagationInv, UNCHANGED searchVars
    PROVE  PropagationInv'
<1>1. UNCHANGED <<searched, task, list, todo, cur, head, origin>>
  BY DEF searchVars, walkVars, otherVars
<1>2. UNCHANGED OnList /\ NoRepeats' = NoRepeats
  BY <1>1 DEF OnList, NoRepeats
<1> QED
  BY <1>1, <1>2 DEF PropagationInv, PropagationTypeOK, PropagationSound,
                    PropagationComplete, WellFormed, Covers, ClosedUnder

(* The least closed set that holds the roots is the roots and their descendants. *)
LEMMA LeastCover ==
    ASSUME NEW g, WellFormed(g),
           NEW roots \in SUBSET g.nodes,
           NEW D \in SUBSET g.nodes,
           Covers(g.children, roots, D),
           \A S \in SUBSET g.nodes : Covers(g.children, roots, S) => D \subseteq S
    PROVE  D = roots \cup UNION {Descendants(g, r) : r \in roots}
<1> DEFINE Below(r) == Descendants(g, r)
           All == roots \cup UNION {Below(r) : r \in roots}
<1>1. DOMAIN g.children = g.nodes /\ \A r \in roots : Below(r) = Closure(g.children, r)
  BY DEF WellFormed, Descendants
<1>2. ASSUME NEW r \in roots
      PROVE  /\ g.children[r] \subseteq Below(r)
             /\ ClosedUnder(g.children, Below(r))
             /\ Below(r) \subseteq g.nodes
             /\ Below(r) \subseteq D
  <2>1. g.children[r] \subseteq Below(r)
    BY <1>1 DEF Closure, WellFormed
  <2>2. ClosedUnder(g.children, Below(r))
    BY <1>1 DEF Closure, ClosedUnder, WellFormed
  <2>3. g.children[r] \subseteq D /\ ClosedUnder(g.children, D)
    BY DEF Covers, ClosedUnder
  <2>4. Below(r) \subseteq D /\ Below(r) \subseteq g.nodes
    BY <1>1, <2>3 DEF Closure
  <2> QED
    BY <2>1, <2>2, <2>4
<1> HIDE DEF Below
<1>3. All \subseteq D
  BY <1>2 DEF Covers
<1>4. Covers(g.children, roots, All)
  <2>1. roots \subseteq All
    OBVIOUS
  <2>2. ASSUME NEW x \in All PROVE g.children[x] \subseteq All
    <3>1. CASE x \in roots
      BY <3>1, <1>2
    <3>2. CASE x \notin roots
      <4>1. PICK r \in roots : x \in Below(r)
        BY <3>2
      <4> QED
        BY <4>1, <1>2 DEF ClosedUnder
    <3> QED
      BY <3>1, <3>2
  <2> QED
    BY <2>1, <2>2 DEF Covers, ClosedUnder
<1>5. All \in SUBSET g.nodes
  BY <1>2
<1>6. D = All
  BY <1>3, <1>4, <1>5
<1> QED
  BY <1>6 DEF Below

LEMMA PropagationResult == PropagationInv => AffectedExactlyOnce
<1> SUFFICES ASSUME PropagationInv, PropagationDone
             PROVE  /\ OnList = task.roots
                                  \cup UNION {Descendants(searched, r) : r \in task.roots}
                    /\ DOMAIN origin = OnList
                    /\ OnList = {list[i] : i \in DOMAIN list}
                    /\ \A i, j \in DOMAIN list : list[i] = list[j] => i = j
  BY DEF AffectedExactlyOnce
<1>1. PropagationTypeOK /\ PropagationSound /\ PropagationComplete
  BY DEF PropagationInv, PropagationDone
<1>2. /\ todo = {} /\ head = Len(list) + 1 /\ Len(list) \in Nat
      /\ DOMAIN list = 1..Len(list)
  BY <1>1 DEF PropagationTypeOK, PropagationDone
<1>3. OnList \subseteq searched.nodes /\ task.roots \subseteq searched.nodes /\ WellFormed(searched)
  BY <1>1 DEF PropagationTypeOK, OnList
<1>4. Covers(searched.children, task.roots, OnList)
  <2>1. task.roots \subseteq OnList
    BY <1>1, <1>2 DEF PropagationComplete
  <2>2. \A i \in 1..Len(list) : searched.children[list[i]] \subseteq OnList
    BY <1>1, <1>2 DEF PropagationComplete
  <2> QED
    BY <2>1, <2>2 DEF Covers, ClosedUnder, OnList
<1>5. OnList = task.roots \cup UNION {Descendants(searched, r) : r \in task.roots}
  BY <1>1, <1>3, <1>4, LeastCover DEF PropagationSound
<1> QED
  BY <1>1, <1>2, <1>5 DEF PropagationTypeOK, PropagationSound, NoRepeats, OnList

(* For every graph and every set of roots, when propagate_invalidation        *)
(* returns it has affected the roots and what is below them, each once.       *)
THEOREM PropagationIsExact == SearchSpec => []AffectedExactlyOnce
<1>1. PropagationInv /\ [SearchNext]_searchVars => PropagationInv'
  BY SeedStep, TakeHeadStep, VisitChildStep, PropagationUntouched, PropagationStutters
     DEF SearchNext
<1>2. SearchSpec => []PropagationInv
  BY <1>1, PropagationStarts, PTL DEF SearchSpec
<1> QED
  BY <1>2, PropagationResult, PTL

----------------------------------------------------------------------------
(* Functions defined by recursion on the number of steps.  The induction        *)
(* theorems take the definition as an operator, so that there is such a         *)
(* function, and only one, is shown here of functions, by least counterexample. *)

LEMMA UpTo ==
    ASSUME NEW m \in Nat, NEW S, 0 \in S,
           \A l \in Nat : l < m /\ l \in S => l + 1 \in S
    PROVE  \A k \in 0..m : k \in S
<1>1. PICK out : out = {l \in Nat : l <= m /\ l \notin S}
  OBVIOUS
<1>2. out = {}
  <2> SUFFICES ASSUME out # {} PROVE FALSE
    OBVIOUS
  <2>1. PICK l : l = Least(out)
    OBVIOUS
  <2>2. l \in out /\ \A j \in out : l <= j
    BY <1>1, <2>1, LeastOf
  <2>3. l \in Nat /\ l <= m /\ l \notin S /\ l # 0
    BY <1>1, <2>2
  <2>4. PICK j \in Nat : l = j + 1
    BY <2>3, l - 1 \in Nat
  <2>5. j < m /\ j <= m /\ ~ l <= j
    BY <2>3, <2>4
  <2>6. j \in S
    BY <1>1, <2>2, <2>5
  <2> QED
    BY <2>3, <2>4, <2>5, <2>6
<1> QED
  BY <1>1, <1>2

IsIteration(f, m, step, x) ==
    f[0] = x /\ \A k \in Nat : k < m => f[k + 1] = step[f[k]]

LEMMA Iterates ==
    ASSUME NEW S, NEW step \in [S -> S], NEW x \in S, NEW m \in Nat
    PROVE  \E f \in [0..m -> S] : IsIteration(f, m, step, x)
<1> DEFINE Is(f, n) == f \in [0..n -> S] /\ IsIteration(f, n, step, x)
<1>1. PICK have : have = {n \in Nat : \E f : Is(f, n)}
  OBVIOUS
<1>2. 0 \in have
  <2>1. PICK f : f = [k \in 0..0 |-> x]
    OBVIOUS
  <2>2. Is(f, 0)
    BY <2>1 DEF IsIteration
  <2> QED
    BY <1>1, <2>2
<1>3. ASSUME NEW j \in Nat, j < m, j \in have
      PROVE  j + 1 \in have
  <2>1. PICK f : Is(f, j)
    BY <1>1, <1>3
  <2>2. f \in [0..j -> S] /\ f[0] = x /\ \A k \in Nat : k < j => f[k + 1] = step[f[k]]
    BY <2>1 DEF IsIteration
  <2>3. PICK h : h = [k \in 0..(j + 1) |-> IF k = j + 1 THEN step[f[j]] ELSE f[k]]
    OBVIOUS
  <2>4. h \in [0..(j + 1) -> S]
    <3>1. \A k \in 0..(j + 1) : k # j + 1 => k \in 0..j
      OBVIOUS
    <3>2. step[f[j]] \in S /\ \A k \in 0..j : f[k] \in S
      BY <2>2
    <3> QED
      BY <2>3, <3>1, <3>2
  <2>5. h[0] = x
    BY <2>2, <2>3
  <2>6. ASSUME NEW k \in Nat, k < j + 1 PROVE h[k + 1] = step[h[k]]
    <3>1. h[k] = f[k] /\ k + 1 \in 0..(j + 1)
      BY <2>3, <2>6
    <3>2. CASE k = j
      BY <2>3, <3>1, <3>2
    <3>3. CASE k # j
      <4>1. k < j /\ k + 1 # j + 1
        BY <2>6, <3>3
      <4> QED
        BY <2>2, <2>3, <3>1, <4>1
    <3> QED
      BY <3>2, <3>3
  <2>7. Is(h, j + 1)
    BY <2>4, <2>5, <2>6 DEF IsIteration
  <2> QED
    BY <1>1, <2>7, j + 1 \in Nat
<1>4. m \in have
  BY <1>2, <1>3, UpTo, m \in 0..m
<1> QED
  BY <1>1, <1>4

LEMMA AgreeStepwise ==
    ASSUME NEW m \in Nat, NEW f, NEW h, f[0] = h[0],
           \A l \in Nat : l < m /\ f[l] = h[l] => f[l + 1] = h[l + 1]
    PROVE  \A k \in 0..m : f[k] = h[k]
<1>1. PICK agree : agree = {l \in Nat : f[l] = h[l]}
  OBVIOUS
<1>2. 0 \in agree /\ \A l \in Nat : l < m /\ l \in agree => l + 1 \in agree
  BY <1>1
<1>3. \A k \in 0..m : k \in agree
  BY <1>2, UpTo
<1> QED
  BY <1>1, <1>3

LEMMA IteratesAgree ==
    ASSUME NEW step, NEW x, NEW m \in Nat, NEW n \in Nat, m <= n,
           NEW f, IsIteration(f, m, step, x),
           NEW h, IsIteration(h, n, step, x)
    PROVE  \A k \in 0..m : f[k] = h[k]
<1>1. f[0] = h[0]
  BY DEF IsIteration
<1>2. ASSUME NEW l \in Nat, l < m, f[l] = h[l]
      PROVE  f[l + 1] = h[l + 1]
  BY <1>2, l < n DEF IsIteration
<1> QED
  BY <1>1, <1>2, AgreeStepwise, Zenon

----------------------------------------------------------------------------
(* Distances.  What is within k arcs of each root, and the two things the       *)
(* breadth-first search computes of it: how far a node is from the nearest      *)
(* root, and the least of the roots that near.                                 *)

Balls == [task.roots -> SUBSET searched.nodes]

Spread ==
    [b \in Balls |-> [r \in task.roots |->
                         b[r] \cup UNION {searched.children[n] : n \in b[r]}]]

Reached(n) == \E k \in Nat : \E r \in task.roots : n \in Within(k)[r]

Dist(n) == Least({k \in Nat : \E r \in task.roots : n \in Within(k)[r]})

Nearest(n) == Least({r \in task.roots : n \in Within(Dist(n))[r]})

RootsAndGraph == WellFormed(searched) /\ task.roots \subseteq searched.nodes

Start == [r \in task.roots |-> {r}]

LEMMA WithinIterates ==
    ASSUME RootsAndGraph
    PROVE  /\ Spread \in [Balls -> Balls]
           /\ Start \in Balls
           /\ \A k \in Nat : \E f \in [0..k -> Balls] :
                 IsIteration(f, k, Spread, Start) /\ Within(k) = f[k]
<1>1. Start \in Balls
  BY DEF Balls, RootsAndGraph, Start
<1>2. Spread \in [Balls -> Balls]
  <2>1. ASSUME NEW b \in Balls
        PROVE  [r \in task.roots |->
                   b[r] \cup UNION {searched.children[n] : n \in b[r]}] \in Balls
    BY DEF Balls, RootsAndGraph, WellFormed
  <2> QED
    BY <2>1 DEF Spread
<1> SUFFICES ASSUME NEW k \in Nat
             PROVE  \E f \in [0..k -> Balls] :
                       IsIteration(f, k, Spread, Start) /\ Within(k) = f[k]
  BY <1>1, <1>2
<1>3. PICK f \in [0..k -> Balls] : IsIteration(f, k, Spread, Start)
  BY <1>1, <1>2, Iterates
<1> DEFINE Next1(b) == [r \in task.roots |-> b[r] \cup UNION {searched.children[n] : n \in b[r]}]
           Rec(g) == g = [i \in 0..k |-> IF i = 0 THEN [r \in task.roots |-> {r}]
                                         ELSE Next1(g[i - 1])]
<1>4. \A b \in Balls : Spread[b] = Next1(b)
  BY DEF Spread
<1>5. Rec(f)
  <2> HIDE DEF Next1
  <2>1. f[0] = [r \in task.roots |-> {r}]
    BY <1>3 DEF IsIteration, Start
  <2>2. ASSUME NEW i \in 0..k, i # 0
        PROVE  f[i] = Next1(f[i - 1])
    <3>1. i - 1 \in Nat /\ i - 1 < k /\ (i - 1) + 1 = i /\ i - 1 \in 0..k
      BY <2>2
    <3>2. f[(i - 1) + 1] = Spread[f[i - 1]]
      BY <3>1, <1>3 DEF IsIteration
    <3>3. f[i - 1] \in Balls
      BY <3>1, <1>3
    <3> QED
      BY <3>1, <3>2, <3>3, <1>4
  <2> QED
    BY <1>3, <2>1, <2>2
<1>6. PICK g : Rec(g) /\ Within(k) = g[k]
  <2>1. Rec(CHOOSE g : Rec(g))
    BY <1>5
  <2>2. Within(k) = (CHOOSE g : Rec(g))[k]
    BY DEF Within
  <2> QED
    BY <2>1, <2>2
<1>7. g[k] = f[k]
  <2> HIDE DEF Next1
  <2>1. g[0] = f[0]
    BY <1>5, <1>6
  <2>2. ASSUME NEW h, Rec(h), NEW l \in Nat, l < k
        PROVE  h[l + 1] = Next1(h[l])
    <3>1. l + 1 \in 0..k /\ l + 1 # 0 /\ (l + 1) - 1 = l
      BY <2>2
    <3> QED
      BY <2>2, <3>1
  <2>3. ASSUME NEW l \in Nat, l < k, g[l] = f[l]
        PROVE  g[l + 1] = f[l + 1]
    <3>1. g[l + 1] = Next1(g[l])
      BY <1>6, <2>2, <2>3
    <3>2. f[l + 1] = Next1(f[l])
      BY <1>5, <2>2, <2>3
    <3> QED
      BY <2>3, <3>1, <3>2, Zenon
  <2>4. \A i \in 0..k : g[i] = f[i]
    BY <2>1, <2>3, AgreeStepwise, Zenon
  <2> QED
    BY <2>4
<1> QED
  BY <1>3, <1>6, <1>7

LEMMA WithinGrows ==
    ASSUME RootsAndGraph
    PROVE  /\ \A r \in task.roots : Within(0)[r] = {r}
           /\ \A k \in Nat : \A r \in task.roots :
                 /\ Within(k)[r] \subseteq searched.nodes
                 /\ Within(k + 1)[r] =
                       Within(k)[r] \cup UNION {searched.children[n] : n \in Within(k)[r]}
<1>1. \A k \in Nat : \E f \in [0..k -> Balls] :
         IsIteration(f, k, Spread, Start) /\ Within(k) = f[k]
  BY WithinIterates
<1>2. \A r \in task.roots : Within(0)[r] = {r}
  <2>1. PICK f \in [0..0 -> Balls] : IsIteration(f, 0, Spread, Start) /\ Within(0) = f[0]
    BY <1>1
  <2> QED
    BY <2>1 DEF IsIteration, Start
<1>3. ASSUME NEW k \in Nat
      PROVE  Within(k) \in Balls /\ Within(k + 1) = Spread[Within(k)]
  <2>1. PICK f \in [0..k -> Balls] : IsIteration(f, k, Spread, Start) /\ Within(k) = f[k]
    BY <1>1
  <2>2. k + 1 \in Nat /\ k <= k + 1 /\ k < k + 1 /\ k \in 0..k
    OBVIOUS
  <2>3. PICK h \in [0..(k + 1) -> Balls] :
           IsIteration(h, k + 1, Spread, Start) /\ Within(k + 1) = h[k + 1]
    BY <1>1, <2>2
  <2>4. f[k] = h[k]
    BY <2>1, <2>2, <2>3, IteratesAgree
  <2>5. h[k + 1] = Spread[h[k]]
    BY <2>2, <2>3 DEF IsIteration
  <2> QED
    BY <2>1, <2>2, <2>3, <2>4, <2>5
<1>4. ASSUME NEW k \in Nat, NEW r \in task.roots
      PROVE  /\ Within(k)[r] \subseteq searched.nodes
             /\ Within(k + 1)[r] =
                   Within(k)[r] \cup UNION {searched.children[n] : n \in Within(k)[r]}
  BY <1>3 DEF Spread, Balls
<1> QED
  BY <1>2, <1>4

(* What the search relies on, all of it: how far its neighbours may be from a   *)
(* node, and whose nearest roots theirs are.                                   *)
LEMMA DistIs ==
    ASSUME RootsAndGraph, NEW n, Reached(n)
    PROVE  /\ Dist(n) \in Nat
           /\ \E r \in task.roots : n \in Within(Dist(n))[r]
           /\ \A k \in Nat : \A r \in task.roots : n \in Within(k)[r] => Dist(n) <= k
           /\ Nearest(n) \in task.roots
           /\ n \in Within(Dist(n))[Nearest(n)]
           /\ \A r \in task.roots : n \in Within(Dist(n))[r] => Nearest(n) <= r
           /\ n \in searched.nodes
<1>1. PICK ks : ks = {k \in Nat : \E r \in task.roots : n \in Within(k)[r]}
  OBVIOUS
<1>2. ks \in SUBSET Nat /\ ks # {} /\ Dist(n) = Least(ks)
  BY <1>1 DEF Reached, Dist
<1>3. Dist(n) \in ks /\ \A k \in ks : Dist(n) <= k
  BY <1>2, LeastOf
<1>4. PICK d : d = Dist(n)
  OBVIOUS
<1>5. PICK rs : rs = {r \in task.roots : n \in Within(d)[r]}
  OBVIOUS
<1>6. rs # {} /\ rs \subseteq task.roots /\ task.roots \subseteq Nat
  BY <1>1, <1>3, <1>4, <1>5 DEF RootsAndGraph, WellFormed
<1>7. Nearest(n) = Least(rs)
  BY <1>4, <1>5 DEF Nearest
<1>8. rs \in SUBSET Nat
  BY <1>6
<1>9. Nearest(n) \in rs /\ \A r \in rs : Nearest(n) <= r
  BY <1>6, <1>7, <1>8, LeastOf
<1>10. n \in searched.nodes
  BY <1>1, <1>3, WithinGrows
<1> QED
  BY <1>1, <1>3, <1>4, <1>5, <1>9, <1>10

LEMMA RootsAreNear ==
    ASSUME RootsAndGraph, NEW n
    PROVE  /\ n \in task.roots => Reached(n) /\ Dist(n) = 0
           /\ Reached(n) /\ Dist(n) = 0 => n \in task.roots /\ Nearest(n) = n
<1>1. \A r \in task.roots : Within(0)[r] = {r}
  BY WithinGrows
<1>2. ASSUME n \in task.roots
      PROVE  Reached(n) /\ Dist(n) = 0
  <2>1. n \in Within(0)[n] /\ 0 \in Nat
    BY <1>1, <1>2
  <2>2. Reached(n)
    BY <2>1, <1>2 DEF Reached
  <2>3. Dist(n) \in Nat /\ Dist(n) <= 0
    BY <1>2, <2>1, <2>2, DistIs
  <2> QED
    BY <2>2, <2>3
<1>3. ASSUME Reached(n), Dist(n) = 0
      PROVE  n \in task.roots /\ Nearest(n) = n
  <2>1. Nearest(n) \in task.roots /\ n \in Within(0)[Nearest(n)]
    BY <1>3, DistIs
  <2> QED
    BY <1>1, <2>1
<1> QED
  BY <1>2, <1>3

LEMMA ChildIsNear ==
    ASSUME RootsAndGraph, NEW p, Reached(p), NEW c \in searched.children[p]
    PROVE  /\ Reached(c)
           /\ Dist(c) <= Dist(p) + 1
           /\ Dist(c) = Dist(p) + 1 => Nearest(c) <= Nearest(p)
<1>1. PICK d \in Nat : d = Dist(p)
  BY DistIs
<1>2. PICK r \in task.roots : r = Nearest(p) /\ p \in Within(d)[r]
  BY <1>1, DistIs
<1>3. c \in Within(d + 1)[r] /\ d + 1 \in Nat
  BY <1>1, <1>2, WithinGrows
<1>4. Reached(c)
  BY <1>3 DEF Reached
<1>5. Dist(c) <= d + 1
  BY <1>3, <1>4, DistIs
<1>6. Dist(c) = d + 1 => Nearest(c) <= r
  BY <1>3, <1>4, DistIs
<1> QED
  BY <1>1, <1>2, <1>4, <1>5, <1>6

LEMMA ParentIsNearer ==
    ASSUME RootsAndGraph, NEW c, Reached(c), Dist(c) # 0
    PROVE  \E p : /\ Reached(p) /\ c \in searched.children[p]
                  /\ Dist(c) = Dist(p) + 1
                  /\ Nearest(p) = Nearest(c)
<1>1. PICK r \in task.roots : r = Nearest(c) /\ c \in Within(Dist(c))[r]
  BY DistIs
<1>2. PICK j \in Nat : Dist(c) = j + 1
  <2>1. Dist(c) \in Nat /\ Dist(c) - 1 \in Nat
    BY DistIs
  <2> QED
    BY <2>1
<1>3. c \notin Within(j)[r]
  BY <1>2, DistIs
<1>4. PICK p \in Within(j)[r] : c \in searched.children[p]
  BY <1>1, <1>2, <1>3, WithinGrows
<1>5. Reached(p)
  BY <1>4 DEF Reached
<1>6. Dist(p) \in Nat /\ Dist(p) <= j
  BY <1>4, <1>5, DistIs
<1>7. Dist(c) <= Dist(p) + 1 /\ (Dist(c) = Dist(p) + 1 => Nearest(c) <= Nearest(p))
  BY <1>4, <1>5, ChildIsNear
<1>8. Dist(p) = j
  BY <1>2, <1>6, <1>7
<1>9. Nearest(p) <= r
  BY <1>4, <1>5, <1>8, DistIs
<1>10. Nearest(p) \in Nat /\ r \in Nat
  BY <1>5, DistIs DEF RootsAndGraph, WellFormed
<1>11. Nearest(p) = r
  BY <1>1, <1>2, <1>7, <1>8, <1>9, <1>10
<1> QED
  BY <1>1, <1>2, <1>4, <1>5, <1>8, <1>11

(* Distances are those of the graph and the roots, which a call leaves alone.   *)
LEMMA DistancesStay ==
    ASSUME UNCHANGED <<searched, task>>
    PROVE  /\ \A k : Within(k)' = Within(k)
           /\ \A n : Reached(n)' <=> Reached(n)
           /\ \A n : Dist(n)' = Dist(n)
           /\ \A n : Nearest(n)' = Nearest(n)
<1>1. ASSUME NEW k PROVE Within(k)' = Within(k)
  BY DEF Within
<1>2. ASSUME NEW n PROVE Reached(n)' <=> Reached(n)
  BY <1>1 DEF Reached
<1>3. ASSUME NEW n PROVE Dist(n)' = Dist(n)
  BY <1>1 DEF Dist
<1>4. ASSUME NEW n PROVE Nearest(n)' = Nearest(n)
  BY <1>1, <1>3 DEF Nearest
<1> QED
  BY <1>1, <1>2, <1>3, <1>4

----------------------------------------------------------------------------
(* The chains.  The queue is in order of distance and, among nodes as far, of   *)
(* their nearest roots; the causes of a node are those of a shortest path.      *)

NoFarther(m, n) ==
    /\ Dist(m) <= Dist(n)
    /\ Dist(m) = Dist(n) => Nearest(m) <= Nearest(n)

ChainOrder ==
    \A i \in 1..Len(list) :
        /\ Dist(list[i]) < i
        /\ \A j \in 1..Len(list) : i < j => NoFarther(list[i], list[j])

Caused(n, p) ==
    /\ n \in searched.children[p]
    /\ Dist(n) = Dist(p) + 1
    /\ Nearest(n) = Nearest(p)

ChainOrigin ==
    \A n \in OnList :
        /\ Reached(n)
        /\ origin[n].root = Nearest(n)
        /\ Dist(n) = 0 => origin[n].pred = n
        /\ Dist(n) # 0 => \E i \in 1..(head - 1) :
                             origin[n].pred = list[i] /\ Caused(n, list[i])

(* Before the first node is taken the roots are enqueued in increasing order;   *)
(* then the children of cur, and nothing else, have still to be looked at.      *)
ChainFrontier ==
    /\ cur = 0 => /\ OnList \cup todo \subseteq task.roots
                  /\ \A m \in OnList, n \in todo : m < n
    /\ cur # 0 => /\ head # 1 /\ cur = list[head - 1]
                  /\ task.roots \subseteq OnList
                  /\ todo \subseteq searched.children[cur]
                  /\ \A n \in OnList : Dist(n) <= Dist(cur) + 1
    /\ \A i \in 1..(head - 2) : searched.children[list[i]] \subseteq OnList

ChainInv ==
    task.op = "invalidate" => ChainOrder /\ ChainOrigin /\ ChainFrontier

LEMMA ChainStarts == SearchInit => ChainInv
<1> SUFFICES ASSUME SearchInit, task.op = "invalidate"
             PROVE  ChainOrder /\ ChainOrigin /\ ChainFrontier
  BY DEF ChainInv
<1>1. StartPropagation
  BY DEF SearchInit, NothingDone, StartWalk, StartCycle, StartPropagation, StartOrder, Walks
<1>2. list = <<>> /\ todo = task.roots /\ cur = 0 /\ head = 1
  BY <1>1 DEF StartPropagation, SearchInit, NothingDone
<1>3. OnList = {} /\ Len(list) = 0
  BY <1>2, NothingOnList
<1> QED
  BY <1>2, <1>3 DEF ChainOrder, ChainOrigin, ChainFrontier

(* What is enqueued behind nodes that are no farther leaves the queue ordered.  *)
LEMMA OrderedBehind ==
    ASSUME PropagationTypeOK, RootsAndGraph, ChainOrder, UNCHANGED <<searched, task>>,
           NEW n \in searched.nodes, list' = Append(list, n),
           Dist(n) <= Len(list), Dist(n) \in Nat,
           \A m \in OnList : NoFarther(m, n)
    PROVE  ChainOrder'
<1>1. /\ Len(list) \in Nat /\ Len(list') = Len(list) + 1
      /\ \A i \in 1..Len(list) : list'[i] = list[i]
      /\ list'[Len(list) + 1] = n
  BY DEF PropagationTypeOK
<1>2. \A m, o : NoFarther(m, o)' <=> NoFarther(m, o)
  BY DistancesStay DEF NoFarther
<1>3. \A m : Dist(m)' = Dist(m)
  BY DistancesStay
<1>4. ASSUME NEW i \in 1..Len(list')
      PROVE  /\ Dist(list'[i]) < i
             /\ \A j \in 1..Len(list') : i < j => NoFarther(list'[i], list'[j])
  <2>1. CASE i = Len(list) + 1
    BY <1>1, <2>1
  <2>2. CASE i # Len(list) + 1
    <3>1. i \in 1..Len(list) /\ list'[i] = list[i] /\ list[i] \in OnList
      BY <1>1, <2>2 DEF OnList
    <3>2. ASSUME NEW j \in 1..Len(list'), i < j PROVE NoFarther(list'[i], list'[j])
      <4>1. CASE j = Len(list) + 1
        BY <1>1, <3>1, <4>1
      <4>2. CASE j # Len(list) + 1
        <5>1. j \in 1..Len(list) /\ list'[j] = list[j]
          BY <1>1, <4>2
        <5> QED
          BY <3>1, <3>2, <5>1 DEF ChainOrder
      <4> QED
        BY <4>1, <4>2
    <3> QED
      BY <3>1, <3>2 DEF ChainOrder
  <2> QED
    BY <2>1, <2>2
<1>5. ASSUME NEW i \in 1..Len(list')
      PROVE  /\ Dist(list[i])' < i
             /\ \A j \in 1..Len(list') : i < j => NoFarther(list[i], list[j])'
  BY <1>2, <1>3, <1>4
<1> QED
  BY <1>5 DEF ChainOrder

LEMMA SeedChain ==
    ASSUME PropagationInv, ChainInv, Seed
    PROVE  ChainInv'
<1>1. PICK n : n = Least(todo)
  OBVIOUS
<1>2. /\ PropagationTypeOK /\ PropagationSound /\ PropagationComplete
      /\ ChainOrder /\ ChainOrigin /\ ChainFrontier
      /\ todo # {} /\ cur = 0
  BY DEF PropagationInv, ChainInv, Seed
<1>3. RootsAndGraph /\ todo \in SUBSET Nat
  BY <1>2 DEF PropagationTypeOK, WellFormed, RootsAndGraph
<1>4. n \in todo /\ \A m \in todo : n <= m
  BY <1>1, <1>2, <1>3, LeastOf
<1>5. n \in task.roots /\ n \in searched.nodes /\ n \in Nat
  BY <1>2, <1>3, <1>4 DEF ChainFrontier, RootsAndGraph
<1>6. /\ list' = Append(list, n) /\ todo' = todo \ {n}
      /\ origin' = [x \in DOMAIN origin \cup {n} |->
                       IF x = n THEN [pred |-> n, root |-> n] ELSE origin[x]]
      /\ UNCHANGED <<searched, task, cur, head>> /\ head = 1
  BY <1>1, <1>2 DEF Seed, Reach, NextTodo, PropagationComplete
<1>7. OnList' = OnList \cup {n} /\ OnList \subseteq task.roots /\ DOMAIN origin = OnList
  BY <1>2, <1>5, <1>6, Pushed DEF PropagationTypeOK, ChainFrontier
<1>8. \A m \in OnList \cup {n} : Reached(m) /\ Dist(m) = 0 /\ Nearest(m) = m
  BY <1>3, <1>5, <1>7, RootsAreNear
<1>9. /\ \A m : Dist(m)' = Dist(m)
      /\ \A m : Nearest(m)' = Nearest(m)
      /\ \A m : Reached(m)' <=> Reached(m)
  BY <1>6, DistancesStay
<1>10. n \notin OnList
  BY <1>2, <1>4, <1>5 DEF ChainFrontier
<1>11. ChainOrder'
  <2>1. \A m \in OnList : m < n /\ m \in Nat
    BY <1>2, <1>3, <1>4, <1>7 DEF ChainFrontier, RootsAndGraph, WellFormed
  <2>2. \A m \in OnList : NoFarther(m, n)
    BY <1>5, <1>8, <2>1 DEF NoFarther
  <2>3. Len(list) \in Nat
    BY <1>2 DEF PropagationTypeOK
  <2> QED
    BY <1>2, <1>3, <1>5, <1>6, <1>8, <2>2, <2>3, OrderedBehind
<1>12. ChainOrigin'
  <2>1. ASSUME NEW m \in OnList \cup {n}
        PROVE  /\ Reached(m)'
               /\ origin'[m].root = Nearest(m)'
               /\ Dist(m)' = 0
               /\ origin'[m].pred = m
    BY <1>2, <1>6, <1>7, <1>8, <1>9 DEF ChainOrigin
  <2> QED
    BY <1>7, <2>1 DEF ChainOrigin
<1>13. ChainFrontier'
  <2>1. \A m \in OnList \cup {n}, o \in todo \ {n} : m < o
    BY <1>2, <1>3, <1>4 DEF ChainFrontier
  <2> QED
    BY <1>2, <1>5, <1>6, <1>7, <2>1 DEF ChainFrontier
<1> QED
  BY <1>11, <1>12, <1>13 DEF ChainInv

LEMMA TakeHeadChain ==
    ASSUME PropagationInv, ChainInv, TakeHead
    PROVE  ChainInv'
<1>1. /\ PropagationTypeOK /\ PropagationSound /\ PropagationComplete
      /\ ChainOrder /\ ChainOrigin /\ ChainFrontier
  BY DEF PropagationInv, ChainInv, TakeHead
<1>2. /\ cur' = list[head] /\ head' = head + 1 /\ todo = {} /\ head <= Len(list)
      /\ todo' = searched.children[list[head]]
      /\ UNCHANGED <<searched, task, list, origin>>
  BY DEF TakeHead
<1>3. /\ head \in 1..Len(list) /\ Len(list) \in Nat
      /\ list[head] \in OnList /\ list[head] \in searched.nodes
      /\ RootsAndGraph
  BY <1>1, <1>2 DEF PropagationTypeOK, OnList, RootsAndGraph
<1>4. OnList' = OnList /\ cur' # 0
  BY <1>2, <1>3 DEF OnList, RootsAndGraph, WellFormed
<1>5. /\ \A m : Dist(m)' = Dist(m)
      /\ \A m : Nearest(m)' = Nearest(m)
      /\ \A m : Reached(m)' <=> Reached(m)
      /\ \A m \in OnList : Dist(m) \in Nat
  BY <1>1, <1>2, <1>3, DistancesStay, DistIs DEF ChainOrigin
<1>6. ChainOrder'
  BY <1>1, <1>2, <1>5 DEF ChainOrder, NoFarther
<1>7. ChainOrigin'
  <2>1. \A m, o : Caused(m, o)' <=> Caused(m, o)
    BY <1>2, <1>5 DEF Caused
  <2>2. 1..(head - 1) \subseteq 1..(head' - 1)
    BY <1>2, <1>3
  <2> QED
    BY <1>1, <1>2, <1>4, <1>5, <2>1, <2>2 DEF ChainOrigin
<1>8. ChainFrontier'
  <2>1. task.roots \subseteq OnList
    BY <1>1, <1>2 DEF PropagationComplete
  <2>2. \A n \in OnList : Dist(n) <= Dist(list[head]) + 1
    <3>1. CASE cur = 0
      <4>1. \A n \in OnList : Dist(n) = 0
        BY <1>1, <1>3, <3>1, RootsAreNear DEF ChainFrontier
      <4> QED
        BY <1>3, <4>1
    <3>2. CASE cur # 0
      <4>1. /\ head # 1 /\ cur = list[head - 1]
            /\ \A n \in OnList : Dist(n) <= Dist(cur) + 1
        BY <1>1, <3>2 DEF ChainFrontier
      <4>2. head - 1 \in 1..Len(list) /\ head - 1 < head
        BY <1>3, <4>1
      <4>3. Dist(cur) <= Dist(list[head]) /\ cur \in OnList
        BY <1>1, <1>3, <4>1, <4>2 DEF ChainOrder, NoFarther, OnList
      <4>4. Dist(cur) \in Nat /\ Dist(list[head]) \in Nat
        BY <1>3, <1>5, <4>3
      <4> QED
        BY <1>5, <4>1, <4>3, <4>4
    <3> QED
      BY <3>1, <3>2
  <2>3. \A i \in 1..(head - 1) : searched.children[list[i]] \subseteq OnList
    BY <1>1, <1>2 DEF PropagationComplete
  <2>4. head' # 1 /\ head' - 1 = head /\ head' - 2 = head - 1
    BY <1>2, <1>3
  <2>5. \A n \in OnList' : Dist(n)' <= Dist(cur)' + 1
    BY <1>2, <1>4, <1>5, <2>2
  <2> QED
    BY <1>2, <1>4, <2>1, <2>3, <2>4, <2>5 DEF ChainFrontier
<1> QED
  BY <1>6, <1>7, <1>8 DEF ChainInv

(* While the children of cur are looked at, what is as near as cur was reached. *)
LEMMA UnreachedIsFarther ==
    ASSUME PropagationTypeOK, RootsAndGraph, ChainOrder, ChainOrigin, ChainFrontier, cur # 0,
           NEW m, Reached(m), m \notin OnList
    PROVE  ~ Dist(m) <= Dist(cur)
<1>1. PICK missed : missed = {d \in Nat : \E o : Reached(o) /\ o \notin OnList /\ Dist(o) = d}
  OBVIOUS
<1>2. head \in 2..(Len(list) + 1) /\ Len(list) \in Nat /\ cur = list[head - 1]
  BY DEF PropagationTypeOK, ChainFrontier
<1>3. head - 1 \in 1..Len(list) /\ cur \in OnList
  BY <1>2 DEF OnList
<1>4. Dist(cur) \in Nat /\ Dist(m) \in Nat
  BY <1>3, DistIs DEF ChainOrigin
<1>5. PICK d : d = Least(missed)
  OBVIOUS
<1>6. d \in missed /\ \A k \in missed : d <= k
  <2>1. missed \in SUBSET Nat /\ Dist(m) \in missed
    BY <1>1, <1>4
  <2> QED
    BY <1>5, <2>1, LeastOf
<1>7. PICK o : Reached(o) /\ o \notin OnList /\ Dist(o) = d
  BY <1>1, <1>6
<1>8. Dist(o) # 0
  BY <1>7, RootsAreNear DEF ChainFrontier
<1>9. PICK p : Reached(p) /\ o \in searched.children[p] /\ Dist(o) = Dist(p) + 1
  BY <1>7, <1>8, ParentIsNearer
<1>10. Dist(p) \in Nat /\ Dist(o) \in Nat
  BY <1>7, <1>9, DistIs
<1>11. p \in OnList
  <2>1. Dist(p) \notin missed
    BY <1>6, <1>7, <1>9, <1>10
  <2> QED
    BY <1>1, <1>9, <1>10, <2>1
<1>12. PICK i \in 1..Len(list) : p = list[i]
  BY <1>11 DEF OnList
<1>13. ~ Dist(o) <= Dist(cur)
  <2> SUFFICES ASSUME Dist(o) <= Dist(cur) PROVE FALSE
    OBVIOUS
  <2>1. Dist(p) < Dist(cur)
    BY <1>4, <1>9, <1>10
  <2>2. ~ (head - 1 < i)
    BY <1>2, <1>3, <1>4, <1>10, <1>12, <2>1 DEF ChainOrder, NoFarther
  <2>3. i # head - 1
    BY <1>2, <1>4, <1>10, <1>12, <2>1
  <2>4. i \in 1..(head - 2)
    BY <1>2, <1>12, <2>2, <2>3
  <2>5. searched.children[p] \subseteq OnList
    BY <1>12, <2>4 DEF ChainFrontier
  <2> QED
    BY <1>7, <1>9, <2>5
<1>14. Dist(m) \in missed
  BY <1>1, <1>4
<1> QED
  BY <1>4, <1>6, <1>7, <1>10, <1>13, <1>14

(* A child that is reached for the first time is one arc farther than cur, and  *)
(* no root as near comes before cur's.                                          *)
LEMMA FirstReached ==
    ASSUME PropagationTypeOK, RootsAndGraph, ChainOrder, ChainOrigin, ChainFrontier, cur # 0,
           NEW n \in searched.children[cur], n \notin OnList
    PROVE  Reached(n) /\ Caused(n, cur)
<1>1. head \in 2..(Len(list) + 1) /\ Len(list) \in Nat /\ cur = list[head - 1]
  BY DEF PropagationTypeOK, ChainFrontier
<1>2. head - 1 \in 1..Len(list) /\ cur \in OnList /\ Reached(cur)
  BY <1>1 DEF OnList, ChainOrigin
<1>3. /\ Reached(n) /\ Dist(n) <= Dist(cur) + 1
      /\ Dist(n) = Dist(cur) + 1 => Nearest(n) <= Nearest(cur)
  BY <1>2, ChildIsNear
<1>4. Dist(n) \in Nat /\ Dist(cur) \in Nat
  BY <1>2, <1>3, DistIs
<1>5. ~ Dist(n) <= Dist(cur)
  BY <1>3, UnreachedIsFarther
<1>6. Dist(n) = Dist(cur) + 1
  BY <1>3, <1>4, <1>5
<1>7. PICK p : /\ Reached(p) /\ n \in searched.children[p]
               /\ Dist(n) = Dist(p) + 1 /\ Nearest(p) = Nearest(n)
  BY <1>3, <1>4, <1>6, ParentIsNearer
<1>8. Dist(p) \in Nat /\ Dist(p) = Dist(cur)
  BY <1>4, <1>6, <1>7, DistIs
<1>9. p \in OnList
  BY <1>4, <1>7, <1>8, UnreachedIsFarther
<1>10. PICK i \in 1..Len(list) : p = list[i]
  BY <1>9 DEF OnList
<1>11. i \notin 1..(head - 2)
  BY <1>7, <1>10 DEF ChainFrontier
<1>12. i = head - 1 \/ head - 1 < i
  BY <1>1, <1>10, <1>11
<1>13. Nearest(cur) \in Nat /\ Nearest(p) \in Nat
  BY <1>2, <1>7, DistIs DEF RootsAndGraph, WellFormed
<1>14. Nearest(cur) <= Nearest(p)
  <2>1. CASE i = head - 1
    BY <1>1, <1>10, <1>13, <2>1
  <2>2. CASE head - 1 < i
    BY <1>1, <1>2, <1>8, <1>10, <2>2 DEF ChainOrder, NoFarther
  <2> QED
    BY <1>12, <2>1, <2>2
<1>15. Nearest(n) = Nearest(cur)
  BY <1>3, <1>6, <1>7, <1>13, <1>14
<1> QED
  BY <1>3, <1>6, <1>15 DEF Caused

LEMMA VisitChildChain ==
    ASSUME PropagationInv, ChainInv, VisitChild
    PROVE  ChainInv'
<1>1. PICK n : n = Least(todo)
  OBVIOUS
<1>2. /\ PropagationTypeOK /\ PropagationSound /\ PropagationComplete
      /\ ChainOrder /\ ChainOrigin /\ ChainFrontier
      /\ todo # {} /\ cur # 0
  BY DEF PropagationInv, ChainInv, VisitChild
<1>3. RootsAndGraph /\ todo \in SUBSET Nat
  BY <1>2 DEF PropagationTypeOK, WellFormed, RootsAndGraph
<1>4. n \in todo /\ n \in searched.nodes /\ n \in searched.children[cur]
  <2>1. n \in todo
    BY <1>1, <1>2, <1>3, LeastOf
  <2> QED
    BY <1>2, <2>1 DEF PropagationTypeOK, ChainFrontier
<1>5. /\ todo' = todo \ {n} /\ UNCHANGED <<searched, task, cur, head>>
      /\ DOMAIN origin = OnList
      /\ n \in OnList => UNCHANGED <<origin, list>>
      /\ n \notin OnList =>
            /\ list' = Append(list, n)
            /\ origin' = [x \in DOMAIN origin \cup {n} |->
                             IF x = n THEN [pred |-> cur, root |-> origin[cur].root]
                                      ELSE origin[x]]
  BY <1>1, <1>2 DEF VisitChild, Reach, NextTodo, PropagationTypeOK
<1>6. /\ \A m : Dist(m)' = Dist(m)
      /\ \A m : Nearest(m)' = Nearest(m)
      /\ \A m : Reached(m)' <=> Reached(m)
      /\ \A m, o : Caused(m, o)' <=> Caused(m, o)
  BY <1>5, DistancesStay DEF Caused
<1>7. CASE n \in OnList
  <2>1. UNCHANGED <<searched, task, cur, head, origin, list>>
    BY <1>5, <1>7
  <2>2. OnList' = OnList
    BY <2>1 DEF OnList
  <2>3. ChainOrder'
    BY <1>2, <1>6, <2>1 DEF ChainOrder, NoFarther
  <2>4. ChainOrigin'
    BY <1>2, <1>6, <2>1, <2>2 DEF ChainOrigin
  <2>5. ChainFrontier'
    BY <1>2, <1>5, <1>6, <2>1, <2>2 DEF ChainFrontier
  <2> QED
    BY <2>3, <2>4, <2>5 DEF ChainInv
<1>8. CASE n \notin OnList
  <2>1. /\ Len(list) \in Nat /\ Len(list') = Len(list) + 1
        /\ \A i \in 1..Len(list) : list'[i] = list[i]
        /\ OnList' = OnList \cup {n}
    BY <1>2, <1>4, <1>5, <1>8, Pushed DEF PropagationTypeOK
  <2>2. head \in 2..(Len(list) + 1) /\ cur = list[head - 1] /\ head - 1 \in 1..Len(list)
    BY <1>2, <2>1 DEF PropagationTypeOK, ChainFrontier
  <2>3. cur \in OnList
    BY <2>2 DEF OnList
  <2>4. Reached(n) /\ Caused(n, cur)
    BY <1>2, <1>3, <1>4, <1>8, FirstReached
  <2>5. /\ Dist(n) = Dist(cur) + 1 /\ Nearest(n) = Nearest(cur)
        /\ Dist(n) \in Nat /\ Dist(cur) \in Nat
        /\ \A m \in OnList : Dist(m) \in Nat /\ Dist(m) <= Dist(n)
    BY <1>2, <1>3, <2>3, <2>4, DistIs DEF Caused, ChainOrigin, ChainFrontier
  <2>6. ASSUME NEW m \in OnList PROVE NoFarther(m, n)
    <3> SUFFICES ASSUME Dist(m) = Dist(n) PROVE Nearest(m) <= Nearest(n)
      BY <2>5, <2>6 DEF NoFarther
    <3>1. Dist(m) # 0
      BY <2>5
    <3>2. PICK i \in 1..(head - 1) : Caused(m, list[i])
      BY <1>2, <2>6, <3>1 DEF ChainOrigin
    <3>3. i \in 1..Len(list) /\ list[i] \in OnList /\ (i = head - 1 \/ i < head - 1)
      BY <2>2, <3>2 DEF OnList
    <3>4. Dist(m) = Dist(list[i]) + 1 /\ Nearest(m) = Nearest(list[i]) /\ Dist(list[i]) \in Nat
      BY <2>5, <3>2, <3>3 DEF Caused
    <3>5. Dist(list[i]) = Dist(cur)
      BY <2>5, <3>4
    <3>6. Nearest(cur) \in Nat
      BY <1>2, <1>3, <2>3, DistIs DEF RootsAndGraph, WellFormed, ChainOrigin
    <3>7. Nearest(list[i]) <= Nearest(cur)
      BY <1>2, <2>2, <3>3, <3>5, <3>6 DEF ChainOrder, NoFarther
    <3> QED
      BY <2>5, <3>4, <3>7
  <2>7. Dist(n) <= Len(list)
    <3>1. Dist(cur) < head - 1
      BY <1>2, <2>2 DEF ChainOrder
    <3> QED
      BY <2>1, <2>2, <2>5, <3>1
  <2>8. ChainOrder'
    BY <1>2, <1>3, <1>4, <1>5, <1>8, <2>5, <2>6, <2>7, OrderedBehind
  <2>9. \A i \in 1..(head - 1) : list'[i] = list[i]
    BY <2>1, <2>2
  <2>10. ChainOrigin'
    <3>1. ASSUME NEW m \in OnList
          PROVE  /\ Reached(m)
                 /\ origin'[m].root = Nearest(m)
                 /\ Dist(m) = 0 => origin'[m].pred = m
                 /\ Dist(m) # 0 => \E i \in 1..(head - 1) :
                                      origin'[m].pred = list'[i] /\ Caused(m, list'[i])
      <4>1. origin'[m] = origin[m]
        BY <1>5, <1>8
      <4> QED
        BY <1>2, <2>9, <4>1 DEF ChainOrigin
    <3>2. /\ Reached(n)
          /\ origin'[n].root = Nearest(n)
          /\ Dist(n) # 0
          /\ origin'[n].pred = list'[head - 1] /\ Caused(n, list'[head - 1])
      <4>1. origin'[n].pred = cur /\ origin'[n].root = origin[cur].root
        BY <1>5, <1>8
      <4>2. origin[cur].root = Nearest(cur)
        BY <1>2, <2>3 DEF ChainOrigin
      <4>3. list'[head - 1] = cur
        BY <2>1, <2>2
      <4> QED
        BY <2>4, <2>5, <4>1, <4>2, <4>3
    <3>3. head - 1 \in 1..(head - 1)
      BY <2>2
    <3>4. ASSUME NEW m \in OnList'
          PROVE  /\ Reached(m)'
                 /\ origin'[m].root = Nearest(m)'
                 /\ Dist(m)' = 0 => origin'[m].pred = m
                 /\ Dist(m)' # 0 => \E i \in 1..(head - 1) :
                                      origin'[m].pred = list'[i] /\ Caused(m, list'[i])
      <4>1. CASE m = n
        BY <1>6, <3>2, <3>3, <4>1
      <4>2. CASE m # n
        BY <1>6, <2>1, <3>1, <4>2
      <4> QED
        BY <4>1, <4>2
    <3>5. \A m, i : Caused(m, list[i])' <=> Caused(m, list'[i])
      BY <1>5, <1>6 DEF Caused
    <3> QED
      BY <1>5, <3>4, <3>5 DEF ChainOrigin
  <2>11. ChainFrontier'
    <3>1. \A m \in OnList' : Dist(m) <= Dist(cur) + 1
      BY <1>2, <2>1, <2>5 DEF ChainFrontier
    <3>2. \A m \in OnList' : Dist(m)' <= Dist(cur)' + 1
      BY <1>5, <1>6, <3>1
    <3>3. head # 1 /\ cur = list'[head - 1]
      BY <2>1, <2>2
    <3>4. \A i \in 1..(head - 2) : searched.children[list'[i]] \subseteq OnList'
      <4>1. \A i \in 1..(head - 2) : list'[i] = list[i]
        BY <2>1, <2>2
      <4> QED
        BY <1>2, <2>1, <4>1 DEF ChainFrontier
    <3> QED
      BY <1>2, <1>5, <2>1, <3>2, <3>3, <3>4 DEF ChainFrontier
  <2> QED
    BY <2>8, <2>10, <2>11 DEF ChainInv
<1> QED
  BY <1>7, <1>8

LEMMA ChainUntouched ==
    ASSUME ChainInv,
           \/ WalkPush \/ WalkPop \/ CyclePop \/ CycleVisit
           \/ TakeReady \/ Decrement
    PROVE  ChainInv'
<1>1. task' = task /\ task.op # "invalidate"
  BY DEF WalkPush, WalkPop, CyclePop, CycleVisit, TakeReady, Decrement, Walks
<1> QED
  BY <1>1 DEF ChainInv

LEMMA ChainStutters ==
    ASSUME ChainInv, UNCHANGED searchVars
    PROVE  ChainInv'
<1>1. UNCHANGED <<searched, task, list, todo, cur, head, origin>>
  BY DEF searchVars, walkVars, otherVars
<1>2. OnList' = OnList
  BY <1>1 DEF OnList
<1>3. /\ \A m : Dist(m)' = Dist(m)
      /\ \A m : Nearest(m)' = Nearest(m)
      /\ \A m : Reached(m)' <=> Reached(m)
      /\ \A m, o : Caused(m, o)' <=> Caused(m, o)
  BY <1>1, DistancesStay DEF Caused
<1>4. ChainOrder' <=> ChainOrder
  BY <1>1, <1>3 DEF ChainOrder, NoFarther
<1>5. ChainOrigin' <=> ChainOrigin
  BY <1>1, <1>2, <1>3 DEF ChainOrigin
<1>6. ChainFrontier' <=> ChainFrontier
  BY <1>1, <1>2, <1>3 DEF ChainFrontier
<1> QED
  BY <1>1, <1>4, <1>5, <1>6 DEF ChainInv

(* path_to goes from a node to its predecessor, as often as there are nodes.    *)
LEMMA BackIterates ==
    ASSUME Len(list) \in Nat, NEW n \in OnList, \A m \in OnList : origin[m].pred \in OnList
    PROVE  /\ Back(n)[0] = n
           /\ \A k \in Nat : k < Len(list) => Back(n)[k + 1] = origin[Back(n)[k]].pred
<1>1. PICK L \in Nat : L = Len(list)
  OBVIOUS
<1>2. PICK pred \in [OnList -> OnList] : \A m \in OnList : pred[m] = origin[m].pred
  <2>1. [m \in OnList |-> origin[m].pred] \in [OnList -> OnList]
    OBVIOUS
  <2> QED
    BY <2>1
<1>3. PICK f \in [0..L -> OnList] : IsIteration(f, L, pred, n)
  BY Iterates
<1> DEFINE Rec(g) == g = [k \in 0..L |-> IF k = 0 THEN n ELSE origin[g[k - 1]].pred]
<1>4. Rec(f)
  <2>1. f[0] = n
    BY <1>3 DEF IsIteration
  <2>2. ASSUME NEW k \in 0..L, k # 0
        PROVE  f[k] = origin[f[k - 1]].pred
    <3>1. k - 1 \in Nat /\ k - 1 < L /\ (k - 1) + 1 = k /\ k - 1 \in 0..L
      BY <2>2
    <3>2. f[(k - 1) + 1] = pred[f[k - 1]]
      BY <3>1, <1>3 DEF IsIteration
    <3>3. f[k - 1] \in OnList
      BY <3>1, <1>3
    <3> QED
      BY <3>1, <3>2, <3>3, <1>2
  <2> QED
    BY <1>3, <2>1, <2>2
<1>5. Rec(Back(n))
  <2>1. Rec(CHOOSE g : Rec(g))
    BY <1>4
  <2>2. Back(n) = CHOOSE g : Rec(g)
    BY <1>1 DEF Back
  <2> QED
    BY <2>1, <2>2
<1>6. Back(n)[0] = n
  BY <1>5
<1>7. ASSUME NEW k \in Nat, k < L
      PROVE  Back(n)[k + 1] = origin[Back(n)[k]].pred
  <2>1. k + 1 \in 0..L /\ k + 1 # 0 /\ (k + 1) - 1 = k
    BY <1>7
  <2>2. PICK g : g = Back(n) /\ Rec(g)
    BY <1>5
  <2>3. g[k + 1] = origin[g[(k + 1) - 1]].pred
    BY <2>1, <2>2
  <2> QED
    BY <2>1, <2>2, <2>3
<1> QED
  BY <1>1, <1>6, <1>7

(* Every step back is an arc nearer to the same root.                           *)
LEMMA ChainLeadsBack ==
    ASSUME PropagationTypeOK, RootsAndGraph, ChainOrder, ChainOrigin,
           head = Len(list) + 1, NEW n \in OnList
    PROVE  /\ Dist(n) \in Nat /\ Dist(n) < Len(list)
           /\ \A k \in 0..Dist(n) :
                 /\ Back(n)[k] \in OnList
                 /\ Dist(Back(n)[k]) = Dist(n) - k
                 /\ Nearest(Back(n)[k]) = Nearest(n)
           /\ \A k \in Nat : k < Dist(n) =>
                 /\ Back(n)[k + 1] = origin[Back(n)[k]].pred
                 /\ Caused(Back(n)[k], Back(n)[k + 1])
<1>1. Len(list) \in Nat /\ head - 1 = Len(list)
  BY DEF PropagationTypeOK
<1>2. ASSUME NEW m \in OnList
      PROVE  /\ Dist(m) \in Nat /\ Dist(m) < Len(list)
             /\ origin[m].pred \in OnList
             /\ Dist(m) = 0 => origin[m].pred = m
             /\ Dist(m) # 0 => Caused(m, origin[m].pred)
  <2>1. PICK i \in 1..Len(list) : m = list[i]
    BY <1>2 DEF OnList
  <2>2. Dist(m) \in Nat /\ Dist(m) < i
    BY <1>2, <2>1, DistIs DEF ChainOrigin, ChainOrder
  <2>3. Dist(m) # 0 => \E j \in 1..Len(list) : origin[m].pred = list[j] /\ Caused(m, list[j])
    BY <1>1, <1>2 DEF ChainOrigin
  <2>4. Dist(m) = 0 => origin[m].pred = m
    BY <1>2 DEF ChainOrigin
  <2> QED
    BY <1>1, <1>2, <2>1, <2>2, <2>3, <2>4 DEF OnList
<1>3. PICK d \in Nat : d = Dist(n)
  BY <1>2
<1>4. PICK g : g = Back(n)
  OBVIOUS
<1>5. g[0] = n /\ \A k \in Nat : k < Len(list) => g[k + 1] = origin[g[k]].pred
  BY <1>1, <1>2, <1>4, BackIterates
<1>6. PICK good : good = {k \in Nat : /\ g[k] \in OnList
                                      /\ Dist(g[k]) = d - k
                                      /\ Nearest(g[k]) = Nearest(n)}
  OBVIOUS
<1>7. 0 \in good
  BY <1>3, <1>5, <1>6
<1>8. ASSUME NEW k \in Nat, k < d, k \in good
      PROVE  k + 1 \in good /\ g[k + 1] = origin[g[k]].pred /\ Caused(g[k], g[k + 1])
  <2>1. k < Len(list) /\ g[k] \in OnList /\ Dist(g[k]) = d - k /\ Nearest(g[k]) = Nearest(n)
    BY <1>1, <1>2, <1>3, <1>6, <1>8
  <2>2. g[k + 1] = origin[g[k]].pred /\ Dist(g[k]) # 0
    BY <1>5, <1>8, <2>1
  <2>3. g[k + 1] \in OnList /\ Caused(g[k], g[k + 1]) /\ Dist(g[k + 1]) \in Nat
    BY <1>2, <2>1, <2>2
  <2>4. Dist(g[k + 1]) = d - (k + 1) /\ Nearest(g[k + 1]) = Nearest(n)
    BY <1>8, <2>1, <2>3 DEF Caused
  <2> QED
    BY <1>6, <2>2, <2>3, <2>4
<1>9. \A k \in 0..d : k \in good
  BY <1>7, <1>8, UpTo
<1>10. \A k \in Nat : k < d => g[k + 1] = origin[g[k]].pred /\ Caused(g[k], g[k + 1])
  <2>1. ASSUME NEW k \in Nat, k < d PROVE k \in good
    <3>1. k \in 0..d
      BY <2>1
    <3> QED
      BY <1>9, <3>1
  <2> QED
    BY <1>8, <2>1
<1> QED
  BY <1>2, <1>3, <1>4, <1>6, <1>9, <1>10

LEMMA ChainResult == PropagationInv /\ ChainInv => ChainsAreShortest
<1> SUFFICES ASSUME PropagationInv, ChainInv, PropagationDone, NEW n \in DOMAIN origin
             PROVE  /\ \A k \in 0..(PathLength(n) - 1) :
                          Back(n)[k] \in searched.children[Back(n)[k + 1]]
                    /\ Back(n)[PathLength(n)] = origin[n].root
                    /\ PathLength(n) = Distance(n)
                    /\ origin[n].root = Least({r \in task.roots : n \in Within(Distance(n))[r]})
  BY DEF ChainsAreShortest
<1>1. /\ PropagationTypeOK /\ PropagationSound
      /\ ChainOrder /\ ChainOrigin
  BY DEF PropagationInv, ChainInv, PropagationDone
<1>2. RootsAndGraph /\ n \in OnList /\ Len(list) \in Nat /\ head = Len(list) + 1
  BY <1>1 DEF PropagationTypeOK, RootsAndGraph, PropagationDone
<1>3. PICK g : g = Back(n)
  OBVIOUS
<1>4. PICK d : d = Dist(n)
  OBVIOUS
<1>5. /\ d \in Nat /\ d < Len(list)
      /\ \A k \in 0..d : g[k] \in OnList /\ Dist(g[k]) = d - k /\ Nearest(g[k]) = Nearest(n)
      /\ \A k \in Nat : k < d => g[k + 1] = origin[g[k]].pred /\ Caused(g[k], g[k + 1])
  BY <1>1, <1>2, <1>3, <1>4, ChainLeadsBack
<1>6. PathLength(n) = d
  <2>1. PICK stops : stops = {k \in 0..Len(list) : origin[g[k]].pred = g[k]}
    OBVIOUS
  <2>2. d \in stops
    <3>1. g[d] \in OnList /\ Dist(g[d]) = 0
      BY <1>5
    <3> QED
      BY <1>1, <1>2, <1>5, <2>1, <3>1 DEF ChainOrigin
  <2>3. ASSUME NEW k \in stops PROVE d <= k
    <3> SUFFICES ASSUME k < d PROVE FALSE
      BY <1>2, <1>5, <2>1
    <3>1. k \in Nat /\ k \in 0..d /\ k + 1 \in 0..d
      BY <1>2, <1>5, <2>1
    <3>2. Dist(g[k]) = d - k /\ Dist(g[k + 1]) = d - (k + 1)
      BY <1>5, <3>1
    <3>3. g[k + 1] = g[k]
      BY <1>5, <2>1, <3>1
    <3> QED
      BY <1>5, <3>1, <3>2, <3>3
  <2>4. stops \in SUBSET Nat
    BY <2>1
  <2>5. /\ Least(stops) \in Nat /\ Least(stops) <= d
        /\ d <= Least(stops)
    BY <2>2, <2>3, <2>4, LeastOf
  <2>6. PathLength(n) = Least(stops)
    BY <1>3, <2>1 DEF PathLength
  <2> QED
    BY <1>5, <2>5, <2>6
<1>7. Distance(n) = d
  <2>1. PICK C : C = Cardinality(searched.nodes)
    OBVIOUS
  <2>2. C \in Nat /\ d <= C
    <3>1. list \in Seq(searched.nodes) /\ NoRepeats /\ IsFiniteSet(searched.nodes)
      BY <1>1 DEF PropagationTypeOK, PropagationSound, WellFormed
    <3>2. OnList \subseteq searched.nodes /\ Cardinality(OnList) = Len(list)
      BY <3>1, ListedOnce
    <3>3. Cardinality(OnList) <= C
      BY <2>1, <3>1, <3>2, FS_Subset
    <3>4. C \in Nat
      BY <2>1, <3>1, FS_CardinalityType
    <3> QED
      BY <1>2, <1>5, <3>2, <3>3, <3>4
  <2>3. PICK ks : ks = {k \in 0..C : \E r \in task.roots : n \in Within(k)[r]}
    OBVIOUS
  <2>4. /\ \E r \in task.roots : n \in Within(d)[r]
        /\ \A k \in Nat : \A r \in task.roots : n \in Within(k)[r] => d <= k
    BY <1>1, <1>2, <1>4, DistIs DEF ChainOrigin
  <2>5. d \in ks /\ ks \in SUBSET Nat
    BY <1>5, <2>2, <2>3, <2>4
  <2>6. \A k \in ks : d <= k
    BY <2>2, <2>3, <2>4
  <2>7. Least(ks) \in ks /\ Least(ks) <= d
    BY <2>5, LeastOf
  <2>8. Distance(n) = Least(ks)
    BY <2>1, <2>3 DEF Distance
  <2> QED
    BY <1>5, <2>5, <2>6, <2>7, <2>8
<1>8. origin[n].root = Nearest(n)
  BY <1>1, <1>2 DEF ChainOrigin
<1>9. Back(n)[PathLength(n)] = origin[n].root
  <2>1. g[d] \in OnList /\ Dist(g[d]) = 0 /\ Nearest(g[d]) = Nearest(n)
    BY <1>5
  <2>2. Nearest(g[d]) = g[d]
    BY <1>1, <1>2, <2>1, RootsAreNear DEF ChainOrigin
  <2> QED
    BY <1>3, <1>6, <1>8, <2>1, <2>2
<1>10. \A k \in 0..(PathLength(n) - 1) : Back(n)[k] \in searched.children[Back(n)[k + 1]]
  <2>1. \A k \in 0..(d - 1) : k \in Nat /\ k < d
    BY <1>5
  <2> QED
    BY <1>3, <1>5, <1>6, <2>1 DEF Caused
<1>11. origin[n].root = Least({r \in task.roots : n \in Within(Distance(n))[r]})
  BY <1>4, <1>7, <1>8 DEF Nearest
<1> QED
  BY <1>6, <1>7, <1>9, <1>10, <1>11

(* For every graph and every set of roots, the chain that path_to rebuilds for  *)
(* an affected subject is as short as any from a root, and starts at the least  *)
(* of the nearest roots.                                                        *)
THEOREM ChainsAreShortestOfAll == SearchSpec => []ChainsAreShortest
<1>1. PropagationInv /\ ChainInv /\ [SearchNext]_searchVars => (PropagationInv /\ ChainInv)'
  BY SeedStep, TakeHeadStep, VisitChildStep, PropagationUntouched, PropagationStutters,
     SeedChain, TakeHeadChain, VisitChildChain, ChainUntouched, ChainStutters
     DEF SearchNext
<1>2. SearchSpec => [](PropagationInv /\ ChainInv)
  BY <1>1, PropagationStarts, ChainStarts, PTL DEF SearchSpec
<1> QED
  BY <1>2, ChainResult, PTL

----------------------------------------------------------------------------
(* The order.  Kahn's algorithm counts, for every node, the parents that are   *)
(* not placed yet; those the inner loop has still to tell the children of cur *)
(* about count as well.                                                       *)

Before(i) == {list[j] : j \in 1..(i - 1)}

Owed(n) == IF n \in todo THEN (searched.parents[n] \ OnList) \cup {cur}
                         ELSE searched.parents[n] \ OnList

KahnTypeOK ==
    /\ searched.nodes \subseteq Nat \ {0}
    /\ IsFiniteSet(searched.nodes)
    /\ \A n \in searched.nodes : IsFiniteSet(searched.parents[n])
    /\ searched.children = [n \in searched.nodes |->
                               {c \in searched.nodes : n \in searched.parents[c]}]
    /\ list \in Seq(searched.nodes)
    /\ NoRepeats
    /\ todo # {} => cur \in OnList /\ todo \subseteq searched.children[cur]

KahnCounts ==
    /\ inDegree = [n \in searched.nodes |-> Cardinality(Owed(n))]
    /\ ready = {n \in searched.nodes \ OnList : Owed(n) = {}}
    /\ \A n \in OnList : Owed(n) = {}

(* Each node was the least of those that could be placed where it was placed. *)
KahnOrder ==
    \A i \in 1..Len(list) :
        /\ searched.parents[list[i]] \subseteq Before(i)
        /\ \A n \in searched.nodes \ Before(i) :
              searched.parents[n] \subseteq Before(i) => list[i] <= n

Kahn == KahnTypeOK /\ KahnCounts /\ KahnOrder

KahnInv == task.op = "order" => Kahn

(* The inputs of the algorithm: GraphOfParents of a file. *)
LEMMA KahnStarts ==
    ASSUME /\ searched.nodes \subseteq Nat \ {0}
           /\ IsFiniteSet(searched.nodes)
           /\ \A n \in searched.nodes : IsFiniteSet(searched.parents[n])
           /\ searched.children = [n \in searched.nodes |->
                                     {c \in searched.nodes : n \in searched.parents[c]}],
           list = <<>>, todo = {},
           inDegree = [n \in searched.nodes |-> Cardinality(searched.parents[n])],
           ready = {n \in searched.nodes : inDegree[n] = 0}
    PROVE  Kahn
<1>1. OnList = {} /\ Len(list) = 0 /\ list \in Seq(searched.nodes)
  BY NothingOnList
<1>2. \A n \in searched.nodes : Owed(n) = searched.parents[n]
  BY <1>1 DEF Owed
<1>3. KahnTypeOK /\ KahnOrder
  BY <1>1 DEF KahnTypeOK, KahnOrder, NoRepeats
<1>4. inDegree = [n \in searched.nodes |-> Cardinality(Owed(n))]
  BY <1>2
<1>5. \A n \in searched.nodes : inDegree[n] = 0 <=> Owed(n) = {}
  BY <1>2, FS_EmptySet
<1>6. KahnCounts
  BY <1>1, <1>4, <1>5 DEF KahnCounts
<1> QED
  BY <1>3, <1>6 DEF Kahn

LEMMA TakeReadyStep ==
    ASSUME Kahn, TakeReady
    PROVE  Kahn'
<1> DEFINE m == Least(ready)
<1>1. KahnTypeOK /\ KahnCounts /\ KahnOrder
  BY DEF Kahn
<1>2. /\ todo = {} /\ cur' = m /\ ready' = ready \ {m} /\ list' = Append(list, m)
      /\ todo' = searched.children[m] /\ UNCHANGED <<searched, inDegree>>
  BY DEF TakeReady
<1>3. ready # {} /\ ready \subseteq Nat
  BY <1>1 DEF TakeReady, KahnCounts, KahnTypeOK
<1>4. m \in ready /\ \A n \in ready : m <= n
  BY <1>3, LeastOf
<1> HIDE DEF m
<1>5. /\ m \in searched.nodes /\ m \notin OnList /\ Owed(m) = {}
      /\ \A n \in searched.nodes : Owed(n) = searched.parents[n] \ OnList
  BY <1>1, <1>2, <1>4 DEF KahnCounts, Owed
<1>6. list' \in Seq(searched.nodes) /\ OnList' = OnList \cup {m}
  BY <1>1, <1>2, <1>5, Pushed DEF KahnTypeOK
<1>7. /\ Len(list') = Len(list) + 1 /\ Len(list) \in Nat
      /\ \A i \in 1..Len(list) : list'[i] = list[i]
      /\ list'[Len(list) + 1] = m
  BY <1>1, <1>2, <1>5 DEF KahnTypeOK
<1>8. \A i \in 1..Len(list) : list[i] # m
  BY <1>5 DEF OnList
<1>9. NoRepeats'
  BY <1>1, <1>7, <1>8 DEF NoRepeats, KahnTypeOK
<1>10. searched.children[m] = {c \in searched.nodes : m \in searched.parents[c]}
  BY <1>1, <1>5 DEF KahnTypeOK
<1>11. \A n \in searched.nodes : Owed(n)' = Owed(n)
  BY <1>2, <1>5, <1>6, <1>10 DEF Owed
<1>12. KahnTypeOK'
  BY <1>1, <1>2, <1>6, <1>9 DEF KahnTypeOK
<1>13. KahnCounts'
  <2>1. inDegree' = [n \in searched'.nodes |-> Cardinality(Owed(n)')]
    BY <1>1, <1>2, <1>11 DEF KahnCounts
  <2>2. ready' = {n \in searched'.nodes \ OnList' : Owed(n)' = {}}
    BY <1>1, <1>2, <1>6, <1>11 DEF KahnCounts
  <2>3. OnList \subseteq searched.nodes
    BY <1>1 DEF KahnTypeOK, OnList
  <2>4. \A n \in OnList' : Owed(n)' = {}
    BY <2>3, <1>1, <1>5, <1>6, <1>11 DEF KahnCounts
  <2> QED
    BY <2>1, <2>2, <2>4 DEF KahnCounts
<1>14. KahnOrder'
  <2> SUFFICES ASSUME NEW i \in 1..Len(list')
               PROVE  /\ searched.parents[list'[i]] \subseteq Before(i)'
                      /\ \A n \in searched.nodes \ Before(i)' :
                            searched.parents[n] \subseteq Before(i)' => list'[i] <= n
    BY <1>2 DEF KahnOrder
  <2>1. Before(i)' = Before(i)
    BY <1>7 DEF Before
  <2>2. CASE i \in 1..Len(list)
    BY <2>1, <2>2, <1>1, <1>7 DEF KahnOrder
  <2>3. CASE i = Len(list) + 1
    <3>1. Before(i) = OnList /\ list'[i] = m
      BY <2>3, <1>7 DEF Before, OnList
    <3>2. ASSUME NEW n \in searched.nodes \ OnList, searched.parents[n] \subseteq OnList
          PROVE  m <= n
      <4>1. Owed(n) = {}
        BY <3>2, <1>5
      <4>2. n \in ready
        BY <4>1, <1>1 DEF KahnCounts
      <4> QED
        BY <4>2, <1>4
    <3> QED
      BY <3>1, <3>2, <2>1, <1>5
  <2> QED
    BY <2>2, <2>3, <1>7
<1> QED
  BY <1>12, <1>13, <1>14 DEF Kahn

LEMMA DecrementStep ==
    ASSUME Kahn, Decrement
    PROVE  Kahn'
<1>0. PICK x : x = Least(todo)
  OBVIOUS
<1>1. KahnTypeOK /\ KahnCounts /\ KahnOrder
  BY DEF Kahn
<1>2. /\ todo # {} /\ todo' = todo \ {x}
      /\ inDegree' = [inDegree EXCEPT ![x] = inDegree[x] - 1]
      /\ ready' = IF inDegree[x] = 1 THEN ready \cup {x} ELSE ready
      /\ UNCHANGED <<searched, list, cur>>
  BY <1>0 DEF Decrement, NextTodo
<1>3. cur \in OnList /\ todo \subseteq searched.children[cur] /\ OnList \subseteq searched.nodes
  <2>1. list \in Seq(searched.nodes)
    BY <1>1 DEF KahnTypeOK
  <2>2. OnList \subseteq searched.nodes
    BY <2>1 DEF OnList
  <2> QED
    BY <2>2, <1>1, <1>2 DEF KahnTypeOK
<1>4. \A n \in todo : n \in searched.nodes /\ cur \in searched.parents[n]
  BY <1>1, <1>3 DEF KahnTypeOK
<1>5. x \in todo
  BY <1>0, <1>1, <1>2, <1>4, LeastOf DEF KahnTypeOK
<1>6. UNCHANGED <<OnList, NoRepeats>> /\ \A i \in 1..Len(list) : Before(i)' = Before(i)
  BY <1>2 DEF OnList, NoRepeats, Before
<1>7. x \in searched.nodes /\ cur \in Owed(x) /\ Owed(x) = (searched.parents[x] \ OnList) \cup {cur}
  BY <1>4, <1>5 DEF Owed
<1>8. Owed(x)' = Owed(x) \ {cur}
  BY <1>2, <1>3, <1>5, <1>6, <1>7 DEF Owed
<1>9. \A n \in searched.nodes \ {x} : Owed(n)' = Owed(n)
  BY <1>2, <1>6 DEF Owed
<1>10. IsFiniteSet(Owed(x)) /\ IsFiniteSet(Owed(x)')
  <2>1. IsFiniteSet(searched.parents[x] \ OnList)
    BY <1>1, <1>7, FS_Difference DEF KahnTypeOK
  <2>2. IsFiniteSet(Owed(x))
    BY <2>1, <1>7, FS_AddElement
  <2> QED
    BY <2>2, <1>8, FS_RemoveElement
<1>11. Cardinality(Owed(x)) \in Nat /\ Cardinality(Owed(x)') = Cardinality(Owed(x)) - 1
  BY <1>7, <1>8, <1>10, FS_RemoveElement, FS_CardinalityType
<1>12. inDegree[x] = 1 <=> Owed(x)' = {}
  <2>1. inDegree[x] = Cardinality(Owed(x))
    BY <1>1, <1>7 DEF KahnCounts
  <2>2. Cardinality(Owed(x)') = 0 <=> Owed(x)' = {}
    BY <1>10, FS_EmptySet
  <2> QED
    BY <2>1, <2>2, <1>11
<1>13. x \notin OnList /\ x \notin ready
  BY <1>1, <1>7 DEF KahnCounts
<1>14. KahnTypeOK'
  BY <1>1, <1>2, <1>3, <1>6 DEF KahnTypeOK
<1>15. KahnCounts'
  <2>1. inDegree' = [n \in searched'.nodes |-> Cardinality(Owed(n)')]
    BY <1>1, <1>2, <1>7, <1>9, <1>11 DEF KahnCounts
  <2>2. ready' = {n \in searched'.nodes \ OnList' : Owed(n)' = {}}
    <3>1. \A n \in searched.nodes \ OnList :
             Owed(n)' = {} <=> IF n = x THEN inDegree[x] = 1 ELSE Owed(n) = {}
      BY <1>9, <1>12
    <3> QED
      BY <3>1, <1>1, <1>2, <1>6, <1>7, <1>13 DEF KahnCounts
  <2>3. \A n \in OnList' : Owed(n)' = {}
    BY <1>1, <1>3, <1>6, <1>9, <1>13 DEF KahnCounts
  <2> QED
    BY <2>1, <2>2, <2>3 DEF KahnCounts
<1>16. KahnOrder'
  BY <1>1, <1>2, <1>6 DEF KahnOrder
<1> QED
  BY <1>14, <1>15, <1>16 DEF Kahn

LEMMA KahnUntouched ==
    ASSUME KahnInv,
           \/ WalkPush \/ WalkPop \/ CyclePop \/ CycleVisit
           \/ Seed \/ TakeHead \/ VisitChild
    PROVE  KahnInv'
<1>1. task' = task /\ task.op # "order"
  BY DEF WalkPush, WalkPop, CyclePop, CycleVisit, Seed, TakeHead, VisitChild, Walks
<1> QED
  BY <1>1 DEF KahnInv

LEMMA KahnStutters ==
    ASSUME Kahn, UNCHANGED <<searched, list, todo, cur, inDegree, ready>>
    PROVE  Kahn'
<1>1. UNCHANGED OnList /\ NoRepeats' = NoRepeats
  BY DEF OnList, NoRepeats
<1>2. \A n : Owed(n)' = Owed(n)
  BY <1>1 DEF Owed
<1>3. \A i : Before(i)' = Before(i)
  BY DEF Before
<1>4. KahnTypeOK => KahnTypeOK'
  BY <1>1 DEF KahnTypeOK
<1>5. KahnCounts => KahnCounts'
  BY <1>1, <1>2 DEF KahnCounts
<1>6. KahnOrder => KahnOrder'
  BY <1>3 DEF KahnOrder
<1> QED
  BY <1>4, <1>5, <1>6 DEF Kahn

LEMMA OrderStarts == SearchInit => KahnInv
<1> SUFFICES ASSUME SearchInit, task.op = "order" PROVE Kahn
  BY DEF KahnInv
<1>1. StartOrder /\ NothingDone
  BY DEF SearchInit, StartWalk, StartCycle, StartPropagation, Walks
<1>2. PICK p \in Snapshots : searched = GraphOfParents(p)
  BY DEF SearchInit, StartWalk, StartCycle, StartPropagation, Walks
<1>3. /\ searched.nodes = DOMAIN p /\ searched.parents = p
      /\ searched.children = [n \in DOMAIN p |-> {c \in DOMAIN p : n \in p[c]}]
  BY <1>2 DEF GraphOfParents
<1>4. /\ searched.nodes \subseteq Nat \ {0}
      /\ IsFiniteSet(searched.nodes)
      /\ \A n \in searched.nodes : IsFiniteSet(searched.parents[n])
  BY <1>3, SearchAssumption
<1> QED
  BY <1>1, <1>3, <1>4, KahnStarts DEF StartOrder, NothingDone

LEMMA PlacedOnce ==
    ASSUME KahnTypeOK
    PROVE  /\ OnList \subseteq searched.nodes
           /\ IsFiniteSet(OnList)
           /\ Cardinality(OnList) = Len(list)
           /\ Len(list) = Cardinality(searched.nodes) <=> OnList = searched.nodes
  BY ListedOnce DEF KahnTypeOK

(* A topological order places every node, so there is none when the algorithm *)
(* gets stuck: the first node of it that is not on the list had its parents    *)
(* there.                                                                     *)
LEMMA StuckMeansCyclic ==
    ASSUME Kahn, OrderDone, OnList # searched.nodes
    PROVE  TopologicalOrders = {}
<1> DEFINE N == Cardinality(searched.nodes)
<1>1. KahnTypeOK /\ KahnCounts
  BY DEF Kahn
<1>2. OnList \subseteq searched.nodes
  BY <1>1, PlacedOnce
<1>3. \A n \in searched.nodes \ OnList : ~ (searched.parents[n] \subseteq OnList)
  BY <1>1 DEF KahnCounts, OrderDone, Owed
<1>4. N \in Nat /\ IsFiniteSet(1..N) /\ Cardinality(1..N) = N
  BY <1>1, FS_CardinalityType, FS_Interval DEF KahnTypeOK
<1> HIDE DEF N
<1> SUFFICES ASSUME NEW order \in [1..N -> searched.nodes],
                    \A i, j \in DOMAIN order : i # j => order[i] # order[j],
                    Precedes(order, searched.parents)
             PROVE  FALSE
  BY DEF TopologicalOrders, N
<1>5. order \in Injection(1..N, searched.nodes)
  BY DEF Injection, IsInjective
<1>6. order \in Surjection(1..N, searched.nodes)
  BY <1>1, <1>4, <1>5, FS_Injection DEF KahnTypeOK, N
<1> DEFINE Late == {i \in 1..N : order[i] \notin OnList}
<1>7. Late # {}
  <2>1. PICK n \in searched.nodes : n \notin OnList
    BY <1>2
  <2>2. PICK i \in 1..N : order[i] = n
    BY <1>6 DEF Surjection
  <2> QED
    BY <2>1, <2>2
<1>8. Late \in SUBSET Nat
  BY <1>4
<1>9. PICK i : i = Least(Late)
  OBVIOUS
<1>10. i \in Late /\ \A j \in Late : i <= j
  BY <1>7, <1>8, <1>9, LeastOf
<1>11. \A j \in 1..(i - 1) : order[j] \in OnList
  BY <1>4, <1>10
<1>12. searched.parents[order[i]] \subseteq {order[j] : j \in 1..(i - 1)}
  BY <1>10 DEF Precedes
<1> QED
  BY <1>3, <1>10, <1>11, <1>12

(* Where another order first differs, its node could have been placed too.     *)
LEMMA FirstDifference ==
    ASSUME Kahn, OnList = searched.nodes,
           NEW other \in TopologicalOrders \ {list}
    PROVE  \E i \in Positions : /\ list[i] < other[i]
                                /\ \A j \in 1..(i - 1) : list[j] = other[j]
<1> DEFINE N == Len(list)
           Apart == {i \in 1..N : list[i] # other[i]}
<1>1. KahnTypeOK /\ KahnOrder
  BY DEF Kahn
<1>2. N \in Nat /\ list \in [1..N -> searched.nodes] /\ searched.nodes \subseteq Nat
  BY <1>1 DEF KahnTypeOK
<1>3. N = Cardinality(searched.nodes)
  BY <1>1, PlacedOnce
<1>4. /\ other \in [1..N -> searched.nodes]
      /\ \A i, j \in 1..N : i # j => other[i] # other[j]
      /\ \A i \in 1..N : searched.parents[other[i]] \subseteq {other[j] : j \in 1..(i - 1)}
  BY <1>3 DEF TopologicalOrders, Precedes
<1> HIDE DEF N
<1>5. Apart # {}
  BY <1>2, <1>4
<1>6. PICK i : i = Least(Apart)
  OBVIOUS
<1>7. i \in Apart /\ \A j \in Apart : i <= j
  <2>1. Apart \in SUBSET Nat
    BY <1>2
  <2> QED
    BY <2>1, <1>5, <1>6, LeastOf
<1>8. i \in 1..N /\ list[i] # other[i] /\ \A j \in 1..(i - 1) : j \in 1..N /\ list[j] = other[j]
  BY <1>2, <1>7
<1>9. {other[j] : j \in 1..(i - 1)} = Before(i)
  BY <1>8 DEF Before
<1>10. other[i] \in searched.nodes \ Before(i)
  BY <1>2, <1>4, <1>8, <1>9
<1>11. list[i] <= other[i]
  BY <1>1, <1>4, <1>8, <1>9, <1>10 DEF KahnOrder, N
<1>12. list[i] \in Nat /\ other[i] \in Nat /\ i \in Positions
  BY <1>2, <1>4, <1>8 DEF Positions
<1>13. list[i] < other[i]
  BY <1>8, <1>11, <1>12
<1> QED
  BY <1>8, <1>12, <1>13

LEMMA OrderResult == KahnInv => OrderIsLeast
<1> SUFFICES ASSUME Kahn, OrderDone
             PROVE  IF Len(list) # Cardinality(searched.nodes)
                    THEN TopologicalOrders = {}
                    ELSE /\ list \in TopologicalOrders
                         /\ \A other \in TopologicalOrders \ {list} :
                               \E i \in Positions : /\ list[i] < other[i]
                                                    /\ \A j \in 1..(i - 1) : list[j] = other[j]
  BY DEF KahnInv, OrderIsLeast, OrderDone
<1>1. KahnTypeOK /\ KahnOrder
  BY DEF Kahn
<1>2. CASE Len(list) # Cardinality(searched.nodes)
  BY <1>1, <1>2, PlacedOnce, StuckMeansCyclic
<1>3. CASE Len(list) = Cardinality(searched.nodes)
  <2>1. OnList = searched.nodes
    BY <1>1, <1>3, PlacedOnce
  <2>2. list \in [1..Cardinality(searched.nodes) -> searched.nodes]
    BY <1>1, <1>3 DEF KahnTypeOK
  <2>3. \A i, j \in DOMAIN list : i # j => list[i] # list[j]
    BY <1>1, <1>3, <2>2 DEF KahnTypeOK, NoRepeats
  <2>4. Precedes(list, searched.parents)
    BY <1>1, <1>3, <2>2 DEF KahnOrder, Before, Precedes
  <2>5. list \in TopologicalOrders
    BY <2>2, <2>3, <2>4 DEF TopologicalOrders
  <2> QED
    BY <1>3, <2>1, <2>5, FirstDifference
<1> QED
  BY <1>2, <1>3

LEMMA KahnKept == KahnInv /\ [SearchNext]_searchVars => KahnInv'
<1> SUFFICES ASSUME KahnInv, [SearchNext]_searchVars PROVE KahnInv'
  OBVIOUS
<1>1. ASSUME TakeReady \/ Decrement PROVE KahnInv'
  BY <1>1, TakeReadyStep, DecrementStep DEF KahnInv, TakeReady, Decrement
<1>2. ASSUME UNCHANGED searchVars PROVE KahnInv'
  BY <1>2, KahnStutters DEF KahnInv, searchVars, walkVars, otherVars
<1> QED
  BY <1>1, <1>2, KahnUntouched DEF SearchNext

(* For every file: the order topological_order returns is complete exactly    *)
(* when the file has a topological order, and is then the least of them.      *)
THEOREM OrderIsLeastOfAll == SearchSpec => []OrderIsLeast
<1>1. SearchSpec => []KahnInv
  BY OrderStarts, KahnKept, PTL DEF SearchSpec
<1> QED
  BY <1>1, OrderResult, PTL

----------------------------------------------------------------------------
(* All of it, for the modules that run these loops. *)

SearchInv == WalkInv /\ CycleInv /\ PropagationInv /\ ChainInv /\ KahnInv

SearchesAreRight ==
    /\ WalkCollectsClosure /\ CycleSearchIsRight /\ AffectedExactlyOnce
    /\ ChainsAreShortest /\ OrderIsLeast

LEMMA SearchStarts == SearchInit => SearchInv
  BY WalkStarts, CycleStarts, PropagationStarts, ChainStarts, OrderStarts DEF SearchInv

LEMMA SearchKept == SearchInv /\ [SearchNext]_searchVars => SearchInv'
<1> SUFFICES ASSUME SearchInv, [SearchNext]_searchVars PROVE SearchInv'
  OBVIOUS
<1>1. WalkInv /\ CycleInv /\ PropagationInv /\ ChainInv /\ KahnInv
  BY DEF SearchInv
<1>2. WalkInv'
  BY <1>1, WalkPushStep, WalkPopStep, WalkUntouched, WalkStutters DEF SearchNext
<1>3. CycleInv'
  BY <1>1, CyclePopStep, CycleVisitStep, CycleUntouched, CycleStutters DEF SearchNext
<1>4. PropagationInv'
  BY <1>1, SeedStep, TakeHeadStep, VisitChildStep, PropagationUntouched, PropagationStutters
     DEF SearchNext
<1>5. ChainInv'
  BY <1>1, SeedChain, TakeHeadChain, VisitChildChain, ChainUntouched, ChainStutters
     DEF SearchNext
<1>6. KahnInv'
  BY <1>1, KahnKept
<1> QED
  BY <1>2, <1>3, <1>4, <1>5, <1>6 DEF SearchInv

LEMMA SearchResults == SearchInv => SearchesAreRight
  BY WalkResult, CycleResult, PropagationResult, ChainResult, OrderResult
     DEF SearchInv, SearchesAreRight
=============================================================================
