---------------------------- MODULE MCStoreCalls ----------------------------
(* Every acyclic graph over a set of nodes; every parent map over a set of    *)
(* records, cyclic and dangling ones included; and every snapshot file of up  *)
(* to three records, each with at most one input and one parent provenance.   *)
EXTENDS StoreCalls

Nodes   == 1..4
Records == 1..3
Missing == 9

AcyclicGraphs ==
    {GraphOfParents(p) : p \in {p \in [Nodes -> SUBSET Nodes] : WellFounded(Nodes, p)}}

ParentMaps == [Records -> SUBSET (Records \cup {Missing})]

NoEnv     == [dim \in {} |-> 0]
NoEnvOnly == {NoEnv}
Nothing   == {}

(* Provenance identities are the subject's plus ten. *)
Rec(s, in, par) ==
    [subject |-> s, prov |-> 10 + s, inputs |-> in, parents |-> par,
     worker |-> IF s = 1 THEN 1 ELSE 0, env |-> NoEnv, validity |-> "VALID",
     attrs |-> {"model"}, external |-> s = 1, wellTyped |-> TRUE]

Optional(S) == {<<>>} \cup {<<x>> : x \in S}

RecordsOf(s) ==
    {Rec(s, in, par) : in  \in Optional(Records \cup {Missing}),
                       par \in Optional({11, 12, 10 + Missing})}

Twice == << Rec(1, <<>>, <<>>), [Rec(1, <<>>, <<>>) EXCEPT !.prov = 12] >>

Contents ==
    {<<>>, Twice, <<Rec(1, <<>>, <<>>), [Rec(2, <<1>>, <<>>) EXCEPT !.prov = 11]>>}
      \cup {<<r1>> : r1 \in RecordsOf(1)}
      \cup {<<r2, r1>> : r2 \in RecordsOf(2), r1 \in RecordsOf(1)}
      \cup {<<r1, r2, r3>> : r1 \in RecordsOf(1), r2 \in RecordsOf(2), r3 \in RecordsOf(3)}
      \cup {<<Rec(1, <<>>, <<>>), Rec(2, <<1>>, <<>>), Rec(3, <<2>>, <<>>),
              Rec(4, <<3>>, <<>>)>>}

(* The overlay of a file: the second subject invalidated, and one the file     *)
(* has no record of stale.                                                    *)
OverlayOf(recs) ==
    [s \in {recs[i].subject : i \in DOMAIN recs} \cup {Missing} |->
        [validity |-> CASE s = 2 -> "INVALIDATED" [] s = Missing -> "STALE" [] OTHER -> "VALID",
         cause    |-> IF s = 2 THEN 2 ELSE 0]]

LaterAuthority ==
    [InitialAuthority EXCEPT !.epoch = 2, !.boot = [w \in {1} |-> 2]]

AllFiles == {[records |-> recs, status |-> OverlayOf(recs), authority |-> LaterAuthority] :
                recs \in Contents}

(* The store is fresh, or holds a record of a subject the file may hold too. *)
AnyFormer == {EmptyFunction, [s \in {1} |-> [Rec(1, <<>>, <<>>) EXCEPT !.worker = 2]]}

(* A snapshot in which no two integers of an item are equal, with so many       *)
(* records, items in each other vector, and characters in each string.          *)
RECURSIVE Sample(_, _, _, _)
Sample(items, k, sizes, chars) ==
    [name \in {Written[items][i] : i \in DOMAIN Written[items]} |->
        LET i == CHOOSE i \in DOMAIN Written[items] : Written[items][i] = name
        IN  IF name \in DOMAIN Expected THEN Expected[name]
            ELSE IF name \in DOMAIN LastOf THEN (i + k) % (LastOf[name] + 1)
            ELSE IF name \in Strings THEN [j \in 1..chars |-> 50 + i + j]
            ELSE IF name \in DOMAIN Written
                 THEN [j \in 1..sizes[IF name = "records" THEN 1 ELSE 2] |->
                          Sample(name, j, sizes, chars)]
            ELSE 100 * k + i]

(* The last two have a vector, and records, beyond the bounds of the reader. *)
AllPayloads ==
    {Sample("snapshot", 0, <<n[1], n[2]>>, n[3]) :
        n \in {<<0, 0, 0>>, <<0, 2, 1>>, <<1, 0, 1>>, <<1, 2, 2>>, <<2, 1, 0>>,
               <<1, 3, 1>>, <<4, 0, 0>>}}
=============================================================================
