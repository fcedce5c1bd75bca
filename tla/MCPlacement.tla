---------------------------- MODULE MCPlacement ----------------------------
(***************************************************************************)
(* Jobs for TLC: small topics in any placement, on clusters of two and     *)
(* three racks, even and uneven.                                           *)
(***************************************************************************)
EXTENDS Placement, TLC

MCBrokers == 1..4
TwoRacks == <<1, 1, 2, 2>>
Uneven == <<1, 2, 2, 2>>
ThreeRacks == <<1, 2, 3, 3>>

Lists(n) == {l \in [1..n -> MCBrokers] : Cardinality(Members(l)) = n}
Topics(parts, n) == [1..parts -> Lists(n)]
\* up to the order of the partitions
Unordered(parts, n) ==
    {A \in Topics(parts, n) :
        \A p \in 1..(parts - 1) : A[p][1] <= A[p + 1][1]}

Goal(strategy) == [strategy |-> strategy, static |-> << >>, racks |-> << >>]
Static(A) == [Goal("static") EXCEPT !.static = A]
StaticInRack(racks) == [Goal("static-in-rack") EXCEPT !.racks = racks]

Job(op, A, rack, goal, extra, remove) ==
    [op |-> op, curr |-> A, rack |-> rack, goal |-> goal, extra |-> extra,
     remove |-> remove]

Assigned ==
    {Job("place", A, rack, Goal(s), 0, {}) :
        A \in Topics(2, 2), rack \in {TwoRacks, Uneven},
        s \in {"any", "balanced-leaders", "in-rack"}}
    \cup {Job("assign", A, rack, Goal("cross-rack"), 0, {}) :
        A \in Topics(2, 2), rack \in {TwoRacks, ThreeRacks}}
    \cup {Job("assign", A, ThreeRacks, Goal("cross-rack"), 0, {}) : A \in Topics(1, 3)}
    \cup {Job("place", A, ThreeRacks, Goal("balanced-leaders"), 0, {}) :
        A \in Unordered(3, 2)}
    \cup {Job("place", A, TwoRacks, Goal("balanced-leaders"), 0, {}) :
        A \in {B \in Unordered(4, 2) : B[1][1] = B[3][1]}}
    \cup {Job("place", A, TwoRacks, StaticInRack(racks), 0, {}) :
        A \in Topics(2, 2), racks \in {<<1, 2>>, <<2, 2>>}}
    \cup {Job("place", A, TwoRacks, Static(<<<<1, 3>>, <<4, 2>>>>), 0, {}) :
        A \in Topics(2, 2)}

ExtendedJobs ==
    {Job("extend", A, rack, Goal(s), extra, {}) :
        A \in Topics(2, 2), rack \in {TwoRacks, Uneven},
        s \in {"any", "balanced-leaders", "in-rack", "cross-rack"}, extra \in 1..2}
    \cup {Job("extend", A, Uneven, Goal("any"), 2, {}) : A \in Topics(1, 4)}
    \cup {Job("extend", A, TwoRacks, Static(<<<<1, 3>>, <<4, 2>>>>), 1, {}) :
        A \in Topics(1, 2)}

Rebalanced ==
    {Job("rebalance", A, TwoRacks, Goal(s), 0, remove) :
        A \in Topics(2, 2), s \in {"any", "balanced-leaders", "in-rack", "cross-rack"},
        remove \in {{}, {1}}}
    \cup {Job("rebalance", A, TwoRacks, Goal("any"), 0, {1, 3}) : A \in Topics(2, 2)}
    \cup {Job("rebalance", A, TwoRacks, Goal("any"), 0, {1, 3}) : A \in Topics(1, 3)}
    \cup {Job("rebalance", A, TwoRacks, Goal("any"), 0, {1}) : A \in Topics(1, 4)}
    \cup {Job("rebalance", A, TwoRacks, Goal("any"), 0, {1}) :
        A \in {<<<<1, 2, 3>>, <<b, 2, 3>>>> : b \in {1, 4}}}
    \cup {Job("rebalance", A, TwoRacks, Goal(s), 0, {}) :
        A \in Unordered(3, 2), s \in {"any", "in-rack"}}
    \cup {Job("rebalance", A, TwoRacks, Static(<<<<1, 3>>, <<4, 2>>>>), 0, {}) :
        A \in Topics(2, 2)}

MCJobs == UNION {Assigned, ExtendedJobs, Rebalanced}

\* three replicas on four brokers, of which one or two are to go
Removals ==
    {Job("rebalance", A, TwoRacks, Goal("any"), 0, remove) :
        A \in Topics(1, 3), remove \in {{1}, {1, 3}, {2, 4}}}

=============================================================================
