---------------------------- MODULE Assignments ----------------------------
(***************************************************************************)
(* Replica assignments and what the placement code asks of them: the       *)
(* sanity check, the strategies and the choice of a broker for a slot.     *)
(* An assignment is a sequence of replica lists, partition 0 first.        *)
(***************************************************************************)
EXTENDS Integers, Sequences, FiniteSets

CONSTANT Brokers          \* the brokers of the cluster, positive numbers

Hole == -1                \* the placeholder of a replica to be chosen

\* racks are numbered in the order of their names: rack is a function from
\* the brokers to 1..R
RacksOf(rack) == {rack[b] : b \in Brokers}
InThe(rack, r) == {b \in Brokers : rack[b] = r}

\* mutant of RackAt: two partitions for each rack
RackAtHalf(rack, i) == ((i \div 2) % Cardinality(RacksOf(rack))) + 1

RackAt(rack, i) == (i % Cardinality(RacksOf(rack))) + 1

Members(list) == {list[i] : i \in DOMAIN list}
Width(A) == Len(A[1])
HolesOf(A) == UNION {{<<p, r>> : r \in {i \in 1..Len(A[p]) : A[p][i] = Hole}}
                        : p \in 1..Len(A)}

NoRepeats(A) ==
    \A p \in 1..Len(A) : \A i, j \in 1..Len(A[p]) : A[p][i] = A[p][j] => i = j

CheckAssignments(A) ==
    /\ A # << >>
    /\ NoRepeats(A)
    /\ \A p \in 1..Len(A) : Len(A[p]) = Width(A)

Leads(A, rack, r) == Cardinality({p \in 1..Len(A) : rack[A[p][1]] = r})
Spread(list, rack) == Cardinality({rack[b] : b \in Members(list)})

Balanced(A, rack) ==
    \A r, s \in RacksOf(rack) : Leads(A, rack, r) = Leads(A, rack, s)

InRack(A, rack) == \A p \in 1..Len(A) : Spread(A[p], rack) = 1

\* what "cross-rack" is to mean; EvaluateAssignments does not ask for it
CrossRack(A, rack) == \A p \in 1..Len(A) : Spread(A[p], rack) = Len(A[p])

Satisfied(A, rack, goal) ==
    CASE goal.strategy \in {"any", "cross-rack"} -> TRUE
      [] goal.strategy = "static" -> A = goal.static
      [] goal.strategy = "static-in-rack" ->
            /\ InRack(A, rack)
            /\ Len(goal.racks) = Len(A)
            /\ \A p \in 1..Len(A) : rack[A[p][1]] = goal.racks[p]
      [] goal.strategy = "balanced-leaders" -> Balanced(A, rack)
      [] goal.strategy = "in-rack" -> InRack(A, rack)

EvaluateAssignments(A, rack, goal) ==
    CheckAssignments(A) /\ Satisfied(A, rack, goal)

-----------------------------------------------------------------------------
(***************************************************************************)
(* PickNew: the broker that holds position r of the fewest partitions      *)
(* among the choices the partition does not have yet.  How the pickers     *)
(* break ties, and the sort, which is not stable, are left open.           *)
(***************************************************************************)
CountAt(A, r, b) == Cardinality({p \in 1..Len(A) : A[p][r] = b})
CountIn(A, b) ==
    Cardinality({s \in (1..Len(A)) \X (1..Width(A)) : A[s[1]][s[2]] = b})

Feasible(A, p, choices) == choices \ Members(A[p])

PickNew(A, p, r, choices) ==
    {b \in Feasible(A, p, choices) :
        \A c \in Feasible(A, p, choices) : CountAt(A, r, b) <= CountAt(A, r, c)}

\* SortRemovals: the partitions that may come first, those whose broker at
\* position r is there most often
Foremost(A, r, parts) ==
    {p \in parts : \A q \in parts : CountAt(A, r, A[q][r]) <= CountAt(A, r, A[p][r])}

\* the racks with the fewest and the most leaders, the first of each
Least(S) == CHOOSE x \in S : \A y \in S : x <= y
MinRack(A, rack) ==
    Least({r \in RacksOf(rack) :
              \A s \in RacksOf(rack) : Leads(A, rack, r) <= Leads(A, rack, s)})
MaxRack(A, rack) ==
    Least({r \in RacksOf(rack) :
              \A s \in RacksOf(rack) : Leads(A, rack, r) >= Leads(A, rack, s)})
=============================================================================
