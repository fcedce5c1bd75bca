----------------------------- MODULE Placement -----------------------------
(***************************************************************************)
(* How apply finds the replicas of a topic: the assigners that make a      *)
(* placement satisfy its strategy, the extender that places new            *)
(* partitions, and the rebalancer that swaps brokers until the topic is    *)
(* balanced.  One step is one choice of a broker.                          *)
(***************************************************************************)
EXTENDS Assignments

CONSTANTS Jobs,      \* what is asked, of which placement, in which cluster
          MaxLoops   \* leader replacements before the assigner gives up

VARIABLES job,       \* the call
          desired,   \* the placement it is building
          index,     \* the replica position the rebalancer is at
          loops,     \* leader replacements made
          outcome    \* "new", "run", "done" or why it failed

vars == <<job, desired, index, loops, outcome>>

Ops == {"place", "assign", "extend", "rebalance"}
Strategies == {"any", "static", "static-in-rack", "balanced-leaders", "in-rack",
               "cross-rack"}

JobOK(j) ==
    /\ j = [op |-> j.op, curr |-> j.curr, rack |-> j.rack, goal |-> j.goal,
            extra |-> j.extra, remove |-> j.remove]
    /\ j.op \in Ops
    /\ j.curr \in Seq(Seq(Brokers)) /\ CheckAssignments(j.curr)
    /\ \A p \in 1..Len(j.curr) : Len(j.curr[p]) > 0
    /\ j.rack \in [Brokers -> Nat \ {0}]
    /\ RacksOf(j.rack) = 1..Cardinality(RacksOf(j.rack))
    /\ j.goal.strategy \in Strategies
    /\ j.extra \in IF j.op = "extend" THEN Nat ELSE {0}
    /\ j.goal.strategy = "static" =>
          /\ j.goal.static \in Seq(Seq(Brokers)) /\ CheckAssignments(j.goal.static)
          /\ Len(j.goal.static) = Len(j.curr) + j.extra
    /\ j.goal.strategy = "static-in-rack" =>
          /\ j.goal.racks \in Seq(Nat \ {0})
          /\ Len(j.goal.racks) = Len(j.curr) + j.extra
    /\ j.remove \subseteq Brokers

ASSUME JobsAssumption == \A j \in Jobs : JobOK(j)
ASSUME BrokersAssumption == Brokers \subseteq Nat \ {0} /\ IsFiniteSet(Brokers)
ASSUME LoopsAssumption == MaxLoops \in Nat

Init ==
    /\ job \in Jobs
    /\ desired = job.curr
    /\ index = 1 /\ loops = 0
    /\ outcome = "new"

Finish(result) == outcome' = result /\ UNCHANGED <<job, desired, index, loops>>

-----------------------------------------------------------------------------
(***************************************************************************)
(* The beginning of each call: its checks, and the replicas an assigner    *)
(* takes out because they are in the wrong rack.                           *)
(***************************************************************************)
Strategy == job.goal.strategy
N == Width(job.curr)

\* mutant of TooSmall: the leader is not counted
TooSmallByOne(r) == Cardinality(InThe(job.rack, r)) < N - 1

TooSmall(r) == Cardinality(InThe(job.rack, r)) < N

Refused ==
    \/ /\ Strategy = "balanced-leaders"
       /\ Len(job.curr) % Cardinality(RacksOf(job.rack)) # 0
    \/ Strategy = "in-rack" /\ \E r \in RacksOf(job.rack) : TooSmall(r)
    \/ Strategy = "cross-rack" /\ Cardinality(RacksOf(job.rack)) < N
    \/ Strategy = "static-in-rack" /\ \E i \in DOMAIN job.goal.racks :
                                         TooSmall(job.goal.racks[i])

\* mutant of Misplaced: cross-rack looks at the leader's rack only
MisplacedByLeader(p, r) ==
    LET list == job.curr[p]
        rackOf == job.rack
    IN  CASE Strategy = "in-rack" -> rackOf[list[r]] # rackOf[list[1]]
          [] Strategy = "static-in-rack" -> rackOf[list[r]] # job.goal.racks[p]
          [] Strategy = "cross-rack" -> r > 1 /\ rackOf[list[1]] = rackOf[list[r]]
          [] Strategy \in {"balanced-leaders", "static", "any"} -> FALSE

Misplaced(p, r) ==
    LET list == job.curr[p]
        rackOf == job.rack
    IN  CASE Strategy = "in-rack" -> rackOf[list[r]] # rackOf[list[1]]
          [] Strategy = "static-in-rack" -> rackOf[list[r]] # job.goal.racks[p]
          [] Strategy = "cross-rack" ->
                \E i \in 1..(r - 1) : rackOf[list[i]] = rackOf[list[r]]
          [] Strategy \in {"balanced-leaders", "static", "any"} -> FALSE

NulledOut ==
    [p \in 1..Len(job.curr) |->
        [r \in 1..Len(job.curr[p]) |->
            IF Misplaced(p, r) THEN Hole ELSE job.curr[p][r]]]

Extended == Append(desired, [r \in 1..N |-> Hole])

\* updatePlacement looks first whether there is anything to do
Place ==
    /\ outcome = "new" /\ job.op = "place"
    /\ IF EvaluateAssignments(job.curr, job.rack, job.goal)
       THEN Finish("done")
       ELSE IF Strategy = "any"
            THEN Finish("unsupported")
            ELSE /\ job' = [job EXCEPT !.op = "assign"]
                 /\ UNCHANGED <<desired, index, loops, outcome>>

Assign ==
    /\ outcome = "new" /\ job.op = "assign"
    /\ IF Refused
       THEN Finish("refused")
       ELSE /\ desired' = IF Strategy = "static" THEN job.goal.static ELSE NulledOut
            /\ outcome' = "run"
            /\ UNCHANGED <<job, index, loops>>

\* updatePartitionsHelper has no extender for the other strategies
Extend ==
    /\ outcome = "new" /\ job.op = "extend"
    /\ CASE Strategy \in {"cross-rack", "static-in-rack"} -> Finish("unsupported")
         [] Strategy = "in-rack" /\ Refused -> Finish("refused")
         [] Strategy = "static" ->
               /\ desired' = job.goal.static /\ outcome' = "run"
               /\ UNCHANGED <<job, index, loops>>
         [] OTHER -> Finish("run")

\* a static rebalance may start from any placement
Rebalance ==
    /\ outcome = "new" /\ job.op = "rebalance"
    /\ IF \/ Strategy = "static"
          \/ EvaluateAssignments(job.curr, job.rack, job.goal)
       THEN Finish("run")
       ELSE Finish("refused")
-----------------------------------------------------------------------------
(***************************************************************************)
(* Filling the placeholders, in order.                                     *)
(***************************************************************************)
FirstHole ==
    CHOOSE h \in HolesOf(desired) :
        \A g \in HolesOf(desired) : h[1] < g[1] \/ (h[1] = g[1] /\ h[2] <= g[2])

\* the rack of the new broker at position r of partition p
TargetRack(p, r) ==
    LET extra == p - Len(job.curr) - 1
    IN  CASE job.op = "extend" /\ Strategy = "in-rack" -> RackAt(job.rack, extra)
          [] job.op = "extend" /\ Strategy # "in-rack" ->
                RackAt(job.rack, extra + r - 1)
          [] job.op = "assign" /\ Strategy = "in-rack" ->
                job.rack[desired[p][1]]
          [] job.op = "assign" /\ Strategy = "static-in-rack" -> job.goal.racks[p]
          [] job.op = "assign" /\ Strategy = "cross-rack" ->
                Least(RacksOf(job.rack) \
                        {job.rack[b] : b \in Members(desired[p]) \ {Hole}})

FillHole ==
    /\ outcome = "run" /\ HolesOf(desired) # {}
    /\ LET p == FirstHole[1]
           r == FirstHole[2]
           picks == PickNew(desired, p, r, InThe(job.rack, TargetRack(p, r)))
       IN  IF picks = {}
           THEN Finish("no-choice")
           ELSE /\ \E b \in picks : desired' = [desired EXCEPT ![p][r] = b]
                /\ UNCHANGED <<job, index, loops, outcome>>

Missing == Len(job.curr) + job.extra - Len(desired)

AddPartition ==
    /\ outcome = "run" /\ job.op = "extend"
    /\ HolesOf(desired) = {} /\ Missing > 0
    /\ desired' = Extended
    /\ UNCHANGED <<job, index, loops, outcome>>

-----------------------------------------------------------------------------
(***************************************************************************)
(* BalancedLeaderAssigner: while a rack leads more partitions than         *)
(* another, give one of its leaderships to the rack that leads the fewest. *)
(***************************************************************************)
From == MaxRack(desired, job.rack)
To == MinRack(desired, job.rack)
FromPartitions == {p \in 1..Len(desired) : job.rack[desired[p][1]] = From}
Followers(p) == {r \in 2..Len(desired[p]) : job.rack[desired[p][r]] = To}
Swappable == {p \in FromPartitions : Followers(p) # {}}
Balancing == job.op = "assign" /\ Strategy = "balanced-leaders"

\* mutant of SwappedIn: the follower's place is not given to the old leader
SwappedInHalf(p) ==
    LET r == Least(Followers(p))
    IN  [desired EXCEPT ![p][1] = desired[p][r], ![p][r] = Hole]

\* the first follower in the target rack becomes the leader
SwappedIn(p) ==
    LET r == Least(Followers(p))
    IN  [desired EXCEPT ![p][1] = desired[p][r], ![p][r] = desired[p][1]]

\* mutant of Replacements: a new broker although a swap would do
ReplacementsAnew ==
    {[desired EXCEPT ![p][1] = b] :
        p \in Foremost(desired, 1, FromPartitions),
        b \in UNION {PickNew(desired, p, 1, InThe(job.rack, To))
                       : p \in Foremost(desired, 1, FromPartitions)}}

Replacements ==
    IF Swappable # {}
    THEN {SwappedIn(p) : p \in Foremost(desired, 1, Swappable)}
    ELSE UNION {{[desired EXCEPT ![p][1] = b]
                    : b \in PickNew(desired, p, 1, InThe(job.rack, To))}
                  : p \in Foremost(desired, 1, FromPartitions)}

ReplaceLeader ==
    /\ outcome = "run" /\ Balancing
    /\ ~Balanced(desired, job.rack)
    /\ loops' = loops + 1
    /\ IF Replacements = {}
       THEN outcome' = "no-choice" /\ UNCHANGED desired
       ELSE /\ desired' \in Replacements
            /\ outcome' = IF loops' > MaxLoops THEN "too-many-loops" ELSE "run"
    /\ UNCHANGED <<job, index>>
-----------------------------------------------------------------------------
(***************************************************************************)
(* FrequencyRebalancer: at each position, replace a broker from the upper  *)
(* part of the sorted brokers by one of the lower part, when that improves *)
(* the balance and keeps the strategy.  Scores break the ties, here left   *)
(* open: any order that agrees with the counts.                            *)
(***************************************************************************)
Removed(b) == b \in job.remove
AtIndex(b) == CountAt(desired, index, b)
InTotal(b) == CountIn(desired, b)

Smaller(a, b) ==
    \/ ~Removed(a) /\ Removed(b)
    \/ /\ Removed(a) <=> Removed(b)
       /\ \/ AtIndex(a) < AtIndex(b)
          \/ AtIndex(a) = AtIndex(b) /\ InTotal(a) < InTotal(b)

Orders ==
    {o \in [1..Cardinality(Brokers) -> Brokers] :
        /\ Members(o) = Brokers
        /\ \A i, j \in DOMAIN o : i < j => ~Smaller(o[j], o[i])}

\* the upper part begins in the second half, at a broker in use
UpperFrom(order) ==
    Least({Len(order) + 1} \cup
          {i \in DOMAIN order : i > Len(order) \div 2 /\ AtIndex(order[i]) > 0})

\* mutant of ShouldTryReplace: a swap that is neutral at the position is
\* taken whatever it does to the topic
ShouldTryReplaceNeutral(low, high) ==
    \/ Removed(high) /\ AtIndex(high) > 0
    \/ ~Removed(low) /\ AtIndex(low) + 1 <= AtIndex(high)

ShouldTryReplace(low, high) ==
    \/ Removed(high) /\ AtIndex(high) > 0
    \/ /\ ~Removed(low)
       /\ \/ AtIndex(low) + 1 < AtIndex(high)
          \/ /\ AtIndex(low) + 1 = AtIndex(high)
             /\ InTotal(low) + 1 < InTotal(high)

\* tryReplacement for the partitions of high at this position
Results(low, high) ==
    {A \in {[desired EXCEPT ![p][index] = low]
               : p \in {q \in 1..Len(desired) : desired[q][index] = high}} :
        EvaluateAssignments(A, job.rack, job.goal)}

Tried(low, high) == IF ShouldTryReplace(low, high) THEN Results(low, high) ELSE {}

\* the highest of the upper part goes first, against the lowest of the lower
Swaps(order) ==
    LET from == UpperFrom(order)
        pairs == (1..(from - 1)) \X (from..Len(order))
        Gives(pair) == Tried(order[pair[1]], order[pair[2]])
        good == {pair \in pairs : Gives(pair) # {}}
    IN  UNION {Gives(pair) : pair \in
                 {g \in good : \A h \in good :
                     h[2] < g[2] \/ (h[2] = g[2] /\ h[1] >= g[1])}}

AllSwaps == UNION {Swaps(order) : order \in Orders}

Rebalancing == outcome = "run" /\ job.op = "rebalance"

Swap ==
    /\ Rebalancing /\ index <= N
    /\ desired' \in AllSwaps
    /\ UNCHANGED <<job, index, loops, outcome>>

NextIndex ==
    /\ Rebalancing /\ index <= N
    /\ \E order \in Orders : Swaps(order) = {}
    /\ index' = index + 1
    /\ UNCHANGED <<job, desired, loops, outcome>>

Remaining == {s \in (1..Len(desired)) \X (1..N) : Removed(desired[s[1]][s[2]])}

Return ==
    /\ outcome = "run"
    /\ HolesOf(desired) = {}
    /\ CASE job.op = "extend" -> Missing <= 0 /\ Finish("done")
         [] job.op = "assign" ->
               (Balancing => Balanced(desired, job.rack)) /\ Finish("done")
         [] job.op = "rebalance" ->
               /\ index > N
               /\ Finish(IF Remaining = {} THEN "done" ELSE "not-removed")

-----------------------------------------------------------------------------
Step ==
    \/ Place \/ Assign \/ Extend \/ Rebalance
    \/ FillHole \/ AddPartition \/ ReplaceLeader \/ Swap \/ NextIndex \/ Return

Next == Step

Spec == Init /\ [][Next]_vars

\* the calls are sequential code that runs on
FairSpec == Spec /\ WF_vars(Step)

-----------------------------------------------------------------------------
Failures == {"refused", "unsupported", "no-choice", "too-many-loops", "not-removed"}
Ended == {"done"} \cup Failures

\* Every variable has its type: replicas are brokers, or placeholders where
\* the code makes them.
TypeOK ==
    /\ JobOK(job)
    /\ desired \in Seq(Seq(Brokers \cup {Hole}))
    /\ Balancing \/ job.op = "rebalance" => HolesOf(desired) = {}
    /\ index \in 1..(N + 1) /\ loops \in 0..(MaxLoops + 1)
    /\ outcome \in {"new", "run"} \cup Ended

Meets(A) ==
    /\ Satisfied(A, job.rack, job.goal)
    /\ Strategy = "cross-rack" => CrossRack(A, job.rack)

\* What a call returns is a placement Kafka accepts, with the partitions that
\* were to stay untouched, and of the strategy asked for, so that the next
\* apply finds nothing to do (evaluate.go:14-82, apply.go:809-900).
Delivered ==
    outcome = "done" =>
        /\ CheckAssignments(desired)
        /\ HolesOf(desired) = {}
        /\ job.op = "assign" => Meets(desired)
        /\ job.op = "extend" =>
              /\ Len(desired) = Len(job.curr) + job.extra
              /\ Strategy # "static" => SubSeq(desired, 1, Len(job.curr)) = job.curr
        /\ job.op = "rebalance" /\ Strategy \notin {"static", "cross-rack"} =>
              Meets(desired) /\ Remaining = {}

\* An extension by a multiple of the racks keeps the strategy of the topic:
\* the new leaders are balanced whatever the number of partitions before
\* (balanced.go:62-113).
ExtensionKeepsStrategy ==
    /\ outcome = "done" /\ job.op = "extend"
    /\ job.extra % Cardinality(RacksOf(job.rack)) = 0
    /\ Satisfied(job.curr, job.rack, job.goal)
    => Satisfied(desired, job.rack, job.goal) \/ Strategy = "static"

\* Balancing the leaders takes leaderships from racks with too many only, and
\* gives them to racks with too few only, inside the partition where it can;
\* the other partitions stay as they are (balancer_leader.go:11-31).
FewestMoves ==
    outcome = "done" /\ Balancing =>
        \A p \in 1..Len(desired) :
            LET led == Leads(job.curr, job.rack, job.rack[job.curr[p][1]])
                leads == Leads(job.curr, job.rack, job.rack[desired[p][1]])
                racks == Cardinality(RacksOf(job.rack))
            IN  \/ desired[p] = job.curr[p]
                \/ /\ led * racks > Len(desired) /\ leads * racks < Len(desired)
                   /\ \/ Members(desired[p]) = Members(job.curr[p])
                      \/ \A r \in 2..N : job.rack[job.curr[p][r]]
                                            # job.rack[desired[p][1]]

\* A call that passed its checks fails only for want of brokers: the extender
\* when a rack is smaller than its turn asks, the rebalancer on "any" when the
\* lower half of the brokers has fewer than a partition needs, the balancing of
\* leaders when there are more partitions than loops (picker.go:101,
\* frequency.go:118-126 and 267-284, balancer_leader.go:72-91).
FailsOnlyForWant ==
    /\ outcome = "too-many-loops" => Len(desired) > MaxLoops
    /\ outcome = "no-choice" =>
          /\ job.op = "extend" /\ Strategy # "in-rack"
          /\ LET racks == Cardinality(RacksOf(job.rack))
             IN  \E r \in RacksOf(job.rack) :
                    Cardinality(InThe(job.rack, r)) < (N + racks - 1) \div racks
    /\ outcome = "not-removed" =>
          Strategy # "any" \/ Cardinality(Brokers) \div 2 < N

\* a replica to remove, others besides it, and no broker that could stay there
NoneLeft ==
    /\ Rebalancing /\ index <= N /\ Cardinality(job.remove) > 1
    /\ \E p \in 1..Len(desired) :
          /\ Removed(desired[p][index])
          /\ \A b \in Brokers \ job.remove :
                ~EvaluateAssignments([desired EXCEPT ![p][index] = b], job.rack,
                                     job.goal)

\* Every call returns, whatever it picks, but for a rebalance that is to remove
\* several brokers and has none left to put in the place of one
\* (balancer_leader.go:72-91, frequency.go:97-133).
CallsReturn == <>[](outcome \in Ended \/ NoneLeft)

\* A rebalance ends, with "Could not find a feasible replacement for broker"
\* when there is none (frequency.go:117-126).
RemovalsEnd == job.op = "rebalance" ~> outcome \in Ended

=============================================================================
