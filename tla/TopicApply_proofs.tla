-------------------------- MODULE TopicApply_proofs --------------------------
(***************************************************************************)
(* Theorems about TopicApply, for any topics, brokers, appliers, configs,  *)
(* initial clusters and bounds, and for either admin client.               *)
(***************************************************************************)
EXTENDS TopicApply, FiniteSetTheorems, SequenceTheorems, TLAPS

(***************************************************************************)
(* The lock.  Seen from the lock, a step of a run does one of three things *)
(* - it keeps what it has, it lets go, or it takes the free lock - and the *)
(* inductive invariant needs no more of the run than its pc and its phase. *)
(***************************************************************************)
ControlTypeOK ==
    /\ pc \in [Appliers -> Pcs]
    /\ phase \in [Appliers -> Phases]
    /\ lock \in Appliers \cup {Nobody}

\* a rebalance is never taken for the placement that holds the lock
BalanceInPhase == \A a \in Appliers : pc[a] = "balance" => phase[a] = "balance"

LockInv == ControlTypeOK /\ BalanceInPhase /\ LockExclusion

Turn(a) ==
    /\ pc' \in [Appliers -> Pcs]
    /\ phase' \in [Appliers -> Phases]
    /\ pc'[a] = "balance" => phase'[a] = "balance"
    /\ \A b \in Appliers \ {a} : pc'[b] = pc[b] /\ phase'[b] = phase[b]

Holds(a) == Guarded(a) /\ NeedsLock(a)
Over(a) == pc[a] \in Ended \ {"crashed"}

KeepsLock(a) == Turn(a) /\ lock' = lock /\ (Holds(a)' => Holds(a)) /\ (Over(a)' => Over(a))
DropsLock(a) == Turn(a) /\ Unlock(a) /\ ~Holds(a)'
TakesLock(a) == Turn(a) /\ lock = Nobody /\ lock' = a /\ ~Over(a)'

LockMove(a) == KeepsLock(a) \/ DropsLock(a) \/ TakesLock(a)

\* Whatever a run does of the three preserves the invariant for every run.
LEMMA LockMovePreserves ==
    ASSUME LockInv, NEW a \in Appliers, LockMove(a)
    PROVE  LockInv'
<1> USE OwnersDistinct DEF LockInv, LockMove
<1>1. CASE KeepsLock(a)
  <2>1. \A b \in Appliers : Holds(b)' => Holds(b)
    BY <1>1 DEF KeepsLock, Turn, Holds, Guarded, NeedsLock
  <2>2. \A b \in Appliers : Over(b)' => Over(b)
    BY <1>1 DEF KeepsLock, Turn, Over
  <2>3. LockExclusion'
    BY <1>1, <2>1, <2>2 DEF KeepsLock, LockExclusion, Holds, Over
  <2>4. ControlTypeOK' /\ BalanceInPhase'
    BY <1>1 DEF KeepsLock, Turn, ControlTypeOK, BalanceInPhase
  <2> QED BY <2>3, <2>4
<1>2. CASE DropsLock(a)
  <2>1. ControlTypeOK' /\ BalanceInPhase'
    BY <1>2 DEF DropsLock, Turn, Unlock, ControlTypeOK, BalanceInPhase
  <2>2. lock' # a
    BY <1>2 DEF DropsLock, Unlock
  <2>3. \A b \in Appliers \ {a} : (Holds(b)' => Holds(b)) /\ (Over(b)' => Over(b))
    BY <1>2 DEF DropsLock, Turn, Holds, Guarded, NeedsLock, Over
  <2>4. \A b \in Appliers \ {a} : Holds(b)' => lock' = b
    BY <1>2, <2>3 DEF DropsLock, Unlock, LockExclusion, Holds
  <2>5. \A b \in Appliers \ {a} : Over(b)' => lock' # b
    BY <1>2, <2>3 DEF DropsLock, Unlock, LockExclusion, Over
  <2>6. LockExclusion'
    BY <1>2, <2>2, <2>4, <2>5 DEF DropsLock, LockExclusion, Holds, Over
  <2> QED BY <2>1, <2>6
<1>3. CASE TakesLock(a)
  <2>1. ControlTypeOK' /\ BalanceInPhase'
    BY <1>3 DEF TakesLock, Turn, ControlTypeOK, BalanceInPhase
  <2>2. \A b \in Appliers \ {a} : ~Holds(b) /\ (Holds(b)' => Holds(b))
    BY <1>3 DEF TakesLock, Turn, Holds, Guarded, NeedsLock, LockExclusion
  <2>3. LockExclusion'
    BY <1>3, <2>2 DEF TakesLock, LockExclusion, Holds, Over
  <2> QED BY <2>1, <2>3
<1> QED BY <1>1, <1>2, <1>3

\* An outcome ends the run and lets go of the lock.
LEMMA StopDrops ==
    ASSUME LockInv, NEW a \in Appliers, NEW o \in Ended, Stop(a, o)
    PROVE  LockMove(a)
<1>1. Turn(a)
  BY DEF LockInv, ControlTypeOK, Stop, Go, Enter, Turn, Pcs, Phases, Ended
<1>2. ~Holds(a)'
  BY DEF LockInv, ControlTypeOK, Stop, Go, Ended, Holds, Guarded, Adding, Moving, Electing
<1> QED BY <1>1, <1>2 DEF Stop, LockMove, DropsLock

\* An error returned before the end does too.
LEMMA AbortDrops ==
    ASSUME LockInv, NEW a \in Appliers, Abort(a)
    PROVE  LockMove(a)
BY StopDrops DEF Abort, Outcome, Ended

\* A step that changes only the run's pc keeps the lock when it does not enter
\* a locked section, end the run or start a rebalance.
LEMMA GoKeeps ==
    ASSUME LockInv, NEW a \in Appliers, NEW label \in Pcs \ (Ended \cup {"balance"}),
           Go(a, label), UNCHANGED <<phase, lock>>,
           label \in Adding \cup Moving \cup Electing => Guarded(a) \/ phase[a] # "update",
           label \in Adding \cup Electing => Guarded(a)
    PROVE  LockMove(a)
<1>1. Turn(a)
  BY DEF LockInv, ControlTypeOK, Go, Turn
<1>2. Holds(a)' => Holds(a)
  BY DEF LockInv, ControlTypeOK, Go, Holds, Guarded, NeedsLock
<1>3. ~Over(a)'
  BY DEF LockInv, ControlTypeOK, Go, Over
<1> QED BY <1>1, <1>2, <1>3 DEF LockMove, KeepsLock

\* The same for a step that also enters another part of Apply.
LEMMA EnterKeeps ==
    ASSUME LockInv, NEW a \in Appliers,
           NEW label \in Pcs \ (Ended \cup Adding \cup Moving \cup Electing \cup {"balance"}),
           NEW name \in Phases, Go(a, label), Enter(a, name), UNCHANGED lock
    PROVE  LockMove(a)
<1>1. Turn(a)
  BY DEF LockInv, ControlTypeOK, Go, Enter, Turn
<1>2. ~Holds(a)' /\ ~Over(a)'
  BY DEF LockInv, ControlTypeOK, Go, Holds, Guarded, Over
<1> QED BY <1>1, <1>2 DEF LockMove, KeepsLock

\* The steps that leave a locked section without ending the run.
LEMMA GoDrops ==
    ASSUME LockInv, NEW a \in Appliers,
           NEW label \in Pcs \ (Adding \cup Moving \cup Electing \cup {"balance"}),
           Go(a, label), Unlock(a), UNCHANGED phase
    PROVE  LockMove(a)
<1>1. Turn(a)
  BY DEF LockInv, ControlTypeOK, Go, Turn
<1>2. ~Holds(a)'
  BY DEF LockInv, ControlTypeOK, Go, Holds, Guarded
<1> QED BY <1>1, <1>2 DEF LockMove, DropsLock

\* A prompt answered "yes" goes on within what the run holds; "no" ends it.
LEMMA AskKeeps ==
    ASSUME LockInv, NEW a \in Appliers, NEW label \in Prompts,
           NEW next \in Pcs \ (Ended \cup {"balance"}), NEW r, Ask(a, label, r, next),
           next \in Adding \cup Moving \cup Electing => Guarded(a) \/ phase[a] # "update",
           next \in Adding \cup Electing => Guarded(a)
    PROVE  LockMove(a)
BY AbortDrops, GoKeeps DEF Ask

\* One step per action, by the part of apply.go it belongs to.
LEMMA CheckStepMoves ==
    ASSUME LockInv, NEW a \in Appliers, CheckStep(a)
    PROVE  LockMove(a)
<1> USE DEF Pcs, Ended, Prompts, Waiting, Calls, Locals, Phases, Adding, Moving, Electing
<1>1. CASE Lookup(a)
  BY <1>1, StopDrops, EnterKeeps DEF Lookup
<1>2. CASE AskCreate(a)
  BY <1>2, AskKeeps DEF AskCreate
<1>3. CASE CreateTopic(a)
  BY <1>3, AbortDrops, GoKeeps DEF CreateTopic
<1>4. CASE Settle(a)
  BY <1>4, EnterKeeps DEF Settle
<1>5. CASE LockCheck(a)
  <2>1. PICK label \in {"settings", "askClearTopic", "listTopics"} : Go(a, label)
    BY <1>5 DEF LockCheck, AfterTopicThrottles
  <2> QED BY <1>5, <2>1, GoKeeps DEF LockCheck
<1>6. CASE AskClearTopic(a)
  BY <1>6, AbortDrops, GoKeeps DEF AskClearTopic
<1>7. CASE ClearTopic(a)
  BY <1>7, GoKeeps DEF ClearTopic, WriteTopicThrottle, AfterTopicThrottles
<1>8. CASE ListTopics(a)
  BY <1>8, GoKeeps DEF ListTopics
<1>9. CASE AskClearBrokers(a)
  BY <1>9, AbortDrops, GoKeeps DEF AskClearBrokers
<1> QED BY <1>1, <1>2, <1>3, <1>4, <1>5, <1>6, <1>7, <1>8, <1>9 DEF CheckStep

\* updateSettings to the poll for added partitions.
LEMMA UpdateStepMoves ==
    ASSUME LockInv, NEW a \in Appliers, UpdateStep(a)
    PROVE  LockMove(a)
<1> USE DEF Pcs, Ended, Prompts, Waiting, Calls, Locals, Phases, Adding, Moving, Electing
<1>1. CASE Settings(a)
  BY <1>1, EnterKeeps DEF Settings
<1>2. CASE AskSettings(a)
  BY <1>2, AskKeeps DEF AskSettings
<1>3. CASE WriteSettings(a)
  BY <1>3, GoKeeps DEF WriteSettings
<1>4. CASE Counts(a)
  BY <1>4, AbortDrops, StopDrops, GoKeeps DEF Counts
<1>5. CASE ReadPartitions(a)
  BY <1>5, AbortDrops, StopDrops, GoDrops, GoKeeps DEF ReadPartitions, Guarded
<1>6. CASE AskAdd(a)
  BY <1>6, AskKeeps DEF AskAdd, Ask, Guarded
<1>7. CASE AddPartitions(a)
  BY <1>7, AbortDrops, GoKeeps DEF AddPartitions, Guarded
<1>8. CASE PollAdd(a)
  BY <1>8, GoDrops DEF PollAdd
<1> QED BY <1>1, <1>2, <1>3, <1>4, <1>5, <1>6, <1>7, <1>8 DEF UpdateStep

\* updatePlacementRunner begins in the phase it was called from.
LEMMA ProposeMoves ==
    ASSUME LockInv, NEW a \in Appliers, NEW v, NEW d, Propose(a, v, d),
           UNCHANGED phase, Guarded(a) \/ phase[a] # "update"
    PROVE  LockMove(a)
<1> USE DEF Pcs, Ended, Prompts, Waiting, Calls, Locals, Phases, Adding, Moving, Electing
<1>1. CASE Conf[a].dryRun
  BY <1>1, GoDrops DEF Propose
<1>2. CASE ~Conf[a].dryRun
  BY <1>2, GoKeeps DEF Propose
<1> QED BY <1>1, <1>2

\* updatePlacement, updateBalance and the runner they share.
LEMMA MoveStepMoves ==
    ASSUME LockInv, NEW a \in Appliers, MoveStep(a)
    PROVE  LockMove(a)
<1> USE DEF Pcs, Ended, Prompts, Waiting, Calls, Locals, Phases, Adding, Moving, Electing
<1>1. CASE Placement(a)
  <2>1. CASE Abort(a)
    BY <2>1, AbortDrops
  <2>2. CASE ~Abort(a)
    <3>1. PICK label \in {"leaders", "lockPlacement", "askWarn", "readPlacement"} :
             /\ Go(a, label)
             /\ label \in Moving => phase[a] = "new"
      BY <1>1, <2>2 DEF Placement
    <3>2. UNCHANGED <<phase, lock>>
      BY <1>1, <2>2 DEF Placement
    <3> QED BY <3>1, <3>2, GoKeeps
  <2> QED BY <2>1, <2>2
<1>2. CASE AskWarn(a)
  BY <1>2, AskKeeps, GoKeeps DEF AskWarn, Ask, Guarded
<1>3. CASE ReadPlacement(a)
  BY <1>3, AbortDrops, ProposeMoves DEF ReadPlacement, Guarded
<1>4. CASE Balance(a)
  <2>1. phase[a] = "balance"
    BY <1>4 DEF Balance, LockInv, BalanceInPhase
  <2> QED BY <1>4, <2>1, AbortDrops, GoKeeps, ProposeMoves DEF Balance
<1>5. CASE AskRun(a)
  BY <1>5, AskKeeps DEF AskRun, Ask, Guarded
<1>6. CASE Batch(a)
  <2>1. CASE run[a].todo = {}
    BY <1>6, <2>1, GoDrops DEF Batch
  <2>2. CASE run[a].todo # {}
    BY <1>6, <2>2, GoKeeps DEF Batch, Guarded
  <2> QED BY <2>1, <2>2
<1>7. CASE ThrottleTopic(a)
  BY <1>7, GoKeeps DEF ThrottleTopic, WriteTopicThrottle, Guarded
<1>8. CASE ThrottleBroker(a)
  BY <1>8, GoKeeps DEF ThrottleBroker, Guarded
<1>9. CASE Assign(a)
  BY <1>9, AbortDrops, GoKeeps DEF Assign, Guarded
<1>10. CASE Poll(a)
  BY <1>10, GoKeeps DEF Poll, Guarded
<1>11. CASE UnthrottleTopic(a)
  BY <1>11, GoKeeps DEF UnthrottleTopic, WriteTopicThrottle, Guarded
<1>12. CASE UnthrottleBroker(a)
  BY <1>12, GoKeeps DEF UnthrottleBroker, Go, Guarded, LockInv, ControlTypeOK
<1>13. CASE UnthrottleDone(a)
  BY <1>13, AbortDrops, GoKeeps DEF UnthrottleDone, Guarded
<1>14. CASE AskNext(a)
  BY <1>14, AskKeeps, GoKeeps DEF AskNext, Ask, Guarded
<1> QED BY <1>1, <1>2, <1>3, <1>4, <1>5, <1>6, <1>7, <1>8, <1>9, <1>10, <1>11,
           <1>12, <1>13, <1>14 DEF MoveStep

\* updateLeaders returns, into the rebalance or out of Apply.
LEMMA LeadersCheckedMoves ==
    ASSUME LockInv, NEW a \in Appliers, LeadersChecked(a)
    PROVE  LockMove(a)
<1>1. CASE phase[a] = "update" /\ Conf[a].rebalance
  <2>1. Turn(a) /\ ~Holds(a)'
    BY <1>1 DEF LeadersChecked, Go, Enter, Turn, Holds, Guarded, LockInv, ControlTypeOK,
                Pcs, Calls, Phases, Adding, Moving, Electing
  <2> QED BY <1>1, <2>1 DEF LeadersChecked, LockMove, DropsLock
<1>2. CASE ~(phase[a] = "update" /\ Conf[a].rebalance)
  BY <1>2, StopDrops DEF LeadersChecked, Ended
<1> QED BY <1>1, <1>2

\* updateLeaders.
LEMMA LeaderStepMoves ==
    ASSUME LockInv, NEW a \in Appliers, LeaderStep(a)
    PROVE  LockMove(a)
<1> USE DEF Pcs, Ended, Prompts, Waiting, Calls, Locals, Phases, Adding, Moving, Electing
<1>1. CASE Leaders(a)
  BY <1>1, LeadersCheckedMoves, AbortDrops, GoKeeps DEF Leaders
<1>2. CASE AskElect(a)
  BY <1>2, AskKeeps DEF AskElect, Ask, Guarded
<1>3. CASE Elect(a)
  BY <1>3, AbortDrops, GoKeeps DEF Elect, Guarded
<1>4. CASE PollElect(a)
  BY <1>4, LeadersCheckedMoves DEF PollElect
<1> QED BY <1>1, <1>2, <1>3, <1>4 DEF LeaderStep

\* acquireClusterLock and acquireTopicLock, until the lock or the timeout comes.
LEMMA LockStepMoves ==
    ASSUME LockInv, NEW a \in Appliers, LockStep(a)
    PROVE  LockMove(a)
<1> USE DEF LockInv, ControlTypeOK, Pcs, Ended, Prompts, Waiting, Calls
<1>1. CASE Acquire(a)
  <2>1. Turn(a) /\ ~Over(a)'
    BY <1>1 DEF Acquire, AfterLock, Go, Turn, Over
  <2>2. CASE NeedsLock(a)
    BY <1>1, <2>1, <2>2 DEF Acquire, LockMove, TakesLock
  <2>3. CASE ~NeedsLock(a)
    BY <1>1, <2>1, <2>3 DEF Acquire, LockMove, KeepsLock, Holds, NeedsLock
  <2> QED BY <2>2, <2>3
<1>2. CASE LockTimeout(a)
  BY <1>2, AbortDrops DEF LockTimeout
<1> QED BY <1>1, <1>2 DEF LockStep

\* A failed call lets go of the lock; a dead process still has its node.
LEMMA FaultStepMoves ==
    ASSUME LockInv, NEW a \in Appliers, FaultStep(a)
    PROVE  LockMove(a)
<1> USE DEF Pcs, Ended, Prompts, Waiting, Calls, Locals, Phases, Adding, Moving, Electing
<1>1. CASE UnthrottleFault(a)
  BY <1>1, GoKeeps DEF UnthrottleFault, Go, Guarded, LockInv, ControlTypeOK
<1>2. CASE Fail(a)
  BY <1>2, StopDrops DEF Fail, Outcome
<1>3. CASE Crash(a)
  <2>1. Turn(a) /\ ~Holds(a)' /\ ~Over(a)'
    BY <1>3 DEF Crash, Go, Enter, Turn, Holds, Guarded, Over, LockInv, ControlTypeOK
  <2> QED BY <1>3, <2>1 DEF Crash, LockMove, KeepsLock
<1> QED BY <1>1, <1>2, <1>3 DEF FaultStep

\* A new run starts outside every locked section.
LEMMA StartMoves ==
    ASSUME LockInv, NEW a \in Appliers, Start(a)
    PROVE  LockMove(a)
BY EnterKeeps DEF Start, Pcs, Ended, Prompts, Waiting, Calls, Locals, Phases, Adding,
                  Moving, Electing

\* The node of a dead process goes with its session.
LEMMA SessionExpiresMoves ==
    ASSUME LockInv, NEW a \in Appliers, SessionExpires(a)
    PROVE  LockMove(a)
<1>1. Turn(a) /\ ~Holds(a)'
  BY DEF SessionExpires, Turn, Holds, Guarded, LockInv, ControlTypeOK, BalanceInPhase,
         Adding, Moving, Electing
<1> QED BY <1>1 DEF SessionExpires, Unlock, LockMove, DropsLock

\* LockExclusion in every reachable state, so for any number of runs: partition
\* changes and leader elections of runs that take locks never overlap.
THEOREM LockSafety == Spec => []LockExclusion
<1>1. Init => LockInv
  BY OwnersDistinct DEF Init, LockInv, ControlTypeOK, BalanceInPhase, LockExclusion,
     Guarded, Pcs, Phases, Adding, Moving, Electing, Ended
<1>2. LockInv /\ [Next]_vars => LockInv'
  <2> SUFFICES ASSUME LockInv, [Next]_vars PROVE LockInv'
    OBVIOUS
  <2>1. ASSUME NEW a \in Appliers, Start(a) \/ Step(a) \/ FaultStep(a) \/ SessionExpires(a)
        PROVE LockInv'
    <3>1. LockMove(a)
      BY <2>1, StartMoves, CheckStepMoves, UpdateStepMoves, MoveStepMoves,
         LeaderStepMoves, LockStepMoves, FaultStepMoves, SessionExpiresMoves DEF Step
    <3> QED BY <2>1, <3>1, LockMovePreserves
  <2>2. ASSUME UNCHANGED <<pc, phase, lock>> PROVE LockInv'
    BY <2>2 DEF LockInv, ControlTypeOK, BalanceInPhase, LockExclusion, Guarded, NeedsLock
  <2>3. CASE ControllerStep
    BY <2>2, <2>3 DEF ControllerStep, Controller, ControllerCreates, ControllerExpands,
       ControllerFinishes, ControllerElects, OnlyParts
  <2>4. CASE Rest \/ UNCHANGED vars
    BY <2>2, <2>4 DEF Rest, vars
  <2> QED BY <2>1, <2>3, <2>4 DEF Next
<1>3. LockInv => LockExclusion
  BY DEF LockInv
<1> QED BY <1>1, <1>2, <1>3, PTL DEF Spec

-----------------------------------------------------------------------------
(***************************************************************************)
(* Types.  They rest on how long a run's lists are at each point: a call   *)
(* indexes the desired assignments by partition ids it computed earlier,   *)
(* from a view that was read earlier still.                                *)
(***************************************************************************)
Migrating == {"throttleTopic", "throttleBrokers", "assign", "poll",
              "unthrottleTopic", "unthrottleBrokers", "askNext"}

\* what run r can rely on at a given pc
Shaped(label, r) ==
    /\ label \in {"askAdd", "addPartitions"} =>
          \E k \in Nat : k <= Len(r.desired) /\ r.batch = k + 1 .. Len(r.desired)
    /\ label \in {"askRun", "batch"} \cup Migrating =>
          DOMAIN r.view = DOMAIN r.desired
    /\ label \in {"batch"} \cup Migrating => r.todo \subseteq DOMAIN r.desired
    /\ label \in Migrating => r.batch \subseteq DOMAIN r.desired

StoreTypeOK ==
    /\ parts \in [Topics -> Seq(Partition)]
    /\ retention \in [Topics -> Nat]
    /\ topicThr \in [Topics -> TopicThrottle]
    /\ brokerThr \in [Brokers -> [Keys -> Appliers \cup {Operator, Nobody}]]
    /\ reassign \in SUBSET Move
    /\ election \in SUBSET (Topics \X (Nat \ {0}))

CountersTypeOK == runs \in [Appliers -> 0..MaxRuns] /\ faults \in 0..MaxFaults
RunsTypeOK == run \in [Appliers -> RunType]
AllShaped == \A a \in Appliers : Shaped(pc[a], run[a])

TypeInv == LockInv /\ StoreTypeOK /\ CountersTypeOK /\ RunsTypeOK /\ AllShaped

(***************************************************************************)
(* Sequences of partitions and of replica lists.                           *)
(***************************************************************************)
\* A function on 1..n into S is a sequence over S of length n.
LEMMA SeqMade ==
    ASSUME NEW S, NEW n \in Nat, NEW f \in [1..n -> S]
    PROVE  f \in Seq(S) /\ Len(f) = n /\ DOMAIN f = 1..n
<1>1. f \in Seq(S)
  BY SeqDef
<1> QED BY <1>1, LenProperties

\* The elements of a sequence, and replacing one, stay in its set.
LEMMA SeqUsed ==
    ASSUME NEW S, NEW s \in Seq(S)
    PROVE  /\ Len(s) \in Nat /\ DOMAIN s = 1..Len(s)
           /\ \A i \in DOMAIN s : s[i] \in S
BY LenProperties, ElementOfSeq

\* An incomplete read is a list of partitions.
LEMMA PartialIsView ==
    ASSUME NEW all \in Seq(Partition), NEW read, read \subseteq DOMAIN all
    PROVE  Partial(all, read) \subseteq Seq(Partition)
<1>1. Cardinality(read) \in Nat
  <2>1. Len(all) \in Nat /\ DOMAIN all = 1..Len(all)
    BY SeqUsed
  <2>2. IsFiniteSet(1..Len(all))
    BY <2>1, FS_Interval
  <2>3. IsFiniteSet(read)
    BY <2>1, <2>2, FS_Subset
  <2> QED BY <2>3, FS_CardinalityType
<1> SUFFICES ASSUME NEW n \in 0..Cardinality(read), NEW f \in [1..n -> read]
             PROVE  [i \in 1..n |-> all[f[i]]] \in Seq(Partition)
  BY DEF Partial
<1>2. n \in Nat
  BY <1>1
<1>3. [i \in 1..n |-> all[f[i]]] \in [1..n -> Partition]
  BY SeqUsed
<1> QED BY <1>2, <1>3, SeqMade

\* So is every answer of GetTopic.
LEMMA ViewsType ==
    ASSUME StoreTypeOK, NEW t \in Topics
    PROVE  Views(t) \subseteq Seq(Partition)
<1>1. parts[t] \in Seq(Partition) /\ Up(t) \subseteq DOMAIN parts[t]
  BY DEF StoreTypeOK, Up
<1> QED BY <1>1, PartialIsView DEF Views

\* The assignments of a list of partitions are as many replica lists.
LEMMA ListsType ==
    ASSUME NEW v \in Seq(Partition)
    PROVE  Lists(v) \in Seq(Replicas) /\ Len(Lists(v)) = Len(v) /\ DOMAIN Lists(v) = DOMAIN v
<1>1. \A i \in DOMAIN v : Assigned(v[i]) \in Replicas
  <2> SUFFICES ASSUME NEW i \in DOMAIN v PROVE Assigned(v[i]) \in Replicas
    OBVIOUS
  <2>1. v[i] \in Partition
    BY SeqUsed
  <2> QED BY <2>1 DEF Assigned, Partition, Replicas
<1>2. Lists(v) \in [1..Len(v) -> Replicas]
  BY <1>1, SeqUsed DEF Lists
<1> QED BY <1>2, SeqUsed, SeqMade

(***************************************************************************)
(* What a step of a run does to the run itself.                            *)
(***************************************************************************)
Works(a) ==
    /\ run' \in [Appliers -> RunType]
    /\ \A b \in Appliers \ {a} : run'[b] = run[b]
    /\ Shaped(pc'[a], run'[a])

\* A step that stores a record fit for the next pc.
LEMMA SetWorks ==
    ASSUME TypeInv, NEW a \in Appliers, NEW r \in RunType, NEW label \in Pcs,
           Set(a, r), Go(a, label), Shaped(label, r)
    PROVE  Works(a)
BY DEF TypeInv, LockInv, ControlTypeOK, RunsTypeOK, Set, Go, Works

\* A step that leaves the record as it is.
LEMMA SameWorks ==
    ASSUME TypeInv, NEW a \in Appliers, NEW label \in Pcs,
           UNCHANGED run, Go(a, label), Shaped(label, run[a])
    PROVE  Works(a)
BY DEF TypeInv, LockInv, ControlTypeOK, RunsTypeOK, Go, Works

\* The record of a new run has the type, and the shape an ended run must have.
LEMMA NoRunType == NoRun \in RunType /\ \A label \in Ended : Shaped(label, NoRun)
<1>1. NoRun \in RunType
  BY EmptySeq DEF NoRun, RunType
<1>2. \A label \in Ended : Shaped(label, NoRun)
  BY DEF Ended, Shaped, Migrating
<1> QED BY <1>1, <1>2

\* An outcome clears the record.
LEMMA StopWorks ==
    ASSUME TypeInv, NEW a \in Appliers, NEW o \in Ended, Stop(a, o)
    PROVE  Works(a)
BY NoRunType, SetWorks DEF Stop, Pcs

\* An error is an outcome that leaves the store alone.
LEMMA AbortWorks ==
    ASSUME TypeInv, NEW a \in Appliers, Abort(a)
    PROVE  Works(a) /\ StoreTypeOK' /\ CountersTypeOK'
<1>1. Works(a)
  BY StopWorks DEF Abort, Outcome, Ended
<1> QED BY <1>1 DEF Abort, ReadOnly, Quiet, clusterVars, TypeInv, StoreTypeOK, CountersTypeOK

\* A step that only reads keeps the types of the store and of the counters.
LEMMA ReadOnlyTypes ==
    ASSUME TypeInv, ReadOnly
    PROVE  StoreTypeOK' /\ CountersTypeOK'
BY DEF ReadOnly, Quiet, clusterVars, TypeInv, StoreTypeOK, CountersTypeOK

\* The answer of a prompt.
LEMMA AskWorks ==
    ASSUME TypeInv, NEW a \in Appliers, NEW label \in Prompts, NEW r \in RunType,
           NEW next \in Pcs, Ask(a, label, r, next),
           pc[a] = label => Shaped(next, [r EXCEPT !.answer = "yes"])
    PROVE  Works(a) /\ StoreTypeOK' /\ CountersTypeOK'
<1>1. CASE Abort(a)
  BY <1>1, AbortWorks
<1>2. CASE ~Abort(a)
  <2>1. [r EXCEPT !.answer = "yes"] \in RunType
    BY DEF RunType
  <2> QED BY <1>2, <2>1, SetWorks, ReadOnlyTypes DEF Ask
<1> QED BY <1>1, <1>2

(***************************************************************************)
(* One step per action.  Away from the lists' owners any record will do.   *)
(***************************************************************************)
StepTypes(a) == Works(a) /\ StoreTypeOK' /\ CountersTypeOK'

Plain == Pcs \ ({"askAdd", "addPartitions", "askRun", "batch"} \cup Migrating)

\* At a plain pc nothing is asked of the lists.
LEMMA PlainShaped == \A label \in Plain : \A r : Shaped(label, r)
BY DEF Plain, Shaped

\* A run works on a topic, with its own config and a typed record.
LEMMA RunFacts ==
    ASSUME TypeInv, NEW a \in Appliers
    PROVE  Topic(a) \in Topics /\ Conf[a] \in ConfType /\ run[a] \in RunType
           /\ pc[a] \in Pcs /\ Shaped(pc[a], run[a])
BY ConfAssumption DEF ConfType, Topic, TypeInv, RunsTypeOK, AllShaped, LockInv, ControlTypeOK

\* A prompt between plain pcs.
LEMMA AskPlain ==
    ASSUME TypeInv, NEW a \in Appliers, NEW label \in Prompts, NEW next \in Plain,
           Ask(a, label, run[a], next)
    PROVE  StepTypes(a)
BY AskWorks, PlainShaped, RunFacts DEF StepTypes, Plain

\* A read-only step to a plain pc.
LEMMA ReadPlain ==
    ASSUME TypeInv, NEW a \in Appliers, NEW label \in Plain, NEW r \in RunType,
           Go(a, label), Set(a, r) \/ UNCHANGED run, ReadOnly
    PROVE  StepTypes(a)
BY SetWorks, SameWorks, PlainShaped, ReadOnlyTypes, RunFacts DEF StepTypes, Plain

\* Writing a topic's throttles.
LEMMA ThrottleTypes ==
    ASSUME TypeInv, NEW t \in Topics, NEW thr \in TopicThrottle, WriteTopicThrottle(t, thr)
    PROVE  StoreTypeOK'
BY DEF TypeInv, StoreTypeOK, WriteTopicThrottle

\* No throttle is a throttle.
LEMMA UnthrottledType == Unthrottled \in TopicThrottle
BY DEF Unthrottled, TopicThrottle

\* A partition made from a replica list.
LEMMA CreatedType ==
    ASSUME NEW i \in Nat \ {0}, NEW list \in Replicas
    PROVE  Created(i, list) \in Partition
BY DEF Created, Replicas, Partition

\* Reading a topic, creating it and looking at its throttles.
LEMMA CheckStepTypes ==
    ASSUME TypeInv, NEW a \in Appliers, CheckStep(a)
    PROVE  StepTypes(a)
<1> USE RunFacts, PlainShaped
    DEF Pcs, Ended, Prompts, Waiting, Calls, Locals, Plain, Migrating
<1>1. CASE Lookup(a)
  <2>1. CASE Stop(a, "done")
    BY <1>1, <2>1, StopWorks, ReadOnlyTypes DEF Lookup, StepTypes
  <2>2. CASE Go(a, "askCreate") /\ UNCHANGED run
    BY <1>1, <2>2, ReadPlain DEF Lookup
  <2>3. ASSUME NEW v \in Views(Topic(a)),
               Set(a, [run[a] EXCEPT !.view = v,
                         !.throttled = TopicThrottled(Topic(a)),
                         !.retention = retention[Topic(a)]]),
               Go(a, "lockCheck")
        PROVE  StepTypes(a)
    <3>1. v \in Seq(Partition) /\ retention[Topic(a)] \in Nat
          /\ TopicThrottled(Topic(a)) \in BOOLEAN
      BY ViewsType DEF TypeInv, StoreTypeOK, TopicThrottled
    <3>2. [run[a] EXCEPT !.view = v, !.throttled = TopicThrottled(Topic(a)),
             !.retention = retention[Topic(a)]] \in RunType
      BY <3>1 DEF RunType
    <3> QED BY <1>1, <2>3, <3>2, ReadPlain DEF Lookup
  <2> QED BY <1>1, <2>1, <2>2, <2>3 DEF Lookup
<1>2. CASE AskCreate(a)
  BY <1>2, AskPlain DEF AskCreate
<1>3. CASE CreateTopic(a)
  <2>1. CASE Abort(a)
    BY <2>1, AbortWorks DEF StepTypes
  <2>2. CASE ~Abort(a)
    <3>1. PICK lists \in [1..Conf[a].partitions -> NewLists] :
             parts' = [parts EXCEPT ![Topic(a)] =
                [i \in 1..Conf[a].partitions |-> Created(i, lists[i])]]
      BY <1>3, <2>2 DEF CreateTopic
    <3>2. [i \in 1..Conf[a].partitions |-> Created(i, lists[i])]
             \in [1..Conf[a].partitions -> Partition]
      BY CreatedType, ListsAssumption
    <3>3. [i \in 1..Conf[a].partitions |-> Created(i, lists[i])] \in Seq(Partition)
      BY <3>2, SeqMade DEF ConfType
    <3>4. StoreTypeOK' /\ CountersTypeOK'
      BY <1>3, <2>2, <3>1, <3>3 DEF CreateTopic, Quiet, TypeInv, StoreTypeOK, CountersTypeOK,
                                    ConfType
    <3> QED BY <1>3, <2>2, <3>4, SameWorks DEF CreateTopic, StepTypes
  <2> QED BY <2>1, <2>2
<1>4. CASE Settle(a)
  BY <1>4, ReadPlain DEF Settle
<1>5. CASE LockCheck(a)
  <2>1. PICK look \in BOOLEAN, label \in {"settings", "askClearTopic", "listTopics"} :
           Set(a, [run[a] EXCEPT !.cleaned = look]) /\ Go(a, label)
    BY <1>5 DEF LockCheck, AfterTopicThrottles, AllInSync
  <2>2. [run[a] EXCEPT !.cleaned = look] \in RunType
    BY DEF RunType
  <2> QED BY <1>5, <2>1, <2>2, ReadPlain DEF LockCheck
<1>6. CASE AskClearTopic(a)
  <2>1. \A ok \in Answers(a) : [run[a] EXCEPT !.answer = ok] \in RunType
    BY DEF RunType, Answers
  <2> QED BY <1>6, <2>1, AbortWorks, ReadPlain DEF AskClearTopic, StepTypes
<1>7. CASE ClearTopic(a)
  <2>1. StoreTypeOK' /\ CountersTypeOK'
    BY <1>7, ThrottleTypes, UnthrottledType DEF ClearTopic, Quiet, TypeInv, CountersTypeOK
  <2> QED BY <1>7, <2>1, SameWorks DEF ClearTopic, AfterTopicThrottles, StepTypes
<1>8. CASE ListTopics(a)
  BY <1>8, ReadPlain DEF ListTopics
<1>9. CASE AskClearBrokers(a)
  <2>1. \A ok \in Answers(a) :
           [run[a] EXCEPT !.answer = ok, !.queue = run[a].seen] \in RunType
    BY DEF RunType, Answers
  <2> QED BY <1>9, <2>1, AbortWorks, ReadPlain DEF AskClearBrokers, StepTypes
<1> QED BY <1>1, <1>2, <1>3, <1>4, <1>5, <1>6, <1>7, <1>8, <1>9 DEF CheckStep

\* How many numbers follow k up to n.
LEMMA IntervalSize ==
    ASSUME NEW k \in Nat, NEW n \in Nat, k <= n
    PROVE  Cardinality(k + 1 .. n) = n - k
<1>1. k + 1 \in Int /\ n \in Int
  OBVIOUS
<1>2. Cardinality(k + 1 .. n) = IF k + 1 > n THEN 0 ELSE n - (k + 1) + 1
  BY <1>1, FS_Interval
<1> QED BY <1>2

\* The partitions updatePartitionsHelper adds are the last of its list.
LEMMA ExtraTypes ==
    ASSUME NEW v \in Seq(Partition), NEW n \in Nat, Len(v) <= n,
           NEW lists \in [1..(n - Len(v)) -> Replicas]
    PROVE  /\ Lists(v) \o lists \in Seq(Replicas)
           /\ Len(Lists(v) \o lists) = n
           /\ Len(v) + 1 .. n \subseteq Nat \ {0}
<1>1. Len(v) \in Nat
  BY SeqUsed
<1>2. lists \in Seq(Replicas) /\ Len(lists) = n - Len(v)
  BY <1>1, SeqMade
<1>3. Lists(v) \in Seq(Replicas) /\ Len(Lists(v)) = Len(v)
  BY ListsType
<1>4. /\ Lists(v) \o lists \in Seq(Replicas)
      /\ Len(Lists(v) \o lists) = Len(Lists(v)) + Len(lists)
  BY <1>2, <1>3, ConcatProperties
<1>5. Len(Lists(v) \o lists) = n
  BY <1>1, <1>2, <1>3, <1>4
<1> QED BY <1>1, <1>4, <1>5

\* The partitions the call appends are numbered on from what it is told.
LEMMA AppendedTypes ==
    ASSUME NEW desired \in Seq(Replicas), NEW k \in Nat, k <= Len(desired),
           NEW shift \in Nat, NEW batch, batch = k + 1 .. Len(desired)
    PROVE  [i \in 1..Cardinality(batch) |->
              Created(shift + i, desired[Len(desired) - Cardinality(batch) + i])]
              \in Seq(Partition)
<1>1. Len(desired) \in Nat /\ DOMAIN desired = 1..Len(desired)
  BY SeqUsed
<1>2. Cardinality(batch) = Len(desired) - k
  BY <1>1, IntervalSize
<1>3. \A i \in 1..Cardinality(batch) :
         /\ shift + i \in Nat \ {0}
         /\ desired[Len(desired) - Cardinality(batch) + i] \in Replicas
  BY <1>1, <1>2, SeqUsed
<1>4. [i \in 1..Cardinality(batch) |->
         Created(shift + i, desired[Len(desired) - Cardinality(batch) + i])]
         \in [1..Cardinality(batch) -> Partition]
  BY <1>3, CreatedType
<1>5. Cardinality(batch) \in Nat
  BY <1>1, <1>2
<1> HIDE DEF Created
<1> QED BY <1>4, <1>5, SeqMade

\* A call of AddPartitions that goes through appends partitions.
LEMMA AddedTypes ==
    ASSUME TypeInv, NEW a \in Appliers, AddPartitions(a), ~Abort(a)
    PROVE  \E new \in Seq(Partition) :
              parts' = [parts EXCEPT ![Topic(a)] = parts[Topic(a)] \o new]
<1> DEFINE t == Topic(a)
           n == Cardinality(run[a].batch)
           known == Len(run[a].desired) - n
           shift == IF BrokerMode THEN Len(parts[t]) ELSE known
           new == [i \in 1..n |-> Created(shift + i, run[a].desired[known + i])]
<1>1. PICK k \in Nat : k <= Len(run[a].desired)
                       /\ run[a].batch = k + 1 .. Len(run[a].desired)
  BY RunFacts DEF AddPartitions, Shaped
<1>2. run[a].desired \in Seq(Replicas) /\ Len(run[a].desired) \in Nat
  BY RunFacts, SeqUsed DEF RunType
<1>3. n = Len(run[a].desired) - k
  BY <1>1, <1>2, IntervalSize
<1>4. Len(parts[t]) \in Nat
  BY RunFacts, SeqUsed DEF TypeInv, StoreTypeOK
<1>5. shift \in Nat
  BY <1>1, <1>2, <1>3, <1>4
<1> HIDE DEF shift
<1>6. new \in Seq(Partition)
  BY <1>1, <1>2, <1>5, AppendedTypes
<1> HIDE DEF new
<1>7. parts' = [parts EXCEPT ![t] = parts[t] \o new]
  BY DEF AddPartitions, new, shift
<1> QED BY <1>6, <1>7

\* Updating the settings and adding partitions.
LEMMA UpdateStepTypes ==
    ASSUME TypeInv, NEW a \in Appliers, UpdateStep(a)
    PROVE  StepTypes(a)
<1> USE RunFacts, PlainShaped
    DEF Pcs, Ended, Prompts, Waiting, Calls, Locals, Plain, Migrating
<1>1. CASE Settings(a)
  <2>1. [run[a] EXCEPT !.answer = "none"] \in RunType
    BY DEF RunType
  <2> QED BY <1>1, <2>1, ReadPlain DEF Settings
<1>2. CASE AskSettings(a)
  BY <1>2, AskPlain DEF AskSettings
<1>3. CASE WriteSettings(a)
  <2>1. NextRetention(a, run[a].retention) \in Nat
    BY DEF NextRetention, RunType, ConfType
  <2>2. StoreTypeOK' /\ CountersTypeOK'
    BY <1>3, <2>1, UnthrottledType
       DEF WriteSettings, Quiet, TypeInv, StoreTypeOK, CountersTypeOK
  <2> QED BY <1>3, <2>2, SameWorks DEF WriteSettings, StepTypes
<1>4. CASE Counts(a)
  <2>1. CASE Abort(a)
    BY <2>1, AbortWorks DEF StepTypes
  <2>2. CASE Stop(a, "done") /\ ReadOnly
    BY <2>2, StopWorks, ReadOnlyTypes DEF StepTypes
  <2> QED BY <1>4, <2>1, <2>2, ReadPlain DEF Counts
<1>5. CASE ReadPartitions(a)
  <2>1. CASE Abort(a)
    BY <2>1, AbortWorks DEF StepTypes
  <2>2. CASE Stop(a, "panicked") /\ ReadOnly
    BY <2>2, StopWorks, ReadOnlyTypes DEF StepTypes
  <2>3. CASE Go(a, "placement") /\ UNCHANGED run /\ ReadOnly
    BY <2>3, ReadPlain
  <2>4. ASSUME NEW v \in Views(Topic(a)), ~(Conf[a].partitions - Len(v) < 0),
               NEW lists \in [1..(Conf[a].partitions - Len(v)) -> NewLists],
               Set(a, [run[a] EXCEPT !.view = v, !.answer = "none",
                         !.desired = Lists(v) \o lists,
                         !.batch = Len(v) + 1 .. Conf[a].partitions]),
               Go(a, "askAdd"), ReadOnly
        PROVE  StepTypes(a)
    <3> DEFINE r == [run[a] EXCEPT !.view = v, !.answer = "none",
                       !.desired = Lists(v) \o lists,
                       !.batch = Len(v) + 1 .. Conf[a].partitions]
    <3>1. v \in Seq(Partition) /\ Len(v) \in Nat /\ Conf[a].partitions \in Nat
      BY ViewsType, SeqUsed DEF TypeInv, ConfType
    <3>2. /\ Lists(v) \o lists \in Seq(Replicas)
          /\ Len(Lists(v) \o lists) = Conf[a].partitions
          /\ Len(v) + 1 .. Conf[a].partitions \subseteq Nat \ {0}
      BY <2>4, <3>1, ExtraTypes, ListsAssumption
    <3>3. r \in RunType
      BY <3>1, <3>2 DEF RunType
    <3>4. Shaped("askAdd", r)
      BY <2>4, <3>1, <3>2 DEF Shaped, RunType
    <3> QED BY <2>4, <3>3, <3>4, SetWorks, ReadOnlyTypes DEF StepTypes
  <2> QED
    <3> SUFFICES ASSUME ~Abort(a), ~(Stop(a, "panicked") /\ ReadOnly),
                        ~(Go(a, "placement") /\ UNCHANGED run /\ ReadOnly)
                 PROVE  StepTypes(a)
      BY <2>1, <2>2, <2>3
    <3>1. PICK v \in Views(Topic(a)) :
             LET extra == Conf[a].partitions - Len(v)
             IN  /\ ~(extra < 0)
                 /\ \E lists \in [1..extra -> {r \in NewLists :
                          Cardinality(r.reps) = Cardinality(v[1].reps)}] :
                        Set(a, [run[a] EXCEPT !.view = v, !.answer = "none",
                                  !.desired = Lists(v) \o lists,
                                  !.batch = Len(v) + 1 .. Conf[a].partitions])
                 /\ Go(a, "askAdd") /\ ReadOnly
      BY <1>5 DEF ReadPartitions
    <3>2. PICK lists \in [1..(Conf[a].partitions - Len(v)) -> NewLists] :
             Set(a, [run[a] EXCEPT !.view = v, !.answer = "none",
                       !.desired = Lists(v) \o lists,
                       !.batch = Len(v) + 1 .. Conf[a].partitions])
      BY <3>1
    <3> QED BY <2>4, <3>1, <3>2
<1>6. CASE AskAdd(a)
  <2>1. pc[a] = "askAdd" => Shaped("addPartitions", [run[a] EXCEPT !.answer = "yes"])
    BY DEF Shaped, RunType
  <2> QED BY <1>6, <2>1, AskWorks DEF AskAdd, StepTypes
<1>7. CASE AddPartitions(a)
  <2>1. CASE Abort(a)
    BY <2>1, AbortWorks DEF StepTypes
  <2>2. CASE ~Abort(a)
    <3>1. PICK new \in Seq(Partition) :
             parts' = [parts EXCEPT ![Topic(a)] = parts[Topic(a)] \o new]
      BY <1>7, <2>2, AddedTypes
    <3>2. parts[Topic(a)] \o new \in Seq(Partition)
      BY ConcatProperties DEF TypeInv, StoreTypeOK
    <3>3. Go(a, "pollAdd") /\ Quiet
          /\ UNCHANGED <<retention, topicThr, brokerThr, reassign, election, run>>
      BY <1>7, <2>2 DEF AddPartitions
    <3>4. StoreTypeOK' /\ CountersTypeOK'
      BY <3>1, <3>2, <3>3 DEF Quiet, TypeInv, StoreTypeOK, CountersTypeOK
    <3> QED BY <3>3, <3>4, SameWorks DEF StepTypes
  <2> QED BY <2>1, <2>2
<1>8. CASE PollAdd(a)
  BY <1>8, ReadPlain DEF PollAdd
<1> QED BY <1>1, <1>2, <1>3, <1>4, <1>5, <1>6, <1>7, <1>8 DEF UpdateStep

\* A proposed migration has an assignment for every partition of its view.
LEMMA ProposeTypes ==
    ASSUME TypeInv, NEW a \in Appliers, NEW v \in Seq(Partition), NEW d \in Seq(Replicas),
           DOMAIN d = DOMAIN v, Propose(a, v, d)
    PROVE  StepTypes(a)
<1> DEFINE r == [run[a] EXCEPT !.view = v, !.desired = d, !.answer = "none"]
<1>1. r \in RunType
  BY RunFacts DEF RunType
<1>2. r.view = v /\ r.desired = d
  BY RunFacts DEF RunType
<1>3. Shaped("askRun", r) /\ Shaped("leaders", r)
  BY <1>2 DEF Shaped, Migrating
<1>4. PICK label \in {"askRun", "leaders"} : Go(a, label) /\ Set(a, r) /\ ReadOnly
  BY DEF Propose
<1>5. label \in Pcs
  BY DEF Pcs, Prompts, Calls
<1> HIDE DEF r
<1> QED BY <1>1, <1>3, <1>4, <1>5, SetWorks, ReadOnlyTypes DEF StepTypes

\* The throttles of a batch name its partitions and brokers of the cluster.
LEMMA BatchThrottleTypes ==
    ASSUME NEW v \in Seq(Partition), NEW d \in Seq(Replicas), DOMAIN v = DOMAIN d,
           NEW batch, batch \subseteq DOMAIN d
    PROVE  /\ [leader |-> LeaderThrottles(v, d, batch),
               follower |-> FollowerThrottles(v, d, batch)] \in TopicThrottle
           /\ ThrottledBy(v, d, batch) \subseteq Brokers
<1>1. \A i \in batch : v[i] \in Partition /\ d[i] \in Replicas /\ i \in Nat \ {0}
  BY SeqUsed
<1>2. \A i \in Moved(v, d, batch) :
         i \in Nat \ {0} /\ v[i].reps \subseteq Brokers /\ d[i].reps \subseteq Brokers
  BY <1>1 DEF Moved, Partition, Replicas
<1>3. LeaderThrottles(v, d, batch) \subseteq Pairs
  BY <1>2 DEF LeaderThrottles, Pairs
<1>4. FollowerThrottles(v, d, batch) \subseteq Pairs
  BY <1>2 DEF FollowerThrottles, Pairs
<1>5. ThrottledBy(v, d, batch) \subseteq Brokers
  BY <1>2 DEF ThrottledBy
<1> QED BY <1>3, <1>4, <1>5 DEF TopicThrottle

\* The requests for a batch are moves.
LEMMA BatchMoveTypes ==
    ASSUME NEW t \in Topics, NEW d \in Seq(Replicas), NEW batch, batch \subseteq DOMAIN d
    PROVE  {[topic |-> t, id |-> i, pref |-> d[i].pref, reps |-> d[i].reps] : i \in batch}
              \subseteq Move
<1> SUFFICES ASSUME NEW i \in batch
             PROVE  [topic |-> t, id |-> i, pref |-> d[i].pref, reps |-> d[i].reps] \in Move
  OBVIOUS
<1>1. d[i] \in Replicas /\ i \in Nat \ {0}
  BY SeqUsed
<1> QED BY <1>1 DEF Replicas, Move

\* The shape of a migrating run survives a change of what it does not rest on.
LEMMA ShapedKept ==
    ASSUME NEW r \in RunType, NEW s \in RunType, NEW from, NEW to,
           from \in {"batch"} \cup Migrating, to \in {"batch"} \cup Migrating \cup Plain,
           Shaped(from, r), s.view = r.view, s.desired = r.desired, s.todo = r.todo,
           s.batch = r.batch, from = "batch" => to \notin Migrating
    PROVE  Shaped(to, s)
BY DEF Shaped, Migrating, Plain

\* The brokers a run visits one by one are some of those it queued.
LEMMA LeastType == \A S : LeastOf(S) \subseteq S
BY DEF LeastOf

\* Choosing a placement.
LEMMA PlacementTypes ==
    ASSUME TypeInv, NEW a \in Appliers,
           Placement(a) \/ AskWarn(a) \/ ReadPlacement(a) \/ Balance(a)
    PROVE  StepTypes(a)
<1> USE RunFacts, PlainShaped
    DEF Pcs, Ended, Prompts, Waiting, Calls, Locals, Plain, Migrating
<1> SUFFICES ASSUME ~Abort(a) PROVE StepTypes(a)
  BY AbortWorks DEF StepTypes
<1>1. CASE Placement(a)
  <2>1. PICK v \in Views(Topic(a)), size \in {Conf[a].batch} \cup {Len(w) : w \in Views(Topic(a))},
             label \in {"leaders", "lockPlacement", "askWarn", "readPlacement"} :
           /\ Set(a, [run[a] EXCEPT !.view = v, !.answer = "none", !.size = size])
           /\ Go(a, label) /\ ReadOnly
    BY <1>1 DEF Placement
  <2>2. \A w \in Views(Topic(a)) : w \in Seq(Partition) /\ Len(w) \in Nat
    BY ViewsType, SeqUsed DEF TypeInv
  <2>3. size \in Nat
    BY <2>2 DEF ConfType
  <2>4. [run[a] EXCEPT !.view = v, !.answer = "none", !.size = size] \in RunType
    BY <2>2, <2>3 DEF RunType
  <2> QED BY <2>1, <2>4, ReadPlain
<1>2. CASE AskWarn(a)
  BY <1>2, AskPlain, ReadPlain DEF AskWarn
<1>3. CASE ReadPlacement(a)
  <2>1. PICK v \in Views(Topic(a)), d \in Conf[a].placements :
           Len(d) = Len(v) /\ Propose(a, v, d)
    BY <1>3 DEF ReadPlacement
  <2>2. v \in Seq(Partition) /\ d \in Seq(Replicas)
    BY ViewsType DEF TypeInv, ConfType
  <2>3. DOMAIN d = DOMAIN v
    BY <2>1, <2>2, SeqUsed
  <2> QED BY <2>1, <2>2, <2>3, ProposeTypes
<1>4. CASE Balance(a)
  <2>1. CASE Go(a, "leaders") /\ UNCHANGED run /\ ReadOnly
    BY <2>1, ReadPlain
  <2>2. CASE ~(Go(a, "leaders") /\ UNCHANGED run /\ ReadOnly)
    <3>1. PICK v \in Views(Topic(a)) :
             \E d \in {e \in Conf[a].balanced : Len(e) = Len(v)} \cup {Lists(v)} :
                Propose(a, v, d)
      BY <1>4, <2>2 DEF Balance
    <3>5. PICK d \in {e \in Conf[a].balanced : Len(e) = Len(v)} \cup {Lists(v)} :
             Propose(a, v, d)
      BY <3>1
    <3>2. v \in Seq(Partition)
      BY ViewsType DEF TypeInv
    <3>3. d \in Seq(Replicas) /\ Len(d) = Len(v)
      BY <3>2, <3>5, ListsType DEF ConfType
    <3>4. DOMAIN d = DOMAIN v
      BY <3>2, <3>3, SeqUsed
    <3> QED BY <3>2, <3>3, <3>4, <3>5, ProposeTypes
  <2> QED BY <2>1, <2>2
<1> QED BY <1>1, <1>2, <1>3, <1>4

\* Cutting the work into batches.
LEMMA RoundTypes ==
    ASSUME TypeInv, NEW a \in Appliers, AskRun(a) \/ Batch(a) \/ AskNext(a)
    PROVE  StepTypes(a)
<1> USE RunFacts, PlainShaped
    DEF Pcs, Ended, Prompts, Waiting, Calls, Locals, Plain, Migrating
<1>1. CASE AskRun(a)
  <2> DEFINE r == [run[a] EXCEPT !.todo = ToUpdate(run[a].view, run[a].desired)]
  <2>1. run[a].view \in Seq(Partition) /\ pc[a] = "askRun"
        /\ DOMAIN run[a].view = DOMAIN run[a].desired
    BY <1>1 DEF RunType, AskRun, Ask, Shaped
  <2>2. ToUpdate(run[a].view, run[a].desired) \subseteq DOMAIN run[a].view
        /\ DOMAIN run[a].view \subseteq Nat \ {0}
    BY <2>1, SeqUsed DEF ToUpdate
  <2>3. r \in RunType
    BY <2>2 DEF RunType
  <2>4. Shaped("batch", [r EXCEPT !.answer = "yes"])
    BY <2>1, <2>2 DEF Shaped, RunType
  <2> HIDE DEF r
  <2>5. Ask(a, "askRun", r, "batch")
    BY <1>1 DEF AskRun, r
  <2> QED BY <2>3, <2>4, <2>5, AskWorks DEF StepTypes
<1>2. CASE Batch(a)
  <2>1. CASE run[a].todo = {}
    BY <1>2, <2>1, ReadPlain DEF Batch
  <2>2. CASE run[a].todo # {}
    <3> DEFINE batch == NextBatch(a)
               r == [run[a] EXCEPT !.batch = batch, !.todo = @ \ batch,
                       !.ownTopic = FALSE, !.ownBrokers = {}, !.queue = {}]
    <3>1. batch \subseteq run[a].todo /\ run[a].todo \subseteq Nat \ {0}
      BY DEF NextBatch, RunType
    <3>2. r \in RunType
      BY <3>1 DEF RunType
    <3>3. pc[a] = "batch" /\ Shaped("assign", r) /\ Shaped("throttleTopic", r)
      BY <1>2, <3>1 DEF Batch, Shaped, RunType
    <3>4. PICK label \in {"assign", "throttleTopic"} : Go(a, label) /\ Set(a, r) /\ ReadOnly
      BY <1>2, <2>2 DEF Batch
    <3> HIDE DEF r
    <3> QED BY <3>2, <3>3, <3>4, SetWorks, ReadOnlyTypes DEF StepTypes
  <2> QED BY <2>1, <2>2
<1>3. CASE AskNext(a)
  <2>1. pc[a] = "askNext"
    BY <1>3 DEF AskNext, Ask
  <2>2. Shaped("batch", run[a]) /\ Shaped("batch", [run[a] EXCEPT !.answer = "yes"])
    BY <2>1 DEF Shaped, RunType
  <2> QED BY <1>3, <2>2, AskWorks, SameWorks, ReadOnlyTypes DEF AskNext, StepTypes
<1> QED BY <1>1, <1>2, <1>3

\* Migrating a batch.
LEMMA MigrateTypes ==
    ASSUME TypeInv, NEW a \in Appliers,
           \/ ThrottleTopic(a) \/ ThrottleBroker(a) \/ Assign(a) \/ Poll(a)
           \/ UnthrottleTopic(a) \/ UnthrottleBroker(a) \/ UnthrottleDone(a)
    PROVE  StepTypes(a)
<1> USE RunFacts, PlainShaped
    DEF Pcs, Ended, Prompts, Waiting, Calls, Locals, Plain, Migrating
<1> SUFFICES ASSUME ~Abort(a) PROVE StepTypes(a)
  BY AbortWorks DEF StepTypes
<1>0. /\ run[a].view \in Seq(Partition) /\ run[a].desired \in Seq(Replicas)
      /\ run[a].queue \subseteq Brokers /\ run[a].ownBrokers \subseteq Brokers
  BY DEF RunType
<1>1. CASE ThrottleTopic(a)
  <2> DEFINE thr == [leader |-> LeaderThrottles(run[a].view, run[a].desired, run[a].batch),
                     follower |-> FollowerThrottles(run[a].view, run[a].desired, run[a].batch)]
             by == ThrottledBy(run[a].view, run[a].desired, run[a].batch)
  <2>1. DOMAIN run[a].view = DOMAIN run[a].desired /\ run[a].batch \subseteq DOMAIN run[a].desired
    BY <1>1 DEF ThrottleTopic, Shaped
  <2>2. thr \in TopicThrottle /\ by \subseteq Brokers
    BY <1>0, <2>1, BatchThrottleTypes
  <2> HIDE DEF thr, by
  <2>3. [run[a] EXCEPT !.ownTopic = TRUE, !.queue = by] \in RunType
    BY <2>2 DEF RunType
  <2>4. Shaped("throttleBrokers", [run[a] EXCEPT !.ownTopic = TRUE, !.queue = by])
    BY <1>1 DEF ThrottleTopic, Shaped, RunType
  <2>5. WriteTopicThrottle(Topic(a), thr) /\ Go(a, "throttleBrokers") /\ Quiet
        /\ Set(a, [run[a] EXCEPT !.ownTopic = TRUE, !.queue = by])
    BY <1>1 DEF ThrottleTopic, thr, by
  <2>6. StoreTypeOK' /\ CountersTypeOK'
    BY <2>2, <2>5, ThrottleTypes DEF Quiet, TypeInv, CountersTypeOK
  <2> QED BY <2>3, <2>4, <2>5, <2>6, SetWorks DEF StepTypes
<1>2. CASE ThrottleBroker(a)
  <2>1. PICK b \in LeastOf(run[a].queue), label \in {"assign", "throttleBrokers"} :
           /\ brokerThr' = [brokerThr EXCEPT ![b] =
                 [k \in Keys |-> IF BrokerMode \/ @[k] = Nobody THEN a ELSE @[k]]]
           /\ Set(a, [run[a] EXCEPT !.queue = @ \ {b},
                        !.ownBrokers = IF BrokerMode \/ Nobody \in {brokerThr[b][k] : k \in Keys}
                                       THEN @ \cup {b} ELSE @])
           /\ Go(a, label)
    BY <1>2 DEF ThrottleBroker
  <2>2. b \in Brokers
    BY <1>0, LeastType
  <2> DEFINE own == IF BrokerMode \/ Nobody \in {brokerThr[b][k] : k \in Keys}
                    THEN run[a].ownBrokers \cup {b} ELSE run[a].ownBrokers
             r == [run[a] EXCEPT !.queue = @ \ {b}, !.ownBrokers = own]
  <2>3. own \subseteq Brokers
    BY <1>0, <2>2
  <2>4. Set(a, r)
    BY <2>1
  <2> HIDE DEF own
  <2>5. r \in RunType
    BY <2>3 DEF RunType
  <2>6. r.view = run[a].view /\ r.desired = run[a].desired /\ r.todo = run[a].todo
        /\ r.batch = run[a].batch
    BY DEF RunType
  <2> HIDE DEF r
  <2>9. pc[a] = "throttleBrokers" /\ Shaped("throttleBrokers", run[a])
    BY <1>2 DEF ThrottleBroker
  <2>10. Shaped("assign", r) /\ Shaped("throttleBrokers", r)
    BY <2>5, <2>6, <2>9, ShapedKept
  <2>7. brokerThr' \in [Brokers -> [Keys -> Appliers \cup {Operator, Nobody}]]
    BY <2>1, <2>2 DEF TypeInv, StoreTypeOK
  <2>8. StoreTypeOK' /\ CountersTypeOK'
    BY <1>2, <2>7 DEF ThrottleBroker, Quiet, TypeInv, StoreTypeOK, CountersTypeOK
  <2> QED BY <2>1, <2>4, <2>5, <2>8, <2>10, SetWorks DEF StepTypes
<1>3. CASE Assign(a)
  <2> DEFINE moves == {[topic |-> Topic(a), id |-> i,
                        pref |-> run[a].desired[i].pref,
                        reps |-> run[a].desired[i].reps] : i \in run[a].batch}
  <2>1. run[a].batch \subseteq DOMAIN run[a].desired
    BY <1>3 DEF Assign, Shaped
  <2>2. moves \subseteq Move
    BY <1>0, <2>1, BatchMoveTypes
  <2> HIDE DEF moves
  <2>3. reassign' \subseteq reassign \cup moves
    BY <1>3 DEF Assign, moves
  <2>4. StoreTypeOK' /\ CountersTypeOK'
    BY <1>3, <2>2, <2>3 DEF Assign, Quiet, TypeInv, StoreTypeOK, CountersTypeOK
  <2>5. Shaped("poll", run[a])
    BY <1>3 DEF Assign, Shaped
  <2> QED BY <1>3, <2>4, <2>5, SameWorks DEF Assign, StepTypes
<1>4. CASE Poll(a)
  <2>1. PICK label \in {"unthrottleTopic", "unthrottleBrokers"} :
           Go(a, label) /\ Set(a, [run[a] EXCEPT !.queue = run[a].ownBrokers]) /\ ReadOnly
    BY <1>4 DEF Poll
  <2>2. [run[a] EXCEPT !.queue = run[a].ownBrokers] \in RunType
    BY DEF RunType
  <2>3. Shaped(label, [run[a] EXCEPT !.queue = run[a].ownBrokers])
    BY <1>4, <2>1 DEF Poll, Shaped, RunType
  <2> QED BY <2>1, <2>2, <2>3, SetWorks, ReadOnlyTypes DEF StepTypes
<1>5. CASE UnthrottleTopic(a)
  <2>1. StoreTypeOK' /\ CountersTypeOK'
    BY <1>5, ThrottleTypes, UnthrottledType DEF UnthrottleTopic, Quiet, TypeInv, CountersTypeOK
  <2>2. Shaped("unthrottleBrokers", run[a])
    BY <1>5 DEF UnthrottleTopic, Shaped
  <2> QED BY <1>5, <2>1, <2>2, SameWorks DEF UnthrottleTopic, StepTypes
<1>6. CASE UnthrottleBroker(a)
  <2>1. PICK b \in LeastOf(run[a].queue) :
           /\ brokerThr' = [brokerThr EXCEPT ![b] = NoKeys]
           /\ Set(a, [run[a] EXCEPT !.queue = @ \ {b}])
    BY <1>6 DEF UnthrottleBroker
  <2>2. [run[a] EXCEPT !.queue = @ \ {b}] \in RunType
    BY DEF RunType
  <2>3. Shaped(pc[a], [run[a] EXCEPT !.queue = @ \ {b}])
    BY <1>6 DEF UnthrottleBroker, Shaped, RunType
  <2>4. Go(a, pc[a])
    BY <1>6 DEF UnthrottleBroker, Go, TypeInv, LockInv, ControlTypeOK
  <2>5. StoreTypeOK' /\ CountersTypeOK'
    BY <1>6, <2>1 DEF UnthrottleBroker, NoKeys, Quiet, TypeInv, StoreTypeOK, CountersTypeOK
  <2>6. pc[a] \in Pcs
    OBVIOUS
  <2> QED BY <2>1, <2>2, <2>3, <2>4, <2>5, <2>6, SetWorks DEF StepTypes
<1>7. CASE UnthrottleDone(a)
  <2>1. pc[a] = "unthrottleBrokers" => Shaped("askNext", run[a])
    BY DEF Shaped
  <2>2. PICK label \in {"settings", "askNext"} :
           Go(a, label) /\ UNCHANGED run /\ ReadOnly
           /\ (label = "askNext" => pc[a] = "unthrottleBrokers")
    BY <1>7 DEF UnthrottleDone
  <2> QED BY <2>1, <2>2, SameWorks, ReadOnlyTypes DEF StepTypes
<1> QED BY <1>1, <1>2, <1>3, <1>4, <1>5, <1>6, <1>7

\* All of updatePlacement and updateBalance.
LEMMA MoveStepTypes ==
    ASSUME TypeInv, NEW a \in Appliers, MoveStep(a)
    PROVE  StepTypes(a)
BY PlacementTypes, RoundTypes, MigrateTypes DEF MoveStep

\* The end of updateLeaders.
LEMMA LeadersCheckedTypes ==
    ASSUME TypeInv, NEW a \in Appliers, LeadersChecked(a), ReadOnly
    PROVE  StepTypes(a)
<1>1. CASE Go(a, "balance") /\ UNCHANGED run
  BY <1>1, ReadPlain, RunFacts DEF Pcs, Calls, Plain, Migrating
<1>2. CASE Stop(a, "done")
  BY <1>2, StopWorks, ReadOnlyTypes DEF Ended, StepTypes
<1> QED BY <1>1, <1>2 DEF LeadersChecked

\* Electing leaders.
LEMMA LeaderStepTypes ==
    ASSUME TypeInv, NEW a \in Appliers, LeaderStep(a)
    PROVE  StepTypes(a)
<1> USE RunFacts, PlainShaped
    DEF Pcs, Ended, Prompts, Waiting, Calls, Locals, Plain, Migrating
<1>0. CASE Abort(a)
  BY <1>0, AbortWorks DEF StepTypes
<1>1. CASE Leaders(a)
  <2>1. CASE LeadersChecked(a) /\ ReadOnly
    BY <2>1, LeadersCheckedTypes
  <2>2. CASE ~Abort(a) /\ ~(LeadersChecked(a) /\ ReadOnly)
    <3>1. PICK v \in Views(Topic(a)) :
             /\ Set(a, [run[a] EXCEPT !.batch = WrongLeaders(v), !.answer = "none"])
             /\ Go(a, "lockLeaders") /\ ReadOnly
      BY <1>1, <2>2 DEF Leaders
    <3>2. v \in Seq(Partition)
      BY ViewsType DEF TypeInv
    <3>3. \A i \in DOMAIN v : v[i].id \in Nat \ {0}
      BY <3>2, SeqUsed DEF Partition
    <3>4. WrongLeaders(v) \subseteq Nat \ {0}
      BY <3>3 DEF WrongLeaders
    <3>5. [run[a] EXCEPT !.batch = WrongLeaders(v), !.answer = "none"] \in RunType
      BY <3>4 DEF RunType
    <3> QED BY <3>1, <3>5, ReadPlain
  <2> QED BY <1>0, <2>1, <2>2
<1>2. CASE AskElect(a)
  BY <1>2, AskPlain DEF AskElect
<1>3. CASE Elect(a) /\ ~Abort(a)
  <2>1. run[a].batch \subseteq Nat \ {0}
    BY DEF RunType
  <2>2. StoreTypeOK' /\ CountersTypeOK'
    BY <1>3, <2>1 DEF Elect, Quiet, TypeInv, StoreTypeOK, CountersTypeOK
  <2> QED BY <1>3, <2>2, SameWorks DEF Elect, StepTypes
<1>4. CASE PollElect(a)
  BY <1>4, LeadersCheckedTypes DEF PollElect
<1> QED BY <1>0, <1>1, <1>2, <1>3, <1>4 DEF LeaderStep

\* Waiting for the lock, starting, failing and being killed.
LEMMA OtherStepTypes ==
    ASSUME TypeInv, NEW a \in Appliers,
           LockStep(a) \/ FaultStep(a) \/ Start(a) \/ SessionExpires(a)
    PROVE  StepTypes(a)
<1> USE RunFacts, PlainShaped, BoundsAssumption
    DEF Pcs, Ended, Prompts, Waiting, Calls, Locals, Plain, Migrating
<1>1. CASE Acquire(a)
  BY <1>1, ReadPlain DEF Acquire, AfterLock
<1>2. CASE LockTimeout(a)
  BY <1>2, AbortWorks DEF LockTimeout, StepTypes
<1>3. CASE UnthrottleFault(a)
  <2>0. faults < MaxFaults /\ faults' = faults + 1 /\ UNCHANGED <<clusterVars, lock, runs>>
    BY <1>3 DEF UnthrottleFault
  <2>1. StoreTypeOK' /\ CountersTypeOK'
    BY <2>0 DEF clusterVars, TypeInv, StoreTypeOK, CountersTypeOK
  <2>2. CASE pc[a] = "unthrottleTopic"
    <3>1. [run[a] EXCEPT !.failed = TRUE] \in RunType
      BY DEF RunType
    <3>2. Shaped("unthrottleBrokers", [run[a] EXCEPT !.failed = TRUE])
      BY <2>2 DEF Shaped, RunType
    <3> QED BY <1>3, <2>1, <2>2, <3>1, <3>2, SetWorks DEF UnthrottleFault, StepTypes
  <2>3. CASE pc[a] # "unthrottleTopic"
    <3>1. PICK b \in LeastOf(run[a].queue) :
             Set(a, [run[a] EXCEPT !.failed = TRUE, !.queue = @ \ {b}])
      BY <1>3, <2>3 DEF UnthrottleFault
    <3> DEFINE r == [run[a] EXCEPT !.failed = TRUE, !.queue = @ \ {b}]
    <3>2. r \in RunType
      BY DEF RunType
    <3>3. r.view = run[a].view /\ r.desired = run[a].desired /\ r.todo = run[a].todo
          /\ r.batch = run[a].batch
      BY DEF RunType
    <3>4. Set(a, r)
      BY <3>1
    <3> HIDE DEF r
    <3>5. Go(a, pc[a]) /\ pc[a] \in Pcs
      BY <1>3, <2>3 DEF UnthrottleFault, Go, TypeInv, LockInv, ControlTypeOK
    <3>6. Shaped(pc[a], r)
      <4>1. CASE pc[a] = "clearBrokers"
        BY <4>1
      <4>2. CASE pc[a] = "unthrottleBrokers"
        <5>1. Shaped("unthrottleBrokers", run[a])
          BY <4>2
        <5> QED BY <3>2, <3>3, <4>2, <5>1, ShapedKept
      <4> QED BY <1>3, <2>3, <4>1, <4>2 DEF UnthrottleFault
    <3> QED BY <2>1, <3>2, <3>4, <3>5, <3>6, SetWorks DEF StepTypes
  <2> QED BY <2>2, <2>3
<1>4. CASE Fail(a)
  <2>1. StoreTypeOK' /\ CountersTypeOK'
    BY <1>4 DEF Fail, clusterVars, TypeInv, StoreTypeOK, CountersTypeOK
  <2> QED BY <1>4, <2>1, StopWorks DEF Fail, Outcome, StepTypes
<1>5. CASE Crash(a)
  <2>1. StoreTypeOK' /\ CountersTypeOK'
    BY <1>5 DEF Crash, clusterVars, TypeInv, StoreTypeOK, CountersTypeOK
  <2> QED BY <1>5, <2>1, NoRunType, SetWorks DEF Crash, StepTypes
<1>6. CASE Start(a)
  <2> DEFINE seen == {b \in Brokers : BrokerThrottled(b)}
             quiet == (reassign = {} /\ election = {})
             r == [NoRun EXCEPT !.seen = seen, !.quiet = quiet]
  <2>1. r \in RunType
    BY NoRunType DEF RunType
  <2>2. StoreTypeOK' /\ CountersTypeOK'
    BY <1>6 DEF Start, clusterVars, TypeInv, StoreTypeOK, CountersTypeOK
  <2>3. Set(a, r) /\ Go(a, "lookup")
    BY <1>6 DEF Start
  <2> HIDE DEF r
  <2> QED BY <2>1, <2>2, <2>3, SetWorks DEF StepTypes
<1>7. CASE SessionExpires(a)
  <2>1. StoreTypeOK' /\ CountersTypeOK'
    BY <1>7 DEF SessionExpires, clusterVars, TypeInv, StoreTypeOK, CountersTypeOK
  <2>2. Works(a)
    BY <1>7 DEF SessionExpires, TypeInv, RunsTypeOK, Works
  <2> QED BY <2>1, <2>2 DEF StepTypes
<1> QED BY <1>1, <1>2, <1>3, <1>4, <1>5, <1>6, <1>7 DEF LockStep, FaultStep

\* A topic with one partition replaced, if it is there at all, has partitions.
LEMMA PutType ==
    ASSUME NEW all \in Seq(Partition), NEW i, NEW p, i \in DOMAIN all => p \in Partition
    PROVE  [all EXCEPT ![i] = p] \in Seq(Partition)
<1>1. Len(all) \in Nat /\ DOMAIN all = 1..Len(all) /\ \A j \in DOMAIN all : all[j] \in Partition
  BY SeqUsed
<1>2. [all EXCEPT ![i] = p] \in [1..Len(all) -> Partition]
  BY <1>1
<1> QED BY <1>1, <1>2, SeqMade

\* What the controller does to the partitions keeps them partitions, even for
\* a move of a partition that is not there.
LEMMA ControllerTypes ==
    ASSUME TypeInv, ControllerStep
    PROVE  StoreTypeOK'
<1>1. ASSUME parts' \in [Topics -> Seq(Partition)], reassign' \subseteq reassign,
             election' \subseteq election, UNCHANGED <<retention, topicThr, brokerThr>>
      PROVE  StoreTypeOK'
  BY <1>1 DEF TypeInv, StoreTypeOK
<1>2. \A t \in Topics : /\ parts[t] \in Seq(Partition)
                        /\ \A i \in DOMAIN parts[t] : parts[t][i] \in Partition
  BY SeqUsed DEF TypeInv, StoreTypeOK
<1>3. parts \in [Topics -> Seq(Partition)] /\ reassign \subseteq Move
  BY DEF TypeInv, StoreTypeOK
<1>4. ASSUME NEW t \in Topics, ControllerCreates(t)
      PROVE  StoreTypeOK'
  <2>1. PICK i \in DOMAIN parts[t] :
           OnlyParts([parts EXCEPT ![t][i].isr = parts[t][i].reps])
    BY <1>4 DEF ControllerCreates
  <2> DEFINE p == [parts[t][i] EXCEPT !.isr = parts[t][i].reps]
  <2>2. p \in Partition
    BY <1>2 DEF Partition
  <2>3. parts' = [parts EXCEPT ![t] = [parts[t] EXCEPT ![i] = p]]
    BY <2>1 DEF OnlyParts
  <2> HIDE DEF p
  <2>4. parts' \in [Topics -> Seq(Partition)]
    BY <1>2, <1>3, <2>2, <2>3, PutType
  <2> QED BY <1>1, <1>4, <2>1, <2>4 DEF ControllerCreates, OnlyParts
<1>5. ASSUME NEW m \in reassign, ControllerExpands(m)
      PROVE  StoreTypeOK'
  <2> DEFINE old == parts[m.topic][m.id]
  <2>1. PICK first \in {old.pref, m.pref} :
           OnlyParts([parts EXCEPT ![m.topic][m.id] =
                         [old EXCEPT !.reps = old.reps \cup m.reps, !.pref = first]])
    BY <1>5 DEF ControllerExpands
  <2> DEFINE p == [old EXCEPT !.reps = old.reps \cup m.reps, !.pref = first]
  <2>2. m \in Move /\ m.topic \in Topics
    BY <1>3 DEF Move
  <2>3. ASSUME m.id \in DOMAIN parts[m.topic] PROVE p \in Partition
    <3>1. old \in Partition
      BY <1>2, <2>2, <2>3
    <3> HIDE DEF old
    <3>2. /\ p.reps = old.reps \cup m.reps /\ p.pref = first
          /\ p \in [id: Nat \ {0}, pref: Brokers, reps: SUBSET Brokers,
                    isr: SUBSET Brokers, leader: Brokers]
      BY <2>2, <3>1 DEF Partition, Move
    <3>3. p.pref \in p.reps
      BY <2>2, <3>1, <3>2 DEF Partition, Move
    <3> HIDE DEF p
    <3> QED BY <3>2, <3>3 DEF Partition
  <2>4. parts' = [parts EXCEPT ![m.topic] = [parts[m.topic] EXCEPT ![m.id] = p]]
    BY <2>1 DEF OnlyParts
  <2> HIDE DEF p
  <2>5. parts' \in [Topics -> Seq(Partition)]
    BY <1>2, <1>3, <2>2, <2>3, <2>4, PutType
  <2> QED BY <1>1, <1>5, <2>1, <2>5 DEF ControllerExpands, OnlyParts
<1>6. ASSUME NEW m \in reassign, ControllerFinishes(m)
      PROVE  StoreTypeOK'
  <2> DEFINE old == parts[m.topic][m.id]
             p == [id |-> m.id, pref |-> m.pref, reps |-> m.reps, isr |-> m.reps,
                   leader |-> IF old.leader \in m.reps THEN old.leader ELSE m.pref]
  <2>1. m \in Move /\ m.topic \in Topics
    BY <1>3 DEF Move
  <2>2. p \in Partition
    BY <2>1 DEF Partition, Move
  <2>3. OnlyParts([parts EXCEPT ![m.topic] = [parts[m.topic] EXCEPT ![m.id] = p]])
    BY <1>6 DEF ControllerFinishes
  <2> HIDE DEF p
  <2>4. parts' \in [Topics -> Seq(Partition)]
    BY <1>2, <1>3, <2>1, <2>2, <2>3, PutType DEF OnlyParts
  <2> QED BY <1>1, <1>6, <2>3, <2>4 DEF ControllerFinishes, OnlyParts
<1>7. CASE ControllerElects
  <2> DEFINE elected(t) == [i \in DOMAIN parts[t] |->
          IF <<t, i>> \in election /\ parts[t][i].pref \in parts[t][i].isr
          THEN [parts[t][i] EXCEPT !.leader = parts[t][i].pref]
          ELSE parts[t][i]]
  <2>1. \A t \in Topics : elected(t) \in Seq(Partition)
    <3> SUFFICES ASSUME NEW t \in Topics PROVE elected(t) \in Seq(Partition)
      OBVIOUS
    <3>1. Len(parts[t]) \in Nat /\ DOMAIN parts[t] = 1..Len(parts[t])
      BY <1>2, SeqUsed
    <3>2. \A i \in DOMAIN parts[t] : elected(t)[i] \in Partition
      BY <1>2 DEF Partition
    <3>3. elected(t) \in [1..Len(parts[t]) -> Partition]
      BY <3>1, <3>2
    <3> HIDE DEF elected
    <3> QED BY <3>1, <3>3, SeqMade
  <2>2. OnlyParts([t \in Topics |-> elected(t)]) /\ election' = {} /\ UNCHANGED reassign
    BY <1>7 DEF ControllerElects
  <2> HIDE DEF elected
  <2>3. parts' \in [Topics -> Seq(Partition)]
    BY <2>1, <2>2 DEF OnlyParts
  <2> QED BY <1>1, <2>2, <2>3 DEF OnlyParts
<1> QED BY <1>4, <1>5, <1>6, <1>7 DEF ControllerStep, Controller

\* The inductive invariant: every list a run indexes is as long as the call
\* takes it to be, and everything it writes is of the type readers expect.
THEOREM TypeInvariant == Spec => []TypeInv
<1>1. Init => TypeInv
  <2> SUFFICES ASSUME Init PROVE TypeInv
    OBVIOUS
  <2>1. PICK c \in InitialClusters :
           /\ parts = c.parts /\ retention = c.retention
           /\ topicThr = c.topicThr /\ brokerThr = c.brokerThr
    BY DEF Init
  <2>2. StoreTypeOK
    BY <2>1, InitialAssumption DEF Init, StoreTypeOK
  <2>3. CountersTypeOK /\ RunsTypeOK
    BY NoRunType, BoundsAssumption DEF Init, CountersTypeOK, RunsTypeOK
  <2>4. AllShaped
    BY DEF Init, AllShaped, Shaped, Migrating
  <2>5. LockInv
    BY OwnersDistinct DEF Init, LockInv, ControlTypeOK, BalanceInPhase, LockExclusion,
       Guarded, Pcs, Phases, Adding, Moving, Electing, Ended
  <2> QED BY <2>2, <2>3, <2>4, <2>5 DEF TypeInv
<1>2. TypeInv /\ [Next]_vars => TypeInv'
  <2> SUFFICES ASSUME TypeInv, [Next]_vars PROVE TypeInv'
    OBVIOUS
  <2>1. ASSUME NEW a \in Appliers, Start(a) \/ Step(a) \/ FaultStep(a) \/ SessionExpires(a)
        PROVE  TypeInv'
    <3>1. LockMove(a)
      BY <2>1, StartMoves, CheckStepMoves, UpdateStepMoves, MoveStepMoves, LeaderStepMoves,
         LockStepMoves, FaultStepMoves, SessionExpiresMoves DEF Step, TypeInv
    <3>2. LockInv'
      BY <3>1, LockMovePreserves DEF TypeInv
    <3>3. StepTypes(a)
      BY <2>1, CheckStepTypes, UpdateStepTypes, MoveStepTypes, LeaderStepTypes,
         OtherStepTypes DEF Step
    <3>4. Turn(a)
      BY <3>1 DEF LockMove, KeepsLock, DropsLock, TakesLock
    <3>5. \A b \in Appliers \ {a} : run'[b] = run[b] /\ pc'[b] = pc[b]
      BY <3>3, <3>4 DEF StepTypes, Works, Turn
    <3>6. AllShaped'
      BY <3>3, <3>5 DEF StepTypes, Works, TypeInv, AllShaped, Shaped
    <3> QED BY <3>2, <3>3, <3>6 DEF StepTypes, Works, TypeInv, RunsTypeOK
  <2>2. ASSUME UNCHANGED <<pc, phase, lock, run, runs, faults>>, StoreTypeOK'
        PROVE  TypeInv'
    BY <2>2 DEF TypeInv, LockInv, ControlTypeOK, BalanceInPhase, LockExclusion, Guarded,
                NeedsLock, CountersTypeOK, RunsTypeOK, AllShaped, Shaped
  <2>3. CASE ControllerStep
    <3>1. UNCHANGED <<pc, phase, lock, run, runs, faults>>
      BY <2>3 DEF ControllerStep, Controller, ControllerCreates, ControllerExpands,
         ControllerFinishes, ControllerElects, OnlyParts
    <3> QED BY <2>2, <2>3, <3>1, ControllerTypes
  <2>4. CASE Rest \/ UNCHANGED vars
    <3>1. UNCHANGED vars
      BY <2>4 DEF Rest
    <3>2. StoreTypeOK'
      BY <3>1 DEF vars, clusterVars, TypeInv, StoreTypeOK
    <3> QED BY <2>2, <3>1, <3>2 DEF vars
  <2> QED BY <2>1, <2>3, <2>4 DEF Next
<1> QED BY <1>1, <1>2, PTL DEF Spec

\* TypeOK in every reachable state, for any clusters, configurations and number
\* of concurrent runs.
THEOREM TypeSafety == Spec => []TypeOK
<1>1. TypeInv => TypeOK
  BY DEF TypeInv, LockInv, ControlTypeOK, StoreTypeOK, CountersTypeOK, RunsTypeOK, TypeOK,
         ClusterTypeOK
<1> QED BY <1>1, TypeInvariant, PTL
=============================================================================
