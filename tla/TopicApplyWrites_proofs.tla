----------------------- MODULE TopicApplyWrites_proofs -----------------------
(***************************************************************************)
(* What runs of TopicApply write, for every value of its constants: they   *)
(* add partitions and take none away, a dry run writes nothing, but for    *)
(* leftover topic throttles nobody writes without a yes, throttles are on  *)
(* while replicas move and off afterwards, and a run that reports success  *)
(* leaves its topic as configured.  All need to know whose step a step is, *)
(* which the type invariant says.                                          *)
(***************************************************************************)
EXTENDS TopicApply_proofs

RunStep(a) == Start(a) \/ Step(a) \/ FaultStep(a) \/ SessionExpires(a)

\* A step of one run moves no other.
LEMMA StepIsOwn ==
    ASSUME TypeInv, NEW a \in Appliers, NEW b \in Appliers, RunStep(a), Moves(b)
    PROVE  b = a
<1>1. Turn(a)
  BY StartMoves, CheckStepMoves, UpdateStepMoves, MoveStepMoves, LeaderStepMoves,
     LockStepMoves, FaultStepMoves, SessionExpiresMoves
     DEF RunStep, Step, TypeInv, LockMove, KeepsLock, DropsLock, TakesLock
<1>2. Works(a)
  BY CheckStepTypes, UpdateStepTypes, MoveStepTypes, LeaderStepTypes, OtherStepTypes
     DEF RunStep, Step, StepTypes
<1> QED BY <1>1, <1>2 DEF Turn, Works, Moves

\* Every other step of the system moves none.
LEMMA OtherStepsMoveNone ==
    ASSUME NEW a \in Appliers, ControllerStep \/ Rest \/ UNCHANGED vars
    PROVE  ~Moves(a)
BY DEF ControllerStep, Rest, vars, Moves

\* The partitions there are, as they are.
KeepsPartitions ==
    \A t \in Topics : \A i \in DOMAIN parts[t] :
       i \in DOMAIN parts'[t] /\ parts'[t][i] = parts[t][i]

\* Only creating a topic and adding partitions write partitions, and neither
\* touches one that is there.
LEMMA RunStepKeepsPartitions ==
    ASSUME TypeInv, NEW a \in Appliers, RunStep(a)
    PROVE  KeepsPartitions
<1>1. CASE UNCHANGED parts
  BY <1>1 DEF KeepsPartitions
<1>2. CASE CreateTopic(a)
  <2>1. CASE parts[Topic(a)] # <<>>
    BY <1>1, <1>2, <2>1 DEF CreateTopic, Abort, ReadOnly, clusterVars
  <2>2. CASE parts[Topic(a)] = <<>>
    <3>1. \A t \in Topics \ {Topic(a)} : parts'[t] = parts[t]
      BY <1>2, <2>2, RunFacts DEF CreateTopic, TypeInv, StoreTypeOK
    <3>2. DOMAIN parts[Topic(a)] = {}
      BY <2>2
    <3> QED BY <3>1, <3>2 DEF KeepsPartitions
  <2> QED BY <2>1, <2>2
<1>3. CASE AddPartitions(a)
  <2>1. CASE Abort(a)
    BY <1>1, <2>1 DEF Abort, ReadOnly, clusterVars
  <2>2. CASE ~Abort(a)
    <3>1. PICK new \in Seq(Partition) :
             parts' = [parts EXCEPT ![Topic(a)] = parts[Topic(a)] \o new]
      BY <1>3, <2>2, AddedTypes
    <3>2. parts[Topic(a)] \in Seq(Partition) /\ Topic(a) \in Topics
      BY RunFacts DEF TypeInv, StoreTypeOK
    <3>3. \A i \in DOMAIN parts[Topic(a)] :
             /\ i \in DOMAIN (parts[Topic(a)] \o new)
             /\ (parts[Topic(a)] \o new)[i] = parts[Topic(a)][i]
      BY <3>2
    <3> QED BY <3>1, <3>2, <3>3 DEF KeepsPartitions, TypeInv, StoreTypeOK
  <2> QED BY <2>1, <2>2
<1>4. CASE CheckStep(a) /\ ~CreateTopic(a)
  BY <1>1, <1>4 DEF CheckStep, Lookup, AskCreate, Settle, LockCheck, AskClearTopic,
     ClearTopic, ListTopics, AskClearBrokers, Ask, Abort, ReadOnly, WriteTopicThrottle,
     clusterVars
<1>5. CASE UpdateStep(a) /\ ~AddPartitions(a)
  BY <1>1, <1>5 DEF UpdateStep, Settings, AskSettings, WriteSettings, Counts,
     ReadPartitions, AskAdd, PollAdd, Ask, Abort, ReadOnly, clusterVars
<1>6. CASE MoveStep(a)
  BY <1>1, <1>6 DEF MoveStep, Placement, AskWarn, ReadPlacement, Balance, AskRun, Batch,
     ThrottleTopic, ThrottleBroker, Assign, Poll, UnthrottleTopic, UnthrottleBroker,
     UnthrottleDone, AskNext, Ask, Propose, Abort, ReadOnly, WriteTopicThrottle, clusterVars
<1>7. CASE LeaderStep(a)
  BY <1>1, <1>7 DEF LeaderStep, Leaders, AskElect, Elect, PollElect, Ask, Abort, ReadOnly,
     clusterVars
<1>8. CASE LockStep(a) \/ FaultStep(a) \/ Start(a) \/ SessionExpires(a)
  BY <1>1, <1>8 DEF LockStep, Acquire, LockTimeout, FaultStep, UnthrottleFault, Fail, Crash,
     Start, SessionExpires, Abort, ReadOnly, clusterVars
<1> QED BY <1>2, <1>3, <1>4, <1>5, <1>6, <1>7, <1>8 DEF RunStep, Step

\* No step of a run removes or rewrites a partition, however many runs add
\* partitions to a topic and with or without a lock.
THEOREM PartitionsSafety == Spec => PartitionsOnlyAdded
<1>1. TypeInv /\ [Next]_vars => [\A a \in Appliers : Moves(a) => KeepsPartitions]_vars
  <2> SUFFICES ASSUME TypeInv, [Next]_vars, NEW a \in Appliers, Moves(a)
               PROVE  KeepsPartitions
    OBVIOUS
  <2>1. PICK b \in Appliers : RunStep(b)
    BY OtherStepsMoveNone DEF Next, RunStep
  <2> QED BY <2>1, RunStepKeepsPartitions
<1>2. Spec => []TypeInv
  BY TypeInvariant
<1> QED BY <1>1, <1>2, PTL DEF Spec, PartitionsOnlyAdded, KeepsPartitions

(***************************************************************************)
(* Dry runs.  One never gets to a pc that writes, and it owns no lock that *)
(* its steps could give back.                                              *)
(***************************************************************************)
DryPcs == {"idle", "lookup", "lockCheck", "listTopics", "settings", "counts",
           "lockPartitions", "readPartitions", "placement", "lockPlacement",
           "askWarn", "readPlacement", "leaders", "balance"} \cup Ended

IsDry(a) == Conf[a].dryRun => pc[a] \in DryPcs /\ lock # a
DryInv == TypeInv /\ \A a \in Appliers : IsDry(a)

StaysDry(a) == UNCHANGED <<clusterVars, lock>> /\ pc'[a] \in DryPcs

\* Stopping, for a run without the lock, writes nothing.
LEMMA DryStops ==
    ASSUME TypeInv, NEW a \in Appliers, lock # a
    PROVE  /\ \A o \in Ended : Stop(a, o) => lock' = lock /\ pc'[a] \in DryPcs
           /\ Abort(a) => StaysDry(a)
<1>1. ASSUME NEW o \in Ended, Stop(a, o) PROVE lock' = lock /\ pc'[a] \in DryPcs
  BY <1>1 DEF Stop, Unlock, Go, DryPcs, TypeInv, LockInv, ControlTypeOK
<1>2. Outcome(a) \in Ended
  BY DEF Outcome, Ended
<1> QED BY <1>1, <1>2 DEF Abort, ReadOnly, StaysDry

\* So does going on to another of its pcs.
LEMMA DryGoes ==
    ASSUME TypeInv, NEW a \in Appliers, NEW label \in DryPcs, Go(a, label), ReadOnly,
           lock # a, UNCHANGED lock \/ Unlock(a)
    PROVE  StaysDry(a)
BY DEF Go, ReadOnly, Unlock, StaysDry, TypeInv, LockInv, ControlTypeOK

\* Every step of a dry run is one or the other.
LEMMA DryStep ==
    ASSUME TypeInv, NEW a \in Appliers, Conf[a].dryRun, IsDry(a), RunStep(a)
    PROVE  StaysDry(a)
<1> USE DryStops, DryGoes DEF IsDry, DryPcs, Ended, Waiting
<1>1. CASE CheckStep(a)
  <2>1. CASE Lookup(a)
    BY <2>1 DEF Lookup, ReadOnly, StaysDry
  <2>2. CASE LockCheck(a)
    BY <2>2 DEF LockCheck, AfterTopicThrottles
  <2>3. CASE ListTopics(a)
    BY <2>3 DEF ListTopics
  <2> QED BY <1>1, <2>1, <2>2, <2>3 DEF CheckStep, AskCreate, CreateTopic, Settle,
         AskClearTopic, ClearTopic, AskClearBrokers, Ask
<1>2. CASE UpdateStep(a)
  <2>1. CASE Settings(a)
    BY <2>1 DEF Settings
  <2>2. CASE Counts(a)
    BY <2>2 DEF Counts, StaysDry, ReadOnly
  <2>3. CASE ReadPartitions(a)
    BY <2>3 DEF ReadPartitions, StaysDry, ReadOnly
  <2> QED BY <1>2, <2>1, <2>2, <2>3 DEF UpdateStep, AskSettings, WriteSettings, AskAdd,
         AddPartitions, PollAdd, Ask
<1>3. CASE MoveStep(a)
  <2>1. CASE Placement(a)
    BY <2>1 DEF Placement
  <2>2. CASE AskWarn(a)
    BY <2>2 DEF AskWarn
  <2>3. CASE ReadPlacement(a)
    BY <2>3 DEF ReadPlacement, Propose
  <2>4. CASE Balance(a)
    BY <2>4 DEF Balance, Propose
  <2> QED BY <1>3, <2>1, <2>2, <2>3, <2>4 DEF MoveStep, AskRun, Batch, ThrottleTopic,
         ThrottleBroker, Assign, Poll, UnthrottleTopic, UnthrottleBroker, UnthrottleDone,
         AskNext, Ask
<1>4. CASE LeaderStep(a)
  <2>1. CASE Leaders(a)
    BY <2>1 DEF Leaders, LeadersChecked, StaysDry, ReadOnly
  <2> QED BY <1>4, <2>1 DEF LeaderStep, AskElect, Elect, PollElect, Ask
<1>5. CASE LockStep(a)
  BY <1>5 DEF LockStep, Acquire, LockTimeout, NeedsLock, AfterLock
<1>6. CASE FaultStep(a)
  BY <1>6 DEF FaultStep, UnthrottleFault, Fail, Crash, Outcome, Go, StaysDry, TypeInv,
         LockInv, ControlTypeOK
<1>7. CASE Start(a)
  BY <1>7 DEF Start, Go, StaysDry, TypeInv, LockInv, ControlTypeOK
<1>8. CASE SessionExpires(a)
  BY <1>8 DEF SessionExpires
<1> QED BY <1>1, <1>2, <1>3, <1>4, <1>5, <1>6, <1>7, <1>8 DEF RunStep, Step

\* A dry run stays one whatever the others do.
LEMMA DryKept ==
    ASSUME DryInv, TypeInv', [Next]_vars, NEW a \in Appliers
    PROVE  IsDry(a)'
<1> SUFFICES ASSUME Conf[a].dryRun PROVE (pc[a] \in DryPcs)' /\ (lock # a)'
  BY DEF IsDry
<1>1. pc[a] \in DryPcs /\ lock # a
  BY DEF DryInv, IsDry
<1>2. CASE RunStep(a)
  BY <1>1, <1>2, DryStep DEF DryInv, StaysDry, IsDry
<1>3. ASSUME NEW b \in Appliers \ {a}, RunStep(b) PROVE (pc[a] \in DryPcs)' /\ (lock # a)'
  <2>1. LockMove(b)
    BY <1>3, StartMoves, CheckStepMoves, UpdateStepMoves, MoveStepMoves, LeaderStepMoves,
       LockStepMoves, FaultStepMoves, SessionExpiresMoves DEF RunStep, Step, DryInv, TypeInv
  <2>2. pc'[a] = pc[a]
    BY <2>1 DEF LockMove, KeepsLock, DropsLock, TakesLock, Turn
  <2>3. lock' \in {lock, Nobody, b}
    BY <2>1 DEF LockMove, KeepsLock, DropsLock, TakesLock, Unlock
  <2> QED BY <1>1, <2>2, <2>3, OwnersDistinct
<1>4. CASE ControllerStep \/ Rest \/ UNCHANGED vars
  <2>1. UNCHANGED <<pc, lock>>
    BY <1>4 DEF ControllerStep, Controller, ControllerCreates, ControllerExpands,
       ControllerFinishes, ControllerElects, OnlyParts, Rest, vars
  <2> QED BY <1>1, <2>1
<1> QED BY <1>2, <1>3, <1>4 DEF Next, RunStep

\* Whatever other runs do meanwhile, no step of a dry run changes the cluster
\* or takes or releases its lock.
THEOREM DryRunSafety == Spec => DryRunsWriteNothing
<1>1. Init => \A a \in Appliers : IsDry(a)
  BY OwnersDistinct DEF Init, IsDry, DryPcs
<1>2. TypeInv /\ TypeInv' /\ (\A a \in Appliers : IsDry(a)) /\ [Next]_vars
         => (\A a \in Appliers : IsDry(a))'
  BY DryKept DEF DryInv
<1>3. TypeInv /\ (\A a \in Appliers : IsDry(a)) /\ [Next]_vars
         => [\A a \in Appliers : Moves(a) /\ Conf[a].dryRun => ~Changed /\ lock' = lock]_vars
  <2> SUFFICES ASSUME TypeInv, \A a \in Appliers : IsDry(a), [Next]_vars,
                      NEW a \in Appliers, Moves(a), Conf[a].dryRun
               PROVE  ~Changed /\ lock' = lock
    OBVIOUS
  <2>1. PICK b \in Appliers : RunStep(b)
    BY OtherStepsMoveNone DEF Next, RunStep
  <2>2. b = a
    BY <2>1, StepIsOwn
  <2> QED BY <2>1, <2>2, DryStep DEF StaysDry, Changed
<1>4. Spec => []TypeInv
  BY TypeInvariant
<1> QED BY <1>1, <1>2, <1>3, <1>4, PTL DEF Spec, DryRunsWriteNothing

(***************************************************************************)
(* Confirmation.  From the prompt of a stage to its last write a run's     *)
(* latest answer is "yes".                                                 *)
(***************************************************************************)
ConfirmedPcs == {"create", "clearBrokers", "writeSettings", "addPartitions", "batch",
                 "throttleTopic", "throttleBrokers", "assign", "poll",
                 "unthrottleTopic", "unthrottleBrokers", "askNext", "elect"}

Authorised(a) == pc[a] \in ConfirmedPcs => run[a].answer = "yes"

\* Stopping leaves those pcs.
LEMMA StopsUnconfirmed ==
    ASSUME TypeInv, NEW a \in Appliers
    PROVE  /\ \A o \in Ended : Stop(a, o) => Authorised(a)'
           /\ Abort(a) => Authorised(a)'
<1>1. Outcome(a) \in Ended
  BY DEF Outcome, Ended
<1>2. ASSUME NEW o \in Ended, Stop(a, o) PROVE Authorised(a)'
  BY <1>2 DEF Stop, Go, Ended, Authorised, ConfirmedPcs, TypeInv, LockInv, ControlTypeOK
<1> QED BY <1>1, <1>2 DEF Abort

\* So does going to a pc outside.
LEMMA GoesUnconfirmed ==
    ASSUME TypeInv, NEW a \in Appliers, NEW label, Go(a, label), label \notin ConfirmedPcs
    PROVE  Authorised(a)'
BY DEF Go, Authorised, TypeInv, LockInv, ControlTypeOK

\* A prompt that lets a run go on has the answer.
LEMMA AskAuthorises ==
    ASSUME TypeInv, NEW a \in Appliers, NEW label, NEW r, NEW next,
           [r EXCEPT !.answer = "yes"].answer = "yes", Ask(a, label, r, next)
    PROVE  Authorised(a)'
<1>1. CASE Abort(a)
  BY <1>1, StopsUnconfirmed
<1>2. CASE Set(a, [r EXCEPT !.answer = "yes"])
  BY <1>2 DEF Set, Authorised, TypeInv, RunsTypeOK
<1> QED BY <1>1, <1>2 DEF Ask

\* A change of other locals keeps the answer.
KeepsAnswer(a) == run'[a].answer = run[a].answer

\* The steps of a migration change other locals only.
LEMMA LocalsKeepAnswer ==
    ASSUME TypeInv, NEW a \in Appliers,
           ThrottleTopic(a) \/ ThrottleBroker(a) \/ Poll(a) \/ UnthrottleBroker(a)
           \/ UnthrottleFault(a)
    PROVE  KeepsAnswer(a)
<1>1. run[a] \in RunType /\ run \in [Appliers -> RunType]
  BY RunFacts DEF TypeInv, RunsTypeOK
<1>2. CASE ThrottleTopic(a)
  BY <1>1, <1>2 DEF ThrottleTopic, Set, KeepsAnswer, RunType
<1>3. CASE ThrottleBroker(a)
  <2>1. PICK b : Set(a, [run[a] EXCEPT !.queue = @ \ {b},
                           !.ownBrokers = IF BrokerMode \/ Nobody \in {brokerThr[b][k] : k \in Keys}
                                          THEN @ \cup {b} ELSE @])
    BY <1>3 DEF ThrottleBroker
  <2> QED BY <1>1, <2>1 DEF Set, KeepsAnswer, RunType
<1>4. CASE Poll(a)
  BY <1>1, <1>4 DEF Poll, Set, KeepsAnswer, RunType
<1>5. CASE UnthrottleBroker(a)
  <2>1. PICK b : Set(a, [run[a] EXCEPT !.queue = @ \ {b}])
    BY <1>5 DEF UnthrottleBroker
  <2> QED BY <1>1, <2>1 DEF Set, KeepsAnswer, RunType
<1>6. CASE UnthrottleFault(a)
  <2>1. CASE Set(a, [run[a] EXCEPT !.failed = TRUE])
    BY <1>1, <2>1 DEF Set, KeepsAnswer, RunType
  <2>2. ASSUME NEW b, Set(a, [run[a] EXCEPT !.failed = TRUE, !.queue = @ \ {b}])
        PROVE  KeepsAnswer(a)
    BY <1>1, <2>2 DEF Set, KeepsAnswer, RunType
  <2> QED BY <1>6, <2>1, <2>2 DEF UnthrottleFault
<1> QED BY <1>2, <1>3, <1>4, <1>5, <1>6

\* A run keeps the answer of a stage until the next stage begins.
LEMMA StepAuthorised ==
    ASSUME TypeInv, NEW a \in Appliers, Authorised(a), RunStep(a)
    PROVE  Authorised(a)'
<1> USE StopsUnconfirmed, GoesUnconfirmed DEF ConfirmedPcs
<1>a. run[a] \in RunType /\ run \in [Appliers -> RunType] /\ pc \in [Appliers -> Pcs]
  BY RunFacts DEF TypeInv, RunsTypeOK, LockInv, ControlTypeOK
<1>1. CASE CheckStep(a)
  <2>1. CASE Lookup(a)
    BY <2>1 DEF Lookup, Ended
  <2>2. CASE AskCreate(a)
    BY <1>a, <2>2, AskAuthorises DEF AskCreate
  <2>3. CASE CreateTopic(a)
    BY <2>3 DEF CreateTopic
  <2>4. CASE Settle(a) \/ LockCheck(a) \/ ClearTopic(a) \/ ListTopics(a)
    BY <2>4 DEF Settle, LockCheck, ClearTopic, ListTopics, AfterTopicThrottles
  <2>5. CASE AskClearTopic(a)
    BY <2>5 DEF AskClearTopic
  <2>6. CASE AskClearBrokers(a)
    <3>1. CASE Abort(a)
      BY <3>1
    <3>2. ASSUME NEW ok \in Answers(a),
                 Set(a, [run[a] EXCEPT !.answer = ok, !.queue = run[a].seen]),
                 Go(a, IF ok = "yes" THEN "clearBrokers" ELSE "settings")
          PROVE  Authorised(a)'
      <4>1. CASE ok = "yes"
        BY <1>a, <3>2, <4>1 DEF Set, Authorised, RunType
      <4>2. CASE ok # "yes"
        BY <3>2, <4>2
      <4> QED BY <4>1, <4>2
    <3> QED BY <2>6, <3>1, <3>2 DEF AskClearBrokers
  <2> QED BY <1>1, <2>1, <2>2, <2>3, <2>4, <2>5, <2>6 DEF CheckStep
<1>2. CASE UpdateStep(a)
  <2>1. CASE Settings(a)
    BY <2>1 DEF Settings
  <2>2. CASE AskSettings(a) \/ AskAdd(a)
    BY <1>a, <2>2, AskAuthorises DEF AskSettings, AskAdd
  <2>3. CASE WriteSettings(a) \/ PollAdd(a) \/ AddPartitions(a)
    BY <2>3 DEF WriteSettings, PollAdd, AddPartitions
  <2>4. CASE Counts(a)
    BY <2>4 DEF Counts, Ended
  <2>5. CASE ReadPartitions(a)
    BY <2>5 DEF ReadPartitions, Ended
  <2> QED BY <1>2, <2>1, <2>2, <2>3, <2>4, <2>5 DEF UpdateStep
<1>3. CASE MoveStep(a)
  <2>1. CASE Placement(a)
    BY <2>1 DEF Placement
  <2>2. CASE AskWarn(a)
    BY <1>a, <2>2, AskAuthorises DEF AskWarn
  <2>3. CASE ReadPlacement(a) \/ Balance(a)
    BY <2>3 DEF ReadPlacement, Balance, Propose
  <2>4. CASE AskRun(a)
    <3> DEFINE r == [run[a] EXCEPT !.todo = ToUpdate(run[a].view, run[a].desired)]
    <3>1. [r EXCEPT !.answer = "yes"].answer = "yes"
      BY <1>a DEF RunType
    <3>2. Ask(a, "askRun", r, "batch")
      BY <2>4 DEF AskRun
    <3> HIDE DEF r
    <3> QED BY <3>1, <3>2, AskAuthorises
  <2>5. CASE AskNext(a)
    <3>1. CASE Conf[a].autoContinue
      BY <1>a, <2>5, <3>1 DEF AskNext, Go, Authorised
    <3>2. CASE ~Conf[a].autoContinue
      BY <1>a, <2>5, <3>2, AskAuthorises DEF AskNext
    <3> QED BY <3>1, <3>2
  <2>6. CASE /\ \/ Batch(a) \/ ThrottleTopic(a) \/ ThrottleBroker(a) \/ Assign(a)
                \/ Poll(a) \/ UnthrottleTopic(a) \/ UnthrottleBroker(a) \/ UnthrottleDone(a)
             /\ ~Abort(a)
    <3>1. pc[a] \in ConfirmedPcs
      BY <2>6 DEF Batch, ThrottleTopic, ThrottleBroker, Assign, Poll, UnthrottleTopic,
         UnthrottleBroker, UnthrottleDone
    <3>2. KeepsAnswer(a)
      <4>1. CASE Batch(a)
        <5>1. CASE UNCHANGED run
          BY <5>1 DEF KeepsAnswer
        <5>2. CASE ~UNCHANGED run
          <6>1. PICK batch, todo :
                  Set(a, [run[a] EXCEPT !.batch = batch, !.todo = todo,
                            !.ownTopic = FALSE, !.ownBrokers = {}, !.queue = {}])
            BY <4>1, <5>2 DEF Batch
          <6> QED BY <1>a, <6>1 DEF Set, KeepsAnswer, RunType
        <5> QED BY <5>1, <5>2
      <4>2. CASE Assign(a) \/ UnthrottleTopic(a) \/ UnthrottleDone(a)
        BY <2>6, <4>2 DEF Assign, UnthrottleTopic, UnthrottleDone, KeepsAnswer
      <4> QED BY <2>6, <4>1, <4>2, LocalsKeepAnswer
    <3> QED BY <3>1, <3>2 DEF KeepsAnswer, Authorised
  <2> QED BY <1>3, <2>1, <2>2, <2>3, <2>4, <2>5, <2>6 DEF MoveStep
<1>4. CASE LeaderStep(a)
  <2>1. CASE Leaders(a)
    BY <2>1 DEF Leaders, LeadersChecked, Ended
  <2>2. CASE AskElect(a)
    BY <1>a, <2>2, AskAuthorises DEF AskElect
  <2>3. CASE Elect(a) \/ PollElect(a)
    BY <2>3 DEF Elect, PollElect, LeadersChecked, Ended
  <2> QED BY <1>4, <2>1, <2>2, <2>3 DEF LeaderStep
<1>5. CASE LockStep(a)
  BY <1>5 DEF LockStep, Acquire, LockTimeout, AfterLock, Waiting
<1>6. CASE FaultStep(a)
  <2>1. CASE UnthrottleFault(a)
    <3>1. pc[a] \in ConfirmedPcs
      BY <2>1 DEF UnthrottleFault
    <3> QED BY <2>1, <3>1, LocalsKeepAnswer DEF KeepsAnswer, Authorised
  <2>2. CASE Fail(a)
    BY <2>2 DEF Fail, Outcome, Ended
  <2>3. CASE Crash(a)
    BY <2>3 DEF Crash
  <2> QED BY <1>6, <2>1, <2>2, <2>3 DEF FaultStep
<1>7. CASE Start(a)
  BY <1>7 DEF Start
<1>8. CASE SessionExpires(a)
  BY <1>8 DEF SessionExpires, Authorised
<1> QED BY <1>1, <1>2, <1>3, <1>4, <1>5, <1>6, <1>7, <1>8 DEF RunStep, Step

\* Only those pcs write, and the one that removes leftover throttles.
LEMMA WritesConfirmed ==
    ASSUME TypeInv, NEW a \in Appliers, RunStep(a), Changed, pc[a] # "clearTopic"
    PROVE  pc[a] \in ConfirmedPcs
<1> USE DEF Changed, ConfirmedPcs, Abort, ReadOnly
<1>1. CASE CheckStep(a)
  BY <1>1 DEF CheckStep, Lookup, AskCreate, CreateTopic, Settle, LockCheck, AskClearTopic,
     ClearTopic, ListTopics, AskClearBrokers, Ask
<1>2. CASE UpdateStep(a)
  BY <1>2 DEF UpdateStep, Settings, AskSettings, WriteSettings, Counts, ReadPartitions,
     AskAdd, AddPartitions, PollAdd, Ask
<1>3. CASE MoveStep(a)
  BY <1>3 DEF MoveStep, Placement, AskWarn, ReadPlacement, Balance, AskRun, Batch,
     ThrottleTopic, ThrottleBroker, Assign, Poll, UnthrottleTopic, UnthrottleBroker,
     UnthrottleDone, AskNext, Ask, Propose
<1>4. CASE LeaderStep(a)
  BY <1>4 DEF LeaderStep, Leaders, AskElect, Elect, PollElect, Ask
<1>5. CASE LockStep(a) \/ FaultStep(a) \/ Start(a) \/ SessionExpires(a)
  BY <1>5 DEF LockStep, Acquire, LockTimeout, FaultStep, UnthrottleFault, Fail, Crash,
     Start, SessionExpires
<1> QED BY <1>1, <1>2, <1>3, <1>4, <1>5 DEF RunStep, Step

\* But for the removal of leftover topic throttles, no step of a run changes
\* the cluster against, or without, the answer to the prompt of its stage.
THEOREM ConfirmationSafety == Spec => OtherMutationsConfirmed
<1>1. Init => \A a \in Appliers : Authorised(a)
  BY DEF Init, Authorised, ConfirmedPcs
<1>2. TypeInv /\ (\A a \in Appliers : Authorised(a)) /\ [Next]_vars
         => (\A a \in Appliers : Authorised(a))'
  <2> SUFFICES ASSUME TypeInv, \A a \in Appliers : Authorised(a), [Next]_vars,
                      NEW a \in Appliers
               PROVE  Authorised(a)'
    OBVIOUS
  <2>1. CASE ~Moves(a)
    BY <2>1 DEF Moves, Authorised
  <2>2. CASE Moves(a)
    <3>1. PICK b \in Appliers : RunStep(b)
      BY <2>2, OtherStepsMoveNone DEF Next, RunStep
    <3>2. b = a
      BY <2>2, <3>1, StepIsOwn
    <3> QED BY <3>1, <3>2, StepAuthorised
  <2> QED BY <2>1, <2>2
<1>3. TypeInv /\ (\A a \in Appliers : Authorised(a)) /\ [Next]_vars
         => [\A a \in Appliers : Moves(a) /\ Changed /\ pc[a] # "clearTopic"
                                   => run[a].answer = "yes"]_vars
  <2> SUFFICES ASSUME TypeInv, \A a \in Appliers : Authorised(a), [Next]_vars,
                      NEW a \in Appliers, Moves(a), Changed, pc[a] # "clearTopic"
               PROVE  run[a].answer = "yes"
    OBVIOUS
  <2>1. PICK b \in Appliers : RunStep(b)
    BY OtherStepsMoveNone DEF Next, RunStep
  <2>2. b = a
    BY <2>1, StepIsOwn
  <2> QED BY <2>1, <2>2, WritesConfirmed DEF Authorised
<1>4. Spec => []TypeInv
  BY TypeInvariant
<1> QED BY <1>1, <1>2, <1>3, <1>4, PTL DEF Spec, OtherMutationsConfirmed

(***************************************************************************)
(* Throttles.  Where a run is in its rounds of moves: past the checks it   *)
(* is in one of three functions, and in the placement of a new topic it    *)
(* neither sets nor removes a throttle.                                    *)
(***************************************************************************)
Early == {"idle", "lookup", "askCreate", "create", "settle", "lockCheck", "askClearTopic",
          "clearTopic", "listTopics", "askClearBrokers", "clearBrokers", "settings"}
         \cup Ended

SetsNone(label, r) ==
    /\ label \notin {"throttleTopic", "throttleBrokers", "unthrottleTopic"}
    /\ label \in {"assign", "poll"} => ~r.ownTopic /\ r.ownBrokers = {}
    /\ label = "unthrottleBrokers" => r.queue = {}

Rounds(a) ==
    /\ pc[a] \notin Early => phase[a] \in {"update", "new", "balance"}
    /\ phase[a] = "new" => SetsNone(pc[a], run[a])

\* Stopping ends the rounds.
LEMMA StopsRounds ==
    ASSUME TypeInv, NEW a \in Appliers
    PROVE  /\ \A o \in Ended : Stop(a, o) => Rounds(a)'
           /\ Abort(a) => Rounds(a)'
<1>1. Outcome(a) \in Ended
  BY DEF Outcome, Ended
<1>2. ASSUME NEW o \in Ended, Stop(a, o) PROVE Rounds(a)'
  BY <1>2 DEF Stop, Go, Enter, Rounds, Early, TypeInv, LockInv, ControlTypeOK
<1> QED BY <1>1, <1>2 DEF Abort

\* The pcs at which the placement of a new topic has nothing to be sure of.
Unconcerned == Pcs \ {"throttleTopic", "throttleBrokers", "unthrottleTopic",
                      "assign", "poll", "unthrottleBrokers"}

\* A step between them within a function.
LEMMA GoesRounds ==
    ASSUME TypeInv, NEW a \in Appliers, Rounds(a), NEW label \in Unconcerned,
           Go(a, label), UNCHANGED phase, label \in Early \/ pc[a] \notin Early
    PROVE  Rounds(a)'
BY DEF Go, Rounds, SetsNone, Unconcerned, TypeInv, LockInv, ControlTypeOK

\* A step into the next function.
LEMMA EntersRounds ==
    ASSUME TypeInv, NEW a \in Appliers, NEW label \in Unconcerned, NEW name,
           Go(a, label), Enter(a, name),
           label \in Early \/ name \in {"update", "new", "balance"}
    PROVE  Rounds(a)'
BY DEF Go, Enter, Rounds, SetsNone, Unconcerned, TypeInv, LockInv, ControlTypeOK

\* A prompt.
LEMMA AsksRounds ==
    ASSUME TypeInv, NEW a \in Appliers, Rounds(a), NEW from, NEW label \in Unconcerned,
           NEW r, Ask(a, from, r, label), label \in Early \/ from \notin Early
    PROVE  Rounds(a)'
<1>1. CASE Abort(a)
  BY <1>1, StopsRounds
<1>2. CASE Go(a, label) /\ UNCHANGED phase /\ pc[a] = from
  BY <1>2, GoesRounds
<1> QED BY <1>1, <1>2 DEF Ask

\* Every step of a run keeps to its rounds.
LEMMA StepRounds ==
    ASSUME TypeInv, NEW a \in Appliers, Rounds(a), RunStep(a)
    PROVE  Rounds(a)'
<1> USE StopsRounds, GoesRounds, EntersRounds DEF Unconcerned, Early, Pcs, Ended, Prompts, Waiting,
        Calls, Locals
<1>a. run[a] \in RunType /\ run \in [Appliers -> RunType] /\ pc \in [Appliers -> Pcs]
  BY RunFacts DEF TypeInv, RunsTypeOK, LockInv, ControlTypeOK
<1>1. CASE CheckStep(a)
  <2>1. CASE Lookup(a)
    BY <2>1 DEF Lookup
  <2>2. CASE AskCreate(a)
    BY <2>2, AsksRounds DEF AskCreate
  <2>3. CASE CreateTopic(a) \/ Settle(a) \/ AskClearTopic(a) \/ ListTopics(a)
    BY <2>3 DEF CreateTopic, Settle, AskClearTopic, ListTopics
  <2>4. CASE LockCheck(a) \/ ClearTopic(a)
    BY <2>4 DEF LockCheck, ClearTopic, AfterTopicThrottles
  <2>5. CASE AskClearBrokers(a)
    BY <2>5 DEF AskClearBrokers
  <2> QED BY <1>1, <2>1, <2>2, <2>3, <2>4, <2>5 DEF CheckStep
<1>2. CASE UpdateStep(a)
  <2>1. CASE Settings(a)
    BY <2>1 DEF Settings
  <2>2. CASE AskSettings(a) \/ AskAdd(a)
    BY <2>2, AsksRounds DEF AskSettings, AskAdd
  <2>3. CASE WriteSettings(a) \/ PollAdd(a) \/ AddPartitions(a)
    BY <2>3 DEF WriteSettings, PollAdd, AddPartitions
  <2>4. CASE Counts(a) \/ ReadPartitions(a)
    BY <2>4 DEF Counts, ReadPartitions
  <2> QED BY <1>2, <2>1, <2>2, <2>3, <2>4 DEF UpdateStep
<1>3. CASE MoveStep(a)
  <2>1. CASE Placement(a)
    BY <2>1 DEF Placement
  <2>2. CASE AskWarn(a) \/ AskRun(a) \/ AskNext(a)
    BY <2>2, AsksRounds DEF AskWarn, AskRun, AskNext
  <2>3. CASE ReadPlacement(a) \/ Balance(a)
    BY <2>3 DEF ReadPlacement, Balance, Propose
  <2>4. CASE Batch(a)
    <3>1. CASE run[a].todo = {}
      BY <2>4, <3>1 DEF Batch
    <3>2. CASE run[a].todo # {}
      <4>1. PICK batch, todo :
              Set(a, [run[a] EXCEPT !.batch = batch, !.todo = todo,
                        !.ownTopic = FALSE, !.ownBrokers = {}, !.queue = {}])
        BY <2>4, <3>2 DEF Batch
      <4>2. ~run'[a].ownTopic /\ run'[a].ownBrokers = {}
        BY <1>a, <4>1 DEF Set, RunType
      <4>3. /\ pc'[a] \in {"assign", "throttleTopic"} /\ UNCHANGED phase
            /\ phase[a] = "new" => pc'[a] = "assign"
            /\ pc[a] = "batch"
        BY <1>a, <2>4, <3>2 DEF Batch, Go
      <4> QED BY <4>2, <4>3 DEF Rounds, SetsNone
    <3> QED BY <3>1, <3>2
  <2>5. CASE ThrottleTopic(a) \/ ThrottleBroker(a) \/ UnthrottleTopic(a)
    BY <1>a, <2>5 DEF ThrottleTopic, ThrottleBroker, UnthrottleTopic, Go, Rounds, SetsNone
  <2>6. CASE Assign(a)
    BY <1>a, <2>6 DEF Assign, Go, Rounds, SetsNone
  <2>7. CASE Poll(a)
    <3>1. run'[a].queue = run[a].ownBrokers /\ pc[a] = "poll" /\ UNCHANGED phase
      BY <1>a, <2>7 DEF Poll, Set, RunType
    <3>2. pc'[a] = IF run[a].ownTopic THEN "unthrottleTopic" ELSE "unthrottleBrokers"
      BY <1>a, <2>7 DEF Poll, Go
    <3> QED BY <3>1, <3>2 DEF Rounds, SetsNone
  <2>8. CASE UnthrottleBroker(a)
    <3>1. PICK b \in run[a].queue : TRUE
      BY <2>8 DEF UnthrottleBroker, LeastOf
    <3> QED BY <2>8, <3>1 DEF UnthrottleBroker, Rounds, SetsNone
  <2>9. CASE UnthrottleDone(a)
    BY <2>9 DEF UnthrottleDone
  <2> QED BY <1>3, <2>1, <2>2, <2>3, <2>4, <2>5, <2>6, <2>7, <2>8, <2>9 DEF MoveStep
<1>4. CASE LeaderStep(a)
  <2>1. CASE Leaders(a) \/ PollElect(a)
    BY <2>1 DEF Leaders, PollElect, LeadersChecked
  <2>2. CASE AskElect(a)
    BY <2>2, AsksRounds DEF AskElect
  <2>3. CASE Elect(a)
    BY <2>3 DEF Elect
  <2> QED BY <1>4, <2>1, <2>2, <2>3 DEF LeaderStep
<1>5. CASE LockStep(a)
  BY <1>5 DEF LockStep, Acquire, LockTimeout, AfterLock
<1>6. CASE FaultStep(a)
  <2>1. CASE UnthrottleFault(a)
    <3>1. CASE pc[a] = "unthrottleTopic"
      BY <1>a, <2>1, <3>1 DEF UnthrottleFault, Go, Rounds, SetsNone
    <3>2. CASE pc[a] # "unthrottleTopic"
      <4>1. PICK b \in run[a].queue : TRUE
        BY <2>1, <3>2 DEF UnthrottleFault, LeastOf
      <4> QED BY <2>1, <3>2, <4>1 DEF UnthrottleFault, Rounds, SetsNone
    <3> QED BY <3>1, <3>2
  <2>2. CASE Fail(a)
    BY <2>2 DEF Fail, Outcome
  <2>3. CASE Crash(a)
    BY <2>3 DEF Crash
  <2> QED BY <1>6, <2>1, <2>2, <2>3 DEF FaultStep
<1>7. CASE Start(a)
  BY <1>7 DEF Start
<1>8. CASE SessionExpires(a)
  BY <1>8 DEF SessionExpires, Rounds
<1> QED BY <1>1, <1>2, <1>3, <1>4, <1>5, <1>6, <1>7, <1>8 DEF RunStep, Step

\* No throttle goes: the topics' stay as they are, and every broker key that
\* was set is set.
KeepsThrottles ==
    /\ topicThr' = topicThr
    /\ \A b \in Brokers : \A k \in Keys : brokerThr[b][k] # Nobody => brokerThr'[b][k] # Nobody

\* With its throttles kept and itself at rest, a migration stays protected.
LEMMA ProtectedKept ==
    ASSUME TypeInv, NEW a \in Appliers, Protected(a), KeepsThrottles, run'[a] = run[a],
           pc[a] = "poll"
    PROVE  Protected(a)'
<1>1. \A i \in run[a].batch : /\ run[a].desired[i].reps \subseteq Brokers
                              /\ run[a].view[i].reps \subseteq Brokers
  <2> SUFFICES ASSUME NEW i \in run[a].batch
               PROVE  /\ run[a].desired[i].reps \subseteq Brokers
                      /\ run[a].view[i].reps \subseteq Brokers
    OBVIOUS
  <2>1. /\ i \in DOMAIN run[a].desired /\ i \in DOMAIN run[a].view
        /\ run[a].desired \in Seq(Replicas) /\ run[a].view \in Seq(Partition)
    BY RunFacts DEF Shaped, Migrating, RunType
  <2>2. run[a].desired[i] \in Replicas /\ run[a].view[i] \in Partition
    BY <2>1, SeqUsed
  <2> QED BY <2>2 DEF Replicas, Partition
<1> QED BY <1>1 DEF Protected, KeepsThrottles

\* Who removes throttles: the clean-ups, and the rounds of a placement or of a
\* rebalance before and after the move.
Removers == {"clearTopic", "clearBrokers", "writeSettings", "throttleTopic",
             "unthrottleTopic", "unthrottleBrokers"}

LEMMA RemovesThrottles ==
    ASSUME TypeInv, NEW a \in Appliers, RunStep(a), ~KeepsThrottles
    PROVE  /\ pc[a] \in Removers
           /\ pc[a] = "unthrottleBrokers" => run[a].queue # {}
           /\ Moves(a)
<1>a. run[a] \in RunType /\ run \in [Appliers -> RunType] /\ pc \in [Appliers -> Pcs]
  BY RunFacts DEF TypeInv, RunsTypeOK, LockInv, ControlTypeOK
<1>b. ~(UNCHANGED <<topicThr, brokerThr>>)
  BY DEF KeepsThrottles
<1> USE <1>b DEF Abort, ReadOnly, clusterVars
<1>1. CASE CheckStep(a)
  <2>1. CASE ClearTopic(a)
    <3>1. pc[a] = "clearTopic" /\ pc'[a] \in {"listTopics", "settings"}
      BY <1>a, <2>1 DEF ClearTopic, Go, AfterTopicThrottles
    <3> QED BY <3>1 DEF Removers, Moves
  <2> QED BY <1>1, <2>1 DEF CheckStep, Lookup, AskCreate, CreateTopic, Settle, LockCheck,
     AskClearTopic, ListTopics, AskClearBrokers, Ask
<1>2. CASE UpdateStep(a)
  <2>1. CASE WriteSettings(a)
    BY <1>a, <2>1 DEF WriteSettings, Go, Removers, Moves
  <2> QED BY <1>2, <2>1 DEF UpdateStep, Settings, AskSettings, Counts, ReadPartitions,
         AskAdd, AddPartitions, PollAdd, Ask
<1>3. CASE MoveStep(a)
  <2>1. CASE ThrottleTopic(a) \/ UnthrottleTopic(a)
    BY <1>a, <2>1 DEF ThrottleTopic, UnthrottleTopic, Go, Removers, Moves
  <2>2. CASE ThrottleBroker(a)
    <3>1. topicThr' = topicThr
      BY <2>2 DEF ThrottleBroker
    <3>2. PICK b \in Brokers : brokerThr' = [brokerThr EXCEPT ![b] =
                [k \in Keys |-> IF BrokerMode \/ @[k] = Nobody THEN a ELSE @[k]]]
      <4>1. PICK b \in run[a].queue : brokerThr' = [brokerThr EXCEPT ![b] =
                [k \in Keys |-> IF BrokerMode \/ @[k] = Nobody THEN a ELSE @[k]]]
        BY <2>2 DEF ThrottleBroker, LeastOf
      <4> QED BY <1>a, <4>1 DEF RunType
    <3>3. \A c \in Brokers : \A k \in Keys :
             brokerThr[c][k] # Nobody => brokerThr'[c][k] # Nobody
      BY <3>2, OwnersDistinct DEF TypeInv, StoreTypeOK
    <3> QED BY <3>1, <3>3 DEF KeepsThrottles
  <2>3. CASE UnthrottleBroker(a)
    <3>1. PICK b \in run[a].queue : Set(a, [run[a] EXCEPT !.queue = @ \ {b}])
      BY <2>3 DEF UnthrottleBroker, LeastOf
    <3>2. run'[a].queue # run[a].queue
      BY <1>a, <3>1 DEF Set, RunType
    <3> QED BY <2>3, <3>1, <3>2 DEF UnthrottleBroker, Removers, Moves
  <2> QED BY <1>3, <2>1, <2>2, <2>3 DEF MoveStep, Placement, AskWarn, ReadPlacement, Balance,
         AskRun, Batch, Assign, Poll, UnthrottleDone, AskNext, Ask, Propose
<1>4. CASE LeaderStep(a)
  BY <1>4 DEF LeaderStep, Leaders, AskElect, Elect, PollElect, Ask
<1>5. CASE LockStep(a) \/ FaultStep(a) \/ Start(a) \/ SessionExpires(a)
  BY <1>5 DEF LockStep, Acquire, LockTimeout, FaultStep, UnthrottleFault, Fail, Crash,
     Start, SessionExpires
<1> QED BY <1>1, <1>2, <1>3, <1>4, <1>5 DEF RunStep, Step

\* A step of a run that waits for its replicas ends the wait.
LEMMA PollEnds ==
    ASSUME TypeInv, NEW a \in Appliers, RunStep(a), pc[a] = "poll"
    PROVE  pc'[a] # "poll"
<1>1. Poll(a) \/ Fail(a) \/ Crash(a)
  BY DEF RunStep, Step, CheckStep, Lookup, AskCreate, CreateTopic, Settle, LockCheck,
     AskClearTopic, ClearTopic, ListTopics, AskClearBrokers, Ask, UpdateStep, Settings,
     AskSettings, WriteSettings, Counts, ReadPartitions, AskAdd, AddPartitions, PollAdd,
     MoveStep, Placement, AskWarn, ReadPlacement, Balance, AskRun, Batch, ThrottleTopic,
     ThrottleBroker, Assign, UnthrottleTopic, UnthrottleBroker, UnthrottleDone, AskNext,
     LeaderStep, Leaders, AskElect, Elect, PollElect, LockStep, Acquire, LockTimeout,
     FaultStep, UnthrottleFault, Start, SessionExpires, Ended, Waiting
<1>2. pc \in [Appliers -> Pcs]
  BY DEF TypeInv, LockInv, ControlTypeOK
<1> QED BY <1>1, <1>2 DEF Poll, Fail, Crash, Stop, Outcome, Go

\* The system's other steps touch no throttle.
LEMMA OtherStepsKeepThrottles ==
    ASSUME ControllerStep \/ Rest \/ UNCHANGED vars
    PROVE  KeepsThrottles /\ UNCHANGED run
BY DEF ControllerStep, Controller, ControllerCreates, ControllerExpands, ControllerFinishes,
       ControllerElects, OnlyParts, Rest, vars, clusterVars, KeepsThrottles

\* Two runs of the ones that take locks cannot meet in their rounds, so one that
\* removes another's throttles cleans up, or takes no lock because it rebalances.
LEMMA RemoverIsUnlocked ==
    ASSUME TypeInv, \A c \in Appliers : IsDry(c), NEW a \in Appliers,
           NEW b \in Appliers \ {a}, Rounds(b), Guarded(a), NeedsLock(a),
           pc[b] \in Removers, pc[b] = "unthrottleBrokers" => run[b].queue # {}
    PROVE  pc[b] \in {"clearTopic", "clearBrokers", "writeSettings"} \/ phase[b] = "balance"
<1> SUFFICES ASSUME pc[b] \in {"throttleTopic", "unthrottleTopic", "unthrottleBrokers"},
                    phase[b] # "balance"
             PROVE  FALSE
  BY DEF Removers
<1>1. phase[b] = "update"
  BY DEF Rounds, SetsNone, Early, Ended
<1>2. ~Conf[b].dryRun
  BY DEF IsDry, DryPcs, Ended
<1>3. Guarded(b) /\ NeedsLock(b)
  BY <1>1, <1>2 DEF Guarded, Moving, NeedsLock
<1> QED BY <1>3 DEF TypeInv, LockInv, LockExclusion

\* However many runs there are, a migration under the lock loses its throttles
\* only to another run's clean-up, destructive settings update or rebalance.
THEOREM ThrottleSafety == Spec => OnlyCleanupUnprotects
<1>1. Init => \A a \in Appliers : IsDry(a) /\ Rounds(a)
  BY OwnersDistinct DEF Init, IsDry, DryPcs, Rounds, Early
<1>2. TypeInv /\ TypeInv' /\ (\A a \in Appliers : IsDry(a) /\ Rounds(a)) /\ [Next]_vars
         => (\A a \in Appliers : IsDry(a) /\ Rounds(a))'
  <2> SUFFICES ASSUME TypeInv, TypeInv', \A a \in Appliers : IsDry(a) /\ Rounds(a),
                      [Next]_vars, NEW a \in Appliers
               PROVE  IsDry(a)' /\ Rounds(a)'
    OBVIOUS
  <2>1. IsDry(a)'
    BY DryKept DEF DryInv
  <2>2. CASE RunStep(a)
    BY <2>1, <2>2, StepRounds
  <2>3. ASSUME NEW b \in Appliers \ {a}, RunStep(b) PROVE Rounds(a)'
    <3>1. ~Moves(a)
      BY <2>3, StepIsOwn
    <3>2. Turn(b)
      BY <2>3, StartMoves, CheckStepMoves, UpdateStepMoves, MoveStepMoves, LeaderStepMoves,
         LockStepMoves, FaultStepMoves, SessionExpiresMoves
         DEF RunStep, Step, TypeInv, LockMove, KeepsLock, DropsLock, TakesLock
    <3> QED BY <3>1, <3>2 DEF Moves, Turn, Rounds
  <2>4. CASE ControllerStep \/ Rest \/ UNCHANGED vars
    BY <2>1, <2>4 DEF ControllerStep, Rest, vars, Rounds
  <2> QED BY <2>1, <2>2, <2>3, <2>4 DEF Next, RunStep
<1>3. TypeInv /\ (\A a \in Appliers : IsDry(a) /\ Rounds(a)) /\ [Next]_vars
         => [\A a \in Appliers :
               /\ Guarded(a) /\ NeedsLock(a)
               /\ Exposed(a) /\ Exposed(a)' /\ Protected(a) /\ ~Protected(a)'
               => \E b \in Appliers \ {a} :
                     /\ Moves(b)
                     /\ \/ pc[b] \in {"clearTopic", "clearBrokers", "writeSettings"}
                        \/ phase[b] = "balance"]_vars
  <2> SUFFICES ASSUME TypeInv, \A a \in Appliers : IsDry(a) /\ Rounds(a), [Next]_vars,
                      NEW a \in Appliers, Guarded(a), NeedsLock(a), Exposed(a),
                      Exposed(a)', Protected(a), ~Protected(a)'
               PROVE  \E b \in Appliers \ {a} :
                         /\ Moves(b)
                         /\ \/ pc[b] \in {"clearTopic", "clearBrokers", "writeSettings"}
                            \/ phase[b] = "balance"
    OBVIOUS
  <2>1. pc[a] = "poll" /\ pc'[a] = "poll"
    BY DEF Exposed
  <2>2. ~(ControllerStep \/ Rest \/ UNCHANGED vars)
    BY <2>1, OtherStepsKeepThrottles, ProtectedKept
  <2>3. PICK b \in Appliers : RunStep(b)
    BY <2>2 DEF Next, RunStep
  <2>4. b # a
    BY <2>1, <2>3, PollEnds
  <2>5. run'[a] = run[a]
    BY <2>3, <2>4, StepIsOwn DEF Moves
  <2>6. ~KeepsThrottles
    BY <2>1, <2>5, ProtectedKept
  <2> QED BY <2>3, <2>4, <2>6, RemovesThrottles, RemoverIsUnlocked
<1>4. Spec => []TypeInv
  BY TypeInvariant
<1> QED BY <1>1, <1>2, <1>3, <1>4, PTL DEF Spec, OnlyCleanupUnprotects

(***************************************************************************)
(* A run on its own, and the runs that broke off before it.                *)
(***************************************************************************)
Alone == \A a \in Appliers : \A b \in Appliers : a = b

\* what applyThrottles has done by the time it is at a broker, and when it is done
TopicProtected(a) ==
    \A i \in Moved(run[a].view, run[a].desired, run[a].batch) :
       /\ {i} \X run[a].view[i].reps \subseteq topicThr[Topic(a)].leader
       /\ {i} \X (run[a].desired[i].reps \ run[a].view[i].reps)
             \subseteq topicThr[Topic(a)].follower
BrokersProtected(a, left) ==
    \A b \in ThrottledBy(run[a].view, run[a].desired, run[a].batch) \ left :
       \A k \in Keys : brokerThr[b][k] # Nobody

Throttled(a) ==
    /\ pc[a] = "throttleBrokers" => TopicProtected(a) /\ BrokersProtected(a, run[a].queue)
    /\ pc[a] \in {"assign", "poll"} /\ phase[a] # "new"
          => TopicProtected(a) /\ BrokersProtected(a, {})

\* Together they are the protection the property asks for.
LEMMA ThrottledProtects ==
    ASSUME TypeInv, NEW a \in Appliers, TopicProtected(a), BrokersProtected(a, {})
    PROVE  Protected(a)
<1> SUFFICES ASSUME NEW i \in run[a].batch, run[a].view[i].reps # run[a].desired[i].reps
             PROVE  /\ {i} \X run[a].view[i].reps \subseteq topicThr[Topic(a)].leader
                    /\ {i} \X (run[a].desired[i].reps \ run[a].view[i].reps)
                          \subseteq topicThr[Topic(a)].follower
                    /\ \A b \in run[a].view[i].reps \cup run[a].desired[i].reps :
                          \A k \in Keys : brokerThr[b][k] # Nobody
  BY DEF Protected
<1>1. i \in Moved(run[a].view, run[a].desired, run[a].batch)
  BY DEF Moved
<1> QED BY <1>1 DEF TopicProtected, BrokersProtected, ThrottledBy

\* Throttles that stay keep a run at rest throttled.
LEMMA ThrottledKept ==
    ASSUME TypeInv, NEW a \in Appliers, Throttled(a), KeepsThrottles, ~Moves(a),
           UNCHANGED phase
    PROVE  Throttled(a)'
<1>1. pc[a] \in Migrating =>
         ThrottledBy(run[a].view, run[a].desired, run[a].batch) \subseteq Brokers
  BY RunFacts, BatchThrottleTypes DEF Shaped, RunType
<1> QED BY <1>1 DEF Throttled, TopicProtected, BrokersProtected, KeepsThrottles, Moves, Migrating

\* What ThrottleBroker does, field by field.
LEMMA ThrottleBrokerDoes ==
    ASSUME TypeInv, NEW a \in Appliers, ThrottleBroker(a)
    PROVE  \E b \in run[a].queue :
              /\ b \in Brokers
              /\ run'[a].view = run[a].view /\ run'[a].desired = run[a].desired
              /\ run'[a].batch = run[a].batch /\ run'[a].ownTopic = run[a].ownTopic
              /\ run'[a].cleaned = run[a].cleaned
              /\ run'[a].queue = run[a].queue \ {b}
              /\ run'[a].ownBrokers =
                    IF BrokerMode \/ Nobody \in {brokerThr[b][k] : k \in Keys}
                    THEN run[a].ownBrokers \cup {b} ELSE run[a].ownBrokers
              /\ pc'[a] = IF run[a].queue = {b} THEN "assign" ELSE "throttleBrokers"
              /\ \A k \in Keys : brokerThr'[b][k] # Nobody
              /\ \A c \in Brokers \ {b} : brokerThr'[c] = brokerThr[c]
<1>a. run[a] \in RunType /\ run \in [Appliers -> RunType] /\ pc \in [Appliers -> Pcs]
  BY RunFacts DEF TypeInv, RunsTypeOK, LockInv, ControlTypeOK
<1>1. PICK b \in run[a].queue :
         /\ brokerThr' = [brokerThr EXCEPT ![b] =
               [k \in Keys |-> IF BrokerMode \/ @[k] = Nobody THEN a ELSE @[k]]]
         /\ Set(a, [run[a] EXCEPT !.queue = @ \ {b},
                      !.ownBrokers = IF BrokerMode \/ Nobody \in {brokerThr[b][k] : k \in Keys}
                                     THEN @ \cup {b} ELSE @])
         /\ Go(a, IF run[a].queue = {b} THEN "assign" ELSE "throttleBrokers")
  BY DEF ThrottleBroker, LeastOf
<1>2. b \in Brokers
  BY <1>a DEF RunType
<1>3. \A k \in Keys : brokerThr'[b][k] # Nobody
  BY <1>1, <1>2, OwnersDistinct DEF TypeInv, StoreTypeOK
<1>4. \A c \in Brokers \ {b} : brokerThr'[c] = brokerThr[c]
  BY <1>1, <1>2 DEF TypeInv, StoreTypeOK
<1>5. pc'[a] = IF run[a].queue = {b} THEN "assign" ELSE "throttleBrokers"
  BY <1>a, <1>1 DEF Go
<1> DEFINE own == IF BrokerMode \/ Nobody \in {brokerThr[b][k] : k \in Keys}
                  THEN run[a].ownBrokers \cup {b} ELSE run[a].ownBrokers
<1>6. Set(a, [run[a] EXCEPT !.queue = @ \ {b}, !.ownBrokers = own])
  BY <1>1
<1>7. run'[a].ownBrokers = own
  <2> HIDE DEF own
  <2> QED BY <1>a, <1>6 DEF Set, RunType
<1>8. /\ run'[a].view = run[a].view /\ run'[a].desired = run[a].desired
      /\ run'[a].batch = run[a].batch /\ run'[a].ownTopic = run[a].ownTopic
      /\ run'[a].cleaned = run[a].cleaned
      /\ run'[a].queue = run[a].queue \ {b}
  <2> HIDE DEF own
  <2> QED BY <1>a, <1>6 DEF Set, RunType
<1> QED BY <1>2, <1>3, <1>4, <1>5, <1>7, <1>8

\* The steps that go where a run's throttles are due.
LEMMA GoesThrottled ==
    ASSUME TypeInv, NEW a \in Appliers, RunStep(a),
           ~(Batch(a) \/ ThrottleTopic(a) \/ ThrottleBroker(a) \/ Assign(a))
    PROVE  pc'[a] \notin {"throttleBrokers", "assign", "poll"}
<1>a. pc \in [Appliers -> Pcs]
  BY DEF TypeInv, LockInv, ControlTypeOK
<1> USE <1>a DEF Go, Stop, Abort, Outcome, Ended
<1>1. CASE CheckStep(a)
  BY <1>1 DEF CheckStep, Lookup, AskCreate, CreateTopic, Settle, LockCheck, AskClearTopic,
     ClearTopic, ListTopics, AskClearBrokers, Ask, AfterTopicThrottles
<1>2. CASE UpdateStep(a)
  BY <1>2 DEF UpdateStep, Settings, AskSettings, WriteSettings, Counts, ReadPartitions,
     AskAdd, AddPartitions, PollAdd, Ask
<1>3. CASE MoveStep(a)
  BY <1>3 DEF MoveStep, Placement, AskWarn, ReadPlacement, Balance, AskRun,
     Poll, UnthrottleTopic, UnthrottleBroker, UnthrottleDone, AskNext, Ask, Propose
<1>4. CASE LeaderStep(a)
  BY <1>4 DEF LeaderStep, Leaders, LeadersChecked, AskElect, Elect, PollElect, Ask
<1>5. CASE LockStep(a) \/ FaultStep(a) \/ Start(a) \/ SessionExpires(a)
  BY <1>5 DEF LockStep, Acquire, AfterLock, LockTimeout, FaultStep, UnthrottleFault, Fail,
     Crash, Start, SessionExpires, Waiting
<1> QED BY <1>1, <1>2, <1>3, <1>4, <1>5 DEF RunStep, Step

\* applyThrottles throttles a round's replicas and brokers before it asks for
\* the move, and a round that throttles nothing moves no replica.
LEMMA StepThrottled ==
    ASSUME TypeInv, NEW a \in Appliers, Throttled(a), RunStep(a)
    PROVE  Throttled(a)'
<1>a. run[a] \in RunType /\ run \in [Appliers -> RunType] /\ pc \in [Appliers -> Pcs]
      /\ phase \in [Appliers -> Phases]
  BY RunFacts DEF TypeInv, RunsTypeOK, LockInv, ControlTypeOK
<1>1. CASE Batch(a)
  <2>1. CASE run[a].todo = {}
    BY <1>a, <1>1, <2>1 DEF Batch, Go, Throttled
  <2>2. CASE run[a].todo # {}
    <3>1. PICK todo :
            Set(a, [run[a] EXCEPT !.batch = NextBatch(a), !.todo = todo,
                      !.ownTopic = FALSE, !.ownBrokers = {}, !.queue = {}])
      BY <1>1, <2>2 DEF Batch
    <3>2. /\ run'[a].view = run[a].view /\ run'[a].desired = run[a].desired
          /\ run'[a].batch = NextBatch(a)
      BY <1>a, <3>1 DEF Set, RunType
    <3>3. phase[a] = "new" \/ Moved(run[a].view, run[a].desired, NextBatch(a)) = {}
             \/ pc'[a] = "throttleTopic"
      BY <1>a, <1>1, <2>2 DEF Batch, Go
    <3>4. pc'[a] \in {"assign", "throttleTopic"} /\ phase'[a] = phase[a]
      BY <1>a, <1>1, <2>2 DEF Batch, Go
    <3> QED BY <3>2, <3>3, <3>4 DEF Throttled, TopicProtected, BrokersProtected, ThrottledBy
  <2> QED BY <2>1, <2>2
<1>2. CASE ThrottleTopic(a)
  <2> DEFINE by == ThrottledBy(run[a].view, run[a].desired, run[a].batch)
             leaders == LeaderThrottles(run[a].view, run[a].desired, run[a].batch)
             followers == FollowerThrottles(run[a].view, run[a].desired, run[a].batch)
  <2>1. /\ topicThr' = [topicThr EXCEPT ![Topic(a)] = [leader |-> leaders, follower |-> followers]]
        /\ Set(a, [run[a] EXCEPT !.ownTopic = TRUE, !.queue = by])
        /\ pc'[a] = "throttleBrokers"
    BY <1>a, <1>2 DEF ThrottleTopic, WriteTopicThrottle, Go
  <2>2. /\ topicThr'[Topic(a)].leader = leaders /\ topicThr'[Topic(a)].follower = followers
    BY <2>1, RunFacts DEF TypeInv, StoreTypeOK
  <2>3. /\ run'[a].view = run[a].view /\ run'[a].desired = run[a].desired
        /\ run'[a].batch = run[a].batch /\ run'[a].queue = by
    <3> HIDE DEF by
    <3> QED BY <1>a, <2>1 DEF Set, RunType
  <2>4. BrokersProtected(a, run[a].queue)'
    BY <2>3 DEF BrokersProtected
  <2>5. TopicProtected(a)'
    BY <2>2, <2>3 DEF TopicProtected, Topic, LeaderThrottles, FollowerThrottles
  <2> QED BY <2>1, <2>4, <2>5 DEF Throttled
<1>3. CASE ThrottleBroker(a)
  <2>1. PICK b \in run[a].queue :
           /\ b \in Brokers
           /\ run'[a].view = run[a].view /\ run'[a].desired = run[a].desired
           /\ run'[a].batch = run[a].batch
           /\ run'[a].queue = run[a].queue \ {b}
           /\ pc'[a] = IF run[a].queue = {b} THEN "assign" ELSE "throttleBrokers"
           /\ \A k \in Keys : brokerThr'[b][k] # Nobody
           /\ \A c \in Brokers \ {b} : brokerThr'[c] = brokerThr[c]
    BY <1>3, ThrottleBrokerDoes
  <2>2. topicThr' = topicThr /\ TopicProtected(a) /\ BrokersProtected(a, run[a].queue)
    BY <1>3 DEF ThrottleBroker, Throttled
  <2>3. ThrottledBy(run[a].view, run[a].desired, run[a].batch) \subseteq Brokers
    BY <1>3, RunFacts, BatchThrottleTypes DEF ThrottleBroker, Shaped, Migrating, RunType
  <2>4. TopicProtected(a)'
    BY <2>1, <2>2 DEF TopicProtected
  <2>5. BrokersProtected(a, run[a].queue)'
    BY <2>1, <2>2, <2>3 DEF BrokersProtected
  <2>6. run[a].queue = {b} => BrokersProtected(a, {})'
    BY <2>1, <2>2, <2>3 DEF BrokersProtected
  <2> QED BY <2>1, <2>4, <2>5, <2>6 DEF Throttled
<1>4. CASE Assign(a)
  <2>1. CASE Abort(a)
    BY <1>a, <2>1 DEF Abort, Stop, Go, Outcome, Throttled
  <2>2. CASE ~Abort(a)
    <3>1. pc[a] = "assign" /\ pc'[a] = "poll" /\ UNCHANGED <<topicThr, brokerThr, phase, run>>
      BY <1>a, <1>4, <2>2 DEF Assign, Go
    <3> QED BY <3>1 DEF Throttled, TopicProtected, BrokersProtected
  <2> QED BY <2>1, <2>2
<1>5. CASE ~(Batch(a) \/ ThrottleTopic(a) \/ ThrottleBroker(a) \/ Assign(a))
  BY <1>5, GoesThrottled DEF Throttled
<1> QED BY <1>1, <1>2, <1>3, <1>4, <1>5

\* Without other runs, and however often a run is broken off and started again,
\* a move of replicas is throttled, at both ends and on the topic, from the
\* request to the poll that sees it done.
THEOREM MigrationSafety ==
    ASSUME Alone
    PROVE  Spec => []MigrationsThrottled
<1>1. Init => \A a \in Appliers : Throttled(a)
  BY DEF Init, Throttled
<1>2. TypeInv /\ (\A a \in Appliers : Throttled(a)) /\ [Next]_vars
         => (\A a \in Appliers : Throttled(a))'
  <2> SUFFICES ASSUME TypeInv, \A a \in Appliers : Throttled(a), [Next]_vars,
                      NEW a \in Appliers
               PROVE  Throttled(a)'
    OBVIOUS
  <2>1. ASSUME NEW b \in Appliers, RunStep(b) PROVE Throttled(a)'
    BY <2>1, StepThrottled DEF Alone
  <2>2. CASE ControllerStep \/ Rest \/ UNCHANGED vars
    <3>1. UNCHANGED phase
      BY <2>2 DEF ControllerStep, Rest, vars
    <3> QED BY <2>2, <3>1, OtherStepsKeepThrottles, OtherStepsMoveNone, ThrottledKept
  <2> QED BY <2>1, <2>2 DEF Next, RunStep
<1>3. TypeInv /\ (\A a \in Appliers : Throttled(a)) => MigrationsThrottled
  BY ThrottledProtects DEF MigrationsThrottled, Exposed, Throttled
<1>4. Spec => []TypeInv
  BY TypeInvariant
<1> QED BY <1>1, <1>2, <1>3, <1>4, PTL DEF Spec

(***************************************************************************)
(* What a run leaves behind.  Its own throttles and the ones it found are  *)
(* followed from the clean-up through the rounds: at each pc, what may     *)
(* still be throttled is on the list of what the run will clear, or a      *)
(* failure has been noted that keeps it from reporting success.            *)
(***************************************************************************)
Leftovers == {b \in Brokers : BrokerThrottled(b)}
Bare(a) == topicThr[Topic(a)] = Unthrottled
Clear(a) == Bare(a) /\ Leftovers = {}

\* the pcs that see what the run saw when it started, those that remove it, and
\* those at which the run's own throttles may be on
Looking == {"lookup", "lockCheck", "askClearTopic", "clearTopic", "listTopics",
            "askClearBrokers"}
Removing == {"askClearTopic", "clearTopic", "listTopics", "askClearBrokers", "clearBrokers"}
Throttling == {"throttleBrokers", "assign", "poll", "unthrottleTopic", "unthrottleBrokers"}

Tidy(a) ==
    /\ pc[a] \in {"listTopics", "askClearBrokers", "clearBrokers"} => Bare(a)
    /\ pc[a] = "clearBrokers" => run[a].failed \/ Leftovers \subseteq run[a].queue
    /\ pc[a] \in {"throttleBrokers", "assign", "poll"} =>
          (Bare(a) \/ run[a].ownTopic) /\ Leftovers \subseteq run[a].ownBrokers
    /\ pc[a] \in {"unthrottleTopic", "unthrottleBrokers"} =>
          run[a].failed \/ Leftovers \subseteq run[a].queue
    /\ pc[a] = "unthrottleBrokers" => run[a].failed \/ Bare(a)
    /\ pc[a] \notin Removing \cup Throttling => Clear(a)

Tidying(a) ==
    /\ \A t \in Topics \ {Topic(a)} : topicThr[t] = Unthrottled
    /\ pc[a] \in Looking => run[a].seen = Leftovers
    /\ pc[a] = "lockCheck" => run[a].throttled = TopicThrottled(Topic(a))
    /\ run[a].cleaned /\ ~Conf[a].dryRun => Tidy(a)

\* Away from the throttles a run stays tidy; an ended run has nothing to be.
Calm == Pcs \ (Looking \cup Removing \cup Throttling)

Calmly(a) ==
    /\ UNCHANGED <<topicThr, brokerThr>>
    /\ pc'[a] \in Calm
    /\ run'[a].cleaned => run[a].cleaned /\ pc[a] \notin Removing \cup Throttling

LEMMA CalmTidies ==
    ASSUME NEW a \in Appliers, Tidying(a), Calmly(a)
    PROVE  Tidying(a)'
<1>1. /\ pc'[a] \notin Looking \cup Removing \cup Throttling
      /\ Leftovers' = Leftovers /\ Bare(a)' = Bare(a)
      /\ run'[a].cleaned => run[a].cleaned /\ pc[a] \notin Removing \cup Throttling
      /\ topicThr' = topicThr
  BY DEF Calmly, Calm, Leftovers, BrokerThrottled, Bare, Topic
<1>2. Tidy(a)' <=> Clear(a)'
  BY <1>1 DEF Tidy, Looking, Removing, Throttling
<1>3. run'[a].cleaned /\ ~Conf[a].dryRun => Clear(a)
  BY <1>1 DEF Tidying, Tidy
<1>4. Clear(a)' = Clear(a)
  BY <1>1 DEF Clear
<1>5. \A t \in Topics \ {Topic(a)} : topicThr'[t] = Unthrottled
  BY <1>1 DEF Tidying
<1> QED BY <1>1, <1>2, <1>3, <1>4, <1>5 DEF Tidying, Looking, Topic

\* Stopping is calm.
LEMMA StopsCalmly ==
    ASSUME TypeInv, NEW a \in Appliers, UNCHANGED <<topicThr, brokerThr>>
    PROVE  /\ \A o \in Ended : Stop(a, o) => Calmly(a)
           /\ Abort(a) => Calmly(a)
           /\ Crash(a) => Calmly(a)
<1>a. run \in [Appliers -> RunType] /\ pc \in [Appliers -> Pcs]
  BY RunFacts DEF TypeInv, RunsTypeOK, LockInv, ControlTypeOK
<1>1. ASSUME NEW o \in Ended, Set(a, NoRun), Go(a, o) PROVE Calmly(a)
  <2>1. ~run'[a].cleaned
    BY <1>a, <1>1 DEF Set, NoRun
  <2>2. pc'[a] \in Calm
    BY <1>a, <1>1 DEF Go, Calm, Pcs, Ended, Looking, Removing, Throttling
  <2> QED BY <2>1, <2>2 DEF Calmly
<1>2. Outcome(a) \in Ended
  BY DEF Outcome, Ended
<1>3. "crashed" \in Ended
  BY DEF Ended
<1> QED BY <1>1, <1>2, <1>3 DEF Abort, Stop, Crash

\* So is a step between calm pcs, or out of the looking ones, that leaves the
\* throttles and what the run knows of them.
LEMMA GoesCalmly ==
    ASSUME TypeInv, NEW a \in Appliers, NEW label \in Calm, Go(a, label),
           UNCHANGED <<topicThr, brokerThr>>, run'[a].cleaned = run[a].cleaned,
           pc[a] \notin Removing \cup Throttling
    PROVE  Calmly(a)
BY DEF Go, Calmly, TypeInv, LockInv, ControlTypeOK

\* A prompt keeps what the run knows.
LEMMA AsksCalmly ==
    ASSUME TypeInv, NEW a \in Appliers, NEW from \in Prompts \ Removing,
           NEW label \in Calm, NEW r \in RunType, r.cleaned = run[a].cleaned,
           Ask(a, from, r, label)
    PROVE  Calmly(a)
<1>1. UNCHANGED <<topicThr, brokerThr>>
  BY DEF Ask, Abort, ReadOnly, clusterVars
<1>2. CASE Abort(a)
  BY <1>1, <1>2, StopsCalmly
<1>3. CASE Set(a, [r EXCEPT !.answer = "yes"]) /\ Go(a, label) /\ pc[a] = from
  <2>1. run'[a].cleaned = run[a].cleaned
    BY <1>3 DEF Set, RunType, TypeInv, RunsTypeOK
  <2>2. from \notin Removing \cup Throttling
    BY DEF Prompts, Throttling
  <2> QED BY <1>1, <1>3, <2>1, <2>2, GoesCalmly
<1> QED BY <1>2, <1>3 DEF Ask

\* The steps that have to do with throttles, in the checks and in a round.
CleaningStep(a) == Start(a) \/ Lookup(a) \/ LockCheck(a) \/ AskClearTopic(a)
                   \/ ClearTopic(a) \/ ListTopics(a) \/ AskClearBrokers(a) \/ WriteSettings(a)
RoundStep(a) == Batch(a) \/ ThrottleTopic(a) \/ ThrottleBroker(a) \/ Assign(a)
                \/ Poll(a) \/ UnthrottleTopic(a) \/ UnthrottleBroker(a)
                \/ UnthrottleFault(a) \/ UnthrottleDone(a)

\* All others are calm.
LEMMA OthersCalm ==
    ASSUME TypeInv, NEW a \in Appliers, RunStep(a), ~CleaningStep(a), ~RoundStep(a)
    PROVE  Calmly(a)
<1>a. run[a] \in RunType /\ run \in [Appliers -> RunType] /\ pc \in [Appliers -> Pcs]
  BY RunFacts DEF TypeInv, RunsTypeOK, LockInv, ControlTypeOK
<1>b. ReadOnly => UNCHANGED <<topicThr, brokerThr>>
  BY DEF ReadOnly, clusterVars
<1>c. Abort(a) => Calmly(a)
  BY StopsCalmly, <1>b DEF Abort
<1>d. \A o \in Ended : Stop(a, o) /\ ReadOnly => Calmly(a)
  BY StopsCalmly, <1>b
<1>e. UNCHANGED run => run'[a].cleaned = run[a].cleaned
  OBVIOUS
<1> USE DEF Calm, Pcs, Ended, Prompts, Waiting, Calls, Locals, Looking, Removing, Throttling
<1>1. CASE CheckStep(a)
  <2>1. CASE AskCreate(a)
    BY <1>a, <2>1, AsksCalmly DEF AskCreate
  <2>2. CASE CreateTopic(a)
    BY <1>c, <1>e, <2>2, GoesCalmly DEF CreateTopic
  <2>3. CASE Settle(a)
    BY <1>b, <1>e, <2>3, GoesCalmly DEF Settle
  <2> QED BY <1>1, <2>1, <2>2, <2>3 DEF CheckStep, CleaningStep
<1>2. CASE UpdateStep(a)
  <2>1. CASE Settings(a)
    <3>1. run'[a].cleaned = run[a].cleaned
      BY <1>a, <2>1 DEF Settings, Set, RunType
    <3> QED BY <1>b, <2>1, <3>1, GoesCalmly DEF Settings
  <2>2. CASE AskSettings(a) \/ AskAdd(a)
    BY <1>a, <2>2, AsksCalmly DEF AskSettings, AskAdd
  <2>3. CASE PollAdd(a)
    BY <1>b, <1>e, <2>3, GoesCalmly DEF PollAdd
  <2>4. CASE AddPartitions(a)
    BY <1>c, <1>e, <2>4, GoesCalmly DEF AddPartitions
  <2>5. CASE Counts(a)
    BY <1>b, <1>c, <1>d, <1>e, <2>5, GoesCalmly DEF Counts
  <2>6. CASE ReadPartitions(a)
    <3> DEFINE Ends == Abort(a) \/ (Stop(a, "panicked") /\ ReadOnly)
               Skips == UNCHANGED run /\ Go(a, "placement") /\ ReadOnly
    <3>1. CASE Ends
      BY <1>c, <1>d, <3>1
    <3>2. CASE Skips
      BY <1>b, <1>e, <2>6, <3>2, GoesCalmly DEF ReadPartitions
    <3>3. CASE ~Ends /\ ~Skips
      <4>1. PICK v : \E lists :
               /\ Set(a, [run[a] EXCEPT !.view = v, !.answer = "none",
                            !.desired = Lists(v) \o lists,
                            !.batch = Len(v) + 1 .. Conf[a].partitions])
               /\ Go(a, "askAdd") /\ ReadOnly
        BY <2>6, <3>3 DEF ReadPartitions
      <4>2. run'[a].cleaned = run[a].cleaned
        <5> DEFINE batch == Len(v) + 1 .. Conf[a].partitions
        <5>1. PICK lists :
                 Set(a, [run[a] EXCEPT !.view = v, !.answer = "none",
                           !.desired = Lists(v) \o lists, !.batch = batch])
          BY <4>1
        <5> HIDE DEF batch
        <5> QED BY <1>a, <5>1 DEF Set, RunType
      <4> QED BY <1>b, <2>6, <4>1, <4>2, GoesCalmly DEF ReadPartitions
    <3> HIDE DEF Ends, Skips
    <3> QED BY <3>1, <3>2, <3>3
  <2> QED BY <1>2, <2>1, <2>2, <2>3, <2>4, <2>5, <2>6 DEF UpdateStep, CleaningStep
<1>3. CASE MoveStep(a)
  <2>1. CASE Placement(a)
    <3>1. CASE Abort(a)
      BY <1>c, <3>1
    <3>2. CASE ~Abort(a)
      <4>1. PICK v, size :
               /\ Set(a, [run[a] EXCEPT !.view = v, !.answer = "none", !.size = size])
               /\ pc'[a] \in {"leaders", "lockPlacement", "askWarn", "readPlacement"}
               /\ ReadOnly
        BY <1>a, <2>1, <3>2 DEF Placement, Go
      <4>2. run'[a].cleaned = run[a].cleaned
        BY <1>a, <4>1 DEF Set, RunType
      <4> QED BY <1>b, <2>1, <4>1, <4>2 DEF Placement, Calmly
    <3> QED BY <3>1, <3>2
  <2>2. CASE AskWarn(a)
    BY <1>a, <1>b, <1>e, <2>2, AsksCalmly, GoesCalmly DEF AskWarn
  <2>3. ASSUME NEW v, NEW d, Propose(a, v, d), pc[a] \in {"readPlacement", "balance"}
        PROVE  Calmly(a)
    <3>1. run'[a].cleaned = run[a].cleaned
      BY <1>a, <2>3 DEF Propose, Set, RunType
    <3> QED BY <1>b, <2>3, <3>1, GoesCalmly DEF Propose
  <2>4. CASE ReadPlacement(a)
    BY <1>c, <2>3, <2>4 DEF ReadPlacement
  <2>5. CASE Balance(a)
    BY <1>b, <1>c, <1>e, <2>3, <2>5, GoesCalmly DEF Balance
  <2>6. CASE AskRun(a)
    <3> DEFINE r == [run[a] EXCEPT !.todo = ToUpdate(run[a].view, run[a].desired)]
    <3>1. ToUpdate(run[a].view, run[a].desired) \subseteq Nat \ {0}
      BY <1>a, SeqUsed DEF ToUpdate, RunType
    <3>2. r \in RunType /\ r.cleaned = run[a].cleaned
      BY <1>a, <3>1 DEF RunType
    <3>3. Ask(a, "askRun", r, "batch")
      BY <2>6 DEF AskRun
    <3> HIDE DEF r
    <3> QED BY <3>2, <3>3, AsksCalmly
  <2>7. CASE AskNext(a)
    BY <1>a, <1>b, <1>e, <2>7, AsksCalmly, GoesCalmly DEF AskNext
  <2> QED BY <1>3, <2>1, <2>2, <2>4, <2>5, <2>6, <2>7 DEF MoveStep, RoundStep
<1>f. LeadersChecked(a) /\ ReadOnly /\ pc[a] \in {"leaders", "pollElect"} => Calmly(a)
  BY <1>b, <1>d, <1>e, GoesCalmly DEF LeadersChecked
<1>4. CASE LeaderStep(a)
  <2>1. CASE Leaders(a)
    <3>1. ASSUME NEW wrong, Go(a, "lockLeaders"), ReadOnly,
                 Set(a, [run[a] EXCEPT !.batch = wrong, !.answer = "none"])
          PROVE  Calmly(a)
      <4>1. run'[a].cleaned = run[a].cleaned
        BY <1>a, <3>1 DEF Set, RunType
      <4> QED BY <1>b, <2>1, <3>1, <4>1, GoesCalmly DEF Leaders
    <3> QED BY <1>c, <1>f, <2>1, <3>1 DEF Leaders
  <2>2. CASE AskElect(a)
    BY <1>a, <2>2, AsksCalmly DEF AskElect
  <2>3. CASE Elect(a)
    BY <1>c, <1>e, <2>3, GoesCalmly DEF Elect
  <2>4. CASE PollElect(a)
    BY <1>f, <2>4 DEF PollElect
  <2> QED BY <1>4, <2>1, <2>2, <2>3, <2>4 DEF LeaderStep
<1>5. CASE LockStep(a)
  BY <1>b, <1>c, <1>e, <1>5, GoesCalmly DEF LockStep, Acquire, LockTimeout, AfterLock
<1>6. CASE Fail(a) \/ Crash(a)
  BY <1>6, StopsCalmly DEF Fail, Crash, Outcome, clusterVars
<1>7. CASE SessionExpires(a)
  BY <1>7 DEF SessionExpires, Calmly, clusterVars
<1> QED BY <1>1, <1>2, <1>3, <1>4, <1>5, <1>6, <1>7
           DEF RunStep, Step, FaultStep, CleaningStep, RoundStep

\* What a tidy run's steps keep: the other topics' throttles, and what it saw.
LEMMA OthersBare ==
    ASSUME TypeInv, NEW a \in Appliers, Tidying(a), NEW thr,
           topicThr' = [topicThr EXCEPT ![Topic(a)] = thr]
    PROVE  /\ \A t \in Topics \ {Topic(a)} : topicThr'[t] = Unthrottled
           /\ topicThr'[Topic(a)] = thr
BY RunFacts DEF TypeInv, StoreTypeOK, Tidying

\* Clean-up: what checkExistingState does not find throttled is not, and what it
\* clears is what was throttled when the run started.
LEMMA CleaningTidies ==
    ASSUME TypeInv, NEW a \in Appliers, Conf[a].skipConfirm, Tidying(a), CleaningStep(a)
    PROVE  Tidying(a)'
<1>a. run[a] \in RunType /\ run \in [Appliers -> RunType] /\ pc \in [Appliers -> Pcs]
  BY RunFacts DEF TypeInv, RunsTypeOK, LockInv, ControlTypeOK
<1>b. UNCHANGED <<topicThr, brokerThr>> =>
         /\ \A t \in Topics \ {Topic(a)} : topicThr'[t] = Unthrottled
         /\ Leftovers' = Leftovers /\ Bare(a)' = Bare(a) /\ Clear(a)' = Clear(a)
  BY DEF Tidying, Leftovers, BrokerThrottled, Bare, Clear, Topic
<1>c. Calmly(a) => Tidying(a)'
  BY CalmTidies
<1>d. ReadOnly => UNCHANGED <<topicThr, brokerThr>>
  BY DEF ReadOnly, clusterVars
<1>e. Abort(a) => Calmly(a)
  BY StopsCalmly, <1>d DEF Abort
<1>f. Topic(a)' = Topic(a)
  BY DEF Topic
<1>1. CASE Start(a)
  <2>1. UNCHANGED <<topicThr, brokerThr>> /\ pc'[a] = "lookup"
    BY <1>a, <1>1 DEF Start, clusterVars, Go
  <2> DEFINE left == {b \in Brokers : BrokerThrottled(b)}
             quiet == (reassign = {} /\ election = {})
  <2>2. run'[a] = [NoRun EXCEPT !.seen = left, !.quiet = quiet]
    BY <1>a, <1>1 DEF Start, Set
  <2>3. run'[a].seen = left /\ ~run'[a].cleaned
    <3> HIDE DEF left, quiet
    <3> QED BY <2>2 DEF NoRun
  <2>4. run'[a].seen = Leftovers
    BY <2>3 DEF Leftovers
  <2> QED BY <1>b, <1>f, <2>1, <2>3, <2>4 DEF Tidying
<1>2. CASE Lookup(a)
  <2>0. UNCHANGED <<topicThr, brokerThr>> /\ pc[a] = "lookup"
    BY <1>d, <1>2 DEF Lookup
  <2>1. CASE Stop(a, "done")
    BY <1>c, <2>0, <2>1, StopsCalmly DEF Ended
  <2>2. CASE Go(a, "askCreate") /\ UNCHANGED run
    BY <1>c, <2>0, <2>2, GoesCalmly DEF Calm, Pcs, Prompts, Looking, Removing, Throttling
  <2>3. ASSUME NEW v, Go(a, "lockCheck"),
               Set(a, [run[a] EXCEPT !.view = v, !.throttled = TopicThrottled(Topic(a)),
                         !.retention = retention[Topic(a)]])
        PROVE  Tidying(a)'
    <3>1. pc'[a] = "lockCheck"
      BY <1>a, <2>3 DEF Go
    <3> DEFINE thr == TopicThrottled(Topic(a))
               ret == retention[Topic(a)]
    <3>2. Set(a, [run[a] EXCEPT !.view = v, !.throttled = thr, !.retention = ret])
      BY <2>3
    <3>3. /\ run'[a].seen = run[a].seen /\ run'[a].cleaned = run[a].cleaned
          /\ run'[a].throttled = thr
      <4> HIDE DEF thr, ret
      <4> QED BY <1>a, <3>2 DEF Set, RunType
    <3>4. TopicThrottled(Topic(a))' = TopicThrottled(Topic(a))
      BY <2>0, <1>f DEF TopicThrottled
    <3>5. run[a].seen = Leftovers
      BY <2>0 DEF Tidying, Looking
    <3>6. run'[a].cleaned /\ ~Conf[a].dryRun => Tidy(a)'
      BY <1>b, <2>0, <3>1, <3>3 DEF Tidying, Tidy, Removing, Throttling
    <3> HIDE DEF thr
    <3>7. run'[a].throttled = TopicThrottled(Topic(a))
      BY <3>3 DEF thr
    <3> QED BY <1>b, <1>f, <2>0, <3>1, <3>3, <3>4, <3>5, <3>6, <3>7 DEF Tidying
  <2> QED BY <1>2, <2>1, <2>2, <2>3 DEF Lookup
<1>3. CASE LockCheck(a)
  <2>0. UNCHANGED <<topicThr, brokerThr>> /\ pc[a] = "lockCheck"
    BY <1>d, <1>3 DEF LockCheck
  <2>1. PICK look : /\ Set(a, [run[a] EXCEPT !.cleaned = look])
                    /\ Go(a, CASE ~look -> "settings"
                               [] look /\ run[a].throttled /\ ~Conf[a].dryRun -> "askClearTopic"
                               [] OTHER -> AfterTopicThrottles(a))
                    /\ look \in BOOLEAN
    BY <1>3 DEF LockCheck
  <2>2. run'[a].cleaned = look /\ run'[a].seen = run[a].seen
    BY <1>a, <2>1 DEF Set, RunType
  <2>3. run[a].seen = Leftovers /\ run[a].throttled = TopicThrottled(Topic(a))
    BY <2>0 DEF Tidying, Looking
  <2>4. pc'[a] \in {"settings", "askClearTopic", "listTopics"}
    BY <1>a, <2>1 DEF Go, AfterTopicThrottles
  <2>5. look /\ ~Conf[a].dryRun /\ pc'[a] # "askClearTopic" =>
           Bare(a) /\ pc'[a] = IF run[a].seen # {} THEN "listTopics" ELSE "settings"
    BY <1>a, <2>1, <2>3 DEF Go, AfterTopicThrottles, Bare, TopicThrottled
  <2>6. run'[a].cleaned /\ ~Conf[a].dryRun => Tidy(a)'
    BY <1>b, <2>0, <2>2, <2>3, <2>4, <2>5 DEF Tidy, Clear, Removing, Throttling
  <2> QED BY <1>b, <1>f, <2>0, <2>2, <2>3, <2>4, <2>6 DEF Tidying
<1>4. CASE AskClearTopic(a)
  <2>0. UNCHANGED <<topicThr, brokerThr>> /\ pc[a] = "askClearTopic"
    BY <1>d, <1>4 DEF AskClearTopic, Abort
  <2>1. CASE Abort(a)
    BY <1>c, <1>e, <2>1
  <2>2. ASSUME NEW ok, Set(a, [run[a] EXCEPT !.answer = ok]), Go(a, "clearTopic")
        PROVE  Tidying(a)'
    <3>1. pc'[a] = "clearTopic" /\ run'[a].seen = run[a].seen
      BY <1>a, <2>2 DEF Set, Go, RunType
    <3>2. Tidy(a)'
      BY <3>1 DEF Tidy, Removing
    <3> QED BY <1>b, <1>f, <2>0, <3>1, <3>2 DEF Tidying, Looking
  <2> QED BY <1>4, <2>1, <2>2 DEF AskClearTopic
<1>5. CASE ClearTopic(a)
  <2>1. /\ \A t \in Topics \ {Topic(a)} : topicThr'[t] = Unthrottled
        /\ Bare(a)'
    BY <1>5, <1>f, OthersBare DEF ClearTopic, WriteTopicThrottle, Bare
  <2>2. /\ pc[a] = "clearTopic" /\ UNCHANGED <<brokerThr, run>>
        /\ pc'[a] = IF run[a].seen # {} THEN "listTopics" ELSE "settings"
    BY <1>a, <1>5 DEF ClearTopic, WriteTopicThrottle, Go, AfterTopicThrottles
  <2>3. run[a].seen = Leftovers /\ Leftovers' = Leftovers
    BY <2>2 DEF Tidying, Looking, Leftovers, BrokerThrottled
  <2>4. Tidy(a)'
    BY <2>1, <2>2, <2>3 DEF Tidy, Clear, Removing, Throttling
  <2> QED BY <1>f, <2>1, <2>2, <2>3, <2>4 DEF Tidying
<1>6. CASE ListTopics(a)
  <2>1. UNCHANGED <<topicThr, brokerThr, run>> /\ pc[a] = "listTopics"
    BY <1>d, <1>6 DEF ListTopics
  <2>2. pc'[a] \in {"settings", "askClearBrokers"}
    BY <1>a, <1>6 DEF ListTopics, Go
  <2>3. run[a].cleaned /\ ~Conf[a].dryRun => Bare(a) /\ pc'[a] = "askClearBrokers"
    <3> SUFFICES ASSUME run[a].cleaned, ~Conf[a].dryRun
                 PROVE  Bare(a) /\ pc'[a] = "askClearBrokers"
      OBVIOUS
    <3>1. Bare(a)
      BY <2>1 DEF Tidying, Tidy
    <3>2. {t \in Topics : TopicThrottled(t)} = {}
      BY <3>1, RunFacts DEF Tidying, TopicThrottled, Bare
    <3>3. ThrottledTopics = {{}}
      BY <3>2 DEF ThrottledTopics
    <3> QED BY <1>a, <1>6, <3>1, <3>3 DEF ListTopics, Go
  <2>4. run'[a].cleaned /\ ~Conf[a].dryRun => Tidy(a)'
    BY <1>b, <2>1, <2>3 DEF Tidy, Removing, Throttling
  <2> QED BY <1>b, <1>f, <2>1, <2>2, <2>4 DEF Tidying, Looking
<1>7. CASE AskClearBrokers(a)
  <2>0. UNCHANGED <<topicThr, brokerThr>> /\ pc[a] = "askClearBrokers"
    BY <1>d, <1>7 DEF AskClearBrokers, Abort
  <2>1. CASE Abort(a)
    BY <1>c, <1>e, <2>1
  <2>2. CASE /\ Set(a, [run[a] EXCEPT !.answer = "yes", !.queue = run[a].seen])
             /\ Go(a, "clearBrokers")
    <3>1. /\ pc'[a] = "clearBrokers" /\ run'[a].queue = run[a].seen
          /\ run'[a].cleaned = run[a].cleaned
      BY <1>a, <2>2 DEF Set, Go, RunType
    <3>2. run[a].seen = Leftovers
      BY <2>0 DEF Tidying, Looking
    <3>3. run'[a].cleaned /\ ~Conf[a].dryRun => Tidy(a)'
      BY <1>b, <2>0, <3>1, <3>2 DEF Tidying, Tidy, Removing
    <3> QED BY <1>b, <1>f, <2>0, <3>1, <3>3 DEF Tidying, Looking
  <2>3. Answers(a) = {"yes"}
    BY DEF Answers
  <2> QED BY <1>7, <2>1, <2>2, <2>3 DEF AskClearBrokers
<1>8. CASE WriteSettings(a)
  <2>1. PICK thr : /\ topicThr' = [topicThr EXCEPT ![Topic(a)] = thr]
                   /\ thr = Unthrottled \/ thr = topicThr[Topic(a)]
    BY <1>8 DEF WriteSettings
  <2>2. /\ \A t \in Topics \ {Topic(a)} : topicThr'[t] = Unthrottled
        /\ Bare(a) => Bare(a)'
    BY <1>f, <2>1, OthersBare DEF Bare
  <2>3. pc[a] = "writeSettings" /\ pc'[a] = "counts" /\ UNCHANGED <<brokerThr, run>>
    BY <1>a, <1>8 DEF WriteSettings, Go
  <2>4. Leftovers' = Leftovers
    BY <2>3 DEF Leftovers, BrokerThrottled
  <2>5. run'[a].cleaned /\ ~Conf[a].dryRun => Tidy(a)'
    BY <2>2, <2>3, <2>4 DEF Tidying, Tidy, Clear, Removing, Throttling
  <2> QED BY <1>f, <2>2, <2>3, <2>5 DEF Tidying, Looking
<1> QED BY <1>1, <1>2, <1>3, <1>4, <1>5, <1>6, <1>7, <1>8 DEF CleaningStep

\* Rounds: a run in a clear cluster removes every throttle it set, or has failed.
LEMMA RoundTidies ==
    ASSUME TypeInv, NEW a \in Appliers, Tidying(a), RoundStep(a)
    PROVE  Tidying(a)'
<1>a. run[a] \in RunType /\ run \in [Appliers -> RunType] /\ pc \in [Appliers -> Pcs]
  BY RunFacts DEF TypeInv, RunsTypeOK, LockInv, ControlTypeOK
<1>b. UNCHANGED <<topicThr, brokerThr>> =>
         /\ Leftovers' = Leftovers /\ Bare(a)' = Bare(a) /\ Clear(a)' = Clear(a)
  BY DEF Leftovers, BrokerThrottled, Bare, Clear, Topic
<1>c. Abort(a) => Tidying(a)'
  BY StopsCalmly, CalmTidies DEF Abort, ReadOnly, clusterVars
<1>d. ReadOnly => UNCHANGED <<topicThr, brokerThr>>
  BY DEF ReadOnly, clusterVars
<1>f. Topic(a)' = Topic(a)
  BY DEF Topic
<1>g. UNCHANGED topicThr => \A t \in Topics \ {Topic(a)} : topicThr'[t] = Unthrottled
  BY DEF Tidying
\* what is left to show of each of these steps
<1>t. ASSUME pc'[a] \in {"leaders", "settings", "askNext", "throttleTopic", "clearBrokers"}
                        \cup Throttling,
             \A t \in Topics \ {Topic(a)} : topicThr'[t] = Unthrottled,
             run'[a].cleaned = run[a].cleaned,
             run[a].cleaned /\ ~Conf[a].dryRun /\ Tidy(a) => Tidy(a)'
      PROVE  Tidying(a)'
  BY <1>f, <1>t DEF Tidying, Looking, Throttling
<1>1. CASE Batch(a)
  <2>0. UNCHANGED <<topicThr, brokerThr>> /\ pc[a] = "batch"
    BY <1>d, <1>1 DEF Batch
  <2>1. CASE run[a].todo = {}
    <3>1. pc'[a] = "leaders" /\ run' = run
      BY <1>a, <1>1, <2>1 DEF Batch, Go
    <3> QED BY <1>b, <1>g, <1>t, <2>0, <3>1 DEF Tidy, Removing, Throttling
  <2>2. CASE run[a].todo # {}
    <3>1. PICK todo :
            Set(a, [run[a] EXCEPT !.batch = NextBatch(a), !.todo = todo,
                      !.ownTopic = FALSE, !.ownBrokers = {}, !.queue = {}])
      BY <1>1, <2>2 DEF Batch
    <3>2. run'[a].cleaned = run[a].cleaned
      BY <1>a, <3>1 DEF Set, RunType
    <3>3. pc'[a] \in {"assign", "throttleTopic"}
      BY <1>a, <1>1, <2>2 DEF Batch, Go
    <3>4. Tidy(a) => Tidy(a)'
      BY <1>b, <2>0, <3>3 DEF Tidy, Clear, Removing, Throttling
    <3> QED BY <1>g, <1>t, <2>0, <3>2, <3>3, <3>4 DEF Throttling
  <2> QED BY <2>1, <2>2
<1>2. CASE ThrottleTopic(a)
  <2> DEFINE by == ThrottledBy(run[a].view, run[a].desired, run[a].batch)
             thr == [leader |-> LeaderThrottles(run[a].view, run[a].desired, run[a].batch),
                     follower |-> FollowerThrottles(run[a].view, run[a].desired, run[a].batch)]
  <2>1. /\ topicThr' = [topicThr EXCEPT ![Topic(a)] = thr]
        /\ Set(a, [run[a] EXCEPT !.ownTopic = TRUE, !.queue = by])
        /\ pc[a] = "throttleTopic" /\ pc'[a] = "throttleBrokers" /\ brokerThr' = brokerThr
    BY <1>a, <1>2 DEF ThrottleTopic, WriteTopicThrottle, Go
  <2> HIDE DEF by, thr
  <2>2. run'[a].cleaned = run[a].cleaned /\ run'[a].ownTopic
    BY <1>a, <2>1 DEF Set, RunType
  <2>3. \A t \in Topics \ {Topic(a)} : topicThr'[t] = Unthrottled
    BY <2>1, OthersBare
  <2>4. Leftovers' = Leftovers
    BY <2>1 DEF Leftovers, BrokerThrottled
  <2>5. Tidy(a) => Tidy(a)'
    BY <2>1, <2>2, <2>4 DEF Tidy, Clear, Removing, Throttling
  <2> QED BY <1>t, <2>1, <2>2, <2>3, <2>5 DEF Throttling
<1>3. CASE ThrottleBroker(a)
  <2>1. PICK b \in run[a].queue :
           /\ b \in Brokers
           /\ run'[a].ownTopic = run[a].ownTopic /\ run'[a].cleaned = run[a].cleaned
           /\ run'[a].ownBrokers =
                 IF BrokerMode \/ Nobody \in {brokerThr[b][k] : k \in Keys}
                 THEN run[a].ownBrokers \cup {b} ELSE run[a].ownBrokers
           /\ pc'[a] = IF run[a].queue = {b} THEN "assign" ELSE "throttleBrokers"
           /\ \A c \in Brokers \ {b} : brokerThr'[c] = brokerThr[c]
    BY <1>3, ThrottleBrokerDoes
  <2>2. topicThr' = topicThr /\ pc[a] = "throttleBrokers"
    BY <1>3 DEF ThrottleBroker
  <2>3. Leftovers' \subseteq Leftovers \cup {b}
    BY <2>1 DEF Leftovers, BrokerThrottled
  <2>4. Nobody \in {brokerThr[b][k] : k \in Keys} \/ b \in Leftovers
    BY <2>1 DEF Leftovers, BrokerThrottled, NoKeys, Keys
  <2>5. Leftovers \subseteq run[a].ownBrokers => Leftovers' \subseteq run'[a].ownBrokers
    BY <2>1, <2>3, <2>4
  <2>6. Bare(a)' = Bare(a)
    BY <2>2, <1>f DEF Bare
  <2>7. Tidy(a) => Tidy(a)'
    BY <2>1, <2>2, <2>5, <2>6 DEF Tidy, Removing, Throttling
  <2> QED BY <1>g, <1>t, <2>1, <2>2, <2>7 DEF Throttling
<1>4. CASE Assign(a)
  <2>1. CASE Abort(a)
    BY <1>c, <2>1
  <2>2. CASE ~Abort(a)
    <3>1. pc[a] = "assign" /\ pc'[a] = "poll" /\ UNCHANGED <<topicThr, brokerThr, run>>
      BY <1>a, <1>4, <2>2 DEF Assign, Go
    <3>2. Tidy(a) => Tidy(a)'
      BY <1>b, <3>1 DEF Tidy, Removing, Throttling
    <3> QED BY <1>g, <1>t, <3>1, <3>2 DEF Throttling
  <2> QED BY <2>1, <2>2
<1>5. CASE Poll(a)
  <2>1. /\ run'[a].queue = run[a].ownBrokers /\ run'[a].cleaned = run[a].cleaned
        /\ pc[a] = "poll" /\ UNCHANGED <<topicThr, brokerThr>>
        /\ pc'[a] = IF run[a].ownTopic THEN "unthrottleTopic" ELSE "unthrottleBrokers"
    BY <1>a, <1>d, <1>5 DEF Poll, Set, Go, RunType
  <2>2. Tidy(a) => Tidy(a)'
    BY <1>b, <2>1 DEF Tidy, Removing, Throttling
  <2> QED BY <1>g, <1>t, <2>1, <2>2 DEF Throttling
<1>6. CASE UnthrottleTopic(a)
  <2>1. /\ topicThr' = [topicThr EXCEPT ![Topic(a)] = Unthrottled]
        /\ pc[a] = "unthrottleTopic" /\ pc'[a] = "unthrottleBrokers"
        /\ UNCHANGED <<brokerThr, run>>
    BY <1>a, <1>6 DEF UnthrottleTopic, WriteTopicThrottle, Go
  <2>2. Bare(a)' /\ \A t \in Topics \ {Topic(a)} : topicThr'[t] = Unthrottled
    BY <1>f, <2>1, OthersBare DEF Bare
  <2>3. Leftovers' = Leftovers
    BY <2>1 DEF Leftovers, BrokerThrottled
  <2>4. Tidy(a) => Tidy(a)'
    BY <2>1, <2>2, <2>3 DEF Tidy, Removing, Throttling
  <2> QED BY <1>t, <2>1, <2>2, <2>4 DEF Throttling
<1>7. CASE UnthrottleBroker(a)
  <2>1. PICK b \in run[a].queue :
           /\ brokerThr' = [brokerThr EXCEPT ![b] = NoKeys]
           /\ Set(a, [run[a] EXCEPT !.queue = @ \ {b}])
    BY <1>7 DEF UnthrottleBroker, LeastOf
  <2>2. /\ run'[a].queue = run[a].queue \ {b} /\ run'[a].cleaned = run[a].cleaned
        /\ run'[a].failed = run[a].failed
    BY <1>a, <2>1 DEF Set, RunType
  <2>3. /\ pc[a] \in {"clearBrokers", "unthrottleBrokers"} /\ pc'[a] = pc[a]
        /\ topicThr' = topicThr
    BY <1>7 DEF UnthrottleBroker
  <2>4. Leftovers' \subseteq Leftovers \ {b}
    BY <1>a, <2>1 DEF Leftovers, BrokerThrottled, TypeInv, StoreTypeOK, RunType
  <2>5. Bare(a)' = Bare(a)
    BY <1>f, <2>3 DEF Bare
  <2>6. Tidy(a) => Tidy(a)'
    BY <2>2, <2>3, <2>4, <2>5 DEF Tidy, Removing, Throttling
  <2> QED BY <1>g, <1>t, <2>2, <2>3, <2>6 DEF Throttling
<1>8. CASE UnthrottleFault(a)
  <2>1. UNCHANGED <<topicThr, brokerThr>>
    BY <1>8 DEF UnthrottleFault, clusterVars
  <2>2. \/ pc[a] = "unthrottleTopic" /\ pc'[a] = "unthrottleBrokers"
        \/ pc[a] \in {"clearBrokers", "unthrottleBrokers"} /\ pc'[a] = pc[a]
    BY <1>a, <1>8 DEF UnthrottleFault, Go
  <2>3. run'[a].failed /\ run'[a].cleaned = run[a].cleaned
    <3>1. CASE Set(a, [run[a] EXCEPT !.failed = TRUE])
      BY <1>a, <3>1 DEF Set, RunType
    <3>2. ASSUME NEW b, Set(a, [run[a] EXCEPT !.failed = TRUE, !.queue = @ \ {b}])
          PROVE  run'[a].failed /\ run'[a].cleaned = run[a].cleaned
      BY <1>a, <3>2 DEF Set, RunType
    <3> QED BY <1>8, <3>1, <3>2 DEF UnthrottleFault
  <2>4. Tidy(a) => Tidy(a)'
    BY <1>b, <2>1, <2>2, <2>3 DEF Tidy, Removing, Throttling
  <2> QED BY <1>g, <1>t, <2>1, <2>2, <2>3, <2>4 DEF Throttling
<1>9. CASE UnthrottleDone(a)
  <2>1. CASE Abort(a)
    BY <1>c, <2>1
  <2>2. CASE ~Abort(a)
    <3>1. /\ pc[a] \in {"clearBrokers", "unthrottleBrokers"} /\ run[a].queue = {}
          /\ ~run[a].failed /\ pc'[a] \in {"settings", "askNext"}
          /\ UNCHANGED <<topicThr, brokerThr, run>>
      BY <1>a, <1>d, <1>9, <2>2 DEF UnthrottleDone, Go
    <3>2. Tidy(a) => Tidy(a)'
      BY <1>b, <3>1 DEF Tidy, Clear, Removing, Throttling
    <3> QED BY <1>g, <1>t, <3>1, <3>2
  <2> QED BY <2>1, <2>2
<1> QED BY <1>1, <1>2, <1>3, <1>4, <1>5, <1>6, <1>7, <1>8, <1>9 DEF RoundStep

\* A run that changes something reports success from the leader checks only.
LEMMA SuccessIsLast ==
    ASSUME TypeInv, NEW a \in Appliers, RunStep(a), Succeeds(a)
    PROVE  pc[a] \in {"leaders", "pollElect"} /\ UNCHANGED clusterVars
<1>a. pc \in [Appliers -> Pcs]
  BY DEF TypeInv, LockInv, ControlTypeOK
<1> USE <1>a DEF Succeeds, Go, Stop, Abort, Outcome
<1>1. CASE CheckStep(a)
  BY <1>1 DEF CheckStep, Lookup, AskCreate, CreateTopic, Settle, LockCheck, AskClearTopic,
     ClearTopic, ListTopics, AskClearBrokers, Ask, AfterTopicThrottles
<1>2. CASE UpdateStep(a)
  BY <1>2 DEF UpdateStep, Settings, AskSettings, WriteSettings, Counts, ReadPartitions,
     AskAdd, AddPartitions, PollAdd, Ask
<1>3. CASE MoveStep(a)
  BY <1>3 DEF MoveStep, Placement, AskWarn, ReadPlacement, Balance, AskRun, Batch,
     ThrottleTopic, ThrottleBroker, Assign, Poll, UnthrottleTopic, UnthrottleBroker,
     UnthrottleDone, AskNext, Ask, Propose
<1>4. CASE LeaderStep(a)
  BY <1>4 DEF LeaderStep, Leaders, LeadersChecked, AskElect, Elect, PollElect, Ask, ReadOnly
<1>5. CASE LockStep(a) \/ FaultStep(a) \/ Start(a) \/ SessionExpires(a)
  BY <1>5 DEF LockStep, Acquire, AfterLock, LockTimeout, FaultStep, UnthrottleFault, Fail,
     Crash, Start, SessionExpires, Waiting
<1> QED BY <1>1, <1>2, <1>3, <1>4, <1>5 DEF RunStep, Step

\* Without other runs, refused prompts and throttles on other topics, a run that
\* examined the throttles and reports success leaves none, whatever those it
\* found, however its own rounds shared brokers with them and whichever runs
\* were broken off before.
THEOREM TidySafety ==
    ASSUME Alone, \A a \in Appliers : Conf[a].skipConfirm,
           \A c \in InitialClusters : \A a \in Appliers : \A t \in Topics \ {Topic(a)} :
              c.topicThr[t] = Unthrottled
    PROVE  Spec => SuccessUnthrottles
<1>1. Init => \A a \in Appliers : Tidying(a)
  BY DEF Init, Tidying, Looking, NoRun
<1>2. TypeInv /\ (\A a \in Appliers : Tidying(a)) /\ [Next]_vars
         => (\A a \in Appliers : Tidying(a))'
  <2> SUFFICES ASSUME TypeInv, \A a \in Appliers : Tidying(a), [Next]_vars,
                      NEW a \in Appliers
               PROVE  Tidying(a)'
    OBVIOUS
  <2>1. ASSUME NEW b \in Appliers, RunStep(b) PROVE Tidying(a)'
    BY <2>1, OthersCalm, CalmTidies, CleaningTidies, RoundTidies DEF Alone
  <2>2. CASE ControllerStep \/ Rest \/ UNCHANGED vars
    <3>1. UNCHANGED <<topicThr, brokerThr, pc, run>>
      BY <2>2 DEF ControllerStep, Controller, ControllerCreates, ControllerExpands,
         ControllerFinishes, ControllerElects, OnlyParts, Rest, vars, clusterVars
    <3> QED BY <3>1 DEF Tidying, Tidy, Clear, Bare, Leftovers, BrokerThrottled,
           TopicThrottled, Topic
  <2> QED BY <2>1, <2>2 DEF Next, RunStep
<1>3. TypeInv /\ (\A a \in Appliers : Tidying(a)) /\ [Next]_vars
         => [\A a \in Appliers : Succeeds(a) /\ run[a].cleaned =>
                /\ topicThr'[Topic(a)] = Unthrottled
                /\ \A b \in Brokers : brokerThr'[b] = NoKeys]_vars
  <2> SUFFICES ASSUME TypeInv, \A a \in Appliers : Tidying(a), [Next]_vars,
                      NEW a \in Appliers, Succeeds(a), run[a].cleaned
               PROVE  /\ topicThr'[Topic(a)] = Unthrottled
                      /\ \A b \in Brokers : brokerThr'[b] = NoKeys
    OBVIOUS
  <2>1. Moves(a)
    BY DEF Succeeds, Moves
  <2>2. RunStep(a)
    BY <2>1, OtherStepsMoveNone DEF Next, RunStep, Alone
  <2>3. pc[a] \in {"leaders", "pollElect"} /\ UNCHANGED <<topicThr, brokerThr>>
    BY <2>2, SuccessIsLast DEF clusterVars
  <2>4. Clear(a)
    BY <2>3 DEF Tidying, Tidy, Removing, Throttling, Succeeds
  <2> QED BY <2>3, <2>4 DEF Clear, Bare, Leftovers, BrokerThrottled
<1>4. Spec => []TypeInv
  BY TypeInvariant
<1> QED BY <1>1, <1>2, <1>3, <1>4, PTL DEF Spec, SuccessUnthrottles

(***************************************************************************)
(* A run on its own, when all was well with the partitions at first: what  *)
(* it knows of its topic, of the moves it asked for and of what is left to *)
(* do, up to the checks that end in success.                               *)
(***************************************************************************)
\* a read returns all of the topic
Whole(a) == BrokerMode \/ Up(Topic(a)) = DOMAIN parts[Topic(a)]
Sized(a) == Len(parts[Topic(a)]) = Conf[a].partitions
Numbered(a) == \A i \in DOMAIN parts[Topic(a)] : parts[Topic(a)][i].id = i

\* the strategy is that of the whole topic, and no part of it satisfies it
Fixed(a) == ~Conf[a].anyPlacement /\ \A d \in Conf[a].placements : Len(d) = Conf[a].partitions

\* the topic was there before the first run
Founded(a) == \A c \in InitialClusters : c.parts[Topic(a)] # <<>>

\* a partition is in sync, not up yet, or on the move
Tracked(a) ==
    \A i \in DOMAIN parts[Topic(a)] :
       \/ InSync(parts[Topic(a)][i]) \/ parts[Topic(a)][i].isr = {}
       \/ \E m \in reassign : m.topic = Topic(a) /\ m.id = i
Stored(a) ==
    /\ Tracked(a)
    /\ ~Whole(a) => Len(parts[Topic(a)]) <= Conf[a].partitions
    /\ Founded(a) => parts[Topic(a)] # <<>>

Checking == {"lockCheck", "askClearTopic", "clearTopic", "listTopics", "askClearBrokers",
             "clearBrokers", "settings", "askSettings", "writeSettings"}
Evaluating == {"placement", "lockPlacement", "askWarn", "readPlacement"}
Rounding == {"askRun", "batch", "throttleTopic", "throttleBrokers", "assign", "poll",
             "unthrottleTopic", "unthrottleBrokers", "askNext"}
Leading == {"leaders", "lockLeaders", "askElect", "elect", "pollElect"}

\* when a read returned enough partitions, it returned all
Measured(a) ==
    Len(run[a].view) >= Conf[a].partitions =>
       Len(run[a].view) = Len(parts[Topic(a)]) /\ Whole(a)

\* what is known when partitions k + 1 to the wanted number are to be added
Extending(a, k) ==
    /\ Len(run[a].desired) = Conf[a].partitions
    /\ run[a].batch = k + 1 .. Conf[a].partitions
    /\ k <= Len(parts[Topic(a)])
    /\ BrokerMode \/ k = Conf[a].partitions => k = Len(parts[Topic(a)]) /\ Whole(a)

Counted(a) ==
    /\ pc[a] \in Checking \cup {"counts"} => Measured(a)
    /\ pc[a] \in {"askAdd", "addPartitions"} => \E k \in 0..Conf[a].partitions : Extending(a, k)
    /\ pc[a] = "pollAdd" => Sized(a) /\ (Whole(a) \/ Conf[a].partitions \in run[a].batch)
    /\ pc[a] \in {"settle"} \cup Evaluating => Sized(a) /\ (Whole(a) \/ Fixed(a))
    /\ pc[a] \in Rounding \cup Leading \cup {"balance"} => Sized(a) /\ Whole(a) /\ Numbered(a)

Retained(a) ==
    /\ pc[a] \in Checking => run[a].retention = retention[Topic(a)]
    /\ pc[a] \notin Checking \cup {"idle", "lookup", "askCreate", "create", "settle"} \cup Ended
         /\ phase[a] # "new" => Stepped(a, run[a].retention, retention[Topic(a)])

\* a move that has nothing left to do
Met(a, m) ==
    /\ m.topic = Topic(a) /\ m.id \in DOMAIN parts[Topic(a)]
    /\ Assigned(parts[Topic(a)][m.id]) = [pref |-> m.pref, reps |-> m.reps]
    /\ InSync(parts[Topic(a)][m.id])
\* one that this round asked for
Asked(a, m) ==
    /\ m.topic = Topic(a) /\ m.id \in run[a].batch /\ m.id \in DOMAIN run[a].desired
    /\ run[a].desired[m.id] = [pref |-> m.pref, reps |-> m.reps]
MovesMet(a) ==
    \A m \in reassign :
       IF pc[a] = "poll" /\ m.id \in run[a].batch THEN Asked(a, m) ELSE Met(a, m)

Left(a) ==
    CASE pc[a] = "askRun" -> ToUpdate(run[a].view, run[a].desired)
      [] pc[a] \in {"batch", "unthrottleTopic", "unthrottleBrokers", "askNext"} -> run[a].todo
      [] OTHER -> run[a].todo \cup run[a].batch
Aimed(a) ==
    /\ Conf[a].anyPlacement \/ run[a].desired \in Conf[a].placements
    /\ DOMAIN run[a].desired = DOMAIN parts[Topic(a)]
    /\ \A i \in DOMAIN parts[Topic(a)] \ Left(a) :
          Assigned(parts[Topic(a)][i]) = run[a].desired[i]

Converging(a) ==
    run[a].quiet =>
       /\ MovesMet(a)
       /\ pc[a] \in Rounding => Aimed(a)
       /\ pc[a] \in Leading \cup {"balance"} => Satisfies(a, parts[Topic(a)])
       /\ pc[a] \in Leading \ {"leaders"} => WrongLeaders(parts[Topic(a)]) \subseteq run[a].batch

\* A complete read is all of the topic, any other is shorter.
LEMMA WholeViews ==
    ASSUME TypeInv, ~FlakyReads, NEW a \in Appliers, NEW v \in Views(Topic(a))
    PROVE  /\ v \in Seq(Partition) /\ Len(v) \in Nat /\ Len(parts[Topic(a)]) \in Nat
           /\ Whole(a) => v = parts[Topic(a)]
           /\ ~Whole(a) => Len(v) < Len(parts[Topic(a)])
<1> DEFINE all == parts[Topic(a)]
           up == Up(Topic(a))
<1>1. all \in Seq(Partition) /\ Len(all) \in Nat /\ DOMAIN all = 1..Len(all)
  BY RunFacts, SeqUsed DEF TypeInv, StoreTypeOK
<1>2. v \in Seq(Partition) /\ Len(v) \in Nat
  BY RunFacts, ViewsType, SeqUsed DEF TypeInv
<1>3. Whole(a) => v = all
  BY DEF Whole, Views
<1>4. ASSUME ~Whole(a) PROVE Len(v) < Len(all)
  <2>1. v \in Partial(all, up) /\ up \subseteq DOMAIN all /\ up # DOMAIN all
    BY <1>4 DEF Whole, Views, Up
  <2>2. IsFiniteSet(1..Len(all)) /\ Cardinality(1..Len(all)) = Len(all)
    BY <1>1, FS_Interval
  <2> HIDE DEF up, all
  <2>3. IsFiniteSet(up) /\ Cardinality(up) <= Len(all) /\ Cardinality(up) # Len(all)
    BY <1>1, <2>1, <2>2, FS_Subset
  <2>4. Cardinality(up) \in Nat
    BY <2>3, FS_CardinalityType
  <2>5. PICK n \in 0..Cardinality(up) : \E f \in [1..n -> up] : v = [i \in 1..n |-> all[f[i]]]
    BY <2>1 DEF Partial
  <2>6. DOMAIN v = 1..n /\ n \in Nat
    BY <2>4, <2>5
  <2>7. Len(v) = n
    BY <1>2, <2>6, LenProperties
  <2> QED BY <1>1, <2>3, <2>4, <2>5, <2>7
<1> QED BY <1>1, <1>2, <1>3, <1>4

(***************************************************************************)
(* The controller, one partition of the topic at a time.                   *)
(***************************************************************************)
Same(p, q) == q.id = p.id /\ q.pref = p.pref /\ q.reps = p.reps
ComesUp(p, q) == Same(p, q) /\ p.isr = {} /\ q.isr = p.reps /\ q.leader = p.leader
Elected(p, q) == Same(p, q) /\ q.isr = p.isr /\ q.leader = p.pref
Spreads(a, i, p, q) ==
    /\ q.id = p.id /\ q.isr = p.isr
    /\ \E m \in reassign : /\ m.topic = Topic(a) /\ m.id = i /\ m \in reassign'
                           /\ p.reps # p.reps \cup m.reps
Finishes(a, i, p, q) ==
    \E m \in reassign :
       /\ m.topic = Topic(a) /\ m.id = i
       /\ q.id = i /\ q.pref = m.pref /\ q.reps = m.reps /\ q.isr = m.reps
       /\ q.leader = IF p.leader \in m.reps THEN p.leader ELSE m.pref
Controlled(a, i, p, q) ==
    q = p \/ ComesUp(p, q) \/ Elected(p, q) \/ Spreads(a, i, p, q) \/ Finishes(a, i, p, q)

Serves(a) ==
    /\ DOMAIN parts'[Topic(a)] = DOMAIN parts[Topic(a)]
    /\ Len(parts'[Topic(a)]) = Len(parts[Topic(a)])
    /\ \A i \in DOMAIN parts[Topic(a)] :
          Controlled(a, i, parts[Topic(a)][i], parts'[Topic(a)][i])
    /\ reassign' \subseteq reassign
    /\ \A m \in reassign \ reassign' :
          m.topic = Topic(a) /\ m.id \in DOMAIN parts[Topic(a)]
             => InSync(parts'[Topic(a)][m.id])
    /\ UNCHANGED <<retention, pc, phase, run>>

\* Replacing one element of a list keeps the others and the length.
LEMMA PutKeeps ==
    ASSUME NEW S, NEW s \in Seq(S), NEW i, NEW p, NEW u, u = [s EXCEPT ![i] = p], u \in Seq(S)
    PROVE  /\ DOMAIN u = DOMAIN s /\ Len(u) = Len(s)
           /\ \A j \in DOMAIN s : u[j] = IF j = i THEN p ELSE s[j]
<1>1. DOMAIN u = DOMAIN s /\ \A j \in DOMAIN s : u[j] = IF j = i THEN p ELSE s[j]
  OBVIOUS
<1> QED BY <1>1, LenProperties, SeqUsed

\* A step of the controller does one of these to each partition.
LEMMA ControllerServes ==
    ASSUME TypeInv, NEW a \in Appliers, ControllerStep
    PROVE  Serves(a)
<1> DEFINE T == Topic(a)
<1>1. parts \in [Topics -> Seq(Partition)] /\ reassign \subseteq Move /\ T \in Topics
      /\ parts'[T] \in Seq(Partition)
  BY RunFacts, ControllerTypes DEF TypeInv, StoreTypeOK
<1>2. parts[T] \in Seq(Partition) /\ \A i \in DOMAIN parts[T] : parts[T][i] \in Partition
  BY <1>1, SeqUsed
<1>3. UNCHANGED <<retention, pc, phase, run>>
  BY DEF ControllerStep, Controller, ControllerCreates, ControllerExpands,
     ControllerFinishes, ControllerElects, OnlyParts
<1>4. ASSUME UNCHANGED reassign, parts'[T] = parts[T] PROVE Serves(a)
  BY <1>3, <1>4 DEF Serves, Controlled
<1>5. ASSUME NEW t \in Topics, ControllerCreates(t) PROVE Serves(a)
  <2>1. PICK i \in DOMAIN parts[t] \ Up(t) :
           parts' = [parts EXCEPT ![t][i].isr = parts[t][i].reps] /\ UNCHANGED reassign
    BY <1>5 DEF ControllerCreates, OnlyParts
  <2>2. CASE t # T
    BY <1>1, <1>4, <2>1, <2>2
  <2>3. CASE t = T
    <3> DEFINE p == [parts[T][i] EXCEPT !.isr = parts[T][i].reps]
    <3>1. ComesUp(parts[T][i], p)
      BY <1>2, <2>1, <2>3 DEF ComesUp, Same, Up, Partition
    <3>2. parts'[T] = [parts[T] EXCEPT ![i] = p]
      BY <1>1, <2>1, <2>3
    <3> HIDE DEF p
    <3>3. /\ DOMAIN parts'[T] = DOMAIN parts[T] /\ Len(parts'[T]) = Len(parts[T])
          /\ \A j \in DOMAIN parts[T] : parts'[T][j] = IF j = i THEN p ELSE parts[T][j]
      BY <1>1, <1>2, <3>2, PutKeeps
    <3> QED BY <1>3, <2>1, <3>1, <3>3 DEF Serves, Controlled
  <2> QED BY <2>2, <2>3
<1>6. ASSUME NEW m \in reassign, ControllerExpands(m) PROVE Serves(a)
  <2> DEFINE old == parts[m.topic][m.id]
  <2>1. PICK first \in {old.pref, m.pref} :
           /\ parts' = [parts EXCEPT ![m.topic][m.id] =
                          [old EXCEPT !.reps = old.reps \cup m.reps, !.pref = first]]
           /\ UNCHANGED reassign /\ old.reps # old.reps \cup m.reps
    BY <1>6 DEF ControllerExpands, OnlyParts
  <2>2. CASE m.topic # T
    BY <1>1, <1>4, <2>1, <2>2
  <2>3. CASE m.topic = T
    <3> DEFINE p == [old EXCEPT !.reps = old.reps \cup m.reps, !.pref = first]
    <3>1. m.id \in DOMAIN parts[T] => Spreads(a, m.id, parts[T][m.id], p)
      BY <1>2, <2>1, <2>3 DEF Spreads, Partition
    <3>2. parts'[T] = [parts[T] EXCEPT ![m.id] = p]
      BY <1>1, <2>1, <2>3
    <3> HIDE DEF p
    <3> QED BY <1>1, <1>2, <1>3, <2>1, <3>1, <3>2, PutKeeps DEF Serves, Controlled
  <2> QED BY <2>2, <2>3
<1>7. ASSUME NEW m \in reassign, ControllerFinishes(m) PROVE Serves(a)
  <2> DEFINE old == parts[m.topic][m.id]
             p == [id |-> m.id, pref |-> m.pref, reps |-> m.reps, isr |-> m.reps,
                   leader |-> IF old.leader \in m.reps THEN old.leader ELSE m.pref]
  <2>1. parts' = [parts EXCEPT ![m.topic][m.id] = p] /\ reassign' = reassign \ {m}
    BY <1>7 DEF ControllerFinishes, OnlyParts
  <2>2. CASE m.topic # T
    <3>1. parts'[T] = parts[T]
      BY <1>1, <2>1, <2>2
    <3> HIDE DEF p
    <3> QED BY <1>3, <2>1, <2>2, <3>1 DEF Serves, Controlled
  <2>3. CASE m.topic = T
    <3>1. m.id \in DOMAIN parts[T] => Finishes(a, m.id, parts[T][m.id], p)
      BY <1>2, <2>1, <2>3 DEF Finishes
    <3>2. parts'[T] = [parts[T] EXCEPT ![m.id] = p] /\ InSync(p)
      BY <1>1, <2>1, <2>3 DEF InSync
    <3> HIDE DEF p
    <3> QED BY <1>1, <1>2, <1>3, <2>1, <3>1, <3>2, PutKeeps DEF Serves, Controlled
  <2> QED BY <2>2, <2>3
<1>8. CASE ControllerElects
  <2> DEFINE u == [i \in DOMAIN parts[T] |->
          IF <<T, i>> \in election /\ parts[T][i].pref \in parts[T][i].isr
          THEN [parts[T][i] EXCEPT !.leader = parts[T][i].pref]
          ELSE parts[T][i]]
  <2>1. parts'[T] = u /\ UNCHANGED reassign
    BY <1>1, <1>8 DEF ControllerElects, OnlyParts
  <2>2. \A i \in DOMAIN parts[T] : u[i] = parts[T][i] \/ Elected(parts[T][i], u[i])
    BY <1>2 DEF Elected, Same, Partition
  <2>3. DOMAIN u = DOMAIN parts[T]
    OBVIOUS
  <2> HIDE DEF u
  <2>4. Len(u) = Len(parts[T])
    BY <1>1, <1>2, <2>1, <2>3, LenProperties, SeqUsed
  <2> QED BY <1>3, <2>1, <2>2, <2>3, <2>4 DEF Serves, Controlled
<1> QED BY <1>1, <1>5, <1>6, <1>7, <1>8 DEF ControllerStep, Controller, Move

\* What is there stays as assigned, in sync and rightly led, when all moves of it are met.
LEMMA MetStays ==
    ASSUME TypeInv, NEW a \in Appliers, Serves(a), NEW i \in DOMAIN parts[Topic(a)],
           \A m \in reassign : m.topic = Topic(a) /\ m.id = i => Met(a, m)
    PROVE  LET p == parts[Topic(a)][i]
               q == parts'[Topic(a)][i]
           IN  /\ Assigned(q) = Assigned(p)
               /\ InSync(p) => InSync(q)
               /\ p.isr # {} /\ p.leader = p.pref => q.isr # {} /\ q.leader = q.pref
               /\ Numbered(a) => q.id = p.id
<1> DEFINE p == parts[Topic(a)][i]
           q == parts'[Topic(a)][i]
<1>1. p \in Partition
  BY RunFacts, SeqUsed DEF TypeInv, StoreTypeOK
<1>2. p.reps # {} /\ p.pref \in p.reps
  BY <1>1 DEF Partition
<1>3. Controlled(a, i, p, q)
  BY DEF Serves
<1>4. Numbered(a) => p.id = i
  BY DEF Numbered
<1>5. \A m \in reassign : m.topic = Topic(a) /\ m.id = i =>
         m.pref = p.pref /\ m.reps = p.reps /\ p.isr = p.reps
  BY DEF Met, Assigned, InSync
<1> HIDE DEF p, q
<1>6. CASE q = p \/ ComesUp(p, q) \/ Elected(p, q)
  BY <1>2, <1>6 DEF ComesUp, Elected, Same, Assigned, InSync, p, q
<1>7. CASE Spreads(a, i, p, q)
  BY <1>5, <1>7 DEF Spreads
<1>8. CASE Finishes(a, i, p, q)
  <2>1. /\ q.id = i /\ q.pref = p.pref /\ q.reps = p.reps /\ q.isr = p.reps /\ p.isr = p.reps
        /\ q.leader = IF p.leader \in p.reps THEN p.leader ELSE p.pref
    BY <1>5, <1>8 DEF Finishes
  <2> QED BY <1>2, <1>4, <2>1 DEF Assigned, InSync, p, q
<1> QED BY <1>3, <1>6, <1>7, <1>8 DEF Controlled

\* The controller leaves nothing worse than it finds it.
LEMMA ServesStored ==
    ASSUME TypeInv, NEW a \in Appliers, Serves(a)
    PROVE  /\ Stored(a) => Stored(a)'
           /\ Whole(a) => Whole(a)'
           /\ Numbered(a) => Numbered(a)'
           /\ UNCHANGED Len(parts[Topic(a)])
<1> DEFINE P == parts[Topic(a)]
           Q == parts'[Topic(a)]
<1>1. /\ Q = parts[Topic(a)]' /\ DOMAIN Q = DOMAIN P /\ Len(Q) = Len(P)
      /\ \A i \in DOMAIN P : Controlled(a, i, P[i], Q[i])
  BY DEF Serves, Topic
<1>2. P \in Seq(Partition) /\ \A i \in DOMAIN P : P[i] \in Partition
  BY RunFacts, SeqUsed DEF TypeInv, StoreTypeOK
<1>3. \A m \in reassign : m.reps # {}
  BY DEF TypeInv, StoreTypeOK, Move
<1>4. \A i \in DOMAIN P : P[i].isr # {} => Q[i].isr # {}
  <2> SUFFICES ASSUME NEW i \in DOMAIN P, P[i].isr # {} PROVE Q[i].isr # {}
    OBVIOUS
  <2>1. Controlled(a, i, P[i], Q[i])
    BY <1>1
  <2> HIDE DEF P, Q
  <2> QED BY <1>3, <2>1 DEF Controlled, ComesUp, Elected, Same, Spreads, Finishes
<1>5. Whole(a) => Whole(a)'
  BY <1>1, <1>4 DEF Whole, Up
<1>6. Numbered(a) => Numbered(a)'
  <2> SUFFICES ASSUME Numbered(a), NEW i \in DOMAIN P PROVE Q[i].id = i
    BY <1>1 DEF Numbered
  <2>1. Controlled(a, i, P[i], Q[i]) /\ P[i].id = i
    BY <1>1 DEF Numbered
  <2> HIDE DEF P, Q
  <2> QED BY <2>1 DEF Controlled, ComesUp, Elected, Same, Spreads, Finishes
<1>7. Tracked(a) => Tracked(a)'
  <2> SUFFICES ASSUME Tracked(a), NEW i \in DOMAIN P
               PROVE  \/ InSync(Q[i]) \/ Q[i].isr = {}
                      \/ \E m \in reassign' : m.topic = Topic(a) /\ m.id = i
    BY <1>1 DEF Tracked, Topic
  <2>1. Controlled(a, i, P[i], Q[i])
    BY <1>1
  <2>2. \/ InSync(P[i]) \/ P[i].isr = {}
        \/ \E m \in reassign : m.topic = Topic(a) /\ m.id = i
    BY DEF Tracked
  <2>3. \A m \in reassign : m.topic = Topic(a) /\ m.id = i => m \in reassign' \/ InSync(Q[i])
    BY DEF Serves
  <2> HIDE DEF P, Q
  <2> QED BY <2>1, <2>2, <2>3 DEF Controlled, ComesUp, Elected, Same, Spreads, Finishes, InSync
<1>8. UNCHANGED Len(parts[Topic(a)])
  BY <1>1
<1>9. Founded(a)' = Founded(a)
  BY DEF Founded, Topic
<1>10. (parts[Topic(a)] # <<>>) => (parts[Topic(a)] # <<>>)'
  BY <1>1, <1>2
<1> QED BY <1>5, <1>6, <1>7, <1>8, <1>9, <1>10 DEF Stored

\* What a run knows of its topic it knows after the controller's step.
LEMMA ServesCounted ==
    ASSUME TypeInv, NEW a \in Appliers, Serves(a), Counted(a), Retained(a)
    PROVE  Counted(a)' /\ Retained(a)'
<1>1. UNCHANGED <<retention, pc, phase, run>>
  BY DEF Serves
<1>2. /\ Whole(a) => Whole(a)'
      /\ Numbered(a) => Numbered(a)'
      /\ parts[Topic(a)]' = parts'[Topic(a)]
      /\ Len(parts'[Topic(a)]) = Len(parts[Topic(a)])
  BY ServesStored DEF Serves, Topic
<1>3. Measured(a) => Measured(a)'
  BY <1>1, <1>2 DEF Measured
<1>4. \A k : Extending(a, k) => Extending(a, k)'
  BY <1>1, <1>2 DEF Extending
<1>5. (Sized(a) => Sized(a)') /\ Fixed(a)' = Fixed(a)
  BY <1>2 DEF Sized, Fixed
<1>6. Counted(a)'
  BY <1>1, <1>2, <1>3, <1>4, <1>5 DEF Counted
<1>7. Retained(a)'
  BY <1>1 DEF Retained, Stepped, Topic
<1> QED BY <1>6, <1>7

\* And what it has done and is about to do.
LEMMA ServesConverging ==
    ASSUME TypeInv, NEW a \in Appliers, Serves(a), Counted(a), Converging(a)
    PROVE  Converging(a)'
<1> SUFFICES ASSUME run'[a].quiet PROVE Converging(a)'
  BY DEF Converging
<1>1. UNCHANGED <<retention, pc, phase, run>> /\ reassign' \subseteq reassign
  BY DEF Serves
<1>2. run[a].quiet
  BY <1>1
<1>3. MovesMet(a)
  BY <1>2 DEF Converging
<1> DEFINE P == parts[Topic(a)]
           Q == parts'[Topic(a)]
           still == {i \in DOMAIN P : pc[a] = "poll" => i \notin run[a].batch}
<1>4. DOMAIN Q = DOMAIN P /\ Q = parts[Topic(a)]'
  BY DEF Serves, Topic
<1>5. \A i \in still :
         /\ Assigned(Q[i]) = Assigned(P[i])
         /\ InSync(P[i]) => InSync(Q[i])
         /\ P[i].isr # {} /\ P[i].leader = P[i].pref => Q[i].isr # {} /\ Q[i].leader = Q[i].pref
         /\ Numbered(a) => Q[i].id = P[i].id
  BY <1>3, MetStays DEF MovesMet
<1> HIDE DEF P, Q
<1>6. ASSUME NEW m \in reassign, Met(a, m), m.id \in still PROVE Met(a, m)'
  BY <1>4, <1>5, <1>6 DEF Met, Topic, P
<1>7. MovesMet(a)'
  <2> SUFFICES ASSUME NEW m \in reassign'
               PROVE  IF pc[a] = "poll" /\ m.id \in run[a].batch THEN Asked(a, m)' ELSE Met(a, m)'
    BY <1>1 DEF MovesMet
  <2>1. IF pc[a] = "poll" /\ m.id \in run[a].batch THEN Asked(a, m) ELSE Met(a, m)
    BY <1>1, <1>3 DEF MovesMet
  <2>2. Asked(a, m) => Asked(a, m)'
    BY <1>1 DEF Asked, Topic
  <2>3. CASE ~(pc[a] = "poll" /\ m.id \in run[a].batch)
    <3>1. m.id \in still
      BY <2>1, <2>3 DEF Met, P
    <3> QED BY <1>1, <1>6, <2>1, <2>3, <3>1
  <2> QED BY <2>1, <2>2, <2>3
<1>8. pc[a] \in Rounding => Aimed(a)'
  <2> SUFFICES ASSUME pc[a] \in Rounding PROVE Aimed(a)'
    OBVIOUS
  <2>1. Aimed(a) /\ Left(a)' = Left(a)
    BY <1>1, <1>2 DEF Converging, Left
  <2>2. \A i \in DOMAIN P \ Left(a) : i \in still
    BY DEF Left
  <2> QED BY <1>1, <1>4, <1>5, <2>1, <2>2 DEF Aimed, P
<1>9. pc[a] \in Leading \cup {"balance"} => Satisfies(a, parts[Topic(a)])'
  <2> SUFFICES ASSUME pc[a] \in Leading \cup {"balance"} PROVE Satisfies(a, Q)
    BY <1>4 DEF Satisfies, Lists
  <2>1. Satisfies(a, P)
    BY <1>2 DEF Converging, P
  <2>2. still = DOMAIN P
    BY DEF Leading
  <2>3. Lists(Q) = Lists(P)
    BY <1>4, <1>5, <2>2 DEF Lists
  <2> QED BY <2>1, <2>3 DEF Satisfies
<1>10. pc[a] \in Leading \ {"leaders"} => (WrongLeaders(parts[Topic(a)]) \subseteq run[a].batch)'
  <2> SUFFICES ASSUME pc[a] \in Leading \ {"leaders"} PROVE WrongLeaders(Q) \subseteq run[a].batch
    BY <1>1, <1>4
  <2>1. WrongLeaders(P) \subseteq run[a].batch /\ Numbered(a)
    BY <1>2 DEF Converging, Counted, P
  <2>2. still = DOMAIN P
    BY DEF Leading
  <2> HIDE DEF still
  <2>3. WrongLeaders(Q) \subseteq WrongLeaders(P)
    BY <1>4, <1>5, <2>1, <2>2 DEF WrongLeaders
  <2> QED BY <2>1, <2>3
<1> QED BY <1>1, <1>7, <1>8, <1>9, <1>10 DEF Converging

(***************************************************************************)
(* The steps of the run that only go on, or end.                           *)
(***************************************************************************)
KeepsFields(a) ==
    /\ run'[a].view = run[a].view /\ run'[a].desired = run[a].desired
    /\ run'[a].todo = run[a].todo /\ run'[a].batch = run[a].batch
    /\ run'[a].retention = run[a].retention /\ run'[a].quiet = run[a].quiet

Stages == {Checking, {"askCreate", "create"}, {"lockPartitions", "readPartitions"},
           {"askAdd", "addPartitions"}, {"lockPlacement", "askWarn", "readPlacement"},
           {"throttleTopic", "throttleBrokers", "assign"},
           {"unthrottleTopic", "unthrottleBrokers", "askNext", "batch"},
           {"lockLeaders", "askElect", "elect", "pollElect"}, {"crashed"}}

StoreSame == UNCHANGED <<parts, retention, reassign>>
GoesOn(a) ==
    /\ StoreSame /\ KeepsFields(a) /\ phase'[a] = phase[a]
    /\ \E S \in Stages : pc[a] \in S /\ pc'[a] \in S
Ends(a) == StoreSame /\ pc'[a] \in Ended /\ run'[a] = NoRun

\* What is known of the store is known as long as it is the same.
LEMMA SameStore ==
    ASSUME NEW a \in Appliers, UNCHANGED parts
    PROVE  /\ Whole(a)' = Whole(a) /\ Sized(a)' = Sized(a) /\ Numbered(a)' = Numbered(a)
           /\ Fixed(a)' = Fixed(a)
           /\ Satisfies(a, parts[Topic(a)])' = Satisfies(a, parts[Topic(a)])
           /\ WrongLeaders(parts[Topic(a)])' = WrongLeaders(parts[Topic(a)])
           /\ \A m : Met(a, m)' = Met(a, m)
           /\ UNCHANGED reassign => Stored(a)' = Stored(a)
BY DEF Whole, Sized, Numbered, Fixed, Satisfies, WrongLeaders, Met, Stored, Tracked, Founded,
   Topic, Up, Lists

\* Going on within a stage changes nothing of it.
LEMMA GoesOnSteady ==
    ASSUME TypeInv, NEW a \in Appliers, GoesOn(a), Stored(a), Counted(a), Retained(a), Converging(a)
    PROVE  Stored(a)' /\ Counted(a)' /\ Retained(a)' /\ Converging(a)'
<1>1. StoreSame /\ KeepsFields(a) /\ phase'[a] = phase[a] /\ UNCHANGED <<parts, retention, reassign>>
  BY DEF GoesOn, StoreSame
<1>2. PICK S \in Stages : pc[a] \in S /\ pc'[a] \in S
  BY DEF GoesOn
<1>3. Stored(a)'
  BY <1>1, SameStore
<1>4. /\ Measured(a)' = Measured(a)
      /\ \A k : Extending(a, k)' = Extending(a, k)
      /\ Topic(a)' = Topic(a)
  BY <1>1, SameStore DEF Measured, Extending, KeepsFields, Topic
<1>5. Counted(a)'
  BY <1>1, <1>2, <1>4, SameStore
     DEF Counted, KeepsFields, Stages, Checking, Evaluating, Rounding, Leading
<1>6. Retained(a)'
  BY <1>1, <1>2, <1>4 DEF Retained, Stepped, KeepsFields, Stages, Checking, Ended
<1>7. Converging(a)'
  <2> SUFFICES ASSUME run'[a].quiet PROVE Converging(a)'
    BY DEF Converging
  <2>1. run[a].quiet
    BY <1>1 DEF KeepsFields
  <2>2. MovesMet(a)'
    BY <1>1, <1>2, <2>1, SameStore
       DEF Converging, MovesMet, Stages, Checking, KeepsFields
  <2>3. pc'[a] \in Rounding => Aimed(a)'
    <3> SUFFICES ASSUME pc'[a] \in Rounding PROVE Aimed(a)'
      OBVIOUS
    <3>1. pc[a] \in Rounding /\ Left(a)' = Left(a)
      BY <1>1, <1>2 DEF Left, Rounding, Stages, Checking, KeepsFields
    <3> QED BY <1>1, <1>4, <2>1, <3>1 DEF Converging, Aimed, KeepsFields
  <2>4. pc'[a] \in Leading \cup {"balance"} => Satisfies(a, parts[Topic(a)])'
    BY <1>1, <1>2, <2>1, SameStore DEF Converging, Stages, Checking, Leading
  <2>5. pc'[a] \in Leading \ {"leaders"} => (WrongLeaders(parts[Topic(a)]) \subseteq run[a].batch)'
    BY <1>1, <1>2, <2>1, SameStore DEF Converging, Stages, Checking, Leading, KeepsFields
  <2> QED BY <2>2, <2>3, <2>4, <2>5 DEF Converging
<1> QED BY <1>3, <1>5, <1>6, <1>7

\* Of an ended run nothing is known and nothing is asked.
LEMMA EndsSteady ==
    ASSUME TypeInv, NEW a \in Appliers, Ends(a), Stored(a)
    PROVE  Stored(a)' /\ Counted(a)' /\ Retained(a)' /\ Converging(a)'
<1>1. pc'[a] \in Ended /\ ~run'[a].quiet /\ UNCHANGED <<parts, reassign>>
  BY DEF Ends, NoRun, StoreSame
<1> QED BY <1>1, SameStore
        DEF Counted, Retained, Converging, Ended, Checking, Evaluating, Rounding, Leading

\* Stopping is ending.
LEMMA StopEnds ==
    ASSUME TypeInv, NEW a \in Appliers
    PROVE  /\ \A o \in Ended : Stop(a, o) /\ StoreSame => Ends(a)
           /\ Abort(a) => Ends(a)
<1>1. Outcome(a) \in Ended
  BY DEF Outcome, Ended
<1>2. ASSUME NEW o \in Ended, Stop(a, o), StoreSame PROVE Ends(a)
  BY <1>2 DEF Stop, Go, Set, Ends, TypeInv, LockInv, ControlTypeOK, RunsTypeOK
<1> QED BY <1>1, <1>2 DEF Abort, ReadOnly, clusterVars, StoreSame

\* A prompt within a stage.
LEMMA AskGoesOn ==
    ASSUME TypeInv, NEW a \in Appliers, NEW label, NEW next, Ask(a, label, run[a], next),
           \E S \in Stages : label \in S /\ next \in S
    PROVE  Ends(a) \/ GoesOn(a)
<1>a. run[a] \in RunType /\ run \in [Appliers -> RunType] /\ pc \in [Appliers -> Pcs]
      /\ phase \in [Appliers -> Phases]
  BY RunFacts DEF TypeInv, RunsTypeOK, LockInv, ControlTypeOK
<1>1. CASE Abort(a)
  BY <1>1, StopEnds
<1>2. CASE ~Abort(a)
  <2>1. /\ Set(a, [run[a] EXCEPT !.answer = "yes"]) /\ pc[a] = label /\ pc'[a] = next
        /\ UNCHANGED phase /\ StoreSame
    BY <1>a, <1>2 DEF Ask, Go, ReadOnly, clusterVars, StoreSame
  <2>2. KeepsFields(a)
    BY <1>a, <2>1 DEF Set, RunType, KeepsFields
  <2> QED BY <2>1, <2>2 DEF GoesOn
<1> QED BY <1>1, <1>2

StageStep(a) ==
    \/ LockCheck(a) \/ AskClearTopic(a) \/ ClearTopic(a) \/ ListTopics(a) \/ AskClearBrokers(a)
    \/ UnthrottleTopic(a) \/ UnthrottleBroker(a) \/ UnthrottleDone(a) \/ UnthrottleFault(a)
    \/ AskCreate(a) \/ AskSettings(a) \/ AskAdd(a) \/ AskWarn(a) \/ AskNext(a) \/ AskElect(a)
    \/ Elect(a) \/ Acquire(a) \/ LockTimeout(a) \/ Fail(a) \/ Crash(a) \/ SessionExpires(a)
    \/ ThrottleTopic(a) \/ ThrottleBroker(a)

\* These steps end the run or go on within a stage.
LEMMA StageSteps ==
    ASSUME TypeInv, NEW a \in Appliers, StageStep(a), ~Conf[a].dryRun
    PROVE  Ends(a) \/ GoesOn(a)
<1>a. run[a] \in RunType /\ run \in [Appliers -> RunType] /\ pc \in [Appliers -> Pcs]
      /\ phase \in [Appliers -> Phases]
  BY RunFacts DEF TypeInv, RunsTypeOK, LockInv, ControlTypeOK
<1>g. ASSUME StoreSame, UNCHANGED phase, NEW next, Go(a, next), KeepsFields(a),
             \E S \in Stages : pc[a] \in S /\ next \in S
      PROVE  GoesOn(a)
  BY <1>a, <1>g DEF GoesOn, Go
<1>k. UNCHANGED run => KeepsFields(a)
  BY DEF KeepsFields
<1>1. CASE LockCheck(a)
  <2>1. PICK look : Set(a, [run[a] EXCEPT !.cleaned = look])
    BY <1>1 DEF LockCheck
  <2>2. KeepsFields(a)
    BY <1>a, <2>1 DEF Set, RunType, KeepsFields
  <2>3. pc[a] = "lockCheck" /\ pc'[a] \in {"settings", "askClearTopic", "listTopics"}
    BY <1>a, <1>1 DEF LockCheck, Go, AfterTopicThrottles
  <2>4. StoreSame /\ UNCHANGED phase
    BY <1>1 DEF LockCheck, ReadOnly, clusterVars, StoreSame
  <2> QED BY <2>2, <2>3, <2>4 DEF GoesOn, Stages, Checking
<1>2. CASE AskClearTopic(a)
  <2>1. CASE Abort(a)
    BY <2>1, StopEnds
  <2>2. CASE ~Abort(a)
    <3>1. PICK ok : Set(a, [run[a] EXCEPT !.answer = ok])
      BY <1>2, <2>2 DEF AskClearTopic
    <3>2. KeepsFields(a)
      BY <1>a, <3>1 DEF Set, RunType, KeepsFields
    <3>3. pc[a] = "askClearTopic" /\ pc'[a] = "clearTopic"
      BY <1>a, <1>2, <2>2 DEF AskClearTopic, Go
    <3>4. StoreSame /\ UNCHANGED phase
      BY <1>2, <2>2 DEF AskClearTopic, ReadOnly, clusterVars, StoreSame
    <3> QED BY <3>2, <3>3, <3>4 DEF GoesOn, Stages, Checking
  <2> QED BY <2>1, <2>2
<1>3. CASE ClearTopic(a) \/ ListTopics(a)
  <2>1. /\ pc[a] \in {"clearTopic", "listTopics"}
        /\ pc'[a] \in {"listTopics", "settings", "askClearBrokers"}
    BY <1>a, <1>3 DEF ClearTopic, ListTopics, Go, AfterTopicThrottles
  <2>2. StoreSame /\ UNCHANGED <<phase, run>>
    BY <1>3 DEF ClearTopic, ListTopics, WriteTopicThrottle, ReadOnly, clusterVars, StoreSame
  <2> QED BY <1>k, <2>1, <2>2 DEF GoesOn, Stages, Checking
<1>4. CASE AskClearBrokers(a)
  <2>1. CASE Abort(a)
    BY <2>1, StopEnds
  <2>2. CASE ~Abort(a)
    <3>1. PICK ok : Set(a, [run[a] EXCEPT !.answer = ok, !.queue = run[a].seen])
      BY <1>4, <2>2 DEF AskClearBrokers
    <3>2. KeepsFields(a)
      BY <1>a, <3>1 DEF Set, RunType, KeepsFields
    <3>3. pc[a] = "askClearBrokers" /\ pc'[a] \in {"clearBrokers", "settings"}
      BY <1>a, <1>4, <2>2 DEF AskClearBrokers, Go
    <3>4. StoreSame /\ UNCHANGED phase
      BY <1>4, <2>2 DEF AskClearBrokers, ReadOnly, clusterVars, StoreSame
    <3> QED BY <3>2, <3>3, <3>4 DEF GoesOn, Stages, Checking
  <2> QED BY <2>1, <2>2
<1>5. CASE UnthrottleTopic(a) \/ ThrottleTopic(a)
  <2>1. \/ pc[a] = "unthrottleTopic" /\ pc'[a] = "unthrottleBrokers"
        \/ pc[a] = "throttleTopic" /\ pc'[a] = "throttleBrokers"
    BY <1>a, <1>5 DEF UnthrottleTopic, ThrottleTopic, Go
  <2>2. StoreSame /\ UNCHANGED phase
    BY <1>5 DEF UnthrottleTopic, ThrottleTopic, WriteTopicThrottle, StoreSame
  <2>3. KeepsFields(a)
    <3>1. CASE UnthrottleTopic(a)
      BY <1>k, <3>1 DEF UnthrottleTopic
    <3>2. CASE ThrottleTopic(a)
      <4>1. PICK by : Set(a, [run[a] EXCEPT !.ownTopic = TRUE, !.queue = by])
        BY <3>2 DEF ThrottleTopic
      <4> QED BY <1>a, <4>1 DEF Set, RunType, KeepsFields
    <3> QED BY <1>5, <3>1, <3>2
  <2> QED BY <2>1, <2>2, <2>3 DEF GoesOn, Stages
<1>6. CASE UnthrottleBroker(a)
  <2>1. PICK b : Set(a, [run[a] EXCEPT !.queue = @ \ {b}])
    BY <1>6 DEF UnthrottleBroker
  <2>2. KeepsFields(a)
    BY <1>a, <2>1 DEF Set, RunType, KeepsFields
  <2>3. StoreSame /\ UNCHANGED <<pc, phase>> /\ pc[a] \in {"clearBrokers", "unthrottleBrokers"}
    BY <1>6 DEF UnthrottleBroker, StoreSame
  <2> QED BY <2>2, <2>3 DEF GoesOn, Stages, Checking
<1>7. CASE UnthrottleDone(a)
  <2>1. CASE Abort(a)
    BY <2>1, StopEnds
  <2>2. CASE ~Abort(a)
    <3>1. \/ pc[a] = "clearBrokers" /\ pc'[a] = "settings"
          \/ pc[a] = "unthrottleBrokers" /\ pc'[a] = "askNext"
      BY <1>a, <1>7, <2>2 DEF UnthrottleDone, Go
    <3>2. StoreSame /\ UNCHANGED <<phase, run>>
      BY <1>7, <2>2 DEF UnthrottleDone, ReadOnly, clusterVars, StoreSame
    <3> QED BY <1>k, <3>1, <3>2 DEF GoesOn, Stages, Checking
  <2> QED BY <2>1, <2>2
<1>8. CASE UnthrottleFault(a)
  <2>1. PICK queue : \/ Set(a, [run[a] EXCEPT !.failed = TRUE])
                     \/ Set(a, [run[a] EXCEPT !.failed = TRUE, !.queue = queue])
    BY <1>8 DEF UnthrottleFault
  <2>2. KeepsFields(a)
    <3>1. CASE Set(a, [run[a] EXCEPT !.failed = TRUE])
      BY <1>a, <3>1 DEF Set, RunType, KeepsFields
    <3>2. CASE Set(a, [run[a] EXCEPT !.failed = TRUE, !.queue = queue])
      BY <1>a, <3>2 DEF Set, RunType, KeepsFields
    <3> QED BY <2>1, <3>1, <3>2
  <2>3. /\ StoreSame /\ UNCHANGED phase
        /\ \/ pc[a] = "unthrottleTopic" /\ pc'[a] = "unthrottleBrokers"
           \/ pc[a] \in {"clearBrokers", "unthrottleBrokers"} /\ pc'[a] = pc[a]
    BY <1>a, <1>8 DEF UnthrottleFault, Go, clusterVars, StoreSame
  <2> QED BY <2>2, <2>3 DEF GoesOn, Stages, Checking
<1>9. CASE AskCreate(a) \/ AskSettings(a) \/ AskAdd(a) \/ AskElect(a)
  BY <1>9, AskGoesOn DEF AskCreate, AskSettings, AskAdd, AskElect, Stages, Checking
<1>10. CASE AskWarn(a)
  BY <1>10, AskGoesOn DEF AskWarn, Stages
<1>11. CASE AskNext(a)
  <2>1. CASE Conf[a].autoContinue
    <3>1. pc[a] = "askNext" /\ pc'[a] = "batch"
      BY <1>a, <1>11, <2>1 DEF AskNext, Go
    <3>2. StoreSame /\ UNCHANGED <<phase, run>>
      BY <1>11, <2>1 DEF AskNext, ReadOnly, clusterVars, StoreSame
    <3> QED BY <1>k, <3>1, <3>2 DEF GoesOn, Stages
  <2>2. CASE ~Conf[a].autoContinue
    BY <1>11, <2>2, AskGoesOn DEF AskNext, Stages
  <2> QED BY <2>1, <2>2
<1>12. CASE Elect(a)
  <2>1. CASE Abort(a)
    BY <2>1, StopEnds
  <2>2. CASE ~Abort(a)
    <3>1. pc[a] = "elect" /\ pc'[a] = "pollElect"
      BY <1>a, <1>12, <2>2 DEF Elect, Go
    <3>2. StoreSame /\ UNCHANGED <<phase, run>>
      BY <1>12, <2>2 DEF Elect, StoreSame
    <3> QED BY <1>k, <3>1, <3>2 DEF GoesOn, Stages
  <2> QED BY <2>1, <2>2
<1>13. CASE Acquire(a)
  <2>1. \/ pc[a] = "lockPartitions" /\ pc'[a] = "readPartitions"
        \/ pc[a] = "lockPlacement" /\ pc'[a] \in {"askWarn", "readPlacement"}
        \/ pc[a] = "lockLeaders" /\ pc'[a] = "askElect"
    BY <1>a, <1>13 DEF Acquire, Go, AfterLock, Waiting
  <2>2. StoreSame /\ UNCHANGED <<phase, run>>
    BY <1>13 DEF Acquire, ReadOnly, clusterVars, StoreSame
  <2> QED BY <1>k, <2>1, <2>2 DEF GoesOn, Stages
<1>14. CASE LockTimeout(a)
  BY <1>14, StopEnds DEF LockTimeout
<1>15. CASE Fail(a)
  <2>1. Outcome(a) \in Ended /\ StoreSame
    BY <1>15 DEF Fail, Outcome, Ended, clusterVars, StoreSame
  <2> QED BY <1>15, <2>1, StopEnds DEF Fail
<1>16. CASE Crash(a)
  BY <1>a, <1>16 DEF Crash, Go, Set, Ends, Ended, clusterVars, StoreSame
<1>17. CASE SessionExpires(a)
  <2>1. pc[a] = "crashed" /\ StoreSame /\ UNCHANGED <<pc, phase, run>>
    BY <1>17 DEF SessionExpires, clusterVars, StoreSame
  <2> QED BY <1>k, <2>1 DEF GoesOn, Stages
<1>18. CASE ThrottleBroker(a)
  <2>1. PICK b, own : Set(a, [run[a] EXCEPT !.queue = @ \ {b}, !.ownBrokers = own])
    <3>1. PICK b \in LeastOf(run[a].queue) :
            Set(a, [run[a] EXCEPT !.queue = @ \ {b},
                       !.ownBrokers = IF BrokerMode \/ Nobody \in {brokerThr[b][k] : k \in Keys}
                                      THEN @ \cup {b} ELSE @])
      BY <1>18 DEF ThrottleBroker
    <3> QED BY <3>1
  <2>2. KeepsFields(a)
    BY <1>a, <2>1 DEF Set, RunType, KeepsFields
  <2>3. pc[a] = "throttleBrokers" /\ pc'[a] \in {"throttleBrokers", "assign"}
    BY <1>a, <1>18 DEF ThrottleBroker, Go
  <2>4. StoreSame /\ UNCHANGED phase
    BY <1>18 DEF ThrottleBroker, StoreSame
  <2> QED BY <2>2, <2>3, <2>4 DEF GoesOn, Stages
<1> QED BY <1>1, <1>2, <1>3, <1>4, <1>5, <1>6, <1>7, <1>8, <1>9, <1>10, <1>11, <1>12, <1>13,
           <1>14, <1>15, <1>16, <1>17, <1>18 DEF StageStep

(***************************************************************************)
(* The steps that find something out, decide something or write something. *)
(***************************************************************************)
Firm(a) == Stored(a) /\ Counted(a) /\ Retained(a) /\ Converging(a)

\* what the next stage needs of a run that was quiet
Known(a) ==
    /\ pc'[a] \in Rounding => Aimed(a)'
    /\ pc'[a] \in Leading \cup {"balance"} => Satisfies(a, parts[Topic(a)])
    /\ pc'[a] \in Leading \ {"leaders"} => WrongLeaders(parts[Topic(a)]) \subseteq run'[a].batch

\* A step between two stages that leaves the store alone.
LEMMA Arrives ==
    ASSUME TypeInv, NEW a \in Appliers, Firm(a), UNCHANGED <<parts, reassign>>,
           run'[a].quiet = run[a].quiet, pc[a] # "poll", pc'[a] # "poll",
           Counted(a)', Retained(a)', run[a].quiet => Known(a)
    PROVE  Firm(a)'
<1>1. Stored(a)'
  BY SameStore DEF Firm
<1>2. ASSUME run[a].quiet PROVE MovesMet(a)'
  BY <1>2, SameStore DEF Firm, Converging, MovesMet
<1>3. Converging(a)'
  BY <1>2, SameStore DEF Converging, Known
<1> QED BY <1>1, <1>3 DEF Firm

\* Starting.
LEMMA StartFirm ==
    ASSUME TypeInv, NEW a \in Appliers, Firm(a), Start(a)
    PROVE  Firm(a)'
<1>a. pc \in [Appliers -> Pcs] /\ run \in [Appliers -> RunType]
  BY DEF TypeInv, RunsTypeOK, LockInv, ControlTypeOK
<1>1. pc'[a] = "lookup" /\ UNCHANGED <<parts, reassign>>
  BY <1>a DEF Start, Go, clusterVars
<1>2. run'[a].quiet => reassign = {}
  BY <1>a DEF Start, Set, NoRun
<1>3. Stored(a)'
  BY <1>1, SameStore DEF Firm
<1>4. Counted(a)' /\ Retained(a)'
  BY <1>1 DEF Counted, Retained, Checking, Evaluating, Rounding, Leading
<1>5. Converging(a)'
  BY <1>1, <1>2 DEF Converging, MovesMet, Rounding, Leading
<1> QED BY <1>3, <1>4, <1>5 DEF Firm

\* The first read.
LEMMA LookupFirm ==
    ASSUME TypeInv, NEW a \in Appliers, ~FlakyReads, ~Conf[a].dryRun, Firm(a), Lookup(a)
    PROVE  Firm(a)'
<1>a. /\ pc \in [Appliers -> Pcs] /\ run \in [Appliers -> RunType] /\ run[a] \in RunType
      /\ Conf[a].partitions \in Nat
  BY RunFacts DEF TypeInv, RunsTypeOK, LockInv, ControlTypeOK, ConfType
<1>b. pc[a] = "lookup" /\ UNCHANGED <<parts, retention, reassign>>
  BY DEF Lookup, ReadOnly, clusterVars
<1>1. CASE Go(a, "askCreate") /\ UNCHANGED run
  <2>1. pc'[a] = "askCreate" /\ run' = run
    BY <1>a, <1>1 DEF Go
  <2>2. Counted(a)' /\ Retained(a)' /\ Known(a)
    BY <2>1 DEF Counted, Retained, Known, Checking, Evaluating, Rounding, Leading
  <2> QED BY <1>b, <2>1, <2>2, Arrives
<1>2. ASSUME NEW v \in Views(Topic(a)), Go(a, "lockCheck"),
             Set(a, [run[a] EXCEPT !.view = v,
                       !.throttled = TopicThrottled(Topic(a)),
                       !.retention = retention[Topic(a)]])
      PROVE  Firm(a)'
  <2>1. pc'[a] = "lockCheck"
    BY <1>a, <1>2 DEF Go
  <2> DEFINE old == run[a]
  <2>2. run'[a] = [old EXCEPT !.view = v, !.throttled = TopicThrottled(Topic(a)),
                                 !.retention = retention[Topic(a)]]
    BY <1>a, <1>2 DEF Set
  <2>3. /\ run'[a].view = v /\ run'[a].retention = retention[Topic(a)]
        /\ run'[a].quiet = run[a].quiet
    <3>1. old \in RunType
      BY <1>a
    <3> HIDE DEF old
    <3>2. run'[a].view = v /\ run'[a].retention = retention[Topic(a)] /\ run'[a].quiet = old.quiet
      BY <2>2, <3>1 DEF RunType
    <3> QED BY <3>2 DEF old
  <2>4. Len(v) >= Conf[a].partitions => Len(v) = Len(parts[Topic(a)]) /\ Whole(a)
    BY <1>a, WholeViews DEF Firm, Stored
  <2>5. Measured(a)'
    BY <1>b, <2>3, <2>4, SameStore DEF Measured, Topic
  <2>6. Counted(a)' /\ Retained(a)' /\ Known(a)
    BY <1>b, <2>1, <2>3, <2>5
       DEF Counted, Retained, Known, Checking, Evaluating, Rounding, Leading, Ended, Topic
  <2> QED BY <1>b, <2>1, <2>3, <2>6, Arrives
<1> QED BY <1>1, <1>2 DEF Lookup

\* The settings.
LEMMA SettingsFirm ==
    ASSUME TypeInv, NEW a \in Appliers, ~Conf[a].dryRun, Firm(a), Settings(a)
    PROVE  Firm(a)'
<1>a. /\ pc \in [Appliers -> Pcs] /\ run \in [Appliers -> RunType] /\ run[a] \in RunType
      /\ phase \in [Appliers -> Phases] /\ Conf[a] \in ConfType
  BY RunFacts DEF TypeInv, RunsTypeOK, LockInv, ControlTypeOK
<1>b. pc[a] = "settings" /\ UNCHANGED <<parts, retention, reassign>>
  BY DEF Settings, ReadOnly, clusterVars
<1>1. pc'[a] = IF RetentionDiffers(a) \/ DeletesThrottles(a) THEN "askSettings" ELSE "counts"
  BY <1>a DEF Settings, Go
<1>2. /\ run'[a].view = run[a].view /\ run'[a].retention = run[a].retention
      /\ run'[a].quiet = run[a].quiet
  BY <1>a DEF Settings, Set, RunType
<1>3. Measured(a) /\ run[a].retention = retention[Topic(a)]
  BY <1>b DEF Firm, Counted, Retained, Checking
<1>4. Measured(a)'
  BY <1>b, <1>2, <1>3, SameStore DEF Measured, Topic
<1>5. Counted(a)' /\ Known(a)
  BY <1>1, <1>4 DEF Counted, Known, Checking, Evaluating, Rounding, Leading
<1>6. ~RetentionDiffers(a) => Stepped(a, run[a].retention, retention[Topic(a)])
  BY <1>a, <1>3 DEF RetentionDiffers, Stepped, RunType, ConfType
<1>7. Retained(a)'
  BY <1>b, <1>1, <1>2, <1>3, <1>6 DEF Retained, Stepped, Checking, Ended, Topic
<1> QED BY <1>b, <1>1, <1>2, <1>5, <1>7, Arrives

\* Writing them, which brings the retention one step closer.
LEMMA WriteSettingsFirm ==
    ASSUME TypeInv, NEW a \in Appliers, Firm(a), WriteSettings(a)
    PROVE  Firm(a)'
<1>a. /\ pc \in [Appliers -> Pcs] /\ retention \in [Topics -> Nat] /\ Topic(a) \in Topics
      /\ Conf[a].retention \in Nat /\ Conf[a].dropStep \in Nat /\ run[a].retention \in Nat
  BY RunFacts DEF TypeInv, LockInv, ControlTypeOK, StoreTypeOK, ConfType, RunType
<1>b. pc[a] = "writeSettings" /\ pc'[a] = "counts" /\ UNCHANGED <<parts, reassign, run, phase>>
  BY <1>a DEF WriteSettings, Go
<1>1. Measured(a) /\ run[a].retention = retention[Topic(a)]
  BY <1>b DEF Firm, Counted, Retained, Checking
<1>2. Measured(a)'
  BY <1>b, <1>1, SameStore DEF Measured, Topic
<1>3. Counted(a)' /\ Known(a)
  BY <1>b, <1>2 DEF Counted, Known, Checking, Evaluating, Rounding, Leading
<1>4. retention'[Topic(a)] = IF RetentionDiffers(a) THEN NextRetention(a, run[a].retention)
                                                    ELSE retention[Topic(a)]
  BY <1>a DEF WriteSettings
<1>5. Stepped(a, run[a].retention, retention'[Topic(a)])
  BY <1>a, <1>1, <1>4 DEF RetentionDiffers, NextRetention, Stepped
<1>6. Retained(a)'
  BY <1>b, <1>5 DEF Retained, Stepped, Checking, Ended, Topic
<1> QED BY <1>b, <1>3, <1>6, Arrives

\* Comparing counts.
LEMMA CountsFirm ==
    ASSUME TypeInv, NEW a \in Appliers, Firm(a), Counts(a)
    PROVE  Ends(a) \/ Firm(a)'
<1>a. /\ pc \in [Appliers -> Pcs] /\ run[a] \in RunType /\ Conf[a].partitions \in Nat
      /\ Len(run[a].view) \in Nat
  BY RunFacts, SeqUsed DEF TypeInv, LockInv, ControlTypeOK, ConfType, RunType
<1>1. CASE Abort(a) \/ (Stop(a, "done") /\ ReadOnly)
  BY <1>1, StopEnds DEF Ended, ReadOnly, clusterVars, StoreSame
<1>2. CASE ~(Abort(a) \/ (Stop(a, "done") /\ ReadOnly))
  <2>1. /\ pc[a] = "counts" /\ ~(Len(run[a].view) > Conf[a].partitions)
        /\ pc'[a] = IF Len(run[a].view) < Conf[a].partitions THEN "lockPartitions"
                                                             ELSE "placement"
        /\ UNCHANGED <<parts, retention, reassign, phase, run>>
    BY <1>a, <1>2 DEF Counts, Go, ReadOnly, clusterVars
  <2>2. Measured(a)
    BY <2>1 DEF Firm, Counted
  <2>3. pc'[a] = "placement" => Sized(a) /\ Whole(a)
    BY <1>a, <2>1, <2>2 DEF Measured, Sized
  <2>4. Counted(a)' /\ Known(a)
    BY <2>1, <2>3, SameStore DEF Counted, Known, Checking, Evaluating, Rounding, Leading
  <2>5. Retained(a)'
    BY <2>1 DEF Firm, Retained, Stepped, Checking, Ended, Topic
  <2> QED BY <2>1, <2>4, <2>5, Arrives
<1> QED BY <1>1, <1>2

\* A new topic has the wanted partitions, none of them up.
LEMMA CreateTopicFirm ==
    ASSUME TypeInv, NEW a \in Appliers, ~Conf[a].dryRun, Firm(a),
           BrokerMode \/ Fixed(a) \/ Founded(a), CreateTopic(a)
    PROVE  Ends(a) \/ Firm(a)'
<1>a. /\ pc \in [Appliers -> Pcs] /\ Conf[a].partitions \in Nat /\ Topic(a) \in Topics
      /\ parts \in [Topics -> Seq(Partition)]
  BY RunFacts DEF TypeInv, LockInv, ControlTypeOK, StoreTypeOK, ConfType
<1>1. CASE Abort(a)
  BY <1>1, StopEnds
<1>2. CASE ~Abort(a)
  <2>1. /\ pc[a] = "create" /\ pc'[a] = "settle" /\ parts[Topic(a)] = <<>>
        /\ UNCHANGED <<reassign, run>>
    BY <1>a, <1>2 DEF CreateTopic, Go
  <2>2. PICK lists \in [1..Conf[a].partitions -> NewLists] :
           parts' = [parts EXCEPT ![Topic(a)] =
                        [i \in 1..Conf[a].partitions |-> Created(i, lists[i])]]
    BY <1>2 DEF CreateTopic
  <2> DEFINE new == [i \in 1..Conf[a].partitions |-> Created(i, lists[i])]
  <2>3. parts[Topic(a)]' = new
    BY <1>a, <2>2 DEF Topic
  <2>4. \A i \in 1..Conf[a].partitions : new[i] \in Partition /\ new[i].isr = {}
    <3>1. \A i \in 1..Conf[a].partitions : i \in Nat \ {0} /\ lists[i] \in Replicas
      BY <1>a, ListsAssumption
    <3>2. \A i \in 1..Conf[a].partitions : Created(i, lists[i]).isr = {}
      BY DEF Created
    <3> HIDE DEF Created
    <3> QED BY <3>1, <3>2, CreatedType
  <2>5. DOMAIN new = 1..Conf[a].partitions
    OBVIOUS
  <2> HIDE DEF new
  <2>6. new \in [1..Conf[a].partitions -> Partition]
    <3>1. new = [i \in 1..Conf[a].partitions |-> new[i]]
      BY DEF new
    <3> QED BY <2>4, <3>1
  <2>7. Len(new) = Conf[a].partitions
    BY <1>a, <2>6, SeqMade
  <2>8. ~Founded(a)
    BY <2>1 DEF Firm, Stored
  <2>9. Founded(a)' = Founded(a) /\ Fixed(a)' = Fixed(a)
    BY DEF Founded, Fixed, Topic
  <2>10. Stored(a)'
    BY <1>a, <2>3, <2>4, <2>5, <2>7, <2>8, <2>9 DEF Stored, Tracked
  <2>11. Sized(a)' /\ (Whole(a)' \/ Fixed(a)')
    BY <2>3, <2>7, <2>8, <2>9 DEF Sized, Whole
  <2>12. Counted(a)'
    BY <2>1, <2>11 DEF Counted, Checking, Evaluating, Rounding, Leading
  <2>13. Retained(a)'
    BY <2>1 DEF Retained, Checking
  <2>14. run[a].quiet => reassign = {}
    BY <2>1 DEF Firm, Converging, MovesMet, Met
  <2>15. Converging(a)'
    BY <2>1, <2>14 DEF Converging, MovesMet, Rounding, Leading
  <2> QED BY <2>10, <2>12, <2>13, <2>15 DEF Firm
<1> QED BY <1>1, <1>2

\* The sleep after it.
LEMMA SettleFirm ==
    ASSUME TypeInv, NEW a \in Appliers, Firm(a), Settle(a)
    PROVE  Firm(a)'
<1>a. pc \in [Appliers -> Pcs] /\ phase \in [Appliers -> Phases]
  BY DEF TypeInv, LockInv, ControlTypeOK
<1>1. /\ pc[a] = "settle" /\ pc'[a] = "placement" /\ phase'[a] = "new"
      /\ UNCHANGED <<parts, reassign, run>>
  BY <1>a DEF Settle, Go, Enter, ReadOnly, clusterVars
<1>2. Counted(a)' /\ Known(a)
  BY <1>1, SameStore DEF Firm, Counted, Known, Checking, Evaluating, Rounding, Leading
<1>3. Retained(a)'
  BY <1>1 DEF Retained, Checking
<1> QED BY <1>1, <1>2, <1>3, Arrives

\* The second read: what is added follows on what is there.
LEMMA ReadPartitionsFirm ==
    ASSUME TypeInv, NEW a \in Appliers, ~FlakyReads, ~Conf[a].dryRun, Firm(a),
           ReadPartitions(a)
    PROVE  Ends(a) \/ Firm(a)'
<1>a. /\ pc \in [Appliers -> Pcs] /\ run \in [Appliers -> RunType] /\ run[a] \in RunType
      /\ Conf[a].partitions \in Nat
  BY RunFacts DEF TypeInv, RunsTypeOK, LockInv, ControlTypeOK, ConfType
<1>1. CASE Abort(a) \/ (Stop(a, "panicked") /\ ReadOnly)
  BY <1>1, StopEnds DEF Ended, ReadOnly, clusterVars, StoreSame
<1>2. CASE ~(Abort(a) \/ (Stop(a, "panicked") /\ ReadOnly))
  <2>1. PICK v \in Views(Topic(a)) :
           LET extra == Conf[a].partitions - Len(v)
           IN  /\ ~(extra < 0)
               /\ \E lists \in [1..extra -> {r \in NewLists :
                        Cardinality(r.reps) = Cardinality(v[1].reps)}] :
                      Set(a, [run[a] EXCEPT !.view = v, !.answer = "none",
                                !.desired = Lists(v) \o lists,
                                !.batch = Len(v) + 1 .. Conf[a].partitions])
               /\ Go(a, "askAdd") /\ UNCHANGED phase /\ ReadOnly
    BY <1>2 DEF ReadPartitions
  <2>2. PICK lists \in [1..(Conf[a].partitions - Len(v)) -> NewLists] :
           Set(a, [run[a] EXCEPT !.view = v, !.answer = "none",
                     !.desired = Lists(v) \o lists,
                     !.batch = Len(v) + 1 .. Conf[a].partitions])
    BY <2>1
  <2>3. /\ v \in Seq(Partition) /\ Len(v) \in Nat /\ Len(parts[Topic(a)]) \in Nat
        /\ Whole(a) => v = parts[Topic(a)]
        /\ ~Whole(a) => Len(v) < Len(parts[Topic(a)])
    BY WholeViews
  <2>4. Len(Lists(v) \o lists) = Conf[a].partitions
    <3>1. lists \in [1..(Conf[a].partitions - Len(v)) -> Replicas]
      BY ListsAssumption
    <3>2. Len(v) <= Conf[a].partitions
      BY <1>a, <2>1, <2>3
    <3> QED BY <1>a, <2>3, <3>1, <3>2, ExtraTypes
  <2> DEFINE d == Lists(v) \o lists
             n == Len(v) + 1 .. Conf[a].partitions
  <2>5. run'[a] = [run[a] EXCEPT !.view = v, !.answer = "none", !.desired = d, !.batch = n]
    BY <1>a, <2>2 DEF Set
  <2> HIDE DEF d, n
  <2>6. /\ run'[a].desired = d /\ run'[a].batch = n /\ run'[a].quiet = run[a].quiet
        /\ run'[a].retention = run[a].retention
    BY <1>a, <2>5 DEF RunType
  <2>7. /\ pc[a] = "readPartitions" /\ pc'[a] = "askAdd"
        /\ UNCHANGED <<parts, retention, reassign, phase>>
    BY <1>a, <1>2, <2>1 DEF ReadPartitions, Go, ReadOnly, clusterVars
  <2>8. Len(v) <= Len(parts[Topic(a)])
    BY <2>3
  <2>9. BrokerMode \/ Len(v) = Conf[a].partitions => Len(v) = Len(parts[Topic(a)]) /\ Whole(a)
    BY <1>a, <2>3 DEF Firm, Stored, Whole
  <2>10. Extending(a, Len(v))'
    BY <2>4, <2>6, <2>7, <2>8, <2>9, SameStore DEF Extending, Topic, d, n
  <2>11. Len(v) \in 0..Conf[a].partitions
    BY <1>a, <2>1, <2>3
  <2>12. Counted(a)' /\ Known(a)
    BY <2>7, <2>10, <2>11 DEF Counted, Known, Checking, Evaluating, Rounding, Leading
  <2>13. Retained(a)'
    BY <2>6, <2>7 DEF Firm, Retained, Stepped, Checking, Ended, Topic
  <2> QED BY <2>6, <2>7, <2>12, <2>13, Arrives
<1> QED BY <1>1, <1>2

\* A call of AddPartitions that goes through finds the topic as the run read it.
LEMMA AddsTheRest ==
    ASSUME TypeInv, NEW a \in Appliers, Firm(a), AddPartitions(a), ~Abort(a)
    PROVE  \E k \in 0..Conf[a].partitions : \E new \in Seq(Partition) :
              /\ Len(parts[Topic(a)]) = k /\ Len(new) = Conf[a].partitions - k
              /\ run[a].batch = k + 1 .. Conf[a].partitions
              /\ k = Conf[a].partitions => Whole(a)
              /\ \A i \in DOMAIN new : new[i].isr = {}
              /\ parts' = [parts EXCEPT ![Topic(a)] = parts[Topic(a)] \o new]
<1> DEFINE t == Topic(a)
           n == Cardinality(run[a].batch)
           known == Len(run[a].desired) - n
           shift == IF BrokerMode THEN Len(parts[t]) ELSE known
           new == [i \in 1..n |-> Created(shift + i, run[a].desired[known + i])]
<1>1. pc[a] = "addPartitions"
  BY DEF AddPartitions
<1>2. PICK k \in 0..Conf[a].partitions : Extending(a, k)
  BY <1>1 DEF Firm, Counted
<1>3. /\ run[a].desired \in Seq(Replicas) /\ Len(parts[t]) \in Nat /\ Conf[a].partitions \in Nat
      /\ parts[t] \in Seq(Partition) /\ DOMAIN parts[t] = 1..Len(parts[t])
  BY RunFacts, SeqUsed DEF TypeInv, StoreTypeOK, ConfType, RunType
<1>4. /\ Len(run[a].desired) = Conf[a].partitions /\ run[a].batch = k + 1 .. Conf[a].partitions
      /\ k \in Nat /\ k <= Conf[a].partitions /\ k <= Len(parts[t])
      /\ BrokerMode \/ k = Conf[a].partitions => k = Len(parts[t]) /\ Whole(a)
  BY <1>2, <1>3 DEF Extending
<1>5. n = Conf[a].partitions - k
  BY <1>3, <1>4, IntervalSize
<1>6. Len(parts[t]) = k
  <2>1. ~BrokerMode => run[a].batch \cap DOMAIN parts[t] = {}
    BY DEF AddPartitions
  <2>2. CASE ~BrokerMode /\ k < Conf[a].partitions
    <3>1. k + 1 \in run[a].batch
      BY <1>4, <2>2
    <3>2. k + 1 \notin 1..Len(parts[t])
      BY <1>3, <2>1, <2>2, <3>1
    <3> QED BY <1>3, <1>4, <3>2
  <2> QED BY <1>3, <1>4, <2>2
<1>7. shift \in Nat /\ known = k
  BY <1>3, <1>4, <1>5
<1> HIDE DEF shift
<1>8. new \in Seq(Partition)
  BY <1>3, <1>4, <1>7, AppendedTypes
<1>9. Len(new) = n /\ DOMAIN new = 1..n
  BY <1>3, <1>4, <1>5, <1>8, SeqUsed, LenProperties
<1>10. \A i \in 1..n : new[i].isr = {}
  BY DEF Created
<1>11. parts' = [parts EXCEPT ![t] = parts[t] \o new]
  BY DEF AddPartitions, shift
<1> HIDE DEF new
<1> QED BY <1>4, <1>5, <1>6, <1>8, <1>9, <1>10, <1>11

\* The topic then has the wanted partitions.
LEMMA AddPartitionsFirm ==
    ASSUME TypeInv, NEW a \in Appliers, Firm(a), AddPartitions(a)
    PROVE  Ends(a) \/ Firm(a)'
<1>a. /\ pc \in [Appliers -> Pcs] /\ Conf[a].partitions \in Nat /\ Topic(a) \in Topics
      /\ parts \in [Topics -> Seq(Partition)]
  BY RunFacts DEF TypeInv, LockInv, ControlTypeOK, StoreTypeOK, ConfType
<1>1. CASE Abort(a)
  BY <1>1, StopEnds
<1>2. CASE ~Abort(a)
  <2> DEFINE P == parts[Topic(a)]
  <2>1. PICK k \in 0..Conf[a].partitions : \E new \in Seq(Partition) :
              /\ Len(P) = k /\ Len(new) = Conf[a].partitions - k
              /\ run[a].batch = k + 1 .. Conf[a].partitions
              /\ k = Conf[a].partitions => Whole(a)
              /\ \A i \in DOMAIN new : new[i].isr = {}
              /\ parts' = [parts EXCEPT ![Topic(a)] = P \o new]
    BY <1>2, AddsTheRest
  <2>2. PICK new \in Seq(Partition) :
              /\ Len(P) = k /\ Len(new) = Conf[a].partitions - k
              /\ run[a].batch = k + 1 .. Conf[a].partitions
              /\ k = Conf[a].partitions => Whole(a)
              /\ \A i \in DOMAIN new : new[i].isr = {}
              /\ parts' = [parts EXCEPT ![Topic(a)] = P \o new]
    BY <2>1
  <2> DEFINE Q == P \o new
  <2>3. parts[Topic(a)]' = Q
    BY <1>a, <2>2 DEF Topic
  <2>4. P \in Seq(Partition)
    BY <1>a
  <2> HIDE DEF P
  <2>5. /\ Q \in Seq(Partition) /\ Len(Q) = Conf[a].partitions
        /\ \A i \in 1..Conf[a].partitions : Q[i] = IF i <= k THEN P[i] ELSE new[i - k]
    <3>1. /\ Q \in Seq(Partition) /\ Len(Q) = Len(P) + Len(new)
          /\ \A i \in 1..Len(P) + Len(new) : Q[i] = IF i <= Len(P) THEN P[i] ELSE new[i - Len(P)]
      BY <2>4, ConcatProperties
    <3>2. Len(P) + Len(new) = Conf[a].partitions
      BY <1>a, <2>2
    <3> HIDE DEF Q
    <3> QED BY <2>2, <3>1, <3>2
  <2>6. DOMAIN Q = 1..Conf[a].partitions /\ DOMAIN P = 1..k /\ DOMAIN new = 1..Conf[a].partitions - k
    BY <2>2, <2>4, <2>5, SeqUsed
  <2> HIDE DEF Q
  <2>7. \A i \in DOMAIN P : i \in DOMAIN Q /\ Q[i] = P[i]
    BY <1>a, <2>5, <2>6
  <2>8. \A i \in DOMAIN Q \ DOMAIN P : Q[i].isr = {}
    <3> SUFFICES ASSUME NEW i \in DOMAIN Q \ DOMAIN P PROVE Q[i].isr = {}
      OBVIOUS
    <3>1. i \in Nat /\ k \in Nat /\ k < i /\ i <= Conf[a].partitions
      BY <1>a, <2>6
    <3>2. i - k \in DOMAIN new /\ Q[i] = new[i - k]
      BY <1>a, <2>5, <2>6, <3>1
    <3> QED BY <2>2, <3>2
  <2>9. /\ pc[a] = "addPartitions" /\ pc'[a] = "pollAdd"
        /\ UNCHANGED <<retention, reassign, run, phase>>
    BY <1>a, <1>2 DEF AddPartitions, Go
  <2>10. Sized(a)'
    BY <2>3, <2>5 DEF Sized
  <2>11. Whole(a)' \/ Conf[a].partitions \in run[a].batch
    <3>1. CASE k = Conf[a].partitions
      <4>1. DOMAIN Q = DOMAIN P
        BY <2>6, <3>1
      <4>2. Whole(a)'
        BY <2>2, <2>3, <2>7, <3>1, <4>1 DEF Whole, Up, P
      <4> QED BY <4>2
    <3>2. CASE k # Conf[a].partitions
      BY <1>a, <2>2, <3>2
    <3> QED BY <3>1, <3>2
  <2>12. Tracked(a)'
    <3> SUFFICES ASSUME NEW i \in DOMAIN Q
                 PROVE  \/ InSync(Q[i]) \/ Q[i].isr = {}
                        \/ \E m \in reassign : m.topic = Topic(a) /\ m.id = i
      BY <2>3, <2>9 DEF Tracked, Topic
    <3> QED BY <2>7, <2>8 DEF Firm, Stored, Tracked, P
  <2>13. Stored(a)'
    <3>1. Founded(a)' => Q # <<>>
      <4>1. Founded(a)' => P # <<>>
        BY DEF Firm, Stored, Founded, Topic, P
      <4>2. P # <<>> => k # 0
        BY <2>2, <2>4, EmptySeq
      <4>3. k # 0 => Len(Q) # 0
        BY <1>a, <2>5
      <4> QED BY <2>5, <4>1, <4>2, <4>3
    <3> QED BY <1>a, <2>3, <2>5, <2>12, <3>1 DEF Stored
  <2>14. Counted(a)'
    BY <2>9, <2>10, <2>11 DEF Counted, Checking, Evaluating, Rounding, Leading
  <2>15. Retained(a)'
    BY <2>9 DEF Firm, Retained, Stepped, Checking, Ended, Topic
  <2>16. ASSUME run[a].quiet PROVE MovesMet(a)'
    <3> SUFFICES ASSUME NEW m \in reassign PROVE Met(a, m)'
      BY <2>9 DEF MovesMet
    <3>1. Met(a, m)
      BY <2>9, <2>16 DEF Firm, Converging, MovesMet
    <3> QED BY <2>3, <2>7, <3>1 DEF Met, Topic, P
  <2>17. Converging(a)'
    BY <2>9, <2>16 DEF Converging, Rounding, Leading
  <2> QED BY <2>13, <2>14, <2>15, <2>17 DEF Firm
<1> QED BY <1>1, <1>2

\* The poll sees the last of the partitions added, so all of the topic.
LEMMA PollAddFirm ==
    ASSUME TypeInv, NEW a \in Appliers, ~FlakyReads, Firm(a), PollAdd(a)
    PROVE  Firm(a)'
<1>a. /\ pc \in [Appliers -> Pcs] /\ Conf[a].partitions \in Nat
  BY RunFacts DEF TypeInv, LockInv, ControlTypeOK, ConfType
<1>1. /\ pc[a] = "pollAdd" /\ pc'[a] = "placement"
      /\ UNCHANGED <<parts, retention, reassign, run, phase>>
  BY <1>a DEF PollAdd, Go, ReadOnly, clusterVars
<1>2. PICK v \in Views(Topic(a)) : Ready(v, run[a].desired, run[a].batch)
  BY DEF PollAdd
<1>3. /\ v \in Seq(Partition) /\ Len(v) \in Nat
      /\ ~Whole(a) => Len(v) < Len(parts[Topic(a)])
  BY WholeViews
<1>4. Conf[a].partitions \in run[a].batch => Conf[a].partitions <= Len(v)
  BY <1>2, <1>3, SeqUsed DEF Ready
<1>5. Sized(a) /\ Whole(a)
  BY <1>a, <1>1, <1>3, <1>4 DEF Firm, Counted, Sized
<1>6. Counted(a)' /\ Known(a)
  BY <1>1, <1>5, SameStore DEF Counted, Known, Checking, Evaluating, Rounding, Leading
<1>7. Retained(a)'
  BY <1>1 DEF Firm, Retained, Stepped, Checking, Ended, Topic
<1> QED BY <1>1, <1>6, <1>7, Arrives

\* Once all of the topic is read, every later read returns all of it.
LEMMA ReadsAll ==
    ASSUME TypeInv, NEW a \in Appliers, ~FlakyReads, Whole(a), NEW v \in Views(Topic(a))
    PROVE  v = parts[Topic(a)]
BY WholeViews

\* An evaluation that is consistent with the strategy, or finds assignments of its
\* own length, has read all of the topic.
LEMMA EvaluatesAll ==
    ASSUME TypeInv, NEW a \in Appliers, ~FlakyReads, Sized(a), Whole(a) \/ Fixed(a),
           NEW v \in Views(Topic(a)), Consistent(v),
           Satisfies(a, v) \/ \E d \in Conf[a].placements : Len(d) = Len(v)
    PROVE  Whole(a) /\ Numbered(a) /\ v = parts[Topic(a)]
<1>1. /\ v \in Seq(Partition) /\ Len(v) \in Nat /\ Len(parts[Topic(a)]) \in Nat
      /\ ~Whole(a) => Len(v) < Len(parts[Topic(a)])
  BY WholeViews
<1>2. Fixed(a) => Len(v) = Conf[a].partitions
  BY <1>1, ListsType DEF Fixed, Satisfies
<1>3. Whole(a) /\ v = parts[Topic(a)]
  BY <1>1, <1>2, ReadsAll DEF Sized
<1> QED BY <1>3 DEF Numbered, Consistent

\* The first evaluation.
LEMMA PlacementFirm ==
    ASSUME TypeInv, NEW a \in Appliers, ~FlakyReads, Firm(a), Placement(a)
    PROVE  Ends(a) \/ Firm(a)'
<1>a. /\ pc \in [Appliers -> Pcs] /\ run \in [Appliers -> RunType] /\ run[a] \in RunType
  BY RunFacts DEF TypeInv, RunsTypeOK, LockInv, ControlTypeOK
<1>1. CASE Abort(a)
  BY <1>1, StopEnds
<1>2. CASE ~Abort(a)
  <2>1. PICK v \in Views(Topic(a)) :
           /\ Consistent(v)
           /\ Set(a, [run[a] EXCEPT !.view = v, !.answer = "none",
                        !.size = IF phase[a] = "new" THEN Len(v) ELSE Conf[a].batch])
           /\ Go(a, CASE Satisfies(a, v) -> "leaders"
                      [] phase[a] # "new" /\ ~Satisfies(a, v) -> "lockPlacement"
                      [] OTHER -> IF Conf[a].warn THEN "askWarn" ELSE "readPlacement")
    BY <1>2 DEF Placement
  <2>2. /\ pc[a] = "placement" /\ UNCHANGED <<parts, retention, reassign, phase>>
    BY <1>2 DEF Placement, ReadOnly, clusterVars
  <2>3. \/ pc'[a] = "leaders" /\ Satisfies(a, v)
        \/ pc'[a] \in {"lockPlacement", "askWarn", "readPlacement"}
    BY <1>a, <2>1 DEF Go
  <2> DEFINE size == IF phase[a] = "new" THEN Len(v) ELSE Conf[a].batch
  <2>4. run'[a] = [run[a] EXCEPT !.view = v, !.answer = "none", !.size = size]
    BY <1>a, <2>1 DEF Set
  <2> HIDE DEF size
  <2>5. run'[a].quiet = run[a].quiet /\ run'[a].retention = run[a].retention
    BY <1>a, <2>4 DEF RunType
  <2>6. Sized(a) /\ (Whole(a) \/ Fixed(a))
    BY <2>2 DEF Firm, Counted, Evaluating
  <2>7. pc'[a] = "leaders" => Whole(a) /\ Numbered(a) /\ Satisfies(a, parts[Topic(a)])
    BY <2>1, <2>3, <2>6, EvaluatesAll
  <2>8. Counted(a)' /\ Known(a)
    BY <2>2, <2>3, <2>6, <2>7, SameStore
       DEF Counted, Known, Checking, Evaluating, Rounding, Leading
  <2>9. Retained(a)'
    BY <2>2, <2>3, <2>5 DEF Firm, Retained, Stepped, Checking, Ended, Topic
  <2> QED BY <2>2, <2>3, <2>5, <2>8, <2>9, Arrives
<1> QED BY <1>1, <1>2

\* Assignments for all of the topic, which are already those of the partitions
\* that need no update.
LEMMA ProposeFirm ==
    ASSUME TypeInv, NEW a \in Appliers, ~Conf[a].dryRun, Firm(a),
           pc[a] \in {"readPlacement", "balance"}, Sized(a), Whole(a), Numbered(a),
           NEW d \in Seq(Replicas), Len(d) = Len(parts[Topic(a)]),
           run[a].quiet => Conf[a].anyPlacement \/ d \in Conf[a].placements,
           Propose(a, parts[Topic(a)], d), UNCHANGED phase
    PROVE  Firm(a)'
<1>a. /\ pc \in [Appliers -> Pcs] /\ run \in [Appliers -> RunType] /\ run[a] \in RunType
      /\ parts[Topic(a)] \in Seq(Partition)
  BY RunFacts DEF TypeInv, RunsTypeOK, LockInv, ControlTypeOK, StoreTypeOK
<1> DEFINE P == parts[Topic(a)]
<1>1. /\ pc'[a] = "askRun" /\ UNCHANGED <<parts, retention, reassign>>
      /\ run'[a] = [run[a] EXCEPT !.view = P, !.desired = d, !.answer = "none"]
  BY <1>a DEF Propose, Go, Set, ReadOnly, clusterVars
<1> HIDE DEF P
<1>2. /\ run'[a].view = P /\ run'[a].desired = d
      /\ run'[a].quiet = run[a].quiet /\ run'[a].retention = run[a].retention
  BY <1>a, <1>1 DEF RunType
<1>3. DOMAIN d = DOMAIN P
  BY <1>a, SeqUsed DEF P
<1>4. Left(a)' = ToUpdate(P, d)
  BY <1>1, <1>2 DEF Left
<1>5. \A i \in DOMAIN P \ ToUpdate(P, d) : Assigned(P[i]) = d[i]
  BY DEF ToUpdate
<1>6. run[a].quiet => Aimed(a)'
  BY <1>1, <1>2, <1>3, <1>4, <1>5 DEF Aimed, Topic, P
<1>7. Counted(a)' /\ (run[a].quiet => Known(a))
  BY <1>1, <1>6, SameStore DEF Counted, Known, Checking, Evaluating, Rounding, Leading
<1>8. Retained(a)'
  BY <1>1, <1>2 DEF Firm, Retained, Stepped, Checking, Ended, Topic
<1> QED BY <1>1, <1>2, <1>7, <1>8, Arrives

\* The second evaluation, under the lock unless the topic is new.
LEMMA ReadPlacementFirm ==
    ASSUME TypeInv, NEW a \in Appliers, ~FlakyReads, ~Conf[a].dryRun, Firm(a),
           ReadPlacement(a)
    PROVE  Ends(a) \/ Firm(a)'
<1>1. CASE Abort(a)
  BY <1>1, StopEnds
<1>2. CASE ~Abort(a)
  <2>1. PICK v \in Views(Topic(a)), d \in Conf[a].placements :
           Consistent(v) /\ Len(d) = Len(v) /\ Propose(a, v, d) /\ UNCHANGED phase
    BY <1>2 DEF ReadPlacement
  <2>2. pc[a] = "readPlacement" /\ Sized(a) /\ (Whole(a) \/ Fixed(a))
    BY DEF ReadPlacement, Firm, Counted, Evaluating
  <2>3. Whole(a) /\ Numbered(a) /\ v = parts[Topic(a)]
    BY <2>1, <2>2, EvaluatesAll
  <2>4. d \in Seq(Replicas)
    BY RunFacts DEF ConfType
  <2> QED BY <2>1, <2>2, <2>3, <2>4, ProposeFirm
<1> QED BY <1>1, <1>2

\* The rebalance starts from the placement the first rounds left.
LEMMA BalanceFirm ==
    ASSUME TypeInv, NEW a \in Appliers, ~FlakyReads, ~Conf[a].dryRun, Firm(a),
           \A d \in Conf[a].balanced : Conf[a].anyPlacement \/ d \in Conf[a].placements,
           Balance(a)
    PROVE  Ends(a) \/ Firm(a)'
<1>a. pc \in [Appliers -> Pcs] /\ Conf[a] \in ConfType
      /\ parts[Topic(a)] \in Seq(Partition)
  BY RunFacts DEF TypeInv, LockInv, ControlTypeOK, StoreTypeOK
<1>b. pc[a] = "balance" /\ Sized(a) /\ Whole(a) /\ Numbered(a)
      /\ (run[a].quiet => Satisfies(a, parts[Topic(a)]))
  BY DEF Balance, Firm, Counted, Converging
<1>1. CASE Abort(a)
  BY <1>1, StopEnds
<1>2. CASE Go(a, "leaders") /\ UNCHANGED <<phase, run>> /\ ReadOnly
  <2>1. pc'[a] = "leaders" /\ UNCHANGED <<parts, retention, reassign, phase, run>>
    BY <1>a, <1>2 DEF Go, ReadOnly, clusterVars
  <2>2. Counted(a)' /\ (run[a].quiet => Known(a))
    BY <1>b, <2>1, SameStore DEF Counted, Known, Checking, Evaluating, Rounding, Leading
  <2>3. Retained(a)'
    BY <1>b, <2>1 DEF Firm, Retained, Stepped, Checking, Ended, Topic
  <2> QED BY <1>b, <2>1, <2>2, <2>3, Arrives
<1>3. CASE ~Abort(a) /\ ~(Go(a, "leaders") /\ UNCHANGED <<phase, run>> /\ ReadOnly)
  <2>1. PICK v \in Views(Topic(a)) :
           \E d \in {e \in Conf[a].balanced : Len(e) = Len(v)} \cup {Lists(v)} :
              Propose(a, v, d) /\ UNCHANGED phase
    BY <1>3 DEF Balance
  <2>2. v = parts[Topic(a)]
    BY <1>b, ReadsAll
  <2>3. PICK d \in {e \in Conf[a].balanced : Len(e) = Len(v)} \cup {Lists(v)} :
           Propose(a, v, d) /\ UNCHANGED phase
    BY <2>1
  <2>4. d \in Seq(Replicas) /\ Len(d) = Len(v)
    BY <1>a, <2>2, <2>3, ListsType DEF ConfType
  <2>5. run[a].quiet => Conf[a].anyPlacement \/ d \in Conf[a].placements
    BY <1>b, <2>2, <2>3 DEF Satisfies
  <2> QED BY <1>b, <2>2, <2>3, <2>4, <2>5, ProposeFirm
<1> QED BY <1>1, <1>2, <1>3

\* The go-ahead for the rounds.
LEMMA AskRunFirm ==
    ASSUME TypeInv, NEW a \in Appliers, Firm(a), AskRun(a)
    PROVE  Ends(a) \/ Firm(a)'
<1>a. /\ pc \in [Appliers -> Pcs] /\ run \in [Appliers -> RunType] /\ run[a] \in RunType
  BY RunFacts DEF TypeInv, RunsTypeOK, LockInv, ControlTypeOK
<1>1. CASE Abort(a)
  BY <1>1, StopEnds
<1>2. CASE ~Abort(a)
  <2> DEFINE todo == ToUpdate(run[a].view, run[a].desired)
  <2>1. /\ pc[a] = "askRun" /\ pc'[a] = "batch" /\ UNCHANGED <<parts, retention, reassign, phase>>
        /\ run'[a] = [[run[a] EXCEPT !.todo = todo] EXCEPT !.answer = "yes"]
    BY <1>a, <1>2 DEF AskRun, Ask, Go, Set, ReadOnly, clusterVars
  <2> HIDE DEF todo
  <2>2. /\ run'[a].todo = todo /\ run'[a].desired = run[a].desired
        /\ run'[a].quiet = run[a].quiet /\ run'[a].retention = run[a].retention
    BY <1>a, <2>1 DEF RunType
  <2>3. Left(a)' = Left(a)
    BY <2>1, <2>2 DEF Left, todo
  <2>4. run[a].quiet => Aimed(a)'
    BY <2>1, <2>2, <2>3 DEF Firm, Converging, Rounding, Aimed, Topic
  <2>5. Counted(a)' /\ (run[a].quiet => Known(a))
    BY <2>1, <2>4, SameStore
       DEF Firm, Counted, Known, Checking, Evaluating, Rounding, Leading
  <2>6. Retained(a)'
    BY <2>1, <2>2 DEF Firm, Retained, Stepped, Checking, Ended, Topic
  <2> QED BY <2>1, <2>2, <2>5, <2>6, Arrives
<1> QED BY <1>1, <1>2

\* A round takes its batch from what is left, and when nothing is left the topic
\* is as proposed.
LEMMA BatchFirm ==
    ASSUME TypeInv, NEW a \in Appliers, Firm(a), Batch(a)
    PROVE  Firm(a)'
<1>a. /\ pc \in [Appliers -> Pcs] /\ run \in [Appliers -> RunType] /\ run[a] \in RunType
      /\ parts[Topic(a)] \in Seq(Partition)
  BY RunFacts DEF TypeInv, RunsTypeOK, LockInv, ControlTypeOK, StoreTypeOK
<1>b. /\ pc[a] = "batch" /\ UNCHANGED <<parts, retention, reassign, phase>>
      /\ Sized(a) /\ Whole(a) /\ Numbered(a)
  BY DEF Batch, ReadOnly, clusterVars, Firm, Counted, Rounding
<1>c. run[a].quiet => Aimed(a) /\ Left(a) = run[a].todo
  BY <1>b DEF Firm, Converging, Rounding, Left
<1>1. CASE run[a].todo = {}
  <2>1. pc'[a] = "leaders" /\ UNCHANGED run
    BY <1>a, <1>1 DEF Batch, Go
  <2>2. ASSUME run[a].quiet PROVE Satisfies(a, parts[Topic(a)])
    <3>1. /\ DOMAIN run[a].desired = DOMAIN parts[Topic(a)]
          /\ \A i \in DOMAIN parts[Topic(a)] :
                Assigned(parts[Topic(a)][i]) = run[a].desired[i]
      BY <1>1, <1>c, <2>2 DEF Aimed
    <3>2. run[a].desired \in Seq(Replicas)
      BY <1>a DEF RunType
    <3>3. run[a].desired = [i \in DOMAIN run[a].desired |-> run[a].desired[i]]
      BY <3>2
    <3>4. Lists(parts[Topic(a)]) = run[a].desired
      BY <3>1, <3>3 DEF Lists
    <3> QED BY <1>c, <2>2, <3>4 DEF Aimed, Satisfies
  <2>3. Counted(a)' /\ (run[a].quiet => Known(a))
    BY <1>b, <2>1, <2>2, SameStore DEF Counted, Known, Checking, Evaluating, Rounding, Leading
  <2>4. Retained(a)'
    BY <1>b, <2>1 DEF Firm, Retained, Stepped, Checking, Ended, Topic
  <2> QED BY <1>b, <2>1, <2>3, <2>4, Arrives
<1>2. CASE run[a].todo # {}
  <2> DEFINE batch == NextBatch(a)
             todo == run[a].todo \ batch
  <2>1. /\ pc'[a] \in {"assign", "throttleTopic"}
        /\ run'[a] = [run[a] EXCEPT !.batch = batch, !.todo = todo,
                         !.ownTopic = FALSE, !.ownBrokers = {}, !.queue = {}]
    BY <1>a, <1>2 DEF Batch, Go, Set
  <2> HIDE DEF batch
  <2>2. /\ run'[a].batch = batch /\ run'[a].todo = run[a].todo \ batch
        /\ run'[a].desired = run[a].desired
        /\ run'[a].quiet = run[a].quiet /\ run'[a].retention = run[a].retention
    BY <1>a, <2>1 DEF RunType
  <2>3. Left(a)' = run'[a].todo \cup run'[a].batch
    BY <2>1 DEF Left
  <2>4. run[a].quiet => Aimed(a)'
    BY <1>b, <1>c, <2>2, <2>3 DEF Aimed, Topic
  <2>5. Counted(a)' /\ (run[a].quiet => Known(a))
    BY <1>b, <2>1, <2>4, SameStore DEF Counted, Known, Checking, Evaluating, Rounding, Leading
  <2>6. Retained(a)'
    BY <1>b, <2>1, <2>2 DEF Firm, Retained, Stepped, Checking, Ended, Topic
  <2> QED BY <1>b, <2>1, <2>2, <2>5, <2>6, Arrives
<1> QED BY <1>1, <1>2

\* The request: the moves there are already are met, so that the only ones with
\* something to do are those of the batch.
LEMMA AssignFirm ==
    ASSUME TypeInv, NEW a \in Appliers, Firm(a), Assign(a)
    PROVE  Ends(a) \/ Firm(a)'
<1>a. /\ pc \in [Appliers -> Pcs]
      /\ run[a].batch \subseteq DOMAIN run[a].desired /\ run[a].desired \in Seq(Replicas)
  BY RunFacts DEF Assign, Shaped, Migrating, RunType, TypeInv, LockInv, ControlTypeOK
<1>1. CASE Abort(a)
  BY <1>1, StopEnds
<1>2. CASE ~Abort(a)
  <2> DEFINE kept == {m \in reassign : m.topic # Topic(a) \/ m.id \notin run[a].batch}
             new == {[topic |-> Topic(a), id |-> i, pref |-> run[a].desired[i].pref,
                      reps |-> run[a].desired[i].reps] : i \in run[a].batch}
  <2>1. /\ pc[a] = "assign" /\ pc'[a] = "poll" /\ reassign' = kept \cup new
        /\ UNCHANGED <<parts, retention, run, phase>>
    BY <1>a, <1>2 DEF Assign, Go
  <2>2. \A m \in new : m.topic = Topic(a) /\ m.id \in run[a].batch /\ Asked(a, m)
    <3> SUFFICES ASSUME NEW i \in run[a].batch
                 PROVE  Asked(a, [topic |-> Topic(a), id |-> i, pref |-> run[a].desired[i].pref,
                                  reps |-> run[a].desired[i].reps])
      BY DEF Asked
    <3>1. run[a].desired[i] \in Replicas
      BY <1>a, SeqUsed
    <3> QED BY <1>a, <3>1 DEF Asked, Replicas
  <2>3. \A i \in run[a].batch : \E m \in new : m.topic = Topic(a) /\ m.id = i
    <3> SUFFICES ASSUME NEW i \in run[a].batch
                 PROVE  \E m \in new : m.topic = Topic(a) /\ m.id = i
      OBVIOUS
    <3> DEFINE m == [topic |-> Topic(a), id |-> i, pref |-> run[a].desired[i].pref,
                     reps |-> run[a].desired[i].reps]
    <3>1. m \in new
      OBVIOUS
    <3>2. m.topic = Topic(a) /\ m.id = i
      OBVIOUS
    <3> QED BY <3>1, <3>2
  <2>4. \A m \in reassign : m \in kept \/ (m.topic = Topic(a) /\ m.id \in run[a].batch)
    OBVIOUS
  <2>5. \A m \in kept : m \in reassign /\ (m.topic # Topic(a) \/ m.id \notin run[a].batch)
    OBVIOUS
  <2> HIDE DEF kept, new
  <2>6. Tracked(a)'
    <3> SUFFICES ASSUME NEW i \in DOMAIN parts[Topic(a)]
                 PROVE  \/ InSync(parts[Topic(a)][i]) \/ parts[Topic(a)][i].isr = {}
                        \/ \E m \in reassign' : m.topic = Topic(a) /\ m.id = i
      BY <2>1 DEF Tracked, Topic
    <3>1. \/ InSync(parts[Topic(a)][i]) \/ parts[Topic(a)][i].isr = {}
          \/ \E m \in reassign : m.topic = Topic(a) /\ m.id = i
      BY DEF Firm, Stored, Tracked
    <3> QED BY <2>1, <2>3, <2>4, <3>1
  <2>7. Stored(a)'
    BY <2>1, <2>6, SameStore DEF Firm, Stored, Founded, Topic
  <2>8. Counted(a)'
    BY <2>1, SameStore DEF Firm, Counted, Checking, Evaluating, Rounding, Leading
  <2>9. Retained(a)'
    BY <2>1 DEF Firm, Retained, Stepped, Checking, Ended, Topic
  <2>10. ASSUME run[a].quiet PROVE MovesMet(a)'
    <3> SUFFICES ASSUME NEW m \in reassign'
                 PROVE  IF m.id \in run[a].batch THEN Asked(a, m)' ELSE Met(a, m)'
      BY <2>1 DEF MovesMet
    <3>1. CASE m \in new
      <4>1. Asked(a, m) /\ m.id \in run[a].batch
        BY <2>2, <3>1
      <4> QED BY <2>1, <4>1 DEF Asked, Topic
    <3>2. CASE m \in kept
      <4>1. Met(a, m)
        BY <2>1, <2>5, <2>10, <3>2 DEF Firm, Converging, MovesMet
      <4>2. m.id \notin run[a].batch
        BY <2>5, <3>2, <4>1 DEF Met
      <4> QED BY <2>1, <4>1, <4>2, SameStore
    <3> QED BY <2>1, <3>1, <3>2
  <2>11. ASSUME run[a].quiet PROVE Aimed(a)'
    <3>1. Left(a)' = Left(a)
      BY <2>1 DEF Left
    <3> QED BY <2>1, <2>11, <3>1 DEF Firm, Converging, Rounding, Aimed, Topic
  <2>12. Converging(a)'
    BY <2>1, <2>10, <2>11 DEF Converging, Leading
  <2> QED BY <2>7, <2>8, <2>9, <2>12 DEF Firm
<1> QED BY <1>1, <1>2

\* The poll: the moves of the batch are met too.
LEMMA PollFirm ==
    ASSUME TypeInv, NEW a \in Appliers, ~FlakyReads, Firm(a), Poll(a)
    PROVE  Firm(a)'
<1>a. /\ pc \in [Appliers -> Pcs] /\ run \in [Appliers -> RunType] /\ run[a] \in RunType
  BY RunFacts DEF TypeInv, RunsTypeOK, LockInv, ControlTypeOK
<1>1. /\ pc[a] = "poll" /\ pc'[a] \in {"unthrottleTopic", "unthrottleBrokers"}
      /\ UNCHANGED <<parts, retention, reassign, phase>>
      /\ run'[a] = [run[a] EXCEPT !.queue = run[a].ownBrokers]
  BY <1>a DEF Poll, Go, Set, ReadOnly, clusterVars
<1>2. /\ run'[a].todo = run[a].todo /\ run'[a].desired = run[a].desired
      /\ run'[a].quiet = run[a].quiet /\ run'[a].retention = run[a].retention
  BY <1>a, <1>1 DEF RunType
<1>3. Sized(a) /\ Whole(a) /\ Numbered(a)
  BY <1>1 DEF Firm, Counted, Rounding
<1>4. Ready(parts[Topic(a)], run[a].desired, run[a].batch)
  BY <1>3, ReadsAll DEF Poll
<1>5. Stored(a)'
  BY <1>1, SameStore DEF Firm
<1>6. Counted(a)'
  BY <1>1, <1>3, SameStore DEF Counted, Checking, Evaluating, Rounding, Leading
<1>7. Retained(a)'
  BY <1>1, <1>2 DEF Firm, Retained, Stepped, Checking, Ended, Topic
<1>8. ASSUME run[a].quiet, NEW m \in reassign PROVE Met(a, m)'
  <2>1. Met(a, m) \/ (Asked(a, m) /\ m.id \in run[a].batch)
    BY <1>1, <1>8 DEF Firm, Converging, MovesMet
  <2>2. Asked(a, m) /\ m.id \in run[a].batch => Met(a, m)
    BY <1>4 DEF Asked, Met, Ready
  <2> QED BY <1>1, <2>1, <2>2, SameStore
<1>9. ASSUME run[a].quiet PROVE Aimed(a)'
  <2>1. Left(a) = run[a].todo \cup run[a].batch /\ Left(a)' = run[a].todo
    BY <1>1, <1>2 DEF Left
  <2>2. Aimed(a)
    BY <1>1, <1>9 DEF Firm, Converging, Rounding
  <2> QED BY <1>1, <1>2, <1>4, <2>1, <2>2 DEF Aimed, Ready, Topic
<1>10. Converging(a)'
  BY <1>1, <1>2, <1>8, <1>9 DEF Converging, MovesMet, Leading
<1> QED BY <1>5, <1>6, <1>7, <1>10 DEF Firm

\* Leaving the leader checks, for the rebalance or for good.
LEMMA LeadersCheckedFirm ==
    ASSUME TypeInv, NEW a \in Appliers, Firm(a), pc[a] \in Leading, LeadersChecked(a), ReadOnly
    PROVE  Ends(a) \/ Firm(a)'
<1>a. pc \in [Appliers -> Pcs] /\ phase \in [Appliers -> Phases]
  BY DEF TypeInv, LockInv, ControlTypeOK
<1>b. UNCHANGED <<parts, retention, reassign>>
  BY DEF ReadOnly, clusterVars
<1>1. CASE Stop(a, "done")
  BY <1>1, <1>b, StopEnds DEF Ended, StoreSame
<1>2. CASE ~Stop(a, "done")
  <2>1. pc'[a] = "balance" /\ phase[a] = "update" /\ phase'[a] = "balance" /\ UNCHANGED run
    BY <1>a, <1>2 DEF LeadersChecked, Go, Enter
  <2>2. Counted(a)' /\ (run[a].quiet => Known(a))
    BY <1>b, <2>1, SameStore
       DEF Firm, Converging, Counted, Known, Checking, Evaluating, Rounding, Leading
  <2>3. Retained(a)'
    BY <1>b, <2>1 DEF Firm, Retained, Stepped, Checking, Ended, Leading, Topic
  <2> QED BY <1>b, <2>1, <2>2, <2>3, Arrives DEF Leading
<1> QED BY <1>1, <1>2

\* Looking for wrong leaders, and waiting until those found are right.
LEMMA LeadersFirm ==
    ASSUME TypeInv, NEW a \in Appliers, ~FlakyReads, ~Conf[a].dryRun, Firm(a),
           Leaders(a) \/ PollElect(a)
    PROVE  Ends(a) \/ Firm(a)'
<1>a. /\ pc \in [Appliers -> Pcs] /\ run \in [Appliers -> RunType] /\ run[a] \in RunType
  BY RunFacts DEF TypeInv, RunsTypeOK, LockInv, ControlTypeOK
<1>b. pc[a] \in Leading
  BY DEF Leaders, PollElect, Leading
<1>1. CASE Abort(a)
  BY <1>1, StopEnds
<1>2. CASE LeadersChecked(a) /\ ReadOnly
  BY <1>2, <1>b, LeadersCheckedFirm
<1>3. CASE ~Abort(a) /\ ~(LeadersChecked(a) /\ ReadOnly)
  <2>1. PICK v \in Views(Topic(a)) :
           /\ Set(a, [run[a] EXCEPT !.batch = WrongLeaders(v), !.answer = "none"])
           /\ Go(a, "lockLeaders")
    BY <1>3 DEF Leaders, PollElect
  <2>2. pc[a] = "leaders" /\ UNCHANGED <<parts, retention, reassign, phase>>
    BY <1>3 DEF Leaders, PollElect, ReadOnly, clusterVars
  <2>3. Sized(a) /\ Whole(a) /\ Numbered(a)
        /\ (run[a].quiet => Satisfies(a, parts[Topic(a)]))
    BY <2>2 DEF Firm, Counted, Converging, Leading
  <2>4. v = parts[Topic(a)]
    BY <2>3, ReadsAll
  <2> DEFINE wrong == WrongLeaders(v)
  <2>5. pc'[a] = "lockLeaders" /\ run'[a] = [run[a] EXCEPT !.batch = wrong, !.answer = "none"]
    BY <1>a, <2>1 DEF Go, Set
  <2> HIDE DEF wrong
  <2>6. run'[a].batch = wrong /\ run'[a].quiet = run[a].quiet
        /\ run'[a].retention = run[a].retention
    BY <1>a, <2>5 DEF RunType
  <2>7. Counted(a)' /\ (run[a].quiet => Known(a))
    BY <2>2, <2>3, <2>4, <2>5, <2>6, SameStore
       DEF Counted, Known, Checking, Evaluating, Rounding, Leading, wrong
  <2>8. Retained(a)'
    BY <2>2, <2>5, <2>6 DEF Firm, Retained, Stepped, Checking, Ended, Topic
  <2> QED BY <2>2, <2>5, <2>6, <2>7, <2>8, Arrives
<1> QED BY <1>1, <1>2, <1>3

\* Whatever a run does, it stays firm or is over.
LEMMA RunStepFirm ==
    ASSUME TypeInv, NEW a \in Appliers, ~FlakyReads, ~Conf[a].dryRun, Firm(a),
           BrokerMode \/ Fixed(a) \/ Founded(a),
           \A d \in Conf[a].balanced : Conf[a].anyPlacement \/ d \in Conf[a].placements,
           RunStep(a)
    PROVE  Firm(a)'
<1>1. ASSUME Ends(a) PROVE Firm(a)'
  BY <1>1, EndsSteady DEF Firm
<1>2. CASE StageStep(a)
  BY <1>1, <1>2, StageSteps, GoesOnSteady DEF Firm
<1>3. CASE CheckStep(a)
  BY <1>1, <1>2, <1>3, LookupFirm, CreateTopicFirm, SettleFirm DEF CheckStep, StageStep
<1>4. CASE UpdateStep(a)
  BY <1>1, <1>2, <1>4, SettingsFirm, WriteSettingsFirm, CountsFirm, ReadPartitionsFirm,
     AddPartitionsFirm, PollAddFirm DEF UpdateStep, StageStep
<1>5. CASE MoveStep(a)
  BY <1>1, <1>2, <1>5, PlacementFirm, ReadPlacementFirm, BalanceFirm, AskRunFirm, BatchFirm,
     AssignFirm, PollFirm DEF MoveStep, StageStep
<1>6. CASE LeaderStep(a)
  BY <1>1, <1>2, <1>6, LeadersFirm DEF LeaderStep, StageStep
<1>7. CASE LockStep(a) \/ FaultStep(a) \/ Start(a) \/ SessionExpires(a)
  BY <1>2, <1>7, StartFirm DEF LockStep, FaultStep, StageStep
<1> QED BY <1>3, <1>4, <1>5, <1>6, <1>7 DEF RunStep, Step

\* Nothing else disturbs it.
LEMMA OtherStepsFirm ==
    ASSUME TypeInv, NEW a \in Appliers, Firm(a), ControllerStep \/ Rest \/ UNCHANGED vars
    PROVE  Firm(a)'
<1>1. CASE ControllerStep
  BY <1>1, ControllerServes, ServesStored, ServesCounted, ServesConverging DEF Firm
<1>2. CASE Rest \/ UNCHANGED vars
  <2>1. UNCHANGED <<parts, retention, reassign, pc, phase, run>>
    BY <1>2 DEF Rest, vars, clusterVars
  <2>2. Measured(a)' = Measured(a) /\ \A k : Extending(a, k)' = Extending(a, k)
    BY <2>1, SameStore DEF Measured, Extending, Topic
  <2>3. Stored(a)' /\ Counted(a)'
    BY <2>1, <2>2, SameStore DEF Firm, Counted
  <2>4. Retained(a)'
    BY <2>1 DEF Firm, Retained, Stepped, Topic
  <2>5. \A m : Asked(a, m)' = Asked(a, m)
    BY <2>1 DEF Asked, Topic
  <2>6. Left(a)' = Left(a)
    BY <2>1 DEF Left
  <2>7. Converging(a)'
    BY <2>1, <2>5, <2>6, SameStore DEF Firm, Converging, MovesMet, Aimed, Topic
  <2> QED BY <2>3, <2>4, <2>7 DEF Firm
<1> QED BY <1>1, <1>2

\* A run reports success when the leader checks find no wrong leader.
LEMMA SuccessMeansRight ==
    ASSUME TypeInv, NEW a \in Appliers, ~FlakyReads, ~Conf[a].dryRun, Firm(a), run[a].quiet,
           RunStep(a), pc[a] \in {"leaders", "pollElect"}, pc'[a] = "done"
    PROVE  WrongLeaders(parts[Topic(a)]) = {}
<1>a. pc \in [Appliers -> Pcs]
  BY DEF TypeInv, LockInv, ControlTypeOK
<1>b. /\ Whole(a)
      /\ pc[a] = "pollElect" => WrongLeaders(parts[Topic(a)]) \subseteq run[a].batch
  BY DEF Firm, Counted, Converging, Leading
<1>1. Leaders(a) \/ PollElect(a)
  <2>1. ~CheckStep(a)
    BY DEF CheckStep, Lookup, AskCreate, CreateTopic, Settle, LockCheck, AskClearTopic,
       ClearTopic, ListTopics, AskClearBrokers, Ask
  <2>2. ~UpdateStep(a)
    BY DEF UpdateStep, Settings, AskSettings, WriteSettings, Counts, ReadPartitions, AskAdd,
       AddPartitions, PollAdd, Ask
  <2>3. ~MoveStep(a)
    BY DEF MoveStep, Placement, AskWarn, ReadPlacement, Balance, AskRun, Batch,
       ThrottleTopic, ThrottleBroker, Assign, Poll, UnthrottleTopic, UnthrottleBroker,
       UnthrottleDone, AskNext, Ask
  <2>4. ~(LockStep(a) \/ Start(a) \/ SessionExpires(a) \/ UnthrottleFault(a))
    BY DEF LockStep, Acquire, LockTimeout, Start, SessionExpires, UnthrottleFault, Waiting, Ended
  <2>5. ~(Fail(a) \/ Crash(a))
    BY <1>a DEF Fail, Crash, Stop, Go, Outcome
  <2>6. ~(AskElect(a) \/ Elect(a))
    BY DEF AskElect, Elect, Ask
  <2> QED BY <2>1, <2>2, <2>3, <2>4, <2>5, <2>6 DEF RunStep, Step, FaultStep, LeaderStep
<1>2. CASE Leaders(a)
  <2>1. PICK v \in Views(Topic(a)) : WrongLeaders(v) = {}
    BY <1>a, <1>2 DEF Leaders, Abort, Stop, Go, Outcome
  <2> QED BY <1>b, <2>1, ReadsAll
<1>3. CASE PollElect(a)
  <2>1. PICK v \in Views(Topic(a)) : WrongLeaders(v) \cap run[a].batch = {}
    BY <1>3 DEF PollElect
  <2>2. pc[a] = "pollElect" /\ v = parts[Topic(a)]
    BY <1>b, <1>3, ReadsAll DEF PollElect
  <2> QED BY <1>b, <2>1, <2>2
<1> QED BY <1>1, <1>2, <1>3

\* Then nothing is left to do.
LEMMA FirmConverges ==
    ASSUME TypeInv, NEW a \in Appliers, Firm(a), run[a].quiet,
           pc[a] \in {"leaders", "pollElect"}, WrongLeaders(parts[Topic(a)]) = {}
    PROVE  /\ Converged(a)
           /\ phase[a] # "new" => Stepped(a, run[a].retention, retention[Topic(a)])
<1>1. Sized(a) /\ Satisfies(a, parts[Topic(a)]) /\ MovesMet(a) /\ Tracked(a)
  BY DEF Firm, Stored, Counted, Converging, Leading
<1>2. \A i \in DOMAIN parts[Topic(a)] : parts[Topic(a)][i].isr # {}
  BY DEF WrongLeaders
<1>3. AllInSync(parts[Topic(a)])
  <2> SUFFICES ASSUME NEW i \in DOMAIN parts[Topic(a)] PROVE InSync(parts[Topic(a)][i])
    BY DEF AllInSync
  <2>1. \A m \in reassign : m.topic = Topic(a) /\ m.id = i => InSync(parts[Topic(a)][i])
    BY <1>1 DEF MovesMet, Met
  <2> QED BY <1>1, <1>2, <2>1 DEF Tracked
<1>4. phase[a] # "new" => Stepped(a, run[a].retention, retention[Topic(a)])
  BY DEF Firm, Retained, Checking, Ended
<1> QED BY <1>1, <1>3, <1>4 DEF Converged, Sized

\* Without other runs and without failing reads, of topics that were in sync at
\* first, whatever earlier runs asked of the controller and however they were
\* broken off: a run that starts when that is served and reports success leaves
\* its topic as configured.  The rebalancer must keep the strategy; and with
\* ZooKeeper a topic still to be created needs placements of its own size, as the
\* evaluation right after the creation may read only some of its partitions.
THEOREM ConvergenceSafety ==
    ASSUME Alone, ~FlakyReads,
           \A c \in InitialClusters : \A t \in Topics : AllInSync(c.parts[t]),
           \A a \in Appliers : \A d \in Conf[a].balanced :
              Conf[a].anyPlacement \/ d \in Conf[a].placements,
           \A a \in Appliers : BrokerMode \/ Fixed(a) \/ Founded(a)
    PROVE  Spec => SuccessConverges
<1> DEFINE Steady == \A a \in Appliers : ~Conf[a].dryRun => Firm(a)
<1>1. Init => Steady
  <2> SUFFICES ASSUME Init, NEW a \in Appliers PROVE Firm(a)
    OBVIOUS
  <2>1. PICK c \in InitialClusters : parts = c.parts
    BY DEF Init
  <2>2. /\ parts[Topic(a)] \in Seq(Partition) /\ AllInSync(parts[Topic(a)])
    <3>1. Topic(a) \in Topics /\ c.parts \in [Topics -> Seq(Partition)]
      BY <2>1, InitialAssumption, ConfAssumption DEF ConfType, Topic
    <3> QED BY <2>1, <3>1
  <2>3. \A i \in DOMAIN parts[Topic(a)] :
           InSync(parts[Topic(a)][i]) /\ parts[Topic(a)][i].isr # {}
    <3> SUFFICES ASSUME NEW i \in DOMAIN parts[Topic(a)]
                 PROVE  InSync(parts[Topic(a)][i]) /\ parts[Topic(a)][i].isr # {}
      OBVIOUS
    <3>1. parts[Topic(a)][i] \in Partition
      BY <2>2, SeqUsed
    <3>2. InSync(parts[Topic(a)][i])
      BY <2>2 DEF AllInSync
    <3> QED BY <3>1, <3>2 DEF InSync, Partition
  <2>4. Whole(a)
    BY <2>3 DEF Whole, Up
  <2>5. Stored(a)
    BY <2>1, <2>3, <2>4 DEF Stored, Tracked, Founded
  <2>6. pc[a] = "idle" /\ ~run[a].quiet
    BY DEF Init, NoRun
  <2>7. Counted(a) /\ Retained(a) /\ Converging(a)
    BY <2>6 DEF Counted, Retained, Converging, Checking, Evaluating, Rounding, Leading
  <2> QED BY <2>5, <2>7 DEF Firm
<1>2. TypeInv /\ Steady /\ [Next]_vars => Steady'
  <2> SUFFICES ASSUME TypeInv, Steady, [Next]_vars, NEW a \in Appliers, ~Conf[a].dryRun
               PROVE  Firm(a)'
    OBVIOUS
  <2>1. ASSUME NEW b \in Appliers, RunStep(b) PROVE Firm(a)'
    BY <2>1, RunStepFirm DEF Alone
  <2>2. CASE ControllerStep \/ Rest \/ UNCHANGED vars
    BY <2>2, OtherStepsFirm
  <2> QED BY <2>1, <2>2 DEF Next, RunStep
<1>3. TypeInv /\ Steady /\ [Next]_vars
         => [\A a \in Appliers : Succeeds(a) /\ run[a].quiet =>
                /\ Converged(a)'
                /\ phase[a] # "new" => Stepped(a, run[a].retention, retention'[Topic(a)])]_vars
  <2> SUFFICES ASSUME TypeInv, Steady, [Next]_vars, NEW a \in Appliers, Succeeds(a),
                      run[a].quiet
               PROVE  /\ Converged(a)'
                      /\ phase[a] # "new" => Stepped(a, run[a].retention, retention'[Topic(a)])
    OBVIOUS
  <2>1. Moves(a)
    BY DEF Succeeds, Moves
  <2>2. RunStep(a)
    BY <2>1, OtherStepsMoveNone DEF Next, RunStep, Alone
  <2>3. pc[a] \in {"leaders", "pollElect"} /\ UNCHANGED <<parts, retention>>
    BY <2>2, SuccessIsLast DEF clusterVars
  <2>4. Firm(a) /\ ~Conf[a].dryRun /\ pc'[a] = "done"
    BY DEF Succeeds
  <2>5. WrongLeaders(parts[Topic(a)]) = {}
    BY <2>2, <2>3, <2>4, SuccessMeansRight
  <2>6. /\ Converged(a)
        /\ phase[a] # "new" => Stepped(a, run[a].retention, retention[Topic(a)])
    BY <2>3, <2>4, <2>5, FirmConverges
  <2>7. Converged(a)' = Converged(a)
    BY <2>3 DEF Converged, Satisfies, Lists, AllInSync, WrongLeaders, Topic
  <2> QED BY <2>3, <2>6, <2>7
<1>4. Spec => []TypeInv
  BY TypeInvariant
<1> QED BY <1>1, <1>2, <1>3, <1>4, PTL DEF Spec, SuccessConverges
=============================================================================
