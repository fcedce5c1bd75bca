----------------------------- MODULE TopicApply -----------------------------
(***************************************************************************)
(* Concurrent runs of `topicctl apply` (pkg/apply/apply.go), one topic per *)
(* run, on the cluster of module KafkaCluster.  One step is one call to    *)
(* the admin client or one prompt, with the local computation around it,   *)
(* so that other runs and the controller act between any two of them.      *)
(*                                                                         *)
(* pc[a] names the call or prompt run a makes next; phase[a] says which    *)
(* function's locals are live and with it what an error does: before the   *)
(* changes tracker exists ("check", "create") Apply dereferences nil.      *)
(***************************************************************************)
EXTENDS KafkaCluster, FiniteSetsExt

CONSTANTS
    Conf,       \* run -> its flags, topic config and cluster config
    NewLists,   \* replica lists the picker or the broker can give
    InitialClusters, \* states of topics, settings and throttles to start from
    MaxRuns,    \* bound: times one applier is started
    MaxFaults   \* bound: failed calls, cancellations and crashes, in total

\* What the model needs from the two configurations and the flags.
\* placements: the assignments that satisfy the strategy; balanced: what the
\* rebalancer may propose; both as sequences of replica lists
ConfType ==
    [topic: Topics, partitions: Nat, replication: Nat, retention: Nat,
     dropStep: Nat, placements: SUBSET Seq(Replicas),
     balanced: SUBSET Seq(Replicas), anyPlacement: BOOLEAN,
     extendable: BOOLEAN, warn: BOOLEAN, batch: Nat \ {0}, dryRun: BOOLEAN,
     skipConfirm: BOOLEAN, rebalance: BOOLEAN, autoContinue: BOOLEAN,
     ignoreFewer: BOOLEAN, destructive: BOOLEAN]

ASSUME ConfAssumption == Conf \in [Appliers -> ConfType]
ASSUME ListsAssumption == NewLists \subseteq Replicas
ASSUME InitialAssumption ==
    InitialClusters \subseteq
        [parts: [Topics -> Seq(Partition)], retention: [Topics -> Nat],
         topicThr: [Topics -> TopicThrottle],
         brokerThr: [Brokers -> [Keys -> {Operator, Nobody}]]]
ASSUME BoundsAssumption == MaxRuns \in Nat /\ MaxFaults \in Nat

VARIABLES
    pc,         \* run -> the call or prompt it makes next
    phase,      \* run -> the part of Apply it is in
    run,        \* run -> its local variables
    runs,       \* run -> times started
    faults      \* faults so far

vars == <<clusterVars, lock, pc, phase, run, runs, faults>>

Topic(a) == Conf[a].topic
\* acquireClusterLock and acquireTopicLock take one; the ZooKeeper client's
\* cluster has a zkLockPath, the broker client's AcquireLock does nothing
NeedsLock(a) == ~BrokerMode /\ ~Conf[a].dryRun

(***************************************************************************)
(* Local variables of a run.  view is the TopicInfo the current function   *)
(* holds, throttled and retention the config read with the first one, seen *)
(* the throttled brokers of NewTopicApplier's snapshot, desired the        *)
(* assignments to reach, size the partitions of a round, todo and batch    *)
(* partition ids, ownTopic and                                             *)
(* ownBrokers the results of applyThrottles, queue the brokers still to    *)
(* visit.  quiet, answer and cleaned are history: whether the controller   *)
(* had nothing to do when the run started, the last answer given in this   *)
(* stage, and whether checkExistingState examined the throttles.           *)
(***************************************************************************)
RunType ==
    [view: Seq(Partition), throttled: BOOLEAN, retention: Nat,
     seen: SUBSET Brokers, desired: Seq(Replicas), size: Nat,
     todo: SUBSET (Nat \ {0}),
     batch: SUBSET (Nat \ {0}), ownTopic: BOOLEAN, ownBrokers: SUBSET Brokers,
     queue: SUBSET Brokers, failed: BOOLEAN, quiet: BOOLEAN,
     answer: {"none", "yes", "no"}, cleaned: BOOLEAN]

NoRun == [view |-> <<>>, throttled |-> FALSE, retention |-> 0, seen |-> {},
          desired |-> <<>>, size |-> 0, todo |-> {}, batch |-> {}, ownTopic |-> FALSE,
          ownBrokers |-> {}, queue |-> {}, failed |-> FALSE, quiet |-> FALSE,
          answer |-> "none", cleaned |-> FALSE]

Ended == {"done", "failed", "panicked", "crashed"}
Prompts == {"askCreate", "askClearTopic", "askClearBrokers", "askSettings",
            "askAdd", "askWarn", "askRun", "askNext", "askElect"}
Waiting == {"lockPartitions", "lockPlacement", "lockLeaders"}
Calls == {"lookup", "lockCheck", "clearTopic", "listTopics",
          "clearBrokers", "create", "settle", "writeSettings", "readPartitions",
          "addPartitions", "pollAdd", "placement", "readPlacement",
          "throttleTopic", "throttleBrokers", "assign", "poll",
          "unthrottleTopic", "unthrottleBrokers", "leaders", "elect",
          "pollElect", "balance"}
Locals == {"settings", "counts", "batch"}
Pcs == {"idle"} \cup Ended \cup Prompts \cup Waiting \cup Calls \cup Locals
Phases == {"lookup", "check", "create", "update", "new", "balance"}

TypeOK ==
    /\ ClusterTypeOK
    /\ pc \in [Appliers -> Pcs]
    /\ phase \in [Appliers -> Phases]
    /\ run \in [Appliers -> RunType]
    /\ runs \in [Appliers -> 0..MaxRuns]
    /\ faults \in 0..MaxFaults

(***************************************************************************)
(* Vocabulary of the steps.                                                *)
(***************************************************************************)
Go(a, label) == pc' = [pc EXCEPT ![a] = label]
Set(a, r) == run' = [run EXCEPT ![a] = r]
Enter(a, name) == phase' = [phase EXCEPT ![a] = name]
\* mutant: lets go of a lock it may not hold
UnlockAny(a) == lock' = Nobody
Unlock(a) == lock' = IF lock = a THEN Nobody ELSE lock
Quiet == UNCHANGED <<runs, faults>>
ReadOnly == UNCHANGED clusterVars /\ Quiet

Stop(a, outcome) ==
    /\ Go(a, outcome)
    /\ Set(a, NoRun)
    /\ Enter(a, "lookup")
    /\ Unlock(a)

\* an error returned out of the function that is running
Outcome(a) == IF phase[a] \in {"check", "create"} THEN "panicked" ELSE "failed"
Abort(a) == Stop(a, Outcome(a)) /\ ReadOnly

\* util.Confirm; end of input counts as "no" except where its error is returned
Answers(a) == IF Conf[a].skipConfirm THEN {"yes"} ELSE {"yes", "no"}

LeastOf(S) == {b \in S : \A c \in S : b <= c}

Lists(view) == [i \in DOMAIN view |-> Assigned(view[i])]
MaxISR(view) == Max({0} \cup {Cardinality(view[i].isr) : i \in DOMAIN view})

\* admin.CheckAssignments
Consistent(view) ==
    /\ view # <<>>
    /\ \A i \in DOMAIN view : view[i].id = i
    /\ \A i, j \in DOMAIN view :
          Cardinality(view[i].reps) = Cardinality(view[j].reps)

Satisfies(a, view) == Conf[a].anyPlacement \/ Lists(view) \in Conf[a].placements

\* admin.AssignmentsToUpdate
ToUpdate(view, desired) == {i \in DOMAIN view : Assigned(view[i]) # desired[i]}

\* admin.LeaderPartitionThrottles and FollowerPartitionThrottles
Moved(view, desired, batch) ==
    {i \in batch : view[i].reps # desired[i].reps}
\* mutant: throttles the leaders to come instead of those there
NewLeaderThrottles(view, desired, batch) ==
    UNION {{i} \X desired[i].reps : i \in Moved(view, desired, batch)}
LeaderThrottles(view, desired, batch) ==
    UNION {{i} \X view[i].reps : i \in Moved(view, desired, batch)}
FollowerThrottles(view, desired, batch) ==
    UNION {{i} \X (desired[i].reps \ view[i].reps) :
              i \in Moved(view, desired, batch)}
\* mutant: forgets the brokers that receive replicas
SourcesOnly(view, desired, batch) ==
    UNION {view[i].reps : i \in Moved(view, desired, batch)}
\* admin.BrokerThrottles
ThrottledBy(view, desired, batch) ==
    UNION {view[i].reps \cup desired[i].reps : i \in Moved(view, desired, batch)}

\* mutant: does not compare the replicas
ReadyInSync(view, desired, batch) ==
    \A i \in batch : i \in DOMAIN view /\ InSync(view[i])
\* mutant: off by one, asks for a partition too many
ReadyBeyond(view, desired, batch) ==
    \A i \in batch : /\ i + 1 \in DOMAIN view
                     /\ InSync(view[i])
                     /\ Assigned(view[i]) = desired[i]
\* the poll of updatePartitionsIteration finds every partition of the batch
\* in sync with exactly the replicas asked for
Ready(view, desired, batch) ==
    \A i \in batch : /\ i \in DOMAIN view
                     /\ InSync(view[i])
                     /\ Assigned(view[i]) = desired[i]

\* TopicSettings.ReduceRetentionDrop, applied to the wanted retention
NextRetention(a, current) ==
    IF Conf[a].dropStep > 0 /\ current - Conf[a].retention > Conf[a].dropStep
    THEN current - Conf[a].dropStep
    ELSE Conf[a].retention

(***************************************************************************)
(* Starting, and the cluster lock (acquireClusterLock, acquireTopicLock:   *)
(* both lock clusterLockPath).                                             *)
(***************************************************************************)
Start(a) ==
    /\ pc[a] \in {"idle"} \cup Ended
    /\ runs[a] < MaxRuns
    /\ lock # a
    /\ runs' = [runs EXCEPT ![a] = @ + 1]
    /\ Go(a, "lookup")
    /\ Enter(a, "lookup")
    /\ Set(a, [NoRun EXCEPT !.seen = {b \in Brokers : BrokerThrottled(b)},
                            !.quiet = (reassign = {} /\ election = {})])
    /\ UNCHANGED <<clusterVars, lock, faults>>

AfterLock(a) ==
    CASE pc[a] = "lockPartitions" -> "readPartitions"
      [] pc[a] = "lockPlacement" -> IF Conf[a].warn THEN "askWarn"
                                                    ELSE "readPlacement"
      [] pc[a] = "lockLeaders" -> "askElect"

\* mutant: does not wait for the lock to be free
AcquireAnyway(a) ==
    /\ pc[a] \in Waiting
    /\ IF NeedsLock(a) THEN lock' = a ELSE UNCHANGED lock
    /\ Go(a, AfterLock(a))
    /\ ReadOnly /\ UNCHANGED <<phase, run>>

Acquire(a) ==
    /\ pc[a] \in Waiting
    /\ IF NeedsLock(a) THEN lock = Nobody /\ lock' = a ELSE UNCHANGED lock
    /\ Go(a, AfterLock(a))
    /\ ReadOnly /\ UNCHANGED <<phase, run>>

\* the 30 seconds of the lock's context pass
LockTimeout(a) ==
    /\ pc[a] \in Waiting
    /\ NeedsLock(a)
    /\ lock # Nobody
    /\ Abort(a)

(***************************************************************************)
(* Apply and applyNewTopic.                                                *)
(***************************************************************************)
Lookup(a) ==
    /\ pc[a] = "lookup"
    /\ \/ /\ Missing(Topic(a))
          /\ IF Conf[a].dryRun
             THEN Stop(a, "done")
             ELSE Go(a, "askCreate") /\ Enter(a, "create") /\ UNCHANGED <<run, lock>>
       \/ /\ parts[Topic(a)] # <<>>
          /\ \E v \in Views(Topic(a)) :
                Set(a, [run[a] EXCEPT !.view = v,
                          !.throttled = TopicThrottled(Topic(a)),
                          !.retention = retention[Topic(a)]])
          /\ Go(a, "lockCheck")
          /\ Enter(a, "check")
          /\ UNCHANGED lock
    /\ ReadOnly

\* mutant: numbers partitions from 0
CreatedFromZero(i, list) == [id |-> i - 1, pref |-> list.pref, reps |-> list.reps,
                             isr |-> {}, leader |-> list.pref]
\* a partition the controller has yet to bring up
Created(i, list) == [id |-> i, pref |-> list.pref, reps |-> list.reps,
                     isr |-> {}, leader |-> list.pref]

CreateTopic(a) ==
    /\ pc[a] = "create"
    /\ IF parts[Topic(a)] # <<>>
       THEN Abort(a)
       ELSE /\ \E lists \in [1..Conf[a].partitions ->
                    {r \in NewLists : Cardinality(r.reps) = Conf[a].replication}] :
                 parts' = [parts EXCEPT ![Topic(a)] =
                    [i \in 1..Conf[a].partitions |-> Created(i, lists[i])]]
            /\ retention' = [retention EXCEPT ![Topic(a)] = Conf[a].retention]
            /\ Go(a, "settle")
            /\ UNCHANGED <<phase, run, topicThr, brokerThr, reassign, election, lock>>
            /\ Quiet

\* the short sleep after the creation; what follows has a changes tracker
Settle(a) ==
    /\ pc[a] = "settle"
    /\ Go(a, "placement")
    /\ Enter(a, "new")
    /\ UNCHANGED <<run, lock>> /\ ReadOnly

(***************************************************************************)
(* checkExistingState.                                                     *)
(***************************************************************************)
\* mutant: leaves the brokers' throttles
NoBrokerCleanup(a) == "settings"
\* after the topic's own throttles are dealt with
AfterTopicThrottles(a) == IF run[a].seen # {} THEN "listTopics" ELSE "settings"

\* LockHeld: the lock node has children, the holder's or, if it was created
\* already, a waiter's
LockCheck(a) ==
    /\ pc[a] = "lockCheck"
    /\ \E held \in {lock # Nobody,
                   lock # Nobody \/ \E b \in Appliers : pc[b] \in Waiting /\ NeedsLock(b)} :
          LET look == AllInSync(run[a].view) /\ ~held
          IN  /\ Set(a, [run[a] EXCEPT !.cleaned = look])
              /\ Go(a, CASE ~look -> "settings"
                         [] look /\ run[a].throttled /\ ~Conf[a].dryRun -> "askClearTopic"
                         [] OTHER -> AfterTopicThrottles(a))
    /\ UNCHANGED <<phase, lock>> /\ ReadOnly

\* "no" only logs "Skipping removal"; an unreadable answer is returned
AskClearTopic(a) ==
    /\ pc[a] = "askClearTopic"
    /\ \/ \E ok \in Answers(a) : /\ Set(a, [run[a] EXCEPT !.answer = ok])
                                 /\ Go(a, "clearTopic")
                                 /\ UNCHANGED <<phase, lock>> /\ ReadOnly
       \/ ~Conf[a].skipConfirm /\ Abort(a)

WriteTopicThrottle(t, throttle) ==
    /\ topicThr' = [topicThr EXCEPT ![t] = throttle]
    /\ UNCHANGED <<parts, retention, brokerThr, reassign, election, lock>>

ClearTopic(a) ==
    /\ pc[a] = "clearTopic"
    /\ WriteTopicThrottle(Topic(a), Unthrottled)
    /\ Go(a, AfterTopicThrottles(a))
    /\ UNCHANGED <<phase, run>> /\ Quiet

ListTopics(a) ==
    /\ pc[a] = "listTopics"
    /\ \E found \in ThrottledTopics :
          Go(a, IF Conf[a].dryRun \/ found # {} THEN "settings" ELSE "askClearBrokers")
    /\ UNCHANGED <<phase, run, lock>> /\ ReadOnly

AskClearBrokers(a) ==
    /\ pc[a] = "askClearBrokers"
    /\ \/ \E ok \in Answers(a) :
            /\ Set(a, [run[a] EXCEPT !.answer = ok, !.queue = run[a].seen])
            /\ Go(a, IF ok = "yes" THEN "clearBrokers" ELSE "settings")
            /\ UNCHANGED <<phase, lock>> /\ ReadOnly
       \/ ~Conf[a].skipConfirm /\ Abort(a)

(***************************************************************************)
(* removeThottles: the topic's two keys, then each broker's two keys; an   *)
(* error is collected, the rest is still cleared, and it is returned last. *)
(***************************************************************************)
UnthrottleTopic(a) ==
    /\ pc[a] = "unthrottleTopic"
    /\ WriteTopicThrottle(Topic(a), Unthrottled)
    /\ Go(a, "unthrottleBrokers")
    /\ UNCHANGED <<phase, run>> /\ Quiet

UnthrottleBroker(a) ==
    /\ pc[a] \in {"clearBrokers", "unthrottleBrokers"}
    /\ \E b \in LeastOf(run[a].queue) :
          /\ brokerThr' = [brokerThr EXCEPT ![b] = NoKeys]
          /\ Set(a, [run[a] EXCEPT !.queue = @ \ {b}])
    /\ UNCHANGED <<parts, retention, topicThr, reassign, election, lock, pc, phase>>
    /\ Quiet

UnthrottleFault(a) ==
    /\ faults < MaxFaults
    /\ faults' = faults + 1
    /\ \/ /\ pc[a] = "unthrottleTopic"
          /\ Go(a, "unthrottleBrokers")
          /\ Set(a, [run[a] EXCEPT !.failed = TRUE])
       \/ /\ pc[a] \in {"clearBrokers", "unthrottleBrokers"}
          /\ \E b \in LeastOf(run[a].queue) :
                Set(a, [run[a] EXCEPT !.failed = TRUE, !.queue = @ \ {b}])
          /\ UNCHANGED pc
    /\ UNCHANGED <<clusterVars, lock, phase, runs>>

UnthrottleDone(a) ==
    /\ pc[a] \in {"clearBrokers", "unthrottleBrokers"}
    /\ run[a].queue = {}
    /\ IF run[a].failed
       THEN Abort(a)
       ELSE /\ Go(a, IF pc[a] = "clearBrokers" THEN "settings" ELSE "askNext")
            /\ UNCHANGED <<phase, run, lock>> /\ ReadOnly

(***************************************************************************)
(* updateSettings.  The config it diffs is the one read at Lookup, and a   *)
(* throttled topic's two throttle keys count as keys the config lacks.     *)
(***************************************************************************)
RetentionDiffers(a) == run[a].retention # Conf[a].retention
DeletesThrottles(a) == Conf[a].destructive /\ run[a].throttled

Settings(a) ==
    /\ pc[a] = "settings"
    /\ Enter(a, "update")
    /\ Go(a, IF (RetentionDiffers(a) \/ DeletesThrottles(a)) /\ ~Conf[a].dryRun
             THEN "askSettings" ELSE "counts")
    /\ Set(a, [run[a] EXCEPT !.answer = "none"])
    /\ UNCHANGED lock /\ ReadOnly

\* mutant: goes on whatever the answer
AskHeedless(a, label, r, next) ==
    /\ pc[a] = label
    /\ \E ok \in Answers(a) : Set(a, [r EXCEPT !.answer = ok])
    /\ Go(a, next)
    /\ UNCHANGED <<phase, lock>> /\ ReadOnly

\* a prompt whose "no" is "Stopping because of user response"
Ask(a, label, r, next) ==
    /\ pc[a] = label
    /\ \/ /\ Set(a, [r EXCEPT !.answer = "yes"])
          /\ Go(a, next)
          /\ UNCHANGED <<phase, lock>> /\ ReadOnly
       \/ "no" \in Answers(a) /\ Abort(a)

AskCreate(a) == Ask(a, "askCreate", run[a], "create")
AskSettings(a) == Ask(a, "askSettings", run[a], "writeSettings")

WriteSettings(a) ==
    /\ pc[a] = "writeSettings"
    /\ retention' = [retention EXCEPT ![Topic(a)] =
          IF RetentionDiffers(a) THEN NextRetention(a, run[a].retention) ELSE @]
    /\ topicThr' = [topicThr EXCEPT ![Topic(a)] =
          IF DeletesThrottles(a) THEN Unthrottled ELSE @]
    /\ Go(a, "counts")
    /\ UNCHANGED <<parts, brokerThr, reassign, election, lock, phase, run>>
    /\ Quiet

(***************************************************************************)
(* updateReplication and updatePartitions, on the view of Lookup.          *)
(***************************************************************************)
Counts(a) ==
    /\ pc[a] = "counts"
    /\ LET n == Len(run[a].view)
       IN  IF MaxISR(run[a].view) # Conf[a].replication
           THEN Abort(a)
           ELSE IF n > Conf[a].partitions
           THEN IF Conf[a].ignoreFewer THEN Stop(a, "done") /\ ReadOnly ELSE Abort(a)
           ELSE /\ Go(a, IF n < Conf[a].partitions THEN "lockPartitions"
                                                   ELSE "placement")
                /\ UNCHANGED <<phase, run, lock>> /\ ReadOnly

\* updatePartitionsHelper reads again under the lock; slicing off the extra
\* assignments panics when there are now more partitions than configured, and
\* so does the first assignment of an empty list
ReadPartitions(a) ==
    /\ pc[a] = "readPartitions"
    /\ \E v \in Views(Topic(a)) :
          LET extra == Conf[a].partitions - Len(v)
          IN  IF ~Conf[a].extendable
              THEN Abort(a)
              ELSE IF extra < 0 \/ v = <<>>
              THEN Stop(a, "panicked") /\ ReadOnly
              ELSE IF Conf[a].dryRun
              THEN /\ Go(a, "placement") /\ Unlock(a)
                   /\ UNCHANGED <<phase, run>> /\ ReadOnly
              ELSE /\ \E lists \in [1..extra -> {r \in NewLists :
                          Cardinality(r.reps) = Cardinality(v[1].reps)}] :
                        Set(a, [run[a] EXCEPT !.view = v, !.answer = "none",
                                  !.desired = Lists(v) \o lists,
                                  !.batch = Len(v) + 1 .. Conf[a].partitions])
                   /\ Go(a, "askAdd")
                   /\ UNCHANGED <<phase, lock>> /\ ReadOnly

AskAdd(a) == Ask(a, "askAdd", run[a], "addPartitions")

\* mutant: overwrites the ids that are taken
AddPartitionsOver(a) ==
    /\ pc[a] = "addPartitions"
    /\ parts' = [parts EXCEPT ![Topic(a)] =
          [i \in DOMAIN @ \cup run[a].batch |->
              IF i \in run[a].batch THEN Created(i, run[a].desired[i]) ELSE @[i]]]
    /\ Go(a, "pollAdd")
    /\ UNCHANGED <<retention, topicThr, brokerThr, reassign, election, lock, phase, run>>
    /\ Quiet

\* AddPartitions: in ZooKeeper it fails when an id is taken, else the topic node
\* gets them all; through the brokers the lists become the next partitions after
\* those there now.  The controller has yet to create them.
AddPartitions(a) ==
    LET t == Topic(a)
        new == run[a].batch
        known == Len(run[a].desired) - Cardinality(new)
        shift == IF BrokerMode THEN Len(parts[t]) ELSE known
    IN  /\ pc[a] = "addPartitions"
        /\ IF IF BrokerMode THEN new = {} ELSE new \cap DOMAIN parts[t] # {}
           THEN Abort(a)
           ELSE /\ parts' = [parts EXCEPT ![t] = @ \o
                      [i \in 1..Cardinality(new) |->
                         Created(shift + i, run[a].desired[known + i])]]
                /\ Go(a, "pollAdd")
                /\ UNCHANGED <<retention, topicThr, brokerThr, reassign,
                               election, lock, phase, run>>
                /\ Quiet

PollAdd(a) ==
    /\ pc[a] = "pollAdd"
    /\ \E v \in Views(Topic(a)) : Ready(v, run[a].desired, run[a].batch)
    /\ Go(a, "placement")
    /\ Unlock(a)
    /\ UNCHANGED <<phase, run>> /\ ReadOnly

(***************************************************************************)
(* updatePlacement evaluates before it locks and updatePlacementHelper     *)
(* reads again after; the placement of a new topic takes no lock.          *)
(***************************************************************************)
Placement(a) ==
    /\ pc[a] = "placement"
    /\ \E v \in Views(Topic(a)) :
          IF ~Consistent(v)
          THEN Abort(a)
          ELSE /\ Set(a, [run[a] EXCEPT !.view = v, !.answer = "none",
                            !.size = IF phase[a] = "new" THEN Len(v) ELSE Conf[a].batch])
               /\ Go(a, CASE Satisfies(a, v) -> "leaders"
                          [] phase[a] # "new" /\ ~Satisfies(a, v) -> "lockPlacement"
                          [] OTHER -> IF Conf[a].warn THEN "askWarn"
                                                      ELSE "readPlacement")
               /\ UNCHANGED <<phase, lock>> /\ ReadOnly

\* in-rack and cross-rack ask before moving a topic with unbalanced leaders
AskWarn(a) ==
    IF Conf[a].dryRun
    THEN /\ pc[a] = "askWarn"
         /\ Go(a, "readPlacement")
         /\ UNCHANGED <<phase, run, lock>> /\ ReadOnly
    ELSE Ask(a, "askWarn", run[a], "readPlacement")

\* mutant: a dry run goes on
ProposeForReal(a, v, desired) ==
    /\ Set(a, [run[a] EXCEPT !.view = v, !.desired = desired, !.answer = "none"])
    /\ Go(a, "askRun")
    /\ UNCHANGED lock
    /\ ReadOnly

\* the start of updatePlacementRunner: a dry run ends here
Propose(a, v, desired) ==
    /\ Set(a, [run[a] EXCEPT !.view = v, !.desired = desired, !.answer = "none"])
    /\ Go(a, IF Conf[a].dryRun THEN "leaders" ELSE "askRun")
    /\ IF Conf[a].dryRun THEN Unlock(a) ELSE UNCHANGED lock
    /\ ReadOnly

ReadPlacement(a) ==
    /\ pc[a] = "readPlacement"
    /\ \E v \in Views(Topic(a)) :
          LET found == {d \in Conf[a].placements : Len(d) = Len(v)}
          IN  IF ~Consistent(v) \/ found = {}
              THEN Abort(a)
              ELSE \E d \in found : Propose(a, v, d) /\ UNCHANGED phase

\* updateBalance: the same runner, without a lock; the rebalancer may fail
Balance(a) ==
    /\ pc[a] = "balance"
    /\ \E v \in Views(Topic(a)) :
          \/ Abort(a)
          \/ /\ Consistent(v)
             /\ \E d \in {e \in Conf[a].balanced : Len(e) = Len(v)} \cup {Lists(v)} :
                   IF ToUpdate(v, d) = {}
                   THEN /\ Go(a, "leaders")
                        /\ UNCHANGED <<phase, run, lock>> /\ ReadOnly
                   ELSE Propose(a, v, d) /\ UNCHANGED phase

(***************************************************************************)
(* updatePlacementRunner: batches of partitions, lowest ids first, each an *)
(* updatePartitionsIteration - throttle, assign, poll, unthrottle.         *)
(***************************************************************************)
AskRun(a) ==
    Ask(a, "askRun",
        [run[a] EXCEPT !.todo = ToUpdate(run[a].view, run[a].desired)], "batch")

NextBatch(a) ==
    {i \in run[a].todo :
        Cardinality({j \in run[a].todo : j < i}) < run[a].size}

Batch(a) ==
    /\ pc[a] = "batch"
    /\ IF run[a].todo = {}
       THEN Go(a, "leaders") /\ Unlock(a) /\ UNCHANGED run
       ELSE LET batch == NextBatch(a)
                moved == Moved(run[a].view, run[a].desired, batch)
            IN  /\ Set(a, [run[a] EXCEPT !.batch = batch, !.todo = @ \ batch,
                             !.ownTopic = FALSE, !.ownBrokers = {}, !.queue = {}])
                /\ Go(a, IF phase[a] = "new" \/ moved = {}
                         THEN "assign" ELSE "throttleTopic")
                /\ UNCHANGED lock
    /\ UNCHANGED phase /\ ReadOnly

\* applyThrottles: the topic's two keys are overwritten ...
ThrottleTopic(a) ==
    /\ pc[a] = "throttleTopic"
    /\ WriteTopicThrottle(Topic(a),
          [leader |-> LeaderThrottles(run[a].view, run[a].desired, run[a].batch),
           follower |-> FollowerThrottles(run[a].view, run[a].desired, run[a].batch)])
    /\ Set(a, [run[a] EXCEPT !.ownTopic = TRUE,
                 !.queue = ThrottledBy(run[a].view, run[a].desired, run[a].batch)])
    /\ Go(a, "throttleBrokers")
    /\ UNCHANGED phase /\ Quiet

\* ... and each broker's keys only where unset, which the broker client does not
\* heed; a broker where some key was set is one to clear later
ThrottleBroker(a) ==
    /\ pc[a] = "throttleBrokers"
    /\ \E b \in LeastOf(run[a].queue) :
          /\ brokerThr' = [brokerThr EXCEPT ![b] =
                [k \in Keys |-> IF BrokerMode \/ @[k] = Nobody THEN a ELSE @[k]]]
          /\ Set(a, [run[a] EXCEPT !.queue = @ \ {b},
                       !.ownBrokers = IF BrokerMode \/ Nobody \in {brokerThr[b][k] : k \in Keys}
                                      THEN @ \cup {b} ELSE @])
          /\ Go(a, IF run[a].queue = {b} THEN "assign" ELSE "throttleBrokers")
    /\ UNCHANGED <<parts, retention, topicThr, reassign, election, lock, phase>>
    /\ Quiet

\* AssignPartitions creates the admin node, so it fails while one exists; the
\* brokers instead replace the moves of these partitions
Assign(a) ==
    /\ pc[a] = "assign"
    /\ IF reassign # {} /\ ~BrokerMode
       THEN Abort(a)
       ELSE /\ reassign' = {m \in reassign : m.topic # Topic(a) \/ m.id \notin run[a].batch}
                           \cup {[topic |-> Topic(a), id |-> i,
                                  pref |-> run[a].desired[i].pref,
                                  reps |-> run[a].desired[i].reps] : i \in run[a].batch}
            /\ Go(a, "poll")
            /\ UNCHANGED <<parts, retention, topicThr, brokerThr, election,
                           lock, phase, run>>
            /\ Quiet

Poll(a) ==
    /\ pc[a] = "poll"
    /\ \E v \in Views(Topic(a)) : Ready(v, run[a].desired, run[a].batch)
    /\ Set(a, [run[a] EXCEPT !.queue = run[a].ownBrokers])
    /\ Go(a, IF run[a].ownTopic THEN "unthrottleTopic" ELSE "unthrottleBrokers")
    /\ UNCHANGED <<phase, lock>> /\ ReadOnly

AskNext(a) ==
    IF Conf[a].autoContinue
    THEN /\ pc[a] = "askNext"
         /\ Go(a, "batch")
         /\ UNCHANGED <<phase, run, lock>> /\ ReadOnly
    ELSE Ask(a, "askNext", run[a], "batch")

(***************************************************************************)
(* updateLeaders.                                                          *)
(***************************************************************************)
LeadersChecked(a) ==
    IF phase[a] = "update" /\ Conf[a].rebalance
    THEN Go(a, "balance") /\ Enter(a, "balance") /\ Unlock(a) /\ UNCHANGED run
    ELSE Stop(a, "done")

Leaders(a) ==
    /\ pc[a] = "leaders"
    /\ \E v \in Views(Topic(a)) :
          LET wrong == WrongLeaders(v)
          IN  IF wrong = {}
              THEN LeadersChecked(a) /\ ReadOnly
              ELSE IF ~AllInSync(v)
              THEN Abort(a)
              ELSE IF Conf[a].dryRun
              THEN LeadersChecked(a) /\ ReadOnly
              ELSE /\ Set(a, [run[a] EXCEPT !.batch = wrong, !.answer = "none"])
                   /\ Go(a, "lockLeaders")
                   /\ UNCHANGED <<phase, lock>> /\ ReadOnly

AskElect(a) == Ask(a, "askElect", run[a], "elect")

\* RunLeaderElection creates its node too
Elect(a) ==
    /\ pc[a] = "elect"
    /\ IF election # {} /\ ~BrokerMode
       THEN Abort(a)
       ELSE /\ election' = election \cup {Topic(a)} \X run[a].batch
            /\ Go(a, "pollElect")
            /\ UNCHANGED <<parts, retention, topicThr, brokerThr, reassign,
                           lock, phase, run>>
            /\ Quiet

PollElect(a) ==
    /\ pc[a] = "pollElect"
    /\ \E v \in Views(Topic(a)) : WrongLeaders(v) \cap run[a].batch = {}
    /\ LeadersChecked(a)
    /\ ReadOnly

(***************************************************************************)
(* Faults: a call fails or the context is cancelled (a write that fails    *)
(* after taking effect is the write followed by this step), or the process *)
(* dies and ZooKeeper drops its lock node when the session expires.  The   *)
(* read after the last round can fail too; the first read of a run cannot, *)
(* in ZooKeeper, other than as a missing topic (FlakyReads).               *)
(***************************************************************************)
Fallible(a) ==
    \/ pc[a] \in Calls \ {"lookup", "clearBrokers", "unthrottleTopic", "unthrottleBrokers"}
    \/ pc[a] = "lookup" /\ BrokerMode
    \/ pc[a] \in Waiting /\ NeedsLock(a)
    \/ pc[a] = "batch" /\ run[a].todo = {}

Fail(a) ==
    /\ Fallible(a)
    /\ faults < MaxFaults
    /\ faults' = faults + 1
    /\ Stop(a, Outcome(a))
    /\ UNCHANGED <<clusterVars, runs>>

Crash(a) ==
    /\ pc[a] \notin {"idle"} \cup Ended
    /\ faults < MaxFaults
    /\ faults' = faults + 1
    /\ Go(a, "crashed")
    /\ Set(a, NoRun)
    /\ Enter(a, "lookup")
    /\ UNCHANGED <<clusterVars, lock, runs>>

SessionExpires(a) ==
    /\ pc[a] = "crashed"
    /\ lock = a
    /\ lock' = Nobody
    /\ UNCHANGED <<clusterVars, pc, phase, run, runs, faults>>

(***************************************************************************)
(* The specification.                                                      *)
(***************************************************************************)
CheckStep(a) ==
    \/ Lookup(a) \/ AskCreate(a) \/ CreateTopic(a) \/ Settle(a)
    \/ LockCheck(a) \/ AskClearTopic(a) \/ ClearTopic(a) \/ ListTopics(a)
    \/ AskClearBrokers(a)
UpdateStep(a) ==
    \/ Settings(a) \/ AskSettings(a) \/ WriteSettings(a) \/ Counts(a)
    \/ ReadPartitions(a) \/ AskAdd(a) \/ AddPartitions(a) \/ PollAdd(a)
MoveStep(a) ==
    \/ Placement(a) \/ AskWarn(a) \/ ReadPlacement(a) \/ Balance(a) \/ AskRun(a)
    \/ Batch(a) \/ ThrottleTopic(a) \/ ThrottleBroker(a) \/ Assign(a) \/ Poll(a)
    \/ UnthrottleTopic(a) \/ UnthrottleBroker(a) \/ UnthrottleDone(a) \/ AskNext(a)
LeaderStep(a) == Leaders(a) \/ AskElect(a) \/ Elect(a) \/ PollElect(a)
LockStep(a) == Acquire(a) \/ LockTimeout(a)

Step(a) == CheckStep(a) \/ UpdateStep(a) \/ MoveStep(a) \/ LeaderStep(a) \/ LockStep(a)
FaultStep(a) == UnthrottleFault(a) \/ Fail(a) \/ Crash(a)

ControllerStep == Controller /\ UNCHANGED <<pc, phase, run, runs, faults>>

\* nothing is left to do: every run ended, every request to the controller met
Rest ==
    /\ \A a \in Appliers : pc[a] \in Ended /\ runs[a] = MaxRuns /\ lock # a
    /\ reassign = {} /\ election = {}
    /\ UNCHANGED vars

Next ==
    \/ \E a \in Appliers : Start(a)
    \/ \E a \in Appliers : Step(a)
    \/ \E a \in Appliers : FaultStep(a)
    \/ \E a \in Appliers : SessionExpires(a)
    \/ ControllerStep
    \/ Rest

Init ==
    /\ \E c \in InitialClusters :
          /\ parts = c.parts /\ retention = c.retention
          /\ topicThr = c.topicThr /\ brokerThr = c.brokerThr
    /\ lock = Nobody
    /\ reassign = {} /\ election = {}
    /\ pc = [a \in Appliers |-> "idle"]
    /\ phase = [a \in Appliers |-> "lookup"]
    /\ run = [a \in Appliers |-> NoRun]
    /\ runs = [a \in Appliers |-> 0]
    /\ faults = 0

Spec == Init /\ [][Next]_vars

\* a process that is not killed keeps running, its user answers, the controller
\* serves its admin nodes and a dead session expires; nothing else is owed
Fairness ==
    /\ \A a \in Appliers : WF_vars(Step(a)) /\ WF_vars(SessionExpires(a))
    /\ WF_vars(ControllerStep)

FairSpec == Spec /\ Fairness

(***************************************************************************)
(* Safety.                                                                 *)
(***************************************************************************)
Adding == {"readPartitions", "askAdd", "addPartitions", "pollAdd"}
Moving == {"askWarn", "readPlacement", "askRun", "batch", "throttleTopic",
           "throttleBrokers", "assign", "poll", "unthrottleTopic",
           "unthrottleBrokers", "askNext"}
Electing == {"askElect", "elect", "pollElect"}

\* the steps apply.go puts between acquireClusterLock and the deferred Unlock
Guarded(a) == \/ pc[a] \in Adding \cup Electing
              \/ pc[a] \in Moving /\ phase[a] = "update"

\* Partition changes and leader elections of different runs never overlap:
\* at most one run that takes locks is inside a locked section, from the read
\* it bases its change on to the poll that sees it done (apply.go:680, 841,
\* 1442), and a run that has ended has let go of the lock.
LockExclusion ==
    \A a \in Appliers :
       /\ Guarded(a) /\ NeedsLock(a) => lock = a
       /\ pc[a] \in Ended \ {"crashed"} => lock # a

\* the replicas run a's batch moves are throttled, each where it is now and
\* where it goes, and so is every broker involved
Protected(a) ==
    \A i \in run[a].batch :
       LET now == run[a].view[i].reps
           then == run[a].desired[i].reps
       IN  now # then =>
             /\ {i} \X now \subseteq topicThr[Topic(a)].leader
             /\ {i} \X (then \ now) \subseteq topicThr[Topic(a)].follower
             /\ \A b \in now \cup then : \A k \in Keys : brokerThr[b][k] # Nobody

Exposed(a) == pc[a] = "poll" /\ phase[a] # "new"

\* "Partition replica migrations are protected via throttles" (README.md:520):
\* while a run waits for its replicas to move, its sources, destinations and
\* brokers stay throttled.
MigrationsThrottled == \A a \in Appliers : Exposed(a) => Protected(a)

Moves(a) == pc'[a] # pc[a] \/ run'[a] # run[a]

\* A migration under the lock loses its throttles only to a run that takes no
\* lock to remove them: the clean-up of leftovers in checkExistingState, a
\* destructive settings update, or the rounds of updateBalance.
OnlyCleanupUnprotects ==
    [][\A a \in Appliers :
          /\ Guarded(a) /\ NeedsLock(a)
          /\ Exposed(a) /\ Exposed(a)' /\ Protected(a) /\ ~Protected(a)'
          => \E b \in Appliers \ {a} :
                /\ Moves(b)
                /\ \/ pc[b] \in {"clearTopic", "clearBrokers", "writeSettings"}
                   \/ phase[b] = "balance"
      ]_vars

Changed == clusterVars' # clusterVars

\* "A user confirmation is required for any mutation to the cluster"
\* (README.md:514), except the removal of leftover topic throttles, whose "no"
\* is ignored (apply.go:460): whatever else a run writes, the last answer of
\* that stage is "yes", and none authorises a later stage's write.
OtherMutationsConfirmed ==
    [][\A a \in Appliers : Moves(a) /\ Changed /\ pc[a] # "clearTopic"
                              => run[a].answer = "yes"]_vars

\* A dry run, whatever other runs do meanwhile, writes nothing and never
\* takes the lock that would hold them up.
DryRunsWriteNothing ==
    [][\A a \in Appliers : Moves(a) /\ Conf[a].dryRun
                              => ~Changed /\ lock' = lock]_vars

\* Partitions are added, never removed or rewritten (README.md:516): a run's
\* step leaves every partition there is as it was, also when two runs add
\* partitions to one topic and no lock is in use.
PartitionsOnlyAdded ==
    [][\A a \in Appliers : Moves(a) =>
          \A t \in Topics : \A i \in DOMAIN parts[t] :
             i \in DOMAIN parts'[t] /\ parts'[t][i] = parts[t][i]]_vars

Succeeds(a) == pc[a] # "done" /\ pc'[a] = "done"
               /\ ~Conf[a].dryRun /\ ~Conf[a].ignoreFewer

Converged(a) ==
    LET now == parts[Topic(a)]
    IN  /\ Len(now) = Conf[a].partitions
        /\ Satisfies(a, now)
        /\ AllInSync(now)
        /\ WrongLeaders(now) = {}

\* the step the run's topic config allows from the retention it read
Stepped(a, old, new) ==
    /\ Conf[a].dropStep > 0 => old - new <= Conf[a].dropStep
    /\ new # Conf[a].retention => new > Conf[a].retention /\ old - new = Conf[a].dropStep

\* A run that reports success leaves its topic as configured - partition count,
\* placement, replicas in sync, preferred leaders, retention one step closer -
\* whatever state earlier runs broke off in, when what they had asked of the
\* controller was served before it started (apply.go:245-250).
SuccessConverges ==
    [][\A a \in Appliers : Succeeds(a) /\ run[a].quiet =>
          /\ Converged(a)'
          /\ phase[a] # "new" => Stepped(a, run[a].retention, retention'[Topic(a)])]_vars

\* A successful run that found its topic in sync and the lock free leaves no
\* throttle behind, neither its own nor those of interrupted runs before it.
SuccessUnthrottles ==
    [][\A a \in Appliers : Succeeds(a) /\ run[a].cleaned =>
          /\ topicThr'[Topic(a)] = Unthrottled
          /\ \A b \in Brokers : brokerThr'[b] = NoKeys]_vars

(***************************************************************************)
(* Liveness.                                                               *)
(***************************************************************************)
\* Every run ends: no poll loop waits for replicas or leaders that will never
\* come, and no run waits for a lock that is never given back.
EveryRunEnds ==
    \A a \in Appliers : (pc[a] \notin {"idle"} \cup Ended) ~> (pc[a] \in Ended)
=============================================================================
