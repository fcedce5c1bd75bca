---------------------------- MODULE KafkaCluster ----------------------------
(***************************************************************************)
(* The part of a Kafka cluster that runs of `topicctl apply` share: the    *)
(* topics in ZooKeeper, their configuration, the throttles on topics and   *)
(* brokers, the admin nodes that ask the controller for a reassignment or  *)
(* a leader election, and the lock node of pkg/zk.  It is written from the *)
(* reads and writes of pkg/admin/zkclient.go, or of brokerclient.go when   *)
(* BrokerMode holds; the controller's own steps are external code,         *)
(* modelled by what apply.go waits for.                                    *)
(*                                                                         *)
(* Abstractions.  A replica list is the pair of its first element (the     *)
(* preferred leader) and its set: lists that differ only in the order of   *)
(* the followers, which moves no data and no leader, count as equal.       *)
(* Partition ids count from 1.  A partition whose state node the           *)
(* controller has not written yet has an empty isr.                        *)
(***************************************************************************)
EXTENDS Integers, Sequences, FiniteSets

CONSTANTS
    Topics,     \* topic names
    Brokers,    \* broker ids, the integers ZooKeeper names them by
    Appliers,   \* processes running `topicctl apply`
    Operator,   \* whoever throttled a broker outside these processes
    Nobody,     \* no owner
    BrokerMode, \* the admin client uses broker APIs instead of ZooKeeper
    FlakyReads  \* a ZooKeeper read may fail at any time

ASSUME BrokersAssumption == Brokers \subseteq Nat
ASSUME OwnersDistinct == Nobody \notin Appliers /\ Operator \notin Appliers
                         /\ Nobody # Operator
ASSUME AccessAssumption == /\ BrokerMode \in BOOLEAN /\ FlakyReads \in BOOLEAN
                           /\ ~(BrokerMode /\ FlakyReads)

VARIABLES
    parts,      \* topic -> its partitions, <<>> when the topic does not exist
    retention,  \* topic -> the value of its retention setting
    topicThr,   \* topic -> (partition, broker) pairs its two throttle keys list
    brokerThr,  \* broker -> throttle key -> who set it
    reassign,   \* content of /admin/reassign_partitions, {} when absent
    election,   \* content of /admin/preferred_replica_election, {} when absent
    lock        \* owner of the cluster lock's first child node

clusterVars == <<parts, retention, topicThr, brokerThr, reassign, election>>

Keys == {"leader", "follower"}
Replicas == {r \in [pref: Brokers, reps: SUBSET Brokers] : r.pref \in r.reps}
Partition == {p \in [id: Nat \ {0}, pref: Brokers, reps: SUBSET Brokers,
                     isr: SUBSET Brokers, leader: Brokers] : p.pref \in p.reps}
Move == {m \in [topic: Topics, id: Nat \ {0}, pref: Brokers, reps: SUBSET Brokers] :
            m.pref \in m.reps}
Pairs == (Nat \ {0}) \X Brokers
TopicThrottle == [leader: SUBSET Pairs, follower: SUBSET Pairs]
Unthrottled == [leader |-> {}, follower |-> {}]
NoKeys == [k \in Keys |-> Nobody]

ClusterTypeOK ==
    /\ parts \in [Topics -> Seq(Partition)]
    /\ retention \in [Topics -> Nat]
    /\ topicThr \in [Topics -> TopicThrottle]
    /\ brokerThr \in [Brokers -> [Keys -> Appliers \cup {Operator, Nobody}]]
    /\ reassign \in SUBSET Move
    /\ election \in SUBSET (Topics \X (Nat \ {0}))
    /\ lock \in Appliers \cup {Nobody}

(***************************************************************************)
(* What the readers of the admin client return.                            *)
(***************************************************************************)
Assigned(p) == [pref |-> p.pref, reps |-> p.reps]
InSync(p) == p.isr = p.reps
TopicThrottled(t) == topicThr[t] # Unthrottled
\* mutant: asks for both keys
BothThrottled(b) == \A k \in Keys : brokerThr[b][k] # Nobody
BrokerThrottled(b) == brokerThr[b] # NoKeys

Up(t) == {i \in DOMAIN parts[t] : parts[t][i].isr # {}}

\* what is left of a list when some partition is not read: the answers that
\* came in before the error, in the order they came
Partial(all, read) ==
    UNION {{[i \in 1..n |-> all[f[i]]] :
              f \in {g \in [1..n -> read] : \A i, j \in 1..n : g[i] = g[j] => i = j}} :
           n \in 0..Cardinality(read)}

\* GetTopic(detailed): the partitions in order.  The ZooKeeper client fails to
\* read a partition whose state node is missing, and returns what it has by
\* then without the error; the brokers list such a partition with no isr.
Views(t) ==
    IF BrokerMode \/ (Up(t) = DOMAIN parts[t] /\ ~FlakyReads)
    THEN {parts[t]}
    ELSE Partial(parts[t], Up(t))

\* The first GetTopic of a run, in the ZooKeeper client, reports a topic whose
\* own nodes it could not read as one that does not exist
Missing(t) == parts[t] = <<>> \/ FlakyReads

\* GetTopics(not detailed) for the throttled topics; a failed read is an empty
\* list and no error
ThrottledTopics ==
    LET all == {t \in Topics : TopicThrottled(t)}
    IN  IF FlakyReads THEN {all, {}} ELSE {all}

AllInSync(view) == \A i \in DOMAIN view : InSync(view[i])
WrongLeaders(view) ==
    {view[i].id : i \in {j \in DOMAIN view :
                            view[j].isr = {} \/ view[j].leader # view[j].pref}}

(***************************************************************************)
(* The controller.  A reassignment first adds the new replicas, then, once *)
(* they are in sync, drops the old ones and leaves the admin node; an      *)
(* election gives leadership to the preferred replica if it is in sync.    *)
(***************************************************************************)
OnlyParts(newParts) ==
    /\ parts' = newParts
    /\ UNCHANGED <<retention, topicThr, brokerThr, lock>>

ControllerCreates(t) ==
    /\ \E i \in DOMAIN parts[t] \ Up(t) :
          OnlyParts([parts EXCEPT ![t][i].isr = parts[t][i].reps])
    /\ UNCHANGED <<reassign, election>>

ControllerExpands(m) ==
    LET old == parts[m.topic][m.id]
        all == old.reps \cup m.reps
    IN  /\ m \in reassign
        /\ old.reps # all
        /\ \E first \in {old.pref, m.pref} :
              OnlyParts([parts EXCEPT ![m.topic][m.id] =
                            [old EXCEPT !.reps = all, !.pref = first]])
        /\ UNCHANGED <<reassign, election>>

ControllerFinishes(m) ==
    LET old == parts[m.topic][m.id]
    IN  /\ m \in reassign
        /\ m.reps \subseteq old.reps
        /\ OnlyParts([parts EXCEPT ![m.topic][m.id] =
              [id |-> m.id, pref |-> m.pref, reps |-> m.reps, isr |-> m.reps,
               leader |-> IF old.leader \in m.reps THEN old.leader ELSE m.pref]])
        /\ reassign' = reassign \ {m}
        /\ UNCHANGED election

ControllerElects ==
    /\ election # {}
    /\ OnlyParts([t \in Topics |-> [i \in DOMAIN parts[t] |->
          IF <<t, i>> \in election /\ parts[t][i].pref \in parts[t][i].isr
          THEN [parts[t][i] EXCEPT !.leader = parts[t][i].pref]
          ELSE parts[t][i]]])
    /\ election' = {}
    /\ UNCHANGED reassign

Controller ==
    \/ \E t \in Topics : ControllerCreates(t)
    \/ \E m \in reassign : ControllerExpands(m)
    \/ \E m \in reassign : ControllerFinishes(m)
    \/ ControllerElects
=============================================================================
