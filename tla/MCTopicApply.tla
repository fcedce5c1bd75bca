---------------------------- MODULE MCTopicApply ----------------------------
(* Instances of TopicApply for TLC: brokers 1..3, replication 2. *)
EXTENDS TopicApply, TLC

R(first, second) == [pref |-> first, reps |-> {first, second}]
P(i, list, first) == [id |-> i, pref |-> list.pref, reps |-> list.reps,
                      isr |-> list.reps, leader |-> first]

Base == [topic |-> "t1", partitions |-> 1, replication |-> 2, retention |-> 1,
         dropStep |-> 1, placements |-> {<<R(3, 2)>>}, balanced |-> {},
         anyPlacement |-> FALSE, extendable |-> TRUE, warn |-> FALSE,
         batch |-> 1, dryRun |-> FALSE, skipConfirm |-> TRUE,
         rebalance |-> FALSE, autoContinue |-> FALSE, ignoreFewer |-> FALSE,
         destructive |-> FALSE]

MCLists == {R(1, 2), R(3, 2)}
MCBrokers == 1..3

\* the throttles an interrupted run or an operator left
Leftover == [leader |-> {<<1, 1>>}, follower |-> {<<1, 3>>}]
BothKeys == [k \in Keys |-> Operator]

Cluster(ps, ret, tt, bt) ==
    [parts |-> ps, retention |-> ret, topicThr |-> tt, brokerThr |-> bt]
NoBrokerThr == [b \in Brokers |-> NoKeys]
SomeBrokerThr == {NoBrokerThr, [NoBrokerThr EXCEPT ![1] = BothKeys],
                  [NoBrokerThr EXCEPT ![1].leader = Operator]}
Absent(bt) == Cluster("t1" :> <<>>, "t1" :> 1, "t1" :> Unthrottled, bt)

\* one topic, two partitions wanted: any two different lists satisfy the strategy
Two == [Base EXCEPT !.partitions = 2,
          !.placements = {<<R(3, 2), R(1, 2)>>, <<R(1, 2), R(3, 2)>>}]

(***************************************************************************)
(* One operator: interrupted runs, then reruns, with a rebalance at the    *)
(* end; the topic may be absent, have leftover throttles, too few          *)
(* partitions, wrong replicas or a wrong leader.                           *)
(***************************************************************************)
SoloAppliers == {"a1"}
SoloTopics == {"t1"}
SoloConf == "a1" :> [Two EXCEPT !.rebalance = TRUE, !.balanced = @ \cup Two.placements]
SoloClusters ==
    {Cluster("t1" :> ps, "t1" :> 3, "t1" :> tt, bt) :
        ps \in {<<P(1, R(1, 2), 2)>>, <<P(1, R(1, 2), 1), P(2, R(1, 2), 1)>>},
        tt \in {Unthrottled, Leftover}, bt \in SomeBrokerThr}
    \cup {Absent(bt) : bt \in SomeBrokerThr}

(***************************************************************************)
(* Two operators on one topic, both moving it and both able to say no, with *)
(* the throttles of an earlier run still there; the second one's run is     *)
(* destructive.                                                             *)
(***************************************************************************)
PairAppliers == {"a1", "a2"}
PairConf == [a \in PairAppliers |->
               [Base EXCEPT !.skipConfirm = FALSE, !.destructive = (a = "a2")]]
PairClusters ==
    {Cluster("t1" :> <<P(1, R(1, 2), 2)>>, "t1" :> 1, "t1" :> tt, bt) :
        tt \in {Unthrottled, Leftover}, bt \in SomeBrokerThr}

(***************************************************************************)
(* A run and a dry run of it, whose reads may come back incomplete or      *)
(* empty; both may find the topic absent, a partition short or too long,   *)
(* or with its two partitions in the wrong place.                          *)
(***************************************************************************)
DryConf == ("a1" :> [Two EXCEPT !.autoContinue = TRUE, !.warn = TRUE,
                          !.ignoreFewer = TRUE])
           @@ ("a2" :> [Two EXCEPT !.dryRun = TRUE, !.warn = TRUE,
                          !.rebalance = TRUE, !.balanced = Two.placements])
DryClusters ==
    {Absent(NoBrokerThr),
     Cluster("t1" :> <<P(1, R(1, 2), 2)>>, "t1" :> 2, "t1" :> Leftover, NoBrokerThr)}
    \cup {Cluster("t1" :> ps, "t1" :> 2, "t1" :> Unthrottled, NoBrokerThr) :
             ps \in {<<P(1, R(1, 2), 1), P(2, R(1, 2), 1)>>,
                     <<P(1, R(1, 2), 1), P(2, R(3, 2), 3), P(3, R(1, 2), 1)>>}}
=============================================================================
