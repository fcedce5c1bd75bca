---------------------------- MODULE MCTopicScan ----------------------------
(***************************************************************************)
(* An instance of TopicScan for TLC: a topic with partitions and one        *)
(* without, and two calls, so that goroutines of the first meet the second *)
(* and both meet Close.                                                    *)
(***************************************************************************)
EXTENDS TopicScan, TLC

MCTopics == {"t", "u"}
MCParts == "t" :> {1, 2} @@ "u" :> {}
=============================================================================
