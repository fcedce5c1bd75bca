---------------------------- MODULE PartitionLog ----------------------------
(***************************************************************************)
(* The partitions of a topic as the readers of topicctl find them.  The    *)
(* broker is external: producers append, retention takes the head away,    *)
(* and compaction and transaction markers leave offsets without a message. *)
(***************************************************************************)
EXTENDS Integers

CONSTANTS Partitions,   \* an interval of numbers
          MaxOffset     \* bound: where producers stop

VARIABLE log   \* partition -> its first and next offset, and those with no message

LogOK(l) ==
    /\ l = [first |-> l.first, end |-> l.end, gaps |-> l.gaps]
    /\ l.first \in 0..MaxOffset /\ l.end \in l.first..MaxOffset
    /\ l.gaps \subseteq l.first..(l.end - 1)

Messages(p) == (log[p].first)..(log[p].end - 1) \ log[p].gaps

\* the message a read from offset o gets, if there is one
From(p, o) == {m \in Messages(p) : m >= o}
Earliest(S) == CHOOSE m \in S : \A n \in S : m <= n
OutOfRange(p, o) == o < log[p].first \/ o > log[p].end

Produce(p, marker) ==
    /\ log[p].end < MaxOffset
    /\ log' = [log EXCEPT ![p].end = @ + 1,
                          ![p].gaps = IF marker THEN @ \cup {log[p].end} ELSE @]

Expire(p) ==
    /\ log[p].first < log[p].end
    /\ log' = [log EXCEPT ![p].first = @ + 1, ![p].gaps = @ \ {log[p].first}]

\* the last message of a log is never compacted away
Compact(p) ==
    \E o \in Messages(p) \ {log[p].end - 1} :
        log' = [log EXCEPT ![p].gaps = @ \cup {o}]

LogStep == \E p \in Partitions : \/ \E marker \in BOOLEAN : Produce(p, marker)
                                 \/ Expire(p) \/ Compact(p)
=============================================================================
