----------------------------- MODULE TopicScan -----------------------------
(***************************************************************************)
(* GetTopics of the ZooKeeper admin client over its pool of connections:   *)
(* a goroutine per topic reads the topic and its config and starts         *)
(* goroutines for the partitions; each read is a request to one of a fixed *)
(* number of workers, handed over on an unbuffered channel in each         *)
(* direction.  Goroutines outlive a call that returned early.              *)
(***************************************************************************)
EXTENDS Integers, FiniteSets

CONSTANTS Workers,      \* the number of connections of the pool
          Topics,
          Parts,        \* topic -> its partitions, positive numbers
          MaxPoolSize,  \* goroutines at work on topics, or on partitions
          MaxScans,     \* bound: calls of GetTopics
          MaxErrors     \* bound: reads that fail before Close

VARIABLES scan,       \* the number of calls of GetTopics made so far
          caller,     \* "idle", "scan", "closed" or "panicked"
          got,        \* the topics the present call has received
          list,       \* the last list returned without an error
          ctxDone,    \* the command's context was cancelled
          closed,     \* the request channel is closed
          served,     \* goroutine -> how far the worker is that serves it
          pc,         \* goroutine -> the read it is at, or "none", ...
          parts,      \* topic goroutine -> partitions received
          errors,     \* bound
          abandoned   \* history: a call returned before its goroutines ended

vars == <<scan, caller, got, list, ctxDone, closed, served, pc, parts,
          errors, abandoned>>

ASSUME SizesAssumption ==
    /\ MaxPoolSize \in Nat \ {0}
    /\ Workers \in Nat \ {0}
    /\ MaxScans \in Nat /\ MaxErrors \in Nat
ASSUME PartsAssumption ==
    /\ Topics # {}                   \* with none, a call returns at once
    /\ Parts \in [Topics -> SUBSET (Nat \ {0})]

Of(s, t) == {<<s, t, p>> : p \in Parts[t]}           \* of the partitions of t
TopicTask(s, t) == <<s, t, 0>>
ScanTasks(s) == UNION {{TopicTask(s, t)} \cup Of(s, t) : t \in Topics}
Tasks == UNION {ScanTasks(s) : s \in 1..MaxScans}
TopicTasks == {k \in Tasks : k[3] = 0}

Calls == {"topic", "config", "state"}     \* where a goroutine does a read
Served(k) == served[k] # "no"
Busy == {k \in Tasks : Served(k)}         \* one worker each
Asks(k) == pc[k] \in Calls /\ ~Served(k)  \* blocked in the send of the request
Active(k) == pc[k] \in Calls \cup {"parts"}
Over == {"ok", "short", "err"}
Running == caller # "panicked"
\* goroutines whose worker has an answer that nobody takes any more
Stuck == {k \in Busy : pc[k] \notin Calls}

Init ==
    /\ scan = 0 /\ caller = "idle" /\ got = {} /\ list = {}
    /\ ctxDone = FALSE /\ closed = FALSE
    /\ served = [k \in Tasks |-> "no"]
    /\ pc = [k \in Tasks |-> "none"]
    /\ parts = [k \in TopicTasks |-> {}]
    /\ errors = 0 /\ abandoned = FALSE

-----------------------------------------------------------------------------
(***************************************************************************)
(* The caller.                                                             *)
(***************************************************************************)
GetTopics ==
    /\ caller = "idle" /\ scan < MaxScans
    /\ scan' = scan + 1
    /\ caller' = "scan" /\ got' = {}
    /\ pc' = [k \in Tasks |-> IF k \in TopicTasks /\ k[1] = scan'
                              THEN "queued" ELSE pc[k]]
    /\ UNCHANGED <<list, ctxDone, closed, served, parts, errors, abandoned>>

Unreceived == Topics \ got

\* mutant of Complete: the loop stops one response early
CompleteEarly(t) == Cardinality(Unreceived) <= 2

Complete(t) == Unreceived = {t}

LeavesTasks(tasks) == \E k \in tasks : pc[k] \in {"queued"} \cup Calls \cup {"parts"}

\* the first error ends the call, with no topics and, since the outer err is
\* the one returned, no error
ReceiveTopic(t) ==
    LET k == TopicTask(scan, t)
    IN  /\ caller = "scan" /\ t \in Unreceived /\ pc[k] \in Over
        /\ IF pc[k] = "err"
           THEN /\ caller' = "idle" /\ list' = {}
                /\ abandoned' = (abandoned \/ LeavesTasks(ScanTasks(scan)))
                /\ UNCHANGED got
           ELSE /\ got' = got \cup {t}
                /\ IF Complete(t)
                   THEN /\ caller' = "idle"
                        /\ list' = {<<u, pc[TopicTask(scan, u)]>> : u \in got'}
                   ELSE UNCHANGED <<caller, list>>
                /\ UNCHANGED abandoned
        /\ UNCHANGED <<scan, ctxDone, closed, served, pc, parts, errors>>

\* the deferred Close at the end of the command
Close ==
    /\ caller = "idle"
    /\ caller' = "closed" /\ closed' = TRUE
    /\ UNCHANGED <<scan, got, list, ctxDone, served, pc, parts, errors,
                   abandoned>>

\* a send on the closed channel: the process is gone
Panic ==
    /\ Running /\ closed /\ \E k \in Tasks : Asks(k)
    /\ caller' = "panicked"
    /\ UNCHANGED <<scan, got, list, ctxDone, closed, served, pc, parts,
                   errors, abandoned>>

Interrupt ==
    /\ Running /\ ~ctxDone
    /\ ctxDone' = TRUE
    /\ UNCHANGED <<scan, caller, got, list, closed, served, pc, parts,
                   errors, abandoned>>
-----------------------------------------------------------------------------
(***************************************************************************)
(* The goroutines.                                                         *)
(***************************************************************************)
Others == <<scan, caller, got, list, ctxDone, closed, served, parts, errors>>

TakeTopic(k) ==
    /\ Running /\ k \in TopicTasks /\ pc[k] = "queued"
    /\ Cardinality({j \in TopicTasks : j[1] = k[1] /\ Active(j)}) < MaxPoolSize
    /\ pc' = [pc EXCEPT ![k] = "topic"]
    /\ UNCHANGED <<Others, abandoned>>

TakePartition(k) ==
    /\ Running /\ k \in Tasks \ TopicTasks /\ pc[k] = "queued"
    /\ Cardinality({j \in Of(k[1], k[2]) : Active(j)}) < MaxPoolSize
    /\ pc' = [pc EXCEPT ![k] = "state"]
    /\ UNCHANGED <<Others, abandoned>>

\* mutant of Continued: a goroutine whose read fails ends without a response
ContinuedSilently(k, ok) ==
    CASE ~ok -> [pc EXCEPT ![k] = IF k \in TopicTasks THEN "err" ELSE "none"]
      [] ok /\ pc[k] = "topic" -> [pc EXCEPT ![k] = "config"]
      [] ok /\ pc[k] = "state" -> [pc EXCEPT ![k] = "ok"]
      [] ok /\ pc[k] = "config" ->
            [j \in Tasks |-> IF j = k THEN IF Parts[k[2]] = {} THEN "ok" ELSE "parts"
                             ELSE IF j \in Of(k[1], k[2]) THEN "queued" ELSE pc[j]]

\* what a goroutine does with the answer to its read
Continued(k, ok) ==
    CASE ~ok -> [pc EXCEPT ![k] = "err"]
      [] ok /\ pc[k] = "topic" -> [pc EXCEPT ![k] = "config"]
      [] ok /\ pc[k] = "state" -> [pc EXCEPT ![k] = "ok"]
      [] ok /\ pc[k] = "config" ->
            [j \in Tasks |-> IF j = k THEN IF Parts[k[2]] = {} THEN "ok" ELSE "parts"
                             ELSE IF j \in Of(k[1], k[2]) THEN "queued" ELSE pc[j]]

\* getTopic: the first partition that failed ends the topic, shorter and with
\* the outer err, which is nil
ReceivePartition(k, p) ==
    LET j == <<k[1], k[2], p>>
        all == parts[k] \cup {p}
    IN  /\ Running /\ pc[k] = "parts"
        /\ p \in Parts[k[2]] \ parts[k] /\ pc[j] \in Over
        /\ IF pc[j] = "err"
           THEN /\ pc' = [pc EXCEPT ![k] = "short"]
                /\ abandoned' = (abandoned \/ LeavesTasks(Of(k[1], k[2])))
                /\ UNCHANGED parts
           ELSE /\ parts' = [parts EXCEPT ![k] = all]
                /\ pc' = IF all = Parts[k[2]] THEN [pc EXCEPT ![k] = "ok"] ELSE pc
                /\ UNCHANGED abandoned
        /\ UNCHANGED <<scan, caller, got, list, ctxDone, closed, served,
                       errors>>

\* select takes ctx.Done: the worker keeps the request
GiveUp(k) ==
    /\ Running /\ ctxDone
    /\ pc[k] \in Calls /\ Served(k)
    /\ pc' = [pc EXCEPT ![k] = "err"]
    /\ UNCHANGED <<Others, abandoned>>
-----------------------------------------------------------------------------
(***************************************************************************)
(* The workers of the pool.                                                *)
(***************************************************************************)
\* mutant of WorkerIdle: the constructor starts a worker too many
WorkerIdleOneMore == Cardinality(Busy) <= Workers

WorkerIdle == Cardinality(Busy) < Workers

Accept(k) ==
    /\ Running /\ ~closed /\ WorkerIdle /\ Asks(k)
    /\ served' = [served EXCEPT ![k] = "reading"]
    /\ UNCHANGED <<scan, caller, got, list, ctxDone, closed, pc, parts,
                   errors, abandoned>>

\* the connections are closed with the client, and reads on them fail
Read(k, result) ==
    /\ Running /\ served[k] = "reading"
    /\ \/ result = "ok" /\ UNCHANGED errors
       \/ result = "err" /\ errors < MaxErrors /\ errors' = errors + 1
       \/ result = "err" /\ closed /\ UNCHANGED errors
    /\ served' = [served EXCEPT ![k] = result]
    /\ UNCHANGED <<scan, caller, got, list, ctxDone, closed, pc, parts,
                   abandoned>>

Answer(k) ==
    /\ Running
    /\ served[k] \in {"ok", "err"} /\ k \notin Stuck
    /\ pc' = Continued(k, served[k] = "ok")
    /\ served' = [served EXCEPT ![k] = "no"]
    /\ UNCHANGED <<scan, caller, got, list, ctxDone, closed, parts, errors,
                   abandoned>>

-----------------------------------------------------------------------------
CallerStep == (\E t \in Topics : ReceiveTopic(t)) \/ Close

TaskStep(k) ==
    \/ TakeTopic(k) \/ TakePartition(k)
    \/ k \in TopicTasks /\ \E p \in Parts[k[2]] : ReceivePartition(k, p)

PoolStep ==
    \E k \in Tasks : \/ Accept(k) \/ Answer(k)
                     \/ \E result \in {"ok", "err"} : Read(k, result)

Next ==
    \/ GetTopics \/ CallerStep \/ Panic \/ Interrupt
    \/ \E k \in Tasks : TaskStep(k) \/ GiveUp(k)
    \/ PoolStep

Spec == Init /\ [][Next]_vars

(***************************************************************************)
(* Go runs every goroutine that can run, and ZooKeeper answers each read.  *)
(* Which sender a worker takes is left open: with finitely many senders    *)
(* the pool as a whole is enough.                                          *)
(***************************************************************************)
FairSpec ==
    Spec /\ WF_vars(PoolStep) /\ WF_vars(\E k \in Tasks : TaskStep(k))
         /\ WF_vars(CallerStep)

-----------------------------------------------------------------------------
Pcs == {"none", "queued", "parts"} \cup Calls \cup Over

\* Every variable has its type; partitions never are where topics are.
TypeOK ==
    /\ scan \in 0..MaxScans
    /\ caller \in {"idle", "scan", "closed", "panicked"}
    /\ got \subseteq Topics /\ list \subseteq Topics \X {"ok", "short"}
    /\ ctxDone \in BOOLEAN /\ closed \in BOOLEAN /\ abandoned \in BOOLEAN
    /\ served \in [Tasks -> {"no", "reading", "ok", "err"}]
    /\ Cardinality(Busy) <= Workers
    /\ pc \in [Tasks -> Pcs]
    /\ \A k \in Tasks \ TopicTasks : pc[k] \in {"none", "queued", "state", "ok", "err"}
    /\ parts \in [TopicTasks -> SUBSET (Nat \ {0})]
    /\ errors \in 0..MaxErrors

\* A returned list that lacks a topic or a partition is the doing of a failed
\* read or of a cancelled context, never of what the goroutines of an earlier
\* call still do (zkclient.go:391-407, 942-957).
ListComplete ==
    scan > 0 /\ caller = "idle" /\ list # Topics \X {"ok"} => errors > 0 \/ ctxDone

\* No goroutine sends on the closed request channel, which would be a panic,
\* unless a call had returned before its goroutines ended (client.go:345-346,
\* zkclient.go:393).
PanicsOnlyAbandoned ==
    caller = "panicked" => abandoned

\* Every call returns, though topics wait for partitions that wait for the
\* same workers, unless every worker waits to answer a call that was cancelled
\* (client.go:96-125).
ScansReturn ==
    caller = "scan" ~> caller # "scan" \/ (ctxDone /\ Cardinality(Stuck) = Workers)
=============================================================================
