---------------------------- MODULE GroupOffsets ----------------------------
(***************************************************************************)
(* The bounds of partitions, and the two commands that use them: the lags  *)
(* of a consumer group, and the reset of its offsets.  The consumer of the *)
(* group and its coordinator are external.                                 *)
(***************************************************************************)
EXTENDS PartitionLog

CONSTANTS MaxErrors,    \* bound: connections that fail
          MaxMoves,     \* bound: what the log and the consumer do meanwhile
          InitialLogs, InitialOffsets

VARIABLES cmd,          \* the command and how far it is
          bound,        \* partition -> the reading of its bounds
          group,        \* the consumer and the committed offsets
          lags,         \* the rows of the lag table
          errors, moves \* bounds

groupVars == <<cmd, bound, group, lags, errors>>
vars == <<log, moves, cmd, bound, group, lags, errors>>

ASSUME LogsAssumption ==
    \A l \in InitialLogs : /\ l = [p \in Partitions |-> l[p]]
                            /\ \A p \in Partitions : LogOK(l[p])

ASSUME BoundsAssumption ==
    MaxOffset \in Nat /\ MaxErrors \in Nat /\ MaxMoves \in Nat

NoOffset == -1
Base == -2              \* no offset to start from is known
Kinds == {"lags", "earliest", "latest", "offset"}

NoBound == [pc |-> "none", min |-> Base, first |-> 0, last |-> 0, msg |-> 0, end |-> 0]

\* an earlier reset may have put any offset, even one beyond the log
Committable == {NoOffset, Base} \cup 0..(MaxOffset + 1)

ASSUME OffsetsAssumption == InitialOffsets \subseteq [Partitions -> Committable]

NewCmd(k, parts) ==
    [kind |-> k, pc |-> "start", of |-> parts,
     then |-> [p \in Partitions |-> [first |-> 0, end |-> 0, gaps |-> {}]],
     offsets |-> [p \in Partitions |-> NoOffset]]

Stopped == [p \in Partitions |-> NoOffset]

GroupInit ==
    /\ \E k \in Kinds, parts \in SUBSET Partitions \ {{}} :
          cmd = NewCmd(k, IF k = "lags" THEN Partitions ELSE parts)
    /\ bound = [p \in Partitions |-> NoBound]
    /\ \E c \in InitialOffsets :
          group = [on |-> FALSE, pos |-> Stopped, committed |-> c]
    /\ lags = {} /\ errors = 0 /\ moves = 0

-----------------------------------------------------------------------------
(***************************************************************************)
(* GetPartitionBounds: offsets, first message and last message are three   *)
(* reads, and the log changes between them.                                *)
(***************************************************************************)
At(p, pc) == bound[p].pc = pc

\* mutant of Over: a worker that fails sends no result
OverDone(p) == bound[p].pc = "done"

Over(p) == bound[p].pc \in {"done", "err"}
SetBound(p, b) == bound' = [bound EXCEPT ![p] = b] /\ UNCHANGED <<cmd, group, lags>>

\* mutant of StartAt: the base is used whatever the log has
StartAtBase(p, f, e) == IF bound[p].min > f THEN bound[p].min ELSE f

StartAt(p, f, e) ==
    IF bound[p].min > f /\ bound[p].min < e THEN bound[p].min ELSE f

ReadOffsets(p) ==
    LET f == log[p].first
        e == log[p].end
    IN  /\ At(p, "offsets")
        /\ SetBound(p, IF f = e
                       THEN [NoBound EXCEPT !.pc = "done", !.first = f, !.last = e]
                       ELSE [bound[p] EXCEPT !.pc = "first", !.end = e,
                                             !.first = StartAt(p, f, e)])
        /\ UNCHANGED errors

\* a read beyond the last message waits for one, until its deadline
ReadFirst(p) ==
    LET o == bound[p].first
    IN  /\ At(p, "first")
        /\ \/ OutOfRange(p, o) /\ SetBound(p, [NoBound EXCEPT !.pc = "err"])
           \/ ~OutOfRange(p, o) /\ From(p, o) # {}
              /\ SetBound(p, [bound[p] EXCEPT !.pc = "last",
                                              !.msg = Earliest(From(p, o))])
        /\ UNCHANGED errors

LastFrom(p) == bound[p].end - 1

ReadLast(p) ==
    LET o == LastFrom(p)
    IN  /\ At(p, "last")
        /\ \/ OutOfRange(p, o) /\ SetBound(p, [NoBound EXCEPT !.pc = "err"])
           \/ ~OutOfRange(p, o) /\ From(p, o) # {}
              /\ SetBound(p, [NoBound EXCEPT !.pc = "done", !.first = bound[p].msg,
                                             !.last = Earliest(From(p, o)) + 1])
        /\ UNCHANGED errors

\* the deadline of a read that waits for a message
ReadTimesOut(p) ==
    LET o == IF At(p, "first") THEN bound[p].first ELSE LastFrom(p)
    IN  /\ bound[p].pc \in {"first", "last"} /\ From(p, o) = {}
        /\ SetBound(p, [NoBound EXCEPT !.pc = "err"])
        /\ UNCHANGED errors

\* four attempts to dial the leader failed, or the connection broke
ReadFails(p) ==
    /\ bound[p].pc \in {"offsets", "first", "last"}
    /\ errors < MaxErrors /\ errors' = errors + 1
    /\ SetBound(p, [NoBound EXCEPT !.pc = "err"])

BoundStep(p) == ReadOffsets(p) \/ ReadFirst(p) \/ ReadLast(p) \/ ReadTimesOut(p)

-----------------------------------------------------------------------------
(***************************************************************************)
(* GetMemberLags: the committed offsets first, then the bounds of all      *)
(* partitions at once; a partition whose bounds failed has no row.         *)
(***************************************************************************)
Is(kinds, pc) == cmd.kind \in kinds /\ cmd.pc = pc
Goto(pc) == cmd' = [cmd EXCEPT !.pc = pc]

ReadCommitted ==
    /\ Is({"lags"}, "start")
    /\ cmd' = [cmd EXCEPT !.pc = "bounds", !.then = log, !.offsets = group.committed]
    /\ bound' = [p \in Partitions |->
                    [NoBound EXCEPT !.pc = "offsets", !.min = group.committed[p]]]
    /\ UNCHANGED <<group, lags, errors>>

\* mutant of Row: the newest offset is that of the last message
RowOfMessage(p) == [part |-> p, lag |-> bound[p].last - 1 - cmd.offsets[p]]

Row(p) == [part |-> p, lag |-> bound[p].last - cmd.offsets[p]]

ReportLags ==
    /\ Is({"lags"}, "bounds") /\ \A p \in Partitions : Over(p)
    /\ lags' = {Row(p) : p \in {q \in Partitions : At(q, "done")}}
    /\ Goto("done")
    /\ UNCHANGED <<bound, group, errors>>

-----------------------------------------------------------------------------
(***************************************************************************)
(* reset-offsets: the bounds of one partition after the other, the prompt, *)
(* then a member of the group commits the offsets in its generation.       *)
(***************************************************************************)
\* mutant of ResetBase: the bounds begin at the committed offset
ResetBaseCommitted(p) == group.committed[p]

ResetBase(p) == 0

NextOf == {p \in cmd.of : At(p, "none")}

StartReset ==
    /\ Is({"earliest", "latest"}, "start")
    /\ \A p \in cmd.of : Over(p) \/ At(p, "none")
    /\ IF \E p \in cmd.of : At(p, "err")
       THEN Goto("failed") /\ UNCHANGED bound
       ELSE IF NextOf = {}
       THEN /\ cmd' = [cmd EXCEPT !.pc = "ask", !.then = log, !.offsets =
                         [p \in Partitions |-> IF cmd.kind = "latest" THEN bound[p].last
                                               ELSE bound[p].first]]
            /\ UNCHANGED bound
       ELSE /\ \E p \in NextOf :
                  bound' = [bound EXCEPT ![p] = [NoBound EXCEPT !.pc = "offsets",
                                                               !.min = ResetBase(p)]]
            /\ UNCHANGED cmd
    /\ UNCHANGED <<group, lags, errors>>

\* --offset and --partition-offset-map are taken as they are
StartOffset(o) ==
    /\ Is({"offset"}, "start")
    /\ cmd' = [cmd EXCEPT !.pc = "ask", !.then = log,
                          !.offsets = [p \in Partitions |-> o]]
    /\ UNCHANGED <<bound, group, lags, errors>>

Answer ==
    /\ cmd.pc = "ask"
    /\ Goto("join") \/ Goto("failed")
    /\ UNCHANGED <<bound, group, lags, errors>>

\* the rebalance makes a consumer begin again at what is committed
Resumed == [p \in Partitions |-> IF OutOfRange(p, group.committed[p])
                                 THEN log[p].first ELSE group.committed[p]]

Join ==
    /\ cmd.pc = "join" /\ Goto("commit")
    /\ group' = [group EXCEPT !.pos = IF group.on THEN Resumed ELSE Stopped]
    /\ UNCHANGED <<bound, lags, errors>>

Committed == [p \in Partitions |-> IF p \in cmd.of THEN cmd.offsets[p]
                                   ELSE group.committed[p]]

Commit ==
    /\ cmd.pc = "commit" /\ Goto("done")
    /\ group' = [group EXCEPT !.committed = Committed]
    /\ UNCHANGED <<bound, lags, errors>>

\* a member that joined ended the generation
Fenced ==
    /\ cmd.pc = "fenced" /\ Goto("failed")
    /\ UNCHANGED <<bound, group, lags, errors>>

Interrupted ==
    /\ Goto("failed")
    /\ UNCHANGED <<bound, group, lags, errors>>

-----------------------------------------------------------------------------
(***************************************************************************)
(* The consumer of the group.                                              *)
(***************************************************************************)
ConsumerStart ==
    /\ ~group.on
    /\ group' = [group EXCEPT !.on = TRUE, !.pos = Resumed]
    /\ cmd' = IF cmd.pc = "commit" THEN [cmd EXCEPT !.pc = "fenced"] ELSE cmd
    /\ UNCHANGED <<bound, lags, errors>>

ConsumerReads(p) ==
    /\ group.on /\ From(p, group.pos[p]) # {}
    /\ group' = [group EXCEPT !.pos[p] = Earliest(From(p, group.pos[p])) + 1]
    /\ UNCHANGED <<cmd, bound, lags, errors>>

ConsumerCommits(p) ==
    /\ group.on /\ group.committed[p] # group.pos[p]
    /\ group' = [group EXCEPT !.committed[p] = group.pos[p]]
    /\ UNCHANGED <<cmd, bound, lags, errors>>

ConsumerStop ==
    /\ group.on
    /\ group' = [group EXCEPT !.on = FALSE, !.pos = Stopped]
    /\ UNCHANGED <<cmd, bound, lags, errors>>

ConsumerStep ==
    \/ ConsumerStart \/ ConsumerStop
    \/ \E p \in Partitions : ConsumerReads(p) \/ ConsumerCommits(p)

CmdStep ==
    \/ ReadCommitted \/ ReportLags \/ StartReset
    \/ \E o \in {Base, MaxOffset + 1} : StartOffset(o)
    \/ Answer \/ Join \/ Commit \/ Fenced

\* nothing is of interest once the command has ended
Running == cmd.pc \notin {"done", "failed"}

CommandStep ==
    /\ Running
    /\ \/ CmdStep \/ Interrupted
       \/ \E p \in Partitions : BoundStep(p) \/ ReadFails(p)
    /\ UNCHANGED <<log, moves>>

Meanwhile ==
    /\ Running /\ moves < MaxMoves /\ moves' = moves + 1
    /\ \/ ConsumerStep /\ UNCHANGED log
       \/ LogStep /\ UNCHANGED groupVars

Next == CommandStep \/ Meanwhile

Init == log \in InitialLogs /\ GroupInit

Spec == Init /\ [][Next]_vars

(***************************************************************************)
(* The command runs on, and every read ends, at the latest by its          *)
(* deadline (bounds.go:27-31, 283-288).                                    *)
(***************************************************************************)
FairSpec ==
    /\ Spec /\ WF_vars(Running /\ CmdStep /\ UNCHANGED <<log, moves>>)
    /\ \A p \in Partitions : WF_vars(Running /\ BoundStep(p) /\ UNCHANGED <<log, moves>>)

-----------------------------------------------------------------------------
\* Every variable has its type: the bounds are offsets of the log.
TypeOK ==
    /\ \A p \in Partitions : LogOK(log[p])
    /\ cmd.kind \in Kinds /\ cmd.of \subseteq Partitions
    /\ cmd.pc \in {"start", "bounds", "ask", "join", "commit", "fenced", "done", "failed"}
    /\ \A p \in Partitions :
          /\ cmd.offsets[p] \in Committable /\ LogOK(cmd.then[p])
          /\ group.committed[p] \in Committable
          /\ bound[p].pc \in {"none", "offsets", "first", "last", "done", "err"}
          /\ bound[p].min \in Committable
          /\ bound[p].first \in 0..MaxOffset /\ bound[p].last \in 0..MaxOffset
    /\ errors \in 0..MaxErrors /\ moves \in 0..MaxMoves

\* A lag lies between what the group lacked when its offsets were read and
\* what it lacks of the log as it is now: the three reads of a partition and
\* the consumer and producers between them make it neither too small, nor
\* negative for a member that is where messages are (groups.go:140-194,
\* bounds.go:133-253).
LagsHonest ==
    \A row \in lags :
        LET had == cmd.offsets[row.part]
        IN  row.lag \in (cmd.then[row.part].end - had)..(log[row.part].end - had)

LostHead(p) == log[p].first > cmd.then[p].first
Marked(p) == \E g \in log[p].gaps : g >= cmd.then[p].end - 1

\* A partition that is missing from the table could not be read: a connection
\* failed, retention took messages, or an end without message was waited
\* for; never because of where the group stands (bounds.go:168-186).
LagsComplete ==
    Is({"lags"}, "done") /\ errors = 0 =>
        \A p \in Partitions : \/ \E row \in lags : row.part = p
                              \/ LostHead(p) \/ Marked(p)

\* A reset to the earliest offset skips no message that is still there, and
\* one to the latest none that came after the prompt, however long the user
\* took to answer (reset.go:118-181).
ResetSkipsNothing ==
    [][Commit =>
         \A p \in cmd.of : \A m \in Messages(p) :
             m < cmd.offsets[p] => /\ cmd.kind # "earliest"
                                   /\ cmd.kind = "latest" => m < cmd.then[p].end]_vars

\* Every command comes to its prompt and, once it is answered, to its end
\* (bounds.go:107-120, 255-289).
CommandEnds == <>(cmd.pc \in {"done", "failed"})
=============================================================================
