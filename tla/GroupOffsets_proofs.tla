------------------------ MODULE GroupOffsets_proofs ------------------------
(***************************************************************************)
(* Lags are honest, complete but for a reason, and a reset skips nothing:  *)
(* for any number of partitions, however their logs change meanwhile.  The *)
(* invariant relates each reading of a partition's bounds to the log as it *)
(* was when the command began and as it is.                                *)
(***************************************************************************)
EXTENDS GroupOffsets, WellFoundedInduction, TLAPS

-----------------------------------------------------------------------------
(***************************************************************************)
(* Logs.                                                                   *)
(***************************************************************************)
\* A non-empty set of naturals has a smallest element.
LEMMA SmallestExists ==
    ASSUME NEW T, T \subseteq Nat, T # {}
    PROVE  \E x \in T : \A y \in T : x <= y
<1> DEFINE R == {ss \in Nat \X Nat : ss[1] < ss[2]}
<1>1. IsWellFoundedOn(R, Nat)
  BY NatLessThanWellFounded DEF OpToRel
<1>2. \E x \in T : \A y \in T : ~(<<y, x>> \in R)
  <2> HIDE DEF R
  <2> QED BY <1>1, WFMin
<1>3. \A x, y \in Nat : ~(<<y, x>> \in R) => x <= y
  OBVIOUS
<1> HIDE DEF R
<1> QED BY <1>2, <1>3

Offsets == 0..MaxOffset
LogRec == [first : Offsets, end : Offsets, gaps : SUBSET Int]

\* A log is a record of its type.
LEMMA LogOKFacts ==
    ASSUME NEW l, LogOK(l)
    PROVE  l \in LogRec /\ l.first <= l.end /\ \A g \in l.gaps : g >= l.first /\ g < l.end
<1>1. l = [first |-> l.first, end |-> l.end, gaps |-> l.gaps]
  BY DEF LogOK
<1>2. l.first \in Offsets /\ l.end \in Offsets /\ l.first <= l.end
  BY BoundsAssumption DEF LogOK, Offsets
<1>3. \A g \in l.gaps : g \in Int /\ g >= l.first /\ g < l.end
  BY <1>2 DEF LogOK, Offsets
<1> HIDE DEF Offsets
<1>4. [first |-> l.first, end |-> l.end, gaps |-> l.gaps] \in LogRec
  BY <1>2, <1>3 DEF LogRec
<1> QED BY <1>1, <1>2, <1>3, <1>4

\* ... and conversely.
LEMMA LogOKIntro ==
    ASSUME NEW f \in Offsets, NEW e \in Offsets, NEW G, f <= e,
           \A g \in G : g \in Int /\ g >= f /\ g < e
    PROVE  LogOK([first |-> f, end |-> e, gaps |-> G])
BY DEF LogOK, Offsets

Logs == log = [p \in Partitions |-> log[p]] /\ \A p \in Partitions : LogOK(log[p])

\* The message a read gets is one of the log, and no earlier one would do.
LEMMA EarliestFacts ==
    ASSUME Logs, NEW p \in Partitions, NEW o \in Int, From(p, o) # {}
    PROVE  LET m == Earliest(From(p, o))
           IN  /\ m \in Messages(p) /\ m >= o
               /\ m \in Offsets /\ m >= log[p].first /\ m < log[p].end
               /\ \A n \in Messages(p) : n >= o => n >= m
<1> DEFINE F == From(p, o)
<1>1. log[p].first \in Offsets /\ log[p].end \in Offsets
  BY LogOKFacts DEF Logs, LogRec
<1>2. /\ F \subseteq Nat
      /\ \A m \in Messages(p) : m \in Offsets /\ m >= log[p].first /\ m < log[p].end
  BY <1>1, BoundsAssumption DEF From, Messages, Offsets
<1>3. \E m \in F : \A n \in F : m <= n
  BY <1>2, SmallestExists
<1>4. Earliest(F) \in F /\ \A n \in F : Earliest(F) <= n
  BY <1>3 DEF Earliest
<1> QED BY <1>2, <1>4 DEF From

\* How a log may change: it grows at its end and shrinks at its head.
Grown(p) ==
    /\ log'[p].first >= log[p].first /\ log'[p].end >= log[p].end
    /\ \A g \in log[p].gaps : g \in log'[p].gaps \/ g < log'[p].first
    /\ \A m \in Messages(p)' : m \in Messages(p) \/ m >= log[p].end

\* Every step of the log is such a change.
LEMMA LogStepGrows ==
    ASSUME Logs, LogStep
    PROVE  Logs' /\ \A p \in Partitions : Grown(p)
<1> SUFFICES ASSUME NEW q \in Partitions,
                    \/ \E marker \in BOOLEAN : Produce(q, marker)
                    \/ Expire(q) \/ Compact(q)
             PROVE  Logs' /\ \A p \in Partitions : Grown(p)
  BY DEF LogStep
<1> DEFINE l == log[q]
           n == log'[q]
<1>1. l \in LogRec /\ l.first <= l.end /\ \A g \in l.gaps : g \in Int /\ g >= l.first /\ g < l.end
  BY LogOKFacts DEF Logs, LogRec
<1>2. SUFFICES ASSUME log' = [p \in Partitions |-> log'[p]],
                      \A p \in Partitions \ {q} : log'[p] = log[p]
               PROVE  LogOK(n) /\ Grown(q)
  <2>1. log' = [p \in Partitions |-> log'[p]] /\ \A p \in Partitions \ {q} : log'[p] = log[p]
    <3>1. ASSUME NEW marker \in BOOLEAN, Produce(q, marker) 
          PROVE  log' = [p \in Partitions |-> log'[p]] /\ \A p \in Partitions \ {q} : log'[p] = log[p]
      BY <3>1 DEF Produce, Logs
    <3>2. CASE Expire(q)
      BY <3>2 DEF Expire, Logs
    <3>3. CASE Compact(q)
      BY <3>3 DEF Compact, Logs
    <3> QED BY <3>1, <3>2, <3>3
  <2>2. \A p \in Partitions \ {q} : Grown(p)
    <3> SUFFICES ASSUME NEW p \in Partitions \ {q} PROVE Grown(p)
      OBVIOUS
    <3>1. log[p].first \in Int /\ log[p].end \in Int
      BY LogOKFacts DEF Logs, LogRec, Offsets
    <3> QED BY <2>1, <3>1 DEF Grown, Messages
  <2> QED BY <1>2, <2>1, <2>2 DEF Logs
<1>4. ASSUME NEW marker \in BOOLEAN, Produce(q, marker) PROVE LogOK(n) /\ Grown(q)
  <2> DEFINE G == IF marker THEN l.gaps \cup {l.end} ELSE l.gaps
  <2>1. n = [first |-> l.first, end |-> l.end + 1, gaps |-> G] /\ l.end < MaxOffset
    BY <1>1, <1>4 DEF Produce, Logs, LogRec
  <2>2. l.end + 1 \in Offsets /\ l.first \in Offsets /\ l.first <= l.end + 1
    BY <1>1, <2>1, BoundsAssumption DEF LogRec, Offsets
  <2>3. \A g \in G : g \in Int /\ g >= l.first /\ g < l.end + 1
    BY <1>1, <2>2 DEF LogRec, Offsets
  <2>4. LogOK(n)
    <3> HIDE DEF G
    <3> QED BY <2>1, <2>2, <2>3, LogOKIntro
  <2>5. Grown(q)
    BY <1>1, <2>1, <2>2 DEF Grown, Messages, LogRec, Offsets
  <2> QED BY <2>4, <2>5
<1>5. CASE Expire(q)
  <2> DEFINE G == l.gaps \ {l.first}
  <2>1. n = [first |-> l.first + 1, end |-> l.end, gaps |-> G] /\ l.first < l.end
    BY <1>1, <1>5 DEF Expire, Logs, LogRec
  <2>2. l.first + 1 \in Offsets /\ l.end \in Offsets /\ l.first + 1 <= l.end
    BY <1>1, <2>1, BoundsAssumption DEF LogRec, Offsets
  <2>3. \A g \in G : g \in Int /\ g >= l.first + 1 /\ g < l.end
    BY <1>1, <2>2 DEF LogRec, Offsets
  <2>4. LogOK(n)
    <3> HIDE DEF G
    <3> QED BY <2>1, <2>2, <2>3, LogOKIntro
  <2>5. Grown(q)
    BY <1>1, <2>1, <2>2 DEF Grown, Messages, LogRec, Offsets
  <2> QED BY <2>4, <2>5
<1>6. CASE Compact(q)
  <2>1. PICK o \in Messages(q) : n = [first |-> l.first, end |-> l.end, gaps |-> l.gaps \cup {o}]
    BY <1>1, <1>6 DEF Compact, Logs, LogRec
  <2> DEFINE G == l.gaps \cup {o}
  <2>2. /\ l.first \in Offsets /\ l.end \in Offsets
        /\ \A g \in G : g \in Int /\ g >= l.first /\ g < l.end
    BY <1>1, <2>1 DEF Messages, LogRec, Offsets
  <2>3. LogOK(n)
    <3> HIDE DEF G
    <3> QED BY <1>1, <2>1, <2>2, LogOKIntro DEF G
  <2>4. Grown(q)
    BY <1>1, <2>1, <2>2 DEF Grown, Messages, LogRec, Offsets
  <2> QED BY <2>3, <2>4
<1> QED BY <1>4, <1>5, <1>6

-----------------------------------------------------------------------------
(***************************************************************************)
(* The inductive invariant.                                                *)
(***************************************************************************)
CmdRec == [kind : Kinds,
           pc : {"start", "bounds", "ask", "join", "commit", "fenced", "done", "failed"},
           of : SUBSET Partitions,
           then : [Partitions -> LogRec],
           offsets : [Partitions -> Committable]]
BoundRec == [pc : {"none", "offsets", "first", "last", "done", "err"},
             min : Committable,
             first : Offsets, last : Offsets, msg : Offsets, end : Offsets]
GroupRec == [on : BOOLEAN,
             pos : [Partitions -> Committable],
             committed : [Partitions -> Committable]]

Types ==
    /\ Logs
    /\ cmd \in CmdRec /\ \A p \in Partitions : LogOK(cmd.then[p])
    /\ bound \in [Partitions -> BoundRec]
    /\ group \in GroupRec
    /\ errors \in 0..MaxErrors /\ moves \in 0..MaxMoves

\* what is known of a reading of bounds, whoever makes it, ...
Read(p) ==
    /\ bound[p].pc \in {"first", "last"} =>
          bound[p].first < bound[p].end /\ bound[p].end <= log[p].end
    /\ bound[p].pc = "last" => bound[p].msg <= log[p].end
    /\ bound[p].pc = "done" =>
          bound[p].first <= log[p].end /\ bound[p].last <= log[p].end

\* ... for the table of lags, where the log at the beginning matters, ...
ReadForLags(p) ==
    /\ cmd.then[p].first <= log[p].first /\ cmd.then[p].end <= log[p].end
    /\ bound[p].pc # "none"
    /\ bound[p].pc \in {"first", "last"} =>
          cmd.then[p].first <= bound[p].first /\ cmd.then[p].end <= bound[p].end
    /\ bound[p].pc = "done" => cmd.then[p].end <= bound[p].last
    /\ bound[p].pc = "err" /\ errors = 0 => LostHead(p) \/ Marked(p)

\* ... and for the earliest offset.
ReadForEarliest(p) ==
    /\ bound[p].pc = "offsets" => bound[p].min = 0
    /\ bound[p].pc \in {"first", "done"} => \A m \in Messages(p) : m >= bound[p].first
    /\ bound[p].pc = "last" => \A m \in Messages(p) : m >= bound[p].msg

Reading(p) ==
    /\ Read(p)
    /\ Is({"lags"}, "bounds") => ReadForLags(p)
    /\ cmd.kind = "earliest" => ReadForEarliest(p)

\* the offsets that a reset is about to commit
Chosen(p) ==
    cmd.pc \in {"ask", "join", "commit"} /\ p \in cmd.of =>
      /\ cmd.kind = "earliest" =>
            /\ cmd.offsets[p] <= log[p].end
            /\ \A m \in Messages(p) : m >= cmd.offsets[p]
      /\ cmd.kind = "latest" => cmd.offsets[p] <= cmd.then[p].end

\* the table of lags
Table ==
    /\ cmd.kind = "lags" => cmd.pc \in {"start", "bounds", "done", "failed"}
    /\ lags = {} \/ Is({"lags"}, "done")
    /\ Is({"lags"}, "done") =>
          /\ \A p \in Partitions : ReadForLags(p) /\ Read(p) /\ Over(p)
          /\ lags = {Row(p) : p \in {q \in Partitions : At(q, "done")}}

IInv ==
    /\ Types
    /\ \A p \in Partitions : Reading(p) /\ Chosen(p)
    /\ Table

\* It holds at first.
LEMMA InitIInv == Init => IInv
<1> SUFFICES ASSUME Init PROVE IInv
  OBVIOUS
<1>1. Logs
  BY LogsAssumption DEF Init, Logs
<1>2. PICK k \in Kinds, parts \in SUBSET Partitions :
        cmd = NewCmd(k, parts)
  BY DEF Init, GroupInit
<1>3. 0 \in Offsets /\ 0 \in Committable /\ NoOffset \in Committable /\ Base \in Committable
  BY BoundsAssumption DEF Offsets, Committable, NoOffset, Base
<1>4. LogOK([first |-> 0, end |-> 0, gaps |-> {}])
  BY <1>3, LogOKIntro DEF Offsets
<1>5. [first |-> 0, end |-> 0, gaps |-> {}] \in LogRec
  BY <1>3 DEF LogRec
<1>6. cmd \in CmdRec /\ \A p \in Partitions : LogOK(cmd.then[p])
  <2> HIDE DEF Kinds, Offsets, Committable
  <2> QED BY <1>2, <1>3, <1>4, <1>5 DEF NewCmd, CmdRec
<1>7. NoBound \in BoundRec /\ bound = [p \in Partitions |-> NoBound] /\ NoBound.pc = "none"
  <2> HIDE DEF Offsets, Committable
  <2> QED BY <1>3 DEF NoBound, BoundRec, Init, GroupInit
<1>8. group \in GroupRec
  <2> HIDE DEF Committable
  <2> QED BY <1>3, OffsetsAssumption DEF Init, GroupInit, Stopped, GroupRec
<1>9. Types
  BY <1>1, <1>6, <1>7, <1>8, BoundsAssumption DEF Types, Init, GroupInit
<1>10. cmd.pc = "start" /\ lags = {}
  BY <1>2 DEF NewCmd, Init, GroupInit
<1> QED BY <1>7, <1>9, <1>10
        DEF IInv, Reading, Read, ReadForEarliest, Chosen, Table, Is

-----------------------------------------------------------------------------
(***************************************************************************)
(* The log changes under the readings.                                     *)
(***************************************************************************)
\* What is gone stays gone: a marker leaves the log only with its head.
LEMMA GoneStays ==
    ASSUME Types, NEW p \in Partitions, Grown(p), cmd' = cmd,
           cmd.then[p].first <= log[p].first,
           LostHead(p) \/ Marked(p), Logs'
    PROVE  (LostHead(p) \/ Marked(p))'
<1> DEFINE t == cmd.then[p]
           l == log[p]
           n == log'[p]
<1>1. /\ l \in LogRec /\ l.first <= l.end /\ \A g \in l.gaps : g >= l.first /\ g < l.end
      /\ n \in LogRec /\ t \in LogRec
  BY LogOKFacts DEF Types, Logs
<1>2. CASE LostHead(p)
  BY <1>1, <1>2 DEF LostHead, Grown, LogRec, Offsets
<1>3. CASE Marked(p)
  <2>1. PICK g \in l.gaps : g >= t.end - 1
    BY <1>3 DEF Marked
  <2>2. CASE g \in n.gaps
    BY <2>1, <2>2 DEF Marked
  <2>3. CASE g < n.first
    BY <1>1, <2>1, <2>3 DEF LostHead, LogRec, Offsets
  <2> QED BY <2>1, <2>2, <2>3 DEF Grown
<1> QED BY <1>2, <1>3

\* Whatever happens to the log, the readings stay what they were.
LEMMA LogStepIInv ==
    ASSUME IInv, Running, LogStep, UNCHANGED groupVars, moves' \in 0..MaxMoves
    PROVE  IInv'
<1>1. Logs' /\ \A p \in Partitions : Grown(p)
  BY LogStepGrows DEF IInv, Types
<1>2. cmd' = cmd /\ bound' = bound /\ group' = group /\ lags' = lags /\ errors' = errors
  BY DEF groupVars
<1>3. Types'
  BY <1>1, <1>2 DEF IInv, Types
<1>4. ASSUME NEW p \in Partitions PROVE Reading(p)' /\ Chosen(p)'
  <2> DEFINE b == bound[p]
             l == log[p]
             n == log'[p]
             t == cmd.then[p]
  <2>1. /\ l \in LogRec /\ n \in LogRec /\ t \in LogRec /\ b \in BoundRec
        /\ n.first >= l.first /\ n.end >= l.end
        /\ \A m \in Messages(p)' : m \in Messages(p) \/ m >= l.end
        /\ \A m \in Messages(p)' : m \in Int
        /\ cmd.offsets[p] \in Int
    BY <1>1, <1>3, LogOKFacts, BoundsAssumption
    DEF IInv, Types, Logs, Grown, CmdRec, Messages, Committable, NoOffset, Base
  <2>2. Read(p)'
    BY <1>2, <2>1 DEF IInv, Reading, Read, LogRec, BoundRec, Offsets
  <2>3. Is({"lags"}, "bounds")' => ReadForLags(p)'
    <3> SUFFICES ASSUME Is({"lags"}, "bounds") PROVE ReadForLags(p)'
      BY <1>2 DEF Is
    <3>1. ReadForLags(p)
      BY DEF IInv, Reading
    <3>2. t.first <= n.first /\ t.end <= n.end
      BY <2>1, <3>1 DEF ReadForLags, LogRec, Offsets
    <3>3. b.pc = "err" /\ errors = 0 => (LostHead(p) \/ Marked(p))'
      BY <1>1, <1>2, <3>1, GoneStays DEF ReadForLags, IInv
    <3> QED BY <1>2, <3>1, <3>2, <3>3 DEF ReadForLags
  <2>4. cmd.kind = "earliest" => ReadForEarliest(p)'
    <3> SUFFICES ASSUME cmd.kind = "earliest" PROVE ReadForEarliest(p)'
      OBVIOUS
    <3>1. ReadForEarliest(p) /\ Read(p)
      BY DEF IInv, Reading
    <3> QED BY <1>2, <2>1, <3>1 DEF ReadForEarliest, Read, LogRec, BoundRec, Offsets
  <2>5. Chosen(p)'
    <3>1. Chosen(p)
      BY DEF IInv
    <3> QED BY <1>2, <2>1, <3>1 DEF Chosen, LogRec, Offsets
  <2> QED BY <1>2, <2>2, <2>3, <2>4, <2>5 DEF Reading
<1>5. Table'
  BY <1>2 DEF IInv, Table, Running, Is
<1> QED BY <1>3, <1>4, <1>5 DEF IInv

-----------------------------------------------------------------------------
(***************************************************************************)
(* The reads of the bounds of one partition.                               *)
(***************************************************************************)
\* A step that changes the reading of one partition only has to justify that
\* one.
LEMMA OneReading ==
    ASSUME IInv, Running, UNCHANGED <<log, moves, cmd, group, lags>>, NEW p \in Partitions,
           NEW b \in BoundRec, bound' = [bound EXCEPT ![p] = b],
           errors' \in 0..MaxErrors, errors' >= errors, Reading(p)'
    PROVE  IInv'
<1>1. Types' /\ bound \in [Partitions -> BoundRec] /\ errors \in Nat
  BY BoundsAssumption DEF IInv, Types, Logs
<1>2. ASSUME NEW q \in Partitions, q # p PROVE Reading(q)'
  <2>1. bound'[q] = bound[q] /\ (errors' = 0 => errors = 0)
    BY <1>1, <1>2
  <2>2. Read(q)'
    BY <2>1 DEF IInv, Reading, Read
  <2>3. Is({"lags"}, "bounds") => ReadForLags(q)'
    BY <2>1 DEF IInv, Reading, ReadForLags, LostHead, Marked
  <2>4. cmd.kind = "earliest" => ReadForEarliest(q)'
    BY <2>1 DEF IInv, Reading, ReadForEarliest, Messages
  <2> QED BY <2>2, <2>3, <2>4 DEF Reading, Is
<1>3. \A q \in Partitions : Chosen(q)'
  BY DEF IInv, Chosen, Messages
<1>4. Table'
  BY DEF IInv, Table, Running, Is
<1> QED BY <1>1, <1>2, <1>3, <1>4 DEF IInv

\* A log is no shorter than when the command began, and its messages are
\* where its offsets are.
LEMMA LogFacts ==
    ASSUME IInv, NEW p \in Partitions
    PROVE  /\ bound[p] \in BoundRec /\ log[p] \in LogRec /\ cmd.then[p] \in LogRec
           /\ log[p].first <= log[p].end
           /\ \A m \in Messages(p) : m \in Offsets /\ m >= log[p].first /\ m < log[p].end
           /\ \A m \in log[p].first..(log[p].end - 1) : m \in Messages(p) \/ m \in log[p].gaps
<1>1. /\ bound[p] \in BoundRec /\ log[p] \in LogRec /\ cmd.then[p] \in LogRec
      /\ log[p].first <= log[p].end
  BY LogOKFacts DEF IInv, Types, Logs
<1> QED BY <1>1, BoundsAssumption DEF Messages, LogRec, Offsets

\* A read from the middle of the log that is refused, or that waits in vain,
\* has met the work of retention, or an end without message.
LEMMA InVain ==
    ASSUME IInv, NEW p \in Partitions, NEW o \in Offsets,
           ReadForLags(p), o >= cmd.then[p].first, o < log[p].end,
           OutOfRange(p, o) \/ From(p, o) = {}
    PROVE  LostHead(p) \/ Marked(p)
<1> DEFINE l == log[p]
           t == cmd.then[p]
<1>1. /\ l \in LogRec /\ t \in LogRec /\ l.first <= l.end /\ t.end <= l.end
      /\ \A m \in l.first..(l.end - 1) : m \in Messages(p) \/ m \in l.gaps
  BY LogFacts DEF ReadForLags
<1>2. CASE o < l.first
  BY <1>1, <1>2 DEF LostHead, LogRec, Offsets
<1>3. CASE o >= l.first
  <2>1. From(p, o) = {}
    BY <1>1, <1>3 DEF OutOfRange, LogRec, Offsets
  <2>2. l.end - 1 \in l.first..(l.end - 1) /\ l.end - 1 >= o /\ l.end - 1 >= t.end - 1
    BY <1>1, <1>3 DEF LogRec, Offsets
  <2>3. l.end - 1 \in l.gaps
    BY <1>1, <2>1, <2>2 DEF From
  <2> QED BY <2>2, <2>3 DEF Marked
<1> QED BY <1>1, <1>2, <1>3 DEF LogRec, Offsets

\* A reading that ended in an error, for a reason.
LEMMA ErrReading ==
    ASSUME IInv, Running, UNCHANGED <<log, moves, cmd, group, lags>>, NEW p \in Partitions,
           bound' = [bound EXCEPT ![p] = [NoBound EXCEPT !.pc = "err"]],
           errors' \in 0..MaxErrors, errors' >= errors,
           Is({"lags"}, "bounds") /\ errors' = 0 => LostHead(p) \/ Marked(p)
    PROVE  IInv'
<1> DEFINE b == [NoBound EXCEPT !.pc = "err"]
<1>1. 0 \in Offsets /\ Base \in Committable
  BY BoundsAssumption DEF Offsets, Committable, Base
<1>2. b \in BoundRec /\ b.pc = "err"
  <2> HIDE DEF Offsets, Committable
  <2> QED BY <1>1 DEF BoundRec, NoBound
<1> HIDE DEF b
<1>3. bound'[p] = b
  BY DEF IInv, Types, b
<1>4. Is({"lags"}, "bounds") => ReadForLags(p)'
  BY <1>2, <1>3 DEF IInv, Reading, ReadForLags, LostHead, Marked
<1>5. Reading(p)'
  BY <1>2, <1>3, <1>4 DEF Reading, Read, ReadForEarliest, Is
<1> QED BY <1>2, <1>5, OneReading DEF b

\* A reading goes on to its first message, and to its last.
LEMMA ToFirst ==
    ASSUME NEW b \in BoundRec, NEW c, NEW e, NEW f,
           c = [b EXCEPT !.pc = "first", !.end = e, !.first = f]
    PROVE  c = [pc |-> "first", min |-> b.min, first |-> f, last |-> b.last,
                msg |-> b.msg, end |-> e]
<1>1. PICK a1, a2, a3, a4, a5, a6 :
        b = [pc |-> a1, min |-> a2, first |-> a3, last |-> a4, msg |-> a5, end |-> a6]
  BY DEF BoundRec
<1> QED BY <1>1

LEMMA ToLast ==
    ASSUME NEW b \in BoundRec, NEW c, NEW m,
           c = [b EXCEPT !.pc = "last", !.msg = m]
    PROVE  c = [pc |-> "last", min |-> b.min, first |-> b.first, last |-> b.last,
                msg |-> m, end |-> b.end]
<1>1. PICK a1, a2, a3, a4, a5, a6 :
        b = [pc |-> a1, min |-> a2, first |-> a3, last |-> a4, msg |-> a5, end |-> a6]
  BY DEF BoundRec
<1> QED BY <1>1

\* Every step of a reading keeps the invariant.
LEMMA BoundStepIInv ==
    ASSUME IInv, Running, UNCHANGED <<log, moves>>, NEW p \in Partitions,
           BoundStep(p) \/ ReadFails(p)
    PROVE  IInv'
<1> DEFINE b == bound[p]
           l == log[p]
           t == cmd.then[p]
<1>1. /\ b \in BoundRec /\ l \in LogRec /\ t \in LogRec /\ l.first <= l.end
      /\ \A m \in Messages(p) : m \in Offsets /\ m >= l.first /\ m < l.end
      /\ bound \in [Partitions -> BoundRec] /\ errors \in 0..MaxErrors
  BY LogFacts DEF IInv, Types
<1>2. /\ Read(p) /\ Logs
      /\ Is({"lags"}, "bounds") => ReadForLags(p)
      /\ cmd.kind = "earliest" => ReadForEarliest(p)
  BY DEF IInv, Reading, Types
<1>3. UNCHANGED <<log, moves, cmd, group, lags>>
  BY DEF BoundStep, ReadOffsets, ReadFirst, ReadLast, ReadTimesOut, ReadFails, SetBound
<1>e. errors' = errors => errors' \in 0..MaxErrors /\ errors' >= errors
  BY <1>1, BoundsAssumption
<1>0. 0 \in Offsets /\ Base \in Committable
  BY BoundsAssumption DEF Offsets, Committable, Base
\* a new reading n that satisfies what is asked of it
<1>4. ASSUME NEW n \in BoundRec, bound' = [bound EXCEPT ![p] = n], errors' = errors,
             n.pc \in {"first", "last"} => n.first < n.end /\ n.end <= l.end,
             n.pc = "last" => n.msg <= l.end,
             n.pc = "done" => n.first <= l.end /\ n.last <= l.end,
             n.pc \notin {"none", "offsets", "err"},
             Is({"lags"}, "bounds") =>
                /\ n.pc \in {"first", "last"} => t.first <= n.first /\ t.end <= n.end
                /\ n.pc = "done" => t.end <= n.last,
             cmd.kind = "earliest" =>
                /\ n.pc \in {"first", "done"} => \A m \in Messages(p) : m >= n.first
                /\ n.pc = "last" => \A m \in Messages(p) : m >= n.msg
      PROVE  IInv'
  <2>1. bound'[p] = n
    BY <1>1, <1>4
  <2>2. Messages(p)' = Messages(p)
    BY <1>3 DEF Messages
  <2>3. Read(p)'
    BY <1>3, <1>4, <2>1 DEF Read
  <2>4. Is({"lags"}, "bounds") => ReadForLags(p)'
    BY <1>2, <1>3, <1>4, <2>1 DEF ReadForLags
  <2>5. cmd.kind = "earliest" => ReadForEarliest(p)'
    BY <1>4, <2>1, <2>2 DEF ReadForEarliest
  <2>6. Reading(p)'
    BY <1>3, <2>3, <2>4, <2>5 DEF Reading, Is
  <2> QED BY <1>3, <1>e, <1>4, <2>6, OneReading
<1>5. CASE ReadOffsets(p)
  <2>1. b.pc = "offsets" /\ errors' = errors
    BY <1>5 DEF ReadOffsets, At
  <2>2. CASE l.first = l.end
    <3> DEFINE n == [pc |-> "done", min |-> Base, first |-> l.first, last |-> l.end,
                     msg |-> 0, end |-> 0]
    <3>1. bound' = [bound EXCEPT ![p] = n]
      <4>1. PICK c : c = [NoBound EXCEPT !.pc = "done", !.first = l.first, !.last = l.end]
        OBVIOUS
      <4>2. c = n
        BY <4>1 DEF NoBound
      <4> HIDE DEF n
      <4> QED BY <1>5, <2>2, <4>1, <4>2 DEF ReadOffsets, SetBound
    <3>2. n \in BoundRec
      <4> HIDE DEF Offsets, Committable
      <4> QED BY <1>0, <1>1 DEF BoundRec, LogRec
    <3>3. Is({"lags"}, "bounds") => t.end <= l.end
      BY <1>2 DEF ReadForLags
    <3>4. \A m \in Messages(p) : m >= l.first
      BY <1>1
    <3>5. l.first <= l.end /\ l.end <= l.end
      BY <1>1, <2>2 DEF LogRec, Offsets
    <3> QED BY <1>4, <2>1, <3>1, <3>2, <3>3, <3>4, <3>5
  <2>3. CASE l.first # l.end
    <3> DEFINE s == StartAt(p, l.first, l.end)
               n == [pc |-> "first", min |-> b.min, first |-> s, last |-> b.last,
                     msg |-> b.msg, end |-> l.end]
    <3>1. bound' = [bound EXCEPT ![p] = n]
      <4>1. PICK c : c = [b EXCEPT !.pc = "first", !.end = l.end, !.first = s]
        OBVIOUS
      <4>2. c = n
        <5>1. b \in BoundRec
          BY <1>1
        <5> DEFINE e == l.end
        <5> HIDE DEF s, b, e
        <5>2. c = [b EXCEPT !.pc = "first", !.end = e, !.first = s]
          BY <4>1 DEF e
        <5>3. c = [pc |-> "first", min |-> b.min, first |-> s, last |-> b.last,
                   msg |-> b.msg, end |-> e]
          BY <5>1, <5>2, ToFirst
        <5> QED BY <5>3 DEF e
      <4> HIDE DEF n
      <4> QED BY <1>5, <2>3, <4>1, <4>2 DEF ReadOffsets, SetBound
    <3>2. s \in Offsets /\ s >= l.first /\ s < l.end
      BY <1>1, <2>3, BoundsAssumption
      DEF StartAt, LogRec, BoundRec, Offsets, Committable, NoOffset, Base
    <3>3. b.min = 0 => s = l.first
      BY <1>1 DEF StartAt, LogRec, Offsets
    <3> HIDE DEF s
    <3>4. n \in BoundRec
      <4> HIDE DEF Offsets, Committable
      <4> QED BY <1>1, <3>2 DEF BoundRec, LogRec
    <3>5. Is({"lags"}, "bounds") => t.first <= s /\ t.end <= l.end
      BY <1>1, <1>2, <3>2 DEF ReadForLags, LogRec, Offsets
    <3>6. cmd.kind = "earliest" => \A m \in Messages(p) : m >= s
      BY <1>1, <1>2, <2>1, <3>3 DEF ReadForEarliest
    <3>7. l.end <= l.end
      BY <1>1 DEF LogRec, Offsets
    <3> QED BY <1>4, <2>1, <3>1, <3>2, <3>4, <3>5, <3>6, <3>7
  <2> QED BY <2>2, <2>3
<1>6. CASE ReadFirst(p)
  <2>1. b.pc = "first" /\ errors' = errors /\ b.first \in Offsets
    BY <1>1, <1>6 DEF ReadFirst, At, BoundRec
  <2>2. CASE OutOfRange(p, b.first) /\ SetBound(p, [NoBound EXCEPT !.pc = "err"])
    <3>1. Is({"lags"}, "bounds") => LostHead(p) \/ Marked(p)
      <4> SUFFICES ASSUME Is({"lags"}, "bounds") PROVE LostHead(p) \/ Marked(p)
        OBVIOUS
      <4>1. ReadForLags(p) /\ b.first >= t.first /\ b.first < l.end
        BY <1>1, <1>2, <2>1 DEF ReadForLags, Read, LogRec, BoundRec, Offsets
      <4> QED BY <2>1, <2>2, <4>1, InVain
    <3>2. bound' = [bound EXCEPT ![p] = [NoBound EXCEPT !.pc = "err"]]
      BY <2>2 DEF SetBound
    <3> QED BY <1>3, <1>e, <2>1, <3>1, <3>2, ErrReading
  <2>3. CASE /\ From(p, b.first) # {}
             /\ SetBound(p, [b EXCEPT !.pc = "last", !.msg = Earliest(From(p, b.first))])
    <3> DEFINE m == Earliest(From(p, b.first))
               n == [pc |-> "last", min |-> b.min, first |-> b.first, last |-> b.last,
                     msg |-> m, end |-> b.end]
    <3>1. m \in Offsets /\ m <= l.end /\ \A k \in Messages(p) : k >= b.first => k >= m
      BY <1>1, <1>2, <2>1, <2>3, EarliestFacts DEF LogRec, Offsets
    <3> HIDE DEF m
    <3>2. bound' = [bound EXCEPT ![p] = n]
      <4>1. PICK c : c = [b EXCEPT !.pc = "last", !.msg = m]
        OBVIOUS
      <4>2. c = n
        BY <4>1, <1>1, ToLast
      <4> HIDE DEF n
      <4> QED BY <2>3, <4>1, <4>2 DEF SetBound, m
    <3>3. n \in BoundRec
      <4> HIDE DEF Offsets, Committable
      <4> QED BY <1>1, <3>1 DEF BoundRec
    <3>4. b.first < b.end /\ b.end <= l.end
      BY <1>2, <2>1 DEF Read
    <3>5. Is({"lags"}, "bounds") => t.first <= b.first /\ t.end <= b.end
      BY <1>2, <2>1 DEF ReadForLags
    <3>6. cmd.kind = "earliest" => \A k \in Messages(p) : k >= m
      BY <1>2, <2>1, <3>1 DEF ReadForEarliest
    <3> QED BY <1>4, <2>1, <3>1, <3>2, <3>3, <3>4, <3>5, <3>6
  <2> QED BY <1>6, <2>2, <2>3 DEF ReadFirst
<1>7. CASE ReadLast(p)
  <2>1. b.pc = "last" /\ errors' = errors /\ b.first < b.end /\ b.end <= l.end /\ b.msg <= l.end
    BY <1>2, <1>7 DEF ReadLast, At, Read
  <2>2. LastFrom(p) = b.end - 1 /\ LastFrom(p) \in Offsets /\ LastFrom(p) >= b.first
        /\ LastFrom(p) < l.end
    BY <1>1, <2>1, BoundsAssumption DEF LastFrom, BoundRec, LogRec, Offsets
  <2>3. CASE OutOfRange(p, LastFrom(p)) /\ SetBound(p, [NoBound EXCEPT !.pc = "err"])
    <3>1. Is({"lags"}, "bounds") => LostHead(p) \/ Marked(p)
      <4> SUFFICES ASSUME Is({"lags"}, "bounds") PROVE LostHead(p) \/ Marked(p)
        OBVIOUS
      <4>1. ReadForLags(p) /\ LastFrom(p) >= t.first
        BY <1>1, <1>2, <2>1, <2>2 DEF ReadForLags, LogRec, BoundRec, Offsets
      <4> QED BY <2>2, <2>3, <4>1, InVain
    <3>2. bound' = [bound EXCEPT ![p] = [NoBound EXCEPT !.pc = "err"]]
      BY <2>3 DEF SetBound
    <3> QED BY <1>3, <1>e, <2>1, <3>1, <3>2, ErrReading
  <2>4. CASE /\ From(p, LastFrom(p)) # {}
             /\ SetBound(p, [NoBound EXCEPT !.pc = "done", !.first = bound[p].msg,
                                 !.last = Earliest(From(p, LastFrom(p))) + 1])
    <3> DEFINE m == Earliest(From(p, LastFrom(p)))
               n == [pc |-> "done", min |-> Base, first |-> b.msg, last |-> m + 1,
                     msg |-> 0, end |-> 0]
    <3>1. m \in Offsets /\ m < l.end /\ m >= LastFrom(p)
      BY <1>2, <2>2, <2>4, EarliestFacts DEF Offsets
    <3> HIDE DEF m
    <3>2. m + 1 \in Offsets /\ m + 1 <= l.end /\ m + 1 >= b.end
      BY <1>1, <2>2, <3>1, BoundsAssumption DEF LogRec, BoundRec, Offsets
    <3>3. bound' = [bound EXCEPT ![p] = n]
      <4>1. PICK c : c = [NoBound EXCEPT !.pc = "done", !.first = b.msg, !.last = m + 1]
        OBVIOUS
      <4>2. c = n
        BY <4>1 DEF NoBound
      <4> HIDE DEF n
      <4> QED BY <2>4, <4>1, <4>2 DEF SetBound, m
    <3>4. n \in BoundRec
      <4> HIDE DEF Offsets, Committable
      <4> QED BY <1>0, <1>1, <3>2 DEF BoundRec
    <3>5. Is({"lags"}, "bounds") => t.end <= m + 1
      BY <1>1, <1>2, <2>1, <3>2 DEF ReadForLags, LogRec, BoundRec, Offsets
    <3>6. cmd.kind = "earliest" => \A k \in Messages(p) : k >= b.msg
      BY <1>2, <2>1 DEF ReadForEarliest
    <3> QED BY <1>4, <2>1, <3>2, <3>3, <3>4, <3>5, <3>6
  <2> QED BY <1>7, <2>3, <2>4 DEF ReadLast
<1>8. CASE ReadTimesOut(p)
  <2> DEFINE o == IF At(p, "first") THEN b.first ELSE LastFrom(p)
  <2>1. /\ b.pc \in {"first", "last"} /\ From(p, o) = {} /\ errors' = errors
        /\ bound' = [bound EXCEPT ![p] = [NoBound EXCEPT !.pc = "err"]]
    BY <1>8 DEF ReadTimesOut, SetBound
  <2>2. o \in Offsets /\ o >= b.first /\ o < l.end
    BY <1>1, <1>2, <2>1, BoundsAssumption DEF At, Read, LastFrom, BoundRec, LogRec, Offsets
  <2>3. Is({"lags"}, "bounds") => LostHead(p) \/ Marked(p)
    <3> SUFFICES ASSUME Is({"lags"}, "bounds") PROVE LostHead(p) \/ Marked(p)
      OBVIOUS
    <3> HIDE DEF o
    <3>1. ReadForLags(p) /\ o >= t.first
      BY <1>1, <1>2, <2>1, <2>2 DEF ReadForLags, LogRec, BoundRec, Offsets
    <3> QED BY <2>1, <2>2, <3>1, InVain
  <2> QED BY <1>3, <1>e, <2>1, <2>3, ErrReading
<1>9. CASE ReadFails(p)
  <2>1. /\ errors' \in 0..MaxErrors /\ errors' >= errors /\ errors' # 0
        /\ bound' = [bound EXCEPT ![p] = [NoBound EXCEPT !.pc = "err"]]
    BY <1>1, <1>9, BoundsAssumption DEF ReadFails, SetBound
  <2> QED BY <1>3, <2>1, ErrReading
<1> QED BY <1>5, <1>6, <1>7, <1>8, <1>9 DEF BoundStep

-----------------------------------------------------------------------------
(***************************************************************************)
(* The commands.                                                           *)
(***************************************************************************)
\* The command is the record of its fields.
LEMMA CmdFields ==
    ASSUME NEW c \in CmdRec
    PROVE  \E k, x, ps, t, o :
              c = [kind |-> k, pc |-> x, of |-> ps, then |-> t, offsets |-> o]
BY DEF CmdRec

\* What it becomes when it goes on.
LEMMA CmdAt ==
    ASSUME NEW c \in CmdRec, NEW d, NEW x, d = [c EXCEPT !.pc = x]
    PROVE  d = [kind |-> c.kind, pc |-> x, of |-> c.of, then |-> c.then,
                offsets |-> c.offsets]
<1>1. PICK a1, a2, a3, a4, a5 :
        c = [kind |-> a1, pc |-> a2, of |-> a3, then |-> a4, offsets |-> a5]
  BY DEF CmdRec
<1> QED BY <1>1

\* Steps that only take the command further.
LEMMA GotoIInv ==
    ASSUME IInv, Running, UNCHANGED <<log, bound, lags, errors>>, moves' \in 0..MaxMoves,
           group' \in GroupRec, NEW x, Goto(x),
           \/ x = "failed"
           \/ cmd.kind # "lags" /\ x \in {"fenced", "done"}
           \/ cmd.kind # "lags" /\ x \in {"join", "commit"} /\ cmd.pc \in {"ask", "join"}
    PROVE  IInv'
<1>1. cmd \in CmdRec /\ cmd' = [cmd EXCEPT !.pc = x]
  BY DEF IInv, Types, Goto
<1>2. cmd' = [kind |-> cmd.kind, pc |-> x, of |-> cmd.of, then |-> cmd.then,
              offsets |-> cmd.offsets]
  BY <1>1, CmdAt
<1>3. Types'
  <2>1. cmd' \in CmdRec
    BY <1>1, <1>2 DEF CmdRec
  <2>2. \A p \in Partitions : LogOK(cmd'.then[p])
    BY <1>2 DEF IInv, Types
  <2> QED BY <2>1, <2>2 DEF IInv, Types, Logs
<1>4. ASSUME NEW p \in Partitions PROVE Reading(p)' /\ Chosen(p)'
  <2>1. Reading(p)'
    BY <1>2 DEF IInv, Reading, Read, ReadForEarliest, Messages, Is
  <2>2. Chosen(p)'
    BY <1>2 DEF IInv, Chosen, Messages
  <2> QED BY <2>1, <2>2
<1>5. Table'
  <2>1. lags = {}
    BY DEF IInv, Table, Running, Is
  <2> QED BY <1>2, <2>1 DEF Table, Is
<1> QED BY <1>3, <1>4, <1>5 DEF IInv

\* Steps of the group alone.
LEMMA GroupIInv ==
    ASSUME IInv, UNCHANGED <<log, cmd, bound, lags, errors>>, moves' \in 0..MaxMoves,
           group' \in GroupRec
    PROVE  IInv'
<1>1. Types'
  BY DEF IInv, Types, Logs
<1>2. \A p \in Partitions : Reading(p)' /\ Chosen(p)'
  BY DEF IInv, Reading, Read, ReadForLags, ReadForEarliest, Chosen, Messages, Is,
         LostHead, Marked
<1>3. Table'
  <2>1. lags' = {Row(p)' : p \in {q \in Partitions : At(q, "done")'}}
           <=> lags = {Row(p) : p \in {q \in Partitions : At(q, "done")}}
    BY DEF Row, At
  <2> QED BY <2>1 DEF IInv, Table, ReadForLags, Read, Over, Is, LostHead, Marked
<1> QED BY <1>1, <1>2, <1>3 DEF IInv

\* The group record stays one.
LEMMA GroupTypes ==
    ASSUME IInv, Join \/ Commit \/ ConsumerStep
    PROVE  group' \in GroupRec
<1>1. /\ group \in GroupRec /\ Logs /\ cmd \in CmdRec
      /\ \A p \in Partitions : log[p].first \in Offsets /\ log[p].end \in Offsets
  BY LogOKFacts DEF IInv, Types, Logs, LogRec
<1>2. Offsets \subseteq Committable /\ NoOffset \in Committable
  BY BoundsAssumption DEF Offsets, Committable
<1>3. Resumed \in [Partitions -> Committable] /\ Stopped \in [Partitions -> Committable]
  <2> HIDE DEF Committable, Offsets
  <2> QED BY <1>1, <1>2 DEF Resumed, Stopped, GroupRec
<1>4. Committed \in [Partitions -> Committable]
  BY <1>1 DEF Committed, GroupRec, CmdRec
<1>5. CASE Join
  BY <1>1, <1>3, <1>5 DEF Join, GroupRec
<1>6. CASE Commit
  BY <1>1, <1>4, <1>6 DEF Commit, GroupRec
<1>7. CASE ConsumerStart
  BY <1>1, <1>3, <1>7 DEF ConsumerStart, GroupRec
<1>8. CASE ConsumerStop
  BY <1>1, <1>3, <1>8 DEF ConsumerStop, GroupRec
<1>9. ASSUME NEW p \in Partitions, ConsumerReads(p) PROVE group' \in GroupRec
  <2> DEFINE m == Earliest(From(p, group.pos[p]))
  <2>1. group.pos[p] \in Int
    BY <1>1 DEF GroupRec, Committable, NoOffset, Base
  <2>2. m \in Offsets /\ m < log[p].end
    BY <1>1, <1>9, <2>1, EarliestFacts DEF ConsumerReads
  <2>3. m + 1 \in Offsets
    <3> HIDE DEF m
    <3> QED BY <1>1, <2>2, BoundsAssumption DEF Offsets
  <2>4. m + 1 \in Committable
    BY <1>2, <2>3
  <2> HIDE DEF m
  <2>5. group' = [group EXCEPT !.pos[p] = m + 1]
    BY <1>9 DEF ConsumerReads, m
  <2> HIDE DEF Committable
  <2> QED BY <1>1, <2>4, <2>5 DEF GroupRec
<1>10. ASSUME NEW p \in Partitions, ConsumerCommits(p) PROVE group' \in GroupRec
  <2>1. group.pos[p] \in Committable
    BY <1>1 DEF GroupRec
  <2> QED BY <1>1, <1>10, <2>1 DEF ConsumerCommits, GroupRec
<1> QED BY <1>5, <1>6, <1>7, <1>8, <1>9, <1>10 DEF ConsumerStep

\* The lag command reads the offsets and starts to read the bounds.
LEMMA ReadCommittedIInv ==
    ASSUME IInv, UNCHANGED <<log, moves>>, ReadCommitted
    PROVE  IInv'
<1>1. /\ cmd \in CmdRec /\ group \in GroupRec /\ Logs /\ Is({"lags"}, "start")
      /\ cmd' = [cmd EXCEPT !.pc = "bounds", !.then = log, !.offsets = group.committed]
      /\ bound' = [p \in Partitions |->
                      [NoBound EXCEPT !.pc = "offsets", !.min = group.committed[p]]]
      /\ UNCHANGED <<log, moves, group, lags, errors>>
  BY DEF ReadCommitted, IInv, Types
<1>2. cmd' = [kind |-> cmd.kind, pc |-> "bounds", of |-> cmd.of, then |-> log,
              offsets |-> group.committed]
  <2>1. PICK k, x, ps, t, o :
          cmd = [kind |-> k, pc |-> x, of |-> ps, then |-> t, offsets |-> o]
    BY <1>1, CmdFields
  <2> DEFINE c == group.committed
  <2> HIDE DEF c
  <2>2. cmd' = [cmd EXCEPT !.pc = "bounds", !.then = log, !.offsets = c]
    BY <1>1 DEF c
  <2>3. cmd' = [kind |-> cmd.kind, pc |-> "bounds", of |-> cmd.of, then |-> log,
                offsets |-> c]
    BY <2>1, <2>2
  <2> QED BY <2>3 DEF c
<1>3. \A p \in Partitions : LogOK(log[p]) /\ log[p] \in LogRec
  BY <1>1, LogOKFacts DEF Logs
<1>4. log \in [Partitions -> LogRec] /\ group.committed \in [Partitions -> Committable]
  BY <1>1, <1>3 DEF Logs, GroupRec
<1>5. cmd' \in CmdRec
  BY <1>1, <1>2, <1>4 DEF CmdRec
<1>6. 0 \in Offsets
  BY BoundsAssumption DEF Offsets
<1>7. ASSUME NEW p \in Partitions
      PROVE  bound'[p] \in BoundRec /\ bound'[p].pc = "offsets"
  <2>1. bound'[p] = [NoBound EXCEPT !.pc = "offsets", !.min = group.committed[p]]
    BY <1>1
  <2>2. bound'[p] = [pc |-> "offsets", min |-> group.committed[p], first |-> 0,
                     last |-> 0, msg |-> 0, end |-> 0]
    BY <2>1 DEF NoBound
  <2> HIDE DEF Offsets, Committable
  <2> QED BY <1>4, <1>6, <2>2 DEF BoundRec
<1>8. bound' \in [Partitions -> BoundRec]
  BY <1>1, <1>7
<1>9. Types'
  BY <1>1, <1>2, <1>3, <1>5, <1>8 DEF IInv, Types, Logs
<1>10. ASSUME NEW p \in Partitions PROVE Reading(p)' /\ Chosen(p)'
  <2>1. log[p].first \in Int /\ log[p].end \in Int
    BY <1>3 DEF LogRec, Offsets
  <2>a. bound'[p].pc = "offsets" /\ cmd'.then[p] = log'[p] /\ log'[p] = log[p]
    BY <1>1, <1>2, <1>7
  <2>b. log'[p].first <= log'[p].first /\ log'[p].end <= log'[p].end
    BY <2>1, <2>a
  <2>2. ReadForLags(p)'
    BY <2>a, <2>b DEF ReadForLags
  <2>3. Read(p)'
    BY <1>7 DEF Read
  <2> QED BY <1>1, <1>2, <2>2, <2>3 DEF Reading, Chosen, Is
<1>11. Table'
  BY <1>1, <1>2 DEF IInv, Table, Is
<1> QED BY <1>9, <1>10, <1>11 DEF IInv

\* The lag command ends.
LEMMA ReportLagsIInv ==
    ASSUME IInv, UNCHANGED <<log, moves>>, ReportLags
    PROVE  IInv'
<1>1. /\ cmd \in CmdRec /\ Is({"lags"}, "bounds") /\ \A p \in Partitions : Over(p)
      /\ cmd' = [cmd EXCEPT !.pc = "done"]
      /\ lags' = {Row(p) : p \in {q \in Partitions : At(q, "done")}}
      /\ UNCHANGED <<log, moves, bound, group, errors>>
  BY DEF ReportLags, Goto, IInv, Types
<1>2. cmd' = [kind |-> cmd.kind, pc |-> "done", of |-> cmd.of, then |-> cmd.then,
              offsets |-> cmd.offsets]
  BY <1>1, CmdAt
<1>3. Types'
  <2>1. cmd' \in CmdRec
    BY <1>1, <1>2 DEF CmdRec
  <2> QED BY <1>1, <1>2, <2>1 DEF IInv, Types, Logs
<1>4. \A p \in Partitions : Reading(p)' /\ Chosen(p)'
  BY <1>1, <1>2 DEF IInv, Reading, Read, Chosen, Is
<1>5. Table'
  <2>1. ASSUME NEW p \in Partitions PROVE (ReadForLags(p) /\ Read(p) /\ Over(p))'
    <3>1. ReadForLags(p) /\ Read(p) /\ Over(p)
      BY <1>1 DEF IInv, Reading
    <3> QED BY <1>1, <1>2, <3>1 DEF ReadForLags, Read, Over, LostHead, Marked
  <2>2. ASSUME NEW p \in Partitions PROVE Row(p)' = Row(p) /\ At(p, "done")' = At(p, "done")
    BY <1>1, <1>2 DEF Row, At
  <2>3. lags' = {Row(p)' : p \in {q \in Partitions : At(q, "done")'}}
    BY <1>1, <2>2
  <2> QED BY <1>1, <1>2, <2>1, <2>3 DEF Table, Is
<1> QED BY <1>3, <1>4, <1>5 DEF IInv

\* A reset reads the bounds of one partition after the other, and keeps them.
LEMMA StartResetIInv ==
    ASSUME IInv, Running, UNCHANGED <<log, moves>>, StartReset
    PROVE  IInv'
<1>e. errors \in Nat
  BY BoundsAssumption DEF IInv, Types
<1>1. /\ cmd \in CmdRec /\ bound \in [Partitions -> BoundRec] /\ Logs
      /\ cmd.kind \in {"earliest", "latest"} /\ group \in GroupRec
      /\ \A p \in cmd.of : Over(p) \/ At(p, "none")
      /\ UNCHANGED <<log, moves, group, lags, errors>>
  BY DEF StartReset, IInv, Types, Is
<1>2. CASE Goto("failed") /\ UNCHANGED bound
  <2>1. moves' \in 0..MaxMoves /\ group' \in GroupRec
    BY <1>1 DEF IInv, Types
  <2> QED BY <1>1, <1>2, <2>1, GotoIInv
<1>3. ASSUME NEW p \in Partitions, UNCHANGED cmd,
             bound' = [bound EXCEPT ![p] = [NoBound EXCEPT !.pc = "offsets",
                                                           !.min = ResetBase(p)]]
      PROVE  IInv'
  <2> DEFINE n == [pc |-> "offsets", min |-> 0, first |-> 0, last |-> 0, msg |-> 0,
                   end |-> 0]
  <2>1. bound' = [bound EXCEPT ![p] = n]
    <3>1. PICK c : c = [NoBound EXCEPT !.pc = "offsets", !.min = ResetBase(p)]
      OBVIOUS
    <3>2. c = n
      BY <3>1 DEF NoBound, ResetBase
    <3> HIDE DEF n
    <3> QED BY <1>3, <3>1, <3>2
  <2>2. n \in BoundRec
    <3>1. 0 \in Offsets /\ 0 \in Committable
      BY BoundsAssumption DEF Offsets, Committable
    <3> HIDE DEF Offsets, Committable
    <3> QED BY <3>1 DEF BoundRec
  <2>3. bound'[p] = n
    BY <1>1, <2>1
  <2>4. Reading(p)'
    BY <1>1, <1>3, <2>3 DEF Reading, Read, ReadForEarliest, Is
  <2>5. errors' \in 0..MaxErrors /\ errors' >= errors
    BY <1>e, <1>1 DEF IInv, Types
  <2> QED BY <1>1, <1>3, <2>1, <2>2, <2>4, <2>5, OneReading
<1>4. CASE /\ ~\E p \in cmd.of : At(p, "err")
           /\ NextOf = {} /\ UNCHANGED bound
           /\ cmd' = [cmd EXCEPT !.pc = "ask", !.then = log, !.offsets =
                         [p \in Partitions |-> IF cmd.kind = "latest" THEN bound[p].last
                                               ELSE bound[p].first]]
  <2> DEFINE o == [p \in Partitions |-> IF cmd.kind = "latest" THEN bound[p].last
                                         ELSE bound[p].first]
  <2>1. o \in [Partitions -> Offsets]
    BY <1>1 DEF BoundRec
  <2>2. cmd' = [kind |-> cmd.kind, pc |-> "ask", of |-> cmd.of, then |-> log, offsets |-> o]
    <3>1. cmd' = [cmd EXCEPT !.pc = "ask", !.then = log, !.offsets = o]
      BY <1>4
    <3> HIDE DEF o
    <3>2. PICK k, x, ps, t, q :
            cmd = [kind |-> k, pc |-> x, of |-> ps, then |-> t, offsets |-> q]
      BY <1>1, CmdFields
    <3> QED BY <3>1, <3>2
  <2>3. \A p \in Partitions : LogOK(log[p]) /\ log[p] \in LogRec
    BY <1>1, LogOKFacts DEF Logs
  <2>4. Types'
    <3>1. o \in [Partitions -> Committable]
      <4> HIDE DEF o
      <4> QED BY <2>1, BoundsAssumption DEF Offsets, Committable
    <3> HIDE DEF o
    <3>0. log \in [Partitions -> LogRec]
      BY <1>1, <2>3 DEF Logs
    <3>2. cmd' \in CmdRec
      BY <1>1, <2>2, <3>0, <3>1 DEF CmdRec
    <3> QED BY <1>1, <1>4, <2>2, <2>3, <3>2 DEF IInv, Types, Logs
  <2>5. ASSUME NEW p \in Partitions PROVE Reading(p)' /\ Chosen(p)'
    <3>1. Reading(p)'
      BY <1>1, <1>4, <2>2 DEF IInv, Reading, Read, ReadForEarliest, Messages, Is
    <3>2. ASSUME p \in cmd.of PROVE bound[p].pc = "done"
      BY <1>1, <1>4, <3>2 DEF NextOf, Over, At
    <3>3. cmd.kind = "earliest" => ReadForEarliest(p)
      BY DEF IInv, Reading
    <3>4. Read(p)
      BY DEF IInv, Reading
    <3>5. Chosen(p)'
      BY <1>1, <2>2, <3>2, <3>3, <3>4 DEF Chosen, ReadForEarliest, Read, Messages
    <3> QED BY <3>1, <3>5
  <2>6. Table'
    BY <1>1, <2>2 DEF IInv, Table, Is
  <2> QED BY <2>4, <2>5, <2>6 DEF IInv
<1>5. NextOf \subseteq Partitions
  BY <1>1 DEF NextOf, CmdRec
<1> QED BY <1>1, <1>2, <1>3, <1>4, <1>5 DEF StartReset

\* A reset to an offset takes it as it is.
LEMMA StartOffsetIInv ==
    ASSUME IInv, UNCHANGED <<log, moves>>, NEW o \in {Base, MaxOffset + 1}, StartOffset(o)
    PROVE  IInv'
<1>1. /\ cmd \in CmdRec /\ Logs /\ cmd.kind = "offset"
      /\ cmd' = [cmd EXCEPT !.pc = "ask", !.then = log,
                            !.offsets = [p \in Partitions |-> o]]
      /\ UNCHANGED <<log, moves, bound, group, lags, errors>>
  BY DEF StartOffset, IInv, Types, Is
<1> DEFINE c == [p \in Partitions |-> o]
<1>2. o \in Committable
  BY BoundsAssumption DEF Committable
<1>3. c \in [Partitions -> Committable]
  BY <1>2
<1> HIDE DEF c
<1>4. cmd' = [kind |-> cmd.kind, pc |-> "ask", of |-> cmd.of, then |-> log, offsets |-> c]
  <2>1. cmd' = [cmd EXCEPT !.pc = "ask", !.then = log, !.offsets = c]
    BY <1>1 DEF c
  <2>2. PICK k, x, ps, t, q :
          cmd = [kind |-> k, pc |-> x, of |-> ps, then |-> t, offsets |-> q]
    BY <1>1, CmdFields
  <2> QED BY <2>1, <2>2
<1>5. \A p \in Partitions : LogOK(log[p]) /\ log[p] \in LogRec
  BY <1>1, LogOKFacts DEF Logs
<1>6. cmd' \in CmdRec
  <2>1. log \in [Partitions -> LogRec]
    BY <1>1, <1>5 DEF Logs
  <2> QED BY <1>1, <1>3, <1>4, <2>1 DEF CmdRec
<1>7. Types'
  BY <1>1, <1>4, <1>5, <1>6 DEF IInv, Types, Logs
<1>8. \A p \in Partitions : Reading(p)' /\ Chosen(p)'
  BY <1>1, <1>4 DEF IInv, Reading, Read, Chosen, Is
<1>9. Table'
  BY <1>1, <1>4 DEF IInv, Table, Is
<1> QED BY <1>7, <1>8, <1>9 DEF IInv

\* Every step keeps the invariant.
LEMMA NextIInv == IInv /\ [Next]_vars => IInv'
<1> SUFFICES ASSUME IInv, [Next]_vars PROVE IInv'
  OBVIOUS
<1>1. CASE UNCHANGED vars
  <2>1. UNCHANGED <<log, cmd, bound, lags, errors>> /\ moves' \in 0..MaxMoves
        /\ group' \in GroupRec
    BY <1>1 DEF vars, IInv, Types
  <2> QED BY <2>1, GroupIInv
<1>2. CASE CommandStep
  <2>1. Running /\ UNCHANGED <<log, moves>> /\ moves' \in 0..MaxMoves
    BY <1>2 DEF CommandStep, IInv, Types
  <2>2. CASE ReadCommitted
    BY <2>1, <2>2, ReadCommittedIInv
  <2>3. CASE ReportLags
    BY <2>1, <2>3, ReportLagsIInv
  <2>4. CASE StartReset
    BY <2>1, <2>4, StartResetIInv
  <2>5. CASE \E o \in {Base, MaxOffset + 1} : StartOffset(o)
    BY <2>1, <2>5, StartOffsetIInv
  <2>6. group \in GroupRec /\ (cmd.pc \in {"ask", "join", "commit", "fenced"} => cmd.kind # "lags")
    BY DEF IInv, Types, Table
  <2>7. CASE Answer
    <3>1. /\ UNCHANGED <<log, bound, lags, errors>> /\ group' \in GroupRec
          /\ cmd.pc = "ask" /\ cmd.kind # "lags"
          /\ Goto("join") \/ Goto("failed")
      BY <2>1, <2>6, <2>7 DEF Answer
    <3> QED BY <2>1, <3>1, GotoIInv
  <2>8. CASE Join
    <3>1. /\ UNCHANGED <<log, bound, lags, errors>> /\ group' \in GroupRec
          /\ cmd.pc = "join" /\ cmd.kind # "lags" /\ Goto("commit")
      BY <2>1, <2>6, <2>8, GroupTypes DEF Join
    <3> QED BY <2>1, <3>1, GotoIInv
  <2>9. CASE Commit
    <3>1. /\ UNCHANGED <<log, bound, lags, errors>> /\ group' \in GroupRec
          /\ cmd.kind # "lags" /\ Goto("done")
      BY <2>1, <2>6, <2>9, GroupTypes DEF Commit
    <3> QED BY <2>1, <3>1, GotoIInv
  <2>10. CASE Fenced \/ Interrupted
    <3>1. UNCHANGED <<log, bound, lags, errors>> /\ group' \in GroupRec /\ Goto("failed")
      BY <2>1, <2>6, <2>10 DEF Fenced, Interrupted
    <3> QED BY <2>1, <3>1, GotoIInv
  <2>11. CASE \E p \in Partitions : BoundStep(p) \/ ReadFails(p)
    BY <2>1, <2>11, BoundStepIInv
  <2> QED BY <1>2, <2>2, <2>3, <2>4, <2>5, <2>7, <2>8, <2>9, <2>10, <2>11
          DEF CommandStep, CmdStep
<1>3. CASE Meanwhile
  <2>1. Running /\ moves' \in 0..MaxMoves
    BY <1>3, BoundsAssumption DEF Meanwhile, IInv, Types
  <2>2. CASE LogStep /\ UNCHANGED groupVars
    BY <2>1, <2>2, LogStepIInv
  <2>3. CASE ConsumerStep /\ UNCHANGED log
    <3>1. group' \in GroupRec /\ UNCHANGED <<log, bound, lags, errors>>
      BY <2>3, GroupTypes
      DEF ConsumerStep, ConsumerStart, ConsumerStop, ConsumerReads, ConsumerCommits
    <3>2. \/ cmd' = cmd
          \/ cmd.pc = "commit" /\ Goto("fenced")
      BY <2>3
      DEF ConsumerStep, ConsumerStart, ConsumerStop, ConsumerReads, ConsumerCommits, Goto
    <3>3. cmd.pc = "commit" => cmd.kind # "lags"
      BY DEF IInv, Table
    <3> QED BY <2>1, <3>1, <3>2, <3>3, GroupIInv, GotoIInv
  <2> QED BY <1>3, <2>2, <2>3 DEF Meanwhile
<1> QED BY <1>1, <1>2, <1>3 DEF Next

\* The invariant holds throughout.
LEMMA IInvHolds == Spec => []IInv
<1> QED BY InitIInv, NextIInv, PTL DEF Spec

-----------------------------------------------------------------------------
\* Every variable has its type: the bounds are offsets of the log
\* (messages/bounds.go:133-253).
THEOREM OffsetsTypeSafety == Spec => []TypeOK
<1>1. IInv => TypeOK
  <2> SUFFICES ASSUME IInv PROVE TypeOK
    OBVIOUS
  <2> HIDE DEF Committable
  <2> QED BY DEF IInv, Types, Logs, TypeOK, CmdRec, BoundRec, GroupRec, Offsets
<1> QED BY <1>1, IInvHolds, PTL

\* A lag lies between what the group lacked when its offsets were read and
\* what it lacks of the log as it is now (groups.go:140-194).
THEOREM LagsAreHonest == Spec => []LagsHonest
<1>1. IInv => LagsHonest
  <2> SUFFICES ASSUME IInv, NEW row \in lags
               PROVE  row.lag \in (cmd.then[row.part].end - cmd.offsets[row.part])
                                    ..(log[row.part].end - cmd.offsets[row.part])
    BY DEF LagsHonest
  <2>1. PICK p \in Partitions : row = Row(p) /\ At(p, "done")
    BY DEF IInv, Table
  <2>2. row.part = p /\ row.lag = bound[p].last - cmd.offsets[p]
    BY <2>1 DEF Row
  <2>3. ReadForLags(p) /\ Read(p)
    BY DEF IInv, Table
  <2>4. /\ cmd.then[p].end <= bound[p].last /\ bound[p].last <= log[p].end
        /\ cmd.then[p].end \in Int /\ bound[p].last \in Int /\ log[p].end \in Int
    BY <2>1, <2>3, LogFacts DEF ReadForLags, Read, At, LogRec, BoundRec, Offsets
  <2>5. cmd.offsets[p] \in Int
    BY DEF IInv, Types, CmdRec, Committable, NoOffset, Base
  <2> QED BY <2>2, <2>4, <2>5
<1> QED BY <1>1, IInvHolds, PTL

\* A partition is missing from the table of lags because a connection failed,
\* retention took messages or a marker ends its log, never because of where
\* the group stands (bounds.go:168-186).
THEOREM LagsAreComplete == Spec => []LagsComplete
<1>1. IInv => LagsComplete
  <2> SUFFICES ASSUME IInv, Is({"lags"}, "done"), errors = 0, NEW p \in Partitions
               PROVE  \/ \E row \in lags : row.part = p
                      \/ LostHead(p) \/ Marked(p)
    BY DEF LagsComplete
  <2>1. ReadForLags(p) /\ Over(p)
        /\ lags = {Row(q) : q \in {q \in Partitions : At(q, "done")}}
    BY DEF IInv, Table
  <2>2. CASE At(p, "done")
    <3>1. Row(p) \in lags /\ Row(p).part = p
      BY <2>1, <2>2 DEF Row
    <3> QED BY <3>1
  <2>3. CASE bound[p].pc = "err"
    BY <2>1, <2>3 DEF ReadForLags
  <2> QED BY <2>1, <2>2, <2>3 DEF Over, At
<1> QED BY <1>1, IInvHolds, PTL

\* A reset to the earliest offset skips no message that is still there, and
\* one to the latest none that came after the prompt (reset.go:118-181).
THEOREM ResetsSkipNothing == Spec => ResetSkipsNothing
<1>1. ASSUME IInv, Commit, NEW p \in cmd.of, NEW m \in Messages(p), m < cmd.offsets[p]
      PROVE  cmd.kind # "earliest" /\ (cmd.kind = "latest" => m < cmd.then[p].end)
  <2>1. p \in Partitions /\ cmd.offsets[p] \in Int
    BY <1>1 DEF IInv, Types, CmdRec, Committable, NoOffset, Base
  <2>2. m \in Int /\ cmd.then[p].end \in Int
    BY <1>1, <2>1, LogFacts DEF LogRec, Offsets
  <2>3. Chosen(p) /\ cmd.pc = "commit"
    BY <1>1, <2>1 DEF IInv, Commit
  <2> QED BY <1>1, <2>1, <2>2, <2>3 DEF Chosen
<1>2. IInv /\ [Next]_vars =>
        [Commit => \A p \in cmd.of : \A m \in Messages(p) :
             m < cmd.offsets[p] => /\ cmd.kind # "earliest"
                                   /\ cmd.kind = "latest" => m < cmd.then[p].end]_vars
  BY <1>1
<1> QED BY <1>2, IInvHolds, PTL DEF Spec, ResetSkipsNothing
=============================================================================
