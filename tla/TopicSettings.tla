--------------------------- MODULE TopicSettings ---------------------------
(***************************************************************************)
(* The settings of one topic: the config file, what the cluster has, and   *)
(* the commands between them.  bootstrap writes the file from the cluster, *)
(* apply and rebalance write the cluster from the file, check compares the *)
(* two, and others change both.  Retentions are numbers; the other values  *)
(* are texts in the cluster, texts or numbers in the file.                 *)
(***************************************************************************)
EXTENDS Integers

CONSTANTS OtherKeys,    \* keys apart from retention.ms
          Texts,        \* values as the cluster stores them
          Numbers,      \* values the YAML of the file gives as numbers
          Printed,      \* number -> text, with no more than two decimals
          Minute,       \* the milliseconds of a minute
          Step,         \* retention drop step, none when 0
          Files,        \* what the user may make of the file
          Foreign,      \* retentions that others set
          Absent,       \* no such key
          Blank,        \* the empty text
          Null,         \* a key of the file without a value
          NoTopic, NoFile,
          MaxDisturbances   \* bound: changes by others, refusals, deaths

VARIABLES conf,         \* the config of the topic in the cluster
          file,
          run,          \* the command that may write the config
          disturbances

vars == <<conf, file, run, disturbances>>

Retention == "retention.ms"
Keys == OtherKeys \cup {Retention}
Unlimited == -1

Values(k) == IF k = Retention THEN Int ELSE Texts
FileValues(k) == Values(k) \cup (IF k = Retention THEN {} ELSE Numbers)
                           \cup {Absent, Blank, Null}

ConfOK(c) == DOMAIN c = Keys /\ \A k \in Keys : c[k] \in Values(k) \cup {Absent}
FileOK(f) ==
    /\ f = [minutes |-> f.minutes, settings |-> f.settings]
    /\ f.minutes \in Int /\ DOMAIN f.settings = Keys
    /\ \A k \in Keys : f.settings[k] \in FileValues(k)

ASSUME FilesAssumption == \A f \in Files : FileOK(f)
ASSUME PrintedAssumption == Printed \in [Numbers -> Texts]
ASSUME DurationsAssumption == Minute \in Nat \ {0} /\ Step \in Nat
\* Kafka takes no retention below -1
ASSUME ForeignAssumption == Foreign \subseteq Int /\ \A r \in Foreign : r >= Unlimited
\* the markers are no values, the key's name is its own, and a number is no text
ASSUME MarkersAssumption ==
    /\ Retention \notin OtherKeys
    /\ Absent # Blank /\ Absent # Null /\ Blank # Null
    /\ \A m \in {Absent, Blank, Null} : m \notin Int \cup Texts \cup Numbers
    /\ \A n \in Numbers : n \notin Int \cup Texts
ASSUME DisturbancesAssumption == MaxDisturbances \in Nat

\* interfaceToString
Text(v) == IF v = Null THEN Blank ELSE IF v \in Numbers THEN Printed[v] ELSE v

\* the validators of retention.ms; those of the other keys accept every value
Valid(f) ==
    /\ f.minutes >= 0
    /\ f.minutes > 0 => f.settings[Retention] \in {Absent, Null}
    /\ f.settings[Retention] \notin {Absent, Null, Blank}
          => f.settings[Retention] >= Unlimited

-----------------------------------------------------------------------------
(***************************************************************************)
(* The pure part of apply and check.                                       *)
(***************************************************************************)
Wanted(f) ==
    IF f.minutes > 0
    THEN [f.settings EXCEPT ![Retention] = f.minutes * Minute]
    ELSE f.settings

InCluster(c, k) == IF c[k] = Absent THEN Blank ELSE c[k]

\* mutant of DiffKeys: numbers of the file are compared unprinted
DiffKeysRaw(w, c) ==
    {k \in Keys : w[k] # Absent /\ w[k] # InCluster(c, k) /\ Text(w[k]) # Blank}

DiffKeys(w, c) == {k \in Keys : w[k] # Absent /\ Text(w[k]) # InCluster(c, k)}

MissingKeys(w, c) == {k \in Keys : w[k] = Absent /\ c[k] # Absent}

Drops(w, c) == Step > 0 /\ c[Retention] # Absent /\ w[Retention] \notin {Absent, Null}

\* the empty text is no number
DropFails(w, c) == Drops(w, c) /\ w[Retention] = Blank

\* mutant of Reduced: a large drop is cut in half instead
ReducedHalf(w, c) ==
    IF Drops(w, c) /\ c[Retention] - w[Retention] > Step
    THEN [w EXCEPT ![Retention] = c[Retention] - (c[Retention] - w[Retention]) \div 2]
    ELSE w

\* ReduceRetentionDrop; Unlimited counts as the number it is written with
Reduced(w, c) ==
    IF Drops(w, c) /\ c[Retention] - w[Retention] > Step
    THEN [w EXCEPT ![Retention] = c[Retention] - Step]
    ELSE w

\* mutant of Entries: the values are those of the file, without the override
EntriesOfFile(w, c, destructive) ==
    [k \in Keys |->
        IF k \in DiffKeys(w, c)
        THEN Text(file.settings[k])
        ELSE IF destructive /\ k \in MissingKeys(w, c) THEN Blank ELSE Absent]

\* what is sent: the empty text deletes a key
Entries(w, c, destructive) ==
    [k \in Keys |->
        IF k \in DiffKeys(w, c)
        THEN Text(Reduced(w, c)[k])
        ELSE IF destructive /\ k \in MissingKeys(w, c) THEN Blank ELSE Absent]

Nothing == [k \in Keys |-> Absent]

\* mutant of Updated: the empty text is stored
UpdatedBlank(c, entries) ==
    [k \in Keys |-> IF entries[k] = Absent THEN c[k] ELSE entries[k]]

Updated(c, entries) ==
    [k \in Keys |-> CASE entries[k] = Absent -> c[k]
                      [] entries[k] = Blank -> Absent
                      [] OTHER -> entries[k]]

\* the settings of the request that creates the topic
NewEntries(f) == [k \in Keys |-> IF Wanted(f)[k] = Absent THEN Absent
                                 ELSE Text(Wanted(f)[k])]

\* Kafka accepts no empty value there
Creatable(entries) == \A k \in Keys : entries[k] # Blank

\* mutant of Bootstrapped: the rest of a minute is lost
BootstrappedWhole(c) ==
    LET long == c[Retention] # Absent /\ c[Retention] >= Minute
    IN  [minutes |-> IF long THEN c[Retention] \div Minute ELSE 0,
         settings |-> IF long THEN [c EXCEPT ![Retention] = Absent] ELSE c]

\* TopicConfigFromTopicInfo: a retention of whole minutes becomes
\* retentionMinutes, and all other keys are kept, throttles too
Bootstrapped(c) ==
    LET whole == /\ c[Retention] # Absent
                 /\ c[Retention] >= Minute /\ c[Retention] % Minute = 0
    IN  [minutes |-> IF whole THEN c[Retention] \div Minute ELSE 0,
         settings |-> IF whole THEN [c EXCEPT ![Retention] = Absent] ELSE c]

\* the result "config settings correct" of check
CheckOK(f, c) ==
    DiffKeys(Wanted(f), c) = {} /\ MissingKeys(Wanted(f), c) = {}

-----------------------------------------------------------------------------
(***************************************************************************)
(* The commands.  Those that end without having written anything, dry runs *)
(* and invalid files included, leave no trace.                             *)
(***************************************************************************)
NoRun == [pc |-> "idle", kind |-> "apply", entries |-> Nothing, seen |-> NoTopic,
          want |-> NoFile, destructive |-> FALSE]

Init ==
    /\ conf \in {NoTopic, Nothing}
    /\ file = NoFile
    /\ run = NoRun
    /\ disturbances = 0

Usable == file # NoFile /\ Valid(file)

\* applyNewTopic, up to its prompt
AskCreate ==
    /\ run = NoRun /\ Usable /\ conf = NoTopic
    /\ run' = [NoRun EXCEPT !.pc = "ask", !.kind = "create",
                            !.entries = NewEntries(file), !.want = file]
    /\ UNCHANGED <<conf, file, disturbances>>

\* updateSettings, up to its prompt: what is read here is written later
AskUpdate(destructive) ==
    LET entries == Entries(Wanted(file), conf, destructive)
    IN  /\ run = NoRun /\ Usable /\ conf # NoTopic
        /\ ~DropFails(Wanted(file), conf) /\ entries # Nothing
        /\ run' = [NoRun EXCEPT !.pc = "ask", !.entries = entries,
                                !.seen = conf, !.want = file,
                                !.destructive = destructive]
        /\ UNCHANGED <<conf, file, disturbances>>

\* mutant of RetentionMatches: no check without retentionMinutes
RetentionMatchesIfSet(f, c) ==
    f.minutes = 0 \/ c[Retention] = f.minutes * Minute

\* rebalanceTopicCheck, which knows retentionMinutes only
RetentionMatches(f, c) ==
    (IF c[Retention] = Absent THEN 0 ELSE c[Retention]) = f.minutes * Minute

\* the rebalance command checks the topic first, ...
CheckRebalance ==
    /\ run = NoRun /\ Usable /\ conf # NoTopic
    /\ RetentionMatches(file, conf)
    /\ run' = [NoRun EXCEPT !.pc = "checked", !.kind = "rebalance",
                            !.seen = conf, !.want = file]
    /\ UNCHANGED <<conf, file, disturbances>>

\* ... then reads it again and applies the settings without a prompt
Rebalance ==
    LET w == Wanted(run.want)
        entries == Entries(w, conf, FALSE)
    IN  /\ run.pc = "checked"
        /\ run' = IF conf = NoTopic \/ DropFails(w, conf) \/ entries = Nothing
                  THEN NoRun
                  ELSE [run EXCEPT !.pc = "write", !.entries = entries]
        /\ UNCHANGED <<conf, file, disturbances>>

Confirm ==
    /\ run.pc = "ask"
    /\ run' = [run EXCEPT !.pc = "write"]
    /\ UNCHANGED <<conf, file, disturbances>>

\* a topic that appears or goes in the meantime is an error
Write ==
    /\ run.pc = "write"
    /\ conf' = CASE run.kind = "create" ->
                      IF conf = NoTopic /\ Creatable(run.entries)
                      THEN Updated(Nothing, run.entries) ELSE conf
                 [] OTHER -> IF conf = NoTopic THEN conf
                             ELSE Updated(conf, run.entries)
    /\ run' = NoRun
    /\ UNCHANGED <<file, disturbances>>

-----------------------------------------------------------------------------
(***************************************************************************)
(* What disturbs them.                                                     *)
(***************************************************************************)
Disturb == disturbances < MaxDisturbances /\ disturbances' = disturbances + 1

Edit(f) ==
    /\ Disturb /\ file # f
    /\ file' = f
    /\ UNCHANGED <<conf, run>>

\* an existing file is written over only with --overwrite
Bootstrap ==
    /\ Disturb /\ conf # NoTopic
    /\ file' = Bootstrapped(conf)
    /\ UNCHANGED <<conf, run>>

\* another tool, another run or a migration
SetKey(k, v) ==
    /\ Disturb /\ conf # NoTopic
    /\ conf' = [conf EXCEPT ![k] = v]
    /\ UNCHANGED <<file, run>>

Delete ==
    /\ Disturb /\ conf # NoTopic
    /\ conf' = NoTopic
    /\ UNCHANGED <<file, run>>

\* the user says no, or the process dies
Abandon ==
    /\ Disturb /\ run # NoRun
    /\ run' = NoRun
    /\ UNCHANGED <<conf, file>>

Apply == AskCreate \/ AskUpdate(FALSE)
Carry == Confirm \/ Rebalance \/ Write
Others ==
    \/ \E f \in Files : Edit(f)
    \/ Bootstrap
    \/ \E v \in Foreign \cup {Absent} : SetKey(Retention, v)
    \/ \E k \in OtherKeys, v \in Texts \cup {Absent} : SetKey(k, v)
    \/ Delete \/ Abandon

Next == Apply \/ AskUpdate(TRUE) \/ CheckRebalance \/ Carry \/ Others

Spec == Init /\ [][Next]_vars

(***************************************************************************)
(* A command runs on, and the user runs apply again, as it tells him to    *)
(* (apply.go:580-586), however often a rebalance comes first.              *)
(***************************************************************************)
FairSpec == Spec /\ WF_vars(Carry) /\ SF_vars(Apply)

-----------------------------------------------------------------------------
\* Every variable has its type: the cluster never keeps an empty value.
TypeOK ==
    /\ conf = NoTopic \/ ConfOK(conf)
    /\ file = NoFile \/ FileOK(file)
    /\ run.pc \in {"idle", "ask", "checked", "write"}
    /\ run.kind \in {"apply", "create", "rebalance"}
    /\ \A k \in Keys : run.entries[k] \in Values(k) \cup {Absent, Blank}
    /\ run.seen = NoTopic \/ ConfOK(run.seen)
    /\ run.want = NoFile \/ FileOK(run.want)
    /\ disturbances \in 0..MaxDisturbances

\* Whatever the topic has, the file bootstrap writes is valid, passes check
\* and gives apply nothing to do, and nothing to fail at (topic.go:304-343).
BootstrapQuiet ==
    conf # NoTopic =>
        LET f == Bootstrapped(conf)
        IN  /\ Valid(f) /\ CheckOK(f, conf)
            /\ ~DropFails(Wanted(f), conf)
            /\ \A d \in BOOLEAN : Entries(Wanted(f), conf, d) = Nothing

Wrote == run.pc = "write" /\ run' = NoRun /\ disturbances' = disturbances
Undisturbed == conf # NoTopic /\ conf = run.seen
Longer(a, b) == a = Unlimited \/ (b # Unlimited /\ a >= b)

\* When nobody came between, check agrees with an apply that has written, but
\* for a retention on its way down and for what only --destructive deletes
\* (check.go:84-131, apply.go:522-642).
AppliedChecks ==
    [][Wrote /\ Undisturbed /\ run.kind = "apply" =>
         LET w == Wanted(run.want)
         IN  /\ DiffKeys(w, conf') \subseteq {Retention}
             /\ DiffKeys(w, conf') # {} => /\ conf'[Retention] # Absent
                                        /\ w[Retention] < conf'[Retention]
             /\ run.destructive => MissingKeys(w, conf') = {}]_vars

\* An apply lowers a retention by no more than the step, unless somebody
\* changed it after it was read, and unless it was unlimited
\* (settings.go:411-467).
FiniteDropsBounded ==
    [][Wrote /\ Step > 0 /\ conf # NoTopic /\ run.seen # NoTopic =>
         LET before == conf[Retention]
             after == conf'[Retention]
         IN  before \notin {Absent, Unlimited} /\ after \notin {Absent, Unlimited}
             /\ before = run.seen[Retention] => before - after <= Step]_vars

\* A rebalance, which asks nobody, never lowers the retention its check found
\* (rebalance.go:256-272, 310).
RebalanceKeepsRetention ==
    [][Wrote /\ run.kind = "rebalance" /\ conf # NoTopic =>
         LET before == conf[Retention]
             after == conf'[Retention]
         IN  before = run.seen[Retention] /\ before # Absent /\ after # Absent
             => Longer(after, before)]_vars

\* Once nothing disturbs it any more, repeated applies bring the cluster to
\* the file, however far the retention has to drop, unless they fail on an
\* empty value (apply.go:580-586).
Converges ==
    <>[](Usable =>
           LET w == Wanted(file)
           IN  IF conf = NoTopic THEN ~Creatable(NewEntries(file))
               ELSE DiffKeys(w, conf) = {} \/ DropFails(w, conf))

\* "dropping by no more than the argument retentionDropStepDuration"
\* (settings.go:414): a retention without limit is longer than any number.
DropsBounded ==
    [][Wrote /\ Step > 0 /\ Undisturbed =>
         LET before == conf[Retention]
             after == conf'[Retention]
         IN  before # Absent /\ after # Absent
             => Longer(after, before)
                \/ (before # Unlimited /\ before - after <= Step)]_vars

=============================================================================
