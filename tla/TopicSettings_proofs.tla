------------------------ MODULE TopicSettings_proofs ------------------------
(***************************************************************************)
(* What the commands do to the settings of a topic, for every value of the *)
(* constants: bootstrap's file changes nothing, check agrees with apply,   *)
(* and retentions drop by steps.                                           *)
(***************************************************************************)
EXTENDS TopicSettings, TLAPS

\* The keys have the values the markers leave them.
LEMMA KeyFacts ==
    /\ Retention \in Keys
    /\ \A k \in Keys : k # Retention <=> k \in OtherKeys
    /\ Values(Retention) = Int
    /\ FileValues(Retention) = Int \cup {Absent, Blank, Null}
    /\ \A k \in OtherKeys : /\ Values(k) = Texts
                            /\ FileValues(k) = Texts \cup Numbers \cup {Absent, Blank, Null}
BY MarkersAssumption DEF Keys, Values, FileValues

\* What a value of the file prints as.
LEMMA TextFacts ==
    /\ Text(Null) = Blank /\ Text(Blank) = Blank /\ Text(Absent) = Absent
    /\ \A v \in Int \cup Texts : Text(v) = v
    /\ \A v \in Numbers : Text(v) \in Texts
BY MarkersAssumption, PrintedAssumption DEF Text

Long(c) == c[Retention] = Absent \/ c[Retention] >= Unlimited
ConfFine(c) == ConfOK(c) /\ Long(c)

\* what Valid leaves of the settings of a file
WantedFine(w) ==
    /\ DOMAIN w = Keys
    /\ \A k \in Keys : w[k] \in FileValues(k)
    /\ w[Retention] \in {Absent, Blank, Null} \/ w[Retention] >= Unlimited

\* The settings of a valid file are those.
LEMMA ValidWanted ==
    ASSUME NEW f, FileOK(f), Valid(f)
    PROVE  /\ WantedFine(Wanted(f))
           /\ f.minutes > 0 => Wanted(f)[Retention] = f.minutes * Minute
                               /\ f.minutes * Minute > 0
           /\ f.minutes = 0 => Wanted(f) = f.settings
<1>1. CASE f.minutes > 0
  <2>1. f.minutes * Minute \in Int /\ f.minutes * Minute > 0
    BY <1>1, DurationsAssumption DEF FileOK
  <2> QED BY <1>1, <2>1, KeyFacts DEF FileOK, Wanted, WantedFine, Unlimited
<1>2. CASE f.minutes = 0
  BY <1>2, KeyFacts DEF FileOK, Valid, Wanted, WantedFine
<1> QED BY <1>1, <1>2 DEF Valid, FileOK

EntriesFine(e) ==
    /\ \A k \in Keys : e[k] \in Values(k) \cup {Absent, Blank}
    /\ e[Retention] \in {Absent, Blank} \/ e[Retention] >= Unlimited

\* The entries of an update have values, and a retention among them is the one
\* wanted, or one step below the present one and still above it.
LEMMA EntriesFacts ==
    ASSUME NEW w, NEW c, NEW d \in BOOLEAN, WantedFine(w), ConfFine(c), ~DropFails(w, c)
    PROVE  LET e == Entries(w, c, d)
           IN  /\ EntriesFine(e)
               /\ e[Retention] \in Int =>
                     /\ w[Retention] \in Int
                     /\ \/ /\ e[Retention] = w[Retention]
                           /\ Step > 0 /\ c[Retention] # Absent =>
                                 c[Retention] - w[Retention] <= Step
                        \/ /\ c[Retention] \in Int
                           /\ e[Retention] = c[Retention] - Step
                           /\ e[Retention] > w[Retention]
<1> DEFINE e == Entries(w, c, d)
<1>1. ASSUME NEW k \in OtherKeys PROVE e[k] \in Values(k) \cup {Absent, Blank}
  <2>a. k \in Keys /\ k # Retention
    BY <1>1, MarkersAssumption DEF Keys
  <2>1. k \in Keys /\ Reduced(w, c)[k] = w[k]
    BY <2>a DEF Reduced, WantedFine
  <2>2. w[k] \in Texts \cup Numbers \cup {Absent, Blank, Null}
    BY <2>1, KeyFacts DEF WantedFine
  <2>3. Text(w[k]) \in Texts \cup {Absent, Blank}
    BY <2>2, TextFacts
  <2> QED BY <2>1, <2>3, KeyFacts DEF Entries
<1>2. /\ e[Retention] \in Int \cup {Absent, Blank}
      /\ e[Retention] \in Int =>
            /\ w[Retention] \in Int
            /\ \/ /\ e[Retention] = w[Retention]
                  /\ Step > 0 /\ c[Retention] # Absent => c[Retention] - w[Retention] <= Step
               \/ /\ c[Retention] \in Int
                  /\ e[Retention] = c[Retention] - Step
                  /\ e[Retention] > w[Retention]
  <2>1. w[Retention] \in Int \cup {Absent, Blank, Null} /\ c[Retention] \in Int \cup {Absent}
    BY KeyFacts DEF WantedFine, ConfFine, ConfOK
  <2>2. e[Retention] \in {Text(Reduced(w, c)[Retention]), Absent, Blank}
        /\ (Retention \notin DiffKeys(w, c) => e[Retention] \in {Absent, Blank})
    BY KeyFacts DEF Entries
  <2>3. CASE Drops(w, c) /\ c[Retention] - w[Retention] > Step
    <3>1. w[Retention] \in Int /\ c[Retention] \in Int
      BY <2>1, <2>3 DEF DropFails, Drops
    <3>2. Reduced(w, c)[Retention] = c[Retention] - Step
      BY <2>3, KeyFacts DEF Reduced, WantedFine
    <3>3. c[Retention] - Step \in Int /\ c[Retention] - Step > w[Retention]
      BY <2>3, <3>1, DurationsAssumption
    <3> QED BY <2>2, <3>1, <3>2, <3>3, TextFacts, MarkersAssumption
  <2>4. CASE ~(Drops(w, c) /\ c[Retention] - w[Retention] > Step)
    <3>1. Reduced(w, c)[Retention] = w[Retention]
      BY <2>4 DEF Reduced
    <3>2. e[Retention] \in Int => w[Retention] \in Int /\ e[Retention] = w[Retention]
      BY <2>1, <2>2, <3>1, TextFacts, MarkersAssumption
    <3>3. w[Retention] \in Int /\ Step > 0 /\ c[Retention] # Absent =>
             c[Retention] - w[Retention] <= Step
      BY <2>1, <2>4, MarkersAssumption, DurationsAssumption DEF Drops
    <3> QED BY <2>1, <2>2, <3>1, <3>2, <3>3, TextFacts
  <2> QED BY <2>3, <2>4
<1>3. e[Retention] \in {Absent, Blank} \/ e[Retention] >= Unlimited
  <2>1. CASE e[Retention] \in Int
    <3>1. w[Retention] >= Unlimited /\ w[Retention] \in Int
      BY <1>2, <2>1, MarkersAssumption DEF WantedFine
    <3> QED BY <1>2, <2>1, <3>1, DurationsAssumption DEF Unlimited
  <2> QED BY <1>2, <2>1
<1>4. EntriesFine(e)
  BY <1>1, <1>2, <1>3, KeyFacts DEF EntriesFine
<1> QED BY <1>2, <1>4

\* The settings of a topic that is created have values, too.
LEMMA NewEntriesFine ==
    ASSUME NEW f, FileOK(f), Valid(f)
    PROVE  EntriesFine(NewEntries(f))
<1> DEFINE w == Wanted(f)
           e == NewEntries(f)
<1>1. WantedFine(w)
  BY ValidWanted
<1>2. ASSUME NEW k \in OtherKeys PROVE e[k] \in Values(k) \cup {Absent, Blank}
  <2>a. k \in Keys
    BY <1>2 DEF Keys
  <2>1. k \in Keys /\ w[k] \in Texts \cup Numbers \cup {Absent, Blank, Null}
    BY <1>1, <1>2, <2>a, KeyFacts DEF WantedFine
  <2>2. Text(w[k]) \in Texts \cup {Absent, Blank}
    BY <2>1, TextFacts
  <2> QED BY <2>1, <2>2, KeyFacts DEF NewEntries
<1>3. /\ e[Retention] \in Int \cup {Absent, Blank}
      /\ e[Retention] \in {Absent, Blank} \/ e[Retention] >= Unlimited
  <2>1. /\ w[Retention] \in Int \cup {Absent, Blank, Null}
        /\ w[Retention] \in {Absent, Blank, Null} \/ w[Retention] >= Unlimited
    BY <1>1, KeyFacts DEF WantedFine
  <2>2. e[Retention] \in {Text(w[Retention]), Absent}
    BY KeyFacts DEF NewEntries
  <2> QED BY <2>1, <2>2, TextFacts
<1> QED BY <1>2, <1>3, KeyFacts DEF EntriesFine

\* A config without keys, and no entries, are fine.
LEMMA NothingFine == ConfFine(Nothing) /\ EntriesFine(Nothing)
<1>1. DOMAIN Nothing = Keys /\ \A k \in Keys : Nothing[k] = Absent
  BY DEF Nothing
<1> QED BY <1>1, KeyFacts DEF ConfFine, ConfOK, Long, EntriesFine

\* An update keeps a config well-formed.
LEMMA UpdatedFine ==
    ASSUME NEW c, NEW e, ConfFine(c), EntriesFine(e)
    PROVE  ConfFine(Updated(c, e))
<1>1. DOMAIN Updated(c, e) = Keys
  BY DEF Updated
<1>2. ASSUME NEW k \in Keys
      PROVE  \/ e[k] = Absent /\ Updated(c, e)[k] = c[k]
             \/ e[k] = Blank /\ Updated(c, e)[k] = Absent
             \/ e[k] \notin {Absent, Blank} /\ Updated(c, e)[k] = e[k]
  BY MarkersAssumption DEF Updated
<1> QED BY <1>1, <1>2, KeyFacts DEF ConfFine, ConfOK, Long, EntriesFine

\* bootstrap's file is well-formed and valid, and wants the config it was
\* written from.
LEMMA BootstrappedFacts ==
    ASSUME NEW c, ConfFine(c)
    PROVE  LET f == Bootstrapped(c)
           IN  FileOK(f) /\ Valid(f) /\ \A k \in Keys : Wanted(f)[k] = c[k]
<1> DEFINE f == Bootstrapped(c)
<1>1. /\ DOMAIN c = Keys /\ Retention \in Keys
      /\ \A k \in Keys : c[k] \in FileValues(k)
      /\ c[Retention] \in Int \cup {Absent}
      /\ c[Retention] = Absent \/ c[Retention] >= Unlimited
  BY KeyFacts DEF ConfFine, ConfOK, Long, FileValues
<1>2. CASE c[Retention] # Absent /\ c[Retention] >= Minute /\ c[Retention] % Minute = 0
  <2> DEFINE r == c[Retention]
             m == r \div Minute
  <2>1. r \in Int /\ r >= Minute /\ Minute \in Int /\ Minute > 0
    BY <1>1, <1>2, DurationsAssumption
  <2>2. m \in Int /\ m * Minute = r
    <3> HIDE DEF r
    <3>1. r % Minute = 0
      BY <1>2 DEF r
    <3>2. m \in Int /\ r = Minute * m + (r % Minute)
      BY <2>1, SMT
    <3> HIDE DEF m
    <3> QED BY <2>1, <3>1, <3>2, SMT
  <2>3. m > 0
    <3> HIDE DEF r
    <3> QED BY <2>1, SMT
  <2>4. f.minutes = m /\ f.settings = [c EXCEPT ![Retention] = Absent]
        /\ f = [minutes |-> f.minutes, settings |-> f.settings]
    BY <1>2 DEF Bootstrapped
  <2>5. DOMAIN f.settings = Keys /\ f.settings[Retention] = Absent
        /\ \A k \in Keys : k # Retention => f.settings[k] = c[k]
    BY <1>1, <2>4
  <2>6. \A k \in Keys : f.settings[k] \in FileValues(k)
    BY <1>1, <2>5 DEF FileValues
  <2>7. FileOK(f) /\ Valid(f)
    <3> HIDE DEF f, m
    <3> QED BY <2>2, <2>3, <2>4, <2>5, <2>6 DEF FileOK, Valid
  <2>8. ASSUME NEW k \in Keys PROVE Wanted(f)[k] = c[k]
    <3> HIDE DEF f, m
    <3>1. Wanted(f) = [f.settings EXCEPT ![Retention] = r]
      BY <2>2, <2>3, <2>4 DEF Wanted
    <3> QED BY <1>1, <2>5, <3>1
  <2> QED BY <2>7, <2>8
<1>3. CASE ~(c[Retention] # Absent /\ c[Retention] >= Minute /\ c[Retention] % Minute = 0)
  <2>1. f = [minutes |-> 0, settings |-> c]
    BY <1>3 DEF Bootstrapped
  <2>2. FileOK(f)
    BY <1>1, <2>1 DEF FileOK
  <2>3. Valid(f) /\ Wanted(f) = c
    BY <1>1, <2>1 DEF Valid, Wanted
  <2> QED BY <2>2, <2>3
<1> QED BY <1>2, <1>3

-----------------------------------------------------------------------------
(***************************************************************************)
(* The inductive invariant: the entries of a run are those its kind makes  *)
(* of what it has read.                                                    *)
(***************************************************************************)
\* a rebalance writes no retention below the one it checked
Kept(r) ==
    r.entries[Retention] \notin {Absent, Blank} /\ r.seen[Retention] # Absent
        => Longer(r.entries[Retention], r.seen[Retention])

RunFine(r) ==
    /\ r = [pc |-> r.pc, kind |-> r.kind, entries |-> r.entries, seen |-> r.seen,
            want |-> r.want, destructive |-> r.destructive]
    /\ r.pc \in {"idle", "ask", "checked", "write"}
    /\ r.kind \in {"apply", "create", "rebalance"}
    /\ r.destructive \in BOOLEAN
    /\ EntriesFine(r.entries)
    /\ r.seen = NoTopic \/ ConfFine(r.seen)
    /\ r.want = NoFile \/ FileOK(r.want)

RunMade(r) ==
    /\ FileOK(r.want) /\ Valid(r.want)
    /\ r.pc = "checked" => r.kind = "rebalance"
    /\ r.kind = "create" => r.seen = NoTopic
    /\ r.kind = "apply" =>
          /\ r.seen # NoTopic
          /\ ~DropFails(Wanted(r.want), r.seen)
          /\ r.entries = Entries(Wanted(r.want), r.seen, r.destructive)
    /\ r.kind = "rebalance" =>
          /\ r.pc # "ask" /\ r.seen # NoTopic
          /\ RetentionMatches(r.want, r.seen)
          /\ r.pc = "write" => Kept(r)

IInv ==
    /\ conf = NoTopic \/ ConfFine(conf)
    /\ file = NoFile \/ FileOK(file)
    /\ RunFine(run)
    /\ run.pc # "idle" => RunMade(run)
    /\ disturbances \in 0..MaxDisturbances

\* It holds at first.
LEMMA InitIInv == Init => IInv
<1> SUFFICES ASSUME Init PROVE IInv
  OBVIOUS
<1>1. RunFine(NoRun) /\ NoRun.pc = "idle"
  <2> HIDE DEF Nothing
  <2> QED BY NothingFine DEF RunFine, NoRun
<1> QED BY <1>1, NothingFine, DisturbancesAssumption DEF Init, IInv

\* No run, no obligations.
LEMMA NoRunFine == RunFine(NoRun) /\ NoRun.pc = "idle"
BY NothingFine DEF RunFine, NoRun

\* What is no shorter, or is unlimited, is longer than a limited retention.
LEMMA LongerFacts ==
    ASSUME NEW a \in Int, NEW b \in Int, a >= b, b >= 0 \/ a = b
    PROVE  Longer(a, b)
BY DEF Longer, Unlimited

\* A rebalance may only keep or lengthen the retention its check found,
\* whatever the config has become since.
LEMMA RebalanceKeeps ==
    ASSUME NEW f, FileOK(f), Valid(f), NEW c, ConfFine(c), NEW seen, ConfFine(seen),
           RetentionMatches(f, seen), ~DropFails(Wanted(f), c),
           seen[Retention] # Absent,
           Entries(Wanted(f), c, FALSE)[Retention] \notin {Absent, Blank}
    PROVE  Longer(Entries(Wanted(f), c, FALSE)[Retention], seen[Retention])
<1> DEFINE w == Wanted(f)
           e == Entries(w, c, FALSE)
<1>1. /\ WantedFine(w)
      /\ f.minutes > 0 => w[Retention] = f.minutes * Minute /\ f.minutes * Minute > 0
  BY ValidWanted
<1>2. /\ e[Retention] \in Int /\ e[Retention] >= Unlimited
      /\ w[Retention] \in Int
      /\ \/ e[Retention] = w[Retention]
         \/ c[Retention] \in Int /\ e[Retention] > w[Retention]
  <2> HIDE DEF w
  <2>1. EntriesFine(e) /\ (e[Retention] \in Int =>
            /\ w[Retention] \in Int
            /\ \/ e[Retention] = w[Retention]
               \/ c[Retention] \in Int /\ e[Retention] > w[Retention])
    BY <1>1, EntriesFacts DEF w
  <2>2. e[Retention] \in Int
    BY <2>1, KeyFacts DEF EntriesFine, w
  <2> QED BY <2>1, <2>2, MarkersAssumption DEF EntriesFine, w
<1>3. seen[Retention] = f.minutes * Minute
  BY DEF RetentionMatches
<1>4. CASE f.minutes > 0
  <2> DEFINE a == e[Retention]
             b == seen[Retention]
  <2>1. a \in Int /\ b \in Int /\ b >= 0 /\ a >= b
    <3> HIDE DEF e, w
    <3> QED BY <1>1, <1>2, <1>3, <1>4, DurationsAssumption DEF FileOK
  <2> QED BY <2>1, LongerFacts
<1>5. CASE f.minutes = 0
  <2> DEFINE a == e[Retention]
             b == seen[Retention]
  <2>1. b = 0
    BY <1>3, <1>5, DurationsAssumption
  <2>2. a = -1 \/ (a \in Int /\ a >= b)
    <3> HIDE DEF e, w
    <3> QED BY <1>2, <2>1 DEF Unlimited
  <2>3. CASE a = -1
    BY <2>3 DEF Longer, Unlimited
  <2>4. CASE a \in Int /\ a >= b
    <3> HIDE DEF a, b
    <3>1. Longer(a, b)
      BY <2>1, <2>4, LongerFacts
    <3> QED BY <3>1 DEF a, b
  <2> QED BY <2>2, <2>3, <2>4
<1>6. f.minutes > 0 \/ f.minutes = 0
  BY DEF Valid, FileOK
<1> QED BY <1>4, <1>5, <1>6

\* Every step keeps the invariant.
LEMMA NextIInv == IInv /\ [Next]_vars => IInv'
<1> SUFFICES ASSUME IInv, [Next]_vars PROVE IInv'
  OBVIOUS
<1> USE DEF IInv
<1>u. CASE UNCHANGED vars
  BY <1>u DEF vars
<1>1. CASE AskCreate
  <2>1. /\ file # NoFile /\ FileOK(file) /\ Valid(file)
        /\ conf' = conf /\ file' = file /\ disturbances' = disturbances
    BY <1>1 DEF AskCreate, Usable
  <2>2. run' = [pc |-> "ask", kind |-> "create", entries |-> NewEntries(file),
                seen |-> NoTopic, want |-> file, destructive |-> FALSE]
    BY <1>1 DEF AskCreate, NoRun
  <2>3. EntriesFine(NewEntries(file))
    BY <2>1, NewEntriesFine
  <2>4. RunFine(run') /\ RunMade(run')
    BY <2>1, <2>2, <2>3 DEF RunFine, RunMade
  <2> QED BY <2>1, <2>4
<1>2. ASSUME NEW d \in BOOLEAN, AskUpdate(d) PROVE IInv'
  <2> DEFINE entries == Entries(Wanted(file), conf, d)
  <2>1. /\ file # NoFile /\ FileOK(file) /\ Valid(file)
        /\ conf # NoTopic /\ ConfFine(conf) /\ ~DropFails(Wanted(file), conf)
        /\ conf' = conf /\ file' = file /\ disturbances' = disturbances
    BY <1>2 DEF AskUpdate, Usable
  <2>2. run' = [pc |-> "ask", kind |-> "apply", entries |-> entries,
                seen |-> conf, want |-> file, destructive |-> d]
    BY <1>2 DEF AskUpdate, NoRun
  <2>3. EntriesFine(entries)
    BY <2>1, ValidWanted, EntriesFacts
  <2> HIDE DEF entries
  <2>4. RunFine(run')
    BY <2>1, <2>2, <2>3 DEF RunFine
  <2>5. RunMade(run')
    BY <2>1, <2>2 DEF RunMade, entries
  <2> QED BY <2>1, <2>4, <2>5
<1>3. CASE CheckRebalance
  <2>1. /\ file # NoFile /\ FileOK(file) /\ Valid(file)
        /\ conf # NoTopic /\ ConfFine(conf) /\ RetentionMatches(file, conf)
        /\ conf' = conf /\ file' = file /\ disturbances' = disturbances
    BY <1>3 DEF CheckRebalance, Usable
  <2>2. run' = [pc |-> "checked", kind |-> "rebalance", entries |-> Nothing,
                seen |-> conf, want |-> file, destructive |-> FALSE]
    BY <1>3 DEF CheckRebalance, NoRun
  <2>3. RunFine(run') /\ RunMade(run')
    BY <2>1, <2>2, NothingFine DEF RunFine, RunMade
  <2> QED BY <2>1, <2>3
<1>4. CASE Rebalance
  <2> DEFINE w == Wanted(run.want)
             entries == Entries(w, conf, FALSE)
  <2>1. /\ run.pc = "checked" /\ RunFine(run) /\ RunMade(run) /\ run.kind = "rebalance"
        /\ conf' = conf /\ file' = file /\ disturbances' = disturbances
    BY <1>4 DEF Rebalance, RunMade
  <2>2. CASE run' = NoRun
    BY <2>1, <2>2, NoRunFine
  <2>3. CASE /\ conf # NoTopic /\ ~DropFails(w, conf)
             /\ run' = [run EXCEPT !.pc = "write", !.entries = entries]
    <3>1. EntriesFine(entries)
      BY <2>1, <2>3, ValidWanted, EntriesFacts DEF RunMade
    <3>2. ConfFine(run.seen) /\ RetentionMatches(run.want, run.seen) /\ run.seen # NoTopic
      BY <2>1 DEF RunFine, RunMade
    <3>3. run.seen[Retention] # Absent /\ entries[Retention] \notin {Absent, Blank}
             => Longer(entries[Retention], run.seen[Retention])
      BY <2>1, <2>3, <3>2, RebalanceKeeps DEF RunMade
    <3> HIDE DEF entries
    <3>4. run' = [pc |-> "write", kind |-> "rebalance", entries |-> entries,
                  seen |-> run.seen, want |-> run.want,
                  destructive |-> run.destructive]
      BY <2>1, <2>3 DEF RunFine
    <3>5. RunFine(run')
      BY <2>1, <3>1, <3>4 DEF RunFine
    <3>6. Kept(run')
      BY <3>3, <3>4 DEF Kept
    <3>7. RunMade(run')
      BY <2>1, <3>2, <3>4, <3>6 DEF RunMade
    <3> QED BY <2>1, <3>5, <3>7
  <2> QED BY <1>4, <2>2, <2>3 DEF Rebalance
<1>5. CASE Confirm
  <2>1. /\ run.pc = "ask" /\ RunFine(run) /\ RunMade(run) /\ run.kind # "rebalance"
        /\ conf' = conf /\ file' = file /\ disturbances' = disturbances
    BY <1>5 DEF Confirm, RunMade
  <2>2. run' = [pc |-> "write", kind |-> run.kind, entries |-> run.entries,
                seen |-> run.seen, want |-> run.want, destructive |-> run.destructive]
    BY <1>5, <2>1 DEF Confirm, RunFine
  <2>3. RunFine(run')
    BY <2>1, <2>2 DEF RunFine
  <2>4. RunMade(run')
    BY <2>1, <2>2 DEF RunMade
  <2> QED BY <2>1, <2>3, <2>4
<1>6. CASE Write
  <2>1. /\ run.pc = "write" /\ EntriesFine(run.entries) /\ run' = NoRun
        /\ file' = file /\ disturbances' = disturbances
    BY <1>6 DEF Write, RunFine
  <2>2. \/ conf' = conf
        \/ conf' = Updated(Nothing, run.entries)
        \/ conf # NoTopic /\ conf' = Updated(conf, run.entries)
    BY <1>6 DEF Write
  <2>3. conf' = NoTopic \/ ConfFine(conf')
    BY <2>1, <2>2, UpdatedFine, NothingFine
  <2> QED BY <2>1, <2>3, NoRunFine
<1>7. CASE Others
  <2>1. ASSUME Disturb PROVE disturbances' \in 0..MaxDisturbances
    BY <2>1, DisturbancesAssumption DEF Disturb
  <2>2. ASSUME NEW f \in Files, Edit(f) PROVE IInv'
    BY <2>1, <2>2, FilesAssumption DEF Edit
  <2>3. CASE Bootstrap
    BY <2>1, <2>3, BootstrappedFacts DEF Bootstrap
  <2>4. ASSUME NEW v \in Foreign \cup {Absent}, SetKey(Retention, v) PROVE IInv'
    <3>1. ConfFine(conf')
      BY <2>4, KeyFacts, ForeignAssumption DEF SetKey, ConfFine, ConfOK, Long
    <3> QED BY <2>1, <2>4, <3>1 DEF SetKey
  <2>5. ASSUME NEW k \in OtherKeys, NEW v \in Texts \cup {Absent}, SetKey(k, v)
        PROVE  IInv'
    <3>1. k \in Keys /\ k # Retention
      BY MarkersAssumption DEF Keys
    <3>2. ConfFine(conf')
      BY <2>5, <3>1, KeyFacts DEF SetKey, ConfFine, ConfOK, Long
    <3> QED BY <2>1, <2>5, <3>2 DEF SetKey
  <2>6. CASE Delete
    BY <2>1, <2>6 DEF Delete
  <2>7. CASE Abandon
    BY <2>1, <2>7, NoRunFine DEF Abandon
  <2> QED BY <1>7, <2>2, <2>3, <2>4, <2>5, <2>6, <2>7 DEF Others
<1> QED BY <1>u, <1>1, <1>2, <1>3, <1>4, <1>5, <1>6, <1>7 DEF Next, Apply, Carry

\* The invariant holds throughout.
LEMMA IInvHolds == Spec => []IInv
<1> QED BY InitIInv, NextIInv, PTL DEF Spec

\* Every variable has its type: the cluster never keeps an empty value
\* (admin/zkclient.go:485-563).
THEOREM SettingsTypeSafety == Spec => []TypeOK
<1>1. IInv => TypeOK
  BY DEF IInv, TypeOK, RunFine, EntriesFine, ConfFine
<1> QED BY <1>1, IInvHolds, PTL

\* Whatever the topic has, the file that bootstrap writes is valid, passes
\* check and gives apply nothing to do (config/topic.go:304-343).
THEOREM BootstrapIsQuiet == Spec => []BootstrapQuiet
<1>1. IInv => BootstrapQuiet
  <2> SUFFICES ASSUME ConfFine(conf) PROVE BootstrapQuiet
    BY DEF IInv, BootstrapQuiet
  <2> DEFINE f == Bootstrapped(conf)
             w == Wanted(f)
  <2>1. Valid(f) /\ \A k \in Keys : w[k] = conf[k]
    BY BootstrappedFacts
  <2> HIDE DEF f, w
  <2>2. \A k \in Keys : Text(conf[k]) = conf[k] /\ conf[k] # Blank
    BY TextFacts, KeyFacts, MarkersAssumption DEF ConfFine, ConfOK, Values
  <2>3. DiffKeys(w, conf) = {} /\ MissingKeys(w, conf) = {}
    BY <2>1, <2>2 DEF DiffKeys, MissingKeys, InCluster
  <2>4. ~DropFails(w, conf)
    BY <2>1, <2>2, KeyFacts DEF DropFails
  <2>5. \A d \in BOOLEAN : Entries(w, conf, d) = Nothing
    BY <2>3 DEF Entries, Nothing
  <2> QED BY <2>1, <2>3, <2>4, <2>5 DEF BootstrapQuiet, CheckOK, f, w
<1> QED BY <1>1, IInvHolds, PTL

\* A run that ends with the disturbances it had has written.
LEMMA WroteIsWrite == IInv /\ [Next]_vars /\ Wrote => Write
<1> SUFFICES ASSUME IInv, [Next]_vars, Wrote PROVE Write
  OBVIOUS
<1>1. /\ run.pc = "write" /\ run # NoRun /\ run' # run
      /\ ~(disturbances' = disturbances + 1)
  BY NoRunFine DEF Wrote, IInv
<1>2. run' = NoRun /\ NoRun.pc = "idle"
  BY NoRunFine DEF Wrote
<1>3. ~Confirm /\ ~Rebalance
  BY <1>1 DEF Confirm, Rebalance
<1>4. ~Others
  BY <1>1 DEF Others, Disturb, Edit, Bootstrap, SetKey, Delete, Abandon
<1>5. ~AskCreate /\ ~CheckRebalance /\ \A d \in BOOLEAN : ~AskUpdate(d)
  BY <1>1 DEF AskCreate, CheckRebalance, AskUpdate
<1>6. ~UNCHANGED vars
  BY <1>1 DEF vars
<1> QED BY <1>3, <1>4, <1>5, <1>6 DEF Next, Apply, Carry

\* An apply lowers a retention by no more than the step, unless somebody
\* changed it after it was read, and unless it was unlimited
\* (config/settings.go:411-467).
THEOREM DropsAreBounded == Spec => FiniteDropsBounded
<1> DEFINE before == conf[Retention]
           after == conf'[Retention]
<1>1. ASSUME IInv, [Next]_vars, Wrote, Step > 0, conf # NoTopic, run.seen # NoTopic,
             before \notin {Absent, Unlimited}, after \notin {Absent, Unlimited},
             before = run.seen[Retention]
      PROVE  before - after <= Step
  <2>1. Write /\ run.kind # "create"
    BY <1>1, WroteIsWrite DEF IInv, RunMade, Wrote
  <2>2. /\ conf' = Updated(conf, run.entries) /\ run.pc = "write"
        /\ RunFine(run) /\ RunMade(run) /\ ConfFine(conf) /\ ConfFine(run.seen)
    BY <1>1, <2>1 DEF Write, IInv, RunFine
  <2>3. before \in Int
    BY <1>1, <2>2, KeyFacts DEF ConfFine, ConfOK
  <2>4. CASE after = before
    BY <2>3, <2>4, DurationsAssumption
  <2>5. CASE after # before
    <3>1. after = run.entries[Retention] /\ run.entries[Retention] \notin {Absent, Blank}
      BY <1>1, <2>2, <2>5, KeyFacts DEF Updated
    <3>2. after \in Int
      BY <2>2, <3>1, KeyFacts DEF RunFine, EntriesFine
    <3>3. CASE run.kind = "apply"
      <4> DEFINE w == Wanted(run.want)
      <4>1. /\ WantedFine(w) /\ ~DropFails(w, run.seen) /\ run.destructive \in BOOLEAN
            /\ run.entries = Entries(w, run.seen, run.destructive)
        BY <2>2, <3>3, ValidWanted DEF RunMade, RunFine
      <4> HIDE DEF w
      <4>2. /\ w[Retention] \in Int
            /\ \/ after = w[Retention] /\ before - w[Retention] <= Step
               \/ after = before - Step
        BY <1>1, <2>2, <3>1, <3>2, <4>1, EntriesFacts
      <4> QED BY <2>3, <3>2, <4>2, DurationsAssumption
    <3>4. CASE run.kind = "rebalance"
      <4>1. Longer(after, before)
        BY <1>1, <2>2, <3>1, <3>4 DEF RunMade, Kept
      <4> QED BY <1>1, <2>3, <3>2, <4>1, DurationsAssumption DEF Longer
    <3> QED BY <2>1, <2>2, <3>3, <3>4 DEF RunFine
  <2> QED BY <2>4, <2>5
<1>2. IInv /\ [Next]_vars =>
        [Wrote /\ Step > 0 /\ conf # NoTopic /\ run.seen # NoTopic =>
           (before \notin {Absent, Unlimited} /\ after \notin {Absent, Unlimited}
            /\ before = run.seen[Retention] => before - after <= Step)]_vars
  BY <1>1
<1> QED BY <1>2, IInvHolds, PTL DEF Spec, FiniteDropsBounded

\* A rebalance, which asks nobody, never lowers the retention its check found
\* (subcmd/rebalance.go:256-272, 310).
THEOREM RebalancesKeepRetention == Spec => RebalanceKeepsRetention
<1> DEFINE before == conf[Retention]
           after == conf'[Retention]
<1>1. ASSUME IInv, [Next]_vars, Wrote, run.kind = "rebalance", conf # NoTopic,
             before = run.seen[Retention], before # Absent, after # Absent
      PROVE  Longer(after, before)
  <2>1. /\ conf' = Updated(conf, run.entries) /\ run.pc = "write"
        /\ RunFine(run) /\ RunMade(run) /\ Kept(run) /\ ConfFine(conf)
    BY <1>1, WroteIsWrite DEF Write, IInv, RunMade, Wrote
  <2>2. before \in Int
    BY <1>1, <2>1, KeyFacts DEF ConfFine, ConfOK
  <2>3. CASE after = before
    <3>1. before = Unlimited \/ before >= 0
      BY <1>1, <2>1, <2>2 DEF ConfFine, Long, Unlimited
    <3> QED BY <2>2, <2>3, <3>1 DEF Longer
  <2>4. CASE after # before
    <3>1. after = run.entries[Retention] /\ run.entries[Retention] \notin {Absent, Blank}
      BY <1>1, <2>1, <2>4, KeyFacts DEF Updated
    <3> QED BY <1>1, <2>1, <3>1 DEF Kept
  <2> QED BY <2>3, <2>4
<1>2. IInv /\ [Next]_vars =>
        [Wrote /\ run.kind = "rebalance" /\ conf # NoTopic =>
           (before = run.seen[Retention] /\ before # Absent /\ after # Absent
            => Longer(after, before))]_vars
  BY <1>1
<1> QED BY <1>2, IInvHolds, PTL DEF Spec, RebalanceKeepsRetention

\* What an update leaves to do: nothing but a retention that a step has
\* brought nearer, and what only --destructive deletes.
LEMMA UpdateSettles ==
    ASSUME NEW w, NEW c, NEW d \in BOOLEAN, WantedFine(w), ConfFine(c), ~DropFails(w, c)
    PROVE  LET n == Updated(c, Entries(w, c, d))
           IN  /\ DiffKeys(w, n) \subseteq {Retention}
               /\ Retention \in DiffKeys(w, n) => /\ n[Retention] # Absent
                                                 /\ w[Retention] < n[Retention]
               /\ d => MissingKeys(w, n) = {}
<1> DEFINE e == Entries(w, c, d)
           n == Updated(c, e)
<1>1. ASSUME NEW k \in Keys
      PROVE  \/ e[k] = Absent /\ n[k] = c[k]
             \/ e[k] = Blank /\ n[k] = Absent
             \/ e[k] \notin {Absent, Blank} /\ n[k] = e[k]
  BY MarkersAssumption DEF Updated
<1>2. ASSUME NEW k \in Keys, w[k] # Absent, e[k] = Text(w[k])
      PROVE  k \notin DiffKeys(w, n)
  <2>1. Text(w[k]) # Absent
    BY <1>2, TextFacts, KeyFacts, MarkersAssumption DEF WantedFine, FileValues, Values
  <2> QED BY <1>1, <1>2, <2>1 DEF DiffKeys, InCluster
<1>3. ASSUME NEW k \in Keys, k \notin DiffKeys(w, c) PROVE k \notin DiffKeys(w, n)
  <2>1. w[k] # Absent => e[k] = Absent
    BY <1>3 DEF Entries, MissingKeys
  <2> HIDE DEF e
  <2>2. w[k] # Absent => n[k] = c[k]
    BY <1>1, <2>1, MarkersAssumption
  <2> HIDE DEF n
  <2> QED BY <1>3, <2>2 DEF DiffKeys, InCluster
<1>4. ASSUME NEW k \in Keys, k \in DiffKeys(w, c), k # Retention
      PROVE  k \notin DiffKeys(w, n)
  <2>1. Reduced(w, c)[k] = w[k]
    BY <1>4 DEF Reduced, WantedFine
  <2>2. w[k] # Absent /\ e[k] = Text(w[k])
    BY <1>4, <2>1 DEF Entries, DiffKeys
  <2> QED BY <1>2, <2>2
<1>5. DiffKeys(w, n) \subseteq {Retention}
  <2>1. DiffKeys(w, n) \subseteq Keys
    BY DEF DiffKeys
  <2> HIDE DEF n, e
  <2> QED BY <1>3, <1>4, <2>1
<1>6. ASSUME Retention \in DiffKeys(w, n)
      PROVE  n[Retention] # Absent /\ w[Retention] < n[Retention]
  <2>1. Retention \in DiffKeys(w, c) /\ Retention \in Keys
    <3> HIDE DEF n
    <3> QED BY <1>3, <1>6, KeyFacts
  <2>2. w[Retention] # Absent /\ e[Retention] = Text(Reduced(w, c)[Retention])
    BY <2>1 DEF DiffKeys, Entries
  <2>3. Drops(w, c) /\ c[Retention] - w[Retention] > Step
    <3>1. ~(Drops(w, c) /\ c[Retention] - w[Retention] > Step)
            => e[Retention] = Text(w[Retention])
      BY <2>2 DEF Reduced
    <3> HIDE DEF n, e
    <3> QED BY <1>2, <1>6, <2>1, <2>2, <3>1
  <2>4. w[Retention] \in Int /\ c[Retention] \in Int
    BY <2>3, KeyFacts DEF Drops, DropFails, WantedFine, ConfFine, ConfOK
  <2>5. Reduced(w, c)[Retention] = c[Retention] - Step
    BY <2>1, <2>3 DEF Reduced, WantedFine
  <2>6. c[Retention] - Step \in Int /\ c[Retention] - Step > w[Retention]
    BY <2>3, <2>4, DurationsAssumption
  <2>7. e[Retention] = c[Retention] - Step
    BY <2>2, <2>5, <2>6, TextFacts
  <2>8. n[Retention] = e[Retention]
    <3> HIDE DEF n, e
    <3> QED BY <1>1, <2>1, <2>6, <2>7, MarkersAssumption
  <2> HIDE DEF n, e
  <2> QED BY <2>4, <2>6, <2>7, <2>8, MarkersAssumption
<1>7. ASSUME d, NEW k \in MissingKeys(w, n) PROVE FALSE
  <2>1. k \in Keys /\ w[k] = Absent /\ n[k] # Absent
    BY <1>7 DEF MissingKeys
  <2>2. k \notin DiffKeys(w, c)
    BY <2>1 DEF DiffKeys
  <2>3. e[k] = IF k \in MissingKeys(w, c) THEN Blank ELSE Absent
    BY <1>7, <2>1, <2>2 DEF Entries
  <2>4. c[k] # Absent => k \in MissingKeys(w, c)
    BY <2>1 DEF MissingKeys
  <2> HIDE DEF n, e
  <2> QED BY <1>1, <2>1, <2>3, <2>4, MarkersAssumption
<1>8. d => MissingKeys(w, n) = {}
  <2> HIDE DEF n
  <2> QED BY <1>7
<1> QED BY <1>5, <1>6, <1>8

\* When nobody came between, check agrees with an apply that has written, but
\* for a retention on its way down and for what only --destructive deletes
\* (check/check.go:84-131, apply.go:522-642).
THEOREM ApplyPassesCheck == Spec => AppliedChecks
<1> DEFINE w == Wanted(run.want)
<1>1. ASSUME IInv, [Next]_vars, Wrote, Undisturbed, run.kind = "apply"
      PROVE  /\ DiffKeys(w, conf') \subseteq {Retention}
             /\ DiffKeys(w, conf') # {} => /\ conf'[Retention] # Absent
                                        /\ w[Retention] < conf'[Retention]
             /\ run.destructive => MissingKeys(w, conf') = {}
  <2>1. /\ conf' = Updated(conf, run.entries) /\ conf = run.seen /\ ConfFine(conf)
        /\ RunFine(run) /\ RunMade(run)
    BY <1>1, WroteIsWrite DEF Write, IInv, Undisturbed, Wrote
  <2>2. /\ WantedFine(w) /\ ~DropFails(w, conf) /\ run.destructive \in BOOLEAN
        /\ conf' = Updated(conf, Entries(w, conf, run.destructive))
    BY <1>1, <2>1, ValidWanted DEF RunMade, RunFine
  <2> HIDE DEF w
  <2> QED BY <2>1, <2>2, UpdateSettles
<1>2. IInv /\ [Next]_vars =>
        [Wrote /\ Undisturbed /\ run.kind = "apply" =>
           LET x == Wanted(run.want)
           IN  /\ DiffKeys(x, conf') \subseteq {Retention}
               /\ DiffKeys(x, conf') # {} => /\ conf'[Retention] # Absent
                                          /\ x[Retention] < conf'[Retention]
               /\ run.destructive => MissingKeys(x, conf') = {}]_vars
  BY <1>1
<1> QED BY <1>2, IInvHolds, PTL DEF Spec, AppliedChecks

=============================================================================
