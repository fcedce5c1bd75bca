------------------------------ MODULE AclAdmin ------------------------------
(***************************************************************************)
(* `topicctl create acls` and `topicctl delete acls` (pkg/acl) beside one  *)
(* another on one cluster.  An ACL is one entry of the cluster; a filter   *)
(* is the set of entries it matches.  Every call to the brokers is a step, *)
(* and so is the prompt, so that others write between what a user is shown *)
(* and what is done.                                                       *)
(***************************************************************************)
EXTENDS Integers, Sequences, Functions

CONSTANTS
    Acls,           \* entries that configs and filters speak of
    Creators,       \* runs of `create acls`
    Deleters,       \* runs of `delete acls`
    Conf,           \* run -> its flags and its configs or its filter
    InitialAcls     \* what the cluster may begin with

Admins == Creators \cup Deleters

\* valid: the config passes Validate and CheckConsistency
DocType == [valid: BOOLEAN, acls: Seq(Acls)]

ASSUME AdminsAssumption == Creators \cap Deleters = {}
ASSUME CreatorsAssumption ==
    \A c \in Creators : Conf[c] \in [docs: Seq(DocType) \ {<<>>}, dryRun: BOOLEAN,
                                     skipConfirm: BOOLEAN]
\* a delete cannot skip its prompt
ASSUME DeletersAssumption ==
    \A d \in Deleters : Conf[d] \in [filter: SUBSET Acls, dryRun: BOOLEAN,
                                     skipConfirm: {FALSE}]
ASSUME InitialAssumption == InitialAcls \subseteq SUBSET Acls

VARIABLES
    acls,   \* the ACLs of the cluster
    pc,     \* run -> the call or prompt it makes next
    run,    \* run -> its local variables
    since   \* run -> what others changed under it since it looked (history)

vars == <<acls, pc, run, since>>

(***************************************************************************)
(* Local variables.  doc and n are the config and the entry of it that a   *)
(* creator is at; shown is what the user is asked about: the entries that  *)
(* a creator found missing, or those that match a deleter's filter.        *)
(***************************************************************************)
RunType == [doc: Nat \ {0}, n: Nat \ {0}, shown: SUBSET Acls]
NewRun == [doc |-> 1, n |-> 1, shown |-> {}]

Ended == {"done", "failed"}
Pcs == {"validate", "check", "list", "ask", "write"} \cup Ended
First(a) == IF a \in Creators THEN "validate" ELSE "list"

Init ==
    /\ acls \in InitialAcls
    /\ pc = [a \in Admins |-> First(a)]
    /\ run = [a \in Admins |-> NewRun]
    /\ since = [a \in Admins |-> {}]

Go(a, label) == pc' = [pc EXCEPT ![a] = label]
DryRun(a) == Conf[a].dryRun
Doc(c) == Conf[c].docs[run[c].doc]

\* others' marks after entries came to the cluster, or left it
Marks(created, deleted) ==
    [a \in Admins |-> since[a] \cup (IF a \in Creators THEN deleted ELSE created)]

-----------------------------------------------------------------------------
(***************************************************************************)
(* ACLAdmin.Create, once for every config of every file; the first error   *)
(* ends the command.                                                       *)
(***************************************************************************)
Validate(c) ==
    /\ pc[c] = "validate"
    /\ Go(c, IF Doc(c).valid THEN "check" ELSE "failed")
    /\ UNCHANGED <<acls, run, since>>

\* one GetACLs for each entry
Check(c) ==
    /\ pc[c] = "check"
    /\ run[c].n \in DOMAIN Doc(c).acls
    /\ LET x == Doc(c).acls[run[c].n]
       IN  /\ run' = [run EXCEPT ![c] =
                        [doc |-> @.doc, n |-> @.n + 1,
                         shown |-> IF x \in acls THEN @.shown ELSE @.shown \cup {x}]]
           /\ since' = [since EXCEPT ![c] = @ \ {x}]
    /\ UNCHANGED <<acls, pc>>

\* the next config, if there is one
NextDoc(c) ==
    IF run[c].doc + 1 \in DOMAIN Conf[c].docs
    THEN Go(c, "validate") /\ run' = [run EXCEPT ![c] = [NewRun EXCEPT !.doc = run[c].doc + 1]]
    ELSE Go(c, "done") /\ UNCHANGED run

Compare(c) ==
    /\ pc[c] = "check"
    /\ run[c].n \notin DOMAIN Doc(c).acls
    /\ IF run[c].shown = {} \/ DryRun(c)
       THEN NextDoc(c)
       ELSE Go(c, "ask") /\ UNCHANGED run
    /\ UNCHANGED <<acls, since>>

\* an end of input counts as no, or is returned as an error
Ask(a) ==
    /\ pc[a] = "ask"
    /\ \/ Go(a, "write")
       \/ ~Conf[a].skipConfirm /\ Go(a, "failed")
    /\ UNCHANGED <<acls, run, since>>

\* mutant of Sent: every entry of the file goes into each request
SentFile(c) == UNION {Range(Conf[c].docs[i].acls) : i \in DOMAIN Conf[c].docs}

\* all entries of the config, not only those that were missing
Sent(c) == Range(Doc(c).acls)

\* the brokers answer for each entry
CreateACLs(c) ==
    /\ pc[c] = "write"
    /\ acls' = acls \cup Sent(c)
    /\ since' = [Marks(Sent(c), {}) EXCEPT ![c] = @ \ Range(Doc(c).acls)]
    /\ NextDoc(c)

\* some entries were refused, or the answer was lost
CreateFails(c) ==
    /\ pc[c] = "write"
    /\ \E made \in SUBSET Sent(c) :
          acls' = acls \cup made /\ since' = Marks(made, {})
    /\ Go(c, "failed")
    /\ UNCHANGED run

-----------------------------------------------------------------------------
(***************************************************************************)
(* ACLAdmin.Delete.                                                        *)
(***************************************************************************)
Matching(d) == Conf[d].filter \cap acls

List(d) ==
    /\ pc[d] = "list"
    /\ run' = [run EXCEPT ![d].shown = Matching(d)]
    /\ since' = [since EXCEPT ![d] = {}]
    /\ Go(d, IF Matching(d) = {} THEN "failed"
             ELSE IF DryRun(d) THEN "done" ELSE "ask")
    /\ UNCHANGED acls

\* mutant of Outcome: an error in the answer for one entry is not looked at
OutcomeUnread(deleted, matching) == "done"

\* each entry that matches has its own error in the answer
Outcome(deleted, matching) == IF deleted = matching THEN "done" ELSE "failed"

\* the filter is matched again by the brokers
DeleteACLs(d) ==
    /\ pc[d] = "write"
    /\ \E deleted \in SUBSET Matching(d) :
          /\ acls' = acls \ deleted
          /\ since' = Marks({}, deleted)
          /\ \/ Go(d, Outcome(deleted, Matching(d)))
             \/ Go(d, "failed")     \* the answer was lost
    /\ UNCHANGED run

-----------------------------------------------------------------------------
\* a read that fails, or the signal that cancels it
ReadFails(a) ==
    /\ pc[a] \in {"check", "list"}
    /\ Go(a, "failed")
    /\ UNCHANGED <<acls, run, since>>

Again(a) ==
    /\ pc[a] \in Ended
    /\ Go(a, First(a))
    /\ run' = [run EXCEPT ![a] = NewRun]
    /\ since' = [since EXCEPT ![a] = {}]
    /\ UNCHANGED acls

Next ==
    \/ \E c \in Creators : \/ Validate(c) \/ Check(c) \/ Compare(c)
                           \/ CreateACLs(c) \/ CreateFails(c)
    \/ \E d \in Deleters : List(d) \/ DeleteACLs(d)
    \/ \E a \in Admins : Ask(a) \/ ReadFails(a) \/ Again(a)

Spec == Init /\ [][Next]_vars

-----------------------------------------------------------------------------
\* Every variable has its type: in particular a creator is at a config it has.
TypeOK ==
    /\ acls \in SUBSET Acls
    /\ pc \in [Admins -> Pcs]
    /\ run \in [Admins -> RunType]
    /\ \A c \in Creators : run[c].doc \in DOMAIN Conf[c].docs
    /\ since \in [Admins -> SUBSET Acls]

Wanted(c) == UNION {Range(Conf[c].docs[i].acls) : i \in DOMAIN Conf[c].docs}

\* A creator that reports success leaves every entry of all its configs in
\* the cluster but for those deleted after it looked at them or sent them,
\* and a deleter that reports success leaves none that its filter matches
\* but for those created after it listed them, whichever entries the brokers
\* refused (acl.go:50-132, 196-209; create.go:112-128).
SuccessMeansDone ==
    /\ \A c \in Creators :
          pc[c] = "done" /\ ~DryRun(c) => Wanted(c) \subseteq acls \cup since[c]
    /\ \A d \in Deleters :
          pc[d] = "done" /\ ~DryRun(d) => Matching(d) \subseteq since[d]

\* An entry that appears without having been shown as new was deleted after
\* it was found, and one that disappears without having been shown was
\* created after the list was made: that is all that can happen between the
\* answer and the write (acl.go:127 sends all, acl.go:186 matches again).
OnlyShownChanges ==
    [][/\ \A x \in acls' \ acls :
             \E c \in Creators : pc[c] = "write" /\ x \in run[c].shown \cup since[c]
       /\ \A x \in acls \ acls' :
             \E d \in Deleters : pc[d] = "write" /\ x \in run[d].shown \cup since[d]]_vars
=============================================================================
