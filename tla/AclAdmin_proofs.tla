-------------------------- MODULE AclAdmin_proofs --------------------------
(***************************************************************************)
(* What a run of AclAdmin that succeeds has done, and what it may have     *)
(* changed that its user was not shown, for any number of runs, entries    *)
(* and configs.                                                            *)
(***************************************************************************)
EXTENDS AclAdmin, TLAPS

(***************************************************************************)
(* The inductive invariant.  Past: what earlier configs of the file asked  *)
(* for is there, was deleted, or is about to be asked about again.  Seen:  *)
(* the same for the entries of this config that were looked at.            *)
(***************************************************************************)
Known(c) == acls \cup since[c] \cup run[c].shown

Past(c) ==
    ~DryRun(c) =>
        /\ pc[c] \in {"validate", "check", "ask", "write"} =>
              \A k \in DOMAIN Conf[c].docs :
                  k < run[c].doc => Range(Conf[c].docs[k].acls) \subseteq Known(c)
        /\ pc[c] = "done" =>
              \A k \in DOMAIN Conf[c].docs :
                  Range(Conf[c].docs[k].acls) \subseteq acls \cup since[c]

Seen(c) ==
    /\ pc[c] = "validate" => run[c].shown = {} /\ run[c].n = 1
    /\ pc[c] \in {"check", "ask", "write"} => run[c].shown \subseteq Sent(c)
    /\ pc[c] = "check" =>
          \A i \in DOMAIN Doc(c).acls :
              i < run[c].n => Doc(c).acls[i] \in Known(c)
    /\ pc[c] \in {"ask", "write"} => Sent(c) \subseteq Known(c)

Listed(d) ==
    /\ pc[d] \in {"ask", "write"} => Matching(d) \subseteq run[d].shown \cup since[d]
    /\ pc[d] = "done" /\ ~DryRun(d) => Matching(d) \subseteq since[d]

Kinds ==
    /\ \A c \in Creators : pc[c] # "list"
    /\ \A d \in Deleters : pc[d] \notin {"validate", "check"}

IInv ==
    /\ TypeOK
    /\ Kinds
    /\ \A c \in Creators : Past(c) /\ Seen(c)
    /\ \A d \in Deleters : Listed(d)

-----------------------------------------------------------------------------
\* what the assumptions say of one config
LEMMA DocTyped ==
    ASSUME NEW c \in Creators, NEW i \in DOMAIN Conf[c].docs
    PROVE  /\ Conf[c].docs \in Seq(DocType)
           /\ Conf[c].docs # <<>>
           /\ Conf[c].docs[i] \in DocType
           /\ Conf[c].docs[i].acls \in Seq(Acls)
           /\ Range(Conf[c].docs[i].acls) \subseteq Acls
  <1>1. Conf[c].docs \in Seq(DocType) /\ Conf[c].docs # <<>>
    BY CreatorsAssumption
  <1>2. Conf[c].docs[i] \in DocType
    BY <1>1
  <1>3. Conf[c].docs[i].acls \in Seq(Acls)
    BY <1>2 DEF DocType
  <1>4. Range(Conf[c].docs[i].acls) \subseteq Acls
    BY <1>3 DEF Range
  <1> QED BY <1>1, <1>2, <1>3, <1>4

\* the first config exists
LEMMA FirstDoc ==
    ASSUME NEW c \in Creators
    PROVE  1 \in DOMAIN Conf[c].docs
  <1>1. Conf[c].docs \in Seq(DocType) /\ Conf[c].docs # <<>>
    BY CreatorsAssumption
  <1> QED BY <1>1

LEMMA FilterTyped ==
    ASSUME NEW d \in Deleters
    PROVE  Conf[d].filter \in SUBSET Acls
  BY DeletersAssumption

LEMMA InitIInv == Init => IInv
  <1> SUFFICES ASSUME Init PROVE IInv
    OBVIOUS
  <1>1. \A c \in Creators : pc[c] = "validate" /\ run[c] = NewRun /\ since[c] = {}
    BY DEF Init, First, Admins
  <1>2. \A d \in Deleters : pc[d] = "list" /\ run[d] = NewRun /\ since[d] = {}
    BY AdminsAssumption DEF Init, First, Admins
  <1>3. NewRun \in RunType
    BY DEF NewRun, RunType
  <1>4. TypeOK
    <2>1. acls \in SUBSET Acls
      BY InitialAssumption DEF Init
    <2>2. pc \in [Admins -> Pcs]
      BY DEF Init, First, Pcs
    <2>3. run \in [Admins -> RunType]
      BY <1>3 DEF Init
    <2>4. \A c \in Creators : run[c].doc \in DOMAIN Conf[c].docs
      BY <1>1, FirstDoc DEF NewRun
    <2>5. since \in [Admins -> SUBSET Acls]
      BY DEF Init
    <2> QED BY <2>1, <2>2, <2>3, <2>4, <2>5 DEF TypeOK
  <1>5. Kinds
    BY <1>1, <1>2 DEF Kinds
  <1>6. ASSUME NEW c \in Creators PROVE Past(c) /\ Seen(c)
    <2>1. \A k \in DOMAIN Conf[c].docs : ~(k < run[c].doc)
      BY <1>1, FirstDoc, DocTyped DEF NewRun
    <2> QED BY <2>1, <1>1, <1>6 DEF Past, Seen, NewRun
  <1>7. ASSUME NEW d \in Deleters PROVE Listed(d)
    BY <1>2, <1>7 DEF Listed
  <1> QED BY <1>4, <1>5, <1>6, <1>7 DEF IInv

-----------------------------------------------------------------------------
(***************************************************************************)
(* Types.                                                                  *)
(***************************************************************************)
LEMMA MarksType ==
    ASSUME TypeOK, NEW made \in SUBSET Acls, NEW deleted \in SUBSET Acls
    PROVE  Marks(made, deleted) \in [Admins -> SUBSET Acls]
  BY DEF TypeOK, Marks

LEMMA SentType ==
    ASSUME TypeOK, NEW c \in Creators
    PROVE  Sent(c) \in SUBSET Acls
  BY DocTyped DEF TypeOK, Sent, Doc

LEMMA NextDocType ==
    ASSUME TypeOK, NEW c \in Creators, NextDoc(c)
    PROVE  /\ pc' \in [Admins -> Pcs] /\ run' \in [Admins -> RunType]
           /\ \A b \in Creators : run'[b].doc \in DOMAIN Conf[b].docs
  <1>1. CASE run[c].doc + 1 \in DOMAIN Conf[c].docs
    <2>1. run[c].doc + 1 \in Nat \ {0}
      BY DEF TypeOK, RunType, Admins
    <2>2. [NewRun EXCEPT !.doc = run[c].doc + 1] \in RunType
      BY <2>1 DEF NewRun, RunType
    <2> QED BY <1>1, <2>2 DEF TypeOK, NextDoc, Go, Pcs, Admins, NewRun
  <1>2. CASE run[c].doc + 1 \notin DOMAIN Conf[c].docs
    BY <1>2 DEF TypeOK, NextDoc, Go, Pcs, Ended, Admins
  <1> QED BY <1>1, <1>2

LEMMA CreatorTypes ==
    ASSUME TypeOK, NEW c \in Creators,
           Validate(c) \/ Check(c) \/ Compare(c) \/ CreateACLs(c) \/ CreateFails(c)
    PROVE  TypeOK'
  <1>1. CASE Validate(c)
    BY <1>1 DEF TypeOK, Validate, Go, Pcs, Ended, Admins
  <1>2. CASE Check(c)
    <2> DEFINE x == Doc(c).acls[run[c].n]
    <2>1. x \in Acls
      BY <1>2, DocTyped DEF TypeOK, Check, Doc, Range
    <2>2. run[c] \in RunType
      BY DEF TypeOK, Admins
    <2> DEFINE found == IF x \in acls THEN run[c].shown ELSE run[c].shown \cup {x}
               new == [doc |-> run[c].doc, n |-> run[c].n + 1, shown |-> found]
    <2>3. new \in RunType /\ new.doc = run[c].doc
      BY <2>1, <2>2 DEF RunType
    <2>4. /\ run' = [run EXCEPT ![c] = new]
          /\ since' = [since EXCEPT ![c] = @ \ {x}]
          /\ UNCHANGED <<acls, pc>>
      BY <1>2, <2>2 DEF TypeOK, Check, RunType
    <2> HIDE DEF x, found, new
    <2>5. run' \in [Admins -> RunType]
      BY <2>3, <2>4 DEF TypeOK
    <2>6. \A b \in Creators : run'[b].doc \in DOMAIN Conf[b].docs
      BY <2>3, <2>4 DEF TypeOK, Admins
    <2>7. since' \in [Admins -> SUBSET Acls]
      BY <2>4 DEF TypeOK
    <2> QED BY <2>4, <2>5, <2>6, <2>7 DEF TypeOK
  <1>3. CASE Compare(c)
    <2>1. CASE NextDoc(c)
      BY <1>3, <2>1, NextDocType DEF TypeOK, Compare
    <2>2. CASE Go(c, "ask") /\ UNCHANGED run
      BY <1>3, <2>2 DEF TypeOK, Compare, Go, Pcs, Admins
    <2> QED BY <1>3, <2>1, <2>2 DEF Compare
  <1>4. CASE CreateACLs(c)
    <2>1. Marks(Sent(c), {}) \in [Admins -> SUBSET Acls]
      BY MarksType, SentType
    <2>2. since' \in [Admins -> SUBSET Acls]
      BY <1>4, <2>1 DEF CreateACLs, Admins
    <2>3. acls' \in SUBSET Acls
      BY <1>4, SentType DEF CreateACLs, TypeOK
    <2> QED BY <1>4, <2>2, <2>3, NextDocType DEF CreateACLs, TypeOK
  <1>5. CASE CreateFails(c)
    <2>1. PICK made \in SUBSET Sent(c) : acls' = acls \cup made /\ since' = Marks(made, {})
      BY <1>5 DEF CreateFails
    <2>2. since' \in [Admins -> SUBSET Acls] /\ acls' \in SUBSET Acls
      BY <2>1, MarksType, SentType DEF TypeOK
    <2> QED BY <1>5, <2>2 DEF TypeOK, CreateFails, Go, Pcs, Ended, Admins
  <1> QED BY <1>1, <1>2, <1>3, <1>4, <1>5

LEMMA DeleterTypes ==
    ASSUME TypeOK, NEW d \in Deleters, List(d) \/ DeleteACLs(d)
    PROVE  TypeOK'
  <1>1. Matching(d) \in SUBSET Acls
    BY FilterTyped DEF TypeOK, Matching
  <1>2. d \notin Creators /\ d \in Admins
    BY AdminsAssumption DEF Admins
  <1>3. CASE List(d)
    <2>1. [run[d] EXCEPT !.shown = Matching(d)] \in RunType
      BY <1>1, <1>2 DEF TypeOK, RunType
    <2>2. run' \in [Admins -> RunType]
      BY <1>3, <2>1 DEF TypeOK, List
    <2>3. \A c \in Creators : run'[c].doc \in DOMAIN Conf[c].docs
      BY <1>3, <1>2 DEF TypeOK, List, Admins
    <2>4. pc' \in [Admins -> Pcs]
      BY <1>3 DEF TypeOK, List, Go, Pcs, Ended
    <2>5. since' \in [Admins -> SUBSET Acls]
      BY <1>3 DEF TypeOK, List
    <2> QED BY <1>3, <2>2, <2>3, <2>4, <2>5 DEF TypeOK, List
  <1>4. CASE DeleteACLs(d)
    <2>1. PICK deleted \in SUBSET Matching(d) :
             /\ acls' = acls \ deleted /\ since' = Marks({}, deleted)
             /\ \/ Go(d, Outcome(deleted, Matching(d)))
                \/ Go(d, "failed")
      BY <1>4 DEF DeleteACLs
    <2>2. since' \in [Admins -> SUBSET Acls] /\ acls' \in SUBSET Acls
      BY <2>1, <1>1, MarksType DEF TypeOK
    <2>3. pc' \in [Admins -> Pcs]
      BY <2>1 DEF TypeOK, Go, Outcome, Pcs, Ended
    <2> QED BY <1>4, <2>2, <2>3 DEF TypeOK, DeleteACLs
  <1> QED BY <1>3, <1>4

LEMMA AdminTypes ==
    ASSUME TypeOK, NEW a \in Admins, Ask(a) \/ ReadFails(a) \/ Again(a)
    PROVE  TypeOK'
  <1>1. CASE Ask(a)
    BY <1>1 DEF TypeOK, Ask, Go, Pcs, Ended
  <1>2. CASE ReadFails(a)
    BY <1>2 DEF TypeOK, ReadFails, Go, Pcs, Ended
  <1>3. CASE Again(a)
    <2>1. NewRun \in RunType
      BY DEF NewRun, RunType
    <2>2. \A c \in Creators : run'[c].doc \in DOMAIN Conf[c].docs
      BY <1>3, FirstDoc DEF TypeOK, Again, NewRun, Admins
    <2>3. pc' \in [Admins -> Pcs]
      BY <1>3 DEF TypeOK, Again, Go, First, Pcs
    <2> QED BY <1>3, <2>1, <2>2, <2>3 DEF TypeOK, Again
  <1> QED BY <1>1, <1>2, <1>3

-----------------------------------------------------------------------------
(***************************************************************************)
(* A run that only looks on: what it knew stays known or is marked.        *)
(***************************************************************************)
LEMMA CreatorLooksOn ==
    ASSUME NEW c \in Creators, Past(c), Seen(c),
           pc'[c] = pc[c], run'[c] = run[c],
           acls \cup since[c] \subseteq acls' \cup since'[c]
    PROVE  Past(c)' /\ Seen(c)'
  <1>1. Known(c) \subseteq Known(c)'
    BY DEF Known
  <1>2. Doc(c)' = Doc(c) /\ Sent(c)' = Sent(c)
    BY DEF Doc, Sent
  <1>3. Past(c)'
    BY <1>1 DEF Past
  <1>4. Seen(c)'
    BY <1>1, <1>2 DEF Seen
  <1> QED BY <1>3, <1>4

LEMMA DeleterLooksOn ==
    ASSUME NEW d \in Deleters, Listed(d),
           pc'[d] = pc[d], run'[d] = run[d],
           acls' \subseteq acls \cup since'[d], since[d] \subseteq since'[d]
    PROVE  Listed(d)'
  BY DEF Listed, Matching

\* what every step does to the runs that do not take it
Untouched(b) == pc'[b] = pc[b] /\ run'[b] = run[b]

Aside(a) ==
    /\ \A b \in Admins \ {a} : Untouched(b)
    /\ \A c \in Creators \ {a} : acls \cup since[c] \subseteq acls' \cup since'[c]
    /\ \A d \in Deleters \ {a} : /\ acls' \subseteq acls \cup since'[d]
                                  /\ since[d] \subseteq since'[d]

LEMMA OneStep ==
    ASSUME IInv, NEW a \in Admins, Aside(a), TypeOK',
           a \in Creators => Past(a)' /\ Seen(a)' /\ pc'[a] # "list",
           a \in Deleters => Listed(a)' /\ pc'[a] \notin {"validate", "check"}
    PROVE  IInv'
  <1>1. ASSUME NEW c \in Creators PROVE Past(c)' /\ Seen(c)'
    BY <1>1, CreatorLooksOn DEF IInv, Aside, Untouched, Admins
  <1>2. ASSUME NEW d \in Deleters PROVE Listed(d)'
    BY <1>2, DeleterLooksOn DEF IInv, Aside, Untouched, Admins
  <1>3. Kinds'
    BY DEF IInv, Kinds, Aside, Untouched, Admins
  <1> QED BY <1>1, <1>2, <1>3 DEF IInv

-----------------------------------------------------------------------------
(***************************************************************************)
(* The steps of a creator.                                                 *)
(***************************************************************************)
\* A creator goes on to its next config when all up to this one is there.
LEMMA NextDocKept ==
    ASSUME TypeOK, NEW c \in Creators, NextDoc(c),
           ~DryRun(c) => \A k \in DOMAIN Conf[c].docs : k < run[c].doc + 1 =>
               Range(Conf[c].docs[k].acls) \subseteq acls' \cup since'[c]
    PROVE  /\ Past(c)' /\ Seen(c)' /\ pc'[c] # "list"
           /\ \A b \in Admins \ {c} : Untouched(b)
  <1>0. c \in Admins /\ run[c].doc \in DOMAIN Conf[c].docs
        /\ Conf[c].docs \in Seq(DocType)
    BY DocTyped DEF TypeOK, Admins
  <1>1. CASE run[c].doc + 1 \in DOMAIN Conf[c].docs
    <2> DEFINE next == [NewRun EXCEPT !.doc = run[c].doc + 1]
    <2>1. next.doc = run[c].doc + 1 /\ next.shown = {} /\ next.n = 1
      BY DEF NewRun
    <2>2. pc' = [pc EXCEPT ![c] = "validate"] /\ run' = [run EXCEPT ![c] = next]
      BY <1>1 DEF NextDoc, Go
    <2> HIDE DEF next
    <2>3. pc'[c] = "validate" /\ run'[c] = next
      BY <2>2, <1>0 DEF TypeOK
    <2>4. Past(c)'
      BY <2>1, <2>3 DEF Past, Known, DryRun
    <2>5. Seen(c)'
      BY <2>1, <2>3 DEF Seen
    <2> QED BY <2>2, <2>3, <2>4, <2>5 DEF TypeOK, Untouched
  <1>2. CASE run[c].doc + 1 \notin DOMAIN Conf[c].docs
    <2>1. pc' = [pc EXCEPT ![c] = "done"] /\ run' = run
      BY <1>2 DEF NextDoc, Go
    <2>2. pc'[c] = "done"
      BY <2>1, <1>0 DEF TypeOK
    <2>3. \A k \in DOMAIN Conf[c].docs : k < run[c].doc + 1
      BY <1>0, <1>2
    <2>4. Past(c)'
      BY <2>2, <2>3 DEF Past, DryRun
    <2>5. Seen(c)'
      BY <2>2 DEF Seen
    <2> QED BY <2>1, <2>2, <2>4, <2>5 DEF TypeOK, Untouched
  <1> QED BY <1>1, <1>2

LEMMA ValidateKept == ASSUME IInv, NEW c \in Creators, Validate(c) PROVE IInv'
  <1>0. c \in Admins /\ c \notin Deleters
    BY AdminsAssumption DEF Admins
  <1>1. TypeOK'
    BY CreatorTypes DEF IInv
  <1>2. Aside(c)
    BY DEF IInv, TypeOK, Validate, Go, Aside, Untouched, Admins
  <1>3. pc'[c] \in {"check", "failed"} /\ UNCHANGED <<acls, run, since>>
    BY <1>0 DEF IInv, TypeOK, Validate, Go
  <1>4. Known(c)' = Known(c)
    BY <1>3 DEF Known
  <1>5. Past(c)'
    BY <1>3, <1>4 DEF IInv, Past, Validate
  <1>6. Doc(c).acls \in Seq(Acls)
    BY DocTyped DEF IInv, TypeOK, Doc
  <1>7. Seen(c)'
    BY <1>3, <1>6 DEF IInv, Seen, Validate, Doc
  <1> QED BY <1>0, <1>1, <1>2, <1>3, <1>5, <1>7, OneStep

LEMMA CheckKept == ASSUME IInv, NEW c \in Creators, Check(c) PROVE IInv'
  <1>0. c \in Admins /\ c \notin Deleters
    BY AdminsAssumption DEF Admins
  <1>1. TypeOK'
    BY CreatorTypes DEF IInv
  <1> DEFINE x == Doc(c).acls[run[c].n]
             found == IF x \in acls THEN run[c].shown ELSE run[c].shown \cup {x}
             new == [doc |-> run[c].doc, n |-> run[c].n + 1, shown |-> found]
  <1>2. /\ run' = [run EXCEPT ![c] = new]
        /\ since' = [since EXCEPT ![c] = @ \ {x}]
        /\ UNCHANGED <<acls, pc>> /\ pc[c] = "check"
    BY DEF Check
  <1>3. x \in acls \cup found
    OBVIOUS
  <1>4. run[c].shown \subseteq found /\ found \subseteq run[c].shown \cup {x}
    OBVIOUS
  <1>5. new.doc = run[c].doc /\ new.n = run[c].n + 1 /\ new.shown = found
    OBVIOUS
  <1>6. x \in Sent(c)
    BY DEF Check, Sent, Range
  <1> HIDE DEF found, new
  <1>7. run'[c] = new /\ since'[c] = since[c] \ {x} /\ pc'[c] = "check"
    BY <1>0, <1>2 DEF IInv, TypeOK
  <1>8. Aside(c)
    BY <1>0, <1>2 DEF IInv, TypeOK, Aside, Untouched, Admins
  <1>9. Known(c) \subseteq Known(c)' /\ x \in Known(c)'
    BY <1>2, <1>3, <1>4, <1>5, <1>7 DEF Known
  <1>10. Past(c)'
    BY <1>2, <1>5, <1>7, <1>9 DEF IInv, Past, DryRun
  <1>11. Doc(c)' = Doc(c) /\ Sent(c)' = Sent(c)
    BY <1>5, <1>7 DEF Doc, Sent
  <1>12. Seen(c)'
    <2>1. found \subseteq Sent(c)
      BY <1>2, <1>4, <1>6 DEF IInv, Seen
    <2>2. run[c].n \in Nat /\ Doc(c).acls \in Seq(Acls)
      BY <1>0, DocTyped DEF IInv, TypeOK, RunType, Doc
    <2>3. ASSUME NEW i \in DOMAIN Doc(c).acls, i < run[c].n + 1
          PROVE  Doc(c).acls[i] \in Known(c)'
      <3>1. i \in Nat
        BY <2>2
      <3>2. CASE i = run[c].n
        BY <3>2, <1>9
      <3>3. CASE i < run[c].n
        BY <3>3, <1>2, <1>9 DEF IInv, Seen
      <3> QED BY <2>2, <2>3, <3>1, <3>2, <3>3
    <2> HIDE DEF x
    <2> QED BY <2>1, <2>3, <1>5, <1>7, <1>11 DEF Seen
  <1> QED BY <1>0, <1>1, <1>7, <1>8, <1>10, <1>12, OneStep

LEMMA CompareKept == ASSUME IInv, NEW c \in Creators, Compare(c) PROVE IInv'
  <1>0. c \in Admins /\ c \notin Deleters
    BY AdminsAssumption DEF Admins
  <1>1. TypeOK'
    BY CreatorTypes DEF IInv
  <1>2. UNCHANGED <<acls, since>> /\ pc[c] = "check"
    BY DEF Compare
  <1>3. Sent(c) \subseteq Known(c)
    <2>1. run[c].n \in Nat \ {0} /\ Doc(c).acls \in Seq(Acls)
          /\ run[c].n \notin DOMAIN Doc(c).acls
      BY <1>0, DocTyped DEF IInv, TypeOK, RunType, Doc, Compare
    <2>2. \A i \in DOMAIN Doc(c).acls : i < run[c].n
      BY <2>1
    <2> QED BY <2>2, <1>2 DEF IInv, Seen, Sent, Range
  <1>4. CASE run[c].shown = {} \/ DryRun(c)
    <2>1. NextDoc(c)
      BY <1>4 DEF Compare
    <2>2. ASSUME ~DryRun(c), NEW k \in DOMAIN Conf[c].docs, k < run[c].doc + 1
          PROVE  Range(Conf[c].docs[k].acls) \subseteq acls' \cup since'[c]
      <3>1. Known(c) = acls \cup since[c]
        BY <1>4, <2>2 DEF Known
      <3>2. CASE k = run[c].doc
        BY <3>1, <3>2, <1>2, <1>3 DEF Sent, Doc
      <3>3. CASE k < run[c].doc
        BY <3>1, <3>3, <2>2, <1>2 DEF IInv, Past
      <3>4. Conf[c].docs \in Seq(DocType) /\ run[c].doc \in Nat
        BY <1>0, DocTyped DEF IInv, TypeOK, RunType
      <3> QED BY <2>2, <3>2, <3>3, <3>4
    <2>3. /\ Past(c)' /\ Seen(c)' /\ pc'[c] # "list"
          /\ \A b \in Admins \ {c} : Untouched(b)
      BY <2>1, <2>2, NextDocKept DEF IInv
    <2>4. Aside(c)
      BY <1>2, <2>3 DEF Aside
    <2> QED BY <1>0, <1>1, <2>3, <2>4, OneStep
  <1>5. CASE ~(run[c].shown = {} \/ DryRun(c))
    <2>1. pc' = [pc EXCEPT ![c] = "ask"] /\ UNCHANGED run
      BY <1>5 DEF Compare, Go
    <2>2. pc'[c] = "ask" /\ Aside(c)
      BY <1>0, <1>2, <2>1 DEF IInv, TypeOK, Aside, Untouched, Admins
    <2>3. Known(c)' = Known(c) /\ Sent(c)' = Sent(c)
      BY <1>2, <2>1 DEF Known, Sent, Doc
    <2>4. Past(c)'
      BY <1>2, <2>1, <2>2, <2>3 DEF IInv, Past, DryRun
    <2>5. Seen(c)'
      BY <1>2, <1>3, <2>1, <2>2, <2>3 DEF IInv, Seen
    <2> QED BY <1>0, <1>1, <2>2, <2>4, <2>5, OneStep
  <1> QED BY <1>4, <1>5

\* entries that come leave what creators know, and are marked for deleters
LEMMA CreationAside ==
    ASSUME IInv, NEW c \in Creators, NEW made \in SUBSET Acls,
           acls' = acls \cup made,
           \A a \in Admins \ {c} : since'[a] = Marks(made, {})[a],
           \A b \in Admins \ {c} : Untouched(b)
    PROVE  Aside(c)
  <1>1. ASSUME NEW b \in Creators \ {c} PROVE since'[b] = since[b]
    BY <1>1 DEF Marks, Admins
  <1>2. ASSUME NEW d \in Deleters \ {c} PROVE since'[d] = since[d] \cup made
    BY <1>2, AdminsAssumption DEF Marks, Admins
  <1> QED BY <1>1, <1>2 DEF Aside

LEMMA CreateKept == ASSUME IInv, NEW c \in Creators, CreateACLs(c) PROVE IInv'
  <1>0. c \in Admins /\ c \notin Deleters
    BY AdminsAssumption DEF Admins
  <1>1. TypeOK'
    BY CreatorTypes DEF IInv
  <1>2. /\ pc[c] = "write" /\ acls' = acls \cup Sent(c) /\ NextDoc(c)
        /\ since' = [Marks(Sent(c), {}) EXCEPT ![c] = @ \ Sent(c)]
    BY DEF CreateACLs, Sent
  <1>3. Sent(c) \in SUBSET Acls /\ Marks(Sent(c), {}) \in [Admins -> SUBSET Acls]
    BY SentType, MarksType DEF IInv
  <1>4. since'[c] = since[c] \ Sent(c)
    BY <1>0, <1>2, <1>3 DEF Marks
  <1>5. \A a \in Admins \ {c} : since'[a] = Marks(Sent(c), {})[a]
    BY <1>2, <1>3
  <1>6. ASSUME ~DryRun(c), NEW k \in DOMAIN Conf[c].docs, k < run[c].doc + 1
        PROVE  Range(Conf[c].docs[k].acls) \subseteq acls' \cup since'[c]
    <2>1. Known(c) \subseteq acls' \cup since'[c]
      BY <1>2, <1>4 DEF IInv, Known, Seen
    <2>2. CASE k = run[c].doc
      BY <2>2, <1>2 DEF Sent, Doc
    <2>3. CASE k < run[c].doc
      BY <2>1, <2>3, <1>2, <1>6 DEF IInv, Past
    <2>4. Conf[c].docs \in Seq(DocType) /\ run[c].doc \in Nat
      BY <1>0, DocTyped DEF IInv, TypeOK, RunType
    <2> QED BY <1>6, <2>2, <2>3, <2>4
  <1>7. /\ Past(c)' /\ Seen(c)' /\ pc'[c] # "list"
        /\ \A b \in Admins \ {c} : Untouched(b)
    BY <1>2, <1>6, NextDocKept DEF IInv
  <1>8. Aside(c)
    BY <1>2, <1>3, <1>5, <1>7, CreationAside
  <1> QED BY <1>0, <1>1, <1>7, <1>8, OneStep

LEMMA CreateFailsKept == ASSUME IInv, NEW c \in Creators, CreateFails(c) PROVE IInv'
  <1>0. c \in Admins /\ c \notin Deleters
    BY AdminsAssumption DEF Admins
  <1>1. TypeOK'
    BY CreatorTypes DEF IInv
  <1>2. PICK made \in SUBSET Sent(c) : acls' = acls \cup made /\ since' = Marks(made, {})
    BY DEF CreateFails
  <1>3. pc'[c] = "failed" /\ \A b \in Admins \ {c} : Untouched(b)
    BY <1>0 DEF IInv, TypeOK, CreateFails, Go, Untouched
  <1>4. made \in SUBSET Acls
    BY <1>2, SentType DEF IInv
  <1>5. Aside(c)
    BY <1>2, <1>3, <1>4, CreationAside
  <1>6. Past(c)' /\ Seen(c)'
    BY <1>3 DEF Past, Seen
  <1> QED BY <1>0, <1>1, <1>3, <1>5, <1>6, OneStep

-----------------------------------------------------------------------------
(***************************************************************************)
(* The steps of a deleter, and those that both kinds of runs take.         *)
(***************************************************************************)
LEMMA ListKept == ASSUME IInv, NEW d \in Deleters, List(d) PROVE IInv'
  <1>0. d \in Admins /\ d \notin Creators
    BY AdminsAssumption DEF Admins
  <1>1. TypeOK'
    BY DeleterTypes DEF IInv
  <1>2. pc'[d] \in {"failed", "done", "ask"} /\ (pc'[d] = "done" => DryRun(d))
    BY <1>0 DEF IInv, TypeOK, List, Go
  <1> DEFINE new == [run[d] EXCEPT !.shown = Matching(d)]
  <1>3. run[d] \in RunType
    BY <1>0 DEF IInv, TypeOK
  <1>4. new.shown = Matching(d)
    BY <1>3 DEF RunType
  <1>5. run' = [run EXCEPT ![d] = new] /\ acls' = acls
        /\ since' = [since EXCEPT ![d] = {}]
    BY DEF List
  <1> HIDE DEF new
  <1>6. run'[d].shown = Matching(d)
    BY <1>0, <1>4, <1>5 DEF IInv, TypeOK
  <1>7. Aside(d)
    BY <1>0, <1>5 DEF IInv, TypeOK, List, Go, Aside, Untouched, Admins
  <1>8. Listed(d)'
    BY <1>2, <1>5, <1>6 DEF Listed, Matching, DryRun
  <1> QED BY <1>0, <1>1, <1>2, <1>7, <1>8, OneStep

LEMMA DeleteKept == ASSUME IInv, NEW d \in Deleters, DeleteACLs(d) PROVE IInv'
  <1>0. d \in Admins /\ d \notin Creators
    BY AdminsAssumption DEF Admins
  <1>1. TypeOK'
    BY DeleterTypes DEF IInv
  <1>2. PICK deleted \in SUBSET Matching(d) :
           /\ acls' = acls \ deleted /\ since' = Marks({}, deleted)
           /\ \/ Go(d, Outcome(deleted, Matching(d)))
              \/ Go(d, "failed")
    BY DEF DeleteACLs
  <1>3. pc'[d] \in {"done", "failed"} /\ (pc'[d] = "done" => deleted = Matching(d))
    BY <1>0, <1>2 DEF IInv, TypeOK, Go, Outcome
  <1>4. \A b \in Admins \ {d} : Untouched(b)
    BY <1>2 DEF IInv, TypeOK, DeleteACLs, Go, Untouched
  <1>5. \A c \in Creators : since'[c] = since[c] \cup deleted
    BY <1>2 DEF Marks, Admins
  <1>6. \A e \in Deleters : since'[e] = since[e]
    BY <1>2, AdminsAssumption DEF Marks, Admins
  <1>7. Aside(d)
    BY <1>2, <1>4, <1>5, <1>6 DEF Aside
  <1>8. Listed(d)'
    BY <1>2, <1>3 DEF Listed, Matching
  <1> QED BY <1>0, <1>1, <1>3, <1>7, <1>8, OneStep

LEMMA AskKept == ASSUME IInv, NEW a \in Admins, Ask(a) PROVE IInv'
  <1>1. TypeOK'
    BY AdminTypes DEF IInv
  <1>2. /\ pc[a] = "ask" /\ pc'[a] \in {"write", "failed"}
        /\ UNCHANGED <<acls, run, since>>
    BY DEF IInv, TypeOK, Ask, Go
  <1>3. Aside(a)
    BY <1>2 DEF IInv, TypeOK, Ask, Go, Aside, Untouched
  <1>4. ASSUME a \in Creators PROVE Past(a)' /\ Seen(a)'
    <2>1. Known(a)' = Known(a) /\ Sent(a)' = Sent(a)
      BY <1>2 DEF Known, Sent, Doc
    <2> QED BY <1>2, <1>4, <2>1 DEF IInv, Past, Seen, DryRun
  <1>5. ASSUME a \in Deleters PROVE Listed(a)'
    BY <1>2, <1>5 DEF IInv, Listed, Matching
  <1> QED BY <1>1, <1>2, <1>3, <1>4, <1>5, OneStep

LEMMA ReadFailsKept == ASSUME IInv, NEW a \in Admins, ReadFails(a) PROVE IInv'
  <1>1. TypeOK'
    BY AdminTypes DEF IInv
  <1>2. pc'[a] = "failed"
    BY DEF IInv, TypeOK, ReadFails, Go
  <1>3. Aside(a)
    BY DEF IInv, TypeOK, ReadFails, Go, Aside, Untouched, Admins
  <1>4. Past(a)' /\ Seen(a)' /\ Listed(a)'
    BY <1>2 DEF Past, Seen, Listed
  <1> QED BY <1>1, <1>2, <1>3, <1>4, OneStep

LEMMA AgainKept == ASSUME IInv, NEW a \in Admins, Again(a) PROVE IInv'
  <1>1. TypeOK'
    BY AdminTypes DEF IInv
  <1>2. pc'[a] = First(a) /\ run'[a] = NewRun /\ since'[a] = {} /\ acls' = acls
    BY DEF IInv, TypeOK, Again, Go
  <1>3. Aside(a)
    BY DEF IInv, TypeOK, Again, Go, Aside, Untouched, Admins
  <1>4. ASSUME a \in Creators PROVE Past(a)' /\ Seen(a)' /\ pc'[a] # "list"
    <2>1. pc'[a] = "validate"
      BY <1>2, <1>4 DEF First
    <2>2. \A k \in DOMAIN Conf[a].docs : ~(k < run'[a].doc)
      BY <1>2, <1>4, DocTyped DEF NewRun
    <2> QED BY <1>2, <2>1, <2>2 DEF Past, Seen, NewRun
  <1>5. ASSUME a \in Deleters PROVE Listed(a)' /\ pc'[a] \notin {"validate", "check"}
    <2>1. pc'[a] = "list"
      BY <1>2, <1>5, AdminsAssumption DEF First
    <2> QED BY <2>1 DEF Listed
  <1> QED BY <1>1, <1>3, <1>4, <1>5, OneStep

LEMMA StepIInv == IInv /\ [Next]_vars => IInv'
  <1> SUFFICES ASSUME IInv, [Next]_vars PROVE IInv'
    OBVIOUS
  <1>1. CASE UNCHANGED vars
    BY <1>1 DEF vars, IInv, TypeOK, Kinds, Past, Seen, Listed, Known, Sent, Doc,
                Matching, DryRun
  <1>2. ASSUME NEW c \in Creators,
               \/ Validate(c) \/ Check(c) \/ Compare(c)
               \/ CreateACLs(c) \/ CreateFails(c)
        PROVE  IInv'
    BY <1>2, ValidateKept, CheckKept, CompareKept, CreateKept, CreateFailsKept
  <1>3. ASSUME NEW d \in Deleters, List(d) \/ DeleteACLs(d) PROVE IInv'
    BY <1>3, ListKept, DeleteKept
  <1>4. ASSUME NEW a \in Admins, Ask(a) \/ ReadFails(a) \/ Again(a) PROVE IInv'
    BY <1>4, AskKept, ReadFailsKept, AgainKept
  <1> QED BY <1>1, <1>2, <1>3, <1>4 DEF Next

\* The invariant IInv above holds in every reachable state.
THEOREM AclInvariant == Spec => []IInv
  BY InitIInv, StepIInv, PTL DEF Spec

\* Every variable keeps its type, for any runs, configs and filters.
THEOREM AclTypeSafety == Spec => []TypeOK
  <1>1. IInv => TypeOK
    BY DEF IInv
  <1> QED BY <1>1, AclInvariant, PTL

\* A command that reports success has done what it was asked, but for what
\* others undid after it looked, whichever entries the brokers refused.
THEOREM AclSuccess == Spec => []SuccessMeansDone
  <1>1. IInv => SuccessMeansDone
    <2> SUFFICES ASSUME IInv PROVE SuccessMeansDone
      OBVIOUS
    <2>1. ASSUME NEW c \in Creators, pc[c] = "done", ~DryRun(c)
          PROVE  Wanted(c) \subseteq acls \cup since[c]
      BY <2>1 DEF IInv, Past, Wanted
    <2>2. ASSUME NEW d \in Deleters, pc[d] = "done", ~DryRun(d)
          PROVE  Matching(d) \subseteq since[d]
      BY <2>2 DEF IInv, Listed
    <2> QED BY <2>1, <2>2 DEF SuccessMeansDone
  <1> QED BY <1>1, AclInvariant, PTL

\* An entry that comes or goes without having been shown to the user of the
\* run that changes it was changed by somebody else after that run looked.
THEOREM AclShown == Spec => OnlyShownChanges
  <1> DEFINE Shown ==
        /\ \A x \in acls' \ acls :
              \E c \in Creators : pc[c] = "write" /\ x \in run[c].shown \cup since[c]
        /\ \A x \in acls \ acls' :
              \E d \in Deleters : pc[d] = "write" /\ x \in run[d].shown \cup since[d]
  <1>1. IInv /\ [Next]_vars => [Shown]_vars
    <2> SUFFICES ASSUME IInv, Next PROVE Shown
      OBVIOUS
    <2>1. ASSUME NEW c \in Creators, CreateACLs(c) \/ CreateFails(c) PROVE Shown
      <3>1. /\ pc[c] = "write" /\ acls \subseteq acls' /\ acls' \subseteq acls \cup Sent(c)
        BY <2>1 DEF CreateACLs, CreateFails
      <3>2. Sent(c) \subseteq Known(c)
        BY <3>1 DEF IInv, Seen
      <3> QED BY <3>1, <3>2 DEF Known
    <2>2. ASSUME NEW d \in Deleters, DeleteACLs(d) PROVE Shown
      <3>1. /\ pc[d] = "write" /\ acls' \subseteq acls
            /\ acls \ acls' \subseteq Matching(d)
        BY <2>2 DEF DeleteACLs
      <3> QED BY <3>1 DEF IInv, Listed
    <2>3. ASSUME NEW c \in Creators, Validate(c) \/ Check(c) \/ Compare(c) PROVE Shown
      BY <2>3 DEF Validate, Check, Compare
    <2>4. ASSUME NEW d \in Deleters, List(d) PROVE Shown
      BY <2>4 DEF List
    <2>5. ASSUME NEW a \in Admins, Ask(a) \/ ReadFails(a) \/ Again(a) PROVE Shown
      BY <2>5 DEF Ask, ReadFails, Again
    <2> QED BY <2>1, <2>2, <2>3, <2>4, <2>5 DEF Next
  <1> QED BY <1>1, AclInvariant, PTL DEF Spec, OnlyShownChanges
=============================================================================
