-------------------------- MODULE TopicScan_proofs --------------------------
(***************************************************************************)
(* Proofs about TopicScan: types, what a returned list may lack, and which *)
(* goroutines meet the closed request channel.                             *)
(***************************************************************************)
EXTENDS TopicScan, FiniteSetTheorems, TLAPS

Early == {"none", "queued", "topic", "config"}
Rests == {"none"} \cup Over           \* of a goroutine that will not go on

\* a goroutine of a topic starts those of its partitions when it has read its
\* config, and receives from them until it ends
Family(k) ==
    /\ pc[k] # "state"
    /\ pc[k] \in Early \cup {"err"} => \A j \in Of(k[1], k[2]) : pc[j] = "none"
    /\ parts[k] \subseteq Parts[k[2]]
    /\ \A p \in parts[k] : pc[<<k[1], k[2], p>>] \in Over
    /\ pc[k] \in {"ok", "short"} /\ ~abandoned
          => \A j \in Of(k[1], k[2]) : pc[j] \in Rests

\* what the types below do not say of how goroutines and calls go together
Calling ==
    /\ closed <=> caller \in {"closed", "panicked"}
    /\ caller = "scan" => scan > 0
    /\ \A k \in Tasks : k[1] > scan => pc[k] = "none"
    /\ caller = "scan" => \A t \in got : pc[TopicTask(scan, t)] \in {"ok", "short"}

\* nothing goes on outside a call unless a call was given up
Settled ==
    ~abandoned => \A k \in Tasks :
                     caller # "scan" \/ k[1] # scan => pc[k] \in Rests

\* what is missing was not read
Blamed ==
    /\ \A k \in Tasks : served[k] = "err" => errors > 0 \/ closed
    /\ \A k \in Tasks : pc[k] \in {"err", "short"} => errors > 0 \/ ctxDone \/ closed

IInv ==
    /\ TypeOK /\ IsFiniteSet(Busy)
    /\ Calling /\ Settled /\ Blamed
    /\ \A k \in TopicTasks : Family(k)
    /\ ListComplete /\ PanicsOnlyAbandoned

-----------------------------------------------------------------------------
\* Goroutines are those of a topic and those of its partitions, by number of
\* the call.
LEMMA TaskForm ==
    ASSUME NEW k \in Tasks
    PROVE  /\ k[1] \in 1..MaxScans /\ k[2] \in Topics
           /\ k[3] \in Parts[k[2]] \cup {0} /\ k = <<k[1], k[2], k[3]>>
<1>1. PICK s \in 1..MaxScans : k \in ScanTasks(s)
  BY DEF Tasks
<1>2. PICK t \in Topics : k \in {TopicTask(s, t)} \cup Of(s, t)
  BY <1>1 DEF ScanTasks
<1>3. CASE k = TopicTask(s, t)
  BY <1>3 DEF TopicTask
<1>4. CASE k \in Of(s, t)
  BY <1>4 DEF Of
<1> QED BY <1>2, <1>3, <1>4

LEMMA TaskIntro ==
    ASSUME NEW s \in 1..MaxScans, NEW t \in Topics
    PROVE  /\ TopicTask(s, t) \in TopicTasks
           /\ TopicTask(s, t) = <<s, t, 0>>
           /\ Of(s, t) \subseteq Tasks \ TopicTasks
           /\ \A p \in Parts[t] : <<s, t, p>> \in Of(s, t)
           /\ \A j \in Of(s, t) : j[1] = s /\ j[2] = t /\ j[3] \in Parts[t]
                                  /\ j = <<s, t, j[3]>>
<1>1. {TopicTask(s, t)} \cup Of(s, t) \subseteq Tasks
  BY DEF Tasks, ScanTasks
<1>2. \A p \in Parts[t] : p # 0
  BY PartsAssumption
<1> QED BY <1>1, <1>2 DEF TopicTask, Of, TopicTasks

LEMMA TopicForm ==
    ASSUME NEW k \in TopicTasks
    PROVE  /\ k \in Tasks /\ k[1] \in 1..MaxScans /\ k[2] \in Topics
           /\ k = TopicTask(k[1], k[2])
<1> QED BY TaskForm DEF TopicTasks, TopicTask

LEMMA PartForm ==
    ASSUME NEW j \in Tasks \ TopicTasks
    PROVE  /\ j \in Of(j[1], j[2]) /\ TopicTask(j[1], j[2]) \in TopicTasks
           /\ j[1] \in 1..MaxScans /\ j[2] \in Topics /\ j[3] \in Parts[j[2]]
<1>1. j[1] \in 1..MaxScans /\ j[2] \in Topics /\ j[3] \in Parts[j[2]] \cup {0}
      /\ j = <<j[1], j[2], j[3]>>
  BY TaskForm
<1>2. j[3] # 0
  BY DEF TopicTasks
<1> QED BY <1>1, <1>2, TaskIntro DEF Of

-----------------------------------------------------------------------------
LEMMA InitIInv == Init => IInv
<1> SUFFICES ASSUME Init PROVE IInv
  OBVIOUS
<1>1. Busy = {}
  BY DEF Init, Busy, Served
<1>2. TypeOK /\ IsFiniteSet(Busy)
  <2>1. IsFiniteSet(Busy) /\ Cardinality(Busy) <= Workers
    BY <1>1, FS_EmptySet, SizesAssumption
  <2>2. pc \in [Tasks -> Pcs] /\ \A k \in Tasks \ TopicTasks : pc[k] = "none"
    BY DEF Init, Pcs
  <2>3. parts \in [TopicTasks -> SUBSET (Nat \ {0})]
    BY DEF Init
  <2>4. served \in [Tasks -> {"no", "reading", "ok", "err"}]
    BY DEF Init
  <2>5. /\ scan \in 0..MaxScans /\ errors \in 0..MaxErrors
        /\ caller \in {"idle", "scan", "closed", "panicked"}
        /\ got \subseteq Topics /\ list \subseteq Topics \X {"ok", "short"}
        /\ ctxDone \in BOOLEAN /\ closed \in BOOLEAN /\ abandoned \in BOOLEAN
    <3>1. 0 \in 0..MaxScans /\ 0 \in 0..MaxErrors
      BY SizesAssumption
    <3>2. scan = 0 /\ errors = 0 /\ got = {} /\ list = {}
      BY DEF Init
    <3>3. caller = "idle" /\ ctxDone = FALSE /\ closed = FALSE /\ abandoned = FALSE
      BY DEF Init
    <3>4. {} \subseteq Topics /\ {} \subseteq Topics \X {"ok", "short"}
      OBVIOUS
    <3>5. got \subseteq Topics /\ list \subseteq Topics \X {"ok", "short"}
      BY <3>2, <3>4, Zenon
    <3>6. scan \in 0..MaxScans /\ errors \in 0..MaxErrors
      BY <3>1, <3>2
    <3> QED BY <3>3, <3>5, <3>6
  <2> QED BY <2>1, <2>2, <2>3, <2>4, <2>5 DEF TypeOK
<1>3. Calling
  BY DEF Init, Calling
<1>4. \A k \in TopicTasks : Family(k)
  <2> SUFFICES ASSUME NEW k \in TopicTasks PROVE Family(k)
    OBVIOUS
  <2>1. k \in Tasks /\ Of(k[1], k[2]) \subseteq Tasks
    BY TopicForm, TaskIntro
  <2> QED BY <2>1 DEF Init, Family, Rests
<1>5. Settled /\ Blamed /\ ListComplete /\ PanicsOnlyAbandoned
  BY DEF Init, Settled, Blamed, Rests, ListComplete, PanicsOnlyAbandoned
<1> QED BY <1>2, <1>3, <1>4, <1>5 DEF IInv

-----------------------------------------------------------------------------
(***************************************************************************)
(* A step of a goroutine or of a worker changes pc only where the relation *)
(* below allows it; from that follow the facts about families, whichever   *)
(* step it is.                                                             *)
(***************************************************************************)
\* steps that leave pc, the parts and the history alone
Still == UNCHANGED <<pc, parts, abandoned>>

LEMMA StillFamily ==
    ASSUME \A k \in TopicTasks : Family(k), Still
    PROVE  \A k \in TopicTasks : Family(k)'
<1> QED BY DEF Still, Family

\* one goroutine goes on from a place where it is not at rest
Went(k, next) == pc' = [pc EXCEPT ![k] = next]

LEMMA PartWent ==
    ASSUME TypeOK, \A k \in TopicTasks : Family(k),
           NEW j \in Tasks \ TopicTasks, pc[j] \in {"queued", "state"},
           NEW next \in {"state", "ok", "err"}, Went(j, next),
           UNCHANGED <<parts, abandoned>>
    PROVE  \A k \in TopicTasks : Family(k)'
<1> SUFFICES ASSUME NEW k \in TopicTasks PROVE Family(k)'
  OBVIOUS
<1>1. pc \in [Tasks -> Pcs] /\ Family(k) /\ k \in Tasks /\ k # j
  BY TopicForm DEF TypeOK
<1>2. Of(k[1], k[2]) \subseteq Tasks
      /\ \A p \in Parts[k[2]] : <<k[1], k[2], p>> \in Of(k[1], k[2])
  BY TopicForm, TaskIntro
<1>3. pc'[k] = pc[k] /\ pc'[j] = next
      /\ \A i \in Tasks \ {j} : pc'[i] = pc[i]
  BY <1>1 DEF Went
<1>4. pc[j] \notin Rests
  BY DEF Rests, Over
<1>5. ~ (pc[k] \in Early \cup {"err"} /\ j \in Of(k[1], k[2]))
  BY <1>1 DEF Family
<1>6. ~ (pc[k] \in {"ok", "short"} /\ ~abandoned /\ j \in Of(k[1], k[2]))
  BY <1>1, <1>4 DEF Family
<1>7. \A p \in parts[k] : <<k[1], k[2], p>> # j
  BY <1>1, <1>4 DEF Family, Rests
<1>8. \A p \in parts[k] : pc'[<<k[1], k[2], p>>] \in Over
  BY <1>1, <1>2, <1>3, <1>7 DEF Family
<1>9. pc'[k] \in Early \cup {"err"} => \A i \in Of(k[1], k[2]) : pc'[i] = "none"
  BY <1>1, <1>2, <1>3, <1>5 DEF Family
<1>10. pc'[k] \in {"ok", "short"} /\ ~abandoned
          => \A i \in Of(k[1], k[2]) : pc'[i] \in Rests
  BY <1>1, <1>2, <1>3, <1>6 DEF Family
<1> QED BY <1>1, <1>3, <1>8, <1>9, <1>10 DEF Family

\* a topic's goroutine before it starts others
LEMMA TopicWent ==
    ASSUME TypeOK, \A k \in TopicTasks : Family(k),
           NEW h \in TopicTasks, pc[h] \in {"queued", "topic", "config"},
           NEW next \in {"topic", "config", "ok", "err"}, Went(h, next),
           next = "ok" => Parts[h[2]] = {},
           UNCHANGED <<parts, abandoned>>
    PROVE  \A k \in TopicTasks : Family(k)'
<1> SUFFICES ASSUME NEW k \in TopicTasks PROVE Family(k)'
  OBVIOUS
<1>1. pc \in [Tasks -> Pcs] /\ Family(k) /\ k \in Tasks /\ h \in Tasks
  BY TopicForm DEF TypeOK
<1>2. Of(k[1], k[2]) \subseteq Tasks \ TopicTasks
      /\ \A p \in Parts[k[2]] : <<k[1], k[2], p>> \in Of(k[1], k[2])
  BY TopicForm, TaskIntro
<1>3. pc'[h] = next /\ \A i \in Tasks \ {h} : pc'[i] = pc[i]
  BY <1>1 DEF Went
<1>4. \A i \in Of(k[1], k[2]) : pc'[i] = pc[i]
  BY <1>2, <1>3
<1>5. \A p \in parts[k] : pc'[<<k[1], k[2], p>>] \in Over
  BY <1>1, <1>2, <1>4 DEF Family
<1>6. CASE k # h
  BY <1>1, <1>3, <1>4, <1>5, <1>6 DEF Family
<1>7. CASE k = h
  <2>1. \A i \in Of(k[1], k[2]) : pc'[i] = "none"
    BY <1>1, <1>4, <1>7 DEF Family, Early
  <2> QED BY <1>1, <1>3, <1>5, <1>7, <2>1 DEF Family, Rests
<1> QED BY <1>6, <1>7

\* a topic's goroutine that starts those of its partitions
LEMMA TopicStarts ==
    ASSUME TypeOK, \A k \in TopicTasks : Family(k),
           NEW h \in TopicTasks, pc[h] = "config", Parts[h[2]] # {},
           pc' = [j \in Tasks |-> IF j = h THEN "parts"
                                  ELSE IF j \in Of(h[1], h[2]) THEN "queued" ELSE pc[j]],
           UNCHANGED <<parts, abandoned>>
    PROVE  \A k \in TopicTasks : Family(k)'
<1> SUFFICES ASSUME NEW k \in TopicTasks PROVE Family(k)'
  OBVIOUS
<1>1. Family(k) /\ k \in Tasks /\ h \in Tasks /\ Family(h)
  BY TopicForm
<1>2. Of(k[1], k[2]) \subseteq Tasks \ TopicTasks
      /\ \A p \in Parts[k[2]] : <<k[1], k[2], p>> \in Of(k[1], k[2])
  BY TopicForm, TaskIntro
<1>3. CASE k # h
  <2>1. k[1] # h[1] \/ k[2] # h[2]
    BY <1>3, TopicForm
  <2>2. \A i \in Of(k[1], k[2]) : i[1] = k[1] /\ i[2] = k[2]
    BY TopicForm, TaskIntro
  <2>3. \A i \in Of(h[1], h[2]) : i[1] = h[1] /\ i[2] = h[2] /\ i \notin TopicTasks
    BY TopicForm, TaskIntro
  <2>4. \A i \in Of(k[1], k[2]) : i \notin Of(h[1], h[2]) /\ i # h
    BY <1>2, <2>1, <2>2, <2>3
  <2>5. pc'[k] = pc[k] /\ \A i \in Of(k[1], k[2]) : pc'[i] = pc[i]
    BY <1>1, <1>2, <1>3, <2>3, <2>4
  <2> QED BY <1>1, <1>2, <2>5 DEF Family
<1>4. CASE k = h
  <2>1. pc'[k] = "parts"
    BY <1>1, <1>4
  <2>2. \A i \in Of(k[1], k[2]) : pc[i] = "none"
    BY <1>1, <1>4 DEF Family, Early
  <2>3. parts[k] = {}
    BY <1>1, <1>2, <2>2 DEF Family, Over
  <2> QED BY <1>1, <2>1, <2>3 DEF Family, Early
<1> QED BY <1>3, <1>4

-----------------------------------------------------------------------------
(***************************************************************************)
(* What a step of a goroutine does to the rest of the invariant.  It comes *)
(* from one that is not at rest, hence one of the present call unless a    *)
(* call was given up.                                                      *)
(***************************************************************************)
CallerStill == UNCHANGED <<scan, caller, got, list, ctxDone, closed>>

LEMMA GoroutineMoves ==
    ASSUME TypeOK, Calling, Settled, CallerStill,
           \A k \in Tasks : pc[k] \in {"err", "short"} => errors > 0 \/ ctxDone \/ closed,
           ListComplete, PanicsOnlyAbandoned,
           pc' \in [Tasks -> Pcs], errors' = errors, abandoned => abandoned',
           NEW h \in Tasks, pc[h] \notin Rests,
           \A i \in Tasks : \/ pc'[i] = pc[i]
                            \/ i = h
                            \/ i \notin TopicTasks /\ i[1] = h[1],
           \A i \in Tasks : pc'[i] \in {"err", "short"} /\ pc[i] # pc'[i]
                              => errors > 0 \/ ctxDone \/ closed
    PROVE  /\ Calling' /\ Settled' /\ ListComplete' /\ PanicsOnlyAbandoned'
           /\ \A k \in Tasks : pc'[k] \in {"err", "short"}
                               => errors' > 0 \/ ctxDone' \/ closed'
<1>1. h[1] \in 1..MaxScans /\ h[1] <= scan /\ scan \in Int
  <2>1. h[1] \in 1..MaxScans /\ scan \in Int
    BY TaskForm DEF TypeOK
  <2>2. ~(h[1] > scan)
    BY DEF Calling, Rests
  <2> QED BY <2>1, <2>2
<1>2. Calling'
  <2>1. ASSUME NEW k \in Tasks, k[1] > scan PROVE pc'[k] = "none"
    BY <1>1, <2>1 DEF Calling
  <2>2. ASSUME caller = "scan", NEW t \in got
        PROVE  pc'[TopicTask(scan, t)] \in {"ok", "short"}
    <3>1. scan \in 1..MaxScans /\ t \in Topics
      BY <2>2, <1>1 DEF Calling, TypeOK
    <3>2. TopicTask(scan, t) \in TopicTasks /\ TopicTask(scan, t) \in Tasks
      BY <3>1, TaskIntro, TopicForm
    <3>3. pc[TopicTask(scan, t)] \in {"ok", "short"}
      BY <2>2 DEF Calling
    <3> QED BY <3>2, <3>3 DEF Rests, Over
  <2>3. UNCHANGED <<scan, caller, got, closed>>
    BY DEF CallerStill
  <2>4. (closed <=> caller \in {"closed", "panicked"}) /\ (caller = "scan" => scan > 0)
    BY DEF Calling
  <2>5. \A t \in got' : TopicTask(scan, t)' = TopicTask(scan, t)
    BY <2>3 DEF TopicTask
  <2> QED BY <2>1, <2>2, <2>3, <2>4, <2>5 DEF Calling
<1>3. Settled'
  <2> SUFFICES ASSUME ~abandoned', NEW k \in Tasks, caller # "scan" \/ k[1] # scan
               PROVE  pc'[k] \in Rests
    BY DEF Settled, CallerStill
  <2>1. pc[k] \in Rests /\ caller = "scan" /\ h[1] = scan
    BY DEF Settled
  <2>2. k # h /\ k[1] # h[1]
    BY <2>1
  <2> QED BY <2>1, <2>2
<1>4. ListComplete' /\ PanicsOnlyAbandoned'
  BY DEF CallerStill, ListComplete, PanicsOnlyAbandoned
<1> QED BY <1>2, <1>3, <1>4 DEF CallerStill

\* goroutines that take a turn
LEMMA TakeIInv ==
    ASSUME IInv, NEW k \in Tasks, TakeTopic(k) \/ TakePartition(k)
    PROVE  IInv'
<1> DEFINE next == IF k \in TopicTasks THEN "topic" ELSE "state"
<1>1. /\ pc[k] = "queued" /\ pc' = [pc EXCEPT ![k] = next]
      /\ UNCHANGED <<scan, caller, got, list, ctxDone, closed, served, parts, errors,
                     abandoned>>
  BY DEF TakeTopic, TakePartition, Others
<1>2. next \in {"topic", "state"} /\ (k \notin TopicTasks => next = "state")
      /\ (k \in TopicTasks => next = "topic")
  OBVIOUS
<1> HIDE DEF next
<1>3. TypeOK' /\ IsFiniteSet(Busy)'
  <2>1. Busy' = Busy
    BY <1>1 DEF Busy, Served
  <2> QED BY <1>1, <1>2, <2>1 DEF IInv, TypeOK, Pcs, Calls
<1>4. \A j \in TopicTasks : Family(j)'
  BY <1>1, <1>2, TopicWent, PartWent DEF IInv, Went
<1>5. /\ Calling' /\ Settled' /\ ListComplete' /\ PanicsOnlyAbandoned'
      /\ \A j \in Tasks : pc'[j] \in {"err", "short"}
                          => errors' > 0 \/ ctxDone' \/ closed'
  <2>1. pc[k] \notin Rests
    BY <1>1 DEF Rests, Over
  <2>2. pc' \in [Tasks -> Pcs] /\ \A i \in Tasks : pc'[i] = pc[i] \/ i = k
    BY <1>1, <1>3 DEF IInv, TypeOK
  <2>3. \A i \in Tasks : pc'[i] \in {"err", "short"} => pc'[i] = pc[i]
    BY <1>1, <1>2 DEF IInv, TypeOK
  <2> QED BY <1>1, <2>1, <2>2, <2>3, GoroutineMoves DEF IInv, Blamed, CallerStill
<1>6. \A j \in Tasks : served'[j] = "err" => errors' > 0 \/ closed'
  BY <1>1 DEF IInv, Blamed
<1> QED BY <1>3, <1>4, <1>5, <1>6 DEF IInv, Blamed

\* a goroutine in a call is a topic's in "topic" or "config", or a
\* partition's in "state"
LEMMA CallingFacts ==
    ASSUME IInv, NEW k \in Tasks, pc[k] \in Calls
    PROVE  /\ k \in TopicTasks => pc[k] \in {"topic", "config"}
           /\ k \notin TopicTasks => pc[k] = "state"
           /\ pc[k] \notin Rests
<1>1. k \in TopicTasks => pc[k] # "state"
  BY DEF IInv, Family
<1>2. k \notin TopicTasks => pc[k] \in {"none", "queued", "state", "ok", "err"}
  BY DEF IInv, TypeOK
<1> QED BY <1>1, <1>2 DEF Calls, Rests, Over

\* cancelled calls
LEMMA GiveUpIInv ==
    ASSUME IInv, NEW k \in Tasks, GiveUp(k)
    PROVE  IInv'
<1>1. /\ ctxDone /\ pc[k] \in Calls /\ pc' = [pc EXCEPT ![k] = "err"]
      /\ UNCHANGED <<scan, caller, got, list, ctxDone, closed, served, parts, errors,
                     abandoned>>
  BY DEF GiveUp, Others
<1>2. TypeOK' /\ IsFiniteSet(Busy)'
  <2>1. Busy' = Busy
    BY <1>1 DEF Busy, Served
  <2> QED BY <1>1, <2>1 DEF IInv, TypeOK, Pcs, Over
<1>3. \A j \in TopicTasks : Family(j)'
  BY <1>1, CallingFacts, TopicWent, PartWent DEF IInv, Went
<1>4. /\ Calling' /\ Settled' /\ ListComplete' /\ PanicsOnlyAbandoned'
      /\ \A j \in Tasks : pc'[j] \in {"err", "short"}
                          => errors' > 0 \/ ctxDone' \/ closed'
  <2>1. pc' \in [Tasks -> Pcs] /\ \A i \in Tasks : pc'[i] = pc[i] \/ i = k
    BY <1>1, <1>2 DEF IInv, TypeOK
  <2> QED BY <1>1, <2>1, CallingFacts, GoroutineMoves DEF IInv, Blamed, CallerStill
<1>5. \A j \in Tasks : served'[j] = "err" => errors' > 0 \/ closed'
  BY <1>1 DEF IInv, Blamed
<1> QED BY <1>2, <1>3, <1>4, <1>5 DEF IInv, Blamed

\* a topic that receives from its partitions
LEMMA ReceivePartitionIInv ==
    ASSUME IInv, NEW k \in TopicTasks, NEW p \in Parts[k[2]], ReceivePartition(k, p)
    PROVE  IInv'
<1> DEFINE j == <<k[1], k[2], p>>
           all == parts[k] \cup {p}
<1>1. k \in Tasks /\ k[2] \in Topics /\ j \in Of(k[1], k[2]) /\ j \in Tasks
      /\ Of(k[1], k[2]) \subseteq Tasks \ TopicTasks
  BY TopicForm, TaskIntro
<1>2. /\ pc[k] = "parts" /\ pc[j] \in Over
      /\ UNCHANGED <<scan, caller, got, list, ctxDone, closed, served, errors>>
  BY DEF ReceivePartition
<1>3. CASE /\ pc[j] = "err" /\ pc' = [pc EXCEPT ![k] = "short"] /\ parts' = parts
           /\ abandoned' = (abandoned \/ LeavesTasks(Of(k[1], k[2])))
  <2>1. TypeOK' /\ IsFiniteSet(Busy)'
    <3>1. Busy' = Busy
      BY <1>2 DEF Busy, Served
    <3>2. abandoned' \in BOOLEAN
      BY <1>3 DEF IInv, TypeOK, LeavesTasks
    <3> QED BY <1>2, <1>3, <3>1, <3>2 DEF IInv, TypeOK, Pcs, Over
  <2>2. ASSUME NEW h \in TopicTasks PROVE Family(h)'
    <3>1. Of(h[1], h[2]) \subseteq Tasks \ TopicTasks /\ h \in Tasks
          /\ \A q \in Parts[h[2]] : <<h[1], h[2], q>> \in Of(h[1], h[2])
      BY TopicForm, TaskIntro
    <3>2. \A i \in Of(h[1], h[2]) : pc'[i] = pc[i]
      BY <1>3, <3>1 DEF IInv, TypeOK
    <3>3. abandoned => abandoned'
      BY <1>3
    <3>4. CASE h # k
      BY <1>3, <3>1, <3>2, <3>3, <3>4 DEF IInv, TypeOK, Family
    <3>5. CASE h = k
      <4>1. ~abandoned' => \A i \in Of(k[1], k[2]) : pc[i] \in Rests
        BY <1>1, <1>3 DEF LeavesTasks, IInv, TypeOK, Pcs, Rests
      <4>2. pc'[k] = "short"
        BY <1>1, <1>3 DEF IInv, TypeOK
      <4> QED BY <1>3, <3>1, <3>2, <3>5, <4>1, <4>2 DEF IInv, Family, Early
    <3> QED BY <3>4, <3>5
  <2>3. /\ Calling' /\ Settled' /\ ListComplete' /\ PanicsOnlyAbandoned'
        /\ \A i \in Tasks : pc'[i] \in {"err", "short"}
                            => errors' > 0 \/ ctxDone' \/ closed'
    <3>1. pc' \in [Tasks -> Pcs] /\ \A i \in Tasks : pc'[i] = pc[i] \/ i = k
      BY <1>3, <2>1 DEF IInv, TypeOK
    <3>2. pc[k] \notin Rests /\ (abandoned => abandoned')
      BY <1>2, <1>3 DEF Rests, Over
    <3>3. errors > 0 \/ ctxDone \/ closed
      BY <1>1, <1>3 DEF IInv, Blamed
    <3> QED BY <1>1, <1>2, <3>1, <3>2, <3>3, GoroutineMoves DEF IInv, Blamed, CallerStill
  <2>4. \A i \in Tasks : served'[i] = "err" => errors' > 0 \/ closed'
    BY <1>2 DEF IInv, Blamed
  <2> QED BY <2>1, <2>2, <2>3, <2>4 DEF IInv, Blamed
<1>4. CASE /\ parts' = [parts EXCEPT ![k] = all]
           /\ pc' = IF all = Parts[k[2]] THEN [pc EXCEPT ![k] = "ok"] ELSE pc
           /\ abandoned' = abandoned
  <2>1. TypeOK' /\ IsFiniteSet(Busy)'
    <3>1. Busy' = Busy
      BY <1>2 DEF Busy, Served
    <3>2. all \in SUBSET (Nat \ {0})
      BY <1>1, PartsAssumption DEF IInv, TypeOK
    <3> QED BY <1>2, <1>4, <3>1, <3>2 DEF IInv, TypeOK, Pcs, Over
  <2>2. ASSUME NEW h \in TopicTasks PROVE Family(h)'
    <3>1. Of(h[1], h[2]) \subseteq Tasks \ TopicTasks /\ h \in Tasks
          /\ \A q \in Parts[h[2]] : <<h[1], h[2], q>> \in Of(h[1], h[2])
      BY TopicForm, TaskIntro
    <3>2. \A i \in Of(h[1], h[2]) : pc'[i] = pc[i]
      BY <1>4, <3>1 DEF IInv, TypeOK
    <3>3. CASE h # k
      BY <1>4, <3>1, <3>2, <3>3 DEF IInv, TypeOK, Family
    <3>4. CASE h = k
      <4>1. parts'[k] = all /\ parts[k] \subseteq Parts[k[2]]
        BY <1>4 DEF IInv, TypeOK, Family
      <4>2. \A q \in all : pc[<<k[1], k[2], q>>] \in Over
        BY <1>2 DEF IInv, Family
      <4>3. \A q \in all : pc'[<<k[1], k[2], q>>] \in Over
        BY <3>1, <3>2, <3>4, <4>1, <4>2
      <4>4. (pc'[k] = "ok" /\ all = Parts[k[2]]) \/ pc'[k] = "parts"
        BY <1>1, <1>2, <1>4 DEF IInv, TypeOK
      <4>5. all = Parts[k[2]] => \A i \in Of(k[1], k[2]) : pc'[i] \in Rests
        BY <1>1, <4>3, TopicForm, TaskIntro DEF Rests
      <4>6. all \subseteq Parts[k[2]]
        BY <4>1
      <4> HIDE DEF all
      <4> QED BY <3>4, <4>1, <4>3, <4>4, <4>5, <4>6 DEF Family, Early
    <3> QED BY <3>3, <3>4
  <2>3. /\ Calling' /\ Settled' /\ ListComplete' /\ PanicsOnlyAbandoned'
        /\ \A i \in Tasks : pc'[i] \in {"err", "short"}
                            => errors' > 0 \/ ctxDone' \/ closed'
    <3>1. pc' \in [Tasks -> Pcs] /\ \A i \in Tasks : pc'[i] = pc[i] \/ i = k
      BY <1>4, <2>1 DEF IInv, TypeOK
    <3>2. pc[k] \notin Rests
      BY <1>2 DEF Rests, Over
    <3>3. pc'[k] \notin {"err", "short"}
      BY <1>1, <1>2, <1>4 DEF IInv, TypeOK
    <3> QED BY <1>1, <1>2, <1>4, <3>1, <3>2, <3>3, GoroutineMoves DEF IInv, Blamed, CallerStill
  <2>4. \A i \in Tasks : served'[i] = "err" => errors' > 0 \/ closed'
    BY <1>2 DEF IInv, Blamed
  <2> QED BY <2>1, <2>2, <2>3, <2>4 DEF IInv, Blamed
<1> QED BY <1>3, <1>4 DEF ReceivePartition

-----------------------------------------------------------------------------
(***************************************************************************)
(* Workers.                                                                *)
(***************************************************************************)
\* The answer reaches a goroutine that is still in the call.
LEMMA AnswerIInv ==
    ASSUME IInv, NEW k \in Tasks, Answer(k)
    PROVE  IInv'
<1> DEFINE ok == served[k] = "ok"
           others == Of(k[1], k[2])
<1>1. /\ served[k] \in {"ok", "err"} /\ pc[k] \in Calls /\ pc' = Continued(k, ok)
      /\ served' = [served EXCEPT ![k] = "no"]
      /\ UNCHANGED <<scan, caller, got, list, ctxDone, closed, parts, errors, abandoned>>
  BY DEF Answer, Stuck, Busy, Served
<1>2. /\ k \in TopicTasks => pc[k] \in {"topic", "config"}
      /\ k \notin TopicTasks => pc[k] = "state"
      /\ pc[k] \notin Rests
  BY <1>1, CallingFacts
<1>3. /\ k[1] \in 1..MaxScans /\ k[2] \in Topics
      /\ others \subseteq Tasks \ TopicTasks /\ \A j \in others : j[1] = k[1]
      /\ Parts[k[2]] = {} => others = {}
  BY TaskForm, TaskIntro DEF Of
<1>4. ~ok => served[k] = "err" /\ (errors > 0 \/ closed)
  BY <1>1 DEF IInv, Blamed
<1>5. \/ \E next \in {"config", "ok", "err"} :
            /\ Went(k, next)
            /\ next = "err" => ~ok
            /\ k \notin TopicTasks => next # "config"
            /\ k \in TopicTasks /\ next = "ok" => Parts[k[2]] = {}
      \/ /\ k \in TopicTasks /\ pc[k] = "config" /\ Parts[k[2]] # {}
         /\ pc' = [j \in Tasks |-> IF j = k THEN "parts"
                                   ELSE IF j \in others THEN "queued" ELSE pc[j]]
  <2>1. CASE ~ok
    BY <1>1, <2>1 DEF Continued, Went
  <2>2. CASE ok /\ pc[k] = "topic"
    BY <1>1, <1>2, <2>2 DEF Continued, Went
  <2>3. CASE ok /\ pc[k] = "state"
    BY <1>1, <1>2, <2>3 DEF Continued, Went
  <2>4. CASE ok /\ pc[k] = "config"
    <3>1. pc' = [j \in Tasks |-> IF j = k THEN IF Parts[k[2]] = {} THEN "ok" ELSE "parts"
                                 ELSE IF j \in others THEN "queued" ELSE pc[j]]
      BY <1>1, <2>4 DEF Continued
    <3>2. CASE Parts[k[2]] = {}
      <4>1. pc' = [pc EXCEPT ![k] = "ok"]
        BY <1>3, <3>1, <3>2 DEF IInv, TypeOK
      <4> QED BY <1>2, <2>4, <3>2, <4>1 DEF Went
    <3> QED BY <1>2, <2>4, <3>1, <3>2
  <2> QED BY <1>1, <2>1, <2>2, <2>3, <2>4 DEF Calls
<1> HIDE DEF ok, others
<1>6. /\ pc' \in [Tasks -> Pcs]
      /\ \A j \in Tasks \ TopicTasks : pc'[j] \in {"none", "queued", "state", "ok", "err"}
      /\ \A i \in Tasks : pc'[i] = pc[i] \/ i = k \/ (i \notin TopicTasks /\ i[1] = k[1])
      /\ \A i \in Tasks : pc'[i] \in {"err", "short"} /\ pc'[i] # pc[i] => ~ok
  <2>1. CASE \E next \in {"config", "ok", "err"} :
            /\ Went(k, next)
            /\ next = "err" => ~ok
            /\ k \notin TopicTasks => next # "config"
    BY <2>1 DEF IInv, TypeOK, Went, Pcs, Calls, Over
  <2>2. CASE /\ k \in TopicTasks
             /\ pc' = [j \in Tasks |-> IF j = k THEN "parts"
                                       ELSE IF j \in others THEN "queued" ELSE pc[j]]
    BY <1>3, <2>2 DEF IInv, TypeOK, Pcs
  <2> QED BY <1>5, <2>1, <2>2
<1>7. TypeOK' /\ IsFiniteSet(Busy)'
  <2>1. Busy' = Busy \ {k}
    BY <1>1 DEF Busy, Served, IInv, TypeOK
  <2>2. IsFiniteSet(Busy') /\ Cardinality(Busy') <= Cardinality(Busy)
        /\ Cardinality(Busy') \in Nat /\ Cardinality(Busy) \in Nat
    BY <2>1, FS_RemoveElement, FS_Subset, FS_CardinalityType DEF IInv
  <2>3. Cardinality(Busy)' <= Workers
    BY <2>2, SizesAssumption DEF IInv, TypeOK
  <2> QED BY <1>1, <1>6, <2>2, <2>3 DEF IInv, TypeOK
<1>8. \A j \in TopicTasks : Family(j)'
  <2>1. CASE k \in TopicTasks
    BY <1>1, <1>2, <1>5, <2>1, TopicWent, TopicStarts DEF IInv, others
  <2>2. CASE k \notin TopicTasks
    BY <1>1, <1>2, <1>5, <2>2, PartWent DEF IInv
  <2> QED BY <2>1, <2>2
<1>9. /\ Calling' /\ Settled' /\ ListComplete' /\ PanicsOnlyAbandoned'
      /\ \A j \in Tasks : pc'[j] \in {"err", "short"}
                          => errors' > 0 \/ ctxDone' \/ closed'
  BY <1>1, <1>2, <1>4, <1>6, GoroutineMoves DEF IInv, Blamed, CallerStill
<1>10. \A j \in Tasks : served'[j] = "err" => errors' > 0 \/ closed'
  BY <1>1 DEF IInv, TypeOK, Blamed
<1> QED BY <1>7, <1>8, <1>9, <1>10 DEF IInv, Blamed

LEMMA WorkerIInv ==
    ASSUME IInv, NEW k \in Tasks,
           Accept(k) \/ \E result \in {"ok", "err"} : Read(k, result)
    PROVE  IInv'
<1>1. /\ UNCHANGED <<scan, caller, got, list, ctxDone, closed, pc, parts, abandoned>>
      /\ errors' \in 0..MaxErrors /\ errors <= errors' /\ errors \in Int
  BY SizesAssumption DEF Accept, Read, IInv, TypeOK
<1>2. TypeOK' /\ IsFiniteSet(Busy)'
  <2>1. served' \in [Tasks -> {"no", "reading", "ok", "err"}]
    BY DEF IInv, TypeOK, Accept, Read
  <2>2. IsFiniteSet(Busy') /\ Cardinality(Busy') <= Workers
    <3>1. CASE Accept(k)
      <4>1. Busy' = Busy \cup {k} /\ k \notin Busy
        BY <3>1 DEF Accept, Asks, Busy, Served, IInv, TypeOK
      <4>2. Cardinality(Busy') = Cardinality(Busy) + 1 /\ IsFiniteSet(Busy')
        BY <4>1, FS_AddElement DEF IInv
      <4>3. Cardinality(Busy) < Workers /\ Cardinality(Busy) \in Nat
        BY <3>1, FS_CardinalityType DEF Accept, WorkerIdle, IInv
      <4> QED BY <4>2, <4>3, SizesAssumption
    <3>2. CASE \E result \in {"ok", "err"} : Read(k, result)
      <4>1. Busy' = Busy
        BY <3>2 DEF Read, Busy, Served, IInv, TypeOK
      <4> QED BY <4>1 DEF IInv, TypeOK
    <3> QED BY <3>1, <3>2
  <2> QED BY <1>1, <2>1, <2>2 DEF IInv, TypeOK
<1>3. \A j \in TopicTasks : Family(j)'
  BY <1>1, StillFamily DEF IInv, Still
<1>4. Calling'
  BY <1>1 DEF IInv, Calling, TopicTask
<1>5. Settled' /\ PanicsOnlyAbandoned'
  BY <1>1 DEF IInv, Settled, PanicsOnlyAbandoned
<1>6. ListComplete'
  BY <1>1 DEF IInv, ListComplete
<1>7. Blamed'
  <2>1. \A j \in Tasks : pc'[j] \in {"err", "short"} => errors' > 0 \/ ctxDone' \/ closed'
    BY <1>1 DEF IInv, Blamed
  <2>2. ASSUME NEW j \in Tasks, served'[j] = "err" PROVE errors' > 0 \/ closed'
    <3>1. CASE Accept(k)
      BY <1>1, <2>2, <3>1 DEF Accept, IInv, TypeOK, Blamed
    <3>2. ASSUME NEW result \in {"ok", "err"}, Read(k, result)
          PROVE  errors' > 0 \/ closed'
      <4>1. CASE j = k
        BY <1>1, <2>2, <3>2, <4>1 DEF Read, IInv, TypeOK
      <4>2. CASE j # k
        BY <1>1, <2>2, <3>2, <4>2 DEF Read, IInv, TypeOK, Blamed
      <4> QED BY <4>1, <4>2
    <3> QED BY <3>1, <3>2
  <2> QED BY <2>1, <2>2 DEF Blamed
<1> QED BY <1>2, <1>3, <1>4, <1>5, <1>6, <1>7 DEF IInv

-----------------------------------------------------------------------------
(***************************************************************************)
(* The caller.                                                             *)
(***************************************************************************)
\* A new call begins with goroutines whose partitions have not begun.
LEMMA GetTopicsIInv == ASSUME IInv, GetTopics PROVE IInv'
<1>1. /\ caller = "idle" /\ scan < MaxScans /\ scan' = scan + 1 /\ caller' = "scan"
      /\ got' = {} /\ ~closed
      /\ UNCHANGED <<list, ctxDone, closed, served, parts, errors, abandoned>>
  BY DEF GetTopics, IInv, Calling
<1>2. /\ scan \in 0..MaxScans /\ scan' \in 1..MaxScans /\ pc \in [Tasks -> Pcs]
  BY <1>1, SizesAssumption DEF IInv, TypeOK
<1>3. /\ pc' \in [Tasks -> Pcs]
      /\ \A k \in Tasks : pc'[k] = IF k \in TopicTasks /\ k[1] = scan' THEN "queued"
                                    ELSE pc[k]
  BY <1>2 DEF GetTopics, Pcs
<1>4. TypeOK' /\ IsFiniteSet(Busy)'
  <2>1. Busy' = Busy
    BY <1>1 DEF Busy, Served
  <2>2. scan' \in 0..MaxScans
    BY <1>2
  <2> QED BY <1>1, <1>3, <2>1, <2>2 DEF IInv, TypeOK
<1>5. ASSUME NEW k \in TopicTasks PROVE Family(k)'
  <2>1. k \in Tasks /\ Of(k[1], k[2]) \subseteq Tasks \ TopicTasks
        /\ (\A q \in Parts[k[2]] : <<k[1], k[2], q>> \in Of(k[1], k[2]))
        /\ \A j \in Of(k[1], k[2]) : j[1] = k[1]
    BY TopicForm, TaskIntro
  <2>2. \A j \in Of(k[1], k[2]) : pc'[j] = pc[j]
    BY <1>3, <2>1
  <2>3. CASE k[1] = scan'
    <3>1. \A j \in Of(k[1], k[2]) : pc[j] = "none"
      BY <1>1, <1>2, <2>1, <2>3 DEF IInv, Calling
    <3>2. pc'[k] = "queued"
      BY <1>3, <2>1, <2>3
    <3> QED BY <1>1, <2>1, <2>2, <3>1, <3>2 DEF IInv, Family
  <2>4. CASE k[1] # scan'
    BY <1>1, <1>3, <2>1, <2>2, <2>4 DEF IInv, Family
  <2> QED BY <2>3, <2>4
<1>6. Calling'
  <2>1. ASSUME NEW k \in Tasks, k[1] > scan' PROVE pc'[k] = "none"
    BY <1>1, <1>2, <1>3, <2>1, TaskForm DEF IInv, Calling
  <2> QED BY <1>1, <1>2, <2>1 DEF Calling
<1>7. Settled'
  <2> SUFFICES ASSUME ~abandoned, NEW k \in Tasks, k[1] # scan' PROVE pc'[k] \in Rests
    BY <1>1 DEF Settled
  <2> QED BY <1>1, <1>3 DEF IInv, Settled
<1>8. Blamed' /\ ListComplete' /\ PanicsOnlyAbandoned'
  BY <1>1, <1>3 DEF IInv, Blamed, ListComplete, PanicsOnlyAbandoned
<1> QED BY <1>4, <1>5, <1>6, <1>7, <1>8 DEF IInv

\* What a call returns has every topic, and those that lack partitions lack
\* them for a reason; a call that ends early has left goroutines or has none.
LEMMA ReceiveTopicIInv ==
    ASSUME IInv, NEW t \in Topics, ReceiveTopic(t) PROVE IInv'
<1> DEFINE k == TopicTask(scan, t)
<1>1. /\ caller = "scan" /\ t \notin got /\ pc[k] \in Over /\ ~closed
      /\ UNCHANGED <<scan, ctxDone, closed, served, pc, parts, errors>>
  BY DEF ReceiveTopic, Unreceived, IInv, Calling
<1>2. scan \in 1..MaxScans /\ k \in TopicTasks /\ k \in Tasks
  <2>1. scan \in 1..MaxScans
    BY <1>1, SizesAssumption DEF IInv, TypeOK, Calling
  <2> QED BY <2>1, TaskIntro, TopicForm
<1>3. \A u \in Topics : TopicTask(scan, u)' = TopicTask(scan, u)
  BY <1>1 DEF TopicTask
<1>4. Busy' = Busy /\ Blamed'
  BY <1>1 DEF Busy, Served, IInv, Blamed
<1>5. CASE /\ pc[k] = "err" /\ caller' = "idle" /\ list' = {} /\ got' = got
           /\ abandoned' = (abandoned \/ LeavesTasks(ScanTasks(scan)))
  <2>1. TypeOK' /\ IsFiniteSet(Busy)'
    <3>1. abandoned' \in BOOLEAN
      BY <1>5 DEF LeavesTasks, IInv, TypeOK
    <3>2. list' \subseteq Topics \X {"ok", "short"}
      BY <1>5
    <3>3. /\ UNCHANGED <<scan, got, ctxDone, closed, served, pc, parts, errors, Busy>>
          /\ caller' = "idle"
      BY <1>1, <1>4, <1>5
    <3> QED BY <3>1, <3>2, <3>3 DEF IInv, TypeOK
  <2>2. \A h \in TopicTasks : Family(h)'
    BY <1>1, <1>5 DEF IInv, Family
  <2>3. Calling'
    BY <1>1, <1>5 DEF IInv, Calling
  <2>4. Settled'
    <3> SUFFICES ASSUME ~abandoned', NEW h \in Tasks PROVE pc[h] \in Rests
      BY <1>1 DEF Settled
    <3>1. CASE h[1] # scan
      BY <1>5, <3>1 DEF IInv, Settled
    <3>2. CASE h[1] = scan
      <4>1. h \in ScanTasks(scan)
        BY <3>2, TopicForm, PartForm, TaskForm DEF ScanTasks
      <4> QED BY <1>5, <4>1 DEF LeavesTasks, IInv, TypeOK, Pcs, Rests
    <3> QED BY <3>1, <3>2
  <2>5. ListComplete' /\ PanicsOnlyAbandoned'
    BY <1>1, <1>2, <1>5 DEF IInv, Blamed, ListComplete, PanicsOnlyAbandoned
  <2> QED BY <1>4, <2>1, <2>2, <2>3, <2>4, <2>5 DEF IInv
<1>6. CASE /\ pc[k] # "err" /\ got' = got \cup {t} /\ abandoned' = abandoned
           /\ IF Complete(t)
              THEN /\ caller' = "idle"
                   /\ list' = {<<u, pc[TopicTask(scan, u)]>> : u \in got'}
              ELSE UNCHANGED <<caller, list>>
  <2>1. \A u \in got' : pc[TopicTask(scan, u)] \in {"ok", "short"}
    BY <1>1, <1>6 DEF IInv, Calling, Over
  <2>2. got' \subseteq Topics
    BY <1>6 DEF IInv, TypeOK
  <2>3. TypeOK' /\ IsFiniteSet(Busy)'
    <3>1. list' \subseteq Topics \X {"ok", "short"}
      BY <1>6, <2>1, <2>2 DEF IInv, TypeOK
    <3>2. caller' \in {"idle", "scan", "closed", "panicked"}
      BY <1>6 DEF IInv, TypeOK
    <3>3. UNCHANGED <<scan, ctxDone, closed, served, pc, parts, errors, abandoned, Busy>>
      BY <1>1, <1>4, <1>6
    <3> QED BY <2>2, <3>1, <3>2, <3>3 DEF IInv, TypeOK
  <2>4. \A h \in TopicTasks : Family(h)'
    BY <1>1, <1>6 DEF IInv, Family
  <2>5. Calling'
    BY <1>1, <1>3, <1>6, <2>1, <2>2 DEF IInv, Calling
  <2>6. CASE ~Complete(t)
    <3>1. Settled' /\ ListComplete' /\ PanicsOnlyAbandoned'
      BY <1>1, <1>6, <2>6 DEF IInv, Settled, ListComplete, PanicsOnlyAbandoned
    <3> QED BY <1>4, <2>3, <2>4, <2>5, <3>1 DEF IInv
  <2>7. CASE Complete(t)
    <3>1. got' = Topics
      BY <1>6, <2>2, <2>7 DEF Complete, Unreceived
    <3>2. list' = {<<u, pc[TopicTask(scan, u)]>> : u \in Topics}
      BY <1>6, <2>7, <3>1
    <3>3. Settled'
      <4> SUFFICES ASSUME ~abandoned, NEW h \in Tasks PROVE pc[h] \in Rests
        BY <1>1, <1>6 DEF Settled
      <4>1. CASE h[1] # scan
        BY <4>1 DEF IInv, Settled
      <4>2. CASE h[1] = scan /\ h \in TopicTasks
        BY <2>1, <3>1, <4>2, TopicForm DEF Rests, Over
      <4>3. CASE h[1] = scan /\ h \notin TopicTasks
        <5>1. /\ h \in Of(scan, h[2]) /\ h[2] \in Topics
              /\ TopicTask(scan, h[2]) \in TopicTasks
          BY <4>3, PartForm
        <5>2. pc[TopicTask(scan, h[2])] \in {"ok", "short"}
          BY <2>1, <3>1, <5>1
        <5>3. TopicTask(scan, h[2])[1] = scan /\ TopicTask(scan, h[2])[2] = h[2]
          BY DEF TopicTask
        <5> QED BY <5>1, <5>2, <5>3 DEF IInv, Family
      <4> QED BY <4>1, <4>2, <4>3
    <3>4. ListComplete'
      <4>1. CASE \A u \in Topics : pc[TopicTask(scan, u)] = "ok"
        <5>1. list' = Topics \X {"ok"}
          BY <3>2, <4>1
        <5> QED BY <5>1 DEF ListComplete
      <4>2. CASE \E u \in Topics : pc[TopicTask(scan, u)] # "ok"
        <5>1. PICK u \in Topics : pc[TopicTask(scan, u)] = "short"
          BY <2>1, <3>1, <4>2
        <5>2. TopicTask(scan, u) \in Tasks
          BY <1>2, TaskIntro, TopicForm
        <5>3. errors > 0 \/ ctxDone
          BY <1>1, <5>1, <5>2 DEF IInv, Blamed
        <5> QED BY <1>1, <5>3 DEF ListComplete
      <4> QED BY <4>1, <4>2
    <3>5. PanicsOnlyAbandoned'
      BY <1>6, <2>7 DEF PanicsOnlyAbandoned
    <3> QED BY <1>4, <2>3, <2>4, <2>5, <3>3, <3>4, <3>5 DEF IInv
  <2> QED BY <2>6, <2>7
<1> QED BY <1>5, <1>6 DEF ReceiveTopic

\* Closing and interrupting leave the goroutines to themselves; a panic needs
\* one that is still in a call.
LEMMA EndIInv ==
    ASSUME IInv, Close \/ Panic \/ Interrupt PROVE IInv'
<1>1. /\ UNCHANGED <<scan, got, list, served, pc, parts, errors, abandoned>>
      /\ ctxDone => ctxDone'
      /\ closed => closed'
  BY DEF Close, Panic, Interrupt
<1>2. Busy' = Busy
  BY <1>1 DEF Busy, Served
<1>3. TypeOK' /\ IsFiniteSet(Busy)'
  BY <1>1, <1>2 DEF IInv, TypeOK, Close, Panic, Interrupt
<1>4. \A h \in TopicTasks : Family(h)'
  BY <1>1, StillFamily DEF IInv, Still
<1>5. Calling'
  BY <1>1 DEF IInv, Calling, TopicTask, Close, Panic, Interrupt, Running, TypeOK
<1>6. Settled'
  BY <1>1 DEF IInv, Settled, Calling, Close, Panic, Interrupt
<1>7. Blamed' /\ ListComplete'
  BY <1>1 DEF IInv, Blamed, ListComplete, Close, Panic, Interrupt
<1>8. PanicsOnlyAbandoned'
  <2>1. CASE Panic
    <3>1. PICK k \in Tasks : pc[k] \in Calls
      BY <2>1 DEF Panic, Asks
    <3>2. caller = "closed"
      BY <2>1 DEF Panic, Running, IInv, Calling
    <3>3. pc[k] \notin Rests
      BY <3>1, CallingFacts
    <3> QED BY <1>1, <3>2, <3>3 DEF IInv, Settled, PanicsOnlyAbandoned
  <2>2. CASE Close \/ Interrupt
    BY <1>1, <2>2 DEF IInv, PanicsOnlyAbandoned, Close, Interrupt
  <2> QED BY <2>1, <2>2
<1> QED BY <1>3, <1>4, <1>5, <1>6, <1>7, <1>8 DEF IInv

-----------------------------------------------------------------------------
LEMMA NextIInv == IInv /\ [Next]_vars => IInv'
<1> SUFFICES ASSUME IInv, [Next]_vars PROVE IInv'
  OBVIOUS
<1>1. CASE UNCHANGED vars
  <2>1. Busy' = Busy
    BY <1>1 DEF vars, Busy, Served
  <2>2. TypeOK' /\ IsFiniteSet(Busy)'
    BY <1>1, <2>1 DEF vars, IInv, TypeOK
  <2>3. Calling' /\ Settled' /\ Blamed' /\ ListComplete' /\ PanicsOnlyAbandoned'
    BY <1>1 DEF vars, IInv, Calling, TopicTask, Settled, Blamed, ListComplete,
                PanicsOnlyAbandoned
  <2>4. \A h \in TopicTasks : Family(h)'
    BY <1>1, StillFamily DEF vars, IInv, Still
  <2> QED BY <2>2, <2>3, <2>4 DEF IInv
<1>2. ASSUME NEW k \in Tasks, TaskStep(k) PROVE IInv'
  BY <1>2, TakeIInv, ReceivePartitionIInv DEF TaskStep
<1> QED BY <1>1, <1>2, GetTopicsIInv, ReceiveTopicIInv, EndIInv, GiveUpIInv, AnswerIInv,
           WorkerIInv DEF Next, CallerStep, PoolStep

\* The invariant holds throughout.
LEMMA IInvHolds == Spec => []IInv
<1> QED BY InitIInv, NextIInv, PTL DEF Spec

-----------------------------------------------------------------------------
\* Every variable has its type: no more requests are being served than there
\* are workers (zk/client.go:96-125).
THEOREM ScanTypeSafety == Spec => []TypeOK
<1>1. IInv => TypeOK
  BY DEF IInv
<1> QED BY <1>1, IInvHolds, PTL

\* A list that lacks a topic or a partition is the doing of a failed read or
\* of a cancelled context (zkclient.go:391-407, 942-957).
THEOREM ListsAreComplete == Spec => []ListComplete
<1>1. IInv => ListComplete
  BY DEF IInv
<1> QED BY <1>1, IInvHolds, PTL

\* A goroutine sends on the closed request channel only when a call returned
\* before its goroutines ended (client.go:345-346, zkclient.go:393).
THEOREM PanicsNeedAbandoned == Spec => []PanicsOnlyAbandoned
<1>1. IInv => PanicsOnlyAbandoned
  BY DEF IInv
<1> QED BY <1>1, IInvHolds, PTL
=============================================================================
