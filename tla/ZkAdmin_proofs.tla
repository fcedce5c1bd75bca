--------------------------- MODULE ZkAdmin_proofs ---------------------------
(***************************************************************************)
(* Theorems about ZkAdmin, for any processes, nodes, keys, requests,       *)
(* initial stores and numbers of calls and faults.                         *)
(***************************************************************************)
EXTENDS ZkAdmin, TLAPS

-----------------------------------------------------------------------------
(***************************************************************************)
(* Requests and maps.                                                      *)
(***************************************************************************)
IsRequest(r) ==
    /\ r.node \in Nodes
    /\ DOMAIN r.entries \subseteq Keys
    /\ \A k \in DOMAIN r.entries : r.entries[k] \in Values \cup {Unset}
    /\ r.overwrite \in BOOLEAN

\* Every request, the clearing ones too, names a node and gives keys values.
LEMMA RequestType == ASSUME NEW r \in AllRequests PROVE IsRequest(r)
<1>1. \A n \in Nodes, ks \in SUBSET Keys : IsRequest(Clears(n, ks))
  BY DEF Clears, IsRequest
<1>2. (CHOOSE n \in Nodes : TRUE) \in Nodes
  BY NodesAssumption
<1>3. IsRequest(NoRequest)
  BY <1>1, <1>2 DEF NoRequest
<1>4. ASSUME NEW p \in Procs, r \in Requests[p] PROVE IsRequest(r)
  BY <1>4, RequestsAssumption DEF IsRequest
<1>5. CASE r = NoRequest
  BY <1>5, <1>3
<1>6. CASE r \in UNION {Requests[p] : p \in Procs}
  BY <1>6, <1>4
<1>7. CASE r \in Clearings
  <2>1. PICK n \in BrokerNodes : r = Clears(n, Throttles)
    BY <1>7 DEF Clearings
  <2> QED  BY <2>1, <1>1, KeysAssumption DEF Nodes
<1> QED
  BY <1>5, <1>6, <1>7 DEF AllRequests

\* An update of a map is a map, and returns keys.
LEMMA UpdatedType ==
    ASSUME NEW r \in AllRequests, NEW map \in Store!Maps
    PROVE  /\ Store!Updated(map, r) \in Store!Maps
           /\ Store!Touched(map, r) \subseteq Keys
BY RequestType DEF IsRequest, Store!Updated, Store!Touched, Store!Maps

LEMMA ClearsRequest ==
    ASSUME NEW n \in BrokerNodes PROVE Clears(n, Throttles) \in AllRequests
<1>1. Clears(n, Throttles) \in Clearings
  BY DEF Clearings
<1> QED
  BY <1>1 DEF AllRequests

LEMMA EmptyType == Store!Empty \in Store!Maps
BY DEF Store!Empty, Store!Maps

LEMMA NoCallType == NoCall \in CallType
BY EmptyType DEF NoCall, CallType, AllRequests

-----------------------------------------------------------------------------
(***************************************************************************)
(* Types.                                                                  *)
(***************************************************************************)
Labels == {"idle", "stopped", "lock"} \cup Updates \cup Gone
LocalsOK == pc \in [Procs -> Labels] /\ call \in [Procs -> CallType]

NodeType == [exists : BOOLEAN, version : Nat, map : Store!Maps]

LEMMA StoreType ==
    ASSUME TypeOK, NEW n \in Nodes, NEW map \in Store!Maps
    PROVE  /\ Created(n) \in [Nodes -> NodeType]
           /\ SetTo(n, map) \in [Nodes -> NodeType]
<1>1. store \in [Nodes -> NodeType] /\ store[n] \in NodeType
  BY DEF TypeOK, NodeType
<1>2. [store[n] EXCEPT !.exists = TRUE] \in NodeType
  BY <1>1 DEF NodeType
<1>3. [exists |-> TRUE, version |-> store[n].version + 1, map |-> map] \in NodeType
  BY <1>1 DEF NodeType
<1>4. Created(n) \in [Nodes -> NodeType]
  BY <1>1, <1>2 DEF Created
<1>5. SetTo(n, map) \in [Nodes -> NodeType]
  BY <1>1, <1>3 DEF SetTo
<1> QED
  BY <1>4, <1>5

LEMMA ReturnType ==
    ASSUME LocalsOK, NEW p \in Procs, Return(p) PROVE LocalsOK'
BY NoCallType DEF LocalsOK, Return, Goto, CallType, Labels

LEMMA BeginType ==
    ASSUME TypeOK, NEW p \in Procs, NEW r \in AllRequests, NEW label \in Updates,
           NEW mine \in SUBSET (Nodes \X Keys), Begin(p, label, r, mine)
    PROVE  TypeOK'
<1>1. call' \in [Procs -> CallType]
  BY DEF TypeOK, Begin, CallType
<1> QED
  BY <1>1, BoundsAssumption
  DEF TypeOK, Begin, Goto, Labels, store_vars, lock_vars

LEMMA AskType ==
    ASSUME TypeOK, NEW p \in Procs, Ask(p) PROVE TypeOK'
<1>1. ASSUME NEW r \in Requests[p], UpdateBrokerConfig(p, r) PROVE TypeOK'
  BY <1>1, BeginType DEF UpdateBrokerConfig, AllRequests, TypeOK, Updates, Writes
<1>2. ASSUME NEW r \in Requests[p], UpdateTopicConfig(p, r) PROVE TypeOK'
  BY <1>2, BeginType DEF UpdateTopicConfig, AllRequests, TypeOK, Updates, Writes
<1>3. ASSUME NEW r \in Requests[p], AddPartitions(p, r) PROVE TypeOK'
  BY <1>3, BeginType DEF AddPartitions, AllRequests, TypeOK, Updates, Writes
<1>4. ASSUME NEW n \in BrokerNodes, Release(p, n) PROVE TypeOK'
  <2>1. Clears(n, Throttles) \in AllRequests
    BY ClearsRequest
  <2>2. owned[p] \ ({n} \X Keys) \in SUBSET (Nodes \X Keys)
    BY DEF TypeOK
  <2> QED
    BY <1>4, <2>1, <2>2, BeginType DEF Release, Updates, Writes
<1>5. ASSUME AcquireLock(p) PROVE TypeOK'
  <2>1. call' \in [Procs -> CallType]
    BY <1>5 DEF TypeOK, AcquireLock, CallType
  <2> QED
    BY <1>5, <2>1 DEF TypeOK, AcquireLock, Goto, store_vars
<1> QED
  BY <1>1, <1>2, <1>3, <1>4, <1>5 DEF Ask

\* A call that reached its node has a request of the node's shape.
LEMMA UpdateStepType ==
    ASSUME TypeOK, NEW p \in Procs, UpdateStep(p) PROVE TypeOK'
<1> USE DEF Keep, store_vars, lock_vars
<1>0. /\ call[p].req \in AllRequests
      /\ call[p].req.node \in Nodes
      /\ store[call[p].req.node].map \in Store!Maps
      /\ store[call[p].req.node].version \in Nat
      /\ call[p].map \in Store!Maps
      /\ LocalsOK
  BY RequestType DEF TypeOK, CallType, IsRequest, LocalsOK, Labels
<1>1. CASE ExistsRoot(p)
  BY <1>1 DEF ExistsRoot, TypeOK, Goto, Updates, Writes
<1>2. CASE CreateRoot(p)
  <2>1. LocalsOK'
    BY <1>2, <1>0, ReturnType DEF CreateRoot, LocalsOK, Goto, Labels, Updates
  <2> QED
    BY <1>2, <2>1 DEF CreateRoot, TypeOK, LocalsOK, Labels
<1>3. CASE ExistsNode(p)
  BY <1>3 DEF ExistsNode, TypeOK, Goto, Updates, Writes
<1>4. CASE CreateNode(p)
  <2>1. LocalsOK'
    BY <1>4, <1>0, ReturnType DEF CreateNode, LocalsOK, Goto, Labels, Updates
  <2>2. store' \in [Nodes -> [exists : BOOLEAN, version : Nat, map : Store!Maps]]
    BY <1>4, <1>0, StoreType DEF CreateNode, TypeOK, NodeType
  <2> QED
    BY <1>4, <2>1, <2>2 DEF CreateNode, TypeOK, LocalsOK, Labels
<1>5. CASE Get(p)
  <2>1. LocalsOK'
    <3>1. CASE Return(p)
      BY <3>1, <1>0, ReturnType
    <3>2. CASE ~Return(p)
      <4>1. call' \in [Procs -> CallType]
        BY <3>2, <1>5, <1>0, UpdatedType DEF Get, CallType, LocalsOK
      <4> QED
        BY <3>2, <4>1, <1>5, <1>0 DEF Get, LocalsOK, Goto, Labels, Updates, Writes
    <3> QED  BY <3>1, <3>2
  <2> QED
    BY <1>5, <2>1 DEF Get, TypeOK, LocalsOK, Labels
<1>6. CASE Set(p)
  <2>1. LocalsOK'
    BY <1>6, <1>0, ReturnType DEF Set, LocalsOK, Goto, Labels, Updates, Writes
  <2>2. store' \in [Nodes -> [exists : BOOLEAN, version : Nat, map : Store!Maps]]
    BY <1>6, <1>0, StoreType DEF Set, TypeOK, NodeType
  <2> QED
    BY <1>6, <2>1, <2>2 DEF Set, TypeOK, LocalsOK, Labels
<1>7. CASE Notify(p)
  <2>1. LocalsOK'
    BY <1>7, <1>0, ReturnType DEF Notify
  <2>2. call[p].keys \subseteq Keys
    BY DEF TypeOK, CallType
  <2>3. owned' \in [Procs -> SUBSET (Nodes \X Keys)]
    BY <1>7, <1>0, <2>2 DEF Notify, TypeOK
  <2> QED
    BY <1>7, <1>0, <2>1, <2>3 DEF Notify, TypeOK, LocalsOK, Labels
<1> QED
  BY <1>1, <1>2, <1>3, <1>4, <1>5, <1>6, <1>7 DEF UpdateStep

LEMMA LockStepType ==
    ASSUME TypeOK, NEW p \in Procs,
           Granted(p) \/ LockTimeout(p) \/ Unlock(p) \/ Close(p)
    PROVE  TypeOK'
<1> USE DEF Keep, store_vars, lock_vars
<1>1. CASE Granted(p)
  BY <1>1 DEF Granted, TypeOK, Goto
<1>2. CASE LockTimeout(p)
  <2>1. call' \in [Procs -> CallType]
    BY <1>2 DEF LockTimeout, TypeOK, CallType
  <2> QED
    BY <1>2, <2>1 DEF LockTimeout, TypeOK, Goto
<1>3. CASE Unlock(p)
  <2>1. call' \in [Procs -> CallType]
    BY <1>3 DEF Unlock, TypeOK, CallType
  <2> QED
    BY <1>3, <2>1 DEF Unlock, TypeOK
<1>4. CASE Close(p)
  BY <1>4 DEF Close, TypeOK, Goto, EndSession, Gone
<1> QED
  BY <1>1, <1>2, <1>3, <1>4

LEMMA AbandonType ==
    ASSUME TypeOK, NEW p \in Procs, Abandon(p)
    PROVE  /\ late' \subseteq [by : Procs, write : Writes, call : CallType]
           /\ broken' \subseteq Nodes
BY DEF Abandon, TypeOK

LEMMA FaultType ==
    ASSUME TypeOK, NEW p \in Procs,
           \/ Interrupt(p) \/ CallFails(p) \/ Crash(p)
           \/ SessionExpires(p) \/ SessionLost(p)
    PROVE  TypeOK'
<1> USE DEF store_vars, lock_vars, Fault
<1>0. LocalsOK
  BY DEF TypeOK, LocalsOK, Labels
<1>1. CASE Interrupt(p)
  <2>1. call' \in [Procs -> CallType]
    BY <1>1, NoCallType DEF Interrupt, TypeOK, CallType
  <2> QED
    BY <1>1, <2>1, AbandonType DEF Interrupt, TypeOK, Goto
<1>2. CASE CallFails(p)
  <2>1. LocalsOK'
    BY <1>2, <1>0, ReturnType DEF CallFails
  <2> QED
    BY <1>2, <2>1, AbandonType DEF CallFails, TypeOK, LocalsOK, Labels
<1>3. CASE Crash(p)
  <2>1. call' \in [Procs -> CallType]
    BY <1>3, NoCallType DEF Crash, TypeOK
  <2> QED
    BY <1>3, <2>1, AbandonType DEF Crash, TypeOK, Goto, Gone
<1>4. CASE SessionExpires(p)
  BY <1>4 DEF SessionExpires, EndSession, TypeOK
<1>5. CASE SessionLost(p)
  BY <1>5 DEF SessionLost, EndSession, TypeOK
<1> QED
  BY <1>1, <1>2, <1>3, <1>4, <1>5

LEMMA LateWriteType ==
    ASSUME TypeOK, NEW w \in late, LateWrite(w) PROVE TypeOK'
<1> USE DEF lock_vars
<1>1. /\ w.call \in CallType /\ w.call.map \in Store!Maps
      /\ w.call.req.node \in Nodes
  BY RequestType DEF TypeOK, CallType, IsRequest
<1>2. store' \in [Nodes -> [exists : BOOLEAN, version : Nat, map : Store!Maps]]
  BY <1>1, StoreType DEF LateWrite, TypeOK, NodeType
<1>3. broken' \subseteq Nodes /\ notices' \subseteq Nodes /\ rootExists' \in BOOLEAN
  BY <1>1 DEF LateWrite, TypeOK
<1> QED
  BY <1>2, <1>3 DEF LateWrite, TypeOK

LEMMA BrokersHeedType ==
    ASSUME TypeOK, NEW n \in Nodes, BrokersHeed(n) PROVE TypeOK'
BY DEF BrokersHeed, TypeOK, lock_vars

LEMMA InitType == Init => TypeOK
<1> SUFFICES ASSUME Init PROVE TypeOK  OBVIOUS
<1>1. store \in [Nodes -> [exists : BOOLEAN, version : Nat, map : Store!Maps]]
  BY InitialAssumption DEF Init
<1> QED
  BY <1>1, NoCallType DEF Init, TypeOK

LEMMA NextType == TypeOK /\ [Next]_vars => TypeOK'
<1> SUFFICES ASSUME TypeOK, [Next]_vars PROVE TypeOK'  OBVIOUS
<1>1. CASE UNCHANGED vars
  BY <1>1 DEF vars, store_vars, lock_vars, TypeOK
<1>2. ASSUME NEW p \in Procs, Step(p) PROVE TypeOK'
  BY <1>2, UpdateStepType, LockStepType DEF Step
<1> QED
  BY <1>1, <1>2, AskType, FaultType, LateWriteType, BrokersHeedType DEF Next

\* Every variable keeps its type: zkclient.go:490-617 and client.go:217-364.
THEOREM ZkTypeSafety == Spec => []TypeOK
<1>1. Init => TypeOK
  BY InitType
<1>2. TypeOK /\ [Next]_vars => TypeOK'
  BY NextType
<1> QED
  BY <1>1, <1>2, PTL DEF Spec

-----------------------------------------------------------------------------
(***************************************************************************)
(* Atomic updates.  A write under way, late or not, is either stale - its  *)
(* node has a newer version, and ZooKeeper will refuse it - or it carries  *)
(* what its request makes of the map as it is now.                         *)
(***************************************************************************)
Fits(c, s) ==
    LET now == s[c.req.node]
    IN  /\ c.version <= now.version
        /\ c.version = now.version =>
              c.map = Store!Updated(now.map, c.req) /\ Store!Allowed(now.map, c.req)

WritesFit ==
    /\ \A p \in Procs : pc[p] = "set" => Fits(call[p], store)
    /\ \A w \in late : w.write = "set" => Fits(w.call, store)

\* no step changes a map without a new version
StoreMoves(s, t) ==
    \A n \in Nodes : \/ t[n].version = s[n].version /\ t[n].map = s[n].map
                     \/ t[n].version = s[n].version + 1

LEMMA FitsKept ==
    ASSUME NEW c \in CallType, NEW s \in [Nodes -> NodeType], NEW t, Fits(c, s),
           StoreMoves(s, t)
    PROVE  Fits(c, t)
<1>1. c.req.node \in Nodes /\ c.version \in Nat
  BY RequestType DEF CallType, IsRequest
<1>2. s[c.req.node].version \in Nat
  BY <1>1 DEF NodeType
<1> QED
  BY <1>1, <1>2 DEF Fits, StoreMoves

LEMMA StoreMovesFacts ==
    ASSUME TypeOK, NEW n \in Nodes, NEW map
    PROVE  /\ StoreMoves(store, store)
           /\ StoreMoves(store, Created(n))
           /\ StoreMoves(store, SetTo(n, map))
<1>1. \A m \in Nodes : store[m] \in NodeType
  BY DEF TypeOK, NodeType
<1>2. StoreMoves(store, store)
  BY DEF StoreMoves
<1>3. ASSUME NEW m \in Nodes
      PROVE  Created(n)[m].version = store[m].version /\ Created(n)[m].map = store[m].map
  <2>1. CASE m = n
    <3>1. Created(n)[m] = [store[n] EXCEPT !.exists = TRUE]
      BY <2>1 DEF Created, TypeOK
    <3> QED
      BY <3>1, <2>1, <1>1 DEF NodeType
  <2>2. CASE m # n
    BY <2>2 DEF Created, TypeOK
  <2> QED  BY <2>1, <2>2
<1>4. ASSUME NEW m \in Nodes
      PROVE  \/ SetTo(n, map)[m] = store[m]
             \/ SetTo(n, map)[m].version = store[m].version + 1
  <2>1. CASE m = n
    <3>1. SetTo(n, map)[m] =
             [exists |-> TRUE, version |-> store[m].version + 1, map |-> map]
      BY <2>1 DEF SetTo, TypeOK
    <3> QED
      BY <3>1
  <2>2. CASE m # n
    BY <2>2 DEF SetTo, TypeOK
  <2> QED  BY <2>1, <2>2
<1> QED
  BY <1>2, <1>3, <1>4 DEF StoreMoves

\* Each step moves the store so, and starts no write that does not fit.
NewWritesFit ==
    /\ \A p \in Procs : pc'[p] = "set" =>
          (pc[p] = "set" /\ call'[p] = call[p]) \/ Fits(call'[p], store)
    /\ \A w \in late' : w.write = "set" =>
          w \in late \/ \E p \in Procs : pc[p] = "set" /\ w.call = call[p]

LEMMA MoveKeepsFits ==
    ASSUME TypeOK, WritesFit, TypeOK', StoreMoves(store, store'), NewWritesFit
    PROVE  WritesFit'
<1>0. store \in [Nodes -> NodeType]
  BY DEF TypeOK, NodeType
<1>1. ASSUME NEW p \in Procs, pc'[p] = "set" PROVE Fits(call'[p], store')
  <2>1. call'[p] \in CallType
    BY DEF TypeOK
  <2>2. Fits(call'[p], store)
    BY <1>1 DEF NewWritesFit, WritesFit
  <2> QED
    BY <1>0, <2>1, <2>2, FitsKept
<1>2. ASSUME NEW w \in late', w.write = "set" PROVE Fits(w.call, store')
  <2>1. w.call \in CallType
    BY DEF TypeOK
  <2>2. Fits(w.call, store)
    BY <1>2 DEF NewWritesFit, WritesFit
  <2> QED
    BY <1>0, <2>1, <2>2, FitsKept
<1> QED
  BY <1>1, <1>2 DEF WritesFit

\* A step that returns, or goes on to a label other than "set", starts no write.
LEMMA QuietStep ==
    ASSUME TypeOK, NEW p \in Procs, pc' = [pc EXCEPT ![p] = pc'[p]], pc'[p] # "set",
           \A q \in Procs \ {p} : call'[q] = call[q],
           \A w \in late' : w \in late \/ (w.write = pc[p] /\ w.call = call[p])
    PROVE  NewWritesFit
BY DEF NewWritesFit, TypeOK

LEMMA ReturnQuiet ==
    ASSUME TypeOK, NEW p \in Procs, Return(p)
    PROVE  /\ pc' = [pc EXCEPT ![p] = pc'[p]] /\ pc'[p] # "set"
           /\ \A q \in Procs \ {p} : call'[q] = call[q]
BY DEF Return, Goto, TypeOK

LEMMA AskFits ==
    ASSUME TypeOK, NEW p \in Procs, Ask(p) PROVE NewWritesFit /\ store' = store
<1>1. ASSUME NEW r, NEW mine, NEW label \in {"root", "get"}, Begin(p, label, r, mine)
      PROVE  NewWritesFit /\ store' = store
  BY <1>1, QuietStep DEF Begin, Goto, TypeOK, store_vars
<1>2. ASSUME AcquireLock(p) PROVE NewWritesFit /\ store' = store
  BY <1>2, QuietStep DEF AcquireLock, Goto, TypeOK, store_vars
<1> QED
  BY <1>1, <1>2
  DEF Ask, UpdateBrokerConfig, UpdateTopicConfig, AddPartitions, Release

LEMMA UpdateStepFits ==
    ASSUME TypeOK, NEW p \in Procs, UpdateStep(p)
    PROVE  NewWritesFit /\ StoreMoves(store, store')
<1> USE DEF Keep, store_vars
<1>0. call[p].req.node \in Nodes /\ call[p].req \in AllRequests
  BY RequestType DEF TypeOK, CallType, IsRequest
<1>1. CASE ExistsRoot(p) \/ ExistsNode(p)
  BY <1>1, QuietStep, <1>0, StoreMovesFacts DEF ExistsRoot, ExistsNode, Goto, TypeOK
<1>2. CASE CreateRoot(p)
  BY <1>2, QuietStep, ReturnQuiet, <1>0, StoreMovesFacts DEF CreateRoot, Goto, TypeOK
<1>3. CASE CreateNode(p)
  <2>1. StoreMoves(store, store')
    BY <1>3, <1>0, StoreMovesFacts DEF CreateNode
  <2>2. NewWritesFit
    BY <1>3, QuietStep, ReturnQuiet DEF CreateNode, Goto, TypeOK
  <2> QED  BY <2>1, <2>2
<1>4. CASE Get(p)
  <2>1. CASE Return(p)
    BY <2>1, <1>4, <1>0, QuietStep, ReturnQuiet, StoreMovesFacts DEF Get
  <2>2. CASE ~Return(p)
    <3> DEFINE r == call[p].req
               s == store[r.node]
    <3>1. /\ Store!Allowed(s.map, r)
          /\ call'[p].req = r
          /\ call'[p].version = s.version
          /\ call'[p].map = Store!Updated(s.map, r)
          /\ \A q \in Procs \ {p} : call'[q] = call[q] /\ pc'[q] = pc[q]
          /\ late' = late /\ store' = store
      BY <2>2, <1>4 DEF Get, Goto, TypeOK, CallType
    <3>2. s.version \in Nat
      BY <1>0 DEF TypeOK
    <3>3. Fits(call'[p], store)
      BY <3>1, <3>2 DEF Fits
    <3> QED
      BY <3>1, <3>3, <1>0, StoreMovesFacts DEF NewWritesFit
  <2> QED  BY <2>1, <2>2
<1>5. CASE Set(p)
  <2>1. StoreMoves(store, store')
    BY <1>5, <1>0, StoreMovesFacts DEF Set
  <2>2. NewWritesFit
    BY <1>5, QuietStep, ReturnQuiet DEF Set, Goto, TypeOK
  <2> QED  BY <2>1, <2>2
<1>6. CASE Notify(p)
  BY <1>6, QuietStep, ReturnQuiet, <1>0, StoreMovesFacts DEF Notify
<1> QED
  BY <1>1, <1>2, <1>3, <1>4, <1>5, <1>6 DEF UpdateStep

LEMMA OtherStepFits ==
    ASSUME TypeOK, NEW p \in Procs,
           \/ Granted(p) \/ LockTimeout(p) \/ Unlock(p) \/ Close(p)
           \/ Interrupt(p) \/ CallFails(p) \/ Crash(p)
           \/ SessionExpires(p) \/ SessionLost(p)
    PROVE  NewWritesFit /\ store' = store
<1> USE DEF Keep, store_vars
<1>1. CASE Granted(p) \/ LockTimeout(p)
  BY <1>1, QuietStep DEF Granted, LockTimeout, Goto, TypeOK
<1>2. CASE Unlock(p)
  BY <1>2 DEF Unlock, NewWritesFit, TypeOK
<1>3. CASE Close(p)
  BY <1>3, QuietStep DEF Close, Goto, EndSession, TypeOK
<1>4. CASE Interrupt(p) \/ Crash(p)
  BY <1>4, QuietStep DEF Interrupt, Crash, Abandon, Goto, TypeOK
<1>5. CASE CallFails(p)
  BY <1>5, QuietStep, ReturnQuiet DEF CallFails, Abandon
<1>6. CASE SessionExpires(p) \/ SessionLost(p)
  BY <1>6 DEF SessionExpires, SessionLost, EndSession, NewWritesFit
<1> QED
  BY <1>1, <1>2, <1>3, <1>4, <1>5, <1>6

LEMMA LateWriteFits ==
    ASSUME TypeOK, NEW w \in late, LateWrite(w)
    PROVE  NewWritesFit /\ StoreMoves(store, store')
<1>1. w.call.req.node \in Nodes
  BY RequestType DEF TypeOK, CallType, IsRequest
<1>2. StoreMoves(store, store')
  BY <1>1, StoreMovesFacts DEF LateWrite
<1>3. NewWritesFit
  BY DEF LateWrite, NewWritesFit
<1> QED  BY <1>2, <1>3

LEMMA NextFits == TypeOK /\ WritesFit /\ [Next]_vars => WritesFit'
<1> SUFFICES ASSUME TypeOK, WritesFit, [Next]_vars PROVE WritesFit'  OBVIOUS
<1>1. TypeOK'
  BY NextType
<1>2. Nodes # {}
  BY NodesAssumption
<1>3. NewWritesFit /\ StoreMoves(store, store')
  <2>1. CASE UNCHANGED vars
    BY <2>1 DEF vars, store_vars, NewWritesFit, StoreMoves
  <2>2. ASSUME NEW p \in Procs, Step(p) PROVE NewWritesFit /\ StoreMoves(store, store')
    BY <2>2, <1>2, UpdateStepFits, OtherStepFits, StoreMovesFacts DEF Step
  <2>3. ASSUME NEW n \in Nodes, BrokersHeed(n)
        PROVE  NewWritesFit /\ StoreMoves(store, store')
    BY <2>3, StoreMovesFacts DEF BrokersHeed, NewWritesFit
  <2> QED
    BY <2>1, <2>2, <2>3, <1>2, AskFits, OtherStepFits, LateWriteFits, StoreMovesFacts
    DEF Next
<1> QED
  BY <1>1, <1>3, MoveKeepsFits

-----------------------------------------------------------------------------
(***************************************************************************)
(* The refinement: the write that ZooKeeper accepts is the abstract update *)
(* and every other step leaves the maps alone.                             *)
(***************************************************************************)
Config == [n \in Nodes |-> store[n].map]

\* ZooKeeper accepts the write of a call that fits
LEMMA AcceptedWrite ==
    ASSUME TypeOK, NEW c \in CallType, Fits(c, store),
           c.version = store[c.req.node].version, store' = SetTo(c.req.node, c.map)
    PROVE  \E r \in AllRequests : Store!Update(r)
<1>1. c.req \in AllRequests /\ c.req.node \in Nodes
  BY RequestType DEF CallType, IsRequest
<1>2. /\ c.map = Store!Updated(Config[c.req.node], c.req)
      /\ Store!Allowed(Config[c.req.node], c.req)
  BY <1>1 DEF Fits, Config
<1>3. Config' = [Config EXCEPT ![c.req.node] = c.map]
  BY <1>1 DEF SetTo, Config, TypeOK
<1>4. Store!Update(c.req)
  BY <1>1, <1>2, <1>3 DEF Store!Update, Config
<1> QED  BY <1>1, <1>4

LEMMA CreatedKeepsConfig ==
    ASSUME TypeOK, NEW n \in Nodes, store' = Created(n) PROVE Config' = Config
<1>1. ASSUME NEW m \in Nodes PROVE Created(n)[m].map = store[m].map
  <2>1. store[m] \in NodeType
    BY DEF TypeOK, NodeType
  <2>2. CASE m = n
    <3>1. Created(n)[m] = [store[n] EXCEPT !.exists = TRUE]
      BY <2>2 DEF Created, TypeOK
    <3> QED  BY <3>1, <2>1, <2>2 DEF NodeType
  <2>3. CASE m # n
    BY <2>3 DEF Created, TypeOK
  <2> QED  BY <2>2, <2>3
<1> QED  BY <1>1 DEF Config

LEMMA StepRefines ==
    ASSUME TypeOK, WritesFit, [Next]_vars
    PROVE  (\E r \in AllRequests : Store!Update(r)) \/ Config' = Config
<1>1. ASSUME store' = store PROVE Config' = Config
  BY <1>1 DEF Config
<1>2. ASSUME NEW p \in Procs, UpdateStep(p)
      PROVE  (\E r \in AllRequests : Store!Update(r)) \/ Config' = Config
  <2>1. call[p] \in CallType /\ call[p].req.node \in Nodes
    BY RequestType DEF TypeOK, CallType, IsRequest
  <2>2. CASE Set(p)
    BY <2>1, <2>2, <1>1, AcceptedWrite DEF Set, WritesFit
  <2>3. CASE CreateNode(p)
    BY <2>1, <2>3, <1>1, CreatedKeepsConfig DEF CreateNode
  <2>4. CASE ExistsRoot(p) \/ CreateRoot(p) \/ ExistsNode(p) \/ Get(p) \/ Notify(p)
    BY <2>4, <1>1
    DEF ExistsRoot, CreateRoot, ExistsNode, Get, Notify, store_vars
  <2> QED
    BY <1>2, <2>2, <2>3, <2>4 DEF UpdateStep
<1>3. ASSUME NEW w \in late, LateWrite(w)
      PROVE  (\E r \in AllRequests : Store!Update(r)) \/ Config' = Config
  <2>1. w.call \in CallType /\ w.call.req.node \in Nodes
    BY RequestType DEF TypeOK, CallType, IsRequest
  <2>2. \/ store' = store
        \/ store' = Created(w.call.req.node)
        \/ /\ w.write = "set" /\ store[w.call.req.node].version = w.call.version
           /\ store' = SetTo(w.call.req.node, w.call.map)
    BY <1>3 DEF LateWrite
  <2> QED
    BY <2>1, <2>2, <1>1, CreatedKeepsConfig, AcceptedWrite DEF WritesFit
<1>4. CASE UNCHANGED vars
  BY <1>4, <1>1 DEF vars, store_vars
<1>5. ASSUME NEW n \in Nodes, BrokersHeed(n) PROVE Config' = Config
  BY <1>5, <1>1 DEF BrokersHeed
<1> QED
  BY <1>1, <1>2, <1>3, <1>4, <1>5, AskFits, OtherStepFits DEF Next, Step

LEMMA InitRefines == Init => Store!StoreInit
<1> SUFFICES ASSUME Init PROVE Store!StoreInit  OBVIOUS
<1>1. \A n \in Nodes : store[n].map \in Store!Maps
  BY InitType DEF TypeOK
<1> QED
  BY <1>1 DEF Store!StoreInit

LEMMA InitFits == Init => WritesFit
BY DEF Init, WritesFit

\* However updates race, fail half-way or arrive after their caller is gone,
\* each is one atomic step on the map it finds: none is lost or half done
\* (UpdateTopicConfig, UpdateBrokerConfig, AddPartitions, updateConfig).
THEOREM ZkAdminImplementsStore == Spec => ImplementsStore
<1>1. Init => TypeOK /\ WritesFit /\ Store!StoreInit
  BY InitType, InitFits, InitRefines
<1>2. TypeOK /\ WritesFit /\ [Next]_vars => TypeOK' /\ WritesFit'
  BY NextType, NextFits
<1>3. TypeOK /\ WritesFit /\ [Next]_vars =>
         [Store!StoreNext]_([n \in Nodes |-> store[n].map])
  BY StepRefines DEF Store!StoreNext, Config
<1> QED
  BY <1>1, <1>2, <1>3, PTL DEF Spec, ImplementsStore, Store!StoreSpec

-----------------------------------------------------------------------------
(***************************************************************************)
(* The lock.                                                               *)
(***************************************************************************)
Alive(p) == pc[p] \notin Gone /\ p \notin lost

\* tickets are numbered in order, a live process that asked has its ticket in
\* the queue, and one that has the lock has the lowest
LockInv ==
    /\ \A t \in tickets : t.no < serial
    /\ \A t, u \in tickets : t.no = u.no => t = u
    /\ serial > 0
    /\ \A p \in Procs : call[p].ticket < serial
    /\ \A p \in Procs : Alive(p) /\ call[p].ticket # 0 => Ticket(p) \in tickets
    /\ \A p \in Procs : pc[p] = "lock" => call[p].ticket # 0
    /\ \A p \in Procs : Alive(p) /\ Holds(p) => LowerTickets(p) = {}

\* what every step but a new lock request does to the queue
LockMove ==
    /\ tickets' \subseteq tickets /\ serial' = serial
    /\ \A p \in Procs :
          /\ Alive(p)' => Alive(p)
          /\ call'[p].ticket \in {call[p].ticket, 0}
          /\ Alive(p)' /\ call'[p].ticket # 0 /\ Ticket(p) \in tickets
                => Ticket(p) \in tickets'
          /\ pc'[p] = "lock" => pc[p] = "lock" /\ call'[p].ticket = call[p].ticket
          /\ Holds(p)' => Holds(p) \/ LowerTickets(p) = {}

LEMMA LockMovePreserves ==
    ASSUME TypeOK, LockInv, LockMove PROVE LockInv'
<1>1. \A p \in Procs : call[p].ticket \in Nat
  BY DEF TypeOK, CallType
<1>2. serial \in Nat
  BY DEF TypeOK
<1>3. ASSUME NEW p \in Procs, Alive(p)', call'[p].ticket # 0
      PROVE  Ticket(p)' \in tickets'
  BY <1>3 DEF LockInv, LockMove, Ticket
<1>4. ASSUME NEW p \in Procs, Alive(p)', Holds(p)' PROVE LowerTickets(p)' = {}
  <2>1. call'[p].ticket = call[p].ticket
    BY <1>4 DEF LockMove, Holds
  <2>2. LowerTickets(p) = {}
    BY <1>4 DEF LockInv, LockMove
  <2> QED
    BY <2>1, <2>2 DEF LowerTickets, LockMove
<1>5. ASSUME NEW p \in Procs PROVE call'[p].ticket < serial'
  BY <1>1, <1>2 DEF LockInv, LockMove
<1>6. ASSUME NEW p \in Procs, pc'[p] = "lock" PROVE call'[p].ticket # 0
  BY <1>6 DEF LockInv, LockMove
<1> QED
  BY <1>3, <1>4, <1>5, <1>6 DEF LockInv, LockMove

LEMMA AcquirePreserves ==
    ASSUME TypeOK, LockInv, NEW p \in Procs, AcquireLock(p) PROVE LockInv'
<1> DEFINE new == [by |-> p, no |-> serial]
<1>1. /\ tickets' = tickets \cup {new} /\ serial' = serial + 1 /\ serial \in Nat
      /\ \A q \in Procs \ {p} : call'[q] = call[q] /\ pc'[q] = pc[q]
      /\ call'[p].ticket = serial /\ pc'[p] = "lock" /\ lost' = lost
      /\ \A q \in Procs : call[q].ticket \in Nat
      /\ \A t \in tickets : t.no \in Nat
  BY DEF AcquireLock, Goto, TypeOK, CallType
<1>2. \A t \in tickets' : t.no < serial'
  BY <1>1 DEF LockInv
<1>3. \A t, u \in tickets' : t.no = u.no => t = u
  BY <1>1 DEF LockInv
<1>4. \A q \in Procs : call'[q].ticket < serial'
  BY <1>1 DEF LockInv
<1>5. ASSUME NEW q \in Procs, Alive(q)', call'[q].ticket # 0
      PROVE  Ticket(q)' \in tickets'
  <2>1. CASE q = p
    BY <2>1, <1>1 DEF Ticket
  <2>2. CASE q # p
    BY <2>2, <1>1, <1>5 DEF Ticket, LockInv, Alive
  <2> QED  BY <2>1, <2>2
<1>6. ASSUME NEW q \in Procs, Alive(q)', Holds(q)' PROVE LowerTickets(q)' = {}
  <2>1. q # p
    BY <1>1, <1>6 DEF Holds
  <2>2. Alive(q) /\ Holds(q)
    BY <2>1, <1>1, <1>6 DEF Alive, Holds
  <2>3. LowerTickets(q) = {} /\ call[q].ticket < serial
    BY <2>2 DEF LockInv
  <2> QED
    BY <2>1, <2>3, <1>1 DEF LowerTickets
<1>7. \A q \in Procs : pc'[q] = "lock" => call'[q].ticket # 0
  BY <1>1 DEF LockInv
<1> QED
  BY <1>1, <1>2, <1>3, <1>4, <1>5, <1>6, <1>7 DEF LockInv

\* a step of p that leaves the queue and the tickets of calls alone
Unqueued(p) ==
    /\ UNCHANGED <<tickets, serial, lost>>
    /\ pc' = [pc EXCEPT ![p] = pc'[p]]
    /\ pc[p] \notin Gone \cup {"lock"} /\ pc'[p] # "lock"
    /\ \A q \in Procs : call'[q].ticket = call[q].ticket

LEMMA UnqueuedMove ==
    ASSUME TypeOK, NEW p \in Procs, Unqueued(p) PROVE LockMove
BY DEF LockMove, Unqueued, Alive, Holds, Ticket, TypeOK

LEMMA ReturnUnqueued ==
    ASSUME TypeOK, NEW p \in Procs, Return(p)
    PROVE  /\ pc' = [pc EXCEPT ![p] = pc'[p]] /\ pc'[p] = "idle"
           /\ \A q \in Procs : call'[q].ticket = call[q].ticket
BY DEF Return, Goto, TypeOK, CallType

LEMMA UpdateStepMove ==
    ASSUME TypeOK, NEW p \in Procs, UpdateStep(p) PROVE LockMove
<1> USE DEF Keep, lock_vars
<1>1. pc[p] \in Updates /\ pc[p] \notin Gone \cup {"lock"}
  BY DEF UpdateStep, ExistsRoot, CreateRoot, ExistsNode, CreateNode, Get, Set,
         Notify, Updates, Writes, Gone
<1>2. CASE ExistsRoot(p) \/ ExistsNode(p)
  BY <1>2, <1>1, UnqueuedMove DEF ExistsRoot, ExistsNode, Goto, Unqueued, TypeOK
<1>3. CASE CreateRoot(p) \/ CreateNode(p)
  BY <1>3, <1>1, UnqueuedMove, ReturnUnqueued
  DEF CreateRoot, CreateNode, Goto, Unqueued, TypeOK
<1>4. CASE Get(p)
  <2>1. CASE Return(p)
    BY <2>1, <1>4, <1>1, UnqueuedMove, ReturnUnqueued DEF Get, Unqueued
  <2>2. CASE ~Return(p)
    <3>1. \A q \in Procs : call'[q].ticket = call[q].ticket
      BY <2>2, <1>4 DEF Get, TypeOK, CallType
    <3> QED
      BY <3>1, <2>2, <1>4, <1>1, UnqueuedMove DEF Get, Goto, Unqueued, TypeOK
  <2> QED  BY <2>1, <2>2
<1>5. CASE Set(p)
  BY <1>5, <1>1, UnqueuedMove, ReturnUnqueued DEF Set, Goto, Unqueued, TypeOK
<1>6. CASE Notify(p)
  BY <1>6, <1>1, UnqueuedMove, ReturnUnqueued DEF Notify, Unqueued
<1> QED
  BY <1>2, <1>3, <1>4, <1>5, <1>6 DEF UpdateStep

LEMMA BeginMove ==
    ASSUME TypeOK, NEW p \in Procs, NEW r, NEW mine, NEW label \in {"root", "get"},
           Begin(p, label, r, mine)
    PROVE  LockMove
<1>1. \A q \in Procs : call'[q].ticket = call[q].ticket
  BY DEF Begin, TypeOK, CallType
<1> QED
  BY <1>1, UnqueuedMove DEF Begin, Goto, Unqueued, TypeOK, lock_vars, Gone

\* a step that ends calls, and with them sessions, or gives the lock back
LEMMA OtherStepMove ==
    ASSUME TypeOK, LockInv, NEW p \in Procs,
           \/ Granted(p) \/ LockTimeout(p) \/ Unlock(p) \/ Close(p)
           \/ Interrupt(p) \/ CallFails(p) \/ Crash(p)
           \/ SessionExpires(p) \/ SessionLost(p)
    PROVE  LockMove
<1> USE DEF Keep, lock_vars, LockMove, Alive, Holds, Ticket, TypeOK, CallType
<1>1. CASE Granted(p)
  <2>1. /\ pc' = [pc EXCEPT ![p] = "idle"] /\ UNCHANGED <<tickets, serial, lost, call>>
        /\ pc[p] = "lock" /\ LowerTickets(p) = {}
    BY <1>1 DEF Granted, Goto
  <2> HIDE DEF TypeOK, CallType
  <2>4. pc \in [Procs -> {"idle", "stopped", "lock"} \cup Updates \cup Gone]
        /\ \A q \in Procs : call[q].ticket \in Nat
    BY DEF TypeOK, CallType
  <2> QED
    BY <2>1, <2>4 DEF Gone
<1>2. CASE LockTimeout(p)
  <2>1. /\ pc' = [pc EXCEPT ![p] = "idle"] /\ UNCHANGED <<tickets, serial, lost>>
        /\ pc[p] = "lock"
    BY <1>2 DEF LockTimeout, Goto
  <2>2. \A q \in Procs \ {p} : call'[q].ticket = call[q].ticket
    BY <1>2 DEF LockTimeout
  <2>3. call'[p].ticket = 0
    BY <1>2 DEF LockTimeout
  <2> HIDE DEF TypeOK, CallType
  <2>4. pc \in [Procs -> {"idle", "stopped", "lock"} \cup Updates \cup Gone]
        /\ \A q \in Procs : call[q].ticket \in Nat
    BY DEF TypeOK, CallType
  <2> QED
    BY <2>1, <2>2, <2>3, <2>4 DEF Gone
<1>3. CASE Unlock(p)
  BY <1>3 DEF Unlock
<1>4. CASE Close(p)
  BY <1>4 DEF Close, Goto, EndSession, Gone
<1>5. CASE Interrupt(p)
  <2>1. /\ pc' = [pc EXCEPT ![p] = "stopped"] /\ UNCHANGED <<tickets, serial, lost>>
        /\ pc[p] \notin Gone
    BY <1>5 DEF Interrupt, Goto, Updates, Writes, Gone
  <2>2. \A q \in Procs \ {p} : call'[q].ticket = call[q].ticket
    BY <1>5 DEF Interrupt
  <2>3. call'[p].ticket = IF pc[p] = "lock" THEN 0 ELSE call[p].ticket
    BY <1>5 DEF Interrupt, NoCall
  <2> HIDE DEF TypeOK, CallType
  <2>4. pc \in [Procs -> {"idle", "stopped", "lock"} \cup Updates \cup Gone]
        /\ \A q \in Procs : call[q].ticket \in Nat
    BY DEF TypeOK, CallType
  <2> QED
    BY <2>1, <2>2, <2>3, <2>4 DEF Gone
<1>6. CASE CallFails(p)
  BY <1>6, UnqueuedMove, ReturnUnqueued DEF CallFails, Unqueued, Updates, Writes, Gone
<1>7. CASE Crash(p)
  <2>1. pc' = [pc EXCEPT ![p] = "dead"] /\ UNCHANGED <<tickets, serial, lost>>
    BY <1>7 DEF Crash, Goto
  <2>2. \A q \in Procs \ {p} : call'[q].ticket = call[q].ticket
    BY <1>7 DEF Crash
  <2>3. call'[p].ticket = 0
    BY <1>7 DEF Crash, NoCall
  <2> HIDE DEF TypeOK, CallType
  <2>4. pc \in [Procs -> {"idle", "stopped", "lock"} \cup Updates \cup Gone]
        /\ \A q \in Procs : call[q].ticket \in Nat
    BY DEF TypeOK, CallType
  <2> QED
    BY <2>1, <2>2, <2>3, <2>4 DEF Gone
<1>8. CASE SessionExpires(p)
  BY <1>8 DEF SessionExpires, EndSession, Gone
<1>9. CASE SessionLost(p)
  BY <1>9 DEF SessionLost, EndSession
<1> QED
  BY <1>1, <1>2, <1>3, <1>4, <1>5, <1>6, <1>7, <1>8, <1>9

LEMMA NextLock == TypeOK /\ LockInv /\ [Next]_vars => LockInv'
<1> SUFFICES ASSUME TypeOK, LockInv, [Next]_vars PROVE LockInv'  OBVIOUS
<1>1. ASSUME UNCHANGED <<tickets, serial, lost, pc, call>> PROVE LockMove
  BY <1>1 DEF LockMove, Alive, Holds, Ticket
<1>2. ASSUME NEW p \in Procs, Ask(p) PROVE LockInv'
  BY <1>2, AcquirePreserves, BeginMove, LockMovePreserves
  DEF Ask, UpdateBrokerConfig, UpdateTopicConfig, AddPartitions, Release
<1>3. ASSUME NEW p \in Procs, Step(p) PROVE LockInv'
  BY <1>3, UpdateStepMove, OtherStepMove, LockMovePreserves DEF Step
<1>4. ASSUME NEW w \in late, LateWrite(w) PROVE LockInv'
  BY <1>4, <1>1, LockMovePreserves DEF LateWrite, lock_vars
<1>5. ASSUME NEW n \in Nodes, BrokersHeed(n) PROVE LockInv'
  BY <1>5, <1>1, LockMovePreserves DEF BrokersHeed, lock_vars
<1>6. CASE UNCHANGED vars
  BY <1>6, <1>1, LockMovePreserves DEF vars, lock_vars
<1> QED
  BY <1>2, <1>3, <1>4, <1>5, <1>6, OtherStepMove, LockMovePreserves DEF Next

LEMMA LockInvExclusive == TypeOK /\ LockInv => HoldersExclusive
<1> SUFFICES ASSUME TypeOK, LockInv, NEW p \in Procs, NEW q \in Procs, Holds(p),
                    Holds(q), p \notin lost, q \notin lost
             PROVE  p = q
  BY DEF HoldersExclusive
<1>1. Alive(p) /\ Alive(q)
  BY DEF Alive, Holds
<1>2. Ticket(p) \in tickets /\ Ticket(q) \in tickets
  BY <1>1 DEF LockInv, Holds
<1>3. LowerTickets(p) = {} /\ LowerTickets(q) = {}
  BY <1>1 DEF LockInv
<1>4. call[p].ticket \in Nat /\ call[q].ticket \in Nat
  BY DEF TypeOK, CallType
<1>5. call[p].ticket = call[q].ticket
  BY <1>2, <1>3, <1>4 DEF LowerTickets, Ticket
<1> QED
  BY <1>2, <1>5 DEF LockInv, Ticket

\* At most one process that still has its session thinks it has the lock,
\* though requests that timed out stay in the queue (AcquireLock, Close).
THEOREM ZkLockSafety == Spec => []HoldersExclusive
<1>1. Init => TypeOK /\ LockInv
  BY InitType DEF Init, LockInv, NoCall, Holds, Ticket
<1>2. TypeOK /\ LockInv /\ [Next]_vars => TypeOK' /\ LockInv'
  BY NextType, NextLock
<1>3. TypeOK /\ LockInv => HoldersExclusive
  BY LockInvExclusive
<1> QED
  BY <1>1, <1>2, <1>3, PTL DEF Spec

-----------------------------------------------------------------------------
(***************************************************************************)
(* Notifications.                                                          *)
(***************************************************************************)
Telling(n) == \E p \in Procs : pc[p] = "notify" /\ call[p].req.node = n

\* a step that writes no node and loses no notice of one
QuietMove ==
    /\ heeded' = heeded
    /\ \A n \in Nodes : store'[n].version = store[n].version
    /\ notices \subseteq notices' /\ broken \subseteq broken'
    /\ \A n \in Nodes : Telling(n) => Telling(n)' \/ n \in notices' \cup broken'

\* Such a step leaves no node silent.
LEMMA QuietMoveKeeps ==
    ASSUME SilentOnlyBroken, QuietMove
    PROVE  SilentOnlyBroken'
BY DEF SilentOnlyBroken, QuietMove, Telling, Nodes

\* A step of a process that is not at its notification takes none away.
LEMMA ElsewhereTells ==
    ASSUME NEW p \in Procs, pc[p] # "notify",
           \A q \in Procs : q # p => pc'[q] = pc[q] /\ call'[q] = call[q]
    PROVE  \A n : Telling(n) => Telling(n)'
BY DEF Telling

\* The versioned write: the call goes on to tell the brokers, where they listen.
LEMMA SetTells ==
    ASSUME TypeOK, SilentOnlyBroken, NEW p \in Procs, Set(p)
    PROVE  SilentOnlyBroken'
<1> DEFINE n == call[p].req.node
<1>1. n \in Nodes
  BY RequestType DEF TypeOK, CallType, IsRequest
<1>2. /\ pc[p] = "set" /\ heeded' = heeded /\ notices' = notices
      /\ \A q \in Procs : q # p => pc'[q] = pc[q] /\ call'[q] = call[q]
  BY DEF Set, Return, Goto, TypeOK, Keep
<1>3. \A m : Telling(m) => Telling(m)'
  BY <1>2, ElsewhereTells
<1>4. CASE store' = store /\ broken' = broken
  BY <1>2, <1>3, <1>4, QuietMoveKeeps DEF QuietMove
<1>5. CASE /\ store' = SetTo(n, call[p].map) /\ broken' = broken \ {n}
           /\ IF Notifies(call[p].req) THEN Goto(p, "notify") /\ UNCHANGED call ELSE Return(p)
  <2>1. \A m \in Nodes : m # n => store'[m] = store[m]
    BY <1>1, <1>5 DEF SetTo, TypeOK
  <2>2. n \notin PartNodes => pc'[p] = "notify" /\ call'[p].req.node = n
    BY <1>5 DEF Notifies, Goto, TypeOK
  <2>3. n \in PartNodes => n \notin BrokerNodes \cup TopicNodes
    BY NodesAssumption
  <2>4. ASSUME NEW m \in BrokerNodes \cup TopicNodes, heeded'[m] # store'[m].version
        PROVE  m \in notices' \cup broken' \/ Telling(m)'
    <3>1. CASE m = n
      BY <2>2, <2>3, <2>4, <3>1 DEF Telling
    <3>2. CASE m # n
      <4>1. m \in Nodes
        BY <2>4 DEF Nodes
      <4>2. m \in notices \cup broken \/ Telling(m)
        BY <1>2, <2>1, <2>4, <3>2, <4>1 DEF SilentOnlyBroken, Telling
      <4> QED BY <1>2, <1>3, <1>5, <3>2, <4>2
    <3> QED BY <3>1, <3>2
  <2> QED BY <2>4 DEF SilentOnlyBroken, Telling
<1> QED BY <1>4, <1>5 DEF Set

\* Creating a node leaves versions and maps as they are.
LEMMA CreatedKeeps ==
    ASSUME TypeOK, NEW n
    PROVE  \A m \in Nodes : /\ Created(n)[m].version = store[m].version
                            /\ Created(n)[m].map = store[m].map
<1> SUFFICES ASSUME NEW m \in Nodes
             PROVE  /\ Created(n)[m].version = store[m].version
                    /\ Created(n)[m].map = store[m].map
  OBVIOUS
<1>1. store[m] \in NodeType
  BY DEF TypeOK, NodeType
<1>2. CASE m = n
  <2>1. Created(n)[m] = [store[m] EXCEPT !.exists = TRUE]
    BY <1>2 DEF Created, TypeOK
  <2> QED BY <2>1, <1>1 DEF NodeType
<1>3. CASE m # n
  BY <1>3 DEF Created, TypeOK
<1> QED BY <1>2, <1>3

\* Each request of an update: a call leaves its notification only by making it.
LEMMA UpdateStepTells ==
    ASSUME TypeOK, SilentOnlyBroken, NEW p \in Procs, UpdateStep(p)
    PROVE  SilentOnlyBroken'
<1> USE DEF Keep, store_vars
<1>1. CASE Set(p)
  BY <1>1, SetTells
<1>2. CASE Notify(p)
  <2>1. /\ pc[p] = "notify" /\ notices' = notices \cup {call[p].req.node}
        /\ heeded' = heeded /\ store' = store /\ broken' = broken
        /\ \A q \in Procs : q # p => pc'[q] = pc[q] /\ call'[q] = call[q]
    BY <1>2 DEF Notify, Return, Goto, TypeOK
  <2>2. \A n \in Nodes : Telling(n) => Telling(n)' \/ n \in notices'
    BY <2>1 DEF Telling
  <2> QED BY <2>1, <2>2, QuietMoveKeeps DEF QuietMove
<1>3. CASE ExistsRoot(p) \/ CreateRoot(p) \/ ExistsNode(p) \/ Get(p)
  <2>1. /\ pc[p] # "notify" /\ notices' = notices
        /\ heeded' = heeded /\ store' = store /\ broken' = broken
        /\ \A q \in Procs : q # p => pc'[q] = pc[q] /\ call'[q] = call[q]
    BY <1>3 DEF ExistsRoot, CreateRoot, ExistsNode, Get, Return, Goto, TypeOK
  <2>2. \A n : Telling(n) => Telling(n)'
    BY <2>1, ElsewhereTells
  <2> QED BY <2>1, <2>2, QuietMoveKeeps DEF QuietMove
<1>4. CASE CreateNode(p)
  <2>1. /\ pc[p] # "notify" /\ notices' = notices
        /\ heeded' = heeded /\ broken' = broken
        /\ \A q \in Procs : q # p => pc'[q] = pc[q] /\ call'[q] = call[q]
    BY <1>4 DEF CreateNode, Return, Goto, TypeOK
  <2>2. \A n : Telling(n) => Telling(n)'
    BY <2>1, ElsewhereTells
  <2>3. \A n \in Nodes : store'[n].version = store[n].version
    <3>1. CASE store' = store
      BY <3>1
    <3>2. CASE store' = Created(call[p].req.node)
      BY <3>2, CreatedKeeps
    <3> QED BY <1>4, <3>1, <3>2 DEF CreateNode
  <2> QED BY <2>1, <2>2, <2>3, QuietMoveKeeps DEF QuietMove
<1> QED BY <1>1, <1>2, <1>3, <1>4 DEF UpdateStep

\* Asking, locking, giving up, dying: a call cut off before its notification
\* leaves its node broken.
LEMMA OtherStepTells ==
    ASSUME TypeOK, SilentOnlyBroken, NEW p \in Procs,
           \/ Ask(p) \/ Granted(p) \/ LockTimeout(p) \/ Unlock(p) \/ Close(p)
           \/ Interrupt(p) \/ CallFails(p) \/ Crash(p)
           \/ SessionExpires(p) \/ SessionLost(p)
    PROVE  SilentOnlyBroken'
<1> USE DEF Keep, store_vars
<1>1. CASE Ask(p) \/ Granted(p) \/ LockTimeout(p) \/ Unlock(p) \/ Close(p)
  <2>1. /\ pc[p] # "notify" /\ UNCHANGED <<notices, heeded, store, broken>>
        /\ \A q \in Procs : q # p => pc'[q] = pc[q] /\ call'[q] = call[q]
    <3>1. CASE Ask(p)
      BY <3>1 DEF Ask, UpdateBrokerConfig, UpdateTopicConfig, AddPartitions, Release,
                  Begin, AcquireLock, Goto, TypeOK
    <3>2. CASE Granted(p) \/ LockTimeout(p) \/ Unlock(p) \/ Close(p)
      BY <3>2 DEF Granted, LockTimeout, Unlock, Close, Goto, TypeOK
    <3> QED BY <1>1, <3>1, <3>2
  <2>2. \A n : Telling(n) => Telling(n)'
    BY <2>1, ElsewhereTells
  <2> QED BY <2>1, <2>2, QuietMoveKeeps DEF QuietMove
<1>2. CASE Interrupt(p) \/ CallFails(p) \/ Crash(p)
  <2>1. /\ UNCHANGED <<notices, heeded, store>> /\ Abandon(p)
        /\ \A q \in Procs : q # p => pc'[q] = pc[q] /\ call'[q] = call[q]
    BY <1>2 DEF Interrupt, CallFails, Crash, Return, Goto, TypeOK
  <2>2. \A n \in Nodes : Telling(n) => Telling(n)' \/ n \in broken'
    BY <2>1 DEF Telling, Abandon
  <2>3. broken \subseteq broken'
    BY <2>1 DEF Abandon
  <2> QED BY <2>1, <2>2, <2>3, QuietMoveKeeps DEF QuietMove
<1>3. CASE SessionExpires(p) \/ SessionLost(p)
  <2>1. UNCHANGED <<notices, heeded, store, broken, pc, call>>
    BY <1>3 DEF SessionExpires, SessionLost
  <2> QED BY <2>1, QuietMoveKeeps DEF QuietMove, Telling
<1> QED BY <1>1, <1>2, <1>3

\* A late write leaves its node broken; the others change no version.
LEMMA LateWriteTells ==
    ASSUME TypeOK, SilentOnlyBroken, NEW w \in late, LateWrite(w)
    PROVE  SilentOnlyBroken'
<1> DEFINE n == w.call.req.node
<1>1. n \in Nodes /\ UNCHANGED <<heeded, pc, call>>
  BY RequestType DEF TypeOK, CallType, IsRequest, LateWrite
<1>2. \A m : Telling(m)' = Telling(m)
  BY <1>1 DEF Telling
<1>3. CASE store' = SetTo(n, w.call.map) /\ broken' = broken \cup {n} /\ notices' = notices
  <2>1. \A m \in Nodes : m # n => store'[m] = store[m]
    BY <1>1, <1>3 DEF SetTo, TypeOK
  <2> QED BY <1>1, <1>2, <1>3, <2>1 DEF SilentOnlyBroken, Telling, Nodes
<1>4. CASE store' \in {store, Created(n)} /\ broken' = broken /\ notices \subseteq notices'
  <2>1. \A m \in Nodes : store'[m].version = store[m].version
    BY <1>4, CreatedKeeps
  <2> QED BY <1>1, <1>2, <1>4, <2>1, QuietMoveKeeps DEF QuietMove
<1> QED BY <1>3, <1>4 DEF LateWrite

\* A value that the brokers do not act on and are not told about is left only
\* by a call that broke off after its write (updateConfig, zkclient.go:502-530).
THEOREM ZkNotifies == Spec => []SilentOnlyBroken
<1>1. Init => TypeOK /\ SilentOnlyBroken
  <2> SUFFICES ASSUME Init PROVE TypeOK /\ SilentOnlyBroken
    OBVIOUS
  <2>1. \A n \in Nodes : store[n].version = 0 /\ heeded[n] = 0
    BY InitialAssumption DEF Init
  <2> QED BY <2>1, InitType DEF SilentOnlyBroken, Nodes
<1>2. TypeOK /\ SilentOnlyBroken /\ [Next]_vars => TypeOK' /\ SilentOnlyBroken'
  <2> SUFFICES ASSUME TypeOK, SilentOnlyBroken, [Next]_vars PROVE SilentOnlyBroken'
    BY NextType
  <2>1. ASSUME NEW p \in Procs, Step(p) PROVE SilentOnlyBroken'
    BY <2>1, UpdateStepTells, OtherStepTells DEF Step
  <2>2. ASSUME NEW n \in Nodes, BrokersHeed(n) PROVE SilentOnlyBroken'
    <3>1. UNCHANGED <<store, pc, call, broken>>
      BY <2>2 DEF BrokersHeed
    <3>2. \A m \in Nodes : m # n => heeded'[m] = heeded[m] /\ (m \in notices' <=> m \in notices)
      BY <2>2 DEF BrokersHeed, TypeOK
    <3>3. heeded'[n] = store'[n].version
      BY <2>2 DEF BrokersHeed, TypeOK
    <3> QED BY <3>1, <3>2, <3>3 DEF SilentOnlyBroken, Nodes
  <2>3. CASE UNCHANGED vars
    BY <2>3 DEF vars, store_vars, SilentOnlyBroken
  <2> QED BY <2>1, <2>2, <2>3, OtherStepTells, LateWriteTells DEF Next
<1> QED BY <1>1, <1>2, PTL DEF Spec

-----------------------------------------------------------------------------
(***************************************************************************)
(* Own keys.  A broker's throttle is claimed by the process that owns keys *)
(* of it, by the call that has just set some, or by the call or the late   *)
(* write that will remove it.                                              *)
(***************************************************************************)
Live(c, s) == c.version = s[c.req.node].version

\* the nodes whose throttle an update removes
Removes(c) ==
    {n \in Nodes : /\ n = c.req.node /\ c.req.overwrite
                   /\ \E k \in DOMAIN c.req.entries \cap Throttles : c.req.entries[k] = Unset}
WillRemove(p) ==
    \/ pc[p] \in {"root", "mkroot", "node", "mknode", "get"}
    \/ pc[p] = "set" /\ Live(call[p], store)
HasSet(p) == pc[p] = "notify" /\ ~call[p].req.overwrite

Owns(p) == {n \in Nodes : \E k \in Keys : <<n, k>> \in owned[p]}
InCall(p) ==
    {n \in Nodes : \/ WillRemove(p) /\ n \in Removes(call[p])
                   \/ HasSet(p) /\ n = call[p].req.node /\ call[p].keys # {}}
InLate(w) ==
    {n \in Nodes : w.write = "set" /\ Live(w.call, store) /\ n \in Removes(w.call)}
Mine(p) == Owns(p) \cup InCall(p)
IsSet(n) == \A k \in Throttles : store[n].map[k] # Unset

\* no two claim the same throttle
Apart ==
    /\ \A p \in Procs : Owns(p) \cap InCall(p) = {}
    /\ \A p, q \in Procs : p # q => Mine(p) \cap Mine(q) = {}
    /\ \A p \in Procs : \A w \in late : Mine(p) \cap InLate(w) = {}
    /\ \A v, w \in late : v # w => InLate(v) \cap InLate(w) = {}

\* a claimed throttle is set, in all its keys
Claimed ==
    /\ \A p \in Procs : \A n \in Mine(p) : IsSet(n)
    /\ \A w \in late : \A n \in InLate(w) : IsSet(n)

\* the keys that a process owns, or is about to, are throttle keys
OwnThrottles ==
    \A p \in Procs : /\ owned[p] \subseteq Nodes \X Throttles
                     /\ HasSet(p) => call[p].keys \subseteq Throttles

\* a write that is still current sets the keys that its call returns
KeysFit ==
    \A p \in Procs : pc[p] = "set" /\ Live(call[p], store) =>
        call[p].keys = Store!Touched(store[call[p].req.node].map, call[p].req)

ClaimsInv == TypeOK /\ WritesFit /\ KeysFit /\ Apart /\ Claimed /\ OwnThrottles

\* An update without overwrite sets all of a throttle; one that is asked for
\* removes none.
LEMMA ThrottleRequests ==
    ASSUME ThrottlesStay
    PROVE  /\ \A r \in AllRequests : ~r.overwrite /\ r.node \notin PartNodes =>
                 DOMAIN r.entries = Throttles /\ \A k \in Throttles : r.entries[k] # Unset
           /\ \A p \in Procs : \A c : c.req \in Requests[p] => Removes(c) = {}
<1>1. ASSUME NEW r \in AllRequests, ~r.overwrite, r.node \notin PartNodes
      PROVE  DOMAIN r.entries = Throttles /\ \A k \in Throttles : r.entries[k] # Unset
  <2>1. NoRequest.overwrite = TRUE /\ \A q \in Clearings : q.overwrite = TRUE
    BY DEF NoRequest, Clearings, Clears
  <2>2. PICK p \in Procs : r \in Requests[p]
    BY <1>1, <2>1 DEF AllRequests
  <2> QED BY <1>1, <2>2 DEF ThrottlesStay
<1>2. ASSUME NEW p \in Procs, NEW c, c.req \in Requests[p] PROVE Removes(c) = {}
  BY <1>2 DEF Removes, ThrottlesStay
<1> QED BY <1>1, <1>2

\* A write that is current after a step was so before, and finds the same map.
LEMMA LiveKept ==
    ASSUME TypeOK, NEW c \in CallType, Fits(c, store), NEW t, StoreMoves(store, t), Live(c, t)
    PROVE  Live(c, store) /\ t[c.req.node].map = store[c.req.node].map
<1>1. c.req.node \in Nodes /\ c.version \in Nat /\ store[c.req.node].version \in Nat
  BY RequestType DEF CallType, IsRequest, TypeOK
<1> QED BY <1>1 DEF Live, Fits, StoreMoves

\* What a step of p does to the claims: p may pass its claims on, to its next
\* state or to the write it leaves behind, and take throttles that are not all set.
ClaimMove(p, fresh) ==
    /\ \A q \in Procs \ {p} : Mine(q)' \subseteq Mine(q) /\ Owns(q)' \cap InCall(q)' = {}
    /\ Owns(p)' \cap InCall(p)' = {}
    /\ Mine(p)' \subseteq Mine(p) \cup fresh
    /\ \A w \in late' : \/ w \in late /\ InLate(w)' \subseteq InLate(w)
                        \/ /\ w \notin late
                           /\ InLate(w)' \subseteq Mine(p) /\ InLate(w)' \cap Mine(p)' = {}
    /\ \A v, w \in late' \ late : v = w
    /\ \A n \in fresh : ~IsSet(n)

\* Then no two claim the same throttle after it.
LEMMA MoveKeepsApart ==
    ASSUME Apart, Claimed, NEW p \in Procs, NEW fresh, ClaimMove(p, fresh)
    PROVE  Apart'
<1>1. \A q \in Procs : fresh \cap Mine(q) = {}
  BY DEF Claimed, ClaimMove
<1>2. \A w \in late : fresh \cap InLate(w) = {}
  BY DEF Claimed, ClaimMove
<1>3. \A q \in Procs : Owns(q)' \cap InCall(q)' = {}
  BY DEF ClaimMove
<1>4. ASSUME NEW q \in Procs, NEW s \in Procs, q # s PROVE Mine(q)' \cap Mine(s)' = {}
  <2>1. CASE q = p
    BY <1>1, <1>4, <2>1 DEF ClaimMove, Apart
  <2>2. CASE s = p
    BY <1>1, <1>4, <2>2 DEF ClaimMove, Apart
  <2>3. CASE q # p /\ s # p
    BY <1>4, <2>3 DEF ClaimMove, Apart
  <2> QED BY <2>1, <2>2, <2>3
<1>5. ASSUME NEW q \in Procs, NEW w \in late' PROVE Mine(q)' \cap InLate(w)' = {}
  <2>1. CASE w \in late /\ InLate(w)' \subseteq InLate(w)
    <3>1. CASE q = p
      BY <1>2, <2>1, <3>1 DEF ClaimMove, Apart
    <3>2. CASE q # p
      BY <2>1, <3>2 DEF ClaimMove, Apart
    <3> QED BY <3>1, <3>2
  <2>2. CASE InLate(w)' \subseteq Mine(p) /\ InLate(w)' \cap Mine(p)' = {}
    BY <2>2 DEF ClaimMove, Apart
  <2> QED BY <2>1, <2>2 DEF ClaimMove
<1>6. ASSUME NEW v \in late', NEW w \in late', v # w PROVE InLate(v)' \cap InLate(w)' = {}
  <2> DEFINE Kept(x) == x \in late /\ InLate(x)' \subseteq InLate(x)
             Left(x) == x \notin late /\ InLate(x)' \subseteq Mine(p)
  <2>1. (Kept(v) \/ Left(v)) /\ (Kept(w) \/ Left(w))
    BY DEF ClaimMove
  <2>2. CASE Kept(v) /\ Kept(w)
    BY <1>6, <2>2 DEF Apart
  <2>3. CASE Kept(v) /\ Left(w)
    BY <2>3 DEF Apart
  <2>4. CASE Left(v) /\ Kept(w)
    BY <2>4 DEF Apart
  <2>5. CASE Left(v) /\ Left(w)
    BY <1>6, <2>5 DEF ClaimMove
  <2> QED BY <2>1, <2>2, <2>3, <2>4, <2>5
<1> QED BY <1>3, <1>4, <1>5, <1>6 DEF Apart

\* a step that writes no value
SameStore ==
    \A n \in Nodes : store'[n].version = store[n].version /\ store'[n].map = store[n].map

\* a step of p in which it claims no more than before
QuietStepOf(p) ==
    /\ SameStore
    /\ \A q \in Procs \ {p} : pc'[q] = pc[q] /\ call'[q] = call[q] /\ owned'[q] = owned[q]
    /\ \A w \in late' : \/ w \in late
                        \/ /\ w = [by |-> p, write |-> pc[p], call |-> call[p]]
                           /\ Mine(p)' \subseteq Owns(p)
    /\ Mine(p)' \subseteq Mine(p) /\ Owns(p)' \cap InCall(p)' = {}
    /\ owned'[p] \subseteq Nodes \X Throttles
    /\ HasSet(p)' => HasSet(p) /\ call'[p] = call[p]
    /\ pc'[p] = "set" => \/ pc[p] = "set" /\ call'[p] = call[p]
                         \/ call'[p].keys =
                              Store!Touched(store[call'[p].req.node].map, call'[p].req)

\* Such a step keeps the claims apart, and what is claimed stays set.
LEMMA QuietClaims ==
    ASSUME ClaimsInv, TypeOK', NEW p \in Procs, QuietStepOf(p)
    PROVE  Apart' /\ Claimed' /\ KeysFit' /\ OwnThrottles'
<1> USE DEF QuietStepOf, ClaimsInv
<1>1. ASSUME NEW c \in CallType
      PROVE  /\ c.req.node \in Nodes /\ (Live(c, store') <=> Live(c, store))
             /\ store'[c.req.node].map = store[c.req.node].map
  BY RequestType DEF SameStore, Live, CallType, IsRequest
<1>2. \A q \in Procs : call[q] \in CallType /\ call'[q] \in CallType
  BY DEF TypeOK
<1>3. ASSUME NEW q \in Procs, q # p PROVE InCall(q)' = InCall(q) /\ Mine(q)' = Mine(q)
  <2>1. pc'[q] = pc[q] /\ call'[q] = call[q] /\ owned'[q] = owned[q]
    BY <1>3
  <2>2. WillRemove(q)' <=> WillRemove(q)
    BY <1>1, <1>2, <2>1 DEF WillRemove
  <2>3. HasSet(q)' <=> HasSet(q)
    BY <2>1 DEF HasSet
  <2>4. Removes(call[q])' = Removes(call[q])
    BY <2>1 DEF Removes
  <2>5. InCall(q)' = InCall(q)
    BY <2>1, <2>2, <2>3, <2>4 DEF InCall
  <2> QED BY <2>1, <2>5 DEF Mine, Owns
<1>4. ASSUME NEW w \in late PROVE InLate(w)' = InLate(w)
  <2>1. w.call \in CallType
    BY DEF TypeOK
  <2> QED BY <1>1, <2>1 DEF InLate
<1>5. ASSUME NEW w \in late', w \notin late
      PROVE  InLate(w)' \subseteq InCall(p) /\ InLate(w)' \cap Mine(p)' = {}
  <2>1. w.write = pc[p] /\ w.call = call[p] /\ Mine(p)' \subseteq Owns(p)
    BY <1>5
  <2>2. InLate(w)' \subseteq InCall(p)
    BY <1>1, <1>2, <2>1 DEF InLate, InCall, WillRemove
  <2> QED BY <2>1, <2>2 DEF Apart
<1>6. ClaimMove(p, {})
  <2>1. \A w \in late' : \/ w \in late /\ InLate(w)' \subseteq InLate(w)
                         \/ /\ w \notin late
                            /\ InLate(w)' \subseteq Mine(p) /\ InLate(w)' \cap Mine(p)' = {}
    BY <1>4, <1>5 DEF Mine
  <2>2. \A q \in Procs \ {p} : Mine(q)' \subseteq Mine(q) /\ Owns(q)' \cap InCall(q)' = {}
    BY <1>3 DEF Apart, Owns
  <2> QED BY <2>1, <2>2 DEF ClaimMove
<1>7. Apart'
  BY <1>6, MoveKeepsApart
<1>8. Claimed'
  <2>1. \A n \in Nodes : IsSet(n)' <=> IsSet(n)
    BY DEF IsSet, SameStore
  <2>2. ASSUME NEW q \in Procs, NEW n \in Mine(q)' PROVE IsSet(n)'
    <3>1. n \in Mine(q) /\ n \in Nodes
      BY <1>3, <2>2 DEF Mine, Owns, InCall
    <3> QED BY <2>1, <3>1 DEF Claimed
  <2>3. ASSUME NEW w \in late', NEW n \in InLate(w)' PROVE IsSet(n)'
    <3>1. n \in Nodes
      BY <2>3 DEF InLate
    <3>2. (w \in late /\ n \in InLate(w)) \/ n \in Mine(p)
      BY <1>4, <1>5, <2>3 DEF Mine
    <3> QED BY <2>1, <3>1, <3>2 DEF Claimed
  <2> QED BY <2>2, <2>3 DEF Claimed
<1>9. KeysFit'
  <2> SUFFICES ASSUME NEW q \in Procs, pc'[q] = "set", Live(call'[q], store')
               PROVE  call'[q].keys =
                        Store!Touched(store'[call'[q].req.node].map, call'[q].req)
    BY DEF KeysFit
  <2>1. Live(call'[q], store) /\ store'[call'[q].req.node].map = store[call'[q].req.node].map
    BY <1>1, <1>2
  <2>2. CASE pc[q] = "set" /\ call'[q] = call[q]
    BY <2>1, <2>2 DEF KeysFit
  <2>3. CASE q = p /\ call'[p].keys = Store!Touched(store[call'[p].req.node].map, call'[p].req)
    BY <2>1, <2>3
  <2> QED BY <2>2, <2>3
<1>10. OwnThrottles'
  <2> SUFFICES ASSUME NEW q \in Procs
               PROVE  /\ owned'[q] \subseteq Nodes \X Throttles
                      /\ HasSet(q)' => call'[q].keys \subseteq Throttles
    BY DEF OwnThrottles
  <2>1. CASE q = p
    BY <2>1 DEF OwnThrottles
  <2>2. CASE q # p
    BY <2>2 DEF OwnThrottles, HasSet
  <2> QED BY <2>1, <2>2
<1> QED BY <1>7, <1>8, <1>9, <1>10

\* Each step of p that writes no value is quiet.
LEMMA AskClaims ==
    ASSUME ThrottlesStay, ClaimsInv, NEW p \in Procs, Ask(p)
    PROVE  QuietStepOf(p)
<1> USE DEF ClaimsInv
<1>1. ASSUME NEW r \in AllRequests, NEW mine, NEW label \in {"root", "get"},
             Begin(p, label, r, mine), mine \subseteq owned[p],
             \A c : c.req = r => Removes(c) \subseteq {n \in Owns(p) : ({n} \X Keys) \cap mine = {}}
      PROVE  QuietStepOf(p)
  <2>1. /\ pc[p] = "idle" /\ pc' = [pc EXCEPT ![p] = label] /\ late' = late /\ store' = store
        /\ call' = [call EXCEPT ![p].req = r] /\ owned' = [owned EXCEPT ![p] = mine]
    BY <1>1 DEF Begin, Goto, store_vars
  <2>2. /\ \A q \in Procs \ {p} : pc'[q] = pc[q] /\ call'[q] = call[q] /\ owned'[q] = owned[q]
        /\ pc'[p] = label /\ call'[p].req = r /\ owned'[p] = mine
    BY <2>1 DEF TypeOK, CallType
  <2>3. Owns(p)' \subseteq Owns(p)
    BY <1>1, <2>2 DEF Owns
  <2>4. InCall(p)' \subseteq Owns(p) /\ Owns(p)' \cap InCall(p)' = {}
    <3>1. InCall(p)' \subseteq Removes(call'[p])
      BY <1>1, <2>2 DEF InCall, HasSet
    <3>2. InCall(p)' \subseteq {n \in Owns(p) : ({n} \X Keys) \cap mine = {}}
      BY <1>1, <2>2, <3>1
    <3> QED BY <2>2, <3>2 DEF Owns
  <2>5. mine \subseteq Nodes \X Throttles
    BY <1>1 DEF OwnThrottles
  <2> QED BY <1>1, <2>1, <2>2, <2>3, <2>4, <2>5 DEF QuietStepOf, SameStore, Mine, HasSet
<1>2. ASSUME NEW r \in Requests[p], NEW label \in {"root", "get"}, Begin(p, label, r, owned[p])
      PROVE  QuietStepOf(p)
  <2>1. r \in AllRequests
    BY DEF AllRequests
  <2>2. \A c : c.req = r => Removes(c) = {}
    BY ThrottleRequests
  <2> QED BY <1>1, <1>2, <2>1, <2>2
<1>3. ASSUME NEW n \in BrokerNodes, Release(p, n) PROVE QuietStepOf(p)
  <2> DEFINE rest == owned[p] \ ({n} \X Keys)
  <2>1. Begin(p, "root", Clears(n, Throttles), rest) /\ n \in Owns(p)
    BY <1>3 DEF Release, Owns, Nodes
  <2>2. Clears(n, Throttles) \in AllRequests
    BY ClearsRequest
  <2>3. ASSUME NEW c, c.req = Clears(n, Throttles)
        PROVE  Removes(c) \subseteq {m \in Owns(p) : ({m} \X Keys) \cap rest = {}}
    BY <2>1, <2>3 DEF Removes, Clears
  <2>4. rest \subseteq owned[p]
    OBVIOUS
  <2> HIDE DEF rest
  <2> QED BY <1>1, <2>1, <2>2, <2>3, <2>4
<1>4. CASE AcquireLock(p)
  <2>1. /\ pc[p] = "idle" /\ pc'[p] = "lock" /\ late' = late /\ store' = store /\ owned' = owned
        /\ \A q \in Procs \ {p} : pc'[q] = pc[q] /\ call'[q] = call[q]
    BY <1>4 DEF AcquireLock, Goto, TypeOK, store_vars
  <2>2. InCall(p)' = {} /\ ~HasSet(p)'
    BY <2>1 DEF InCall, WillRemove, HasSet
  <2> QED BY <2>1, <2>2 DEF QuietStepOf, SameStore, Mine, Owns, OwnThrottles
<1> QED BY <1>2, <1>3, <1>4 DEF Ask, UpdateBrokerConfig, UpdateTopicConfig, AddPartitions

\* A call that returns has no claim.
LEMMA ReturnClaims ==
    ASSUME TypeOK, OwnThrottles, NEW p \in Procs, Return(p), UNCHANGED <<owned, late>>, SameStore
    PROVE  QuietStepOf(p)
<1>1. /\ pc'[p] = "idle" /\ owned' = owned
      /\ \A q \in Procs \ {p} : pc'[q] = pc[q] /\ call'[q] = call[q]
  BY DEF Return, Goto, TypeOK
<1>2. InCall(p)' = {} /\ ~HasSet(p)'
  BY <1>1 DEF InCall, WillRemove, HasSet
<1> QED BY <1>1, <1>2 DEF QuietStepOf, Mine, Owns, OwnThrottles

\* A call that goes on to its next request keeps its claim.
LEMMA GoOnClaims ==
    ASSUME ClaimsInv, NEW p \in Procs, pc[p] \in {"root", "mkroot", "node", "mknode"},
           NEW label \in {"mkroot", "node", "mknode", "get"}, Goto(p, label),
           UNCHANGED <<owned, late, call>>, SameStore
    PROVE  QuietStepOf(p)
<1>1. /\ pc'[p] = label /\ \A q \in Procs \ {p} : pc'[q] = pc[q]
  BY DEF Goto, TypeOK, ClaimsInv
<1>2. InCall(p)' = InCall(p)
  <2>1. WillRemove(p) /\ WillRemove(p)' /\ ~HasSet(p) /\ ~HasSet(p)'
    BY <1>1 DEF WillRemove, HasSet
  <2>2. Removes(call[p])' = Removes(call[p])
    BY DEF Removes
  <2> QED BY <2>1, <2>2 DEF InCall
<1>3. ~HasSet(p)'
  BY <1>1 DEF HasSet
<1> QED BY <1>1, <1>2, <1>3 DEF QuietStepOf, Mine, Owns, ClaimsInv, Apart, OwnThrottles

\* A read: what the call will set if its write is accepted is fixed now.
LEMMA GetClaims ==
    ASSUME ClaimsInv, NEW p \in Procs, Get(p)
    PROVE  QuietStepOf(p)
<1> USE DEF Keep, store_vars, ClaimsInv
<1> DEFINE r == call[p].req
           s == store[r.node]
<1>1. SameStore /\ UNCHANGED <<owned, late>>
  BY DEF Get, SameStore
<1>2. CASE Return(p)
  BY <1>1, <1>2, ReturnClaims
<1>3. CASE ~Return(p)
  <2>1. /\ pc[p] = "get" /\ pc'[p] = "set" /\ call'[p].req = call[p].req
        /\ call'[p].keys = Store!Touched(s.map, r)
        /\ \A q \in Procs \ {p} : pc'[q] = pc[q] /\ call'[q] = call[q]
    BY <1>3 DEF Get, Goto, TypeOK, CallType
  <2>2. InCall(p)' \subseteq InCall(p)
    <3>1. WillRemove(p) /\ ~HasSet(p)'
      BY <2>1 DEF WillRemove, HasSet
    <3>2. Removes(call[p])' = Removes(call[p])
      BY <2>1 DEF Removes
    <3> QED BY <3>1, <3>2 DEF InCall
  <2> QED BY <1>1, <2>1, <2>2 DEF QuietStepOf, Mine, Owns, Apart, OwnThrottles, HasSet
<1> QED BY <1>2, <1>3

\* The notification: the process owns what its call has set.
LEMMA NotifyClaims ==
    ASSUME ClaimsInv, NEW p \in Procs, Notify(p)
    PROVE  QuietStepOf(p)
<1> USE DEF Keep, ClaimsInv
<1>1. /\ pc[p] = "notify" /\ pc'[p] = "idle" /\ store' = store /\ late' = late
      /\ \A q \in Procs \ {p} : pc'[q] = pc[q] /\ call'[q] = call[q] /\ owned'[q] = owned[q]
  BY DEF Notify, Return, Goto, TypeOK
<1>2. InCall(p)' = {} /\ ~HasSet(p)'
  BY <1>1 DEF InCall, WillRemove, HasSet
<1>3. call[p].req.node \in Nodes /\ call[p].keys \subseteq Keys
  BY RequestType DEF TypeOK, CallType, IsRequest
<1>4. Owns(p)' \subseteq Mine(p) /\ owned'[p] \subseteq Nodes \X Throttles
  <2>1. CASE call[p].req.overwrite
    <3>1. owned'[p] = owned[p]
      BY <2>1 DEF Notify, TypeOK
    <3> QED BY <3>1 DEF Owns, Mine, OwnThrottles
  <2>2. CASE ~call[p].req.overwrite
    <3>1. owned'[p] = owned[p] \cup ({call[p].req.node} \X call[p].keys)
      BY <2>2 DEF Notify, TypeOK
    <3>2. call[p].keys # {} => call[p].req.node \in InCall(p)
      BY <1>1, <1>3, <2>2 DEF InCall, HasSet
    <3>3. call[p].keys \subseteq Throttles
      BY <1>1, <2>2 DEF OwnThrottles, HasSet
    <3>4. Owns(p)' \subseteq Mine(p)
      BY <3>1, <3>2 DEF Owns, Mine
    <3>5. owned'[p] \subseteq Nodes \X Throttles
      BY <1>3, <3>1, <3>3 DEF OwnThrottles
    <3> QED BY <3>4, <3>5
  <2> QED BY <2>1, <2>2
<1> QED BY <1>1, <1>2, <1>4 DEF QuietStepOf, SameStore, Mine

\* Taking locks, giving up, dying: a call that ends in the middle leaves its
\* claim to its late write, or drops it.
LEMMA OtherStepClaims ==
    ASSUME ClaimsInv, NEW p \in Procs,
           \/ Granted(p) \/ LockTimeout(p) \/ Unlock(p) \/ Close(p)
           \/ Interrupt(p) \/ CallFails(p) \/ Crash(p)
           \/ SessionExpires(p) \/ SessionLost(p)
    PROVE  QuietStepOf(p)
<1> USE DEF Keep, store_vars, ClaimsInv
<1>1. CASE Granted(p) \/ LockTimeout(p) \/ Unlock(p) \/ Close(p)
  <2>1. /\ UNCHANGED <<store, owned>> /\ late' \subseteq late
        /\ pc'[p] \in {"idle", "stopped", "closed"}
        /\ \A q \in Procs \ {p} : pc'[q] = pc[q] /\ call'[q] = call[q]
    <3>1. CASE Granted(p) \/ LockTimeout(p)
      BY <3>1 DEF Granted, LockTimeout, Goto, TypeOK
    <3>2. CASE Unlock(p)
      BY <3>2 DEF Unlock, TypeOK
    <3>3. CASE Close(p)
      BY <3>3 DEF Close, Goto, EndSession, TypeOK
    <3> QED BY <1>1, <3>1, <3>2, <3>3
  <2>2. InCall(p)' = {} /\ ~HasSet(p)'
    BY <2>1 DEF InCall, WillRemove, HasSet
  <2> QED BY <2>1, <2>2 DEF QuietStepOf, SameStore, Mine, Owns, OwnThrottles
<1>2. CASE Interrupt(p) \/ CallFails(p) \/ Crash(p)
  <2>1. /\ store' = store /\ Abandon(p) /\ owned'[p] \subseteq owned[p]
        /\ pc'[p] \in {"idle", "stopped", "dead"}
        /\ \A q \in Procs \ {p} : pc'[q] = pc[q] /\ call'[q] = call[q] /\ owned'[q] = owned[q]
    <3>1. CASE Interrupt(p)
      BY <3>1 DEF Interrupt, Goto, TypeOK
    <3>2. CASE CallFails(p)
      BY <3>2 DEF CallFails, Return, Goto, TypeOK
    <3>3. CASE Crash(p)
      BY <3>3 DEF Crash, Goto, TypeOK
    <3> QED BY <1>2, <3>1, <3>2, <3>3
  <2>2. InCall(p)' = {} /\ ~HasSet(p)'
    BY <2>1 DEF InCall, WillRemove, HasSet
  <2>3. \A w \in late' : w \in late \/ w = [by |-> p, write |-> pc[p], call |-> call[p]]
    BY <2>1 DEF Abandon
  <2>4. Owns(p)' \subseteq Owns(p) /\ owned'[p] \subseteq Nodes \X Throttles
    BY <2>1 DEF Owns, OwnThrottles
  <2> QED BY <2>1, <2>2, <2>3, <2>4 DEF QuietStepOf, SameStore, Mine
<1>3. CASE SessionExpires(p) \/ SessionLost(p)
  <2>1. UNCHANGED <<store, owned, pc, call>> /\ late' \subseteq late
    BY <1>3 DEF SessionExpires, SessionLost, EndSession
  <2>2. InCall(p)' = InCall(p)
    BY <2>1 DEF InCall, WillRemove, HasSet, Removes, Live
  <2>3. HasSet(p)' => HasSet(p)
    BY <2>1 DEF HasSet
  <2> QED BY <2>1, <2>2, <2>3 DEF QuietStepOf, SameStore, Mine, Owns, Apart, OwnThrottles
<1> QED BY <1>1, <1>2, <1>3

\* A step that gives maps new versions only takes claims away from who stays
\* where it is: a write that was current may no longer be so.
LEMMA ClaimsShrink ==
    ASSUME TypeOK, WritesFit, StoreMoves(store, store')
    PROVE  /\ \A q \in Procs : pc'[q] = pc[q] /\ call'[q] = call[q] => InCall(q)' \subseteq InCall(q)
           /\ \A w \in late : InLate(w)' \subseteq InLate(w)
<1>1. ASSUME NEW q \in Procs, pc'[q] = pc[q], call'[q] = call[q]
      PROVE  InCall(q)' \subseteq InCall(q)
  <2>1. call[q] \in CallType /\ (pc[q] = "set" => Fits(call[q], store))
    BY DEF TypeOK, WritesFit
  <2>2. pc[q] = "set" /\ Live(call[q], store') => Live(call[q], store)
    BY <2>1, LiveKept
  <2>3. WillRemove(q)' => WillRemove(q)
    BY <1>1, <2>2 DEF WillRemove
  <2>4. HasSet(q)' <=> HasSet(q)
    BY <1>1 DEF HasSet
  <2>5. Removes(call[q])' = Removes(call[q])
    BY <1>1 DEF Removes
  <2> QED BY <1>1, <2>3, <2>4, <2>5 DEF InCall
<1>2. ASSUME NEW w \in late PROVE InLate(w)' \subseteq InLate(w)
  <2>1. w.call \in CallType /\ (w.write = "set" => Fits(w.call, store))
    BY DEF TypeOK, WritesFit
  <2>2. w.write = "set" /\ Live(w.call, store') => Live(w.call, store)
    BY <2>1, LiveKept
  <2> QED BY <2>2 DEF InLate
<1> QED BY <1>1, <1>2

\* A current write leaves the throttles set, but one that it removes.
LEMMA Overwritten ==
    ASSUME TypeOK, NEW c \in CallType, Fits(c, store), Live(c, store),
           store' = SetTo(c.req.node, c.map),
           NEW n \in Nodes, IsSet(n), n \notin Removes(c)
    PROVE  IsSet(n)'
<1> DEFINE m == c.req.node
           now == store[m]
<1>1. m \in Nodes
  BY RequestType DEF CallType, IsRequest
<1>2. store'[m].map = c.map /\ (n # m => store'[n] = store[n])
  BY <1>1 DEF SetTo, TypeOK
<1>3. c.map = Store!Updated(now.map, c.req)
  BY DEF Fits, Live
<1>4. CASE n # m
  BY <1>2, <1>4 DEF IsSet
<1>5. CASE n = m
  <2> SUFFICES ASSUME NEW k \in Throttles PROVE c.map[k] # Unset
    BY <1>2, <1>5 DEF IsSet
  <2>1. k \in Keys /\ now.map[k] # Unset
    BY <1>5, KeysAssumption DEF IsSet
  <2>2. c.map[k] = IF k \in Store!Touched(now.map, c.req) THEN c.req.entries[k] ELSE now.map[k]
    BY <1>3, <2>1 DEF Store!Updated
  <2>3. CASE k \in Store!Touched(now.map, c.req)
    <3>1. c.req.overwrite /\ k \in DOMAIN c.req.entries
      BY <2>1, <2>3 DEF Store!Touched
    <3>2. c.req.entries[k] # Unset
      BY <1>5, <3>1 DEF Removes
    <3> QED BY <2>2, <2>3, <3>2
  <2> QED BY <2>1, <2>2, <2>3
<1> QED BY <1>4, <1>5

\* A current write, of p's call or a late one: it keeps the claims apart when
\* nobody still claims what it removes, and p gets a throttle that it completes.
LEMMA WriteKeepsClaims ==
    ASSUME ClaimsInv, NEW c \in CallType, Fits(c, store), Live(c, store),
           store' = SetTo(c.req.node, c.map), NEW p \in Procs, NEW fresh,
           \A q \in Procs \ {p} : pc'[q] = pc[q] /\ call'[q] = call[q],
           owned' = owned, late' \subseteq late,
           pc'[p] # "set" \/ (pc'[p] = pc[p] /\ call'[p] = call[p]),
           InCall(p)' \subseteq InCall(p) \cup fresh, Owns(p) \cap InCall(p)' = {},
           HasSet(p)' => call'[p].keys \subseteq Throttles,
           \A n \in fresh : ~IsSet(n) /\ IsSet(n)',
           \A n \in Removes(c) : /\ \A q \in Procs : n \notin Mine(q)'
                                 /\ \A w \in late' : n \notin InLate(w)'
    PROVE  Apart' /\ Claimed' /\ KeysFit' /\ OwnThrottles'
<1> USE DEF ClaimsInv
<1>1. c.req.node \in Nodes
  BY RequestType DEF CallType, IsRequest
<1>2. StoreMoves(store, store')
  BY <1>1, StoreMovesFacts
<1>3. \A q \in Procs \ {p} : InCall(q)' \subseteq InCall(q) /\ Mine(q)' \subseteq Mine(q)
  BY <1>2, ClaimsShrink DEF Mine, Owns
<1>4. \A w \in late : InLate(w)' \subseteq InLate(w)
  BY <1>2, ClaimsShrink
<1>5. Mine(p)' \subseteq Mine(p) \cup fresh /\ \A q \in Procs : Owns(q)' = Owns(q)
  BY DEF Mine, Owns
<1>6. ClaimMove(p, fresh)
  <2>1. \A q \in Procs \ {p} : Owns(q)' \cap InCall(q)' = {}
    BY <1>3, <1>5 DEF Apart
  <2>2. Owns(p)' \cap InCall(p)' = {}
    BY <1>5
  <2> QED BY <1>3, <1>4, <1>5, <2>1, <2>2 DEF ClaimMove
<1>7. Apart'
  BY <1>6, MoveKeepsApart
<1>8. Claimed'
  <2>1. ASSUME NEW n \in Nodes, IsSet(n), n \notin Removes(c) PROVE IsSet(n)'
    BY <2>1, Overwritten
  <2>2. ASSUME NEW q \in Procs, NEW n \in Mine(q)' PROVE IsSet(n)'
    <3>1. n \in Mine(q) \/ (q = p /\ n \in fresh)
      BY <1>3, <1>5, <2>2
    <3>2. CASE n \in Mine(q)
      <4>1. n \in Nodes /\ IsSet(n)
        BY <3>2 DEF Mine, Owns, InCall, Claimed
      <4> QED BY <2>1, <2>2, <4>1
    <3> QED BY <3>1, <3>2
  <2>3. ASSUME NEW w \in late', NEW n \in InLate(w)' PROVE IsSet(n)'
    <3>1. w \in late /\ n \in InLate(w)
      BY <1>4, <2>3
    <3>2. n \in Nodes /\ IsSet(n)
      BY <3>1 DEF InLate, Claimed
    <3> QED BY <2>1, <2>3, <3>2
  <2> QED BY <2>2, <2>3 DEF Claimed
<1>9. KeysFit'
  <2> SUFFICES ASSUME NEW q \in Procs, pc'[q] = "set", Live(call'[q], store')
               PROVE  call'[q].keys =
                        Store!Touched(store'[call'[q].req.node].map, call'[q].req)
    BY DEF KeysFit
  <2>1. pc[q] = "set" /\ call'[q] = call[q] /\ call[q] \in CallType
    BY DEF TypeOK
  <2>2. Live(call[q], store) /\ store'[call[q].req.node].map = store[call[q].req.node].map
    BY <1>2, <2>1, LiveKept DEF WritesFit
  <2> QED BY <2>1, <2>2 DEF KeysFit
<1>10. OwnThrottles'
  BY DEF OwnThrottles, HasSet
<1> QED BY <1>7, <1>8, <1>9, <1>10

\* An accepted write without overwrite that sets some throttle key found the
\* throttle incomplete, and completes it.
LEMMA NewThrottles ==
    ASSUME ThrottlesStay, NEW c \in CallType, ~c.req.overwrite, c.req.node \notin PartNodes, TypeOK,
           c.keys = Store!Touched(store[c.req.node].map, c.req), Fits(c, store), Live(c, store),
           store' = SetTo(c.req.node, c.map)
    PROVE  /\ c.keys \subseteq Throttles
           /\ \A n \in Nodes : n = c.req.node /\ c.keys # {} => ~IsSet(n) /\ IsSet(n)'
<1> DEFINE m == c.req.node
           now == store[m]
<1>1. m \in Nodes /\ c.req \in AllRequests
  BY RequestType DEF CallType, IsRequest
<1>2. DOMAIN c.req.entries = Throttles /\ \A k \in Throttles : c.req.entries[k] # Unset
  BY <1>1, ThrottleRequests
<1>3. c.keys = {k \in Throttles : now.map[k] = Unset}
  BY <1>2 DEF Store!Touched
<1>4. store'[m].map = c.map
  BY <1>1 DEF SetTo, TypeOK
<1>5. ASSUME NEW k \in Throttles PROVE c.map[k] # Unset
  <2>1. c.map = Store!Updated(now.map, c.req)
    BY DEF Fits, Live
  <2>2. c.map[k] = IF k \in c.keys THEN c.req.entries[k] ELSE now.map[k]
    BY <2>1, KeysAssumption DEF Store!Updated
  <2> QED BY <1>2, <1>3, <2>2
<1>6. ASSUME NEW n \in Nodes, n = m, c.keys # {} PROVE ~IsSet(n) /\ IsSet(n)'
  BY <1>3, <1>4, <1>5, <1>6 DEF IsSet
<1> QED BY <1>3, <1>6

\* The versioned write of a call: accepted, it takes what it set or gives up
\* what it removed; rejected, it has no claim.
LEMMA SetClaims ==
    ASSUME ThrottlesStay, ClaimsInv, TypeOK', NEW p \in Procs, Set(p)
    PROVE  Apart' /\ Claimed' /\ KeysFit' /\ OwnThrottles'
<1> USE DEF Keep, ClaimsInv
<1> DEFINE c == call[p]
           n == c.req.node
<1>1. /\ pc[p] = "set" /\ c \in CallType /\ n \in Nodes /\ UNCHANGED <<owned, late>>
      /\ DOMAIN c.req.entries \subseteq Keys
      /\ \A q \in Procs \ {p} : pc'[q] = pc[q] /\ call'[q] = call[q]
  BY RequestType DEF Set, Return, Goto, TypeOK, CallType, IsRequest
<1>2. CASE ~Live(c, store)
  <2>1. Return(p) /\ SameStore
    BY <1>2 DEF Set, Live, SameStore
  <2> QED BY <1>1, <2>1, ReturnClaims, QuietClaims
<1>3. CASE Live(c, store)
  <2>1. Fits(c, store) /\ c.keys = Store!Touched(store[n].map, c.req)
    BY <1>1, <1>3 DEF WritesFit, KeysFit
  <2>2. /\ store' = SetTo(n, c.map)
        /\ \/ pc'[p] = "notify" /\ call'[p] = call[p]
           \/ pc'[p] = "idle"
    BY <1>3 DEF Set, Live, Return, Goto, TypeOK
  <2>3. StoreMoves(store, store')
    BY <1>1, <2>2, StoreMovesFacts
  <2> DEFINE fresh == {m \in Nodes : m = n /\ ~c.req.overwrite /\ n \notin PartNodes /\ c.keys # {}}
  <2>4. \A m \in fresh : ~IsSet(m) /\ IsSet(m)'
    <3> SUFFICES ASSUME NEW m \in fresh PROVE ~IsSet(m) /\ IsSet(m)'
      OBVIOUS
    <3> QED BY <1>1, <1>3, <2>1, <2>2, NewThrottles
  <2>5. InCall(p)' \subseteq fresh
    <3>1. pc'[p] = "notify" => n \notin PartNodes
      BY <1>3 DEF Set, Live, Notifies, Return, Goto, TypeOK
    <3> QED BY <2>2, <3>1 DEF InCall, WillRemove, HasSet
  <2>6. Owns(p) \cap fresh = {}
    <3>1. \A m \in Owns(p) : IsSet(m)
      BY DEF Claimed, Mine
    <3> QED BY <2>4, <3>1
  <2>10. HasSet(p)' => call'[p].keys \subseteq Throttles
    <3>1. pc'[p] = "notify" => n \notin PartNodes
      BY <1>3 DEF Set, Live, Notifies, Return, Goto, TypeOK
    <3>2. ~c.req.overwrite /\ n \notin PartNodes => c.keys \subseteq Throttles
      BY <1>1, <1>3, <2>1, <2>2, NewThrottles
    <3> QED BY <2>2, <3>1, <3>2 DEF HasSet
  <2>7. ASSUME NEW o \in Removes(c)
        PROVE  /\ \A q \in Procs : o \notin Mine(q)'
               /\ \A w \in late' : o \notin InLate(w)'
    <3>1. o \in InCall(p)
      BY <1>1, <1>3 DEF InCall, WillRemove, Removes
    <3>2. c.req.overwrite
      BY DEF Removes
    <3>3. InCall(p)' = {}
      BY <2>5, <3>2
    <3>4. o \notin Mine(p)'
      BY <1>1, <3>1, <3>3 DEF Mine, Owns, Apart
    <3>5. \A q \in Procs \ {p} : Mine(q)' \subseteq Mine(q)
      BY <1>1, <2>3, ClaimsShrink DEF Mine, Owns
    <3>6. \A q \in Procs \ {p} : o \notin Mine(q)
      BY <3>1 DEF Apart, Mine
    <3>7. \A w \in late' : o \notin InLate(w)'
      BY <1>1, <2>3, <3>1, ClaimsShrink DEF Apart, Mine
    <3> QED BY <3>4, <3>5, <3>6, <3>7
  <2> HIDE DEF fresh
  <2>8. InCall(p)' \subseteq InCall(p) \cup fresh /\ Owns(p) \cap InCall(p)' = {}
    BY <2>5, <2>6
  <2>9. pc'[p] # "set"
    BY <2>2
  <2> QED BY <1>1, <1>3, <2>1, <2>2, <2>4, <2>7, <2>8, <2>9, <2>10, WriteKeepsClaims
<1> QED BY <1>2, <1>3

\* Each request of an update.
LEMMA UpdateStepClaims ==
    ASSUME ThrottlesStay, ClaimsInv, TypeOK', NEW p \in Procs, UpdateStep(p)
    PROVE  Apart' /\ Claimed' /\ KeysFit' /\ OwnThrottles'
<1> USE DEF Keep, store_vars
<1>1. CASE Set(p)
  BY <1>1, SetClaims
<1>2. CASE ExistsRoot(p) \/ CreateRoot(p)
  <2>1. UNCHANGED <<owned, late>> /\ SameStore /\ pc[p] \in {"root", "mkroot"}
    BY <1>2 DEF ExistsRoot, CreateRoot, SameStore
  <2>2. \/ Return(p)
        \/ UNCHANGED call /\ \E label \in {"mkroot", "node"} : Goto(p, label)
    BY <1>2 DEF ExistsRoot, CreateRoot
  <2>3. QuietStepOf(p)
    BY <2>1, <2>2, ReturnClaims, GoOnClaims DEF ClaimsInv
  <2> QED BY <2>3, QuietClaims
<1>3. CASE ExistsNode(p) \/ CreateNode(p)
  <2>1. UNCHANGED <<owned, late>> /\ pc[p] \in {"node", "mknode"}
    BY <1>3 DEF ExistsNode, CreateNode
  <2>2. \/ Return(p)
        \/ UNCHANGED call /\ \E label \in {"mknode", "get"} : Goto(p, label)
    BY <1>3 DEF ExistsNode, CreateNode
  <2>3. SameStore
    <3>1. store' = store \/ store' = Created(call[p].req.node)
      BY <1>3 DEF ExistsNode, CreateNode
    <3> QED BY <3>1, CreatedKeeps DEF SameStore, ClaimsInv
  <2>4. QuietStepOf(p)
    BY <2>1, <2>2, <2>3, ReturnClaims, GoOnClaims DEF ClaimsInv
  <2> QED BY <2>4, QuietClaims
<1>4. CASE Get(p) \/ Notify(p)
  BY <1>4, GetClaims, NotifyClaims, QuietClaims
<1> QED BY <1>1, <1>2, <1>3, <1>4 DEF UpdateStep

\* A write whose caller is gone.
LEMMA LateWriteClaims ==
    ASSUME ThrottlesStay, ClaimsInv, TypeOK', NEW w \in late, LateWrite(w)
    PROVE  Apart' /\ Claimed' /\ KeysFit' /\ OwnThrottles'
<1> USE DEF ClaimsInv
<1> DEFINE c == w.call
           n == c.req.node
           p == w.by
<1>1. /\ c \in CallType /\ n \in Nodes /\ p \in Procs /\ DOMAIN c.req.entries \subseteq Keys
      /\ UNCHANGED <<owned, pc, call>> /\ late' = late \ {w}
  BY RequestType DEF LateWrite, TypeOK, CallType, IsRequest
<1>2. CASE w.write = "set" /\ Live(c, store)
  <2>1. Fits(c, store) /\ store' = SetTo(n, c.map)
    BY <1>2 DEF WritesFit, LateWrite, Live
  <2>2. StoreMoves(store, store')
    BY <1>1, <2>1, StoreMovesFacts
  <2>3. \A q \in Procs : InCall(q)' \subseteq InCall(q) /\ Mine(q)' \subseteq Mine(q)
    BY <1>1, <2>2, ClaimsShrink DEF Mine, Owns
  <2>4. ASSUME NEW o \in Removes(c)
        PROVE  /\ \A q \in Procs : o \notin Mine(q)'
               /\ \A v \in late' : o \notin InLate(v)'
    <3>1. o \in InLate(w)
      BY <1>1, <1>2 DEF InLate, Removes
    <3>2. \A q \in Procs : o \notin Mine(q)
      BY <3>1 DEF Apart
    <3>3. \A v \in late' : v \in late /\ o \notin InLate(v)
      BY <1>1, <3>1 DEF Apart
    <3>4. \A v \in late : InLate(v)' \subseteq InLate(v)
      BY <2>2, ClaimsShrink
    <3> QED BY <2>3, <3>2, <3>3, <3>4
  <2>5. InCall(p)' \subseteq InCall(p) \cup {} /\ Owns(p) \cap InCall(p)' = {}
    BY <1>1, <2>3 DEF Apart
  <2>6. \A q \in Procs \ {p} : pc'[q] = pc[q] /\ call'[q] = call[q]
    BY <1>1
  <2>7. late' \subseteq late /\ owned' = owned /\ pc'[p] = pc[p] /\ call'[p] = call[p]
    BY <1>1
  <2>8. \A m \in {} : ~IsSet(m) /\ IsSet(m)'
    OBVIOUS
  <2>9. HasSet(p)' => call'[p].keys \subseteq Throttles
    BY <1>1 DEF HasSet, OwnThrottles
  <2> QED BY <1>1, <1>2, <2>1, <2>4, <2>5, <2>6, <2>7, <2>8, <2>9, WriteKeepsClaims
<1>3. CASE ~(w.write = "set" /\ Live(c, store))
  <2>1. SameStore
    <3>1. store' = store \/ store' = Created(n)
      BY <1>3 DEF LateWrite, Live
    <3> QED BY <3>1, CreatedKeeps DEF SameStore
  <2>2. StoreMoves(store, store')
    BY <2>1 DEF SameStore, StoreMoves
  <2>3. InCall(p)' \subseteq InCall(p)
    BY <1>1, <2>2, ClaimsShrink
  <2>4. QuietStepOf(p)
    BY <1>1, <2>1, <2>3 DEF QuietStepOf, Mine, Owns, Apart, HasSet, OwnThrottles
  <2> QED BY <1>1, <2>4, QuietClaims
<1> QED BY <1>2, <1>3

\* The brokers' reading changes no claim.
LEMMA NoStepClaims ==
    ASSUME ClaimsInv, UNCHANGED <<store, pc, call, owned, late>>
    PROVE  Apart' /\ Claimed' /\ KeysFit' /\ OwnThrottles'
<1>1. \A p \in Procs : InCall(p)' = InCall(p) /\ Mine(p)' = Mine(p)
  BY DEF InCall, Mine, Owns, WillRemove, HasSet, Removes, Live
<1>2. \A w \in late : InLate(w)' = InLate(w)
  BY DEF InLate, Live
<1>3. \A n : IsSet(n)' <=> IsSet(n)
  BY DEF IsSet
<1>4. Apart'
  BY <1>1, <1>2 DEF ClaimsInv, Apart, Owns
<1>5. Claimed'
  BY <1>1, <1>2, <1>3 DEF ClaimsInv, Claimed
<1>6. KeysFit' /\ OwnThrottles'
  BY DEF ClaimsInv, KeysFit, OwnThrottles, HasSet, Live
<1> QED BY <1>4, <1>5, <1>6

\* Every step keeps the claims.
LEMMA NextClaims == ThrottlesStay /\ ClaimsInv /\ [Next]_vars => ClaimsInv'
<1> SUFFICES ASSUME ThrottlesStay, ClaimsInv, [Next]_vars PROVE ClaimsInv'
  OBVIOUS
<1>1. TypeOK' /\ WritesFit'
  BY NextType, NextFits DEF ClaimsInv
<1>2. ASSUME NEW p \in Procs, QuietStepOf(p) PROVE Apart' /\ Claimed' /\ KeysFit' /\ OwnThrottles'
  BY <1>1, <1>2, QuietClaims
<1>3. ASSUME NEW p \in Procs, Step(p) PROVE Apart' /\ Claimed' /\ KeysFit' /\ OwnThrottles'
  BY <1>1, <1>2, <1>3, UpdateStepClaims, OtherStepClaims DEF Step
<1>4. ASSUME NEW p \in Procs, Ask(p) PROVE Apart' /\ Claimed' /\ KeysFit' /\ OwnThrottles'
  BY <1>2, <1>4, AskClaims
<1>5. ASSUME NEW p \in Procs,
             Interrupt(p) \/ CallFails(p) \/ Crash(p) \/ SessionExpires(p) \/ SessionLost(p)
      PROVE  Apart' /\ Claimed' /\ KeysFit' /\ OwnThrottles'
  BY <1>2, <1>5, OtherStepClaims
<1>6. ASSUME NEW w \in late, LateWrite(w) PROVE Apart' /\ Claimed' /\ KeysFit' /\ OwnThrottles'
  BY <1>1, <1>6, LateWriteClaims
<1>7. ASSUME UNCHANGED vars \/ \E n \in Nodes : BrokersHeed(n)
      PROVE  Apart' /\ Claimed' /\ KeysFit' /\ OwnThrottles'
  <2>1. UNCHANGED <<store, pc, call, owned, late>>
    BY <1>7 DEF vars, store_vars, BrokersHeed
  <2> QED BY <2>1, NoStepClaims
<1>8. Apart' /\ Claimed' /\ KeysFit' /\ OwnThrottles'
  BY <1>3, <1>4, <1>5, <1>6, <1>7 DEF Next
<1> QED BY <1>1, <1>8 DEF ClaimsInv

\* The keys a call without overwrite returned are set and are nobody else's:
\* the throttles that a run removes later are its own (zkclient.go:487-489,
\* apply.go:1340-1400).  For this it takes that no other update deletes them.
THEOREM ZkOwnKeys == ASSUME ThrottlesStay PROVE Spec => []OwnKeys
<1>1. Init => ClaimsInv
  <2> SUFFICES ASSUME Init PROVE ClaimsInv
    OBVIOUS
  <2>1. TypeOK /\ WritesFit
    BY InitType, InitFits
  <2>2. \A p \in Procs : pc[p] = "idle" /\ owned[p] = {} /\ InCall(p) = {} /\ Mine(p) = {}
    BY DEF Init, InCall, WillRemove, HasSet, Mine, Owns
  <2> QED BY <2>1, <2>2 DEF Init, ClaimsInv, KeysFit, Apart, Claimed, OwnThrottles, HasSet
<1>2. ClaimsInv /\ [Next]_vars => ClaimsInv'
  BY NextClaims
<1>3. ClaimsInv => OwnKeys
  <2> SUFFICES ASSUME ClaimsInv PROVE OwnKeys
    OBVIOUS
  <2>1. ASSUME NEW p \in Procs, NEW o \in owned[p]
        PROVE  o[1] \in Owns(p) /\ o[2] \in Throttles /\ o[1] \in Nodes
    BY <2>1, KeysAssumption DEF ClaimsInv, OwnThrottles, Owns
  <2>2. ASSUME NEW p \in Procs, NEW q \in Procs \ {p} PROVE owned[p] \cap owned[q] = {}
    BY <2>1, <2>2 DEF ClaimsInv, Apart, Mine
  <2>3. ASSUME NEW p \in Procs, NEW o \in owned[p] PROVE store[o[1]].map[o[2]] # Unset
    BY <2>1, <2>3 DEF ClaimsInv, Claimed, Mine, IsSet
  <2> QED BY <2>2, <2>3 DEF OwnKeys
<1> QED BY <1>1, <1>2, <1>3, PTL DEF Spec
=============================================================================
