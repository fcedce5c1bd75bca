------------------------------ MODULE ZkAdmin ------------------------------
(***************************************************************************)
(* The writing half of the ZooKeeper admin client: UpdateTopicConfig,      *)
(* UpdateBrokerConfig, AddPartitions, AcquireLock, Unlock and Close, by    *)
(* several processes on one ZooKeeper.  One step is one request to         *)
(* ZooKeeper.  A write runs in a goroutine of its own, so when its caller  *)
(* is interrupted it is still under way, and takes effect later or never.  *)
(***************************************************************************)
EXTENDS Integers, FiniteSets

CONSTANTS Procs,        \* running topicctl processes, one session each
          BrokerNodes,  \* broker configurations, which may not exist yet
          TopicNodes,   \* topic configurations
          PartNodes,    \* topic nodes with their partitions
          Keys, Values, Unset,
          Throttles,    \* the keys of a broker throttle
          Requests,     \* process -> the updates it asks for
          InitialStores,  \* the nodes before the processes start
          MaxOps,       \* bound: calls per process
          MaxFaults     \* bound: interruptions, deaths and lost sessions

Nodes == BrokerNodes \cup TopicNodes \cup PartNodes

VARIABLES rootExists,   \* the parent of the broker configurations
          store,        \* node -> exists, version, map
          notices,      \* nodes with a change notification not yet read
          heeded,       \* node -> the version the brokers act on
          tickets,      \* the children of the lock node
          serial,       \* the sequence number of the next child
          late,         \* writes whose caller is gone
          pc, call,     \* the request each process waits for, its locals
          owned,        \* the keys each process set and has yet to release
          ops, faults,  \* bounds
          broken,       \* history: nodes whose last update broke off
          lost          \* history: processes that lost their session

store_vars == <<rootExists, store, notices, heeded>>
lock_vars == <<tickets, serial>>
vars == <<store_vars, lock_vars, late, pc, call, owned, ops, faults,
          broken, lost>>

\* an update that deletes keys
Clears(n, ks) == [node |-> n, entries |-> [k \in ks |-> Unset],
                  overwrite |-> TRUE, fresh |-> FALSE]
NoRequest == Clears(CHOOSE n \in Nodes : TRUE, {})
Clearings == {Clears(n, Throttles) : n \in BrokerNodes}
AllRequests == {NoRequest} \cup Clearings \cup UNION {Requests[p] : p \in Procs}

Store == INSTANCE ConfigStore
           WITH config <- [n \in Nodes |-> store[n].map], Requests <- AllRequests

ASSUME NodesAssumption ==
    /\ Nodes # {}
    /\ BrokerNodes \cap TopicNodes = {}
    /\ BrokerNodes \cap PartNodes = {}
    /\ TopicNodes \cap PartNodes = {}
ASSUME KeysAssumption == Unset \notin Values /\ Throttles \subseteq Keys
ASSUME RequestsAssumption ==
    \A p \in Procs : \A r \in Requests[p] :
        /\ r = [node |-> r.node, entries |-> r.entries,
                overwrite |-> r.overwrite, fresh |-> r.fresh]
        /\ r.node \in Nodes
        /\ r.entries \in [DOMAIN r.entries -> Values \cup {Unset}]
        /\ DOMAIN r.entries \subseteq Keys
        /\ r.overwrite \in BOOLEAN
        /\ r.fresh = (r.node \in PartNodes)
ASSUME InitialAssumption ==
    /\ InitialStores \subseteq
          [Nodes -> [exists : BOOLEAN, version : {0}, map : Store!Maps]]
    /\ \A s \in InitialStores : \A n \in Nodes :
          s[n].exists \/ (n \in BrokerNodes /\ s[n].map = Store!Empty)
ASSUME BoundsAssumption == MaxOps \in Nat /\ MaxFaults \in Nat

NoCall == [req |-> NoRequest, keys |-> {}, version |-> 0, map |-> Store!Empty,
           ticket |-> 0]

Writes == {"mkroot", "mknode", "set", "notify"}
Updates == {"root", "node", "get"} \cup Writes
Gone == {"closed", "dead"}

-----------------------------------------------------------------------------
Init ==
    /\ rootExists \in BOOLEAN
    /\ store \in InitialStores
    /\ ~rootExists => \A n \in BrokerNodes : ~store[n].exists
    /\ notices = {} /\ heeded = [n \in Nodes |-> 0]
    /\ tickets = {} /\ serial = 1 /\ late = {}
    /\ pc = [p \in Procs |-> "idle"] /\ call = [p \in Procs |-> NoCall]
    /\ owned = [p \in Procs |-> {}]
    /\ ops = [p \in Procs |-> 0] /\ faults = 0
    /\ broken = {} /\ lost = {}

-----------------------------------------------------------------------------
(***************************************************************************)
(* Calls and their ends.  A process that holds the lock keeps its ticket   *)
(* between calls.                                                          *)
(***************************************************************************)
Goto(p, label) == pc' = [pc EXCEPT ![p] = label]

Return(p) ==
    /\ Goto(p, "idle")
    /\ call' = [call EXCEPT ![p] = [NoCall EXCEPT !.ticket = call[p].ticket]]

Begin(p, label, r, mine) ==
    /\ pc[p] = "idle"
    /\ ops[p] < MaxOps
    /\ ops' = [ops EXCEPT ![p] = @ + 1]
    /\ Goto(p, label)
    /\ call' = [call EXCEPT ![p].req = r]
    /\ owned' = [owned EXCEPT ![p] = mine]
    /\ UNCHANGED <<store_vars, lock_vars, late, faults, broken, lost>>

UpdateBrokerConfig(p, r) == r.node \in BrokerNodes /\ Begin(p, "root", r, owned[p])
UpdateTopicConfig(p, r) == r.node \in TopicNodes /\ Begin(p, "get", r, owned[p])
AddPartitions(p, r) == r.node \in PartNodes /\ Begin(p, "get", r, owned[p])

\* removing the throttle of a node in which this process set some key: every
\* throttle key goes, whoever set it
Release(p, n) ==
    /\ \E k \in Keys : <<n, k>> \in owned[p]
    /\ Begin(p, "root", Clears(n, Throttles), owned[p] \ ({n} \X Keys))

-----------------------------------------------------------------------------
(***************************************************************************)
(* The steps of an update.                                                 *)
(***************************************************************************)
Keep == UNCHANGED <<lock_vars, late, ops, faults, lost>>

ExistsRoot(p) ==
    /\ pc[p] = "root"
    /\ Goto(p, IF rootExists THEN "node" ELSE "mkroot")
    /\ Keep /\ UNCHANGED <<store_vars, call, owned, broken>>

CreateRoot(p) ==
    /\ pc[p] = "mkroot"
    /\ IF rootExists
       THEN Return(p) /\ UNCHANGED rootExists
       ELSE rootExists' = TRUE /\ Goto(p, "node") /\ UNCHANGED call
    /\ Keep /\ UNCHANGED <<store, notices, heeded, owned, broken>>

ExistsNode(p) ==
    /\ pc[p] = "node"
    /\ Goto(p, IF store[call[p].req.node].exists THEN "get" ELSE "mknode")
    /\ Keep /\ UNCHANGED <<store_vars, call, owned, broken>>

Created(n) == [store EXCEPT ![n].exists = TRUE]

CreateNode(p) ==
    LET n == call[p].req.node
    IN  /\ pc[p] = "mknode"
        /\ IF store[n].exists
           THEN Return(p) /\ UNCHANGED store
           ELSE store' = Created(n) /\ Goto(p, "get") /\ UNCHANGED call
        /\ Keep /\ UNCHANGED <<rootExists, notices, heeded, owned, broken>>

\* mutant of Get: every key of the request counts as set by this call
GetAllKeys(p) ==
    LET r == call[p].req
        s == store[r.node]
    IN  /\ pc[p] = "get"
        /\ IF Store!Allowed(s.map, r)
           THEN /\ Goto(p, "set")
                /\ call' = [call EXCEPT ![p].version = s.version,
                                        ![p].keys = DOMAIN r.entries,
                                        ![p].map = Store!Updated(s.map, r)]
           ELSE Return(p)
        /\ Keep /\ UNCHANGED <<store_vars, owned, broken>>

Get(p) ==
    LET r == call[p].req
        s == store[r.node]
    IN  /\ pc[p] = "get"
        /\ IF Store!Allowed(s.map, r)
           THEN /\ Goto(p, "set")
                /\ call' = [call EXCEPT ![p].version = s.version,
                                        ![p].keys = Store!Touched(s.map, r),
                                        ![p].map = Store!Updated(s.map, r)]
           ELSE Return(p)
        /\ Keep /\ UNCHANGED <<store_vars, owned, broken>>

SetTo(n, map) ==
    [store EXCEPT ![n] = [exists |-> TRUE, version |-> @.version + 1, map |-> map]]

\* mutant of Notifies: updates that skip set keys do not tell the brokers
NotifiesOverwrites(r) == r.node \notin PartNodes /\ r.overwrite

Notifies(r) == r.node \notin PartNodes

\* mutant of Set: the version is not checked
SetAnyway(p) ==
    LET n == call[p].req.node
    IN  /\ pc[p] = "set"
        /\ store' = SetTo(n, call[p].map)
        /\ IF Notifies(call[p].req)
           THEN Goto(p, "notify") /\ UNCHANGED call
           ELSE Return(p)
        /\ broken' = broken \ {n}
        /\ Keep /\ UNCHANGED <<rootExists, notices, heeded, owned>>

\* a versioned write: it fails when somebody wrote since the read
Set(p) ==
    LET n == call[p].req.node
    IN  /\ pc[p] = "set"
        /\ IF store[n].version # call[p].version
           THEN Return(p) /\ UNCHANGED <<store, broken>>
           ELSE /\ store' = SetTo(n, call[p].map)
                /\ IF Notifies(call[p].req)
                   THEN Goto(p, "notify") /\ UNCHANGED call
                   ELSE Return(p)
                /\ broken' = broken \ {n}
        /\ Keep /\ UNCHANGED <<rootExists, notices, heeded, owned>>

\* the caller learns which keys its update set: without overwrite these were
\* free, and are now its own
Notify(p) ==
    LET r == call[p].req
    IN  /\ pc[p] = "notify"
        /\ notices' = notices \cup {r.node}
        /\ owned' = [owned EXCEPT ![p] =
                       @ \cup (IF r.overwrite THEN {} ELSE {r.node} \X call[p].keys)]
        /\ Return(p)
        /\ Keep /\ UNCHANGED <<rootExists, store, heeded, broken>>

-----------------------------------------------------------------------------
(***************************************************************************)
(* The lock: each request creates a sequential child of the lock node; the *)
(* lowest child has the lock.  A request that times out leaves its child.  *)
(***************************************************************************)
Ticket(p) == [by |-> p, no |-> call[p].ticket]

AcquireLock(p) ==
    /\ pc[p] = "idle" /\ call[p].ticket = 0
    /\ ops[p] < MaxOps
    /\ ops' = [ops EXCEPT ![p] = @ + 1]
    /\ tickets' = tickets \cup {[by |-> p, no |-> serial]}
    /\ serial' = serial + 1
    /\ Goto(p, "lock")
    /\ call' = [call EXCEPT ![p].ticket = serial]
    /\ UNCHANGED <<store_vars, late, owned, faults, broken, lost>>

LowerTickets(p) == {t \in tickets : t.no < call[p].ticket}

Granted(p) ==
    /\ pc[p] = "lock"
    /\ LowerTickets(p) = {}
    /\ Goto(p, "idle")
    /\ Keep /\ UNCHANGED <<store_vars, call, owned, broken>>

\* mutant of LockTimeout: the lock of the failed request is used all the same
LockTimeoutHeld(p) ==
    /\ pc[p] = "lock"
    /\ LowerTickets(p) # {}
    /\ Goto(p, "idle")
    /\ Keep /\ UNCHANGED <<store_vars, call, owned, broken>>

\* the context of acquireClusterLock ends after 30 seconds
LockTimeout(p) ==
    /\ pc[p] = "lock"
    /\ LowerTickets(p) # {}
    /\ Goto(p, "idle")
    /\ call' = [call EXCEPT ![p].ticket = 0]
    /\ Keep /\ UNCHANGED <<store_vars, owned, broken>>

Unlock(p) ==
    /\ pc[p] \in {"idle", "stopped"} /\ call[p].ticket # 0
    /\ tickets' = tickets \ {Ticket(p)}
    /\ call' = [call EXCEPT ![p].ticket = 0]
    /\ UNCHANGED <<store_vars, serial, late, pc, owned, ops, faults,
                   broken, lost>>

\* mutant of EndSession: the lock nodes are not ephemeral
EndSessionKeepsLock(p) ==
    /\ UNCHANGED tickets
    /\ late' = {w \in late : w.by # p}

EndSession(p) ==
    /\ tickets' = {t \in tickets : t.by # p}
    /\ late' = {w \in late : w.by # p}

Close(p) ==
    /\ pc[p] \in {"idle", "stopped"} /\ call[p].ticket = 0
    /\ Goto(p, "closed")
    /\ EndSession(p)
    /\ UNCHANGED <<store_vars, serial, call, owned, ops, faults,
                   broken, lost>>

-----------------------------------------------------------------------------
(***************************************************************************)
(* Faults.  An interrupted call returns at once; the write it asked for is *)
(* left to its goroutine.                                                  *)
(***************************************************************************)
Fault == faults < MaxFaults /\ faults' = faults + 1

\* p is out of its call: its pending write lives on, and a value that was
\* written may stay without its notification
Abandon(p) ==
    /\ late' = late \cup
          (IF pc[p] \in Writes THEN {[by |-> p, write |-> pc[p], call |-> call[p]]}
           ELSE {})
    /\ broken' = broken \cup {n \in Nodes : pc[p] = "notify" /\ n = call[p].req.node}

Interrupt(p) ==
    /\ Fault
    /\ pc[p] \in Updates \cup {"lock"}
    /\ Abandon(p)
    /\ Goto(p, "stopped")
    /\ call' = [call EXCEPT ![p] =
                  [NoCall EXCEPT !.ticket = IF pc[p] = "lock" THEN 0
                                            ELSE call[p].ticket]]
    /\ owned' = [owned EXCEPT ![p] = {}]
    /\ UNCHANGED <<store_vars, lock_vars, ops, lost>>

\* the connection breaks: the call returns an error, its write may be done
CallFails(p) ==
    /\ Fault
    /\ pc[p] \in Updates
    /\ Abandon(p)
    /\ Return(p)
    /\ UNCHANGED <<store_vars, lock_vars, owned, ops, lost>>

\* the requests of a dead process may have reached the server before
Crash(p) ==
    /\ Fault
    /\ pc[p] \notin Gone
    /\ Abandon(p)
    /\ Goto(p, "dead")
    /\ call' = [call EXCEPT ![p] = NoCall]
    /\ owned' = [owned EXCEPT ![p] = {}]
    /\ UNCHANGED <<store_vars, lock_vars, ops, lost>>

\* ZooKeeper drops the session of a process that died ...
SessionExpires(p) ==
    /\ pc[p] = "dead"
    /\ \/ \E t \in tickets : t.by = p
       \/ \E w \in late : w.by = p
    /\ EndSession(p)
    /\ UNCHANGED <<store_vars, serial, pc, call, owned, ops, faults, broken, lost>>

\* ... or one that it could not reach for a while and that goes on
SessionLost(p) ==
    /\ Fault
    /\ pc[p] \notin Gone /\ \E t \in tickets : t.by = p
    /\ EndSession(p)
    /\ lost' = lost \cup {p}
    /\ UNCHANGED <<store_vars, serial, pc, call, owned, ops, broken>>

LateWrite(w) ==
    LET n == w.call.req.node
    IN  /\ w \in late
        /\ late' = late \ {w}
        /\ \/ /\ w.write = "mkroot" /\ rootExists' = TRUE
              /\ UNCHANGED <<store, notices, broken>>
           \/ /\ w.write = "mknode" /\ store' = Created(n)
              /\ UNCHANGED <<rootExists, notices, broken>>
           \/ /\ w.write = "set"
              /\ IF store[n].version = w.call.version
                 THEN store' = SetTo(n, w.call.map) /\ broken' = broken \cup {n}
                 ELSE UNCHANGED <<store, broken>>
              /\ UNCHANGED <<rootExists, notices>>
           \/ /\ w.write = "notify" /\ notices' = notices \cup {n}
              /\ UNCHANGED <<rootExists, store, broken>>
        /\ UNCHANGED <<heeded, lock_vars, pc, call, owned, ops, faults, lost>>

\* external: the brokers read a notification, then the value as it is now
BrokersHeed(n) ==
    /\ n \in notices
    /\ notices' = notices \ {n}
    /\ heeded' = [heeded EXCEPT ![n] = store[n].version]
    /\ UNCHANGED <<rootExists, store, lock_vars, late, pc, call, owned, ops,
                   faults, broken, lost>>

-----------------------------------------------------------------------------
UpdateStep(p) ==
    \/ ExistsRoot(p) \/ CreateRoot(p) \/ ExistsNode(p) \/ CreateNode(p)
    \/ Get(p) \/ Set(p) \/ Notify(p)

Ask(p) ==
    \/ \E r \in Requests[p] : \/ UpdateBrokerConfig(p, r)
                              \/ UpdateTopicConfig(p, r)
                              \/ AddPartitions(p, r)
    \/ \E n \in BrokerNodes : Release(p, n)
    \/ AcquireLock(p)

Step(p) == UpdateStep(p) \/ Granted(p) \/ LockTimeout(p) \/ Unlock(p) \/ Close(p)

Next ==
    \/ \E p \in Procs : \/ Ask(p) \/ Step(p) \/ SessionExpires(p)
                        \/ Interrupt(p) \/ CallFails(p) \/ Crash(p) \/ SessionLost(p)
    \/ \E w \in late : LateWrite(w)
    \/ \E n \in Nodes : BrokersHeed(n)

Spec == Init /\ [][Next]_vars

(***************************************************************************)
(* Processes go on, and in the end close their client (the commands defer  *)
(* Close); ZooKeeper drops dead sessions; brokers read notifications.      *)
(***************************************************************************)
Fairness ==
    /\ \A p \in Procs : /\ WF_vars(Step(p))
                        /\ WF_vars(SessionExpires(p))
    /\ \A n \in Nodes : WF_vars(BrokersHeed(n))

FairSpec == Spec /\ Fairness

-----------------------------------------------------------------------------
CallType == [req : AllRequests, keys : SUBSET Keys, version : Nat,
             map : Store!Maps, ticket : Nat]

\* Every variable has its type (the locals of zkclient.go:502-524).
TypeOK ==
    /\ rootExists \in BOOLEAN
    /\ store \in [Nodes -> [exists : BOOLEAN, version : Nat, map : Store!Maps]]
    /\ notices \subseteq Nodes /\ heeded \in [Nodes -> Nat]
    /\ tickets \subseteq [by : Procs, no : Nat] /\ serial \in Nat
    /\ late \subseteq [by : Procs, write : Writes, call : CallType]
    /\ pc \in [Procs -> {"idle", "stopped", "lock"} \cup Updates \cup Gone]
    /\ call \in [Procs -> CallType]
    /\ owned \in [Procs -> SUBSET (Nodes \X Keys)]
    /\ ops \in [Procs -> Nat] /\ faults \in Nat
    /\ broken \subseteq Nodes /\ lost \subseteq Procs

Holds(p) == pc[p] \notin Gone \cup {"lock"} /\ call[p].ticket # 0

\* Two callers have the lock at once only when one of them lost its session,
\* whatever requests timed out and stayed in the queue (client.go:324-342).
HoldersExclusive ==
    \A p, q \in Procs : Holds(p) /\ Holds(q) => p = q \/ {p, q} \cap lost # {}

\* The keys a call without overwrite returned are set and are nobody else's:
\* the throttles a run removes later are its own (zkclient.go:487-489,
\* apply.go:1340-1400), though updates race, fail half-way and arrive late.
OwnKeys ==
    \A p \in Procs :
        /\ \A q \in Procs \ {p} : owned[p] \cap owned[q] = {}
        /\ \A o \in owned[p] : store[o[1]].map[o[2]] # Unset

\* What the callers' updates keep to: one without overwrite sets all throttle
\* keys of a broker (throttles.go:85-97), and one with overwrite deletes none.
\* The clean-up of left-over throttles (apply.go:485-507) does not: it is for
\* throttles whose run is gone.
ThrottlesStay ==
    \A p \in Procs : \A r \in Requests[p] :
        IF r.overwrite
        THEN \A k \in DOMAIN r.entries \cap Throttles : r.entries[k] # Unset
        ELSE r.node \notin PartNodes =>
                /\ DOMAIN r.entries = Throttles
                /\ \A k \in Throttles : r.entries[k] # Unset

\* A value that the brokers do not act on and are not told about is left only
\* by a call that broke off after its write (zkclient.go:519-530).
SilentOnlyBroken ==
    \A n \in BrokerNodes \cup TopicNodes :
        heeded[n] # store[n].version =>
            \/ n \in notices \cup broken
            \/ \E p \in Procs : pc[p] = "notify" /\ call[p].req.node = n

\* Every update is atomic: read, versioned write and late write together are
\* one step of ConfigStore on the map as it was, so no update is lost.
ImplementsStore == Store!StoreSpec

\* Each lock request is gone in the end, the ones that timed out too, for
\* Close ends the session (client.go:345-364).
LockComesFree == <>[](tickets = {})
=============================================================================
