----------------------------- MODULE MCZkAdmin -----------------------------
(***************************************************************************)
(* Instances of ZkAdmin for TLC: one node of each kind, the throttle keys  *)
(* k1 and k2, which updates set without overwrite, and the setting k3.     *)
(***************************************************************************)
EXTENDS ZkAdmin, TLC

MCKeys == {"k1", "k2", "k3"}
MCThrottles == {"k1", "k2"}
MCValues == {"v", "w"}
Blank == [k \in MCKeys |-> Unset]
Node(there, map) == [exists |-> there, version |-> 0, map |-> map]
MCStores ==
    {[b |-> broker, t |-> Node(TRUE, Blank), p |-> Node(TRUE, Blank)] :
        broker \in {Node(FALSE, Blank), Node(TRUE, [Blank EXCEPT !["k1"] = "w"])}}

Throttle(n) == [node |-> n, entries |-> [k \in MCThrottles |-> "v"], overwrite |-> FALSE,
                fresh |-> FALSE]
Setting(n, v) == [node |-> n, entries |-> "k3" :> v, overwrite |-> TRUE,
                  fresh |-> FALSE]
Partition(n, k) == [node |-> n, entries |-> k :> "v", overwrite |-> FALSE,
                    fresh |-> TRUE]

MCProcs == {"a1", "a2"}
MCRequests ==
    "a1" :> {Throttle("b"), Partition("p", "k2")}
    @@ "a2" :> {Throttle("b"), Setting("b", "v"), Setting("t", "v")}

ASSUME CallersKeepThrottles == ThrottlesStay
=============================================================================
