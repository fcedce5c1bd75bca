---------------------------- MODULE ConfigStore ----------------------------
(***************************************************************************)
(* What callers take a configuration update of the admin client to be: one *)
(* atomic step on the map of a node.  An update applies its entries to the *)
(* map as it is at that moment; without overwrite the keys already set are *)
(* left alone.  ZkAdmin does it with a read and a conditional write and is *)
(* shown to implement this.                                                *)
(***************************************************************************)
CONSTANTS Nodes,    \* configuration nodes
          Keys,     \* configuration keys
          Values,   \* their values
          Unset,    \* a key without a value; as an entry, "delete the key"
          Requests  \* updates: node, entries, overwrite, fresh

VARIABLE config     \* per node, its map

Maps == [Keys -> Values \cup {Unset}]
Empty == [k \in Keys |-> Unset]

\* the keys an update changes, which is also what the call returns
Touched(map, r) ==
    {k \in DOMAIN r.entries : r.overwrite \/ map[k] = Unset}

Updated(map, r) ==
    [k \in Keys |-> IF k \in Touched(map, r) THEN r.entries[k] ELSE map[k]]

\* AddPartitions refuses when an entry is there already
Allowed(map, r) == r.fresh => \A k \in DOMAIN r.entries : map[k] = Unset

StoreInit == config \in [Nodes -> Maps]

Update(r) ==
    /\ Allowed(config[r.node], r)
    /\ config' = [config EXCEPT ![r.node] = Updated(@, r)]

StoreNext == \E r \in Requests : Update(r)

StoreSpec == StoreInit /\ [][StoreNext]_config
=============================================================================
