----------------------------- MODULE MCAclAdmin -----------------------------
(***************************************************************************)
(* An instance of AclAdmin for TLC: a creator with two configs that share  *)
(* an entry, a dry run of one whose last config is invalid, a deleter, and *)
(* a dry run of one whose filter overlaps with the other's.                *)
(***************************************************************************)
EXTENDS AclAdmin, TLC
CONSTANTS read1, write1, read2, c1, c2, d1, d2

MCAcls == {read1, write1, read2}
MCCreators == {c1, c2}
MCDeleters == {d1, d2}

Valid(entries) == [valid |-> TRUE, acls |-> entries]
Invalid == [valid |-> FALSE, acls |-> <<read1>>]

MCConf ==
    c1 :> [docs |-> <<Valid(<<read1, write1>>), Valid(<<write1, read2>>)>>,
           dryRun |-> FALSE, skipConfirm |-> TRUE]
    @@ c2 :> [docs |-> <<Valid(<<read2>>), Invalid>>,
              dryRun |-> TRUE, skipConfirm |-> FALSE]
    @@ d1 :> [filter |-> {write1, read2}, dryRun |-> FALSE, skipConfirm |-> FALSE]
    @@ d2 :> [filter |-> {read1, write1}, dryRun |-> TRUE, skipConfirm |-> FALSE]

MCInitial == {{}, {read1}, {write1, read2}}
=============================================================================
