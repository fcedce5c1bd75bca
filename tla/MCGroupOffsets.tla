--------------------------- MODULE MCGroupOffsets ---------------------------
(***************************************************************************)
(* An instance of GroupOffsets for TLC: logs with messages, without, and   *)
(* with a marker at the end; groups at a message, beyond the log, and      *)
(* without an offset.                                                      *)
(***************************************************************************)
EXTENDS GroupOffsets, TLC

Full == [first |-> 0, end |-> 2, gaps |-> {}]
Bare == [first |-> 1, end |-> 1, gaps |-> {}]
Tailed == [first |-> 0, end |-> 2, gaps |-> {1}]

MCLogs == {0 :> Full @@ 1 :> Tailed, 0 :> Full @@ 1 :> Bare}
MCOffsets == {0 :> 1 @@ 1 :> -1, 0 :> 4 @@ 1 :> 0}
=============================================================================
