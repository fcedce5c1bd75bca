-------------------------- MODULE MCTopicSettings --------------------------
(***************************************************************************)
(* An instance of TopicSettings for TLC.  Minutes of 2 and a step of 4     *)
(* give retentions below, at and between whole minutes, and drops of less  *)
(* and of more than one step; the number of key k prints as a text that    *)
(* another text of the same value differs from.                            *)
(***************************************************************************)
EXTENDS TopicSettings, TLC

CONSTANTS half, half0, onehalf

MCKeys == {"k"}
MCTexts == {half, half0}
MCNumbers == {onehalf}
MCPrinted == onehalf :> half0
MCForeign == {-1, 0, 1, 6, 11}

File(minutes, retention, k) ==
    [minutes |-> minutes, settings |-> ("retention.ms" :> retention) @@ ("k" :> k)]
MCFiles ==
    {File(1, Absent, onehalf), File(0, 3, Absent), File(0, -1, half),
     File(0, Blank, half0), File(2, Null, Blank), File(1, 6, Absent)}
=============================================================================
