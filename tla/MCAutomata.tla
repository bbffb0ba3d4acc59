----------------------------- MODULE MCAutomata -----------------------------
(***************************************************************************)
(* DFAs for model checking, written as the code's transition tables: one   *)
(* row per state, one column per character in ASCII order, -1 for no       *)
(* transition, and the set of accepting states.                            *)
(***************************************************************************)
EXTENDS Integers, Sequences

Table(rows, accepts) ==
  [size          |-> Len(rows),
   alphabet_size |-> Len(rows[1]),
   delta         |-> [s \in 0 .. Len(rows) - 1 |->
                        [c \in 0 .. Len(rows[1]) - 1 |-> rows[s + 1][c + 1]]],
   accepts       |-> accepts]
=============================================================================
