----------------------------- MODULE Separation -----------------------------
(***************************************************************************)
(* What minimization promises about a DFA, without an algorithm: starting  *)
(* from some obviously different pairs it tells more and more pairs of     *)
(* states apart, never a pair that no suffix separates, never taking a     *)
(* verdict back, and when it reports success it has told apart exactly the *)
(* pairs that some suffix separates.  It may also fail, and then promises  *)
(* nothing more.                                                           *)
(***************************************************************************)
CONSTANTS DFAs,
          Separable  \* for each of them, the pairs that some suffix separates

VARIABLES dfa, apart, status

sepVars == <<dfa, apart, status>>

Init ==
  /\ dfa \in DFAs
  /\ apart \in SUBSET Separable[dfa]
  /\ status = "working"

\* Written as a relation between old and new verdicts, for refinement only.
Separate ==
  /\ status = "working"
  /\ apart \subseteq apart'
  /\ apart' \subseteq Separable[dfa]
  /\ UNCHANGED <<dfa, status>>

Succeed ==
  /\ status = "working"
  /\ apart = Separable[dfa]
  /\ status' = "done"
  /\ UNCHANGED <<dfa, apart>>

Fail ==
  /\ status = "working"
  /\ status' = "failed"
  /\ UNCHANGED <<dfa, apart>>

Next == Separate \/ Succeed \/ Fail

Spec == Init /\ [][Next]_sepVars
=============================================================================
