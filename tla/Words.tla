-------------------------------- MODULE Words --------------------------------
(***************************************************************************)
(* What regular expressions stand for, for reference: sets of words of up  *)
(* to WordBound characters.                                                *)
(***************************************************************************)
EXTENDS Integers, Sequences

CONSTANT WordBound

ASSUME WordBoundAssumption == WordBound \in Nat

Letters(S) == IF WordBound = 0 THEN {} ELSE {<<c>> : c \in S}

Concatenation(A, B) ==
  {w \in {a \o b : a \in A, b \in B} : Len(w) <= WordBound}

Repetitions(A) ==
  LET power[n \in Nat] ==
        IF n = 0 THEN {<<>>}
        ELSE LET before == power[n - 1]
             IN  before \cup Concatenation(before, A)
  IN  power[WordBound]

Quantified(A, quantifier) ==
  CASE quantifier = "*" -> Repetitions(A)
    [] quantifier = "?" -> A \cup {<<>>}
    [] quantifier = "+" -> Concatenation(A, Repetitions(A))
=============================================================================
