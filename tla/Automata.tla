------------------------------- MODULE Automata -------------------------------
(***************************************************************************)
(* The finite automata that the components of the compiler hand to each    *)
(* other (nfa.h, dfa.h), as constant-level records, and what it means for  *)
(* two states of a DFA to accept the same suffixes.                        *)
(*                                                                         *)
(* A DFA is the part of struct DFA that the minimizer reads: the number of *)
(* states, the number of characters of the alphabet, the transition table  *)
(* delta[state][character index] with DEAD_STATE for "no transition", and  *)
(* the indices of the states in the set dfa->accepts.                      *)
(***************************************************************************)
EXTENDS Integers

DEAD_STATE == -1

StateOf(d) == 0 .. d.size - 1

SymbolOf(d) == 0 .. d.alphabet_size - 1

\* The states and the dead state that distinguishable() also walks through.
NodeOf(d) == StateOf(d) \cup {DEAD_STATE}

(***************************************************************************)
(* Every DFA that convert_nfa_to_dfa() returns has this shape.  It has at  *)
(* least two states because the start state of a Thompson NFA is entered   *)
(* by no transition, so the start state of the DFA is never a target.      *)
(***************************************************************************)
IsDFA(d) ==
  /\ d.size \in Nat /\ d.size >= 2
  /\ d.alphabet_size \in Nat
  /\ d.delta \in [StateOf(d) -> [SymbolOf(d) -> NodeOf(d)]]
  /\ d.accepts \subseteq StateOf(d)

\* The dead state never leaves itself: delta is not indexed with -1.
Out(d, p, c) == IF p = DEAD_STATE THEN DEAD_STATE ELSE d.delta[p][c]

Accepts(d, p) == p \in d.accepts

\* Some suffix is accepted from every state, as every state of a Thompson NFA
\* leads to its accepting state: no set of states traps the automaton.
IsTrim(d) ==
  \A T \in SUBSET (StateOf(d) \ d.accepts) :
    T # {} => \E p \in T, c \in SymbolOf(d) : Out(d, p, c) \notin T \cup {DEAD_STATE}

-----------------------------------------------------------------------------
(***************************************************************************)
(* Two states are inseparable when no suffix is accepted from exactly one  *)
(* of them.  Stated without words: the pair belongs to a relation of       *)
(* states that agree on acceptance which every character preserves (a      *)
(* bisimulation).  A relation is a set of pairs <<p, q>> with p < q, read  *)
(* as symmetric and reflexive by Related.                                  *)
(***************************************************************************)
AgreeingPair(d) ==
  {pr \in NodeOf(d) \X NodeOf(d) :
     pr[1] < pr[2] /\ (Accepts(d, pr[1]) <=> Accepts(d, pr[2]))}

Related(R, p, q) == p = q \/ <<p, q>> \in R \/ <<q, p>> \in R

IsBisimulation(d, R) ==
  \A pr \in R : \A c \in SymbolOf(d) :
    Related(R, Out(d, pr[1], c), Out(d, pr[2], c))

Bisimulations(d) == {R \in SUBSET AgreeingPair(d) : IsBisimulation(d, R)}

InseparablePair(d) == UNION Bisimulations(d)

\* The pairs of states that minimization decides about.
LivePair(d) == {pr \in StateOf(d) \X StateOf(d) : pr[1] < pr[2]}
=============================================================================
