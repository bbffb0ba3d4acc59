--------------------------------- MODULE NFA ---------------------------------
(***************************************************************************)
(* nfa.c without its memory management: the Thompson constructions, the    *)
(* numbering of states and the epsilon closure, as operators on NFAs.      *)
(*                                                                         *)
(* An NFA is the struct with the heap cells it owns: states maps the       *)
(* address of every NFAState reachable from it to the members of that      *)
(* NFAState, mem_region is the set of addresses to free, alphabet is the   *)
(* set of characters in the two bitfields.  An operator that allocates     *)
(* takes the first fresh address as its last argument.                     *)
(***************************************************************************)
EXTENDS Integers, FiniteSets, Sequences

EPSILON == 0
NULL == -1

\* init_nfastate()
NewState == [ch |-> EPSILON, out1 |-> NULL, out2 |-> NULL]

InitThompson(ch, new) ==
  [start      |-> new,
   accept     |-> new + 1,
   alphabet   |-> {ch},
   size       |-> 2,
   mem_region |-> {new, new + 1},
   states     |-> [s \in {new, new + 1} |->
                     IF s = new THEN [ch |-> ch, out1 |-> new + 1, out2 |-> NULL]
                     ELSE NewState]]

-----------------------------------------------------------------------------
(* Most constructions add an accept and a start state around what is there. *)

\* Mutant: the new states are mixed up.
WrapSwapped(states, newAccept, start, newStart) ==
  [s \in DOMAIN states \cup {newAccept, newStart} |->
     IF s = newAccept THEN start
     ELSE IF s = newStart THEN NewState
     ELSE states[s]]

Wrap(states, newAccept, start, newStart) ==
  [s \in DOMAIN states \cup {newAccept, newStart} |->
     IF s = newAccept THEN NewState
     ELSE IF s = newStart THEN start
     ELSE states[s]]

Joined(lhs, rhs) ==
  [s \in DOMAIN lhs.states \cup DOMAIN rhs.states |->
     IF s \in DOMAIN lhs.states THEN lhs.states[s] ELSE rhs.states[s]]

\* nfa_union()
Union(lhs, rhs, new) ==
  [start      |-> new + 1,
   accept     |-> new,
   alphabet   |-> lhs.alphabet \cup rhs.alphabet,
   size       |-> lhs.size + 2 + rhs.size,
   mem_region |-> lhs.mem_region \cup rhs.mem_region \cup {new, new + 1},
   states     |-> Wrap([Joined(lhs, rhs) EXCEPT ![lhs.accept].out1 = new,
                                                ![rhs.accept].out1 = new],
                       new,
                       [ch |-> EPSILON, out1 |-> lhs.start, out2 |-> rhs.start],
                       new + 1)]

\* nfa_append()
Concat(lhs, rhs) ==
  [start      |-> lhs.start,
   accept     |-> rhs.accept,
   alphabet   |-> lhs.alphabet \cup rhs.alphabet,
   size       |-> lhs.size + rhs.size,
   mem_region |-> lhs.mem_region \cup rhs.mem_region,
   states     |-> [Joined(lhs, rhs) EXCEPT ![lhs.accept].out1 = rhs.start]]

Quantifiers == {"*", "?", "+"}

\* transform()
Transform(nfa, quantifier, new) ==
  LET cyclesBack == quantifier \in {"*", "+"}
      maySkip    == quantifier \in {"*", "?"}
  IN  [start      |-> new + 1,
       accept     |-> new,
       alphabet   |-> nfa.alphabet,
       size       |-> nfa.size + 2,
       mem_region |-> nfa.mem_region \cup {new, new + 1},
       states     |->
         Wrap([nfa.states EXCEPT
                 ![nfa.accept] = [ch   |-> @.ch,
                                  out1 |-> new,
                                  out2 |-> IF cyclesBack THEN nfa.start ELSE @.out2]],
              new,
              [ch   |-> EPSILON,
               out1 |-> nfa.start,
               out2 |-> IF maySkip THEN new ELSE NULL],
              new + 1)]

\* init_range_nfa(left, right), for left <= right as allowed() makes sure: the
\* range of the characters from l on of which more follow the first.
InitRange(left, right, new) ==
  LET range[more \in Nat] ==
        [l \in Nat |-> [n \in Nat |->
           IF more = 0 THEN InitThompson(l, n)
           ELSE LET half == more \div 2
                    t1   == range[half][l][n]
                    t2   == range[more - half - 1][l + half + 1][n + t1.size]
                IN  Union(t1, t2, n + t1.size + t2.size)]]
  IN  range[right - left][left][new]

\* init_thompson_nfa(TK_WILDCARD)
InitWildcard(space, tilde, tab, newline, new) ==
  LET wildcard == InitRange(space, tilde, new)
      t == InitThompson(tab, new + wildcard.size)
      n == InitThompson(newline, new + wildcard.size + 2)
      result == Union(t, n, new + wildcard.size + 4)
  IN  Union(wildcard, result, new + wildcard.size + 6)

-----------------------------------------------------------------------------
Outs(nfa, s) == {nfa.states[s].out1, nfa.states[s].out2} \ {NULL}

\* Mutant: the second way out of a state is not followed.
IndexStatesAlongOut1(nfa) ==
  LET Owned == nfa.mem_region
      visit(walk, s, index) ==
        IF s = NULL \/ index[s] # -1 THEN index
        ELSE walk[s][[index EXCEPT ![s] =
                        Cardinality({t \in Owned : index[t] # -1})]]
      index_helper[s \in Owned] ==
        [index \in [Owned -> Int] |-> visit(index_helper, nfa.states[s].out1, index)]
  IN  visit(index_helper, nfa.start, [s \in Owned |-> -1])

(***************************************************************************)
(* index_states(): the index of every state in the order a depth-first     *)
(* search from the start finds it; -1, from reset_states(), if it does     *)
(* not.  The static counter state_index is the number of indices given.    *)
(***************************************************************************)
IndexStates(nfa) ==
  LET Owned == nfa.mem_region
      visit(walk, s, index) ==
        IF s = NULL \/ index[s] # -1 THEN index
        ELSE walk[s][[index EXCEPT ![s] =
                        Cardinality({t \in Owned : index[t] # -1})]]
      index_helper[s \in Owned] ==
        [index \in [Owned -> Int] |->
           visit(index_helper, nfa.states[s].out2,
                 visit(index_helper, nfa.states[s].out1, index))]
  IN  visit(index_helper, nfa.start, [s \in Owned |-> -1])

\* The states seen so far and the transitions printed.
Drawings(nfa) == [seen : SUBSET nfa.mem_region, lines : Seq(Int \X Int \X Int)]

\* Mutant: a transition to a state that was seen is not printed.
GraphOfUnseen(nfa) ==
  LET index == IndexStates(nfa)
      transition(walk, s, ch, t, f) ==
        IF t = NULL \/ t \in f.seen THEN f
        ELSE walk[t][[f EXCEPT !.lines = Append(@, <<index[s], ch, index[t]>>)]]
      graphviz_helper[s \in nfa.mem_region] ==
        [f \in Drawings(nfa) |->
           transition(graphviz_helper, s, EPSILON, nfa.states[s].out2,
             transition(graphviz_helper, s, nfa.states[s].ch, nfa.states[s].out1,
               [f EXCEPT !.seen = @ \cup {s}]))]
  IN  [accept |-> index[nfa.accept],
       lines  |-> graphviz_helper[nfa.start][[seen |-> {}, lines |-> <<>>]].lines]

(***************************************************************************)
(* gen_nfa_graphviz(): the state drawn as accepting and the transitions in *)
(* the order they are printed, states by their indices.  Each state seen   *)
(* is marked, and the search does not go on from it a second time.         *)
(***************************************************************************)
GenNFAGraphviz(nfa) ==
  LET index == IndexStates(nfa)
      transition(walk, s, ch, t, f) ==
        LET printed == [f EXCEPT !.lines = Append(@, <<index[s], ch, index[t]>>)]
        IN  IF t = NULL THEN f ELSE IF t \in f.seen THEN printed ELSE walk[t][printed]
      graphviz_helper[s \in nfa.mem_region] ==
        [f \in Drawings(nfa) |->
           transition(graphviz_helper, s, EPSILON, nfa.states[s].out2,
             transition(graphviz_helper, s, nfa.states[s].ch, nfa.states[s].out1,
               [f EXCEPT !.seen = @ \cup {s}]))]
  IN  [accept |-> index[nfa.accept],
       lines  |-> graphviz_helper[nfa.start][[seen |-> {}, lines |-> <<>>]].lines]

(***************************************************************************)
(* epsilon_closure(): the states found from s without going past a state   *)
(* that reads a character.  epsilon_helper() stops at states found before, *)
(* so it finds what following every state again and again finds.           *)
(***************************************************************************)
EpsilonOuts(nfa, X) ==
  UNION {Outs(nfa, s) : s \in {t \in X : nfa.states[t].ch = EPSILON}}

EpsilonClosure(nfa, s) ==
  LET found[X \in SUBSET DOMAIN nfa.states] ==
        LET more == X \cup EpsilonOuts(nfa, X)
        IN  IF more = X THEN X ELSE found[more]
  IN  found[{s}]

-----------------------------------------------------------------------------
(***************************************************************************)
(* What the stages rely on: an NFA consists of the states that it owns,    *)
(* and its pointers stay within them.                                      *)
(***************************************************************************)
NFAState(n) == [ch   : {EPSILON} \cup n.alphabet,
                out1 : DOMAIN n.states \cup {NULL},
                out2 : DOMAIN n.states \cup {NULL}]

IsNFA(n) ==
  /\ n.alphabet \subseteq Nat \ {EPSILON}
  /\ {n.start, n.accept} \subseteq DOMAIN n.states
  /\ n.states \in [DOMAIN n.states -> NFAState(n)]
  /\ DOMAIN n.states = n.mem_region /\ NULL \notin n.mem_region
  /\ IsFiniteSet(n.alphabet) /\ IsFiniteSet(n.mem_region)

\* The states from which the accept state can be reached.
CoReachable(nfa) ==
  LET found[X \in SUBSET DOMAIN nfa.states] ==
        LET more == X \cup {s \in DOMAIN nfa.states : Outs(nfa, s) \cap X # {}}
        IN  IF more = X THEN X ELSE found[more]
  IN  found[{nfa.accept}]

\* The shape that Thompson's constructions give an NFA: its start is entered by
\* no transition, its accept state is left by none, a state that reads a
\* character has one way out, every state leads to the accept state, and some
\* character can be read first.
IsThompson(n) ==
  /\ n.states[n.accept] = NewState
  /\ \A s \in DOMAIN n.states :
       /\ n.start \notin Outs(n, s)
       /\ n.states[s].ch # EPSILON => n.states[s].out2 = NULL
  /\ CoReachable(n) = DOMAIN n.states
  /\ \E s \in EpsilonClosure(n, n.start) : n.states[s].ch # EPSILON

-----------------------------------------------------------------------------
(***************************************************************************)
(* What an NFA means, for reference: a configuration is a state and the    *)
(* number of characters of the word that were read to get there.           *)
(***************************************************************************)
Configurations(nfa, word) ==
  LET Moves(conf) ==
        LET s == conf[1]  k == conf[2]
        IN  IF nfa.states[s].ch = EPSILON THEN {<<t, k>> : t \in Outs(nfa, s)}
            ELSE IF k < Len(word) /\ word[k + 1] = nfa.states[s].ch
            THEN {<<nfa.states[s].out1, k + 1>>}
            ELSE {}
      run[C \in SUBSET ((DOMAIN nfa.states) \X (0 .. Len(word)))] ==
        LET more == C \cup UNION {Moves(conf) : conf \in C}
        IN  IF more = C THEN C ELSE run[more]
  IN  run[{<<nfa.start, 0>>}]

AcceptsWord(nfa, word) ==
  <<nfa.accept, Len(word)>> \in Configurations(nfa, word)

\* All words over an alphabet up to a length.
WordsUpTo(alphabet, n) == UNION {[1 .. k -> alphabet] : k \in 0 .. n}
=============================================================================
