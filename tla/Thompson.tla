------------------------------- MODULE Thompson -------------------------------
(***************************************************************************)
(* The construction of Thompson NFAs (nfa.c) by any sequence of calls: the *)
(* parser holds a number of NFAs at a time, joins two of them, wraps one   *)
(* in a quantifier or frees one.                                           *)
(*                                                                         *)
(* The history field words of an NFA is the set of words, up to WordBound  *)
(* characters, that the regular expression it was built for stands for.    *)
(***************************************************************************)
EXTENDS NFA, Words, SequencesExt

CONSTANTS
  Tab, Newline, Space, Tilde,  \* the characters that `.` and ranges name
  MaxCalls,                    \* bound on the calls of the constructions
  MaxHeld                      \* bound on the NFAs held at a time

ASSUME CharacterAssumption ==
  /\ {Tab, Newline, Space, Tilde} \subseteq Nat \ {EPSILON}
  /\ Tab < Newline /\ Newline < Space /\ Space <= Tilde
ASSUME BoundAssumption == {MaxCalls, MaxHeld} \subseteq Nat

VARIABLES
  held,    \* the NFAs that exist, each with its words
  heap,    \* the addresses of the NFAStates that are allocated
  fresh,   \* the first address never allocated so far
  calls    \* how many constructions were called

vars == <<held, heap, fresh, calls>>

Printable == Space .. Tilde
Characters == {Tab, Newline} \cup Printable

Init ==
  /\ held = {}
  /\ heap = {}
  /\ fresh = 0
  /\ calls = 0

-----------------------------------------------------------------------------
(* The calls: used are the NFAs that are consumed, nfa the one returned.   *)

Return(used, nfa, words, allocated) ==
  /\ calls < MaxCalls
  /\ calls' = calls + 1
  /\ held' = (held \ used) \cup {[nfa |-> nfa, words |-> words]}
  /\ heap' = heap \cup fresh .. fresh + allocated - 1
  /\ fresh' = fresh + allocated

InitThompsonNFA(ch) ==
  /\ Cardinality(held) < MaxHeld
  /\ Return({}, InitThompson(ch, fresh), Letters({ch}), 2)

InitRangeNFA(left, right) ==
  LET nfa == InitRange(left, right, fresh)
  IN  /\ Cardinality(held) < MaxHeld
      /\ left < right
      /\ Return({}, nfa, Letters(left .. right), nfa.size)

InitWildcardNFA ==
  LET nfa == InitWildcard(Space, Tilde, Tab, Newline, fresh)
  IN  /\ Cardinality(held) < MaxHeld
      /\ Return({}, nfa, Letters(Characters), nfa.size)

\* Mutant: rhs is not destroyed.
NFAUnionKeepsRhs(l, r) ==
  /\ l # r
  /\ Return({l}, Union(l.nfa, r.nfa, fresh), l.words \cup r.words, 2)

NFAUnion(l, r) ==
  /\ l # r
  /\ Return({l, r}, Union(l.nfa, r.nfa, fresh), l.words \cup r.words, 2)

\* Mutant: the arguments are swapped.
NFAPrepend(l, r) ==
  /\ l # r
  /\ Return({l, r}, Concat(r.nfa, l.nfa), Concatenation(l.words, r.words), 0)

NFAAppend(l, r) ==
  /\ l # r
  /\ Return({l, r}, Concat(l.nfa, r.nfa), Concatenation(l.words, r.words), 0)

TransformNFA(h, quantifier) ==
  Return({h}, Transform(h.nfa, quantifier, fresh),
         Quantified(h.words, quantifier), 2)

DestroyNFAAndStates(h) ==
  /\ held' = held \ {h}
  /\ heap' = heap \ h.nfa.mem_region
  /\ UNCHANGED <<fresh, calls>>

Next ==
  \/ \E ch \in Characters : InitThompsonNFA(ch)
  \/ \E left, right \in Printable : InitRangeNFA(left, right)
  \/ InitWildcardNFA
  \/ \E l, r \in held : NFAUnion(l, r)
  \/ \E l, r \in held : NFAAppend(l, r)
  \/ \E h \in held, quantifier \in Quantifiers : TransformNFA(h, quantifier)
  \/ \E h \in held : DestroyNFAAndStates(h)

Spec == Init /\ [][Next]_vars

-----------------------------------------------------------------------------
NFAs == {h.nfa : h \in held}

\* The members of every NFA have their types: pointers stay within the states
\* of the NFA, and no address is in use that was not allocated.
TypeOK ==
  /\ calls \in 0 .. MaxCalls /\ fresh \in Nat /\ heap \subseteq 0 .. fresh - 1
  /\ \A n \in NFAs : IsNFA(n) /\ n.alphabet \subseteq Characters

\* Whatever is appended to, united with or wrapped around an NFA later relies
\* on its shape, and so does the subset construction: its start is entered by no
\* transition, its accept state is left by none, a state that reads a character
\* has one way out, and every state leads to the accept state.
ThompsonShape == \A n \in NFAs : IsThompson(n)

\* nfa->mem_region is the region-based memory of the NFA (nfa.h:32): every
\* allocated state is owned by exactly one NFA, and an NFA owns exactly the
\* states it is made of, so destroying it frees each of them once.
OwnedOnce ==
  /\ heap = UNION {n.mem_region : n \in NFAs}
  /\ \A n \in NFAs :
       /\ n.mem_region = DOMAIN n.states
       /\ n.size = Cardinality(n.mem_region)
       /\ \A m \in NFAs \ {n} : m.mem_region \cap n.mem_region = {}

\* index_states() gives every state an index of its own, 0 .. size - 1: the sets
\* of the subset construction tell states apart by their indices only.
IndicesDistinct ==
  \A n \in NFAs : LET index == IndexStates(n) IN
    {index[s] : s \in n.mem_region} = 0 .. n.size - 1

\* Every NFA accepts exactly the words of the regular expression it was built
\* for, however the constructions are nested.
AcceptsItsWords ==
  \A h \in held : \A w \in WordsUpTo(h.nfa.alphabet, WordBound) :
    AcceptsWord(h.nfa, w) <=> w \in h.words

\* "the Graphviz DOT representation of an entire NFA" (nfa.c:452): every
\* transition is printed exactly once, between the indices of its states, however
\* many cycles lead back to states that were seen.
GraphShowsNFA ==
  \A n \in NFAs :
    LET index == IndexStates(n)
        graph == GenNFAGraphviz(n)
        Ways  == {<<s, n.states[s].ch, n.states[s].out1>> : s \in n.mem_region}
                 \cup {<<s, EPSILON, n.states[s].out2>> : s \in n.mem_region}
        Transitions == {way \in Ways : way[3] # NULL}
    IN  /\ graph.accept = index[n.accept]
        /\ Len(graph.lines) = Cardinality(Transitions)
        /\ ToSet(graph.lines) =
             {<<index[way[1]], way[2], index[way[3]]>> : way \in Transitions}
=============================================================================
