-------------------------------- MODULE Subset --------------------------------
(***************************************************************************)
(* dfa.c: subset(), which builds the states of a DFA out of sets of NFA    *)
(* states, and convert_nfa_to_dfa(), which tabulates them for minimize().  *)
(*                                                                         *)
(* A DFA state and its set of NFA states are linked both ways and created  *)
(* together; mem_region maps the index of the one to the other.  The flag  *)
(* is_accept of a state is kept beside the set accepts; gen_dfa_graphviz() *)
(* reads both.  The worklist is a set that inserts unequal elements at its *)
(* head: a stack.                                                          *)
(*                                                                         *)
(* Characters are those of the NFA's alphabet in ascending order, dfa->    *)
(* alphabet[i].  Allocations succeed, except the three of                  *)
(* convert_nfa_to_dfa(), whose failure is reported.                        *)
(***************************************************************************)
EXTENDS Automata, NFA, SequencesExt

CONSTANTS NFAs,      \* the NFAs that parse() returns
          WordBound  \* bound on the length of the words compared

ASSUME NFAsAssumption ==
  \A n \in NFAs : IsNFA(n) /\ IsThompson(n)
ASSUME WordBoundAssumption == WordBound \in Nat

VARIABLES
  nfa,        \* the NFA being converted, never written
  mem_region, \* the DFA states: index |-> set of NFA states
  outs,       \* their transitions: index |-> sequence of indices or NULL
  is_accept,  \* indices of those whose is_accept is set
  accepts,    \* indices of those in the set dfa->accepts
  worklist,   \* indices of the states whose transitions are not computed yet
  q,          \* the state taken from the worklist last
  char,       \* loop variable i: position in the alphabet
  dfa,        \* size, states and delta, once they are filled in
  pc

vars == <<nfa, mem_region, outs, is_accept, accepts, worklist, q, char, dfa, pc>>

\* init_dfa(): dfa->alphabet, and the inverse of dfa->mappings.
AlphabetSize == Cardinality(nfa.alphabet)
Alphabet == CHOOSE chars \in [1 .. AlphabetSize -> nfa.alphabet] :
              \A i, j \in 1 .. AlphabetSize : i < j => chars[i] < chars[j]

\* Mutant: no transition is 0, the index of the start state.
NoOutsZero == [i \in 1 .. AlphabetSize |-> 0]

NoOuts == [i \in 1 .. AlphabetSize |-> NULL]

\* The next state_index.
NewIndex == Cardinality(DOMAIN mem_region)

AcceptingIf(states, index) == IF nfa.accept \in states THEN {index} ELSE {}

EmptyDFA == [size |-> 0, alphabet_size |-> 0, delta |-> <<>>, accepts |-> {}]

Init ==
  /\ nfa \in NFAs
  /\ mem_region = <<>> /\ outs = <<>> /\ is_accept = {} /\ accepts = {}
  /\ worklist = <<>> /\ q = NULL /\ char = 0
  /\ dfa = EmptyDFA
  /\ pc = "start"

-----------------------------------------------------------------------------

\* Mutant: the moves are not closed under epsilon transitions.
DeltaWithoutClosure(states, ch) ==
  {nfa.states[s].out1 : s \in {t \in states : nfa.states[t].ch = ch}}

\* epsilon_closure_delta()
EpsilonClosureDelta(states, ch) ==
  UNION {EpsilonClosure(nfa, nfa.states[s].out1) :
           s \in {t \in states : nfa.states[t].ch = ch}}

CreateStart ==
  /\ pc = "start"
  /\ LET q0 == EpsilonClosure(nfa, nfa.start)
     IN  /\ mem_region' = [k \in {0} |-> q0]
         /\ is_accept' = AcceptingIf(q0, 0)
         /\ accepts' = AcceptingIf(q0, 0)
  /\ outs' = [k \in {0} |-> NoOuts]
  /\ worklist' = <<0>>
  /\ pc' = "worklist"
  /\ UNCHANGED <<nfa, q, char, dfa>>

\* Mutant: the state stays on the worklist.
PeekState ==
  /\ pc = "worklist" /\ worklist # <<>>
  /\ q' = Head(worklist)
  /\ char' = 1
  /\ pc' = "outs"
  /\ UNCHANGED <<nfa, mem_region, outs, is_accept, accepts, worklist, dfa>>

TakeState ==
  /\ pc = "worklist" /\ worklist # <<>>
  /\ q' = Head(worklist)
  /\ worklist' = Tail(worklist)
  /\ char' = 1
  /\ pc' = "outs"
  /\ UNCHANGED <<nfa, mem_region, outs, is_accept, accepts, dfa>>

\* The set t reached from q on the character at hand.
Reached == EpsilonClosureDelta(mem_region[q], Alphabet[char])

\* Mutant: states that have left the worklist are not found.
FoundOnWorklist ==
  {k \in DOMAIN mem_region : k \in ToSet(worklist) /\ mem_region[k] = Reached}

Found == {k \in DOMAIN mem_region : mem_region[k] = Reached}

NoTransition ==
  /\ pc = "outs" /\ char <= AlphabetSize
  /\ Reached = {}
  /\ char' = char + 1
  /\ UNCHANGED <<nfa, mem_region, outs, is_accept, accepts, worklist, q, dfa, pc>>

ToNewState ==
  /\ pc = "outs" /\ char <= AlphabetSize
  /\ Reached # {} /\ Found = {}
  /\ mem_region' = [k \in DOMAIN mem_region \cup {NewIndex} |->
                      IF k = NewIndex THEN Reached ELSE mem_region[k]]
  /\ outs' = [k \in DOMAIN outs \cup {NewIndex} |->
                IF k = NewIndex THEN NoOuts
                ELSE IF k = q THEN [outs[q] EXCEPT ![char] = NewIndex]
                ELSE outs[k]]
  /\ is_accept' = is_accept \cup AcceptingIf(Reached, NewIndex)
  /\ accepts' = accepts \cup AcceptingIf(Reached, NewIndex)
  /\ worklist' = <<NewIndex>> \o worklist
  /\ char' = char + 1
  /\ UNCHANGED <<nfa, q, dfa, pc>>

\* Mutant: the state at hand instead of the one found.
ToKnownStateItself ==
  /\ pc = "outs" /\ char <= AlphabetSize
  /\ Reached # {} /\ Found # {}
  /\ outs' = [outs EXCEPT ![q][char] = q]
  /\ is_accept' = is_accept \cup AcceptingIf(mem_region[q], q)
  /\ accepts' = accepts \cup AcceptingIf(mem_region[q], q)
  /\ char' = char + 1
  /\ UNCHANGED <<nfa, mem_region, worklist, q, dfa, pc>>

\* Mutant: the flag is set of the state at hand.
ToKnownStateFlagsItself ==
  /\ pc = "outs" /\ char <= AlphabetSize
  /\ Reached # {}
  /\ \E found \in Found :
       /\ outs' = [outs EXCEPT ![q][char] = found]
       /\ is_accept' = is_accept \cup AcceptingIf(mem_region[found], q)
       /\ accepts' = accepts \cup AcceptingIf(mem_region[found], found)
  /\ char' = char + 1
  /\ UNCHANGED <<nfa, mem_region, worklist, q, dfa, pc>>

ToKnownState ==
  /\ pc = "outs" /\ char <= AlphabetSize
  /\ Reached # {}
  /\ \E found \in Found :
       /\ outs' = [outs EXCEPT ![q][char] = found]
       /\ is_accept' = is_accept \cup AcceptingIf(mem_region[found], found)
       /\ accepts' = accepts \cup AcceptingIf(mem_region[found], found)
  /\ char' = char + 1
  /\ UNCHANGED <<nfa, mem_region, worklist, q, dfa, pc>>

StateDone ==
  /\ pc = "outs" /\ char > AlphabetSize
  /\ pc' = "worklist"
  /\ UNCHANGED <<nfa, mem_region, outs, is_accept, accepts, worklist, q, char, dfa>>

WorklistEmpty ==
  /\ pc = "worklist" /\ worklist = <<>>
  /\ pc' = "tables"
  /\ UNCHANGED <<nfa, mem_region, outs, is_accept, accepts, worklist, q, char, dfa>>

-----------------------------------------------------------------------------
(* convert_nfa_to_dfa(): the automaton that minimize() is given.           *)

FillTables ==
  /\ pc = "tables"
  /\ dfa' = [size          |-> NewIndex,
             alphabet_size |-> AlphabetSize,
             delta         |-> [k \in DOMAIN mem_region |->
                                  [c \in 0 .. AlphabetSize - 1 |->
                                     IF outs[k][c + 1] = NULL THEN DEAD_STATE
                                     ELSE outs[k][c + 1]]],
             accepts       |-> accepts]
  /\ pc' = "done"
  /\ UNCHANGED <<nfa, mem_region, outs, is_accept, accepts, worklist, q, char>>

OutOfMemory ==
  /\ pc = "tables"
  /\ pc' = "failed"
  /\ UNCHANGED <<nfa, mem_region, outs, is_accept, accepts, worklist, q, char, dfa>>

Stopped == pc \in {"done", "failed"} /\ UNCHANGED vars

Next ==
  \/ CreateStart \/ TakeState
  \/ NoTransition \/ ToNewState \/ ToKnownState
  \/ StateDone \/ WorklistEmpty
  \/ FillTables \/ OutOfMemory \/ Stopped

Spec == Init /\ [][Next]_vars

\* The only thread runs whenever it can.
FairSpec == Spec /\ WF_vars(Next)

-----------------------------------------------------------------------------
(***************************************************************************)
(* gen_dfa_graphviz(), with the constituent NFA states of every node: what *)
(* the three iterations, over accepts and twice over mem_region, print.    *)
(* The order of the lines, which means nothing to Graphviz, is left out.   *)
(***************************************************************************)
NormalStates == DOMAIN mem_region \ is_accept

\* The cells of the tables of transitions in which there is one.
Transitions ==
  {t \in (DOMAIN mem_region) \X (1 .. AlphabetSize) : outs[t[1]][t[2]] # NULL}

\* Each is printed once: no two have the same state and character.
TransitionLines ==
  {<<t[1], Alphabet[t[2]], outs[t[1]][t[2]]>> : t \in Transitions}

Node(k) == [index |-> k, nfastates |-> mem_region[k]]

GenDFAGraphviz ==
  [accepting   |-> {Node(k) : k \in accepts},
   normal      |-> {Node(k) : k \in NormalStates},
   transitions |-> TransitionLines]

-----------------------------------------------------------------------------
\* The sets hold states of the NFA, the indices refer to states that exist.
TypeOK ==
  /\ nfa \in NFAs
  /\ DOMAIN mem_region = 0 .. NewIndex - 1 /\ DOMAIN outs = DOMAIN mem_region
  /\ \A k \in DOMAIN mem_region :
       /\ mem_region[k] \subseteq nfa.mem_region
       /\ outs[k] \in [1 .. AlphabetSize -> DOMAIN mem_region \cup {NULL}]
  /\ is_accept \subseteq DOMAIN mem_region /\ accepts \subseteq DOMAIN mem_region
  /\ worklist \in Seq(DOMAIN mem_region)
  /\ q \in DOMAIN mem_region \cup {NULL} /\ char \in 0 .. AlphabetSize + 1
  /\ pc \in {"start", "worklist", "outs", "tables", "done", "failed"}

\* Two DFA states never stand for the same set of NFA states, although
\* set_insert() into mem_region and the worklist, whose compare_sets() has no
\* order, looks at the head only: duplicates are kept out by set_find() before.
StatesDistinct ==
  /\ \A k, l \in DOMAIN mem_region : k # l => mem_region[k] # mem_region[l]
  /\ \A i, j \in 1 .. Len(worklist) : i # j => worklist[i] # worklist[j]

\* The position in the alphabet up to which the transitions of k are computed.
Computed(k) ==
  IF \E i \in 1 .. Len(worklist) : worklist[i] = k THEN 0
  ELSE IF pc = "outs" /\ k = q THEN char - 1
  ELSE AlphabetSize

\* A state is off the worklist only once all its transitions are there, and each
\* leads to the set of NFA states that its own set reaches: also when the
\* destination is the state at hand or one that is still on the worklist.
TransitionsExact ==
  \A k \in DOMAIN mem_region : \A i \in 1 .. AlphabetSize :
    LET t == EpsilonClosureDelta(mem_region[k], Alphabet[i])
    IN  IF i > Computed(k) \/ t = {} THEN outs[k][i] = NULL
        ELSE outs[k][i] # NULL /\ mem_region[outs[k][i]] = t

-----------------------------------------------------------------------------
\* minimize() is only ever called with an automaton as Automata describes: two
\* states at least, none from which no word is accepted, and the start state,
\* state 0, never entered again.
HandsOverDFA ==
  pc = "done" =>
    /\ IsDFA(dfa) /\ IsTrim(dfa)
    /\ \A p \in StateOf(dfa), c \in SymbolOf(dfa) : dfa.delta[p][c] # 0

Run(word) ==
  LET at[n \in 0 .. Len(word)] ==
        IF n = 0 THEN 0
        ELSE Out(dfa, at[n - 1], CHOOSE c \in SymbolOf(dfa) :
                                   Alphabet[c + 1] = word[n])
  IN  at[Len(word)]

\* All characters that the states of the NFA read, whatever its bitfields say.
ReadCharacters == {nfa.states[s].ch : s \in DOMAIN nfa.states} \ {EPSILON}

\* "the NFA's equivalent DFA" (dfa.c:215): the DFA accepts a word exactly if the
\* NFA does, and the alphabet it was given lacks no character for that.
SameLanguage ==
  pc = "done" =>
    \A w \in WordsUpTo(ReadCharacters, WordBound) :
      (ToSet(w) \subseteq nfa.alphabet /\ Accepts(dfa, Run(w))) <=> AcceptsWord(nfa, w)

\* Where a word leads from d0 by the lines of a graph: {} if a line is missing.
Follow(graph, word) ==
  LET at[n \in 0 .. Len(word)] ==
        IF n = 0 THEN {0}
        ELSE LET before == at[n - 1]
             IN  {line[3] : line \in {t \in graph.transitions :
                                       t[1] \in before /\ t[2] = word[n]}}
  IN  at[Len(word)]

\* "a Graphviz dot representation of a DFA" (dfa.c:389): every state is drawn once,
\* as the set accepts and the flags that keep the others apart agree, with the NFA
\* states it stands for, and following the lines of the graph decides for each word
\* whether the NFA accepts it.
GraphShowsDFA ==
  pc = "done" =>
    LET graph == GenDFAGraphviz
        nodes == graph.accepting \cup graph.normal
    IN  /\ Cardinality(graph.accepting) + Cardinality(graph.normal) = dfa.size
        /\ {node.nfastates : node \in nodes} = {mem_region[k] : k \in DOMAIN mem_region}
        /\ \A w \in WordsUpTo(nfa.alphabet, WordBound) :
             (Follow(graph, w) \cap {node.index : node \in graph.accepting} # {})
               <=> AcceptsWord(nfa, w)

\* The worklist runs empty: convert_nfa_to_dfa() returns a DFA or, if the tables
\* do not fit in memory, NULL.
Terminates == <>(pc \in {"done", "failed"})
=============================================================================
