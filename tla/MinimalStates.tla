---------------------------- MODULE MinimalStates ----------------------------
(***************************************************************************)
(* minimize.c after quotient(): construct_minimal_states(), which collects *)
(* the states that were left unmarked into equivalence classes, and        *)
(* construct_transition_table().                                           *)
(*                                                                         *)
(* The table is the one quotient() leaves behind (QuotientExact): 1 for an *)
(* inseparable pair, 0 for a separable one.  A row that has been collected *)
(* is flagged by overwriting its cell merge[i][i+1], a verdict, with       *)
(* VISITED.  collect_equivalents() calls itself for every equivalent it    *)
(* finds; calls holds the activation records, with j = i before the first  *)
(* cell of the row is looked at.                                           *)
(*                                                                         *)
(* Out of memory, an init_*() function returns NULL, which is reported,    *)
(* but set_insert() returns INSERT_ERROR, which nobody looks at.           *)
(***************************************************************************)
EXTENDS Automata, Sequences, FiniteSetsExt

CONSTANTS DFAs,           \* the automata that quotient() has returned for
          ShortOfMemory   \* those for which memory may also be scarce

ASSUME DFAsAssumption == \A d \in DFAs : IsDFA(d) /\ IsTrim(d)
ASSUME MemoryAssumption == ShortOfMemory \subseteq DFAs

VISITED == -1
UNINIT  == 2

NULL == -1

VARIABLES
  dfa,                   \* the automaton being minimized, never written
  scarce,                \* whether calloc() may return NULL
  merge,                 \* min_dfa->merge
  collected_last_state,  \* min_dfa->collected_last_state
  row,                   \* loop variable i of construct_minimal_states()
  min_set,               \* the class being collected
  calls,                 \* calls of collect_equivalents()
  state_index,           \* index of the next minimal state
  mem_region,            \* min_dfa->mem_region: the minimal states
  accepts, start,        \* min_dfa->accepts and ->start, as indices
  size, delta,           \* min_dfa->size and ->delta
  todo,                  \* minimal states whose row of delta is still empty
  pc

given == <<dfa, scarce>>
vars == <<given, merge, collected_last_state, row, min_set, calls, state_index,
          mem_region, accepts, start, size, delta, todo, pc>>

tableVars == <<size, delta, todo>>
stateVars == <<state_index, mem_region, accepts, start>>

Rows == dfa.size - 1
Cols == dfa.size

ExactMerge(d) ==
  LET Same == InseparablePair(d)
  IN  [i \in 0 .. d.size - 2 |-> [j \in StateOf(d) |->
         IF j <= i THEN UNINIT ELSE IF <<i, j>> \in Same THEN 1 ELSE 0]]

Init ==
  /\ dfa \in DFAs
  /\ scarce \in BOOLEAN /\ (scarce => dfa \in ShortOfMemory)
  /\ merge = ExactMerge(dfa)
  /\ collected_last_state = FALSE
  /\ row = 0 /\ min_set = {} /\ calls = <<>>
  /\ state_index = 0 /\ mem_region = {} /\ accepts = {} /\ start = NULL
  /\ size = 0 /\ delta = <<>> /\ todo = {}
  /\ pc = "rows"

-----------------------------------------------------------------------------
\* What a set may be after set_insert(): the caller cannot tell.
Lost(S) == IF scarce THEN {S} ELSE {}
Inserted(S, e) == {S \cup {e}} \cup Lost(S)

\* Mutant: the flag is looked for on the diagonal.
IsVisitedOnDiagonal(i) == merge[i][i] = VISITED

IsVisited(i) == merge[i][i + 1] = VISITED

(* construct_minimal_states(): one class per row that is not collected yet. *)

\* Mutant: the loop continues with the same row.
SkipVisitedRowInPlace ==
  /\ pc = "rows" /\ row < Rows /\ IsVisited(row)
  /\ UNCHANGED vars

SkipVisitedRow ==
  /\ pc = "rows" /\ row < Rows /\ IsVisited(row)
  /\ row' = row + 1
  /\ UNCHANGED <<given, merge, collected_last_state, min_set, calls, stateVars,
                 tableVars, pc>>

StartClass ==
  /\ pc = "rows" /\ row < Rows /\ ~IsVisited(row)
  /\ min_set' \in Inserted({}, row)
  /\ calls' = <<[i |-> row, j |-> row]>>
  /\ pc' = "collect"
  /\ UNCHANGED <<given, merge, collected_last_state, row, stateVars, tableVars>>

-----------------------------------------------------------------------------
(* collect_equivalents(): the innermost call is the last of calls.         *)

Top == calls[Len(calls)]

Return ==
  /\ calls' = SubSeq(calls, 1, Len(calls) - 1)
  /\ pc' = IF Len(calls) = 1 THEN "class" ELSE "collect"
  /\ UNCHANGED <<given, row, min_set, stateVars, tableVars>>

\* Mutant: the last state is not flagged as collected.
ReachLastStateUnflagged ==
  /\ pc = "collect" /\ Top.i = Rows
  /\ Return
  /\ UNCHANGED <<merge, collected_last_state>>

ReachLastState ==
  /\ pc = "collect" /\ Top.i = Rows
  /\ collected_last_state' = TRUE
  /\ Return
  /\ UNCHANGED merge

ReturnFromVisitedRow ==
  /\ pc = "collect" /\ Top.i # Rows /\ Top.j = Top.i
  /\ IsVisited(Top.i)
  /\ Return
  /\ UNCHANGED <<merge, collected_last_state>>

EnterRow ==
  /\ pc = "collect" /\ Top.i # Rows /\ Top.j = Top.i
  /\ ~IsVisited(Top.i)
  /\ calls' = [calls EXCEPT ![Len(calls)].j = @ + 1]
  /\ UNCHANGED <<given, merge, collected_last_state, row, min_set, stateVars,
                 tableVars, pc>>

InRow == pc = "collect" /\ Top.i < Top.j

SkipDistinguished ==
  /\ InRow /\ Top.j < Cols /\ merge[Top.i][Top.j] = 0
  /\ calls' = [calls EXCEPT ![Len(calls)].j = @ + 1]
  /\ UNCHANGED <<given, merge, collected_last_state, row, min_set, stateVars,
                 tableVars, pc>>

\* Mutant: the recursion goes on with the row at hand.
TakeEquivalentInRow ==
  /\ InRow /\ Top.j < Cols /\ merge[Top.i][Top.j] # 0
  /\ min_set' \in Inserted(min_set, Top.j)
  /\ calls' = Append([calls EXCEPT ![Len(calls)].j = @ + 1],
                     [i |-> Top.i, j |-> Top.i])
  /\ UNCHANGED <<given, merge, collected_last_state, row, stateVars, tableVars,
                 pc>>

TakeEquivalent ==
  /\ InRow /\ Top.j < Cols /\ merge[Top.i][Top.j] # 0
  /\ min_set' \in Inserted(min_set, Top.j)
  /\ calls' = Append([calls EXCEPT ![Len(calls)].j = @ + 1],
                     [i |-> Top.j, j |-> Top.j])
  /\ UNCHANGED <<given, merge, collected_last_state, row, stateVars, tableVars,
                 pc>>

\* Mutant: a collected row is not marked.
LeaveRowUnmarked ==
  /\ InRow /\ Top.j = Cols
  /\ Return
  /\ UNCHANGED <<merge, collected_last_state>>

MarkRowVisited ==
  /\ InRow /\ Top.j = Cols
  /\ merge' = [merge EXCEPT ![Top.i][Top.i + 1] = VISITED]
  /\ Return
  /\ UNCHANGED collected_last_state

-----------------------------------------------------------------------------
(* The minimal states: a class, its index and whether it accepts.          *)

Classes == {m.states : m \in mem_region}

\* The element at the head of a sorted set; none if its insertion was lost.
First(S) == IF S = {} THEN NULL ELSE Min(S)

\* Comparing an empty class with another one follows a NULL pointer.
Comparable(S) == mem_region = {} \/ {} \notin Classes \cup {S}

\* set_insert(mem_region, min_set): a class that begins like another is a
\* duplicate.
WithState(m) ==
  LET isDuplicate == \E T \in Classes : First(T) = First(m.states)
  IN  Lost(mem_region) \cup
      {M \in {IF isDuplicate THEN mem_region ELSE mem_region \cup {m}} :
         Comparable(m.states)}

AddMinimalState(S) ==
  LET accepting == S \cap dfa.accepts # {}
  IN  /\ state_index' = state_index + 1
      /\ accepts' \in IF accepting THEN Inserted(accepts, state_index)
                                   ELSE {accepts}
      /\ mem_region' \in WithState([states    |-> S,
                                    index     |-> state_index,
                                    is_accept |-> accepting])

\* Mutant: the class added last becomes the start state.
AddClassAsStart ==
  /\ pc = "class"
  /\ AddMinimalState(min_set)
  /\ start' = state_index
  /\ row' = row + 1
  /\ pc' = "rows"
  /\ UNCHANGED <<given, merge, collected_last_state, min_set, calls, tableVars>>

AddClass ==
  /\ pc = "class"
  /\ AddMinimalState(min_set)
  /\ start' = IF row = 0 THEN state_index ELSE start
  /\ row' = row + 1
  /\ pc' = "rows"
  /\ UNCHANGED <<given, merge, collected_last_state, min_set, calls, tableVars>>

\* Mutant: the last state is added even if it was collected.
AddLastStateAlways ==
  /\ pc = "rows" /\ row = Rows
  /\ min_set' \in Inserted({}, Rows)
  /\ AddMinimalState(min_set')
  /\ size' = Cardinality(mem_region')
  /\ pc' = "allocate"
  /\ UNCHANGED <<given, merge, collected_last_state, row, calls, start, delta,
                 todo>>

\* The last state has no row.  It is a class of its own unless collected.
AddLastState ==
  /\ pc = "rows" /\ row = Rows /\ ~collected_last_state
  /\ min_set' \in Inserted({}, Rows)
  /\ AddMinimalState(min_set')
  /\ size' = Cardinality(mem_region')
  /\ pc' = "allocate"
  /\ UNCHANGED <<given, merge, collected_last_state, row, calls, start, delta,
                 todo>>

LastStateCollected ==
  /\ pc = "rows" /\ row = Rows /\ collected_last_state
  /\ size' = Cardinality(mem_region)
  /\ pc' = "allocate"
  /\ UNCHANGED <<given, merge, collected_last_state, row, min_set, calls,
                 stateVars, delta, todo>>

-----------------------------------------------------------------------------
(* construct_transition_table(): delta[i][j] is the set of the characters  *)
(* on which minimal state i goes to minimal state j.                       *)

AllocateTable ==
  /\ pc = "allocate"
  /\ delta' = [i \in 0 .. size - 1 |-> [j \in 0 .. size - 1 |-> {}]]
  /\ todo' = mem_region
  /\ pc' = "fill"
  /\ UNCHANGED <<given, merge, collected_last_state, row, min_set, calls,
                 stateVars, size>>

\* mem_region is sorted by the heads of the classes.
FirstOf(M) == CHOOSE m \in M : \A n \in M : First(m.states) <= First(n.states)

\* find_min_set()
Holders(p) == {m \in mem_region : p \in m.states}

\* The state that stands for the class m, and where it goes on a character.
Target(m, c) == Out(dfa, First(m.states), c)

IsFillable(m) ==
  /\ m.states # {} /\ m.index < size
  /\ \A c \in SymbolOf(dfa) :
       Target(m, c) # DEAD_STATE =>
         /\ Holders(Target(m, c)) # {}
         /\ FirstOf(Holders(Target(m, c))).index < size

FillRow ==
  /\ pc = "fill" /\ todo # {}
  /\ LET m == FirstOf(todo) IN
       /\ IsFillable(m)
       /\ delta' = [delta EXCEPT ![m.index] = [j \in 0 .. size - 1 |->
                      {c \in SymbolOf(dfa) :
                         /\ Target(m, c) # DEAD_STATE
                         /\ FirstOf(Holders(Target(m, c))).index = j}]]
       /\ todo' = todo \ {m}
  /\ UNCHANGED <<given, merge, collected_last_state, row, min_set, calls,
                 stateVars, size, pc>>

Finish ==
  /\ pc = "fill" /\ todo = {}
  /\ pc' = "done"
  /\ UNCHANGED <<given, merge, collected_last_state, row, min_set, calls,
                 stateVars, tableVars>>

-----------------------------------------------------------------------------
(* Running out of memory.                                                  *)

\* init_set(), init_minimal_dfastate() or calloc() fails: NULL is returned.
ReturnNull ==
  /\ scarce
  /\ \/ pc = "rows" /\ row < Rows /\ ~IsVisited(row)
     \/ pc = "rows" /\ row = Rows /\ ~collected_last_state
     \/ pc \in {"class", "allocate"}
  /\ pc' = "failed"
  /\ UNCHANGED <<given, merge, collected_last_state, row, min_set, calls,
                 stateVars, tableVars>>

\* An element that is missing, because its insertion failed, is needed.
UseMissing ==
  /\ \/ pc = "class" /\ ~Comparable(min_set)
     \/ /\ pc = "rows" /\ row = Rows /\ ~collected_last_state
        /\ \E S \in Inserted({}, Rows) : ~Comparable(S)
     \/ pc = "fill" /\ todo # {} /\ ~IsFillable(FirstOf(todo))
  /\ pc' = "undefined"
  /\ UNCHANGED <<given, merge, collected_last_state, row, min_set, calls,
                 stateVars, tableVars>>

-----------------------------------------------------------------------------
Stopped == pc \in {"done", "failed", "undefined"} /\ UNCHANGED vars

Next ==
  \/ SkipVisitedRow \/ StartClass
  \/ ReachLastState \/ ReturnFromVisitedRow \/ EnterRow
  \/ SkipDistinguished \/ TakeEquivalent \/ MarkRowVisited
  \/ AddClass \/ AddLastState \/ LastStateCollected
  \/ AllocateTable \/ FillRow \/ Finish
  \/ ReturnNull \/ UseMissing \/ Stopped

Spec == Init /\ [][Next]_vars

\* The only thread runs whenever it can.
FairSpec == Spec /\ WF_vars(Next)

-----------------------------------------------------------------------------
Call == [i : StateOf(dfa), j : 0 .. Cols]

MinimalState == [states    : SUBSET StateOf(dfa),
                 index     : StateOf(dfa),
                 is_accept : BOOLEAN]

\* The variables have the types of the members of MinimalDFA and of the locals
\* of the two functions; the recursion climbs to higher rows only.
TypeOK ==
  /\ dfa \in DFAs /\ scarce \in BOOLEAN
  /\ merge \in [0 .. Rows - 1 -> [StateOf(dfa) -> {0, 1, VISITED, UNINIT}]]
  /\ collected_last_state \in BOOLEAN
  /\ row \in 0 .. Rows /\ min_set \subseteq StateOf(dfa)
  /\ calls \in Seq(Call) /\ Len(calls) <= Cols
  /\ \A k \in 1 .. Len(calls) - 1 : calls[k].i < calls[k + 1].i
  /\ state_index \in 0 .. Cols /\ mem_region \subseteq MinimalState
  /\ accepts \subseteq StateOf(dfa) /\ start \in StateOf(dfa) \cup {NULL}
  /\ todo \subseteq mem_region
  /\ pc \in {"rows", "collect", "class", "allocate", "fill", "done", "failed",
            "undefined"}

\* The flag that a row was visited overwrites a verdict of that row; it is
\* never taken for one, although "visited" and "equivalent" are both true in C.
FlagNotReadAsVerdict ==
  InRow /\ Top.j < Cols => merge[Top.i][Top.j] \in {0, 1}

\* A state is in at most one class, as compare_minimal_sets() assumes when it
\* compares only the heads, whichever insertions were lost.
ClassesDisjoint ==
  \A m, n \in mem_region : m # n => m.states \cap n.states = {}

\* Between two classes the visited flags and collected_last_state say of
\* exactly the collected states that they were collected.
CollectedIffFlagged ==
  pc = "rows" /\ ~scarce =>
    /\ \A p \in 0 .. Rows - 1 : IsVisited(p) <=> p \in UNION Classes
    /\ collected_last_state <=> Rows \in UNION Classes

\* Every class is all the states that no suffix separates from one of them:
\* the recursion neither stops early nor runs into another class.
ClassesAreWhole ==
  ~scarce =>
    LET Same == InseparablePair(dfa)
    IN  \A m \in mem_region : \A p \in m.states :
          m.states = {q \in StateOf(dfa) : Related(Same, p, q)}

-----------------------------------------------------------------------------
(* The automaton that was built.                                           *)

IndexOf(p) == IF p = DEAD_STATE THEN DEAD_STATE
              ELSE (CHOOSE m \in mem_region : p \in m.states).index

MinimalDFA ==
  [size          |-> size,
   alphabet_size |-> dfa.alphabet_size,
   delta         |-> [i \in 0 .. size - 1 |-> [c \in SymbolOf(dfa) |->
                        IF \E j \in 0 .. size - 1 : c \in delta[i][j]
                        THEN CHOOSE j \in 0 .. size - 1 : c \in delta[i][j]
                        ELSE DEAD_STATE]],
   accepts       |-> accepts]

\* Merging states changes no transition: every state of the DFA, not only the
\* one its class is read from, moves with its class, so the minimal DFA accepts
\* the same words.  No character leads to two minimal states.
SameLanguage ==
  pc = "done" /\ ~scarce =>
    /\ start = IndexOf(0)
    /\ \A p \in StateOf(dfa) :
         /\ Accepts(dfa, p) <=> Accepts(MinimalDFA, IndexOf(p))
         /\ \A c \in SymbolOf(dfa) :
              IndexOf(Out(dfa, p, c)) = Out(MinimalDFA, IndexOf(p), c)
    /\ \A i, j, k \in 0 .. size - 1 : j # k => delta[i][j] \cap delta[i][k] = {}

\* "Tsuquo compiles a regular expression to a minimal deterministic finite
\* automaton" (README.md:3): some suffix separates any two of its states, and
\* is_accept and the set of accepting states agree.
IsMinimal ==
  pc = "done" /\ ~scarce =>
    /\ {m.index : m \in mem_region} = 0 .. size - 1
    /\ LivePair(MinimalDFA) \cap InseparablePair(MinimalDFA) = {}
    /\ accepts = {m.index : m \in {n \in mem_region : n.is_accept}}

\* With enough memory the minimal DFA is eventually built.
BuildsMinimalDFA == ~scarce => <>(pc = "done")
=============================================================================
