------------------------------- MODULE Graphviz -------------------------------
(***************************************************************************)
(* gen_minimal_dfa_graphviz() of minimize.c: the states and transitions of *)
(* a minimal DFA, written to a file.  A transition is a cell of delta that *)
(* is not empty, written with the label that the steps of Label write.     *)
(***************************************************************************)
EXTENDS Integers

CONSTANTS Width, Everything  \* as in Label

ASSUME WidthAssumption == Width \in Nat \ {0}
ASSUME EverythingAssumption ==
  /\ Everything \subseteq 0 .. 2 * Width - 1
  /\ Width - 1 \in Everything => Width - 2 \in Everything

VARIABLES
  min_dfa,    \* size, accepts, is_accept (the states that have that member
              \* set) and delta, whose cells are pairs of bitfields
  file,       \* what was written to the file, NoFile if it was not opened
  cell,       \* loop variables i and j: delta[i][j] is cell i * size + j
  writing,    \* "begin", "cells", "label", "closed", "failed"
  lower, upper, bitfield, i, left, right, named, label  \* of the label

L == INSTANCE Label WITH pc <- label

labelVars == <<lower, upper, bitfield, i, left, right, named, label>>
graphVars == <<min_dfa, file, cell, writing, labelVars>>

NoFile == [accepting |-> {}, normal |-> {}, edges |-> {}, exists |-> FALSE]
NoDFA == [size |-> 0, accepts |-> {}, is_accept |-> {}, delta |-> <<>>]

\* What minimize() returns: the accepting states have their flag set
\* (MinimalStates!IsMinimal), the bitfields of every cell have Width bits.
IsMinimalDFA(d) ==
  /\ d.size \in Nat /\ d.accepts \subseteq 0 .. d.size - 1
  /\ d.is_accept = d.accepts
  /\ \A p, q \in 0 .. d.size - 1 :
       {d.delta[p][q].lower, d.delta[p][q].upper} \subseteq SUBSET (0 .. Width - 1)

States == 0 .. min_dfa.size - 1

GraphInit ==
  /\ min_dfa = NoDFA /\ file = NoFile
  /\ cell = 0 /\ writing = "begin"
  /\ lower = {} /\ upper = {} /\ bitfield = {}
  /\ i = 0 /\ left = 0 /\ right = 0
  /\ named = {} /\ label = "stop"

OpenFails ==
  /\ writing = "begin"
  /\ writing' = "failed"
  /\ UNCHANGED <<min_dfa, file, cell, labelVars>>

WriteNodes ==
  /\ writing = "begin"
  /\ file' = [NoFile EXCEPT !.exists = TRUE, !.accepting = min_dfa.accepts,
                            !.normal = States \ min_dfa.is_accept]
  /\ writing' = "cells"
  /\ UNCHANGED <<min_dfa, cell, labelVars>>

Row == cell \div min_dfa.size
Column == cell % min_dfa.size
Cell == min_dfa.delta[Row][Column]
InTable == cell < min_dfa.size * min_dfa.size

SkipCell ==
  /\ writing = "cells" /\ InTable
  /\ Cell.lower = {} /\ Cell.upper = {}
  /\ cell' = cell + 1
  /\ UNCHANGED <<min_dfa, file, writing, labelVars>>

\* generate_transition_label(f, lower, upper)
BeginLabel ==
  /\ writing = "cells" /\ InTable
  /\ Cell.lower # {} \/ Cell.upper # {}
  /\ lower' = Cell.lower /\ upper' = Cell.upper
  /\ bitfield' = Cell.lower
  /\ i' = 0 /\ left' = 0 /\ right' = 0
  /\ named' = {} /\ label' = "start"
  /\ writing' = "label"
  /\ UNCHANGED <<min_dfa, file, cell>>

InLabel ==
  /\ writing = "label" /\ L!Step
  /\ UNCHANGED <<min_dfa, file, cell, writing>>

EndLabel ==
  /\ writing = "label" /\ L!Done
  /\ file' = [file EXCEPT !.edges = @ \cup {<<Row, Column, named>>}]
  /\ cell' = cell + 1
  /\ writing' = "cells"
  /\ UNCHANGED <<min_dfa, labelVars>>

Close ==
  /\ writing = "cells" /\ ~ InTable
  /\ writing' = "closed"
  /\ UNCHANGED <<min_dfa, file, cell, labelVars>>

WriteGraph ==
  OpenFails \/ WriteNodes \/ SkipCell \/ BeginLabel \/ InLabel \/ EndLabel \/ Close

-----------------------------------------------------------------------------
\* Every label written is that of its transition, as Label says.
LabelsNameChars == L!NamesChars

\* A range that is written cannot be extended, except after the last bit of lower.
LabelsAreWhole == L!ChunksAreWhole
=============================================================================
