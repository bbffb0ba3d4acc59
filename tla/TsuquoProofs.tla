----------------------------- MODULE TsuquoProofs -----------------------------
(***************************************************************************)
(* Proofs about the program as a whole, for every set of inputs, whatever  *)
(* the lines are compiled to.  There is an invariant for each of           *)
(*   labels    what the characters named so far are (LabelInv),            *)
(*   the file  the transitions written so far (GraphInv),                  *)
(*   memory    what is allocated is held, or was lost in a call that       *)
(*             failed (MemoryInv),                                         *)
(*   main()    whose line and name are at hand (DriverInv).                *)
(***************************************************************************)
EXTENDS Tsuquo, NumberFacts, SequenceTheorems, TLAPS

-----------------------------------------------------------------------------
(* Labels.                                                                 *)

\* The characters that the loop sees: all of them, unless the chunk that begins
\* with the last bit of lower makes it forget upper.
Read == IF L!LosesUpper THEN lower ELSE L!Chars

\* The bits that are left, where they are in the field that is being read.
BitsLeft ==
  \A b \in Int : b \in bitfield <=>
    b >= 0 /\ b + i \in IF i < Width THEN lower ELSE Read

\* Up to here the characters read are named.
NamedUpTo(n) == \A ch \in Int : ch \in named <=> ch < n /\ ch \in Read

Fields ==
  /\ lower \subseteq 0 .. Width - 1 /\ upper \subseteq 0 .. Width - 1
  /\ bitfield \subseteq Int /\ named \subseteq Int
  /\ i \in Nat

LabelInv ==
  /\ Fields
  /\ label \in {"start", "skip", "chunk", "stop"}
  /\ label = "start" => i = 0 /\ bitfield = lower /\ named = {}
  /\ label = "skip" =>
       /\ BitsLeft /\ NamedUpTo(i)
       /\ 0 \in bitfield => i - 1 \notin Read
  /\ label = "chunk" =>
       /\ BitsLeft /\ NamedUpTo(left)
       /\ left \in Nat /\ right = i - 1 /\ left <= right
       /\ left .. right \subseteq Read /\ left - 1 \notin Read
  /\ label = "stop" => named = Read

LEMMA ReadFacts ==
  ASSUME Fields
  PROVE  /\ Width \in Nat /\ Width > 0
         /\ Read \subseteq 0 .. 2 * Width - 1
         /\ L!Chars \subseteq 0 .. 2 * Width - 1
         /\ \A ch \in 0 .. Width - 1 : ch \in lower <=> ch \in Read
         /\ L!LosesUpper => Read = lower
         /\ ~ L!LosesUpper => Read = L!Chars
  <1>1. Width \in Nat /\ Width > 0
    BY WidthAssumption
  <1>2. \A b \in upper : Width + b \in Width .. 2 * Width - 1
    BY <1>1 DEF Fields
  <1>3. lower \subseteq 0 .. 2 * Width - 1
    BY <1>1 DEF Fields
  <1>4. L!Chars \subseteq 0 .. 2 * Width - 1
    <2>1. \A b \in upper : Width + b \in 0 .. 2 * Width - 1
      BY <1>1, <1>2
    <2>2. {Width + b : b \in upper} \subseteq 0 .. 2 * Width - 1
      BY <2>1
    <2> QED
      BY <1>3, <2>2 DEF L!Chars
  <1>5. \A ch \in 0 .. Width - 1 : ch \in lower <=> ch \in L!Chars
    BY <1>1, <1>2 DEF L!Chars
  <1> QED
    BY <1>1, <1>3, <1>4, <1>5 DEF Read

LEMMA UpperFacts ==
  ASSUME Fields, ~ L!LosesUpper
  PROVE  \A b \in Int : b \in upper <=> b >= 0 /\ b + Width \in Read
  <1>1. /\ Width \in Nat /\ Width > 0 /\ Read = L!Chars
        /\ lower \subseteq 0 .. Width - 1 /\ upper \subseteq 0 .. Width - 1
    BY ReadFacts DEF Fields
  <1>2. ASSUME NEW b \in Int, b >= 0, b + Width \in Read PROVE b \in upper
    <2>1. b + Width \notin lower
      BY <1>1, <1>2
    <2>2. PICK x \in upper : b + Width = Width + x
      BY <1>1, <1>2, <2>1 DEF L!Chars
    <2> QED
      BY <1>1, <2>2
  <1>3. ASSUME NEW b \in Int, b \in upper PROVE b >= 0 /\ b + Width \in Read
    BY <1>1, <1>3 DEF L!Chars
  <1> QED
    BY <1>2, <1>3

LEMMA ShiftedFacts ==
  ASSUME Fields, BitsLeft
  PROVE  /\ L!Shifted \subseteq Int
         /\ \A b \in Int : b \in L!Shifted <=>
              b >= 0 /\ b + (i + 1) \in IF i < Width THEN lower ELSE Read
  BY DEF Fields, BitsLeft, L!Shifted

LEMMA LabelStart ==
  ASSUME LabelInv, L!Start
  PROVE  LabelInv'
  <1>1. Fields' /\ Read' = Read /\ label = "start" /\ label' \in {"skip", "stop"}
    <2>1. Everything \subseteq Int
      BY WidthAssumption, EverythingAssumption
    <2>2. Fields' /\ label = "start" /\ label' \in {"skip", "stop"}
      BY <2>1 DEF LabelInv, L!Start, Fields
    <2>3. Read' = Read
      BY DEF L!Start, Read, L!LosesUpper, L!Chars
    <2> QED
      BY <2>2, <2>3
  <1>2. CASE L!Chars = Everything
    <2>1. named' = L!Chars /\ label' = "stop"
      BY <1>2 DEF L!Start
    <2>2. ~ L!LosesUpper
      BY <1>2, WidthAssumption, EverythingAssumption DEF L!LosesUpper, L!Chars, LabelInv, Fields
    <2> QED
      BY <1>1, <2>1, <2>2 DEF LabelInv, Read
  <1>3. CASE L!Chars # Everything
    <2>1. label' = "skip" /\ named' = {} /\ i' = 0 /\ bitfield' = lower
      BY <1>1, <1>3 DEF L!Start, LabelInv
    <2>2. BitsLeft' /\ NamedUpTo(i)' /\ -1 \notin Read'
      BY <1>1, <2>1, ReadFacts DEF LabelInv, BitsLeft, NamedUpTo, Fields, L!Start
    <2> QED
      BY <1>1, <2>1, <2>2 DEF LabelInv
  <1> QED
    BY <1>2, <1>3

LEMMA LabelSkipZero ==
  ASSUME LabelInv, L!SkipZero
  PROVE  LabelInv'
  <1>1. /\ Fields /\ BitsLeft /\ NamedUpTo(i) /\ 0 \notin bitfield
        /\ label = "skip" /\ i' = i + 1 /\ UNCHANGED <<lower, upper, named>>
        /\ label' \in {"skip", "stop"}
        /\ label' = "stop" => i + 1 >= 2 * Width
        /\ bitfield' = IF i + 1 = Width THEN upper ELSE L!Shifted
    BY DEF LabelInv, L!SkipZero, L!ShiftOn, NamedUpTo
  <1>2. Read' = Read
    BY <1>1 DEF Read, L!LosesUpper, L!Chars
  <1>3. i \notin Read
    <2>1. CASE i < Width
      BY <1>1, <2>1, ReadFacts DEF BitsLeft, Fields
    <2>2. CASE ~ (i < Width)
      BY <1>1, <2>2, ReadFacts DEF BitsLeft, Fields
    <2> QED
      BY <2>1, <2>2
  <1>4. Fields' /\ BitsLeft'
    <2>1. CASE i + 1 = Width
      <3>1. ~ L!LosesUpper
        BY <1>1, <1>3, <2>1, ReadFacts DEF L!LosesUpper, Fields
      <3>2. \A b \in Int : b \in upper <=> b >= 0 /\ b + Width \in Read
        BY <1>1, <3>1, UpperFacts
      <3> QED
        BY <1>1, <1>2, <2>1, <3>2, ReadFacts DEF Fields, BitsLeft
    <2>2. CASE i + 1 # Width
      <3>1. \A b \in Int : b \in L!Shifted <=>
              b >= 0 /\ b + (i + 1) \in IF i + 1 < Width THEN lower ELSE Read
        <4>1. \A b \in Int : b \in L!Shifted <=>
                b >= 0 /\ b + (i + 1) \in IF i < Width THEN lower ELSE Read
          BY <1>1, ShiftedFacts
        <4>2. i < Width <=> i + 1 < Width
          BY <1>1, <2>2, ReadFacts DEF Fields
        <4> QED
          BY <4>1, <4>2
      <3> QED
        BY <1>1, <1>2, <2>2, <3>1, ShiftedFacts, ReadFacts DEF Fields, BitsLeft
    <2> QED
      BY <2>1, <2>2
  <1>5. NamedUpTo(i)'
    BY <1>1, <1>2, <1>3, ReadFacts DEF NamedUpTo, Fields
  <1>6. label' = "stop" => named' = Read'
    <2> SUFFICES ASSUME label' = "stop" PROVE named' = Read'
      OBVIOUS
    <2>1. \A ch \in Read' : ch \in Int /\ ch < i'
      BY <1>1, <1>2, ReadFacts DEF Fields
    <2> QED
      BY <1>1, <1>4, <1>5, <2>1 DEF NamedUpTo, Fields
  <1>7. (i - 1)' \notin Read'
    BY <1>1, <1>2, <1>3 DEF Fields
  <1> QED
    BY <1>1, <1>4, <1>5, <1>6, <1>7 DEF LabelInv

LEMMA LabelBeginChunk ==
  ASSUME LabelInv, L!BeginChunk
  PROVE  LabelInv'
  <1>1. /\ Fields /\ BitsLeft /\ NamedUpTo(i) /\ 0 \in bitfield
        /\ i - 1 \notin Read /\ label' = "chunk"
        /\ i' = i + 1 /\ left' = i /\ right' = i /\ UNCHANGED <<lower, upper, named>>
        /\ bitfield' = L!Shifted
    BY DEF LabelInv, L!BeginChunk
  <1>2. Read' = Read
    BY <1>1 DEF Read, L!LosesUpper, L!Chars
  <1>3. i \in Read /\ (i < Width => i \in lower)
    <2>1. CASE i < Width
      BY <1>1, <2>1, ReadFacts DEF BitsLeft, Fields
    <2>2. CASE ~ (i < Width)
      BY <1>1, <2>2, ReadFacts DEF BitsLeft, Fields
    <2> QED
      BY <2>1, <2>2
  <1>4. \A b \in Int : b \in L!Shifted <=>
          b >= 0 /\ b + (i + 1) \in IF i + 1 < Width THEN lower ELSE Read
    <2>1. CASE i + 1 = Width
      <3>1. i \in lower /\ i - 1 \notin lower
        BY <1>1, <1>3, <2>1, ReadFacts DEF Fields
      <3>2. upper # {} => L!LosesUpper
        BY <1>1, <2>1, <3>1, ReadFacts DEF L!LosesUpper, Fields
      <3>3. Read = lower
        BY <3>2 DEF Read, L!Chars
      <3> QED
        BY <1>1, <2>1, <3>3, ShiftedFacts, ReadFacts DEF Fields
    <2>2. CASE i + 1 # Width
      BY <1>1, <2>2, ShiftedFacts, ReadFacts DEF Fields
    <2> QED
      BY <2>1, <2>2
  <1>5. Fields' /\ BitsLeft'
    BY <1>1, <1>2, <1>4, ShiftedFacts, ReadFacts DEF Fields, BitsLeft
  <1>6. NamedUpTo(left)' /\ (left .. right)' \subseteq Read' /\ (left - 1)' \notin Read'
    BY <1>1, <1>2, <1>3 DEF NamedUpTo, Fields
  <1> QED
    BY <1>1, <1>5, <1>6 DEF LabelInv, Fields

LEMMA LabelExtendChunk ==
  ASSUME LabelInv, L!ExtendChunk
  PROVE  LabelInv'
  <1>1. /\ Fields /\ BitsLeft /\ NamedUpTo(left) /\ 0 \in bitfield
        /\ label = "chunk" /\ label' = label
        /\ left \in Nat /\ right = i - 1 /\ left <= right
        /\ left .. right \subseteq Read /\ left - 1 \notin Read
        /\ i' = i + 1 /\ right' = i /\ UNCHANGED <<lower, upper, named, left>>
        /\ bitfield' = IF i + 1 = Width THEN upper ELSE L!Shifted
    BY DEF LabelInv, L!ExtendChunk, L!ShiftOn
  <1>2. Read' = Read
    BY <1>1 DEF Read, L!LosesUpper, L!Chars
  <1>3. i \in Read
    <2>1. CASE i < Width
      BY <1>1, <2>1, ReadFacts DEF BitsLeft, Fields
    <2>2. CASE ~ (i < Width)
      BY <1>1, <2>2, ReadFacts DEF BitsLeft, Fields
    <2> QED
      BY <2>1, <2>2
  <1>4. Fields' /\ BitsLeft'
    <2>1. CASE i + 1 = Width
      <3>1. i - 1 \in Read
        BY <1>1 DEF Fields
      <3>2. i - 1 \in lower
        BY <1>1, <2>1, <3>1, ReadFacts DEF Fields
      <3>3. ~ L!LosesUpper
        BY <1>1, <2>1, <3>2, ReadFacts DEF L!LosesUpper, Fields
      <3>4. \A b \in Int : b \in upper <=> b >= 0 /\ b + Width \in Read
        BY <1>1, <3>3, UpperFacts
      <3> QED
        BY <1>1, <1>2, <2>1, <3>4, ReadFacts DEF Fields, BitsLeft
    <2>2. CASE i + 1 # Width
      <3>1. \A b \in Int : b \in L!Shifted <=>
              b >= 0 /\ b + (i + 1) \in IF i + 1 < Width THEN lower ELSE Read
        <4>1. \A b \in Int : b \in L!Shifted <=>
                b >= 0 /\ b + (i + 1) \in IF i < Width THEN lower ELSE Read
          BY <1>1, ShiftedFacts
        <4>2. i < Width <=> i + 1 < Width
          BY <1>1, <2>2, ReadFacts DEF Fields
        <4> QED
          BY <4>1, <4>2
      <3> QED
        BY <1>1, <1>2, <2>2, <3>1, ShiftedFacts, ReadFacts DEF Fields, BitsLeft
    <2> QED
      BY <2>1, <2>2
  <1>5. NamedUpTo(left)' /\ (left .. right)' \subseteq Read' /\ (left - 1)' \notin Read'
    BY <1>1, <1>2, <1>3 DEF NamedUpTo, Fields
  <1> QED
    BY <1>1, <1>4, <1>5 DEF LabelInv, Fields

LEMMA LabelPrintChunk ==
  ASSUME LabelInv, L!PrintChunk
  PROVE  LabelInv'
  <1>1. /\ Fields /\ BitsLeft /\ NamedUpTo(left) /\ 0 \notin bitfield
        /\ left \in Nat /\ right = i - 1 /\ left <= right
        /\ left .. right \subseteq Read /\ label' = "skip"
        /\ named' = named \cup left .. right
        /\ UNCHANGED <<lower, upper, bitfield, i>>
    BY DEF LabelInv, L!PrintChunk
  <1>2. Read' = Read
    BY <1>1 DEF Read, L!LosesUpper, L!Chars
  <1>3. Fields' /\ BitsLeft' /\ NamedUpTo(i)'
    BY <1>1, <1>2 DEF Fields, BitsLeft, NamedUpTo
  <1> QED
    BY <1>1, <1>3 DEF LabelInv

-----------------------------------------------------------------------------
(* Memory.                                                                 *)

Releasable == UNION {{"file_name"}, DestroyCmpCtrl, DestroyNFAAndStates,
                     DestroyDFA, DestroyMinimalDFA}

Leaked(calls) == UNION {Unreleased(call) : call \in calls}

\* ABORT finds everything that main() holds, and all else was lost by a call
\* that failed.  Nothing has failed before the conversion but parse().
MemoryInv ==
  /\ held \subseteq Releasable
  /\ heap \subseteq held \cup Leaked(failed)
  /\ at = "exit" => held = {}
  /\ at \in {"args", "name", "cc", "read", "parse"} => failed = {}

LEMMA AbortReleases ==
  ASSUME MemoryInv, NEW call, NEW lost, lost \subseteq Unreleased(call), NEW msg,
         Abort(call, lost, msg)
  PROVE  MemoryInv'
  <1>1. Freed = held
    BY DEF MemoryInv, Releasable, Freed
  <1>2. /\ at' = "exit" /\ held' = {} /\ heap' = (heap \ held) \cup lost
        /\ failed' = failed \cup {call}
    BY <1>1 DEF Abort
  <1>3. Leaked(failed) \subseteq Leaked(failed') /\ lost \subseteq Leaked(failed')
    BY <1>2 DEF Leaked
  <1> QED
    BY <1>2, <1>3 DEF MemoryInv

LEMMA GoOnHolds ==
  ASSUME MemoryInv, NEW place, NEW pieces, pieces \subseteq Releasable,
         GoOn(place, pieces), at # "exit", place # "exit",
         place \in {"args", "name", "cc", "read", "parse"} => failed = {}
  PROVE  MemoryInv'
  BY DEF MemoryInv, GoOn

LEMMA CrashLeavesMemory ==
  ASSUME MemoryInv, NEW call, Crash(call)
  PROVE  MemoryInv'
  BY DEF MemoryInv, Crash, Leaked

LEMMA MemoryStep ==
  ASSUME MemoryInv, [Next]_vars
  PROVE  MemoryInv'
  <1> USE DEF Releasable, DestroyCmpCtrl, DestroyNFAAndStates, DestroyDFA,
              DestroyMinimalDFA
  <1>1. CASE CheckArguments
    BY <1>1, AbortReleases, GoOnHolds DEF CheckArguments, MemoryInv
  <1>2. CASE MakeFileName
    BY <1>2, AbortReleases, GoOnHolds, CrashLeavesMemory DEF MakeFileName, MemoryInv
  <1>3. CASE InitCmpCtrl
    BY <1>3, AbortReleases, GoOnHolds DEF InitCmpCtrl, MemoryInv
  <1>4. CASE ReadFile
    BY <1>4, AbortReleases, GoOnHolds DEF ReadFile, MemoryInv, Unreleased
  <1>5. CASE Parse
    BY <1>5, AbortReleases, GoOnHolds DEF Parse, MemoryInv, Unreleased
  <1>6. CASE ParseOutOfMemory
    BY <1>6, AbortReleases, CrashLeavesMemory DEF ParseOutOfMemory, MemoryInv,
       Unreleased, Leaked
  <1>7. CASE ConvertNFAToDFA
    BY <1>7, AbortReleases, GoOnHolds, CrashLeavesMemory DEF ConvertNFAToDFA,
       Unreleased
  <1>8. CASE Minimize
    <2>1. CASE GoOn("generate", {"min_dfa", "min_dfa->merge", "min_dfa->delta"})
      BY <1>8, <2>1, GoOnHolds DEF Minimize
    <2>2. ASSUME NEW step \in DOMAIN Steps, NEW rows,
                 rows \in {{}, IF step = "init_minimal_dfa" THEN {"min_dfa->merge"}
                              ELSE IF step = "construct_transition_table"
                              THEN {"min_dfa->delta"} ELSE {}},
                 Abort(step, Steps[step] \cup rows, "minimization")
          PROVE  MemoryInv'
      <3>1. step \in {"init_minimal_dfa", "construct_minimal_states",
                      "construct_transition_table"}
        BY DEF Steps
      <3>2. Steps[step] \cup rows \subseteq Unreleased(step)
        <4>1. CASE step = "init_minimal_dfa"
          BY <2>2, <4>1 DEF Steps, Unreleased
        <4>2. CASE step = "construct_minimal_states"
          BY <2>2, <4>2 DEF Steps, Unreleased
        <4>3. CASE step = "construct_transition_table"
          BY <2>2, <4>3 DEF Steps, Unreleased
        <4> QED
          BY <3>1, <4>1, <4>2, <4>3
      <3> QED
        BY <2>2, <3>2, AbortReleases
    <2>3. CASE Crash("minimize")
      BY <2>3, CrashLeavesMemory
    <2> QED
      BY <1>8, <2>1, <2>2, <2>3 DEF Minimize
  <1>9. CASE Generate
    BY <1>9 DEF Generate, driverVars, MemoryInv
  <1>10. CASE Finish
    BY <1>10 DEF Finish, MemoryInv, Freed
  <1>11. CASE Stopped \/ UNCHANGED vars
    BY <1>11 DEF Stopped, vars, driverVars, MemoryInv
  <1> QED
    BY <1>1, <1>2, <1>3, <1>4, <1>5, <1>6, <1>7, <1>8, <1>9, <1>10, <1>11 DEF Next

\* Wherever the program gives up, what is left at its exit was lost inside the
\* call that failed (ABORT, main.c:13).
THEOREM ReleasesAllHolds == Spec => []ReleasesAll
  <1>1. Init => MemoryInv
    BY DEF Init, MemoryInv
  <1>2. MemoryInv => ReleasesAll
    BY DEF MemoryInv, ReleasesAll, Leaked
  <1> QED
    BY <1>1, <1>2, MemoryStep, PTL DEF Spec

-----------------------------------------------------------------------------
(* The file.                                                               *)

\* The characters of a transition.
CharsOf(d, p, q) == d.delta[p][q].lower \cup {Width + b : b \in d.delta[p][q].upper}

\* A line of the file stands for a transition, and may lack characters of upper.
Shows(e) ==
  /\ e[1] \in States /\ e[2] \in States
  /\ CharsOf(min_dfa, e[1], e[2]) # {}
  /\ min_dfa.delta[e[1]][e[2]].lower \subseteq e[3]
  /\ e[3] \subseteq CharsOf(min_dfa, e[1], e[2])

\* The first n cells are written.
EdgesUpTo(n) ==
  /\ \A e \in file.edges : Shows(e)
  /\ \A p, q \in States :
       min_dfa.size * p + q < n /\ CharsOf(min_dfa, p, q) # {}
         => \E e \in file.edges : e[1] = p /\ e[2] = q

FileType == [accepting : SUBSET Int, normal : SUBSET Int,
             edges : SUBSET (Int \X Int \X SUBSET Int), exists : BOOLEAN]

GraphInv ==
  /\ IsMinimalDFA(min_dfa) /\ file \in FileType /\ cell \in Nat
  /\ writing \in {"begin", "cells", "label", "closed", "failed"}
  /\ writing = "begin" => cell = 0
  /\ writing \in {"begin", "failed"} => ~ file.exists
  /\ writing \in {"cells", "label", "closed"} =>
       /\ file.accepting = min_dfa.accepts
       /\ file.normal = States \ min_dfa.accepts
       /\ EdgesUpTo(cell)
  /\ writing = "label" => InTable /\ lower = Cell.lower /\ upper = Cell.upper
                           /\ CharsOf(min_dfa, Row, Column) # {}
  /\ writing = "closed" => ~ InTable

\* The loop variables are a row and a column of the table.
LEMMA CellInTable ==
  ASSUME IsMinimalDFA(min_dfa), cell \in Nat, InTable
  PROVE  /\ Row \in States /\ Column \in States
         /\ Cell.lower \subseteq 0 .. Width - 1 /\ Cell.upper \subseteq 0 .. Width - 1
         /\ \A p, q \in States :
              min_dfa.size * p + q < cell + 1 =>
                \/ min_dfa.size * p + q < cell
                \/ p = Row /\ q = Column
  <1> DEFINE n == min_dfa.size
  <1>1. n \in Nat
    BY DEF IsMinimalDFA
  <1>2. n # 0 /\ cell < n * n
    BY <1>1 DEF InTable
  <1> HIDE DEF n
  <1>3. Row \in Nat /\ Column \in 0 .. n - 1 /\ cell = n * Row + Column
    <2>1. /\ cell \div n \in Nat /\ cell % n \in 0 .. n - 1
          /\ cell = n * (cell \div n) + (cell % n)
      BY <1>1, <1>2, DivisionFacts
    <2> QED
      BY <2>1 DEF n, Row, Column
  <1>4. /\ Row \in 0 .. n - 1
        /\ \A p, q \in 0 .. n - 1 : n * p + q = cell => p = Row /\ q = Column
    BY <1>1, <1>2, <1>3, CellFacts
  <1>5. States = 0 .. n - 1
    BY DEF States, n
  <1>6. \A p, q \in States : n * p + q < cell + 1 =>
          n * p + q < cell \/ (p = Row /\ q = Column)
    <2> SUFFICES ASSUME NEW p \in States, NEW q \in States, n * p + q < cell + 1
                 PROVE  n * p + q < cell \/ (p = Row /\ q = Column)
      OBVIOUS
    <2>1. p \in 0 .. n - 1 /\ q \in 0 .. n - 1
      BY <1>5
    <2>2. n * p + q \in Int
      BY <1>1, <2>1
    <2>3. \A k \in Int : k < cell + 1 => k < cell \/ k = cell
      OBVIOUS
    <2>4. n * p + q < cell \/ n * p + q = cell
      BY <2>2, <2>3
    <2>5. n * p + q = cell => p = Row /\ q = Column
      BY <1>4, <2>1
    <2> QED
      BY <2>4, <2>5
  <1>7. /\ min_dfa.delta[Row][Column].lower \subseteq 0 .. Width - 1
        /\ min_dfa.delta[Row][Column].upper \subseteq 0 .. Width - 1
    BY <1>3, <1>4 DEF IsMinimalDFA, n
  <1> QED
    BY <1>3, <1>4, <1>5, <1>6, <1>7 DEF Cell, n

\* An edge that is there stays true as long as the DFA is the same.
LEMMA EdgesStay ==
  ASSUME EdgesUpTo(cell), min_dfa' = min_dfa, file'.edges = file.edges, cell' = cell
  PROVE  EdgesUpTo(cell)'
  <1>1. States' = States
    BY DEF States
  <1>2. \A e \in file'.edges : Shows(e)'
    BY <1>1 DEF EdgesUpTo, Shows, CharsOf
  <1>3. \A p, q \in States :
          min_dfa.size * p + q < cell /\ CharsOf(min_dfa, p, q) # {}
            => \E e \in file.edges : e[1] = p /\ e[2] = q
    BY DEF EdgesUpTo
  <1> QED
    BY <1>1, <1>2, <1>3 DEF EdgesUpTo, CharsOf

LEMMA GraphInitShape ==
  ASSUME GraphInit
  PROVE  GraphInv /\ LabelInv
  <1>1. IsMinimalDFA(min_dfa)
    BY DEF GraphInit, NoDFA, IsMinimalDFA
  <1>2. file \in FileType /\ ~ file.exists
    BY DEF GraphInit, NoFile, FileType
  <1>3. LabelInv
    BY WidthAssumption DEF GraphInit, LabelInv, Fields, Read, L!LosesUpper, L!Chars
  <1> QED
    BY <1>1, <1>2, <1>3 DEF GraphInv, GraphInit

LEMMA WriteGraphStep ==
  ASSUME GraphInv, LabelInv, WriteGraph
  PROVE  GraphInv' /\ LabelInv'
  <1>0. min_dfa' = min_dfa /\ States' = States /\ IsMinimalDFA(min_dfa)'
    <2>1. min_dfa' = min_dfa
      BY DEF WriteGraph, OpenFails, WriteNodes, SkipCell, BeginLabel, InLabel, EndLabel,
             Close
    <2> QED
      BY <2>1 DEF GraphInv, States, IsMinimalDFA
  <1>1. ASSUME UNCHANGED labelVars PROVE LabelInv'
    <2>1. Read' = Read
      BY <1>1 DEF labelVars, Read, L!LosesUpper, L!Chars
    <2> QED
      BY <1>1, <2>1 DEF labelVars, LabelInv, Fields, BitsLeft, NamedUpTo
  <1>2. CASE OpenFails
    BY <1>0, <1>1, <1>2 DEF OpenFails, GraphInv
  <1>3. CASE WriteNodes
    <2>1. file' \in FileType /\ file'.edges = {}
          /\ file'.accepting = min_dfa.accepts /\ file'.normal = States \ min_dfa.accepts
      <3>1. /\ min_dfa.accepts \in SUBSET Int /\ States \ min_dfa.accepts \in SUBSET Int
            /\ min_dfa.is_accept = min_dfa.accepts
        BY DEF GraphInv, IsMinimalDFA, States
      <3>2. file' = [accepting |-> min_dfa.accepts, normal |-> States \ min_dfa.accepts,
                     edges |-> {}, exists |-> TRUE]
        BY <1>3, <3>1 DEF WriteNodes, NoFile
      <3> QED
        BY <3>1, <3>2 DEF FileType
    <2>2. EdgesUpTo(cell)'
      <3>1. \A p, q \in States : ~ (min_dfa.size * p + q < 0)
        <4>1. \A p \in States : min_dfa.size * p >= 0
          BY DEF GraphInv, IsMinimalDFA, States
        <4> QED
          BY <4>1 DEF GraphInv, IsMinimalDFA, States
      <3> QED
        BY <1>0, <1>3, <2>1, <3>1 DEF WriteNodes, GraphInv, EdgesUpTo
    <2> QED
      BY <1>0, <1>1, <1>3, <2>1, <2>2 DEF WriteNodes, GraphInv
  <1>4. CASE SkipCell
    <2>1. CharsOf(min_dfa, Row, Column) = {}
      BY <1>4 DEF SkipCell, CharsOf, Cell
    <2>2. EdgesUpTo(cell)'
      <3>1. /\ cell' = cell + 1 /\ cell \in Nat /\ InTable /\ file' = file
            /\ EdgesUpTo(cell)
        BY <1>4 DEF SkipCell, GraphInv
      <3>2. \A e \in file'.edges : Shows(e)'
        BY <1>0, <3>1 DEF EdgesUpTo, Shows, CharsOf
      <3>3. ASSUME NEW p \in States, NEW q \in States, min_dfa.size * p + q < cell + 1,
                   CharsOf(min_dfa, p, q) # {}
            PROVE  \E e \in file.edges : e[1] = p /\ e[2] = q
        <4>1. min_dfa.size * p + q < cell
          BY <2>1, <3>1, <3>3, CellInTable DEF GraphInv
        <4> QED
          BY <3>1, <3>3, <4>1 DEF EdgesUpTo
      <3> QED
        BY <1>0, <3>1, <3>2, <3>3 DEF EdgesUpTo, CharsOf
    <2> QED
      BY <1>0, <1>1, <1>4, <2>2 DEF SkipCell, GraphInv
  <1>5. CASE BeginLabel
    <2>1. InTable' /\ Cell' = Cell /\ CharsOf(min_dfa, Row, Column)' # {}
      BY <1>5, <1>0 DEF BeginLabel, InTable, Cell, Row, Column, CharsOf
    <2>2. EdgesUpTo(cell)'
      BY <1>5, <1>0, EdgesStay DEF BeginLabel, GraphInv
    <2>3. GraphInv'
      BY <1>0, <1>5, <2>1, <2>2 DEF BeginLabel, GraphInv
    <2>4. LabelInv'
      BY <1>5, CellInTable, WidthAssumption DEF BeginLabel, GraphInv, LabelInv, Fields
    <2> QED
      BY <2>3, <2>4
  <1>6. CASE InLabel
    <2>1. LabelInv'
      BY <1>6, LabelStart, LabelSkipZero, LabelBeginChunk, LabelExtendChunk, LabelPrintChunk
      DEF InLabel, L!Step
    <2>2. lower' = lower /\ upper' = upper
      BY <1>6 DEF InLabel, L!Step, L!Start, L!SkipZero, L!BeginChunk, L!ExtendChunk,
                  L!PrintChunk
    <2>3. InTable' /\ Cell' = Cell /\ CharsOf(min_dfa, Row, Column)' # {}
      BY <1>6, <1>0 DEF InLabel, GraphInv, InTable, Cell, Row, Column, CharsOf
    <2>4. EdgesUpTo(cell)'
      BY <1>6, <1>0, EdgesStay DEF InLabel, GraphInv
    <2> QED
      BY <1>0, <1>6, <2>1, <2>2, <2>3, <2>4 DEF InLabel, GraphInv
  <1>7. CASE EndLabel
    <2> DEFINE e == <<Row, Column, named>>
    <2>1. /\ InTable /\ lower = Cell.lower /\ upper = Cell.upper
          /\ CharsOf(min_dfa, Row, Column) # {} /\ named = Read /\ EdgesUpTo(cell)
      BY <1>7 DEF EndLabel, GraphInv, LabelInv, L!Done
    <2>2. Row \in States /\ Column \in States /\ States \subseteq Int /\ named \subseteq Int
      BY <2>1, CellInTable DEF GraphInv, LabelInv, Fields, States, IsMinimalDFA
    <2>3. e \in Int \X Int \X SUBSET Int
      BY <2>2
    <2>4. file' \in FileType /\ file' = [file EXCEPT !.edges = @ \cup {e}]
          /\ file'.edges = file.edges \cup {e}
      BY <1>7, <2>3 DEF EndLabel, GraphInv, FileType
    <2>5. Shows(e)
      <3>1. lower \subseteq Read /\ Read \subseteq CharsOf(min_dfa, Row, Column)
        BY <2>1 DEF Read, L!Chars, CharsOf, Cell
      <3> QED
        BY <2>1, <2>2, <3>1 DEF Shows, Cell
    <2>6. EdgesUpTo(cell)'
      <3>1. \A x \in file'.edges : Shows(x)'
        BY <1>0, <2>1, <2>4, <2>5 DEF EdgesUpTo, Shows, CharsOf
      <3>2. ASSUME NEW p \in States, NEW q \in States, min_dfa.size * p + q < cell + 1,
                   CharsOf(min_dfa, p, q) # {}
            PROVE  \E x \in file'.edges : x[1] = p /\ x[2] = q
        <4>1. CASE min_dfa.size * p + q < cell
          BY <2>1, <2>4, <3>2, <4>1 DEF EdgesUpTo
        <4>2. CASE p = Row /\ q = Column
          <5>1. e \in file'.edges /\ e[1] = p /\ e[2] = q
            BY <2>4, <4>2
          <5> QED
            BY <5>1
        <4> QED
          BY <2>1, <3>2, <4>1, <4>2, CellInTable DEF GraphInv
      <3>3. cell' = cell + 1
        BY <1>7 DEF EndLabel
      <3> QED
        BY <1>0, <3>1, <3>2, <3>3 DEF EdgesUpTo, CharsOf
    <2> QED
      BY <1>0, <1>1, <1>7, <2>4, <2>6 DEF EndLabel, GraphInv, FileType
  <1>8. CASE Close
    <2>1. EdgesUpTo(cell)'
      BY <1>8, <1>0, EdgesStay DEF Close, GraphInv
    <2> QED
      BY <1>0, <1>1, <1>8, <2>1 DEF Close, GraphInv, InTable
  <1> QED
    BY <1>2, <1>3, <1>4, <1>5, <1>6, <1>7, <1>8 DEF WriteGraph

-----------------------------------------------------------------------------
(* main().                                                                 *)

Naming == {"cc", "read", "parse", "convert", "minimize", "generate"}
HavingNFA == {"convert", "minimize", "generate"}

\* Whose name the file will bear, and whose line nfa stands for.
DriverInv ==
  /\ argv \in Seq(Seq(STRING)) /\ WithoutNewlines(content) \in DOMAIN Compiled
  /\ at \in Naming \cup {"args", "name", "exit", "crash"}
  /\ at \in Naming \cup {"name"} \/ said = "success" => Len(argv) = 1
  /\ at \in Naming \/ said = "success" =>
       (Dots(argv[1]) # {} => name = NameOf(argv[1]))
  /\ at = "parse" => buffer = WithoutNewlines(content)
  /\ at \in HavingNFA \/ said = "success" =>
       /\ line \in DOMAIN Compiled
       /\ "parse" \notin failed => line = WithoutNewlines(content)
  /\ at = "generate" \/ said = "success" => min_dfa = Compiled[line].minimal
  /\ at \in Naming \cup {"args", "name"} => at = "generate" \/ writing = "begin"
  /\ said = "success" => at = "exit" /\ writing \in {"closed", "failed"}

LEMMA AbortOrCrashLeavesDriver ==
  ASSUME DriverInv, at # "exit", UNCHANGED <<argv, content>>,
         \/ at' = "exit" /\ said' \in {"invalid", "memory", "input", "parse",
                                       "construction", "minimization"}
         \/ at' = "crash" /\ said' = said
  PROVE  DriverInv'
  BY DEF DriverInv, Naming, HavingNFA

LEMMA DriverInit ==
  ASSUME Init
  PROVE  DriverInv
  BY InputsAssumption DEF Init, GraphInit, DriverInv, Naming, HavingNFA

LEMMA WriteGraphKeepsDFA ==
  ASSUME WriteGraph
  PROVE  min_dfa' = min_dfa
  BY DEF WriteGraph, OpenFails, WriteNodes, SkipCell, BeginLabel, InLabel, EndLabel,
         Close

LEMMA DriverStep ==
  ASSUME DriverInv, [Next]_vars
  PROVE  DriverInv'
  <1> USE DEF Naming, HavingNFA
  <1>1. CASE CheckArguments
    BY <1>1, AbortOrCrashLeavesDriver
    DEF CheckArguments, GoOn, Abort, SameInput, graphVars, DriverInv
  <1>2. CASE MakeFileName
    BY <1>2, AbortOrCrashLeavesDriver
    DEF MakeFileName, GoOn, Abort, Crash, SameInput, graphVars, DriverInv
  <1>3. CASE InitCmpCtrl
    BY <1>3, AbortOrCrashLeavesDriver
    DEF InitCmpCtrl, GoOn, Abort, SameInput, graphVars, DriverInv
  <1>4. CASE ReadFile
    BY <1>4, AbortOrCrashLeavesDriver
    DEF ReadFile, GoOn, Abort, SameInput, graphVars, DriverInv
  <1>5. CASE Parse
    BY <1>5, AbortOrCrashLeavesDriver
    DEF Parse, GoOn, Abort, SameInput, graphVars, DriverInv
  <1>6. CASE ParseOutOfMemory
    <2>1. CASE at' = "convert"
      <3>1. buffer \in DOMAIN Compiled
        BY <1>6 DEF ParseOutOfMemory, DriverInv
      <3>2. /\ line' \in Compiled[buffer].less /\ "parse" \in failed'
            /\ UNCHANGED <<graphVars, argv, content, name, said, buffer>>
            /\ at = "parse"
        BY <1>6, <2>1 DEF ParseOutOfMemory, Abort, Crash, SameInput
      <3>3. line' \in DOMAIN Compiled
        BY <3>1, <3>2, CompiledAssumption
      <3> QED
        BY <2>1, <3>2, <3>3 DEF graphVars, DriverInv
    <2>2. CASE at' # "convert"
      BY <1>6, <2>2, AbortOrCrashLeavesDriver
      DEF ParseOutOfMemory, Abort, Crash, SameInput, graphVars, DriverInv
    <2> QED
      BY <2>1, <2>2
  <1>7. CASE ConvertNFAToDFA
    BY <1>7, AbortOrCrashLeavesDriver
    DEF ConvertNFAToDFA, GoOn, Abort, Crash, SameInput, graphVars, DriverInv
  <1>8. CASE Minimize
    BY <1>8, AbortOrCrashLeavesDriver DEF Minimize, GoOn, Abort, Crash, DriverInv
  <1>9. CASE Generate
    BY <1>9, WriteGraphKeepsDFA DEF Generate, driverVars, DriverInv
  <1>10. CASE Finish
    BY <1>10 DEF Finish, graphVars, DriverInv
  <1>11. CASE Stopped \/ UNCHANGED vars
    BY <1>11 DEF Stopped, vars, driverVars, graphVars, DriverInv
  <1> QED
    BY <1>1, <1>2, <1>3, <1>4, <1>5, <1>6, <1>7, <1>8, <1>9, <1>10, <1>11 DEF Next

\* What was written stays as it is outside of gen_minimal_dfa_graphviz().
LEMMA GraphStays ==
  ASSUME GraphInv, LabelInv, UNCHANGED <<file, cell, writing, labelVars>>,
         min_dfa' = min_dfa \/ (writing = "begin" /\ IsMinimalDFA(min_dfa'))
  PROVE  GraphInv' /\ LabelInv'
  <1>1. LabelInv'
    <2>1. Read' = Read
      BY DEF labelVars, Read, L!LosesUpper, L!Chars
    <2> QED
      BY <2>1 DEF labelVars, LabelInv, Fields, BitsLeft, NamedUpTo
  <1>2. CASE min_dfa' = min_dfa
    <2>1. EdgesUpTo(cell) => EdgesUpTo(cell)'
      BY <1>2, EdgesStay
    <2>2. /\ IsMinimalDFA(min_dfa)' /\ States' = States /\ InTable' = InTable
          /\ Cell' = Cell
          /\ CharsOf(min_dfa, Row, Column)' = CharsOf(min_dfa, Row, Column)
      BY <1>2 DEF GraphInv, IsMinimalDFA, States, InTable, Cell, Row, Column, CharsOf
    <2> QED
      BY <1>1, <1>2, <2>1, <2>2 DEF GraphInv, labelVars
  <1>3. CASE writing = "begin" /\ IsMinimalDFA(min_dfa')
    BY <1>1, <1>3 DEF GraphInv
  <1> QED
    BY <1>2, <1>3

LEMMA GraphStep ==
  ASSUME GraphInv, LabelInv, DriverInv, [Next]_vars
  PROVE  GraphInv' /\ LabelInv'
  <1>1. CASE Minimize
    <2>1. UNCHANGED <<file, cell, writing, labelVars>>
      BY <1>1 DEF Minimize
    <2>2. CASE min_dfa' = min_dfa
      BY <2>1, <2>2, GraphStays
    <2>3. CASE min_dfa' = Compiled[line].minimal
      <3>1. writing = "begin" /\ IsMinimalDFA(min_dfa')
        BY <1>1, <2>3, CompiledAssumption DEF Minimize, DriverInv, Naming, HavingNFA
      <3> QED
        BY <2>1, <3>1, GraphStays
    <2> QED
      BY <1>1, <2>2, <2>3 DEF Minimize
  <1>2. CASE Generate
    BY <1>2, WriteGraphStep DEF Generate
  <1>3. CASE UNCHANGED graphVars
    BY <1>3, GraphStays DEF graphVars
  <1> QED
    BY <1>1, <1>2, <1>3 DEF Next, CheckArguments, MakeFileName, InitCmpCtrl, ReadFile,
       Parse, ParseOutOfMemory, ConvertNFAToDFA, Finish, Stopped, SameInput, vars

ProgramInv == GraphInv /\ LabelInv /\ DriverInv

LEMMA ProgramInvHolds == Spec => []ProgramInv
  <1>1. Init => ProgramInv
    BY GraphInitShape, DriverInit DEF Init, ProgramInv
  <1>2. ProgramInv /\ [Next]_vars => ProgramInv'
    BY GraphStep, DriverStep DEF ProgramInv
  <1> QED
    BY <1>1, <1>2, PTL DEF Spec

-----------------------------------------------------------------------------
(* What is written, in the end.                                            *)

\* A finished label names no other characters than those of its transition.  If no
\* chunk begins with the last bit of lower while upper has bits (LosesUpper), it
\* names all of them; if one does, it names those of lower and none of upper, so
\* that characters are missing (generate_transition_label(), minimize.c).
THEOREM LabelsNameCharsHolds == Spec => []LabelsNameChars
  <1>1. LabelInv => LabelsNameChars
    BY ReadFacts DEF LabelInv, LabelsNameChars, L!NamesChars, L!Done, Read
  <1> QED
    BY <1>1, ProgramInvHolds, PTL DEF ProgramInv

\* A chunk that is written cannot be extended to either side by a character of the
\* transition, also across the two bitfields, so that adjacent characters are
\* written as one range; the exception is a chunk that begins with the last bit of
\* lower, as upper is then lost.  (That a character is written at all is
\* LabelsNameChars.)
THEOREM LabelsAreWholeHolds == Spec => []LabelsAreWhole
  <1>1. LabelInv => LabelsAreWhole
    <2> SUFFICES ASSUME LabelInv, label = "chunk", 0 \notin bitfield
                 PROVE  /\ left - 1 \notin L!Chars
                        /\ right + 1 \in L!Chars => L!LosesUpper /\ right = Width - 1
      BY DEF LabelsAreWhole, L!ChunksAreWhole
    <2>1. /\ Fields /\ BitsLeft /\ right + 1 = i /\ left - 1 \notin Read
          /\ left \in Nat /\ right \in Nat /\ left <= right
          /\ left .. right \subseteq Read
      BY DEF LabelInv, Fields
    <2>2. i \notin IF i < Width THEN lower ELSE Read
      BY <2>1 DEF BitsLeft, Fields
    <2>3. i \notin Read
      BY <2>1, <2>2, ReadFacts DEF Fields
    <2>4. CASE ~ L!LosesUpper
      BY <2>1, <2>3, <2>4, ReadFacts
    <2>5. CASE L!LosesUpper
      <3>1. Read = lower /\ left \in lower /\ right \in lower
        BY <2>1, <2>5, ReadFacts
      <3>2. left - 1 < Width /\ right < Width
        BY <2>1, <3>1, ReadFacts DEF Fields
      <3>3. \A ch \in L!Chars : ch < Width => ch \in lower
        BY <2>1, WidthAssumption DEF L!Chars, Fields
      <3>4. left - 1 \notin L!Chars
        BY <2>1, <3>1, <3>2, <3>3
      <3>5. right + 1 < Width => right + 1 \notin L!Chars
        BY <2>1, <2>3, <3>1, <3>3
      <3> QED
        BY <2>1, <2>5, <3>2, <3>4, <3>5, ReadFacts
    <2> QED
      BY <2>4, <2>5
  <1> QED
    BY <1>1, ProgramInvHolds, PTL DEF ProgramInv

\* From the last separator before the last dot on, a path is its last component,
\* if that has a dot.
LEMMA NameIsStem ==
  ASSUME NEW arg \in Seq(STRING), Dots(Base(arg)) # {}
  PROVE  NameOf(arg) = Stem(arg) /\ Dots(arg) # {}
  <1> DEFINE S == {0} \cup Separators(arg)
             s == Max(S)
             base == SubSeq(arg, s + 1, Len(arg))
             D == Dots(base)
             d == Max(D)
             E == {0} \cup {k \in Separators(arg) : k < s + d}
  <1>1. Len(arg) \in Nat /\ DOMAIN arg = 1 .. Len(arg)
    OBVIOUS
  <1>2. S \in SUBSET Int /\ S # {} /\ \A k \in S : k <= Len(arg)
    BY <1>1 DEF Separators
  <1>3. s \in S /\ \A k \in S : k <= s
    <2> HIDE DEF S
    <2>1. \E b \in Int : \A k \in S : k \in Int /\ k <= b
      <3>1. Len(arg) \in Int /\ \A k \in S : k \in Int /\ k <= Len(arg)
        BY <1>1, <1>2
      <3> WITNESS Len(arg) \in Int
      <3> QED
        BY <3>1
    <2>2. Max(S) \in S /\ \A k \in S : k <= Max(S)
      BY <1>1, <1>2, <2>1, MaxFacts
    <2> QED
      BY <2>2
  <1>4. s \in 0 .. Len(arg)
    BY <1>1, <1>3 DEF Separators
  <1> HIDE DEF s
  <1>5. /\ base \in Seq(STRING) /\ DOMAIN base = 1 .. Len(arg) - s
        /\ \A k \in 1 .. Len(arg) - s : base[k] = arg[s + k]
    <2>1. \A k \in s + 1 .. Len(arg) : arg[k] \in STRING
      BY <1>1, <1>4
    <2>2. /\ base \in Seq(STRING)
          /\ Len(base) = IF s + 1 <= Len(arg) THEN Len(arg) - (s + 1) + 1 ELSE 0
          /\ \A k \in 1 .. Len(arg) - (s + 1) + 1 : base[k] = arg[(s + 1) + k - 1]
      BY <1>1, <1>4, <2>1, SubSeqProperties
    <2>3. Len(base) = Len(arg) - s
      <3> DEFINE l == Len(arg)
                 m == Len(base)
      <3>1. l \in Nat /\ s \in 0 .. l
        BY <1>1, <1>4
      <3>2. m = IF s + 1 <= l THEN l - (s + 1) + 1 ELSE 0
        BY <2>2
      <3> HIDE DEF l, m
      <3>3. m = l - s
        BY <3>1, <3>2
      <3> QED
        BY <3>3 DEF l, m
    <2>4. \A k \in 1 .. Len(arg) - s : (s + 1) + k - 1 = s + k /\ k \in 1 .. Len(arg) - (s + 1) + 1
      BY <1>1, <1>4
    <2> QED
      BY <2>2, <2>3, <2>4
  <1> HIDE DEF base
  <1>6. D \in SUBSET Int /\ D # {} /\ \A k \in D : k <= Len(arg)
    <2>1. D # {}
      BY DEF Base, base, s, S
    <2> QED
      BY <1>1, <1>4, <1>5, <2>1 DEF Dots
  <1>7. d \in D /\ \A k \in D : k <= d
    <2> HIDE DEF D
    <2>1. \E b \in Int : \A k \in D : k \in Int /\ k <= b
      <3>1. Len(arg) \in Int /\ \A k \in D : k \in Int /\ k <= Len(arg)
        BY <1>1, <1>6
      <3> WITNESS Len(arg) \in Int
      <3> QED
        BY <3>1
    <2>2. Max(D) \in D /\ \A k \in D : k <= Max(D)
      BY <1>1, <1>6, <2>1, MaxFacts
    <2> QED
      BY <2>2
  <1>8. d \in 1 .. Len(arg) - s /\ arg[s + d] = "."
    BY <1>5, <1>7 DEF Dots
  <1> HIDE DEF d
  <1>9. Max(Dots(arg)) = s + d /\ Dots(arg) # {}
    <2>1. s + d \in Dots(arg)
      BY <1>1, <1>4, <1>8 DEF Dots
    <2>2. ASSUME NEW k \in Dots(arg) PROVE k <= s + d
      <3>1. CASE k <= s
        BY <1>4, <1>8, <3>1, <1>1 DEF Dots
      <3>2. CASE k > s
        <4>1. k \in 1 .. Len(arg) /\ arg[k] = "."
          BY <1>1 DEF Dots
        <4>2. k - s \in 1 .. Len(arg) - s /\ s + (k - s) = k
          BY <1>1, <1>4, <3>2, <4>1
        <4>3. k - s \in D
          BY <1>5, <4>1, <4>2 DEF Dots
        <4> QED
          BY <1>4, <1>7, <1>8, <4>1, <4>3
      <3> QED
        BY <1>1, <1>4, <3>1, <3>2 DEF Dots
    <2>3. /\ Dots(arg) \in SUBSET Int /\ Dots(arg) # {}
          /\ \A k \in Dots(arg) : k <= Len(arg)
      BY <1>1, <2>1 DEF Dots
    <2>4. Max(Dots(arg)) \in Dots(arg) /\ \A k \in Dots(arg) : k <= Max(Dots(arg))
      <3> DEFINE A == Dots(arg)
      <3>1. A \in SUBSET Int /\ A # {} /\ \A k \in A : k <= Len(arg)
        BY <2>3
      <3> HIDE DEF A
      <3>2. \E b \in Int : \A k \in A : k \in Int /\ k <= b
        <4>1. Len(arg) \in Int /\ \A k \in A : k \in Int /\ k <= Len(arg)
          BY <1>1, <3>1
        <4> WITNESS Len(arg) \in Int
        <4> QED
          BY <4>1
      <3>3. Max(A) \in A /\ \A k \in A : k <= Max(A)
        BY <3>1, <3>2, MaxFacts
      <3> QED
        BY <3>3 DEF A
    <2> QED
      BY <2>1, <2>2, <2>3, <2>4
  <1>10. Max(E) = s
    <2>1. /\ E \in SUBSET Int /\ E # {} /\ s \in E
          /\ \A k \in E : k <= s
      BY <1>1, <1>2, <1>3, <1>4, <1>8 DEF Separators
    <2>2. Max(E) \in E /\ \A k \in E : k <= Max(E)
      BY <1>4, <2>1, MaxFacts
    <2> QED
      BY <2>1, <2>2
  <1>11. NameOf(arg) = SubSeq(arg, s + 1, (s + d) - 1)
    BY <1>9, <1>10 DEF NameOf
  <1>12. Stem(arg) = SubSeq(base, 1, d - 1)
    BY DEF Stem, Base, base, d, s, S
  <1>13. SubSeq(arg, s + 1, (s + d) - 1) = SubSeq(base, 1, d - 1)
    <2> DEFINE u == SubSeq(arg, s + 1, (s + d) - 1)
               v == SubSeq(base, 1, d - 1)
    <2>1. /\ u \in Seq(STRING)
          /\ Len(u) = d - 1
          /\ \A k \in 1 .. d - 1 : u[k] = arg[s + k]
      <3>1. \A k \in s + 1 .. (s + d) - 1 : arg[k] \in STRING
        BY <1>1, <1>4, <1>8
      <3>2. /\ u \in Seq(STRING)
            /\ Len(u) = IF s + 1 <= (s + d) - 1 THEN (s + d) - 1 - (s + 1) + 1 ELSE 0
            /\ \A k \in 1 .. (s + d) - 1 - (s + 1) + 1 : u[k] = arg[(s + 1) + k - 1]
        BY <1>4, <1>8, <3>1, SubSeqProperties
      <3> HIDE DEF u
      <3>3. Len(u) = d - 1
        BY <1>1, <1>4, <1>8, <3>2
      <3>4. \A k \in 1 .. d - 1 :
              (s + 1) + k - 1 = s + k /\ k \in 1 .. (s + d) - 1 - (s + 1) + 1
        BY <1>1, <1>4, <1>8
      <3> QED
        BY <3>2, <3>3, <3>4
    <2>2. /\ v \in Seq(STRING)
          /\ Len(v) = d - 1
          /\ \A k \in 1 .. d - 1 : v[k] = base[k]
      <3>1. \A k \in 1 .. d - 1 : base[k] \in STRING
        BY <1>1, <1>4, <1>5, <1>8
      <3>2. /\ v \in Seq(STRING)
            /\ Len(v) = IF 1 <= d - 1 THEN d - 1 - 1 + 1 ELSE 0
            /\ \A k \in 1 .. d - 1 - 1 + 1 : v[k] = base[1 + k - 1]
        BY <1>8, <3>1, SubSeqProperties
      <3> HIDE DEF v
      <3>3. Len(v) = d - 1
        BY <1>1, <1>4, <1>8, <3>2
      <3>4. \A k \in 1 .. d - 1 : 1 + k - 1 = k /\ k \in 1 .. d - 1 - 1 + 1
        BY <1>1, <1>4, <1>8
      <3> QED
        BY <3>2, <3>3, <3>4
    <2> HIDE DEF u, v
    <2>3. \A k \in 1 .. d - 1 : u[k] = v[k]
      BY <1>1, <1>4, <1>5, <1>8, <2>1, <2>2
    <2>4. u = v
      BY <2>1, <2>2, <2>3, SeqEqual
    <2> QED
      BY <2>4 DEF u, v
  <1> QED
    BY <1>9, <1>11, <1>12, <1>13

\* After the last cell all transitions are in the file.
LEMMA AllCellsWritten ==
  ASSUME IsMinimalDFA(min_dfa), cell \in Nat, ~ InTable, EdgesUpTo(cell)
  PROVE  \A p, q \in States :
           CharsOf(min_dfa, p, q) # {} => \E e \in file.edges : e[1] = p /\ e[2] = q
  <1> DEFINE n == min_dfa.size
  <1>1. n \in Nat /\ States = 0 .. n - 1 /\ n * n <= cell
    BY DEF IsMinimalDFA, States, InTable
  <1>2. ASSUME NEW p \in States, NEW q \in States
        PROVE  n * p + q < cell
    <2>1. n * p + n <= n * n
      BY <1>1, ProductGrows
    <2>2. n * p \in Int /\ n * n \in Int /\ q < n /\ q \in Int
      BY <1>1
    <2> QED
      BY <1>1, <2>1, <2>2
  <1> QED
    BY <1>2 DEF EdgesUpTo

\* "success: produced file" (main.c:78): unless parse() ran out of memory, a file
\* that could be opened bears the name of the input file and shows the states and
\* the transitions of its minimal DFA.
THEOREM WritesGraphHolds == Spec => []WritesGraph
  <1>1. ASSUME ProgramInv PROVE WritesGraph
    <2> SUFFICES ASSUME said = "success", file.exists, "parse" \notin failed
                 PROVE  WritesGraph
      BY DEF WritesGraph
    <2> DEFINE minimal == Compiled[WithoutNewlines(content)].minimal
    <2>1. /\ min_dfa = minimal /\ writing = "closed"
          /\ Len(argv) = 1 /\ argv \in Seq(Seq(STRING))
          /\ Dots(argv[1]) # {} => name = NameOf(argv[1])
      BY <1>1 DEF ProgramInv, DriverInv, GraphInv
    <2>2. /\ IsMinimalDFA(min_dfa) /\ file \in FileType /\ cell \in Nat
          /\ file.accepting = min_dfa.accepts
          /\ file.normal = States \ min_dfa.accepts
          /\ EdgesUpTo(cell) /\ ~ InTable
      BY <1>1, <2>1 DEF ProgramInv, GraphInv
    <2>3. Dots(Base(argv[1])) # {} => name = Stem(argv[1])
      <3> SUFFICES ASSUME Dots(Base(argv[1])) # {} PROVE name = Stem(argv[1])
        OBVIOUS
      <3>1. argv[1] \in Seq(STRING)
        <4> HIDE DEF minimal
        <4>1. 1 \in DOMAIN argv
          BY <2>1
        <4> QED
          BY <2>1, <4>1, ElementOfSeq
      <3> QED
        BY <2>1, <3>1, NameIsStem
    <2>4. /\ file.accepting \cap file.normal = {}
          /\ file.accepting \cup file.normal = 0 .. minimal.size - 1
          /\ file.accepting = minimal.accepts
      BY <2>1, <2>2 DEF States, IsMinimalDFA
    <2>5. {<<e[1], e[2]>> : e \in file.edges} =
            {t \in (0 .. minimal.size - 1) \X (0 .. minimal.size - 1) :
               CharsOf(minimal, t[1], t[2]) # {}}
      <3> DEFINE Pairs == {<<e[1], e[2]>> : e \in file.edges}
                 All == {t \in (0 .. minimal.size - 1) \X (0 .. minimal.size - 1) :
                           CharsOf(minimal, t[1], t[2]) # {}}
      <3>1. ASSUME NEW e \in file.edges PROVE <<e[1], e[2]>> \in All
        BY <2>1, <2>2 DEF EdgesUpTo, Shows, States
      <3>2. ASSUME NEW t \in All PROVE t \in Pairs
        <4>1. /\ t[1] \in States /\ t[2] \in States /\ t = <<t[1], t[2]>>
              /\ CharsOf(min_dfa, t[1], t[2]) # {}
          BY <2>1 DEF States
        <4>2. PICK e \in file.edges : e[1] = t[1] /\ e[2] = t[2]
          BY <2>2, <4>1, AllCellsWritten
        <4> QED
          BY <4>1, <4>2
      <3> QED
        BY <3>1, <3>2
    <2>6. \A e \in file.edges :
            /\ e[3] \subseteq CharsOf(minimal, e[1], e[2])
            /\ minimal.delta[e[1]][e[2]].lower \subseteq e[3]
      BY <2>1, <2>2 DEF EdgesUpTo, Shows
    <2> HIDE DEF minimal
    <2> QED
      BY <2>3, <2>4, <2>5, <2>6 DEF WritesGraph, CharsOf, minimal
  <1> QED
    BY <1>1, ProgramInvHolds, PTL
=============================================================================
