--------------------------- MODULE QuotientProofs ---------------------------
(***************************************************************************)
(* Proofs about quotient() and distinguishable() for every set of automata *)
(* and every stack limit.  The argument has three layers, each an          *)
(* invariant of its own:                                                   *)
(*   Shape     what the scan position, the table and the stack look like;  *)
(*   Sound     "true" and marks are only given to separable pairs;         *)
(*   Complete  "false" is only given to pairs that agree with the table as *)
(*             it is now, so a pass without a mark leaves a bisimulation.  *)
(***************************************************************************)
EXTENDS Quotient, SequenceTheorems, TLAPS

Height == Len(stack)

InCall == pc \in {"call", "loop", "return", "overflow"}

-----------------------------------------------------------------------------
(* Layer 1: shape.                                                         *)

ScanShape ==
  /\ row < Rows(dfa) => row < col /\ col < Cols(dfa)
  /\ pc = "done" => row = Rows(dfa) /\ ~made_mark

\* A cell of the upper triangle is written, and its 1 means that the states
\* agree on acceptance.
TableShape ==
  \A i \in RowOf(dfa), j \in StateOf(dfa) : i < j =>
    /\ merge[i][j] \in {0, 1}
    /\ merge[i][j] = 1 => (Accepts(dfa, i) <=> Accepts(dfa, j))

\* The oldest call is on the scanned pair, every other one on the successors of
\* its caller's pair.
StackShape ==
  /\ InCall =>
       /\ row < Rows(dfa) /\ merge[row][col] = 1
       /\ stack[1].i = row /\ stack[1].j = col
  /\ \A k \in 1 .. Height - 1 :
       /\ stack[k].c < dfa.alphabet_size
       /\ stack[k + 1].i = Out(dfa, stack[k].i, stack[k].c)
       /\ stack[k + 1].j = Out(dfa, stack[k].j, stack[k].c)

Shape == TypeOK /\ ScanShape /\ TableShape /\ StackShape

LEMMA DFAFacts ==
  ASSUME NEW d \in DFAs
  PROVE  /\ d.size \in Nat /\ d.size >= 2
         /\ d.alphabet_size \in Nat
         /\ d.accepts \subseteq StateOf(d)
         /\ \A p \in StateOf(d), c \in SymbolOf(d) : d.delta[p][c] \in NodeOf(d)
         /\ \A p \in NodeOf(d), c \in SymbolOf(d) : Out(d, p, c) \in NodeOf(d)
         /\ NodeOf(d) \subseteq Int
  <1>1. /\ d.size \in Nat /\ d.size >= 2
        /\ d.alphabet_size \in Nat
        /\ d.accepts \subseteq StateOf(d)
        /\ d.delta \in [StateOf(d) -> [SymbolOf(d) -> NodeOf(d)]]
    BY DFAsAssumption DEF IsDFA
  <1>2. \A p \in StateOf(d), c \in SymbolOf(d) : d.delta[p][c] \in NodeOf(d)
    BY <1>1
  <1>3. \A p \in NodeOf(d), c \in SymbolOf(d) : Out(d, p, c) \in NodeOf(d)
    BY <1>2 DEF NodeOf, Out
  <1>4. NodeOf(d) \subseteq Int
    BY <1>1 DEF NodeOf, StateOf, DEAD_STATE
  <1> QED
    BY <1>1, <1>2, <1>3, <1>4

\* What a push, and a pop that moves the caller to its next character, leave.
LEMMA PushFacts ==
  ASSUME NEW S, NEW s \in Seq(S), NEW e \in S
  PROVE  /\ Append(s, e) \in Seq(S)
         /\ Len(Append(s, e)) = Len(s) + 1
         /\ Append(s, e)[Len(s) + 1] = e
         /\ \A k \in 1 .. Len(s) : Append(s, e)[k] = s[k]
  BY AppendProperties

LEMMA PopFacts ==
  ASSUME NEW S, NEW s \in Seq(S), Len(s) > 1
  PROVE  /\ SubSeq(s, 1, Len(s) - 1) \in Seq(S)
         /\ Len(SubSeq(s, 1, Len(s) - 1)) = Len(s) - 1
         /\ \A k \in 1 .. Len(s) - 1 : SubSeq(s, 1, Len(s) - 1)[k] = s[k]
  BY SubSeqProperties, LenProperties

Bumped(s) == [SubSeq(s, 1, Len(s) - 1) EXCEPT ![Len(s) - 1].c = @ + 1]

LEMMA BumpFacts ==
  ASSUME NEW d \in DFAs, NEW s \in Seq(Frame(d)), Len(s) > 1,
         s[Len(s) - 1].c < d.alphabet_size
  PROVE  /\ Bumped(s) \in Seq(Frame(d))
         /\ Len(Bumped(s)) = Len(s) - 1
         /\ \A k \in 1 .. Len(Bumped(s)) : Bumped(s)[k].i = s[k].i /\ Bumped(s)[k].j = s[k].j
         /\ \A k \in 1 .. Len(Bumped(s)) - 1 : Bumped(s)[k].c = s[k].c
         /\ Bumped(s)[Len(Bumped(s))].c = s[Len(Bumped(s))].c + 1
  <1> DEFINE t == Bumped(s)
             p == SubSeq(s, 1, Len(s) - 1)
             n == Len(s) - 1
             e == [p[n] EXCEPT !.c = @ + 1]
  <1>1. /\ p \in Seq(Frame(d)) /\ Len(p) = n
        /\ \A k \in 1 .. n : p[k] = s[k]
    BY PopFacts
  <1>2. n \in Nat /\ n >= 1 /\ n \in 1 .. Len(p)
    BY <1>1, LenProperties
  <1>3. p[n] \in Frame(d) /\ p[n] = s[n]
    BY <1>1, <1>2, ElementOfSeq
  <1>4. /\ e \in Frame(d) /\ e.i = s[n].i /\ e.j = s[n].j
        /\ e.c = s[n].c + 1
    <2>1. s[n].c < d.alphabet_size
      OBVIOUS
    <2> HIDE DEF p, n
    <2>2. p[n].c \in 0 .. d.alphabet_size
      BY <1>3 DEF Frame
    <2>3. p[n].c < d.alphabet_size
      BY <1>3, <2>1
    <2>4. p[n].c + 1 \in 0 .. d.alphabet_size
      BY <2>2, <2>3, DFAFacts
    <2> QED
      BY <1>3, <2>4 DEF Frame
  <1>5. t = [p EXCEPT ![n] = e]
    BY DEF Bumped
  <1> HIDE DEF t, p, n, e
  <1>6. /\ t \in Seq(Frame(d)) /\ Len(t) = n
        /\ \A k \in 1 .. n : t[k] = IF k = n THEN e ELSE p[k]
    BY <1>1, <1>2, <1>4, <1>5, ExceptSeq
  <1>7. Len(t) = Len(s) - 1
    BY <1>6 DEF n
  <1>8. \A k \in 1 .. n : t[k].i = s[k].i /\ t[k].j = s[k].j
    BY <1>1, <1>4, <1>6
  <1>9. \A k \in 1 .. n - 1 : t[k].c = s[k].c
    BY <1>1, <1>2, <1>6
  <1>10. t[n].c = s[n].c + 1
    BY <1>2, <1>4, <1>6
  <1> QED
    BY <1>6, <1>7, <1>8, <1>9, <1>10 DEF t

\* The scan position after a step of the inner loop.
LEMMA AdvanceFacts ==
  ASSUME TypeOK, ScanShape, row < Rows(dfa), Advance
  PROVE  /\ row' \in 0 .. Rows(dfa) /\ col' \in 1 .. Cols(dfa)
         /\ row' < Rows(dfa) => row' < col' /\ col' < Cols(dfa)
  BY DFAFacts DEF TypeOK, ScanShape, Advance, Rows, Cols

\* The top of a non-empty stack.
LEMMA TopFacts ==
  ASSUME TypeOK, stack # <<>>
  PROVE  /\ Height \in Nat /\ Height >= 1
         /\ Top \in Frame(dfa) /\ Top = stack[Height]
         /\ Top.i \in NodeOf(dfa) /\ Top.j \in NodeOf(dfa)
         /\ Top.c \in 0 .. dfa.alphabet_size
  <1>1. Height \in Nat /\ Height >= 1
    BY EmptySeq DEF TypeOK, Height
  <1>2. Top \in Frame(dfa)
    BY <1>1, ElementOfSeq DEF TypeOK, Top, Height
  <1> QED
    BY <1>1, <1>2 DEF Top, Height, Frame

\* The cell a pair of different live states is looked up in exists and has
\* been written.
LEMMA ReadFacts ==
  ASSUME TypeOK, TableShape, stack # <<>>, Top.i # Top.j, Live
  PROVE  /\ ReadRow \in RowOf(dfa) /\ ReadCol \in StateOf(dfa)
         /\ ReadRow < ReadCol
         /\ merge[ReadRow][ReadCol] \in {0, 1}
         /\ {ReadRow, ReadCol} = {Top.i, Top.j}
  <1>1. ReadRow \in RowOf(dfa) /\ ReadCol \in StateOf(dfa) /\ ReadRow < ReadCol
    <2>1. dfa.size \in Nat /\ dfa.size >= 2
      BY DFAFacts DEF TypeOK
    <2>2. Top.i \in 0 .. dfa.size - 1 /\ Top.j \in 0 .. dfa.size - 1
      BY TopFacts DEF Live, NodeOf, StateOf
    <2> QED
      BY <2>1, <2>2 DEF StateOf, RowOf, ReadRow, ReadCol, Rows
  <1>2. {ReadRow, ReadCol} = {Top.i, Top.j}
    BY TopFacts, DFAFacts
    DEF TypeOK, Live, NodeOf, StateOf, ReadRow, ReadCol, DEAD_STATE
  <1> QED
    BY <1>1, <1>2 DEF TableShape

\* init_minimal_dfa() establishes the shape of the table and of the empty stack.
THEOREM ShapeInit == Init => Shape
  <1> SUFFICES ASSUME Init PROVE Shape
    OBVIOUS
  <1>1. dfa \in DFAs /\ dfa.size \in Nat /\ dfa.size >= 2
    BY DFAFacts DEF Init
  <1>2. merge \in [RowOf(dfa) -> [StateOf(dfa) -> {0, 1, UNINIT}]]
    BY DEF Init, InitialMerge
  <1>3. TypeOK
    <2>1. stack \in Seq(Frame(dfa)) /\ Len(stack) <= StackLimit
      BY StackLimitAssumption, EmptySeq DEF Init
    <2>2. row \in 0 .. Rows(dfa) /\ col \in 1 .. Cols(dfa)
      BY <1>1 DEF Init, Rows, Cols
    <2>3. made_mark \in BOOLEAN /\ ret \in BOOLEAN
      BY Zenon DEF Init
    <2> QED
      BY <1>1, <1>2, <2>1, <2>2, <2>3, Zenon DEF Init, TypeOK
  <1>4. ScanShape
    BY <1>1 DEF Init, ScanShape, Rows, Cols
  <1>5. TableShape
    <2> SUFFICES ASSUME NEW i \in RowOf(dfa), NEW j \in StateOf(dfa), i < j
                 PROVE  /\ merge[i][j] \in {0, 1}
                        /\ merge[i][j] = 1 => (Accepts(dfa, i) <=> Accepts(dfa, j))
      BY DEF TableShape
    <2>1. merge[i][j] = IF Accepts(dfa, i) # Accepts(dfa, j) THEN 0 ELSE 1
      BY <1>1 DEF Init, InitialMerge, RowOf, StateOf
    <2> QED
      BY <2>1 DEF Accepts
  <1>6. StackShape
    BY EmptySeq DEF Init, StackShape, InCall, Height
  <1> QED
    BY <1>3, <1>4, <1>5, <1>6 DEF Shape

\* Giving an answer changes only ret and pc, and keeps the call on the stack.
LEMMA AnswerShape ==
  ASSUME Shape, pc \in {"call", "loop"}, NEW v \in BOOLEAN, Answer(v)
  PROVE  Shape'
  <1>1. /\ UNCHANGED <<dfa, merge, row, col, made_mark, stack>>
        /\ ret' = v /\ pc' = "return"
    BY Zenon DEF Answer
  <1>2. TypeOK'
    <2>1. stack # <<>>
      BY DEF Shape, TypeOK
    <2> QED
      BY <1>1, <2>1, Zenon DEF Shape, TypeOK
  <1>3. ScanShape' /\ TableShape' /\ StackShape'
    BY <1>1 DEF Shape, ScanShape, TableShape, StackShape, InCall, Height
  <1> QED
    BY <1>2, <1>3 DEF Shape

\* So does moving between the parts of a call.
LEMMA MoveShape ==
  ASSUME Shape, pc \in {"call", "loop"}, pc' \in {"loop", "overflow"},
         UNCHANGED <<dfa, merge, row, col, made_mark, stack, ret>>
  PROVE  Shape'
  <1>1. TypeOK'
    <2>1. stack # <<>>
      BY DEF Shape, TypeOK
    <2> QED
      BY <2>1, Zenon DEF Shape, TypeOK
  <1>2. ScanShape' /\ TableShape' /\ StackShape'
    BY DEF Shape, ScanShape, TableShape, StackShape, InCall, Height
  <1> QED
    BY <1>1, <1>2 DEF Shape

\* A step that leaves the stack empty and the table as it is.
LEMMA ScanStepShape ==
  ASSUME Shape, stack' = <<>>, pc' \in {"scan", "done"}, made_mark' \in BOOLEAN,
         UNCHANGED <<dfa, merge, ret>>,
         row' \in 0 .. Rows(dfa) /\ col' \in 1 .. Cols(dfa),
         row' < Rows(dfa) => row' < col' /\ col' < Cols(dfa),
         pc' = "done" => row' = Rows(dfa) /\ ~made_mark'
  PROVE  Shape'
  <1>1. stack' \in Seq(Frame(dfa)) /\ Len(stack') <= StackLimit
    BY EmptySeq, StackLimitAssumption
  <1>2. TypeOK'
    BY <1>1, Zenon DEF Shape, TypeOK
  <1>3. ScanShape'
    BY DEF ScanShape
  <1>4. TableShape'
    BY DEF Shape, TableShape
  <1>5. StackShape'
    BY EmptySeq DEF StackShape, InCall, Height
  <1> QED
    BY <1>2, <1>3, <1>4, <1>5 DEF Shape

LEMMA ShapeMarkPair ==
  ASSUME Shape, MarkPair
  PROVE  Shape'
  <1>1. /\ dfa' = dfa /\ ret' = ret /\ made_mark' = TRUE /\ stack' = <<>>
        /\ pc = "return" /\ pc' = "scan" /\ Advance
        /\ merge' = [merge EXCEPT ![row][col] = 0]
    BY DEF MarkPair
  <1>2. row < Rows(dfa) /\ row \in RowOf(dfa) /\ col \in StateOf(dfa) /\ row < col
    BY <1>1, DFAFacts
    DEF Shape, TypeOK, ScanShape, StackShape, InCall, Rows, Cols, RowOf, StateOf
  <1>3. /\ row' \in 0 .. Rows(dfa) /\ col' \in 1 .. Cols(dfa)
        /\ row' < Rows(dfa) => row' < col' /\ col' < Cols(dfa)
    BY <1>1, <1>2, AdvanceFacts DEF Shape
  <1>4. merge' \in [RowOf(dfa) -> [StateOf(dfa) -> {0, 1, UNINIT}]]
    BY <1>1, <1>2 DEF Shape, TypeOK
  <1>5. \A i \in RowOf(dfa), j \in StateOf(dfa) :
          merge'[i][j] = IF i = row /\ j = col THEN 0 ELSE merge[i][j]
    BY <1>1, <1>2 DEF Shape, TypeOK
  <1>6. TypeOK'
    <2>1. stack' \in Seq(Frame(dfa)) /\ Len(stack') <= StackLimit
      BY <1>1, EmptySeq, StackLimitAssumption
    <2>2. made_mark' \in BOOLEAN
      BY <1>1, Zenon
    <2> QED
      BY <1>1, <1>3, <1>4, <2>1, <2>2, Zenon DEF Shape, TypeOK
  <1>7. TableShape'
    BY <1>1, <1>5 DEF Shape, TableShape
  <1>8. ScanShape' /\ StackShape'
    BY <1>1, <1>3, EmptySeq DEF ScanShape, StackShape, InCall, Height
  <1> QED
    BY <1>6, <1>7, <1>8 DEF Shape

LEMMA ShapeCallOnPair ==
  ASSUME Shape, CallOnPair
  PROVE  Shape'
  <1> DEFINE e == [i |-> row, j |-> col, c |-> 0]
  <1>1. /\ UNCHANGED <<dfa, merge, row, col, made_mark, ret>>
        /\ stack' = <<e>> /\ pc' = "call"
        /\ pc = "scan" /\ row < Rows(dfa) /\ ReadsUnmarked(row, col)
    BY DEF CallOnPair
  <1>2. row \in RowOf(dfa) /\ col \in StateOf(dfa) /\ row < col
    BY <1>1, DFAFacts DEF Shape, TypeOK, ScanShape, Rows, Cols, RowOf, StateOf
  <1>3. merge[row][col] = 1
    BY <1>1, <1>2 DEF Shape, TableShape, ReadsUnmarked
  <1>4. e \in Frame(dfa)
    <2>1. row \in NodeOf(dfa) /\ col \in NodeOf(dfa)
      BY <1>2, DFAFacts DEF Shape, TypeOK, NodeOf, StateOf, RowOf
    <2>2. 0 \in 0 .. dfa.alphabet_size
      BY DFAFacts DEF Shape, TypeOK
    <2> QED
      BY <2>1, <2>2 DEF Frame
  <1> HIDE DEF e
  <1>5. /\ stack' \in Seq(Frame(dfa)) /\ Len(stack') = 1 /\ stack'[1] = e
        /\ stack' # <<>>
    BY <1>1, <1>4
  <1>6. TypeOK'
    <2>1. Len(stack') <= StackLimit
      BY <1>5, StackLimitAssumption
    <2> QED
      BY <1>1, <1>5, <2>1, Zenon DEF Shape, TypeOK
  <1>7. ScanShape' /\ TableShape'
    BY <1>1 DEF Shape, ScanShape, TableShape
  <1>8. StackShape'
    <2>1. stack'[1].i = row /\ stack'[1].j = col
      BY <1>5 DEF e
    <2> QED
      BY <1>1, <1>3, <1>5, <2>1 DEF StackShape, InCall, Height
  <1> QED
    BY <1>6, <1>7, <1>8 DEF Shape

LEMMA ShapeCallOnSuccessors ==
  ASSUME Shape, CallOnSuccessors
  PROVE  Shape'
  <1> DEFINE e == [i |-> Out(dfa, Top.i, Top.c),
                   j |-> Out(dfa, Top.j, Top.c), c |-> 0]
  <1>1. /\ UNCHANGED <<dfa, merge, row, col, made_mark, ret>>
        /\ stack' = Append(stack, e) /\ pc' = "call"
        /\ pc = "loop" /\ Top.c < dfa.alphabet_size /\ Height < StackLimit
    BY DEF CallOnSuccessors, Height
  <1>2. stack # <<>> /\ stack \in Seq(Frame(dfa)) /\ dfa \in DFAs
    BY <1>1 DEF Shape, TypeOK
  <1>3. /\ Height \in Nat /\ Height >= 1 /\ Top = stack[Height]
        /\ Top.c \in SymbolOf(dfa)
    BY <1>1, <1>2, TopFacts, DFAFacts DEF Shape, SymbolOf
  <1>4. e \in Frame(dfa)
    <2>1. Out(dfa, Top.i, Top.c) \in NodeOf(dfa) /\ Out(dfa, Top.j, Top.c) \in NodeOf(dfa)
      BY <1>2, <1>3, TopFacts, DFAFacts DEF Shape
    <2>2. 0 \in 0 .. dfa.alphabet_size
      BY <1>2, DFAFacts
    <2> QED
      BY <2>1, <2>2 DEF Frame
  <1>5. /\ e.i = Out(dfa, Top.i, Top.c) /\ e.j = Out(dfa, Top.j, Top.c)
    OBVIOUS
  <1> HIDE DEF e
  <1>6. /\ stack' \in Seq(Frame(dfa)) /\ Len(stack') = Height + 1
        /\ stack'[Height + 1] = e
        /\ \A k \in 1 .. Height : stack'[k] = stack[k]
    BY <1>1, <1>2, <1>4, PushFacts DEF Height
  <1>7. TypeOK'
    <2>1. Len(stack') <= StackLimit /\ stack' # <<>>
      BY <1>1, <1>3, <1>6, StackLimitAssumption, EmptySeq
    <2> QED
      BY <1>1, <1>6, <2>1, Zenon DEF Shape, TypeOK
  <1>8. ScanShape' /\ TableShape'
    BY <1>1 DEF Shape, ScanShape, TableShape
  <1>9. StackShape'
    <2>1. InCall /\ stack'[1] = stack[1]
      BY <1>1, <1>3, <1>6 DEF InCall
    <2>2. /\ row < Rows(dfa) /\ merge[row][col] = 1
          /\ stack'[1].i = row /\ stack'[1].j = col
      BY <2>1 DEF Shape, StackShape
    <2>3. ASSUME NEW k \in 1 .. Height
          PROVE  /\ stack'[k].c < dfa.alphabet_size
                 /\ stack'[k + 1].i = Out(dfa, stack'[k].i, stack'[k].c)
                 /\ stack'[k + 1].j = Out(dfa, stack'[k].j, stack'[k].c)
      <3>1. CASE k = Height
        BY <3>1, <1>1, <1>3, <1>5, <1>6
      <3>2. CASE k # Height
        <4>1. k \in 1 .. Height - 1 /\ stack'[k] = stack[k] /\ stack'[k + 1] = stack[k + 1]
          BY <3>2, <1>3, <1>6
        <4> QED
          BY <4>1 DEF Shape, StackShape
      <3> QED
        BY <3>1, <3>2
    <2>4. Height' - 1 = Height
      BY <1>3, <1>6 DEF Height
    <2> QED
      BY <1>1, <2>2, <2>3, <2>4 DEF StackShape
  <1> QED
    BY <1>7, <1>8, <1>9 DEF Shape

\* The callers that stay keep their pairs, and all but the last their character.
LEMMA ReturnShape ==
  ASSUME Shape, pc = "return", Height > 1,
         UNCHANGED <<dfa, merge, row, col, made_mark, ret>>,
         pc' \in {"loop", "return"},
         stack' \in Seq(Frame(dfa)), Len(stack') = Height - 1,
         \A k \in 1 .. Height - 1 : stack'[k].i = stack[k].i /\ stack'[k].j = stack[k].j,
         \A k \in 1 .. Height - 2 : stack'[k].c = stack[k].c
  PROVE  Shape'
  <1>1. Height \in Nat /\ stack \in Seq(Frame(dfa)) /\ Height <= StackLimit
    BY LenProperties DEF Shape, TypeOK, Height
  <1>2. TypeOK'
    <2>1. Len(stack') <= StackLimit /\ stack' # <<>>
      BY <1>1, StackLimitAssumption, EmptySeq
    <2> QED
      BY <2>1, Zenon DEF Shape, TypeOK
  <1>3. ScanShape' /\ TableShape'
    BY DEF Shape, ScanShape, TableShape
  <1>4. StackShape'
    <2>1. /\ row < Rows(dfa) /\ merge[row][col] = 1
          /\ stack'[1].i = row /\ stack'[1].j = col
      BY <1>1 DEF Shape, StackShape, InCall
    <2>2. ASSUME NEW k \in 1 .. Height - 2
          PROVE  /\ stack'[k].c < dfa.alphabet_size
                 /\ stack'[k + 1].i = Out(dfa, stack'[k].i, stack'[k].c)
                 /\ stack'[k + 1].j = Out(dfa, stack'[k].j, stack'[k].c)
      <3>1. k \in 1 .. Height - 1 /\ k + 1 \in 1 .. Height - 1
        BY <1>1
      <3>2. /\ stack'[k].i = stack[k].i /\ stack'[k].j = stack[k].j
            /\ stack'[k].c = stack[k].c
            /\ stack'[k + 1].i = stack[k + 1].i /\ stack'[k + 1].j = stack[k + 1].j
        BY <3>1
      <3> QED
        BY <3>1, <3>2 DEF Shape, StackShape
    <2>3. Height' - 1 = Height - 2
      BY <1>1 DEF Height
    <2> QED
      BY <2>1, <2>2, <2>3 DEF StackShape
  <1> QED
    BY <1>2, <1>3, <1>4 DEF Shape

\* The stack after a return.
LEMMA ReturnFacts ==
  ASSUME Shape, ReturnTrue \/ ReturnFalse
  PROVE  /\ pc = "return" /\ Height \in Nat /\ Height > 1
         /\ UNCHANGED <<dfa, merge, row, col, made_mark, ret>>
         /\ pc' \in {"loop", "return"}
         /\ stack' \in Seq(Frame(dfa)) /\ Len(stack') = Height - 1
         /\ \A k \in 1 .. Height - 1 :
              stack'[k].i = stack[k].i /\ stack'[k].j = stack[k].j
         /\ \A k \in 1 .. Height - 2 : stack'[k].c = stack[k].c
         /\ ReturnFalse => stack'[Height - 1].c = stack[Height - 1].c + 1
  <1>1. /\ pc = "return" /\ Height > 1 /\ Height \in Nat
        /\ stack \in Seq(Frame(dfa)) /\ dfa \in DFAs
        /\ UNCHANGED <<dfa, merge, row, col, made_mark, ret>>
    BY LenProperties DEF ReturnTrue, ReturnFalse, Height, Shape, TypeOK
  <1>2. CASE ReturnTrue
    <2>1. /\ stack' = SubSeq(stack, 1, Len(stack) - 1) /\ pc' = "return" /\ ret
      BY <1>1, <1>2 DEF ReturnTrue, Pop
    <2>2. ~ReturnFalse
      BY <2>1 DEF ReturnFalse
    <2> QED
      BY <1>1, <2>1, <2>2, PopFacts DEF Height
  <1>3. CASE ReturnFalse
    <2>1. pc' = "loop"
          /\ stack' = Bumped(stack)
      BY <1>3 DEF ReturnFalse, Pop, Bumped
    <2>2. stack[Len(stack) - 1].c < dfa.alphabet_size
      BY <1>1 DEF Shape, StackShape, Height
    <2>3. /\ stack' \in Seq(Frame(dfa))
          /\ Len(stack') = Len(stack) - 1
          /\ \A k \in 1 .. Len(stack') : stack'[k].i = stack[k].i /\ stack'[k].j = stack[k].j
          /\ \A k \in 1 .. Len(stack') - 1 : stack'[k].c = stack[k].c
          /\ stack'[Len(stack')].c = stack[Len(stack')].c + 1
      BY <1>1, <2>1, <2>2, BumpFacts DEF Height
    <2> QED
      BY <1>1, <2>1, <2>3 DEF Height
  <1> QED
    BY <1>2, <1>3

\* Every step of quotient() and distinguishable() preserves types and shape.
THEOREM ShapeNext == Shape /\ [Next]_vars => Shape'
  <1> SUFFICES ASSUME Shape, [Next]_vars PROVE Shape'
    OBVIOUS
  <1>0. CASE UNCHANGED vars
    BY <1>0 DEF vars, Shape, TypeOK, ScanShape, TableShape, StackShape, InCall, Height
  <1>1. CASE SkipMarkedPair
    <2>1. stack = <<>> /\ made_mark \in BOOLEAN
      BY <1>1, Zenon DEF SkipMarkedPair, Shape, TypeOK
    <2>2. Advance /\ row < Rows(dfa) /\ UNCHANGED <<dfa, merge, made_mark, stack, ret, pc>>
          /\ pc = "scan"
      BY <1>1 DEF SkipMarkedPair
    <2> QED
      BY <2>1, <2>2, AdvanceFacts, ScanStepShape DEF Shape
  <1>2. CASE CallOnPair
    BY <1>2, ShapeCallOnPair
  <1>3. CASE MarkPair
    BY <1>3, ShapeMarkPair
  <1>4. CASE KeepPair
    <2>1. made_mark \in BOOLEAN /\ InCall
      BY <1>4, Zenon DEF KeepPair, Shape, TypeOK, InCall
    <2>2. row < Rows(dfa)
      BY <2>1 DEF Shape, StackShape
    <2>3. Advance /\ UNCHANGED <<dfa, merge, made_mark, ret>>
          /\ stack' = <<>> /\ pc' = "scan"
      BY <1>4 DEF KeepPair
    <2> QED
      BY <2>1, <2>2, <2>3, AdvanceFacts, ScanStepShape DEF Shape
  <1>5. CASE NextPass
    <2>1. stack = <<>> /\ dfa \in DFAs
      BY <1>5 DEF NextPass, Shape, TypeOK
    <2>2. row' = 0 /\ col' = 1 /\ made_mark' = FALSE /\ pc' = "scan"
          /\ UNCHANGED <<dfa, merge, stack, ret>>
      BY <1>5 DEF NextPass
    <2>3. /\ row' \in 0 .. Rows(dfa) /\ col' \in 1 .. Cols(dfa)
          /\ row' < Rows(dfa) => row' < col' /\ col' < Cols(dfa)
      BY <2>1, <2>2, DFAFacts DEF Rows, Cols
    <2>4. made_mark' \in BOOLEAN
      BY <2>2, Zenon
    <2> QED
      BY <2>1, <2>2, <2>3, <2>4, ScanStepShape
  <1>6. CASE LastPass
    <2>1. stack = <<>> /\ made_mark \in BOOLEAN
      BY <1>6, Zenon DEF LastPass, Shape, TypeOK
    <2>2. /\ row = Rows(dfa) /\ ~made_mark /\ pc' = "done"
          /\ UNCHANGED <<dfa, merge, row, col, made_mark, stack, ret>>
      BY <1>6 DEF LastPass
    <2> QED
      BY <2>1, <2>2, ScanStepShape DEF Shape, TypeOK, ScanShape
  <1>7. CASE SameState
    BY <1>7, AnswerShape DEF SameState
  <1>8. CASE AlreadyMarked
    BY <1>8, AnswerShape DEF AlreadyMarked
  <1>9. CASE UnmarkedLastRow
    BY <1>9, AnswerShape DEF UnmarkedLastRow
  <1>10. CASE AcceptanceDiffers
    BY <1>10, AnswerShape DEF AcceptanceDiffers
  <1>11. CASE NoSuffixSeparates
    BY <1>11, AnswerShape DEF NoSuffixSeparates
  <1>12. CASE BeginSuffixes
    BY <1>12, MoveShape DEF BeginSuffixes
  <1>13. CASE StackOverflow
    BY <1>13, MoveShape DEF StackOverflow
  <1>14. CASE CallOnSuccessors
    BY <1>14, ShapeCallOnSuccessors
  <1>15. CASE ReturnTrue \/ ReturnFalse
    BY <1>15, ReturnFacts, ReturnShape
  <1>16. CASE Stopped
    BY <1>0, <1>16 DEF Stopped
  <1> QED
    BY <1>0, <1>1, <1>2, <1>3, <1>4, <1>5, <1>6, <1>7, <1>8, <1>9, <1>10, <1>11,
       <1>12, <1>13, <1>14, <1>15, <1>16 DEF Next, QuotientLoop, Distinguishable

\* The typing and shape of table and stack always hold (minimize.c:214-319).
THEOREM ShapeInvariant == Spec => []Shape
  BY ShapeInit, ShapeNext, PTL DEF Spec

\* Type correctness of quotient() and distinguishable().
THEOREM TypeCorrect == Spec => []TypeOK
  BY ShapeInvariant, PTL DEF Shape

\* distinguishable() never reads a cell that init_minimal_dfa() left unwritten
\* or that lies outside the table, for every automaton (minimize.c:251).
THEOREM OnlyWrittenCellsRead == Spec => []ReadsWrittenCell
  <1>1. Shape => ReadsWrittenCell
    <2> SUFFICES ASSUME Shape, pc = "call", Top.i # Top.j, Live
                 PROVE  /\ ReadRow \in RowOf(dfa) /\ ReadCol \in StateOf(dfa)
                        /\ merge[ReadRow][ReadCol] # UNINIT
      BY DEF ReadsWrittenCell
    <2>1. stack # <<>>
      BY DEF Shape, TypeOK
    <2> QED
      BY <2>1, ReadFacts DEF Shape, UNINIT
  <1> QED
    BY <1>1, ShapeInvariant, PTL

-----------------------------------------------------------------------------
(* Layer 2: soundness of "true" and of marks.                              *)

TrueSound ==
  pc = "return" /\ ret =>
    \A R \in Bisimulations(dfa) : ~Related(R, Top.i, Top.j)

Sound == MarksSound /\ TrueSound

LEMMA BisimulationFacts ==
  ASSUME NEW d \in DFAs, NEW R \in Bisimulations(d),
         NEW p \in NodeOf(d), NEW q \in NodeOf(d), Related(R, p, q)
  PROVE  /\ Accepts(d, p) <=> Accepts(d, q)
         /\ \A c \in SymbolOf(d) : Related(R, Out(d, p, c), Out(d, q, c))
  <1>1. R \subseteq AgreeingPair(d) /\ IsBisimulation(d, R)
    BY DEF Bisimulations
  <1>2. CASE p = q
    BY <1>2 DEF Related
  <1>3. CASE <<p, q>> \in R
    BY <1>1, <1>3 DEF AgreeingPair, IsBisimulation
  <1>4. CASE <<q, p>> \in R
    BY <1>1, <1>4 DEF AgreeingPair, IsBisimulation, Related
  <1> QED
    BY <1>2, <1>3, <1>4 DEF Related

\* No bisimulation relates the states of a marked pair, in either order.
LEMMA MarkedUnrelated ==
  ASSUME Shape, MarksSound, NEW i \in StateOf(dfa), NEW j \in StateOf(dfa),
         i < j, merge[i][j] = 0, NEW R \in Bisimulations(dfa)
  PROVE  ~Related(R, i, j) /\ ~Related(R, j, i)
  <1>1. dfa \in DFAs /\ i \in Int /\ j \in Int
    BY DFAFacts DEF Shape, TypeOK, StateOf
  <1>2. <<i, j>> \in Apart
    BY DEF Apart, LivePair
  <1>3. <<i, j>> \notin UNION Bisimulations(dfa)
    BY <1>1, <1>2 DEF MarksSound, Separable, InseparablePair
  <1>4. R \subseteq AgreeingPair(dfa)
    BY DEF Bisimulations
  <1>5. <<j, i>> \notin R
    BY <1>1, <1>4 DEF AgreeingPair
  <1> QED
    BY <1>1, <1>3, <1>5 DEF Related

\* The pairs that init_minimal_dfa() marks differ in acceptance, so separable.
THEOREM SoundInit == Init => Sound
  <1> SUFFICES ASSUME Init PROVE Sound
    OBVIOUS
  <1>1. dfa \in DFAs /\ dfa.size \in Nat /\ dfa.size >= 2 /\ Shape
    BY DFAFacts, ShapeInit DEF Init
  <1>2. MarksSound
    <2> SUFFICES ASSUME NEW pr \in Apart, NEW R \in Bisimulations(dfa), pr \in R
                 PROVE  FALSE
      BY <1>1 DEF MarksSound, Apart, Separable, InseparablePair
    <2>1. /\ pr[1] \in RowOf(dfa) /\ pr[2] \in StateOf(dfa) /\ pr[1] < pr[2]
          /\ merge[pr[1]][pr[2]] = 0
      BY <1>1 DEF Apart, LivePair, RowOf, StateOf
    <2>2. merge[pr[1]][pr[2]] = IF Accepts(dfa, pr[1]) # Accepts(dfa, pr[2]) THEN 0 ELSE 1
      BY <1>1, <2>1 DEF Init, InitialMerge, RowOf, StateOf
    <2>3. Accepts(dfa, pr[1]) <=> Accepts(dfa, pr[2])
      BY DEF Bisimulations, AgreeingPair
    <2> QED
      BY <2>1, <2>2, <2>3 DEF Accepts
  <1>3. TrueSound
    BY DEF Init, TrueSound
  <1> QED
    BY <1>2, <1>3 DEF Sound

\* The table is as it was, and "true" is not being returned.
LEMMA SoundKept ==
  ASSUME Shape, Sound, UNCHANGED <<dfa, merge>>, pc' # "return" \/ ~ret'
  PROVE  Sound'
  <1>1. MarksSound'
    BY DEF Sound, MarksSound, Apart
  <1>2. TrueSound'
    BY DEF TrueSound
  <1> QED
    BY <1>1, <1>2 DEF Sound

LEMMA SoundMarkPair ==
  ASSUME Shape, Sound, MarkPair
  PROVE  Sound'
  <1>1. /\ dfa' = dfa /\ pc = "return" /\ pc' = "scan" /\ ret /\ Height = 1
        /\ merge' = [merge EXCEPT ![row][col] = 0]
    BY DEF MarkPair, Height
  <1>2. /\ dfa \in DFAs
        /\ row \in RowOf(dfa) /\ row \in StateOf(dfa) /\ col \in StateOf(dfa) /\ row < col
    BY <1>1, DFAFacts
    DEF Shape, TypeOK, ScanShape, StackShape, InCall, Rows, Cols, RowOf, StateOf
  <1>3. \A R \in Bisimulations(dfa) : <<row, col>> \notin R
    <2>1. Top.i = row /\ Top.j = col
      BY <1>1 DEF Shape, StackShape, InCall, Top, Height
    <2> QED
      BY <1>1, <2>1 DEF Sound, TrueSound, Related
  <1>4. \A i \in RowOf(dfa), j \in StateOf(dfa) :
          merge'[i][j] = IF i = row /\ j = col THEN 0 ELSE merge[i][j]
    BY <1>1, <1>2 DEF Shape, TypeOK
  <1>5. MarksSound'
    <2> SUFFICES ASSUME NEW pr \in LivePair(dfa), merge'[pr[1]][pr[2]] = 0
                 PROVE  pr \in Separable[dfa]
      BY <1>1 DEF MarksSound, Apart
    <2>1. pr[1] \in RowOf(dfa) /\ pr[2] \in StateOf(dfa) /\ pr = <<pr[1], pr[2]>>
      BY <1>2, DFAFacts DEF LivePair, RowOf, StateOf
    <2>2. CASE pr = <<row, col>>
      BY <1>2, <1>3, <2>2 DEF Separable, InseparablePair
    <2>3. CASE pr # <<row, col>>
      <3>1. merge[pr[1]][pr[2]] = 0
        BY <1>4, <2>1, <2>3
      <3> QED
        BY <3>1 DEF Sound, MarksSound, Apart
    <2> QED
      BY <2>2, <2>3
  <1>6. TrueSound'
    BY <1>1 DEF TrueSound
  <1> QED
    BY <1>5, <1>6 DEF Sound

LEMMA SoundAlreadyMarked ==
  ASSUME Shape, Sound, AlreadyMarked
  PROVE  Sound'
  <1>1. /\ pc = "call" /\ Top.i # Top.j /\ Live /\ ReadsMarked(ReadRow, ReadCol)
        /\ UNCHANGED <<dfa, merge, stack>>
    BY DEF AlreadyMarked, Answer
  <1>2. stack # <<>> /\ dfa \in DFAs
    BY <1>1 DEF Shape, TypeOK
  <1>3. /\ ReadRow \in StateOf(dfa) /\ ReadCol \in StateOf(dfa) /\ ReadRow < ReadCol
        /\ merge[ReadRow][ReadCol] = 0
        /\ {ReadRow, ReadCol} = {Top.i, Top.j}
    BY <1>1, <1>2, ReadFacts, DFAFacts DEF Shape, ReadsMarked, UNINIT, RowOf, StateOf
  <1>4. \A R \in Bisimulations(dfa) : ~Related(R, Top.i, Top.j)
    <2> SUFFICES ASSUME NEW R \in Bisimulations(dfa) PROVE ~Related(R, Top.i, Top.j)
      OBVIOUS
    <2>1. ~Related(R, ReadRow, ReadCol) /\ ~Related(R, ReadCol, ReadRow)
      BY <1>3, MarkedUnrelated DEF Sound
    <2>2. (Top.i = ReadRow /\ Top.j = ReadCol) \/ (Top.i = ReadCol /\ Top.j = ReadRow)
      BY <1>1, <1>3
    <2> QED
      BY <2>1, <2>2
  <1>5. MarksSound'
    BY <1>1 DEF Sound, MarksSound, Apart
  <1>6. TrueSound'
    BY <1>1, <1>4 DEF TrueSound, Top
  <1> QED
    BY <1>5, <1>6 DEF Sound

LEMMA SoundAcceptanceDiffers ==
  ASSUME Shape, Sound, AcceptanceDiffers
  PROVE  Sound'
  <1>1. /\ pc = "call" /\ Accepts(dfa, Top.i) # Accepts(dfa, Top.j)
        /\ UNCHANGED <<dfa, merge, stack>>
    BY DEF AcceptanceDiffers, Answer
  <1>2. stack # <<>> /\ dfa \in DFAs
    BY <1>1 DEF Shape, TypeOK
  <1>3. Top.i \in NodeOf(dfa) /\ Top.j \in NodeOf(dfa)
    BY <1>2, TopFacts DEF Shape
  <1>4. \A R \in Bisimulations(dfa) : ~Related(R, Top.i, Top.j)
    BY <1>1, <1>2, <1>3, BisimulationFacts DEF Accepts
  <1>5. MarksSound'
    BY <1>1 DEF Sound, MarksSound, Apart
  <1>6. TrueSound'
    BY <1>1, <1>4 DEF TrueSound, Top
  <1> QED
    BY <1>5, <1>6 DEF Sound

LEMMA SoundReturnTrue ==
  ASSUME Shape, Sound, ReturnTrue
  PROVE  Sound'
  <1>1. /\ pc = "return" /\ ret /\ Height \in Nat /\ Height > 1
        /\ UNCHANGED <<dfa, merge>> /\ Len(stack') = Height - 1
        /\ stack'[Height - 1].i = stack[Height - 1].i
        /\ stack'[Height - 1].j = stack[Height - 1].j
    BY ReturnFacts DEF ReturnTrue
  <1>2. dfa \in DFAs /\ stack # <<>> /\ stack \in Seq(Frame(dfa))
    BY <1>1 DEF Shape, TypeOK
  <1> DEFINE u == stack[Height - 1]
  <1>3. /\ u.i \in NodeOf(dfa) /\ u.j \in NodeOf(dfa) /\ u.c \in SymbolOf(dfa)
        /\ Top.i = Out(dfa, u.i, u.c) /\ Top.j = Out(dfa, u.j, u.c)
    <2>1. Height - 1 \in 1 .. Height /\ Height - 1 \in 1 .. Height - 1
      BY <1>1
    <2>2. u \in Frame(dfa)
      BY <1>2, <2>1, ElementOfSeq DEF Height
    <2>3. u.i \in NodeOf(dfa) /\ u.j \in NodeOf(dfa) /\ u.c \in 0 .. dfa.alphabet_size
      BY <2>2 DEF Frame
    <2>4. /\ u.c < dfa.alphabet_size
          /\ stack[Height - 1 + 1].i = Out(dfa, u.i, u.c)
          /\ stack[Height - 1 + 1].j = Out(dfa, u.j, u.c)
      BY <2>1 DEF Shape, StackShape
    <2>5. stack[Height - 1 + 1] = Top
      BY <1>1 DEF Top, Height
    <2>6. u.c \in SymbolOf(dfa)
      BY <1>2, <2>3, <2>4, DFAFacts DEF SymbolOf
    <2> QED
      BY <2>3, <2>4, <2>5, <2>6
  <1>4. Top'.i = u.i /\ Top'.j = u.j
    BY <1>1 DEF Top
  <1>5. \A R \in Bisimulations(dfa) : ~Related(R, u.i, u.j)
    <2> SUFFICES ASSUME NEW R \in Bisimulations(dfa), Related(R, u.i, u.j) PROVE FALSE
      OBVIOUS
    <2>1. Related(R, Top.i, Top.j)
      BY <1>2, <1>3, BisimulationFacts
    <2> QED
      BY <1>1, <2>1 DEF Sound, TrueSound
  <1>6. MarksSound'
    BY <1>1 DEF Sound, MarksSound, Apart
  <1>7. TrueSound'
    BY <1>1, <1>4, <1>5 DEF TrueSound
  <1> QED
    BY <1>6, <1>7 DEF Sound

\* No step marks, or is about to mark, a pair that no suffix separates.
THEOREM SoundNext == Shape /\ Sound /\ [Next]_vars => Sound'
  <1> SUFFICES ASSUME Shape, Sound, [Next]_vars PROVE Sound'
    OBVIOUS
  <1>0. CASE UNCHANGED vars
    BY <1>0 DEF vars, Sound, MarksSound, TrueSound, Apart, Top
  <1>1. CASE \/ SkipMarkedPair \/ CallOnPair \/ KeepPair \/ NextPass \/ LastPass
             \/ SameState \/ UnmarkedLastRow \/ NoSuffixSeparates
             \/ BeginSuffixes \/ CallOnSuccessors \/ StackOverflow \/ ReturnFalse
    <2>1. UNCHANGED <<dfa, merge>> /\ (pc' # "return" \/ ~ret')
      BY <1>1 DEF SkipMarkedPair, CallOnPair, KeepPair, NextPass, LastPass,
                  SameState, UnmarkedLastRow, NoSuffixSeparates, Answer,
                  BeginSuffixes, CallOnSuccessors, StackOverflow, ReturnFalse
    <2> QED
      BY <2>1, SoundKept
  <1>2. CASE MarkPair
    BY <1>2, SoundMarkPair
  <1>3. CASE AlreadyMarked
    BY <1>3, SoundAlreadyMarked
  <1>4. CASE AcceptanceDiffers
    BY <1>4, SoundAcceptanceDiffers
  <1>5. CASE ReturnTrue
    BY <1>5, SoundReturnTrue
  <1>6. CASE Stopped
    BY <1>0, <1>6 DEF Stopped
  <1> QED
    BY <1>0, <1>1, <1>2, <1>3, <1>4, <1>5, <1>6 DEF Next, QuotientLoop, Distinguishable

\* Marks and "true" answers are sound throughout quotient().
THEOREM SoundInvariant == Spec => []Sound
  BY ShapeInvariant, SoundInit, SoundNext, PTL DEF Spec

\* No pair that every suffix treats alike is ever marked, whatever the
\* automaton and however deep the calls are nested.
THEOREM MarksAreSound == Spec => []MarksSound
  BY SoundInvariant, PTL DEF Sound

-----------------------------------------------------------------------------
(* Layer 3: completeness of "false".                                       *)

\* No suffix leads from a state of S to an accepting state.
IsBlank(S) ==
  /\ S \subseteq StateOf(dfa)
  /\ \A s \in S : ~Accepts(dfa, s)
  /\ \A s \in S, c \in SymbolOf(dfa) : Out(dfa, s, c) \in S \cup {DEAD_STATE}

Blank == UNION {S \in SUBSET StateOf(dfa) : IsBlank(S)}

Cell(p, q) == IF p < q THEN merge[p][q] ELSE merge[q][p]

\* The table, read as a verdict on any two nodes, keeps p and q together.
Agrees(p, q) ==
  \/ p = q
  \/ p # DEAD_STATE /\ q # DEAD_STATE /\ Cell(p, q) = 1
  \/ p = DEAD_STATE /\ q \in Blank
  \/ q = DEAD_STATE /\ p \in Blank

\* The calls that have begun their loop over the characters.
Looping(k) == k < Height \/ pc \in {"loop", "overflow"}

\* What a call has found out before it begins its loop.
Opened(k) ==
  /\ stack[k].i # stack[k].j
  /\ Accepts(dfa, stack[k].i) <=> Accepts(dfa, stack[k].j)
  /\ stack[k].i # DEAD_STATE /\ stack[k].j # DEAD_STATE
       => Cell(stack[k].i, stack[k].j) = 1

\* Every call agrees with the table on the characters it has tried.
FramesAgree ==
  \A k \in 1 .. Height :
    /\ Looping(k) => Opened(k)
    /\ \A c \in SymbolOf(dfa) : c < stack[k].c =>
         Agrees(Out(dfa, stack[k].i, c), Out(dfa, stack[k].j, c))

FalseAgrees ==
  pc = "return" /\ ~ret =>
    /\ Agrees(Top.i, Top.j)
    /\ Height = 1 => Top.c = dfa.alphabet_size

\* The pairs that the current pass is done with.
Scanned(pr) == pr[1] < row \/ (pr[1] = row /\ pr[2] < col)

StableUnder(pr) ==
  \A c \in SymbolOf(dfa) : Agrees(Out(dfa, pr[1], c), Out(dfa, pr[2], c))

\* While a pass has marked nothing, the pairs it kept are stable.
PassAgrees ==
  ~made_mark =>
    \A pr \in LivePair(dfa) :
      Scanned(pr) /\ merge[pr[1]][pr[2]] = 1 => StableUnder(pr)

Complete == FramesAgree /\ FalseAgrees /\ PassAgrees

\* Before the first call there is no verdict yet for the passes to rely on.
THEOREM CompleteInit == Init => Complete
  <1> SUFFICES ASSUME Init PROVE Complete
    OBVIOUS
  <1>1. Height = 0 /\ row = 0 /\ col = 1 /\ pc = "scan" /\ dfa \in DFAs
    BY EmptySeq DEF Init, Height
  <1>2. FramesAgree /\ FalseAgrees
    BY <1>1 DEF FramesAgree, FalseAgrees
  <1>3. \A pr \in LivePair(dfa) : ~Scanned(pr)
    BY <1>1, DFAFacts DEF LivePair, StateOf, Scanned
  <1> QED
    BY <1>2, <1>3 DEF Complete, PassAgrees

\* A state without an accepting or a live way out joins the blank states.
LEMMA BlankFacts ==
  /\ Blank \subseteq StateOf(dfa)
  /\ \A s \in Blank : ~Accepts(dfa, s)
  /\ \A s \in Blank, c \in SymbolOf(dfa) : Out(dfa, s, c) \in Blank \cup {DEAD_STATE}
  BY DEF Blank, IsBlank

LEMMA BlankGrows ==
  ASSUME NEW q \in StateOf(dfa), ~Accepts(dfa, q),
         \A c \in SymbolOf(dfa) : Out(dfa, q, c) \in Blank \cup {DEAD_STATE}
  PROVE  q \in Blank
  <1>1. IsBlank(Blank \cup {q})
    BY BlankFacts DEF IsBlank
  <1>2. Blank \cup {q} \in SUBSET StateOf(dfa)
    BY BlankFacts
  <1> QED
    BY <1>1, <1>2 DEF Blank

\* A call whose characters all agree with the table agrees with it itself.
LEMMA AgreesFromSuccessors ==
  ASSUME Shape, NEW p \in NodeOf(dfa), NEW q \in NodeOf(dfa),
         Accepts(dfa, p) <=> Accepts(dfa, q),
         p # DEAD_STATE /\ q # DEAD_STATE => Cell(p, q) = 1,
         \A c \in SymbolOf(dfa) : Agrees(Out(dfa, p, c), Out(dfa, q, c))
  PROVE  Agrees(p, q)
  <1>1. ~Accepts(dfa, DEAD_STATE) /\ DEAD_STATE \notin StateOf(dfa)
    BY DFAFacts DEF Shape, TypeOK, Accepts, StateOf, DEAD_STATE
  <1>2. CASE p = DEAD_STATE /\ q # DEAD_STATE
    <2>1. q \in StateOf(dfa) /\ ~Accepts(dfa, q)
      BY <1>1, <1>2 DEF NodeOf
    <2>2. \A c \in SymbolOf(dfa) : Out(dfa, q, c) \in Blank \cup {DEAD_STATE}
      BY <1>1, <1>2, BlankFacts DEF Agrees, Out
    <2> QED
      BY <1>2, <2>1, <2>2, BlankGrows DEF Agrees
  <1>3. CASE q = DEAD_STATE /\ p # DEAD_STATE
    <2>1. p \in StateOf(dfa) /\ ~Accepts(dfa, p)
      BY <1>1, <1>3 DEF NodeOf
    <2>2. \A c \in SymbolOf(dfa) : Out(dfa, p, c) \in Blank \cup {DEAD_STATE}
      BY <1>1, <1>3, BlankFacts DEF Agrees, Out
    <2> QED
      BY <1>3, <2>1, <2>2, BlankGrows DEF Agrees
  <1> QED
    BY <1>2, <1>3 DEF Agrees

\* The verdicts of an unchanged table do not change.
LEMMA AgreesKept ==
  ASSUME UNCHANGED <<dfa, merge>>
  PROVE  /\ \A p, q : Agrees(p, q)' <=> Agrees(p, q)
         /\ \A p, q : Cell(p, q)' = Cell(p, q)
  BY DEF Agrees, Cell, Blank, IsBlank

\* The pairs done with after a step of the inner loop.
LEMMA AdvanceScanned ==
  ASSUME Shape, row < Rows(dfa), Advance, UNCHANGED dfa,
         NEW pr \in LivePair(dfa), Scanned(pr)'
  PROVE  Scanned(pr) \/ pr = <<row, col>>
  <1> DEFINE p == pr[1]
             q == pr[2]
  <1>1. /\ p \in Int /\ q \in Int /\ p < q /\ q < Cols(dfa)
    BY DFAFacts DEF LivePair, StateOf, Cols, Shape, TypeOK
  <1>2. row \in Int /\ col \in Int /\ row < col /\ col < Cols(dfa) /\ Cols(dfa) \in Int
    BY DFAFacts DEF Shape, TypeOK, ScanShape, Rows, Cols
  <1>3. p < row' \/ (p = row' /\ q < col')
    BY DEF Scanned
  <1>4. (p = row /\ q = col) => pr = <<row, col>>
    BY DEF LivePair
  <1>5. (p < row \/ (p = row /\ q < col)) => Scanned(pr)
    BY DEF Scanned
  <1>6. (row' = row /\ col' = col + 1)
          \/ (row' = row + 1 /\ col' = row + 2 /\ ~(col + 1 < Cols(dfa)))
    BY DEF Advance
  <1> HIDE DEF p, q
  <1>7. (p < row \/ (p = row /\ q < col)) \/ (p = row /\ q = col)
    <2> DEFINE m == Cols(dfa)
    <2>1. m \in Int /\ q < m /\ col < m
      BY <1>1, <1>2
    <2> HIDE DEF m
    <2>2. CASE row' = row /\ col' = col + 1
      BY <1>1, <1>2, <1>3, <2>2
    <2>3. CASE row' = row + 1 /\ col' = row + 2 /\ ~(col + 1 < m)
      BY <1>1, <1>2, <1>3, <2>1, <2>3
    <2> QED
      BY <1>6, <2>2, <2>3 DEF m
  <1> QED
    BY <1>4, <1>5, <1>7

\* Steps that touch neither the table, the scan nor the calls below the top.
LEMMA AnswerComplete ==
  ASSUME Shape, Complete, pc \in {"call", "loop"}, NEW v \in BOOLEAN, Answer(v),
         v \/ (Agrees(Top.i, Top.j) /\ (Height = 1 => Top.c = dfa.alphabet_size))
  PROVE  Complete'
  <1>1. /\ UNCHANGED <<dfa, merge, row, col, made_mark, stack>>
        /\ ret' = v /\ pc' = "return" /\ Height' = Height
    BY Zenon DEF Answer, Height
  <1>2. FramesAgree'
    <2>1. ASSUME NEW k \in 1 .. Height, Looping(k)' PROVE Looping(k)
      BY <1>1, <2>1 DEF Looping
    <2>2. ASSUME NEW k \in 1 .. Height, Looping(k)' PROVE Opened(k)'
      BY <1>1, <2>1, <2>2, AgreesKept DEF Complete, FramesAgree, Opened, Accepts
    <2> QED
      BY <1>1, <2>2, AgreesKept DEF Complete, FramesAgree
  <1>3. FalseAgrees'
    BY <1>1, AgreesKept DEF FalseAgrees, Top
  <1>4. PassAgrees'
    BY <1>1, AgreesKept DEF Complete, PassAgrees, Scanned, StableUnder
  <1> QED
    BY <1>2, <1>3, <1>4 DEF Complete

LEMMA MoveComplete ==
  ASSUME Shape, Complete, pc \in {"call", "loop"}, pc' \in {"loop", "overflow"},
         UNCHANGED <<dfa, merge, row, col, made_mark, stack, ret>>,
         pc = "loop" \/ Opened(Height)
  PROVE  Complete'
  <1>1. Height' = Height /\ Height \in Nat
    BY LenProperties DEF Height, Shape, TypeOK
  <1>2. FramesAgree'
    <2>1. ASSUME NEW k \in 1 .. Height PROVE Opened(k)
      <3>1. k < Height \/ k = Height
        BY <1>1
      <3> QED
        BY <3>1 DEF Complete, FramesAgree, Looping
    <2>2. ASSUME NEW k \in 1 .. Height PROVE Opened(k)'
      BY <2>1, AgreesKept DEF Opened, Accepts
    <2> QED
      BY <1>1, <2>2, AgreesKept DEF Complete, FramesAgree
  <1>3. FalseAgrees'
    BY DEF FalseAgrees
  <1>4. PassAgrees'
    BY AgreesKept DEF Complete, PassAgrees, Scanned, StableUnder
  <1> QED
    BY <1>2, <1>3, <1>4 DEF Complete

\* The verdict that the looked-up cell gives on the pair of the top call.
LEMMA ReadIsCell ==
  ASSUME Shape, stack # <<>>, Top.i # Top.j, Live, ReadsUnmarked(ReadRow, ReadCol)
  PROVE  Cell(Top.i, Top.j) = 1
  <1>1. /\ ReadRow \in RowOf(dfa) /\ ReadCol \in StateOf(dfa) /\ ReadRow < ReadCol
        /\ merge[ReadRow][ReadCol] = 1
        /\ {ReadRow, ReadCol} = {Top.i, Top.j}
    BY ReadFacts DEF Shape, ReadsUnmarked
  <1>2. ReadRow \in Int /\ ReadCol \in Int /\ ~(ReadCol < ReadRow)
    BY <1>1, DFAFacts DEF Shape, TypeOK, RowOf, StateOf
  <1>3. (Top.i = ReadRow /\ Top.j = ReadCol) \/ (Top.i = ReadCol /\ Top.j = ReadRow)
    BY <1>1
  <1> QED
    BY <1>1, <1>2, <1>3 DEF Cell

LEMMA CompleteUnmarkedLastRow ==
  ASSUME Shape, Complete, UnmarkedLastRow
  PROVE  Complete'
  <1>1. /\ pc = "call" /\ Top.i # Top.j /\ Live /\ ReadsUnmarked(ReadRow, ReadCol)
        /\ Top.i = Rows(dfa) /\ Answer(FALSE)
    BY DEF UnmarkedLastRow
  <1>2. stack # <<>>
    BY <1>1 DEF Shape, TypeOK
  <1>3. Agrees(Top.i, Top.j)
    BY <1>1, <1>2, ReadIsCell DEF Live, Agrees
  <1>4. Height # 1
    BY <1>1, DFAFacts DEF Shape, TypeOK, StackShape, InCall, Top, Height, Rows
  <1> QED
    BY <1>1, <1>3, <1>4, AnswerComplete

LEMMA CompleteSameState ==
  ASSUME Shape, Complete, SameState
  PROVE  Complete'
  <1>1. pc = "call" /\ Top.i = Top.j /\ Answer(FALSE)
    BY DEF SameState
  <1>2. Height # 1
    BY <1>1, DFAFacts DEF Shape, TypeOK, ScanShape, StackShape, InCall, Top, Height, Rows
  <1> QED
    BY <1>1, <1>2, AnswerComplete DEF Agrees

LEMMA CompleteBeginSuffixes ==
  ASSUME Shape, Complete, BeginSuffixes
  PROVE  Complete'
  <1>1. /\ pc = "call" /\ pc' = "loop" /\ NotMarked
        /\ Accepts(dfa, Top.i) = Accepts(dfa, Top.j)
        /\ UNCHANGED <<dfa, merge, row, col, made_mark, stack, ret>>
    BY DEF BeginSuffixes
  <1>2. stack # <<>> /\ Top = stack[Height]
    BY <1>1, TopFacts DEF Shape, TypeOK
  <1>3. Top.i # Top.j /\ (Live => Cell(Top.i, Top.j) = 1)
    BY <1>1, <1>2, ReadIsCell DEF NotMarked
  <1>4. Opened(Height)
    BY <1>1, <1>2, <1>3 DEF Opened, Live
  <1> QED
    BY <1>1, <1>4, MoveComplete

LEMMA CompleteNoSuffixSeparates ==
  ASSUME Shape, Complete, NoSuffixSeparates
  PROVE  Complete'
  <1>1. pc = "loop" /\ Top.c = dfa.alphabet_size /\ Answer(FALSE)
    BY DEF NoSuffixSeparates
  <1>2. stack # <<>>
    BY <1>1 DEF Shape, TypeOK
  <1>3. /\ Height \in 1 .. Height /\ Top = stack[Height]
        /\ Top.i \in NodeOf(dfa) /\ Top.j \in NodeOf(dfa)
    BY <1>2, TopFacts DEF Shape
  <1>4. Opened(Height)
    BY <1>1, <1>3 DEF Complete, FramesAgree, Looping
  <1>5. \A c \in SymbolOf(dfa) : Agrees(Out(dfa, Top.i, c), Out(dfa, Top.j, c))
    <2>1. \A c \in SymbolOf(dfa) : c < Top.c
      BY <1>1, DFAFacts DEF SymbolOf, Shape, TypeOK
    <2> QED
      BY <1>3, <2>1 DEF Complete, FramesAgree
  <1>6. Agrees(Top.i, Top.j)
    BY <1>3, <1>4, <1>5, AgreesFromSuccessors DEF Opened
  <1> QED
    BY <1>1, <1>6, AnswerComplete

LEMMA CompleteCallOnSuccessors ==
  ASSUME Shape, Complete, CallOnSuccessors
  PROVE  Complete'
  <1> DEFINE e == [i |-> Out(dfa, Top.i, Top.c),
                   j |-> Out(dfa, Top.j, Top.c), c |-> 0]
  <1>1. /\ UNCHANGED <<dfa, merge, row, col, made_mark, ret>>
        /\ stack' = Append(stack, e) /\ pc' = "call" /\ pc = "loop"
    BY DEF CallOnSuccessors
  <1>2. /\ stack \in Seq(Frame(dfa)) /\ e.c = 0 /\ dfa \in DFAs /\ Height \in Nat
    BY LenProperties DEF Shape, TypeOK, Height
  <1> HIDE DEF e
  <1>3. /\ Height' = Height + 1 /\ stack'[Height + 1] = e
        /\ \A k \in 1 .. Height : stack'[k] = stack[k]
    BY <1>1, <1>2, AppendProperties DEF Height
  <1>4. FramesAgree'
    <2>1. ASSUME NEW k \in 1 .. Height PROVE Opened(k)'
      <3>1. Opened(k)
        BY <1>1 DEF Complete, FramesAgree, Looping
      <3> QED
        BY <1>1, <1>3, <3>1, AgreesKept DEF Opened, Accepts
    <2>2. ASSUME NEW k \in 1 .. Height + 1, Looping(k)' PROVE Opened(k)'
      <3>1. k \in 1 .. Height
        BY <1>1, <1>2, <1>3, <2>2 DEF Looping
      <3> QED
        BY <2>1, <3>1
    <2>3. ASSUME NEW k \in 1 .. Height + 1, NEW c \in SymbolOf(dfa), c < stack'[k].c
          PROVE  Agrees(Out(dfa, stack'[k].i, c), Out(dfa, stack'[k].j, c))
      <3>1. k # Height + 1
        BY <1>2, <1>3, <2>3, DFAFacts DEF SymbolOf
      <3>2. k \in 1 .. Height /\ stack'[k] = stack[k]
        BY <1>2, <1>3, <3>1
      <3> QED
        BY <2>3, <3>2 DEF Complete, FramesAgree
    <2> QED
      BY <1>1, <1>3, <2>2, <2>3, AgreesKept DEF FramesAgree
  <1>5. FalseAgrees'
    BY <1>1 DEF FalseAgrees
  <1>6. PassAgrees'
    BY <1>1, AgreesKept DEF Complete, PassAgrees, Scanned, StableUnder
  <1> QED
    BY <1>4, <1>5, <1>6 DEF Complete

LEMMA CompleteReturn ==
  ASSUME Shape, Complete, ReturnTrue \/ ReturnFalse
  PROVE  Complete'
  <1>1. /\ pc = "return" /\ Height \in Nat /\ Height > 1
        /\ UNCHANGED <<dfa, merge, row, col, made_mark, ret>>
        /\ Len(stack') = Height - 1
        /\ \A k \in 1 .. Height - 1 :
             stack'[k].i = stack[k].i /\ stack'[k].j = stack[k].j
        /\ \A k \in 1 .. Height - 2 : stack'[k].c = stack[k].c
    BY ReturnFacts
  <1>2. Height' = Height - 1
    BY <1>1 DEF Height
  <1>3. (ReturnTrue /\ ret /\ pc' = "return" /\ stack'[Height - 1] = stack[Height - 1])
        \/ (~ret /\ pc' = "loop" /\ stack'[Height - 1].c = stack[Height - 1].c + 1)
    <2>1. CASE ReturnTrue
      <3>1. stack' = SubSeq(stack, 1, Len(stack) - 1) /\ ret /\ pc' = "return"
        BY <1>1, <2>1 DEF ReturnTrue, Pop
      <3>2. stack \in Seq(Frame(dfa)) /\ Len(stack) > 1 /\ Height - 1 \in 1 .. Len(stack) - 1
        BY <1>1 DEF Shape, TypeOK, Height
      <3> QED
        BY <2>1, <3>1, <3>2, PopFacts
    <2>2. CASE ReturnFalse
      BY <2>2, ReturnFacts DEF ReturnFalse
    <2> QED
      BY <2>1, <2>2
  <1>4. ASSUME NEW k \in 1 .. Height - 1 PROVE Opened(k)'
    <2>1. Opened(k)
      BY <1>1 DEF Complete, FramesAgree, Looping
    <2> QED
      BY <1>1, <2>1, AgreesKept DEF Opened, Accepts
  <1>5. ASSUME NEW k \in 1 .. Height - 1, NEW c \in SymbolOf(dfa), c < stack'[k].c
        PROVE  Agrees(Out(dfa, stack[k].i, c), Out(dfa, stack[k].j, c))
    <2>1. CASE c < stack[k].c
      BY <1>1, <2>1 DEF Complete, FramesAgree
    <2>2. CASE ~(c < stack[k].c)
      <3>1. k = Height - 1 /\ ~ret /\ stack'[k].c = stack[k].c + 1
        BY <1>1, <1>3, <1>5, <2>2
      <3>2. stack[k].c \in Int /\ c \in Int
        <4>1. stack[k] \in Frame(dfa)
          BY <1>1, ElementOfSeq DEF Shape, TypeOK, Height
        <4> QED
          BY <4>1, DFAFacts DEF Shape, TypeOK, Frame, SymbolOf
      <3>3. c = stack[k].c
        BY <1>5, <2>2, <3>1, <3>2
      <3>4. /\ stack[k + 1].i = Out(dfa, stack[k].i, c)
            /\ stack[k + 1].j = Out(dfa, stack[k].j, c)
        BY <3>3 DEF Shape, StackShape
      <3>5. stack[k + 1] = Top
        BY <1>1, <3>1 DEF Top, Height
      <3> QED
        BY <1>1, <3>1, <3>4, <3>5 DEF Complete, FalseAgrees
    <2> QED
      BY <2>1, <2>2
  <1>6. FramesAgree'
    BY <1>1, <1>2, <1>4, <1>5, AgreesKept DEF FramesAgree
  <1>7. FalseAgrees'
    BY <1>1, <1>3 DEF FalseAgrees
  <1>8. PassAgrees'
    BY <1>1, AgreesKept DEF Complete, PassAgrees, Scanned, StableUnder
  <1> QED
    BY <1>6, <1>7, <1>8 DEF Complete

\* A step of the scan leaves no calls behind.
LEMMA ScanStepComplete ==
  ASSUME Shape, Complete, stack' = <<>>, pc' # "return", UNCHANGED dfa, PassAgrees'
  PROVE  Complete'
  <1>1. Height' = 0
    BY EmptySeq DEF Height
  <1>2. FramesAgree' /\ FalseAgrees'
    BY <1>1 DEF FramesAgree, FalseAgrees
  <1> QED
    BY <1>2 DEF Complete

LEMMA CompleteSkipMarkedPair ==
  ASSUME Shape, Complete, SkipMarkedPair
  PROVE  Complete'
  <1>1. /\ UNCHANGED <<dfa, merge, made_mark, stack, pc>>
        /\ pc = "scan" /\ row < Rows(dfa) /\ ReadsMarked(row, col) /\ Advance
    BY DEF SkipMarkedPair
  <1>2. stack = <<>>
    BY <1>1 DEF Shape, TypeOK
  <1>3. merge[row][col] # 1
    BY <1>1 DEF ReadsMarked, UNINIT
  <1>4. ASSUME NEW pr \in LivePair(dfa), Scanned(pr)', merge[pr[1]][pr[2]] = 1
        PROVE  Scanned(pr)
    BY <1>1, <1>3, <1>4, AdvanceScanned
  <1>5. PassAgrees'
    BY <1>1, <1>4, AgreesKept DEF Complete, PassAgrees, StableUnder
  <1> QED
    BY <1>1, <1>2, <1>5, ScanStepComplete

LEMMA CompleteKeepPair ==
  ASSUME Shape, Complete, KeepPair
  PROVE  Complete'
  <1>1. /\ UNCHANGED <<dfa, merge, made_mark, ret>> /\ stack' = <<>> /\ pc' = "scan"
        /\ pc = "return" /\ Height = 1 /\ ~ret /\ Advance
    BY DEF KeepPair, Height
  <1>2. row < Rows(dfa) /\ stack[1].i = row /\ stack[1].j = col /\ Top = stack[1]
    BY <1>1 DEF Shape, StackShape, InCall, Top, Height
  <1>3. Top.c = dfa.alphabet_size
    BY <1>1 DEF Complete, FalseAgrees
  <1>4. StableUnder(<<row, col>>)
    <2>1. \A c \in SymbolOf(dfa) : c < stack[1].c
      BY <1>2, <1>3, DFAFacts DEF SymbolOf, Shape, TypeOK
    <2> QED
      BY <1>1, <1>2, <2>1 DEF Complete, FramesAgree, StableUnder
  <1>5. ASSUME NEW pr \in LivePair(dfa), Scanned(pr)'
        PROVE  Scanned(pr) \/ pr = <<row, col>>
    BY <1>1, <1>2, <1>5, AdvanceScanned
  <1>6. ~made_mark => \A pr \in LivePair(dfa) :
          Scanned(pr)' /\ merge[pr[1]][pr[2]] = 1 => StableUnder(pr)
    BY <1>4, <1>5 DEF Complete, PassAgrees
  <1>7. PassAgrees'
    BY <1>1, <1>6, AgreesKept DEF PassAgrees, StableUnder
  <1> QED
    BY <1>1, <1>7, ScanStepComplete

\* Every step keeps the verdict "false" justified by the table of that moment.
THEOREM CompleteNext == Shape /\ Complete /\ [Next]_vars => Complete'
  <1> SUFFICES ASSUME Shape, Complete, [Next]_vars PROVE Complete'
    OBVIOUS
  <1>0. CASE UNCHANGED vars
    <2>1. /\ UNCHANGED <<dfa, merge, row, col, made_mark, stack, ret, pc>>
          /\ Height' = Height /\ Top' = Top
      BY <1>0 DEF vars, Height, Top
    <2>2. FramesAgree'
      BY <2>1, AgreesKept DEF Complete, FramesAgree, Looping, Opened, Accepts
    <2>3. FalseAgrees' /\ PassAgrees'
      BY <2>1, AgreesKept DEF Complete, FalseAgrees, PassAgrees, Scanned, StableUnder
    <2> QED
      BY <2>2, <2>3 DEF Complete
  <1>1. CASE SkipMarkedPair
    BY <1>1, CompleteSkipMarkedPair
  <1>2. CASE CallOnPair
    <2>1. /\ UNCHANGED <<dfa, merge, row, col, made_mark, ret>> /\ pc' = "call"
          /\ stack' = <<[i |-> row, j |-> col, c |-> 0]>>
      BY <1>2 DEF CallOnPair
    <2>2. Height' = 1 /\ stack'[1].c = 0
      BY <2>1 DEF Height
    <2>3. FramesAgree'
      <3>1. \A k \in 1 .. 1 : ~Looping(k)'
        BY <2>1, <2>2 DEF Looping
      <3>2. \A c \in SymbolOf(dfa) : ~(c < stack'[1].c)
        BY <2>2, DFAFacts DEF SymbolOf, Shape, TypeOK
      <3> QED
        BY <2>1, <2>2, <3>1, <3>2 DEF FramesAgree
    <2>4. FalseAgrees' /\ PassAgrees'
      BY <2>1, AgreesKept DEF Complete, FalseAgrees, PassAgrees, Scanned, StableUnder
    <2> QED
      BY <2>3, <2>4 DEF Complete
  <1>3. CASE MarkPair
    <2>1. dfa' = dfa /\ stack' = <<>> /\ pc' = "scan" /\ made_mark' = TRUE
      BY <1>3 DEF MarkPair
    <2> QED
      BY <2>1, ScanStepComplete DEF PassAgrees
  <1>4. CASE KeepPair
    BY <1>4, CompleteKeepPair
  <1>5. CASE NextPass
    <2>1. UNCHANGED <<dfa, stack>> /\ row' = 0 /\ col' = 1 /\ pc' = "scan" /\ pc = "scan"
      BY <1>5 DEF NextPass
    <2>2. stack' = <<>>
      BY <2>1 DEF Shape, TypeOK
    <2>3. \A pr \in LivePair(dfa) : ~Scanned(pr)'
      BY <2>1, DFAFacts DEF LivePair, StateOf, Scanned, Shape, TypeOK
    <2> QED
      BY <2>1, <2>2, <2>3, ScanStepComplete DEF PassAgrees
  <1>6. CASE LastPass
    <2>1. UNCHANGED <<dfa, merge, row, col, made_mark, stack>> /\ pc' = "done" /\ pc = "scan"
      BY <1>6 DEF LastPass
    <2>2. stack' = <<>>
      BY <2>1 DEF Shape, TypeOK
    <2>3. PassAgrees'
      BY <2>1, AgreesKept DEF Complete, PassAgrees, Scanned, StableUnder
    <2> QED
      BY <2>1, <2>2, <2>3, ScanStepComplete
  <1>7. CASE SameState
    BY <1>7, CompleteSameState
  <1>8. CASE AlreadyMarked \/ AcceptanceDiffers
    BY <1>8, AnswerComplete DEF AlreadyMarked, AcceptanceDiffers
  <1>9. CASE UnmarkedLastRow
    BY <1>9, CompleteUnmarkedLastRow
  <1>10. CASE BeginSuffixes
    BY <1>10, CompleteBeginSuffixes
  <1>11. CASE NoSuffixSeparates
    BY <1>11, CompleteNoSuffixSeparates
  <1>12. CASE StackOverflow
    BY <1>12, MoveComplete DEF StackOverflow
  <1>13. CASE CallOnSuccessors
    BY <1>13, CompleteCallOnSuccessors
  <1>14. CASE ReturnTrue \/ ReturnFalse
    BY <1>14, CompleteReturn
  <1>15. CASE Stopped
    BY <1>0, <1>15 DEF Stopped
  <1> QED
    BY <1>0, <1>1, <1>2, <1>3, <1>4, <1>5, <1>6, <1>7, <1>8, <1>9, <1>10, <1>11,
       <1>12, <1>13, <1>14, <1>15 DEF Next, QuotientLoop, Distinguishable

\* Pairs kept in a pass agree with the table as long as nothing was marked.
THEOREM CompleteInvariant == Spec => []Complete
  BY ShapeInvariant, CompleteInit, CompleteNext, PTL DEF Spec

-----------------------------------------------------------------------------
(* The result of quotient().                                               *)

\* What the table keeps together when the last pass has marked nothing.
Kept ==
  {pr \in AgreeingPair(dfa) :
     \/ pr[1] # DEAD_STATE /\ merge[pr[1]][pr[2]] = 1
     \/ pr[1] = DEAD_STATE /\ pr[2] \in Blank}

LEMMA AgreesIsKept ==
  ASSUME Shape, NEW p \in NodeOf(dfa), NEW q \in NodeOf(dfa), Agrees(p, q)
  PROVE  Related(Kept, p, q)
  <1>1. /\ dfa \in DFAs /\ p \in Int /\ q \in Int
        /\ ~Accepts(dfa, DEAD_STATE) /\ \A s \in StateOf(dfa) : DEAD_STATE < s
        /\ StateOf(dfa) \subseteq NodeOf(dfa) /\ DEAD_STATE \in NodeOf(dfa)
    BY DFAFacts DEF Shape, TypeOK, Accepts, StateOf, NodeOf, DEAD_STATE
  <1>2. CASE p = DEAD_STATE /\ q \in Blank
    <2>1. <<p, q>> \in Kept
      BY <1>1, <1>2, BlankFacts DEF Kept, AgreeingPair
    <2> QED
      BY <2>1 DEF Related
  <1>3. CASE q = DEAD_STATE /\ p \in Blank
    <2>1. <<q, p>> \in Kept
      BY <1>1, <1>3, BlankFacts DEF Kept, AgreeingPair
    <2> QED
      BY <2>1 DEF Related
  <1>4. CASE p # q /\ p # DEAD_STATE /\ q # DEAD_STATE /\ Cell(p, q) = 1
    <2>1. p \in StateOf(dfa) /\ q \in StateOf(dfa)
      BY <1>4 DEF NodeOf
    <2>2. ASSUME NEW a \in StateOf(dfa), NEW b \in StateOf(dfa), a < b, merge[a][b] = 1
          PROVE  <<a, b>> \in Kept
      <3>1. a \in RowOf(dfa)
        BY <1>1, <2>2, DFAFacts DEF StateOf, RowOf
      <3>2. Accepts(dfa, a) <=> Accepts(dfa, b)
        BY <2>2, <3>1 DEF Shape, TableShape
      <3>3. a # DEAD_STATE
        BY <1>1 DEF StateOf, DEAD_STATE
      <3> QED
        BY <1>1, <2>2, <3>2, <3>3 DEF Kept, AgreeingPair
    <2>3. CASE p < q
      BY <1>4, <2>1, <2>2, <2>3 DEF Cell, Related
    <2>4. CASE ~(p < q)
      <3>1. q < p
        BY <1>1, <1>4, <2>4
      <3> QED
        BY <1>4, <2>1, <2>2, <2>4, <3>1 DEF Cell, Related
    <2> QED
      BY <2>3, <2>4
  <1> QED
    BY <1>2, <1>3, <1>4 DEF Agrees, Related

LEMMA KeptIsBisimulation ==
  ASSUME Shape, Complete, row = Rows(dfa), ~made_mark
  PROVE  Kept \in Bisimulations(dfa)
  <1>1. dfa \in DFAs
    BY DEF Shape, TypeOK
  <1>2. ASSUME NEW pr \in Kept, NEW c \in SymbolOf(dfa)
        PROVE  Related(Kept, Out(dfa, pr[1], c), Out(dfa, pr[2], c))
    <2>1. /\ pr \in NodeOf(dfa) \X NodeOf(dfa) /\ pr[1] < pr[2]
          /\ Out(dfa, pr[1], c) \in NodeOf(dfa) /\ Out(dfa, pr[2], c) \in NodeOf(dfa)
      BY <1>1, DFAFacts DEF Kept, AgreeingPair
    <2>2. CASE pr[1] # DEAD_STATE
      <3>1. merge[pr[1]][pr[2]] = 1
        BY <2>2 DEF Kept
      <3>2. pr \in LivePair(dfa)
        BY <1>1, <2>1, <2>2, DFAFacts DEF LivePair, NodeOf, StateOf, DEAD_STATE
      <3>3. Scanned(pr)
        BY <1>1, <3>2, DFAFacts DEF Scanned, LivePair, StateOf, Rows
      <3>4. Agrees(Out(dfa, pr[1], c), Out(dfa, pr[2], c))
        BY <3>1, <3>2, <3>3 DEF Complete, PassAgrees, StableUnder
      <3> QED
        BY <2>1, <3>4, AgreesIsKept
    <2>3. CASE pr[1] = DEAD_STATE
      <3>1. pr[2] \in Blank
        BY <2>3 DEF Kept
      <3>2. Out(dfa, pr[1], c) = DEAD_STATE
        BY <2>3 DEF Out
      <3>3. Out(dfa, pr[2], c) \in Blank \cup {DEAD_STATE}
        BY <3>1, BlankFacts
      <3>4. Agrees(Out(dfa, pr[1], c), Out(dfa, pr[2], c))
        BY <3>2, <3>3 DEF Agrees
      <3> QED
        BY <2>1, <3>4, AgreesIsKept
    <2> QED
      BY <2>2, <2>3
  <1> QED
    BY <1>2 DEF Kept, Bisimulations, IsBisimulation

LEMMA ExactAtEnd ==
  ASSUME Shape, Sound, Complete, row = Rows(dfa), ~made_mark
  PROVE  Apart = Separable[dfa]
  <1>1. dfa \in DFAs
    BY DEF Shape, TypeOK
  <1>2. ASSUME NEW pr \in Separable[dfa] PROVE pr \in Apart
    <2>1. pr \in LivePair(dfa) /\ pr \notin Kept
      BY <1>1, KeptIsBisimulation DEF Separable, InseparablePair
    <2>2. /\ pr[1] \in RowOf(dfa) /\ pr[1] \in NodeOf(dfa) /\ pr[2] \in NodeOf(dfa)
          /\ pr[1] \in StateOf(dfa) /\ pr[2] \in StateOf(dfa) /\ pr[1] < pr[2]
          /\ pr[1] # DEAD_STATE /\ pr \in NodeOf(dfa) \X NodeOf(dfa)
      BY <1>1, <2>1, DFAFacts DEF LivePair, StateOf, NodeOf, RowOf, DEAD_STATE
    <2>3. merge[pr[1]][pr[2]] # 1
      BY <2>1, <2>2 DEF Kept, AgreeingPair, Shape, TableShape
    <2>4. merge[pr[1]][pr[2]] = 0
      BY <2>2, <2>3 DEF Shape, TableShape
    <2> QED
      BY <2>1, <2>4 DEF Apart
  <1> QED
    BY <1>2 DEF Sound, MarksSound

\* Whenever quotient() returns, for every automaton, the pairs left to merge
\* are exactly the pairs that no suffix separates.
THEOREM ResultIsExact == Spec => []QuotientExact
  <1>1. Shape /\ Sound /\ Complete => QuotientExact
    BY ExactAtEnd DEF QuotientExact, Shape, ScanShape
  <1> QED
    BY <1>1, ShapeInvariant, SoundInvariant, CompleteInvariant, PTL

-----------------------------------------------------------------------------
(* Refinement.                                                             *)

\* quotient() with its recursion implements the abstract separation.
THEOREM Refinement == Spec => ImplementsSeparation
  <1>1. Init => Abstract!Init
    <2> SUFFICES ASSUME Init PROVE Abstract!Init
      OBVIOUS
    <2>1. dfa \in DFAs /\ pc = "scan"
      BY DEF Init
    <2>2. Apart \subseteq Separable[dfa]
      BY SoundInit DEF Sound, MarksSound
    <2> QED
      BY <2>1, <2>2 DEF Abstract!Init
  <1>2. /\ Shape /\ Sound /\ Complete /\ Shape' /\ Sound' /\ Complete'
        /\ [Next]_vars
        => [Abstract!Next]_(Abstract!sepVars)
    <2> SUFFICES ASSUME Shape, Sound, Complete, Shape', Sound', [Next]_vars
                 PROVE  [Abstract!Next]_(Abstract!sepVars)
      OBVIOUS
    <2> USE DEF Abstract!Next, Abstract!sepVars
    <2>1. CASE MarkPair
      <3>1. /\ dfa' = dfa /\ pc = "return" /\ pc' = "scan"
            /\ merge' = [merge EXCEPT ![row][col] = 0]
        BY <2>1 DEF MarkPair
      <3>2. \A i \in RowOf(dfa), j \in StateOf(dfa) :
              merge[i][j] = 0 => merge'[i][j] = 0
        BY <3>1 DEF Shape, TypeOK
      <3>3. Apart \subseteq Apart'
        <4> SUFFICES ASSUME NEW pr \in Apart PROVE pr \in Apart'
          OBVIOUS
        <4>1. pr[1] \in RowOf(dfa) /\ pr[2] \in StateOf(dfa)
          BY DFAFacts DEF Apart, LivePair, RowOf, StateOf, Shape, TypeOK
        <4> QED
          BY <3>1, <3>2, <4>1 DEF Apart
      <3>4. Apart' \subseteq Separable[dfa]
        BY <3>1 DEF Sound, MarksSound
      <3> QED
        BY <3>1, <3>3, <3>4 DEF Abstract!Separate
    <2>2. CASE LastPass
      <3>1. /\ pc = "scan" /\ pc' = "done" /\ UNCHANGED <<dfa, merge>>
            /\ row = Rows(dfa) /\ ~made_mark
        BY <2>2 DEF LastPass
      <3>2. Apart = Separable[dfa] /\ Apart' = Apart
        BY <3>1, ExactAtEnd DEF Apart
      <3> QED
        BY <3>1, <3>2 DEF Abstract!Succeed
    <2>3. CASE StackOverflow
      <3>1. pc = "loop" /\ pc' = "overflow" /\ UNCHANGED <<dfa, merge>>
        BY <2>3 DEF StackOverflow
      <3>2. Apart' = Apart
        BY <3>1 DEF Apart
      <3> QED
        BY <3>1, <3>2 DEF Abstract!Fail
    <2>4. CASE \/ SkipMarkedPair \/ CallOnPair \/ KeepPair \/ NextPass
               \/ SameState \/ AlreadyMarked \/ UnmarkedLastRow \/ AcceptanceDiffers
               \/ BeginSuffixes \/ CallOnSuccessors \/ NoSuffixSeparates
               \/ ReturnTrue \/ ReturnFalse
      <3>1. /\ UNCHANGED <<dfa, merge>>
            /\ pc \in {"scan", "call", "loop", "return"}
            /\ pc' \in {"scan", "call", "loop", "return"}
        BY <2>4 DEF SkipMarkedPair, CallOnPair, KeepPair, NextPass, SameState,
                    AlreadyMarked, UnmarkedLastRow, AcceptanceDiffers, Answer,
                    BeginSuffixes, CallOnSuccessors, NoSuffixSeparates,
                    ReturnTrue, ReturnFalse
      <3>2. Apart' = Apart
        BY <3>1 DEF Apart
      <3> QED
        BY <3>1, <3>2
    <2>5. CASE Stopped \/ UNCHANGED vars
      <3>1. UNCHANGED <<dfa, merge, pc>>
        BY <2>5 DEF Stopped, vars
      <3>2. Apart' = Apart
        BY <3>1 DEF Apart
      <3> QED
        BY <3>1, <3>2
    <2> QED
      BY <2>1, <2>2, <2>3, <2>4, <2>5 DEF Next, QuotientLoop, Distinguishable
  <1> QED
    BY <1>1, <1>2, ShapeInvariant, SoundInvariant, CompleteInvariant, PTL
    DEF Spec, Abstract!Spec, ImplementsSeparation
=============================================================================
