------------------------------ MODULE Quotient ------------------------------
(***************************************************************************)
(* minimize.c up to quotient(): the table of indistinguishable states and  *)
(* the passes that mark distinguishable pairs in it.                       *)
(*                                                                         *)
(* merge[i][j] is 1 while the pair may still be merged and 0 once it is    *)
(* marked.  Only cells with i < j are ever written; the others keep what   *)
(* malloc() returned and are UNINIT here.  distinguishable() calls itself  *)
(* once per character; its activation records are the variable stack, and  *)
(* pushing more than StackLimit of them ends the process (pc = "overflow").*)
(***************************************************************************)
EXTENDS Automata, Sequences

CONSTANTS DFAs,       \* the automata that minimize() may be called with
          StackLimit  \* how many calls of distinguishable() the stack holds

ASSUME DFAsAssumption == \A d \in DFAs : IsDFA(d)
ASSUME StackLimitAssumption == StackLimit \in Nat \ {0}

UNINIT == 2

VARIABLES
  dfa,        \* the automaton being minimized, never written
  merge,      \* min_dfa->merge
  row, col,   \* loop variables i, j of quotient()
  made_mark,  \* a pair was marked in the current pass
  stack,      \* calls of distinguishable(): arguments i, j and character c
  ret,        \* value returned by the call that ended last
  pc

vars == <<dfa, merge, row, col, made_mark, stack, ret, pc>>

Rows(d) == d.size - 1
RowOf(d) == 0 .. d.size - 2
Cols(d) == d.size

\* Mutant: pairs of which either state accepts start marked.
InitialMergeEither(d) ==
  [i \in RowOf(d) |-> [j \in StateOf(d) |->
     IF j <= i THEN UNINIT
     ELSE IF Accepts(d, i) \/ Accepts(d, j) THEN 0 ELSE 1]]

\* init_minimal_dfa(): pairs of which exactly one state accepts start marked.
InitialMerge(d) ==
  [i \in RowOf(d) |-> [j \in StateOf(d) |->
     IF j <= i THEN UNINIT
     ELSE IF Accepts(d, i) # Accepts(d, j) THEN 0 ELSE 1]]

Init ==
  /\ dfa \in DFAs
  /\ merge = InitialMerge(dfa)
  /\ row = 0 /\ col = 1
  /\ made_mark = FALSE
  /\ stack = <<>>
  /\ ret = FALSE
  /\ pc = "scan"

-----------------------------------------------------------------------------
(* An uninitialized cell reads as either verdict. *)
ReadsMarked(i, j)   == merge[i][j] \in {0, UNINIT}
ReadsUnmarked(i, j) == merge[i][j] # 0

-----------------------------------------------------------------------------
(* quotient(): the two nested loops and the fixpoint loop around them.     *)

Advance ==
  IF col + 1 < Cols(dfa)
  THEN row' = row /\ col' = col + 1
  ELSE row' = row + 1 /\ col' = row + 2

SkipMarkedPair ==
  /\ pc = "scan" /\ row < Rows(dfa)
  /\ ReadsMarked(row, col)
  /\ Advance
  /\ UNCHANGED <<dfa, merge, made_mark, stack, ret, pc>>

CallOnPair ==
  /\ pc = "scan" /\ row < Rows(dfa)
  /\ ReadsUnmarked(row, col)
  /\ stack' = <<[i |-> row, j |-> col, c |-> 0]>>
  /\ pc' = "call"
  /\ UNCHANGED <<dfa, merge, row, col, made_mark, ret>>

MarkPair ==
  /\ pc = "return" /\ Len(stack) = 1 /\ ret
  /\ merge' = [merge EXCEPT ![row][col] = 0]
  /\ made_mark' = TRUE
  /\ Advance
  /\ stack' = <<>>
  /\ pc' = "scan"
  /\ UNCHANGED <<dfa, ret>>

KeepPair ==
  /\ pc = "return" /\ Len(stack) = 1 /\ ~ret
  /\ Advance
  /\ stack' = <<>>
  /\ pc' = "scan"
  /\ UNCHANGED <<dfa, merge, made_mark, ret>>

\* Mutant: a new pass starts at the diagonal.
NextPassFromDiagonal ==
  /\ pc = "scan" /\ row = Rows(dfa)
  /\ made_mark
  /\ row' = 0 /\ col' = 0
  /\ made_mark' = FALSE
  /\ UNCHANGED <<dfa, merge, stack, ret, pc>>

\* Mutant: a new pass forgets the marks of the last one.
NextPassAfresh ==
  /\ pc = "scan" /\ row = Rows(dfa)
  /\ made_mark
  /\ row' = 0 /\ col' = 1
  /\ made_mark' = FALSE
  /\ merge' = InitialMerge(dfa)
  /\ UNCHANGED <<dfa, stack, ret, pc>>

\* Mutant: made_mark stays set once it was.
NextPassAlways ==
  /\ pc = "scan" /\ row = Rows(dfa)
  /\ made_mark
  /\ row' = 0 /\ col' = 1
  /\ UNCHANGED <<dfa, merge, made_mark, stack, ret, pc>>

NextPass ==
  /\ pc = "scan" /\ row = Rows(dfa)
  /\ made_mark
  /\ row' = 0 /\ col' = 1
  /\ made_mark' = FALSE
  /\ UNCHANGED <<dfa, merge, stack, ret, pc>>

\* Mutant: the first pass is the last.
LastPassAfterOne ==
  /\ pc = "scan" /\ row = Rows(dfa)
  /\ pc' = "done"
  /\ UNCHANGED <<dfa, merge, row, col, made_mark, stack, ret>>

LastPass ==
  /\ pc = "scan" /\ row = Rows(dfa)
  /\ ~made_mark
  /\ pc' = "done"
  /\ UNCHANGED <<dfa, merge, row, col, made_mark, stack, ret>>

-----------------------------------------------------------------------------
(* distinguishable(): one call is on top of the stack.                     *)

Top == stack[Len(stack)]
Pop == SubSeq(stack, 1, Len(stack) - 1)

Live == Top.i # DEAD_STATE /\ Top.j # DEAD_STATE

Answer(verdict) ==
  /\ ret' = verdict
  /\ pc' = "return"
  /\ UNCHANGED <<dfa, merge, row, col, made_mark, stack>>

SameState ==
  /\ pc = "call" /\ Top.i = Top.j
  /\ Answer(FALSE)

\* Mutant: the row is not the smaller of the two states.
ReadRowUnordered == IF Top.i = Rows(dfa) THEN Top.j ELSE Top.i

(***************************************************************************)
(* The cell a pair of live states is looked up in: flipped when i has no   *)
(* row of its own, and otherwise with the smaller state as the row.        *)
(***************************************************************************)
ReadRow == IF Top.i = Rows(dfa) THEN Top.j
           ELSE IF Top.i < Top.j THEN Top.i ELSE Top.j
ReadCol == IF Top.i = Rows(dfa) THEN Top.i
           ELSE IF Top.i > Top.j THEN Top.i ELSE Top.j

AlreadyMarked ==
  /\ pc = "call" /\ Top.i # Top.j
  /\ Live /\ ReadsMarked(ReadRow, ReadCol)
  /\ Answer(TRUE)

\* An unmarked cell is the answer when i is the last state: no suffix is tried.
UnmarkedLastRow ==
  /\ pc = "call" /\ Top.i # Top.j
  /\ Live /\ ReadsUnmarked(ReadRow, ReadCol)
  /\ Top.i = Rows(dfa)
  /\ Answer(FALSE)

\* A pair with the dead state has no cell; any other pair is not marked yet.
NotMarked ==
  /\ Top.i # Top.j
  /\ Live => Top.i # Rows(dfa) /\ ReadsUnmarked(ReadRow, ReadCol)

AcceptanceDiffers ==
  /\ pc = "call" /\ NotMarked
  /\ Accepts(dfa, Top.i) # Accepts(dfa, Top.j)
  /\ Answer(TRUE)

BeginSuffixes ==
  /\ pc = "call" /\ NotMarked
  /\ Accepts(dfa, Top.i) = Accepts(dfa, Top.j)
  /\ pc' = "loop"
  /\ UNCHANGED <<dfa, merge, row, col, made_mark, stack, ret>>

CallOnSuccessors ==
  /\ pc = "loop" /\ Top.c < dfa.alphabet_size
  /\ Len(stack) < StackLimit
  /\ stack' = Append(stack, [i |-> Out(dfa, Top.i, Top.c),
                             j |-> Out(dfa, Top.j, Top.c), c |-> 0])
  /\ pc' = "call"
  /\ UNCHANGED <<dfa, merge, row, col, made_mark, ret>>

StackOverflow ==
  /\ pc = "loop" /\ Top.c < dfa.alphabet_size
  /\ Len(stack) = StackLimit
  /\ pc' = "overflow"
  /\ UNCHANGED <<dfa, merge, row, col, made_mark, stack, ret>>

NoSuffixSeparates ==
  /\ pc = "loop" /\ Top.c = dfa.alphabet_size
  /\ Answer(FALSE)

\* A caller whose callee found a separating suffix returns true itself.
ReturnTrue ==
  /\ pc = "return" /\ Len(stack) > 1 /\ ret
  /\ stack' = Pop
  /\ UNCHANGED <<dfa, merge, row, col, made_mark, ret, pc>>

ReturnFalse ==
  /\ pc = "return" /\ Len(stack) > 1 /\ ~ret
  /\ stack' = [Pop EXCEPT ![Len(stack) - 1].c = @ + 1]
  /\ pc' = "loop"
  /\ UNCHANGED <<dfa, merge, row, col, made_mark, ret>>

-----------------------------------------------------------------------------
QuotientLoop ==
  SkipMarkedPair \/ CallOnPair \/ MarkPair \/ KeepPair \/ NextPass \/ LastPass

Distinguishable ==
  \/ SameState \/ AlreadyMarked \/ UnmarkedLastRow \/ AcceptanceDiffers
  \/ BeginSuffixes \/ CallOnSuccessors \/ StackOverflow \/ NoSuffixSeparates
  \/ ReturnTrue \/ ReturnFalse

\* quotient() has returned, or the process has been killed.
Stopped == pc \in {"done", "overflow"} /\ UNCHANGED vars

Next == QuotientLoop \/ Distinguishable \/ Stopped

Spec == Init /\ [][Next]_vars

\* The only thread runs whenever it can.
FairSpec == Spec /\ WF_vars(Next)

-----------------------------------------------------------------------------
Frame(d) == [i : NodeOf(d), j : NodeOf(d), c : 0 .. d.alphabet_size]

\* The variables have the types of quotient()'s and distinguishable()'s locals,
\* and a call is active exactly while pc is inside distinguishable().
TypeOK ==
  /\ dfa \in DFAs
  /\ merge \in [RowOf(dfa) -> [StateOf(dfa) -> {0, 1, UNINIT}]]
  /\ row \in 0 .. Rows(dfa) /\ col \in 1 .. Cols(dfa)
  /\ made_mark \in BOOLEAN /\ ret \in BOOLEAN
  /\ pc \in {"scan", "call", "loop", "return", "done", "overflow"}
  /\ stack \in Seq(Frame(dfa)) /\ Len(stack) <= StackLimit
  /\ (stack = <<>>) <=> (pc \in {"scan", "done"})

\* The comment on merge[][] (minimize.c:133) warns of the cells that are never
\* written: whatever pair the recursion reaches, distinguishable() reads a cell
\* that exists and that init_minimal_dfa() has written.
ReadsWrittenCell ==
  pc = "call" /\ Top.i # Top.j /\ Live =>
    /\ ReadRow \in RowOf(dfa) /\ ReadCol \in StateOf(dfa)
    /\ merge[ReadRow][ReadCol] # UNINIT

\* The pairs marked distinguishable so far.
Apart == {pr \in LivePair(dfa) : merge[pr[1]][pr[2]] = 0}

\* The pairs of each automaton that some suffix separates.
Separable == [d \in DFAs |-> LivePair(d) \ InseparablePair(d)]

\* A pair is marked only if some suffix is accepted from exactly one of its
\* states, however early the recursion, the last-row lookup and the marks of
\* earlier passes cut the search for that suffix short.
MarksSound == Apart \subseteq Separable[dfa]

\* When quotient() returns, the pairs left to merge are exactly the pairs no
\* suffix separates, although a pass may believe a verdict that a later mark
\* of the same pass overturns.
QuotientExact == pc = "done" => Apart = Separable[dfa]

Abstract ==
  INSTANCE Separation WITH
    apart  <- Apart,
    status <- CASE pc = "done" -> "done"
                [] pc = "overflow" -> "failed"
                [] OTHER -> "working"

\* quotient() implements the abstract separation of states: besides the above,
\* no mark is ever taken back and the automaton is never changed.
ImplementsSeparation == Abstract!Spec

(***************************************************************************)
(* The pairs whose call of distinguishable() goes on to call itself before *)
(* anything is marked, and the calls it makes.                             *)
(***************************************************************************)
Expands(d, p, q) ==
  /\ p # q
  /\ p = d.size - 1 => q = DEAD_STATE
  /\ Accepts(d, p) <=> Accepts(d, q)

CallsFrom(d, pr) ==
  {<<Out(d, pr[1], c), Out(d, pr[2], c)>> : c \in SymbolOf(d)}

\* Somewhere calls can be nested deeper than there are pairs to call on.
HasCycle ==
  [d \in DFAs |->
     LET Pairs == {pr \in NodeOf(d) \X NodeOf(d) : Expands(d, pr[1], pr[2])}
         nest[n \in Nat, pr \in Pairs] ==
           n = 0 \/ \E nx \in CallsFrom(d, pr) \cap Pairs : nest[n - 1, nx]
     IN  \E pr \in Pairs : nest[(d.size + 1) ^ 2, pr]]

\* quotient() returns, however many passes its marks ask for, on every
\* automaton in which no pair of states leads distinguishable() back to itself.
AcyclicReturns == ~HasCycle[dfa] => <>(pc = "done")

\* "@return 0 if success (there should be no other return codes)": quotient()
\* returns (minimize.c:295).
QuotientReturns == <>(pc = "done")
=============================================================================
