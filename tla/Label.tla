-------------------------------- MODULE Label --------------------------------
(***************************************************************************)
(* generate_transition_label() of minimize.c: the characters of a          *)
(* transition, two bitfields, are written as a list of characters and      *)
(* ranges.                                                                 *)
(*                                                                         *)
(* A bitfield is the set of its 1-bits.  Width is 64 in the code; nothing  *)
(* depends on it but where lower ends and upper begins.                    *)
(***************************************************************************)
EXTENDS Integers

CONSTANTS
  Width,       \* of a bitfield
  Everything   \* the characters that have the label Sigma

VARIABLES
  lower, upper,  \* the bitfields to write
  bitfield, i,   \* what is left of one of them, shifted i times in all
  left, right,   \* the contiguous chunk of 1s found last
  named,         \* the characters written so far
  pc             \* the loop that runs: "start", "skip", "chunk", "stop"

vars == <<lower, upper, bitfield, i, left, right, named, pc>>

Init ==
  /\ lower \in SUBSET (0 .. Width - 1)
  /\ upper \in SUBSET (0 .. Width - 1)
  /\ bitfield = lower
  /\ i = 0
  /\ left = 0 /\ right = 0
  /\ named = {}
  /\ pc = "start"

Chars == lower \cup {Width + b : b \in upper}

Shifted == {b - 1 : b \in bitfield \ {0}}

\* bitfield >>= 1, i++, and on to upper after the last bit of lower.
ShiftOn ==
  /\ bitfield' = IF i + 1 = Width THEN upper ELSE Shifted
  /\ i' = i + 1

-----------------------------------------------------------------------------
Start ==
  /\ pc = "start"
  /\ IF Chars = Everything
     THEN named' = Everything /\ pc' = "stop"
     ELSE pc' = "skip" /\ UNCHANGED named
  /\ UNCHANGED <<lower, upper, bitfield, i, left, right>>

\* Mutant: the loop ends with the first bitfield.
SkipZeroInLower ==
  /\ pc = "skip" /\ 0 \notin bitfield
  /\ ShiftOn
  /\ pc' = IF i' >= Width THEN "stop" ELSE "skip"
  /\ UNCHANGED <<lower, upper, left, right, named>>

\* Mutant: the loop has no end.
SkipZeroForever ==
  /\ pc = "skip" /\ 0 \notin bitfield
  /\ bitfield' = IF i + 1 = Width THEN upper ELSE Shifted
  /\ i' = (i + 1) % (2 * Width + 2)
  /\ UNCHANGED <<lower, upper, left, right, named, pc>>

SkipZero ==
  /\ pc = "skip" /\ 0 \notin bitfield
  /\ ShiftOn
  /\ pc' = IF i' >= 2 * Width THEN "stop" ELSE "skip"
  /\ UNCHANGED <<lower, upper, left, right, named>>

\* The shift at the beginning of a chunk does not turn to upper.
BeginChunk ==
  /\ pc = "skip" /\ 0 \in bitfield
  /\ left' = i /\ right' = i
  /\ bitfield' = Shifted /\ i' = i + 1
  /\ pc' = "chunk"
  /\ UNCHANGED <<lower, upper, named>>

\* Mutant: this shift does not turn to upper either.
ExtendChunkInField ==
  /\ pc = "chunk" /\ 0 \in bitfield
  /\ right' = i
  /\ bitfield' = Shifted /\ i' = i + 1
  /\ UNCHANGED <<lower, upper, left, named, pc>>

ExtendChunk ==
  /\ pc = "chunk" /\ 0 \in bitfield
  /\ right' = i
  /\ ShiftOn
  /\ UNCHANGED <<lower, upper, left, named, pc>>

\* One character if left = right, else a range.
PrintChunk ==
  /\ pc = "chunk" /\ 0 \notin bitfield
  /\ named' = named \cup left .. right
  /\ pc' = "skip"
  /\ UNCHANGED <<lower, upper, bitfield, i, left, right>>

Done == pc = "stop"

Stopped == Done /\ UNCHANGED vars

Step == Start \/ SkipZero \/ BeginChunk \/ ExtendChunk \/ PrintChunk

Next == Step \/ Stopped

Spec == Init /\ [][Next]_vars

-----------------------------------------------------------------------------
\* A chunk that begins with the last bit of lower, and something after it.
LosesUpper == Width - 1 \in lower /\ Width - 2 \notin lower /\ upper # {}

\* A label names exactly the characters of the transition, also in chunks that go
\* on from lower to upper; those of lower only if a chunk begins with its last bit.
NamesChars == Done => named = IF LosesUpper THEN lower ELSE Chars

\* The chunk that is written is as long as it can be, also across the bitfields;
\* only one that begins with the last bit of lower may end too early.
ChunksAreWhole ==
  pc = "chunk" /\ 0 \notin bitfield =>
    /\ left - 1 \notin Chars
    /\ right + 1 \in Chars => LosesUpper /\ right = Width - 1

\* "Print a transition label" (minimize.c:550): a label for the transition names
\* all of its characters.  It does not hold for the characters `?` and `A`.
NamesEveryChar == Done => named = Chars
=============================================================================
