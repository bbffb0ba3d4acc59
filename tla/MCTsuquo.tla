------------------------------- MODULE MCTsuquo -------------------------------
(***************************************************************************)
(* Characters are 0 .. 7, in two bitfields of four bits.  A line in        *)
(* ascending order stands for the regular expression [...] of its          *)
(* characters, so that every pair of bitfields is the label of some        *)
(* transition; the other lines stand for what is written beside them.  As  *)
(* in the code the characters labelled Sigma are a part of both bitfields. *)
(***************************************************************************)
EXTENDS Tsuquo

MCEverything == {0, 2, 3, 4, 5, 6}

AllChars == 0 .. 2 * Width - 1

On(chars) == [lower |-> chars \cap 0 .. Width - 1,
              upper |-> {ch - Width : ch \in chars \cap Width .. 2 * Width - 1}]

OneOf(chars) ==
  [size |-> 2, accepts |-> {1}, is_accept |-> {1},
   delta |-> [p \in 0 .. 1 |-> [q \in 0 .. 1 |->
                IF p = 0 /\ q = 1 THEN On(chars) ELSE On({})]]]

\* (2|3)5*4?, with three states and two transitions from one to itself.
Loops ==
  [size |-> 3, accepts |-> {0, 2}, is_accept |-> {0, 2},
   delta |-> [p \in 0 .. 2 |-> [q \in 0 .. 2 |->
                On(CASE p = 0 /\ q = 1 -> {2, 3} [] p = 1 /\ q = 1 -> {5}
                     [] p = 1 /\ q = 2 -> {4}    [] p = 2 /\ q = 2 -> AllChars
                     [] OTHER -> {})]]]

Parses(minimal, less) ==
  [parses |-> TRUE, overflows |-> FALSE, minimal |-> minimal, less |-> less]

Rejected(less) ==
  [parses |-> FALSE, overflows |-> FALSE, minimal |-> NoDFA, less |-> less]

Line(chars) == SelectSeq([k \in 1 .. 2 * Width |-> k - 1], LAMBDA ch : ch \in chars)

Ranges == {Line(chars) : chars \in (SUBSET AllChars) \ {{}}}

\* When memory runs out, one of several characters is missing or all but one.
Parts(chars) ==
  IF Cardinality(chars) < 2 THEN {}
  ELSE UNION {{Line({ch}), Line(chars \ {ch})} : ch \in chars}

MCCompiled == [ln \in Ranges \cup {<<>>, <<7, 6>>, <<5, 4>>, <<3, 2>>} |->
  LET chars == {ln[k] : k \in DOMAIN ln}
  IN  CASE ln \in Ranges -> Parses(OneOf(chars), Parts(chars))
        [] ln = <<3, 2>> -> Parses(Loops, {<<2, 3>>})
        [] ln = <<5, 4>> ->
             [Parses(NoDFA, {<<5>>}) EXCEPT !.overflows = TRUE]
        [] ln = <<7, 6>> -> Rejected({<<7>>})
        [] OTHER         -> Rejected({})]

\* a.t, d.e/a.t, d/a.b.t, d\.t, d.e/a, a, nothing, two arguments
Commands == {
  <<<<"a", ".", "t">>>>,
  <<<<"d", ".", "e", "/", "a", ".", "t">>>>,
  <<<<"d", "/", "a", ".", "b", ".", "t">>>>,
  <<<<"d", "\\", ".", "t">>>>,
  <<<<"d", ".", "e", "/", "a">>>>,
  <<<<"a">>>>,
  <<>>,
  <<<<"a", ".", "t">>, <<"a", ".", "t">>>>}

Files == {<<>>, <<Newline>>, <<0, CarriageReturn, Newline>>, <<3, Newline, 2>>,
          <<7, 6>>, <<5, 4, Newline>>, <<3, 2>>}

MCInputs ==
  (Commands \X Files) \cup ({<<<<"a", ".", "t">>>>} \X Ranges)
=============================================================================
