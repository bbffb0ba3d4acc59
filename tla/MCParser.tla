------------------------------ MODULE MCParser ------------------------------
(* Regular expressions for the parser: all strings over a few characters.   *)
EXTENDS Parser

StringsUpTo(chars, n) == UNION {[1 .. k -> chars] : k \in 0 .. n}

\* a ( ) | *
Nested == {97, 40, 41, 124, 42}
\* a ( ) |
Alternatives == {97, 40, 41, 124}
\* a b [ ] -
Bracketed == {97, 98, 91, 93, 45}
\* a ( ) | * [ ] - \ .
All == {97, 40, 41, 124, 42, 91, 93, 45, 92, 46}

\* Lines on which an error is found before, at and after a tab stop: 6 to 9
\* characters, then tab, a, ( and ).
Tabbed == {[i \in 1 .. k |-> 97] \o s : k \in 6 .. 9, s \in StringsUpTo({Tab, 97, 40, 41}, 3)}

\* Lines on which a construction fails that is part of another one.
a == <<97>>
Open == <<40>>
Close == <<41>>
Pipe == <<124>>
InParentheses(s) == Open \o s \o Close
Choice == InParentheses(a) \o Pipe \o a
Nestings ==
  {InParentheses(Choice), InParentheses(Choice) \o <<42>>, InParentheses(Choice) \o a,
   a \o InParentheses(Choice) \o a, InParentheses(a) \o Pipe \o InParentheses(Choice),
   InParentheses(a) \o InParentheses(a) \o InParentheses(a)}

ShortBuffers ==
  StringsUpTo(Nested, 4) \cup StringsUpTo(Alternatives, 5) \cup StringsUpTo(Bracketed, 5) \cup
  StringsUpTo(All, 3) \cup Nestings

MCBuffers ==
  StringsUpTo(Nested, 5) \cup StringsUpTo(Alternatives, 6) \cup
  {InParentheses(s) : s \in StringsUpTo(Alternatives, 5)} \cup StringsUpTo(Bracketed, 5) \cup
  StringsUpTo(All, 4) \cup Tabbed \cup Nestings

MCSigma == {97, 98, 99}
=============================================================================
