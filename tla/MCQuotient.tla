----------------------------- MODULE MCQuotient -----------------------------
(***************************************************************************)
(* Quotient on the automata that convert_nfa_to_dfa() builds for the       *)
(* regular expressions in the comments.                                    *)
(***************************************************************************)
EXTENDS Quotient, MCAutomata

\* distinguishable() returns for every pair of states of these.
Returning == {
  Table(<<<<1>>, <<-1>>>>, {1}),  \* a
  Table(<<<<1>>, <<1>>>>, {0, 1}),  \* a*
  Table(<<<<1, -1, 2>>, <<-1, 3, -1>>, <<-1, -1, -1>>, <<-1, -1, -1>>>>, {2, 3}),  \* ab|c
  Table(<<<<1, -1, -1>>, <<-1, 2, 3>>, <<1, -1, -1>>, <<1, -1, -1>>>>, {0, 2, 3}),  \* (ab|ac)*
  Table(<<<<1, 2>>, <<1, 3>>, <<1, 2>>, <<-1, 3>>>>, {0, 1, 2, 3}),  \* b*a*b*
  Table(<<<<1, 2>>, <<-1, 3>>, <<-1, 2>>, <<-1, -1>>>>, {0, 1, 2, 3}),  \* b*|ab|a
  Table(<<<<1, 2>>, <<-1, 4>>, <<-1, 3>>, <<-1, 3>>, <<-1, -1>>>>, {1, 2, 3, 4}),  \* bb*|ab|a
  Table(<<<<1, 2>>, <<-1, 4>>, <<-1, 3>>, <<-1, -1>>, <<-1, 4>>>>, {3, 4}),  \* ab*b|bb
  Table(<<<<1, 2>>, <<4, -1>>, <<3, -1>>, <<-1, -1>>, <<-1, -1>>>>, {3, 4}),  \* ba|aa
  Table(<<<<-1, 1, 2>>, <<4, -1, -1>>, <<3, -1, -1>>, <<-1, -1, -1>>, <<-1, -1, -1>>>>, {3, 4}),  \* ca|ba
  Table(<<<<1, 2>>, <<3, -1>>, <<-1, -1>>, <<1, 2>>>>, {2}),  \* (aa)*b
  Table(<<<<1, -1, -1>>, <<-1, 2, -1>>, <<-1, -1, 3>>, <<-1, -1, 3>>>>, {2, 3}),  \* abc*
  Table(<<<<1, 2>>, <<3, 4>>, <<3, 2>>, <<3, -1>>, <<-1, -1>>>>, {0, 1, 2, 3, 4}),  \* b*a*|ab
  Table(<<<<1, 2>>, <<1, 2>>, <<1, 2>>>>, {1}),  \* (a|b)*a
  Table(<<<<1, 2>>, <<-1, 4>>, <<-1, 3>>, <<-1, -1>>, <<-1, 4>>>>, {1, 2, 3, 4}),  \* ab*|b|bb
  Table(<<<<1, 2, -1>>, <<-1, 3, -1>>, <<-1, 2, -1>>, <<-1, -1, 4>>, <<-1, -1, -1>>>>, {0, 2, 4})}  \* abc|b*

\* In these some unmarked pair of states leads back to itself.
Cyclic == {
  Table(<<<<1, -1, -1>>, <<-1, 2, 3>>, <<-1, 2, 3>>, <<-1, -1, -1>>>>, {3}),  \* ab*c
  Table(<<<<1, 2>>, <<1, 2>>, <<-1, 3>>, <<-1, -1>>>>, {3}),  \* a*bb
  Table(<<<<1, 2>>, <<1, 2>>, <<3, 2>>, <<3, -1>>>>, {0, 1, 2, 3}),  \* a*b*a*
  Table(<<<<1, -1>>, <<2, 3>>, <<1, -1>>, <<-1, -1>>>>, {3}),  \* (aa)*ab
  Table(<<<<1, 2>>, <<-1, 3>>, <<-1, 2>>, <<-1, 3>>>>, {0, 1, 2, 3}),  \* b*|ab*
  Table(<<<<1, 2>>, <<-1, 3>>, <<-1, 2>>, <<-1, 3>>>>, {1, 2, 3}),  \* ab*|b*b
  Table(<<<<-1, 1, 2>>, <<4, -1, -1>>, <<3, -1, -1>>, <<3, -1, -1>>, <<4, -1, -1>>>>, {1, 2, 3, 4}),  \* ba*|ca*
  Table(<<<<-1, -1, 1, 2>>, <<-1, 5, -1, -1>>, <<3, 4, -1, -1>>, <<3, 4, -1, -1>>, <<-1, -1, -1, -1>>, <<-1, -1, -1, -1>>>>, {4, 5})}  \* xb|ya*b

MCDFAs == Returning \cup Cyclic

\* More calls than there are ordered pairs of nodes of a five-state DFA, so a
\* stack that overflows here holds some pair twice and overflows at any limit.
MCStackLimit == 37
=============================================================================
