--------------------------- MODULE MCMinimalStates ---------------------------
(***************************************************************************)
(* MinimalStates on automata that convert_nfa_to_dfa() builds for the      *)
(* regular expressions in the comments and that quotient() returns for:    *)
(* the last state alone or in a class, classes of one to five states, of   *)
(* neighbouring and of interleaved states.                                 *)
(***************************************************************************)
EXTENDS MinimalStates, MCAutomata

UpToFourStates == {
  Table(<<<<1>>, <<1>>>>, {0, 1}),  \* a*
  Table(<<<<1, 2>>, <<1, 2>>, <<-1, -1>>>>, {2}),  \* a*b
  Table(<<<<1>>, <<2>>, <<2>>>>, {0, 1, 2}),  \* a*|a
  Table(<<<<1, 2>>, <<-1, -1>>, <<1, 2>>>>, {1}),  \* b*a
  Table(<<<<1, 2, 3>>, <<-1, -1, -1>>, <<-1, -1, -1>>, <<-1, -1, -1>>>>, {1, 2, 3}),  \* c|b|a
  Table(<<<<1, 2>>, <<1, 2>>, <<-1, 3>>, <<-1, 3>>>>, {2, 3}),  \* a*bb*
  Table(<<<<-1, 1>>, <<2, 3>>, <<2, 3>>, <<-1, 1>>>>, {0, 3}),  \* (ba*b)*
  Table(<<<<1, 2>>, <<-1, -1>>, <<3, 2>>, <<-1, -1>>>>, {1, 3})}  \* b*a|a

FiveStates == {
  Table(<<<<1, 2>>, <<-1, -1>>, <<3, 4>>, <<3, 4>>, <<-1, -1>>>>, {1, 4}),  \* ba*b|a
  Table(<<<<-1, 1>>, <<2, 3>>, <<-1, 4>>, <<2, 3>>, <<-1, 4>>>>, {2, 4}),  \* bb*ab*
  Table(<<<<1, 2>>, <<4, 3>>, <<-1, 3>>, <<-1, 3>>, <<4, 3>>>>, {0, 1, 2, 3, 4}),  \* a*b*|b|a
  Table(<<<<1, 2>>, <<-1, -1>>, <<3, 4>>, <<-1, -1>>, <<1, 4>>>>, {1, 3}),  \* b*a|ba
  Table(<<<<1>>, <<2>>, <<3>>, <<4>>, <<2>>>>, {1, 4}),  \* a(aaa)*
  Table(<<<<1>>, <<2>>, <<3>>, <<4>>, <<1>>>>, {0, 4}),  \* (aaaa)*
  Table(<<<<1, -1>>, <<2, 3>>, <<2, 3>>, <<4, -1>>, <<-1, -1>>>>, {4}),  \* aa*ba
  Table(<<<<1, 2>>, <<1, 4>>, <<-1, 3>>, <<-1, 3>>, <<-1, 3>>>>, {2, 3, 4}),  \* a*bb*|b
  Table(<<<<1, 2, 3>>, <<-1, -1, 4>>, <<1, 2, -1>>, <<1, 2, 3>>, <<-1, -1, -1>>>>, {4}),  \* c*b*ac
  Table(<<<<1>>, <<2>>, <<3>>, <<4>>, <<4>>>>, {0, 1, 2, 3, 4})}  \* a*|aaa

MCDFAs == UpToFourStates \cup FiveStates
=============================================================================
