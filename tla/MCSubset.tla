------------------------------- MODULE MCSubset -------------------------------
(***************************************************************************)
(* Subset on the Thompson NFAs of regular expressions over one to three    *)
(* characters.  The expressions are built with the operators of NFA in the *)
(* order the parser calls them.                                            *)
(***************************************************************************)
EXTENDS Subset

a == 97  b == 98  c == 99

\* Constructions that take their fresh addresses from the sizes of their parts.
Shift(n, d) ==
  [start      |-> n.start + d,
   accept     |-> n.accept + d,
   alphabet   |-> n.alphabet,
   size       |-> n.size,
   mem_region |-> {s + d : s \in n.mem_region},
   states     |-> [s \in {t + d : t \in n.mem_region} |->
                     LET m == n.states[s - d] IN
                     [ch   |-> m.ch,
                      out1 |-> IF m.out1 = NULL THEN NULL ELSE m.out1 + d,
                      out2 |-> IF m.out2 = NULL THEN NULL ELSE m.out2 + d]]]

Chr(ch)   == InitThompson(ch, 0)
l ++ r    == Concat(l, Shift(r, l.size))
Or(l, r)  == Union(l, Shift(r, l.size), l.size + r.size)
Star(n)   == Transform(n, "*", n.size)
Plus(n)   == Transform(n, "+", n.size)
Opt(n)    == Transform(n, "?", n.size)

A == Chr(a)  B == Chr(b)  C == Chr(c)

\* Every way to join two small expressions, and to repeat the result.
Small == {A, B, Star(A), Opt(B), Plus(A), A ++ B, Or(A, B)}

Joins == UNION {{r1 ++ r2, Or(r1, r2), Star(r1 ++ r2), Plus(Or(r1, r2))} :
                  r1, r2 \in Small}

MCNFAs == Joins \cup {
  A,
  Star(A),
  Plus(Opt(A)),
  Star(Star(A)),
  InitRange(a, c, 0),
  A ++ Star(B) ++ C,
  Star(Or(A, B)) ++ A ++ B ++ B,
  Star(Or(A, B)) ++ A ++ Or(A, B),
  Star(A ++ A) ++ A ++ B,
  Or(Star(B), A ++ Star(B)),
  Or(A ++ B ++ C, Star(B)),
  Opt(A) ++ Opt(B) ++ Opt(C),
  Star(Plus(A) ++ B) ++ Opt(A),
  Or(A, Or(A ++ B, A ++ B ++ B)),
  Plus(Or(A ++ B, B ++ A))}
=============================================================================
