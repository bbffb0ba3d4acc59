------------------------- MODULE MinimalStatesProofs -------------------------
(***************************************************************************)
(* Proofs about construct_minimal_states() and                             *)
(* construct_transition_table() for every set of automata, in three layers *)
(* of invariants:                                                          *)
(*   Shape      what the table, the loop variables and the calls look      *)
(*              like, so that a flag is never read as a verdict;           *)
(*   Collected  which states are flagged and collected at each moment, so  *)
(*              that the classes are those of inseparability;              *)
(*   Built      the numbering of the classes and the rows of the table     *)
(*              that is built from their first states.                     *)
(***************************************************************************)
EXTENDS MinimalStates, NumberFacts, FiniteSetTheorems, SequenceTheorems, TLAPS

\* No suffix separates p and q.
Same(d, p, q) == Related(InseparablePair(d), p, q)

\* The states that the rows below r have collected.
Before(d, r) == {q \in StateOf(d) : \E p \in StateOf(d) : p < r /\ Same(d, p, q)}

\* The states that are flagged as collected.
Flagged(d, m, last) ==
  {p \in 0 .. d.size - 2 : m[p][p + 1] = VISITED} \cup (IF last THEN {d.size - 1} ELSE {})

-----------------------------------------------------------------------------
(* Automata.                                                               *)

LEMMA DFAFacts ==
  ASSUME NEW d \in DFAs
  PROVE  /\ d.size \in Nat /\ d.size >= 2
         /\ StateOf(d) = 0 .. d.size - 1 /\ StateOf(d) \subseteq Nat
         /\ NodeOf(d) \subseteq Int /\ StateOf(d) \subseteq NodeOf(d)
         /\ DEAD_STATE \in NodeOf(d) /\ DEAD_STATE \notin StateOf(d)
         /\ NodeOf(d) = StateOf(d) \cup {DEAD_STATE}
         /\ d.accepts \subseteq StateOf(d)
         /\ \A p \in NodeOf(d), c \in SymbolOf(d) : Out(d, p, c) \in NodeOf(d)
  <1>1. /\ d.size \in Nat /\ d.size >= 2 /\ d.accepts \subseteq StateOf(d)
        /\ d.delta \in [StateOf(d) -> [SymbolOf(d) -> NodeOf(d)]]
    BY DFAsAssumption DEF IsDFA
  <1>2. \A p \in StateOf(d), c \in SymbolOf(d) : d.delta[p][c] \in NodeOf(d)
    BY <1>1
  <1>3. \A p \in NodeOf(d), c \in SymbolOf(d) : Out(d, p, c) \in NodeOf(d)
    BY <1>2 DEF NodeOf, Out
  <1> QED
    BY <1>1, <1>3 DEF NodeOf, StateOf, DEAD_STATE

LEMMA InseparableIsBisimulation ==
  ASSUME NEW d
  PROVE  /\ InseparablePair(d) \subseteq AgreeingPair(d)
         /\ IsBisimulation(d, InseparablePair(d))
  <1> DEFINE U == InseparablePair(d)
  <1>1. U \subseteq AgreeingPair(d)
    BY DEF InseparablePair, Bisimulations
  <1>2. ASSUME NEW pr \in U, NEW c \in SymbolOf(d)
        PROVE  Related(U, Out(d, pr[1], c), Out(d, pr[2], c))
    <2>1. PICK R \in Bisimulations(d) : pr \in R
      BY <1>2 DEF InseparablePair
    <2>2. Related(R, Out(d, pr[1], c), Out(d, pr[2], c)) /\ R \subseteq U
      BY <2>1 DEF Bisimulations, IsBisimulation, InseparablePair
    <2> QED
      BY <2>2 DEF Related
  <1> QED
    BY <1>1, <1>2 DEF IsBisimulation

\* Inseparability is the largest relation that characters preserve.
LEMMA LargestBisimulation ==
  ASSUME NEW d, NEW R \in SUBSET AgreeingPair(d), IsBisimulation(d, R)
  PROVE  R \subseteq InseparablePair(d)
  BY DEF InseparablePair, Bisimulations

LEMMA SameFacts ==
  ASSUME NEW d \in DFAs, NEW p \in NodeOf(d), NEW q \in NodeOf(d), Same(d, p, q)
  PROVE  /\ Same(d, q, p) /\ (Accepts(d, p) <=> Accepts(d, q))
         /\ \A c \in SymbolOf(d) : Same(d, Out(d, p, c), Out(d, q, c))
  <1> DEFINE U == InseparablePair(d)
  <1>1. U \subseteq AgreeingPair(d) /\ IsBisimulation(d, U)
    BY InseparableIsBisimulation
  <1> HIDE DEF U
  <1>2. p = q \/ <<p, q>> \in U \/ <<q, p>> \in U
    BY DEF Same, Related, U
  <1>3. Related(U, q, p) /\ (Accepts(d, p) <=> Accepts(d, q))
    BY <1>1, <1>2 DEF Related, AgreeingPair
  <1>4. ASSUME NEW c \in SymbolOf(d) PROVE Related(U, Out(d, p, c), Out(d, q, c))
    <2>1. CASE p = q
      BY <2>1 DEF Related
    <2>2. CASE <<p, q>> \in U
      BY <1>1, <2>2 DEF IsBisimulation
    <2>3. CASE <<q, p>> \in U
      BY <1>1, <2>3 DEF IsBisimulation, Related
    <2> QED
      BY <1>2, <2>1, <2>2, <2>3
  <1> QED
    BY <1>3, <1>4 DEF Same, U

\* Two states that are inseparable from a third one are inseparable: the pairs
\* with a third one are a bisimulation, too.
LEMMA SameTransitive ==
  ASSUME NEW d \in DFAs, NEW p \in NodeOf(d), NEW q \in NodeOf(d), NEW r \in NodeOf(d),
         Same(d, p, q), Same(d, q, r)
  PROVE  Same(d, p, r)
  <1> DEFINE T == {pr \in NodeOf(d) \X NodeOf(d) :
                     pr[1] < pr[2] /\ \E s \in NodeOf(d) : Same(d, pr[1], s) /\ Same(d, s, pr[2])}
  <1>1. NodeOf(d) \subseteq Int /\ \A s \in NodeOf(d), c \in SymbolOf(d) : Out(d, s, c) \in NodeOf(d)
    BY DFAFacts
  <1>2. T \subseteq AgreeingPair(d)
    <2>1. ASSUME NEW pr \in T PROVE Accepts(d, pr[1]) <=> Accepts(d, pr[2])
      <3>1. PICK s \in NodeOf(d) : Same(d, pr[1], s) /\ Same(d, s, pr[2])
        OBVIOUS
      <3>2. pr[1] \in NodeOf(d) /\ pr[2] \in NodeOf(d)
        OBVIOUS
      <3> QED
        BY <3>1, <3>2, SameFacts
    <2> QED
      BY <2>1 DEF AgreeingPair
  <1>3. ASSUME NEW a \in NodeOf(d), NEW b \in NodeOf(d), NEW s \in NodeOf(d),
               Same(d, a, s), Same(d, s, b)
        PROVE  Related(T, a, b)
    <2>1. Same(d, b, s) /\ Same(d, s, a)
      BY <1>3, SameFacts
    <2>2. a < b => <<a, b>> \in T
      BY <1>3
    <2>3. b < a => <<b, a>> \in T
      BY <2>1
    <2> HIDE DEF T
    <2> QED
      BY <1>1, <2>2, <2>3 DEF Related
  <1>4. ASSUME NEW pr \in T, NEW c \in SymbolOf(d)
        PROVE  Related(T, Out(d, pr[1], c), Out(d, pr[2], c))
    <2>1. PICK s \in NodeOf(d) : Same(d, pr[1], s) /\ Same(d, s, pr[2])
      OBVIOUS
    <2>2. pr[1] \in NodeOf(d) /\ pr[2] \in NodeOf(d)
      OBVIOUS
    <2>3. Same(d, Out(d, pr[1], c), Out(d, s, c)) /\ Same(d, Out(d, s, c), Out(d, pr[2], c))
      BY <2>1, <2>2, SameFacts
    <2> QED
      BY <1>1, <1>3, <2>2, <2>3
  <1>5. Related(T, p, r)
    BY <1>3
  <1> HIDE DEF T
  <1>6. T \subseteq InseparablePair(d)
    BY <1>2, <1>4, LargestBisimulation DEF IsBisimulation
  <1> QED
    BY <1>5, <1>6 DEF Same, Related

LEMMA SameReflexive ==
  ASSUME NEW d, NEW p PROVE Same(d, p, p)
  BY DEF Same, Related

\* A call: the row and the column it is at.
Frame(d) == [i : StateOf(d), j : 0 .. d.size]

Rest(st) == SubSeq(st, 1, Len(st) - 1)

\* The last call goes on with the next column.
Bumped(st) == [st EXCEPT ![Len(st)].j = @ + 1]

LEMMA RestFacts ==
  ASSUME NEW S, NEW st \in Seq(S), st # <<>>
  PROVE  /\ Len(st) \in Nat \ {0} /\ \A k \in 1 .. Len(st) : st[k] \in S
         /\ Rest(st) \in Seq(S) /\ Len(Rest(st)) = Len(st) - 1
         /\ \A k \in 1 .. Len(st) - 1 : Rest(st)[k] = st[k]
  <1> DEFINE n == Len(st)
             b == Rest(st)
  <1>1. n \in Nat \ {0} /\ \A k \in 1 .. n : st[k] \in S
    BY EmptySeq
  <1>2. 1 \in Int /\ n - 1 \in Int /\ \A k \in 1 .. n - 1 : st[k] \in S
    BY <1>1
  <1>3. /\ b \in Seq(S)
        /\ Len(b) = IF 1 <= n - 1 THEN n - 1 - 1 + 1 ELSE 0
        /\ \A k \in 1 .. n - 1 - 1 + 1 : b[k] = st[1 + k - 1]
    BY <1>2, SubSeqProperties DEF Rest
  <1> HIDE DEF n, b
  <1>4. Len(b) = n - 1
    BY <1>1, <1>3
  <1>5. ASSUME NEW k \in 1 .. n - 1 PROVE b[k] = st[k]
    <2>1. k \in 1 .. n - 1 - 1 + 1 /\ 1 + k - 1 = k
      BY <1>1
    <2> QED
      BY <1>3, <2>1
  <1> QED
    BY <1>1, <1>3, <1>4, <1>5 DEF n, b

LEMMA BumpedFacts ==
  ASSUME NEW d \in DFAs, NEW st \in Seq(Frame(d)), st # <<>>, st[Len(st)].j < d.size
  PROVE  /\ Bumped(st) \in Seq(Frame(d)) /\ Bumped(st) # <<>> /\ Len(Bumped(st)) = Len(st)
         /\ \A k \in 1 .. Len(st) - 1 : Bumped(st)[k] = st[k]
         /\ Bumped(st)[Len(st)].i = st[Len(st)].i
         /\ Bumped(st)[Len(st)].j = st[Len(st)].j + 1
  <1> DEFINE n == Len(st)
             t == st[n]
             e == [t EXCEPT !.j = @ + 1]
             b == [st EXCEPT ![n] = e]
  <1>1. n \in Nat \ {0} /\ t \in Frame(d)
    BY RestFacts
  <1>2. e \in Frame(d) /\ e.i = t.i /\ e.j = t.j + 1
    <2> HIDE DEF n
    <2>1. t.j \in 0 .. d.size /\ t.j < d.size /\ d.size \in Nat
      BY <1>1, DFAFacts DEF Frame, n
    <2>2. t.j + 1 \in 0 .. d.size
      BY <2>1
    <2> HIDE DEF t
    <2> QED
      BY <1>1, <2>2 DEF Frame
  <1>3. b = Bumped(st)
    BY DEF Bumped
  <1> HIDE DEF e, t
  <1>4. n \in 1 .. Len(st)
    BY <1>1
  <1>5. /\ b \in Seq(Frame(d)) /\ Len(b) = n
        /\ \A k \in 1 .. n : b[k] = IF k = n THEN e ELSE st[k]
    BY <1>2, <1>4, ExceptSeq
  <1> HIDE DEF b, n
  <1>6. b # <<>>
    BY <1>1, <1>5
  <1>7. \A k \in 1 .. n - 1 : b[k] = st[k]
    BY <1>1, <1>5
  <1>8. b[n] = e
    BY <1>1, <1>5
  <1> QED
    BY <1>2, <1>3, <1>5, <1>6, <1>7, <1>8 DEF t, n

LEMMA FirstAndLast ==
  ASSUME NEW n \in Nat \ {0} PROVE 1 \in 1 .. n /\ n \in 1 .. n /\ (n = 1 \/ 1 \in 1 .. n - 1)
  OBVIOUS

LEMMA AppendedFacts ==
  ASSUME NEW S, NEW st \in Seq(S), NEW x \in S
  PROVE  /\ Append(st, x) \in Seq(S) /\ Append(st, x) # <<>> /\ Len(Append(st, x)) = Len(st) + 1
         /\ Len(st) \in Nat
         /\ \A k \in 1 .. Len(st) : Append(st, x)[k] = st[k]
         /\ Append(st, x)[Len(st) + 1] = x
  BY AppendProperties

-----------------------------------------------------------------------------
(* Layer 1: shape.                                                         *)

\* A cell of the upper triangle is its verdict or, beside the diagonal, the flag.
TableShape(d, m) ==
  \A i \in 0 .. d.size - 2 : \A j \in StateOf(d) : i < j =>
    \/ m[i][j] = IF Same(d, i, j) THEN 1 ELSE 0
    \/ j = i + 1 /\ m[i][j] = VISITED

\* A row whose cells are being looked at is not flagged; every call but the last
\* is on such a row and waits for the equivalent found last.
CallsShape(d, m, st) ==
  /\ \A k \in 1 .. Len(st) :
       /\ st[k].i <= st[k].j /\ k <= st[k].i + 1
       /\ st[k].i < st[k].j => st[k].i < d.size - 1 /\ m[st[k].i][st[k].i + 1] # VISITED
  /\ \A k \in 1 .. Len(st) - 1 :
       st[k].i < st[k].j /\ st[k + 1].i = st[k].j - 1 /\ Same(d, st[k].i, st[k + 1].i)
  /\ \A k, l \in 1 .. Len(st) : k < l => st[k].i < st[l].i

Collecting == pc \in {"rows", "collect", "class"}

Shape ==
  /\ TypeOK
  /\ TableShape(dfa, merge)
  /\ CallsShape(dfa, merge, calls)
  /\ pc = "collect" => calls # <<>> /\ row < Rows /\ calls[1].i = row
  /\ pc # "collect" => calls = <<>>
  /\ pc = "class" => row < Rows
  /\ Collecting => state_index <= row

\* The three ways calls changes.
LEMMA RestShape ==
  ASSUME NEW d \in DFAs, NEW st \in Seq(Frame(d)), st # <<>>, NEW m, NEW w, CallsShape(d, m, st),
         \A k \in 1 .. Len(st) - 1 :
           w[st[k].i][st[k].i + 1] = VISITED => m[st[k].i][st[k].i + 1] = VISITED
  PROVE  CallsShape(d, w, Rest(st))
  <1> DEFINE b == Rest(st)
             n == Len(st)
  <1>1. n \in Nat \ {0} /\ Len(b) = n - 1 /\ \A k \in 1 .. n - 1 : b[k] = st[k]
    BY RestFacts
  <1> HIDE DEF b
  <1>2. ASSUME NEW k \in 1 .. Len(b)
        PROVE  /\ b[k].i <= b[k].j /\ k <= b[k].i + 1
               /\ b[k].i < b[k].j => b[k].i < d.size - 1 /\ w[b[k].i][b[k].i + 1] # VISITED
    <2>1. k \in 1 .. n - 1 /\ k \in 1 .. n /\ b[k] = st[k]
      BY <1>1
    <2> QED
      BY <2>1 DEF CallsShape
  <1>3. ASSUME NEW k \in 1 .. Len(b) - 1
        PROVE  b[k].i < b[k].j /\ b[k + 1].i = b[k].j - 1 /\ Same(d, b[k].i, b[k + 1].i)
    <2>1. k \in 1 .. n - 1 /\ k + 1 \in 1 .. n - 1 /\ b[k] = st[k] /\ b[k + 1] = st[k + 1]
      BY <1>1
    <2> QED
      BY <2>1 DEF CallsShape
  <1>4. ASSUME NEW k \in 1 .. Len(b), NEW l \in 1 .. Len(b), k < l PROVE b[k].i < b[l].i
    <2>1. k \in 1 .. n /\ l \in 1 .. n /\ b[k] = st[k] /\ b[l] = st[l]
      BY <1>1
    <2> QED
      BY <1>4, <2>1 DEF CallsShape
  <1>5. CallsShape(d, w, b)
    BY <1>2, <1>3, <1>4 DEF CallsShape
  <1> QED
    BY <1>5 DEF b

LEMMA BumpedShape ==
  ASSUME NEW d \in DFAs, NEW st \in Seq(Frame(d)), st # <<>>, NEW m, CallsShape(d, m, st),
         st[Len(st)].j < d.size, st[Len(st)].i < d.size - 1,
         m[st[Len(st)].i][st[Len(st)].i + 1] # VISITED
  PROVE  CallsShape(d, m, Bumped(st))
  <1> DEFINE b == Bumped(st)
             n == Len(st)
  <1>1. /\ n \in Nat \ {0} /\ Len(b) = n /\ (\A k \in 1 .. n - 1 : b[k] = st[k])
        /\ b[n].i = st[n].i /\ b[n].j = st[n].j + 1 /\ st[n] \in Frame(d)
    BY RestFacts, BumpedFacts
  <1> HIDE DEF b
  <1>2. ASSUME NEW k \in 1 .. n
        PROVE  /\ b[k].i <= b[k].j /\ k <= b[k].i + 1
               /\ b[k].i < b[k].j => b[k].i < d.size - 1 /\ m[b[k].i][b[k].i + 1] # VISITED
    <2>1. CASE k = n
      <3>1. st[n].i <= st[n].j /\ n <= st[n].i + 1 /\ st[n].i \in Int /\ st[n].j \in Int
        <4>1. st[n].i \in Nat /\ st[n].j \in Nat
          BY <1>1, DFAFacts DEF Frame
        <4> QED
          BY <4>1, <2>1 DEF CallsShape
      <3> QED
        BY <2>1, <3>1, <1>1
    <2>2. CASE k # n
      <3>1. k \in 1 .. n - 1
        BY <2>2, <1>1
      <3> QED
        BY <3>1, <1>1 DEF CallsShape
    <2> QED
      BY <2>1, <2>2
  <1>3. ASSUME NEW k \in 1 .. n - 1
        PROVE  b[k].i < b[k].j /\ b[k + 1].i = b[k].j - 1 /\ Same(d, b[k].i, b[k + 1].i)
    <2>1. k + 1 = n \/ k + 1 \in 1 .. n - 1
      BY <1>1
    <2>2. b[k + 1].i = st[k + 1].i
      BY <2>1, <1>1
    <2> QED
      BY <2>2, <1>1 DEF CallsShape
  <1>4. ASSUME NEW k \in 1 .. n, NEW l \in 1 .. n, k < l PROVE b[k].i < b[l].i
    <2>1. \A q \in 1 .. n : b[q].i = st[q].i
      <3>1. \A q \in 1 .. n : q = n \/ q \in 1 .. n - 1
        BY <1>1
      <3> QED
        BY <1>1, <3>1
    <2> QED
      BY <1>4, <2>1 DEF CallsShape
  <1>5. CallsShape(d, m, b)
    BY <1>1, <1>2, <1>3, <1>4 DEF CallsShape
  <1> QED
    BY <1>5 DEF b

\* The last call has found an equivalent, its column, and calls itself on it.
LEMMA CalledShape ==
  ASSUME NEW d \in DFAs, NEW st \in Seq(Frame(d)), st # <<>>, NEW m, CallsShape(d, m, st),
         NEW c \in StateOf(d), c = st[Len(st)].j, st[Len(st)].i < c,
         Same(d, st[Len(st)].i, c)
  PROVE  CallsShape(d, m, Append(Bumped(st), [i |-> c, j |-> c]))
  <1> DEFINE b == Bumped(st)
             n == Len(st)
             x == [i |-> c, j |-> c]
             new == Append(b, x)
  <1>1. c \in Nat /\ c < d.size /\ d.size \in Nat /\ x \in Frame(d)
    BY DFAFacts DEF StateOf, Frame
  <1>2. /\ n \in Nat \ {0} /\ st[n] \in Frame(d)
        /\ b \in Seq(Frame(d)) /\ Len(b) = n /\ b[n].i = st[n].i /\ b[n].j = c + 1
    BY <1>1, RestFacts, BumpedFacts
  <1>3. n \in 1 .. n /\ st[n].i \in Nat
    <2> HIDE DEF n
    <2>1. n \in 1 .. n
      BY <1>2
    <2>2. st[n].i \in Nat
      BY <1>2, DFAFacts DEF Frame
    <2> QED
      BY <2>1, <2>2
  <1>4. st[n].i < d.size - 1 /\ m[st[n].i][st[n].i + 1] # VISITED /\ n <= st[n].i + 1
    BY <1>3 DEF CallsShape
  <1>5. CallsShape(d, m, b)
    BY <1>1, <1>4, BumpedShape
  <1> HIDE DEF b, x
  <1>6. Len(new) = n + 1 /\ (\A k \in 1 .. n : new[k] = b[k]) /\ new[n + 1] = x
    BY <1>1, <1>2, AppendedFacts
  <1> HIDE DEF new
  <1>7. x.i = c /\ x.j = c
    BY DEF x
  <1>8. ASSUME NEW k \in 1 .. n + 1
        PROVE  /\ new[k].i <= new[k].j /\ k <= new[k].i + 1
               /\ new[k].i < new[k].j => new[k].i < d.size - 1 /\ m[new[k].i][new[k].i + 1] # VISITED
    <2>1. CASE k = n + 1
      BY <2>1, <1>1, <1>2, <1>3, <1>4, <1>6, <1>7
    <2>2. CASE k # n + 1
      <3>1. k \in 1 .. n
        BY <2>2, <1>2
      <3> QED
        BY <3>1, <1>2, <1>5, <1>6 DEF CallsShape
    <2> QED
      BY <2>1, <2>2
  <1>9. ASSUME NEW k \in 1 .. n
        PROVE  new[k].i < new[k].j /\ new[k + 1].i = new[k].j - 1 /\ Same(d, new[k].i, new[k + 1].i)
    <2>1. CASE k = n
      BY <2>1, <1>1, <1>2, <1>3, <1>6, <1>7
    <2>2. CASE k # n
      <3>1. k \in 1 .. n - 1 /\ k + 1 \in 1 .. n
        BY <2>2, <1>2
      <3> QED
        BY <3>1, <1>2, <1>5, <1>6 DEF CallsShape
    <2> QED
      BY <2>1, <2>2
  <1>10. ASSUME NEW k \in 1 .. n + 1, NEW l \in 1 .. n + 1, k < l PROVE new[k].i < new[l].i
    <2>1. k \in 1 .. n /\ new[k] = b[k]
      BY <1>2, <1>6, <1>10
    <2>2. k < n => b[k].i < b[n].i
      BY <1>2, <1>3, <1>5, <2>1 DEF CallsShape
    <2>3. b[k].i \in Nat
      <3>1. b[k] \in Frame(d)
        BY <1>2, <2>1, ElementOfSeq
      <3> QED
        BY <3>1, DFAFacts DEF Frame
    <2>4. b[k].i < c
      BY <1>1, <1>2, <1>3, <2>1, <2>2, <2>3
    <2>5. CASE l = n + 1
      BY <1>6, <1>7, <2>1, <2>4, <2>5
    <2>6. CASE l # n + 1
      <3>1. l \in 1 .. n /\ new[l] = b[l]
        BY <1>2, <1>6, <2>6
      <3> QED
        BY <1>2, <1>5, <1>10, <2>1, <3>1 DEF CallsShape
    <2> QED
      BY <2>5, <2>6
  <1>11. CallsShape(d, m, new)
    <2>1. Len(new) - 1 = n
      BY <1>2, <1>6
    <2> HIDE DEF n
    <2> QED
      BY <2>1, <1>6, <1>8, <1>9, <1>10 DEF CallsShape
  <1> QED
    BY <1>11 DEF new, b, x

\* What the type invariant says of the loop variables and the calls.
LEMMA Bounds ==
  ASSUME Shape
  PROVE  /\ dfa \in DFAs /\ Rows \in Nat /\ Rows >= 1 /\ Cols = Rows + 1 /\ dfa.size = Cols
         /\ Cols \in Nat
         /\ StateOf(dfa) = 0 .. Rows /\ Rows \in StateOf(dfa)
         /\ 0 .. dfa.size - 2 = 0 .. Rows - 1 /\ \A i \in 0 .. Rows - 1 : i + 1 \in StateOf(dfa)
         /\ row \in 0 .. Rows /\ row \in StateOf(dfa) /\ calls \in Seq(Frame(dfa))
         /\ \A S : \A T \in Inserted(S, row) \cup Inserted(S, Rows) :
              T \subseteq S \cup {row, Rows}
  <1>1. dfa \in DFAs /\ row \in 0 .. Rows /\ calls \in Seq(Call)
    BY DEF Shape, TypeOK
  <1>2. dfa.size \in Nat /\ dfa.size >= 2 /\ StateOf(dfa) = 0 .. dfa.size - 1
    BY <1>1, DFAFacts
  <1>3. Call = Frame(dfa)
    BY DEF Call, Frame, Cols
  <1>4. Rows \in Nat /\ Rows >= 1 /\ Cols = Rows + 1 /\ StateOf(dfa) = 0 .. Rows
    BY <1>2 DEF Rows, Cols
  <1> QED
    BY <1>1, <1>2, <1>3, <1>4 DEF Inserted, Lost, Cols, Rows

LEMMA LastCall ==
  ASSUME Shape, pc = "collect"
  PROVE  /\ calls # <<>> /\ Len(calls) \in Nat \ {0} /\ Top = calls[Len(calls)]
         /\ Top \in Frame(dfa) /\ Top.i \in 0 .. Rows /\ Top.j \in 0 .. Cols /\ Top.i <= Top.j
         /\ Top.i < Top.j => Top.i < Rows /\ ~ IsVisited(Top.i)
         /\ row < Rows /\ calls[1].i = row
  <1>1. calls # <<>> /\ row < Rows /\ calls[1].i = row /\ CallsShape(dfa, merge, calls)
    BY DEF Shape
  <1>2. Len(calls) \in Nat \ {0} /\ Top = calls[Len(calls)] /\ Top \in Frame(dfa)
    BY <1>1, Bounds, RestFacts DEF Top
  <1>3. Top.i \in 0 .. Rows /\ Top.j \in 0 .. Cols
    BY <1>2, Bounds DEF Frame
  <1>4. Len(calls) \in 1 .. Len(calls)
    BY <1>2
  <1>5. Top.i <= Top.j /\ (Top.i < Top.j => Top.i < Rows /\ ~ IsVisited(Top.i))
    BY <1>1, <1>2, <1>4 DEF CallsShape, IsVisited, Rows
  <1> QED
    BY <1>1, <1>2, <1>3, <1>5

\* What a cell says of the states it is for.
LEMMA CellFact ==
  ASSUME Shape, NEW i \in 0 .. Rows - 1, NEW j \in StateOf(dfa), i < j, ~ IsVisited(i)
  PROVE  merge[i][j] \in {0, 1} /\ (merge[i][j] = 1 <=> Same(dfa, i, j))
  <1>1. 0 .. dfa.size - 2 = 0 .. Rows - 1 /\ TableShape(dfa, merge)
    BY Bounds DEF Shape
  <1>2. \/ merge[i][j] = IF Same(dfa, i, j) THEN 1 ELSE 0
        \/ j = i + 1 /\ merge[i][j] = VISITED
    BY <1>1 DEF TableShape
  <1> QED
    BY <1>2 DEF IsVisited

LEMMA CallsAreTyped ==
  ASSUME NEW d \in DFAs, NEW m, NEW st \in Seq(Frame(d)), CallsShape(d, m, st)
  PROVE  Len(st) <= d.size /\ \A k \in 1 .. Len(st) - 1 : st[k].i < st[k + 1].i
  <1>1. Len(st) \in Nat /\ d.size \in Nat
    BY DFAFacts
  <1>2. CASE Len(st) = 0
    BY <1>1, <1>2 DEF CallsShape
  <1>3. CASE Len(st) # 0
    <2> DEFINE n == Len(st)
    <2>1. n \in 1 .. n /\ n \in Nat
      BY <1>1, <1>3
    <2>2. st[n] \in Frame(d)
      BY <2>1, ElementOfSeq
    <2>3. n <= st[n].i + 1
      BY <2>1 DEF CallsShape
    <2>4. st[n].i \in 0 .. d.size - 1
      BY <2>2 DEF Frame, StateOf
    <2> HIDE DEF n
    <2>5. n <= d.size
      BY <1>1, <2>1, <2>3, <2>4
    <2>6. ASSUME NEW k \in 1 .. n - 1 PROVE st[k].i < st[k + 1].i
      <3>1. k \in 1 .. n /\ k + 1 \in 1 .. n /\ k < k + 1
        BY <2>1
      <3> QED
        BY <3>1 DEF n, CallsShape
    <2> QED
      BY <2>5, <2>6 DEF n
  <1> QED
    BY <1>2, <1>3

LEMMA InitShape == ASSUME Init PROVE Shape
  <1>1. dfa \in DFAs /\ merge = ExactMerge(dfa) /\ calls = <<>> /\ row = 0 /\ pc = "rows"
    BY DEF Init
  <1>2. /\ dfa.size \in Nat /\ dfa.size >= 2 /\ StateOf(dfa) = 0 .. dfa.size - 1
        /\ InseparablePair(dfa) \subseteq AgreeingPair(dfa)
        /\ 0 .. dfa.size - 2 = 0 .. Rows - 1
    BY <1>1, DFAFacts, InseparableIsBisimulation DEF Rows
  <1> DEFINE cell(i, j) == IF j <= i THEN UNINIT
                           ELSE IF <<i, j>> \in InseparablePair(dfa) THEN 1 ELSE 0
  <1>3. merge = [i \in 0 .. Rows - 1 |-> [j \in StateOf(dfa) |-> cell(i, j)]]
    BY <1>1, <1>2 DEF ExactMerge
  <1>4. ASSUME NEW i \in 0 .. Rows - 1, NEW j \in StateOf(dfa)
        PROVE  merge[i][j] \in {0, 1, UNINIT}
               /\ (i < j => merge[i][j] = IF Same(dfa, i, j) THEN 1 ELSE 0)
    <2>1. merge[i][j] = cell(i, j)
      BY <1>3
    <2>2. i < j => (Same(dfa, i, j) <=> <<i, j>> \in InseparablePair(dfa))
      <3>1. i \in Int /\ j \in Int
        BY <1>2
      <3>2. i < j => <<j, i>> \notin InseparablePair(dfa)
        BY <1>2, <3>1 DEF AgreeingPair
      <3> QED
        BY <3>1, <3>2 DEF Same, Related
    <2>3. i \in Int /\ j \in Int
      BY <1>2
    <2> QED
      BY <2>1, <2>2, <2>3
  <1>5. TableShape(dfa, merge)
    BY <1>2, <1>4 DEF TableShape
  <1>6. merge \in [0 .. Rows - 1 -> [StateOf(dfa) -> {0, 1, VISITED, UNINIT}]]
    <2>1. \A i \in 0 .. Rows - 1 : \A j \in StateOf(dfa) : cell(i, j) \in {0, 1, VISITED, UNINIT}
      OBVIOUS
    <2> HIDE DEF cell
    <2> QED
      BY <1>3, <2>1
  <1>7. TypeOK
    <2>1. <<>> \in Seq(Call) /\ Len(<<>>) = 0
      OBVIOUS
    <2>2. row \in 0 .. Rows /\ state_index \in 0 .. Cols /\ 0 <= Cols
      BY <1>1, <1>2 DEF Init, Rows, Cols
    <2>3. calls \in Seq(Call) /\ Len(calls) = 0 /\ Len(calls) <= Cols
          /\ \A k \in 1 .. Len(calls) - 1 : calls[k].i < calls[k + 1].i
      BY <1>1, <2>1, <2>2
    <2>4. scarce \in BOOLEAN
      BY DEF Init
    <2> QED
      BY <1>1, <1>6, <2>2, <2>3, <2>4 DEF Init, TypeOK
  <1>8. CallsShape(dfa, merge, calls)
    BY <1>1 DEF CallsShape
  <1> QED
    BY <1>1, <1>5, <1>7, <1>8 DEF Init, Shape

\* The steps of collect_equivalents() leave the rest alone.
LEMMA CallStepShape ==
  ASSUME Shape, pc = "collect", calls' \in Seq(Frame(dfa)),
         UNCHANGED <<given, row, stateVars, tableVars>>,
         min_set' \subseteq StateOf(dfa), collected_last_state' \in BOOLEAN,
         merge' \in [0 .. Rows - 1 -> [StateOf(dfa) -> {0, 1, VISITED, UNINIT}]],
         TableShape(dfa, merge'), CallsShape(dfa, merge', calls'),
         \/ pc' = "collect" /\ calls' # <<>> /\ calls'[1].i = calls[1].i
         \/ pc' = "class" /\ calls' = <<>>
  PROVE  Shape'
  <1>1. row < Rows /\ calls[1].i = row /\ state_index <= row
    BY DEF Shape, Collecting
  <1>2. /\ dfa' = dfa /\ scarce' = scarce /\ row' = row /\ state_index' = state_index
        /\ mem_region' = mem_region /\ accepts' = accepts /\ start' = start /\ todo' = todo
        /\ Rows' = Rows /\ Cols' = Cols /\ Call' = Call /\ MinimalState' = MinimalState
    BY DEF given, stateVars, tableVars, Rows, Cols, Call, MinimalState
  <1>3. Len(calls') <= Cols /\ \A k \in 1 .. Len(calls') - 1 : calls'[k].i < calls'[k + 1].i
    BY Bounds, CallsAreTyped
  <1>4. Call = Frame(dfa)
    BY DEF Call, Frame, Cols
  <1>5. TypeOK'
    BY <1>2, <1>3, <1>4 DEF Shape, TypeOK
  <1> QED
    BY <1>1, <1>2, <1>5 DEF Shape, Collecting

LEMMA ReturnShape ==
  ASSUME Shape, pc = "collect", Return, collected_last_state' \in BOOLEAN,
         merge' = merge \/ (Top.i < Rows /\ merge' = [merge EXCEPT ![Top.i][Top.i + 1] = VISITED])
  PROVE  Shape'
  <1>1. /\ calls # <<>> /\ calls \in Seq(Frame(dfa)) /\ Top = calls[Len(calls)]
        /\ Len(calls) \in Nat \ {0} /\ Top.i \in 0 .. Rows
        /\ calls' = Rest(calls) /\ pc' = IF Len(calls) = 1 THEN "class" ELSE "collect"
    BY Bounds, LastCall DEF Return, Rest
  <1>2. /\ calls' \in Seq(Frame(dfa)) /\ Len(calls') = Len(calls) - 1
        /\ \A k \in 1 .. Len(calls) - 1 : calls'[k] = calls[k]
    BY <1>1, RestFacts
  <1>3. dfa \in DFAs /\ Rows \in Nat /\ StateOf(dfa) = 0 .. Rows /\ Rows = dfa.size - 1
        /\ merge \in [0 .. Rows - 1 -> [StateOf(dfa) -> {0, 1, VISITED, UNINIT}]]
        /\ TableShape(dfa, merge) /\ CallsShape(dfa, merge, calls)
    BY Bounds DEF Shape, TypeOK, Rows
  <1> DEFINE Cells == [0 .. Rows - 1 -> [StateOf(dfa) -> {0, 1, VISITED, UNINIT}]]
  <1>4. Top.i < Rows => Top.i \in 0 .. Rows - 1
    BY <1>1, <1>3
  <1>5. ASSUME NEW f \in Cells, NEW p \in 0 .. Rows - 1, NEW q \in StateOf(dfa)
        PROVE  /\ [f EXCEPT ![p][q] = VISITED] \in Cells
               /\ \A i \in 0 .. Rows - 1 : \A j \in StateOf(dfa) :
                    \/ [f EXCEPT ![p][q] = VISITED][i][j] = f[i][j]
                    \/ i = p /\ j = q /\ [f EXCEPT ![p][q] = VISITED][i][j] = VISITED
    OBVIOUS
  <1>6. Top.i < Rows => Top.i + 1 \in StateOf(dfa)
    BY <1>4, Bounds
  <1>7. ASSUME NEW i \in 0 .. Rows - 1, NEW j \in StateOf(dfa)
        PROVE  merge'[i][j] = merge[i][j] \/ (i = Top.i /\ j = i + 1 /\ merge'[i][j] = VISITED)
    <2> DEFINE w == [merge EXCEPT ![Top.i][Top.i + 1] = VISITED]
    <2>1. CASE merge' = merge
      BY <2>1
    <2>2. CASE merge' # merge
      <3>1. Top.i \in 0 .. Rows - 1 /\ Top.i + 1 \in StateOf(dfa) /\ merge' = w
        BY <2>2, <1>4, <1>6
      <3>2. \/ w[i][j] = merge[i][j]
            \/ i = Top.i /\ j = Top.i + 1 /\ w[i][j] = VISITED
        BY <1>3, <1>5, <3>1
      <3> HIDE DEF w
      <3> QED
        BY <3>1, <3>2
    <2> QED
      BY <2>1, <2>2
  <1>8. merge' \in Cells
    <2>1. CASE merge' = merge
      BY <1>3, <2>1
    <2>2. CASE merge' # merge
      <3>1. /\ Top.i \in 0 .. Rows - 1 /\ Top.i + 1 \in StateOf(dfa)
            /\ merge' = [merge EXCEPT ![Top.i][Top.i + 1] = VISITED]
        BY <2>2, <1>4, <1>6
      <3> HIDE DEF Cells
      <3> QED
        BY <1>3, <1>5, <3>1 DEF Cells
    <2> QED
      BY <2>1, <2>2
  <1>9. TableShape(dfa, merge')
    BY <1>3, <1>7, Bounds DEF TableShape
  <1>10. ASSUME NEW k \in 1 .. Len(calls) - 1, merge'[calls[k].i][calls[k].i + 1] = VISITED
        PROVE  merge[calls[k].i][calls[k].i + 1] = VISITED
    <2>1. calls[k].i < calls[k].j /\ k \in 1 .. Len(calls)
      BY <1>3, <1>1 DEF CallsShape
    <2>2. calls[k] \in Frame(dfa) /\ calls[k].i < Rows
      BY <1>1, <1>3, <2>1, ElementOfSeq DEF CallsShape
    <2>3. calls[k].i \in 0 .. Rows - 1 /\ calls[k].i + 1 \in StateOf(dfa)
      BY <1>3, <2>2 DEF Frame
    <2>4. calls[k].i < Top.i
      <3>1. Len(calls) \in 1 .. Len(calls) /\ k < Len(calls)
        BY <1>1
      <3> QED
        BY <1>1, <1>3, <2>1, <3>1 DEF CallsShape
    <2>5. Top.i \in Int /\ calls[k].i \in Int
      BY <1>1, <1>3, <2>3
    <2> QED
      BY <1>7, <1>10, <2>3, <2>4, <2>5
  <1>11. CallsShape(dfa, merge', calls')
    BY <1>1, <1>3, <1>10, RestShape
  <1>12. \/ pc' = "collect" /\ calls' # <<>> /\ calls'[1].i = calls[1].i
         \/ pc' = "class" /\ calls' = <<>>
    <2>1. CASE Len(calls) = 1
      <3>1. Len(calls') = 0
        BY <1>1, <1>2, <2>1
      <3>2. calls' = <<>>
        BY <1>2, <3>1, EmptySeq
      <3> QED
        BY <1>1, <2>1, <3>2
    <2>2. CASE Len(calls) # 1
      <3>1. 1 \in 1 .. Len(calls) - 1 /\ Len(calls') # 0
        BY <1>1, <1>2, <2>2
      <3>2. calls' # <<>>
        BY <3>1, EmptySeq
      <3>3. calls'[1] = calls[1]
        BY <1>2, <3>1
      <3>4. pc' = "collect"
        BY <1>1, <2>2
      <3> QED
        BY <3>2, <3>3, <3>4
    <2> QED
      BY <2>1, <2>2
  <1>13. UNCHANGED <<given, row, stateVars, tableVars>> /\ min_set' \subseteq StateOf(dfa)
    BY DEF Return, Shape, TypeOK
  <1> QED
    BY <1>2, <1>8, <1>9, <1>11, <1>12, <1>13, CallStepShape

LEMMA EnterRowShape == ASSUME Shape, EnterRow \/ SkipDistinguished PROVE Shape'
  <1>1. /\ pc = "collect" /\ pc' = "collect" /\ calls' = Bumped(calls) /\ merge' = merge
        /\ UNCHANGED <<given, row, stateVars, tableVars>> /\ min_set' = min_set
        /\ collected_last_state' = collected_last_state
    BY DEF EnterRow, SkipDistinguished, InRow, Bumped
  <1>2. /\ calls # <<>> /\ calls \in Seq(Frame(dfa)) /\ Top = calls[Len(calls)]
        /\ Len(calls) \in Nat \ {0} /\ Top.i \in 0 .. Rows /\ Top.j \in 0 .. Cols
        /\ dfa \in DFAs /\ dfa.size = Cols /\ Rows = dfa.size - 1 /\ Rows \in Nat
        /\ Cols = Rows + 1
    BY <1>1, Bounds, LastCall DEF Rows
  <1>3. Top.j < dfa.size /\ Top.i < dfa.size - 1 /\ merge[Top.i][Top.i + 1] # VISITED
    <2>1. CASE EnterRow
      <3>1. Top.i # Rows /\ Top.j = Top.i /\ ~ IsVisited(Top.i)
        BY <2>1 DEF EnterRow
      <3>2. Top.i \in Int /\ Top.i < Rows
        BY <1>2, <3>1
      <3>3. dfa.size - 1 = Rows /\ Top.i < Rows + 1
        BY <1>2, <3>2
      <3> QED
        BY <1>2, <3>1, <3>2, <3>3 DEF IsVisited
    <2>2. CASE SkipDistinguished
      BY <1>1, <1>2, <2>2, LastCall DEF SkipDistinguished, InRow, IsVisited
    <2> QED
      BY <2>1, <2>2
  <1>4. CallsShape(dfa, merge, calls)
    BY DEF Shape
  <1>5. CallsShape(dfa, merge, calls')
    BY <1>1, <1>2, <1>3, <1>4, BumpedShape
  <1>6. calls' \in Seq(Frame(dfa)) /\ calls' # <<>> /\ calls'[1].i = calls[1].i
    <2>1. /\ calls' \in Seq(Frame(dfa)) /\ calls' # <<>>
          /\ (\A k \in 1 .. Len(calls) - 1 : calls'[k] = calls[k])
          /\ calls'[Len(calls)].i = calls[Len(calls)].i
      BY <1>1, <1>2, <1>3, BumpedFacts
    <2>2. Len(calls) = 1 \/ 1 \in 1 .. Len(calls) - 1
      BY <1>2, FirstAndLast
    <2> QED
      BY <2>1, <2>2
  <1>7. /\ min_set' \subseteq StateOf(dfa) /\ collected_last_state' \in BOOLEAN
        /\ merge' \in [0 .. Rows - 1 -> [StateOf(dfa) -> {0, 1, VISITED, UNINIT}]]
        /\ TableShape(dfa, merge')
    BY <1>1 DEF Shape, TypeOK
  <1> QED
    BY <1>1, <1>5, <1>6, <1>7, CallStepShape

\* An equivalent that is taken is one.
LEMMA TakenFacts ==
  ASSUME Shape, InRow, Top.j < Cols
  PROVE  /\ merge[Top.i][Top.j] \in {0, 1} /\ (merge[Top.i][Top.j] = 1 <=> Same(dfa, Top.i, Top.j))
         /\ Top.j \in StateOf(dfa) /\ Top.i \in 0 .. Rows - 1
  <1>1. Top.i \in 0 .. Rows /\ Top.j \in 0 .. Cols /\ Top.i < Rows /\ ~ IsVisited(Top.i)
    BY LastCall DEF InRow
  <1>2. Top.i \in 0 .. Rows - 1 /\ Top.j \in StateOf(dfa) /\ Top.i < Top.j
    BY <1>1, Bounds DEF InRow
  <1> QED
    BY <1>1, <1>2, CellFact

LEMMA TakeEquivalentShape == ASSUME Shape, TakeEquivalent PROVE Shape'
  <1> DEFINE x == [i |-> Top.j, j |-> Top.j]
             b == Bumped(calls)
  <1>1. /\ pc = "collect" /\ pc' = "collect" /\ merge' = merge /\ InRow /\ Top.j < Cols
        /\ UNCHANGED <<given, row, stateVars, tableVars>>
        /\ collected_last_state' = collected_last_state
        /\ merge[Top.i][Top.j] # 0 /\ min_set' \in Inserted(min_set, Top.j)
        /\ calls' = Append(b, x)
    BY DEF TakeEquivalent, InRow, Bumped
  <1>2. Same(dfa, Top.i, Top.j) /\ Top.j \in StateOf(dfa) /\ Top.i < Top.j
    BY <1>1, TakenFacts DEF InRow
  <1>3. /\ calls # <<>> /\ calls \in Seq(Frame(dfa)) /\ Top = calls[Len(calls)]
        /\ Len(calls) \in Nat \ {0} /\ dfa \in DFAs /\ dfa.size = Cols
        /\ CallsShape(dfa, merge, calls)
    BY <1>1, Bounds, LastCall DEF Shape
  <1>4. CallsShape(dfa, merge, calls')
    BY <1>1, <1>2, <1>3, CalledShape
  <1>5. /\ b \in Seq(Frame(dfa)) /\ Len(b) = Len(calls)
        /\ (\A k \in 1 .. Len(calls) - 1 : b[k] = calls[k])
        /\ b[Len(calls)].i = calls[Len(calls)].i
    BY <1>1, <1>3, BumpedFacts
  <1>6. x \in Frame(dfa)
    BY <1>2, Bounds DEF Frame
  <1> HIDE DEF b, x
  <1>7. calls' \in Seq(Frame(dfa)) /\ calls' # <<>> /\ \A k \in 1 .. Len(calls) : calls'[k] = b[k]
    BY <1>1, <1>5, <1>6, AppendedFacts
  <1>8. calls'[1].i = calls[1].i
    <2>1. 1 \in 1 .. Len(calls) /\ (Len(calls) = 1 \/ 1 \in 1 .. Len(calls) - 1)
      BY <1>3, FirstAndLast
    <2> QED
      BY <2>1, <1>5, <1>7
  <1>9. /\ min_set' \subseteq StateOf(dfa) /\ collected_last_state' \in BOOLEAN
        /\ merge' \in [0 .. Rows - 1 -> [StateOf(dfa) -> {0, 1, VISITED, UNINIT}]]
        /\ TableShape(dfa, merge')
    BY <1>1, <1>2 DEF Shape, TypeOK, Inserted, Lost
  <1> QED
    BY <1>1, <1>4, <1>7, <1>8, <1>9, CallStepShape

LEMMA CollectStepShape ==
  ASSUME Shape, \/ ReachLastState \/ ReturnFromVisitedRow \/ EnterRow
                \/ SkipDistinguished \/ TakeEquivalent \/ MarkRowVisited
  PROVE  Shape'
  <1>1. collected_last_state \in BOOLEAN
    BY DEF Shape, TypeOK
  <1>2. CASE ReachLastState
    BY <1>2, ReturnShape DEF ReachLastState
  <1>3. CASE ReturnFromVisitedRow
    BY <1>1, <1>3, ReturnShape DEF ReturnFromVisitedRow
  <1>4. CASE MarkRowVisited
    <2>1. pc = "collect" /\ Top.i < Rows
      BY <1>4, LastCall DEF MarkRowVisited, InRow
    <2> QED
      BY <1>1, <1>4, <2>1, ReturnShape DEF MarkRowVisited
  <1> QED
    BY <1>2, <1>3, <1>4, EnterRowShape, TakeEquivalentShape

-----------------------------------------------------------------------------
\* A class is added, or its insertion is lost.
LEMMA AddFacts ==
  ASSUME Shape, NEW S \in SUBSET StateOf(dfa), AddMinimalState(S), state_index \in StateOf(dfa)
  PROVE  LET m == [states |-> S, index |-> state_index, is_accept |-> S \cap dfa.accepts # {}]
         IN  /\ mem_region' \in {mem_region, mem_region \cup {m}} /\ m \in MinimalState
             /\ state_index' = state_index + 1
             /\ accepts' \in {accepts, accepts \cup {state_index}}
             /\ ~ scarce /\ (\A n \in mem_region : First(n.states) # First(S))
                  => mem_region' = mem_region \cup {m}
             /\ ~ scarce => accepts' = IF m.is_accept THEN accepts \cup {state_index} ELSE accepts
  <1> DEFINE m == [states |-> S, index |-> state_index, is_accept |-> S \cap dfa.accepts # {}]
             isDuplicate == \E T \in Classes : First(T) = First(m.states)
  <1>1. m \in MinimalState
    BY DEF MinimalState
  <1>2. mem_region' \in WithState(m)
    BY DEF AddMinimalState
  <1>3. mem_region' \in Lost(mem_region) \/ mem_region' = IF isDuplicate THEN mem_region ELSE mem_region \cup {m}
    BY <1>2 DEF WithState
  <1>4. isDuplicate <=> \E n \in mem_region : First(n.states) = First(S)
    BY DEF Classes
  <1>5. state_index' = state_index + 1 /\ accepts' \in IF m.is_accept THEN Inserted(accepts, state_index) ELSE {accepts}
    BY DEF AddMinimalState
  <1>6. /\ accepts' \in {accepts, accepts \cup {state_index}}
        /\ ~ scarce => accepts' = IF m.is_accept THEN accepts \cup {state_index} ELSE accepts
    BY <1>5 DEF Inserted, Lost
  <1>7. scarce \/ Lost(mem_region) = {}
    BY DEF Lost
  <1>8. \A M \in Lost(mem_region) : M = mem_region
    BY DEF Lost
  <1> HIDE DEF m, isDuplicate
  <1>9. mem_region' \in {mem_region, mem_region \cup {m}}
    BY <1>3, <1>8
  <1>10. ~ scarce /\ (\A n \in mem_region : First(n.states) # First(S))
           => mem_region' = mem_region \cup {m}
    BY <1>3, <1>4, <1>7
  <1> QED
    BY <1>1, <1>5, <1>6, <1>9, <1>10 DEF m

\* The steps outside of collect_equivalents().
LEMMA OtherStepShape ==
  ASSUME Shape, pc # "collect", calls' = <<>>, UNCHANGED <<given, merge>>,
         pc' \in {"rows", "class", "allocate", "fill", "done", "failed", "undefined"},
         collected_last_state' = collected_last_state,
         row' \in 0 .. Rows, min_set' \subseteq StateOf(dfa), state_index' \in 0 .. Cols,
         mem_region' \subseteq MinimalState, accepts' \subseteq StateOf(dfa),
         start' \in StateOf(dfa) \cup {NULL}, todo' \subseteq mem_region',
         pc' = "class" => row' < Rows, Collecting' => state_index' <= row'
  PROVE  Shape'
  <1>1. /\ dfa' = dfa /\ scarce' = scarce /\ Rows' = Rows /\ Cols' = Cols /\ Call' = Call
        /\ MinimalState' = MinimalState /\ StateOf(dfa)' = StateOf(dfa)
    BY DEF given, Rows, Cols, Call, MinimalState
  <1>2. calls' \in Seq(Call) /\ Len(calls') = 0 /\ Len(calls') <= Cols
        /\ \A k \in 1 .. Len(calls') - 1 : calls'[k].i < calls'[k + 1].i
    BY Bounds
  <1>3. TypeOK'
    BY <1>1, <1>2 DEF Shape, TypeOK
  <1>4. CallsShape(dfa, merge, calls')
    BY DEF CallsShape
  <1> QED
    BY <1>1, <1>3, <1>4 DEF Shape

LEMMA ClassStepShape ==
  ASSUME Shape, SkipVisitedRow \/ AddClass \/ AddLastState \/ LastStateCollected
  PROVE  Shape'
  <1>1. /\ pc \in {"rows", "class"} /\ calls' = calls /\ UNCHANGED <<given, merge, todo>>
        /\ collected_last_state' = collected_last_state
        /\ pc' \in {"rows", "allocate"}
    BY DEF SkipVisitedRow, AddClass, AddLastState, LastStateCollected, stateVars, tableVars
  <1>2. /\ calls = <<>> /\ row \in 0 .. Rows /\ Rows \in Nat /\ Cols = Rows + 1
        /\ (pc = "class" => row < Rows) /\ state_index <= row
        /\ min_set \subseteq StateOf(dfa) /\ state_index \in 0 .. Cols
        /\ mem_region \subseteq MinimalState /\ accepts \subseteq StateOf(dfa)
        /\ start \in StateOf(dfa) \cup {NULL} /\ todo \subseteq mem_region
        /\ StateOf(dfa) = 0 .. Rows /\ Rows \in StateOf(dfa)
    BY <1>1, Bounds DEF Shape, TypeOK, Collecting
  <1>3. state_index \in StateOf(dfa)
    BY <1>2
  <1>4. ASSUME NEW S \in SUBSET StateOf(dfa), AddMinimalState(S)
        PROVE  /\ mem_region' \subseteq MinimalState /\ todo \subseteq mem_region'
               /\ accepts' \subseteq StateOf(dfa) /\ state_index' = state_index + 1
               /\ state_index' \in 0 .. Cols
    <2>1. /\ \E m \in MinimalState : mem_region' \in {mem_region, mem_region \cup {m}}
          /\ accepts' \in {accepts, accepts \cup {state_index}}
          /\ state_index' = state_index + 1
      BY <1>3, <1>4, AddFacts
    <2>2. state_index + 1 \in 0 .. Cols
      BY <1>2, <1>3
    <2> QED
      BY <1>2, <1>3, <2>1, <2>2
  <1>5. CASE SkipVisitedRow
    <2>1. /\ row < Rows /\ row' = row + 1 /\ pc' = "rows" /\ min_set' = min_set
          /\ UNCHANGED stateVars
      BY <1>5 DEF SkipVisitedRow
    <2>2. row' \in 0 .. Rows /\ state_index <= row'
      BY <1>2, <2>1
    <2> QED
      BY <1>1, <1>2, <2>1, <2>2, OtherStepShape DEF stateVars
  <1>6. CASE AddClass
    <2>1. /\ AddMinimalState(min_set) /\ row' = row + 1 /\ pc' = "rows" /\ pc = "class"
          /\ min_set' = min_set /\ start' \in {state_index, start}
      BY <1>6 DEF AddClass
    <2>2. row' \in 0 .. Rows /\ state_index + 1 <= row'
      BY <1>2, <2>1
    <2> QED
      BY <1>1, <1>2, <1>3, <1>4, <2>1, <2>2, OtherStepShape
  <1>7. CASE AddLastState
    <2>1. /\ AddMinimalState(min_set') /\ row' = row /\ pc' = "allocate" /\ start' = start
          /\ min_set' \in Inserted({}, Rows)
      BY <1>7 DEF AddLastState
    <2>2. min_set' \subseteq StateOf(dfa)
      BY <1>2, <2>1 DEF Inserted, Lost
    <2> QED
      BY <1>1, <1>2, <1>4, <2>1, <2>2, OtherStepShape DEF Collecting
  <1>8. CASE LastStateCollected
    <2>1. row' = row /\ pc' = "allocate" /\ min_set' = min_set /\ UNCHANGED stateVars
      BY <1>8 DEF LastStateCollected
    <2> QED
      BY <1>1, <1>2, <2>1, OtherStepShape DEF stateVars, Collecting
  <1> QED
    BY <1>5, <1>6, <1>7, <1>8

LEMMA StartClassShape == ASSUME Shape, StartClass PROVE Shape'
  <1>1. /\ pc = "rows" /\ row < Rows /\ pc' = "collect" /\ calls' = <<[i |-> row, j |-> row]>>
        /\ UNCHANGED <<given, merge, collected_last_state, row, stateVars, tableVars>>
        /\ min_set' \in Inserted({}, row)
    BY DEF StartClass
  <1>2. TypeOK /\ row \in StateOf(dfa) /\ row \in 0 .. Rows /\ Rows \in Nat /\ Cols = Rows + 1
        /\ Rows >= 1 /\ TableShape(dfa, merge) /\ state_index <= row
    BY <1>1, Bounds DEF Shape, Collecting
  <1> DEFINE x == [i |-> row, j |-> row]
  <1>3. x \in Call /\ x.i = row /\ x.j = row
    <2>1. row \in 0 .. Cols
      BY <1>2
    <2> QED
      BY <1>2, <2>1 DEF Call
  <1> HIDE DEF x
  <1>4. /\ calls' = <<x>> /\ calls' \in Seq(Call) /\ Len(calls') = 1 /\ calls' # <<>>
        /\ calls'[1] = x
    BY <1>1, <1>3 DEF x
  <1>5. CallsShape(dfa, merge, calls')
    BY <1>2, <1>3, <1>4 DEF CallsShape
  <1>6. /\ dfa' = dfa /\ scarce' = scarce /\ Rows' = Rows /\ Cols' = Cols /\ Call' = Call
        /\ MinimalState' = MinimalState
    BY <1>1 DEF given, Rows, Cols, Call, MinimalState
  <1>7. /\ Len(calls') <= Cols /\ \A k \in 1 .. Len(calls') - 1 : calls'[k].i < calls'[k + 1].i
    BY <1>2, <1>4
  <1>8. min_set' \subseteq StateOf(dfa)
    BY <1>1, <1>2 DEF Inserted, Lost
  <1>9. TypeOK'
    BY <1>1, <1>2, <1>4, <1>6, <1>7, <1>8 DEF TypeOK, stateVars, tableVars
  <1> QED
    BY <1>1, <1>2, <1>3, <1>4, <1>5, <1>6, <1>9 DEF Shape, stateVars

LEMMA TableStepShape ==
  ASSUME Shape, AllocateTable \/ FillRow \/ Finish \/ ReturnNull \/ UseMissing
  PROVE  Shape'
  <1>1. /\ pc # "collect" /\ UNCHANGED <<given, merge, collected_last_state, row, min_set, calls, stateVars>>
        /\ pc' \in {"fill", "done", "failed", "undefined"}
        /\ todo' \subseteq todo \cup mem_region
    BY DEF AllocateTable, FillRow, Finish, ReturnNull, UseMissing, tableVars
  <1>2. /\ calls = <<>> /\ row \in 0 .. Rows /\ min_set \subseteq StateOf(dfa)
        /\ state_index \in 0 .. Cols /\ mem_region \subseteq MinimalState
        /\ accepts \subseteq StateOf(dfa) /\ start \in StateOf(dfa) \cup {NULL}
        /\ todo \subseteq mem_region
    BY <1>1 DEF Shape, TypeOK
  <1> QED
    BY <1>1, <1>2, OtherStepShape DEF stateVars, Collecting

LEMMA ShapeStep == ASSUME Shape, [Next]_vars PROVE Shape'
  <1>1. CASE UNCHANGED vars
    <2>1. UNCHANGED <<dfa, scarce, merge, collected_last_state, row, min_set, calls, state_index,
                      mem_region, accepts, start, todo, pc>>
      BY <1>1 DEF vars, given
    <2>2. TypeOK' /\ Collecting' = Collecting /\ Rows' = Rows
      BY <2>1 DEF Shape, TypeOK, Collecting, Rows, Cols, Call, MinimalState
    <2> QED
      BY <2>1, <2>2 DEF Shape
  <1>2. CASE Stopped
    BY <1>1, <1>2 DEF Stopped
  <1> QED
    BY <1>1, <1>2, CollectStepShape, ClassStepShape, StartClassShape, TableStepShape DEF Next

\* Every state of construct_minimal_states() and construct_transition_table()
\* has the types of the locals and members, and the recursion climbs to higher
\* rows only: it is at most as deep as the DFA has states.
THEOREM TypeOKHolds == Spec => []TypeOK
  <1>1. Init => Shape
    BY InitShape
  <1>2. Shape /\ [Next]_vars => Shape'
    BY ShapeStep
  <1>3. Shape => TypeOK
    BY DEF Shape
  <1> QED
    BY <1>1, <1>2, <1>3, PTL DEF Spec

\* The flag that overwrites a verdict is never read as one: a row is flagged
\* only after all of its cells were looked at, and nobody looks at them again.
THEOREM FlagNotReadAsVerdictHolds == Spec => []FlagNotReadAsVerdict
  <1>1. Init => Shape
    BY InitShape
  <1>2. Shape /\ [Next]_vars => Shape'
    BY ShapeStep
  <1>3. Shape => FlagNotReadAsVerdict
    BY TakenFacts DEF FlagNotReadAsVerdict
  <1> QED
    BY <1>1, <1>2, <1>3, PTL DEF Spec

-----------------------------------------------------------------------------
(* Layer 2: classes.                                                       *)

LEMMA SameOnStates ==
  ASSUME NEW d \in DFAs
  PROVE  \A p, q, r \in StateOf(d) :
           /\ Same(d, p, p) /\ (Same(d, p, q) => Same(d, q, p))
           /\ (Same(d, p, q) /\ Same(d, q, r) => Same(d, p, r))
  <1>1. StateOf(d) \subseteq NodeOf(d)
    BY DFAFacts
  <1> QED
    BY <1>1, SameFacts, SameTransitive, SameReflexive

LEMMA BeforeFacts ==
  ASSUME NEW d \in DFAs, NEW r \in StateOf(d)
  PROVE  /\ Before(d, r) \subseteq StateOf(d)
         /\ Before(d, r + 1) = Before(d, r) \cup {q \in StateOf(d) : Same(d, r, q)}
         /\ \A p \in Before(d, r), q \in StateOf(d) : Same(d, p, q) => q \in Before(d, r)
         /\ r \in Before(d, r) => Before(d, r + 1) = Before(d, r)
         /\ Before(d, r) \subseteq Before(d, d.size)
  <1>1. StateOf(d) = 0 .. d.size - 1 /\ d.size \in Nat
    BY DFAFacts
  <1>2. \A p \in StateOf(d) : p \in Int /\ p < d.size /\ (p < r + 1 <=> p < r \/ p = r)
    BY <1>1
  <1>3. Before(d, r + 1) = Before(d, r) \cup {q \in StateOf(d) : Same(d, r, q)}
    BY <1>2 DEF Before
  <1>4. ASSUME NEW p \in Before(d, r), NEW q \in StateOf(d), Same(d, p, q) PROVE q \in Before(d, r)
    <2>1. PICK s \in StateOf(d) : s < r /\ Same(d, s, p)
      BY DEF Before
    <2>2. p \in StateOf(d)
      BY DEF Before
    <2>3. Same(d, s, q)
      BY <1>4, <2>1, <2>2, SameOnStates
    <2> QED
      BY <2>1, <2>3 DEF Before
  <1>5. Before(d, r) \subseteq Before(d, d.size)
    BY <1>2 DEF Before
  <1> QED
    BY <1>3, <1>4, <1>5 DEF Before

\* Every later state that is inseparable from a flagged one is flagged; a call
\* has seen to that for the cells it has looked at.
FlagsClosed(d, F, st) ==
  /\ \A p \in F : \A q \in StateOf(d) : p < q /\ Same(d, p, q) => q \in F
  /\ \A k \in 1 .. Len(st) : \A q \in StateOf(d) :
       st[k].i < q /\ q < st[k].j /\ Same(d, st[k].i, q)
         => q \in F \/ (k < Len(st) /\ q = st[k + 1].i)

\* The rows that calls are on.
RowsOf(st) == {st[k].i : k \in 1 .. Len(st)}

\* Which states are flagged where.
FlagsExact(d, F, at, r, lacking, S, st) ==
  /\ at = "rows" => F = Before(d, r)
  /\ at = "collect" =>
       /\ Before(d, r) \subseteq F /\ \A q \in F : q \in Before(d, r) \/ Same(d, r, q)
       /\ \A q \in RowsOf(st) : Same(d, r, q)
  /\ at = "class" => F = Before(d, r + 1)
  /\ at \in {"collect", "class"} => r \notin Before(d, r) /\ \A q \in S : Same(d, r, q)
  /\ at \in {"collect", "class"} /\ ~ lacking =>
       r \in S /\ F \subseteq Before(d, r) \cup S /\ RowsOf(st) \subseteq S

\* The classes that the rows below b have left behind.
Region(d, M, lacking, b) ==
  /\ \A m \in M : /\ m.states \subseteq Before(d, b)
                  /\ \A p, q \in m.states : Same(d, p, q)
                  /\ m.is_accept = (m.states \cap d.accepts # {})
  /\ \A m, n \in M : m # n => m.states \cap n.states = {}
  /\ ~ lacking =>
       /\ \A m \in M : m.states # {} /\ \A p \in m.states : \A q \in StateOf(d) :
                          Same(d, p, q) => q \in m.states
       /\ \A q \in Before(d, b) : \E m \in M : q \in m.states

Bound == IF Collecting THEN row ELSE Cols

Flags == Flagged(dfa, merge, collected_last_state)

Collected ==
  /\ FlagsClosed(dfa, Flags, calls)
  /\ FlagsExact(dfa, Flags, pc, row, scarce, min_set, calls)
  /\ Region(dfa, mem_region, scarce, Bound)

\* The three ways calls changes.
LEMMA BumpedClosed ==
  ASSUME NEW d \in DFAs, NEW F, NEW st \in Seq(Frame(d)), st # <<>>, FlagsClosed(d, F, st),
         st[Len(st)].j < d.size,
         st[Len(st)].i < st[Len(st)].j => ~ Same(d, st[Len(st)].i, st[Len(st)].j)
  PROVE  FlagsClosed(d, F, Bumped(st)) /\ RowsOf(Bumped(st)) = RowsOf(st)
  <1> DEFINE b == Bumped(st)
             n == Len(st)
  <1>1. /\ n \in Nat \ {0} /\ Len(b) = n /\ (\A k \in 1 .. n - 1 : b[k] = st[k])
        /\ b[n].i = st[n].i /\ b[n].j = st[n].j + 1 /\ st[n] \in Frame(d)
    BY RestFacts, BumpedFacts
  <1> HIDE DEF b
  <1>2. \A k \in 1 .. n : b[k].i = st[k].i
    <2>1. \A k \in 1 .. n : k = n \/ k \in 1 .. n - 1
      BY <1>1
    <2> QED
      BY <1>1, <2>1
  <1>3. RowsOf(b) = RowsOf(st)
    BY <1>1, <1>2 DEF RowsOf
  <1>4. ASSUME NEW k \in 1 .. n, NEW q \in StateOf(d),
               b[k].i < q, q < b[k].j, Same(d, b[k].i, q)
        PROVE  q \in F \/ (k < n /\ q = b[k + 1].i)
    <2>1. k < n => k + 1 \in 1 .. n /\ k \in 1 .. n - 1
      BY <1>1
    <2>2. CASE k < n
      <3>1. st[k].i < q /\ q < st[k].j /\ Same(d, st[k].i, q) /\ b[k + 1].i = st[k + 1].i
        BY <1>1, <1>2, <1>4, <2>1, <2>2
      <3> QED
        BY <3>1, <2>2 DEF FlagsClosed
    <2>3. CASE k = n
      <3>1. st[n].i < q /\ q < st[n].j + 1 /\ Same(d, st[n].i, q)
        BY <1>1, <1>4, <2>3
      <3>2. st[n].j \in Nat /\ q \in Nat
        BY <1>1, DFAFacts DEF Frame
      <3>3. q # st[n].j
        BY <3>1
      <3>4. q < st[n].j
        BY <3>1, <3>2, <3>3
      <3>5. n \in 1 .. n /\ ~ (n < n)
        BY <1>1
      <3> QED
        BY <2>3, <3>1, <3>4, <3>5 DEF FlagsClosed
    <2> QED
      BY <1>1, <2>2, <2>3
  <1>5. FlagsClosed(d, F, b)
    BY <1>1, <1>4 DEF FlagsClosed
  <1> QED
    BY <1>3, <1>5 DEF b

LEMMA CalledClosed ==
  ASSUME NEW d \in DFAs, NEW F, NEW st \in Seq(Frame(d)), st # <<>>, FlagsClosed(d, F, st),
         NEW c \in StateOf(d), c = st[Len(st)].j
  PROVE  LET new == Append(Bumped(st), [i |-> c, j |-> c])
         IN  FlagsClosed(d, F, new) /\ RowsOf(new) = RowsOf(st) \cup {c}
  <1> DEFINE b == Bumped(st)
             n == Len(st)
             x == [i |-> c, j |-> c]
             new == Append(b, x)
  <1>1. c \in Nat /\ c < d.size /\ d.size \in Nat /\ x \in Frame(d)
    BY DFAFacts DEF StateOf, Frame
  <1>2. /\ n \in Nat \ {0} /\ st[n] \in Frame(d) /\ (\A k \in 1 .. n - 1 : b[k] = st[k])
        /\ b \in Seq(Frame(d)) /\ Len(b) = n /\ b[n].i = st[n].i /\ b[n].j = c + 1
    <2>1. n \in Nat \ {0} /\ st[n] \in Frame(d)
      BY RestFacts
    <2>2. st[Len(st)].j < d.size
      BY <1>1
    <2>3. /\ b \in Seq(Frame(d)) /\ Len(b) = n /\ (\A k \in 1 .. n - 1 : b[k] = st[k])
          /\ b[n].i = st[n].i /\ b[n].j = st[n].j + 1
      BY <2>2, BumpedFacts
    <2> HIDE DEF b
    <2> QED
      BY <2>1, <2>3
  <1> HIDE DEF b, x
  <1>3. Len(new) = n + 1 /\ (\A k \in 1 .. n : new[k] = b[k]) /\ new[n + 1] = x
    BY <1>1, <1>2, AppendedFacts
  <1> HIDE DEF new
  <1>4. x.i = c /\ x.j = c
    BY DEF x
  <1>5. \A k \in 1 .. n : new[k].i = st[k].i
    <2>1. \A k \in 1 .. n : k = n \/ k \in 1 .. n - 1
      BY <1>2
    <2> QED
      BY <1>2, <1>3, <2>1
  <1>6. RowsOf(new) = RowsOf(st) \cup {c}
    <2> HIDE DEF n
    <2>1. 1 .. n + 1 = 1 .. n \cup {n + 1}
      BY <1>2
    <2>2. RowsOf(new) = {new[k].i : k \in 1 .. n} \cup {new[n + 1].i}
      BY <1>3, <2>1 DEF RowsOf
    <2>3. {new[k].i : k \in 1 .. n} = RowsOf(st)
      BY <1>5 DEF RowsOf, n
    <2> QED
      BY <1>3, <1>4, <2>2, <2>3
  <1>7. ASSUME NEW k \in 1 .. n + 1, NEW q \in StateOf(d),
               new[k].i < q, q < new[k].j, Same(d, new[k].i, q)
        PROVE  q \in F \/ (k < n + 1 /\ q = new[k + 1].i)
    <2>1. CASE k \in 1 .. n - 1
      <3>1. k \in 1 .. n /\ k + 1 \in 1 .. n /\ k < n /\ k < n + 1
        BY <1>2, <2>1
      <3>2. st[k].i < q /\ q < st[k].j /\ Same(d, st[k].i, q) /\ new[k + 1].i = st[k + 1].i
        BY <1>2, <1>3, <1>5, <1>7, <2>1, <3>1
      <3> QED
        BY <3>1, <3>2 DEF FlagsClosed
    <2>2. CASE k = n
      <3>1. n \in 1 .. n /\ ~ (n < n) /\ n < n + 1
        BY <1>2
      <3>2. st[n].i < q /\ q < c + 1 /\ Same(d, st[n].i, q) /\ q \in Nat
        BY <1>2, <1>3, <1>5, <1>7, <2>2, <3>1, DFAFacts
      <3>3. q = c \/ q < c
        BY <1>1, <3>2
      <3> QED
        BY <1>3, <1>4, <2>2, <3>1, <3>2, <3>3 DEF FlagsClosed
    <2>3. CASE k = n + 1
      <3>1. c < q /\ q < c /\ q \in Nat
        BY <1>3, <1>4, <1>7, <2>3, DFAFacts
      <3> QED
        BY <1>1, <3>1
    <2> QED
      BY <1>2, <2>1, <2>2, <2>3
  <1>8. FlagsClosed(d, F, new)
    BY <1>3, <1>7 DEF FlagsClosed
  <1> QED
    BY <1>6, <1>8 DEF new, b, x

\* A call returns: its row has been flagged before, is the last state or is done.
LEMMA RestClosed ==
  ASSUME NEW d \in DFAs, NEW F \in SUBSET StateOf(d), NEW st \in Seq(Frame(d)), st # <<>>,
         FlagsClosed(d, F, st),
         NEW c \in StateOf(d), c = st[Len(st)].i,
         c \in F \/ c = d.size - 1 \/ (c < st[Len(st)].j /\ st[Len(st)].j = d.size)
  PROVE  FlagsClosed(d, F \cup {c}, Rest(st)) /\ RowsOf(Rest(st)) \subseteq RowsOf(st)
  <1> DEFINE b == Rest(st)
             n == Len(st)
             G == F \cup {c}
  <1>1. n \in Nat \ {0} /\ Len(b) = n - 1 /\ \A k \in 1 .. n - 1 : b[k] = st[k]
    BY RestFacts
  <1>2. d.size \in Nat /\ \A q \in StateOf(d) : q \in Nat /\ q <= d.size - 1 /\ q < d.size
    BY DFAFacts
  <1> HIDE DEF b
  <1>3. RowsOf(b) \subseteq RowsOf(st)
    <2>1. \A k \in 1 .. n - 1 : k \in 1 .. n
      BY <1>1
    <2> QED
      BY <1>1, <2>1 DEF RowsOf
  <1>4. ASSUME NEW p \in G, NEW q \in StateOf(d), p < q, Same(d, p, q) PROVE q \in G
    <2>1. CASE p \in F
      BY <1>4, <2>1 DEF FlagsClosed
    <2>2. CASE p = c /\ c = d.size - 1
      <3>1. q \in Nat /\ q <= d.size - 1 /\ c < q /\ c \in Nat
        BY <1>2, <1>4, <2>2
      <3> QED
        BY <2>2, <3>1
    <2>3. CASE p = c /\ c < st[n].j /\ st[n].j = d.size
      <3>1. n \in 1 .. n /\ ~ (n < n)
        BY <1>1
      <3>2. st[n].i < q /\ q < st[n].j /\ Same(d, st[n].i, q)
        BY <1>2, <1>4, <2>3
      <3> QED
        BY <3>1, <3>2 DEF FlagsClosed
    <2> QED
      BY <2>1, <2>2, <2>3
  <1>5. ASSUME NEW k \in 1 .. n - 1, NEW q \in StateOf(d),
               b[k].i < q, q < b[k].j, Same(d, b[k].i, q)
        PROVE  q \in G \/ (k < n - 1 /\ q = b[k + 1].i)
    <2>1. k \in 1 .. n /\ b[k] = st[k]
      BY <1>1
    <2>2. q \in F \/ (k < n /\ q = st[k + 1].i)
      BY <1>5, <2>1 DEF FlagsClosed
    <2>3. k + 1 = n \/ (k + 1 \in 1 .. n - 1 /\ k < n - 1)
      <3> HIDE DEF n
      <3> QED
        BY <1>1
    <2> QED
      BY <1>1, <2>2, <2>3
  <1>6. FlagsClosed(d, G, b)
    BY <1>1, <1>4, <1>5 DEF FlagsClosed
  <1> QED
    BY <1>3, <1>6 DEF b

LEMMA FlagsFacts ==
  ASSUME Shape
  PROVE  /\ Flags \subseteq StateOf(dfa) /\ (Rows \in Flags <=> collected_last_state)
         /\ \A p \in 0 .. Rows - 1 : p \in Flags <=> IsVisited(p)
  <1>1. /\ StateOf(dfa) = 0 .. Rows /\ 0 .. dfa.size - 2 = 0 .. Rows - 1 /\ Rows \in Nat
        /\ Rows = dfa.size - 1
    BY Bounds DEF Rows
  <1>2. Flags = {p \in 0 .. Rows - 1 : merge[p][p + 1] = VISITED}
                  \cup (IF collected_last_state THEN {Rows} ELSE {})
    BY <1>1 DEF Flags, Flagged
  <1>3. Rows \notin 0 .. Rows - 1 /\ \A p \in 0 .. Rows - 1 : p \in 0 .. Rows /\ p # Rows
    BY <1>1
  <1> QED
    BY <1>1, <1>2, <1>3 DEF IsVisited

\* What a return leaves flagged.
LEMMA ReturnFlags ==
  ASSUME Shape, ReachLastState \/ ReturnFromVisitedRow \/ MarkRowVisited
  PROVE  /\ Flags' = Flags \cup {Top.i}
         /\ \/ Top.i \in Flags \/ Top.i = dfa.size - 1
            \/ Top.i < Top.j /\ Top.j = dfa.size
  <1>1. /\ Top.i \in 0 .. Rows /\ StateOf(dfa) = 0 .. Rows /\ 0 .. dfa.size - 2 = 0 .. Rows - 1
        /\ Rows \in Nat /\ Rows = dfa.size - 1 /\ dfa' = dfa /\ Rows' = Rows /\ Cols = dfa.size
        /\ (Top.i < Top.j => Top.i < Rows)
    BY Bounds, LastCall DEF ReachLastState, ReturnFromVisitedRow, MarkRowVisited, Return, InRow, given, Rows
  <1>2. /\ Flags = {p \in 0 .. Rows - 1 : merge[p][p + 1] = VISITED}
                     \cup (IF collected_last_state THEN {Rows} ELSE {})
        /\ Flags' = {p \in 0 .. Rows - 1 : merge'[p][p + 1] = VISITED}
                      \cup (IF collected_last_state' THEN {Rows} ELSE {})
    BY <1>1 DEF Flags, Flagged
  <1>3. CASE ReachLastState
    BY <1>1, <1>2, <1>3 DEF ReachLastState
  <1>4. CASE ReturnFromVisitedRow
    <2>1. Top.i \in 0 .. Rows - 1 /\ merge[Top.i][Top.i + 1] = VISITED
      BY <1>1, <1>4 DEF ReturnFromVisitedRow, IsVisited
    <2> QED
      BY <1>2, <1>4, <2>1 DEF ReturnFromVisitedRow
  <1>5. CASE MarkRowVisited
    <2> DEFINE t == Top.i
    <2>1. /\ t \in 0 .. Rows - 1 /\ t < Top.j /\ Top.j = dfa.size
          /\ collected_last_state' = collected_last_state
          /\ merge' = [merge EXCEPT ![t][t + 1] = VISITED]
      BY <1>1, <1>5 DEF MarkRowVisited, InRow
    <2>2. /\ merge \in [0 .. Rows - 1 -> [StateOf(dfa) -> {0, 1, VISITED, UNINIT}]]
          /\ \A i \in 0 .. Rows - 1 : i + 1 \in StateOf(dfa)
      BY Bounds DEF Shape, TypeOK
    <2> HIDE DEF t
    <2>3. \A p \in 0 .. Rows - 1 : merge'[p][p + 1] = VISITED <=> p = t \/ merge[p][p + 1] = VISITED
      BY <2>1, <2>2
    <2>4. Flags' = Flags \cup {t}
      BY <1>2, <2>1, <2>3
    <2> QED
      BY <2>1, <2>4 DEF t
  <1> QED
    BY <1>3, <1>4, <1>5

\* A step of collect_equivalents() that goes on in it.
LEMMA CollectStepCollected ==
  ASSUME Shape, Collected, EnterRow \/ SkipDistinguished \/ TakeEquivalent
  PROVE  Collected'
  <1>1. /\ pc = "collect" /\ pc' = "collect" /\ UNCHANGED <<given, merge, collected_last_state, row, stateVars>>
        /\ calls # <<>> /\ calls \in Seq(Frame(dfa)) /\ Top = calls[Len(calls)] /\ dfa \in DFAs
        /\ Cols = dfa.size /\ Rows < Cols
        /\ Top.i \in 0 .. Rows /\ Rows \in Nat /\ StateOf(dfa) = 0 .. Rows
    BY Bounds, LastCall DEF EnterRow, SkipDistinguished, TakeEquivalent, InRow
  <1>2. /\ FlagsClosed(dfa, Flags, calls) /\ FlagsExact(dfa, Flags, pc, row, scarce, min_set, calls)
        /\ Region(dfa, mem_region, scarce, row) /\ row \in StateOf(dfa)
    BY <1>1, Bounds DEF Collected, Bound, Collecting
  <1>3. Flags' = Flags /\ Bound' = row /\ dfa' = dfa /\ scarce' = scarce /\ row' = row /\ mem_region' = mem_region
    BY <1>1 DEF Flags, Flagged, Bound, Collecting, given, stateVars
  <1>4. SUFFICES FlagsClosed(dfa, Flags, calls') /\ FlagsExact(dfa, Flags, "collect", row, scarce, min_set', calls')
    BY <1>1, <1>2, <1>3 DEF Collected
  <1>5. CASE EnterRow \/ SkipDistinguished
    <2>1. /\ Top.j < dfa.size /\ (Top.i < Top.j => ~ Same(dfa, Top.i, Top.j))
          /\ calls' = Bumped(calls) /\ min_set' = min_set
      <3>1. CASE EnterRow
        <4>1. Top.j = Top.i /\ calls' = Bumped(calls) /\ min_set' = min_set
          BY <3>1 DEF EnterRow, Bumped
        <4>2. ~ (Top.i < Top.j)
          BY <1>1, <4>1
        <4>3. Top.i < dfa.size
          BY <1>1, Bounds
        <4> QED
          BY <4>1, <4>2, <4>3
      <3>2. CASE SkipDistinguished
        <4>1. InRow /\ Top.j < Cols /\ merge[Top.i][Top.j] = 0 /\ calls' = Bumped(calls) /\ min_set' = min_set
          BY <3>2 DEF SkipDistinguished, Bumped
        <4> QED
          BY <1>1, <4>1, TakenFacts
      <3> QED
        BY <1>5, <3>1, <3>2
    <2>2. FlagsClosed(dfa, Flags, calls') /\ RowsOf(calls') = RowsOf(calls)
      BY <1>1, <1>2, <2>1, BumpedClosed
    <2> QED
      BY <1>1, <1>2, <2>1, <2>2 DEF FlagsExact
  <1>6. CASE TakeEquivalent
    <2> DEFINE c == Top.j
    <2>1. /\ InRow /\ c < Cols /\ merge[Top.i][c] # 0 /\ min_set' \in Inserted(min_set, c)
          /\ calls' = Append(Bumped(calls), [i |-> c, j |-> c])
      BY <1>6 DEF TakeEquivalent, Bumped
    <2>2. c \in StateOf(dfa) /\ Top.i \in StateOf(dfa) /\ Same(dfa, Top.i, c)
      BY <1>1, <2>1, TakenFacts
    <2> HIDE DEF c
    <2>3. FlagsClosed(dfa, Flags, calls') /\ RowsOf(calls') = RowsOf(calls) \cup {c}
      BY <1>1, <1>2, <2>1, <2>2, CalledClosed DEF c
    <2>4. Top.i \in RowsOf(calls)
      BY <1>1, RestFacts, FirstAndLast DEF RowsOf
    <2>5. Same(dfa, row, c)
      <3>1. Same(dfa, row, Top.i)
        BY <1>1, <1>2, <2>4 DEF FlagsExact
      <3> QED
        BY <1>1, <1>2, <2>2, <3>1, SameOnStates
    <2>6. min_set' \subseteq min_set \cup {c} /\ (~ scarce => min_set' = min_set \cup {c})
      BY <2>1 DEF Inserted, Lost
    <2> QED
      BY <1>1, <1>2, <2>3, <2>5, <2>6 DEF FlagsExact
  <1> QED
    BY <1>5, <1>6

\* A call of collect_equivalents() returns.
LEMMA ReturnCollected ==
  ASSUME Shape, Collected, ReachLastState \/ ReturnFromVisitedRow \/ MarkRowVisited
  PROVE  Collected'
  <1> DEFINE c == Top.i
             G == Flags \cup {c}
             B == Before(dfa, row)
  <1>1. /\ pc = "collect" /\ calls' = Rest(calls) /\ UNCHANGED <<given, row, min_set, stateVars>>
        /\ pc' = IF Len(calls) = 1 THEN "class" ELSE "collect"
    BY DEF ReachLastState, ReturnFromVisitedRow, MarkRowVisited, Return, Rest, InRow
  <1>2. /\ calls # <<>> /\ calls \in Seq(Frame(dfa)) /\ Top = calls[Len(calls)] /\ dfa \in DFAs
        /\ Len(calls) \in Nat \ {0} /\ calls[1].i = row /\ c \in StateOf(dfa) /\ row \in StateOf(dfa)
        /\ StateOf(dfa) = 0 .. Rows
    BY <1>1, Bounds, LastCall
  <1>3. /\ FlagsClosed(dfa, Flags, calls) /\ FlagsExact(dfa, Flags, pc, row, scarce, min_set, calls)
        /\ Region(dfa, mem_region, scarce, row)
    BY <1>1 DEF Collected, Bound, Collecting
  <1>4. Flags' = G /\ (c \in Flags \/ c = dfa.size - 1 \/ (c < Top.j /\ Top.j = dfa.size))
    BY ReturnFlags
  <1>5. Bound' = row /\ dfa' = dfa /\ scarce' = scarce /\ row' = row /\ mem_region' = mem_region
        /\ min_set' = min_set /\ pc' \in {"class", "collect"}
    BY <1>1 DEF Bound, Collecting, given, stateVars
  <1>6. Flags \subseteq StateOf(dfa) /\ min_set \subseteq StateOf(dfa)
    BY FlagsFacts DEF Shape, TypeOK
  <1>7. c \in RowsOf(calls)
    BY <1>2, FirstAndLast DEF RowsOf
  <1> HIDE DEF c
  <1>8. FlagsClosed(dfa, G, calls') /\ RowsOf(calls') \subseteq RowsOf(calls)
    BY <1>1, <1>2, <1>3, <1>4, <1>6, RestClosed DEF c
  <1>9. Region(dfa, mem_region, scarce, row)'
    BY <1>3, <1>5
  <1>10. Same(dfa, row, c) /\ (~ scarce => c \in min_set)
    BY <1>1, <1>3, <1>7 DEF FlagsExact
  <1>11. /\ B \subseteq G /\ (\A q \in G : q \in B \/ Same(dfa, row, q))
         /\ (\A q \in RowsOf(calls') : Same(dfa, row, q))
         /\ row \notin B /\ (\A q \in min_set : Same(dfa, row, q))
         /\ ~ scarce => row \in min_set /\ G \subseteq B \cup min_set /\ RowsOf(calls') \subseteq min_set
    BY <1>1, <1>3, <1>8, <1>10 DEF FlagsExact
  <1>12. CASE Len(calls) # 1
    <2>1. FlagsExact(dfa, G, "collect", row, scarce, min_set, calls')
      BY <1>11 DEF FlagsExact
    <2> QED
      BY <1>1, <1>4, <1>5, <1>8, <1>9, <1>12, <2>1 DEF Collected
  <1>13. CASE Len(calls) = 1
    <2>1. c = row
      BY <1>2, <1>13 DEF c
    <2>2. ASSUME NEW q \in StateOf(dfa), Same(dfa, row, q) PROVE q \in G
      <3>1. q < row => row \in B
        BY <1>2, <2>2, SameOnStates DEF Before
      <3>2. q = row \/ q < row \/ row < q
        BY <1>2, Bounds
      <3>3. row < q => q \in G
        BY <1>8, <2>1, <2>2 DEF FlagsClosed
      <3> QED
        BY <1>11, <2>1, <3>1, <3>2, <3>3
    <2>3. Before(dfa, row + 1) = B \cup {q \in StateOf(dfa) : Same(dfa, row, q)}
      BY <1>2, BeforeFacts
    <2>4. G = Before(dfa, row + 1)
      BY <1>2, <1>6, <1>11, <2>2, <2>3
    <2> HIDE DEF G, B
    <2>5. FlagsExact(dfa, G, "class", row, scarce, min_set, calls')
      BY <1>11, <2>4 DEF FlagsExact, B
    <2> QED
      BY <1>1, <1>4, <1>5, <1>8, <1>9, <1>13, <2>5 DEF Collected
  <1> QED
    BY <1>12, <1>13

\* What is collected for row r.
ClassOf(d, m, lacking, r) ==
  /\ m.states \subseteq StateOf(d) /\ \A q \in m.states : Same(d, r, q)
  /\ m.is_accept = (m.states \cap d.accepts # {})
  /\ ~ lacking => r \in m.states /\ \A q \in StateOf(d) : Same(d, r, q) => q \in m.states

\* A class is added to those of the rows below its first state.
LEMMA AddRegion ==
  ASSUME NEW d \in DFAs, NEW r \in StateOf(d), NEW lacking, NEW M, Region(d, M, lacking, r),
         r \notin Before(d, r), NEW m, ClassOf(d, m, lacking, r),
         NEW N, N = M \/ N = M \cup {m}, ~ lacking => N = M \cup {m}
  PROVE  Region(d, N, lacking, r + 1)
  <1> DEFINE S == m.states
             B == Before(d, r)
             C == Before(d, r + 1)
  <1>1. /\ S \subseteq StateOf(d) /\ (\A q \in S : Same(d, r, q))
        /\ m.is_accept = (S \cap d.accepts # {})
        /\ ~ lacking => r \in S /\ \A q \in StateOf(d) : Same(d, r, q) => q \in S
    BY DEF ClassOf
  <1>2. /\ C = B \cup {q \in StateOf(d) : Same(d, r, q)} /\ B \subseteq StateOf(d)
        /\ \A p \in B, q \in StateOf(d) : Same(d, p, q) => q \in B
    BY BeforeFacts
  <1>3. \A q \in S : q \notin B
    BY <1>1, <1>2, SameOnStates
  <1>4. \A p, q \in S : Same(d, p, q)
    BY <1>1, SameOnStates
  <1> HIDE DEF B, C, S
  <1>5. ASSUME NEW n \in N
        PROVE  /\ n.states \subseteq C /\ (\A p, q \in n.states : Same(d, p, q))
               /\ n.is_accept = (n.states \cap d.accepts # {})
    <2>1. CASE n \in M
      BY <1>2, <2>1 DEF Region, B
    <2>2. CASE n = m
      BY <1>1, <1>2, <1>4, <2>2 DEF S
    <2> QED
      BY <2>1, <2>2
  <1>6. ASSUME NEW n \in M PROVE n.states \cap m.states = {}
    BY <1>3 DEF Region, B, S
  <1>7. ASSUME NEW x \in N, NEW y \in N, x # y PROVE x.states \cap y.states = {}
    <2>1. CASE x \in M /\ y \in M
      BY <1>7, <2>1 DEF Region
    <2>2. CASE x \in M /\ y = m
      BY <1>6, <2>2
    <2>3. CASE x = m /\ y \in M
      BY <1>6, <2>3
    <2> QED
      BY <1>7, <2>1, <2>2, <2>3
  <1>8. ASSUME ~ lacking
        PROVE  /\ \A n \in N : n.states # {} /\ \A p \in n.states : \A q \in StateOf(d) :
                                 Same(d, p, q) => q \in n.states
               /\ \A q \in C : \E n \in N : q \in n.states
    <2>1. N = M \cup {m} /\ r \in S
      BY <1>1, <1>8
    <2>2. \A p \in S : \A q \in StateOf(d) : Same(d, p, q) => q \in S
      BY <1>1, <1>8, SameOnStates
    <2>3. ASSUME NEW n \in N
          PROVE  n.states # {} /\ \A p \in n.states : \A q \in StateOf(d) :
                                    Same(d, p, q) => q \in n.states
      <3>1. CASE n \in M
        BY <1>8, <3>1 DEF Region
      <3>2. CASE n = m
        BY <2>1, <2>2, <3>2 DEF S
      <3> QED
        BY <2>1, <3>1, <3>2
    <2>4. ASSUME NEW q \in C PROVE \E n \in N : q \in n.states
      <3>1. CASE q \in B
        BY <1>8, <2>1, <3>1 DEF Region, B
      <3>2. CASE q \notin B
        <4>1. q \in S
          BY <1>1, <1>2, <1>8, <3>2
        <4> QED
          BY <2>1, <4>1 DEF S
      <3> QED
        BY <3>1, <3>2
    <2> QED
      BY <2>3, <2>4
  <1>9. Region(d, N, lacking, r + 1)
    BY <1>5, <1>7, <1>8 DEF Region, C
  <1> QED
    BY <1>9

\* Two classes of which none is empty or shares a state begin differently.
LEMMA FirstFacts ==
  ASSUME NEW S \in SUBSET Nat, S # {}
  PROVE  First(S) \in S /\ \A n \in S : First(S) <= n
  BY MinFacts DEF First

LEMMA AddCollected ==
  ASSUME Shape, NEW r \in StateOf(dfa), NEW S \in SUBSET StateOf(dfa), AddMinimalState(S),
         Region(dfa, mem_region, scarce, r), state_index \in StateOf(dfa), r \notin Before(dfa, r),
         \A q \in S : Same(dfa, r, q),
         ~ scarce => r \in S /\ \A q \in StateOf(dfa) : Same(dfa, r, q) => q \in S
  PROVE  Region(dfa, mem_region', scarce, r + 1)
  <1> DEFINE m == [states |-> S, index |-> state_index, is_accept |-> S \cap dfa.accepts # {}]
  <1>1. /\ mem_region' \in {mem_region, mem_region \cup {m}}
        /\ ~ scarce /\ (\A n \in mem_region : First(n.states) # First(S))
             => mem_region' = mem_region \cup {m}
    BY AddFacts
  <1>2. dfa \in DFAs /\ StateOf(dfa) \subseteq Nat /\ Before(dfa, r) \subseteq StateOf(dfa)
        /\ \A p \in Before(dfa, r), q \in StateOf(dfa) : Same(dfa, p, q) => q \in Before(dfa, r)
    BY Bounds, DFAFacts, BeforeFacts
  <1>3. m.states = S /\ m.is_accept = (S \cap dfa.accepts # {})
    OBVIOUS
  <1> HIDE DEF m
  <1>4. ASSUME ~ scarce, NEW n \in mem_region PROVE First(n.states) # First(S)
    <2>1. n.states # {} /\ n.states \subseteq Before(dfa, r)
      BY <1>4 DEF Region
    <2>2. First(n.states) \in Before(dfa, r)
      BY <1>2, <2>1, FirstFacts
    <2>3. First(S) \in S
      BY <1>2, <1>4, FirstFacts
    <2> QED
      BY <1>2, <2>2, <2>3, SameOnStates
  <1>5. ~ scarce => mem_region' = mem_region \cup {m}
    BY <1>1, <1>4
  <1>6. ClassOf(dfa, m, scarce, r)
    BY <1>3 DEF ClassOf
  <1>7. mem_region' = mem_region \/ mem_region' = mem_region \cup {m}
    BY <1>1
  <1> QED
    BY <1>2, <1>5, <1>6, <1>7, AddRegion

LEMMA InitCollected == ASSUME Init PROVE Collected
  <1>1. /\ Shape /\ pc = "rows" /\ row = 0 /\ calls = <<>> /\ mem_region = {}
        /\ collected_last_state = FALSE /\ merge = ExactMerge(dfa) /\ dfa \in DFAs
    BY InitShape DEF Init
  <1>2. /\ StateOf(dfa) = 0 .. Rows /\ Rows \in Nat /\ 0 .. dfa.size - 2 = 0 .. Rows - 1
        /\ \A i \in 0 .. Rows - 1 : i + 1 \in StateOf(dfa)
    BY <1>1, Bounds
  <1>3. Before(dfa, 0) = {}
    BY <1>2 DEF Before
  <1>4. \A p \in 0 .. Rows - 1 : ~ IsVisited(p)
    <2>1. ASSUME NEW p \in 0 .. Rows - 1 PROVE merge[p][p + 1] # VISITED
      <3>1. merge[p][p + 1] \in {UNINIT, 0, 1}
        BY <1>1, <1>2 DEF ExactMerge
      <3> QED
        BY <3>1 DEF UNINIT, VISITED
    <2> QED
      BY <2>1 DEF IsVisited
  <1>5. Flags = {}
    <2>1. \A p \in StateOf(dfa) : p = Rows \/ p \in 0 .. Rows - 1
      BY <1>2
    <2> QED
      BY <1>1, <1>4, <2>1, FlagsFacts
  <1>6. FlagsClosed(dfa, Flags, calls)
    BY <1>1, <1>5 DEF FlagsClosed
  <1>7. FlagsExact(dfa, Flags, pc, row, scarce, min_set, calls)
    BY <1>1, <1>3, <1>5 DEF FlagsExact
  <1>8. Region(dfa, mem_region, scarce, Bound)
    BY <1>1, <1>3 DEF Region, Bound, Collecting
  <1> QED
    BY <1>6, <1>7, <1>8 DEF Collected

\* Outside of collect_equivalents() the flags stay what they are.
LEMMA FlagsStay ==
  ASSUME Shape, Collected, pc # "collect", calls' = <<>>,
         UNCHANGED <<given, merge, collected_last_state>>
  PROVE  /\ Flags' = Flags /\ dfa' = dfa /\ scarce' = scarce /\ FlagsClosed(dfa, Flags, calls')
         /\ FlagsClosed(dfa, Flags, calls')
         /\ FlagsClosed(dfa', Flags', calls')
  <1>1. Flags' = Flags /\ dfa' = dfa /\ scarce' = scarce
    BY DEF Flags, Flagged, given
  <1>2. calls = <<>>
    BY DEF Shape
  <1> QED
    BY <1>1, <1>2 DEF Collected

LEMMA SkipVisitedRowCollected == ASSUME Shape, Collected, SkipVisitedRow PROVE Collected'
  <1>1. /\ pc = "rows" /\ row < Rows /\ IsVisited(row) /\ row' = row + 1 /\ pc' = "rows"
        /\ calls' = calls /\ calls = <<>> /\ min_set' = min_set /\ mem_region' = mem_region
        /\ UNCHANGED <<given, merge, collected_last_state>>
    BY DEF SkipVisitedRow, stateVars, Shape
  <1>2. dfa \in DFAs /\ row \in StateOf(dfa) /\ row \in 0 .. Rows - 1
    BY <1>1, Bounds
  <1>3. Flags = Before(dfa, row) /\ Region(dfa, mem_region, scarce, row)
    BY <1>1 DEF Collected, FlagsExact, Bound, Collecting
  <1>4. Before(dfa, row + 1) = Before(dfa, row)
    BY <1>1, <1>2, <1>3, FlagsFacts, BeforeFacts
  <1>5. /\ Flags' = Flags /\ dfa' = dfa /\ scarce' = scarce /\ FlagsClosed(dfa', Flags', calls')
        /\ Bound' = row + 1
    BY <1>1, FlagsStay DEF Bound, Collecting
  <1>6. FlagsExact(dfa, Flags, "rows", row + 1, scarce, min_set, calls)
    BY <1>3, <1>4 DEF FlagsExact
  <1>7. Region(dfa, mem_region, scarce, row + 1)
    BY <1>3, <1>4 DEF Region
  <1> QED
    BY <1>1, <1>5, <1>6, <1>7 DEF Collected

LEMMA StartClassCollected == ASSUME Shape, Collected, StartClass PROVE Collected'
  <1> DEFINE x == [i |-> row, j |-> row]
  <1>1. /\ pc = "rows" /\ row < Rows /\ ~ IsVisited(row) /\ row' = row /\ pc' = "collect"
        /\ calls' = <<x>> /\ min_set' \in Inserted({}, row)
        /\ mem_region' = mem_region /\ UNCHANGED <<given, merge, collected_last_state>>
    BY DEF StartClass, stateVars
  <1>2. dfa \in DFAs /\ row \in StateOf(dfa) /\ row \in 0 .. Rows - 1 /\ StateOf(dfa) \subseteq Nat
    BY <1>1, Bounds, DFAFacts
  <1>3. /\ Flags = Before(dfa, row) /\ Region(dfa, mem_region, scarce, row)
        /\ FlagsClosed(dfa, Flags, calls)
    BY <1>1 DEF Collected, FlagsExact, Bound, Collecting
  <1>4. Flags' = Flags /\ dfa' = dfa /\ scarce' = scarce /\ Bound' = row
    BY <1>1 DEF Flags, Flagged, given, Bound, Collecting
  <1>5. Len(calls') = 1 /\ calls'[1].i = row /\ calls'[1].j = row
    BY <1>1
  <1>6. RowsOf(calls') = {row}
    BY <1>5 DEF RowsOf
  <1>7. FlagsClosed(dfa, Flags, calls')
    <2>1. \A q \in StateOf(dfa) : ~ (row < q /\ q < row)
      BY <1>2
    <2> QED
      BY <1>3, <1>5, <2>1 DEF FlagsClosed
  <1>8. min_set' \subseteq {row} /\ (~ scarce => min_set' = {row})
    BY <1>1 DEF Inserted, Lost
  <1>9. row \notin Flags /\ Same(dfa, row, row)
    BY <1>1, <1>2, FlagsFacts, SameReflexive
  <1>10. FlagsExact(dfa, Flags, "collect", row, scarce, min_set', calls')
    BY <1>3, <1>6, <1>8, <1>9 DEF FlagsExact
  <1> QED
    BY <1>1, <1>3, <1>4, <1>7, <1>10 DEF Collected

LEMMA AddClassCollected == ASSUME Shape, Collected, AddClass PROVE Collected'
  <1>1. /\ pc = "class" /\ AddMinimalState(min_set) /\ row' = row + 1 /\ pc' = "rows"
        /\ calls' = calls /\ calls = <<>> /\ min_set' = min_set
        /\ UNCHANGED <<given, merge, collected_last_state>> /\ row < Rows
        /\ min_set \in SUBSET StateOf(dfa) /\ state_index <= row /\ state_index \in 0 .. Cols
    BY DEF AddClass, Shape, TypeOK, Collecting
  <1>2. /\ dfa \in DFAs /\ row \in StateOf(dfa) /\ row \in 0 .. Rows - 1 /\ state_index \in StateOf(dfa)
    BY <1>1, Bounds
  <1>3. /\ Flags = Before(dfa, row + 1) /\ Region(dfa, mem_region, scarce, row)
        /\ row \notin Before(dfa, row) /\ (\A q \in min_set : Same(dfa, row, q))
        /\ ~ scarce => row \in min_set /\ Flags \subseteq Before(dfa, row) \cup min_set
    BY <1>1 DEF Collected, FlagsExact, Bound, Collecting
  <1>4. ~ scarce => row \in min_set /\ \A q \in StateOf(dfa) : Same(dfa, row, q) => q \in min_set
    BY <1>2, <1>3, BeforeFacts, SameOnStates
  <1>5. Region(dfa, mem_region', scarce, row + 1)
    BY <1>1, <1>2, <1>3, <1>4, AddCollected
  <1>6. /\ Flags' = Flags /\ dfa' = dfa /\ scarce' = scarce /\ FlagsClosed(dfa', Flags', calls')
        /\ Bound' = row + 1
    BY <1>1, FlagsStay DEF Bound, Collecting
  <1>7. FlagsExact(dfa, Flags, "rows", row + 1, scarce, min_set, calls)
    BY <1>3 DEF FlagsExact
  <1> QED
    BY <1>1, <1>5, <1>6, <1>7 DEF Collected

LEMMA LastStateStep == ASSUME Shape, Collected, AddLastState \/ LastStateCollected PROVE Collected'
  <1>1. /\ pc = "rows" /\ row = Rows /\ pc' = "allocate" /\ calls' = calls /\ calls = <<>>
        /\ UNCHANGED <<given, merge, collected_last_state>>
        /\ state_index <= row /\ state_index \in 0 .. Cols
    BY DEF AddLastState, LastStateCollected, Shape, TypeOK, Collecting
  <1>2. /\ dfa \in DFAs /\ Rows \in StateOf(dfa) /\ state_index \in StateOf(dfa)
        /\ Rows + 1 = Cols /\ StateOf(dfa) = 0 .. Rows /\ Rows \in Nat
    BY <1>1, Bounds
  <1>3. /\ Flags = Before(dfa, Rows) /\ Region(dfa, mem_region, scarce, Rows)
    BY <1>1 DEF Collected, FlagsExact, Bound, Collecting
  <1>4. /\ Flags' = Flags /\ dfa' = dfa /\ scarce' = scarce /\ FlagsClosed(dfa', Flags', calls')
        /\ Bound' = Cols
    BY <1>1, FlagsStay DEF Bound, Collecting, given, Cols
  <1>5. FlagsExact(dfa, Flags, "allocate", Rows, scarce, min_set', calls)
    BY DEF FlagsExact
  <1>6. CASE LastStateCollected
    <2>1. Rows \in Before(dfa, Rows) /\ mem_region' = mem_region
      BY <1>3, <1>6, FlagsFacts DEF LastStateCollected, stateVars
    <2>2. Before(dfa, Rows + 1) = Before(dfa, Rows)
      BY <1>2, <2>1, BeforeFacts
    <2>3. Region(dfa, mem_region, scarce, Cols)
      BY <1>2, <1>3, <2>2 DEF Region
    <2>4. row' = Rows
      BY <1>1, <1>6 DEF LastStateCollected
    <2> QED
      BY <1>1, <1>4, <1>5, <2>1, <2>3, <2>4 DEF Collected
  <1>7. CASE AddLastState
    <2>1. ~ collected_last_state /\ min_set' \in Inserted({}, Rows) /\ AddMinimalState(min_set') /\ row' = Rows
      BY <1>1, <1>7 DEF AddLastState
    <2>2. Rows \notin Before(dfa, Rows)
      BY <1>3, <2>1, FlagsFacts
    <2>3. min_set' \subseteq {Rows} /\ (~ scarce => min_set' = {Rows})
      BY <2>1 DEF Inserted, Lost
    <2>4. \A q \in StateOf(dfa) : Same(dfa, Rows, q) => q = Rows
      <3>1. ASSUME NEW q \in StateOf(dfa), Same(dfa, Rows, q), q # Rows PROVE FALSE
        <4>1. q < Rows /\ Same(dfa, q, Rows)
          BY <1>2, <3>1, SameOnStates
        <4> QED
          BY <1>2, <2>2, <4>1 DEF Before
      <3> QED
        BY <3>1
    <2>5. min_set' \in SUBSET StateOf(dfa) /\ \A q \in min_set' : Same(dfa, Rows, q)
      BY <1>2, <2>3, SameReflexive
    <2>6. ~ scarce => Rows \in min_set' /\ \A q \in StateOf(dfa) : Same(dfa, Rows, q) => q \in min_set'
      BY <2>3, <2>4
    <2>7. Region(dfa, mem_region', scarce, Cols)
      BY <1>2, <1>3, <2>1, <2>2, <2>5, <2>6, AddCollected
    <2> QED
      BY <1>1, <1>4, <1>5, <2>1, <2>7 DEF Collected
  <1> QED
    BY <1>6, <1>7

LEMMA TableStepCollected ==
  ASSUME Shape, Collected, AllocateTable \/ FillRow \/ Finish \/ ReturnNull \/ UseMissing
  PROVE  Collected'
  <1>1. /\ pc # "collect" /\ calls' = calls /\ calls = <<>> /\ min_set' = min_set /\ row' = row
        /\ UNCHANGED <<given, merge, collected_last_state, mem_region>>
        /\ pc' \in {"fill", "done", "failed", "undefined"}
    BY DEF AllocateTable, FillRow, Finish, ReturnNull, UseMissing, tableVars, stateVars, Shape
  <1>2. /\ Flags' = Flags /\ dfa' = dfa /\ scarce' = scarce /\ FlagsClosed(dfa', Flags', calls')
        /\ Bound' = Cols /\ mem_region' = mem_region
    BY <1>1, FlagsStay DEF Bound, Collecting, given, Cols
  <1>3. FlagsExact(dfa, Flags, pc', row, scarce, min_set, calls)
    BY <1>1 DEF FlagsExact
  <1>4. Region(dfa, mem_region, scarce, Bound) /\ row \in StateOf(dfa) /\ dfa \in DFAs
        /\ Cols = dfa.size
    BY Bounds DEF Collected
  <1>5. Region(dfa, mem_region, scarce, Cols)
    <2>1. CASE ~ Collecting
      BY <1>4, <2>1 DEF Bound
    <2>2. CASE Collecting /\ scarce
      <3>1. Before(dfa, row) \subseteq Before(dfa, Cols)
        BY <1>4, BeforeFacts
      <3> QED
        BY <1>4, <2>2, <3>1 DEF Region, Bound
    <2>3. CASE Collecting /\ ~ scarce
      <3>1. UseMissing /\ pc \in {"rows", "class"}
        BY <2>3 DEF AllocateTable, FillRow, Finish, ReturnNull, UseMissing, Collecting
      <3>2. \A m \in mem_region : m.states # {}
        BY <1>4, <2>3 DEF Region
      <3>3. ASSUME NEW S, S # {} PROVE Comparable(S)
        BY <3>2, <3>3 DEF Comparable, Classes
      <3>4. pc = "class" => min_set # {}
        BY <2>3 DEF Collected, FlagsExact
      <3>5. \A S \in Inserted({}, Rows) : S # {}
        BY <2>3 DEF Inserted, Lost
      <3> QED
        BY <3>1, <3>3, <3>4, <3>5 DEF UseMissing
    <2> QED
      BY <2>1, <2>2, <2>3
  <1> QED
    BY <1>1, <1>2, <1>3, <1>5 DEF Collected

LEMMA CollectedStep == ASSUME Shape, Collected, [Next]_vars PROVE Collected'
  <1>1. CASE UNCHANGED vars
    <2>1. UNCHANGED <<dfa, scarce, merge, collected_last_state, row, min_set, calls, mem_region, pc>>
      BY <1>1 DEF vars, given, stateVars
    <2> QED
      BY <2>1 DEF Collected, Flags, Flagged, Bound, Collecting, Cols
  <1>2. CASE Stopped
    BY <1>1, <1>2 DEF Stopped
  <1> QED
    BY <1>1, <1>2, SkipVisitedRowCollected, StartClassCollected, ReturnCollected,
       CollectStepCollected, AddClassCollected, LastStateStep, TableStepCollected DEF Next

LEMMA CollectedHolds == Spec => [](Shape /\ Collected)
  <1>1. Init => Shape /\ Collected
    BY InitShape, InitCollected
  <1>2. (Shape /\ Collected) /\ [Next]_vars => (Shape /\ Collected)'
    BY ShapeStep, CollectedStep
  <1> QED
    BY <1>1, <1>2, PTL DEF Spec

\* No state is collected into two classes, however many insertions fail for
\* want of memory, so that compare_minimal_sets() may compare only the heads.
THEOREM ClassesDisjointHolds == Spec => []ClassesDisjoint
  <1>1. Shape /\ Collected => ClassesDisjoint
    BY DEF Collected, Region, ClassesDisjoint
  <1> QED
    BY <1>1, CollectedHolds, PTL

\* While construct_minimal_states() looks for the next row, the rows that are
\* flagged, and the last state if its own flag is set, are those collected.
THEOREM CollectedIffFlaggedHolds == Spec => []CollectedIffFlagged
  <1>1. ASSUME Shape, Collected, pc = "rows", ~ scarce
        PROVE  /\ \A p \in 0 .. Rows - 1 : IsVisited(p) <=> p \in UNION Classes
               /\ collected_last_state <=> Rows \in UNION Classes
    <2>1. Flags = Before(dfa, row) /\ Region(dfa, mem_region, scarce, row)
      BY <1>1 DEF Collected, FlagsExact, Bound, Collecting
    <2>2. UNION Classes = Before(dfa, row)
      BY <1>1, <2>1 DEF Region, Classes
    <2> QED
      BY <1>1, <2>1, <2>2, FlagsFacts
  <1>2. Shape /\ Collected => CollectedIffFlagged
    BY <1>1 DEF CollectedIffFlagged
  <1> QED
    BY <1>2, CollectedHolds, PTL

\* With enough memory every class is all the states that no suffix separates
\* from one of them.
THEOREM ClassesAreWholeHolds == Spec => []ClassesAreWhole
  <1>1. ASSUME Shape, Collected, ~ scarce, NEW m \in mem_region, NEW p \in m.states
        PROVE  m.states = {q \in StateOf(dfa) : Same(dfa, p, q)}
    <2>1. Region(dfa, mem_region, scarce, Bound) /\ m.states \subseteq StateOf(dfa)
      BY <1>1 DEF Collected, Shape, TypeOK, MinimalState
    <2> QED
      BY <1>1, <2>1 DEF Region
  <1>2. Shape /\ Collected => ClassesAreWhole
    BY <1>1 DEF ClassesAreWhole, Same
  <1> QED
    BY <1>2, CollectedHolds, PTL

-----------------------------------------------------------------------------
(* Layer 3: the minimal states are numbered and tabulated.                 *)

\* The classes M are numbered from 0, that of the start state first; A is the
\* set of the numbers of those that accept.
Numbering(M, n, A) ==
  /\ IsFiniteSet(M) /\ Cardinality(M) = n
  /\ {m.index : m \in M} = 0 .. n - 1
  /\ \A k, m \in M : k.index = m.index => k = m
  /\ A = {m.index : m \in {k \in M : k.is_accept}}
  /\ \A m \in M : 0 \in m.states => m.index = 0

AtFirst == Collecting /\ row = 0

Numbered ==
  ~ scarce /\ pc \notin {"failed", "undefined"} =>
    /\ Numbering(mem_region, state_index, accepts)
    /\ AtFirst => state_index = 0
    /\ ~ AtFirst => start = 0

LEMMA AddNumbering ==
  ASSUME NEW M, NEW n \in Nat, NEW A, Numbering(M, n, A),
         NEW m, m \notin M, m.index = n, 0 \in m.states => n = 0,
         NEW B, B = IF m.is_accept THEN A \cup {n} ELSE A
  PROVE  Numbering(M \cup {m}, n + 1, B)
  <1> DEFINE N == M \cup {m}
  <1>1. /\ IsFiniteSet(M) /\ Cardinality(M) = n /\ {k.index : k \in M} = 0 .. n - 1
        /\ A = {k.index : k \in {x \in M : x.is_accept}}
        /\ \A k, x \in M : k.index = x.index => k = x
        /\ \A k \in M : 0 \in k.states => k.index = 0
    BY DEF Numbering
  <1>2. IsFiniteSet(N) /\ Cardinality(N) = n + 1
    BY <1>1, FS_AddElement
  <1>3. \A k \in M : k.index # n
    BY <1>1
  <1>4. {k.index : k \in N} = 0 .. n + 1 - 1
    <2>1. {k.index : k \in N} = {k.index : k \in M} \cup {n}
      OBVIOUS
    <2>2. 0 .. n + 1 - 1 = 0 .. n - 1 \cup {n}
      OBVIOUS
    <2> QED
      BY <1>1, <2>1, <2>2
  <1>5. \A k, x \in N : k.index = x.index => k = x
    BY <1>1, <1>3
  <1>6. B = {k.index : k \in {x \in N : x.is_accept}}
    <2>1. CASE m.is_accept
      <3>1. {x \in N : x.is_accept} = {x \in M : x.is_accept} \cup {m}
        BY <2>1
      <3> QED
        BY <1>1, <2>1, <3>1
    <2>2. CASE ~ m.is_accept
      <3>1. {x \in N : x.is_accept} = {x \in M : x.is_accept}
        BY <2>2
      <3> QED
        BY <1>1, <2>2, <3>1
    <2> QED
      BY <2>1, <2>2
  <1>7. \A k \in N : 0 \in k.states => k.index = 0
    BY <1>1
  <1> QED
    BY <1>2, <1>4, <1>5, <1>6, <1>7 DEF Numbering

\* A class that is added gets the next number.
LEMMA AddNumbered ==
  ASSUME Shape, NEW r \in StateOf(dfa), NEW S \in SUBSET StateOf(dfa), AddMinimalState(S),
         Region(dfa, mem_region, scarce, r), state_index \in StateOf(dfa), r \notin Before(dfa, r),
         \A q \in S : Same(dfa, r, q),
         ~ scarce => r \in S /\ \A q \in StateOf(dfa) : Same(dfa, r, q) => q \in S,
         ~ scarce, Numbering(mem_region, state_index, accepts), r = 0 => state_index = 0
  PROVE  Numbering(mem_region', state_index', accepts')
  <1> DEFINE m == [states |-> S, index |-> state_index, is_accept |-> S \cap dfa.accepts # {}]
  <1>1. /\ (\A n \in mem_region : First(n.states) # First(S)) => mem_region' = mem_region \cup {m}
        /\ state_index' = state_index + 1
        /\ accepts' = IF m.is_accept THEN accepts \cup {state_index} ELSE accepts
    BY AddFacts
  <1>2. /\ dfa \in DFAs /\ StateOf(dfa) \subseteq Nat /\ Before(dfa, r) \subseteq StateOf(dfa)
        /\ StateOf(dfa) = 0 .. Rows /\ Rows \in Nat
        /\ \A p \in Before(dfa, r), q \in StateOf(dfa) : Same(dfa, p, q) => q \in Before(dfa, r)
    BY Bounds, DFAFacts, BeforeFacts
  <1>3. m.states = S /\ m.index = state_index
    OBVIOUS
  <1> HIDE DEF m
  <1>4. ASSUME NEW n \in mem_region PROVE First(n.states) # First(S)
    <2>1. n.states # {} /\ n.states \subseteq Before(dfa, r)
      BY DEF Region
    <2>2. First(n.states) \in Before(dfa, r)
      BY <1>2, <2>1, FirstFacts
    <2>3. First(S) \in S
      BY <1>2, FirstFacts
    <2> QED
      BY <1>2, <2>2, <2>3, SameOnStates
  <1>5. mem_region' = mem_region \cup {m} /\ m \notin mem_region
    BY <1>1, <1>3, <1>4
  <1>6. 0 \in m.states => state_index = 0
    <2>1. ASSUME 0 \in S, r # 0 PROVE FALSE
      <3>1. 0 \in StateOf(dfa) /\ 0 < r
        BY <1>2, <2>1
      <3>2. 0 \in Before(dfa, r)
        BY <3>1, SameReflexive DEF Before
      <3> QED
        BY <1>2, <2>1, <3>1, <3>2, SameOnStates
    <2> QED
      BY <1>3, <2>1
  <1>7. state_index \in Nat
    BY <1>2
  <1> QED
    BY <1>1, <1>3, <1>5, <1>6, <1>7, AddNumbering

LEMMA InitNumbered == ASSUME Init PROVE Numbered
  <1>1. mem_region = {} /\ state_index = 0 /\ accepts = {} /\ AtFirst
    BY DEF Init, AtFirst, Collecting
  <1>2. Numbering({}, 0, {})
    BY FS_EmptySet DEF Numbering
  <1> QED
    BY <1>1, <1>2 DEF Numbered

LEMMA NumberedStep == ASSUME Shape, Collected, Numbered, [Next]_vars PROVE Numbered'
  <1> SUFFICES ASSUME ~ scarce, pc' \notin {"failed", "undefined"}
               PROVE  /\ Numbering(mem_region', state_index', accepts')
                      /\ AtFirst' => state_index' = 0
                      /\ ~ AtFirst' => start' = 0
    <2>1. scarce' = scarce
      BY DEF Next, vars, given, SkipVisitedRow, StartClass, ReachLastState, ReturnFromVisitedRow,
         EnterRow, SkipDistinguished, TakeEquivalent, MarkRowVisited, Return, AddClass, AddLastState,
         LastStateCollected, AllocateTable, FillRow, Finish, ReturnNull, UseMissing, Stopped
    <2> QED
      BY <2>1 DEF Numbered
  <1> DEFINE Idle == pc \notin {"failed", "undefined"} /\ UNCHANGED stateVars /\ AtFirst' = AtFirst
  <1>1. CASE Idle
    BY <1>1 DEF Numbered, stateVars
  <1>2. CASE UNCHANGED vars \/ Stopped
    <2>1. pc' = pc /\ UNCHANGED stateVars /\ row' = row
      BY <1>2 DEF Stopped, vars, stateVars
    <2> QED
      BY <1>1, <2>1 DEF AtFirst, Collecting
  <1>3. CASE \/ ReachLastState \/ ReturnFromVisitedRow \/ EnterRow \/ SkipDistinguished
             \/ TakeEquivalent \/ MarkRowVisited \/ StartClass
    <2>1. /\ pc \in {"rows", "collect"} /\ pc' \in {"collect", "class"} /\ UNCHANGED stateVars
          /\ row' = row
      BY <1>3 DEF ReachLastState, ReturnFromVisitedRow, EnterRow, SkipDistinguished,
         TakeEquivalent, MarkRowVisited, Return, StartClass, InRow
    <2> QED
      BY <1>1, <2>1 DEF AtFirst, Collecting
  <1>4. CASE AllocateTable \/ FillRow \/ Finish
    <2>1. pc \in {"allocate", "fill"} /\ pc' \in {"fill", "done"} /\ UNCHANGED stateVars
      BY <1>4 DEF AllocateTable, FillRow, Finish
    <2> QED
      BY <1>1, <2>1 DEF AtFirst, Collecting
  <1>5. CASE ReturnNull \/ UseMissing
    BY <1>5 DEF ReturnNull, UseMissing
  <1>6. /\ dfa \in DFAs /\ row \in 0 .. Rows /\ Rows \in Nat /\ Rows >= 1 /\ StateOf(dfa) = 0 .. Rows
        /\ Rows \in StateOf(dfa) /\ row \in StateOf(dfa)
    BY Bounds
  <1>7. ASSUME Collecting
        PROVE  /\ Numbering(mem_region, state_index, accepts) /\ (row = 0 => state_index = 0)
               /\ (row # 0 => start = 0) /\ Region(dfa, mem_region, scarce, row)
               /\ state_index \in StateOf(dfa)
    <2>1. state_index <= row /\ state_index \in 0 .. Cols
      BY <1>7 DEF Shape, TypeOK
    <2>2. state_index \in StateOf(dfa)
      BY <1>6, <2>1
    <2> QED
      BY <1>7, <2>2 DEF Numbered, AtFirst, Collecting, Collected, Bound
  <1>8. CASE SkipVisitedRow
    <2>1. /\ pc = "rows" /\ row < Rows /\ IsVisited(row) /\ row' = row + 1 /\ UNCHANGED stateVars
      BY <1>8 DEF SkipVisitedRow
    <2>2. row # 0
      <3>1. Flags = Before(dfa, row) /\ row \in 0 .. Rows - 1
        BY <1>6, <2>1 DEF Collected, FlagsExact
      <3>2. row \in Before(dfa, row)
        BY <2>1, <3>1, FlagsFacts
      <3>3. \A p \in StateOf(dfa) : ~ (p < 0)
        BY <1>6
      <3> QED
        BY <3>2, <3>3 DEF Before
    <2>3. row' # 0
      BY <1>6, <2>1
    <2> QED
      BY <1>7, <2>1, <2>2, <2>3 DEF AtFirst, stateVars, Collecting
  <1>9. CASE AddClass
    <2>1. /\ pc = "class" /\ AddMinimalState(min_set) /\ row' = row + 1 /\ Collecting
          /\ start' = IF row = 0 THEN state_index ELSE start
      BY <1>9 DEF AddClass, Collecting
    <2>2. /\ Flags = Before(dfa, row + 1) /\ row \notin Before(dfa, row)
          /\ (\A q \in min_set : Same(dfa, row, q)) /\ min_set \in SUBSET StateOf(dfa)
          /\ row \in min_set /\ Flags \subseteq Before(dfa, row) \cup min_set
      BY <2>1 DEF Collected, FlagsExact, Shape, TypeOK
    <2>3. \A q \in StateOf(dfa) : Same(dfa, row, q) => q \in min_set
      BY <1>6, <2>2, BeforeFacts, SameOnStates
    <2>4. Numbering(mem_region', state_index', accepts')
      BY <1>6, <1>7, <2>1, <2>2, <2>3, AddNumbered
    <2>5. row' # 0
      BY <1>6, <2>1
    <2> QED
      BY <1>7, <2>1, <2>4, <2>5 DEF AtFirst
  <1>10. CASE AddLastState
    <2>1. /\ pc = "rows" /\ row = Rows /\ ~ collected_last_state /\ min_set' \in Inserted({}, Rows)
          /\ AddMinimalState(min_set') /\ start' = start /\ pc' = "allocate" /\ Collecting
      BY <1>10 DEF AddLastState, Collecting
    <2>2. Rows \notin Before(dfa, Rows)
      BY <2>1, FlagsFacts DEF Collected, FlagsExact
    <2>3. min_set' = {Rows}
      BY <2>1 DEF Inserted, Lost
    <2>4. \A q \in StateOf(dfa) : Same(dfa, Rows, q) => q = Rows
      <3>1. ASSUME NEW q \in StateOf(dfa), Same(dfa, Rows, q), q # Rows PROVE FALSE
        <4>1. q < Rows /\ Same(dfa, q, Rows)
          BY <1>6, <3>1, SameOnStates
        <4> QED
          BY <1>6, <2>2, <4>1 DEF Before
      <3> QED
        BY <3>1
    <2>5. min_set' \in SUBSET StateOf(dfa) /\ (\A q \in min_set' : Same(dfa, Rows, q))
          /\ Rows \in min_set' /\ \A q \in StateOf(dfa) : Same(dfa, Rows, q) => q \in min_set'
      BY <1>6, <2>3, <2>4, SameReflexive
    <2>6. Rows # 0
      BY <1>6
    <2>7. Numbering(mem_region', state_index', accepts')
      BY <1>6, <1>7, <2>1, <2>2, <2>5, <2>6, AddNumbered
    <2> QED
      BY <1>7, <2>1, <2>6, <2>7 DEF AtFirst, Collecting
  <1>11. CASE LastStateCollected
    <2>1. /\ pc = "rows" /\ row = Rows /\ pc' = "allocate" /\ UNCHANGED stateVars
      BY <1>11 DEF LastStateCollected
    <2>2. row # 0
      BY <1>6, <2>1
    <2> QED
      BY <1>7, <2>1, <2>2 DEF AtFirst, Collecting, stateVars
  <1> QED
    BY <1>2, <1>3, <1>4, <1>5, <1>8, <1>9, <1>10, <1>11 DEF Next

-----------------------------------------------------------------------------
(* The transition table.                                                   *)

ClassAt(M, p) == CHOOSE m \in M : p \in m.states

\* Where the first state of class m goes on c, as the index of a class.
GoesTo(d, M, m, c, j) ==
  LET t == Out(d, First(m.states), c) IN t # DEAD_STATE /\ ClassAt(M, t).index = j

RowOf(d, M, n, m) ==
  [j \in 0 .. n - 1 |-> {c \in SymbolOf(d) : GoesTo(d, M, m, c, j)}]

TableOf(d, n) == [0 .. n - 1 -> [0 .. n - 1 -> SUBSET SymbolOf(d)]]

Tabled ==
  ~ scarce =>
    /\ pc \in {"allocate", "fill", "done"} => size = state_index
    /\ pc \in {"fill", "done"} =>
         /\ delta \in TableOf(dfa, size)
         /\ \A m \in mem_region \ todo : delta[m.index] = RowOf(dfa, mem_region, size, m)
    /\ pc = "done" => todo = {}

\* The class that is filled next is one of those left.
LEMMA FirstOfFacts ==
  ASSUME NEW M, M # {}, \A m \in M : First(m.states) \in Nat
  PROVE  FirstOf(M) \in M
  <1> DEFINE T == {First(m.states) : m \in M}
  <1>1. PICK n \in T : \A k \in T : n <= k
    BY LeastNumber
  <1>2. PICK m \in M : n = First(m.states)
    OBVIOUS
  <1>3. \A k \in M : First(m.states) <= First(k.states)
    BY <1>1, <1>2
  <1> QED
    BY <1>3 DEF FirstOf

\* Every state of the DFA is in exactly one class.
LEMMA ClassFacts ==
  ASSUME Shape, Collected, ~ scarce, ~ Collecting, NEW p \in StateOf(dfa)
  PROVE  \E m \in mem_region : /\ p \in m.states /\ \A k \in mem_region : p \in k.states => k = m
                               /\ ClassAt(mem_region, p) = m /\ IndexOf(p) = m.index
                               /\ Holders(p) = {m} /\ FirstOf(Holders(p)) = m
  <1>1. Region(dfa, mem_region, scarce, Cols) /\ dfa \in DFAs /\ StateOf(dfa) \subseteq Nat
        /\ Cols = dfa.size /\ StateOf(dfa) = 0 .. Rows /\ Cols = Rows + 1 /\ Rows \in Nat
    BY Bounds, DFAFacts DEF Collected, Bound
  <1>2. p \in Before(dfa, Cols) /\ p # DEAD_STATE
    <2>1. p < Cols /\ p # -1
      BY <1>1
    <2> QED
      BY <2>1, SameReflexive DEF Before, DEAD_STATE
  <1>3. PICK m \in mem_region : p \in m.states
    BY <1>1, <1>2 DEF Region
  <1>4. \A k \in mem_region : p \in k.states => k = m
    BY <1>1, <1>3 DEF Region
  <1>5. ClassAt(mem_region, p) = m
    BY <1>3, <1>4 DEF ClassAt
  <1>6. Holders(p) = {m}
    BY <1>3, <1>4 DEF Holders
  <1>7. m.states # {} /\ m.states \subseteq StateOf(dfa)
    BY <1>3 DEF Shape, TypeOK, MinimalState
  <1>8. First(m.states) \in Nat
    BY <1>1, <1>7, FirstFacts
  <1>9. FirstOf({m}) = m
    BY <1>8, FirstOfFacts
  <1> QED
    BY <1>2, <1>3, <1>4, <1>5, <1>6, <1>9 DEF IndexOf, ClassAt

LEMMA ClassOfMinimalState ==
  ASSUME Shape, Collected, ~ scarce, NEW m \in mem_region
  PROVE  /\ m.states # {} /\ m.states \subseteq StateOf(dfa) /\ First(m.states) \in m.states
         /\ First(m.states) \in StateOf(dfa) /\ First(m.states) \in Nat
         /\ \A c \in SymbolOf(dfa) : Target(m, c) \in NodeOf(dfa)
         /\ m.is_accept = (m.states \cap dfa.accepts # {})
         /\ \A p, q \in m.states : Same(dfa, p, q)
         /\ \A p \in m.states, q \in StateOf(dfa) : Same(dfa, p, q) => q \in m.states
  <1>1. /\ m.states # {} /\ m.states \subseteq StateOf(dfa)
        /\ m.is_accept = (m.states \cap dfa.accepts # {})
        /\ \A p, q \in m.states : Same(dfa, p, q)
        /\ \A p \in m.states, q \in StateOf(dfa) : Same(dfa, p, q) => q \in m.states
    BY DEF Collected, Region, Shape, TypeOK, MinimalState
  <1>2. dfa \in DFAs /\ StateOf(dfa) \subseteq Nat /\ StateOf(dfa) \subseteq NodeOf(dfa)
        /\ \A p \in NodeOf(dfa), c \in SymbolOf(dfa) : Out(dfa, p, c) \in NodeOf(dfa)
    BY Bounds, DFAFacts
  <1>3. First(m.states) \in m.states
    BY <1>1, <1>2, FirstFacts
  <1> QED
    BY <1>1, <1>2, <1>3 DEF Target

LEMMA FillRowTabled == ASSUME Shape, Collected, Numbered, Tabled, FillRow PROVE Tabled'
  <1> SUFFICES ASSUME ~ scarce PROVE Tabled'
    BY DEF FillRow, given, Tabled
  <1> DEFINE m == FirstOf(todo)
             r == [j \in 0 .. size - 1 |-> {c \in SymbolOf(dfa) :
                     Target(m, c) # DEAD_STATE /\ FirstOf(Holders(Target(m, c))).index = j}]
  <1>1. /\ pc = "fill" /\ pc' = "fill" /\ todo # {} /\ ~ Collecting
        /\ UNCHANGED <<given, mem_region, state_index, size>>
        /\ delta' = [delta EXCEPT ![m.index] = r] /\ todo' = todo \ {m}
    BY DEF FillRow, Collecting, stateVars
  <1>2. /\ size = state_index /\ delta \in TableOf(dfa, size)
        /\ (\A k \in mem_region \ todo : delta[k.index] = RowOf(dfa, mem_region, size, k))
        /\ Numbering(mem_region, state_index, accepts) /\ todo \subseteq mem_region
    BY <1>1 DEF Tabled, Numbered, Shape, TypeOK
  <1>3. m \in mem_region
    <2>1. \A k \in todo : First(k.states) \in Nat
      BY <1>2, ClassOfMinimalState
    <2> QED
      BY <1>1, <1>2, <2>1, FirstOfFacts
  <1> HIDE DEF m
  <1>4. r = RowOf(dfa, mem_region, size, m)
    <2>1. ASSUME NEW c \in SymbolOf(dfa), Target(m, c) # DEAD_STATE
          PROVE  FirstOf(Holders(Target(m, c))) = ClassAt(mem_region, Target(m, c))
      <3>1. Target(m, c) \in StateOf(dfa)
        BY <1>3, <2>1, ClassOfMinimalState DEF NodeOf
      <3> QED
        BY <1>1, <3>1, ClassFacts
    <2>2. ASSUME NEW j \in 0 .. size - 1, NEW c \in SymbolOf(dfa)
          PROVE  (Target(m, c) # DEAD_STATE /\ FirstOf(Holders(Target(m, c))).index = j)
                   <=> GoesTo(dfa, mem_region, m, c, j)
      BY <2>1 DEF GoesTo, Target
    <2> QED
      BY <2>2 DEF RowOf
  <1>5. m.index \in 0 .. size - 1 /\ \A k \in mem_region : k.index = m.index => k = m
    BY <1>2, <1>3 DEF Numbering
  <1>6. r \in [0 .. size - 1 -> SUBSET SymbolOf(dfa)]
    OBVIOUS
  <1> HIDE DEF r
  <1>7. delta' \in TableOf(dfa, size)
    BY <1>1, <1>2, <1>5, <1>6 DEF TableOf
  <1>8. ASSUME NEW k \in mem_region \ todo' PROVE delta'[k.index] = RowOf(dfa, mem_region, size, k)
    <2>1. k.index \in 0 .. size - 1
      BY <1>2 DEF Numbering
    <2>2. DOMAIN delta = 0 .. size - 1
      BY <1>2 DEF TableOf
    <2>3. CASE k = m
      BY <1>1, <1>4, <2>1, <2>2, <2>3
    <2>4. CASE k # m
      <3>1. k \in mem_region \ todo /\ k.index # m.index
        BY <1>1, <1>5, <2>4
      <3> QED
        BY <1>1, <1>2, <2>1, <2>2, <3>1
    <2> QED
      BY <2>3, <2>4
  <1>9. dfa' = dfa /\ mem_region' = mem_region /\ size' = size /\ state_index' = state_index
    BY <1>1 DEF given
  <1> QED
    BY <1>1, <1>2, <1>7, <1>8, <1>9 DEF Tabled

LEMMA TabledStep ==
  ASSUME Shape, Collected, Numbered, Numbered', Tabled, [Next]_vars PROVE Tabled'
  <1>1. CASE UNCHANGED vars \/ Stopped
    <2>1. UNCHANGED <<dfa, scarce, pc, size, state_index, delta, mem_region, todo>>
      BY <1>1 DEF Stopped, vars, given, stateVars, tableVars
    <2> QED
      BY <2>1 DEF Tabled
  <1>2. CASE \/ ReachLastState \/ ReturnFromVisitedRow \/ EnterRow \/ SkipDistinguished
             \/ TakeEquivalent \/ MarkRowVisited \/ StartClass \/ SkipVisitedRow \/ AddClass
             \/ ReturnNull \/ UseMissing
    <2>1. pc' \notin {"allocate", "fill", "done"}
      BY <1>2 DEF ReachLastState, ReturnFromVisitedRow, EnterRow, SkipDistinguished,
         TakeEquivalent, MarkRowVisited, Return, StartClass, SkipVisitedRow, AddClass,
         ReturnNull, UseMissing, InRow
    <2> QED
      BY <2>1 DEF Tabled
  <1>3. CASE AddLastState \/ LastStateCollected
    <2>1. /\ pc' = "allocate" /\ size' = Cardinality(mem_region') /\ scarce' = scarce
      BY <1>3 DEF AddLastState, LastStateCollected, given, stateVars
    <2> QED
      BY <2>1 DEF Tabled, Numbered, Numbering
  <1>4. CASE AllocateTable
    <2> SUFFICES ASSUME ~ scarce PROVE Tabled'
      BY <1>4 DEF AllocateTable, given, Tabled
    <2>1. /\ pc = "allocate" /\ pc' = "fill" /\ todo' = mem_region
          /\ UNCHANGED <<dfa, size, mem_region, state_index>>
          /\ delta' = [i \in 0 .. size - 1 |-> [j \in 0 .. size - 1 |-> {}]]
      BY <1>4 DEF AllocateTable, given, stateVars
    <2>2. delta' \in TableOf(dfa, size) /\ size = state_index
      BY <2>1 DEF TableOf, Tabled
    <2> QED
      BY <2>1, <2>2 DEF Tabled
  <1>5. CASE Finish
    <2>1. /\ pc = "fill" /\ pc' = "done" /\ todo = {}
          /\ UNCHANGED <<dfa, scarce, size, state_index, delta, mem_region, todo>>
      BY <1>5 DEF Finish, given, stateVars, tableVars
    <2> QED
      BY <2>1 DEF Tabled
  <1> QED
    BY <1>1, <1>2, <1>3, <1>4, <1>5, FillRowTabled DEF Next

Built == Shape /\ Collected /\ Numbered /\ Tabled

LEMMA BuiltHolds == Spec => []Built
  <1>1. Init => Built
    BY InitShape, InitCollected, InitNumbered DEF Init, Built, Tabled
  <1>2. Built /\ [Next]_vars => Built'
    BY ShapeStep, CollectedStep, NumberedStep, TabledStep DEF Built
  <1> QED
    BY <1>1, <1>2, PTL DEF Spec

-----------------------------------------------------------------------------
(* The minimal DFA.                                                        *)

\* A state from which some word is accepted is not inseparable from the dead one.
LEMMA LiveStates ==
  ASSUME NEW d \in DFAs, NEW p \in StateOf(d)
  PROVE  ~ Same(d, DEAD_STATE, p) /\ ~ Same(d, p, DEAD_STATE)
  <1> DEFINE T == {q \in StateOf(d) : Same(d, DEAD_STATE, q)}
  <1>1. /\ IsTrim(d) /\ DEAD_STATE \in NodeOf(d) /\ StateOf(d) \subseteq NodeOf(d)
        /\ d.accepts \subseteq StateOf(d) /\ DEAD_STATE \notin StateOf(d)
        /\ NodeOf(d) = StateOf(d) \cup {DEAD_STATE}
        /\ \A q \in NodeOf(d), c \in SymbolOf(d) : Out(d, q, c) \in NodeOf(d)
    BY DFAsAssumption, DFAFacts
  <1>2. ASSUME NEW q \in T
        PROVE  q \notin d.accepts /\ \A c \in SymbolOf(d) : Out(d, q, c) \in T \cup {DEAD_STATE}
    <2>1. /\ Accepts(d, DEAD_STATE) <=> Accepts(d, q)
          /\ \A c \in SymbolOf(d) : Same(d, Out(d, DEAD_STATE, c), Out(d, q, c))
      BY <1>1, SameFacts
    <2>2. \A c \in SymbolOf(d) : Out(d, DEAD_STATE, c) = DEAD_STATE
      BY DEF Out
    <2> QED
      BY <1>1, <2>1, <2>2 DEF Accepts
  <1>3. T \in SUBSET (StateOf(d) \ d.accepts)
    BY <1>2
  <1> HIDE DEF T
  <1>4. T = {}
    BY <1>1, <1>2, <1>3 DEF IsTrim
  <1>5. ~ Same(d, DEAD_STATE, p)
    BY <1>4 DEF T
  <1> QED
    BY <1>1, <1>5, SameFacts

\* Every state of the DFA moves with its class, and the dead state is the dead
\* state of the minimal DFA.
LEMMA MinimalMoves ==
  ASSUME Built, pc = "done", ~ scarce
  PROVE  /\ \A p \in NodeOf(dfa) :
              /\ Accepts(dfa, p) <=> Accepts(MinimalDFA, IndexOf(p))
              /\ \A c \in SymbolOf(dfa) :
                   IndexOf(Out(dfa, p, c)) = Out(MinimalDFA, IndexOf(p), c)
         /\ \A i, j, k \in 0 .. size - 1 : j # k => delta[i][j] \cap delta[i][k] = {}
  <1>1. /\ Shape /\ Collected /\ ~ Collecting /\ Numbering(mem_region, state_index, accepts)
        /\ size = state_index /\ \A m \in mem_region : delta[m.index] = RowOf(dfa, mem_region, size, m)
    BY DEF Built, Collecting, Numbered, Tabled
  <1>2. /\ dfa \in DFAs /\ DEAD_STATE \notin StateOf(dfa) /\ NodeOf(dfa) = StateOf(dfa) \cup {DEAD_STATE}
        /\ dfa.accepts \subseteq StateOf(dfa) /\ StateOf(dfa) \subseteq NodeOf(dfa)
        /\ \A p \in NodeOf(dfa), c \in SymbolOf(dfa) : Out(dfa, p, c) \in NodeOf(dfa)
    BY <1>1, Bounds, DFAFacts
  <1>3. /\ {m.index : m \in mem_region} = 0 .. size - 1
        /\ \A k, m \in mem_region : k.index = m.index => k = m
        /\ accepts = {m.index : m \in {k \in mem_region : k.is_accept}}
    BY <1>1 DEF Numbering
  <1>4. \A m \in mem_region : m.index \in 0 .. size - 1 /\ m.index # DEAD_STATE
    <2>1. DEAD_STATE \notin 0 .. size - 1
      BY DEF DEAD_STATE
    <2> QED
      BY <1>3, <2>1
  <1>5. ASSUME NEW m \in mem_region, NEW c \in SymbolOf(dfa), NEW j \in 0 .. size - 1
        PROVE  c \in delta[m.index][j] <=> Target(m, c) # DEAD_STATE /\ IndexOf(Target(m, c)) = j
    <2>1. delta[m.index][j] = {b \in SymbolOf(dfa) : GoesTo(dfa, mem_region, m, b, j)}
      BY <1>1 DEF RowOf
    <2> QED
      BY <2>1 DEF GoesTo, Target, IndexOf, ClassAt
  <1>6. ASSUME NEW m \in mem_region, NEW c \in SymbolOf(dfa)
        PROVE  Out(MinimalDFA, m.index, c) = IndexOf(Target(m, c))
    <2> DEFINE entry == IF \E j \in 0 .. size - 1 : c \in delta[m.index][j]
                        THEN CHOOSE j \in 0 .. size - 1 : c \in delta[m.index][j]
                        ELSE DEAD_STATE
    <2>1. Out(MinimalDFA, m.index, c) = entry
      <3> DEFINE table == [i \in 0 .. size - 1 |-> [b \in SymbolOf(dfa) |->
                             IF \E j \in 0 .. size - 1 : b \in delta[i][j]
                             THEN CHOOSE j \in 0 .. size - 1 : b \in delta[i][j]
                             ELSE DEAD_STATE]]
      <3>1. MinimalDFA.delta = table
        BY DEF MinimalDFA
      <3>2. table[m.index][c] = entry
        BY <1>4
      <3> HIDE DEF table, entry
      <3> QED
        BY <1>4, <3>1, <3>2 DEF Out
    <2>2. CASE Target(m, c) = DEAD_STATE
      BY <1>5, <2>1, <2>2 DEF IndexOf
    <2>3. CASE Target(m, c) # DEAD_STATE
      <3>1. Target(m, c) \in StateOf(dfa)
        BY <1>1, <1>2, <2>3, ClassOfMinimalState
      <3>2. IndexOf(Target(m, c)) \in 0 .. size - 1
        BY <1>1, <1>4, <3>1, ClassFacts
      <3>3. \A j \in 0 .. size - 1 : c \in delta[m.index][j] <=> j = IndexOf(Target(m, c))
        BY <1>5, <2>3
      <3> HIDE DEF entry
      <3>4. entry = IndexOf(Target(m, c))
        BY <3>2, <3>3 DEF entry
      <3> QED
        BY <2>1, <3>4
    <2> QED
      BY <2>2, <2>3
  <1>7. ASSUME NEW p \in StateOf(dfa)
        PROVE  /\ Accepts(dfa, p) <=> Accepts(MinimalDFA, IndexOf(p))
               /\ \A c \in SymbolOf(dfa) : IndexOf(Out(dfa, p, c)) = Out(MinimalDFA, IndexOf(p), c)
    <2>1. PICK m \in mem_region : p \in m.states /\ IndexOf(p) = m.index
      BY <1>1, ClassFacts
    <2>2. /\ First(m.states) \in m.states /\ First(m.states) \in StateOf(dfa)
          /\ m.is_accept = (m.states \cap dfa.accepts # {}) /\ m.states \subseteq StateOf(dfa)
          /\ \A a, b \in m.states : Same(dfa, a, b)
      BY <1>1, ClassOfMinimalState
    <2>3. \A a \in m.states : Accepts(dfa, p) <=> Accepts(dfa, a)
      BY <1>2, <2>1, <2>2, SameFacts
    <2>4. Accepts(dfa, p) <=> m.is_accept
      BY <2>1, <2>2, <2>3 DEF Accepts
    <2>5. m.index \in accepts <=> m.is_accept
      BY <1>3
    <2>6. Accepts(MinimalDFA, IndexOf(p)) <=> m.index \in accepts
      BY <2>1 DEF Accepts, MinimalDFA
    <2>7. ASSUME NEW c \in SymbolOf(dfa) PROVE IndexOf(Out(dfa, p, c)) = IndexOf(Target(m, c))
      <3> DEFINE a == Out(dfa, p, c)
                 b == Target(m, c)
      <3>1. Same(dfa, a, b)
        BY <1>2, <2>1, <2>2, SameFacts DEF Target
      <3>2. a \in NodeOf(dfa) /\ b \in NodeOf(dfa)
        BY <1>2, <2>2 DEF Target
      <3> HIDE DEF a, b
      <3>3. a = DEAD_STATE <=> b = DEAD_STATE
        BY <1>2, <3>1, <3>2, LiveStates
      <3>4. CASE a # DEAD_STATE
        <4>1. a \in StateOf(dfa) /\ b \in StateOf(dfa)
          BY <1>2, <3>2, <3>3, <3>4
        <4>2. PICK x \in mem_region : a \in x.states /\ IndexOf(a) = x.index
          BY <1>1, <4>1, ClassFacts
        <4>3. b \in x.states
          BY <1>1, <3>1, <4>1, <4>2, ClassOfMinimalState
        <4>4. IndexOf(b) = x.index
          BY <1>1, <4>1, <4>3, ClassFacts
        <4> QED
          BY <4>2, <4>4 DEF a, b
      <3> QED
        BY <3>3, <3>4 DEF a, b
    <2> QED
      BY <1>6, <2>1, <2>4, <2>5, <2>6, <2>7
  <1>8. /\ Accepts(dfa, DEAD_STATE) <=> Accepts(MinimalDFA, IndexOf(DEAD_STATE))
        /\ \A c \in SymbolOf(dfa) :
             IndexOf(Out(dfa, DEAD_STATE, c)) = Out(MinimalDFA, IndexOf(DEAD_STATE), c)
    <2>1. IndexOf(DEAD_STATE) = DEAD_STATE /\ ~ Accepts(dfa, DEAD_STATE) /\ DEAD_STATE \notin accepts
      BY <1>2, <1>3, <1>4 DEF IndexOf, Accepts
    <2>2. ~ Accepts(MinimalDFA, DEAD_STATE)
      BY <2>1 DEF Accepts, MinimalDFA
    <2> QED
      BY <2>1, <2>2 DEF Out
  <1>9. ASSUME NEW i \in 0 .. size - 1, NEW j \in 0 .. size - 1, NEW k \in 0 .. size - 1, j # k
        PROVE  delta[i][j] \cap delta[i][k] = {}
    <2>1. PICK m \in mem_region : i = m.index
      BY <1>3
    <2>2. delta[i] = RowOf(dfa, mem_region, size, m)
      BY <1>1, <2>1
    <2>3. delta[i][j] \subseteq SymbolOf(dfa)
      BY <2>2 DEF RowOf
    <2> QED
      BY <1>5, <1>9, <2>1, <2>3
  <1> QED
    BY <1>2, <1>7, <1>8, <1>9

\* With enough memory the automaton that is built accepts the words of the DFA:
\* every state of the DFA, not only the one a class is read from, moves and
\* accepts as its class does, and the start state is the class of state 0.
THEOREM SameLanguageHolds == Spec => []SameLanguage
  <1>1. ASSUME Built, pc = "done", ~ scarce PROVE start = IndexOf(0)
    <2>1. /\ Shape /\ Collected /\ ~ Collecting /\ start = 0
          /\ \A m \in mem_region : 0 \in m.states => m.index = 0
      BY <1>1 DEF Built, Collecting, Numbered, Numbering, AtFirst
    <2>2. 0 \in StateOf(dfa)
      BY <2>1, Bounds
    <2> QED
      BY <1>1, <2>1, <2>2, ClassFacts
  <1>2. Built => StateOf(dfa) \subseteq NodeOf(dfa)
    BY Bounds, DFAFacts DEF Built
  <1>3. Built => SameLanguage
    BY <1>1, <1>2, MinimalMoves DEF SameLanguage
  <1> QED
    BY <1>3, BuiltHolds, PTL

\* With enough memory the automaton that is built is minimal: some suffix
\* separates any two of its states.  Two states that no suffix separates would
\* be classes of states of the DFA that none separates, and so the same class.
THEOREM IsMinimalHolds == Spec => []IsMinimal
  <1>1. ASSUME Built, pc = "done", ~ scarce
        PROVE  LivePair(MinimalDFA) \cap InseparablePair(MinimalDFA) = {}
    <2> DEFINE D == MinimalDFA
               U == InseparablePair(D)
               R == {pr \in NodeOf(dfa) \X NodeOf(dfa) :
                       pr[1] < pr[2] /\ Related(U, IndexOf(pr[1]), IndexOf(pr[2]))}
    <2>1. /\ \A p \in NodeOf(dfa) : Accepts(dfa, p) <=> Accepts(D, IndexOf(p))
          /\ \A p \in NodeOf(dfa), c \in SymbolOf(dfa) : IndexOf(Out(dfa, p, c)) = Out(D, IndexOf(p), c)
      BY <1>1, MinimalMoves
    <2>2. /\ U \subseteq AgreeingPair(D) /\ IsBisimulation(D, U) /\ SymbolOf(D) = SymbolOf(dfa)
          /\ StateOf(D) = 0 .. size - 1
      <3>1. U \subseteq AgreeingPair(D) /\ IsBisimulation(D, U)
        BY InseparableIsBisimulation
      <3> QED
        BY <3>1 DEF SymbolOf, StateOf, MinimalDFA
    <2>3. /\ Shape /\ Collected /\ ~ Collecting /\ Numbering(mem_region, state_index, accepts)
          /\ size = state_index /\ dfa \in DFAs
      BY <1>1, Bounds DEF Built, Collecting, Numbered, Tabled
    <2>4. /\ NodeOf(dfa) \subseteq Int /\ StateOf(dfa) \subseteq NodeOf(dfa)
          /\ \A p \in NodeOf(dfa), c \in SymbolOf(dfa) : Out(dfa, p, c) \in NodeOf(dfa)
      BY <2>3, DFAFacts
    <2> HIDE DEF D, U
    <2>5. ASSUME NEW x, NEW y, Related(U, x, y)
          PROVE  /\ (Accepts(D, x) <=> Accepts(D, y)) /\ Related(U, y, x)
                 /\ \A c \in SymbolOf(dfa) : Related(U, Out(D, x, c), Out(D, y, c))
      <3>1. CASE x = y
        BY <3>1 DEF Related
      <3>2. CASE <<x, y>> \in U
        BY <2>2, <3>2 DEF Related, AgreeingPair, IsBisimulation
      <3>3. CASE <<y, x>> \in U
        BY <2>2, <3>3 DEF Related, AgreeingPair, IsBisimulation
      <3> QED
        BY <2>5, <3>1, <3>2, <3>3 DEF Related
    <2>6. ASSUME NEW p \in NodeOf(dfa), NEW q \in NodeOf(dfa), Related(U, IndexOf(p), IndexOf(q))
          PROVE  Related(R, p, q)
      <3>1. Related(U, IndexOf(q), IndexOf(p))
        BY <2>5, <2>6
      <3>2. p < q => <<p, q>> \in R
        BY <2>6
      <3>3. q < p => <<q, p>> \in R
        BY <3>1
      <3> HIDE DEF R
      <3> QED
        BY <2>4, <3>2, <3>3 DEF Related
    <2>7. R \subseteq AgreeingPair(dfa)
      <3>1. ASSUME NEW pr \in R PROVE Accepts(dfa, pr[1]) <=> Accepts(dfa, pr[2])
        <4>1. pr[1] \in NodeOf(dfa) /\ pr[2] \in NodeOf(dfa) /\ Related(U, IndexOf(pr[1]), IndexOf(pr[2]))
          OBVIOUS
        <4> QED
          BY <2>1, <2>5, <4>1
      <3> QED
        BY <3>1 DEF AgreeingPair
    <2>8. IsBisimulation(dfa, R)
      <3>1. ASSUME NEW pr \in R, NEW c \in SymbolOf(dfa)
            PROVE  Related(R, Out(dfa, pr[1], c), Out(dfa, pr[2], c))
        <4>1. pr[1] \in NodeOf(dfa) /\ pr[2] \in NodeOf(dfa) /\ Related(U, IndexOf(pr[1]), IndexOf(pr[2]))
          OBVIOUS
        <4> HIDE DEF R
        <4>2. Related(U, IndexOf(Out(dfa, pr[1], c)), IndexOf(Out(dfa, pr[2], c)))
          BY <2>1, <2>5, <4>1
        <4> QED
          BY <2>4, <2>6, <4>1, <4>2
      <3> QED
        BY <3>1 DEF IsBisimulation
    <2> HIDE DEF R
    <2>9. R \subseteq InseparablePair(dfa)
      BY <2>7, <2>8, LargestBisimulation
    <2>10. ASSUME NEW pr \in LivePair(D) \cap U PROVE FALSE
      <3>1. /\ pr[1] \in 0 .. size - 1 /\ pr[2] \in 0 .. size - 1 /\ pr[1] # pr[2]
            /\ Related(U, pr[1], pr[2])
        BY <2>2 DEF LivePair, Related
      <3>2. PICK m \in mem_region, n \in mem_region : m.index = pr[1] /\ n.index = pr[2]
        BY <2>3, <3>1 DEF Numbering
      <3> DEFINE p == First(m.states)
                 q == First(n.states)
      <3>3. p \in m.states /\ q \in n.states /\ p \in StateOf(dfa) /\ q \in StateOf(dfa)
        BY <1>1, <2>3, ClassOfMinimalState
      <3>4. IndexOf(p) = pr[1] /\ IndexOf(q) = pr[2]
        BY <1>1, <2>3, <3>2, <3>3, ClassFacts
      <3> HIDE DEF p, q
      <3>5. Same(dfa, p, q)
        BY <2>4, <2>6, <2>9, <3>1, <3>3, <3>4 DEF Same, Related
      <3>6. q \in m.states
        BY <1>1, <2>3, <3>3, <3>5, ClassOfMinimalState
      <3>7. m = n
        BY <1>1, <2>3, <3>3, <3>6, ClassFacts
      <3> QED
        BY <3>1, <3>2, <3>7
    <2> QED
      BY <2>10 DEF D, U
  <1>2. ASSUME Built, pc = "done", ~ scarce
        PROVE  /\ {m.index : m \in mem_region} = 0 .. size - 1
               /\ accepts = {m.index : m \in {n \in mem_region : n.is_accept}}
    BY <1>2 DEF Built, Numbered, Numbering, Tabled
  <1>3. Built => IsMinimal
    BY <1>1, <1>2 DEF IsMinimal
  <1> QED
    BY <1>3, BuiltHolds, PTL

=============================================================================
