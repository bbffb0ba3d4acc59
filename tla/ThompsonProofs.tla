---------------------------- MODULE ThompsonProofs ----------------------------
(***************************************************************************)
(* Theorems about the Thompson constructions, for any number of calls, of  *)
(* NFAs held and of characters.                                            *)
(***************************************************************************)
EXTENDS Thompson, NumberFacts, SequenceTheorems, TLAPS

-----------------------------------------------------------------------------
(***************************************************************************)
(* The shape of an NFA, without its least sets: no set of states traps it, *)
(* and every closed set of the start contains a state that reads.          *)
(***************************************************************************)

EpsilonClosed(n, X) == EpsilonOuts(n, X) \subseteq X

Traps(n, T) == \A s \in T : Outs(n, s) \subseteq T

Enters(n, s) == \E t \in DOMAIN n.states : s \in Outs(n, t)

Shape(n) ==
  /\ n.states[n.accept] = NewState
  /\ ~ Enters(n, n.start)
  /\ \A s \in DOMAIN n.states : n.states[s].ch # EPSILON => n.states[s].out2 = NULL
  /\ \A T \in SUBSET DOMAIN n.states : T # {} /\ n.accept \notin T => ~ Traps(n, T)
  /\ \A X \in SUBSET DOMAIN n.states :
       n.start \in X /\ EpsilonClosed(n, X) => \E s \in X : n.states[s].ch # EPSILON

EpsilonStep(n) == [X \in SUBSET DOMAIN n.states |-> EpsilonOuts(n, X)]

BackStep(n) ==
  [X \in SUBSET DOMAIN n.states |-> {s \in DOMAIN n.states : Outs(n, s) \cap X # {}}]

LEMMA OutsFacts ==
  ASSUME NEW n, IsNFA(n), NEW s \in DOMAIN n.states
  PROVE  /\ Outs(n, s) \subseteq DOMAIN n.states
         /\ n.states[s] \in NFAState(n)
  <1>1. n.states[s] \in NFAState(n)
    BY DEF IsNFA
  <1> QED BY <1>1 DEF Outs, NFAState

LEMMA ClosureIsLeast ==
  ASSUME NEW n, IsNFA(n), NEW s \in DOMAIN n.states
  PROVE  IsLeastClosed(DOMAIN n.states, EpsilonStep(n), {s}, EpsilonClosure(n, s))
  <1> DEFINE D == DOMAIN n.states
             step == EpsilonStep(n)
             Finds(f) == f = [X \in SUBSET D |->
                                LET more == X \cup EpsilonOuts(n, X)
                                IN  IF more = X THEN X ELSE f[more]]
             found == CHOOSE f : Finds(f)
  <1>1. ASSUME NEW f PROVE Iterates(D, step, f) <=> Finds(f)
    BY DEF Iterates, EpsilonStep
  <1>2. Monotone(D, step)
    <2>1. ASSUME NEW X \in SUBSET D PROVE EpsilonOuts(n, X) \in SUBSET D
      <3>1. \A t \in X : Outs(n, t) \subseteq D
        BY OutsFacts
      <3> QED BY <3>1 DEF EpsilonOuts
    <2>2. ASSUME NEW X \in SUBSET D, NEW Y \in SUBSET D, X \subseteq Y
          PROVE  EpsilonOuts(n, X) \subseteq EpsilonOuts(n, Y)
      BY <2>2 DEF EpsilonOuts
    <2> QED BY <2>1, <2>2 DEF Monotone, EpsilonStep
  <1>3. \E f : Finds(f)
    BY <1>1, <1>2, IterationExists
  <1>4. EpsilonClosure(n, s) = found[{s}]
    BY DEF EpsilonClosure
  <1>5. Finds(found)
    <2> HIDE DEF Finds
    <2> QED BY <1>3
  <1>6. Iterates(D, step, found)
    BY <1>1, <1>5
  <1>7. IsFiniteSet(D) /\ {s} \in SUBSET D
    BY DEF IsNFA
  <1> HIDE DEF found
  <1> QED BY <1>2, <1>4, <1>6, <1>7, IterationFinds

LEMMA CoReachableIsLeast ==
  ASSUME NEW n, IsNFA(n)
  PROVE  IsLeastClosed(DOMAIN n.states, BackStep(n), {n.accept}, CoReachable(n))
  <1> DEFINE D == DOMAIN n.states
             step == BackStep(n)
             Finds(f) == f = [X \in SUBSET D |->
                                LET more == X \cup {s \in D : Outs(n, s) \cap X # {}}
                                IN  IF more = X THEN X ELSE f[more]]
             found == CHOOSE f : Finds(f)
  <1>1. ASSUME NEW f PROVE Iterates(D, step, f) <=> Finds(f)
    BY DEF Iterates, BackStep
  <1>2. Monotone(D, step)
    BY DEF Monotone, BackStep
  <1>3. \E f : Finds(f)
    BY <1>1, <1>2, IterationExists
  <1>4. CoReachable(n) = found[{n.accept}]
    BY DEF CoReachable
  <1>5. Finds(found)
    <2> HIDE DEF Finds
    <2> QED BY <1>3
  <1>6. Iterates(D, step, found)
    BY <1>1, <1>5
  <1>7. IsFiniteSet(D) /\ {n.accept} \in SUBSET D
    BY DEF IsNFA
  <1> HIDE DEF found
  <1> QED BY <1>2, <1>4, <1>6, <1>7, IterationFinds

\* Every state leads to the accept state if no set of states without it is a trap.
LEMMA NoTrap ==
  ASSUME NEW n, IsNFA(n)
  PROVE  CoReachable(n) = DOMAIN n.states <=>
           \A T \in SUBSET DOMAIN n.states : T # {} /\ n.accept \notin T => ~ Traps(n, T)
  <1> DEFINE D == DOMAIN n.states
             C == CoReachable(n)
  <1>1. /\ C \in SUBSET D /\ n.accept \in C /\ BackStep(n)[C] \subseteq C
        /\ \A Y \in SUBSET D : {n.accept} \subseteq Y /\ BackStep(n)[Y] \subseteq Y => C \subseteq Y
    BY CoReachableIsLeast DEF IsLeastClosed
  <1>2. \A Y \in SUBSET D : BackStep(n)[Y] = {s \in D : Outs(n, s) \cap Y # {}}
    BY DEF BackStep
  <1>3. n.accept \in D /\ \A s \in D : Outs(n, s) \subseteq D
    BY OutsFacts DEF IsNFA
  <1> HIDE DEF C
  <1>4. ASSUME C = D, NEW T \in SUBSET D, T # {}, n.accept \notin T, Traps(n, T)
        PROVE  FALSE
    <2>1. BackStep(n)[D \ T] \subseteq D \ T
      BY <1>2, <1>4 DEF Traps
    <2>2. C \subseteq D \ T
      BY <1>1, <1>3, <1>4, <2>1
    <2> QED BY <1>4, <2>2
  <1>5. ASSUME C # D PROVE \E T \in SUBSET D : T # {} /\ n.accept \notin T /\ Traps(n, T)
    <2>1. Traps(n, D \ C)
      BY <1>1, <1>2, <1>3 DEF Traps
    <2>2. D \ C \in SUBSET D /\ D \ C # {} /\ n.accept \notin D \ C
      BY <1>1, <1>5
    <2> QED BY <2>1, <2>2
  <1> QED BY <1>4, <1>5 DEF C

LEMMA ShapeFacts ==
  ASSUME NEW n, IsNFA(n)
  PROVE  IsThompson(n) <=> Shape(n)
  <1> DEFINE D == DOMAIN n.states
             C == EpsilonClosure(n, n.start)
             Reads(X) == \E s \in X : n.states[s].ch # EPSILON
  <1>1. n.start \in D
    BY DEF IsNFA
  <1>2. /\ C \in SUBSET D /\ {n.start} \subseteq C /\ EpsilonStep(n)[C] \subseteq C
        /\ \A X \in SUBSET D : {n.start} \subseteq X /\ EpsilonStep(n)[X] \subseteq X => C \subseteq X
    BY <1>1, ClosureIsLeast DEF IsLeastClosed
  <1>3. \A X \in SUBSET D : EpsilonStep(n)[X] = EpsilonOuts(n, X)
    BY DEF EpsilonStep
  <1> HIDE DEF C
  <1>4. Reads(C) <=> \A X \in SUBSET D : n.start \in X /\ EpsilonClosed(n, X) => Reads(X)
    BY <1>2, <1>3 DEF EpsilonClosed
  <1> QED BY <1>4, NoTrap DEF IsThompson, Shape, Enters, C

-----------------------------------------------------------------------------
(***************************************************************************)
(* The constructions give an NFA that shape when they are given NFAs of    *)
(* that shape that share no state.                                         *)
(***************************************************************************)

\* The start leads to every state.
Spans(n) ==
  \A X \in SUBSET DOMAIN n.states : n.start \in X /\ Traps(n, X) => X = DOMAIN n.states

\* The two ways out of a state are different.
Forks(n) == \A s \in DOMAIN n.states : n.states[s].out1 = n.states[s].out2 => n.states[s].out1 = NULL

Good(n) ==
  IsNFA(n) /\ Shape(n) /\ Spans(n) /\ Forks(n) /\ n.size = Cardinality(n.mem_region)

\* All states of n but its accept state are states of u, as they were.
Embeds(n, u) ==
  /\ DOMAIN n.states \subseteq DOMAIN u.states
  /\ \A s \in DOMAIN n.states \ {n.accept} : u.states[s] = n.states[s]

LEMMA Embedded ==
  ASSUME NEW n, IsNFA(n), Shape(n), NEW u, Embeds(n, u)
  PROVE  /\ \A T : Traps(u, T) /\ T \cap DOMAIN n.states # {} => n.accept \in T
         /\ \A X : n.start \in X /\ EpsilonClosed(u, X) =>
              \E s \in X \cap DOMAIN n.states : u.states[s].ch # EPSILON
  <1> DEFINE D == DOMAIN n.states
  <1>1. \A s \in D \ {n.accept} : Outs(u, s) = Outs(n, s) /\ u.states[s].ch = n.states[s].ch
    BY DEF Embeds, Outs
  <1>2. \A s \in D : Outs(n, s) \subseteq D
    BY OutsFacts
  <1>3. n.states[n.accept].ch = EPSILON /\ Outs(n, n.accept) = {}
    BY DEF Shape, NewState, Outs
  <1>4. ASSUME NEW T, Traps(u, T), T \cap D # {}, n.accept \notin T
        PROVE  FALSE
    <2>1. T \cap D \in SUBSET D /\ n.accept \notin T \cap D
      BY <1>4
    <2>2. Traps(n, T \cap D)
      BY <1>1, <1>2, <1>4 DEF Traps
    <2> QED BY <1>4, <2>1, <2>2 DEF Shape
  <1>5. ASSUME NEW X, n.start \in X, EpsilonClosed(u, X)
        PROVE  \E s \in X \cap D : u.states[s].ch # EPSILON
    <2>1. X \cap D \in SUBSET D /\ n.start \in X \cap D
      BY <1>5 DEF IsNFA
    <2>2. ASSUME NEW s \in X \cap D, n.states[s].ch = EPSILON PROVE Outs(n, s) \subseteq X \cap D
      <3>1. CASE s = n.accept
        BY <1>3, <3>1
      <3>2. CASE s # n.accept
        <4>1. u.states[s].ch = EPSILON /\ Outs(u, s) = Outs(n, s)
          BY <1>1, <2>2, <3>2
        <4>2. Outs(u, s) \subseteq EpsilonOuts(u, X)
          BY <2>2, <4>1 DEF EpsilonOuts
        <4> QED BY <1>2, <1>5, <4>1, <4>2 DEF EpsilonClosed
      <3> QED BY <3>1, <3>2
    <2>3. EpsilonClosed(n, X \cap D)
      BY <2>2 DEF EpsilonClosed, EpsilonOuts
    <2>4. PICK s \in X \cap D : n.states[s].ch # EPSILON
      BY <2>1, <2>3 DEF Shape
    <2> QED BY <1>1, <1>3, <2>4
  <1> QED BY <1>4, <1>5

LEMMA Spanned ==
  ASSUME NEW n, IsNFA(n), Shape(n), Spans(n), NEW u, Embeds(n, u),
         NEW X, n.start \in X, Traps(u, X)
  PROVE  DOMAIN n.states \subseteq X
  <1> DEFINE D == DOMAIN n.states
  <1>1. X \cap D \in SUBSET D /\ n.start \in X \cap D
    BY DEF IsNFA
  <1>2. ASSUME NEW s \in X \cap D PROVE Outs(n, s) \subseteq X \cap D
    <2>1. CASE s = n.accept
      <3>1. Outs(n, n.accept) = {}
        BY DEF Shape, NewState, Outs
      <3> QED BY <2>1, <3>1
    <2>2. CASE s # n.accept
      <3>1. Outs(u, s) = Outs(n, s)
        BY <2>2 DEF Embeds, Outs
      <3>2. Outs(n, s) \subseteq D
        BY OutsFacts
      <3> QED BY <3>1, <3>2 DEF Traps
    <2> QED BY <2>1, <2>2
  <1>3. Traps(n, X \cap D)
    BY <1>2 DEF Traps
  <1> QED BY <1>1, <1>3 DEF Spans

LEMMA ClosedFacts ==
  ASSUME NEW n, NEW X, EpsilonClosed(n, X), NEW s \in X, n.states[s].ch = EPSILON
  PROVE  Outs(n, s) \subseteq X
  BY DEF EpsilonClosed, EpsilonOuts

\* Two addresses that no state has so far.
Unused(new, addresses) ==
  /\ new \in Nat /\ new + 1 \in Nat /\ new # NULL /\ new + 1 # NULL /\ new # new + 1
  /\ new \notin addresses /\ new + 1 \notin addresses

LEMMA UnusedFacts ==
  ASSUME NEW new \in Nat, NEW addresses, new \notin addresses, new + 1 \notin addresses
  PROVE  Unused(new, addresses)
  BY DEF Unused, NULL

LEMMA PairFacts ==
  ASSUME NEW new, NEW S, IsFiniteSet(S), Unused(new, S)
  PROVE  /\ IsFiniteSet(S \cup {new, new + 1})
         /\ Cardinality(S \cup {new, new + 1}) = Cardinality(S) + 2
  <1>1. IsFiniteSet(S \cup {new}) /\ Cardinality(S \cup {new}) = Cardinality(S) + 1
    BY FS_AddElement DEF Unused
  <1>2. /\ IsFiniteSet((S \cup {new}) \cup {new + 1})
        /\ Cardinality((S \cup {new}) \cup {new + 1}) = Cardinality(S \cup {new}) + 1
    <2>1. new + 1 \notin S \cup {new}
      BY DEF Unused
    <2> QED BY <1>1, <2>1, FS_AddElement
  <1>3. (S \cup {new}) \cup {new + 1} = S \cup {new, new + 1}
    OBVIOUS
  <1>4. Cardinality(S) \in Nat
    BY FS_CardinalityType
  <1> QED BY <1>1, <1>2, <1>3, <1>4

LEMMA InitThompsonGood ==
  ASSUME NEW ch \in Nat \ {EPSILON}, NEW new \in Nat
  PROVE  LET u == InitThompson(ch, new) IN
         Good(u) /\ u.mem_region = {new, new + 1} /\ u.alphabet = {ch} /\ u.size = 2
  <1> DEFINE u == InitThompson(ch, new)
             D == {new, new + 1}
  <1>1. Unused(new, {})
    BY UnusedFacts
  <1>2. /\ u.start = new /\ u.accept = new + 1 /\ u.alphabet = {ch} /\ u.size = 2
        /\ u.mem_region = D /\ DOMAIN u.states = D
        /\ u.states[new] = [ch |-> ch, out1 |-> new + 1, out2 |-> NULL]
        /\ u.states[new + 1] = NewState
    BY <1>1 DEF InitThompson, Unused
  <1>3. u.states \in [D -> NFAState(u)]
    <2>1. u.states = [s \in D |-> u.states[s]]
      BY <1>2 DEF InitThompson
    <2> HIDE DEF u
    <2>2. u.states[new] \in NFAState(u) /\ u.states[new + 1] \in NFAState(u)
      BY <1>2 DEF NFAState, NewState
    <2> QED BY <2>1, <2>2
  <1> HIDE DEF u
  <1>4. IsFiniteSet(D) /\ Cardinality(D) = 2
    <2>1. D = {} \cup D /\ IsFiniteSet({}) /\ Cardinality({}) = 0
      BY FS_EmptySet
    <2> QED BY <1>1, <2>1, PairFacts
  <1>5. IsNFA(u)
    <2>1. IsFiniteSet({ch})
      BY FS_Singleton
    <2> QED BY <1>1, <1>2, <1>3, <1>4, <2>1 DEF IsNFA, Unused
  <1>6. Outs(u, new) = {new + 1} /\ Outs(u, new + 1) = {}
    BY <1>1, <1>2 DEF Outs, Unused, NewState
  <1>7. Shape(u)
    <2>1. ~ Enters(u, u.start)
      BY <1>1, <1>2, <1>6 DEF Enters, Unused
    <2>2. ASSUME NEW T \in SUBSET D, T # {}, u.accept \notin T PROVE ~ Traps(u, T)
      <3>2. new + 1 \notin T
        BY <1>2, <2>2
      <3>3. PICK x \in T : TRUE
        BY <2>2
      <3>1. new \in T
        BY <3>2, <3>3
      <3> QED BY <1>6, <3>1, <3>2 DEF Traps
    <2>3. \A s \in D : u.states[s].ch # EPSILON => u.states[s].out2 = NULL
      BY <1>2 DEF NewState
    <2>4. u.states[new].ch # EPSILON
      BY <1>2
    <2> QED BY <1>2, <2>1, <2>2, <2>3, <2>4 DEF Shape
  <1>8. Spans(u)
    <2> SUFFICES ASSUME NEW X \in SUBSET D, new \in X, Traps(u, X) PROVE X = D
      BY <1>2 DEF Spans
    <2> QED BY <1>6 DEF Traps
  <1>9. Forks(u)
    BY <1>1, <1>2 DEF Forks, Unused, NewState
  <1> QED BY <1>2, <1>4, <1>5, <1>7, <1>8, <1>9 DEF Good, u

\* Two NFAs that share no state, each with the shape.
Apart(l, r) == Good(l) /\ Good(r) /\ l.mem_region \cap r.mem_region = {}

LEMMA GoodFacts ==
  ASSUME NEW n, Good(n)
  PROVE  /\ IsNFA(n) /\ Shape(n) /\ Spans(n) /\ Forks(n)
         /\ n.size = Cardinality(n.mem_region) /\ n.size \in Nat
         /\ n.states \in [DOMAIN n.states -> NFAState(n)]
         /\ n.start \in DOMAIN n.states /\ n.accept \in DOMAIN n.states
         /\ DOMAIN n.states = n.mem_region /\ NULL \notin DOMAIN n.states
         /\ n.alphabet \subseteq Nat \ {EPSILON}
         /\ IsFiniteSet(n.alphabet) /\ IsFiniteSet(n.mem_region)
         /\ n.states[n.accept] = NewState
  BY FS_CardinalityType DEF Good, IsNFA, Shape

LEMMA ApartFacts ==
  ASSUME NEW l, NEW r, Apart(l, r)
  PROVE  LET D == l.mem_region \cup r.mem_region IN
         /\ IsFiniteSet(D) /\ Cardinality(D) = l.size + r.size
         /\ IsFiniteSet(l.alphabet \cup r.alphabet)
         /\ l.alphabet \cup r.alphabet \subseteq Nat \ {EPSILON}
         /\ NULL \notin D
  <1> DEFINE D == l.mem_region \cup r.mem_region
  <1>1. /\ IsFiniteSet(l.mem_region) /\ IsFiniteSet(r.mem_region)
        /\ IsFiniteSet(l.alphabet) /\ IsFiniteSet(r.alphabet)
        /\ l.alphabet \subseteq Nat \ {EPSILON} /\ r.alphabet \subseteq Nat \ {EPSILON}
        /\ l.size = Cardinality(l.mem_region) /\ r.size = Cardinality(r.mem_region)
        /\ l.size \in Nat /\ r.size \in Nat
    BY GoodFacts DEF Apart
  <1>2. /\ Cardinality(D) = Cardinality(l.mem_region) + Cardinality(r.mem_region)
                              - Cardinality(l.mem_region \cap r.mem_region)
        /\ IsFiniteSet(D)
    BY <1>1, FS_Union
  <1>3. Cardinality(l.mem_region \cap r.mem_region) = 0
    BY FS_EmptySet DEF Apart
  <1>4. NULL \notin D
    BY DEF Apart, Good, IsNFA
  <1>5. IsFiniteSet(l.alphabet \cup r.alphabet)
    BY <1>1, FS_Union
  <1>6. l.alphabet \cup r.alphabet \subseteq Nat \ {EPSILON}
    BY <1>1
  <1>7. Cardinality(D) = l.size + r.size
    BY <1>1, <1>2, <1>3
  <1> QED BY <1>2, <1>4, <1>5, <1>6, <1>7

LEMMA JoinedFacts ==
  ASSUME NEW l, NEW r, Apart(l, r)
  PROVE  LET j == Joined(l, r) IN
         /\ DOMAIN j = DOMAIN l.states \cup DOMAIN r.states
         /\ \A s \in DOMAIN l.states : j[s] = l.states[s]
         /\ \A s \in DOMAIN r.states : j[s] = r.states[s] /\ s \notin DOMAIN l.states
         /\ j[l.accept] = NewState /\ j[r.accept] = NewState
         /\ l.accept \in DOMAIN l.states /\ r.accept \in DOMAIN r.states
         /\ j = [s \in DOMAIN l.states \cup DOMAIN r.states |-> j[s]]
  <1>1. /\ l.accept \in DOMAIN l.states /\ r.accept \in DOMAIN r.states
        /\ l.states[l.accept] = NewState /\ r.states[r.accept] = NewState
        /\ DOMAIN l.states = l.mem_region /\ DOMAIN r.states = r.mem_region
    BY GoodFacts DEF Apart
  <1>2. \A s \in DOMAIN r.states : s \notin DOMAIN l.states
    BY <1>1 DEF Apart
  <1> QED BY <1>1, <1>2 DEF Joined

\* What nfa_append() makes of the states.
IsConcat(u, l, r) ==
  LET D == DOMAIN l.states \cup DOMAIN r.states
  IN  /\ u.start = l.start /\ u.accept = r.accept
      /\ u.alphabet = l.alphabet \cup r.alphabet /\ u.size = l.size + r.size
      /\ u.mem_region = l.mem_region \cup r.mem_region
      /\ DOMAIN u.states = D /\ u.states = [s \in D |-> u.states[s]]
      /\ \A s \in DOMAIN l.states \ {l.accept} : u.states[s] = l.states[s]
      /\ \A s \in DOMAIN r.states : u.states[s] = r.states[s]
      /\ u.states[l.accept] = [ch |-> EPSILON, out1 |-> r.start, out2 |-> NULL]

LEMMA ConcatStates ==
  ASSUME NEW l, NEW r, Apart(l, r)
  PROVE  IsConcat(Concat(l, r), l, r)
  <1> DEFINE u == Concat(l, r)
             j == Joined(l, r)
             D == DOMAIN l.states \cup DOMAIN r.states
             f == [j EXCEPT ![l.accept].out1 = r.start]
  <1>0. /\ DOMAIN j = D /\ j = [s \in D |-> j[s]]
        /\ \A s \in DOMAIN l.states : j[s] = l.states[s]
        /\ \A s \in DOMAIN r.states : j[s] = r.states[s] /\ s \notin DOMAIN l.states
    <2>1. DOMAIN j = D /\ j = [s \in D |-> j[s]]
      BY DEF Joined
    <2>2. \A s \in DOMAIN l.states : j[s] = l.states[s]
      BY <2>1 DEF Joined
    <2>3. ASSUME NEW s \in DOMAIN r.states
          PROVE  j[s] = r.states[s] /\ s \notin DOMAIN l.states
      <3>1. s \notin DOMAIN l.states
        BY GoodFacts DEF Apart
      <3>2. j[s] = r.states[s]
        BY <2>1, <3>1 DEF Joined
      <3> QED BY <3>1, <3>2
    <2> QED BY <2>1, <2>2, <2>3
  <1>1. /\ u.start = l.start /\ u.accept = r.accept
        /\ u.alphabet = l.alphabet \cup r.alphabet /\ u.size = l.size + r.size
        /\ u.mem_region = l.mem_region \cup r.mem_region
        /\ u.states = f
    BY DEF Concat
  <1> HIDE DEF j
  <1>2. /\ DOMAIN j = D /\ j = [s \in D |-> j[s]]
        /\ \A s \in DOMAIN l.states : j[s] = l.states[s]
        /\ \A s \in DOMAIN r.states : j[s] = r.states[s] /\ s \notin DOMAIN l.states
        /\ j[l.accept] = NewState
        /\ l.accept \in DOMAIN l.states
    <2>1. j[l.accept] = NewState /\ l.accept \in DOMAIN l.states
      BY JoinedFacts DEF j
    <2> QED BY <1>0, <2>1
  <1>3. DOMAIN f = D /\ f = [s \in D |-> f[s]]
    BY <1>2
  <1>4. \A s \in D \ {l.accept} : f[s] = j[s]
    BY <1>2
  <1>5. f[l.accept] = [ch |-> EPSILON, out1 |-> r.start, out2 |-> NULL]
    <2>1. f[l.accept] = [j[l.accept] EXCEPT !.out1 = r.start]
      BY <1>2
    <2> QED BY <1>2, <2>1 DEF NewState
  <1>6. u.start = l.start /\ u.accept = r.accept /\ DOMAIN u.states = D
    BY <1>1, <1>3
  <1> HIDE DEF f, u
  <1>7. IsConcat(u, l, r)
    BY <1>1, <1>2, <1>3, <1>4, <1>5, <1>6 DEF IsConcat
  <1> QED BY <1>7 DEF u

LEMMA ConcatGood ==
  ASSUME NEW l, NEW r, Apart(l, r)
  PROVE  Good(Concat(l, r))
  <1> DEFINE u == Concat(l, r)
             L == DOMAIN l.states
             R == DOMAIN r.states
             D == L \cup R
  <1>1. /\ u.start = l.start /\ u.accept = r.accept
        /\ u.alphabet = l.alphabet \cup r.alphabet /\ u.size = l.size + r.size
        /\ u.mem_region = l.mem_region \cup r.mem_region
        /\ DOMAIN u.states = D /\ u.states = [s \in D |-> u.states[s]]
        /\ \A s \in L \ {l.accept} : u.states[s] = l.states[s]
        /\ \A s \in R : u.states[s] = r.states[s]
        /\ u.states[l.accept] = [ch |-> EPSILON, out1 |-> r.start, out2 |-> NULL]
    <2>1. IsConcat(u, l, r)
      BY ConcatStates
    <2> HIDE DEF u
    <2> QED BY <2>1 DEF IsConcat
  <1> HIDE DEF u
  <1>2. /\ IsNFA(l) /\ Shape(l) /\ l.start \in L /\ l.accept \in L /\ L = l.mem_region
        /\ IsNFA(r) /\ Shape(r) /\ r.start \in R /\ r.accept \in R /\ R = r.mem_region
        /\ L \cap R = {} /\ NULL \notin L /\ NULL \notin R
        /\ l.states \in [L -> NFAState(l)] /\ r.states \in [R -> NFAState(r)]
        /\ r.states[r.accept] = NewState
    BY GoodFacts DEF Apart
  <1>3. ASSUME NEW s \in D
        PROVE  s \in L \ {l.accept} \/ s = l.accept \/ s \in R
    OBVIOUS
  <1>4. ASSUME NEW s \in D PROVE u.states[s] \in NFAState(u)
    <2>1. CASE s \in L \ {l.accept}
      <3>1. l.states[s] \in NFAState(l)
        BY <1>2, <2>1
      <3> QED BY <1>1, <2>1, <3>1 DEF NFAState
    <2>2. CASE s = l.accept
      BY <1>1, <1>2, <2>2 DEF NFAState
    <2>3. CASE s \in R
      <3>1. r.states[s] \in NFAState(r)
        BY <1>2, <2>3
      <3> QED BY <1>1, <2>3, <3>1 DEF NFAState
    <2> QED BY <1>3, <2>1, <2>2, <2>3
  <1>5. IsNFA(u) /\ u.size = Cardinality(u.mem_region)
    <2>1. /\ IsFiniteSet(L \cup R) /\ Cardinality(L \cup R) = l.size + r.size
          /\ IsFiniteSet(l.alphabet \cup r.alphabet)
          /\ l.alphabet \cup r.alphabet \subseteq Nat \ {EPSILON}
      BY <1>2, ApartFacts
    <2>2. u.states \in [D -> NFAState(u)]
      BY <1>1, <1>4
    <2> QED BY <1>1, <1>2, <2>1, <2>2 DEF IsNFA
  <1>6. /\ \A s \in L \ {l.accept} : Outs(u, s) = Outs(l, s)
        /\ \A s \in R : Outs(u, s) = Outs(r, s)
        /\ Outs(u, l.accept) = {r.start}
    <2>1. \A s \in L \ {l.accept} : Outs(u, s) = Outs(l, s)
      BY <1>1 DEF Outs
    <2>2. \A s \in R : Outs(u, s) = Outs(r, s)
      BY <1>1 DEF Outs
    <2>3. r.start # NULL
      BY <1>2
    <2>4. Outs(u, l.accept) = {r.start}
      BY <1>1, <2>3 DEF Outs
    <2> QED BY <2>1, <2>2, <2>4
  <1>7. Embeds(l, u) /\ Embeds(r, u)
    BY <1>1 DEF Embeds
  <1>8. ~ Enters(u, u.start)
    <2>1. ASSUME NEW s \in D PROVE l.start \notin Outs(u, s)
      <3>1. CASE s \in L \ {l.accept}
        BY <1>2, <1>6, <3>1 DEF Shape, Enters
      <3>2. CASE s = l.accept
        BY <1>2, <1>6, <3>2
      <3>3. CASE s \in R
        <4>1. Outs(r, s) \subseteq R
          BY <1>2, <3>3, OutsFacts
        <4> QED BY <1>2, <1>6, <3>3, <4>1
      <3> QED BY <1>3, <3>1, <3>2, <3>3
    <2> QED BY <1>1, <2>1 DEF Enters
  <1>9. ASSUME NEW s \in D, u.states[s].ch # EPSILON PROVE u.states[s].out2 = NULL
    <2>1. CASE s \in L \ {l.accept}
      BY <1>1, <1>2, <1>9, <2>1 DEF Shape
    <2>2. CASE s = l.accept
      BY <1>1, <2>2
    <2>3. CASE s \in R
      BY <1>1, <1>2, <1>9, <2>3 DEF Shape
    <2> QED BY <1>3, <2>1, <2>2, <2>3
  <1>10. ASSUME NEW T \in SUBSET D, T # {}, u.accept \notin T, Traps(u, T) PROVE FALSE
    <2>1. T \cap R = {}
      BY <1>1, <1>2, <1>7, <1>10, Embedded
    <2>2. l.accept \in T
      BY <1>2, <1>7, <1>10, <2>1, Embedded
    <2>3. r.start \in T
      BY <1>6, <1>10, <2>2 DEF Traps
    <2> QED BY <1>2, <2>1, <2>3
  <1>11. ASSUME NEW X \in SUBSET D, u.start \in X, EpsilonClosed(u, X)
         PROVE  \E s \in X : u.states[s].ch # EPSILON
    BY <1>1, <1>2, <1>7, <1>11, Embedded
  <1>12. Shape(u)
    <2>1. u.states[u.accept] = NewState
      BY <1>1, <1>2
    <2>2. DOMAIN u.states = D
      BY <1>1
    <2> HIDE DEF D
    <2> QED BY <1>8, <1>9, <1>10, <1>11, <2>1, <2>2 DEF Shape
  <1>13. Spans(u)
    <2> SUFFICES ASSUME NEW X \in SUBSET D, l.start \in X, Traps(u, X) PROVE X = D
      BY <1>1 DEF Spans
    <2>1. L \subseteq X
      BY <1>2, <1>7, Spanned, GoodFacts DEF Apart
    <2>2. r.start \in X
      BY <1>2, <1>6, <2>1 DEF Traps
    <2>3. R \subseteq X
      BY <1>2, <1>7, <2>2, Spanned, GoodFacts DEF Apart
    <2> QED BY <2>1, <2>3
  <1>14. Forks(u)
    <2>1. Forks(l) /\ Forks(r) /\ r.start # NULL
      BY <1>2, GoodFacts DEF Apart
    <2> SUFFICES ASSUME NEW s \in D, u.states[s].out1 = u.states[s].out2
                 PROVE  u.states[s].out1 = NULL
      BY <1>1 DEF Forks
    <2>2. CASE s \in L \ {l.accept}
      BY <1>1, <2>1, <2>2 DEF Forks
    <2>3. CASE s \in R
      BY <1>1, <2>1, <2>3 DEF Forks
    <2>4. CASE s = l.accept
      BY <1>1, <2>1, <2>4
    <2> QED BY <1>3, <2>2, <2>3, <2>4
  <1> QED BY <1>5, <1>12, <1>13, <1>14 DEF Good, u

\* What Wrap adds around the states that are there.
Wraps(w, f, D, start, new) ==
  LET E == D \cup {new, new + 1}
  IN  /\ DOMAIN w = E /\ w = [s \in E |-> w[s]]
      /\ w[new] = NewState /\ w[new + 1] = start
      /\ \A s \in D : w[s] = f[s]

LEMMA WrapFacts ==
  ASSUME NEW f, NEW D, f = [s \in D |-> f[s]], NEW start, NEW new, Unused(new, D)
  PROVE  Wraps(Wrap(f, new, start, new + 1), f, D, start, new)
  <1> DEFINE w == Wrap(f, new, start, new + 1)
             E == D \cup {new, new + 1}
  <1>1. DOMAIN f = D /\ DOMAIN f \cup {new, new + 1} = E
    OBVIOUS
  <1>2. DOMAIN w = E /\ w = [s \in E |-> w[s]]
    BY <1>1 DEF Wrap
  <1>3. w[new] = NewState /\ w[new + 1] = start
    BY <1>1 DEF Wrap, Unused
  <1>4. \A s \in D : w[s] = f[s]
    BY <1>1 DEF Wrap, Unused
  <1> HIDE DEF w
  <1> QED BY <1>2, <1>3, <1>4 DEF Wraps, w

\* What nfa_union() makes of the states.
IsUnion(u, l, r, new) ==
  LET L == DOMAIN l.states
      R == DOMAIN r.states
      D == L \cup R \cup {new, new + 1}
  IN  /\ u.start = new + 1 /\ u.accept = new
      /\ u.alphabet = l.alphabet \cup r.alphabet /\ u.size = l.size + 2 + r.size
      /\ u.mem_region = l.mem_region \cup r.mem_region \cup {new, new + 1}
      /\ DOMAIN u.states = D /\ u.states = [s \in D |-> u.states[s]]
      /\ \A s \in L \ {l.accept} : u.states[s] = l.states[s]
      /\ \A s \in R \ {r.accept} : u.states[s] = r.states[s]
      /\ u.states[l.accept] = [ch |-> EPSILON, out1 |-> new, out2 |-> NULL]
      /\ u.states[r.accept] = [ch |-> EPSILON, out1 |-> new, out2 |-> NULL]
      /\ u.states[new] = NewState
      /\ u.states[new + 1] = [ch |-> EPSILON, out1 |-> l.start, out2 |-> r.start]

LEMMA UnionStates ==
  ASSUME NEW l, NEW r, Apart(l, r), NEW new, Unused(new, l.mem_region \cup r.mem_region)
  PROVE  IsUnion(Union(l, r, new), l, r, new)
  <1> DEFINE u == Union(l, r, new)
             j == Joined(l, r)
             L == DOMAIN l.states
             R == DOMAIN r.states
             C == L \cup R
             D == C \cup {new, new + 1}
             f == [j EXCEPT ![l.accept].out1 = new, ![r.accept].out1 = new]
             start == [ch |-> EPSILON, out1 |-> l.start, out2 |-> r.start]
             w == Wrap(f, new, start, new + 1)
  <1>1. /\ u.start = new + 1 /\ u.accept = new
        /\ u.alphabet = l.alphabet \cup r.alphabet /\ u.size = l.size + 2 + r.size
        /\ u.mem_region = l.mem_region \cup r.mem_region \cup {new, new + 1}
        /\ u.states = w
    BY DEF Union
  <1>2. /\ L = l.mem_region /\ R = r.mem_region /\ L \cap R = {}
        /\ l.accept \in L /\ r.accept \in R /\ l.accept # r.accept
    <2>1. /\ L = l.mem_region /\ R = r.mem_region /\ L \cap R = {}
          /\ l.accept \in L /\ r.accept \in R
      BY GoodFacts DEF Apart
    <2> QED BY <2>1
  <1>3. /\ DOMAIN j = C /\ j = [s \in C |-> j[s]]
        /\ \A s \in L : j[s] = l.states[s]
        /\ \A s \in R : j[s] = r.states[s]
    BY <1>2 DEF Joined
  <1>4. j[l.accept] = NewState /\ j[r.accept] = NewState
    <2>1. l.states[l.accept] = NewState /\ r.states[r.accept] = NewState
      BY GoodFacts DEF Apart
    <2> HIDE DEF j
    <2> QED BY <1>2, <1>3, <2>1
  <1> HIDE DEF j
  <1>5. f = [s \in C |-> f[s]]
    BY <1>3
  <1>6. \A s \in C \ {l.accept, r.accept} : f[s] = j[s]
    BY <1>3
  <1>7. f[l.accept] = [ch |-> EPSILON, out1 |-> new, out2 |-> NULL]
    <2>1. f[l.accept] = [j[l.accept] EXCEPT !.out1 = new]
      BY <1>2, <1>3
    <2> QED BY <1>4, <2>1 DEF NewState
  <1>8. f[r.accept] = [ch |-> EPSILON, out1 |-> new, out2 |-> NULL]
    <2>1. f[r.accept] = [j[r.accept] EXCEPT !.out1 = new]
      BY <1>2, <1>3
    <2> QED BY <1>4, <2>1 DEF NewState
  <1> HIDE DEF f, start
  <1>9. Unused(new, C)
    BY <1>2
  <1>10. /\ DOMAIN w = D /\ w = [s \in D |-> w[s]]
         /\ w[new] = NewState /\ w[new + 1] = start
         /\ \A s \in C : w[s] = f[s]
    <2> HIDE DEF C
    <2>1. Wraps(w, f, C, start, new)
      BY <1>5, <1>9, WrapFacts
    <2> HIDE DEF w
    <2> QED BY <2>1 DEF Wraps
  <1> HIDE DEF w, u
  <1>11. /\ \A s \in L \ {l.accept} : u.states[s] = l.states[s]
         /\ \A s \in R \ {r.accept} : u.states[s] = r.states[s]
    <2>1. ASSUME NEW s \in C \ {l.accept, r.accept} PROVE u.states[s] = j[s]
      <3> HIDE DEF C
      <3> QED BY <1>1, <1>6, <1>10, <2>1
    <2>2. /\ L \ {l.accept} \subseteq C \ {l.accept, r.accept}
          /\ R \ {r.accept} \subseteq C \ {l.accept, r.accept}
      BY <1>2
    <2> HIDE DEF C
    <2> QED BY <1>3, <2>1, <2>2
  <1>12. /\ u.states[l.accept] = [ch |-> EPSILON, out1 |-> new, out2 |-> NULL]
         /\ u.states[r.accept] = [ch |-> EPSILON, out1 |-> new, out2 |-> NULL]
    BY <1>1, <1>2, <1>7, <1>8, <1>10
  <1>13. /\ DOMAIN u.states = D /\ u.states = [s \in D |-> u.states[s]]
         /\ u.states[new] = NewState /\ u.states[new + 1] = start
    BY <1>1, <1>10
  <1> HIDE DEF C
  <1>14. IsUnion(u, l, r, new)
    BY <1>1, <1>11, <1>12, <1>13 DEF IsUnion, start, C
  <1> QED BY <1>14 DEF u

LEMMA UnionGood ==
  ASSUME NEW l, NEW r, Apart(l, r), NEW new, Unused(new, l.mem_region \cup r.mem_region)
  PROVE  Good(Union(l, r, new))
  <1> DEFINE u == Union(l, r, new)
             L == DOMAIN l.states
             R == DOMAIN r.states
             D == L \cup R \cup {new, new + 1}
  <1>1. /\ u.start = new + 1 /\ u.accept = new
        /\ u.alphabet = l.alphabet \cup r.alphabet /\ u.size = l.size + 2 + r.size
        /\ u.mem_region = l.mem_region \cup r.mem_region \cup {new, new + 1}
        /\ DOMAIN u.states = D /\ u.states = [s \in D |-> u.states[s]]
        /\ \A s \in L \ {l.accept} : u.states[s] = l.states[s]
        /\ \A s \in R \ {r.accept} : u.states[s] = r.states[s]
        /\ u.states[l.accept] = [ch |-> EPSILON, out1 |-> new, out2 |-> NULL]
        /\ u.states[r.accept] = [ch |-> EPSILON, out1 |-> new, out2 |-> NULL]
        /\ u.states[new] = NewState
        /\ u.states[new + 1] = [ch |-> EPSILON, out1 |-> l.start, out2 |-> r.start]
    <2>1. IsUnion(u, l, r, new)
      BY UnionStates
    <2> HIDE DEF u
    <2> QED BY <2>1 DEF IsUnion
  <1> HIDE DEF u
  <1>2. /\ IsNFA(l) /\ Shape(l) /\ l.start \in L /\ l.accept \in L /\ L = l.mem_region
        /\ IsNFA(r) /\ Shape(r) /\ r.start \in R /\ r.accept \in R /\ R = r.mem_region
        /\ L \cap R = {} /\ NULL \notin L /\ NULL \notin R
        /\ l.states \in [L -> NFAState(l)] /\ r.states \in [R -> NFAState(r)]
        /\ l.size \in Nat /\ r.size \in Nat
    BY GoodFacts DEF Apart
  <1>3. ASSUME NEW s \in D
        PROVE  \/ s \in L \ {l.accept} \/ s \in R \ {r.accept}
               \/ s = l.accept \/ s = r.accept \/ s = new \/ s = new + 1
    OBVIOUS
  <1>4. new # new + 1 /\ {new, new + 1} \cap (L \cup R \cup {NULL}) = {}
    BY <1>2 DEF Unused
  <1>5. ASSUME NEW s \in D PROVE u.states[s] \in NFAState(u)
    <2>1. CASE s \in L \ {l.accept}
      <3>1. l.states[s] \in NFAState(l)
        BY <1>2, <2>1
      <3> QED BY <1>1, <2>1, <3>1 DEF NFAState
    <2>2. CASE s \in R \ {r.accept}
      <3>1. r.states[s] \in NFAState(r)
        BY <1>2, <2>2
      <3> QED BY <1>1, <2>2, <3>1 DEF NFAState
    <2>3. CASE s = l.accept \/ s = r.accept
      BY <1>1, <2>3 DEF NFAState
    <2>4. CASE s = new
      BY <1>1, <2>4 DEF NFAState, NewState
    <2>5. CASE s = new + 1
      BY <1>1, <1>2, <2>5 DEF NFAState
    <2> QED BY <1>3, <2>1, <2>2, <2>3, <2>4, <2>5
  <1>6. IsNFA(u) /\ u.size = Cardinality(u.mem_region)
    <2>1. /\ IsFiniteSet(L \cup R) /\ Cardinality(L \cup R) = l.size + r.size
          /\ IsFiniteSet(l.alphabet \cup r.alphabet)
          /\ l.alphabet \cup r.alphabet \subseteq Nat \ {EPSILON}
      BY <1>2, ApartFacts
    <2>2. /\ IsFiniteSet(L \cup R \cup {new, new + 1})
          /\ Cardinality(L \cup R \cup {new, new + 1}) = Cardinality(L \cup R) + 2
      BY <1>2, <2>1, PairFacts
    <2>3. Cardinality(u.mem_region) = l.size + 2 + r.size
      BY <1>1, <1>2, <2>1, <2>2
    <2>4. u.states \in [D -> NFAState(u)]
      BY <1>1, <1>5
    <2> QED BY <1>1, <1>2, <1>4, <2>1, <2>2, <2>3, <2>4 DEF IsNFA
  <1>7. /\ \A s \in L \ {l.accept} : Outs(u, s) = Outs(l, s)
        /\ \A s \in R \ {r.accept} : Outs(u, s) = Outs(r, s)
    BY <1>1 DEF Outs
  <1>8. /\ Outs(u, l.accept) = {new} /\ Outs(u, r.accept) = {new}
        /\ Outs(u, new) = {} /\ Outs(u, new + 1) = {l.start, r.start}
    <2>1. l.start # NULL /\ r.start # NULL /\ new # NULL
      BY <1>2, <1>4
    <2> QED BY <1>1, <2>1 DEF Outs, NewState
  <1>9. Embeds(l, u) /\ Embeds(r, u)
    BY <1>1 DEF Embeds
  <1>10. ~ Enters(u, u.start)
    <2>1. ASSUME NEW s \in D PROVE new + 1 \notin Outs(u, s)
      <3>1. CASE s \in L \ {l.accept}
        <4>1. Outs(l, s) \subseteq L
          BY <1>2, <3>1, OutsFacts
        <4> QED BY <1>4, <1>7, <3>1, <4>1
      <3>2. CASE s \in R \ {r.accept}
        <4>1. Outs(r, s) \subseteq R
          BY <1>2, <3>2, OutsFacts
        <4> QED BY <1>4, <1>7, <3>2, <4>1
      <3>3. CASE s \in {l.accept, r.accept, new, new + 1}
        BY <1>2, <1>4, <1>8, <3>3
      <3> QED BY <1>3, <3>1, <3>2, <3>3
    <2> QED BY <1>1, <2>1 DEF Enters
  <1>11. ASSUME NEW s \in D, u.states[s].ch # EPSILON PROVE u.states[s].out2 = NULL
    <2>1. CASE s \in L \ {l.accept}
      BY <1>1, <1>2, <1>11, <2>1 DEF Shape
    <2>2. CASE s \in R \ {r.accept}
      BY <1>1, <1>2, <1>11, <2>2 DEF Shape
    <2>3. CASE s \in {l.accept, r.accept, new, new + 1}
      BY <1>1, <1>11, <2>3 DEF NewState
    <2> QED BY <1>3, <2>1, <2>2, <2>3
  <1>12. ASSUME NEW T \in SUBSET D, T # {}, u.accept \notin T, Traps(u, T) PROVE FALSE
    <2>1. l.accept \notin T /\ r.accept \notin T
      BY <1>1, <1>8, <1>12 DEF Traps
    <2>2. T \cap L = {} /\ T \cap R = {}
      BY <1>2, <1>9, <1>12, <2>1, Embedded
    <2>3. new + 1 \in T
      BY <1>1, <1>12, <2>2
    <2>4. l.start \in T
      BY <1>8, <1>12, <2>3 DEF Traps
    <2> QED BY <1>2, <2>2, <2>4
  <1>13. ASSUME NEW X \in SUBSET D, u.start \in X, EpsilonClosed(u, X)
         PROVE  \E s \in X : u.states[s].ch # EPSILON
    <2>1. l.start \in X
      BY <1>1, <1>8, <1>13, ClosedFacts
    <2> QED BY <1>2, <1>9, <1>13, <2>1, Embedded
  <1>14. Shape(u)
    BY <1>1, <1>10, <1>11, <1>12, <1>13 DEF Shape
  <1>15. Spans(u)
    <2> SUFFICES ASSUME NEW X \in SUBSET D, new + 1 \in X, Traps(u, X) PROVE X = D
      BY <1>1 DEF Spans
    <2>1. l.start \in X /\ r.start \in X
      BY <1>8 DEF Traps
    <2>2. L \subseteq X /\ R \subseteq X
      BY <1>2, <1>9, <2>1, Spanned, GoodFacts DEF Apart
    <2>3. new \in X
      BY <1>2, <1>8, <2>2 DEF Traps
    <2> QED BY <2>2, <2>3
  <1>16. Forks(u)
    <2>1. Forks(l) /\ Forks(r) /\ new # NULL /\ l.start # r.start
      BY <1>2, <1>4, GoodFacts DEF Apart
    <2> SUFFICES ASSUME NEW s \in D, u.states[s].out1 = u.states[s].out2
                 PROVE  u.states[s].out1 = NULL
      BY <1>1 DEF Forks
    <2>2. CASE s \in L \ {l.accept}
      BY <1>1, <2>1, <2>2 DEF Forks
    <2>3. CASE s \in R \ {r.accept}
      BY <1>1, <2>1, <2>3 DEF Forks
    <2>4. CASE s = l.accept \/ s = r.accept \/ s = new \/ s = new + 1
      BY <1>1, <2>1, <2>4 DEF NewState
    <2> QED BY <1>3, <2>2, <2>3, <2>4
  <1> QED BY <1>6, <1>14, <1>15, <1>16 DEF Good, u

\* What transform() makes of the states: it may lead back to the old start and
\* past the old states.
IsTransform(u, n, new, back, skip) ==
  LET D == DOMAIN n.states \cup {new, new + 1}
  IN  /\ u.start = new + 1 /\ u.accept = new
      /\ u.alphabet = n.alphabet /\ u.size = n.size + 2
      /\ u.mem_region = n.mem_region \cup {new, new + 1}
      /\ DOMAIN u.states = D /\ u.states = [s \in D |-> u.states[s]]
      /\ \A s \in DOMAIN n.states \ {n.accept} : u.states[s] = n.states[s]
      /\ u.states[n.accept] = [ch |-> EPSILON, out1 |-> new, out2 |-> back]
      /\ u.states[new] = NewState
      /\ u.states[new + 1] = [ch |-> EPSILON, out1 |-> n.start, out2 |-> skip]

\* The second ways out of the old accept and of the new start state.
Back(n, quantifier) == IF quantifier \in {"*", "+"} THEN n.start ELSE NULL
Skip(quantifier, new) == IF quantifier \in {"*", "?"} THEN new ELSE NULL

LEMMA TransformStates ==
  ASSUME NEW n, Good(n), NEW quantifier, NEW new, Unused(new, n.mem_region)
  PROVE  IsTransform(Transform(n, quantifier, new), n, new,
                     Back(n, quantifier), Skip(quantifier, new))
  <1> DEFINE u == Transform(n, quantifier, new)
             D == DOMAIN n.states
             cyclesBack == quantifier \in {"*", "+"}
             maySkip == quantifier \in {"*", "?"}
             f == [n.states EXCEPT ![n.accept] =
                     [ch   |-> @.ch,
                      out1 |-> new,
                      out2 |-> IF cyclesBack THEN n.start ELSE @.out2]]
             back == Back(n, quantifier)
             skip == Skip(quantifier, new)
             start == [ch |-> EPSILON, out1 |-> n.start, out2 |-> skip]
             w == Wrap(f, new, start, new + 1)
  <1>1. /\ u.start = new + 1 /\ u.accept = new
        /\ u.alphabet = n.alphabet /\ u.size = n.size + 2
        /\ u.mem_region = n.mem_region \cup {new, new + 1}
        /\ u.states = w
    BY DEF Transform, Skip
  <1>2. /\ D = n.mem_region /\ n.accept \in D /\ n.states = [s \in D |-> n.states[s]]
        /\ n.states[n.accept] = NewState
    BY GoodFacts
  <1>3. f = [s \in D |-> f[s]] /\ \A s \in D \ {n.accept} : f[s] = n.states[s]
    BY <1>2
  <1>4. f[n.accept] = [ch |-> EPSILON, out1 |-> new, out2 |-> back]
    BY <1>2 DEF NewState, Back
  <1> HIDE DEF f, start
  <1>5. Wraps(w, f, D, start, new)
    <2> HIDE DEF D
    <2> QED BY <1>2, <1>3, WrapFacts
  <1> HIDE DEF w, u
  <1>6. IsTransform(u, n, new, back, skip)
    <2>1. /\ DOMAIN u.states = D \cup {new, new + 1}
          /\ u.states = [s \in D \cup {new, new + 1} |-> u.states[s]]
          /\ u.states[new] = NewState /\ u.states[new + 1] = start
          /\ \A s \in D : u.states[s] = f[s]
      BY <1>1, <1>5 DEF Wraps
    <2>2. u.states[n.accept] = [ch |-> EPSILON, out1 |-> new, out2 |-> back]
      BY <1>2, <1>4, <2>1
    <2>3. \A s \in D \ {n.accept} : u.states[s] = n.states[s]
      BY <1>3, <2>1
    <2> HIDE DEF back, skip
    <2> QED BY <1>1, <2>1, <2>2, <2>3 DEF IsTransform, start
  <1> QED BY <1>6 DEF u

LEMMA TransformGood ==
  ASSUME NEW n, Good(n), NEW quantifier, NEW new, Unused(new, n.mem_region)
  PROVE  Good(Transform(n, quantifier, new))
  <1> DEFINE u == Transform(n, quantifier, new)
             N == DOMAIN n.states
             D == N \cup {new, new + 1}
  <1>0. PICK back \in {n.start, NULL}, skip \in {new, NULL} : IsTransform(u, n, new, back, skip)
    BY TransformStates DEF Back, Skip
  <1> HIDE DEF u
  <1>1. /\ u.start = new + 1 /\ u.accept = new
        /\ u.alphabet = n.alphabet /\ u.size = n.size + 2
        /\ u.mem_region = n.mem_region \cup {new, new + 1}
        /\ DOMAIN u.states = D /\ u.states = [s \in D |-> u.states[s]]
        /\ \A s \in N \ {n.accept} : u.states[s] = n.states[s]
        /\ u.states[n.accept] = [ch |-> EPSILON, out1 |-> new, out2 |-> back]
        /\ u.states[new] = NewState
        /\ u.states[new + 1] = [ch |-> EPSILON, out1 |-> n.start, out2 |-> skip]
    BY <1>0 DEF IsTransform
  <1>2. /\ IsNFA(n) /\ Shape(n) /\ n.start \in N /\ n.accept \in N /\ N = n.mem_region
        /\ NULL \notin N /\ n.states \in [N -> NFAState(n)]
        /\ n.size \in Nat /\ n.size = Cardinality(N)
        /\ IsFiniteSet(n.alphabet) /\ IsFiniteSet(N) /\ n.alphabet \subseteq Nat \ {EPSILON}
    BY GoodFacts
  <1>3. ASSUME NEW s \in D
        PROVE  s \in N \ {n.accept} \/ s = n.accept \/ s = new \/ s = new + 1
    OBVIOUS
  <1>4. new # new + 1 /\ {new, new + 1} \cap (N \cup {NULL}) = {}
    BY <1>2 DEF Unused
  <1>5. ASSUME NEW s \in D PROVE u.states[s] \in NFAState(u)
    <2>1. CASE s \in N \ {n.accept}
      <3>1. n.states[s] \in NFAState(n)
        BY <1>2, <2>1
      <3> QED BY <1>1, <2>1, <3>1 DEF NFAState
    <2>2. CASE s = n.accept
      BY <1>1, <1>2, <2>2 DEF NFAState
    <2>3. CASE s = new
      BY <1>1, <2>3 DEF NFAState, NewState
    <2>4. CASE s = new + 1
      BY <1>1, <1>2, <2>4 DEF NFAState
    <2> QED BY <1>3, <2>1, <2>2, <2>3, <2>4
  <1>6. IsNFA(u) /\ u.size = Cardinality(u.mem_region)
    <2>1. /\ IsFiniteSet(N \cup {new, new + 1})
          /\ Cardinality(N \cup {new, new + 1}) = Cardinality(N) + 2
      BY <1>2, PairFacts
    <2>2. u.states \in [D -> NFAState(u)]
      BY <1>1, <1>5
    <2> QED BY <1>1, <1>2, <1>4, <2>1, <2>2 DEF IsNFA
  <1>7. \A s \in N \ {n.accept} : Outs(u, s) = Outs(n, s)
    BY <1>1 DEF Outs
  <1>8. /\ new \in Outs(u, n.accept) /\ Outs(u, n.accept) \subseteq {new, n.start}
        /\ Outs(u, new) = {}
        /\ n.start \in Outs(u, new + 1) /\ Outs(u, new + 1) \subseteq {new, n.start}
    <2>1. n.start # NULL /\ new # NULL
      BY <1>2, <1>4
    <2> QED BY <1>1, <2>1 DEF Outs, NewState
  <1>9. Embeds(n, u)
    BY <1>1 DEF Embeds
  <1>10. ~ Enters(u, u.start)
    <2>1. ASSUME NEW s \in D PROVE new + 1 \notin Outs(u, s)
      <3>1. CASE s \in N \ {n.accept}
        <4>1. Outs(n, s) \subseteq N
          BY <1>2, <3>1, OutsFacts
        <4> QED BY <1>4, <1>7, <3>1, <4>1
      <3>2. CASE s \in {n.accept, new, new + 1}
        BY <1>2, <1>4, <1>8, <3>2
      <3> QED BY <1>3, <3>1, <3>2
    <2> QED BY <1>1, <2>1 DEF Enters
  <1>11. ASSUME NEW s \in D, u.states[s].ch # EPSILON PROVE u.states[s].out2 = NULL
    <2>1. CASE s \in N \ {n.accept}
      BY <1>1, <1>2, <1>11, <2>1 DEF Shape
    <2>2. CASE s \in {n.accept, new, new + 1}
      BY <1>1, <1>11, <2>2 DEF NewState
    <2> QED BY <1>3, <2>1, <2>2
  <1>12. ASSUME NEW T \in SUBSET D, T # {}, u.accept \notin T, Traps(u, T) PROVE FALSE
    <2>1. n.accept \notin T
      BY <1>1, <1>8, <1>12 DEF Traps
    <2>2. T \cap N = {}
      BY <1>2, <1>9, <1>12, <2>1, Embedded
    <2>3. new + 1 \in T
      BY <1>1, <1>12, <2>2
    <2>4. n.start \in T
      BY <1>8, <1>12, <2>3 DEF Traps
    <2> QED BY <1>2, <2>2, <2>4
  <1>13. ASSUME NEW X \in SUBSET D, u.start \in X, EpsilonClosed(u, X)
         PROVE  \E s \in X : u.states[s].ch # EPSILON
    <2>1. n.start \in X
      BY <1>1, <1>8, <1>13, ClosedFacts
    <2> QED BY <1>2, <1>9, <1>13, <2>1, Embedded
  <1>14. Shape(u)
    BY <1>1, <1>10, <1>11, <1>12, <1>13 DEF Shape
  <1>15. Spans(u)
    <2> SUFFICES ASSUME NEW X \in SUBSET D, new + 1 \in X, Traps(u, X) PROVE X = D
      BY <1>1 DEF Spans
    <2>1. n.start \in X
      BY <1>8 DEF Traps
    <2>2. N \subseteq X
      BY <1>2, <1>9, <2>1, Spanned, GoodFacts
    <2>3. new \in X
      BY <1>2, <1>8, <2>2 DEF Traps
    <2> QED BY <2>2, <2>3
  <1>16. Forks(u)
    <2>1. Forks(n) /\ new # NULL /\ n.start # NULL /\ n.start # new
      BY <1>2, <1>4, GoodFacts
    <2> SUFFICES ASSUME NEW s \in D, u.states[s].out1 = u.states[s].out2
                 PROVE  u.states[s].out1 = NULL
      BY <1>1 DEF Forks
    <2>2. CASE s \in N \ {n.accept}
      BY <1>1, <2>1, <2>2 DEF Forks
    <2>3. CASE s = n.accept \/ s = new \/ s = new + 1
      BY <1>1, <2>1, <2>3 DEF NewState
    <2> QED BY <1>3, <2>2, <2>3
  <1> QED BY <1>6, <1>14, <1>15, <1>16 DEF Good, u

-----------------------------------------------------------------------------
(***************************************************************************)
(* What the constructions make of the words.  A marking says of each state *)
(* at which places of the word w, numbers of characters read, an NFA is in *)
(* it.  A run leads wherever every marking that is closed under the steps  *)
(* leads.                                                                  *)
(***************************************************************************)

Places(w) == 0 .. Len(w)

Step(n, w, s, k, t, m) ==
  IF n.states[s].ch = EPSILON THEN t \in Outs(n, s) /\ m = k
  ELSE k < Len(w) /\ w[k + 1] = n.states[s].ch /\ t = n.states[s].out1 /\ m = k + 1

Markings(n, w) == [DOMAIN n.states -> SUBSET Places(w)]

ClosedMarking(n, w, Y) ==
  \A s, t \in DOMAIN n.states, k, m \in Places(w) :
    k \in Y[s] /\ Step(n, w, s, k, t, m) => m \in Y[t]

Run(n, w, s, i, t, j) ==
  \A Y \in Markings(n, w) : i \in Y[s] /\ ClosedMarking(n, w, Y) => j \in Y[t]

\* n accepts what stands between the places i and j.
Accepted(n, w, i, j) == Run(n, w, n.start, i, n.accept, j)

LEMMA RunFurther ==
  ASSUME NEW n, NEW w, NEW a, NEW i, NEW s, NEW k, NEW t, NEW m, Run(n, w, a, i, s, k)
  PROVE  /\ Run(n, w, s, k, t, m) => Run(n, w, a, i, t, m)
         /\ /\ s \in DOMAIN n.states /\ t \in DOMAIN n.states
            /\ k \in Places(w) /\ m \in Places(w)
            /\ Step(n, w, s, k, t, m)
            => Run(n, w, a, i, t, m)
  BY DEF Run, ClosedMarking

LEMMA RunStays ==
  ASSUME NEW n, NEW w, NEW s, NEW i
  PROVE  Run(n, w, s, i, s, i)
  BY DEF Run

LEMMA RunStep ==
  ASSUME NEW n, NEW w, NEW s \in DOMAIN n.states, NEW t \in DOMAIN n.states,
         NEW k \in Places(w), n.states[s].ch = EPSILON, t \in Outs(n, s)
  PROVE  Run(n, w, s, k, t, k)
  BY DEF Run, ClosedMarking, Step

LEMMA StepStays ==
  ASSUME NEW n, Good(n), NEW w, Len(w) \in Nat, NEW s \in DOMAIN n.states,
         NEW k \in Places(w), NEW t, NEW m, Step(n, w, s, k, t, m)
  PROVE  s # n.accept /\ t \in DOMAIN n.states /\ m \in Places(w) /\ k <= m
  <1> DEFINE D == DOMAIN n.states
  <1>1. /\ IsNFA(n) /\ Shape(n) /\ n.states[n.accept] = NewState
        /\ n.states[s] \in NFAState(n)
    BY GoodFacts
  <1>2. CASE n.states[s].ch = EPSILON
    <2>1. t \in Outs(n, s) /\ m = k
      BY <1>2 DEF Step
    <2>2. Outs(n, n.accept) = {}
      BY <1>1 DEF Outs, NewState
    <2>3. t \in D
      BY <1>1, <2>1, OutsFacts
    <2> QED BY <2>1, <2>2, <2>3 DEF Places
  <1>3. CASE n.states[s].ch # EPSILON
    <2>1. k < Len(w) /\ t = n.states[s].out1 /\ m = k + 1
      BY <1>3 DEF Step
    <2>2. s # n.accept
      BY <1>1, <1>3 DEF NewState
    <2>3. n.states[s].out1 \in D
      <3>1. SUFFICES ASSUME n.states[s].out1 = NULL PROVE FALSE
        BY <1>1 DEF NFAState
      <3>2. Outs(n, s) = {}
        BY <1>1, <1>3, <3>1 DEF Shape, Outs
      <3>3. Traps(n, {s}) /\ {s} \in SUBSET D
        BY <3>2 DEF Traps
      <3> QED BY <1>1, <2>2, <3>3 DEF Shape
    <2>4. m \in Places(w) /\ k <= m
      BY <2>1 DEF Places
    <2> QED BY <2>1, <2>2, <2>3, <2>4
  <1> QED BY <1>2, <1>3

LEMMA RunsForward ==
  ASSUME NEW n, Good(n), NEW w, Len(w) \in Nat, NEW i \in Places(w), NEW j, Accepted(n, w, i, j)
  PROVE  j \in Places(w) /\ i <= j
  <1> DEFINE P == {k \in Places(w) : i <= k}
             Y == [s \in DOMAIN n.states |-> P]
  <1>1. n.start \in DOMAIN n.states /\ n.accept \in DOMAIN n.states
    BY GoodFacts
  <1>2. Y \in Markings(n, w) /\ i \in Y[n.start]
    BY <1>1 DEF Markings, Places
  <1>3. ClosedMarking(n, w, Y)
    <2> SUFFICES ASSUME NEW s \in DOMAIN n.states, NEW t \in DOMAIN n.states,
                        NEW k \in Places(w), NEW m \in Places(w),
                        k \in Y[s], Step(n, w, s, k, t, m)
                 PROVE  m \in Y[t]
      BY DEF ClosedMarking
    <2>1. k <= m /\ i <= k
      BY StepStays
    <2> QED BY <2>1 DEF Places
  <1>4. j \in Y[n.accept]
    <2> HIDE DEF Y
    <2> QED BY <1>2, <1>3 DEF Accepted, Run
  <1> QED BY <1>1, <1>4

\* In an NFA that n is embedded in, the states of n step as before.
LEMMA EmbeddedStep ==
  ASSUME NEW n, Good(n), NEW u, Embeds(n, u), NEW w, Len(w) \in Nat,
         NEW s \in DOMAIN n.states \ {n.accept}, NEW k \in Places(w), NEW t, NEW m,
         Step(u, w, s, k, t, m)
  PROVE  /\ t \in DOMAIN n.states /\ m \in Places(w)
         /\ \A a, i : Run(n, w, a, i, s, k) => Run(n, w, a, i, t, m)
  <1>1. Step(n, w, s, k, t, m)
    BY DEF Step, Embeds, Outs
  <1>2. t \in DOMAIN n.states /\ m \in Places(w)
    BY <1>1, StepStays
  <1> QED BY <1>1, <1>2, RunFurther

LEMMA EmbeddedRun ==
  ASSUME NEW n, Good(n), NEW u, Embeds(n, u), NEW w, Len(w) \in Nat,
         NEW s \in DOMAIN n.states, NEW i \in Places(w),
         NEW t \in DOMAIN n.states, NEW j, Run(n, w, s, i, t, j)
  PROVE  Run(u, w, s, i, t, j)
  <1> DEFINE N == DOMAIN n.states
  <1> SUFFICES ASSUME NEW Y \in Markings(u, w), i \in Y[s], ClosedMarking(u, w, Y)
               PROVE  j \in Y[t]
    BY DEF Run
  <1> DEFINE Z == [x \in N |-> Y[x]]
  <1>1. N \subseteq DOMAIN u.states
    BY DEF Embeds
  <1>2. Z \in Markings(n, w)
    BY <1>1 DEF Markings
  <1>3. ClosedMarking(n, w, Z)
    <2> SUFFICES ASSUME NEW a \in N, NEW b \in N, NEW k \in Places(w), NEW m \in Places(w),
                        k \in Z[a], Step(n, w, a, k, b, m)
                 PROVE  m \in Z[b]
      BY DEF ClosedMarking
    <2>1. a # n.accept
      BY StepStays
    <2>2. Step(u, w, a, k, b, m)
      BY <2>1 DEF Step, Embeds, Outs
    <2>3. m \in Y[b]
      BY <1>1, <2>2 DEF ClosedMarking
    <2> QED BY <2>3
  <1>4. i \in Z[s]
    OBVIOUS
  <1>5. j \in Z[t]
    <2> HIDE DEF Z
    <2> QED BY <1>2, <1>3, <1>4 DEF Run
  <1> QED BY <1>5

\* A run through an NFA that is embedded in another one.
LEMMA RunThrough ==
  ASSUME NEW n, Good(n), NEW u, Embeds(n, u), NEW w, Len(w) \in Nat,
         NEW i \in Places(w), NEW j, Accepted(n, w, i, j),
         NEW a \in DOMAIN u.states, u.states[a].ch = EPSILON, n.start \in Outs(u, a)
  PROVE  Run(u, w, a, i, n.accept, j)
  <1>1. n.start \in DOMAIN n.states /\ n.accept \in DOMAIN n.states
    BY GoodFacts
  <1>2. n.start \in DOMAIN u.states
    BY <1>1 DEF Embeds
  <1>3. Run(u, w, a, i, n.start, i)
    BY <1>2, RunStep
  <1>4. Run(u, w, n.start, i, n.accept, j)
    BY <1>1, EmbeddedRun DEF Accepted
  <1> QED BY <1>3, <1>4, RunFurther

\* init_thompson_nfa() makes an NFA of one character.
LEMMA InitThompsonReads ==
  ASSUME NEW ch \in Nat \ {EPSILON}, NEW new \in Nat, NEW w, Len(w) \in Nat,
         NEW i \in Places(w), NEW j \in Places(w)
  PROVE  Accepted(InitThompson(ch, new), w, i, j) <=> j = i + 1 /\ w[j] = ch
  <1> DEFINE u == InitThompson(ch, new)
             D == {new, new + 1}
  <1>1. Unused(new, {}) /\ Good(u)
    BY UnusedFacts, InitThompsonGood
  <1>2. /\ u.start = new /\ u.accept = new + 1 /\ DOMAIN u.states = D
        /\ u.states[new] = [ch |-> ch, out1 |-> new + 1, out2 |-> NULL]
    BY <1>1 DEF InitThompson, Unused
  <1> HIDE DEF u
  <1>3. ASSUME NEW k \in Places(w), NEW t, NEW m
        PROVE  Step(u, w, new, k, t, m) <=>
                 k < Len(w) /\ w[k + 1] = ch /\ t = new + 1 /\ m = k + 1
    BY <1>2 DEF Step
  <1>4. ASSUME j = i + 1, w[j] = ch PROVE Accepted(u, w, i, j)
    <2>1. i < Len(w) /\ w[i + 1] = ch
      BY <1>4 DEF Places
    <2>2. Step(u, w, new, i, new + 1, j)
      BY <1>3, <1>4, <2>1
    <2>3. Run(u, w, new, i, new, i)
      BY RunStays
    <2> QED BY <1>2, <2>2, <2>3, RunFurther DEF Accepted
  <1>5. ASSUME Accepted(u, w, i, j) PROVE j = i + 1 /\ w[j] = ch
    <2> DEFINE Y == [s \in D |-> IF s = new THEN {i}
                                 ELSE {k \in Places(w) : k = i + 1 /\ w[k] = ch}]
    <2>1. Y \in Markings(u, w) /\ i \in Y[new]
      BY <1>2 DEF Markings
    <2>2. ClosedMarking(u, w, Y)
      <3> SUFFICES ASSUME NEW s \in D, NEW t \in D, NEW k \in Places(w), NEW m \in Places(w),
                          k \in Y[s], Step(u, w, s, k, t, m)
                   PROVE  m \in Y[t]
        BY <1>2 DEF ClosedMarking
      <3>1. s = new
        <4>1. s \in DOMAIN u.states
          BY <1>2
        <4>2. s # u.accept
          BY <1>1, <4>1, StepStays
        <4> QED BY <1>2, <4>2
      <3>2. k = i /\ w[k + 1] = ch /\ t = new + 1 /\ m = k + 1
        BY <1>3, <3>1
      <3> QED BY <1>1, <3>2 DEF Unused
    <2>3. j \in Y[new + 1]
      <3> HIDE DEF Y
      <3> QED BY <1>2, <1>5, <2>1, <2>2 DEF Accepted, Run
    <2> QED BY <1>1, <2>3 DEF Unused
  <1> QED BY <1>4, <1>5 DEF u

\* nfa_union() makes an NFA of the words of either.
LEMMA UnionReads ==
  ASSUME NEW l, NEW r, Apart(l, r), NEW new, Unused(new, l.mem_region \cup r.mem_region),
         NEW w, Len(w) \in Nat, NEW i \in Places(w), NEW j \in Places(w)
  PROVE  Accepted(Union(l, r, new), w, i, j) <=> Accepted(l, w, i, j) \/ Accepted(r, w, i, j)
  <1> DEFINE u == Union(l, r, new)
             L == DOMAIN l.states
             R == DOMAIN r.states
             D == L \cup R \cup {new, new + 1}
             Either(k) == Accepted(l, w, i, k) \/ Accepted(r, w, i, k)
  <1>1. /\ u.start = new + 1 /\ u.accept = new /\ DOMAIN u.states = D
        /\ \A s \in L \ {l.accept} : u.states[s] = l.states[s]
        /\ \A s \in R \ {r.accept} : u.states[s] = r.states[s]
        /\ u.states[l.accept] = [ch |-> EPSILON, out1 |-> new, out2 |-> NULL]
        /\ u.states[r.accept] = [ch |-> EPSILON, out1 |-> new, out2 |-> NULL]
        /\ u.states[new] = NewState
        /\ u.states[new + 1] = [ch |-> EPSILON, out1 |-> l.start, out2 |-> r.start]
    <2>1. IsUnion(u, l, r, new)
      BY UnionStates
    <2> HIDE DEF u
    <2> QED BY <2>1 DEF IsUnion
  <1> HIDE DEF u
  <1>2. /\ Good(l) /\ l.start \in L /\ l.accept \in L /\ L = l.mem_region
        /\ Good(r) /\ r.start \in R /\ r.accept \in R /\ R = r.mem_region
        /\ L \cap R = {} /\ NULL \notin L /\ NULL \notin R
    BY GoodFacts DEF Apart
  <1>3. new # new + 1 /\ {new, new + 1} \cap (L \cup R \cup {NULL}) = {}
    BY <1>2 DEF Unused
  <1>4. Embeds(l, u) /\ Embeds(r, u)
    BY <1>1 DEF Embeds
  <1>5. /\ Outs(u, new + 1) = {l.start, r.start} /\ Outs(u, new) = {}
        /\ Outs(u, l.accept) = {new} /\ Outs(u, r.accept) = {new}
    BY <1>1, <1>2, <1>3 DEF Outs, NewState
  <1>6. /\ u.states[new + 1].ch = EPSILON /\ u.states[new].ch = EPSILON
        /\ u.states[l.accept].ch = EPSILON /\ u.states[r.accept].ch = EPSILON
        /\ {new, new + 1, l.accept, r.accept} \subseteq DOMAIN u.states
    BY <1>1, <1>2 DEF NewState
  <1>7. ASSUME Either(j) PROVE Accepted(u, w, i, j)
    <2>1. CASE Accepted(l, w, i, j)
      <3>1. Run(u, w, new + 1, i, l.accept, j)
        BY <1>2, <1>4, <1>5, <1>6, <2>1, RunThrough
      <3>2. Run(u, w, l.accept, j, new, j)
        BY <1>5, <1>6, RunStep
      <3> QED BY <1>1, <3>1, <3>2, RunFurther DEF Accepted
    <2>2. CASE Accepted(r, w, i, j)
      <3>1. Run(u, w, new + 1, i, r.accept, j)
        BY <1>2, <1>4, <1>5, <1>6, <2>2, RunThrough
      <3>2. Run(u, w, r.accept, j, new, j)
        BY <1>5, <1>6, RunStep
      <3> QED BY <1>1, <3>1, <3>2, RunFurther DEF Accepted
    <2> QED BY <1>7, <2>1, <2>2
  <1>8. ASSUME Accepted(u, w, i, j) PROVE Either(j)
    <2> DEFINE Reached(s, k) ==
                 \/ s \in L /\ Run(l, w, l.start, i, s, k)
                 \/ s \in R /\ Run(r, w, r.start, i, s, k)
                 \/ s = new /\ Either(k)
                 \/ s = new + 1 /\ k = i
               Y == [s \in D |-> {k \in Places(w) : Reached(s, k)}]
    <2>1. Y \in Markings(u, w) /\ i \in Y[new + 1]
      BY <1>1 DEF Markings
    <2>2. ASSUME NEW s \in D, NEW t \in D, NEW k \in Places(w), NEW m \in Places(w),
                 Reached(s, k), Step(u, w, s, k, t, m)
          PROVE  Reached(t, m)
      <3>1. CASE s \in L \ {l.accept}
        <4>1. Run(l, w, l.start, i, s, k)
          BY <1>2, <1>3, <2>2, <3>1
        <4>2. t \in L /\ Run(l, w, l.start, i, t, m)
          BY <1>2, <1>4, <2>2, <3>1, <4>1, EmbeddedStep
        <4> QED BY <4>2
      <3>2. CASE s \in R \ {r.accept}
        <4>1. Run(r, w, r.start, i, s, k)
          BY <1>2, <1>3, <2>2, <3>2
        <4>2. t \in R /\ Run(r, w, r.start, i, t, m)
          BY <1>2, <1>4, <2>2, <3>2, <4>1, EmbeddedStep
        <4> QED BY <4>2
      <3>3. CASE s = l.accept
        <4>1. Accepted(l, w, i, k)
          BY <1>2, <1>3, <2>2, <3>3 DEF Accepted
        <4>2. t = new /\ m = k
          BY <1>5, <1>6, <2>2, <3>3 DEF Step
        <4> QED BY <4>1, <4>2
      <3>4. CASE s = r.accept
        <4>1. Accepted(r, w, i, k)
          BY <1>2, <1>3, <2>2, <3>4 DEF Accepted
        <4>2. t = new /\ m = k
          BY <1>5, <1>6, <2>2, <3>4 DEF Step
        <4> QED BY <4>1, <4>2
      <3>5. CASE s = new
        BY <1>5, <1>6, <2>2, <3>5 DEF Step
      <3>6. CASE s = new + 1
        <4>1. k = i
          BY <1>2, <1>3, <2>2, <3>6
        <4>2. t \in {l.start, r.start} /\ m = k
          BY <1>5, <1>6, <2>2, <3>6 DEF Step
        <4> QED BY <1>2, <4>1, <4>2, RunStays
      <3> QED BY <3>1, <3>2, <3>3, <3>4, <3>5, <3>6
    <2>3. ClosedMarking(u, w, Y)
      <3> HIDE DEF D, Reached
      <3> QED BY <1>1, <2>2 DEF ClosedMarking
    <2>4. j \in Y[new]
      <3> HIDE DEF Y
      <3> QED BY <1>1, <1>8, <2>1, <2>3 DEF Accepted, Run
    <2>5. Reached(new, j)
      <3> HIDE DEF Reached
      <3> QED BY <2>4
    <2> QED BY <1>3, <2>5
  <1> QED BY <1>7, <1>8 DEF u

\* nfa_append() makes an NFA of the words of the one followed by those of the other.
LEMMA ConcatReads ==
  ASSUME NEW l, NEW r, Apart(l, r),
         NEW w, Len(w) \in Nat, NEW i \in Places(w), NEW j \in Places(w)
  PROVE  Accepted(Concat(l, r), w, i, j) <=>
           \E k \in Places(w) : Accepted(l, w, i, k) /\ Accepted(r, w, k, j)
  <1> DEFINE u == Concat(l, r)
             L == DOMAIN l.states
             R == DOMAIN r.states
             D == L \cup R
  <1>1. /\ u.start = l.start /\ u.accept = r.accept
        /\ u.alphabet = l.alphabet \cup r.alphabet /\ u.size = l.size + r.size
        /\ u.mem_region = l.mem_region \cup r.mem_region
        /\ DOMAIN u.states = D /\ u.states = [s \in D |-> u.states[s]]
        /\ \A s \in L \ {l.accept} : u.states[s] = l.states[s]
        /\ \A s \in R : u.states[s] = r.states[s]
        /\ u.states[l.accept] = [ch |-> EPSILON, out1 |-> r.start, out2 |-> NULL]
    <2>1. IsConcat(u, l, r)
      BY ConcatStates
    <2> HIDE DEF u
    <2> QED BY <2>1 DEF IsConcat
  <1> HIDE DEF u
  <1>2. /\ Good(l) /\ l.start \in L /\ l.accept \in L
        /\ Good(r) /\ r.start \in R /\ r.accept \in R /\ r.states[r.accept] = NewState
        /\ L \cap R = {} /\ NULL \notin L /\ NULL \notin R
    BY GoodFacts DEF Apart
  <1>3. Embeds(l, u) /\ Embeds(r, u)
    BY <1>1 DEF Embeds
  <1>4. /\ Outs(u, l.accept) = {r.start} /\ u.states[l.accept].ch = EPSILON
        /\ Outs(u, r.accept) = {} /\ u.states[r.accept].ch = EPSILON
    <2>1. u.states[r.accept] = NewState
      BY <1>1, <1>2
    <2>2. r.start # NULL
      BY <1>2
    <2> QED BY <1>1, <2>1, <2>2 DEF Outs, NewState
  <1>5. ASSUME NEW k \in Places(w), Accepted(l, w, i, k), Accepted(r, w, k, j)
        PROVE  Accepted(u, w, i, j)
    <2>1. Run(u, w, l.start, i, l.accept, k)
      BY <1>2, <1>3, <1>5, EmbeddedRun DEF Accepted
    <2>2. Run(u, w, l.accept, k, r.accept, j)
      BY <1>1, <1>2, <1>3, <1>4, <1>5, RunThrough
    <2> QED BY <1>1, <2>1, <2>2, RunFurther DEF Accepted
  <1>6. ASSUME Accepted(u, w, i, j)
        PROVE  \E k \in Places(w) : Accepted(l, w, i, k) /\ Accepted(r, w, k, j)
    <2> DEFINE Reached(s, m) ==
                 \/ s \in L /\ Run(l, w, l.start, i, s, m)
                 \/ s \in R /\ \E k \in Places(w) :
                                 Accepted(l, w, i, k) /\ Run(r, w, r.start, k, s, m)
               Y == [s \in D |-> {m \in Places(w) : Reached(s, m)}]
    <2>1. Y \in Markings(u, w) /\ i \in Y[l.start]
      BY <1>1, <1>2, RunStays DEF Markings
    <2>2. ASSUME NEW s \in D, NEW t \in D, NEW p \in Places(w), NEW m \in Places(w),
                 Reached(s, p), Step(u, w, s, p, t, m)
          PROVE  Reached(t, m)
      <3>1. CASE s \in L \ {l.accept}
        <4>1. Run(l, w, l.start, i, s, p)
          BY <1>2, <2>2, <3>1
        <4>2. t \in L /\ Run(l, w, l.start, i, t, m)
          BY <1>2, <1>3, <2>2, <3>1, <4>1, EmbeddedStep
        <4> QED BY <4>2
      <3>2. CASE s = l.accept
        <4>1. Accepted(l, w, i, p)
          BY <1>2, <2>2, <3>2 DEF Accepted
        <4>2. t = r.start /\ m = p
          BY <1>4, <2>2, <3>2 DEF Step
        <4> QED BY <1>2, <4>1, <4>2, RunStays
      <3>3. CASE s \in R \ {r.accept}
        <4>1. PICK k \in Places(w) : Accepted(l, w, i, k) /\ Run(r, w, r.start, k, s, p)
          BY <1>2, <2>2, <3>3
        <4>2. t \in R /\ Run(r, w, r.start, k, t, m)
          BY <1>2, <1>3, <2>2, <3>3, <4>1, EmbeddedStep
        <4> QED BY <4>1, <4>2
      <3>4. CASE s = r.accept
        BY <1>4, <2>2, <3>4 DEF Step
      <3> QED BY <3>1, <3>2, <3>3, <3>4
    <2>3. ClosedMarking(u, w, Y)
      <3> HIDE DEF D, Reached
      <3> QED BY <1>1, <2>2 DEF ClosedMarking
    <2>4. j \in Y[r.accept]
      <3> HIDE DEF Y
      <3> QED BY <1>1, <1>6, <2>1, <2>3 DEF Accepted, Run
    <2>5. Reached(r.accept, j)
      <3> HIDE DEF Reached
      <3> QED BY <1>2, <2>4
    <2> QED BY <1>2, <2>5 DEF Accepted
  <1> QED BY <1>5, <1>6 DEF u

\* j is reached from i by what n accepts, over and over.
Chain(n, w, i, j) ==
  \A P \in SUBSET Places(w) :
    i \in P /\ (\A p \in P, q \in Places(w) : Accepted(n, w, p, q) => q \in P) => j \in P

LEMMA ChainFacts ==
  ASSUME NEW n, NEW w, NEW i
  PROVE  /\ Chain(n, w, i, i)
         /\ \A p, q \in Places(w) : Chain(n, w, i, p) /\ Accepted(n, w, p, q) => Chain(n, w, i, q)
  BY DEF Chain

\* At least one round.
Turned(n, w, i, j) == \E k \in Places(w) : Accepted(n, w, i, k) /\ Chain(n, w, k, j)

\* What the two new ways out let an NFA with a quantifier read.
Quantifies(n, back, skip, w, i, j) ==
  \/ skip # NULL /\ i = j
  \/ back = NULL /\ Accepted(n, w, i, j)
  \/ back # NULL /\ Turned(n, w, i, j)

\* transform() makes an NFA of none, one or more rounds.
LEMMA TransformReads ==
  ASSUME NEW n, Good(n), NEW new, Unused(new, n.mem_region),
         NEW u, NEW back, NEW skip, IsTransform(u, n, new, back, skip),
         back = n.start \/ back = NULL, skip = new \/ skip = NULL,
         NEW w, Len(w) \in Nat, NEW i \in Places(w), NEW j \in Places(w)
  PROVE  Accepted(u, w, i, j) <=> Quantifies(n, back, skip, w, i, j)
  <1> DEFINE N == DOMAIN n.states
             D == N \cup {new, new + 1}
             Turns(m) == back = n.start /\ Turned(n, w, i, m)
             Ends(m) == \/ skip = new /\ i = m
                        \/ back = NULL /\ Accepted(n, w, i, m)
                        \/ Turns(m)
  <1>1. /\ u.start = new + 1 /\ u.accept = new /\ DOMAIN u.states = D
        /\ \A s \in N \ {n.accept} : u.states[s] = n.states[s]
        /\ u.states[n.accept] = [ch |-> EPSILON, out1 |-> new, out2 |-> back]
        /\ u.states[new] = NewState
        /\ u.states[new + 1] = [ch |-> EPSILON, out1 |-> n.start, out2 |-> skip]
    BY DEF IsTransform
  <1>2. n.start \in N /\ n.accept \in N /\ N = n.mem_region /\ NULL \notin N
    BY GoodFacts
  <1>3. new # new + 1 /\ {new, new + 1} \cap (N \cup {NULL}) = {}
    BY <1>2 DEF Unused
  <1>4. Embeds(n, u)
    BY <1>1 DEF Embeds
  <1>5. /\ Outs(u, new + 1) = {n.start, skip} \ {NULL} /\ Outs(u, new) = {}
        /\ Outs(u, n.accept) = {new, back} \ {NULL}
    BY <1>1 DEF Outs, NewState
  <1>6. /\ u.states[new + 1].ch = EPSILON /\ u.states[new].ch = EPSILON
        /\ u.states[n.accept].ch = EPSILON
        /\ {new, new + 1, n.accept} \subseteq DOMAIN u.states
    BY <1>1, <1>2 DEF NewState
  <1>7. n.start \in Outs(u, new + 1) /\ new \in Outs(u, n.accept) /\ n.start # NULL
    BY <1>2, <1>3, <1>5
  <1>8. ASSUME NEW k \in Places(w) PROVE Run(u, w, n.accept, k, new, k)
    BY <1>6, <1>7, RunStep
  <1>9. ASSUME Ends(j) PROVE Accepted(u, w, i, j)
    <2>1. CASE skip = new /\ i = j
      <3>1. new \in Outs(u, new + 1)
        BY <1>3, <1>5, <2>1
      <3> QED BY <1>1, <1>6, <2>1, <3>1, RunStep DEF Accepted
    <2>2. CASE back = NULL /\ Accepted(n, w, i, j)
      <3>1. Run(u, w, new + 1, i, n.accept, j)
        BY <1>4, <1>6, <1>7, <2>2, RunThrough
      <3> QED BY <1>1, <1>8, <3>1, RunFurther DEF Accepted
    <2>3. CASE Turns(j)
      <3>1. PICK k \in Places(w) : Accepted(n, w, i, k) /\ Chain(n, w, k, j)
        BY <2>3 DEF Turned
      <3>2. Run(u, w, new + 1, i, n.accept, k)
        BY <1>4, <1>6, <1>7, <3>1, RunThrough
      <3>3. n.start \in Outs(u, n.accept)
        BY <1>5, <1>7, <2>3
      <3> DEFINE P == {p \in Places(w) : Run(u, w, n.accept, k, n.accept, p)}
      <3>4. k \in P
        BY RunStays
      <3>5. ASSUME NEW p \in P, NEW q \in Places(w), Accepted(n, w, p, q) PROVE q \in P
        <4>1. Run(u, w, n.accept, p, n.accept, q)
          BY <1>4, <1>6, <3>3, <3>5, RunThrough
        <4> QED BY <4>1, RunFurther
      <3>6. j \in P
        <4> HIDE DEF P
        <4>1. P \in SUBSET Places(w)
          BY DEF P
        <4> QED BY <3>1, <3>4, <3>5, <4>1 DEF Chain
      <3>7. Run(u, w, new + 1, i, n.accept, j)
        BY <3>2, <3>6, RunFurther
      <3> QED BY <1>1, <1>8, <3>7, RunFurther DEF Accepted
    <2> QED BY <1>9, <2>1, <2>2, <2>3
  <1>10. ASSUME Accepted(u, w, i, j) PROVE Ends(j)
    <2> DEFINE Enters0(m) == m = i \/ Turns(m)
               Reached(s, k) ==
                 \/ s \in N /\ \E m \in Places(w) : Enters0(m) /\ Run(n, w, n.start, m, s, k)
                 \/ s = new /\ Ends(k)
                 \/ s = new + 1 /\ k = i
               Y == [s \in D |-> {k \in Places(w) : Reached(s, k)}]
    <2>1. Y \in Markings(u, w) /\ i \in Y[new + 1]
      BY <1>1 DEF Markings
    <2>2. ASSUME NEW m \in Places(w), Enters0(m), NEW k \in Places(w), Accepted(n, w, m, k)
          PROVE  Ends(k) /\ (back = n.start => Turns(k))
      <3>1. CASE back = NULL
        BY <1>7, <2>2, <3>1
      <3>2. CASE back = n.start
        <4>1. CASE m = i
          BY <2>2, <3>2, <4>1, ChainFacts DEF Turned
        <4>2. CASE Turns(m)
          <5>1. PICK p \in Places(w) : Accepted(n, w, i, p) /\ Chain(n, w, p, m)
            BY <4>2 DEF Turned
          <5>2. Chain(n, w, p, k)
            BY <2>2, <5>1, ChainFacts
          <5> QED BY <3>2, <5>1, <5>2 DEF Turned
        <4> QED BY <2>2, <4>1, <4>2
      <3> QED BY <3>1, <3>2
    <2>3. ASSUME NEW s \in D, NEW t \in D, NEW k \in Places(w), NEW m \in Places(w),
                 Reached(s, k), Step(u, w, s, k, t, m)
          PROVE  Reached(t, m)
      <3> HIDE DEF Turns, Ends
      <3>1. CASE s \in N \ {n.accept}
        <4>1. PICK p \in Places(w) : Enters0(p) /\ Run(n, w, n.start, p, s, k)
          BY <1>3, <2>3, <3>1
        <4>2. t \in N /\ Run(n, w, n.start, p, t, m)
          BY <1>4, <2>3, <3>1, <4>1, EmbeddedStep
        <4> QED BY <4>1, <4>2
      <3>2. CASE s = n.accept
        <4>1. PICK p \in Places(w) : Enters0(p) /\ Accepted(n, w, p, k)
          BY <1>2, <1>3, <2>3, <3>2 DEF Accepted
        <4>2. Ends(k) /\ (back = n.start => Turns(k))
          BY <2>2, <4>1
        <4>3. m = k /\ (t = new \/ (t = back /\ back = n.start))
          BY <1>5, <1>6, <2>3, <3>2 DEF Step
        <4> QED BY <1>2, <4>2, <4>3, RunStays
      <3>3. CASE s = new
        BY <1>5, <1>6, <2>3, <3>3 DEF Step
      <3>4. CASE s = new + 1
        <4>1. k = i
          BY <1>3, <2>3, <3>4
        <4>2. m = k /\ (t = n.start \/ (t = new /\ skip = new))
          BY <1>5, <1>6, <2>3, <3>4 DEF Step
        <4>3. skip = new => Ends(i)
          BY DEF Ends
        <4> QED BY <1>2, <4>1, <4>2, <4>3, RunStays
      <3> QED BY <3>1, <3>2, <3>3, <3>4
    <2>4. ClosedMarking(u, w, Y)
      <3> HIDE DEF D, Reached
      <3> QED BY <1>1, <2>3 DEF ClosedMarking
    <2>5. j \in Y[new]
      <3> HIDE DEF Y
      <3> QED BY <1>1, <1>10, <2>1, <2>4 DEF Accepted, Run
    <2>6. Reached(new, j)
      <3> HIDE DEF Reached
      <3> QED BY <2>5
    <2> HIDE DEF Ends
    <2> QED BY <1>3, <2>6
  <1>11. Ends(j) <=> Quantifies(n, back, skip, w, i, j)
    BY <1>3, <1>7 DEF Quantifies
  <1> QED BY <1>9, <1>10, <1>11

-----------------------------------------------------------------------------
(***************************************************************************)
(* The words: an NFA means A if it accepts exactly the pieces, of up to    *)
(* WordBound characters, of any word that are in A.                        *)
(***************************************************************************)

Piece(w, i, j) == [k \in 1 .. j - i |-> w[i + k]]

Means(n, A) ==
  /\ A \subseteq Seq(Nat)
  /\ \A w \in Seq(Nat) : \A i, j \in Places(w) :
       i <= j /\ j - i <= WordBound => (Accepted(n, w, i, j) <=> Piece(w, i, j) \in A)

LEMMA PieceFacts ==
  ASSUME NEW w \in Seq(Nat), NEW i \in Places(w), NEW j \in Places(w), i <= j
  PROVE  /\ Piece(w, i, j) \in Seq(Nat) /\ Len(Piece(w, i, j)) = j - i
         /\ \A k \in 1 .. j - i : Piece(w, i, j)[k] = w[i + k]
         /\ Piece(w, i, j) = <<>> <=> i = j
  <1> DEFINE m == j - i
  <1>1. i \in Nat /\ j \in Nat /\ m \in Nat /\ Len(w) \in Nat /\ j <= Len(w)
    BY DEF Places
  <1>2. \A k \in 1 .. m : i + k \in 1 .. Len(w)
    BY <1>1
  <1>3. \A k \in 1 .. m : w[i + k] \in Nat
    BY <1>2
  <1> HIDE DEF m
  <1>4. Piece(w, i, j) = [k \in 1 .. m |-> w[i + k]]
    BY DEF Piece, m
  <1>5. Piece(w, i, j) \in Seq(Nat) /\ Len(Piece(w, i, j)) = m
    BY <1>1, <1>3, <1>4
  <1>6. Piece(w, i, j) = <<>> <=> m = 0
    <2>1. ASSUME m = 0 PROVE Piece(w, i, j) = <<>>
      BY <1>5, <2>1, EmptySeq
    <2> QED BY <1>5, <2>1
  <1>7. \A k \in 1 .. m : Piece(w, i, j)[k] = w[i + k]
    BY <1>4
  <1>8. m = j - i /\ (m = 0 <=> i = j)
    BY <1>1 DEF m
  <1> QED BY <1>5, <1>6, <1>7, <1>8

LEMMA WholePiece ==
  ASSUME NEW w \in Seq(Nat)
  PROVE  Piece(w, 0, Len(w)) = w
  <1>1. Len(w) \in Nat /\ DOMAIN w = 1 .. Len(w) /\ Len(w) - 0 = Len(w)
    OBVIOUS
  <1>2. \A k \in 1 .. Len(w) : 0 + k = k
    OBVIOUS
  <1>3. Piece(w, 0, Len(w)) = [k \in 1 .. Len(w) |-> w[k]]
    BY <1>1, <1>2 DEF Piece
  <1> QED BY <1>1, <1>3

LEMMA ConcatenationMembers ==
  ASSUME NEW A, NEW B, NEW x
  PROVE  x \in Concatenation(A, B) <=>
           Len(x) <= WordBound /\ \E a \in A, b \in B : x = a \o b
  <1> DEFINE T == {a \o b : a \in A, b \in B}
  <1>1. \A y : y \in T <=> \E a \in A, b \in B : y = a \o b
    OBVIOUS
  <1>2. Concatenation(A, B) = {y \in T : Len(y) <= WordBound}
    BY DEF Concatenation
  <1> HIDE DEF T
  <1> QED BY <1>1, <1>2

LEMMA ConcatenationWords ==
  ASSUME NEW A \in SUBSET Seq(Nat), NEW B \in SUBSET Seq(Nat)
  PROVE  Concatenation(A, B) \subseteq Seq(Nat)
  <1>1. ASSUME NEW a \in A, NEW b \in B PROVE a \o b \in Seq(Nat)
    <2>1. a \in Seq(Nat) /\ b \in Seq(Nat)
      OBVIOUS
    <2> QED BY <2>1, ConcatProperties
  <1>2. ASSUME NEW x \in Concatenation(A, B) PROVE x \in Seq(Nat)
    <2>1. x \in Concatenation(A, B) <=>
            Len(x) <= WordBound /\ \E a \in A, b \in B : x = a \o b
      BY ConcatenationMembers
    <2>2. PICK a \in A, b \in B : x = a \o b
      BY <2>1
    <2> QED BY <1>1, <2>2
  <1> QED BY <1>2

LEMMA LettersFacts ==
  ASSUME NEW C \in SUBSET Nat
  PROVE  /\ Letters(C) \subseteq Seq(Nat)
         /\ \A x : x \in Letters(C) <=> WordBound # 0 /\ \E ch \in C : x = <<ch>>
  <1>1. ASSUME NEW ch \in C PROVE <<ch>> \in Seq(Nat)
    OBVIOUS
  <1>2. \A x : x \in Letters(C) <=> WordBound # 0 /\ \E ch \in C : x = <<ch>>
    BY DEF Letters
  <1> QED BY <1>1, <1>2

LEMMA PiecesSplit ==
  ASSUME NEW A \in SUBSET Seq(Nat), NEW B \in SUBSET Seq(Nat), NEW w \in Seq(Nat),
         NEW i \in Places(w), NEW j \in Places(w), i <= j, j - i <= WordBound
  PROVE  Piece(w, i, j) \in Concatenation(A, B) <=>
           \E k \in Places(w) :
             i <= k /\ k <= j /\ Piece(w, i, k) \in A /\ Piece(w, k, j) \in B
  <1> DEFINE c == Piece(w, i, j)
  <1>1. /\ i \in Nat /\ j \in Nat /\ Len(w) \in Nat /\ j <= Len(w)
        /\ c \in Seq(Nat) /\ Len(c) = j - i
        /\ \A k \in 1 .. j - i : c[k] = w[i + k]
    <2>1. i \in Nat /\ j \in Nat /\ Len(w) \in Nat /\ j <= Len(w)
      BY DEF Places
    <2> QED BY <2>1, PieceFacts
  <1>2. ASSUME NEW k \in Places(w), i <= k, k <= j, Piece(w, i, k) \in A, Piece(w, k, j) \in B
        PROVE  c \in Concatenation(A, B)
    <2> DEFINE a == Piece(w, i, k)
               b == Piece(w, k, j)
    <2>1. /\ a \in Seq(Nat) /\ Len(a) = k - i /\ \A x \in 1 .. k - i : a[x] = w[i + x]
          /\ b \in Seq(Nat) /\ Len(b) = j - k /\ \A x \in 1 .. j - k : b[x] = w[k + x]
      BY <1>2, PieceFacts
    <2>2. k \in Nat
      BY DEF Places
    <2> HIDE DEF a, b, c
    <2>3. /\ a \o b \in Seq(Nat) /\ Len(a \o b) = j - i
          /\ \A x \in 1 .. j - i : (a \o b)[x] = IF x <= k - i THEN a[x] ELSE b[x - (k - i)]
      <3>1. /\ a \o b \in Seq(Nat) /\ Len(a \o b) = Len(a) + Len(b)
            /\ \A x \in 1 .. Len(a) + Len(b) :
                 (a \o b)[x] = IF x <= Len(a) THEN a[x] ELSE b[x - Len(a)]
        BY <2>1, ConcatProperties
      <3>2. Len(a) + Len(b) = j - i
        BY <1>1, <2>1, <2>2
      <3> QED BY <2>1, <3>1, <3>2
    <2>4. ASSUME NEW x \in 1 .. j - i PROVE (a \o b)[x] = c[x]
      <3>1. CASE x <= k - i
        <4>1. x \in 1 .. k - i
          BY <1>1, <2>2, <3>1
        <4> QED BY <1>1, <2>1, <2>3, <3>1, <4>1
      <3>2. CASE ~ (x <= k - i)
        <4>1. (a \o b)[x] = b[x - (k - i)]
          BY <2>3, <3>2
        <4>2. x - (k - i) \in 1 .. j - k /\ k + (x - (k - i)) = i + x
          BY <1>1, <2>2, <3>2
        <4> QED BY <1>1, <2>1, <4>1, <4>2
      <3> QED BY <3>1, <3>2
    <2>5. a \o b = c
      BY <1>1, <2>3, <2>4, SeqEqual
    <2> QED BY <1>1, <1>2, <2>5, ConcatenationMembers DEF a, b
  <1>3. ASSUME c \in Concatenation(A, B)
        PROVE  \E k \in Places(w) :
                 i <= k /\ k <= j /\ Piece(w, i, k) \in A /\ Piece(w, k, j) \in B
    <2>1. PICK a \in A, b \in B : c = a \o b
      <3> HIDE DEF c
      <3>1. c \in Concatenation(A, B) <=>
              Len(c) <= WordBound /\ \E a \in A, b \in B : c = a \o b
        BY ConcatenationMembers
      <3> QED BY <1>3, <3>1
    <2>2. a \in Seq(Nat) /\ b \in Seq(Nat) /\ Len(a) \in Nat /\ Len(b) \in Nat
      OBVIOUS
    <2>3. Len(a) + Len(b) = j - i
      BY <1>1, <2>1, <2>2
    <2> DEFINE k == i + Len(a)
    <2>4. k \in Places(w) /\ i <= k /\ k <= j /\ k - i = Len(a) /\ j - k = Len(b)
      BY <1>1, <2>2, <2>3 DEF Places
    <2> HIDE DEF c
    <2>5. Piece(w, i, k) = a
      <3>1. ASSUME NEW x \in 1 .. Len(a) PROVE w[i + x] = a[x]
        <4>1. c[x] = a[x]
          BY <2>1, <2>2
        <4>2. x \in 1 .. j - i
          BY <1>1, <2>2, <2>3
        <4> QED BY <1>1, <4>1, <4>2
      <3>2. /\ Piece(w, i, k) \in Seq(Nat) /\ Len(Piece(w, i, k)) = Len(a)
            /\ \A x \in 1 .. Len(a) : Piece(w, i, k)[x] = w[i + x]
        <4> HIDE DEF k
        <4> QED BY <2>4, PieceFacts
      <3> QED BY <2>2, <3>1, <3>2, SeqEqual
    <2>6. Piece(w, k, j) = b
      <3>1. ASSUME NEW x \in 1 .. Len(b) PROVE w[k + x] = b[x]
        <4>1. /\ Len(a) + x \in 1 .. Len(a) + Len(b) /\ ~ (Len(a) + x <= Len(a))
              /\ (Len(a) + x) - Len(a) = x
          BY <2>2
        <4>2. c[Len(a) + x] = b[x]
          BY <2>1, <2>2, <4>1, ConcatProperties
        <4>3. Len(a) + x \in 1 .. j - i
          BY <2>3, <4>1
        <4>4. i + (Len(a) + x) = k + x
          BY <1>1, <2>2
        <4> HIDE DEF k
        <4> QED BY <1>1, <4>2, <4>3, <4>4
      <3>2. /\ Piece(w, k, j) \in Seq(Nat) /\ Len(Piece(w, k, j)) = Len(b)
            /\ \A x \in 1 .. Len(b) : Piece(w, k, j)[x] = w[k + x]
        <4> HIDE DEF k
        <4> QED BY <2>4, PieceFacts
      <3> QED BY <2>2, <3>1, <3>2, SeqEqual
    <2> QED BY <2>4, <2>5, <2>6
  <1> QED BY <1>2, <1>3

\* An NFA that accepts one character, of C.
ReadsOne(u, C) ==
  \A w \in Seq(Nat) : \A i, j \in Places(w) : Accepted(u, w, i, j) <=> j = i + 1 /\ w[j] \in C

LEMMA LettersMeant ==
  ASSUME NEW u, NEW C \in SUBSET Nat, ReadsOne(u, C)
  PROVE  Means(u, Letters(C))
  <1>1. Letters(C) \subseteq Seq(Nat)
    BY LettersFacts
  <1>2. ASSUME NEW w \in Seq(Nat), NEW i \in Places(w), NEW j \in Places(w),
               i <= j, j - i <= WordBound
        PROVE  Accepted(u, w, i, j) <=> Piece(w, i, j) \in Letters(C)
    <2> DEFINE p == Piece(w, i, j)
    <2>1. /\ i \in Nat /\ j \in Nat /\ WordBound \in Nat /\ p \in Seq(Nat) /\ Len(p) = j - i
          /\ \A k \in 1 .. j - i : p[k] = w[i + k]
      BY <1>2, PieceFacts, WordBoundAssumption DEF Places
    <2>2. Accepted(u, w, i, j) <=> j = i + 1 /\ w[j] \in C
      BY DEF ReadsOne
    <2> HIDE DEF p
    <2>3. ASSUME j = i + 1, w[j] \in C PROVE p \in Letters(C)
      <3>1. Len(p) = 1 /\ p[1] = w[j] /\ WordBound # 0
        BY <1>2, <2>1, <2>3
      <3>2. p = <<w[j]>>
        <4>1. w[j] \in Nat
          BY <2>3
        <4>2. <<w[j]>> \in Seq(Nat) /\ Len(<<w[j]>>) = 1 /\ <<w[j]>>[1] = w[j]
          BY <4>1
        <4>3. \A k \in 1 .. 1 : p[k] = <<w[j]>>[k]
          BY <3>1, <4>2
        <4> QED BY <2>1, <3>1, <4>2, <4>3, SeqEqual
      <3> QED BY <2>3, <3>1, <3>2, LettersFacts
    <2>4. ASSUME p \in Letters(C) PROVE j = i + 1 /\ w[j] \in C
      <3>1. PICK ch \in C : p = <<ch>>
        BY <2>4, LettersFacts
      <3>2. Len(p) = 1 /\ p[1] = ch
        <4>1. Len(<<ch>>) = 1 /\ <<ch>>[1] = ch
          OBVIOUS
        <4> QED BY <3>1, <4>1
      <3>3. i \in Nat /\ j \in Nat /\ j - i = 1
        BY <2>1, <3>2
      <3>4. j = i + 1 /\ i + 1 = j /\ 1 \in 1 .. j - i
        BY <3>3
      <3> QED BY <2>1, <3>2, <3>4
    <2> QED BY <2>2, <2>3, <2>4 DEF p
  <1> QED BY <1>1, <1>2 DEF Means

LEMMA UnionMeans ==
  ASSUME NEW l, NEW r, Apart(l, r), NEW new, Unused(new, l.mem_region \cup r.mem_region),
         NEW A, Means(l, A), NEW B, Means(r, B)
  PROVE  Means(Union(l, r, new), A \cup B)
  <1>1. ASSUME NEW w \in Seq(Nat), NEW i \in Places(w), NEW j \in Places(w),
               i <= j, j - i <= WordBound
        PROVE  Accepted(Union(l, r, new), w, i, j) <=> Piece(w, i, j) \in A \cup B
    <2>1. Len(w) \in Nat
      OBVIOUS
    <2>2. Accepted(Union(l, r, new), w, i, j) <=> Accepted(l, w, i, j) \/ Accepted(r, w, i, j)
      BY <2>1, UnionReads
    <2> QED BY <1>1, <2>2 DEF Means
  <1> QED BY <1>1 DEF Means

LEMMA ConcatMeans ==
  ASSUME NEW l, NEW r, Apart(l, r), NEW A, Means(l, A), NEW B, Means(r, B)
  PROVE  Means(Concat(l, r), Concatenation(A, B))
  <1>1. A \in SUBSET Seq(Nat) /\ B \in SUBSET Seq(Nat) /\ Good(l) /\ Good(r)
    BY DEF Means, Apart
  <1>2. Concatenation(A, B) \subseteq Seq(Nat)
    BY <1>1, ConcatenationWords
  <1>3. ASSUME NEW w \in Seq(Nat), NEW i \in Places(w), NEW j \in Places(w),
               i <= j, j - i <= WordBound
        PROVE  Accepted(Concat(l, r), w, i, j) <=> Piece(w, i, j) \in Concatenation(A, B)
    <2>1. Len(w) \in Nat /\ WordBound \in Nat
      BY WordBoundAssumption
    <2>2. Accepted(Concat(l, r), w, i, j) <=>
            \E k \in Places(w) : Accepted(l, w, i, k) /\ Accepted(r, w, k, j)
      BY <2>1, ConcatReads
    <2>3. ASSUME NEW k \in Places(w), i <= k, k <= j
          PROVE  /\ Accepted(l, w, i, k) <=> Piece(w, i, k) \in A
                 /\ Accepted(r, w, k, j) <=> Piece(w, k, j) \in B
      <3>1. k - i <= WordBound /\ j - k <= WordBound
        BY <1>3, <2>1, <2>3 DEF Places
      <3> QED BY <2>3, <3>1 DEF Means
    <2>4. ASSUME NEW k \in Places(w), Accepted(l, w, i, k), Accepted(r, w, k, j)
          PROVE  i <= k /\ k <= j
      BY <1>1, <2>1, <2>4, RunsForward
    <2>5. Piece(w, i, j) \in Concatenation(A, B) <=>
           \E k \in Places(w) :
             i <= k /\ k <= j /\ Piece(w, i, k) \in A /\ Piece(w, k, j) \in B
      BY <1>1, <1>3, PiecesSplit
    <2> QED BY <2>2, <2>3, <2>4, <2>5
  <1> QED BY <1>2, <1>3 DEF Means

-----------------------------------------------------------------------------
(* Repetitions. *)

IsPower(A, P) ==
  /\ P \in [Nat -> SUBSET Seq(Nat)] /\ P[0] = {<<>>}
  /\ \A k \in Nat : P[k + 1] = P[k] \cup Concatenation(P[k], A)

LEMMA RepetitionsFacts ==
  ASSUME NEW A \in SUBSET Seq(Nat)
  PROVE  \E P : IsPower(A, P) /\ Repetitions(A) = P[WordBound]
  <1> DEFINE W == SUBSET Seq(Nat)
             Longer(before) == before \cup Concatenation(before, A)
             step == [n \in Nat |-> [g \in [0 .. n - 1 -> W] |->
                        IF n = 0 THEN {<<>>} ELSE Longer(g[n - 1])]]
             Finds(f) == f = [n \in Nat |->
                                IF n = 0 THEN {<<>>}
                                ELSE LET before == f[n - 1]
                                     IN  before \cup Concatenation(before, A)]
             power == CHOOSE f : Finds(f)
  <1>1. \A B \in W : Longer(B) \in W
    BY ConcatenationWords
  <1>2. {<<>>} \in W
    OBVIOUS
  <1> HIDE DEF Longer
  <1>3. ComputesFrom(W, step)
    <2>1. ASSUME NEW n \in Nat, NEW g \in [0 .. n - 1 -> W], n # 0 PROVE Longer(g[n - 1]) \in W
      <3>1. g[n - 1] \in W
        BY <2>1
      <3> QED BY <1>1, <3>1
    <2> HIDE DEF W
    <2> QED BY <1>2, <2>1 DEF ComputesFrom
  <1>4. PICK F \in [Nat -> W] : \A n \in Nat : F[n] = step[n][Upto(F, n)]
    <2> HIDE DEF W, step
    <2> QED BY <1>3, RecursionExists
  <1>5. ASSUME NEW n \in Nat
        PROVE  F[n] = IF n = 0 THEN {<<>>} ELSE Longer(F[n - 1])
    <2>1. Upto(F, n) \in [0 .. n - 1 -> W] /\ (n # 0 => Upto(F, n)[n - 1] = F[n - 1])
      <3> HIDE DEF W
      <3> QED BY DEF Upto
    <2>2. F[n] = step[n][Upto(F, n)]
      BY <1>4
    <2> HIDE DEF W
    <2> QED BY <2>1, <2>2
  <1>6. Finds(F)
    <2>1. F = [n \in Nat |-> F[n]]
      BY <1>4
    <2> HIDE DEF W, step
    <2> QED BY <1>5, <2>1 DEF Longer
  <1>7. Finds(power)
    <2> HIDE DEF Finds
    <2> QED BY <1>6
  <1>8. Repetitions(A) = power[WordBound]
    BY DEF Repetitions
  <1> HIDE DEF power, step
  <1>9. \A n \in Nat : power[n] = IF n = 0 THEN {<<>>} ELSE Longer(power[n - 1])
    BY <1>7 DEF Longer
  <1>10. \A n \in Nat : power[n] \in W
    <2> DEFINE S == {n \in Nat : power[n] \in W}
    <2>1. 0 \in S
      BY <1>2, <1>9
    <2>2. ASSUME NEW n \in Nat, n \in S PROVE n + 1 \in S
      <3>1. n + 1 \in Nat /\ n + 1 # 0 /\ (n + 1) - 1 = n
        OBVIOUS
      <3>2. power[n + 1] = Longer(power[n])
        BY <1>9, <3>1
      <3> QED BY <1>1, <2>2, <3>1, <3>2
    <2>3. Nat \subseteq S
      <3> HIDE DEF S
      <3> QED BY <2>1, <2>2, InductiveSet
    <2> QED BY <2>3
  <1>11. power = [n \in Nat |-> power[n]]
    BY <1>7
  <1>12. power \in [Nat -> W]
    <2> HIDE DEF W, Finds
    <2> QED BY <1>10, <1>11
  <1>13. \A k \in Nat : power[k + 1] = power[k] \cup Concatenation(power[k], A)
    <2> SUFFICES ASSUME NEW k \in Nat
                 PROVE  power[k + 1] = power[k] \cup Concatenation(power[k], A)
      OBVIOUS
    <2>1. k + 1 \in Nat /\ k + 1 # 0 /\ (k + 1) - 1 = k
      OBVIOUS
    <2>2. power[k + 1] = Longer(power[k])
      BY <1>9, <2>1
    <2> QED BY <2>2 DEF Longer
  <1>14. power[0] = {<<>>}
    BY <1>9
  <1> QED BY <1>8, <1>12, <1>13, <1>14 DEF IsPower

LEMMA PowersGrow ==
  ASSUME NEW A, NEW P, IsPower(A, P), NEW k \in Nat, NEW m \in Nat, k <= m
  PROVE  P[k] \subseteq P[m]
  <1> DEFINE S == {d \in Nat : P[k] \subseteq P[k + d]}
  <1>1. 0 \in S
    OBVIOUS
  <1>2. ASSUME NEW d \in Nat, d \in S PROVE d + 1 \in S
    <2>1. k + d \in Nat /\ k + (d + 1) = (k + d) + 1
      OBVIOUS
    <2>2. P[k + d] \subseteq P[(k + d) + 1]
      BY <2>1 DEF IsPower
    <2> QED BY <1>2, <2>1, <2>2
  <1>3. Nat \subseteq S
    <2> HIDE DEF S
    <2> QED BY <1>1, <1>2, InductiveSet
  <1>4. m - k \in Nat /\ k + (m - k) = m
    OBVIOUS
  <1> QED BY <1>3, <1>4

LEMMA ChainForward ==
  ASSUME NEW n, Good(n), NEW w, Len(w) \in Nat, NEW i \in Places(w), NEW j, Chain(n, w, i, j)
  PROVE  j \in Places(w) /\ i <= j
  <1> DEFINE P == {q \in Places(w) : i <= q}
  <1>1. P \in SUBSET Places(w) /\ i \in P
    BY DEF Places
  <1>2. ASSUME NEW p \in P, NEW q \in Places(w), Accepted(n, w, p, q) PROVE q \in P
    <2>1. p <= q
      BY <1>2, RunsForward
    <2> QED BY <2>1 DEF Places
  <1> HIDE DEF P
  <1>3. j \in P
    BY <1>1, <1>2 DEF Chain
  <1> QED BY <1>3 DEF P

LEMMA ChainMeant ==
  ASSUME NEW n, Good(n), NEW A, Means(n, A), NEW w \in Seq(Nat),
         NEW i \in Places(w), NEW j \in Places(w), i <= j, j - i <= WordBound
  PROVE  Chain(n, w, i, j) <=> Piece(w, i, j) \in Repetitions(A)
  <1>1. A \in SUBSET Seq(Nat)
    BY DEF Means
  <1>2. PICK P : IsPower(A, P) /\ Repetitions(A) = P[WordBound]
    BY <1>1, RepetitionsFacts
  <1>3. Len(w) \in Nat /\ WordBound \in Nat
    BY WordBoundAssumption
  <1>4. ASSUME Chain(n, w, i, j) PROVE Piece(w, i, j) \in P[WordBound]
    <2> DEFINE Q == {q \in Places(w) : i <= q /\ (q - i <= WordBound => Piece(w, i, q) \in P[q - i])}
    <2>1. i \in Q
      <3>1. Piece(w, i, i) = <<>> /\ i - i = 0 /\ i <= i
        BY PieceFacts DEF Places
      <3> QED BY <1>2, <3>1 DEF IsPower
    <2>2. ASSUME NEW p \in Q, NEW q \in Places(w), Accepted(n, w, p, q) PROVE q \in Q
      <3>1. p \in Places(w) /\ i <= p /\ p <= q
        BY <1>3, <2>2, RunsForward
      <3>2. i \in Nat /\ p \in Nat /\ q \in Nat /\ i <= q
        BY <3>1 DEF Places
      <3>3. SUFFICES ASSUME q - i <= WordBound PROVE Piece(w, i, q) \in P[q - i]
        BY <3>2
      <3>4. Piece(w, i, p) \in P[p - i]
        BY <1>3, <3>1, <3>2, <3>3
      <3>5. CASE p = q
        BY <3>4, <3>5
      <3>6. CASE p # q
        <4>1. q - p <= WordBound
          BY <1>3, <3>1, <3>2, <3>3
        <4>2. Piece(w, p, q) \in A
          BY <2>2, <3>1, <4>1 DEF Means
        <4>3. p - i \in Nat /\ (p - i) + 1 \in Nat /\ q - i \in Nat /\ (p - i) + 1 <= q - i
          BY <3>1, <3>2, <3>6
        <4>4. P[p - i] \in SUBSET Seq(Nat)
          BY <1>2, <4>3 DEF IsPower
        <4>5. Piece(w, i, q) \in Concatenation(P[p - i], A)
          BY <1>1, <3>1, <3>2, <3>3, <3>4, <4>2, <4>4, PiecesSplit
        <4>6. Piece(w, i, q) \in P[(p - i) + 1]
          BY <1>2, <4>3, <4>5 DEF IsPower
        <4>7. P[(p - i) + 1] \subseteq P[q - i]
          BY <1>2, <4>3, PowersGrow
        <4> QED BY <4>6, <4>7
      <3> QED BY <3>5, <3>6
    <2>3. j \in Q
      <3>1. Q \in SUBSET Places(w)
        OBVIOUS
      <3> HIDE DEF Q
      <3> QED BY <1>4, <2>1, <2>2, <3>1 DEF Chain
    <2>4. Piece(w, i, j) \in P[j - i] /\ j - i \in Nat
      BY <2>3 DEF Places
    <2>5. P[j - i] \subseteq P[WordBound]
      BY <1>2, <1>3, <2>4, PowersGrow
    <2> QED BY <2>4, <2>5
  <1>5. ASSUME Piece(w, i, j) \in P[WordBound] PROVE Chain(n, w, i, j)
    <2> DEFINE S == {k \in Nat : \A a, b \in Places(w) :
                       a <= b /\ b - a <= WordBound /\ Piece(w, a, b) \in P[k] => Chain(n, w, a, b)}
    <2>1. 0 \in S
      <3> SUFFICES ASSUME NEW a \in Places(w), NEW b \in Places(w), a <= b, Piece(w, a, b) \in P[0]
                   PROVE  Chain(n, w, a, b)
        OBVIOUS
      <3>1. a = b
        BY <1>2, PieceFacts DEF IsPower
      <3> QED BY <3>1, ChainFacts
    <2>2. ASSUME NEW k \in Nat, k \in S PROVE k + 1 \in S
      <3> SUFFICES ASSUME NEW a \in Places(w), NEW b \in Places(w), a <= b, b - a <= WordBound,
                          Piece(w, a, b) \in P[k + 1]
                   PROVE  Chain(n, w, a, b)
        OBVIOUS
      <3>1. P[k + 1] = P[k] \cup Concatenation(P[k], A) /\ P[k] \in SUBSET Seq(Nat)
        BY <1>2 DEF IsPower
      <3>2. CASE Piece(w, a, b) \in P[k]
        BY <2>2, <3>2
      <3>3. CASE Piece(w, a, b) \in Concatenation(P[k], A)
        <4>1. PICK c \in Places(w) :
                a <= c /\ c <= b /\ Piece(w, a, c) \in P[k] /\ Piece(w, c, b) \in A
          BY <1>1, <3>1, <3>3, PiecesSplit
        <4>2. c - a <= WordBound /\ b - c <= WordBound
          BY <1>3, <4>1 DEF Places
        <4>3. Chain(n, w, a, c)
          BY <2>2, <4>1, <4>2
        <4>4. Accepted(n, w, c, b)
          BY <4>1, <4>2 DEF Means
        <4> QED BY <4>3, <4>4, ChainFacts
      <3> QED BY <3>1, <3>2, <3>3
    <2>3. Nat \subseteq S
      <3> HIDE DEF S
      <3> QED BY <2>1, <2>2, InductiveSet
    <2> QED BY <1>3, <1>5, <2>3
  <1> QED BY <1>2, <1>4, <1>5

LEMMA ChainUnfolds ==
  ASSUME NEW n, NEW w, NEW i \in Places(w), NEW j \in Places(w)
  PROVE  Chain(n, w, i, j) <=>
           i = j \/ Turned(n, w, i, j)
  <1> DEFINE P == {q \in Places(w) : i = q \/ Turned(n, w, i, q)}
  <1>1. ASSUME Chain(n, w, i, j) PROVE i = j \/ Turned(n, w, i, j)
    <2>1. ASSUME NEW p \in P, NEW q \in Places(w), Accepted(n, w, p, q) PROVE Turned(n, w, i, q)
      <3>1. CASE i = p
        BY <2>1, <3>1, ChainFacts DEF Turned
      <3>2. CASE Turned(n, w, i, p)
        <4>1. PICK k \in Places(w) : Accepted(n, w, i, k) /\ Chain(n, w, k, p)
          BY <3>2 DEF Turned
        <4>2. Chain(n, w, k, q)
          BY <2>1, <4>1, ChainFacts
        <4> QED BY <4>1, <4>2 DEF Turned
      <3> QED BY <2>1, <3>1, <3>2
    <2>2. P \in SUBSET Places(w) /\ i \in P /\ \A p \in P, q \in Places(w) : Accepted(n, w, p, q) => q \in P
      BY <2>1
    <2>3. j \in P
      <3> HIDE DEF P
      <3> QED BY <1>1, <2>2 DEF Chain
    <2> QED BY <2>3
  <1>2. ASSUME Turned(n, w, i, j) PROVE Chain(n, w, i, j)
    BY <1>2 DEF Chain, Turned
  <1> QED BY <1>1, <1>2, ChainFacts

LEMMA TransformMeans ==
  ASSUME NEW n, Good(n), NEW quantifier \in Quantifiers, NEW new, Unused(new, n.mem_region),
         NEW A, Means(n, A)
  PROVE  Means(Transform(n, quantifier, new), Quantified(A, quantifier))
  <1> DEFINE u == Transform(n, quantifier, new)
             back == Back(n, quantifier)
             skip == Skip(quantifier, new)
             R == Repetitions(A)
  <1>1. IsTransform(u, n, new, back, skip)
    BY TransformStates
  <1> HIDE DEF u
  <1>2. n.start # NULL /\ new # NULL
    BY GoodFacts DEF Unused
  <1>3. A \in SUBSET Seq(Nat)
    BY DEF Means
  <1>4. R \in SUBSET Seq(Nat)
    <2>1. PICK P : IsPower(A, P) /\ R = P[WordBound]
      BY <1>3, RepetitionsFacts
    <2> QED BY <2>1, WordBoundAssumption DEF IsPower
  <1>5. Quantified(A, quantifier) =
          IF quantifier = "*" THEN R
          ELSE IF quantifier = "?" THEN A \cup {<<>>} ELSE Concatenation(A, R)
    BY DEF Quantified, Quantifiers
  <1>6. Quantified(A, quantifier) \subseteq Seq(Nat)
    <2>1. Concatenation(A, R) \subseteq Seq(Nat)
      <3> HIDE DEF R
      <3> QED BY <1>3, <1>4, ConcatenationWords
    <2>2. <<>> \in Seq(Nat)
      OBVIOUS
    <2> HIDE DEF R
    <2> QED BY <1>3, <1>4, <1>5, <2>1, <2>2
  <1>7. ASSUME NEW w \in Seq(Nat), NEW i \in Places(w), NEW j \in Places(w),
               i <= j, j - i <= WordBound
        PROVE  Accepted(u, w, i, j) <=> Piece(w, i, j) \in Quantified(A, quantifier)
    <2> DEFINE p == Piece(w, i, j)
    <2>1. Len(w) \in Nat /\ WordBound \in Nat
      BY WordBoundAssumption
    <2>2. Accepted(u, w, i, j) <=> Quantifies(n, back, skip, w, i, j)
      <3>1. back \in {n.start, NULL} /\ skip \in {new, NULL}
        BY DEF Back, Skip
      <3>2. PICK b \in {n.start, NULL} : b = back
        BY <3>1
      <3>3. PICK s \in {new, NULL} : s = skip
        BY <3>1
      <3> HIDE DEF back, skip
      <3>4. IsTransform(u, n, new, b, s)
        BY <1>1, <3>2, <3>3
      <3>5. Accepted(u, w, i, j) <=> Quantifies(n, b, s, w, i, j)
        <4>1. (b = n.start \/ b = NULL) /\ (s = new \/ s = NULL)
          OBVIOUS
        <4> QED BY <2>1, <3>4, <4>1, TransformReads
      <3> QED BY <3>2, <3>3, <3>5
    <2>3. Accepted(n, w, i, j) <=> p \in A
      BY <1>7 DEF Means
    <2>4. Chain(n, w, i, j) <=> p \in R
      BY <1>7, ChainMeant
    <2>5. Chain(n, w, i, j) <=> i = j \/ Turned(n, w, i, j)
      BY ChainUnfolds
    <2>6. Turned(n, w, i, j) <=> p \in Concatenation(A, R)
      <3>1. p \in Concatenation(A, R) <=>
             \E k \in Places(w) : i <= k /\ k <= j /\ Piece(w, i, k) \in A /\ Piece(w, k, j) \in R
        BY <1>3, <1>4, <1>7, PiecesSplit
      <3>2. ASSUME NEW k \in Places(w), i <= k, k <= j
            PROVE  /\ Accepted(n, w, i, k) <=> Piece(w, i, k) \in A
                   /\ Chain(n, w, k, j) <=> Piece(w, k, j) \in R
        <4>1. k - i <= WordBound /\ j - k <= WordBound
          BY <1>7, <2>1, <3>2 DEF Places
        <4>2. Accepted(n, w, i, k) <=> Piece(w, i, k) \in A
          BY <3>2, <4>1 DEF Means
        <4>3. Chain(n, w, k, j) <=> Piece(w, k, j) \in R
          BY <3>2, <4>1, ChainMeant
        <4> QED BY <4>2, <4>3
      <3>3. ASSUME NEW k \in Places(w), Accepted(n, w, i, k), Chain(n, w, k, j)
            PROVE  i <= k /\ k <= j
        BY <2>1, <3>3, RunsForward, ChainForward
      <3> QED BY <3>1, <3>2, <3>3 DEF Turned
    <2>7. p = <<>> <=> i = j
      BY <1>7, PieceFacts
    <2> HIDE DEF p, R
    <2>8. CASE quantifier = "*"
      <3>1. back = n.start /\ skip = new
        BY <2>8 DEF Back, Skip
      <3> QED BY <1>2, <1>5, <2>2, <2>4, <2>5, <2>8, <3>1 DEF p, Quantifies
    <2>9. CASE quantifier = "?"
      <3>1. back = NULL /\ skip = new
        BY <2>9 DEF Back, Skip
      <3> QED BY <1>2, <1>5, <2>2, <2>3, <2>7, <2>9, <3>1 DEF p, Quantifies
    <2>10. CASE quantifier = "+"
      <3>1. back = n.start /\ skip = NULL
        BY <2>10 DEF Back, Skip
      <3> QED BY <1>2, <1>5, <2>2, <2>6, <2>10, <3>1 DEF p, Quantifies
    <2> QED BY <2>8, <2>9, <2>10 DEF Quantifiers
  <1>8. Means(u, Quantified(A, quantifier))
    BY <1>6, <1>7 DEF Means
  <1> QED BY <1>8 DEF u

-----------------------------------------------------------------------------
(***************************************************************************)
(* A word as a whole: the configurations of the reference definition are   *)
(* the least set that is closed under moves, as runs are.                  *)
(***************************************************************************)

\* Configurations that follow one.
Moves(n, w, conf) ==
  IF n.states[conf[1]].ch = EPSILON THEN {<<t, conf[2]>> : t \in Outs(n, conf[1])}
  ELSE IF conf[2] < Len(w) /\ w[conf[2] + 1] = n.states[conf[1]].ch
  THEN {<<n.states[conf[1]].out1, conf[2] + 1>>}
  ELSE {}

Configs(n, w) == (DOMAIN n.states) \X (0 .. Len(w))

MoveStep(n, w) ==
  [C \in SUBSET Configs(n, w) |-> UNION {Moves(n, w, conf) : conf \in C}]

LEMMA MovesFacts ==
  ASSUME NEW n, Good(n), NEW w, Len(w) \in Nat,
         NEW s \in DOMAIN n.states, NEW k \in 0 .. Len(w)
  PROVE  /\ Moves(n, w, <<s, k>>) \subseteq Configs(n, w)
         /\ \A t, m : <<t, m>> \in Moves(n, w, <<s, k>>) <=> Step(n, w, s, k, t, m)
  <1>1. CASE n.states[s].ch = EPSILON
    <2>1. Moves(n, w, <<s, k>>) = {<<t, k>> : t \in Outs(n, s)}
      BY <1>1 DEF Moves
    <2>2. Outs(n, s) \subseteq DOMAIN n.states
      BY OutsFacts DEF Good
    <2>3. \A t, m : Step(n, w, s, k, t, m) <=> t \in Outs(n, s) /\ m = k
      BY <1>1 DEF Step
    <2> QED BY <2>1, <2>2, <2>3 DEF Configs
  <1>2. CASE n.states[s].ch # EPSILON
    <2>1. n.states[s].out1 \in DOMAIN n.states
      <3>1. s # n.accept /\ n.states[s].out2 = NULL
        BY <1>2 DEF Good, Shape, NewState
      <3>2. {s} \in SUBSET DOMAIN n.states /\ {s} # {} /\ n.accept \notin {s}
        BY <3>1
      <3>3. ~ Traps(n, {s})
        BY <3>2 DEF Good, Shape
      <3>4. Outs(n, s) # {} /\ Outs(n, s) \subseteq DOMAIN n.states
        BY <3>3, OutsFacts DEF Traps, Good
      <3> QED BY <3>1, <3>4 DEF Outs
    <2>2. k < Len(w) => k + 1 \in 0 .. Len(w)
      OBVIOUS
    <2>3. CASE k < Len(w) /\ w[k + 1] = n.states[s].ch
      <3>1. Moves(n, w, <<s, k>>) = {<<n.states[s].out1, k + 1>>}
        BY <1>2, <2>3 DEF Moves
      <3>2. \A t, m : Step(n, w, s, k, t, m) <=> t = n.states[s].out1 /\ m = k + 1
        BY <1>2, <2>3 DEF Step
      <3> QED BY <2>1, <2>2, <2>3, <3>1, <3>2 DEF Configs
    <2>4. CASE ~ (k < Len(w) /\ w[k + 1] = n.states[s].ch)
      <3>1. Moves(n, w, <<s, k>>) = {}
        BY <1>2, <2>4 DEF Moves
      <3>2. \A t, m : ~ Step(n, w, s, k, t, m)
        BY <1>2, <2>4 DEF Step
      <3> QED BY <3>1, <3>2
    <2> QED BY <2>3, <2>4
  <1> QED BY <1>1, <1>2

LEMMA ConfigurationsAreLeast ==
  ASSUME NEW n, Good(n), NEW w, Len(w) \in Nat
  PROVE  IsLeastClosed(Configs(n, w), MoveStep(n, w), {<<n.start, 0>>}, Configurations(n, w))
  <1> DEFINE D == Configs(n, w)
             step == MoveStep(n, w)
             Finds(f) == f = [C \in SUBSET ((DOMAIN n.states) \X (0 .. Len(w))) |->
                                LET more == C \cup UNION {Moves(n, w, conf) : conf \in C}
                                IN  IF more = C THEN C ELSE f[more]]
             found == CHOOSE f : Finds(f)
  <1>1. ASSUME NEW f PROVE Iterates(D, step, f) <=> Finds(f)
    BY DEF Iterates, MoveStep, Configs
  <1>2. Monotone(D, step)
    <2>1. ASSUME NEW C \in SUBSET D, NEW conf \in C PROVE Moves(n, w, conf) \subseteq D
      <3>1. PICK s \in DOMAIN n.states, k \in 0 .. Len(w) : conf = <<s, k>>
        BY DEF Configs
      <3> QED BY <3>1, MovesFacts
    <2>2. \A C \in SUBSET D : step[C] = UNION {Moves(n, w, conf) : conf \in C}
      BY DEF MoveStep
    <2>3. step \in [SUBSET D -> SUBSET D]
      <3>1. step = [C \in SUBSET D |-> step[C]]
        BY DEF MoveStep
      <3>2. ASSUME NEW C \in SUBSET D PROVE step[C] \in SUBSET D
        <4>1. \A conf \in C : Moves(n, w, conf) \subseteq D
          BY <2>1
        <4> HIDE DEF step, D
        <4> QED BY <2>2, <4>1
      <3> HIDE DEF step, D
      <3> QED BY <3>1, <3>2
    <2> HIDE DEF step, D
    <2> QED BY <2>2, <2>3 DEF Monotone
  <1>3. \E f : Finds(f)
    BY <1>1, <1>2, IterationExists
  <1>4. Configurations(n, w) = found[{<<n.start, 0>>}]
    BY DEF Configurations, Moves
  <1>5. Finds(found)
    <2> HIDE DEF Finds
    <2> QED BY <1>3
  <1>6. Iterates(D, step, found)
    BY <1>1, <1>5
  <1>7. IsFiniteSet(D) /\ {<<n.start, 0>>} \in SUBSET D
    <2>1. IsFiniteSet(DOMAIN n.states) /\ n.start \in DOMAIN n.states
      BY DEF Good, IsNFA
    <2>2. IsFiniteSet(0 .. Len(w)) /\ 0 \in 0 .. Len(w)
      BY FS_Interval
    <2> QED BY <2>1, <2>2, FS_Product DEF Configs
  <1> HIDE DEF found
  <1> QED BY <1>2, <1>4, <1>6, <1>7, IterationFinds

LEMMA WordsAreRead ==
  ASSUME NEW n, Good(n), NEW w, Len(w) \in Nat
  PROVE  AcceptsWord(n, w) <=> Accepted(n, w, 0, Len(w))
  <1> DEFINE C == Configurations(n, w)
             L == Len(w)
  <1>1. /\ C \in SUBSET Configs(n, w) /\ <<n.start, 0>> \in C
        /\ MoveStep(n, w)[C] \subseteq C
        /\ \A X \in SUBSET Configs(n, w) :
             {<<n.start, 0>>} \subseteq X /\ MoveStep(n, w)[X] \subseteq X => C \subseteq X
    BY ConfigurationsAreLeast DEF IsLeastClosed
  <1> HIDE DEF C
  <1>2. \A X \in SUBSET Configs(n, w) : MoveStep(n, w)[X] = UNION {Moves(n, w, c) : c \in X}
    BY DEF MoveStep
  <1>3. n.start \in DOMAIN n.states /\ n.accept \in DOMAIN n.states
        /\ 0 \in Places(w) /\ L \in Places(w)
    BY GoodFacts DEF Places
  <1>4. ASSUME AcceptsWord(n, w) PROVE Accepted(n, w, 0, L)
    <2> SUFFICES ASSUME NEW Y \in Markings(n, w), 0 \in Y[n.start], ClosedMarking(n, w, Y)
                 PROVE  L \in Y[n.accept]
      BY DEF Accepted, Run
    <2> DEFINE X == {c \in Configs(n, w) : c[2] \in Y[c[1]]}
    <2>1. X \in SUBSET Configs(n, w) /\ {<<n.start, 0>>} \subseteq X
      BY <1>3 DEF Configs, Places
    <2>2. ASSUME NEW c \in X, NEW d \in Moves(n, w, c) PROVE d \in X
      <3>1. PICK s \in DOMAIN n.states, k \in 0 .. L : c = <<s, k>>
        BY DEF Configs
      <3>2. d \in Configs(n, w)
        BY <2>2, <3>1, MovesFacts
      <3>3. PICK t \in DOMAIN n.states, m \in 0 .. L : d = <<t, m>>
        BY <3>2 DEF Configs
      <3>4. Step(n, w, s, k, t, m)
        BY <2>2, <3>1, <3>3, MovesFacts
      <3>5. k \in Y[s]
        BY <2>2, <3>1
      <3>6. m \in Y[t]
        BY <3>4, <3>5 DEF ClosedMarking, Places
      <3> QED BY <3>2, <3>3, <3>6
    <2>3. MoveStep(n, w)[X] \subseteq X
      <3> HIDE DEF X
      <3> QED BY <1>2, <2>1, <2>2
    <2>4. <<n.accept, L>> \in X
      <3> HIDE DEF X
      <3> QED BY <1>1, <1>4, <2>1, <2>3 DEF AcceptsWord, C
    <2> QED BY <2>4
  <1>5. ASSUME Accepted(n, w, 0, L) PROVE AcceptsWord(n, w)
    <2> DEFINE Y == [s \in DOMAIN n.states |-> {k \in Places(w) : <<s, k>> \in C}]
    <2>1. Y \in Markings(n, w) /\ 0 \in Y[n.start]
      BY <1>1, <1>3 DEF Markings
    <2>2. ASSUME NEW s \in DOMAIN n.states, NEW t \in DOMAIN n.states,
                 NEW k \in Places(w), NEW m \in Places(w),
                 <<s, k>> \in C, Step(n, w, s, k, t, m)
          PROVE  <<t, m>> \in C
      <3>1. <<t, m>> \in Moves(n, w, <<s, k>>)
        BY <2>2, MovesFacts DEF Places
      <3> QED BY <1>1, <1>2, <2>2, <3>1
    <2>3. ClosedMarking(n, w, Y)
      BY <2>2 DEF ClosedMarking
    <2>4. L \in Y[n.accept]
      <3> HIDE DEF Y
      <3> QED BY <1>5, <2>1, <2>3 DEF Accepted, Run
    <2> QED BY <1>3, <2>4 DEF AcceptsWord, C
  <1> QED BY <1>4, <1>5

-----------------------------------------------------------------------------
(***************************************************************************)
(* Ranges of characters.  init_range_nfa() halves the range, so that there *)
(* is a function that calls itself as InitRange says follows from the      *)
(* halves having fewer characters each.                                    *)
(***************************************************************************)

RangeOf(f, more, l, n) ==
  IF more = 0 THEN InitThompson(l, n)
  ELSE LET half == more \div 2
           t1   == f[half][l][n]
           t2   == f[more - half - 1][l + half + 1][n + t1.size]
       IN  Union(t1, t2, n + t1.size + t2.size)

IsRange(f) ==
  f = [more \in Nat |-> [l \in Nat |-> [n \in Nat |-> RangeOf(f, more, l, n)]]]

\* What the members of an NFA may hold, whatever its shape.
NFAStates == [ch : Nat, out1 : Nat \cup {NULL}, out2 : Nat \cup {NULL}]

NFAMembers ==
  [start : Nat, accept : Nat, alphabet : SUBSET Nat, size : Nat,
   mem_region : SUBSET Nat, states : UNION {[D -> NFAStates] : D \in SUBSET Nat}]

LEMMA NewMembers ==
  ASSUME NEW ch \in Nat, NEW new \in Nat
  PROVE  InitThompson(ch, new) \in NFAMembers
  <1> DEFINE D == {new, new + 1}
             f == InitThompson(ch, new).states
  <1>1. new + 1 \in Nat /\ D \in SUBSET Nat
    OBVIOUS
  <1>2. f \in [D -> NFAStates]
    BY <1>1 DEF InitThompson, NFAStates, NewState, EPSILON
  <1>3. f \in UNION {[E -> NFAStates] : E \in SUBSET Nat}
    BY <1>1, <1>2
  <1> QED BY <1>1, <1>3 DEF NFAMembers, InitThompson

LEMMA UnionMembers ==
  ASSUME NEW l \in NFAMembers, NEW r \in NFAMembers, NEW new \in Nat
  PROVE  Union(l, r, new) \in NFAMembers
  <1> DEFINE j == Joined(l, r)
             f == [j EXCEPT ![l.accept].out1 = new, ![r.accept].out1 = new]
             start == [ch |-> EPSILON, out1 |-> l.start, out2 |-> r.start]
             w == Wrap(f, new, start, new + 1)
             D == DOMAIN l.states \cup DOMAIN r.states
             E == D \cup {new, new + 1}
  <1>1. /\ l.start \in Nat /\ l.accept \in Nat /\ l.alphabet \in SUBSET Nat
        /\ l.size \in Nat /\ l.mem_region \in SUBSET Nat
        /\ r.start \in Nat /\ r.accept \in Nat /\ r.alphabet \in SUBSET Nat
        /\ r.size \in Nat /\ r.mem_region \in SUBSET Nat
        /\ new + 1 \in Nat
    BY DEF NFAMembers
  <1>2. /\ DOMAIN l.states \in SUBSET Nat /\ l.states \in [DOMAIN l.states -> NFAStates]
        /\ DOMAIN r.states \in SUBSET Nat /\ r.states \in [DOMAIN r.states -> NFAStates]
    BY DEF NFAMembers
  <1>3. D \in SUBSET Nat /\ E \in SUBSET Nat
    BY <1>1, <1>2
  <1>4. j \in [D -> NFAStates]
    BY <1>2 DEF Joined
  <1> HIDE DEF j, D
  <1>5. \A s \in NFAStates : [s EXCEPT !.out1 = new] \in NFAStates
    BY DEF NFAStates
  <1>6. f \in [D -> NFAStates]
    <2> DEFINE g == [j EXCEPT ![l.accept].out1 = new]
    <2>1. g \in [D -> NFAStates]
      BY <1>4, <1>5
    <2>2. f = [g EXCEPT ![r.accept].out1 = new]
      OBVIOUS
    <2> HIDE DEF g, f
    <2> QED BY <1>5, <2>1, <2>2
  <1> HIDE DEF f
  <1>7. start \in NFAStates /\ NewState \in NFAStates
    BY <1>1 DEF NFAStates, NewState, EPSILON
  <1> HIDE DEF start
  <1>8. w \in [E -> NFAStates]
    BY <1>6, <1>7 DEF Wrap
  <1>9. w \in UNION {[C -> NFAStates] : C \in SUBSET Nat}
    BY <1>3, <1>8
  <1> HIDE DEF w, E
  <1>10. Union(l, r, new) =
           [start |-> new + 1, accept |-> new, alphabet |-> l.alphabet \cup r.alphabet,
            size |-> l.size + 2 + r.size,
            mem_region |-> l.mem_region \cup r.mem_region \cup {new, new + 1}, states |-> w]
    BY DEF Union, w, f, start, j
  <1> QED BY <1>1, <1>9, <1>10 DEF NFAMembers

LEMMA HalfFacts ==
  ASSUME NEW more \in Nat, more # 0
  PROVE  LET half == more \div 2 IN
         /\ half \in Nat /\ half < more /\ half \in 0 .. more - 1
         /\ more - half - 1 \in Nat /\ more - half - 1 < more
         /\ more - half - 1 \in 0 .. more - 1
         /\ half + 1 + (more - half - 1) = more
  OBVIOUS

LEMMA RangeExists == \E f : IsRange(f)
  <1> DEFINE W == [Nat -> [Nat -> NFAMembers]]
             Row(g, k) == [l \in Nat |-> [n \in Nat |-> RangeOf(g, k, l, n)]]
             step == [k \in Nat |-> [g \in [0 .. k - 1 -> W] |-> Row(g, k)]]
  <1>1. ASSUME NEW k \in Nat, NEW g \in [0 .. k - 1 -> W], NEW l \in Nat, NEW n \in Nat
        PROVE  RangeOf(g, k, l, n) \in NFAMembers
    <2>1. CASE k = 0
      BY <2>1, NewMembers DEF RangeOf
    <2>2. CASE k # 0
      <3> DEFINE half == k \div 2
                 t1 == g[half][l][n]
                 t2 == g[k - half - 1][l + half + 1][n + t1.size]
      <3>1. /\ half \in Nat /\ half \in 0 .. k - 1 /\ k - half - 1 \in 0 .. k - 1
        BY <2>2, HalfFacts
      <3> HIDE DEF half
      <3>2. t1 \in NFAMembers
        BY <3>1
      <3>3. t1.size \in Nat
        BY <3>2 DEF NFAMembers
      <3> HIDE DEF t1
      <3>4. l + half + 1 \in Nat /\ n + t1.size \in Nat
        BY <3>1, <3>3
      <3>5. t2 \in NFAMembers
        BY <3>1, <3>4
      <3>6. t2.size \in Nat
        BY <3>5 DEF NFAMembers
      <3> HIDE DEF t2
      <3>7. n + t1.size + t2.size \in Nat
        BY <3>3, <3>6
      <3>8. RangeOf(g, k, l, n) = Union(t1, t2, n + t1.size + t2.size)
        BY <2>2 DEF RangeOf, t1, t2, half
      <3> QED BY <3>2, <3>5, <3>7, <3>8, UnionMembers
    <2> QED BY <2>1, <2>2
  <1>2. ASSUME NEW k \in Nat, NEW g \in [0 .. k - 1 -> W] PROVE Row(g, k) \in W
    BY <1>1
  <1>3. ComputesFrom(W, step)
    <2>1. ASSUME NEW k \in Nat PROVE step[k] \in [[0 .. k - 1 -> W] -> W]
      <3> HIDE DEF Row, W
      <3> QED BY <1>2
    <2> HIDE DEF step, W
    <2> QED BY <2>1 DEF ComputesFrom
  <1>4. PICK f \in [Nat -> W] : \A k \in Nat : f[k] = step[k][Upto(f, k)]
    <2> HIDE DEF step, W
    <2> QED BY <1>3, RecursionExists
  <1>5. ASSUME NEW k \in Nat PROVE f[k] = Row(f, k)
    <2> DEFINE g == Upto(f, k)
    <2>1. g \in [0 .. k - 1 -> W] /\ \A j \in 0 .. k - 1 : g[j] = f[j]
      <3>1. \A j \in 0 .. k - 1 : j \in Nat
        OBVIOUS
      <3> HIDE DEF W
      <3> QED BY <3>1 DEF Upto
    <2> HIDE DEF g
    <2>2. f[k] = Row(g, k)
      <3>1. f[k] = step[k][g]
        BY <1>4 DEF g
      <3>2. step[k] = [h \in [0 .. k - 1 -> W] |-> Row(h, k)]
        OBVIOUS
      <3> HIDE DEF step, Row, W
      <3> QED BY <2>1, <3>1, <3>2
    <2>3. ASSUME NEW l \in Nat, NEW n \in Nat PROVE RangeOf(g, k, l, n) = RangeOf(f, k, l, n)
      <3>1. CASE k = 0
        BY <3>1 DEF RangeOf
      <3>2. CASE k # 0
        <4>1. g[k \div 2] = f[k \div 2] /\ g[k - (k \div 2) - 1] = f[k - (k \div 2) - 1]
          BY <2>1, <3>2, HalfFacts
        <4> QED BY <3>2, <4>1 DEF RangeOf
      <3> QED BY <3>1, <3>2
    <2> QED BY <2>2, <2>3
  <1>6. f = [k \in Nat |-> Row(f, k)]
    <2> HIDE DEF Row, W
    <2> QED BY <1>4, <1>5
  <1> QED BY <1>6 DEF IsRange

\* An NFA of freshly allocated states only, which accepts one character, of chars.
Allocates(u, new, chars) ==
  /\ Good(u) /\ u.size \in Nat
  /\ u.mem_region = new .. new + u.size - 1
  /\ u.alphabet \subseteq chars /\ ReadsOne(u, chars)

LEMMA NewAllocates ==
  ASSUME NEW ch \in Nat \ {EPSILON}, NEW new \in Nat
  PROVE  Allocates(InitThompson(ch, new), new, {ch}) /\ InitThompson(ch, new).size = 2
  <1> DEFINE u == InitThompson(ch, new)
  <1>1. Good(u) /\ u.mem_region = {new, new + 1} /\ u.alphabet = {ch} /\ u.size = 2
    BY InitThompsonGood
  <1>2. {new, new + 1} = new .. new + 2 - 1
    OBVIOUS
  <1>3. ReadsOne(u, {ch})
    <2>1. ASSUME NEW w \in Seq(Nat), NEW i \in Places(w), NEW j \in Places(w)
          PROVE  Accepted(u, w, i, j) <=> j = i + 1 /\ w[j] \in {ch}
      <3>1. Len(w) \in Nat
        OBVIOUS
      <3>2. Accepted(u, w, i, j) <=> j = i + 1 /\ w[j] = ch
        BY <3>1, InitThompsonReads
      <3> HIDE DEF u
      <3> QED BY <3>2
    <2> HIDE DEF u
    <2> QED BY <2>1 DEF ReadsOne
  <1> HIDE DEF u
  <1>4. Allocates(u, new, {ch}) /\ u.size = 2
    BY <1>1, <1>2, <1>3 DEF Allocates
  <1> QED BY <1>4 DEF u

LEMMA UnionAllocates ==
  ASSUME NEW new \in Nat, NEW C, NEW E, NEW l, Allocates(l, new, C),
         NEW r, Allocates(r, new + l.size, E)
  PROVE  /\ Allocates(Union(l, r, new + l.size + r.size), new, C \cup E)
         /\ Union(l, r, new + l.size + r.size).size = l.size + 2 + r.size
  <1> DEFINE a == l.size
             b == r.size
             n == new + a + b
             u == Union(l, r, n)
  <1>1. /\ Good(l) /\ a \in Nat /\ l.mem_region = new .. new + a - 1 /\ l.alphabet \subseteq C
        /\ Good(r) /\ b \in Nat /\ r.mem_region = new + a .. new + a + b - 1
        /\ r.alphabet \subseteq E
    BY DEF Allocates
  <1> HIDE DEF a, b
  <1>2. /\ (new .. new + a - 1) \cap (new + a .. new + a + b - 1) = {}
        /\ n \in Nat
        /\ n \notin (new .. new + a - 1) \cup (new + a .. new + a + b - 1)
        /\ n + 1 \notin (new .. new + a - 1) \cup (new + a .. new + a + b - 1)
        /\ (new .. new + a - 1) \cup (new + a .. new + a + b - 1) \cup {n, n + 1}
             = new .. new + (a + 2 + b) - 1
    BY <1>1
  <1> HIDE DEF n
  <1>3. Apart(l, r)
    BY <1>1, <1>2 DEF Apart
  <1>4. Unused(n, l.mem_region \cup r.mem_region)
    BY <1>1, <1>2, UnusedFacts
  <1>5. Good(u)
    BY <1>3, <1>4, UnionGood
  <1>6. /\ u.size = a + 2 + b /\ u.alphabet = l.alphabet \cup r.alphabet
        /\ u.mem_region = l.mem_region \cup r.mem_region \cup {n, n + 1}
    BY DEF Union, a, b
  <1>7. ReadsOne(u, C \cup E)
    <2>1. ASSUME NEW w \in Seq(Nat), NEW i \in Places(w), NEW j \in Places(w)
          PROVE  Accepted(u, w, i, j) <=> j = i + 1 /\ w[j] \in C \cup E
      <3>1. Len(w) \in Nat
        OBVIOUS
      <3>2. Accepted(u, w, i, j) <=> Accepted(l, w, i, j) \/ Accepted(r, w, i, j)
        BY <1>3, <1>4, <3>1, UnionReads
      <3>3. ReadsOne(l, C) /\ ReadsOne(r, E)
        BY DEF Allocates
      <3> HIDE DEF u
      <3>4. /\ Accepted(l, w, i, j) <=> j = i + 1 /\ w[j] \in C
            /\ Accepted(r, w, i, j) <=> j = i + 1 /\ w[j] \in E
        BY <3>3 DEF ReadsOne
      <3> QED BY <3>2, <3>4
    <2> HIDE DEF u
    <2> QED BY <2>1 DEF ReadsOne
  <1> HIDE DEF u
  <1>8. u.size \in Nat
    BY <1>1, <1>6
  <1>9. u.mem_region = new .. new + u.size - 1
    BY <1>1, <1>2, <1>6
  <1>10. u.alphabet \subseteq C \cup E
    BY <1>1, <1>6
  <1>11. Allocates(u, new, C \cup E) /\ u.size = a + 2 + b
    BY <1>5, <1>6, <1>7, <1>8, <1>9, <1>10 DEF Allocates
  <1> QED BY <1>11 DEF u, n, a, b

\* init_range_nfa() halves the range and still covers the same characters.
LEMMA RangeAllocates ==
  ASSUME NEW f, IsRange(f)
  PROVE  \A more \in Nat : \A l \in Nat \ {EPSILON} : \A n \in Nat :
           Allocates(f[more][l][n], n, l .. l + more)
  <1> DEFINE P(more) == \A l \in Nat \ {EPSILON} : \A n \in Nat :
                          Allocates(f[more][l][n], n, l .. l + more)
             Bad == {more \in Nat : ~ P(more)}
  <1>1. ASSUME NEW k \in Nat, NEW l \in Nat, NEW n \in Nat
        PROVE  f[k][l][n] = RangeOf(f, k, l, n)
    <2> DEFINE Row(m) == [i \in Nat |-> [j \in Nat |-> RangeOf(f, m, i, j)]]
    <2>1. f = [m \in Nat |-> Row(m)]
      BY DEF IsRange
    <2>2. Row(k)[l][n] = RangeOf(f, k, l, n)
      OBVIOUS
    <2> HIDE DEF Row
    <2>3. f[k] = Row(k)
      BY <2>1
    <2> QED BY <2>2, <2>3
  <1> HIDE DEF P
  <1>2. SUFFICES ASSUME Bad # {} PROVE FALSE
    BY DEF P
  <1>3. PICK m \in Bad : \A k \in Bad : m <= k
    <2>1. Bad \in SUBSET Nat
      OBVIOUS
    <2> HIDE DEF Bad
    <2> QED BY <1>2, <2>1, LeastNumber
  <1>4. \A k \in Nat : k < m => P(k)
    BY <1>3
  <1>5. ASSUME NEW l \in Nat \ {EPSILON}, NEW n \in Nat
        PROVE  Allocates(f[m][l][n], n, l .. l + m)
    <2>1. CASE m = 0
      <3>1. f[m][l][n] = InitThompson(l, n)
        BY <1>1, <2>1 DEF RangeOf
      <3>2. l .. l + 0 = {l}
        OBVIOUS
      <3> QED BY <2>1, <3>1, <3>2, NewAllocates
    <2>2. CASE m # 0
      <3> DEFINE half == m \div 2
                 t1 == f[half][l][n]
                 t2 == f[m - half - 1][l + half + 1][n + t1.size]
      <3>1. /\ half \in Nat /\ half < m
            /\ m - half - 1 \in Nat /\ m - half - 1 < m
        BY <2>2, HalfFacts
      <3>2. f[m][l][n] = Union(t1, t2, n + t1.size + t2.size)
        BY <1>1, <2>2 DEF RangeOf
      <3> HIDE DEF half
      <3>3. Allocates(t1, n, l .. l + half)
        BY <1>4, <3>1 DEF P
      <3>4. t1.size \in Nat
        BY <3>3 DEF Allocates
      <3> HIDE DEF t1
      <3>5. l + half + 1 \in Nat \ {EPSILON} /\ n + t1.size \in Nat
        BY <3>1, <3>4 DEF EPSILON
      <3>6. Allocates(t2, n + t1.size, l + half + 1 .. l + half + 1 + (m - half - 1))
        BY <1>4, <3>1, <3>5 DEF P
      <3> HIDE DEF t2
      <3>7. (l .. l + half) \cup (l + half + 1 .. l + half + 1 + (m - half - 1)) = l .. l + m
        BY <3>1
      <3>8. Allocates(Union(t1, t2, n + t1.size + t2.size), n,
                      (l .. l + half) \cup (l + half + 1 .. l + half + 1 + (m - half - 1)))
        BY <3>3, <3>6, UnionAllocates
      <3> QED BY <3>2, <3>7, <3>8
    <2> QED BY <2>1, <2>2
  <1> QED BY <1>3, <1>5 DEF P

LEMMA InitRangeAllocates ==
  ASSUME NEW left \in Nat \ {EPSILON}, NEW right \in Nat, left <= right, NEW new \in Nat
  PROVE  Allocates(InitRange(left, right, new), new, left .. right)
  <1> DEFINE range == CHOOSE f : IsRange(f)
  <1>1. IsRange(range)
    BY RangeExists
  <1>2. InitRange(left, right, new) = range[right - left][left][new]
    BY DEF InitRange, IsRange, RangeOf
  <1> HIDE DEF range
  <1>3. right - left \in Nat /\ left + (right - left) = right
    OBVIOUS
  <1>4. Allocates(range[right - left][left][new], new, left .. left + (right - left))
    BY <1>1, <1>3, RangeAllocates
  <1> QED BY <1>2, <1>3, <1>4

LEMMA InitWildcardAllocates ==
  ASSUME NEW new \in Nat
  PROVE  Allocates(InitWildcard(Space, Tilde, Tab, Newline, new), new, Characters)
  <1> DEFINE w == InitRange(Space, Tilde, new)
             a == w.size
             t == InitThompson(Tab, new + a)
             n == InitThompson(Newline, new + a + 2)
             result == Union(t, n, new + a + 4)
  <1>1. /\ Space \in Nat \ {EPSILON} /\ Tilde \in Nat /\ Space <= Tilde
        /\ Tab \in Nat \ {EPSILON} /\ Newline \in Nat \ {EPSILON}
    BY CharacterAssumption
  <1>2. Allocates(w, new, Space .. Tilde)
    BY <1>1, InitRangeAllocates
  <1>3. a \in Nat
    BY <1>2 DEF Allocates
  <1> HIDE DEF w
  <1>4. new + a \in Nat /\ new + a + 2 \in Nat
    BY <1>3
  <1>5. Allocates(t, new + a, {Tab}) /\ t.size = 2
    <2> HIDE DEF a
    <2> QED BY <1>1, <1>4, NewAllocates
  <1>6. Allocates(n, new + a + 2, {Newline}) /\ n.size = 2
    <2> HIDE DEF a
    <2> QED BY <1>1, <1>4, NewAllocates
  <1> HIDE DEF t, n
  <1>7. Allocates(result, new + a, {Tab} \cup {Newline}) /\ result.size = 6
    <2> DEFINE b == new + a
    <2> HIDE DEF a
    <2>1. Allocates(n, b + t.size, {Newline})
      BY <1>3, <1>5, <1>6
    <2>2. /\ Allocates(Union(t, n, b + t.size + n.size), b, {Tab} \cup {Newline})
          /\ Union(t, n, b + t.size + n.size).size = t.size + 2 + n.size
      <3>1. b \in Nat /\ Allocates(t, b, {Tab})
        BY <1>4, <1>5
      <3> HIDE DEF b
      <3> QED BY <2>1, <3>1, UnionAllocates
    <2>3. (new + a) + t.size + n.size = new + a + 4 /\ t.size + 2 + n.size = 6
      BY <1>3, <1>5, <1>6
    <2> QED BY <2>2, <2>3
  <1>8. InitWildcard(Space, Tilde, Tab, Newline, new) = Union(w, result, new + a + 6)
    BY DEF InitWildcard, w, t, n
  <1> HIDE DEF result
  <1>9. Allocates(Union(w, result, new + w.size + result.size), new,
                  (Space .. Tilde) \cup ({Tab} \cup {Newline}))
    BY <1>2, <1>7, UnionAllocates
  <1>10. (Space .. Tilde) \cup ({Tab} \cup {Newline}) = Characters
    BY DEF Characters, Printable
  <1> QED BY <1>7, <1>8, <1>9, <1>10

-----------------------------------------------------------------------------
(***************************************************************************)
(* The inductive invariant: what is held at the same time shares no state, *)
(* what is allocated is what is held, and an NFA means its words.          *)
(***************************************************************************)

Regions(H) == UNION {h.nfa.mem_region : h \in H}

Sound(H, allocated, next) ==
  /\ next \in Nat /\ allocated \subseteq 0 .. next - 1
  /\ \A h \in H : Good(h.nfa) /\ h.nfa.alphabet \subseteq Characters /\ Means(h.nfa, h.words)
  /\ \A h, k \in H : h # k => h.nfa.mem_region \cap k.nfa.mem_region = {}
  /\ allocated = Regions(H)

Inv == calls \in 0 .. MaxCalls /\ Sound(held, heap, fresh)

\* A new NFA takes the place of those whose states it consists of.
LEMMA Replaced ==
  ASSUME NEW H, NEW p, NEW next, Sound(H, p, next), NEW used \in SUBSET H,
         NEW size \in Nat, NEW u, Good(u), u.alphabet \subseteq Characters,
         u.mem_region = Regions(used) \cup next .. next + size - 1,
         NEW words, Means(u, words)
  PROVE  Sound((H \ used) \cup {[nfa |-> u, words |-> words]},
               p \cup next .. next + size - 1, next + size)
  <1> DEFINE e == [nfa |-> u, words |-> words]
             G == (H \ used) \cup {e}
             more == next .. next + size - 1
  <1>1. /\ next \in Nat /\ p \subseteq 0 .. next - 1
        /\ \A h \in H :
             Good(h.nfa) /\ h.nfa.alphabet \subseteq Characters /\ Means(h.nfa, h.words)
        /\ \A h, k \in H : h # k => h.nfa.mem_region \cap k.nfa.mem_region = {}
        /\ p = UNION {h.nfa.mem_region : h \in H}
    BY DEF Sound, Regions
  <1>2. e.nfa = u /\ e.words = words
    OBVIOUS
  <1> HIDE DEF e
  <1>3. next + size \in Nat /\ p \cup more \subseteq 0 .. (next + size) - 1 /\ p \cap more = {}
    BY <1>1
  <1> HIDE DEF more
  <1>4. \A h \in G :
          Good(h.nfa) /\ h.nfa.alphabet \subseteq Characters /\ Means(h.nfa, h.words)
    BY <1>1, <1>2
  <1>5. \A h \in H : h.nfa.mem_region \subseteq p
    BY <1>1
  <1>6. \A a : a \in u.mem_region <=> a \in more \/ \E h \in used : a \in h.nfa.mem_region
    <2>1. u.mem_region = Regions(used) \cup more
      BY DEF more
    <2>2. \A a : a \in Regions(used) <=> \E h \in used : a \in h.nfa.mem_region
      BY DEF Regions
    <2> QED BY <2>1, <2>2
  <1>7. ASSUME NEW h \in H \ used, NEW a \in h.nfa.mem_region PROVE a \notin u.mem_region
    <2>1. a \notin more
      BY <1>3, <1>5
    <2>2. ASSUME NEW k \in used PROVE a \notin k.nfa.mem_region
      BY <1>1
    <2> QED BY <1>6, <2>1, <2>2
  <1>8. \A h, k \in G : h # k => h.nfa.mem_region \cap k.nfa.mem_region = {}
    BY <1>1, <1>2, <1>7
  <1>9. p \cup more = Regions(G)
    <2>1. ASSUME NEW a \in p \cup more PROVE \E h \in G : a \in h.nfa.mem_region
      <3>1. CASE a \in u.mem_region
        BY <1>2, <3>1
      <3>2. CASE a \notin u.mem_region
        <4>1. a \in p
          BY <1>6, <3>2
        <4>2. PICK h \in H : a \in h.nfa.mem_region
          BY <1>1, <4>1
        <4>3. h \notin used
          BY <1>6, <3>2, <4>2
        <4> QED BY <4>2, <4>3
      <3> QED BY <3>1, <3>2
    <2>2. ASSUME NEW h \in G, NEW a \in h.nfa.mem_region PROVE a \in p \cup more
      <3>1. CASE h \in H
        BY <1>5, <3>1
      <3>2. CASE h = e
        BY <1>2, <1>5, <1>6, <3>2
      <3> QED BY <3>1, <3>2
    <2> HIDE DEF G
    <2> QED BY <2>1, <2>2 DEF Regions
  <1> HIDE DEF G
  <1>10. Sound(G, p \cup more, next + size)
    BY <1>3, <1>4, <1>8, <1>9 DEF Sound
  <1> QED BY <1>10 DEF G, e, more

LEMMA Destroyed ==
  ASSUME NEW H, NEW p, NEW next, Sound(H, p, next), NEW h \in H
  PROVE  Sound(H \ {h}, p \ h.nfa.mem_region, next)
  <1>1. p \ h.nfa.mem_region = Regions(H \ {h})
    BY DEF Sound, Regions
  <1> QED BY <1>1 DEF Sound

LEMMA Returned ==
  ASSUME Inv, NEW used \in SUBSET held, NEW size \in Nat, NEW u, NEW words,
         Return(used, u, words, size), Good(u), u.alphabet \subseteq Characters, Means(u, words),
         u.mem_region = Regions(used) \cup fresh .. fresh + size - 1
  PROVE  Inv'
  <1>1. calls' \in 0 .. MaxCalls
    BY BoundAssumption DEF Inv, Return
  <1>2. Sound((held \ used) \cup {[nfa |-> u, words |-> words]},
              heap \cup fresh .. fresh + size - 1, fresh + size)
    BY Replaced DEF Inv
  <1>3. Sound(held', heap', fresh')
    BY <1>2 DEF Return
  <1> QED BY <1>1, <1>3 DEF Inv

\* Every call keeps what is held sound.
LEMMA NextKeepsInv ==
  ASSUME Inv, [Next]_vars
  PROVE  Inv'
  <1>1. /\ calls \in 0 .. MaxCalls /\ fresh \in Nat /\ heap \subseteq 0 .. fresh - 1
        /\ \A h \in held :
             Good(h.nfa) /\ h.nfa.alphabet \subseteq Characters /\ Means(h.nfa, h.words)
        /\ \A h, k \in held : h # k => h.nfa.mem_region \cap k.nfa.mem_region = {}
        /\ heap = Regions(held)
    BY DEF Inv, Sound
  <1>2. Characters \subseteq Nat \ {EPSILON} /\ Printable \subseteq Nat \ {EPSILON}
    BY CharacterAssumption DEF Characters, Printable, EPSILON
  <1>3. Regions({}) = {}
    BY DEF Regions
  <1>4. fresh .. fresh + 2 - 1 = {fresh, fresh + 1} /\ fresh .. fresh + 0 - 1 = {}
    BY <1>1
  <1>5. ASSUME NEW h \in held
        PROVE  /\ Unused(fresh, h.nfa.mem_region)
               /\ h.nfa.mem_region \subseteq heap
    <2>1. h.nfa.mem_region \subseteq heap
      BY <1>1 DEF Regions
    <2>2. fresh \notin h.nfa.mem_region /\ fresh + 1 \notin h.nfa.mem_region
      BY <1>1, <2>1
    <2> QED BY <1>1, <2>1, <2>2, UnusedFacts
  \* A construction from nothing.
  <1>6. ASSUME NEW u, NEW chars, Allocates(u, fresh, chars), chars \subseteq Characters,
               Return({}, u, Letters(chars), u.size)
        PROVE  Inv'
    <2>1. Means(u, Letters(chars))
      <3>1. chars \in SUBSET Nat /\ ReadsOne(u, chars)
        BY <1>2, <1>6 DEF Allocates
      <3> QED BY <3>1, LettersMeant
    <2>2. /\ Good(u) /\ u.size \in Nat /\ u.alphabet \subseteq Characters
          /\ u.mem_region = Regions({}) \cup fresh .. fresh + u.size - 1
      BY <1>3, <1>6 DEF Allocates
    <2> QED BY <1>6, <2>1, <2>2, Returned
  <1>7. CASE \E ch \in Characters : InitThompsonNFA(ch)
    <2>1. PICK ch \in Characters : InitThompsonNFA(ch)
      BY <1>7
    <2>2. PICK u : u = InitThompson(ch, fresh)
      OBVIOUS
    <2>3. Allocates(u, fresh, {ch}) /\ u.size = 2
      BY <1>1, <1>2, <2>2, NewAllocates
    <2>4. Return({}, u, Letters({ch}), u.size)
      BY <2>1, <2>2, <2>3 DEF InitThompsonNFA
    <2> QED BY <1>6, <2>3, <2>4
  <1>8. CASE \E left, right \in Printable : InitRangeNFA(left, right)
    <2>1. PICK left \in Printable, right \in Printable : InitRangeNFA(left, right)
      BY <1>8
    <2>2. PICK u : u = InitRange(left, right, fresh)
      OBVIOUS
    <2>3. left < right /\ Return({}, u, Letters(left .. right), u.size)
      BY <2>1, <2>2 DEF InitRangeNFA
    <2>4. left \in Nat \ {EPSILON} /\ right \in Nat /\ left <= right
      BY <1>2, <2>3
    <2>5. Allocates(u, fresh, left .. right)
      BY <1>1, <2>2, <2>4, InitRangeAllocates
    <2>6. left .. right \subseteq Characters
      BY CharacterAssumption DEF Characters, Printable
    <2> QED BY <1>6, <2>3, <2>5, <2>6
  <1>9. CASE InitWildcardNFA
    <2>1. PICK u : u = InitWildcard(Space, Tilde, Tab, Newline, fresh)
      OBVIOUS
    <2>2. Return({}, u, Letters(Characters), u.size)
      BY <1>9, <2>1 DEF InitWildcardNFA
    <2>3. Allocates(u, fresh, Characters)
      BY <1>1, <2>1, InitWildcardAllocates
    <2> QED BY <1>6, <2>2, <2>3
  <1>10. ASSUME NEW l \in held, NEW r \in held, l # r
         PROVE  /\ Apart(l.nfa, r.nfa)
                /\ Unused(fresh, l.nfa.mem_region \cup r.nfa.mem_region)
                /\ Regions({l, r}) = l.nfa.mem_region \cup r.nfa.mem_region
                /\ l.nfa.alphabet \cup r.nfa.alphabet \subseteq Characters
    <2>1. Apart(l.nfa, r.nfa)
      BY <1>1, <1>10 DEF Apart
    <2>2. Unused(fresh, l.nfa.mem_region \cup r.nfa.mem_region)
      BY <1>5 DEF Unused
    <2>3. Regions({l, r}) = l.nfa.mem_region \cup r.nfa.mem_region
      BY DEF Regions
    <2> QED BY <1>1, <2>1, <2>2, <2>3
  <1>11. CASE \E l, r \in held : NFAUnion(l, r)
    <2>1. PICK l \in held, r \in held : NFAUnion(l, r)
      BY <1>11
    <2>2. PICK u : u = Union(l.nfa, r.nfa, fresh)
      OBVIOUS
    <2>3. l # r /\ Return({l, r}, u, l.words \cup r.words, 2)
      BY <2>1, <2>2 DEF NFAUnion
    <2>4. Good(u)
      BY <1>10, <2>2, <2>3, UnionGood
    <2>5. /\ u.alphabet = l.nfa.alphabet \cup r.nfa.alphabet
          /\ u.mem_region = l.nfa.mem_region \cup r.nfa.mem_region \cup {fresh, fresh + 1}
      BY <2>2 DEF Union
    <2>6. /\ u.alphabet \subseteq Characters
          /\ u.mem_region = Regions({l, r}) \cup fresh .. fresh + 2 - 1
      BY <1>4, <1>10, <2>3, <2>5
    <2>7. {l, r} \in SUBSET held /\ 2 \in Nat
      OBVIOUS
    <2>8. Means(u, l.words \cup r.words)
      BY <1>1, <1>10, <2>2, <2>3, UnionMeans
    <2> QED BY <2>3, <2>4, <2>6, <2>7, <2>8, Returned
  <1>12. CASE \E l, r \in held : NFAAppend(l, r)
    <2>1. PICK l \in held, r \in held : NFAAppend(l, r)
      BY <1>12
    <2>2. PICK u : u = Concat(l.nfa, r.nfa)
      OBVIOUS
    <2>3. l # r /\ Return({l, r}, u, Concatenation(l.words, r.words), 0)
      BY <2>1, <2>2 DEF NFAAppend
    <2>4. Good(u)
      BY <1>10, <2>2, <2>3, ConcatGood
    <2>5. /\ u.alphabet = l.nfa.alphabet \cup r.nfa.alphabet
          /\ u.mem_region = l.nfa.mem_region \cup r.nfa.mem_region
      BY <2>2 DEF Concat
    <2>6. /\ u.alphabet \subseteq Characters
          /\ u.mem_region = Regions({l, r}) \cup fresh .. fresh + 0 - 1
      BY <1>4, <1>10, <2>3, <2>5
    <2>7. {l, r} \in SUBSET held /\ 0 \in Nat
      OBVIOUS
    <2>8. Means(u, Concatenation(l.words, r.words))
      BY <1>1, <1>10, <2>2, <2>3, ConcatMeans
    <2> QED BY <2>3, <2>4, <2>6, <2>7, <2>8, Returned
  <1>13. CASE \E h \in held, quantifier \in Quantifiers : TransformNFA(h, quantifier)
    <2>1. PICK h \in held, quantifier \in Quantifiers : TransformNFA(h, quantifier)
      BY <1>13
    <2>2. PICK u : u = Transform(h.nfa, quantifier, fresh)
      OBVIOUS
    <2>3. Return({h}, u, Quantified(h.words, quantifier), 2)
      BY <2>1, <2>2 DEF TransformNFA
    <2>4. Good(u)
      BY <1>1, <1>5, <2>2, TransformGood
    <2>5. u.alphabet = h.nfa.alphabet /\ u.mem_region = h.nfa.mem_region \cup {fresh, fresh + 1}
      BY <2>2 DEF Transform
    <2>6. Regions({h}) = h.nfa.mem_region
      BY DEF Regions
    <2>7. /\ u.alphabet \subseteq Characters
          /\ u.mem_region = Regions({h}) \cup fresh .. fresh + 2 - 1
      BY <1>1, <1>4, <2>5, <2>6
    <2>8. {h} \in SUBSET held /\ 2 \in Nat
      OBVIOUS
    <2>9. Means(u, Quantified(h.words, quantifier))
      BY <1>1, <1>5, <2>2, TransformMeans
    <2> QED BY <2>3, <2>4, <2>7, <2>8, <2>9, Returned
  <1>14. CASE \E h \in held : DestroyNFAAndStates(h)
    <2>1. PICK h \in held : DestroyNFAAndStates(h)
      BY <1>14
    <2>2. Sound(held \ {h}, heap \ h.nfa.mem_region, fresh)
      BY Destroyed DEF Inv
    <2> QED BY <1>1, <2>1, <2>2 DEF DestroyNFAAndStates, Inv
  <1>15. CASE UNCHANGED vars
    BY <1>15 DEF Inv, vars
  <1> QED BY <1>7, <1>8, <1>9, <1>11, <1>12, <1>13, <1>14, <1>15 DEF Next

THEOREM Invariance == Spec => []Inv
  <1>1. Init => Inv
    <2> SUFFICES ASSUME Init PROVE Inv
      OBVIOUS
    <2>1. calls \in 0 .. MaxCalls
      BY BoundAssumption DEF Init
    <2>2. Sound({}, {}, 0)
      BY DEF Sound, Regions
    <2> QED BY <2>1, <2>2 DEF Init, Inv
  <1>2. Inv /\ [Next]_vars => Inv'
    BY NextKeepsInv
  <1> QED BY <1>1, <1>2, PTL DEF Spec

\* Every NFA in the parser's hands is made of its own states and reads characters
\* of the language only.
THEOREM TypeOKHolds == Spec => []TypeOK
  <1>1. Inv => TypeOK
    BY DEF Inv, Sound, TypeOK, NFAs, Good
  <1> QED BY <1>1, Invariance, PTL

\* However the constructions of nfa.c are nested, the NFA has the shape that the
\* next construction and the subset construction rely on.
THEOREM ThompsonShapeHolds == Spec => []ThompsonShape
  <1>1. Inv => ThompsonShape
    BY ShapeFacts DEF Inv, Sound, ThompsonShape, NFAs, Good
  <1> QED BY <1>1, Invariance, PTL

\* Destroying an NFA frees every state of it once and no state of another NFA:
\* whatever is allocated is owned by exactly one of the NFAs held.
THEOREM OwnedOnceHolds == Spec => []OwnedOnce
  <1>1. Inv => OwnedOnce
    <2> SUFFICES ASSUME Inv PROVE OwnedOnce
      OBVIOUS
    <2>1. /\ \A h \in held : Good(h.nfa)
          /\ \A h, k \in held : h # k => h.nfa.mem_region \cap k.nfa.mem_region = {}
          /\ heap = UNION {h.nfa.mem_region : h \in held}
      BY DEF Inv, Sound, Regions
    <2>2. heap = UNION {n.mem_region : n \in NFAs}
      BY <2>1 DEF NFAs
    <2>3. ASSUME NEW n \in NFAs
          PROVE  n.mem_region = DOMAIN n.states /\ n.size = Cardinality(n.mem_region)
      <3>1. Good(n)
        BY <2>1 DEF NFAs
      <3> QED BY <3>1, GoodFacts
    <2>4. ASSUME NEW n \in NFAs, NEW m \in NFAs \ {n}
          PROVE  m.mem_region \cap n.mem_region = {}
      BY <2>1 DEF NFAs
    <2> QED BY <2>2, <2>3, <2>4 DEF OwnedOnce
  <1> QED BY <1>1, Invariance, PTL

\* However the constructions are nested, the NFA accepts exactly the words of the
\* regular expression it was built for, of any length up to the bound of words.
THEOREM AcceptsItsWordsHolds == Spec => []AcceptsItsWords
  <1>1. Inv => AcceptsItsWords
    <2> SUFFICES ASSUME Inv, NEW h \in held, NEW w \in WordsUpTo(h.nfa.alphabet, WordBound)
                 PROVE  AcceptsWord(h.nfa, w) <=> w \in h.words
      BY DEF AcceptsItsWords
    <2>1. Good(h.nfa) /\ h.nfa.alphabet \subseteq Nat /\ Means(h.nfa, h.words)
      BY CharacterAssumption DEF Inv, Sound, Good, IsNFA
    <2>2. PICK k \in 0 .. WordBound : w \in [1 .. k -> h.nfa.alphabet]
      BY DEF WordsUpTo
    <2>3. k \in Nat /\ w \in [1 .. k -> Nat]
      BY <2>1, <2>2, WordBoundAssumption
    <2>4. w \in Seq(Nat) /\ Len(w) = k /\ k <= WordBound
      BY <2>2, <2>3, WordBoundAssumption
    <2>5. AcceptsWord(h.nfa, w) <=> Accepted(h.nfa, w, 0, k)
      BY <2>1, <2>3, <2>4, WordsAreRead
    <2>6. 0 \in Places(w) /\ k \in Places(w) /\ 0 <= k /\ k - 0 <= WordBound
      BY <2>3, <2>4 DEF Places
    <2>7. Accepted(h.nfa, w, 0, k) <=> Piece(w, 0, k) \in h.words
      BY <2>1, <2>4, <2>6 DEF Means
    <2>8. Piece(w, 0, k) = w
      BY <2>4, WholePiece
    <2> QED BY <2>5, <2>7, <2>8
  <1> QED BY <1>1, Invariance, PTL

-----------------------------------------------------------------------------
(***************************************************************************)
(* index_states().  The recursive search is a function f equal to Search   *)
(* of itself; indexings are total on the NFA's states, -1 for no index.    *)
(***************************************************************************)

Indexings(n) == [n.mem_region -> Int]

Marked(n, x) == {t \in n.mem_region : x[t] # -1}

Left(n, x) == Cardinality({t \in n.mem_region : x[t] = -1})

Mark(n, x, t) == [x EXCEPT ![t] = Cardinality(Marked(n, x))]

Visit(n, f, t, x) == IF t = NULL \/ x[t] # -1 THEN x ELSE f[t][Mark(n, x, t)]

Search(n, f) ==
  [s \in n.mem_region |->
     [x \in Indexings(n) |-> Visit(n, f, n.states[s].out2, Visit(n, f, n.states[s].out1, x))]]

\* Indices once given stay.
Extends(n, x, y) == y \in Indexings(n) /\ \A t \in Marked(n, x) : y[t] = x[t]

Walkers(n) ==
  {f \in [n.mem_region -> [Indexings(n) -> Indexings(n)]] :
     \A s \in n.mem_region, x \in Indexings(n) : Extends(n, x, f[s][x])}

\* Two searches find the same where fewer than k states are left.
Agree(n, f, g, k) ==
  \A s \in n.mem_region, x \in Indexings(n) : Left(n, x) < k => f[s][x] = g[s][x]

LEMMA OutFacts ==
  ASSUME NEW n, Good(n), NEW s \in n.mem_region
  PROVE  /\ n.states[s].out1 \in n.mem_region \cup {NULL}
         /\ n.states[s].out2 \in n.mem_region \cup {NULL}
         /\ Outs(n, s) = {n.states[s].out1, n.states[s].out2} \ {NULL}
  <1>1. DOMAIN n.states = n.mem_region /\ n.states[s] \in NFAState(n)
    BY GoodFacts
  <1> QED BY <1>1 DEF NFAState, Outs

LEMMA LeftFacts ==
  ASSUME NEW n, Good(n), NEW x \in Indexings(n)
  PROVE  /\ Left(n, x) \in 0 .. Cardinality(n.mem_region)
         /\ IsFiniteSet(Marked(n, x)) /\ Cardinality(Marked(n, x)) \in Nat
         /\ Cardinality(n.mem_region) \in Nat
         /\ \A y : Extends(n, x, y) => Left(n, y) <= Left(n, x)
  <1> DEFINE U(z) == {t \in n.mem_region : z[t] = -1}
  <1>1. IsFiniteSet(n.mem_region)
    BY GoodFacts
  <1>2. IsFiniteSet(Marked(n, x)) /\ IsFiniteSet(U(x))
    <2>1. Marked(n, x) \subseteq n.mem_region /\ U(x) \subseteq n.mem_region
      BY DEF Marked
    <2> QED BY <1>1, <2>1, FS_Subset
  <1>3. Cardinality(U(x)) <= Cardinality(n.mem_region)
    <2>1. U(x) \subseteq n.mem_region
      OBVIOUS
    <2> QED BY <1>1, <2>1, FS_Subset
  <1>4. ASSUME NEW y, Extends(n, x, y) PROVE Cardinality(U(y)) <= Cardinality(U(x))
    <2>1. U(y) \subseteq U(x)
      BY <1>4 DEF Extends, Marked, Indexings
    <2> QED BY <1>2, <2>1, FS_Subset
  <1>5. /\ Cardinality(U(x)) \in Nat /\ Cardinality(Marked(n, x)) \in Nat
        /\ Cardinality(n.mem_region) \in Nat
    BY <1>1, <1>2, FS_CardinalityType
  <1>6. \A z : Left(n, z) = Cardinality(U(z))
    BY DEF Left
  <1> HIDE DEF U
  <1> QED BY <1>2, <1>3, <1>4, <1>5, <1>6

LEMMA MarkFacts ==
  ASSUME NEW n, Good(n), NEW x \in Indexings(n), NEW t \in n.mem_region, x[t] = -1
  PROVE  /\ Extends(n, x, Mark(n, x, t))
         /\ Mark(n, x, t)[t] = Cardinality(Marked(n, x))
         /\ Marked(n, Mark(n, x, t)) = Marked(n, x) \cup {t}
         /\ Left(n, Mark(n, x, t)) + 1 = Left(n, x)
  <1> DEFINE c == Cardinality(Marked(n, x))
             y == Mark(n, x, t)
             U(z) == {s \in n.mem_region : z[s] = -1}
  <1>1. c \in Nat
    BY LeftFacts
  <1> HIDE DEF c
  <1>2. /\ y \in Indexings(n) /\ y[t] = c
        /\ \A s \in n.mem_region : s # t => y[s] = x[s]
    BY <1>1 DEF Mark, Indexings, c
  <1> HIDE DEF y
  <1>3. Extends(n, x, y) /\ Marked(n, y) = Marked(n, x) \cup {t}
    BY <1>1, <1>2 DEF Extends, Marked
  <1>4. U(x) = U(y) \cup {t} /\ t \notin U(y)
    BY <1>1, <1>2
  <1>5. IsFiniteSet(U(y)) /\ Cardinality(U(y)) \in Nat
    <2>1. IsFiniteSet(n.mem_region) /\ U(y) \subseteq n.mem_region
      BY GoodFacts
    <2>2. IsFiniteSet(U(y))
      BY <2>1, FS_Subset
    <2> QED BY <2>2, FS_CardinalityType
  <1>6. Cardinality(U(y)) + 1 = Cardinality(U(x))
    <2> HIDE DEF U
    <2> QED BY <1>4, <1>5, FS_AddElement
  <1> QED BY <1>2, <1>3, <1>6 DEF Left, y, c

LEMMA VisitExtends ==
  ASSUME NEW n, Good(n), NEW f \in Walkers(n), NEW t \in n.mem_region \cup {NULL},
         NEW x \in Indexings(n)
  PROVE  Extends(n, x, Visit(n, f, t, x))
  <1>1. CASE t = NULL \/ x[t] # -1
    BY <1>1 DEF Visit, Extends
  <1>2. CASE ~ (t = NULL \/ x[t] # -1)
    <2> DEFINE y == Mark(n, x, t)
    <2>1. t \in n.mem_region /\ x[t] = -1
      BY <1>2
    <2>2. Extends(n, x, y) /\ Marked(n, y) = Marked(n, x) \cup {t}
      BY <2>1, MarkFacts
    <2>3. Visit(n, f, t, x) = f[t][y]
      BY <1>2 DEF Visit
    <2> HIDE DEF y
    <2>4. Extends(n, y, f[t][y])
      BY <2>1, <2>2 DEF Walkers, Extends
    <2> QED BY <2>2, <2>3, <2>4 DEF Extends
  <1> QED BY <1>1, <1>2

LEMMA ExtendsTwice ==
  ASSUME NEW n, NEW x, NEW y, NEW z, Extends(n, x, y), Extends(n, y, z)
  PROVE  Extends(n, x, z) /\ Marked(n, x) \subseteq Marked(n, y)
  BY DEF Extends, Marked

LEMMA SearchWalks ==
  ASSUME NEW n, Good(n), NEW f \in Walkers(n)
  PROVE  Search(n, f) \in Walkers(n)
  <1> DEFINE first(s, x) == Visit(n, f, n.states[s].out1, x)
             both(s, x) == Visit(n, f, n.states[s].out2, first(s, x))
  <1>1. ASSUME NEW s \in n.mem_region, NEW x \in Indexings(n)
        PROVE  Extends(n, x, both(s, x))
    <2>1. Extends(n, x, first(s, x))
      BY OutFacts, VisitExtends
    <2>2. first(s, x) \in Indexings(n)
      BY <2>1 DEF Extends
    <2> HIDE DEF first
    <2>3. Extends(n, first(s, x), both(s, x))
      BY <2>2, OutFacts, VisitExtends
    <2> QED BY <2>1, <2>3, ExtendsTwice
  <1>2. Search(n, f) = [s \in n.mem_region |-> [x \in Indexings(n) |-> both(s, x)]]
    BY DEF Search
  <1> HIDE DEF both
  <1>3. \A s \in n.mem_region, x \in Indexings(n) : both(s, x) \in Indexings(n)
    BY <1>1 DEF Extends
  <1> QED BY <1>1, <1>2, <1>3 DEF Walkers

\* A search uses the search it calls only with fewer states left.
LEMMA SearchAgrees ==
  ASSUME NEW n, Good(n), NEW f, NEW g \in Walkers(n), NEW k \in Nat, Agree(n, f, g, k)
  PROVE  Agree(n, Search(n, f), Search(n, g), k + 1)
  <1>1. ASSUME NEW x \in Indexings(n), Left(n, x) < k + 1, NEW t \in n.mem_region \cup {NULL}
        PROVE  Visit(n, f, t, x) = Visit(n, g, t, x)
    <2>1. CASE t = NULL \/ x[t] # -1
      BY <2>1 DEF Visit
    <2>2. CASE ~ (t = NULL \/ x[t] # -1)
      <3> DEFINE y == Mark(n, x, t)
      <3>1. t \in n.mem_region /\ x[t] = -1
        BY <2>2
      <3>2. Extends(n, x, y) /\ Left(n, y) + 1 = Left(n, x)
        BY <3>1, MarkFacts
      <3>3. Visit(n, f, t, x) = f[t][y] /\ Visit(n, g, t, x) = g[t][y]
        BY <2>2 DEF Visit
      <3> HIDE DEF y
      <3>4. y \in Indexings(n)
        BY <3>2 DEF Extends
      <3>5. Left(n, y) \in Nat
        BY <3>4, LeftFacts
      <3>6. Left(n, y) < k
        BY <1>1, <3>2, <3>5
      <3> QED BY <3>1, <3>3, <3>4, <3>6 DEF Agree
    <2> QED BY <2>1, <2>2
  <1>2. ASSUME NEW s \in n.mem_region, NEW x \in Indexings(n), Left(n, x) < k + 1
        PROVE  Search(n, f)[s][x] = Search(n, g)[s][x]
    <2> DEFINE out1 == n.states[s].out1
               out2 == n.states[s].out2
               y == Visit(n, g, out1, x)
    <2>1. out1 \in n.mem_region \cup {NULL} /\ out2 \in n.mem_region \cup {NULL}
      BY OutFacts
    <2> HIDE DEF out1, out2
    <2>2. Visit(n, f, out1, x) = y
      BY <1>1, <1>2, <2>1
    <2>3. Extends(n, x, y)
      BY <2>1, VisitExtends
    <2>4. y \in Indexings(n) /\ Left(n, y) <= Left(n, x)
      BY <2>3, LeftFacts DEF Extends
    <2>5. Left(n, y) < k + 1
      BY <1>2, <2>4, LeftFacts
    <2>6. Visit(n, f, out2, y) = Visit(n, g, out2, y)
      <3> HIDE DEF y
      <3> QED BY <1>1, <2>1, <2>4, <2>5
    <2> QED BY <2>2, <2>6 DEF Search, out1, out2
  <1> QED BY <1>2 DEF Agree

LEMMA AgreeEverywhere ==
  ASSUME NEW n, Good(n), NEW f, NEW g \in Walkers(n), Agree(n, f, g, Cardinality(n.mem_region) + 1)
  PROVE  \A s \in n.mem_region, x \in Indexings(n) : f[s][x] = g[s][x]
  <1> SUFFICES ASSUME NEW s \in n.mem_region, NEW x \in Indexings(n)
               PROVE  f[s][x] = g[s][x]
    OBVIOUS
  <1>1. Left(n, x) < Cardinality(n.mem_region) + 1
    BY LeftFacts
  <1> QED BY <1>1 DEF Agree

\* The recursion of index_helper() has a solution.
LEMMA SearchExists ==
  ASSUME NEW n, Good(n)
  PROVE  \E f \in Walkers(n) : f = Search(n, f)
  <1> DEFINE W == Walkers(n)
             nothing == [s \in n.mem_region |-> [x \in Indexings(n) |-> x]]
             step == [k \in Nat |-> [g \in [0 .. k - 1 -> W] |->
                        IF k = 0 THEN nothing ELSE Search(n, g[k - 1])]]
             c == Cardinality(n.mem_region)
  <1>1. nothing \in W
    BY DEF Walkers, Extends
  <1>2. ComputesFrom(W, step)
    <2>1. ASSUME NEW k \in Nat, NEW g \in [0 .. k - 1 -> W], k # 0
          PROVE  Search(n, g[k - 1]) \in W
      <3>1. g[k - 1] \in W
        BY <2>1
      <3> QED BY <3>1, SearchWalks
    <2> HIDE DEF W, nothing
    <2> QED BY <1>1, <2>1 DEF ComputesFrom
  <1>3. PICK F \in [Nat -> W] : \A k \in Nat : F[k] = step[k][Upto(F, k)]
    <2> HIDE DEF W, step
    <2> QED BY <1>2, RecursionExists
  <1>4. ASSUME NEW k \in Nat PROVE F[k + 1] = Search(n, F[k])
    <2>1. Upto(F, k + 1) \in [0 .. (k + 1) - 1 -> W] /\ Upto(F, k + 1)[(k + 1) - 1] = F[k]
      <3> HIDE DEF W
      <3> QED BY DEF Upto
    <2>2. k + 1 \in Nat /\ k + 1 # 0
      OBVIOUS
    <2>3. F[k + 1] = step[k + 1][Upto(F, k + 1)]
      BY <1>3, <2>2
    <2> HIDE DEF W, nothing
    <2> QED BY <2>1, <2>2, <2>3
  <1> HIDE DEF W, nothing, step
  <1>5. Nat \subseteq {k \in Nat : Agree(n, F[k], F[k + 1], k)}
    <2> DEFINE S == {k \in Nat : Agree(n, F[k], F[k + 1], k)}
    <2>1. 0 \in S
      BY LeftFacts DEF Agree
    <2>2. ASSUME NEW k \in Nat, k \in S PROVE k + 1 \in S
      <3>1. Agree(n, F[k], F[k + 1], k) /\ F[k + 1] \in Walkers(n)
        BY <1>3, <2>2 DEF W
      <3>2. Agree(n, Search(n, F[k]), Search(n, F[k + 1]), k + 1)
        BY <3>1, SearchAgrees
      <3> QED BY <1>4, <3>2
    <2> HIDE DEF S
    <2>3. Nat \subseteq S
      BY <2>1, <2>2, InductiveSet
    <2> QED BY <2>3 DEF S
  <1>6. c + 1 \in Nat
    BY GoodFacts, FS_CardinalityType
  <1>7. Agree(n, F[c + 1], F[(c + 1) + 1], c + 1)
    <2> HIDE DEF c
    <2> QED BY <1>5, <1>6
  <1>8. PICK f \in Walkers(n) : f = F[c + 1]
    BY <1>3, <1>6 DEF W
  <1>9. PICK g \in Walkers(n) : g = Search(n, f)
    BY SearchWalks
  <1>10. F[(c + 1) + 1] = g
    <2> HIDE DEF c
    <2> QED BY <1>4, <1>6, <1>8, <1>9
  <1>11. \A s \in n.mem_region, x \in Indexings(n) : f[s][x] = g[s][x]
    BY <1>7, <1>8, <1>10, AgreeEverywhere
  <1>12. f = g
    BY <1>11 DEF Walkers
  <1> QED BY <1>9, <1>12

\* Every solution keeps the indices that are given.
LEMMA SearchIsWalker ==
  ASSUME NEW n, Good(n), NEW f, f = Search(n, f)
  PROVE  f \in Walkers(n)
  <1>1. PICK g \in Walkers(n) : g = Search(n, g)
    BY SearchExists
  <1> DEFINE S == {k \in Nat : Agree(n, f, g, k)}
             c == Cardinality(n.mem_region)
  <1>2. 0 \in S
    BY LeftFacts DEF Agree
  <1>3. ASSUME NEW k \in Nat, k \in S PROVE k + 1 \in S
    <2>1. Agree(n, Search(n, f), Search(n, g), k + 1)
      BY <1>3, SearchAgrees
    <2> QED BY <1>1, <2>1
  <1>4. c + 1 \in S
    <2>1. c + 1 \in Nat
      BY GoodFacts, FS_CardinalityType
    <2> HIDE DEF S, c
    <2> QED BY <1>2, <1>3, <2>1, InductiveSet
  <1>5. \A s \in n.mem_region, x \in Indexings(n) : f[s][x] = g[s][x]
    BY <1>4, AgreeEverywhere
  <1>6. DOMAIN f = n.mem_region /\ \A s \in n.mem_region : f[s] = [x \in Indexings(n) |-> f[s][x]]
    BY DEF Search
  <1>7. f = [s \in n.mem_region |-> [x \in Indexings(n) |-> f[s][x]]]
    BY DEF Search
  <1>8. f = [s \in n.mem_region |-> [x \in Indexings(n) |-> g[s][x]]]
    BY <1>5, <1>7
  <1>9. g = [s \in n.mem_region |-> [x \in Indexings(n) |-> g[s][x]]]
    BY DEF Walkers
  <1> QED BY <1>8, <1>9

-----------------------------------------------------------------------------
\* Indices are given in turn from 0.
Numbered(n, x) ==
  x \in Indexings(n) /\ {x[t] : t \in Marked(n, x)} = 0 .. Cardinality(Marked(n, x)) - 1

\* From x to y every state that got an index was left with both ways out followed.
Explores(n, x, y) ==
  /\ Numbered(n, y) /\ Extends(n, x, y)
  /\ \A t \in Marked(n, y) \ Marked(n, x) : Outs(n, t) \subseteq Marked(n, y)

LEMMA MarkNumbered ==
  ASSUME NEW n, Good(n), NEW x, Numbered(n, x), NEW t \in n.mem_region, x[t] = -1
  PROVE  Numbered(n, Mark(n, x, t))
  <1> DEFINE y == Mark(n, x, t)
             M == Marked(n, x)
             c == Cardinality(M)
  <1>1. x \in Indexings(n) /\ {x[s] : s \in M} = 0 .. c - 1
    BY DEF Numbered
  <1>2. IsFiniteSet(M) /\ c \in Nat
    BY <1>1, LeftFacts
  <1>3. Extends(n, x, y) /\ y[t] = c /\ Marked(n, y) = M \cup {t}
    BY <1>1, MarkFacts
  <1>4. t \notin M
    BY DEF Marked
  <1> HIDE DEF M, y
  <1>5. Cardinality(Marked(n, y)) = c + 1
    BY <1>2, <1>3, <1>4, FS_AddElement
  <1> HIDE DEF c
  <1>6. {y[s] : s \in Marked(n, y)} = {x[s] : s \in M} \cup {c}
    BY <1>3 DEF Extends, M
  <1>7. (0 .. c - 1) \cup {c} = 0 .. (c + 1) - 1
    BY <1>2
  <1>8. {y[s] : s \in Marked(n, y)} = 0 .. Cardinality(Marked(n, y)) - 1
    BY <1>1, <1>5, <1>6, <1>7
  <1> QED BY <1>3, <1>8 DEF Numbered, Extends, y

LEMMA ExploresTwice ==
  ASSUME NEW n, NEW x, NEW y, NEW z, Explores(n, x, y), Explores(n, y, z)
  PROVE  Explores(n, x, z) /\ Marked(n, y) \subseteq Marked(n, z)
  <1>1. Marked(n, y) \subseteq Marked(n, z)
    BY DEF Explores, Extends, Marked
  <1>2. Extends(n, x, z)
    BY ExtendsTwice DEF Explores
  <1> QED BY <1>1, <1>2 DEF Explores

\* What the search explores when it is entered with fewer than k states left.
Searches(n, f, k) ==
  \A s \in n.mem_region, x \in Indexings(n) :
    Numbered(n, x) /\ x[s] # -1 /\ Left(n, x) < k =>
      Explores(n, x, f[s][x]) /\ Outs(n, s) \subseteq Marked(n, f[s][x])

LEMMA VisitExplores ==
  ASSUME NEW n, Good(n), NEW f \in Walkers(n), NEW k \in Nat, Searches(n, f, k),
         NEW x, Numbered(n, x), Left(n, x) < k + 1, NEW t \in n.mem_region \cup {NULL}
  PROVE  Explores(n, x, Visit(n, f, t, x)) /\ {t} \ {NULL} \subseteq Marked(n, Visit(n, f, t, x))
  <1>1. x \in Indexings(n)
    BY DEF Numbered
  <1>2. CASE t = NULL \/ x[t] # -1
    BY <1>1, <1>2 DEF Visit, Explores, Extends, Marked
  <1>3. CASE ~ (t = NULL \/ x[t] # -1)
    <2> DEFINE y == Mark(n, x, t)
               z == f[t][y]
    <2>1. t \in n.mem_region /\ x[t] = -1
      BY <1>3
    <2>2. /\ Extends(n, x, y) /\ Left(n, y) + 1 = Left(n, x)
          /\ Marked(n, y) = Marked(n, x) \cup {t}
      BY <1>1, <2>1, MarkFacts
    <2>3. Visit(n, f, t, x) = z
      BY <1>3 DEF Visit
    <2>4. Numbered(n, y)
      BY <2>1, MarkNumbered
    <2> HIDE DEF y
    <2>5. y \in Indexings(n) /\ y[t] # -1
      BY <2>2, <2>4 DEF Numbered, Marked
    <2>6. Left(n, y) < k
      <3>1. Left(n, y) \in Nat
        BY <2>5, LeftFacts
      <3> QED BY <2>2, <3>1
    <2>7. Explores(n, y, z) /\ Outs(n, t) \subseteq Marked(n, z)
      BY <2>1, <2>4, <2>5, <2>6 DEF Searches
    <2> HIDE DEF z
    <2>8. Marked(n, y) \subseteq Marked(n, z)
      BY <2>7 DEF Explores, Extends, Marked
    <2>9. Extends(n, x, z)
      BY <2>2, <2>7, ExtendsTwice DEF Explores
    <2> QED BY <2>2, <2>3, <2>7, <2>8, <2>9 DEF Explores
  <1> QED BY <1>2, <1>3

LEMMA SearchExplores ==
  ASSUME NEW n, Good(n), NEW f, f = Search(n, f)
  PROVE  \A k \in Nat : Searches(n, f, k)
  <1> DEFINE S == {k \in Nat : Searches(n, f, k)}
  <1>1. f \in Walkers(n)
    BY SearchIsWalker
  <1>2. 0 \in S
    BY LeftFacts DEF Searches
  <1>3. ASSUME NEW k \in Nat, k \in S PROVE k + 1 \in S
    <2> SUFFICES ASSUME NEW s \in n.mem_region, NEW x \in Indexings(n),
                        Numbered(n, x), x[s] # -1, Left(n, x) < k + 1
                 PROVE  Explores(n, x, f[s][x]) /\ Outs(n, s) \subseteq Marked(n, f[s][x])
      BY DEF Searches
    <2> DEFINE out1 == n.states[s].out1
               out2 == n.states[s].out2
               y == Visit(n, f, out1, x)
               z == Visit(n, f, out2, y)
    <2>1. f[s][x] = z
      BY DEF Search
    <2>2. /\ out1 \in n.mem_region \cup {NULL} /\ out2 \in n.mem_region \cup {NULL}
          /\ Outs(n, s) = {out1, out2} \ {NULL}
      BY OutFacts
    <2> HIDE DEF out1, out2
    <2>3. Explores(n, x, y) /\ {out1} \ {NULL} \subseteq Marked(n, y)
      BY <1>1, <1>3, <2>2, VisitExplores
    <2>4. Numbered(n, y) /\ y \in Indexings(n) /\ Left(n, y) <= Left(n, x)
      BY <2>3, LeftFacts DEF Explores, Numbered
    <2> HIDE DEF y
    <2>5. Left(n, y) < k + 1
      BY <2>4, LeftFacts
    <2>6. Explores(n, y, z) /\ {out2} \ {NULL} \subseteq Marked(n, z)
      BY <1>1, <1>3, <2>2, <2>4, <2>5, VisitExplores
    <2> HIDE DEF z
    <2>7. Explores(n, x, z) /\ Marked(n, y) \subseteq Marked(n, z)
      BY <2>3, <2>6, ExploresTwice
    <2> QED BY <2>1, <2>2, <2>3, <2>6, <2>7
  <1> HIDE DEF S
  <1>4. Nat \subseteq S
    BY <1>2, <1>3, InductiveSet
  <1> QED BY <1>4 DEF S

\* The search from the start gives every state of an NFA of the right shape an index.
LEMMA IndicesAreAll ==
  ASSUME NEW n, Good(n)
  PROVE  {IndexStates(n)[s] : s \in n.mem_region} = 0 .. n.size - 1
  <1> DEFINE Finds(f) == f = [s \in n.mem_region |-> [index \in [n.mem_region -> Int] |->
                Visit(n, f, n.states[s].out2, Visit(n, f, n.states[s].out1, index))]]
             found == CHOOSE f : Finds(f)
             none == [s \in n.mem_region |-> -1]
             y == Visit(n, found, n.start, none)
  <1>1. IndexStates(n) = y
    BY DEF IndexStates, Visit, Mark, Marked
  <1>2. found = Search(n, found)
    <2>1. ASSUME NEW f PROVE Finds(f) <=> f = Search(n, f)
      BY DEF Search, Indexings
    <2>2. \E f : Finds(f)
      BY <2>1, SearchExists
    <2>3. Finds(found)
      <3> HIDE DEF Finds
      <3> QED BY <2>2
    <2> HIDE DEF found, Finds
    <2> QED BY <2>1, <2>3
  <1> HIDE DEF found
  <1>3. found \in Walkers(n)
    BY <1>2, SearchIsWalker
  <1>4. none \in Indexings(n) /\ Marked(n, none) = {}
    BY DEF Indexings, Marked
  <1> HIDE DEF none
  <1>5. Numbered(n, none)
    <2>1. Cardinality({}) = 0 /\ 0 .. 0 - 1 = {}
      BY FS_EmptySet
    <2> QED BY <1>4, <2>1 DEF Numbered
  <1>6. PICK k \in Nat : k = Left(n, none)
    BY <1>4, LeftFacts
  <1>7. Searches(n, found, k) /\ Left(n, none) < k + 1
    BY <1>2, <1>6, SearchExplores
  <1>8. /\ n.start \in n.mem_region /\ n.start # NULL /\ Spans(n)
        /\ DOMAIN n.states = n.mem_region /\ n.size = Cardinality(n.mem_region)
    BY GoodFacts
  <1>9. Explores(n, none, y) /\ {n.start} \ {NULL} \subseteq Marked(n, y)
    BY <1>3, <1>5, <1>7, <1>8, VisitExplores
  <1> HIDE DEF y
  <1>10. Traps(n, Marked(n, y)) /\ n.start \in Marked(n, y)
    BY <1>4, <1>8, <1>9 DEF Traps, Explores
  <1>11. Marked(n, y) \in SUBSET DOMAIN n.states
    BY <1>8 DEF Marked
  <1>12. Marked(n, y) = n.mem_region
    BY <1>8, <1>10, <1>11 DEF Spans
  <1> QED BY <1>1, <1>8, <1>9, <1>12 DEF Explores, Numbered

\* index_states() gives the states of every NFA the constructions make different
\* indices without a gap: index_helper() comes to every state before it ends.
THEOREM IndicesDistinctHolds == Spec => []IndicesDistinct
  <1>1. Inv => IndicesDistinct
    BY IndicesAreAll DEF Inv, Sound, IndicesDistinct, NFAs
  <1> QED BY <1>1, Invariance, PTL

-----------------------------------------------------------------------------
(***************************************************************************)
(* gen_nfa_graphviz().  Its recursive walk is a function f equal to Draw   *)
(* of itself, as that of index_states() is.                                *)
(***************************************************************************)

Indexed(n, index) == \A s \in n.mem_region : index[s] \in Int

Enter(x, s) == [x EXCEPT !.seen = @ \cup {s}]

WithLine(index, x, s, ch, t) == [x EXCEPT !.lines = Append(@, <<index[s], ch, index[t]>>)]

\* One way out of s.
Take(index, f, s, ch, t, x) ==
  IF t = NULL THEN x
  ELSE IF t \in x.seen THEN WithLine(index, x, s, ch, t) ELSE f[t][WithLine(index, x, s, ch, t)]

Draw(n, index, f) ==
  [s \in n.mem_region |-> [x \in Drawings(n) |->
     Take(index, f, s, EPSILON, n.states[s].out2,
       Take(index, f, s, n.states[s].ch, n.states[s].out1, Enter(x, s)))]]

Unseen(n, x) == Cardinality(n.mem_region \ x.seen)

Drawers(n) ==
  {f \in [n.mem_region -> [Drawings(n) -> Drawings(n)]] :
     \A s \in n.mem_region, x \in Drawings(n) : x.seen \cup {s} \subseteq f[s][x].seen}

Alike(n, f, g, k) ==
  \A s \in n.mem_region, x \in Drawings(n) : Unseen(n, Enter(x, s)) < k => f[s][x] = g[s][x]

LEMMA DrawingParts ==
  ASSUME NEW n, NEW x \in Drawings(n)
  PROVE  /\ x = [seen |-> x.seen, lines |-> x.lines]
         /\ x.seen \subseteq n.mem_region /\ x.lines \in Seq(Int \X Int \X Int)
  BY DEF Drawings

LEMMA EnterFacts ==
  ASSUME NEW n, NEW x \in Drawings(n), NEW s \in n.mem_region
  PROVE  /\ Enter(x, s) \in Drawings(n) /\ Enter(x, s).seen = x.seen \cup {s}
         /\ Enter(x, s).lines = x.lines
  <1>1. PICK seen, lines : seen = x.seen /\ lines = x.lines
    OBVIOUS
  <1>2. x = [seen |-> seen, lines |-> lines]
    BY <1>1, DrawingParts
  <1>3. Enter(x, s) = [seen |-> seen \cup {s}, lines |-> lines]
    BY <1>2 DEF Enter
  <1> QED BY <1>1, <1>3, DrawingParts DEF Drawings

LEMMA WithLineFacts ==
  ASSUME NEW n, NEW index, Indexed(n, index), NEW x \in Drawings(n), NEW s \in n.mem_region,
         NEW ch \in Int, NEW t \in n.mem_region
  PROVE  /\ WithLine(index, x, s, ch, t) \in Drawings(n)
         /\ WithLine(index, x, s, ch, t).seen = x.seen
         /\ WithLine(index, x, s, ch, t).lines = Append(x.lines, <<index[s], ch, index[t]>>)
  <1>1. PICK seen, lines, line :
          seen = x.seen /\ lines = x.lines /\ line = <<index[s], ch, index[t]>>
    OBVIOUS
  <1>2. x = [seen |-> seen, lines |-> lines] /\ lines \in Seq(Int \X Int \X Int)
    BY <1>1, DrawingParts
  <1>3. WithLine(index, x, s, ch, t) = [x EXCEPT !.lines = Append(x.lines, line)]
    BY <1>1 DEF WithLine
  <1>4. [x EXCEPT !.lines = Append(x.lines, line)] = [seen |-> seen, lines |-> Append(lines, line)]
    <2>1. PICK more : more = Append(lines, line)
      OBVIOUS
    <2>2. [x EXCEPT !.lines = more] = [seen |-> seen, lines |-> more]
      BY <1>2
    <2> QED BY <1>1, <2>1, <2>2
  <1>5. Append(lines, line) \in Seq(Int \X Int \X Int)
    <2>1. line \in Int \X Int \X Int
      BY <1>1 DEF Indexed
    <2> QED BY <1>2, <2>1
  <1> QED BY <1>1, <1>3, <1>4, <1>5, DrawingParts DEF Drawings

LEMMA WayFacts ==
  ASSUME NEW n, Good(n), NEW s \in n.mem_region
  PROVE  /\ n.states[s].ch \in Int /\ EPSILON \in Int
         /\ n.states[s].out1 \in n.mem_region \cup {NULL}
         /\ n.states[s].out2 \in n.mem_region \cup {NULL}
  <1>1. n.states[s] \in NFAState(n) /\ n.alphabet \subseteq Nat
    BY GoodFacts
  <1>2. n.states[s].ch \in Int /\ EPSILON \in Int
    BY <1>1 DEF NFAState, EPSILON
  <1> QED BY <1>2, OutFacts

LEMMA UnseenFacts ==
  ASSUME NEW n, Good(n), NEW x \in Drawings(n)
  PROVE  /\ Unseen(n, x) \in 0 .. Cardinality(n.mem_region)
         /\ Cardinality(n.mem_region) \in Nat /\ IsFiniteSet(x.seen)
         /\ \A y \in Drawings(n) : x.seen \subseteq y.seen => Unseen(n, y) <= Unseen(n, x)
         /\ \A y \in Drawings(n), t \in n.mem_region :
              t \notin x.seen /\ y.seen = x.seen \cup {t} => Unseen(n, y) + 1 = Unseen(n, x)
  <1> DEFINE U(y) == n.mem_region \ y.seen
  <1>1. IsFiniteSet(n.mem_region)
    BY GoodFacts
  <1>2. ASSUME NEW y PROVE /\ IsFiniteSet(U(y)) /\ Cardinality(U(y)) \in Nat
                           /\ Cardinality(U(y)) <= Cardinality(n.mem_region)
                           /\ Unseen(n, y) = Cardinality(U(y))
    <2>1. U(y) \subseteq n.mem_region /\ Unseen(n, y) = Cardinality(U(y))
      BY DEF Unseen
    <2> HIDE DEF U
    <2>2. IsFiniteSet(U(y))
      BY <1>1, <2>1, FS_Subset
    <2> QED BY <1>1, <2>1, <2>2, FS_Subset, FS_CardinalityType
  <1>3. IsFiniteSet(x.seen) /\ Cardinality(n.mem_region) \in Nat
    <2>1. x.seen \subseteq n.mem_region
      BY DEF Drawings
    <2>2. IsFiniteSet(x.seen)
      BY <1>1, <2>1, FS_Subset
    <2> QED BY <1>1, <2>2, FS_CardinalityType
  <1>4. ASSUME NEW y \in Drawings(n), x.seen \subseteq y.seen PROVE Unseen(n, y) <= Unseen(n, x)
    <2>1. U(y) \subseteq U(x)
      BY <1>4
    <2> HIDE DEF U
    <2>2. Cardinality(U(y)) <= Cardinality(U(x))
      BY <1>2, <2>1, FS_Subset
    <2> QED BY <1>2, <2>2
  <1>5. ASSUME NEW y \in Drawings(n), NEW t \in n.mem_region, t \notin x.seen,
               y.seen = x.seen \cup {t}
        PROVE  Unseen(n, y) + 1 = Unseen(n, x)
    <2>1. U(x) = U(y) \cup {t} /\ t \notin U(y)
      BY <1>5
    <2> HIDE DEF U
    <2>2. Cardinality(U(y) \cup {t}) = Cardinality(U(y)) + 1
      BY <1>2, <2>1, FS_AddElement
    <2> QED BY <1>2, <2>1, <2>2
  <1> HIDE DEF U
  <1> QED BY <1>2, <1>3, <1>4, <1>5

LEMMA TakeFacts ==
  ASSUME NEW n, Good(n), NEW index, Indexed(n, index), NEW f \in Drawers(n),
         NEW s \in n.mem_region, NEW ch \in Int, NEW t \in n.mem_region \cup {NULL},
         NEW x \in Drawings(n)
  PROVE  /\ Take(index, f, s, ch, t, x) \in Drawings(n)
         /\ x.seen \subseteq Take(index, f, s, ch, t, x).seen
  <1> DEFINE y == WithLine(index, x, s, ch, t)
  <1>1. CASE t = NULL
    BY <1>1 DEF Take
  <1>2. CASE t # NULL
    <2>1. t \in n.mem_region
      BY <1>2
    <2>2. y \in Drawings(n) /\ y.seen = x.seen
      BY <2>1, WithLineFacts
    <2>3. Take(index, f, s, ch, t, x) = IF t \in x.seen THEN y ELSE f[t][y]
      BY <1>2 DEF Take
    <2> HIDE DEF y
    <2>4. f[t][y] \in Drawings(n) /\ y.seen \subseteq f[t][y].seen
      BY <2>1, <2>2 DEF Drawers
    <2> QED BY <2>2, <2>3, <2>4
  <1> QED BY <1>1, <1>2

LEMMA DrawDraws ==
  ASSUME NEW n, Good(n), NEW index, Indexed(n, index), NEW f \in Drawers(n)
  PROVE  Draw(n, index, f) \in Drawers(n)
  <1> DEFINE first(s, x) == Take(index, f, s, n.states[s].ch, n.states[s].out1, Enter(x, s))
             both(s, x) == Take(index, f, s, EPSILON, n.states[s].out2, first(s, x))
  <1>1. ASSUME NEW s \in n.mem_region, NEW x \in Drawings(n)
        PROVE  both(s, x) \in Drawings(n) /\ x.seen \cup {s} \subseteq both(s, x).seen
    <2>1. Enter(x, s) \in Drawings(n) /\ Enter(x, s).seen = x.seen \cup {s}
      BY EnterFacts
    <2>2. first(s, x) \in Drawings(n) /\ Enter(x, s).seen \subseteq first(s, x).seen
      <3>1. n.states[s].ch \in Int /\ n.states[s].out1 \in n.mem_region \cup {NULL}
        BY WayFacts
      <3> QED BY <2>1, <3>1, TakeFacts
    <2> HIDE DEF first
    <2>3. both(s, x) \in Drawings(n) /\ first(s, x).seen \subseteq both(s, x).seen
      <3>1. EPSILON \in Int /\ n.states[s].out2 \in n.mem_region \cup {NULL}
        BY WayFacts
      <3> QED BY <2>2, <3>1, TakeFacts
    <2> QED BY <2>1, <2>2, <2>3
  <1>2. Draw(n, index, f) = [s \in n.mem_region |-> [x \in Drawings(n) |-> both(s, x)]]
    BY DEF Draw
  <1> HIDE DEF both
  <1> QED BY <1>1, <1>2 DEF Drawers

\* A walk uses the walk it calls only with fewer states unseen.
LEMMA DrawAlike ==
  ASSUME NEW n, Good(n), NEW index, Indexed(n, index), NEW f, NEW g \in Drawers(n),
         NEW k \in Nat, Alike(n, f, g, k)
  PROVE  Alike(n, Draw(n, index, f), Draw(n, index, g), k + 1)
  <1>1. ASSUME NEW s \in n.mem_region, NEW ch \in Int, NEW t \in n.mem_region \cup {NULL},
               NEW x \in Drawings(n), Unseen(n, x) < k + 1
        PROVE  Take(index, f, s, ch, t, x) = Take(index, g, s, ch, t, x)
    <2> DEFINE y == WithLine(index, x, s, ch, t)
    <2>1. CASE t = NULL \/ t \in x.seen
      BY <2>1 DEF Take
    <2>2. CASE ~ (t = NULL \/ t \in x.seen)
      <3>1. t \in n.mem_region /\ t \notin x.seen
        BY <2>2
      <3>2. y \in Drawings(n) /\ y.seen = x.seen
        BY <3>1, WithLineFacts
      <3>3. Take(index, f, s, ch, t, x) = f[t][y] /\ Take(index, g, s, ch, t, x) = g[t][y]
        BY <2>2 DEF Take
      <3> HIDE DEF y
      <3>4. Enter(y, t) \in Drawings(n) /\ Enter(y, t).seen = x.seen \cup {t}
        BY <3>1, <3>2, EnterFacts
      <3>5. Unseen(n, Enter(y, t)) + 1 = Unseen(n, x)
        BY <3>1, <3>4, UnseenFacts
      <3>6. Unseen(n, Enter(y, t)) < k
        BY <1>1, <3>4, <3>5, UnseenFacts
      <3> QED BY <3>1, <3>2, <3>3, <3>6 DEF Alike
    <2> QED BY <2>1, <2>2
  <1>2. ASSUME NEW s \in n.mem_region, NEW x \in Drawings(n), Unseen(n, Enter(x, s)) < k + 1
        PROVE  Draw(n, index, f)[s][x] = Draw(n, index, g)[s][x]
    <2> DEFINE ch == n.states[s].ch
               out1 == n.states[s].out1
               out2 == n.states[s].out2
               e == Enter(x, s)
               y == Take(index, g, s, ch, out1, e)
    <2>1. /\ out1 \in n.mem_region \cup {NULL} /\ out2 \in n.mem_region \cup {NULL}
          /\ ch \in Int /\ EPSILON \in Int /\ e \in Drawings(n)
      BY WayFacts, EnterFacts
    <2>2. /\ Draw(n, index, f)[s][x] =
               Take(index, f, s, EPSILON, out2, Take(index, f, s, ch, out1, e))
          /\ Draw(n, index, g)[s][x] = Take(index, g, s, EPSILON, out2, y)
      BY DEF Draw
    <2>3. Unseen(n, e) < k + 1
      BY <1>2
    <2> HIDE DEF ch, out1, out2, e
    <2>4. Take(index, f, s, ch, out1, e) = y
      BY <1>1, <2>1, <2>3
    <2>5. y \in Drawings(n) /\ e.seen \subseteq y.seen
      BY <2>1, TakeFacts
    <2> HIDE DEF y
    <2>6. Unseen(n, y) < k + 1
      <3>1. Unseen(n, y) <= Unseen(n, e) /\ Unseen(n, y) \in Nat /\ Unseen(n, e) \in Nat
        BY <2>1, <2>5, UnseenFacts
      <3> QED BY <2>3, <3>1
    <2>7. Take(index, f, s, EPSILON, out2, y) = Take(index, g, s, EPSILON, out2, y)
      BY <1>1, <2>1, <2>5, <2>6
    <2> QED BY <2>2, <2>4, <2>7
  <1> QED BY <1>2 DEF Alike

LEMMA AlikeEverywhere ==
  ASSUME NEW n, Good(n), NEW f, NEW g, Alike(n, f, g, Cardinality(n.mem_region) + 1)
  PROVE  \A s \in n.mem_region, x \in Drawings(n) : f[s][x] = g[s][x]
  <1> SUFFICES ASSUME NEW s \in n.mem_region, NEW x \in Drawings(n)
               PROVE  f[s][x] = g[s][x]
    OBVIOUS
  <1>1. Enter(x, s) \in Drawings(n)
    BY EnterFacts
  <1>2. Unseen(n, Enter(x, s)) < Cardinality(n.mem_region) + 1
    BY <1>1, UnseenFacts
  <1> QED BY <1>2 DEF Alike

LEMMA DrawExists ==
  ASSUME NEW n, Good(n), NEW index, Indexed(n, index)
  PROVE  \E f \in Drawers(n) : f = Draw(n, index, f)
  <1> DEFINE W == Drawers(n)
             nothing == [s \in n.mem_region |-> [x \in Drawings(n) |-> Enter(x, s)]]
             step == [f \in W |-> Draw(n, index, f)]
             agree == [k \in Nat |-> {p \in W \X W : Alike(n, p[1], p[2], k)}]
             c == Cardinality(n.mem_region) + 1
  <1>1. nothing \in W
    BY EnterFacts DEF Drawers
  <1>2. step \in [W -> W]
    BY DrawDraws
  <1>3. c \in Nat
    BY GoodFacts
  <1>4. ASSUME NEW k \in Nat, NEW f \in W, NEW g \in W
        PROVE  <<f, g>> \in agree[k] <=> Alike(n, f, g, k)
    OBVIOUS
  <1>5. ASSUME NEW f \in W, NEW g \in W PROVE Alike(n, f, g, 0)
    <2>1. \A s \in n.mem_region, x \in Drawings(n) : ~ Unseen(n, Enter(x, s)) < 0
      BY EnterFacts, UnseenFacts
    <2> QED BY <2>1 DEF Alike
  <1>6. ASSUME NEW k \in Nat, NEW f \in W, NEW g \in W, Alike(n, f, g, k)
        PROVE  Alike(n, step[f], step[g], k + 1)
    BY <1>6, DrawAlike
  <1>7. ASSUME NEW f \in W, NEW g \in W, Alike(n, f, g, c) PROVE f = g
    <2>1. \A s \in n.mem_region, x \in Drawings(n) : f[s][x] = g[s][x]
      BY <1>7, AlikeEverywhere
    <2> QED BY <2>1 DEF Drawers
  <1>8. \A f \in W : step[f] = Draw(n, index, f)
    OBVIOUS
  <1> HIDE DEF W, step, agree, c, nothing
  <1>9. \A f, g \in W : <<f, g>> \in agree[0]
    BY <1>4, <1>5
  <1>10. \A k \in Nat : \A f, g \in W :
           <<f, g>> \in agree[k] => <<step[f], step[g]>> \in agree[k + 1]
    <2> SUFFICES ASSUME NEW k \in Nat, NEW f \in W, NEW g \in W, <<f, g>> \in agree[k]
                 PROVE  <<step[f], step[g]>> \in agree[k + 1]
      OBVIOUS
    <2>1. step[f] \in W /\ step[g] \in W /\ k + 1 \in Nat
      BY <1>2
    <2> QED BY <1>4, <1>6, <2>1
  <1>11. \A f, g \in W : <<f, g>> \in agree[c] => f = g
    BY <1>3, <1>4, <1>7
  <1>12. PICK f \in W : f = step[f]
    BY <1>1, <1>2, <1>3, <1>9, <1>10, <1>11, FixpointExists
  <1> QED BY <1>8, <1>12 DEF W

LEMMA DrawIsDrawer ==
  ASSUME NEW n, Good(n), NEW index, Indexed(n, index), NEW f, f = Draw(n, index, f)
  PROVE  f \in Drawers(n)
  <1>1. PICK g \in Drawers(n) : g = Draw(n, index, g)
    BY DrawExists
  <1> DEFINE S == {k \in Nat : Alike(n, f, g, k)}
             c == Cardinality(n.mem_region)
  <1>2. 0 \in S
    <2>1. \A s \in n.mem_region, x \in Drawings(n) : ~ Unseen(n, Enter(x, s)) < 0
      BY EnterFacts, UnseenFacts
    <2> QED BY <2>1 DEF Alike
  <1>3. ASSUME NEW k \in Nat, k \in S PROVE k + 1 \in S
    <2>1. Alike(n, Draw(n, index, f), Draw(n, index, g), k + 1)
      BY <1>3, DrawAlike
    <2> QED BY <1>1, <2>1
  <1>4. c + 1 \in S
    <2>1. c + 1 \in Nat
      BY GoodFacts, FS_CardinalityType
    <2> HIDE DEF S, c
    <2> QED BY <1>2, <1>3, <2>1, InductiveSet
  <1>5. \A s \in n.mem_region, x \in Drawings(n) : f[s][x] = g[s][x]
    BY <1>4, AlikeEverywhere
  <1>6. f = [s \in n.mem_region |-> [x \in Drawings(n) |-> f[s][x]]]
    BY DEF Draw
  <1>7. f = [s \in n.mem_region |-> [x \in Drawings(n) |-> g[s][x]]]
    BY <1>5, <1>6
  <1>8. g = [s \in n.mem_region |-> [x \in Drawings(n) |-> g[s][x]]]
    BY DEF Drawers
  <1> QED BY <1>7, <1>8

\* The ways out of the states, and what printing them adds to the drawing.
OneWay(s, ch, t) == IF t = NULL THEN {} ELSE {<<s, ch, t>>}

WaysOf(n, s) ==
  OneWay(s, n.states[s].ch, n.states[s].out1) \cup OneWay(s, EPSILON, n.states[s].out2)

WaysFrom(n, X) == UNION {WaysOf(n, s) : s \in X}

Lines(index, W) == {<<index[way[1]], way[2], index[way[3]]>> : way \in W}

Adds(index, x, y, W) ==
  /\ IsFiniteSet(W) /\ Len(y.lines) = Len(x.lines) + Cardinality(W)
  /\ ToSet(y.lines) = ToSet(x.lines) \cup Lines(index, W)

LEMMA AddsNothing ==
  ASSUME NEW n, NEW index, NEW x \in Drawings(n)
  PROVE  Adds(index, x, x, {})
  <1>1. Len(x.lines) \in Nat
    BY DrawingParts
  <1>2. IsFiniteSet({}) /\ Cardinality({}) = 0
    BY FS_EmptySet
  <1>3. Lines(index, {}) = {}
    BY DEF Lines
  <1> QED BY <1>1, <1>2, <1>3 DEF Adds

LEMMA AddsTwice ==
  ASSUME NEW n, NEW index, NEW x \in Drawings(n), NEW y, NEW z, NEW V, NEW W,
         Adds(index, x, y, V), Adds(index, y, z, W), V \cap W = {}
  PROVE  Adds(index, x, z, V \cup W)
  <1>1. Len(x.lines) \in Nat
    BY DrawingParts
  <1>2. IsFiniteSet(V) /\ IsFiniteSet(W)
    BY DEF Adds
  <1>3. Cardinality(V) \in Nat /\ Cardinality(W) \in Nat
    BY <1>2, FS_CardinalityType
  <1>4. /\ IsFiniteSet(V \cup W)
        /\ Cardinality(V \cup W) = Cardinality(V) + Cardinality(W) - Cardinality(V \cap W)
    BY <1>2, FS_Union
  <1>5. Cardinality(V \cap W) = 0
    BY FS_EmptySet
  <1>6. Cardinality(V \cup W) = Cardinality(V) + Cardinality(W)
    BY <1>3, <1>4, <1>5
  <1>7. Lines(index, V \cup W) = Lines(index, V) \cup Lines(index, W)
    BY DEF Lines
  <1>8. Len(z.lines) = Len(x.lines) + Cardinality(V \cup W)
    BY <1>1, <1>3, <1>6 DEF Adds
  <1>9. ToSet(z.lines) = ToSet(x.lines) \cup Lines(index, V \cup W)
    BY <1>7 DEF Adds
  <1> QED BY <1>4, <1>8, <1>9 DEF Adds

LEMMA AddsLine ==
  ASSUME NEW n, NEW index, Indexed(n, index), NEW x \in Drawings(n), NEW s \in n.mem_region,
         NEW ch \in Int, NEW t \in n.mem_region
  PROVE  Adds(index, x, WithLine(index, x, s, ch, t), {<<s, ch, t>>})
  <1> DEFINE way == <<s, ch, t>>
  <1>1. PICK lines, line, more : lines = x.lines /\ line = <<index[s], ch, index[t]>>
                                  /\ more = Append(lines, line)
    OBVIOUS
  <1>2. lines \in Seq(Int \X Int \X Int)
    BY <1>1, DrawingParts
  <1>3. /\ Len(more) = Len(lines) + 1 /\ Len(lines) \in Nat
        /\ \A i \in 1 .. Len(lines) : more[i] = lines[i]
        /\ more[Len(lines) + 1] = line
        /\ DOMAIN lines = 1 .. Len(lines) /\ DOMAIN more = 1 .. Len(lines) + 1
    BY <1>1, <1>2
  <1>4. ToSet(more) = ToSet(lines) \cup {line}
    <2>1. 1 .. Len(lines) + 1 = (1 .. Len(lines)) \cup {Len(lines) + 1}
      BY <1>3
    <2> QED BY <1>3, <2>1 DEF ToSet
  <1>5. WithLine(index, x, s, ch, t).lines = more
    BY <1>1, WithLineFacts
  <1>6. IsFiniteSet({way}) /\ Cardinality({way}) = 1
    BY FS_Singleton
  <1>7. Lines(index, {way}) = {line}
    <2>1. way[1] = s /\ way[2] = ch /\ way[3] = t
      OBVIOUS
    <2> HIDE DEF way
    <2> QED BY <1>1, <2>1 DEF Lines
  <1> HIDE DEF way
  <1>8. Adds(index, x, WithLine(index, x, s, ch, t), {way})
    BY <1>1, <1>3, <1>4, <1>5, <1>6, <1>7 DEF Adds
  <1> QED BY <1>8 DEF way

\* What the walk does to a drawing x: it prints the ways out of every state it
\* comes to, and comes to all of them.
Draws(n, index, x, y, W) ==
  /\ y \in Drawings(n) /\ x.seen \subseteq y.seen
  /\ \A u \in y.seen \ x.seen : Outs(n, u) \subseteq y.seen
  /\ Adds(index, x, y, W \cup WaysFrom(n, y.seen \ x.seen))

\* What it does when it is entered with fewer than k states unseen.
Walks(n, index, f, k) ==
  \A s \in n.mem_region, x \in Drawings(n) :
    s \notin x.seen /\ Unseen(n, Enter(x, s)) < k =>
      Draws(n, index, x, f[s][x], {}) /\ s \in f[s][x].seen

LEMMA WaysFacts ==
  ASSUME NEW n, NEW X
  PROVE  /\ WaysFrom(n, {}) = {}
         /\ \A way \in WaysFrom(n, X) : way[1] \in X
         /\ \A Y : WaysFrom(n, X \cup Y) = WaysFrom(n, X) \cup WaysFrom(n, Y)
         /\ \A s : WaysFrom(n, {s}) = WaysOf(n, s)
         /\ \A s, ch, t : \A way \in OneWay(s, ch, t) : way[1] = s
  <1>1. \A s, ch, t : \A way \in OneWay(s, ch, t) : way[1] = s
    BY DEF OneWay
  <1>2. \A s : \A way \in WaysOf(n, s) : way[1] = s
    BY <1>1 DEF WaysOf
  <1>3. \A way \in WaysFrom(n, X) : way[1] \in X
    BY <1>2 DEF WaysFrom
  <1>4. \A Y : WaysFrom(n, X \cup Y) = WaysFrom(n, X) \cup WaysFrom(n, Y)
    BY DEF WaysFrom
  <1> QED BY <1>1, <1>3, <1>4 DEF WaysFrom

\* One way out of a state that was entered.
LEMMA TakeDraws ==
  ASSUME NEW n, Good(n), NEW index, Indexed(n, index), NEW f \in Drawers(n),
         NEW k \in Nat, Walks(n, index, f, k), NEW s \in n.mem_region, NEW ch \in Int,
         NEW t \in n.mem_region \cup {NULL}, NEW x \in Drawings(n), s \in x.seen,
         Unseen(n, x) < k + 1
  PROVE  /\ Draws(n, index, x, Take(index, f, s, ch, t, x), OneWay(s, ch, t))
         /\ {t} \ {NULL} \subseteq Take(index, f, s, ch, t, x).seen
  <1> DEFINE y == WithLine(index, x, s, ch, t)
             z == f[t][y]
             way == <<s, ch, t>>
  <1>1. CASE t = NULL
    <2>1. Take(index, f, s, ch, t, x) = x /\ OneWay(s, ch, t) = {}
      BY <1>1 DEF Take, OneWay
    <2>2. x.seen \ x.seen = {} /\ WaysFrom(n, {}) = {}
      BY WaysFacts
    <2>3. Adds(index, x, x, {} \cup WaysFrom(n, x.seen \ x.seen))
      BY <2>2, AddsNothing
    <2> QED BY <1>1, <2>1, <2>2, <2>3 DEF Draws
  <1>2. CASE t # NULL
    <2>1. t \in n.mem_region /\ OneWay(s, ch, t) = {way}
      BY <1>2 DEF OneWay
    <2>2. y \in Drawings(n) /\ y.seen = x.seen
      BY <2>1, WithLineFacts
    <2>3. Adds(index, x, y, {way})
      BY <2>1, AddsLine
    <2>4. way[1] = s
      OBVIOUS
    <2>5. Take(index, f, s, ch, t, x) = IF t \in x.seen THEN y ELSE z
      BY <1>2 DEF Take
    <2> HIDE DEF y, way
    <2>6. CASE t \in x.seen
      <3>1. y.seen \ x.seen = {} /\ WaysFrom(n, {}) = {}
        BY <2>2, WaysFacts
      <3>2. Adds(index, x, y, {way} \cup WaysFrom(n, y.seen \ x.seen))
        BY <2>3, <3>1
      <3> QED BY <2>1, <2>2, <2>5, <2>6, <3>1, <3>2 DEF Draws
    <2>7. CASE t \notin x.seen
      <3>1. Enter(y, t) \in Drawings(n) /\ Enter(y, t).seen = x.seen \cup {t}
        BY <2>1, <2>2, EnterFacts
      <3>2. Unseen(n, Enter(y, t)) + 1 = Unseen(n, x)
        BY <2>1, <2>7, <3>1, UnseenFacts
      <3>3. Unseen(n, Enter(y, t)) < k
        BY <3>1, <3>2, UnseenFacts
      <3>4. Draws(n, index, y, z, {}) /\ t \in z.seen
        BY <2>1, <2>2, <2>7, <3>3 DEF Walks
      <3> HIDE DEF z
      <3>5. Adds(index, y, z, WaysFrom(n, z.seen \ x.seen))
        BY <2>2, <3>4 DEF Draws
      <3>6. {way} \cap WaysFrom(n, z.seen \ x.seen) = {}
        BY <2>4, WaysFacts
      <3>7. Adds(index, x, z, {way} \cup WaysFrom(n, z.seen \ x.seen))
        BY <2>3, <3>5, <3>6, AddsTwice
      <3> QED BY <2>1, <2>2, <2>5, <2>7, <3>4, <3>7 DEF Draws
    <2> QED BY <2>6, <2>7
  <1> QED BY <1>1, <1>2

LEMMA TwoWays ==
  ASSUME NEW n, Good(n), NEW s \in n.mem_region
  PROVE  OneWay(s, n.states[s].ch, n.states[s].out1)
           \cap OneWay(s, EPSILON, n.states[s].out2) = {}
  <1> DEFINE ch == n.states[s].ch
             out1 == n.states[s].out1
             out2 == n.states[s].out2
  <1>1. s \in DOMAIN n.states /\ Shape(n) /\ Forks(n)
    BY GoodFacts
  <1>2. (ch # EPSILON => out2 = NULL) /\ (out1 = out2 => out1 = NULL)
    BY <1>1 DEF Shape, Forks
  <1> HIDE DEF ch, out1, out2
  <1>3. CASE out1 = NULL \/ out2 = NULL
    BY <1>3 DEF OneWay, ch, out1, out2
  <1>4. CASE out1 # NULL /\ out2 # NULL
    <2>1. <<s, ch, out1>> # <<s, EPSILON, out2>>
      <3>1. <<s, ch, out1>>[3] = out1 /\ <<s, EPSILON, out2>>[3] = out2
        OBVIOUS
      <3> QED BY <1>2, <1>4, <3>1
    <2>2. OneWay(s, ch, out1) = {<<s, ch, out1>>} /\ OneWay(s, EPSILON, out2) = {<<s, EPSILON, out2>>}
      BY <1>4 DEF OneWay
    <2>3. OneWay(s, ch, out1) \cap OneWay(s, EPSILON, out2) = {}
      BY <2>1, <2>2
    <2> QED BY <2>3 DEF ch, out1, out2
  <1> QED BY <1>3, <1>4

\* The two ways one after the other.
LEMMA DrawsBoth ==
  ASSUME NEW n, Good(n), NEW index, NEW s \in n.mem_region, NEW x \in Drawings(n), s \notin x.seen,
         NEW V, NEW W, V \cup W = WaysOf(n, s), V \cap W = {},
         NEW y, Draws(n, index, Enter(x, s), y, V), NEW z, Draws(n, index, y, z, W),
         Outs(n, s) \subseteq z.seen
  PROVE  Draws(n, index, x, z, {}) /\ s \in z.seen
  <1> DEFINE e == Enter(x, s)
             F == y.seen \ e.seen
             G == z.seen \ y.seen
  <1>1. /\ e \in Drawings(n) /\ e.seen = x.seen \cup {s} /\ e.lines = x.lines
    BY EnterFacts
  <1>2. /\ y \in Drawings(n) /\ e.seen \subseteq y.seen
        /\ \A u \in F : Outs(n, u) \subseteq y.seen
        /\ Adds(index, e, y, V \cup WaysFrom(n, F))
    BY DEF Draws
  <1>3. /\ z \in Drawings(n) /\ y.seen \subseteq z.seen
        /\ \A u \in G : Outs(n, u) \subseteq z.seen
        /\ Adds(index, y, z, W \cup WaysFrom(n, G))
    BY DEF Draws
  <1> HIDE DEF e
  <1>4. z.seen \ x.seen = {s} \cup (F \cup G) /\ F \cap G = {} /\ s \notin F /\ s \notin G
    BY <1>1, <1>2, <1>3
  <1> HIDE DEF F, G
  <1>5. \A u \in z.seen \ x.seen : Outs(n, u) \subseteq z.seen
    BY <1>2, <1>3, <1>4
  <1>6. (\A way \in V : way[1] = s) /\ (\A way \in W : way[1] = s)
    <2>1. \A way \in WaysOf(n, s) : way[1] = s
      BY WaysFacts DEF WaysOf
    <2> QED BY <2>1
  <1>7. (V \cup WaysFrom(n, F)) \cap (W \cup WaysFrom(n, G)) = {}
    <2>1. (\A way \in WaysFrom(n, F) : way[1] \in F) /\ (\A way \in WaysFrom(n, G) : way[1] \in G)
      BY WaysFacts
    <2> QED BY <1>4, <1>6, <2>1
  <1>8. Adds(index, e, z, (V \cup WaysFrom(n, F)) \cup (W \cup WaysFrom(n, G)))
    BY <1>1, <1>2, <1>3, <1>7, AddsTwice
  <1>9. (V \cup WaysFrom(n, F)) \cup (W \cup WaysFrom(n, G)) = WaysFrom(n, z.seen \ x.seen)
    <2>1. WaysFrom(n, {s} \cup (F \cup G)) = WaysFrom(n, {s}) \cup WaysFrom(n, F \cup G)
      BY WaysFacts
    <2>2. WaysFrom(n, F \cup G) = WaysFrom(n, F) \cup WaysFrom(n, G)
      BY WaysFacts
    <2>3. WaysFrom(n, {s}) = V \cup W
      BY WaysFacts
    <2> QED BY <1>4, <2>1, <2>2, <2>3
  <1>10. Adds(index, x, z, {} \cup WaysFrom(n, z.seen \ x.seen))
    BY <1>1, <1>8, <1>9 DEF Adds
  <1> QED BY <1>1, <1>2, <1>3, <1>5, <1>10 DEF Draws

LEMMA DrawWalks ==
  ASSUME NEW n, Good(n), NEW index, Indexed(n, index), NEW f, f = Draw(n, index, f)
  PROVE  \A k \in Nat : Walks(n, index, f, k)
  <1> DEFINE S == {k \in Nat : Walks(n, index, f, k)}
  <1>1. f \in Drawers(n)
    BY DrawIsDrawer
  <1>2. 0 \in S
    BY EnterFacts, UnseenFacts DEF Walks
  <1>3. ASSUME NEW k \in Nat, k \in S PROVE k + 1 \in S
    <2> SUFFICES ASSUME NEW s \in n.mem_region, NEW x \in Drawings(n),
                        s \notin x.seen, Unseen(n, Enter(x, s)) < k + 1
                 PROVE  Draws(n, index, x, f[s][x], {}) /\ s \in f[s][x].seen
      BY DEF Walks
    <2> DEFINE ch == n.states[s].ch
               out1 == n.states[s].out1
               out2 == n.states[s].out2
               e == Enter(x, s)
               y == Take(index, f, s, ch, out1, e)
               z == Take(index, f, s, EPSILON, out2, y)
    <2>1. f[s][x] = z
      BY DEF Draw
    <2>2. /\ out1 \in n.mem_region \cup {NULL} /\ out2 \in n.mem_region \cup {NULL}
          /\ ch \in Int /\ EPSILON \in Int
      BY WayFacts
    <2>3. /\ WaysOf(n, s) = OneWay(s, ch, out1) \cup OneWay(s, EPSILON, out2)
          /\ OneWay(s, ch, out1) \cap OneWay(s, EPSILON, out2) = {}
      BY TwoWays DEF WaysOf
    <2>4. Outs(n, s) = {out1, out2} \ {NULL}
      BY OutFacts
    <2>5. e \in Drawings(n) /\ s \in e.seen /\ Unseen(n, e) < k + 1
      BY EnterFacts
    <2> HIDE DEF ch, out1, out2
    <2>6. Draws(n, index, e, y, OneWay(s, ch, out1)) /\ {out1} \ {NULL} \subseteq y.seen
      <3> HIDE DEF e
      <3> QED BY <1>1, <1>3, <2>2, <2>5, TakeDraws
    <2> HIDE DEF y
    <2>7. y \in Drawings(n) /\ e.seen \subseteq y.seen
      BY <2>6 DEF Draws
    <2>8. s \in y.seen /\ Unseen(n, y) < k + 1
      <3>1. Unseen(n, y) <= Unseen(n, e) /\ Unseen(n, y) \in Nat /\ Unseen(n, e) \in Nat
        BY <2>5, <2>7, UnseenFacts
      <3> QED BY <2>5, <2>7, <3>1
    <2>9. Draws(n, index, y, z, OneWay(s, EPSILON, out2)) /\ {out2} \ {NULL} \subseteq z.seen
      BY <1>1, <1>3, <2>2, <2>7, <2>8, TakeDraws
    <2> HIDE DEF z
    <2>10. Outs(n, s) \subseteq z.seen
      BY <2>4, <2>6, <2>9 DEF Draws
    <2> QED BY <2>1, <2>3, <2>6, <2>9, <2>10, DrawsBoth
  <1> HIDE DEF S
  <1>4. Nat \subseteq S
    BY <1>2, <1>3, InductiveSet
  <1> QED BY <1>4 DEF S

LEMMA GraphDrawn ==
  ASSUME NEW n, Good(n)
  PROVE  LET graph == GenNFAGraphviz(n)
             index == IndexStates(n)
             W     == WaysFrom(n, n.mem_region)
         IN  /\ graph.accept = index[n.accept]
             /\ Len(graph.lines) = Cardinality(W) /\ ToSet(graph.lines) = Lines(index, W)
  <1> DEFINE index == IndexStates(n)
             Finds(f) == f = [s \in n.mem_region |-> [x \in Drawings(n) |->
                Take(index, f, s, EPSILON, n.states[s].out2,
                  Take(index, f, s, n.states[s].ch, n.states[s].out1, [x EXCEPT !.seen = @ \cup {s}]))]]
             found == CHOOSE f : Finds(f)
             none == [seen |-> {}, lines |-> <<>>]
             y == found[n.start][none]
             W == WaysFrom(n, n.mem_region)
  <1>1. GenNFAGraphviz(n) = [accept |-> index[n.accept], lines |-> y.lines]
    BY DEF GenNFAGraphviz, Take, WithLine
  <1>2. Indexed(n, index)
    <2>1. {index[s] : s \in n.mem_region} = 0 .. n.size - 1 /\ n.size \in Nat
      BY IndicesAreAll, GoodFacts
    <2> HIDE DEF index
    <2> QED BY <2>1 DEF Indexed
  <1> HIDE DEF index
  <1>3. found = Draw(n, index, found)
    <2>1. ASSUME NEW f PROVE Finds(f) <=> f = Draw(n, index, f)
      BY DEF Draw, Enter
    <2>2. \E f : Finds(f)
      <3> HIDE DEF Finds
      <3>1. PICK f : f = Draw(n, index, f)
        BY <1>2, DrawExists
      <3> QED BY <2>1, <3>1
    <2>3. Finds(found)
      <3> HIDE DEF Finds
      <3> QED BY <2>2
    <2> HIDE DEF found, Finds
    <2> QED BY <2>1, <2>3
  <1> HIDE DEF found
  <1>4. none \in Drawings(n) /\ none.seen = {} /\ Len(none.lines) = 0 /\ ToSet(none.lines) = {}
    BY DEF Drawings, ToSet
  <1> HIDE DEF none
  <1>5. /\ n.start \in n.mem_region /\ Spans(n) /\ DOMAIN n.states = n.mem_region
    BY GoodFacts
  <1>6. Enter(none, n.start) \in Drawings(n)
    BY <1>4, <1>5, EnterFacts
  <1>7. PICK k \in Nat : k = Unseen(n, Enter(none, n.start))
    BY <1>6, UnseenFacts
  <1>8. Draws(n, index, none, y, {}) /\ n.start \in y.seen
    <2>1. Walks(n, index, found, k + 1)
      BY <1>2, <1>3, <1>7, DrawWalks
    <2> QED BY <1>4, <1>5, <1>7, <2>1 DEF Walks
  <1> HIDE DEF y
  <1>9. y.seen = n.mem_region
    <2>1. y.seen \in SUBSET DOMAIN n.states
      BY <1>5, <1>8 DEF Draws, Drawings
    <2>2. Traps(n, y.seen)
      BY <1>4, <1>8 DEF Draws, Traps
    <2> QED BY <1>5, <1>8, <2>1, <2>2 DEF Spans
  <1>10. Adds(index, none, y, W)
    <2>1. {} \cup WaysFrom(n, y.seen \ none.seen) = W
      BY <1>4, <1>9
    <2> HIDE DEF W
    <2> QED BY <1>8, <2>1 DEF Draws
  <1>11. Cardinality(W) \in Nat
    BY <1>10, FS_CardinalityType DEF Adds
  <1>12. Len(y.lines) = Cardinality(W) /\ ToSet(y.lines) = Lines(index, W)
    <2> HIDE DEF W
    <2> QED BY <1>4, <1>10, <1>11 DEF Adds
  <1> QED BY <1>1, <1>12 DEF index

\* gen_nfa_graphviz() prints every transition of every NFA the constructions make
\* exactly once, however many cycles lead back to states it has seen.
THEOREM GraphShowsNFAHolds == Spec => []GraphShowsNFA
  <1>1. ASSUME NEW n, Good(n)
        PROVE  LET Ways == {<<s, n.states[s].ch, n.states[s].out1>> : s \in n.mem_region}
                           \cup {<<s, EPSILON, n.states[s].out2>> : s \in n.mem_region}
               IN  {way \in Ways : way[3] # NULL} = WaysFrom(n, n.mem_region)
    <2> DEFINE A(s) == <<s, n.states[s].ch, n.states[s].out1>>
               B(s) == <<s, EPSILON, n.states[s].out2>>
               Ways == {A(s) : s \in n.mem_region} \cup {B(s) : s \in n.mem_region}
    <2>1. ASSUME NEW s \in n.mem_region
          PROVE  /\ A(s)[3] = n.states[s].out1 /\ B(s)[3] = n.states[s].out2
                 /\ WaysOf(n, s) = {way \in {A(s), B(s)} : way[3] # NULL}
      BY DEF WaysOf, OneWay
    <2>2. Ways = UNION {{A(s), B(s)} : s \in n.mem_region}
      OBVIOUS
    <2> HIDE DEF A, B
    <2>3. {way \in Ways : way[3] # NULL} = WaysFrom(n, n.mem_region)
      BY <2>1, <2>2 DEF WaysFrom
    <2> QED BY <2>3 DEF A, B
  <1>2. Inv => GraphShowsNFA
    <2> SUFFICES ASSUME Inv, NEW n \in NFAs
                 PROVE  LET index == IndexStates(n)
                            graph == GenNFAGraphviz(n)
                            Ways  == {<<s, n.states[s].ch, n.states[s].out1>> : s \in n.mem_region}
                                     \cup {<<s, EPSILON, n.states[s].out2>> : s \in n.mem_region}
                            Transitions == {way \in Ways : way[3] # NULL}
                        IN  /\ graph.accept = index[n.accept]
                            /\ Len(graph.lines) = Cardinality(Transitions)
                            /\ ToSet(graph.lines) =
                                 {<<index[way[1]], way[2], index[way[3]]>> : way \in Transitions}
      BY DEF GraphShowsNFA
    <2> DEFINE index == IndexStates(n)
               graph == GenNFAGraphviz(n)
               Ways  == {<<s, n.states[s].ch, n.states[s].out1>> : s \in n.mem_region}
                        \cup {<<s, EPSILON, n.states[s].out2>> : s \in n.mem_region}
               Transitions == {way \in Ways : way[3] # NULL}
    <2>1. Good(n)
      BY DEF Inv, Sound, NFAs
    <2>2. /\ graph.accept = index[n.accept]
          /\ Len(graph.lines) = Cardinality(WaysFrom(n, n.mem_region))
          /\ ToSet(graph.lines) = Lines(index, WaysFrom(n, n.mem_region))
      BY <2>1, GraphDrawn
    <2>3. Transitions = WaysFrom(n, n.mem_region)
      BY <1>1, <2>1
    <2> HIDE DEF index, graph, Transitions
    <2>4. /\ graph.accept = index[n.accept]
          /\ Len(graph.lines) = Cardinality(Transitions)
          /\ ToSet(graph.lines) =
               {<<index[way[1]], way[2], index[way[3]]>> : way \in Transitions}
      BY <2>2, <2>3 DEF Lines
    <2> QED BY <2>4 DEF index, graph, Transitions
  <1> QED BY <1>2, Invariance, PTL

=============================================================================
