----------------------------- MODULE SubsetProofs -----------------------------
(***************************************************************************)
(* Theorems about the subset construction.                                 *)
(***************************************************************************)
EXTENDS Subset, NumberFacts, SequenceTheorems, TLAPS

-----------------------------------------------------------------------------
(***************************************************************************)
(* The NFA: the closure is the least one, no set of states traps it.       *)
(***************************************************************************)

EpsilonStep(n) == [X \in SUBSET DOMAIN n.states |-> EpsilonOuts(n, X)]

LEMMA OutsFacts ==
  ASSUME NEW n, IsNFA(n), NEW s \in DOMAIN n.states
  PROVE  /\ Outs(n, s) \subseteq DOMAIN n.states
         /\ n.states[s] \in NFAState(n)
  <1>1. n.states[s] \in NFAState(n)
    BY DEF IsNFA
  <1> QED BY <1>1 DEF Outs, NFAState

LEMMA EpsilonStepMonotone ==
  ASSUME NEW n, IsNFA(n)
  PROVE  Monotone(DOMAIN n.states, EpsilonStep(n))
  <1> DEFINE D == DOMAIN n.states
  <1>1. ASSUME NEW X \in SUBSET D PROVE EpsilonOuts(n, X) \in SUBSET D
    <2>1. \A s \in X : Outs(n, s) \subseteq D
      BY OutsFacts
    <2> QED BY <2>1 DEF EpsilonOuts
  <1>2. ASSUME NEW X \in SUBSET D, NEW Y \in SUBSET D, X \subseteq Y
        PROVE  EpsilonOuts(n, X) \subseteq EpsilonOuts(n, Y)
    BY <1>2 DEF EpsilonOuts
  <1> QED BY <1>1, <1>2 DEF Monotone, EpsilonStep

LEMMA ClosureIsLeast ==
  ASSUME NEW n, IsNFA(n), NEW s \in DOMAIN n.states
  PROVE  IsLeastClosed(DOMAIN n.states, EpsilonStep(n), {s}, EpsilonClosure(n, s))
  <1> DEFINE D == DOMAIN n.states
             step == EpsilonStep(n)
             Finds(f) == f = [X \in SUBSET D |->
                                LET more == X \cup EpsilonOuts(n, X)
                                IN  IF more = X THEN X ELSE f[more]]
             found == CHOOSE f : Finds(f)
  <1>1. ASSUME NEW f PROVE Iterates(D, step, f) <=> Finds(f)
    BY DEF Iterates, EpsilonStep
  <1>2. \E f : Finds(f)
    BY <1>1, EpsilonStepMonotone, IterationExists
  <1>3. EpsilonClosure(n, s) = found[{s}]
    BY DEF EpsilonClosure
  <1>4. Finds(found)
    <2> HIDE DEF Finds
    <2> QED BY <1>2
  <1>5. Iterates(D, step, found)
    BY <1>1, <1>4
  <1>6. IsFiniteSet(D) /\ {s} \in SUBSET D
    BY DEF IsNFA
  <1> HIDE DEF found
  <1> QED BY <1>3, <1>5, <1>6, EpsilonStepMonotone, IterationFinds

EpsilonClosed(n, X) == EpsilonOuts(n, X) \subseteq X

LEMMA ClosureFacts ==
  ASSUME NEW n, IsNFA(n), NEW s \in DOMAIN n.states
  PROVE  /\ EpsilonClosure(n, s) \subseteq DOMAIN n.states
         /\ s \in EpsilonClosure(n, s)
         /\ EpsilonClosed(n, EpsilonClosure(n, s))
         /\ \A X \in SUBSET DOMAIN n.states :
              s \in X /\ EpsilonClosed(n, X) => EpsilonClosure(n, s) \subseteq X
  <1> DEFINE D == DOMAIN n.states
             C == EpsilonClosure(n, s)
  <1>1. /\ C \in SUBSET D /\ {s} \subseteq C /\ EpsilonStep(n)[C] \subseteq C
        /\ \A X \in SUBSET D : {s} \subseteq X /\ EpsilonStep(n)[X] \subseteq X => C \subseteq X
    BY ClosureIsLeast DEF IsLeastClosed
  <1>2. \A X \in SUBSET D : EpsilonStep(n)[X] = EpsilonOuts(n, X)
    BY DEF EpsilonStep
  <1> HIDE DEF C
  <1> QED BY <1>1, <1>2 DEF EpsilonClosed, C

\* Nothing leads back to the start.
LEMMA StartIsNotEntered ==
  ASSUME NEW n, IsNFA(n), IsThompson(n), NEW s \in DOMAIN n.states, s # n.start
  PROVE  n.start \notin EpsilonClosure(n, s)
  <1> DEFINE X == DOMAIN n.states \ {n.start}
  <1>1. \A t \in DOMAIN n.states : Outs(n, t) \subseteq DOMAIN n.states /\ n.start \notin Outs(n, t)
    BY OutsFacts DEF IsThompson
  <1>2. EpsilonClosed(n, X)
    BY <1>1 DEF EpsilonClosed, EpsilonOuts
  <1>3. X \in SUBSET DOMAIN n.states /\ s \in X
    OBVIOUS
  <1>4. EpsilonClosure(n, s) \subseteq X
    BY <1>2, <1>3, ClosureFacts
  <1> QED BY <1>4

BackStep(n) ==
  [X \in SUBSET DOMAIN n.states |-> {s \in DOMAIN n.states : Outs(n, s) \cap X # {}}]

LEMMA CoReachableIsLeast ==
  ASSUME NEW n, IsNFA(n)
  PROVE  IsLeastClosed(DOMAIN n.states, BackStep(n), {n.accept}, CoReachable(n))
  <1> DEFINE D == DOMAIN n.states
             step == BackStep(n)
             Finds(f) == f = [X \in SUBSET D |->
                                LET more == X \cup {s \in D : Outs(n, s) \cap X # {}}
                                IN  IF more = X THEN X ELSE f[more]]
             found == CHOOSE f : Finds(f)
  <1>1. ASSUME NEW f PROVE Iterates(D, step, f) <=> Finds(f)
    BY DEF Iterates, BackStep
  <1>2. Monotone(D, step)
    BY DEF Monotone, BackStep
  <1>3. \E f : Finds(f)
    BY <1>1, <1>2, IterationExists
  <1>4. CoReachable(n) = found[{n.accept}]
    BY DEF CoReachable
  <1>5. Finds(found)
    <2> HIDE DEF Finds
    <2> QED BY <1>3
  <1>6. Iterates(D, step, found)
    BY <1>1, <1>5
  <1>7. IsFiniteSet(D) /\ {n.accept} \in SUBSET D
    BY DEF IsNFA
  <1> HIDE DEF found
  <1> QED BY <1>2, <1>4, <1>6, <1>7, IterationFinds

\* No set of states without the accept state traps the automaton.
LEMMA Escape ==
  ASSUME NEW n, IsNFA(n), IsThompson(n),
         NEW T \in SUBSET DOMAIN n.states, T # {}, n.accept \notin T
  PROVE  \E s \in T : \E t \in Outs(n, s) : t \notin T
  <1> SUFFICES ASSUME \A s \in T : Outs(n, s) \subseteq T PROVE FALSE
    OBVIOUS
  <1> DEFINE D == DOMAIN n.states
             Y == D \ T
  <1>1. BackStep(n)[Y] \subseteq Y
    BY DEF BackStep
  <1>2. {n.accept} \subseteq Y /\ Y \in SUBSET D
    BY DEF IsNFA
  <1>3. CoReachable(n) \subseteq Y
    BY <1>1, <1>2, CoReachableIsLeast DEF IsLeastClosed
  <1> QED BY <1>3 DEF IsThompson

\* A state that reads a character leads somewhere, but not to the start.
LEMMA ReadingStates ==
  ASSUME NEW n, IsNFA(n), IsThompson(n), NEW s \in DOMAIN n.states,
         n.states[s].ch # EPSILON
  PROVE  /\ n.states[s].out1 \in DOMAIN n.states /\ n.states[s].out1 # n.start
         /\ Outs(n, s) = {n.states[s].out1}
         /\ n.states[s].ch \in n.alphabet
  <1>1. s # n.accept
    BY DEF IsThompson, NewState
  <1>2. Outs(n, s) # {}
    <2>1. {s} \in SUBSET DOMAIN n.states /\ {s} # {} /\ n.accept \notin {s}
      BY <1>1
    <2>2. \E u \in {s} : \E t \in Outs(n, u) : t \notin {s}
      BY <2>1, Escape
    <2> QED BY <2>2
  <1>3. n.states[s].out2 = NULL /\ n.start \notin Outs(n, s)
    BY DEF IsThompson
  <1>4. Outs(n, s) \subseteq DOMAIN n.states /\ n.states[s] \in NFAState(n)
    BY OutsFacts
  <1>5. Outs(n, s) = {n.states[s].out1}
    BY <1>2, <1>3 DEF Outs
  <1> QED BY <1>3, <1>4, <1>5 DEF NFAState

-----------------------------------------------------------------------------
(***************************************************************************)
(* The worklist is a stack.                                                *)
(***************************************************************************)

LEMMA Popped ==
  ASSUME NEW S, NEW w \in Seq(S), w # <<>>
  PROVE  /\ Head(w) = w[1] /\ w[1] \in S /\ Len(w) \in Nat /\ 1 \in 1 .. Len(w)
         /\ Tail(w) \in Seq(S) /\ Len(Tail(w)) = Len(w) - 1
         /\ \A i \in 1 .. Len(w) - 1 : Tail(w)[i] = w[i + 1]
  BY HeadTailProperties, EmptySeq

LEMMA Pushed ==
  ASSUME NEW S, NEW w \in Seq(S), NEW T, S \subseteq T, NEW e \in T
  PROVE  /\ <<e>> \o w \in Seq(T) /\ Len(<<e>> \o w) = Len(w) + 1
         /\ (<<e>> \o w)[1] = e
         /\ \A i \in 2 .. Len(w) + 1 : (<<e>> \o w)[i] = w[i - 1]
  <1>1. w \in Seq(T) /\ <<e>> \in Seq(T) /\ Len(<<e>>) = 1 /\ Len(w) \in Nat
    OBVIOUS
  <1>2. /\ <<e>> \o w \in Seq(T) /\ Len(<<e>> \o w) = 1 + Len(w)
        /\ \A i \in 1 .. 1 + Len(w) :
             (<<e>> \o w)[i] = IF i <= 1 THEN <<e>>[i] ELSE w[i - 1]
    BY <1>1, ConcatProperties
  <1> QED BY <1>1, <1>2

\* What is on a list, and what is in none of its places twice.
Listed(w, k) == \E i \in 1 .. Len(w) : w[i] = k
NoneTwice(w) == \A i, j \in 1 .. Len(w) : i # j => w[i] # w[j]

LEMMA PoppedFacts ==
  ASSUME NEW S, NEW w \in Seq(S), w # <<>>, NoneTwice(w)
  PROVE  /\ Head(w) \in S /\ Listed(w, Head(w))
         /\ Tail(w) \in Seq(S) /\ NoneTwice(Tail(w))
         /\ \A k : Listed(Tail(w), k) <=> Listed(w, k) /\ k # Head(w)
  <1> DEFINE t == Tail(w)
             l == Len(w)
  <1>1. /\ Head(w) = w[1] /\ w[1] \in S /\ l \in Nat /\ 1 \in 1 .. l
        /\ t \in Seq(S) /\ Len(t) = l - 1
        /\ \A i \in 1 .. l - 1 : t[i] = w[i + 1]
    BY Popped
  <1> HIDE DEF t, l
  <1>2. \A i \in 1 .. l - 1 : i + 1 \in 1 .. l /\ i + 1 # 1
    BY <1>1
  <1>3. NoneTwice(t)
    <2> SUFFICES ASSUME NEW i \in 1 .. l - 1, NEW j \in 1 .. l - 1, i # j PROVE t[i] # t[j]
      BY <1>1 DEF NoneTwice
    <2>1. i + 1 # j + 1 /\ i + 1 \in 1 .. l /\ j + 1 \in 1 .. l
      BY <1>2
    <2>2. w[i + 1] # w[j + 1]
      BY <2>1 DEF NoneTwice, l
    <2> QED BY <1>1, <2>2
  <1>4. ASSUME NEW k, Listed(t, k) PROVE Listed(w, k) /\ k # Head(w)
    <2>1. PICK i \in 1 .. l - 1 : t[i] = k
      BY <1>1, <1>4 DEF Listed
    <2>2. i + 1 \in 1 .. l /\ i + 1 # 1 /\ w[i + 1] = k
      BY <1>1, <1>2, <2>1
    <2>3. w[i + 1] # w[1]
      BY <1>1, <2>2 DEF NoneTwice, l
    <2> QED BY <1>1, <2>2, <2>3 DEF Listed, l
  <1>5. ASSUME NEW k, Listed(w, k), k # Head(w) PROVE Listed(t, k)
    <2>1. PICK i \in 1 .. l : w[i] = k
      BY <1>5 DEF Listed, l
    <2>2. i - 1 \in 1 .. l - 1 /\ (i - 1) + 1 = i
      BY <1>1, <1>5, <2>1
    <2>3. t[i - 1] = k
      BY <1>1, <2>1, <2>2
    <2> QED BY <1>1, <2>2, <2>3 DEF Listed
  <1>6. Listed(w, Head(w))
    BY <1>1 DEF Listed, l
  <1> QED BY <1>1, <1>3, <1>4, <1>5, <1>6 DEF t

LEMMA PushedFacts ==
  ASSUME NEW S, NEW w \in Seq(S), NEW T, S \subseteq T, NEW e \in T,
         NoneTwice(w), e \notin S
  PROVE  /\ <<e>> \o w \in Seq(T) /\ NoneTwice(<<e>> \o w)
         /\ \A k : Listed(<<e>> \o w, k) <=> k = e \/ Listed(w, k)
  <1> DEFINE t == <<e>> \o w
             l == Len(w)
  <1>1. /\ t \in Seq(T) /\ Len(t) = l + 1 /\ t[1] = e /\ l \in Nat
        /\ \A i \in 2 .. l + 1 : t[i] = w[i - 1]
    BY Pushed
  <1>2. \A i \in 1 .. l : w[i] \in S
    OBVIOUS
  <1> HIDE DEF t, l
  <1>3. \A i \in 2 .. l + 1 : i - 1 \in 1 .. l
    BY <1>1
  <1>4. \A i \in 1 .. l + 1 : i = 1 \/ i \in 2 .. l + 1
    BY <1>1
  <1>5. NoneTwice(t)
    <2> SUFFICES ASSUME NEW i \in 1 .. l + 1, NEW j \in 1 .. l + 1, i # j PROVE t[i] # t[j]
      BY <1>1 DEF NoneTwice
    <2>1. CASE i = 1
      <3>1. j \in 2 .. l + 1
        BY <1>4, <2>1
      <3> QED BY <1>1, <1>2, <1>3, <2>1, <3>1
    <2>2. CASE j = 1
      <3>1. i \in 2 .. l + 1
        BY <1>4, <2>2
      <3> QED BY <1>1, <1>2, <1>3, <2>2, <3>1
    <2>3. CASE i # 1 /\ j # 1
      <3>1. i \in 2 .. l + 1 /\ j \in 2 .. l + 1 /\ i - 1 # j - 1
        BY <1>4, <2>3
      <3>2. w[i - 1] # w[j - 1]
        BY <1>3, <3>1 DEF NoneTwice, l
      <3> QED BY <1>1, <3>1, <3>2
    <2> QED BY <2>1, <2>2, <2>3
  <1>6. ASSUME NEW k PROVE Listed(t, k) <=> k = e \/ Listed(w, k)
    <2>1. ASSUME Listed(t, k) PROVE k = e \/ Listed(w, k)
      <3>1. PICK i \in 1 .. l + 1 : t[i] = k
        BY <1>1, <2>1 DEF Listed
      <3>2. CASE i = 1
        BY <1>1, <3>1, <3>2
      <3>3. CASE i \in 2 .. l + 1
        BY <1>1, <1>3, <3>1, <3>3 DEF Listed, l
      <3> QED BY <1>4, <3>2, <3>3
    <2>2. Listed(t, e)
      <3>1. 1 \in 1 .. l + 1
        BY <1>1
      <3> QED BY <1>1, <3>1 DEF Listed
    <2>3. ASSUME Listed(w, k) PROVE Listed(t, k)
      <3>1. PICK i \in 1 .. l : w[i] = k
        BY <2>3 DEF Listed, l
      <3>2. i + 1 \in 2 .. l + 1 /\ (i + 1) - 1 = i /\ i + 1 \in 1 .. l + 1
        BY <1>1
      <3>3. t[i + 1] = k
        BY <1>1, <3>1, <3>2
      <3> QED BY <1>1, <3>2, <3>3 DEF Listed
    <2> QED BY <2>1, <2>2, <2>3
  <1> QED BY <1>1, <1>5, <1>6 DEF t

-----------------------------------------------------------------------------
(***************************************************************************)
(* The alphabet and the step from a set of states along a character.       *)
(***************************************************************************)

Chars(n) == CHOOSE chars \in [1 .. Cardinality(n.alphabet) -> n.alphabet] :
              \A i, j \in 1 .. Cardinality(n.alphabet) : i < j => chars[i] < chars[j]

Delta(n, X, ch) ==
  UNION {EpsilonClosure(n, n.states[s].out1) : s \in {t \in X : n.states[t].ch = ch}}

LEMMA Renamed ==
  /\ Alphabet = Chars(nfa) /\ AlphabetSize = Cardinality(nfa.alphabet)
  /\ \A X, ch : EpsilonClosureDelta(X, ch) = Delta(nfa, X, ch)
  /\ Reached = Delta(nfa, mem_region[q], Chars(nfa)[char])
  <1>1. Alphabet = Chars(nfa) /\ AlphabetSize = Cardinality(nfa.alphabet)
    BY DEF Alphabet, AlphabetSize, Chars
  <1>2. \A X, ch : EpsilonClosureDelta(X, ch) = Delta(nfa, X, ch)
    BY DEF EpsilonClosureDelta, Delta
  <1> QED BY <1>1, <1>2 DEF Reached

LEMMA RenamedNext ==
  /\ Alphabet' = Chars(nfa') /\ AlphabetSize' = Cardinality(nfa'.alphabet)
  /\ \A X, ch : EpsilonClosureDelta(X, ch)' = Delta(nfa', X, ch)
  <1>1. Alphabet' = Chars(nfa') /\ AlphabetSize' = Cardinality(nfa'.alphabet)
    BY DEF Alphabet, AlphabetSize, Chars
  <1>2. \A X, ch : EpsilonClosureDelta(X, ch)' = Delta(nfa', X, ch)
    BY DEF EpsilonClosureDelta, Delta
  <1> QED BY <1>1, <1>2

LEMMA CharsFacts ==
  ASSUME NEW n, IsNFA(n)
  PROVE  /\ Cardinality(n.alphabet) \in Nat
         /\ Chars(n) \in [1 .. Cardinality(n.alphabet) -> n.alphabet]
         /\ \A ch \in n.alphabet :
              \E i \in 1 .. Cardinality(n.alphabet) : Chars(n)[i] = ch
  <1> DEFINE S == n.alphabet
             c == Cardinality(S)
             Good(f) == f \in [1 .. c -> S] /\ Increasing(f, c)
             chars == CHOOSE f \in [1 .. c -> S] : Increasing(f, c)
  <1>1. S \in SUBSET Nat /\ IsFiniteSet(S)
    BY DEF IsNFA
  <1>2. chars \in [1 .. c -> S] /\ Increasing(chars, c)
    <2>1. \E f \in [1 .. c -> S] : Increasing(f, c)
      BY <1>1, IncreasingExists
    <2> QED BY <2>1
  <1>3. Chars(n) = chars
    BY DEF Chars, Increasing
  <1>4. c \in Nat
    BY <1>1, FS_CardinalityType
  <1>5. \A ch \in S : \E i \in 1 .. c : chars[i] = ch
    <2> HIDE DEF chars
    <2> QED BY <1>1, <1>2, IncreasingIsOnto
  <1> QED BY <1>2, <1>3, <1>4, <1>5

\* A set of NFA states that is the DFA state k.
IsStateSet(n, X, k) ==
  /\ X \subseteq DOMAIN n.states /\ X # {}
  /\ EpsilonClosed(n, X)
  /\ n.start \in X <=> k = 0

LEMMA StartFacts ==
  ASSUME NEW n, IsNFA(n)
  PROVE  IsStateSet(n, EpsilonClosure(n, n.start), 0)
  <1>1. n.start \in DOMAIN n.states
    BY DEF IsNFA
  <1> QED BY <1>1, ClosureFacts DEF IsStateSet

LEMMA DeltaFacts ==
  ASSUME NEW n, IsNFA(n), IsThompson(n), NEW X \in SUBSET DOMAIN n.states,
         NEW ch, ch # EPSILON
  PROVE  /\ Delta(n, X, ch) \subseteq DOMAIN n.states
         /\ EpsilonClosed(n, Delta(n, X, ch))
         /\ n.start \notin Delta(n, X, ch)
         /\ \A s \in X : n.states[s].ch = ch => n.states[s].out1 \in Delta(n, X, ch)
  <1> DEFINE S == {t \in X : n.states[t].ch = ch}
             C(s) == EpsilonClosure(n, n.states[s].out1)
  <1>1. ASSUME NEW s \in S
        PROVE  /\ n.states[s].out1 \in C(s) /\ C(s) \subseteq DOMAIN n.states
               /\ EpsilonClosed(n, C(s)) /\ n.start \notin C(s)
    <2>1. n.states[s].out1 \in DOMAIN n.states /\ n.states[s].out1 # n.start
      BY ReadingStates
    <2> QED BY <2>1, ClosureFacts, StartIsNotEntered
  <1> HIDE DEF C
  <1>2. Delta(n, X, ch) = UNION {C(s) : s \in S}
    BY DEF Delta, C
  <1>3. EpsilonClosed(n, UNION {C(s) : s \in S})
    BY <1>1 DEF EpsilonClosed, EpsilonOuts
  <1> QED BY <1>1, <1>2, <1>3

-----------------------------------------------------------------------------
(***************************************************************************)
(* The inductive invariant.                                                *)
(***************************************************************************)

\* Where the construction is: which state is at hand, which are listed.
Progress ==
  /\ NewIndex \in Nat
  /\ pc = "start" <=> NewIndex = 0
  /\ pc = "start" => worklist = <<>> /\ is_accept = {} /\ accepts = {}
  /\ pc = "outs" => /\ q \in DOMAIN mem_region /\ ~ Listed(worklist, q)
                    /\ char \in 1 .. AlphabetSize + 1
  /\ pc \in {"tables", "done", "failed"} => worklist = <<>>

\* The states are closed sets of NFA states, only the first contains the start.
StateSets ==
  /\ \A k \in DOMAIN mem_region : IsStateSet(nfa, mem_region[k], k)
  /\ pc # "start" => mem_region[0] = EpsilonClosure(nfa, nfa.start)

\* The flags and the set agree.
AcceptsExact ==
  /\ accepts = {k \in DOMAIN mem_region : nfa.accept \in mem_region[k]}
  /\ is_accept = accepts

Tabled ==
  pc = "done" =>
    dfa = [size          |-> NewIndex,
           alphabet_size |-> AlphabetSize,
           delta         |-> [k \in DOMAIN mem_region |->
                                [c \in 0 .. AlphabetSize - 1 |->
                                   IF outs[k][c + 1] = NULL THEN DEAD_STATE
                                   ELSE outs[k][c + 1]]],
           accepts       |-> accepts]

Inv ==
  /\ TypeOK /\ Progress /\ StatesDistinct /\ StateSets
  /\ AcceptsExact /\ TransitionsExact /\ Tabled

LEMMA NFAFacts ==
  ASSUME nfa \in NFAs
  PROVE  /\ IsNFA(nfa) /\ IsThompson(nfa)
         /\ AlphabetSize \in Nat
         /\ Alphabet \in [1 .. AlphabetSize -> nfa.alphabet]
         /\ EPSILON \notin nfa.alphabet
         /\ DOMAIN nfa.states = nfa.mem_region
  <1>1. IsNFA(nfa) /\ IsThompson(nfa)
    BY NFAsAssumption
  <1> QED BY <1>1, CharsFacts, Renamed DEF IsNFA

LEMMA Initially == ASSUME Init PROVE Inv
  <1>1. DOMAIN mem_region = {} /\ DOMAIN outs = {} /\ NewIndex = 0
    BY FS_EmptySet DEF Init, NewIndex
  <1>2. AlphabetSize \in Nat /\ nfa \in NFAs
    BY NFAFacts DEF Init
  <1>3. Len(worklist) = 0 /\ worklist \in Seq(DOMAIN mem_region)
    BY DEF Init
  <1>4. TypeOK
    BY <1>1, <1>2, <1>3 DEF Init, TypeOK
  <1> QED BY <1>1, <1>3, <1>4 DEF Init, Inv, Progress, StatesDistinct, StateSets,
             AcceptsExact, TransitionsExact, Tabled

\* The set that is reached from the state at hand.
LEMMA ReachedFacts ==
  ASSUME Inv, pc = "outs", char <= AlphabetSize
  PROVE  /\ char \in 1 .. AlphabetSize /\ q \in DOMAIN mem_region
         /\ Reached = EpsilonClosureDelta(mem_region[q], Alphabet[char])
         /\ Reached \subseteq nfa.mem_region
         /\ \A k : Reached # {} /\ k # 0 => IsStateSet(nfa, Reached, k)
         /\ nfa.start \notin Reached
  <1>1. /\ IsNFA(nfa) /\ IsThompson(nfa) /\ DOMAIN nfa.states = nfa.mem_region
        /\ AlphabetSize \in Nat /\ Alphabet \in [1 .. AlphabetSize -> nfa.alphabet]
        /\ EPSILON \notin nfa.alphabet
    BY NFAFacts DEF Inv, TypeOK
  <1>2. char \in 1 .. AlphabetSize /\ q \in DOMAIN mem_region
    BY <1>1 DEF Inv, Progress
  <1>3. mem_region[q] \in SUBSET DOMAIN nfa.states /\ Alphabet[char] # EPSILON
    BY <1>1, <1>2 DEF Inv, TypeOK
  <1>4. /\ Delta(nfa, mem_region[q], Alphabet[char]) \subseteq DOMAIN nfa.states
        /\ EpsilonClosed(nfa, Delta(nfa, mem_region[q], Alphabet[char]))
        /\ nfa.start \notin Delta(nfa, mem_region[q], Alphabet[char])
    BY <1>1, <1>3, DeltaFacts
  <1>5. Reached = Delta(nfa, mem_region[q], Alphabet[char])
    BY Renamed
  <1> QED BY <1>1, <1>2, <1>4, <1>5 DEF IsStateSet, Reached

\* What adding a state does.
LEMMA NewStateFacts ==
  ASSUME Inv, ToNewState
  PROVE  /\ DOMAIN mem_region = 0 .. NewIndex - 1 /\ NewIndex \in Nat /\ NewIndex > 0
         /\ NewIndex \notin DOMAIN mem_region
         /\ DOMAIN mem_region' = 0 .. NewIndex /\ NewIndex' = NewIndex + 1
         /\ DOMAIN mem_region' = DOMAIN mem_region \cup {NewIndex}
         /\ mem_region'[NewIndex] = Reached
         /\ \A k \in DOMAIN mem_region : mem_region'[k] = mem_region[k]
         /\ DOMAIN outs' = 0 .. NewIndex
         /\ outs'[NewIndex] = NoOuts
         /\ outs'[q] = [outs[q] EXCEPT ![char] = NewIndex]
         /\ \A k \in DOMAIN mem_region \ {q} : outs'[k] = outs[k]
  <1> DEFINE N == NewIndex
  <1>1. /\ DOMAIN mem_region = 0 .. N - 1 /\ N \in Nat /\ DOMAIN outs = 0 .. N - 1
        /\ q \in 0 .. N - 1
    BY DEF Inv, TypeOK, Progress, ToNewState
  <1>2. /\ mem_region' = [k \in DOMAIN mem_region \cup {N} |->
                            IF k = N THEN Reached ELSE mem_region[k]]
        /\ outs' = [k \in DOMAIN outs \cup {N} |->
                      IF k = N THEN NoOuts
                      ELSE IF k = q THEN [outs[q] EXCEPT ![char] = N]
                      ELSE outs[k]]
    BY DEF ToNewState
  <1>3. NewIndex' = Cardinality(DOMAIN mem_region')
    BY DEF NewIndex
  <1> HIDE DEF N
  <1>4. N \notin 0 .. N - 1 /\ (0 .. N - 1) \cup {N} = 0 .. N /\ N > 0
    BY <1>1
  <1>5. Cardinality(0 .. N) = N + 1
    <2>1. Cardinality(0 .. N) = IF 0 > N THEN 0 ELSE N - 0 + 1
      BY <1>1, FS_Interval
    <2> QED BY <1>1, <2>1
  <1>6. DOMAIN mem_region' = 0 .. N /\ DOMAIN outs' = 0 .. N
    BY <1>1, <1>2, <1>4
  <1>7. \A k \in DOMAIN mem_region : mem_region'[k] = mem_region[k]
    BY <1>1, <1>2, <1>4
  <1>8. mem_region'[N] = Reached /\ outs'[N] = NoOuts
    BY <1>2
  <1>9. /\ outs'[q] = [outs[q] EXCEPT ![char] = N]
        /\ \A k \in DOMAIN mem_region \ {q} : outs'[k] = outs[k]
    BY <1>1, <1>2, <1>4
  <1> QED BY <1>1, <1>3, <1>4, <1>5, <1>6, <1>7, <1>8, <1>9 DEF N

-----------------------------------------------------------------------------
(***************************************************************************)
(* The transitions of one state: those along the first upto characters are *)
(* there.                                                                  *)
(***************************************************************************)

RowExact(n, M, row, X, upto) ==
  \A i \in 1 .. Cardinality(n.alphabet) :
    LET t == Delta(n, X, Chars(n)[i])
    IN  IF i > upto \/ t = {} THEN row[i] = NULL
        ELSE row[i] # NULL /\ M[row[i]] = t

LEMMA RowsExact ==
  /\ TransitionsExact <=>
       \A k \in DOMAIN mem_region :
         RowExact(nfa, mem_region, outs[k], mem_region[k], Computed(k))
  /\ TransitionsExact' <=>
       \A k \in DOMAIN mem_region' :
         RowExact(nfa', mem_region', outs'[k], mem_region'[k], Computed(k)')
  <1>1. TransitionsExact <=>
          \A k \in DOMAIN mem_region :
            RowExact(nfa, mem_region, outs[k], mem_region[k], Computed(k))
    BY Renamed DEF TransitionsExact, RowExact
  <1>2. TransitionsExact' <=>
          \A k \in DOMAIN mem_region' :
            RowExact(nfa', mem_region', outs'[k], mem_region'[k], Computed(k)')
    BY RenamedNext DEF TransitionsExact, RowExact
  <1> QED BY <1>1, <1>2

LEMMA ComputedFacts ==
  ASSUME NEW k
  PROVE  /\ Computed(k) = IF Listed(worklist, k) THEN 0
                          ELSE IF pc = "outs" /\ k = q THEN char - 1 ELSE AlphabetSize
         /\ Computed(k)' = IF Listed(worklist', k) THEN 0
                           ELSE IF pc' = "outs" /\ k = q' THEN char' - 1 ELSE AlphabetSize'
  BY DEF Computed, Listed

\* More states elsewhere do not matter.
LEMMA RowStays ==
  ASSUME NEW n, NEW M, NEW L, DOMAIN M \subseteq DOMAIN L,
         \A k \in DOMAIN M : L[k] = M[k],
         NEW row \in [1 .. Cardinality(n.alphabet) -> DOMAIN M \cup {NULL}],
         NEW X, NEW upto, RowExact(n, M, row, X, upto)
  PROVE  RowExact(n, L, row, X, upto)
  BY DEF RowExact

\* d is where the character i leads from the states X.
LeadsTo(n, M, X, i, d) ==
  LET t == Delta(n, X, Chars(n)[i])
  IN  IF t = {} THEN d = NULL ELSE d # NULL /\ M[d] = t

\* The transition along the next character is entered.
LEMMA RowAdvances ==
  ASSUME NEW n, IsNFA(n), NEW M, NEW X, NEW i \in 1 .. Cardinality(n.alphabet),
         NEW row \in [1 .. Cardinality(n.alphabet) -> DOMAIN M \cup {NULL}],
         RowExact(n, M, row, X, i - 1),
         NEW d, LeadsTo(n, M, X, i, d)
  PROVE  /\ row[i] = NULL
         /\ RowExact(n, M, [row EXCEPT ![i] = d], X, i)
  <1> DEFINE W == Cardinality(n.alphabet)
             T(j) == Delta(n, X, Chars(n)[j])
             t == T(i)
             new == [row EXCEPT ![i] = d]
  <1>1. W \in Nat /\ i \in 1 .. W
    BY CharsFacts
  <1>0. IF t = {} THEN d = NULL ELSE d # NULL /\ M[d] = t
    BY DEF LeadsTo
  <1> HIDE DEF T, W
  <1>2. \A j \in 1 .. W : IF j > i - 1 \/ T(j) = {} THEN row[j] = NULL
                          ELSE row[j] # NULL /\ M[row[j]] = T(j)
    BY DEF RowExact, T, W
  <1>3. ASSUME NEW j \in 1 .. W
        PROVE  IF j > i \/ T(j) = {} THEN new[j] = NULL
               ELSE new[j] # NULL /\ M[new[j]] = T(j)
    <2>1. CASE j = i
      <3>1. new[j] = d /\ t = T(j) /\ ~ (j > i)
        BY <1>1, <2>1 DEF T, W
      <3> QED BY <1>0, <3>1
    <2>2. CASE j # i
      <3>1. new[j] = row[j] /\ (j > i <=> j > i - 1)
        BY <1>1, <2>2 DEF W
      <3> QED BY <1>2, <3>1
    <2> QED BY <2>1, <2>2
  <1>4. row[i] = NULL
    BY <1>1, <1>2
  <1> HIDE DEF new
  <1>5. RowExact(n, M, new, X, i)
    BY <1>3 DEF RowExact, T, W
  <1> QED BY <1>4, <1>5 DEF new

LEMMA SameNFA ==
  ASSUME nfa' = nfa
  PROVE  AlphabetSize' = AlphabetSize /\ Alphabet' = Alphabet
  BY Renamed, RenamedNext

-----------------------------------------------------------------------------
(***************************************************************************)
(* The steps that leave the states and their transitions alone.            *)
(***************************************************************************)

LEMMA StatesStay ==
  ASSUME Inv, UNCHANGED <<nfa, mem_region, outs, is_accept, accepts>>,
         pc # "start", pc' \in {"worklist", "outs", "tables", "done", "failed"},
         worklist' \in Seq(DOMAIN mem_region), NoneTwice(worklist'),
         q' \in DOMAIN mem_region \cup {NULL}, char' \in 0 .. AlphabetSize + 1,
         pc' = "outs" => /\ q' \in DOMAIN mem_region /\ ~ Listed(worklist', q')
                         /\ char' \in 1 .. AlphabetSize + 1,
         pc' \in {"tables", "done", "failed"} => worklist' = <<>>,
         \A k \in DOMAIN mem_region :
           RowExact(nfa, mem_region, outs[k], mem_region[k], Computed(k)'),
         Tabled'
  PROVE  Inv'
  <1>1. AlphabetSize' = AlphabetSize
    BY SameNFA
  <1>2. NewIndex' = NewIndex
    BY DEF NewIndex
  <1>3. TypeOK'
    BY <1>1, <1>2 DEF Inv, TypeOK
  <1>4. Progress'
    BY <1>1, <1>2 DEF Inv, Progress
  <1>5. StatesDistinct'
    BY DEF Inv, StatesDistinct, NoneTwice
  <1>6. StateSets' /\ AcceptsExact'
    BY DEF Inv, StateSets, AcceptsExact
  <1>7. TransitionsExact'
    BY RowsExact
  <1> QED BY <1>3, <1>4, <1>5, <1>6, <1>7 DEF Inv

LEMMA TakeStatePreserves == ASSUME Inv, TakeState PROVE Inv'
  <1> DEFINE S == DOMAIN mem_region
             h == Head(worklist)
  <1>1. /\ pc = "worklist" /\ worklist # <<>> /\ q' = h /\ char' = 1 /\ pc' = "outs"
        /\ worklist' = Tail(worklist) /\ UNCHANGED <<nfa, mem_region, outs, is_accept, accepts, dfa>>
    BY DEF TakeState
  <1>2. worklist \in Seq(S) /\ NoneTwice(worklist)
    BY DEF Inv, TypeOK, StatesDistinct, NoneTwice
  <1>3. /\ h \in S /\ Listed(worklist, h)
        /\ Tail(worklist) \in Seq(S) /\ NoneTwice(Tail(worklist))
        /\ \A k : Listed(Tail(worklist), k) <=> Listed(worklist, k) /\ k # h
    BY <1>1, <1>2, PoppedFacts
  <1>4. AlphabetSize' = AlphabetSize /\ AlphabetSize \in Nat
    BY <1>1, SameNFA, NFAFacts DEF Inv, TypeOK
  <1>5. char' \in 1 .. AlphabetSize + 1 /\ char' \in 0 .. AlphabetSize + 1
    BY <1>1, <1>4
  <1> HIDE DEF h
  <1>6. ASSUME NEW k \in S
        PROVE  RowExact(nfa, mem_region, outs[k], mem_region[k], Computed(k)')
    <2>1. Computed(k)' = Computed(k)
      BY <1>1, <1>3, <1>4, ComputedFacts
    <2> QED BY <2>1, RowsExact DEF Inv
  <1>7. Tabled'
    BY <1>1 DEF Tabled
  <1> QED BY <1>1, <1>3, <1>5, <1>6, <1>7, StatesStay

LEMMA NoTransitionPreserves == ASSUME Inv, NoTransition PROVE Inv'
  <1>1. /\ pc = "outs" /\ pc' = "outs" /\ char <= AlphabetSize /\ Reached = {}
        /\ char' = char + 1 /\ UNCHANGED <<nfa, mem_region, outs, is_accept, accepts, worklist, q, dfa>>
    BY DEF NoTransition
  <1>2. /\ IsNFA(nfa) /\ AlphabetSize = Cardinality(nfa.alphabet)
        /\ AlphabetSize' = AlphabetSize /\ AlphabetSize \in Nat
    BY <1>1, SameNFA, NFAFacts, Renamed DEF Inv, TypeOK
  <1>3. q \in DOMAIN mem_region /\ ~ Listed(worklist, q) /\ char \in 1 .. AlphabetSize
    BY <1>1, <1>2 DEF Inv, Progress
  <1>4. char + 1 \in 1 .. AlphabetSize + 1 /\ char + 1 \in 0 .. AlphabetSize + 1
        /\ char \in Int /\ (char + 1) - 1 = char
    BY <1>2, <1>3
  <1>5. ASSUME NEW k \in DOMAIN mem_region
        PROVE  RowExact(nfa, mem_region, outs[k], mem_region[k], Computed(k)')
    <2>1. RowExact(nfa, mem_region, outs[k], mem_region[k], Computed(k))
      BY RowsExact DEF Inv
    <2>2. CASE k # q
      <3>1. Computed(k)' = Computed(k)
        BY <1>1, <1>2, <2>2, ComputedFacts
      <3> QED BY <2>1, <3>1
    <2>3. CASE k = q
      <3>1. Computed(k) = char - 1 /\ Computed(k)' = char
        BY <1>1, <1>3, <1>4, <2>3, ComputedFacts
      <3>2. outs[q] \in [1 .. Cardinality(nfa.alphabet) -> DOMAIN mem_region \cup {NULL}]
        BY <1>2, <1>3 DEF Inv, TypeOK
      <3>3. LeadsTo(nfa, mem_region, mem_region[q], char, NULL)
        BY <1>1, Renamed DEF LeadsTo
      <3>4. char \in 1 .. Cardinality(nfa.alphabet)
        BY <1>2, <1>3
      <3>5. /\ outs[q][char] = NULL
            /\ RowExact(nfa, mem_region, [outs[q] EXCEPT ![char] = NULL], mem_region[q], char)
        BY <1>2, <2>1, <2>3, <3>1, <3>2, <3>3, <3>4, RowAdvances
      <3>6. [outs[q] EXCEPT ![char] = NULL] = outs[q]
        BY <3>2, <3>5
      <3> QED BY <2>3, <3>1, <3>5, <3>6
    <2> QED BY <2>2, <2>3
  <1>6. Tabled'
    BY <1>1 DEF Tabled
  <1>7. worklist \in Seq(DOMAIN mem_region) /\ NoneTwice(worklist)
    BY DEF Inv, TypeOK, StatesDistinct, NoneTwice
  <1> QED BY <1>1, <1>3, <1>4, <1>5, <1>6, <1>7, StatesStay

LEMMA StateDonePreserves == ASSUME Inv, StateDone PROVE Inv'
  <1>1. /\ pc = "outs" /\ pc' = "worklist" /\ char > AlphabetSize
        /\ UNCHANGED <<nfa, mem_region, outs, is_accept, accepts, worklist, q, char, dfa>>
    BY DEF StateDone
  <1>2. AlphabetSize' = AlphabetSize /\ AlphabetSize \in Nat
    BY <1>1, SameNFA, NFAFacts DEF Inv, TypeOK
  <1>3. char - 1 = AlphabetSize
    BY <1>1, <1>2 DEF Inv, Progress
  <1>4. ASSUME NEW k \in DOMAIN mem_region
        PROVE  RowExact(nfa, mem_region, outs[k], mem_region[k], Computed(k)')
    <2>1. Computed(k)' = Computed(k)
      BY <1>1, <1>2, <1>3, ComputedFacts
    <2> QED BY <2>1, RowsExact DEF Inv
  <1>5. Tabled'
    BY <1>1 DEF Tabled
  <1>6. /\ worklist \in Seq(DOMAIN mem_region) /\ NoneTwice(worklist)
        /\ q \in DOMAIN mem_region \cup {NULL} /\ char \in 0 .. AlphabetSize + 1
    BY DEF Inv, TypeOK, StatesDistinct, NoneTwice
  <1> QED BY <1>1, <1>4, <1>5, <1>6, StatesStay

\* The worklist is empty: nothing more is done to the states.
LEMMA LeavingPreserves ==
  ASSUME Inv, WorklistEmpty \/ FillTables \/ OutOfMemory
  PROVE  Inv'
  <1>1. /\ pc \in {"worklist", "tables"} /\ pc' \in {"tables", "done", "failed"}
        /\ worklist = <<>>
        /\ UNCHANGED <<nfa, mem_region, outs, is_accept, accepts, worklist, q, char>>
    BY DEF Inv, Progress, WorklistEmpty, FillTables, OutOfMemory
  <1>2. AlphabetSize' = AlphabetSize
    BY <1>1, SameNFA
  <1>3. ASSUME NEW k \in DOMAIN mem_region
        PROVE  RowExact(nfa, mem_region, outs[k], mem_region[k], Computed(k)')
    <2>1. Computed(k)' = Computed(k)
      BY <1>1, <1>2, ComputedFacts
    <2> QED BY <2>1, RowsExact DEF Inv
  <1>4. Tabled'
    <2>1. pc' = "done" => FillTables
      BY DEF WorklistEmpty, FillTables, OutOfMemory
    <2>2. NewIndex' = NewIndex
      BY <1>1 DEF NewIndex
    <2>3. ASSUME FillTables PROVE Tabled'
      BY <1>1, <1>2, <2>2, <2>3 DEF FillTables, Tabled
    <2>4. CASE pc' # "done"
      BY <2>4 DEF Tabled
    <2> QED BY <2>1, <2>3, <2>4
  <1>5. /\ worklist \in Seq(DOMAIN mem_region) /\ NoneTwice(worklist)
        /\ q \in DOMAIN mem_region \cup {NULL} /\ char \in 0 .. AlphabetSize + 1
    BY DEF Inv, TypeOK, StatesDistinct, NoneTwice
  <1> QED BY <1>1, <1>3, <1>4, <1>5, StatesStay

-----------------------------------------------------------------------------
(***************************************************************************)
(* The steps that add states and transitions.                              *)
(***************************************************************************)

LEMMA NoOutsFacts ==
  ASSUME NEW n, NEW M, NEW X, NEW S
  PROVE  /\ [i \in 1 .. Cardinality(n.alphabet) |-> NULL]
              \in [1 .. Cardinality(n.alphabet) -> S \cup {NULL}]
         /\ IsNFA(n) => RowExact(n, M, [i \in 1 .. Cardinality(n.alphabet) |-> NULL], X, 0)
  <1>1. IsNFA(n) => \A i \in 1 .. Cardinality(n.alphabet) : i > 0
    BY CharsFacts
  <1> QED BY <1>1 DEF RowExact

LEMMA CreateStartPreserves == ASSUME Inv, CreateStart PROVE Inv'
  <1> DEFINE q0 == EpsilonClosure(nfa, nfa.start)
  <1>1. /\ pc = "start" /\ pc' = "worklist" /\ UNCHANGED <<nfa, q, char, dfa>>
        /\ mem_region' = [k \in {0} |-> q0] /\ outs' = [k \in {0} |-> NoOuts]
        /\ accepts' = AcceptingIf(q0, 0) /\ is_accept' = AcceptingIf(q0, 0) /\ worklist' = <<0>>
    BY DEF CreateStart
  <1>2. /\ IsNFA(nfa) /\ DOMAIN nfa.states = nfa.mem_region
        /\ AlphabetSize \in Nat /\ AlphabetSize' = AlphabetSize
        /\ AlphabetSize = Cardinality(nfa.alphabet) /\ nfa \in NFAs
    BY <1>1, SameNFA, NFAFacts, Renamed DEF Inv, TypeOK
  <1>3. NewIndex = 0 /\ 0 .. 0 - 1 = {} /\ DOMAIN mem_region = {}
    BY <1>1 DEF Inv, TypeOK, Progress
  <1>4. IsStateSet(nfa, q0, 0)
    BY <1>2, StartFacts
  <1> HIDE DEF q0
  <1>5. DOMAIN mem_region' = {0} /\ mem_region'[0] = q0 /\ DOMAIN outs' = {0} /\ outs'[0] = NoOuts
    BY <1>1
  <1>6. NewIndex' = 1 /\ 0 .. 1 - 1 = {0}
    BY <1>5, FS_Singleton DEF NewIndex
  <1>7. NoOuts = [i \in 1 .. Cardinality(nfa.alphabet) |-> NULL]
    BY <1>2 DEF NoOuts
  <1>8. NoOuts \in [1 .. AlphabetSize -> {0} \cup {NULL}]
    BY <1>2, <1>7, NoOutsFacts
  <1>9. worklist' \in Seq({0}) /\ Len(worklist') = 1 /\ worklist'[1] = 0
    BY <1>1
  <1>10. accepts' \subseteq {0} /\ (0 \in accepts' <=> nfa.accept \in q0) /\ is_accept' = accepts'
    BY <1>1 DEF AcceptingIf
  <1>11. TypeOK'
    <2>1. q' \in DOMAIN mem_region' \cup {NULL} /\ char' \in 0 .. AlphabetSize' + 1
      BY <1>1, <1>2, <1>3 DEF Inv, TypeOK
    <2>2. nfa' \in NFAs /\ pc' \in {"start", "worklist", "outs", "tables", "done", "failed"}
      BY <1>1, <1>2
    <2>3. DOMAIN mem_region' = 0 .. NewIndex' - 1 /\ DOMAIN outs' = DOMAIN mem_region'
      BY <1>5, <1>6
    <2>4. ASSUME NEW k \in DOMAIN mem_region'
          PROVE  /\ mem_region'[k] \subseteq nfa'.mem_region
                 /\ outs'[k] \in [1 .. AlphabetSize' -> DOMAIN mem_region' \cup {NULL}]
      BY <1>1, <1>2, <1>4, <1>5, <1>8 DEF IsStateSet
    <2>5. /\ accepts' \subseteq DOMAIN mem_region' /\ is_accept' \subseteq DOMAIN mem_region'
          /\ worklist' \in Seq(DOMAIN mem_region')
      BY <1>5, <1>9, <1>10
    <2> QED BY <2>1, <2>2, <2>3, <2>4, <2>5 DEF TypeOK
  <1>12. Progress'
    BY <1>1, <1>6 DEF Progress
  <1>13. StatesDistinct'
    BY <1>5, <1>9 DEF StatesDistinct
  <1>14. StateSets' /\ AcceptsExact'
    BY <1>1, <1>4, <1>5, <1>10 DEF StateSets, AcceptsExact, q0
  <1>15. TransitionsExact'
    <2>1. Listed(worklist', 0)
      BY <1>9 DEF Listed
    <2>2. Computed(0)' = 0
      BY <2>1, ComputedFacts
    <2>3. RowExact(nfa, mem_region', NoOuts, q0, 0)
      BY <1>2, <1>7, NoOutsFacts
    <2> QED BY <1>1, <1>5, <2>2, <2>3, RowsExact
  <1>16. Tabled'
    BY <1>1 DEF Tabled
  <1> QED BY <1>11, <1>12, <1>13, <1>14, <1>15, <1>16 DEF Inv

LEMMA ToNewStatePreserves == ASSUME Inv, ToNewState PROVE Inv'
  <1> DEFINE N == NewIndex
             M == mem_region
             W == Cardinality(nfa.alphabet)
  <1>1. /\ pc = "outs" /\ pc' = "outs" /\ char <= AlphabetSize /\ char' = char + 1
        /\ Reached # {} /\ Found = {} /\ UNCHANGED <<nfa, q, dfa>>
        /\ accepts' = accepts \cup AcceptingIf(Reached, N)
        /\ is_accept' = is_accept \cup AcceptingIf(Reached, N)
        /\ worklist' = <<N>> \o worklist
    BY DEF ToNewState
  <1>2. /\ DOMAIN M = 0 .. N - 1 /\ N \in Nat /\ N > 0 /\ N \notin DOMAIN M
        /\ DOMAIN M' = 0 .. N /\ NewIndex' = N + 1 /\ DOMAIN M' = DOMAIN M \cup {N}
        /\ M'[N] = Reached /\ \A k \in DOMAIN M : M'[k] = M[k]
        /\ DOMAIN outs' = 0 .. N /\ outs'[N] = NoOuts
        /\ outs'[q] = [outs[q] EXCEPT ![char] = N]
        /\ \A k \in DOMAIN M \ {q} : outs'[k] = outs[k]
    BY NewStateFacts
  <1>3. /\ char \in 1 .. AlphabetSize /\ q \in DOMAIN M /\ Reached \subseteq nfa.mem_region
        /\ IsStateSet(nfa, Reached, N)
    BY <1>1, <1>2, ReachedFacts
  <1>4. /\ IsNFA(nfa) /\ nfa \in NFAs /\ AlphabetSize \in Nat /\ AlphabetSize = W
        /\ AlphabetSize' = AlphabetSize
    BY <1>1, SameNFA, NFAFacts, Renamed DEF Inv, TypeOK
  <1>5. /\ worklist \in Seq(DOMAIN M) /\ NoneTwice(worklist) /\ ~ Listed(worklist, q)
    BY <1>1 DEF Inv, TypeOK, StatesDistinct, NoneTwice, Progress
  <1>6. /\ worklist' \in Seq(DOMAIN M') /\ NoneTwice(worklist')
        /\ \A k : Listed(worklist', k) <=> k = N \/ Listed(worklist, k)
    <2> DEFINE D == DOMAIN M
               E == DOMAIN M'
               pushed == <<N>> \o worklist
    <2>1. D \subseteq E /\ N \in E /\ N \notin D /\ worklist \in Seq(D)
      BY <1>2, <1>5
    <2> HIDE DEF D, E
    <2>2. /\ pushed \in Seq(E) /\ NoneTwice(pushed)
          /\ \A k : Listed(pushed, k) <=> k = N \/ Listed(worklist, k)
      BY <1>5, <2>1, PushedFacts
    <2>3. worklist' = pushed
      BY <1>1
    <2> QED BY <2>2, <2>3 DEF E
  <1>7. ASSUME NEW k \in DOMAIN M
        PROVE  /\ outs[k] \in [1 .. W -> DOMAIN M \cup {NULL}]
               /\ outs'[k] \in [1 .. W -> DOMAIN M' \cup {NULL}]
               /\ M[k] \subseteq nfa.mem_region
    <2>1. outs[k] \in [1 .. W -> DOMAIN M \cup {NULL}] /\ M[k] \subseteq nfa.mem_region
      BY <1>4 DEF Inv, TypeOK
    <2>2. outs'[k] = outs[k] \/ outs'[k] = [outs[k] EXCEPT ![char] = N]
      BY <1>2
    <2> HIDE DEF M, W
    <2>3. outs'[k] \in [1 .. W -> DOMAIN M' \cup {NULL}]
      BY <1>2, <2>1, <2>2
    <2> QED BY <2>1, <2>3
  <1>8. NoOuts = [i \in 1 .. W |-> NULL]
    BY <1>4 DEF NoOuts
  <1>9. AcceptingIf(Reached, N) = IF nfa.accept \in Reached THEN {N} ELSE {}
    BY DEF AcceptingIf
  <1>10. char' \in 1 .. AlphabetSize + 1 /\ char' \in 0 .. AlphabetSize + 1 /\ char' - 1 = char
    BY <1>1, <1>3, <1>4
  <1>11. TypeOK'
    <2>1. nfa' \in NFAs /\ pc' \in {"start", "worklist", "outs", "tables", "done", "failed"}
      BY <1>1, <1>4
    <2>2. DOMAIN mem_region' = 0 .. NewIndex' - 1 /\ DOMAIN outs' = DOMAIN mem_region'
      BY <1>2
    <2>3. q' \in DOMAIN mem_region' \cup {NULL} /\ char' \in 0 .. AlphabetSize' + 1
      BY <1>1, <1>2, <1>3, <1>4, <1>10
    <2>4. ASSUME NEW k \in DOMAIN mem_region'
          PROVE  /\ mem_region'[k] \subseteq nfa'.mem_region
                 /\ outs'[k] \in [1 .. AlphabetSize' -> DOMAIN mem_region' \cup {NULL}]
      <3>1. CASE k = N
        <4>1. NoOuts \in [1 .. W -> DOMAIN M' \cup {NULL}]
          BY <1>8, NoOutsFacts
        <4> QED BY <1>1, <1>2, <1>3, <1>4, <3>1, <4>1
      <3>2. CASE k \in DOMAIN M
        BY <1>1, <1>2, <1>4, <1>7, <3>2
      <3> QED BY <1>2, <3>1, <3>2
    <2>5. accepts' \subseteq DOMAIN mem_region' /\ is_accept' \subseteq DOMAIN mem_region'
      BY <1>1, <1>2, <1>9 DEF Inv, TypeOK
    <2>6. worklist' \in Seq(DOMAIN mem_region')
      BY <1>6
    <2> QED BY <2>1, <2>2, <2>3, <2>4, <2>5, <2>6 DEF TypeOK
  <1>12. Progress'
    <2>1. NewIndex' \in Nat /\ NewIndex' # 0
      BY <1>2
    <2>2. q' \in DOMAIN mem_region' /\ ~ Listed(worklist', q')
      BY <1>1, <1>2, <1>3, <1>5, <1>6
    <2> QED BY <1>1, <1>4, <1>10, <2>1, <2>2 DEF Progress
  <1>13. StatesDistinct'
    <2>1. ASSUME NEW k \in DOMAIN M', NEW l \in DOMAIN M', k # l PROVE M'[k] # M'[l]
      <3>1. \A j \in DOMAIN M : M[j] # Reached
        BY <1>1 DEF Found
      <3>2. \A i, j \in DOMAIN M : i # j => M[i] # M[j]
        BY DEF Inv, StatesDistinct
      <3>3. k = N \/ k \in DOMAIN M
        BY <1>2
      <3>4. l = N \/ l \in DOMAIN M
        BY <1>2
      <3> HIDE DEF M, N
      <3> QED BY <1>2, <2>1, <3>1, <3>2, <3>3, <3>4
    <2> QED BY <1>6, <2>1 DEF StatesDistinct, NoneTwice
  <1>14. StateSets'
    <2>1. ASSUME NEW k \in DOMAIN M' PROVE IsStateSet(nfa, M'[k], k)
      <3>1. CASE k = N
        BY <1>2, <1>3, <3>1
      <3>2. CASE k \in DOMAIN M
        BY <1>2, <3>2 DEF Inv, StateSets
      <3> QED BY <1>2, <3>1, <3>2
    <2>2. M'[0] = M[0] /\ M[0] = EpsilonClosure(nfa, nfa.start)
      <3>1. 0 \in DOMAIN M
        BY <1>2
      <3> QED BY <1>1, <1>2, <3>1 DEF Inv, StateSets
    <2> QED BY <1>1, <2>1, <2>2 DEF StateSets
  <1>15. AcceptsExact'
    <2>1. accepts = {k \in DOMAIN M : nfa.accept \in M[k]} /\ is_accept = accepts
      BY DEF Inv, AcceptsExact
    <2>2. accepts' = {k \in DOMAIN M' : nfa.accept \in M'[k]}
      <3> HIDE DEF M, N
      <3> QED BY <1>1, <1>2, <1>9, <2>1
    <2> QED BY <1>1, <2>1, <2>2 DEF AcceptsExact
  <1>16. TransitionsExact'
    <2>1. ASSUME NEW k \in DOMAIN M'
          PROVE  RowExact(nfa, M', outs'[k], M'[k], Computed(k)')
      <3>1. CASE k = N
        <4>1. Computed(k)' = 0
          BY <1>6, <3>1, ComputedFacts
        <4>2. RowExact(nfa, M', NoOuts, Reached, 0)
          BY <1>4, <1>8, NoOutsFacts
        <4> QED BY <1>2, <3>1, <4>1, <4>2
      <3>2. CASE k \in DOMAIN M
        <4>1. RowExact(nfa, M, outs[k], M[k], Computed(k))
          BY <3>2, RowsExact DEF Inv
        <4>2. k # N
          BY <1>2, <3>2
        <4>3. RowExact(nfa, M', outs[k], M[k], Computed(k))
          <5>1. DOMAIN M \subseteq DOMAIN M' /\ outs[k] \in [1 .. W -> DOMAIN M \cup {NULL}]
            BY <1>2, <1>7, <3>2
          <5> HIDE DEF M
          <5> QED BY <1>2, <4>1, <5>1, RowStays
        <4>4. CASE k # q
          <5>1. Computed(k)' = Computed(k)
            BY <1>1, <1>4, <1>6, <4>2, <4>4, ComputedFacts
          <5> QED BY <1>2, <3>2, <4>3, <4>4, <5>1
        <4>5. CASE k = q
          <5>1. Computed(k) = char - 1 /\ Computed(k)' = char
            BY <1>1, <1>5, <1>6, <1>10, <4>2, <4>5, ComputedFacts
          <5>2. LeadsTo(nfa, M', M[q], char, N)
            <6>1. Reached = Delta(nfa, M[q], Chars(nfa)[char]) /\ N # NULL
              BY <1>2, Renamed DEF NULL
            <6> QED BY <1>1, <1>2, <6>1 DEF LeadsTo
          <5>3. outs[q] \in [1 .. W -> DOMAIN M' \cup {NULL}] /\ char \in 1 .. W
            <6>1. outs[q] \in [1 .. W -> DOMAIN M \cup {NULL}]
              BY <1>3, <1>7
            <6> HIDE DEF M, W
            <6> QED BY <1>2, <1>3, <1>4, <6>1
          <5>4. RowExact(nfa, M', outs[q], M[q], char - 1)
            BY <4>3, <4>5, <5>1
          <5> HIDE DEF M, N
          <5>5. RowExact(nfa, M', [outs[q] EXCEPT ![char] = N], M[q], char)
            BY <1>4, <5>2, <5>3, <5>4, RowAdvances
          <5> QED BY <1>2, <3>2, <4>5, <5>1, <5>5
        <4> QED BY <4>4, <4>5
      <3> QED BY <1>2, <3>1, <3>2
    <2> QED BY <1>1, <2>1, RowsExact
  <1>17. Tabled'
    BY <1>1 DEF Tabled
  <1> QED BY <1>11, <1>12, <1>13, <1>14, <1>15, <1>16, <1>17 DEF Inv

LEMMA ToKnownStatePreserves == ASSUME Inv, ToKnownState PROVE Inv'
  <1> DEFINE M == mem_region
             W == Cardinality(nfa.alphabet)
  <1>1. /\ pc = "outs" /\ pc' = "outs" /\ char <= AlphabetSize /\ char' = char + 1
        /\ Reached # {} /\ UNCHANGED <<nfa, mem_region, worklist, q, dfa>>
    BY DEF ToKnownState
  <1>2. PICK found \in Found :
          /\ outs' = [outs EXCEPT ![q][char] = found]
          /\ accepts' = accepts \cup AcceptingIf(mem_region[found], found)
          /\ is_accept' = is_accept \cup AcceptingIf(mem_region[found], found)
    BY DEF ToKnownState
  <1>3. found \in DOMAIN M /\ M[found] = Reached
    BY DEF Found
  <1>4. /\ char \in 1 .. AlphabetSize /\ q \in DOMAIN M
    BY <1>1, ReachedFacts
  <1>5. /\ IsNFA(nfa) /\ nfa \in NFAs /\ AlphabetSize \in Nat /\ AlphabetSize = W
        /\ AlphabetSize' = AlphabetSize
    BY <1>1, SameNFA, NFAFacts, Renamed DEF Inv, TypeOK
  <1>6. /\ worklist \in Seq(DOMAIN M) /\ NoneTwice(worklist) /\ ~ Listed(worklist, q)
        /\ DOMAIN M = 0 .. NewIndex - 1 /\ DOMAIN outs = DOMAIN M /\ NewIndex \in Nat
    BY <1>1 DEF Inv, TypeOK, StatesDistinct, NoneTwice, Progress
  <1>7. /\ DOMAIN outs' = DOMAIN M
        /\ outs'[q] = [outs[q] EXCEPT ![char] = found]
        /\ \A k \in DOMAIN M \ {q} : outs'[k] = outs[k]
    BY <1>2, <1>4, <1>6
  <1>8. ASSUME NEW k \in DOMAIN M
        PROVE  /\ outs[k] \in [1 .. W -> DOMAIN M \cup {NULL}]
               /\ outs'[k] \in [1 .. W -> DOMAIN M \cup {NULL}]
    <2>1. outs[k] \in [1 .. W -> DOMAIN M \cup {NULL}]
      BY <1>5 DEF Inv, TypeOK
    <2>2. outs'[k] = outs[k] \/ outs'[k] = [outs[k] EXCEPT ![char] = found]
      BY <1>7
    <2> HIDE DEF M, W
    <2> QED BY <1>3, <2>1, <2>2
  <1>9. accepts' = accepts /\ is_accept' = is_accept
    <2>1. is_accept = accepts /\ (nfa.accept \in M[found] => found \in accepts)
      BY <1>3 DEF Inv, AcceptsExact
    <2> QED BY <1>2, <2>1 DEF AcceptingIf
  <1>10. char' \in 1 .. AlphabetSize + 1 /\ char' \in 0 .. AlphabetSize + 1 /\ char' - 1 = char
    BY <1>1, <1>4, <1>5
  <1>11. NewIndex' = NewIndex
    BY <1>1 DEF NewIndex
  <1>12. TypeOK'
    BY <1>1, <1>5, <1>7, <1>8, <1>9, <1>10, <1>11 DEF Inv, TypeOK
  <1>13. Progress'
    BY <1>1, <1>4, <1>5, <1>6, <1>10, <1>11 DEF Inv, Progress
  <1>14. StatesDistinct' /\ StateSets' /\ AcceptsExact'
    BY <1>1, <1>9 DEF Inv, StatesDistinct, StateSets, AcceptsExact
  <1>15. TransitionsExact'
    <2>1. ASSUME NEW k \in DOMAIN M
          PROVE  RowExact(nfa, M, outs'[k], M[k], Computed(k)')
      <3>1. RowExact(nfa, M, outs[k], M[k], Computed(k))
        BY RowsExact DEF Inv
      <3>2. CASE k # q
        <4>1. Computed(k)' = Computed(k)
          BY <1>1, <1>5, <3>2, ComputedFacts
        <4> QED BY <1>7, <3>1, <3>2, <4>1
      <3>3. CASE k = q
        <4>1. Computed(k) = char - 1 /\ Computed(k)' = char
          BY <1>1, <1>6, <1>10, <3>3, ComputedFacts
        <4>2. LeadsTo(nfa, M, M[q], char, found)
          <5>1. Reached = Delta(nfa, M[q], Chars(nfa)[char]) /\ found # NULL
            BY <1>3, <1>6, Renamed DEF NULL
          <5> QED BY <1>1, <1>3, <5>1 DEF LeadsTo
        <4>3. outs[q] \in [1 .. W -> DOMAIN M \cup {NULL}] /\ char \in 1 .. W
          BY <1>4, <1>5, <1>8
        <4>4. RowExact(nfa, M, outs[q], M[q], char - 1)
          BY <3>1, <3>3, <4>1
        <4> HIDE DEF M
        <4>5. RowExact(nfa, M, [outs[q] EXCEPT ![char] = found], M[q], char)
          BY <1>5, <4>2, <4>3, <4>4, RowAdvances
        <4> QED BY <1>7, <3>3, <4>1, <4>5
      <3> QED BY <3>2, <3>3
    <2> QED BY <1>1, <2>1, RowsExact
  <1>16. Tabled'
    BY <1>1 DEF Tabled
  <1> QED BY <1>12, <1>13, <1>14, <1>15, <1>16 DEF Inv

LEMMA Unchanged == ASSUME Inv, UNCHANGED vars PROVE Inv'
  <1>1. /\ UNCHANGED <<nfa, mem_region, outs, is_accept, accepts, worklist, q, char, dfa, pc>>
        /\ AlphabetSize' = AlphabetSize /\ NewIndex' = NewIndex
    BY SameNFA DEF vars, NewIndex
  <1>2. TypeOK' /\ Progress'
    BY <1>1 DEF Inv, TypeOK, Progress
  <1>3. StatesDistinct' /\ StateSets' /\ AcceptsExact'
    BY <1>1 DEF Inv, StatesDistinct, StateSets, AcceptsExact
  <1>4. TransitionsExact'
    <2>1. ASSUME NEW k PROVE Computed(k)' = Computed(k)
      BY <1>1, ComputedFacts
    <2> QED BY <1>1, <2>1, RowsExact DEF Inv
  <1>5. Tabled'
    BY <1>1 DEF Inv, Tabled
  <1> QED BY <1>2, <1>3, <1>4, <1>5 DEF Inv

\* What Inv says holds at every step of the construction.
THEOREM Invariance == Spec => []Inv
  <1>1. Init => Inv
    BY Initially
  <1>2. Inv /\ [Next]_vars => Inv'
    <2> SUFFICES ASSUME Inv, [Next]_vars PROVE Inv'
      OBVIOUS
    <2>1. CASE CreateStart
      BY <2>1, CreateStartPreserves
    <2>2. CASE TakeState
      BY <2>2, TakeStatePreserves
    <2>3. CASE NoTransition
      BY <2>3, NoTransitionPreserves
    <2>4. CASE ToNewState
      BY <2>4, ToNewStatePreserves
    <2>5. CASE ToKnownState
      BY <2>5, ToKnownStatePreserves
    <2>6. CASE StateDone
      BY <2>6, StateDonePreserves
    <2>7. CASE WorklistEmpty \/ FillTables \/ OutOfMemory
      BY <2>7, LeavingPreserves
    <2>8. CASE Stopped \/ UNCHANGED vars
      BY <2>8, Unchanged DEF Stopped
    <2> QED
      BY <2>1, <2>2, <2>3, <2>4, <2>5, <2>6, <2>7, <2>8 DEF Next
  <1> QED BY <1>1, <1>2, PTL DEF Spec

-----------------------------------------------------------------------------
(***************************************************************************)
(* What is handed over: no set of DFA states traps the automaton, because  *)
(* the NFA states that they stand for would trap the NFA.                  *)
(***************************************************************************)

\* The states of a trap have a way out in the NFA, and it is one in the DFA.
LEMMA Trim ==
  ASSUME Inv, pc = "done"
  PROVE  /\ IsDFA(dfa) /\ IsTrim(dfa)
         /\ \A p \in StateOf(dfa), c \in SymbolOf(dfa) : dfa.delta[p][c] # 0
  <1> DEFINE M == mem_region
             N == NewIndex
             W == Cardinality(nfa.alphabet)
             D == DOMAIN nfa.states
             Cell(k, c) == IF outs[k][c + 1] = NULL THEN DEAD_STATE ELSE outs[k][c + 1]
  <1>1. /\ IsNFA(nfa) /\ IsThompson(nfa) /\ AlphabetSize = W /\ W \in Nat
        /\ D = nfa.mem_region /\ EPSILON \notin nfa.alphabet
        /\ Alphabet = Chars(nfa) /\ Chars(nfa) \in [1 .. W -> nfa.alphabet]
        /\ \A ch \in nfa.alphabet : \E i \in 1 .. W : Chars(nfa)[i] = ch
    BY NFAFacts, CharsFacts, Renamed DEF Inv, TypeOK
  <1>2. /\ DOMAIN M = 0 .. N - 1 /\ N \in Nat /\ N > 0 /\ worklist = <<>>
        /\ \A k \in DOMAIN M : /\ outs[k] \in [1 .. W -> DOMAIN M \cup {NULL}]
                               /\ IsStateSet(nfa, M[k], k)
        /\ accepts \subseteq DOMAIN M
    BY <1>1 DEF Inv, TypeOK, Progress, StateSets
  <1>3. /\ dfa.size = N /\ dfa.alphabet_size = W /\ dfa.accepts = accepts
        /\ dfa.delta = [k \in DOMAIN M |-> [c \in 0 .. W - 1 |-> Cell(k, c)]]
    BY <1>1 DEF Inv, Tabled
  <1>4. StateOf(dfa) = DOMAIN M /\ SymbolOf(dfa) = 0 .. W - 1
    BY <1>2, <1>3 DEF StateOf, SymbolOf
  <1>5. ASSUME NEW k \in DOMAIN M, NEW i \in 1 .. W
        PROVE  IF Delta(nfa, M[k], Chars(nfa)[i]) = {} THEN outs[k][i] = NULL
               ELSE outs[k][i] # NULL /\ M[outs[k][i]] = Delta(nfa, M[k], Chars(nfa)[i])
    <2>1. ~ Listed(worklist, k)
      BY <1>2 DEF Listed
    <2>2. Computed(k) = W
      BY <1>1, <2>1, ComputedFacts
    <2>3. RowExact(nfa, M, outs[k], M[k], W)
      BY <2>2, RowsExact DEF Inv
    <2>4. ~ (i > W)
      BY <1>1
    <2> HIDE DEF M
    <2> QED BY <2>3, <2>4 DEF RowExact
  <1>6. ASSUME NEW k \in DOMAIN M, NEW s \in M[k], nfa.states[s].ch # EPSILON
        PROVE  \E i \in 1 .. W :
                 /\ outs[k][i] \in DOMAIN M /\ outs[k][i] # NULL
                 /\ nfa.states[s].out1 \in M[outs[k][i]]
    <2>1. s \in D /\ M[k] \in SUBSET D
      BY <1>2 DEF IsStateSet
    <2>2. nfa.states[s].ch \in nfa.alphabet
      BY <1>1, <1>6, <2>1, ReadingStates
    <2>3. PICK i \in 1 .. W : Chars(nfa)[i] = nfa.states[s].ch
      BY <1>1, <2>2
    <2>4. nfa.states[s].out1 \in Delta(nfa, M[k], Chars(nfa)[i])
      BY <1>1, <1>6, <2>1, <2>3, DeltaFacts
    <2>5. outs[k][i] # NULL /\ M[outs[k][i]] = Delta(nfa, M[k], Chars(nfa)[i])
      BY <1>5, <2>4
    <2>6. outs[k][i] \in DOMAIN M
      BY <1>2, <2>5
    <2> QED BY <2>4, <2>5, <2>6
  <1>7. ASSUME NEW k \in DOMAIN M, NEW i \in 1 .. W, outs[k][i] # NULL
        PROVE  outs[k][i] # 0
    <2>1. M[k] \in SUBSET D /\ Chars(nfa)[i] # EPSILON
      BY <1>1, <1>2 DEF IsStateSet
    <2>2. nfa.start \notin Delta(nfa, M[k], Chars(nfa)[i])
      BY <1>1, <2>1, DeltaFacts
    <2>3. nfa.start \in M[0]
      <3>1. 0 \in DOMAIN M
        BY <1>2
      <3> QED BY <1>2, <3>1 DEF IsStateSet
    <2>4. M[outs[k][i]] = Delta(nfa, M[k], Chars(nfa)[i])
      BY <1>5, <1>7
    <2> QED BY <2>2, <2>3, <2>4
  <1>8. N >= 2
    <2>1. 0 \in DOMAIN M /\ M[0] = EpsilonClosure(nfa, nfa.start)
      BY <1>2 DEF Inv, StateSets
    <2>2. PICK s \in M[0] : nfa.states[s].ch # EPSILON
      BY <1>1, <2>1 DEF IsThompson
    <2>3. PICK i \in 1 .. W : outs[0][i] \in DOMAIN M /\ outs[0][i] # NULL
      BY <1>6, <2>1, <2>2
    <2>4. outs[0][i] # 0 /\ outs[0][i] \in 0 .. N - 1
      BY <1>2, <1>7, <2>1, <2>3
    <2> HIDE DEF N
    <2> QED BY <1>2, <2>4
  <1>9. \A c \in 0 .. W - 1 : c + 1 \in 1 .. W
    BY <1>1
  <1>10. ASSUME NEW k \in DOMAIN M, NEW c \in 0 .. W - 1
         PROVE  /\ dfa.delta[k][c] = Cell(k, c)
                /\ Cell(k, c) \in DOMAIN M \cup {DEAD_STATE}
                /\ Cell(k, c) # 0
    <2>1. dfa.delta[k][c] = Cell(k, c)
      BY <1>3
    <2>2. outs[k][c + 1] \in DOMAIN M \cup {NULL}
      BY <1>2, <1>9
    <2>3. outs[k][c + 1] # NULL => outs[k][c + 1] # 0
      BY <1>7, <1>9
    <2> QED BY <2>1, <2>2, <2>3 DEF DEAD_STATE
  <1>11. IsDFA(dfa)
    <2>1. dfa.delta \in [DOMAIN M -> [0 .. W - 1 -> DOMAIN M \cup {DEAD_STATE}]]
      <3> HIDE DEF Cell, M
      <3>1. \A k \in DOMAIN M : [c \in 0 .. W - 1 |-> Cell(k, c)]
                                  \in [0 .. W - 1 -> DOMAIN M \cup {DEAD_STATE}]
        BY <1>10
      <3> QED BY <1>3, <3>1
    <2>2. NodeOf(dfa) = DOMAIN M \cup {DEAD_STATE}
      BY <1>4 DEF NodeOf
    <2> QED BY <1>1, <1>2, <1>3, <1>4, <1>8, <2>1, <2>2 DEF IsDFA
  <1>12. IsTrim(dfa)
    <2> SUFFICES ASSUME NEW T \in SUBSET (StateOf(dfa) \ dfa.accepts), T # {}
                 PROVE  \E p \in T, c \in SymbolOf(dfa) : Out(dfa, p, c) \notin T \cup {DEAD_STATE}
      BY DEF IsTrim
    <2>1. T \subseteq DOMAIN M /\ T \cap accepts = {}
      BY <1>3, <1>4
    <2> DEFINE U == UNION {M[k] : k \in T}
    <2>2. U \in SUBSET D /\ U # {} /\ nfa.accept \notin U
      <3>1. \A k \in T : M[k] \subseteq D /\ M[k] # {}
        BY <1>2, <2>1 DEF IsStateSet
      <3>2. \A k \in T : nfa.accept \notin M[k]
        BY <2>1 DEF Inv, AcceptsExact
      <3> QED BY <3>1, <3>2
    <2>3. PICK s \in U : \E t \in Outs(nfa, s) : t \notin U
      BY <1>1, <2>2, Escape
    <2>4. PICK t \in Outs(nfa, s) : t \notin U
      BY <2>3
    <2>5. PICK k \in T : s \in M[k]
      OBVIOUS
    <2>6. nfa.states[s].ch # EPSILON
      <3> SUFFICES ASSUME nfa.states[s].ch = EPSILON PROVE FALSE
        OBVIOUS
      <3>1. EpsilonClosed(nfa, M[k])
        BY <1>2, <2>1 DEF IsStateSet
      <3>2. t \in M[k]
        BY <2>4, <2>5, <3>1 DEF EpsilonClosed, EpsilonOuts
      <3> QED BY <2>4, <3>2
    <2>7. t = nfa.states[s].out1
      <3>1. s \in D
        BY <2>2
      <3>2. Outs(nfa, s) = {nfa.states[s].out1}
        BY <1>1, <2>6, <3>1, ReadingStates
      <3> QED BY <3>2
    <2>8. PICK i \in 1 .. W : /\ outs[k][i] \in DOMAIN M /\ outs[k][i] # NULL
                              /\ nfa.states[s].out1 \in M[outs[k][i]]
      BY <1>6, <2>1, <2>5, <2>6
    <2>9. outs[k][i] \notin T
      BY <2>4, <2>7, <2>8
    <2>10. i - 1 \in 0 .. W - 1 /\ (i - 1) + 1 = i
      BY <1>1
    <2>11. Out(dfa, k, i - 1) = outs[k][i]
      <3>1. k # DEAD_STATE /\ k \in DOMAIN M
        BY <1>2, <2>1 DEF DEAD_STATE
      <3>2. dfa.delta[k][i - 1] = Cell(k, i - 1)
        BY <1>10, <2>10, <3>1
      <3>3. Cell(k, i - 1) = outs[k][i]
        BY <2>8, <2>10
      <3> QED BY <3>1, <3>2, <3>3 DEF Out
    <2>12. outs[k][i] # DEAD_STATE
      BY <1>2, <2>8 DEF DEAD_STATE
    <2> QED BY <1>4, <2>9, <2>10, <2>11, <2>12
  <1> QED BY <1>4, <1>10, <1>11, <1>12

-----------------------------------------------------------------------------
(***************************************************************************)
(* The language: the states of the NFA that reading a word leads to are    *)
(* those that the DFA state stands for that the word leads to.             *)
(***************************************************************************)

\* Configurations that follow one.
Moves(n, w, conf) ==
  IF n.states[conf[1]].ch = EPSILON THEN {<<t, conf[2]>> : t \in Outs(n, conf[1])}
  ELSE IF conf[2] < Len(w) /\ w[conf[2] + 1] = n.states[conf[1]].ch
  THEN {<<n.states[conf[1]].out1, conf[2] + 1>>}
  ELSE {}

Space(n, w) == (DOMAIN n.states) \X (0 .. Len(w))

MoveStep(n, w) ==
  [C \in SUBSET Space(n, w) |-> UNION {Moves(n, w, conf) : conf \in C}]

LEMMA MovesFacts ==
  ASSUME NEW n, IsNFA(n), IsThompson(n), NEW w, Len(w) \in Nat,
         NEW s \in DOMAIN n.states, NEW k \in 0 .. Len(w)
  PROVE  Moves(n, w, <<s, k>>) \subseteq Space(n, w)
  <1>1. CASE n.states[s].ch = EPSILON
    <2>1. Moves(n, w, <<s, k>>) = {<<t, k>> : t \in Outs(n, s)}
      BY <1>1 DEF Moves
    <2>2. Outs(n, s) \subseteq DOMAIN n.states
      BY OutsFacts
    <2> QED BY <2>1, <2>2 DEF Space
  <1>2. CASE n.states[s].ch # EPSILON
    <2>1. n.states[s].out1 \in DOMAIN n.states
      BY <1>2, ReadingStates
    <2>2. k < Len(w) => k + 1 \in 0 .. Len(w)
      OBVIOUS
    <2>3. \/ Moves(n, w, <<s, k>>) = {}
          \/ k < Len(w) /\ Moves(n, w, <<s, k>>) = {<<n.states[s].out1, k + 1>>}
      BY <1>2 DEF Moves
    <2> QED BY <2>1, <2>2, <2>3 DEF Space
  <1> QED BY <1>1, <1>2

LEMMA ConfigurationsAreLeast ==
  ASSUME NEW n, IsNFA(n), IsThompson(n), NEW w, Len(w) \in Nat
  PROVE  IsLeastClosed(Space(n, w), MoveStep(n, w), {<<n.start, 0>>}, Configurations(n, w))
  <1> DEFINE D == Space(n, w)
             step == MoveStep(n, w)
             Finds(f) == f = [C \in SUBSET ((DOMAIN n.states) \X (0 .. Len(w))) |->
                                LET more == C \cup UNION {Moves(n, w, conf) : conf \in C}
                                IN  IF more = C THEN C ELSE f[more]]
             found == CHOOSE f : Finds(f)
  <1>1. ASSUME NEW f PROVE Iterates(D, step, f) <=> Finds(f)
    BY DEF Iterates, MoveStep, Space
  <1>2. Monotone(D, step)
    <2>1. ASSUME NEW C \in SUBSET D, NEW conf \in C PROVE Moves(n, w, conf) \subseteq D
      <3>1. PICK s \in DOMAIN n.states, k \in 0 .. Len(w) : conf = <<s, k>>
        BY DEF Space
      <3> QED BY <3>1, MovesFacts
    <2>2. \A C \in SUBSET D : step[C] = UNION {Moves(n, w, conf) : conf \in C}
      BY DEF MoveStep
    <2>3. step \in [SUBSET D -> SUBSET D]
      <3>1. step = [C \in SUBSET D |-> step[C]]
        BY DEF MoveStep
      <3>2. ASSUME NEW C \in SUBSET D PROVE step[C] \in SUBSET D
        <4>1. \A conf \in C : Moves(n, w, conf) \subseteq D
          BY <2>1
        <4> HIDE DEF step, D
        <4> QED BY <2>2, <4>1
      <3> HIDE DEF step, D
      <3> QED BY <3>1, <3>2
    <2> HIDE DEF step, D
    <2> QED BY <2>2, <2>3 DEF Monotone
  <1>3. \E f : Finds(f)
    BY <1>1, <1>2, IterationExists
  <1>4. Configurations(n, w) = found[{<<n.start, 0>>}]
    BY DEF Configurations, Moves
  <1>5. Finds(found)
    <2> HIDE DEF Finds
    <2> QED BY <1>3
  <1>6. Iterates(D, step, found)
    BY <1>1, <1>5
  <1>7. IsFiniteSet(D) /\ {<<n.start, 0>>} \in SUBSET D
    <2>1. IsFiniteSet(DOMAIN n.states) /\ n.start \in DOMAIN n.states
      BY DEF IsNFA
    <2>2. IsFiniteSet(0 .. Len(w)) /\ 0 \in 0 .. Len(w)
      BY FS_Interval
    <2> QED BY <2>1, <2>2, FS_Product DEF Space
  <1> HIDE DEF found
  <1> QED BY <1>2, <1>4, <1>6, <1>7, IterationFinds

\* The sets of states that the subset construction goes through on a word.
AreLayers(n, w, M) ==
  /\ M \in [0 .. Len(w) -> SUBSET DOMAIN n.states]
  /\ M[0] = EpsilonClosure(n, n.start)
  /\ \A k \in 0 .. Len(w) - 1 : M[k + 1] = Delta(n, M[k], w[k + 1])

LEMMA LayersClosed ==
  ASSUME NEW n, IsNFA(n), IsThompson(n), NEW w, w \in Seq(n.alphabet),
         NEW M, AreLayers(n, w, M), NEW k \in 0 .. Len(w)
  PROVE  M[k] \subseteq DOMAIN n.states /\ EpsilonClosed(n, M[k])
  <1>1. M[k] \in SUBSET DOMAIN n.states
    BY DEF AreLayers
  <1>2. CASE k = 0
    <2>1. n.start \in DOMAIN n.states
      BY DEF IsNFA
    <2> QED BY <1>1, <1>2, <2>1, ClosureFacts DEF AreLayers
  <1>3. CASE k # 0
    <2>1. k - 1 \in 0 .. Len(w) - 1 /\ k - 1 \in 0 .. Len(w) /\ (k - 1) + 1 = k /\ k \in 1 .. Len(w)
      BY <1>3
    <2>2. w[k] \in n.alphabet /\ EPSILON \notin n.alphabet
      BY <2>1 DEF IsNFA
    <2>3. M[k] = Delta(n, M[k - 1], w[k]) /\ M[k - 1] \in SUBSET DOMAIN n.states
      BY <2>1 DEF AreLayers
    <2> QED BY <1>1, <2>2, <2>3, DeltaFacts
  <1> QED BY <1>2, <1>3

\* No configuration lies outside the layers.
LEMMA ConfigurationsInLayers ==
  ASSUME NEW n, IsNFA(n), IsThompson(n), NEW w, w \in Seq(n.alphabet),
         NEW M, AreLayers(n, w, M)
  PROVE  \A s, k : <<s, k>> \in Configurations(n, w) => s \in M[k]
  <1> DEFINE L == Len(w)
             Y == {conf \in Space(n, w) : conf[1] \in M[conf[2]]}
  <1>1. L \in Nat /\ EPSILON \notin n.alphabet /\ \A k \in 1 .. L : w[k] \in n.alphabet
    BY DEF IsNFA
  <1>2. Y \in SUBSET Space(n, w)
    OBVIOUS
  <1>3. {<<n.start, 0>>} \subseteq Y
    <2>1. n.start \in DOMAIN n.states
      BY DEF IsNFA
    <2>2. n.start \in M[0]
      BY <2>1, ClosureFacts DEF AreLayers
    <2> QED BY <1>1, <2>1, <2>2 DEF Space
  <1>4. ASSUME NEW s \in DOMAIN n.states, NEW k \in 0 .. L, s \in M[k]
        PROVE  Moves(n, w, <<s, k>>) \subseteq Y
    <2>1. Moves(n, w, <<s, k>>) \subseteq Space(n, w)
      BY <1>1, MovesFacts
    <2>2. CASE n.states[s].ch = EPSILON
      <3>1. Moves(n, w, <<s, k>>) = {<<t, k>> : t \in Outs(n, s)}
        BY <2>2 DEF Moves
      <3>2. EpsilonClosed(n, M[k])
        BY LayersClosed
      <3>3. Outs(n, s) \subseteq M[k]
        BY <1>4, <2>2, <3>2 DEF EpsilonClosed, EpsilonOuts
      <3> QED BY <2>1, <3>1, <3>3
    <2>3. CASE n.states[s].ch # EPSILON
      <3> SUFFICES ASSUME k < L, w[k + 1] = n.states[s].ch
                   PROVE  <<n.states[s].out1, k + 1>> \in Y
        BY <2>3 DEF Moves
      <3>1. k \in 0 .. L - 1 /\ k + 1 \in 1 .. L /\ k + 1 \in 0 .. L
        BY <1>1
      <3>2. M[k] \in SUBSET DOMAIN n.states /\ M[k + 1] = Delta(n, M[k], w[k + 1])
        BY <3>1 DEF AreLayers
      <3>3. w[k + 1] # EPSILON
        BY <1>1, <3>1
      <3>4. \A t \in M[k] : n.states[t].ch = w[k + 1] =>
                              n.states[t].out1 \in Delta(n, M[k], w[k + 1])
        BY <3>2, <3>3, DeltaFacts
      <3>5. n.states[s].out1 \in M[k + 1]
        BY <1>4, <3>2, <3>4
      <3>6. n.states[s].out1 \in DOMAIN n.states
        BY <2>3, ReadingStates
      <3> QED BY <3>1, <3>5, <3>6 DEF Space
    <2> QED BY <2>2, <2>3
  <1>5. MoveStep(n, w)[Y] \subseteq Y
    <2>1. MoveStep(n, w)[Y] = UNION {Moves(n, w, conf) : conf \in Y}
      BY <1>2 DEF MoveStep
    <2>2. ASSUME NEW conf \in Y PROVE Moves(n, w, conf) \subseteq Y
      <3>1. PICK s \in DOMAIN n.states, k \in 0 .. L : conf = <<s, k>>
        BY DEF Space
      <3>2. s \in M[k]
        BY <3>1
      <3> HIDE DEF Y
      <3> QED BY <1>4, <3>1, <3>2
    <2> HIDE DEF Y
    <2> QED BY <2>1, <2>2
  <1>6. Configurations(n, w) \subseteq Y
    <2>1. IsLeastClosed(Space(n, w), MoveStep(n, w), {<<n.start, 0>>}, Configurations(n, w))
      BY <1>1, ConfigurationsAreLeast
    <2> HIDE DEF Y
    <2> QED BY <1>2, <1>3, <1>5, <2>1 DEF IsLeastClosed
  <1> QED BY <1>6

\* Every state of a layer is in a configuration.
LEMMA LayersInConfigurations ==
  ASSUME NEW n, IsNFA(n), IsThompson(n), NEW w, w \in Seq(n.alphabet),
         NEW M, AreLayers(n, w, M)
  PROVE  \A k \in 0 .. Len(w) : \A s \in M[k] : <<s, k>> \in Configurations(n, w)
  <1> DEFINE L == Len(w)
             D == DOMAIN n.states
             C == Configurations(n, w)
             X(k) == {s \in D : <<s, k>> \in C}
             S == {k \in Nat : k <= L => M[k] \subseteq X(k)}
  <1>1. L \in Nat /\ n.start \in D
    BY DEF IsNFA
  <1>2. /\ C \in SUBSET Space(n, w) /\ <<n.start, 0>> \in C
        /\ MoveStep(n, w)[C] \subseteq C
    BY <1>1, ConfigurationsAreLeast DEF IsLeastClosed
  <1>3. \A conf \in C : Moves(n, w, conf) \subseteq C
    <2> HIDE DEF C
    <2> QED BY <1>2 DEF MoveStep
  <1> HIDE DEF C
  <1>4. ASSUME NEW k \in 0 .. L PROVE EpsilonClosed(n, X(k)) /\ X(k) \in SUBSET D
    <2>1. ASSUME NEW s \in X(k), n.states[s].ch = EPSILON, NEW t \in Outs(n, s)
          PROVE  t \in X(k)
      <3>1. <<t, k>> \in Moves(n, w, <<s, k>>)
        BY <2>1 DEF Moves
      <3>2. <<t, k>> \in C
        BY <1>3, <3>1
      <3>3. t \in D
        BY OutsFacts
      <3> QED BY <3>2, <3>3
    <2> HIDE DEF X
    <2>2. EpsilonClosed(n, X(k))
      BY <2>1 DEF EpsilonClosed, EpsilonOuts
    <2> QED BY <2>2 DEF X
  <1>5. ASSUME NEW k \in 0 .. L, NEW s \in X(k) PROVE EpsilonClosure(n, s) \subseteq X(k)
    <2>1. s \in D /\ X(k) \in SUBSET D /\ EpsilonClosed(n, X(k))
      BY <1>4
    <2> HIDE DEF X
    <2> QED BY <1>5, <2>1, ClosureFacts
  <1>6. 0 \in S
    <2>1. n.start \in X(0) /\ 0 \in 0 .. L
      BY <1>1, <1>2
    <2>2. M[0] \subseteq X(0)
      BY <1>5, <2>1 DEF AreLayers
    <2> QED BY <2>2
  <1>7. ASSUME NEW k \in Nat, k \in S PROVE k + 1 \in S
    <2> SUFFICES ASSUME k + 1 <= L PROVE M[k + 1] \subseteq X(k + 1)
      OBVIOUS
    <2>1. k \in 0 .. L - 1 /\ k \in 0 .. L /\ k + 1 \in 0 .. L /\ k < L /\ k + 1 \in 1 .. L
      BY <1>1
    <2>2. M[k] \subseteq X(k) /\ M[k] \subseteq D /\ w[k + 1] # EPSILON
      BY <1>7, <2>1 DEF AreLayers, IsNFA
    <2>3. M[k + 1] = UNION {EpsilonClosure(n, n.states[s].out1) :
                              s \in {t \in M[k] : n.states[t].ch = w[k + 1]}}
      BY <2>1 DEF AreLayers, Delta
    <2>4. ASSUME NEW s \in M[k], n.states[s].ch = w[k + 1]
          PROVE  EpsilonClosure(n, n.states[s].out1) \subseteq X(k + 1)
      <3>1. s \in D /\ <<s, k>> \in C /\ n.states[s].ch # EPSILON
        BY <2>2, <2>4
      <3>2. <<n.states[s].out1, k + 1>> \in Moves(n, w, <<s, k>>)
        BY <2>1, <2>4, <3>1 DEF Moves
      <3>3. n.states[s].out1 \in D
        BY <3>1, ReadingStates
      <3>4. n.states[s].out1 \in X(k + 1)
        BY <1>3, <3>1, <3>2, <3>3
      <3> QED BY <1>5, <2>1, <3>4
    <2> QED BY <2>3, <2>4
  <1>8. Nat \subseteq S
    <2> HIDE DEF S
    <2> QED BY <1>6, <1>7, InductiveSet
  <1>9. ASSUME NEW k \in 0 .. L, NEW s \in M[k] PROVE <<s, k>> \in C
    <2>1. k \in Nat /\ k <= L
      BY <1>1
    <2> QED BY <1>8, <2>1
  <1> QED BY <1>9 DEF C

\* The states that a DFA goes through, started at 0, on the symbols of sym.
Goes(d, L, sym, at) ==
  at = [k \in 0 .. L |-> IF k = 0 THEN 0 ELSE Out(d, at[k - 1], sym[k])]

LEMMA PathExists ==
  ASSUME NEW d, IsDFA(d), NEW L \in Nat, NEW sym \in [1 .. L -> SymbolOf(d)]
  PROVE  \E at : Goes(d, L, sym, at)
  <1> DEFINE W == NodeOf(d)
             step == [k \in Nat |-> [g \in [0 .. k - 1 -> W] |->
                        IF k \in 1 .. L THEN Out(d, g[k - 1], sym[k]) ELSE 0]]
  <1>1. 0 \in W
    BY DEF IsDFA, NodeOf, StateOf
  <1>2. ASSUME NEW p \in W, NEW c \in SymbolOf(d) PROVE Out(d, p, c) \in W
    BY DEF IsDFA, NodeOf, Out
  <1>3. ComputesFrom(W, step)
    <2> SUFFICES ASSUME NEW k \in Nat, NEW g \in [0 .. k - 1 -> W]
                 PROVE  (IF k \in 1 .. L THEN Out(d, g[k - 1], sym[k]) ELSE 0) \in W
      BY DEF ComputesFrom
    <2>1. CASE k \in 1 .. L
      <3>1. g[k - 1] \in W /\ sym[k] \in SymbolOf(d)
        BY <2>1
      <3> QED BY <1>2, <2>1, <3>1
    <2> QED BY <1>1, <2>1
  <1> HIDE DEF W
  <1>4. PICK f \in [Nat -> W] : \A k \in Nat : f[k] = step[k][Upto(f, k)]
    <2> HIDE DEF step
    <2> QED BY <1>3, RecursionExists
  <1>5. ASSUME NEW k \in Nat
        PROVE  f[k] = IF k \in 1 .. L THEN Out(d, f[k - 1], sym[k]) ELSE 0
    <2>1. Upto(f, k) \in [0 .. k - 1 -> W]
      BY DEF Upto
    <2>2. f[k] = IF k \in 1 .. L THEN Out(d, Upto(f, k)[k - 1], sym[k]) ELSE 0
      BY <1>4, <2>1
    <2>3. k \in 1 .. L => Upto(f, k)[k - 1] = f[k - 1]
      BY DEF Upto
    <2> QED BY <2>2, <2>3
  <1> DEFINE at == [k \in 0 .. L |-> f[k]]
  <1>6. ASSUME NEW k \in 0 .. L
        PROVE  at[k] = IF k = 0 THEN 0 ELSE Out(d, at[k - 1], sym[k])
    <2>1. k \in Nat /\ (k \in 1 .. L <=> k # 0) /\ (k # 0 => k - 1 \in 0 .. L)
      OBVIOUS
    <2> QED BY <1>5, <2>1
  <1>7. at = [k \in 0 .. L |-> at[k]]
    OBVIOUS
  <1> HIDE DEF at
  <1>8. Goes(d, L, sym, at)
    BY <1>6, <1>7 DEF Goes
  <1> QED BY <1>8

IsPath(d, L, sym, at) ==
  /\ at[0] = 0
  /\ \A k \in 0 .. L : at[k] \in NodeOf(d)
  /\ \A k \in 0 .. L - 1 : at[k + 1] = Out(d, at[k], sym[k + 1])

LEMMA PathStays ==
  ASSUME NEW d, IsDFA(d), NEW L \in Nat, NEW sym \in [1 .. L -> SymbolOf(d)],
         NEW at, Goes(d, L, sym, at)
  PROVE  IsPath(d, L, sym, at)
  <1> DEFINE S == {k \in Nat : k <= L => at[k] \in NodeOf(d)}
  <1>1. at[0] = 0
    BY DEF Goes
  <1>2. ASSUME NEW k \in 0 .. L - 1 PROVE at[k + 1] = Out(d, at[k], sym[k + 1])
    <2>1. k + 1 \in 0 .. L /\ k + 1 # 0 /\ (k + 1) - 1 = k
      OBVIOUS
    <2>2. at[k + 1] = IF k + 1 = 0 THEN 0 ELSE Out(d, at[(k + 1) - 1], sym[k + 1])
      BY <2>1 DEF Goes
    <2> QED BY <2>1, <2>2
  <1>3. 0 \in S
    BY <1>1 DEF IsDFA, NodeOf, StateOf
  <1>4. ASSUME NEW k \in Nat, k \in S PROVE k + 1 \in S
    <2> SUFFICES ASSUME k + 1 <= L PROVE at[k + 1] \in NodeOf(d)
      OBVIOUS
    <2>1. k \in 0 .. L - 1 /\ k + 1 \in 1 .. L
      OBVIOUS
    <2>2. at[k] \in NodeOf(d) /\ sym[k + 1] \in SymbolOf(d)
      BY <1>4, <2>1
    <2>3. Out(d, at[k], sym[k + 1]) \in NodeOf(d)
      BY <2>2 DEF IsDFA, NodeOf, Out
    <2> QED BY <1>2, <2>1, <2>3
  <1>5. Nat \subseteq S
    <2> HIDE DEF S
    <2> QED BY <1>3, <1>4, InductiveSet
  <1>6. \A k \in 0 .. L : at[k] \in NodeOf(d)
    BY <1>5
  <1> QED BY <1>1, <1>2, <1>6 DEF IsPath

\* The tables of the finished DFA, in terms of the sets of NFA states.
LEMMA Finished ==
  ASSUME Inv, pc = "done"
  PROVE  /\ IsNFA(nfa) /\ IsThompson(nfa) /\ IsDFA(dfa)
         /\ StateOf(dfa) = DOMAIN mem_region /\ DEAD_STATE \notin DOMAIN mem_region
         /\ SymbolOf(dfa) = 0 .. Cardinality(nfa.alphabet) - 1
         /\ 0 \in DOMAIN mem_region /\ mem_region[0] = EpsilonClosure(nfa, nfa.start)
         /\ \A k \in DOMAIN mem_region : mem_region[k] \subseteq DOMAIN nfa.states
         /\ dfa.accepts = {k \in DOMAIN mem_region : nfa.accept \in mem_region[k]}
         /\ \A k \in DOMAIN mem_region, c \in SymbolOf(dfa) :
              LET t == Delta(nfa, mem_region[k], Chars(nfa)[c + 1])
              IN  IF t = {} THEN Out(dfa, k, c) = DEAD_STATE
                  ELSE /\ Out(dfa, k, c) \in DOMAIN mem_region
                       /\ mem_region[Out(dfa, k, c)] = t
  <1> DEFINE M == mem_region
             N == NewIndex
             W == Cardinality(nfa.alphabet)
  <1>1. /\ IsNFA(nfa) /\ IsThompson(nfa) /\ IsDFA(dfa) /\ AlphabetSize = W /\ W \in Nat
    BY NFAFacts, CharsFacts, Renamed, Trim DEF Inv, TypeOK
  <1>2. /\ DOMAIN M = 0 .. N - 1 /\ N \in Nat /\ N > 0 /\ worklist = <<>>
        /\ \A k \in DOMAIN M : /\ outs[k] \in [1 .. W -> DOMAIN M \cup {NULL}]
                               /\ IsStateSet(nfa, M[k], k)
        /\ M[0] = EpsilonClosure(nfa, nfa.start)
    BY <1>1 DEF Inv, TypeOK, Progress, StateSets
  <1>3. /\ dfa.size = N /\ dfa.alphabet_size = W
        /\ dfa.accepts = {k \in DOMAIN M : nfa.accept \in M[k]}
        /\ dfa.delta = [k \in DOMAIN M |-> [c \in 0 .. W - 1 |->
                          IF outs[k][c + 1] = NULL THEN DEAD_STATE ELSE outs[k][c + 1]]]
    BY <1>1 DEF Inv, Tabled, AcceptsExact
  <1>4. StateOf(dfa) = DOMAIN M /\ SymbolOf(dfa) = 0 .. W - 1
        /\ DEAD_STATE \notin DOMAIN M /\ 0 \in DOMAIN M
    BY <1>2, <1>3 DEF StateOf, SymbolOf, DEAD_STATE
  <1>5. ASSUME NEW k \in DOMAIN M, NEW c \in 0 .. W - 1
        PROVE  LET t == Delta(nfa, M[k], Chars(nfa)[c + 1])
               IN  IF t = {} THEN Out(dfa, k, c) = DEAD_STATE
                   ELSE Out(dfa, k, c) \in DOMAIN M /\ M[Out(dfa, k, c)] = t
    <2>1. ~ Listed(worklist, k) /\ c + 1 \in 1 .. W /\ ~ (c + 1 > W)
      BY <1>1, <1>2 DEF Listed
    <2>2. Computed(k) = W
      BY <1>1, <2>1, ComputedFacts
    <2>3. RowExact(nfa, M, outs[k], M[k], W)
      BY <2>2, RowsExact DEF Inv
    <2>4. LET t == Delta(nfa, M[k], Chars(nfa)[c + 1])
          IN  IF t = {} THEN outs[k][c + 1] = NULL
              ELSE outs[k][c + 1] # NULL /\ M[outs[k][c + 1]] = t
      <3> HIDE DEF M
      <3> QED BY <2>1, <2>3 DEF RowExact
    <2>5. dfa.delta[k][c] = IF outs[k][c + 1] = NULL THEN DEAD_STATE ELSE outs[k][c + 1]
      BY <1>3
    <2>6. Out(dfa, k, c) = dfa.delta[k][c]
      BY <1>4 DEF Out
    <2>7. outs[k][c + 1] \in DOMAIN M \cup {NULL}
      BY <1>2, <2>1
    <2> HIDE DEF M
    <2> QED BY <2>4, <2>5, <2>6, <2>7
  <1> QED BY <1>1, <1>2, <1>3, <1>4, <1>5 DEF IsStateSet

\* After any word over the alphabet the DFA is in an accepting state exactly if
\* the NFA may be in its accept state.
LEMMA SameOnWord ==
  ASSUME Inv, pc = "done", NEW w, w \in Seq(nfa.alphabet)
  PROVE  Accepts(dfa, Run(w)) <=> AcceptsWord(nfa, w)
  <1> DEFINE L == Len(w)
             W == Cardinality(nfa.alphabet)
             Symbol(k) == CHOOSE c \in SymbolOf(dfa) : Alphabet[c + 1] = w[k]
             sym == [k \in 1 .. L |-> Symbol(k)]
             Finds(at) == at = [k \in 0 .. L |->
                                  IF k = 0 THEN 0 ELSE Out(dfa, at[k - 1], Symbol(k))]
             found == CHOOSE at : Finds(at)
  <1>1. /\ IsNFA(nfa) /\ IsThompson(nfa) /\ IsDFA(dfa) /\ L \in Nat
        /\ StateOf(dfa) = DOMAIN mem_region /\ SymbolOf(dfa) = 0 .. W - 1
        /\ DEAD_STATE \notin DOMAIN mem_region
        /\ \A k \in DOMAIN mem_region : mem_region[k] \subseteq DOMAIN nfa.states
        /\ dfa.accepts = {k \in DOMAIN mem_region : nfa.accept \in mem_region[k]}
    BY Finished
  <1>2. W \in Nat /\ Alphabet = Chars(nfa)
        /\ \A ch \in nfa.alphabet : \E i \in 1 .. W : Chars(nfa)[i] = ch
    BY <1>1, CharsFacts, Renamed
  <1>3. ASSUME NEW k \in 1 .. L PROVE Symbol(k) \in SymbolOf(dfa) /\ Chars(nfa)[Symbol(k) + 1] = w[k]
    <2>1. w[k] \in nfa.alphabet
      OBVIOUS
    <2>2. PICK i \in 1 .. W : Chars(nfa)[i] = w[k]
      BY <1>2, <2>1
    <2>3. i - 1 \in 0 .. W - 1 /\ (i - 1) + 1 = i
      BY <1>2
    <2>4. \E c \in SymbolOf(dfa) : Alphabet[c + 1] = w[k]
      BY <1>1, <1>2, <2>2, <2>3
    <2> QED BY <1>2, <2>4
  <1> HIDE DEF Symbol
  <1>4. sym \in [1 .. L -> SymbolOf(dfa)] /\ \A k \in 1 .. L : sym[k] = Symbol(k)
    BY <1>3
  <1> HIDE DEF sym
  <1>5. ASSUME NEW at PROVE Finds(at) <=> Goes(dfa, L, sym, at)
    <2>1. \A k \in 0 .. L : k # 0 => k \in 1 .. L
      BY <1>1
    <2> QED BY <1>4, <2>1 DEF Goes
  <1>6. \E at : Finds(at)
    <2> HIDE DEF Finds
    <2> QED BY <1>1, <1>4, <1>5, PathExists
  <1>7. Goes(dfa, L, sym, found)
    <2> HIDE DEF Finds
    <2> QED BY <1>5, <1>6
  <1>8. Run(w) = found[L]
    BY DEF Run, Symbol
  <1> HIDE DEF found
  <1>9. /\ found[0] = 0
        /\ \A k \in 0 .. L : found[k] \in DOMAIN mem_region \cup {DEAD_STATE}
        /\ \A k \in 0 .. L - 1 : found[k + 1] = Out(dfa, found[k], sym[k + 1])
    <2> HIDE DEF L
    <2>1. IsPath(dfa, L, sym, found)
      BY <1>1, <1>4, <1>7, PathStays
    <2>2. NodeOf(dfa) = DOMAIN mem_region \cup {DEAD_STATE}
      BY <1>1 DEF NodeOf
    <2> QED BY <2>1, <2>2 DEF IsPath
  <1> DEFINE Layer(k) == IF found[k] = DEAD_STATE THEN {} ELSE mem_region[found[k]]
             M == [k \in 0 .. L |-> Layer(k)]
  <1>10. ASSUME NEW k \in 0 .. L - 1
         PROVE  Layer(k + 1) = Delta(nfa, Layer(k), w[k + 1])
    <2>1. k \in 0 .. L /\ k + 1 \in 1 .. L
      BY <1>1
    <2>2. found[k + 1] = Out(dfa, found[k], sym[k + 1])
      BY <1>9
    <2>3. sym[k + 1] \in SymbolOf(dfa) /\ Chars(nfa)[sym[k + 1] + 1] = w[k + 1]
      BY <1>3, <1>4, <2>1
    <2>4. CASE found[k] = DEAD_STATE
      <3>1. Delta(nfa, {}, w[k + 1]) = {}
        BY DEF Delta
      <3> QED BY <2>2, <2>4, <3>1 DEF Out
    <2>5. CASE found[k] # DEAD_STATE
      <3>1. found[k] \in DOMAIN mem_region
        BY <1>9, <2>1, <2>5
      <3> DEFINE t == Delta(nfa, mem_region[found[k]], Chars(nfa)[sym[k + 1] + 1])
                 p == found[k]
                 c == sym[k + 1]
      <3>2. IF t = {} THEN found[k + 1] = DEAD_STATE
            ELSE found[k + 1] \in DOMAIN mem_region /\ mem_region[found[k + 1]] = t
        <4>1. p \in DOMAIN mem_region /\ c \in SymbolOf(dfa)
          BY <2>3, <3>1
        <4>2. found[k + 1] = Out(dfa, p, c)
          BY <2>2
        <4>3. t = Delta(nfa, mem_region[p], Chars(nfa)[c + 1])
          OBVIOUS
        <4> HIDE DEF p, c, t
        <4>4. IF Delta(nfa, mem_region[p], Chars(nfa)[c + 1]) = {} THEN Out(dfa, p, c) = DEAD_STATE
              ELSE /\ Out(dfa, p, c) \in DOMAIN mem_region
                   /\ mem_region[Out(dfa, p, c)] = Delta(nfa, mem_region[p], Chars(nfa)[c + 1])
          BY <4>1, Finished
        <4> QED BY <4>2, <4>3, <4>4
      <3>3. t = Delta(nfa, Layer(k), w[k + 1])
        BY <2>3, <2>5
      <3> HIDE DEF t
      <3> QED BY <1>1, <3>2, <3>3
    <2> QED BY <2>4, <2>5
  <1>11. AreLayers(nfa, w, M)
    <2>1. M \in [0 .. L -> SUBSET DOMAIN nfa.states]
      BY <1>1, <1>9
    <2>2. M[0] = EpsilonClosure(nfa, nfa.start)
      <3>1. 0 \in 0 .. L /\ 0 # DEAD_STATE
        BY <1>1 DEF DEAD_STATE
      <3> QED BY <1>9, <3>1, Finished
    <2>3. ASSUME NEW k \in 0 .. L - 1 PROVE M[k + 1] = Delta(nfa, M[k], w[k + 1])
      <3>1. k \in 0 .. L /\ k + 1 \in 0 .. L
        BY <1>1
      <3>2. M[k] = Layer(k) /\ M[k + 1] = Layer(k + 1)
        BY <3>1
      <3> HIDE DEF Layer
      <3> QED BY <1>10, <3>2
    <2> HIDE DEF M
    <2> QED BY <2>1, <2>2, <2>3 DEF AreLayers
  <1>12. L \in 0 .. L
    BY <1>1
  <1>13. AcceptsWord(nfa, w) <=> nfa.accept \in M[L]
    <2> HIDE DEF M
    <2> QED BY <1>1, <1>11, <1>12, ConfigurationsInLayers, LayersInConfigurations DEF AcceptsWord
  <1>14. Accepts(dfa, Run(w)) <=> nfa.accept \in M[L]
    BY <1>1, <1>8, <1>9, <1>12 DEF Accepts
  <1> QED BY <1>13, <1>14

\* The automaton loses no character that a state of the NFA reads.
LEMMA Equivalent ==
  ASSUME Inv PROVE SameLanguage
  <1> SUFFICES ASSUME pc = "done", NEW w \in WordsUpTo(ReadCharacters, WordBound)
               PROVE  (ToSet(w) \subseteq nfa.alphabet /\ Accepts(dfa, Run(w))) <=> AcceptsWord(nfa, w)
    BY DEF SameLanguage
  <1>1. IsNFA(nfa)
    BY Finished
  <1>2. ReadCharacters \subseteq nfa.alphabet
    <2>1. \A s \in DOMAIN nfa.states : nfa.states[s] \in NFAState(nfa)
      BY <1>1, OutsFacts
    <2> QED BY <2>1 DEF ReadCharacters, NFAState
  <1>3. PICK k \in 0 .. WordBound : w \in [1 .. k -> ReadCharacters]
    BY DEF WordsUpTo
  <1>4. k \in Nat
    BY WordBoundAssumption
  <1>5. w \in [1 .. k -> nfa.alphabet]
    BY <1>2, <1>3
  <1>6. w \in Seq(nfa.alphabet)
    BY <1>4, <1>5, SeqDef
  <1>7. ToSet(w) \subseteq nfa.alphabet
    BY <1>5 DEF ToSet
  <1> QED BY <1>6, <1>7, SameOnWord

-----------------------------------------------------------------------------
(***************************************************************************)
(* The graph: following its lines goes through the same sets of NFA states *)
(* as the construction did.                                                *)
(***************************************************************************)

LEMMA CharsDistinct ==
  ASSUME NEW n, IsNFA(n)
  PROVE  \A i, j \in 1 .. Cardinality(n.alphabet) : Chars(n)[i] = Chars(n)[j] => i = j
  <1> DEFINE S == n.alphabet
             c == Cardinality(S)
             chars == CHOOSE f \in [1 .. c -> S] : Increasing(f, c)
  <1>1. S \in SUBSET Nat /\ IsFiniteSet(S) /\ c \in Nat
    BY FS_CardinalityType DEF IsNFA
  <1>2. chars \in [1 .. c -> S] /\ Increasing(chars, c)
    <2>1. \E f \in [1 .. c -> S] : Increasing(f, c)
      BY <1>1, IncreasingExists
    <2> QED BY <2>1
  <1>3. Chars(n) = chars
    BY DEF Chars, Increasing
  <1> HIDE DEF chars
  <1>4. ASSUME NEW i \in 1 .. c, NEW j \in 1 .. c, i < j PROVE chars[i] # chars[j]
    <2>1. chars[i] < chars[j] /\ chars[i] \in Nat /\ chars[j] \in Nat
      BY <1>1, <1>2, <1>4 DEF Increasing
    <2> QED BY <2>1
  <1>5. ASSUME NEW i \in 1 .. c, NEW j \in 1 .. c, chars[i] = chars[j] PROVE i = j
    <2>1. i \in Int /\ j \in Int /\ ~ i < j /\ ~ j < i
      BY <1>4, <1>5
    <2> QED BY <2>1
  <1> QED BY <1>3, <1>5

\* The rows of the finished DFA.
LEMMA FinishedRows ==
  ASSUME Inv, pc = "done", NEW k \in DOMAIN mem_region,
         NEW i \in 1 .. Cardinality(nfa.alphabet)
  PROVE  /\ LeadsTo(nfa, mem_region, mem_region[k], i, outs[k][i])
         /\ outs[k][i] \in DOMAIN mem_region \cup {NULL}
  <1> DEFINE W == Cardinality(nfa.alphabet)
  <1>1. IsNFA(nfa) /\ AlphabetSize = W /\ W \in Nat /\ worklist = <<>>
    BY NFAFacts, CharsFacts, Renamed DEF Inv, TypeOK, Progress
  <1>2. outs[k] \in [1 .. W -> DOMAIN mem_region \cup {NULL}]
    BY <1>1 DEF Inv, TypeOK
  <1>3. Computed(k) = W
    <2>1. ~ Listed(worklist, k)
      BY <1>1 DEF Listed
    <2> QED BY <1>1, <2>1, ComputedFacts
  <1>4. RowExact(nfa, mem_region, outs[k], mem_region[k], W)
    BY <1>3, RowsExact DEF Inv
  <1>5. ~ i > W
    BY <1>1
  <1> QED BY <1>2, <1>4, <1>5 DEF RowExact, LeadsTo

\* Where the lines T lead from the states X on the character ch.
Along(T, X, ch) == {line[3] : line \in {t \in T : t[1] \in X /\ t[2] = ch}}

LEMMA LinesLead ==
  ASSUME Inv, pc = "done", NEW k \in DOMAIN mem_region,
         NEW i \in 1 .. Cardinality(nfa.alphabet)
  PROVE  Along(TransitionLines, {k}, Chars(nfa)[i]) = {outs[k][i]} \ {NULL}
  <1> DEFINE W == Cardinality(nfa.alphabet)
             Line(t) == <<t[1], Chars(nfa)[t[2]], outs[t[1]][t[2]]>>
             cell == <<k, i>>
  <1>1. IsNFA(nfa) /\ AlphabetSize = W /\ Alphabet = Chars(nfa)
    BY Finished, Renamed
  <1>2. TransitionLines = {Line(t) : t \in Transitions}
    BY <1>1 DEF TransitionLines
  <1>3. \A t \in Transitions :
          /\ t[1] \in DOMAIN mem_region /\ t[2] \in 1 .. W /\ outs[t[1]][t[2]] # NULL
          /\ t = <<t[1], t[2]>>
    BY <1>1 DEF Transitions
  <1>4. \A t : /\ Line(t)[1] = t[1] /\ Line(t)[2] = Chars(nfa)[t[2]]
               /\ Line(t)[3] = outs[t[1]][t[2]]
    OBVIOUS
  <1>5. cell[1] = k /\ cell[2] = i /\ cell \in (DOMAIN mem_region) \X (1 .. W)
    OBVIOUS
  <1>6. cell \in Transitions <=> outs[k][i] # NULL
    BY <1>1, <1>5 DEF Transitions
  <1> HIDE DEF Line, cell
  <1>7. ASSUME NEW t \in Transitions, Line(t)[1] = k, Line(t)[2] = Chars(nfa)[i]
        PROVE  Line(t)[3] = outs[k][i] /\ outs[k][i] # NULL
    <2>1. t[1] = k /\ Chars(nfa)[t[2]] = Chars(nfa)[i] /\ t[2] \in 1 .. W
      BY <1>3, <1>4, <1>7
    <2>2. t[2] = i
      BY <1>1, <2>1, CharsDistinct
    <2> QED BY <1>3, <1>4, <2>1, <2>2
  <1>8. ASSUME outs[k][i] # NULL
        PROVE  /\ cell \in Transitions /\ Line(cell)[1] = k
               /\ Line(cell)[2] = Chars(nfa)[i] /\ Line(cell)[3] = outs[k][i]
    BY <1>4, <1>5, <1>6, <1>8
  <1> QED BY <1>2, <1>7, <1>8 DEF Along

\* Whether following the lines ends in an accepting state.
LEMMA FollowedWord ==
  ASSUME Inv, pc = "done", NEW w, w \in Seq(nfa.alphabet)
  PROVE  (Follow(GenDFAGraphviz, w) \cap accepts # {}) <=> AcceptsWord(nfa, w)
  <1> DEFINE L == Len(w)
             T == TransitionLines
             P == DOMAIN mem_region
             Finds(at) == at = [k \in 0 .. L |->
                                  IF k = 0 THEN {0} ELSE Along(T, at[k - 1], w[k])]
             found == CHOOSE at : Finds(at)
  <1>1. /\ IsNFA(nfa) /\ IsThompson(nfa) /\ L \in Nat /\ 0 \in P
        /\ mem_region[0] = EpsilonClosure(nfa, nfa.start)
        /\ \A k \in P : mem_region[k] \subseteq DOMAIN nfa.states
        /\ accepts = {k \in P : nfa.accept \in mem_region[k]}
    BY Finished DEF Inv, AcceptsExact
  <1>2. Follow(GenDFAGraphviz, w) = found[L]
    BY DEF Follow, GenDFAGraphviz, Along
  <1>3. ASSUME NEW k \in P, NEW ch \in nfa.alphabet
        PROVE  LET t == Delta(nfa, mem_region[k], ch)
               IN  IF t = {} THEN Along(T, {k}, ch) = {}
                   ELSE \E p \in P : Along(T, {k}, ch) = {p} /\ mem_region[p] = t
    <2> DEFINE t == Delta(nfa, mem_region[k], ch)
    <2>1. PICK i \in 1 .. Cardinality(nfa.alphabet) : Chars(nfa)[i] = ch
      BY <1>1, CharsFacts
    <2>2. /\ LeadsTo(nfa, mem_region, mem_region[k], i, outs[k][i])
          /\ outs[k][i] \in P \cup {NULL}
      BY FinishedRows
    <2>3. Along(T, {k}, ch) = {outs[k][i]} \ {NULL}
      BY <2>1, LinesLead
    <2>4. IF t = {} THEN outs[k][i] = NULL ELSE outs[k][i] # NULL /\ mem_region[outs[k][i]] = t
      BY <2>1, <2>2 DEF LeadsTo
    <2> HIDE DEF t, T, P
    <2>5. IF t = {} THEN Along(T, {k}, ch) = {}
          ELSE \E p \in P : Along(T, {k}, ch) = {p} /\ mem_region[p] = t
      BY <2>2, <2>3, <2>4
    <2> QED BY <2>5 DEF t
  <1>4. \A ch : Along(T, {}, ch) = {}
    BY DEF Along
  <1> DEFINE W == {{}} \cup {{k} : k \in P}
  <1>5. ASSUME NEW X \in W, NEW ch \in nfa.alphabet PROVE Along(T, X, ch) \in W
    <2>1. CASE X = {}
      BY <1>4, <2>1
    <2>2. ASSUME NEW k \in P, X = {k} PROVE Along(T, X, ch) \in W
      BY <1>3, <2>2
    <2> QED BY <2>1, <2>2
  <1>6. \A k \in 1 .. L : w[k] \in nfa.alphabet
    OBVIOUS
  <1> HIDE DEF T, P, W
  <1>7. \E at \in [0 .. L -> W] : Finds(at)
    <2> DEFINE next == [k \in 0 .. L |-> [X \in W |->
                          IF k = 0 THEN {0} ELSE Along(T, X, w[k])]]
    <2>1. {0} \in W /\ 0 \in Int /\ L \in Int
      BY <1>1 DEF W
    <2>2. next \in [0 .. L -> [W -> W]]
      <3>1. ASSUME NEW k \in 0 .. L, NEW X \in W
            PROVE  (IF k = 0 THEN {0} ELSE Along(T, X, w[k])) \in W
        BY <1>1, <1>5, <1>6, <2>1
      <3> QED BY <3>1
    <2>3. \A k \in 0 .. L, X \in W : k # 0 => next[k][X] = Along(T, X, w[k])
      OBVIOUS
    <2> HIDE DEF next
    <2>4. PICK f \in [0 .. L -> W] : Counts(0, L, {0}, next, f)
      BY <2>1, <2>2, CountingExists
    <2>5. ASSUME NEW k \in 0 .. L
          PROVE  f[k] = IF k = 0 THEN {0} ELSE Along(T, f[k - 1], w[k])
      <3>1. f[k] = IF k = 0 THEN {0} ELSE next[k][f[k - 1]]
        BY <2>4 DEF Counts
      <3>2. k # 0 => k - 1 \in 0 .. L
        BY <1>1
      <3>3. k # 0 => f[k - 1] \in W
        BY <2>4, <3>2
      <3> QED BY <2>3, <3>1, <3>3
    <2>6. Finds(f)
      BY <2>4, <2>5
    <2> QED BY <2>4, <2>6
  <1>8. Finds(found)
    <2> HIDE DEF Finds
    <2> QED BY <1>7
  <1>9. /\ found[0] = {0}
        /\ \A k \in 0 .. L - 1 : found[k + 1] = Along(T, found[k], w[k + 1])
    <2> HIDE DEF found
    <2>1. 0 \in 0 .. L /\ \A k \in 0 .. L - 1 : k + 1 \in 0 .. L /\ k + 1 # 0 /\ (k + 1) - 1 = k
      BY <1>1
    <2>2. \A k \in 0 .. L : found[k] = IF k = 0 THEN {0} ELSE Along(T, found[k - 1], w[k])
      BY <1>8
    <2>3. ASSUME NEW k \in 0 .. L - 1 PROVE found[k + 1] = Along(T, found[k], w[k + 1])
      <3>1. found[k + 1] = IF k + 1 = 0 THEN {0} ELSE Along(T, found[(k + 1) - 1], w[k + 1])
        BY <2>1, <2>2
      <3> QED BY <2>1, <3>1
    <2> QED BY <2>1, <2>2, <2>3
  <1> HIDE DEF found, Finds
  <1>10. \A k \in 0 .. L : found[k] \in W
    <2> DEFINE S == {k \in Nat : k <= L => found[k] \in W}
    <2>1. 0 \in S
      BY <1>1, <1>9 DEF W
    <2>2. ASSUME NEW k \in Nat, k \in S PROVE k + 1 \in S
      <3> SUFFICES ASSUME k + 1 <= L PROVE found[k + 1] \in W
        OBVIOUS
      <3>1. k \in 0 .. L - 1 /\ k + 1 \in 1 .. L /\ found[k] \in W
        BY <1>1, <2>2
      <3> QED BY <1>5, <1>6, <1>9, <3>1
    <2>3. Nat \subseteq S
      <3> HIDE DEF S
      <3> QED BY <2>1, <2>2, InductiveSet
    <2> QED BY <1>1, <2>3
  <1> DEFINE Layer(X) == UNION {mem_region[k] : k \in X}
             M == [k \in 0 .. L |-> Layer(found[k])]
  <1>11. ASSUME NEW X \in W, NEW ch \in nfa.alphabet
         PROVE  Layer(Along(T, X, ch)) = Delta(nfa, Layer(X), ch)
    <2>1. Layer({}) = {} /\ \A k : Layer({k}) = mem_region[k]
      OBVIOUS
    <2>2. Delta(nfa, {}, ch) = {}
      BY DEF Delta
    <2> HIDE DEF Layer
    <2>3. CASE X = {}
      BY <1>4, <2>1, <2>2, <2>3
    <2>4. ASSUME NEW k \in P, X = {k}
          PROVE  Layer(Along(T, X, ch)) = Delta(nfa, Layer(X), ch)
      <3>1. Layer(X) = mem_region[k]
        BY <2>1, <2>4
      <3> QED BY <1>3, <2>1, <2>4, <3>1
    <2> QED BY <2>3, <2>4 DEF W
  <1>12. ASSUME NEW X \in W
         PROVE  /\ Layer(X) \subseteq DOMAIN nfa.states
                /\ (X \cap accepts # {} <=> nfa.accept \in Layer(X))
    BY <1>1 DEF W, P
  <1>13. Layer({0}) = mem_region[0]
    OBVIOUS
  <1> HIDE DEF Layer
  <1>14. AreLayers(nfa, w, M)
    <2>1. M \in [0 .. L -> SUBSET DOMAIN nfa.states]
      BY <1>10, <1>12
    <2>2. M[0] = EpsilonClosure(nfa, nfa.start)
      <3>1. 0 \in 0 .. L
        BY <1>1
      <3>2. M[0] = Layer(found[0])
        BY <3>1
      <3> QED BY <1>1, <1>9, <1>13, <3>2
    <2>3. ASSUME NEW k \in 0 .. L - 1 PROVE M[k + 1] = Delta(nfa, M[k], w[k + 1])
      <3>1. k \in 0 .. L /\ k + 1 \in 0 .. L /\ k + 1 \in 1 .. L
        BY <1>1
      <3>2. M[k] = Layer(found[k]) /\ M[k + 1] = Layer(found[k + 1])
        BY <3>1
      <3>3. found[k] \in W /\ w[k + 1] \in nfa.alphabet
        BY <1>6, <1>10, <3>1
      <3> QED BY <1>9, <1>11, <3>2, <3>3
    <2> HIDE DEF M
    <2> QED BY <2>1, <2>2, <2>3 DEF AreLayers
  <1>15. L \in 0 .. L /\ M[L] = Layer(found[L])
    BY <1>1
  <1>16. AcceptsWord(nfa, w) <=> nfa.accept \in M[L]
    <2> HIDE DEF M
    <2> QED BY <1>1, <1>14, <1>15, ConfigurationsInLayers, LayersInConfigurations DEF AcceptsWord
  <1> QED BY <1>2, <1>10, <1>12, <1>15, <1>16

\* Every state is drawn, and none twice.
LEMMA NodesDrawn ==
  ASSUME Inv, pc = "done"
  PROVE  LET graph == GenDFAGraphviz
         IN  /\ Cardinality(graph.accepting) + Cardinality(graph.normal) = dfa.size
             /\ {node.nfastates : node \in graph.accepting \cup graph.normal} =
                  {mem_region[k] : k \in DOMAIN mem_region}
             /\ {node.index : node \in graph.accepting} = accepts
  <1> DEFINE Nodes(X) == {Node(k) : k \in X}
             P == DOMAIN mem_region
  <1>1. /\ accepts \subseteq P /\ P = accepts \cup NormalStates /\ accepts \cap NormalStates = {}
        /\ dfa.size = Cardinality(P) /\ IsFiniteSet(P)
    <2>1. accepts \subseteq P /\ P = 0 .. NewIndex - 1 /\ NewIndex \in Nat
      BY DEF Inv, TypeOK, Progress
    <2>2. dfa.size = NewIndex
      BY DEF Inv, Tabled
    <2>3. IsFiniteSet(0 .. NewIndex - 1)
      BY <2>1, FS_Interval
    <2>4. is_accept = accepts
      BY DEF Inv, AcceptsExact
    <2> QED BY <2>1, <2>2, <2>3, <2>4 DEF NormalStates, NewIndex
  <1>2. GenDFAGraphviz.accepting = Nodes(accepts) /\ GenDFAGraphviz.normal = Nodes(NormalStates)
    BY DEF GenDFAGraphviz
  <1>3. \A k : Node(k).index = k /\ Node(k).nfastates = mem_region[k]
    BY DEF Node
  <1>4. ASSUME NEW X, IsFiniteSet(X) PROVE Cardinality(Nodes(X)) = Cardinality(X)
    <2> DEFINE f == [k \in X |-> Node(k)]
    <2>1. f \in Surjection(X, Nodes(X))
      BY DEF Surjection
    <2>2. f \in Injection(X, Nodes(X))
      <3>1. ASSUME NEW k \in X, NEW l \in X, f[k] = f[l] PROVE k = l
        <4>1. Node(k) = Node(l)
          BY <3>1
        <4> QED BY <1>3, <4>1
      <3>2. f \in [X -> Nodes(X)]
        OBVIOUS
      <3> HIDE DEF f, Nodes
      <3> QED BY <3>1, <3>2 DEF Injection, IsInjective
    <2> HIDE DEF f, Nodes
    <2> QED BY <1>4, <2>1, <2>2, FS_Surjection
  <1>5. {node.index : node \in Nodes(accepts)} = accepts
    BY <1>3
  <1>6. {node.nfastates : node \in Nodes(accepts) \cup Nodes(NormalStates)} = {mem_region[k] : k \in P}
    BY <1>1, <1>3
  <1>7. IsFiniteSet(accepts) /\ IsFiniteSet(NormalStates)
    BY <1>1, FS_Subset
  <1> HIDE DEF Nodes, P
  <1>8. Cardinality(accepts) + Cardinality(NormalStates) = Cardinality(P)
    <2>1. Cardinality(accepts \cup NormalStates) =
            Cardinality(accepts) + Cardinality(NormalStates) - Cardinality(accepts \cap NormalStates)
      BY <1>7, FS_Union
    <2>2. Cardinality(accepts \cap NormalStates) = 0
      BY <1>1, FS_EmptySet
    <2>3. Cardinality(accepts) \in Nat /\ Cardinality(NormalStates) \in Nat
      BY <1>7, FS_CardinalityType
    <2> QED BY <1>1, <2>1, <2>2, <2>3
  <1> QED BY <1>1, <1>2, <1>4, <1>5, <1>6, <1>7, <1>8 DEF P

LEMMA Drawn ==
  ASSUME Inv PROVE GraphShowsDFA
  <1> SUFFICES ASSUME pc = "done", NEW w \in WordsUpTo(nfa.alphabet, WordBound)
               PROVE  (Follow(GenDFAGraphviz, w) \cap accepts # {}) <=> AcceptsWord(nfa, w)
    BY NodesDrawn DEF GraphShowsDFA
  <1>1. PICK k \in 0 .. WordBound : w \in [1 .. k -> nfa.alphabet]
    BY DEF WordsUpTo
  <1>2. k \in Nat
    BY WordBoundAssumption
  <1>3. w \in Seq(nfa.alphabet)
    BY <1>1, <1>2, SeqDef
  <1> QED BY <1>3, FollowedWord

-----------------------------------------------------------------------------
(***************************************************************************)
(* The properties.                                                         *)
(***************************************************************************)

\* DFA states are sets of states of the NFA, their transitions and the worklist
\* refer to DFA states that exist.
THEOREM TypeOKHolds == Spec => []TypeOK
  <1>1. Inv => TypeOK
    BY DEF Inv
  <1> QED BY <1>1, Invariance, PTL

\* subset() never makes a second DFA state of the same NFA states, nor lists one
\* twice, although the sets it keeps them in would not notice.
THEOREM StatesDistinctHolds == Spec => []StatesDistinct
  <1>1. Inv => StatesDistinct
    BY DEF Inv
  <1> QED BY <1>1, Invariance, PTL

\* A state that has left the worklist has all its transitions, and each leads to
\* the set of NFA states that is reached, whatever was found and when.
THEOREM TransitionsExactHolds == Spec => []TransitionsExact
  <1>1. Inv => TransitionsExact
    BY DEF Inv
  <1> QED BY <1>1, Invariance, PTL

\* What convert_nfa_to_dfa() hands to minimize() for an NFA of Thompson's
\* constructions is what minimize() relies on: an automaton of two states or more,
\* with some word accepted from each and the start never entered again.
THEOREM HandsOverDFAHolds == Spec => []HandsOverDFA
  <1>1. Inv => HandsOverDFA
    BY Trim DEF HandsOverDFA
  <1> QED BY <1>1, Invariance, PTL

\* The DFA accepts exactly the words that the NFA accepts, as the comment of
\* subset() says, and its alphabet has every character that these are made of.
\* WordBound, which may be any number, is the only bound on them.
THEOREM SameLanguageHolds == Spec => []SameLanguage
  <1>1. Inv => SameLanguage
    BY Equivalent
  <1> QED BY <1>1, Invariance, PTL

\* The graph that gen_dfa_graphviz() draws has every state once, with the NFA
\* states it stands for, and following its lines decides which words the NFA
\* accepts: the set accepts, of which it draws the accepting states, and the flags
\* is_accept, by which it tells the others, agree.
THEOREM GraphShowsDFAHolds == Spec => []GraphShowsDFA
  <1>1. Inv => GraphShowsDFA
    BY Drawn
  <1> QED BY <1>1, Invariance, PTL

=============================================================================
