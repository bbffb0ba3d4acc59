--------------------------- MODULE SortedSetProofs ---------------------------
(***************************************************************************)
(* Proofs about the lists of set.c, for any handles, elements and bound on *)
(* the nodes: that they stay well linked, and that they implement sets.    *)
(*                                                                         *)
(* Nodes(s) follows the next pointers, by recursion.  The proofs know the  *)
(* nodes of a set as a sequence, its path, and say of it without recursion *)
(* what a list is (IsList).  That following the pointers gives the path    *)
(* (WalkIsPath) is the only proof by induction.                            *)
(***************************************************************************)
EXTENDS SortedSet, NumberFacts, SequenceTheorems, TLAPS

-----------------------------------------------------------------------------
(* Paths.                                                                  *)

\* p is the list from head on in the heap h.
IsPath(h, head, p) ==
  /\ p \in Seq(DOMAIN h)
  /\ head = IF p = <<>> THEN NULL ELSE p[1]
  /\ \A k \in 1 .. Len(p) :
       h[p[k]].next = IF k = Len(p) THEN NULL ELSE p[k + 1]
  /\ \A j, k \in 1 .. Len(p) : p[j] = p[k] => j = k

\* A family of lists that do not meet and make up the heap.
ArePaths(h, S, heads, path) ==
  /\ \A s \in S : IsPath(h, heads[s], path[s])
  /\ \A s, t \in S : \A j \in 1 .. Len(path[s]), k \in 1 .. Len(path[t]) :
       path[s][j] = path[t][k] => s = t
  /\ \A n \in DOMAIN h : \E s \in S : \E k \in 1 .. Len(path[s]) : n = path[s][k]

\* from of Nodes(s)
Walk(h) ==
  CHOOSE f : f = [it \in DOMAIN h \cup {NULL} |->
                    IF it = NULL THEN <<>> ELSE <<it>> \o f[h[it].next]]

LEMMA NodesAreWalked == \A s : Nodes(s) = Walk(heap)[sets[s].head]
  BY DEF Nodes, Walk, SetBegin, AdvanceIter

\* What comes after the node k of a path.
From(p, k) == SubSeq(p, k, Len(p))

LEMMA WalkIsPath ==
  ASSUME NEW h, NULL \notin DOMAIN h, NEW S, NEW heads, NEW path,
         ArePaths(h, S, heads, path)
  PROVE  \A s \in S : Walk(h)[heads[s]] = path[s]
  <1> DEFINE D == DOMAIN h \cup {NULL}
             Solves(f) == f = [it \in D |->
                                 IF it = NULL THEN <<>> ELSE <<it>> \o f[h[it].next]]
             of == [n \in DOMAIN h |->
                      CHOOSE s \in S : \E k \in 1 .. Len(path[s]) : n = path[s][k]]
             at == [n \in DOMAIN h |->
                      CHOOSE k \in 1 .. Len(path[of[n]]) : n = path[of[n]][k]]
             g == [it \in D |-> IF it = NULL THEN <<>> ELSE From(path[of[it]], at[it])]
  <1>1. ASSUME NEW s \in S
        PROVE  /\ path[s] \in Seq(DOMAIN h) /\ Len(path[s]) \in Nat
               /\ \A k \in 1 .. Len(path[s]) : path[s][k] \in DOMAIN h
    BY DEF ArePaths, IsPath
  <1>2. ASSUME NEW s \in S, NEW k \in 1 .. Len(path[s])
        PROVE  of[path[s][k]] = s /\ at[path[s][k]] = k
    <2> DEFINE n == path[s][k]
    <2>1. n \in DOMAIN h
      BY <1>1
    <2>2. of[n] \in S /\ \E j \in 1 .. Len(path[of[n]]) : n = path[of[n]][j]
      BY <2>1
    <2>3. of[n] = s
      <3> HIDE DEF of
      <3> QED
        BY <2>2 DEF ArePaths
    <2> HIDE DEF of
    <2>4. at[n] \in 1 .. Len(path[of[n]]) /\ n = path[of[n]][at[n]]
      BY <2>1, <2>2
    <2> HIDE DEF at
    <2>5. at[n] = k
      BY <2>3, <2>4 DEF ArePaths, IsPath
    <2> QED
      BY <2>3, <2>5
  <1> HIDE DEF of, at
  <1>3. ASSUME NEW s \in S, NEW k \in 1 .. Len(path[s])
        PROVE  g[path[s][k]] = From(path[s], k)
    <2> DEFINE n == path[s][k]
    <2>1. n \in D /\ n # NULL
      BY <1>1
    <2>2. of[n] = s /\ at[n] = k
      BY <1>2
    <2> HIDE DEF n
    <2>3. g[n] = From(path[of[n]], at[n])
      BY <2>1
    <2> QED
      BY <2>2, <2>3 DEF n
  <1>4. ASSUME NEW s \in S, NEW k \in 1 .. Len(path[s])
        PROVE  /\ k = Len(path[s]) => h[path[s][k]].next = NULL
               /\ k # Len(path[s]) => h[path[s][k]].next = path[s][k + 1]
               /\ k = Len(path[s]) => From(path[s], k) = <<path[s][k]>> \o <<>>
               /\ k # Len(path[s]) => From(path[s], k) = <<path[s][k]>> \o From(path[s], k + 1)
    <2>1. From(path[s], k) = <<path[s][k]>> \o SubSeq(path[s], k + 1, Len(path[s]))
      BY <1>1, SubSeqRecursiveFirst DEF From
    <2>2. k = Len(path[s]) => SubSeq(path[s], k + 1, Len(path[s])) = <<>>
      BY <1>1, SubSeqEmpty
    <2> QED
      BY <1>1, <2>1, <2>2 DEF ArePaths, IsPath, From
  <1>5. Solves(g)
    <2> DEFINE e(it) == IF it = NULL THEN <<>> ELSE <<it>> \o g[h[it].next]
    <2>1. g[NULL] = <<>>
      OBVIOUS
    <2>2. ASSUME NEW it \in D PROVE g[it] = e(it)
      <3>1. CASE it = NULL
        BY <2>1, <3>1
      <3>2. CASE it # NULL
        <4>0. PICK s \in S : \E k \in 1 .. Len(path[s]) : it = path[s][k]
          BY <3>2 DEF ArePaths
        <4>1. PICK k \in 1 .. Len(path[s]) : it = path[s][k]
          BY <4>0
        <4>2. CASE k = Len(path[s])
          <5> HIDE DEF g
          <5>1. g[it] = From(path[s], k) /\ h[it].next = NULL
            BY <1>3, <1>4, <4>1, <4>2
          <5>2. From(path[s], k) = <<it>> \o <<>>
            BY <1>4, <4>1, <4>2
          <5> QED
            BY <2>1, <3>2, <5>1, <5>2
        <4>3. CASE k # Len(path[s])
          <5>1. k + 1 \in 1 .. Len(path[s])
            BY <1>1, <4>3
          <5> HIDE DEF g
          <5>2. g[it] = From(path[s], k) /\ h[it].next = path[s][k + 1]
            BY <1>3, <1>4, <4>1, <4>3
          <5>3. From(path[s], k) = <<it>> \o From(path[s], k + 1)
            BY <1>4, <4>1, <4>3
          <5>4. g[path[s][k + 1]] = From(path[s], k + 1)
            BY <1>3, <5>1
          <5> QED
            BY <3>2, <5>2, <5>3, <5>4
        <4> QED
          BY <4>2, <4>3
      <3> QED
        BY <3>1, <3>2
    <2>3. g = [it \in D |-> g[it]]
      OBVIOUS
    <2> HIDE DEF g
    <2> QED
      BY <2>2, <2>3
  <1> HIDE DEF g
  <1>6. Solves(Walk(h))
    BY <1>5 DEF Walk
  <1> DEFINE w == Walk(h)
  <1> HIDE DEF w
  <1>7. /\ w[NULL] = <<>>
        /\ \A it \in DOMAIN h : w[it] = <<it>> \o w[h[it].next]
    BY <1>6 DEF w
  <1>8. ASSUME NEW s \in S
        PROVE  \A k \in 1 .. Len(path[s]) : w[path[s][k]] = From(path[s], k)
    <2> DEFINE l == Len(path[s])
               N == {n \in Nat : \A k \in 1 .. l : l - k <= n => w[path[s][k]] = From(path[s], k)}
    <2>1. ASSUME NEW k \in 1 .. l
          PROVE  /\ k = l => w[path[s][k]] = From(path[s], k)
                 /\ k # l /\ w[path[s][k + 1]] = From(path[s], k + 1)
                      => w[path[s][k]] = From(path[s], k)
      <3> DEFINE n == path[s][k]
      <3>1. n \in DOMAIN h
        BY <1>1
      <3>2. w[n] = <<n>> \o w[h[n].next]
        BY <1>7, <3>1
      <3>3. CASE k = l
        <4>1. h[n].next = NULL /\ From(path[s], k) = <<n>> \o <<>>
          BY <1>4, <3>3
        <4> QED
          BY <1>7, <3>2, <3>3, <4>1
      <3>4. CASE k # l
        <4>1. h[n].next = path[s][k + 1] /\ From(path[s], k) = <<n>> \o From(path[s], k + 1)
          BY <1>4, <3>4
        <4> QED
          BY <3>2, <3>4, <4>1
      <3> QED
        BY <3>3, <3>4
    <2>2. l \in Nat
      BY <1>1
    <2> HIDE DEF l
    <2>3. 0 \in N
      BY <2>1, <2>2
    <2>4. ASSUME NEW n \in Nat, n \in N PROVE n + 1 \in N
      <3> SUFFICES ASSUME NEW k \in 1 .. l, l - k <= n + 1
                   PROVE  w[path[s][k]] = From(path[s], k)
        OBVIOUS
      <3>1. CASE k = l
        BY <2>1, <3>1
      <3>2. CASE k # l
        <4>1. k + 1 \in 1 .. l /\ l - (k + 1) <= n
          BY <2>2, <3>2
        <4>2. w[path[s][k + 1]] = From(path[s], k + 1)
          BY <2>4, <4>1
        <4> QED
          BY <2>1, <3>2, <4>2
      <3> QED
        BY <3>1, <3>2
    <2>5. Nat \subseteq N
      <3> HIDE DEF N
      <3> QED
        BY <2>3, <2>4, InductiveSet
    <2>6. ASSUME NEW k \in 1 .. l PROVE w[path[s][k]] = From(path[s], k)
      <3>1. l - k \in Nat /\ l - k <= l - k
        BY <2>2
      <3>2. l - k \in N
        BY <2>5, <3>1
      <3> QED
        BY <3>1, <3>2
    <2> QED
      BY <2>6 DEF l
  <1>9. ASSUME NEW s \in S PROVE w[heads[s]] = path[s]
    <2>1. CASE path[s] = <<>>
      BY <1>7, <2>1 DEF ArePaths, IsPath
    <2>2. CASE path[s] # <<>>
      <3>1. heads[s] = path[s][1] /\ 1 \in 1 .. Len(path[s])
        BY <1>1, <2>2, EmptySeq DEF ArePaths, IsPath
      <3>2. w[heads[s]] = SubSeq(path[s], 1, Len(path[s]))
        BY <1>8, <3>1 DEF From
      <3> QED
        BY <1>1, <3>2, SubSeqFull
    <2> QED
      BY <2>1, <2>2
  <1> QED
    BY <1>9 DEF w

-----------------------------------------------------------------------------
(* Lists.                                                                  *)

NodeType == [element : Elements, next : Nat]

SetType == [by : {"none", "number", "equality"}, head : Nat, tail : Nat, size : Nat]

\* The elements differ, and are in the order of the compare function if it has one.
InOrder(h, by, p) ==
  \A j, k \in 1 .. Len(p) : j < k =>
    /\ h[p[j]].element # h[p[k]].element
    /\ by = "number" => h[p[j]].element < h[p[k]].element

IsList(h, set, p) ==
  /\ IsPath(h, set.head, p)
  /\ set.tail = IF p = <<>> THEN NULL ELSE p[Len(p)]
  /\ set.size = Len(p)
  /\ InOrder(h, set.by, p)
  /\ set.by = "none" => set = NoSet

\* path[s] are the nodes of the set s, and every node is in one of the sets.
AreLists(h, ss, path) ==
  /\ IsFiniteSet(DOMAIN h) /\ DOMAIN h \subseteq Nat \ {0}
  /\ h \in [DOMAIN h -> NodeType]
  /\ ss \in [Handles -> SetType]
  /\ path \in [Handles -> Seq(DOMAIN h)]
  /\ \A s \in Handles : IsList(h, ss[s], path[s])
  /\ \A s, t \in Handles : \A j \in 1 .. Len(path[s]), k \in 1 .. Len(path[t]) :
       path[s][j] = path[t][k] => s = t
  /\ \A n \in DOMAIN h : \E s \in Handles : \E k \in 1 .. Len(path[s]) : n = path[s][k]

Paths == [s \in Handles |-> Nodes(s)]

ListInv == AreLists(heap, sets, Paths)

LEMMA ElementFacts == \A e \in Elements : e \in Int /\ e \in Nat /\ e # NULL
  BY ElementsAssumption DEF NULL

LEMMA ListsAreWalked ==
  ASSUME NEW h, NEW ss, NEW path, AreLists(h, ss, path)
  PROVE  \A s \in Handles : Walk(h)[ss[s].head] = path[s]
  <1> DEFINE heads == [s \in Handles |-> ss[s].head]
  <1>1. NULL \notin DOMAIN h /\ ArePaths(h, Handles, heads, path)
    BY DEF AreLists, ArePaths, IsList, NULL
  <1>2. \A s \in Handles : Walk(h)[heads[s]] = path[s]
    <2> HIDE DEF heads
    <2> QED
      BY <1>1, WalkIsPath
  <1> QED
    BY <1>2

LEMMA ListInvNext ==
  ASSUME NEW path, AreLists(heap', sets', path)
  PROVE  ListInv' /\ \A s \in Handles : Nodes(s)' = path[s]
  <1>1. \A s \in Handles : Nodes(s)' = path[s]
    <2>1. \A s : Nodes(s)' = Walk(heap')[sets'[s].head]
      BY DEF Nodes, Walk, SetBegin, AdvanceIter
    <2>2. \A s \in Handles : Walk(heap')[sets'[s].head] = path[s]
      BY ListsAreWalked
    <2> QED
      BY <2>1, <2>2
  <1>2. Paths' = path
    BY <1>1 DEF Paths, AreLists
  <1> QED
    BY <1>1, <1>2 DEF ListInv

LEMMA ListFacts ==
  ASSUME ListInv, NEW s \in Handles
  PROVE  /\ Nodes(s) \in Seq(DOMAIN heap) /\ Len(Nodes(s)) \in Nat
         /\ \A k \in 1 .. Len(Nodes(s)) : /\ Nodes(s)[k] \in DOMAIN heap
                                          /\ heap[Nodes(s)[k]].element \in Elements
         /\ IsList(heap, sets[s], Nodes(s))
         /\ sets[s] \in SetType /\ (Exists(s) <=> sets[s].by # "none")
  <1>1. Nodes(s) = Paths[s] /\ Nodes(s) \in Seq(DOMAIN heap)
    BY DEF ListInv, AreLists, Paths
  <1>2. IsList(heap, sets[s], Nodes(s)) /\ sets[s] \in SetType
    BY <1>1 DEF ListInv, AreLists
  <1>3. \A n \in DOMAIN heap : heap[n].element \in Elements
    BY DEF ListInv, AreLists, NodeType
  <1>4. Exists(s) <=> sets[s].by # "none"
    BY <1>2 DEF IsList, Exists, NoSet
  <1> QED
    BY <1>1, <1>2, <1>3, <1>4

LEMMA ListInit == Init => ListInv
  <1> SUFFICES ASSUME Init PROVE ListInv
    OBVIOUS
  <1> DEFINE path == [s \in Handles |-> <<>>]
  <1>1. AreLists(heap, sets, path)
    BY FS_EmptySet DEF Init, AreLists, IsList, IsPath, InOrder, NoSet, SetType, NodeType, NULL
  <1>2. \A s \in Handles : Nodes(s) = path[s]
    <2> HIDE DEF path
    <2> QED
      BY <1>1, ListsAreWalked, NodesAreWalked
  <1>3. Paths = path
    BY <1>2 DEF Paths
  <1> QED
    BY <1>1, <1>3 DEF ListInv

LEMMA NewIsFresh ==
  ASSUME ListInv
  PROVE  New \in Nat \ {0} /\ New \notin DOMAIN heap
  <1>1. New \in 1 .. Cardinality(DOMAIN heap) + 1 /\ New \notin DOMAIN heap
    BY FreshNumber DEF New, ListInv, AreLists
  <1>2. Cardinality(DOMAIN heap) \in Nat
    BY FS_CardinalityType DEF ListInv, AreLists
  <1> QED
    BY <1>1, <1>2

\* A list is as it was if its nodes are.
LEMMA ListStays ==
  ASSUME NEW h, NEW g, NEW set, NEW p, IsList(h, set, p),
         \A k \in 1 .. Len(p) : p[k] \in DOMAIN g /\ g[p[k]] = h[p[k]]
  PROVE  IsList(g, set, p)
  <1>1. p \in Seq(DOMAIN g)
    BY DEF IsList, IsPath
  <1> QED
    BY <1>1 DEF IsList, IsPath, InOrder

-----------------------------------------------------------------------------
(* Inserting a node.                                                       *)

\* p with the node n at position i.
Inserted(p, i, n) ==
  [k \in 1 .. Len(p) + 1 |-> IF k < i THEN p[k] ELSE IF k = i THEN n ELSE p[k - 1]]

\* The node new, for the element e, is linked in at position i of p, in heap h.
LinksIn(h, g, p, i, new, e) ==
  /\ DOMAIN g = DOMAIN h \cup {new} /\ g = [n \in DOMAIN g |-> g[n]]
  /\ g[new] = [element |-> e, next |-> IF i = Len(p) + 1 THEN NULL ELSE p[i]]
  /\ \A n \in DOMAIN h :
       g[n] = IF i > 1 /\ n = p[i - 1] THEN [element |-> h[n].element, next |-> new]
              ELSE h[n]

SetWith(set, p, i, new) ==
  [by   |-> set.by,
   head |-> IF i = 1 THEN new ELSE set.head,
   tail |-> IF i = Len(p) + 1 THEN new ELSE set.tail,
   size |-> set.size + 1]

\* e belongs at position i.
GoesAt(h, by, p, i, e) ==
  /\ i \in 1 .. Len(p) + 1
  /\ \A k \in 1 .. Len(p) : h[p[k]].element # e
  /\ by = "number" =>
       /\ \A k \in 1 .. i - 1 : h[p[k]].element < e
       /\ \A k \in i .. Len(p) : e < h[p[k]].element

LEMMA InsertKeepsList ==
  ASSUME NEW h, NEW g, NEW set \in SetType, NEW p, NEW i, NEW e, NEW new,
         IsList(h, set, p), LinksIn(h, g, p, i, new, e), GoesAt(h, set.by, p, i, e),
         new \notin DOMAIN h, new # NULL, NULL \notin DOMAIN h, set.by # "none",
         e \in Int, \A n \in DOMAIN h : h[n].element \in Int
  PROVE  IsList(g, SetWith(set, p, i, new), Inserted(p, i, new))
  <1> DEFINE q == Inserted(p, i, new)
             l == Len(p)
  <1>1. /\ p \in Seq(DOMAIN h) /\ l \in Nat /\ i \in 1 .. l + 1
        /\ \A k \in 1 .. l : p[k] \in DOMAIN h
        /\ set.head = IF p = <<>> THEN NULL ELSE p[1]
        /\ set.tail = IF p = <<>> THEN NULL ELSE p[l]
        /\ \A k \in 1 .. l : h[p[k]].next = IF k = l THEN NULL ELSE p[k + 1]
        /\ \A j, k \in 1 .. l : p[j] = p[k] => j = k
        /\ p = <<>> <=> l = 0
    BY EmptySeq DEF IsList, IsPath, GoesAt
  <1>2. /\ q \in Seq(DOMAIN g) /\ Len(q) = l + 1 /\ q # <<>>
        /\ q[i] = new
        /\ \A k \in 1 .. i - 1 : q[k] = p[k]
        /\ \A k \in i + 1 .. l + 1 : q[k] = p[k - 1]
    <2>1. new \in DOMAIN g /\ DOMAIN h \subseteq DOMAIN g
      BY DEF LinksIn
    <2> HIDE DEF l
    <2>2. ASSUME NEW k \in 1 .. l + 1 PROVE q[k] \in DOMAIN g
      <3>1. q[k] = IF k < i THEN p[k] ELSE IF k = i THEN new ELSE p[k - 1]
        BY DEF Inserted, l
      <3>2. k < i => k \in 1 .. l
        BY <1>1
      <3>3. k > i => k - 1 \in 1 .. l
        BY <1>1
      <3> QED
        BY <1>1, <2>1, <3>1, <3>2, <3>3
    <2>3. q \in [1 .. l + 1 -> DOMAIN g] /\ l + 1 \in Nat
      BY <1>1, <2>2 DEF Inserted, l
    <2>4. q \in Seq(DOMAIN g) /\ Len(q) = l + 1
      <3> HIDE DEF q
      <3> QED
        BY <2>3
    <2>5. q # <<>>
      <3> HIDE DEF q
      <3> QED
        BY <1>1, <2>4
    <2>6. /\ q[i] = new
          /\ \A k \in 1 .. i - 1 : q[k] = p[k]
          /\ \A k \in i + 1 .. l + 1 : q[k] = p[k - 1]
      BY <1>1 DEF Inserted, l
    <2> QED
      BY <2>4, <2>5, <2>6
  <1> HIDE DEF q, l
  <1>3. ASSUME NEW k \in 1 .. l + 1
        PROVE  g[q[k]].next = IF k = l + 1 THEN NULL ELSE q[k + 1]
    <2>1. CASE k < i - 1
      <3>1. /\ k \in 1 .. i - 1 /\ k + 1 \in 1 .. i - 1 /\ k \in 1 .. l /\ k + 1 \in 1 .. l
            /\ i - 1 \in 1 .. l
        BY <1>1, <2>1
      <3>2. p[k] # p[i - 1]
        BY <1>1, <2>1, <3>1
      <3> QED
        <4>1. q[k] = p[k] /\ q[k + 1] = p[k + 1] /\ p[k] \in DOMAIN h
          BY <1>1, <1>2, <3>1
        <4>2. g[p[k]] = h[p[k]]
          BY <3>2, <4>1 DEF LinksIn
        <4>3. h[p[k]].next = p[k + 1] /\ k # l + 1
          BY <1>1, <3>1
        <4> QED
          BY <4>1, <4>2, <4>3
    <2>2. CASE k = i - 1
      <3>1. k \in 1 .. i - 1 /\ k \in 1 .. l /\ k + 1 = i /\ i > 1
        BY <1>1, <2>2
      <3>2. q[k] = p[i - 1] /\ q[k + 1] = new /\ k # l + 1 /\ i - 1 \in 1 .. l
        BY <1>1, <1>2, <2>2, <3>1
      <3>3. p[i - 1] \in DOMAIN h
        BY <1>1, <3>2
      <3>4. g[p[i - 1]].next = new
        BY <3>1, <3>3 DEF LinksIn
      <3> QED
        BY <3>2, <3>4
    <2>3. CASE k = i
      <3>1. k # l + 1 => k + 1 \in i + 1 .. l + 1 /\ (k + 1) - 1 = i
        BY <1>1, <2>3
      <3> QED
        BY <1>1, <1>2, <2>3, <3>1 DEF LinksIn, l
    <2>4. CASE k > i
      <3>1. /\ k \in i + 1 .. l + 1 /\ k - 1 \in 1 .. l
            /\ k # l + 1 => k + 1 \in i + 1 .. l + 1 /\ (k + 1) - 1 = (k - 1) + 1
            /\ i > 1 => i - 1 \in 1 .. l
        BY <1>1, <2>4
      <3>2. i > 1 => p[k - 1] # p[i - 1]
        BY <1>1, <2>4, <3>1
      <3>3. g[q[k]] = h[p[k - 1]]
        BY <1>1, <1>2, <3>1, <3>2 DEF LinksIn
      <3>4. h[p[k - 1]].next = IF k - 1 = l THEN NULL ELSE p[(k - 1) + 1]
        BY <1>1, <3>1
      <3>5. k # l + 1 => q[k + 1] = p[(k + 1) - 1]
        BY <1>2, <3>1
      <3>6. k - 1 = l <=> k = l + 1
        BY <1>1
      <3> QED
        BY <3>1, <3>3, <3>4, <3>5, <3>6
    <2> QED
      BY <1>1, <2>1, <2>2, <2>3, <2>4
  <1>4. ASSUME NEW k \in 1 .. l + 1
        PROVE  /\ q[k] = new <=> k = i
               /\ g[q[k]].element =
                    IF k < i THEN h[p[k]].element
                    ELSE IF k = i THEN e ELSE h[p[k - 1]].element
               /\ k < i => k \in 1 .. l /\ q[k] = p[k]
               /\ k > i => k - 1 \in 1 .. l /\ q[k] = p[k - 1]
    <2>1. k < i => k \in 1 .. l /\ q[k] = p[k]
      <3>1. k < i => k \in 1 .. l /\ k \in 1 .. i - 1
        BY <1>1
      <3> QED
        BY <1>2, <3>1
    <2>2. k > i => k - 1 \in 1 .. l /\ q[k] = p[k - 1]
      <3>1. k > i => k - 1 \in 1 .. l /\ k \in i + 1 .. l + 1
        BY <1>1
      <3> QED
        BY <1>2, <3>1
    <2>3. \A n \in DOMAIN h : g[n].element = h[n].element
      BY DEF LinksIn
    <2> QED
      BY <1>1, <1>2, <2>1, <2>2, <2>3 DEF LinksIn
  <1>5. \A j, k \in 1 .. l + 1 : q[j] = q[k] => j = k
    <2> SUFFICES ASSUME NEW j \in 1 .. l + 1, NEW k \in 1 .. l + 1, q[j] = q[k] PROVE j = k
      OBVIOUS
    <2>1. CASE k = i \/ j = i
      BY <1>4, <2>1
    <2>2. CASE k < i /\ j < i
      BY <1>1, <1>4, <2>2
    <2>3. CASE k > i /\ j > i
      <3>1. k - 1 = j - 1
        BY <1>1, <1>4, <2>3
      <3> QED
        BY <3>1
    <2>4. CASE k > i /\ j < i
      <3>1. k - 1 = j
        BY <1>1, <1>4, <2>4
      <3> QED
        BY <1>1, <2>4, <3>1
    <2>5. CASE k < i /\ j > i
      <3>1. j - 1 = k
        BY <1>1, <1>4, <2>5
      <3> QED
        BY <1>1, <2>5, <3>1
    <2> QED
      BY <1>1, <2>1, <2>2, <2>3, <2>4, <2>5
  <1>6. InOrder(g, set.by, q)
    <2> SUFFICES ASSUME NEW j \in 1 .. l + 1, NEW k \in 1 .. l + 1, j < k
                 PROVE  /\ g[q[j]].element # g[q[k]].element
                        /\ set.by = "number" => g[q[j]].element < g[q[k]].element
      BY <1>2 DEF InOrder
    <2> DEFINE E(m) == h[p[m]].element
    <2>1. /\ \A m \in 1 .. l : E(m) # e
          /\ set.by = "number" => /\ \A m \in 1 .. i - 1 : E(m) < e
                                  /\ \A m \in i .. l : e < E(m)
      BY DEF GoesAt, l
    <2>2. \A m, n \in 1 .. l : m < n =>
            E(m) # E(n) /\ (set.by = "number" => E(m) < E(n))
      BY DEF IsList, InOrder, l
    <2>3. /\ g[q[j]].element = IF j < i THEN E(j) ELSE IF j = i THEN e ELSE E(j - 1)
          /\ g[q[k]].element = IF k < i THEN E(k) ELSE IF k = i THEN e ELSE E(k - 1)
          /\ j \in Int /\ k \in Int /\ i \in Int
          /\ j < i => j \in 1 .. l /\ j \in 1 .. i - 1
          /\ k < i => k \in 1 .. l /\ k \in 1 .. i - 1
          /\ j > i => j - 1 \in 1 .. l /\ j - 1 \in i .. l
          /\ k > i => k - 1 \in 1 .. l /\ k - 1 \in i .. l
      BY <1>1, <1>4
    <2> HIDE DEF E
    <2>4. CASE k < i
      BY <2>2, <2>3, <2>4
    <2>5. CASE k = i
      BY <2>1, <2>3, <2>5
    <2>6. CASE k > i /\ j < i
      <3>1. j < k - 1 \/ j = k - 1
        BY <2>3, <2>6
      <3>2. j # k - 1
        BY <2>3, <2>6
      <3> QED
        BY <2>2, <2>3, <2>6, <3>1, <3>2
    <2>7. CASE k > i /\ j = i
      BY <2>1, <2>3, <2>7
    <2>8. CASE j > i
      <3>1. j - 1 < k - 1 /\ k > i
        BY <2>3, <2>8
      <3> QED
        BY <2>2, <2>3, <2>8, <3>1
    <2> QED
      BY <2>3, <2>4, <2>5, <2>6, <2>7, <2>8
  <1>7. /\ SetWith(set, p, i, new).head = q[1]
        /\ SetWith(set, p, i, new).tail = q[l + 1]
        /\ SetWith(set, p, i, new).size = l + 1
        /\ SetWith(set, p, i, new).by = set.by
    <2>1. set.head = IF l = 0 THEN NULL ELSE p[1]
      BY <1>1
    <2>2. q[1] = IF i = 1 THEN new ELSE p[1]
      <3>1. i # 1 => 1 \in 1 .. i - 1
        BY <1>1
      <3> QED
        BY <1>2, <3>1
    <2>3. q[l + 1] = IF i = l + 1 THEN new ELSE p[l]
      BY <1>1, <1>2
    <2>4. set.size = l
      BY DEF IsList, l
    <2> QED
      BY <1>1, <2>1, <2>2, <2>3, <2>4 DEF SetWith, l
  <1>8. IsPath(g, q[1], q)
    BY <1>2, <1>3, <1>5 DEF IsPath
  <1> QED
    BY <1>2, <1>6, <1>7, <1>8 DEF IsList, q, l

-----------------------------------------------------------------------------
(* The elements of the lists, before and after a step.                     *)

Content(h, p) == {h[p[k]].element : k \in 1 .. Len(p)}

LEMMA ContentFacts ==
  ASSUME ListInv, NEW s \in Handles
  PROVE  /\ ElementsOf(s) = Content(heap, Nodes(s))
         /\ ElementsOf(s) \subseteq Elements
         /\ ToSet(Nodes(s)) = {Nodes(s)[k] : k \in 1 .. Len(Nodes(s))}
  <1>1. ToSet(Nodes(s)) = {Nodes(s)[k] : k \in 1 .. Len(Nodes(s))}
    <2>1. Nodes(s) \in Seq(DOMAIN heap)
      BY ListFacts
    <2>2. DOMAIN Nodes(s) = 1 .. Len(Nodes(s))
      BY <2>1
    <2> QED
      BY <2>2 DEF ToSet
  <1>2. \A k \in 1 .. Len(Nodes(s)) : heap[Nodes(s)[k]].element \in Elements
    BY ListFacts
  <1> QED
    BY <1>1, <1>2 DEF ElementsOf, Content

LEMMA StepFacts ==
  ASSUME NEW path, AreLists(heap', sets', path)
  PROVE  /\ ListInv'
         /\ \A s \in Handles : Nodes(s)' = path[s] /\ ElementsOf(s)' = Content(heap', path[s])
  <1>1. ListInv' /\ \A s \in Handles : Nodes(s)' = path[s]
    BY ListInvNext
  <1>2. ASSUME NEW s \in Handles PROVE ElementsOf(s)' = Content(heap', path[s])
    <2>1. path[s] \in Seq(DOMAIN heap')
      BY DEF AreLists
    <2>2. DOMAIN path[s] = 1 .. Len(path[s])
      BY <2>1
    <2>3. ElementsOf(s)' = {heap'[it].element : it \in ToSet(path[s])}
      BY <1>1 DEF ElementsOf
    <2> QED
      BY <2>2, <2>3 DEF ToSet, Content
  <1> QED
    BY <1>1, <1>2

\* A step that leaves the lists alone.
LEMMA SameLists ==
  ASSUME ListInv, UNCHANGED <<heap, sets>>
  PROVE  ListInv' /\ \A s \in Handles : Nodes(s)' = Nodes(s) /\ ElementsOf(s)' = ElementsOf(s)
  <1>1. AreLists(heap', sets', Paths)
    BY DEF ListInv
  <1>2. \A s \in Handles : Paths[s] = Nodes(s)
    BY DEF Paths
  <1>3. \A s \in Handles : ElementsOf(s)' = Content(heap', Nodes(s))
    BY <1>1, <1>2, StepFacts
  <1> QED
    BY <1>1, <1>2, <1>3, StepFacts, ContentFacts

\* A step after which s is the list p, that touches no node of the others.
ListBecomes(s, set, p) ==
  /\ IsFiniteSet(DOMAIN heap') /\ DOMAIN heap' \subseteq Nat \ {0}
  /\ heap' \in [DOMAIN heap' -> NodeType]
  /\ set \in SetType /\ sets' = [sets EXCEPT ![s] = set]
  /\ IsList(heap', set, p)
  /\ \A n \in DOMAIN heap :
       (\A k \in 1 .. Len(Nodes(s)) : n # Nodes(s)[k])
         => n \in DOMAIN heap' /\ heap'[n] = heap[n]
  /\ \A k \in 1 .. Len(p) :
       p[k] \notin DOMAIN heap \/ \E j \in 1 .. Len(Nodes(s)) : p[k] = Nodes(s)[j]
  /\ \A n \in DOMAIN heap' :
       \/ \E k \in 1 .. Len(p) : n = p[k]
       \/ n \in DOMAIN heap /\ \A j \in 1 .. Len(Nodes(s)) : n # Nodes(s)[j]

LEMMA OneListChanges ==
  ASSUME ListInv, NEW s \in Handles, NEW set, NEW p, ListBecomes(s, set, p)
  PROVE  /\ ListInv'
         /\ Nodes(s)' = p /\ ElementsOf(s)' = Content(heap', p)
         /\ \A t \in Handles \ {s} : Nodes(t)' = Nodes(t) /\ ElementsOf(t)' = ElementsOf(t)
  <1> USE DEF ListBecomes
  <1> DEFINE path == [t \in Handles |-> IF t = s THEN p ELSE Nodes(t)]
  <1>1. /\ \A r, t \in Handles : \A j \in 1 .. Len(Nodes(r)), k \in 1 .. Len(Nodes(t)) :
             Nodes(r)[j] = Nodes(t)[k] => r = t
        /\ \A n \in DOMAIN heap : \E t \in Handles : \E k \in 1 .. Len(Nodes(t)) : n = Nodes(t)[k]
        /\ sets \in [Handles -> SetType]
    <2>1. AreLists(heap, sets, Paths)
      BY DEF ListInv
    <2>2. \A t \in Handles : Nodes(t) = Paths[t]
      BY DEF Paths
    <2> DEFINE of == Paths
    <2>3. /\ \A r, t \in Handles : \A j \in 1 .. Len(of[r]), k \in 1 .. Len(of[t]) :
               of[r][j] = of[t][k] => r = t
          /\ \A n \in DOMAIN heap : \E t \in Handles : \E k \in 1 .. Len(of[t]) : n = of[t][k]
          /\ sets \in [Handles -> SetType]
      BY <2>1 DEF AreLists
    <2>4. \A t \in Handles : of[t] = Nodes(t)
      BY <2>2
    <2> HIDE DEF of
    <2>5. \A r, t \in Handles : \A j \in 1 .. Len(Nodes(r)), k \in 1 .. Len(Nodes(t)) :
             Nodes(r)[j] = Nodes(t)[k] => r = t
      BY <2>3, <2>4
    <2>6. \A n \in DOMAIN heap : \E t \in Handles : \E k \in 1 .. Len(Nodes(t)) : n = Nodes(t)[k]
      BY <2>3, <2>4
    <2> QED
      BY <2>3, <2>5, <2>6
  <1>2. path[s] = p /\ \A t \in Handles \ {s} : path[t] = Nodes(t)
    OBVIOUS
  <1>3. /\ sets' \in [Handles -> SetType] /\ sets'[s] = set
        /\ \A t \in Handles \ {s} : sets'[t] = sets[t]
    BY <1>1
  <1>4. ASSUME NEW t \in Handles \ {s}
        PROVE  /\ IsList(heap', sets'[t], Nodes(t))
               /\ \A k \in 1 .. Len(Nodes(t)) :
                    /\ Nodes(t)[k] \in DOMAIN heap
                    /\ \A j \in 1 .. Len(Nodes(s)) : Nodes(t)[k] # Nodes(s)[j]
                    /\ Nodes(t)[k] \in DOMAIN heap' /\ heap'[Nodes(t)[k]] = heap[Nodes(t)[k]]
               /\ Nodes(t) \in Seq(DOMAIN heap')
    <2>1. \A k \in 1 .. Len(Nodes(t)) :
            /\ Nodes(t)[k] \in DOMAIN heap
            /\ \A j \in 1 .. Len(Nodes(s)) : Nodes(t)[k] # Nodes(s)[j]
      <3>1. \A k \in 1 .. Len(Nodes(t)) : Nodes(t)[k] \in DOMAIN heap
        BY ListFacts
      <3>2. \A k \in 1 .. Len(Nodes(t)), j \in 1 .. Len(Nodes(s)) : Nodes(t)[k] # Nodes(s)[j]
        BY <1>1
      <3> QED
        BY <3>1, <3>2
    <2>2. \A k \in 1 .. Len(Nodes(t)) :
            Nodes(t)[k] \in DOMAIN heap' /\ heap'[Nodes(t)[k]] = heap[Nodes(t)[k]]
      BY <2>1
    <2>3. IsList(heap, sets[t], Nodes(t))
      BY ListFacts
    <2>4. IsList(heap', sets[t], Nodes(t))
      BY <2>2, <2>3, ListStays
    <2>5. Nodes(t) \in Seq(DOMAIN heap')
      BY <2>4 DEF IsList, IsPath
    <2> QED
      BY <1>3, <2>1, <2>2, <2>4, <2>5
  <1>5. p \in Seq(DOMAIN heap')
    BY DEF IsList, IsPath
  <1>6. path \in [Handles -> Seq(DOMAIN heap')]
    BY <1>4, <1>5
  <1>7. \A t \in Handles : IsList(heap', sets'[t], path[t])
    <2> HIDE DEF path
    <2> QED
      BY <1>2, <1>3, <1>4
  <1>8. \A r, t \in Handles : \A j \in 1 .. Len(path[r]), k \in 1 .. Len(path[t]) :
          path[r][j] = path[t][k] => r = t
    <2> SUFFICES ASSUME NEW r \in Handles, NEW t \in Handles, NEW j \in 1 .. Len(path[r]),
                        NEW k \in 1 .. Len(path[t]), path[r][j] = path[t][k]
                 PROVE  r = t
      OBVIOUS
    <2> HIDE DEF path
    <2>0. ASSUME NEW u \in Handles \ {s}, NEW m \in 1 .. Len(p), NEW n \in 1 .. Len(Nodes(u))
          PROVE  p[m] # Nodes(u)[n]
      BY <1>4
    <2>1. CASE r = s /\ t # s
      BY <1>2, <2>0, <2>1
    <2>2. CASE r # s /\ t = s
      BY <1>2, <2>0, <2>2
    <2>3. CASE r # s /\ t # s
      BY <1>1, <1>2, <2>3
    <2> QED
      BY <2>1, <2>2, <2>3
  <1>9. \A n \in DOMAIN heap' : \E t \in Handles : \E k \in 1 .. Len(path[t]) : n = path[t][k]
    <2> SUFFICES ASSUME NEW n \in DOMAIN heap'
                 PROVE  \E t \in Handles : \E k \in 1 .. Len(path[t]) : n = path[t][k]
      OBVIOUS
    <2> HIDE DEF path
    <2>1. CASE \E k \in 1 .. Len(p) : n = p[k]
      BY <1>2, <2>1
    <2>2. CASE n \in DOMAIN heap /\ \A j \in 1 .. Len(Nodes(s)) : n # Nodes(s)[j]
      <3>1. PICK t \in Handles : \E k \in 1 .. Len(Nodes(t)) : n = Nodes(t)[k]
        BY <1>1, <2>2
      <3>2. t # s
        BY <2>2, <3>1
      <3> QED
        BY <1>2, <3>1, <3>2
    <2> QED
      BY <2>1, <2>2
  <1> HIDE DEF path
  <1>10. AreLists(heap', sets', path)
    BY <1>3, <1>6, <1>7, <1>8, <1>9 DEF AreLists
  <1>11. /\ ListInv'
         /\ \A t \in Handles : Nodes(t)' = path[t] /\ ElementsOf(t)' = Content(heap', path[t])
    BY <1>10, StepFacts
  <1>12. ASSUME NEW t \in Handles \ {s} PROVE ElementsOf(t)' = ElementsOf(t)
    <2>1. ElementsOf(t)' = Content(heap', Nodes(t)) /\ ElementsOf(t) = Content(heap, Nodes(t))
      BY <1>2, <1>11, ContentFacts
    <2> QED
      BY <1>4, <2>1 DEF Content
  <1> QED
    BY <1>2, <1>11, <1>12

-----------------------------------------------------------------------------
(* set_insert().                                                           *)

LEMMA StopFacts ==
  ASSUME ListInv, NEW s \in Handles, NEW e
  PROVE  /\ Stop(s, e) \in 0 .. Len(Nodes(s))
         /\ \A k \in 1 .. Len(Nodes(s)) :
              (Stop(s, e) = 0 \/ k < Stop(s, e))
                => ~ (Compare(sets[s].by, heap[Nodes(s)[k]].element, e) >= 0)
         /\ Stop(s, e) # 0
              => Compare(sets[s].by, heap[Nodes(s)[Stop(s, e)]].element, e) >= 0
  <1> DEFINE I == {k \in 1 .. Len(Nodes(s)) :
                     Compare(sets[s].by, heap[Nodes(s)[k]].element, e) >= 0}
  <1>1. Stop(s, e) = IF I # {} THEN Min(I) ELSE 0
    BY DEF Stop, SelectInSeq
  <1>2. I \in SUBSET Nat /\ Len(Nodes(s)) \in Nat
    BY ListFacts
  <1>3. CASE I = {}
    <2>1. Stop(s, e) = 0 /\ 0 \in 0 .. Len(Nodes(s))
      BY <1>1, <1>2, <1>3
    <2> QED
      BY <1>3, <2>1
  <1>4. CASE I # {}
    <2>1. Stop(s, e) \in I /\ \A k \in I : Stop(s, e) <= k
      <3> HIDE DEF I
      <3> QED
        BY <1>1, <1>2, <1>4, MinFacts
    <2> QED
      BY <1>2, <2>1
  <1> QED
    BY <1>3, <1>4

LEMMA FindFacts ==
  ASSUME ListInv, NEW s \in Handles, NEW e \in Elements
  PROVE  Find(s, e) = IF e \in ElementsOf(s) THEN e ELSE NULL
  <1> DEFINE I == {k \in 1 .. Len(Nodes(s)) :
                     Compare(sets[s].by, heap[Nodes(s)[k]].element, e) = 0}
             i == IF I # {} THEN Min(I) ELSE 0
  <1>1. Find(s, e) = IF i = 0 THEN NULL ELSE heap[Nodes(s)[i]].element
    BY DEF Find, SelectInSeq
  <1>2. I \in SUBSET Nat /\ Len(Nodes(s)) \in Nat
    BY ListFacts
  <1>3. ASSUME NEW k \in 1 .. Len(Nodes(s))
        PROVE  k \in I <=> heap[Nodes(s)[k]].element = e
    <2>1. heap[Nodes(s)[k]].element \in Int /\ e \in Int
      BY ListFacts, ElementFacts
    <2> QED
      BY <2>1 DEF Compare, CompareNumbers, CompareSets
  <1>4. e \in ElementsOf(s) <=> I # {}
    BY <1>3, ContentFacts DEF Content
  <1>5. CASE I = {}
    BY <1>1, <1>4, <1>5
  <1>6. CASE I # {}
    <2>1. i \in I
      <3> HIDE DEF I
      <3> QED
        BY <1>2, <1>6, MinFacts
    <2>2. i # 0 /\ heap[Nodes(s)[i]].element = e
      <3>1. i \in 1 .. Len(Nodes(s))
        BY <2>1
      <3>2. i # 0
        BY <1>2, <3>1
      <3> HIDE DEF i
      <3> QED
        BY <1>3, <2>1, <3>1, <3>2
    <2> QED
      BY <1>1, <1>4, <1>6, <2>2
  <1> QED
    BY <1>5, <1>6

\* Inserting a node where it belongs.
LEMMA InsertKeepsLists ==
  ASSUME ListInv, NEW s \in Handles, NEW e \in Elements, NEW i, Exists(s),
         LinksIn(heap, heap', Nodes(s), i, New, e),
         heap' \in [DOMAIN heap' -> NodeType],
         GoesAt(heap, sets[s].by, Nodes(s), i, e),
         sets' = [sets EXCEPT ![s] = SetWith(sets[s], Nodes(s), i, New)]
  PROVE  /\ ListInv'
         /\ e \notin ElementsOf(s) /\ ElementsOf(s)' = ElementsOf(s) \cup {e}
         /\ \A t \in Handles \ {s} : Nodes(t)' = Nodes(t) /\ ElementsOf(t)' = ElementsOf(t)
         /\ \A n \in DOMAIN heap : n \in DOMAIN heap' /\ heap'[n].element = heap[n].element
  <1> DEFINE p == Nodes(s)
             q == Inserted(p, i, New)
             set == SetWith(sets[s], p, i, New)
             l == Len(p)
  <1>1. /\ p \in Seq(DOMAIN heap) /\ l \in Nat /\ i \in 1 .. l + 1
        /\ \A k \in 1 .. l : p[k] \in DOMAIN heap
        /\ IsList(heap, sets[s], p) /\ sets[s] \in SetType /\ sets[s].by # "none"
    BY ListFacts DEF GoesAt
  <1>2. New \in Nat \ {0} /\ New \notin DOMAIN heap
    BY NewIsFresh
  <1>3. IsFiniteSet(DOMAIN heap) /\ DOMAIN heap \subseteq Nat \ {0}
        /\ \A n \in DOMAIN heap : heap[n].element \in Elements
    BY DEF ListInv, AreLists, NodeType
  <1>4. IsFiniteSet(DOMAIN heap') /\ DOMAIN heap' \subseteq Nat \ {0}
    <2>1. DOMAIN heap' = DOMAIN heap \cup {New}
      BY DEF LinksIn
    <2> QED
      BY <1>2, <1>3, <2>1, FS_AddElement
  <1>5. IsList(heap', set, q)
    <2>1. /\ New # NULL /\ NULL \notin DOMAIN heap /\ e \in Int
          /\ \A n \in DOMAIN heap : heap[n].element \in Int
      BY <1>2, <1>3, ElementsAssumption DEF NULL
    <2> QED
      BY <1>1, <1>2, <2>1, InsertKeepsList
  <1>6. /\ \A n \in DOMAIN heap :
             n \in DOMAIN heap'
             /\ ((\A k \in 1 .. l : n # p[k]) => heap'[n] = heap[n])
             /\ heap'[n].element = heap[n].element
        /\ New \in DOMAIN heap' /\ heap'[New].element = e
        /\ \A n \in DOMAIN heap' : n \in DOMAIN heap \/ n = New
    <2>1. i > 1 => i - 1 \in 1 .. l
      BY <1>1
    <2> QED
      BY <2>1 DEF LinksIn
  <1>7. /\ Len(q) = l + 1
        /\ \A k \in 1 .. l + 1 :
             /\ k < i => k \in 1 .. l /\ q[k] = p[k]
             /\ k = i => q[k] = New
             /\ k > i => k - 1 \in 1 .. l /\ q[k] = p[k - 1]
    <2> HIDE DEF p
    <2>1. Len(q) = l + 1
      <3>1. l + 1 \in Nat /\ DOMAIN q = 1 .. l + 1
        BY <1>1 DEF Inserted
      <3>2. q \in Seq(DOMAIN heap')
        BY <1>5 DEF IsList, IsPath
      <3> HIDE DEF q
      <3> QED
        BY <3>1, <3>2
    <2>2. ASSUME NEW k \in 1 .. l + 1
          PROVE  /\ k < i => k \in 1 .. l /\ q[k] = p[k]
                 /\ k = i => q[k] = New
                 /\ k > i => k - 1 \in 1 .. l /\ q[k] = p[k - 1]
      BY <1>1 DEF Inserted
    <2> QED
      BY <2>1, <2>2
  <1>8. i \in 1 .. l + 1 /\ q[i] = New
    BY <1>1, <1>7
  <1>9. \A m \in 1 .. l : \E k \in 1 .. l + 1 : q[k] = p[m]
    <2> SUFFICES ASSUME NEW m \in 1 .. l PROVE \E k \in 1 .. l + 1 : q[k] = p[m]
      OBVIOUS
    <2> HIDE DEF q, p
    <2>1. CASE m < i
      <3>1. m \in 1 .. l + 1
        BY <1>1
      <3> QED
        BY <1>7, <2>1, <3>1
    <2>2. CASE m >= i
      <3>1. m + 1 \in 1 .. l + 1 /\ m + 1 > i /\ (m + 1) - 1 = m
        BY <1>1, <2>2
      <3> QED
        BY <1>7, <3>1
    <2> QED
      BY <1>1, <2>1, <2>2
  <1>10. \A k \in 1 .. l + 1 : q[k] = New \/ \E j \in 1 .. l : q[k] = p[j]
    <2> SUFFICES ASSUME NEW k \in 1 .. l + 1
                 PROVE  q[k] = New \/ \E j \in 1 .. l : q[k] = p[j]
      OBVIOUS
    <2>1. k < i \/ k = i \/ k > i
      BY <1>1
    <2> HIDE DEF q, p, l
    <2> QED
      BY <1>7, <2>1
  <1>11. set \in SetType
    <2>1. sets[s].size + 1 \in Nat
      BY <1>1 DEF SetType
    <2> QED
      BY <1>1, <1>2, <2>1 DEF SetWith, SetType
  <1> HIDE DEF q, set
  <1>13. /\ ListInv' /\ ElementsOf(s)' = Content(heap', q)
         /\ \A t \in Handles \ {s} : Nodes(t)' = Nodes(t) /\ ElementsOf(t)' = ElementsOf(t)
    <2>0. SUFFICES ListBecomes(s, set, q)
      <3> HIDE DEF p, l
      <3> QED
        BY <2>0, OneListChanges
    <2>1. \A n \in DOMAIN heap :
            (\A k \in 1 .. Len(Nodes(s)) : n # Nodes(s)[k])
              => n \in DOMAIN heap' /\ heap'[n] = heap[n]
      BY <1>6
    <2>2. \A k \in 1 .. Len(q) :
            q[k] \notin DOMAIN heap \/ \E j \in 1 .. Len(Nodes(s)) : q[k] = Nodes(s)[j]
      BY <1>2, <1>7, <1>10
    <2>3. \A n \in DOMAIN heap' :
            (\E k \in 1 .. Len(q) : n = q[k])
              \/ (n \in DOMAIN heap /\ \A j \in 1 .. Len(Nodes(s)) : n # Nodes(s)[j])
      BY <1>6, <1>7, <1>8, <1>9
    <2>4. sets' = [sets EXCEPT ![s] = set] /\ set \in SetType /\ IsList(heap', set, q)
      BY <1>5, <1>11 DEF set
    <2> QED
      <3> HIDE DEF p, l
      <3>1. IsFiniteSet(DOMAIN heap') /\ DOMAIN heap' \subseteq Nat \ {0}
        BY <1>4
      <3> QED
        BY <2>1, <2>2, <2>3, <2>4, <3>1 DEF ListBecomes
  <1>14. e \notin ElementsOf(s)
    BY ContentFacts DEF GoesAt, Content
  <1>15. ElementsOf(s)' = ElementsOf(s) \cup {e}
    <2>1. ElementsOf(s) = {heap[p[k]].element : k \in 1 .. l}
      BY ContentFacts DEF Content
    <2>2. ElementsOf(s)' = {heap'[q[k]].element : k \in 1 .. l + 1}
      BY <1>7, <1>13 DEF Content
    <2> HIDE DEF p, l
    <2>3. \A x \in ElementsOf(s)' : x \in ElementsOf(s) \cup {e}
      BY <1>1, <1>6, <1>10, <2>1, <2>2
    <2>4. \A x \in ElementsOf(s) : x \in ElementsOf(s)'
      BY <1>1, <1>6, <1>9, <2>1, <2>2
    <2>5. e \in ElementsOf(s)'
      BY <1>6, <1>8, <2>2
    <2> QED
      BY <2>3, <2>4, <2>5
  <1> QED
    BY <1>6, <1>13, <1>14, <1>15

\* Where set_insert() stops is where the element belongs.
LEMMA StopGoesAt ==
  ASSUME ListInv, NEW s \in Handles, NEW e \in Elements, NEW i,
         sets[s].by = "number" \/ e \notin ElementsOf(s),
         \/ Stop(s, e) = 0 /\ i = Len(Nodes(s)) + 1
         \/ /\ Stop(s, e) # 0 /\ i = Stop(s, e)
            /\ Compare(sets[s].by, heap[Nodes(s)[i]].element, e) > 0
  PROVE  GoesAt(heap, sets[s].by, Nodes(s), i, e)
  <1> DEFINE p == Nodes(s)
             l == Len(p)
             E(k) == heap[p[k]].element
  <1>1. l \in Nat /\ e \in Int /\ \A k \in 1 .. l : E(k) \in Int
    BY ListFacts, ElementFacts
  <1>2. i \in 1 .. l + 1
    BY <1>1, StopFacts
  <1>3. \A k \in 1 .. l : k < i => ~ (Compare(sets[s].by, E(k), e) >= 0)
    BY <1>1, <1>2, StopFacts
  <1>4. i # l + 1 => Compare(sets[s].by, E(i), e) > 0
    BY <1>1, <1>2, StopFacts
  <1>5. ASSUME sets[s].by = "number"
        PROVE  /\ \A k \in 1 .. i - 1 : E(k) < e
               /\ \A k \in i .. l : e < E(k)
    <2> HIDE DEF E
    <2>1. ASSUME NEW k \in 1 .. i - 1 PROVE E(k) < e
      <3>1. k \in 1 .. l /\ k < i
        BY <1>1, <1>2
      <3>2. ~ (E(k) - e >= 0)
        BY <1>3, <1>5, <3>1 DEF Compare, CompareNumbers
      <3> QED
        BY <1>1, <3>1, <3>2
    <2>2. ASSUME NEW k \in i .. l PROVE e < E(k)
      <3>1. i \in 1 .. l /\ k \in 1 .. l /\ i # l + 1
        BY <1>1, <1>2
      <3>2. E(i) - e > 0
        BY <1>4, <1>5, <3>1 DEF Compare, CompareNumbers
      <3>3. e < E(i)
        BY <1>1, <3>1, <3>2
      <3>4. i < k => E(i) < E(k)
        BY <1>5, <3>1, ListFacts DEF IsList, InOrder, E
      <3> QED
        BY <1>1, <3>1, <3>3, <3>4
    <2> QED
      BY <2>1, <2>2
  <1>6. \A k \in 1 .. l : E(k) # e
    <2>1. CASE sets[s].by = "number"
      <3> HIDE DEF E, l
      <3> SUFFICES ASSUME NEW k \in 1 .. l PROVE E(k) # e
        OBVIOUS
      <3>1. k \in 1 .. i - 1 \/ k \in i .. l
        BY <1>1, <1>2
      <3> QED
        BY <1>1, <1>5, <2>1, <3>1
    <2>2. CASE e \notin ElementsOf(s)
      BY <2>2, ContentFacts DEF Content
    <2> QED
      BY <2>1, <2>2
  <1> QED
    BY <1>2, <1>5, <1>6 DEF GoesAt

\* What set_insert() does to the lists, for each thing it returns.
LEMMA SetInsertFacts ==
  ASSUME ListInv, NEW s \in Handles, NEW e \in Elements, NEW returned, Exists(s),
         sets[s].by = "number" \/ e \notin ElementsOf(s),
         SetInsert(s, e, returned)
  PROVE  /\ ListInv'
         /\ \A t \in Handles : sets'[t].by = sets[t].by
         /\ \A t \in Handles \ {s} : Nodes(t)' = Nodes(t) /\ ElementsOf(t)' = ElementsOf(t)
         /\ \A n \in DOMAIN heap : n \in DOMAIN heap' /\ heap'[n].element = heap[n].element
         /\ \/ /\ returned = INSERT_SUCCESS
               /\ e \notin ElementsOf(s) /\ ElementsOf(s)' = ElementsOf(s) \cup {e}
            \/ returned = INSERT_DUPLICATE /\ e \in ElementsOf(s) /\ UNCHANGED <<heap, sets>>
            \/ returned = INSERT_ERROR /\ UNCHANGED <<heap, sets>>
  <1> DEFINE p == Nodes(s)
             l == Len(p)
             st == Stop(s, e)
  <1>1. /\ p \in Seq(DOMAIN heap) /\ l \in Nat
        /\ \A k \in 1 .. l : p[k] \in DOMAIN heap
        /\ sets[s].head = IF p = <<>> THEN NULL ELSE p[1]
        /\ sets[s].tail = IF p = <<>> THEN NULL ELSE p[l]
        /\ sets[s] \in SetType /\ (p = <<>> <=> l = 0)
    BY ListFacts, EmptySeq DEF IsList, IsPath
  <1>2. /\ \A n \in DOMAIN heap : n # NULL /\ n \in Nat /\ heap[n] \in NodeType
        /\ sets \in [Handles -> SetType]
        /\ New \in Nat \ {0} /\ New \notin DOMAIN heap
    BY NewIsFresh DEF ListInv, AreLists, NULL
  <1>4. ASSUME NEW i, LinksIn(heap, heap', p, i, New, e),
               GoesAt(heap, sets[s].by, p, i, e),
               sets' = [sets EXCEPT ![s] = SetWith(sets[s], p, i, New)]
        PROVE  /\ ListInv'
               /\ \A t \in Handles : sets'[t].by = sets[t].by
               /\ \A t \in Handles \ {s} : Nodes(t)' = Nodes(t) /\ ElementsOf(t)' = ElementsOf(t)
               /\ \A n \in DOMAIN heap : n \in DOMAIN heap' /\ heap'[n].element = heap[n].element
               /\ e \notin ElementsOf(s) /\ ElementsOf(s)' = ElementsOf(s) \cup {e}
    <2>1. heap' \in [DOMAIN heap' -> NodeType]
      <3>1. ASSUME NEW n \in DOMAIN heap' PROVE heap'[n] \in NodeType
        <4>1. i \in 1 .. l + 1
          BY <1>4 DEF GoesAt
        <4>2. CASE n = New
          <5>1. i # l + 1 => p[i] \in Nat
            BY <1>1, <1>2, <4>1
          <5> QED
            BY <1>4, <4>2, <5>1 DEF LinksIn, NodeType, NULL
        <4>3. CASE n # New
          BY <1>2, <1>4, <4>3 DEF LinksIn, NodeType
        <4> QED
          BY <4>2, <4>3
      <3>2. heap' = [n \in DOMAIN heap' |-> heap'[n]]
        BY <1>4 DEF LinksIn
      <3> QED
        BY <3>1, <3>2
    <2>2. \A t \in Handles : sets'[t].by = sets[t].by
      BY <1>2, <1>4 DEF SetWith
    <2> HIDE DEF p
    <2> QED
      BY <1>4, <2>1, <2>2, InsertKeepsLists DEF p
  <1>5. CASE InsertFirst(s, e) /\ returned = INSERT_SUCCESS
    <2>1. p = <<>> /\ l = 0
      BY <1>1, <1>2, <1>5, EmptySeq DEF InsertFirst, SetBegin
    <2>2. LinksIn(heap, heap', p, 1, New, e)
      BY <1>2, <1>5, <2>1 DEF InsertFirst, WithNode, LinksIn
    <2>3. GoesAt(heap, sets[s].by, p, 1, e)
      BY <2>1 DEF GoesAt
    <2>4. sets' = [sets EXCEPT ![s] = SetWith(sets[s], p, 1, New)]
      BY <1>5, <2>1 DEF InsertFirst, Linked, Members, SetWith
    <2> QED
      BY <1>4, <1>5, <2>2, <2>3, <2>4
  <1>6. CASE InsertBefore(s, e) /\ returned = INSERT_SUCCESS
    <2>1. st # 0 /\ Compare(sets[s].by, heap[p[st]].element, e) > 0
      BY <1>6 DEF InsertBefore
    <2>2. st \in 1 .. l
      BY <1>1, <2>1, StopFacts
    <2>3. GoesAt(heap, sets[s].by, p, st, e)
      <3>0. st = Stop(s, e)
        OBVIOUS
      <3> HIDE DEF st
      <3> QED
        BY <2>1, <3>0, StopGoesAt
    <2>4. CASE st = 1
      <3>1. heap' = WithNode(heap, e, sets[s].head)
        BY <1>6, <2>4 DEF InsertBefore
      <3>2. sets[s].head = p[1] /\ st # l + 1
        BY <1>1, <2>2, <2>4
      <3>3. LinksIn(heap, heap', p, 1, New, e)
        BY <1>2, <2>4, <3>1, <3>2 DEF WithNode, LinksIn
      <3>4. sets' = [sets EXCEPT ![s] = SetWith(sets[s], p, 1, New)]
        BY <1>6, <2>4, <3>2 DEF InsertBefore, Linked, Members, SetWith
      <3> QED
        BY <1>4, <1>6, <2>3, <2>4, <3>3, <3>4
    <2>5. CASE st # 1
      <3> DEFINE prev == p[st - 1]
                 h == [heap EXCEPT ![prev].next = New]
      <3>1. heap' = WithNode(h, e, p[st])
        BY <1>6, <2>5 DEF InsertBefore
      <3>2. st - 1 \in 1 .. l /\ prev \in DOMAIN heap /\ st > 1 /\ st # l + 1
        BY <1>1, <2>2, <2>5
      <3>3. LinksIn(heap, heap', p, st, New, e)
        <4>1. DOMAIN h = DOMAIN heap
          OBVIOUS
        <4>2. \A n \in DOMAIN heap :
                h[n] = IF n = prev THEN [element |-> heap[n].element, next |-> New] ELSE heap[n]
          BY <1>2, <3>2 DEF NodeType
        <4> HIDE DEF h, st
        <4> QED
          BY <1>2, <3>1, <3>2, <4>1, <4>2 DEF WithNode, LinksIn
      <3>4. sets' = [sets EXCEPT ![s] = SetWith(sets[s], p, st, New)]
        <4> HIDE DEF st
        <4>1. sets' = Members(s, sets[s].head, sets[s].tail, sets[s].size + 1)
          BY <1>6, <2>5 DEF InsertBefore, Linked, st
        <4> QED
          BY <2>5, <3>2, <4>1 DEF Members, SetWith
      <3> HIDE DEF st
      <3> QED
        BY <1>4, <1>6, <2>3, <3>3, <3>4
    <2> QED
      BY <2>4, <2>5
  <1>7. CASE InsertLast(s, e) /\ returned = INSERT_SUCCESS
    <2> DEFINE prev == p[l]
               h == [heap EXCEPT ![prev].next = New]
    <2>1. st = 0 /\ p # <<>> /\ l # 0 /\ sets[s].tail = prev /\ l \in 1 .. l
          /\ prev \in DOMAIN heap
      BY <1>1, <1>7 DEF InsertLast, SetBegin
    <2>2. GoesAt(heap, sets[s].by, p, l + 1, e)
      <3> HIDE DEF l
      <3> QED
        BY <2>1, StopGoesAt DEF l
    <2>3. LinksIn(heap, heap', p, l + 1, New, e)
      <3>1. heap' = WithNode(h, e, NULL)
        BY <1>7, <2>1 DEF InsertLast
      <3>2. \A n \in DOMAIN heap :
              h[n] = IF n = prev THEN [element |-> heap[n].element, next |-> New] ELSE heap[n]
        BY <1>2, <2>1 DEF NodeType
      <3>3. DOMAIN h = DOMAIN heap /\ l + 1 > 1 /\ (l + 1) - 1 = l
        BY <1>1, <2>1
      <3> HIDE DEF h
      <3> QED
        BY <1>2, <3>1, <3>2, <3>3 DEF WithNode, LinksIn
    <2>4. sets' = [sets EXCEPT ![s] = SetWith(sets[s], p, l + 1, New)]
      <3>1. sets' = Members(s, sets[s].head, New, sets[s].size + 1)
        BY <1>7 DEF InsertLast, Linked
      <3>2. l + 1 # 1 /\ l + 1 = Len(p) + 1
        BY <1>1, <2>1
      <3> HIDE DEF l
      <3> QED
        BY <3>1, <3>2 DEF Members, SetWith
    <2> QED
      BY <1>4, <1>7, <2>2, <2>3, <2>4
  <1>8. ASSUME UNCHANGED <<heap, sets>>
        PROVE  /\ ListInv' /\ \A t \in Handles : sets'[t].by = sets[t].by
               /\ \A t \in Handles \ {s} : Nodes(t)' = Nodes(t) /\ ElementsOf(t)' = ElementsOf(t)
               /\ \A n \in DOMAIN heap : n \in DOMAIN heap' /\ heap'[n].element = heap[n].element
    BY <1>8, SameLists
  <1>9. CASE returned = INSERT_DUPLICATE /\ InsertDuplicate(s, e)
    <2>1. /\ st # 0 /\ Compare(sets[s].by, heap[p[st]].element, e) = 0
          /\ UNCHANGED <<heap, sets>>
      BY <1>9 DEF InsertDuplicate
    <2>2. st \in 1 .. l
      BY <1>1, <2>1, StopFacts
    <2>3. heap[p[st]].element \in Int /\ e \in Int
      BY <2>2, ListFacts, ElementFacts
    <2>4. heap[p[st]].element = e
      BY <2>1, <2>3 DEF Compare, CompareNumbers, CompareSets
    <2>5. e \in ElementsOf(s)
      <3> HIDE DEF st
      <3> QED
        BY <2>2, <2>4, ContentFacts DEF Content
    <2> QED
      BY <1>8, <1>9, <2>1, <2>5
  <1>10. CASE returned = INSERT_ERROR /\ UNCHANGED <<heap, sets>>
    BY <1>8, <1>10
  <1> QED
    BY <1>5, <1>6, <1>7, <1>9, <1>10 DEF SetInsert

-----------------------------------------------------------------------------
(* The other calls that change a list.                                     *)

\* The empty list.
LEMMA EmptyIsList ==
  ASSUME NEW h, NEW by
  PROVE  LET set == [by |-> by, head |-> NULL, tail |-> NULL, size |-> 0]
         IN  (by = "none" => set = NoSet) => IsList(h, set, <<>>)
  BY EmptySeq DEF IsList, IsPath, InOrder

LEMMA InitSetFacts ==
  ASSUME ListInv, NEW s \in Handles, ~ Exists(s), UNCHANGED heap,
         NEW by \in {"number", "equality"},
         sets' = [sets EXCEPT ![s] = [by |-> by, head |-> NULL, tail |-> NULL, size |-> 0]]
  PROVE  /\ ListInv'
         /\ ElementsOf(s)' = {}
         /\ \A t \in Handles \ {s} : Nodes(t)' = Nodes(t) /\ ElementsOf(t)' = ElementsOf(t)
  <1> DEFINE set == [by |-> by, head |-> NULL, tail |-> NULL, size |-> 0]
             none == <<>>
  <1>1. Nodes(s) = none
    BY ListFacts, EmptySeq DEF Exists, NoSet, IsList
  <1>2. IsList(heap', set, none) /\ set \in SetType
    BY EmptyIsList DEF SetType, NULL
  <1>3. /\ IsFiniteSet(DOMAIN heap) /\ DOMAIN heap \subseteq Nat \ {0}
        /\ heap \in [DOMAIN heap -> NodeType]
    BY DEF ListInv, AreLists
  <1>4. sets' = [sets EXCEPT ![s] = set] /\ Len(none) = 0 /\ 1 .. 0 = {}
    OBVIOUS
  <1> HIDE DEF set, none
  <1>5. ListBecomes(s, set, none)
    BY <1>1, <1>2, <1>3, <1>4 DEF ListBecomes
  <1>6. /\ ListInv' /\ ElementsOf(s)' = Content(heap', none)
        /\ \A t \in Handles \ {s} : Nodes(t)' = Nodes(t) /\ ElementsOf(t)' = ElementsOf(t)
    BY <1>5, OneListChanges
  <1> QED
    BY <1>4, <1>6 DEF Content

LEMMA DestroyFacts ==
  ASSUME ListInv, NEW s \in Handles, DestroySet(s)
  PROVE  /\ ListInv'
         /\ sets' = [sets EXCEPT ![s] = NoSet]
         /\ \A t \in Handles \ {s} : Nodes(t)' = Nodes(t) /\ ElementsOf(t)' = ElementsOf(t)
  <1> DEFINE none == <<>>
             D == DOMAIN heap \ ToSet(Nodes(s))
  <1>1. heap' = [n \in D |-> heap[n]] /\ sets' = [sets EXCEPT ![s] = NoSet]
    BY DEF DestroySet
  <1>2. IsList(heap', NoSet, none) /\ NoSet \in SetType
    BY EmptyIsList DEF SetType, NULL, NoSet
  <1>3. /\ IsFiniteSet(DOMAIN heap) /\ DOMAIN heap \subseteq Nat \ {0}
        /\ \A n \in DOMAIN heap : heap[n] \in NodeType
    BY DEF ListInv, AreLists
  <1>4. \A n \in DOMAIN heap : n \in D <=> \A k \in 1 .. Len(Nodes(s)) : n # Nodes(s)[k]
    BY ContentFacts
  <1>5. IsFiniteSet(D) /\ D \subseteq DOMAIN heap
    BY <1>3, FS_Subset
  <1>6. Len(none) = 0 /\ 1 .. 0 = {}
    OBVIOUS
  <1> HIDE DEF none, D
  <1>7. ListBecomes(s, NoSet, none)
    BY <1>1, <1>2, <1>3, <1>4, <1>5, <1>6 DEF ListBecomes
  <1> QED
    BY <1>1, <1>7, OneListChanges

\* set_decapitate() of a list that is not empty.
LEMMA DecapitateFacts ==
  ASSUME ListInv, NEW s \in Handles, SetDecapitate(s), sets[s].head # NULL
  PROVE  /\ ListInv'
         /\ sets'[s].by = sets[s].by /\ \A t \in Handles \ {s} : sets'[t] = sets[t]
         /\ heap[sets[s].head].element \in ElementsOf(s)
         /\ ElementsOf(s)' = ElementsOf(s) \ {heap[sets[s].head].element}
         /\ sets[s].by = "number"
              => \A x \in ElementsOf(s) : heap[sets[s].head].element <= x
         /\ \A t \in Handles \ {s} : Nodes(t)' = Nodes(t) /\ ElementsOf(t)' = ElementsOf(t)
  <1> DEFINE p == Nodes(s)
             l == Len(p)
             head == sets[s].head
             q == Tail(p)
             set == [by   |-> sets[s].by,
                     head |-> heap[head].next,
                     tail |-> IF heap[head].next = NULL THEN NULL ELSE sets[s].tail,
                     size |-> sets[s].size - 1]
  <1>1. /\ heap' = [n \in DOMAIN heap \ {head} |-> heap[n]]
        /\ sets' = [sets EXCEPT ![s] = set]
    BY DEF SetDecapitate, Members
  <1>2. /\ p \in Seq(DOMAIN heap) /\ l \in Nat
        /\ \A k \in 1 .. l : p[k] \in DOMAIN heap
        /\ head = IF p = <<>> THEN NULL ELSE p[1]
        /\ sets[s].tail = IF p = <<>> THEN NULL ELSE p[l]
        /\ sets[s].size = l
        /\ \A k \in 1 .. l : heap[p[k]].next = IF k = l THEN NULL ELSE p[k + 1]
        /\ \A j, k \in 1 .. l : p[j] = p[k] => j = k
        /\ InOrder(heap, sets[s].by, p)
        /\ sets[s] \in SetType /\ (p = <<>> <=> l = 0)
        /\ sets[s].by # "none"
    BY ListFacts, EmptySeq DEF IsList, IsPath, SetDecapitate
  <1>3. /\ IsFiniteSet(DOMAIN heap) /\ DOMAIN heap \subseteq Nat \ {0}
        /\ \A n \in DOMAIN heap : heap[n] \in NodeType /\ n # NULL
        /\ sets \in [Handles -> SetType]
    BY DEF ListInv, AreLists, NULL
  <1>4. p # <<>> /\ head = p[1] /\ 1 \in 1 .. l /\ l - 1 \in Nat
    BY <1>2
  <1>5. /\ Len(q) = l - 1 /\ q \in Seq(DOMAIN heap)
        /\ \A k \in 1 .. l - 1 : q[k] = p[k + 1] /\ k + 1 \in 1 .. l
    BY <1>2, <1>4
  <1>6. \A k \in 1 .. l - 1 : q[k] \in DOMAIN heap' /\ heap'[q[k]] = heap[q[k]]
    <2> SUFFICES ASSUME NEW k \in 1 .. l - 1
                 PROVE  q[k] \in DOMAIN heap' /\ heap'[q[k]] = heap[q[k]]
      OBVIOUS
    <2>1. q[k] = p[k + 1] /\ k + 1 \in 1 .. l /\ k + 1 # 1
      BY <1>2, <1>5
    <2>2. q[k] \in DOMAIN heap /\ q[k] # head
      BY <1>2, <1>4, <2>1
    <2> QED
      BY <1>1, <2>2
  <1>7. q = <<>> <=> l = 1
    <2> HIDE DEF q
    <2> QED
      BY <1>2, <1>4, <1>5, EmptySeq
  <1> HIDE DEF q, l, p, head
  <1>8. heap[head].next = IF l = 1 THEN NULL ELSE p[2]
    <2>1. heap[p[1]].next = IF 1 = l THEN NULL ELSE p[1 + 1]
      BY <1>2, <1>4
    <2> QED
      BY <1>4, <2>1
  <1>9. l # 1 => /\ 1 \in 1 .. l - 1 /\ l - 1 \in 1 .. l - 1 /\ 2 \in 1 .. l
                 /\ q[1] = p[2] /\ q[l - 1] = p[l]
    <2> SUFFICES ASSUME l # 1
                 PROVE  /\ 1 \in 1 .. l - 1 /\ l - 1 \in 1 .. l - 1 /\ 2 \in 1 .. l
                        /\ q[1] = p[2] /\ q[l - 1] = p[l]
      OBVIOUS
    <2>1. 1 \in 1 .. l - 1 /\ l - 1 \in 1 .. l - 1 /\ 2 \in 1 .. l /\ (l - 1) + 1 = l
      BY <1>2, <1>4
    <2>2. q[1] = p[1 + 1] /\ q[l - 1] = p[(l - 1) + 1]
      BY <1>5, <2>1
    <2> QED
      BY <2>1, <2>2
  <1>10. IsList(heap', set, q)
    <2>1. q \in Seq(DOMAIN heap')
      <3>1. q \in [1 .. l - 1 -> DOMAIN heap]
        BY <1>4, <1>5
      <3>2. q \in [1 .. l - 1 -> DOMAIN heap']
        BY <1>6, <3>1
      <3> QED
        BY <1>4, <3>2
    <2>2. \A k \in 1 .. l - 1 : heap'[q[k]].next = IF k = l - 1 THEN NULL ELSE q[k + 1]
      <3> SUFFICES ASSUME NEW k \in 1 .. l - 1
                   PROVE  heap'[q[k]].next = IF k = l - 1 THEN NULL ELSE q[k + 1]
        OBVIOUS
      <3>1. k + 1 \in 1 .. l /\ q[k] = p[k + 1]
            /\ (k # l - 1 => k + 1 \in 1 .. l - 1)
            /\ (k = l - 1 <=> k + 1 = l)
        BY <1>2, <1>5
      <3>2. heap[p[k + 1]].next = IF k + 1 = l THEN NULL ELSE p[(k + 1) + 1]
        BY <1>2, <3>1
      <3>3. k # l - 1 => q[k + 1] = p[(k + 1) + 1]
        BY <1>5, <3>1
      <3> QED
        BY <1>6, <3>1, <3>2, <3>3
    <2>3. \A j, k \in 1 .. l - 1 : q[j] = q[k] => j = k
      <3> SUFFICES ASSUME NEW j \in 1 .. l - 1, NEW k \in 1 .. l - 1, q[j] = q[k]
                   PROVE  j = k
        OBVIOUS
      <3>1. j + 1 \in 1 .. l /\ k + 1 \in 1 .. l /\ p[j + 1] = p[k + 1]
        BY <1>5
      <3>2. j + 1 = k + 1
        BY <1>2, <3>1
      <3> QED
        BY <3>2
    <2>4. InOrder(heap', set.by, q)
      <3> SUFFICES ASSUME NEW j \in 1 .. l - 1, NEW k \in 1 .. l - 1, j < k
                   PROVE  /\ heap'[q[j]].element # heap'[q[k]].element
                          /\ set.by = "number" => heap'[q[j]].element < heap'[q[k]].element
        BY <1>5 DEF InOrder
      <3>1. /\ j + 1 < k + 1 /\ j + 1 \in 1 .. l /\ k + 1 \in 1 .. l
            /\ heap'[q[j]] = heap[p[j + 1]] /\ heap'[q[k]] = heap[p[k + 1]]
        BY <1>5, <1>6
      <3>2. /\ heap[p[j + 1]].element # heap[p[k + 1]].element
            /\ sets[s].by = "number" => heap[p[j + 1]].element < heap[p[k + 1]].element
        BY <1>2, <3>1 DEF InOrder, l
      <3> QED
        BY <3>1, <3>2
    <2>5. set.head = IF q = <<>> THEN NULL ELSE q[1]
      BY <1>7, <1>8, <1>9
    <2>6. set.tail = IF q = <<>> THEN NULL ELSE q[Len(q)]
      <3>1. l # 1 => p[2] # NULL
        BY <1>2, <1>3, <1>9
      <3> QED
        BY <1>2, <1>4, <1>5, <1>7, <1>8, <1>9, <3>1
    <2>7. set.size = Len(q) /\ set.by # "none"
      BY <1>2, <1>5
    <2> HIDE DEF set
    <2>8. IsPath(heap', set.head, q)
      BY <1>5, <2>1, <2>2, <2>3, <2>5 DEF IsPath
    <2> QED
      BY <2>4, <2>6, <2>7, <2>8 DEF IsList
  <1>11. set \in SetType
    <2>1. heap[head].next \in Nat /\ sets[s].tail \in Nat /\ sets[s].size - 1 \in Nat
      BY <1>2, <1>3, <1>4 DEF NodeType, SetType
    <2> QED
      BY <1>2, <2>1 DEF SetType, NULL
  <1>12. \A k \in 1 .. l : k = 1 \/ (k - 1 \in 1 .. l - 1 /\ q[k - 1] = p[k])
    <2> SUFFICES ASSUME NEW k \in 1 .. l, k # 1 PROVE k - 1 \in 1 .. l - 1 /\ q[k - 1] = p[k]
      OBVIOUS
    <2>1. k - 1 \in 1 .. l - 1 /\ (k - 1) + 1 = k
      BY <1>2
    <2> QED
      BY <1>5, <2>1
  <1>13. ListBecomes(s, set, q)
    <2>1. IsFiniteSet(DOMAIN heap') /\ DOMAIN heap' \subseteq Nat \ {0}
      BY <1>1, <1>3, FS_RemoveElement
    <2>2. heap' \in [DOMAIN heap' -> NodeType]
      BY <1>1, <1>3
    <2>3. \A n \in DOMAIN heap :
            (\A k \in 1 .. l : n # p[k]) => n \in DOMAIN heap' /\ heap'[n] = heap[n]
      BY <1>1, <1>4
    <2>4. \A k \in 1 .. l - 1 : \E j \in 1 .. l : q[k] = p[j]
      BY <1>5
    <2>5. \A n \in DOMAIN heap' :
            \/ \E k \in 1 .. l - 1 : n = q[k]
            \/ n \in DOMAIN heap /\ \A j \in 1 .. l : n # p[j]
      BY <1>1, <1>4, <1>12
    <2> HIDE DEF set
    <2> QED
      BY <1>1, <1>5, <1>10, <1>11, <2>1, <2>2, <2>3, <2>4, <2>5 DEF ListBecomes, set, l, p
  <1>14. /\ ListInv' /\ ElementsOf(s)' = Content(heap', q)
         /\ \A t \in Handles \ {s} : Nodes(t)' = Nodes(t) /\ ElementsOf(t)' = ElementsOf(t)
    <2> HIDE DEF set
    <2> QED
      BY <1>13, OneListChanges
  <1>15. sets'[s].by = sets[s].by /\ \A t \in Handles \ {s} : sets'[t] = sets[t]
    BY <1>1, <1>3
  <1>16. /\ ElementsOf(s) = {heap[p[k]].element : k \in 1 .. l}
         /\ ElementsOf(s)' = {heap'[q[k]].element : k \in 1 .. l - 1}
    BY <1>5, <1>14, ContentFacts DEF Content, l, p
  <1>17. \A k \in 1 .. l :
           k # 1 => /\ heap[p[k]].element # heap[head].element
                    /\ sets[s].by = "number" => heap[head].element < heap[p[k]].element
    BY <1>2, <1>4 DEF InOrder, l
  <1>18. heap[head].element \in ElementsOf(s)
    BY <1>4, <1>16
  <1>19. sets[s].by = "number" => \A x \in ElementsOf(s) : heap[head].element <= x
    <2> SUFFICES ASSUME sets[s].by = "number", NEW k \in 1 .. l
                 PROVE  heap[head].element <= heap[p[k]].element
      BY <1>16
    <2>1. heap[head].element \in Int /\ heap[p[k]].element \in Int
      BY <1>2, <1>3, <1>4, ElementFacts DEF NodeType
    <2> QED
      BY <1>4, <1>17, <2>1
  <1>20. ElementsOf(s)' = ElementsOf(s) \ {heap[head].element}
    <2>1. \A x \in ElementsOf(s)' : x \in ElementsOf(s) /\ x # heap[head].element
      <3> SUFFICES ASSUME NEW k \in 1 .. l - 1
                   PROVE  /\ heap'[q[k]].element \in ElementsOf(s)
                          /\ heap'[q[k]].element # heap[head].element
        BY <1>16
      <3>1. heap'[q[k]] = heap[p[k + 1]] /\ k + 1 \in 1 .. l /\ k + 1 # 1
        BY <1>5, <1>6
      <3> QED
        BY <1>16, <1>17, <3>1
    <2>2. \A x \in ElementsOf(s) : x # heap[head].element => x \in ElementsOf(s)'
      <3> SUFFICES ASSUME NEW k \in 1 .. l, heap[p[k]].element # heap[head].element
                   PROVE  heap[p[k]].element \in ElementsOf(s)'
        BY <1>16
      <3>1. k # 1
        BY <1>4
      <3> QED
        BY <1>6, <1>12, <1>16, <3>1
    <2> QED
      BY <2>1, <2>2
  <1> QED
    BY <1>14, <1>15, <1>18, <1>19, <1>20 DEF head

-----------------------------------------------------------------------------
(* A set_union() that runs: the elements of rhs that the iteration has     *)
(* come by are in lhs, along with those that were there before, and no     *)
(* other.                                                                  *)

CallType == [lhs : Handles, rhs : Handles, curr : Nat, before : SUBSET Elements]

\* The union c is at the node k of rhs, that has the nodes p in h; content are
\* the elements of lhs.
IsAt(c, h, p, content, k) ==
  /\ c.curr = IF k = Len(p) + 1 THEN NULL ELSE p[k]
  /\ content = c.before \cup {h[p[j]].element : j \in 1 .. k - 1}
  /\ c.lhs = c.rhs => content = c.before

UnionInv ==
  call # Idle =>
    /\ call \in CallType
    /\ sets[call.lhs].by = "number" /\ sets[call.rhs].by = "number"
    /\ \E k \in 1 .. Len(Nodes(call.rhs)) + 1 :
         IsAt(call, heap, Nodes(call.rhs), ElementsOf(call.lhs), k)

Inv == ListInv /\ UnionInv

LEMMA CallFacts ==
  ASSUME Inv
  PROVE  /\ call = Idle => \A s \in Handles : s # call.lhs
         /\ call # Idle => call.lhs \in Handles /\ call.rhs \in Handles
         /\ \A s \in Handles : 0 \notin ElementsOf(s)
         /\ call # Idle => 0 \notin call.before
  <1>1. \A s \in Handles : 0 \notin ElementsOf(s)
    BY ContentFacts, ElementFacts DEF Inv, NULL
  <1>2. call = Idle => \A s \in Handles : s # call.lhs
    BY HandlesAssumption DEF Idle
  <1>3. call # Idle => /\ call.lhs \in Handles /\ call.rhs \in Handles
                       /\ 0 \notin call.before
    BY ElementFacts DEF Inv, UnionInv, CallType, NULL
  <1> QED
    BY <1>1, <1>2, <1>3

\* set_union() begins.
LEMMA BeginUnionFacts ==
  ASSUME Inv, NEW l \in Handles, NEW r \in Handles, BeginUnion(l, r)
  PROVE  Inv' /\ call' # Idle /\ call'.lhs = l /\ call'.before = ElementsOf(l)
  <1>1. /\ call' = [lhs |-> l, rhs |-> r, curr |-> SetBegin(r), before |-> ElementsOf(l)]
        /\ sets[l].by = "number" /\ sets[r].by = "number"
        /\ UNCHANGED <<heap, sets>>
    BY DEF BeginUnion
  <1>2. /\ ListInv' /\ Nodes(r)' = Nodes(r) /\ ElementsOf(l)' = ElementsOf(l)
    BY <1>1, SameLists DEF Inv
  <1>3. call' # Idle
    <2>1. call'.lhs = l /\ Idle.lhs = "none"
      BY <1>1 DEF Idle
    <2> QED
      BY <2>1, HandlesAssumption
  <1>4. /\ sets[r] \in SetType /\ ElementsOf(l) \subseteq Elements /\ Len(Nodes(r)) \in Nat
        /\ sets[r].head = IF Nodes(r) = <<>> THEN NULL ELSE Nodes(r)[1]
        /\ (Nodes(r) = <<>> <=> Len(Nodes(r)) = 0)
    <2>1. /\ Nodes(r) \in Seq(DOMAIN heap) /\ Len(Nodes(r)) \in Nat
          /\ IsList(heap, sets[r], Nodes(r)) /\ sets[r] \in SetType
      BY ListFacts DEF Inv
    <2>2. ElementsOf(l) \subseteq Elements
      BY ContentFacts DEF Inv
    <2>3. Nodes(r) = <<>> <=> Len(Nodes(r)) = 0
      BY <2>1, EmptySeq
    <2>4. IsPath(heap, sets[r].head, Nodes(r))
      BY <2>1 DEF IsList
    <2>5. sets[r].head = IF Nodes(r) = <<>> THEN NULL ELSE Nodes(r)[1]
      BY <2>4 DEF IsPath
    <2> QED
      BY <2>1, <2>2, <2>3, <2>5
  <1>5. call' \in CallType
    BY <1>1, <1>4 DEF CallType, SetBegin, SetType
  <1>6. IsAt(call', heap', Nodes(r)', ElementsOf(l)', 1)
    <2>1. 1 = Len(Nodes(r)) + 1 <=> Nodes(r) = <<>>
      BY <1>4
    <2>2. {heap'[Nodes(r)[j]].element : j \in 1 .. 1 - 1} = {}
      OBVIOUS
    <2>3. call'.curr = IF 1 = Len(Nodes(r)) + 1 THEN NULL ELSE Nodes(r)[1]
      <3>1. call'.curr = sets[r].head
        BY <1>1 DEF SetBegin
      <3> QED
        BY <1>4, <2>1, <3>1
    <2>4. call'.before = ElementsOf(l)
      BY <1>1
    <2>5. ElementsOf(l) = call'.before \cup {heap'[Nodes(r)[j]].element : j \in 1 .. 1 - 1}
      BY <2>2, <2>4
    <2> QED
      BY <1>2, <2>3, <2>4, <2>5 DEF IsAt
  <1>7. 1 \in 1 .. Len(Nodes(r)) + 1
    BY <1>4
  <1>8. UnionInv'
    BY <1>1, <1>2, <1>5, <1>6, <1>7 DEF UnionInv
  <1> QED
    BY <1>1, <1>2, <1>3, <1>8 DEF Inv

\* Where the union is.
LEMMA UnionFacts ==
  ASSUME Inv, call # Idle
  PROVE  /\ call \in CallType /\ Exists(call.lhs) /\ Exists(call.rhs)
         /\ sets[call.lhs].by = "number" /\ sets[call.rhs].by = "number"
         /\ \E k \in 1 .. Len(Nodes(call.rhs)) + 1 :
              /\ IsAt(call, heap, Nodes(call.rhs), ElementsOf(call.lhs), k)
              /\ call.curr = NULL <=> k = Len(Nodes(call.rhs)) + 1
              /\ call.curr # NULL =>
                   /\ k \in 1 .. Len(Nodes(call.rhs)) /\ call.curr = Nodes(call.rhs)[k]
                   /\ heap[call.curr].element \in Elements
                   /\ heap[call.curr].element \in ElementsOf(call.rhs)
                   /\ heap[call.curr].next = IF k = Len(Nodes(call.rhs)) THEN NULL
                                             ELSE Nodes(call.rhs)[k + 1]
  <1> DEFINE p == Nodes(call.rhs)
  <1>1. /\ call \in CallType
        /\ sets[call.lhs].by = "number" /\ sets[call.rhs].by = "number"
        /\ \E k \in 1 .. Len(p) + 1 : IsAt(call, heap, p, ElementsOf(call.lhs), k)
    BY DEF Inv, UnionInv
  <1>2. call.lhs \in Handles /\ call.rhs \in Handles
    BY <1>1 DEF CallType
  <1>3. Exists(call.lhs) /\ Exists(call.rhs)
    BY <1>1, <1>2, ListFacts DEF Inv
  <1>4. /\ Len(p) \in Nat
        /\ \A k \in 1 .. Len(p) :
             /\ p[k] \in DOMAIN heap /\ heap[p[k]].element \in Elements
             /\ heap[p[k]].next = IF k = Len(p) THEN NULL ELSE p[k + 1]
    BY <1>2, ListFacts DEF Inv, IsList, IsPath
  <1>5. \A k \in 1 .. Len(p) : heap[p[k]].element \in ElementsOf(call.rhs)
    BY <1>2, ContentFacts DEF Inv, Content
  <1>6. NULL \notin DOMAIN heap
    BY DEF Inv, ListInv, AreLists, NULL
  <1>7. PICK k \in 1 .. Len(p) + 1 : IsAt(call, heap, p, ElementsOf(call.lhs), k)
    BY <1>1
  <1> HIDE DEF p
  <1>8. call.curr = IF k = Len(p) + 1 THEN NULL ELSE p[k]
    BY <1>7 DEF IsAt
  <1>9. k # Len(p) + 1 => k \in 1 .. Len(p)
    BY <1>4
  <1>10. call.curr = NULL <=> k = Len(p) + 1
    BY <1>4, <1>6, <1>8, <1>9
  <1>11. call.curr # NULL =>
           /\ k \in 1 .. Len(p) /\ call.curr = p[k]
           /\ heap[call.curr].element \in Elements
           /\ heap[call.curr].element \in ElementsOf(call.rhs)
           /\ heap[call.curr].next = IF k = Len(p) THEN NULL ELSE p[k + 1]
    BY <1>4, <1>5, <1>8, <1>9, <1>10
  <1> QED
    BY <1>1, <1>3, <1>7, <1>10, <1>11 DEF p

\* set_union() comes by a node of rhs, or stops.
LEMMA UnionInsertFacts ==
  ASSUME Inv, UnionInsert, NEW l, NEW r, l = call.lhs, r = call.rhs
  PROVE  /\ Inv'
         /\ \A t \in Handles : sets'[t].by = sets[t].by
         /\ \A t \in Handles \ {l} : ElementsOf(t)' = ElementsOf(t)
         /\ \/ /\ call' # Idle /\ call'.lhs = l /\ call'.before = call.before
               /\ UNCHANGED result
            \/ /\ call' = Idle /\ UNCHANGED <<heap, sets>>
               /\ ElementsOf(l)' = ElementsOf(l)
               /\ Returned("set_union", <<l, r>>, 0)
  <1> DEFINE p == Nodes(r)
             e == heap[call.curr].element
  <1>1. /\ call # Idle /\ call.curr # NULL
        /\ \E returned \in {INSERT_SUCCESS, INSERT_DUPLICATE, INSERT_ERROR} :
             /\ SetInsert(l, e, returned)
             /\ IF returned = INSERT_ERROR
                THEN call' = Idle /\ Returned("set_union", <<l, r>>, 0)
                ELSE call' = [call EXCEPT !.curr = heap[call.curr].next] /\ UNCHANGED result
    BY DEF UnionInsert, AdvanceIter
  <1>2. PICK k \in 1 .. Len(p) + 1 :
          /\ IsAt(call, heap, p, ElementsOf(l), k)
          /\ k \in 1 .. Len(p) /\ call.curr = p[k]
          /\ e \in Elements /\ e \in ElementsOf(r)
          /\ heap[call.curr].next = IF k = Len(p) THEN NULL ELSE p[k + 1]
    BY <1>1, UnionFacts
  <1>3. /\ call \in CallType /\ Exists(l) /\ Exists(r) /\ l \in Handles /\ r \in Handles
        /\ sets[l].by = "number" /\ sets[r].by = "number"
    BY <1>1, UnionFacts DEF CallType
  <1>4. PICK returned \in {INSERT_SUCCESS, INSERT_DUPLICATE, INSERT_ERROR} :
          /\ SetInsert(l, e, returned)
          /\ IF returned = INSERT_ERROR
             THEN call' = Idle /\ Returned("set_union", <<l, r>>, 0)
             ELSE call' = [call EXCEPT !.curr = heap[call.curr].next] /\ UNCHANGED result
    BY <1>1
  <1>5. /\ Len(p) \in Nat /\ \A j \in 1 .. Len(p) : p[j] \in DOMAIN heap
        /\ ListInv /\ \A n \in DOMAIN heap : heap[n].next \in Nat
    BY <1>3, ListFacts DEF Inv, ListInv, AreLists, NodeType
  <1> HIDE DEF p, e
  <1>6. /\ ListInv'
        /\ \A t \in Handles : sets'[t].by = sets[t].by
        /\ \A t \in Handles \ {l} : Nodes(t)' = Nodes(t) /\ ElementsOf(t)' = ElementsOf(t)
        /\ \A n \in DOMAIN heap : n \in DOMAIN heap' /\ heap'[n].element = heap[n].element
        /\ \/ /\ returned = INSERT_SUCCESS
              /\ e \notin ElementsOf(l) /\ ElementsOf(l)' = ElementsOf(l) \cup {e}
           \/ returned = INSERT_DUPLICATE /\ e \in ElementsOf(l) /\ UNCHANGED <<heap, sets>>
           \/ returned = INSERT_ERROR /\ UNCHANGED <<heap, sets>>
    BY <1>2, <1>3, <1>4, <1>5, SetInsertFacts
  <1>7. CASE returned = INSERT_ERROR
    <2>1. call' = Idle /\ Returned("set_union", <<l, r>>, 0) /\ UNCHANGED <<heap, sets>>
      BY <1>4, <1>6, <1>7 DEF INSERT_ERROR, INSERT_SUCCESS, INSERT_DUPLICATE
    <2>2. ElementsOf(l)' = ElementsOf(l)
      BY <1>3, <1>5, <2>1, SameLists
    <2>3. Inv'
      BY <1>6, <2>1 DEF Inv, UnionInv, Idle
    <2> QED
      BY <1>6, <2>1, <2>2, <2>3
  <1>8. CASE returned # INSERT_ERROR
    <2>1. call' = [call EXCEPT !.curr = heap[call.curr].next] /\ UNCHANGED result
      BY <1>4, <1>8
    <2>2. heap[call.curr].next \in Nat
      BY <1>2, <1>5
    <2>3. /\ call' \in CallType /\ call'.lhs = l /\ call'.rhs = r
          /\ call'.before = call.before /\ call'.curr = heap[call.curr].next
      BY <1>3, <2>1, <2>2 DEF CallType
    <2>4. call' # Idle
      <3>1. call'.lhs = l /\ Idle.lhs = "none"
        BY <2>3 DEF Idle
      <3> QED
        BY <1>3, <3>1, HandlesAssumption
    <2>5. /\ ElementsOf(l)' = ElementsOf(l) \cup {e}
          /\ l = r => ElementsOf(l)' = ElementsOf(l)
      <3>1. CASE returned = INSERT_SUCCESS
        BY <1>2, <1>6, <3>1 DEF INSERT_ERROR, INSERT_SUCCESS, INSERT_DUPLICATE
      <3>2. CASE returned = INSERT_DUPLICATE
        <4>1. e \in ElementsOf(l) /\ UNCHANGED <<heap, sets>>
          BY <1>6, <3>2 DEF INSERT_ERROR, INSERT_SUCCESS, INSERT_DUPLICATE
        <4>2. ElementsOf(l)' = ElementsOf(l)
          BY <1>3, <1>5, <4>1, SameLists
        <4> QED
          BY <4>1, <4>2
      <3> QED
        BY <1>8, <3>1, <3>2
    <2>6. Nodes(r)' = p
      <3>1. CASE l # r
        BY <1>3, <1>6, <3>1 DEF p
      <3>2. CASE l = r
        <4>1. UNCHANGED <<heap, sets>>
          BY <1>2, <1>6, <3>2
        <4> QED
          BY <1>3, <1>5, <4>1, SameLists DEF p
      <3> QED
        BY <3>1, <3>2
    <2>7. {heap'[p[j]].element : j \in 1 .. k} = {heap[p[j]].element : j \in 1 .. k - 1} \cup {e}
      <3>1. \A j \in 1 .. k : heap'[p[j]].element = heap[p[j]].element
        <4> SUFFICES ASSUME NEW j \in 1 .. k PROVE heap'[p[j]].element = heap[p[j]].element
          OBVIOUS
        <4>1. p[j] \in DOMAIN heap
          BY <1>2, <1>5
        <4> QED
          BY <1>6, <4>1
      <3>2. heap[p[k]].element = e /\ k \in 1 .. k
        BY <1>2, <1>5 DEF e
      <3>3. \A j \in 1 .. k : j = k \/ j \in 1 .. k - 1
        BY <1>2, <1>5
      <3>4. \A j \in 1 .. k - 1 : j \in 1 .. k
        BY <1>2, <1>5
      <3> QED
        BY <3>1, <3>2, <3>3, <3>4
    <2>8. IsAt(call', heap', p, ElementsOf(l)', k + 1)
      <3>1. /\ ElementsOf(l) = call.before \cup {heap[p[j]].element : j \in 1 .. k - 1}
            /\ l = r => ElementsOf(l) = call.before
        BY <1>2 DEF IsAt
      <3>2. (k + 1) - 1 = k /\ (k + 1 = Len(p) + 1 <=> k = Len(p))
        BY <1>2, <1>5
      <3>3. ElementsOf(l)' = call'.before \cup {heap'[p[j]].element : j \in 1 .. (k + 1) - 1}
        BY <2>3, <2>5, <2>7, <3>1, <3>2
      <3>4. call'.curr = IF k + 1 = Len(p) + 1 THEN NULL ELSE p[k + 1]
        BY <1>2, <2>3, <3>2
      <3>5. call'.lhs = call'.rhs => ElementsOf(l)' = call'.before
        BY <2>3, <2>5, <3>1
      <3> QED
        BY <3>3, <3>4, <3>5 DEF IsAt
    <2>9. k + 1 \in 1 .. Len(p) + 1
      BY <1>2, <1>5
    <2>10. UnionInv'
      <3>1. IsAt(call', heap', Nodes(r)', ElementsOf(l)', k + 1) /\ k + 1 \in 1 .. Len(Nodes(r)') + 1
        BY <2>6, <2>8, <2>9
      <3>2. sets'[l].by = "number" /\ sets'[r].by = "number"
        BY <1>3, <1>6
      <3>3. call' \in CallType /\ call'.lhs = l /\ call'.rhs = r
        BY <2>3
      <3>4. Nodes(call.rhs)' = Nodes(r)' /\ ElementsOf(call.lhs)' = ElementsOf(l)'
        BY <3>3 DEF Nodes, ElementsOf
      <3> QED
        BY <3>1, <3>2, <3>3, <3>4 DEF UnionInv
    <2>11. Inv'
      BY <1>6, <2>10 DEF Inv
    <2> QED
      BY <1>6, <2>1, <2>3, <2>4, <2>11
  <1> QED
    BY <1>7, <1>8

-----------------------------------------------------------------------------
(* The sets that the lists stand for.                                      *)

ContentBar == [s \in Handles |-> IF ~ Exists(s) THEN {0}
                                 ELSE IF s = call.lhs THEN call.before
                                 ELSE ElementsOf(s)]

SortedBar == [s \in Handles |-> sets[s].by # "equality"]

LEMMA BarFacts ==
  ASSUME Inv, NEW s \in Handles
  PROVE  /\ ContentBar[s] # {0} <=> Exists(s)
         /\ Exists(s) <=> sets[s].by # "none"
         /\ Exists(s) /\ s # call.lhs => ContentBar[s] = ElementsOf(s)
         /\ Exists(s) /\ s = call.lhs => ContentBar[s] = call.before
         /\ call = Idle => s # call.lhs
         /\ SortedBar[s] <=> sets[s].by # "equality"
  <1>1. Exists(s) <=> sets[s].by # "none"
    BY ListFacts DEF Inv
  <1>2. 0 \notin ElementsOf(s) /\ (s = call.lhs => call # Idle /\ 0 \notin call.before)
    BY CallFacts
  <1> QED
    BY <1>1, <1>2 DEF ContentBar, SortedBar

LEMMA BarNext ==
  ASSUME Inv'
  PROVE  /\ ContentBar' = [s \in Handles |-> IF sets'[s].by = "none" THEN {0}
                                             ELSE IF s = call'.lhs THEN call'.before
                                             ELSE ElementsOf(s)']
         /\ SortedBar' = [s \in Handles |-> sets'[s].by # "equality"]
  <1>1. AreLists(heap', sets', Paths')
    BY DEF Inv, ListInv
  <1>2. \A s \in Handles : Exists(s)' <=> sets'[s].by # "none"
    BY <1>1 DEF AreLists, IsList, Exists, NoSet
  <1> QED
    BY <1>2 DEF ContentBar, SortedBar

\* A call from beginning to end, on one set: what its list holds is its set.
LEMMA BarStep ==
  ASSUME Inv, Inv', call = Idle, call' = Idle, NEW s \in Handles,
         \A t \in Handles \ {s} : sets'[t].by = sets[t].by /\ ElementsOf(t)' = ElementsOf(t)
  PROVE  /\ ContentBar' = [ContentBar EXCEPT ![s] = IF sets'[s].by = "none" THEN {0}
                                                    ELSE ElementsOf(s)']
         /\ SortedBar' = [SortedBar EXCEPT ![s] = sets'[s].by # "equality"]
  <1>1. \A t \in Handles : t # call'.lhs
    BY HandlesAssumption DEF Idle
  <1>2. \A t \in Handles : ContentBar'[t] = IF sets'[t].by = "none" THEN {0} ELSE ElementsOf(t)'
    BY <1>1, BarNext
  <1>3. \A t \in Handles : ContentBar[t] = IF sets[t].by = "none" THEN {0} ELSE ElementsOf(t)
    <2> SUFFICES ASSUME NEW t \in Handles
                 PROVE  ContentBar[t] = IF sets[t].by = "none" THEN {0} ELSE ElementsOf(t)
      OBVIOUS
    <2>1. t # call.lhs /\ (Exists(t) <=> sets[t].by # "none")
      BY BarFacts
    <2> QED
      BY <2>1 DEF ContentBar
  <1>4. /\ ContentBar' = [t \in Handles |-> ContentBar'[t]]
        /\ ContentBar = [t \in Handles |-> ContentBar[t]]
    BY BarNext DEF ContentBar
  <1>5. SortedBar' = [SortedBar EXCEPT ![s] = sets'[s].by # "equality"]
    <2>1. \A t \in Handles \ {s} : sets'[t].by = sets[t].by
      OBVIOUS
    <2> QED
      BY <2>1, BarNext DEF SortedBar
  <1> HIDE DEF ContentBar
  <1> DEFINE x == IF sets'[s].by = "none" THEN {0} ELSE ElementsOf(s)'
  <1>6. \A t \in Handles : ContentBar'[t] = IF t = s THEN x ELSE ContentBar[t]
    BY <1>2, <1>3
  <1> HIDE DEF x
  <1>7. ContentBar' = [ContentBar EXCEPT ![s] = x]
    BY <1>4, <1>6
  <1> QED
    BY <1>5, <1>7 DEF x

\* A step after which the lists hold what they held.
LEMMA BarStays ==
  ASSUME Inv, Inv', \A s \in Handles : sets'[s].by = sets[s].by,
         \A s \in Handles : ContentBar'[s] = ContentBar[s]
  PROVE  UNCHANGED <<ContentBar, SortedBar>>
  <1>1. /\ ContentBar' = [t \in Handles |-> ContentBar'[t]]
        /\ ContentBar = [t \in Handles |-> ContentBar[t]]
    BY BarNext DEF ContentBar
  <1>2. ContentBar' = ContentBar
    BY <1>1
  <1>3. SortedBar' = SortedBar
    BY BarNext DEF SortedBar
  <1> QED
    BY <1>2, <1>3

-----------------------------------------------------------------------------
(* Each call does to the sets what AbstractSet says.                       *)

Implements == Inv' /\ [Abstract!Next]_<<ContentBar, SortedBar, result>>

LEMMA SameCall ==
  ASSUME Inv, UNCHANGED <<heap, sets, call>>
  PROVE  Inv' /\ UNCHANGED <<ContentBar, SortedBar>>
  <1>1. /\ ListInv'
        /\ \A s \in Handles : Nodes(s)' = Nodes(s) /\ ElementsOf(s)' = ElementsOf(s)
    BY SameLists DEF Inv
  <1>2. UnionInv'
    <2>1. Nodes(call.rhs)' = Nodes(call.rhs) /\ ElementsOf(call.lhs)' = ElementsOf(call.lhs)
      BY DEF Nodes, ElementsOf, SetBegin, AdvanceIter
    <2> QED
      BY <2>1 DEF Inv, UnionInv
  <1>3. UNCHANGED <<ContentBar, SortedBar>>
    BY <1>1 DEF ContentBar, SortedBar, Exists
  <1> QED
    BY <1>1, <1>2, <1>3 DEF Inv

LEMMA IdleInv == ASSUME ListInv', call' = Idle PROVE Inv'
  BY DEF Inv, UnionInv

LEMMA InitSetImplements ==
  ASSUME Inv, NEW s \in Handles, InitSet(s)
  PROVE  Implements
  <1>1. call = Idle /\ call' = Idle /\ ~ Exists(s) /\ UNCHANGED heap
    BY DEF InitSet
  <1>2. ContentBar[s] = {0}
    BY <1>1, BarFacts
  <1>3. CASE UNCHANGED sets /\ Returned("init_set", <<s>>, 0)
    <2>1. Inv' /\ UNCHANGED <<ContentBar, SortedBar>>
      BY <1>1, <1>3, SameCall
    <2>2. Abstract!Create(s)
      BY <1>2, <1>3, <2>1 DEF Abstract!Create, Abstract!Exists, Abstract!NoSet, Abstract!Query,
         Abstract!Returned, Returned, ContentBar, SortedBar
    <2> QED
      BY <2>1, <2>2 DEF Implements, Abstract!Next
  <1>4. ASSUME NEW by \in {"number", "equality"},
               sets' = [sets EXCEPT ![s] = [by |-> by, head |-> NULL, tail |-> NULL, size |-> 0]],
               Returned("init_set", <<s>>, 1)
        PROVE  Implements
    <2>1. /\ ListInv' /\ ElementsOf(s)' = {}
          /\ \A t \in Handles \ {s} : Nodes(t)' = Nodes(t) /\ ElementsOf(t)' = ElementsOf(t)
      BY <1>1, <1>4, InitSetFacts DEF Inv
    <2>2. Inv'
      BY <1>1, <2>1, IdleInv
    <2>3. sets'[s].by = by /\ \A t \in Handles \ {s} : sets'[t].by = sets[t].by
      BY <1>4 DEF Inv, ListInv, AreLists
    <2>4. /\ ContentBar' = [ContentBar EXCEPT ![s] = {}]
          /\ SortedBar' = [SortedBar EXCEPT ![s] = (by # "equality")]
      BY <1>1, <1>4, <2>1, <2>2, <2>3, BarStep
    <2>5. Abstract!Create(s)
      BY <1>2, <1>4, <2>4 DEF Abstract!Create, Abstract!Exists, Abstract!NoSet,
         Abstract!Returned, Returned, ContentBar, SortedBar
    <2> QED
      BY <2>2, <2>5 DEF Implements, Abstract!Next
  <1> QED
    BY <1>3, <1>4 DEF InitSet

LEMMA DestroyImplements ==
  ASSUME Inv, NEW s \in Handles, DestroySet(s)
  PROVE  Implements
  <1>1. call = Idle /\ call' = Idle /\ Exists(s) /\ Returned("destroy_set", <<s>>, 0)
    BY DEF DestroySet
  <1>2. ContentBar[s] # {0}
    BY <1>1, BarFacts
  <1>3. /\ ListInv' /\ sets' = [sets EXCEPT ![s] = NoSet]
        /\ \A t \in Handles \ {s} : Nodes(t)' = Nodes(t) /\ ElementsOf(t)' = ElementsOf(t)
    BY DestroyFacts DEF Inv
  <1>4. Inv'
    BY <1>1, <1>3, IdleInv
  <1>5. sets'[s].by = "none" /\ \A t \in Handles \ {s} : sets'[t].by = sets[t].by
    BY <1>3 DEF Inv, ListInv, AreLists, NoSet
  <1>6. /\ ContentBar' = [ContentBar EXCEPT ![s] = {0}]
        /\ SortedBar' = [SortedBar EXCEPT ![s] = TRUE]
    BY <1>1, <1>3, <1>4, <1>5, BarStep
  <1>7. Abstract!Destroy(s)
    BY <1>1, <1>2, <1>6 DEF Abstract!Destroy, Abstract!Exists, Abstract!NoSet,
       Abstract!Returned, Returned, ContentBar, SortedBar
  <1> QED
    BY <1>4, <1>7 DEF Implements, Abstract!Next

LEMMA InsertImplements ==
  ASSUME Inv, NEW s \in Handles, NEW e \in Elements, Insert(s, e)
  PROVE  Implements
  <1>1. call = Idle /\ call' = Idle /\ Exists(s) /\ (sets[s].by = "number" \/ Find(s, e) = NULL)
    BY DEF Insert
  <1>2. PICK returned \in {INSERT_SUCCESS, INSERT_DUPLICATE, INSERT_ERROR} :
          SetInsert(s, e, returned) /\ Returned("set_insert", <<s, e>>, returned)
    BY DEF Insert
  <1>3. sets[s].by = "number" \/ e \notin ElementsOf(s)
    BY <1>1, FindFacts, ElementFacts DEF Inv
  <1>4. ContentBar[s] # {0} /\ ContentBar[s] = ElementsOf(s) /\ sets[s].by # "none"
    BY <1>1, BarFacts
  <1>5. /\ ListInv'
        /\ \A t \in Handles : sets'[t].by = sets[t].by
        /\ \A t \in Handles \ {s} : Nodes(t)' = Nodes(t) /\ ElementsOf(t)' = ElementsOf(t)
        /\ \/ /\ returned = INSERT_SUCCESS
              /\ e \notin ElementsOf(s) /\ ElementsOf(s)' = ElementsOf(s) \cup {e}
           \/ returned = INSERT_DUPLICATE /\ e \in ElementsOf(s) /\ UNCHANGED <<heap, sets>>
           \/ returned = INSERT_ERROR /\ UNCHANGED <<heap, sets>>
    BY <1>1, <1>2, <1>3, SetInsertFacts DEF Inv
  <1>6. Inv'
    BY <1>1, <1>5, IdleInv
  <1>7. CASE returned = INSERT_ERROR /\ UNCHANGED <<heap, sets>>
    <2>1. UNCHANGED <<ContentBar, SortedBar>>
      BY <1>1, <1>7, SameCall
    <2>2. Abstract!Insert(s, e)
      BY <1>2, <1>4, <1>7, <2>1 DEF Abstract!Insert, Abstract!Exists, Abstract!NoSet,
         Abstract!Query, Abstract!Returned, Abstract!INSERT_ERROR, INSERT_ERROR, Returned,
         ContentBar, SortedBar
    <2> QED
      BY <1>6, <2>2 DEF Implements, Abstract!Next
  <1>8. ASSUME ElementsOf(s)' = ElementsOf(s) \cup {e},
               returned = IF e \in ElementsOf(s) THEN INSERT_DUPLICATE ELSE INSERT_SUCCESS
        PROVE  Implements
    <2>1. /\ ContentBar' = [ContentBar EXCEPT ![s] = ElementsOf(s) \cup {e}]
          /\ SortedBar' = [SortedBar EXCEPT ![s] = sets[s].by # "equality"]
      BY <1>1, <1>4, <1>5, <1>6, <1>8, BarStep
    <2>2. SortedBar' = SortedBar
      BY <2>1 DEF SortedBar
    <2>3. ContentBar' = [ContentBar EXCEPT ![s] = ContentBar[s] \cup {e}]
      BY <1>4, <2>1
    <2>4. result' = <<"set_insert", <<s, e>>, IF e \in ContentBar[s] THEN 1 ELSE 0>>
      BY <1>2, <1>4, <1>8 DEF Returned, INSERT_DUPLICATE, INSERT_SUCCESS
    <2>5. Abstract!Insert(s, e)
      BY <1>4, <2>2, <2>3, <2>4 DEF Abstract!Insert, Abstract!Exists, Abstract!NoSet,
         Abstract!Update, Abstract!Returned, Abstract!INSERT_DUPLICATE,
         Abstract!INSERT_SUCCESS, ContentBar, SortedBar
    <2> QED
      BY <1>6, <2>5 DEF Implements, Abstract!Next
  <1>9. CASE returned = INSERT_SUCCESS /\ e \notin ElementsOf(s)
             /\ ElementsOf(s)' = ElementsOf(s) \cup {e}
    BY <1>8, <1>9
  <1>10. CASE returned = INSERT_DUPLICATE /\ e \in ElementsOf(s) /\ UNCHANGED <<heap, sets>>
    <2>1. ElementsOf(s)' = ElementsOf(s)
      BY <1>10, SameLists DEF Inv
    <2>2. ElementsOf(s)' = ElementsOf(s) \cup {e}
      BY <1>10, <2>1
    <2> QED
      BY <1>8, <1>10, <2>2
  <1> QED
    BY <1>5, <1>7, <1>9, <1>10

LEMMA FindImplements ==
  ASSUME Inv, NEW s \in Handles, NEW e \in Elements, SetFind(s, e)
  PROVE  Implements
  <1>1. call = Idle /\ Exists(s) /\ Returned("set_find", <<s, e>>, Find(s, e))
        /\ UNCHANGED <<heap, sets, call>>
    BY DEF SetFind
  <1>2. ContentBar[s] # {0} /\ ContentBar[s] = ElementsOf(s)
    BY <1>1, BarFacts
  <1>3. Inv' /\ UNCHANGED <<ContentBar, SortedBar>>
    BY <1>1, SameCall
  <1>4. result' = <<"set_find", <<s, e>>, IF e \in ContentBar[s] THEN e ELSE 0>>
    BY <1>1, <1>2, FindFacts DEF Inv, Returned, NULL
  <1>5. Abstract!Find(s, e)
    BY <1>2, <1>3, <1>4 DEF Abstract!Find, Abstract!Exists, Abstract!NoSet,
       Abstract!Query, Abstract!Returned, ContentBar, SortedBar
  <1> QED
    BY <1>3, <1>5 DEF Implements, Abstract!Next

\* A list is empty if it holds nothing.
LEMMA EmptyFacts ==
  ASSUME Inv, NEW s \in Handles
  PROVE  /\ sets[s].size = 0 <=> ElementsOf(s) = {}
         /\ sets[s].head = NULL <=> ElementsOf(s) = {}
  <1> DEFINE p == Nodes(s)
             l == Len(p)
  <1>1. /\ p \in Seq(DOMAIN heap) /\ l \in Nat /\ sets[s].size = l
        /\ \A k \in 1 .. l : p[k] \in DOMAIN heap
        /\ sets[s].head = IF p = <<>> THEN NULL ELSE p[1]
        /\ p = <<>> <=> l = 0
    BY ListFacts, EmptySeq DEF Inv, IsList, IsPath
  <1>2. ElementsOf(s) = {heap[p[k]].element : k \in 1 .. l} /\ NULL \notin DOMAIN heap
    BY ContentFacts DEF Inv, Content, ListInv, AreLists, NULL
  <1> HIDE DEF p, l
  <1>3. l = 0 => 1 .. l = {}
    BY <1>1
  <1>4. l # 0 => 1 \in 1 .. l
    BY <1>1
  <1> QED
    BY <1>1, <1>2, <1>3, <1>4

LEMMA IsEmptyImplements ==
  ASSUME Inv, NEW s \in Handles, SetIsEmpty(s)
  PROVE  Implements
  <1>1. call = Idle /\ Exists(s) /\ UNCHANGED <<heap, sets, call>>
        /\ Returned("set_is_empty", <<s>>, IF sets[s].size = 0 THEN 1 ELSE 0)
    BY DEF SetIsEmpty
  <1>2. ContentBar[s] # {0} /\ ContentBar[s] = ElementsOf(s)
    BY <1>1, BarFacts
  <1>3. Inv' /\ UNCHANGED <<ContentBar, SortedBar>>
    BY <1>1, SameCall
  <1>4. result' = <<"set_is_empty", <<s>>, IF ContentBar[s] = {} THEN 1 ELSE 0>>
    BY <1>1, <1>2, EmptyFacts DEF Returned
  <1>5. Abstract!IsEmpty(s)
    BY <1>2, <1>3, <1>4 DEF Abstract!IsEmpty, Abstract!Exists, Abstract!NoSet,
       Abstract!Query, Abstract!Returned, ContentBar, SortedBar
  <1> QED
    BY <1>3, <1>5 DEF Implements, Abstract!Next

LEMMA DecapitateImplements ==
  ASSUME Inv, NEW s \in Handles, SetDecapitate(s)
  PROVE  Implements
  <1>1. call = Idle /\ call' = Idle /\ Exists(s)
    BY DEF SetDecapitate
  <1>2. ContentBar[s] # {0} /\ ContentBar[s] = ElementsOf(s)
        /\ sets[s].by # "none" /\ (SortedBar[s] <=> sets[s].by # "equality")
        /\ sets[s].by \in {"none", "number", "equality"}
    BY <1>1, BarFacts, ListFacts DEF Inv, SetType
  <1>3. CASE sets[s].head = NULL
    <2>1. Returned("set_decapitate", <<s>>, NULL) /\ UNCHANGED <<heap, sets, call>>
      BY <1>3 DEF SetDecapitate
    <2>2. Inv' /\ UNCHANGED <<ContentBar, SortedBar>>
      BY <2>1, SameCall
    <2>3. ContentBar[s] = {} /\ result' = <<"set_decapitate", <<s>>, 0>>
      BY <1>2, <1>3, <2>1, EmptyFacts DEF Returned, NULL
    <2>4. Abstract!Decapitate(s)
      BY <1>2, <2>2, <2>3 DEF Abstract!Decapitate, Abstract!Exists, Abstract!NoSet,
         Abstract!Query, Abstract!Returned, ContentBar, SortedBar
    <2> QED
      BY <2>2, <2>4 DEF Implements, Abstract!Next
  <1>4. CASE sets[s].head # NULL
    <2> DEFINE e == heap[sets[s].head].element
    <2>1. /\ ListInv'
          /\ sets'[s].by = sets[s].by /\ \A t \in Handles \ {s} : sets'[t] = sets[t]
          /\ e \in ElementsOf(s) /\ ElementsOf(s)' = ElementsOf(s) \ {e}
          /\ sets[s].by = "number" => \A x \in ElementsOf(s) : e <= x
          /\ \A t \in Handles \ {s} : Nodes(t)' = Nodes(t) /\ ElementsOf(t)' = ElementsOf(t)
      BY <1>4, DecapitateFacts DEF Inv
    <2>2. Returned("set_decapitate", <<s>>, e)
      BY <1>4 DEF SetDecapitate
    <2> HIDE DEF e
    <2>3. Inv'
      BY <1>1, <2>1, IdleInv
    <2>4. /\ ContentBar' = [ContentBar EXCEPT ![s] = ElementsOf(s) \ {e}]
          /\ SortedBar' = [SortedBar EXCEPT ![s] = sets[s].by # "equality"]
      BY <1>1, <1>2, <2>1, <2>3, BarStep
    <2>5. SortedBar' = SortedBar
      BY <2>4 DEF SortedBar
    <2>6. /\ ContentBar[s] # {} /\ e \in ContentBar[s]
          /\ SortedBar[s] => \A x \in ContentBar[s] : e <= x
          /\ ContentBar' = [ContentBar EXCEPT ![s] = ContentBar[s] \ {e}]
          /\ result' = <<"set_decapitate", <<s>>, e>>
      BY <1>2, <2>1, <2>2, <2>4 DEF Returned
    <2>7. Abstract!Decapitate(s)
      BY <1>2, <2>5, <2>6 DEF Abstract!Decapitate, Abstract!Exists, Abstract!NoSet,
         Abstract!Update, Abstract!Returned, ContentBar, SortedBar
    <2> QED
      BY <2>3, <2>7 DEF Implements, Abstract!Next
  <1> QED
    BY <1>3, <1>4

\* The m numbers of a ascend, and are among the n of b.
Ascending(a, m) ==
  /\ \A k \in 1 .. m : a[k] \in Int
  /\ \A j, k \in 1 .. m : j < k => a[j] < a[k]

Among(a, m, b, n) == \A k \in 1 .. m : \E j \in 1 .. n : a[k] = b[j]

\* Numbers in ascending order, listed in two ways, are listed in the same way.
LEMMA AscendingSame ==
  ASSUME NEW m \in Nat, NEW n \in Nat, NEW a, NEW b,
         Ascending(a, m), Ascending(b, n), Among(a, m, b, n), Among(b, n, a, m)
  PROVE  m = n /\ \A k \in 1 .. m : a[k] = b[k]
  <1> USE DEF Ascending, Among
  <1> DEFINE Same(j) == (j <= m <=> j <= n) /\ (j <= m => a[j] = b[j])
             N == {k \in Nat : \A j \in 1 .. k : Same(j)}
  <1>1. 0 \in N
    OBVIOUS
  <1>2. ASSUME NEW k \in Nat, k \in N PROVE k + 1 \in N
    <2>1. \A j \in 1 .. k : Same(j)
      BY <1>2
    <2>2. ASSUME k + 1 <= m
          PROVE  k + 1 <= n /\ b[k + 1] <= a[k + 1]
      <3>1. k + 1 \in 1 .. m
        BY <2>2
      <3>2. PICK i \in 1 .. n : a[k + 1] = b[i]
        BY <3>1
      <3>3. ~ (i <= k)
        <4> SUFFICES ASSUME i <= k PROVE FALSE
          OBVIOUS
        <4>1. i \in 1 .. k /\ i \in 1 .. m /\ i < k + 1
          BY <2>2
        <4>2. a[i] = b[i]
          BY <2>1, <4>1
        <4>3. a[i] < a[k + 1] /\ a[i] \in Int
          BY <3>1, <4>1
        <4> QED
          BY <3>2, <4>2, <4>3
      <3>4. k + 1 \in 1 .. n /\ (k + 1 = i \/ k + 1 < i)
        BY <3>3
      <3>5. b[k + 1] \in Int /\ b[i] \in Int /\ (k + 1 < i => b[k + 1] < b[i])
        BY <3>4
      <3>6. b[k + 1] <= b[i]
        BY <3>4, <3>5
      <3> QED
        BY <3>2, <3>4, <3>6
    <2>3. ASSUME k + 1 <= n
          PROVE  k + 1 <= m /\ a[k + 1] <= b[k + 1]
      <3>1. k + 1 \in 1 .. n
        BY <2>3
      <3>2. PICK i \in 1 .. m : b[k + 1] = a[i]
        BY <3>1
      <3>3. ~ (i <= k)
        <4> SUFFICES ASSUME i <= k PROVE FALSE
          OBVIOUS
        <4>1. i \in 1 .. k /\ i \in 1 .. n /\ i < k + 1
          BY <2>3
        <4>2. a[i] = b[i]
          BY <2>1, <4>1
        <4>3. b[i] < b[k + 1] /\ b[i] \in Int
          BY <3>1, <4>1
        <4> QED
          BY <3>2, <4>2, <4>3
      <3>4. k + 1 \in 1 .. m /\ (k + 1 = i \/ k + 1 < i)
        BY <3>3
      <3>5. a[k + 1] \in Int /\ a[i] \in Int /\ (k + 1 < i => a[k + 1] < a[i])
        BY <3>4
      <3>6. a[k + 1] <= a[i]
        BY <3>4, <3>5
      <3> QED
        BY <3>2, <3>4, <3>6
    <2>4. k + 1 <= m => a[k + 1] \in Int /\ b[k + 1] \in Int
      <3> SUFFICES ASSUME k + 1 <= m PROVE a[k + 1] \in Int /\ b[k + 1] \in Int
        OBVIOUS
      <3>1. k + 1 \in 1 .. m /\ k + 1 \in 1 .. n
        BY <2>2
      <3> QED
        BY <3>1
    <2>5. Same(k + 1)
      BY <2>2, <2>3, <2>4
    <2> HIDE DEF Same
    <2>6. \A j \in 1 .. k + 1 : j \in 1 .. k \/ j = k + 1
      OBVIOUS
    <2> QED
      BY <2>1, <2>5, <2>6
  <1>3. \A k \in Nat : k \in N
    <2> HIDE DEF N
    <2> QED
      BY <1>1, <1>2, InductiveSet
  <1>4. \A j \in Nat \ {0} : Same(j)
    <2> SUFFICES ASSUME NEW j \in Nat \ {0} PROVE Same(j)
      OBVIOUS
    <2>1. j \in N
      <3> HIDE DEF N
      <3> QED
        BY <1>3
    <2>2. j \in 1 .. j
      OBVIOUS
    <2> HIDE DEF Same
    <2> QED
      BY <2>1, <2>2
  <1>5. m = n
    <2>1. m # 0 => m <= n
      BY <1>4
    <2>2. n # 0 => n <= m
      BY <1>4
    <2> QED
      BY <2>1, <2>2
  <1>6. \A k \in 1 .. m : a[k] = b[k]
    BY <1>4
  <1> QED
    BY <1>5, <1>6

LEMMA EqualsImplements ==
  ASSUME Inv, NEW l \in Handles, NEW r \in Handles, SetEquals(l, r)
  PROVE  Implements
  <1> DEFINE p == Nodes(l)
             q == Nodes(r)
             a == [k \in 1 .. Len(p) |-> heap[p[k]].element]
             b == [k \in 1 .. Len(q) |-> heap[q[k]].element]
             Equal == /\ sets[l].size = sets[r].size
                      /\ sets[l].by = sets[r].by
                      /\ Len(p) = Len(q)
                      /\ \A i \in DOMAIN p : heap[p[i]].element = heap[q[i]].element
  <1>1. call = Idle /\ Exists(l) /\ Exists(r) /\ UNCHANGED <<heap, sets, call>>
        /\ "number" \in {sets[l].by, sets[r].by}
        /\ Returned("set_equals", <<l, r>>, IF Equal THEN 1 ELSE 0)
    BY DEF SetEquals
  <1>2. /\ ContentBar[l] # {0} /\ ContentBar[l] = ElementsOf(l)
        /\ ContentBar[r] # {0} /\ ContentBar[r] = ElementsOf(r)
        /\ SortedBar[l] = (sets[l].by # "equality")
        /\ SortedBar[r] = (sets[r].by # "equality")
        /\ sets[l].by \in {"number", "equality"} /\ sets[r].by \in {"number", "equality"}
    <2>1. /\ ContentBar[l] # {0} /\ ContentBar[l] = ElementsOf(l) /\ sets[l].by # "none"
          /\ ContentBar[r] # {0} /\ ContentBar[r] = ElementsOf(r) /\ sets[r].by # "none"
      BY <1>1, BarFacts
    <2>2. sets[l] \in SetType /\ sets[r] \in SetType
      BY ListFacts DEF Inv
    <2> QED
      BY <2>1, <2>2 DEF SetType, SortedBar
  <1>3. /\ Len(p) \in Nat /\ Len(q) \in Nat /\ DOMAIN p = 1 .. Len(p)
        /\ sets[l].size = Len(p) /\ sets[r].size = Len(q)
        /\ \A k \in 1 .. Len(p) : heap[p[k]].element \in Int
        /\ \A k \in 1 .. Len(q) : heap[q[k]].element \in Int
        /\ InOrder(heap, sets[l].by, p) /\ InOrder(heap, sets[r].by, q)
    <2>1. /\ p \in Seq(DOMAIN heap) /\ Len(p) \in Nat /\ IsList(heap, sets[l], p)
          /\ \A k \in 1 .. Len(p) : heap[p[k]].element \in Elements
      BY ListFacts DEF Inv
    <2>2. /\ q \in Seq(DOMAIN heap) /\ Len(q) \in Nat /\ IsList(heap, sets[r], q)
          /\ \A k \in 1 .. Len(q) : heap[q[k]].element \in Elements
      BY ListFacts DEF Inv
    <2> HIDE DEF p, q
    <2>3. DOMAIN p = 1 .. Len(p)
      BY <2>1
    <2> QED
      BY <2>1, <2>2, <2>3, ElementFacts DEF IsList
  <1>4. /\ ElementsOf(l) = {heap[p[k]].element : k \in 1 .. Len(p)}
        /\ ElementsOf(r) = {heap[q[k]].element : k \in 1 .. Len(q)}
    BY ContentFacts DEF Inv, Content
  <1> HIDE DEF p, q
  <1>5. Equal => SortedBar[l] = SortedBar[r] /\ ContentBar[l] = ContentBar[r]
    <2> SUFFICES ASSUME Equal PROVE SortedBar[l] = SortedBar[r] /\ ContentBar[l] = ContentBar[r]
      OBVIOUS
    <2>1. SortedBar[l] = SortedBar[r]
      BY <1>2
    <2>2. 1 .. Len(p) = 1 .. Len(q) /\ \A k \in 1 .. Len(p) : heap[p[k]].element = heap[q[k]].element
      BY <1>3
    <2>3. ElementsOf(l) = ElementsOf(r)
      BY <1>4, <2>2
    <2> QED
      BY <1>2, <2>1, <2>3
  <1>6. SortedBar[l] = SortedBar[r] /\ ContentBar[l] = ContentBar[r] => Equal
    <2> SUFFICES ASSUME SortedBar[l] = SortedBar[r], ContentBar[l] = ContentBar[r] PROVE Equal
      OBVIOUS
    <2>1. sets[l].by = "number" /\ sets[r].by = "number"
      BY <1>1, <1>2
    <2>2. /\ \A k \in 1 .. Len(p) : a[k] = heap[p[k]].element /\ a[k] \in Int
          /\ \A k \in 1 .. Len(q) : b[k] = heap[q[k]].element /\ b[k] \in Int
      BY <1>3
    <2>3. ElementsOf(l) = ElementsOf(r)
      BY <1>2
    <2> HIDE DEF a, b
    <2>4. Ascending(a, Len(p)) /\ Ascending(b, Len(q))
      BY <1>3, <2>1, <2>2 DEF InOrder, Ascending
    <2>6. Among(a, Len(p), b, Len(q))
      <3> SUFFICES ASSUME NEW k \in 1 .. Len(p) PROVE \E j \in 1 .. Len(q) : a[k] = b[j]
        BY DEF Among
      <3>1. a[k] \in ElementsOf(r)
        BY <1>4, <2>2, <2>3
      <3>2. PICK j \in 1 .. Len(q) : a[k] = heap[q[j]].element
        BY <1>4, <3>1
      <3> QED
        BY <2>2, <3>2
    <2>7. Among(b, Len(q), a, Len(p))
      <3> SUFFICES ASSUME NEW k \in 1 .. Len(q) PROVE \E j \in 1 .. Len(p) : b[k] = a[j]
        BY DEF Among
      <3>1. b[k] \in ElementsOf(l)
        BY <1>4, <2>2, <2>3
      <3>2. PICK j \in 1 .. Len(p) : b[k] = heap[p[j]].element
        BY <1>4, <3>1
      <3> QED
        BY <2>2, <3>2
    <2>8. Len(p) = Len(q) /\ \A k \in 1 .. Len(p) : a[k] = b[k]
      BY <1>3, <2>4, <2>6, <2>7, AscendingSame
    <2> QED
      BY <1>3, <2>1, <2>2, <2>8
  <1>7. Inv' /\ UNCHANGED <<ContentBar, SortedBar>>
    BY <1>1, SameCall
  <1> HIDE DEF Equal
  <1>8. result' = <<"set_equals", <<l, r>>,
                    IF SortedBar[l] = SortedBar[r] /\ ContentBar[l] = ContentBar[r]
                    THEN 1 ELSE 0>>
    BY <1>1, <1>5, <1>6 DEF Returned
  <1>9. Abstract!Equals(l, r)
    BY <1>2, <1>7, <1>8 DEF Abstract!Equals, Abstract!Exists, Abstract!NoSet,
       Abstract!Query, Abstract!Returned, ContentBar, SortedBar
  <1> QED
    BY <1>7, <1>9 DEF Implements, Abstract!Next

LEMMA BeginUnionImplements ==
  ASSUME Inv, NEW l \in Handles, NEW r \in Handles, BeginUnion(l, r)
  PROVE  Implements
  <1>1. /\ call = Idle /\ Exists(l) /\ UNCHANGED <<heap, sets, result>>
    BY DEF BeginUnion
  <1>2. Inv' /\ call' # Idle /\ call'.lhs = l /\ call'.before = ElementsOf(l)
    BY BeginUnionFacts
  <1>3. \A s \in Handles : ElementsOf(s)' = ElementsOf(s)
    BY <1>1, SameLists DEF Inv
  <1>4. ASSUME NEW s \in Handles PROVE ContentBar'[s] = ContentBar[s]
    <2>1. ContentBar'[s] = IF sets[s].by = "none" THEN {0} ELSE ElementsOf(s)
      BY <1>1, <1>2, <1>3, BarNext
    <2>2. /\ Exists(s) <=> sets[s].by # "none"
          /\ s # call.lhs /\ ContentBar[s] # {0} <=> Exists(s)
      BY <1>1, BarFacts
    <2>3. ContentBar[s] = IF sets[s].by = "none" THEN {0} ELSE ElementsOf(s)
      BY <2>2 DEF ContentBar
    <2> QED
      BY <2>1, <2>3
  <1>5. UNCHANGED <<ContentBar, SortedBar>>
    BY <1>1, <1>2, <1>4, BarStays
  <1> QED
    BY <1>1, <1>2, <1>5 DEF Implements

LEMMA UnionInsertImplements ==
  ASSUME Inv, UnionInsert
  PROVE  Implements
  <1>1. call # Idle
    BY DEF UnionInsert
  <1>2. PICK l, r \in Handles : l = call.lhs /\ r = call.rhs
    BY <1>1, CallFacts
  <1>3. /\ Inv'
        /\ \A t \in Handles : sets'[t].by = sets[t].by
        /\ \A t \in Handles \ {l} : ElementsOf(t)' = ElementsOf(t)
        /\ \/ /\ call' # Idle /\ call'.lhs = l /\ call'.before = call.before
              /\ UNCHANGED result
           \/ /\ call' = Idle /\ UNCHANGED <<heap, sets>>
              /\ ElementsOf(l)' = ElementsOf(l)
              /\ Returned("set_union", <<l, r>>, 0)
    BY <1>2, UnionInsertFacts
  <1>4. \A t \in Handles : ContentBar[t] = IF sets[t].by = "none" THEN {0}
                                           ELSE IF t = l THEN call.before ELSE ElementsOf(t)
    <2> SUFFICES ASSUME NEW t \in Handles
                 PROVE  ContentBar[t] = IF sets[t].by = "none" THEN {0}
                                        ELSE IF t = l THEN call.before ELSE ElementsOf(t)
      OBVIOUS
    <2>1. Exists(t) <=> sets[t].by # "none"
      BY BarFacts
    <2> QED
      BY <1>2, <2>1 DEF ContentBar
  <1>5. CASE call' # Idle /\ call'.lhs = l /\ call'.before = call.before /\ UNCHANGED result
    <2>1. \A t \in Handles : ContentBar'[t] = IF sets[t].by = "none" THEN {0}
                                              ELSE IF t = l THEN call.before ELSE ElementsOf(t)
      BY <1>3, <1>5, BarNext
    <2>2. UNCHANGED <<ContentBar, SortedBar>>
      BY <1>3, <1>4, <2>1, BarStays
    <2> QED
      BY <1>3, <1>5, <2>2 DEF Implements
  <1>6. CASE /\ call' = Idle /\ UNCHANGED <<heap, sets>>
             /\ ElementsOf(l)' = ElementsOf(l)
             /\ Returned("set_union", <<l, r>>, 0)
    <2>1. PICK k \in 1 .. Len(Nodes(r)) + 1 : IsAt(call, heap, Nodes(r), ElementsOf(l), k)
      BY <1>1, <1>2, UnionFacts
    <2>2. Exists(l) /\ Exists(r) /\ sets[l].by # "none"
      BY <1>1, <1>2, UnionFacts
    <2> DEFINE X == IF l = r THEN {} ELSE {heap[Nodes(r)[j]].element : j \in 1 .. k - 1}
    <2>3. ElementsOf(l) = call.before \cup X
      BY <1>2, <2>1 DEF IsAt
    <2>4. X \subseteq ContentBar[r]
      <3>1. CASE l = r
        BY <3>1
      <3>2. CASE l # r
        <4>1. ContentBar[r] = ElementsOf(r)
          BY <1>2, <2>2, <3>2, BarFacts
        <4>2. \A j \in 1 .. k - 1 : j \in 1 .. Len(Nodes(r))
          BY <2>1, ListFacts DEF Inv
        <4>3. ElementsOf(r) = {heap[Nodes(r)[j]].element : j \in 1 .. Len(Nodes(r))}
          BY ContentFacts DEF Inv, Content
        <4> QED
          BY <4>1, <4>2, <4>3
      <3> QED
        BY <3>1, <3>2
    <2> HIDE DEF X
    <2>5. ContentBar[l] = call.before /\ ContentBar[l] # {0} /\ ContentBar[r] # {0}
      BY <1>2, <2>2, BarFacts
    <2>6. ContentBar' = [ContentBar EXCEPT ![l] = ContentBar[l] \cup X] /\ SortedBar' = SortedBar
      <3>1. \A t \in Handles : t # call'.lhs
        BY <1>6, HandlesAssumption DEF Idle
      <3>2. \A t \in Handles : ContentBar'[t] = IF sets[t].by = "none" THEN {0}
                                                ELSE ElementsOf(t)'
        BY <1>3, <3>1, BarNext
      <3>3. \A t \in Handles : ContentBar'[t] = IF t = l THEN ContentBar[l] \cup X
                                                ELSE ContentBar[t]
        <4> SUFFICES ASSUME NEW t \in Handles
                     PROVE  ContentBar'[t] = IF t = l THEN ContentBar[l] \cup X ELSE ContentBar[t]
          OBVIOUS
        <4>1. ContentBar'[t] = IF sets[t].by = "none" THEN {0} ELSE ElementsOf(t)'
          BY <3>2
        <4>2. CASE t = l
          BY <1>6, <2>2, <2>3, <2>5, <4>1, <4>2
        <4>3. CASE t # l
          <5>1. ElementsOf(t)' = ElementsOf(t)
            BY <1>3, <4>3
          <5>2. ContentBar[t] = IF sets[t].by = "none" THEN {0} ELSE ElementsOf(t)
            BY <1>4, <4>3
          <5> QED
            BY <4>1, <4>3, <5>1, <5>2
        <4> QED
          BY <4>2, <4>3
      <3>4. /\ ContentBar' = [t \in Handles |-> ContentBar'[t]]
            /\ ContentBar = [t \in Handles |-> ContentBar[t]]
        BY <1>3, BarNext DEF ContentBar
      <3>5. SortedBar' = SortedBar
        BY <1>3, BarNext DEF SortedBar
      <3> HIDE DEF ContentBar
      <3> QED
        BY <3>3, <3>4, <3>5
    <2>7. Abstract!Union(l, r)
      BY <1>6, <2>4, <2>5, <2>6 DEF Abstract!Union, Abstract!Exists, Abstract!NoSet,
         Abstract!Update, Abstract!Returned, Returned, ContentBar, SortedBar
    <2> QED
      BY <1>2, <1>3, <2>7 DEF Implements, Abstract!Next
  <1> QED
    BY <1>3, <1>5, <1>6

LEMMA UnionDoneImplements ==
  ASSUME Inv, UnionDone
  PROVE  Implements
  <1>1. /\ call # Idle /\ call.curr = NULL /\ call' = Idle /\ UNCHANGED <<heap, sets>>
        /\ Returned("set_union", <<call.lhs, call.rhs>>, 1)
    BY DEF UnionDone
  <1>2. PICK l, r \in Handles : l = call.lhs /\ r = call.rhs
    BY <1>1, CallFacts
  <1>3. /\ ListInv'
        /\ \A t \in Handles : ElementsOf(t)' = ElementsOf(t)
    BY <1>1, SameLists DEF Inv
  <1>4. Inv'
    BY <1>1, <1>3, IdleInv
  <1>5. /\ Exists(l) /\ Exists(r)
        /\ IsAt(call, heap, Nodes(r), ElementsOf(l), Len(Nodes(r)) + 1)
    BY <1>1, <1>2, UnionFacts
  <1>6. /\ ContentBar[l] = call.before /\ ContentBar[l] # {0} /\ ContentBar[r] # {0}
        /\ l # r => ContentBar[r] = ElementsOf(r)
        /\ sets[l].by # "none"
    BY <1>2, <1>5, BarFacts
  <1>7. ElementsOf(l) = ContentBar[l] \cup ContentBar[r]
    <2>1. CASE l = r
      BY <1>2, <1>5, <1>6, <2>1 DEF IsAt
    <2>2. CASE l # r
      <3>1. (Len(Nodes(r)) + 1) - 1 = Len(Nodes(r))
        BY ListFacts DEF Inv
      <3>2. ElementsOf(r) = {heap[Nodes(r)[j]].element : j \in 1 .. Len(Nodes(r))}
        BY ContentFacts DEF Inv, Content
      <3> QED
        BY <1>5, <1>6, <2>2, <3>1, <3>2 DEF IsAt
    <2> QED
      BY <2>1, <2>2
  <1>8. ContentBar' = [ContentBar EXCEPT ![l] = ContentBar[l] \cup ContentBar[r]]
        /\ SortedBar' = SortedBar
    <2>1. \A t \in Handles : t # call'.lhs
      BY <1>1, HandlesAssumption DEF Idle
    <2>2. \A t \in Handles : ContentBar'[t] = IF sets[t].by = "none" THEN {0} ELSE ElementsOf(t)
      BY <1>1, <1>3, <1>4, <2>1, BarNext
    <2>3. ASSUME NEW t \in Handles, t # l
          PROVE  ContentBar[t] = IF sets[t].by = "none" THEN {0} ELSE ElementsOf(t)
      <3>1. Exists(t) <=> sets[t].by # "none"
        BY BarFacts
      <3> QED
        BY <1>2, <2>3, <3>1 DEF ContentBar
    <2>4. \A t \in Handles : ContentBar'[t] = IF t = l THEN ContentBar[l] \cup ContentBar[r]
                                              ELSE ContentBar[t]
      BY <1>6, <1>7, <2>2, <2>3
    <2>5. /\ ContentBar' = [t \in Handles |-> ContentBar'[t]]
          /\ ContentBar = [t \in Handles |-> ContentBar[t]]
      BY <1>4, BarNext DEF ContentBar
    <2>6. SortedBar' = SortedBar
      BY <1>1, <1>4, BarNext DEF SortedBar
    <2> HIDE DEF ContentBar
    <2> QED
      BY <2>4, <2>5, <2>6
  <1>9. Abstract!Union(l, r)
    BY <1>1, <1>2, <1>6, <1>8 DEF Abstract!Union, Abstract!Exists, Abstract!NoSet,
       Abstract!Update, Abstract!Returned, Returned, ContentBar, SortedBar
  <1> QED
    BY <1>2, <1>4, <1>9 DEF Implements, Abstract!Next

-----------------------------------------------------------------------------
(* The theorems.                                                           *)

LEMMA InitImplements == Init => Inv /\ Abstract!Init
  <1> SUFFICES ASSUME Init PROVE Inv /\ Abstract!Init
    OBVIOUS
  <1>1. Inv
    BY ListInit DEF Init, Inv, UnionInv
  <1>2. \A s \in Handles : ~ Exists(s) /\ sets[s].by # "equality"
    BY DEF Init, Exists, NoSet
  <1>3. result = <<"none", <<>>, 0>>
    BY DEF Init
  <1>4. Abstract!Init
    BY <1>2, <1>3 DEF Abstract!Init, Abstract!NoSet, Abstract!Returned
  <1> QED
    BY <1>1, <1>4

LEMMA NextImplements == Inv /\ [Next]_vars => Implements
  <1> SUFFICES ASSUME Inv, [Next]_vars PROVE Implements
    OBVIOUS
  <1>1. ASSUME NEW s \in Handles,
               InitSet(s) \/ DestroySet(s) \/ SetIsEmpty(s) \/ SetDecapitate(s)
        PROVE  Implements
    BY <1>1, InitSetImplements, DestroyImplements, IsEmptyImplements, DecapitateImplements
  <1>2. ASSUME NEW s \in Handles, NEW e \in Elements, Insert(s, e) \/ SetFind(s, e)
        PROVE  Implements
    BY <1>2, InsertImplements, FindImplements
  <1>3. ASSUME NEW l \in Handles, NEW r \in Handles, SetEquals(l, r) \/ BeginUnion(l, r)
        PROVE  Implements
    BY <1>3, EqualsImplements, BeginUnionImplements
  <1>4. CASE UnionInsert
    BY <1>4, UnionInsertImplements
  <1>5. CASE UnionDone
    BY <1>5, UnionDoneImplements
  <1>6. CASE UNCHANGED vars
    <2>1. Inv' /\ UNCHANGED <<ContentBar, SortedBar>> /\ UNCHANGED result
      BY <1>6, SameCall DEF vars
    <2> QED
      BY <2>1 DEF Implements
  <1> QED
    BY <1>1, <1>2, <1>3, <1>4, <1>5, <1>6 DEF Next

LEMMA InvHolds == Spec => []Inv
  <1>1. Init => Inv
    BY InitImplements
  <1>2. Inv /\ [Next]_vars => Inv'
    BY NextImplements DEF Implements
  <1> QED
    BY <1>1, <1>2, PTL DEF Spec

\* The tail of a list is its last node, its size is its length, no two lists
\* share a node and every node is in a list: after any calls of set.c, complete
\* or not, on any number of sets.
THEOREM WellLinkedHolds == Spec => []WellLinked
  <1>1. ASSUME Inv PROVE WellLinked
    <2>1. \A s, t \in Handles : s # t => ToSet(Nodes(s)) \cap ToSet(Nodes(t)) = {}
      <3> SUFFICES ASSUME NEW s \in Handles, NEW t \in Handles, s # t,
                          NEW n \in ToSet(Nodes(s)), n \in ToSet(Nodes(t))
                   PROVE  FALSE
        OBVIOUS
      <3>1. PICK j \in 1 .. Len(Nodes(s)) : n = Nodes(s)[j]
        BY <1>1, ContentFacts DEF Inv
      <3>2. PICK k \in 1 .. Len(Nodes(t)) : n = Nodes(t)[k]
        BY <1>1, ContentFacts DEF Inv
      <3>3. Paths[s][j] = Paths[t][k]
            /\ j \in 1 .. Len(Paths[s]) /\ k \in 1 .. Len(Paths[t])
        BY <3>1, <3>2 DEF Paths
      <3>4. AreLists(heap, sets, Paths)
        BY <1>1 DEF Inv, ListInv
      <3> HIDE DEF Paths
      <3> QED
        BY <3>3, <3>4 DEF AreLists
    <2>2. ASSUME NEW s \in Handles
          PROVE  /\ sets[s].size = Len(Nodes(s))
                 /\ sets[s].tail = IF Nodes(s) = <<>> THEN NULL ELSE Last(Nodes(s))
      BY <1>1, ListFacts DEF Inv, IsList, Last
    <2>3. \A n \in DOMAIN heap : \E s \in Handles : n \in ToSet(Nodes(s))
      <3> SUFFICES ASSUME NEW n \in DOMAIN heap PROVE \E s \in Handles : n \in ToSet(Nodes(s))
        OBVIOUS
      <3>1. PICK s \in Handles : \E k \in 1 .. Len(Nodes(s)) : n = Nodes(s)[k]
        <4>1. AreLists(heap, sets, Paths)
          BY <1>1 DEF Inv, ListInv
        <4>2. \A t \in Handles : Paths[t] = Nodes(t)
          BY DEF Paths
        <4> HIDE DEF Paths
        <4> QED
          BY <4>1, <4>2 DEF AreLists
      <3> QED
        BY <1>1, <3>1, ContentFacts DEF Inv
    <2>4. \A s \in Handles : ToSet(Nodes(s)) \subseteq DOMAIN heap
      BY <1>1, ContentFacts, ListFacts DEF Inv
    <2>5. DOMAIN heap = UNION {ToSet(Nodes(s)) : s \in Handles}
      BY <2>3, <2>4
    <2> QED
      BY <2>1, <2>2, <2>5 DEF WellLinked
  <1> QED
    BY <1>1, InvHolds, PTL

\* The lists implement the sets of AbstractSet, for any handles, elements and
\* bound on the nodes: every call of set.c returns what set.h promises and
\* leaves in its set the elements it promises, also a union that fails half way.
THEOREM ImplementsSetHolds == Spec => ImplementsSet
  <1>1. Init => Abstract!Init
    BY InitImplements
  <1>2. Inv /\ [Next]_vars => [Abstract!Next]_<<ContentBar, SortedBar, result>>
    BY NextImplements DEF Implements
  <1> QED
    BY <1>1, <1>2, InvHolds, PTL DEF Spec, ImplementsSet, Abstract!Spec, ContentBar, SortedBar
=============================================================================
