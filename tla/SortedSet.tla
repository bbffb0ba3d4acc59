------------------------------ MODULE SortedSet ------------------------------
(***************************************************************************)
(* set.c: sets as linked lists that are kept in the order of the compare   *)
(* function the set was created with.                                      *)
(*                                                                         *)
(* Two kinds of compare functions are used: those that order the elements  *)
(* by number (compare_nfastates() and its like) and compare_sets(), which  *)
(* only says whether two elements are equal.  Sets of the second kind are  *)
(* never merged or compared as a whole, and an element is inserted into    *)
(* one only after set_find() has not found it (dfa.c:255, 275).            *)
(***************************************************************************)
EXTENDS Integers, FiniteSets, SequencesExt

CONSTANTS Handles, Elements,
          MaxNodes  \* bound on the nodes allocated at a time

ASSUME HandlesAssumption == "none" \notin Handles  \* "none" is the absence of one
ASSUME ElementsAssumption == Elements \subseteq Nat \ {0}
ASSUME MaxNodesAssumption == MaxNodes \in Nat

NULL == 0

INSERT_SUCCESS == 0
INSERT_DUPLICATE == 1
INSERT_ERROR == -1

VARIABLES
  heap,    \* the Nodes that are allocated: address |-> element and next
  sets,    \* the Sets: handle |-> members, NoSet while there is none
  call,    \* the set_union() that runs
  result   \* the last call and what it returned, as in AbstractSet

vars == <<heap, sets, call, result>>

\* `by` stands for the pointer compare.
NoSet == [by |-> "none", head |-> NULL, tail |-> NULL, size |-> 0]

Idle == [lhs |-> "none", rhs |-> "none", curr |-> NULL, before |-> {}]

Returned(f, args, value) == result' = <<f, args, value>>

Init ==
  /\ heap = <<>>
  /\ sets = [s \in Handles |-> NoSet]
  /\ call = Idle
  /\ result = <<"none", <<>>, 0>>

Exists(s) == sets[s] # NoSet

\* compare_nfastates() and its like
CompareNumbers(x, y) == x - y

\* compare_sets()
CompareSets(x, y) == IF x = y THEN 0 ELSE 1

\* Positive if x goes after y, 0 if they are equal.
Compare(by, x, y) ==
  IF by = "number" THEN CompareNumbers(x, y) ELSE CompareSets(x, y)

SetBegin(s) == sets[s].head
AdvanceIter(it) == heap[it].next

\* The nodes that an iteration over s comes by.
Nodes(s) ==
  LET from[it \in DOMAIN heap \cup {NULL}] ==
        IF it = NULL THEN <<>> ELSE <<it>> \o from[AdvanceIter(it)]
  IN  from[SetBegin(s)]

ElementsOf(s) == {heap[it].element : it \in ToSet(Nodes(s))}

-----------------------------------------------------------------------------
\* init_node() returns this address.
New == CHOOSE n \in 1 .. Cardinality(DOMAIN heap) + 1 : n \notin DOMAIN heap

WithNode(nodes, element, next) ==
  [n \in DOMAIN nodes \cup {New} |->
     IF n = New THEN [element |-> element, next |-> next] ELSE nodes[n]]

Members(s, head, tail, size) ==
  [sets EXCEPT ![s] = [by |-> sets[s].by, head |-> head, tail |-> tail, size |-> size]]

Linked(s, head, tail) == sets' = Members(s, head, tail, sets[s].size + 1)

InsertFirst(s, e) ==
  /\ SetBegin(s) = NULL
  /\ heap' = WithNode(heap, e, NULL)
  /\ Linked(s, New, New)

\* The first node that does not go before e.
Stop(s, e) ==
  SelectInSeq(Nodes(s), LAMBDA n : Compare(sets[s].by, heap[n].element, e) >= 0)

InsertDuplicate(s, e) ==
  LET i == Stop(s, e)
  IN  /\ i # 0 /\ Compare(sets[s].by, heap[Nodes(s)[i]].element, e) = 0
      /\ UNCHANGED <<heap, sets>>

InsertBefore(s, e) ==
  LET i == Stop(s, e)
      curr == Nodes(s)[i]
  IN  /\ i # 0 /\ Compare(sets[s].by, heap[curr].element, e) > 0
      /\ IF i = 1
         THEN /\ heap' = WithNode(heap, e, sets[s].head)
              /\ Linked(s, New, sets[s].tail)
         ELSE /\ heap' = WithNode([heap EXCEPT ![Nodes(s)[i - 1]].next = New],
                                  e, curr)
              /\ Linked(s, sets[s].head, sets[s].tail)

\* Mutant: the new node does not become the tail.
InsertLastKeepsTail(s, e) ==
  /\ SetBegin(s) # NULL /\ Stop(s, e) = 0
  /\ heap' = WithNode([heap EXCEPT ![sets[s].tail].next = New], e, NULL)
  /\ Linked(s, sets[s].head, sets[s].tail)

InsertLast(s, e) ==
  /\ SetBegin(s) # NULL /\ Stop(s, e) = 0
  /\ heap' = WithNode([heap EXCEPT ![sets[s].tail].next = New], e, NULL)
  /\ Linked(s, sets[s].head, New)

\* set_insert() allocates the node before it looks at the list, even for a
\* duplicate, which frees it again; the allocation may fail.
SetInsert(s, e, returned) ==
  \/ /\ Cardinality(DOMAIN heap) < MaxNodes
     /\ \/ /\ returned = INSERT_SUCCESS
           /\ InsertFirst(s, e) \/ InsertBefore(s, e) \/ InsertLast(s, e)
        \/ returned = INSERT_DUPLICATE /\ InsertDuplicate(s, e)
  \/ returned = INSERT_ERROR /\ UNCHANGED <<heap, sets>>

-----------------------------------------------------------------------------
(* The calls.  Only set_union() takes more than one step.                  *)

InitSet(s) ==
  /\ call = Idle /\ ~ Exists(s)
  /\ \/ /\ \E by \in {"number", "equality"} :
             sets' = [sets EXCEPT ![s] = [by |-> by, head |-> NULL, tail |-> NULL, size |-> 0]]
        /\ Returned("init_set", <<s>>, 1)
     \/ UNCHANGED sets /\ Returned("init_set", <<s>>, 0)
  /\ UNCHANGED <<heap, call>>

DestroySet(s) ==
  /\ call = Idle /\ Exists(s)
  /\ heap' = [n \in DOMAIN heap \ ToSet(Nodes(s)) |-> heap[n]]
  /\ sets' = [sets EXCEPT ![s] = NoSet]
  /\ Returned("destroy_set", <<s>>, 0)
  /\ UNCHANGED call

\* set_find()
Find(s, e) ==
  LET i == SelectInSeq(Nodes(s),
             LAMBDA n : Compare(sets[s].by, heap[n].element, e) = 0)
  IN  IF i = 0 THEN NULL ELSE heap[Nodes(s)[i]].element

SetFind(s, e) ==
  /\ call = Idle /\ Exists(s)
  /\ Returned("set_find", <<s, e>>, Find(s, e))
  /\ UNCHANGED <<heap, sets, call>>

Insert(s, e) ==
  /\ call = Idle /\ Exists(s)
  /\ sets[s].by = "number" \/ Find(s, e) = NULL
  /\ \E returned \in {INSERT_SUCCESS, INSERT_DUPLICATE, INSERT_ERROR} :
       SetInsert(s, e, returned) /\ Returned("set_insert", <<s, e>>, returned)
  /\ UNCHANGED call

SetIsEmpty(s) ==
  /\ call = Idle /\ Exists(s)
  /\ Returned("set_is_empty", <<s>>, IF sets[s].size = 0 THEN 1 ELSE 0)
  /\ UNCHANGED <<heap, sets, call>>

\* Mutant: the size is not counted down.
DecapitateKeepsSize(s) ==
  /\ call = Idle /\ Exists(s)
  /\ LET head == sets[s].head IN
     IF head = NULL
     THEN Returned("set_decapitate", <<s>>, NULL) /\ UNCHANGED <<heap, sets>>
     ELSE /\ sets' = Members(s, heap[head].next,
                             IF heap[head].next = NULL THEN NULL ELSE sets[s].tail,
                             sets[s].size)
          /\ heap' = [n \in DOMAIN heap \ {head} |-> heap[n]]
          /\ Returned("set_decapitate", <<s>>, heap[head].element)
  /\ UNCHANGED call

SetDecapitate(s) ==
  /\ call = Idle /\ Exists(s)
  /\ LET head == sets[s].head IN
     IF head = NULL
     THEN Returned("set_decapitate", <<s>>, NULL) /\ UNCHANGED <<heap, sets>>
     ELSE /\ sets' = Members(s, heap[head].next,
                             IF heap[head].next = NULL THEN NULL ELSE sets[s].tail,
                             sets[s].size - 1)
          /\ heap' = [n \in DOMAIN heap \ {head} |-> heap[n]]
          /\ Returned("set_decapitate", <<s>>, heap[head].element)
  /\ UNCHANGED call

SetEquals(l, r) ==
  /\ call = Idle /\ Exists(l) /\ Exists(r)
  /\ "number" \in {sets[l].by, sets[r].by}
  /\ Returned("set_equals", <<l, r>>,
       IF /\ sets[l].size = sets[r].size
          /\ sets[l].by = sets[r].by
          /\ Len(Nodes(l)) = Len(Nodes(r))
          /\ \A i \in DOMAIN Nodes(l) :
               heap[Nodes(l)[i]].element = heap[Nodes(r)[i]].element
       THEN 1 ELSE 0)
  /\ UNCHANGED <<heap, sets, call>>

BeginUnion(l, r) ==
  /\ call = Idle /\ Exists(l) /\ Exists(r)
  /\ sets[l].by = "number" /\ sets[r].by = "number"
  /\ call' = [lhs |-> l, rhs |-> r, curr |-> SetBegin(r), before |-> ElementsOf(l)]
  /\ UNCHANGED <<heap, sets, result>>

UnionInsert ==
  /\ call # Idle /\ call.curr # NULL
  /\ \E returned \in {INSERT_SUCCESS, INSERT_DUPLICATE, INSERT_ERROR} :
       /\ SetInsert(call.lhs, heap[call.curr].element, returned)
       /\ IF returned = INSERT_ERROR
          THEN call' = Idle /\ Returned("set_union", <<call.lhs, call.rhs>>, 0)
          ELSE call' = [call EXCEPT !.curr = AdvanceIter(@)] /\ UNCHANGED result

UnionDone ==
  /\ call # Idle /\ call.curr = NULL
  /\ call' = Idle /\ Returned("set_union", <<call.lhs, call.rhs>>, 1)
  /\ UNCHANGED <<heap, sets>>

Next ==
  \/ \E s \in Handles :
       \/ InitSet(s) \/ DestroySet(s) \/ SetIsEmpty(s) \/ SetDecapitate(s)
       \/ \E e \in Elements : Insert(s, e) \/ SetFind(s, e)
  \/ \E l, r \in Handles : SetEquals(l, r) \/ BeginUnion(l, r)
  \/ UnionInsert \/ UnionDone

Spec == Init /\ [][Next]_vars

-----------------------------------------------------------------------------
\* set_insert() appends through the tail without looking for the end of the
\* list, and set_is_empty() and set_equals() trust the size: after any sequence
\* of insertions, removals and unions, complete or not, the tail is the last
\* node, the size is the length, and every node allocated is in one list.
WellLinked ==
  /\ \A s \in Handles :
       /\ sets[s].size = Len(Nodes(s))
       /\ sets[s].tail = IF Nodes(s) = <<>> THEN NULL ELSE Last(Nodes(s))
       /\ \A t \in Handles \ {s} : ToSet(Nodes(s)) \cap ToSet(Nodes(t)) = {}
  /\ DOMAIN heap = UNION {ToSet(Nodes(s)) : s \in Handles}

Abstract == INSTANCE AbstractSet WITH
  content <- [s \in Handles |-> IF ~ Exists(s) THEN {0}
                                ELSE IF s = call.lhs THEN call.before
                                ELSE ElementsOf(s)],
  sorted  <- [s \in Handles |-> sets[s].by # "equality"]

\* The lists implement sets: every call changes the elements of its set as set.h
\* says and nothing else, also when the lists are shared out over many calls,
\* and the first element of an ordered set is the least.
ImplementsSet == Abstract!Spec
=============================================================================
