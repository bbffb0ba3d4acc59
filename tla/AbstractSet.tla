----------------------------- MODULE AbstractSet -----------------------------
(***************************************************************************)
(* What set.h promises: a number of sets that are filled, searched,        *)
(* merged, compared and emptied.  Every call returns an integer, as in C:  *)
(* a code, an element, or 0 and 1 for NULL and a pointer, false and true.  *)
(* result is the call with its arguments, and what it returned.            *)
(***************************************************************************)
EXTENDS Integers

CONSTANTS Handles,   \* the variables that hold pointers to sets
          Elements   \* positive integers, in the order of compare

INSERT_SUCCESS == 0
INSERT_DUPLICATE == 1
INSERT_ERROR == -1

VARIABLES
  content,  \* the elements of each set, NoSet if there is none
  sorted,   \* whether the set's compare function orders its elements
  result    \* the last call and what it returned

NoSet == {0}

Exists(s) == content[s] # NoSet

\* f(args) has returned value.
Returned(f, args, value) == <<f, args, value>>

Init ==
  /\ content = [s \in Handles |-> NoSet]
  /\ sorted = [s \in Handles |-> TRUE]
  /\ result = Returned("none", <<>>, 0)

Update(s, X, returned) ==
  /\ content' = [content EXCEPT ![s] = X]
  /\ result' = returned
  /\ UNCHANGED sorted

Query(returned) == result' = returned /\ UNCHANGED <<content, sorted>>

Create(s) ==
  /\ ~ Exists(s)
  /\ \E order \in BOOLEAN :
       \/ /\ content' = [content EXCEPT ![s] = {}]
          /\ sorted' = [sorted EXCEPT ![s] = order]
          /\ result' = Returned("init_set", <<s>>, 1)
       \/ Query(Returned("init_set", <<s>>, 0))

Destroy(s) ==
  /\ Exists(s)
  /\ content' = [content EXCEPT ![s] = NoSet]
  /\ sorted' = [sorted EXCEPT ![s] = TRUE]
  /\ result' = Returned("destroy_set", <<s>>, 0)

Insert(s, e) ==
  /\ Exists(s)
  /\ \/ Update(s, content[s] \cup {e},
               Returned("set_insert", <<s, e>>, IF e \in content[s] THEN INSERT_DUPLICATE
                                                ELSE INSERT_SUCCESS))
     \/ Query(Returned("set_insert", <<s, e>>, INSERT_ERROR))

Find(s, e) ==
  /\ Exists(s)
  /\ Query(Returned("set_find", <<s, e>>, IF e \in content[s] THEN e ELSE 0))

\* The first element of a set that is ordered is its least.
Decapitate(s) ==
  /\ Exists(s)
  /\ IF content[s] = {} THEN Query(Returned("set_decapitate", <<s>>, 0))
     ELSE \E e \in content[s] :
            /\ sorted[s] => \A x \in content[s] : e <= x
            /\ Update(s, content[s] \ {e}, Returned("set_decapitate", <<s>>, e))

IsEmpty(s) ==
  /\ Exists(s)
  /\ Query(Returned("set_is_empty", <<s>>, IF content[s] = {} THEN 1 ELSE 0))

Equals(l, r) ==
  /\ Exists(l) /\ Exists(r)
  /\ Query(Returned("set_equals", <<l, r>>,
                    IF sorted[l] = sorted[r] /\ content[l] = content[r] THEN 1 ELSE 0))

\* A union that runs out of memory leaves a part of r in l.
Union(l, r) ==
  /\ Exists(l) /\ Exists(r)
  /\ \/ Update(l, content[l] \cup content[r], Returned("set_union", <<l, r>>, 1))
     \/ \E X \in SUBSET content[r] :
          Update(l, content[l] \cup X, Returned("set_union", <<l, r>>, 0))

Next ==
  \/ \E s \in Handles : Create(s) \/ Destroy(s) \/ Decapitate(s) \/ IsEmpty(s)
  \/ \E s \in Handles, e \in Elements : Insert(s, e) \/ Find(s, e)
  \/ \E l, r \in Handles : Equals(l, r) \/ Union(l, r)

Spec == Init /\ [][Next]_<<content, sorted, result>>
=============================================================================
