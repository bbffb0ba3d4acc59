---------------------------- MODULE ParserProofs ----------------------------
(***************************************************************************)
(* Proofs about the memory of parser.c, for any regular expressions and    *)
(* whatever constructions fail: no function uses or holds the address of   *)
(* an NFA that is gone, and none is held twice; as long as memory          *)
(* suffices, regex() may ignore what gprime() returns, and what is given   *)
(* up on the way to success is freed.                                      *)
(*                                                                         *)
(* A step of the parser pops the top record, replaces it, or replaces it   *)
(* and pushes another one.  What each of them needs to keep the invariant  *)
(* is shown once (PopKeeps, ReplaceKeeps, PushKeeps).                      *)
(* Then the message of the parser: its arrow stands under the token it     *)
(* complains about, whatever tabs are before it.  Last, the grammar: as    *)
(* long as memory suffices, what is accepted without a message is exactly  *)
(* what is well formed.                                                    *)
(***************************************************************************)
EXTENDS Parser, NumberFacts, SequenceTheorems, TLAPS

-----------------------------------------------------------------------------
(* The invariant.                                                          *)

\* The record r may have a record of fn above it: the places are named for the
\* functions called there, and group() calls gprime() as the last thing it does.
Calls(r, fn) ==
  \/ r.at = fn
  \/ r.at \in {"append", "union"} /\ fn = "group"
  \/ r.at \in {"group", "append", "union"} /\ fn = "gprime"

Names == {"parse", "regex", "group", "gprime", "pattern", "range"}

Frame == [fn   : Names,
          at   : {"begin", "allowed", "regex", "group", "gprime", "pattern", "range",
                  "append", "union"},
          held : Nat]

\* Which functions hold an NFA.
HoldsWhatItMay(r) ==
  /\ r.at \in Places[r.fn]
  /\ r.fn \in {"parse", "group"} => r.held = NULL
  /\ r.fn = "regex" => (r.held # NULL <=> r.at = "gprime")
  /\ r.fn = "range" /\ r.at = "begin" => r.held = NULL

WellCalled(st) ==
  /\ st \in Seq(Frame)
  /\ st # <<>> => st[1].fn = "parse"
  /\ \A i \in 1 .. Len(st) : HoldsWhatItMay(st[i])
  /\ \A i \in 1 .. Len(st) - 1 : Calls(st[i], st[i + 1].fn)

\* D are the NFAs that exist, r is what was returned last, fl are the flags, ran
\* is whether memory has run out.  An NFA that is held exists, unless gprime() has
\* aborted and regex() is about to notice; it is held by regex() and the gprime()
\* it awaits, or once.  Only when a construction has failed does gprime() have no
\* NFA, or another one than the regex() that waits for it.
Sound(D, st, r, fl, ran) ==
  /\ D \subseteq Nat \ {NULL} /\ IsFiniteSet(D)
  /\ r \in D \cup {NULL, RUNNING} \/ (st = <<>> /\ r = UNDEFINED)
  /\ \A i \in 1 .. Len(st) :
       /\ \/ st[i].held \in D \cup {NULL}
          \/ i = Len(st) /\ AwaitsGprime(st[i]) /\ r = NULL /\ "ABORT" \in fl
       /\ AwaitsGprime(st[i]) => ran \/ IF i = Len(st) THEN r \in {NULL, st[i].held}
                                        ELSE st[i + 1].held = st[i].held
       /\ st[i].fn = "gprime" => ran \/ st[i].held # NULL
       /\ r # NULL /\ st[i].held = r => AwaitsGprime(st[i]) /\ i = Len(st)
       /\ \A j \in 1 .. Len(st) :
            i < j /\ st[i].held # NULL /\ st[i].held = st[j].held
              => AwaitsGprime(st[i]) /\ j = i + 1

AllHeld(D, st, r) == \A a \in D : a = r \/ \E i \in 1 .. Len(st) : st[i].held = a

\* What was given up is lost only if no caller takes the failure for an end.
Refused(st, r, tok) ==
  /\ r = NULL /\ tok \notin {TK_EOF, TK_RPAREN, TK_PIPE}
  /\ st # <<>> => st[Len(st)].at \notin {"pattern", "range"}

Kept(D, st, r, fl, tok, ran) ==
  \/ ran \/ "ABORT" \in fl
  \/ /\ AllHeld(D, st, r) \/ Refused(st, r, tok)
     /\ st # <<>> /\ AwaitsGprime(st[Len(st)]) /\ r = NULL => Refused(st, r, tok)

\* parse() has returned.
Ended(st, r, fl) ==
  st = <<>> => r # RUNNING /\ (r \in {NULL, UNDEFINED} \/ "ABORT" \notin fl)

Safe(D, st, r, fl, tok, ran) ==
  WellCalled(st) /\ Sound(D, st, r, fl, ran) /\ Kept(D, st, r, fl, tok, ran) /\ Ended(st, r, fl)

MemoryInv == Safe(DOMAIN heap, stack, ret, flags, token, ranOut)

-----------------------------------------------------------------------------
(* Stacks.                                                                 *)

Rest(st) == SubSeq(st, 1, Len(st) - 1)

LEMMA StackFacts ==
  ASSUME NEW st \in Seq(Frame), st # <<>>
  PROVE  /\ Len(st) \in Nat \ {0} /\ \A i \in 1 .. Len(st) : st[i] \in Frame
         /\ Rest(st) \in Seq(Frame) /\ Len(Rest(st)) = Len(st) - 1
         /\ \A i \in 1 .. Len(st) - 1 : Rest(st)[i] = st[i]
         /\ Rest(st) # <<>> => Len(st) > 1
  <1>1. Len(st) \in Nat \ {0} /\ \A i \in 1 .. Len(st) : st[i] \in Frame
    BY EmptySeq
  <1>2. Rest(st) \in Seq(Frame) /\ Len(Rest(st)) = Len(st) - 1
        /\ \A i \in 1 .. Len(st) - 1 : Rest(st)[i] = st[i]
    <2>1. 1 \in Int /\ Len(st) - 1 \in Int /\ \A i \in 1 .. Len(st) - 1 : st[i] \in Frame
      BY <1>1
    <2>2. /\ Rest(st) \in Seq(Frame)
          /\ Len(Rest(st)) = IF 1 <= Len(st) - 1 THEN Len(st) - 1 - 1 + 1 ELSE 0
          /\ \A i \in 1 .. Len(st) - 1 - 1 + 1 : Rest(st)[i] = st[1 + i - 1]
      BY <2>1, SubSeqProperties DEF Rest
    <2>3. Len(Rest(st)) = Len(st) - 1
      <3> DEFINE n == Len(st)
                 m == Len(Rest(st))
      <3>1. n \in Nat \ {0} /\ m = IF 1 <= n - 1 THEN n - 1 - 1 + 1 ELSE 0
        BY <1>1, <2>2
      <3> HIDE DEF n, m
      <3>2. m = n - 1
        BY <3>1
      <3> QED
        BY <3>2 DEF n, m
    <2>4. ASSUME NEW i \in 1 .. Len(st) - 1 PROVE Rest(st)[i] = st[i]
      <3>1. i \in 1 .. Len(st) - 1 - 1 + 1 /\ 1 + i - 1 = i
        BY <1>1
      <3> QED
        BY <2>2, <3>1
    <2> QED
      BY <2>2, <2>3, <2>4
  <1>3. Rest(st) # <<>> => Len(st) > 1
    <2>1. Len(Rest(st)) = 0 => Rest(st) = <<>>
      BY <1>2, EmptySeq
    <2> QED
      BY <1>1, <1>2, <2>1
  <1> QED
    BY <1>1, <1>2, <1>3

LEMMA ReplacedFacts ==
  ASSUME NEW st \in Seq(Frame), st # <<>>, NEW x \in Frame
  PROVE  LET new == Append(Rest(st), x) IN
         /\ new \in Seq(Frame) /\ new # <<>> /\ Len(new) = Len(st)
         /\ \A i \in 1 .. Len(st) - 1 : new[i] = st[i]
         /\ new[Len(st)] = x
  <1> DEFINE b == Rest(st)
             new == Append(b, x)
  <1>1. /\ Len(st) \in Nat \ {0} /\ b \in Seq(Frame) /\ Len(b) = Len(st) - 1
        /\ \A i \in 1 .. Len(st) - 1 : b[i] = st[i]
    BY StackFacts
  <1> HIDE DEF b
  <1>2. new \in Seq(Frame) /\ Len(new) = Len(b) + 1
        /\ (\A i \in 1 .. Len(b) : new[i] = b[i]) /\ new[Len(b) + 1] = x
    BY <1>1
  <1>3. new # <<>>
    <2> HIDE DEF new
    <2> QED
      BY <1>1, <1>2
  <1> QED
    BY <1>1, <1>2, <1>3 DEF b

LEMMA PushedFacts ==
  ASSUME NEW st \in Seq(Frame), st # <<>>, NEW x \in Frame, NEW y \in Frame
  PROVE  LET new == Rest(st) \o <<x, y>> IN
         /\ new \in Seq(Frame) /\ new # <<>> /\ Len(new) = Len(st) + 1
         /\ \A i \in 1 .. Len(st) - 1 : new[i] = st[i]
         /\ new[Len(st)] = x /\ new[Len(st) + 1] = y
  <1> DEFINE b == Rest(st)
             xy == <<x, y>>
             new == b \o xy
  <1>1. /\ Len(st) \in Nat \ {0} /\ b \in Seq(Frame) /\ Len(b) = Len(st) - 1
        /\ \A i \in 1 .. Len(st) - 1 : b[i] = st[i]
    BY StackFacts
  <1>2. xy \in Seq(Frame) /\ Len(xy) = 2 /\ xy[1] = x /\ xy[2] = y
    OBVIOUS
  <1> HIDE DEF b, xy
  <1>3. new \in Seq(Frame) /\ Len(new) = Len(b) + 2
        /\ (\A i \in 1 .. Len(b) : new[i] = b[i])
        /\ \A i \in 1 .. 2 : new[Len(b) + i] = xy[i]
    <2>1. /\ new \in Seq(Frame) /\ Len(new) = Len(b) + Len(xy)
          /\ \A i \in 1 .. Len(b) + Len(xy) :
               new[i] = IF i <= Len(b) THEN b[i] ELSE xy[i - Len(b)]
      BY <1>1, <1>2, ConcatProperties
    <2> QED
      BY <1>1, <1>2, <2>1
  <1>4. new # <<>>
    <2> HIDE DEF new
    <2> QED
      BY <1>1, <1>3
  <1>5. new[Len(b) + 1] = x /\ new[Len(b) + 2] = y
    BY <1>2, <1>3
  <1>6. Len(b) + 1 = Len(st) /\ Len(b) + 2 = Len(st) + 1
    BY <1>1
  <1> HIDE DEF new
  <1> QED
    BY <1>1, <1>3, <1>4, <1>5, <1>6 DEF b, xy, new

-----------------------------------------------------------------------------
(* The invariant under the three ways a step changes the stack.            *)

\* The top record t returns v; E are the NFAs that exist afterwards.
Popped(D, st, r, fl, E, v, gl) ==
  LET t == st[Len(st)] IN
  /\ st # <<>> /\ fl \subseteq gl /\ E \subseteq D /\ v \in E \cup {NULL}
  /\ \/ v = NULL \/ v = t.held
     \/ v = r /\ t.fn # "gprime" /\ ~ AwaitsGprime(t)
  /\ \A a \in D \ E : \/ a = r
                      \/ a = t.held /\ (t.fn # "gprime" \/ (v = NULL /\ "ABORT" \in gl))

\* The top record becomes x.
Replaced(D, st, r, E, x, ran) ==
  LET t == st[Len(st)] IN
  /\ st # <<>> /\ x \in Frame /\ HoldsWhatItMay(x) /\ ~ AwaitsGprime(x)
  /\ x.fn = t.fn \/ (t.fn = "group" /\ x.fn = "gprime")
  /\ E \subseteq Nat \ {NULL} /\ IsFiniteSet(E) /\ D \ {r} \subseteq E
  /\ x.held \in E \cup {NULL}
  /\ x.held = t.held \/ ((ran \/ t.fn # "gprime") /\ (x.held = r \/ x.held \notin D))
  /\ x.fn = "gprime" => ran \/ x.held # NULL

\* The top record becomes x and y is put on it.
Pushed(st, r, x, y, ran) ==
  LET t == st[Len(st)] IN
  /\ st # <<>> /\ x \in Frame /\ y \in Frame /\ HoldsWhatItMay(x) /\ HoldsWhatItMay(y)
  /\ x.fn = t.fn /\ Calls(x, y.fn) /\ ~ AwaitsGprime(t) /\ ~ AwaitsGprime(y)
  /\ x.held = t.held \/ (x.held = r /\ t.fn # "gprime")
  /\ y.held = IF AwaitsGprime(x) THEN x.held ELSE NULL
  /\ \A z \in {x, y} : z.fn = "gprime" => ran \/ z.held # NULL

\* Only group() may go on where range() or pattern() is called, and regex() and
\* group() where gprime() is.
LEMMA CallFacts ==
  ASSUME NEW r \in Frame, NEW fn, Calls(r, fn)
  PROVE  /\ AwaitsGprime(r) => fn = "gprime"
         /\ r.at \in {"pattern", "range"} => fn \in {"pattern", "range"}
         /\ fn = "group" => Calls(r, "gprime") /\ ~ AwaitsGprime(r)
         /\ fn # "parse" \/ r.at = "parse"
  BY DEF Calls, AwaitsGprime, Frame

LEMMA PopCalls ==
  ASSUME NEW st, WellCalled(st), st # <<>>
  PROVE  WellCalled(Rest(st))
  <1> DEFINE b == Rest(st)
  <1>1. st \in Seq(Frame)
    BY DEF WellCalled
  <1>2. /\ Len(st) \in Nat \ {0} /\ b \in Seq(Frame) /\ Len(b) = Len(st) - 1
        /\ \A i \in 1 .. Len(st) - 1 : b[i] = st[i]
        /\ b # <<>> => Len(st) > 1
    BY <1>1, StackFacts
  <1> HIDE DEF b
  <1>3. b # <<>> => b[1].fn = "parse"
    <2>1. Len(st) > 1 => 1 \in 1 .. Len(st) - 1
      BY <1>2
    <2> QED
      BY <1>2, <2>1 DEF WellCalled
  <1>4. ASSUME NEW i \in 1 .. Len(b) PROVE HoldsWhatItMay(b[i])
    <2>1. i \in 1 .. Len(st) - 1 /\ i \in 1 .. Len(st)
      BY <1>2
    <2> QED
      BY <1>2, <2>1 DEF WellCalled
  <1>5. ASSUME NEW i \in 1 .. Len(b) - 1 PROVE Calls(b[i], b[i + 1].fn)
    <2>1. i \in 1 .. Len(st) - 1 /\ i + 1 \in 1 .. Len(st) - 1
      BY <1>2
    <2> QED
      BY <1>2, <2>1 DEF WellCalled
  <1>6. WellCalled(b)
    BY <1>2, <1>3, <1>4, <1>5 DEF WellCalled
  <1> QED
    BY <1>6 DEF b

LEMMA PopSound ==
  ASSUME NEW D, NEW st, NEW r, NEW fl, NEW E, NEW v, NEW gl,
         NEW was, NEW ran, was => ran,
         WellCalled(st), Sound(D, st, r, fl, was), Popped(D, st, r, fl, E, v, gl)
  PROVE  Sound(E, Rest(st), v, gl, ran)
  <1> DEFINE b == Rest(st)
             n == Len(st)
             t == st[n]
  <1>1. st \in Seq(Frame) /\ st # <<>>
    BY DEF WellCalled, Popped
  <1>2. /\ n \in Nat \ {0} /\ Len(b) = n - 1 /\ \A i \in 1 .. n - 1 : b[i] = st[i]
        /\ \A i \in 1 .. n : st[i] \in Frame
    BY <1>1, StackFacts
  <1>3. /\ D \subseteq Nat \ {NULL} /\ IsFiniteSet(D) /\ r \in D \cup {NULL, RUNNING}
        /\ E \subseteq D /\ v \in E \cup {NULL}
        /\ v = NULL \/ v = t.held \/ (v = r /\ t.fn # "gprime")
        /\ \A a \in D \ E : \/ a = r
                            \/ a = t.held /\ (t.fn # "gprime" \/ (v = NULL /\ "ABORT" \in gl))
    BY DEF Sound, Popped
  <1>4. E \subseteq Nat \ {NULL} /\ IsFiniteSet(E)
    BY <1>3, FS_Subset
  <1>5. ASSUME NEW i \in 1 .. n - 1
        PROVE  /\ i \in 1 .. n /\ i # n /\ i < n /\ n \in 1 .. n
               /\ st[i].held \in D \cup {NULL}
               /\ AwaitsGprime(st[i]) => ran \/ st[i + 1].held = st[i].held
               /\ st[i].fn = "gprime" => ran \/ st[i].held # NULL
               /\ st[i].held = r => r = NULL
               /\ st[i].held # NULL /\ st[i].held = t.held => AwaitsGprime(st[i]) /\ n = i + 1
    <2>1. i \in 1 .. n /\ i # n /\ i < n /\ n \in 1 .. n
      BY <1>2
    <2> QED
      BY <2>1 DEF Sound
  <1>6. ASSUME NEW i \in 1 .. n - 1, AwaitsGprime(st[i]), n = i + 1
        PROVE  t.fn = "gprime"
    <2>1. Calls(st[i], t.fn) /\ st[i] \in Frame
      BY <1>2, <1>5, <1>6 DEF WellCalled
    <2> QED
      BY <1>6, <2>1, CallFacts
  <1>7. ASSUME NEW i \in 1 .. n - 1
        PROVE  /\ \/ st[i].held \in E \cup {NULL}
                  \/ i = n - 1 /\ AwaitsGprime(st[i]) /\ v = NULL /\ "ABORT" \in gl
               /\ AwaitsGprime(st[i]) => ran \/ IF i = n - 1 THEN v \in {NULL, st[i].held}
                                                ELSE st[i + 1].held = st[i].held
               /\ v # NULL /\ st[i].held = v => AwaitsGprime(st[i]) /\ i = n - 1
    <2>1. CASE st[i].held \in D \ E
      <3>1. st[i].held = t.held /\ st[i].held # NULL
        BY <2>1, <1>3, <1>5
      <3>2. AwaitsGprime(st[i]) /\ n = i + 1 /\ t.fn = "gprime"
        BY <3>1, <1>5, <1>6
      <3>3. v = NULL /\ "ABORT" \in gl
        <4> HIDE DEF t
        <4> QED
          BY <2>1, <3>1, <3>2, <1>3, <1>5
      <3>4. i = n - 1
        BY <3>2, <1>2
      <3> HIDE DEF t, n
      <3> QED
        BY <3>2, <3>3, <3>4
    <2>2. CASE st[i].held \notin D \ E
      <3>1. st[i].held \in E \cup {NULL}
        BY <2>2, <1>5
      <3>2. i # n - 1 => i + 1 # n
        BY <1>2
      <3>3. i = n - 1 => n = i + 1
        BY <1>2
      <3>4. v = r /\ st[i].held = v => v = NULL
        BY <1>5
      <3>5. i = n - 1 /\ AwaitsGprime(st[i]) => ran \/ v \in {NULL, st[i].held}
        BY <3>3, <1>3, <1>5, <1>6
      <3>6. v # NULL /\ st[i].held = v => AwaitsGprime(st[i]) /\ n = i + 1
        BY <3>4, <1>3, <1>5
      <3> HIDE DEF t, n
      <3> QED
        BY <3>1, <3>5, <3>6, <1>2, <1>5
    <2> QED
      BY <2>1, <2>2
  <1>8. ASSUME NEW i \in 1 .. n - 1, NEW j \in 1 .. n - 1, i < j, st[i].held # NULL,
               st[i].held = st[j].held
        PROVE  AwaitsGprime(st[i]) /\ j = i + 1
    BY <1>5, <1>8 DEF Sound
  <1> HIDE DEF b
  <1>9. ASSUME NEW i \in 1 .. Len(b)
        PROVE  /\ i \in 1 .. n - 1 /\ b[i] = st[i]
               /\ i # Len(b) => i + 1 \in 1 .. n - 1 /\ b[i + 1] = st[i + 1]
    BY <1>2
  <1>10. Sound(E, b, v, gl, ran)
    <2> HIDE DEF t, n
    <2>1. v \in E \cup {NULL, RUNNING}
      BY <1>3
    <2>2. ASSUME NEW i \in 1 .. Len(b)
          PROVE /\ \/ b[i].held \in E \cup {NULL}
                   \/ i = Len(b) /\ AwaitsGprime(b[i]) /\ v = NULL /\ "ABORT" \in gl
                /\ AwaitsGprime(b[i]) => ran \/ IF i = Len(b) THEN v \in {NULL, b[i].held}
                                                ELSE b[i + 1].held = b[i].held
                /\ b[i].fn = "gprime" => ran \/ b[i].held # NULL
                /\ v # NULL /\ b[i].held = v => AwaitsGprime(b[i]) /\ i = Len(b)
      BY <1>2, <1>5, <1>7, <1>9
    <2>3. ASSUME NEW i \in 1 .. Len(b), NEW j \in 1 .. Len(b), i < j, b[i].held # NULL,
                 b[i].held = b[j].held
          PROVE  AwaitsGprime(b[i]) /\ j = i + 1
      BY <1>8, <1>9, <2>3
    <2> QED
      BY <1>4, <2>1, <2>2, <2>3 DEF Sound
  <1> QED
    BY <1>10 DEF b

LEMMA ReplaceCalls ==
  ASSUME NEW D, NEW st, NEW r, NEW E, NEW x, NEW ran, WellCalled(st),
         Replaced(D, st, r, E, x, ran)
  PROVE  WellCalled(Append(Rest(st), x))
  <1> DEFINE new == Append(Rest(st), x)
             n == Len(st)
             t == st[n]
  <1>1. st \in Seq(Frame) /\ st # <<>> /\ x \in Frame /\ HoldsWhatItMay(x)
    BY DEF WellCalled, Replaced
  <1>2. n \in Nat \ {0} /\ \A i \in 1 .. n : st[i] \in Frame
    BY <1>1, StackFacts
  <1>3. /\ new \in Seq(Frame) /\ new # <<>> /\ Len(new) = n
        /\ \A i \in 1 .. n - 1 : new[i] = st[i]
        /\ new[n] = x
    BY <1>1, ReplacedFacts
  <1>4. x.fn = t.fn \/ (t.fn = "group" /\ x.fn = "gprime")
    BY DEF Replaced
  <1>5. n = 1 => t.fn = "parse"
    BY <1>1 DEF WellCalled
  <1> HIDE DEF new
  <1>6. new[1].fn = "parse"
    <2>1. CASE n = 1
      BY <2>1, <1>3, <1>4, <1>5
    <2>2. CASE n # 1
      <3>1. 1 \in 1 .. n - 1
        <4> HIDE DEF n
        <4> QED
          BY <2>2, <1>2
      <3> QED
        BY <3>1, <1>1, <1>3 DEF WellCalled
    <2> QED
      BY <2>1, <2>2
  <1>7. ASSUME NEW i \in 1 .. n PROVE HoldsWhatItMay(new[i])
    <2>1. i # n => i \in 1 .. n - 1
      BY <1>2
    <2> QED
      BY <2>1, <1>1, <1>3 DEF WellCalled
  <1>8. ASSUME NEW i \in 1 .. n - 1 PROVE Calls(new[i], new[i + 1].fn)
    <2>1. i \in 1 .. n /\ Calls(st[i], st[i + 1].fn) /\ new[i] = st[i] /\ st[i] \in Frame
      BY <1>2, <1>3 DEF WellCalled
    <2>2. CASE i + 1 = n
      <3>1. Calls(st[i], t.fn) /\ new[i + 1] = x
        BY <2>1, <2>2, <1>3
      <3>2. t.fn = "group" => Calls(st[i], "gprime")
        BY <2>1, <3>1, CallFacts
      <3> QED
        BY <2>1, <3>1, <3>2, <1>4
    <2>3. CASE i + 1 # n
      <3>1. i + 1 \in 1 .. n - 1
        BY <2>3, <1>2
      <3> QED
        BY <3>1, <2>1, <1>3
    <2> QED
      BY <2>2, <2>3
  <1>9. WellCalled(new)
    <2> HIDE DEF n
    <2> QED
      BY <1>3, <1>6, <1>7, <1>8 DEF WellCalled
  <1> QED
    BY <1>9 DEF new

LEMMA ReplaceSound ==
  ASSUME NEW D, NEW st, NEW r, NEW fl, NEW gl, NEW E, NEW x,
         NEW was, NEW ran, was => ran,
         WellCalled(st), Sound(D, st, r, fl, was), Replaced(D, st, r, E, x, ran)
  PROVE  Sound(E, Append(Rest(st), x), RUNNING, gl, ran)
  <1> DEFINE new == Append(Rest(st), x)
             n == Len(st)
             t == st[n]
  <1>1. st \in Seq(Frame) /\ st # <<>> /\ x \in Frame
    BY DEF WellCalled, Replaced
  <1>2. n \in Nat \ {0} /\ \A i \in 1 .. n : st[i] \in Frame
    BY <1>1, StackFacts
  <1>3. /\ Len(new) = n
        /\ \A i \in 1 .. n - 1 : new[i] = st[i]
        /\ new[n] = x
    BY <1>1, ReplacedFacts
  <1>4. /\ x.fn = t.fn \/ (t.fn = "group" /\ x.fn = "gprime")
        /\ ~ AwaitsGprime(x)
        /\ E \subseteq Nat \ {NULL} /\ IsFiniteSet(E) /\ D \ {r} \subseteq E
        /\ x.held \in E \cup {NULL}
        /\ x.held = t.held \/ ((ran \/ t.fn # "gprime") /\ (x.held = r \/ x.held \notin D))
        /\ x.fn = "gprime" => ran \/ x.held # NULL
    BY DEF Replaced
  <1>5. ASSUME NEW i \in 1 .. n - 1
        PROVE  /\ i \in 1 .. n /\ i # n /\ i < n /\ n \in 1 .. n
               /\ st[i].held \in D \cup {NULL}
               /\ AwaitsGprime(st[i]) => ran \/ st[i + 1].held = st[i].held
               /\ st[i].fn = "gprime" => ran \/ st[i].held # NULL
               /\ st[i].held = r => r = NULL
               /\ st[i].held # NULL /\ st[i].held = t.held => AwaitsGprime(st[i]) /\ n = i + 1
    <2>1. i \in 1 .. n /\ i # n /\ i < n /\ n \in 1 .. n
      BY <1>2
    <2> QED
      BY <2>1 DEF Sound
  <1>6. ASSUME NEW i \in 1 .. n - 1, AwaitsGprime(st[i]), n = i + 1
        PROVE  ran \/ x.held = st[i].held
    <2>1. Calls(st[i], t.fn) /\ st[i] \in Frame
      BY <1>2, <1>5, <1>6 DEF WellCalled
    <2>2. t.fn = "gprime"
      BY <1>6, <2>1, CallFacts
    <2> QED
      BY <2>2, <1>4, <1>5, <1>6
  <1> HIDE DEF new
  <1>7. ASSUME NEW i \in 1 .. n, i # n
        PROVE  /\ i \in 1 .. n - 1 /\ new[i] = st[i] /\ new[i].held \in E \cup {NULL}
               /\ AwaitsGprime(new[i]) => ran \/ new[i + 1].held = new[i].held
               /\ new[i].fn = "gprime" => ran \/ new[i].held # NULL
               /\ new[i].held # NULL /\ new[i].held = x.held => AwaitsGprime(new[i]) /\ n = i + 1
    <2>1. i \in 1 .. n - 1 /\ new[i] = st[i]
      BY <1>2, <1>3, <1>7
    <2>2. new[i].held \in E \cup {NULL}
      BY <2>1, <1>4, <1>5
    <2>3. AwaitsGprime(st[i]) => ran \/ new[i + 1].held = st[i].held
      <3>1. CASE n = i + 1
        BY <3>1, <2>1, <1>3, <1>6
      <3>2. CASE n # i + 1
        <4>1. i + 1 \in 1 .. n - 1
          BY <3>2, <2>1, <1>2
        <4> QED
          BY <4>1, <2>1, <1>3, <1>5
      <3> QED
        BY <3>1, <3>2
    <2>4. st[i].held # NULL /\ st[i].held = x.held => AwaitsGprime(st[i]) /\ n = i + 1
      <3> HIDE DEF n, t
      <3> QED
        BY <2>1, <1>4, <1>5
    <2> QED
      BY <2>1, <2>2, <2>3, <2>4, <1>5
  <1>8. ASSUME NEW i \in 1 .. n, NEW j \in 1 .. n, i < j, new[i].held # NULL,
               new[i].held = new[j].held
        PROVE  AwaitsGprime(new[i]) /\ j = i + 1
    <2>1. i # n
      BY <1>2, <1>8
    <2>2. CASE j = n
      BY <2>1, <2>2, <1>3, <1>7, <1>8
    <2>3. CASE j # n
      BY <2>1, <2>3, <1>7, <1>8 DEF Sound
    <2> QED
      BY <2>2, <2>3
  <1>9. ASSUME NEW i \in 1 .. n PROVE new[i].held # RUNNING
    BY <1>3, <1>4, <1>7 DEF NULL, RUNNING
  <1>10. Sound(E, new, RUNNING, gl, ran)
    <2> HIDE DEF n, t
    <2> QED
      BY <1>3, <1>4, <1>7, <1>8, <1>9 DEF Sound
  <1> QED
    BY <1>10 DEF new

LEMMA PushCalls ==
  ASSUME NEW st, NEW r, NEW x, NEW y, NEW ran, WellCalled(st),
         Pushed(st, r, x, y, ran)
  PROVE  WellCalled(Rest(st) \o <<x, y>>)
  <1> DEFINE new == Rest(st) \o <<x, y>>
             n == Len(st)
             t == st[n]
  <1>1. /\ st \in Seq(Frame) /\ st # <<>> /\ x \in Frame /\ y \in Frame
        /\ HoldsWhatItMay(x) /\ HoldsWhatItMay(y) /\ x.fn = t.fn /\ Calls(x, y.fn)
    BY DEF WellCalled, Pushed
  <1>2. n \in Nat \ {0}
    BY <1>1, StackFacts
  <1>3. /\ new \in Seq(Frame) /\ new # <<>> /\ Len(new) = n + 1
        /\ \A i \in 1 .. n - 1 : new[i] = st[i]
        /\ new[n] = x /\ new[n + 1] = y
    BY <1>1, PushedFacts
  <1> HIDE DEF new
  <1>4. new[1].fn = "parse"
    <2>1. CASE n = 1
      BY <2>1, <1>1, <1>3 DEF WellCalled
    <2>2. CASE n # 1
      <3>1. 1 \in 1 .. n - 1
        <4> HIDE DEF n
        <4> QED
          BY <2>2, <1>2
      <3> QED
        BY <3>1, <1>1, <1>3 DEF WellCalled
    <2> QED
      BY <2>1, <2>2
  <1>5. ASSUME NEW i \in 1 .. n + 1 PROVE HoldsWhatItMay(new[i])
    <2>1. i # n + 1 /\ i # n => i \in 1 .. n - 1 /\ i \in 1 .. n
      BY <1>2
    <2> QED
      BY <2>1, <1>1, <1>3 DEF WellCalled
  <1>6. ASSUME NEW i \in 1 .. n PROVE Calls(new[i], new[i + 1].fn)
    <2>1. CASE i = n
      BY <2>1, <1>1, <1>3
    <2>2. CASE i # n
      <3>1. i \in 1 .. n - 1 /\ Calls(st[i], st[i + 1].fn) /\ new[i] = st[i]
        BY <2>2, <1>2, <1>3 DEF WellCalled
      <3>2. CASE i + 1 = n
        BY <3>1, <3>2, <1>1, <1>3
      <3>3. CASE i + 1 # n
        <4>1. i + 1 \in 1 .. n - 1
          BY <3>1, <3>3, <1>2
        <4> QED
          BY <4>1, <3>1, <1>3
      <3> QED
        BY <3>2, <3>3
    <2> QED
      BY <2>1, <2>2
  <1>7. WellCalled(new)
    <2>1. Len(new) - 1 = n
      BY <1>2, <1>3
    <2> HIDE DEF n
    <2> QED
      BY <2>1, <1>3, <1>4, <1>5, <1>6 DEF WellCalled
  <1> QED
    BY <1>7 DEF new

LEMMA PushSound ==
  ASSUME NEW D, NEW st, NEW r, NEW fl, NEW gl, NEW x, NEW y,
         NEW was, NEW ran, was => ran,
         WellCalled(st), Sound(D, st, r, fl, was), Pushed(st, r, x, y, ran)
  PROVE  Sound(D, Rest(st) \o <<x, y>>, RUNNING, gl, ran)
  <1> DEFINE new == Rest(st) \o <<x, y>>
             n == Len(st)
             t == st[n]
  <1>1. st \in Seq(Frame) /\ st # <<>> /\ x \in Frame /\ y \in Frame
    BY DEF WellCalled, Pushed
  <1>2. n \in Nat \ {0} /\ \A i \in 1 .. n : st[i] \in Frame
    BY <1>1, StackFacts
  <1>3. /\ Len(new) = n + 1
        /\ \A i \in 1 .. n - 1 : new[i] = st[i]
        /\ new[n] = x /\ new[n + 1] = y
    BY <1>1, PushedFacts
  <1>4. /\ x.fn = t.fn /\ ~ AwaitsGprime(t) /\ ~ AwaitsGprime(y)
        /\ x.held = t.held \/ (x.held = r /\ t.fn # "gprime")
        /\ y.held = IF AwaitsGprime(x) THEN x.held ELSE NULL
        /\ \A z \in {x, y} : z.fn = "gprime" => ran \/ z.held # NULL
        /\ D \subseteq Nat \ {NULL} /\ IsFiniteSet(D) /\ r \in D \cup {NULL, RUNNING}
    BY <1>1 DEF Pushed, Sound
  <1>5. /\ x.held \in D \cup {NULL}
        /\ y.held \in D \cup {NULL}
        /\ AwaitsGprime(x) => t.fn # "gprime" /\ y.held = x.held
    <2>1. x.held \in Nat /\ RUNNING \notin Nat
      BY <1>1 DEF Frame, RUNNING
    <2>2. t.held \in D \cup {NULL}
      <3>1. n \in 1 .. n
        BY <1>2
      <3> QED
        BY <3>1, <1>4 DEF Sound
    <2>3. AwaitsGprime(x) => t.fn # "gprime"
      BY <1>4 DEF AwaitsGprime
    <2> QED
      BY <2>1, <2>2, <2>3, <1>4
  <1>6. ASSUME NEW i \in 1 .. n - 1
        PROVE  /\ i \in 1 .. n /\ i # n /\ i < n /\ n \in 1 .. n
               /\ st[i].held \in D \cup {NULL}
               /\ AwaitsGprime(st[i]) => ran \/ st[i + 1].held = st[i].held
               /\ st[i].fn = "gprime" => ran \/ st[i].held # NULL
               /\ st[i].held = r => r = NULL
               /\ st[i].held # NULL /\ st[i].held = t.held => AwaitsGprime(st[i]) /\ n = i + 1
    <2>1. i \in 1 .. n /\ i # n /\ i < n /\ n \in 1 .. n
      BY <1>2
    <2> QED
      BY <2>1 DEF Sound
  <1>7. ASSUME NEW i \in 1 .. n - 1, AwaitsGprime(st[i]), n = i + 1
        PROVE  t.fn = "gprime" /\ (ran \/ x.held = st[i].held)
    <2>1. Calls(st[i], t.fn) /\ st[i] \in Frame
      BY <1>2, <1>6, <1>7 DEF WellCalled
    <2>2. t.fn = "gprime"
      BY <1>7, <2>1, CallFacts
    <2> QED
      BY <2>2, <1>4, <1>6, <1>7
  <1> HIDE DEF new
  <1>8. ASSUME NEW i \in 1 .. n - 1
        PROVE  /\ new[i] = st[i] /\ new[i].held \in D \cup {NULL}
               /\ AwaitsGprime(new[i]) => ran \/ new[i + 1].held = new[i].held
               /\ new[i].fn = "gprime" => ran \/ new[i].held # NULL
               /\ new[i].held # NULL /\ new[i].held = x.held => AwaitsGprime(new[i]) /\ n = i + 1
               /\ new[i].held # NULL => ~ (AwaitsGprime(x) /\ new[i].held = x.held)
    <2>1. new[i] = st[i]
      BY <1>3
    <2>3. AwaitsGprime(st[i]) => ran \/ new[i + 1].held = st[i].held
      <3>1. CASE n = i + 1
        BY <3>1, <2>1, <1>3, <1>7
      <3>2. CASE n # i + 1
        <4>1. i + 1 \in 1 .. n - 1
          BY <3>2, <1>2
        <4> QED
          BY <4>1, <2>1, <1>3, <1>6
      <3> QED
        BY <3>1, <3>2
    <2>4. st[i].held # NULL /\ st[i].held = x.held => AwaitsGprime(st[i]) /\ n = i + 1
      BY <1>4, <1>6
    <2>5. st[i].held # NULL => ~ (AwaitsGprime(x) /\ st[i].held = x.held)
      <3>1. AwaitsGprime(x) /\ st[i].held # NULL /\ st[i].held = x.held => t.fn = "gprime"
        BY <2>4, <1>7
      <3> HIDE DEF n, t
      <3> QED
        BY <3>1, <1>5
    <2> QED
      BY <2>1, <2>3, <2>4, <2>5, <1>6
  <1>9. ASSUME NEW i \in 1 .. n + 1
        PROVE  i \in 1 .. n - 1 \/ (i = n /\ i # n + 1) \/ i = n + 1
    BY <1>2
  <1>10. ASSUME NEW i \in 1 .. n + 1
         PROVE  /\ new[i].held \in D \cup {NULL} /\ new[i].held # RUNNING
                /\ AwaitsGprime(new[i]) => i # n + 1 /\ (ran \/ new[i + 1].held = new[i].held)
                /\ new[i].fn = "gprime" => ran \/ new[i].held # NULL
    <2>1. new[i].held \in D \cup {NULL}
      <3>1. i \in 1 .. n - 1 => new[i].held \in D \cup {NULL}
        BY <1>8
      <3>2. new[n].held \in D \cup {NULL} /\ new[n + 1].held \in D \cup {NULL}
        BY <1>3, <1>5
      <3> QED
        BY <3>1, <3>2, <1>9
    <2>2. AwaitsGprime(new[i]) => i # n + 1 /\ (ran \/ new[i + 1].held = new[i].held)
      <3>1. i \in 1 .. n - 1 => i # n + 1
        BY <1>2
      <3> QED
        BY <3>1, <1>3, <1>4, <1>5, <1>8, <1>9
    <2>3. new[i].fn = "gprime" => ran \/ new[i].held # NULL
      BY <1>3, <1>4, <1>8, <1>9
    <2> QED
      BY <2>1, <2>2, <2>3, <1>4 DEF NULL, RUNNING
  <1>11. ASSUME NEW i \in 1 .. n + 1, NEW j \in 1 .. n + 1, i < j, new[i].held # NULL,
                new[i].held = new[j].held
         PROVE  AwaitsGprime(new[i]) /\ j = i + 1
    <2>1. i \in 1 .. n - 1 \/ i = n
      BY <1>2, <1>11
    <2>2. CASE i = n
      <3>1. j = n + 1
        BY <2>2, <1>2, <1>11
      <3> QED
        BY <2>2, <3>1, <1>3, <1>4, <1>11
    <2>3. CASE i \in 1 .. n - 1 /\ j = n + 1
      BY <2>3, <1>3, <1>4, <1>8, <1>11
    <2>4. CASE i \in 1 .. n - 1 /\ j = n
      BY <2>4, <1>3, <1>8, <1>11
    <2>5. CASE i \in 1 .. n - 1 /\ j \in 1 .. n - 1
      <3>1. i \in 1 .. n /\ j \in 1 .. n
        BY <2>5, <1>2
      <3> QED
        BY <2>5, <3>1, <1>8, <1>11 DEF Sound
    <2> QED
      BY <2>1, <2>2, <2>3, <2>4, <2>5, <1>9
  <1>12. Sound(D, new, RUNNING, gl, ran)
    <2>1. Len(new) \in Nat
      BY <1>2, <1>3
    <2> HIDE DEF n, t
    <2> QED
      BY <1>3, <1>4, <1>10, <1>11 DEF Sound
  <1> QED
    BY <1>12 DEF new

-----------------------------------------------------------------------------
(* What is kept, under the three ways.                                     *)

\* The top record returns v without losing an NFA of E; or it refuses.
Keeps(D, st, r, E, v, tok) ==
  LET t == st[Len(st)] IN
  \/ /\ AllHeld(D, st, r) /\ \A a \in E : a # v => a # r /\ a # t.held
     /\ t.fn # "gprime" \/ v # NULL
  \/ /\ v = NULL /\ t.fn \notin {"pattern", "range"}
     /\ tok \notin {TK_EOF, TK_RPAREN, TK_PIPE}

LEMMA PopKept ==
  ASSUME NEW D, NEW st, NEW r, NEW E, NEW v, NEW fl, NEW tok, NEW ran,
         WellCalled(st), st # <<>>, E \subseteq D, Keeps(D, st, r, E, v, tok)
  PROVE  Kept(E, Rest(st), v, fl, tok, ran)
  <1> DEFINE b == Rest(st)
             n == Len(st)
             t == st[n]
  <1>1. st \in Seq(Frame)
    BY DEF WellCalled
  <1>2. /\ n \in Nat \ {0} /\ Len(b) = n - 1 /\ \A i \in 1 .. n - 1 : b[i] = st[i]
        /\ \A i \in 1 .. n : st[i] \in Frame
        /\ b # <<>> => n > 1
    BY <1>1, StackFacts
  <1> SUFFICES Kept(E, b, v, fl, tok, ran)
    OBVIOUS
  <1> HIDE DEF b
  <1>3. b # <<>> => b[Len(b)] \in Frame /\ Calls(b[Len(b)], t.fn)
    <2> SUFFICES ASSUME b # <<>> PROVE b[Len(b)] \in Frame /\ Calls(b[Len(b)], t.fn)
      OBVIOUS
    <2>1. n - 1 \in 1 .. n - 1 /\ n - 1 \in 1 .. n /\ n - 1 + 1 = n
      BY <1>2
    <2>2. Calls(st[n - 1], st[n - 1 + 1].fn)
      BY <2>1 DEF WellCalled
    <2> QED
      BY <2>1, <2>2, <1>2
  <1>4. b # <<>> => /\ AwaitsGprime(b[Len(b)]) => t.fn = "gprime"
                    /\ b[Len(b)].at \in {"pattern", "range"} => t.fn \in {"pattern", "range"}
    BY <1>3, CallFacts
  <1>5. CASE v = NULL /\ t.fn \notin {"pattern", "range"}
             /\ tok \notin {TK_EOF, TK_RPAREN, TK_PIPE}
    <2> HIDE DEF t, n
    <2>1. Refused(b, NULL, tok)
      BY <1>4, <1>5 DEF Refused
    <2> QED
      BY <2>1, <1>5 DEF Kept
  <1>6. CASE /\ AllHeld(D, st, r) /\ \A a \in E : a # v => a # r /\ a # t.held
             /\ t.fn # "gprime" \/ v # NULL
    <2>1. ASSUME NEW a \in E, a # v
          PROVE  \E i \in 1 .. Len(b) : b[i].held = a
      <3>1. PICK i \in 1 .. n : st[i].held = a
        BY <1>6, <2>1 DEF AllHeld
      <3>2. i \in 1 .. n - 1
        <4>1. i # n
          BY <3>1, <1>6, <2>1
        <4> HIDE DEF n
        <4> QED
          BY <4>1, <1>2
      <3> QED
        BY <3>1, <3>2, <1>2
    <2>2. AllHeld(E, b, v)
      BY <2>1 DEF AllHeld
    <2> QED
      <3> HIDE DEF t, n
      <3>1. ~ (b # <<>> /\ AwaitsGprime(b[Len(b)]) /\ v = NULL)
        BY <1>4, <1>6
      <3> QED
        BY <2>2, <3>1 DEF Kept
  <1> QED
    BY <1>5, <1>6 DEF Keeps

LEMMA ReplaceKept ==
  ASSUME NEW D, NEW st, NEW r, NEW E, NEW x, NEW fl, NEW tok, NEW ran,
         st \in Seq(Frame), st # <<>>, x \in Frame, ~ AwaitsGprime(x), AllHeld(D, st, r),
         \A a \in E : a = x.held \/ (a \in D /\ a # r /\ a # st[Len(st)].held)
  PROVE  Kept(E, Append(Rest(st), x), RUNNING, fl, tok, ran)
  <1> DEFINE new == Append(Rest(st), x)
             n == Len(st)
  <1>1. n \in Nat \ {0}
    BY StackFacts
  <1>2. /\ Len(new) = n
        /\ \A i \in 1 .. n - 1 : new[i] = st[i]
        /\ new[n] = x
    BY ReplacedFacts
  <1> HIDE DEF new
  <1>3. ASSUME NEW a \in E
        PROVE  \E i \in 1 .. Len(new) : new[i].held = a
    <2>1. CASE a = x.held
      BY <2>1, <1>1, <1>2
    <2>2. CASE a \in D /\ a # r /\ a # st[n].held
      <3>1. PICK i \in 1 .. n : st[i].held = a
        BY <2>2 DEF AllHeld
      <3>2. i \in 1 .. n - 1
        <4>1. i # n
          BY <2>2, <3>1
        <4> HIDE DEF n
        <4> QED
          BY <4>1, <1>1
      <3>3. i \in 1 .. Len(new) /\ new[i].held = a
        BY <3>1, <3>2, <1>2
      <3> QED
        BY <3>3
    <2> QED
      BY <2>1, <2>2
  <1>4. AllHeld(E, new, RUNNING)
    BY <1>3 DEF AllHeld
  <1>5. Kept(E, new, RUNNING, fl, tok, ran)
    BY <1>2, <1>4 DEF Kept
  <1> QED
    BY <1>5 DEF new

LEMMA PushKept ==
  ASSUME NEW D, NEW st, NEW r, NEW x, NEW y, NEW fl, NEW tok, NEW ran,
         st \in Seq(Frame), st # <<>>, x \in Frame, y \in Frame, ~ AwaitsGprime(y),
         AllHeld(D, st, r),
         \A a \in D : a = r \/ a = st[Len(st)].held => a = x.held
  PROVE  Kept(D, Rest(st) \o <<x, y>>, RUNNING, fl, tok, ran)
  <1> DEFINE new == Rest(st) \o <<x, y>>
             n == Len(st)
  <1>1. n \in Nat \ {0}
    BY StackFacts
  <1>2. /\ Len(new) = n + 1
        /\ \A i \in 1 .. n - 1 : new[i] = st[i]
        /\ new[n] = x /\ new[n + 1] = y
    BY PushedFacts
  <1> HIDE DEF new
  <1>3. ASSUME NEW a \in D
        PROVE  \E i \in 1 .. Len(new) : new[i].held = a
    <2>1. CASE a = x.held
      <3>1. n \in 1 .. Len(new)
        BY <1>1, <1>2
      <3> QED
        BY <2>1, <3>1, <1>2
    <2>2. CASE a # r /\ a # st[n].held
      <3>1. PICK i \in 1 .. n : st[i].held = a
        BY <2>2 DEF AllHeld
      <3>2. i \in 1 .. n - 1 /\ i \in 1 .. n + 1
        <4>1. i # n
          BY <2>2, <3>1
        <4> HIDE DEF n
        <4> QED
          BY <4>1, <1>1
      <3> QED
        BY <3>1, <3>2, <1>2
    <2> QED
      BY <2>1, <2>2
  <1>4. AllHeld(D, new, RUNNING)
    BY <1>3 DEF AllHeld
  <1>5. Kept(D, new, RUNNING, fl, tok, ran)
    BY <1>2, <1>4 DEF Kept
  <1> QED
    BY <1>5 DEF new

-----------------------------------------------------------------------------
(* Together.                                                               *)

LEMMA PopIsSafe ==
  ASSUME NEW D, NEW st, NEW r, NEW fl, NEW E, NEW v, NEW gl, NEW tok, NEW was, NEW ran, was => ran,
         WellCalled(st), Sound(D, st, r, fl, was), Popped(D, st, r, fl, E, v, gl),
         ran \/ "ABORT" \in gl \/ Keeps(D, st, r, E, v, tok),
         st[Len(st)].fn = "parse" => v = NULL \/ "ABORT" \notin gl
  PROVE  Safe(E, Rest(st), v, gl, tok, ran)
  <1>1. st \in Seq(Frame) /\ st # <<>> /\ E \subseteq D /\ v \in E \cup {NULL}
        /\ D \subseteq Nat \ {NULL}
    BY DEF WellCalled, Popped, Sound
  <1>2. WellCalled(Rest(st)) /\ Sound(E, Rest(st), v, gl, ran)
    BY <1>1, PopCalls, PopSound
  <1>3. Kept(E, Rest(st), v, gl, tok, ran)
    <2>1. CASE ran \/ "ABORT" \in gl
      BY <2>1 DEF Kept
    <2>2. CASE Keeps(D, st, r, E, v, tok)
      BY <2>2, <1>1, PopKept
    <2> QED
      BY <2>1, <2>2
  <1>4. v # RUNNING
    BY <1>1 DEF RUNNING, NULL
  <1>5. Rest(st) = <<>> => st[Len(st)].fn = "parse"
    <2>1. Rest(st) = <<>> => Len(Rest(st)) = 0
      OBVIOUS
    <2>2. Len(Rest(st)) = Len(st) - 1 /\ Len(st) \in Nat
      BY <1>1, StackFacts
    <2>3. Rest(st) = <<>> => Len(st) = 1
      BY <2>1, <2>2
    <2> QED
      BY <2>3, <1>1 DEF WellCalled
  <1>6. Ended(Rest(st), v, gl)
    BY <1>4, <1>5 DEF Ended
  <1> QED
    BY <1>2, <1>3, <1>6 DEF Safe

LEMMA ReplaceIsSafe ==
  ASSUME NEW D, NEW st, NEW r, NEW fl, NEW E, NEW x, NEW gl, NEW tok, NEW was, NEW ran, was => ran,
         WellCalled(st), Sound(D, st, r, fl, was), Replaced(D, st, r, E, x, ran),
         \/ ran \/ "ABORT" \in gl
         \/ /\ AllHeld(D, st, r)
            /\ \A a \in E : a = x.held \/ (a \in D /\ a # r /\ a # st[Len(st)].held)
  PROVE  Safe(E, Append(Rest(st), x), RUNNING, gl, tok, ran)
  <1>1. st \in Seq(Frame) /\ st # <<>> /\ x \in Frame /\ ~ AwaitsGprime(x)
    BY DEF WellCalled, Replaced
  <1>2. WellCalled(Append(Rest(st), x)) /\ Sound(E, Append(Rest(st), x), RUNNING, gl, ran)
    BY ReplaceCalls, ReplaceSound
  <1>3. Kept(E, Append(Rest(st), x), RUNNING, gl, tok, ran)
    <2>1. CASE ran \/ "ABORT" \in gl
      BY <2>1 DEF Kept
    <2>2. CASE /\ AllHeld(D, st, r)
               /\ \A a \in E : a = x.held \/ (a \in D /\ a # r /\ a # st[Len(st)].held)
      BY <2>2, <1>1, ReplaceKept
    <2> QED
      BY <2>1, <2>2
  <1>4. Ended(Append(Rest(st), x), RUNNING, gl)
    BY <1>1, ReplacedFacts DEF Ended
  <1> QED
    BY <1>2, <1>3, <1>4 DEF Safe

LEMMA PushIsSafe ==
  ASSUME NEW D, NEW st, NEW r, NEW fl, NEW x, NEW y, NEW gl, NEW tok, NEW was, NEW ran, was => ran,
         WellCalled(st), Sound(D, st, r, fl, was), Pushed(st, r, x, y, ran),
         \/ ran \/ "ABORT" \in gl
         \/ /\ AllHeld(D, st, r)
            /\ \A a \in D : a = r \/ a = st[Len(st)].held => a = x.held
  PROVE  Safe(D, Rest(st) \o <<x, y>>, RUNNING, gl, tok, ran)
  <1>1. st \in Seq(Frame) /\ st # <<>> /\ x \in Frame /\ y \in Frame /\ ~ AwaitsGprime(y)
    BY DEF WellCalled, Pushed
  <1>2. WellCalled(Rest(st) \o <<x, y>>) /\ Sound(D, Rest(st) \o <<x, y>>, RUNNING, gl, ran)
    BY PushCalls, PushSound
  <1>3. Kept(D, Rest(st) \o <<x, y>>, RUNNING, gl, tok, ran)
    <2>1. CASE ran \/ "ABORT" \in gl
      BY <2>1 DEF Kept
    <2>2. CASE /\ AllHeld(D, st, r)
               /\ \A a \in D : a = r \/ a = st[Len(st)].held => a = x.held
      BY <2>2, <1>1, PushKept
    <2> QED
      BY <2>1, <2>2
  <1>4. Ended(Rest(st) \o <<x, y>>, RUNNING, gl)
    BY <1>1, PushedFacts DEF Ended
  <1> QED
    BY <1>2, <1>3, <1>4 DEF Safe

-----------------------------------------------------------------------------
(* The steps of the parser.                                                *)

LEMMA Now ==
  ASSUME MemoryInv, stack # <<>>
  PROVE  /\ WellCalled(stack) /\ Sound(DOMAIN heap, stack, ret, flags, ranOut)
         /\ stack \in Seq(Frame) /\ Below = Rest(stack)
         /\ Top \in Frame /\ HoldsWhatItMay(Top)
         /\ DOMAIN heap \subseteq Nat \ {NULL} /\ IsFiniteSet(DOMAIN heap)
         /\ ret \in DOMAIN heap \cup {NULL, RUNNING}
         /\ ~ AwaitsGprime(Top) => /\ Top.held \in DOMAIN heap \cup {NULL}
                                   /\ ret # NULL => Top.held # ret
         /\ Top.fn = "gprime" => ranOut \/ Top.held # NULL
         /\ AwaitsGprime(Top) => /\ ranOut \/ ret \in {NULL, Top.held}
                                 /\ Top.held \notin DOMAIN heap => "ABORT" \in flags /\ ret = NULL
         /\ NULL = 0 /\ RUNNING \notin DOMAIN heap /\ NULL \notin DOMAIN heap
  <1>1. WellCalled(stack) /\ Sound(DOMAIN heap, stack, ret, flags, ranOut)
    BY DEF MemoryInv, Safe
  <1>2. stack \in Seq(Frame)
    BY <1>1 DEF WellCalled
  <1>3. Len(stack) \in 1 .. Len(stack) /\ Top \in Frame /\ HoldsWhatItMay(Top)
    BY <1>1, <1>2, StackFacts DEF Top, WellCalled
  <1>4. /\ DOMAIN heap \subseteq Nat \ {NULL} /\ IsFiniteSet(DOMAIN heap)
        /\ ret \in DOMAIN heap \cup {NULL, RUNNING}
        /\ ~ AwaitsGprime(Top) => /\ Top.held \in DOMAIN heap \cup {NULL}
                                  /\ ret # NULL => Top.held # ret
        /\ Top.fn = "gprime" => ranOut \/ Top.held # NULL
        /\ AwaitsGprime(Top) => /\ ranOut \/ ret \in {NULL, Top.held}
                                /\ Top.held \notin DOMAIN heap => "ABORT" \in flags /\ ret = NULL
    <2>1. AwaitsGprime(Top) => Top.held # NULL
      BY <1>3 DEF AwaitsGprime, HoldsWhatItMay
    <2> QED
      BY <1>1, <1>3, <2>1 DEF Sound, Top
  <1>5. NULL = 0 /\ RUNNING \notin DOMAIN heap /\ NULL \notin DOMAIN heap
    BY <1>4 DEF NULL, RUNNING
  <1> QED
    BY <1>1, <1>2, <1>3, <1>4, <1>5 DEF Below, Rest

\* Nothing is lost yet where the failure may be taken for an end.
LEMMA StillHeld ==
  ASSUME MemoryInv, stack # <<>>,
         ret # NULL \/ token \in {TK_EOF, TK_RPAREN, TK_PIPE} \/ Top.at \in {"pattern", "range"}
  PROVE  ranOut \/ "ABORT" \in flags \/ AllHeld(DOMAIN heap, stack, ret)
  BY DEF MemoryInv, Safe, Kept, Refused, Top

LEMMA PopStep ==
  ASSUME MemoryInv, stack # <<>>, ranOut => ranOut', stack' = Below,
         Popped(DOMAIN heap, stack, ret, flags, DOMAIN heap', ret', flags'),
         \/ ranOut' \/ "ABORT" \in flags'
         \/ Keeps(DOMAIN heap, stack, ret, DOMAIN heap', ret', token'),
         Top.fn = "parse" => ret' = NULL \/ "ABORT" \notin flags'
  PROVE  MemoryInv'
  <1>1. WellCalled(stack) /\ Sound(DOMAIN heap, stack, ret, flags, ranOut) /\ Below = Rest(stack)
    BY Now
  <1>2. Safe(DOMAIN heap', Rest(stack), ret', flags', token', ranOut')
    BY <1>1, PopIsSafe DEF Top
  <1> QED
    BY <1>1, <1>2 DEF MemoryInv

LEMMA ReplaceStep ==
  ASSUME MemoryInv, stack # <<>>, ranOut => ranOut',
         NEW x, stack' = Append(Below, x), ret' = RUNNING,
         Replaced(DOMAIN heap, stack, ret, DOMAIN heap', x, ranOut'),
         \/ ranOut' \/ "ABORT" \in flags'
         \/ /\ AllHeld(DOMAIN heap, stack, ret)
            /\ \A a \in DOMAIN heap' :
                 a = x.held \/ (a \in DOMAIN heap /\ a # ret /\ a # Top.held)
  PROVE  MemoryInv'
  <1>1. WellCalled(stack) /\ Sound(DOMAIN heap, stack, ret, flags, ranOut) /\ Below = Rest(stack)
    BY Now
  <1>2. Safe(DOMAIN heap', Append(Rest(stack), x), RUNNING, flags', token', ranOut')
    BY <1>1, ReplaceIsSafe DEF Top
  <1> QED
    BY <1>1, <1>2 DEF MemoryInv

LEMMA PushStep ==
  ASSUME MemoryInv, stack # <<>>, ranOut => ranOut',
         NEW x, NEW y, stack' = Below \o <<x, y>>, ret' = RUNNING,
         Pushed(stack, ret, x, y, ranOut'), DOMAIN heap' = DOMAIN heap,
         \/ ranOut' \/ "ABORT" \in flags'
         \/ /\ AllHeld(DOMAIN heap, stack, ret)
            /\ \A a \in DOMAIN heap : a = ret \/ a = Top.held => a = x.held
  PROVE  MemoryInv'
  <1>1. WellCalled(stack) /\ Sound(DOMAIN heap, stack, ret, flags, ranOut) /\ Below = Rest(stack)
    BY Now
  <1>2. Safe(DOMAIN heap, Rest(stack) \o <<x, y>>, RUNNING, flags', token', ranOut')
    BY <1>1, PushIsSafe DEF Top
  <1> QED
    BY <1>1, <1>2 DEF MemoryInv

\* Of what the records that call another function may be.
LEMMA Callers ==
  /\ \A held \in Nat : \A fn \in Names : \A at \in Places[fn] : Record(fn, at, held) \in Frame
  /\ \A fn, at, held : /\ Record(fn, at, held).fn = fn
                       /\ Record(fn, at, held).at = at /\ Record(fn, at, held).held = held
  <1>1. ASSUME NEW fn \in Names, NEW at \in Places[fn]
        PROVE  at \in {"begin", "allowed", "regex", "group", "gprime", "pattern", "range",
                       "append", "union"}
    BY DEF Names, Places
  <1> QED
    BY <1>1 DEF Record, Frame

LEMMA HeapDomains ==
  /\ \A h, a : DOMAIN Without(h, a) = DOMAIN h \ {a}
  /\ \A h, a, words : DOMAIN With(h, a, words) = DOMAIN h \cup {a}
  BY DEF Without, With

LEMMA FailFacts ==
  ASSUME NEW set, NEW a, Fail(set, a)
  PROVE  /\ flags' = flags \cup set /\ DOMAIN heap' = DOMAIN heap \ {a}
         /\ stack' = Below /\ ret' = NULL
  BY HeapDomains DEF Fail, Error, Return

\* A record that holds nothing calls another function, and goes on holding nothing.
LEMMA CallStep ==
  ASSUME MemoryInv, stack # <<>>, NEW fn \in Names, NEW at \in Places[Top.fn],
         Call(fn, NULL, at, NULL), DOMAIN heap' = DOMAIN heap, flags' = flags, ranOut' = ranOut,
         Top.fn \in {"parse", "regex", "group"}, Top.held = NULL, at # "gprime", fn # "gprime",
         at = fn,
         ret = RUNNING \/ (ret = NULL /\ Top.at \in {"pattern", "range"})
  PROVE  MemoryInv'
  <1> DEFINE x == Record(Top.fn, at, NULL)
             y == Record(fn, "begin", NULL)
  <1>1. stack' = Below \o <<x, y>> /\ ret' = RUNNING
    BY DEF Call
  <1>2. Top \in Frame /\ Top.fn \in Names /\ HoldsWhatItMay(Top)
    BY Now DEF Frame
  <1>3. "begin" \in Places[fn]
    BY DEF Places, Names
  <1>4. x \in Frame /\ y \in Frame /\ x.fn = Top.fn /\ x.at = at /\ x.held = NULL
        /\ y.fn = fn /\ y.at = "begin" /\ y.held = NULL
    BY <1>2, <1>3, Callers DEF NULL
  <1>5. ~ AwaitsGprime(Top)
    BY <1>2 DEF AwaitsGprime, HoldsWhatItMay
  <1> HIDE DEF x, y
  <1>6. HoldsWhatItMay(x) /\ HoldsWhatItMay(y) /\ Calls(x, y.fn)
        /\ ~ AwaitsGprime(x) /\ ~ AwaitsGprime(y)
    BY <1>3, <1>4 DEF HoldsWhatItMay, Calls, AwaitsGprime
  <1>7. Pushed(stack, ret, x, y, ranOut')
    BY <1>4, <1>5, <1>6 DEF Pushed, Top
  <1>8. \/ ranOut \/ "ABORT" \in flags
        \/ /\ AllHeld(DOMAIN heap, stack, ret)
           /\ \A a \in DOMAIN heap : a = ret \/ a = Top.held => a = x.held
    BY <1>4, Now, StillHeld DEF NULL, RUNNING
  <1> QED
    BY <1>1, <1>7, <1>8, PushStep

LEMMA ParseSteps ==
  ASSUME MemoryInv, ranOut' = ranOut, ParseBegin \/ ParseEnd
  PROVE  MemoryInv'
  <1>1. CASE ParseBegin
    <2>1. /\ stack # <<>> /\ ret = RUNNING /\ Top.fn = "parse"
          /\ Call("regex", NULL, "regex", NULL) /\ heap' = heap /\ flags' = flags
      BY <1>1 DEF ParseBegin, Runs, NoError
    <2>2. Top.held = NULL /\ "regex" \in Places[Top.fn]
      BY <2>1, Now DEF HoldsWhatItMay, Places
    <2> QED
      BY <2>1, <2>2, CallStep DEF Names
  <1>2. CASE ParseEnd
    <2>1. stack # <<>> /\ ret # RUNNING /\ Top.fn = "parse" /\ Top.at = "regex" /\ token' = token
      BY <1>2 DEF ParseEnd, Resumes, input
    <2>2. Top.held = NULL /\ ~ AwaitsGprime(Top)
      BY <2>1, Now DEF HoldsWhatItMay, AwaitsGprime
    <2>3. CASE IsComplete
      <3>1. /\ stack' = Below /\ ret' = ret /\ heap' = heap /\ flags' = flags
            /\ ret # NULL /\ "ABORT" \notin flags
        BY <1>2, <2>3 DEF ParseEnd, IsComplete, Return, NoError
      <3>2. Popped(DOMAIN heap, stack, ret, flags, DOMAIN heap', ret', flags')
        BY <2>1, <2>2, <3>1, Now DEF Popped, Top
      <3>3. ranOut \/ Keeps(DOMAIN heap, stack, ret, DOMAIN heap', ret', token')
        BY <2>1, <2>2, <3>1, Now, StillHeld DEF Keeps, Top
      <3> QED
        BY <2>1, <3>1, <3>2, <3>3, PopStep
    <2>4. CASE ~ IsComplete
      <3>1. /\ stack' = Below /\ ret' = NULL /\ DOMAIN heap' = DOMAIN heap \ {ret}
            /\ flags' = flags
        <4>1. CASE ret = NULL \/ "ABORT" \in flags
          BY <1>2, <2>4, <4>1, HeapDomains DEF ParseEnd, Return, NoError
        <4>2. CASE ~ (ret = NULL \/ "ABORT" \in flags)
          <5>1. Fail({}, ret)
            BY <1>2, <2>4, <4>2 DEF ParseEnd
          <5>2. flags \cup {} = flags
            OBVIOUS
          <5> QED
            BY <5>1, <5>2, FailFacts
        <4> QED
          BY <4>1, <4>2
      <3>2. Popped(DOMAIN heap, stack, ret, flags, DOMAIN heap', ret', flags')
        BY <2>1, <2>2, <3>1, Now DEF Popped, Top
      <3>3. ranOut \/ "ABORT" \in flags
              \/ Keeps(DOMAIN heap, stack, ret, DOMAIN heap', ret', token')
        <4>1. CASE token \in {TK_EOF, TK_RPAREN, TK_PIPE} \/ ret # NULL
          BY <2>1, <2>2, <3>1, <4>1, Now, StillHeld DEF Keeps, Top
        <4>2. CASE token \notin {TK_EOF, TK_RPAREN, TK_PIPE} /\ ret = NULL
          BY <2>1, <2>2, <3>1, <4>2 DEF Keeps, Top
        <4> QED
          BY <4>1, <4>2
      <3> QED
        BY <2>1, <3>1, <3>2, <3>3, PopStep
    <2> QED
      BY <2>3, <2>4
  <1> QED
    BY <1>1, <1>2

LEMMA RegexSteps ==
  ASSUME MemoryInv, ranOut' = ranOut, RegexBegin \/ RegexAfterGroup \/ RegexEnd
  PROVE  MemoryInv'
  <1>1. CASE RegexBegin
    <2>1. /\ stack # <<>> /\ ret = RUNNING /\ Top.fn = "regex" /\ Top.at = "begin"
          /\ Call("group", NULL, "group", NULL) /\ heap' = heap /\ flags' = flags
      BY <1>1 DEF RegexBegin, Runs, OnlyControl, NoError
    <2>2. Top.held = NULL /\ "group" \in Places[Top.fn]
      BY <2>1, Now DEF HoldsWhatItMay, Places
    <2> QED
      BY <2>1, <2>2, CallStep DEF Names
  <1>2. CASE RegexAfterGroup
    <2>1. /\ stack # <<>> /\ ret # RUNNING /\ Top.fn = "regex" /\ Top.at = "group"
          /\ token' = token /\ heap' = heap /\ flags' = flags
      BY <1>2 DEF RegexAfterGroup, Resumes, OnlyControl, NoError, input
    <2>2. Top.held = NULL /\ ~ AwaitsGprime(Top)
      BY <2>1, Now DEF HoldsWhatItMay, AwaitsGprime
    <2>3. CASE ret = NULL
      <3>1. stack' = Below /\ ret' = NULL
        BY <1>2, <2>3 DEF RegexAfterGroup, Return
      <3>2. Popped(DOMAIN heap, stack, ret, flags, DOMAIN heap', ret', flags')
        BY <2>1, <2>2, <3>1, Now DEF Popped, Top
      <3>3. ranOut \/ "ABORT" \in flags
              \/ Keeps(DOMAIN heap, stack, ret, DOMAIN heap', ret', token')
        <4>1. CASE token \in {TK_EOF, TK_RPAREN, TK_PIPE}
          BY <2>1, <2>2, <2>3, <3>1, <4>1, Now, StillHeld DEF Keeps, Top
        <4>2. CASE token \notin {TK_EOF, TK_RPAREN, TK_PIPE}
          BY <2>1, <2>2, <3>1, <4>2 DEF Keeps, Top
        <4> QED
          BY <4>1, <4>2
      <3> QED
        BY <2>1, <3>1, <3>2, <3>3, PopStep
    <2>4. CASE ret # NULL
      <3> DEFINE x == Record("regex", "gprime", ret)
                 y == Record("gprime", "begin", ret)
      <3>1. stack' = Below \o <<x, y>> /\ ret' = RUNNING
        BY <1>2, <2>1, <2>4 DEF RegexAfterGroup, Call
      <3>2. ret \in Nat
        BY <2>1, <2>4, Now
      <3>3. Pushed(stack, ret, x, y, ranOut')
        BY <2>1, <2>2, <2>4, <3>2, Callers
           DEF Pushed, Top, HoldsWhatItMay, AwaitsGprime, Calls, Places, Names
      <3>4. \/ ranOut \/ "ABORT" \in flags
            \/ /\ AllHeld(DOMAIN heap, stack, ret)
               /\ \A a \in DOMAIN heap : a = ret \/ a = Top.held => a = x.held
        <4>1. x.held = ret
          BY Callers
        <4> QED
          BY <2>1, <2>2, <2>4, <4>1, Now, StillHeld
      <3> HIDE DEF x, y
      <3> QED
        BY <2>1, <3>1, <3>3, <3>4, PushStep
    <2> QED
      BY <2>3, <2>4
  <1>3. CASE RegexEnd
    <2>1. /\ stack # <<>> /\ ret # RUNNING /\ Top.fn = "regex" /\ Top.at = "gprime"
          /\ token' = token /\ heap' = heap /\ stack' = Below
      BY <1>3 DEF RegexEnd, Resumes, input, Return
    <2>2. /\ AwaitsGprime(Top) /\ Top.held # NULL
          /\ ranOut \/ ret \in {NULL, Top.held}
          /\ ret # NULL => Top.held \in DOMAIN heap
      BY <2>1, Now DEF HoldsWhatItMay, AwaitsGprime
    <2>3. ret = NULL =>
            ranOut \/ "ABORT" \in flags \/ token \notin {TK_EOF, TK_RPAREN, TK_PIPE}
      BY <2>1, <2>2 DEF MemoryInv, Safe, Kept, Refused, Top
    <2>4. CASE ret # NULL \/ ("ABORT" \notin flags /\ token = TK_RPAREN)
      <3>1. ret' = Top.held /\ flags' = flags
        BY <1>3, <2>4 DEF RegexEnd, Return, NoError
      <3>2. Popped(DOMAIN heap, stack, ret, flags, DOMAIN heap', ret', flags')
        BY <2>1, <2>2, <2>4, <3>1, Now DEF Popped, Top
      <3>3. ranOut \/ "ABORT" \in flags
              \/ Keeps(DOMAIN heap, stack, ret, DOMAIN heap', ret', token')
        <4>1. CASE ret # NULL
          BY <2>1, <2>2, <3>1, <4>1, StillHeld DEF Keeps, Top
        <4>2. CASE ret = NULL
          BY <2>3, <2>4, <4>2
        <4> QED
          BY <4>1, <4>2
      <3> QED
        BY <2>1, <3>1, <3>2, <3>3, PopStep
    <2>5. CASE ~ (ret # NULL \/ ("ABORT" \notin flags /\ token = TK_RPAREN))
      <3>1. ret' = NULL /\ flags' = flags
        <4>1. ret' = NULL /\ (flags' = flags \/ flags' = flags \cup {})
          BY <1>3, <2>5 DEF RegexEnd, Return, NoError, Error
        <4> QED
          BY <4>1
      <3>2. Popped(DOMAIN heap, stack, ret, flags, DOMAIN heap', ret', flags')
        BY <2>1, <3>1 DEF Popped, Top
      <3>3. ranOut \/ "ABORT" \in flags
              \/ Keeps(DOMAIN heap, stack, ret, DOMAIN heap', ret', token')
        BY <2>1, <2>3, <2>5, <3>1 DEF Keeps, Top
      <3> QED
        BY <2>1, <3>1, <3>2, <3>3, PopStep
    <2> QED
      BY <2>4, <2>5
  <1> QED
    BY <1>1, <1>2, <1>3

\* What may not follow is neither an end nor the start of an alternative.
LEMMA RefusedToken ==
  ASSUME NEW tk, ~ MayFollow(tk)
  PROVE  tk \notin {TK_EOF, TK_RPAREN, TK_PIPE}
  BY DEF MayFollow, TK_EOF, TK_RPAREN, TK_PIPE

LEMMA QuantifiedStep ==
  ASSUME MemoryInv, stack # <<>>, Top.fn = "group", ret \notin {NULL, RUNNING},
         ranOut' = ranOut, NEW n, ReturnQuantified(n)
  PROVE  MemoryInv'
  <1>1. Top.held = NULL /\ ~ AwaitsGprime(Top)
    BY Now DEF HoldsWhatItMay, AwaitsGprime
  <1>2. CASE MayFollow(Lexed(n).token)
    <2>1. stack' = Below /\ ret' = ret /\ DOMAIN heap' = DOMAIN heap /\ flags' = flags
      BY <1>2 DEF ReturnQuantified, Return, NoError
    <2>2. Popped(DOMAIN heap, stack, ret, flags, DOMAIN heap', ret', flags')
      BY <1>1, <2>1, Now DEF Popped, Top
    <2>3. ranOut \/ "ABORT" \in flags \/ Keeps(DOMAIN heap, stack, ret, DOMAIN heap', ret', token')
      BY <1>1, <2>1, Now, StillHeld DEF Keeps, Top
    <2> QED
      BY <2>1, <2>2, <2>3, PopStep
  <1>3. CASE ~ MayFollow(Lexed(n).token)
    <2>1. Fail({}, NULL) /\ token' = Lexed(n).token
      BY <1>3 DEF ReturnQuantified, Consume
    <2>2. /\ stack' = Below /\ ret' = NULL /\ DOMAIN heap' = DOMAIN heap \ {NULL}
          /\ flags' = flags \cup {}
      BY <2>1, FailFacts
    <2>3. DOMAIN heap' = DOMAIN heap /\ flags' = flags
      BY <2>2, Now
    <2>4. Popped(DOMAIN heap, stack, ret, flags, DOMAIN heap', ret', flags')
      BY <2>2, <2>3 DEF Popped, Top
    <2>5. Keeps(DOMAIN heap, stack, ret, DOMAIN heap', ret', token')
      BY <1>3, <2>1, <2>2, RefusedToken DEF Keeps, Top
    <2> QED
      BY <2>2, <2>4, <2>5, PopStep
  <1> QED
    BY <1>2, <1>3

LEMMA GroupSteps ==
  ASSUME MemoryInv, ranOut' = ranOut,
         \/ GroupBegin \/ GroupMalformed \/ GroupUnclosed \/ GroupClosed
         \/ GroupAfterPattern \/ GroupAfterRange
  PROVE  MemoryInv'
  <1>1. stack # <<>> /\ Top.fn = "group"
    BY DEF GroupBegin, GroupMalformed, GroupUnclosed, GroupClosed, GroupAfterPattern,
           GroupAfterRange, Runs, Resumes
  <1>2. Top.held = NULL /\ ~ AwaitsGprime(Top)
    BY <1>1, Now DEF HoldsWhatItMay, AwaitsGprime
  <1>3. Places[Top.fn] = {"begin", "regex", "pattern", "range"}
    BY <1>1 DEF Places
  <1>4. CASE GroupBegin
    <2>1. ret = RUNNING /\ heap' = heap /\ flags' = flags
      BY <1>4 DEF GroupBegin, Runs, NoError
    <2>2. Call("regex", NULL, "regex", NULL) \/ Call("pattern", NULL, "pattern", NULL)
      BY <1>4 DEF GroupBegin
    <2> QED
      BY <1>1, <1>2, <1>3, <2>1, <2>2, CallStep DEF Names
  <1>5. CASE GroupMalformed
    <2>1. ret = NULL /\ token' = token /\ Fail({}, NULL)
      BY <1>5 DEF GroupMalformed, input
    <2>2. /\ stack' = Below /\ ret' = NULL /\ DOMAIN heap' = DOMAIN heap \ {NULL}
          /\ flags' = flags \cup {}
      BY <2>1, FailFacts
    <2>3. DOMAIN heap' = DOMAIN heap /\ flags' = flags
      BY <1>1, <2>2, Now
    <2>4. Popped(DOMAIN heap, stack, ret, flags, DOMAIN heap', ret', flags')
      BY <1>1, <2>2, <2>3 DEF Popped, Top
    <2>5. ranOut \/ "ABORT" \in flags
            \/ Keeps(DOMAIN heap, stack, ret, DOMAIN heap', ret', token')
      <3>1. CASE token \in {TK_EOF, TK_RPAREN, TK_PIPE}
        BY <1>1, <1>2, <2>1, <2>2, <2>3, <3>1, Now, StillHeld DEF Keeps, Top
      <3>2. CASE token \notin {TK_EOF, TK_RPAREN, TK_PIPE}
        BY <1>1, <2>1, <2>2, <3>2 DEF Keeps, Top
      <3> QED
        BY <3>1, <3>2
    <2> QED
      BY <1>1, <2>2, <2>3, <2>4, <2>5, PopStep
  <1>6. CASE GroupUnclosed
    <2>1. ret # NULL /\ ret # RUNNING /\ Fail({"DISABLE_ERROR_MSG"}, ret)
      BY <1>6 DEF GroupUnclosed, Resumes
    <2>2. /\ stack' = Below /\ ret' = NULL /\ DOMAIN heap' = DOMAIN heap \ {ret}
          /\ flags' = flags \cup {"DISABLE_ERROR_MSG"}
      BY <2>1, FailFacts
    <2>3. Popped(DOMAIN heap, stack, ret, flags, DOMAIN heap', ret', flags')
      BY <1>1, <2>2 DEF Popped, Top
    <2>4. ranOut \/ "ABORT" \in flags'
            \/ Keeps(DOMAIN heap, stack, ret, DOMAIN heap', ret', token')
      BY <1>1, <1>2, <2>1, <2>2, Now, StillHeld DEF Keeps, Top
    <2> QED
      BY <1>1, <2>2, <2>3, <2>4, PopStep
  <1>7. CASE GroupClosed
    <2>1. ret \notin {NULL, RUNNING} /\ ReturnQuantified(1)
      BY <1>7 DEF GroupClosed, Resumes
    <2> QED
      BY <1>1, <2>1, QuantifiedStep
  <1>8. CASE GroupAfterPattern
    <2>1. ret # RUNNING /\ Top.at = "pattern" /\ heap' = heap /\ flags' = flags /\ token' = token
      BY <1>8 DEF GroupAfterPattern, Resumes, OnlyControl, NoError, input
    <2>2. CASE ret = NULL
      <3>1. Call("range", NULL, "range", NULL)
        BY <1>8, <2>2 DEF GroupAfterPattern
      <3> QED
        BY <1>1, <1>2, <1>3, <2>1, <2>2, <3>1, CallStep DEF Names
    <2>3. CASE ret # NULL
      <3> DEFINE x == Record("gprime", "begin", ret)
      <3>1. stack' = Append(Below, x) /\ ret' = RUNNING
        BY <1>8, <2>3 DEF GroupAfterPattern, TailCall
      <3>2. ret \in DOMAIN heap /\ ret \in Nat
        BY <1>1, <2>1, <2>3, Now
      <3>3. x \in Frame /\ x.fn = "gprime" /\ x.at = "begin" /\ x.held = ret
        BY <3>2, Callers DEF Names, Places
      <3> HIDE DEF x
      <3>4. HoldsWhatItMay(x) /\ ~ AwaitsGprime(x)
        BY <2>3, <3>3 DEF HoldsWhatItMay, Places, AwaitsGprime
      <3>5. Replaced(DOMAIN heap, stack, ret, DOMAIN heap', x, ranOut')
        BY <1>1, <2>1, <3>2, <3>3, <3>4, Now DEF Replaced, Top
      <3>6. \/ ranOut \/ "ABORT" \in flags
            \/ /\ AllHeld(DOMAIN heap, stack, ret)
               /\ \A a \in DOMAIN heap' :
                    a = x.held \/ (a \in DOMAIN heap /\ a # ret /\ a # Top.held)
        BY <1>1, <1>2, <2>1, <2>3, <3>3, Now, StillHeld
      <3> QED
        BY <1>1, <2>1, <3>1, <3>5, <3>6, ReplaceStep
    <2> QED
      BY <2>2, <2>3
  <1>9. CASE GroupAfterRange
    <2>1. ret # RUNNING /\ Top.at = "range"
      BY <1>9 DEF GroupAfterRange, Resumes
    <2>2. CASE ret # NULL
      BY <1>1, <1>9, <2>1, <2>2, QuantifiedStep DEF GroupAfterRange
    <2>3. CASE ret = NULL
      <3>1. stack' = Below /\ ret' = NULL /\ heap' = heap /\ flags' = flags
        BY <1>9, <2>3 DEF GroupAfterRange, Return, OnlyControl, NoError
      <3>2. Popped(DOMAIN heap, stack, ret, flags, DOMAIN heap', ret', flags')
        BY <1>1, <3>1 DEF Popped, Top
      <3>3. ranOut \/ "ABORT" \in flags
              \/ Keeps(DOMAIN heap, stack, ret, DOMAIN heap', ret', token')
        BY <1>1, <1>2, <2>1, <2>3, <3>1, Now, StillHeld DEF Keeps, Top
      <3> QED
        BY <1>1, <3>1, <3>2, <3>3, PopStep
    <2> QED
      BY <2>2, <2>3
  <1> QED
    BY <1>4, <1>5, <1>6, <1>7, <1>8, <1>9

LEMMA GprimeCall ==
  ASSUME MemoryInv, stack # <<>>, Top.fn = "gprime", NEW at \in {"append", "union"},
         Call("group", NULL, at, Top.held), heap' = heap, ranOut' = ranOut, flags' = flags,
         ret = RUNNING \/ (ret = NULL /\ token = TK_PIPE)
  PROVE  MemoryInv'
  <1> DEFINE x == Record("gprime", at, Top.held)
             y == Record("group", "begin", NULL)
  <1>1. stack' = Below \o <<x, y>> /\ ret' = RUNNING
    BY DEF Call
  <1>2. /\ Top \in Frame /\ Top.held \in Nat /\ ~ AwaitsGprime(Top)
        /\ ranOut \/ Top.held # NULL
    BY Now DEF Frame, AwaitsGprime
  <1>3. x \in Frame /\ y \in Frame /\ x.fn = "gprime" /\ x.at = at /\ x.held = Top.held
        /\ y.fn = "group" /\ y.at = "begin" /\ y.held = NULL
    BY <1>2, Callers DEF Names, Places, NULL
  <1> HIDE DEF x, y
  <1>4. HoldsWhatItMay(x) /\ HoldsWhatItMay(y) /\ Calls(x, y.fn)
        /\ ~ AwaitsGprime(x) /\ ~ AwaitsGprime(y)
    BY <1>2, <1>3 DEF HoldsWhatItMay, Calls, AwaitsGprime, Places
  <1>5. Pushed(stack, ret, x, y, ranOut')
    BY <1>2, <1>3, <1>4 DEF Pushed, Top
  <1>6. \/ ranOut \/ "ABORT" \in flags
        \/ /\ AllHeld(DOMAIN heap, stack, ret)
           /\ \A a \in DOMAIN heap : a = ret \/ a = Top.held => a = x.held
    BY <1>3, Now, StillHeld DEF NULL, RUNNING
  <1> QED
    BY <1>1, <1>5, <1>6, PushStep

LEMMA GprimeSteps ==
  ASSUME MemoryInv, ranOut' = ranOut,
         \/ GprimeBegin \/ GprimeAppend \/ GprimeUnion \/ GprimePipe \/ GprimeEnd
         \/ GprimeNothingAfterPipe
  PROVE  MemoryInv'
  <1>1. stack # <<>> /\ Top.fn = "gprime"
    BY DEF GprimeBegin, GprimeAppend, GprimeUnion, GprimeJoin, GprimePipe, GprimeEnd,
           GprimeNothingAfterPipe, Runs, Resumes
  <1>2. /\ ranOut \/ Top.held # NULL
        /\ Top.held \in DOMAIN heap \cup {NULL} /\ Top.held \in Nat
        /\ ~ AwaitsGprime(Top)
    BY <1>1, Now DEF Frame, AwaitsGprime
  <1>3. CASE GprimeBegin
    <2>1. ret = RUNNING /\ heap' = heap /\ flags' = flags /\ Call("group", NULL, "append", Top.held)
      BY <1>3 DEF GprimeBegin, Runs, OnlyControl, NoError
    <2> QED
      BY <1>1, <2>1, GprimeCall
  <1>4. ASSUME NEW how, GprimeJoin(how) PROVE MemoryInv'
    <2> DEFINE x == Record("gprime", "begin", Either(Top.held, ret))
    <2>1. /\ ret \notin {NULL, RUNNING} /\ flags' = flags
          /\ DOMAIN heap' = IF Top.held = NULL THEN DOMAIN heap ELSE DOMAIN heap \ {ret}
          /\ stack' = Append(Below, x) /\ ret' = RUNNING
      <3>1. ret \notin {NULL, RUNNING} /\ flags' = flags /\ heap' = Joined(heap, Top.held, ret, how)
            /\ TailCall("gprime", Either(Top.held, ret))
        BY <1>4 DEF GprimeJoin, Resumes, NoError
      <3>2. DOMAIN heap' = IF Top.held = NULL THEN DOMAIN heap ELSE DOMAIN heap \ {ret}
        <4> DEFINE joined == [heap EXCEPT ![Top.held] = Combined(heap[Top.held], heap[ret], how)]
        <4>1. heap' = IF Top.held = NULL \/ ret = NULL THEN heap ELSE Without(joined, ret)
          BY <3>1 DEF Joined
        <4>2. DOMAIN joined = DOMAIN heap
          OBVIOUS
        <4> HIDE DEF joined
        <4>3. DOMAIN Without(joined, ret) = DOMAIN joined \ {ret}
          BY HeapDomains
        <4> QED
          BY <3>1, <4>1, <4>2, <4>3
      <3>3. stack' = Append(Below, x) /\ ret' = RUNNING
        BY <3>1 DEF TailCall
      <3> QED
        BY <3>1, <3>2, <3>3
    <2>2. ret \in DOMAIN heap /\ Top.held # ret /\ ret \in Nat /\ Either(Top.held, ret) \in Nat
      BY <1>1, <1>2, <2>1, Now DEF Either
    <2>3. x \in Frame /\ x.fn = "gprime" /\ x.at = "begin" /\ x.held = Either(Top.held, ret)
      BY <2>2, Callers DEF Names, Places
    <2> HIDE DEF x
    <2>4. x.held = (IF Top.held = NULL THEN ret ELSE Top.held) /\ x.held # NULL
      BY <2>1, <2>3 DEF Either
    <2>5. HoldsWhatItMay(x) /\ ~ AwaitsGprime(x)
      BY <2>3 DEF HoldsWhatItMay, Places, AwaitsGprime
    <2>6. IsFiniteSet(DOMAIN heap')
      BY <1>1, <2>1, Now, FS_Subset
    <2>7. Replaced(DOMAIN heap, stack, ret, DOMAIN heap', x, ranOut')
      BY <1>1, <1>2, <2>1, <2>2, <2>3, <2>4, <2>5, <2>6, Now DEF Replaced, Top
    <2>8. \/ ranOut \/ "ABORT" \in flags
          \/ /\ AllHeld(DOMAIN heap, stack, ret)
             /\ \A a \in DOMAIN heap' :
                  a = x.held \/ (a \in DOMAIN heap /\ a # ret /\ a # Top.held)
      BY <1>1, <1>2, <2>1, <2>4, StillHeld
    <2> QED
      BY <1>1, <2>1, <2>7, <2>8, ReplaceStep
  <1>5. CASE GprimePipe
    <2>1. /\ ret = NULL /\ token = TK_PIPE /\ heap' = heap /\ flags' = flags
          /\ Call("group", NULL, "union", Top.held)
      BY <1>5 DEF GprimePipe, NoError
    <2> QED
      BY <1>1, <2>1, GprimeCall
  <1>6. CASE GprimeEnd
    <2>1. /\ ret = NULL /\ token # TK_PIPE /\ token' = token /\ heap' = heap /\ flags' = flags
          /\ Top.at = "append" /\ stack' = Below
          /\ ret' = IF token \in {TK_EOF, TK_RPAREN} THEN Top.held ELSE NULL
      BY <1>6 DEF GprimeEnd, Resumes, OnlyControl, NoError, input, Return
    <2>2. Popped(DOMAIN heap, stack, ret, flags, DOMAIN heap', ret', flags')
      BY <1>1, <1>2, <2>1 DEF Popped, Top
    <2>3. ranOut \/ "ABORT" \in flags
            \/ Keeps(DOMAIN heap, stack, ret, DOMAIN heap', ret', token')
      <3>1. CASE token \in {TK_EOF, TK_RPAREN}
        BY <1>1, <1>2, <2>1, <3>1, Now, StillHeld DEF Keeps, Top
      <3>2. CASE token \notin {TK_EOF, TK_RPAREN}
        BY <1>1, <2>1, <3>2 DEF Keeps, Top
      <3> QED
        BY <3>1, <3>2
    <2> QED
      BY <1>1, <2>1, <2>2, <2>3, PopStep
  <1>7. CASE GprimeNothingAfterPipe
    <2>1. Fail({"DISABLE_ERROR_MSG", "ABORT"}, Top.held)
      BY <1>7 DEF GprimeNothingAfterPipe
    <2>2. /\ stack' = Below /\ ret' = NULL /\ DOMAIN heap' = DOMAIN heap \ {Top.held}
          /\ flags' = flags \cup {"DISABLE_ERROR_MSG", "ABORT"}
      BY <2>1, FailFacts
    <2>3. Popped(DOMAIN heap, stack, ret, flags, DOMAIN heap', ret', flags')
      BY <1>1, <2>2 DEF Popped, Top
    <2> QED
      BY <1>1, <2>2, <2>3, PopStep
  <1> QED
    BY <1>3, <1>4, <1>5, <1>6, <1>7 DEF GprimeAppend, GprimeUnion

LEMMA FreshNFA ==
  ASSUME MemoryInv, stack # <<>>
  PROVE  /\ NewNFA(heap) \in Nat \ {NULL} /\ NewNFA(heap) \notin DOMAIN heap
         /\ IsFiniteSet(DOMAIN heap \cup {NewNFA(heap)})
  <1>1. IsFiniteSet(DOMAIN heap)
    BY Now
  <1>2. Cardinality(DOMAIN heap) \in Nat
    BY <1>1, FS_CardinalityType
  <1>3. NewNFA(heap) \in 1 .. Cardinality(DOMAIN heap) + 1 /\ NewNFA(heap) \notin DOMAIN heap
    BY <1>1, FreshNumber DEF NewNFA
  <1> QED
    BY <1>1, <1>2, <1>3, FS_AddElement DEF NULL

\* A loop of pattern() or allowed() goes on with one more NFA joined.
LEMMA JoinNewStep ==
  ASSUME MemoryInv, stack # <<>>, ret = RUNNING, ranOut => ranOut',
         NEW at, <<Top.fn, at>> \in {<<"pattern", "begin">>, <<"range", "allowed">>},
         NEW words, NEW how, JoinNew(at, words, how)
  PROVE  MemoryInv'
  <1> DEFINE new == NewNFA(heap)
             x == Record(Top.fn, at, Either(Top.held, new))
  <1>1. /\ Top.fn \in Names /\ at \in Places[Top.fn] /\ Top.fn \in {"pattern", "range"}
        /\ at \in {"begin", "allowed"} /\ (Top.fn = "range" => at = "allowed")
    BY DEF Names, Places
  <1>2. Top.held \in DOMAIN heap \cup {NULL} /\ ~ AwaitsGprime(Top)
        /\ DOMAIN heap \subseteq Nat \ {NULL} /\ IsFiniteSet(DOMAIN heap)
        /\ NULL = 0 /\ RUNNING \notin DOMAIN heap
    BY <1>1, Now DEF AwaitsGprime
  <1>3. new \in Nat \ {NULL} /\ new \notin DOMAIN heap /\ IsFiniteSet(DOMAIN heap \cup {new})
    BY FreshNFA
  <1>4. /\ DOMAIN heap' = IF Top.held = NULL THEN DOMAIN heap \cup {new} ELSE DOMAIN heap
        /\ stack' = Append(Below, x) /\ ret' = RUNNING /\ flags' = flags
    <2>1. heap' = Joined(With(heap, new, words), Top.held, new, how)
      BY DEF JoinNew
    <2>2. DOMAIN heap' = IF Top.held = NULL \/ new = NULL THEN DOMAIN heap \cup {new}
                         ELSE (DOMAIN heap \cup {new}) \ {new}
      <3> DEFINE more == With(heap, new, words)
      <3>1. DOMAIN more = DOMAIN heap \cup {new}
        BY HeapDomains
      <3> HIDE DEF more
      <3> DEFINE joined == [more EXCEPT ![Top.held] = Combined(more[Top.held], more[new], how)]
      <3>2. heap' = IF Top.held = NULL \/ new = NULL THEN more ELSE Without(joined, new)
        BY <2>1 DEF more, Joined
      <3>3. DOMAIN joined = DOMAIN more
        OBVIOUS
      <3> HIDE DEF joined
      <3>4. DOMAIN Without(joined, new) = DOMAIN joined \ {new}
        BY HeapDomains
      <3> HIDE DEF new
      <3> QED
        BY <3>1, <3>2, <3>3, <3>4
    <2>3. stack' = Append(Below, x) /\ ret' = RUNNING /\ flags' = flags
      BY DEF JoinNew, Loop, NoError
    <2> HIDE DEF new
    <2> QED
      BY <1>3, <2>2, <2>3
  <1>5. x.held = IF Top.held = NULL THEN new ELSE Top.held
    BY Callers DEF Either
  <1>6. x \in Frame /\ x.fn = Top.fn /\ x.at = at
    <2>1. Either(Top.held, new) \in Nat
      BY <1>2, <1>3 DEF Either
    <2> QED
      BY <1>1, <2>1, Callers
  <1> HIDE DEF x, new
  <1>7. HoldsWhatItMay(x) /\ ~ AwaitsGprime(x)
    BY <1>1, <1>6 DEF HoldsWhatItMay, AwaitsGprime
  <1>8. Replaced(DOMAIN heap, stack, ret, DOMAIN heap', x, ranOut')
    <2>1. /\ DOMAIN heap' \subseteq Nat \ {NULL} /\ IsFiniteSet(DOMAIN heap')
          /\ DOMAIN heap \ {ret} \subseteq DOMAIN heap' /\ x.held \in DOMAIN heap' \cup {NULL}
      BY <1>2, <1>3, <1>4, <1>5
    <2>2. x.held = Top.held \/ (Top.fn # "gprime" /\ (x.held = ret \/ x.held \notin DOMAIN heap))
      BY <1>1, <1>3, <1>5
    <2> QED
      BY <1>6, <1>7, <2>1, <2>2 DEF Replaced, Top
  <1>9. \/ ranOut' \/ "ABORT" \in flags
        \/ /\ AllHeld(DOMAIN heap, stack, ret)
           /\ \A a \in DOMAIN heap' :
                a = x.held \/ (a \in DOMAIN heap /\ a # ret /\ a # Top.held)
    BY <1>2, <1>4, <1>5, StillHeld DEF NULL, RUNNING
  <1> QED
    BY <1>4, <1>8, <1>9, ReplaceStep

\* The loop goes on after a construction that failed; at worst two NFAs are lost.
LEMMA LoopStep ==
  ASSUME MemoryInv, stack # <<>>, ret = RUNNING, ranOut',
         NEW at, <<Top.fn, at>> \in {<<"pattern", "begin">>, <<"range", "allowed">>},
         NEW held \in {NULL, Top.held}, Loop(at, held), flags' = flags,
         DOMAIN heap' \in {DOMAIN heap, DOMAIN heap \cup {NewNFA(heap)}}
  PROVE  MemoryInv'
  <1> DEFINE x == Record(Top.fn, at, held)
  <1>1. /\ Top.fn \in Names /\ at \in Places[Top.fn] /\ Top.fn \in {"pattern", "range"}
        /\ at \in {"begin", "allowed"} /\ (Top.fn = "range" => at = "allowed")
    BY DEF Names, Places
  <1>2. /\ Top.held \in DOMAIN heap \cup {NULL} /\ ~ AwaitsGprime(Top)
        /\ DOMAIN heap \subseteq Nat \ {NULL} /\ IsFiniteSet(DOMAIN heap)
        /\ NULL = 0 /\ RUNNING \notin DOMAIN heap /\ held \in DOMAIN heap \cup {NULL}
        /\ held = NULL => held \notin DOMAIN heap
    BY <1>1, Now DEF AwaitsGprime
  <1>3. stack' = Append(Below, x) /\ ret' = RUNNING
    BY DEF Loop
  <1>4. x \in Frame /\ x.fn = Top.fn /\ x.at = at /\ x.held = held
    <2>1. held \in Nat
      BY <1>2
    <2> QED
      BY <1>1, <2>1, Callers
  <1> HIDE DEF x
  <1>5. HoldsWhatItMay(x) /\ ~ AwaitsGprime(x)
    BY <1>1, <1>4 DEF HoldsWhatItMay, AwaitsGprime
  <1>6. /\ DOMAIN heap' \subseteq Nat \ {NULL} /\ IsFiniteSet(DOMAIN heap')
        /\ DOMAIN heap \subseteq DOMAIN heap'
    BY <1>2, FreshNFA
  <1>7. Replaced(DOMAIN heap, stack, ret, DOMAIN heap', x, ranOut')
    BY <1>1, <1>2, <1>4, <1>5, <1>6 DEF Replaced, Top
  <1> QED
    BY <1>3, <1>7, ReplaceStep

LEMMA LoseBothStep ==
  ASSUME MemoryInv, stack # <<>>, ret = RUNNING, ranOut',
         NEW at, <<Top.fn, at>> \in {<<"pattern", "begin">>, <<"range", "allowed">>},
         NEW words, LoseBoth(at, words)
  PROVE  MemoryInv'
  <1>1. Loop(at, NULL) /\ flags' = flags /\ DOMAIN heap' = DOMAIN heap \cup {NewNFA(heap)}
    BY HeapDomains DEF LoseBoth, NoError
  <1> QED
    BY <1>1, LoopStep

\* pattern() or range() returns what it holds, or frees it.
LEMMA LeafPop ==
  ASSUME MemoryInv, stack # <<>>, ret = RUNNING, ranOut => ranOut',
         Top.fn \in {"pattern", "range"}, stack' = Below, flags \subseteq flags',
         \/ ret' = Top.held /\ DOMAIN heap' = DOMAIN heap
         \/ ret' = NULL /\ DOMAIN heap' = DOMAIN heap \ {Top.held}
  PROVE  MemoryInv'
  <1>1. ~ AwaitsGprime(Top) /\ Top.held \in DOMAIN heap \cup {NULL}
    BY Now DEF AwaitsGprime
  <1>2. Popped(DOMAIN heap, stack, ret, flags, DOMAIN heap', ret', flags')
    BY <1>1 DEF Popped, Top
  <1>3. ranOut' \/ "ABORT" \in flags'
          \/ Keeps(DOMAIN heap, stack, ret, DOMAIN heap', ret', token')
    BY <1>1, Now, StillHeld DEF Keeps, Top, NULL, RUNNING
  <1> QED
    BY <1>2, <1>3, PopStep

LEMMA PatternSteps ==
  ASSUME MemoryInv, ranOut' = ranOut, PatternCharacter \/ PatternEnd
  PROVE  MemoryInv'
  <1>1. stack # <<>> /\ ret = RUNNING /\ Top.fn = "pattern"
    BY DEF PatternCharacter, PatternEnd, Runs
  <1>2. ASSUME NEW set, Fail(set, Top.held) PROVE MemoryInv'
    BY <1>1, <1>2, FailFacts, LeafPop
  <1>3. CASE PatternCharacter
    <2>1. CASE MayFollow(Lexed(1).token)
      <3>1. \E words : JoinNew("begin", words, "append")
        BY <1>3, <2>1 DEF PatternCharacter
      <3> QED
        BY <1>1, <3>1, JoinNewStep
    <2>2. CASE ~ MayFollow(Lexed(1).token)
      BY <1>2, <1>3, <2>2 DEF PatternCharacter
    <2> QED
      BY <2>1, <2>2
  <1>4. CASE PatternEnd
    <2>1. CASE token <= TK_PIPE
      BY <1>1, <1>4, <2>1, LeafPop DEF PatternEnd, Return, NoError
    <2>2. CASE ~ (token <= TK_PIPE)
      BY <1>2, <1>4, <2>2 DEF PatternEnd
    <2> QED
      BY <2>1, <2>2
  <1> QED
    BY <1>3, <1>4

LEMMA RangeSteps ==
  ASSUME MemoryInv, ranOut' = ranOut,
         RangeNone \/ RangeBegin \/ AllowedCharacter \/ AllowedRange \/ RangeEnd
  PROVE  MemoryInv'
  <1>1. stack # <<>> /\ ret = RUNNING /\ Top.fn = "range"
    BY DEF RangeNone, RangeBegin, AllowedCharacter, AllowedRange, RangeEnd, Runs
  <1>2. ASSUME NEW set, Fail(set, Top.held) PROVE MemoryInv'
    BY <1>1, <1>2, FailFacts, LeafPop
  <1>3. CASE RangeNone
    <2>1. Top.held = NULL
      BY <1>1, <1>3, Now DEF RangeNone, Runs, HoldsWhatItMay
    <2> QED
      BY <1>1, <1>3, <2>1, LeafPop DEF RangeNone, Return, OnlyControl, NoError
  <1>4. CASE RangeBegin
    <2>1. Top.held = NULL /\ ~ AwaitsGprime(Top)
      BY <1>1, <1>4, Now DEF RangeBegin, Runs, HoldsWhatItMay, AwaitsGprime
    <2>2. CASE Lexed(1).token > Tilde
      BY <1>2, <1>4, <2>1, <2>2 DEF RangeBegin
    <2>3. CASE ~ (Lexed(1).token > Tilde)
      <3> DEFINE x == Record("range", "allowed", NULL)
      <3>1. /\ stack' = Append(Below, x) /\ ret' = RUNNING /\ heap' = heap /\ flags' = flags
        BY <1>1, <1>4, <2>3 DEF RangeBegin, Loop, NoError
      <3>2. x \in Frame /\ x.fn = "range" /\ x.at = "allowed" /\ x.held = NULL
        BY Callers DEF Names, Places, NULL
      <3> HIDE DEF x
      <3>3. HoldsWhatItMay(x) /\ ~ AwaitsGprime(x)
        BY <3>2 DEF HoldsWhatItMay, Places, AwaitsGprime
      <3>4. Replaced(DOMAIN heap, stack, ret, DOMAIN heap', x, ranOut')
        BY <1>1, <2>1, <3>1, <3>2, <3>3, Now DEF Replaced, Top
      <3>5. \/ ranOut \/ "ABORT" \in flags
            \/ /\ AllHeld(DOMAIN heap, stack, ret)
               /\ \A a \in DOMAIN heap' :
                    a = x.held \/ (a \in DOMAIN heap /\ a # ret /\ a # Top.held)
        BY <1>1, <2>1, <3>1, Now, StillHeld DEF NULL, RUNNING
      <3> QED
        BY <1>1, <3>1, <3>4, <3>5, ReplaceStep
    <2> QED
      BY <2>2, <2>3
  <1>5. CASE AllowedCharacter
    <2>1. JoinNew("allowed", Thompson(token), "union")
      BY <1>5 DEF AllowedCharacter
    <2> QED
      BY <1>1, <2>1, JoinNewStep
  <1>6. CASE AllowedRange
    <2>1. \/ JoinNew("allowed", CharsUpTo(token, Lexed(2).token), "union")
          \/ Fail({}, Top.held)
      BY <1>6 DEF AllowedRange
    <2> QED
      BY <1>1, <1>2, <2>1, JoinNewStep
  <1>7. CASE RangeEnd
    <2>1. CASE token = TK_RBRACKET
      BY <1>1, <1>7, <2>1, LeafPop DEF RangeEnd, Return, NoError
    <2>2. CASE token # TK_RBRACKET
      BY <1>2, <1>7, <2>2 DEF RangeEnd
    <2> QED
      BY <2>1, <2>2
  <1> QED
    BY <1>3, <1>4, <1>5, <1>6, <1>7

LEMMA JoinFailsStep ==
  ASSUME MemoryInv, ranOut', GprimeJoinFails
  PROVE  MemoryInv'
  <1> DEFINE x == Record("gprime", "begin", NULL)
  <1>1. /\ stack # <<>> /\ Top.fn = "gprime" /\ DOMAIN heap' = DOMAIN heap
        /\ stack' = Append(Below, x) /\ ret' = RUNNING
    BY DEF GprimeJoinFails, Resumes, TailCall
  <1>2. x \in Frame /\ x.fn = "gprime" /\ x.at = "begin" /\ x.held = NULL
    BY Callers DEF Names, Places, NULL
  <1> HIDE DEF x
  <1>3. HoldsWhatItMay(x) /\ ~ AwaitsGprime(x)
    BY <1>2 DEF HoldsWhatItMay, Places, AwaitsGprime
  <1>4. Replaced(DOMAIN heap, stack, ret, DOMAIN heap', x, ranOut')
    BY <1>1, <1>2, <1>3, Now DEF Replaced, Top
  <1> QED
    BY <1>1, <1>4, ReplaceStep

LEMMA AllowedFailsStep ==
  ASSUME MemoryInv, ranOut', Runs("range", "allowed"), NEW chars, AllowedFails(chars)
  PROVE  MemoryInv'
  <1>1. stack # <<>> /\ ret = RUNNING /\ Top.fn = "range"
    BY DEF Runs
  <1>2. CASE Loop("allowed", Top.held) /\ heap' = heap /\ NoError
    BY <1>1, <1>2, LoopStep DEF NoError
  <1>3. CASE LoseBoth("allowed", chars)
    BY <1>1, <1>3, LoseBothStep
  <1> QED
    BY <1>2, <1>3 DEF AllowedFails

\* A function returns NULL without freeing more than what it holds.
LEMMA GivenUpStep ==
  ASSUME MemoryInv, ranOut', GroupTransformFails \/ PatternOutOfMemory \/ PatternTransformFails
  PROVE  MemoryInv'
  <1>1. /\ stack # <<>> /\ Top.fn \in {"group", "pattern"}
        /\ stack' = Below /\ ret' = NULL /\ flags \subseteq flags'
        /\ DOMAIN heap' = DOMAIN heap \/ DOMAIN heap' = DOMAIN heap \ {Top.held}
    <2>1. CASE GroupTransformFails
      BY <2>1 DEF GroupTransformFails, Resumes, Return, NoError
    <2>2. CASE PatternOutOfMemory
      BY <2>2 DEF PatternOutOfMemory, Runs, Return
    <2>3. CASE PatternTransformFails
      BY <2>3, HeapDomains DEF PatternTransformFails, Runs, Return, NoError
    <2> QED
      BY <2>1, <2>2, <2>3
  <1>2. Popped(DOMAIN heap, stack, ret, flags, DOMAIN heap', ret', flags')
    BY <1>1 DEF Popped, Top
  <1> QED
    BY <1>1, <1>2, PopStep

LEMMA OutOfMemorySteps ==
  ASSUME MemoryInv, OutOfMemory, ranOut' = TRUE
  PROVE  MemoryInv'
  <1>1. CASE GroupTransformFails \/ PatternOutOfMemory \/ PatternTransformFails
    BY <1>1, GivenUpStep
  <1>2. CASE GprimeJoinFails
    BY <1>2, JoinFailsStep
  <1>3. CASE PatternJoinFails
    <2>1. stack # <<>> /\ ret = RUNNING /\ Top.fn = "pattern"
      BY <1>3 DEF PatternJoinFails, Runs
    <2>2. \E words : LoseBoth("begin", words) \/ JoinNew("begin", words, "append")
      BY <1>3 DEF PatternJoinFails
    <2> QED
      BY <2>1, <2>2, LoseBothStep, JoinNewStep
  <1>4. CASE AllowedCharacterFails
    BY <1>4, AllowedFailsStep DEF AllowedCharacterFails
  <1>5. CASE AllowedRangeFails
    <2>1. Runs("range", "allowed")
      BY <1>5 DEF AllowedRangeFails
    <2>2. \/ AllowedFails(CharsUpTo(token, Lexed(2).token))
          \/ \E words : JoinNew("allowed", words, "union")
      BY <1>5 DEF AllowedRangeFails
    <2> QED
      BY <2>1, <2>2, AllowedFailsStep, JoinNewStep DEF Runs
  <1> QED
    BY <1>1, <1>2, <1>3, <1>4, <1>5 DEF OutOfMemory

\* Undefined behavior ends the parser as far as the model goes.
LEMMA UndefinedStep ==
  ASSUME MemoryInv, stack # <<>>, ranOut', Undefined
  PROVE  MemoryInv'
  <1>1. stack' = <<>> /\ ret' = UNDEFINED /\ heap' = heap
    BY DEF Undefined
  <1>2. <<>> \in Seq(Frame) /\ Len(<<>>) = 0
    OBVIOUS
  <1>3. WellCalled(stack')
    BY <1>1, <1>2 DEF WellCalled
  <1>4. Sound(DOMAIN heap', stack', ret', flags', ranOut')
    BY <1>1, <1>2, Now DEF Sound
  <1>5. Kept(DOMAIN heap', stack', ret', flags', token', ranOut')
    BY DEF Kept
  <1>6. Ended(stack', ret', flags')
    BY <1>1 DEF Ended, RUNNING, UNDEFINED
  <1> QED
    BY <1>3, <1>4, <1>5, <1>6 DEF MemoryInv, Safe

LEMMA AftermathSteps ==
  ASSUME MemoryInv, Aftermath, ranOut' = TRUE
  PROVE  MemoryInv'
  <1>1. CASE GroupUndefined
    BY <1>1, UndefinedStep DEF GroupUndefined, Resumes
  <1>2. CASE GprimeUndefined
    BY <1>2, UndefinedStep DEF GprimeUndefined, Resumes
  <1>3. CASE RangeNothing
    <2>1. /\ stack # <<>> /\ ret = RUNNING /\ Top.fn = "range" /\ Top.held = NULL
          /\ stack' = Below /\ ret' = NULL /\ heap' = heap /\ flags' = flags
      BY <1>3 DEF RangeNothing, Runs, Return, OnlyControl, NoError
    <2> QED
      BY <2>1, LeafPop
  <1> QED
    BY <1>1, <1>2, <1>3 DEF Aftermath

-----------------------------------------------------------------------------
(* The theorems.                                                           *)

LEMMA MemoryInit == ASSUME Init PROVE MemoryInv
  <1> DEFINE first == Record("parse", "begin", NULL)
  <1>1. stack = <<first>> /\ ret = RUNNING /\ heap = [a \in {} |-> {}]
    BY DEF Init
  <1>2. first \in Frame /\ first.fn = "parse" /\ first.at = "begin" /\ first.held = NULL
    BY Callers DEF Names, Places, NULL
  <1> HIDE DEF first
  <1>3. stack \in Seq(Frame) /\ stack # <<>> /\ Len(stack) = 1 /\ stack[1] = first
    BY <1>1, <1>2
  <1>4. DOMAIN heap = {}
    BY <1>1
  <1>5. HoldsWhatItMay(first) /\ ~ AwaitsGprime(first)
    BY <1>2 DEF HoldsWhatItMay, AwaitsGprime, Places
  <1>6. WellCalled(stack)
    BY <1>2, <1>3, <1>5 DEF WellCalled
  <1>7. Sound({}, stack, ret, flags, ranOut)
    BY <1>1, <1>2, <1>3, <1>5, FS_EmptySet DEF Sound, NULL, RUNNING
  <1>8. Kept({}, stack, ret, flags, token, ranOut)
    BY <1>3, <1>5 DEF Kept, AllHeld
  <1>9. Ended(stack, ret, flags)
    BY <1>3 DEF Ended
  <1> QED
    BY <1>4, <1>6, <1>7, <1>8, <1>9 DEF MemoryInv, Safe

LEMMA MemoryStep == ASSUME MemoryInv, [Next]_vars PROVE MemoryInv'
  <1>1. CASE Step /\ UNCHANGED ranOut
    BY <1>1, ParseSteps, RegexSteps, GroupSteps, GprimeSteps, PatternSteps, RangeSteps DEF Step
  <1>2. CASE OutOfMemory /\ ranOut' = TRUE
    BY <1>2, OutOfMemorySteps
  <1>3. CASE Aftermath /\ ranOut' = TRUE
    BY <1>3, AftermathSteps
  <1>4. CASE UNCHANGED vars
    BY <1>4 DEF MemoryInv, vars
  <1> QED
    BY <1>1, <1>2, <1>3, <1>4 DEF Next, Stopped

\* What parser.c holds and returns is accounted for at every moment, whichever
\* constructions fail.
THEOREM MemoryInvHolds == Spec => []MemoryInv
  BY MemoryInit, MemoryStep, PTL DEF Spec

\* No function of parser.c uses, returns or frees an NFA whose address was freed
\* before, whichever constructions fail: the local of regex() after an aborted
\* gprime() is the one that dangles, and the flag keeps regex() from it.
THEOREM HeldExistsHolds == Spec => []HeldExists
  <1>1. ASSUME MemoryInv PROVE HeldExists
    <2>1. WellCalled(stack) /\ Sound(DOMAIN heap, stack, ret, flags, ranOut)
      BY <1>1 DEF MemoryInv, Safe
    <2>2. stack \in Seq(Frame) /\ DOMAIN stack = 1 .. Len(stack)
      BY <2>1 DEF WellCalled
    <2> QED
      BY <2>1, <2>2 DEF HeldExists, Sound
  <1> QED
    BY <1>1, MemoryInvHolds, PTL

\* As long as memory suffices, gprime() returns to regex() the NFA that regex()
\* gave it, or NULL: regex() may go on with its own pointer.
THEOREM GprimeKeepsLocalHolds == Spec => []GprimeKeepsLocal
  <1>1. ASSUME MemoryInv PROVE GprimeKeepsLocal
    BY <1>1, Now DEF GprimeKeepsLocal
  <1> QED
    BY <1>1, MemoryInvHolds, PTL

\* No two functions hold the same NFA, but for regex() and the gprime() it waits
\* for: nothing is joined with itself or freed twice.
THEOREM HeldOnceHolds == Spec => []HeldOnce
  <1>1. ASSUME MemoryInv PROVE HeldOnce
    <2>1. WellCalled(stack) /\ Sound(DOMAIN heap, stack, ret, flags, ranOut)
      BY <1>1 DEF MemoryInv, Safe
    <2>2. stack \in Seq(Frame) /\ DOMAIN stack = 1 .. Len(stack)
      BY <2>1 DEF WellCalled
    <2>3. ASSUME NEW i \in 1 .. Len(stack), NEW j \in 1 .. Len(stack)
          PROVE  /\ i < j /\ stack[i].held # NULL /\ stack[i].held = stack[j].held
                      => AwaitsGprime(stack[i]) /\ j = i + 1
                 /\ ret # NULL /\ stack[i].held = ret => AwaitsGprime(stack[i]) /\ i = Len(stack)
      BY <2>1 DEF Sound
    <2> QED
      BY <2>2, <2>3 DEF HeldOnce
  <1> QED
    BY <1>1, MemoryInvHolds, PTL

\* When parse() succeeds and memory has sufficed, every NFA that was made on the way
\* is part of the one returned or has been freed.
THEOREM SuccessLeaksNothingHolds == Spec => []SuccessLeaksNothing
  <1>1. ASSUME MemoryInv PROVE SuccessLeaksNothing
    <2> SUFFICES ASSUME Succeeded, ~ ranOut PROVE DOMAIN heap = {ret}
      BY DEF SuccessLeaksNothing
    <2>1. stack = <<>> /\ ret # NULL /\ ret # UNDEFINED
      BY DEF Succeeded, Done
    <2>2. /\ ret # RUNNING /\ "ABORT" \notin flags /\ ret \in DOMAIN heap \cup {NULL, RUNNING}
          /\ Kept(DOMAIN heap, stack, ret, flags, token, ranOut)
      BY <1>1, <2>1 DEF MemoryInv, Safe, Ended, Sound
    <2>3. AllHeld(DOMAIN heap, stack, ret)
      BY <2>1, <2>2 DEF Kept, Refused
    <2>4. \A a \in DOMAIN heap : a = ret
      BY <2>1, <2>3 DEF AllHeld
    <2> QED
      BY <2>1, <2>2, <2>4
  <1> QED
    BY <1>1, MemoryInvHolds, PTL

-----------------------------------------------------------------------------
(***************************************************************************)
(* The arrow under a message.                                              *)
(***************************************************************************)

LEMMA NextRemainder ==
  ASSUME NEW c \in Nat
  PROVE  (c + 1) % 8 = IF c % 8 = 7 THEN 0 ELSE (c % 8) + 1
  OBVIOUS

\* The column at which character k + 1 of b starts, counted with tab stops.
CountsColumns(b, f) ==
  f = [k \in 1 .. Len(b) + 1 |->
         IF k = 1 THEN 0
         ELSE IF b[k - 1] = Tab THEN 8 * (f[k - 1] \div 8 + 1) ELSE f[k - 1] + 1]

ColumnsOf(b) == CHOOSE f : CountsColumns(b, f)

\* The loop of print_error() up to the last character fetched.
Line == [num_spaces : Nat, tab_align : 0 .. 8]

Spaces(b, before, i) ==
  IF b[i] = Tab
  THEN [num_spaces |-> before.num_spaces + 8 -
                         IF before.tab_align = 8 THEN 0 ELSE before.tab_align,
        tab_align  |-> 0]
  ELSE [num_spaces |-> before.num_spaces + 1,
        tab_align  |-> (IF before.tab_align = 8 THEN 0 ELSE before.tab_align) + 1]

Measures(b, p, f) ==
  f = [i \in 0 .. p |-> IF i = 0 THEN [num_spaces |-> 0, tab_align |-> 0]
                        ELSE Spaces(b, f[i - 1], i)]

LEMMA ColumnsFacts ==
  ASSUME NEW b \in Seq(0 .. 255)
  PROVE  /\ ColumnsOf(b) \in [1 .. Len(b) + 1 -> Nat]
         /\ ColumnsOf(b)[1] = 0
         /\ \A k \in 2 .. Len(b) + 1 :
              ColumnsOf(b)[k] = IF b[k - 1] = Tab THEN 8 * (ColumnsOf(b)[k - 1] \div 8 + 1)
                                ELSE ColumnsOf(b)[k - 1] + 1
  <1> DEFINE n == Len(b) + 1
             next == [k \in 1 .. n |-> [c \in Nat |->
                        IF b[k - 1] = Tab THEN 8 * (c \div 8 + 1) ELSE c + 1]]
             C == ColumnsOf(b)
  <1>1. n \in Nat /\ n >= 1
    OBVIOUS
  <1>2. \A c \in Nat : 8 * (c \div 8 + 1) \in Nat /\ c + 1 \in Nat
    OBVIOUS
  <1>3. next \in [1 .. n -> [Nat -> Nat]]
    BY <1>2
  <1>4. PICK f \in [1 .. n -> Nat] : Counts(1, n, 0, next, f)
    <2> HIDE DEF n, next
    <2>1. 1 \in Int /\ n \in Int /\ 0 \in Nat
      BY <1>1
    <2> QED BY <1>3, <2>1, CountingExists
  <1>5. CountsColumns(b, f)
    <2>1. \A k \in 1 .. n : k # 1 => k - 1 \in 1 .. n /\ f[k - 1] \in Nat
      BY <1>1
    <2>2. \A k \in 1 .. n : k # 1 => next[k][f[k - 1]] =
             IF b[k - 1] = Tab THEN 8 * (f[k - 1] \div 8 + 1) ELSE f[k - 1] + 1
      BY <2>1
    <2>3. f = [k \in 1 .. n |-> IF k = 1 THEN 0 ELSE next[k][f[k - 1]]]
      BY <1>4 DEF Counts
    <2> HIDE DEF next
    <2> QED BY <2>2, <2>3 DEF CountsColumns
  <1>6. CountsColumns(b, C)
    BY <1>5 DEF ColumnsOf
  <1> HIDE DEF C
  <1>7. \A k \in 1 .. n : C[k] =
           IF k = 1 THEN 0
           ELSE IF b[k - 1] = Tab THEN 8 * (C[k - 1] \div 8 + 1) ELSE C[k - 1] + 1
    BY <1>6 DEF CountsColumns
  <1>8. \A k \in 1 .. n : C[k] \in Nat
    <2> DEFINE S == {k \in 1 .. n : C[k] \in Nat}
    <2>1. 1 \in S
      BY <1>1, <1>7
    <2>2. ASSUME NEW k \in 1 .. n - 1, k \in S PROVE k + 1 \in S
      <3>1. k + 1 \in 1 .. n /\ k + 1 # 1 /\ (k + 1) - 1 = k
        BY <1>1
      <3>2. C[k + 1] = IF b[k] = Tab THEN 8 * (C[k] \div 8 + 1) ELSE C[k] + 1
        BY <1>7, <3>1
      <3> QED BY <1>2, <2>2, <3>1, <3>2
    <2>3. \A k \in 1 .. n : k \in S
      <3> HIDE DEF S, n
      <3>1. 1 \in Int /\ n \in Int
        BY <1>1
      <3> QED BY <2>1, <2>2, <3>1, InductiveInterval
    <2> QED BY <2>3
  <1>9. C \in [1 .. n -> Nat]
    BY <1>6, <1>8 DEF CountsColumns
  <1>10. \A k \in 2 .. n : k \in 1 .. n /\ k # 1
    OBVIOUS
  <1> QED BY <1>1, <1>7, <1>9, <1>10 DEF C

\* num_spaces is the column reached, tab_align how far it is from a tab stop.
LEMMA SpacesAreColumns ==
  ASSUME NEW b \in Seq(0 .. 255), NEW p \in 1 .. Len(b) + 1, NEW line, Measures(b, p, line)
  PROVE  \A i \in 0 .. p - 1 : line[i].num_spaces = ColumnsOf(b)[i + 1]
  <1> DEFINE C == ColumnsOf(b)
             S == {i \in 0 .. p - 1 :
                     /\ line[i].num_spaces = C[i + 1]
                     /\ line[i].tab_align \in 0 .. 8
                     /\ (IF line[i].tab_align = 8 THEN 0 ELSE line[i].tab_align) = C[i + 1] % 8}
  <1>1. /\ C \in [1 .. Len(b) + 1 -> Nat] /\ C[1] = 0
        /\ \A k \in 2 .. Len(b) + 1 :
              C[k] = IF b[k - 1] = Tab THEN 8 * (C[k - 1] \div 8 + 1) ELSE C[k - 1] + 1
    BY ColumnsFacts
  <1> HIDE DEF C
  <1>2. \A i \in 0 .. p : line[i] = IF i = 0 THEN [num_spaces |-> 0, tab_align |-> 0]
                                    ELSE Spaces(b, line[i - 1], i)
    BY DEF Measures
  <1>3. 0 \in S
    <2>1. line[0].num_spaces = 0 /\ line[0].tab_align = 0
      BY <1>2
    <2> QED BY <1>1, <2>1
  <1>4. ASSUME NEW i \in 0 .. (p - 1) - 1, i \in S PROVE i + 1 \in S
    <2> DEFINE c == C[i + 1]
               l == line[i]
               a == IF l.tab_align = 8 THEN 0 ELSE l.tab_align
    <2>1. /\ i + 1 \in 0 .. p - 1 /\ i + 1 \in 0 .. p /\ i + 1 # 0 /\ (i + 1) - 1 = i
          /\ (i + 1) + 1 \in 2 .. Len(b) + 1 /\ ((i + 1) + 1) - 1 = i + 1
          /\ i + 1 \in 1 .. Len(b) + 1
      OBVIOUS
    <2>2. c \in Nat /\ l.num_spaces = c /\ l.tab_align \in 0 .. 8 /\ a = c % 8
      BY <1>1, <1>4, <2>1
    <2>3. line[i + 1] = Spaces(b, l, i + 1)
      BY <1>2, <2>1
    <2>4. C[(i + 1) + 1] = IF b[i + 1] = Tab THEN 8 * (c \div 8 + 1) ELSE c + 1
      BY <1>1, <2>1
    <2>5. a \in 0 .. 7
      BY <2>2
    <2> HIDE DEF c, l
    <2>6. CASE b[i + 1] = Tab
      <3>1. line[i + 1].num_spaces = l.num_spaces + 8 - a /\ line[i + 1].tab_align = 0
        BY <2>3, <2>6 DEF Spaces
      <3> HIDE DEF a
      <3>2. 8 * (c \div 8 + 1) = c + 8 - a /\ (8 * (c \div 8 + 1)) % 8 = 0
        BY <2>2
      <3>3. C[(i + 1) + 1] = l.num_spaces + 8 - a /\ C[(i + 1) + 1] % 8 = 0
        BY <2>2, <2>4, <2>6, <3>2
      <3> DEFINE k == C[(i + 1) + 1]
                 t == line[i + 1].tab_align
      <3>4. line[i + 1].num_spaces = k /\ t \in 0 .. 8 /\ (IF t = 8 THEN 0 ELSE t) = k % 8
        <4> HIDE DEF k
        <4> QED BY <3>1, <3>3 DEF k
      <3> QED BY <2>1, <3>4
    <2>7. CASE b[i + 1] # Tab
      <3>1. line[i + 1].num_spaces = l.num_spaces + 1 /\ line[i + 1].tab_align = a + 1
        BY <2>3, <2>7 DEF Spaces
      <3> HIDE DEF a
      <3>2. (IF a + 1 = 8 THEN 0 ELSE a + 1) = (c + 1) % 8 /\ a + 1 \in 0 .. 8
        BY <2>2, <2>5, NextRemainder
      <3> QED BY <2>1, <2>2, <2>4, <2>7, <3>1, <3>2
    <2> QED BY <2>6, <2>7
  <1>5. \A i \in 0 .. p - 1 : i \in S
    <2>1. 0 \in Int /\ p - 1 \in Int
      OBVIOUS
    <2> HIDE DEF S
    <2> QED BY <1>3, <1>4, <2>1, InductiveInterval
  <1> QED BY <1>5 DEF C

LEMMA MeasuresExists ==
  ASSUME NEW b \in Seq(0 .. 255), NEW p \in Nat
  PROVE  \E f : Measures(b, p, f)
  <1> DEFINE zero == [num_spaces |-> 0, tab_align |-> 0]
             next == [i \in 0 .. p |-> [l \in Line |-> Spaces(b, l, i)]]
  <1>1. zero \in Line
    BY DEF Line
  <1>2. ASSUME NEW i \in 0 .. p, NEW l \in Line PROVE Spaces(b, l, i) \in Line
    <2> DEFINE a == IF l.tab_align = 8 THEN 0 ELSE l.tab_align
    <2>1. l.num_spaces \in Nat /\ l.tab_align \in 0 .. 8 /\ a \in 0 .. 7
      BY DEF Line
    <2>2. Spaces(b, l, i) = IF b[i] = Tab
                            THEN [num_spaces |-> l.num_spaces + 8 - a, tab_align |-> 0]
                            ELSE [num_spaces |-> l.num_spaces + 1, tab_align |-> a + 1]
      BY DEF Spaces
    <2> HIDE DEF a
    <2>3. l.num_spaces + 8 - a \in Nat /\ l.num_spaces + 1 \in Nat /\ a + 1 \in 0 .. 8
      BY <2>1
    <2> QED BY <2>2, <2>3 DEF Line
  <1>3. next \in [0 .. p -> [Line -> Line]]
    BY <1>2
  <1> HIDE DEF zero, next
  <1>4. PICK f \in [0 .. p -> Line] : Counts(0, p, zero, next, f)
    <2>1. 0 \in Int /\ p \in Int
      OBVIOUS
    <2> QED BY <1>1, <1>3, <2>1, CountingExists
  <1>5. \A i \in 0 .. p : i # 0 => i - 1 \in 0 .. p
    OBVIOUS
  <1>6. \A i \in 0 .. p : i # 0 => next[i][f[i - 1]] = Spaces(b, f[i - 1], i)
    BY <1>5 DEF next
  <1>7. f = [i \in 0 .. p |-> IF i = 0 THEN zero ELSE next[i][f[i - 1]]]
    BY <1>4 DEF Counts
  <1> QED BY <1>6, <1>7 DEF Measures, zero

LEMMA ArrowIsColumn ==
  ASSUME NEW b \in Seq(0 .. 255), NEW p \in 2 .. Len(b) + 1, NEW t
  PROVE  ArrowColumn(b, p, t) = ColumnsOf(b)[p - 1] + IF t = TK_EOF THEN 1 ELSE 0
  <1> DEFINE Finds(f) == f = [i \in 0 .. p |->
                IF i = 0 THEN [num_spaces |-> 0, tab_align |-> 0]
                ELSE IF b[i] = Tab
                     THEN [num_spaces |-> f[i - 1].num_spaces + 8 -
                             IF f[i - 1].tab_align = 8 THEN 0 ELSE f[i - 1].tab_align,
                           tab_align |-> 0]
                     ELSE [num_spaces |-> f[i - 1].num_spaces + 1,
                           tab_align |-> (IF f[i - 1].tab_align = 8 THEN 0
                                          ELSE f[i - 1].tab_align) + 1]]
             found == CHOOSE f : Finds(f)
  <1>1. ArrowColumn(b, p, t) =
          found[IF p > 2 THEN p - 2 ELSE 0].num_spaces + IF t = TK_EOF THEN 1 ELSE 0
    BY DEF ArrowColumn
  <1>2. ASSUME NEW f PROVE Finds(f) <=> Measures(b, p, f)
    BY DEF Measures, Spaces
  <1>3. \E f : Measures(b, p, f)
    BY MeasuresExists
  <1>4. Finds(found)
    <2>1. \E f : Finds(f)
      BY <1>2, <1>3
    <2> HIDE DEF Finds
    <2> QED BY <2>1
  <1> HIDE DEF found, Finds
  <1>5. Measures(b, p, found)
    BY <1>2, <1>4
  <1>6. p \in 1 .. Len(b) + 1 /\ p - 2 \in 0 .. p - 1 /\ (p - 2) + 1 = p - 1
        /\ (IF p > 2 THEN p - 2 ELSE 0) = p - 2
    OBVIOUS
  <1>7. found[p - 2].num_spaces = ColumnsOf(b)[p - 1]
    BY <1>5, <1>6, SpacesAreColumns
  <1> QED BY <1>1, <1>6, <1>7

\* The token t was fetched from b and left the parser at position p.
FromLex(b, t, p) == \E start \in 1 .. p : Lex(b, start) = [token |-> t, pos |-> p]

Arrow(b, m) ==
  m.column # NoArrow =>
    /\ FromLex(b, m.token, m.pos)
    /\ IF m.token # TK_EOF THEN m.column = ColumnsOf(b)[m.pos - 1]
       ELSE m.pos > 1 /\ b[m.pos - 1] # Tab => m.column = ColumnsOf(b)[m.pos]

LEMMA ArrowIsRight == ArrowUnderToken <=> Arrow(buffer, message)
  <1> DEFINE found == CHOOSE f : f = [k \in 1 .. Len(buffer) + 1 |->
                        IF k = 1 THEN 0
                        ELSE IF buffer[k - 1] = Tab THEN 8 * (f[k - 1] \div 8 + 1)
                             ELSE f[k - 1] + 1]
  <1>1. Columns = found
    BY DEF Columns
  <1>2. ColumnsOf(buffer) = found
    BY DEF ColumnsOf, CountsColumns
  <1> HIDE DEF found
  <1> QED BY <1>1, <1>2 DEF ArrowUnderToken, Arrow, FromLex

LEMMA LexFacts ==
  ASSUME NEW b \in Seq(0 .. 255), NEW p \in 1 .. Len(b) + 1
  PROVE  /\ Lex(b, p).pos \in p .. Len(b) + 1
         /\ Lex(b, p) = [token |-> Lex(b, p).token, pos |-> Lex(b, p).pos]
         /\ Lex(b, p).pos = 1 => Lex(b, p).token = TK_EOF
  <1>1. After(b, p) \in p .. Len(b) + 1 /\ (After(b, p) = 1 => p = 1 /\ Len(b) = 0)
    BY DEF After
  <1>2. After(b, After(b, p)) \in After(b, p) .. Len(b) + 1
    BY <1>1 DEF After
  <1>3. Len(b) = 0 => GetChar(b, p) = TK_EOF
    BY DEF GetChar
  <1>4. TK_EOF # Backslash /\ TK_EOF \notin DOMAIN Special
    BY DEF TK_EOF, Backslash, Special
  <1> QED BY <1>1, <1>2, <1>3, <1>4 DEF Lex

\* What a message says of its arrow.
LEMMA MessageFacts ==
  ASSUME NEW b \in Seq(0 .. 255), NEW p \in 1 .. Len(b) + 1, NEW t, FromLex(b, t, p)
  PROVE  Arrow(b, [token |-> t, pos |-> p, column |-> ArrowColumn(b, p, t)])
  <1>1. t # TK_EOF => p # 1
    BY LexFacts DEF FromLex
  <1>2. CASE p = 1
    BY <1>1, <1>2 DEF Arrow
  <1>3. CASE p # 1
    <2>1. p \in 2 .. Len(b) + 1
      BY <1>3
    <2>2. ArrowColumn(b, p, t) = ColumnsOf(b)[p - 1] + IF t = TK_EOF THEN 1 ELSE 0
      BY <2>1, ArrowIsColumn
    <2>3. /\ ColumnsOf(b) \in [1 .. Len(b) + 1 -> Nat] /\ p - 1 \in 1 .. Len(b) + 1
          /\ b[p - 1] # Tab => ColumnsOf(b)[p] = ColumnsOf(b)[p - 1] + 1
      BY <2>1, ColumnsFacts
    <2> QED BY <2>2, <2>3 DEF Arrow
  <1> QED BY <1>2, <1>3

\* lex() any number of times: f are the tokens on the way to the last.
ChainOfTokens(n, f) ==
  /\ Lexed(n) = f[n]
  /\ f[0] = [token |-> token, pos |-> pos]
  /\ \A k \in 1 .. n : f[k] = Lex(buffer, f[k - 1].pos)

\* There are such tokens.
LEMMA LexedChain ==
  ASSUME buffer \in Seq(0 .. 255), pos \in 1 .. Len(buffer) + 1, NEW n \in Nat
  PROVE  \E f : ChainOfTokens(n, f)
  <1> DEFINE first == [token |-> token, pos |-> pos]
             P == 1 .. Len(buffer) + 1
             W == [token : {token} \cup {Lex(buffer, p).token : p \in P}, pos : P]
             next == [k \in 0 .. n |-> [w \in W |-> Lex(buffer, w.pos)]]
             Finds(f) == f = [k \in 0 .. n |-> IF k = 0 THEN first ELSE Lex(buffer, f[k - 1].pos)]
             found == CHOOSE f : Finds(f)
  <1>1. Lexed(n) = found[n]
    BY DEF Lexed
  <1>2. first \in W
    OBVIOUS
  <1>3. ASSUME NEW p \in P PROVE Lex(buffer, p) \in W /\ FromLex(buffer, Lex(buffer, p).token, Lex(buffer, p).pos)
    <2>1. /\ Lex(buffer, p).pos \in p .. Len(buffer) + 1
          /\ Lex(buffer, p) = [token |-> Lex(buffer, p).token, pos |-> Lex(buffer, p).pos]
      BY LexFacts
    <2>2. Lex(buffer, p).pos \in P /\ p \in 1 .. Lex(buffer, p).pos
      BY <2>1
    <2>3. Lex(buffer, p) \in W
      BY <2>1, <2>2
    <2> QED BY <2>1, <2>2, <2>3 DEF FromLex
  <1>4. \A w \in W : w.pos \in P /\ w = [token |-> w.token, pos |-> w.pos]
    OBVIOUS
  <1> HIDE DEF W
  <1>5. next \in [0 .. n -> [W -> W]]
    BY <1>3, <1>4
  <1> HIDE DEF next
  <1>6. PICK f \in [0 .. n -> W] : Counts(0, n, first, next, f)
    <2>1. 0 \in Int /\ n \in Int
      OBVIOUS
    <2> HIDE DEF first
    <2> QED BY <1>2, <1>5, <2>1, CountingExists
  <1>7. Finds(f)
    <2>1. \A k \in 0 .. n : k # 0 => k - 1 \in 0 .. n
      OBVIOUS
    <2>2. \A k \in 0 .. n : k # 0 => next[k][f[k - 1]] = Lex(buffer, f[k - 1].pos)
      BY <2>1 DEF next
    <2>3. f = [k \in 0 .. n |-> IF k = 0 THEN first ELSE next[k][f[k - 1]]]
      BY <1>6 DEF Counts
    <2> QED BY <2>2, <2>3
  <1>8. Finds(found)
    <2> HIDE DEF Finds
    <2> QED BY <1>7
  <1> HIDE DEF found
  <1>9. \A k \in 0 .. n : found[k] = IF k = 0 THEN first ELSE Lex(buffer, found[k - 1].pos)
    BY <1>8
  <1> HIDE DEF Finds
  <1>10. ChainOfTokens(n, found)
    <2>1. 0 \in 0 .. n /\ \A k \in 1 .. n : k \in 0 .. n /\ k # 0
      OBVIOUS
    <2> QED BY <1>1, <1>9, <2>1 DEF ChainOfTokens, first
  <1> QED BY <1>10

\* The last token.
LEMMA LexedFacts ==
  ASSUME buffer \in Seq(0 .. 255), pos \in 1 .. Len(buffer) + 1, NEW n \in Nat
  PROVE  /\ Lexed(n).pos \in 1 .. Len(buffer) + 1
         /\ Lexed(n) = [token |-> Lexed(n).token, pos |-> Lexed(n).pos]
         /\ n > 0 \/ FromLex(buffer, token, pos) =>
              FromLex(buffer, Lexed(n).token, Lexed(n).pos)
  <1> DEFINE P == 1 .. Len(buffer) + 1
             IsToken(x) == x.pos \in P /\ x = [token |-> x.token, pos |-> x.pos]
  <1>1. PICK f : ChainOfTokens(n, f)
    BY LexedChain
  <1>2. ASSUME NEW p \in P
        PROVE  IsToken(Lex(buffer, p)) /\ FromLex(buffer, Lex(buffer, p).token, Lex(buffer, p).pos)
    <2>1. /\ Lex(buffer, p).pos \in p .. Len(buffer) + 1
          /\ Lex(buffer, p) = [token |-> Lex(buffer, p).token, pos |-> Lex(buffer, p).pos]
      BY LexFacts
    <2>2. Lex(buffer, p).pos \in P /\ p \in 1 .. Lex(buffer, p).pos
      BY <2>1
    <2> QED BY <2>1, <2>2 DEF FromLex
  <1> DEFINE S == {k \in 0 .. n : IsToken(f[k])}
  <1>3. 0 \in S
    BY <1>1 DEF ChainOfTokens
  <1>4. ASSUME NEW k \in 0 .. n - 1, k \in S PROVE k + 1 \in S
    <2>1. k + 1 \in 0 .. n /\ k + 1 \in 1 .. n /\ (k + 1) - 1 = k
      OBVIOUS
    <2>2. f[k + 1] = Lex(buffer, f[k].pos)
      BY <1>1, <2>1 DEF ChainOfTokens
    <2>3. f[k].pos \in P
      BY <1>4
    <2> HIDE DEF IsToken, P
    <2> QED BY <1>2, <2>1, <2>2, <2>3
  <1>5. \A k \in 0 .. n : k \in S
    <2>1. 0 \in Int /\ n \in Int
      OBVIOUS
    <2> HIDE DEF S
    <2> QED BY <1>3, <1>4, <2>1, InductiveInterval
  <1>6. Lexed(n) = f[n] /\ IsToken(f[n])
    BY <1>1, <1>5 DEF ChainOfTokens
  <1>7. CASE n = 0
    BY <1>1, <1>6, <1>7 DEF ChainOfTokens
  <1>8. CASE n # 0
    <2>1. n - 1 \in 0 .. n /\ n \in 1 .. n
      BY <1>8
    <2>2. f[n - 1].pos \in P
      BY <1>5, <2>1
    <2>3. f[n] = Lex(buffer, f[n - 1].pos)
      BY <1>1, <2>1 DEF ChainOfTokens
    <2>4. FromLex(buffer, f[n].token, f[n].pos)
      BY <1>2, <2>2, <2>3
    <2> QED BY <1>6, <2>4
  <1> QED BY <1>7, <1>8

\* Until the first token is fetched parse() is alone on the stack.
Unfetched == stack = <<Record("parse", "begin", NULL)>>

ArrowInv ==
  /\ buffer \in Seq(0 .. 255) /\ pos \in 1 .. Len(buffer) + 1
  /\ Unfetched \/ FromLex(buffer, token, pos)
  /\ Arrow(buffer, message)

\* What a step does with the tokens and with the message.
Fetches ==
  /\ UNCHANGED input \/ \E n \in Nat : Consume(n)
  /\ Unfetched => Consume(1)

Tells ==
  \/ UNCHANGED message
  \/ PrintError(ArrowColumn(buffer, pos', token')) \/ PrintError(NoArrow)

LEMMA FirstRecord ==
  ASSUME Unfetched
  PROVE  Top.fn = "parse" /\ Top.at = "begin"
  <1> DEFINE r == Record("parse", "begin", NULL)
  <1>1. Len(stack) = 1 /\ stack[1] = r
    BY DEF Unfetched
  <1> QED BY <1>1 DEF Top, Record

LEMMA Fetching ==
  /\ UNCHANGED input \/ Consume(1) \/ Consume(2) \/ Consume(3) => UNCHANGED input \/ \E n \in Nat : Consume(n)
  /\ \A n \in Nat : Consume(n) \/ ConsumeQuantified(n) => \E m \in Nat : Consume(m)
  <1>1. \A n \in Nat : n + 1 \in Nat
    OBVIOUS
  <1>2. 1 \in Nat /\ 2 \in Nat /\ 3 \in Nat
    OBVIOUS
  <1> QED BY <1>1, <1>2 DEF ConsumeQuantified

LEMMA Telling ==
  /\ \A set : Error(set) => Tells
  /\ \A set, nfa : Fail(set, nfa) => Tells
  /\ NoError => Tells
  BY DEF Error, Fail, NoError, Tells

LEMMA StepFetches ==
  ASSUME Step \/ OutOfMemory \/ Aftermath
  PROVE  Fetches /\ Tells
  <1>1. CASE ParseBegin
    BY <1>1, Fetching, Telling DEF ParseBegin, Fetches
  <1> DEFINE Moves == UNCHANGED input \/ \E n \in Nat : Consume(n)
  <1>2. ASSUME ~ (Top.fn = "parse" /\ Top.at = "begin") PROVE ~ Unfetched
    BY <1>2, FirstRecord
  <1>3. OnlyControl => Moves /\ Tells
    BY Telling DEF OnlyControl
  <1>4. CASE ParseEnd \/ RegexBegin \/ RegexAfterGroup \/ RegexEnd
    <2>1. Top.fn \in {"parse", "regex"} /\ Top.at \in {"begin", "regex", "group", "gprime"}
          /\ ~ (Top.fn = "parse" /\ Top.at = "begin")
      BY <1>4 DEF ParseEnd, RegexBegin, RegexAfterGroup, RegexEnd, Runs, Resumes
    <2>2. Moves /\ Tells
      BY <1>3, <1>4, Telling DEF ParseEnd, RegexBegin, RegexAfterGroup, RegexEnd, OnlyControl
    <2> QED BY <1>2, <2>1, <2>2 DEF Fetches
  <1>5. ASSUME NEW n \in Nat, ReturnQuantified(n) PROVE Moves /\ Tells
    BY <1>5, Fetching, Telling DEF ReturnQuantified
  <1>11. UNCHANGED input \/ Consume(1) \/ Consume(2) \/ Consume(3) => Moves
    BY Fetching
  <1>6. CASE GroupBegin \/ GroupMalformed \/ GroupUnclosed \/ GroupClosed
              \/ GroupAfterPattern \/ GroupAfterRange \/ GroupTransformFails
              \/ GroupUndefined
    <2>1. Top.fn = "group"
      BY <1>6 DEF GroupBegin, GroupMalformed, GroupUnclosed, GroupClosed, GroupUndefined,
                  GroupAfterPattern, GroupAfterRange, GroupTransformFails, Runs, Resumes
    <2>2. ASSUME GroupBegin \/ GroupMalformed \/ GroupUnclosed \/ GroupAfterPattern PROVE Moves /\ Tells
      <3> HIDE DEF Moves
      <3> QED BY <1>3, <1>11, <2>2, Telling
              DEF GroupBegin, GroupMalformed, GroupUnclosed, GroupAfterPattern, OnlyControl
    <2>3. ASSUME GroupClosed \/ GroupAfterRange PROVE Moves /\ Tells
      <3>1. ReturnQuantified(0) \/ ReturnQuantified(1) \/ OnlyControl
        BY <2>3 DEF GroupClosed, GroupAfterRange
      <3>2. 0 \in Nat /\ 1 \in Nat
        OBVIOUS
      <3> HIDE DEF Moves
      <3> QED BY <1>3, <1>5, <3>1, <3>2
    <2>4. ASSUME GroupTransformFails PROVE Moves /\ Tells
      <3>1. Consume(2) \/ Consume(1)
        <4>1. 1 + 1 = 2 /\ 0 + 1 = 1
          OBVIOUS
        <4> QED BY <2>4, <4>1 DEF GroupTransformFails
      <3>2. NoError
        BY <2>4 DEF GroupTransformFails
      <3> HIDE DEF Moves
      <3> QED BY <1>11, <3>1, <3>2, Telling
    <2>5. ASSUME GroupUndefined PROVE Moves /\ Tells
      <3> HIDE DEF Moves
      <3> QED BY <1>11, <2>5, Telling DEF GroupUndefined, Undefined
    <2> QED BY <1>2, <1>6, <2>1, <2>2, <2>3, <2>4, <2>5 DEF Fetches
  <1>7. CASE GprimeBegin \/ GprimeAppend \/ GprimeUnion \/ GprimePipe \/ GprimeEnd
              \/ GprimeNothingAfterPipe \/ GprimeJoinFails \/ GprimeUndefined
    <2>1. Top.fn = "gprime"
      BY <1>7 DEF GprimeBegin, GprimeAppend, GprimeUnion, GprimeJoin, GprimePipe, GprimeEnd,
                  GprimeNothingAfterPipe, GprimeJoinFails, GprimeUndefined, Runs, Resumes
    <2>2. Moves /\ Tells
      BY <1>3, <1>7, Fetching, Telling
         DEF GprimeBegin, GprimeAppend, GprimeUnion, GprimeJoin, GprimePipe, GprimeEnd,
             GprimeNothingAfterPipe, GprimeJoinFails, GprimeUndefined, Undefined
    <2> QED BY <1>2, <2>1, <2>2 DEF Fetches
  <1>8. /\ \A at, words, how : JoinNew(at, words, how) => Tells
        /\ \A at, words : LoseBoth(at, words) => Tells
        /\ \A chars : AllowedFails(chars) => Tells
    BY Telling DEF JoinNew, LoseBoth, AllowedFails
  <1>9. CASE PatternCharacter \/ PatternEnd \/ PatternOutOfMemory \/ PatternTransformFails
              \/ PatternJoinFails
    <2>1. Top.fn = "pattern"
      BY <1>9 DEF PatternCharacter, PatternEnd, PatternOutOfMemory, PatternTransformFails,
                  PatternJoinFails, Runs
    <2>2. Moves
      <3>1. 1 \in Nat
        OBVIOUS
      <3> QED BY <1>9, <3>1, Fetching
         DEF PatternCharacter, PatternEnd, PatternOutOfMemory, PatternTransformFails,
             PatternJoinFails
    <2>3. Tells
      BY <1>8, <1>9, Telling
         DEF PatternCharacter, PatternEnd, PatternOutOfMemory, PatternTransformFails,
             PatternJoinFails, Tells
    <2> QED BY <1>2, <2>1, <2>2, <2>3 DEF Fetches
  <1>10. CASE RangeNone \/ RangeBegin \/ AllowedCharacter \/ AllowedRange \/ RangeEnd
              \/ AllowedCharacterFails \/ AllowedRangeFails \/ RangeNothing
    <2>1. Top.fn = "range"
      BY <1>10 DEF RangeNone, RangeBegin, AllowedCharacter, AllowedRange, RangeEnd,
                   AllowedCharacterFails, AllowedRangeFails, RangeNothing, Runs
    <2>2. Moves
      BY <1>3, <1>10, Fetching
         DEF RangeNone, RangeBegin, AllowedCharacter, AllowedRange, RangeEnd,
             AllowedCharacterFails, AllowedRangeFails, RangeNothing
    <2>3. Tells
      BY <1>3, <1>8, <1>10, Telling
         DEF RangeNone, RangeBegin, AllowedCharacter, AllowedRange, RangeEnd,
             AllowedCharacterFails, AllowedRangeFails, RangeNothing
    <2> QED BY <1>2, <2>1, <2>2, <2>3 DEF Fetches
  <1> QED BY <1>1, <1>4, <1>6, <1>7, <1>9, <1>10 DEF Step, OutOfMemory, Aftermath

LEMMA ArrowStep == ASSUME ArrowInv, [Next]_vars PROVE ArrowInv'
  <1>1. CASE UNCHANGED vars
    BY <1>1 DEF ArrowInv, vars, Unfetched
  <1>2. CASE Step \/ OutOfMemory \/ Aftermath
    <2>1. Fetches /\ Tells
      BY <1>2, StepFetches
    <2>2. buffer \in Seq(0 .. 255) /\ pos \in 1 .. Len(buffer) + 1
          /\ (Unfetched \/ FromLex(buffer, token, pos)) /\ Arrow(buffer, message)
      BY DEF ArrowInv
    <2>3. buffer' = buffer /\ pos' \in 1 .. Len(buffer) + 1 /\ FromLex(buffer, token', pos')
      <3>1. CASE Unfetched
        <4>1. Consume(1) /\ 1 \in Nat
          BY <2>1, <3>1 DEF Fetches
        <4>2. /\ Lexed(1).pos \in 1 .. Len(buffer) + 1
              /\ FromLex(buffer, Lexed(1).token, Lexed(1).pos)
          BY <2>2, <4>1, LexedFacts
        <4> QED BY <4>1, <4>2 DEF Consume
      <3>2. CASE ~ Unfetched /\ UNCHANGED input
        BY <2>2, <3>2 DEF input
      <3>3. CASE ~ Unfetched /\ \E n \in Nat : Consume(n)
        <4>1. PICK n \in Nat : Consume(n)
          BY <3>3
        <4>2. /\ Lexed(n).pos \in 1 .. Len(buffer) + 1
              /\ FromLex(buffer, Lexed(n).token, Lexed(n).pos)
          BY <2>2, <3>3, LexedFacts
        <4> QED BY <4>1, <4>2 DEF Consume
      <3> QED BY <2>1, <3>1, <3>2, <3>3 DEF Fetches
    <2>4. Arrow(buffer, message')
      <3> DEFINE m(column) == [token |-> token', pos |-> pos', column |-> column]
      <3>1. Arrow(buffer, m(ArrowColumn(buffer, pos', token')))
        <4>1. PICK p \in 1 .. Len(buffer) + 1 : p = pos'
          BY <2>3
        <4> PICK t : t = token'
          OBVIOUS
        <4>2. FromLex(buffer, t, p)
          BY <2>3, <4>1
        <4>3. Arrow(buffer, [token |-> t, pos |-> p, column |-> ArrowColumn(buffer, p, t)])
          BY <2>2, <4>2, MessageFacts
        <4> QED BY <4>1, <4>3
      <3>2. Arrow(buffer, m(NoArrow))
        BY DEF Arrow
      <3>3. message' = message \/ message' = m(ArrowColumn(buffer, pos', token'))
            \/ message' = m(NoArrow)
        BY <2>1 DEF Tells, PrintError
      <3> HIDE DEF m
      <3> QED BY <2>2, <3>1, <3>2, <3>3
    <2> QED BY <2>2, <2>3, <2>4 DEF ArrowInv
  <1> QED BY <1>1, <1>2 DEF Next, Stopped

\* The arrow is under the last character of the token that the message is about,
\* whatever tabs are before it and however far the parser had read on.
THEOREM ArrowUnderTokenHolds == Spec => []ArrowUnderToken
  <1>1. Init => ArrowInv
    BY BufferAssumption DEF Init, ArrowInv, Unfetched, Arrow, NoMessage
  <1>2. ArrowInv => ArrowUnderToken
    BY ArrowIsRight DEF ArrowInv
  <1> QED BY <1>1, <1>2, ArrowStep, PTL DEF Spec

-----------------------------------------------------------------------------
(***************************************************************************)
(* Which regular expressions are accepted.                                 *)
(*                                                                         *)
(* The phrases of the grammar that start at a position do not depend on    *)
(* their meanings: only on where the phrases that start later end.  From   *)
(* that come, for every token that may be next, the positions at which a   *)
(* regular expression can end (MeetsPiece, MeetsAtom, MeetsStart,          *)
(* MeetsBrackets), and what the parser may conclude from the token it      *)
(* looks at.                                                               *)
(***************************************************************************)

\* No byte of the buffer is taken for its end.
NoEOF(b) == \A k \in DOMAIN b : b[k] # TK_EOF

\* The numbers of token.h.
TokensByName == TK_WILDCARD = 127 /\ TK_EOF = 128 /\ TK_LPAREN = 129 /\ TK_RPAREN = 130
  /\ TK_LBRACKET = 131 /\ TK_PIPE = 132 /\ TK_STAR = 133 /\ TK_QUESTION = 134 /\ TK_PLUS = 135
  /\ TK_RBRACKET = 136 /\ Tilde = 126 /\ Dash = 45

\* These are its numbers.
LEMMA TokenNames == TokensByName
  BY DEF TokensByName, TK_WILDCARD, TK_EOF, TK_LPAREN, TK_RPAREN, TK_LBRACKET, TK_PIPE, TK_STAR,
         TK_QUESTION, TK_PLUS, TK_RBRACKET, Tilde, Dash

\* A token is a byte, and only the end of the buffer is taken for the end.
LEMMA TokenFacts ==
  ASSUME NEW b \in Seq(0 .. 255), NEW p \in Positions(b)
  PROVE  /\ Beyond(b, p) \in Positions(b) /\ TokenAt(b, p) \in 0 .. 255
         /\ Beyond(b, p) >= p /\ (p # Len(b) + 1 => Beyond(b, p) > p)
         /\ p = Len(b) + 1 => TokenAt(b, p) = TK_EOF
         /\ NoEOF(b) /\ TokenAt(b, p) = TK_EOF => p = Len(b) + 1
  <1> DEFINE n == Len(b)
             ch == GetChar(b, p)
             next == After(b, p)
             esc == Escaped(GetChar(b, next))
  <1>1. n \in Nat /\ DOMAIN b = 1 .. n /\ \A k \in 1 .. n : b[k] \in 0 .. 255
    <2>1. DOMAIN b = 1 .. Len(b) /\ Len(b) \in Nat
      OBVIOUS
    <2>2. \A k \in 1 .. Len(b) : b[k] \in 0 .. 255
      BY ElementOfSeq
    <2> QED BY <2>1, <2>2
  <1>2. /\ next \in Positions(b) /\ After(b, next) \in Positions(b) /\ After(b, next) >= next
        /\ next >= p /\ (p # n + 1 => next > p)
    BY <1>1 DEF After, Positions
  <1>3. ch \in 0 .. 255 /\ GetChar(b, next) \in 0 .. 255
        /\ (p = n + 1 => ch = TK_EOF) /\ (ch = TK_EOF /\ NoEOF(b) => p = n + 1)
    BY <1>1, <1>2 DEF GetChar, Positions, TK_EOF, NoEOF
  <1>4. Lex(b, p) = IF ch = Backslash THEN [token |-> esc, pos |-> After(b, next)]
                    ELSE [token |-> IF ch \in DOMAIN Special THEN Special[ch] ELSE ch, pos |-> next]
    BY DEF Lex
  <1>5. esc \in 0 .. 255 /\ esc # TK_EOF
    BY <1>3 DEF Escaped, Special, Backslash, TK_EOF, TK_ILLEGAL, Newline, Tab
  <1>6. /\ \A c \in DOMAIN Special : Special[c] \in 0 .. 255 /\ Special[c] # TK_EOF
        /\ TK_EOF # Backslash /\ TK_EOF \notin DOMAIN Special
    <2> DEFINE names == {TK_WILDCARD, TK_LPAREN, TK_RPAREN, TK_LBRACKET, TK_PIPE, TK_STAR,
                         TK_QUESTION, TK_PLUS, TK_RBRACKET}
    <2>1. DOMAIN Special = {46, 40, 41, 91, 124, 42, 63, 43, 93}
      BY DEF Special
    <2>2. ASSUME NEW c \in {46, 40, 41, 91, 124, 42, 63, 43, 93} PROVE Special[c] \in names
      BY DEF Special
    <2>3. \A t \in names : t \in 0 .. 255 /\ t # TK_EOF
      BY TokenNames DEF TokensByName
    <2>4. TK_EOF # Backslash /\ TK_EOF \notin DOMAIN Special
      BY <2>1, TokenNames DEF TokensByName, Backslash
    <2> HIDE DEF names
    <2>5. ASSUME NEW c \in DOMAIN Special PROVE Special[c] \in 0 .. 255 /\ Special[c] # TK_EOF
      <3>1. Special[c] \in names
        BY <2>1, <2>2
      <3> QED BY <2>3, <3>1
    <2> QED BY <2>4, <2>5
  <1> HIDE DEF ch, next, esc
  <1>7. CASE ch = Backslash
    BY <1>1, <1>2, <1>3, <1>4, <1>5, <1>6, <1>7 DEF TokenAt, Beyond, Positions
  <1>8. CASE ch # Backslash
    BY <1>1, <1>2, <1>3, <1>4, <1>6, <1>8 DEF TokenAt, Beyond, Positions
  <1> QED BY <1>7, <1>8

\* The phrases of S end after position p.
EndAfter(b, S, p) == \A x \in S : x.end \in Positions(b) /\ x.end > p

\* The fields of a phrase.
LEMMA PhraseFacts == \A e, m : Phrase(e, m).end = e /\ Phrase(e, m).meaning = m
  BY DEF Phrase

\* A phrase and the token after it end after p, if the phrase does.
LEMMA ClosedFacts ==
  ASSUME NEW b \in Seq(0 .. 255), NEW p \in Nat, NEW S, EndAfter(b, S, p), NEW tk, tk # TK_EOF
  PROVE  EndAfter(b, Closed(b, S, tk), p)
  <1>1. ASSUME NEW x \in S, TokenAt(b, x.end) = tk
        PROVE  Beyond(b, x.end) \in Positions(b) /\ Beyond(b, x.end) > p
    <2> DEFINE e == x.end
    <2>1. e \in Positions(b) /\ e > p
      BY DEF EndAfter
    <2> HIDE DEF e
    <2>2. e # Len(b) + 1 /\ Beyond(b, e) \in Positions(b)
      BY <1>1, <2>1, TokenFacts DEF e
    <2>3. Beyond(b, e) > e
      BY <2>1, <2>2, TokenFacts
    <2>4. Beyond(b, e) > p
      BY <2>1, <2>2, <2>3 DEF Positions
    <2> QED BY <2>2, <2>4 DEF e
  <1>2. \A x : x \in Closed(b, S, tk) <=> \E y \in S : TokenAt(b, y.end) = tk /\ x = Phrase(Beyond(b, y.end), y.meaning)
    BY DEF Closed
  <1> QED BY <1>1, <1>2, PhraseFacts DEF EndAfter

\* The last position of left - right.
LastOf(b, p) == Beyond(b, Beyond(b, p))

\* The only character or range in brackets that can start at p.
LEMMA IntervalFacts ==
  ASSUME NEW b \in Seq(0 .. 255), NEW p \in Positions(b)
  PROVE  /\ EndAfter(b, Interval(b, p), p)
         /\ \A x, y \in Interval(b, p) : x = y
         /\ IF TokenAt(b, p) > Tilde THEN Interval(b, p) = {}
            ELSE IF TokenAt(b, Beyond(b, p)) # Dash
            THEN \E x \in Interval(b, p) : x.end = Beyond(b, p)
            ELSE IF TokenAt(b, LastOf(b, p)) \in TokenAt(b, p) .. Tilde
            THEN \E x \in Interval(b, p) : x.end = Beyond(b, LastOf(b, p))
            ELSE Interval(b, p) = {}
  <1> DEFINE left  == TokenAt(b, p)
             dash  == Beyond(b, p)
             last  == LastOf(b, p)
             right == TokenAt(b, last)
             end   == Beyond(b, last)
             n     == Len(b) + 1
  <1>1. Interval(b, p) = IF left > Tilde THEN {}
                         ELSE IF TokenAt(b, dash) # Dash THEN {Phrase(dash, {left})}
                         ELSE IF right \in left .. Tilde THEN {Phrase(end, left .. right)}
                         ELSE {}
    BY DEF Interval, LastOf
  <1>2. /\ dash \in 1 .. n /\ last \in 1 .. n /\ end \in 1 .. n /\ n \in Nat
        /\ left \in 0 .. 255 /\ right \in 0 .. 255
        /\ (p # n => dash > p) /\ (p = n => left = TK_EOF)
        /\ last >= dash /\ (last # n => end > last) /\ (last = n => right = TK_EOF)
    <2>1. /\ dash \in Positions(b) /\ left \in 0 .. 255
          /\ (p # n => dash > p) /\ (p = n => left = TK_EOF)
      BY TokenFacts
    <2> HIDE DEF left, dash
    <2>2. Beyond(b, dash) \in Positions(b) /\ Beyond(b, dash) >= dash
      BY <2>1, TokenFacts
    <2>3. last \in Positions(b) /\ last >= dash
      BY <2>2 DEF dash, LastOf
    <2> HIDE DEF last
    <2>4. /\ end \in Positions(b) /\ right \in 0 .. 255
          /\ (last # n => end > last) /\ (last = n => right = TK_EOF)
      BY <2>3, TokenFacts
    <2>5. Positions(b) = 1 .. n /\ n \in Nat
      BY DEF Positions
    <2> QED BY <2>1, <2>3, <2>4, <2>5
  <1> HIDE DEF left, dash, last, right, end, n
  <1>3. ~ left > Tilde => p # n /\ dash > p
    BY <1>2 DEF Tilde, TK_EOF
  <1>4. ~ left > Tilde /\ right \in left .. Tilde => end > p
    <2>1. right \in left .. Tilde => last # n
      BY <1>2 DEF Tilde, TK_EOF
    <2>2. p \in Nat
      BY DEF Positions
    <2> QED BY <1>2, <1>3, <2>1, <2>2
  <1>5. n = Len(b) + 1
    BY DEF n
  <1>6. EndAfter(b, Interval(b, p), p)
    BY <1>1, <1>2, <1>3, <1>4, <1>5, PhraseFacts DEF EndAfter, Positions
  <1>7. /\ \A x, y \in Interval(b, p) : x = y
        /\ IF left > Tilde THEN Interval(b, p) = {}
            ELSE IF TokenAt(b, dash) # Dash
            THEN \E x \in Interval(b, p) : x.end = dash
            ELSE IF right \in left .. Tilde
            THEN \E x \in Interval(b, p) : x.end = end
            ELSE Interval(b, p) = {}
    BY <1>1, PhraseFacts
  <1> QED BY <1>6, <1>7 DEF left, dash, last, right, end

\* The characters from p on, if f is what comes after them.
IntervalsAt(b, f, p) ==
  Interval(b, p) \cup
  UNION {{Phrase(y.end, x.meaning \cup y.meaning) : y \in f[x.end]} : x \in Interval(b, p)}

\* What the function that Intervals defines satisfies.
FindsIntervals(b, f) == f = [p \in Positions(b) |-> IntervalsAt(b, f, p)]

\* The characters from p on depend on what comes after p only.
LEMMA IntervalsLater ==
  ASSUME NEW b \in Seq(0 .. 255), NEW p \in Positions(b), NEW f, NEW g,
         \A q \in Positions(b) : q > p => f[q] = g[q]
  PROVE  IntervalsAt(b, f, p) = IntervalsAt(b, g, p)
  <1> DEFINE I == Interval(b, p)
             F == [x \in I |-> {Phrase(y.end, x.meaning \cup y.meaning) : y \in f[x.end]}]
             G == [x \in I |-> {Phrase(y.end, x.meaning \cup y.meaning) : y \in g[x.end]}]
  <1>1. \A x \in I : f[x.end] = g[x.end]
    BY IntervalFacts DEF EndAfter
  <1> HIDE DEF I
  <1>2. ASSUME NEW x \in I PROVE F[x] = G[x]
    <2>1. f[x.end] = g[x.end]
      BY <1>1
    <2> QED BY <2>1
  <1>3. F = G
    BY <1>2
  <1>4. {F[x] : x \in I} = {{Phrase(y.end, x.meaning \cup y.meaning) : y \in f[x.end]} : x \in I}
    OBVIOUS
  <1>5. {G[x] : x \in I} = {{Phrase(y.end, x.meaning \cup y.meaning) : y \in g[x.end]} : x \in I}
    OBVIOUS
  <1>6. IntervalsAt(b, f, p) = I \cup UNION {F[x] : x \in I}
    BY <1>4 DEF IntervalsAt, I
  <1>7. IntervalsAt(b, g, p) = I \cup UNION {G[x] : x \in I}
    BY <1>5 DEF IntervalsAt, I
  <1> HIDE DEF F, G
  <1> QED BY <1>3, <1>6, <1>7

\* There is such a function: it is built from the end of the buffer backwards.
LEMMA IntervalsExist ==
  ASSUME NEW b \in Seq(0 .. 255)
  PROVE  \E f : FindsIntervals(b, f)
  <1> DEFINE n == Len(b) + 1
             From(k) == {p \in Positions(b) : p > k}
             Found(k, f) == f = [p \in From(k) |-> IntervalsAt(b, f, p)]
             S == {i \in 0 .. n : \E f : Found(n - i, f)}
  <1>1. n \in Nat /\ Positions(b) = 1 .. n
    BY DEF Positions
  <1> HIDE DEF n
  <1>2. 0 \in S
    <2>1. From(n - 0) = {} /\ n - 0 = n
      BY <1>1
    <2> DEFINE none == [p \in {} |-> {}]
    <2>2. none = [p \in {} |-> IntervalsAt(b, none, p)]
      OBVIOUS
    <2>3. Found(n - 0, none)
      BY <2>1, <2>2
    <2> HIDE DEF Found, none
    <2> QED BY <1>1, <2>3
  <1>3. ASSUME NEW i \in 0 .. n - 1, i \in S PROVE i + 1 \in S
    <2> DEFINE k == n - (i + 1)
               q == n - i
    <2>1. PICK f : Found(q, f)
      BY <1>3
    <2> DEFINE g == [p \in From(k) |-> IF p = q THEN IntervalsAt(b, f, q) ELSE f[p]]
    <2>2. From(k) = From(q) \cup {q} /\ q \in Positions(b) /\ q \notin From(q)
      BY <1>1
    <2> HIDE DEF k, q
    <2>3. \A p \in From(q) : f[p] = IntervalsAt(b, f, p)
      BY <2>1
    <2>4. \A p \in From(q) : g[p] = f[p]
      BY <2>2
    <2>5. ASSUME NEW p \in From(k) PROVE g[p] = IntervalsAt(b, g, p)
      <3>1. p \in Positions(b) /\ p >= q
        BY <2>2 DEF Positions
      <3>2. \A r \in Positions(b) : r > p => f[r] = g[r]
        BY <2>2, <2>4, <3>1 DEF Positions
      <3>3. IntervalsAt(b, f, p) = IntervalsAt(b, g, p)
        <4> HIDE DEF g
        <4> QED BY <3>1, <3>2, IntervalsLater
      <3>4. g[p] = IntervalsAt(b, f, p)
        BY <2>2, <2>3, <2>4
      <3> QED BY <3>3, <3>4
    <2>6. Found(k, g)
      <3>1. g = [p \in From(k) |-> g[p]]
        OBVIOUS
      <3> HIDE DEF g
      <3> QED BY <2>5, <3>1
    <2>7. i + 1 \in 0 .. n
      BY <1>1
    <2> HIDE DEF Found, g
    <2> QED BY <2>6, <2>7 DEF k
  <1>4. n \in S
    <2>1. \A i \in 0 .. n : i \in S
      <3>1. 0 \in Int /\ n \in Int
        BY <1>1
      <3> HIDE DEF S
      <3> QED BY <1>2, <1>3, <3>1, InductiveInterval
    <2>2. n \in 0 .. n
      BY <1>1
    <2> QED BY <2>1, <2>2
  <1>5. PICK f : Found(n - n, f)
    BY <1>4
  <1>6. From(n - n) = Positions(b)
    BY <1>1
  <1> QED BY <1>5, <1>6 DEF FindsIntervals

\* So Intervals is one.
LEMMA IntervalsFound ==
  ASSUME NEW b \in Seq(0 .. 255), NEW p \in Positions(b)
  PROVE  Intervals(b)[p] = IntervalsAt(b, Intervals(b), p)
  <1> DEFINE f == CHOOSE f : FindsIntervals(b, f)
  <1>1. Intervals(b) = f
    BY DEF Intervals, FindsIntervals, IntervalsAt
  <1>2. FindsIntervals(b, f)
    BY IntervalsExist
  <1> HIDE DEF f
  <1>3. f[p] = IntervalsAt(b, f, p)
    BY <1>2 DEF FindsIntervals
  <1> QED BY <1>1, <1>3

\* Where the phrases of S end.
Ending(S) == {x.end : x \in S}

\* What a phrase means does not change where it ends.
LEMMA ImageEnds ==
  ASSUME NEW T, NEW M
  PROVE  Ending({Phrase(y.end, M[y]) : y \in T}) = Ending(T)
  <1>1. ASSUME NEW y \in T PROVE Phrase(y.end, M[y]).end = y.end
    BY PhraseFacts
  <1>2. Ending({Phrase(y.end, M[y]) : y \in T}) = {Phrase(y.end, M[y]).end : y \in T}
    BY DEF Ending
  <1> QED BY <1>1, <1>2 DEF Ending

\* Where the characters between brackets may end.
LEMMA IntervalsEnd ==
  ASSUME NEW b \in Seq(0 .. 255), NEW p \in Positions(b)
  PROVE  Ending(Intervals(b)[p]) =
           Ending(Interval(b, p)) \cup UNION {Ending(Intervals(b)[x.end]) : x \in Interval(b, p)}
  <1> DEFINE f == Intervals(b)
             I == Interval(b, p)
             more(x) == {Phrase(y.end, x.meaning \cup y.meaning) : y \in f[x.end]}
  <1>1. f[p] = I \cup UNION {more(x) : x \in I}
    BY IntervalsFound DEF IntervalsAt
  <1>2. ASSUME NEW x \in I PROVE Ending(more(x)) = Ending(f[x.end])
    <2> DEFINE T == f[x.end]
               M == [y \in T |-> x.meaning \cup y.meaning]
    <2>1. more(x) = {Phrase(y.end, M[y]) : y \in T}
      OBVIOUS
    <2> HIDE DEF I, T, M, more
    <2>2. Ending(more(x)) = Ending(T)
      BY <2>1, ImageEnds
    <2> QED BY <2>2 DEF T
  <1> HIDE DEF f, I, more
  <1>3. ASSUME NEW e, e \in Ending(f[p])
        PROVE  e \in Ending(I) \/ \E x \in I : e \in Ending(f[x.end])
    <2>1. PICK z \in f[p] : z.end = e
      BY <1>3 DEF Ending
    <2>2. CASE z \in I
      BY <2>1, <2>2 DEF Ending
    <2>3. ASSUME NEW x \in I, z \in more(x) PROVE e \in Ending(f[x.end])
      <3>1. e \in Ending(more(x))
        BY <2>1, <2>3 DEF Ending
      <3> QED BY <1>2, <3>1
    <2> QED BY <1>1, <2>1, <2>2, <2>3
  <1>4. ASSUME NEW e, e \in Ending(I) PROVE e \in Ending(f[p])
    BY <1>1, <1>4 DEF Ending
  <1>5. ASSUME NEW x \in I, NEW e \in Ending(f[x.end]) PROVE e \in Ending(f[p])
    <2>0. e \in Ending(more(x))
      BY <1>2
    <2>1. PICK z \in more(x) : z.end = e
      BY <2>0 DEF Ending
    <2>2. z \in f[p]
      BY <1>1
    <2> QED BY <2>1, <2>2 DEF Ending
  <1> QED BY <1>3, <1>4, <1>5 DEF f, I

\* They end after they start.
LEMMA IntervalsForward ==
  ASSUME NEW b \in Seq(0 .. 255), NEW p \in Positions(b)
  PROVE  EndAfter(b, Intervals(b)[p], p)
  <1> DEFINE n == Len(b) + 1
             f == Intervals(b)
             S == {i \in 0 .. n : \A q \in Positions(b) : q > n - i => EndAfter(b, f[q], q)}
  <1>1. n \in Nat /\ Positions(b) = 1 .. n
    BY DEF Positions
  <1> HIDE DEF n, f
  <1>2. 0 \in S
    BY <1>1
  <1>3. ASSUME NEW i \in 0 .. n - 1, i \in S PROVE i + 1 \in S
    <2>1. ASSUME NEW q \in Positions(b), q > n - (i + 1) PROVE EndAfter(b, f[q], q)
      <3>1. \A r \in Positions(b) : r > q => EndAfter(b, f[r], r)
        BY <1>1, <1>3, <2>1
      <3>2. EndAfter(b, Interval(b, q), q)
        BY IntervalFacts
      <3>3. ASSUME NEW e \in Ending(f[q]) PROVE e \in Positions(b) /\ e > q
        <4>1. CASE e \in Ending(Interval(b, q))
          BY <3>2, <4>1 DEF EndAfter, Ending
        <4>2. ASSUME NEW x \in Interval(b, q), e \in Ending(f[x.end]) PROVE e \in Positions(b) /\ e > q
          <5>1. x.end \in Positions(b) /\ x.end > q
            BY <3>2 DEF EndAfter
          <5>2. e \in Positions(b) /\ e > x.end
            BY <3>1, <4>2, <5>1 DEF EndAfter, Ending
          <5> QED BY <1>1, <5>1, <5>2
        <4> QED BY <4>1, <4>2, IntervalsEnd DEF f
      <3> QED BY <3>3 DEF EndAfter, Ending
    <2> QED BY <1>1, <2>1
  <1>4. \A i \in 0 .. n : i \in S
    <2>1. 0 \in Int /\ n \in Int
      BY <1>1
    <2> HIDE DEF S
    <2> QED BY <1>2, <1>3, <2>1, InductiveInterval
  <1>5. n \in S
    <2>1. n \in 0 .. n
      BY <1>1
    <2> QED BY <1>4, <2>1
  <1> QED BY <1>1, <1>5 DEF f

\* A phrase and the token after it end where that token ends.
LEMMA ClosedEnd ==
  ASSUME NEW b \in Seq(0 .. 255), NEW p \in Positions(b), NEW S, EndAfter(b, S, p), NEW tk, tk # TK_EOF
  PROVE  /\ EndAfter(b, Closed(b, S, tk), p)
         /\ Ending(Closed(b, S, tk)) = {Beyond(b, e) : e \in {d \in Ending(S) : TokenAt(b, d) = tk}}
  <1>1. p \in Nat
    BY DEF Positions
  <1>3. EndAfter(b, Closed(b, S, tk), p)
    BY <1>1, ClosedFacts
  <1>4. ASSUME NEW e \in Ending(Closed(b, S, tk))
        PROVE  e \in {Beyond(b, c) : c \in {d \in Ending(S) : TokenAt(b, d) = tk}}
    <2>1. PICK z \in Closed(b, S, tk) : z.end = e
      BY DEF Ending
    <2>4. PICK x \in S : TokenAt(b, x.end) = tk /\ z = Phrase(Beyond(b, x.end), x.meaning)
      BY DEF Closed
    <2>2. TokenAt(b, x.end) = tk /\ e = Beyond(b, x.end)
      BY <2>1, <2>4, PhraseFacts
    <2>3. x.end \in Ending(S)
      BY DEF Ending
    <2> QED BY <2>2, <2>3
  <1>5. ASSUME NEW c \in Ending(S), TokenAt(b, c) = tk PROVE Beyond(b, c) \in Ending(Closed(b, S, tk))
    <2>1. PICK x \in S : x.end = c
      BY DEF Ending
    <2> DEFINE z == Phrase(Beyond(b, x.end), x.meaning)
    <2>2. z \in Closed(b, S, tk)
      BY <1>5, <2>1 DEF Closed
    <2>3. z.end = Beyond(b, c)
      BY <2>1, PhraseFacts
    <2> HIDE DEF z
    <2> QED BY <2>2, <2>3 DEF Ending
  <1> QED BY <1>3, <1>4, <1>5

\* The values of F on A.
Images(F, A) == {F[x] : x \in A}

\* The ends of many phrases, from the ends of what is before each.
LEMMA UnionEnds ==
  ASSUME NEW A, NEW F, NEW H, \A x \in A : Ending(F[x]) = H[x.end]
  PROVE  Ending(UNION Images(F, A)) = UNION Images(H, Ending(A))
  <1>1. ASSUME NEW e \in Ending(UNION Images(F, A)) PROVE e \in UNION Images(H, Ending(A))
    <2>1. PICK z \in UNION Images(F, A) : z.end = e
      BY DEF Ending
    <2>2. PICK x \in A : z \in F[x]
      BY <2>1 DEF Images
    <2>3. e \in Ending(F[x])
      BY <2>1, <2>2 DEF Ending
    <2>4. x.end \in Ending(A)
      BY DEF Ending
    <2> QED BY <2>2, <2>3, <2>4 DEF Images
  <1>2. ASSUME NEW m \in Ending(A), NEW e \in H[m] PROVE e \in Ending(UNION Images(F, A))
    <2>1. PICK x \in A : x.end = m
      BY DEF Ending
    <2>2. e \in Ending(F[x])
      BY <2>1
    <2>3. PICK z \in F[x] : z.end = e
      BY <2>2 DEF Ending
    <2>4. z \in UNION Images(F, A)
      BY <2>3 DEF Images
    <2> QED BY <2>3, <2>4 DEF Ending
  <1>3. \A e \in UNION Images(H, Ending(A)) : \E m \in Ending(A) : e \in H[m]
    BY DEF Images
  <1> QED BY <1>1, <1>2, <1>3

\* The atoms that start at p, by the token there.
AtomEnds(b, f, p) ==
  LET tk   == TokenAt(b, p)
      next == Beyond(b, p)
  IN  IF IsCharacter(tk) THEN {next}
      ELSE IF tk = TK_LPAREN
      THEN {Beyond(b, e) : e \in {d \in Ending(f[next].regex) : TokenAt(b, d) = TK_RPAREN}}
      ELSE IF tk = TK_LBRACKET
      THEN {Beyond(b, e) : e \in {d \in Ending(Intervals(b)[next]) : TokenAt(b, d) = TK_RBRACKET}}
      ELSE {}

\* After p the phrases in f end later than they start.
Forward(b, f, p) ==
  \A q \in Positions(b) : q > p =>
    f[q].concat \subseteq f[q].regex /\ f[q].choice \subseteq f[q].regex /\ EndAfter(b, f[q].regex, q)

\* An atom ends where AtomEnds says, whatever it means.
LEMMA AtomsEnd ==
  ASSUME NEW b \in Seq(0 .. 255), NEW p \in Positions(b), NEW f, Forward(b, f, p)
  PROVE  Ending(Atoms(b, f, p)) = AtomEnds(b, f, p) /\ EndAfter(b, Atoms(b, f, p), p)
  <1> DEFINE tk   == TokenAt(b, p)
             next == Beyond(b, p)
  <1>1. tk # TK_EOF => next > p /\ next \in Positions(b)
    BY TokenFacts
  <1>2. /\ TK_RPAREN # TK_EOF /\ TK_RBRACKET # TK_EOF /\ TK_LPAREN # TK_EOF /\ TK_LBRACKET # TK_EOF
        /\ ~ IsCharacter(TK_EOF)
    BY DEF TK_RPAREN, TK_RBRACKET, TK_LPAREN, TK_LBRACKET, TK_EOF, IsCharacter, TK_WILDCARD
  <1>3. Atoms(b, f, p) = IF IsCharacter(tk)
                         THEN {Phrase(next, OneOf(IF tk = TK_WILDCARD THEN Dot ELSE {tk}))}
                         ELSE IF tk = TK_LPAREN
                         THEN Closed(b, f[next].regex, TK_RPAREN)
                         ELSE IF tk = TK_LBRACKET
                         THEN {Phrase(x.end, OneOf(x.meaning)) :
                                 x \in Closed(b, Intervals(b)[next], TK_RBRACKET)}
                         ELSE {}
    BY DEF Atoms
  <1>4. AtomEnds(b, f, p) =
          IF IsCharacter(tk) THEN {next}
          ELSE IF tk = TK_LPAREN
          THEN {Beyond(b, e) : e \in {d \in Ending(f[next].regex) : TokenAt(b, d) = TK_RPAREN}}
          ELSE IF tk = TK_LBRACKET
          THEN {Beyond(b, e) : e \in {d \in Ending(Intervals(b)[next]) : TokenAt(b, d) = TK_RBRACKET}}
          ELSE {}
    BY DEF AtomEnds
  <1> HIDE DEF tk, next
  <1>5. CASE IsCharacter(tk)
    <2>1. next > p /\ next \in Positions(b)
      BY <1>1, <1>2, <1>5
    <2> QED BY <1>3, <1>4, <1>5, <2>1, PhraseFacts DEF Ending, EndAfter
  <1>6. CASE ~ IsCharacter(tk) /\ tk = TK_LPAREN
    <2>1. next > p /\ next \in Positions(b)
      BY <1>1, <1>2, <1>6
    <2>2. EndAfter(b, f[next].regex, next)
      BY <2>1 DEF Forward
    <2>3. /\ Ending(Closed(b, f[next].regex, TK_RPAREN)) =
                {Beyond(b, e) : e \in {d \in Ending(f[next].regex) : TokenAt(b, d) = TK_RPAREN}}
          /\ EndAfter(b, Closed(b, f[next].regex, TK_RPAREN), next)
      BY <1>2, <2>1, <2>2, ClosedEnd
    <2>4. EndAfter(b, Closed(b, f[next].regex, TK_RPAREN), p)
      BY <2>1, <2>3 DEF EndAfter, Positions
    <2> QED BY <1>3, <1>4, <1>6, <2>3, <2>4
  <1>7. CASE ~ IsCharacter(tk) /\ tk # TK_LPAREN /\ tk = TK_LBRACKET
    <2>1. next > p /\ next \in Positions(b)
      BY <1>1, <1>2, <1>7
    <2> DEFINE S == Intervals(b)[next]
               C == Closed(b, S, TK_RBRACKET)
               M == [x \in C |-> OneOf(x.meaning)]
    <2>2. EndAfter(b, S, next)
      BY <2>1, IntervalsForward
    <2>3. /\ Ending(C) = {Beyond(b, e) : e \in {d \in Ending(S) : TokenAt(b, d) = TK_RBRACKET}}
          /\ EndAfter(b, C, next)
      <3> HIDE DEF S
      <3> QED BY <1>2, <2>1, <2>2, ClosedEnd
    <2>4. EndAfter(b, C, p)
      <3> HIDE DEF C
      <3> QED BY <2>1, <2>3 DEF EndAfter, Positions
    <2> HIDE DEF C
    <2>5. {Phrase(x.end, OneOf(x.meaning)) : x \in C} = {Phrase(x.end, M[x]) : x \in C}
      OBVIOUS
    <2> HIDE DEF M
    <2>10. Ending({Phrase(x.end, M[x]) : x \in C}) = Ending(C)
      BY ImageEnds
    <2>6. Ending({Phrase(x.end, OneOf(x.meaning)) : x \in C}) = Ending(C)
      BY <2>5, <2>10
    <2>7. EndAfter(b, {Phrase(x.end, OneOf(x.meaning)) : x \in C}, p)
      BY <2>4, PhraseFacts DEF EndAfter
    <2>8. Atoms(b, f, p) = {Phrase(x.end, OneOf(x.meaning)) : x \in C}
      BY <1>3, <1>7 DEF C
    <2>9. AtomEnds(b, f, p) = {Beyond(b, e) : e \in {d \in Ending(S) : TokenAt(b, d) = TK_RBRACKET}}
      BY <1>4, <1>7
    <2> QED BY <2>3, <2>6, <2>7, <2>8, <2>9
  <1>8. CASE ~ IsCharacter(tk) /\ tk # TK_LPAREN /\ tk # TK_LBRACKET
    BY <1>3, <1>4, <1>8 DEF Ending, EndAfter
  <1> QED BY <1>5, <1>6, <1>7, <1>8

\* The pieces that start at p.
PieceEnds(b, f, p) ==
  AtomEnds(b, f, p) \cup
  {Beyond(b, e) : e \in {d \in AtomEnds(b, f, p) : IsQuantifier(TokenAt(b, d))}}

\* The ends of two sets of phrases.
LEMMA UnionCup ==
  ASSUME NEW A, NEW B
  PROVE  Ending(A \cup B) = Ending(A) \cup Ending(B)
  BY DEF Ending

\* A piece ends where PieceEnds says.
LEMMA PiecesEnd ==
  ASSUME NEW b \in Seq(0 .. 255), NEW p \in Positions(b), NEW f, Forward(b, f, p)
  PROVE  Ending(Pieces(b, f, p)) = PieceEnds(b, f, p) /\ EndAfter(b, Pieces(b, f, p), p)
  <1> DEFINE A == Atoms(b, f, p)
             Q == {y \in A : IsQuantifier(TokenAt(b, y.end))}
             more == {Phrase(Beyond(b, x.end), Quantified(x.meaning, Quantifier(TokenAt(b, x.end))))
                      : x \in Q}
             E == AtomEnds(b, f, p)
             moreEnds == {Beyond(b, e) : e \in {d \in E : IsQuantifier(TokenAt(b, d))}}
  <1>1. Pieces(b, f, p) = A \cup more
    BY DEF Pieces, WithQuantifiers
  <1>2. Ending(A) = E /\ EndAfter(b, A, p)
    BY AtomsEnd
  <1>3. PieceEnds(b, f, p) = E \cup moreEnds
    BY DEF PieceEnds
  <1> HIDE DEF A, E
  <1>4. ASSUME NEW e \in Ending(more) PROVE e \in moreEnds
    <2>1. PICK z \in more : z.end = e
      BY DEF Ending
    <2>2. PICK x \in Q : z = Phrase(Beyond(b, x.end), Quantified(x.meaning, Quantifier(TokenAt(b, x.end))))
      BY <2>1
    <2>3. e = Beyond(b, x.end)
      BY <2>1, <2>2, PhraseFacts
    <2>4. x.end \in E /\ IsQuantifier(TokenAt(b, x.end))
      BY <1>2 DEF Ending
    <2> QED BY <2>3, <2>4
  <1>5. ASSUME NEW d \in E, IsQuantifier(TokenAt(b, d)) PROVE Beyond(b, d) \in Ending(more)
    <2>0. d \in Ending(A)
      BY <1>2
    <2>1. PICK x \in A : x.end = d
      BY <2>0 DEF Ending
    <2>2. x \in Q
      BY <1>5, <2>1
    <2> DEFINE z == Phrase(Beyond(b, x.end), Quantified(x.meaning, Quantifier(TokenAt(b, x.end))))
    <2>3. z \in more
      BY <2>2
    <2>4. z.end = Beyond(b, d)
      BY <2>1, PhraseFacts
    <2> HIDE DEF z, more
    <2> QED BY <2>3, <2>4 DEF Ending
  <1>6. Ending(more) = moreEnds
    BY <1>4, <1>5
  <1>7. Ending(Pieces(b, f, p)) = PieceEnds(b, f, p)
    <2> HIDE DEF more, moreEnds
    <2>1. Ending(A \cup more) = Ending(A) \cup Ending(more)
      BY UnionCup
    <2> QED BY <1>1, <1>2, <1>3, <1>6, <2>1
  <1>8. ASSUME NEW z \in more PROVE z.end \in Positions(b) /\ z.end > p
    <2>1. PICK x \in Q : z = Phrase(Beyond(b, x.end), Quantified(x.meaning, Quantifier(TokenAt(b, x.end))))
      OBVIOUS
    <2> DEFINE e == x.end
    <2>2. e \in Positions(b) /\ e > p
      BY <1>2 DEF EndAfter
    <2>3. z.end = Beyond(b, e)
      BY <2>1, PhraseFacts
    <2> HIDE DEF e
    <2>4. Beyond(b, e) \in Positions(b) /\ Beyond(b, e) >= e
      BY <2>2, TokenFacts
    <2> QED BY <2>2, <2>3, <2>4 DEF Positions
  <1>9. EndAfter(b, Pieces(b, f, p), p)
    <2> HIDE DEF more
    <2> QED BY <1>1, <1>2, <1>8 DEF EndAfter
  <1> QED BY <1>7, <1>9

\* What may follow each phrase of A.
MoreConcat(f, A) ==
  [x \in A |-> {Phrase(y.end, Concatenation(x.meaning, y.meaning)) : y \in f[x.end].concat}]
MorePattern(f, A) ==
  [x \in A |-> {Phrase(y.end, Concatenation(x.meaning, y.meaning)) : y \in f[x.end].pattern}]
MoreChoice(f, A) == [x \in A |-> {Phrase(y.end, x.meaning \cup y.meaning) : y \in f[x.end].choice}]

\* The phrases r that start at p, by the pieces P that start there.
Parts(b, p, f, P, r) ==
  LET C == Closed(b, r.concat, TK_PIPE)
  IN  /\ r = [pattern |-> r.pattern, concat |-> r.concat, choice |-> r.choice, regex |-> r.regex]
      /\ r.pattern = IF ~ IsCharacter(TokenAt(b, p)) THEN {}
                     ELSE P \cup UNION Images(MorePattern(f, P), P)
      /\ r.concat = P \cup UNION Images(MoreConcat(f, P), P)
      /\ r.choice = r.concat \cup UNION Images(MoreChoice(f, C), C)
      /\ r.regex = r.concat \cup r.choice

\* The phrases of the grammar are those.
LEMMA PhrasesAtParts ==
  ASSUME NEW b, NEW f, NEW p
  PROVE  Parts(b, p, f, Pieces(b, f, p), PhrasesAt(b, FALSE, f, p))
  <1> DEFINE r == PhrasesAt(b, FALSE, f, p)
             P == Pieces(b, f, p)
             pattern == IF IsCharacter(TokenAt(b, p)) THEN Patterns(f, P) ELSE {}
             concat == Concats(f, P)
             C == Closed(b, r.concat, TK_PIPE)
  <1>0. r = Kinds(pattern, concat, Alternations(b, f, concat))
    <2> HIDE DEF P
    <2>1. r = WithChoices(b, FALSE, f, P, pattern, concat)
      BY DEF PhrasesAt, P
    <2> QED BY <2>1, Zenon DEF WithChoices
  <1> HIDE DEF r, P, pattern, concat
  <1>1. /\ r = [pattern |-> r.pattern, concat |-> r.concat, choice |-> r.choice, regex |-> r.regex]
        /\ r.pattern = pattern /\ r.concat = concat
        /\ r.choice = Alternations(b, f, concat) /\ r.regex = r.concat \cup r.choice
    BY <1>0 DEF Kinds
  <1>2. r.pattern = IF ~ IsCharacter(TokenAt(b, p)) THEN {}
                    ELSE P \cup UNION {{Phrase(y.end, Concatenation(x.meaning, y.meaning))
                                        : y \in f[x.end].pattern} : x \in P}
    BY <1>1 DEF pattern, Patterns
  <1>3. r.concat = P \cup UNION {{Phrase(y.end, Concatenation(x.meaning, y.meaning))
                                  : y \in f[x.end].concat} : x \in P}
    BY <1>1 DEF concat, Concats
  <1>4. /\ r.choice = r.concat \cup UNION {{Phrase(y.end, x.meaning \cup y.meaning)
                                            : y \in f[x.end].choice} : x \in C}
        /\ r.regex = r.concat \cup r.choice
    BY <1>1 DEF Alternations
  <1> HIDE DEF C
  <1>5. Images(MorePattern(f, P), P) =
          {{Phrase(y.end, Concatenation(x.meaning, y.meaning)) : y \in f[x.end].pattern} : x \in P}
    BY DEF Images, MorePattern
  <1>6. Images(MoreConcat(f, P), P) =
          {{Phrase(y.end, Concatenation(x.meaning, y.meaning)) : y \in f[x.end].concat} : x \in P}
    BY DEF Images, MoreConcat
  <1>7. Images(MoreChoice(f, C), C) =
          {{Phrase(y.end, x.meaning \cup y.meaning) : y \in f[x.end].choice} : x \in C}
    BY DEF Images, MoreChoice
  <1>8. r.pattern = IF ~ IsCharacter(TokenAt(b, p)) THEN {} ELSE P \cup UNION Images(MorePattern(f, P), P)
    BY <1>2, <1>5
  <1>9. r.concat = P \cup UNION Images(MoreConcat(f, P), P)
    BY <1>3, <1>6
  <1>10. r.choice = r.concat \cup UNION Images(MoreChoice(f, C), C) /\ r.regex = r.concat \cup r.choice
    BY <1>4, <1>7
  <1> QED BY <1>1, <1>8, <1>9, <1>10 DEF r, P, C, Parts

\* The phrases r that start at p, by the ends of those in f that start later.
EndsOf(b, f, p, r) ==
  LET P == PieceEnds(b, f, p)
  IN  /\ r.regex = r.concat \cup r.choice /\ r.concat \subseteq r.choice
      /\ Ending(r.concat) = P \cup UNION {Ending(f[m].concat) : m \in P}
      /\ Ending(r.choice) = Ending(r.concat) \cup
           UNION {Ending(f[m].choice) :
                  m \in {Beyond(b, e) : e \in {d \in Ending(r.concat) : TokenAt(b, d) = TK_PIPE}}}
      /\ EndAfter(b, r.regex, p)

\* The phrases of the grammar are such.
LEMMA PhrasesAtEnd ==
  ASSUME NEW b \in Seq(0 .. 255), NEW p \in Positions(b), NEW f, Forward(b, f, p)
  PROVE  EndsOf(b, f, p, PhrasesAt(b, FALSE, f, p))
  <1> DEFINE r == PhrasesAt(b, FALSE, f, p)
             P == Pieces(b, f, p)
             F == MoreConcat(f, P)
             H == [m \in Positions(b) |-> Ending(f[m].concat)]
             C == Closed(b, r.concat, TK_PIPE)
             G == MoreChoice(f, C)
             K == [m \in Positions(b) |-> Ending(f[m].choice)]
  <1>1. /\ r.regex = r.concat \cup r.choice
        /\ r.concat = P \cup UNION Images(F, P)
        /\ r.choice = r.concat \cup UNION Images(G, C)
    <2> HIDE DEF r, P
    <2>1. Parts(b, p, f, P, r)
      BY PhrasesAtParts DEF r, P
    <2> QED BY <2>1 DEF Parts
  <1> HIDE DEF r
  <1>2. Ending(P) = PieceEnds(b, f, p) /\ EndAfter(b, P, p)
    BY PiecesEnd
  <1> HIDE DEF P
  <1>3. ASSUME NEW x \in P PROVE Ending(F[x]) = H[x.end]
    <2> DEFINE T == f[x.end].concat
               M == [y \in T |-> Concatenation(x.meaning, y.meaning)]
    <2>1. F[x] = {Phrase(y.end, M[y]) : y \in T}
      BY DEF MoreConcat
    <2>2. H[x.end] = Ending(T)
      BY <1>2 DEF EndAfter
    <2> HIDE DEF F, H, M, T
    <2> QED BY <2>1, <2>2, ImageEnds
  <1>4. Ending(r.concat) = Ending(P) \cup UNION {H[m] : m \in Ending(P)}
    <2> DEFINE more == UNION Images(F, P)
    <2>1. UNION {H[m] : m \in Ending(P)} = UNION Images(H, Ending(P))
      BY DEF Images
    <2> HIDE DEF F, H
    <2>2. Ending(more) = UNION Images(H, Ending(P))
      BY <1>3, UnionEnds
    <2> HIDE DEF more
    <2>3. Ending(P \cup more) = Ending(P) \cup Ending(more)
      BY UnionCup
    <2> QED BY <1>1, <2>1, <2>2, <2>3 DEF more
  <1>5. EndAfter(b, r.concat, p)
    <2>1. ASSUME NEW m \in Ending(P), NEW e \in H[m] PROVE e \in Positions(b) /\ e > p
      <3>1. m \in Positions(b) /\ m > p
        BY <1>2 DEF Ending, EndAfter
      <3>2. e \in Ending(f[m].concat)
        BY <3>1
      <3>3. e \in Positions(b) /\ e > m
        BY <3>1, <3>2 DEF Forward, EndAfter, Ending
      <3> QED BY <3>1, <3>3 DEF Positions
    <2>2. ASSUME NEW x \in r.concat PROVE x.end \in Positions(b) /\ x.end > p
      <3>1. x.end \in Ending(r.concat)
        BY DEF Ending
      <3>2. x.end \in Ending(P) => x.end \in Positions(b) /\ x.end > p
        BY <1>2 DEF Ending, EndAfter
      <3> HIDE DEF H
      <3> QED BY <1>4, <2>1, <3>1, <3>2
    <2> QED BY <2>2 DEF EndAfter
  <1>6. /\ EndAfter(b, C, p)
        /\ Ending(C) = {Beyond(b, e) : e \in {d \in Ending(r.concat) : TokenAt(b, d) = TK_PIPE}}
    <2>1. TK_PIPE # TK_EOF
      BY DEF TK_PIPE, TK_EOF
    <2> QED BY <1>5, <2>1, ClosedEnd
  <1> HIDE DEF C
  <1>7. ASSUME NEW x \in C PROVE Ending(G[x]) = K[x.end]
    <2> DEFINE T == f[x.end].choice
               M == [y \in T |-> x.meaning \cup y.meaning]
    <2>1. G[x] = {Phrase(y.end, M[y]) : y \in T}
      BY DEF MoreChoice
    <2>2. K[x.end] = Ending(T)
      BY <1>6 DEF EndAfter
    <2> HIDE DEF G, K, M, T
    <2> QED BY <2>1, <2>2, ImageEnds
  <1>8. Ending(r.choice) = Ending(r.concat) \cup UNION {K[m] : m \in Ending(C)}
    <2> DEFINE more == UNION Images(G, C)
    <2>1. UNION {K[m] : m \in Ending(C)} = UNION Images(K, Ending(C))
      BY DEF Images
    <2> HIDE DEF G, K
    <2>2. Ending(more) = UNION Images(K, Ending(C))
      BY <1>7, UnionEnds
    <2> HIDE DEF more
    <2>3. Ending(r.concat \cup more) = Ending(r.concat) \cup Ending(more)
      BY UnionCup
    <2> QED BY <1>1, <2>1, <2>2, <2>3 DEF more
  <1>9. EndAfter(b, r.regex, p)
    <2>1. ASSUME NEW m \in Ending(C), NEW e \in K[m] PROVE e \in Positions(b) /\ e > p
      <3>1. m \in Positions(b) /\ m > p
        BY <1>6 DEF Ending, EndAfter
      <3>2. e \in Ending(f[m].choice)
        BY <3>1
      <3>3. e \in Positions(b) /\ e > m
        BY <3>1, <3>2 DEF Forward, EndAfter, Ending
      <3> QED BY <3>1, <3>3 DEF Positions
    <2>2. ASSUME NEW x \in r.choice PROVE x.end \in Positions(b) /\ x.end > p
      <3>1. x.end \in Ending(r.choice)
        BY DEF Ending
      <3>2. x.end \in Ending(r.concat) => x.end \in Positions(b) /\ x.end > p
        BY <1>5 DEF Ending, EndAfter
      <3> HIDE DEF K
      <3> QED BY <1>8, <2>1, <3>1, <3>2
    <2> QED BY <1>1, <1>5, <2>2 DEF EndAfter
  <1>10. UNION {H[m] : m \in Ending(P)} = UNION {Ending(f[m].concat) : m \in Ending(P)}
    <2>1. \A m \in Ending(P) : H[m] = Ending(f[m].concat)
      BY <1>2 DEF EndAfter, Ending
    <2> HIDE DEF H
    <2> QED BY <2>1
  <1>11. UNION {K[m] : m \in Ending(C)} = UNION {Ending(f[m].choice) : m \in Ending(C)}
    <2>1. \A m \in Ending(C) : K[m] = Ending(f[m].choice)
      BY <1>6 DEF EndAfter, Ending
    <2> HIDE DEF K
    <2> QED BY <2>1
  <1> HIDE DEF F, G, H, K
  <1> QED BY <1>1, <1>2, <1>4, <1>6, <1>8, <1>9, <1>10, <1>11 DEF r, EndsOf

\* The phrases from p on depend on what comes after p only.
LEMMA PhrasesLater ==
  ASSUME NEW b \in Seq(0 .. 255), NEW p \in Positions(b), NEW f, NEW g, Forward(b, f, p),
         \A q \in Positions(b) : q > p => f[q] = g[q]
  PROVE  PhrasesAt(b, FALSE, f, p) = PhrasesAt(b, FALSE, g, p)
  <1> DEFINE P == Pieces(b, f, p)
             r == PhrasesAt(b, FALSE, f, p)
             u == PhrasesAt(b, FALSE, g, p)
             C == Closed(b, r.concat, TK_PIPE)
  <1>1. Atoms(b, f, p) = Atoms(b, g, p)
    <2>1. TokenAt(b, p) # TK_EOF => Beyond(b, p) \in Positions(b) /\ Beyond(b, p) > p
      BY TokenFacts
    <2>2. TokenAt(b, p) = TK_LPAREN => f[Beyond(b, p)] = g[Beyond(b, p)]
      BY <2>1 DEF TK_LPAREN, TK_EOF
    <2> QED BY <2>2 DEF Atoms
  <1>2. Pieces(b, g, p) = P
    BY <1>1 DEF Pieces
  <1>3. \A x \in P : f[x.end] = g[x.end]
    BY PiecesEnd DEF EndAfter
  <1>4. EndAfter(b, C, p)
    <2>1. EndAfter(b, r.regex, p) /\ r.regex = r.concat \cup r.choice
      <3> HIDE DEF r
      <3>1. EndsOf(b, f, p, r)
        BY PhrasesAtEnd DEF r
      <3> QED BY <3>1 DEF EndsOf
    <2> HIDE DEF r
    <2>2. EndAfter(b, r.concat, p) /\ TK_PIPE # TK_EOF
      BY <2>1 DEF EndAfter, TK_PIPE, TK_EOF
    <2> QED BY <2>2, ClosedEnd
  <1>5. Parts(b, p, f, P, r)
    BY PhrasesAtParts
  <1>6. Parts(b, p, g, P, u)
    BY <1>2, PhrasesAtParts
  <1> HIDE DEF P, r, u
  <1>7. MorePattern(f, P) = MorePattern(g, P) /\ MoreConcat(f, P) = MoreConcat(g, P)
    BY <1>3 DEF MorePattern, MoreConcat
  <1>8. u.pattern = r.pattern /\ u.concat = r.concat
    BY <1>5, <1>6, <1>7 DEF Parts
  <1>9. MoreChoice(f, C) = MoreChoice(g, C)
    <2> HIDE DEF C
    <2> QED BY <1>4 DEF EndAfter, MoreChoice
  <1>10. u.choice = r.choice
    BY <1>5, <1>6, <1>8, <1>9 DEF Parts
  <1> QED BY <1>5, <1>6, <1>8, <1>10 DEF r, u, Parts

\* What the phrases of the grammar satisfy.
FindsPhrases(b, f) == f = [p \in Positions(b) |-> PhrasesAt(b, FALSE, f, p)]

\* A function that satisfies this is built from the end of the buffer backwards.
LEMMA PhrasesExist ==
  ASSUME NEW b \in Seq(0 .. 255)
  PROVE  \E f : FindsPhrases(b, f)
  <1> DEFINE n == Len(b) + 1
             From(k) == {p \in Positions(b) : p > k}
             Found(k, f) == f = [p \in From(k) |-> PhrasesAt(b, FALSE, f, p)] /\ Forward(b, f, k)
             S == {i \in 0 .. n : \E f : Found(n - i, f)}
  <1>1. n \in Nat /\ Positions(b) = 1 .. n
    BY DEF Positions
  <1> HIDE DEF n
  <1>2. 0 \in S
    <2>1. From(n - 0) = {} /\ n - 0 = n
      BY <1>1
    <2> DEFINE none == [p \in {} |-> {}]
    <2>2. none = [p \in {} |-> PhrasesAt(b, FALSE, none, p)]
      OBVIOUS
    <2>3. Forward(b, none, n)
      BY <1>1 DEF Forward
    <2>4. Found(n - 0, none)
      BY <2>1, <2>2, <2>3
    <2> HIDE DEF Found, none
    <2> QED BY <1>1, <2>4
  <1>3. ASSUME NEW i \in 0 .. n - 1, i \in S PROVE i + 1 \in S
    <2> DEFINE k == n - (i + 1)
               q == n - i
    <2>1. PICK f : Found(q, f)
      BY <1>3
    <2> DEFINE g == [p \in From(k) |-> IF p = q THEN PhrasesAt(b, FALSE, f, q) ELSE f[p]]
    <2>2. From(k) = From(q) \cup {q} /\ q \in Positions(b) /\ q \notin From(q)
      BY <1>1
    <2> HIDE DEF k, q
    <2>3. \A p \in From(q) : f[p] = PhrasesAt(b, FALSE, f, p)
      BY <2>1
    <2>4. \A p \in From(q) : g[p] = f[p]
      BY <2>2
    <2>5. ASSUME NEW p \in From(k) PROVE g[p] = PhrasesAt(b, FALSE, g, p)
      <3>1. p \in Positions(b) /\ p >= q
        BY <2>2 DEF Positions
      <3>0. q \in Nat /\ \A r \in Positions(b) : r > p => r > q
        BY <2>2, <3>1 DEF Positions
      <3>2. \A r \in Positions(b) : r > p => f[r] = g[r]
        BY <2>4, <3>0
      <3>3. Forward(b, f, p)
        <4>1. Forward(b, f, q)
          BY <2>1
        <4> QED BY <3>0, <4>1 DEF Forward
      <3>4. PhrasesAt(b, FALSE, f, p) = PhrasesAt(b, FALSE, g, p)
        <4> HIDE DEF g
        <4> QED BY <3>1, <3>2, <3>3, PhrasesLater
      <3>5. g[p] = PhrasesAt(b, FALSE, f, p)
        BY <2>2, <2>3, <2>4
      <3> QED BY <3>4, <3>5
    <2>6. g = [p \in From(k) |-> PhrasesAt(b, FALSE, g, p)]
      <3>1. g = [p \in From(k) |-> g[p]]
        OBVIOUS
      <3> HIDE DEF g
      <3> QED BY <2>5, <3>1
    <2>7. Forward(b, g, k)
      <3>1. ASSUME NEW p \in Positions(b), p > k
            PROVE  g[p].concat \subseteq g[p].regex /\ g[p].choice \subseteq g[p].regex /\ EndAfter(b, g[p].regex, p)
        <4>1. p \in From(k)
          BY <3>1
        <4>2. CASE p = q
          <5>1. Forward(b, f, q)
            BY <2>1
          <5>2. g[p] = PhrasesAt(b, FALSE, f, q)
            BY <4>1, <4>2
          <5> DEFINE r == PhrasesAt(b, FALSE, f, q)
          <5>4. EndsOf(b, f, q, r)
            BY <2>2, <5>1, PhrasesAtEnd
          <5> HIDE DEF r
          <5>3. r.regex = r.concat \cup r.choice /\ EndAfter(b, r.regex, q)
            BY <5>4 DEF EndsOf
          <5> QED BY <4>2, <5>2, <5>3 DEF r
        <4>3. CASE p # q
          <5>1. p \in From(q) /\ p > q
            BY <2>2, <4>1, <4>3
          <5> QED BY <2>1, <2>4, <5>1 DEF Forward
        <4> QED BY <4>2, <4>3
      <3> HIDE DEF g
      <3> QED BY <3>1 DEF Forward
    <2>8. i + 1 \in 0 .. n
      BY <1>1
    <2>9. Found(k, g)
      <3> HIDE DEF g
      <3> QED BY <2>6, <2>7
    <2> HIDE DEF Found, g
    <2> QED BY <2>8, <2>9 DEF k
  <1>4. n \in S
    <2>1. \A i \in 0 .. n : i \in S
      <3>1. 0 \in Int /\ n \in Int
        BY <1>1
      <3> HIDE DEF S
      <3> QED BY <1>2, <1>3, <3>1, InductiveInterval
    <2>2. n \in 0 .. n
      BY <1>1
    <2> QED BY <2>1, <2>2
  <1>5. PICK f : Found(n - n, f)
    BY <1>4
  <1>6. From(n - n) = Positions(b)
    BY <1>1
  <1> QED BY <1>5, <1>6 DEF FindsPhrases

\* So the grammar defines one.
LEMMA PhrasesFound ==
  ASSUME NEW b \in Seq(0 .. 255), NEW p \in Positions(b)
  PROVE  Phrases(b, FALSE)[p] = PhrasesAt(b, FALSE, Phrases(b, FALSE), p)
  <1> DEFINE f == CHOOSE f : FindsPhrases(b, f)
  <1>1. Phrases(b, FALSE) = f
    BY DEF Phrases, FindsPhrases
  <1>2. FindsPhrases(b, f)
    BY PhrasesExist
  <1> HIDE DEF f
  <1>3. f[p] = PhrasesAt(b, FALSE, f, p)
    BY <1>2 DEF FindsPhrases
  <1> QED BY <1>1, <1>3

\* Every phrase ends after it starts.
LEMMA PhrasesForward ==
  ASSUME NEW b \in Seq(0 .. 255), NEW p \in Positions(b)
  PROVE  Forward(b, Phrases(b, FALSE), p)
  <1> DEFINE n == Len(b) + 1
             f == Phrases(b, FALSE)
             S == {i \in 0 .. n : Forward(b, f, n - i)}
  <1>1. n \in Nat /\ Positions(b) = 1 .. n
    BY DEF Positions
  <1> HIDE DEF n, f
  <1>2. 0 \in S
    <2>1. Forward(b, f, n - 0)
      BY <1>1 DEF Forward
    <2> QED BY <1>1, <2>1
  <1>3. ASSUME NEW i \in 0 .. n - 1, i \in S PROVE i + 1 \in S
    <2>1. Forward(b, f, n - i)
      BY <1>3
    <2>2. n - i \in Positions(b) /\ \A q \in Positions(b) : q > n - (i + 1) => q = n - i \/ q > n - i
      BY <1>1
    <2> DEFINE m == n - i
               r == PhrasesAt(b, FALSE, f, m)
    <2>3. r.regex = r.concat \cup r.choice /\ EndAfter(b, r.regex, m)
      <3>1. EndsOf(b, f, m, r)
        <4> HIDE DEF m
        <4> QED BY <2>1, <2>2, PhrasesAtEnd DEF m
      <3> HIDE DEF m, r
      <3> QED BY <3>1 DEF EndsOf
    <2>4. f[m] = r
      <3> HIDE DEF m
      <3> QED BY <2>2, PhrasesFound DEF m, f
    <2> HIDE DEF r, m
    <2>5. Forward(b, f, n - (i + 1))
      BY <2>1, <2>2, <2>3, <2>4 DEF Forward, m
    <2>6. i + 1 \in 0 .. n
      BY <1>1
    <2> QED BY <2>5, <2>6
  <1>4. n \in S
    <2>1. \A i \in 0 .. n : i \in S
      <3>1. 0 \in Int /\ n \in Int
        BY <1>1
      <3> HIDE DEF S
      <3> QED BY <1>2, <1>3, <3>1, InductiveInterval
    <2>2. n \in 0 .. n
      BY <1>1
    <2> QED BY <2>1, <2>2
  <1>5. Forward(b, f, 0)
    BY <1>1, <1>4
  <1>6. \A q \in Positions(b) : q > p => q > 0
    BY <1>1
  <1> QED BY <1>5, <1>6 DEF Forward, f

\* Where the regular expressions that start at p end, and what is in brackets.
RegexEnds(b, p) == Ending(Phrases(b, FALSE)[p].regex)
BracketEnds(b, p) == Ending(Intervals(b)[p])

\* Where a regular expression may end that has a piece, or an atom, before p.
AfterPiece(b, p) ==
  {p} \cup RegexEnds(b, p) \cup
  (IF TokenAt(b, p) = TK_PIPE THEN RegexEnds(b, Beyond(b, p)) ELSE {})

AfterAtom(b, p) ==
  AfterPiece(b, p) \cup (IF IsQuantifier(TokenAt(b, p)) THEN AfterPiece(b, Beyond(b, p)) ELSE {})

\* A regular expression is a piece, and what may come after a piece.
LEMMA PieceFirst ==
  ASSUME NEW b \in Seq(0 .. 255), NEW p \in Positions(b), NEW e
  PROVE  e \in RegexEnds(b, p) <=>
           \E m \in PieceEnds(b, Phrases(b, FALSE), p) : e \in AfterPiece(b, m)
  <1> DEFINE f == Phrases(b, FALSE)
             P == PieceEnds(b, f, p)
             concat(q) == Ending(f[q].concat)
             choice(q) == Ending(f[q].choice)
  <1>1. ASSUME NEW q \in Positions(b)
        PROVE  /\ RegexEnds(b, q) = choice(q)
               /\ concat(q) = PieceEnds(b, f, q) \cup UNION {Ending(f[m].concat) : m \in PieceEnds(b, f, q)}
               /\ choice(q) = concat(q) \cup
                    UNION {Ending(f[m].choice) :
                           m \in {Beyond(b, d) : d \in {c \in concat(q) : TokenAt(b, c) = TK_PIPE}}}
    <2>1. Forward(b, f, q) /\ f[q] = PhrasesAt(b, FALSE, f, q)
      BY PhrasesForward, PhrasesFound
    <2> HIDE DEF f
    <2> DEFINE r == f[q]
    <2>2. /\ r.regex = r.concat \cup r.choice /\ r.concat \subseteq r.choice
          /\ Ending(r.concat) = PieceEnds(b, f, q) \cup UNION {Ending(f[m].concat) : m \in PieceEnds(b, f, q)}
          /\ Ending(r.choice) = Ending(r.concat) \cup
                  UNION {Ending(f[m].choice) :
                         m \in {Beyond(b, d) : d \in {c \in Ending(r.concat) : TokenAt(b, c) = TK_PIPE}}}
      <3>1. EndsOf(b, f, q, r)
        BY <2>1, PhrasesAtEnd
      <3> QED BY <3>1 DEF EndsOf
    <2>3. r.regex = r.choice
      BY <2>2
    <2> QED BY <2>2, <2>3 DEF RegexEnds, f
  <1> HIDE DEF f
  <1>2. \A q \in Positions(b) : \A x : x \in concat(q) <=>
           x \in PieceEnds(b, f, q) \/ \E m \in PieceEnds(b, f, q) : x \in concat(m)
    BY <1>1
  <1>3. \A q \in Positions(b) : \A x : x \in choice(q) <=>
           x \in concat(q) \/ \E d \in concat(q) : TokenAt(b, d) = TK_PIPE /\ x \in choice(Beyond(b, d))
    BY <1>1
  <1>4. \A m \in P : m \in Positions(b)
    <2>1. Forward(b, f, p)
      BY PhrasesForward DEF f
    <2> QED BY <2>1, PiecesEnd DEF EndAfter, Ending
  <1>5. \A m \in Positions(b) : e \in AfterPiece(b, m) <=>
           e = m \/ e \in choice(m) \/ (TokenAt(b, m) = TK_PIPE /\ e \in choice(Beyond(b, m)))
    BY <1>1, TokenFacts DEF AfterPiece
  <1> HIDE DEF concat, choice, P
  <1>6. RegexEnds(b, p) = choice(p)
    BY <1>1
  <1>7. ASSUME e \in choice(p) PROVE \E m \in P : e \in AfterPiece(b, m)
    <2>1. CASE e \in concat(p)
      BY <1>2, <1>3, <1>4, <1>5, <2>1 DEF P
    <2>2. ASSUME NEW d \in concat(p), TokenAt(b, d) = TK_PIPE, e \in choice(Beyond(b, d))
          PROVE  \E m \in P : e \in AfterPiece(b, m)
      <3>1. CASE d \in P
        BY <1>4, <1>5, <2>2, <3>1
      <3>2. ASSUME NEW m \in P, d \in concat(m) PROVE e \in AfterPiece(b, m)
        <4>1. e \in choice(m)
          BY <1>3, <1>4, <2>2, <3>2
        <4> QED BY <1>4, <1>5, <4>1
      <3> QED BY <1>2, <3>1, <3>2 DEF P
    <2> QED BY <1>3, <1>7, <2>1, <2>2
  <1>8. ASSUME NEW m \in P, e \in AfterPiece(b, m) PROVE e \in choice(p)
    <2>1. m \in concat(p)
      BY <1>2 DEF P
    <2>2. CASE e = m
      BY <1>3, <2>1, <2>2
    <2>3. CASE e \in choice(m)
      <3>1. CASE e \in concat(m)
        BY <1>2, <1>3, <3>1 DEF P
      <3>2. ASSUME NEW d \in concat(m), TokenAt(b, d) = TK_PIPE, e \in choice(Beyond(b, d))
            PROVE  e \in choice(p)
        <4>1. d \in concat(p)
          BY <1>2, <3>2 DEF P
        <4> QED BY <1>3, <3>2, <4>1
      <3> QED BY <1>3, <1>4, <2>3, <3>1, <3>2
    <2>4. CASE TokenAt(b, m) = TK_PIPE /\ e \in choice(Beyond(b, m))
      BY <1>3, <2>1, <2>4
    <2> QED BY <1>4, <1>5, <1>8, <2>2, <2>3, <2>4
  <1> QED BY <1>6, <1>7, <1>8 DEF P, f

\* Tokens that a regular expression starts with.
Starts(tk) == IsCharacter(tk) \/ tk = TK_LPAREN \/ tk = TK_LBRACKET

\* Regular expressions and what is in brackets end at a position of the buffer.
LEMMA RegexForward ==
  ASSUME NEW b \in Seq(0 .. 255), NEW p \in Positions(b)
  PROVE  RegexEnds(b, p) \subseteq Positions(b) /\ BracketEnds(b, p) \subseteq Positions(b)
  <1> DEFINE f == Phrases(b, FALSE)
             r == PhrasesAt(b, FALSE, f, p)
  <1>1. Forward(b, f, p) /\ f[p] = r
    BY PhrasesForward, PhrasesFound
  <1>2. EndsOf(b, f, p, r)
    <2> HIDE DEF f
    <2> QED BY <1>1, PhrasesAtEnd
  <1>3. EndAfter(b, f[p].regex, p)
    <2> HIDE DEF f, r
    <2> QED BY <1>1, <1>2 DEF EndsOf
  <1>4. EndAfter(b, Intervals(b)[p], p)
    BY IntervalsForward
  <1> HIDE DEF f
  <1> QED BY <1>3, <1>4 DEF RegexEnds, BracketEnds, EndAfter, Ending, f

\* A regular expression is an atom, and what may come after an atom.
LEMMA AtomFirst ==
  ASSUME NEW b \in Seq(0 .. 255), NEW p \in Positions(b), NEW e
  PROVE  e \in RegexEnds(b, p) <=>
           \E a \in AtomEnds(b, Phrases(b, FALSE), p) : e \in AfterAtom(b, a)
  <1> DEFINE A == AtomEnds(b, Phrases(b, FALSE), p)
  <1>1. e \in RegexEnds(b, p) <=>
           \E m \in PieceEnds(b, Phrases(b, FALSE), p) : e \in AfterPiece(b, m)
    BY PieceFirst
  <1>2. PieceEnds(b, Phrases(b, FALSE), p) =
          A \cup {Beyond(b, d) : d \in {c \in A : IsQuantifier(TokenAt(b, c))}}
    BY DEF PieceEnds
  <1> HIDE DEF A
  <1> QED BY <1>1, <1>2 DEF AfterAtom, A

\* Where a regular expression may end after a phrase of S and the token close.
AfterClosed(b, S, close) ==
  {e \in Positions(b) : \E d \in S : TokenAt(b, d) = close /\ e \in AfterAtom(b, Beyond(b, d))}

\* The regular expressions from p on, by the token there.
LEMMA RegexByToken ==
  ASSUME NEW b \in Seq(0 .. 255), NEW p \in Positions(b), NEW next, next = Beyond(b, p), NEW e
  PROVE  /\ ~ Starts(TokenAt(b, p)) => e \notin RegexEnds(b, p)
         /\ IsCharacter(TokenAt(b, p)) => (e \in RegexEnds(b, p) <=> e \in AfterAtom(b, next))
         /\ TokenAt(b, p) = TK_LPAREN =>
              (e \in RegexEnds(b, p) <=> e \in AfterClosed(b, RegexEnds(b, next), TK_RPAREN))
         /\ TokenAt(b, p) = TK_LBRACKET =>
              (e \in RegexEnds(b, p) <=> e \in AfterClosed(b, BracketEnds(b, next), TK_RBRACKET))
  <1> DEFINE tk == TokenAt(b, p)
             A == AtomEnds(b, Phrases(b, FALSE), p)
  <1>1. e \in RegexEnds(b, p) <=> \E a \in A : e \in AfterAtom(b, a)
    BY AtomFirst
  <1>2. A = IF IsCharacter(tk) THEN {next}
            ELSE IF tk = TK_LPAREN
            THEN {Beyond(b, d) : d \in {c \in RegexEnds(b, next) : TokenAt(b, c) = TK_RPAREN}}
            ELSE IF tk = TK_LBRACKET
            THEN {Beyond(b, d) : d \in {c \in BracketEnds(b, next) : TokenAt(b, c) = TK_RBRACKET}}
            ELSE {}
    BY DEF AtomEnds, RegexEnds, BracketEnds
  <1>3. ~ IsCharacter(TK_LPAREN) /\ ~ IsCharacter(TK_LBRACKET) /\ TK_LPAREN # TK_LBRACKET
    BY DEF IsCharacter, TK_LPAREN, TK_LBRACKET, TK_WILDCARD
  <1> HIDE DEF tk, A
  <1>4. CASE ~ Starts(tk)
    BY <1>1, <1>2, <1>3, <1>4 DEF Starts, tk
  <1>5. CASE IsCharacter(tk)
    BY <1>1, <1>2, <1>3, <1>5 DEF Starts, tk
  <1>6. CASE tk = TK_LPAREN
    <2>1. A = {Beyond(b, d) : d \in {c \in RegexEnds(b, next) : TokenAt(b, c) = TK_RPAREN}}
      BY <1>2, <1>3, <1>6
    <2>2. e \in RegexEnds(b, p) => e \in Positions(b)
      BY RegexForward
    <2> QED BY <1>1, <1>3, <1>6, <2>1, <2>2 DEF Starts, tk, AfterClosed
  <1>7. CASE tk = TK_LBRACKET
    <2>1. A = {Beyond(b, d) : d \in {c \in BracketEnds(b, next) : TokenAt(b, c) = TK_RBRACKET}}
      BY <1>2, <1>3, <1>7
    <2>2. e \in RegexEnds(b, p) => e \in Positions(b)
      BY RegexForward
    <2> QED BY <1>1, <1>3, <1>7, <2>1, <2>2 DEF Starts, tk, AfterClosed
  <1> QED BY <1>4, <1>5, <1>6, <1>7 DEF Starts

\* Where a regular expression may end of which p is between brackets, after a
\* character or range there.
InBrackets(b, p) ==
  {e \in Positions(b) : \E d \in {p} \cup BracketEnds(b, p) :
     TokenAt(b, d) = TK_RBRACKET /\ e \in AfterAtom(b, Beyond(b, d))}

\* What may be between brackets from p on, by the token there.
LEMMA BracketsByToken ==
  ASSUME NEW b \in Seq(0 .. 255), NEW p \in Positions(b)
  PROVE  BracketEnds(b, p) =
           IF TokenAt(b, p) > Tilde THEN {}
           ELSE IF TokenAt(b, Beyond(b, p)) # Dash THEN {Beyond(b, p)} \cup BracketEnds(b, Beyond(b, p))
           ELSE IF TokenAt(b, LastOf(b, p)) \in TokenAt(b, p) .. Tilde
           THEN {Beyond(b, LastOf(b, p))} \cup BracketEnds(b, Beyond(b, LastOf(b, p)))
           ELSE {}
  <1> DEFINE I == Interval(b, p)
  <1>1. BracketEnds(b, p) = Ending(I) \cup UNION {BracketEnds(b, x.end) : x \in I}
    BY IntervalsEnd DEF BracketEnds
  <1>2. \A x, y \in I : x = y
    BY IntervalFacts
  <1>3. IF TokenAt(b, p) > Tilde THEN I = {}
        ELSE IF TokenAt(b, Beyond(b, p)) # Dash THEN \E x \in I : x.end = Beyond(b, p)
        ELSE IF TokenAt(b, LastOf(b, p)) \in TokenAt(b, p) .. Tilde
        THEN \E x \in I : x.end = Beyond(b, LastOf(b, p))
        ELSE I = {}
    BY IntervalFacts
  <1> HIDE DEF I
  <1>4. ASSUME NEW x \in I PROVE BracketEnds(b, p) = {x.end} \cup BracketEnds(b, x.end)
    <2>1. I = {x}
      BY <1>2
    <2> QED BY <1>1, <2>1 DEF Ending
  <1>5. I = {} => BracketEnds(b, p) = {}
    BY <1>1 DEF Ending
  <1> QED BY <1>3, <1>4, <1>5

\* Where a regular expression may stop, as part of another one or for good.
Stops(b) == {p \in Positions(b) : TokenAt(b, p) \in {TK_EOF, TK_RPAREN}}

\* A phrase that ends in X may end in V.
Meets(X, V) == \E e \in X : e \in V

\* Where the regular expression in parentheses may end, if what is around them
\* may end in V.
Opened(b, V) ==
  {p \in Positions(b) : TokenAt(b, p) = TK_RPAREN /\ Meets(AfterAtom(b, Beyond(b, p)), V)}

\* Nothing starts with a token that does not start an atom.
LEMMA NoStart ==
  ASSUME NEW b \in Seq(0 .. 255), NEW p \in Positions(b), ~ Starts(TokenAt(b, p))
  PROVE  RegexEnds(b, p) = {}
  BY RegexByToken

\* The comparisons of parser.c tell the tokens apart.
LEMMA TokenOrder ==
  ASSUME NEW tk \in 0 .. 255
  PROVE  /\ Starts(tk) => tk \notin {TK_EOF, TK_RPAREN, TK_PIPE} /\ tk < TK_PIPE /\ ~ IsQuantifier(tk)
         /\ tk > TK_PIPE => ~ Starts(tk) /\ tk \notin {TK_EOF, TK_RPAREN, TK_PIPE}
         /\ IsQuantifier(tk) => tk > TK_PIPE
         /\ tk <= Tilde => IsCharacter(tk) /\ tk # TK_RBRACKET
         /\ tk \notin {TK_EOF, TK_RPAREN, TK_PIPE} /\ tk <= TK_PIPE => Starts(tk)
         /\ tk \in {TK_EOF, TK_RPAREN, TK_PIPE} => tk <= TK_PIPE /\ ~ Starts(tk) /\ ~ IsQuantifier(tk)
  BY TokenNames DEF Starts, IsCharacter, IsQuantifier, TokensByName

\* One token of look-ahead decides what comes after a piece.
LEMMA MeetsPiece ==
  ASSUME NEW b \in Seq(0 .. 255), NEW p \in Positions(b), NEW V \in SUBSET Stops(b),
         NEW tk, tk = TokenAt(b, p), NEW next, next = Beyond(b, p)
  PROVE  /\ tk \in {TK_EOF, TK_RPAREN} => (Meets(AfterPiece(b, p), V) <=> p \in V)
         /\ tk = TK_PIPE => (Meets(AfterPiece(b, p), V) <=> Meets(RegexEnds(b, next), V))
         /\ Starts(tk) => (Meets(AfterPiece(b, p), V) <=> Meets(RegexEnds(b, p), V))
         /\ tk > TK_PIPE => ~ Meets(AfterPiece(b, p), V)
         /\ Meets(RegexEnds(b, p), V) => Meets(AfterPiece(b, p), V)
  <1>1. tk \in 0 .. 255
    BY TokenFacts
  <1>2. /\ TK_PIPE \notin {TK_EOF, TK_RPAREN}
        /\ tk \in {TK_EOF, TK_RPAREN, TK_PIPE} => ~ Starts(tk)
        /\ Starts(tk) \/ tk > TK_PIPE => tk \notin {TK_EOF, TK_RPAREN, TK_PIPE}
        /\ tk > TK_PIPE => ~ Starts(tk)
    <2>1. TK_PIPE \notin {TK_EOF, TK_RPAREN}
      BY TokenNames DEF TokensByName
    <2>2. /\ Starts(tk) => tk \notin {TK_EOF, TK_RPAREN, TK_PIPE}
          /\ tk > TK_PIPE => ~ Starts(tk) /\ tk \notin {TK_EOF, TK_RPAREN, TK_PIPE}
          /\ tk \in {TK_EOF, TK_RPAREN, TK_PIPE} => ~ Starts(tk)
      BY <1>1, TokenOrder
    <2> QED BY <2>1, <2>2
  <1>3. tk \notin {TK_EOF, TK_RPAREN} => p \notin V
    BY DEF Stops
  <1>4. ~ Starts(tk) => RegexEnds(b, p) = {}
    BY NoStart
  <1>5. \A e : e \in AfterPiece(b, p) <=>
          e = p \/ e \in RegexEnds(b, p) \/ (tk = TK_PIPE /\ e \in RegexEnds(b, next))
    BY DEF AfterPiece
  <1>6. tk \in {TK_EOF, TK_RPAREN} => (Meets(AfterPiece(b, p), V) <=> p \in V)
    <2>1. ASSUME tk \in {TK_EOF, TK_RPAREN} PROVE \A e \in V : e \in AfterPiece(b, p) <=> e = p
      <3>1. RegexEnds(b, p) = {}
        <4>1. ~ Starts(tk)
          BY <1>2, <2>1
        <4> QED BY <1>4, <4>1
      <3>2. tk # TK_PIPE
        BY <1>2, <2>1
      <3> QED BY <1>5, <3>1, <3>2
    <2> QED BY <2>1 DEF Meets
  <1>7. tk = TK_PIPE => (Meets(AfterPiece(b, p), V) <=> Meets(RegexEnds(b, next), V))
    <2>1. ASSUME tk = TK_PIPE PROVE \A e \in V : e \in AfterPiece(b, p) <=> e \in RegexEnds(b, next)
      <3>1. tk \notin {TK_EOF, TK_RPAREN} /\ ~ Starts(tk)
        BY <1>2, <2>1
      <3>2. RegexEnds(b, p) = {}
        BY <1>4, <3>1
      <3>3. p \notin V
        BY <1>3, <3>1
      <3> QED BY <1>5, <2>1, <3>2, <3>3
    <2> QED BY <2>1 DEF Meets
  <1>8. Starts(tk) => (Meets(AfterPiece(b, p), V) <=> Meets(RegexEnds(b, p), V))
    <2>1. ASSUME Starts(tk) PROVE \A e \in V : e \in AfterPiece(b, p) <=> e \in RegexEnds(b, p)
      <3>1. tk # TK_PIPE /\ p \notin V
        BY <1>2, <1>3, <2>1
      <3> QED BY <1>5, <2>1, <3>1
    <2> QED BY <2>1 DEF Meets
  <1>9. tk > TK_PIPE => ~ Meets(AfterPiece(b, p), V)
    BY <1>2, <1>3, <1>4, <1>5 DEF Meets
  <1>10. Meets(RegexEnds(b, p), V) => Meets(AfterPiece(b, p), V)
    BY <1>5 DEF Meets
  <1> QED BY <1>6, <1>7, <1>8, <1>9, <1>10

\* One token of look-ahead decides what comes after an atom.
LEMMA MeetsAtom ==
  ASSUME NEW b \in Seq(0 .. 255), NEW p \in Positions(b), NEW V \in SUBSET Stops(b),
         NEW tk, tk = TokenAt(b, p), NEW next, next = Beyond(b, p)
  PROVE  /\ ~ IsQuantifier(tk) => (Meets(AfterAtom(b, p), V) <=> Meets(AfterPiece(b, p), V))
         /\ IsQuantifier(tk) => (Meets(AfterAtom(b, p), V) <=> Meets(AfterPiece(b, next), V))
         /\ tk > TK_PIPE /\ ~ IsQuantifier(tk) => ~ Meets(AfterAtom(b, p), V)
  <1>1. tk \in 0 .. 255
    BY TokenFacts
  <1>2. tk > TK_PIPE => ~ Meets(AfterPiece(b, p), V)
    BY MeetsPiece
  <1>3. IsQuantifier(tk) => tk > TK_PIPE
    BY <1>1, TokenOrder
  <1>4. ~ IsQuantifier(tk) => AfterAtom(b, p) = AfterPiece(b, p)
    BY DEF AfterAtom
  <1>5. IsQuantifier(tk) => AfterAtom(b, p) = AfterPiece(b, p) \cup AfterPiece(b, next)
    BY DEF AfterAtom
  <1>6. IsQuantifier(tk) => (Meets(AfterAtom(b, p), V) <=> Meets(AfterPiece(b, next), V))
    BY <1>2, <1>3, <1>5 DEF Meets
  <1> QED BY <1>2, <1>4, <1>6

\* One token of look-ahead decides what a regular expression starts with.
LEMMA MeetsStart ==
  ASSUME NEW b \in Seq(0 .. 255), NEW p \in Positions(b), NEW V \in SUBSET Stops(b),
         NEW tk, tk = TokenAt(b, p), NEW next, next = Beyond(b, p)
  PROVE  /\ ~ Starts(tk) => ~ Meets(RegexEnds(b, p), V)
         /\ IsCharacter(tk) => (Meets(RegexEnds(b, p), V) <=> Meets(AfterAtom(b, next), V))
         /\ tk = TK_LPAREN => (Meets(RegexEnds(b, p), V) <=> Meets(RegexEnds(b, next), Opened(b, V)))
         /\ tk = TK_LBRACKET /\ TokenAt(b, next) > Tilde => ~ Meets(RegexEnds(b, p), V)
         /\ tk = TK_LBRACKET /\ ~ TokenAt(b, next) > Tilde =>
              (Meets(RegexEnds(b, p), V) <=> Meets(InBrackets(b, next), V))
  <1>1. next \in Positions(b) /\ tk \in 0 .. 255 /\ TokenAt(b, next) \in 0 .. 255
    BY TokenFacts
  <1>2. ~ Starts(tk) => ~ Meets(RegexEnds(b, p), V)
    BY NoStart DEF Meets
  <1>3. IsCharacter(tk) => (Meets(RegexEnds(b, p), V) <=> Meets(AfterAtom(b, next), V))
    BY RegexByToken DEF Meets
  <1>4. ASSUME tk = TK_LPAREN
        PROVE  Meets(RegexEnds(b, p), V) <=> Meets(RegexEnds(b, next), Opened(b, V))
    <2>1. RegexEnds(b, next) \subseteq Positions(b)
      BY <1>1, RegexForward
    <2>0. \A e : e \in RegexEnds(b, p) <=> e \in AfterClosed(b, RegexEnds(b, next), TK_RPAREN)
      BY <1>4, RegexByToken
    <2>2. \A e : e \in RegexEnds(b, p) <=> e \in Positions(b) /\
            \E d \in RegexEnds(b, next) : TokenAt(b, d) = TK_RPAREN /\ e \in AfterAtom(b, Beyond(b, d))
      BY <2>0 DEF AfterClosed
    <2>4. \A e \in V : e \in Positions(b)
      BY DEF Stops
    <2>3. \A d : d \in Opened(b, V) <=>
            d \in Positions(b) /\ TokenAt(b, d) = TK_RPAREN /\ \E e \in AfterAtom(b, Beyond(b, d)) : e \in V
      BY DEF Opened, Meets
    <2> QED BY <2>1, <2>2, <2>3, <2>4 DEF Meets
  <1>5. ASSUME tk = TK_LBRACKET, TokenAt(b, next) > Tilde PROVE ~ Meets(RegexEnds(b, p), V)
    <2>1. BracketEnds(b, next) = {}
      BY <1>1, <1>5, BracketsByToken
    <2>0. \A e : e \in RegexEnds(b, p) <=> e \in AfterClosed(b, BracketEnds(b, next), TK_RBRACKET)
      BY <1>5, RegexByToken
    <2>2. \A e : e \notin RegexEnds(b, p)
      BY <2>0, <2>1 DEF AfterClosed
    <2> QED BY <2>2 DEF Meets
  <1>6. ASSUME tk = TK_LBRACKET, ~ TokenAt(b, next) > Tilde
        PROVE  Meets(RegexEnds(b, p), V) <=> Meets(InBrackets(b, next), V)
    <2>1. TokenAt(b, next) # TK_RBRACKET
      BY <1>1, <1>6, TokenNames DEF TokensByName
    <2>0. \A e : e \in RegexEnds(b, p) <=> e \in AfterClosed(b, BracketEnds(b, next), TK_RBRACKET)
      BY <1>6, RegexByToken
    <2>2. \A e : e \in RegexEnds(b, p) <=> e \in Positions(b) /\
            \E d \in BracketEnds(b, next) : TokenAt(b, d) = TK_RBRACKET /\ e \in AfterAtom(b, Beyond(b, d))
      BY <2>0 DEF AfterClosed
    <2>3. \A e \in V : e \in Positions(b)
      BY DEF Stops
    <2>4. \A e \in Positions(b) : e \in InBrackets(b, next) <=>
            \E d \in BracketEnds(b, next) : TokenAt(b, d) = TK_RBRACKET /\ e \in AfterAtom(b, Beyond(b, d))
      BY <2>1 DEF InBrackets
    <2> QED BY <2>2, <2>3, <2>4 DEF Meets
  <1> QED BY <1>2, <1>3, <1>4, <1>5, <1>6

\* Three tokens of look-ahead decide what comes next between brackets.
LEMMA MeetsBrackets ==
  ASSUME NEW b \in Seq(0 .. 255), NEW p \in Positions(b), NEW V \in SUBSET Stops(b),
         NEW tk, tk = TokenAt(b, p), NEW next, next = Beyond(b, p), NEW last, last = Beyond(b, next)
  PROVE  /\ tk <= Tilde /\ TokenAt(b, next) # Dash =>
              (Meets(InBrackets(b, p), V) <=> Meets(InBrackets(b, next), V))
         /\ tk <= Tilde /\ TokenAt(b, next) = Dash /\ TokenAt(b, last) \in tk .. Tilde =>
              (Meets(InBrackets(b, p), V) <=> Meets(InBrackets(b, Beyond(b, last)), V))
         /\ tk <= Tilde /\ TokenAt(b, next) = Dash /\ TokenAt(b, last) \notin tk .. Tilde =>
              ~ Meets(InBrackets(b, p), V)
         /\ tk = TK_RBRACKET => (Meets(InBrackets(b, p), V) <=> Meets(AfterAtom(b, next), V))
         /\ tk > Tilde /\ tk # TK_RBRACKET => ~ Meets(InBrackets(b, p), V)
  <1>1. next \in Positions(b) /\ last \in Positions(b) /\ tk \in 0 .. 255
    BY TokenFacts
  <1>2. last = LastOf(b, p)
    BY DEF LastOf
  <1>3. /\ tk <= Tilde => tk # TK_RBRACKET /\ ~ tk > Tilde
        /\ tk > Tilde <=> ~ tk <= Tilde
        /\ TK_RBRACKET > Tilde
    BY <1>1, TokenNames DEF TokensByName
  <1>4. ASSUME tk <= Tilde, TokenAt(b, next) # Dash PROVE InBrackets(b, p) = InBrackets(b, next)
    <2>1. BracketEnds(b, p) = {next} \cup BracketEnds(b, next)
      BY <1>3, <1>4, BracketsByToken
    <2> QED BY <1>3, <1>4, <2>1 DEF InBrackets
  <1>5. ASSUME tk <= Tilde, TokenAt(b, next) = Dash, TokenAt(b, last) \in tk .. Tilde
        PROVE  InBrackets(b, p) = InBrackets(b, Beyond(b, last))
    <2>1. BracketEnds(b, p) = {Beyond(b, last)} \cup BracketEnds(b, Beyond(b, last))
      BY <1>2, <1>3, <1>5, BracketsByToken
    <2> QED BY <1>3, <1>5, <2>1 DEF InBrackets
  <1>6. ASSUME tk <= Tilde, TokenAt(b, next) = Dash, TokenAt(b, last) \notin tk .. Tilde
        PROVE  InBrackets(b, p) = {}
    <2>1. BracketEnds(b, p) = {}
      BY <1>2, <1>3, <1>6, BracketsByToken
    <2> QED BY <1>3, <1>6, <2>1 DEF InBrackets
  <1>7. tk > Tilde => BracketEnds(b, p) = {}
    BY BracketsByToken
  <1>8. ASSUME tk = TK_RBRACKET PROVE Meets(InBrackets(b, p), V) <=> Meets(AfterAtom(b, next), V)
    <2>1. \A e \in Positions(b) : e \in InBrackets(b, p) <=> e \in AfterAtom(b, next)
      BY <1>3, <1>7, <1>8 DEF InBrackets
    <2>2. \A e \in V : e \in Positions(b)
      BY DEF Stops
    <2> QED BY <2>1, <2>2 DEF Meets
  <1>9. tk > Tilde /\ tk # TK_RBRACKET => InBrackets(b, p) = {}
    BY <1>7 DEF InBrackets
  <1> QED BY <1>4, <1>5, <1>6, <1>8, <1>9 DEF Meets

-----------------------------------------------------------------------------
(* What the parser knows of the rest of the buffer.                        *)

\* The buffer is a regular expression of the grammar.
IsWellFormed(b) == Meanings(b, FALSE) # {}

\* The buffer is well formed if and only if one of X is in V.
Sure(b, X, V) == IsWellFormed(b) <=> Meets(X, V)

\* No regular expression can come of it any more.
Lost(b) == ~ IsWellFormed(b)

\* The buffer is well formed if a regular expression from its start takes it up.
LEMMA WholeBuffer ==
  ASSUME NEW b
  PROVE  IsWellFormed(b) <=> Meets(RegexEnds(b, 1), {Len(b) + 1})
  BY DEF IsWellFormed, Meanings, Meets, RegexEnds, Ending

\* What follows from knowing where a phrase has to end.
LEMMA SureFacts ==
  ASSUME NEW b, NEW X, NEW Y, NEW V, NEW U, Sure(b, X, V)
  PROVE  /\ (Meets(X, V) <=> Meets(Y, U)) => Sure(b, Y, U)
         /\ ~ Meets(X, V) => Lost(b)
  BY DEF Sure, Lost

\* What group() has to find: after a piece, the end or another one.
Ends(b, caller, p) == IF caller.at = "append" THEN AfterPiece(b, p) ELSE RegexEnds(b, p)

\* What is known after a piece, once the next token is seen.
LEMMA SurePiece ==
  ASSUME NEW b \in Seq(0 .. 255), NEW p \in Positions(b), NEW V \in SUBSET Stops(b),
         NEW tk, tk = TokenAt(b, p), NEW next, next = Beyond(b, p),
         Sure(b, AfterPiece(b, p), V)
  PROVE  /\ tk \in {TK_EOF, TK_RPAREN} => Sure(b, {p}, V)
         /\ tk = TK_PIPE => Sure(b, RegexEnds(b, next), V)
         /\ Starts(tk) => Sure(b, RegexEnds(b, p), V)
         /\ tk > TK_PIPE => Lost(b)
  <1>1. /\ tk \in {TK_EOF, TK_RPAREN} => (Meets(AfterPiece(b, p), V) <=> p \in V)
        /\ tk = TK_PIPE => (Meets(AfterPiece(b, p), V) <=> Meets(RegexEnds(b, next), V))
        /\ Starts(tk) => (Meets(AfterPiece(b, p), V) <=> Meets(RegexEnds(b, p), V))
        /\ tk > TK_PIPE => ~ Meets(AfterPiece(b, p), V)
        /\ Meets(RegexEnds(b, p), V) => Meets(AfterPiece(b, p), V)
    BY MeetsPiece
  <1>2. Meets({p}, V) <=> p \in V
    BY DEF Meets
  <1> QED BY <1>1, <1>2 DEF Sure, Lost, Ends

\* What is known after an atom, once the next token is seen.
LEMMA SureAtom ==
  ASSUME NEW b \in Seq(0 .. 255), NEW p \in Positions(b), NEW V \in SUBSET Stops(b),
         NEW tk, tk = TokenAt(b, p), NEW next, next = Beyond(b, p),
         Sure(b, AfterAtom(b, p), V)
  PROVE  /\ IsQuantifier(tk) => Sure(b, AfterPiece(b, next), V)
         /\ ~ IsQuantifier(tk) => Sure(b, AfterPiece(b, p), V)
         /\ ~ MayFollow(tk) => Lost(b)
  <1>1. /\ ~ IsQuantifier(tk) => (Meets(AfterAtom(b, p), V) <=> Meets(AfterPiece(b, p), V))
        /\ IsQuantifier(tk) => (Meets(AfterAtom(b, p), V) <=> Meets(AfterPiece(b, next), V))
        /\ tk > TK_PIPE /\ ~ IsQuantifier(tk) => ~ Meets(AfterAtom(b, p), V)
    BY MeetsAtom
  <1>2. ~ MayFollow(tk) => tk > TK_PIPE /\ ~ IsQuantifier(tk)
    <2>1. tk \in 0 .. 255 /\ TK_PIPE = 132
      BY TokenFacts, TokenNames DEF TokensByName
    <2> QED BY <2>1 DEF MayFollow
  <1> QED BY <1>1, <1>2 DEF Sure, Lost

\* What is known at the start of a regular expression, once the next token is seen.
LEMMA SureStart ==
  ASSUME NEW b \in Seq(0 .. 255), NEW p \in Positions(b), NEW V \in SUBSET Stops(b),
         NEW tk, tk = TokenAt(b, p), NEW next, next = Beyond(b, p),
         Sure(b, RegexEnds(b, p), V)
  PROVE  /\ ~ Starts(tk) => Lost(b)
         /\ IsCharacter(tk) => Sure(b, AfterAtom(b, next), V)
         /\ tk = TK_LPAREN => Sure(b, RegexEnds(b, next), Opened(b, V))
         /\ tk = TK_LBRACKET /\ TokenAt(b, next) > Tilde => Lost(b)
         /\ tk = TK_LBRACKET /\ ~ TokenAt(b, next) > Tilde => Sure(b, InBrackets(b, next), V)
  <1>1. /\ ~ Starts(tk) => ~ Meets(RegexEnds(b, p), V)
        /\ IsCharacter(tk) => (Meets(RegexEnds(b, p), V) <=> Meets(AfterAtom(b, next), V))
        /\ tk = TK_LPAREN => (Meets(RegexEnds(b, p), V) <=> Meets(RegexEnds(b, next), Opened(b, V)))
        /\ tk = TK_LBRACKET /\ TokenAt(b, next) > Tilde => ~ Meets(RegexEnds(b, p), V)
        /\ tk = TK_LBRACKET /\ ~ TokenAt(b, next) > Tilde =>
             (Meets(RegexEnds(b, p), V) <=> Meets(InBrackets(b, next), V))
    BY MeetsStart
  <1> QED BY <1>1 DEF Sure, Lost

\* What is known between brackets, once the next token is seen.
LEMMA SureBrackets ==
  ASSUME NEW b \in Seq(0 .. 255), NEW p \in Positions(b), NEW V \in SUBSET Stops(b),
         NEW tk, tk = TokenAt(b, p), NEW next, next = Beyond(b, p), NEW last, last = Beyond(b, next),
         Sure(b, InBrackets(b, p), V)
  PROVE  /\ tk <= Tilde /\ TokenAt(b, next) # Dash => Sure(b, InBrackets(b, next), V)
         /\ tk <= Tilde /\ TokenAt(b, next) = Dash /\ TokenAt(b, last) \in tk .. Tilde =>
              Sure(b, InBrackets(b, Beyond(b, last)), V)
         /\ tk <= Tilde /\ TokenAt(b, next) = Dash /\ TokenAt(b, last) \notin tk .. Tilde =>
              Lost(b)
         /\ tk = TK_RBRACKET => Sure(b, AfterAtom(b, next), V)
         /\ tk > Tilde /\ tk # TK_RBRACKET => Lost(b)
  <1>1. /\ tk <= Tilde /\ TokenAt(b, next) # Dash =>
             (Meets(InBrackets(b, p), V) <=> Meets(InBrackets(b, next), V))
        /\ tk <= Tilde /\ TokenAt(b, next) = Dash /\ TokenAt(b, last) \in tk .. Tilde =>
             (Meets(InBrackets(b, p), V) <=> Meets(InBrackets(b, Beyond(b, last)), V))
        /\ tk <= Tilde /\ TokenAt(b, next) = Dash /\ TokenAt(b, last) \notin tk .. Tilde =>
             ~ Meets(InBrackets(b, p), V)
        /\ tk = TK_RBRACKET => (Meets(InBrackets(b, p), V) <=> Meets(AfterAtom(b, next), V))
        /\ tk > Tilde /\ tk # TK_RBRACKET => ~ Meets(InBrackets(b, p), V)
    BY MeetsBrackets
  <1> QED BY <1>1 DEF Sure, Lost

\* What is known where group() has been called.
LEMMA SureEnds ==
  ASSUME NEW b \in Seq(0 .. 255), NEW p \in Positions(b), NEW V \in SUBSET Stops(b),
         NEW e, NEW tk, tk = TokenAt(b, p), Sure(b, Ends(b, e, p), V)
  PROVE  /\ Starts(tk) => Sure(b, RegexEnds(b, p), V)
         /\ tk > TK_PIPE => Lost(b)
         /\ e.at # "append" /\ ~ Starts(tk) => Lost(b)
  <1>1. CASE e.at = "append"
    <2>1. Sure(b, AfterPiece(b, p), V)
      BY <1>1 DEF Ends
    <2> QED BY <1>1, <2>1, SurePiece
  <1>2. CASE e.at # "append"
    <2>1. Sure(b, RegexEnds(b, p), V)
      BY <1>2 DEF Ends
    <2>2. tk > TK_PIPE => ~ Starts(tk)
      BY TokenFacts, TokenOrder
    <2> QED BY <2>1, <2>2, SureStart
  <1> QED BY <1>1, <1>2

-----------------------------------------------------------------------------
(* Where the regular expressions may end that are being read.              *)

\* The record waits for the regular expression in parentheses.
InGroup(r) == r.fn = "group" /\ r.at = "regex"

\* W says of every record where the regular expression it is a part of may end.
Levels(b, st, W) ==
  /\ W \in [1 .. Len(st) -> SUBSET Stops(b)]
  /\ W[1] = {Len(b) + 1}
  /\ \A i \in 1 .. Len(st) - 1 :
       W[i + 1] = IF InGroup(st[i + 1]) THEN Opened(b, W[i]) ELSE W[i]

\* V is where the regular expression that is being read may end.
Aims(b, st, V) == \E W : Levels(b, st, W) /\ V = W[Len(st)]

\* A group may end at a parenthesis only.
LEMMA OpenedStops ==
  ASSUME NEW b, NEW V
  PROVE  Opened(b, V) \in SUBSET Stops(b)
  BY DEF Opened, Stops

\* A regular expression that is not in parentheses has to take up the buffer.
LEMMA AimsFacts ==
  ASSUME NEW b, NEW st \in Seq(Frame), st # <<>>, NEW V, Aims(b, st, V)
  PROVE  V \in SUBSET Stops(b) /\ (Len(st) = 1 => V = {Len(b) + 1})
  <1>1. Len(st) \in 1 .. Len(st)
    BY StackFacts
  <1> QED BY <1>1 DEF Aims, Levels

\* Where it may end, once a function returns.
LEMMA AimsPopped ==
  ASSUME NEW b, NEW st \in Seq(Frame), Len(st) > 1, NEW V, Aims(b, st, V)
  PROVE  \E U : Aims(b, Rest(st), U) /\ V = IF InGroup(st[Len(st)]) THEN Opened(b, U) ELSE U
  <1> DEFINE n == Len(st)
             new == Rest(st)
  <1>1. PICK W : Levels(b, st, W) /\ V = W[n]
    BY DEF Aims
  <1>2. /\ n \in Nat /\ Len(new) = n - 1 /\ \A i \in 1 .. n - 1 : new[i] = st[i]
    <2>1. st # <<>>
      BY EmptySeq
    <2> QED BY <2>1, StackFacts
  <1> DEFINE U == [i \in 1 .. n - 1 |-> W[i]]
  <1> HIDE DEF new
  <1>3. Levels(b, new, U)
    <2>1. U \in [1 .. Len(new) -> SUBSET Stops(b)] /\ U[1] = {Len(b) + 1}
      BY <1>1, <1>2 DEF Levels
    <2>2. ASSUME NEW i \in 1 .. Len(new) - 1
          PROVE  U[i + 1] = IF InGroup(new[i + 1]) THEN Opened(b, U[i]) ELSE U[i]
      <3>1. i \in 1 .. n - 1 /\ i + 1 \in 1 .. n - 1
        BY <1>2
      <3>2. U[i] = W[i] /\ U[i + 1] = W[i + 1] /\ new[i + 1] = st[i + 1]
        BY <1>2, <3>1
      <3> HIDE DEF U
      <3> QED BY <1>1, <3>1, <3>2 DEF Levels
    <2> HIDE DEF U
    <2> QED BY <2>1, <2>2 DEF Levels
  <1>4. V = IF InGroup(st[n]) THEN Opened(b, U[n - 1]) ELSE U[n - 1]
    <2>1. n - 1 \in 1 .. n - 1 /\ n - 1 + 1 = n
      BY <1>2
    <2>2. U[n - 1] = W[n - 1]
      BY <2>1
    <2>3. W[n - 1 + 1] = IF InGroup(st[n - 1 + 1]) THEN Opened(b, W[n - 1]) ELSE W[n - 1]
      BY <1>1, <2>1 DEF Levels
    <2> HIDE DEF U
    <2> QED BY <1>1, <2>1, <2>2, <2>3
  <1>5. Aims(b, new, U[n - 1])
    <2> HIDE DEF U
    <2> QED BY <1>2, <1>3 DEF Aims
  <1> HIDE DEF U
  <1> QED BY <1>4, <1>5 DEF new

\* Where it may end, if a function goes on.
LEMMA AimsReplaced ==
  ASSUME NEW b, NEW st \in Seq(Frame), st # <<>>, NEW V, Aims(b, st, V),
         NEW x \in Frame, ~ InGroup(st[Len(st)]), ~ InGroup(x)
  PROVE  Aims(b, Append(Rest(st), x), V)
  <1> DEFINE n == Len(st)
             new == Append(Rest(st), x)
  <1>1. PICK W : Levels(b, st, W) /\ V = W[n]
    BY DEF Aims
  <1>2. n \in Nat \ {0} /\ Len(new) = n /\ new[n] = x /\ \A i \in 1 .. n - 1 : new[i] = st[i]
    BY StackFacts, ReplacedFacts
  <1> HIDE DEF new
  <1>3. ASSUME NEW i \in 1 .. n - 1
        PROVE  W[i + 1] = IF InGroup(new[i + 1]) THEN Opened(b, W[i]) ELSE W[i]
    <2>1. W[i + 1] = IF InGroup(st[i + 1]) THEN Opened(b, W[i]) ELSE W[i]
      BY <1>1 DEF Levels
    <2>2. CASE i + 1 = n
      BY <1>2, <2>1, <2>2
    <2>3. CASE i + 1 # n
      <3>1. i + 1 \in 1 .. n - 1
        BY <1>2, <2>3
      <3> QED BY <1>2, <2>1, <3>1
    <2> QED BY <2>2, <2>3
  <1>4. Levels(b, new, W)
    BY <1>1, <1>2, <1>3 DEF Levels
  <1> QED BY <1>1, <1>2, <1>4 DEF Aims, new

\* Where it may end, in a function that is called.
LEMMA AimsPushed ==
  ASSUME NEW b, NEW st \in Seq(Frame), st # <<>>, NEW V, Aims(b, st, V),
         NEW x \in Frame, NEW y \in Frame, ~ InGroup(st[Len(st)]), ~ InGroup(y),
         InGroup(x) => Len(st) > 1
  PROVE  Aims(b, Rest(st) \o <<x, y>>, IF InGroup(x) THEN Opened(b, V) ELSE V)
  <1> DEFINE n == Len(st)
             new == Rest(st) \o <<x, y>>
             U == IF InGroup(x) THEN Opened(b, V) ELSE V
  <1>1. PICK W : Levels(b, st, W) /\ V = W[n]
    BY DEF Aims
  <1>2. n \in Nat \ {0} /\ Len(new) = n + 1 /\ new[n] = x /\ new[n + 1] = y
        /\ \A i \in 1 .. n - 1 : new[i] = st[i]
    BY StackFacts, PushedFacts
  <1>3. V \in SUBSET Stops(b)
    BY AimsFacts
  <1>4. U \in SUBSET Stops(b)
    BY <1>3, OpenedStops
  <1> DEFINE Z == [i \in 1 .. n + 1 |-> IF i >= n THEN U ELSE W[i]]
  <1> HIDE DEF new, U
  <1>5. /\ Z[n] = U /\ Z[n + 1] = U /\ \A i \in 1 .. n - 1 : Z[i] = W[i]
        /\ Z \in [1 .. n + 1 -> SUBSET Stops(b)]
    <2>1. \A i \in 1 .. n + 1 : i < n => W[i] \in SUBSET Stops(b)
      <3>1. \A i \in 1 .. n : W[i] \in SUBSET Stops(b)
        BY <1>1 DEF Levels
      <3> QED BY <1>2, <3>1
    <2> QED BY <1>2, <1>4, <2>1
  <1> HIDE DEF Z
  <1>6. Z[1] = {Len(b) + 1}
    <2>1. CASE n = 1
      BY <1>1, <1>5, <2>1 DEF Levels, U
    <2>2. CASE n # 1
      <3>1. 1 \in 1 .. n - 1
        <4>1. n \in Nat \ {0}
          BY <1>2
        <4> HIDE DEF n
        <4> QED BY <2>2, <4>1
      <3> QED BY <1>1, <1>5, <3>1 DEF Levels
    <2> QED BY <2>1, <2>2
  <1>7. ASSUME NEW i \in 1 .. n
        PROVE  Z[i + 1] = IF InGroup(new[i + 1]) THEN Opened(b, Z[i]) ELSE Z[i]
    <2>1. CASE i = n
      BY <1>2, <1>5, <2>1
    <2>2. CASE i = n - 1
      <3>1. i \in 1 .. n - 1 /\ i + 1 = n
        BY <1>2, <2>2
      <3>2. W[i + 1] = IF InGroup(st[i + 1]) THEN Opened(b, W[i]) ELSE W[i]
        BY <1>1, <3>1 DEF Levels
      <3> QED BY <1>1, <1>2, <1>5, <3>1, <3>2 DEF U
    <2>3. CASE i < n - 1
      <3>1. i \in 1 .. n - 1 /\ i + 1 \in 1 .. n - 1
        BY <1>2, <2>3
      <3>2. W[i + 1] = IF InGroup(st[i + 1]) THEN Opened(b, W[i]) ELSE W[i]
        BY <1>1, <3>1 DEF Levels
      <3>3. Z[i] = W[i] /\ Z[i + 1] = W[i + 1] /\ new[i + 1] = st[i + 1]
        BY <1>2, <1>5, <3>1
      <3> QED BY <3>2, <3>3
    <2> QED BY <1>2, <2>1, <2>2, <2>3
  <1>8. Levels(b, new, Z)
    <2>1. Len(new) - 1 = n
      BY <1>2
    <2> QED BY <1>2, <1>5, <1>6, <1>7, <2>1 DEF Levels
  <1>9. Aims(b, new, U)
    BY <1>2, <1>5, <1>8 DEF Aims
  <1> QED BY <1>9 DEF new, U

\* The function that called the group() that runs, or the one that pattern() or
\* range() is called by.
Caller(st) == IF st[Len(st)].fn = "group" THEN st[Len(st) - 1] ELSE st[Len(st) - 2]

\* The record below the one that returns.
LEMMA PoppedCaller ==
  ASSUME NEW st, WellCalled(st), st # <<>>, st[Len(st)].fn # "parse"
  PROVE  LET t == st[Len(st)] m == Rest(st)[Len(Rest(st))] IN
         /\ Rest(st) # <<>> /\ Len(st) > 1 /\ m \in Frame /\ HoldsWhatItMay(m) /\ Calls(m, t.fn)
         /\ t.fn = "group" => Caller(st) = m
         /\ t.fn \in {"pattern", "range"} => Caller(Rest(st)) = Caller(st)
  <1> DEFINE n == Len(st)
             t == st[n]
             new == Rest(st)
             m == new[Len(new)]
  <1>1. st \in Seq(Frame)
    BY DEF WellCalled
  <1>2. /\ n \in Nat \ {0} /\ Len(new) = n - 1 /\ \A i \in 1 .. n - 1 : new[i] = st[i]
        /\ \A i \in 1 .. n : st[i] \in Frame
    BY <1>1, StackFacts
  <1>3. n # 1
    BY DEF WellCalled
  <1> HIDE DEF new
  <1>4. n - 1 \in 1 .. n - 1 /\ n - 1 \in 1 .. n /\ n - 1 + 1 = n /\ n > 1
    BY <1>2, <1>3
  <1>5. new # <<>>
    BY <1>2, <1>4, EmptySeq
  <1>6. m = st[n - 1] /\ m \in Frame
    BY <1>2, <1>4
  <1>7. HoldsWhatItMay(m) /\ Calls(m, t.fn)
    <2>1. HoldsWhatItMay(st[n - 1])
      BY <1>4 DEF WellCalled
    <2>2. Calls(st[n - 1], st[n - 1 + 1].fn)
      BY <1>4 DEF WellCalled
    <2> QED BY <1>4, <1>6, <2>1, <2>2
  <1>8. t.fn = "group" => Caller(st) = m
    BY <1>6 DEF Caller
  <1>9. ASSUME t.fn \in {"pattern", "range"} PROVE Caller(new) = Caller(st)
    <2>1. m.at = t.fn
      BY <1>7, <1>9 DEF Calls
    <2>2. m.fn = "group"
      BY <1>6, <1>7, <1>9, <2>1 DEF HoldsWhatItMay, Frame, Names, Places
    <2>3. n - 1 # 1
      <3>1. st[1].fn = "parse"
        BY DEF WellCalled
      <3> QED BY <1>6, <2>2, <3>1
    <2>4. n - 2 \in 1 .. n - 1 /\ Len(new) - 1 = n - 2
      BY <1>2, <1>4, <2>3
    <2>5. Caller(new) = st[n - 2]
      BY <1>2, <2>2, <2>4 DEF Caller
    <2>6. Caller(st) = st[n - 2]
      BY <1>9 DEF Caller
    <2> QED BY <2>5, <2>6
  <1>10. new # <<>> /\ n > 1 /\ m \in Frame /\ HoldsWhatItMay(m) /\ Calls(m, t.fn)
    BY <1>4, <1>5, <1>6, <1>7
  <1> HIDE DEF t, n, m
  <1> QED BY <1>8, <1>9, <1>10 DEF t, n, m, new

\* The record below the one that is called.
LEMMA PushedCaller ==
  ASSUME NEW st, WellCalled(st), st # <<>>, NEW x \in Frame, NEW y \in Frame, x.fn = st[Len(st)].fn
  PROVE  LET new == Rest(st) \o <<x, y>> IN
         /\ y.fn = "group" => Caller(new) = x
         /\ x.fn = "group" /\ y.fn # "group" => Caller(new) = Caller(st)
         /\ x.fn # "parse" => Len(st) > 1
  <1> DEFINE n == Len(st)
             new == Rest(st) \o <<x, y>>
  <1>1. st \in Seq(Frame)
    BY DEF WellCalled
  <1>2. n \in Nat \ {0} /\ Len(new) = n + 1 /\ new[n] = x /\ new[n + 1] = y
        /\ \A i \in 1 .. n - 1 : new[i] = st[i]
    BY <1>1, StackFacts, PushedFacts
  <1> HIDE DEF new
  <1>3. x.fn # "parse" => n > 1
    <2>1. x.fn # "parse" => n # 1
      BY DEF WellCalled
    <2>2. n \in Nat \ {0}
      BY <1>2
    <2> HIDE DEF n
    <2> QED BY <2>1, <2>2
  <1>4. Len(new) - 1 = n /\ Len(new) - 2 = n - 1
    BY <1>2
  <1>5. y.fn = "group" => Caller(new) = x
    BY <1>2, <1>4 DEF Caller
  <1>6. ASSUME x.fn = "group", y.fn # "group" PROVE Caller(new) = Caller(st)
    <2>1. n - 1 \in 1 .. n - 1
      BY <1>2, <1>3, <1>6
    <2> QED BY <1>2, <1>4, <1>6, <2>1 DEF Caller
  <1> QED BY <1>3, <1>5, <1>6 DEF new

-----------------------------------------------------------------------------
(* What each function knows when it runs, and when it is returned to.      *)

\* The tokens that the parser has at hand, by where they are in the buffer.
LEMMA LexedAt ==
  ASSUME buffer \in Seq(0 .. 255), NEW c \in Positions(buffer),
         Lex(buffer, c) = [token |-> token, pos |-> pos],
         NEW c1, c1 = Beyond(buffer, c), NEW c2, c2 = Beyond(buffer, c1),
         NEW c3, c3 = Beyond(buffer, c2)
  PROVE  /\ {c1, c2, c3} \subseteq Positions(buffer)
         /\ token = TokenAt(buffer, c) /\ pos = c1
         /\ Lexed(0) = Lex(buffer, c) /\ Lexed(1) = Lex(buffer, c1)
         /\ Lexed(2) = Lex(buffer, c2) /\ Lexed(3) = Lex(buffer, c3)
  <1>1. c1 \in Positions(buffer) /\ c2 \in Positions(buffer) /\ c3 \in Positions(buffer)
    <2>1. c1 \in Positions(buffer)
      BY TokenFacts
    <2>2. c2 \in Positions(buffer)
      BY <2>1, TokenFacts
    <2> QED BY <2>1, <2>2, TokenFacts
  <1>2. token = TokenAt(buffer, c) /\ pos = c1
    BY DEF TokenAt, Beyond
  <1>3. pos \in 1 .. Len(buffer) + 1
    BY <1>1, <1>2 DEF Positions
  <1>4. Lexed(0) = Lex(buffer, c)
    <2>1. 0 \in Nat
      OBVIOUS
    <2> QED BY <1>3, <2>1, LexedChain DEF ChainOfTokens
  <1>5. Lexed(1) = Lex(buffer, c1)
    <2>1. 1 \in Nat /\ 1 \in 1 .. 1 /\ 1 - 1 = 0
      OBVIOUS
    <2>2. PICK f : ChainOfTokens(1, f)
      BY <1>3, <2>1, LexedChain
    <2>3. f[1] = Lex(buffer, f[0].pos) /\ f[0].pos = pos
      BY <2>1, <2>2 DEF ChainOfTokens
    <2> QED BY <1>2, <2>2, <2>3 DEF ChainOfTokens
  <1>6. Lexed(2) = Lex(buffer, c2)
    <2>1. 2 \in Nat /\ {1, 2} \subseteq 1 .. 2 /\ 1 - 1 = 0 /\ 2 - 1 = 1
      OBVIOUS
    <2>2. PICK f : ChainOfTokens(2, f)
      BY <1>3, <2>1, LexedChain
    <2>3. f[1] = Lex(buffer, f[0].pos) /\ f[0].pos = pos /\ f[2] = Lex(buffer, f[1].pos)
      BY <2>1, <2>2 DEF ChainOfTokens
    <2> QED BY <1>2, <2>2, <2>3 DEF ChainOfTokens, Beyond
  <1>7. Lexed(3) = Lex(buffer, c3)
    <2>1. 3 \in Nat /\ {1, 2, 3} \subseteq 1 .. 3 /\ 1 - 1 = 0 /\ 2 - 1 = 1 /\ 3 - 1 = 2
      OBVIOUS
    <2>2. PICK f : ChainOfTokens(3, f)
      BY <1>3, <2>1, LexedChain
    <2>3. /\ f[1] = Lex(buffer, f[0].pos) /\ f[0].pos = pos /\ f[2] = Lex(buffer, f[1].pos)
          /\ f[3] = Lex(buffer, f[2].pos)
      BY <2>1, <2>2 DEF ChainOfTokens
    <2> QED BY <1>2, <2>2, <2>3 DEF ChainOfTokens, Beyond
  <1> QED BY <1>1, <1>2, <1>4, <1>5, <1>6, <1>7

-----------------------------------------------------------------------------
(* Running, returned to, and done.                                         *)

\* The function of the record t runs and has read up to p.
Running(b, t, caller, V, p) ==
  LET tk == TokenAt(b, p) IN
  /\ t.fn # "parse"
  /\ t.fn = "regex" => Sure(b, RegexEnds(b, p), V)
  /\ t.fn = "group" => Sure(b, Ends(b, caller, p), V)
  /\ t.fn = "gprime" => Sure(b, AfterPiece(b, p), V)
  /\ t.fn = "pattern" /\ t.held = NULL => Sure(b, Ends(b, caller, p), V) /\ tk # TK_LPAREN
  /\ t.fn = "pattern" /\ t.held # NULL => Sure(b, AfterPiece(b, p), V)
  /\ t.fn = "range" /\ t.at = "begin" =>
       Sure(b, Ends(b, caller, p), V) /\ ~ IsCharacter(tk) /\ tk # TK_LPAREN
  /\ t.fn = "range" /\ t.at = "allowed" =>
       Sure(b, InBrackets(b, p), V) /\ (t.held = NULL => tk <= Tilde)

\* It is returned to, with r.
Returned(b, t, caller, r, V, p) ==
  LET tk == TokenAt(b, p) IN
  /\ t.at \in {"regex", "gprime"} =>
       IF r = NULL THEN Lost(b)
       ELSE Sure(b, AfterPiece(b, p), V) /\ tk \in {TK_EOF, TK_RPAREN}
  /\ t.at = "gprime" /\ r = NULL => tk \notin {TK_EOF, TK_RPAREN}
  /\ t.at \in {"group", "union"} =>
       IF r = NULL THEN Lost(b) ELSE Sure(b, AfterPiece(b, p), V)
  /\ t.at = "append" =>
       Sure(b, AfterPiece(b, p), V) /\ (r = NULL => ~ Starts(tk))
  /\ t.at = "pattern" =>
       IF r # NULL THEN Sure(b, AfterPiece(b, p), V)
       ELSE Sure(b, Ends(b, caller, p), V) /\ ~ IsCharacter(tk) /\ tk # TK_LPAREN
  /\ t.at = "range" =>
       IF r # NULL THEN Sure(b, AfterAtom(b, p), V)
       ELSE Sure(b, Ends(b, caller, p), V) /\ ~ Starts(tk)

\* What is known of the rest of the buffer, with r returned last, at p.
Knows(b, st, r, p, V) ==
  /\ Aims(b, st, V)
  /\ IF r = RUNNING THEN Running(b, st[Len(st)], Caller(st), V, p)
     ELSE Returned(b, st[Len(st)], Caller(st), r, V, p)

\* What parse() returns is an NFA if and only if the buffer is well formed.
Finished(b, r) == r # NULL <=> IsWellFormed(b)

\* Nothing has been reported, and the last token fetched is the one at c.
Silent(b, c) ==
  /\ b = buffer /\ b \in Seq(0 .. 255) /\ NoEOF(b) /\ message = NoMessage /\ flags = {}
  /\ c \in Positions(b) /\ Lex(b, c) = [token |-> token, pos |-> pos]

\* The parser is at c, in a regular expression that may end in V.
GoesOn(b, V, c) ==
  /\ MemoryInv /\ ~ ranOut /\ Silent(b, c)
  /\ stack # <<>> /\ V \in SUBSET Stops(b) /\ Knows(b, stack, ret, c, V)

\* What a step may come to: a complaint, and rightly so, the end, or more to do.
Outcome(b) ==
  \/ message' # NoMessage /\ Lost(b)
  \/ /\ UNCHANGED <<message, flags>>
     /\ \/ stack' = <<>> /\ Finished(b, ret')
        \/ /\ stack' # <<>>
           /\ \E c \in Positions(b) :
                /\ Lex(b, c) = [token |-> token', pos |-> pos']
                /\ \E V \in SUBSET Stops(b) : Knows(b, stack', ret', c, V)

\* What is fetched next.
Fetched(b, d) == d \in Positions(b) /\ Lex(b, d) = [token |-> token', pos |-> pos']

\* A step that complains.
LEMMA GivesUp ==
  ASSUME NEW b, NEW c, Silent(b, c), Lost(b), NEW d, Fetched(b, d),
         NEW set, NEW nfa, Error(set) \/ Fail(set, nfa) \/ (\E column : PrintError(column))
  PROVE  Outcome(b)
  <1>1. \E column : PrintError(column)
    BY DEF Error, Fail
  <1>2. pos' # 0
    <2>1. d \in Positions(b) /\ pos' = Beyond(b, d) /\ b \in Seq(0 .. 255)
      BY DEF Fetched, Beyond, Silent
    <2>2. Beyond(b, d) \in Positions(b)
      BY <2>1, TokenFacts
    <2> QED BY <2>1, <2>2 DEF Positions
  <1>3. message' # NoMessage
    BY <1>1, <1>2 DEF PrintError, NoMessage, Silent
  <1> QED BY <1>3 DEF Outcome

\* A function of this name returns r to whatever called it.
Gives(b, fn, r, V, d) ==
  \A m \in Frame, U \in SUBSET Stops(b) : \A e :
    /\ Calls(m, fn) /\ V = IF InGroup(Top) THEN Opened(b, U) ELSE U
    /\ fn = "group" => Caller(stack) = m
    /\ fn \in {"pattern", "range"} => e = Caller(stack)
    => Returned(b, m, e, r, U, d)

\* A step that returns.
LEMMA PopKnows ==
  ASSUME NEW b, NEW c, NEW V, GoesOn(b, V, c), Top.fn # "parse", stack' = Below, ret' # RUNNING,
         UNCHANGED <<message, flags>>, NEW d, Fetched(b, d), Gives(b, Top.fn, ret', V, d)
  PROVE  Outcome(b)
  <1> DEFINE st == stack
             new == Rest(st)
             m == new[Len(new)]
  <1>1. WellCalled(st) /\ st # <<>> /\ stack' = new /\ st \in Seq(Frame)
    BY Now DEF GoesOn
  <1>2. Top = st[Len(st)]
    BY DEF Top
  <1>3. /\ new # <<>> /\ Len(st) > 1 /\ m \in Frame /\ Calls(m, Top.fn)
        /\ Top.fn = "group" => Caller(st) = m
        /\ Top.fn \in {"pattern", "range"} => Caller(new) = Caller(st)
    BY <1>1, <1>2, PoppedCaller
  <1>4. PICK U : Aims(b, new, U) /\ V = IF InGroup(Top) THEN Opened(b, U) ELSE U
    BY <1>1, <1>2, <1>3, AimsPopped DEF GoesOn, Knows
  <1>5. new \in Seq(Frame) /\ U \in SUBSET Stops(b)
    BY <1>1, <1>3, <1>4, StackFacts, AimsFacts
  <1> HIDE DEF st, new, m
  <1>6. Returned(b, m, Caller(new), ret', U, d)
    BY <1>3, <1>4, <1>5 DEF Gives, st
  <1>7. Knows(b, stack', ret', d, U)
    BY <1>1, <1>4, <1>6 DEF Knows, m
  <1> QED BY <1>1, <1>3, <1>5, <1>7 DEF Outcome, Fetched

\* A step that goes on in the same function.
LEMMA ReplaceKnows ==
  ASSUME NEW b, NEW c, NEW V, GoesOn(b, V, c), NEW x \in Frame, stack' = Append(Below, x),
         ret' = RUNNING, ~ InGroup(Top), ~ InGroup(x),
         UNCHANGED <<message, flags>>, NEW d, Fetched(b, d), \A e : Running(b, x, e, V, d)
  PROVE  Outcome(b)
  <1> DEFINE st == stack
             new == Append(Rest(st), x)
  <1>1. st \in Seq(Frame) /\ st # <<>> /\ stack' = new /\ Top = st[Len(st)]
    BY Now DEF GoesOn, Top
  <1>2. new # <<>> /\ new[Len(new)] = x
    BY <1>1, ReplacedFacts
  <1>3. Aims(b, new, V)
    BY <1>1, AimsReplaced DEF GoesOn, Knows
  <1> HIDE DEF st, new
  <1>4. Knows(b, stack', ret', d, V)
    BY <1>1, <1>2, <1>3 DEF Knows
  <1> QED BY <1>1, <1>2, <1>4 DEF Outcome, Fetched, GoesOn

\* The record x calls a function with the record y, which is then to read what
\* may end in U.
MayCall(b, x, y, U, d) ==
  \A e : /\ y.fn = "group" => e = x
         /\ x.fn = "group" /\ y.fn # "group" => e = Caller(stack)
         => Running(b, y, e, U, d)

\* A step that calls.
LEMMA PushKnows ==
  ASSUME NEW b, NEW c, NEW V, GoesOn(b, V, c), NEW x \in Frame, NEW y \in Frame,
         stack' = Below \o <<x, y>>, ret' = RUNNING, x.fn = Top.fn, ~ InGroup(Top), ~ InGroup(y),
         UNCHANGED <<message, flags>>, NEW d, Fetched(b, d),
         NEW U, U = IF InGroup(x) THEN Opened(b, V) ELSE V, MayCall(b, x, y, U, d)
  PROVE  Outcome(b)
  <1> DEFINE st == stack
             new == Rest(st) \o <<x, y>>
  <1>1. WellCalled(st) /\ st \in Seq(Frame) /\ st # <<>> /\ stack' = new /\ Top = st[Len(st)]
    BY Now DEF GoesOn, Top
  <1>2. new # <<>> /\ new[Len(new)] = y
    BY <1>1, PushedFacts
  <1>3. /\ y.fn = "group" => Caller(new) = x
        /\ x.fn = "group" /\ y.fn # "group" => Caller(new) = Caller(st)
        /\ x.fn # "parse" => Len(st) > 1
    BY <1>1, PushedCaller
  <1>4. InGroup(x) => Len(st) > 1
    BY <1>3 DEF InGroup
  <1>5. Aims(b, new, U) /\ U \in SUBSET Stops(b)
    <2>1. Aims(b, new, U)
      BY <1>1, <1>4, AimsPushed DEF GoesOn, Knows
    <2>2. U \in SUBSET Stops(b)
      BY OpenedStops DEF GoesOn
    <2> QED BY <2>1, <2>2
  <1> HIDE DEF st, new
  <1>6. Running(b, y, Caller(new), U, d)
    BY <1>3 DEF st, MayCall
  <1>7. Knows(b, stack', ret', d, U)
    BY <1>1, <1>2, <1>5, <1>6 DEF Knows
  <1> QED BY <1>1, <1>2, <1>5, <1>7 DEF Outcome, Fetched

-----------------------------------------------------------------------------
(* The steps of the functions, as far as the grammar is concerned.         *)

\* What a step has to start from.
LEMMA Here ==
  ASSUME NEW b, NEW c, NEW V, GoesOn(b, V, c)
  PROVE  /\ b = buffer /\ b \in Seq(0 .. 255) /\ c \in Positions(b) /\ V \in SUBSET Stops(b)
         /\ stack # <<>> /\ Top \in Frame /\ HoldsWhatItMay(Top)
         /\ token = TokenAt(b, c) /\ token \in 0 .. 255 /\ Lex(b, c) = [token |-> token, pos |-> pos]
         /\ ret = RUNNING => Running(b, Top, Caller(stack), V, c)
         /\ ret # RUNNING => Returned(b, Top, Caller(stack), ret, V, c)
         /\ RUNNING # NULL /\ Silent(b, c) /\ MemoryInv
         /\ Top.fn = "gprime" => Top.held # NULL
  <1>1. /\ b = buffer /\ b \in Seq(0 .. 255) /\ c \in Positions(b) /\ V \in SUBSET Stops(b)
        /\ stack # <<>> /\ Lex(b, c) = [token |-> token, pos |-> pos]
        /\ Silent(b, c) /\ MemoryInv /\ ~ ranOut
    BY DEF GoesOn, Silent
  <1>2. Top \in Frame /\ HoldsWhatItMay(Top)
    BY <1>1, Now
  <1>3. token = TokenAt(b, c)
    BY <1>1 DEF TokenAt
  <1>4. token \in 0 .. 255
    BY <1>1, <1>3, TokenFacts
  <1>5. /\ ret = RUNNING => Running(b, Top, Caller(stack), V, c)
        /\ ret # RUNNING => Returned(b, Top, Caller(stack), ret, V, c)
    BY DEF GoesOn, Knows, Top
  <1>6. Top.fn = "gprime" => Top.held # NULL
    BY <1>1, Now
  <1> QED BY <1>1, <1>2, <1>3, <1>4, <1>5, <1>6 DEF RUNNING, NULL

\* The step fetches nothing, or the next tokens.
LEMMA FetchedAt ==
  ASSUME NEW b, NEW c, NEW V, GoesOn(b, V, c),
         NEW c1, c1 = Beyond(b, c), NEW c2, c2 = Beyond(b, c1), NEW c3, c3 = Beyond(b, c2)
  PROVE  /\ UNCHANGED input => Fetched(b, c)
         /\ Consume(0) => Fetched(b, c)
         /\ Consume(1) => Fetched(b, c1)
         /\ Consume(2) => Fetched(b, c2)
         /\ Consume(3) => Fetched(b, c3)
         /\ {c1, c2, c3} \subseteq Positions(b)
         /\ Lexed(0).token = TokenAt(b, c) /\ Lexed(1).token = TokenAt(b, c1)
         /\ Lexed(2).token = TokenAt(b, c2)
  <1>1. /\ {c1, c2, c3} \subseteq Positions(b)
        /\ Lexed(0) = Lex(b, c) /\ Lexed(1) = Lex(b, c1)
        /\ Lexed(2) = Lex(b, c2) /\ Lexed(3) = Lex(b, c3)
    BY Here, LexedAt
  <1>2. \A d \in Positions(b) : Lex(b, d) = [token |-> Lex(b, d).token, pos |-> Lex(b, d).pos]
    BY Here, LexFacts DEF Positions
  <1>3. ASSUME NEW n, NEW d \in Positions(b), Lexed(n) = Lex(b, d), Consume(n) PROVE Fetched(b, d)
    BY <1>2, <1>3 DEF Consume, Fetched
  <1>4. UNCHANGED input => Fetched(b, c)
    BY Here DEF input, Fetched
  <1>5. c \in Positions(b)
    BY Here
  <1> QED BY <1>1, <1>3, <1>4, <1>5 DEF TokenAt

\* A record calls another function, and no token is fetched.
LEMMA CallKnows ==
  ASSUME NEW b, NEW c, NEW V, GoesOn(b, V, c), NEW fn \in Names, NEW at \in Places[Top.fn],
         NEW held \in Nat, NEW arg \in Nat, Call(fn, arg, at, held), ~ InGroup(Top),
         UNCHANGED <<message, flags>>, NEW d, Fetched(b, d),
         NEW U, U = IF Top.fn = "group" /\ at = "regex" THEN Opened(b, V) ELSE V,
         \A x, y, e : /\ y = Record(fn, "begin", arg) /\ y.fn = fn /\ y.at = "begin" /\ y.held = arg
                      /\ x.at = at
                      /\ fn = "group" => e = x
                      /\ Top.fn = "group" /\ fn # "group" => e = Caller(stack)
                      => Running(b, y, e, U, d)
  PROVE  Outcome(b)
  <1> DEFINE x == Record(Top.fn, at, held)
             y == Record(fn, "begin", arg)
  <1>1. stack' = Below \o <<x, y>> /\ ret' = RUNNING
    BY DEF Call
  <1>2. Top.fn \in Names
    BY Here DEF Frame
  <1>3. "begin" \in Places[fn]
    BY DEF Places, Names
  <1>4. /\ x \in Frame /\ y \in Frame /\ x.fn = Top.fn /\ x.at = at
        /\ y.fn = fn /\ y.at = "begin" /\ y.held = arg
    BY <1>2, <1>3, Callers
  <1>5. y = Record(fn, "begin", arg)
    OBVIOUS
  <1> HIDE DEF x, y
  <1>6. ~ InGroup(y) /\ (InGroup(x) <=> Top.fn = "group" /\ at = "regex")
    BY <1>4 DEF InGroup
  <1>7. MayCall(b, x, y, U, d)
    BY <1>4, <1>5 DEF MayCall
  <1>8. U = IF InGroup(x) THEN Opened(b, V) ELSE V
    BY <1>6
  <1>9. /\ x \in Frame /\ y \in Frame /\ x.fn = Top.fn
        /\ stack' = Below \o <<x, y>> /\ ret' = RUNNING
    BY <1>1, <1>4
  <1> QED BY <1>6, <1>7, <1>8, <1>9, PushKnows

\* The steps of regex().
LEMMA RegexKnows ==
  ASSUME NEW b, NEW c, NEW V, GoesOn(b, V, c),
         RegexBegin \/ RegexAfterGroup \/ RegexEnd
  PROVE  Outcome(b)
  <1>1. /\ stack # <<>> /\ Top.fn = "regex" /\ ~ InGroup(Top) /\ Fetched(b, c)
    <2>1. stack # <<>> /\ Top.fn = "regex" /\ UNCHANGED input
      BY DEF RegexBegin, RegexAfterGroup, RegexEnd, Runs, Resumes, OnlyControl
    <2> QED BY <2>1, FetchedAt DEF InGroup
  <1>2. CASE RegexBegin
    <2>1. ret = RUNNING /\ Call("group", NULL, "group", NULL) /\ UNCHANGED <<message, flags>>
      BY <1>2 DEF RegexBegin, Runs, OnlyControl, NoError
    <2>2. Sure(b, RegexEnds(b, c), V)
      BY <1>1, <2>1, Here DEF Running
    <2>3. ASSUME NEW x, NEW y, y.fn = "group", x.at = "group" PROVE Running(b, y, x, V, c)
      BY <2>2, <2>3 DEF Running, Ends
    <2>4. "group" \in Names /\ "group" \in Places[Top.fn] /\ NULL \in Nat
      BY <1>1 DEF Names, Places, NULL
    <2> QED BY <1>1, <2>1, <2>3, <2>4, CallKnows
  <1>3. CASE RegexAfterGroup
    <2>1. ret # RUNNING /\ Top.at = "group" /\ UNCHANGED <<message, flags>>
      BY <1>3 DEF RegexAfterGroup, Resumes, OnlyControl, NoError
    <2>2. IF ret = NULL THEN Lost(b) ELSE Sure(b, AfterPiece(b, c), V)
      BY <2>1, Here DEF Returned
    <2>3. CASE ret = NULL
      <3>1. stack' = Below /\ ret' = NULL
        BY <1>3, <2>3 DEF RegexAfterGroup, Return
      <3>2. Gives(b, Top.fn, ret', V, c)
        BY <1>1, <2>2, <2>3, <3>1 DEF Gives, Calls, Returned
      <3> QED BY <1>1, <2>1, <3>1, <3>2, Here, PopKnows
    <2>4. CASE ret # NULL
      <3>1. Call("gprime", ret, "gprime", ret)
        BY <1>3, <2>4 DEF RegexAfterGroup
      <3>2. "gprime" \in Names /\ "gprime" \in Places[Top.fn] /\ ret \in Nat
        BY <1>1, <2>1, <2>4, Here, Now DEF Names, Places
      <3>3. ASSUME NEW y, NEW e, y.fn = "gprime" PROVE Running(b, y, e, V, c)
        BY <2>2, <2>4, <3>3 DEF Running
      <3> QED BY <1>1, <2>1, <3>1, <3>2, <3>3, CallKnows
    <2> QED BY <2>3, <2>4
  <1>4. CASE RegexEnd
    <2>1. ret # RUNNING /\ Top.at = "gprime" /\ stack' = Below /\ Top.held # NULL /\ Top.held \in Nat
      BY <1>1, <1>4, Here DEF RegexEnd, Resumes, Return, HoldsWhatItMay, Frame
    <2>2. /\ IF ret = NULL THEN Lost(b)
             ELSE Sure(b, AfterPiece(b, c), V) /\ token \in {TK_EOF, TK_RPAREN}
          /\ ret = NULL => token \notin {TK_EOF, TK_RPAREN}
      BY <2>1, Here DEF Returned
    <2>3. CASE ret # NULL
      <3>1. ret' = Top.held /\ UNCHANGED <<message, flags>>
        BY <1>4, <2>3 DEF RegexEnd, Return, NoError
      <3>2. Gives(b, Top.fn, ret', V, c)
        BY <1>1, <2>1, <2>2, <2>3, <3>1, Here DEF Gives, Calls, Returned
      <3>3. ret' # RUNNING
        BY <2>1, <3>1 DEF RUNNING
      <3> QED BY <1>1, <2>1, <3>1, <3>2, <3>3, PopKnows
    <2>4. CASE ret = NULL
      <3>1. Error({})
        BY <1>4, <2>2, <2>4, Here DEF RegexEnd, Silent
      <3> QED BY <1>1, <2>2, <2>4, <3>1, Here, GivesUp
    <2> QED BY <2>3, <2>4
  <1> QED BY <1>2, <1>3, <1>4

\* The steps of gprime().
LEMMA GprimeKnows ==
  ASSUME NEW b, NEW c, NEW V, GoesOn(b, V, c),
         \/ GprimeBegin \/ GprimeAppend \/ GprimeUnion \/ GprimePipe \/ GprimeEnd
         \/ GprimeNothingAfterPipe
  PROVE  Outcome(b)
  <1>1. /\ stack # <<>> /\ Top.fn = "gprime" /\ ~ InGroup(Top)
        /\ Top.held \in Nat /\ Top.held # NULL /\ Top.held # RUNNING
    <2>1. stack # <<>> /\ Top.fn = "gprime"
      BY DEF GprimeBegin, GprimeAppend, GprimeUnion, GprimeJoin, GprimePipe, GprimeEnd,
             GprimeNothingAfterPipe, Runs, Resumes
    <2> QED BY <2>1, Here DEF InGroup, HoldsWhatItMay, Frame, RUNNING
  <1>2. ASSUME UNCHANGED input PROVE Fetched(b, c)
    BY <1>2, FetchedAt
  <1>3. "group" \in Names /\ {"append", "union"} \subseteq Places[Top.fn] /\ NULL \in Nat
    BY <1>1 DEF Names, Places, NULL
  <1>4. CASE GprimeBegin
    <2>1. ret = RUNNING /\ Call("group", NULL, "append", Top.held) /\ UNCHANGED <<message, flags>>
          /\ UNCHANGED input
      BY <1>4 DEF GprimeBegin, Runs, OnlyControl, NoError
    <2>2. Sure(b, AfterPiece(b, c), V)
      BY <1>1, <2>1, Here DEF Running
    <2>3. ASSUME NEW x, NEW y, y.fn = "group", x.at = "append" PROVE Running(b, y, x, V, c)
      BY <2>2, <2>3 DEF Running, Ends
    <2> QED BY <1>1, <1>2, <1>3, <2>1, <2>3, CallKnows
  <1>5. ASSUME NEW how \in {"append", "union"}, GprimeJoin(how) PROVE Outcome(b)
    <2> DEFINE x == Record("gprime", "begin", Either(Top.held, ret))
    <2>1. /\ ret # RUNNING /\ ret # NULL /\ Top.at = how /\ UNCHANGED <<message, flags>>
          /\ UNCHANGED input /\ stack' = Append(Below, x) /\ ret' = RUNNING
      BY <1>5 DEF GprimeJoin, Resumes, NoError, TailCall
    <2>2. Sure(b, AfterPiece(b, c), V)
      BY <2>1, Here DEF Returned
    <2>3. x \in Frame /\ x.fn = "gprime" /\ x.at = "begin"
      <3>1. Either(Top.held, ret) \in Nat
        BY <1>1, <2>1, Here, Now DEF Either
      <3>2. "gprime" \in Names /\ "begin" \in Places["gprime"]
        BY DEF Names, Places
      <3> QED BY <3>1, <3>2, Callers
    <2> HIDE DEF x
    <2>4. ~ InGroup(x) /\ \A e : Running(b, x, e, V, c)
      BY <2>2, <2>3 DEF Running, InGroup
    <2> QED BY <1>1, <1>2, <2>1, <2>3, <2>4, ReplaceKnows
  <1>6. CASE GprimePipe
    <2>1. /\ ret # RUNNING /\ ret = NULL /\ Top.at = "append" /\ token = TK_PIPE
          /\ Consume(1) /\ Call("group", NULL, "union", Top.held) /\ UNCHANGED <<message, flags>>
      BY <1>6 DEF GprimePipe, Resumes, NoError
    <2> DEFINE d == Beyond(b, c)
    <2>2. Fetched(b, d)
      BY <2>1, FetchedAt
    <2>3. Sure(b, AfterPiece(b, c), V)
      BY <2>1, Here DEF Returned
    <2>4. Sure(b, RegexEnds(b, d), V)
      BY <2>1, <2>3, Here, SurePiece
    <2> HIDE DEF d
    <2>5. ASSUME NEW x, NEW y, y.fn = "group", x.at = "union" PROVE Running(b, y, x, V, d)
      BY <2>4, <2>5 DEF Running, Ends
    <2> QED BY <1>1, <1>3, <2>1, <2>2, <2>5, CallKnows
  <1>7. CASE GprimeEnd
    <2>1. /\ ret # RUNNING /\ ret = NULL /\ Top.at = "append" /\ token # TK_PIPE
          /\ UNCHANGED input /\ UNCHANGED <<message, flags>> /\ stack' = Below
          /\ ret' = IF token \in {TK_EOF, TK_RPAREN} THEN Top.held ELSE NULL
      BY <1>7 DEF GprimeEnd, Resumes, OnlyControl, NoError, Return
    <2>2. Sure(b, AfterPiece(b, c), V) /\ ~ Starts(token)
      BY <2>1, Here DEF Returned
    <2>3. token \notin {TK_EOF, TK_RPAREN} => Lost(b)
      <3>1. token > TK_PIPE => Lost(b)
        BY <2>2, Here, SurePiece
      <3>2. token \notin {TK_EOF, TK_RPAREN} => token > TK_PIPE
        <4>1. token \in 0 .. 255 /\ TK_PIPE = 132
          BY Here, TokenNames DEF TokensByName
        <4>2. token \notin {TK_EOF, TK_RPAREN, TK_PIPE} /\ token <= TK_PIPE => Starts(token)
          BY <4>1, TokenOrder
        <4> QED BY <2>1, <2>2, <4>1, <4>2
      <3> QED BY <3>1, <3>2 DEF Lost
    <2>4. token = TokenAt(b, c)
      BY Here
    <2>5. Gives(b, Top.fn, ret', V, c)
      <3>1. ASSUME NEW m, Calls(m, Top.fn) PROVE m.at \in {"gprime", "group", "append", "union"}
        BY <1>1, <3>1 DEF Calls
      <3>2. ASSUME NEW m, NEW e, m.at \in {"gprime", "group", "append", "union"}
            PROVE  Returned(b, m, e, ret', V, c)
        <4>1. CASE token \in {TK_EOF, TK_RPAREN}
          BY <1>1, <2>1, <2>2, <2>4, <3>2, <4>1 DEF Returned
        <4>2. CASE token \notin {TK_EOF, TK_RPAREN}
          BY <2>1, <2>2, <2>3, <2>4, <3>2, <4>2 DEF Returned
        <4> QED BY <4>1, <4>2
      <3> QED BY <1>1, <3>1, <3>2 DEF Gives
    <2>6. ret' # RUNNING
      BY <1>1, <2>1, Here
    <2> QED BY <1>1, <1>2, <2>1, <2>5, <2>6, PopKnows
  <1>8. CASE GprimeNothingAfterPipe
    <2>1. /\ ret # RUNNING /\ ret = NULL /\ Top.at = "union" /\ UNCHANGED input
          /\ \E set : Fail(set, Top.held)
      BY <1>8 DEF GprimeNothingAfterPipe, Resumes
    <2>2. Lost(b)
      BY <2>1, Here DEF Returned
    <2> QED BY <1>2, <2>1, <2>2, Here, GivesUp
  <1> QED BY <1>4, <1>5, <1>6, <1>7, <1>8 DEF GprimeAppend, GprimeUnion

\* group() returns the group, with the quantifier that comes after it.
LEMMA ReturnKnows ==
  ASSUME NEW b, NEW c, NEW V, GoesOn(b, V, c), Top.fn = "group",
         ret \notin {NULL, RUNNING}, NEW n \in {0, 1}, ReturnQuantified(n),
         NEW d \in Positions(b), d = IF n = 0 THEN c ELSE Beyond(b, c),
         NEW U \in SUBSET Stops(b), V = IF InGroup(Top) THEN Opened(b, U) ELSE U,
         \A m \in Frame, U1 \in SUBSET Stops(b) :
           V = (IF InGroup(Top) THEN Opened(b, U1) ELSE U1) => Sure(b, AfterAtom(b, d), U1)
  PROVE  Outcome(b)
  <1> DEFINE tk == TokenAt(b, d)
             next == Beyond(b, d)
  <1>1. /\ Lexed(n).token = tk /\ (Consume(n) => Fetched(b, d)) /\ (Consume(n + 1) => Fetched(b, next))
    <2>1. CASE n = 0
      BY <2>1, FetchedAt
    <2>2. CASE n = 1
      <3>1. n + 1 = 2
        BY <2>2
      <3> QED BY <2>2, <3>1, FetchedAt
    <2> QED BY <2>1, <2>2
  <1> HIDE DEF tk, next
  <1>2. CASE MayFollow(tk)
    <2> DEFINE e == IF IsQuantifier(tk) THEN next ELSE d
    <2>1. stack' = Below /\ ret' = ret /\ UNCHANGED <<message, flags>> /\ Fetched(b, e)
      BY <1>1, <1>2 DEF ReturnQuantified, Return, NoError, ConsumeQuantified
    <2>2. ASSUME NEW U1 \in SUBSET Stops(b), Sure(b, AfterAtom(b, d), U1)
          PROVE  Sure(b, AfterPiece(b, e), U1)
      BY <2>2, Here, SureAtom DEF tk, next
    <2> HIDE DEF e
    <2>3. ASSUME NEW m \in Frame, NEW U1 \in SUBSET Stops(b), NEW caller, Calls(m, "group"),
                 V = IF InGroup(Top) THEN Opened(b, U1) ELSE U1
          PROVE  Returned(b, m, caller, ret', U1, e)
      <3>1. Sure(b, AfterPiece(b, e), U1)
        BY <2>2, <2>3
      <3>2. m.at \in {"group", "append", "union"}
        BY <2>3 DEF Calls
      <3> QED BY <2>1, <3>1, <3>2 DEF Returned
    <2>4. Gives(b, Top.fn, ret', V, e)
      BY <2>3 DEF Gives
    <2> QED BY <2>1, <2>4, PopKnows
  <1>3. CASE ~ MayFollow(tk)
    <2>1. Fail({}, NULL) /\ Fetched(b, d)
      BY <1>1, <1>3 DEF ReturnQuantified
    <2>2. Top \in Frame /\ b \in Seq(0 .. 255) /\ Silent(b, c)
      BY Here
    <2>3. Sure(b, AfterAtom(b, d), U)
      BY <2>2
    <2>4. Lost(b)
      BY <1>3, <2>2, <2>3, SureAtom DEF tk
    <2> QED BY <2>1, <2>2, <2>4, GivesUp
  <1> QED BY <1>2, <1>3

\* Where the regular expression may end that a group is a part of.
LEMMA InsideGroup ==
  ASSUME NEW b, NEW c, NEW V, GoesOn(b, V, c), Top.fn = "group"
  PROVE  \E U \in SUBSET Stops(b) : V = IF InGroup(Top) THEN Opened(b, U) ELSE U
  <1> DEFINE st == stack
             new == Rest(st)
  <1>1. WellCalled(st) /\ st # <<>> /\ st \in Seq(Frame) /\ Top = st[Len(st)]
    BY Now DEF GoesOn, Top
  <1>2. new # <<>> /\ Len(st) > 1 /\ new \in Seq(Frame)
    BY <1>1, PoppedCaller, StackFacts
  <1>3. PICK U : Aims(b, new, U) /\ V = IF InGroup(Top) THEN Opened(b, U) ELSE U
    BY <1>1, <1>2, AimsPopped DEF GoesOn, Knows
  <1> HIDE DEF new
  <1>4. U \in SUBSET Stops(b)
    BY <1>2, <1>3, AimsFacts
  <1> QED BY <1>3, <1>4

\* regex() has come to the parenthesis that closes the group, or to another end.
LEMMA AtParenthesis ==
  ASSUME NEW b, NEW c, NEW V, GoesOn(b, V, c), InGroup(Top), ret \notin {NULL, RUNNING},
         NEW U \in SUBSET Stops(b), V = Opened(b, U)
  PROVE  /\ token # TK_RPAREN => Lost(b)
         /\ token = TK_RPAREN => Sure(b, AfterAtom(b, Beyond(b, c)), U)
  <1>1. Sure(b, AfterPiece(b, c), V) /\ token \in {TK_EOF, TK_RPAREN}
    BY Here DEF Returned, InGroup
  <1>2. Sure(b, {c}, V)
    <2>1. /\ b \in Seq(0 .. 255) /\ c \in Positions(b) /\ V \in SUBSET Stops(b)
          /\ token = TokenAt(b, c)
      BY Here
    <2> QED BY <1>1, <2>1, SurePiece
  <1>3. Meets({c}, V) <=> token = TK_RPAREN /\ Meets(AfterAtom(b, Beyond(b, c)), U)
    <2>1. Meets({c}, V) <=> c \in V
      BY DEF Meets
    <2> QED BY <2>1, Here DEF Opened
  <1> QED BY <1>2, <1>3 DEF Sure, Lost

\* The steps of group().
LEMMA GroupKnows ==
  ASSUME NEW b, NEW c, NEW V, GoesOn(b, V, c),
         \/ GroupBegin \/ GroupMalformed \/ GroupUnclosed \/ GroupClosed
         \/ GroupAfterPattern \/ GroupAfterRange
  PROVE  Outcome(b)
  <1> DEFINE caller == Caller(stack)
             d == Beyond(b, c)
  <1>1. stack # <<>> /\ Top.fn = "group"
    BY DEF GroupBegin, GroupMalformed, GroupUnclosed, GroupClosed, GroupAfterPattern,
           GroupAfterRange, Runs, Resumes
  <1>2. ASSUME UNCHANGED input PROVE Fetched(b, c)
    BY <1>2, FetchedAt
  <1>3. {"regex", "pattern", "range", "gprime"} \subseteq Names /\ NULL \in Nat
        /\ {"regex", "pattern", "range"} \subseteq Places[Top.fn]
    BY <1>1 DEF Names, Places, NULL
  <1>4. PICK U \in SUBSET Stops(b) : V = IF InGroup(Top) THEN Opened(b, U) ELSE U
    BY <1>1, InsideGroup
  <1>5. b \in Seq(0 .. 255) /\ c \in Positions(b) /\ d \in Positions(b) /\ V \in SUBSET Stops(b)
        /\ token = TokenAt(b, c) /\ RUNNING # NULL
    BY Here, TokenFacts
  <1> HIDE DEF caller, d
  <1>6. CASE GroupBegin
    <2>1. ret = RUNNING /\ Top.at = "begin" /\ ~ InGroup(Top) /\ UNCHANGED <<message, flags>>
      BY <1>6 DEF GroupBegin, Runs, NoError, InGroup
    <2>2. Sure(b, Ends(b, caller, c), V)
      BY <1>1, <2>1, Here DEF Running, caller
    <2>3. CASE token = TK_LPAREN
      <3>1. Consume(1) /\ Call("regex", NULL, "regex", NULL)
        BY <1>6, <2>3 DEF GroupBegin
      <3>2. Fetched(b, d)
        BY <3>1, FetchedAt DEF d
      <3>3. Sure(b, RegexEnds(b, c), V)
        BY <1>5, <2>2, <2>3, SureEnds DEF Starts
      <3>4. Sure(b, RegexEnds(b, d), Opened(b, V))
        BY <1>5, <2>3, <3>3, SureStart DEF d
      <3>5. ASSUME NEW y, NEW e, y.fn = "regex" PROVE Running(b, y, e, Opened(b, V), d)
        BY <3>4, <3>5 DEF Running
      <3>6. /\ "regex" \in Names /\ "regex" \in Places[Top.fn] /\ NULL \in Nat
            /\ Opened(b, V) = IF Top.fn = "group" /\ "regex" = "regex" THEN Opened(b, V) ELSE V
        BY <1>1, <1>3
      <3> HIDE DEF d
      <3> QED BY <2>1, <3>1, <3>2, <3>5, <3>6, CallKnows
    <2>4. CASE token # TK_LPAREN
      <3>1. UNCHANGED input /\ Call("pattern", NULL, "pattern", NULL)
        BY <1>6, <2>4 DEF GroupBegin
      <3>2. ASSUME NEW y, y.fn = "pattern", y.held = NULL
            PROVE  Running(b, y, caller, V, c)
        BY <1>5, <2>2, <2>4, <3>2 DEF Running
      <3> QED BY <1>1, <1>2, <1>3, <2>1, <3>1, <3>2, CallKnows DEF caller
    <2> QED BY <2>3, <2>4
  <1>7. CASE GroupMalformed
    <2>1. Top.at = "regex" /\ ret = NULL /\ UNCHANGED input /\ Fail({}, NULL)
      BY <1>7 DEF GroupMalformed, Resumes
    <2>2. Lost(b)
      BY <1>5, <2>1, Here DEF Returned
    <2> QED BY <1>2, <2>1, <2>2, Here, GivesUp
  <1>8. CASE GroupUnclosed
    <2>1. InGroup(Top) /\ ret \notin {NULL, RUNNING} /\ token # TK_RPAREN /\ UNCHANGED input
          /\ \E set : Fail(set, ret)
      BY <1>1, <1>8 DEF GroupUnclosed, Resumes, InGroup
    <2>2. Lost(b)
      BY <1>4, <2>1, AtParenthesis
    <2> QED BY <1>2, <2>1, <2>2, Here, GivesUp
  <1>9. CASE GroupClosed
    <2>1. InGroup(Top) /\ ret \notin {NULL, RUNNING} /\ token = TK_RPAREN /\ ReturnQuantified(1)
      BY <1>1, <1>9 DEF GroupClosed, Resumes, InGroup
    <2>2. ASSUME NEW U1 \in SUBSET Stops(b), V = Opened(b, U1)
          PROVE  Sure(b, AfterAtom(b, d), U1)
      BY <2>1, <2>2, AtParenthesis DEF d
    <2>3. 1 \in {0, 1} /\ d = IF 1 = 0 THEN c ELSE Beyond(b, c)
      BY DEF d
    <2> QED BY <1>1, <1>4, <1>5, <2>1, <2>2, <2>3, ReturnKnows
  <1>10. CASE GroupAfterPattern
    <2>1. /\ ret # RUNNING /\ Top.at = "pattern" /\ ~ InGroup(Top)
          /\ UNCHANGED input /\ UNCHANGED <<message, flags>>
      BY <1>10 DEF GroupAfterPattern, Resumes, OnlyControl, NoError, InGroup
    <2>2. IF ret # NULL THEN Sure(b, AfterPiece(b, c), V)
          ELSE /\ Sure(b, Ends(b, caller, c), V)
               /\ ~ IsCharacter(token) /\ token # TK_LPAREN
      BY <2>1, Here DEF Returned, caller
    <2>3. CASE ret # NULL
      <3> DEFINE x == Record("gprime", "begin", ret)
      <3>1. stack' = Append(Below, x) /\ ret' = RUNNING
        BY <1>10, <2>3 DEF GroupAfterPattern, TailCall
      <3>2. x \in Frame /\ x.fn = "gprime" /\ x.at = "begin"
        <4>1. ret \in Nat
          BY <2>1, <2>3, Here, Now
        <4>2. "begin" \in Places["gprime"]
          BY DEF Places
        <4> QED BY <1>3, <4>1, <4>2, Callers
      <3> HIDE DEF x
      <3>3. ~ InGroup(x) /\ \A e : Running(b, x, e, V, c)
        BY <2>2, <2>3, <3>2 DEF Running, InGroup
      <3> QED BY <1>2, <2>1, <3>1, <3>2, <3>3, ReplaceKnows
    <2>4. CASE ret = NULL
      <3>1. Call("range", NULL, "range", NULL)
        BY <1>10, <2>4 DEF GroupAfterPattern
      <3>2. ASSUME NEW y, y.fn = "range", y.at = "begin"
            PROVE  Running(b, y, caller, V, c)
        BY <1>5, <2>2, <2>4, <3>2 DEF Running
      <3>3. "range" \in Names /\ "range" \in Places[Top.fn] /\ Fetched(b, c)
        BY <1>2, <1>3, <2>1
      <3>4. V = IF Top.fn = "group" /\ "range" = "regex" THEN Opened(b, V) ELSE V
        OBVIOUS
      <3> QED BY <1>1, <1>3, <2>1, <3>1, <3>2, <3>3, <3>4, CallKnows DEF caller
    <2> QED BY <2>3, <2>4
  <1>11. CASE GroupAfterRange
    <2>1. ret # RUNNING /\ Top.at = "range" /\ ~ InGroup(Top)
      BY <1>11 DEF GroupAfterRange, Resumes, InGroup
    <2>2. IF ret # NULL THEN Sure(b, AfterAtom(b, c), V)
          ELSE Sure(b, Ends(b, caller, c), V) /\ ~ Starts(token)
      BY <2>1, Here DEF Returned, caller
    <2>3. CASE ret # NULL
      <3>1. ReturnQuantified(0)
        BY <1>11, <2>3 DEF GroupAfterRange
      <3>2. 0 \in {0, 1} /\ c = IF 0 = 0 THEN c ELSE Beyond(b, c)
        OBVIOUS
      <3>3. \A U1 \in SUBSET Stops(b) : V = U1 => Sure(b, AfterAtom(b, c), U1)
        BY <2>2, <2>3
      <3> QED BY <1>1, <1>4, <1>5, <2>1, <2>3, <3>1, <3>2, <3>3, ReturnKnows
    <2>4. CASE ret = NULL
      <3>1. stack' = Below /\ ret' = NULL /\ UNCHANGED input /\ UNCHANGED <<message, flags>>
        BY <1>11, <2>4 DEF GroupAfterRange, Return, OnlyControl, NoError
      <3>2. ASSUME NEW e, Calls(caller, "group") PROVE Returned(b, caller, e, NULL, V, c)
        <4>1. caller.at \in {"group", "append", "union"}
          BY <3>2 DEF Calls
        <4>2. CASE caller.at = "append"
          <5>1. Sure(b, AfterPiece(b, c), V)
            BY <2>2, <2>4, <4>2 DEF Ends
          <5> QED BY <1>5, <2>2, <2>4, <4>2, <5>1 DEF Returned
        <4>3. CASE caller.at # "append"
          <5>1. Lost(b)
            <6>1. ~ Starts(token) => Lost(b)
              BY <1>5, <2>2, <2>4, <4>3, SureEnds
            <6> QED BY <2>2, <2>4, <6>1 DEF Lost
          <5> QED BY <4>1, <4>3, <5>1 DEF Returned
        <4> QED BY <4>2, <4>3
      <3>3. Gives(b, Top.fn, ret', V, c)
        BY <1>1, <2>1, <3>1, <3>2 DEF Gives, caller
      <3> QED BY <1>1, <1>2, <1>5, <3>1, <3>3, PopKnows
    <2> QED BY <2>3, <2>4
  <1> QED BY <1>6, <1>7, <1>8, <1>9, <1>10, <1>11

\* pattern() and range() go on.
LEMMA LoopKnows ==
  ASSUME NEW b, NEW c, NEW V, GoesOn(b, V, c), Top.fn \in {"pattern", "range"},
         NEW at \in Places[Top.fn], NEW held \in Nat, Loop(at, held),
         UNCHANGED <<message, flags>>, NEW d, Fetched(b, d),
         \A x, e : x.fn = Top.fn /\ x.at = at /\ x.held = held => Running(b, x, e, V, d)
  PROVE  Outcome(b)
  <1> DEFINE x == Record(Top.fn, at, held)
  <1>1. stack' = Append(Below, x) /\ ret' = RUNNING
    BY DEF Loop
  <1>2. Top.fn \in Names
    BY DEF Names
  <1>3. x \in Frame /\ x.fn = Top.fn /\ x.at = at /\ x.held = held
    BY <1>2, Callers
  <1> HIDE DEF x
  <1>4. ~ InGroup(Top) /\ ~ InGroup(x)
    BY <1>3 DEF InGroup
  <1> QED BY <1>1, <1>3, <1>4, ReplaceKnows

\* They go on with one more piece.
LEMMA JoinKnows ==
  ASSUME NEW b, NEW c, NEW V, GoesOn(b, V, c), Top.fn \in {"pattern", "range"},
         NEW at \in Places[Top.fn], NEW words, NEW how, JoinNew(at, words, how),
         NEW d, Fetched(b, d),
         \A x, e : x.fn = Top.fn /\ x.at = at /\ x.held # NULL => Running(b, x, e, V, d)
  PROVE  Outcome(b)
  <1> DEFINE held == Either(Top.held, NewNFA(heap))
  <1>1. Loop(at, held) /\ UNCHANGED <<message, flags>>
    BY DEF JoinNew, NoError
  <1>2. held \in Nat /\ held # NULL
    <2>1. NewNFA(heap) \in Nat \ {NULL} /\ Top.held \in Nat
      BY Here, FreshNFA DEF Frame
    <2> QED BY <2>1 DEF Either
  <1> HIDE DEF held
  <1>3. \A x, e : x.fn = Top.fn /\ x.at = at /\ x.held = held => Running(b, x, e, V, d)
    BY <1>2
  <1> QED BY <1>1, <1>2, <1>3, LoopKnows

\* pattern() finds a character, or an end, where it has or has not got a piece.
LEMMA AtPattern ==
  ASSUME NEW b, NEW c, NEW V, GoesOn(b, V, c), Top.fn = "pattern", ret = RUNNING
  PROVE  /\ IsCharacter(token) => Sure(b, AfterAtom(b, Beyond(b, c)), V)
         /\ token > TK_PIPE => Lost(b)
         /\ Top.held = NULL => Sure(b, Ends(b, Caller(stack), c), V) /\ token # TK_LPAREN
         /\ Top.held # NULL => Sure(b, AfterPiece(b, c), V)
  <1>1. /\ Top.held = NULL => Sure(b, Ends(b, Caller(stack), c), V) /\ token # TK_LPAREN
        /\ Top.held # NULL => Sure(b, AfterPiece(b, c), V)
    BY Here DEF Running
  <1>2. b \in Seq(0 .. 255) /\ c \in Positions(b) /\ V \in SUBSET Stops(b) /\ token = TokenAt(b, c)
    BY Here
  <1>3. token > TK_PIPE => Lost(b)
    BY <1>1, <1>2, SureEnds, SurePiece
  <1>4. ASSUME IsCharacter(token) PROVE Sure(b, AfterAtom(b, Beyond(b, c)), V)
    <2>1. Starts(token)
      BY <1>4 DEF Starts
    <2>2. Sure(b, RegexEnds(b, c), V)
      BY <1>1, <1>2, <2>1, SureEnds, SurePiece
    <2> QED BY <1>2, <1>4, <2>2, SureStart
  <1> QED BY <1>1, <1>3, <1>4

\* The steps of pattern().
LEMMA PatternKnows ==
  ASSUME NEW b, NEW c, NEW V, GoesOn(b, V, c), PatternCharacter \/ PatternEnd
  PROVE  Outcome(b)
  <1> DEFINE d == Beyond(b, c)
             tk == TokenAt(b, d)
             next == Beyond(b, d)
  <1>1. stack # <<>> /\ Top.fn = "pattern" /\ ret = RUNNING /\ ~ InGroup(Top)
    BY DEF PatternCharacter, PatternEnd, Runs, InGroup
  <1>2. /\ b \in Seq(0 .. 255) /\ c \in Positions(b) /\ V \in SUBSET Stops(b)
        /\ token = TokenAt(b, c) /\ token \in 0 .. 255 /\ RUNNING # NULL /\ Silent(b, c)
    BY Here
  <1>3. d \in Positions(b) /\ Lexed(1).token = tk /\ (Consume(1) => Fetched(b, d))
        /\ (Consume(2) => Fetched(b, next)) /\ (UNCHANGED input => Fetched(b, c))
    BY FetchedAt
  <1> HIDE DEF d, tk, next
  <1>4. CASE PatternCharacter
    <2>1. Sure(b, AfterAtom(b, d), V)
      BY <1>1, <1>4, AtPattern DEF PatternCharacter, IsCharacter, d
    <2>2. /\ IsQuantifier(tk) => Sure(b, AfterPiece(b, next), V)
          /\ ~ IsQuantifier(tk) => Sure(b, AfterPiece(b, d), V)
          /\ ~ MayFollow(tk) => Lost(b)
      BY <1>2, <1>3, <2>1, SureAtom DEF tk, next
    <2>3. CASE MayFollow(tk)
      <3> DEFINE e == IF IsQuantifier(tk) THEN next ELSE d
      <3>1. \E words : JoinNew("begin", words, "append")
        BY <1>3, <1>4, <2>3 DEF PatternCharacter
      <3>2. Fetched(b, e)
        <4>1. ConsumeQuantified(1)
          BY <1>3, <1>4, <2>3 DEF PatternCharacter
        <4>2. 1 + 1 = 2
          OBVIOUS
        <4> QED BY <1>3, <4>1, <4>2 DEF ConsumeQuantified
      <3>3. Sure(b, AfterPiece(b, e), V)
        BY <2>2
      <3> HIDE DEF e
      <3>4. ASSUME NEW x, NEW k, x.fn = "pattern", x.held # NULL
            PROVE  Running(b, x, k, V, e)
        BY <3>3, <3>4 DEF Running
      <3>5. "begin" \in Places[Top.fn]
        BY <1>1 DEF Places
      <3> QED BY <1>1, <3>1, <3>2, <3>4, <3>5, JoinKnows
    <2>4. CASE ~ MayFollow(tk)
      <3>1. Consume(1) /\ Fail({}, Top.held)
        BY <1>3, <1>4, <2>4 DEF PatternCharacter
      <3> QED BY <1>2, <1>3, <2>2, <2>4, <3>1, GivesUp
    <2> QED BY <2>3, <2>4
  <1>5. CASE PatternEnd
    <2>1. UNCHANGED input /\ token > TK_WILDCARD
      BY <1>5 DEF PatternEnd
    <2>2. CASE token <= TK_PIPE
      <3>1. stack' = Below /\ ret' = Top.held /\ UNCHANGED <<message, flags>>
        BY <1>5, <2>2 DEF PatternEnd, Return, NoError
      <3>2. ret' # RUNNING
        BY <3>1, Here DEF Frame, RUNNING
      <3>3. ~ IsCharacter(token)
        BY <1>2, <2>1, TokenNames DEF IsCharacter, TokensByName
      <3>4. ASSUME NEW m, Calls(m, "pattern") PROVE Returned(b, m, Caller(stack), Top.held, V, c)
        <4>1. m.at = "pattern"
          BY <3>4 DEF Calls
        <4> QED BY <1>1, <1>2, <3>3, <4>1, AtPattern DEF Returned
      <3>5. Gives(b, Top.fn, ret', V, c)
        BY <1>1, <3>1, <3>4 DEF Gives
      <3> QED BY <1>1, <1>3, <2>1, <3>1, <3>2, <3>5, PopKnows
    <2>3. CASE ~ (token <= TK_PIPE)
      <3>1. Fail({"DISABLE_ERROR_MSG"}, Top.held)
        BY <1>5, <2>3 DEF PatternEnd
      <3>2. token > TK_PIPE
        BY <1>2, <2>3, TokenNames DEF TokensByName
      <3>3. Lost(b)
        BY <1>1, <3>2, AtPattern
      <3> QED BY <1>2, <1>3, <2>1, <3>1, <3>3, GivesUp
    <2> QED BY <2>2, <2>3
  <1> QED BY <1>4, <1>5

\* The steps of range().
LEMMA RangeKnows ==
  ASSUME NEW b, NEW c, NEW V, GoesOn(b, V, c),
         RangeNone \/ RangeBegin \/ AllowedCharacter \/ AllowedRange \/ RangeEnd
  PROVE  Outcome(b)
  <1> DEFINE c1 == Beyond(b, c)
             c2 == Beyond(b, c1)
             c3 == Beyond(b, c2)
             caller == Caller(stack)
  <1>1. stack # <<>> /\ Top.fn = "range" /\ ret = RUNNING /\ ~ InGroup(Top)
        /\ Top.at \in {"begin", "allowed"}
    BY DEF RangeNone, RangeBegin, AllowedCharacter, AllowedRange, RangeEnd, Runs, InGroup
  <1>2. /\ b \in Seq(0 .. 255) /\ c \in Positions(b) /\ V \in SUBSET Stops(b)
        /\ token = TokenAt(b, c) /\ token \in 0 .. 255 /\ RUNNING # NULL /\ Silent(b, c)
    BY Here
  <1>3. /\ {c1, c2, c3} \subseteq Positions(b)
        /\ Lexed(1).token = TokenAt(b, c1) /\ Lexed(2).token = TokenAt(b, c2)
        /\ (UNCHANGED input => Fetched(b, c)) /\ (Consume(1) => Fetched(b, c1))
        /\ (Consume(2) => Fetched(b, c2)) /\ (Consume(3) => Fetched(b, c3))
    BY FetchedAt
  <1> HIDE DEF c1, c2, c3, caller
  <1>4. /\ Top.at = "begin" => /\ Sure(b, Ends(b, caller, c), V)
                               /\ ~ IsCharacter(token) /\ token # TK_LPAREN
        /\ Top.at = "allowed" => /\ Sure(b, InBrackets(b, c), V)
                                 /\ Top.held = NULL => token <= Tilde
    BY <1>1, Here DEF Running, caller
  <1>5. Places[Top.fn] = {"begin", "allowed"} /\ NULL \in Nat
    BY <1>1 DEF Places, NULL
  <1>6. CASE RangeNone
    <2>1. Top.at = "begin" /\ token # TK_LBRACKET /\ stack' = Below /\ ret' = NULL
          /\ UNCHANGED input /\ UNCHANGED <<message, flags>>
      BY <1>6 DEF RangeNone, Runs, Return, OnlyControl, NoError
    <2>2. ASSUME NEW m, Calls(m, "range") PROVE Returned(b, m, caller, NULL, V, c)
      <3>1. m.at = "range"
        BY <2>2 DEF Calls
      <3> QED BY <1>2, <1>4, <2>1, <3>1 DEF Returned, Starts
    <2>3. Gives(b, Top.fn, ret', V, c)
      BY <1>1, <2>1, <2>2 DEF Gives, caller
    <2> QED BY <1>1, <1>2, <1>3, <2>1, <2>3, PopKnows
  <1>7. CASE RangeBegin
    <2>1. Top.at = "begin" /\ token = TK_LBRACKET /\ Consume(1)
      BY <1>7 DEF RangeBegin, Runs
    <2>2. Sure(b, RegexEnds(b, c), V)
      BY <1>2, <1>4, <2>1, SureEnds DEF Starts
    <2>3. /\ TokenAt(b, c1) > Tilde => Lost(b)
          /\ ~ TokenAt(b, c1) > Tilde => Sure(b, InBrackets(b, c1), V)
      BY <1>2, <2>1, <2>2, SureStart DEF c1
    <2>4. CASE TokenAt(b, c1) > Tilde
      <3>1. Fail({"ABORT"}, NULL)
        BY <1>3, <1>7, <2>4 DEF RangeBegin
      <3> QED BY <1>2, <1>3, <2>1, <2>3, <2>4, <3>1, GivesUp
    <2>5. CASE ~ TokenAt(b, c1) > Tilde
      <3>1. Loop("allowed", NULL) /\ UNCHANGED <<message, flags>>
        BY <1>3, <1>7, <2>5 DEF RangeBegin, NoError
      <3>2. TokenAt(b, c1) <= Tilde
        <4>1. TokenAt(b, c1) \in 0 .. 255 /\ Tilde = 126
          BY <1>2, <1>3, TokenFacts DEF Tilde
        <4> QED BY <2>5, <4>1
      <3>3. ASSUME NEW x, NEW e, x.fn = "range", x.at = "allowed"
            PROVE  Running(b, x, e, V, c1)
        BY <2>3, <2>5, <3>2, <3>3 DEF Running
      <3> QED BY <1>1, <1>3, <1>5, <2>1, <3>1, <3>3, LoopKnows
    <2> QED BY <2>4, <2>5
  <1>8. ASSUME NEW words, JoinNew("allowed", words, "union"), NEW e, Fetched(b, e),
               Sure(b, InBrackets(b, e), V)
        PROVE  Outcome(b)
    <2>1. ASSUME NEW x, NEW k, x.fn = "range", x.at = "allowed", x.held # NULL
          PROVE  Running(b, x, k, V, e)
      BY <1>8, <2>1 DEF Running
    <2> QED BY <1>1, <1>5, <1>8, <2>1, JoinKnows
  <1>9. ASSUME Top.at = "allowed"
        PROVE  /\ token <= Tilde /\ TokenAt(b, c1) # Dash => Sure(b, InBrackets(b, c1), V)
               /\ token <= Tilde /\ TokenAt(b, c1) = Dash /\ TokenAt(b, c2) \in token .. Tilde =>
                    Sure(b, InBrackets(b, c3), V)
               /\ token <= Tilde /\ TokenAt(b, c1) = Dash /\ TokenAt(b, c2) \notin token .. Tilde =>
                    Lost(b)
               /\ token = TK_RBRACKET => Sure(b, AfterAtom(b, c1), V)
               /\ token > Tilde /\ token # TK_RBRACKET => Lost(b)
    <2>1. Sure(b, InBrackets(b, c), V)
      BY <1>4, <1>9
    <2> QED BY <1>2, <2>1, SureBrackets DEF c1, c2, c3
  <1>10. CASE AllowedCharacter
    <2>1. /\ Top.at = "allowed" /\ token <= Tilde /\ TokenAt(b, c1) # Dash
          /\ Consume(1) /\ \E words : JoinNew("allowed", words, "union")
      BY <1>3, <1>10 DEF AllowedCharacter, Runs
    <2>2. Sure(b, InBrackets(b, c1), V)
      BY <1>9, <2>1
    <2> QED BY <1>3, <1>8, <2>1, <2>2
  <1>11. CASE AllowedRange
    <2>1. Top.at = "allowed" /\ token <= Tilde /\ TokenAt(b, c1) = Dash
      BY <1>3, <1>11 DEF AllowedRange, Runs
    <2>2. CASE TokenAt(b, c2) \in token .. Tilde
      <3>1. Consume(3) /\ \E words : JoinNew("allowed", words, "union")
        BY <1>3, <1>11, <2>2 DEF AllowedRange
      <3>2. Sure(b, InBrackets(b, c3), V)
        BY <1>9, <2>1, <2>2
      <3> QED BY <1>3, <1>8, <3>1, <3>2
    <2>3. CASE TokenAt(b, c2) \notin token .. Tilde
      <3>1. Consume(2) /\ Fail({}, Top.held)
        BY <1>3, <1>11, <2>3 DEF AllowedRange
      <3>2. Lost(b)
        BY <1>9, <2>1, <2>3
      <3> QED BY <1>2, <1>3, <3>1, <3>2, GivesUp
    <2> QED BY <2>2, <2>3
  <1>12. CASE RangeEnd
    <2>1. Top.at = "allowed" /\ token > Tilde
      BY <1>12 DEF RangeEnd, Runs
    <2>2. CASE token = TK_RBRACKET
      <3>1. Consume(1) /\ stack' = Below /\ ret' = Top.held /\ UNCHANGED <<message, flags>>
        BY <1>12, <2>2 DEF RangeEnd, Return, NoError
      <3>2. Top.held # NULL
        <4>1. ~ (token <= Tilde)
          BY <1>2, <2>1 DEF Tilde
        <4> QED BY <1>4, <2>1, <4>1
      <3>3. ret' # RUNNING
        BY <3>1, Here DEF Frame, RUNNING
      <3>4. Sure(b, AfterAtom(b, c1), V)
        BY <1>9, <2>1, <2>2
      <3>5. ASSUME NEW m, NEW e, Calls(m, "range") PROVE Returned(b, m, e, Top.held, V, c1)
        <4>1. m.at = "range"
          BY <3>5 DEF Calls
        <4> QED BY <3>2, <3>4, <4>1 DEF Returned
      <3>6. Gives(b, Top.fn, ret', V, c1)
        BY <1>1, <3>1, <3>5 DEF Gives
      <3> QED BY <1>1, <1>3, <3>1, <3>3, <3>6, PopKnows
    <2>3. CASE token # TK_RBRACKET
      <3>1. UNCHANGED input /\ Fail({}, Top.held)
        BY <1>12, <2>3 DEF RangeEnd
      <3>2. Lost(b)
        BY <1>9, <2>1, <2>3
      <3> QED BY <1>2, <1>3, <3>1, <3>2, GivesUp
    <2> QED BY <2>2, <2>3
  <1> QED BY <1>6, <1>7, <1>10, <1>11, <1>12

-----------------------------------------------------------------------------
(* parse().                                                                *)

\* parse() calls itself alone.
LEMMA ParseAlone ==
  ASSUME NEW st, WellCalled(st), st # <<>>, st[Len(st)].fn = "parse"
  PROVE  Len(st) = 1 /\ Rest(st) = <<>>
  <1> DEFINE n == Len(st)
  <1>1. st \in Seq(Frame)
    BY DEF WellCalled
  <1>2. n \in Nat \ {0} /\ Len(Rest(st)) = n - 1 /\ Rest(st) \in Seq(Frame)
        /\ \A i \in 1 .. n : st[i] \in Frame
    BY <1>1, StackFacts
  <1>3. n = 1
    <2> SUFFICES ASSUME n # 1 PROVE FALSE
      OBVIOUS
    <2>1. n - 1 \in 1 .. n - 1 /\ n - 1 \in 1 .. n /\ n - 1 + 1 = n
      BY <1>2
    <2>2. Calls(st[n - 1], st[n - 1 + 1].fn)
      BY <2>1 DEF WellCalled
    <2>3. st[n - 1].at = "parse"
      BY <2>1, <2>2 DEF Calls
    <2> QED BY <1>2, <2>1, <2>3 DEF Frame
  <1>4. Rest(st) = <<>>
    BY <1>2, <1>3, EmptySeq
  <1> QED BY <1>3, <1>4

\* The end of the buffer is a position, at which TK_EOF is read.
LEMMA WholeStops ==
  ASSUME NEW b \in Seq(0 .. 255)
  PROVE  Len(b) + 1 \in Positions(b) /\ TokenAt(b, Len(b) + 1) = TK_EOF
         /\ {Len(b) + 1} \in SUBSET Stops(b)
  <1>1. Len(b) + 1 \in Positions(b)
    BY DEF Positions
  <1>2. TokenAt(b, Len(b) + 1) = TK_EOF
    BY <1>1, TokenFacts
  <1> QED BY <1>1, <1>2 DEF Stops

\* parse() returns.
LEMMA ParseEndKnows ==
  ASSUME NEW b, NEW c, NEW V, GoesOn(b, V, c), ParseEnd
  PROVE  Outcome(b)
  <1>1. stack # <<>> /\ ret # RUNNING /\ Top.fn = "parse" /\ Top.at = "regex" /\ UNCHANGED input
    BY DEF ParseEnd, Resumes
  <1>2. /\ b \in Seq(0 .. 255) /\ c \in Positions(b) /\ V \in SUBSET Stops(b) /\ NoEOF(b)
        /\ token = TokenAt(b, c) /\ Silent(b, c) /\ flags = {} /\ Fetched(b, c)
    BY <1>1, Here, FetchedAt DEF Silent
  <1>3. Len(stack) = 1 /\ Below = <<>> /\ V = {Len(b) + 1}
    <2> DEFINE st == stack
    <2>1. WellCalled(st) /\ st # <<>> /\ st \in Seq(Frame) /\ Top = st[Len(st)] /\ Below = Rest(st)
          /\ Aims(b, st, V)
      BY Now DEF GoesOn, Top, Knows
    <2>2. Len(st) = 1 /\ Rest(st) = <<>>
      BY <1>1, <2>1, ParseAlone
    <2>3. V = {Len(b) + 1}
      BY <2>1, <2>2, AimsFacts
    <2> QED BY <2>1, <2>2, <2>3
  <1>4. CASE ret = NULL
    <2>1. stack' = <<>> /\ ret' = NULL /\ UNCHANGED <<message, flags>>
      BY <1>2, <1>3, <1>4 DEF ParseEnd, IsComplete, Return, NoError
    <2>2. Lost(b)
      BY <1>1, <1>4, Here DEF Returned
    <2> QED BY <2>1, <2>2 DEF Outcome, Finished, Lost
  <1>5. CASE ret # NULL
    <2>1. Sure(b, AfterPiece(b, c), V) /\ token \in {TK_EOF, TK_RPAREN}
      BY <1>1, <1>5, Here DEF Returned
    <2>2. Sure(b, {c}, V)
      BY <1>2, <2>1, SurePiece
    <2>3. Meets({c}, V) <=> token = TK_EOF
      <3>1. token = TK_EOF <=> c = Len(b) + 1
        BY <1>2, WholeStops, TokenFacts
      <3>2. Meets({c}, V) <=> c = Len(b) + 1
        BY <1>3 DEF Meets
      <3> QED BY <3>1, <3>2
    <2>4. CASE token = TK_EOF
      <3>1. stack' = <<>> /\ ret' = ret /\ UNCHANGED <<message, flags>>
        BY <1>2, <1>3, <1>5, <2>4 DEF ParseEnd, IsComplete, Return, NoError
      <3>2. IsWellFormed(b)
        BY <2>2, <2>3, <2>4 DEF Sure
      <3> QED BY <1>5, <3>1, <3>2 DEF Outcome, Finished
    <2>5. CASE token # TK_EOF
      <3>1. Fail({}, ret)
        BY <1>2, <1>5, <2>5 DEF ParseEnd, IsComplete
      <3>2. Lost(b)
        BY <2>2, <2>3, <2>5 DEF Sure, Lost
      <3> QED BY <1>2, <3>1, <3>2, GivesUp
    <2> QED BY <2>4, <2>5
  <1> QED BY <1>4, <1>5

\* parse() fetches the first token.
LEMMA ParseBeginKnows ==
  ASSUME NEW b, b = buffer, b \in Seq(0 .. 255), MemoryInv, Unfetched, pos = 1, ParseBegin
  PROVE  Outcome(b)
  <1> DEFINE r == Record("parse", "begin", NULL)
             x == Record("parse", "regex", NULL)
             y == Record("regex", "begin", NULL)
             st == stack
             new == Rest(st) \o <<x, y>>
             V == {Len(b) + 1}
  <1>1. st = <<r>> /\ stack' = Below \o <<x, y>> /\ ret' = RUNNING
        /\ Consume(1) /\ UNCHANGED <<message, flags>>
    <2>1. Top.fn = "parse"
      BY FirstRecord
    <2> QED BY <2>1 DEF Unfetched, ParseBegin, Call, NoError
  <1>2. /\ r \in Frame /\ x \in Frame /\ y \in Frame /\ r.fn = "parse" /\ x.fn = "parse"
        /\ y.fn = "regex" /\ y.at = "begin"
    <2>1. {"parse", "regex"} \subseteq Names /\ {"begin", "regex"} \subseteq Places["parse"]
          /\ "begin" \in Places["regex"] /\ NULL \in Nat
      BY DEF Names, Places, NULL
    <2> QED BY <2>1, Callers
  <1> HIDE DEF r, x, y
  <1>3. st \in Seq(Frame) /\ st # <<>> /\ Len(st) = 1 /\ st[1] = r
    BY <1>1, <1>2
  <1>4. ~ InGroup(st[Len(st)]) /\ ~ InGroup(x) /\ ~ InGroup(y)
    BY <1>2, <1>3 DEF InGroup
  <1>5. V \in SUBSET Stops(b)
    BY WholeStops
  <1>6. Below = Rest(st)
    BY DEF Below, Rest
  <1> HIDE DEF st, V
  <1>7. Aims(b, st, V)
    <2> DEFINE W == [i \in 1 .. 1 |-> V]
    <2>1. W \in [1 .. Len(st) -> SUBSET Stops(b)] /\ W[1] = {Len(b) + 1} /\ W[Len(st)] = V
      BY <1>3, <1>5 DEF V
    <2>2. 1 .. Len(st) - 1 = {}
      BY <1>3
    <2> HIDE DEF W
    <2>3. Levels(b, st, W)
      BY <2>1, <2>2 DEF Levels
    <2> QED BY <2>1, <2>3 DEF Aims
  <1>8. Aims(b, new, V) /\ new # <<>> /\ new[Len(new)] = y
    <2>1. Aims(b, new, IF InGroup(x) THEN Opened(b, V) ELSE V)
      BY <1>2, <1>3, <1>4, <1>7, AimsPushed
    <2>2. new # <<>> /\ new[Len(new)] = y
      BY <1>2, <1>3, PushedFacts
    <2> QED BY <1>4, <2>1, <2>2
  <1> HIDE DEF new
  <1>9. 1 \in Positions(b) /\ Lex(b, 1) = [token |-> token', pos |-> pos']
    <2>1. 1 \in 1 .. Len(b) + 1 /\ 1 \in Nat /\ 1 \in 1 .. 1 /\ 1 - 1 = 0
      OBVIOUS
    <2>2. PICK f : ChainOfTokens(1, f)
      BY <2>1, LexedChain
    <2>3. Lexed(1) = Lex(b, 1)
      <3>1. f[1] = Lex(buffer, f[0].pos) /\ f[0].pos = 1
        BY <2>1, <2>2 DEF ChainOfTokens
      <3> QED BY <2>2, <3>1 DEF ChainOfTokens
    <2>4. Lex(b, 1) = [token |-> Lex(b, 1).token, pos |-> Lex(b, 1).pos]
      BY <2>1, LexFacts
    <2> QED BY <1>1, <2>1, <2>3, <2>4 DEF Consume, Positions
  <1>10. Sure(b, RegexEnds(b, 1), V)
    BY WholeBuffer DEF Sure, V
  <1>11. Running(b, y, Caller(new), V, 1)
    BY <1>2, <1>10 DEF Running
  <1>12. Knows(b, stack', ret', 1, V) /\ stack' # <<>>
    <2>1. stack' = new
      BY <1>1, <1>6 DEF new
    <2> QED BY <1>1, <1>8, <1>11, <2>1 DEF Knows
  <1> QED BY <1>1, <1>5, <1>9, <1>12 DEF Outcome

-----------------------------------------------------------------------------
(* Together.                                                               *)

\* The invariant.  It says nothing once memory has run out, nor of a buffer in
\* which a byte is taken for its end.  Once there has been a message the buffer is
\* not well formed.  Until then, it is well formed if and only if what the
\* functions on the stack have left to read may end where what is around it goes
\* on: V is what the stack asks for, c is where the parser is.
GrammarInv ==
  ~ ranOut /\ NoEOF(buffer) =>
    \/ reported /\ Lost(buffer)
    \/ /\ ~ reported /\ flags = {}
       /\ \/ Unfetched /\ ret = RUNNING /\ pos = 1
          \/ stack = <<>> /\ Finished(buffer, ret)
          \/ \E c, V : GoesOn(buffer, V, c)

\* Every step has one of these outcomes.
LEMMA StepKnows ==
  ASSUME NEW b, NEW c, NEW V, GoesOn(b, V, c), Step
  PROVE  Outcome(b)
  <1>1. ~ ParseBegin
    <2>1. ret = RUNNING => Top.fn # "parse"
      BY Here DEF Running
    <2> QED BY <2>1 DEF ParseBegin, Runs
  <1>2. CASE ParseEnd
    BY <1>2, ParseEndKnows
  <1>3. CASE RegexBegin \/ RegexAfterGroup \/ RegexEnd
    BY <1>3, RegexKnows
  <1>4. CASE \/ GroupBegin \/ GroupMalformed \/ GroupUnclosed \/ GroupClosed
             \/ GroupAfterPattern \/ GroupAfterRange
    BY <1>4, GroupKnows
  <1>5. CASE \/ GprimeBegin \/ GprimeAppend \/ GprimeUnion \/ GprimePipe \/ GprimeEnd
             \/ GprimeNothingAfterPipe
    BY <1>5, GprimeKnows
  <1>6. CASE PatternCharacter \/ PatternEnd
    BY <1>6, PatternKnows
  <1>7. CASE RangeNone \/ RangeBegin \/ AllowedCharacter \/ AllowedRange \/ RangeEnd
    BY <1>7, RangeKnows
  <1> QED BY <1>1, <1>2, <1>3, <1>4, <1>5, <1>6, <1>7 DEF Step

\* What a step comes to is what the invariant says.
LEMMA OutcomeKeeps ==
  ASSUME NEW b, b \in Seq(0 .. 255), b = buffer, buffer' = buffer, NoEOF(b), ~ reported, flags = {},
         Outcome(b), MemoryInv', ~ ranOut'
  PROVE  GrammarInv'
  <1>1. CASE message' # NoMessage /\ Lost(b)
    BY <1>1 DEF GrammarInv, reported
  <1>2. CASE UNCHANGED <<message, flags>> /\ stack' = <<>> /\ Finished(b, ret')
    BY <1>2 DEF GrammarInv, reported
  <1>3. ASSUME UNCHANGED <<message, flags>>, stack' # <<>>,
               NEW c \in Positions(b), Lex(b, c) = [token |-> token', pos |-> pos'],
               NEW V \in SUBSET Stops(b), Knows(b, stack', ret', c, V)
        PROVE  GrammarInv'
    <2>1. message' = NoMessage /\ flags' = {} /\ b = buffer'
      BY <1>3 DEF reported
    <2>2. GoesOn(b, V, c)'
      BY <1>3, <2>1 DEF GoesOn, Silent
    <2> QED BY <2>1, <2>2 DEF GrammarInv, reported
  <1> QED BY <1>1, <1>2, <1>3 DEF Outcome

\* The invariant is kept.
LEMMA GrammarStep ==
  ASSUME MemoryInv, ArrowInv, GrammarInv, [Next]_vars
  PROVE  GrammarInv'
  <1>1. MemoryInv' /\ ArrowInv'
    BY MemoryStep, ArrowStep
  <1>2. buffer \in Seq(0 .. 255)
    BY DEF ArrowInv
  <1>3. CASE UNCHANGED vars
    BY <1>3 DEF GrammarInv, GoesOn, Silent, MemoryInv, Unfetched, reported, vars
  <1>4. CASE ranOut' = TRUE
    BY <1>4 DEF GrammarInv
  <1>5. CASE Step /\ ranOut' = ranOut
    <2>1. Fetches /\ Tells
      BY <1>5, StepFetches
    <2>2. buffer' = buffer
      BY <2>1 DEF Fetches, Consume, input
    <2> SUFFICES ASSUME ~ ranOut, ~ ranOut', NoEOF(buffer) PROVE GrammarInv'
      BY <1>5, <2>2 DEF GrammarInv
    <2>3. CASE reported /\ Lost(buffer)
      <3>1. message' # NoMessage
        <4>1. pos' # 0
          BY <1>1 DEF ArrowInv
        <4> QED BY <2>1, <2>3, <4>1 DEF Tells, PrintError, NoMessage, reported
      <3> QED BY <2>2, <2>3, <3>1 DEF GrammarInv, reported
    <2>4. CASE ~ reported /\ flags = {} /\ Unfetched /\ ret = RUNNING /\ pos = 1
      <3>1. Top.fn = "parse" /\ Top.at = "begin"
        BY <2>4, FirstRecord
      <3>2. ParseBegin
        BY <1>5, <2>4, <3>1
           DEF Step, ParseEnd, RegexBegin, RegexAfterGroup, RegexEnd,
               GroupBegin, GroupMalformed, GroupUnclosed, GroupClosed, GroupAfterPattern,
               GroupAfterRange, GprimeBegin, GprimeAppend, GprimeUnion, GprimeJoin, GprimePipe,
               GprimeEnd, GprimeNothingAfterPipe, PatternCharacter, PatternEnd, RangeNone,
               RangeBegin, AllowedCharacter, AllowedRange, RangeEnd, Runs, Resumes
      <3>3. Outcome(buffer)
        BY <1>2, <2>4, <3>2, ParseBeginKnows
      <3> QED BY <1>1, <1>2, <2>2, <2>4, <3>3, OutcomeKeeps
    <2>5. CASE ~ reported /\ flags = {} /\ stack = <<>>
      BY <1>5, <2>5
         DEF Step, ParseBegin, ParseEnd, RegexBegin, RegexAfterGroup, RegexEnd,
             GroupBegin, GroupMalformed, GroupUnclosed, GroupClosed, GroupAfterPattern,
             GroupAfterRange, GprimeBegin, GprimeAppend, GprimeUnion, GprimeJoin, GprimePipe,
             GprimeEnd, GprimeNothingAfterPipe, PatternCharacter, PatternEnd, RangeNone,
             RangeBegin, AllowedCharacter, AllowedRange, RangeEnd, Runs, Resumes
    <2>6. ASSUME ~ reported, flags = {}, NEW c, NEW V, GoesOn(buffer, V, c)
          PROVE  GrammarInv'
      <3>1. Outcome(buffer)
        BY <1>5, <2>6, StepKnows
      <3> QED BY <1>1, <1>2, <2>2, <2>6, <3>1, OutcomeKeeps
    <2> QED BY <2>3, <2>4, <2>5, <2>6 DEF GrammarInv
  <1> QED BY <1>3, <1>4, <1>5 DEF Next, Stopped

\* Exactly the regular expressions of the grammar are accepted without a message,
\* however they nest and however long they are, as long as memory suffices.
THEOREM AcceptsGrammarHolds == Spec => []AcceptsGrammar
  <1>1. Init => MemoryInv /\ ArrowInv /\ GrammarInv
    <2>1. Init => ArrowInv
      BY BufferAssumption DEF Init, ArrowInv, Unfetched, Arrow, NoMessage
    <2>2. Init => GrammarInv
      BY DEF Init, GrammarInv, Unfetched, reported
    <2> QED BY <2>1, <2>2, MemoryInit
  <1>2. MemoryInv /\ ArrowInv /\ GrammarInv /\ [Next]_vars
          => MemoryInv' /\ ArrowInv' /\ GrammarInv'
    BY MemoryStep, ArrowStep, GrammarStep
  <1>3. MemoryInv /\ GrammarInv => AcceptsGrammar
    <2> SUFFICES ASSUME GrammarInv, Done, ~ ranOut, NoEOF(buffer)
                 PROVE  ret # NULL /\ ~ reported <=> WellFormed
      BY DEF AcceptsGrammar, NoEOF
    <2>1. IsWellFormed(buffer) <=> WellFormed
      BY DEF IsWellFormed, WellFormed
    <2>2. ~ Unfetched /\ \A c, V : ~ GoesOn(buffer, V, c)
      BY DEF Done, Unfetched, GoesOn
    <2> QED BY <2>1, <2>2 DEF GrammarInv, Lost, Finished
  <1> QED BY <1>1, <1>2, <1>3, PTL DEF Spec

=============================================================================
