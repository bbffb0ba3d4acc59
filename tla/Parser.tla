------------------------------- MODULE Parser -------------------------------
(***************************************************************************)
(* parser.c: recursive descent from tokens to an NFA.                      *)
(*                                                                         *)
(* The activation records of regex(), group(), gprime(), pattern() and     *)
(* range() are kept on a stack, each with the NFA that the function has in *)
(* its local variable; quantifier() is a part of its callers and allowed() *)
(* of range().  The heap maps the address of every NFA that exists to the  *)
(* words it accepts, which is what the constructions of nfa.c promise      *)
(* (Thompson!AcceptsItsWords), and to whether it is intact: a nfa_union()  *)
(* that fails half-way leaves an NFA whose start and accepting states are  *)
(* freed.  Every construction may return NULL for want of memory.  Of a    *)
(* message the wording is left out, and with it the flag                   *)
(* CC_DISABLE_INSTEAD_FOUND.                                               *)
(***************************************************************************)
EXTENDS Grammar, FiniteSets

CONSTANTS
  Buffers,        \* the regular expressions, sequences of characters
  ShortOfMemory   \* those on which memory may run out

ASSUME BufferAssumption == Buffers \subseteq Seq(0 .. 255)

NULL == 0
RUNNING == -1
UNDEFINED == -2   \* memory that was freed has been written to

VARIABLES
  buffer, token, pos,   \* cc->buffer, cc->token, cc->pos
  flags,                \* cc->flags: "ABORT", "DISABLE_ERROR_MSG"
  message,              \* the error message printed last
  ranOut,               \* whether memory ran out
  heap,                 \* the NFAs
  stack,                \* activation records, the last one on top
  ret                   \* what the last call returned, RUNNING during a call
                        \* and UNDEFINED after undefined behavior

vars == <<buffer, token, pos, flags, message, ranOut, heap, stack, ret>>
input == <<buffer, token, pos>>

\* The token a message is about, cc->pos and the column of the arrow; NoArrow if
\* the line is not printed.
NoArrow == -1
NoMessage == [token |-> 0, pos |-> 0, column |-> NoArrow]

reported == message # NoMessage

Flags == {"ABORT", "DISABLE_ERROR_MSG", "DISABLE_LINE_PRINT"}

Record(fn, at, held) == [fn |-> fn, at |-> at, held |-> held]

Init ==
  /\ buffer \in Buffers
  /\ token = 0 /\ pos = 1
  /\ flags = {}
  /\ message = NoMessage /\ ranOut = FALSE
  /\ heap = [a \in {} |-> {}]
  /\ stack = <<Record("parse", "begin", NULL)>>
  /\ ret = RUNNING

-----------------------------------------------------------------------------
(* Control: the top record is the function that runs or is returned to.    *)

Top == stack[Len(stack)]
Below == SubSeq(stack, 1, Len(stack) - 1)

Runs(fn, at) == stack # <<>> /\ ret = RUNNING /\ Top.fn = fn /\ Top.at = at
Resumes(fn, at) == stack # <<>> /\ ret # RUNNING /\ Top.fn = fn /\ Top.at = at

Return(value) == stack' = Below /\ ret' = value

\* Call fn; the caller will go on at the place at, holding held.
Call(fn, arg, at, held) ==
  /\ stack' = Below \o <<Record(Top.fn, at, held), Record(fn, "begin", arg)>>
  /\ ret' = RUNNING

\* return fn(arg)
TailCall(fn, arg) ==
  /\ stack' = Append(Below, Record(fn, "begin", arg))
  /\ ret' = RUNNING

\* The next iteration of the loop at the place at.
Loop(at, held) ==
  /\ stack' = Append(Below, Record(Top.fn, at, held))
  /\ ret' = RUNNING

\* lex(), n times.
Lexed(n) ==
  LET lexed[k \in 0 .. n] ==
        IF k = 0 THEN [token |-> token, pos |-> pos]
        ELSE LET before == lexed[k - 1] IN Lex(buffer, before.pos)
  IN  lexed[n]

Consume(n) ==
  /\ token' = Lexed(n).token
  /\ pos' = Lexed(n).pos
  /\ UNCHANGED buffer

NoError == UNCHANGED <<message, flags>>
OnlyControl == UNCHANGED <<input, heap>> /\ NoError

\* print_error(): the message is about the token fetched last.
PrintError(column) ==
  IF "DISABLE_ERROR_MSG" \in flags THEN UNCHANGED message
  ELSE message' = [token |-> token', pos |-> pos', column |-> column]

\* print_error(), after which the flags set are added.
Error(set) ==
  /\ PrintError(ArrowColumn(buffer, pos', token'))
  /\ flags' = flags \cup set

-----------------------------------------------------------------------------
(* The heap.  A construction that consumes an NFA frees its address.       *)

\* init_thompson_nfa(); character 0 is EPSILON.
Thompson(ch) ==
  IF ch = TK_WILDCARD THEN OneOf(Dot) ELSE IF ch = 0 THEN {<<>>} ELSE OneOf({ch})

\* Mutant: the NFA is kept in a static variable.
StaticNFA(h) == 1

NewNFA(h) == CHOOSE a \in 1 .. Cardinality(DOMAIN h) + 1 : a \notin DOMAIN h

With(h, nfa, words) ==
  [a \in DOMAIN h \cup {nfa} |-> IF a = nfa THEN [words |-> words, intact |-> TRUE] ELSE h[a]]
Without(h, nfa) == [a \in DOMAIN h \ {nfa} |-> h[a]]

\* What lhs becomes.  nfa_append() reads no state of rhs, so it may be broken.
Combined(lhs, rhs, how) ==
  [words  |-> IF how = "append" THEN Concatenation(lhs.words, rhs.words)
              ELSE lhs.words \cup rhs.words,
   intact |-> rhs.intact]

\* nfa_append() and nfa_union(): NULL is neutral.
Joined(h, lhs, rhs, how) ==
  IF lhs = NULL \/ rhs = NULL THEN h
  ELSE Without([h EXCEPT ![lhs] = Combined(h[lhs], h[rhs], how)], rhs)
Either(lhs, rhs) == IF lhs = NULL THEN rhs ELSE lhs

\* The construction writes to no state that was freed.
Joinable(lhs, rhs, how) ==
  lhs # NULL => heap[lhs].intact /\ (how = "union" => heap[rhs].intact)

\* It does, or transform() does: nothing can be said any more.
Undefined == stack' = <<>> /\ ret' = UNDEFINED /\ UNCHANGED heap /\ NoError

\* Print an error, free an NFA and return NULL.
Fail(set, nfa) == Error(set) /\ heap' = Without(heap, nfa) /\ Return(NULL)

\* quantifier() with the token that is read next.
WithQuantifier(words, tk) ==
  IF IsQuantifier(tk) THEN Quantified(words, Quantifier(tk)) ELSE words

\* Mutant: the last token of the comparison is left out.
MayFollowBelow(tk) == IsQuantifier(tk) \/ tk < TK_PIPE

MayFollow(tk) == IsQuantifier(tk) \/ tk <= TK_PIPE

\* n tokens and the quantifier after them, if there is one.
ConsumeQuantified(n) == Consume(IF IsQuantifier(Lexed(n).token) THEN n + 1 ELSE n)

-----------------------------------------------------------------------------
ParseBegin ==
  /\ Runs("parse", "begin")
  /\ Consume(1) /\ Call("regex", NULL, "regex", NULL)
  /\ UNCHANGED heap /\ NoError

IsComplete == ret # NULL /\ "ABORT" \notin flags /\ token = TK_EOF

ParseEnd ==
  /\ Resumes("parse", "regex")
  /\ UNCHANGED input
  /\ IF IsComplete THEN Return(ret) /\ UNCHANGED heap /\ NoError
     ELSE IF ret = NULL \/ "ABORT" \in flags
     THEN Return(NULL) /\ heap' = Without(heap, ret) /\ NoError
     ELSE Fail({}, ret)

RegexBegin ==
  /\ Runs("regex", "begin")
  /\ Call("group", NULL, "group", NULL) /\ OnlyControl

RegexAfterGroup ==
  /\ Resumes("regex", "group")
  /\ IF ret = NULL THEN Return(NULL) ELSE Call("gprime", ret, "gprime", ret)
  /\ OnlyControl

\* gprime() modifies the NFA in place; what it returns is only tested.
RegexEnd ==
  /\ Resumes("regex", "gprime")
  /\ UNCHANGED <<input, heap>>
  /\ IF ret # NULL \/ ("ABORT" \notin flags /\ token = TK_RPAREN)
     THEN Return(Top.held) /\ NoError
     ELSE Return(NULL) /\ IF "ABORT" \in flags THEN NoError ELSE Error({})

-----------------------------------------------------------------------------
\* return quantifier(cc, g) after n tokens; if it fails, g is lost.
ReturnQuantified(n) ==
  IF MayFollow(Lexed(n).token)
  THEN /\ ConsumeQuantified(n) /\ Return(ret)
       /\ heap' = [heap EXCEPT ![ret].words = WithQuantifier(@, Lexed(n).token)] /\ NoError
  ELSE Consume(n) /\ Fail({}, NULL)

\* transform() fails; the quantifier is consumed, nothing is said, g is lost.
GroupTransformFails ==
  LET n == IF Resumes("group", "regex") THEN 1 ELSE 0
  IN  /\ (Resumes("group", "regex") /\ token = TK_RPAREN) \/ Resumes("group", "range")
      /\ ret # NULL /\ IsQuantifier(Lexed(n).token)
      /\ Consume(n + 1) /\ Return(NULL)
      /\ UNCHANGED heap /\ NoError

GroupBegin ==
  /\ Runs("group", "begin")
  /\ IF token = TK_LPAREN
     THEN Consume(1) /\ Call("regex", NULL, "regex", NULL)
     ELSE Call("pattern", NULL, "pattern", NULL) /\ UNCHANGED input
  /\ UNCHANGED heap /\ NoError

GroupMalformed ==
  /\ Resumes("group", "regex") /\ ret = NULL
  /\ UNCHANGED input /\ Fail({}, NULL)

\* Mutant: g is not destroyed.
GroupUnclosedKept ==
  /\ Resumes("group", "regex") /\ ret # NULL /\ token # TK_RPAREN
  /\ UNCHANGED input /\ Fail({"DISABLE_ERROR_MSG"}, NULL)

GroupUnclosed ==
  /\ Resumes("group", "regex") /\ ret # NULL /\ token # TK_RPAREN
  /\ UNCHANGED input /\ Fail({"DISABLE_ERROR_MSG"}, ret)

GroupClosed ==
  /\ Resumes("group", "regex") /\ ret # NULL /\ token = TK_RPAREN
  /\ IsQuantifier(Lexed(1).token) => heap[ret].intact
  /\ ReturnQuantified(1)

GroupUndefined ==
  /\ Resumes("group", "regex") /\ ret # NULL /\ token = TK_RPAREN
  /\ IsQuantifier(Lexed(1).token) /\ ~ heap[ret].intact
  /\ Consume(1) /\ Undefined

GroupAfterPattern ==
  /\ Resumes("group", "pattern")
  /\ IF ret # NULL THEN TailCall("gprime", ret) ELSE Call("range", NULL, "range", NULL)
  /\ OnlyControl

GroupAfterRange ==
  /\ Resumes("group", "range")
  /\ IF ret # NULL THEN ReturnQuantified(0) ELSE Return(NULL) /\ OnlyControl

-----------------------------------------------------------------------------
GprimeBegin ==
  /\ Runs("gprime", "begin")
  /\ Call("group", NULL, "append", Top.held) /\ OnlyControl

\* Mutant: the arguments of the construction are swapped.
GprimeJoinSwapped(how) ==
  /\ Resumes("gprime", how) /\ ret # NULL /\ Joinable(ret, Top.held, how)
  /\ heap' = Joined(heap, ret, Top.held, how)
  /\ TailCall("gprime", Either(ret, Top.held))
  /\ UNCHANGED input /\ NoError

\* local = nfa_append(local, g), or nfa_union(local, g), and gprime() again.
GprimeJoin(how) ==
  /\ Resumes("gprime", how) /\ ret # NULL /\ Joinable(Top.held, ret, how)
  /\ heap' = Joined(heap, Top.held, ret, how)
  /\ TailCall("gprime", Either(Top.held, ret))
  /\ UNCHANGED input /\ NoError

GprimeAppend == GprimeJoin("append")
GprimeUnion == GprimeJoin("union")

\* nfa_append() fails when the two NFAs are already one, nfa_union() when the new
\* states are freed again that the first NFA now has at both ends, or before.
\* gprime() goes on without an NFA.
GprimeJoinFails ==
  /\ Resumes("gprime", "append") \/ Resumes("gprime", "union")
  /\ ret # NULL /\ Top.held # NULL
  /\ \/ Top.at = "union" /\ UNCHANGED heap
     \/ /\ Joinable(Top.held, ret, Top.at)
        /\ heap' = [heap EXCEPT ![Top.held] =
                      IF Top.at = "append" THEN Combined(@, heap[ret], "append")
                      ELSE [@ EXCEPT !.intact = FALSE]]
  /\ TailCall("gprime", NULL)
  /\ UNCHANGED input /\ NoError

GprimeUndefined ==
  /\ Resumes("gprime", "append") \/ Resumes("gprime", "union")
  /\ ret # NULL /\ ~ Joinable(Top.held, ret, Top.at)
  /\ UNCHANGED input /\ Undefined

GprimePipe ==
  /\ Resumes("gprime", "append") /\ ret = NULL /\ token = TK_PIPE
  /\ Consume(1) /\ Call("group", NULL, "union", Top.held)
  /\ UNCHANGED heap /\ NoError

GprimeEnd ==
  /\ Resumes("gprime", "append") /\ ret = NULL /\ token # TK_PIPE
  /\ Return(IF token \in {TK_EOF, TK_RPAREN} THEN Top.held ELSE NULL)
  /\ OnlyControl

\* Mutant: the abort flag is not set.
GprimeNothingAfterPipeGoesOn ==
  /\ Resumes("gprime", "union") /\ ret = NULL
  /\ UNCHANGED input /\ Fail({"DISABLE_ERROR_MSG"}, Top.held)

GprimeNothingAfterPipe ==
  /\ Resumes("gprime", "union") /\ ret = NULL
  /\ UNCHANGED input /\ Fail({"DISABLE_ERROR_MSG", "ABORT"}, Top.held)

-----------------------------------------------------------------------------
\* result = nfa_append(result, new), or nfa_union(result, new), in a loop.
JoinNew(at, words, how) ==
  LET new == NewNFA(heap)
  IN  /\ heap' = Joined(With(heap, new, words), Top.held, new, how)
      /\ Loop(at, Either(Top.held, new))
      /\ NoError

\* The construction fails: nobody has the address of either NFA any more.
LoseBoth(at, words) ==
  /\ Top.held # NULL
  /\ heap' = With(heap, NewNFA(heap), words)
  /\ Loop(at, NULL)
  /\ NoError

\* The characters that tell words apart: those of words, and EPSILON.
Visible == Sigma \cup {0}

\* What init_range_nfa() may leave of the characters S when one of its calls
\* returns NULL: some of them.
SomeOf(S) ==
  {UNION {Thompson(ch) : ch \in T} :
     T \in {U \in SUBSET (S \cap Visible) : U # {} \/ ~ S \subseteq Visible}}

\* In the NFA of a wildcard tab and newline may be missing, too, but not one of
\* them only.
SomeOfDot ==
  LET printable == SomeOf(Space .. Tilde)
  IN  printable \cup {words \cup OneOf({Tab, Newline}) : words \in printable}

\* Mutant: the token is not consumed.
PatternCharacterAgain ==
  /\ Runs("pattern", "begin") /\ token <= TK_WILDCARD
  /\ JoinNew("begin", Thompson(token), "append") /\ UNCHANGED input

\* One character, with the quantifier after it.
PatternCharacter ==
  /\ Runs("pattern", "begin") /\ token <= TK_WILDCARD
  /\ IF MayFollow(Lexed(1).token)
     THEN /\ ConsumeQuantified(1)
          /\ JoinNew("begin", WithQuantifier(Thompson(token), Lexed(1).token), "append")
     ELSE Consume(1) /\ Fail({}, Top.held)

\* init_thompson_nfa() fails: the message comes without the line, and what was
\* built so far is lost.
PatternOutOfMemory ==
  /\ Runs("pattern", "begin") /\ token <= TK_WILDCARD
  /\ UNCHANGED <<input, heap>>
  /\ PrintError(NoArrow)
  /\ flags' = flags \cup {"DISABLE_LINE_PRINT", "DISABLE_ERROR_MSG"}
  /\ Return(NULL)

PatternTransformFails ==
  /\ Runs("pattern", "begin") /\ token <= TK_WILDCARD /\ IsQuantifier(Lexed(1).token)
  /\ Consume(2) /\ Return(NULL)
  /\ heap' = Without(heap, Top.held) /\ NoError

\* nfa_append() fails, or a construction inside init_thompson_nfa().
PatternJoinFails ==
  /\ Runs("pattern", "begin") /\ token <= TK_WILDCARD /\ MayFollow(Lexed(1).token)
  /\ ConsumeQuantified(1)
  /\ \/ LoseBoth("begin", WithQuantifier(Thompson(token), Lexed(1).token))
     \/ /\ token = TK_WILDCARD
        /\ \E words \in SomeOfDot :
             JoinNew("begin", WithQuantifier(words, Lexed(1).token), "append")

PatternEnd ==
  /\ Runs("pattern", "begin") /\ token > TK_WILDCARD
  /\ UNCHANGED input
  /\ IF token <= TK_PIPE THEN Return(Top.held) /\ UNCHANGED heap /\ NoError
     ELSE Fail({"DISABLE_ERROR_MSG"}, Top.held)

RangeNone == Runs("range", "begin") /\ token # TK_LBRACKET /\ Return(NULL) /\ OnlyControl

RangeBegin ==
  /\ Runs("range", "begin") /\ token = TK_LBRACKET
  /\ Consume(1)
  /\ IF Lexed(1).token > Tilde THEN Fail({"ABORT"}, NULL)
     ELSE Loop("allowed", NULL) /\ UNCHANGED heap /\ NoError

AllowedCharacter ==
  /\ Runs("range", "allowed") /\ token <= Tilde /\ Lexed(1).token # Dash
  /\ Consume(1) /\ JoinNew("allowed", Thompson(token), "union")

\* Mutant: the upper bound is left out of the range.
CharsBelow(left, right) == UNION {Thompson(ch) : ch \in left .. right - 1}

\* init_range_nfa()
CharsUpTo(left, right) == UNION {Thompson(ch) : ch \in left .. right}

AllowedRange ==
  /\ Runs("range", "allowed") /\ token <= Tilde /\ Lexed(1).token = Dash
  /\ IF Lexed(2).token \in token .. Tilde
     THEN Consume(3) /\ JoinNew("allowed", CharsUpTo(token, Lexed(2).token), "union")
     ELSE Consume(2) /\ Fail({}, Top.held)

\* segment is NULL, or nfa_union() fails.
AllowedFails(chars) ==
  \/ Loop("allowed", Top.held) /\ UNCHANGED heap /\ NoError
  \/ LoseBoth("allowed", chars)

AllowedCharacterFails ==
  /\ Runs("range", "allowed") /\ token <= Tilde /\ Lexed(1).token # Dash
  /\ Consume(1) /\ AllowedFails(Thompson(token))

AllowedRangeFails ==
  /\ Runs("range", "allowed") /\ token <= Tilde /\ Lexed(1).token = Dash
  /\ Lexed(2).token \in token .. Tilde
  /\ Consume(3)
  /\ \/ AllowedFails(CharsUpTo(token, Lexed(2).token))
     \/ /\ Lexed(2).token # token
        /\ \E words \in SomeOf(token .. Lexed(2).token) : JoinNew("allowed", words, "union")

\* Nothing is left of the brackets: what comes after them is not looked at.
RangeNothing ==
  /\ Runs("range", "allowed") /\ token > Tilde /\ Top.held = NULL
  /\ Return(NULL) /\ OnlyControl

RangeEnd ==
  /\ Runs("range", "allowed") /\ token > Tilde /\ Top.held # NULL
  /\ IF token = TK_RBRACKET
     THEN Consume(1) /\ Return(Top.held) /\ UNCHANGED heap /\ NoError
     ELSE UNCHANGED input /\ Fail({}, Top.held)

-----------------------------------------------------------------------------
Done == stack = <<>>

Stopped == Done /\ UNCHANGED vars

Step ==
  \/ ParseBegin \/ ParseEnd \/ RegexBegin \/ RegexAfterGroup \/ RegexEnd
  \/ GroupBegin \/ GroupMalformed \/ GroupUnclosed \/ GroupClosed
  \/ GroupAfterPattern \/ GroupAfterRange
  \/ GprimeBegin \/ GprimeAppend \/ GprimeUnion \/ GprimePipe \/ GprimeEnd
  \/ GprimeNothingAfterPipe
  \/ PatternCharacter \/ PatternEnd
  \/ RangeNone \/ RangeBegin \/ AllowedCharacter \/ AllowedRange \/ RangeEnd

OutOfMemory ==
  \/ GroupTransformFails \/ GprimeJoinFails
  \/ PatternOutOfMemory \/ PatternTransformFails \/ PatternJoinFails
  \/ AllowedCharacterFails \/ AllowedRangeFails

\* What happens only when memory has run out before.
Aftermath == GroupUndefined \/ GprimeUndefined \/ RangeNothing

Next ==
  \/ Step /\ UNCHANGED ranOut
  \/ buffer \in ShortOfMemory /\ OutOfMemory /\ ranOut' = TRUE
  \/ Aftermath /\ ranOut' = TRUE
  \/ Stopped

\* The thread goes on, but nothing makes memory run out.
Spec ==
  /\ Init /\ [][Next]_vars
  /\ WF_vars((Step /\ UNCHANGED ranOut) \/ (Aftermath /\ ranOut' = TRUE))

-----------------------------------------------------------------------------
Places ==
  [parse |-> {"begin", "regex"}, regex |-> {"begin", "group", "gprime"},
   group |-> {"begin", "regex", "pattern", "range"},
   gprime |-> {"begin", "append", "union"}, pattern |-> {"begin"},
   range |-> {"begin", "allowed"}]

TypeOK ==
  /\ buffer \in Seq(0 .. 255)
  /\ token \in 0 .. 255
  /\ pos \in 1 .. Len(buffer) + 1
  /\ flags \subseteq Flags
  /\ message \in [token : 0 .. 255, pos : 0 .. Len(buffer) + 1, column : Int]
  /\ ranOut \in BOOLEAN
  /\ DOMAIN heap \subseteq Nat \ {NULL}
  /\ \A a \in DOMAIN heap : heap[a] \in [words : SUBSET Seq(Nat), intact : BOOLEAN]
  /\ \A i \in DOMAIN stack : LET r == stack[i] IN
       /\ r.fn \in DOMAIN Places /\ r.at \in Places[r.fn]
       /\ r.held \in Nat
  /\ ret \in Nat \cup {RUNNING, UNDEFINED}

AwaitsGprime(r) == r.fn = "regex" /\ r.at = "gprime"

\* Every NFA that a function holds or is given exists: nobody has freed it,
\* whatever fails.  (Whether its states do is another matter.)  The
\* one exception is the local of regex(), which gprime() frees when it aborts;
\* the flag then keeps regex() from using it.
HeldExists ==
  /\ ret \in DOMAIN heap \cup {NULL, RUNNING, UNDEFINED}
  /\ \A i \in DOMAIN stack : LET r == stack[i] IN
       \/ r.held \in DOMAIN heap \cup {NULL}
       \/ AwaitsGprime(r) /\ "ABORT" \in flags

\* regex() ignores the address that gprime() returns, because "gprime()
\* modifies `local`'s members, so no need to assign the return val to anything"
\* (parser.c:50): it is that of local, as long as memory suffices.  (When
\* nfa_append() fails in (a)(b)(c), gprime() goes on with NULL and returns (c),
\* which regex() takes for success, and (a)(b) is compiled.)
GprimeKeepsLocal ==
  ~ ranOut /\ stack # <<>> /\ AwaitsGprime(Top) => ret \in {NULL, RUNNING, Top.held}

\* No NFA is held twice, so that none is joined with itself or freed twice; only
\* regex() holds the one it has lent to gprime().
HeldOnce ==
  \A i, j \in DOMAIN stack :
    /\ i < j /\ stack[i].held # NULL /\ stack[i].held = stack[j].held
         => AwaitsGprime(stack[i]) /\ j = i + 1
    /\ i \in DOMAIN stack /\ ret # NULL /\ stack[i].held = ret
         => AwaitsGprime(stack[i]) /\ i = Len(stack)

Succeeded == Done /\ ret \notin {NULL, UNDEFINED}

\* An NFA that parse() returns is the only one left, whatever was tried and
\* given up on the way, as long as memory suffices.
SuccessLeaksNothing == Succeeded /\ ~ ranOut => DOMAIN heap = {ret}

WellFormed == Meanings(buffer, FALSE) # {}

\* Exactly the regular expressions of the grammar are accepted without a message,
\* as long as memory suffices (when init_thompson_nfa() fails for the a of x[a,
\* nothing is said and x is compiled), but for buffers with a byte 128, which is
\* taken for the end.
AcceptsGrammar ==
  Done /\ ~ ranOut /\ (\A k \in DOMAIN buffer : buffer[k] # TK_EOF) =>
    (ret # NULL /\ ~ reported <=> WellFormed)

\* Where every alternative is one group, as parser.c:8 defines it, or there is
\* no alternative, the NFA accepts what the regular expression usually means.
\* (When transform() fails, (a)a* becomes a and nothing is said.)
MeansItsGroups ==
  Succeeded /\ ~ ranOut =>
    LET M == Meanings(buffer, TRUE) IN M # {} => M = {heap[ret].words}

\* The column of every character, and of the end, on a terminal with a tab stop
\* every 8 columns.
Columns ==
  LET column[k \in 1 .. Len(buffer) + 1] ==
        IF k = 1 THEN 0
        ELSE LET before == column[k - 1]
             IN  IF buffer[k - 1] = Tab THEN 8 * (before \div 8 + 1) ELSE before + 1
  IN  column

\* "align error arrow with spaces, must handle 8-width tabs" (lexer.c:123): the
\* arrow is under the last character of the token that the message is about, or
\* after the last of all for TK_EOF, wherever on the way the error was noticed.
\* (It is off at the end of an empty buffer or of one that ends with a tab; a byte
\* 128 is taken for the end.)
ArrowUnderToken ==
  message.column # NoArrow =>
    /\ \E start \in 1 .. message.pos :
         Lex(buffer, start) = [token |-> message.token, pos |-> message.pos]
    /\ IF message.token # TK_EOF
       THEN message.column = Columns[message.pos - 1]
       ELSE message.pos > 1 /\ buffer[message.pos - 1] # Tab
              => message.column = Columns[message.pos]

\* Every regular expression accepted without a message has its usual meaning,
\* as "Tsuquo compiles a regular expression" (README.md:3) with "Alternations"
\* (README.md:19) suggests.  It does not hold: (a)a|a means a(a|a).
UsualMeaning ==
  Succeeded /\ ~ reported /\ ~ ranOut => heap[ret].words \in Meanings(buffer, FALSE)

\* parse() returns "NULL if fail" (parser.c:24): not an NFA after a message.  It
\* does not hold: a( is reported as malformed and accepted as a.
RejectsReported == Done /\ reported => ret = NULL

\* parse() returns, unless it writes to memory that was freed.
Returns == <>Done
=============================================================================
