# A TLA+ model of Tsuquo

Tsuquo compiles a regular expression to a minimal deterministic finite
automaton: a lexer and a recursive-descent parser drive **T**hompson's
construction, the **su**bset construction turns the NFA into a DFA, the
**quo**tient construction minimizes it, and the result is written as a Graphviz
file.  This directory models the stages of that pipeline, the sets they are built
on and the program that runs them, checks them with TLC and proves with TLAPS, for
every value of the constants, what each stage promises the next: that the DFA
accepts what the NFA accepts, that the quotient construction tells exactly the
separable states apart, that the result is equivalent and minimal.

Tsuquo has one thread.  What makes it hard is not concurrency but algorithms
over shared mutable tables: recursion without a record of what is in progress,
cells that double as flags, fixpoints reached pass by pass, sets whose
comparison function orders nothing, ownership of heap cells that moves from one
NFA to another, and failures (of an allocation, of a parse) that are reported
through the same NULL as "nothing there" or not at all.

## Inventory

| Component | State | Operations | Hard part | Correct if |
|---|---|---|---|---|
| `control.c` input | `CmpCtrl` buffer, position, flags | `read_file`, `read_line`, `init_cc` | newlines are dropped, buffers grow | every other byte reaches the lexer in order |
| `lexer.c` | current token | `get_char`, `lex`, `print_error` | escapes; bytes from 128 on alias tokens, NUL is `EPSILON` | tokens are those of the README |
| `parser.c` | call stack, fragments held by each call | `parse`, `regex`, `group`, `gprime`, `quantifier`, `pattern`, `range`, `allowed` | NULL means both "nothing here" and "failed"; who frees which NFA | precedence and errors are as documented, no NFA is leaked or freed twice |
| `nfa.c` | NFAs and the region of NFAStates each owns | `init_thompson_nfa`, `nfa_union`, `nfa_append`, `transform`, `init_range_nfa`, `destroy_*`, `index_states`, `epsilon_closure` | each construction relies on the shape the previous ones left | shape, ownership, language, numbering |
| `set.c` | sorted linked list with head, tail and size | `set_insert`, `set_find`, `set_decapitate`, `set_union`, `set_equals`, iterators | `tail` and `size` kept by hand in every branch; with `compare_sets` (never negative) a set is a stack; a union can stop half-way | the lists implement sets; callers do not rely on more |
| `dfa.c` | `mem_region` of sets of NFA states, worklist, `accepts`, `delta` | `subset`, `convert_nfa_to_dfa` | worklist that grows while it is emptied; found versus new states | equivalent to the NFA, no duplicates, tables complete |
| `minimize.c`, first half | `merge` table, pass flag, call stack | `init_minimal_dfa`, `quotient`, `distinguishable` | unbounded recursion; half the table uninitialized; the last state has no row | marks are exactly the separable pairs |
| `minimize.c`, second half | `merge` reused for flags, `mem_region`, `delta` | `collect_equivalents`, `construct_minimal_states`, `construct_transition_table` | flags overwrite verdicts; last state handled apart; ignored `INSERT_ERROR` | classes are whole, result minimal and equivalent |
| `minimize.c`, `dfa.c`, `nfa.c` Graphviz output | file | `gen_*_graphviz`, `generate_transition_label` | runs of characters across two 64-bit bitfields | every state and transition drawn once; a label names exactly the characters |
| `main.c` driver | the stages' results | `main`, `ABORT`, the order of `minimize` | partial failure: release what exists, report the truth; a file name cut out of a path | nothing left behind but what the failing call lost; no success message without a file |

The stages interact only by handing over one pointer: `parse()` gives an `NFA`
to `convert_nfa_to_dfa()`, which gives a `DFA` to `minimize()`.  Inside a stage,
functions share the struct under construction and its `mem_region`.
`tests/` with the vendored Unity framework, `examples/`, `demo/` and the build
files hold no program logic and are not modelled.  The hazards found on the way
are listed, each at its line, in `PROJECT.json`.

## Modules

| Module | Models | State and actions |
|---|---|---|
| `Automata` | the part of `struct DFA` that the minimizer reads, what it relies on (`IsDFA`; `IsTrim`: every state leads to an accepting one); what it means for no suffix to separate two states (the pair lies in a bisimulation) | constant level |
| `Separation` | *abstract specification* of minimization: tell separable pairs apart, never take it back, report success only with all of them told apart | `dfa`, `apart`, `status`; `Separate`, `Succeed`, `Fail` |
| `Quotient` | `init_minimal_dfa`, `quotient`, `distinguishable` | the `merge` table, loop variables, `made_mark`, and the activation records of the recursion as `stack`; one action per branch or return |
| `MinimalStates` | `collect_equivalents`, `construct_minimal_states`, `find_min_set`, `construct_transition_table` | `merge` again (with VISITED), `collected_last_state`, the recursion as `calls`, `mem_region`, `delta`; one action per branch, and two for what running out of memory does |
| `NFA` | the Thompson constructions, `index_states`, `epsilon_closure`, `gen_nfa_graphviz` as operators on NFAs; the shape that Thompson's constructions give them (`IsNFA`, `IsThompson`); a reference definition of acceptance | constant level |
| `Thompson` | any sequence of calls of `nfa.c` by a caller that holds several NFAs | `held` NFAs, allocated addresses `heap`; one action per function of `nfa.h` |
| `Subset` | `init_dfa`, `subset`, `convert_nfa_to_dfa`, `gen_dfa_graphviz` | `mem_region`, `outs`, the set `accepts` and beside it the flags `is_accept`, `worklist`, loop variables, the tables; one action per branch of the inner loop |
| `Words` | languages cut off at `WordBound` characters: concatenation, repetition, the quantifiers | constant level |
| `Lexer` | tokens, `get_char`, `lex`, the arrow of `print_error` | operators from a buffer and a position to a token and the next position, and to the column of the arrow |
| `Grammar` | *reference*: the regular expressions of `src/README.md`, and the meanings that the usual precedence gives them, as the phrases that start at each position of a buffer; not translated from the parser | constant level |
| `Parser` | `parse`, `regex`, `group`, `gprime`, `quantifier`, `pattern`, `range`, `allowed`, and when and about what `print_error` prints | `buffer`, `token`, `pos`, `flags`, the last `message`; the activation records of the recursion as `stack`, each with the NFA its function holds; `heap`, from the address of each NFA to the words it accepts and whether its states exist (`intact`); one action per branch or return, one for each way a construction may fail |
| `Label` | `generate_transition_label` | `bitfield`, `i`, `left`, `right` and the characters `named` so far; one action per turn of a loop |
| `Graphviz` | `gen_minimal_dfa_graphviz`; every label is written by the steps of an instance of `Label` | `min_dfa`, the `file`, the `cell` of `delta`; one action per part of the file and per cell |
| `AbstractSet` | *abstract specification* of `set.h`: what each call does to the elements and what it returns | `content`, `sorted`, `result`; one action per function |
| `SortedSet` | `set.c` | the nodes as `heap`, the structs as `sets`, the running `set_union` as `call`; one action per function, and per node of a union |
| `Tsuquo` | `main`, `ABORT`, `init_cmpctrl`, `read_file`, the order of `convert_nfa_to_dfa` and `minimize`, the `destroy_*` functions; extends `Graphviz` | the members and locals, the pieces of memory allocated (`heap`) and those that a variable of `main` leads to (`held`), the calls that `failed`; one action per stage, and one for each way it may fail |
| `NumberFacts` | lemmas: the least number of a set, induction, iteration to a least closed set, the existence of a function defined by recursion, the ascending enumeration of a finite set | |
| `QuotientProofs`, `MinimalStatesProofs`, `ParserProofs`, `SortedSetProofs`, `TsuquoProofs`, `SubsetProofs`, `ThompsonProofs` | theorems about the module of that name; those about `Graphviz` and `Label` are in `TsuquoProofs` | |
| `MCAutomata`, `MCQuotient`, `MCMinimalStates`, `MCSubset`, `MCParser`, `MCLabel`, `MCSortedSet`, `MCTsuquo` | constants for TLC | |

Correspondence.  Variables keep the names of the struct members and locals.
`pc` stands for the place in the code.  Loops run one iteration per action, and
recursive functions one call, test or return per action, wherever other state is
read in between; a loop whose body depends on nothing that changes (the cells of
one row of `delta`, the closure of one character) is one action.  A set that
`set_insert()` keeps sorted is a TLA+ set, the head of it its minimum; a set
ordered by `compare_sets()` is a stack, because that function is never negative
and `set_insert()` then inserts at the head.  A bitfield is a set of characters.
`malloc`ed memory that was never written is UNINIT, which reads as either
verdict.

In `Parser` a call pushes a record and sets `ret` to RUNNING; the caller resumes
when `ret` has become what was returned.  `quantifier()` and `allowed()`, which call
nothing that recurses, are parts of their callers.  An NFA is an address: joining
two frees the right one's, as `nfa_append()` and `nfa_union()` do, and the words at
the left one's address become those of the result.  That the constructions of
`nfa.c` do compute these words is what `Thompson` checks (`AcceptsItsWords`).  What
a construction does when memory runs out, `Parser` models itself: any of them may
return NULL, at any call, and `ranOut` remembers that one has.  `nfa_append()` and
`nfa_union()` have changed their left NFA by then, and `nfa_union()` has also freed
the states that it begins and ends with (`intact`); the callers do not look at the
result, so that `gprime()` goes on without an NFA (`GprimeJoinFails`), and
`pattern()` and `allowed()` with what comes next (`PatternJoinFails`,
`AllowedFails`).  A range or a wildcard of which a part fails lacks characters
(`SomeOf`).  A construction that writes to a freed state ends the behavior with
`ret` UNDEFINED.  A message is the token it is about, the position, and the column
of the arrow.  The flag `CC_DISABLE_INSTEAD_FOUND`, which only shapes its text, is
left out.

The sets of the other modules are TLA+ sets because of `SortedSet`: its lists, with
the nodes, `tail` and `size` that the code keeps, implement `AbstractSet`.  The
refinement mapping takes a list to the set of its elements, and a list that
`set_union()` is working on to the elements it had before, so that a union, complete
or not, is one step of `AbstractSet`.  `result` is the last call with its arguments
and what it returned, so that the answer of one call is not taken for another's.
Lists of both kinds of compare functions
occur: one that orders by number, and `compare_sets()`.  A caller inserts into one
of the second kind only what `set_find()` has not found, as `subset()` does, for
`set_insert()` compares with the head alone.

`Tsuquo` composes the stages.  What they compute is the subject of the other modules;
here `Compiled` says of each line whether it parses, whether its minimization
overflows the stack, what its minimal DFA is, and, in `less`, for which other lines
`parse()` may return the NFA when memory runs out: those that lack characters, the
beginning or the end.  What `Tsuquo` adds is what goes
on around them: the name of the file, which pieces of memory a call leaves with
`main()` and which it loses when it fails, what `ABORT` frees, and the graph, whose
labels are written by the steps of `Label`.  An allocation that nobody checks ends
in the state `crash`.

Definitions called *Mutant* are plausible bugs used to see that each
property can fail; no specification uses them.

The handover between stages is itself a property, and what one stage is proved to
hand over is what the next declares as its assumption:

* `Thompson!ThompsonShape` with `TypeOK` is `IsNFA` and `IsThompson`, all that
  `Subset` assumes of an NFA.  The shape includes what looks like details and is
  relied on: every state leads to the accept state, and some character can be read
  before the start leads there.  `Thompson!IndicesDistinct` is what lets `Subset`
  treat sets of indices as sets of states, `Thompson!AcceptsItsWords` what lets
  `Parser` treat an NFA as a set of words.
* `Subset!HandsOverDFA` is `IsDFA` and `IsTrim`, all that `Quotient` and
  `MinimalStates` assume of a DFA; `Subset!SameLanguage` says that it accepts what
  the NFA accepts.
* `Quotient!QuotientExact` is the table that `MinimalStates` starts from;
  `MinimalStates!SameLanguage` and `IsMinimal` say what comes out at the end.

## Runs

| Run | Question | Result |
|---|---|---|
| `quotient` | For 24 DFAs, including ones on which the recursion never ends: is every cell read written, every mark right, the final table exact, no mark ever undone; and does `quotient()` return if no pair of states leads `distinguishable()` back to itself? | holds |
| `quotient_overflows` | Does `quotient()` always return, as its comment says? | **no**: `ab*c`, `a*bb`, ... exhaust the stack |
| `minimal_states` | Are classes whole, flags never taken for verdicts, the result equivalent and minimal, and is it always built?  And if any allocation may fail, are classes still disjoint? | holds |
| `thompson` | Do shape, ownership, numbering and language hold after every sequence of constructions and frees, and is each transition drawn once? | holds |
| `subset` | Is the DFA equivalent, free of duplicate states, well formed for `minimize()`, drawn as it is, and is it always built? | holds |
| `parser` | On every short string, as long as memory suffices: does `gprime()` return the NFA that `regex()` keeps; is every regular expression of the grammar accepted, and nothing else without a message; does an accepted one whose alternatives are groups have its usual meaning; does `parse()` leave no other NFA behind when it succeeds; is the arrow of a message under the token it is about?  And whichever constructions return NULL: is no NFA held after it was freed, or by two functions; does `parse()` return, unless it writes to a freed state? | holds |
| `alternation_binds_tighter` | Does every accepted regular expression have its usual meaning? | **no**: `(a)a\|a` is `a(a\|a)` |
| `error_accepted` | Does `parse()` return NULL when it has reported an error, as its comment says? | **no**: `a(` and `a[b` are reported and accepted as `a` |
| `label_loses_upper` | Does a label always name every character? | **no**: the label of `?` and `A` is `?` |
| `tsuquo` | Whatever fails or crashes: does the program leave behind only what the failing call itself has lost; is a file that is written named after the input, and does it show the states and transitions of the minimal DFA; does a label name no other characters than the transition's, all of them unless a chunk begins with the last bit of the first bitfield, in chunks as long as can be but for that one; does the program end? | holds |
| `success_without_file` | Is success reported only if there is a file? | **no**: that it cannot be opened is not looked at |
| `sorted_set` | After any sequence of calls, with allocations that fail: are `tail` and `size` right, every node in one list, and do the lists implement sets? | holds |

### Bounds

* DFAs (`MCQuotient`, `MCMinimalStates`): the tables `convert_nfa_to_dfa()`
  builds for the regular expressions named beside them, two to six states.  They
  were chosen by what they exercise: several passes, pairs whose verdict changes
  within a pass, pairs with the dead state, the last state in front, alone or in
  a class, classes of one to five states that interleave, and pairs that lead
  back to themselves.  `MinimalStates` gets only DFAs on which `quotient()`
  returns.
* `StackLimit = 37` is more than the ordered pairs of nodes of a DFA of five
  states, so a recursion that exceeds it there has repeated a pair and exceeds
  every limit.  The one six-state DFA overflows by the same argument, its cycle
  being shorter than the limit.
* `Thompson`: four calls, two NFAs held at a time (as between `local` and `g` in
  `gprime()`), four characters, words of up to three.  Four calls nest every
  construction in every other; three characters distinguish a skipped from a
  repeated pattern.  Deadlock is not checked: when the calls are used up and the
  last NFA is freed, the bounded caller stops.
* `Subset`: every concatenation and alternation of two out of seven small
  expressions, with and without repetition, and fifteen larger ones; words of up
  to five characters, more than the states of any of their minimal DFAs.
* `Parser`: all strings of up to six characters over `a ( ) |`, those of up to
  five also in one more pair of parentheses, all of up to five with `*` as well and
  over `a b [ ] -`, and of up to four over all of these with `\` and `.`.  Five
  tokens suffice for every pair of phrases on both sides of an operator, six for an
  alternation before or after a group, and seven, the outer two of them fixed, for two
  levels of parentheses around an alternation.  The
  other quantifiers share every branch with `*`.  Words have up to three
  characters, out of `a`, `b`, `c`: enough to tell a concatenation from an
  alternation, and a part that is skipped from one that is repeated; longer words
  are cut off on both sides of the comparison.  Bytes from 128 on and NUL are
  left out: the documented grammar is one of ASCII characters.
  Memory may run out (`ShortOfMemory`) on strings one character shorter, on those with
  brackets, and on six in which a choice is nested, as it must be for a broken NFA to
  be joined again.
  For the arrow there are lines of six to nine characters followed by up to three
  out of tab, `a`, `(` and `)`: errors before, at and after a tab stop.
* `Label` and `Tsuquo`: bitfields of four bits instead of 64, all 256 pairs.  A
  chunk may begin and end at every place relative to the border, which four bits on
  each side are enough for.  The character set that is written as `&Sigma;` is one
  of the pairs, as in the code.
* `Tsuquo`: eight command lines (dots in the directory, several dots, none, an
  empty name, too few and too many arguments) with seven files (empty, with
  newlines, one that does not parse, one that overflows the stack, a DFA of three
  states with loops), and a file for each of the 255 sets of characters.
* `SortedSet`: two sets, three elements, four nodes at a time.  An insertion can come
  first, last, between two nodes or be a duplicate; a union can fail before, between
  and after the nodes of its right side.  `result` is not in the view of the states:
  no step reads it, and the refinement is checked on every step, the steps to states
  already seen included.
* `Tsuquo`, when memory runs out in `parse()`: the NFA lacks one of several
  characters, or all but one (`Parts`); `TsuquoProofs` is about any.
* Memory: in `MinimalStates`, `scarce` lets each allocation fail on its own; it is
  on for the DFAs of `ShortOfMemory`, those of up to four states.  In `Parser`,
  any construction that `parser.c` calls may return NULL at any call, once or several
  times, on the lines of its own `ShortOfMemory`; in the runs that find a
  counterexample there are none.  Where one of several allocations of a
  function fails the code does not notice and follows NULL (`nfa.c:145`); that is
  the step `Crash` of `Tsuquo`, where any call may fail, once.

### Fairness

The program is sequential and is not waiting for anything, so the only
assumption is weak fairness of the whole next-state relation: the thread goes on
while it can.  No action is singled out, except in `Parser`: there fairness is of
every step but a failing construction, for nothing makes memory run out; what the
code does after a failure is fair (`Aftermath`).
`SortedSet` is a library whose callers may stop at any time: it has none.

## What is proved

Seven modules of proofs show most of what the runs check for every value of the
constants; each theorem is named after its property, with `Holds`, except the five
of `QuotientProofs`.  Together they are a chain along the pipeline:

| Stage | Proved | From |
|---|---|---|
| `Thompson` | `TypeOK`, `ThompsonShape`, `OwnedOnce`, `IndicesDistinct`, `AcceptsItsWords`, `GraphShowsNFA` | any numbers of calls and NFAs; the four characters that name the ranges lie in the order of ASCII |
| `Parser` | `HeldExists`, `GprimeKeepsLocal`, `HeldOnce`, `SuccessLeaksNothing`, `ArrowUnderToken`, `AcceptsGrammar` | buffers of bytes |
| `Subset` | `TypeOK`, `StatesDistinct`, `TransitionsExact`, `HandsOverDFA`, `SameLanguage`, `GraphShowsDFA` | `IsNFA`, `IsThompson`: what `Thompson` proves |
| `Quotient` | `TypeOK`, `ReadsWrittenCell`, `MarksSound`, `QuotientExact`, `ImplementsSeparation` | `IsDFA`: what `Subset` proves; some stack |
| `MinimalStates` | `TypeOK`, `FlagNotReadAsVerdict`, `CollectedIffFlagged`, `ClassesAreWhole`, `ClassesDisjoint`, `SameLanguage`, `IsMinimal` | `IsDFA` and `IsTrim`; a table as `Quotient` leaves it |
| `SortedSet` | `WellLinked`, `ImplementsSet` | elements are positive numbers, as addresses and indices from 1 are; `"none"` is not a set |
| `Label`, `Graphviz`, `Tsuquo` | `LabelsNameChars`, `LabelsAreWhole`, `WritesGraph`, `ReleasesAll` | `IsMinimalDFA` of what was compiled; words of any width; characters `Width - 1` and `Width - 2` (`?` and `>`) are printable together |

The assumptions are those that the modules declare as `ASSUME`, which TLC evaluates
in every run.

**Thompson.**  The inductive invariant `Inv` says that what is allocated is what is
held, that no two NFAs share a state, and of each NFA that it is `Good` and
`Means` its words.  `Good` replaces the least sets in `IsThompson` by what can be
carried through a construction: no set of states without the accept state traps a
path (`Shape`), every trap that contains the start is everything (`Spans`), and
every closed set of the start has a state that reads.  `Means` replaces the words
as a whole by every piece of every word: the NFA goes from place `i` of a word to
place `j` exactly if the piece between is one of its words.  A *marking* is a set of
places for each state; a run leads wherever every marking closed under steps
leads.  That each construction does to runs what its operator does to words
(`UnionReads`, `ConcatReads`, `TransformReads`) follows from markings pieced
together from those of the parts, the repetitions from chains of runs.  For the
indices, `Explores` says that the search left both ways out followed of every
state it numbered, so what it numbered is a trap, and therefore everything.  `Draws`
says the same of the search of `gen_nfa_graphviz()`, and that it has added as many
lines as there are transitions of the states it has entered, and these.  That no
transition is printed twice takes one more property of the constructions: the two
ways out of a state differ (`Forks`, part of `Good`).

**Parser.**  `MemoryInv` is the conjunction of `WellCalled` (each activation record
holds an NFA only where its function may have one, and was called by a function that
calls it there), `Sound` (what is held exists and is held once, or by a `regex()` and
the `gprime()` it awaits; the exception is a `regex()` on top to which an aborted
`gprime()` has just returned NULL), `Kept` (every NFA is held or being returned,
unless something has failed: memory, the abort flag, or a token that no caller takes
for an end) and `Ended` (an NFA returned by `parse()` comes without the abort flag).
That the `regex()` and the `gprime()` above it hold the *same* NFA, and that `gprime()`
has one at all, is claimed by `Sound` only until a construction fails, for after that it
is false: what remains true then, and is proved, is that
nobody holds an address that was freed and no two hold the same.
None of the properties is inductive
without it: a local whose NFA is gone is harmless only because the flag is set and
the one caller that still holds it is about to look at it.

`ArrowInv` says that `token` and `pos` are what one call of `lex()` leaves (every step
that fetches goes through `Consume`; before the first, `parse()` is alone on the
stack), and that the message, if any, came about so.  That the loop of
`print_error()`, which counts spaces and a remainder, gives the column of the
character before is `SpacesAreColumns`: between them, after each character, is the
next multiple of eight.

`AcceptsGrammar` compares two recursions: the parser's, which looks at one token and
never goes back, and the grammar's, in which every phrase that starts at a position
is a choice.  It needs an invariant because what a function returns tells nothing
about its caller.  `GrammarInv` says, as long as memory has sufficed, there has been
no message and no flag is set: the buffer is well formed if and only if what is left
to read from the position of the parser may end where it has to (`Sure`).  Where it
has to end is carried down the stack (`Aims`): a regular expression that is not in
parentheses ends with the buffer, one in parentheses before a `)` after which the
one around it may go on.  What is left to read depends on where in its function each
record is (`Running`, `Returned`): a regular expression, the rest of one after a
piece or after an atom, or the rest of a pair of brackets.  That the parser may
decide by the next tokens is a fact about the grammar (`MeetsPiece`, `MeetsAtom`,
`MeetsStart`, `MeetsBrackets`), and rests on phrases ending after they start, so
that the recursive functions of `Grammar` can be built from the end of the buffer
(`PhrasesExist`).  Once there has been a message, the buffer is not well formed
(`Lost`).  When memory has run out nothing is claimed: an `allowed()` that gets NULL
from `init_thompson_nfa()` lets `x[a` be compiled as `x`, without a message.

**Subset.**  `Inv` adds to the properties what is left to do: which states are on
the worklist and how far the inner loop has come (`Progress`), that every state is a
closed and nonempty set of NFA states (`StateSets`), that `accepts`, the flags
`is_accept` and the table are what the states say (`AcceptsExact`, `Tabled`).
`IsTrim` follows because a trap of the DFA would be one of the NFA.  `SameLanguage`
compares layer by layer: the configurations of the NFA after `k` characters are the
set that the DFA state after `k` characters stands for.  `GraphShowsDFA` goes
through the same layers along the lines of the graph (that each state is drawn once
is the agreement of `accepts` with the flags, which the code sets in three places):
from one state and on one character there is at most one line, and it leads where
the table of the state does (`LinesLead`).

**Quotient.**  None of the properties is inductive by itself; the invariant has three
layers.

1. *Shape.*  The scanned cell lies above the diagonal; cells above the diagonal
   hold 0 or 1, and 1 implies that both states accept or neither does; the
   oldest call is on the scanned pair, every other on the successors of its
   caller's.  This is what bounds the indices of every read.
2. *Sound.*  Marked pairs are separable, and so is the pair of the top call
   when `true` is being returned.  Stated without words: no bisimulation relates
   the two states.  A step back along `stack` hands the separating suffix to the
   caller.
3. *Complete.*  When `false` is being returned, the pair *agrees with the table
   as it is now*: acceptance agrees, and every character leads to a pair that is
   unmarked, or to a pair with the dead state from which nothing accepting can
   be reached (the union of all such states is `Blank`).  Each call has
   established this for the characters it has been through, and each pass for
   the cells it has scanned -- unless it has marked something since.  A pass
   that marks nothing therefore leaves a relation that is a bisimulation, so
   every unmarked pair is inseparable.  Together with layer 2 the table is exact,
   and because marks only grow, every step is a step of `Separation` or a
   stutter.

**MinimalStates.**  `Built` is the conjunction of the layers `Shape` (every cell is a
verdict or a flag, and the recursion climbs), `Collected` (a row is flagged exactly
if its state is in the set being collected or in one before, and what the calls on
the stack still have to do is what the class still lacks), `Numbered` (the minimal
states have the indices from 0 on, those in `accepts` if they accept, and the start
is state 0) and `Tabled` (the rows written so far lead where the members of the
class lead).  Where memory is short, the classes of `mem_region` need not be whole
but are still disjoint.

**SortedSet.**  `WellLinked` follows links by a recursive function, of which nothing
can be shown by induction on the heap.  `ListInv` states instead that there is a
path of nodes for every list, that paths share no node, and that `head`, `tail` and
`size` are those of the path; `WalkIsPath` shows that this is what the recursive
function finds.  `UnionInv` says how far a union has come, which makes each of its
steps, the failing ones included, a step of `AbstractSet` or a stutter.

**Label, Graphviz, Tsuquo.**  `LabelInv` relates the shifted `bitfield` to the two
fields at `i`, in both phases of a chunk (what it is about, `Read`, is `lower` alone
if a chunk begins with its last bit: the theorems do not hide that characters are
then missing); `GraphInv` says that the cells before `cell` are in the file;
`DriverInv` what each variable of `main()` is by stage; `MemoryInv` that what exists
is held by a variable of `main()` or was lost by the call that failed.

Some facts are proved once and for all in `NumberFacts`.  The library's induction
rules take an operator, which the provers cannot instantiate, so they are stated
over sets: `InductiveSet` (a set with 0 and successors is all of `Nat`),
`LeastNumber`, `IterationFinds` (adding what a step finds until nothing is new
yields the least closed set), `RecursionExists` (a function whose value at `k` is
computed from those below `k` exists), `CountingExists` (the same on an interval,
from the value before) and `FixpointExists` (a step that makes functions agree more
and more has one that it leaves as it is: the recursion of the two searches).  This
suffices for the recursive functions of the model: a recursive function is CHOOSEn
among those that satisfy its equation, and once one is known to exist the equation
is all that is used.

### Only model-checked

* Liveness under fairness is out of the prover's reach: `AcyclicReturns`,
  `BuildsMinimalDFA`, `Terminates`, `Returns`, `Exits`.
* `MeansItsGroups` relates the words of an NFA to those of a phrase whose
  alternatives are groups.  Which buffers are phrases is proved (`AcceptsGrammar`);
  that the way `gprime()` groups them gives these the same words takes the laws of
  concatenation and union for words cut off at `WordBound`.
* The five runs that find a violation are facts about the code, shown by one
  counterexample each.

## What the model found

* `distinguishable()` has no memory of the pairs it is working on.  An unmarked
  pair that leads back to itself makes it recurse until the stack overflows:
  `ab*c` is enough.  When it does return, its table is exact (proved).
* `set_insert()`'s `INSERT_ERROR` is ignored throughout `minimize.c`; short of
  memory, states vanish from the result instead of the NULL that
  `minimize.c:354` announces (or a NULL pointer is followed, the state
  `undefined`).  `ClassesDisjoint` shows that no state is then in two classes.
* `group()`, `gprime()` and `regex()` call each other without levels of precedence:
  what follows a group is grouped from the right, and what follows an alternation
  belongs to all of it.  `(a)b|c` is compiled as `a(b|c)`, and `a|(b)c` as `(a|b)c`.
  Where every alternative is a single group, the meaning is the usual one.
* `gprime()` takes NULL from `group()` for "nothing to parse" by looking at the next
  token only.  After `a(` and `a[b` an error has been reported, yet the NFA of `a` is
  returned and the driver goes on.  `AcceptsGrammar` shows that this is the
  worst that happens while memory suffices: what is accepted without a message is
  well formed (proved, for strings of any length and nesting).
* Nobody looks at what `nfa_append()` and `nfa_union()` return.  When one fails,
  `gprime()` goes on with NULL, and the next group takes the place of all before
  it: `(a)(b)(c)` is then compiled as `(a)(b)`, because `regex()` ignores the
  other address that comes back.  `nfa_union()` frees states that its left NFA
  already has, and `((a)|a)` gives an NFA that begins with freed memory
  (`intact`).  `allowed()` takes a NULL segment for nothing: `x[a` is compiled as
  `x`, and a failing `transform()` makes `a` of `(a)a*`, without a message;
  `AcceptsGrammar` and `MeansItsGroups` exempt all this.  `HeldExists` and
  `HeldOnce` show that the NFAs themselves are not freed twice or used after
  (proved).
* A byte 128 in a regular expression is the same as `TK_EOF`: what comes after it
  is not looked at.  `AcceptsGrammar` is therefore about buffers without one.
* `generate_transition_label()` shifts in two places and looks at the second bitfield
  after one of them only: a chunk that begins with character 63 (`?`) makes it lose
  characters 64 to 127.  `LabelsNameChars` shows that this is the only such case.
* `main()` reports success without looking at what `gen_minimal_dfa_graphviz()`
  returns.  A path without a dot in its last component is searched for one further
  left: `d.e/a` gives the file `d.dot`, and `a` whatever lies before the argument
  in memory.
* What is not freed when a call fails (`Unreleased` in `Tsuquo`): the stream of
  `read_file()`, NFAs that the parser gives up on when memory is short, the rows of
  a table of which one cannot be allocated, and all of `min_dfa` when a step of
  `minimize()` fails.  `ReleasesAll` shows that there is nothing else.
* The arrow of an error message is one column off at the end of an empty line, and
  more at the end of one that ends with a tab, because the loop that measures the
  line leaves out its last character and one space is added for the end.

## Not modelled

* `read_line()`, which only the unit tests call, the unit tests, Unity, the build files.
* The wording of messages, how a character is escaped in a label, the lines of a
  graph that are the same in each: no property is about them.
* An allocation that fails without its function noticing: one of the two or three of a
  construction (`nfa.c:145`, 184, 261), after which NULL is followed, and the
  `set_insert()`s whose result is ignored, after which a state is in no
  `mem_region`.  In `Tsuquo` they are crashes.  The NFA with freed states that
  `parse()` may return is a crash there, too.
* What follows a NULL pointer: `undefined` in `MinimalStates` and `crash` in `Tsuquo`
  have no successor.
* Bytes from 128 on and NUL in a regular expression are in the model of `Parser`, and
  the theorems are about them too, but not in its runs: `src/README.md` does not say
  what they mean.

## Plan

All modules above are done, and every safety property that a run checks is proved but
one.  What is left is `MeansItsGroups`: `Aims`, in the proof of `AcceptsGrammar`, would
have to carry what the NFAs held on the stack mean so far, next to where the regular
expression they are parts of may end.
