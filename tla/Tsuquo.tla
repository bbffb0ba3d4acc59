-------------------------------- MODULE Tsuquo --------------------------------
(***************************************************************************)
(* The program: main.c, control.c, the order of minimize()'s steps, and    *)
(* who destroys what when a step fails.                                    *)
(*                                                                         *)
(* What the stages compute is the subject of other modules; here they do   *)
(* what those promise: Compiled says of every line whether parse() returns *)
(* an NFA and what its minimal DFA is.  Memory is counted in pieces that   *)
(* are allocated and freed together.  held are the pieces that a variable  *)
(* of main() leads to, which ABORT and the end of main() free.  An         *)
(* allocation that fails unnoticed crashes the program.                    *)
(***************************************************************************)
EXTENDS Graphviz, Sequences, FiniteSetsExt

CONSTANTS
  Inputs,    \* pairs of a command line and the content of the file it names
  Compiled   \* line |-> whether it parses, overflows, its minimal DFA, and the
             \* lines whose NFAs parse() may return when memory runs out

Newline == 10
CarriageReturn == 13

WithoutNewlines(text) ==
  SelectSeq(text, LAMBDA ch : ch \notin {Newline, CarriageReturn})

ASSUME InputsAssumption ==
  \A input \in Inputs :
    /\ input[1] \in Seq(Seq(STRING))
    /\ WithoutNewlines(input[2]) \in DOMAIN Compiled
ASSUME CompiledAssumption ==
  \A ln \in DOMAIN Compiled :
    /\ IsMinimalDFA(Compiled[ln].minimal)
    /\ \A part \in Compiled[ln].less :
         part \in DOMAIN Compiled /\ Compiled[part].parses

VARIABLES
  argv,       \* the arguments after the name of the program
  content,    \* of the file named by the first one
  name,       \* file_name without "dots/" and ".dot"
  buffer,     \* cc->buffer
  line,       \* the line that nfa stands for
  heap,       \* pieces of memory (and the stream) that are allocated
  held,       \* those that a variable of main() leads to
  failed,     \* the calls that failed
  said,       \* the message before the program ends
  at          \* the place in main()

driverVars == <<argv, content, name, buffer, line, heap, held, failed, said, at>>
vars == <<graphVars, driverVars>>

Init ==
  /\ \E input \in Inputs : argv = input[1] /\ content = input[2]
  /\ name = <<>> /\ buffer = <<>> /\ line = <<>>
  /\ heap = {} /\ held = {}
  /\ failed = {} /\ said = "none"
  /\ at = "args"
  /\ GraphInit

\* The next stage, after allocating pieces.
GoOn(place, pieces) ==
  /\ at' = place
  /\ heap' = heap \cup pieces
  /\ held' = held \cup pieces
  /\ UNCHANGED <<failed, said>>

\* What each of the destroy functions frees.
DestroyCmpCtrl == {"cc", "buffer"}
DestroyNFAAndStates == {"nfa"}
DestroyDFA == {"dfa", "dfa->delta", "dfa->states"}

\* Mutant: the rows of a table are forgotten.
DestroyMinimalDFAWithoutDelta == {"min_dfa", "min_dfa->merge"}

DestroyMinimalDFA == {"min_dfa", "min_dfa->merge", "min_dfa->delta"}

\* What main() frees before it ends, in any way.
Freed == held \cap UNION {{"file_name"}, DestroyCmpCtrl, DestroyNFAAndStates,
                         DestroyDFA, DestroyMinimalDFA}

\* A call returns NULL or -1, having lost track of some pieces: ABORT.
Abort(call, lost, msg) ==
  /\ at' = "exit"
  /\ heap' = (heap \ Freed) \cup lost
  /\ held' = {}
  /\ failed' = failed \cup {call} /\ said' = msg

Crash(call) ==
  /\ at' = "crash"
  /\ failed' = failed \cup {call}
  /\ UNCHANGED <<heap, held, said>>

SameInput == UNCHANGED <<graphVars, argv, content>>

-----------------------------------------------------------------------------
CheckArguments ==
  /\ at = "args"
  /\ IF Len(argv) = 1 THEN GoOn("name", {}) ELSE Abort("main", {}, "invalid")
  /\ SameInput /\ UNCHANGED <<name, buffer, line>>

Dots(arg) == {k \in DOMAIN arg : arg[k] = "."}
Separators(arg) == {k \in DOMAIN arg : arg[k] \in {"/", "\\"}}

\* Mutant: the first dot ends the name.
NameToFirstDot(arg) ==
  LET end == Min(Dots(arg))
  IN  SubSeq(arg, Max({0} \cup {k \in Separators(arg) : k < end}) + 1, end - 1)

\* From the last separator before the last dot, to the dot.
NameOf(arg) ==
  LET end == Max(Dots(arg))
  IN  SubSeq(arg, Max({0} \cup {k \in Separators(arg) : k < end}) + 1, end - 1)

\* Without a dot the search runs into what lies before the argument, where it
\* finds one (the name is then empty) or not.
MakeFileName ==
  /\ at = "name"
  /\ \/ Dots(argv[1]) # {} /\ name' = NameOf(argv[1]) /\ GoOn("cc", {"file_name"})
     \/ Dots(argv[1]) = {} /\ name' = <<>> /\ GoOn("cc", {"file_name"})
     \/ Dots(argv[1]) = {} /\ Crash("main") /\ UNCHANGED name
     \/ Abort("main", {}, "memory") /\ UNCHANGED name
  /\ SameInput /\ UNCHANGED <<buffer, line>>

InitCmpCtrl ==
  /\ at = "cc"
  /\ GoOn("read", {"cc"}) \/ Abort("init_cmpctrl", {}, "memory")
  /\ SameInput /\ UNCHANGED <<name, buffer, line>>

\* read_file(): a stream is not closed when the buffer cannot be allocated.
ReadFile ==
  /\ at = "read"
  /\ \/ buffer' = WithoutNewlines(content) /\ GoOn("parse", {"buffer"})
     \/ \E lost \in {{}, {"stream"}} :
          Abort("read_file", lost, "input") /\ UNCHANGED buffer
  /\ SameInput /\ UNCHANGED <<name, line>>

\* parse(), when memory suffices: what it gives up on may be lost.
Parse ==
  /\ at = "parse"
  /\ line' = buffer
  /\ IF Compiled[buffer].parses
     THEN GoOn("convert", {"nfa"})
     ELSE \E lost \in {{}, {"given up"}} : Abort("parse", lost, "parse")
  /\ SameInput /\ UNCHANGED <<name, buffer>>

\* parse(), when it does not: NULL, the NFA of a part of the line (from which
\* characters, the beginning or the end are missing), or a crash.
ParseOutOfMemory ==
  /\ at = "parse"
  /\ \/ \E lost \in {{}, {"given up"}} :
          Abort("parse", lost, "parse") /\ UNCHANGED line
     \/ \E part \in Compiled[buffer].less :
          /\ line' = part
          /\ at' = "convert" /\ failed' = {"parse"}
          /\ heap' = heap \cup {"nfa", "given up"} /\ held' = held \cup {"nfa"}
          /\ UNCHANGED said
     \/ Crash("parse") /\ UNCHANGED line
  /\ SameInput /\ UNCHANGED <<name, buffer>>

-----------------------------------------------------------------------------
\* convert_nfa_to_dfa(): dfa->delta is set only when all of its rows are there,
\* so destroy_dfa() does not find the rows when one cannot be allocated.
ConvertNFAToDFA ==
  /\ at = "convert"
  /\ \/ GoOn("minimize", {"dfa", "dfa->delta", "dfa->states"})
     \/ \E lost \in {{}, {"dfa->delta"}} :
          Abort("convert_nfa_to_dfa", lost, "construction")
     \/ Crash("convert_nfa_to_dfa")
  /\ SameInput /\ UNCHANGED <<name, buffer, line>>

\* What is allocated before each step of minimize() that may return NULL.
Steps == [init_minimal_dfa           |-> {},
          construct_minimal_states   |-> {"min_dfa", "min_dfa->merge"},
          construct_transition_table |-> {"min_dfa", "min_dfa->merge"}]

\* minimize(): init_minimal_dfa() loses the rows of the table if one cannot be
\* allocated; when a later step fails nobody destroys min_dfa.
Minimize ==
  /\ at = "minimize"
  /\ \/ /\ ~ Compiled[line].overflows
        /\ min_dfa' = Compiled[line].minimal
        /\ GoOn("generate", {"min_dfa", "min_dfa->merge", "min_dfa->delta"})
     \/ \E step \in DOMAIN Steps :
          /\ \E rows \in {{}, IF step = "init_minimal_dfa" THEN {"min_dfa->merge"}
                              ELSE IF step = "construct_transition_table"
                              THEN {"min_dfa->delta"} ELSE {}} :
               Abort(step, Steps[step] \cup rows, "minimization")
          /\ UNCHANGED min_dfa
     \/ Crash("minimize") /\ UNCHANGED min_dfa
  /\ UNCHANGED <<argv, content, name, buffer, line, file, cell, writing, labelVars>>

\* What gen_minimal_dfa_graphviz() returns is not looked at.
Generate ==
  /\ at = "generate" /\ WriteGraph
  /\ UNCHANGED driverVars

Finish ==
  /\ at = "generate" /\ writing \in {"closed", "failed"}
  /\ at' = "exit" /\ said' = "success"
  /\ heap' = heap \ Freed /\ held' = {}
  /\ UNCHANGED <<graphVars, argv, content, name, buffer, line, failed>>

Ended == at \in {"exit", "crash"}

Stopped == Ended /\ UNCHANGED vars

Next ==
  \/ CheckArguments \/ MakeFileName \/ InitCmpCtrl \/ ReadFile
  \/ Parse \/ ParseOutOfMemory \/ ConvertNFAToDFA \/ Minimize
  \/ Generate \/ Finish \/ Stopped

\* The only thread goes on.
Spec == Init /\ [][Next]_vars /\ WF_vars(Next)

-----------------------------------------------------------------------------
\* What is never freed when a call fails.
Unreleased(call) ==
  CASE call = "read_file"                  -> {"stream"}
    [] call = "parse"                      -> {"given up"}
    [] call = "convert_nfa_to_dfa"         -> {"dfa->delta"}
    [] call = "init_minimal_dfa"           -> {"min_dfa->merge"}
    [] call = "construct_minimal_states"   -> {"min_dfa", "min_dfa->merge"}
    [] call = "construct_transition_table" ->
         {"min_dfa", "min_dfa->merge", "min_dfa->delta"}
    [] OTHER -> {}

\* Wherever the program gives up, ABORT (main.c:13) frees what main() has built
\* until then, and the end of main() frees all: what is left at the exit was lost
\* inside the call that failed.
ReleasesAll ==
  at = "exit" => heap \subseteq UNION {Unreleased(call) : call \in failed}

\* The last component of a path, and what is before its last dot.
Base(arg) == SubSeq(arg, Max({0} \cup Separators(arg)) + 1, Len(arg))
Stem(arg) == SubSeq(Base(arg), 1, Max(Dots(Base(arg))) - 1)

\* "success: produced file" (main.c:78): if the file could be opened and parse() had
\* enough memory, it is named after the input file, and shows each state of the
\* minimal DFA of that file's regular expression once and each transition with the
\* characters it reads; but LabelsNameChars says which may be missing.  (A name
\* without a dot in its last component comes out otherwise.)
WritesGraph ==
  said = "success" /\ file.exists /\ "parse" \notin failed =>
    LET minimal == Compiled[WithoutNewlines(content)].minimal
        Chars(p, q) == minimal.delta[p][q].lower \cup
                         {Width + b : b \in minimal.delta[p][q].upper}
    IN  /\ Dots(Base(argv[1])) # {} => name = Stem(argv[1])
        /\ file.accepting \cap file.normal = {}
        /\ file.accepting \cup file.normal = 0 .. minimal.size - 1
        /\ file.accepting = minimal.accepts
        /\ {<<edge[1], edge[2]>> : edge \in file.edges} =
             {t \in (0 .. minimal.size - 1) \X (0 .. minimal.size - 1) :
                Chars(t[1], t[2]) # {}}
        /\ \A edge \in file.edges :
             /\ edge[3] \subseteq Chars(edge[1], edge[2])
             /\ minimal.delta[edge[1]][edge[2]].lower \subseteq edge[3]

\* "success: produced file" (main.c:78) is said only when there is a file.  It does
\* not hold: that the file could not be opened is not noticed.
SuccessMeansFile == said = "success" => file.exists

\* The program ends, with an exit code or by a crash.
Exits == <>Ended
=============================================================================
