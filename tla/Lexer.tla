-------------------------------- MODULE Lexer --------------------------------
(***************************************************************************)
(* lexer.c: from the characters of the buffer to tokens.  A token is a     *)
(* character of its own or one of the numbers from 127 on; the parser      *)
(* compares them by size.                                                  *)
(***************************************************************************)
EXTENDS Integers, Sequences

TK_WILDCARD == 127
TK_EOF      == 128
TK_LPAREN   == 129
TK_RPAREN   == 130
TK_LBRACKET == 131
TK_PIPE     == 132
TK_STAR     == 133
TK_QUESTION == 134
TK_PLUS     == 135
TK_RBRACKET == 136
TK_ILLEGAL  == 137

\* The characters that the lexer and the parser name.
Tab       == 9
Newline   == 10
Space     == 32
Dash      == 45
Backslash == 92
Tilde     == 126

\* . ( ) [ | * ? + ], each with its token.
Special == [ch \in {46, 40, 41, 91, 124, 42, 63, 43, 93} |->
  CASE ch = 46  -> TK_WILDCARD [] ch = 40  -> TK_LPAREN
    [] ch = 41  -> TK_RPAREN   [] ch = 91  -> TK_LBRACKET
    [] ch = 124 -> TK_PIPE     [] ch = 42  -> TK_STAR
    [] ch = 63  -> TK_QUESTION [] ch = 43  -> TK_PLUS
    [] ch = 93  -> TK_RBRACKET]

\* What a character stands for after a backslash: n and t are not themselves.
Escaped(ch) ==
  IF ch \in DOMAIN Special \cup {Backslash} THEN ch
  ELSE IF ch = 110 THEN Newline
  ELSE IF ch = 116 THEN Tab
  ELSE TK_ILLEGAL

\* get_char(): the character at pos, counted from 1, and the position after.
GetChar(buffer, pos) == IF pos > Len(buffer) THEN TK_EOF ELSE buffer[pos]

After(buffer, pos) == IF pos > Len(buffer) THEN pos ELSE pos + 1

\* lex(): the next token, and where the one after it starts.
Lex(buffer, pos) ==
  LET ch   == GetChar(buffer, pos)
      next == After(buffer, pos)
  IN  IF ch = Backslash
      THEN [token |-> Escaped(GetChar(buffer, next)), pos |-> After(buffer, next)]
      ELSE [token |-> IF ch \in DOMAIN Special THEN Special[ch] ELSE ch,
            pos   |-> next]

\* Mutant: tab_align is not wrapped around.
ArrowColumnUnwrapped(buffer, pos, token) ==
  LET line[i \in 0 .. pos] ==
        IF i = 0 THEN [num_spaces |-> 0, tab_align |-> 0]
        ELSE LET before == line[i - 1]
             IN  IF buffer[i] = Tab
                 THEN [num_spaces |-> before.num_spaces + 8 - before.tab_align,
                       tab_align  |-> 0]
                 ELSE [num_spaces |-> before.num_spaces + 1,
                       tab_align  |-> before.tab_align + 1]
  IN  line[IF pos > 2 THEN pos - 2 ELSE 0].num_spaces + IF token = TK_EOF THEN 1 ELSE 0

(***************************************************************************)
(* print_error(): the number of spaces before the arrow.  It belongs to    *)
(* the last character fetched, so those before that one are measured, and  *)
(* one more space is printed for the end of the buffer.                    *)
(***************************************************************************)
ArrowColumn(buffer, pos, token) ==
  LET line[i \in 0 .. pos] ==
        IF i = 0 THEN [num_spaces |-> 0, tab_align |-> 0]
        ELSE LET before == line[i - 1]
                 align  == IF before.tab_align = 8 THEN 0 ELSE before.tab_align
             IN  IF buffer[i] = Tab
                 THEN [num_spaces |-> before.num_spaces + 8 - align, tab_align |-> 0]
                 ELSE [num_spaces |-> before.num_spaces + 1, tab_align |-> align + 1]
  IN  line[IF pos > 2 THEN pos - 2 ELSE 0].num_spaces + IF token = TK_EOF THEN 1 ELSE 0
=============================================================================
