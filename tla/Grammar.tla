------------------------------- MODULE Grammar -------------------------------
(***************************************************************************)
(* The regular expressions of the README and what they usually mean, for   *)
(* reference: quantifiers bind tightest, then concatenation, then          *)
(* alternation.                                                            *)
(*                                                                         *)
(* Nothing here is translated from parser.c.  The phrases of a kind that   *)
(* start at a position of the buffer are a set, in which each phrase has   *)
(* the position of the token after it and its meaning.                     *)
(***************************************************************************)
EXTENDS Lexer, Words

CONSTANT Sigma   \* the characters that words are made of

ASSUME SigmaAssumption == Sigma \subseteq 1 .. Tilde

\* The words that a single token, or a set of characters, stands for.
OneOf(S) == Letters(S \cap Sigma)
Dot == {Tab, Newline} \cup Space .. Tilde

IsCharacter(token) == token <= TK_WILDCARD
IsQuantifier(token) == token \in {TK_STAR, TK_QUESTION, TK_PLUS}

Quantifier(token) ==
  CASE token = TK_STAR -> "*" [] token = TK_QUESTION -> "?" [] token = TK_PLUS -> "+"

Positions(buffer) == 1 .. Len(buffer) + 1
TokenAt(buffer, p) == Lex(buffer, p).token
Beyond(buffer, p) == Lex(buffer, p).pos

Phrase(end, meaning) == [end |-> end, meaning |-> meaning]

\* The phrases of S that the token tk comes after, together with that token.
Closed(buffer, S, tk) ==
  {Phrase(Beyond(buffer, x.end), x.meaning) : x \in {y \in S : TokenAt(buffer, y.end) = tk}}

\* A character, or left - right, between brackets.
Interval(buffer, p) ==
  LET left  == TokenAt(buffer, p)
      dash  == Beyond(buffer, p)
      last  == Beyond(buffer, dash)
      right == TokenAt(buffer, last)
  IN  IF left > Tilde THEN {}
      ELSE IF TokenAt(buffer, dash) # Dash THEN {Phrase(dash, {left})}
      ELSE IF right \in left .. Tilde THEN {Phrase(Beyond(buffer, last), left .. right)}
      ELSE {}

\* One or more of them: the meaning is a set of characters.
Intervals(buffer) ==
  LET from[p \in Positions(buffer)] ==
        Interval(buffer, p) \cup
        UNION {{Phrase(y.end, x.meaning \cup y.meaning) : y \in from[x.end]}
               : x \in Interval(buffer, p)}
  IN  from

\* A character, a set in brackets or a regular expression in parentheses.
Atoms(buffer, from, p) ==
  LET tk   == TokenAt(buffer, p)
      next == Beyond(buffer, p)
  IN  IF IsCharacter(tk)
      THEN {Phrase(next, OneOf(IF tk = TK_WILDCARD THEN Dot ELSE {tk}))}
      ELSE IF tk = TK_LPAREN
      THEN Closed(buffer, from[next].regex, TK_RPAREN)
      ELSE IF tk = TK_LBRACKET
      THEN {Phrase(x.end, OneOf(x.meaning)) :
              x \in Closed(buffer, Intervals(buffer)[next], TK_RBRACKET)}
      ELSE {}

\* An atom with or without a quantifier.
WithQuantifiers(buffer, atoms) ==
  atoms \cup {Phrase(Beyond(buffer, x.end), Quantified(x.meaning, Quantifier(TokenAt(buffer, x.end))))
              : x \in {y \in atoms : IsQuantifier(TokenAt(buffer, y.end))}}

Pieces(buffer, from, p) == WithQuantifiers(buffer, Atoms(buffer, from, p))

\* Characters with their quantifiers, of which the first is one of pieces.
Patterns(from, pieces) ==
  pieces \cup UNION {{Phrase(y.end, Concatenation(x.meaning, y.meaning))
                      : y \in from[x.end].pattern} : x \in pieces}

\* Any pieces.
Concats(from, pieces) ==
  pieces \cup UNION {{Phrase(y.end, Concatenation(x.meaning, y.meaning))
                      : y \in from[x.end].concat} : x \in pieces}

\* Alternatives, the first of which is in first.
Alternations(buffer, from, first) ==
  first \cup UNION {{Phrase(y.end, x.meaning \cup y.meaning) : y \in from[x.end].choice}
                    : x \in Closed(buffer, first, TK_PIPE)}

Kinds(pattern, concat, choice) ==
  [pattern |-> pattern, concat |-> concat, choice |-> choice, regex |-> concat \cup choice]

(***************************************************************************)
(* groupsOnly leaves out the regular expressions in which an alternative   *)
(* is more than a group, which is "a parenthetical regular expression, a   *)
(* sequence of 1 or more patterns, or a sequence of 1 or more ranges"      *)
(* (parser.c:8), the last meaning one pair of brackets.                    *)
(***************************************************************************)
WithChoices(buffer, groupsOnly, from, pieces, pattern, concat) ==
  Kinds(pattern, concat,
        Alternations(buffer, from, IF groupsOnly THEN pieces \cup pattern ELSE concat))

PhrasesAt(buffer, groupsOnly, from, p) ==
  LET pieces == Pieces(buffer, from, p)
  IN  WithChoices(buffer, groupsOnly, from, pieces,
                  IF IsCharacter(TokenAt(buffer, p)) THEN Patterns(from, pieces) ELSE {},
                  Concats(from, pieces))

Phrases(buffer, groupsOnly) ==
  LET from[p \in Positions(buffer)] == PhrasesAt(buffer, groupsOnly, from, p)
  IN  from

\* The meanings of the regular expressions that take up the buffer.
Meanings(buffer, groupsOnly) ==
  {x.meaning : x \in {y \in Phrases(buffer, groupsOnly)[1].regex : y.end = Len(buffer) + 1}}
=============================================================================
