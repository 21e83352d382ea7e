------------------------------ MODULE Highlight ------------------------------
(***************************************************************************)
(* The tokenizer of the code shown on the page of an issue (highlight.ts), *)
(* over text that grows by a character at a time.  A character stands for  *)
(* its class: "a" for a letter a number may hold too, "x" for a digit, and *)
(* those that begin, end or escape something stand for themselves.         *)
(***************************************************************************)
EXTENDS Naturals, Sequences, FiniteSets

CONSTANTS Languages,    \* of {"javascript", "sql", "python", "php", "json"}
          Characters,   \* of the text
          MaxText       \* bound: its length

ASSUME HighlightAssumption == "end" \notin Characters /\ MaxText \in Nat

VARIABLES lang, code
hvars == <<lang, code>>

Quotes      == {"quote", "backquote"}
Space       == {" ", "newline"}
Punctuation == {":", "("}
lineComment == CASE lang = "sql" -> <<"-", "-">> [] lang \in {"python", "php"} -> <<"#">>
                 [] OTHER -> <<"/", "/">>

(* A token: the places of its first and last character, and its type.      *)
Token(i, j, type) == [first |-> i, last |-> j, type |-> type]
At(i) == IF i \in DOMAIN code THEN code[i] ELSE "end"
StartsWith(text, i) ==
  \A k \in 1..Len(text) : At(i + k - 1) = text[k]

\* the last character of the longest stretch from i on within a class
Stretch(i, class) ==
  CHOOSE j \in i..Len(code) : /\ \A k \in (i + 1)..j : code[k] \in class
                              /\ At(j + 1) \notin class
\* indexOf: the first place from i on where text begins, or 0
IndexOf(text, i) ==
  LET found == {k \in i..Len(code) : StartsWith(text, k)}
  IN  IF found = {} THEN 0 ELSE CHOOSE k \in found : \A l \in found : k <= l

\* a careless one: a string that ends at the first of its quotes
EndAtQuote(i) ==
  LET q == IndexOf(<<code[i]>>, i + 1) IN IF q = 0 THEN Len(code) ELSE q

(* Where a string in these quotes ends, read from each place on: a         *)
(* backslash skips the character after it, whatever it is; an open string  *)
(* goes on to the end.                                                     *)
Closing(quote) ==
  LET to[j \in 1..(Len(code) + 2)] ==
        IF j > Len(code) THEN Len(code)
        ELSE IF code[j] = "backslash" THEN to[j + 2]
        ELSE IF code[j] = quote THEN j ELSE to[j + 1]
  IN  to
EndOfString(i) == Closing(code[i])[i + 1]

WordType(i, j) ==
  LET k == Stretch(j, Space) + 1 IN IF At(k) = "(" THEN "function" ELSE "plain"

(* The token that begins at i.                                             *)
NextToken(i) ==
  LET c == code[i] IN
  CASE c \in Space -> Token(i, Stretch(i, Space), "plain")
    [] lang # "sql" /\ StartsWith(<<"/", "*">>, i) ->
         LET end == IndexOf(<<"*", "/">>, i + 2)
         IN  Token(i, IF end = 0 THEN Len(code) ELSE end + 1, "comment")
    [] StartsWith(lineComment, i) ->
         Token(i, Stretch(i, Characters \ {"newline"}), "comment")
    [] c \in Quotes -> Token(i, EndOfString(i), "string")
    [] c = "x" -> Token(i, Stretch(i, {"x", "a"}), "number")
    [] c \in {"a", "backslash"} ->
         LET j == Stretch(i, {"a", "x"}) IN Token(i, j, WordType(i, j))
    [] c \in Punctuation -> Token(i, i, "punctuation")
    [] OTHER -> Token(i, i, "plain")

(* All the tokens from each place on.                                      *)
scanFrom ==
  LET from[i \in 1..(Len(code) + 1)] ==
        IF i > Len(code) THEN <<>>
        ELSE <<NextToken(i)>> \o from[NextToken(i).last + 1]
  IN  from
scan == scanFrom[1]

\* JSON: a string with a colon after it, but for white space, is a key.
Key(t) == t.type = "string" /\ At(Stretch(t.last, Space) + 1) = ":"
tokenize ==
  IF lang # "json" THEN scan
  ELSE [k \in DOMAIN scan |-> IF Key(scan[k]) THEN [scan[k] EXCEPT !.type = "property"]
                             ELSE scan[k]]

HighlightInit == lang \in Languages /\ code = <<>>
Typed(c) == Len(code) < MaxText /\ code' = Append(code, c) /\ UNCHANGED lang
HighlightNext == \E c \in Characters : Typed(c)
HighlightSpec == HighlightInit /\ [][HighlightNext]_hvars

-----------------------------------------------------------------------------
(* One reading of the text, character by character: whether each belongs   *)
(* to code, to a comment or to a string (in which quotes), delimiters      *)
(* included.                                                               *)
Reader(mode, quote, class) == [mode |-> mode, quote |-> quote, class |-> class]
InCode == Reader("code", "none", "other")
\* in code before place i
ReadInCode(i) ==
  CASE lang # "sql" /\ StartsWith(<<"/", "*">>, i) -> Reader("open", "none", "comment")
    [] StartsWith(lineComment, i) -> Reader("line", "none", "comment")
    [] code[i] \in Quotes -> Reader("string", code[i], "string")
    [] OTHER -> InCode
Read(r, i) ==
  CASE r.mode = "code"  -> ReadInCode(i)
    [] r.mode = "open"  -> Reader("block", "none", "comment")
    [] r.mode = "block" ->
         Reader(IF StartsWith(<<"*", "/">>, i) THEN "close" ELSE "block", "none", "comment")
    [] r.mode = "close" -> Reader("code", "none", "comment")
    [] r.mode = "line"  -> IF code[i] = "newline" THEN InCode ELSE r
    [] r.mode = "string" ->
         Reader(CASE code[i] = "backslash" -> "escape" [] code[i] = r.quote -> "code"
                  [] OTHER -> "string", r.quote, "string")
    [] r.mode = "escape" -> Reader("string", r.quote, "string")
\* after each place
reading ==
  LET read[i \in 0..Len(code)] == IF i = 0 THEN InCode ELSE Read(read[i - 1], i)
  IN  read

ClassOf(type) == CASE type = "comment" -> "comment"
                   [] type \in {"string", "property"} -> "string"
                   [] OTHER -> "other"

(* The tokens are the text, every character of it once and in order, and   *)
(* tell strings, comments and code apart as a reader of the text does: no  *)
(* quote in a comment, comment in a string, escape or text cut short leads *)
(* it astray.                                                              *)
TokensAgree ==
  LET tokens == tokenize IN
  /\ \A k \in DOMAIN tokens :
       /\ tokens[k].first = IF k = 1 THEN 1 ELSE tokens[k - 1].last + 1
       /\ tokens[k].last \in tokens[k].first..Len(code)
       /\ \A i \in tokens[k].first..tokens[k].last :
            reading[i].class = ClassOf(tokens[k].type)
  /\ code # <<>> => tokens[Len(tokens)].last = Len(code)
==============================================================================
