----------------------------- MODULE YamlScalar -----------------------------
(***************************************************************************)
(* How the vendored YAML library turns the text of a scalar into           *)
(* characters of a document and back: the emitter's analysis, its choice   *)
(* of a style and its writers (emitter.py), the resolver's implicit tags   *)
(* (resolver.py) and the scanner's readers (scanner.py).                   *)
(*                                                                         *)
(* A text is a sequence of characters. NUL is what the reader peeks at     *)
(* behind the end, "1" stands for every digit and "a" for every letter,    *)
(* the hexadecimal ones too.  ESC stands for the characters that have an   *)
(* escape of one letter and may not stand in a text, HEX2, HEX4 and HEX8   *)
(* for those that are written with so many hexadecimal digits: all the     *)
(* others beyond ASCII, since dump_record does not allow them as they are  *)
(* (serde.py:16). Block scalars, tags, directives, exponents and the       *)
(* breaks other than NL are left out: memwiz writes the breaks of a string *)
(* as ESC is written.                                                      *)
(***************************************************************************)
EXTENDS Integers, Sequences, SequencesExt, FiniteSetsExt

CONSTANTS
  BestWidth,  \* the column after which a scalar is folded (80)
  KeyLength,  \* a simple key is shorter than this (128)
  KeyReach    \* the scanner looks this far back for a simple key (1024)

ASSUME WidthAssumption == BestWidth \in Nat /\ BestWidth > 4
ASSUME ReachAssumption == KeyLength \in Nat /\ KeyReach \in Nat

SP == " "
NL == "\n"
DQ == "\""
BS == "\\"
NUL == "NUL"
ESC == "ESC"
HEX2 == "HEX2"
HEX4 == "HEX4"
HEX8 == "HEX8"
ANOTHER == "ANOTHER"    \* any character that is not told from others

Hex == {HEX2, HEX4, HEX8}
HexDigits == {"1", "a"}

Blank == {NUL, SP, NL}
FlowMarks == {",", "?", "[", "]", "{", "}"}
Leaders == {"#", ",", "[", "]", "{", "}", "&", "*", "!", "|", ">", "'", DQ,
            "%", "@"}

Times(n, c) == [i \in 1..n |-> c]
At(t, p) == IF p \in 1..Len(t) THEN t[p] ELSE NUL
Reach(t, p, Stop) == Min({q \in p..(Len(t) + 1) : At(t, q) \in Stop})
PastBlanks(t, p, Over) ==
  Min({q \in p..(Len(t) + 1) : At(t, q) \notin Over})
Breaks(t, p, q) == Cardinality({i \in p..(q - 1) : t[i] = NL})

(* Reader.forward: where a line starts, and the column of a position        *)
LineStart(t, p) == Max({1} \cup {i \in 2..p : t[i - 1] = NL})
ColumnOf(t, p) == p - LineStart(t, p)

(* prefix(3) is '---' or '...', and a blank follows                         *)
Dashes(t, p, c) == \A i \in 0..2 : At(t, p + i) = c
Separator(t, p) ==
  (Dashes(t, p, "-") \/ Dashes(t, p, ".")) /\ At(t, p + 3) \in Blank

-----------------------------------------------------------------------------
(* Analysis and style                                                       *)

(* The regular expressions of the resolver on these characters: digits,    *)
(* also as groups of at most two behind colons; a number may have a sign,   *)
(* and a float a point.  '$' also matches before a last line break.         *)
Digital(d) ==
  LET n == Len(d)
  IN /\ n > 0
     /\ \A i \in 1..n : d[i] \in {"1", ":"}
     /\ d[1] = "1" /\ d[n] = "1"
     /\ \A i \in 1..n : d[i] = ":" =>
          d[i + 1] = "1" /\ (i + 3 <= n => ":" \in {d[i + 2], d[i + 3]})

Matched(s) == IF s # <<>> /\ Last(s) = NL THEN Front(s) ELSE s
Unsigned(s) == IF At(s, 1) = "-" THEN Tail(s) ELSE s
AllDigits(s, p) == \A i \in p..Len(s) : s[i] = "1"

LooksInt(s) == Digital(Unsigned(Matched(s)))
LooksFloat(s) ==
  LET t == Matched(s)
      d == Unsigned(t)
  IN \/ Len(t) > 1 /\ t[1] = "." /\ AllDigits(t, 2)
     \/ \E i \in 2..Len(d) : d[i] = "." /\ Digital(SubSeq(d, 1, i - 1)) /\ AllDigits(d, i + 1)

(* resolve: the tag of a plain scalar, and of a quoted one                  *)
Resolve(s, plain) ==
  CASE plain /\ s = <<>>      -> "null"
    [] plain /\ LooksFloat(s) -> "float"
    [] plain /\ LooksInt(s)   -> "int"
    [] OTHER                  -> "str"

Analyze(s) ==
  LET n == Len(s)
      Alone(i) == At(s, i + 1) \in Blank
      Opens(i) == i = 1 \/ s[i - 1] \in Blank
      comment == \E i \in 2..n : s[i] = "#" /\ Opens(i)
      marker == Dashes(s, 1, "-") \/ Dashes(s, 1, ".")
      flow == \/ marker \/ comment \/ s[1] \in Leaders \cup {"?", ":"}
              \/ s[1] = "-" /\ Alone(1)
              \/ \E i \in 2..n : s[i] \in FlowMarks \cup {":"}
      block == \/ marker \/ comment \/ s[1] \in Leaders
               \/ s[1] \in {"?", "-"} /\ Alone(1)
               \/ \E i \in 1..n : s[i] = ":" /\ Alone(i)
      breaks == \E i \in 1..n : s[i] = NL
      edge == {s[1], s[n]} \cap {SP, NL} # {}
      breakSpace == \E i \in 2..n : s[i - 1] = NL /\ s[i] = SP
      spaceBreak == \E i \in 2..n : s[i - 1] = SP /\ s[i] = NL
      special == \E i \in 1..n : s[i] \in Hex \cup {ESC}
      plain == ~(edge \/ breakSpace \/ spaceBreak \/ special \/ breaks)
  IN IF s = <<>>
     THEN [empty |-> TRUE, multiline |-> FALSE, flowPlain |-> FALSE,
           blockPlain |-> TRUE, single |-> TRUE]
     ELSE [empty |-> FALSE, multiline |-> breaks,
           flowPlain |-> plain /\ ~flow, blockPlain |-> plain /\ ~block,
           single |-> ~(breakSpace \/ spaceBreak \/ special)]

(* choose_scalar_style, for the style None that the representer gives       *)
ChooseStyle(s, implicit, inFlow, simpleKey) ==
  LET a == Analyze(s)
  IN IF /\ implicit
        /\ ~(simpleKey /\ (a.empty \/ a.multiline))
        /\ IF inFlow THEN a.flowPlain ELSE a.blockPlain
     THEN "plain"
     ELSE IF a.single /\ ~(simpleKey /\ a.multiline) THEN "single" ELSE "double"

-----------------------------------------------------------------------------
(* Writers.  An output is the text, the column the emitter believes it is   *)
(* at, and what it keeps of the last character written.                     *)

Output == [text : Seq(STRING), column : Nat, whitespace : BOOLEAN,
           indention : BOOLEAN, open_ended : BOOLEAN]
EmptyOutput == [text |-> <<>>, column |-> 0, whitespace |-> TRUE,
                indention |-> TRUE, open_ended |-> FALSE]

Put(o, s) == [o EXCEPT !.text = @ \o s, !.column = @ + Len(s)]

WriteIndicator(o, s, needSpace, whitespace, indention) ==
  [Put(o, IF o.whitespace \/ ~needSpace THEN s ELSE <<SP>> \o s) EXCEPT
     !.whitespace = whitespace,
     !.indention = @ /\ indention,
     !.open_ended = FALSE]

WriteLineBreak(o) ==
  [o EXCEPT !.text = Append(@, NL), !.column = 0,
            !.whitespace = TRUE, !.indention = TRUE]

WriteIndent(o, indent) ==
  LET b == IF \/ ~o.indention \/ o.column > indent
              \/ o.column = indent /\ ~o.whitespace
           THEN WriteLineBreak(o) ELSE o
  IN IF b.column < indent
     THEN [Put(b, Times(indent - b.column, SP)) EXCEPT !.whitespace = TRUE]
     ELSE b

Inked(o) == [o EXCEPT !.whitespace = FALSE, !.indention = FALSE]

(* Mutant: any space may become one.                                        *)
FoldsAnywhere(o, s, i, split) ==
  split /\ o.column > BestWidth /\ i \in 2..(Len(s) - 1) /\ s[i] = SP

(* A single space between two words may become a line break.                *)
Folds(o, s, i, split) ==
  /\ split /\ o.column > BestWidth /\ i \in 2..(Len(s) - 1)
  /\ s[i] = SP /\ s[i - 1] # SP /\ s[i + 1] # SP

WritePlain(o, s, indent, split, root) ==
  LET Step[acc \in Output, i \in 1..Len(s)] ==
        IF Folds(acc, s, i, split) THEN Inked(WriteIndent(acc, indent))
        ELSE Put(acc, <<s[i]>>)
      opened == [o EXCEPT !.open_ended = @ \/ root]
      begun == Inked(IF o.whitespace THEN opened ELSE Put(opened, <<SP>>))
  IN IF s = <<>> THEN opened
     ELSE FoldLeftDomain(LAMBDA acc, i : Step[acc, i], begun, s)

WriteSingleQuoted(o, s, indent, split) ==
  LET Step[acc \in Output, i \in 1..Len(s)] ==
        LET first == IF At(s, i - 1) = NL THEN acc ELSE WriteLineBreak(acc)
            break == WriteLineBreak(first)
        IN CASE s[i] = NL -> IF At(s, i + 1) = NL THEN break
                             ELSE WriteIndent(break, indent)
             [] s[i] = "'" -> Put(acc, <<"'", "'">>)
             [] Folds(acc, s, i, split) -> WriteIndent(acc, indent)
             [] OTHER -> Put(acc, <<s[i]>>)
      quote == WriteIndicator(o, <<"'">>, TRUE, FALSE, FALSE)
  IN WriteIndicator(FoldLeftDomain(LAMBDA acc, i : Step[acc, i], quote, s),
                    <<"'">>, FALSE, FALSE, FALSE)

(* ESCAPE_REPLACEMENTS of the emitter and of the scanner                    *)
Escapes == [c \in {NL, ESC, DQ, BS} |->
              CASE c = NL -> "n" [] c = ESC -> "e" [] OTHER -> c]
Unescape(c) == IF c = SP THEN SP
               ELSE CHOOSE x \in DOMAIN Escapes : Escapes[x] = c
Unescapes == {Escapes[x] : x \in DOMAIN Escapes} \cup {SP}

(* ESCAPE_CODES: how many digits follow a letter.  The emitter takes the    *)
(* letter that has room for the code of the character.                      *)
EscapeCodes == [l \in {"x", "u", "U"} |->
                  CASE l = "x" -> 2 [] l = "u" -> 4 [] OTHER -> 8]
Ord == [c \in Hex |->
          CASE c = HEX2 -> <<"a", "1">>
            [] c = HEX4 -> <<"1", "a", "1", "a">>
            [] OTHER    -> <<"1", "1", "1", "1", "1", "a", "a", "a">>]
Chr(digits) ==
  IF \E c \in Hex : Ord[c] = digits THEN CHOOSE c \in Hex : Ord[c] = digits ELSE ANOTHER

EscapeOf(c) ==
  IF c \in DOMAIN Escapes THEN <<BS, Escapes[c]>>
  ELSE <<BS, CHOOSE l \in DOMAIN EscapeCodes : EscapeCodes[l] = Len(Ord[c])>> \o Ord[c]

(* A line is broken before a space, or next to an escape, when the text     *)
(* pending there ends beyond the width.                                     *)
WriteDoubleQuoted(o, s, indent, split) ==
  LET n == Len(s)
      Escaped(i) == s[i] \in Hex \cup DOMAIN Escapes
      Break(acc, i) ==
        LET b == Inked(WriteIndent(Put(acc, <<BS>>), indent))
        IN IF s[i] = SP THEN Put(b, <<BS>>) ELSE b
      Wide(acc, i, back) == /\ split /\ i \in 2..(n - 1)
                            /\ acc.column - back > BestWidth
      Step[acc \in Output, i \in 1..n] ==
        IF Escaped(i)
        THEN LET e == Put(acc, EscapeOf(s[i]))
             IN IF Wide(e, i, 1) THEN Break(e, i + 1) ELSE e
        ELSE Put(IF Wide(acc, i, 0) /\ (s[i] = SP \/ Escaped(i - 1))
                 THEN Break(acc, i) ELSE acc, <<s[i]>>)
      quote == WriteIndicator(o, <<DQ>>, TRUE, FALSE, FALSE)
  IN WriteIndicator(FoldLeftDomain(LAMBDA acc, i : Step[acc, i], quote, s),
                    <<DQ>>, FALSE, FALSE, FALSE)

(* process_scalar                                                           *)
WriteScalar(o, s, style, indent, simpleKey, root) ==
  CASE style = "plain"  -> WritePlain(o, s, indent, ~simpleKey, root)
    [] style = "single" -> WriteSingleQuoted(o, s, indent, ~simpleKey)
    [] style = "double" -> WriteDoubleQuoted(o, s, indent, ~simpleKey)

-----------------------------------------------------------------------------
(* Readers.  p is a position of the text t.                                 *)

(* scan_to_next_token                                                       *)
NextToken(t, p) ==
  LET Skip[q \in p..(Len(t) + 1)] ==
        LET ink == PastBlanks(t, q, {SP})
            end == IF At(t, ink) = "#" THEN Reach(t, ink, {NL, NUL}) ELSE ink
        IN IF At(t, end) = NL THEN Skip[end + 1] ELSE end
  IN Skip[p]

(* scan_plain_spaces: what stands between two words, and where it ends.  A  *)
(* document separator at the start of a line ends the scalar.               *)
PlainSpaces(t, p) ==
  LET q == PastBlanks(t, p, {SP})
      r == PastBlanks(t, q, {SP, NL})
      n == Breaks(t, q, r)
  IN IF At(t, q) # NL
     THEN [chunk |-> Times(q - p, SP), next |-> q, broken |-> FALSE]
     ELSE [chunk |-> CASE At(t, r - 1) = NL /\ Separator(t, r) -> <<>>
                       [] n = 1 -> <<SP>>
                       [] OTHER -> Times(n - 1, NL),
           next |-> r, broken |-> TRUE]

WordEnd(t, p, inFlow) ==
  LET After == IF inFlow THEN Blank \cup (FlowMarks \ {"?"}) ELSE Blank
  IN Min({q \in p..(Len(t) + 1) :
            \/ At(t, q) \in Blank
            \/ At(t, q) = ":" /\ At(t, q + 1) \in After
            \/ inFlow /\ At(t, q) \in FlowMarks})

(* scan_plain: the value, where the scan ends, and whether a simple key is  *)
(* allowed there (a line break was crossed)                                 *)
ScanPlain(t, p, indent, inFlow) ==
  LET Words[q \in p..(Len(t) + 1)] ==
        LET end == WordEnd(t, q, inFlow)
            word == SubSeq(t, q, end - 1)
            gap == PlainSpaces(t, end)
            more == Words[gap.next]
        IN IF At(t, q) = "#" \/ end = q
           THEN [value |-> <<>>, next |-> q, broken |-> FALSE]
           ELSE IF \/ gap.chunk = <<>> \/ At(t, gap.next) = "#"
                   \/ ~inFlow /\ ColumnOf(t, gap.next) < indent
                   \/ more.value = <<>>
           THEN [value |-> word, next |-> gap.next, broken |-> gap.broken]
           ELSE [more EXCEPT !.value = word \o gap.chunk \o @]
  IN Words[p]

(* scan_flow_scalar, from behind the opening quote.  Where a line is        *)
(* crossed, a document separator is an error; so are the end of the text    *)
(* and an escape with too few digits.                                       *)
ScanFlowScalar(t, p, quote) ==
  LET Bad == [ok |-> FALSE, value |-> <<>>, next |-> p]
      Chars[q \in p..(Len(t) + 1)] ==
        LET c == At(t, q)
            d == At(t, q + 1)
            Then(s, r) == [Chars[r] EXCEPT !.value = s \o @]
            Folded(from, alone) ==
              LET r == PastBlanks(t, from, {SP, NL})
                  n == Breaks(t, from, r)
              IN IF At(t, r - 1) = NL /\ Separator(t, r) THEN Bad
                 ELSE Then(IF n = 0 THEN alone ELSE Times(n, NL), r)
            ink == PastBlanks(t, q, {SP})
        IN CASE c = quote /\ quote = "'" /\ d = "'" -> Then(<<"'">>, q + 2)
             [] c = quote /\ ~(quote = "'" /\ d = "'") ->
                  [ok |-> TRUE, value |-> <<>>, next |-> q + 1]
             [] c = BS /\ quote = DQ ->
                  IF d = NL THEN Folded(q + 2, <<>>)
                  ELSE IF d \in Unescapes THEN Then(<<Unescape(d)>>, q + 2)
                  ELSE IF d \in DOMAIN EscapeCodes
                  THEN LET r == q + 2 + EscapeCodes[d]
                       IN IF \A i \in (q + 2)..(r - 1) : At(t, i) \in HexDigits
                          THEN Then(<<Chr(SubSeq(t, q + 2, r - 1))>>, r) ELSE Bad
                  ELSE Bad
             [] c = NUL -> Bad
             [] c \in {SP, NL} ->
                  IF At(t, ink) = NL THEN Folded(ink + 1, <<SP>>)
                  ELSE IF At(t, ink) = NUL THEN Bad
                  ELSE Then(Times(ink - q, SP), ink)
             [] OTHER -> Then(<<c>>, q + 1)
  IN Chars[p]
=============================================================================
