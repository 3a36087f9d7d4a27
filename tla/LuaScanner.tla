----------------------------- MODULE LuaScanner -----------------------------
(***************************************************************************)
(* GAMs/LuaGAM/LuaParser.cpp: linearize and scan cut a Lua code into       *)
(* tokens. A character stands for its kind: "a" for those of names, "1"    *)
(* for digits, one operator, one quote. The forms of numbers with a point, *)
(* an exponent or in hexadecimal are left out. Positions count from 0, as  *)
(* in the code.                                                            *)
(***************************************************************************)
EXTENDS Integers, Sequences, FiniteSets, SequencesExt

CONSTANTS
    Pieces,         \* what the code is written from
    MaxChars        \* bound of the model: no piece is added to as many characters

Aborted == <<"aborted">>
EndCode == <<"endcode">>
NotFound == -1

VARIABLE code

\* is_lua_token tries them in this order.
Lexemes == << <<"=", "=">>, <<"-">>, <<"=">>, <<"[">>, <<"]">> >>

Char(line, k) == line[k + 1]
From(line, k) == SubSeq(line, k + 1, Len(line))
Part(line, k, end) == SubSeq(line, k + 1, end)

RECURSIVE Linearize(_)
\* An empty line is kept as its end, the others without it.
Linearize(text) ==
    IF text = << >> THEN << >>
    ELSE LET ends == {k \in DOMAIN text : text[k] = "\n"}
             eol == CHOOSE k \in ends : \A m \in ends : k <= m
         IN << IF eol = 1 THEN <<"\n">> ELSE SubSeq(text, 1, eol - 1) >> \o Linearize(From(text, eol))

\* Str::find for a character.
FindChar(line, char, k) ==
    LET found == {m \in k..Len(line) - 1 : Char(line, m) = char} IN
    IF found = {} THEN NotFound ELSE CHOOSE m \in found : \A n \in found : m <= n

\* Str::find: a false start is not taken back.
FindText(line, text) ==
    LET found[k \in 0..Len(line), m \in 0..Len(text)] ==
            IF k = Len(line) THEN NotFound
            ELSE IF Char(line, k) # text[m + 1] THEN found[k + 1, 0]
            ELSE IF m + 1 = Len(text) THEN k + 1 - Len(text) ELSE found[k + 1, m + 1]
    IN IF Len(text) > Len(line) THEN NotFound ELSE found[0, 0]

\* Faulty: an escaped quote ends the string too.
ClosingFaulty(line, at, offset) == FindChar(line, Char(line, at), at + offset + 1)

RECURSIVE Closing(_, _, _)
\* The closing quote of the string that begins at `at'.
Closing(line, at, offset) ==
    LET end == FindChar(line, Char(line, at), at + offset + 1) IN
    IF end # NotFound /\ Char(line, end - 1) = "\\" THEN Closing(line, at, end) ELSE end

IsLong(rest) == Len(rest) > 2 /\ rest[1] = "[" /\ rest[2] \in {"[", "="}
IsComment(rest) == Len(rest) >= 2 /\ rest[1] = "-" /\ rest[2] = "-"
IsLongComment(rest) == IsComment(rest) /\ Len(rest) > 3 /\ rest[3] = "[" /\ rest[4] \in {"[", "="}

Added(s, tokens, pos) == [s EXCEPT !.tokens = @ \o tokens, !.pos = pos, !.word = 0]

\* get_long_bracket_token: all lines up to the closing bracket, which is looked
\* for from the beginning of the first; if there is none it is added.
LongBracket(lines, s, opening) ==
    LET line == lines[s.line + 1]
        first == s.pos + s.word + opening
        after == {k \in first..Len(line) - 1 : Char(line, k) # "="}
        opens == CHOOSE k \in after : \A m \in after : k <= m
        closing == <<"]">> \o [k \in 1..opens - first |-> "="] \o <<"]">>
        closed == {k \in s.line..Len(lines) - 1 : FindText(lines[k + 1], closing) # NotFound}
        last == IF closed = {} THEN Len(lines) - 1 ELSE CHOOSE k \in closed : \A m \in closed : k <= m
        joined == FlattenSeq([k \in 1..last - s.line |->
                                IF k = 1 THEN lines[s.line + 1] ELSE <<"\n">> \o lines[s.line + k]])
        inner == IF joined = << >> \/ Last(joined) = "\n" THEN joined ELSE Append(joined, "\n")
        end == IF closed = {} THEN << >> ELSE Part(lines[last + 1], 0, FindText(lines[last + 1], closing))
    IN IF after = {} THEN [s EXCEPT !.ok = FALSE, !.tokens = Append(@, Aborted)]
       ELSE IF Char(line, opens) # "[" THEN [s EXCEPT !.ok = FALSE, !.line = @ + 1]
       ELSE [s EXCEPT !.tokens = Append(@, inner \o end \o closing), !.line = last + 1]

\* One turn of the inner loop of scan.
Step(lines, s) ==
    LET line == lines[s.line + 1]
        at == s.pos + s.word
        rest == From(line, at)
        word == Part(line, s.pos, at)
        withWord == IF s.word > 0 THEN <<word>> ELSE << >>
        closing == Closing(line, at, 0)
        digits == Cardinality({k \in 1..Len(rest) : \A m \in 1..k : rest[m] = "1"})
        lexemes == SelectSeq(Lexemes, LAMBDA l : IsPrefix(l, rest))
    IN IF rest[1] = " " THEN [s EXCEPT !.tokens = @ \o withWord, !.pos = at + 1, !.word = 0]
       ELSE IF rest[1] = "'" THEN
            IF closing = NotFound THEN [s EXCEPT !.ok = FALSE]
            ELSE Added(s, <<Part(line, at, closing + 1)>>, closing + 1)
       ELSE IF IsLong(rest) THEN LongBracket(lines, s, 1)
       ELSE IF IsLongComment(rest) THEN LongBracket(lines, s, 3)
       ELSE IF IsComment(rest) THEN [s EXCEPT !.tokens = Append(@, rest), !.word = @ + Len(rest) + 1]
       ELSE IF digits > 0 /\ s.word = 0 THEN Added(s, <<Part(line, at, at + digits)>>, at + digits)
       ELSE IF lexemes # << >> THEN Added(s, withWord \o <<lexemes[1]>>, at + Len(lexemes[1]))
       ELSE IF Len(rest) = 1 /\ rest[1] # "\n" THEN Added(s, <<From(line, s.pos)>>, Len(line) + s.word)
       ELSE [s EXCEPT !.word = @ + 1]

RECURSIVE ScanFrom(_, _)
ScanFrom(lines, s) ==
    IF ~s.ok \/ s.line >= Len(lines) THEN s
    ELSE IF s.pos + s.word < Len(lines[s.line + 1]) THEN ScanFrom(lines, Step(lines, s))
    ELSE ScanFrom(lines, [s EXCEPT !.line = @ + 1, !.pos = 0, !.word = 0])

Scan(text) ==
    LET lines == Linearize(Append(text, "\n"))
        s == ScanFrom(lines, [line |-> 0, pos |-> 0, word |-> 0, tokens |-> << >>, ok |-> TRUE])
    IN [s EXCEPT !.tokens = IF s.ok THEN Append(@, EndCode) ELSE @]

----------------------------------------------------------------------------

Init == code = << >>

Write == Len(code) < MaxChars /\ \E p \in Pieces : code' = code \o p

Spec == Init /\ [][Write]_code

----------------------------------------------------------------------------

\* What a character before position k of a line belongs to, by Lua's own rules.
Within(line) ==
    LET within[k \in 0..Len(line)] ==
            IF k = 0 THEN "code"
            ELSE LET before == within[k - 1]
                     escaped == k > 1 /\ line[k - 1] = "\\" IN
                 CASE before = "comment" -> "comment"
                   [] before = "string" -> IF line[k] = "'" /\ ~escaped THEN "code" ELSE "string"
                   [] before = "code" -> IF line[k] = "'" THEN "string"
                                         ELSE IF line[k] = "-" /\ k > 1 /\ line[k - 1] = "-" /\ within[k - 2] = "code"
                                              THEN "comment" ELSE "code"
    IN within

\* The lines the scanner is made for: strings are closed, a name ends before a
\* string or a comment begins, and only a string at the beginning of a line,
\* not two in a row, has escapes, and there is no long bracket.
IsPlain(line) ==
    LET within == Within(line)
        escapes == {k \in DOMAIN line : line[k] = "\\"}
        begins(k) == \/ line[k] = "'"
                     \/ line[k] = "-" /\ k < Len(line) /\ line[k + 1] = "-" IN
    /\ within[Len(line)] # "string"
    /\ \A k \in DOMAIN line :
           /\ within[k - 1] = "code" /\ k > 1 /\ line[k - 1] \in {"a", "1"} => ~begins(k)
           /\ line[k] = "[" /\ k < Len(line) => line[k + 1] \notin {"[", "="}
    /\ \A k \in escapes :
           /\ \A m \in 1..k : within[m] = "string"
           /\ line[k + 1] # "\\"

Squeezed(text) == SelectSeq(text, LAMBDA c : c \notin {" ", "\n"})

IsPlainCode(text) == \A k \in DOMAIN Linearize(Append(text, "\n")) : IsPlain(Linearize(Append(text, "\n"))[k])

\* A long bracket, or a comment of that form, that ends with its own length. Before
\* a closing one with a level is no other bracket, and something is on the line of
\* an opening one (FindText and IsLong).
LongBegins == << <<"[", "[">>, <<"[", "=", "[">>, <<"-", "-", "[", "[">>, <<"-", "-", "[", "=", "[">> >>
LongEnds == << <<"]", "]">>, <<"]", "=", "]">>, <<"]", "]">>, <<"]", "=", "]">> >>
BeginsWithLong(text, length) ==
    \E b \in DOMAIN LongBegins :
        /\ IsPrefix(LongBegins[b], text)
        /\ {k \in Len(LongBegins[b])..Len(text) : IsPrefix(LongEnds[b], From(text, k))} = {length - Len(LongEnds[b])}
        /\ b = 1 => text[3] # "\n"
        /\ b \in {2, 4} => Char(text, length - Len(LongEnds[b]) - 1) # "]"

\* Every character of a code that is no blank is in one token, in the order of
\* the code, and blanks are only in strings and comments: nothing is lost
\* between two words, two lines or behind a long bracket, and such a code is
\* not refused (scan and linearize).
NothingIsLost ==
    LET readable == \/ IsPlainCode(code)
                    \/ \E length \in 2..Len(code) :
                           /\ BeginsWithLong(code, length)
                           /\ length < Len(code) => Char(code, length) = "\n"
                           /\ IsPlainCode(From(code, length))
        scanned == Scan(code) IN
    readable =>
        /\ scanned.ok
        /\ Squeezed(FlattenSeq(scanned.tokens)) = Append(Squeezed(code), "endcode")
        /\ \A k \in DOMAIN scanned.tokens :
               LET token == scanned.tokens[k] IN
               " " \in Range(token) => token[1] \in {"'", "-", "["}
=============================================================================
