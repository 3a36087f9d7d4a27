-------------------------------- MODULE Str --------------------------------
(***************************************************************************)
(* The string of Core/Types/Str.cpp: a length and a buffer that should     *)
(* hold that many characters and a NUL, which half of the operations read  *)
(* as a C string and the other half by its length. Buffers are functions   *)
(* from 0 on; a write behind the end of one leaves a cell that `size' does *)
(* not count.                                                              *)
(*                                                                         *)
(* Callers store no NUL with set, nor with `+', and pass no negative start *)
(* to substr, which copies from &mem_[start] and not from the index it has *)
(* computed: nobody in the repository does.                                *)
(***************************************************************************)
EXTENDS Sequences, Integers

CONSTANTS
    Strings,
    Chars,        \* positive integers, in the order of the characters
    InitSize,     \* INIT_SIZE
    MaxLen        \* bound of the model: characters in a string

ASSUME StrAssumption ==
    Chars \subseteq Nat \ {0} /\ InitSize \in Nat \ {0} /\ MaxLen \in Nat

VARIABLES texts, str

strVars == <<texts, str>>

NUL == 0
Unwritten == -1       \* a character of new char[] that was not written

----------------------------------------------------------------------------
(* Buffers *)

StrRecord(mem, size, len) == [mem |-> mem, size |-> size, len |-> len]

NewChars(n) == [i \in 0..n - 1 |-> Unwritten]

PutChar(mem, i, c) == [k \in DOMAIN mem \cup {i} |-> IF k = i THEN c ELSE mem[k]]

\* memccpy(.., src, 0, n) stops behind the first NUL of the n characters.
EndsWithin(src, n) == \E i \in 0..n - 1: src[i] = NUL

Taken(src, n) ==
    IF EndsWithin(src, n)
    THEN 1 + CHOOSE i \in 0..n - 1: src[i] = NUL /\ \A k \in 0..i - 1: src[k] # NUL
    ELSE n

Memccpy(mem, at, src, n) ==
    LET written == at..at + Taken(src, n) - 1 IN
    [i \in DOMAIN mem \cup written |-> IF i \in written THEN src[i - at] ELSE mem[i]]

\* if (!memccpy(mem, src, 0, n)) mem[n] = 0
CopyText(mem, src, n) ==
    LET copied == Memccpy(mem, 0, src, n) IN
    IF EndsWithin(src, n) THEN copied ELSE PutChar(copied, n, NUL)

\* A C string: the characters of a sequence and a NUL.
CString(text) == [i \in 0..Len(text) |-> IF i < Len(text) THEN text[i + 1] ELSE NUL]

\* What lies behind an address inside a buffer.
Behind(mem, start) == [i \in {k - start: k \in DOMAIN mem} |-> mem[i + start]]

----------------------------------------------------------------------------
(* The values that constructors and operators return *)

EmptyStr == StrRecord(PutChar(NewChars(InitSize), 0, NUL), InitSize, 0)

FromCString(text) ==
    LET size == IF Len(text) + 1 > InitSize THEN Len(text) + 1 ELSE InitSize IN
    StrRecord(CopyText(NewChars(size), CString(text), Len(text)), size, Len(text))

CopyOfStr(s) == StrRecord(CopyText(NewChars(s.size), s.mem, s.len), s.size, s.len)

ClearedStr(s) == StrRecord(PutChar(s.mem, 0, NUL), s.size, 0)

\* Faulty: is late by the cell of the NUL.
ExtendedLate(s, n) ==
    IF n > s.size THEN StrRecord(CopyText(NewChars(n + 1), s.mem, s.len), n + 1, s.len) ELSE s

Extended(s, n) ==
    IF n >= s.size THEN StrRecord(CopyText(NewChars(n + 1), s.mem, s.len), n + 1, s.len) ELSE s

\* operator+(const Str &) writes its NUL one cell too far when it finds none to
\* copy, which is always: the cell behind the text is what the heap left in it.
Joined(s, t) ==
    LET n == s.len + t.len + 1
        room == Extended(EmptyStr, n)
        head == Memccpy(room.mem, 0, s.mem, s.len)
        at == IF EndsWithin(s.mem, s.len) THEN Taken(s.mem, s.len) - 1 ELSE s.len
        both == Memccpy(head, at, t.mem, t.len) IN
    StrRecord(IF EndsWithin(t.mem, t.len) THEN both ELSE PutChar(both, n, NUL), room.size, n - 1)

\* operator+(const char *) looks for the NUL of this string, not for its length.
JoinedCString(s, text) ==
    LET n == Len(text) + s.len + 1
        room == Extended(EmptyStr, n)
        head == Memccpy(room.mem, 0, s.mem, s.size) IN
    StrRecord(Memccpy(head, Taken(s.mem, s.size) - 1, CString(text), n), room.size, n - 1)

JoinedChar(s, c) ==
    LET room == Extended(EmptyStr, s.len + 2)
        head == Memccpy(room.mem, 0, s.mem, s.size) IN
    StrRecord(PutChar(PutChar(head, s.len, c), s.len + 1, NUL), room.size, s.len + 1)

\* Faulty: leaves the NUL where it was.
AssignedStrUnended(s, t) ==
    LET room == IF t.len >= s.size THEN Extended(s, t.len) ELSE s IN
    StrRecord(Memccpy(room.mem, 0, t.mem, t.len), room.size, t.len)

AssignedStr(s, t) ==
    LET room == IF t.len >= s.size THEN Extended(s, t.len) ELSE s IN
    StrRecord(CopyText(room.mem, t.mem, t.len), room.size, t.len)

Lengthened(s, c) ==
    LET room == Extended(s, s.len + 1) IN
    StrRecord(PutChar(PutChar(room.mem, s.len, c), s.len + 1, NUL), room.size, s.len + 1)

CharIndex(s, i) == IF i >= 0 THEN i ELSE s.len + i

Changed(s, i, c) == StrRecord(PutChar(s.mem, CharIndex(s, i), c), s.size, s.len)

\* The first n characters behind `start' in a string of their own.
Part(s, start, n) ==
    LET room == Extended(EmptyStr, n) IN
    StrRecord(CopyText(room.mem, Behind(s.mem, start), n), room.size, n)

Least(a, b) == IF a <= b THEN a ELSE b

\* substr(end)
Shortened(s, end) ==
    LET n == IF end <= 0 THEN s.len + end ELSE end IN
    IF n < 0 THEN FromCString(<< >>) ELSE IF n >= s.len THEN CopyOfStr(s) ELSE Part(s, 0, n)

\* substr(start, end)
Substring(s, start, end) ==
    LET first == IF start < 0 THEN s.len + start ELSE start
        last == Least(IF end <= 0 THEN s.len + end ELSE end, s.len) IN
    IF first >= s.len \/ last <= first \/ last < 0 \/ first < 0
    THEN EmptyStr ELSE Part(s, start, last - first)

----------------------------------------------------------------------------
(* Queries *)

NoPlace == -1

\* Faulty: goes on with the pattern after a character that does not match.
MatchedLoosely(s, p, n, was) ==
    IF was.m = p.len THEN was
    ELSE IF s.mem[n] # p.mem[was.m] THEN was
    ELSE [m |-> was.m + 1, i |-> IF was.m = 0 THEN n ELSE was.i]

\* The loop of find(str, start) at character n: m characters of the pattern have
\* matched from i on, and a mismatch starts the pattern again at the next character.
Matched(s, p, n, was) ==
    IF was.m = p.len THEN was
    ELSE IF s.mem[n] # p.mem[was.m] THEN [was EXCEPT !.m = 0]
    ELSE [m |-> was.m + 1, i |-> IF was.m = 0 THEN n ELSE was.i]

\* m and i when the loop comes to each character.
Search(s, p, start) ==
    LET search[n \in start..s.len] ==
            IF n = start THEN [m |-> 0, i |-> 0] ELSE Matched(s, p, n - 1, search[n - 1])
    IN search

FindFrom(s, p, start) ==
    IF start + p.len > s.len \/ p.len = 0 THEN NoPlace
    ELSE LET last == Search(s, p, start)[s.len] IN
         IF last.m = p.len THEN last.i ELSE NoPlace

FindChar(s, c, start) ==
    LET equal == {i \in start..s.len - 1: s.mem[i] = c} IN
    IF equal = {} THEN NoPlace ELSE CHOOSE i \in equal: \A k \in equal: i <= k

\* strcmp(..) == 0
SameCString(mem, other) ==
    \E n \in DOMAIN mem \cap DOMAIN other:
        mem[n] = NUL /\ \A i \in 0..n: mem[i] = other[i] /\ (i < n => mem[i] # NUL)

SameStr(s, t) == s.len = t.len /\ SameCString(s.mem, t.mem)

LessThan(s, t) ==
    IF s.len = 0 /\ t.len # 0 THEN TRUE
    ELSE IF t.len = 0 THEN FALSE
    ELSE LET differ == {i \in 0..Least(s.len, t.len) - 1: s.mem[i] # t.mem[i]} IN
         IF differ = {} THEN s.len < t.len
         ELSE \E i \in differ: (\A k \in differ: i <= k) /\ s.mem[i] < t.mem[i]

Greater(s, t) ==
    IF s.len = 0 /\ t.len # 0 THEN FALSE
    ELSE IF t.len = 0 THEN s.len # 0
    ELSE LET differ == {i \in 0..Least(s.len, t.len) - 1: s.mem[i] # t.mem[i]} IN
         IF differ = {} THEN s.len > t.len
         ELSE \E i \in differ: (\A k \in differ: i <= k) /\ s.mem[i] > t.mem[i]

----------------------------------------------------------------------------
(* Actions: a new string, or a change of one *)

MakeStr(s, value) == s \notin texts /\ texts' = texts \cup {s} /\ str' = [str EXCEPT ![s] = value]

ChangeStr(s, value) == s \in texts /\ str' = [str EXCEPT ![s] = value] /\ UNCHANGED texts

Texts == UNION {[1..n -> Chars]: n \in 0..MaxLen}

ConstructStr(s, text) == MakeStr(s, FromCString(text)) \/ (text = << >> /\ MakeStr(s, EmptyStr))

CopyStr(s, t) == t \in texts /\ MakeStr(s, CopyOfStr(str[t]))

DestroyStr(s) == s \in texts /\ texts' = texts \ {s} /\ str' = [str EXCEPT ![s] = EmptyStr]

ClearStr(s) == ChangeStr(s, ClearedStr(str[s]))

AssignStr(s, t) == t \in texts /\ ChangeStr(s, AssignedStr(str[s], str[t]))

\* The cell that Joined does not write is anything.
Join(s, t, u) ==
    /\ t \in texts /\ u \in texts
    /\ str[t].len + str[u].len <= MaxLen
    /\ LET both == Joined(str[t], str[u]) IN
       IF both.mem[both.len] # Unwritten THEN MakeStr(s, both)
       ELSE \E junk \in Chars \cup {NUL}: MakeStr(s, [both EXCEPT !.mem[both.len] = junk])

JoinCString(s, t, text) ==
    /\ t \in texts
    /\ str[t].len + Len(text) <= MaxLen
    /\ MakeStr(s, JoinedCString(str[t], text))

JoinChar(s, t, c) == t \in texts /\ str[t].len < MaxLen /\ MakeStr(s, JoinedChar(str[t], c))

Lengthen(s, c) ==
    /\ str[s].len < MaxLen
    /\ ChangeStr(s, IF c = NUL THEN str[s] ELSE Lengthened(str[s], c))

SetChar(s, i, c) ==
    /\ CharIndex(str[s], i) \in 0..str[s].len - 1
    /\ ChangeStr(s, Changed(str[s], i, c))

Shorten(s, t, end) == t \in texts /\ MakeStr(s, Shortened(str[t], end))

Substr(s, t, start, end) == t \in texts /\ MakeStr(s, Substring(str[t], start, end))

StrInit == texts = {} /\ str = [s \in Strings |-> EmptyStr]

StrNext ==
    \E s \in Strings:
        \/ ClearStr(s) \/ DestroyStr(s)
        \/ \E text \in Texts: ConstructStr(s, text)
        \/ \E t \in Strings: CopyStr(s, t) \/ AssignStr(s, t)
        \/ \E t, u \in Strings: Join(s, t, u)
        \/ \E t \in Strings, text \in Texts: JoinCString(s, t, text)
        \/ \E t \in Strings, c \in Chars: JoinChar(s, t, c)
        \/ \E c \in Chars \cup {NUL}: Lengthen(s, c)
        \/ \E i \in -MaxLen..MaxLen - 1, c \in Chars: SetChar(s, i, c)
        \/ \E t \in Strings, end \in -MaxLen..MaxLen: Shorten(s, t, end)
        \/ \E t \in Strings, start \in 0..MaxLen, end \in -MaxLen..MaxLen: Substr(s, t, start, end)

StrSpec == StrInit /\ [][StrNext]_strVars

----------------------------------------------------------------------------
(* Properties *)

Text(s) == [k \in 1..s.len |-> s.mem[k - 1]]

Terminated(s) == s.mem[s.len] = NUL

Says(s, text) == Text(s) = text /\ Terminated(s)

\* A buffer has the cells that are counted (no write went behind its end), it has
\* room for the text and its NUL, and the text has no NUL in it.
StrTypeOK ==
    /\ texts \subseteq Strings
    /\ \A s \in Strings:
           /\ str[s].mem \in [0..str[s].size - 1 -> Chars \cup {NUL, Unwritten}]
           /\ str[s].len \in 0..str[s].size - 1
           /\ \A i \in 0..str[s].len - 1: str[s].mem[i] \in Chars

\* The first n characters of a sequence, n counted from its end when not positive.
Upto(text, n) == SubSeq(text, 1, IF n <= 0 THEN Len(text) + n ELSE Least(n, Len(text)))

\* A string is its text, whatever its buffer held before: what each operation makes
\* of it depends on texts alone, and but for the sum of two strings, whose NUL
\* Str.cpp:80 puts in the wrong place, the C string that others read is the text.
ActsLikeText ==
    [][strVars' # strVars => \A s \in Strings:
        /\ \A text \in Texts: ConstructStr(s, text) => Says(str'[s], text)
        /\ \A t \in Strings: CopyStr(s, t) \/ AssignStr(s, t) => Says(str'[s], Text(str[t]))
        /\ \A t, u \in Strings: Join(s, t, u) => Text(str'[s]) = Text(str[t]) \o Text(str[u])
        /\ \A t \in Strings, text \in Texts:
               JoinCString(s, t, text) /\ Terminated(str[t]) => Says(str'[s], Text(str[t]) \o text)
        /\ \A t \in Strings, c \in Chars: JoinChar(s, t, c) => Says(str'[s], Append(Text(str[t]), c))
        /\ \A c \in Chars: Lengthen(s, c) => Says(str'[s], Append(Text(str[s]), c))
        /\ \A t \in Strings, end \in -MaxLen..MaxLen:
               Shorten(s, t, end) => Says(str'[s], Upto(Text(str[t]), end))
        /\ \A t \in Strings, start \in 0..MaxLen, end \in -MaxLen..MaxLen:
               Substr(s, t, start, end) =>
                   LET upto == Upto(Text(str[t]), end) IN
                   Says(str'[s], SubSeq(upto, start + 1, Len(upto)))
        /\ \A t \in Strings: str'[s] = str[s] \/ str'[t] = str[t] \/ s = t]_strVars

\* Where a pattern occurs in a text.
Occurrences(text, p, start) ==
    {n \in start..Len(text) - Len(p): SubSeq(text, n + 1, n + Len(p)) = p}

\* Comparisons order strings as texts, find reports no place where the pattern is
\* not, and the first one unless the pattern's first character stands shortly before
\* it: a false start there takes the character that the loop should begin with again
\* (Str.cpp:262).
TextQueriesAgree ==
    \A s, t \in texts:
        LET a == Text(str[s])
            b == Text(str[t])
            places == Occurrences(a, b, 0)
            found == FindFrom(str[s], str[t], 0) IN
        /\ Terminated(str[s]) /\ Terminated(str[t]) => (SameStr(str[s], str[t]) <=> a = b)
        /\ a # b => (LessThan(str[s], str[t]) <=> ~LessThan(str[t], str[s]))
        /\ a = b => ~LessThan(str[s], str[t])
        /\ Greater(str[s], str[t]) <=> LessThan(str[t], str[s])
        /\ \A c \in Chars: Says(str[t], Append(a, c)) => LessThan(str[s], str[t])
        /\ found # NoPlace => found \in places
        /\ b # << >> =>
               \A n \in places:
                   (\A k \in 0..n - 1: k \notin places /\ (k > n - Len(b) => a[k + 1] # b[1])) => found = n
==============================================================================
