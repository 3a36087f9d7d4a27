---------------------------- MODULE JSONSanitize ----------------------------
(***************************************************************************)
(* sanitize(): how JSONLogger turns a log message into the inside of a     *)
(* JSON string.  A message is a sequence over a few characters: the three  *)
(* the code escapes, the escape character, the letters that may follow it, *)
(* one plain character, and one that stands for the other control          *)
(* characters (\r, \b, ESC ...), which the code does not escape.           *)
(***************************************************************************)
EXTENDS Naturals, Sequences, SequencesExt, FiniteSets

CONSTANT MaxLength           \* bound on the length of the messages

VARIABLE msg                 \* the message received so far

Escape == "\\"

(* valid_char, by the character it stands for. *)
ValidChar == [c \in {"newline", "tab", "quote"} |->
                CASE c = "newline" -> "n" [] c = "tab" -> "t" [] c = "quote" -> "quote"]
NonValid == DOMAIN ValidChar
Char == NonValid \cup {Escape, "n", "x", "control"}

AfterEscape(s, i) == i > 1 /\ s[i - 1] = Escape

(* First pass: the characters that will need an escape in front.           *)
CountNonValid(s) == Cardinality({i \in DOMAIN s : s[i] \in NonValid /\ ~AfterEscape(s, i)})

(* Faulty: the character before is not looked at. *)
SanitizeAll(s) ==
  FlattenSeq([i \in DOMAIN s |-> IF s[i] \in NonValid THEN <<Escape, ValidChar[s[i]]>>
                                                       ELSE <<s[i]>>])

(* Second pass: the text itself.                                           *)
Sanitize(s) ==
  FlattenSeq([i \in DOMAIN s |->
                CASE AfterEscape(s, i)  -> <<s[i]>>
                  [] ~AfterEscape(s, i) -> IF s[i] \in NonValid THEN <<Escape, ValidChar[s[i]]>>
                                                                ELSE <<s[i]>>])

(* new char[len + num_nvc + 1], the last one for the terminator.           *)
BufferSize(s) == Len(s) + CountNonValid(s) + 1

SanitizeInit == msg = <<>>

(* Another character of the message.                                       *)
Receive == /\ Len(msg) < MaxLength
           /\ \E c \in Char : msg' = Append(msg, c)

SanitizeSpec == SanitizeInit /\ [][Receive]_msg

-----------------------------------------------------------------------------
(* What the grammar of JSON says of a string (RFC 8259): read from the     *)
(* left, an escape character takes the next character with it, and         *)
(* whatever is not taken that way is neither a quote nor a control         *)
(* character.  TakenBy[i] tells whether character i follows an escape.     *)
Taken(s) ==
  LET taken[i \in 0 .. Len(s)] ==
        IF i <= 1 THEN FALSE ELSE s[i - 1] = Escape /\ ~taken[i - 1]
  IN  taken

IsJSONString(s) ==
  LET taken == Taken(s) IN
    /\ \A i \in DOMAIN s :
         /\ s[i] \notin {"newline", "tab", "control"}
         /\ s[i] = "quote" => taken[i]
         /\ taken[i] => s[i] \in {Escape, "n", "t", "quote"}
    /\ s # <<>> => ~(s[Len(s)] = Escape /\ ~taken[Len(s)])

(* The text a JSON reader makes of a string.                               *)
Decode(s) ==
  LET taken == Taken(s)
      Meaning(i) == CASE ~taken[i]                  -> s[i]
                      [] taken[i] /\ s[i] = "n"     -> "newline"
                      [] taken[i] /\ s[i] = "t"     -> "tab"
                      [] OTHER                      -> s[i]
      Kept(i) == taken[i] \/ s[i] # Escape
  IN  FlattenSeq([i \in DOMAIN s |-> IF Kept(i) THEN <<Meaning(i)>> ELSE <<>>])

Has(s, c) == \E i \in DOMAIN s : s[i] = c

(* The second pass writes no more than the first pass counted: sanitize    *)
(* allocates its buffer from one scan of the message and fills it in       *)
(* another, and both look at the character before. A message without       *)
(* escape characters is written so that its text can be read back, and as  *)
(* a JSON string exactly when newlines and tabs are its only control       *)
(* characters: any other one is written as it came. Text that is already   *)
(* escaped is left as it is, the reason for looking at the character       *)
(* before (sanitize).                                                      *)
SanitizeKeepsText ==
  /\ Len(Sanitize(msg)) + 1 = BufferSize(msg)
  /\ ~Has(msg, Escape) => /\ IsJSONString(Sanitize(msg)) <=> ~Has(msg, "control")
                          /\ Decode(Sanitize(msg)) = msg
  /\ Sanitize(Sanitize(msg)) = Sanitize(msg)
=============================================================================
