------------------------------ MODULE MCInputs ------------------------------
(***************************************************************************)
(* What the components are given from outside, on small instances: signals *)
(* and parameters of a configuration (Helpers), log messages               *)
(* (JSONSanitize), Lua code as text (LuaScanner) and as tokens             *)
(* (LuaSyntax). They share nothing: a behaviour is one of the module named *)
(* by `part', and what is checked are the modules' own properties.         *)
(***************************************************************************)
EXTENDS Helpers, JSONSanitize, TLC

CONSTANTS MaxChars, MaxTokens

VARIABLES part, code, program

\* Two signals, one of them with a size; mandatory and optional definitions of a name,
\* of any name, and of a size that is a product of two.
SomeChildren ==
    {[name |-> "A", type |-> "uint8", dimensions |-> Missing, elements |-> Missing],
     [name |-> "A", type |-> "uint8", dimensions |-> 2, elements |-> 3],
     [name |-> "B", type |-> "uint8", dimensions |-> 1, elements |-> 2]}

SomeDefinitions ==
    {[name |-> "A", type |-> "uint8", optional |-> FALSE, size |-> 1],
     [name |-> "B", type |-> "uint8", optional |-> TRUE, size |-> 0],
     [name |-> AnyName, type |-> "uint8", optional |-> FALSE, size |-> 2]}

SomePieces ==
    {<<"a">>, <<"1">>, <<" ">>, <<"=">>, <<"-">>, <<"'">>, <<"\\">>, <<"\n">>, <<"[">>, <<"]">>,
     <<"-", "-">>, <<"[", "[">>, <<"]", "]">>, <<"[", "=", "[">>, <<"]", "=", "]">>}

L == INSTANCE LuaScanner WITH Pieces <- SomePieces

\* Expressions of each kind, with one name in them or both; fields and methods that
\* have the name of a variable, next to that variable and without it.
Written(tokens, uses, fields) == [tokens |-> tokens, uses |-> uses, fields |-> fields]
Type(type) == <<[type |-> type, raw |-> ""]>>
Id(name) == <<[type |-> "ID", raw |-> name]>>
SomeExpressions ==
    {Written(Id("a"), {"a"}, {}),
     Written(Type("MINUS") \o Id("a") \o Type("MINUS") \o Type("NUM"), {"a"}, {}),
     Written(Type("OPAR") \o Id("b") \o Type("CPAR") \o Type("ADD") \o Id("a"), {"a", "b"}, {}),
     Written(Id("f") \o Type("OPAR") \o Id("b") \o Type("CPAR"), {"b"}, {}),
     Written(Id("a") \o Type("OBRACK") \o Id("b") \o Type("CBRACK"), {"a", "b"}, {}),
     Written(Id("f") \o Type("DOT") \o Id("a"), {}, {"a"}),
     Written(Id("a") \o Type("DOT") \o Id("b"), {"a"}, {"b"}),
     Written(Type("OBRACE") \o Id("a") \o Type("ASSIGN") \o Id("b") \o Type("CBRACE"), {"b"}, {}),
     Written(Id("f") \o Type("COL") \o Id("a") \o Type("OBRACE") \o Id("b") \o Type("CBRACE"), {"b"}, {"a"})}

P == INSTANCE LuaSyntax WITH Variables <- {"a", "b"}, GamFn <- "GAM", Callee <- "f", Expressions <- SomeExpressions

ASSUME ConstantsAssumption == HelpersAssumption

InitPart ==
    /\ part \in {"signals and parameters", "message", "text", "tokens"}
    /\ Init /\ SanitizeInit /\ L!Init /\ P!Init

NextHelpers == Next /\ UNCHANGED <<part, msg, code, program>>
NextMessage == Receive /\ UNCHANGED <<part, vars, code, program>>
NextText == L!Write /\ UNCHANGED <<part, vars, msg, program>>
NextTokens == P!Next /\ UNCHANGED <<part, vars, msg, code>>

NextPart ==
    \/ part = "signals and parameters" /\ NextHelpers
    \/ part = "message" /\ NextMessage
    \/ part = "text" /\ NextText
    \/ part = "tokens" /\ NextTokens

SpecPart == InitPart /\ [][NextPart]_<<part, vars, msg, code, program>>

\* See LuaScanner.
NothingIsLost == L!NothingIsLost

\* See LuaSyntax.
VerdictsAreMeant == P!VerdictsAreMeant
DamagedCodeEnds == P!DamagedCodeEnds
=============================================================================
