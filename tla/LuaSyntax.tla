------------------------------ MODULE LuaSyntax ------------------------------
(***************************************************************************)
(* GAMs/LuaGAM/AST.cpp and Verifier.cpp: the rules that make a syntax tree *)
(* of the tokens of a Lua code, and what LuaGAM asks of that tree before   *)
(* it runs the code. A token has a type of LuaParserBaseTypes.h and its    *)
(* text, tokens end with ENDCODE. A rule is an operator on the grammar g,  *)
(* the tokens t and the position i of the iterator. Its result has the     *)
(* position afterwards (Null when the iterator is), ok, the nodes it adds  *)
(* to its caller's, and whether it read a null iterator or does not        *)
(* return. What the code does after ok became false changes no tree and is *)
(* left out.                                                               *)
(***************************************************************************)
EXTENDS Integers, Sequences

CONSTANTS
    Variables, GamFn, Callee,   \* names; GamFn is GAM_FN, Callee that of another function
    Expressions,                \* [tokens, uses, fields]: how each is written, the variables it
                                \* uses, the names of the fields and methods in it
    MaxTokens                   \* bound of the model: code that becomes longer is not written

VARIABLE program    \* [tokens, uses, fields, assigns, setFields, locals, tops, returned]: what each part
                    \* of a code is meant as; tops are the kinds of its statements

Null == 0

Token(type, raw) == [type |-> type, raw |-> raw]
Words(types) == [k \in DOMAIN types |-> Token(types[k], "")]
Id(name) == <<Token("ID", name)>>

Unop == {"NOT", "MINUS", "LENGTH", "BITNOT"}
Binop == {"AND", "OR", "CONCAT", "FLOOR", "EQ", "NEQ", "LTEQ", "GTEQ", "BITRSHIFT", "BITRLEFT", "ADD",
          "MINUS", "MULT", "DIV", "MOD", "POW", "LT", "GT", "BITAND", "BITOR", "BITNOT"}

Node(type, tok, subs) == [type |-> type, tok |-> tok, subs |-> subs]
Fine(i) == [at |-> i, ok |-> TRUE, subs |-> << >>, bad |-> "no"]
ReadsNull == [at |-> Null, ok |-> FALSE, subs |-> << >>, bad |-> "null"]
Loops == [at |-> Null, ok |-> FALSE, subs |-> << >>, bad |-> "loop"]

Following(t, i) == IF i = Len(t) THEN Null ELSE i + 1
Is(t, p, types) == p.ok /\ p.at # Null /\ t[p.at].type \in types
NextIs(t, p, type) == p.ok /\ p.at < Len(t) /\ t[p.at + 1].type = type
Failed(p) == [p EXCEPT !.ok = FALSE]
Moved(t, p) == [p EXCEPT !.at = Following(t, @)]

\* The steps of a rule: a token that must be there, one that may be, a node made
\* of a token, another rule.
Pass(t, p, type) == IF Is(t, p, {type}) THEN Moved(t, p) ELSE Failed(p)
May(t, p, type) == IF Is(t, p, {type}) THEN Moved(t, p) ELSE p
Take(t, p, type) ==
    IF p.ok THEN [Moved(t, p) EXCEPT !.subs = Append(@, Node(type, p.at, << >>))] ELSE p
\* Faulty: the token is taken unseen.
TakeUnseen(t, p, token, type) == Take(t, p, type)

TakeIf(t, p, token, type) == IF Is(t, p, {token}) THEN Take(t, p, type) ELSE Failed(p)
Then(g, p, rule) ==
    IF p.ok THEN LET r == g[rule, p.at] IN [r EXCEPT !.subs = p.subs \o @] ELSE p
ThenIf(g, t, p, token, rule) == IF Is(t, p, {token}) THEN Then(g, p, rule) ELSE p

\* The end of a rule that began at i.
Made(p, type, tok, i) ==
    IF p.ok THEN [p EXCEPT !.subs = <<Node(type, tok, p.subs)>>] ELSE [p EXCEPT !.at = i, !.subs = << >>]

RECURSIVE ExpFrom(_, _, _, _), Suffixes(_, _, _), CommaExps(_, _, _), CommaVars(_, _, _), Fields(_, _, _),
          DotNames(_, _), CommaNames(_, _), AttNames(_, _), ElseIfs(_, _, _), Statements(_, _, _), Blocks(_, _, _),
          Checked(_, _, _, _), VariablesIn(_)

----------------------------------------------------------------------------
(* Expressions *)

Operand(g, t, p) ==
    CASE Is(t, p, {"NIL", "FALSE", "TRUE", "VARARGS"}) -> Take(t, p, "VALUE")
      [] Is(t, p, {"FUNCTION"}) -> Take(t, p, "FUNCTIONDEF")
      [] Is(t, p, {"STRING"}) -> Take(t, p, "LITERALSTRING")
      [] Is(t, p, {"NUM"}) -> Take(t, p, "NUMERAL")
      [] Is(t, p, {"ID", "OPAR"}) -> Then(g, p, "PrefixExp")
      [] Is(t, p, {"OBRACE"}) -> Then(g, p, "Table")
      [] OTHER -> p

\* Minus and tilde are binary after a name, a number or a string only.
Operator(t, p) ==
    LET before == t[p.at - 1].type IN
    IF Is(t, p, Unop) THEN Take(t, p, IF Is(t, p, Binop) /\ before \in {"ID", "NUM", "STRING"} THEN "BINOP" ELSE "UNOP")
    ELSE IF before \in Binop THEN Failed(p) ELSE Take(t, p, "BINOP")

\* After an operator only the end of the code is missed as the next operand.
ExpFrom(g, t, p, expects) ==
    IF ~p.ok THEN p
    ELSE IF Is(t, p, {"ENDCODE"}) THEN IF expects THEN Failed(p) ELSE p
    ELSE LET q == Operand(g, t, p) IN
         IF Is(t, q, Unop \cup Binop) THEN ExpFrom(g, t, Operator(t, q), TRUE) ELSE q

Exp(g, t, i) == Made(ExpFrom(g, t, Fine(i), FALSE), "EXP", 0, i)

\* An expression in parentheses, or else a call, or else a variable; when the
\* inside of the parentheses fails the others are tried behind the opening one.
PrefixExp(g, t, i) ==
    LET opens == t[i].type = "OPAR"
        inner == g["Exp", i + 1]
        start == IF opens THEN i + 1 ELSE i
        call == g["Call", start]
        p == IF opens /\ inner.ok THEN Pass(t, inner, "CPAR")
             ELSE IF call.ok THEN call ELSE g["Var", start]
    IN IF p.ok THEN p ELSE [p EXCEPT !.at = i, !.subs = << >>]

\* What may follow a name, and what it makes of the node.
Suffixes(g, t, v) ==
    LET p == v.result
        prefix == [p EXCEPT !.subs = [@ EXCEPT ![Len(@)].type = "PREFIXEXP"]]
    IN IF Is(t, p, {"DOT"}) /\ NextIs(t, p, "ID") THEN
            Suffixes(g, t, [type |-> "VAR", result |-> Take(t, Moved(t, prefix), "NAME")])
       ELSE IF Is(t, p, {"OBRACK"}) THEN
            Suffixes(g, t, [type |-> "VAR", result |-> Pass(t, Then(g, Moved(t, prefix), "Exp"), "CBRACK")])
       ELSE IF Is(t, p, {"COL"}) /\ NextIs(t, p, "ID") THEN
            Suffixes(g, t, [type |-> "FUNCTIONCALL", result |-> Then(g, Take(t, Moved(t, prefix), "NAME"), "Args")])
       ELSE IF Is(t, p, {"OPAR", "STRING", "OBRACE"}) THEN
            Suffixes(g, t, [type |-> "FUNCTIONCALL", result |-> Then(g, prefix, "Args")])
       ELSE v

\* The test behind a closing parenthesis holds for every token.
VarOrFuncall(g, t, i, expected) ==
    LET named == TakeIf(t, Fine(i), "ID", "NAME")
        closed == Pass(t, Then(g, Fine(Following(t, i)), "Exp"), "CPAR")
        first == IF t[i].type # "OPAR" THEN named
                 ELSE IF ~Is(t, closed, {"OBRACK"}) \/ ~Is(t, closed, {"DOT"}) THEN Failed(closed) ELSE closed
        v == Suffixes(g, t, [type |-> "VAR", result |-> first])
    IN Made(IF v.type = expected THEN v.result ELSE Failed(v.result), v.type, 0, i)

CommaExps(g, t, p) == IF Is(t, p, {"COMMA"}) THEN CommaExps(g, t, Then(g, Moved(t, p), "Exp")) ELSE p
ExpList(g, t, i) == Made(CommaExps(g, t, g["Exp", i]), "EXPLIST", 0, i)

CommaVars(g, t, p) == IF Is(t, p, {"COMMA"}) THEN CommaVars(g, t, Then(g, Moved(t, p), "Var")) ELSE p
VarList(g, t, i) == Made(CommaVars(g, t, g["Var", i]), "VARLIST", 0, i)

Args(g, t, i) ==
    Made(CASE t[i].type = "OPAR" -> Pass(t, Then(g, Fine(i + 1), "ExpList"), "CPAR")
           [] t[i].type = "STRING" -> Take(t, Fine(i), "LITERALSTRING")
           [] t[i].type = "OBRACE" -> g["Table", i]
           [] OTHER -> Failed(Fine(i)), "ARGS", 0, i)

Field(g, t, i) ==
    LET key == Then(g, Fine(Following(t, i)), "Exp")
        closed == May(t, key, "CBRACK")
    IN IF t[i].type = "OBRACK" THEN
            IF closed # key /\ Is(t, closed, {"ASSIGN"}) THEN Then(g, Moved(t, closed), "Exp") ELSE closed
       ELSE IF t[i].type = "ID" /\ NextIs(t, Fine(i), "ASSIGN") THEN
            Then(g, Moved(t, Take(t, Fine(i), "NAME")), "Exp")
       ELSE g["Exp", i]

\* A field that fails is left out, and the closing brace looked for where it stopped.
Fields(g, t, p) ==
    LET f == Field(g, t, p.at)
        q == [at |-> f.at, ok |-> TRUE, subs |-> Append(p.subs, Node("FIELD", 0, f.subs)), bad |-> "no"]
    IN IF ~f.ok THEN [p EXCEPT !.at = f.at]
       ELSE IF Is(t, q, {"COMMA", "SEMCOL"}) THEN Fields(g, t, Take(t, q, "FIELDSEP")) ELSE q

Table(g, t, i) ==
    LET fields == Fields(g, t, Fine(i + 1))
        list == [fields EXCEPT !.subs = <<Node("FIELDLIST", 0, fields.subs)>>]
    IN Made(Pass(t, list, "CBRACE"), "TABLECONSTRUCTOR", 0, i)

----------------------------------------------------------------------------
(* Functions, names and statements *)

DotNames(t, p) ==
    IF ~Is(t, p, {"DOT"}) THEN p
    ELSE IF NextIs(t, p, "ID") THEN DotNames(t, Take(t, Moved(t, p), "NAME")) ELSE Moved(t, p)

\* Whatever token is behind a colon becomes the name of the method.
FuncName(t, i) ==
    LET p == DotNames(t, Fine(Following(t, i)))
        q == IF Is(t, p, {"COL"}) THEN Take(t, Moved(t, p), "NAME") ELSE p
    IN Made(IF t[i].type = "ID" THEN q ELSE Failed(q), "FUNCNAME", i, i)

CommaNames(t, p) == IF Is(t, p, {"COMMA"}) /\ NextIs(t, p, "ID")
                    THEN CommaNames(t, Take(t, Moved(t, p), "NAME")) ELSE May(t, p, "COMMA")
NameList(t, i) == Made(CommaNames(t, TakeIf(t, Fine(i), "ID", "NAME")), "NAMELIST", 0, i)

ParList(t, i) ==
    LET names == NameList(t, i) IN
    IF t[i].type = "VARARGS" THEN Take(t, Fine(i), "PARLIST")
    ELSE Made(IF Is(t, names, {"VARARGS"}) THEN Take(t, names, "NAME") ELSE names, "PARLIST", 0, i)

FuncBody(g, t, i) ==
    IF i = Null THEN ReadsNull
    ELSE LET p == Pass(t, Fine(i), "OPAR")
             q == IF Is(t, p, {"CPAR"}) THEN p ELSE Then(g, p, "ParList")
         IN Made(Pass(t, Then(g, Pass(t, q, "CPAR"), "Block"), "END"), "FUNCBODY", 0, i)

Attribute(t, p) ==
    IF Is(t, p, {"LT"}) THEN Pass(t, TakeIf(t, Moved(t, p), "ID", "ATTRIB"), "GT") ELSE p

AttNames(t, p) ==
    IF Is(t, p, {"COMMA"}) /\ NextIs(t, p, "ID")
    THEN AttNames(t, Attribute(t, Take(t, Moved(t, p), "NAME"))) ELSE May(t, p, "COMMA")

AttNameList(t, i) == Made(AttNames(t, Attribute(t, TakeIf(t, Fine(i), "ID", "NAME"))), "ATTNAMELIST", 0, i)

RetStat(g, t, i) ==
    LET p == Then(g, Fine(Following(t, i)), "ExpList") IN
    Made(IF Is(t, p, {"SEMCOL"}) THEN Take(t, p, "UNDEFINED") ELSE p, "RETSTAT", i, i)

\* `elseif' or `else' at i, up to the next of the kind.
ElseIf(g, t, i) == Made(Then(g, Pass(t, Then(g, Fine(Following(t, i)), "Exp"), "THEN"), "Block"), "STAT", i, i)
Else(g, t, i) == Made(Then(g, Fine(Following(t, i)), "Block"), "STAT", i, i)
ElseIfs(g, t, p) == IF Is(t, p, {"ELSEIF"}) THEN ElseIfs(g, t, Then(g, p, "ElseIf")) ELSE p

ForHead(g, t, p) ==
    IF ~Is(t, p, {"ID"}) THEN Failed(p)
    ELSE IF NextIs(t, p, "COMMA") \/ NextIs(t, p, "IN") THEN Then(g, Pass(t, Then(g, p, "NameList"), "IN"), "ExpList")
    ELSE LET first == Then(g, Pass(t, Take(t, p, "NAME"), "ASSIGN"), "Exp")
             limit == Then(g, Pass(t, first, "COMMA"), "Exp")
         IN IF Is(t, limit, {"COMMA"}) THEN Then(g, Moved(t, limit), "Exp") ELSE limit

\* The words behind the first of a statement.
Rest(g, t, p, type) ==
    CASE type \in {"SEMCOL", "BREAK"} -> p
      [] type = "REQUIRE" -> Take(t, p, "MODULE")
      [] type = "COLCOL" -> Pass(t, TakeIf(t, p, "ID", "LABEL"), "COLCOL")
      [] type = "GOTO" -> TakeIf(t, p, "ID", "NAME")
      [] type = "DO" -> Pass(t, Then(g, p, "Block"), "END")
      [] type = "WHILE" -> Pass(t, Then(g, Pass(t, Then(g, p, "Exp"), "DO"), "Block"), "END")
      [] type = "REPEAT" -> Then(g, Pass(t, Then(g, p, "Block"), "UNTIL"), "Exp")
      [] type = "IF" ->
            LET branches == ElseIfs(g, t, Then(g, Pass(t, Then(g, p, "Exp"), "THEN"), "Block")) IN
            Pass(t, ThenIf(g, t, branches, "ELSE", "Else"), "END")
      [] type = "FOR" -> Pass(t, Then(g, Pass(t, ForHead(g, t, p), "DO"), "Block"), "END")
      [] type = "FUNCTION" -> Then(g, Then(g, p, "FuncName"), "FuncBody")
      [] OTHER -> Failed(p)

Local(g, t, p) ==
    LET names == Then(g, p, "AttNameList") IN
    IF Is(t, p, {"FUNCTION"}) THEN Then(g, TakeIf(t, Take(t, p, "LOCALFUNCTION"), "ID", "NAME"), "FuncBody")
    ELSE IF Is(t, names, {"ASSIGN"}) THEN Then(g, Moved(t, names), "ExpList") ELSE names

\* An assignment, or else a call from the beginning.
AssignOrCall(g, t, i) ==
    LET assign == Then(g, Pass(t, g["VarList", i], "ASSIGN"), "ExpList") IN
    Made(IF assign.ok THEN assign ELSE g["Call", i], "STAT", 0, i)

Stat(g, t, i) ==
    LET type == t[i].type
        begun == Fine(Following(t, i))
    IN CASE type = "COMM" -> Take(t, Fine(i), "COMMENT")
         [] type = "LOCAL" -> Made(Local(g, t, begun), "LOCALSTAT", i, i)
         [] type \in {"OPAR", "ID"} -> AssignOrCall(g, t, i)
         [] OTHER -> Made(Rest(g, t, begun, type), "STAT", i, i)

BlockEnds == {"RETURN", "ENDCODE", "END", "ELSEIF", "UNTIL", "ELSE"}

Statements(g, t, p) == IF p.ok /\ p.at # Null /\ ~Is(t, p, BlockEnds) THEN Statements(g, t, Then(g, p, "Stat")) ELSE p

Block(g, t, i) ==
    LET p == Statements(g, t, Fine(i)) IN
    IF p.ok /\ p.at = Null THEN ReadsNull ELSE Made(ThenIf(g, t, p, "RETURN", "RetStat"), "BLOCK", 0, i)

\* A block that stops where it began is tried again for ever.
Blocks(g, t, p) ==
    IF ~p.ok \/ Is(t, p, {"ENDCODE"}) THEN p
    ELSE LET q == Then(g, p, "Block") IN IF q.ok /\ q.at = p.at THEN Loops ELSE Blocks(g, t, q)

Rules == {"Block", "Stat", "RetStat", "Else", "ElseIf", "FuncName", "FuncBody", "ParList", "NameList", "AttNameList",
          "VarList", "Var", "Call", "ExpList", "Exp", "PrefixExp", "Args", "Table"}

Grammar(t) ==
    LET g[rule \in Rules, i \in 0..Len(t)] ==
            CASE rule = "Block" -> Block(g, t, i)
              [] rule = "Stat" -> Stat(g, t, i)
              [] rule = "RetStat" -> RetStat(g, t, i)
              [] rule = "Else" -> Else(g, t, i)
              [] rule = "ElseIf" -> ElseIf(g, t, i)
              [] rule = "FuncName" -> FuncName(t, i)
              [] rule = "FuncBody" -> FuncBody(g, t, i)
              [] rule = "ParList" -> ParList(t, i)
              [] rule = "NameList" -> NameList(t, i)
              [] rule = "AttNameList" -> AttNameList(t, i)
              [] rule = "VarList" -> VarList(g, t, i)
              [] rule = "Var" -> VarOrFuncall(g, t, i, "VAR")
              [] rule = "Call" -> VarOrFuncall(g, t, i, "FUNCTIONCALL")
              [] rule = "ExpList" -> ExpList(g, t, i)
              [] rule = "Exp" -> Exp(g, t, i)
              [] rule = "PrefixExp" -> PrefixExp(g, t, i)
              [] rule = "Args" -> Args(g, t, i)
              [] rule = "Table" -> Table(g, t, i)
    IN g

GenerateAst(t) ==
    LET p == Blocks(Grammar(t), t, Fine(1)) IN IF p.subs = << >> THEN Failed(p) ELSE p

----------------------------------------------------------------------------
(* Verifier *)

\* Faulty: only the children of a node are searched.
CheckedNearby(t, node, name, type) ==
    node.type = type /\ \E k \in DOMAIN node.subs : LET s == node.subs[k] IN s.tok # 0 /\ t[s.tok].raw = name

\* Below a node of that type is a node with a child of that name.
Checked(t, node, name, type) ==
    \/ /\ node.type = type
       /\ \E k \in DOMAIN node.subs : \E m \in DOMAIN node.subs[k].subs :
              LET s == node.subs[k].subs[m] IN s.tok # 0 /\ t[s.tok].raw = name
    \/ \E k \in DOMAIN node.subs : Checked(t, node.subs[k], name, type)

Check(t, ast, name, type) == \E k \in DOMAIN ast : Checked(t, ast[k], name, type)

ValidateInputSignal(t, ast, name) ==
    Check(t, ast, name, "EXP") /\ ~Check(t, ast, name, "VARLIST") /\ ~Check(t, ast, name, "LOCALSTAT")

ValidateOutputSignal(t, ast, name) == Check(t, ast, name, "VARLIST") /\ ~Check(t, ast, name, "LOCALSTAT")

\* A statement without a node of its own has no first one to look at.
CheckGam(t, ast) ==
    LET subs == ast[1].subs
        IsGam(s) == s.type = "STAT" /\ s.subs # << >> /\ s.subs[1].type = "FUNCNAME" /\ t[s.subs[1].tok].raw = GamFn
        found == {k \in DOMAIN subs : IsGam(subs[k])}
        bare == {k \in DOMAIN subs : subs[k].type = "STAT" /\ subs[k].subs = << >>}
    IN IF Len(ast) # 1 THEN "no"
       ELSE IF \E k \in bare : \A m \in found : k < m THEN "reads nothing"
       ELSE IF found = {} THEN "no" ELSE "yes"

CheckOnlyGam(ast) == Len(ast[1].subs) = 1

\* ExtractVariables and check_variables_initialisation.
VariablesIn(node) ==
    (IF node.type = "VAR" /\ Len(node.subs) = 1 /\ node.subs[1].tok # 0 THEN {node.subs[1].tok} ELSE {})
    \cup UNION {VariablesIn(node.subs[k]) : k \in DOMAIN node.subs}

VariablesInitialised(t, ast, names) ==
    \A k \in DOMAIN ast : \A v \in VariablesIn(ast[k]) : t[v].raw \in names
----------------------------------------------------------------------------
(* Codes of which it is known what they mean *)

Init == program = [tokens |-> << >>, uses |-> {}, fields |-> {}, assigns |-> {}, setFields |-> {}, locals |-> {},
                   tops |-> << >>, returned |-> FALSE]

NoExpression == [tokens |-> << >>, uses |-> {}, fields |-> {}]

Written(tokens, e, top) ==
    [program EXCEPT !.tokens = @ \o tokens, !.uses = @ \cup e.uses, !.fields = @ \cup e.fields, !.tops = Append(@, top)]

Wrapped(before, e, after, top) ==
    [program EXCEPT !.tokens = before \o @ \o after, !.uses = @ \cup e.uses, !.fields = @ \cup e.fields,
                    !.tops = <<top>>, !.returned = FALSE]

Assign(v, e) ==
    program' = [Written(Id(v) \o Words(<<"ASSIGN">>) \o e.tokens, e, "other") EXCEPT !.assigns = @ \cup {v}]

AssignTwo(v, w, e) ==
    program' = [Written(Id(v) \o Words(<<"COMMA">>) \o Id(w) \o Words(<<"ASSIGN">>) \o e.tokens, e, "other")
                    EXCEPT !.assigns = @ \cup {v, w}]

\* To an element or a field of v is to v as well.
AssignElement(v, e) ==
    program' = [Written(Id(v) \o Words(<<"OBRACK", "NUM", "CBRACK", "ASSIGN">>) \o e.tokens, e, "other")
                    EXCEPT !.assigns = @ \cup {v}]

AssignField(v, w, e) ==
    program' = [Written(Id(v) \o Words(<<"DOT">>) \o Id(w) \o Words(<<"ASSIGN">>) \o e.tokens, e, "other")
                    EXCEPT !.assigns = @ \cup {v}, !.setFields = @ \cup {w}]

DeclareLocal(v, e) ==
    program' = [Written(Words(<<"LOCAL">>) \o Id(v) \o Words(<<"ASSIGN">>) \o e.tokens, e, "other")
                    EXCEPT !.locals = @ \cup {v}]

Call(e) == program' = Written(Id(Callee) \o Words(<<"OPAR">>) \o e.tokens \o Words(<<"CPAR">>), e, "other")

Comment == program' = Written(Words(<<"COMM">>), NoExpression, "other")

LabelAndGoto ==
    program' = [Written(Words(<<"COLCOL">>) \o Id(Callee) \o Words(<<"COLCOL", "GOTO">>) \o Id(Callee), NoExpression, "other")
                    EXCEPT !.tops = Append(@, "other")]

Break == program' = Written(Words(<<"BREAK">>), NoExpression, "bare")

Return(e) == program' = [Written(Words(<<"RETURN">>) \o e.tokens, e, "other") EXCEPT !.returned = TRUE]

\* The whole code becomes the body of a statement.
Enclose(e) ==
    \/ program' = Wrapped(Words(<<"DO">>), NoExpression, Words(<<"END">>), "other")
    \/ program' = Wrapped(Words(<<"WHILE">>) \o e.tokens \o Words(<<"DO">>), e, Words(<<"END">>), "other")
    \/ program' = Wrapped(Words(<<"REPEAT">>), e, Words(<<"UNTIL">>) \o e.tokens, "other")
    \/ program' = Wrapped(Words(<<"IF">>) \o e.tokens \o Words(<<"THEN">>), e, Words(<<"END">>), "other")
    \/ program' = Wrapped(Words(<<"IF">>) \o e.tokens \o Words(<<"THEN", "ELSE">>), e, Words(<<"END">>), "other")
    \/ program' = Wrapped(Words(<<"IF">>) \o e.tokens \o Words(<<"THEN", "ELSEIF">>) \o e.tokens \o Words(<<"THEN">>),
                          e, Words(<<"END">>), "other")
    \/ program' = Wrapped(Words(<<"FOR">>) \o Id(Callee) \o Words(<<"ASSIGN">>) \o e.tokens \o Words(<<"COMMA">>)
                              \o e.tokens \o Words(<<"DO">>), e, Words(<<"END">>), "other")
    \/ program' = Wrapped(Words(<<"FOR">>) \o Id(Callee) \o Words(<<"IN">>) \o e.tokens \o Words(<<"DO">>), e,
                          Words(<<"END">>), "other")

Define(f) ==
    program' = Wrapped(Words(<<"FUNCTION">>) \o Id(f) \o Words(<<"OPAR", "CPAR">>), NoExpression, Words(<<"END">>),
                       IF f = GamFn THEN "gam" ELSE "other")

DefineLocal(f) ==
    program' = Wrapped(Words(<<"LOCAL", "FUNCTION">>) \o Id(f) \o Words(<<"OPAR">>) \o Id(Callee) \o Words(<<"CPAR">>),
                       NoExpression, Words(<<"END">>), "other")

Write ==
    \/ /\ ~program.returned
       /\ \/ \E e \in Expressions :
                 \/ \E v \in Variables :
                        \/ Assign(v, e) \/ AssignElement(v, e) \/ DeclareLocal(v, e)
                        \/ \E w \in Variables : AssignTwo(v, w, e) \/ AssignField(v, w, e)
                 \/ Call(e)
                 \/ Return(e)
          \/ Comment
          \/ LabelAndGoto
          \/ Break
    \/ \E e \in Expressions : Enclose(e)
    \/ \E f \in {GamFn, Callee} : Define(f) \/ DefineLocal(f)

Next == Write /\ Len(program'.tokens) <= MaxTokens

Spec == Init /\ [][Next]_program

----------------------------------------------------------------------------

Ended(tokens) == Append(tokens, Token("ENDCODE", ""))

\* What parsing the tokens t should give, from how the program was written.
Meant(t, parsed) ==
    LET gam == {k \in DOMAIN program.tops : program.tops[k] = "gam"}
        bare == {k \in DOMAIN program.tops : program.tops[k] = "bare"}
        taken == program.uses \cup program.fields
        given == program.assigns \cup program.setFields IN
    IF program.tokens = << >> THEN ~parsed.ok
    ELSE
        /\ parsed.ok /\ parsed.bad = "no" /\ Len(parsed.subs) = 1
        /\ \A v \in Variables :
               /\ ValidateInputSignal(t, parsed.subs, v) = (v \in taken \ (given \cup program.locals))
               /\ ValidateOutputSignal(t, parsed.subs, v) = (v \in given \ program.locals)
        /\ CheckGam(t, parsed.subs) = IF \E k \in bare : \A m \in gam : k < m THEN "reads nothing"
                                      ELSE IF gam = {} THEN "no" ELSE "yes"
        /\ CheckOnlyGam(parsed.subs) = (Len(program.tops) = 1)

\* The parser takes a code for what it is and the verifier answers for every name,
\* at any depth and in any of the forms that an expression or a target has, what its
\* words mean: an input signal is used, an output signal assigned and neither is
\* declared local (generate_ast, Check, check_gam and check_only_gam). Two exceptions
\* are the code's: a field or method counts as a use of the variable of its name, and
\* a field that is assigned as an assignment of it, as AST.cpp:549 and :566 put its
\* name where that of a variable would be; and a `break' before GAM is read out of range.
VerdictsAreMeant == Meant(Ended(program.tokens), GenerateAst(Ended(program.tokens)))

\* A code that is cut short, or from which a word is missing, is accepted or
\* refused: no rule reads behind the end, and the parser loops only where a
\* block has lost the word that began it (generate_ast and block).
DamagedCodeEnds ==
    LET tokens == program.tokens IN
    /\ \A k \in 0..Len(tokens) : GenerateAst(Ended(SubSeq(tokens, 1, k))).bad = "no"
    /\ \A k \in DOMAIN tokens :
           LET bad == GenerateAst(Ended(SubSeq(tokens, 1, k - 1) \o SubSeq(tokens, k + 1, Len(tokens)))).bad IN
           bad # "no" => bad = "loop" /\ tokens[k].type \in {"DO", "FUNCTION", "REPEAT"}
=============================================================================
