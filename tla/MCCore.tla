------------------------------- MODULE MCCore -------------------------------
(***************************************************************************)
(* The types of Core on small instances: Vec, OptionResult and Str. They   *)
(* share nothing: a behaviour is one of the component named by `part', and *)
(* what is checked are the components' own properties.                     *)
(***************************************************************************)
EXTENDS Vec, OptionResult, Str, TLC

VARIABLE part

InitPart ==
    /\ part \in {"Vec", "OptionResult", "Str"}
    /\ Init /\ ContainerInit /\ StrInit

NextVec == Next /\ UNCHANGED <<part, containerVars, strVars>>

NextOptionResult == ContainerNext /\ UNCHANGED <<part, vars, strVars>>

NextStr == StrNext /\ UNCHANGED <<part, vars, containerVars>>

NextPart ==
    \/ part = "Vec" /\ NextVec
    \/ part = "OptionResult" /\ NextOptionResult
    \/ part = "Str" /\ NextStr

SpecPart == InitPart /\ [][NextPart]_<<part, vars, containerVars, strVars>>

Symmetry ==
    UNION {Permutations(S1): S1 \in {Vectors, Items, Options, Results, Values, Strings}}

\* The variables of the containers keep their types.
TypeOK == VecTypeOK /\ OptionResultTypeOK /\ StrTypeOK

\* What vectors and strings answer is what the list and the text would (see Vec and Str).
AllQueriesAgree == QueriesAgree /\ TextQueriesAgree
=============================================================================
