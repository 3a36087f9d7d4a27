-------------------------------- MODULE MCRc --------------------------------
(***************************************************************************)
(* The handles of Rc.h on small instances: those in variables, with the    *)
(* addresses that are used again (Rc), and those inside objects too        *)
(* (RcGraph). A behaviour is one of the module named by `part', and what   *)
(* is checked are the modules' own properties.                             *)
(***************************************************************************)
EXTENDS Rc, RcGraph

VARIABLE part

InitPart ==
    /\ part \in {"Rc", "RcGraph"}
    /\ Init /\ GraphInit

NextRc == CarefulNext /\ UNCHANGED <<part, memory>>

NextRcGraph == GraphNext /\ UNCHANGED <<part, vars>>

NextPart ==
    \/ part = "Rc" /\ NextRc
    \/ part = "RcGraph" /\ NextRcGraph

SpecPart == InitPart /\ [][NextPart]_<<part, vars, memory>>
=============================================================================
