-------------------------- MODULE MCOnChangeBroker --------------------------
(***************************************************************************)
(* Small instances of OnChangeBroker: two functions and two signals, the   *)
(* second of which may be an array.                                        *)
(***************************************************************************)
EXTENDS OnChangeBroker, TLC

CONSTANTS f1, f2, v1, v2

Scalars == <<0, 0>>
ScalarAndArray == <<0, 1>>
Widths == <<1, 2>>

First == [signal |-> 1, elements |-> 1]
Second == [signal |-> 2, elements |-> 1]
SecondOfTwo == [signal |-> 2, elements |-> 2]

(* A function may list the signals in either order or write only one.      *)
AnyOrder == f1 :> {<<First, Second>>, <<Second, First>>} @@
            f2 :> {<<First>>, <<Second>>}
OneFunction == f1 :> {<<First, Second>>, <<Second, First>>}
WithRanges == f1 :> {<<First, SecondOfTwo>>, <<First, Second, Second>>} @@
              f2 :> {<<First>>}
=============================================================================
