------------------------------ MODULE MCLuaGAM ------------------------------
(***************************************************************************)
(* Small instances of LuaGAM.                                              *)
(***************************************************************************)
EXTENDS LuaGAM

Of(name, type, size) == [name |-> name, type |-> type, size |-> size]

MinusOne == -1

(* Minus one and a half, one and a half, two: of the first two only the    *)
(* integer part is a number of "int", of the second of "uint"; the last is *)
(* out of the range of both.                                               *)
SomeNumbers == {-3, 3, 4}

(* As if a float32 had no halves: to the even one.                         *)
Narrow == [v \in LuaNumbers |-> IF v % 2 = 0 THEN v ELSE IF v % 4 = 1 THEN v - 1 ELSE v + 1]

(* An array that may be out of the range of Lua, and a number that no      *)
(* memory gets to Lua; an array and a number without sign to be read.      *)
SomeInputs == <<Of("x", "int64", 2), Of("w", "uint64", 1)>>
SomeOutputs == <<Of("y", "int", 2), Of("z", "uint", 1)>>

(* The array is followed by nothing that would clear the stack.            *)
NoInputs == <<>>
OneArray == <<Of("y", "float64", 2)>>
=============================================================================
