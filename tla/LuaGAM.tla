------------------------------- MODULE LuaGAM -------------------------------
(***************************************************************************)
(* LuaGAM: a GAM whose outputs are computed by the Lua function GAM().     *)
(*                                                                         *)
(* One thread calls Initialise, Setup and then Execute once for each       *)
(* cycle.  Execute assigns each input signal to the Lua variable of its    *)
(* name, calls GAM() and copies the variables of the output signals to     *)
(* their memory.  All this goes through the stack of the Lua state, which  *)
(* outlives the cycle: what one cycle leaves there, the next one finds.    *)
(*                                                                         *)
(* GAM() is any function: it may give any value to the output variables,   *)
(* in tables it makes anew, or raise an error.  The widths of the integers *)
(* are scaled down: Word stands for 2^64, LuaMax for 2^53 - 1, and "int"   *)
(* and "uint" for the types of up to 32 bits.  Lua's numbers, and signals  *)
(* of floating point, are counted in halves: 3 is one and a half.          *)
(***************************************************************************)
EXTENDS Integers, Sequences

CONSTANTS Inputs, Outputs,  \* sequences of signals
          Samples,          \* numbers that input signals may have
          Numbers, Flags,   \* numbers, and booleans as 0 and 1, that Lua variables may have
          Float32,          \* what a number becomes as a float32
          Low, High,        \* the range of "int"; "uint" ends at High
          LuaMax, Word,
          StackLimit        \* the slots after which no cycle begins

Types == {"float32", "float64", "int", "int64", "uint", "uint64", "bool"}

(* size is dimensions * elements; up to 1 the signal is not an array.      *)
Signal == [name : STRING, type : Types, size : Nat]

ASSUME SignalsAssumption ==
  /\ Inputs \in Seq(Signal) /\ Outputs \in Seq(Signal)
  /\ \A i, j \in DOMAIN Inputs : Inputs[i].name = Inputs[j].name => i = j
  /\ \A i, j \in DOMAIN Outputs : Outputs[i].name = Outputs[j].name => i = j

(* The numbers that Lua comes to have.                                     *)
LuaNumbers == Numbers \cup Samples \cup {2 * v : v \in Samples}

ASSUME NumbersAssumption ==
  /\ Samples \subseteq Int /\ Numbers \subseteq Int
  /\ Low \in Int /\ Low <= 0
  /\ High \in Nat /\ LuaMax \in Nat \ {0} /\ High <= LuaMax
  /\ Word \in Nat /\ 2 * LuaMax < Word
  /\ -LuaMax <= Low
  /\ \A v \in Numbers : -v < Word - LuaMax /\ v < Word
  /\ Flags \subseteq {0, 1}
  /\ Float32 \in [LuaNumbers -> Int]
  /\ StackLimit \in Nat

VARIABLES
  phase,     \* what the GAM does
  at, el,    \* the signal and the element it is at
  L,         \* whether there is a Lua state
  stack,     \* the stack of the Lua state
  globals,   \* the Lua variables of the signals
  inputs,    \* the memory of the input signals
  outputs,   \* the memory of the output signals
  named,     \* how many names of signals are copied; -1 without an array
  returned   \* how the last call of Execute ended

(* History variables, which no action reads.                               *)
VARIABLES
  clean,     \* whether the stack was empty when GAM() last returned
  newest     \* of each input, its newest value that Lua can be given

history == <<clean, newest>>

vars == <<phase, at, el, L, stack, globals, inputs, outputs, named, returned, clean, newest>>

-----------------------------------------------------------------------------
(* Lua values, and the stack.                                              *)

Num(v)     == [kind |-> "number", of |-> v, items |-> <<>>]
Bool(v)    == [kind |-> "boolean", of |-> v, items |-> <<>>]
Nil        == [kind |-> "nil", of |-> 0, items |-> <<>>]
Table(seq) == [kind |-> "table", of |-> 0, items |-> seq]

Scalars == {Num(v) : v \in Numbers} \cup {Bool(v) : v \in Flags} \cup {Nil}

Item(t, k) == IF k \in DOMAIN t.items THEN t.items[k] ELSE Nil

Elements(s) == IF s.size <= 1 THEN 1 ELSE s.size
IsArray(s)  == s.size > 1

(* The values GAM() may leave in the variable of an output.                *)
Results(s) ==
  Scalars \cup
  IF IsArray(s) THEN {Table(seq) : seq \in [1..s.size -> Scalars]} ELSE {}

Push(s, v) == Append(s, v)
Top(s) == s[Len(s)]

(* lua_settop: lua_pop(L, n) is SetTop(s, Len(s) - n) only for n >= 0;     *)
(* lua_pop(L, -1) is SetTop(s, 0) and lua_pop(L, -2) is SetTop(s, 1).      *)
SetTop(s, n) == [k \in 1..n |-> IF k <= Len(s) THEN s[k] ELSE Nil]

(* Faulty: the last number Lua can represent is rejected.                  *)
RejectedEarly(type, v) ==
  CASE type \in {"float32", "float64"} -> FALSE
    [] type = "bool"   -> v > 1
    [] type = "uint64" -> (v - LuaMax) % Word > 0 \/ (-v - LuaMax) % Word > 0
    [] OTHER           -> v >= LuaMax \/ -v >= LuaMax

(* Whether push_integer or push_boolean rejects a value.  The tests are    *)
(* made in the type of the signal: unsigned ones wrap around.              *)
Rejected(type, v) ==
  CASE type \in {"float32", "float64"} -> FALSE
    [] type = "bool"   -> v > 1
    [] type = "uint64" -> (v - LuaMax) % Word > 0 \/ (-v - LuaMax) % Word > 0
    [] OTHER           -> v > LuaMax \/ -v > LuaMax

LuaScalar(type, v) ==
  CASE type = "bool"                   -> Bool(v)
    [] type \in {"float32", "float64"} -> Num(v)
    [] OTHER                           -> Num(2 * v)

(* The variable a signal with memory m is pushed as.                       *)
LuaValue(s, m) ==
  IF IsArray(s) THEN Table([k \in 1..s.size |-> LuaScalar(s.type, m[k])])
  ELSE LuaScalar(s.type, m[1])

RejectedAt(s, m) == {k \in 1..Elements(s) : Rejected(s.type, m[k])}

(* lua_tointegerx drops the fraction of a number.                          *)
Truncated(v) == IF v >= 0 THEN v \div 2 ELSE -((-v) \div 2)

(* Faulty: the last number of the type is not accepted.                    *)
AcceptedBelow(type, v) ==
  LET n == Truncated(v.of) IN
  /\ v.kind = "number"
  /\ CASE type \in {"float32", "float64", "bool"} -> TRUE
       [] type = "int"    -> Low <= n /\ n < High
       [] type = "int64"  -> -LuaMax < n /\ n < LuaMax
       [] type = "uint"   -> n % Word < High
       [] type = "uint64" -> n % Word < LuaMax

(* Faulty: a negative number does not wrap around.                         *)
AcceptedSigned(type, v) ==
  LET n == Truncated(v.of) IN
  /\ v.kind = "number"
  /\ CASE type \in {"float32", "float64", "bool"} -> TRUE
       [] type = "int"    -> Low <= n /\ n <= High
       [] type = "int64"  -> -LuaMax <= n /\ n <= LuaMax
       [] type = "uint"   -> n <= High
       [] type = "uint64" -> n <= LuaMax

(* Whether a get function accepts a Lua value, and what it writes then.    *)
(* lua_isnumber does not hold of Lua's booleans, and lua_toboolean holds   *)
(* of every number.                                                        *)
Accepted(type, v) ==
  LET n == Truncated(v.of) IN
  /\ v.kind = "number"
  /\ CASE type \in {"float32", "float64", "bool"} -> TRUE
       [] type = "int"    -> Low <= n /\ n <= High
       [] type = "int64"  -> -LuaMax <= n /\ n <= LuaMax
       [] type = "uint"   -> n % Word <= High
       [] type = "uint64" -> n % Word <= LuaMax

Written(type, v) ==
  CASE type = "bool"    -> 1
    [] type = "float32" -> Float32[v.of]
    [] type = "float64" -> v.of
    [] OTHER            -> Truncated(v.of)

-----------------------------------------------------------------------------
(* Construction, Initialise, Setup and destruction.                        *)

Names == {Inputs[i].name : i \in DOMAIN Inputs}
         \cup {Outputs[o].name : o \in DOMAIN Outputs}

Zeros(signals) == [i \in DOMAIN signals |-> [k \in 1..Elements(signals[i]) |-> 0]]

Init ==
  /\ phase = "constructed"
  /\ at = 1 /\ el = 1
  /\ L = FALSE
  /\ stack = <<>>
  /\ globals = [n \in Names |-> Nil]
  /\ inputs = Zeros(Inputs) /\ outputs = Zeros(Outputs)
  /\ named = [inputs |-> -1, outputs |-> -1]
  /\ returned = "none"
  /\ clean = TRUE /\ newest = [i \in DOMAIN Inputs |-> Nil]

Memory == <<inputs, outputs>>

(* init_internals_states and init_auxiliaries, of a configuration that has *)
(* none, good or bad chunks, or one that cannot be read.  A good chunk     *)
(* returns no value.  The chunks run even when the code has failed and     *)
(* there is no Lua state.                                                  *)
Chunks == {"none", "good", "bad", "unreadable"}

InternalStates(state, chunks) ==
  CASE chunks = "none"                                   -> "ok"
    [] chunks = "unreadable"                             -> "failed"
    [] chunks \in {"good", "bad"} /\ ~state              -> "crashed"
    [] chunks = "good" /\ state                          -> "ok"
    [] chunks = "bad" /\ state                           -> "failed"

(* A function that cannot be read is run as well.                          *)
AuxiliaryFunctions(state, chunks) ==
  CASE chunks = "none"                -> "ok"
    [] chunks # "none" /\ ~state      -> "crashed"
    [] chunks = "good" /\ state       -> "ok"
    [] chunks \in {"bad", "unreadable"} /\ state -> "failed"

(* coded: there is Code, in a file that can be read or in the parameter;   *)
(* right: it runs, defines GAM() and can be parsed.                        *)
Initialise(coded, right, internals, auxiliaries) ==
  /\ phase = "constructed"
  /\ L' = coded
  /\ LET outcomes == {InternalStates(coded, internals),
                      AuxiliaryFunctions(coded, auxiliaries)}
     IN phase' = IF "crashed" \in outcomes THEN "crashed"
                 ELSE IF coded /\ right /\ outcomes = {"ok"} THEN "initialised"
                 ELSE "failed"
  /\ UNCHANGED <<at, el, stack, globals, Memory, named, returned, history>>

SameName == \E i \in DOMAIN Inputs, o \in DOMAIN Outputs :
              Inputs[i].name = Outputs[o].name

(* Faulty: the names are counted from one.                                 *)
SetupBeginAtOne(valid) ==
  /\ phase = "initialised"
  /\ IF valid /\ ~SameName
     THEN phase' = "set inputs" /\ named' = [named EXCEPT !.inputs = 1]
     ELSE phase' = "failed" /\ UNCHANGED named
  /\ at' = 1
  /\ UNCHANGED <<el, L, stack, globals, Memory, returned, history>>

(* valid: the code consists of the function GAM().                         *)
SetupBegin(valid) ==
  /\ phase = "initialised"
  /\ IF valid /\ ~SameName
     THEN phase' = "set inputs" /\ named' = [named EXCEPT !.inputs = 0]
     ELSE phase' = "failed" /\ UNCHANGED named
  /\ at' = 1
  /\ UNCHANGED <<el, L, stack, globals, Memory, returned, history>>

(* good: the type of the signal is supported and the code uses it as it    *)
(* may.                                                                    *)
SetupInput(good) ==
  /\ phase = "set inputs" /\ at <= Len(Inputs)
  /\ named' = [named EXCEPT !.inputs = @ + 1]
  /\ phase' = IF good THEN phase ELSE "failed"
  /\ at' = at + 1
  /\ UNCHANGED <<el, L, stack, globals, Memory, returned, history>>

SetupInputsEnd ==
  /\ phase = "set inputs" /\ at > Len(Inputs)
  /\ phase' = "set outputs"
  /\ named' = [named EXCEPT !.outputs = 0]
  /\ at' = 1
  /\ UNCHANGED <<el, L, stack, globals, Memory, returned, history>>

(* The variable of an output starts as its memory.                         *)
AddOutput(s, m) == globals' = [globals EXCEPT ![s.name] = LuaValue(s, m)]

SetupOutput(good) ==
  /\ phase = "set outputs" /\ at <= Len(Outputs)
  /\ named' = [named EXCEPT !.outputs = @ + 1]
  /\ AddOutput(Outputs[at], outputs[at])
  /\ phase' = IF good THEN phase ELSE "failed"
  /\ at' = at + 1
  /\ UNCHANGED <<el, L, stack, Memory, returned, history>>

SetupEnd ==
  /\ phase = "set outputs" /\ at > Len(Outputs)
  /\ phase' = "idle"
  /\ UNCHANGED <<at, el, L, stack, globals, Memory, named, returned, history>>

(* The destructor deletes the copies of all the names, once there is an    *)
(* array for them.                                                         *)
Destroy ==
  /\ phase \in {"constructed", "initialised", "failed", "idle"}
  /\ phase' = IF \/ named.inputs \in 0..(Len(Inputs) - 1)
                 \/ named.outputs \in 0..(Len(Outputs) - 1)
              THEN "crashed" ELSE "deleted"
  /\ L' = FALSE
  /\ UNCHANGED <<at, el, stack, globals, Memory, named, returned, history>>

-----------------------------------------------------------------------------
(* Execute.                                                                *)

(* What Lua can be given: of integers those it can represent, but nothing  *)
(* of 64 bits without sign.                                                *)
CanBeGiven(s, m) ==
  \A k \in 1..Elements(s) :
    CASE s.type \in {"float32", "float64"} -> TRUE
      [] s.type = "bool"   -> m[k] \in {0, 1}
      [] s.type = "uint64" -> FALSE
      [] OTHER             -> m[k] \in -LuaMax..LuaMax

(* The brokers have put a memory m into the input signals.                 *)
Execute(m) ==
  /\ phase = "idle" /\ Len(stack) <= StackLimit
  /\ inputs' = m
  /\ newest' = [i \in DOMAIN Inputs |->
                  IF CanBeGiven(Inputs[i], m[i]) THEN LuaValue(Inputs[i], m[i]) ELSE newest[i]]
  /\ phase' = "push" /\ at' = 1
  /\ returned' = "none"
  /\ UNCHANGED <<el, L, stack, globals, outputs, named, clean>>

(* A push function: the variable is assigned when the signal is in range;  *)
(* an array that is not leaves its table on the stack.  Execute goes on    *)
(* either way.                                                             *)
PushInput ==
  /\ phase = "push" /\ at <= Len(Inputs)
  /\ LET s == Inputs[at]
         m == inputs[at]
         bad == RejectedAt(s, m)
         before == {k \in 1..Elements(s) : \A j \in bad : k < j}
     IN IF bad = {}
        THEN /\ globals' = [globals EXCEPT ![s.name] = LuaValue(s, m)]
             /\ UNCHANGED stack
        ELSE /\ stack' = IF ~IsArray(s) THEN stack
                         ELSE Push(stack, Table([k \in before |-> LuaScalar(s.type, m[k])]))
             /\ UNCHANGED globals
  /\ at' = at + 1
  /\ UNCHANGED <<phase, el, L, inputs, outputs, named, returned, history>>

(* GAM() returns, the variables of the outputs having the values new.      *)
Assigned(new) ==
  globals' = [n \in Names |->
                IF \E o \in DOMAIN Outputs : Outputs[o].name = n
                THEN new[CHOOSE o \in DOMAIN Outputs : Outputs[o].name = n]
                ELSE globals[n]]

Call(new) ==
  /\ phase = "push" /\ at > Len(Inputs)
  /\ Assigned(new)
  /\ phase' = "get" /\ at' = 1
  /\ clean' = (stack = <<>>)
  /\ UNCHANGED <<el, L, stack, inputs, outputs, named, returned, newest>>

(* Faulty: the message of an error is left on the stack.                   *)
CallFailsQuietly(new) ==
  /\ phase = "push" /\ at > Len(Inputs)
  /\ Assigned(new)
  /\ stack' = Push(stack, Nil)
  /\ phase' = "idle" /\ returned' = "error"
  /\ UNCHANGED <<at, el, L, inputs, outputs, named, history>>

(* GAM() raises an error.                                                  *)
CallFails(new) ==
  /\ phase = "push" /\ at > Len(Inputs)
  /\ Assigned(new)
  /\ stack' = SetTop(Push(stack, Nil), 0)
  /\ phase' = "idle" /\ returned' = "error"
  /\ UNCHANGED <<at, el, L, inputs, outputs, named, history>>

Fail == phase' = "idle" /\ returned' = "false" /\ UNCHANGED <<at, el>>

(* A get function of an output that is not an array.                       *)
GetScalar ==
  /\ phase = "get" /\ at <= Len(Outputs)
  /\ LET s == Outputs[at]
         v == globals[s.name]
     IN /\ ~IsArray(s)
        /\ stack' = SetTop(Push(stack, v), 0)
        /\ IF Accepted(s.type, v)
           THEN /\ outputs' = [outputs EXCEPT ![at][1] = Written(s.type, v)]
                /\ at' = at + 1
                /\ UNCHANGED <<phase, el, returned>>
           ELSE /\ outputs' = IF s.type \in {"float32", "float64"}
                              THEN [outputs EXCEPT ![at][1] = 0] ELSE outputs
                /\ Fail
  /\ UNCHANGED <<L, globals, inputs, named, history>>

(* A get function of an array begins: its table is on top of the stack.    *)
GetTable ==
  /\ phase = "get" /\ at <= Len(Outputs)
  /\ LET s == Outputs[at]
         v == globals[s.name]
     IN /\ IsArray(s)
        /\ IF v.kind = "table"
           THEN /\ stack' = Push(stack, v)
                /\ phase' = "element" /\ el' = 1
                /\ UNCHANGED <<at, returned>>
           ELSE /\ stack' = SetTop(Push(stack, v), 0)
                /\ Fail
  /\ UNCHANGED <<L, globals, inputs, outputs, named, history>>

(* Faulty: the loop pops its table with the element.                       *)
AfterElementNothing(s, type) == SetTop(s, 0)

(* What the loop leaves on the stack after an element.                     *)
AfterElement(s, type) == SetTop(s, IF type \in {"uint", "uint64"} THEN 0 ELSE 1)

(* An element: it is read from what is on top of the stack.                *)
GetElement ==
  /\ phase = "element" /\ el <= Outputs[at].size
  /\ LET s == Outputs[at]
     IN IF stack = <<>> \/ Top(stack).kind # "table"
        THEN /\ phase' = "crashed"
             /\ UNCHANGED <<at, el, stack, outputs, returned>>
        ELSE LET v == Item(Top(stack), el)
                 read == Push(stack, v)
             IN IF Accepted(s.type, v)
                THEN /\ outputs' = [outputs EXCEPT ![at][el] = Written(s.type, v)]
                     /\ stack' = AfterElement(read, s.type)
                     /\ el' = el + 1
                     /\ UNCHANGED <<phase, at, returned>>
                ELSE /\ outputs' = IF s.type \in {"float32", "float64"}
                                   THEN [outputs EXCEPT ![at][el] = 0] ELSE outputs
                     /\ stack' = IF v.kind = "number" THEN SetTop(read, 0) ELSE read
                     /\ Fail
  /\ UNCHANGED <<L, globals, inputs, named, history>>

GetTableEnd ==
  /\ phase = "element" /\ el > Outputs[at].size
  /\ stack' = SetTop(stack, 0)
  /\ phase' = "get" /\ at' = at + 1
  /\ UNCHANGED <<el, L, globals, Memory, named, returned, history>>

Return ==
  /\ phase = "get" /\ at > Len(Outputs)
  /\ phase' = "idle" /\ returned' = "true"
  /\ UNCHANGED <<at, el, L, stack, globals, Memory, named, history>>

-----------------------------------------------------------------------------
(* The environment: configurations, brokers and GAM functions.             *)

InputMemory == {m \in [DOMAIN Inputs -> UNION {[1..Elements(Inputs[i]) -> Samples] :
                                                  i \in DOMAIN Inputs}] :
                  \A i \in DOMAIN Inputs :
                    /\ DOMAIN m[i] = 1..Elements(Inputs[i])
                    /\ \A k \in DOMAIN m[i] :
                         /\ Inputs[i].type = "uint" => m[i][k] \in 0..High
                         /\ Inputs[i].type = "int" => m[i][k] \in Low..High
                         /\ Inputs[i].type = "bool" => m[i][k] >= 0
                         /\ Inputs[i].type = "uint64" => m[i][k] \in 0..(Word - 1)}

NewVariables == {new \in [DOMAIN Outputs -> UNION {Results(Outputs[o]) :
                                                     o \in DOMAIN Outputs}] :
                   \A o \in DOMAIN Outputs : new[o] \in Results(Outputs[o])}

Steps ==
  \/ SetupInputsEnd \/ SetupEnd \/ Destroy
  \/ PushInput \/ GetScalar \/ GetTable \/ GetElement \/ GetTableEnd \/ Return

Next ==
  \/ \E coded, right \in BOOLEAN, internals, auxiliaries \in Chunks :
       Initialise(coded, right, internals, auxiliaries)
  \/ \E valid \in BOOLEAN : SetupBegin(valid)
  \/ \E good \in BOOLEAN : SetupInput(good) \/ SetupOutput(good)
  \/ \E m \in InputMemory : Execute(m)
  \/ \E new \in NewVariables : Call(new) \/ CallFails(new)
  \/ Steps

Spec == Init /\ [][Next]_vars

-----------------------------------------------------------------------------
(* Properties.                                                             *)

Phases == {"constructed", "initialised", "set inputs", "set outputs", "failed",
           "idle", "push", "get", "element", "crashed", "deleted"}

(* Every variable has its type.                                            *)
TypeOK ==
  /\ phase \in Phases
  /\ at \in Nat /\ el \in Nat
  /\ L \in BOOLEAN
  /\ DOMAIN globals = Names
  /\ \A i \in DOMAIN Inputs : inputs[i] \in [1..Elements(Inputs[i]) -> Int]
  /\ \A o \in DOMAIN Outputs : outputs[o] \in [1..Elements(Outputs[o]) -> Int]
  /\ named.inputs \in -1..Len(Inputs) /\ named.outputs \in -1..Len(Outputs)
  /\ returned \in {"none", "true", "false", "error"}
  /\ clean \in BOOLEAN /\ DOMAIN newest = DOMAIN Inputs

(* Nothing is used that is not there, but in three cases: chunks are run   *)
(* where there is no Lua state, names are deleted that were never copied,  *)
(* and the second element of an array without sign is looked for on a      *)
(* stack that the first one has emptied.                                   *)
CrashesAreKnown ==
  phase = "crashed" =>
    \/ ~L /\ named.inputs = -1
    \/ ~L /\ (named.inputs \in 0..(Len(Inputs) - 1) \/ named.outputs \in 0..(Len(Outputs) - 1))
    \/ L /\ el > 1 /\ IsArray(Outputs[at]) /\ Outputs[at].type \in {"uint", "uint64"}

(* A cycle finds the stack empty, as the first one did, unless one before  *)
(* it has ended at an element that is no number, which is on top then, the *)
(* table it was read from below it, or no output is there to be read and   *)
(* to clear the stack of an array of inputs that was refused.              *)
StackIsEmpty ==
  phase = "idle" /\ stack # <<>> =>
    \/ /\ returned = "false" /\ IsArray(Outputs[at])
       /\ Len(stack) > 1 /\ Top(stack).kind # "number" /\ stack[Len(stack) - 1].kind = "table"
    \/ Outputs = <<>> /\ \E i \in DOMAIN Inputs : IsArray(Inputs[i])

(* When GAM() is called, the variable of an input has the value that the   *)
(* signal has, or else the newest one it had that Lua could be given, all  *)
(* elements of it from the same cycle.                                     *)
InputsReachTheCode ==
  phase = "push" /\ at > Len(Inputs) =>
    \A i \in DOMAIN Inputs : globals[Inputs[i].name] = newest[i]

ElementOf(s, v, k) == IF IsArray(s) THEN Item(v, k) ELSE v

(* Whether the integer n is the number v without its fraction.             *)
WithoutFraction(n, v) ==
  \/ 0 <= n /\ 2 * n <= v /\ v < 2 * n + 2
  \/ n <= 0 /\ v <= 2 * n /\ 2 * n - 2 < v

RangeOf(type) ==
  CASE type = "int"    -> Low..High
    [] type = "int64"  -> -LuaMax..LuaMax
    [] type = "uint"   -> 0..High
    [] type = "uint64" -> 0..LuaMax

(* Whether memory n has the Lua value v: a number that the type has, less  *)
(* its fraction in an integer and narrowed in a float32.  In a bool the    *)
(* code takes any number for true.                                         *)
Follows(type, n, v) ==
  /\ v.kind = "number"
  /\ CASE type = "bool"    -> n = 1
       [] type = "float32" -> n = Float32[v.of]
       [] type = "float64" -> n = v.of
       [] OTHER            -> n \in RangeOf(type) /\ WithoutFraction(n, v.of)

(* When Execute returns true, the memory of every output follows its       *)
(* variable, element by element.                                           *)
OutputsFollowVariables ==
  returned = "true" =>
    \A o \in DOMAIN Outputs : \A k \in 1..Elements(Outputs[o]) :
      Follows(Outputs[o].type, outputs[o][k], ElementOf(Outputs[o], globals[Outputs[o].name], k))

(* The same, but for the later elements of the first output in a cycle     *)
(* that found something on the stack or pushed an array out of range: the  *)
(* first one clears the stack for all that follow.                         *)
OutputsFollowUnlessStale ==
  returned = "true" =>
    \A o \in DOMAIN Outputs : \A k \in 1..Elements(Outputs[o]) :
      clean \/ o > 1 \/ k = 1 =>
        Follows(Outputs[o].type, outputs[o][k], ElementOf(Outputs[o], globals[Outputs[o].name], k))

(* Whether a Lua value is one of a type.                                   *)
ValidScalar(type, v) ==
  IF v.kind = "boolean" THEN type = "bool"
  ELSE /\ v.kind = "number"
       /\ CASE type = "bool" -> v.of \in {0, 2}
            [] type \in {"float32", "float64"} -> TRUE
            [] OTHER -> \E n \in RangeOf(type) : WithoutFraction(n, v.of)

(* Execute returns false because of an output only if it has an element    *)
(* that is not of its type, or a Lua boolean, which the code refuses; or   *)
(* its elements are not looked for in its own table, as above.             *)
ValidOutputsAreRead ==
  returned = "false" =>
    \/ \E k \in 1..Elements(Outputs[at]) :
         LET v == ElementOf(Outputs[at], globals[Outputs[at].name], k)
         IN ~ValidScalar(Outputs[at].type, v) \/ v.kind = "boolean"
    \/ at = 1 /\ IsArray(Outputs[at]) /\ el > 1 /\ ~clean
=============================================================================
