---------------------------- MODULE LuaGAM_proofs ----------------------------
(***************************************************************************)
(* Proofs about LuaGAM, for any signals, any numbers and any functions.    *)
(***************************************************************************)
EXTENDS LuaGAM, TLAPS

-----------------------------------------------------------------------------
(* Signals and their memory.                                               *)

IsMemory(signals, m) ==
  /\ m = [i \in DOMAIN signals |-> m[i]]
  /\ \A i \in DOMAIN signals : m[i] \in [1..Elements(signals[i]) -> Int]

LEMMA InputIsSignal ==
  ASSUME NEW i \in DOMAIN Inputs
  PROVE  /\ Inputs[i].name \in Names /\ Inputs[i].type \in Types
         /\ Inputs[i].size \in Nat /\ Elements(Inputs[i]) \in Nat \ {0}
<1>1. Inputs[i] \in Signal
  BY SignalsAssumption DEF SignalsAssumption
<1>2. Inputs[i].type \in Types /\ Inputs[i].size \in Nat
  BY <1>1 DEF Signal
<1> QED
  BY <1>2 DEF Names, Elements

LEMMA OutputIsSignal ==
  ASSUME NEW o \in DOMAIN Outputs
  PROVE  /\ Outputs[o].name \in Names /\ Outputs[o].type \in Types
         /\ Outputs[o].size \in Nat /\ Elements(Outputs[o]) \in Nat \ {0}
<1>1. Outputs[o] \in Signal
  BY SignalsAssumption DEF SignalsAssumption
<1>2. Outputs[o].type \in Types /\ Outputs[o].size \in Nat
  BY <1>1 DEF Signal
<1> QED
  BY <1>2 DEF Names, Elements

LEMMA Lengths ==
  /\ Len(Inputs) \in Nat /\ DOMAIN Inputs = 1..Len(Inputs)
  /\ Len(Outputs) \in Nat /\ DOMAIN Outputs = 1..Len(Outputs)
BY SignalsAssumption DEF SignalsAssumption

LEMMA ZerosAreMemory == ASSUME NEW signals PROVE IsMemory(signals, Zeros(signals))
BY DEF IsMemory, Zeros

LEMMA InputMemoryIsMemory ==
  ASSUME NEW m \in InputMemory
  PROVE  /\ IsMemory(Inputs, m)
         /\ \A i \in DOMAIN Inputs : \A k \in 1..Elements(Inputs[i]) : m[i][k] \in Samples
<1>1. m = [i \in DOMAIN Inputs |-> m[i]]
  BY DEF InputMemory
<1>2. ASSUME NEW i \in DOMAIN Inputs
      PROVE  m[i] \in [1..Elements(Inputs[i]) -> Samples]
  <2>1. PICK j \in DOMAIN Inputs : m[i] \in [1..Elements(Inputs[j]) -> Samples]
    BY DEF InputMemory
  <2>2. DOMAIN m[i] = 1..Elements(Inputs[i])
    BY DEF InputMemory
  <2> QED
    BY <2>1, <2>2
<1>3. Samples \subseteq Int
  BY NumbersAssumption DEF NumbersAssumption
<1> QED
  BY <1>1, <1>2, <1>3 DEF IsMemory

(* A write into an element changes it and nothing else.                    *)
LEMMA WriteElement ==
  ASSUME NEW m, IsMemory(Outputs, m), NEW o \in DOMAIN Outputs,
         NEW k \in 1..Elements(Outputs[o]), NEW v \in Int
  PROVE  /\ IsMemory(Outputs, [m EXCEPT ![o][k] = v])
         /\ [m EXCEPT ![o][k] = v][o][k] = v
         /\ \A p \in DOMAIN Outputs \ {o} : [m EXCEPT ![o][k] = v][p] = m[p]
         /\ \A l \in 1..Elements(Outputs[o]) \ {k} :
              [m EXCEPT ![o][k] = v][o][l] = m[o][l]
BY DEF IsMemory

-----------------------------------------------------------------------------
(* The stack.                                                              *)

IsStack(s) == Len(s) \in Nat /\ s = [k \in 1..Len(s) |-> s[k]]

LEMMA SetTopZero == ASSUME NEW s PROVE SetTop(s, 0) = <<>>
BY DEF SetTop

LEMMA EmptyIsStack == IsStack(<<>>) /\ Len(<<>>) = 0
<1>1. Len(<<>>) = 0 /\ <<>> = [k \in 1..0 |-> <<>>[k]]
  OBVIOUS
<1> QED
  BY <1>1 DEF IsStack

LEMMA StackIsSequence ==
  ASSUME NEW s, IsStack(s), NEW v
  PROVE  s \in Seq({s[k] : k \in 1..Len(s)} \cup {v})
<1> DEFINE S == {s[k] : k \in 1..Len(s)} \cup {v}
           n == Len(s)
<1>1. n \in Nat /\ s \in [1..n -> S]
  BY DEF IsStack
<1> HIDE DEF n, S
<1>2. s \in Seq(S)
  BY <1>1
<1> QED
  BY <1>2 DEF S

LEMMA PushOnStack ==
  ASSUME NEW s, IsStack(s), NEW v
  PROVE  /\ IsStack(Push(s, v)) /\ Len(Push(s, v)) = Len(s) + 1
         /\ \A k \in 1..Len(s) : Push(s, v)[k] = s[k]
         /\ Push(s, v)[Len(s) + 1] = v /\ Top(Push(s, v)) = v /\ Push(s, v) # <<>>
<1> DEFINE S == {s[k] : k \in 1..Len(s)} \cup {v}
<1>1. s \in Seq(S) /\ v \in S
  BY StackIsSequence
<1> HIDE DEF S
<1>2. /\ Append(s, v) \in Seq(S) /\ Len(Append(s, v)) = Len(s) + 1 /\ Len(s) \in Nat
      /\ \A k \in 1..Len(s) : Append(s, v)[k] = s[k]
      /\ Append(s, v)[Len(s) + 1] = v
  BY <1>1
<1>3. IsStack(Append(s, v))
  <2> DEFINE a == Append(s, v)
             n == Len(a)
  <2>1. a \in Seq(S) /\ n \in Nat
    BY <1>2
  <2>2. a \in [1..n -> S]
    <3> HIDE DEF a
    <3> QED
      BY <2>1
  <2>3. a = [k \in 1..n |-> a[k]]
    <3> HIDE DEF a, n
    <3> QED
      BY <2>2
  <2> QED
    BY <2>1, <2>3 DEF IsStack
<1>4. Append(s, v) # <<>>
  BY <1>2
<1> QED
  BY <1>2, <1>3, <1>4 DEF Push, Top

(* What lua_pop(L, -2) leaves.                                             *)
LEMMA SetTopOne ==
  ASSUME NEW s, IsStack(s), Len(s) >= 1
  PROVE  SetTop(s, 1) = <<s[1]>>
<1>1. SetTop(s, 1) = [k \in 1..1 |-> s[1]]
  BY DEF SetTop, IsStack
<1>2. <<s[1]>> = [k \in 1..1 |-> s[1]]
  OBVIOUS
<1> QED
  BY <1>1, <1>2

LEMMA OneIsStack ==
  ASSUME NEW t
  PROVE  /\ IsStack(<<t>>) /\ Len(<<t>>) = 1 /\ <<t>>[1] = t /\ Top(<<t>>) = t /\ <<t>> # <<>>
<1>1. Len(<<t>>) = 1 /\ <<t>>[1] = t /\ <<t>> = [k \in 1..1 |-> <<t>>[k]] /\ <<t>> # <<>>
  OBVIOUS
<1> QED
  BY <1>1 DEF IsStack, Top

LEMMA NotEmpty ==
  ASSUME NEW s, IsStack(s), s # <<>>
  PROVE  Len(s) \in Nat \ {0}
<1>1. ASSUME Len(s) = 0 PROVE s = <<>>
  <2>1. s = [k \in 1..0 |-> s[k]]
    BY <1>1 DEF IsStack
  <2>2. 1..0 = {}
    OBVIOUS
  <2>3. s = [k \in {} |-> s[k]]
    BY <2>1, <2>2
  <2> HIDE DEF IsStack
  <2> QED
    BY <2>3
<1> QED
  BY <1>1 DEF IsStack

-----------------------------------------------------------------------------
(* What the push and get functions accept.                                 *)

LuaScalars == {Num(v) : v \in LuaNumbers} \cup {Bool(v) : v \in Int} \cup {Nil}

IsTable(t) == t.kind = "table" /\ \A k \in Nat : Item(t, k) \in LuaScalars

LEMMA NumbersAreInt ==
  LuaNumbers \subseteq Int /\ Numbers \subseteq LuaNumbers /\ Samples \subseteq LuaNumbers
<1>1. Samples \subseteq Int /\ Numbers \subseteq Int
  BY NumbersAssumption DEF NumbersAssumption
<1>2. {2 * v : v \in Samples} \subseteq Int
  <2>1. ASSUME NEW v \in Samples PROVE 2 * v \in Int
    BY <1>1
  <2> QED
    BY <2>1
<1> QED
  BY <1>1, <1>2 DEF LuaNumbers

LEMMA ScalarsAreLua == Scalars \subseteq LuaScalars
BY NumbersAssumption, NumbersAreInt DEF NumbersAssumption, Scalars, LuaScalars

LEMMA TruncatedIsInt ==
  ASSUME NEW v \in Int
  PROVE  /\ Truncated(v) \in Int /\ WithoutFraction(Truncated(v), v)
         /\ \A n \in Int : WithoutFraction(n, v) => n = Truncated(v)
         /\ Truncated(v) <= v \/ v < 0
         /\ v >= 0 => Truncated(v) \in 0..v
         /\ v < 0 => Truncated(v) \in v..0
BY DEF Truncated, WithoutFraction

(* Unsigned types wrap around, which no number Lua has makes valid.        *)
LEMMA WrapAround ==
  ASSUME NEW n \in Int, -n < Word - LuaMax, n < Word, NEW high \in Nat, high <= LuaMax
  PROVE  n % Word <= high <=> n \in 0..high
<1>1. Word \in Nat \ {0} /\ LuaMax \in Nat
  BY NumbersAssumption DEF NumbersAssumption
<1>2. CASE n >= 0
  <2>1. n % Word = n
    BY <1>1, <1>2
  <2> QED BY <2>1, <1>1, <1>2
<1>3. CASE n < 0
  <2>1. n % Word = n + Word
    BY <1>1, <1>3
  <2> QED BY <2>1, <1>1, <1>3
<1> QED BY <1>1, <1>2, <1>3

(* What is written is a number.                                            *)
LEMMA WrittenIsInt ==
  ASSUME NEW type \in Types, NEW v \in LuaScalars, v.kind = "number"
  PROVE  Written(type, v) \in Int
<1>1. v.of \in LuaNumbers
  BY DEF LuaScalars, Num, Bool, Nil
<1>2. v.of \in Int /\ Float32[v.of] \in Int
  BY <1>1, NumbersAreInt, NumbersAssumption DEF NumbersAssumption
<1>3. Truncated(v.of) \in Int
  BY <1>2, TruncatedIsInt
<1> QED
  BY <1>2, <1>3 DEF Written

(* Of a value that GAM() gave: what is accepted is written as it should    *)
(* be, and what is not is not of the type.                                 *)
LEMMA AcceptedFollows ==
  ASSUME NEW type \in Types, NEW v \in Scalars
  PROVE  /\ Accepted(type, v) => Follows(type, Written(type, v), v)
         /\ ~Accepted(type, v) => ~ValidScalar(type, v) \/ v.kind = "boolean"
<1>1. v.kind = "number" => v.of \in Numbers
  BY DEF Scalars, Num, Bool, Nil
<1>2. CASE v.kind # "number"
  BY <1>2 DEF Accepted, ValidScalar
<1>3. CASE v.kind = "number" /\ type \in {"float32", "float64", "bool"}
  BY <1>3 DEF Accepted, Follows, Written
<1>4. CASE v.kind = "number" /\ type \in {"int", "int64", "uint", "uint64"}
  <2> DEFINE n == Truncated(v.of)
  <2>1. v.of \in Int /\ -v.of < Word - LuaMax /\ v.of < Word
    BY <1>1, <1>4, NumbersAssumption DEF NumbersAssumption
  <2>2. /\ n \in Int /\ WithoutFraction(n, v.of)
        /\ \A m \in Int : WithoutFraction(m, v.of) => m = n
        /\ v.of >= 0 => n \in 0..v.of
        /\ v.of < 0 => n \in v.of..0
    BY <2>1, TruncatedIsInt
  <2>3. /\ High \in Nat /\ LuaMax \in Nat /\ High <= LuaMax /\ Low \in Int
        /\ Word \in Nat /\ LuaMax < Word
    BY NumbersAssumption DEF NumbersAssumption
  <2>4. -n < Word - LuaMax /\ n < Word
    BY <2>1, <2>2, <2>3
  <2>5. (n % Word <= High <=> n \in 0..High) /\ (n % Word <= LuaMax <=> n \in 0..LuaMax)
    BY <2>2, <2>3, <2>4, WrapAround
  <2>6. Accepted(type, v) <=> n \in RangeOf(type)
    <3>1. CASE type = "int"
      BY <1>4, <2>2, <2>3, <3>1 DEF Accepted, RangeOf
    <3>2. CASE type = "int64"
      BY <1>4, <2>2, <2>3, <3>2 DEF Accepted, RangeOf
    <3>3. CASE type = "uint"
      BY <1>4, <2>5, <3>3 DEF Accepted, RangeOf
    <3>4. CASE type = "uint64"
      BY <1>4, <2>5, <3>4 DEF Accepted, RangeOf
    <3> QED
      BY <1>4, <3>1, <3>2, <3>3, <3>4
  <2>7. Written(type, v) = n
    BY <1>4 DEF Written
  <2>8. Accepted(type, v) => Follows(type, Written(type, v), v)
    BY <1>4, <2>2, <2>6, <2>7 DEF Follows
  <2>9. RangeOf(type) \subseteq Int
    BY <1>4, <2>3 DEF RangeOf
  <2>10. ~Accepted(type, v) => ~ValidScalar(type, v)
    <3>1. ValidScalar(type, v) <=> \E m \in RangeOf(type) : WithoutFraction(m, v.of)
      BY <1>4 DEF ValidScalar
    <3> QED
      BY <2>2, <2>6, <2>9, <3>1
  <2> QED
    BY <2>8, <2>10
<1> QED
  BY <1>2, <1>3, <1>4 DEF Types

GivenScalar(type, v) ==
  CASE type \in {"float32", "float64"} -> TRUE
    [] type = "bool"   -> v \in {0, 1}
    [] type = "uint64" -> FALSE
    [] OTHER           -> v \in -LuaMax..LuaMax

LEMMA RejectedOrGivenScalar ==
  ASSUME NEW type \in Types, NEW v \in Int, type = "bool" => v >= 0,
         type = "uint64" => v \in 0..(Word - 1)
  PROVE  ~Rejected(type, v) <=> GivenScalar(type, v)
<1>1. /\ LuaMax \in Nat \ {0} /\ Word \in Nat /\ 2 * LuaMax < Word
  BY NumbersAssumption DEF NumbersAssumption
<1>2. CASE type \in {"float32", "float64"}
  BY <1>2 DEF Rejected, GivenScalar
<1>3. CASE type = "bool"
  BY <1>3 DEF Rejected, GivenScalar
<1>4. CASE type = "uint64"
  <2> DEFINE above == (v - LuaMax) % Word
             below == (-v - LuaMax) % Word
  <2>1. v < LuaMax => above = v - LuaMax + Word
    BY <1>1, <1>4
  <2>2. v >= LuaMax => above = v - LuaMax
    BY <1>1, <1>4
  <2>3. v = LuaMax => below = Word - 2 * LuaMax
    BY <1>1, <1>4
  <2>4. above > 0 \/ below > 0
    <3> HIDE DEF above, below
    <3> QED
      BY <1>1, <1>4, <2>1, <2>2, <2>3
  <2> QED
    BY <1>4, <2>4 DEF Rejected, GivenScalar
<1>5. CASE type \in {"int", "int64", "uint"}
  BY <1>1, <1>5 DEF Rejected, GivenScalar
<1> QED
  BY <1>2, <1>3, <1>4, <1>5 DEF Types

(* A memory is pushed whole just when Lua can be given it.                 *)
LEMMA RejectedOrGiven ==
  ASSUME NEW m \in InputMemory, NEW i \in DOMAIN Inputs
  PROVE  RejectedAt(Inputs[i], m[i]) = {} <=> CanBeGiven(Inputs[i], m[i])
<1> DEFINE s == Inputs[i]
<1>1. s.type \in Types
  BY InputIsSignal
<1>2. ASSUME NEW k \in 1..Elements(s)
      PROVE  ~Rejected(s.type, m[i][k]) <=> GivenScalar(s.type, m[i][k])
  <2>1. m[i][k] \in Int
    BY InputMemoryIsMemory DEF IsMemory
  <2>2. k \in DOMAIN m[i]
    BY DEF InputMemory
  <2>3. /\ s.type = "bool" => m[i][k] >= 0
        /\ s.type = "uint64" => m[i][k] \in 0..(Word - 1)
    BY <2>2 DEF InputMemory
  <2> QED
    BY ONLY <1>1, <2>1, <2>3, RejectedOrGivenScalar
<1>3. CanBeGiven(s, m[i]) <=> \A k \in 1..Elements(s) : GivenScalar(s.type, m[i][k])
  BY DEF CanBeGiven, GivenScalar
<1>4. RejectedAt(s, m[i]) = {} <=> \A k \in 1..Elements(s) : ~Rejected(s.type, m[i][k])
  BY DEF RejectedAt
<1> QED
  BY <1>2, <1>3, <1>4

(* What a refused array leaves on the stack, and what GAM() gives.         *)
LEMMA RefusedIsTable ==
  ASSUME NEW m \in InputMemory, NEW i \in DOMAIN Inputs, NEW before \in SUBSET (1..Elements(Inputs[i]))
  PROVE  IsTable(Table([k \in before |-> LuaScalar(Inputs[i].type, m[i][k])]))
<1> DEFINE f == [k \in before |-> LuaScalar(Inputs[i].type, m[i][k])]
<1>1. ASSUME NEW k \in before
      PROVE  LuaScalar(Inputs[i].type, m[i][k]) \in LuaScalars
  <2>1. m[i][k] \in Samples
    BY InputMemoryIsMemory
  <2>2. m[i][k] \in LuaNumbers /\ m[i][k] \in Int /\ 2 * m[i][k] \in LuaNumbers
    BY <2>1, NumbersAreInt DEF LuaNumbers
  <2> QED
    BY <2>2 DEF LuaScalar, LuaScalars
<1>2. Table(f).kind = "table" /\ Table(f).items = f
  BY DEF Table
<1> HIDE DEF f
<1>3. ASSUME NEW k \in Nat
      PROVE  Item(Table(f), k) \in LuaScalars
  <2>1. CASE k \in DOMAIN f
    <3>1. k \in before /\ Item(Table(f), k) = LuaScalar(Inputs[i].type, m[i][k])
      BY <1>2, <2>1 DEF Item, f
    <3> QED
      BY <1>1, <3>1
  <2>2. CASE k \notin DOMAIN f
    BY <1>2, <2>2 DEF Item, LuaScalars
  <2> QED
    BY <2>1, <2>2
<1> QED
  BY <1>2, <1>3 DEF IsTable, f

LEMMA ResultIsTable ==
  ASSUME NEW o \in DOMAIN Outputs, NEW t \in Results(Outputs[o]), t.kind = "table"
  PROVE  IsTable(t) /\ \A k \in 1..Outputs[o].size : Item(t, k) \in Scalars
<1>1. t \notin Scalars
  <2>1. ASSUME NEW x \in Scalars PROVE x.kind # "table"
    BY DEF Scalars, Num, Bool, Nil
  <2> QED
    BY <2>1
<1>2. PICK seq \in [1..Outputs[o].size -> Scalars] : t = Table(seq)
  BY <1>1 DEF Results
<1>3. t.items = seq /\ t.kind = "table"
  BY <1>2 DEF Table
<1>4. \A k \in 1..Outputs[o].size : Item(t, k) \in Scalars
  BY <1>3 DEF Item
<1>5. ASSUME NEW k \in Nat
      PROVE  Item(t, k) \in LuaScalars
  <2>1. CASE k \in 1..Outputs[o].size
    BY <1>4, <2>1, ScalarsAreLua
  <2>2. CASE k \notin 1..Outputs[o].size
    BY <1>3, <2>2 DEF Item, LuaScalars
  <2> QED
    BY <2>1, <2>2
<1> QED
  BY <1>3, <1>4, <1>5 DEF IsTable

-----------------------------------------------------------------------------
(* The inductive invariant: the types, the names copied, the Lua state,    *)
(* the stack in each phase, and how far the inputs and outputs have got.   *)

TypeInv ==
  /\ phase \in Phases
  /\ at \in Nat \ {0} /\ el \in Nat \ {0}
  /\ L \in BOOLEAN /\ clean \in BOOLEAN
  /\ globals = [n \in Names |-> globals[n]]
  /\ newest = [i \in DOMAIN Inputs |-> newest[i]]
  /\ IsMemory(Inputs, inputs) /\ IsMemory(Outputs, outputs)
  /\ returned \in {"none", "true", "false", "error"}

NamedInv ==
  /\ named = [inputs |-> named.inputs, outputs |-> named.outputs]
  /\ named.inputs \in -1..Len(Inputs) /\ named.outputs \in -1..Len(Outputs)
  /\ phase = "set inputs" => at <= Len(Inputs) + 1 /\ named.inputs = at - 1
  /\ phase = "set outputs" => at <= Len(Outputs) + 1 /\ named.outputs = at - 1
  /\ phase \in {"constructed", "initialised"} => named.inputs = -1

ReadyInv ==
  /\ phase = "initialised" => L
  /\ phase \in {"set inputs", "set outputs", "idle", "push", "get", "element"} =>
       L /\ ~SameName

StackInv ==
  /\ IsStack(stack)
  /\ phase \in {"constructed", "initialised", "set inputs", "set outputs", "failed"} =>
       stack = <<>>
  /\ stack # <<>> => IsTable(stack[1])
  /\ stack # <<>> /\ Outputs = <<>> => \E i \in DOMAIN Inputs : IsArray(Inputs[i])
  /\ phase = "get" /\ (at > 1 \/ clean) => stack = <<>>

Unsigned(s) == s.type \in {"uint", "uint64"}

(* While the elements of an output are read.                               *)
TableInv ==
  phase = "element" =>
    /\ el = 1 => stack # <<>> /\ Top(stack) = globals[Outputs[at].name]
    /\ el > 1 /\ Unsigned(Outputs[at]) => stack = <<>>
    /\ el > 1 /\ ~Unsigned(Outputs[at]) => Len(stack) = 1
    /\ (at > 1 \/ clean) /\ (el = 1 \/ ~Unsigned(Outputs[at])) =>
         stack = <<globals[Outputs[at].name]>>

(* The variable an input will have when GAM() is called.                   *)
Coming(i, m, g) ==
  IF CanBeGiven(Inputs[i], m[i]) THEN LuaValue(Inputs[i], m[i]) ELSE g[Inputs[i].name]

VariablesInv ==
  /\ phase # "push" => \A i \in DOMAIN Inputs : globals[Inputs[i].name] = newest[i]
  /\ phase = "push" =>
       /\ inputs \in InputMemory
       /\ at <= Len(Inputs) + 1
       /\ \A i \in DOMAIN Inputs : i < at => globals[Inputs[i].name] = newest[i]
       /\ \A i \in DOMAIN Inputs : i >= at => Coming(i, inputs, globals) = newest[i]

FollowsAt(o, k, g, m) ==
  Follows(Outputs[o].type, m[o][k], ElementOf(Outputs[o], g[Outputs[o].name], k))

Read(o, g, m, c) ==
  \A k \in 1..Elements(Outputs[o]) : c \/ o > 1 \/ k = 1 => FollowsAt(o, k, g, m)

GetInv ==
  phase \in {"get", "element"} =>
    /\ at <= Len(Outputs) + 1
    /\ \A o \in DOMAIN Outputs : globals[Outputs[o].name] \in Results(Outputs[o])
    /\ \A o \in DOMAIN Outputs : o < at => Read(o, globals, outputs, clean)

ElementInv ==
  phase = "element" =>
    /\ at \in DOMAIN Outputs
    /\ IsArray(Outputs[at]) /\ globals[Outputs[at].name].kind = "table"
    /\ el <= Outputs[at].size + 1
    /\ \A k \in 1..Outputs[at].size :
         k < el /\ (clean \/ at > 1 \/ k = 1) => FollowsAt(at, k, globals, outputs)

(* Why an output is not read.                                              *)
Refused(o, k, g) ==
  LET v == ElementOf(Outputs[o], g[Outputs[o].name], k)
  IN ~ValidScalar(Outputs[o].type, v) \/ v.kind = "boolean"

Reason ==
  /\ at \in DOMAIN Outputs
  /\ \/ \E k \in 1..Elements(Outputs[at]) : Refused(at, k, globals)
     \/ at = 1 /\ IsArray(Outputs[at]) /\ el > 1 /\ ~clean

ReturnInv ==
  /\ returned # "none" => phase \in {"idle", "deleted", "crashed"}
  /\ returned = "true" => \A o \in DOMAIN Outputs : Read(o, globals, outputs, clean)
  /\ returned = "false" => Reason

Inv ==
  /\ TypeInv /\ NamedInv /\ ReadyInv /\ CrashesAreKnown
  /\ StackInv /\ TableInv /\ StackIsEmpty
  /\ VariablesInv /\ GetInv /\ ElementInv /\ ReturnInv

LEMMA InvGivesProperties ==
  ASSUME Inv
  PROVE  /\ TypeOK /\ CrashesAreKnown /\ StackIsEmpty
         /\ InputsReachTheCode /\ OutputsFollowUnlessStale /\ ValidOutputsAreRead
<1>1. TypeOK
  <2>1. TypeInv /\ named.inputs \in -1..Len(Inputs) /\ named.outputs \in -1..Len(Outputs)
    BY Zenon DEF Inv, NamedInv
  <2>2. DOMAIN globals = Names /\ DOMAIN newest = DOMAIN Inputs
    BY <2>1 DEF TypeInv
  <2> QED
    BY <2>1, <2>2 DEF TypeOK, TypeInv, IsMemory
<1>2. CrashesAreKnown /\ StackIsEmpty
  BY DEF Inv
<1>3. InputsReachTheCode
  <2>1. at \in Nat
    BY Zenon DEF Inv, TypeInv
  <2>2. at > Len(Inputs) => \A i \in DOMAIN Inputs : i < at
    BY ONLY <2>1, Lengths
  <2> QED
    BY <2>2 DEF InputsReachTheCode, Inv, VariablesInv
<1>4. OutputsFollowUnlessStale
  BY Zenon DEF OutputsFollowUnlessStale, Inv, ReturnInv, Read, FollowsAt
<1>5. ValidOutputsAreRead
  BY Zenon DEF ValidOutputsAreRead, Inv, ReturnInv, Reason, Refused
<1> QED
  BY <1>1, <1>2, <1>3, <1>4, <1>5

LEMMA InitInv == Init => Inv
<1> SUFFICES ASSUME Init PROVE Inv
  OBVIOUS
<1>1. TypeInv
  <2>1. IsMemory(Inputs, inputs) /\ IsMemory(Outputs, outputs)
    BY ZerosAreMemory DEF Init
  <2>2. globals = [n \in Names |-> globals[n]] /\ newest = [i \in DOMAIN Inputs |-> newest[i]]
    BY DEF Init
  <2>3. L \in BOOLEAN /\ clean \in BOOLEAN
    BY DEF Init
  <2>4. phase \in Phases /\ at \in Nat \ {0} /\ el \in Nat \ {0}
    BY DEF Init, Phases
  <2>5. returned \in {"none", "true", "false", "error"}
    BY DEF Init
  <2> QED
    BY <2>1, <2>2, <2>3, <2>4, <2>5 DEF TypeInv
<1>2. NamedInv
  BY Lengths DEF Init, NamedInv
<1>3. ReadyInv /\ CrashesAreKnown /\ StackIsEmpty /\ TableInv
  BY DEF Init, ReadyInv, CrashesAreKnown, StackIsEmpty, TableInv
<1>4. StackInv
  BY EmptyIsStack DEF Init, StackInv
<1>5. VariablesInv
  BY InputIsSignal DEF Init, VariablesInv
<1>6. GetInv /\ ElementInv /\ ReturnInv
  BY DEF Init, GetInv, ElementInv, ReturnInv
<1> QED
  BY <1>1, <1>2, <1>3, <1>4, <1>5, <1>6 DEF Inv

-----------------------------------------------------------------------------
(* Initialise, Setup and the destructor.                                   *)

SettingUp == {"constructed", "initialised", "set inputs", "set outputs"}

LEMMA BeforeTheCycles ==
  ASSUME Inv, NamedInv', ReadyInv', CrashesAreKnown', phase \in SettingUp,
         phase' \in SettingUp \cup {"failed", "idle", "crashed"},
         at' \in Nat \ {0}, L' \in BOOLEAN,
         UNCHANGED <<el, stack, inputs, outputs, returned, clean, newest>>,
         globals' = [n \in Names |-> globals'[n]],
         \A i \in DOMAIN Inputs : globals'[Inputs[i].name] = globals[Inputs[i].name]
  PROVE  Inv'
<1>1. phase' \in Phases /\ phase # "push" /\ phase' \notin {"push", "get", "element"}
  BY DEF SettingUp, Phases
<1>2. returned = "none" /\ stack = <<>> /\ IsStack(stack)
  BY DEF SettingUp, Inv, ReturnInv, StackInv
<1>3. TypeInv'
  BY <1>1 DEF Inv, TypeInv
<1>4. StackInv' /\ TableInv' /\ StackIsEmpty'
  BY <1>1, <1>2 DEF StackInv, TableInv, StackIsEmpty
<1>5. VariablesInv'
  BY <1>1, Zenon DEF Inv, VariablesInv
<1>6. GetInv' /\ ElementInv' /\ ReturnInv'
  BY <1>1, <1>2 DEF GetInv, ElementInv, ReturnInv
<1> QED
  BY <1>3, <1>4, <1>5, <1>6 DEF Inv

LEMMA InitialiseInv ==
  ASSUME Inv, NEW coded \in BOOLEAN, NEW right \in BOOLEAN,
         NEW internals \in Chunks, NEW auxiliaries \in Chunks,
         Initialise(coded, right, internals, auxiliaries)
  PROVE  Inv'
<1>1. /\ InternalStates(coded, internals) = "crashed" => ~coded
      /\ AuxiliaryFunctions(coded, auxiliaries) = "crashed" => ~coded
  BY DEF InternalStates, AuxiliaryFunctions, Chunks
<1>2. /\ phase = "constructed" /\ phase' \in {"initialised", "failed", "crashed"}
      /\ L' = coded
      /\ phase' = "initialised" => coded
      /\ phase' = "crashed" => ~coded
  BY <1>1 DEF Initialise
<1>3. UNCHANGED <<at, el, stack, globals, inputs, outputs, named, returned, clean, newest>>
  BY Zenon DEF Initialise, Memory, history
<1>4. NamedInv'
  BY <1>2, <1>3 DEF Inv, NamedInv
<1>5. ReadyInv'
  BY <1>2 DEF ReadyInv
<1>6. CrashesAreKnown'
  <2>1. named'.inputs = -1
    BY <1>2, <1>3 DEF Inv, NamedInv
  <2> QED
    BY <1>2, <2>1 DEF CrashesAreKnown
<1>7. at' \in Nat \ {0} /\ globals' = [n \in Names |-> globals'[n]]
  BY <1>3 DEF Inv, TypeInv
<1>8. phase \in SettingUp /\ phase' \in SettingUp \cup {"failed", "idle", "crashed"}
      /\ L' \in BOOLEAN
  BY <1>2 DEF SettingUp
<1>9. \A i \in DOMAIN Inputs : globals'[Inputs[i].name] = globals[Inputs[i].name]
  BY <1>3
<1> QED
  BY <1>3, <1>4, <1>5, <1>6, <1>7, <1>8, <1>9, BeforeTheCycles, Zenon

LEMMA SetupBeginInv ==
  ASSUME Inv, NEW valid \in BOOLEAN, SetupBegin(valid)
  PROVE  Inv'
<1>1. /\ phase = "initialised" /\ phase' \in {"set inputs", "failed"} /\ at' = 1
      /\ phase' = "set inputs" => named' = [named EXCEPT !.inputs = 0] /\ ~SameName
      /\ phase' = "failed" => named' = named
  BY DEF SetupBegin
<1>2. UNCHANGED <<el, L, stack, globals, inputs, outputs, returned, clean, newest>>
  BY Zenon DEF SetupBegin, Memory, history
<1>3. /\ named = [inputs |-> named.inputs, outputs |-> named.outputs]
      /\ named.inputs \in -1..Len(Inputs) /\ named.outputs \in -1..Len(Outputs)
      /\ L
  BY <1>1 DEF Inv, NamedInv, ReadyInv
<1>4. NamedInv'
  <2>1. CASE phase' = "set inputs"
    <3>1. /\ named' = [inputs |-> 0, outputs |-> named.outputs]
          /\ named'.inputs = 0 /\ named'.outputs = named.outputs
      BY <1>1, <1>3, <2>1
    <3>2. 0 \in -1..Len(Inputs) /\ at' <= Len(Inputs) + 1 /\ 0 = at' - 1
      <4>1. at' = 1
        BY <1>1
      <4> QED
        BY ONLY <4>1, Lengths
    <3> QED
      BY ONLY <1>3, <2>1, <3>1, <3>2 DEF NamedInv
  <2>2. CASE phase' = "failed"
    BY ONLY <1>1, <1>3, <2>2 DEF NamedInv
  <2> QED
    BY <1>1, <2>1, <2>2
<1>5. ReadyInv' /\ CrashesAreKnown'
  BY <1>1, <1>2, <1>3 DEF ReadyInv, CrashesAreKnown, SameName
<1>6. at' \in Nat \ {0} /\ L' \in BOOLEAN /\ globals' = [n \in Names |-> globals'[n]]
  <2>1. at' = 1
    BY <1>1
  <2>2. at' \in Nat \ {0}
    BY ONLY <2>1
  <2> QED
    BY <1>2, <2>2 DEF Inv, TypeInv
<1>7. phase \in SettingUp /\ phase' \in SettingUp \cup {"failed", "idle", "crashed"}
  BY <1>1 DEF SettingUp
<1>8. \A i \in DOMAIN Inputs : globals'[Inputs[i].name] = globals[Inputs[i].name]
  BY <1>2
<1> QED
  BY <1>2, <1>4, <1>5, <1>6, <1>7, <1>8, BeforeTheCycles, Zenon

LEMMA SetupInputInv ==
  ASSUME Inv, NEW good \in BOOLEAN, SetupInput(good)
  PROVE  Inv'
<1>1. phase = "set inputs" /\ phase' \in {"set inputs", "failed"}
  BY DEF SetupInput
<1>2. at \in Nat \ {0} /\ at' = at + 1 /\ at <= Len(Inputs)
  BY Zenon DEF SetupInput, Inv, TypeInv
<1>3. UNCHANGED <<el, L, stack, globals, inputs, outputs, returned, clean, newest>>
  BY Zenon DEF SetupInput, Memory, history
<1>4. /\ named' = [inputs |-> named.inputs + 1, outputs |-> named.outputs]
      /\ named.inputs = at - 1 /\ named.outputs \in -1..Len(Outputs)
      /\ L /\ ~SameName
  BY <1>1 DEF SetupInput, Inv, NamedInv, ReadyInv
<1>5. NamedInv'
  <2>1. /\ named' = [inputs |-> named'.inputs, outputs |-> named'.outputs]
        /\ named'.inputs = named.inputs + 1 /\ named'.outputs = named.outputs
    BY ONLY <1>4
  <2>2. /\ named'.inputs = at' - 1 /\ at' <= Len(Inputs) + 1
        /\ named'.inputs \in -1..Len(Inputs)
    BY ONLY <1>2, <1>4, <2>1, Lengths
  <2> QED
    BY ONLY <1>1, <1>4, <2>1, <2>2 DEF NamedInv
<1>6. ReadyInv' /\ CrashesAreKnown'
  BY <1>1, <1>3, <1>4 DEF ReadyInv, CrashesAreKnown, SameName
<1>7. at' \in Nat \ {0}
  BY ONLY <1>2
<1>8. L' \in BOOLEAN /\ globals' = [n \in Names |-> globals'[n]]
  BY <1>3 DEF Inv, TypeInv
<1>9. phase \in SettingUp /\ phase' \in SettingUp \cup {"failed", "idle", "crashed"}
  BY <1>1 DEF SettingUp
<1>10. \A i \in DOMAIN Inputs : globals'[Inputs[i].name] = globals[Inputs[i].name]
  BY <1>3
<1> QED
  BY <1>3, <1>5, <1>6, <1>7, <1>8, <1>9, <1>10, BeforeTheCycles, Zenon

LEMMA SetupInputsEndInv ==
  ASSUME Inv, SetupInputsEnd
  PROVE  Inv'
<1>1. phase = "set inputs" /\ phase' = "set outputs" /\ at' = 1
  BY DEF SetupInputsEnd
<1>2. UNCHANGED <<el, L, stack, globals, inputs, outputs, returned, clean, newest>>
  BY Zenon DEF SetupInputsEnd, Memory, history
<1>3. /\ named' = [inputs |-> named.inputs, outputs |-> 0]
      /\ named.inputs \in -1..Len(Inputs)
      /\ L /\ ~SameName
  BY <1>1 DEF SetupInputsEnd, Inv, NamedInv, ReadyInv
<1>4. NamedInv'
  <2>1. /\ named' = [inputs |-> named'.inputs, outputs |-> named'.outputs]
        /\ named'.inputs = named.inputs /\ named'.outputs = 0
    BY ONLY <1>3
  <2>2. 0 \in -1..Len(Outputs) /\ at' <= Len(Outputs) + 1 /\ 0 = at' - 1
    <3>1. at' = 1
      BY <1>1
    <3> QED
      BY ONLY <3>1, Lengths
  <2> QED
    BY ONLY <1>1, <1>3, <2>1, <2>2 DEF NamedInv
<1>5. ReadyInv' /\ CrashesAreKnown'
  BY <1>1, <1>2, <1>3 DEF ReadyInv, CrashesAreKnown, SameName
<1>6. at' \in Nat \ {0} /\ L' \in BOOLEAN /\ globals' = [n \in Names |-> globals'[n]]
  <2>1. at' = 1
    BY <1>1
  <2>2. at' \in Nat \ {0}
    BY ONLY <2>1
  <2> QED
    BY <1>2, <2>2 DEF Inv, TypeInv
<1>7. phase \in SettingUp /\ phase' \in SettingUp \cup {"failed", "idle", "crashed"}
  BY <1>1 DEF SettingUp
<1>8. \A i \in DOMAIN Inputs : globals'[Inputs[i].name] = globals[Inputs[i].name]
  BY <1>2
<1> QED
  BY <1>2, <1>4, <1>5, <1>6, <1>7, <1>8, BeforeTheCycles, Zenon

LEMMA SetupOutputInv ==
  ASSUME Inv, NEW good \in BOOLEAN, SetupOutput(good)
  PROVE  Inv'
<1>1. phase = "set outputs" /\ phase' \in {"set outputs", "failed"}
  BY DEF SetupOutput
<1>2. at \in Nat \ {0} /\ at' = at + 1 /\ at <= Len(Outputs)
  BY Zenon DEF SetupOutput, Inv, TypeInv
<1>3. at \in DOMAIN Outputs
  BY ONLY <1>2, Lengths
<1>4. UNCHANGED <<el, L, stack, inputs, outputs, returned, clean, newest>>
  BY Zenon DEF SetupOutput, Memory, history
<1>5. /\ named' = [inputs |-> named.inputs, outputs |-> named.outputs + 1]
      /\ named.outputs = at - 1 /\ named.inputs \in -1..Len(Inputs)
      /\ L /\ ~SameName
  BY <1>1 DEF SetupOutput, Inv, NamedInv, ReadyInv
<1>6. NamedInv'
  <2>1. /\ named' = [inputs |-> named'.inputs, outputs |-> named'.outputs]
        /\ named'.outputs = named.outputs + 1 /\ named'.inputs = named.inputs
    BY ONLY <1>5
  <2>2. /\ named'.outputs = at' - 1 /\ at' <= Len(Outputs) + 1
        /\ named'.outputs \in -1..Len(Outputs)
    BY ONLY <1>2, <1>5, <2>1, Lengths
  <2> QED
    BY ONLY <1>1, <1>5, <2>1, <2>2 DEF NamedInv
<1>7. ReadyInv' /\ CrashesAreKnown'
  BY <1>1, <1>4, <1>5 DEF ReadyInv, CrashesAreKnown, SameName
<1>8. at' \in Nat \ {0}
  BY ONLY <1>2
<1>9. L' \in BOOLEAN
  BY <1>4 DEF Inv, TypeInv
<1>10. phase \in SettingUp /\ phase' \in SettingUp \cup {"failed", "idle", "crashed"}
  BY <1>1 DEF SettingUp
<1>11. /\ globals' = [n \in Names |-> globals'[n]]
       /\ \A n \in Names \ {Outputs[at].name} : globals'[n] = globals[n]
  <2>1. globals = [n \in Names |-> globals[n]]
    BY DEF Inv, TypeInv
  <2>2. globals' = [globals EXCEPT ![Outputs[at].name] = LuaValue(Outputs[at], outputs[at])]
    BY DEF SetupOutput, AddOutput
  <2> QED
    BY ONLY <2>1, <2>2
<1>12. \A i \in DOMAIN Inputs : globals'[Inputs[i].name] = globals[Inputs[i].name]
  <2>1. \A i \in DOMAIN Inputs : Inputs[i].name \in Names \ {Outputs[at].name}
    BY <1>3, <1>5, InputIsSignal DEF SameName
  <2> QED
    BY ONLY <1>11, <2>1
<1> QED
  BY <1>4, <1>6, <1>7, <1>8, <1>9, <1>10, <1>11, <1>12, BeforeTheCycles, Zenon

LEMMA SetupEndInv ==
  ASSUME Inv, SetupEnd
  PROVE  Inv'
<1>1. phase = "set outputs" /\ phase' = "idle"
  BY DEF SetupEnd
<1>2. UNCHANGED <<at, el, L, stack, globals, inputs, outputs, named, returned, clean, newest>>
  BY Zenon DEF SetupEnd, Memory, history
<1>3. NamedInv'
  BY <1>1, <1>2 DEF Inv, NamedInv
<1>4. ReadyInv' /\ CrashesAreKnown'
  BY <1>1, <1>2 DEF Inv, ReadyInv, CrashesAreKnown, SameName
<1>5. at' \in Nat \ {0} /\ L' \in BOOLEAN /\ globals' = [n \in Names |-> globals'[n]]
  BY <1>2 DEF Inv, TypeInv
<1>6. phase \in SettingUp /\ phase' \in SettingUp \cup {"failed", "idle", "crashed"}
  BY <1>1 DEF SettingUp
<1>7. \A i \in DOMAIN Inputs : globals'[Inputs[i].name] = globals[Inputs[i].name]
  BY <1>2
<1> QED
  BY <1>2, <1>3, <1>4, <1>5, <1>6, <1>7, BeforeTheCycles, Zenon

LEMMA DestroyInv ==
  ASSUME Inv, Destroy
  PROVE  Inv'
<1>1. /\ phase \in {"constructed", "initialised", "failed", "idle"}
      /\ phase' \in {"deleted", "crashed"} /\ L' = FALSE
      /\ phase' = "crashed" => \/ named.inputs \in 0..(Len(Inputs) - 1)
                               \/ named.outputs \in 0..(Len(Outputs) - 1)
  BY DEF Destroy
<1>2. UNCHANGED <<at, el, stack, globals, inputs, outputs, named, returned, clean, newest>>
  BY Zenon DEF Destroy, Memory, history
<1>3. TypeInv'
  <2>1. phase' \in Phases
    BY <1>1 DEF Phases
  <2> QED
    BY <1>1, <1>2, <2>1 DEF Inv, TypeInv
<1>4. NamedInv' /\ ReadyInv'
  BY <1>1, <1>2 DEF Inv, NamedInv, ReadyInv
<1>5. CrashesAreKnown'
  BY <1>1, <1>2 DEF CrashesAreKnown
<1>6. StackInv' /\ TableInv' /\ StackIsEmpty'
  BY <1>1, <1>2 DEF Inv, StackInv, TableInv, StackIsEmpty
<1>7. VariablesInv'
  BY <1>1, <1>2, Zenon DEF Inv, VariablesInv
<1>8. GetInv' /\ ElementInv'
  BY <1>1 DEF GetInv, ElementInv
<1>9. ReturnInv'
  BY <1>1, <1>2 DEF Inv, ReturnInv, Reason
<1> QED
  BY <1>3, <1>4, <1>5, <1>6, <1>7, <1>8, <1>9 DEF Inv

-----------------------------------------------------------------------------
(* Execute up to the call of GAM().                                        *)

Cycle == {"idle", "push", "get", "element"}

LEMMA WithinTheCycle ==
  ASSUME Inv, phase \in Cycle, phase' \in Cycle, UNCHANGED <<L, named>>
  PROVE  /\ NamedInv' /\ ReadyInv' /\ CrashesAreKnown'
         /\ phase' \in Phases /\ ~SameName /\ L' \in BOOLEAN
<1>1. L /\ ~SameName /\ L \in BOOLEAN
  BY DEF Cycle, Inv, ReadyInv, TypeInv
<1>2. NamedInv'
  <2>1. /\ named = [inputs |-> named.inputs, outputs |-> named.outputs]
        /\ named.inputs \in -1..Len(Inputs) /\ named.outputs \in -1..Len(Outputs)
    BY Zenon DEF Inv, NamedInv
  <2>2. phase' \notin {"set inputs", "set outputs", "constructed", "initialised"}
    BY DEF Cycle
  <2> QED
    BY <2>1, <2>2 DEF NamedInv
<1>3. ReadyInv' /\ CrashesAreKnown' /\ phase' \in Phases
  BY <1>1 DEF Cycle, ReadyInv, CrashesAreKnown, SameName, Phases
<1> QED
  BY <1>1, <1>2, <1>3

LEMMA ExecuteInv ==
  ASSUME Inv, NEW m \in InputMemory, Execute(m)
  PROVE  Inv'
<1>1. phase = "idle" /\ phase' = "push" /\ at' = 1 /\ returned' = "none" /\ inputs' = m
  BY DEF Execute
<1>2. UNCHANGED <<el, L, stack, globals, outputs, named, clean>>
  BY Zenon DEF Execute
<1>3. /\ NamedInv' /\ ReadyInv' /\ CrashesAreKnown' /\ phase' \in Phases /\ L' \in BOOLEAN
  BY <1>1, <1>2, WithinTheCycle DEF Cycle
<1>4. newest' = [i \in DOMAIN Inputs |->
                   IF CanBeGiven(Inputs[i], m[i]) THEN LuaValue(Inputs[i], m[i])
                   ELSE newest[i]]
  BY DEF Execute
<1>5. TypeInv'
  <2>1. IsMemory(Inputs, inputs') /\ newest' = [i \in DOMAIN Inputs |-> newest'[i]]
    BY <1>1, <1>4, InputMemoryIsMemory
  <2>2. at' \in Nat \ {0}
    <3>1. at' = 1
      BY <1>1
    <3> QED
      BY ONLY <3>1
  <2> QED
    BY <1>1, <1>2, <1>3, <2>1, <2>2 DEF Inv, TypeInv
<1>6. StackInv' /\ TableInv' /\ StackIsEmpty'
  BY <1>1, <1>2 DEF Inv, StackInv, TableInv, StackIsEmpty
<1>7. VariablesInv'
  <2>1. at' <= Len(Inputs) + 1 /\ \A i \in DOMAIN Inputs : ~(i < at')
    <3>1. at' = 1
      BY <1>1
    <3> QED
      BY ONLY <3>1, Lengths
  <2>2. ASSUME NEW i \in DOMAIN Inputs
        PROVE  Coming(i, inputs', globals') = newest'[i]
    <3>1. globals[Inputs[i].name] = newest[i]
      BY <1>1 DEF Inv, VariablesInv
    <3> QED
      BY <1>1, <1>2, <1>4, <3>1 DEF Coming
  <2> QED
    BY <1>1, <2>1, <2>2 DEF VariablesInv
<1>8. GetInv' /\ ElementInv' /\ ReturnInv'
  BY <1>1 DEF GetInv, ElementInv, ReturnInv
<1> QED
  BY <1>3, <1>5, <1>6, <1>7, <1>8 DEF Inv

(* An array that is refused leaves its table on the stack.                 *)
LEMMA RefusedStack ==
  ASSUME StackInv, NEW t, IsTable(t), \E i \in DOMAIN Inputs : IsArray(Inputs[i])
  PROVE  /\ IsStack(Push(stack, t))
         /\ Push(stack, t) # <<>> => IsTable(Push(stack, t)[1])
<1>1. IsStack(stack)
  BY DEF StackInv
<1>2. /\ IsStack(Push(stack, t)) /\ \A k \in 1..Len(stack) : Push(stack, t)[k] = stack[k]
      /\ Push(stack, t)[Len(stack) + 1] = t
  BY <1>1, PushOnStack
<1>3. CASE stack = <<>>
  <2>1. Push(stack, t)[1] = t
    BY ONLY <1>2, <1>3, EmptyIsStack
  <2> QED
    BY <1>2, <2>1
<1>4. CASE stack # <<>>
  <2>1. 1 \in 1..Len(stack)
    <3>1. Len(stack) \in Nat \ {0}
      BY <1>1, <1>4, NotEmpty
    <3> QED
      BY ONLY <3>1
  <2> QED
    BY <1>2, <1>4, <2>1 DEF StackInv
<1> QED
  BY <1>3, <1>4

LEMMA PushInputInv ==
  ASSUME Inv, PushInput
  PROVE  Inv'
<1> DEFINE s == Inputs[at]
           m == inputs[at]
           bad == RejectedAt(s, m)
           before == {k \in 1..Elements(s) : \A j \in bad : k < j}
           t == Table([k \in before |-> LuaScalar(s.type, m[k])])
<1>1. phase = "push" /\ phase' = "push" /\ returned = "none" /\ returned' = "none"
  BY DEF PushInput, Inv, ReturnInv
<1>2. UNCHANGED <<el, L, inputs, outputs, named, clean, newest>>
  BY Zenon DEF PushInput, history
<1>3. at \in Nat \ {0} /\ at' = at + 1 /\ at <= Len(Inputs)
  BY Zenon DEF PushInput, Inv, TypeInv
<1>4. at \in DOMAIN Inputs
  BY ONLY <1>3, Lengths
<1>5. /\ NamedInv' /\ ReadyInv' /\ CrashesAreKnown' /\ phase' \in Phases /\ L' \in BOOLEAN
  BY <1>1, <1>2, WithinTheCycle DEF Cycle
<1>6. inputs \in InputMemory
  BY <1>1 DEF Inv, VariablesInv
<1>7. bad = {} <=> CanBeGiven(s, m)
  BY <1>4, <1>6, RejectedOrGiven
<1>8. Coming(at, inputs, globals) = newest[at]
  <2>1. at >= at
    BY ONLY <1>3
  <2> QED
    BY <1>1, <1>4, <2>1 DEF Inv, VariablesInv
<1>9. /\ globals' = [n \in Names |-> globals'[n]]
      /\ \A n \in Names \ {s.name} : globals'[n] = globals[n]
      /\ globals'[s.name] = newest[at]
  <2>1. globals = [n \in Names |-> globals[n]] /\ s.name \in Names
    BY <1>4, InputIsSignal DEF Inv, TypeInv
  <2>2. CASE bad = {}
    <3>1. globals' = [globals EXCEPT ![s.name] = LuaValue(s, m)]
      BY <2>2 DEF PushInput
    <3>2. LuaValue(s, m) = newest[at]
      BY <1>7, <1>8, <2>2 DEF Coming
    <3> QED
      BY ONLY <2>1, <3>1, <3>2
  <2>3. CASE bad # {}
    <3>1. globals' = globals
      BY <2>3 DEF PushInput
    <3>2. globals[s.name] = newest[at]
      BY <1>7, <1>8, <2>3 DEF Coming
    <3> QED
      BY ONLY <2>1, <3>1, <3>2
  <2> QED
    BY <2>2, <2>3
<1>10. TypeInv'
  <2>1. at' \in Nat \ {0}
    BY ONLY <1>3
  <2> QED
    BY <1>1, <1>2, <1>5, <1>9, <2>1 DEF Inv, TypeInv
<1>11. StackInv'
  <2>1. stack' = stack \/ (IsArray(s) /\ stack' = Push(stack, t))
    BY DEF PushInput
  <2>2. IsTable(t)
    BY <1>4, <1>6, RefusedIsTable
  <2>3. CASE stack' = stack
    BY <1>1, <2>3 DEF Inv, StackInv
  <2>4. CASE IsArray(s) /\ stack' = Push(stack, t)
    <3>1. \E i \in DOMAIN Inputs : IsArray(Inputs[i])
      BY <1>4, <2>4
    <3>2. IsStack(stack') /\ (stack' # <<>> => IsTable(stack'[1]))
      <4>1. StackInv
        BY DEF Inv
      <4> HIDE DEF t
      <4> QED
        BY <2>2, <2>4, <3>1, <4>1, RefusedStack
    <3> QED
      BY <1>1, <3>1, <3>2 DEF StackInv
  <2> QED
    BY <2>1, <2>3, <2>4
<1>12. VariablesInv'
  <2>1. at' <= Len(Inputs) + 1
    BY ONLY <1>3, Lengths
  <2>2. ASSUME NEW i \in DOMAIN Inputs, i # at
        PROVE  globals'[Inputs[i].name] = globals[Inputs[i].name]
    <3>1. Inputs[i].name \in Names \ {s.name}
      BY <1>4, <2>2, InputIsSignal, SignalsAssumption DEF SignalsAssumption
    <3> QED
      BY <1>9, <3>1
  <2>3. ASSUME NEW i \in DOMAIN Inputs, i < at'
        PROVE  globals'[Inputs[i].name] = newest'[i]
    <3>1. CASE i = at
      BY <1>2, <1>9, <3>1
    <3>2. CASE i # at
      <4>1. i < at
        BY ONLY <1>3, <2>3, <3>2, Lengths
      <4> QED
        BY <1>1, <1>2, <2>2, <3>2, <4>1 DEF Inv, VariablesInv
    <3> QED
      BY <3>1, <3>2
  <2>4. ASSUME NEW i \in DOMAIN Inputs, i >= at'
        PROVE  Coming(i, inputs', globals') = newest'[i]
    <3>1. i # at /\ i >= at
      BY ONLY <1>3, <2>4, Lengths
    <3>2. Coming(i, inputs, globals) = newest[i]
      BY <1>1, <3>1 DEF Inv, VariablesInv
    <3> QED
      BY <1>2, <2>2, <3>1, <3>2 DEF Coming
  <2> QED
    BY <1>1, <1>2, <1>6, <2>1, <2>3, <2>4 DEF VariablesInv
<1>13. TableInv' /\ StackIsEmpty' /\ GetInv' /\ ElementInv' /\ ReturnInv'
  BY <1>1 DEF TableInv, StackIsEmpty, GetInv, ElementInv, ReturnInv
<1> QED
  BY <1>5, <1>10, <1>11, <1>12, <1>13 DEF Inv

(* GAM() gives values to the variables of the outputs and to no others.    *)
LEMMA AssignedOutput ==
  ASSUME NEW new, Assigned(new), ~SameName
  PROVE  /\ globals' = [n \in Names |-> globals'[n]]
         /\ \A o \in DOMAIN Outputs : globals'[Outputs[o].name] = new[o]
         /\ \A i \in DOMAIN Inputs : globals'[Inputs[i].name] = globals[Inputs[i].name]
<1>1. globals' = [n \in Names |-> globals'[n]]
  BY DEF Assigned
<1>2. ASSUME NEW o \in DOMAIN Outputs
      PROVE  globals'[Outputs[o].name] = new[o]
  <2> DEFINE p == CHOOSE p \in DOMAIN Outputs : Outputs[p].name = Outputs[o].name
  <2>1. p \in DOMAIN Outputs /\ Outputs[p].name = Outputs[o].name
    OBVIOUS
  <2>2. p = o
    BY <2>1, SignalsAssumption DEF SignalsAssumption
  <2>3. globals'[Outputs[o].name] = new[p]
    BY OutputIsSignal DEF Assigned
  <2> QED
    BY <2>2, <2>3
<1>3. ASSUME NEW i \in DOMAIN Inputs
      PROVE  globals'[Inputs[i].name] = globals[Inputs[i].name]
  <2>1. Inputs[i].name \in Names /\ ~\E o \in DOMAIN Outputs : Outputs[o].name = Inputs[i].name
    BY InputIsSignal DEF SameName
  <2> QED
    BY <2>1 DEF Assigned
<1> QED
  BY <1>1, <1>2, <1>3

LEMMA CalledInputs ==
  ASSUME Inv, phase = "push", at > Len(Inputs), newest' = newest, phase' # "push",
         \A i \in DOMAIN Inputs : globals'[Inputs[i].name] = globals[Inputs[i].name]
  PROVE  VariablesInv'
<1>1. \A i \in DOMAIN Inputs : i < at
  <2>1. at \in Nat
    BY Zenon DEF Inv, TypeInv
  <2> QED
    BY ONLY <2>1, Lengths, at > Len(Inputs)
<1>2. \A i \in DOMAIN Inputs : globals[Inputs[i].name] = newest[i]
  BY <1>1 DEF Inv, VariablesInv
<1> QED
  BY <1>2 DEF VariablesInv

LEMMA CallInv ==
  ASSUME Inv, NEW new \in NewVariables, Call(new)
  PROVE  Inv'
<1>1. /\ phase = "push" /\ phase' = "get" /\ at' = 1 /\ returned = "none" /\ returned' = "none"
      /\ at > Len(Inputs)
  BY DEF Call, Inv, ReturnInv
<1>2. UNCHANGED <<el, L, stack, inputs, outputs, named, newest>> /\ clean' = (stack = <<>>)
  BY Zenon DEF Call
<1>3. /\ NamedInv' /\ ReadyInv' /\ CrashesAreKnown' /\ phase' \in Phases /\ L' \in BOOLEAN
      /\ ~SameName
  BY <1>1, <1>2, WithinTheCycle DEF Cycle
<1>4. /\ globals' = [n \in Names |-> globals'[n]]
      /\ \A o \in DOMAIN Outputs : globals'[Outputs[o].name] = new[o]
      /\ \A i \in DOMAIN Inputs : globals'[Inputs[i].name] = globals[Inputs[i].name]
  BY <1>3, AssignedOutput DEF Call
<1>5. ~(at' > 1) /\ at' \in Nat \ {0}
  <2>1. at' = 1
    BY <1>1
  <2> QED
    BY ONLY <2>1
<1>6. TypeInv'
  BY <1>1, <1>2, <1>3, <1>4, <1>5 DEF Inv, TypeInv
<1>7. StackInv'
  BY <1>1, <1>2, <1>5 DEF Inv, StackInv
<1>8. VariablesInv'
  BY <1>1, <1>2, <1>4, CalledInputs
<1>9. GetInv'
  <2>1. at' <= Len(Outputs) + 1 /\ \A o \in DOMAIN Outputs : ~(o < at')
    <3>1. at' = 1
      BY <1>1
    <3> QED
      BY ONLY <3>1, Lengths
  <2>2. \A o \in DOMAIN Outputs : globals'[Outputs[o].name] \in Results(Outputs[o])
    BY <1>4 DEF NewVariables
  <2> QED
    BY <2>1, <2>2, Zenon DEF GetInv
<1>10. TableInv' /\ StackIsEmpty' /\ ElementInv' /\ ReturnInv'
  BY <1>1 DEF TableInv, StackIsEmpty, ElementInv, ReturnInv
<1> QED
  BY <1>3, <1>6, <1>7, <1>8, <1>9, <1>10 DEF Inv

LEMMA CallFailsInv ==
  ASSUME Inv, NEW new \in NewVariables, CallFails(new)
  PROVE  Inv'
<1>1. phase = "push" /\ phase' = "idle" /\ returned' = "error" /\ at > Len(Inputs)
  BY DEF CallFails
<1>2. UNCHANGED <<at, el, L, inputs, outputs, named, clean, newest>> /\ stack' = <<>>
  BY SetTopZero, Zenon DEF CallFails, history
<1>3. /\ NamedInv' /\ ReadyInv' /\ CrashesAreKnown' /\ phase' \in Phases /\ L' \in BOOLEAN
      /\ ~SameName
  BY <1>1, <1>2, WithinTheCycle DEF Cycle
<1>4. /\ globals' = [n \in Names |-> globals'[n]]
      /\ \A i \in DOMAIN Inputs : globals'[Inputs[i].name] = globals[Inputs[i].name]
  BY <1>3, AssignedOutput DEF CallFails
<1>5. TypeInv'
  BY <1>1, <1>2, <1>3, <1>4 DEF Inv, TypeInv
<1>6. StackInv' /\ TableInv' /\ StackIsEmpty'
  BY <1>1, <1>2, EmptyIsStack DEF StackInv, TableInv, StackIsEmpty
<1>7. VariablesInv'
  BY <1>1, <1>2, <1>4, CalledInputs
<1>8. GetInv' /\ ElementInv' /\ ReturnInv'
  BY <1>1 DEF GetInv, ElementInv, ReturnInv
<1> QED
  BY <1>3, <1>5, <1>6, <1>7, <1>8 DEF Inv

-----------------------------------------------------------------------------
(* The outputs.                                                            *)

(* An output that cannot be read ends the cycle.                           *)
LEMMA FailInv ==
  ASSUME Inv, phase \in {"get", "element"}, Fail, Reason,
         IsMemory(Outputs, outputs'), UNCHANGED <<L, globals, inputs, named, clean, newest>>,
         IsStack(stack'), stack' # <<>> => IsTable(stack'[1]),
         stack' # <<>> => /\ IsArray(Outputs[at]) /\ Len(stack') > 1
                          /\ Top(stack').kind # "number"
                          /\ stack'[Len(stack') - 1].kind = "table"
  PROVE  Inv'
<1>1. phase' = "idle" /\ returned' = "false" /\ at' = at /\ el' = el
  BY DEF Fail
<1>2. NamedInv' /\ ReadyInv' /\ CrashesAreKnown' /\ phase' \in Phases /\ L' \in BOOLEAN
  BY <1>1, WithinTheCycle DEF Cycle
<1>3. TypeInv'
  BY <1>1, <1>2 DEF Inv, TypeInv
<1>4. Outputs # <<>>
  BY DEF Reason
<1>5. StackInv' /\ TableInv'
  BY <1>1, <1>4 DEF StackInv, TableInv
<1>6. StackIsEmpty'
  BY <1>1, Zenon DEF StackIsEmpty, Top
<1>7. VariablesInv'
  BY <1>1 DEF Inv, VariablesInv
<1>8. GetInv' /\ ElementInv'
  BY <1>1 DEF GetInv, ElementInv
<1>9. ReturnInv'
  BY <1>1, Zenon DEF ReturnInv, Reason
<1> QED
  BY <1>2, <1>3, <1>5, <1>6, <1>7, <1>8, <1>9 DEF Inv

(* An output that has been read leaves the ones before it as they are.     *)
LEMMA NextOutputInv ==
  ASSUME Inv, phase \in {"get", "element"}, at \in DOMAIN Outputs,
         phase' = "get", at' = at + 1, stack' = <<>>, returned = "none",
         UNCHANGED <<el, L, globals, inputs, named, returned, clean, newest>>,
         IsMemory(Outputs, outputs'),
         \A p \in DOMAIN Outputs \ {at} : outputs'[p] = outputs[p],
         Read(at, globals, outputs', clean)
  PROVE  Inv'
<1>1. at \in Nat \ {0}
  BY Zenon DEF Inv, TypeInv
<1>2. at' \in Nat \ {0} /\ at' <= Len(Outputs) + 1
  BY ONLY <1>1, Lengths, at' = at + 1, at \in DOMAIN Outputs
<1>3. NamedInv' /\ ReadyInv' /\ CrashesAreKnown' /\ phase' \in Phases /\ L' \in BOOLEAN
  BY WithinTheCycle DEF Cycle
<1>4. TypeInv'
  BY <1>2, <1>3 DEF Inv, TypeInv
<1>5. StackInv' /\ TableInv' /\ StackIsEmpty'
  BY EmptyIsStack DEF StackInv, TableInv, StackIsEmpty
<1>6. VariablesInv'
  BY DEF Inv, VariablesInv
<1>7. GetInv'
  <2>1. /\ \A o \in DOMAIN Outputs : globals[Outputs[o].name] \in Results(Outputs[o])
        /\ \A o \in DOMAIN Outputs : o < at => Read(o, globals, outputs, clean)
    BY DEF Inv, GetInv
  <2>2. ASSUME NEW o \in DOMAIN Outputs, o < at'
        PROVE  Read(o, globals', outputs', clean')
    <3>1. CASE o = at
      BY <3>1
    <3>2. CASE o # at
      <4>1. o < at
        BY ONLY <1>1, <2>2, <3>2, Lengths, at' = at + 1
      <4>2. outputs'[o] = outputs[o]
        BY <3>2
      <4> QED
        BY <2>1, <4>1, <4>2 DEF Read, FollowsAt
    <3> QED
      BY <3>1, <3>2
  <2> QED
    BY <1>2, <2>1, <2>2 DEF GetInv
<1>8. ElementInv' /\ ReturnInv'
  BY DEF ElementInv, ReturnInv
<1> QED
  BY <1>3, <1>4, <1>5, <1>6, <1>7, <1>8 DEF Inv

LEMMA GetScalarInv ==
  ASSUME Inv, GetScalar
  PROVE  Inv'
<1> DEFINE s == Outputs[at]
           v == globals[s.name]
<1>1. phase = "get" /\ returned = "none" /\ ~IsArray(s) /\ stack' = <<>>
  BY SetTopZero DEF GetScalar, Inv, ReturnInv
<1>2. at \in DOMAIN Outputs /\ at \in Nat \ {0}
  <2>1. at \in Nat \ {0} /\ at <= Len(Outputs)
    BY Zenon DEF GetScalar, Inv, TypeInv
  <2> QED
    BY ONLY <2>1, Lengths
<1>3. UNCHANGED <<L, globals, inputs, named, clean, newest>>
  BY Zenon DEF GetScalar, history
<1>4. s.type \in Types /\ 1 \in 1..Elements(s) /\ Elements(s) = 1
  <2>1. s.type \in Types /\ s.size \in Nat
    BY <1>2, OutputIsSignal
  <2> QED
    BY <1>1, <2>1 DEF IsArray, Elements
<1>5. v \in Scalars
  BY <1>1, <1>2 DEF Inv, GetInv, Results
<1>6. /\ Accepted(s.type, v) => Follows(s.type, Written(s.type, v), v)
      /\ ~Accepted(s.type, v) => ~ValidScalar(s.type, v) \/ v.kind = "boolean"
  BY <1>4, <1>5, AcceptedFollows
<1>7. IsMemory(Outputs, outputs)
  BY Zenon DEF Inv, TypeInv
<1>8. CASE Accepted(s.type, v)
  <2> DEFINE w == Written(s.type, v)
             o == [outputs EXCEPT ![at][1] = w]
  <2>1. outputs' = o /\ at' = at + 1 /\ UNCHANGED <<phase, el, returned>>
    BY <1>8 DEF GetScalar
  <2>2. w \in Int
    BY <1>4, <1>5, <1>8, ScalarsAreLua, WrittenIsInt DEF Accepted
  <2> HIDE DEF w
  <2>3. /\ IsMemory(Outputs, o) /\ o[at][1] = w
        /\ \A p \in DOMAIN Outputs \ {at} : o[p] = outputs[p]
    BY <1>2, <1>4, <1>7, <2>2, WriteElement
  <2>4. Read(at, globals, o, clean)
    <3>1. FollowsAt(at, 1, globals, o)
      BY <1>1, <1>6, <1>8, <2>3 DEF FollowsAt, ElementOf, w
    <3>2. \A k \in 1..Elements(s) : k = 1
      BY ONLY <1>4
    <3> QED
      BY <3>1, <3>2 DEF Read
  <2> HIDE DEF o
  <2> QED
    BY <1>1, <1>2, <1>3, <2>1, <2>3, <2>4, NextOutputInv
<1>9. CASE ~Accepted(s.type, v)
  <2>1. Fail /\ outputs' \in {outputs, [outputs EXCEPT ![at][1] = 0]}
    BY <1>9 DEF GetScalar
  <2>2. IsMemory(Outputs, outputs')
    <3>1. IsMemory(Outputs, [outputs EXCEPT ![at][1] = 0])
      BY <1>2, <1>4, <1>7, WriteElement
    <3> QED
      BY <1>7, <2>1, <3>1, Zenon
  <2>3. Reason
    <3>1. Refused(at, 1, globals)
      BY <1>1, <1>6, <1>9 DEF Refused, ElementOf
    <3> QED
      BY <1>2, <1>4, <3>1 DEF Reason
  <2> QED
    BY <1>1, <1>3, <2>1, <2>2, <2>3, EmptyIsStack, FailInv
<1> QED
  BY <1>8, <1>9

LEMMA GetTableInv ==
  ASSUME Inv, GetTable
  PROVE  Inv'
<1> DEFINE s == Outputs[at]
           v == globals[s.name]
<1>1. phase = "get" /\ returned = "none" /\ IsArray(s)
  BY DEF GetTable, Inv, ReturnInv
<1>2. at \in DOMAIN Outputs /\ at \in Nat \ {0}
  <2>1. at \in Nat \ {0} /\ at <= Len(Outputs)
    BY Zenon DEF GetTable, Inv, TypeInv
  <2> QED
    BY ONLY <2>1, Lengths
<1>3. UNCHANGED <<L, globals, inputs, outputs, named, clean, newest>>
  BY Zenon DEF GetTable, history
<1>4. s.type \in Types /\ s.size \in Nat /\ 1 \in 1..Elements(s)
  <2>1. s.type \in Types /\ s.size \in Nat /\ Elements(s) \in Nat \ {0}
    BY <1>2, OutputIsSignal
  <2> QED
    BY <2>1
<1>5. v \in Results(s) /\ IsStack(stack) /\ (stack # <<>> => IsTable(stack[1]))
  BY <1>1, <1>2 DEF Inv, GetInv, StackInv
<1>6. CASE v.kind = "table"
  <2>1. /\ stack' = Push(stack, v) /\ phase' = "element" /\ el' = 1
        /\ at' = at /\ returned' = returned
    BY <1>6 DEF GetTable
  <2>2. NamedInv' /\ ReadyInv' /\ CrashesAreKnown' /\ phase' \in Phases /\ L' \in BOOLEAN
    BY <1>1, <1>3, <2>1, WithinTheCycle DEF Cycle
  <2>3. el' \in Nat \ {0} /\ ~(el' > 1)
    <3>1. el' = 1
      BY <2>1
    <3> QED
      BY ONLY <3>1
  <2>4. TypeInv'
    BY <1>3, <2>1, <2>2, <2>3 DEF Inv, TypeInv
  <2>5. /\ IsStack(stack') /\ stack' # <<>> /\ Top(stack') = v
        /\ stack' = <<>> \/ IsTable(stack'[1])
        /\ stack = <<>> => stack' = <<v>>
    <3>1. IsTable(v)
      BY <1>2, <1>5, <1>6, ResultIsTable
    <3> HIDE DEF v
    <3>2. /\ IsStack(Push(stack, v)) /\ Push(stack, v) # <<>> /\ Top(Push(stack, v)) = v
          /\ \A k \in 1..Len(stack) : Push(stack, v)[k] = stack[k]
          /\ Push(stack, v)[Len(stack) + 1] = v
      BY <1>5, PushOnStack
    <3>3. CASE stack = <<>>
      <4>1. Push(<<>>, v) = <<v>>
        BY DEF Push
      <4>2. <<v>>[1] = v
        OBVIOUS
      <4> QED
        BY <2>1, <3>1, <3>2, <3>3, <4>1, <4>2
    <3>4. CASE stack # <<>>
      <4>1. Len(stack) \in Nat \ {0}
        BY <1>5, <3>4, NotEmpty
      <4>2. 1 \in 1..Len(stack)
        BY ONLY <4>1
      <4> QED
        BY <1>5, <2>1, <3>2, <3>4, <4>2
    <3> QED
      BY <3>3, <3>4
  <2>6. StackInv'
    <3>1. Outputs # <<>>
      BY <1>2
    <3> QED
      BY <2>1, <2>5, <3>1 DEF StackInv
  <2>7. TableInv'
    <3>1. at > 1 \/ clean => stack = <<>>
      BY <1>1 DEF Inv, StackInv
    <3> QED
      BY <1>3, <2>1, <2>3, <2>5, <3>1 DEF TableInv
  <2>8. VariablesInv'
    BY <1>1, <1>3, <2>1 DEF Inv, VariablesInv
  <2>9. GetInv'
    BY <1>1, <1>3, <2>1 DEF Inv, GetInv
  <2>10. ElementInv'
    <3>1. el' <= s.size + 1 /\ \A k \in 1..s.size : ~(k < el')
      <4>1. el' = 1 /\ s.size \in Nat
        BY <1>4, <2>1
      <4> QED
        BY ONLY <4>1
    <3> QED
      BY <1>1, <1>2, <1>3, <1>6, <2>1, <3>1, Zenon DEF ElementInv
  <2>11. StackIsEmpty' /\ ReturnInv'
    BY <1>1, <2>1 DEF StackIsEmpty, ReturnInv
  <2> QED
    BY <2>2, <2>4, <2>6, <2>7, <2>8, <2>9, <2>10, <2>11 DEF Inv
<1>7. CASE v.kind # "table"
  <2>1. Fail /\ stack' = <<>>
    BY <1>7, SetTopZero DEF GetTable
  <2>2. v \in Scalars
    BY <1>5, <1>7 DEF Results, Table
  <2>3. Item(v, 1) = Nil
    <3>1. ASSUME NEW x \in Scalars PROVE x.items = <<>>
      <4>1. CASE x = Nil
        BY <4>1 DEF Nil
      <4>2. CASE \E n \in Numbers : x = Num(n)
        BY <4>2 DEF Num
      <4>3. CASE \E n \in Flags : x = Bool(n)
        BY <4>3 DEF Bool
      <4> QED
        BY <4>1, <4>2, <4>3 DEF Scalars
    <3>2. 1 \notin DOMAIN <<>>
      OBVIOUS
    <3> HIDE DEF v
    <3> QED
      BY <2>2, <3>1, <3>2 DEF Item
  <2>4. Refused(at, 1, globals)
    BY <1>1, <2>3 DEF Refused, ElementOf, ValidScalar, Nil
  <2>5. Reason
    BY <1>2, <1>4, <2>4 DEF Reason
  <2>6. IsMemory(Outputs, outputs')
    BY <1>3 DEF Inv, TypeInv
  <2> QED
    BY <1>1, <1>3, <2>1, <2>5, <2>6, EmptyIsStack, FailInv
<1> QED
  BY <1>6, <1>7

(* The element that is read next is one of a table, and of the variable of *)
(* its output unless the stack was left full.                              *)
LEMMA ElementIsRead ==
  ASSUME Inv, phase = "element", el <= Outputs[at].size,
         stack # <<>>, Top(stack).kind = "table"
  PROVE  /\ Item(Top(stack), el) \in LuaScalars
         /\ clean \/ at > 1 \/ el = 1 =>
              /\ Top(stack) = globals[Outputs[at].name]
              /\ Item(Top(stack), el) \in Scalars
<1> DEFINE s == Outputs[at]
           t == globals[s.name]
<1>1. at \in DOMAIN Outputs /\ IsArray(s) /\ t.kind = "table" /\ t \in Results(s)
  BY DEF Inv, ElementInv, GetInv
<1>2. el \in 1..s.size /\ el \in Nat
  <2>1. el \in Nat \ {0}
    BY Zenon DEF Inv, TypeInv
  <2>2. s.size \in Nat
    BY <1>1, OutputIsSignal
  <2> QED
    BY <2>1, <2>2
<1>3. Item(t, el) \in Scalars
  BY <1>1, <1>2, ResultIsTable
<1>4. CASE el = 1
  <2>1. Top(stack) = t
    BY <1>4 DEF Inv, TableInv
  <2> QED
    BY <1>3, <2>1, ScalarsAreLua
<1>5. CASE el # 1
  <2>1. el > 1 /\ ~Unsigned(s) /\ Len(stack) = 1 /\ (clean \/ at > 1 => stack = <<t>>)
    <3>1. el > 1
      BY ONLY <1>2, <1>5
    <3> QED
      BY <1>5, <3>1 DEF Inv, TableInv
  <2>2. Top(stack) = stack[1] /\ IsTable(stack[1])
    BY <2>1 DEF Top, Inv, StackInv
  <2>3. Item(Top(stack), el) \in LuaScalars
    BY <1>2, <2>2 DEF IsTable
  <2>4. clean \/ at > 1 => Top(stack) = t
    BY <2>1, OneIsStack
  <2> QED
    BY <1>3, <1>5, <2>3, <2>4
<1> QED
  BY <1>4, <1>5

(* What the element that is read leaves on the stack.                      *)
LEMMA ElementStack ==
  ASSUME Inv, phase = "element", stack # <<>>, NEW v
  PROVE  /\ IsStack(AfterElement(Push(stack, v), Outputs[at].type))
         /\ Unsigned(Outputs[at]) => AfterElement(Push(stack, v), Outputs[at].type) = <<>>
         /\ ~Unsigned(Outputs[at]) =>
              AfterElement(Push(stack, v), Outputs[at].type) = <<stack[1]>>
         /\ IsStack(Push(stack, v)) /\ IsTable(stack[1])
         /\ Len(Push(stack, v)) > 1 /\ Push(stack, v) # <<>> /\ Push(stack, v)[1] = stack[1]
         /\ Top(Push(stack, v)) = v /\ Push(stack, v)[Len(Push(stack, v)) - 1] = Top(stack)
<1>1. IsStack(stack) /\ IsTable(stack[1])
  BY DEF Inv, StackInv
<1>2. Len(stack) \in Nat \ {0}
  BY <1>1, NotEmpty
<1> DEFINE p == Push(stack, v)
<1>3. /\ IsStack(p) /\ Len(p) = Len(stack) + 1 /\ \A k \in 1..Len(stack) : p[k] = stack[k]
      /\ Top(p) = v /\ p # <<>>
  BY <1>1, PushOnStack
<1> HIDE DEF p
<1>4. 1 \in 1..Len(stack) /\ Len(stack) \in 1..Len(stack) /\ Len(p) > 1 /\ Len(p) >= 1
      /\ Len(p) - 1 = Len(stack)
  BY ONLY <1>2, <1>3
<1>5. p[1] = stack[1] /\ p[Len(p) - 1] = Top(stack)
  BY <1>3, <1>4 DEF Top
<1>6. SetTop(p, 1) = <<stack[1]>> /\ SetTop(p, 0) = <<>>
  BY <1>3, <1>4, <1>5, SetTopZero, SetTopOne
<1>7. /\ Unsigned(Outputs[at]) => AfterElement(p, Outputs[at].type) = <<>>
      /\ ~Unsigned(Outputs[at]) => AfterElement(p, Outputs[at].type) = <<stack[1]>>
  BY <1>6 DEF AfterElement, Unsigned
<1>8. IsStack(AfterElement(p, Outputs[at].type))
  BY <1>7, EmptyIsStack, OneIsStack
<1> QED
  BY <1>1, <1>3, <1>4, <1>5, <1>7, <1>8 DEF p

LEMMA GetElementInv ==
  ASSUME Inv, GetElement
  PROVE  Inv'
<1> DEFINE s == Outputs[at]
           top == Top(stack)
           v == Item(top, el)
           found == stack # <<>> /\ top.kind = "table"
<1>1. phase = "element" /\ returned = "none" /\ el <= s.size
  BY DEF GetElement, Inv, ReturnInv
<1>2. UNCHANGED <<L, globals, inputs, named, clean, newest>>
  BY Zenon DEF GetElement, history
<1>3. /\ at \in DOMAIN Outputs /\ IsArray(s) /\ globals[s.name].kind = "table"
      /\ \A k \in 1..s.size :
           k < el /\ (clean \/ at > 1 \/ k = 1) => FollowsAt(at, k, globals, outputs)
  BY <1>1 DEF Inv, ElementInv
<1>4. s.size \in Nat /\ el \in 1..s.size /\ Elements(s) = s.size /\ s.type \in Types
      /\ el \in Nat \ {0} /\ at \in Nat \ {0}
  <2>1. el \in Nat \ {0} /\ el <= s.size /\ at \in Nat \ {0}
    BY Zenon DEF GetElement, Inv, TypeInv
  <2>2. s.size \in Nat /\ ~(s.size <= 1) /\ s.type \in Types
    BY <1>3, OutputIsSignal DEF IsArray
  <2> QED
    BY <2>1, <2>2 DEF Elements
<1>5. IsMemory(Outputs, outputs)
  BY Zenon DEF Inv, TypeInv
<1>6. CASE ~found
  <2>1. phase' = "crashed" /\ UNCHANGED <<at, el, stack, outputs, returned>>
    BY <1>6 DEF GetElement
  <2>2. el > 1 /\ Unsigned(s)
    <3>1. el = 1 => found
      BY <1>1, <1>3 DEF Inv, TableInv
    <3>2. el > 1
      BY ONLY <1>4, <1>6, <3>1
    <3>3. ~Unsigned(s) => found
      <4>1. ASSUME ~Unsigned(s) PROVE found
        <5>1. Len(stack) = 1 /\ IsStack(stack)
          BY <1>1, <3>2, <4>1 DEF Inv, TableInv, StackInv
        <5>2. stack # <<>>
          BY <5>1, EmptyIsStack
        <5>3. IsTable(stack[1]) /\ top = stack[1]
          BY <5>1, <5>2 DEF Inv, StackInv, Top
        <5> QED
          BY <5>2, <5>3 DEF IsTable
      <4> QED
        BY <4>1
    <3> QED
      BY <1>6, <3>2, <3>3
  <2>3. CrashesAreKnown'
    <3>1. L
      BY <1>1 DEF Inv, ReadyInv
    <3> QED
      BY <1>2, <1>3, <2>1, <2>2, <3>1 DEF CrashesAreKnown, Unsigned
  <2>4. TypeInv'
    <3>1. phase' \in Phases
      BY <2>1 DEF Phases
    <3> QED
      BY <1>2, <2>1, <3>1 DEF Inv, TypeInv
  <2>5. NamedInv' /\ ReadyInv'
    BY <1>2, <2>1 DEF Inv, NamedInv, ReadyInv
  <2>6. StackInv' /\ TableInv' /\ StackIsEmpty'
    BY <2>1 DEF Inv, StackInv, TableInv, StackIsEmpty
  <2>7. VariablesInv'
    BY <1>1, <1>2, <2>1 DEF Inv, VariablesInv
  <2>8. GetInv' /\ ElementInv' /\ ReturnInv'
    BY <1>1, <2>1 DEF GetInv, ElementInv, ReturnInv
  <2> QED
    BY <2>3, <2>4, <2>5, <2>6, <2>7, <2>8 DEF Inv
<1>7. CASE found
  <2>1. /\ v \in LuaScalars
        /\ clean \/ at > 1 \/ el = 1 => top = globals[s.name] /\ v \in Scalars
    BY <1>1, <1>7, ElementIsRead
  <2>2. /\ IsStack(AfterElement(Push(stack, v), s.type))
        /\ Unsigned(s) => AfterElement(Push(stack, v), s.type) = <<>>
        /\ ~Unsigned(s) => AfterElement(Push(stack, v), s.type) = <<stack[1]>>
        /\ IsStack(Push(stack, v)) /\ IsTable(stack[1])
        /\ Len(Push(stack, v)) > 1 /\ Push(stack, v)[1] = stack[1]
        /\ Top(Push(stack, v)) = v
        /\ Push(stack, v)[Len(Push(stack, v)) - 1] = top
    BY <1>1, <1>7, ElementStack
  <2>3. clean \/ at > 1 \/ el = 1 =>
          /\ Accepted(s.type, v) => Follows(s.type, Written(s.type, v), v)
          /\ ~Accepted(s.type, v) => Refused(at, el, globals)
    BY <1>3, <1>4, <2>1, AcceptedFollows DEF Refused, ElementOf
  <2>4. CASE Accepted(s.type, v)
    <3> DEFINE w == Written(s.type, v)
               o == [outputs EXCEPT ![at][el] = w]
    <3>1. /\ outputs' = o /\ stack' = AfterElement(Push(stack, v), s.type)
          /\ phase' = phase /\ at' = at /\ el' = el + 1 /\ returned' = returned
      BY <1>7, <2>4 DEF GetElement
    <3>2. w \in Int
      BY <1>4, <2>1, <2>4, WrittenIsInt DEF Accepted
    <3>3. /\ IsMemory(Outputs, o) /\ o[at][el] = w
          /\ \A p \in DOMAIN Outputs \ {at} : o[p] = outputs[p]
          /\ \A l \in 1..s.size \ {el} : o[at][l] = outputs[at][l]
      <4> HIDE DEF w
      <4> QED
        BY <1>3, <1>4, <1>5, <3>2, WriteElement
    <3>4. el' \in Nat \ {0} /\ el' <= s.size + 1 /\ el' > 1 /\ el' # 1
      BY ONLY <1>4, <3>1
    <3>5. NamedInv' /\ ReadyInv' /\ CrashesAreKnown' /\ phase' \in Phases /\ L' \in BOOLEAN
      BY <1>1, <1>2, <3>1, WithinTheCycle DEF Cycle
    <3>6. IsMemory(Outputs, outputs')
      BY <3>1, <3>3
    <3>7. TypeInv'
      BY <1>2, <3>1, <3>4, <3>5, <3>6 DEF Inv, TypeInv
    <3>8. /\ IsStack(stack')
          /\ Unsigned(s) => stack' = <<>>
          /\ ~Unsigned(s) => stack' = <<stack[1]>>
      BY <2>2, <3>1
    <3>9. StackInv'
      <4>1. stack' # <<>> => IsTable(stack'[1])
        BY <2>2, <3>8, OneIsStack
      <4>2. Outputs # <<>>
        BY <1>3
      <4> QED
        BY <1>1, <3>1, <3>8, <4>1, <4>2 DEF StackInv
    <3>10. TableInv'
      <4>1. ~Unsigned(s) => Len(stack') = 1
        BY <3>8, OneIsStack
      <4>2. (at > 1 \/ clean) /\ ~Unsigned(s) => stack' = <<globals[s.name]>>
        <5>1. ASSUME at > 1 \/ clean, ~Unsigned(s)
              PROVE  stack' = <<globals[s.name]>>
          <6>1. stack = <<globals[s.name]>>
            BY <1>1, <5>1 DEF Inv, TableInv
          <6>2. stack[1] = globals[s.name]
            BY <6>1, OneIsStack
          <6> QED
            BY <3>8, <5>1, <6>2
        <5> QED
          BY <5>1
      <4> QED
        BY <1>2, <3>1, <3>4, <3>8, <4>1, <4>2 DEF TableInv
    <3>11. VariablesInv'
      BY <1>1, <1>2, <3>1 DEF Inv, VariablesInv
    <3>12. GetInv'
      <4>1. ASSUME NEW p \in DOMAIN Outputs, p < at
            PROVE  Read(p, globals', outputs', clean')
        <5>1. Read(p, globals, outputs, clean)
          BY <1>1, <4>1 DEF Inv, GetInv
        <5>2. p # at
          BY ONLY <1>4, <4>1, Lengths
        <5>3. outputs'[p] = outputs[p]
          BY <3>1, <3>3, <5>2
        <5> QED
          BY <1>2, <5>1, <5>3 DEF Read, FollowsAt
      <4>2. /\ at <= Len(Outputs) + 1
            /\ \A p \in DOMAIN Outputs : globals'[Outputs[p].name] \in Results(Outputs[p])
        BY <1>1, <1>2 DEF Inv, GetInv
      <4> QED
        BY <3>1, <4>1, <4>2 DEF GetInv
    <3>13. ElementInv'
      <4>1. ASSUME NEW k \in 1..s.size, k < el', clean \/ at > 1 \/ k = 1
            PROVE  FollowsAt(at, k, globals, outputs')
        <5>1. CASE k = el
          <6>1. outputs'[at][k] = w /\ Follows(s.type, w, v) /\ top = globals[s.name]
            BY <2>1, <2>3, <2>4, <3>1, <3>3, <4>1, <5>1
          <6> QED
            BY <1>3, <5>1, <6>1 DEF FollowsAt, ElementOf
        <5>2. CASE k # el
          <6>1. k < el
            BY ONLY <1>4, <3>1, <4>1, <5>2
          <6>2. outputs'[at][k] = outputs[at][k]
            BY <3>1, <3>3, <5>2
          <6> QED
            BY <1>3, <4>1, <6>1, <6>2 DEF FollowsAt
        <5> QED
          BY <5>1, <5>2
      <4> QED
        BY <1>2, <1>3, <3>1, <3>4, <4>1 DEF ElementInv
    <3>14. StackIsEmpty' /\ ReturnInv'
      BY <1>1, <3>1 DEF StackIsEmpty, ReturnInv
    <3> QED
      BY <3>5, <3>7, <3>9, <3>10, <3>11, <3>12, <3>13, <3>14 DEF Inv
  <2>5. CASE ~Accepted(s.type, v)
    <3>1. /\ Fail /\ outputs' \in {outputs, [outputs EXCEPT ![at][el] = 0]}
          /\ v.kind = "number" => stack' = <<>>
          /\ v.kind # "number" => stack' = Push(stack, v)
      BY <1>7, <2>5, SetTopZero DEF GetElement
    <3>2. IsMemory(Outputs, outputs')
      <4>1. IsMemory(Outputs, [outputs EXCEPT ![at][el] = 0])
        BY <1>3, <1>4, <1>5, WriteElement
      <4> QED
        BY <1>5, <3>1, <4>1, Zenon
    <3>3. Reason
      <4>1. CASE clean \/ at > 1 \/ el = 1
        <5>1. Refused(at, el, globals)
          BY <2>3, <2>5, <4>1
        <5> QED
          BY <1>3, <1>4, <5>1 DEF Reason
      <4>2. CASE ~(clean \/ at > 1 \/ el = 1)
        <5>1. at = 1 /\ el > 1 /\ ~clean
          BY <1>4, <4>2
        <5> QED
          BY <1>3, <5>1 DEF Reason
      <4> QED
        BY <4>1, <4>2
    <3>4. /\ IsStack(stack') /\ (stack' # <<>> => IsTable(stack'[1]))
          /\ stack' # <<>> => /\ Len(stack') > 1 /\ Top(stack').kind # "number"
                              /\ stack'[Len(stack') - 1].kind = "table"
      <4>1. CASE v.kind = "number"
        BY <3>1, <4>1, EmptyIsStack
      <4>2. CASE v.kind # "number"
        <5>1. stack' = Push(stack, v) /\ top.kind = "table"
          BY <1>7, <3>1, <4>2
        <5> HIDE DEF v, top
        <5> QED
          BY <2>2, <4>2, <5>1
      <4> QED
        BY <4>1, <4>2
    <3> QED
      BY <1>1, <1>2, <1>3, <3>1, <3>2, <3>3, <3>4, FailInv
  <2> QED
    BY <2>4, <2>5
<1> QED
  BY <1>6, <1>7

LEMMA GetTableEndInv ==
  ASSUME Inv, GetTableEnd
  PROVE  Inv'
<1> DEFINE s == Outputs[at]
<1>1. phase = "element" /\ phase' = "get" /\ returned = "none" /\ stack' = <<>>
  BY SetTopZero DEF GetTableEnd, Inv, ReturnInv
<1>2. /\ at \in DOMAIN Outputs /\ IsArray(s)
      /\ \A k \in 1..s.size :
           k < el /\ (clean \/ at > 1 \/ k = 1) => FollowsAt(at, k, globals, outputs)
  BY <1>1 DEF Inv, ElementInv
<1>3. UNCHANGED <<el, L, globals, inputs, outputs, named, returned, clean, newest>>
      /\ at' = at + 1
  BY Zenon DEF GetTableEnd, Memory, history
<1>4. Elements(s) = s.size /\ \A k \in 1..s.size : k < el
  <2>1. el \in Nat \ {0} /\ el > s.size
    BY Zenon DEF GetTableEnd, Inv, TypeInv
  <2>2. s.size \in Nat /\ ~(s.size <= 1)
    BY <1>2, OutputIsSignal DEF IsArray
  <2> QED
    BY <2>1, <2>2 DEF Elements
<1>5. Read(at, globals, outputs', clean)
  BY <1>2, <1>3, <1>4 DEF Read
<1>6. IsMemory(Outputs, outputs') /\ \A p \in DOMAIN Outputs \ {at} : outputs'[p] = outputs[p]
  BY <1>3 DEF Inv, TypeInv
<1> QED
  BY <1>1, <1>2, <1>3, <1>5, <1>6, NextOutputInv

LEMMA ReturnKeepsInv ==
  ASSUME Inv, Return
  PROVE  Inv'
<1>1. phase = "get" /\ phase' = "idle" /\ returned' = "true"
  BY DEF Return
<1>2. UNCHANGED <<at, el, L, stack, globals, inputs, outputs, named, clean, newest>>
  BY Zenon DEF Return, Memory, history
<1>3. at \in Nat \ {0} /\ at > Len(Outputs)
  BY Zenon DEF Return, Inv, TypeInv
<1>4. NamedInv' /\ ReadyInv' /\ CrashesAreKnown' /\ phase' \in Phases /\ L' \in BOOLEAN
  BY <1>1, <1>2, WithinTheCycle DEF Cycle
<1>5. TypeInv'
  BY <1>1, <1>2, <1>4 DEF Inv, TypeInv
<1>6. StackInv' /\ TableInv'
  BY <1>1, <1>2 DEF Inv, StackInv, TableInv
<1>7. StackIsEmpty'
  <2>1. CASE Outputs = <<>>
    BY <1>2, <2>1 DEF Inv, StackInv, StackIsEmpty
  <2>2. CASE Outputs # <<>>
    <3>1. Len(Outputs) # 0
      BY <2>2, SignalsAssumption DEF SignalsAssumption
    <3>2. at > 1
      BY ONLY <1>3, <3>1, Lengths
    <3> QED
      BY <1>1, <1>2, <3>2 DEF Inv, StackInv, StackIsEmpty
  <2> QED
    BY <2>1, <2>2
<1>8. VariablesInv'
  BY <1>1, <1>2 DEF Inv, VariablesInv
<1>9. GetInv' /\ ElementInv'
  BY <1>1 DEF GetInv, ElementInv
<1>10. ReturnInv'
  <2>1. \A o \in DOMAIN Outputs : o < at
    BY ONLY <1>3, Lengths
  <2>2. \A o \in DOMAIN Outputs : Read(o, globals, outputs, clean)
    BY <1>1, <2>1 DEF Inv, GetInv
  <2> QED
    BY <1>1, <1>2, <2>2 DEF ReturnInv
<1> QED
  BY <1>4, <1>5, <1>6, <1>7, <1>8, <1>9, <1>10 DEF Inv

-----------------------------------------------------------------------------
(* Every step, and the theorems.                                           *)

LEMMA StutterInv ==
  ASSUME Inv, UNCHANGED vars
  PROVE  Inv'
<1>1. UNCHANGED <<phase, at, el, L, stack, globals, inputs, outputs, named, returned,
                  clean, newest>>
  BY DEF vars
<1>2. TypeInv' /\ NamedInv' /\ ReadyInv' /\ CrashesAreKnown'
  BY <1>1 DEF Inv, TypeInv, NamedInv, ReadyInv, CrashesAreKnown
<1>3. StackInv' /\ TableInv' /\ StackIsEmpty'
  BY <1>1 DEF Inv, StackInv, TableInv, StackIsEmpty
<1>4. VariablesInv' /\ GetInv'
  BY <1>1 DEF Inv, VariablesInv, GetInv
<1>5. ElementInv' /\ ReturnInv'
  BY <1>1 DEF Inv, ElementInv, ReturnInv, Reason
<1> QED
  BY <1>2, <1>3, <1>4, <1>5 DEF Inv

LEMMA StepInv ==
  ASSUME Inv, Next
  PROVE  Inv'
<1>1. CASE \E coded, right \in BOOLEAN, internals, auxiliaries \in Chunks :
             Initialise(coded, right, internals, auxiliaries)
  BY <1>1, InitialiseInv, Zenon
<1>2. CASE \E valid \in BOOLEAN : SetupBegin(valid)
  BY <1>2, SetupBeginInv, Zenon
<1>3. CASE \E good \in BOOLEAN : SetupInput(good) \/ SetupOutput(good)
  BY <1>3, SetupInputInv, SetupOutputInv, Zenon
<1>4. CASE \E m \in InputMemory : Execute(m)
  BY <1>4, ExecuteInv, Zenon
<1>5. CASE \E new \in NewVariables : Call(new) \/ CallFails(new)
  BY <1>5, CallInv, CallFailsInv, Zenon
<1>6. CASE Steps
  <2>1. CASE SetupInputsEnd
    BY <2>1, SetupInputsEndInv
  <2>2. CASE SetupEnd
    BY <2>2, SetupEndInv
  <2>3. CASE Destroy
    BY <2>3, DestroyInv
  <2>4. CASE PushInput
    BY <2>4, PushInputInv
  <2>5. CASE GetScalar
    BY <2>5, GetScalarInv
  <2>6. CASE GetTable
    BY <2>6, GetTableInv
  <2>7. CASE GetElement
    BY <2>7, GetElementInv
  <2>8. CASE GetTableEnd
    BY <2>8, GetTableEndInv
  <2>9. CASE Return
    BY <2>9, ReturnKeepsInv
  <2> QED
    BY <1>6, <2>1, <2>2, <2>3, <2>4, <2>5, <2>6, <2>7, <2>8, <2>9 DEF Steps
<1> QED
  BY <1>1, <1>2, <1>3, <1>4, <1>5, <1>6 DEF Next

THEOREM Invariance == Spec => []Inv
<1>1. Init => Inv
  BY InitInv
<1>2. Inv /\ [Next]_vars => Inv'
  BY StepInv, StutterInv
<1> QED
  BY <1>1, <1>2, PTL DEF Spec

(* Every variable of LuaGAM keeps its type, for any signals.               *)
THEOREM TypeCorrect == Spec => []TypeOK
<1>1. Inv => TypeOK
  BY InvGivesProperties
<1> QED
  BY <1>1, Invariance, PTL

(* Nothing is used that is not there but in three cases: chunks run in no  *)
(* Lua state, names are deleted that were never copied, and elements of an *)
(* array without sign are read after the first one has cleared the stack.  *)
THEOREM CrashesHaveCause == Spec => []CrashesAreKnown
<1>1. Inv => CrashesAreKnown
  BY InvGivesProperties
<1> QED
  BY <1>1, Invariance, PTL

(* What is on the stack between two cycles is an element that is no number *)
(* over its table, after a cycle that returned false, or a refused array   *)
(* of inputs of a GAM that has no outputs.                                 *)
THEOREM StackKept == Spec => []StackIsEmpty
<1>1. Inv => StackIsEmpty
  BY InvGivesProperties
<1> QED
  BY <1>1, Invariance, PTL

(* GAM() is called with the newest values of the inputs that Lua can be    *)
(* given, which are those of an earlier cycle where this one's are not.    *)
THEOREM InputsAreNewest == Spec => []InputsReachTheCode
<1>1. Inv => InputsReachTheCode
  BY InvGivesProperties
<1> QED
  BY <1>1, Invariance, PTL

(* When Execute returns true every output has the value of its variable,   *)
(* less a fraction or narrowed, but for the elements after the first one   *)
(* of the first output where the stack was not empty at the return of      *)
(* GAM().                                                                  *)
THEOREM OutputsAreCurrent == Spec => []OutputsFollowUnlessStale
<1>1. Inv => OutputsFollowUnlessStale
  BY InvGivesProperties
<1> QED
  BY <1>1, Invariance, PTL

(* Execute returns false because of an output only where an element of it  *)
(* is not of its type or a Lua boolean, or is not read from its own table. *)
THEOREM FailureHasReason == Spec => []ValidOutputsAreRead
<1>1. Inv => ValidOutputsAreRead
  BY InvGivesProperties
<1> QED
  BY <1>1, Invariance, PTL
=============================================================================
