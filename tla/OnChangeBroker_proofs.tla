------------------------ MODULE OnChangeBroker_proofs ------------------------
(***************************************************************************)
(* Proofs about OnChangeBroker, for any number of functions, signals and   *)
(* events.                                                                 *)
(***************************************************************************)
EXTENDS OnChangeBroker, TLAPS

(* What a step of one function leaves alone of the others.                 *)
Frame(g) ==
  /\ table'[g] = table[g] /\ byteSize'[g] = byteSize[g] /\ mask'[g] = mask[g]
  /\ values'[g] = values[g] /\ prev'[g] = prev[g] /\ counter'[g] = counter[g]
  /\ pc'[g] = pc[g] /\ at'[g] = at[g] /\ flags' = flags

(* The part of the type invariant that speaks of one function.             *)
BrokerOK(f) ==
  /\ Attached(f) =>
       /\ flags # NULL
       /\ mask[f] = flags
       /\ table[f] \in Layouts[f]
       /\ byteSize[f] = ElementBytes(table[f])
       /\ values[f] \in [Copies(f) -> Values]
  /\ prev[f] \in [Copies(f) -> Values \cup {Unwritten}] \cup {NULL}
  /\ pc[f] = "copy" => at[f] \in Copies(f)
  /\ ~Attached(f) => prev[f] = NULL /\ table[f] = <<>>
  /\ pc[f] \in {"event", "copy"} => prev[f] # NULL

VarsOK ==
  /\ flags \in [Signals -> 0 .. 1] \cup {NULL}
  /\ DOMAIN table = Functions
  /\ DOMAIN byteSize = Functions
  /\ DOMAIN mask = Functions
  /\ DOMAIN values = Functions
  /\ DOMAIN prev = Functions
  /\ counter \in [Functions -> Nat]
  /\ pc \in [Functions ->
             {"absent", "failed", "gam", "compare", "event", "copy"}]
  /\ at \in [Functions -> Nat]
  /\ lines \in Seq(Lines)

TypeInv == VarsOK /\ \A f \in Functions : BrokerOK(f)

LEMMA TypeInvGivesTypeOK == TypeInv => TypeOK
BY DEF TypeInv, VarsOK, BrokerOK, TypeOK

LEMMA InitTypeInv == Init => TypeInv
BY ConstantsAssumption
   DEF ConstantsAssumption, Init, TypeInv, VarsOK, BrokerOK, Attached

(* The copies of a broker are numbered from 1 and there is at least one.   *)
LEMMA LayoutLength ==
  ASSUME NEW f \in Functions, NEW layout \in Layouts[f]
  PROVE  Len(layout) \in Nat \ {0} /\ layout \in Seq(Copy)
BY ConstantsAssumption DEF ConstantsAssumption

LEMMA FrameOK ==
  ASSUME NEW g \in Functions, BrokerOK(g), Frame(g)
  PROVE  BrokerOK(g)'
BY DEF BrokerOK, Frame, Attached, Copies

LEMMA OthersKept ==
  ASSUME VarsOK, NEW f \in Functions, Step(f), NEW g \in Functions \ {f}
  PROVE  Frame(g)
<1>1. CASE GetOutputBrokers(f)
  BY <1>1 DEF VarsOK, GetOutputBrokers, BrokerInit, SetMask, brokerVars, Frame
<1>2. CASE GamExecute(f)
  BY <1>2 DEF VarsOK, GamExecute, brokerVars, Frame
<1>3. CASE Compare(f)
  BY <1>3 DEF VarsOK, Compare, Allocate, Trigger, Ignore, brokerVars, Frame
<1>4. CASE LogEvent(f)
  BY <1>4 DEF VarsOK, LogEvent, brokerVars, Frame
<1>5. CASE LogCopy(f)
  BY <1>5 DEF VarsOK, LogCopy, brokerVars, Frame
<1> QED
  BY <1>1, <1>2, <1>3, <1>4, <1>5 DEF Step

LEMMA StepVarsOK ==
  ASSUME TypeInv, NEW f \in Functions, Step(f)
  PROVE  VarsOK'
<1> USE DEF TypeInv, VarsOK
<1>1. CASE GetOutputBrokers(f)
  BY <1>1 DEF GetOutputBrokers, BrokerInit, SetMask, brokerVars
<1>2. CASE GamExecute(f)
  BY <1>2 DEF GamExecute, brokerVars
<1>3. CASE Compare(f)
  BY <1>3 DEF Compare, Allocate, Trigger, Ignore, brokerVars
<1>4. CASE LogEvent(f)
  BY <1>4 DEF LogEvent, brokerVars, Lines
<1>5. CASE LogCopy(f)
  <2>1. at[f] \in Nat /\ values[f][at[f]] \in Values
    BY <1>5 DEF LogCopy, BrokerOK, Attached, Copies
  <2>2. [function |-> f, copy |-> at[f], says |-> values[f][at[f]]] \in Lines
    BY <2>1 DEF Lines
  <2> QED
    BY <1>5, <2>1, <2>2 DEF LogCopy, brokerVars
<1> QED
  BY <1>1, <1>2, <1>3, <1>4, <1>5 DEF Step

LEMMA StepBrokerOK ==
  ASSUME TypeInv, NEW f \in Functions, Step(f)
  PROVE  BrokerOK(f)'
<1>0. VarsOK /\ BrokerOK(f)
  BY DEF TypeInv
<1>1. CASE GetOutputBrokers(f)
  <2>1. CASE pc'[f] = "failed"
    BY <1>0, <1>1, <2>1
       DEF GetOutputBrokers, BrokerOK, VarsOK, Attached, brokerVars, Copies
  <2>2. CASE pc'[f] # "failed"
    <3>1. PICK layout \in Layouts[f] :
            /\ BrokerInit(f, layout)
            /\ SetMask(f)
            /\ values' \in {[values EXCEPT ![f] = v] :
                              v \in [1 .. Len(layout) -> Values]}
            /\ pc' = [pc EXCEPT ![f] = "gam"]
      BY <1>0, <1>1, <2>2 DEF GetOutputBrokers, VarsOK
    <3>2. table'[f] = layout /\ byteSize'[f] = ElementBytes(layout)
      BY <1>0, <3>1 DEF BrokerInit, VarsOK
    <3>3. mask'[f] = flags' /\ flags' # NULL /\ prev'[f] = NULL /\ pc'[f] = "gam"
      BY <1>0, <1>1, <3>1
         DEF GetOutputBrokers, SetMask, VarsOK, BrokerOK, Attached
    <3>4. values'[f] \in [1 .. Len(layout) -> Values]
      BY <1>0, <3>1 DEF VarsOK
    <3> QED
      BY <3>1, <3>2, <3>3, <3>4 DEF BrokerOK, Copies, Attached
  <2> QED
    BY <2>1, <2>2
<1>2. CASE GamExecute(f)
  BY <1>0, <1>2
     DEF GamExecute, brokerVars, BrokerOK, VarsOK, Attached, Copies
<1>3. CASE Compare(f)
  <2>1. /\ table' = table /\ byteSize' = byteSize /\ mask' = mask
        /\ flags' = flags /\ values' = values /\ pc[f] = "compare"
    BY <1>3 DEF Compare, brokerVars
  <2>2. CASE Allocate(f)
    <3>1. prev'[f] = [n \in Copies(f) |-> Unwritten] /\ pc'[f] = "event"
      BY <1>0, <2>2 DEF Allocate, VarsOK
    <3>2. prev'[f] \in [Copies(f) -> Values \cup {Unwritten}]
      BY <3>1
    <3>3. prev'[f] # NULL
      BY <1>0, <2>1, <3>2, ConstantsAssumption
         DEF ConstantsAssumption, BrokerOK, Attached, Copies
    <3> QED
      BY <1>0, <2>1, <3>1, <3>2, <3>3 DEF BrokerOK, Attached, Copies
  <2>3. CASE Trigger(f) \/ Ignore(f)
    BY <1>0, <2>1, <2>3
       DEF Trigger, Ignore, BrokerOK, VarsOK, Attached, Copies
  <2> QED
    BY <1>3, <2>2, <2>3 DEF Compare
<1>4. CASE LogEvent(f)
  <2>1. table[f] \in Layouts[f]
    BY <1>0, <1>4 DEF LogEvent, BrokerOK, Attached
  <2>2. 1 \in Copies(f)
    BY <2>1, LayoutLength DEF Copies
  <2> QED
    BY <1>0, <1>4, <2>2
       DEF LogEvent, brokerVars, BrokerOK, VarsOK, Attached, Copies
<1>5. CASE LogCopy(f)
  <2>1. /\ table' = table /\ byteSize' = byteSize /\ mask' = mask
        /\ flags' = flags /\ values' = values /\ pc[f] = "copy"
    BY <1>5 DEF LogCopy, brokerVars
  <2>2. prev[f] \in [Copies(f) -> Values \cup {Unwritten}] /\ at[f] \in Copies(f)
    BY <1>0, <2>1 DEF BrokerOK
  <2>3. prev'[f] = [prev[f] EXCEPT ![at[f]] = values[f][at[f]]]
    BY <1>0, <1>5 DEF LogCopy, VarsOK
  <2>4. values[f] \in [Copies(f) -> Values]
    BY <1>0, <2>1 DEF BrokerOK, Attached
  <2>5. prev'[f] \in [Copies(f) -> Values \cup {Unwritten}]
    BY <2>2, <2>3, <2>4
  <2>6. Len(table[f]) \in Nat
    BY <1>0, <2>1, LayoutLength DEF BrokerOK, Attached
  <2>7. pc'[f] = "copy" => at'[f] \in Copies(f)
    BY <1>0, <1>5, <2>2, <2>6 DEF LogCopy, VarsOK, Copies
  <2>8. prev'[f] # NULL
    BY <1>0, <2>1, <2>5, ConstantsAssumption
       DEF ConstantsAssumption, BrokerOK, Attached, Copies
  <2>9. pc'[f] \in {"gam", "copy"}
    BY <1>0, <1>5 DEF LogCopy, VarsOK
  <2> QED
    BY <1>0, <2>1, <2>5, <2>7, <2>8, <2>9 DEF BrokerOK, Attached, Copies
<1> QED
  BY <1>1, <1>2, <1>3, <1>4, <1>5 DEF Step

LEMMA NextTypeInv == TypeInv /\ [Next]_vars => TypeInv'
<1> SUFFICES ASSUME TypeInv, [Next]_vars PROVE TypeInv'
  OBVIOUS
<1>1. CASE SetConfiguredDatabase
  BY <1>1 DEF SetConfiguredDatabase, brokerVars, TypeInv, VarsOK, BrokerOK,
              Attached, Copies
<1>2. CASE \E f \in Functions : Step(f)
  <2>1. PICK f \in Functions : Step(f)
    BY <1>2
  <2>2. VarsOK'
    BY <2>1, StepVarsOK
  <2>3. ASSUME NEW g \in Functions PROVE BrokerOK(g)'
    <3>1. CASE g = f
      BY <2>1, <3>1, StepBrokerOK
    <3>2. CASE g # f
      BY <2>1, <3>2, OthersKept, FrameOK DEF TypeInv
    <3> QED
      BY <3>1, <3>2
  <2> QED
    BY <2>2, <2>3 DEF TypeInv
<1>3. CASE UNCHANGED vars
  BY <1>3 DEF vars, brokerVars, TypeInv, VarsOK, BrokerOK, Attached, Copies

<1> QED
  BY <1>1, <1>2, <1>3 DEF Next

THEOREM TypeInvariant == Spec => []TypeInv
BY InitTypeInv, NextTypeInv, PTL DEF Spec

(* Every variable has its type, and a broker that was handed out has its   *)
(* mask, its copies and its memory.                                        *)
THEOREM TypeCorrect == Spec => []TypeOK
BY TypeInvariant, TypeInvGivesTypeOK, PTL

-----------------------------------------------------------------------------
(* The comparison with the previous values.                                *)

(* What Execute has copied so far is what the function has published; when *)
(* it is not at work, a monitored signal is as it was copied.              *)
ShownInv(f) ==
  /\ pc[f] = "copy" => \A n \in Copies(f) : n < at[f] => prev[f][n] = values[f][n]
  /\ pc[f] \in {"gam", "compare"} /\ prev[f] # NULL =>
       prev[f] \in [Copies(f) -> Values]
  /\ pc[f] = "gam" /\ WellConfigured(f) /\ prev[f] # NULL =>
       \A n \in Copies(f) : Monitored(f, n) => prev[f][n] = values[f][n]

Inv == TypeInv /\ \A f \in Functions : ShownInv(f)

LEMMA InvGivesMonitored == Inv => MonitoredIsShown
BY DEF Inv, ShownInv, MonitoredIsShown

LEMMA InitInv == Init => Inv
BY InitTypeInv DEF Inv, Init, ShownInv

(* The configuration of a broker changes only while it is absent.          *)
LEMMA SameConfiguration ==
  ASSUME NEW g \in Functions,
         table'[g] = table[g], byteSize'[g] = byteSize[g], flags' = flags
  PROVE  /\ Copies(g)' = Copies(g)
         /\ WellConfigured(g)' = WellConfigured(g)
         /\ \A n : Monitored(g, n)' = Monitored(g, n)
<1>1. Copies(g)' = Copies(g)
  BY DEF Copies
<1>2. \A n : Monitored(g, n)' = Monitored(g, n)
  BY DEF Monitored
<1>3. \A n : InPlace(g, n)' = InPlace(g, n)
  BY DEF InPlace
<1>4. WellConfigured(g)' = WellConfigured(g)
  BY <1>1, <1>3 DEF WellConfigured
<1> QED
  BY <1>1, <1>2, <1>4

LEMMA FrameShown ==
  ASSUME NEW g \in Functions, ShownInv(g), Frame(g)
  PROVE  ShownInv(g)'
BY SameConfiguration DEF ShownInv, Frame

(* When nothing must trigger, the monitored signals are as they were.      *)
LEMMA Unchanged ==
  ASSUME NEW f \in Functions, BrokerOK(f), Attached(f), WellConfigured(f),
         ~MustTrigger(f), NEW n \in Copies(f), Monitored(f, n)
  PROVE  prev[f][n] = values[f][n]
<1>1. Unmasked(f, n) = {TRUE}
  BY DEF BrokerOK, WellConfigured, Monitored, Unmasked
<1>2. Differs(f, n) = {values[f][n] # prev[f][n]}
  BY DEF WellConfigured, Differs
<1>3. Differs(f, n) # {TRUE}
  BY <1>1 DEF MustTrigger
<1> QED
  BY <1>2, <1>3

(* Once the last copy is made, all the previous values are the values.     *)
LEMMA LastCopy ==
  ASSUME TypeInv, NEW f \in Functions, ShownInv(f), LogCopy(f), pc'[f] = "gam"
  PROVE  prev'[f] = values[f]
<1>1. VarsOK /\ BrokerOK(f) /\ pc[f] = "copy"
  BY DEF TypeInv, LogCopy
<1>2. /\ values[f] \in [Copies(f) -> Values]
      /\ prev[f] \in [Copies(f) -> Values \cup {Unwritten}]
      /\ at[f] \in Copies(f)
  BY <1>1 DEF BrokerOK, Attached
<1>3. prev'[f] = [prev[f] EXCEPT ![at[f]] = values[f][at[f]]]
  BY <1>1 DEF LogCopy, VarsOK
<1>4. at[f] = Len(table[f]) /\ Len(table[f]) \in Nat
  BY <1>1, LayoutLength DEF LogCopy, VarsOK, BrokerOK, Attached
<1>5. ASSUME NEW n \in Copies(f) PROVE prev'[f][n] = values[f][n]
  BY <1>1, <1>2, <1>3, <1>4 DEF Copies, ShownInv
<1> QED
  BY <1>2, <1>3, <1>5

LEMMA StepShown ==
  ASSUME Inv, NEW f \in Functions, Step(f)
  PROVE  ShownInv(f)'
<1>0. TypeInv /\ VarsOK /\ BrokerOK(f) /\ ShownInv(f)
  BY DEF Inv, TypeInv
<1>1. CASE GetOutputBrokers(f)
  BY <1>0, <1>1 DEF GetOutputBrokers, VarsOK, BrokerOK, Attached, ShownInv
<1>2. CASE GamExecute(f)
  <2>1. /\ table' = table /\ byteSize' = byteSize /\ flags' = flags
        /\ prev' = prev /\ pc[f] = "gam" /\ pc'[f] = "compare"
    BY <1>0, <1>2 DEF GamExecute, brokerVars, VarsOK
  <2> QED
    BY <1>0, <2>1, SameConfiguration DEF ShownInv
<1>3. CASE Compare(f)
  <2>1. /\ table' = table /\ byteSize' = byteSize /\ flags' = flags
        /\ values' = values /\ pc[f] = "compare"
    BY <1>3 DEF Compare, brokerVars
  <2>2. CASE Allocate(f) \/ Trigger(f)
    BY <1>0, <2>2 DEF Allocate, Trigger, VarsOK, ShownInv
  <2>3. CASE Ignore(f)
    <3>1. prev' = prev /\ pc'[f] = "gam" /\ prev[f] # NULL /\ ~MustTrigger(f)
      BY <1>0, <2>3 DEF Ignore, VarsOK
    <3>2. WellConfigured(f) =>
            \A n \in Copies(f) : Monitored(f, n) => prev[f][n] = values[f][n]
      BY <1>0, <2>1, <3>1, Unchanged DEF Attached
    <3> QED
      BY <1>0, <2>1, <3>1, <3>2, SameConfiguration DEF ShownInv
  <2> QED
    BY <1>3, <2>2, <2>3 DEF Compare
<1>4. CASE LogEvent(f)
  <2>1. pc'[f] = "copy" /\ at'[f] = 1 /\ table' = table
    BY <1>0, <1>4 DEF LogEvent, VarsOK, brokerVars
  <2> QED
    BY <1>0, <2>1, LayoutLength, <1>4 DEF LogEvent, ShownInv, Copies, BrokerOK, Attached
<1>5. CASE LogCopy(f)
  <2>1. /\ table' = table /\ byteSize' = byteSize /\ flags' = flags
        /\ values' = values /\ pc[f] = "copy" /\ pc'[f] \in {"gam", "copy"}
    BY <1>0, <1>5 DEF LogCopy, brokerVars, VarsOK
  <2>2. CASE pc'[f] = "gam"
    <3>1. prev'[f] = values'[f]
      BY <1>0, <1>5, <2>1, <2>2, LastCopy
    <3>2. values'[f] \in [Copies(f)' -> Values]
      BY <1>0, <2>1 DEF BrokerOK, Attached, Copies
    <3> QED
      BY <2>2, <3>1, <3>2 DEF ShownInv
  <2>3. CASE pc'[f] = "copy"
    <3>1. /\ at[f] \in Copies(f) /\ at'[f] = at[f] + 1
          /\ prev[f] \in [Copies(f) -> Values \cup {Unwritten}]
          /\ prev'[f] = [prev[f] EXCEPT ![at[f]] = values[f][at[f]]]
      BY <1>0, <1>5 DEF LogCopy, BrokerOK, VarsOK
    <3>2. Len(table[f]) \in Nat
      BY <1>0, <2>1, LayoutLength DEF BrokerOK, Attached
    <3> QED
      BY <1>0, <2>1, <2>3, <3>1, <3>2 DEF ShownInv, Copies
  <2> QED
    BY <2>1, <2>2, <2>3
<1> QED
  BY <1>1, <1>2, <1>3, <1>4, <1>5 DEF Step

LEMMA NextInv == Inv /\ [Next]_vars => Inv'
<1> SUFFICES ASSUME Inv, [Next]_vars PROVE Inv'
  OBVIOUS
<1>1. TypeInv'
  BY NextTypeInv DEF Inv
<1>2. ASSUME NEW g \in Functions PROVE ShownInv(g)'
  <2>1. CASE SetConfiguredDatabase
    <3>1. prev[g] = NULL /\ pc'[g] = pc[g] /\ prev' = prev /\ ~Attached(g)
      BY <2>1 DEF SetConfiguredDatabase, Inv, TypeInv, BrokerOK
    <3> QED
      BY <3>1 DEF ShownInv, Attached
  <2>2. CASE \E f \in Functions : Step(f)
    <3>1. PICK f \in Functions : Step(f)
      BY <2>2
    <3>2. CASE g = f
      BY <3>1, <3>2, StepShown
    <3>3. CASE g # f
      BY <3>1, <3>3, OthersKept, FrameShown DEF Inv, TypeInv
    <3> QED
      BY <3>2, <3>3
  <2>3. CASE UNCHANGED vars
    BY <2>3, FrameShown DEF vars, brokerVars, Frame, Inv
  <2> QED
    BY <2>1, <2>2, <2>3 DEF Next
<1> QED
  BY <1>1, <1>2 DEF Inv

THEOREM Invariant == Spec => []Inv
BY InitInv, NextInv, PTL DEF Spec

(* No change of a monitored signal is missed by a well configured broker.  *)
THEOREM ChangesAreShown == Spec => []MonitoredIsShown
BY Invariant, InvGivesMonitored, PTL

-----------------------------------------------------------------------------
(* The lines of a broker, among those of the others.                       *)

(* ShownSince of a log L, with previous values P and an event number c.    *)
Shows(L, P, c, f, e, m) ==
  LET later == {k \in e + 1 .. Len(L) : L[k].function = f} IN
  /\ L[e].function = f /\ L[e].copy = 0 /\ L[e].says = c
  /\ \A k \in later : L[k].copy \in 1 .. m /\ L[k].says = P[L[k].copy]
  /\ \A n \in 1 .. m : \E k \in later : L[k].copy = n
  /\ \A k, l \in later : k < l => L[k].copy < L[l].copy

(* Another broker's line changes nothing.                                  *)
LEMMA ShowsAmongOthers ==
  ASSUME NEW L \in Seq(Lines), NEW line \in Lines, NEW P, NEW c, NEW f, NEW m,
         NEW e \in DOMAIN L, Shows(L, P, c, f, e, m), line.function # f
  PROVE  e \in DOMAIN Append(L, line) /\ Shows(Append(L, line), P, c, f, e, m)
<1> DEFINE M == Append(L, line)
<1>1. /\ Len(M) = Len(L) + 1 /\ Len(L) \in Nat /\ DOMAIN M = 1 .. Len(L) + 1
      /\ DOMAIN L = 1 .. Len(L)
      /\ M[Len(L) + 1] = line /\ \A k \in DOMAIN L : M[k] = L[k]
  OBVIOUS
<1> HIDE DEF M
<1>2. {k \in e + 1 .. Len(M) : M[k].function = f} = {k \in e + 1 .. Len(L) : L[k].function = f}
  BY <1>1
<1>3. e \in DOMAIN M /\ M[e] = L[e]
  BY <1>1
<1>4. \A k \in e + 1 .. Len(L) : M[k] = L[k]
  BY <1>1
<1> DEFINE S == {k \in e + 1 .. Len(L) : L[k].function = f}
<1>5. \A k \in S : M[k] = L[k]
  BY <1>4
<1>6. /\ L[e].function = f /\ L[e].copy = 0 /\ L[e].says = c
      /\ \A k \in S : L[k].copy \in 1 .. m /\ L[k].says = P[L[k].copy]
      /\ \A n \in 1 .. m : \E k \in S : L[k].copy = n
      /\ \A k, l \in S : k < l => L[k].copy < L[l].copy
  BY Zenon DEF Shows
<1>7. {k \in e + 1 .. Len(M) : M[k].function = f} = S
  BY <1>2
<1> HIDE DEF S
<1>8. /\ M[e].function = f /\ M[e].copy = 0 /\ M[e].says = c
      /\ \A k \in S : M[k].copy \in 1 .. m /\ M[k].says = P[M[k].copy]
      /\ \A n \in 1 .. m : \E k \in S : M[k].copy = n
      /\ \A k, l \in S : k < l => M[k].copy < M[l].copy
  BY <1>3, <1>5, <1>6
<1>9. Shows(M, P, c, f, e, m)
  BY <1>7, <1>8, Zenon DEF Shows
<1> QED
  BY <1>3, <1>9 DEF M

(* The line of an event begins anew.                                       *)
LEMMA ShowsNothing ==
  ASSUME NEW L \in Seq(Lines), NEW line \in Lines, NEW P, NEW f,
         line.function = f, line.copy = 0
  PROVE  /\ Len(L) + 1 \in DOMAIN Append(L, line)
         /\ Shows(Append(L, line), P, line.says, f, Len(L) + 1, 0)
<1> DEFINE M == Append(L, line)
<1>1. /\ Len(M) = Len(L) + 1 /\ Len(L) \in Nat /\ M[Len(L) + 1] = line
      /\ DOMAIN M = 1 .. Len(L) + 1
  OBVIOUS
<1> HIDE DEF M
<1>2. {k \in Len(L) + 1 + 1 .. Len(M) : M[k].function = f} = {}
  BY <1>1
<1>3. Len(L) + 1 \in DOMAIN M /\ 1 .. 0 = {}
  BY <1>1
<1>4. Shows(M, P, line.says, f, Len(L) + 1, 0)
  BY <1>1, <1>2, <1>3 DEF Shows
<1> QED
  BY <1>3, <1>4 DEF M

(* The line of the next copy is the one that was missing.                  *)
LEMMA ShowsOneMore ==
  ASSUME NEW L \in Seq(Lines), NEW line \in Lines, NEW P, NEW Q, NEW c, NEW f,
         NEW m \in Nat, NEW e \in DOMAIN L, Shows(L, P, c, f, e, m),
         line.function = f, line.copy = m + 1, Q[m + 1] = line.says,
         \A n \in 1 .. m : Q[n] = P[n]
  PROVE  e \in DOMAIN Append(L, line) /\ Shows(Append(L, line), Q, c, f, e, m + 1)
<1> DEFINE M == Append(L, line)
           last == Len(L) + 1
           before == {k \in e + 1 .. Len(L) : L[k].function = f}
           later == {k \in e + 1 .. Len(M) : M[k].function = f}
<1>1. /\ Len(M) = last /\ Len(L) \in Nat /\ DOMAIN M = 1 .. last
      /\ DOMAIN L = 1 .. Len(L)
      /\ M[last] = line /\ \A k \in DOMAIN L : M[k] = L[k]
  OBVIOUS
<1> HIDE DEF M
<1>2. later = before \cup {last} /\ \A k \in before : k \in Nat /\ k < last /\ M[k] = L[k]
  BY <1>1
<1>3. e \in DOMAIN M /\ M[e] = L[e]
  BY <1>1
<1>4. /\ L[e].function = f /\ L[e].copy = 0 /\ L[e].says = c
      /\ \A k \in before : L[k].copy \in 1 .. m /\ L[k].says = P[L[k].copy]
      /\ \A n \in 1 .. m : \E k \in before : L[k].copy = n
      /\ \A k, l \in before : k < l => L[k].copy < L[l].copy
  BY DEF Shows
<1>5. last \in Nat
  BY <1>1
<1> HIDE DEF before, later, last
<1>6. \A k \in later : M[k].copy \in 1 .. m + 1 /\ M[k].says = Q[M[k].copy]
  BY <1>1, <1>2, <1>4
<1>7. ASSUME NEW n \in 1 .. m + 1 PROVE \E k \in later : M[k].copy = n
  <2>1. CASE n = m + 1
    BY <1>1, <1>2, <2>1
  <2>2. CASE n # m + 1
    <3>1. n \in 1 .. m
      BY <2>2
    <3>2. PICK k \in before : L[k].copy = n
      BY <1>4, <3>1
    <3> QED
      BY <1>2, <3>2
  <2> QED
    BY <2>1, <2>2
<1>8. ASSUME NEW k \in later, NEW l \in later, k < l PROVE M[k].copy < M[l].copy
  <2>1. k \in before
    BY <1>2, <1>5, <1>8
  <2>2. M[k].copy = L[k].copy /\ L[k].copy \in 1 .. m
    BY <1>2, <1>4, <2>1
  <2>3. CASE l = last
    BY <1>1, <2>2, <2>3
  <2>4. CASE l # last
    BY <1>2, <1>4, <1>8, <2>1, <2>4
  <2> QED
    BY <2>3, <2>4
<1>9. Shows(M, Q, c, f, e, m + 1)
  BY <1>3, <1>4, <1>6, <1>7, <1>8 DEF Shows, later
<1> QED
  BY <1>3, <1>9 DEF M

(* How many copies of its last event a broker has logged, and that the log *)
(* shows so many.                                                          *)
Logged(f) == IF pc[f] = "copy" THEN at[f] - 1 ELSE Len(table[f])
EventInv(f) ==
  pc[f] \in {"gam", "compare", "copy"} /\ prev[f] # NULL =>
    \E e \in DOMAIN lines : Shows(lines, prev[f], counter[f], f, e, Logged(f))

(* Every step of a broker keeps the log or adds a line that is its own.    *)
LEMMA LinesGrow ==
  ASSUME TypeInv, NEW f \in Functions, Step(f)
  PROVE  \/ lines' = lines
         \/ \E line \in Lines : lines' = Append(lines, line) /\ line.function = f
<1>0. VarsOK /\ BrokerOK(f)
  BY DEF TypeInv
<1>1. CASE LogEvent(f)
  <2>1. counter'[f] \in Nat
    BY <1>0, <1>1 DEF LogEvent, VarsOK
  <2>2. [function |-> f, copy |-> 0, says |-> counter'[f]] \in Lines
    BY <2>1 DEF Lines
  <2> QED
    BY <1>1, <2>2 DEF LogEvent
<1>2. CASE LogCopy(f)
  <2>1. at[f] \in Nat /\ values[f][at[f]] \in Values
    BY <1>0, <1>2 DEF LogCopy, BrokerOK, Attached, Copies
  <2>2. [function |-> f, copy |-> at[f], says |-> values[f][at[f]]] \in Lines
    BY <2>1 DEF Lines
  <2> QED
    BY <1>2, <2>2 DEF LogCopy
<1> QED
  BY <1>1, <1>2 DEF Step, GetOutputBrokers, GamExecute, Compare

LEMMA FrameEvent ==
  ASSUME TypeInv, NEW f \in Functions, Step(f), NEW g \in Functions \ {f},
         EventInv(g), Frame(g)
  PROVE  EventInv(g)'
<1>1. Logged(g)' = Logged(g)
  BY DEF Logged, Frame
<1> SUFFICES ASSUME pc[g] \in {"gam", "compare", "copy"}, prev[g] # NULL
             PROVE  \E e \in DOMAIN lines' :
                      Shows(lines', prev[g], counter[g], g, e, Logged(g))
  BY <1>1 DEF EventInv, Frame
<1>2. PICK e \in DOMAIN lines : Shows(lines, prev[g], counter[g], g, e, Logged(g))
  BY DEF EventInv
<1>3. lines \in Seq(Lines)
  BY DEF TypeInv, VarsOK
<1>4. CASE lines' = lines
  BY <1>2, <1>4
<1>5. CASE \E line \in Lines : lines' = Append(lines, line) /\ line.function = f
  BY <1>2, <1>3, <1>5, ShowsAmongOthers
<1> QED
  BY <1>4, <1>5, LinesGrow

LEMMA StepEvent ==
  ASSUME TypeInv, NEW f \in Functions, Step(f), EventInv(f)
  PROVE  EventInv(f)'
<1>0. VarsOK /\ BrokerOK(f)
  BY DEF TypeInv
<1>1. CASE GetOutputBrokers(f)
  BY <1>0, <1>1 DEF GetOutputBrokers, BrokerOK, Attached, EventInv
<1>2. CASE GamExecute(f)
  <2>1. /\ table' = table /\ prev' = prev /\ counter' = counter /\ lines' = lines
        /\ pc[f] = "gam" /\ pc'[f] = "compare"
    BY <1>0, <1>2 DEF GamExecute, brokerVars, VarsOK
  <2> QED
    BY <2>1 DEF EventInv, Logged
<1>3. CASE Compare(f)
  <2>1. table' = table /\ counter' = counter /\ lines' = lines /\ pc[f] = "compare"
    BY <1>3 DEF Compare, brokerVars
  <2>2. CASE Allocate(f) \/ Trigger(f)
    <3>1. pc'[f] = "event"
      BY <1>0, <2>2 DEF Allocate, Trigger, VarsOK
    <3> QED
      BY <3>1 DEF EventInv
  <2>3. CASE Ignore(f)
    <3>1. prev' = prev /\ pc'[f] = "gam"
      BY <1>0, <2>3 DEF Ignore, VarsOK
    <3> QED
      BY <2>1, <3>1 DEF EventInv, Logged
  <2> QED
    BY <1>3, <2>2, <2>3 DEF Compare
<1>4. CASE LogEvent(f)
  <2> DEFINE line == [function |-> f, copy |-> 0, says |-> counter'[f]]
  <2>1. /\ lines' = Append(lines, line) /\ prev' = prev
        /\ pc'[f] = "copy" /\ at'[f] = 1 /\ counter'[f] \in Nat
    BY <1>0, <1>4 DEF LogEvent, VarsOK
  <2>2. Logged(f)' = 0
    BY <2>1 DEF Logged
  <2>3. line \in Lines /\ line.function = f /\ line.copy = 0 /\ line.says = counter'[f]
    BY <2>1 DEF Lines
  <2> HIDE DEF line
  <2>4. lines \in Seq(Lines)
    BY <1>0 DEF VarsOK
  <2>5. \E e \in DOMAIN lines' : Shows(lines', prev[f], counter'[f], f, e, 0)
    BY <2>1, <2>3, <2>4, ShowsNothing
  <2> QED
    BY <2>1, <2>2, <2>5 DEF EventInv
<1>5. CASE LogCopy(f)
  <2> DEFINE m == at[f] - 1
             line == [function |-> f, copy |-> at[f], says |-> values[f][at[f]]]
  <2>1. /\ lines' = Append(lines, line) /\ counter' = counter /\ table' = table
        /\ pc[f] = "copy" /\ at'[f] = at[f] + 1
        /\ pc'[f] = IF at[f] = Len(table[f]) THEN "gam" ELSE "copy"
        /\ prev'[f] = [prev[f] EXCEPT ![at[f]] = values[f][at[f]]]
    BY <1>0, <1>5 DEF LogCopy, brokerVars, VarsOK
  <2>2. /\ prev[f] # NULL /\ prev[f] \in [Copies(f) -> Values \cup {Unwritten}]
        /\ at[f] \in Copies(f) /\ values[f] \in [Copies(f) -> Values]
    BY <1>0, <2>1 DEF BrokerOK, Attached
  <2>3. Len(table[f]) \in Nat
    BY <1>0, <2>1, LayoutLength DEF BrokerOK, Attached
  <2>4. m \in Nat /\ m + 1 = at[f] /\ 1 .. m \subseteq Copies(f) /\ at[f] \notin 1 .. m
    BY <2>2, <2>3 DEF Copies
  <2>5. Logged(f) = m
    BY <2>1 DEF Logged
  <2>6. Logged(f)' = m + 1
    <3>1. CASE at[f] = Len(table[f])
      BY <2>1, <2>4, <3>1 DEF Logged
    <3>2. CASE at[f] # Len(table[f])
      BY <2>1, <2>2, <2>4, <3>2 DEF Logged, Copies
    <3> QED
      BY <3>1, <3>2
  <2>7. line \in Lines /\ line.function = f /\ line.copy = at[f] /\ line.says = values[f][at[f]]
    BY <2>2, <2>3 DEF Lines, Copies
  <2>8. prev'[f][m + 1] = line.says /\ \A n \in 1 .. m : prev'[f][n] = prev[f][n]
    BY <2>1, <2>2, <2>4, <2>7
  <2>9. PICK e \in DOMAIN lines : Shows(lines, prev[f], counter[f], f, e, m)
    BY <2>1, <2>2, <2>5 DEF EventInv
  <2>10. lines \in Seq(Lines)
    BY <1>0 DEF VarsOK
  <2> HIDE DEF line, m
  <2>11. e \in DOMAIN lines' /\ Shows(lines', prev'[f], counter[f], f, e, m + 1)
    <3>1. m \in Nat /\ line \in Lines /\ line.function = f /\ line.copy = m + 1
      BY <2>4, <2>7
    <3> DEFINE before == prev[f]
               after == prev'[f]
               event == counter[f]
    <3>2. /\ Shows(lines, before, event, f, e, m)
          /\ after[m + 1] = line.says /\ line.says = after[m + 1]
          /\ \A n \in 1 .. m : after[n] = before[n]
      BY <2>8, <2>9
    <3> HIDE DEF before, after, event
    <3>3. /\ e \in DOMAIN Append(lines, line)
          /\ Shows(Append(lines, line), after, event, f, e, m + 1)
      BY ONLY e \in DOMAIN lines, <2>10, <3>1, <3>2, ShowsOneMore, ZenonT(60)
    <3> QED
      BY <2>1, <3>3 DEF after, event
  <2> QED
    BY <2>1, <2>6, <2>11 DEF EventInv
<1> QED
  BY <1>1, <1>2, <1>3, <1>4, <1>5 DEF Step

LEMMA InitEvent == Init => \A f \in Functions : EventInv(f)
BY DEF Init, EventInv

LEMMA NextEvent ==
  TypeInv /\ (\A f \in Functions : EventInv(f)) /\ [Next]_vars
    => (\A f \in Functions : EventInv(f))'
<1> SUFFICES ASSUME TypeInv, \A f \in Functions : EventInv(f), [Next]_vars,
                    NEW g \in Functions
             PROVE  EventInv(g)'
  OBVIOUS
<1>1. CASE SetConfiguredDatabase \/ UNCHANGED vars
  BY <1>1 DEF SetConfiguredDatabase, vars, brokerVars, EventInv, Logged
<1>2. ASSUME NEW f \in Functions, Step(f) PROVE EventInv(g)'
  <2>1. CASE g = f
    BY <1>2, <2>1, StepEvent
  <2>2. CASE g # f
    BY <1>2, <2>2, OthersKept, FrameEvent DEF TypeInv
  <2> QED
    BY <2>1, <2>2
<1> QED
  BY <1>1, <1>2 DEF Next

(* Whatever other brokers log in between, the last event of a broker in the*)
(* log is numbered with its counter and shows, copy by copy and in order,  *)
(* the values that the next execution compares with.                       *)
THEOREM EventsShowPrevious == Spec => []EventShowsPrevious
<1>1. (\A f \in Functions : EventInv(f)) => EventShowsPrevious
  BY DEF EventInv, EventShowsPrevious, ShownSince, Shows, Logged
<1> QED
  BY <1>1, InitEvent, NextEvent, TypeInvariant, PTL DEF Spec

-----------------------------------------------------------------------------
(* The refinement of the log of changes.                                   *)

LEMMA InitRefines == Init => Log!Init
BY DEF Init, Log!Init, Turn, Shown, Number

(* A step of one function leaves the others' part of the mapping alone.    *)
LEMMA FrameMapped ==
  ASSUME NEW g \in Functions, Frame(g)
  PROVE  /\ Turn(g)' = Turn(g) /\ Watched(g)' = Watched(g)
         /\ Shown(g)' = Shown(g) /\ Number(g)' = Number(g)
BY SameConfiguration DEF Frame, Turn, Watched, Shown, Number

LEMMA StepRefines ==
  ASSUME Inv, Inv', NEW f \in Functions, Step(f), AllWellConfigured
  PROVE  [Log!Next]_(Log!vars)
<1>0. TypeInv /\ VarsOK /\ BrokerOK(f) /\ ShownInv(f)
  BY DEF Inv, TypeInv
<1>1. \A g \in Functions \ {f} :
        /\ Turn(g)' = Turn(g) /\ Watched(g)' = Watched(g)
        /\ Shown(g)' = Shown(g) /\ Number(g)' = Number(g)
        /\ values'[g] = values[g]
  BY <1>0, OthersKept, FrameMapped DEF Frame
<1>2. CASE GetOutputBrokers(f)
  <2>1. prev' = prev /\ counter' = counter /\ pc[f] = "absent" /\ prev[f] = NULL
    BY <1>0, <1>2 DEF GetOutputBrokers, BrokerOK, Attached
  <2>2. CASE pc'[f] = "failed"
    <3>1. table' = table /\ values' = values /\ flags' = flags
      BY <1>0, <1>2, <2>2 DEF GetOutputBrokers, VarsOK, brokerVars
    <3>2. Turn(f)' = Turn(f) /\ Watched(f)' = Watched(f)
      BY <2>1, <2>2, <3>1 DEF Turn, Watched, Copies, Monitored
    <3>3. Shown(f)' = Shown(f) /\ Number(f)' = Number(f)
      BY <2>1, <2>2 DEF Shown, Number
    <3> QED
      BY <1>1, <3>1, <3>2, <3>3 DEF Log!vars
  <2>3. CASE pc'[f] = "gam"
    <3>1. Turn(f) = "absent" /\ Turn(f)' = "publish"
      BY <2>1, <2>3 DEF Turn
    <3>2. Shown(f)' = Shown(f) /\ Number(f)' = Number(f)
      BY <2>1, <2>3 DEF Shown, Number
    <3> QED
      BY <1>1, <3>1, <3>2 DEF Log!Next, Log!Connect
  <2> QED
    BY <1>0, <1>2, <2>2, <2>3 DEF GetOutputBrokers, VarsOK
<1>3. CASE GamExecute(f)
  <2>1. /\ table' = table /\ flags' = flags /\ prev' = prev /\ counter' = counter
        /\ pc[f] = "gam" /\ pc'[f] = "compare"
    BY <1>0, <1>3 DEF GamExecute, brokerVars, VarsOK
  <2>2. Turn(f) = "publish" /\ Turn(f)' = "observe" /\ Watched(f)' = Watched(f)
    BY <2>1 DEF Turn, Watched, Copies, Monitored
  <2>3. Shown(f)' = Shown(f) /\ Number(f)' = Number(f)
    BY <2>1 DEF Shown, Number
  <2> QED
    BY <1>1, <2>2, <2>3 DEF Log!Next, Log!Publish
<1>4. CASE Compare(f)
  <2>1. /\ table' = table /\ byteSize' = byteSize /\ flags' = flags
        /\ values' = values /\ counter' = counter /\ pc[f] = "compare"
    BY <1>4 DEF Compare, brokerVars
  <2>2. Watched(f)' = Watched(f) /\ Turn(f) = "observe"
    BY <2>1 DEF Turn, Watched, Copies, Monitored
  <2>3. Shown(f) = prev[f] /\ Number(f) = counter[f] /\ counter[f] \in Nat
    BY <1>0, <2>1 DEF Shown, Number, VarsOK
  <2>4. Attached(f) /\ WellConfigured(f)
    BY <2>1 DEF AllWellConfigured, Attached
  <2>5. CASE Allocate(f) \/ Trigger(f)
    <3>1. pc'[f] = "event"
      BY <1>0, <2>5 DEF Allocate, Trigger, VarsOK
    <3>2. Turn(f)' = "publish" /\ Shown(f)' = values[f] /\ Number(f)' = Number(f) + 1
      BY <2>1, <2>3, <3>1 DEF Turn, Shown, Number
    <3>3. Shown(f) = NULL \/ \E n \in Watched(f) : values[f][n] # Shown(f)[n]
      <4>1. CASE Allocate(f)
        BY <2>3, <4>1 DEF Allocate
      <4>2. CASE Trigger(f)
        <5>1. PICK n \in Copies(f) : TRUE \in Unmasked(f, n) /\ TRUE \in Differs(f, n)
          BY <4>2 DEF Trigger, MayTrigger
        <5>2. InPlace(f, n) /\ n \in Signals /\ mask[f][n] = flags[table[f][n].signal]
          BY <1>0, <2>4, <5>1 DEF WellConfigured, BrokerOK
        <5>3. Monitored(f, n)
          BY <5>1, <5>2 DEF Unmasked, Monitored
        <5>4. values[f][n] # prev[f][n]
          BY <5>1, <5>2 DEF Differs
        <5> QED
          BY <2>3, <5>1, <5>3, <5>4 DEF Watched
      <4> QED
        BY <2>5, <4>1, <4>2
    <3> QED
      BY <1>1, <2>1, <2>2, <3>2, <3>3 DEF Log!Next, Log!Event, Log!Changed
  <2>6. CASE Ignore(f)
    <3>1. prev' = prev /\ pc'[f] = "gam" /\ prev[f] # NULL /\ ~MustTrigger(f)
      BY <1>0, <2>6 DEF Ignore, VarsOK
    <3>2. Turn(f)' = "publish" /\ Shown(f)' = Shown(f) /\ Number(f)' = Number(f)
      BY <2>1, <3>1 DEF Turn, Shown, Number
    <3>3. \A n \in Watched(f) : values[f][n] = Shown(f)[n]
      BY <1>0, <2>3, <2>4, <3>1, Unchanged DEF Watched
    <3> QED
      BY <1>1, <2>1, <2>2, <2>3, <3>1, <3>2, <3>3
         DEF Log!Next, Log!Silence, Log!Changed
  <2> QED
    BY <1>4, <2>5, <2>6 DEF Compare
<1>5. CASE LogEvent(f)
  <2>1. /\ table' = table /\ flags' = flags /\ values' = values
        /\ pc[f] = "event" /\ pc'[f] = "copy" /\ counter'[f] = counter[f] + 1
        /\ counter[f] \in Nat
    BY <1>0, <1>5 DEF LogEvent, brokerVars, VarsOK
  <2>2. Turn(f)' = Turn(f) /\ Watched(f)' = Watched(f)
    BY <2>1 DEF Turn, Watched, Copies, Monitored
  <2>3. Shown(f)' = Shown(f) /\ Number(f)' = Number(f)
    BY <2>1 DEF Shown, Number
  <2> QED
    BY <1>1, <2>1, <2>2, <2>3 DEF Log!vars
<1>6. CASE LogCopy(f)
  <2>1. /\ table' = table /\ flags' = flags /\ values' = values
        /\ counter' = counter /\ pc[f] = "copy" /\ pc'[f] \in {"gam", "copy"}
    BY <1>0, <1>6 DEF LogCopy, brokerVars, VarsOK
  <2>2. Turn(f)' = Turn(f) /\ Watched(f)' = Watched(f) /\ Number(f)' = Number(f)
    BY <2>1 DEF Turn, Watched, Copies, Monitored, Number
  <2>3. pc'[f] = "gam" => prev'[f] = values[f]
    BY <1>0, <1>6, LastCopy
  <2>4. Shown(f)' = Shown(f)
    BY <2>1, <2>3 DEF Shown
  <2> QED
    BY <1>1, <2>1, <2>2, <2>4 DEF Log!vars
<1> QED
  BY <1>2, <1>3, <1>4, <1>5, <1>6 DEF Step

(* A step that only changes the flags changes nothing the log of changes   *)
(* shows: no broker has a copy yet.                                        *)
LEMMA FlagsRefine ==
  ASSUME Inv, SetConfiguredDatabase
  PROVE  UNCHANGED Log!vars
<1>1. \A g \in Functions : table[g] = <<>>
  BY DEF Inv, TypeInv, BrokerOK, SetConfiguredDatabase
<1>2. table' = table /\ pc' = pc /\ prev' = prev /\ counter' = counter /\ values' = values
  BY DEF SetConfiguredDatabase, brokerVars
<1>3. ASSUME NEW g \in Functions PROVE Watched(g)' = {} /\ Watched(g) = {}
  BY <1>1, <1>2 DEF Watched, Copies
<1>4. ASSUME NEW g \in Functions
      PROVE  Turn(g)' = Turn(g) /\ Shown(g)' = Shown(g) /\ Number(g)' = Number(g)
  BY <1>2 DEF Turn, Shown, Number
<1> QED
  BY <1>2, <1>3, <1>4 DEF Log!vars

(* The brokers of well configured functions implement the log of changes:  *)
(* an execution is followed by an event with the current values exactly    *)
(* when it is the first or a monitored signal differs from the last event. *)
THEOREM ImplementsChangeLog == WellConfiguredSpec => LogSpec
<1>1. Init => Log!Init
  BY InitRefines
<1>2. Init => Inv /\ AllWellConfigured
  BY InitInv DEF Init, AllWellConfigured, Attached
<1>3. Inv /\ AllWellConfigured /\ [Next /\ AllWellConfigured']_vars
        => (Inv /\ AllWellConfigured)'
  <2> SUFFICES ASSUME Inv, AllWellConfigured, [Next /\ AllWellConfigured']_vars
               PROVE  Inv' /\ AllWellConfigured'
    OBVIOUS
  <2>1. Inv'
    BY NextInv
  <2>2. CASE UNCHANGED vars
    <3>1. /\ table' = table /\ byteSize' = byteSize /\ flags' = flags
          /\ pc' = pc
      BY <2>2 DEF vars, brokerVars
    <3>2. ASSUME NEW g \in Functions, Attached(g)' PROVE WellConfigured(g)'
      <4>1. Attached(g)
        BY <3>1, <3>2 DEF Attached
      <4> QED
        BY <3>1, <4>1, SameConfiguration DEF AllWellConfigured
    <3> QED
      BY <2>1, <3>2 DEF AllWellConfigured
  <2> QED
    BY <2>1, <2>2
<1>4. Inv /\ AllWellConfigured /\ Inv' /\ [Next /\ AllWellConfigured']_vars
        => [Log!Next]_(Log!vars)
  <2> SUFFICES ASSUME Inv, AllWellConfigured, Inv', [Next /\ AllWellConfigured']_vars
               PROVE  [Log!Next]_(Log!vars)
    OBVIOUS
  <2>1. CASE SetConfiguredDatabase
    BY <2>1, FlagsRefine
  <2>2. CASE \E f \in Functions : Step(f)
    BY <2>2, StepRefines
  <2>3. CASE UNCHANGED vars
    BY <2>3 DEF vars, brokerVars, Log!vars, Turn, Shown, Number, Watched, Copies,
                Monitored
  <2> QED
    BY <2>1, <2>2, <2>3 DEF Next
<1> QED
  BY <1>1, <1>2, <1>3, <1>4, PTL DEF WellConfiguredSpec, LogSpec, Log!Spec
=============================================================================
