--------------------------- MODULE Helpers_proofs ---------------------------
(***************************************************************************)
(* What Helpers promises, for any definitions and configurations: both     *)
(* properties from invariants of the two loops.                            *)
(***************************************************************************)
EXTENDS Helpers, SequenceTheorems, TLAPS

IsList(s) == s \in [1..Len(s) -> {s[k]: k \in 1..Len(s)}] /\ Len(s) \in Nat

\* The definition with number k has the signal it asks for in its own place.
Matched(k) ==
    definitions[k].optional \/ (k \in DOMAIN conf /\ ValidSignal(conf[k], definitions[k]))

SignalInv ==
    /\ IsList(conf) /\ IsList(definitions)
    /\ i \in 0..Len(definitions) /\ j \in Nat
    /\ ok <=> \A k \in 1..i: Matched(k)
    /\ ok => j = IF Len(conf) < i THEN Len(conf) ELSE i
    /\ pc = "signals validated" => i = Len(definitions)

ParameterInv ==
    /\ IsList(conf) /\ IsList(definitions) /\ IsList(parameters)
    /\ Len(conf) = Len(definitions) /\ Len(parameters) = Len(definitions)
    /\ \A k \in 1..Len(definitions):
           definitions[k].filter \subseteq Values /\ conf[k] \in Values \cup {Missing}
    /\ i \in 0..Len(definitions)
    /\ ok <=> \A k \in 1..i: Wanted(k) # Void
    /\ \A k \in 1..i: (\A m \in 1..k: Wanted(m) # Void) => parameters[k] = Wanted(k)
    /\ pc = "parameters validated" => i = Len(definitions) \/ ~ok

Pcs == {"idle", "signal", "signals validated", "parameter", "parameters validated"}

Inv ==
    /\ pc \in Pcs /\ ok \in BOOLEAN /\ j \in Nat
    /\ pc \in {"signal", "signals validated"} => SignalInv
    /\ pc \in {"parameter", "parameters validated"} => ParameterInv

\* Functions from 1 to n are sequences of length n.
LEMMA FunctionsAreLists ==
    ASSUME NEW S, NEW n \in Nat, NEW s \in [1..n -> S]
    PROVE  s \in Seq(S) /\ Len(s) = n /\ IsList(s) /\ \A k \in 1..n: s[k] \in S
<1>1. s \in Seq(S) /\ Len(s) = n
    OBVIOUS
<1>2. s \in [1..n -> {s[k]: k \in 1..n}]
    OBVIOUS
<1> QED BY <1>1, <1>2 DEF IsList

LEMMA RangesNest ==
    /\ \A n \in Nat: \A m \in 0..n: 1..m \subseteq 1..n
    /\ \A n \in Nat: \A k \in 1..n: 1..k \subseteq 1..n
    /\ \A n \in Nat: \A m \in 0..n: \A k \in 1..n: k \notin 1..m => 1..m \subseteq 1..k
OBVIOUS

LEMMA ListDomain ==
    ASSUME NEW s, IsList(s)
    PROVE  DOMAIN s = 1..Len(s) /\ Len(s) \in Nat
BY DEF IsList

LEMMA ValidateSignalsKeeps ==
    ASSUME HelpersAssumption,
           NEW children \in UpTo(Children, MaxSignals), NEW defs \in UpTo(Definitions, MaxSignals),
           Inv, ValidateSignals(children, defs)
    PROVE  Inv'
<1>1. PICK n \in 0..MaxSignals: children \in [1..n -> Children]
    BY DEF UpTo
<1>2. PICK m \in 0..MaxSignals: defs \in [1..m -> Definitions]
    BY DEF UpTo
<1>3. IsList(children) /\ IsList(defs) /\ Len(children) \in Nat /\ Len(defs) \in Nat
    <2>1. n \in Nat /\ m \in Nat
        BY DEF HelpersAssumption
    <2> QED BY <1>1, <1>2, <2>1, FunctionsAreLists
<1>4. /\ conf' = children /\ definitions' = defs /\ i' = 0 /\ j' = 0 /\ ok' = TRUE /\ pc' = "signal"
    BY DEF ValidateSignals
<1>5. SignalInv'
    BY <1>3, <1>4 DEF SignalInv, IsList
<1> QED BY <1>4, <1>5 DEF Inv, Pcs

LEMMA CheckSignalKeeps ==
    ASSUME Inv, CheckSignal
    PROVE  Inv'
<1>1. /\ SignalInv /\ i < Len(definitions) /\ i < Len(conf)
      /\ UNCHANGED <<conf, definitions, parameters>> /\ i' = i + 1
    BY DEF Inv, CheckSignal
<1>pc. pc = "signal" /\ pc' = pc
    BY DEF CheckSignal
<1>2. DOMAIN conf = 1..Len(conf) /\ Len(conf) \in Nat /\ Len(definitions) \in Nat
    BY <1>1, ListDomain DEF SignalInv
<1>3. i \in Nat /\ j \in Nat /\ i + 1 \in 1..Len(definitions) /\ i + 1 \in DOMAIN conf
    <2>1. i \in 0..Len(definitions) /\ j \in Nat
        BY <1>1 DEF SignalInv
    <2> QED BY <1>1, <1>2, <2>1
<1>4. \A k: Matched(k)' <=> Matched(k)
    BY <1>1 DEF Matched
<1>5. (\A k \in 1..i + 1: Matched(k)) <=> (\A k \in 1..i: Matched(k)) /\ Matched(i + 1)
    <2>1. 1..i + 1 = (1..i) \cup {i + 1}
        BY <1>3
    <2> QED BY <2>1
<1>6. ok => j = i
    <2>1. ok => j = IF Len(conf) < i THEN Len(conf) ELSE i
        BY <1>1 DEF SignalInv
    <2>2. ~(Len(conf) < i)
        BY <1>1, <1>2, <1>3
    <2> QED BY <2>1, <2>2
<1>7. CASE ok
    <2>1. j < Len(conf) /\ j = i
        BY <1>1, <1>6, <1>7
    <2>2. Matched(i + 1) <=> (definitions[i + 1].optional \/ ValidSignal(conf[j + 1], definitions[i + 1]))
        BY <1>3, <2>1 DEF Matched
    <2>3. ok' = (ok /\ (definitions[i + 1].optional \/ ValidSignal(conf[j + 1], definitions[i + 1])))
        BY <2>1 DEF CheckSignal
    <2>4. ok' <=> Matched(i + 1)
        BY <1>7, <2>2, <2>3
    <2>5. ok' => j' = j + 1
        BY <2>1, <2>3, <2>4 DEF CheckSignal
    <2>6. j' \in Nat
        BY <1>3 DEF CheckSignal
    <2>7. ok' <=> \A k \in 1..i': Matched(k)'
        <3>1. \A k \in 1..i: Matched(k)
            BY <1>1, <1>7 DEF SignalInv
        <3> QED BY <1>1, <1>4, <1>5, <2>4, <3>1
    <2>8. ok' => j' = IF Len(conf) < i' THEN Len(conf) ELSE i'
        <3>1. ~(Len(conf) < i + 1)
            BY <1>1, <1>2, <1>3
        <3>2. Len(conf') = Len(conf) /\ i' = i + 1
            BY <1>1
        <3> QED BY <2>1, <2>5, <3>1, <3>2
    <2>9. ok' \in BOOLEAN
        BY <2>3
    <2>10. SignalInv'
        BY <1>1, <1>pc, <1>3, <2>6, <2>7, <2>8 DEF SignalInv
    <2> QED BY <1>1, <1>pc, <2>6, <2>9, <2>10 DEF Inv, Pcs
<1>8. CASE ~ok
    <2>1. ok' = FALSE
        BY <1>8 DEF CheckSignal
    <2>2. j' \in Nat
        BY <1>3 DEF CheckSignal
    <2>3. ok' <=> \A k \in 1..i': Matched(k)'
        <3>1. ~\A k \in 1..i: Matched(k)
            BY <1>1, <1>8 DEF SignalInv
        <3> QED BY <1>1, <1>4, <1>5, <2>1, <3>1
    <2>4. SignalInv'
        BY <1>1, <1>pc, <1>3, <2>1, <2>2, <2>3 DEF SignalInv
    <2> QED BY <1>1, <1>pc, <2>1, <2>2, <2>4 DEF Inv, Pcs
<1> QED BY <1>7, <1>8

LEMMA MissSignalKeeps ==
    ASSUME Inv, MissSignal
    PROVE  Inv'
<1>1. /\ SignalInv /\ i < Len(definitions) /\ i >= Len(conf)
      /\ UNCHANGED <<conf, definitions, parameters, j>> /\ i' = i + 1
      /\ ok' = (ok /\ definitions[i + 1].optional)
    BY DEF Inv, MissSignal
<1>pc. pc = "signal" /\ pc' = pc
    BY DEF MissSignal
<1>2. DOMAIN conf = 1..Len(conf) /\ Len(conf) \in Nat /\ Len(definitions) \in Nat
    BY <1>1, ListDomain DEF SignalInv
<1>3. i \in Nat /\ j \in Nat /\ i + 1 \in 1..Len(definitions) /\ i + 1 \notin DOMAIN conf
    <2>1. i \in 0..Len(definitions) /\ j \in Nat
        BY <1>1 DEF SignalInv
    <2> QED BY <1>1, <1>2, <2>1
<1>4. \A k: Matched(k)' <=> Matched(k)
    BY <1>1 DEF Matched
<1>5. (\A k \in 1..i + 1: Matched(k)) <=> (\A k \in 1..i: Matched(k)) /\ Matched(i + 1)
    <2>1. 1..i + 1 = (1..i) \cup {i + 1}
        BY <1>3
    <2> QED BY <2>1
<1>6. Matched(i + 1) <=> definitions[i + 1].optional
    BY <1>3 DEF Matched
<1>7. ok' <=> \A k \in 1..i': Matched(k)'
    <2>1. ok <=> \A k \in 1..i: Matched(k)
        BY <1>1 DEF SignalInv
    <2> QED BY <1>1, <1>4, <1>5, <1>6, <2>1
<1>8. ok' => j' = IF Len(conf) < i' THEN Len(conf) ELSE i'
    <2>1. ok' => ok
        BY <1>1
    <2>2. ok => j = Len(conf)
        <3>1. ok => j = IF Len(conf) < i THEN Len(conf) ELSE i
            BY <1>1 DEF SignalInv
        <3>2. CASE Len(conf) < i
            BY <3>1, <3>2
        <3>3. CASE ~(Len(conf) < i)
            <4>1. i = Len(conf)
                <5>1. PICK m \in Nat: m = Len(conf)
                    BY <1>2
                <5>2. i >= m /\ ~(m < i) /\ i \in Nat
                    BY <1>1, <1>3, <3>3, <5>1
                <5>3. i = m
                    BY <5>2
                <5> QED BY <5>1, <5>3
            <4> QED BY <3>1, <3>3, <4>1
        <3> QED BY <3>2, <3>3
    <2>3. Len(conf) < i + 1
        BY <1>1, <1>2, <1>3
    <2>4. conf' = conf /\ i' = i + 1 /\ j' = j
        BY <1>1
    <2> QED BY <2>1, <2>2, <2>3, <2>4
<1>9. SignalInv'
    BY <1>1, <1>pc, <1>3, <1>7, <1>8 DEF SignalInv
<1>10. ok' \in BOOLEAN
    BY <1>1
<1> QED BY <1>1, <1>pc, <1>3, <1>9, <1>10 DEF Inv, Pcs

LEMMA ValidateParametersKeeps ==
    ASSUME NEW n \in Nat, NEW values \in [1..n -> Values \cup {Missing}],
           NEW defs \in [1..n -> Parameter], NEW before \in [1..n -> Values],
           Inv, ValidateParameters(values, defs, before)
    PROVE  Inv'
<1>1. /\ IsList(values) /\ IsList(defs) /\ IsList(before)
      /\ Len(values) = n /\ Len(defs) = n /\ Len(before) = n
      /\ \A k \in 1..n: defs[k] \in Parameter /\ values[k] \in Values \cup {Missing}
    BY FunctionsAreLists
<1>2. \A k \in 1..n: defs[k].filter \subseteq Values
    BY <1>1 DEF Parameter
<1>3. /\ conf' = values /\ definitions' = defs /\ parameters' = before
      /\ i' = 0 /\ j' = j /\ ok' = TRUE /\ pc' = "parameter"
    BY DEF ValidateParameters
<1>4. ParameterInv'
    BY <1>1, <1>2, <1>3 DEF ParameterInv
<1> QED BY <1>3, <1>4 DEF Inv, Pcs

LEMMA SetParameterKeeps ==
    ASSUME HelpersAssumption, Inv, SetParameter
    PROVE  Inv'
<1>1. ParameterInv /\ ok /\ pc = "parameter" /\ pc' = pc /\ j' = j
    BY DEF Inv, SetParameter
<1>2. /\ i < Len(definitions) /\ i' = i + 1
      /\ UNCHANGED <<conf, definitions>>
    BY DEF SetParameter
<1>3. /\ DOMAIN parameters = 1..Len(parameters)
      /\ Len(definitions) \in Nat /\ Len(parameters) = Len(definitions)
    BY <1>1, ListDomain DEF ParameterInv
<1>4. i \in Nat /\ i + 1 \in 1..Len(definitions)
    <2>1. i \in 0..Len(definitions)
        BY <1>1 DEF ParameterInv
    <2> QED BY <1>2, <1>3, <2>1
<1>5. \A k: Wanted(k)' = Wanted(k)
    BY <1>2 DEF Wanted
<1>6. 1..i + 1 = (1..i) \cup {i + 1} /\ \A k \in 1..i: k # i + 1
    BY <1>4
<1>7. Void \notin definitions[i + 1].filter
    BY <1>1, <1>4 DEF ParameterInv, HelpersAssumption
<1>8. ok' \in BOOLEAN /\ (ok' <=> Wanted(i + 1) # Void)
    <2>1. CASE conf[i + 1] = Missing
        BY <2>1 DEF SetParameter, Wanted
    <2>2. CASE conf[i + 1] # Missing
        <3>1. ok' = (conf[i + 1] \in definitions[i + 1].filter)
            BY <2>2 DEF SetParameter
        <3>2. Wanted(i + 1) = IF conf[i + 1] \in definitions[i + 1].filter THEN conf[i + 1] ELSE Void
            BY <2>2 DEF Wanted
        <3>3. Wanted(i + 1) # Void <=> conf[i + 1] \in definitions[i + 1].filter
            BY <1>7, <3>2
        <3>4. ok' \in BOOLEAN
            BY <3>1
        <3>5. ok' <=> conf[i + 1] \in definitions[i + 1].filter
            BY <3>1
        <3> QED BY <3>3, <3>4, <3>5
    <2> QED BY <2>1, <2>2
<1>9. PICK x: parameters' = [parameters EXCEPT ![i + 1] = x]
    <2>1. parameters = [parameters EXCEPT ![i + 1] = parameters[i + 1]]
        <3>1. parameters \in [1..Len(parameters) -> {parameters[k]: k \in 1..Len(parameters)}]
            BY <1>1 DEF ParameterInv, IsList
        <3> QED BY <3>1
    <2> QED BY <2>1 DEF SetParameter
<1>10. /\ IsList(parameters') /\ Len(parameters') = Len(parameters)
       /\ \A k \in 1..i: parameters'[k] = parameters[k]
    <2>1. PICK n \in Nat: n = Len(parameters)
        BY <1>3
    <2>2. parameters \in [1..n -> {parameters[k]: k \in 1..n}]
        BY <1>1, <2>1 DEF ParameterInv, IsList
    <2>3. parameters' \in [1..n -> {parameters[k]: k \in 1..n} \cup {x}]
        BY <1>9, <2>2
    <2>4. IsList(parameters') /\ Len(parameters') = n
        BY <2>3, FunctionsAreLists
    <2>5. \A k \in 1..i: parameters'[k] = parameters[k]
        BY <1>3, <1>6, <1>9
    <2> QED BY <2>1, <2>4, <2>5
<1>11. Wanted(i + 1) # Void => parameters'[i + 1] = Wanted(i + 1)
    <2>1. CASE conf[i + 1] = Missing
        BY <1>3, <1>4, <2>1 DEF SetParameter, Wanted
    <2>2. CASE conf[i + 1] # Missing
        BY <1>3, <1>4, <1>7, <2>2 DEF SetParameter, Wanted
    <2> QED BY <2>1, <2>2
<1>12. \A k \in 1..i + 1: (\A m \in 1..k: Wanted(m) # Void) => parameters'[k] = Wanted(k)
    <2>1. \A k \in 1..i: (\A m \in 1..k: Wanted(m) # Void) => parameters[k] = Wanted(k)
        BY <1>1 DEF ParameterInv
    <2>2. (\A m \in 1..i + 1: Wanted(m) # Void) => parameters'[i + 1] = Wanted(i + 1)
        BY <1>6, <1>11
    <2> QED BY <1>6, <1>10, <2>1, <2>2
<1>13. ok' <=> \A k \in 1..i + 1: Wanted(k) # Void
    <2>1. \A k \in 1..i: Wanted(k) # Void
        BY <1>1 DEF ParameterInv
    <2> QED BY <1>6, <1>8, <2>1
<1>14. ParameterInv'
    <2>1. IsList(conf') /\ IsList(definitions') /\ IsList(parameters')
        BY <1>1, <1>2, <1>10 DEF ParameterInv
    <2>2. Len(conf') = Len(definitions') /\ Len(parameters') = Len(definitions')
        BY <1>1, <1>2, <1>3, <1>10 DEF ParameterInv
    <2>3. i' \in 0..Len(definitions')
        BY <1>2, <1>4
    <2>4. \A k \in 1..Len(definitions'):
              definitions'[k].filter \subseteq Values /\ conf'[k] \in Values \cup {Missing}
        BY <1>1, <1>2 DEF ParameterInv
    <2>5. pc' = "parameter"
        BY <1>1
    <2>6. /\ ok' <=> \A k \in 1..i': Wanted(k)' # Void
          /\ \A k \in 1..i': (\A m \in 1..k: Wanted(m)' # Void) => parameters'[k] = Wanted(k)'
        BY <1>2, <1>5, <1>12, <1>13
    <2> QED BY <2>1, <2>2, <2>3, <2>4, <2>5, <2>6 DEF ParameterInv, IsList
<1> QED BY <1>1, <1>8, <1>14 DEF Inv, Pcs

LEMMA NextKeeps ==
    ASSUME HelpersAssumption, Inv, [Next]_vars
    PROVE  Inv'
<1>1. CASE BeginSignals
    BY <1>1, ValidateSignalsKeeps DEF BeginSignals
<1>2. CASE CheckSignal
    BY <1>2, CheckSignalKeeps
<1>3. CASE MissSignal
    BY <1>3, MissSignalKeeps
<1>4. CASE SignalsValidated
    <2>1. SignalInv /\ i >= Len(definitions)
        BY <1>4 DEF SignalsValidated, Inv
    <2>2. i = Len(definitions)
        <3>1. i \in 0..Len(definitions) /\ Len(definitions) \in Nat
            BY <2>1, ListDomain DEF SignalInv
        <3> QED BY <2>1, <3>1
    <2>3. UNCHANGED <<conf, definitions, i, j, ok>>
        BY <1>4 DEF SignalsValidated
    <2>4. SignalInv'
        BY <2>1, <2>2, <2>3 DEF SignalInv, Matched, IsList
    <2>5. pc' = "signals validated"
        BY <1>4 DEF SignalsValidated
    <2> QED BY <2>3, <2>4, <2>5 DEF Inv, Pcs
<1>5. CASE BeginParameters
    <2>1. 0..MaxParameters \subseteq Nat
        BY DEF HelpersAssumption
    <2> QED BY <1>5, <2>1, ValidateParametersKeeps DEF BeginParameters
<1>6. CASE SetParameter
    BY <1>6, SetParameterKeeps
<1>7. CASE ParametersValidated
    <2>1. ParameterInv /\ (i >= Len(definitions) \/ ~ok)
        BY <1>7 DEF ParametersValidated, Inv
    <2>2. i = Len(definitions) \/ ~ok
        <3>1. i \in 0..Len(definitions) /\ Len(definitions) \in Nat
            BY <2>1, ListDomain DEF ParameterInv
        <3> QED BY <2>1, <3>1
    <2>3. UNCHANGED <<conf, definitions, parameters, i, j, ok>>
        BY <1>7 DEF ParametersValidated
    <2>4. ParameterInv'
        BY <2>1, <2>2, <2>3 DEF ParameterInv, Wanted, IsList
    <2>5. pc' = "parameters validated"
        BY <1>7 DEF ParametersValidated
    <2> QED BY <2>3, <2>4, <2>5 DEF Inv, Pcs
<1>8. CASE UNCHANGED vars
    BY <1>8 DEF vars, Inv, SignalInv, ParameterInv, Matched, Wanted, IsList
<1> QED BY <1>1, <1>2, <1>3, <1>4, <1>5, <1>6, <1>7, <1>8 DEF Next

LEMMA Invariance == HelpersAssumption => (Spec => []Inv)
<1> SUFFICES ASSUME HelpersAssumption PROVE Spec => []Inv
    OBVIOUS
<1>1. Init => Inv
    BY DEF Init, Inv, Pcs
<1>2. Inv /\ [Next]_vars => Inv'
    BY NextKeeps
<1> QED BY <1>1, <1>2, PTL DEF Spec

\* validate_signals accepts exactly the configurations that have each mandatory signal
\* in the place of its definition, whatever the definitions are.
THEOREM SignalsAreValidated == HelpersAssumption => (Spec => []SignalsInTheirPlaces)
<1> SUFFICES ASSUME HelpersAssumption PROVE Spec => []SignalsInTheirPlaces
    OBVIOUS
<1>1. Inv => SignalsInTheirPlaces
    <2> SUFFICES ASSUME SignalInv, pc = "signals validated" PROVE SignalsInTheirPlaces
        BY DEF Inv, SignalsInTheirPlaces
    <2>1. i = Len(definitions) /\ DOMAIN definitions = 1..Len(definitions)
        BY ListDomain DEF SignalInv
    <2>2. ok <=> \A k \in DOMAIN definitions: Matched(k)
        BY <2>1 DEF SignalInv
    <2>3. ok => j = IF Len(conf) < Len(definitions) THEN Len(conf) ELSE Len(definitions)
        BY <2>1 DEF SignalInv
    <2> QED BY <2>2, <2>3 DEF SignalsInTheirPlaces, Matched
<1>2. Spec => []Inv
    BY Invariance
<1> QED BY <1>1, <1>2, PTL

\* validate_parameters gives every parameter its value or its default, or tells that it
\* could not, whatever the filters are.
THEOREM ParametersAreSet == HelpersAssumption => (Spec => []ParametersFollowConfiguration)
<1> SUFFICES ASSUME HelpersAssumption PROVE Spec => []ParametersFollowConfiguration
    OBVIOUS
<1>1. Inv => ParametersFollowConfiguration
    <2> SUFFICES ASSUME ParameterInv, pc = "parameters validated" PROVE ParametersFollowConfiguration
        BY DEF Inv, ParametersFollowConfiguration
    <2>1. DOMAIN definitions = 1..Len(definitions) /\ Len(definitions) \in Nat
        BY ListDomain DEF ParameterInv
    <2>2. i \in 0..Len(definitions) /\ (i = Len(definitions) \/ ~ok)
        BY DEF ParameterInv
    <2>3. ok <=> \A k \in 1..i: Wanted(k) # Void
        BY DEF ParameterInv
    <2>4. ok <=> \A k \in DOMAIN definitions: Wanted(k) # Void
        <3>1. 1..i \subseteq 1..Len(definitions)
            BY <2>1, <2>2, RangesNest
        <3> QED BY <2>1, <2>2, <2>3, <3>1
    <2>5. \A k \in 1..i: (\A m \in 1..k: Wanted(m) # Void) => parameters[k] = Wanted(k)
        BY DEF ParameterInv
    <2>6. \A k \in DOMAIN definitions: (\A m \in 1..k: Wanted(m) # Void) => parameters[k] = Wanted(k)
        <3> SUFFICES ASSUME NEW k \in 1..Len(definitions), \A m \in 1..k: Wanted(m) # Void
                     PROVE  parameters[k] = Wanted(k)
            BY <2>1
        <3>1. CASE k \in 1..i
            BY <2>5, <3>1
        <3>2. CASE k \notin 1..i
            <4>1. 1..i \subseteq 1..k
                BY <2>1, <2>2, <3>2, RangesNest
            <4>2. ok
                BY <2>3, <4>1
            <4> QED BY <2>1, <2>2, <3>2, <4>2
        <3> QED BY <3>1, <3>2
    <2>7. ok => \A k \in DOMAIN definitions: parameters[k] = Wanted(k)
        <3> SUFFICES ASSUME ok, NEW k \in 1..Len(definitions)
                     PROVE  parameters[k] = Wanted(k)
            BY <2>1
        <3>1. 1..k \subseteq 1..Len(definitions)
            BY <2>1, RangesNest
        <3> QED BY <2>1, <2>4, <2>6, <3>1
    <2> QED BY <2>4, <2>6, <2>7 DEF ParametersFollowConfiguration
<1>2. Spec => []Inv
    BY Invariance
<1> QED BY <1>1, <1>2, PTL
=============================================================================
