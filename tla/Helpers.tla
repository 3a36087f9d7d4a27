------------------------------ MODULE Helpers -------------------------------
(***************************************************************************)
(* Core/Helpers/Helpers.cpp: validate_signals compares the signals of a    *)
(* configuration with a list of definitions, and validate_parameters sets  *)
(* a list of parameters. Both are loops that a failure turns from their    *)
(* way, one by a second index, the other by ending it. A string of the     *)
(* configuration is Missing when it cannot be read.                        *)
(***************************************************************************)
EXTENDS Sequences, Integers

CONSTANTS
    Children,       \* signals: [name, type, dimensions, elements]
    Definitions,    \* EC::Signal: [name, type, optional, size]
    Values,         \* of parameters
    AnyName,        \* the empty name, which matches every other
    Missing, Void,
    Word,           \* 2^32, at which sizes wrap around
    MaxSignals, MaxParameters    \* bounds of the model

HelpersAssumption ==
    MaxSignals \in Nat /\ MaxParameters \in Nat /\ Void \notin Values /\ Missing \notin Values

VARIABLES
    conf,           \* the children of the configuration, or a value for each parameter
    definitions,
    parameters,
    i, j, ok,       \* the variables of the same names
    pc

vars == <<conf, definitions, parameters, i, j, ok, pc>>

UpTo(S, max) == UNION {[1..n -> S]: n \in 0..max}

----------------------------------------------------------------------------
(* validate_signals *)

\* A definition of one element never looks at the size of the signal.
HasSize(child, def) ==
    \/ def.size \in {0, 1}
    \/ /\ child.dimensions # Missing /\ child.elements # Missing
       /\ (child.dimensions * child.elements) % Word = def.size

ValidSignal(child, def) ==
    /\ def.name \in {AnyName, child.name}
    /\ child.type = def.type
    /\ HasSize(child, def)

ValidateSignals(children, defs) ==
    /\ pc = "idle"
    /\ conf' = children /\ definitions' = defs
    /\ i' = 0 /\ j' = 0 /\ ok' = TRUE
    /\ pc' = "signal"
    /\ UNCHANGED parameters

\* Faulty: an optional signal that is not there leaves its child to the next definition.
CheckSignalAgain ==
    /\ pc = "signal" /\ i < Len(definitions) /\ i < Len(conf)
    /\ LET matches == ValidSignal(conf[j + 1], definitions[i + 1]) IN
           /\ ok' = (ok /\ (matches \/ definitions[i + 1].optional))
           /\ j' = IF matches THEN j + 1 ELSE j
    /\ i' = i + 1
    /\ UNCHANGED <<conf, definitions, parameters, pc>>

\* Definition i against child j, which stays when a mandatory signal is not there.
CheckSignal ==
    /\ pc = "signal" /\ i < Len(definitions) /\ i < Len(conf)
    /\ LET moved == j < Len(conf)
           passes == \/ definitions[i + 1].optional
                     \/ moved /\ ValidSignal(conf[j + 1], definitions[i + 1]) IN
           /\ ok' = (ok /\ moved /\ passes)
           /\ j' = IF moved /\ passes THEN j + 1 ELSE j
    /\ i' = i + 1
    /\ UNCHANGED <<conf, definitions, parameters, pc>>

\* The second loop: definitions for which there is no child.
MissSignal ==
    /\ pc = "signal" /\ i < Len(definitions) /\ i >= Len(conf)
    /\ ok' = (ok /\ definitions[i + 1].optional)
    /\ i' = i + 1
    /\ UNCHANGED <<conf, definitions, parameters, j, pc>>

SignalsValidated ==
    /\ pc = "signal" /\ i >= Len(definitions)
    /\ pc' = "signals validated"
    /\ UNCHANGED <<conf, definitions, parameters, i, j, ok>>

----------------------------------------------------------------------------
(* validate_parameters; a filter is the set of the values it lets pass *)

Parameter == [filter: SUBSET Values, defaultValue: Values \cup {Void}]

ValidateParameters(values, defs, before) ==
    /\ pc = "idle"
    /\ Len(values) = Len(defs) /\ Len(before) = Len(defs)
    /\ conf' = values /\ definitions' = defs /\ parameters' = before
    /\ i' = 0 /\ ok' = TRUE
    /\ pc' = "parameter"
    /\ UNCHANGED j

\* Faulty: goes on after a fault, so that the result is that of the last parameter.
SetParameterAlways ==
    /\ pc = "parameter" /\ i < Len(definitions)
    /\ LET def == definitions[i + 1]
           read == conf[i + 1] IN
           IF read = Missing
           THEN /\ ok' = (ok /\ def.defaultValue # Void)
                /\ parameters' = IF def.defaultValue = Void THEN parameters
                                 ELSE [parameters EXCEPT ![i + 1] = def.defaultValue]
           ELSE ok' = (read \in def.filter) /\ parameters' = [parameters EXCEPT ![i + 1] = read]
    /\ i' = i + 1
    /\ UNCHANGED <<conf, definitions, j, pc>>

\* A value that does not pass its filter has been stored; a default is not filtered.
SetParameter ==
    /\ pc = "parameter" /\ i < Len(definitions) /\ ok
    /\ LET def == definitions[i + 1]
           read == conf[i + 1] IN
           IF read = Missing
           THEN /\ ok' = (def.defaultValue # Void)
                /\ parameters' = IF def.defaultValue = Void THEN parameters
                                 ELSE [parameters EXCEPT ![i + 1] = def.defaultValue]
           ELSE ok' = (read \in def.filter) /\ parameters' = [parameters EXCEPT ![i + 1] = read]
    /\ i' = i + 1
    /\ UNCHANGED <<conf, definitions, j, pc>>

ParametersValidated ==
    /\ pc = "parameter" /\ (i >= Len(definitions) \/ ~ok)
    /\ pc' = "parameters validated"
    /\ UNCHANGED <<conf, definitions, parameters, i, j, ok>>

----------------------------------------------------------------------------
Init ==
    /\ conf = << >> /\ definitions = << >> /\ parameters = << >>
    /\ i = 0 /\ j = 0 /\ ok = TRUE
    /\ pc = "idle"

BeginSignals ==
    \E children \in UpTo(Children, MaxSignals), defs \in UpTo(Definitions, MaxSignals):
        ValidateSignals(children, defs)

BeginParameters ==
    \E n \in 0..MaxParameters:
        \E values \in [1..n -> Values \cup {Missing}], defs \in [1..n -> Parameter],
           before \in [1..n -> Values]:
            ValidateParameters(values, defs, before)

Next ==
    \/ pc = "idle" /\ (BeginSignals \/ BeginParameters)
    \/ CheckSignal \/ MissSignal \/ SignalsValidated
    \/ SetParameter \/ ParametersValidated

Spec == Init /\ [][Next]_vars

----------------------------------------------------------------------------
(* Properties *)

\* The value that a parameter is to have, Void if there is none.
Wanted(k) ==
    IF conf[k] = Missing THEN definitions[k].defaultValue
    ELSE IF conf[k] \in definitions[k].filter THEN conf[k] ELSE Void

\* A list of signals is accepted exactly when each mandatory definition is matched by
\* the signal in its own place: the second index falls behind the first only where the
\* list is refused for good, so that no later match can hide the one that is missing
\* (Helpers.cpp:94). The number returned is then that of the signals there are.
SignalsInTheirPlaces ==
    pc = "signals validated" =>
        /\ ok <=> \A k \in DOMAIN definitions:
                      definitions[k].optional \/ (k \in DOMAIN conf /\ ValidSignal(conf[k], definitions[k]))
        /\ ok => j = IF Len(conf) < Len(definitions) THEN Len(conf) ELSE Len(definitions)

\* Parameters are accepted exactly when all of them have a value or a default, and then
\* each has it; of a list that is refused, the ones before the first fault have theirs
\* and the ones behind it what they had (Helpers.cpp:184).
ParametersFollowConfiguration ==
    pc = "parameters validated" =>
        /\ ok <=> \A k \in DOMAIN definitions: Wanted(k) # Void
        /\ ok => \A k \in DOMAIN definitions: parameters[k] = Wanted(k)
        /\ \A k \in DOMAIN definitions: (\A m \in 1..k: Wanted(m) # Void) => parameters[k] = Wanted(k)
==============================================================================
