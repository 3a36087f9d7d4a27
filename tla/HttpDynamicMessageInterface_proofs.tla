---------------- MODULE HttpDynamicMessageInterface_proofs ------------------
(***************************************************************************)
(* For any names of parameters and any requests: what is sent is what was  *)
(* asked for, entries apart that failed unseen, and the answer tells what  *)
(* became of it. While ok is true the cursor is at the root between two    *)
(* commands, and either every command visited so far is in its place or    *)
(* the commands were never found and no message can come of it.            *)
(***************************************************************************)
EXTENDS HttpDynamicMessageInterface, TLAPS

\* What the root may have for a command when those were visited.
EntriesFor(c, visited) ==
    CASE c \notin visited             -> {Nothing}
      [] c \in visited \ unseen       -> {c}
      [] c \in visited \cap unseen    -> IF c \in Addresses THEN {Nothing, ""} ELSE {Nothing}

RootFor(visited) ==
    /\ \A c \in DOMAIN Entry : cdb["root"][Entry[c]] \in EntriesFor(c, visited)
    /\ \A k \in Keys \ {Entry[c] : c \in DOMAIN Entry} : cdb["root"][k] = Nothing

FoundSoFar ==
    \/ /\ todo \subseteq request /\ cdb["+Parameters"] = ParametersFor(request \ todo)
       /\ RootFor(request \ todo) /\ unseen \subseteq request \ todo
    \/ todo \subseteq Skipped /\ cdb["root"]["Destination"] = Nothing

RequestInv ==
    /\ pc = "created" => at = "root" /\ cdb = Blank /\ unseen = {} /\ ok
    /\ pc = "commands" /\ ok => at = "root" /\ FoundSoFar
    /\ pc = "send" \/ fate # "unsent" => IsRequested

AnswerInv ==
    /\ pc \in {"created", "commands"} => fate = "unsent" /\ answer = Nothing
    /\ pc = "send" => ok /\ fate = "unsent" /\ answer = Nothing
    /\ pc = "sent" => (ok <=> fate = "delivered") /\ answer = Nothing
    /\ AnswerSaysWhatHappened

Inv == TypeOK /\ RequestInv /\ AnswerInv

LEMMA CommandsApart ==
    /\ Nothing \notin Names /\ Nothing \notin {"", "ConfigurationDatabase"}
    /\ Names \cap Addresses = {} /\ Names \cap {"mode", "timeout"} = {} /\ Names \cap Skipped = {}
BY NamesAssumption DEF NamesAssumption, Reserved

LEMMA EntriesApart ==
    /\ \A c \in DOMAIN Entry : Entry[c] \in Keys
    /\ \A c, d \in DOMAIN Entry : Entry[c] = Entry[d] => c = d
    /\ DOMAIN Entry = Addresses \cup {"mode", "timeout"}
    /\ Entry["destination"] = "Destination"
BY DEF Entry, Keys, Addresses

\* One write into the database.
LEMMA WriteIsTyped ==
    ASSUME cdb \in [Places -> [Keys -> Contents]], NEW p \in Places, NEW k \in Keys, NEW v \in Contents
    PROVE  [cdb EXCEPT ![p][k] = v] \in [Places -> [Keys -> Contents]]
BY ZenonT(30), SMTT(30)

LEMMA InitHolds == Init => Inv
<1> SUFFICES ASSUME Init PROVE Inv
    OBVIOUS
<1>1. TypeOK
    BY DEF Init, TypeOK, Blank, Places, Contents
<1>2. RequestInv /\ AnswerInv
    BY DEF Init, RequestInv, AnswerInv, AnswerSaysWhatHappened
<1> QED BY <1>1, <1>2 DEF Inv

LEMMA ReceiveKeeps ==
    ASSUME Inv, NEW asked \in SUBSET Asked, NEW f \in {"structured", "text"}, NEW begun \in BOOLEAN,
           Receive(asked, f, begun)
    PROVE  Inv'
<1>1. TypeOK'
    BY NamesAssumption DEF Inv, TypeOK, Receive, Blank, Places, Contents, NamesAssumption
<1>2. RequestInv'
    BY DEF Receive, RequestInv
<1>3. AnswerInv'
    BY DEF Receive, AnswerInv, AnswerSaysWhatHappened
<1> QED BY <1>1, <1>2, <1>3 DEF Inv

LEMMA CreateParametersKeeps ==
    ASSUME Inv, CreateParameters
    PROVE  Inv'
<1>0. PICK created, written, left, listed \in BOOLEAN :
          LET place == Entered(created) IN
          /\ cdb' = IF written THEN [cdb EXCEPT ![place]["Class"] = "ConfigurationDatabase"] ELSE cdb
          /\ left => created
          /\ at' = IF left THEN "root" ELSE place
          /\ ok' = (ok /\ created /\ written /\ left)
          /\ todo' = IF listed THEN request ELSE Skipped
    BY DEF CreateParameters
<1>1. TypeOK'
    <2>1. "Class" \in Keys /\ "ConfigurationDatabase" \in Contents /\ Entered(created) \in Places
        BY DEF Keys, Contents, Entered, Places, Inv, TypeOK
    <2>2. cdb' \in [Places -> [Keys -> Contents]]
        BY <1>0, <2>1, WriteIsTyped DEF Inv, TypeOK
    <2>3. at' \in Places
        BY <1>0, <2>1 DEF Places
    <2>4. todo' \in SUBSET Commands
        BY <1>0 DEF Inv, TypeOK, Commands, Reserved
    <2>5. ok' \in BOOLEAN
        BY <1>0 DEF Inv, TypeOK
    <2> QED BY <2>2, <2>3, <2>4, <2>5 DEF CreateParameters, Inv, TypeOK
<1>2. RequestInv'
    <2>1. SUFFICES ASSUME ok' PROVE at' = "root" /\ FoundSoFar'
        BY DEF RequestInv, CreateParameters, Inv, AnswerInv
    <2>2. created /\ written /\ left /\ at' = "root" /\ cdb = Blank /\ unseen' = {}
        BY <1>0, <2>1 DEF Inv, RequestInv, CreateParameters
    <2>3. cdb' = [Blank EXCEPT !["+Parameters"]["Class"] = "ConfigurationDatabase"]
        BY <1>0, <2>2 DEF Entered
    <2>4. cdb'["root"] = [k \in Keys |-> Nothing] /\ cdb'["+Parameters"] = ParametersFor({})
        BY <2>3 DEF Blank, Places, ParametersFor
    <2>6. FoundSoFar'
        <3>1. CASE listed
            <4>1. request' = request /\ request \ request = {} /\ todo' = request
                BY <1>0, <3>1 DEF CreateParameters
            <4>2. (request \ todo)' = {}
                BY <4>1
            <4>3. RootFor(request \ todo)'
                BY <2>4, <4>2, EntriesApart DEF RootFor, EntriesFor
            <4>4. (cdb["+Parameters"] = ParametersFor(request \ todo))'
                BY <2>4, <4>2 DEF ParametersFor
            <4> QED BY <4>1, <4>2, <4>3, <4>4, <2>2 DEF FoundSoFar
        <3>2. CASE ~listed
            <4>1. todo' = Skipped /\ "Destination" \in Keys
                BY <1>0, <3>2 DEF Keys
            <4> QED BY <4>1, <2>4 DEF FoundSoFar
        <3> QED BY <3>1, <3>2
    <2> QED BY <2>2, <2>6
<1>3. AnswerInv'
    BY DEF Inv, AnswerInv, AnswerSaysWhatHappened, CreateParameters
<1> QED BY <1>1, <1>2, <1>3 DEF Inv

\* What every visit leaves alone.
LEMMA VisitKeeps ==
    ASSUME Inv, NEW name \in Commands, Visit(name)
    PROVE  /\ AnswerInv' /\ pc' = "commands" /\ fate' = "unsent" /\ request' = request
           /\ todo' = todo \ {name} /\ todo' \in SUBSET Commands
           /\ ok' /\ ok => at = "root" /\ FoundSoFar
           /\ UNCHANGED <<format, answer>>
BY DEF Inv, TypeOK, RequestInv, AnswerInv, AnswerSaysWhatHappened, Visit

\* One of the entries of the root is written, or nothing is.
LEMMA EntryKeeps ==
    ASSUME Inv, NEW name \in DOMAIN Entry, Visit(name), NEW v \in {name, ""}, NEW written \in BOOLEAN,
           cdb' = IF written THEN [cdb EXCEPT ![at][Entry[name]] = v] ELSE cdb,
           at' = at, ok' \in BOOLEAN, ok' => ok,
           NEW missed \in SUBSET {name}, unseen' = unseen \cup missed,
           ok' => (IF missed = {} THEN written /\ v = name
                   ELSE IF name \in Addresses THEN written => v = "" ELSE ~written)
    PROVE  Inv'
<1>1. name \in Commands /\ name \notin Names /\ Entry[name] \in Keys /\ name \notin Skipped /\ v \in Contents
    BY CommandsApart, EntriesApart DEF Commands, Reserved, Addresses, Skipped, Contents
<1>2. /\ AnswerInv' /\ pc' = "commands" /\ fate' = "unsent" /\ request' = request
      /\ todo' = todo \ {name} /\ todo' \in SUBSET Commands
      /\ UNCHANGED <<format, answer>>
    BY <1>1, VisitKeeps
<1>3. TypeOK'
    <2>1. cdb' \in [Places -> [Keys -> Contents]]
        BY <1>1, WriteIsTyped DEF Inv, TypeOK
    <2>2. unseen' \in SUBSET DOMAIN Entry
        BY DEF Inv, TypeOK
    <2> QED BY <2>1, <2>2, <1>2 DEF Inv, TypeOK
<1>4. RequestInv'
    <2>1. SUFFICES ASSUME ok' PROVE FoundSoFar' /\ at' = "root"
        BY <1>2 DEF RequestInv
    <2>2. at = "root" /\ FoundSoFar
        BY <1>1, <2>1, VisitKeeps
    <2>3. cdb'["+Parameters"] = cdb["+Parameters"]
        BY <2>2 DEF Inv, TypeOK, Places
    <2>4. \A k \in Keys : cdb'["root"][k] = IF written /\ k = Entry[name] THEN v ELSE cdb["root"][k]
        BY <1>1, <2>2 DEF Inv, TypeOK, Places
    <2>5. name \in todo
        BY DEF Visit
    <2>6. CASE /\ todo \subseteq request /\ cdb["+Parameters"] = ParametersFor(request \ todo)
               /\ RootFor(request \ todo) /\ unseen \subseteq request \ todo
        <3> DEFINE before == request \ todo
                   after == request \ (todo \ {name})
        <3>1. after = before \cup {name} /\ name \notin before /\ name \notin unseen
            BY <2>5, <2>6
        <3>2. ASSUME NEW c \in DOMAIN Entry
              PROVE  cdb'["root"][Entry[c]] \in EntriesFor(c, after)'
            <4>1. Entry[c] \in Keys /\ cdb["root"][Entry[c]] \in EntriesFor(c, before)
                BY <2>6, EntriesApart DEF RootFor
            <4>2. CASE c # name
                <5>1. cdb'["root"][Entry[c]] = cdb["root"][Entry[c]]
                    BY <2>4, <4>1, <4>2, EntriesApart
                <5>2. /\ (c \in before <=> c \in after) /\ (c \in unseen <=> c \in unseen')
                      /\ todo' = todo \ {name} /\ request' = request
                    BY <1>2, <3>1, <4>2
                <5> QED BY <4>1, <5>1, <5>2 DEF EntriesFor
            <4>3. CASE c = name
                <5>1. cdb["root"][Entry[name]] = Nothing
                    BY <3>1, <4>1, <4>3 DEF EntriesFor
                <5>2. cdb'["root"][Entry[name]] = IF written THEN v ELSE Nothing
                    BY <2>4, <4>1, <4>3, <5>1
                <5>3. name \in after /\ (name \in unseen' <=> missed # {}) /\ after' = after
                    BY <1>2, <3>1
                <5>4. CASE missed = {}
                    <6>1. EntriesFor(name, after)' = {name}
                        BY <5>3, <5>4 DEF EntriesFor
                    <6>2. cdb'["root"][Entry[name]] = name
                        BY <2>1, <5>2, <5>4
                    <6> QED BY <4>3, <6>1, <6>2 DEF EntriesFor
                <5>5. CASE missed # {}
                    <6>1. EntriesFor(name, after)' = IF name \in Addresses THEN {Nothing, ""} ELSE {Nothing}
                        BY <5>3, <5>5 DEF EntriesFor
                    <6>2. cdb'["root"][Entry[name]] \in IF name \in Addresses THEN {Nothing, ""} ELSE {Nothing}
                        <7>1. IF name \in Addresses THEN written => v = "" ELSE ~written
                            BY <2>1, <5>5
                        <7>2. CASE written
                            <8>1. cdb'["root"][Entry[name]] = v
                                BY <5>2, <7>2
                            <8>2. name \in Addresses /\ v = ""
                                BY <7>1, <7>2
                            <8>3. (IF name \in Addresses THEN {Nothing, ""} ELSE {Nothing}) = {Nothing, ""}
                                BY <8>2
                            <8>4. cdb'["root"][Entry[name]] = ""
                                BY <8>1, <8>2
                            <8> QED BY <8>3, <8>4
                        <7>3. CASE ~written
                            BY <5>2, <7>3
                        <7> QED BY <7>2, <7>3
                    <6> QED BY <4>3, <6>1, <6>2 DEF EntriesFor
                <5> QED BY <5>4, <5>5
            <4> QED BY <4>2, <4>3
        <3>3. \A k \in Keys \ {Entry[c] : c \in DOMAIN Entry} : cdb'["root"][k] = Nothing
            BY <2>4, <2>6 DEF RootFor
        <3>4. RootFor(after)'
            BY <3>2, <3>3 DEF RootFor
        <3>5. ParametersFor(before) = ParametersFor(after)
            BY <1>1, <3>1 DEF ParametersFor
        <3>6. (request \ todo)' = after /\ todo' \subseteq request' /\ unseen' \subseteq after
            BY <1>2, <2>6, <3>1
        <3> HIDE DEF before, after
        <3>7. RootFor(request \ todo)'
            <4>1. after' = after
                BY <1>2 DEF after
            <4> QED BY <3>4, <3>6, <4>1 DEF RootFor, EntriesFor
        <3>8. cdb'["+Parameters"] = ParametersFor(after)
            BY <2>3, <2>6, <3>5 DEF before
        <3>9. cdb'["+Parameters"] = ParametersFor((request \ todo)')
            BY <3>6, <3>8
        <3>10. (cdb["+Parameters"] = ParametersFor(request \ todo))'
            BY <3>9 DEF ParametersFor
        <3>11. (unseen \subseteq request \ todo)'
            BY <3>6
        <3>12. (todo \subseteq request)'
            BY <3>6
        <3> QED BY <2>2, <3>7, <3>10, <3>11, <3>12 DEF FoundSoFar
    <2>7. CASE todo \subseteq Skipped /\ cdb["root"]["Destination"] = Nothing
        BY <2>5, <2>7, <1>1
    <2> QED BY <2>2, <2>6, <2>7 DEF FoundSoFar
<1> QED BY <1>2, <1>3, <1>4 DEF Inv

LEMMA AddressKeeps ==
    ASSUME Inv, NEW name \in Commands, Address(name)
    PROVE  Inv'
<1>1. PICK read, written \in BOOLEAN :
          /\ cdb' = IF written THEN [cdb EXCEPT ![at][Entry[name]] = Value(name, read)] ELSE cdb
          /\ unseen' = unseen \cup (IF read /\ written THEN {} ELSE {name})
    BY DEF Address
<1> DEFINE v == Value(name, read)
           missed == IF read /\ written THEN {} ELSE {name}
<1>2. v \in {name, ""} /\ missed \in SUBSET {name}
    BY DEF Value
<1>3. name \in DOMAIN Entry /\ name \in Addresses
    BY EntriesApart DEF Address
<1>4. at' = at /\ ok' = ok /\ Visit(name) /\ ok \in BOOLEAN
    BY DEF Address, Inv, TypeOK
<1>5. \/ missed = {} /\ written /\ v = name
      \/ missed # {} /\ (written => v = "")
    BY DEF Value
<1> HIDE DEF v, missed
<1>6. /\ cdb' = IF written THEN [cdb EXCEPT ![at][Entry[name]] = v] ELSE cdb
      /\ unseen' = unseen \cup missed
    BY <1>1 DEF v, missed
<1> QED BY <1>2, <1>3, <1>4, <1>5, <1>6, EntryKeeps

LEMMA ChooseKeeps ==
    ASSUME Inv, NEW name \in Commands, Choose(name)
    PROVE  Inv'
<1>1. PICK read, written \in BOOLEAN :
          /\ ok' = (ok /\ read)
          /\ cdb' = IF written THEN [cdb EXCEPT ![at][Entry[name]] = Value(name, read)] ELSE cdb
          /\ unseen' = unseen \cup (IF written THEN {} ELSE {name})
    BY DEF Choose
<1> DEFINE v == Value(name, read)
           missed == IF written THEN {} ELSE {name}
<1>2. v \in {name, ""} /\ missed \in SUBSET {name}
    BY DEF Value
<1>3. name \in DOMAIN Entry /\ name \notin Addresses
    BY EntriesApart DEF Choose, Addresses
<1>4. at' = at /\ Visit(name) /\ ok' \in BOOLEAN /\ (ok' => ok)
    BY <1>1 DEF Choose, Inv, TypeOK
<1>5. ok' => \/ missed = {} /\ written /\ v = name
             \/ missed # {} /\ ~written
    BY <1>1 DEF Value
<1> HIDE DEF v, missed
<1>6. /\ cdb' = IF written THEN [cdb EXCEPT ![at][Entry[name]] = v] ELSE cdb
      /\ unseen' = unseen \cup missed
    BY <1>1 DEF v, missed
<1> QED BY <1>2, <1>3, <1>4, <1>5, <1>6, EntryKeeps

LEMMA SkipKeeps ==
    ASSUME Inv, NEW name \in Commands, Skip(name)
    PROVE  Inv'
<1>1. /\ Visit(name) /\ UNCHANGED <<at, cdb, ok, unseen>>
      /\ name \notin Names /\ name \notin DOMAIN Entry
    BY CommandsApart, EntriesApart DEF Skip, Skipped, Addresses
<1>2. /\ AnswerInv' /\ pc' = "commands" /\ fate' = "unsent" /\ request' = request
      /\ todo' = todo \ {name} /\ todo' \in SUBSET Commands
      /\ UNCHANGED <<format, answer>>
    BY <1>1, VisitKeeps
<1>3. TypeOK'
    BY <1>1, <1>2 DEF Inv, TypeOK
<1>4. RequestInv'
    <2>1. SUFFICES ASSUME ok' PROVE FoundSoFar' /\ at' = "root"
        BY <1>2 DEF RequestInv
    <2>2. at = "root" /\ FoundSoFar
        BY <1>1, <2>1, VisitKeeps
    <2>3. ParametersFor(request \ todo) = ParametersFor(request \ (todo \ {name}))
        BY <1>1 DEF ParametersFor
    <2>4. RootFor(request \ todo) => RootFor(request \ todo)'
        BY <1>1, <1>2 DEF RootFor, EntriesFor
    <2> QED BY <1>1, <1>2, <2>2, <2>3, <2>4 DEF FoundSoFar, ParametersFor
<1> QED BY <1>2, <1>3, <1>4 DEF Inv

LEMMA AddParameterKeeps ==
    ASSUME Inv, NEW name \in Commands, AddParameter(name)
    PROVE  Inv'
<1>0. PICK moved, read, written, left \in BOOLEAN :
          LET place == Entered(moved) IN
          /\ moved => at = "root"
          /\ left => place = "+Parameters"
          /\ ok' = (ok /\ moved /\ read /\ written /\ left)
          /\ cdb' = IF written THEN [cdb EXCEPT ![place][name] = Value(name, read)] ELSE cdb
          /\ at' = IF left THEN "root" ELSE place
    BY DEF AddParameter
<1>1. Visit(name) /\ name \in Names /\ name \in Keys /\ name \notin Skipped
      /\ name \notin DOMAIN Entry /\ unseen' = unseen
      /\ Value(name, read) \in Contents /\ Entered(moved) \in Places
    BY CommandsApart, EntriesApart DEF AddParameter, Keys, Value, Contents, Entered, Places, Inv, TypeOK
<1>2. /\ AnswerInv' /\ pc' = "commands" /\ fate' = "unsent" /\ request' = request
      /\ todo' = todo \ {name} /\ todo' \in SUBSET Commands
      /\ UNCHANGED <<format, answer>>
    BY <1>1, VisitKeeps
<1>3. TypeOK'
    <2>1. cdb' \in [Places -> [Keys -> Contents]]
        BY <1>0, <1>1, WriteIsTyped DEF Inv, TypeOK
    <2>2. at' \in Places /\ ok' \in BOOLEAN
        BY <1>0, <1>1 DEF Inv, TypeOK, Places
    <2> QED BY <2>1, <2>2, <1>1, <1>2 DEF Inv, TypeOK
<1>4. RequestInv'
    <2>1. SUFFICES ASSUME ok' PROVE FoundSoFar' /\ at' = "root"
        BY <1>2 DEF RequestInv
    <2>2. at = "root" /\ FoundSoFar /\ moved /\ read /\ written /\ left
        BY <1>0, <1>1, <2>1, VisitKeeps
    <2>3. cdb' = [cdb EXCEPT !["+Parameters"][name] = name] /\ at' = "root"
        BY <1>0, <2>2 DEF Entered, Value
    <2>4. cdb'["root"] = cdb["root"] /\ cdb'["+Parameters"] = [cdb["+Parameters"] EXCEPT ![name] = name]
        BY <2>3 DEF Inv, TypeOK, Places
    <2>5. name \in todo
        BY <1>1 DEF Visit
    <2>7. CASE /\ todo \subseteq request /\ cdb["+Parameters"] = ParametersFor(request \ todo)
               /\ RootFor(request \ todo) /\ unseen \subseteq request \ todo
        <3>1. name \in request \ (todo \ {name})
            BY <2>5, <2>7
        <3>2. [ParametersFor(request \ todo) EXCEPT ![name] = name] = ParametersFor(request \ (todo \ {name}))
            BY <1>1, <3>1 DEF ParametersFor
        <3>3. cdb'["+Parameters"] = ParametersFor(request \ (todo \ {name}))
            BY <2>4, <2>7, <3>2
        <3>4. RootFor(request \ todo)'
            BY <1>1, <1>2, <2>4, <2>7 DEF RootFor, EntriesFor
        <3> QED BY <1>1, <1>2, <2>3, <2>7, <3>3, <3>4 DEF FoundSoFar, ParametersFor
    <2>8. CASE todo \subseteq Skipped /\ cdb["root"]["Destination"] = Nothing
        BY <2>5, <2>8, <1>1
    <2> QED BY <2>2, <2>7, <2>8 DEF FoundSoFar
<1> QED BY <1>2, <1>3, <1>4 DEF Inv

LEMMA BuildMessageKeeps ==
    ASSUME Inv, BuildMessage
    PROVE  Inv'
<1>0. PICK initialised \in BOOLEAN :
          /\ initialised => ok /\ CanInitialise
          /\ ok' = initialised
          /\ pc' = IF initialised THEN "send" ELSE "sent"
    BY DEF BuildMessage
<1>1. TypeOK'
    BY <1>0 DEF Inv, TypeOK, BuildMessage
<1>2. RequestInv'
    <2>1. SUFFICES ASSUME initialised PROVE IsRequested'
        BY <1>0 DEF RequestInv, BuildMessage, Inv, AnswerInv
    <2>2. /\ todo = {} /\ FoundSoFar
          /\ \A c \in Addresses : cdb["root"][Entry[c]] # Nothing
        BY <1>0, <2>1 DEF BuildMessage, Inv, RequestInv, CanInitialise, Entry, Addresses
    <2>3. request \ todo = request
        BY <2>2
    <2>4. cdb["+Parameters"] = ParametersFor(request) /\ RootFor(request)
        BY <2>2, <2>3 DEF FoundSoFar, Entry, Addresses
    <2>5. ASSUME NEW c \in DOMAIN Entry PROVE cdb["root"][Entry[c]] = Expected(c)
        <3>1. cdb["root"][Entry[c]] \in EntriesFor(c, request)
            BY <2>4 DEF RootFor
        <3> QED BY <2>2, <3>1 DEF EntriesFor, Expected
    <2>6. IsRequested
        BY <2>4, <2>5 DEF IsRequested, RootFor
    <2> QED BY <2>6 DEF BuildMessage, IsRequested, Expected, ParametersFor
<1>3. AnswerInv'
    BY <1>0 DEF Inv, AnswerInv, AnswerSaysWhatHappened, BuildMessage
<1> QED BY <1>1, <1>2, <1>3 DEF Inv

LEMMA SendMessageKeeps ==
    ASSUME Inv, SendMessage
    PROVE  Inv'
<1>0. fate' \in {"unsent", "unanswered", "delivered"}
    BY DEF SendMessage
<1>1. TypeOK'
    BY <1>0 DEF Inv, TypeOK, SendMessage
<1>2. RequestInv'
    BY DEF Inv, RequestInv, SendMessage, IsRequested, Expected, ParametersFor
<1>3. AnswerInv'
    BY DEF Inv, AnswerInv, AnswerSaysWhatHappened, SendMessage
<1> QED BY <1>1, <1>2, <1>3 DEF Inv

LEMMA AnswerKeeps ==
    ASSUME Inv, Answer
    PROVE  Inv'
<1>1. TypeOK'
    BY DEF Inv, TypeOK, Answer
<1>2. RequestInv'
    BY DEF Inv, RequestInv, Answer, IsRequested, Expected, ParametersFor
<1>3. AnswerInv'
    <2>1. CASE format = "text"
        BY <2>1 DEF Inv, AnswerInv, AnswerSaysWhatHappened, Answer
    <2>2. CASE format = "structured"
        <3>1. PICK written \in BOOLEAN : answer' = IF written THEN IF ok THEN 1 ELSE 0 ELSE Nothing
            BY <2>2 DEF Answer
        <3>2. (ok <=> fate = "delivered") /\ fate' = fate /\ format' = format /\ pc' = "returned"
            BY DEF Inv, AnswerInv, Answer
        <3>3. answer' # Nothing => (answer' = 1 <=> ok)
            BY <3>1
        <3> QED BY <2>2, <3>2, <3>3 DEF AnswerInv, AnswerSaysWhatHappened
    <2> QED BY <2>1, <2>2 DEF Inv, TypeOK
<1> QED BY <1>1, <1>2, <1>3 DEF Inv

LEMMA ReturnKeeps ==
    ASSUME Inv, Return
    PROVE  Inv'
<1>1. TypeOK'
    BY DEF Return, TypeOK, Blank, Places, Contents
<1>2. RequestInv' /\ AnswerInv'
    BY DEF Return, RequestInv, AnswerInv, AnswerSaysWhatHappened
<1> QED BY <1>1, <1>2 DEF Inv

LEMMA StutterKeeps ==
    ASSUME Inv, UNCHANGED vars
    PROVE  Inv'
BY DEF Inv, TypeOK, RequestInv, AnswerInv, AnswerSaysWhatHappened, IsRequested, Expected, RootFor, EntriesFor, FoundSoFar, ParametersFor, vars

LEMMA NextKeeps ==
    ASSUME Inv, [Next]_vars
    PROVE  Inv'
<1>1. CASE \E asked \in SUBSET Asked, f \in {"structured", "text"}, begun \in BOOLEAN : Receive(asked, f, begun)
    BY <1>1, ReceiveKeeps
<1>2. CASE \E name \in Commands : Address(name) \/ Choose(name) \/ Skip(name) \/ AddParameter(name)
    BY <1>2, AddressKeeps, ChooseKeeps, SkipKeeps, AddParameterKeeps
<1> QED BY <1>1, <1>2, CreateParametersKeeps, BuildMessageKeeps, SendMessageKeeps, AnswerKeeps, ReturnKeeps, StutterKeeps DEF Next

LEMMA InvHolds == Spec => []Inv
<1>1. Init => Inv
    BY InitHolds
<1>2. Inv /\ [Next]_vars => Inv'
    BY NextKeeps
<1> QED BY <1>1, <1>2, PTL DEF Spec

\* Whatever the requests, the variables keep their types.
THEOREM TypeCorrect == Spec => []TypeOK
<1>1. Inv => TypeOK
    BY DEF Inv
<1> QED BY <1>1, InvHolds, PTL

\* A message that leaves is the one its request asked for, and where it is not, what
\* it has instead is known: an entry whose reading or writing failed unseen is empty
\* (destination, function) or missing (mode, timeout).
THEOREM SentAsRequested == Spec => []SentIsRequested
<1>1. Inv => SentIsRequested
    BY DEF Inv, RequestInv, SentIsRequested
<1> QED BY <1>1, InvHolds, PTL

\* The OK of the answer and the fate of the message agree.
THEOREM AnswersAreTrue == Spec => []AnswerSaysWhatHappened
<1>1. Inv => AnswerSaysWhatHappened
    BY DEF Inv, AnswerInv
<1> QED BY <1>1, InvHolds, PTL
=============================================================================
