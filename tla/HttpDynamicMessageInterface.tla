-------------------- MODULE HttpDynamicMessageInterface ---------------------
(***************************************************************************)
(* Interfaces/HttpDynamicMessageInterface: the commands of an HTTP request *)
(* become a MARTe2 message, which is sent, and the answer says how it      *)
(* went. A request works on its own locals, so that one at a time is all   *)
(* there is to see. Every call on the protocol, the database and the       *)
(* message may fail, whether or not the code looks at its result. The      *)
(* value of a command is the name of the command. `unseen' is a history    *)
(* variable: no action reads it.                                           *)
(***************************************************************************)
EXTENDS Naturals

CONSTANTS
    Names,      \* of the commands that become parameters
    Asked,      \* the commands a request may have: a bound of the model
    Nothing     \* no entry, no answer

Addresses == {"destination", "function"}
Skipped == {"OutputOptions", "Peer", "InputOptions"}
Reserved == Addresses \cup Skipped \cup {"mode", "timeout"}
Commands == Names \cup Reserved

ASSUME NamesAssumption ==
    /\ Names \cap (Reserved \cup {Nothing}) = {} /\ Asked \subseteq Commands
    /\ Nothing \notin Reserved \cup {"", "ConfigurationDatabase"}

Places == {"root", "+Parameters"}
Entry == [destination |-> "Destination", function |-> "Function", mode |-> "Mode", timeout |-> "ReplayTimeout"]
Keys == Names \cup {"Class", "Destination", "Function", "Mode", "ReplayTimeout"}
Contents == Commands \cup {Nothing, "", "ConfigurationDatabase"}

VARIABLES
    request,    \* the commands of the request
    format,     \* "structured" or "text"
    todo,       \* the children still to be visited
    at, cdb,    \* the ConfigurationDatabase, and where in it the next call works
    ok,
    unseen,     \* the entries that a failed call left wrong without ok saying so
    fate,       \* of the message: "unsent", "unanswered", "delivered"
    answer,     \* the OK that was written
    pc

vars == <<request, format, todo, at, cdb, ok, unseen, fate, answer, pc>>

Blank == [p \in Places |-> [k \in Keys |-> Nothing]]

----------------------------------------------------------------------------

\* GetAsStructuredData and GetAsText up to the call of SendDynamicMessage;
\* `begun': every call before it succeeded.
Receive(asked, f, begun) ==
    /\ pc = "idle"
    /\ request' = asked /\ format' = f
    /\ todo' = {} /\ at' = "root" /\ cdb' = Blank
    /\ unseen' = {} /\ fate' = "unsent" /\ answer' = Nothing
    /\ ok' = begun
    /\ pc' = IF begun THEN "created" ELSE "returned"

\* The cursor is moved by those calls that succeed.
Entered(done) == IF done THEN "+Parameters" ELSE at

\* A failed MoveAbsolute goes unseen: the children are those of the protocol itself.
CreateParameters ==
    /\ pc = "created"
    /\ \E created, written, left, listed \in BOOLEAN :
           LET place == Entered(created) IN
           /\ cdb' = IF written THEN [cdb EXCEPT ![place]["Class"] = "ConfigurationDatabase"] ELSE cdb
           /\ left => created          \* the root has no ancestor
           /\ at' = IF left THEN "root" ELSE place
           /\ ok' = (ok /\ created /\ written /\ left)
           /\ todo' = IF listed THEN request ELSE Skipped
    /\ pc' = "commands"
    /\ UNCHANGED <<request, format, unseen, fate, answer>>

Visit(name) ==
    /\ pc = "commands" /\ name \in todo
    /\ todo' = todo \ {name}
    /\ UNCHANGED <<request, format, fate, answer, pc>>

Value(name, read) == IF read THEN name ELSE ""

\* Neither the result of reading nor that of writing is looked at.
Address(name) ==
    /\ name \in Addresses
    /\ Visit(name)
    /\ \E read, written \in BOOLEAN :
           /\ cdb' = IF written THEN [cdb EXCEPT ![at][Entry[name]] = Value(name, read)] ELSE cdb
           /\ unseen' = unseen \cup (IF read /\ written THEN {} ELSE {name})
    /\ UNCHANGED <<at, ok>>

\* That of reading is.
Choose(name) ==
    /\ name \in {"mode", "timeout"}
    /\ Visit(name)
    /\ \E read, written \in BOOLEAN :
           /\ ok' = (ok /\ read)
           /\ cdb' = IF written THEN [cdb EXCEPT ![at][Entry[name]] = Value(name, read)] ELSE cdb
           /\ unseen' = unseen \cup (IF written THEN {} ELSE {name})
    /\ UNCHANGED at

Skip(name) ==
    /\ name \in Skipped
    /\ Visit(name)
    /\ UNCHANGED <<at, cdb, ok, unseen>>

\* Faulty: the way into +Parameters is not checked.
AddParameterAnywhere(name) ==
    /\ name \in Names
    /\ Visit(name)
    /\ \E moved, read, written, left \in BOOLEAN :
           LET place == Entered(moved /\ at = "root") IN
           /\ ok' = (ok /\ read /\ written)
           /\ cdb' = IF written THEN [cdb EXCEPT ![place][name] = Value(name, read)] ELSE cdb
           /\ at' = IF left THEN "root" ELSE place
    /\ UNCHANGED unseen

\* Into +Parameters, read, write and out again, with every result counted.
AddParameter(name) ==
    /\ name \in Names
    /\ Visit(name)
    /\ \E moved, read, written, left \in BOOLEAN :
           LET place == Entered(moved) IN
           /\ moved => at = "root"
           /\ left => place = "+Parameters"
           /\ ok' = (ok /\ moved /\ read /\ written /\ left)
           /\ cdb' = IF written THEN [cdb EXCEPT ![place][name] = Value(name, read)] ELSE cdb
           /\ at' = IF left THEN "root" ELSE place
    /\ UNCHANGED unseen

\* MARTe2's Message takes no configuration without a Destination and a Function.
CanInitialise == Nothing \notin {cdb["root"]["Destination"], cdb["root"]["Function"]}

ExpectsReply == cdb["root"]["Mode"] # Nothing

BuildMessage ==
    /\ pc = "commands" /\ todo = {}
    /\ \E initialised \in BOOLEAN :
           /\ initialised => ok /\ CanInitialise
           /\ ok' = initialised
           /\ pc' = IF initialised THEN "send" ELSE "sent"
    /\ UNCHANGED <<request, format, todo, at, cdb, unseen, fate, answer>>

\* Faulty: only a message that waits for its reply can fail.
SendMessageAnyhow ==
    /\ pc = "send"
    /\ fate' \in {"unsent", "delivered"} \cup (IF ExpectsReply THEN {"unanswered"} ELSE {})
    /\ ok' = (ExpectsReply => fate' = "delivered")
    /\ pc' = "sent"
    /\ UNCHANGED <<request, format, todo, at, cdb, unseen, answer>>

\* SendMessage, or SendMessageAndWaitReply, whose error may come after the sending.
SendMessage ==
    /\ pc = "send"
    /\ fate' \in {"unsent", "delivered"} \cup (IF ExpectsReply THEN {"unanswered"} ELSE {})
    /\ ok' = (fate' = "delivered")
    /\ pc' = "sent"
    /\ UNCHANGED <<request, format, todo, at, cdb, unseen, answer>>

\* The structured answer is begun, written and ended; the textual one is what is returned.
Answer ==
    /\ pc = "sent"
    /\ pc' = "returned"
    /\ \/ format = "text" /\ UNCHANGED <<answer, ok>>
       \/ /\ format = "structured"
          /\ \E written, ended \in BOOLEAN :
                 /\ answer' = IF written THEN IF ok THEN 1 ELSE 0 ELSE Nothing
                 /\ ok' = (written /\ ended)
    /\ UNCHANGED <<request, format, todo, at, cdb, unseen, fate>>

----------------------------------------------------------------------------

Init ==
    /\ request = {} /\ format = "text"
    /\ todo = {} /\ at = "root" /\ cdb = Blank
    /\ ok = FALSE /\ unseen = {} /\ fate = "unsent" /\ answer = Nothing
    /\ pc = "idle"

\* The locals are gone with the call.
Return ==
    /\ pc = "returned"
    /\ request' = {} /\ format' = "text"
    /\ todo' = {} /\ at' = "root" /\ cdb' = Blank
    /\ ok' = FALSE /\ unseen' = {} /\ fate' = "unsent" /\ answer' = Nothing
    /\ pc' = "idle"

Next ==
    \/ pc = "idle" /\ \E asked \in SUBSET Asked, f \in {"structured", "text"}, begun \in BOOLEAN :
           Receive(asked, f, begun)
    \/ CreateParameters
    \/ \E name \in Commands : Address(name) \/ Choose(name) \/ Skip(name) \/ AddParameter(name)
    \/ BuildMessage \/ SendMessage \/ Answer \/ Return

Spec == Init /\ [][Next]_vars

----------------------------------------------------------------------------

TypeOK ==
    /\ request \in SUBSET Commands /\ format \in {"structured", "text"}
    /\ todo \in SUBSET Commands
    /\ at \in Places /\ cdb \in [Places -> [Keys -> Contents]]
    /\ ok \in BOOLEAN /\ unseen \in SUBSET DOMAIN Entry
    /\ fate \in {"unsent", "unanswered", "delivered"}
    /\ answer \in {0, 1, Nothing}
    /\ pc \in {"idle", "created", "commands", "send", "sent", "returned"}

\* The parameters of a message for which those commands were visited.
ParametersFor(visited) ==
    [k \in Keys |-> IF k \in Names \cap visited THEN k
                   ELSE IF k = "Class" THEN "ConfigurationDatabase" ELSE Nothing]

\* The entry of a command in a message that is sent: its own value, unless it was
\* not asked for, or a call on it failed unseen. A destination or function is empty
\* then, as without the entry there would be no message; a mode or timeout is not there.
Expected(c) ==
    CASE c \notin request                -> Nothing
      [] c \in request \ unseen          -> c
      [] c \in request \cap unseen       -> IF c \in Addresses THEN "" ELSE Nothing

\* The message is the request: every command that is no option of the protocol
\* is a parameter with its own value, and nothing is in the place of another.
IsRequested ==
    /\ cdb["+Parameters"] = ParametersFor(request)
    /\ \A c \in DOMAIN Entry : cdb["root"][Entry[c]] = Expected(c)
    /\ \A k \in Keys \ {Entry[c] : c \in DOMAIN Entry} : cdb["root"][k] = Nothing

\* A message is about to be sent, or was, only with what the request asked for, but
\* for entries whose reading or writing failed with nobody looking: then it goes out
\* with an empty destination or function, or without its mode or timeout. A cursor
\* that a failed call leaves in the wrong place is used by all calls that follow, and
\* yet nothing else is missing or misplaced (SendDynamicMessage).
SentIsRequested == pc = "send" \/ fate # "unsent" => IsRequested

\* Who is told that the message was delivered is told the truth, and so is who
\* is told that it was not: the OK of a structured answer, whatever the call
\* returned, and the result of a textual one.
AnswerSaysWhatHappened ==
    pc = "returned" =>
        /\ format = "text" => (ok <=> fate = "delivered")
        /\ answer # Nothing => (answer = 1 <=> fate = "delivered")
=============================================================================
