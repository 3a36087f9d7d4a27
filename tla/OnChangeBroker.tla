--------------------------- MODULE OnChangeBroker ---------------------------
(***************************************************************************)
(* The OnChangeLoggerDataSource and its OnChangeBrokers: the data source   *)
(* keeps an ignore flag for each of its signals, and hands out one broker  *)
(* per function (GAM) that writes to it.  After its function has executed, *)
(* a broker compares the signals it copies with the previous values and,   *)
(* when one that is not ignored differs, logs them all.                    *)
(*                                                                         *)
(* Three arrays that must agree are indexed in three ways: the flags by    *)
(* signal of the data source, the outputs by copy (one per range of a      *)
(* signal of the function), the previous values by byte.  The value of a   *)
(* copy is one element of Values, however many bytes it has.  What the     *)
(* code reads outside an array is any value.                               *)
(*                                                                         *)
(* Functions execute in real-time threads of their own, and log through    *)
(* REPORT_ERROR one line at a time.  A framework call that fails ends the  *)
(* configuration, and no function executes.                                *)
(***************************************************************************)
EXTENDS Naturals, Sequences, FiniteSetsExt

CONSTANTS Functions,        \* the functions that write to the data source
          NumberOfSignals,  \* of the data source
          Width,            \* bytes of an element of each signal
          Dimensions,       \* number of dimensions of each signal
          Layouts,          \* the ranges a function may have, in its order
          Values,           \* the values a copy can have
          Unwritten,        \* memory of prevValues not written yet
          NULL,             \* NULL_PTR
          MaxEvents         \* bound on the events of a broker

Signals == 1 .. NumberOfSignals

(* One copy: a range of elements of a signal of the data source.           *)
Copy == [signal : Signals, elements : Nat]

ASSUME ConstantsAssumption ==
  /\ NumberOfSignals \in Nat
  /\ Width \in [Signals -> Nat]
  /\ Dimensions \in [Signals -> Nat]
  /\ \A f \in Functions : Layouts[f] \subseteq Seq(Copy) \ {<<>>}
  /\ Unwritten \notin Values
  /\ \A f \in Functions : \A layout \in Layouts[f] :
       NULL \notin [1 .. Len(layout) -> Values \cup {Unwritten}]
  /\ MaxEvents \in Nat

VARIABLES
  flags,     \* OnChangeLoggerDataSource::ignoreMask, or NULL
  table,     \* outputSignals: the copies of each broker, in order
  byteSize,  \* the size of prevValues
  mask,      \* ignoreMask of each broker, or NULL
  values,    \* the memory of each function, one value per copy
  prev,      \* prevValues, one value per copy, or NULL
  counter,   \* number of events of each broker
  pc,        \* where each function and its broker are
  at,        \* the copy Execute logs next
  lines      \* what has been logged

brokerVars == <<table, byteSize, mask>>
vars == <<flags, brokerVars, values, prev, counter, pc, at, lines>>

Init ==
  /\ flags = NULL
  /\ table = [f \in Functions |-> <<>>]
  /\ byteSize = [f \in Functions |-> 0]
  /\ mask = [f \in Functions |-> NULL]
  /\ values = [f \in Functions |-> NULL]
  /\ prev = [f \in Functions |-> NULL]
  /\ counter = [f \in Functions |-> 0]
  /\ pc = [f \in Functions |-> "absent"]
  /\ at = [f \in Functions |-> 0]
  /\ lines = <<>>

Copies(f) == 1 .. Len(table[f])

-----------------------------------------------------------------------------
(* Configuration.                                                          *)

(* SetConfiguredDatabase: a signal is ignored if its Ignore parameter says *)
(* so.                                                                     *)
SetConfiguredDatabase ==
  /\ flags = NULL
  /\ flags' \in [Signals -> 0 .. 1]
  /\ UNCHANGED <<brokerVars, values, prev, counter, pc, at, lines>>

(* What Init adds up: one element for each copy.                           *)
ElementBytes(layout) ==
  MapThenSumSet(LAMBDA n : Width[layout[n].signal], 1 .. Len(layout))

(* OnChangeBroker::Init: one copy for each range of each signal of the     *)
(* function.                                                               *)
BrokerInit(f, layout) ==
  /\ table' = [table EXCEPT ![f] = layout]
  /\ byteSize' = [byteSize EXCEPT ![f] = ElementBytes(layout)]

(* Faulty: the broker is handed out without a mask.                        *)
NoMask(f) == UNCHANGED mask

(* SetMask copies the flags as they are, by signal of the data source.     *)
SetMask(f) == mask' = [mask EXCEPT ![f] = flags]

(* GetOutputBrokers: the broker is kept when its Init succeeds.            *)
GetOutputBrokers(f) ==
  /\ flags # NULL
  /\ pc[f] = "absent"
  /\ \/ \E layout \in Layouts[f] :
          /\ BrokerInit(f, layout)
          /\ SetMask(f)
          /\ values' \in {[values EXCEPT ![f] = v] :
                            v \in [1 .. Len(layout) -> Values]}
          /\ pc' = [pc EXCEPT ![f] = "gam"]
     \/ /\ pc' = [pc EXCEPT ![f] = "failed"]
        /\ UNCHANGED <<brokerVars, values>>
  /\ UNCHANGED <<flags, prev, counter, at, lines>>

Started == \A f \in Functions : pc[f] \notin {"absent", "failed"}

(* The function executes and writes its memory; its broker is next.        *)
GamExecute(f) ==
  /\ Started
  /\ pc[f] = "gam"
  /\ counter[f] < MaxEvents
  /\ values' \in {[values EXCEPT ![f] = v] : v \in [Copies(f) -> Values]}
  /\ pc' = [pc EXCEPT ![f] = "compare"]
  /\ UNCHANGED <<flags, brokerVars, prev, counter, at, lines>>

-----------------------------------------------------------------------------
(* OnChangeBroker::Execute.                                                *)

(* The number of bytes Execute compares and copies for copy n of a layout, *)
(* and where its iterator over prevValues then is.                         *)
Size(layout, n) ==
  LET signal == layout[n].signal
      M == IF Dimensions[signal] = 0 THEN 1
           ELSE Dimensions[signal] * layout[n].elements
  IN  Width[signal] * M
Iterator(layout, n) == MapThenSumSet(LAMBDA m : Size(layout, m), 1 .. n - 1)

(* Copy n has its own bytes in the memory of the function and in           *)
(* prevValues.                                                             *)
InPlace(f, n) ==
  LET layout == table[f] IN
  /\ Size(layout, n) <= Width[layout[n].signal] * layout[n].elements
  /\ Iterator(layout, n) + Size(layout, n) <= byteSize[f]

(* Faulty: every copy is watched.                                          *)
UnmaskedAlways(f, n) == {TRUE}

(* What ignoreMask[n] == 0 and memcmp can say.                             *)
Unmasked(f, n) == IF n \in Signals THEN {mask[f][n] = 0} ELSE BOOLEAN
Differs(f, n) == IF InPlace(f, n) THEN {values[f][n] # prev[f][n]} ELSE BOOLEAN

MayTrigger(f) ==
  \E n \in Copies(f) : TRUE \in Unmasked(f, n) /\ TRUE \in Differs(f, n)

(* Faulty: the loop stops before the last copy.                            *)
MustTriggerButLast(f) ==
  \E n \in 1 .. Len(table[f]) - 1 :
    Unmasked(f, n) = {TRUE} /\ Differs(f, n) = {TRUE}

MustTrigger(f) ==
  \E n \in Copies(f) : Unmasked(f, n) = {TRUE} /\ Differs(f, n) = {TRUE}

Allocate(f) ==
  /\ prev[f] = NULL
  /\ prev' = [prev EXCEPT ![f] = [n \in Copies(f) |-> Unwritten]]
  /\ pc' = [pc EXCEPT ![f] = "event"]

Trigger(f) ==
  /\ prev[f] # NULL
  /\ MayTrigger(f)
  /\ pc' = [pc EXCEPT ![f] = "event"]
  /\ UNCHANGED prev

Ignore(f) ==
  /\ prev[f] # NULL
  /\ ~MustTrigger(f)
  /\ pc' = [pc EXCEPT ![f] = "gam"]
  /\ UNCHANGED prev

Compare(f) ==
  /\ pc[f] = "compare"
  /\ Allocate(f) \/ Trigger(f) \/ Ignore(f)
  /\ UNCHANGED <<flags, brokerVars, values, counter, at, lines>>

(* The line "Log event: n".                                                *)
LogEvent(f) ==
  /\ pc[f] = "event"
  /\ counter' = [counter EXCEPT ![f] = @ + 1]
  /\ lines' = Append(lines, [function |-> f, copy |-> 0, says |-> counter'[f]])
  /\ pc' = [pc EXCEPT ![f] = "copy"]
  /\ at' = [at EXCEPT ![f] = 1]
  /\ UNCHANGED <<flags, brokerVars, values, prev>>

(* Faulty: the previous values of an ignored copy are not kept.            *)
LogWatchedCopy(f) ==
  LET n == at[f] IN
  /\ pc[f] = "copy"
  /\ lines' = Append(lines, [function |-> f, copy |-> n, says |-> values[f][n]])
  /\ IF FALSE \in Unmasked(f, n)
     THEN UNCHANGED prev
     ELSE prev' = [prev EXCEPT ![f][n] = values[f][n]]
  /\ at' = [at EXCEPT ![f] = n + 1]
  /\ pc' = [pc EXCEPT ![f] = IF n = Len(table[f]) THEN "gam" ELSE "copy"]
  /\ UNCHANGED <<flags, brokerVars, values, counter>>

(* The line of one copy, whose bytes become the previous ones.             *)
LogCopy(f) ==
  LET n == at[f] IN
  /\ pc[f] = "copy"
  /\ lines' = Append(lines, [function |-> f, copy |-> n, says |-> values[f][n]])
  /\ prev' = [prev EXCEPT ![f][n] = values[f][n]]
  /\ at' = [at EXCEPT ![f] = n + 1]
  /\ pc' = [pc EXCEPT ![f] = IF n = Len(table[f]) THEN "gam" ELSE "copy"]
  /\ UNCHANGED <<flags, brokerVars, values, counter>>

Step(f) ==
  GetOutputBrokers(f) \/ GamExecute(f) \/ Compare(f) \/ LogEvent(f) \/ LogCopy(f)

Next == SetConfiguredDatabase \/ \E f \in Functions : Step(f)

Spec == Init /\ [][Next]_vars

-----------------------------------------------------------------------------
(* Properties.                                                             *)

Attached(f) == pc[f] \notin {"absent", "failed"}

Lines == [function : Functions, copy : Nat, says : Nat \cup Values]

(* Every variable has its type; a broker that was handed out has its mask, *)
(* its copies and its memory.                                              *)
TypeOK ==
  /\ flags \in [Signals -> 0 .. 1] \cup {NULL}
  /\ DOMAIN table = Functions
  /\ DOMAIN byteSize = Functions
  /\ DOMAIN mask = Functions
  /\ DOMAIN values = Functions
  /\ DOMAIN prev = Functions
  /\ counter \in [Functions -> Nat]
  /\ pc \in [Functions ->
             {"absent", "failed", "gam", "compare", "event", "copy"}]
  /\ at \in [Functions -> Nat]
  /\ lines \in Seq(Lines)
  /\ \A f \in Functions :
       /\ Attached(f) =>
            /\ flags # NULL
            /\ mask[f] = flags
            /\ table[f] \in Layouts[f]
            /\ byteSize[f] = ElementBytes(table[f])
            /\ values[f] \in [Copies(f) -> Values]
       /\ prev[f] \in [Copies(f) -> Values \cup {Unwritten}] \cup {NULL}
       /\ pc[f] = "copy" => at[f] \in Copies(f)

(* The configuration a broker needs to work by its documentation: the      *)
(* bytes of its copies are where Execute looks for them, and the flag at   *)
(* the position of a copy is the flag of the signal of that copy.          *)
WellConfigured(f) ==
  \A n \in Copies(f) :
    /\ InPlace(f, n)
    /\ n \in Signals
    /\ flags[n] = flags[table[f][n].signal]

(* A signal is monitored unless its Ignore parameter is set.               *)
Monitored(f, n) == flags[table[f][n].signal] = 0

(* "prints in the MARTe logger the current value of any signal whenever    *)
(* one of the monitored signals changed": between two executions of a      *)
(* function whose broker is well configured, what its last event showed of *)
(* a monitored signal is the signal's value.                               *)
MonitoredIsShown ==
  \A f \in Functions :
    pc[f] = "gam" /\ WellConfigured(f) /\ prev[f] # NULL =>
      \A n \in Copies(f) : Monitored(f, n) => prev[f][n] = values[f][n]

(* The lines of f since line e are an event with its counter and one line  *)
(* for each of the first m copies, in order, with their previous values.   *)
ShownSince(f, e, m) ==
  LET later == {k \in e + 1 .. Len(lines) : lines[k].function = f} IN
  /\ lines[e].function = f /\ lines[e].copy = 0 /\ lines[e].says = counter[f]
  /\ \A k \in later : /\ lines[k].copy \in 1 .. m
                       /\ lines[k].says = prev[f][lines[k].copy]
  /\ \A n \in 1 .. m : \E k \in later : lines[k].copy = n
  /\ \A k, l \in later : k < l => lines[k].copy < lines[l].copy

(* The values Execute compares with are those the log shows: outside of    *)
(* Execute the last lines of a broker are an event with its counter,       *)
(* followed by one line for each copy with the previous value of that copy,*)
(* whatever other brokers write in between.                                *)
EventShowsPrevious ==
  \A f \in Functions :
    pc[f] \in {"gam", "compare"} /\ prev[f] # NULL =>
      \E e \in DOMAIN lines : ShownSince(f, e, Len(table[f]))

(* The same promise as MonitoredIsShown, of any broker whose bytes are in  *)
(* place: the order in which a function lists its signals does not matter. *)
MonitoredIsShownInAnyOrder ==
  \A f \in Functions :
    pc[f] = "gam" /\ prev[f] # NULL =>
      \A n \in Copies(f) :
        InPlace(f, n) /\ Monitored(f, n) => prev[f][n] = values[f][n]

(* Execute copies the signals into prevValues: they fit in its byteSize    *)
(* bytes.                                                                  *)
PreviousValuesFit ==
  \A f \in Functions :
    pc[f] = "event" => Iterator(table[f], Len(table[f]) + 1) <= byteSize[f]

-----------------------------------------------------------------------------
(* The brokers of well configured functions implement the log of changes.  *)

AllWellConfigured == \A f \in Functions : Attached(f) => WellConfigured(f)

WellConfiguredSpec == Init /\ [][Next /\ AllWellConfigured']_vars

Turn(f) ==
  CASE pc[f] \in {"absent", "failed"} -> "absent"
    [] pc[f] \in {"gam", "event", "copy"} -> "publish"
    [] pc[f] = "compare" -> "observe"

Watched(f) == {n \in Copies(f) : Monitored(f, n)}

(* An event is decided by Compare and shows the values of that moment,     *)
(* which stay as they are until all its lines are written.                 *)
Shown(f) == IF pc[f] \in {"event", "copy"} THEN values[f] ELSE prev[f]

Number(f) == counter[f] + (IF pc[f] = "event" THEN 1 ELSE 0)

Log == INSTANCE ChangeLog WITH
  Never     <- NULL,
  turn      <- [f \in Functions |-> Turn(f)],
  watched   <- [f \in Functions |-> Watched(f)],
  published <- values,
  shown     <- [f \in Functions |-> Shown(f)],
  number    <- [f \in Functions |-> Number(f)]

(* Every execution of a function is followed by an event with the current  *)
(* value of all its signals exactly when it is the first or a monitored    *)
(* signal differs from what the last event showed.                         *)
LogSpec == Log!Spec
=============================================================================
