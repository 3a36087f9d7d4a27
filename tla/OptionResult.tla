---------------------------- MODULE OptionResult ----------------------------
(***************************************************************************)
(* Core/Types/Option.h and Core/Types/Result.h: containers that keep their *)
(* content in a cell of the heap. An Option has a cell or none; a Result   *)
(* has the cell of a value when `ok' and that of an error otherwise, and   *)
(* its pointer has no type: what the cell is deleted as comes from `ok'.   *)
(* What a delete does with a cell of another type is not looked into: the  *)
(* cell is free again, and the model records that it went that way.        *)
(***************************************************************************)
EXTENDS Integers

CONSTANTS
    Options, Results,
    Values, Errors,      \* what may be stored
    HeapCells,           \* bound of the model: addresses of the heap
    NoCell

ASSUME OptionResultAssumption ==
    Values \cap Errors = {} /\ Options \cap Results = {} /\ NoCell \notin HeapCells

VARIABLES
    there,        \* the containers that exist
    mem,          \* Option::mem, Result::res_
    ok,           \* Result::ok_
    heap,         \* what the allocated cells hold
    misused,      \* a cell was read or deleted that is not allocated
    mistyped      \* the last operation deleted a cell as another type than it
                  \* was made as

containerVars == <<there, mem, ok, heap, misused, mistyped>>

Containers == Options \cup Results

----------------------------------------------------------------------------
(* Cells *)

Allocated(h) == DOMAIN h

With(h, cell, x) == [c \in DOMAIN h \cup {cell} |-> IF c = cell THEN x ELSE h[c]]

\* delete (T *)cell when the content is taken for a value, delete (E *)cell if not.
Deleted(h, cell) == [c \in DOMAIN h \ {cell} |-> h[c]]

DanglingDelete(cell) == cell # NoCell /\ cell \notin Allocated(heap)

WrongType(cell, asValue) ==
    cell \in Allocated(heap) /\ ~(heap[cell] \in Values <=> asValue)

\* Container c gets a new cell with x of the heap h.
Fill(c, h, x) ==
    \E cell \in HeapCells \ Allocated(h):
        mem' = [mem EXCEPT ![c] = cell] /\ heap' = With(h, cell, x)

Vacate(c, h) == mem' = [mem EXCEPT ![c] = NoCell] /\ heap' = h

\* Container c gets a copy of what another one's cell holds.
FillFrom(c, h, cell) ==
    IF cell \in Allocated(h) THEN Fill(c, h, h[cell]) ELSE Vacate(c, h)

DanglingRead(h, cell) == cell # NoCell /\ cell \notin Allocated(h)

Appear(c) == c \notin there /\ there' = there \cup {c}

----------------------------------------------------------------------------
(* Option *)

ConstructEmpty(o) ==
    /\ Appear(o)
    /\ Vacate(o, heap)
    /\ mistyped' = FALSE
    /\ UNCHANGED <<ok, misused>>

ConstructFull(o, x) ==
    /\ Appear(o)
    /\ Fill(o, heap, x)
    /\ mistyped' = FALSE
    /\ UNCHANGED <<ok, misused>>

\* Faulty: the copy that the compiler would make, of the pointer.
CopyOptionPointer(o, other) ==
    /\ other \in there
    /\ Appear(o)
    /\ mem' = [mem EXCEPT ![o] = mem[other]]
    /\ mistyped' = FALSE
    /\ UNCHANGED <<ok, heap, misused>>

CopyOption(o, other) ==
    /\ other \in there
    /\ Appear(o)
    /\ FillFrom(o, heap, mem[other])
    /\ misused' = (misused \/ DanglingRead(heap, mem[other]))
    /\ mistyped' = FALSE
    /\ UNCHANGED ok

\* maybe(fn, x): what fn returns for the value of x, of which nothing is known.
Maybe(o, other, x) ==
    /\ other \in there
    /\ IF mem[other] = NoCell THEN CopyOption(o, other) ELSE ConstructFull(o, x)

DestroyOption(o) ==
    /\ o \in there
    /\ there' = there \ {o}
    /\ Vacate(o, IF mem[o] = NoCell THEN heap ELSE Deleted(heap, mem[o]))
    /\ misused' = (misused \/ DanglingDelete(mem[o]))
    /\ mistyped' = WrongType(mem[o], TRUE)
    /\ UNCHANGED ok

\* o = x writes into the cell that is there.
AssignValue(o, x) ==
    /\ o \in there
    /\ IF mem[o] = NoCell THEN Fill(o, heap, x)
       ELSE heap' = [heap EXCEPT ![mem[o]] = x] /\ UNCHANGED mem
    /\ mistyped' = FALSE
    /\ UNCHANGED <<there, ok, misused>>

\* Faulty: takes the other's cell instead of copying it.
AssignOptionByMoving(o, other) ==
    /\ o \in there /\ other \in there /\ o # other
    /\ mem' = [mem EXCEPT ![o] = mem[other], ![other] = NoCell]
    /\ heap' = IF mem[o] = NoCell THEN heap ELSE Deleted(heap, mem[o])
    /\ mistyped' = FALSE
    /\ UNCHANGED <<there, ok, misused>>

\* o = other deletes first and looks at other then: nothing is left of o = o.
AssignOption(o, other) ==
    /\ o \in there /\ other \in there
    /\ LET left == IF mem[o] = NoCell THEN heap ELSE Deleted(heap, mem[o])
           cell == IF other = o THEN NoCell ELSE mem[other] IN
           /\ FillFrom(o, left, cell)
           /\ misused' = (misused \/ DanglingDelete(mem[o]) \/ DanglingRead(left, cell))
    /\ mistyped' = WrongType(mem[o], TRUE)
    /\ UNCHANGED <<there, ok>>

----------------------------------------------------------------------------
(* Result *)

\* Succ(value), Fail(error) and Result(value).
ConstructResult(r, x) ==
    /\ Appear(r)
    /\ Fill(r, heap, x)
    /\ ok' = [ok EXCEPT ![r] = x \in Values]
    /\ mistyped' = FALSE
    /\ UNCHANGED misused

CopyResult(r, other) ==
    /\ other \in there
    /\ Appear(r)
    /\ FillFrom(r, heap, mem[other])
    /\ ok' = [ok EXCEPT ![r] = ok[other]]
    /\ misused' = (misused \/ DanglingRead(heap, mem[other]))
    /\ mistyped' = FALSE

DestroyResult(r) ==
    /\ r \in there
    /\ there' = there \ {r}
    /\ Vacate(r, IF mem[r] = NoCell THEN heap ELSE Deleted(heap, mem[r]))
    /\ misused' = (misused \/ DanglingDelete(mem[r]))
    /\ mistyped' = WrongType(mem[r], ok[r])
    /\ UNCHANGED ok

\* clear_res goes by the `ok' that has just been taken from the other.
AssignResult(r, other) ==
    /\ r \in there /\ other \in there
    /\ IF other = r THEN UNCHANGED <<mem, ok, heap, misused>> /\ mistyped' = FALSE
       ELSE LET left == IF mem[r] = NoCell THEN heap ELSE Deleted(heap, mem[r]) IN
            /\ FillFrom(r, left, mem[other])
            /\ ok' = [ok EXCEPT ![r] = ok[other]]
            /\ misused' = (misused \/ DanglingDelete(mem[r]) \/ DanglingRead(left, mem[other]))
            /\ mistyped' = WrongType(mem[r], ok[other])
    /\ UNCHANGED there

----------------------------------------------------------------------------
ContainerInit ==
    /\ there = {}
    /\ mem = [c \in Containers |-> NoCell]
    /\ ok = [r \in Results |-> FALSE]
    /\ heap = [c \in {} |-> NoCell]
    /\ misused = FALSE
    /\ mistyped = FALSE

NextOption(o) ==
    \/ ConstructEmpty(o)
    \/ DestroyOption(o)
    \/ \E x \in Values: ConstructFull(o, x) \/ AssignValue(o, x)
    \/ \E other \in Options: CopyOption(o, other) \/ AssignOption(o, other)
    \/ \E other \in Options, x \in Values: Maybe(o, other, x)

NextResult(r) ==
    \/ DestroyResult(r)
    \/ \E x \in Values \cup Errors: ConstructResult(r, x)
    \/ \E other \in Results: CopyResult(r, other) \/ AssignResult(r, other)

ContainerNext == (\E o \in Options: NextOption(o)) \/ (\E r \in Results: NextResult(r))

ContainerSpec == ContainerInit /\ [][ContainerNext]_containerVars

----------------------------------------------------------------------------
(* Properties *)

OptionResultTypeOK ==
    /\ there \subseteq Containers
    /\ mem \in [Containers -> HeapCells \cup {NoCell}]
    /\ ok \in [Results -> BOOLEAN]
    /\ Allocated(heap) \subseteq HeapCells
    /\ misused \in BOOLEAN
    /\ mistyped \in BOOLEAN

Owns(c, cell) == c \in there /\ mem[c] = cell

\* Every cell has one owner, which deletes it once: no cell outlives its containers,
\* none is shared after a copy or an assignment, and `ok' tells what a Result's cell
\* holds (Result.h:145), after an assignment between a success and a failure too.
CellsHaveOneOwner ==
    /\ ~misused
    /\ \A cell \in Allocated(heap): \E c \in Containers: Owns(c, cell)
    /\ \A c, d \in Containers: mem[c] # NoCell /\ mem[c] = mem[d] => c = d
    /\ \A c \in Containers: mem[c] # NoCell => c \in there /\ mem[c] \in Allocated(heap)
    /\ \A o \in Options: mem[o] # NoCell => heap[mem[o]] \in Values
    /\ \A r \in Results \cap there:
           mem[r] # NoCell /\ heap[mem[r]] \in (IF ok[r] THEN Values ELSE Errors)

\* What a container holds: nothing, or one value or error.
Content(c, m, h) == {h[cell]: cell \in {m[c]} \cap DOMAIN h}

\* Containers are values: an operation changes what its own container holds and no
\* other's, a copy and an assignment leave it equal to the other's content, which
\* stays (o = o apart, which empties an Option, Option.h:123). A cell goes as what it
\* was made as, unless a success is assigned to a failure or a failure to a success:
\* operator= takes over `ok' first, and the old cell goes as what it is not
\* (Result.h:142).
ActsLikeAValue ==
    [][LET Now(c) == Content(c, mem, heap)
           Next1(c) == Content(c, mem', heap') IN
       /\ \A c, d \in Containers: Next1(c) = Now(c) \/ Next1(d) = Now(d) \/ c = d
       /\ \A o, other \in Options:
              CopyOption(o, other) \/ (AssignOption(o, other) /\ o # other) => Next1(o) = Now(other)
       /\ \A o \in Options, x \in Values:
              ConstructFull(o, x) \/ AssignValue(o, x) => Next1(o) = {x}
       /\ \A r, other \in Results:
              CopyResult(r, other) \/ AssignResult(r, other) =>
                  Next1(r) = Now(other) /\ ok'[r] = ok[other]
       /\ \A o \in Options: AssignOption(o, o) => Next1(o) = {}
       /\ mistyped' <=> \E r, other \in Results: AssignResult(r, other) /\ ok[r] # ok[other]
      ]_containerVars
==============================================================================
