------------------------------ MODULE RcGraph ------------------------------
(***************************************************************************)
(* Rc<T> of Core/Types/Rc.h where objects hold handles themselves, as the  *)
(* nodes of a list or of a tree do: the destructor of an object destroys   *)
(* its handle, in the middle of the dereferenciate() that deletes it, and  *)
(* that may delete the next object. An object has one handle. A place is a *)
(* variable of the program, the handle in an object, named after it, or    *)
(* the temporary that an expression makes. h = value is the assignment of  *)
(* the handle in the object, h %= other that of ~other. Copies of expired  *)
(* handles and addresses that are used again are in module Rc.             *)
(***************************************************************************)
EXTENDS Integers, FiniteSets

CONSTANTS
    Roots, Temporary,   \* the variables of the program and its temporary
    Objects, NULL

ASSUME GraphAssumption ==
    /\ IsFiniteSet(Roots) /\ IsFiniteSet(Objects)
    /\ Roots \cap Objects = {} /\ Temporary \notin Roots \cup Objects
    /\ NULL \notin Objects

VARIABLE memory         \* [handle, block, fault]: of places, of objects; a freed cell or handle was used

Places == Roots \cup Objects \cup {Temporary}
NoHandle == [to |-> NULL, weak |-> FALSE]
NewBlock(object) == [object |-> object, ref |-> 0, weak |-> 0, null |-> FALSE, cells |-> object]

GraphInit ==
    memory = [handle |-> [p \in Places |-> NoHandle], block |-> [o \in Objects |-> NewBlock("unborn")], fault |-> FALSE]

----------------------------------------------------------------------------
(* What the functions of Rc make of the memory *)

Fault(m) == [m EXCEPT !.fault = TRUE]
Target(m, p) == m.handle[p].to
IsNullIn(m, p) == Target(m, p) # NULL => m.block[Target(m, p)].null
Gone(m, p) == p \in Objects /\ m.block[p].object = "deleted"

Counting(m, h, n) ==
    IF h.to = NULL THEN m
    ELSE IF h.weak THEN [m EXCEPT !.block[h.to].weak = @ + n] ELSE [m EXCEPT !.block[h.to].ref = @ + n]

\* A handle of which a counter was freed: the hard one goes before the object does.
Dangles(m, p) ==
    LET b == m.block[Target(m, p)] IN b.cells = "freed" \/ (~m.handle[p].weak /\ b.ref = 0)

\* The weak counter and isNull are read, and freed by the last handle.
FreeWeak(m, o) ==
    IF m.block[o].cells = "freed" THEN Fault(m)
    ELSE IF m.block[o].weak = 0 /\ m.block[o].null THEN [m EXCEPT !.block[o].cells = "freed"] ELSE m

Deleted(m, o) == [m EXCEPT !.handle[o] = NoHandle, !.block[o].object = "deleted"]
Nullified(m, o) == [m EXCEPT !.block[o].null = TRUE]

Counted(m, p) == Counting(m, m.handle[p], -1)

\* dereferenciate() finds the last hard handle at p.
IsLast(m, p) ==
    Target(m, p) # NULL /\ ~m.handle[p].weak /\ ~Dangles(m, p) /\ m.block[Target(m, p)].ref = 1

\* Faulty: isNull is set before the object is deleted.
DestroyingNull(m, p) == Nullified(Counted(m, p), Target(m, p))

\* The object goes with its last hard handle, and this is what its destructor finds.
Destroying(m, p) == Counted(m, p)

\* The call of dereferenciate() in that destructor, of the handle in the object: at
\* which place, and in what memory it begins.
Inner(call) ==
    [place |-> Target(call.memory, call.place), memory |-> Destroying(call.memory, call.place)]

\* The calls within each other, the outermost first.
Calls(m, p) ==
    LET call[n \in 0 .. Cardinality(Objects)] ==
            IF n = 0 THEN [place |-> p, memory |-> m] ELSE Inner(call[n - 1])
    IN call

\* The number of objects that are deleted: the call inside them all deletes none.
Depth(call) ==
    CHOOSE n \in 0 .. Cardinality(Objects) :
        /\ ~IsLast(call[n].memory, call[n].place)
        /\ \A i \in 0 .. n - 1 : IsLast(call[i].memory, call[i].place)

\* A call that deletes no object, and one that goes on when the destructor is through:
\* only now is isNull set and the weak counter looked at.
Released(m, p) ==
    IF Target(m, p) = NULL THEN m
    ELSE IF Dangles(m, p) THEN Fault(m) ELSE FreeWeak(Counted(m, p), Target(m, p))

Resumed(m, o) == FreeWeak(Nullified(Deleted(m, o), o), o)

\* What the calls leave, the one inside them all returning first.
Returns(call, depth) ==
    LET return[n \in 0 .. Cardinality(Objects)] ==
            IF n = 0 THEN Released(call[depth].memory, call[depth].place)
            ELSE Resumed(return[n - 1], call[depth + 1 - n].place)
    IN return

\* dereferenciate() of the handle at p
DereferenciatedIn(m, p) ==
    LET call == Calls(m, p)
        depth == Depth(call)
    IN Returns(call, depth)[depth]

Reset(m, p) == [m EXCEPT !.handle[p].to = NULL]
Refers(m, p, h) == [Counting(m, h, 1) EXCEPT !.handle[p] = h]

\* ~Rc(), operator= and del(). When the object that a place is in is deleted by what
\* h lets go of, the rest of operator= works on a freed handle.
Destroyed(m, p) == [DereferenciatedIn(m, p) EXCEPT !.handle[p] = NoHandle]

Assigned(m, h, other) ==
    LET after == DereferenciatedIn(m, h) IN
    IF Target(m, h) = Target(m, other) THEN m
    ELSE IF Gone(after, h) \/ Gone(after, other) THEN Fault(after)
    ELSE IF IsNullIn(after, other) THEN Reset(after, h) ELSE Refers(after, h, m.handle[other])

Nulled(m, h) ==
    LET after == DereferenciatedIn(m, h) IN
    IF IsNullIn(m, h) THEN m ELSE IF Gone(after, h) THEN Fault(after) ELSE Reset(after, h)

----------------------------------------------------------------------------
(* A program that uses handles as it likes *)

\* The places a program comes to by its variables and the handles that are not null.
Accessible ==
    LET Leads(p, S) == ~IsNullIn(memory, p) => Target(memory, p) \in S
        closed == {S \in SUBSET Objects : \A p \in Roots \cup S : Leads(p, S)}
    IN Roots \cup {o \in Objects : \A S \in closed : o \in S}

AssignHandle(h, other) == memory' = Assigned(memory, h, other)

\* h = a temporary, which lives until after the assignment.
AssignTemporary(m, h, value) ==
    memory' = Destroyed(Assigned(Refers(m, Temporary, value), h, Temporary), Temporary)

\* h = new T
AssignNew(h) ==
    \E o \in Objects :
        /\ memory.block[o].object = "unborn"
        /\ AssignTemporary([memory EXCEPT !.block[o] = NewBlock("live")], h, [to |-> o, weak |-> FALSE])

\* h = ~other and h = +other
AssignMade(h, other, weak) ==
    AssignTemporary(memory, h, IF IsNullIn(memory, other) THEN NoHandle ELSE [to |-> Target(memory, other), weak |-> weak])

DelHandle(h) == memory' = Nulled(memory, h)

\* The scope of a variable ends; it begins again.
Leave(r) == memory' = Destroyed(memory, r)

GraphNext ==
    /\ ~memory.fault
    /\ \/ \E h \in Accessible :
              \/ AssignNew(h) \/ DelHandle(h)
              \/ \E other \in Accessible, weak \in BOOLEAN : AssignHandle(h, other) \/ AssignMade(h, other, weak)
       \/ \E r \in Roots : Leave(r)

GraphSpec == GraphInit /\ [][GraphNext]_memory

----------------------------------------------------------------------------

OwnersOf(m, o) == {p \in Places : Target(m, p) = o /\ ~m.handle[p].weak}
ObserversOf(m, o) == {p \in Places : Target(m, p) = o /\ m.handle[p].weak}

\* The counters are the numbers of handles, in variables and objects; an object
\* lives as long as it has a hard one and its cells as long as it has any.
CountsAreExact ==
    ~memory.fault =>
        \A o \in Objects :
            LET b == memory.block[o] IN
            /\ b.ref = Cardinality(OwnersOf(memory, o)) /\ b.weak = Cardinality(ObserversOf(memory, o))
            /\ b.object = "live" <=> b.ref > 0
            /\ b.cells = "live" <=> b.ref + b.weak > 0

\* What h alone keeps alive: the least set of the objects all of whose hard handles
\* are h or inside the set.
KeptBy(h) ==
    LET Closed(S) == \A o \in Objects : OwnersOf(memory, o) # {} /\ OwnersOf(memory, o) \subseteq {h} \cup S => o \in S
        closed == {S \in SUBSET Objects : Closed(S)}
    IN {o \in Objects : \A S \in closed : o \in S}

Loses(m, lost) ==
    {o \in Objects : m.block[o].object = "deleted" /\ memory.block[o].object # "deleted"} = lost

\* Whatever way handles lead through objects, back to those that are being deleted
\* too, a handle that is destroyed, reset or assigned deletes what it alone kept and
\* nothing else. An assignment whose source or target lives in there, as in
\* list = list->next, uses a handle that is freed; no other does.
DeletesWhatItAloneKept ==
    LET Right(m, h, used) ==
            IF used \cap KeptBy(h) = {} THEN ~m.fault /\ Loses(m, KeptBy(h)) ELSE m.fault
    IN ~memory.fault =>
        /\ \A r \in Roots : Right(Destroyed(memory, r), r, {})
        /\ \A h \in Accessible : ~IsNullIn(memory, h) => Right(Nulled(memory, h), h, {h})
        /\ \A h, other \in Accessible :
               Target(memory, h) # Target(memory, other) => Right(Assigned(memory, h, other), h, {h, other})

\* An object that the program can no longer come to is deleted, but where such
\* objects keep each other, in a circle of hard handles.
Forgotten == {o \in Objects : memory.block[o].object = "live" /\ o \notin Accessible}

OnlyCirclesAreForgotten ==
    ~memory.fault => \A o \in Forgotten : OwnersOf(memory, o) # {} /\ OwnersOf(memory, o) \subseteq Forgotten

\* Handles inside objects keep, free and delete as handles in variables do (Rc.h:71).
HandlesInsideObjects == CountsAreExact /\ DeletesWhatItAloneKept /\ OnlyCirclesAreForgotten
=============================================================================
