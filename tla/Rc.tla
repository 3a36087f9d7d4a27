--------------------------------- MODULE Rc ---------------------------------
(***************************************************************************)
(* Rc<T>, the reference-counted pointer of Core/Types.                     *)
(*                                                                         *)
(* The handles are the Rc variables of a single-threaded program, which    *)
(* may construct, copy, assign, compare and destroy them in any order.     *)
(* Each pointer given to an Rc gets a block: the object, its address, and  *)
(* the three cells shared by the handles (refCounter_, weakCounter_,       *)
(* isNull_).  A handle holds its block and whether it is weak.  pointer_   *)
(* is the address of the block's object, also after the object is deleted. *)
(* Addresses are reused once their object is deleted.                      *)
(*                                                                         *)
(* To read or write a cell that was freed is a fault, and the program does *)
(* not go on.  The objects hold no handles themselves: see RcGraph.        *)
(***************************************************************************)
EXTENDS Naturals, FiniteSets

CONSTANTS Handles,    \* the Rc variables
          Blocks,     \* the blocks that can be allocated
          Addresses,  \* the addresses of objects
          None        \* NULL_PTR

ASSUME ConstantsAssumption ==
  /\ IsFiniteSet(Handles)
  /\ None \notin Blocks
  /\ None \notin Addresses

VARIABLES
  made,    \* the handles that are constructed and not destroyed
  handle,  \* their fields
  block,   \* the blocks
  fault    \* a freed cell was used

vars == <<made, handle, block, fault>>

Handle == [block : Blocks \cup {None}, weak : BOOLEAN]

Block == [object : {"unborn", "live", "deleted"},
          at     : Addresses \cup {None},
          ref    : Nat,
          weak   : Nat,
          null   : BOOLEAN,
          cells  : {"unborn", "allocated", "freed"}]

NullHandle == [block |-> None, weak |-> FALSE]

Unborn == [object |-> "unborn", at |-> None, ref |-> 0, weak |-> 0,
           null |-> FALSE, cells |-> "unborn"]

Init ==
  /\ made = {}
  /\ handle = [h \in Handles |-> NullHandle]
  /\ block = [b \in Blocks |-> Unborn]
  /\ fault = FALSE

-----------------------------------------------------------------------------
HasBlock(h) == handle[h].block # None

(* The cells of a handle, where it has some, are still allocated.          *)
CellsOK(h) == HasBlock(h) => block[handle[h].block].cells = "allocated"

(* isNull()                                                                *)
IsNull(h) == HasBlock(h) => block[handle[h].block].null

(* pointer_                                                                *)
Pointer(h) == IF HasBlock(h) THEN block[handle[h].block].at ELSE None

IsOwner(h) == HasBlock(h) /\ ~handle[h].weak
IsObserver(h) == HasBlock(h) /\ handle[h].weak

(* A weak handle whose object is gone.                                     *)
Expired(h) == IsObserver(h) /\ IsNull(h)

(* Faulty: the last owner does not tell the weak handles.                  *)
DropOwnerQuietly(b) ==
  [b EXCEPT !.ref = @ - 1,
            !.object = IF b.ref = 1 THEN "deleted" ELSE @]

(* dereferenciate() by a hard handle, and by a weak one.                   *)
DropOwner(b) ==
  [b EXCEPT !.ref = @ - 1,
            !.object = IF b.ref = 1 THEN "deleted" ELSE @,
            !.null = IF b.ref = 1 THEN TRUE ELSE @]

DropObserver(b) == [b EXCEPT !.weak = @ - 1]

(* Faulty: only the last weak handle frees the cells.                      *)
FreeCellsWeakly(b) == [b EXCEPT !.cells = IF b.weak = 0 THEN "freed" ELSE @]

(* free_weak()                                                             *)
FreeCells(b) == [b EXCEPT !.cells = IF b.weak = 0 /\ b.null THEN "freed" ELSE @]

(* The blocks once dereferenciate() was called for a handle.               *)
Dereferenciated(h) ==
  CASE IsOwner(h)    -> [block EXCEPT ![handle[h].block] = FreeCells(DropOwner(@))]
    [] IsObserver(h) -> [block EXCEPT ![handle[h].block] = FreeCells(DropObserver(@))]
    [] OTHER         -> block

(* The blocks with one more handle of block b.                             *)
Owned(blocks, b) == [blocks EXCEPT ![b].ref = @ + 1]
Observed(blocks, b) == [blocks EXCEPT ![b].weak = @ + 1]

(* The blocks with a new one, for an object at an address that is free.    *)
Allocated(blocks, b, a) ==
  [blocks EXCEPT ![b] = [object |-> "live", at |-> a, ref |-> 1, weak |-> 0,
                         null |-> FALSE, cells |-> "allocated"]]
Free(blocks, b, a) ==
  /\ blocks[b].object = "unborn"
  /\ \A c \in Blocks : blocks[c].object = "live" => blocks[c].at # a

(* An operation that reads the cells of the handles in S.                  *)
Using(S, operation) ==
  IF \A h \in S : CellsOK(h)
  THEN operation /\ UNCHANGED fault
  ELSE fault' = TRUE /\ UNCHANGED <<made, handle, block>>

Set(h, b, weak) == handle' = [handle EXCEPT ![h] = [block |-> b, weak |-> weak]]

-----------------------------------------------------------------------------
(* Constructors and destructor.                                            *)

(* Rc() *)
Construct(h) ==
  /\ h \notin made
  /\ made' = made \cup {h}
  /\ handle' = [handle EXCEPT ![h] = NullHandle]
  /\ UNCHANGED <<block, fault>>

(* Rc(p) and Rc(v) *)
Own(h) ==
  /\ h \notin made
  /\ made' = made \cup {h}
  /\ \E b \in Blocks, a \in Addresses :
       /\ Free(block, b, a)
       /\ block' = Allocated(block, b, a)
       /\ Set(h, b, FALSE)
  /\ UNCHANGED fault

(* Rc(other): a null pointer and one that is expired are copied without    *)
(* being counted.                                                          *)
Copy(h, other) ==
  /\ h \notin made /\ other \in made
  /\ Using({other},
       /\ made' = made \cup {h}
       /\ handle' = [handle EXCEPT ![h] = handle[other]]
       /\ block' = CASE IsOwner(other) -> Owned(block, handle[other].block)
                     [] IsObserver(other) /\ ~IsNull(other) ->
                          Observed(block, handle[other].block)
                     [] OTHER -> block)

(* ~other *)
Weaken(h, other) ==
  /\ h \notin made /\ other \in made
  /\ Using({other},
       /\ made' = made \cup {h}
       /\ IF IsNull(other)
          THEN handle' = [handle EXCEPT ![h] = NullHandle] /\ UNCHANGED block
          ELSE /\ Set(h, handle[other].block, TRUE)
               /\ block' = Observed(block, handle[other].block))

(* +other *)
Strengthen(h, other) ==
  /\ h \notin made /\ other \in made
  /\ Using({other},
       /\ made' = made \cup {h}
       /\ IF IsNull(other)
          THEN handle' = [handle EXCEPT ![h] = NullHandle] /\ UNCHANGED block
          ELSE /\ Set(h, handle[other].block, FALSE)
               /\ block' = Owned(block, handle[other].block))

(* ~Rc() *)
Destroy(h) ==
  /\ h \in made
  /\ Using({h},
       /\ made' = made \ {h}
       /\ block' = Dereferenciated(h)
       /\ handle' = [handle EXCEPT ![h] = NullHandle])

-----------------------------------------------------------------------------
(* Assignments.                                                            *)

(* h = value: changes the object, or makes one when there is none.         *)
AssignValue(h) ==
  /\ h \in made
  /\ Using({h},
       /\ IF ~IsNull(h)
          THEN UNCHANGED <<handle, block>>
          ELSE \E b \in Blocks, a \in Addresses :
                 /\ Free(Dereferenciated(h), b, a)
                 /\ block' = Allocated(Dereferenciated(h), b, a)
                 /\ Set(h, b, FALSE)
       /\ UNCHANGED made)

(* Faulty: the pointer that is overwritten is not dereferenciated.         *)
AssignWithoutDrop(h, other) ==
  /\ h \in made /\ other \in made
  /\ IF Pointer(h) = Pointer(other) \/ IsNull(other)
     THEN UNCHANGED vars
     ELSE Using({h, other},
       /\ handle' = [handle EXCEPT ![h] = handle[other]]
       /\ block' = IF handle[other].weak
                   THEN Observed(block, handle[other].block)
                   ELSE Owned(block, handle[other].block)
       /\ UNCHANGED made)

(* Faulty: a handle that is assigned a null one is dereferenciated but not *)
(* reset.                                                                  *)
AssignWithoutReset(h, other) ==
  /\ h \in made /\ other \in made
  /\ IF Pointer(h) = Pointer(other)
     THEN UNCHANGED vars
     ELSE Using({h, other},
       /\ IF IsNull(other)
          THEN UNCHANGED handle /\ block' = Dereferenciated(h)
          ELSE /\ handle' = [handle EXCEPT ![h] = handle[other]]
               /\ block' = IF handle[other].weak
                           THEN Observed(Dereferenciated(h), handle[other].block)
                           ELSE Owned(Dereferenciated(h), handle[other].block)
       /\ UNCHANGED made)

(* h = other: nothing when both have the same pointer; weak as other is,   *)
(* unless that is null.                                                    *)
Assign(h, other) ==
  /\ h \in made /\ other \in made
  /\ IF Pointer(h) = Pointer(other)
     THEN UNCHANGED vars
     ELSE Using({h, other},
       /\ IF IsNull(other)
          THEN /\ Set(h, None, handle[h].weak)
               /\ block' = Dereferenciated(h)
          ELSE /\ handle' = [handle EXCEPT ![h] = handle[other]]
               /\ block' = IF handle[other].weak
                           THEN Observed(Dereferenciated(h), handle[other].block)
                           ELSE Owned(Dereferenciated(h), handle[other].block)
       /\ UNCHANGED made)

(* Faulty: the new weak handle is not counted.                             *)
AssignWeakUncounted(h, other) ==
  /\ h \in made /\ other \in made
  /\ IF Pointer(h) = Pointer(other)
     THEN UNCHANGED vars
     ELSE Using({h, other},
       /\ Set(h, handle[other].block, TRUE)
       /\ block' = Dereferenciated(h)
       /\ UNCHANGED made)

(* h %= other: a null pointer and one that is expired are not counted.     *)
AssignWeak(h, other) ==
  /\ h \in made /\ other \in made
  /\ IF Pointer(h) = Pointer(other)
     THEN UNCHANGED vars
     ELSE Using({h, other},
       /\ Set(h, handle[other].block, TRUE)
       /\ block' = IF IsNull(other) THEN Dereferenciated(h)
                   ELSE Observed(Dereferenciated(h), handle[other].block)
       /\ UNCHANGED made)

(* h.del() *)
Del(h) ==
  /\ h \in made
  /\ Using({h},
       /\ IF IsNull(h)
          THEN UNCHANGED <<handle, block>>
          ELSE /\ Set(h, None, handle[h].weak)
               /\ block' = Dereferenciated(h)
       /\ UNCHANGED made)

-----------------------------------------------------------------------------
(* The program never takes a copy, hard or weak, of an expired handle.     *)
CarefulNext ==
  /\ ~fault
  /\ \E h \in Handles :
       \/ Construct(h) \/ Own(h) \/ Destroy(h) \/ AssignValue(h) \/ Del(h)
       \/ \E other \in Handles :
            \/ Weaken(h, other) \/ Strengthen(h, other) \/ Assign(h, other)
            \/ ~Expired(other) /\ (Copy(h, other) \/ AssignWeak(h, other))

CopyExpired ==
  /\ ~fault
  /\ \E h, other \in Handles :
       Expired(other) /\ (Copy(h, other) \/ AssignWeak(h, other))

Next == CarefulNext \/ CopyExpired

CarefulSpec == Init /\ [][CarefulNext]_vars

Spec == Init /\ [][Next]_vars

-----------------------------------------------------------------------------
(* Properties.                                                             *)

(* The hard and the weak handles of a block; one that is not made has none.*)
Owners(b) == {h \in Handles : handle[h].block = b /\ ~handle[h].weak}
Observers(b) == {h \in Handles : handle[h].block = b /\ handle[h].weak}

(* Every variable has its type, and a handle that is not made has no       *)
(* block.                                                                  *)
TypeOK ==
  /\ made \subseteq Handles
  /\ handle \in [Handles -> Handle]
  /\ \A h \in Handles \ made : handle[h] = NullHandle
  /\ block \in [Blocks -> Block]
  /\ fault \in BOOLEAN

(* No counter or flag is used once it was freed.                           *)
NoUseAfterFree == ~fault

(* refCounter_ is the number of hard handles and weakCounter_ the number   *)
(* of weak handles of an object, as referencesCount and                    *)
(* weakReferencesCount report.                                             *)
CountersExact ==
  \A b \in Blocks :
    /\ block[b].ref = Cardinality(Owners(b))
    /\ block[b].weak = Cardinality(Observers(b))

(* An object lives exactly as long as it has a hard handle.                *)
LivesWhileOwned ==
  \A b \in Blocks : block[b].object = "live" <=> Owners(b) # {}

(* The cells outlive the object as long as there is a weak handle, no      *)
(* longer.                                                                 *)
CellsWhileReferred ==
  \A b \in Blocks :
    block[b].cells = "allocated" <=> Owners(b) \cup Observers(b) # {}

(* Nothing goes too early and nothing is left behind: objects and cells    *)
(* are deleted in different branches of different operations.              *)
LivesAsReferred == LivesWhileOwned /\ CellsWhileReferred

(* A handle that does not say it is null can be dereferenced: its object   *)
(* is there, at the address it points to.                                  *)
NotNullIsLive ==
  \A h \in made : CellsOK(h) /\ ~IsNull(h) =>
    /\ block[handle[h].block].object = "live"
    /\ \A g \in made : ~IsNull(g) /\ Pointer(g) = Pointer(h) =>
         handle[g].block = handle[h].block

(* The object a handle refers to, if it has one.                           *)
Referent(h) == IF IsNull(h) THEN None ELSE handle[h].block

(* After h = other the two refer to the same object, or both to none.      *)
(* operator= does nothing when the pointers are equal, and then this is so *)
(* before, but for one case: one of the two is expired, and the object of  *)
(* the other is at the address where its own was. Then h keeps what it     *)
(* has, an object or none (Rc.h, operator=).                               *)
AssignRefersToOther ==
  /\ [](\A h, other \in made : Pointer(h) = Pointer(other) =>
          Referent(h) = Referent(other) \/ Expired(h) # Expired(other))
  /\ [][\A h, other \in Handles :
          Assign(h, other) /\ Pointer(h) # Pointer(other) =>
            Referent(h)' = Referent(other)]_vars
=============================================================================
