------------------------------ MODULE Rc_proofs ------------------------------
(***************************************************************************)
(* Proofs about Rc, for any number of handles, blocks and addresses.  The  *)
(* invariant is stated of a table of handles H and a table of blocks B, so *)
(* that it can be followed through the two halves of an assignment: the    *)
(* handle is dereferenciated, then it refers to something else.            *)
(*                                                                         *)
(* The second half of the module is about RcGraph, for any number of       *)
(* variables and objects. Its invariant, Kept, is stated of a memory in    *)
(* the middle of dereferenciate(): of which handles the calls that have    *)
(* begun counted down, and which objects they are deleting.                *)
(***************************************************************************)
EXTENDS Rc, RcGraph, FiniteSetTheorems, WellFoundedInduction, TLAPS

OwnersIn(H, b) == {h \in Handles : H[h].block = b /\ ~H[h].weak}
ObserversIn(H, b) == {h \in Handles : H[h].block = b /\ H[h].weak}

(* A block that n hard handles and m weak ones refer to.                   *)
EntryOK(e, n, m) ==
  /\ e.ref = n
  /\ e.weak = m
  /\ e.object = "live" <=> e.ref > 0
  /\ e.object = "deleted" <=> e.null
  /\ e.cells = "allocated" <=> e.ref > 0 \/ e.weak > 0
  /\ e.cells = "unborn" <=> e.object = "unborn"
  /\ e.object = "live" => e.at \in Addresses

BlockOK(H, B, b) ==
  EntryOK(B[b], Cardinality(OwnersIn(H, b)), Cardinality(ObserversIn(H, b)))

Consistent(H, B) ==
  /\ H \in [Handles -> Handle]
  /\ B \in [Blocks -> Block]
  /\ \A b \in Blocks : BlockOK(H, B, b)
  /\ \A b, c \in Blocks :
       B[b].object = "live" /\ B[c].object = "live" /\ B[b].at = B[c].at => b = c

Inv ==
  /\ made \subseteq Handles
  /\ \A h \in Handles \ made : handle[h] = NullHandle
  /\ Consistent(handle, block)
  /\ fault = FALSE

-----------------------------------------------------------------------------
(* Sets of handles.                                                        *)

LEMMA HandlesFinite ==
  ASSUME NEW S \in SUBSET Handles
  PROVE  IsFiniteSet(S) /\ Cardinality(S) \in Nat
BY ConstantsAssumption, FS_Subset, FS_CardinalityType DEF ConstantsAssumption

LEMMA CountAdd ==
  ASSUME NEW S \in SUBSET Handles, NEW h \in Handles \ S
  PROVE  Cardinality(S \cup {h}) = Cardinality(S) + 1
BY HandlesFinite, FS_AddElement

LEMMA CountRemove ==
  ASSUME NEW S \in SUBSET Handles, NEW h \in S
  PROVE  Cardinality(S \ {h}) = Cardinality(S) - 1 /\ Cardinality(S) > 0
<1>1. Cardinality((S \ {h}) \cup {h}) = Cardinality(S \ {h}) + 1
  BY CountAdd
<1>2. (S \ {h}) \cup {h} = S
  OBVIOUS
<1>3. Cardinality(S \ {h}) \in Nat
  BY HandlesFinite
<1>4. Cardinality(S) = Cardinality(S \ {h}) + 1
  BY <1>1, <1>2, Zenon
<1> QED
  BY <1>3, <1>4

LEMMA CountEmpty ==
  ASSUME NEW S \in SUBSET Handles
  PROVE  Cardinality(S) > 0 <=> S # {}
<1>1. S = {} => Cardinality(S) = 0
  BY FS_EmptySet
<1>2. S # {} => Cardinality(S) > 0
  BY CountRemove
<1> QED
  BY <1>1, <1>2

LEMMA InitInv == Init => Inv
<1> SUFFICES ASSUME Init PROVE Inv
  OBVIOUS
<1>1. handle \in [Handles -> Handle] /\ block \in [Blocks -> Block]
  BY DEF Init, Handle, NullHandle, Block, Unborn
<1>2. ASSUME NEW b \in Blocks
      PROVE  OwnersIn(handle, b) = {} /\ ObserversIn(handle, b) = {}
  BY ConstantsAssumption DEF ConstantsAssumption, Init, NullHandle, OwnersIn, ObserversIn
<1>3. ASSUME NEW b \in Blocks PROVE BlockOK(handle, block, b)
  <2>1. block[b] = Unborn
    BY DEF Init
  <2> QED
    BY <1>2, <2>1, FS_EmptySet DEF BlockOK, EntryOK, Unborn
<1> QED
  BY <1>1, <1>3 DEF Init, Inv, Consistent, Unborn

-----------------------------------------------------------------------------
(* The two halves of an assignment.                                        *)

Without(H, h, w) == [H EXCEPT ![h] = [block |-> None, weak |-> w]]
With(H, h, b, w) == [H EXCEPT ![h] = [block |-> b, weak |-> w]]

DropIn(H, B, h) ==
  CASE H[h].block # None /\ ~H[h].weak ->
         [B EXCEPT ![H[h].block] = FreeCells(DropOwner(@))]
    [] H[h].block # None /\ H[h].weak ->
         [B EXCEPT ![H[h].block] = FreeCells(DropObserver(@))]
    [] OTHER -> B

LEMMA DereferenciatedIsDrop ==
  ASSUME NEW h \in Handles
  PROVE  Dereferenciated(h) = DropIn(handle, block, h)
BY DEF Dereferenciated, DropIn, IsOwner, IsObserver, HasBlock

(* What the handles of a block become when one of them goes or comes.      *)
LEMMA SetsWithout ==
  ASSUME NEW H \in [Handles -> Handle], NEW h \in Handles, NEW w,
         NEW b \in Blocks
  PROVE  /\ OwnersIn(Without(H, h, w), b) = OwnersIn(H, b) \ {h}
         /\ ObserversIn(Without(H, h, w), b) = ObserversIn(H, b) \ {h}
BY ConstantsAssumption
   DEF ConstantsAssumption, Handle, Without, OwnersIn, ObserversIn

LEMMA SetsWith ==
  ASSUME NEW H \in [Handles -> Handle], NEW h \in Handles, NEW w \in BOOLEAN,
         H[h].block = None, NEW b \in Blocks, NEW c \in Blocks
  PROVE  /\ OwnersIn(With(H, h, b, w), c) =
              IF b = c /\ ~w THEN OwnersIn(H, c) \cup {h} ELSE OwnersIn(H, c)
         /\ ObserversIn(With(H, h, b, w), c) =
              IF b = c /\ w THEN ObserversIn(H, c) \cup {h} ELSE ObserversIn(H, c)
         /\ h \notin OwnersIn(H, c) /\ h \notin ObserversIn(H, c)
BY ConstantsAssumption
   DEF ConstantsAssumption, Handle, With, OwnersIn, ObserversIn

LEMMA SetsOfHandles ==
  ASSUME NEW H, NEW b
  PROVE  OwnersIn(H, b) \in SUBSET Handles /\ ObserversIn(H, b) \in SUBSET Handles
BY DEF OwnersIn, ObserversIn

(* What the counting does to the fields of a block.                        *)
LEMMA DropOwnerFields ==
  ASSUME NEW b \in Block, b.ref > 0
  PROVE  /\ DropOwner(b) \in Block
         /\ DropOwner(b).ref = b.ref - 1
         /\ DropOwner(b).weak = b.weak
         /\ DropOwner(b).object = IF b.ref = 1 THEN "deleted" ELSE b.object
         /\ DropOwner(b).null = IF b.ref = 1 THEN TRUE ELSE b.null
         /\ DropOwner(b).cells = b.cells
         /\ DropOwner(b).at = b.at
<1>1. b.ref - 1 \in Nat
  BY DEF Block
<1>2. CASE b.ref = 1
  BY <1>1, <1>2 DEF Block, DropOwner
<1>3. CASE b.ref # 1
  BY <1>1, <1>3 DEF Block, DropOwner
<1> QED
  BY <1>2, <1>3

LEMMA DropObserverFields ==
  ASSUME NEW b \in Block, b.weak > 0
  PROVE  /\ DropObserver(b) \in Block
         /\ DropObserver(b).ref = b.ref
         /\ DropObserver(b).weak = b.weak - 1
         /\ DropObserver(b).object = b.object
         /\ DropObserver(b).null = b.null
         /\ DropObserver(b).cells = b.cells
         /\ DropObserver(b).at = b.at
BY DEF Block, DropObserver

LEMMA FreeCellsFields ==
  ASSUME NEW b \in Block
  PROVE  /\ FreeCells(b) \in Block
         /\ FreeCells(b).ref = b.ref
         /\ FreeCells(b).weak = b.weak
         /\ FreeCells(b).object = b.object
         /\ FreeCells(b).null = b.null
         /\ FreeCells(b).cells = IF b.weak = 0 /\ b.null THEN "freed" ELSE b.cells
         /\ FreeCells(b).at = b.at
BY DEF Block, FreeCells

(* A change of one block, which no handle but h came to or left, at an     *)
(* address that is its own.                                                *)
LEMMA ChangeOne ==
  ASSUME NEW H, NEW B, Consistent(H, B),
         NEW K \in [Handles -> Handle], NEW d \in Blocks, NEW E \in Block,
         \A b \in Blocks \ {d} : /\ OwnersIn(K, b) = OwnersIn(H, b)
                                 /\ ObserversIn(K, b) = ObserversIn(H, b),
         EntryOK(E, Cardinality(OwnersIn(K, d)), Cardinality(ObserversIn(K, d))),
         E.object = "live" =>
           \A b \in Blocks \ {d} : B[b].object = "live" => B[b].at # E.at
  PROVE  Consistent(K, [B EXCEPT ![d] = E])
<1> DEFINE D == [B EXCEPT ![d] = E]
<1>1. B \in [Blocks -> Block]
  BY DEF Consistent
<1>2. D \in [Blocks -> Block] /\ D[d] = E /\ \A b \in Blocks \ {d} : D[b] = B[b]
  BY <1>1
<1> HIDE DEF D
<1>3. ASSUME NEW b \in Blocks PROVE BlockOK(K, D, b)
  <2>1. CASE b = d
    BY <1>2, <2>1 DEF BlockOK
  <2>2. CASE b # d
    BY <1>2, <2>2 DEF Consistent, BlockOK
  <2> QED
    BY <2>1, <2>2
<1>4. ASSUME NEW b \in Blocks, NEW c \in Blocks,
             D[b].object = "live", D[c].object = "live", D[b].at = D[c].at
      PROVE  b = c
  BY <1>2, <1>4 DEF Consistent
<1>5. Consistent(K, D)
  BY <1>2, <1>3, <1>4 DEF Consistent
<1> QED
  BY <1>5 DEF D

LEMMA DropKeeps ==
  ASSUME NEW H, NEW B, Consistent(H, B), NEW h \in Handles, NEW w \in BOOLEAN
  PROVE  Consistent(Without(H, h, w), DropIn(H, B, h))
<1> DEFINE K == Without(H, h, w)
           D == DropIn(H, B, h)
           d == H[h].block
<1>1. /\ H \in [Handles -> Handle] /\ B \in [Blocks -> Block]
      /\ H[h] \in Handle /\ H[h].weak \in BOOLEAN
  BY DEF Consistent, Handle
<1>2. K \in [Handles -> Handle]
  BY <1>1 DEF Without, Handle
<1>3. \A b \in Blocks :
        /\ OwnersIn(K, b) = OwnersIn(H, b) \ {h}
        /\ ObserversIn(K, b) = ObserversIn(H, b) \ {h}
  BY <1>1, SetsWithout
<1> SUFFICES Consistent(K, D)
  OBVIOUS
<1>4. CASE d = None
  <2>1. D = B
    BY <1>4 DEF DropIn
  <2>2. ASSUME NEW b \in Blocks PROVE BlockOK(K, D, b)
    <3>1. h \notin OwnersIn(H, b) /\ h \notin ObserversIn(H, b)
      BY <1>4, ConstantsAssumption DEF ConstantsAssumption, OwnersIn, ObserversIn
    <3> HIDE DEF K, D
    <3>2. OwnersIn(K, b) = OwnersIn(H, b) /\ ObserversIn(K, b) = ObserversIn(H, b)
      BY <1>3, <3>1
    <3> QED
      BY <2>1, <3>2 DEF Consistent, BlockOK
  <2> HIDE DEF K, D
  <2> QED
    BY <1>2, <2>1, <2>2 DEF Consistent
<1>5. CASE d # None
  <2>1. d \in Blocks
    BY <1>1, <1>5 DEF Handle
  <2>2. B[d] \in Block /\ BlockOK(H, B, d)
    BY <1>1, <2>1 DEF Consistent
  <2>3. CASE ~H[h].weak
    <3> DEFINE E == FreeCells(DropOwner(B[d]))
    <3>1. D = [B EXCEPT ![d] = E]
      BY <1>5, <2>3 DEF DropIn
    <3>2. h \in OwnersIn(H, d) /\ h \notin ObserversIn(H, d)
      BY <2>3 DEF OwnersIn, ObserversIn
    <3> HIDE DEF K, D
    <3>3. /\ OwnersIn(K, d) = OwnersIn(H, d) \ {h}
          /\ ObserversIn(K, d) = ObserversIn(H, d)
      BY <1>3, <2>1, <3>2
    <3>4. /\ Cardinality(OwnersIn(K, d)) = B[d].ref - 1 /\ B[d].ref > 0
          /\ Cardinality(ObserversIn(K, d)) = B[d].weak
      BY <2>2, <3>2, <3>3, SetsOfHandles, CountRemove DEF BlockOK, EntryOK
    <3>5. DropOwner(B[d]) \in Block
      BY <2>2, <3>4, DropOwnerFields
    <3>6. /\ E \in Block
          /\ E.ref = B[d].ref - 1 /\ E.weak = B[d].weak
          /\ E.object = IF B[d].ref = 1 THEN "deleted" ELSE B[d].object
          /\ E.null = IF B[d].ref = 1 THEN TRUE ELSE B[d].null
          /\ E.cells = IF B[d].weak = 0 /\ (B[d].ref = 1 \/ B[d].null)
                       THEN "freed" ELSE B[d].cells
          /\ E.at = B[d].at
      <4>1. B[d].ref \in Nat /\ B[d].weak \in Nat
        BY <2>2 DEF Block
      <4>2. /\ E \in Block
            /\ E.ref = DropOwner(B[d]).ref /\ E.weak = DropOwner(B[d]).weak
            /\ E.object = DropOwner(B[d]).object /\ E.null = DropOwner(B[d]).null
            /\ E.cells = IF DropOwner(B[d]).weak = 0 /\ DropOwner(B[d]).null
                         THEN "freed" ELSE DropOwner(B[d]).cells
            /\ E.at = DropOwner(B[d]).at
        BY <3>5, FreeCellsFields
      <4> HIDE DEF E
      <4> QED
        BY <2>2, <3>4, <4>1, <4>2, DropOwnerFields
    <3> HIDE DEF E
    <3>7. B[d].ref \in Nat /\ B[d].weak \in Nat
      BY <2>2 DEF Block
    <3>8. EntryOK(E, Cardinality(OwnersIn(K, d)), Cardinality(ObserversIn(K, d)))
      BY <2>2, <3>4, <3>6, <3>7 DEF BlockOK, EntryOK
    <3>9. \A b \in Blocks \ {d} : /\ OwnersIn(K, b) = OwnersIn(H, b)
                                 /\ ObserversIn(K, b) = ObserversIn(H, b)
      BY <1>3 DEF OwnersIn, ObserversIn
    <3>10. E.object = "live" =>
             \A b \in Blocks \ {d} : B[b].object = "live" => B[b].at # E.at
      BY <2>1, <3>6 DEF Consistent
    <3>11. Consistent(K, [B EXCEPT ![d] = E])
      <4>1. E \in Block
        BY <3>6
      <4> HIDE DEF d
      <4> QED
        BY ONLY <1>2, <2>1, <3>8, <3>9, <3>10, <4>1, Consistent(H, B), ChangeOne, Zenon
    <3> QED
      BY <3>1, <3>11
  <2>4. CASE H[h].weak
    <3> DEFINE E == FreeCells(DropObserver(B[d]))
    <3>1. D = [B EXCEPT ![d] = E]
      BY <1>5, <2>4 DEF DropIn
    <3>2. h \in ObserversIn(H, d) /\ h \notin OwnersIn(H, d)
      BY <2>4 DEF OwnersIn, ObserversIn
    <3> HIDE DEF K, D
    <3>3. /\ ObserversIn(K, d) = ObserversIn(H, d) \ {h}
          /\ OwnersIn(K, d) = OwnersIn(H, d)
      BY <1>3, <2>1, <3>2
    <3>4. /\ Cardinality(ObserversIn(K, d)) = B[d].weak - 1 /\ B[d].weak > 0
          /\ Cardinality(OwnersIn(K, d)) = B[d].ref
      BY <2>2, <3>2, <3>3, SetsOfHandles, CountRemove DEF BlockOK, EntryOK
    <3>5. DropObserver(B[d]) \in Block
      BY <2>2, <3>4, DropObserverFields
    <3>6. /\ E \in Block
          /\ E.ref = B[d].ref /\ E.weak = B[d].weak - 1
          /\ E.object = B[d].object /\ E.null = B[d].null
          /\ E.cells = IF B[d].weak - 1 = 0 /\ B[d].null
                       THEN "freed" ELSE B[d].cells
          /\ E.at = B[d].at
      <4>1. B[d].ref \in Nat /\ B[d].weak \in Nat
        BY <2>2 DEF Block
      <4>2. /\ E \in Block
            /\ E.ref = DropObserver(B[d]).ref /\ E.weak = DropObserver(B[d]).weak
            /\ E.object = DropObserver(B[d]).object
            /\ E.null = DropObserver(B[d]).null
            /\ E.cells = IF DropObserver(B[d]).weak = 0 /\ DropObserver(B[d]).null
                         THEN "freed" ELSE DropObserver(B[d]).cells
            /\ E.at = DropObserver(B[d]).at
        BY <3>5, FreeCellsFields
      <4> HIDE DEF E
      <4> QED
        BY <2>2, <3>4, <4>1, <4>2, DropObserverFields
    <3> HIDE DEF E
    <3>7. /\ B[d].ref \in Nat /\ B[d].weak \in Nat
          /\ B[d].object \in {"unborn", "live", "deleted"}
      BY <2>2 DEF Block
    <3>8. EntryOK(E, Cardinality(OwnersIn(K, d)), Cardinality(ObserversIn(K, d)))
      BY <2>2, <3>4, <3>6, <3>7 DEF BlockOK, EntryOK
    <3>9. \A b \in Blocks \ {d} : /\ OwnersIn(K, b) = OwnersIn(H, b)
                                 /\ ObserversIn(K, b) = ObserversIn(H, b)
      BY <1>3 DEF OwnersIn, ObserversIn
    <3>10. E.object = "live" =>
             \A b \in Blocks \ {d} : B[b].object = "live" => B[b].at # E.at
      BY <2>1, <3>6 DEF Consistent
    <3>11. Consistent(K, [B EXCEPT ![d] = E])
      <4>1. E \in Block
        BY <3>6
      <4> HIDE DEF d
      <4> QED
        BY ONLY <1>2, <2>1, <3>8, <3>9, <3>10, <4>1, Consistent(H, B), ChangeOne, Zenon
    <3> QED
      BY <3>1, <3>11
  <2> QED
    BY <1>1, <2>3, <2>4
<1> QED
  BY <1>4, <1>5

(* A handle that has no block comes to refer to one that is live.          *)
LEMMA AttachKeeps ==
  ASSUME NEW H, NEW B, Consistent(H, B), NEW h \in Handles, NEW w \in BOOLEAN,
         H[h].block = None, NEW b \in Blocks, B[b].object = "live"
  PROVE  Consistent(With(H, h, b, w), IF w THEN Observed(B, b) ELSE Owned(B, b))
<1> DEFINE K == With(H, h, b, w)
           E == IF w THEN [B[b] EXCEPT !.weak = @ + 1] ELSE [B[b] EXCEPT !.ref = @ + 1]
<1>1. H \in [Handles -> Handle] /\ B \in [Blocks -> Block] /\ B[b] \in Block
  BY DEF Consistent
<1>2. K \in [Handles -> Handle]
  BY <1>1 DEF With, Handle
<1>3. \A c \in Blocks :
        /\ OwnersIn(K, c) =
             IF b = c /\ ~w THEN OwnersIn(H, c) \cup {h} ELSE OwnersIn(H, c)
        /\ ObserversIn(K, c) =
             IF b = c /\ w THEN ObserversIn(H, c) \cup {h} ELSE ObserversIn(H, c)
        /\ h \notin OwnersIn(H, c) /\ h \notin ObserversIn(H, c)
  BY <1>1, SetsWith
<1>4. (IF w THEN Observed(B, b) ELSE Owned(B, b)) = [B EXCEPT ![b] = E]
  BY DEF Observed, Owned
<1>5. /\ E \in Block
      /\ E.ref = IF w THEN B[b].ref ELSE B[b].ref + 1
      /\ E.weak = IF w THEN B[b].weak + 1 ELSE B[b].weak
      /\ E.object = B[b].object /\ E.null = B[b].null
      /\ E.cells = B[b].cells /\ E.at = B[b].at
  BY <1>1 DEF Block
<1> HIDE DEF K, E
<1>6. BlockOK(H, B, b) /\ B[b].ref \in Nat /\ B[b].weak \in Nat
  BY <1>1 DEF Consistent, Block
<1>7. /\ Cardinality(OwnersIn(K, b)) = E.ref
      /\ Cardinality(ObserversIn(K, b)) = E.weak
  <2>1. CASE w
    BY <1>3, <1>5, <1>6, <2>1, SetsOfHandles, CountAdd DEF BlockOK, EntryOK
  <2>2. CASE ~w
    BY <1>3, <1>5, <1>6, <2>2, SetsOfHandles, CountAdd DEF BlockOK, EntryOK
  <2> QED
    BY <2>1, <2>2
<1>8. EntryOK(E, Cardinality(OwnersIn(K, b)), Cardinality(ObserversIn(K, b)))
  BY <1>5, <1>6, <1>7 DEF BlockOK, EntryOK
<1>9. \A c \in Blocks \ {b} : /\ OwnersIn(K, c) = OwnersIn(H, c)
                              /\ ObserversIn(K, c) = ObserversIn(H, c)
  BY <1>3
<1>10. E.object = "live" =>
         \A c \in Blocks \ {b} : B[c].object = "live" => B[c].at # E.at
  BY <1>5 DEF Consistent
<1>11. E \in Block
  BY <1>5
<1>12. Consistent(K, [B EXCEPT ![b] = E])
  BY ONLY <1>2, <1>8, <1>9, <1>10, <1>11, b \in Blocks, Consistent(H, B),
          ChangeOne, Zenon
<1> QED
  BY <1>4, <1>12 DEF K

(* ... or to one that is new.                                              *)
LEMMA AllocKeeps ==
  ASSUME NEW H, NEW B, Consistent(H, B), NEW h \in Handles,
         H[h].block = None, NEW b \in Blocks, NEW a \in Addresses, Free(B, b, a)
  PROVE  Consistent(With(H, h, b, FALSE), Allocated(B, b, a))
<1> DEFINE K == With(H, h, b, FALSE)
           E == [object |-> "live", at |-> a, ref |-> 1, weak |-> 0,
                 null |-> FALSE, cells |-> "allocated"]
<1>1. H \in [Handles -> Handle] /\ B \in [Blocks -> Block] /\ B[b] \in Block
  BY DEF Consistent
<1>2. K \in [Handles -> Handle]
  BY <1>1 DEF With, Handle
<1>3. \A c \in Blocks :
        /\ OwnersIn(K, c) = IF b = c THEN OwnersIn(H, c) \cup {h} ELSE OwnersIn(H, c)
        /\ ObserversIn(K, c) = ObserversIn(H, c)
        /\ h \notin OwnersIn(H, c) /\ h \notin ObserversIn(H, c)
  BY <1>1, ConstantsAssumption
     DEF ConstantsAssumption, Handle, With, OwnersIn, ObserversIn
<1>4. Allocated(B, b, a) = [B EXCEPT ![b] = E]
  BY DEF Allocated
<1>5. /\ E \in Block /\ E.ref = 1 /\ E.weak = 0 /\ E.object = "live"
      /\ E.null = FALSE /\ E.cells = "allocated" /\ E.at = a
  BY DEF Block
<1> HIDE DEF K, E
<1>6. BlockOK(H, B, b) /\ B[b].ref \in Nat /\ B[b].weak \in Nat
  BY <1>1 DEF Consistent, Block
<1>7. B[b].ref = 0 /\ B[b].weak = 0
  BY <1>6 DEF BlockOK, EntryOK, Free
<1>8. Cardinality(OwnersIn(K, b)) = 1 /\ Cardinality(ObserversIn(K, b)) = 0
  <2>1. /\ Cardinality(OwnersIn(H, b)) = 0 /\ Cardinality(ObserversIn(H, b)) = 0
        /\ h \notin OwnersIn(H, b)
    BY <1>3, <1>6, <1>7 DEF BlockOK, EntryOK
  <2>2. Cardinality(OwnersIn(H, b) \cup {h}) = 1
    BY <2>1, SetsOfHandles, CountAdd
  <2> QED
    BY <1>3, <2>1, <2>2
<1>9. EntryOK(E, Cardinality(OwnersIn(K, b)), Cardinality(ObserversIn(K, b)))
  BY <1>5, <1>8 DEF EntryOK
<1>10. \A c \in Blocks \ {b} : /\ OwnersIn(K, c) = OwnersIn(H, c)
                               /\ ObserversIn(K, c) = ObserversIn(H, c)
  BY <1>3
<1>11. E.object = "live" =>
         \A c \in Blocks \ {b} : B[c].object = "live" => B[c].at # E.at
  BY <1>5 DEF Free
<1>12. E \in Block
  BY <1>5
<1>13. Consistent(K, [B EXCEPT ![b] = E])
  BY ONLY <1>2, <1>9, <1>10, <1>11, <1>12, b \in Blocks, Consistent(H, B),
          ChangeOne, Zenon
<1> QED
  BY <1>4, <1>13 DEF K

-----------------------------------------------------------------------------
(* The steps of a program that copies no expired handle.                   *)

(* The block of a handle that is not null is live, and the cells of every  *)
(* handle are there.                                                       *)
LEMMA HandleFacts ==
  ASSUME Inv, NEW h \in Handles
  PROVE  /\ CellsOK(h)
         /\ HasBlock(h) => handle[h].block \in Blocks
         /\ ~IsNull(h) => HasBlock(h) /\ block[handle[h].block].object = "live"
         /\ IsOwner(h) => ~IsNull(h)
         /\ h \notin made => handle[h].block = None
         /\ handle[h].weak \in BOOLEAN
<1> DEFINE b == handle[h].block
<1>1. /\ handle[h] \in Handle
      /\ h \notin made => handle[h].block = None
  BY DEF Inv, Consistent, NullHandle
<1>2. CASE ~HasBlock(h)
  BY <1>1, <1>2 DEF Handle, CellsOK, IsNull, IsOwner, HasBlock
<1>3. CASE HasBlock(h)
  <2>1. b \in Blocks
    BY <1>1, <1>3 DEF Handle, HasBlock
  <2>2. BlockOK(handle, block, b) /\ block[b] \in Block
    BY <2>1 DEF Inv, Consistent
  <2>3. IF handle[h].weak THEN h \in ObserversIn(handle, b)
                          ELSE h \in OwnersIn(handle, b)
    BY DEF OwnersIn, ObserversIn
  <2>4. IF handle[h].weak THEN Cardinality(ObserversIn(handle, b)) > 0
                          ELSE Cardinality(OwnersIn(handle, b)) > 0
    BY <2>3, SetsOfHandles, CountRemove
  <2>5. /\ block[b].cells = "allocated"
        /\ ~block[b].null <=> block[b].object = "live"
        /\ ~handle[h].weak => block[b].object = "live"
    BY <2>2, <2>4 DEF BlockOK, EntryOK, Block
  <2> QED
    BY <1>1, <1>3, <2>1, <2>5 DEF Handle, CellsOK, IsNull, IsOwner, HasBlock
<1> QED
  BY <1>2, <1>3

LEMMA MakesInv ==
  ASSUME Inv, made' \subseteq Handles, fault' = fault,
         \A h \in Handles \ made' : handle'[h] = NullHandle,
         Consistent(handle', block')
  PROVE  Inv'
BY DEF Inv

(* To make a handle keeps the invariant when its fields and the blocks fit.*)
LEMMA MakeInv ==
  ASSUME Inv, NEW h \in Handles, made' = made \cup {h}, fault' = fault,
         \E r : handle' = [handle EXCEPT ![h] = r],
         Consistent(handle', block')
  PROVE  Inv'
<1>1. \A g \in Handles \ {h} : handle'[g] = handle[g]
  BY DEF Inv, Consistent
<1> QED
  BY <1>1, MakesInv DEF Inv

LEMMA ChangeInv ==
  ASSUME Inv, NEW h \in made, made' = made, fault' = fault,
         \E r : handle' = [handle EXCEPT ![h] = r],
         Consistent(handle', block')
  PROVE  Inv'
<1>1. \A g \in Handles \ {h} : handle'[g] = handle[g]
  BY DEF Inv, Consistent
<1> QED
  BY <1>1, MakesInv DEF Inv

(* A handle without a block stays without one.                             *)
LEMMA StaysNull ==
  ASSUME Inv, NEW h \in Handles, handle[h].block = None, NEW w \in BOOLEAN
  PROVE  Consistent(Without(handle, h, w), block)
BY DropKeeps DEF Inv, DropIn

LEMMA DropInv ==
  ASSUME Inv, NEW h \in Handles, NEW w \in BOOLEAN
  PROVE  Consistent(Without(handle, h, w), Dereferenciated(h))
BY DropKeeps, DereferenciatedIsDrop DEF Inv

LEMMA ConstructInv == ASSUME Inv, NEW h \in Handles, Construct(h) PROVE Inv'
<1>1. handle' = Without(handle, h, FALSE) /\ block' = block
  BY DEF Construct, Without, NullHandle
<1>2. Consistent(handle', block')
  BY <1>1, HandleFacts, StaysNull DEF Construct
<1> QED
  BY <1>1, <1>2, MakeInv DEF Construct, Without

LEMMA OwnInv == ASSUME Inv, NEW h \in Handles, Own(h) PROVE Inv'
<1>1. PICK b \in Blocks, a \in Addresses :
        Free(block, b, a) /\ block' = Allocated(block, b, a) /\ Set(h, b, FALSE)
  BY DEF Own
<1>2. handle' = With(handle, h, b, FALSE)
  BY <1>1 DEF Set, With
<1>3. Consistent(handle', block')
  BY <1>1, <1>2, HandleFacts, AllocKeeps DEF Own, Inv
<1> QED
  BY <1>2, <1>3, MakeInv DEF Own, With

LEMMA CopyInv ==
  ASSUME Inv, NEW h \in Handles, NEW other \in Handles, ~Expired(other),
         Copy(h, other)
  PROVE  Inv'
<1> DEFINE b == handle[other].block
           w == handle[other].weak
<1>1. /\ made' = made \cup {h} /\ fault' = fault
      /\ handle' = [handle EXCEPT ![h] = handle[other]]
      /\ block' = CASE IsOwner(other) -> Owned(block, b)
                    [] IsObserver(other) /\ ~IsNull(other) -> Observed(block, b)
                    [] OTHER -> block
  BY HandleFacts DEF Copy, Using
<1>2. handle[other] = [block |-> b, weak |-> w] /\ w \in BOOLEAN
  BY DEF Inv, Consistent, Handle
<1>3. handle[h].block = None
  BY HandleFacts DEF Copy
<1>4. CASE b = None
  <2>1. handle' = Without(handle, h, w) /\ block' = block
    BY <1>1, <1>2, <1>4 DEF Without, IsOwner, IsObserver, HasBlock
  <2>2. Consistent(Without(handle, h, w), block)
    BY <1>2, <1>3, StaysNull, Zenon
  <2> QED
    BY <1>1, <2>1, <2>2, MakeInv DEF Without
<1>5. CASE b # None
  <2>1. b \in Blocks /\ block[b].object = "live"
    BY <1>5, HandleFacts DEF IsOwner, IsObserver, HasBlock, Expired
  <2>2. /\ handle' = With(handle, h, b, w)
        /\ block' = IF w THEN Observed(block, b) ELSE Owned(block, b)
    BY <1>1, <1>2, <1>5, HandleFacts
       DEF With, IsOwner, IsObserver, HasBlock, Expired
  <2>3. Consistent(handle', block')
    BY <1>2, <1>3, <2>1, <2>2, AttachKeeps DEF Inv
  <2> QED
    BY <1>1, <2>2, <2>3, MakeInv DEF With
<1> QED
  BY <1>4, <1>5

LEMMA ObserveKeeps ==
  ASSUME NEW H, NEW B, Consistent(H, B), NEW h \in Handles,
         H[h].block = None, NEW b \in Blocks, B[b].object = "live"
  PROVE  Consistent(With(H, h, b, TRUE), Observed(B, b))
<1>1. Consistent(With(H, h, b, TRUE),
                 IF TRUE THEN Observed(B, b) ELSE Owned(B, b))
  BY AttachKeeps, Zenon
<1> QED
  BY <1>1

LEMMA OwnKeeps ==
  ASSUME NEW H, NEW B, Consistent(H, B), NEW h \in Handles,
         H[h].block = None, NEW b \in Blocks, B[b].object = "live"
  PROVE  Consistent(With(H, h, b, FALSE), Owned(B, b))
<1>1. Consistent(With(H, h, b, FALSE),
                 IF FALSE THEN Observed(B, b) ELSE Owned(B, b))
  BY AttachKeeps, Zenon
<1> QED
  BY <1>1

LEMMA WeakenInv ==
  ASSUME Inv, NEW h \in Handles, NEW other \in Handles, Weaken(h, other)
  PROVE  Inv'
<1> DEFINE b == handle[other].block
<1>1. /\ made' = made \cup {h} /\ fault' = fault
      /\ IF IsNull(other)
         THEN handle' = [handle EXCEPT ![h] = NullHandle] /\ block' = block
         ELSE Set(h, b, TRUE) /\ block' = Observed(block, b)
  BY HandleFacts DEF Weaken, Using
<1>2. handle[h].block = None
  BY HandleFacts DEF Weaken
<1>3. CASE IsNull(other)
  <2>1. handle' = Without(handle, h, FALSE) /\ block' = block
    BY <1>1, <1>3 DEF Without, NullHandle
  <2> QED
    BY <1>1, <1>2, <2>1, StaysNull, MakeInv DEF Without
<1>4. CASE ~IsNull(other)
  <2>1. b \in Blocks /\ block[b].object = "live"
    BY <1>4, HandleFacts
  <2>2. handle' = With(handle, h, b, TRUE) /\ block' = Observed(block, b)
    BY <1>1, <1>4 DEF Set, With
  <2>3. Consistent(handle', block')
    BY <1>2, <2>1, <2>2, ObserveKeeps DEF Inv
  <2> QED
    BY <1>1, <2>2, <2>3, MakeInv DEF With
<1> QED
  BY <1>3, <1>4

LEMMA StrengthenInv ==
  ASSUME Inv, NEW h \in Handles, NEW other \in Handles, Strengthen(h, other)
  PROVE  Inv'
<1> DEFINE b == handle[other].block
<1>1. /\ made' = made \cup {h} /\ fault' = fault
      /\ IF IsNull(other)
         THEN handle' = [handle EXCEPT ![h] = NullHandle] /\ block' = block
         ELSE Set(h, b, FALSE) /\ block' = Owned(block, b)
  BY HandleFacts DEF Strengthen, Using
<1>2. handle[h].block = None
  BY HandleFacts DEF Strengthen
<1>3. CASE IsNull(other)
  <2>1. handle' = Without(handle, h, FALSE) /\ block' = block
    BY <1>1, <1>3 DEF Without, NullHandle
  <2> QED
    BY <1>1, <1>2, <2>1, StaysNull, MakeInv DEF Without
<1>4. CASE ~IsNull(other)
  <2>1. b \in Blocks /\ block[b].object = "live"
    BY <1>4, HandleFacts
  <2>2. handle' = With(handle, h, b, FALSE) /\ block' = Owned(block, b)
    BY <1>1, <1>4 DEF Set, With
  <2>3. Consistent(handle', block')
    BY <1>2, <2>1, <2>2, OwnKeeps DEF Inv
  <2> QED
    BY <1>1, <2>2, <2>3, MakeInv DEF With
<1> QED
  BY <1>3, <1>4

LEMMA DestroyInv == ASSUME Inv, NEW h \in Handles, Destroy(h) PROVE Inv'
<1>1. /\ made' = made \ {h} /\ fault' = fault
      /\ block' = Dereferenciated(h)
      /\ handle' = [handle EXCEPT ![h] = NullHandle]
  BY HandleFacts DEF Destroy, Using
<1>2. Consistent(handle', block')
  <2>1. handle' = Without(handle, h, FALSE)
    BY <1>1 DEF Without, NullHandle
  <2>2. Consistent(Without(handle, h, FALSE), Dereferenciated(h))
    BY DropInv, Zenon
  <2> QED
    BY <1>1, <2>1, <2>2
<1>3. handle \in [Handles -> Handle]
  BY DEF Inv, Consistent
<1> QED
  BY <1>1, <1>2, <1>3, MakesInv DEF Inv

-----------------------------------------------------------------------------
(* Assignments: what the handle refers to next is another block than the   *)
(* one that is dereferenciated.                                            *)
LEMMA AttachAfterDrop ==
  ASSUME Inv, NEW h \in Handles, NEW other \in Handles,
         Pointer(h) # Pointer(other), ~IsNull(other), NEW w \in BOOLEAN
  PROVE  Consistent(With(handle, h, handle[other].block, w),
                    IF w THEN Observed(Dereferenciated(h), handle[other].block)
                    ELSE Owned(Dereferenciated(h), handle[other].block))
<1> DEFINE b == handle[other].block
           K == Without(handle, h, FALSE)
<1>1. b \in Blocks /\ block[b].object = "live" /\ HasBlock(other)
  BY HandleFacts
<1>2. b # handle[h].block
  BY <1>1 DEF Pointer, HasBlock
<1>3. Dereferenciated(h)[b] = block[b]
  BY <1>1, <1>2 DEF Inv, Consistent, Dereferenciated
<1>4. Consistent(K, Dereferenciated(h))
  BY DropInv, Zenon
<1>5. /\ With(K, h, b, w) = With(handle, h, b, w)
      /\ K[h].block = None
  BY DEF Inv, Consistent, With, Without
<1> HIDE DEF K, b
<1>6. Consistent(With(K, h, b, w), IF w THEN Observed(Dereferenciated(h), b)
                                   ELSE Owned(Dereferenciated(h), b))
  <2>1. Dereferenciated(h)[b].object = "live"
    BY <1>1, <1>3
  <2> QED
    BY <1>1, <1>4, <1>5, <2>1, AttachKeeps
<1> QED
  BY <1>5, <1>6 DEF b

LEMMA AssignValueInv == ASSUME Inv, NEW h \in Handles, AssignValue(h) PROVE Inv'
<1>1. /\ h \in made /\ made' = made /\ fault' = fault
      /\ ~IsNull(h) => handle' = handle /\ block' = block
      /\ IsNull(h) => \E b \in Blocks, a \in Addresses :
                        /\ Free(Dereferenciated(h), b, a)
                        /\ block' = Allocated(Dereferenciated(h), b, a)
                        /\ Set(h, b, FALSE)
  BY HandleFacts DEF AssignValue, Using
<1>2. CASE ~IsNull(h)
  BY <1>1, <1>2 DEF Inv
<1>3. CASE IsNull(h)
  <2> DEFINE K == Without(handle, h, FALSE)
  <2>1. PICK b \in Blocks, a \in Addresses :
          /\ Free(Dereferenciated(h), b, a)
          /\ block' = Allocated(Dereferenciated(h), b, a)
          /\ Set(h, b, FALSE)
    BY <1>1, <1>3
  <2>2. Consistent(K, Dereferenciated(h))
    BY DropInv, Zenon
  <2>3. /\ With(K, h, b, FALSE) = With(handle, h, b, FALSE)
        /\ K[h].block = None
    BY DEF Inv, Consistent, With, Without
  <2>4. handle' = With(handle, h, b, FALSE)
    BY <2>1 DEF Set, With
  <2> HIDE DEF K
  <2>5. Consistent(With(K, h, b, FALSE), Allocated(Dereferenciated(h), b, a))
    BY <2>1, <2>2, <2>3, AllocKeeps
  <2> QED
    BY <1>1, <2>1, <2>3, <2>4, <2>5, ChangeInv DEF With
<1> QED
  BY <1>2, <1>3

LEMMA AssignInv ==
  ASSUME Inv, NEW h \in Handles, NEW other \in Handles, Assign(h, other)
  PROVE  Inv'
<1> DEFINE b == handle[other].block
           w == handle[other].weak
<1>1. CASE Pointer(h) = Pointer(other)
  BY <1>1 DEF Assign, vars, Inv
<1>2. CASE Pointer(h) # Pointer(other)
  <2>1. /\ h \in made /\ made' = made /\ fault' = fault
        /\ IF IsNull(other)
           THEN Set(h, None, handle[h].weak) /\ block' = Dereferenciated(h)
           ELSE /\ handle' = [handle EXCEPT ![h] = handle[other]]
                /\ block' = IF w THEN Observed(Dereferenciated(h), b)
                            ELSE Owned(Dereferenciated(h), b)
    BY <1>2, HandleFacts DEF Assign, Using
  <2>2. CASE IsNull(other)
    <3>1. handle' = Without(handle, h, handle[h].weak) /\ block' = Dereferenciated(h)
      BY <2>1, <2>2 DEF Set, Without
    <3>2. Consistent(handle', block')
      BY <3>1, HandleFacts, DropInv
    <3> QED
      BY <2>1, <3>1, <3>2, ChangeInv DEF Without
  <2>3. CASE ~IsNull(other)
    <3>1. handle[other] = [block |-> b, weak |-> w]
      BY DEF Inv, Consistent, Handle
    <3>2. /\ handle' = With(handle, h, b, w)
          /\ block' = IF w THEN Observed(Dereferenciated(h), b)
                      ELSE Owned(Dereferenciated(h), b)
      BY <2>1, <2>3, <3>1 DEF With
    <3>3. Consistent(handle', block')
      BY <1>2, <2>3, <3>2, HandleFacts, AttachAfterDrop
    <3> QED
      BY <2>1, <3>2, <3>3, ChangeInv DEF With
  <2> QED
    BY <2>2, <2>3
<1> QED
  BY <1>1, <1>2

LEMMA AssignWeakInv ==
  ASSUME Inv, NEW h \in Handles, NEW other \in Handles, ~Expired(other),
         AssignWeak(h, other)
  PROVE  Inv'
<1> DEFINE b == handle[other].block
<1>1. CASE Pointer(h) = Pointer(other)
  BY <1>1 DEF AssignWeak, vars, Inv
<1>2. CASE Pointer(h) # Pointer(other)
  <2>1. /\ h \in made /\ made' = made /\ fault' = fault
        /\ Set(h, b, TRUE)
        /\ block' = IF IsNull(other) THEN Dereferenciated(h)
                    ELSE Observed(Dereferenciated(h), b)
    BY <1>2, HandleFacts DEF AssignWeak, Using
  <2>2. CASE IsNull(other)
    <3>1. b = None
      BY <2>2, HandleFacts DEF Expired, IsObserver, IsOwner, HasBlock
    <3>2. handle' = Without(handle, h, TRUE) /\ block' = Dereferenciated(h)
      BY <2>1, <2>2, <3>1 DEF Set, Without
    <3>3. Consistent(Without(handle, h, TRUE), Dereferenciated(h))
      BY DropInv, Zenon
    <3> QED
      BY <2>1, <3>2, <3>3, ChangeInv DEF Without
  <2>3. CASE ~IsNull(other)
    <3>1. handle' = With(handle, h, b, TRUE)
      BY <2>1 DEF Set, With
    <3>2. Consistent(With(handle, h, b, TRUE),
                     IF TRUE THEN Observed(Dereferenciated(h), b)
                     ELSE Owned(Dereferenciated(h), b))
      BY <1>2, <2>3, AttachAfterDrop, Zenon
    <3> QED
      BY <2>1, <2>3, <3>1, <3>2, ChangeInv DEF With
  <2> QED
    BY <2>2, <2>3
<1> QED
  BY <1>1, <1>2

LEMMA DelInv == ASSUME Inv, NEW h \in Handles, Del(h) PROVE Inv'
<1>1. /\ h \in made /\ made' = made /\ fault' = fault
      /\ IF IsNull(h) THEN handle' = handle /\ block' = block
         ELSE Set(h, None, handle[h].weak) /\ block' = Dereferenciated(h)
  BY HandleFacts DEF Del, Using
<1>2. CASE IsNull(h)
  BY <1>1, <1>2 DEF Inv
<1>3. CASE ~IsNull(h)
  <2>1. handle' = Without(handle, h, handle[h].weak) /\ block' = Dereferenciated(h)
    BY <1>1, <1>3 DEF Set, Without
  <2>2. Consistent(handle', block')
    BY <2>1, HandleFacts, DropInv
  <2> QED
    BY <1>1, <2>1, <2>2, ChangeInv DEF Without
<1> QED
  BY <1>2, <1>3

LEMMA NextInv == Inv /\ [CarefulNext]_vars => Inv'
<1> SUFFICES ASSUME Inv, [CarefulNext]_vars PROVE Inv'
  OBVIOUS
<1>1. CASE UNCHANGED vars
  BY <1>1 DEF Inv, vars
<1>2. ASSUME NEW h \in Handles, Construct(h) PROVE Inv'
  BY <1>2, ConstructInv
<1>3. ASSUME NEW h \in Handles, Own(h) PROVE Inv'
  BY <1>3, OwnInv
<1>4. ASSUME NEW h \in Handles, Destroy(h) PROVE Inv'
  BY <1>4, DestroyInv
<1>5. ASSUME NEW h \in Handles, AssignValue(h) PROVE Inv'
  BY <1>5, AssignValueInv
<1>6. ASSUME NEW h \in Handles, Del(h) PROVE Inv'
  BY <1>6, DelInv
<1>7. ASSUME NEW h \in Handles, NEW other \in Handles, Weaken(h, other) PROVE Inv'
  BY <1>7, WeakenInv
<1>8. ASSUME NEW h \in Handles, NEW other \in Handles, Strengthen(h, other)
      PROVE  Inv'
  BY <1>8, StrengthenInv
<1>9. ASSUME NEW h \in Handles, NEW other \in Handles, Assign(h, other) PROVE Inv'
  BY <1>9, AssignInv
<1>10. ASSUME NEW h \in Handles, NEW other \in Handles, ~Expired(other),
              Copy(h, other)
       PROVE  Inv'
  BY <1>10, CopyInv
<1>11. ASSUME NEW h \in Handles, NEW other \in Handles, ~Expired(other),
              AssignWeak(h, other)
       PROVE  Inv'
  BY <1>11, AssignWeakInv
<1> QED
  BY <1>1, <1>2, <1>3, <1>4, <1>5, <1>6, <1>7, <1>8, <1>9, <1>10, <1>11
     DEF CarefulNext

-----------------------------------------------------------------------------
(* The invariant says what the properties say.                             *)
LEMMA BlockFacts ==
  ASSUME Inv, NEW b \in Blocks
  PROVE  /\ Owners(b) = OwnersIn(handle, b) /\ Observers(b) = ObserversIn(handle, b)
         /\ BlockOK(handle, block, b) /\ block[b] \in Block
         /\ block[b].ref > 0 <=> Owners(b) # {}
         /\ block[b].weak > 0 <=> Observers(b) # {}
<1>1. Owners(b) = OwnersIn(handle, b) /\ Observers(b) = ObserversIn(handle, b)
  BY DEF Owners, Observers, OwnersIn, ObserversIn
<1>2. BlockOK(handle, block, b) /\ block[b] \in Block
  BY DEF Inv, Consistent
<1> QED
  BY <1>1, <1>2, SetsOfHandles, CountEmpty DEF BlockOK, EntryOK

(* The invariant of every run that copies no expired handle.               *)
LEMMA InvHolds == CarefulSpec => []Inv
  BY InitInv, NextInv, PTL DEF CarefulSpec

(* Every variable has its type, and a handle that is not made has no block.*)
THEOREM TypeCorrect == CarefulSpec => []TypeOK
<1>1. Inv => TypeOK
  BY DEF Inv, Consistent, TypeOK
<1> QED
  BY <1>1, InvHolds, PTL

(* No counter or flag is used once it was freed, by a program that copies  *)
(* no expired weak pointer: construction, copies, assignments and          *)
(* destruction in any order.                                               *)
THEOREM CellsAreSafe == CarefulSpec => []NoUseAfterFree
<1>1. Inv => NoUseAfterFree
  BY DEF Inv, NoUseAfterFree
<1> QED
  BY <1>1, InvHolds, PTL

(* referencesCount and weakReferencesCount tell the hard and weak handles. *)
THEOREM CountersAreExact == CarefulSpec => []CountersExact
<1>1. Inv => CountersExact
  BY BlockFacts DEF BlockOK, EntryOK, CountersExact
<1> QED
  BY <1>1, InvHolds, PTL

(* An object is deleted with its last hard handle and never before.        *)
LEMMA ObjectsLive == Inv => LivesWhileOwned
  BY BlockFacts DEF BlockOK, EntryOK, LivesWhileOwned

(* The shared cells are freed with the last handle, hard or weak.          *)
LEMMA CellsLive == Inv => CellsWhileReferred
  BY BlockFacts DEF BlockOK, EntryOK, CellsWhileReferred

(* Object and cells go with the last handle that needs them and no later.  *)
THEOREM NothingLeaks == CarefulSpec => []LivesAsReferred
<1>1. Inv => LivesAsReferred
  BY ObjectsLive, CellsLive DEF LivesAsReferred
<1> QED
  BY <1>1, InvHolds, PTL

(* A handle that is not null can be dereferenced, and two that are not     *)
(* null and equal share one block.                                         *)
THEOREM NotNullIsSafe == CarefulSpec => []NotNullIsLive
<1>1. ASSUME Inv PROVE NotNullIsLive
  <2> SUFFICES ASSUME NEW h \in made, ~IsNull(h)
               PROVE  /\ block[handle[h].block].object = "live"
                      /\ \A g \in made : ~IsNull(g) /\ Pointer(g) = Pointer(h) =>
                           handle[g].block = handle[h].block
    BY DEF NotNullIsLive
  <2>1. \A g \in made : ~IsNull(g) =>
          /\ HasBlock(g) /\ handle[g].block \in Blocks
          /\ block[handle[g].block].object = "live"
    BY <1>1, HandleFacts DEF Inv
  <2> QED
    BY <1>1, <2>1 DEF Inv, Consistent, Pointer
<1> QED
  BY <1>1, InvHolds, PTL

(* A handle that is not expired and has an object has one that lives, at   *)
(* an address no other living object has: to compare pointers is to        *)
(* compare objects.                                                        *)
LEMMA SamePointerIsSameBlock ==
  ASSUME Inv, NEW h \in Handles, NEW other \in Handles,
         ~Expired(h), ~Expired(other), Pointer(h) = Pointer(other)
  PROVE  handle[h].block = handle[other].block
<1> DEFINE b == handle[h].block
           c == handle[other].block
<1>1. ASSUME NEW g \in Handles, ~Expired(g), HasBlock(g)
      PROVE  /\ handle[g].block \in Blocks
             /\ block[handle[g].block].object = "live"
             /\ Pointer(g) = block[handle[g].block].at
             /\ Pointer(g) \in Addresses
  <2>1. ~IsNull(g)
    BY <1>1, HandleFacts DEF Expired, IsObserver, IsOwner
  <2>2. handle[g].block \in Blocks /\ block[handle[g].block].object = "live"
    BY <1>1, <2>1, HandleFacts
  <2>3. block[handle[g].block].at \in Addresses
    BY <2>2 DEF Inv, Consistent, BlockOK, EntryOK
  <2> QED
    BY <1>1, <2>2, <2>3 DEF Pointer
<1>2. ~HasBlock(h) => Pointer(h) \notin Addresses /\ b = None
  BY ConstantsAssumption DEF ConstantsAssumption, Pointer, HasBlock
<1>3. ~HasBlock(other) => Pointer(other) \notin Addresses /\ c = None
  BY ConstantsAssumption DEF ConstantsAssumption, Pointer, HasBlock
<1>4. CASE HasBlock(h) /\ HasBlock(other)
  BY <1>1, <1>4 DEF Inv, Consistent
<1> QED
  BY <1>1, <1>2, <1>3, <1>4

(* Two handles with one pointer refer to one object or to none, unless one *)
(* of them is expired.                                                     *)
LEMMA SamePointerIsSameObject ==
  ASSUME Inv, NEW h \in Handles, NEW other \in Handles, Pointer(h) = Pointer(other)
  PROVE  Referent(h) = Referent(other) \/ Expired(h) # Expired(other)
<1>1. CASE ~Expired(h) /\ ~Expired(other)
  <2>1. handle[h].block = handle[other].block
    BY <1>1, SamePointerIsSameBlock
  <2> QED
    BY <2>1 DEF Referent, IsNull, HasBlock
<1>2. CASE Expired(h) /\ Expired(other)
  BY <1>2 DEF Referent, Expired
<1>3. Expired(h) \in BOOLEAN /\ Expired(other) \in BOOLEAN
  BY DEF Expired, IsObserver, IsNull
<1> QED
  BY <1>1, <1>2, <1>3, Zenon

(* An assignment that is carried out takes over the object.                *)
LEMMA AssignTakesObject ==
  ASSUME Inv, NEW h \in Handles, NEW other \in Handles,
         Assign(h, other), Pointer(h) # Pointer(other)
  PROVE  Referent(h)' = Referent(other)
<1> DEFINE c == handle[other].block
<1>1. /\ IF IsNull(other)
         THEN Set(h, None, handle[h].weak)
         ELSE /\ handle' = [handle EXCEPT ![h] = handle[other]]
              /\ block' = IF handle[other].weak THEN Observed(Dereferenciated(h), c)
                          ELSE Owned(Dereferenciated(h), c)
      /\ handle \in [Handles -> Handle] /\ block \in [Blocks -> Block]
  BY HandleFacts DEF Assign, Using, Inv, Consistent
<1>2. CASE IsNull(other)
  <2>1. handle'[h].block = None
    BY <1>1, <1>2 DEF Set
  <2>2. IsNull(h)'
    BY <2>1 DEF IsNull, HasBlock
  <2> QED
    BY <1>2, <2>2 DEF Referent
<1>3. CASE ~IsNull(other)
  <2>1. c \in Blocks /\ HasBlock(other) /\ ~block[c].null
    BY <1>3, HandleFacts DEF IsNull
  <2>2. handle'[h].block = c
    BY <1>1, <1>3
  <2>3. HasBlock(h) => handle[h].block # c /\ handle[h].block \in Blocks
    BY <2>1, HandleFacts DEF Pointer
  <2>4. Dereferenciated(h) \in [Blocks -> Block] /\ Dereferenciated(h)[c] = block[c]
    <3>1. Consistent(Without(handle, h, FALSE), Dereferenciated(h))
      BY DropInv, Zenon
    <3>2. Dereferenciated(h)[c] = block[c]
      BY <1>1, <2>1, <2>3 DEF Dereferenciated, IsOwner, IsObserver, HasBlock
    <3> QED
      BY <3>1, <3>2 DEF Consistent
  <2>5. block'[c].null = block[c].null
    <3> DEFINE D == Dereferenciated(h)
    <3>1. D \in [Blocks -> Block] /\ D[c] = block[c] /\ block[c] \in Block
      BY <1>1, <2>1, <2>4
    <3>2. block' = Observed(D, c) \/ block' = Owned(D, c)
      BY <1>1, <1>3
    <3> HIDE DEF D
    <3> QED
      BY <2>1, <3>1, <3>2 DEF Observed, Owned, Block
  <2>6. ~IsNull(h)'
    BY <2>1, <2>2, <2>5 DEF IsNull, HasBlock
  <2> QED
    BY <1>3, <2>2, <2>6 DEF Referent
<1> QED
  BY <1>2, <1>3

(* After h = other both refer to the same object, unless one of them is    *)
(* expired and the other's object is at the address its own was at.        *)
THEOREM AssignsTheObject == CarefulSpec => AssignRefersToOther
<1>1. Inv => \A h, other \in made : Pointer(h) = Pointer(other) =>
               Referent(h) = Referent(other) \/ Expired(h) # Expired(other)
  BY SamePointerIsSameObject DEF Inv
<1>2. Inv => [\A h, other \in Handles :
                Assign(h, other) /\ Pointer(h) # Pointer(other) =>
                  Referent(h)' = Referent(other)]_vars
  BY AssignTakesObject
<1> QED
  BY <1>1, <1>2, InvHolds, PTL DEF AssignRefersToOther

-----------------------------------------------------------------------------
(* Handles inside objects (RcGraph): the memory and its fields.            *)

HandleIn == [to : Objects \cup {NULL}, weak : BOOLEAN]

BlockIn == [object : {"unborn", "live", "deleted"}, ref : Int, weak : Int,
            null : BOOLEAN, cells : {"unborn", "live", "freed"}]

Memory == [handle : [Places -> HandleIn], block : [Objects -> BlockIn], fault : BOOLEAN]

LEMMA MemoryFields ==
  ASSUME NEW m \in Memory
  PROVE  /\ m.handle \in [Places -> HandleIn]
         /\ m.block \in [Objects -> BlockIn]
         /\ m.fault \in BOOLEAN
         /\ \A p \in Places : /\ m.handle[p] \in HandleIn
                              /\ Target(m, p) \in Objects \cup {NULL}
                              /\ Target(m, p) = m.handle[p].to
                              /\ m.handle[p].weak \in BOOLEAN
         /\ \A o \in Objects : m.block[o] \in BlockIn
<1>1. /\ m.handle \in [Places -> HandleIn]
      /\ m.block \in [Objects -> BlockIn]
      /\ m.fault \in BOOLEAN
  BY DEF Memory
<1> QED
  BY <1>1 DEF Target, HandleIn

LEMMA BlockFields ==
  ASSUME NEW b \in BlockIn
  PROVE  /\ b.object \in {"unborn", "live", "deleted"}
         /\ b.ref \in Int /\ b.weak \in Int
         /\ b.null \in BOOLEAN
         /\ b.cells \in {"unborn", "live", "freed"}
BY DEF BlockIn

LEMMA ObjectsArePlaces ==
  /\ \A o \in Objects : o \in Places /\ o # NULL
  /\ \A r \in Roots : r \in Places /\ r \notin Objects
  /\ Temporary \in Places /\ Temporary \notin Objects /\ Temporary \notin Roots
BY GraphAssumption DEF GraphAssumption, Places

(* What the operations make of each field.                                 *)
LEMMA FaultFields ==
  ASSUME NEW m \in Memory
  PROVE  /\ Fault(m) \in Memory /\ Fault(m).fault = TRUE
         /\ Fault(m).handle = m.handle /\ Fault(m).block = m.block
BY DEF Memory, Fault

LEMMA CountingFields ==
  ASSUME NEW m \in Memory, NEW h \in HandleIn, NEW n \in Int
  PROVE  /\ Counting(m, h, n) \in Memory
         /\ Counting(m, h, n).handle = m.handle
         /\ Counting(m, h, n).fault = m.fault
         /\ \A o \in Objects :
              /\ Counting(m, h, n).block[o].ref =
                   IF h.to = o /\ ~h.weak THEN m.block[o].ref + n ELSE m.block[o].ref
              /\ Counting(m, h, n).block[o].weak =
                   IF h.to = o /\ h.weak THEN m.block[o].weak + n ELSE m.block[o].weak
              /\ Counting(m, h, n).block[o].object = m.block[o].object
              /\ Counting(m, h, n).block[o].null = m.block[o].null
              /\ Counting(m, h, n).block[o].cells = m.block[o].cells
<1>1. /\ m.handle \in [Places -> HandleIn]
      /\ m.block \in [Objects -> BlockIn]
      /\ m.fault \in BOOLEAN
      /\ m = [handle |-> m.handle, block |-> m.block, fault |-> m.fault]
  BY DEF Memory
<1>2. h.to \in Objects \cup {NULL} /\ h.weak \in BOOLEAN /\ NULL \notin Objects
  BY GraphAssumption DEF HandleIn, GraphAssumption
<1>3. CASE h.to = NULL
  <2>1. Counting(m, h, n) = m
    BY <1>3 DEF Counting
  <2> QED
    BY <1>2, <1>3, <2>1
<1>4. CASE h.to # NULL /\ h.weak
  <2> DEFINE e == [m.block[h.to] EXCEPT !.weak = @ + n]
             B == [m.block EXCEPT ![h.to] = e]
  <2>1. Counting(m, h, n) = [m EXCEPT !.block = B]
    BY <1>1, <1>2, <1>4 DEF Counting
  <2>2. m.block[h.to] \in BlockIn
    BY <1>1, <1>2, <1>4
  <2>3. /\ e \in BlockIn /\ e.weak = m.block[h.to].weak + n /\ e.ref = m.block[h.to].ref
        /\ e.object = m.block[h.to].object /\ e.null = m.block[h.to].null
        /\ e.cells = m.block[h.to].cells
    BY <2>2 DEF BlockIn
  <2> HIDE DEF e
  <2>4. B \in [Objects -> BlockIn] /\ \A o \in Objects : B[o] = IF o = h.to THEN e ELSE m.block[o]
    BY <1>1, <1>2, <1>4, <2>3
  <2> HIDE DEF B
  <2>5. /\ Counting(m, h, n) \in Memory
        /\ Counting(m, h, n).handle = m.handle /\ Counting(m, h, n).fault = m.fault
        /\ Counting(m, h, n).block = B
    BY <1>1, <2>1, <2>4 DEF Memory
  <2> QED
    BY <1>2, <1>4, <2>3, <2>4, <2>5
<1>5. CASE h.to # NULL /\ ~h.weak
  <2> DEFINE e == [m.block[h.to] EXCEPT !.ref = @ + n]
             B == [m.block EXCEPT ![h.to] = e]
  <2>1. Counting(m, h, n) = [m EXCEPT !.block = B]
    BY <1>1, <1>2, <1>5 DEF Counting
  <2>2. m.block[h.to] \in BlockIn
    BY <1>1, <1>2, <1>5
  <2>3. /\ e \in BlockIn /\ e.ref = m.block[h.to].ref + n /\ e.weak = m.block[h.to].weak
        /\ e.object = m.block[h.to].object /\ e.null = m.block[h.to].null
        /\ e.cells = m.block[h.to].cells
    BY <2>2 DEF BlockIn
  <2> HIDE DEF e
  <2>4. B \in [Objects -> BlockIn] /\ \A o \in Objects : B[o] = IF o = h.to THEN e ELSE m.block[o]
    BY <1>1, <1>2, <1>5, <2>3
  <2> HIDE DEF B
  <2>5. /\ Counting(m, h, n) \in Memory
        /\ Counting(m, h, n).handle = m.handle /\ Counting(m, h, n).fault = m.fault
        /\ Counting(m, h, n).block = B
    BY <1>1, <2>1, <2>4 DEF Memory
  <2> QED
    BY <1>2, <1>5, <2>3, <2>4, <2>5
<1> QED
  BY <1>2, <1>3, <1>4, <1>5

LEMMA FreeWeakFields ==
  ASSUME NEW m \in Memory, NEW o \in Objects
  PROVE  /\ FreeWeak(m, o) \in Memory
         /\ FreeWeak(m, o).handle = m.handle
         /\ \A q \in Objects :
              /\ FreeWeak(m, o).block[q].ref = m.block[q].ref
              /\ FreeWeak(m, o).block[q].weak = m.block[q].weak
              /\ FreeWeak(m, o).block[q].object = m.block[q].object
              /\ FreeWeak(m, o).block[q].null = m.block[q].null
              /\ FreeWeak(m, o).block[q].cells =
                   IF q = o /\ m.block[o].weak = 0 /\ m.block[o].null
                   THEN "freed" ELSE m.block[q].cells
<1>1. /\ m.handle \in [Places -> HandleIn]
      /\ m.block \in [Objects -> BlockIn]
      /\ m.fault \in BOOLEAN /\ m.block[o] \in BlockIn
      /\ m = [handle |-> m.handle, block |-> m.block, fault |-> m.fault]
  BY DEF Memory
<1>2. CASE m.block[o].cells = "freed"
  <2>1. FreeWeak(m, o) = Fault(m)
    BY <1>2 DEF FreeWeak
  <2> QED
    BY <1>2, <2>1, FaultFields
<1>3. CASE m.block[o].cells # "freed" /\ ~(m.block[o].weak = 0 /\ m.block[o].null)
  <2>1. FreeWeak(m, o) = m
    BY <1>3 DEF FreeWeak
  <2> QED
    BY <1>1, <1>3, <2>1
<1>4. CASE m.block[o].cells # "freed" /\ m.block[o].weak = 0 /\ m.block[o].null
  <2> DEFINE e == [m.block[o] EXCEPT !.cells = "freed"]
             B == [m.block EXCEPT ![o] = e]
  <2>1. FreeWeak(m, o) = [m EXCEPT !.block = B]
    BY <1>1, <1>4 DEF FreeWeak
  <2>3. /\ e \in BlockIn /\ e.weak = m.block[o].weak /\ e.ref = m.block[o].ref
        /\ e.object = m.block[o].object /\ e.null = m.block[o].null
        /\ e.cells = "freed"
    BY <1>1 DEF BlockIn
  <2> HIDE DEF e
  <2>4. B \in [Objects -> BlockIn] /\ \A q \in Objects : B[q] = IF q = o THEN e ELSE m.block[q]
    BY <1>1, <2>3
  <2> HIDE DEF B
  <2>5. /\ FreeWeak(m, o) \in Memory
        /\ FreeWeak(m, o).handle = m.handle /\ FreeWeak(m, o).fault = m.fault
        /\ FreeWeak(m, o).block = B
    BY <1>1, <2>1, <2>4 DEF Memory
  <2> QED
    BY <1>4, <2>3, <2>4, <2>5
<1> QED
  BY <1>2, <1>3, <1>4

LEMMA FreeWeakFault ==
  ASSUME NEW m \in Memory, NEW o \in Objects
  PROVE  /\ m.fault = TRUE => FreeWeak(m, o).fault = TRUE
         /\ m.block[o].cells # "freed" => FreeWeak(m, o).fault = m.fault
<1>1. m = [handle |-> m.handle, block |-> m.block, fault |-> m.fault]
  BY DEF Memory
<1>2. CASE m.block[o].cells = "freed"
  BY <1>2, FaultFields DEF FreeWeak
<1>3. CASE m.block[o].cells # "freed"
  <2>1. FreeWeak(m, o) = m \/ FreeWeak(m, o) = [m EXCEPT !.block[o].cells = "freed"]
    BY <1>3 DEF FreeWeak
  <2>2. [m EXCEPT !.block[o].cells = "freed"].fault = m.fault
    BY <1>1
  <2>3. FreeWeak(m, o).fault = m.fault
    BY <2>1, <2>2, Zenon
  <2> QED
    BY <1>3, <2>3
<1> QED
  BY <1>2, <1>3

(* The object is deleted, with the handle in it, and isNull is set.        *)
Ended(m, o) == Nullified(Deleted(m, o), o)

LEMMA DeletedFields ==
  ASSUME NEW m \in Memory, NEW o \in Objects
  PROVE  /\ Ended(m, o) \in Memory
         /\ Ended(m, o).handle = [m.handle EXCEPT ![o] = NoHandle]
         /\ Ended(m, o).fault = m.fault
         /\ \A q \in Objects :
              /\ Ended(m, o).block[q].ref = m.block[q].ref
              /\ Ended(m, o).block[q].weak = m.block[q].weak
              /\ Ended(m, o).block[q].object = IF q = o THEN "deleted" ELSE m.block[q].object
              /\ q = o => Ended(m, o).block[q].null = TRUE
              /\ q # o => Ended(m, o).block[q].null = m.block[q].null
              /\ Ended(m, o).block[q].cells = m.block[q].cells
<1> DEFINE n == Ended(m, o)
           e == [m.block[o] EXCEPT !.object = "deleted", !.null = TRUE]
           B == [m.block EXCEPT ![o] = e]
           H == [m.handle EXCEPT ![o] = NoHandle]
<1>1. /\ m.handle \in [Places -> HandleIn]
      /\ m.block \in [Objects -> BlockIn]
      /\ m.fault \in BOOLEAN /\ m.block[o] \in BlockIn
      /\ m = [handle |-> m.handle, block |-> m.block, fault |-> m.fault]
  BY DEF Memory
<1>2. /\ e \in BlockIn /\ e.weak = m.block[o].weak /\ e.ref = m.block[o].ref
      /\ e.object = "deleted" /\ e.null = TRUE /\ e.cells = m.block[o].cells
  BY <1>1 DEF BlockIn
<1>3. n = [handle |-> H, block |-> B, fault |-> m.fault]
  <2> DEFINE d == [m.block[o] EXCEPT !.object = "deleted"]
             D == [m.block EXCEPT ![o] = d]
  <2>1. Deleted(m, o) = [m EXCEPT !.handle = H, !.block = D]
    BY Zenon DEF Deleted
  <2>2. /\ Deleted(m, o).handle = H /\ Deleted(m, o).block = D /\ Deleted(m, o).fault = m.fault
        /\ Deleted(m, o) = [handle |-> H, block |-> D, fault |-> m.fault]
    <3> HIDE DEF H, D
    <3> QED
      BY <1>1, <2>1
  <2>6. Nullified(Deleted(m, o), o) =
          [handle |-> H, block |-> [D EXCEPT ![o] = [D[o] EXCEPT !.null = TRUE]], fault |-> m.fault]
    <3> DEFINE dm == Deleted(m, o)
               C == [D EXCEPT ![o] = [D[o] EXCEPT !.null = TRUE]]
    <3>1. Nullified(dm, o) = [dm EXCEPT !.block = [dm.block EXCEPT ![o] = [dm.block[o] EXCEPT !.null = TRUE]]]
      BY Zenon DEF Nullified
    <3>2. dm.block = D /\ dm = [handle |-> H, block |-> D, fault |-> m.fault]
      BY <2>2
    <3> HIDE DEF dm
    <3>3. Nullified(dm, o) = [dm EXCEPT !.block = C]
      BY <3>1, <3>2, Zenon
    <3> HIDE DEF H, D, C
    <3>4. Nullified(dm, o) = [handle |-> H, block |-> C, fault |-> m.fault]
      BY <3>2, <3>3
    <3> QED
      BY <3>4 DEF C, dm
  <2>3. D[o] = d
    BY <1>1
  <2>4. [d EXCEPT !.null = TRUE] = e
    BY <1>1 DEF BlockIn
  <2>5. [D EXCEPT ![o] = [D[o] EXCEPT !.null = TRUE]] = B
    <3> HIDE DEF d, e
    <3> QED
      BY <1>1, <2>3, <2>4
  <2> QED
    BY <2>5, <2>6, Zenon DEF Ended
<1> HIDE DEF e, n
<1>4. B \in [Objects -> BlockIn] /\ \A q \in Objects : B[q] = IF q = o THEN e ELSE m.block[q]
  BY <1>1, <1>2
<1>5. H \in [Places -> HandleIn]
  BY <1>1, ObjectsArePlaces DEF HandleIn, NoHandle
<1> HIDE DEF B
<1>6. n \in Memory /\ n.handle = H /\ n.fault = m.fault /\ n.block = B
  <2> HIDE DEF H
  <2> QED
    BY <1>1, <1>3, <1>4, <1>5 DEF Memory
<1> QED
  BY <1>2, <1>4, <1>6 DEF n

-----------------------------------------------------------------------------
(* The handles of an object, but for those at the places D, and their      *)
(* number when a place comes to D or leaves it with another handle.        *)

Hard(m, D, o) == OwnersOf(m, o) \ D
Weak(m, D, o) == ObserversOf(m, o) \ D

LEMMA PlacesFinite ==
  ASSUME NEW S \in SUBSET Places
  PROVE  IsFiniteSet(S) /\ Cardinality(S) \in Nat
<1>1. IsFiniteSet(Roots \cup Objects) /\ IsFiniteSet({Temporary})
  BY GraphAssumption, FS_Union, FS_Singleton DEF GraphAssumption
<1>2. IsFiniteSet(Places)
  BY <1>1, FS_Union DEF Places
<1> QED
  BY <1>2, FS_Subset, FS_CardinalityType

LEMMA HandleSets ==
  ASSUME NEW m, NEW D, NEW o
  PROVE  Hard(m, D, o) \in SUBSET Places /\ Weak(m, D, o) \in SUBSET Places
BY DEF Hard, Weak, OwnersOf, ObserversOf

LEMMA HandleCounts ==
  ASSUME NEW m, NEW D, NEW o
  PROVE  Cardinality(Hard(m, D, o)) \in Nat /\ Cardinality(Weak(m, D, o)) \in Nat
BY HandleSets, PlacesFinite

LEMMA OneLess ==
  ASSUME NEW S \in SUBSET Places, NEW p \in S
  PROVE  Cardinality(S \ {p}) = Cardinality(S) - 1 /\ Cardinality(S) > 0
<1>1. IsFiniteSet(S) /\ IsFiniteSet(S \ {p}) /\ Cardinality(S \ {p}) \in Nat /\ Cardinality(S) \in Nat
  BY PlacesFinite
<1>2. Cardinality(S \ {p}) = Cardinality(S) - 1
  BY <1>1, FS_RemoveElement
<1> QED
  BY <1>1, <1>2

LEMMA OneMore ==
  ASSUME NEW S \in SUBSET Places, NEW p \in Places, p \notin S
  PROVE  Cardinality(S \cup {p}) = Cardinality(S) + 1
BY PlacesFinite, FS_AddElement

LEMMA SomeCounted ==
  ASSUME NEW S \in SUBSET Places
  PROVE  Cardinality(S) > 0 <=> S # {}
<1>1. S = {} => Cardinality(S) = 0
  BY FS_EmptySet
<1>2. S # {} => Cardinality(S) > 0
  BY OneLess
<1> QED
  BY <1>1, <1>2

(* A place comes to D: its handle is no longer counted.                    *)
LEMMA CountsDrop ==
  ASSUME NEW m \in Memory, NEW n, n.handle = m.handle,
         NEW D, NEW p \in Places, p \notin D, NEW o \in Objects
  PROVE  /\ Cardinality(Hard(n, D \cup {p}, o)) =
              IF Target(m, p) = o /\ ~m.handle[p].weak
              THEN Cardinality(Hard(m, D, o)) - 1 ELSE Cardinality(Hard(m, D, o))
         /\ Cardinality(Weak(n, D \cup {p}, o)) =
              IF Target(m, p) = o /\ m.handle[p].weak
              THEN Cardinality(Weak(m, D, o)) - 1 ELSE Cardinality(Weak(m, D, o))
<1>1. Hard(n, D \cup {p}, o) = Hard(m, D, o) \ {p} /\ Weak(n, D \cup {p}, o) = Weak(m, D, o) \ {p}
  BY DEF Hard, Weak, OwnersOf, ObserversOf, Target
<1>2. /\ p \in Hard(m, D, o) <=> Target(m, p) = o /\ ~m.handle[p].weak
      /\ p \in Weak(m, D, o) <=> Target(m, p) = o /\ m.handle[p].weak
  BY DEF Hard, Weak, OwnersOf, ObserversOf
<1>3. CASE Target(m, p) = o /\ ~m.handle[p].weak
  <2>1. p \in Hard(m, D, o) /\ p \notin Weak(m, D, o)
    BY <1>2, <1>3
  <2>2. Cardinality(Hard(m, D, o) \ {p}) = Cardinality(Hard(m, D, o)) - 1
    BY <2>1, HandleSets, OneLess
  <2>3. Weak(m, D, o) \ {p} = Weak(m, D, o)
    BY <2>1
  <2> QED
    BY <1>1, <1>3, <2>2, <2>3
<1>4. CASE Target(m, p) = o /\ m.handle[p].weak
  <2>1. p \in Weak(m, D, o) /\ p \notin Hard(m, D, o)
    BY <1>2, <1>4
  <2>2. Cardinality(Weak(m, D, o) \ {p}) = Cardinality(Weak(m, D, o)) - 1
    BY <2>1, HandleSets, OneLess
  <2>3. Hard(m, D, o) \ {p} = Hard(m, D, o)
    BY <2>1
  <2> QED
    BY <1>1, <1>4, <2>2, <2>3
<1>5. CASE Target(m, p) # o
  <2>1. p \notin Weak(m, D, o) /\ p \notin Hard(m, D, o)
    BY <1>2, <1>5
  <2>2. Hard(m, D, o) \ {p} = Hard(m, D, o) /\ Weak(m, D, o) \ {p} = Weak(m, D, o)
    BY <2>1
  <2> QED
    BY <1>1, <1>5, <2>2
<1> QED
  BY <1>3, <1>4, <1>5, MemoryFields

(* A place leaves D with another handle, which is counted.                 *)
LEMMA CountsTake ==
  ASSUME NEW m \in Memory, NEW n, NEW h \in HandleIn, NEW D, NEW p \in Places, p \in D,
         n.handle = [m.handle EXCEPT ![p] = h], NEW o \in Objects
  PROVE  /\ Cardinality(Hard(n, D \ {p}, o)) =
              IF h.to = o /\ ~h.weak
              THEN Cardinality(Hard(m, D, o)) + 1 ELSE Cardinality(Hard(m, D, o))
         /\ Cardinality(Weak(n, D \ {p}, o)) =
              IF h.to = o /\ h.weak
              THEN Cardinality(Weak(m, D, o)) + 1 ELSE Cardinality(Weak(m, D, o))
<1>1. /\ n.handle[p] = h
      /\ \A q \in Places : q # p => n.handle[q] = m.handle[q]
  BY MemoryFields
<1>2. p \notin Hard(m, D, o) /\ p \notin Weak(m, D, o) /\ h.weak \in BOOLEAN
  BY DEF Hard, Weak, HandleIn
<1>3. /\ Hard(n, D \ {p}, o) = IF h.to = o /\ ~h.weak THEN Hard(m, D, o) \cup {p} ELSE Hard(m, D, o)
      /\ Weak(n, D \ {p}, o) = IF h.to = o /\ h.weak THEN Weak(m, D, o) \cup {p} ELSE Weak(m, D, o)
  BY <1>1, <1>2 DEF Hard, Weak, OwnersOf, ObserversOf, Target
<1>4. /\ Cardinality(Hard(m, D, o) \cup {p}) = Cardinality(Hard(m, D, o)) + 1
      /\ Cardinality(Weak(m, D, o) \cup {p}) = Cardinality(Weak(m, D, o)) + 1
  BY <1>2, HandleSets, OneMore
<1> QED
  BY <1>3, <1>4

-----------------------------------------------------------------------------
(* The invariant of the memory in the middle of dereferenciate(): the      *)
(* counters are the numbers of the handles but for those at the places D,  *)
(* which are counted down, and the objects L, which have no hard one left, *)
(* are being deleted.                                                      *)

BlockKept(b, n, k) ==
  /\ b.ref = n /\ b.weak = k
  /\ b.object = "live" <=> b.ref > 0
  /\ b.object = "deleted" <=> b.null
  /\ b.cells = "live" <=> b.ref + b.weak > 0
  /\ b.cells = "unborn" <=> b.object = "unborn"

BlockDying(b, n, k) ==
  /\ b.ref = 0 /\ n = 0 /\ b.weak = k
  /\ b.object = "live" /\ ~b.null /\ b.cells = "live"

BlockFits(m, D, L, o) ==
  /\ o \in L => BlockDying(m.block[o], Cardinality(Hard(m, D, o)), Cardinality(Weak(m, D, o)))
  /\ o \notin L => BlockKept(m.block[o], Cardinality(Hard(m, D, o)), Cardinality(Weak(m, D, o)))

Kept(m, D, L) ==
  /\ m \in Memory
  /\ m.fault = FALSE
  /\ \A o \in Objects : BlockFits(m, D, L, o)
  /\ \A o \in Objects : m.block[o].object # "live" => Target(m, o) = NULL

(* A handle that is counted keeps the cells that it uses.                  *)
LEMMA KeptHandle ==
  ASSUME NEW m, NEW D, NEW L, Kept(m, D, L), NEW p \in Places, p \notin D, Target(m, p) # NULL
  PROVE  /\ Target(m, p) \in Objects
         /\ m.block[Target(m, p)].cells = "live"
         /\ m.block[Target(m, p)].object # "unborn"
         /\ ~m.handle[p].weak => m.block[Target(m, p)].ref > 0 /\ Target(m, p) \notin L
         /\ m.handle[p].weak => m.block[Target(m, p)].weak > 0
         /\ ~m.block[Target(m, p)].null => m.block[Target(m, p)].object = "live"
<1> DEFINE o == Target(m, p)
           b == m.block[o]
           n == Cardinality(Hard(m, D, o))
           k == Cardinality(Weak(m, D, o))
<1>1. m \in Memory /\ o \in Objects /\ m.handle[p].weak \in BOOLEAN
  BY MemoryFields DEF Kept
<1>2. b \in BlockIn
  BY <1>1, MemoryFields
<1>3. /\ o \in L => BlockDying(b, n, k)
      /\ o \notin L => BlockKept(b, n, k)
  BY <1>1 DEF Kept, BlockFits
<1>4. n \in Nat /\ k \in Nat
  BY HandleCounts
<1>5. ~m.handle[p].weak => n > 0
  <2>1. ~m.handle[p].weak => p \in Hard(m, D, o)
    BY DEF Hard, OwnersOf
  <2> QED
    BY <2>1, HandleSets, SomeCounted
<1>6. m.handle[p].weak => k > 0
  <2>1. m.handle[p].weak => p \in Weak(m, D, o)
    BY DEF Weak, ObserversOf
  <2> QED
    BY <2>1, HandleSets, SomeCounted
<1> HIDE DEF n, k, b
<1>7. ~m.handle[p].weak => b.ref > 0 /\ o \notin L
  BY <1>3, <1>4, <1>5 DEF BlockDying, BlockKept
<1>8. m.handle[p].weak => b.weak > 0
  BY <1>3, <1>4, <1>6 DEF BlockDying, BlockKept
<1>9. b.cells = "live"
  <2>1. b.ref + b.weak > 0 \/ o \in L
    BY <1>1, <1>3, <1>4, <1>7, <1>8 DEF BlockKept
  <2> QED
    BY <1>3, <2>1 DEF BlockDying, BlockKept
<1>10. b.object # "unborn" /\ (~b.null => b.object = "live")
  BY <1>2, <1>3, <1>9, BlockFields DEF BlockDying, BlockKept
<1> QED
  BY <1>1, <1>7, <1>8, <1>9, <1>10 DEF b

-----------------------------------------------------------------------------
(* One call of dereferenciate(), in any memory.                            *)

LEMMA DestroyingFields ==
  ASSUME NEW m \in Memory, NEW p \in Places
  PROVE  /\ Destroying(m, p) \in Memory
         /\ Destroying(m, p).handle = m.handle
         /\ Destroying(m, p).fault = m.fault
         /\ \A o \in Objects :
              /\ Destroying(m, p).block[o].ref =
                   IF Target(m, p) = o /\ ~m.handle[p].weak THEN m.block[o].ref - 1 ELSE m.block[o].ref
              /\ Destroying(m, p).block[o].weak =
                   IF Target(m, p) = o /\ m.handle[p].weak THEN m.block[o].weak - 1 ELSE m.block[o].weak
              /\ Destroying(m, p).block[o].object = m.block[o].object
              /\ Destroying(m, p).block[o].null = m.block[o].null
              /\ Destroying(m, p).block[o].cells = m.block[o].cells
<1>1. m.handle[p] \in HandleIn /\ m.handle[p].to = Target(m, p)
  BY MemoryFields
<1>2. Destroying(m, p) = Counting(m, m.handle[p], -1)
  BY DEF Destroying, Counted
<1>3. \A o \in Objects : /\ m.block[o].ref + (-1) = m.block[o].ref - 1
                         /\ m.block[o].weak + (-1) = m.block[o].weak - 1
  BY MemoryFields, BlockFields
<1> DEFINE h == m.handle[p]
           n == Counting(m, h, -1)
<1>4. h \in HandleIn /\ h.to = Target(m, p) /\ -1 \in Int
  BY <1>1
<1> HIDE DEF h
<1>5. /\ n \in Memory /\ n.handle = m.handle /\ n.fault = m.fault
      /\ \A o \in Objects :
           /\ n.block[o].ref = IF h.to = o /\ ~h.weak THEN m.block[o].ref + (-1) ELSE m.block[o].ref
           /\ n.block[o].weak = IF h.to = o /\ h.weak THEN m.block[o].weak + (-1) ELSE m.block[o].weak
           /\ n.block[o].object = m.block[o].object
           /\ n.block[o].null = m.block[o].null
           /\ n.block[o].cells = m.block[o].cells
  BY <1>4, CountingFields
<1> HIDE DEF n
<1>6. \A o \in Objects :
        /\ n.block[o].ref = IF Target(m, p) = o /\ ~h.weak THEN m.block[o].ref - 1 ELSE m.block[o].ref
        /\ n.block[o].weak = IF Target(m, p) = o /\ h.weak THEN m.block[o].weak - 1 ELSE m.block[o].weak
  BY <1>3, <1>4, <1>5
<1>7. Destroying(m, p) = n
  BY <1>2 DEF n, h
<1> QED
  BY <1>5, <1>6, <1>7, Zenon DEF h

LEMMA ReleasedFields ==
  ASSUME NEW m \in Memory, NEW p \in Places
  PROVE  /\ Released(m, p) \in Memory
         /\ m.fault = TRUE => Released(m, p).fault = TRUE
         /\ Released(m, p).handle = m.handle
         /\ \A o \in Objects : Released(m, p).block[o].object = m.block[o].object
<1>1. CASE Target(m, p) = NULL
  BY <1>1 DEF Released
<1>2. CASE Target(m, p) # NULL /\ Dangles(m, p)
  BY <1>2, FaultFields DEF Released
<1>3. CASE Target(m, p) # NULL /\ ~Dangles(m, p)
  <2>1. Released(m, p) = FreeWeak(Destroying(m, p), Target(m, p))
    BY <1>3 DEF Released, Destroying
  <2>2. Target(m, p) \in Objects
    BY <1>3, MemoryFields
  <2> DEFINE d == Destroying(m, p)
  <2>3. /\ d \in Memory /\ d.handle = m.handle /\ d.fault = m.fault
        /\ \A o \in Objects : d.block[o].object = m.block[o].object
    BY DestroyingFields
  <2> HIDE DEF d
  <2>4. /\ FreeWeak(d, Target(m, p)) \in Memory
        /\ FreeWeak(d, Target(m, p)).handle = d.handle
        /\ \A o \in Objects : FreeWeak(d, Target(m, p)).block[o].object = d.block[o].object
    BY <2>2, <2>3, FreeWeakFields
  <2>5. d.fault = TRUE => FreeWeak(d, Target(m, p)).fault = TRUE
    BY <2>2, <2>3, FreeWeakFault
  <2>6. Released(m, p) = FreeWeak(d, Target(m, p))
    BY <2>1 DEF d
  <2> QED
    BY <2>3, <2>4, <2>5, <2>6
<1> QED
  BY <1>1, <1>2, <1>3

LEMMA ResumedFields ==
  ASSUME NEW m \in Memory, NEW o \in Objects
  PROVE  /\ Resumed(m, o) \in Memory
         /\ m.fault = TRUE => Resumed(m, o).fault = TRUE
         /\ Resumed(m, o).handle = [m.handle EXCEPT ![o] = NoHandle]
         /\ \A q \in Objects :
              Resumed(m, o).block[q].object = IF q = o THEN "deleted" ELSE m.block[q].object
<1> DEFINE n == Ended(m, o)
<1>1. /\ n \in Memory
      /\ n.handle = [m.handle EXCEPT ![o] = NoHandle]
      /\ n.fault = m.fault
      /\ \A q \in Objects : n.block[q].object = IF q = o THEN "deleted" ELSE m.block[q].object
  <2>1. /\ n \in Memory
        /\ n.handle = [m.handle EXCEPT ![o] = NoHandle]
        /\ n.fault = m.fault
        /\ \A q \in Objects :
             /\ n.block[q].ref = m.block[q].ref
             /\ n.block[q].weak = m.block[q].weak
             /\ n.block[q].object = IF q = o THEN "deleted" ELSE m.block[q].object
             /\ q = o => n.block[q].null = TRUE
             /\ q # o => n.block[q].null = m.block[q].null
             /\ n.block[q].cells = m.block[q].cells
    BY DeletedFields, Zenon
  <2> HIDE DEF n
  <2> QED
    BY <2>1, Zenon
<1>2. Resumed(m, o) = FreeWeak(n, o)
  BY DEF Resumed, Ended
<1> HIDE DEF n
<1>3. /\ FreeWeak(n, o) \in Memory
      /\ FreeWeak(n, o).handle = n.handle
      /\ \A q \in Objects : FreeWeak(n, o).block[q].object = n.block[q].object
  BY <1>1, FreeWeakFields
<1>4. n.fault = TRUE => FreeWeak(n, o).fault = TRUE
  BY <1>1, FreeWeakFault
<1> QED
  BY <1>1, <1>2, <1>3, <1>4

-----------------------------------------------------------------------------
(* One call of dereferenciate(), where the counters are right.             *)

(* The last hard handle: the object was kept by it alone.                  *)
LEMMA DestroyingKeeps ==
  ASSUME NEW m, NEW D, NEW L, Kept(m, D, L), NEW p \in Places, p \notin D, IsLast(m, p)
  PROVE  /\ Target(m, p) \in Objects /\ Target(m, p) \notin L
         /\ m.block[Target(m, p)].object = "live"
         /\ Hard(m, D, Target(m, p)) = {p}
         /\ Kept(Destroying(m, p), D \cup {p}, L \cup {Target(m, p)})
<1> DEFINE t == Target(m, p)
           n == Destroying(m, p)
           E == D \cup {p}
           K == L \cup {t}
<1>1. /\ m \in Memory /\ m.fault = FALSE /\ t # NULL /\ ~m.handle[p].weak
      /\ m.block[t].ref = 1 /\ t \in Objects /\ t \notin L
  BY KeptHandle DEF Kept, IsLast
<1>2. /\ n \in Memory /\ n.handle = m.handle /\ n.fault = FALSE
      /\ \A o \in Objects :
           /\ n.block[o].ref = IF t = o THEN m.block[o].ref - 1 ELSE m.block[o].ref
           /\ n.block[o].weak = m.block[o].weak
           /\ n.block[o].object = m.block[o].object
           /\ n.block[o].null = m.block[o].null
           /\ n.block[o].cells = m.block[o].cells
  BY <1>1, DestroyingFields
<1>3. \A o \in Objects :
        /\ Cardinality(Hard(n, E, o)) =
             IF t = o THEN Cardinality(Hard(m, D, o)) - 1 ELSE Cardinality(Hard(m, D, o))
        /\ Cardinality(Weak(n, E, o)) = Cardinality(Weak(m, D, o))
  BY <1>1, <1>2, CountsDrop
<1>4. BlockKept(m.block[t], Cardinality(Hard(m, D, t)), Cardinality(Weak(m, D, t)))
  BY <1>1 DEF Kept, BlockFits
<1>5. Hard(m, D, t) = {p}
  <2>1. p \in Hard(m, D, t)
    BY <1>1 DEF Hard, OwnersOf
  <2>2. Cardinality(Hard(m, D, t)) = 1
    BY <1>1, <1>4 DEF BlockKept
  <2>3. IsFiniteSet(Hard(m, D, t))
    BY HandleSets, PlacesFinite
  <2>4. \E x : Hard(m, D, t) = {x}
    BY <2>2, <2>3, FS_Singleton
  <2> QED
    BY <2>1, <2>4
<1>6. ASSUME NEW o \in Objects PROVE BlockFits(n, E, K, o)
  <2>1. m.block[o] \in BlockIn /\ n.block[o] \in BlockIn
    BY <1>1, <1>2, MemoryFields
  <2>2. CASE o = t
    <3>1. n.block[o].ref = 0 /\ Cardinality(Hard(n, E, o)) = 0
      <4> HIDE DEF n, E
      <4> QED
        BY <1>1, <1>2, <1>3, <1>4, <2>2 DEF BlockKept
    <3>2. m.block[o].cells = "live" /\ m.block[o].object = "live" /\ ~m.block[o].null
      <4>1. m.block[o].cells = "live"
        BY <1>1, <2>2, KeptHandle
      <4>2. m.block[o].object = "live"
        BY <1>1, <1>4, <2>2 DEF BlockKept
      <4>3. ~m.block[o].null
        BY <1>4, <2>2, <4>2 DEF BlockKept
      <4> QED
        BY <4>1, <4>2, <4>3
    <3>3. n.block[o].weak = Cardinality(Weak(n, E, o))
      BY <1>2, <1>3, <1>4, <2>2 DEF BlockKept
    <3>4. BlockDying(n.block[o], Cardinality(Hard(n, E, o)), Cardinality(Weak(n, E, o)))
      BY <1>2, <3>1, <3>2, <3>3 DEF BlockDying
    <3> HIDE DEF n, E
    <3> QED
      BY <2>2, <3>4 DEF BlockFits
  <2>3. CASE o # t
    <3>1. BlockFits(m, D, L, o)
      BY DEF Kept
    <3>2. /\ Cardinality(Hard(n, E, o)) = Cardinality(Hard(m, D, o))
          /\ Cardinality(Weak(n, E, o)) = Cardinality(Weak(m, D, o))
      BY <1>3, <2>3
    <3>3. /\ n.block[o].ref = m.block[o].ref
          /\ n.block[o].weak = m.block[o].weak
          /\ n.block[o].object = m.block[o].object
          /\ n.block[o].null = m.block[o].null
          /\ n.block[o].cells = m.block[o].cells
      BY <1>2, <2>3
    <3>4. o \in K <=> o \in L
      BY <2>3
    <3> HIDE DEF n, E, K
    <3> QED
      BY <3>1, <3>2, <3>3, <3>4 DEF BlockFits, BlockDying, BlockKept
  <2> QED
    BY <2>2, <2>3
<1>7. \A o \in Objects : n.block[o].object # "live" => Target(n, o) = NULL
  BY <1>2 DEF Kept, Target
<1>8. m.block[t].object = "live"
  BY <1>1, <1>4 DEF BlockKept
<1> HIDE DEF n, E, K
<1>9. Kept(n, E, K)
  BY <1>2, <1>6, <1>7 DEF Kept
<1> QED
  BY <1>1, <1>5, <1>8, <1>9 DEF n, E, K

(* A call that deletes nothing: it faults in no way.                       *)
LEMMA ReleasedKeeps ==
  ASSUME NEW m, NEW D, NEW L, Kept(m, D, L), NEW p \in Places, p \notin D, ~IsLast(m, p)
  PROVE  Kept(Released(m, p), D \cup {p}, L)
<1> DEFINE t == Target(m, p)
           n == Released(m, p)
           E == D \cup {p}
<1>1. m \in Memory /\ m.fault = FALSE /\ t \in Objects \cup {NULL} /\ m.handle[p].weak \in BOOLEAN
  BY MemoryFields DEF Kept
<1>2. /\ n \in Memory /\ n.handle = m.handle
      /\ \A o \in Objects : n.block[o].object = m.block[o].object
  BY <1>1, ReleasedFields
<1>3. \A o \in Objects :
        /\ Cardinality(Hard(n, E, o)) =
             IF t = o /\ ~m.handle[p].weak
             THEN Cardinality(Hard(m, D, o)) - 1 ELSE Cardinality(Hard(m, D, o))
        /\ Cardinality(Weak(n, E, o)) =
             IF t = o /\ m.handle[p].weak
             THEN Cardinality(Weak(m, D, o)) - 1 ELSE Cardinality(Weak(m, D, o))
  BY <1>1, <1>2, CountsDrop
<1>4. \A o \in Objects : n.block[o].object # "live" => Target(n, o) = NULL
  BY <1>2 DEF Kept, Target
<1>5. CASE t = NULL
  <2>1. n = m /\ \A o \in Objects : t # o
    BY <1>5, ObjectsArePlaces DEF Released
  <2>2. \A o \in Objects : /\ Cardinality(Hard(n, E, o)) = Cardinality(Hard(m, D, o))
                           /\ Cardinality(Weak(n, E, o)) = Cardinality(Weak(m, D, o))
    BY <1>3, <2>1
  <2> HIDE DEF n, E
  <2>3. \A o \in Objects : BlockFits(n, E, L, o)
    BY <2>1, <2>2 DEF Kept, BlockFits
  <2> QED
    BY <1>1, <1>2, <1>4, <2>1, <2>3 DEF Kept, n, E
<1>6. CASE t # NULL
  <2>1. /\ t \in Objects /\ m.block[t].cells = "live"
        /\ ~m.handle[p].weak => m.block[t].ref > 1 /\ t \notin L
        /\ m.handle[p].weak => m.block[t].weak > 0
    <3>1. /\ t \in Objects /\ m.block[t].cells = "live"
          /\ ~m.handle[p].weak => m.block[t].ref > 0 /\ t \notin L
          /\ m.handle[p].weak => m.block[t].weak > 0
      BY <1>6, KeptHandle
    <3>2. m.block[t].ref \in Int
      BY <1>1, <3>1, MemoryFields, BlockFields
    <3>3. ~Dangles(m, p)
      BY <3>1, <3>2 DEF Dangles
    <3>4. ~m.handle[p].weak => m.block[t].ref # 1
      BY <1>6, <3>3 DEF IsLast
    <3> QED
      BY <3>1, <3>2, <3>4
  <2>2. ~Dangles(m, p)
    BY <2>1 DEF Dangles
  <2> DEFINE d == Destroying(m, p)
  <2>3. n = FreeWeak(d, t)
    BY <1>6, <2>2 DEF Released, Destroying
  <2>4. /\ d \in Memory /\ d.handle = m.handle /\ d.fault = FALSE
        /\ \A o \in Objects :
              /\ d.block[o].ref = IF t = o /\ ~m.handle[p].weak THEN m.block[o].ref - 1 ELSE m.block[o].ref
              /\ d.block[o].weak = IF t = o /\ m.handle[p].weak THEN m.block[o].weak - 1 ELSE m.block[o].weak
              /\ d.block[o].object = m.block[o].object
              /\ d.block[o].null = m.block[o].null
              /\ d.block[o].cells = m.block[o].cells
    BY <1>1, DestroyingFields
  <2> HIDE DEF d, n
  <2>5. /\ n.fault = FALSE
        /\ \A o \in Objects :
             /\ n.block[o].ref = d.block[o].ref
             /\ n.block[o].weak = d.block[o].weak
             /\ n.block[o].object = d.block[o].object
             /\ n.block[o].null = d.block[o].null
             /\ n.block[o].cells = IF o = t /\ d.block[t].weak = 0 /\ d.block[t].null
                                   THEN "freed" ELSE d.block[o].cells
    <3>1. d.block[t].cells # "freed"
      BY <2>1, <2>4
    <3>2. n.fault = FALSE
      BY <2>1, <2>3, <2>4, <3>1, FreeWeakFault
    <3>3. \A o \in Objects :
             /\ n.block[o].ref = d.block[o].ref
             /\ n.block[o].weak = d.block[o].weak
             /\ n.block[o].object = d.block[o].object
             /\ n.block[o].null = d.block[o].null
             /\ n.block[o].cells = IF o = t /\ d.block[t].weak = 0 /\ d.block[t].null
                                   THEN "freed" ELSE d.block[o].cells
      <4> DEFINE e == FreeWeak(d, t)
      <4>1. \A o \in Objects :
              /\ e.block[o].ref = d.block[o].ref
              /\ e.block[o].weak = d.block[o].weak
              /\ e.block[o].object = d.block[o].object
              /\ e.block[o].null = d.block[o].null
              /\ e.block[o].cells = IF o = t /\ d.block[t].weak = 0 /\ d.block[t].null
                                    THEN "freed" ELSE d.block[o].cells
        BY <2>1, <2>4, FreeWeakFields
      <4>2. n = e
        BY <2>3
      <4> QED
        BY <4>1, <4>2, Zenon
    <3> QED
      BY <3>2, <3>3
  <2>6. ASSUME NEW o \in Objects PROVE BlockFits(n, E, L, o)
    <3>1. BlockFits(m, D, L, o)
      BY DEF Kept
    <3>2. /\ m.block[o].ref \in Int /\ m.block[o].weak \in Int
          /\ m.block[o].object \in {"unborn", "live", "deleted"}
          /\ m.block[o].null \in BOOLEAN
      BY <1>1, MemoryFields, BlockFields
    <3>3. CASE o # t
      <4>1. /\ Cardinality(Hard(n, E, o)) = Cardinality(Hard(m, D, o))
            /\ Cardinality(Weak(n, E, o)) = Cardinality(Weak(m, D, o))
        BY <1>3, <3>3
      <4>2. /\ n.block[o].ref = m.block[o].ref
            /\ n.block[o].weak = m.block[o].weak
            /\ n.block[o].object = m.block[o].object
            /\ n.block[o].null = m.block[o].null
            /\ n.block[o].cells = m.block[o].cells
        BY <2>4, <2>5, <3>3
      <4> HIDE DEF E
      <4> QED
        BY <3>1, <4>1, <4>2 DEF BlockFits, BlockDying, BlockKept
    <3>4. CASE o = t /\ o \in L
      <4>1. m.handle[p].weak
        BY <1>1, <2>1, <3>4
      <4>2. BlockDying(m.block[o], Cardinality(Hard(m, D, o)), Cardinality(Weak(m, D, o)))
        BY <3>1, <3>4 DEF BlockFits
      <4>3. /\ Cardinality(Hard(n, E, o)) = Cardinality(Hard(m, D, o))
            /\ Cardinality(Weak(n, E, o)) = Cardinality(Weak(m, D, o)) - 1
        BY <1>3, <3>4, <4>1
      <4>4. /\ n.block[o].ref = m.block[o].ref
            /\ n.block[o].weak = m.block[o].weak - 1
            /\ n.block[o].object = m.block[o].object
            /\ n.block[o].null = m.block[o].null
        BY <2>4, <2>5, <3>4, <4>1
      <4>5. ~m.block[o].null /\ m.block[o].cells = "live"
        BY <4>2 DEF BlockDying
      <4>6. n.block[o].cells = "live"
        BY <2>4, <2>5, <3>4, <4>5
      <4> HIDE DEF E
      <4>7. BlockDying(n.block[o], Cardinality(Hard(n, E, o)), Cardinality(Weak(n, E, o)))
        BY <4>2, <4>3, <4>4, <4>6 DEF BlockDying
      <4> QED
        BY <3>4, <4>7 DEF BlockFits
    <3>5. CASE o = t /\ o \notin L /\ m.handle[p].weak
      <4>1. BlockKept(m.block[o], Cardinality(Hard(m, D, o)), Cardinality(Weak(m, D, o)))
        BY <3>1, <3>5 DEF BlockFits
      <4>2. /\ Cardinality(Hard(n, E, o)) = Cardinality(Hard(m, D, o))
            /\ Cardinality(Weak(n, E, o)) = Cardinality(Weak(m, D, o)) - 1
        BY <1>3, <3>5
      <4>3. /\ n.block[o].ref = m.block[o].ref
            /\ n.block[o].weak = m.block[o].weak - 1
            /\ n.block[o].object = m.block[o].object
            /\ n.block[o].null = m.block[o].null
            /\ n.block[o].cells = IF m.block[o].weak - 1 = 0 /\ m.block[o].null
                                  THEN "freed" ELSE "live"
        <5>1. /\ d.block[o].ref = m.block[o].ref /\ d.block[o].weak = m.block[o].weak - 1
              /\ d.block[o].object = m.block[o].object /\ d.block[o].null = m.block[o].null
          BY <2>4, <3>5
        <5>2. d.block[o].cells = "live"
          BY <2>1, <2>4, <3>5
        <5>3. /\ n.block[o].ref = d.block[o].ref /\ n.block[o].weak = d.block[o].weak
              /\ n.block[o].object = d.block[o].object /\ n.block[o].null = d.block[o].null
          BY <2>5
        <5>4. n.block[o].cells = IF d.block[o].weak = 0 /\ d.block[o].null
                                 THEN "freed" ELSE d.block[o].cells
          BY <2>5, <3>5
        <5>5. n.block[o].cells = IF m.block[o].weak - 1 = 0 /\ m.block[o].null
                                 THEN "freed" ELSE "live"
          BY <5>1, <5>2, <5>4
        <5> QED
          BY <5>1, <5>3, <5>5
      <4>4. m.block[o].weak > 0 /\ Cardinality(Hard(m, D, o)) \in Nat
        BY <2>1, <3>5, HandleCounts
      <4> HIDE DEF E
      <4>5. BlockKept(n.block[o], Cardinality(Hard(n, E, o)), Cardinality(Weak(n, E, o)))
        <5>1. CASE m.block[o].weak - 1 = 0 /\ m.block[o].null
          <6>1. m.block[o].object = "deleted"
            BY <4>1, <5>1 DEF BlockKept
          <6>2. ~(m.block[o].ref > 0)
            BY <4>1, <6>1 DEF BlockKept
          <6>3. m.block[o].ref = 0
            BY <4>1, <4>4, <6>2 DEF BlockKept
          <6>4. n.block[o].cells = "freed"
            BY <4>3, <5>1
          <6>5. n.block[o].ref = 0 /\ n.block[o].weak = 0 /\ n.block[o].object = "deleted" /\ n.block[o].null
            BY <4>3, <5>1, <6>1, <6>3
          <6> QED
            BY <4>1, <4>2, <4>3, <6>3, <6>4, <6>5 DEF BlockKept
        <5>2. CASE ~(m.block[o].weak - 1 = 0 /\ m.block[o].null)
          <6>1. n.block[o].cells = "live"
            BY <4>3, <5>2
          <6>2. m.block[o].weak - 1 > 0 \/ m.block[o].object = "live"
            <7>1. CASE ~m.block[o].null
              <8>1. m.block[o].object # "deleted"
                BY <4>1, <7>1 DEF BlockKept
              <8>2. m.block[o].object # "unborn"
                BY <2>1, <3>5, <4>1 DEF BlockKept
              <8> QED
                BY <3>2, <8>1, <8>2
            <7>2. CASE m.block[o].null
              BY <3>2, <4>4, <5>2, <7>2
            <7> QED
              BY <7>1, <7>2
          <6>3. n.block[o].ref + n.block[o].weak > 0
            BY <3>2, <4>1, <4>3, <4>4, <6>2 DEF BlockKept
          <6>4. n.block[o].object # "unborn"
            BY <2>1, <3>5, <4>1, <4>3 DEF BlockKept
          <6> QED
            BY <4>1, <4>2, <4>3, <6>1, <6>3, <6>4 DEF BlockKept
        <5> QED
          BY <5>1, <5>2
      <4> QED
        BY <3>5, <4>5 DEF BlockFits
    <3>6. CASE o = t /\ ~m.handle[p].weak
      <4>1. BlockKept(m.block[o], Cardinality(Hard(m, D, o)), Cardinality(Weak(m, D, o)))
        BY <2>1, <3>1, <3>6 DEF BlockFits
      <4>2. /\ Cardinality(Hard(n, E, o)) = Cardinality(Hard(m, D, o)) - 1
            /\ Cardinality(Weak(n, E, o)) = Cardinality(Weak(m, D, o))
        BY <1>3, <3>6
      <4>3. m.block[o].ref > 1 /\ o \notin L /\ Cardinality(Weak(m, D, o)) \in Nat
        BY <2>1, <3>6, HandleCounts
      <4>4. ~m.block[o].null /\ m.block[o].object = "live"
        BY <3>2, <4>1, <4>3 DEF BlockKept
      <4>5. /\ n.block[o].ref = m.block[o].ref - 1
            /\ n.block[o].weak = m.block[o].weak
            /\ n.block[o].object = "live" /\ ~n.block[o].null
            /\ n.block[o].cells = "live"
        BY <2>1, <2>4, <2>5, <3>6, <4>4
      <4>6. m.block[o].ref - 1 > 0 /\ m.block[o].weak \in Nat
        BY <3>2, <4>1, <4>3 DEF BlockKept
      <4>7. m.block[o].ref - 1 + m.block[o].weak > 0
        BY <3>2, <4>6
      <4> HIDE DEF E
      <4>8. BlockKept(n.block[o], Cardinality(Hard(n, E, o)), Cardinality(Weak(n, E, o)))
        BY <4>1, <4>2, <4>5, <4>6, <4>7 DEF BlockKept
      <4> QED
        BY <4>3, <4>8 DEF BlockFits
    <3> QED
      BY <1>1, <3>3, <3>4, <3>5, <3>6
  <2> HIDE DEF E
  <2>7. Kept(n, E, L)
    BY <1>2, <1>4, <2>5, <2>6 DEF Kept
  <2> QED
    BY <2>7 DEF n, E
<1> QED
  BY <1>5, <1>6

(* A call that goes on after the destructor: the object is deleted.        *)
LEMMA ResumedKeeps ==
  ASSUME NEW m, NEW D, NEW L, Kept(m, D, L), NEW o \in Objects, o \in D, o \in L
  PROVE  Kept(Resumed(m, o), D \ {o}, L \ {o})
<1> DEFINE e == Ended(m, o)
           n == Resumed(m, o)
           E == D \ {o}
           K == L \ {o}
<1>1. /\ m \in Memory /\ m.fault = FALSE
      /\ BlockDying(m.block[o], Cardinality(Hard(m, D, o)), Cardinality(Weak(m, D, o)))
  BY DEF Kept, BlockFits
<1>2. /\ e \in Memory /\ e.handle = [m.handle EXCEPT ![o] = NoHandle]
      /\ e.fault = FALSE
      /\ \A q \in Objects :
           /\ e.block[q].ref = m.block[q].ref
           /\ e.block[q].weak = m.block[q].weak
           /\ e.block[q].object = IF q = o THEN "deleted" ELSE m.block[q].object
           /\ q = o => e.block[q].null = TRUE
           /\ q # o => e.block[q].null = m.block[q].null
           /\ e.block[q].cells = m.block[q].cells
  BY <1>1, DeletedFields
<1>3. n = FreeWeak(e, o)
  BY DEF Resumed, Ended
<1> HIDE DEF e, n
<1>4. e.block[o].cells = "live" /\ e.block[o].null = TRUE
  BY <1>1, <1>2 DEF BlockDying
<1>5. n.fault = FALSE
  BY <1>2, <1>3, <1>4, FreeWeakFault
<1>6. /\ n \in Memory
      /\ n.handle = [m.handle EXCEPT ![o] = NoHandle]
      /\ \A q \in Objects :
           /\ n.block[q].ref = m.block[q].ref
           /\ n.block[q].weak = m.block[q].weak
           /\ n.block[q].object = IF q = o THEN "deleted" ELSE m.block[q].object
           /\ n.block[q].null = e.block[q].null
           /\ n.block[q].cells = IF q = o /\ e.block[o].weak = 0 /\ e.block[o].null
                                 THEN "freed" ELSE e.block[q].cells
  BY <1>2, <1>3, FreeWeakFields
<1>7. ASSUME NEW q \in Objects
      PROVE  /\ Cardinality(Hard(n, E, q)) = Cardinality(Hard(m, D, q))
             /\ Cardinality(Weak(n, E, q)) = Cardinality(Weak(m, D, q))
  <2>1. NoHandle \in HandleIn /\ NoHandle.to = NULL /\ NULL # q
    BY ObjectsArePlaces DEF NoHandle, HandleIn
  <2>2. o \in Places
    BY ObjectsArePlaces
  <2> QED
    BY <1>1, <1>6, <2>1, <2>2, CountsTake
<1>8. ASSUME NEW q \in Objects PROVE BlockFits(n, E, K, q)
  <2>1. CASE q = o
    <3>1. /\ n.block[q].ref = 0 /\ Cardinality(Hard(n, E, q)) = 0
          /\ n.block[q].weak = Cardinality(Weak(n, E, q))
          /\ n.block[q].object = "deleted" /\ n.block[q].null = TRUE
          /\ n.block[q].cells = IF n.block[q].weak = 0 THEN "freed" ELSE "live"
      BY <1>1, <1>2, <1>4, <1>6, <1>7, <2>1 DEF BlockDying
    <3>2. Cardinality(Weak(n, E, q)) \in Nat
      BY HandleCounts
    <3> HIDE DEF E
    <3>3. BlockKept(n.block[q], Cardinality(Hard(n, E, q)), Cardinality(Weak(n, E, q)))
      BY <3>1, <3>2 DEF BlockKept
    <3> QED
      BY <2>1, <3>3 DEF BlockFits
  <2>2. CASE q # o
    <3>1. BlockFits(m, D, L, q)
      BY DEF Kept
    <3>2. /\ n.block[q].ref = m.block[q].ref
          /\ n.block[q].weak = m.block[q].weak
          /\ n.block[q].object = m.block[q].object
          /\ n.block[q].null = m.block[q].null
          /\ n.block[q].cells = m.block[q].cells
      BY <1>2, <1>6, <2>2
    <3>3. q \in K <=> q \in L
      BY <2>2
    <3> HIDE DEF E, K
    <3> QED
      BY <1>7, <3>1, <3>2, <3>3 DEF BlockFits, BlockKept, BlockDying
  <2> QED
    BY <2>1, <2>2
<1>9. ASSUME NEW q \in Objects, n.block[q].object # "live" PROVE Target(n, q) = NULL
  <2>1. m.handle \in [Places -> HandleIn] /\ o \in Places /\ q \in Places
    BY <1>1, MemoryFields, ObjectsArePlaces
  <2>2. CASE q = o
    BY <1>6, <2>1, <2>2 DEF Target, NoHandle
  <2>3. CASE q # o
    BY <1>6, <1>9, <2>1, <2>3 DEF Kept, Target
  <2> QED
    BY <2>2, <2>3
<1> QED
  BY <1>5, <1>6, <1>8, <1>9 DEF Kept, n

-----------------------------------------------------------------------------
(* A place whose handle is not counted gets another one.                   *)

(* None, weak or not.                                                      *)
LEMMA ClearedKeeps ==
  ASSUME NEW m, NEW p \in Places, Kept(m, {p}, {}), NEW h \in HandleIn, h.to = NULL,
         NEW n, n = [handle |-> [m.handle EXCEPT ![p] = h], block |-> m.block, fault |-> m.fault]
  PROVE  Kept(n, {}, {}) /\ Target(n, p) = NULL
<1>1. /\ m \in Memory /\ m.fault = FALSE /\ m.handle \in [Places -> HandleIn]
      /\ m.block \in [Objects -> BlockIn] /\ m.fault \in BOOLEAN
  BY MemoryFields DEF Kept
<1>2. /\ n.handle = [m.handle EXCEPT ![p] = h]
      /\ n.block = m.block /\ n.fault = FALSE
  BY <1>1
<1>3. n \in Memory
  BY <1>1 DEF Memory
<1>4. ASSUME NEW q \in Objects
      PROVE  /\ Cardinality(Hard(n, {}, q)) = Cardinality(Hard(m, {p}, q))
             /\ Cardinality(Weak(n, {}, q)) = Cardinality(Weak(m, {p}, q))
  <2>1. h.to # q
    BY ObjectsArePlaces
  <2>2. p \in {p} /\ {p} \ {p} = {}
    OBVIOUS
  <2>3. h.weak \in BOOLEAN
    BY DEF HandleIn
  <2>4. ASSUME NEW D, p \in D
        PROVE  /\ Cardinality(Hard(n, D \ {p}, q)) = Cardinality(Hard(m, D, q))
               /\ Cardinality(Weak(n, D \ {p}, q)) = Cardinality(Weak(m, D, q))
    <3>1. n.handle = [m.handle EXCEPT ![p] = h] /\ m \in Memory
      BY <1>1, <1>2
    <3>2. /\ Cardinality(Hard(n, D \ {p}, q)) =
               IF h.to = q /\ ~h.weak THEN Cardinality(Hard(m, D, q)) + 1 ELSE Cardinality(Hard(m, D, q))
          /\ Cardinality(Weak(n, D \ {p}, q)) =
               IF h.to = q /\ h.weak THEN Cardinality(Weak(m, D, q)) + 1 ELSE Cardinality(Weak(m, D, q))
      BY ONLY <2>4, <3>1, h \in HandleIn, p \in Places, q \in Objects, CountsTake
    <3> QED
      BY <2>1, <3>2
  <2>5. {p} \ {p} = {}
    BY <2>2
  <2> QED
    BY <2>1, <2>4, <2>5
<1>5. \A q \in Objects : BlockFits(n, {}, {}, q)
  BY <1>2, <1>4 DEF Kept, BlockFits
<1>6. \A q \in Objects : n.block[q].object # "live" => Target(n, q) = NULL
  BY <1>1, <1>2, ObjectsArePlaces DEF Kept, Target
<1>7. Target(n, p) = NULL
  BY <1>1, <1>2 DEF Target
<1> QED
  BY <1>2, <1>3, <1>5, <1>6, <1>7 DEF Kept

(* An object that is live, or one that has no handle yet.                  *)
LEMMA RefersKeeps ==
  ASSUME NEW m, NEW p \in Places, NEW L, Kept(m, {p}, L),
         NEW h \in HandleIn, h.to \in Objects, m.block[h.to].object = "live",
         L \subseteq {h.to}, L # {} => ~h.weak,
         p \in Objects => m.block[p].object = "live"
  PROVE  Kept(Refers(m, p, h), {}, {})
<1> DEFINE t == h.to
           c == Counting(m, h, 1)
           n == Refers(m, p, h)
<1>1. /\ m \in Memory /\ m.fault = FALSE /\ m.handle \in [Places -> HandleIn]
      /\ h.weak \in BOOLEAN
  BY MemoryFields DEF Kept, HandleIn
<1>2. /\ c \in Memory /\ c.handle = m.handle /\ c.fault = m.fault
      /\ \A q \in Objects :
           /\ c.block[q].ref = IF t = q /\ ~h.weak THEN m.block[q].ref + 1 ELSE m.block[q].ref
           /\ c.block[q].weak = IF t = q /\ h.weak THEN m.block[q].weak + 1 ELSE m.block[q].weak
           /\ c.block[q].object = m.block[q].object
           /\ c.block[q].null = m.block[q].null
           /\ c.block[q].cells = m.block[q].cells
  BY <1>1, CountingFields
<1>3. n = [c EXCEPT !.handle[p] = h]
  BY DEF Refers
<1> HIDE DEF c, n
<1>4. /\ n.handle = [m.handle EXCEPT ![p] = h]
      /\ n.block = c.block /\ n.fault = FALSE /\ n \in Memory
  <2>1. n = [c EXCEPT !.handle = [c.handle EXCEPT ![p] = h]]
    BY <1>3, Zenon
  <2>2. [c.handle EXCEPT ![p] = h] \in [Places -> HandleIn]
    BY <1>1, <1>2
  <2>3. /\ c.handle \in [Places -> HandleIn] /\ c.block \in [Objects -> BlockIn]
        /\ c.fault \in BOOLEAN
        /\ c = [handle |-> c.handle, block |-> c.block, fault |-> c.fault]
    BY <1>2 DEF Memory
  <2> DEFINE H == [c.handle EXCEPT ![p] = h]
  <2> HIDE DEF H
  <2>4. n = [c EXCEPT !.handle = H]
    BY <2>1 DEF H
  <2>5. n.handle = H /\ n.block = c.block /\ n.fault = c.fault /\ n \in Memory
    <3>1. H \in [Places -> HandleIn]
      BY <2>2 DEF H
    <3> QED
      BY <2>3, <2>4, <3>1 DEF Memory
  <2> QED
    BY <1>1, <1>2, <2>5 DEF H
<1>5. \A q \in Objects :
        /\ Cardinality(Hard(n, {}, q)) =
             IF t = q /\ ~h.weak THEN Cardinality(Hard(m, {p}, q)) + 1 ELSE Cardinality(Hard(m, {p}, q))
        /\ Cardinality(Weak(n, {}, q)) =
             IF t = q /\ h.weak THEN Cardinality(Weak(m, {p}, q)) + 1 ELSE Cardinality(Weak(m, {p}, q))
  <2>1. p \in {p} /\ {p} \ {p} = {}
    OBVIOUS
  <2> QED
    BY <1>1, <1>4, <2>1, CountsTake
<1>6. ASSUME NEW q \in Objects PROVE BlockFits(n, {}, {}, q)
  <2>1. BlockFits(m, {p}, L, q)
    BY DEF Kept
  <2>2. /\ m.block[q].ref \in Int /\ m.block[q].weak \in Int
        /\ Cardinality(Hard(m, {p}, q)) \in Nat /\ Cardinality(Weak(m, {p}, q)) \in Nat
    BY <1>1, MemoryFields, BlockFields, HandleCounts
  <2>3. /\ n.block[q].object = m.block[q].object
        /\ n.block[q].null = m.block[q].null
        /\ n.block[q].cells = m.block[q].cells
    BY <1>2, <1>4
  <2>4. CASE q # t
    <3>1. /\ Cardinality(Hard(n, {}, q)) = Cardinality(Hard(m, {p}, q))
          /\ Cardinality(Weak(n, {}, q)) = Cardinality(Weak(m, {p}, q))
          /\ n.block[q].ref = m.block[q].ref /\ n.block[q].weak = m.block[q].weak
      <4>1. /\ Cardinality(Hard(n, {}, q)) = Cardinality(Hard(m, {p}, q))
            /\ Cardinality(Weak(n, {}, q)) = Cardinality(Weak(m, {p}, q))
        BY <1>5, <2>4
      <4>2. c.block[q].ref = m.block[q].ref /\ c.block[q].weak = m.block[q].weak
        BY <1>2, <2>4
      <4>3. n.block = c.block
        BY <1>4
      <4> QED
        BY <4>1, <4>2, <4>3
    <3>2. q \notin L
      BY <2>4
    <3> QED
      BY <2>1, <2>3, <3>1, <3>2 DEF BlockFits, BlockKept
  <2>5. CASE q = t
    <3>1. /\ m.block[q].object = "live" /\ m.block[q].cells = "live" /\ ~m.block[q].null
          /\ m.block[q].ref = Cardinality(Hard(m, {p}, q))
          /\ m.block[q].weak = Cardinality(Weak(m, {p}, q))
          /\ q \notin L => m.block[q].ref > 0
      <4>1. CASE q \in L
        BY <2>1, <4>1 DEF BlockFits, BlockDying
      <4>2. CASE q \notin L
        <5>1. BlockKept(m.block[q], Cardinality(Hard(m, {p}, q)), Cardinality(Weak(m, {p}, q)))
          BY <2>1, <4>2 DEF BlockFits
        <5>2. m.block[q].object = "live" /\ m.block[q].ref > 0
          BY <2>5, <5>1 DEF BlockKept
        <5>3. ~m.block[q].null
          BY <5>1, <5>2 DEF BlockKept
        <5>4. m.block[q].weak \in Nat
          BY <2>2, <5>1 DEF BlockKept
        <5>5. m.block[q].ref + m.block[q].weak > 0
          BY <2>2, <5>2, <5>4
        <5> QED
          BY <5>1, <5>2, <5>3, <5>5 DEF BlockKept
      <4> QED
        BY <4>1, <4>2
    <3>2. CASE h.weak
      <4>1. q \notin L
        BY <2>5, <3>2
      <4>2. /\ n.block[q].ref = Cardinality(Hard(n, {}, q)) /\ n.block[q].ref > 0
            /\ n.block[q].weak = Cardinality(Weak(n, {}, q)) /\ n.block[q].weak >= 0
        <5>1. n.block[q].ref = m.block[q].ref /\ n.block[q].weak = m.block[q].weak + 1
          BY <1>2, <1>4, <2>5, <3>2
        <5>2. /\ Cardinality(Hard(n, {}, q)) = Cardinality(Hard(m, {p}, q))
              /\ Cardinality(Weak(n, {}, q)) = Cardinality(Weak(m, {p}, q)) + 1
          BY <1>5, <2>5, <3>2
        <5> QED
          BY <2>2, <3>1, <4>1, <5>1, <5>2
      <4>3. n.block[q].ref \in Int /\ n.block[q].weak \in Int
        BY <1>4, MemoryFields, BlockFields
      <4>4. n.block[q].ref + n.block[q].weak > 0
        BY <4>2, <4>3
      <4>5. BlockKept(n.block[q], Cardinality(Hard(n, {}, q)), Cardinality(Weak(n, {}, q)))
        BY <2>3, <3>1, <4>2, <4>4 DEF BlockKept
      <4> QED
        BY <4>5 DEF BlockFits
    <3>3. CASE ~h.weak
      <4>2. /\ n.block[q].ref = Cardinality(Hard(n, {}, q)) /\ n.block[q].ref > 0
            /\ n.block[q].weak = Cardinality(Weak(n, {}, q)) /\ n.block[q].weak >= 0
        <5>1. n.block[q].ref = m.block[q].ref + 1 /\ n.block[q].weak = m.block[q].weak
          BY <1>2, <1>4, <2>5, <3>3
        <5>2. /\ Cardinality(Hard(n, {}, q)) = Cardinality(Hard(m, {p}, q)) + 1
              /\ Cardinality(Weak(n, {}, q)) = Cardinality(Weak(m, {p}, q))
          BY <1>5, <2>5, <3>3
        <5> QED
          BY <2>2, <3>1, <5>1, <5>2
      <4>3. n.block[q].ref \in Int /\ n.block[q].weak \in Int
        BY <1>4, MemoryFields, BlockFields
      <4>4. n.block[q].ref + n.block[q].weak > 0
        BY <4>2, <4>3
      <4>5. BlockKept(n.block[q], Cardinality(Hard(n, {}, q)), Cardinality(Weak(n, {}, q)))
        BY <2>3, <3>1, <4>2, <4>4 DEF BlockKept
      <4> QED
        BY <4>5 DEF BlockFits
    <3> QED
      BY <1>1, <3>2, <3>3
  <2> QED
    BY <2>4, <2>5
<1>7. \A q \in Objects : n.block[q].object # "live" => Target(n, q) = NULL
  <2>1. \A q \in Objects : q # p => n.handle[q] = m.handle[q]
    BY <1>1, <1>4, ObjectsArePlaces
  <2> QED
    BY <1>2, <1>4, <2>1 DEF Kept, Target
<1> QED
  BY <1>4, <1>6, <1>7 DEF Kept, n

(* An empty place need not be counted.                                     *)
LEMMA EmptyKeeps ==
  ASSUME NEW m, Kept(m, {}, {}), NEW p \in Places, Target(m, p) = NULL
  PROVE  Kept(m, {p}, {})
<1>1. m \in Memory
  BY DEF Kept
<1>2. \A q \in Objects : Target(m, p) # q
  BY ObjectsArePlaces
<1>3. \A q \in Objects : /\ Cardinality(Hard(m, {p}, q)) = Cardinality(Hard(m, {}, q))
                         /\ Cardinality(Weak(m, {p}, q)) = Cardinality(Weak(m, {}, q))
  <2>1. {} \cup {p} = {p} /\ p \notin {}
    OBVIOUS
  <2> QED
    BY <1>1, <1>2, <2>1, CountsDrop
<1> QED
  BY <1>3 DEF Kept, BlockFits

-----------------------------------------------------------------------------
(* Numbers.                                                                *)

(* Every set of numbers has a least one.                                   *)
LEMMA LeastNumber ==
  ASSUME NEW T, T \subseteq Nat, T # {}
  PROVE  \E least \in T : \A k \in T : least <= k
<1>1. \E R : IsWellFoundedOn(R, Nat) /\ \A y, x \in Nat : y < x => <<y, x>> \in R
  <2>1. \A y, x \in Nat : y < x => <<y, x>> \in OpToRel(<, Nat)
    BY DEF OpToRel
  <2> QED
    BY <2>1, NatLessThanWellFounded, Zenon
<1>2. PICK R : IsWellFoundedOn(R, Nat) /\ \A y, x \in Nat : y < x => <<y, x>> \in R
  BY <1>1, Zenon
<1>3. PICK x \in T : \A y \in T : ~(<<y, x>> \in R)
  <2>1. IsWellFoundedOn(R, Nat) /\ T \subseteq Nat /\ T # {}
    BY <1>2
  <2> QED
    BY ONLY <2>1, WFMin, Zenon
<1>4. ASSUME NEW k \in T PROVE x <= k
  <2>1. x \in Nat /\ k \in Nat
    OBVIOUS
  <2>2. ~(<<k, x>> \in R)
    BY <1>3, Zenon
  <2>3. ~(k < x)
    BY <1>2, <2>1, <2>2, Zenon
  <2> QED
    BY <2>1, <2>3
<1> QED
  BY <1>4

(* Induction, over the numbers in a set.                                   *)
LEMMA EveryNumber ==
  ASSUME NEW T, 0 \in T, \A n \in Nat : n \in T => n + 1 \in T
  PROVE  \A n \in Nat : n \in T
<1> DEFINE out == {n \in Nat : n \notin T}
<1> SUFFICES ASSUME out # {} PROVE FALSE
  OBVIOUS
<1>1. out \subseteq Nat
  OBVIOUS
<1> HIDE DEF out
<1>2. PICK least \in out : \A k \in out : least <= k
  BY <1>1, LeastNumber
<1>3. least \in Nat /\ least \notin T
  BY DEF out
<1>4. least # 0
  BY <1>3
<1>5. least - 1 \in Nat /\ (least - 1) + 1 = least /\ ~(least <= least - 1)
  BY <1>3, <1>4
<1>6. least - 1 \notin out
  BY <1>2, <1>5
<1>7. least - 1 \in T
  BY <1>5, <1>6 DEF out
<1> QED
  BY <1>3, <1>5, <1>7

Most == Cardinality(Objects)

LEMMA MostIsNumber == Most \in Nat
BY GraphAssumption, FS_CardinalityType DEF GraphAssumption, Most

-----------------------------------------------------------------------------
(* The calls within each other exist, and are one within the other.        *)

Outermost(m, p) == [place |-> p, memory |-> m]

IsCalls(m, p, top, f) ==
  f = [n \in 0 .. top |-> IF n = 0 THEN Outermost(m, p) ELSE Inner(f[n - 1])]

LEMMA CallsExist ==
  ASSUME NEW m, NEW p
  PROVE  \A top \in Nat : \E f : IsCalls(m, p, top, f)
<1> DEFINE T == {top \in Nat : \E f : IsCalls(m, p, top, f)}
<1>1. 0 \in T
  <2> DEFINE f == [n \in 0 .. 0 |-> Outermost(m, p)]
  <2>1. f = [n \in 0 .. 0 |-> IF n = 0 THEN Outermost(m, p) ELSE Inner(f[n - 1])]
    OBVIOUS
  <2>2. IsCalls(m, p, 0, f)
    BY <2>1, Zenon DEF IsCalls
  <2> QED
    BY <2>2
<1>2. ASSUME NEW top \in Nat, top \in T PROVE top + 1 \in T
  <2>1. PICK f : IsCalls(m, p, top, f)
    BY <1>2
  <2> DEFINE g == [n \in 0 .. top + 1 |-> IF n = top + 1 THEN Inner(f[top]) ELSE f[n]]
             h == [n \in 0 .. top + 1 |-> IF n = 0 THEN Outermost(m, p) ELSE Inner(g[n - 1])]
  <2>2. f = [n \in 0 .. top |-> IF n = 0 THEN Outermost(m, p) ELSE Inner(f[n - 1])]
    BY <2>1, Zenon DEF IsCalls
  <2>3. ASSUME NEW n \in 0 .. top + 1 PROVE g[n] = h[n]
    <3>1. CASE n = top + 1
      <4>1. n # 0 /\ n - 1 = top /\ top \in 0 .. top + 1 /\ top # top + 1
        BY <3>1
      <4>2. g[n] = Inner(f[top]) /\ g[top] = f[top]
        BY <3>1, <4>1
      <4>3. h[n] = Inner(g[top])
        BY <4>1
      <4> QED
        BY <4>2, <4>3
    <3>2. CASE n = 0
      <4>1. n \in 0 .. top /\ n # top + 1
        BY <3>2
      <4>2. g[n] = f[n] /\ f[n] = Outermost(m, p) /\ h[n] = Outermost(m, p)
        BY <2>2, <3>2, <4>1
      <4> QED
        BY <4>2
    <3>3. CASE n # top + 1 /\ n # 0
      <4>1. n \in 0 .. top /\ n - 1 \in 0 .. top + 1 /\ n - 1 # top + 1
        BY <3>3
      <4>2. g[n] = f[n] /\ g[n - 1] = f[n - 1]
        BY <3>3, <4>1
      <4>3. f[n] = Inner(f[n - 1])
        BY <2>2, <3>3, <4>1
      <4>4. h[n] = Inner(g[n - 1])
        BY <3>3
      <4> QED
        BY <4>2, <4>3, <4>4
    <3> QED
      BY <3>1, <3>2, <3>3
  <2>4. g = h
    BY <2>3
  <2>5. IsCalls(m, p, top + 1, g)
    BY <2>4, Zenon DEF IsCalls
  <2> QED
    BY <2>5
<1> HIDE DEF T
<1>3. \A n \in Nat : n \in T
  BY <1>1, <1>2, EveryNumber
<1> QED
  BY <1>3 DEF T

(* Each is of the handle in the object that the one around it deletes.     *)
IsChain(m, p, c) ==
  /\ c[0].place = p /\ c[0].memory = m
  /\ \A n \in Nat : n < Most =>
       /\ c[n + 1].place = Target(c[n].memory, c[n].place)
       /\ c[n + 1].memory = Destroying(c[n].memory, c[n].place)

LEMMA CallsAreChain ==
  ASSUME NEW m, NEW p
  PROVE  IsChain(m, p, Calls(m, p))
<1>1. Calls(m, p) = CHOOSE f : IsCalls(m, p, Most, f)
  BY Zenon DEF IsCalls, Calls, Most, Outermost
<1>2. \E f : IsCalls(m, p, Most, f)
  BY CallsExist, MostIsNumber
<1>3. IsCalls(m, p, Most, Calls(m, p))
  BY <1>1, <1>2, Zenon
<1> DEFINE f == Calls(m, p)
<1>4. f = [n \in 0 .. Most |-> IF n = 0 THEN Outermost(m, p) ELSE Inner(f[n - 1])]
  BY <1>3, Zenon DEF IsCalls
<1> HIDE DEF f
<1>5. f[0] = Outermost(m, p)
  BY <1>4, MostIsNumber
<1>6. ASSUME NEW n \in Nat, n < Most PROVE f[n + 1] = Inner(f[n])
  <2>1. n + 1 \in 0 .. Most /\ n + 1 # 0 /\ (n + 1) - 1 = n
    BY <1>6, MostIsNumber
  <2> QED
    BY <1>4, <2>1
<1>7. f[0].place = p /\ f[0].memory = m
  BY <1>5 DEF Outermost
<1>8. ASSUME NEW n \in Nat, n < Most
      PROVE  /\ f[n + 1].place = Target(f[n].memory, f[n].place)
             /\ f[n + 1].memory = Destroying(f[n].memory, f[n].place)
  <2>1. f[n + 1] = [place |-> Target(f[n].memory, f[n].place),
                    memory |-> Destroying(f[n].memory, f[n].place)]
    BY <1>6, <1>8, Zenon DEF Inner
  <2> QED
    BY <2>1
<1>9. IsChain(m, p, f)
  BY <1>7, <1>8, Zenon DEF IsChain
<1> QED
  BY <1>9 DEF f

(* The calls return in the same way.                                       *)
IsReturns(c, d, top, f) ==
  f = [n \in 0 .. top |-> IF n = 0 THEN Released(c[d].memory, c[d].place)
                          ELSE Resumed(f[n - 1], c[d + 1 - n].place)]

LEMMA ReturnsExist ==
  ASSUME NEW c, NEW d
  PROVE  \A top \in Nat : \E f : IsReturns(c, d, top, f)
<1> DEFINE T == {top \in Nat : \E f : IsReturns(c, d, top, f)}
           first == Released(c[d].memory, c[d].place)
<1>1. 0 \in T
  <2> DEFINE f == [n \in 0 .. 0 |-> first]
  <2>1. f = [n \in 0 .. 0 |-> IF n = 0 THEN first ELSE Resumed(f[n - 1], c[d + 1 - n].place)]
    OBVIOUS
  <2>2. IsReturns(c, d, 0, f)
    BY <2>1, Zenon DEF IsReturns
  <2> QED
    BY <2>2
<1>2. ASSUME NEW top \in Nat, top \in T PROVE top + 1 \in T
  <2>1. PICK f : IsReturns(c, d, top, f)
    BY <1>2
  <2> DEFINE last == Resumed(f[top], c[d + 1 - (top + 1)].place)
             g == [n \in 0 .. top + 1 |-> IF n = top + 1 THEN last ELSE f[n]]
             h == [n \in 0 .. top + 1 |->
                     IF n = 0 THEN first ELSE Resumed(g[n - 1], c[d + 1 - n].place)]
  <2>2. f = [n \in 0 .. top |-> IF n = 0 THEN first ELSE Resumed(f[n - 1], c[d + 1 - n].place)]
    BY <2>1, Zenon DEF IsReturns
  <2> HIDE DEF first
  <2>3. ASSUME NEW n \in 0 .. top + 1 PROVE g[n] = h[n]
    <3>1. CASE n = top + 1
      <4>1. n # 0 /\ n - 1 = top /\ top \in 0 .. top + 1 /\ top # top + 1
        BY <3>1
      <4>2. g[n] = last /\ g[top] = f[top]
        BY <3>1, <4>1
      <4>3. h[n] = Resumed(g[n - 1], c[d + 1 - n].place)
        BY <4>1
      <4>4. h[n] = Resumed(g[top], c[d + 1 - (top + 1)].place)
        BY <3>1, <4>1, <4>3
      <4> QED
        BY <4>2, <4>4, Zenon
    <3>2. CASE n = 0
      <4>1. n \in 0 .. top /\ n # top + 1
        BY <3>2
      <4>2. g[n] = f[n] /\ f[n] = first /\ h[n] = first
        BY <2>2, <3>2, <4>1
      <4> QED
        BY <4>2
    <3>3. CASE n # top + 1 /\ n # 0
      <4>1. n \in 0 .. top /\ n - 1 \in 0 .. top + 1 /\ n - 1 # top + 1
        BY <3>3
      <4>2. g[n] = f[n] /\ g[n - 1] = f[n - 1]
        BY <3>3, <4>1
      <4>3. f[n] = Resumed(f[n - 1], c[d + 1 - n].place)
        BY <2>2, <3>3, <4>1
      <4>4. h[n] = Resumed(g[n - 1], c[d + 1 - n].place)
        BY <3>3
      <4> QED
        BY <4>2, <4>3, <4>4, Zenon
    <3> QED
      BY <3>1, <3>2, <3>3
  <2>4. g = h
    BY <2>3
  <2>5. IsReturns(c, d, top + 1, g)
    BY <2>4, Zenon DEF IsReturns, first
  <2> QED
    BY <2>5
<1> HIDE DEF T
<1>3. \A n \in Nat : n \in T
  BY <1>1, <1>2, EveryNumber
<1> QED
  BY <1>3 DEF T

IsReturn(c, d, r) ==
  /\ r[0] = Released(c[d].memory, c[d].place)
  /\ \A n \in Nat : n < d => r[n + 1] = Resumed(r[n], c[d - n].place)

LEMMA ReturnsAreReturn ==
  ASSUME NEW c, NEW d \in 0 .. Most
  PROVE  IsReturn(c, d, Returns(c, d))
<1>1. Returns(c, d) = CHOOSE f : IsReturns(c, d, Most, f)
  BY Zenon DEF IsReturns, Returns, Most
<1>2. \E f : IsReturns(c, d, Most, f)
  BY ReturnsExist, MostIsNumber
<1>3. IsReturns(c, d, Most, Returns(c, d))
  BY <1>1, <1>2, Zenon
<1> DEFINE f == Returns(c, d)
<1>4. f = [n \in 0 .. Most |-> IF n = 0 THEN Released(c[d].memory, c[d].place)
                               ELSE Resumed(f[n - 1], c[d + 1 - n].place)]
  BY <1>3, Zenon DEF IsReturns
<1> HIDE DEF f
<1>5. f[0] = Released(c[d].memory, c[d].place)
  BY <1>4, MostIsNumber
<1>6. ASSUME NEW n \in Nat, n < d PROVE f[n + 1] = Resumed(f[n], c[d - n].place)
  <2>1. n + 1 \in 0 .. Most /\ n + 1 # 0 /\ (n + 1) - 1 = n /\ d + 1 - (n + 1) = d - n
    BY <1>6, MostIsNumber
  <2>2. f[n + 1] = Resumed(f[(n + 1) - 1], c[d + 1 - (n + 1)].place)
    BY <1>4, <2>1
  <2> QED
    BY <2>1, <2>2
<1> QED
  BY <1>5, <1>6 DEF f, IsReturn

-----------------------------------------------------------------------------
(* How far the calls go.                                                   *)

Deletes(c, n) == IsLast(c[n].memory, c[n].place)
Reaches(c, n) == \A i \in Nat : i < n => Deletes(c, i)

(* The handles that are counted down and the objects that are being        *)
(* deleted when call n begins.                                             *)
CountedDown(c, n) == {c[i].place : i \in {i \in Nat : i < n}}
Dying(c, n) == {c[i].place : i \in {i \in Nat : 0 < i /\ i <= n}}

LEMMA FirstSets ==
  ASSUME NEW c
  PROVE  CountedDown(c, 0) = {} /\ Dying(c, 0) = {} /\ CountedDown(c, 1) = {c[0].place}
<1>1. {i \in Nat : i < 0} = {} /\ {i \in Nat : 0 < i /\ i <= 0} = {} /\ {i \in Nat : i < 1} = {0}
  OBVIOUS
<1> QED
  BY <1>1 DEF CountedDown, Dying

LEMMA NextSets ==
  ASSUME NEW c, NEW n \in Nat
  PROVE  /\ CountedDown(c, n + 1) = CountedDown(c, n) \cup {c[n].place}
         /\ Dying(c, n + 1) = Dying(c, n) \cup {c[n + 1].place}
<1>1. /\ {i \in Nat : i < n + 1} = {i \in Nat : i < n} \cup {n}
      /\ {i \in Nat : 0 < i /\ i <= n + 1} = {i \in Nat : 0 < i /\ i <= n} \cup {n + 1}
  OBVIOUS
<1> QED
  BY <1>1 DEF CountedDown, Dying

LEMMA ReachesBefore ==
  ASSUME NEW c, NEW n \in Nat, Reaches(c, n + 1)
  PROVE  Reaches(c, n) /\ Deletes(c, n)
BY DEF Reaches

(* In any memory: the objects of the calls are different ones, for they    *)
(* have no hard handle left.                                               *)
CallBegins(m, c, n) ==
  /\ c[n].memory \in Memory /\ c[n].place \in Places
  /\ c[n].memory.handle = m.handle /\ c[n].memory.fault = m.fault
  /\ \A o \in Objects : c[n].memory.block[o].object = m.block[o].object
  /\ Dying(c, n) \subseteq Objects
  /\ \A o \in Dying(c, n) : c[n].memory.block[o].ref = 0
  /\ IsFiniteSet(Dying(c, n)) /\ Cardinality(Dying(c, n)) = n

LEMMA NextCallBegins ==
  ASSUME NEW m \in Memory, NEW p \in Places, NEW c, IsChain(m, p, c),
         NEW n \in Nat, n < Most, CallBegins(m, c, n), Deletes(c, n)
  PROVE  /\ CallBegins(m, c, n + 1)
         /\ c[n + 1].place \in Objects /\ c[n + 1].place \notin Dying(c, n)
<1> DEFINE a == c[n].memory
           q == c[n].place
           t == c[n + 1].place
           b == c[n + 1].memory
<1>1. t = Target(a, q) /\ b = Destroying(a, q)
  BY DEF IsChain
<1>2. /\ a \in Memory /\ q \in Places
      /\ a.handle = m.handle /\ a.fault = m.fault
      /\ \A o \in Objects : a.block[o].object = m.block[o].object
      /\ Dying(c, n) \subseteq Objects
      /\ \A o \in Dying(c, n) : a.block[o].ref = 0
      /\ IsFiniteSet(Dying(c, n)) /\ Cardinality(Dying(c, n)) = n
  BY DEF CallBegins
<1>3. t \in Objects /\ ~a.handle[q].weak /\ a.block[t].ref = 1
  BY <1>1, <1>2, MemoryFields DEF Deletes, IsLast
<1>4. t \notin Dying(c, n)
  BY <1>2, <1>3
<1>5. Dying(c, n + 1) = Dying(c, n) \cup {t}
  BY NextSets
<1> HIDE DEF a, q, t, b
<1>6. /\ b \in Memory /\ b.handle = a.handle /\ b.fault = a.fault
      /\ \A o \in Objects : /\ b.block[o].object = a.block[o].object
                            /\ b.block[o].ref = IF t = o THEN a.block[o].ref - 1 ELSE a.block[o].ref
  BY <1>1, <1>2, <1>3, DestroyingFields
<1>7. t \in Places
  BY <1>3, ObjectsArePlaces
<1>8. \A o \in Dying(c, n + 1) : b.block[o].ref = 0
  BY <1>2, <1>3, <1>4, <1>5, <1>6
<1>9. IsFiniteSet(Dying(c, n + 1)) /\ Cardinality(Dying(c, n + 1)) = n + 1
  BY <1>2, <1>4, <1>5, FS_AddElement
<1>10. Dying(c, n + 1) \subseteq Objects
  BY <1>2, <1>3, <1>5
<1>11. CallBegins(m, c, n + 1)
  <2>1. \A o \in Objects : b.block[o].object = m.block[o].object
    BY <1>2, <1>6
  <2> QED
    BY <1>2, <1>6, <1>7, <1>8, <1>9, <1>10, <2>1 DEF CallBegins, t, b
<1> QED
  BY <1>3, <1>4, <1>11 DEF t

LEMMA CallsBegin ==
  ASSUME NEW m \in Memory, NEW p \in Places, NEW c, IsChain(m, p, c)
  PROVE  \A n \in Nat : n <= Most /\ Reaches(c, n) => CallBegins(m, c, n)
<1> DEFINE T == {n \in Nat : n <= Most /\ Reaches(c, n) => CallBegins(m, c, n)}
<1>1. 0 \in T
  <2>1. c[0].place = p /\ c[0].memory = m
    BY DEF IsChain
  <2>2. Dying(c, 0) = {} /\ IsFiniteSet({}) /\ Cardinality({}) = 0
    BY FirstSets, FS_EmptySet
  <2> QED
    BY <2>1, <2>2 DEF CallBegins
<1>2. ASSUME NEW n \in Nat, n \in T PROVE n + 1 \in T
  <2> SUFFICES ASSUME n + 1 <= Most, Reaches(c, n + 1) PROVE CallBegins(m, c, n + 1)
    OBVIOUS
  <2>1. n < Most /\ n <= Most
    BY MostIsNumber
  <2>2. Reaches(c, n) /\ Deletes(c, n)
    BY ReachesBefore
  <2>3. CallBegins(m, c, n)
    BY <1>2, <2>1, <2>2
  <2> QED
    BY <2>1, <2>2, <2>3, NextCallBegins
<1> HIDE DEF T
<1>3. \A n \in Nat : n \in T
  BY <1>1, <1>2, EveryNumber
<1> QED
  BY <1>3 DEF T

(* There are no more calls than objects: one of them deletes nothing.      *)
LEMMA DepthIs ==
  ASSUME NEW m \in Memory, NEW p \in Places, NEW c, IsChain(m, p, c)
  PROVE  /\ Depth(c) \in Nat /\ Depth(c) <= Most
         /\ ~Deletes(c, Depth(c)) /\ Reaches(c, Depth(c))
<1> DEFINE T == {n \in Nat : n <= Most /\ ~Deletes(c, n)}
<1>1. T # {}
  <2> SUFFICES ASSUME T = {} PROVE FALSE
    OBVIOUS
  <2>1. \A n \in Nat : n <= Most => Deletes(c, n)
    OBVIOUS
  <2>2. Reaches(c, Most) /\ Deletes(c, Most) /\ Most \in Nat /\ Most <= Most
    <3>1. Most \in Nat /\ Most <= Most
      BY MostIsNumber
    <3>2. \A i \in Nat : i < Most => i <= Most
      BY <3>1
    <3> QED
      BY <2>1, <3>1, <3>2 DEF Reaches
  <2>3. CallBegins(m, c, Most)
    BY <2>2, CallsBegin
  <2>4. Dying(c, Most) = Objects
    <3>1. IsFiniteSet(Objects) /\ Dying(c, Most) \subseteq Objects /\ Cardinality(Dying(c, Most)) = Cardinality(Objects)
      BY <2>3, GraphAssumption DEF CallBegins, GraphAssumption, Most
    <3> QED
      BY <3>1, FS_Subset
  <2> DEFINE a == c[Most].memory
             q == c[Most].place
  <2>5. Target(a, q) \in Objects /\ a.block[Target(a, q)].ref = 1
    <3>1. a \in Memory /\ q \in Places
      BY <2>3 DEF CallBegins
    <3> QED
      BY <2>2, <3>1, MemoryFields DEF Deletes, IsLast
  <2>6. a.block[Target(a, q)].ref = 0
    BY <2>3, <2>4, <2>5 DEF CallBegins
  <2> QED
    BY <2>5, <2>6
<1>2. PICK least \in T : \A k \in T : least <= k
  <2> HIDE DEF T
  <2>1. T \subseteq Nat
    BY DEF T
  <2> QED
    BY <1>1, <2>1, LeastNumber
<1>3. least \in Nat /\ least <= Most /\ ~Deletes(c, least)
  OBVIOUS
<1>4. Reaches(c, least)
  <2> SUFFICES ASSUME NEW i \in Nat, i < least PROVE Deletes(c, i)
    BY DEF Reaches
  <2>1. i <= Most /\ ~(least <= i)
    BY <1>3, MostIsNumber
  <2>2. i \notin T
    BY <1>2, <2>1
  <2> QED
    BY <2>1, <2>2
<1> DEFINE Stops(n) == /\ ~IsLast(c[n].memory, c[n].place)
                       /\ \A i \in 0 .. n - 1 : IsLast(c[i].memory, c[i].place)
<1>5. Depth(c) = CHOOSE n \in 0 .. Most : Stops(n)
  BY Zenon DEF Depth, Most
<1>6. Stops(least) /\ least \in 0 .. Most
  <2>1. least \in 0 .. Most
    BY <1>3, MostIsNumber
  <2>2. \A i \in 0 .. least - 1 : i \in Nat /\ i < least
    BY <1>3
  <2> QED
    BY <1>3, <1>4, <2>1, <2>2 DEF Deletes, Reaches
<1> HIDE DEF Stops, T
<1>7. Depth(c) \in 0 .. Most /\ Stops(Depth(c))
  BY <1>5, <1>6, Zenon
<1>8. Depth(c) \in Nat /\ Depth(c) <= Most
  BY <1>7, MostIsNumber
<1>9. \A i \in Nat : i < Depth(c) => i \in 0 .. Depth(c) - 1
  BY <1>8
<1>10. ~Deletes(c, Depth(c)) /\ \A i \in 0 .. Depth(c) - 1 : Deletes(c, i)
  BY <1>7, Zenon DEF Stops, Deletes
<1> QED
  BY <1>8, <1>9, <1>10 DEF Reaches

(* However the counters are: the destructors that run inside each other    *)
(* come to an end, after at most as many deletions as there are objects,   *)
(* and the last of them deletes nothing (Rc.h:74).                         *)
THEOREM DestructorsEnd ==
  ASSUME NEW m \in Memory, NEW p \in Places
  PROVE  /\ Depth(Calls(m, p)) \in 0 .. Cardinality(Objects)
         /\ ~IsLast(Calls(m, p)[Depth(Calls(m, p))].memory, Calls(m, p)[Depth(Calls(m, p))].place)
         /\ \A i \in 0 .. Depth(Calls(m, p)) - 1 : IsLast(Calls(m, p)[i].memory, Calls(m, p)[i].place)
<1> DEFINE c == Calls(m, p)
<1>1. IsChain(m, p, c)
  BY CallsAreChain
<1> HIDE DEF c
<1>2. Depth(c) \in Nat /\ Depth(c) <= Most /\ ~Deletes(c, Depth(c)) /\ Reaches(c, Depth(c))
  BY <1>1, DepthIs
<1>3. Depth(c) \in 0 .. Cardinality(Objects)
  BY <1>2, MostIsNumber DEF Most
<1>4. \A i \in 0 .. Depth(c) - 1 : i \in Nat /\ i < Depth(c)
  BY <1>2
<1> QED
  BY <1>2, <1>3, <1>4 DEF Deletes, Reaches, c

-----------------------------------------------------------------------------
(* What a handle alone keeps, in any memory.                               *)

ClosedIn(m, h, S) ==
  \A o \in Objects :
    OwnersOf(m, o) # {} /\ OwnersOf(m, o) \subseteq {h} \cup S => o \in S

KeptIn(m, h) ==
  {o \in Objects : \A S \in {S \in SUBSET Objects : ClosedIn(m, h, S)} : o \in S}

LEMMA KeptByIsKeptIn == ASSUME NEW h PROVE KeptBy(h) = KeptIn(memory, h)
BY Zenon DEF KeptBy, KeptIn, ClosedIn

(* When a call begins, from a memory in which the counters are right.      *)
CallKeeps(m, p, c, n) ==
  /\ Kept(c[n].memory, CountedDown(c, n), Dying(c, n))
  /\ \A q \in CountedDown(c, n) : Target(m, q) \in Dying(c, n)
  /\ \A q \in CountedDown(c, n) : q = p \/ q \in Dying(c, n)
  /\ c[n].place = p \/ c[n].place \in Dying(c, n)
  /\ \A o \in Dying(c, n) : m.block[o].object = "live"
  /\ \A S \in SUBSET Objects : ClosedIn(m, p, S) => Dying(c, n) \subseteq S

LEMMA NextCallKeeps ==
  ASSUME NEW m \in Memory, NEW p \in Places, NEW c, IsChain(m, p, c),
         NEW n \in Nat, n < Most, CallBegins(m, c, n), Deletes(c, n), CallKeeps(m, p, c, n)
  PROVE  CallKeeps(m, p, c, n + 1)
<1> DEFINE a == c[n].memory
           q == c[n].place
           t == c[n + 1].place
           b == c[n + 1].memory
           D == CountedDown(c, n)
           L == Dying(c, n)
<1>1. t = Target(a, q) /\ b = Destroying(a, q)
  BY DEF IsChain
<1>2. /\ a \in Memory /\ q \in Places /\ a.handle = m.handle
      /\ \A o \in Objects : a.block[o].object = m.block[o].object
      /\ L \subseteq Objects
      /\ \A o \in L : a.block[o].ref = 0
  BY DEF CallBegins
<1>3. IsLast(a, q)
  BY DEF Deletes
<1>4. /\ Kept(a, D, L)
      /\ \A r \in D : Target(m, r) \in L
      /\ \A r \in D : r = p \/ r \in L
      /\ q = p \/ q \in L
      /\ \A o \in L : m.block[o].object = "live"
      /\ \A S \in SUBSET Objects : ClosedIn(m, p, S) => L \subseteq S
  BY DEF CallKeeps
<1>5. CountedDown(c, n + 1) = D \cup {q} /\ Dying(c, n + 1) = L \cup {t}
  BY NextSets
<1> HIDE DEF a, q, t, b, D, L
<1>6. \A r : Target(a, r) = Target(m, r)
  BY <1>2 DEF Target
<1>7. q \notin D
  <2> SUFFICES ASSUME q \in D PROVE FALSE
    OBVIOUS
  <2>1. t \in L
    BY <1>1, <1>4, <1>6
  <2>2. a.block[t].ref = 0
    BY <1>2, <2>1
  <2>3. a.block[t].ref = 1
    BY <1>1, <1>3 DEF IsLast
  <2> QED
    BY <2>2, <2>3
<1>8. /\ t \in Objects /\ t \notin L /\ a.block[t].object = "live"
      /\ Hard(a, D, t) = {q}
      /\ Kept(b, D \cup {q}, L \cup {t})
  <2>1. /\ Target(a, q) \in Objects /\ Target(a, q) \notin L
        /\ a.block[Target(a, q)].object = "live"
        /\ Hard(a, D, Target(a, q)) = {q}
        /\ Kept(Destroying(a, q), D \cup {q}, L \cup {Target(a, q)})
    BY <1>2, <1>3, <1>4, <1>7, DestroyingKeeps
  <2> QED
    BY <1>1, <2>1
<1>9. OwnersOf(m, t) = {q}
  <2>1. OwnersOf(m, t) = OwnersOf(a, t)
    BY <1>2 DEF OwnersOf, Target
  <2>2. ASSUME NEW r \in OwnersOf(a, t) PROVE r \notin D
    <3>1. Target(m, r) = t
      BY <1>6 DEF OwnersOf
    <3> QED
      BY <1>4, <1>8, <3>1
  <2> QED
    BY <1>8, <2>1, <2>2 DEF Hard
<1>10. ASSUME NEW S \in SUBSET Objects, ClosedIn(m, p, S) PROVE L \cup {t} \subseteq S
  <2>1. L \subseteq S
    BY <1>4, <1>10
  <2>2. OwnersOf(m, t) # {} /\ OwnersOf(m, t) \subseteq {p} \cup S
    BY <1>4, <1>9, <2>1
  <2>3. t \in S
    BY <1>8, <1>10, <2>2 DEF ClosedIn
  <2> QED
    BY <2>1, <2>3
<1>11. \A r \in D \cup {q} : Target(m, r) \in L \cup {t}
  BY <1>1, <1>4, <1>6
<1>12. \A r \in D \cup {q} : r = p \/ r \in L \cup {t}
  BY <1>4
<1>13. \A o \in L \cup {t} : m.block[o].object = "live"
  BY <1>2, <1>4, <1>8
<1>14. c[n + 1].memory = b /\ c[n + 1].place = t
  BY DEF b, t
<1> QED
  BY <1>5, <1>8, <1>10, <1>11, <1>12, <1>13, <1>14 DEF CallKeeps

LEMMA CallsKeep ==
  ASSUME NEW m, Kept(m, {}, {}), NEW p \in Places, NEW c, IsChain(m, p, c)
  PROVE  \A n \in Nat : n <= Most /\ Reaches(c, n) => CallBegins(m, c, n) /\ CallKeeps(m, p, c, n)
<1> DEFINE T == {n \in Nat : n <= Most /\ Reaches(c, n) => CallKeeps(m, p, c, n)}
<1>1. m \in Memory
  BY DEF Kept
<1>2. \A n \in Nat : n <= Most /\ Reaches(c, n) => CallBegins(m, c, n)
  BY <1>1, CallsBegin
<1>3. 0 \in T
  <2>1. c[0].place = p /\ c[0].memory = m
    BY DEF IsChain
  <2>2. CountedDown(c, 0) = {} /\ Dying(c, 0) = {}
    BY FirstSets
  <2> QED
    BY <2>1, <2>2 DEF CallKeeps
<1>4. ASSUME NEW n \in Nat, n \in T PROVE n + 1 \in T
  <2> SUFFICES ASSUME n + 1 <= Most, Reaches(c, n + 1) PROVE CallKeeps(m, p, c, n + 1)
    OBVIOUS
  <2>1. n < Most /\ n <= Most
    BY MostIsNumber
  <2>2. Reaches(c, n) /\ Deletes(c, n)
    BY ReachesBefore
  <2>3. CallKeeps(m, p, c, n) /\ CallBegins(m, c, n)
    BY <1>2, <1>4, <2>1, <2>2
  <2> QED
    BY <1>1, <2>1, <2>2, <2>3, NextCallKeeps
<1> HIDE DEF T
<1>5. \A n \in Nat : n \in T
  BY <1>3, <1>4, EveryNumber
<1> QED
  BY <1>2, <1>5 DEF T

(* The objects that are deleted are those that the handle alone kept.      *)
LEMMA DyingIsKept ==
  ASSUME NEW m, Kept(m, {}, {}), NEW p \in Places, NEW c, IsChain(m, p, c)
  PROVE  Dying(c, Depth(c)) = KeptIn(m, p)
<1> DEFINE d == Depth(c)
           a == c[d].memory
           q == c[d].place
           D == CountedDown(c, d)
           L == Dying(c, d)
<1>1. m \in Memory
  BY DEF Kept
<1>2. d \in Nat /\ d <= Most /\ ~IsLast(a, q) /\ Reaches(c, d)
  BY <1>1, DepthIs DEF Deletes
<1>3. CallBegins(m, c, d) /\ CallKeeps(m, p, c, d)
  BY <1>2, CallsKeep
<1>4. /\ a \in Memory /\ q \in Places /\ a.handle = m.handle /\ L \subseteq Objects
  BY <1>3 DEF CallBegins
<1>5. /\ Kept(a, D, L)
      /\ \A r \in D : Target(m, r) \in L
      /\ \A S \in SUBSET Objects : ClosedIn(m, p, S) => L \subseteq S
  BY <1>3 DEF CallKeeps
<1>6. \A r : r = p \/ r \in L => r \in D \/ r = q
  <2>1. ASSUME NEW i \in Nat, i <= d PROVE c[i].place \in D \/ c[i].place = q
    <3>1. CASE i = d
      BY <3>1
    <3>2. CASE i # d
      <4>1. i < d
        BY <1>2, <2>1, <3>2
      <4> QED
        BY <4>1 DEF CountedDown
    <3> QED
      BY <3>1, <3>2
  <2>2. c[0].place = p /\ 0 <= d
    BY <1>2 DEF IsChain
  <2>3. \A r \in L : \E i \in Nat : i <= d /\ r = c[i].place
    BY DEF Dying
  <2> HIDE DEF d, D, L, q
  <2> QED
    BY <2>1, <2>2, <2>3
<1> HIDE DEF a, q, D, L
<1>7. ClosedIn(m, p, L)
  <2> SUFFICES ASSUME NEW o \in Objects, OwnersOf(m, o) # {}, OwnersOf(m, o) \subseteq {p} \cup L,
                      o \notin L
               PROVE  FALSE
    BY DEF ClosedIn
  <2>1. ASSUME NEW r \in OwnersOf(m, o) PROVE r = q /\ q \notin D
    <3>1. r \in D \/ r = q
      BY <1>6
    <3>2. Target(m, r) = o
      BY DEF OwnersOf
    <3>3. r \notin D
      BY <1>5, <3>2
    <3> QED
      BY <3>1, <3>3
  <2>2. OwnersOf(m, o) = {q} /\ q \notin D
    BY <2>1
  <2>3. OwnersOf(a, o) = {q}
    BY <1>4, <2>2 DEF OwnersOf, Target
  <2>4. Target(a, q) = o /\ ~a.handle[q].weak
    <3>1. q \in OwnersOf(a, o)
      BY <2>3
    <3> QED
      BY <3>1 DEF OwnersOf
  <2>5. Hard(a, D, o) = {q}
    BY <2>2, <2>3 DEF Hard
  <2>6. a.block[o].ref = 1
    <3>1. BlockKept(a.block[o], Cardinality(Hard(a, D, o)), Cardinality(Weak(a, D, o)))
      BY <1>5 DEF Kept, BlockFits
    <3>2. Cardinality(Hard(a, D, o)) = 1
      BY <2>5, FS_Singleton
    <3> QED
      BY <3>1, <3>2 DEF BlockKept
  <2>7. a.block[o].cells = "live" /\ o # NULL
    BY <1>4, <1>5, <2>2, <2>4, KeptHandle, ObjectsArePlaces
  <2>8. IsLast(a, q)
    BY <2>4, <2>6, <2>7 DEF IsLast, Dangles
  <2> QED
    BY <1>2, <2>8
<1>8. L = KeptIn(m, p)
  <2>1. \A o \in L : o \in KeptIn(m, p)
    BY <1>4, <1>5 DEF KeptIn
  <2>2. \A o \in KeptIn(m, p) : o \in L
    BY <1>4, <1>7 DEF KeptIn
  <2>3. KeptIn(m, p) \subseteq Objects
    BY DEF KeptIn
  <2> QED
    BY <2>1, <2>2
<1> QED
  BY <1>8 DEF L

-----------------------------------------------------------------------------
(* The calls return.                                                       *)

LEMMA CountedIsDying ==
  ASSUME NEW c, NEW n \in Nat
  PROVE  CountedDown(c, n + 1) = {c[0].place} \cup Dying(c, n)
<1>1. {i \in Nat : i < n + 1} = {0} \cup {i \in Nat : 0 < i /\ i <= n}
  OBVIOUS
<1> QED
  BY <1>1 DEF CountedDown, Dying

(* The object of a call that returns is none of those around it.           *)
LEMMA ObjectOfCall ==
  ASSUME NEW m \in Memory, NEW p \in Places, NEW c, IsChain(m, p, c),
         NEW n \in Nat, n + 1 <= Depth(c)
  PROVE  /\ c[n + 1].place \in Objects
         /\ c[n + 1].place \notin Dying(c, n)
         /\ c[n + 1].place \in Dying(c, Depth(c))
         /\ Dying(c, n + 1) = Dying(c, n) \cup {c[n + 1].place}
         /\ Dying(c, n) \subseteq Dying(c, Depth(c))
<1> DEFINE d == Depth(c)
<1>1. d \in Nat /\ d <= Most /\ Reaches(c, d)
  BY DepthIs
<1> HIDE DEF d
<1>2. n < d /\ n < Most /\ n <= Most
  BY <1>1, MostIsNumber DEF d
<1>3. Reaches(c, n) /\ Deletes(c, n)
  BY <1>1, <1>2 DEF Reaches
<1>4. CallBegins(m, c, n)
  BY <1>2, <1>3, CallsBegin
<1>5. c[n + 1].place \in Objects /\ c[n + 1].place \notin Dying(c, n)
  BY <1>2, <1>3, <1>4, NextCallBegins
<1>6. Dying(c, n + 1) = Dying(c, n) \cup {c[n + 1].place}
  BY NextSets
<1>7. Dying(c, n + 1) \subseteq Dying(c, d)
  <2>1. \A i \in Nat : i <= n + 1 => i <= d
    BY <1>1, <1>2
  <2> QED
    BY <2>1 DEF Dying
<1> QED
  BY <1>5, <1>6, <1>7 DEF d

(* What each call that returns leaves, in any memory.                      *)
CallReturns(m, c, r, n) ==
  LET gone == Dying(c, Depth(c)) \ Dying(c, Depth(c) - n) IN
  /\ r[n] \in Memory
  /\ m.fault = TRUE => r[n].fault = TRUE
  /\ \A o \in Objects :
       /\ o \in gone => r[n].block[o].object = "deleted"
       /\ o \notin gone => r[n].block[o].object = m.block[o].object
  /\ \A q \in Places :
       /\ q \in gone => r[n].handle[q] = NoHandle
       /\ q \notin gone => r[n].handle[q] = m.handle[q]

LEMMA CallsReturn ==
  ASSUME NEW m \in Memory, NEW p \in Places, NEW c, IsChain(m, p, c),
         NEW r, IsReturn(c, Depth(c), r)
  PROVE  \A n \in Nat : n <= Depth(c) => CallReturns(m, c, r, n)
<1> DEFINE d == Depth(c)
           T == {n \in Nat : n <= d => CallReturns(m, c, r, n)}
<1>1. d \in Nat /\ d <= Most /\ Reaches(c, d)
  BY DepthIs
<1>2. 0 \in T
  <2> DEFINE a == c[d].memory
             q == c[d].place
  <2>1. /\ a \in Memory /\ q \in Places /\ a.handle = m.handle /\ a.fault = m.fault
        /\ \A o \in Objects : a.block[o].object = m.block[o].object
    BY <1>1, CallsBegin DEF CallBegins
  <2>2. r[0] = Released(a, q)
    BY DEF IsReturn
  <2>3. Dying(c, d) \ Dying(c, d - 0) = {}
    BY <1>1
  <2> HIDE DEF a, q, d
  <2>4. /\ r[0] \in Memory /\ (a.fault = TRUE => r[0].fault = TRUE)
        /\ r[0].handle = a.handle
        /\ \A o \in Objects : r[0].block[o].object = a.block[o].object
    <3> DEFINE e == Released(a, q)
    <3>1. /\ e \in Memory /\ (a.fault = TRUE => e.fault = TRUE)
          /\ e.handle = a.handle
          /\ \A o \in Objects : e.block[o].object = a.block[o].object
      BY <2>1, ReleasedFields
    <3> QED
      BY <2>2, <3>1, Zenon
  <2> QED
    BY <2>1, <2>3, <2>4 DEF CallReturns, d
<1>3. ASSUME NEW n \in Nat, n \in T PROVE n + 1 \in T
  <2> SUFFICES ASSUME n + 1 <= d PROVE CallReturns(m, c, r, n + 1)
    OBVIOUS
  <2> DEFINE k == d - (n + 1)
             o == c[d - n].place
             old == Dying(c, d) \ Dying(c, d - n)
             new == Dying(c, d) \ Dying(c, d - (n + 1))
  <2>1. k \in Nat /\ k + 1 = d - n /\ k + 1 <= d /\ n < d /\ n <= d
    BY <1>1
  <2>2. CallReturns(m, c, r, n)
    BY <1>3, <2>1
  <2>3. r[n + 1] = Resumed(r[n], o)
    BY <2>1 DEF IsReturn
  <2>4. o \in Objects /\ o \notin Dying(c, k) /\ o \in Dying(c, d)
        /\ Dying(c, d - n) = Dying(c, k) \cup {o}
    <3>1. /\ c[k + 1].place \in Objects /\ c[k + 1].place \notin Dying(c, k)
          /\ c[k + 1].place \in Dying(c, Depth(c))
          /\ Dying(c, k + 1) = Dying(c, k) \cup {c[k + 1].place}
      <4> HIDE DEF k, d
      <4>1. k + 1 <= Depth(c)
        BY <2>1 DEF d
      <4> QED
        BY <2>1, <4>1, ObjectOfCall
    <3> HIDE DEF k
    <3> QED
      BY <2>1, <3>1
  <2>5. new = old \cup {o}
    BY <2>4
  <2>6. /\ r[n] \in Memory
        /\ m.fault = TRUE => r[n].fault = TRUE
        /\ \A q \in Objects :
             /\ q \in old => r[n].block[q].object = "deleted"
             /\ q \notin old => r[n].block[q].object = m.block[q].object
        /\ \A q \in Places :
             /\ q \in old => r[n].handle[q] = NoHandle
             /\ q \notin old => r[n].handle[q] = m.handle[q]
    BY <2>2, Zenon DEF CallReturns
  <2> HIDE DEF o, k, d, old, new
  <2>7. /\ r[n + 1] \in Memory
        /\ r[n].fault = TRUE => r[n + 1].fault = TRUE
        /\ r[n + 1].handle = [r[n].handle EXCEPT ![o] = NoHandle]
        /\ \A q \in Objects :
             r[n + 1].block[q].object = IF q = o THEN "deleted" ELSE r[n].block[q].object
    <3> DEFINE before == r[n]
               e == Resumed(before, o)
    <3>1. before \in Memory
      BY <2>6
    <3> HIDE DEF before
    <3>2. /\ e \in Memory
          /\ before.fault = TRUE => e.fault = TRUE
          /\ e.handle = [before.handle EXCEPT ![o] = NoHandle]
          /\ \A q \in Objects :
               e.block[q].object = IF q = o THEN "deleted" ELSE before.block[q].object
      BY <2>4, <3>1, ResumedFields
    <3> QED
      BY <2>3, <3>2, Zenon DEF before
  <2>8. \A q \in Objects :
          /\ q \in new => r[n + 1].block[q].object = "deleted"
          /\ q \notin new => r[n + 1].block[q].object = m.block[q].object
    BY <2>5, <2>6, <2>7
  <2>9. \A q \in Places :
          /\ q \in new => r[n + 1].handle[q] = NoHandle
          /\ q \notin new => r[n + 1].handle[q] = m.handle[q]
    BY <2>5, <2>6, <2>7, MemoryFields
  <2>10. m.fault = TRUE => r[n + 1].fault = TRUE
    BY <2>6, <2>7
  <2> QED
    BY <2>7, <2>8, <2>9, <2>10, Zenon DEF CallReturns, new, d
<1> HIDE DEF T
<1>4. \A n \in Nat : n \in T
  BY <1>2, <1>3, EveryNumber
<1> QED
  BY <1>4 DEF T

(* Where the counters are right, and the place is in no object that goes.  *)
ReturnKeeps(p, c, r, n) ==
  Kept(r[n], {p} \cup Dying(c, Depth(c) - n), Dying(c, Depth(c) - n))

LEMMA ReturnsKeep ==
  ASSUME NEW m, Kept(m, {}, {}), NEW p \in Places, NEW c, IsChain(m, p, c),
         NEW r, IsReturn(c, Depth(c), r), p \notin Dying(c, Depth(c))
  PROVE  \A n \in Nat : n <= Depth(c) => ReturnKeeps(p, c, r, n)
<1> DEFINE d == Depth(c)
           T == {n \in Nat : n <= d => ReturnKeeps(p, c, r, n)}
<1>1. m \in Memory
  BY DEF Kept
<1>2. d \in Nat /\ d <= Most /\ Reaches(c, d) /\ ~IsLast(c[d].memory, c[d].place)
  BY <1>1, DepthIs DEF Deletes
<1>3. 0 \in T
  <2> DEFINE a == c[d].memory
             q == c[d].place
  <2>1. a \in Memory /\ q \in Places /\ Kept(a, CountedDown(c, d), Dying(c, d))
    BY <1>2, CallsKeep DEF CallBegins, CallKeeps
  <2>2. r[0] = Released(a, q)
    BY DEF IsReturn
  <2>3. q \notin CountedDown(c, d)
    <3>1. CASE d = 0
      BY <3>1, FirstSets
    <3>2. CASE d # 0
      <4> DEFINE k == d - 1
      <4>1. k \in Nat /\ k + 1 = d /\ k + 1 <= d
        BY <1>2, <3>2
      <4> HIDE DEF k, d
      <4>2. c[k + 1].place \notin Dying(c, k) /\ c[k + 1].place \in Dying(c, Depth(c))
        BY <1>1, <4>1, ObjectOfCall DEF d
      <4>3. CountedDown(c, k + 1) = {c[0].place} \cup Dying(c, k) /\ c[0].place = p
        BY <4>1, CountedIsDying DEF IsChain
      <4> QED
        BY <4>1, <4>2, <4>3
    <3> QED
      BY <3>1, <3>2
  <2>4. CountedDown(c, d) \cup {q} = {p} \cup Dying(c, d)
    <3>1. c[0].place = p
      BY DEF IsChain
    <3> QED
      BY <1>2, <3>1, NextSets, CountedIsDying
  <2>5. d - 0 = d
    BY <1>2
  <2> HIDE DEF a, q
  <2>6. ~IsLast(a, q)
    BY <1>2 DEF a, q
  <2> HIDE DEF d
  <2>7. Kept(r[0], CountedDown(c, d) \cup {q}, Dying(c, d))
    BY <2>1, <2>2, <2>3, <2>6, ReleasedKeeps
  <2>8. Kept(r[0], {p} \cup Dying(c, d - 0), Dying(c, d - 0))
    BY <2>4, <2>5, <2>7, Zenon
  <2> QED
    BY <2>8 DEF ReturnKeeps, d
<1>4. ASSUME NEW n \in Nat, n \in T PROVE n + 1 \in T
  <2> SUFFICES ASSUME n + 1 <= d PROVE ReturnKeeps(p, c, r, n + 1)
    OBVIOUS
  <2> DEFINE k == d - (n + 1)
             o == c[d - n].place
  <2>1. k \in Nat /\ k + 1 = d - n /\ k + 1 <= d /\ n < d /\ n <= d
    BY <1>2
  <2>2. Kept(r[n], {p} \cup Dying(c, d - n), Dying(c, d - n))
    BY <1>4, <2>1 DEF ReturnKeeps
  <2>3. r[n + 1] = Resumed(r[n], o)
    BY <2>1 DEF IsReturn
  <2>4. o \in Objects /\ o \notin Dying(c, k) /\ o \in Dying(c, d)
        /\ Dying(c, d - n) = Dying(c, k) \cup {o}
    <3>1. /\ c[k + 1].place \in Objects /\ c[k + 1].place \notin Dying(c, k)
          /\ c[k + 1].place \in Dying(c, Depth(c))
          /\ Dying(c, k + 1) = Dying(c, k) \cup {c[k + 1].place}
      <4> HIDE DEF k, d
      <4>1. k + 1 <= Depth(c)
        BY <2>1 DEF d
      <4> QED
        BY <1>1, <2>1, <4>1, ObjectOfCall
    <3> HIDE DEF k
    <3> QED
      BY <2>1, <3>1
  <2> DEFINE L == Dying(c, d - n)
             D == {p} \cup L
  <2>5. o # p /\ o \in L /\ o \in D
    BY <2>4
  <2>6. L \ {o} = Dying(c, k) /\ D \ {o} = {p} \cup Dying(c, k)
    BY <2>4, <2>5
  <2> HIDE DEF o, k, d, L, D
  <2>7. Kept(r[n], D, L)
    BY <2>2 DEF L, D
  <2>8. Kept(r[n + 1], D \ {o}, L \ {o})
    BY <2>3, <2>4, <2>5, <2>7, ResumedKeeps
  <2> QED
    BY <2>6, <2>8, Zenon DEF ReturnKeeps, k, d
<1> HIDE DEF T
<1>5. \A n \in Nat : n \in T
  BY <1>3, <1>4, EveryNumber
<1> QED
  BY <1>5 DEF T

(* dereferenciate(), in any memory.                                        *)
LEMMA DereferenciatedFields ==
  ASSUME NEW m \in Memory, NEW p \in Places
  PROVE  /\ DereferenciatedIn(m, p) \in Memory
         /\ m.fault = TRUE => DereferenciatedIn(m, p).fault = TRUE
<1> DEFINE c == Calls(m, p)
           d == Depth(c)
           r == Returns(c, d)
<1>1. DereferenciatedIn(m, p) = r[d]
  BY Zenon DEF DereferenciatedIn
<1>2. IsChain(m, p, c)
  BY CallsAreChain
<1> HIDE DEF c
<1>3. d \in Nat /\ d \in 0 .. Most
  BY <1>2, DepthIs, MostIsNumber
<1> HIDE DEF d
<1>4. IsReturn(c, d, r)
  BY <1>3, ReturnsAreReturn
<1> HIDE DEF r
<1>5. CallReturns(m, c, r, d)
  BY <1>2, <1>3, <1>4, CallsReturn DEF d
<1>6. r[d] \in Memory /\ (m.fault = TRUE => r[d].fault = TRUE)
  BY <1>5, Zenon DEF CallReturns
<1> QED
  BY <1>1, <1>6

(* Where the counters are right: the objects that the handle alone kept    *)
(* are deleted, with the handles in them, and no others.                   *)
CallLeaves(m, p, n) ==
  /\ n \in Memory
  /\ \A o \in KeptIn(m, p) : o \in Objects /\ m.block[o].object = "live"
  /\ \A o \in Objects :
       /\ o \in KeptIn(m, p) => n.block[o].object = "deleted"
       /\ o \notin KeptIn(m, p) => n.block[o].object = m.block[o].object
  /\ \A q \in Places : q \notin KeptIn(m, p) => n.handle[q] = m.handle[q]
  /\ p \notin KeptIn(m, p) => Kept(n, {p}, {})

LEMMA DereferenciatedKeeps ==
  ASSUME NEW m, Kept(m, {}, {}), NEW p \in Places
  PROVE  CallLeaves(m, p, DereferenciatedIn(m, p))
<1> DEFINE n == DereferenciatedIn(m, p)
           c == Calls(m, p)
           d == Depth(c)
           r == Returns(c, d)
           K == KeptIn(m, p)
<1>1. n = r[d] /\ m \in Memory
  BY Zenon DEF DereferenciatedIn, Kept
<1>2. IsChain(m, p, c)
  BY CallsAreChain
<1> HIDE DEF c
<1>3. d \in Nat /\ d \in 0 .. Most /\ d <= Most /\ d - d = 0 /\ d <= d /\ Reaches(c, d)
  BY <1>1, <1>2, DepthIs, MostIsNumber
<1>4. K = Dying(c, d)
  BY <1>2, DyingIsKept
<1> HIDE DEF d
<1>5. IsReturn(c, d, r)
  BY <1>3, ReturnsAreReturn
<1> HIDE DEF r
<1>6. CallReturns(m, c, r, d)
  BY <1>1, <1>2, <1>3, <1>5, CallsReturn DEF d
<1>7. Dying(c, d - d) = {}
  BY <1>3, FirstSets
<1> HIDE DEF K
<1>8. Dying(c, d) \ Dying(c, d - d) = K
  BY <1>4, <1>7
<1>9. /\ r[d] \in Memory
      /\ \A o \in Objects :
           /\ o \in K => r[d].block[o].object = "deleted"
           /\ o \notin K => r[d].block[o].object = m.block[o].object
      /\ \A q \in Places : q \notin K => r[d].handle[q] = m.handle[q]
  <2> DEFINE gone == Dying(c, d) \ Dying(c, d - d)
  <2>1. /\ r[d] \in Memory
        /\ \A o \in Objects :
             /\ o \in gone => r[d].block[o].object = "deleted"
             /\ o \notin gone => r[d].block[o].object = m.block[o].object
        /\ \A q \in Places : q \notin gone => r[d].handle[q] = m.handle[q]
    BY <1>6, Zenon DEF CallReturns, d
  <2>2. gone = K
    BY <1>8
  <2> HIDE DEF gone
  <2> QED
    BY <2>1, <2>2
<1>10. \A o \in K : o \in Objects /\ m.block[o].object = "live"
  <2>1. CallBegins(m, c, d) /\ CallKeeps(m, p, c, d)
    BY <1>2, <1>3, CallsKeep
  <2> QED
    BY <1>4, <2>1 DEF CallBegins, CallKeeps
<1>11. ASSUME p \notin K PROVE Kept(r[d], {p}, {})
  <2>1. ReturnKeeps(p, c, r, d)
    BY <1>2, <1>3, <1>4, <1>5, <1>11, ReturnsKeep DEF d
  <2>2. Kept(r[d], {p} \cup Dying(c, d - d), Dying(c, d - d))
    BY <2>1, Zenon DEF ReturnKeeps, d
  <2>3. {p} \cup {} = {p}
    OBVIOUS
  <2> QED
    BY <1>7, <2>2, <2>3
<1> HIDE DEF n
<1>12. CallLeaves(m, p, n)
  BY <1>1, <1>9, <1>10, <1>11 DEF K, CallLeaves
<1> QED
  BY <1>12 DEF n

-----------------------------------------------------------------------------
(* The operations on handles.                                              *)

LostIn(m, n) == {o \in Objects : n.block[o].object = "deleted" /\ m.block[o].object # "deleted"}

(* A place that is in no object, or in one that is live.                   *)
Lives(m, p) == p \in Objects => m.block[p].object = "live"

(* The handle at a place is another one, and nothing else changes.         *)
WithHandle(m, p, h, n) ==
  /\ n \in Memory
  /\ n = [handle |-> [m.handle EXCEPT ![p] = h], block |-> m.block, fault |-> m.fault]
  /\ n.handle = [m.handle EXCEPT ![p] = h] /\ n.block = m.block /\ n.fault = m.fault

LEMMA HandleFields ==
  ASSUME NEW m \in Memory, NEW p \in Places, NEW h \in HandleIn
  PROVE  WithHandle(m, p, h, [m EXCEPT !.handle[p] = h])
<1> DEFINE H == [m.handle EXCEPT ![p] = h]
           n == [m EXCEPT !.handle[p] = h]
<1>1. /\ m = [handle |-> m.handle, block |-> m.block, fault |-> m.fault]
      /\ m.handle \in [Places -> HandleIn] /\ m.block \in [Objects -> BlockIn] /\ m.fault \in BOOLEAN
  BY DEF Memory
<1>2. H \in [Places -> HandleIn]
  BY <1>1
<1>3. n = [m EXCEPT !.handle = H]
  BY Zenon
<1> HIDE DEF H, n
<1>4. n = [handle |-> H, block |-> m.block, fault |-> m.fault]
  BY <1>1, <1>3
<1>5. n.handle = H /\ n.block = m.block /\ n.fault = m.fault /\ n \in Memory
  BY <1>1, <1>2, <1>4 DEF Memory
<1>6. WithHandle(m, p, h, n)
  BY <1>4, <1>5 DEF H, WithHandle
<1> QED
  BY <1>6 DEF n

(* Reset() and the second half of a destructor.                            *)
LEMMA ResetFields ==
  ASSUME NEW m \in Memory, NEW p \in Places
  PROVE  \E h \in HandleIn : h.to = NULL /\ WithHandle(m, p, h, Reset(m, p))
<1> DEFINE h == [m.handle[p] EXCEPT !.to = NULL]
<1>1. h \in HandleIn /\ h.to = NULL
  BY MemoryFields DEF HandleIn
<1>2. Reset(m, p) = [m EXCEPT !.handle[p] = h]
  BY Zenon DEF Reset
<1> HIDE DEF h
<1>3. WithHandle(m, p, h, [m EXCEPT !.handle[p] = h])
  BY <1>1, HandleFields
<1>4. WithHandle(m, p, h, Reset(m, p))
  BY <1>2, <1>3, Zenon
<1> QED
  BY <1>1, <1>4, Zenon

LEMMA NoHandleFields == NoHandle \in HandleIn /\ NoHandle.to = NULL
BY DEF NoHandle, HandleIn

LEMMA RefersFields ==
  ASSUME NEW m \in Memory, NEW p \in Places, NEW h \in HandleIn
  PROVE  /\ WithHandle(Counting(m, h, 1), p, h, Refers(m, p, h))
         /\ Refers(m, p, h) \in Memory
         /\ Refers(m, p, h).handle = [m.handle EXCEPT ![p] = h]
         /\ Refers(m, p, h).fault = m.fault
         /\ \A o \in Objects : Refers(m, p, h).block[o].object = m.block[o].object
<1> DEFINE c == Counting(m, h, 1)
           n == Refers(m, p, h)
<1>1. /\ c \in Memory /\ c.handle = m.handle /\ c.fault = m.fault
      /\ \A o \in Objects : c.block[o].object = m.block[o].object
  BY CountingFields
<1>2. n = [c EXCEPT !.handle[p] = h]
  BY Zenon DEF Refers
<1> HIDE DEF c, n
<1>3. WithHandle(c, p, h, [c EXCEPT !.handle[p] = h])
  BY <1>1, HandleFields
<1>4. WithHandle(c, p, h, n)
  BY <1>2, <1>3, Zenon
<1>5. /\ n \in Memory /\ n.handle = [c.handle EXCEPT ![p] = h]
      /\ n.block = c.block /\ n.fault = c.fault
  BY <1>4, Zenon DEF WithHandle
<1>6. /\ n.handle = [m.handle EXCEPT ![p] = h] /\ n.fault = m.fault
      /\ \A o \in Objects : n.block[o].object = m.block[o].object
  BY <1>1, <1>5
<1> QED
  BY <1>4, <1>5, <1>6 DEF n, c

(* ~Rc() in any memory, where another handle was freed too early.          *)
LEMMA DestroyedFields ==
  ASSUME NEW m \in Memory, NEW p \in Places
  PROVE  /\ Destroyed(m, p) \in Memory
         /\ m.fault = TRUE => Destroyed(m, p).fault = TRUE
<1> DEFINE a == DereferenciatedIn(m, p)
<1>1. a \in Memory /\ (m.fault = TRUE => a.fault = TRUE)
  BY DereferenciatedFields
<1>2. Destroyed(m, p) = [a EXCEPT !.handle[p] = NoHandle]
  BY Zenon DEF Destroyed
<1> HIDE DEF a
<1>3. WithHandle(a, p, NoHandle, [a EXCEPT !.handle[p] = NoHandle])
  BY <1>1, NoHandleFields, HandleFields
<1>4. WithHandle(a, p, NoHandle, Destroyed(m, p))
  BY <1>2, <1>3, Zenon
<1> QED
  BY <1>1, <1>4 DEF WithHandle

(* ~Rc() of a variable.                                                    *)
LEMMA DestroyedKeeps ==
  ASSUME NEW m, Kept(m, {}, {}), NEW p \in Places, p \notin Objects
  PROVE  /\ Kept(Destroyed(m, p), {}, {}) /\ Target(Destroyed(m, p), p) = NULL
         /\ LostIn(m, Destroyed(m, p)) = KeptIn(m, p)
         /\ Target(m, Temporary) = NULL => Target(Destroyed(m, p), Temporary) = NULL
<1> DEFINE n == Destroyed(m, p)
           a == DereferenciatedIn(m, p)
           K == KeptIn(m, p)
<1>1. n = [a EXCEPT !.handle[p] = NoHandle]
  BY Zenon DEF Destroyed
<1>2. p \notin K /\ Temporary \notin K /\ K \subseteq Objects
  BY ObjectsArePlaces DEF KeptIn
<1>8. CallLeaves(m, p, a)
  BY DereferenciatedKeeps
<1> HIDE DEF a, n
<1>3. /\ a \in Memory
      /\ \A o \in K : o \in Objects /\ m.block[o].object = "live"
      /\ \A o \in Objects :
           /\ o \in K => a.block[o].object = "deleted"
           /\ o \notin K => a.block[o].object = m.block[o].object
      /\ \A q \in Places : q \notin K => a.handle[q] = m.handle[q]
      /\ p \notin K => Kept(a, {p}, {})
  BY <1>8, Zenon DEF CallLeaves
<1> HIDE DEF K
<1> DEFINE h == NoHandle
<1>9. WithHandle(a, p, h, [a EXCEPT !.handle[p] = h])
  BY <1>3, NoHandleFields, HandleFields
<1>10. h \in HandleIn /\ h.to = NULL
  BY NoHandleFields
<1> HIDE DEF h
<1>4. /\ n = [handle |-> [a.handle EXCEPT ![p] = h], block |-> a.block, fault |-> a.fault]
      /\ n.handle = [a.handle EXCEPT ![p] = h] /\ n.block = a.block
  <2>1. WithHandle(a, p, h, n)
    BY <1>1, <1>9, Zenon DEF h
  <2> QED
    BY <2>1, Zenon DEF WithHandle
<1>5. Kept(n, {}, {}) /\ Target(n, p) = NULL
  BY <1>2, <1>3, <1>4, <1>10, ClearedKeeps
<1>6. LostIn(m, n) = K
  BY <1>2, <1>3, <1>4 DEF LostIn
<1>7. Target(m, Temporary) = NULL => Target(n, Temporary) = NULL
  <2>1. a.handle[Temporary] = m.handle[Temporary] /\ Temporary \in Places
    BY <1>2, <1>3, ObjectsArePlaces
  <2>2. n.handle[Temporary] = a.handle[Temporary] \/ Temporary = p
    BY <1>3, <1>4, <2>1, MemoryFields
  <2> QED
    BY <1>5, <2>1, <2>2 DEF Target
<1> QED
  BY <1>5, <1>6, <1>7 DEF K, n

(* What operator= and del() leave: a fault when the place, or the one that *)
(* is assigned, was in an object that the handle alone kept.               *)
Leaves(m, n, h, used) ==
  /\ n \in Memory
  /\ used \cap KeptIn(m, h) # {} => n.fault = TRUE
  /\ used \cap KeptIn(m, h) = {} =>
       /\ Kept(n, {}, {}) /\ LostIn(m, n) = KeptIn(m, h)
       /\ h # Temporary => n.handle[Temporary] = m.handle[Temporary]

(* What both find after dereferenciate().                                  *)
IsAfter(m, h, after) ==
  /\ m \in Memory /\ after \in Memory /\ Temporary \in Places
  /\ KeptIn(m, h) \subseteq Objects /\ Temporary \notin KeptIn(m, h)
  /\ \A p \in Places : Lives(m, p) => (Gone(after, p) <=> p \in KeptIn(m, h))
  /\ \A p \in Places : p \notin KeptIn(m, h) => after.handle[p] = m.handle[p]
  /\ LostIn(m, after) = KeptIn(m, h)
  /\ h \notin KeptIn(m, h) => Kept(after, {h}, {}) /\ Lives(after, h)

LEMMA AfterCall ==
  ASSUME NEW m, Kept(m, {}, {}), NEW h \in Places, Lives(m, h)
  PROVE  IsAfter(m, h, DereferenciatedIn(m, h))
<1> DEFINE K == KeptIn(m, h)
           after == DereferenciatedIn(m, h)
<1>1. K \subseteq Objects /\ Temporary \notin K /\ m \in Memory /\ Temporary \in Places
  BY ObjectsArePlaces DEF KeptIn, Kept
<1>6. CallLeaves(m, h, after)
  BY DereferenciatedKeeps
<1> HIDE DEF after
<1>2. /\ after \in Memory
      /\ \A o \in K : o \in Objects /\ m.block[o].object = "live"
      /\ \A o \in Objects :
           /\ o \in K => after.block[o].object = "deleted"
           /\ o \notin K => after.block[o].object = m.block[o].object
      /\ \A q \in Places : q \notin K => after.handle[q] = m.handle[q]
      /\ h \notin K => Kept(after, {h}, {})
  BY <1>6, Zenon DEF CallLeaves
<1> HIDE DEF K
<1>3. \A p \in Places : Lives(m, p) => (Gone(after, p) <=> p \in K)
  BY <1>1, <1>2 DEF Lives, Gone
<1>4. LostIn(m, after) = K
  BY <1>1, <1>2 DEF LostIn
<1>5. h \notin K => Lives(after, h)
  BY <1>2 DEF Lives
<1>7. IsAfter(m, h, after)
  BY <1>1, <1>2, <1>3, <1>4, <1>5 DEF K, IsAfter
<1> QED
  BY <1>7 DEF after

LEMMA FaultLeaves ==
  ASSUME NEW m, NEW n \in Memory, NEW h, NEW used, used \cap KeptIn(m, h) # {}
  PROVE  Leaves(m, Fault(n), h, used)
BY FaultFields DEF Leaves

LEMMA ResetLeaves ==
  ASSUME NEW m, Kept(m, {}, {}), NEW h \in Places, Lives(m, h),
         NEW used, used \cap KeptIn(m, h) = {}, h \in used
  PROVE  Leaves(m, Reset(DereferenciatedIn(m, h), h), h, used)
<1> DEFINE after == DereferenciatedIn(m, h)
           n == Reset(after, h)
           K == KeptIn(m, h)
<1>1. /\ after \in Memory /\ Temporary \in Places /\ Temporary \notin K
      /\ \A p \in Places : p \notin K => after.handle[p] = m.handle[p]
      /\ LostIn(m, after) = K
      /\ h \notin K => Kept(after, {h}, {})
  BY AfterCall, Zenon DEF IsAfter
<1> HIDE DEF after, n, K
<1>2. h \notin K
  BY DEF K
<1>8. PICK g \in HandleIn : g.to = NULL /\ WithHandle(after, h, g, n)
  BY <1>1, ResetFields DEF n
<1>3. /\ g.to = NULL
      /\ n = [handle |-> [after.handle EXCEPT ![h] = g], block |-> after.block, fault |-> after.fault]
      /\ n.handle = [after.handle EXCEPT ![h] = g] /\ n.block = after.block /\ n \in Memory
  BY <1>8, Zenon DEF WithHandle
<1>4. Kept(n, {}, {})
  BY <1>1, <1>2, <1>3, ClearedKeeps
<1>5. LostIn(m, n) = K
  BY <1>1, <1>3 DEF LostIn
<1>6. h # Temporary => n.handle[Temporary] = m.handle[Temporary]
  BY <1>1, <1>3, MemoryFields
<1>7. Leaves(m, n, h, used)
  BY <1>3, <1>4, <1>5, <1>6 DEF Leaves, K
<1> QED
  BY <1>7 DEF n, after

LEMMA RefersLeaves ==
  ASSUME NEW m, Kept(m, {}, {}), NEW h \in Places, Lives(m, h),
         NEW other \in Places, {h, other} \cap KeptIn(m, h) = {}, other # h,
         ~IsNullIn(DereferenciatedIn(m, h), other)
  PROVE  Leaves(m, Refers(DereferenciatedIn(m, h), h, m.handle[other]), h, {h, other})
<1> DEFINE after == DereferenciatedIn(m, h)
           g == m.handle[other]
           n == Refers(after, h, g)
           K == KeptIn(m, h)
<1>1. /\ m \in Memory /\ after \in Memory /\ Temporary \in Places /\ Temporary \notin K
      /\ \A p \in Places : p \notin K => after.handle[p] = m.handle[p]
      /\ LostIn(m, after) = K
      /\ h \notin K => Kept(after, {h}, {}) /\ Lives(after, h)
  BY AfterCall, Zenon DEF IsAfter
<1>2. ~IsNullIn(after, other)
  OBVIOUS
<1>3. g \in HandleIn
  BY <1>1, MemoryFields
<1> HIDE DEF after, n, K
<1>4. h \notin K /\ other \notin K
  BY DEF K
<1>5. after.handle[other] = g /\ Target(after, other) = g.to
  BY <1>1, <1>4 DEF Target
<1>6. g.to # NULL /\ ~after.block[g.to].null
  BY <1>2, <1>5 DEF IsNullIn
<1>7. Kept(after, {h}, {}) /\ Lives(after, h) /\ other \notin {h}
  BY <1>1, <1>4
<1>8. g.to \in Objects /\ after.block[g.to].object = "live"
  BY <1>5, <1>6, <1>7, KeptHandle
<1> HIDE DEF g
<1>9. Kept(n, {}, {})
  <2>1. {} \subseteq {g.to} /\ ({} # {} => ~g.weak)
    OBVIOUS
  <2>2. h \in Objects => after.block[h].object = "live"
    BY <1>7 DEF Lives
  <2> QED
    BY <1>3, <1>7, <1>8, <2>1, <2>2, RefersKeeps DEF n
<1>10. /\ n \in Memory /\ n.handle = [after.handle EXCEPT ![h] = g]
       /\ \A o \in Objects : n.block[o].object = after.block[o].object
  BY <1>1, <1>3, RefersFields DEF n
<1>11. LostIn(m, n) = K
  BY <1>1, <1>10 DEF LostIn
<1>12. h # Temporary => n.handle[Temporary] = m.handle[Temporary]
  BY <1>1, <1>10, MemoryFields
<1>13. Leaves(m, n, h, {h, other})
  BY <1>4, <1>9, <1>10, <1>11, <1>12 DEF Leaves, K
<1> QED
  BY <1>13 DEF n, after, g

(* del()                                                                   *)
LEMMA NulledLeaves ==
  ASSUME NEW m, Kept(m, {}, {}), NEW h \in Places, Lives(m, h), ~IsNullIn(m, h)
  PROVE  Leaves(m, Nulled(m, h), h, {h})
<1> DEFINE after == DereferenciatedIn(m, h)
           K == KeptIn(m, h)
<1>1. after \in Memory /\ (Gone(after, h) <=> h \in K)
  BY AfterCall, Zenon DEF IsAfter
<1>2. /\ Gone(after, h) => Nulled(m, h) = Fault(after)
      /\ ~Gone(after, h) => Nulled(m, h) = Reset(after, h)
  BY Zenon DEF Nulled
<1>3. CASE h \in K
  <2>1. {h} \cap K # {} /\ Nulled(m, h) = Fault(after)
    BY <1>1, <1>2, <1>3
  <2> HIDE DEF after
  <2> QED
    BY <1>1, <2>1, FaultLeaves DEF K
<1>4. CASE h \notin K
  <2>1. {h} \cap K = {} /\ h \in {h} /\ Nulled(m, h) = Reset(after, h)
    BY <1>1, <1>2, <1>4
  <2> QED
    BY <2>1, ResetLeaves
<1> QED
  BY <1>3, <1>4

(* operator=                                                               *)
LEMMA AssignedLeaves ==
  ASSUME NEW m, Kept(m, {}, {}), NEW h \in Places, Lives(m, h),
         NEW other \in Places, Lives(m, other), Target(m, h) # Target(m, other)
  PROVE  Leaves(m, Assigned(m, h, other), h, {h, other})
<1> DEFINE after == DereferenciatedIn(m, h)
           K == KeptIn(m, h)
           n == Assigned(m, h, other)
<1>1. after \in Memory /\ (Gone(after, h) <=> h \in K) /\ (Gone(after, other) <=> other \in K)
  BY AfterCall, Zenon DEF IsAfter
<1>2. /\ Gone(after, h) \/ Gone(after, other) => n = Fault(after)
      /\ ~Gone(after, h) /\ ~Gone(after, other) /\ IsNullIn(after, other) => n = Reset(after, h)
      /\ ~Gone(after, h) /\ ~Gone(after, other) /\ ~IsNullIn(after, other)
           => n = Refers(after, h, m.handle[other])
  BY Zenon DEF Assigned
<1>3. other # h
  OBVIOUS
<1> HIDE DEF n
<1>4. CASE h \in K \/ other \in K
  <2>1. {h, other} \cap K # {} /\ n = Fault(after)
    BY <1>1, <1>2, <1>4
  <2> HIDE DEF after
  <2> QED
    BY <1>1, <2>1, FaultLeaves DEF K, n
<1>5. CASE h \notin K /\ other \notin K /\ IsNullIn(after, other)
  <2>1. {h, other} \cap K = {} /\ h \in {h, other} /\ n = Reset(after, h)
    BY <1>1, <1>2, <1>5
  <2> QED
    BY <2>1, ResetLeaves DEF n
<1>6. CASE h \notin K /\ other \notin K /\ ~IsNullIn(after, other)
  <2>1. {h, other} \cap K = {} /\ n = Refers(after, h, m.handle[other])
    BY <1>1, <1>2, <1>6
  <2> QED
    BY <1>3, <1>6, <2>1, RefersLeaves DEF n
<1> QED
  BY <1>4, <1>5, <1>6

-----------------------------------------------------------------------------
(* The program that uses handles as it likes.                              *)

Sound(m) ==
  /\ m \in Memory
  /\ m.fault = FALSE => Kept(m, {}, {}) /\ Target(m, Temporary) = NULL

GraphInv == Sound(memory)

LEMMA FaultIsSound ==
  ASSUME NEW m \in Memory, m.fault = TRUE
  PROVE  Sound(m)
BY DEF Sound

LEMMA KeptIsSound ==
  ASSUME NEW m, Kept(m, {}, {}), Target(m, Temporary) = NULL
  PROVE  Sound(m)
BY DEF Sound, Kept

(* What the program comes to is a variable or in a live object.            *)
LEMMA AccessibleLives ==
  ASSUME Kept(memory, {}, {}), NEW h \in Accessible
  PROVE  h \in Places /\ h # Temporary /\ Lives(memory, h)
<1> DEFINE live == {o \in Objects : memory.block[o].object = "live"}
           Leads(p, S) == ~IsNullIn(memory, p) => Target(memory, p) \in S
           closed == {S \in SUBSET Objects : \A p \in Roots \cup S : Leads(p, S)}
<1>1. \A p \in Places : Leads(p, live)
  <2> SUFFICES ASSUME NEW p \in Places, ~IsNullIn(memory, p) PROVE Target(memory, p) \in live
    OBVIOUS
  <2>1. Target(memory, p) # NULL /\ ~memory.block[Target(memory, p)].null
    BY DEF IsNullIn
  <2>2. p \notin {}
    OBVIOUS
  <2> QED
    BY <2>1, <2>2, KeptHandle
<1>2. Roots \cup live \subseteq Places
  BY ObjectsArePlaces
<1>3. live \in closed
  <2> HIDE DEF Leads
  <2> QED
    BY <1>1, <1>2
<1>4. Accessible = Roots \cup {o \in Objects : \A S \in closed : o \in S}
  BY Zenon DEF Accessible
<1> HIDE DEF closed
<1>5. h \in Roots \/ h \in live
  BY <1>3, <1>4
<1> QED
  BY <1>2, <1>5, ObjectsArePlaces DEF Lives

LEMMA LeavesSound ==
  ASSUME NEW m, Target(m, Temporary) = NULL, NEW n, NEW h, NEW used,
         Leaves(m, n, h, used), h # Temporary
  PROVE  Sound(n)
<1>1. CASE used \cap KeptIn(m, h) # {}
  BY <1>1, FaultIsSound DEF Leaves
<1>2. CASE used \cap KeptIn(m, h) = {}
  <2>1. Kept(n, {}, {}) /\ n.handle[Temporary] = m.handle[Temporary]
    BY <1>2 DEF Leaves
  <2>2. Target(n, Temporary) = NULL
    BY <2>1 DEF Target
  <2> QED
    BY <2>1, <2>2, KeptIsSound
<1> QED
  BY <1>1, <1>2

LEMMA AssignedSound ==
  ASSUME NEW m, Kept(m, {}, {}), Target(m, Temporary) = NULL,
         NEW h \in Places, h # Temporary, Lives(m, h), NEW other \in Places, Lives(m, other)
  PROVE  Sound(Assigned(m, h, other))
<1>1. CASE Target(m, h) = Target(m, other)
  <2>1. Assigned(m, h, other) = m
    BY <1>1, Zenon DEF Assigned
  <2> QED
    BY <2>1, KeptIsSound
<1>2. CASE Target(m, h) # Target(m, other)
  <2>1. Leaves(m, Assigned(m, h, other), h, {h, other})
    BY <1>2, AssignedLeaves
  <2> QED
    BY <2>1, LeavesSound
<1> QED
  BY <1>1, <1>2

LEMMA NulledSound ==
  ASSUME NEW m, Kept(m, {}, {}), Target(m, Temporary) = NULL,
         NEW h \in Places, h # Temporary, Lives(m, h)
  PROVE  Sound(Nulled(m, h))
<1>1. CASE IsNullIn(m, h)
  <2>1. Nulled(m, h) = m
    BY <1>1, Zenon DEF Nulled
  <2> QED
    BY <2>1, KeptIsSound
<1>2. CASE ~IsNullIn(m, h)
  <2>1. Leaves(m, Nulled(m, h), h, {h})
    BY <1>2, NulledLeaves
  <2> QED
    BY <2>1, LeavesSound
<1> QED
  BY <1>1, <1>2

(* An assignment from a temporary that holds a handle of its own.          *)
LEMMA TemporarySound ==
  ASSUME NEW m, Kept(m, {}, {}), NEW h \in Places, Lives(m, h)
  PROVE  Sound(Destroyed(Assigned(m, h, Temporary), Temporary))
<1> DEFINE n == Assigned(m, h, Temporary)
<1>1. Temporary \in Places /\ Temporary \notin Objects /\ Lives(m, Temporary)
  BY ObjectsArePlaces DEF Lives
<1>2. (n \in Memory /\ n.fault = TRUE) \/ Kept(n, {}, {})
  <2>1. CASE Target(m, h) = Target(m, Temporary)
    <3>1. n = m
      BY <2>1, Zenon DEF Assigned
    <3> QED
      BY <3>1
  <2>2. CASE Target(m, h) # Target(m, Temporary)
    <3>1. Leaves(m, n, h, {h, Temporary})
      BY <1>1, <2>2, AssignedLeaves
    <3> HIDE DEF n
    <3> QED
      BY <3>1 DEF Leaves
  <2> QED
    BY <2>1, <2>2
<1> HIDE DEF n
<1>3. CASE n \in Memory /\ n.fault = TRUE
  <2>1. Destroyed(n, Temporary) \in Memory /\ Destroyed(n, Temporary).fault = TRUE
    BY <1>1, <1>3, DestroyedFields
  <2>2. Sound(Destroyed(n, Temporary))
    BY <2>1, FaultIsSound
  <2> QED
    BY <2>2 DEF n
<1>4. CASE Kept(n, {}, {})
  <2>1. Kept(Destroyed(n, Temporary), {}, {}) /\ Target(Destroyed(n, Temporary), Temporary) = NULL
    BY <1>1, <1>4, DestroyedKeeps
  <2>2. Sound(Destroyed(n, Temporary))
    BY <2>1, KeptIsSound
  <2> QED
    BY <2>2 DEF n
<1> QED
  BY <1>2, <1>3, <1>4

(* ~other and +other                                                       *)
LEMMA MadeSound ==
  ASSUME NEW m, Kept(m, {}, {}), Target(m, Temporary) = NULL,
         NEW h \in Places, Lives(m, h), NEW other \in Places, NEW weak \in BOOLEAN,
         NEW value, value = IF IsNullIn(m, other) THEN NoHandle ELSE [to |-> Target(m, other), weak |-> weak]
  PROVE  Sound(Destroyed(Assigned(Refers(m, Temporary, value), h, Temporary), Temporary))
<1> DEFINE n == Refers(m, Temporary, value)
<1>1. m \in Memory /\ Temporary \in Places /\ Temporary \notin Objects
  BY ObjectsArePlaces DEF Kept
<1>2. Kept(m, {Temporary}, {})
  BY <1>1, EmptyKeeps
<1>3. /\ value \in HandleIn
      /\ value.to # NULL => value.to \in Objects /\ m.block[value.to].object = "live"
  <2>1. CASE IsNullIn(m, other)
    BY <2>1, NoHandleFields
  <2>2. CASE ~IsNullIn(m, other)
    <3>1. Target(m, other) # NULL /\ ~m.block[Target(m, other)].null /\ other \notin {}
      BY <2>2 DEF IsNullIn
    <3>2. Target(m, other) \in Objects /\ m.block[Target(m, other)].object = "live"
      BY <3>1, KeptHandle
    <3> QED
      BY <2>2, <3>2 DEF HandleIn
  <2> QED
    BY <2>1, <2>2
<1>4. Kept(n, {}, {})
  <2>1. CASE value.to # NULL
    <3>1. {} \subseteq {value.to} /\ ({} # {} => ~value.weak)
      OBVIOUS
    <3> QED
      BY <1>1, <1>2, <1>3, <2>1, <3>1, RefersKeeps
  <2>2. CASE value.to = NULL
    <3>1. Counting(m, value, 1) = m
      BY <2>2, Zenon DEF Counting
    <3>2. WithHandle(Counting(m, value, 1), Temporary, value, n)
      BY <1>1, <1>3, RefersFields
    <3> HIDE DEF n
    <3>3. n = [handle |-> [m.handle EXCEPT ![Temporary] = value], block |-> m.block, fault |-> m.fault]
      BY <3>1, <3>2, Zenon DEF WithHandle
    <3> QED
      BY <1>1, <1>2, <1>3, <2>2, <3>3, ClearedKeeps
  <2> QED
    BY <2>1, <2>2
<1>5. Lives(n, h)
  <2>1. \A q \in Objects : n.block[q].object = m.block[q].object
    BY ONLY <1>1, <1>3, RefersFields, Zenon
  <2> HIDE DEF n
  <2> QED
    BY <2>1 DEF Lives
<1> HIDE DEF n
<1>6. Sound(Destroyed(Assigned(n, h, Temporary), Temporary))
  BY <1>4, <1>5, TemporarySound
<1> QED
  BY <1>6 DEF n

(* new T: the object has no handle yet, and its first one is hard.         *)
LEMMA NewKeeps ==
  ASSUME NEW m, Kept(m, {}, {}), Target(m, Temporary) = NULL,
         NEW o \in Objects, m.block[o].object = "unborn"
  PROVE  LET n == [m EXCEPT !.block[o] = NewBlock("live")]
         IN /\ Kept(n, {Temporary}, {o})
            /\ n.block[o].object = "live"
            /\ \A q \in Objects : q # o => n.block[q].object = m.block[q].object
<1> DEFINE e == NewBlock("live")
           B == [m.block EXCEPT ![o] = e]
           n == [m EXCEPT !.block[o] = e]
<1>1. /\ m \in Memory /\ Temporary \in Places
      /\ m = [handle |-> m.handle, block |-> m.block, fault |-> m.fault]
      /\ m.handle \in [Places -> HandleIn] /\ m.block \in [Objects -> BlockIn] /\ m.fault = FALSE
  BY ObjectsArePlaces DEF Kept, Memory
<1>2. /\ e \in BlockIn
      /\ e.object = "live" /\ e.ref = 0 /\ e.weak = 0 /\ e.null = FALSE /\ e.cells = "live"
  BY DEF NewBlock, BlockIn
<1>3. n = [m EXCEPT !.block = B]
  BY Zenon
<1>4. B \in [Objects -> BlockIn] /\ \A q \in Objects : B[q] = IF q = o THEN e ELSE m.block[q]
  BY <1>1, <1>2
<1> HIDE DEF e, B, n
<1>5. n.handle = m.handle /\ n.block = B /\ n.fault = FALSE /\ n \in Memory
  BY <1>1, <1>3, <1>4 DEF Memory
<1>6. Kept(m, {Temporary}, {})
  BY <1>1, EmptyKeeps
<1>7. \A q \in Objects : /\ Hard(n, {Temporary}, q) = Hard(m, {Temporary}, q)
                         /\ Weak(n, {Temporary}, q) = Weak(m, {Temporary}, q)
  BY <1>5 DEF Hard, Weak, OwnersOf, ObserversOf, Target
<1>8. ASSUME NEW q \in Objects PROVE BlockFits(n, {Temporary}, {o}, q)
  <2> DEFINE j == Cardinality(Hard(m, {Temporary}, q))
             k == Cardinality(Weak(m, {Temporary}, q))
  <2>1. j \in Nat /\ k \in Nat
    BY HandleCounts
  <2>2. BlockKept(m.block[q], j, k)
    BY <1>6 DEF Kept, BlockFits
  <2> HIDE DEF j, k
  <2>3. CASE q = o
    <3>1. n.block[q] = e
      BY <1>4, <1>5, <2>3
    <3>2. m.block[q].cells = "unborn" /\ m.block[q].ref = j /\ m.block[q].weak = k
      BY <2>2, <2>3 DEF BlockKept
    <3>3. ~(m.block[q].ref + m.block[q].weak > 0)
      BY <2>2, <3>2 DEF BlockKept
    <3>4. j = 0 /\ k = 0
      BY <2>1, <3>2, <3>3
    <3>5. BlockDying(n.block[q], j, k)
      BY <1>2, <3>1, <3>4 DEF BlockDying
    <3> QED
      BY <1>7, <2>3, <3>5 DEF BlockFits, j, k
  <2>4. CASE q # o
    <3>1. n.block[q] = m.block[q]
      BY <1>4, <1>5, <2>4
    <3>2. BlockKept(n.block[q], j, k)
      BY <2>2, <3>1
    <3> QED
      BY <1>7, <2>4, <3>2 DEF BlockFits, j, k
  <2> QED
    BY <2>3, <2>4
<1>9. \A q \in Objects : n.block[q].object # "live" => Target(n, q) = NULL
  BY <1>2, <1>4, <1>5 DEF Kept, Target
<1>10. Kept(n, {Temporary}, {o})
  BY <1>5, <1>8, <1>9 DEF Kept
<1>11. /\ n.block[o].object = "live"
       /\ \A q \in Objects : q # o => n.block[q].object = m.block[q].object
  BY <1>2, <1>4, <1>5
<1> QED
  BY <1>10, <1>11 DEF n, e

LEMMA NewSound ==
  ASSUME NEW m, Kept(m, {}, {}), Target(m, Temporary) = NULL,
         NEW h \in Places, Lives(m, h), NEW o \in Objects, m.block[o].object = "unborn"
  PROVE  Sound(Destroyed(Assigned(Refers([m EXCEPT !.block[o] = NewBlock("live")], Temporary,
                                         [to |-> o, weak |-> FALSE]), h, Temporary), Temporary))
<1> DEFINE a == [m EXCEPT !.block[o] = NewBlock("live")]
           value == [to |-> o, weak |-> FALSE]
           n == Refers(a, Temporary, value)
<1>1. /\ Kept(a, {Temporary}, {o})
      /\ a.block[o].object = "live"
      /\ \A q \in Objects : q # o => a.block[q].object = m.block[q].object
  BY NewKeeps
<1>2. value \in HandleIn /\ value.to = o /\ value.weak = FALSE
  BY DEF HandleIn
<1>3. Temporary \in Places /\ Temporary \notin Objects
  BY ObjectsArePlaces
<1> HIDE DEF a, value
<1>4. Kept(n, {}, {})
  BY <1>1, <1>2, <1>3, RefersKeeps
<1>5. a \in Memory
  BY <1>1 DEF Kept
<1>6. Lives(n, h)
  <2>1. \A q \in Objects : n.block[q].object = a.block[q].object
    BY <1>2, <1>3, <1>5, RefersFields
  <2> QED
    BY <1>1, <2>1 DEF Lives
<1> HIDE DEF n
<1>7. Sound(Destroyed(Assigned(n, h, Temporary), Temporary))
  BY <1>4, <1>6, TemporarySound
<1> QED
  BY <1>7 DEF n, a, value

-----------------------------------------------------------------------------
(* The invariant.                                                          *)

LEMMA GraphInitInv == GraphInit => GraphInv
<1> SUFFICES ASSUME GraphInit PROVE GraphInv
  OBVIOUS
<1> DEFINE e == NewBlock("unborn")
<1>1. /\ memory = [handle |-> [p \in Places |-> NoHandle], block |-> [o \in Objects |-> e], fault |-> FALSE]
  BY DEF GraphInit
<1>2. /\ e \in BlockIn
      /\ e.object = "unborn" /\ e.ref = 0 /\ e.weak = 0 /\ e.null = FALSE /\ e.cells = "unborn"
  BY DEF NewBlock, BlockIn
<1> HIDE DEF e
<1>3. /\ memory \in Memory /\ memory.fault = FALSE
      /\ \A p \in Places : Target(memory, p) = NULL
      /\ \A o \in Objects : memory.block[o] = e
  BY <1>1, <1>2, NoHandleFields DEF Memory, Target
<1>4. ASSUME NEW o \in Objects PROVE BlockFits(memory, {}, {}, o)
  <2>1. Hard(memory, {}, o) = {} /\ Weak(memory, {}, o) = {}
    BY <1>3, ObjectsArePlaces DEF Hard, Weak, OwnersOf, ObserversOf
  <2>2. Cardinality(Hard(memory, {}, o)) = 0 /\ Cardinality(Weak(memory, {}, o)) = 0
    BY <2>1, FS_EmptySet
  <2> QED
    BY <1>2, <1>3, <2>2 DEF BlockFits, BlockKept
<1>5. Kept(memory, {}, {}) /\ Target(memory, Temporary) = NULL
  BY <1>3, <1>4, ObjectsArePlaces DEF Kept
<1> QED
  BY <1>5, KeptIsSound DEF GraphInv

LEMMA GraphNextInv == GraphInv /\ [GraphNext]_memory => GraphInv'
<1> SUFFICES ASSUME GraphInv, [GraphNext]_memory PROVE GraphInv'
  OBVIOUS
<1>1. CASE UNCHANGED memory
  BY <1>1 DEF GraphInv
<1>2. CASE GraphNext
  <2>1. Kept(memory, {}, {}) /\ Target(memory, Temporary) = NULL
    <3>1. memory \in Memory /\ memory.fault # TRUE
      BY <1>2 DEF GraphInv, Sound, GraphNext
    <3>2. memory.fault = FALSE
      BY <3>1, MemoryFields
    <3> QED
      BY <3>2 DEF GraphInv, Sound
  <2>2. \A h \in Accessible : h \in Places /\ h # Temporary /\ Lives(memory, h)
    BY <2>1, AccessibleLives
  <2>3. SUFFICES Sound(memory')
    BY DEF GraphInv
  <2>4. ASSUME NEW h \in Accessible, AssignNew(h) PROVE Sound(memory')
    <3>1. PICK o \in Objects :
             /\ memory.block[o].object = "unborn"
             /\ memory' = Destroyed(Assigned(Refers([memory EXCEPT !.block[o] = NewBlock("live")], Temporary,
                                                    [to |-> o, weak |-> FALSE]), h, Temporary), Temporary)
      BY <2>4, Zenon DEF AssignNew, AssignTemporary
    <3> QED
      BY <2>1, <2>2, <3>1, NewSound
  <2>5. ASSUME NEW h \in Accessible, DelHandle(h) PROVE Sound(memory')
    BY <2>1, <2>2, <2>5, NulledSound DEF DelHandle
  <2>6. ASSUME NEW h \in Accessible, NEW other \in Accessible, AssignHandle(h, other)
        PROVE  Sound(memory')
    BY <2>1, <2>2, <2>6, AssignedSound DEF AssignHandle
  <2>7. ASSUME NEW h \in Accessible, NEW other \in Accessible, NEW weak \in BOOLEAN,
               AssignMade(h, other, weak)
        PROVE  Sound(memory')
    <3> DEFINE value == IF IsNullIn(memory, other) THEN NoHandle
                        ELSE [to |-> Target(memory, other), weak |-> weak]
    <3>1. memory' = Destroyed(Assigned(Refers(memory, Temporary, value), h, Temporary), Temporary)
      BY <2>7, Zenon DEF AssignMade, AssignTemporary
    <3>2. Sound(Destroyed(Assigned(Refers(memory, Temporary, value), h, Temporary), Temporary))
      BY <2>1, <2>2, MadeSound
    <3> QED
      BY <3>1, <3>2, Zenon
  <2>8. ASSUME NEW r \in Roots, Leave(r) PROVE Sound(memory')
    <3>1. r \in Places /\ r \notin Objects
      BY ObjectsArePlaces
    <3>2. Kept(Destroyed(memory, r), {}, {}) /\ Target(Destroyed(memory, r), Temporary) = NULL
      BY <2>1, <3>1, DestroyedKeeps
    <3> QED
      BY <2>8, <3>2, KeptIsSound DEF Leave
  <2> QED
    BY <1>2, <2>4, <2>5, <2>6, <2>7, <2>8, Zenon DEF GraphNext
<1> QED
  BY <1>1, <1>2

(* What it says of the counters, and what the operations do in it.         *)
LEMMA GraphInvCounts == GraphInv => CountsAreExact
<1> SUFFICES ASSUME GraphInv, ~memory.fault, NEW o \in Objects
             PROVE  LET b == memory.block[o] IN
                    /\ b.ref = Cardinality(OwnersOf(memory, o)) /\ b.weak = Cardinality(ObserversOf(memory, o))
                    /\ b.object = "live" <=> b.ref > 0
                    /\ b.cells = "live" <=> b.ref + b.weak > 0
  BY Zenon DEF CountsAreExact
<1>1. memory \in Memory /\ memory.fault # TRUE
  BY DEF GraphInv, Sound
<1>2. Kept(memory, {}, {})
  BY <1>1, MemoryFields DEF GraphInv, Sound
<1>3. Hard(memory, {}, o) = OwnersOf(memory, o) /\ Weak(memory, {}, o) = ObserversOf(memory, o)
  BY DEF Hard, Weak
<1>4. BlockFits(memory, {}, {}, o)
  BY <1>2 DEF Kept
<1> QED
  BY <1>3, <1>4 DEF BlockFits, BlockKept

LEMMA GraphInvDeletes == GraphInv => DeletesWhatItAloneKept
<1> SUFFICES ASSUME GraphInv, ~memory.fault PROVE DeletesWhatItAloneKept
  BY Zenon DEF DeletesWhatItAloneKept
<1> DEFINE Right(m, h, used) ==
             IF used \cap KeptBy(h) = {} THEN ~m.fault /\ Loses(m, KeptBy(h)) ELSE m.fault
<1>1. memory \in Memory /\ memory.fault # TRUE
  BY DEF GraphInv, Sound
<1>2. Kept(memory, {}, {})
  BY <1>1, MemoryFields DEF GraphInv, Sound
<1>3. \A h \in Accessible : h \in Places /\ Lives(memory, h)
  BY <1>2, AccessibleLives
<1>4. ASSUME NEW n, NEW h, NEW used, Leaves(memory, n, h, used) PROVE Right(n, h, used)
  <2>1. KeptBy(h) = KeptIn(memory, h)
    BY KeptByIsKeptIn
  <2>2. CASE used \cap KeptBy(h) # {}
    <3>1. n.fault = TRUE
      BY <1>4, <2>1, <2>2 DEF Leaves
    <3> QED
      BY <2>2, <3>1
  <2>3. CASE used \cap KeptBy(h) = {}
    <3>1. Kept(n, {}, {}) /\ LostIn(memory, n) = KeptIn(memory, h)
      BY <1>4, <2>1, <2>3 DEF Leaves
    <3>2. n.fault = FALSE
      BY <3>1 DEF Kept
    <3>3. Loses(n, KeptBy(h))
      BY <2>1, <3>1 DEF Loses, LostIn
    <3> QED
      BY <2>3, <3>2, <3>3
  <2> QED
    BY <2>2, <2>3
<1>5. ASSUME NEW r \in Roots PROVE Right(Destroyed(memory, r), r, {})
  <2> DEFINE n == Destroyed(memory, r)
  <2>1. r \in Places /\ r \notin Objects
    BY ObjectsArePlaces
  <2>2. Kept(n, {}, {}) /\ LostIn(memory, n) = KeptIn(memory, r)
    BY <1>2, <2>1, DestroyedKeeps
  <2> HIDE DEF n
  <2>3. n.fault = FALSE /\ {} \cap KeptBy(r) = {}
    BY <2>2 DEF Kept
  <2>4. Loses(n, KeptBy(r))
    BY <2>2, KeptByIsKeptIn DEF Loses, LostIn
  <2>5. Right(n, r, {})
    BY <2>3, <2>4
  <2> QED
    BY <2>5 DEF n
<1> HIDE DEF Right
<1>6. ASSUME NEW h \in Accessible, ~IsNullIn(memory, h) PROVE Right(Nulled(memory, h), h, {h})
  <2>1. Leaves(memory, Nulled(memory, h), h, {h})
    BY <1>2, <1>3, <1>6, NulledLeaves
  <2> QED
    BY <1>4, <2>1
<1>7. ASSUME NEW h \in Accessible, NEW other \in Accessible, Target(memory, h) # Target(memory, other)
      PROVE  Right(Assigned(memory, h, other), h, {h, other})
  <2>1. Leaves(memory, Assigned(memory, h, other), h, {h, other})
    BY <1>2, <1>3, <1>7, AssignedLeaves
  <2> QED
    BY <1>4, <2>1
<1> QED
  BY <1>5, <1>6, <1>7, Zenon DEF DeletesWhatItAloneKept, Right

LEMMA GraphInvForgets == GraphInv => OnlyCirclesAreForgotten
<1> SUFFICES ASSUME GraphInv, ~memory.fault, NEW o \in Forgotten
             PROVE  OwnersOf(memory, o) # {} /\ OwnersOf(memory, o) \subseteq Forgotten
  BY Zenon DEF OnlyCirclesAreForgotten
<1> DEFINE Leads(p, S) == ~IsNullIn(memory, p) => Target(memory, p) \in S
           closed == {S \in SUBSET Objects : \A p \in Roots \cup S : Leads(p, S)}
<1>1. memory \in Memory /\ memory.fault # TRUE
  BY DEF GraphInv, Sound
<1>2. Kept(memory, {}, {}) /\ Target(memory, Temporary) = NULL
  BY <1>1, MemoryFields DEF GraphInv, Sound
<1>3. Accessible = Roots \cup {q \in Objects : \A S \in closed : q \in S}
  BY Zenon DEF Accessible
<1>4. o \in Objects /\ memory.block[o].object = "live" /\ o \notin Accessible
  BY DEF Forgotten
<1>5. ~memory.block[o].null /\ OwnersOf(memory, o) # {}
  <2> DEFINE n == Cardinality(Hard(memory, {}, o))
             k == Cardinality(Weak(memory, {}, o))
  <2>1. BlockKept(memory.block[o], n, k)
    BY <1>2, <1>4 DEF Kept, BlockFits
  <2> HIDE DEF n, k
  <2>2. ~memory.block[o].null
    BY <1>4, <2>1 DEF BlockKept
  <2>3. n > 0
    BY <1>4, <2>1 DEF BlockKept
  <2>4. Hard(memory, {}, o) # {}
    BY <2>3, HandleSets, SomeCounted DEF n
  <2> QED
    BY <2>2, <2>4 DEF Hard
<1>6. ASSUME NEW p \in OwnersOf(memory, o) PROVE p \in Forgotten
  <2>1. p \in Places /\ Target(memory, p) = o
    BY DEF OwnersOf
  <2>2. ~IsNullIn(memory, p) /\ p # Temporary
    BY <1>2, <1>4, <1>5, <2>1, ObjectsArePlaces DEF IsNullIn
  <2>3. p \notin Accessible
    <3> SUFFICES ASSUME p \in Accessible PROVE FALSE
      OBVIOUS
    <3>1. ASSUME NEW S \in closed PROVE o \in S
      <4>1. p \in Roots \cup S
        BY <1>3
      <4>2. Leads(p, S)
        BY <4>1
      <4> QED
        BY <2>1, <2>2, <4>2
    <3> HIDE DEF closed
    <3> QED
      BY <1>3, <1>4, <3>1
  <2>4. p \in Objects
    BY <1>3, <2>1, <2>2, <2>3 DEF Places
  <2>5. memory.block[p].object = "live"
    BY <1>2, <1>4, <2>1, <2>4, ObjectsArePlaces DEF Kept
  <2> QED
    BY <2>3, <2>4, <2>5 DEF Forgotten
<1> QED
  BY <1>5, <1>6

(* The memory has its type whatever the program does, and so after a       *)
(* handle that was freed was used, too (Rc.h:69).                          *)
THEOREM GraphTypeCorrect == GraphSpec => [](memory \in Memory)
<1>1. GraphInv => memory \in Memory
  BY DEF GraphInv, Sound
<1> QED
  BY <1>1, GraphInitInv, GraphNextInv, PTL DEF GraphSpec

(* Handles inside objects keep, free and delete as handles in variables    *)
(* do, however many objects are deleted within each other (Rc.h:69).       *)
THEOREM HandlesInsideObjectsHold == GraphSpec => []HandlesInsideObjects
<1>1. GraphInv => HandlesInsideObjects
  BY GraphInvCounts, GraphInvDeletes, GraphInvForgets DEF HandlesInsideObjects
<1> QED
  BY <1>1, GraphInitInv, GraphNextInv, PTL DEF GraphSpec
=============================================================================
