-------------------------------- MODULE Vec --------------------------------
(***************************************************************************)
(* The dynamic array of Core/Types/Vec.h: a buffer, the number of its      *)
(* cells and the number of items in it. A buffer is a function from 0 on;  *)
(* `buff' is the counter that the code keeps beside it, and a write behind *)
(* the end leaves a cell that it does not count. Iterators are a vector    *)
(* and a position.                                                         *)
(*                                                                         *)
(* An assertion that fails ends the program, so that indices out of range  *)
(* and a step back to a position that is gone are no steps of the model.   *)
(* Two rules are left to the callers, and all of this repository's follow  *)
(* them: no vector is destroyed under an iterator, nor reduced under one   *)
(* that has been left behind its last item.                                *)
(***************************************************************************)
EXTENDS Sequences, Integers

CONSTANTS
    Vectors, Iterators,
    Items,        \* what a program may store
    Fresh,        \* the value of a cell that was made by new T[] and not written
    Step,         \* Vec::step
    MaxSize,      \* bound of the model: items in a vector
    NULL

ASSUME StepAssumption == Step \in Nat \ {0} /\ MaxSize \in Nat
ASSUME FreshAssumption == Fresh \notin Items
ASSUME NullAssumption == NULL \notin [parent: Vectors, pos: Nat]

VARIABLES
    alive,        \* the vectors that have been constructed and not destroyed
    vec,          \* what they consist of
    iter          \* where an iterator stands, NULL at the end

vars == <<alive, vec, iter>>

----------------------------------------------------------------------------
(* Buffers *)

Cells == Items \cup {Fresh}

NewBuffer(n) == [i \in 0..n - 1 |-> Fresh]

Put(arr, i, x) == [k \in DOMAIN arr \cup {i} |-> IF k = i THEN x ELSE arr[k]]

Cell(arr, i) == IF i \in DOMAIN arr THEN arr[i] ELSE Fresh

\* copy(res + d, src + s, n), also within one buffer when d < s.
Copied(res, d, src, s, n) ==
    [i \in DOMAIN res \cup d..d + n - 1 |->
        IF i \in d..d + n - 1 THEN Cell(src, i - d + s) ELSE res[i]]

Vector(arr, size, buff) == [arr |-> arr, size |-> size, buff |-> buff]

\* A C array: a function from 0 on.
Arrays == UNION {[0..n - 1 -> Items]: n \in 0..MaxSize}

Length(array) == CHOOSE n \in 0..MaxSize: DOMAIN array = 0..n - 1

----------------------------------------------------------------------------
(* What constructors and operations make of a vector *)

Empty(n) == Vector(NewBuffer(n), 0, n)

\* Faulty: counts the cells that a copy of a C array would have.
CopyOfCountingMore(other) ==
    Vector(Copied(NewBuffer(other.size), 0, other.arr, 0, other.size), other.size, other.size + Step)

\* The copy has a buffer of exactly the other's size, none when that is empty.
CopyOf(other) ==
    Vector(Copied(NewBuffer(other.size), 0, other.arr, 0, other.size), other.size, other.size)

FromArray(array) ==
    LET n == Length(array) IN
    Vector(Copied(NewBuffer(n + Step), 0, array, 0, n), n, n + Step)

\* A full buffer is copied with all its cells into one that is larger by Step.
Appended(this, x) ==
    LET larger == Copied(NewBuffer(this.buff + Step), 0, this.arr, 0, this.buff)
        room == IF this.size + 1 > this.buff THEN Vector(larger, this.size, this.buff + Step)
                ELSE this IN
    Vector(Put(room.arr, this.size, x), this.size + 1, room.buff)

\* A buffer for n items: this one, or a new one when they are more than its cells.
Room(this, n) == IF n > this.buff THEN Empty(n + Step) ELSE this

Replaced(this, src, n) ==
    LET room == Room(this, n) IN Vector(Copied(room.arr, 0, src, 0, n), n, room.buff)

SetTo(this, array) == Replaced(this, array, Length(array))

Assigned(this, other) == Replaced(this, other.arr, other.size)

\* A negative index counts from the end.
Index(i, size) == IF i >= 0 THEN i ELSE i + size

\* Faulty: moves one item too few.
RemovedShort(this, j) ==
    Vector(Copied(this.arr, j, this.arr, j + 1, this.size - (j + 2)), this.size - 1, this.buff)

\* The items behind j move; the cell that was the last one's keeps its item.
Removed(this, j) ==
    Vector(Copied(this.arr, j, this.arr, j + 1, this.size - (j + 1)), this.size - 1, this.buff)

\* Faulty: clears by starting with a new buffer.
ClearedAfresh(this) == Empty(Step)

Cleared(this) == [this EXCEPT !.size = 0]

\* The buffer is made to fit, which may be larger than it was.
Reduced(this) ==
    LET n == ((this.size \div Step) + 1) * Step IN
    Vector(Copied(NewBuffer(n), 0, this.arr, 0, this.size), this.size, n)

----------------------------------------------------------------------------
(* Actions on vectors *)

There(v) == v \in alive

Make(v, value) ==
    /\ ~There(v)
    /\ alive' = alive \cup {v}
    /\ vec' = [vec EXCEPT ![v] = value]
    /\ UNCHANGED iter

Change(v, value) ==
    /\ There(v)
    /\ vec' = [vec EXCEPT ![v] = value]
    /\ UNCHANGED <<alive, iter>>

Construct(v, n) == Make(v, Empty(n))

CopyConstruct(v, w) == There(w) /\ Make(v, CopyOf(vec[w]))

ConstructFrom(v, array) == Make(v, FromArray(array))

Destroy(v) ==
    /\ There(v)
    /\ alive' = alive \ {v}
    /\ vec' = [vec EXCEPT ![v] = Empty(0)]
    /\ UNCHANGED iter

AppendItem(v, x) == vec[v].size < MaxSize /\ Change(v, Appended(vec[v], x))

SetItems(v, array) == Change(v, SetTo(vec[v], array))

\* v = w, where w may be v itself.
Assign(v, w) == There(w) /\ Change(v, Assigned(vec[v], vec[w]))

Remove(v, i) ==
    LET j == Index(i, vec[v].size) IN
    j \in 0..vec[v].size - 1 /\ Change(v, Removed(vec[v], j))

Clear(v) == Change(v, Cleared(vec[v]))

Reduce(v) == Change(v, Reduced(vec[v]))

----------------------------------------------------------------------------
(* Iterators *)

Standing(v, pos) == [parent |-> v, pos |-> pos]

Iterate(it, v) ==
    /\ There(v)
    /\ iter' = [iter EXCEPT ![it] = IF vec[v].size = 0 THEN NULL ELSE Standing(v, 0)]
    /\ UNCHANGED <<alive, vec>>

MoveNext(it) ==
    /\ iter[it] # NULL
    /\ LET v == iter[it].parent
           next == iter[it].pos + 1 IN
           iter' = [iter EXCEPT ![it] = IF next >= vec[v].size THEN NULL ELSE Standing(v, next)]
    /\ UNCHANGED <<alive, vec>>

MovePrev(it) ==
    /\ iter[it] # NULL
    /\ LET v == iter[it].parent
           pos == iter[it].pos IN
           \/ pos = 0 /\ iter' = [iter EXCEPT ![it] = NULL]
           \/ pos # 0 /\ pos - 1 < vec[v].size /\ iter' = [iter EXCEPT ![it] = Standing(v, pos - 1)]
    /\ UNCHANGED <<alive, vec>>

Forget(it) ==
    /\ iter[it] # NULL
    /\ iter' = [iter EXCEPT ![it] = NULL]
    /\ UNCHANGED <<alive, vec>>

----------------------------------------------------------------------------
(* Queries *)

NotFound == -1

\* Faulty: begins behind the place it is given.
FindBehind(this, x, from) ==
    LET equal == {i \in from + 1..this.size - 1: this.arr[i] = x} IN
    IF equal = {} THEN NotFound ELSE CHOOSE i \in equal: \A k \in equal: i <= k

\* The loop of find stops at the first item that is equal.
Find(this, x, from) ==
    LET equal == {i \in from..this.size - 1: this.arr[i] = x} IN
    IF equal = {} THEN NotFound ELSE CHOOSE i \in equal: \A k \in equal: i <= k

\* NULL stands for the error OutOfRange.
At(this, i) ==
    LET j == Index(i, this.size) IN
    IF j \in 0..this.size - 1 THEN this.arr[j] ELSE NULL

Equal(this, other) ==
    /\ this.size = other.size
    /\ \A i \in 0..this.size - 1: this.arr[i] = other.arr[i]

----------------------------------------------------------------------------
Init ==
    /\ alive = {}
    /\ vec = [v \in Vectors |-> Empty(0)]
    /\ iter = [it \in Iterators |-> NULL]

StandsOn(it, v) == iter[it] # NULL /\ iter[it].parent = v

NoIterator(v) == \A it \in Iterators: ~StandsOn(it, v)

NoIteratorBehind(v) == \A it \in Iterators: StandsOn(it, v) => iter[it].pos < vec[v].size

NextOf(v) ==
    \/ \E n \in {0, Step}: Construct(v, n)
    \/ \E w \in Vectors: CopyConstruct(v, w) \/ Assign(v, w)
    \/ \E array \in Arrays: ConstructFrom(v, array) \/ SetItems(v, array)
    \/ \E x \in Items: AppendItem(v, x)
    \/ \E i \in -MaxSize..MaxSize - 1: Remove(v, i)
    \/ Clear(v)
    \/ NoIteratorBehind(v) /\ Reduce(v)
    \/ NoIterator(v) /\ Destroy(v)
    \/ \E it \in Iterators: Iterate(it, v)

Next ==
    \/ \E v \in Vectors: NextOf(v)
    \/ \E it \in Iterators: MoveNext(it) \/ MovePrev(it) \/ Forget(it)

Spec == Init /\ [][Next]_vars

----------------------------------------------------------------------------
(* Properties *)

\* What the caller of a vector sees of it.
List(this) == [k \in 1..this.size |-> this.arr[k - 1]]

\* A buffer has the cells that are counted, so that no operation writes behind its
\* end (the five ways in which Vec.h computes the size of a buffer agree with the
\* copies that follow), and the cells of items hold items: none is read unwritten.
VecTypeOK ==
    /\ alive \subseteq Vectors
    /\ DOMAIN vec = Vectors
    /\ \A v \in Vectors:
           /\ vec[v] \in [arr: [0..vec[v].buff - 1 -> Cells], size: 0..vec[v].buff, buff: Nat]
           /\ \A i \in 0..vec[v].size - 1: vec[v].arr[i] \in Items
    /\ iter \in [Iterators -> {NULL} \cup [parent: Vectors, pos: Nat]]

\* An iterator shows an item even when others have been removed from under it:
\* its position stays in the buffer, at a cell that was written (Vec.h:29), since
\* only reduce and the destructor make a buffer smaller.
IteratorReadsAnItem ==
    \A it \in Iterators: iter[it] # NULL =>
        LET v == iter[it].parent IN
        /\ There(v)
        /\ iter[it].pos < vec[v].buff
        /\ vec[v].arr[iter[it].pos] \in Items

Without(s, k) == [m \in 1..Len(s) - 1 |-> IF m < k THEN s[m] ELSE s[m + 1]]

ArrayList(array) == [k \in 1..Length(array) |-> array[k - 1]]

\* Whatever the buffers do, a vector is a list: what each operation makes of it
\* depends on the lists and not on capacities, old cells or who shares what.
ActsLikeAList ==
    [][\A v \in Vectors:
        /\ \A x \in Items: AppendItem(v, x) => List(vec'[v]) = Append(List(vec[v]), x)
        /\ \A i \in -MaxSize..MaxSize - 1:
               Remove(v, i) => List(vec'[v]) = Without(List(vec[v]), Index(i, vec[v].size) + 1)
        /\ \A w \in Vectors:
               CopyConstruct(v, w) \/ Assign(v, w) => List(vec'[v]) = List(vec[w])
        /\ \A array \in Arrays:
               ConstructFrom(v, array) \/ SetItems(v, array) => List(vec'[v]) = ArrayList(array)
        /\ Reduce(v) => List(vec'[v]) = List(vec[v])
        /\ \A w \in Vectors: vec'[v] = vec[v] \/ vec'[w] = vec[w] \/ v = w]_vars

\* Two vectors are equal when their lists are; an index, counted from either end,
\* and the first place of an item are those of the list.
QueriesAgree ==
    \A v \in Vectors: There(v) =>
        LET list == List(vec[v]) IN
        /\ \A w \in Vectors: There(w) => (Equal(vec[v], vec[w]) <=> list = List(vec[w]))
        /\ \A k \in 1..Len(list): At(vec[v], k - 1) = list[k] /\ At(vec[v], k - 1 - Len(list)) = list[k]
        /\ \A x \in Items, from \in 0..MaxSize:
               LET found == Find(vec[v], x, from) IN
               IF found = NotFound THEN \A k \in from + 1..Len(list): list[k] # x
               ELSE list[found + 1] = x /\ found >= from /\ \A k \in from + 1..found: list[k] # x
==============================================================================
