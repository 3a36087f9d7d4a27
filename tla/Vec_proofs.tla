----------------------------- MODULE Vec_proofs -----------------------------
(***************************************************************************)
(* Theorems about Vec, for any vectors, items, iterators, step and bound.  *)
(***************************************************************************)
EXTENDS Vec, SequenceTheorems, WellFoundedInduction, TLAPS

\* One vector is as VecTypeOK wants it.
IsVector(x) ==
    /\ x \in [arr: [0..x.buff - 1 -> Cells], size: 0..x.buff, buff: Nat]
    /\ \A i \in 0..x.size - 1: x.arr[i] \in Items

----------------------------------------------------------------------------
(* What the operations make of a vector *)

\* A new buffer is a vector without items, of the size that is counted.
LEMMA EmptyIsVector ==
    ASSUME NEW n \in Nat
    PROVE  IsVector(Empty(n)) /\ Empty(n).size = 0 /\ Empty(n).buff = n
BY DEF IsVector, Empty, Vector, NewBuffer, Cells

\* Copying n items into a buffer that has room for them makes a vector of these.
LEMMA CopiedIsVector ==
    ASSUME NEW room, IsVector(room), NEW n \in Nat, n <= room.buff,
           NEW src, \A i \in 0..n - 1: i \in DOMAIN src /\ src[i] \in Items,
           NEW x, x = Vector(Copied(room.arr, 0, src, 0, n), n, room.buff)
    PROVE  /\ IsVector(x)
           /\ x.buff = room.buff
           /\ List(x) = [k \in 1..n |-> src[k - 1]]
           /\ \A i \in 0..room.buff - 1:
                  room.arr[i] \in Items => x.arr[i] \in Items
<1> DEFINE arr == Copied(room.arr, 0, src, 0, n)
<1>1. DOMAIN arr = 0..room.buff - 1
    BY DEF arr, Copied, IsVector
<1>2. \A i \in 0..n - 1: arr[i] = src[i]
    BY DEF arr, Copied, IsVector, Cell
<1>3. \A i \in 0..room.buff - 1: ~(i < n) => arr[i] = room.arr[i]
    BY DEF arr, Copied, IsVector
<1>4. arr \in [0..room.buff - 1 -> Cells]
    <2>1. \A i \in 0..room.buff - 1: arr[i] \in Cells
        BY <1>2, <1>3 DEF IsVector, Cells
    <2> QED BY <1>1, <2>1 DEF arr, Copied
<1>5. x.arr = arr /\ x.size = n /\ x.buff = room.buff /\ room.buff \in Nat
    BY DEF Vector, IsVector
<1>6. IsVector(x)
    BY <1>2, <1>4, <1>5 DEF IsVector, Vector
<1>7. List(x) = [k \in 1..n |-> src[k - 1]]
    <2> HIDE DEF arr
    <2>1. \A k \in 1..n: x.arr[k - 1] = src[k - 1]
        BY <1>2, <1>5
    <2> QED BY <2>1, <1>5 DEF List
<1>8. \A i \in 0..room.buff - 1: room.arr[i] \in Items => x.arr[i] \in Items
    BY <1>2, <1>3, <1>5
<1> QED BY <1>5, <1>6, <1>7, <1>8

\* What a caller sees is a sequence, which two vectors share when they have the
\* same items in the same places.
LEMMA ListOfVector ==
    ASSUME NEW x, IsVector(x)
    PROVE  /\ List(x) \in Seq(Items)
           /\ Len(List(x)) = x.size
           /\ x.size \in Nat /\ x.buff \in Nat /\ x.size <= x.buff
           /\ \A k \in 1..x.size: List(x)[k] = x.arr[k - 1] /\ List(x)[k] \in Items
<1>1. x.size \in Nat /\ x.buff \in Nat /\ x.size <= x.buff
    BY DEF IsVector
<1>2. \A k \in 1..x.size: x.arr[k - 1] \in Items
    <2> TAKE k \in 1..x.size
    <2>1. k - 1 \in 0..x.size - 1
        BY <1>1
    <2> QED BY <2>1 DEF IsVector
<1>3. List(x) \in [1..x.size -> Items]
    BY <1>2 DEF List
<1>4. List(x) \in Seq(Items) /\ Len(List(x)) = x.size
    BY <1>1, <1>3
<1> QED BY <1>1, <1>2, <1>4 DEF List

\* An array is a function from 0 to its length, within the bound.
LEMMA LengthOfArray ==
    ASSUME NEW array \in Arrays
    PROVE  Length(array) \in 0..MaxSize /\ array \in [0..Length(array) - 1 -> Items]
<1>1. PICK n \in 0..MaxSize: array \in [0..n - 1 -> Items]
    BY DEF Arrays
<1>2. Length(array) \in 0..MaxSize /\ DOMAIN array = 0..Length(array) - 1
    BY <1>1 DEF Length
<1> QED BY <1>1, <1>2

\* A copy is a vector with the other's list.
LEMMA CopyOfIsVector ==
    ASSUME NEW other, IsVector(other)
    PROVE  IsVector(CopyOf(other)) /\ List(CopyOf(other)) = List(other)
<1>1. other.size \in Nat /\ DOMAIN other.arr = 0..other.buff - 1 /\ other.size <= other.buff
    BY DEF IsVector
<1>2. IsVector(Empty(other.size)) /\ Empty(other.size).buff = other.size
    BY <1>1, EmptyIsVector
<1>3. \A i \in 0..other.size - 1: i \in DOMAIN other.arr /\ other.arr[i] \in Items
    BY <1>1 DEF IsVector
<1>4. CopyOf(other) = Vector(Copied(Empty(other.size).arr, 0, other.arr, 0, other.size),
                             other.size, Empty(other.size).buff)
    BY <1>2 DEF CopyOf, Empty, Vector
<1> DEFINE room == Empty(other.size)
<1>5. other.size <= room.buff /\ IsVector(room)
    BY <1>1, <1>2
<1> HIDE DEF room
<1>6. /\ IsVector(CopyOf(other))
      /\ List(CopyOf(other)) = [k \in 1..other.size |-> other.arr[k - 1]]
    <2> DEFINE src == other.arr
               n == other.size
               x == CopyOf(other)
    <2>1. x = Vector(Copied(room.arr, 0, src, 0, n), n, room.buff)
        BY <1>4 DEF room
    <2>2. n \in Nat /\ n <= room.buff /\ \A i \in 0..n - 1: i \in DOMAIN src /\ src[i] \in Items
        BY <1>1, <1>3, <1>5
    <2> HIDE DEF src, n, x
    <2>3. IsVector(room)
        BY <1>5
    <2>4. IsVector(x) /\ x.buff = room.buff /\ List(x) = [k \in 1..n |-> src[k - 1]]
        BY <2>1, <2>2, <2>3, CopiedIsVector
    <2> QED BY <2>4 DEF src, n, x
<1> QED BY <1>6 DEF List

\* A vector made from an array has the array's items.
LEMMA FromArrayIsVector ==
    ASSUME NEW array \in Arrays
    PROVE  IsVector(FromArray(array)) /\ List(FromArray(array)) = ArrayList(array)
<1> DEFINE n == Length(array)
<1>1. n \in Nat /\ DOMAIN array = 0..n - 1 /\ (\A i \in 0..n - 1: array[i] \in Items) /\ n + Step \in Nat
      /\ n <= n + Step
    BY LengthOfArray, StepAssumption DEF StepAssumption
<1>2. IsVector(Empty(n + Step)) /\ Empty(n + Step).buff = n + Step
    BY <1>1, EmptyIsVector
<1>3. FromArray(array) = Vector(Copied(Empty(n + Step).arr, 0, array, 0, n), n, Empty(n + Step).buff)
    BY <1>2 DEF FromArray, Empty, Vector
<1> DEFINE room == Empty(n + Step)
           x == FromArray(array)
<1>4. IsVector(room) /\ n <= room.buff /\ x = Vector(Copied(room.arr, 0, array, 0, n), n, room.buff)
    BY <1>1, <1>2, <1>3
<1>5. \A i \in 0..n - 1: i \in DOMAIN array /\ array[i] \in Items
    BY <1>1
<1> HIDE DEF n, room, x
<1>6. IsVector(x) /\ List(x) = [k \in 1..n |-> array[k - 1]]
    BY <1>1, <1>4, <1>5, CopiedIsVector
<1> QED BY <1>6 DEF ArrayList, n, x

\* Room has n cells at least, and as many as there were.
LEMMA RoomIsVector ==
    ASSUME NEW this, IsVector(this), NEW n \in Nat
    PROVE  /\ IsVector(Room(this, n))
           /\ n <= Room(this, n).buff
           /\ this.buff <= Room(this, n).buff
           /\ \A i \in 0..this.buff - 1: i < n \/ (~(n > this.buff) /\ Room(this, n) = this)
<1>1. n + Step \in Nat /\ n <= n + Step /\ this.buff \in Nat
    BY StepAssumption DEF StepAssumption, IsVector
<1>2. CASE n > this.buff
    <2>1. Room(this, n) = Empty(n + Step)
        BY <1>2 DEF Room
    <2>2. IsVector(Empty(n + Step)) /\ Empty(n + Step).buff = n + Step
        BY <1>1, EmptyIsVector
    <2>3. \A i \in 0..this.buff - 1: i < n
        BY <1>1, <1>2
    <2> QED BY <1>1, <1>2, <2>1, <2>2, <2>3
<1>3. CASE ~(n > this.buff)
    BY <1>1, <1>3 DEF Room
<1> QED BY <1>2, <1>3

\* Setting and assigning leave the items given, and the cells that held an item
\* before hold one still.
LEMMA ReplacedIsVector ==
    ASSUME NEW this, IsVector(this), NEW n \in Nat, NEW src,
           \A i \in 0..n - 1: i \in DOMAIN src /\ src[i] \in Items
    PROVE  LET x == Replaced(this, src, n) IN
           /\ IsVector(x)
           /\ List(x) = [k \in 1..n |-> src[k - 1]]
           /\ this.buff <= x.buff
           /\ \A i \in 0..this.buff - 1: this.arr[i] \in Items => x.arr[i] \in Items
<1> DEFINE room == Room(this, n)
           x == Replaced(this, src, n)
<1>1. /\ IsVector(room) /\ n <= room.buff /\ this.buff <= room.buff
      /\ \A i \in 0..this.buff - 1: i < n \/ room = this
    BY RoomIsVector
<1>2. x = Vector(Copied(room.arr, 0, src, 0, n), n, room.buff)
    BY DEF x, room, Replaced
<1> HIDE DEF room, x
<1>3. /\ IsVector(x) /\ x.buff = room.buff
      /\ List(x) = [k \in 1..n |-> src[k - 1]]
      /\ \A i \in 0..room.buff - 1: room.arr[i] \in Items => x.arr[i] \in Items
    BY <1>1, <1>2, CopiedIsVector
<1>4. x.size = n
    BY <1>2 DEF Vector
<1>5. \A i \in 0..this.buff - 1: this.arr[i] \in Items => x.arr[i] \in Items
    <2> SUFFICES ASSUME NEW i \in 0..this.buff - 1, this.arr[i] \in Items
                 PROVE  x.arr[i] \in Items
        OBVIOUS
    <2>1. CASE i < n
        <3>1. i \in 0..x.size - 1
            BY <2>1, <1>4
        <3> QED BY <3>1, <1>3 DEF IsVector
    <2>2. CASE room = this
        BY <1>3, <2>2
    <2> QED BY <1>1, <2>1, <2>2
<1> QED BY <1>1, <1>3, <1>5 DEF x

\* Appending puts the item behind the others, in the old buffer or a larger one.
LEMMA AppendedIsVector ==
    ASSUME NEW this, IsVector(this), NEW x \in Items
    PROVE  LET y == Appended(this, x) IN
           /\ IsVector(y)
           /\ List(y) = Append(List(this), x)
           /\ this.buff <= y.buff
           /\ \A i \in 0..this.buff - 1: this.arr[i] \in Items => y.arr[i] \in Items
<1> DEFINE larger == Copied(NewBuffer(this.buff + Step), 0, this.arr, 0, this.buff)
           room == IF this.size + 1 > this.buff THEN Vector(larger, this.size, this.buff + Step)
                   ELSE this
           y == Appended(this, x)
<1>1. /\ this.buff \in Nat /\ this.size \in 0..this.buff
      /\ this.arr \in [0..this.buff - 1 -> Cells]
      /\ Step \in Nat /\ Step > 0
      /\ \A i \in 0..this.size - 1: this.arr[i] \in Items
    BY StepAssumption DEF StepAssumption, IsVector
<1>2. larger \in [0..this.buff + Step - 1 -> Cells]
    BY <1>1 DEF larger, Copied, NewBuffer, Cell, Cells
<1>3. \A i \in 0..this.buff - 1: larger[i] = this.arr[i]
    BY <1>1 DEF larger, Copied, NewBuffer, Cell
<1>4. /\ room.buff \in Nat /\ this.size < room.buff /\ this.buff <= room.buff
      /\ room.arr \in [0..room.buff - 1 -> Cells]
      /\ \A i \in 0..this.buff - 1: room.arr[i] = this.arr[i]
    <2>1. CASE this.size + 1 > this.buff
        <3>1. room = Vector(larger, this.size, this.buff + Step)
            BY <2>1 DEF room
        <3> HIDE DEF room, larger
        <3> QED BY <1>1, <1>2, <1>3, <3>1 DEF Vector
    <2>2. CASE ~(this.size + 1 > this.buff)
        <3>1. room = this
            BY <2>2 DEF room
        <3> HIDE DEF room
        <3> QED BY <1>1, <3>1, <2>2
    <2> QED BY <2>1, <2>2
<1>5. y = Vector(Put(room.arr, this.size, x), this.size + 1, room.buff)
    BY DEF y, Appended, room, larger
<1> HIDE DEF room, larger, y
<1>6. y.arr = Put(room.arr, this.size, x) /\ y.size = this.size + 1 /\ y.buff = room.buff
    BY <1>5 DEF Vector
<1>7. /\ y.arr \in [0..room.buff - 1 -> Cells]
      /\ y.arr[this.size] = x
      /\ \A i \in 0..room.buff - 1: i # this.size => y.arr[i] = room.arr[i]
    BY <1>1, <1>4, <1>6 DEF Put, Cells
<1>8. IsVector(y)
    <2>1. \A i \in 0..this.size: y.arr[i] \in Items
        <3> SUFFICES ASSUME NEW i \in 0..this.size PROVE y.arr[i] \in Items
            OBVIOUS
        <3>1. CASE i = this.size
            BY <3>1, <1>7
        <3>2. CASE i # this.size
            <4>1. i \in 0..this.size - 1 /\ i \in 0..this.buff - 1 /\ i \in 0..room.buff - 1
                BY <1>1, <1>4, <3>2
            <4> QED BY <1>1, <1>4, <1>7, <3>2, <4>1
        <3> QED BY <3>1, <3>2
    <2>2. y = [arr |-> y.arr, size |-> this.size + 1, buff |-> room.buff]
        BY <1>5, <1>6 DEF Vector
    <2>3. this.size + 1 \in 0..room.buff /\ 0..this.size + 1 - 1 = 0..this.size
        BY <1>1, <1>4
    <2> QED BY <1>4, <1>6, <1>7, <2>1, <2>2, <2>3 DEF IsVector
<1>9. List(y) = Append(List(this), x)
    <2> DEFINE a == List(this)
               b == List(y)
    <2>1. /\ a \in Seq(Items) /\ Len(a) = this.size
          /\ \A k \in 1..this.size: a[k] = this.arr[k - 1]
        BY ListOfVector
    <2>2. /\ b \in Seq(Items) /\ Len(b) = this.size + 1
          /\ \A k \in 1..this.size + 1: b[k] = y.arr[k - 1]
        BY <1>6, <1>8, ListOfVector
    <2> HIDE DEF a, b
    <2>3. /\ Append(a, x) \in Seq(Items) /\ Len(Append(a, x)) = this.size + 1
          /\ Append(a, x)[this.size + 1] = x
          /\ \A k \in 1..this.size: Append(a, x)[k] = a[k]
        BY <1>1, <2>1
    <2>4. b[this.size + 1] = x
        <3>1. PICK last \in Int: last = this.size + 1
            BY <1>1
        <3>2. last \in 1..this.size + 1 /\ last - 1 = this.size
            BY <1>1, <3>1
        <3>3. b[last] = y.arr[last - 1]
            BY <2>2, <3>2
        <3> QED BY <1>7, <3>1, <3>2, <3>3
    <2>5. \A k \in 1..this.size: b[k] = a[k]
        <3> TAKE k \in 1..this.size
        <3>1. k \in 1..this.size + 1 /\ k - 1 \in 0..this.buff - 1 /\ k - 1 \in 0..room.buff - 1
              /\ k - 1 # this.size
            BY <1>1, <1>4
        <3> QED BY <1>4, <1>7, <2>1, <2>2, <3>1
    <2>6. \A k \in 1..this.size + 1: b[k] = Append(a, x)[k]
        <3>1. \A k \in 1..this.size + 1: k = this.size + 1 \/ k \in 1..this.size
            BY <1>1
        <3> QED BY <2>3, <2>4, <2>5, <3>1
    <2>7. b = Append(a, x)
        BY <2>2, <2>3, <2>6, SeqEqual
    <2> QED BY <2>7 DEF a, b
<1>10. \A i \in 0..this.buff - 1: this.arr[i] \in Items => y.arr[i] \in Items
    <2> SUFFICES ASSUME NEW i \in 0..this.buff - 1, this.arr[i] \in Items
                 PROVE  y.arr[i] \in Items
        OBVIOUS
    <2>1. i \in 0..room.buff - 1
        BY <1>1, <1>4
    <2>2. CASE i = this.size
        BY <1>7, <2>2
    <2>3. CASE i # this.size
        BY <1>4, <1>7, <2>1, <2>3
    <2> QED BY <2>2, <2>3
<1> QED BY <1>4, <1>6, <1>8, <1>9, <1>10 DEF y

\* Removing item j leaves the list without it, and items in all the cells that had
\* some.
LEMMA RemovedIsVector ==
    ASSUME NEW this, IsVector(this), NEW j \in 0..this.size - 1
    PROVE  LET y == Removed(this, j) IN
           /\ IsVector(y)
           /\ List(y) = Without(List(this), j + 1)
           /\ y.buff = this.buff
           /\ \A i \in 0..this.buff - 1: this.arr[i] \in Items => y.arr[i] \in Items
<1> DEFINE y == Removed(this, j)
           n == this.size - (j + 1)
<1>1. /\ this.buff \in Nat /\ this.size \in 0..this.buff
      /\ this.arr \in [0..this.buff - 1 -> Cells]
      /\ \A i \in 0..this.size - 1: this.arr[i] \in Items
      /\ n \in Nat
    BY DEF IsVector
<1>2. /\ y.arr = Copied(this.arr, j, this.arr, j + 1, n)
      /\ y.size = this.size - 1 /\ y.buff = this.buff
      /\ y = [arr |-> y.arr, size |-> y.size, buff |-> y.buff]
    BY DEF y, Removed, Vector
<1>3. /\ DOMAIN y.arr = 0..this.buff - 1
      /\ \A i \in j..this.size - 2: y.arr[i] = this.arr[i + 1]
      /\ \A i \in 0..this.buff - 1: i \notin j..this.size - 2 => y.arr[i] = this.arr[i]
      /\ y.arr = [i \in DOMAIN y.arr |-> y.arr[i]]
    <2>1. DOMAIN this.arr \cup j..j + n - 1 = 0..this.buff - 1 /\ j..j + n - 1 = j..this.size - 2
        <3>1. j + n - 1 = this.size - 2
            <4> DEFINE s == this.size
            <4>1. s \in Int /\ j \in Int /\ n = s - (j + 1)
                BY <1>1
            <4> HIDE DEF s, n
            <4> QED BY <4>1 DEF s
        <3>2. \A i \in j..this.size - 2: i \in 0..this.buff - 1
            BY <1>1
        <3> HIDE DEF n
        <3> QED BY <1>1, <3>1, <3>2
    <2>2. y.arr = [i \in 0..this.buff - 1 |->
                      IF i \in j..this.size - 2 THEN Cell(this.arr, i - j + (j + 1)) ELSE this.arr[i]]
        BY <1>2, <2>1 DEF Copied
    <2>3. \A i \in j..this.size - 2:
              i \in 0..this.buff - 1 /\ Cell(this.arr, i - j + (j + 1)) = this.arr[i + 1]
        <3>1. \A i \in j..this.size - 2:
                  i \in 0..this.buff - 1 /\ i + 1 \in 0..this.buff - 1 /\ i - j + (j + 1) = i + 1
            BY <1>1
        <3> QED BY <1>1, <3>1 DEF Cell
    <2> QED BY <2>2, <2>3
<1> HIDE DEF y, n
<1>4. \A i \in j..this.size - 2: y.arr[i] \in Items
    <2> TAKE i \in j..this.size - 2
    <2>1. i + 1 \in 0..this.size - 1
        BY <1>1
    <2> QED BY <1>1, <1>3, <2>1
<1>5. /\ \A i \in 0..this.buff - 1: this.arr[i] \in Items => y.arr[i] \in Items
      /\ \A i \in 0..this.buff - 1: y.arr[i] \in Cells
    BY <1>1, <1>3, <1>4 DEF Cells
<1>6. IsVector(y)
    <2>1. y.arr \in [0..this.buff - 1 -> Cells]
        BY <1>3, <1>5
    <2>2. y.size \in 0..y.buff /\ y.buff \in Nat
        BY <1>1, <1>2
    <2>3. \A i \in 0..y.size - 1: y.arr[i] \in Items
        <3> TAKE i \in 0..y.size - 1
        <3>1. i \in 0..this.size - 1 /\ i \in 0..this.buff - 1
            BY <1>1, <1>2
        <3> QED BY <1>1, <1>5, <3>1
    <2> QED BY <1>2, <2>1, <2>2, <2>3 DEF IsVector
<1>7. List(y) = Without(List(this), j + 1)
    <2>1. Len(List(this)) = this.size /\ \A k \in 1..this.size: List(this)[k] = this.arr[k - 1]
        BY ListOfVector
    <2>2. \A k \in 1..this.size - 1:
              y.arr[k - 1] = IF k < j + 1 THEN List(this)[k] ELSE List(this)[k + 1]
        <3> TAKE k \in 1..this.size - 1
        <3>1. CASE k < j + 1
            <4>1. k - 1 \in 0..this.buff - 1 /\ k - 1 \notin j..this.size - 2 /\ k \in 1..this.size
                BY <1>1, <3>1
            <4> QED BY <1>3, <2>1, <3>1, <4>1
        <3>2. CASE ~(k < j + 1)
            <4>1. k - 1 \in j..this.size - 2 /\ k - 1 + 1 = k /\ k + 1 - 1 = k /\ k + 1 \in 1..this.size
                BY <1>1, <3>2
            <4> QED BY <1>3, <2>1, <3>2, <4>1
        <3> QED BY <3>1, <3>2
    <2> QED BY <1>2, <2>1, <2>2 DEF List, Without
<1> QED BY <1>2, <1>5, <1>6, <1>7 DEF y

\* The buffer that reduce makes has room for the items, and keeps them.
LEMMA ReducedIsVector ==
    ASSUME NEW this, IsVector(this)
    PROVE  /\ IsVector(Reduced(this))
           /\ List(Reduced(this)) = List(this)
           /\ this.size < Reduced(this).buff
           /\ Reduced(this).size = this.size
<1> DEFINE n == ((this.size \div Step) + 1) * Step
           room == Empty(n)
           x == Reduced(this)
<1>1. /\ this.size \in Nat /\ this.size <= this.buff /\ this.buff \in Nat
      /\ Step \in Nat /\ Step > 0
    BY StepAssumption DEF StepAssumption, IsVector
<1>2. n \in Nat /\ this.size < n
    <2> DEFINE q == this.size \div Step
    <2>1. q \in Nat /\ this.size < q * Step + Step
        <3>1. this.size = (Step * q) + (this.size % Step) /\ this.size % Step \in 0..Step - 1 /\ q \in Int
            BY <1>1
        <3>2. q >= 0
            BY <1>1
        <3> QED BY <1>1, <3>1, <3>2
    <2> HIDE DEF q
    <2>2. (q + 1) * Step = q * Step + Step
        BY <1>1, <2>1
    <2>3. q * Step \in Nat
        BY <1>1, <2>1
    <2> QED BY <1>1, <2>1, <2>2, <2>3 DEF q
<1>3. IsVector(room) /\ room.buff = n
    BY <1>2, EmptyIsVector
<1>4. x = Vector(Copied(room.arr, 0, this.arr, 0, this.size), this.size, room.buff)
    BY <1>3 DEF x, room, Reduced, Empty, Vector
<1>5. \A i \in 0..this.size - 1: i \in DOMAIN this.arr /\ this.arr[i] \in Items
    BY <1>1 DEF IsVector
<1> HIDE DEF n, room, x
<1>6. this.size <= room.buff
    BY <1>1, <1>2, <1>3
<1>7. IsVector(x) /\ x.buff = room.buff /\ List(x) = [k \in 1..this.size |-> this.arr[k - 1]]
    <2> DEFINE src == this.arr
               m == this.size
    <2>1. /\ m \in Nat /\ m <= room.buff /\ \A i \in 0..m - 1: i \in DOMAIN src /\ src[i] \in Items
          /\ x = Vector(Copied(room.arr, 0, src, 0, m), m, room.buff)
        BY <1>1, <1>4, <1>5, <1>6
    <2> HIDE DEF src, m
    <2>2. IsVector(x) /\ x.buff = room.buff /\ List(x) = [k \in 1..m |-> src[k - 1]]
        BY <1>3, <2>1, CopiedIsVector
    <2> QED BY <2>2 DEF src, m
<1>8. x.size = this.size
    BY <1>4 DEF Vector
<1> QED BY <1>2, <1>3, <1>7, <1>8 DEF List, x

----------------------------------------------------------------------------
(* The invariant *)

IInv == VecTypeOK /\ IteratorReadsAnItem

\* VecTypeOK, one vector at a time.
LEMMA TypeOfVectors ==
    VecTypeOK <=>
        /\ alive \subseteq Vectors
        /\ DOMAIN vec = Vectors
        /\ \A v \in Vectors: IsVector(vec[v])
        /\ iter \in [Iterators -> {NULL} \cup [parent: Vectors, pos: Nat]]
BY DEF VecTypeOK, IsVector

\* The same of the next state.
LEMMA TypeOfNextVectors ==
    VecTypeOK' <=>
        /\ alive' \subseteq Vectors
        /\ DOMAIN vec' = Vectors
        /\ \A v \in Vectors: IsVector(vec'[v])
        /\ iter' \in [Iterators -> {NULL} \cup [parent: Vectors, pos: Nat]]
BY DEF VecTypeOK, IsVector

\* Constructing keeps the invariant: no iterator stands on what is not there.
LEMMA MakeKeeps ==
    ASSUME IInv, NEW v \in Vectors, NEW value, IsVector(value), Make(v, value)
    PROVE  IInv' /\ vec'[v] = value /\ \A w \in Vectors \ {v}: vec'[w] = vec[w]
<1>1. VecTypeOK
    BY DEF IInv
<1>2. /\ v \notin alive /\ alive' = alive \cup {v} /\ iter' = iter
      /\ vec' = [vec EXCEPT ![v] = value]
    BY DEF Make, There
<1>3. DOMAIN vec' = Vectors /\ vec'[v] = value /\ \A w \in Vectors \ {v}: vec'[w] = vec[w]
    BY <1>1, <1>2, TypeOfVectors
<1>4. VecTypeOK'
    BY <1>1, <1>2, <1>3, TypeOfVectors, TypeOfNextVectors
<1>5. IteratorReadsAnItem'
    <2> SUFFICES ASSUME NEW it \in Iterators, iter[it] # NULL
                 PROVE  /\ iter[it].parent \in alive'
                        /\ iter[it].pos < vec'[iter[it].parent].buff
                        /\ vec'[iter[it].parent].arr[iter[it].pos] \in Items
        BY <1>2 DEF IteratorReadsAnItem, There
    <2>1. /\ iter[it].parent \in alive
          /\ iter[it].pos < vec[iter[it].parent].buff
          /\ vec[iter[it].parent].arr[iter[it].pos] \in Items
        BY DEF IInv, IteratorReadsAnItem, There
    <2>2. iter[it].parent \in Vectors \ {v}
        BY <1>1, <1>2, <2>1, TypeOfVectors
    <2> QED BY <1>2, <1>3, <2>1, <2>2
<1> QED BY <1>3, <1>4, <1>5 DEF IInv

\* So does a change that leaves an item under every iterator of the vector.
LEMMA ChangeKeeps ==
    ASSUME IInv, NEW v \in Vectors, NEW value, IsVector(value), Change(v, value),
           \A it \in Iterators: StandsOn(it, v) =>
               iter[it].pos < value.buff /\ value.arr[iter[it].pos] \in Items
    PROVE  IInv' /\ vec'[v] = value /\ \A w \in Vectors \ {v}: vec'[w] = vec[w]
<1>1. VecTypeOK
    BY DEF IInv
<1>2. v \in alive /\ alive' = alive /\ iter' = iter /\ vec' = [vec EXCEPT ![v] = value]
    BY DEF Change, There
<1>3. DOMAIN vec' = Vectors /\ vec'[v] = value /\ \A w \in Vectors \ {v}: vec'[w] = vec[w]
    BY <1>1, <1>2, TypeOfVectors
<1>4. VecTypeOK'
    BY <1>1, <1>2, <1>3, TypeOfVectors, TypeOfNextVectors
<1>5. IteratorReadsAnItem'
    <2> SUFFICES ASSUME NEW it \in Iterators, iter[it] # NULL
                 PROVE  /\ iter[it].parent \in alive'
                        /\ iter[it].pos < vec'[iter[it].parent].buff
                        /\ vec'[iter[it].parent].arr[iter[it].pos] \in Items
        BY <1>2 DEF IteratorReadsAnItem, There
    <2>1. /\ iter[it].parent \in alive
          /\ iter[it].pos < vec[iter[it].parent].buff
          /\ vec[iter[it].parent].arr[iter[it].pos] \in Items
        BY DEF IInv, IteratorReadsAnItem, There
    <2>2. CASE iter[it].parent = v
        BY <1>2, <1>3, <2>1, <2>2 DEF StandsOn
    <2>3. CASE iter[it].parent # v
        BY <1>1, <1>2, <1>3, <2>1, <2>3, TypeOfVectors
    <2> QED BY <2>2, <2>3
<1> QED BY <1>3, <1>4, <1>5 DEF IInv

\* The operations that leave an item in every cell that had one.
LEMMA ItemsUnderIterators ==
    ASSUME IInv, NEW v \in Vectors, NEW value, IsVector(value), vec[v].buff <= value.buff,
           \A i \in 0..vec[v].buff - 1: vec[v].arr[i] \in Items => value.arr[i] \in Items
    PROVE  \A it \in Iterators: StandsOn(it, v) =>
               iter[it].pos < value.buff /\ value.arr[iter[it].pos] \in Items
<1> SUFFICES ASSUME NEW it \in Iterators, StandsOn(it, v)
             PROVE  iter[it].pos < value.buff /\ value.arr[iter[it].pos] \in Items
    OBVIOUS
<1> DEFINE pos == iter[it].pos
<1>1. pos < vec[v].buff /\ vec[v].arr[pos] \in Items
    BY DEF IInv, IteratorReadsAnItem, StandsOn
<1>2. iter[it] # NULL /\ iter \in [Iterators -> {NULL} \cup [parent: Vectors, pos: Nat]]
    BY DEF IInv, VecTypeOK, StandsOn
<1>3. pos \in Nat
    BY <1>2
<1>4. vec[v].buff \in Nat /\ value.buff \in Nat
    BY DEF IInv, VecTypeOK, IsVector
<1> HIDE DEF pos
<1>5. pos \in 0..vec[v].buff - 1
    BY <1>1, <1>3, <1>4
<1> QED BY <1>1, <1>3, <1>4, <1>5 DEF pos

----------------------------------------------------------------------------
(* The actions, one by one: the invariant holds on, the list is as it should be *)

\* What is known of a vector in a state of the invariant.
LEMMA VectorsAreVectors ==
    ASSUME IInv, NEW v \in Vectors
    PROVE  IsVector(vec[v])
BY TypeOfVectors DEF IInv

LEMMA ConstructStep ==
    ASSUME IInv, NEW v \in Vectors, NEW n \in {0, Step}, Construct(v, n)
    PROVE  IInv' /\ \A w \in Vectors \ {v}: vec'[w] = vec[w]
<1>1. n \in Nat
    BY StepAssumption DEF StepAssumption
<1> QED BY <1>1, EmptyIsVector, MakeKeeps DEF Construct

LEMMA CopyConstructStep ==
    ASSUME IInv, NEW v \in Vectors, NEW w \in Vectors, CopyConstruct(v, w)
    PROVE  IInv' /\ List(vec'[v]) = List(vec[w]) /\ \A u \in Vectors \ {v}: vec'[u] = vec[u]
BY VectorsAreVectors, CopyOfIsVector, MakeKeeps DEF CopyConstruct

LEMMA ConstructFromStep ==
    ASSUME IInv, NEW v \in Vectors, NEW array \in Arrays, ConstructFrom(v, array)
    PROVE  IInv' /\ List(vec'[v]) = ArrayList(array) /\ \A u \in Vectors \ {v}: vec'[u] = vec[u]
BY FromArrayIsVector, MakeKeeps DEF ConstructFrom

LEMMA AppendStep ==
    ASSUME IInv, NEW v \in Vectors, NEW x \in Items, AppendItem(v, x)
    PROVE  IInv' /\ List(vec'[v]) = Append(List(vec[v]), x) /\ \A u \in Vectors \ {v}: vec'[u] = vec[u]
<1> DEFINE y == Appended(vec[v], x)
<1>1. IsVector(vec[v])
    BY VectorsAreVectors
<1>2. /\ IsVector(y) /\ List(y) = Append(List(vec[v]), x) /\ vec[v].buff <= y.buff
      /\ \A i \in 0..vec[v].buff - 1: vec[v].arr[i] \in Items => y.arr[i] \in Items
    BY <1>1, AppendedIsVector
<1>3. Change(v, y)
    BY DEF AppendItem
<1> HIDE DEF y
<1>4. \A it \in Iterators: StandsOn(it, v) => iter[it].pos < y.buff /\ y.arr[iter[it].pos] \in Items
    BY <1>2, ItemsUnderIterators
<1> QED BY <1>2, <1>3, <1>4, ChangeKeeps

\* Setting and assigning differ only in where the items come from.
LEMMA ReplacedStep ==
    ASSUME IInv, NEW v \in Vectors, NEW n \in Nat, NEW src,
           \A i \in 0..n - 1: i \in DOMAIN src /\ src[i] \in Items,
           Change(v, Replaced(vec[v], src, n))
    PROVE  /\ IInv'
           /\ List(vec'[v]) = [k \in 1..n |-> src[k - 1]]
           /\ \A u \in Vectors \ {v}: vec'[u] = vec[u]
<1> DEFINE y == Replaced(vec[v], src, n)
<1>1. IsVector(vec[v])
    BY VectorsAreVectors
<1>2. /\ IsVector(y) /\ List(y) = [k \in 1..n |-> src[k - 1]] /\ vec[v].buff <= y.buff
      /\ \A i \in 0..vec[v].buff - 1: vec[v].arr[i] \in Items => y.arr[i] \in Items
    BY <1>1, ReplacedIsVector
<1>3. Change(v, y)
    OBVIOUS
<1> HIDE DEF y
<1>4. \A it \in Iterators: StandsOn(it, v) => iter[it].pos < y.buff /\ y.arr[iter[it].pos] \in Items
    BY <1>2, ItemsUnderIterators
<1> QED BY <1>2, <1>3, <1>4, ChangeKeeps

LEMMA SetStep ==
    ASSUME IInv, NEW v \in Vectors, NEW array \in Arrays, SetItems(v, array)
    PROVE  IInv' /\ List(vec'[v]) = ArrayList(array) /\ \A u \in Vectors \ {v}: vec'[u] = vec[u]
<1> DEFINE n == Length(array)
<1>1. n \in Nat /\ \A i \in 0..n - 1: i \in DOMAIN array /\ array[i] \in Items
    BY LengthOfArray, StepAssumption DEF StepAssumption
<1>2. Change(v, Replaced(vec[v], array, n))
    BY DEF SetItems, SetTo
<1>3. ArrayList(array) = [k \in 1..n |-> array[k - 1]]
    BY DEF ArrayList
<1> HIDE DEF n
<1> QED BY <1>1, <1>2, <1>3, ReplacedStep

LEMMA AssignStep ==
    ASSUME IInv, NEW v \in Vectors, NEW w \in Vectors, Assign(v, w)
    PROVE  IInv' /\ List(vec'[v]) = List(vec[w]) /\ \A u \in Vectors \ {v}: vec'[u] = vec[u]
<1>1. PICK n, src: n = vec[w].size /\ src = vec[w].arr
    OBVIOUS
<1>2. n \in Nat /\ \A i \in 0..n - 1: i \in DOMAIN src /\ src[i] \in Items
    <2>1. IsVector(vec[w])
        BY VectorsAreVectors
    <2> QED BY <1>1, <2>1 DEF IsVector
<1>3. Change(v, Replaced(vec[v], src, n))
    BY <1>1 DEF Assign, Assigned
<1>4. List(vec[w]) = [k \in 1..n |-> src[k - 1]]
    BY <1>1 DEF List
<1>5. /\ IInv'
      /\ List(vec'[v]) = [k \in 1..n |-> src[k - 1]]
      /\ \A u \in Vectors \ {v}: vec'[u] = vec[u]
    BY <1>2, <1>3, ReplacedStep
<1> QED BY <1>4, <1>5

LEMMA RemoveStep ==
    ASSUME IInv, NEW v \in Vectors, NEW i \in Int, Remove(v, i)
    PROVE  /\ IInv'
           /\ List(vec'[v]) = Without(List(vec[v]), Index(i, vec[v].size) + 1)
           /\ \A u \in Vectors \ {v}: vec'[u] = vec[u]
<1> DEFINE j == Index(i, vec[v].size)
           y == Removed(vec[v], j)
<1>1. IsVector(vec[v])
    BY VectorsAreVectors
<1>2. j \in 0..vec[v].size - 1 /\ Change(v, y)
    BY DEF Remove
<1>3. /\ IsVector(y) /\ List(y) = Without(List(vec[v]), j + 1) /\ y.buff = vec[v].buff
      /\ \A k \in 0..vec[v].buff - 1: vec[v].arr[k] \in Items => y.arr[k] \in Items
    <2> HIDE DEF j
    <2> QED BY <1>1, <1>2, RemovedIsVector
<1>4. vec[v].buff <= y.buff
    <2>1. vec[v].buff \in Nat
        BY <1>1 DEF IsVector
    <2> QED BY <1>3, <2>1
<1> HIDE DEF y
<1>5. \A it \in Iterators: StandsOn(it, v) => iter[it].pos < y.buff /\ y.arr[iter[it].pos] \in Items
    BY <1>3, <1>4, ItemsUnderIterators
<1> QED BY <1>2, <1>3, <1>5, ChangeKeeps

LEMMA ClearStep ==
    ASSUME IInv, NEW v \in Vectors, Clear(v)
    PROVE  IInv' /\ \A u \in Vectors \ {v}: vec'[u] = vec[u]
<1> DEFINE y == Cleared(vec[v])
<1>1. IsVector(vec[v])
    BY VectorsAreVectors
<1>2. y.arr = vec[v].arr /\ y.buff = vec[v].buff /\ y.size = 0
      /\ y = [arr |-> y.arr, size |-> 0, buff |-> y.buff]
    BY <1>1 DEF y, Cleared, IsVector
<1>3. Change(v, y)
    BY DEF Clear
<1> HIDE DEF y
<1>4. IsVector(y) /\ vec[v].buff <= y.buff
    BY <1>1, <1>2 DEF IsVector
<1>5. \A it \in Iterators: StandsOn(it, v) => iter[it].pos < y.buff /\ y.arr[iter[it].pos] \in Items
    BY <1>2, <1>4, ItemsUnderIterators
<1> QED BY <1>3, <1>4, <1>5, ChangeKeeps

LEMMA ReduceStep ==
    ASSUME IInv, NEW v \in Vectors, NoIteratorBehind(v), Reduce(v)
    PROVE  IInv' /\ \A u \in Vectors \ {v}: vec'[u] = vec[u]
<1> DEFINE y == Reduced(vec[v])
<1>1. IsVector(vec[v])
    BY VectorsAreVectors
<1>2. IsVector(y) /\ vec[v].size < y.buff /\ y.size = vec[v].size
    BY <1>1, ReducedIsVector
<1>3. Change(v, y)
    BY DEF Reduce
<1> HIDE DEF y
<1>4. \A it \in Iterators: StandsOn(it, v) => iter[it].pos < y.buff /\ y.arr[iter[it].pos] \in Items
    <2> SUFFICES ASSUME NEW it \in Iterators, StandsOn(it, v)
                 PROVE  iter[it].pos < y.buff /\ y.arr[iter[it].pos] \in Items
        OBVIOUS
    <2>1. iter[it].pos \in Nat
        <3>1. iter \in [Iterators -> {NULL} \cup [parent: Vectors, pos: Nat]]
            BY DEF IInv, VecTypeOK
        <3> QED BY <3>1 DEF StandsOn
    <2>2. iter[it].pos < y.size
        BY <1>2 DEF NoIteratorBehind
    <2>3. y.size \in Nat /\ y.buff \in Nat /\ y.size < y.buff
        BY <1>2 DEF IsVector
    <2>4. iter[it].pos \in 0..y.size - 1 /\ iter[it].pos < y.buff
        BY <2>1, <2>2, <2>3
    <2> QED BY <1>2, <2>4 DEF IsVector
<1> QED BY <1>2, <1>3, <1>4, ChangeKeeps

LEMMA DestroyStep ==
    ASSUME IInv, NEW v \in Vectors, NoIterator(v), Destroy(v)
    PROVE  IInv' /\ \A u \in Vectors \ {v}: vec'[u] = vec[u]
<1>1. VecTypeOK /\ IsVector(Empty(0))
    BY EmptyIsVector DEF IInv
<1>2. alive' = alive \ {v} /\ iter' = iter /\ vec' = [vec EXCEPT ![v] = Empty(0)]
    BY DEF Destroy
<1>3. DOMAIN vec' = Vectors /\ vec'[v] = Empty(0) /\ \A w \in Vectors \ {v}: vec'[w] = vec[w]
    BY <1>1, <1>2, TypeOfVectors
<1>4. VecTypeOK'
    BY <1>1, <1>2, <1>3, TypeOfVectors, TypeOfNextVectors
<1>5. IteratorReadsAnItem'
    <2> SUFFICES ASSUME NEW it \in Iterators, iter[it] # NULL
                 PROVE  /\ iter[it].parent \in alive'
                        /\ iter[it].pos < vec'[iter[it].parent].buff
                        /\ vec'[iter[it].parent].arr[iter[it].pos] \in Items
        BY <1>2 DEF IteratorReadsAnItem, There
    <2>1. /\ iter[it].parent \in alive
          /\ iter[it].pos < vec[iter[it].parent].buff
          /\ vec[iter[it].parent].arr[iter[it].pos] \in Items
        BY DEF IInv, IteratorReadsAnItem, There
    <2>2. iter[it].parent \in Vectors \ {v}
        BY <1>1, <2>1, TypeOfVectors DEF NoIterator, StandsOn
    <2> QED BY <1>2, <1>3, <2>1, <2>2
<1> QED BY <1>3, <1>4, <1>5 DEF IInv

\* An iterator is put where an item is.
LEMMA IteratorStep ==
    ASSUME IInv, NEW it \in Iterators,
           (\E v \in Vectors: Iterate(it, v)) \/ MoveNext(it) \/ MovePrev(it) \/ Forget(it)
    PROVE  IInv' /\ vec' = vec
<1>1. VecTypeOK /\ iter \in [Iterators -> {NULL} \cup [parent: Vectors, pos: Nat]]
    BY DEF IInv, VecTypeOK
<1>2. vec' = vec /\ alive' = alive
    BY DEF Iterate, MoveNext, MovePrev, Forget
<1>3. \/ iter' = [iter EXCEPT ![it] = NULL]
      \/ \E v \in alive, pos \in Nat:
             pos < vec[v].size /\ iter' = [iter EXCEPT ![it] = Standing(v, pos)]
    <2>1. ASSUME NEW v \in Vectors, Iterate(it, v)
          PROVE  \/ iter' = [iter EXCEPT ![it] = NULL]
                 \/ \E w \in alive, pos \in Nat:
                        pos < vec[w].size /\ iter' = [iter EXCEPT ![it] = Standing(w, pos)]
        <3>1. CASE vec[v].size = 0
            BY <2>1, <3>1 DEF Iterate
        <3>2. CASE vec[v].size # 0
            <4>1. 0 < vec[v].size
                BY <3>2, VectorsAreVectors DEF IsVector
            <4>2. v \in alive /\ iter' = [iter EXCEPT ![it] = Standing(v, 0)]
                BY <2>1, <3>2 DEF Iterate, There
            <4> QED BY <4>1, <4>2
        <3> QED BY <3>1, <3>2
    <2>2. ASSUME iter[it] # NULL
          PROVE  iter[it].parent \in alive /\ iter[it].pos \in Nat /\ iter[it].parent \in Vectors
        BY <1>1, <2>2 DEF IInv, IteratorReadsAnItem, There
    <2>3. CASE MoveNext(it)
        <3> DEFINE v == iter[it].parent
                   next == iter[it].pos + 1
        <3>1. v \in alive /\ v \in Vectors /\ next \in Nat
            BY <2>2, <2>3 DEF MoveNext
        <3>2. iter' = [iter EXCEPT ![it] = IF next >= vec[v].size THEN NULL ELSE Standing(v, next)]
            BY <2>3 DEF MoveNext
        <3>3. vec[v].size \in Nat
            BY <3>1, VectorsAreVectors DEF IsVector
        <3> HIDE DEF v, next
        <3>4. CASE next >= vec[v].size
            BY <3>2, <3>4
        <3>5. CASE ~(next >= vec[v].size)
            <4>1. next < vec[v].size
                BY <3>1, <3>3, <3>5
            <4> QED BY <3>1, <3>2, <3>5, <4>1
        <3> QED BY <3>4, <3>5
    <2>4. CASE MovePrev(it)
        <3> DEFINE v == iter[it].parent
                   pos == iter[it].pos
        <3>1. v \in alive /\ v \in Vectors /\ pos \in Nat
            BY <2>2, <2>4 DEF MovePrev
        <3>2. \/ iter' = [iter EXCEPT ![it] = NULL]
              \/ pos # 0 /\ pos - 1 < vec[v].size /\ iter' = [iter EXCEPT ![it] = Standing(v, pos - 1)]
            BY <2>4 DEF MovePrev
        <3> HIDE DEF v, pos
        <3>3. pos # 0 => pos - 1 \in Nat
            BY <3>1
        <3> QED BY <3>1, <3>2, <3>3
    <2>5. CASE Forget(it)
        BY <2>5 DEF Forget
    <2> QED BY <2>1, <2>3, <2>4, <2>5
<1>4. IInv'
    <2>1. CASE iter' = [iter EXCEPT ![it] = NULL]
        <3>1. VecTypeOK'
            BY <1>1, <1>2, <2>1, TypeOfVectors, TypeOfNextVectors
        <3>2. IteratorReadsAnItem'
            BY <1>1, <1>2, <2>1 DEF IInv, IteratorReadsAnItem, There
        <3> QED BY <3>1, <3>2 DEF IInv
    <2>2. ASSUME NEW v \in alive, NEW pos \in Nat, pos < vec[v].size,
                 iter' = [iter EXCEPT ![it] = Standing(v, pos)]
          PROVE  IInv'
        <3>1. v \in Vectors /\ IsVector(vec[v])
            BY <1>1, TypeOfVectors
        <3>2. pos < vec[v].buff /\ vec[v].arr[pos] \in Items
            <4>1. vec[v].size \in Nat /\ vec[v].buff \in Nat /\ vec[v].size <= vec[v].buff
                BY <3>1 DEF IsVector
            <4>2. pos \in 0..vec[v].size - 1 /\ pos < vec[v].buff
                BY <2>2, <4>1
            <4> QED BY <3>1, <4>2 DEF IsVector
        <3>3. Standing(v, pos) \in [parent: Vectors, pos: Nat]
              /\ Standing(v, pos).parent = v /\ Standing(v, pos).pos = pos
            BY <3>1 DEF Standing
        <3>4. iter'[it] = Standing(v, pos) /\ \A jt \in Iterators: jt # it => iter'[jt] = iter[jt]
            BY <1>1, <2>2
        <3>5. VecTypeOK'
            <4>1. iter' \in [Iterators -> {NULL} \cup [parent: Vectors, pos: Nat]]
                BY <1>1, <2>2, <3>3
            <4> QED BY <1>1, <1>2, <4>1, TypeOfVectors, TypeOfNextVectors
        <3>6. IteratorReadsAnItem'
            BY <1>2, <3>2, <3>3, <3>4 DEF IInv, IteratorReadsAnItem, There
        <3> QED BY <3>5, <3>6 DEF IInv
    <2> QED BY <1>3, <2>1, <2>2
<1> QED BY <1>2, <1>4

----------------------------------------------------------------------------
(* The theorems *)

\* Every step keeps the invariant and changes one vector at most.
LEMMA StepKeeps ==
    ASSUME IInv, [Next]_vars
    PROVE  /\ IInv'
           /\ \A v, w \in Vectors: vec'[v] = vec[v] \/ vec'[w] = vec[w] \/ v = w
<1>1. CASE UNCHANGED vars
    BY <1>1 DEF vars, IInv, VecTypeOK, IteratorReadsAnItem, There
<1>2. ASSUME NEW it \in Iterators, MoveNext(it) \/ MovePrev(it) \/ Forget(it)
      PROVE  IInv' /\ vec' = vec
    BY <1>2, IteratorStep
<1>3. ASSUME NEW v \in Vectors, NextOf(v)
      PROVE  IInv' /\ \A u \in Vectors \ {v}: vec'[u] = vec[u]
    <2>1. ASSUME NEW n \in {0, Step}, Construct(v, n) PROVE IInv' /\ \A u \in Vectors \ {v}: vec'[u] = vec[u]
        BY <2>1, ConstructStep
    <2>2. ASSUME NEW w \in Vectors, CopyConstruct(v, w) \/ Assign(v, w)
          PROVE  IInv' /\ \A u \in Vectors \ {v}: vec'[u] = vec[u]
        BY <2>2, CopyConstructStep, AssignStep
    <2>3. ASSUME NEW array \in Arrays, ConstructFrom(v, array) \/ SetItems(v, array)
          PROVE  IInv' /\ \A u \in Vectors \ {v}: vec'[u] = vec[u]
        BY <2>3, ConstructFromStep, SetStep
    <2>4. ASSUME NEW x \in Items, AppendItem(v, x) PROVE IInv' /\ \A u \in Vectors \ {v}: vec'[u] = vec[u]
        BY <2>4, AppendStep
    <2>5. ASSUME NEW i \in -MaxSize..MaxSize - 1, Remove(v, i)
          PROVE  IInv' /\ \A u \in Vectors \ {v}: vec'[u] = vec[u]
        <3>1. i \in Int
            BY StepAssumption DEF StepAssumption
        <3> QED BY <2>5, <3>1, RemoveStep
    <2>6. CASE Clear(v)
        BY <2>6, ClearStep
    <2>7. CASE NoIteratorBehind(v) /\ Reduce(v)
        BY <2>7, ReduceStep
    <2>8. CASE NoIterator(v) /\ Destroy(v)
        BY <2>8, DestroyStep
    <2>9. ASSUME NEW it \in Iterators, Iterate(it, v) PROVE IInv' /\ vec' = vec
        BY <2>9, IteratorStep
    <2> QED BY <1>3, <2>1, <2>2, <2>3, <2>4, <2>5, <2>6, <2>7, <2>8, <2>9 DEF NextOf
<1>4. CASE \E v \in Vectors: NextOf(v)
    BY <1>3, <1>4
<1>5. CASE \E it \in Iterators: MoveNext(it) \/ MovePrev(it) \/ Forget(it)
    BY <1>2, <1>5
<1> QED BY <1>1, <1>4, <1>5 DEF Next, vars

LEMMA InitKeeps == Init => IInv
<1> SUFFICES ASSUME Init PROVE IInv
    OBVIOUS
<1>1. IsVector(Empty(0))
    BY EmptyIsVector
<1>2. VecTypeOK
    BY <1>1, TypeOfVectors DEF Init
<1>3. IteratorReadsAnItem
    BY DEF Init, IteratorReadsAnItem
<1> QED BY <1>2, <1>3 DEF IInv

\* The invariant holds in every state that a program reaches.
THEOREM Invariance == Spec => []IInv
<1>1. Init => IInv
    BY InitKeeps
<1>2. IInv /\ [Next]_vars => IInv'
    BY StepKeeps
<1> QED BY <1>1, <1>2, PTL DEF Spec

\* Buffers have the cells that are counted, and cells of items hold items.
THEOREM TypeCorrect == Spec => []VecTypeOK
<1>1. IInv => VecTypeOK
    BY DEF IInv
<1> QED BY <1>1, Invariance, PTL

\* An iterator shows an item, whatever is done to its vector in the meantime.
THEOREM IteratorsShowItems == Spec => []IteratorReadsAnItem
<1>1. IInv => IteratorReadsAnItem
    BY DEF IInv
<1> QED BY <1>1, Invariance, PTL

\* Each operation makes of the lists what it promises, for buffers of any size.
THEOREM VectorsAreLists == Spec => ActsLikeAList
<1> DEFINE A ==
        \A v \in Vectors:
            /\ \A x \in Items: AppendItem(v, x) => List(vec'[v]) = Append(List(vec[v]), x)
            /\ \A i \in -MaxSize..MaxSize - 1:
                   Remove(v, i) => List(vec'[v]) = Without(List(vec[v]), Index(i, vec[v].size) + 1)
            /\ \A w \in Vectors:
                   CopyConstruct(v, w) \/ Assign(v, w) => List(vec'[v]) = List(vec[w])
            /\ \A array \in Arrays:
                   ConstructFrom(v, array) \/ SetItems(v, array) => List(vec'[v]) = ArrayList(array)
            /\ Reduce(v) => List(vec'[v]) = List(vec[v])
            /\ \A w \in Vectors: vec'[v] = vec[v] \/ vec'[w] = vec[w] \/ v = w
<1>1. IInv /\ [Next]_vars => A
    <2> SUFFICES ASSUME IInv, [Next]_vars, NEW v \in Vectors
                 PROVE  /\ \A x \in Items: AppendItem(v, x) => List(vec'[v]) = Append(List(vec[v]), x)
                        /\ \A i \in -MaxSize..MaxSize - 1:
                               Remove(v, i) => List(vec'[v]) = Without(List(vec[v]), Index(i, vec[v].size) + 1)
                        /\ \A w \in Vectors:
                               CopyConstruct(v, w) \/ Assign(v, w) => List(vec'[v]) = List(vec[w])
                        /\ \A array \in Arrays:
                               ConstructFrom(v, array) \/ SetItems(v, array) => List(vec'[v]) = ArrayList(array)
                        /\ Reduce(v) => List(vec'[v]) = List(vec[v])
                        /\ \A w \in Vectors: vec'[v] = vec[v] \/ vec'[w] = vec[w] \/ v = w
        OBVIOUS
    <2>1. \A x \in Items: AppendItem(v, x) => List(vec'[v]) = Append(List(vec[v]), x)
        BY AppendStep
    <2>2. \A i \in -MaxSize..MaxSize - 1:
              Remove(v, i) => List(vec'[v]) = Without(List(vec[v]), Index(i, vec[v].size) + 1)
        <3>1. \A i \in -MaxSize..MaxSize - 1: i \in Int
            BY StepAssumption DEF StepAssumption
        <3> QED BY <3>1, RemoveStep
    <2>3. \A w \in Vectors: CopyConstruct(v, w) \/ Assign(v, w) => List(vec'[v]) = List(vec[w])
        BY CopyConstructStep, AssignStep
    <2>4. \A array \in Arrays:
              ConstructFrom(v, array) \/ SetItems(v, array) => List(vec'[v]) = ArrayList(array)
        BY ConstructFromStep, SetStep
    <2>5. Reduce(v) => List(vec'[v]) = List(vec[v])
        <3> SUFFICES ASSUME Reduce(v) PROVE List(vec'[v]) = List(vec[v])
            OBVIOUS
        <3>1. vec'[v] = Reduced(vec[v])
            BY DEF Reduce, Change, IInv, VecTypeOK
        <3> QED BY <3>1, VectorsAreVectors, ReducedIsVector
    <2>6. \A w \in Vectors: vec'[v] = vec[v] \/ vec'[w] = vec[w] \/ v = w
        BY StepKeeps
    <2> QED BY <2>1, <2>2, <2>3, <2>4, <2>5, <2>6
<1>2. [][IInv /\ [Next]_vars]_vars => [][A]_vars
    BY <1>1, PTL
<1>3. Spec => [][A]_vars
    BY <1>1, Invariance, PTL DEF Spec
<1> QED BY <1>3 DEF ActsLikeAList

----------------------------------------------------------------------------
(* What vectors answer *)

\* A set of indices has a least one.
LEMMA LeastIndex ==
    ASSUME NEW T, T \subseteq Nat, T # {}
    PROVE  \E i \in T: \A k \in T: i <= k
<1>1. \E R: IsWellFoundedOn(R, Nat) /\ \A y, x \in Nat: y < x => <<y, x>> \in R
    <2>1. \A y, x \in Nat: y < x => <<y, x>> \in OpToRel(<, Nat)
        BY DEF OpToRel
    <2> QED BY <2>1, NatLessThanWellFounded, Zenon
<1>2. PICK R: IsWellFoundedOn(R, Nat) /\ \A y, x \in Nat: y < x => <<y, x>> \in R
    BY <1>1, Zenon
<1>3. PICK x \in T: \A y \in T: ~(<<y, x>> \in R)
    <2>1. IsWellFoundedOn(R, Nat) /\ T \subseteq Nat /\ T # {}
        BY <1>2
    <2> QED BY ONLY <2>1, WFMin, Zenon
<1>4. ASSUME NEW k \in T PROVE x <= k
    <2>1. x \in Nat /\ k \in Nat
        OBVIOUS
    <2>2. ~(<<k, x>> \in R)
        BY <1>3, Zenon
    <2>3. ~(k < x)
        BY <1>2, <2>1, <2>2, Zenon
    <2> QED BY <2>1, <2>3
<1> QED BY <1>4

\* find stops at the first item that is equal, from where it begins.
LEMMA FindIsFirst ==
    ASSUME NEW this, this.size \in Nat, NEW x, NEW from \in Nat,
           NEW found, found = Find(this, x, from)
    PROVE  \/ found = NotFound /\ \A i \in from..this.size - 1: this.arr[i] # x
           \/ /\ found \in from..this.size - 1 /\ this.arr[found] = x
              /\ \A i \in from..this.size - 1: i < found => this.arr[i] # x
<1> DEFINE equal == {i \in from..this.size - 1: this.arr[i] = x}
<1>1. CASE equal = {}
    BY <1>1 DEF Find
<1>2. CASE equal # {}
    <2>1. found = CHOOSE i \in equal: \A k \in equal: i <= k
        BY <1>2 DEF Find
    <2>2. equal \subseteq Nat
        OBVIOUS
    <2> HIDE DEF equal
    <2>3. \E i \in equal: \A k \in equal: i <= k
        BY <1>2, <2>2, LeastIndex
    <2>4. found \in equal /\ \A k \in equal: found <= k
        BY <2>1, <2>3, Zenon
    <2> QED BY <2>4 DEF equal
<1> QED BY <1>1, <1>2

\* Equal compares what the callers of two vectors see.
LEMMA EqualAsLists ==
    ASSUME NEW a, IsVector(a), NEW b, IsVector(b)
    PROVE  Equal(a, b) <=> List(a) = List(b)
<1>1. /\ List(a) \in Seq(Items) /\ Len(List(a)) = a.size /\ a.size \in Nat
      /\ \A k \in 1..a.size: List(a)[k] = a.arr[k - 1]
    BY ListOfVector
<1>2. /\ List(b) \in Seq(Items) /\ Len(List(b)) = b.size /\ b.size \in Nat
      /\ \A k \in 1..b.size: List(b)[k] = b.arr[k - 1]
    BY ListOfVector
<1>3. ASSUME Equal(a, b) PROVE List(a) = List(b)
    <2>1. a.size = b.size /\ \A i \in 0..a.size - 1: a.arr[i] = b.arr[i]
        BY <1>3 DEF Equal
    <2>2. ASSUME NEW k \in 1..a.size PROVE List(a)[k] = List(b)[k]
        <3>1. k - 1 \in 0..a.size - 1
            BY <1>1
        <3> QED BY <1>1, <1>2, <2>1, <3>1
    <2> QED BY <1>1, <1>2, <2>1, <2>2, SeqEqual
<1>4. ASSUME List(a) = List(b) PROVE Equal(a, b)
    <2>1. a.size = b.size
        BY <1>1, <1>2, <1>4
    <2>2. ASSUME NEW i \in 0..a.size - 1 PROVE a.arr[i] = b.arr[i]
        <3>1. i + 1 \in 1..a.size /\ (i + 1) - 1 = i
            BY <1>1
        <3> QED BY <1>1, <1>2, <1>4, <2>1, <3>1
    <2> QED BY <2>1, <2>2 DEF Equal
<1> QED BY <1>3, <1>4

LEMMA QueriesFollow == IInv => QueriesAgree
<1> SUFFICES ASSUME IInv, NEW v \in Vectors, There(v),
                    NEW list, list = List(vec[v])
             PROVE  /\ \A w \in Vectors: There(w) => (Equal(vec[v], vec[w]) <=> list = List(vec[w]))
                    /\ \A k \in 1..Len(list):
                           At(vec[v], k - 1) = list[k] /\ At(vec[v], k - 1 - Len(list)) = list[k]
                    /\ \A x \in Items, from \in 0..MaxSize:
                           LET found == Find(vec[v], x, from) IN
                           IF found = NotFound THEN \A k \in from + 1..Len(list): list[k] # x
                           ELSE /\ list[found + 1] = x /\ found >= from
                                /\ \A k \in from + 1..found: list[k] # x
    BY DEF QueriesAgree
<1>1. \A w \in Vectors: IsVector(vec[w])
    BY VectorsAreVectors
<1> DEFINE this == vec[v]
           size == this.size
<1>2. /\ Len(list) = size /\ size \in Nat
      /\ \A k \in 1..size: list[k] = this.arr[k - 1]
    BY <1>1, ListOfVector
<1>3. ASSUME NEW w \in Vectors PROVE Equal(vec[v], vec[w]) <=> list = List(vec[w])
    BY <1>1, EqualAsLists
<1>4. ASSUME NEW k \in 1..Len(list)
      PROVE  At(vec[v], k - 1) = list[k] /\ At(vec[v], k - 1 - Len(list)) = list[k]
    <2>1. /\ k - 1 >= 0 /\ k - 1 \in 0..size - 1
          /\ ~(k - 1 - size >= 0) /\ k - 1 - size + size = k - 1
        BY <1>2
    <2>2. Index(k - 1, size) = k - 1 /\ Index(k - 1 - size, size) = k - 1
        BY <2>1 DEF Index
    <2> QED BY <1>2, <2>1, <2>2 DEF At
<1>5. ASSUME NEW x \in Items, NEW from \in 0..MaxSize, NEW found, found = Find(this, x, from)
      PROVE  IF found = NotFound THEN \A k \in from + 1..Len(list): list[k] # x
             ELSE /\ list[found + 1] = x /\ found >= from
                  /\ \A k \in from + 1..found: list[k] # x
    <2>1. from \in Nat /\ size \in Nat
        BY <1>2, StepAssumption DEF StepAssumption
    <2> HIDE DEF this, size
    <2>2. \/ found = NotFound /\ \A i \in from..this.size - 1: this.arr[i] # x
          \/ /\ found \in from..this.size - 1 /\ this.arr[found] = x
             /\ \A i \in from..this.size - 1: i < found => this.arr[i] # x
        BY <1>5, <2>1, FindIsFirst DEF size
    <2>3. CASE found = NotFound /\ \A i \in from..this.size - 1: this.arr[i] # x
        <3>1. ASSUME NEW k \in from + 1..Len(list) PROVE list[k] # x
            <4>1. k - 1 \in from..size - 1 /\ k \in 1..size
                BY <1>2, <2>1
            <4> QED BY <1>2, <2>3, <4>1 DEF size
        <3> QED BY <2>3, <3>1
    <2>4. CASE /\ found \in from..this.size - 1 /\ this.arr[found] = x
               /\ \A i \in from..this.size - 1: i < found => this.arr[i] # x
        <3>1. found \in from..size - 1 /\ found >= from /\ found # NotFound
            BY <2>1, <2>4 DEF size, NotFound
        <3>2. list[found + 1] = x
            <4>1. found + 1 \in 1..size /\ (found + 1) - 1 = found
                BY <2>1, <3>1
            <4> QED BY <1>2, <2>4, <4>1
        <3>3. ASSUME NEW k \in from + 1..found PROVE list[k] # x
            <4>1. k - 1 \in from..size - 1 /\ k - 1 < found /\ k \in 1..size
                BY <2>1, <3>1
            <4> QED BY <1>2, <2>4, <4>1 DEF size
        <3> QED BY <3>1, <3>2, <3>3
    <2> QED BY <2>2, <2>3, <2>4
<1> QED BY <1>3, <1>4, <1>5

\* Two vectors are equal when their lists are, an index is the list's from either end,
\* and find gives the first place of an item (Vec.h).
THEOREM VectorsAnswerAsLists == Spec => []QueriesAgree
BY Invariance, QueriesFollow, PTL
==============================================================================
