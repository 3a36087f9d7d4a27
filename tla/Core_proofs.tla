---------------------------- MODULE Core_proofs ----------------------------
(***************************************************************************)
(* Theorems about OptionResult and Str, for any containers, heap, strings  *)
(* and characters, and about the types of Core together.                   *)
(***************************************************************************)
EXTENDS MCCore, Vec_proofs

----------------------------------------------------------------------------
(* Options and results.  The invariant is stated of tables, not of the     *)
(* variables: an assignment lets go of the old cell and takes a new one,   *)
(* and in between the container is as one that is not there.               *)

\* The types of the tables.
TablesOK(t, m, k, h) ==
    /\ t \subseteq Containers
    /\ m \in [Containers -> HeapCells \cup {NoCell}]
    /\ k \in [Results -> BOOLEAN]
    /\ DOMAIN h \subseteq HeapCells

\* Cells and containers belong to each other, and cells hold what they should.
OwnInv(t, m, k, h) ==
    /\ TablesOK(t, m, k, h)
    /\ \A cell \in DOMAIN h: \E c \in t: m[c] = cell
    /\ \A c, d \in Containers: m[c] # NoCell /\ m[c] = m[d] => c = d
    /\ \A c \in Containers: m[c] # NoCell => c \in t /\ m[c] \in DOMAIN h
    /\ \A o \in Options: m[o] # NoCell => h[m[o]] \in Values
    /\ \A r \in Results: r \in t =>
           m[r] # NoCell /\ h[m[r]] \in (IF k[r] THEN Values ELSE Errors)

\* What a container has before is what it has after.
Keeps(c, m, h, m2, h2) ==
    m2[c] = m[c] /\ (m[c] # NoCell => m[c] \in DOMAIN h2 /\ h2[m[c]] = h[m[c]])

ContainerInv == misused = FALSE /\ OwnInv(there, mem, ok, heap)

\* The invariant is what the run checks.
LEMMA ContainerInvIs ==
    ContainerInv /\ mistyped \in BOOLEAN <=> OptionResultTypeOK /\ CellsHaveOneOwner
<1>1. ASSUME ContainerInv, mistyped \in BOOLEAN PROVE OptionResultTypeOK /\ CellsHaveOneOwner
    BY <1>1 DEF ContainerInv, OwnInv, TablesOK, OptionResultTypeOK, CellsHaveOneOwner, Owns, Allocated
<1>2. ASSUME OptionResultTypeOK, CellsHaveOneOwner PROVE ContainerInv /\ mistyped \in BOOLEAN
    BY <1>2 DEF ContainerInv, OwnInv, TablesOK, OptionResultTypeOK, CellsHaveOneOwner, Owns, Allocated, Containers
<1> QED BY <1>1, <1>2

\* The heap and the cell table when container c has let go of its cell.
HeapWithout(h, cell) == IF cell = NoCell THEN h ELSE Deleted(h, cell)

LEMMA LetsGo ==
    ASSUME NEW t, NEW m, NEW k, NEW h, OwnInv(t, m, k, h), NEW c \in Containers
    PROVE  LET m2 == [m EXCEPT ![c] = NoCell]
               h2 == HeapWithout(h, m[c]) IN
           /\ OwnInv(t \ {c}, m2, k, h2)
           /\ \A d \in Containers \ {c}: Keeps(d, m, h, m2, h2)
<1> DEFINE m2 == [m EXCEPT ![c] = NoCell]
           h2 == HeapWithout(h, m[c])
<1>1. /\ m2 \in [Containers -> HeapCells \cup {NoCell}]
      /\ m2[c] = NoCell /\ \A d \in Containers \ {c}: m2[d] = m[d]
    BY DEF OwnInv, TablesOK
<1>2. /\ DOMAIN h2 = DOMAIN h \ {m[c]}
      /\ \A cell \in DOMAIN h2: h2[cell] = h[cell]
    <2>1. CASE m[c] = NoCell
        <3>1. NoCell \notin DOMAIN h /\ h2 = h
            BY <2>1, OptionResultAssumption DEF HeapWithout, OwnInv, TablesOK, OptionResultAssumption
        <3> HIDE DEF h2
        <3> QED BY <2>1, <3>1
    <2>2. CASE m[c] # NoCell
        BY <2>2 DEF HeapWithout, Deleted
    <2> QED BY <2>1, <2>2
<1> HIDE DEF m2, h2
<1>3. ASSUME NEW d \in Containers \ {c} PROVE Keeps(d, m, h, m2, h2)
    BY <1>1, <1>2 DEF Keeps, OwnInv
<1>4. TablesOK(t \ {c}, m2, k, h2)
    BY <1>1, <1>2 DEF OwnInv, TablesOK
<1>5. ASSUME NEW cell \in DOMAIN h2 PROVE \E d \in t \ {c}: m2[d] = cell
    BY <1>1, <1>2 DEF OwnInv, TablesOK
<1>6. /\ \A d, e \in Containers: m2[d] # NoCell /\ m2[d] = m2[e] => d = e
      /\ \A d \in Containers: m2[d] # NoCell => d \in t \ {c} /\ m2[d] \in DOMAIN h2
    BY <1>1, <1>2 DEF OwnInv
<1>7. /\ \A o \in Options: m2[o] # NoCell => h2[m2[o]] \in Values
      /\ \A r \in Results: r \in t \ {c} =>
             m2[r] # NoCell /\ h2[m2[r]] \in (IF k[r] THEN Values ELSE Errors)
    BY <1>1, <1>2, <1>6 DEF OwnInv, Containers
<1> QED BY <1>3, <1>4, <1>5, <1>6, <1>7 DEF OwnInv, m2, h2

\* What container c may be given, `ok' being what k2 says then.
Suits(c, x, k2) ==
    /\ c \in Options => x \in Values
    /\ c \in Results => x \in (IF k2[c] THEN Values ELSE Errors)

DiffersAt(c, k, k2) == k2 \in [Results -> BOOLEAN] /\ \A r \in Results \ {c}: k2[r] = k[r]

\* Fill and FillFrom, of tables.
Fills(c, m, h, x, m2, h2) ==
    \E new \in HeapCells \ DOMAIN h: m2 = [m EXCEPT ![c] = new] /\ h2 = With(h, new, x)

Copies(c, m, h, cell, m2, h2) ==
    IF cell \in DOMAIN h
    THEN Fills(c, m, h, h[cell], m2, h2)
    ELSE m2 = [m EXCEPT ![c] = NoCell] /\ h2 = h

\* An option's step leaves `ok' alone.
LEMMA OptionsHaveNoOk ==
    ASSUME NEW o \in Options, NEW k \in [Results -> BOOLEAN]
    PROVE  /\ o \in Containers /\ o \notin Results /\ DiffersAt(o, k, k)
           /\ \A x \in Values: Suits(o, x, k)
BY OptionResultAssumption DEF Containers, DiffersAt, Suits, OptionResultAssumption

HoldsOnly(c, m, h, x) == Content(c, m, h) = {x}
HoldsNothing(c, m, h) == Content(c, m, h) = {}
HoldsAs(c, m2, h2, d, m, h) == Content(c, m2, h2) = Content(d, m, h)

\* A container that is not there gets a new cell.
LEMMA Takes ==
    ASSUME NEW t, NEW m, NEW k, NEW k2, NEW h, OwnInv(t, m, k, h),
           NEW c \in Containers, c \notin t, DiffersAt(c, k, k2),
           NEW x, Suits(c, x, k2), NEW m2, NEW h2, Fills(c, m, h, x, m2, h2)
    PROVE  /\ OwnInv(t \cup {c}, m2, k2, h2)
           /\ \A d \in Containers \ {c}: Keeps(d, m, h, m2, h2)
           /\ HoldsOnly(c, m2, h2, x)
<1>0. PICK cell \in HeapCells \ DOMAIN h: m2 = [m EXCEPT ![c] = cell] /\ h2 = With(h, cell, x)
    BY DEF Fills
<1>1. /\ m2 \in [Containers -> HeapCells \cup {NoCell}] /\ cell # NoCell
      /\ m2[c] = cell /\ \A d \in Containers \ {c}: m2[d] = m[d]
    BY <1>0, OptionResultAssumption DEF OwnInv, TablesOK, OptionResultAssumption
<1>2. /\ DOMAIN h2 = DOMAIN h \cup {cell} /\ h2[cell] = x
      /\ \A z \in DOMAIN h: h2[z] = h[z]
    BY <1>0 DEF With
<1>3. ASSUME NEW d \in Containers \ {c} PROVE Keeps(d, m, h, m2, h2)
    BY <1>1, <1>2 DEF Keeps, OwnInv
<1>4. TablesOK(t \cup {c}, m2, k2, h2)
    BY <1>1, <1>2 DEF OwnInv, TablesOK, DiffersAt
<1>5. ASSUME NEW z \in DOMAIN h2 PROVE \E d \in t \cup {c}: m2[d] = z
    <2>1. CASE z = cell
        BY <1>1, <2>1
    <2>2. CASE z # cell
        BY <1>1, <1>2, <2>2 DEF OwnInv, TablesOK
    <2> QED BY <2>1, <2>2
<1>6. /\ \A d, e \in Containers: m2[d] # NoCell /\ m2[d] = m2[e] => d = e
      /\ \A d \in Containers: m2[d] # NoCell => d \in t \cup {c} /\ m2[d] \in DOMAIN h2
    BY <1>1, <1>2 DEF OwnInv
<1>7. \A o \in Options: m2[o] # NoCell => h2[m2[o]] \in Values
    BY <1>1, <1>2, <1>6 DEF OwnInv, Containers, Suits
<1>8. ASSUME NEW r \in Results, r \in t \cup {c}
      PROVE  m2[r] # NoCell /\ h2[m2[r]] \in (IF k2[r] THEN Values ELSE Errors)
    BY <1>1, <1>2, <1>8 DEF OwnInv, Containers, Suits, DiffersAt
<1>9. HoldsOnly(c, m2, h2, x)
    BY <1>1, <1>2 DEF Content, HoldsOnly
<1> QED BY <1>3, <1>4, <1>5, <1>6, <1>7, <1>8, <1>9 DEF OwnInv

\* An empty option appears.
LEMMA AppearsEmpty ==
    ASSUME NEW t, NEW m, NEW k, NEW h, OwnInv(t, m, k, h), NEW o \in Options, o \notin t
    PROVE  /\ [m EXCEPT ![o] = NoCell] = m
           /\ OwnInv(t \cup {o}, m, k, h)
           /\ \A d \in Containers \ {o}: Keeps(d, m, h, m, h)
<1>1. m[o] = NoCell /\ o \in Containers /\ o \notin Results
    BY OptionResultAssumption DEF OwnInv, Containers
<1>2. [m EXCEPT ![o] = NoCell] = m
    BY <1>1 DEF OwnInv, TablesOK
<1> QED BY <1>1, <1>2 DEF OwnInv, TablesOK, Keeps, Containers

\* Container c, which is not there, gets a copy of what the cell of another one
\* holds, or what a cell that holds nothing yet is to hold.
LEMMA TakesCopy ==
    ASSUME NEW t, NEW m, NEW k, NEW k2, NEW h, OwnInv(t, m, k, h),
           NEW c \in Containers, c \notin t, DiffersAt(c, k, k2),
           NEW d \in t, c \in Options <=> d \in Options, c \in Results => k2[c] = k[d],
           NEW m2, NEW h2, Copies(c, m, h, m[d], m2, h2)
    PROVE  /\ OwnInv(t \cup {c}, m2, k2, h2)
           /\ \A e \in Containers \ {c}: Keeps(e, m, h, m2, h2)
           /\ ~DanglingRead(h, m[d])
           /\ HoldsAs(c, m2, h2, d, m, h)
<1>1. /\ d \in Containers /\ m[d] \in HeapCells \cup {NoCell} /\ NoCell \notin DOMAIN h
      /\ m[d] # NoCell => m[d] \in DOMAIN h
    BY OptionResultAssumption DEF OwnInv, TablesOK, OptionResultAssumption
<1>2. ~DanglingRead(h, m[d])
    BY <1>1 DEF DanglingRead, Allocated
<1>3. c \in Results <=> c \notin Options
    BY OptionResultAssumption DEF Containers, OptionResultAssumption
<1>4. CASE m[d] \in DOMAIN h
    <2>1. Fills(c, m, h, h[m[d]], m2, h2)
        BY <1>4 DEF Copies
    <2>2. c \in Options => h[m[d]] \in Values
        BY <1>1, <1>4 DEF OwnInv
    <2>3. c \in Results => h[m[d]] \in (IF k2[c] THEN Values ELSE Errors)
        BY <1>1, <1>3 DEF OwnInv, Containers
    <2>4. Suits(c, h[m[d]], k2)
        BY <2>2, <2>3 DEF Suits
    <2>5. /\ OwnInv(t \cup {c}, m2, k2, h2)
          /\ \A e \in Containers \ {c}: Keeps(e, m, h, m2, h2)
          /\ HoldsOnly(c, m2, h2, h[m[d]])
        BY <2>1, <2>4, Takes
    <2>6. HoldsAs(c, m2, h2, d, m, h)
        BY <1>4, <2>5 DEF Content, HoldsOnly, HoldsAs
    <2> QED BY <1>2, <2>5, <2>6
<1>5. CASE m[d] \notin DOMAIN h
    <2>1. m[d] = NoCell /\ m2 = [m EXCEPT ![c] = NoCell] /\ h2 = h
        BY <1>1, <1>5 DEF Copies
    <2>2. c \in Options
        BY <1>1, <1>3, <2>1 DEF OwnInv, Containers
    <2>3. k2 = k
        BY <1>3, <2>2 DEF OwnInv, TablesOK, DiffersAt
    <2>4. /\ m2 = m
          /\ OwnInv(t \cup {c}, m, k, h)
          /\ \A e \in Containers \ {c}: Keeps(e, m, h, m, h)
        BY <2>1, <2>2, AppearsEmpty
    <2>5. m[c] = NoCell
        BY <2>1, <2>4 DEF OwnInv, TablesOK
    <2>6. HoldsAs(c, m, h, d, m, h)
        BY <1>1, <2>1, <2>5 DEF Content, HoldsAs
    <2> QED BY <1>2, <2>1, <2>3, <2>4, <2>6
<1> QED BY <1>4, <1>5

\* What a container holds does not depend on the others' cells.
LEMMA KeptContent ==
    ASSUME NEW t, NEW m, NEW k, NEW h, OwnInv(t, m, k, h),
           NEW t2, NEW m2, NEW k2, NEW h2, OwnInv(t2, m2, k2, h2),
           NEW c \in Containers, Keeps(c, m, h, m2, h2)
    PROVE  Content(c, m2, h2) = Content(c, m, h)
<1>1. DOMAIN h \subseteq HeapCells /\ DOMAIN h2 \subseteq HeapCells /\ NoCell \notin HeapCells
    BY OptionResultAssumption DEF OwnInv, TablesOK, OptionResultAssumption
<1>2. m[c] # NoCell => m[c] \in DOMAIN h
    BY DEF OwnInv
<1> QED BY <1>1, <1>2 DEF Keeps, Content

----------------------------------------------------------------------------
(* The steps of options and results: each keeps the invariant, and what    *)
(* all containers but its own hold.                                        *)

OthersKeep(c) == \A d \in Containers \ {c}: Keeps(d, mem, heap, mem', heap')

\* The facts that an option's step starts from.
LEMMA OptionFacts ==
    ASSUME ContainerInv, NEW o \in Options
    PROVE  /\ misused = FALSE /\ OwnInv(there, mem, ok, heap)
           /\ o \in Containers /\ o \notin Results
           /\ ok \in [Results -> BOOLEAN] /\ mem \in [Containers -> HeapCells \cup {NoCell}]
           /\ DiffersAt(o, ok, ok) /\ \A x \in Values: Suits(o, x, ok)
BY OptionsHaveNoOk DEF ContainerInv, OwnInv, TablesOK

LEMMA ConstructFullStep ==
    ASSUME ContainerInv, NEW o \in Options, NEW x \in Values, ConstructFull(o, x)
    PROVE  ContainerInv' /\ OthersKeep(o) /\ HoldsOnly(o, mem', heap', x)
<1>0. /\ misused = FALSE /\ OwnInv(there, mem, ok, heap) /\ o \in Containers
      /\ DiffersAt(o, ok, ok) /\ Suits(o, x, ok)
    BY OptionFacts
<1>1. Fills(o, mem, heap, x, mem', heap')
    BY DEF ConstructFull, Fill, Fills, Allocated
<1>2. o \notin there /\ there' = there \cup {o} /\ ok' = ok /\ misused' = misused
    BY DEF ConstructFull, Appear
<1>3. OwnInv(there \cup {o}, mem', ok, heap') /\ OthersKeep(o) /\ HoldsOnly(o, mem', heap', x)
    BY <1>0, <1>1, <1>2, Takes DEF OthersKeep
<1> QED BY <1>0, <1>2, <1>3 DEF ContainerInv

LEMMA CopyOptionStep ==
    ASSUME ContainerInv, NEW o \in Options, NEW other \in Options, CopyOption(o, other)
    PROVE  /\ ContainerInv' /\ OthersKeep(o)
           /\ HoldsAs(o, mem', heap', other, mem, heap)
<1>0. /\ misused = FALSE /\ OwnInv(there, mem, ok, heap)
      /\ o \in Containers /\ o \notin Results /\ DiffersAt(o, ok, ok)
    BY OptionFacts
<1>1. /\ other \in there /\ o \notin there /\ there' = there \cup {o} /\ ok' = ok
      /\ misused' = (misused \/ DanglingRead(heap, mem[other]))
    BY DEF CopyOption, Appear
<1>2. Copies(o, mem, heap, mem[other], mem', heap')
    BY DEF CopyOption, FillFrom, Fill, Fills, Vacate, Allocated, Copies
<1>3. /\ OwnInv(there \cup {o}, mem', ok, heap') /\ OthersKeep(o)
      /\ ~DanglingRead(heap, mem[other])
      /\ HoldsAs(o, mem', heap', other, mem, heap)
    BY <1>0, <1>1, <1>2, TakesCopy DEF OthersKeep
<1> QED BY <1>0, <1>1, <1>3 DEF ContainerInv

LEMMA AssignValueStep ==
    ASSUME ContainerInv, NEW o \in Options, NEW x \in Values, AssignValue(o, x)
    PROVE  ContainerInv' /\ OthersKeep(o) /\ HoldsOnly(o, mem', heap', x)
<1>0. /\ misused = FALSE /\ OwnInv(there, mem, ok, heap) /\ o \in Containers
      /\ mem \in [Containers -> HeapCells \cup {NoCell}]
      /\ DiffersAt(o, ok, ok) /\ Suits(o, x, ok)
    BY OptionFacts
<1>1. o \in there /\ there' = there /\ ok' = ok /\ misused' = misused
    BY DEF AssignValue
<1>2. CASE mem[o] = NoCell
    <2>1. Fills(o, mem, heap, x, mem', heap')
        BY <1>2 DEF AssignValue, Fill, Fills, Allocated
    <2>2. HeapWithout(heap, mem[o]) = heap /\ [mem EXCEPT ![o] = NoCell] = mem
        BY <1>0, <1>2 DEF HeapWithout
    <2>3. OwnInv(there \ {o}, [mem EXCEPT ![o] = NoCell], ok, HeapWithout(heap, mem[o]))
        BY <1>0, LetsGo
    <2>. OwnInv(there \ {o}, mem, ok, heap)
        BY <2>2, <2>3
    <2>. o \notin there \ {o}
        OBVIOUS
    <2>4. /\ OwnInv((there \ {o}) \cup {o}, mem', ok, heap') /\ OthersKeep(o)
          /\ HoldsOnly(o, mem', heap', x)
        BY <1>0, <2>1, <2>3, Takes DEF OthersKeep
    <2>5. (there \ {o}) \cup {o} = there
        BY <1>1
    <2> QED BY <1>0, <1>1, <2>4, <2>5 DEF ContainerInv
<1>3. CASE mem[o] # NoCell
    <2>1. mem' = mem /\ heap' = [heap EXCEPT ![mem[o]] = x]
        BY <1>3 DEF AssignValue
    <2>2. /\ DOMAIN heap' = DOMAIN heap /\ mem[o] \in DOMAIN heap
          /\ \A c \in Containers: mem[c] # NoCell =>
                 /\ mem[c] \in DOMAIN heap
                 /\ heap'[mem[c]] = IF c = o THEN x ELSE heap[mem[c]]
        BY <1>0, <1>3, <2>1 DEF OwnInv
    <2>3. OthersKeep(o) /\ HoldsOnly(o, mem', heap', x)
        BY <1>0, <1>3, <2>1, <2>2 DEF OthersKeep, Keeps, HoldsOnly, Content
    <2>4. o \notin Results
        BY OptionFacts
    <2>5. OwnInv(there, mem, ok, heap')
        BY <1>0, <2>2, <2>4 DEF OwnInv, TablesOK, Containers
    <2> QED BY <1>0, <1>1, <2>1, <2>3, <2>5 DEF ContainerInv
<1> QED BY <1>2, <1>3

\* A container c that has let go of its cell gets a copy of another one's content.
LEMMA Exchanges ==
    ASSUME NEW t, NEW m, NEW k, NEW k2, NEW h, OwnInv(t, m, k, h),
           NEW c \in t, NEW d \in t, d # c, DiffersAt(c, k, k2),
           c \in Options <=> d \in Options, c \in Results => k2[c] = k[d],
           NEW m2, NEW h2, Copies(c, m, HeapWithout(h, m[c]), m[d], m2, h2)
    PROVE  /\ OwnInv(t, m2, k2, h2)
           /\ \A e \in Containers \ {c}: Keeps(e, m, h, m2, h2)
           /\ ~DanglingRead(HeapWithout(h, m[c]), m[d])
           /\ HoldsAs(c, m2, h2, d, m, h)
<1> DEFINE m1 == [m EXCEPT ![c] = NoCell]
           h1 == HeapWithout(h, m[c])
<1>1. /\ c \in Containers /\ d \in Containers
      /\ m \in [Containers -> HeapCells \cup {NoCell}]
    BY DEF OwnInv, TablesOK
<1>2. OwnInv(t \ {c}, m1, k, h1) /\ \A e \in Containers \ {c}: Keeps(e, m, h, m1, h1)
    BY <1>1, LetsGo
<1>3. Copies(c, m1, h1, m[d], m2, h2)
    BY <1>1 DEF Copies, Fills
<1>4. m1[d] = m[d] /\ d \in t \ {c} /\ c \notin t \ {c} /\ (t \ {c}) \cup {c} = t
    BY <1>1
<1>5. h1 = HeapWithout(h, m[c])
    OBVIOUS
<1> HIDE DEF m1, h1
<1>6. Copies(c, m1, h1, m1[d], m2, h2)
    BY <1>3, <1>4
<1>7. /\ OwnInv((t \ {c}) \cup {c}, m2, k2, h2)
      /\ \A e \in Containers \ {c}: Keeps(e, m1, h1, m2, h2)
      /\ ~DanglingRead(h1, m1[d])
      /\ HoldsAs(c, m2, h2, d, m1, h1)
    BY <1>1, <1>2, <1>4, <1>6, TakesCopy
<1>8. Content(d, m1, h1) = Content(d, m, h)
    BY <1>1, <1>2, KeptContent
<1>9. \A e \in Containers \ {c}: Keeps(e, m, h, m2, h2)
    BY <1>2, <1>7 DEF Keeps
<1> QED BY <1>4, <1>5, <1>7, <1>8, <1>9 DEF HoldsAs

LEMMA AssignOptionStep ==
    ASSUME ContainerInv, NEW o \in Options, NEW other \in Options, AssignOption(o, other)
    PROVE  /\ ContainerInv' /\ OthersKeep(o)
           /\ o # other => HoldsAs(o, mem', heap', other, mem, heap)
           /\ o = other => HoldsNothing(o, mem', heap')
<1> DEFINE h1 == HeapWithout(heap, mem[o])
           cell1 == IF other = o THEN NoCell ELSE mem[other]
<1>0. /\ misused = FALSE /\ OwnInv(there, mem, ok, heap)
      /\ o \in Containers /\ o \notin Results /\ DiffersAt(o, ok, ok)
      /\ mem \in [Containers -> HeapCells \cup {NoCell}]
    BY OptionFacts
<1>1. /\ o \in there /\ other \in there /\ there' = there /\ ok' = ok
      /\ Copies(o, mem, h1, cell1, mem', heap')
      /\ misused' = (misused \/ DanglingDelete(mem[o]) \/ DanglingRead(h1, cell1))
    BY DEF AssignOption, FillFrom, Fill, Fills, Vacate, HeapWithout, Allocated, Copies
<1>2. ~DanglingDelete(mem[o])
    BY <1>0 DEF OwnInv, DanglingDelete, Allocated
<1>3. CASE other = o
    <2> DEFINE m1 == [mem EXCEPT ![o] = NoCell]
    <2>1. OwnInv(there \ {o}, m1, ok, h1) /\ \A d \in Containers \ {o}: Keeps(d, mem, heap, m1, h1)
        BY <1>0, LetsGo
    <2>2. NoCell \notin DOMAIN h1
        BY <2>1, OptionResultAssumption DEF OwnInv, TablesOK, OptionResultAssumption
    <2>3. mem' = [mem EXCEPT ![o] = NoCell] /\ heap' = h1 /\ ~DanglingRead(h1, cell1)
        BY <1>1, <1>3, <2>2 DEF DanglingRead, Copies
    <2>4. mem' = m1 /\ m1 = [m1 EXCEPT ![o] = NoCell] /\ o \notin there \ {o}
        BY <1>0, <2>3
    <2>5. OthersKeep(o)
        BY <2>1, <2>3, <2>4 DEF OthersKeep
    <2>6. (there \ {o}) \cup {o} = there
        BY <1>1
    <2>8. HoldsNothing(o, mem', heap')
        BY <1>0, <2>2, <2>3 DEF HoldsNothing, Content
    <2> HIDE DEF m1, h1
    <2>7. OwnInv((there \ {o}) \cup {o}, m1, ok, h1)
        BY <2>1, <2>4, AppearsEmpty
    <2> QED BY <1>0, <1>1, <1>2, <1>3, <2>3, <2>4, <2>5, <2>6, <2>7, <2>8 DEF ContainerInv
<1>4. CASE other # o
    <2>1. cell1 = mem[other]
        BY <1>4
    <2>2. Copies(o, mem, HeapWithout(heap, mem[o]), mem[other], mem', heap')
        BY <1>1, <2>1
    <2>3. /\ OwnInv(there, mem', ok, heap') /\ OthersKeep(o)
          /\ ~DanglingRead(HeapWithout(heap, mem[o]), mem[other])
          /\ HoldsAs(o, mem', heap', other, mem, heap)
        BY <1>0, <1>1, <1>4, <2>2, Exchanges DEF OthersKeep
    <2> QED BY <1>0, <1>1, <1>2, <1>4, <2>1, <2>3 DEF ContainerInv
<1> QED BY <1>3, <1>4

LEMMA OptionSteps ==
    ASSUME ContainerInv, NEW o \in Options, NextOption(o)
    PROVE  ContainerInv' /\ OthersKeep(o)
<1>0. /\ misused = FALSE /\ OwnInv(there, mem, ok, heap)
      /\ o \in Containers /\ mem \in [Containers -> HeapCells \cup {NoCell}]
    BY OptionFacts
<1>1. CASE ConstructEmpty(o)
    <2>1. /\ o \notin there /\ there' = there \cup {o} /\ ok' = ok /\ misused' = misused
          /\ mem' = [mem EXCEPT ![o] = NoCell] /\ heap' = heap
        BY <1>1 DEF ConstructEmpty, Appear, Vacate
    <2>2. mem' = mem
        BY <1>0, <2>1, AppearsEmpty
    <2>3. OwnInv(there \cup {o}, mem, ok, heap) /\ \A d \in Containers \ {o}: Keeps(d, mem, heap, mem, heap)
        BY <1>0, <2>1, AppearsEmpty
    <2> QED BY <1>0, <2>1, <2>2, <2>3 DEF ContainerInv, OthersKeep
<1>2. ASSUME NEW other \in Options, NEW x \in Values, Maybe(o, other, x)
      PROVE  ContainerInv' /\ OthersKeep(o)
    BY <1>2, CopyOptionStep, ConstructFullStep DEF Maybe
<1>3. CASE DestroyOption(o)
    <2>1. /\ there' = there \ {o} /\ ok' = ok
          /\ mem' = [mem EXCEPT ![o] = NoCell] /\ heap' = HeapWithout(heap, mem[o])
          /\ misused' = (misused \/ DanglingDelete(mem[o]))
        BY <1>3 DEF DestroyOption, Vacate, HeapWithout
    <2>2. ~DanglingDelete(mem[o])
        BY <1>0 DEF OwnInv, DanglingDelete, Allocated
    <2>3. OwnInv(there', mem', ok', heap') /\ OthersKeep(o)
        BY <1>0, <2>1, LetsGo DEF OthersKeep
    <2> QED BY <1>0, <2>1, <2>2, <2>3 DEF ContainerInv
<1> QED BY <1>1, <1>2, <1>3, ConstructFullStep, AssignValueStep, CopyOptionStep,
           AssignOptionStep DEF NextOption

\* The facts that a result's step starts from.
LEMMA ResultFacts ==
    ASSUME ContainerInv, NEW r \in Results
    PROVE  /\ misused = FALSE /\ OwnInv(there, mem, ok, heap)
           /\ r \in Containers /\ r \notin Options /\ ok \in [Results -> BOOLEAN]
           /\ \A b \in BOOLEAN: DiffersAt(r, ok, [ok EXCEPT ![r] = b])
BY OptionResultAssumption
   DEF ContainerInv, OwnInv, TablesOK, Containers, DiffersAt, OptionResultAssumption

LEMMA CopyResultStep ==
    ASSUME ContainerInv, NEW r \in Results, NEW other \in Results, CopyResult(r, other)
    PROVE  /\ ContainerInv' /\ OthersKeep(r)
           /\ HoldsAs(r, mem', heap', other, mem, heap)
           /\ ok'[r] = ok[other]
<1>0. /\ misused = FALSE /\ OwnInv(there, mem, ok, heap)
      /\ r \in Containers /\ r \notin Options /\ other \notin Options
      /\ ok \in [Results -> BOOLEAN]
    BY ResultFacts
<1>1. /\ other \in there /\ r \notin there /\ there' = there \cup {r}
      /\ ok' = [ok EXCEPT ![r] = ok[other]]
      /\ misused' = (misused \/ DanglingRead(heap, mem[other]))
    BY DEF CopyResult, Appear
<1>2. DiffersAt(r, ok, ok') /\ ok'[r] = ok[other]
    BY <1>0, <1>1, ResultFacts
<1>3. Copies(r, mem, heap, mem[other], mem', heap')
    BY DEF CopyResult, FillFrom, Fill, Fills, Vacate, Allocated, Copies
<1>4. /\ OwnInv(there \cup {r}, mem', ok', heap') /\ OthersKeep(r)
      /\ ~DanglingRead(heap, mem[other])
      /\ HoldsAs(r, mem', heap', other, mem, heap)
    BY <1>0, <1>1, <1>2, <1>3, TakesCopy, ZenonT(40) DEF OthersKeep
<1> QED BY <1>0, <1>1, <1>2, <1>4 DEF ContainerInv

LEMMA AssignResultStep ==
    ASSUME ContainerInv, NEW r \in Results, NEW other \in Results, AssignResult(r, other)
    PROVE  /\ ContainerInv' /\ OthersKeep(r)
           /\ HoldsAs(r, mem', heap', other, mem, heap)
           /\ ok'[r] = ok[other]
<1>0. /\ misused = FALSE /\ OwnInv(there, mem, ok, heap)
      /\ r \in Containers /\ r \notin Options /\ other \notin Options
      /\ ok \in [Results -> BOOLEAN]
    BY ResultFacts
<1>1. r \in there /\ other \in there /\ there' = there
    BY DEF AssignResult
<1>2. CASE other = r
    <2>1. mem' = mem /\ ok' = ok /\ heap' = heap /\ misused' = misused
        BY <1>2 DEF AssignResult
    <2>2. OthersKeep(r)
        BY <1>0, <2>1 DEF OthersKeep, Keeps, OwnInv
    <2> QED BY <1>0, <1>1, <1>2, <2>1, <2>2 DEF ContainerInv, HoldsAs
<1>3. CASE other # r
    <2>1. /\ ok' = [ok EXCEPT ![r] = ok[other]]
          /\ Copies(r, mem, HeapWithout(heap, mem[r]), mem[other], mem', heap')
          /\ misused' = \/ misused
                        \/ DanglingDelete(mem[r])
                        \/ DanglingRead(HeapWithout(heap, mem[r]), mem[other])
        BY <1>3 DEF AssignResult, FillFrom, Fill, Fills, Vacate, HeapWithout, Allocated, Copies
    <2>2. /\ DiffersAt(r, ok, ok') /\ ok'[r] = ok[other]
          /\ r \in Options <=> other \in Options
          /\ r \in Results => ok'[r] = ok[other]
        BY <1>0, <2>1, ResultFacts
    <2>3. /\ OwnInv(there, mem', ok', heap') /\ OthersKeep(r)
          /\ ~DanglingRead(HeapWithout(heap, mem[r]), mem[other])
          /\ HoldsAs(r, mem', heap', other, mem, heap)
        <3>1. OwnInv(there, mem, ok, heap) /\ r \in there /\ other \in there /\ other # r
            BY <1>0, <1>1, <1>3
        <3>2. Copies(r, mem, HeapWithout(heap, mem[r]), mem[other], mem', heap')
            BY <2>1
        <3> QED BY ONLY <3>1, <3>2, <2>2, Exchanges DEF OthersKeep
    <2>4. ~DanglingDelete(mem[r])
        BY <1>0 DEF OwnInv, DanglingDelete, Allocated
    <2> QED BY <1>0, <1>1, <2>1, <2>2, <2>3, <2>4 DEF ContainerInv
<1> QED BY <1>2, <1>3

LEMMA ResultSteps ==
    ASSUME ContainerInv, NEW r \in Results, NextResult(r)
    PROVE  ContainerInv' /\ OthersKeep(r)
<1>0. /\ misused = FALSE /\ OwnInv(there, mem, ok, heap)
      /\ r \in Containers /\ r \notin Options /\ ok \in [Results -> BOOLEAN]
    BY ResultFacts
<1>1. CASE DestroyResult(r)
    <2>1. /\ there' = there \ {r} /\ ok' = ok /\ r \in there
          /\ mem' = [mem EXCEPT ![r] = NoCell] /\ heap' = HeapWithout(heap, mem[r])
          /\ misused' = (misused \/ DanglingDelete(mem[r]))
        BY <1>1 DEF DestroyResult, Vacate, HeapWithout
    <2>2. ~DanglingDelete(mem[r])
        BY <1>0 DEF OwnInv, DanglingDelete, Allocated
    <2>3. OwnInv(there', mem', ok', heap') /\ OthersKeep(r)
        BY <1>0, <2>1, LetsGo DEF OthersKeep
    <2> QED BY <1>0, <2>1, <2>2, <2>3 DEF ContainerInv
<1>2. ASSUME NEW x \in Values \cup Errors, ConstructResult(r, x)
      PROVE  ContainerInv' /\ OthersKeep(r)
    <2>1. /\ r \notin there /\ there' = there \cup {r} /\ misused' = misused
          /\ ok' = [ok EXCEPT ![r] = x \in Values]
        BY <1>2 DEF ConstructResult, Appear
    <2>2. Fills(r, mem, heap, x, mem', heap')
        BY <1>2 DEF ConstructResult, Fill, Fills, Allocated
    <2>3. DiffersAt(r, ok, ok')
        <3>1. (x \in Values) \in BOOLEAN
            OBVIOUS
        <3> QED BY <2>1, <3>1, ResultFacts
    <2>4. Suits(r, x, ok')
        BY <1>0, <2>1 DEF Suits
    <2>5. OwnInv(there \cup {r}, mem', ok', heap') /\ OthersKeep(r)
        BY <1>0, <2>1, <2>2, <2>3, <2>4, Takes DEF OthersKeep
    <2> QED BY <1>0, <2>1, <2>5 DEF ContainerInv
<1> QED BY <1>1, <1>2, CopyResultStep, AssignResultStep DEF NextResult

LEMMA ContainerSteps ==
    ASSUME ContainerInv, [ContainerNext]_containerVars
    PROVE  ContainerInv' /\ (UNCHANGED containerVars \/ \E c \in Containers: OthersKeep(c))
<1>1. CASE ContainerNext
    BY <1>1, OptionSteps, ResultSteps DEF ContainerNext, Containers
<1>2. CASE UNCHANGED containerVars
    BY <1>2 DEF ContainerInv, OwnInv, TablesOK, containerVars, OthersKeep, Keeps
<1> QED BY <1>1, <1>2

LEMMA ContainersInvariant == ContainerSpec => []ContainerInv
<1>1. ContainerInit => ContainerInv
    <2> SUFFICES ASSUME ContainerInit PROVE ContainerInv
        OBVIOUS
    <2>1. /\ there = {} /\ mem = [c \in Containers |-> NoCell] /\ ok = [r \in Results |-> FALSE]
          /\ DOMAIN heap = {} /\ misused = FALSE
        BY DEF ContainerInit
    <2>2. \A c \in Containers: mem[c] = NoCell
        BY <2>1
    <2>3. TablesOK(there, mem, ok, heap)
        BY <2>1 DEF TablesOK
    <2> QED BY <2>1, <2>2, <2>3 DEF ContainerInv, OwnInv, Containers
<1>2. ContainerInv /\ [ContainerNext]_containerVars => ContainerInv'
    BY ContainerSteps
<1> QED BY <1>1, <1>2, PTL DEF ContainerSpec

\* An option's cells hold values: none goes as another type.
LEMMA OptionsDeleteValues ==
    ASSUME ContainerInv, NEW o \in Options
    PROVE  ~WrongType(mem[o], TRUE)
BY OptionFacts, OptionResultAssumption
   DEF WrongType, Allocated, OwnInv, TablesOK, OptionResultAssumption

\* A result's cell goes as what it was made as exactly when `ok' is still its own.
LEMMA ResultsDeleteBy ==
    ASSUME ContainerInv, NEW r \in Results, r \in there, NEW b \in BOOLEAN
    PROVE  WrongType(mem[r], b) <=> b # ok[r]
<1>1. /\ mem[r] \in DOMAIN heap /\ ok[r] \in BOOLEAN
      /\ heap[mem[r]] \in (IF ok[r] THEN Values ELSE Errors)
    BY ResultFacts DEF OwnInv
<1>2. heap[mem[r]] \in Values <=> ok[r]
    BY <1>1, OptionResultAssumption DEF OptionResultAssumption
<1> QED BY <1>1, <1>2 DEF WrongType, Allocated

\* Which operations delete a cell as what it is not.
LEMMA MistypedSteps ==
    ASSUME ContainerInv, ContainerNext
    PROVE  /\ mistyped' \in BOOLEAN
           /\ mistyped' <=> \E r, other \in Results: AssignResult(r, other) /\ ok[r] # ok[other]
<1> DEFINE Mixed == \E r, other \in Results: AssignResult(r, other) /\ ok[r] # ok[other]
<1>1. ASSUME NEW r \in Results, NEW other \in Results, AssignResult(r, other)
      PROVE  mistyped' = (ok[r] # ok[other])
    <2>1. r \in there /\ ok[r] \in BOOLEAN /\ ok[other] \in BOOLEAN
        BY <1>1, ResultFacts DEF AssignResult
    <2>2. CASE other = r
        BY <1>1, <2>2 DEF AssignResult
    <2>3. CASE other # r
        <3>1. mistyped' = WrongType(mem[r], ok[other])
            BY <1>1, <2>3 DEF AssignResult
        <3>2. WrongType(mem[r], ok[other]) = (ok[r] # ok[other])
            BY <2>1, ResultsDeleteBy DEF WrongType
        <3> QED BY <3>1, <3>2
    <2> QED BY <2>2, <2>3
<1>2. Mixed => mistyped'
    BY <1>1
<1>3. mistyped' = FALSE \/ \E r, other \in Results: AssignResult(r, other)
    <2>1. ASSUME NEW o \in Options, NextOption(o) PROVE mistyped' = FALSE
        <3>1. WrongType(mem[o], TRUE) = FALSE
            BY OptionsDeleteValues DEF WrongType
        <3>2. CASE ConstructEmpty(o) \/ DestroyOption(o)
            BY <3>1, <3>2 DEF ConstructEmpty, DestroyOption
        <3>3. ASSUME NEW x \in Values, ConstructFull(o, x) \/ AssignValue(o, x)
              PROVE  mistyped' = FALSE
            BY <3>3 DEF ConstructFull, AssignValue
        <3>4. ASSUME NEW other \in Options, CopyOption(o, other) \/ AssignOption(o, other)
              PROVE  mistyped' = FALSE
            BY <3>1, <3>4 DEF CopyOption, AssignOption
        <3>5. ASSUME NEW other \in Options, NEW x \in Values, Maybe(o, other, x)
              PROVE  mistyped' = FALSE
            BY <3>3, <3>4, <3>5 DEF Maybe
        <3> QED BY <2>1, <3>2, <3>3, <3>4, <3>5 DEF NextOption
    <2>2. ASSUME NEW r \in Results, NextResult(r)
          PROVE  mistyped' = FALSE \/ \E other \in Results: AssignResult(r, other)
        <3>1. CASE DestroyResult(r)
            <4>1. r \in there /\ mistyped' = WrongType(mem[r], ok[r]) /\ ok[r] \in BOOLEAN
                BY <3>1, ResultFacts DEF DestroyResult
            <4>2. WrongType(mem[r], ok[r]) = FALSE
                BY <4>1, ResultsDeleteBy DEF WrongType
            <4> QED BY <4>1, <4>2
        <3>2. ASSUME NEW x \in Values \cup Errors, ConstructResult(r, x)
              PROVE  mistyped' = FALSE
            BY <3>2 DEF ConstructResult
        <3>3. ASSUME NEW other \in Results, CopyResult(r, other)
              PROVE  mistyped' = FALSE
            BY <3>3 DEF CopyResult
        <3> QED BY <2>2, <3>1, <3>2, <3>3 DEF NextResult
    <2> QED BY <2>1, <2>2 DEF ContainerNext
<1>4. mistyped' \in BOOLEAN /\ (mistyped' => Mixed)
    BY <1>1, <1>3
<1> QED BY <1>2, <1>4

LEMMA MistypedIsBoolean == ContainerSpec => [](mistyped \in BOOLEAN)
<1>1. ContainerInit => mistyped \in BOOLEAN
    BY DEF ContainerInit
<1>2. ContainerInv /\ mistyped \in BOOLEAN /\ [ContainerNext]_containerVars
          => (mistyped \in BOOLEAN)'
    BY MistypedSteps DEF containerVars
<1> QED BY <1>1, <1>2, ContainersInvariant, PTL DEF ContainerSpec

\* The tables of Options and Results have their types.
THEOREM ContainersKeepTypes == ContainerSpec => []OptionResultTypeOK
<1>1. ContainerInv /\ mistyped \in BOOLEAN => OptionResultTypeOK
    BY ContainerInvIs
<1> QED BY <1>1, ContainersInvariant, MistypedIsBoolean, PTL

\* Whatever Options and Results are made, copied, assigned and destroyed, in whatever
\* order, successes to failures too: every cell has one owner, which deletes it once,
\* and `ok' tells what the cell of a Result holds (Option.h, Result.h).
THEOREM CellsKeepOneOwner == ContainerSpec => []CellsHaveOneOwner
<1>1. ContainerInv /\ mistyped \in BOOLEAN => CellsHaveOneOwner
    BY ContainerInvIs
<1> QED BY <1>1, ContainersInvariant, MistypedIsBoolean, PTL

\* What an operation is said to do to what containers hold.
ValueStep ==
    LET Now(c) == Content(c, mem, heap)
        Next1(c) == Content(c, mem', heap') IN
    /\ \A c, d \in Containers: Next1(c) = Now(c) \/ Next1(d) = Now(d) \/ c = d
    /\ \A o, other \in Options:
           CopyOption(o, other) \/ (AssignOption(o, other) /\ o # other) => Next1(o) = Now(other)
    /\ \A o \in Options, x \in Values:
           ConstructFull(o, x) \/ AssignValue(o, x) => Next1(o) = {x}
    /\ \A r, other \in Results:
           CopyResult(r, other) \/ AssignResult(r, other) =>
               Next1(r) = Now(other) /\ ok'[r] = ok[other]
    /\ \A o \in Options: AssignOption(o, o) => Next1(o) = {}
    /\ mistyped' <=> \E r, other \in Results: AssignResult(r, other) /\ ok[r] # ok[other]

LEMMA ValueSteps ==
    ASSUME ContainerInv, ContainerNext
    PROVE  ValueStep
<1>1. ASSUME NEW c \in Containers, NEW d \in Containers, c # d
      PROVE  \/ Content(c, mem', heap') = Content(c, mem, heap)
             \/ Content(d, mem', heap') = Content(d, mem, heap)
    <2>1. OwnInv(there, mem, ok, heap) /\ OwnInv(there', mem', ok', heap')
        BY ContainerSteps DEF ContainerInv
    <2>2. CASE UNCHANGED containerVars
        BY <2>2 DEF containerVars
    <2>3. ASSUME NEW e \in Containers, OthersKeep(e), NEW f \in Containers \ {e}
          PROVE  Content(f, mem', heap') = Content(f, mem, heap)
        <3>1. Keeps(f, mem, heap, mem', heap')
            BY <2>3 DEF OthersKeep
        <3> QED BY <2>1, <3>1, KeptContent
    <2> QED BY <1>1, <2>2, <2>3, ContainerSteps
<1>2. ASSUME NEW o \in Options, NEW other \in Options,
             CopyOption(o, other) \/ (AssignOption(o, other) /\ o # other)
      PROVE  Content(o, mem', heap') = Content(other, mem, heap)
    BY <1>2, CopyOptionStep, AssignOptionStep DEF HoldsAs
<1>3. ASSUME NEW o \in Options, NEW x \in Values, ConstructFull(o, x) \/ AssignValue(o, x)
      PROVE  Content(o, mem', heap') = {x}
    BY <1>3, ConstructFullStep, AssignValueStep DEF HoldsOnly
<1>4. ASSUME NEW r \in Results, NEW other \in Results,
             CopyResult(r, other) \/ AssignResult(r, other)
      PROVE  Content(r, mem', heap') = Content(other, mem, heap) /\ ok'[r] = ok[other]
    BY <1>4, CopyResultStep, AssignResultStep DEF HoldsAs
<1>5. ASSUME NEW o \in Options, AssignOption(o, o)
      PROVE  Content(o, mem', heap') = {}
    BY <1>5, AssignOptionStep DEF HoldsNothing
<1> QED BY <1>1, <1>2, <1>3, <1>4, <1>5, MistypedSteps DEF ValueStep

\* An operation changes what its own container holds and no other's, a copy and an
\* assignment leave it equal to the other's, and a cell goes as what it was made as,
\* but in an assignment between a success and a failure (Option.h, Result.h).
THEOREM ContainersAreValues == ContainerSpec => ActsLikeAValue
<1>1. ContainerInv /\ ContainerNext => ValueStep
    BY ValueSteps
<1>2. ContainerInv /\ [ContainerNext]_containerVars => [ValueStep]_containerVars
    BY <1>1
<1> QED BY <1>2, ContainersInvariant, PTL DEF ContainerSpec, ActsLikeAValue, ValueStep

----------------------------------------------------------------------------
(* Strings.  A buffer ends its text with a NUL, or one cell later: after   *)
(* the sum of two strings the cell in between is what the heap left there, *)
(* and what is copied up to the NUL from there on needs room for it.       *)

CharCells == Chars \cup {NUL, Unwritten}

Buffer(buf, size) == size \in Nat /\ buf \in [0..size - 1 -> CharCells]

\* The first n cells of a buffer are characters.
IsText(src, n) == n \in Nat /\ \A i \in Nat: i < n => src[i] \in Chars

EndsSoon(buf, size, n) ==
    buf[n] = NUL \/ (buf[n] \in Chars /\ n + 1 < size /\ buf[n + 1] = NUL)

Sound(s) ==
    /\ Buffer(s.mem, s.size) /\ IsText(s.mem, s.len) /\ s.len < s.size
    /\ EndsSoon(s.mem, s.size, s.len)

\* What a string made of the first n cells of src is.
Spells(s, src, n) ==
    /\ Sound(s) /\ Terminated(s)
    /\ s.len = n /\ \A i \in Nat: i < n => s.mem[i] = src[i]

LEMMA CharsAreNat == /\ \A c \in Chars: c \in Nat /\ c # NUL /\ c # Unwritten
                     /\ NUL # Unwritten /\ NUL \in CharCells /\ Chars \subseteq CharCells
                     /\ InitSize \in Nat /\ InitSize > 0 /\ MaxLen \in Nat
BY StrAssumption DEF StrAssumption, NUL, Unwritten, CharCells

LEMMA TextEndsNot ==
    ASSUME NEW src, NEW n, IsText(src, n)
    PROVE  ~EndsWithin(src, n) /\ Taken(src, n) = n
<1>1. ~EndsWithin(src, n)
    BY CharsAreNat DEF IsText, EndsWithin
<1> QED BY <1>1 DEF Taken

\* The first NUL is where the copy ends.
LEMMA TakenToTheNul ==
    ASSUME NEW src, NEW n \in Nat, NEW i \in Nat, i < n, src[i] = NUL, IsText(src, i)
    PROVE  EndsWithin(src, n) /\ Taken(src, n) = i + 1
<1>1. i \in 0..n - 1 /\ EndsWithin(src, n)
    BY DEF EndsWithin
<1>2. \A k \in Nat: k < i => src[k] # NUL
    BY CharsAreNat DEF IsText
<1>3. \A j \in 0..n - 1: (src[j] = NUL /\ \A k \in 0..j - 1: src[k] # NUL) <=> j = i
    BY <1>1, <1>2
<1>4. (CHOOSE j \in 0..n - 1: src[j] = NUL /\ \A k \in 0..j - 1: src[k] # NUL) = i
    BY <1>1, <1>3
<1>5. Taken(src, n) = 1 + i
    BY <1>1, <1>4, Zenon DEF Taken
<1> QED BY <1>1, <1>5

LEMMA PutsChar ==
    ASSUME NEW buf, NEW size, Buffer(buf, size), NEW i \in Nat, i < size, NEW c \in CharCells
    PROVE  /\ Buffer(PutChar(buf, i, c), size)
           /\ PutChar(buf, i, c)[i] = c
           /\ \A k \in Nat: k < size /\ k # i => PutChar(buf, i, c)[k] = buf[k]
BY DEF Buffer, PutChar

\* A copy of n cells that fit.
LEMMA MemccpyIs ==
    ASSUME NEW buf, NEW size, Buffer(buf, size), NEW at \in Nat, NEW src, NEW n,
           NEW taken \in Nat, Taken(src, n) = taken, at + taken <= size,
           \A i \in Nat: i < taken => src[i] \in CharCells
    PROVE  /\ Buffer(Memccpy(buf, at, src, n), size)
           /\ \A i \in Nat: i < taken => Memccpy(buf, at, src, n)[at + i] = src[i]
           /\ \A k \in Nat: k < size /\ ~(at <= k /\ k < at + taken) =>
                  Memccpy(buf, at, src, n)[k] = buf[k]
<1>1. DOMAIN buf \cup (at..at + taken - 1) = 0..size - 1
    BY DEF Buffer
<1>2. Memccpy(buf, at, src, n) =
          [i \in 0..size - 1 |-> IF i \in at..at + taken - 1 THEN src[i - at] ELSE buf[i]]
    BY <1>1 DEF Memccpy
<1>3. \A i \in at..at + taken - 1: i - at \in Nat /\ i - at < taken
    OBVIOUS
<1>4. \A i \in 0..size - 1: buf[i] \in CharCells
    BY DEF Buffer
<1>5. Buffer(Memccpy(buf, at, src, n), size)
    BY <1>2, <1>3, <1>4 DEF Buffer
<1>6. ASSUME NEW i \in Nat, i < taken PROVE Memccpy(buf, at, src, n)[at + i] = src[i]
    <2>1. at + i \in 0..size - 1 /\ at + i \in at..at + taken - 1 /\ (at + i) - at = i
        BY <1>6, Buffer(buf, size) DEF Buffer
    <2> QED BY <1>2, <2>1
<1>7. ASSUME NEW k \in Nat, k < size, ~(at <= k /\ k < at + taken)
      PROVE  Memccpy(buf, at, src, n)[k] = buf[k]
    <2>1. k \in 0..size - 1 /\ k \notin at..at + taken - 1
        BY <1>7 DEF Buffer
    <2> QED BY <1>2, <2>1
<1> QED BY <1>5, <1>6, <1>7

LEMMA CopiesText ==
    ASSUME NEW buf, NEW size, Buffer(buf, size), NEW src, NEW n, IsText(src, n), n < size
    PROVE  /\ Buffer(CopyText(buf, src, n), size)
           /\ CopyText(buf, src, n)[n] = NUL
           /\ \A i \in Nat: i < n => CopyText(buf, src, n)[i] = src[i]
           /\ \A k \in Nat: k < size /\ k > n => CopyText(buf, src, n)[k] = buf[k]
<1> DEFINE copied == Memccpy(buf, 0, src, n)
<1>1. n \in Nat /\ size \in Nat /\ \A i \in Nat: i < n => src[i] \in CharCells
    BY CharsAreNat DEF IsText, Buffer
<1>2. Taken(src, n) = n /\ ~EndsWithin(src, n)
    BY TextEndsNot
<1>3. /\ Buffer(copied, size)
      /\ \A i \in Nat: i < n => copied[0 + i] = src[i]
      /\ \A k \in Nat: k < size /\ ~(0 <= k /\ k < 0 + n) => copied[k] = buf[k]
    BY <1>1, <1>2, MemccpyIs
<1>4. CopyText(buf, src, n) = PutChar(copied, n, NUL)
    BY <1>2 DEF CopyText
<1> HIDE DEF copied
<1>5. /\ Buffer(PutChar(copied, n, NUL), size)
      /\ PutChar(copied, n, NUL)[n] = NUL
      /\ \A k \in Nat: k < size /\ k # n => PutChar(copied, n, NUL)[k] = copied[k]
    BY <1>1, <1>3, PutsChar, CharsAreNat
<1> QED BY <1>1, <1>3, <1>4, <1>5

LEMMA NewCharsAre ==
    ASSUME NEW n \in Nat
    PROVE  Buffer(NewChars(n), n) /\ \A i \in Nat: i < n => NewChars(n)[i] = Unwritten
BY DEF NewChars, Buffer, CharCells

\* A string of copied text.
LEMMA CopySpells ==
    ASSUME NEW buf, NEW size, Buffer(buf, size), NEW src, NEW n, IsText(src, n), n < size
    PROVE  Spells(StrRecord(CopyText(buf, src, n), size, n), src, n)
<1> DEFINE r == StrRecord(CopyText(buf, src, n), size, n)
<1>1. r.mem = CopyText(buf, src, n) /\ r.size = size /\ r.len = n
    BY DEF StrRecord
<1> HIDE DEF r
<1>2. /\ Buffer(r.mem, size) /\ r.mem[n] = NUL /\ \A i \in Nat: i < n => r.mem[i] = src[i]
    BY <1>1, CopiesText
<1>3. IsText(r.mem, n)
    BY <1>2 DEF IsText
<1>4. Spells(r, src, n)
    BY <1>1, <1>2, <1>3 DEF Spells, Sound, Terminated, EndsSoon
<1> QED BY <1>4 DEF r

LEMMA EmptyIs ==
    /\ Sound(EmptyStr) /\ Terminated(EmptyStr) /\ EmptyStr.len = 0
    /\ \A k \in Nat: 0 < k /\ k < EmptyStr.size => EmptyStr.mem[k] = Unwritten
<1>1. /\ EmptyStr.mem = PutChar(NewChars(InitSize), 0, NUL)
      /\ EmptyStr.size = InitSize /\ EmptyStr.len = 0
    BY DEF EmptyStr, StrRecord
<1>2. /\ Buffer(EmptyStr.mem, InitSize) /\ EmptyStr.mem[0] = NUL
      /\ \A k \in Nat: k < InitSize /\ k # 0 => EmptyStr.mem[k] = Unwritten
    BY <1>1, CharsAreNat, NewCharsAre, PutsChar
<1> QED BY <1>1, <1>2, CharsAreNat DEF Sound, Terminated, EndsSoon, IsText

LEMMA EmptySpells == ASSUME NEW src PROVE Spells(EmptyStr, src, 0)
BY EmptyIs DEF Spells

\* extend keeps the text and makes room for n characters and a NUL.
LEMMA ExtendedIs ==
    ASSUME NEW s, Sound(s), NEW n \in Nat
    PROVE  /\ Buffer(Extended(s, n).mem, Extended(s, n).size) /\ n < Extended(s, n).size
           /\ Extended(s, n).len = s.len
           /\ \A i \in Nat: i < s.len => Extended(s, n).mem[i] = s.mem[i]
<1>1. s.size \in Nat /\ s.len \in Nat /\ s.len < s.size
    BY DEF Sound, Buffer, IsText
<1>2. CASE n >= s.size
    <2>1. Extended(s, n) = StrRecord(CopyText(NewChars(n + 1), s.mem, s.len), n + 1, s.len)
        BY <1>2 DEF Extended
    <2>2. Buffer(NewChars(n + 1), n + 1) /\ IsText(s.mem, s.len) /\ s.len < n + 1
        BY <1>1, <1>2, NewCharsAre DEF Sound
    <2>3. Spells(Extended(s, n), s.mem, s.len)
        BY <2>1, <2>2, CopySpells
    <2>4. Extended(s, n).size = n + 1
        BY <2>1 DEF StrRecord
    <2> QED BY <2>3, <2>4 DEF Spells, Sound
<1>3. CASE n < s.size
    <2>1. Extended(s, n) = s
        BY <1>1, <1>3 DEF Extended
    <2> QED BY <1>3, <2>1 DEF Sound
<1> QED BY <1>1, <1>2, <1>3

\* Room in a new string: a NUL, and cells that are not written behind it.
LEMMA RoomIs ==
    ASSUME NEW n \in Nat
    PROVE  /\ Buffer(Extended(EmptyStr, n).mem, Extended(EmptyStr, n).size)
           /\ n < Extended(EmptyStr, n).size
           /\ \A k \in Nat: 0 < k /\ k <= n => Extended(EmptyStr, n).mem[k] = Unwritten
           /\ Extended(EmptyStr, n).mem[0] = NUL
<1> DEFINE room == Extended(EmptyStr, n)
<1>1. Buffer(room.mem, room.size) /\ n < room.size
    BY EmptyIs, ExtendedIs
<1>2. EmptyStr.size \in Nat /\ EmptyStr.mem[0] = NUL
    BY EmptyIs DEF Sound, Buffer, Terminated
<1>3. CASE n >= EmptyStr.size
    <2>1. room.mem = CopyText(NewChars(n + 1), EmptyStr.mem, 0)
        BY <1>3, EmptyIs DEF Extended, StrRecord
    <2>2. /\ Buffer(NewChars(n + 1), n + 1) /\ IsText(EmptyStr.mem, 0) /\ 0 < n + 1
          /\ \A i \in Nat: i < n + 1 => NewChars(n + 1)[i] = Unwritten
        BY NewCharsAre DEF IsText
    <2>3. /\ CopyText(NewChars(n + 1), EmptyStr.mem, 0)[0] = NUL
          /\ \A k \in Nat: k < n + 1 /\ k > 0 =>
                 CopyText(NewChars(n + 1), EmptyStr.mem, 0)[k] = NewChars(n + 1)[k]
        BY <2>2, CopiesText
    <2> QED BY <1>1, <2>1, <2>2, <2>3
<1>4. CASE n < EmptyStr.size
    <2>1. room = EmptyStr
        BY <1>2, <1>4 DEF Extended
    <2> QED BY <1>1, <1>2, <1>4, <2>1, EmptyIs
<1> QED BY <1>2, <1>3, <1>4

LEMMA CopyOfStrSpells ==
    ASSUME NEW s, Sound(s)
    PROVE  Spells(CopyOfStr(s), s.mem, s.len)
BY CopySpells, NewCharsAre DEF Sound, Buffer, CopyOfStr

LEMMA ClearedStrIs ==
    ASSUME NEW s, Sound(s)
    PROVE  Sound(ClearedStr(s))
<1>1. s.size \in Nat /\ s.len \in Nat /\ s.len < s.size /\ Buffer(s.mem, s.size)
    BY DEF Sound, Buffer, IsText
<1>2. /\ ClearedStr(s).mem = PutChar(s.mem, 0, NUL)
      /\ ClearedStr(s).size = s.size /\ ClearedStr(s).len = 0
    BY DEF ClearedStr, StrRecord
<1>3. Buffer(ClearedStr(s).mem, s.size) /\ ClearedStr(s).mem[0] = NUL
    BY <1>1, <1>2, CharsAreNat, PutsChar
<1> QED BY <1>1, <1>2, <1>3 DEF Sound, EndsSoon, IsText

LEMMA AssignedStrSpells ==
    ASSUME NEW s, Sound(s), NEW t, Sound(t)
    PROVE  Spells(AssignedStr(s, t), t.mem, t.len)
<1> DEFINE room == IF t.len >= s.size THEN Extended(s, t.len) ELSE s
<1>1. s.size \in Nat /\ t.len \in Nat /\ IsText(t.mem, t.len) /\ Buffer(s.mem, s.size)
    BY DEF Sound, Buffer, IsText
<1>2. Buffer(room.mem, room.size) /\ t.len < room.size
    BY <1>1, ExtendedIs
<1>3. AssignedStr(s, t) = StrRecord(CopyText(room.mem, t.mem, t.len), room.size, t.len)
    BY DEF AssignedStr
<1> HIDE DEF room
<1> QED BY <1>1, <1>2, <1>3, CopySpells

\* A string that is n characters and one more.
Appends(r, src, n, c) ==
    /\ Sound(r) /\ Terminated(r)
    /\ r.len = n + 1 /\ r.mem[n] = c /\ \A i \in Nat: i < n => r.mem[i] = src[i]

LEMMA PutCharsAppend ==
    ASSUME NEW buf, NEW size, Buffer(buf, size), NEW src, NEW n, IsText(src, n), n + 1 < size,
           \A i \in Nat: i < n => buf[i] = src[i], NEW c \in Chars
    PROVE  Appends(StrRecord(PutChar(PutChar(buf, n, c), n + 1, NUL), size, n + 1), src, n, c)
<1>1. n \in Nat /\ size \in Nat /\ c \in CharCells /\ NUL \in CharCells
    BY CharsAreNat DEF IsText, Buffer
<1> DEFINE one == PutChar(buf, n, c)
           two == PutChar(one, n + 1, NUL)
           r == StrRecord(two, size, n + 1)
<1>2. /\ Buffer(one, size) /\ one[n] = c
      /\ \A k \in Nat: k < size /\ k # n => one[k] = buf[k]
    BY <1>1, PutsChar
<1> HIDE DEF one
<1>3. /\ Buffer(two, size) /\ two[n + 1] = NUL
      /\ \A k \in Nat: k < size /\ k # n + 1 => two[k] = one[k]
    BY <1>1, <1>2, PutsChar
<1>4. r.mem = two /\ r.size = size /\ r.len = n + 1
    BY DEF StrRecord
<1> HIDE DEF two, r
<1>5. two[n] = c /\ \A i \in Nat: i < n => two[i] = src[i]
    BY <1>1, <1>2, <1>3
<1>6. IsText(two, n + 1)
    BY <1>1, <1>5 DEF IsText
<1>7. Appends(r, src, n, c)
    BY <1>1, <1>3, <1>4, <1>5, <1>6 DEF Appends, Sound, Terminated, EndsSoon
<1> QED BY <1>7 DEF r, two, one

LEMMA LengthenedIs ==
    ASSUME NEW s, Sound(s), NEW c \in Chars
    PROVE  Appends(Lengthened(s, c), s.mem, s.len, c)
<1> DEFINE room == Extended(s, s.len + 1)
<1>1. s.len \in Nat /\ IsText(s.mem, s.len)
    BY DEF Sound, IsText
<1>2. /\ Buffer(room.mem, room.size) /\ s.len + 1 < room.size
      /\ \A i \in Nat: i < s.len => room.mem[i] = s.mem[i]
    BY <1>1, ExtendedIs
<1>3. Lengthened(s, c) =
          StrRecord(PutChar(PutChar(room.mem, s.len, c), s.len + 1, NUL), room.size, s.len + 1)
    BY DEF Lengthened
<1> HIDE DEF room
<1> QED BY <1>1, <1>2, <1>3, PutCharsAppend

\* How far a copy of the whole buffer goes.
LEMMA SoundTaken ==
    ASSUME NEW s, Sound(s)
    PROVE  \E n \in Nat:
               /\ Taken(s.mem, s.size) = n + 1 /\ EndsWithin(s.mem, s.size)
               /\ n < s.size /\ s.mem[n] = NUL /\ IsText(s.mem, n)
               /\ IF Terminated(s) THEN n = s.len ELSE n = s.len + 1
<1>1. s.size \in Nat /\ s.len \in Nat /\ s.len < s.size /\ IsText(s.mem, s.len)
    BY DEF Sound, Buffer, IsText
<1>2. CASE Terminated(s)
    BY <1>1, <1>2, TakenToTheNul DEF Terminated
<1>3. CASE ~Terminated(s)
    <2>1. s.mem[s.len] \in Chars /\ s.len + 1 < s.size /\ s.mem[s.len + 1] = NUL
        BY <1>3 DEF Sound, EndsSoon, Terminated
    <2>2. IsText(s.mem, s.len + 1)
        BY <1>1, <2>1 DEF IsText
    <2> QED BY <1>1, <1>3, <2>1, <2>2, TakenToTheNul
<1> QED BY <1>2, <1>3

LEMMA CellsOf ==
    ASSUME NEW buf, NEW size, Buffer(buf, size)
    PROVE  \A i \in Nat: i < size => buf[i] \in CharCells
BY DEF Buffer

LEMMA JoinedCharIs ==
    ASSUME NEW s, Sound(s), NEW c \in Chars
    PROVE  Appends(JoinedChar(s, c), s.mem, s.len, c)
<1> DEFINE room == Extended(EmptyStr, s.len + 2)
           head == Memccpy(room.mem, 0, s.mem, s.size)
<1>1. s.len \in Nat /\ IsText(s.mem, s.len) /\ s.size \in Nat
    BY DEF Sound, Buffer, IsText
<1>2. Buffer(room.mem, room.size) /\ s.len + 2 < room.size /\ room.size \in Nat
    BY <1>1, RoomIs DEF Buffer
<1>3. PICK n \in Nat: /\ Taken(s.mem, s.size) = n + 1 /\ n < s.size
                      /\ n = s.len \/ n = s.len + 1
    BY SoundTaken
<1>4. \A i \in Nat: i < n + 1 => s.mem[i] \in CharCells
    BY <1>1, <1>3, CellsOf DEF Sound
<1> HIDE DEF room
<1>. n + 1 \in Nat /\ 0 \in Nat /\ 0 + (n + 1) <= room.size
    BY <1>1, <1>2, <1>3
<1>5. /\ Buffer(head, room.size)
      /\ \A i \in Nat: i < n + 1 => head[0 + i] = s.mem[i]
    BY <1>1, <1>2, <1>3, <1>4, MemccpyIs
<1>6. JoinedChar(s, c) =
          StrRecord(PutChar(PutChar(head, s.len, c), s.len + 1, NUL), room.size, s.len + 1)
    BY DEF JoinedChar, room
<1> HIDE DEF head
<1>7. \A i \in Nat: i < s.len => head[i] = s.mem[i]
    BY <1>1, <1>3, <1>5
<1> QED BY <1>1, <1>2, <1>5, <1>6, <1>7, PutCharsAppend

\* A string that is another one's text with n characters of src behind it.
Joins(r, s, src, n) ==
    /\ r.len = s.len + n
    /\ \A i \in Nat: i < s.len => r.mem[i] = s.mem[i]
    /\ \A i \in Nat: i < n => r.mem[s.len + i] = src[i]

\* Buffer m2 is buf but for n cells of src from `at' on.
CopiedInto(m2, buf, size, at, src, n) ==
    /\ Buffer(m2, size)
    /\ \A i \in Nat: i < n => m2[at + i] = src[i]
    /\ \A k \in Nat: k < size /\ ~(at <= k /\ k < at + n) => m2[k] = buf[k]

LEMMA TextIsCopied ==
    ASSUME NEW buf, NEW size, Buffer(buf, size), NEW at \in Nat, NEW src, NEW n,
           IsText(src, n), at + n <= size
    PROVE  CopiedInto(Memccpy(buf, at, src, n), buf, size, at, src, n)
<1>1. n \in Nat /\ Taken(src, n) = n /\ \A i \in Nat: i < n => src[i] \in CharCells
    BY TextEndsNot, CharsAreNat DEF IsText
<1> QED BY <1>1, MemccpyIs DEF CopiedInto

\* What operator+(const Str &) has written when it returns.
LEMMA JoinedIs ==
    ASSUME NEW s, Sound(s), NEW t, Sound(t)
    PROVE  LET both == Joined(s, t) IN
           /\ Joins(both, s, t.mem, t.len)
           /\ both = StrRecord(both.mem, both.size, both.len)
           /\ Buffer(both.mem, both.size) /\ both.len + 1 < both.size
           /\ both.mem[both.len + 1] = NUL /\ both.mem[both.len] \in {NUL, Unwritten}
<1> DEFINE n == s.len + t.len + 1
           room == Extended(EmptyStr, n)
           head == Memccpy(room.mem, 0, s.mem, s.len)
           two == Memccpy(head, s.len, t.mem, t.len)
           all == PutChar(two, n, NUL)
           both == StrRecord(all, room.size, n - 1)
<1>1. /\ s.len \in Nat /\ IsText(s.mem, s.len) /\ t.len \in Nat /\ IsText(t.mem, t.len)
      /\ n \in Nat /\ n = s.len + t.len + 1
    BY DEF Sound, IsText
<1>2. /\ Taken(s.mem, s.len) = s.len /\ ~EndsWithin(s.mem, s.len)
      /\ Taken(t.mem, t.len) = t.len /\ ~EndsWithin(t.mem, t.len)
    BY <1>1, TextEndsNot
<1>3. Joined(s, t) = both
    BY <1>2 DEF Joined
<1> HIDE DEF n
<1>4. /\ Buffer(room.mem, room.size) /\ n < room.size /\ room.size \in Nat
      /\ \A k \in Nat: 0 < k /\ k <= n => room.mem[k] = Unwritten
      /\ room.mem[0] = NUL
    BY <1>1, RoomIs DEF Buffer
<1> HIDE DEF room
<1>6. 0 + s.len <= room.size /\ s.len + t.len <= room.size /\ 0 \in Nat
    BY <1>1, <1>4
<1>7. CopiedInto(head, room.mem, room.size, 0, s.mem, s.len)
    BY <1>1, <1>4, <1>6, TextIsCopied
<1> HIDE DEF head
<1>8. CopiedInto(two, head, room.size, s.len, t.mem, t.len)
    BY <1>1, <1>4, <1>6, <1>7, TextIsCopied DEF CopiedInto
<1> HIDE DEF two
<1>9. /\ Buffer(all, room.size) /\ all[n] = NUL
      /\ \A k \in Nat: k < room.size /\ k # n => all[k] = two[k]
    BY <1>1, <1>4, <1>8, CharsAreNat, PutsChar DEF CopiedInto
<1> HIDE DEF all
<1>10. both.mem = all /\ both.size = room.size /\ both.len = n - 1
    BY DEF StrRecord
<1>11. \A i \in Nat: i < s.len => all[i] = s.mem[i]
    BY <1>1, <1>4, <1>7, <1>8, <1>9 DEF CopiedInto
<1>12. \A i \in Nat: i < t.len => all[s.len + i] = t.mem[i]
    BY <1>1, <1>4, <1>8, <1>9 DEF CopiedInto
<1>13. all[n - 1] \in {NUL, Unwritten}
    <2>1. n - 1 \in Nat /\ n - 1 = s.len + t.len
        BY <1>1
    <2>2. all[n - 1] = room.mem[n - 1]
        BY <1>1, <1>4, <1>7, <1>8, <1>9, <2>1 DEF CopiedInto
    <2> QED BY <1>1, <1>4, <2>1, <2>2
<1>14. (n - 1) + 1 = n /\ n - 1 = s.len + t.len
    BY <1>1
<1>15. both = StrRecord(both.mem, both.size, both.len)
    BY <1>10
<1> HIDE DEF both
<1> QED BY <1>3, <1>4, <1>9, <1>10, <1>11, <1>12, <1>13, <1>14, <1>15 DEF Joins

LEMMA TextsAre ==
    ASSUME NEW text \in Texts
    PROVE  /\ text \in Seq(Chars) /\ Len(text) \in Nat
           /\ IsText(CString(text), Len(text)) /\ CString(text)[Len(text)] = NUL
           /\ \A i \in Nat: i < Len(text) => CString(text)[i] = text[i + 1]
<1>1. PICK n \in Nat: text \in [1..n -> Chars]
    BY CharsAreNat DEF Texts
<1>2. text \in Seq(Chars)
    BY <1>1, SeqDef
<1>3. Len(text) \in Nat /\ \A k \in 1..Len(text): text[k] \in Chars
    BY <1>2, LenProperties, ElementOfSeq
<1>4. \A i \in Nat: i < Len(text) => CString(text)[i] = text[i + 1] /\ text[i + 1] \in Chars
    BY <1>3 DEF CString
<1>5. CString(text)[Len(text)] = NUL
    BY <1>3 DEF CString
<1> QED BY <1>2, <1>3, <1>4, <1>5 DEF IsText

\* operator+(const char *) ends where the buffer's NUL was: a cell late if that was.
LEMMA JoinedCStringIs ==
    ASSUME NEW s, Sound(s), NEW text \in Texts
    PROVE  LET both == JoinedCString(s, text) IN
           /\ Sound(both)
           /\ Terminated(s) => Terminated(both) /\ Joins(both, s, CString(text), Len(text))
<1> DEFINE m == Len(text)
           n == m + s.len + 1
           room == Extended(EmptyStr, n)
           head == Memccpy(room.mem, 0, s.mem, s.size)
           at == Taken(s.mem, s.size) - 1
           all == Memccpy(head, at, CString(text), n)
           both == StrRecord(all, room.size, n - 1)
<1>1. JoinedCString(s, text) = both
    BY DEF JoinedCString
<1>2. /\ s.len \in Nat /\ IsText(s.mem, s.len) /\ s.size \in Nat
      /\ m \in Nat /\ n \in Nat /\ n = m + s.len + 1 /\ n - 1 = s.len + m
    BY TextsAre DEF Sound, Buffer, IsText
<1>3. /\ at \in Nat /\ Taken(s.mem, s.size) = at + 1 /\ at < s.size
      /\ IsText(s.mem, at)
      /\ at = s.len \/ at = s.len + 1
      /\ Terminated(s) => at = s.len
    BY <1>2, SoundTaken
<1>4. /\ IsText(CString(text), m) /\ CString(text)[m] = NUL /\ m < n
    BY <1>2, TextsAre
<1> HIDE DEF m, n, at
<1>5. Taken(CString(text), n) = m + 1
    BY <1>2, <1>4, TakenToTheNul
<1>6. Buffer(room.mem, room.size) /\ n < room.size /\ room.size \in Nat
    BY <1>2, RoomIs DEF Buffer
<1> HIDE DEF room
<1>7. /\ \A i \in Nat: i < at + 1 => s.mem[i] \in CharCells
      /\ \A i \in Nat: i < m + 1 => CString(text)[i] \in CharCells
    <2>1. \A i \in Nat: i < at + 1 => s.mem[i] \in CharCells
        BY <1>2, <1>3, CellsOf DEF Sound
    <2>2. \A i \in Nat: i < m + 1 => CString(text)[i] \in CharCells
        BY <1>2, <1>4, CharsAreNat DEF IsText
    <2> QED BY <2>1, <2>2
<1>8. 0 + (at + 1) <= room.size /\ at + (m + 1) <= room.size /\ at + 1 \in Nat /\ m + 1 \in Nat
    BY <1>2, <1>3, <1>6
<1>9. /\ Buffer(head, room.size)
      /\ \A i \in Nat: i < at + 1 => head[0 + i] = s.mem[i]
    BY <1>3, <1>6, <1>7, <1>8, MemccpyIs
<1> HIDE DEF head
<1>10. /\ Buffer(all, room.size)
       /\ \A i \in Nat: i < m + 1 => all[at + i] = CString(text)[i]
       /\ \A k \in Nat: k < room.size /\ ~(at <= k /\ k < at + (m + 1)) => all[k] = head[k]
    BY <1>3, <1>5, <1>6, <1>7, <1>8, <1>9, MemccpyIs
<1> HIDE DEF all
<1>11. both.mem = all /\ both.size = room.size /\ both.len = s.len + m
    BY <1>2 DEF StrRecord
<1>12. \A i \in Nat: i < at => all[i] = s.mem[i]
    <2> SUFFICES ASSUME NEW i \in Nat, i < at PROVE all[i] = s.mem[i]
        OBVIOUS
    <2>1. i < room.size /\ ~(at <= i /\ i < at + (m + 1)) /\ i < at + 1 /\ 0 + i = i
        BY <1>3, <1>6, <1>8
    <2>2. all[i] = head[i]
        BY <1>10, <2>1
    <2>3. head[0 + i] = s.mem[i]
        BY <1>9, <2>1
    <2> QED BY <2>1, <2>2, <2>3
<1>13. all[at + m] = NUL /\ at + m < room.size
    <2>1. m \in Nat /\ m < m + 1 /\ at + m < room.size
        BY <1>2, <1>3, <1>6, <1>8
    <2>2. all[at + m] = CString(text)[m]
        BY <1>10, <2>1
    <2> QED BY <1>4, <2>1, <2>2
<1>14. IsText(all, at + m)
    <2>1. ASSUME NEW i \in Nat, i < at + m, ~(i < at) PROVE all[i] \in Chars
        <3>1. i - at \in Nat /\ i - at < m + 1 /\ i - at < m /\ at + (i - at) = i
            BY <1>2, <1>3, <2>1
        <3> QED BY <1>4, <1>10, <3>1 DEF IsText
    <2> QED BY <1>2, <1>3, <1>12, <2>1 DEF IsText
<1>15. Sound(both)
    <2>1. IsText(all, s.len + m) /\ s.len + m < room.size
        <3>1. s.len + m \in Nat /\ s.len + m <= at + m /\ s.len + m < room.size
            BY <1>2, <1>3, <1>6
        <3> QED BY <1>14, <3>1, <1>3, <1>2 DEF IsText
    <2>2. EndsSoon(all, room.size, s.len + m)
        BY <1>2, <1>3, <1>13, <1>14 DEF IsText, EndsSoon
    <2> HIDE DEF both
    <2> QED BY <1>10, <1>11, <2>1, <2>2 DEF Sound
<1>16. ASSUME Terminated(s) PROVE Terminated(both) /\ Joins(both, s, CString(text), m)
    <2>1. at = s.len
        BY <1>3, <1>16
    <2>2. \A i \in Nat: i < m => all[s.len + i] = CString(text)[i]
        BY <1>2, <1>10, <2>1
    <2> HIDE DEF both
    <2> QED BY <1>11, <1>12, <1>13, <2>1, <2>2 DEF Terminated, Joins
<1> HIDE DEF both
<1> QED BY <1>1, <1>15, <1>16 DEF m

LEMMA FromCStringSpells ==
    ASSUME NEW text \in Texts
    PROVE  Spells(FromCString(text), CString(text), Len(text))
<1> DEFINE size == IF Len(text) + 1 > InitSize THEN Len(text) + 1 ELSE InitSize
<1>1. IsText(CString(text), Len(text)) /\ Len(text) \in Nat /\ size \in Nat /\ Len(text) < size
    BY TextsAre, CharsAreNat
<1>2. FromCString(text) = StrRecord(CopyText(NewChars(size), CString(text), Len(text)), size, Len(text))
    BY DEF FromCString
<1> HIDE DEF size
<1> QED BY <1>1, <1>2, NewCharsAre, CopySpells

\* n characters of a buffer from `start' on.
LEMMA PartSpells ==
    ASSUME NEW s, Sound(s), NEW start \in Nat, NEW n \in Nat, start + n <= s.len
    PROVE  /\ Spells(Part(s, start, n), Behind(s.mem, start), n)
           /\ \A i \in Nat: i < n => Behind(s.mem, start)[i] = s.mem[i + start]
<1> DEFINE room == Extended(EmptyStr, n)
<1>1. s.size \in Nat /\ s.len \in Nat /\ s.len < s.size /\ DOMAIN s.mem = 0..s.size - 1
    BY DEF Sound, Buffer, IsText
<1>2. ASSUME NEW i \in Nat, i < n
      PROVE  Behind(s.mem, start)[i] = s.mem[i + start] /\ s.mem[i + start] \in Chars
    <2>1. i + start \in DOMAIN s.mem /\ i = (i + start) - start
        BY <1>1, <1>2
    <2>2. i + start \in Nat /\ i + start < s.len
        BY <1>1, <1>2
    <2> QED BY <2>1, <2>2 DEF Behind, Sound, IsText
<1>3. IsText(Behind(s.mem, start), n)
    BY <1>2 DEF IsText
<1>4. Buffer(room.mem, room.size) /\ n < room.size
    BY RoomIs
<1>5. Part(s, start, n) =
          StrRecord(CopyText(room.mem, Behind(s.mem, start), n), room.size, n)
    BY DEF Part
<1> HIDE DEF room
<1> QED BY <1>2, <1>3, <1>4, <1>5, CopySpells

----------------------------------------------------------------------------
(* Texts *)

LEMMA TextOfSound ==
    ASSUME NEW s, Sound(s)
    PROVE  /\ Text(s) \in Seq(Chars) /\ Len(Text(s)) = s.len /\ s.len \in Nat
           /\ \A i \in Nat: i < s.len => Text(s)[i + 1] = s.mem[i]
<1>1. s.len \in Nat /\ \A i \in Nat: i < s.len => s.mem[i] \in Chars
    BY DEF Sound, IsText
<1>2. \A k \in 1..s.len: k - 1 \in Nat /\ k - 1 < s.len
    BY <1>1
<1>3. Text(s) \in [1..s.len -> Chars]
    BY <1>1, <1>2 DEF Text
<1>4. Text(s) \in Seq(Chars)
    BY <1>1, <1>3, SeqDef
<1>5. Len(Text(s)) = s.len
    BY <1>1, <1>3, <1>4, LenProperties
<1>6. ASSUME NEW i \in Nat, i < s.len PROVE Text(s)[i + 1] = s.mem[i]
    <2>1. i + 1 \in 1..s.len /\ (i + 1) - 1 = i
        BY <1>1, <1>6
    <2> QED BY <2>1 DEF Text
<1> QED BY <1>1, <1>4, <1>5, <1>6

\* Texts are equal when their characters are, counted from 0.
LEMMA SameText ==
    ASSUME NEW a \in Seq(Chars), NEW b \in Seq(Chars), Len(a) = Len(b),
           \A i \in Nat: i < Len(a) => a[i + 1] = b[i + 1]
    PROVE  a = b
<1>1. Len(a) \in Nat
    BY LenProperties
<1>2. ASSUME NEW k \in 1..Len(a) PROVE a[k] = b[k]
    <2>1. k - 1 \in Nat /\ k - 1 < Len(a) /\ (k - 1) + 1 = k
        BY <1>1
    <2> QED BY <2>1
<1> QED BY <1>2, SeqEqual

\* A string that spells the characters of a text says it.
LEMMA SpellsSays ==
    ASSUME NEW s, NEW src, NEW n, Spells(s, src, n), NEW text \in Seq(Chars), Len(text) = n,
           \A i \in Nat: i < n => text[i + 1] = src[i]
    PROVE  Says(s, text)
<1>1. /\ Sound(s) /\ Terminated(s)
      /\ s.len = n /\ \A i \in Nat: i < n => s.mem[i] = src[i]
    BY DEF Spells
<1>2. /\ Text(s) \in Seq(Chars) /\ Len(Text(s)) = n
      /\ \A i \in Nat: i < n => Text(s)[i + 1] = s.mem[i]
    BY <1>1, TextOfSound
<1>3. Text(s) = text
    BY <1>1, <1>2, SameText
<1> QED BY <1>1, <1>3 DEF Says

LEMMA JoinsText ==
    ASSUME NEW r, Sound(r), NEW s, Sound(s), NEW src, NEW n, NEW text \in Seq(Chars), Len(text) = n,
           \A i \in Nat: i < n => text[i + 1] = src[i],
           Joins(r, s, src, n)
    PROVE  Text(r) = Text(s) \o text
<1>1. /\ Text(s) \in Seq(Chars) /\ Len(Text(s)) = s.len /\ s.len \in Nat /\ n \in Nat
      /\ \A i \in Nat: i < s.len => Text(s)[i + 1] = s.mem[i]
      /\ text \in Seq(Chars) /\ Len(text) = n
    BY TextOfSound, LenProperties
<1>2. /\ Text(s) \o text \in Seq(Chars) /\ Len(Text(s) \o text) = s.len + n
      /\ \A i \in 1..s.len + n: (Text(s) \o text)[i] =
             IF i <= s.len THEN Text(s)[i] ELSE text[i - s.len]
    <2> DEFINE a == Text(s)
    <2>1. a \in Seq(Chars) /\ text \in Seq(Chars) /\ Len(a) = s.len /\ Len(text) = n
        BY <1>1
    <2> HIDE DEF a
    <2>2. /\ a \o text \in Seq(Chars) /\ Len(a \o text) = Len(a) + Len(text)
          /\ \A i \in 1..Len(a) + Len(text): (a \o text)[i] =
                 IF i <= Len(a) THEN a[i] ELSE text[i - Len(a)]
        BY ONLY <2>1, ConcatProperties
    <2> QED BY ONLY <2>1, <2>2 DEF a
<1>0. /\ Text(r) \in Seq(Chars) /\ Len(Text(r)) = r.len
      /\ \A i \in Nat: i < r.len => Text(r)[i + 1] = r.mem[i]
    BY TextOfSound
<1>3. ASSUME NEW i \in Nat, i < s.len PROVE Text(r)[i + 1] = (Text(s) \o text)[i + 1]
    <2>1. i + 1 \in 1..s.len + n /\ i + 1 <= s.len /\ i < r.len
        BY <1>1, <1>3 DEF Joins
    <2>2. Text(r)[i + 1] = s.mem[i]
        BY <1>0, <1>3, <2>1 DEF Joins
    <2> QED BY <1>1, <1>2, <1>3, <2>1, <2>2
<1>4. ASSUME NEW i \in Nat, s.len <= i, i < s.len + n
      PROVE  Text(r)[i + 1] = (Text(s) \o text)[i + 1]
    <2> DEFINE k == i - s.len
    <2>1. k \in Nat /\ k < n /\ s.len + k = i /\ k + 1 = (i + 1) - s.len
        BY ONLY <1>1, <1>4
    <2>2. i + 1 \in 1..s.len + n /\ ~(i + 1 <= s.len) /\ i < r.len
        BY <1>1, <1>4 DEF Joins
    <2> HIDE DEF k
    <2>3. r.mem[i] = src[k]
        BY <2>1 DEF Joins
    <2>4. Text(r)[i + 1] = text[k + 1]
        BY <1>0, <2>1, <2>2, <2>3
    <2> QED BY <1>2, <2>1, <2>2, <2>4
<1>5. r.len = s.len + n
    BY DEF Joins
<1> DEFINE both == Text(s) \o text
           mine == Text(r)
<1>6. \A i \in Nat: i < s.len + n => mine[i + 1] = both[i + 1]
    <2> SUFFICES ASSUME NEW i \in Nat, i < s.len + n PROVE mine[i + 1] = both[i + 1]
        OBVIOUS
    <2>1. CASE i < s.len
        BY <1>3, <2>1
    <2>2. CASE s.len <= i
        BY <1>4, <2>2
    <2> QED BY <1>1, <2>1, <2>2
<1>7. mine \in Seq(Chars) /\ both \in Seq(Chars) /\ Len(mine) = s.len + n /\ Len(both) = s.len + n
    BY <1>0, <1>2, <1>5
<1> HIDE DEF both, mine
<1>8. mine = both
    BY <1>6, <1>7, SameText
<1> QED BY <1>8 DEF mine, both

LEMMA AppendsSays ==
    ASSUME NEW r, NEW s, Sound(s), NEW c \in Chars, Appends(r, s.mem, s.len, c)
    PROVE  Says(r, Append(Text(s), c))
<1>1. /\ Text(s) \in Seq(Chars) /\ Len(Text(s)) = s.len /\ s.len \in Nat
      /\ \A i \in Nat: i < s.len => Text(s)[i + 1] = s.mem[i]
    BY TextOfSound
<1>2. /\ Append(Text(s), c) \in Seq(Chars) /\ Len(Append(Text(s), c)) = s.len + 1
      /\ \A i \in 1..s.len: Append(Text(s), c)[i] = Text(s)[i]
      /\ Append(Text(s), c)[s.len + 1] = c
    BY <1>1, AppendProperties
<1>3. ASSUME NEW i \in Nat, i < s.len + 1 PROVE Append(Text(s), c)[i + 1] = r.mem[i]
    <2>1. CASE i = s.len
        BY <1>2, <2>1 DEF Appends
    <2>2. CASE i # s.len
        <3>1. i < s.len /\ i + 1 \in 1..s.len
            BY <1>1, <1>3, <2>2
        <3> QED BY <1>1, <1>2, <3>1 DEF Appends
    <2> QED BY <2>1, <2>2
<1>4. Spells(r, r.mem, s.len + 1)
    BY DEF Appends, Spells
<1> QED BY <1>2, <1>3, <1>4, SpellsSays

\* Part of a text, counted from 0.
LEMMA SubText ==
    ASSUME NEW text \in Seq(Chars), NEW first \in Nat, NEW last \in Nat,
           first <= last, last <= Len(text)
    PROVE  /\ SubSeq(text, first + 1, last) \in Seq(Chars)
           /\ Len(SubSeq(text, first + 1, last)) = last - first
           /\ \A i \in Nat: i < last - first =>
                  SubSeq(text, first + 1, last)[i + 1] = text[(i + first) + 1]
<1>1. Len(text) \in Nat /\ first + 1 \in Int /\ last \in Int
    BY LenProperties
<1>2. \A i \in first + 1..last: text[i] \in Chars
    BY <1>1, ElementOfSeq
<1>3. /\ SubSeq(text, first + 1, last) \in Seq(Chars)
      /\ Len(SubSeq(text, first + 1, last)) =
             IF first + 1 <= last THEN last - (first + 1) + 1 ELSE 0
      /\ \A i \in 1..last - (first + 1) + 1:
             SubSeq(text, first + 1, last)[i] = text[(first + 1) + i - 1]
    BY <1>1, <1>2, SubSeqProperties
<1>4. ASSUME NEW i \in Nat, i < last - first
      PROVE  SubSeq(text, first + 1, last)[i + 1] = text[(i + first) + 1]
    <2>1. i + 1 \in 1..last - (first + 1) + 1 /\ (first + 1) + (i + 1) - 1 = (i + first) + 1
        BY <1>4
    <2> QED BY <1>3, <2>1
<1>5. Len(SubSeq(text, first + 1, last)) = last - first
    BY <1>3
<1> QED BY <1>3, <1>4, <1>5

\* The last character that Upto keeps.
UptoEnd(text, n) == IF n <= 0 THEN Len(text) + n ELSE Least(n, Len(text))

LEMMA UptoIs ==
    ASSUME NEW text \in Seq(Chars), NEW n \in Int
    PROVE  /\ UptoEnd(text, n) \in Int /\ UptoEnd(text, n) <= Len(text) /\ Len(text) \in Nat
           /\ Upto(text, n) = SubSeq(text, 1, UptoEnd(text, n))
           /\ UptoEnd(text, n) <= 0 => Upto(text, n) = << >>
<1>1. Len(text) \in Nat
    BY LenProperties
<1>2. UptoEnd(text, n) \in Int /\ UptoEnd(text, n) <= Len(text)
    BY <1>1 DEF UptoEnd, Least
<1>3. Upto(text, n) = SubSeq(text, 1, UptoEnd(text, n))
    BY DEF Upto, UptoEnd
<1>4. ASSUME UptoEnd(text, n) <= 0 PROVE SubSeq(text, 1, UptoEnd(text, n)) = << >>
    <2>1. UptoEnd(text, n) < 1 /\ 1 \in Int
        BY <1>2, <1>4
    <2> QED BY <1>2, <2>1, SubSeqEmpty
<1> QED BY <1>1, <1>2, <1>3, <1>4

LEMMA PartSays ==
    ASSUME NEW s, Sound(s), NEW first \in Nat, NEW last \in Nat, first <= last, last <= s.len
    PROVE  Says(Part(s, first, last - first), SubSeq(Text(s), first + 1, last))
<1> DEFINE n == last - first
           text == SubSeq(Text(s), first + 1, last)
<1>1. /\ Text(s) \in Seq(Chars) /\ Len(Text(s)) = s.len /\ s.len \in Nat
      /\ \A i \in Nat: i < s.len => Text(s)[i + 1] = s.mem[i]
    BY TextOfSound
<1>2. n \in Nat /\ first + n <= s.len
    BY <1>1
<1>3. /\ Spells(Part(s, first, n), Behind(s.mem, first), n)
      /\ \A i \in Nat: i < n => Behind(s.mem, first)[i] = s.mem[i + first]
    BY <1>2, PartSpells
<1>4. /\ text \in Seq(Chars) /\ Len(text) = n
      /\ \A i \in Nat: i < n => text[i + 1] = Text(s)[(i + first) + 1]
    BY <1>1, SubText
<1>5. ASSUME NEW i \in Nat, i < n PROVE text[i + 1] = Behind(s.mem, first)[i]
    <2>1. i + first \in Nat /\ i + first < s.len
        BY <1>1, <1>5
    <2> QED BY <1>1, <1>3, <1>4, <1>5, <2>1
<1> HIDE DEF text, n
<1>6. Says(Part(s, first, n), text)
    BY <1>3, <1>4, <1>5, SpellsSays
<1> QED BY <1>6 DEF text, n

LEMMA SaysNothing ==
    ASSUME NEW s, NEW src, Spells(s, src, 0)
    PROVE  Says(s, << >>)
<1> DEFINE none == << >>
<1>1. none \in Seq(Chars) /\ Len(none) = 0 /\ \A i \in Nat: i < 0 => none[i + 1] = src[i]
    BY EmptySeq
<1> HIDE DEF none
<1>2. Says(s, none)
    BY <1>1, SpellsSays
<1> QED BY <1>2 DEF none

LEMMA CopySays ==
    ASSUME NEW r, NEW s, Sound(s), Spells(r, s.mem, s.len)
    PROVE  Says(r, Text(s))
BY TextOfSound, SpellsSays

LEMMA NoText == << >> \in Texts
<1>1. << >> \in [1..0 -> Chars] /\ 0 \in 0..MaxLen
    <2>1. << >> \in Seq(Chars) /\ Len(<< >>) = 0
        BY EmptySeq
    <2> QED BY <2>1, LenProperties, CharsAreNat
<1> QED BY <1>1 DEF Texts

LEMMA ShortenedIs ==
    ASSUME NEW s, Sound(s), NEW end \in Int
    PROVE  Sound(Shortened(s, end)) /\ Says(Shortened(s, end), Upto(Text(s), end))
<1> DEFINE n == IF end <= 0 THEN s.len + end ELSE end
           last == UptoEnd(Text(s), end)
<1>1. Text(s) \in Seq(Chars) /\ Len(Text(s)) = s.len /\ s.len \in Nat /\ n \in Int
    BY TextOfSound
<1>2. /\ last \in Int /\ last <= s.len
      /\ Upto(Text(s), end) = SubSeq(Text(s), 1, last)
      /\ last <= 0 => Upto(Text(s), end) = << >>
    BY <1>1, UptoIs
<1>3. last = Least(n, s.len)
    BY <1>1 DEF UptoEnd, Least
<1>4. Shortened(s, end) =
          IF n < 0 THEN FromCString(<< >>) ELSE IF n >= s.len THEN CopyOfStr(s) ELSE Part(s, 0, n)
    BY DEF Shortened
<1> HIDE DEF n, last
<1>5. CASE n < 0
    <2>1. Upto(Text(s), end) = << >> /\ Shortened(s, end) = FromCString(<< >>)
        BY <1>1, <1>2, <1>3, <1>4, <1>5 DEF Least
    <2>2. Spells(FromCString(<< >>), CString(<< >>), 0)
        BY NoText, FromCStringSpells, EmptySeq
    <2> QED BY <2>1, <2>2, SaysNothing DEF Spells
<1>6. CASE n >= s.len
    <2>1. Shortened(s, end) = CopyOfStr(s) /\ last = s.len
        BY <1>1, <1>3, <1>4, <1>6 DEF Least
    <2>2. Upto(Text(s), end) = Text(s)
        BY <1>1, <1>2, <2>1, SubSeqFull
    <2>3. Spells(CopyOfStr(s), s.mem, s.len)
        BY CopyOfStrSpells
    <2> QED BY <2>1, <2>2, <2>3, CopySays DEF Spells
<1>7. CASE 0 <= n /\ n < s.len
    <2>1. Shortened(s, end) = Part(s, 0, n) /\ last = n /\ n \in Nat /\ 0 + n <= s.len
        BY <1>1, <1>3, <1>4, <1>7 DEF Least
    <2>2. Spells(Part(s, 0, n), Behind(s.mem, 0), n)
        BY <2>1, PartSpells
    <2>3. Says(Part(s, 0, n - 0), SubSeq(Text(s), 0 + 1, n))
        BY <1>7, <2>1, PartSays
    <2>4. n - 0 = n /\ 0 + 1 = 1
        BY <2>1
    <2> QED BY <1>2, <2>1, <2>2, <2>3, <2>4 DEF Spells
<1> QED BY <1>1, <1>5, <1>6, <1>7

LEMMA SubstringIs ==
    ASSUME NEW s, Sound(s), NEW start \in Nat, NEW end \in Int, NEW upto, upto = Upto(Text(s), end)
    PROVE  /\ Sound(Substring(s, start, end))
           /\ Says(Substring(s, start, end), SubSeq(upto, start + 1, Len(upto)))
<1> DEFINE last == UptoEnd(Text(s), end)
<1>1. Text(s) \in Seq(Chars) /\ Len(Text(s)) = s.len /\ s.len \in Nat
    BY TextOfSound
<1>2. /\ last \in Int /\ last <= s.len
      /\ upto = SubSeq(Text(s), 1, last)
      /\ last <= 0 => upto = << >>
    BY <1>1, UptoIs
<1>3. last = Least(IF end <= 0 THEN s.len + end ELSE end, s.len)
    BY <1>1 DEF UptoEnd, Least
<1>4. Substring(s, start, end) =
          IF start >= s.len \/ last <= start \/ last < 0 \/ start < 0
          THEN EmptyStr ELSE Part(s, start, last - start)
    BY <1>3 DEF Substring
<1> HIDE DEF last
<1>5. CASE last <= start
    <2>1. Substring(s, start, end) = EmptyStr
        BY <1>4, <1>5
    <2>2. Len(upto) \in Nat /\ Len(upto) <= start
        <3>1. CASE last <= 0
            BY <1>2, <3>1, EmptySeq
        <3>2. CASE last > 0
            <4>1. Len(SubSeq(Text(s), 0 + 1, last)) = last - 0
                BY <1>1, <1>2, <3>2, SubText
            <4> QED BY <1>2, <1>5, <3>2, <4>1
        <3> QED BY <1>2, <3>1, <3>2
    <2>3. SubSeq(upto, start + 1, Len(upto)) = << >>
        BY <2>2, SubSeqEmpty
    <2> QED BY <2>1, <2>3, EmptySpells, SaysNothing DEF Spells
<1>6. CASE last > start
    <2>1. /\ Substring(s, start, end) = Part(s, start, last - start)
          /\ last \in Nat /\ start <= last /\ 0 <= last /\ last - start \in Nat
          /\ start + (last - start) <= s.len
        BY <1>1, <1>2, <1>4, <1>6
    <2>2. /\ upto \in Seq(Chars) /\ Len(upto) = last
          /\ \A i \in Nat: i < last => upto[i + 1] = Text(s)[i + 1]
        <3>1. /\ SubSeq(Text(s), 0 + 1, last) \in Seq(Chars)
              /\ Len(SubSeq(Text(s), 0 + 1, last)) = last - 0
              /\ \A i \in Nat: i < last - 0 =>
                     SubSeq(Text(s), 0 + 1, last)[i + 1] = Text(s)[(i + 0) + 1]
            BY <1>1, <1>2, <2>1, SubText
        <3>2. 0 + 1 = 1 /\ last - 0 = last /\ \A i \in Nat: i + 0 = i
            BY <2>1
        <3> QED BY <1>2, <3>1, <3>2
    <2>3. SubSeq(upto, start + 1, last) = SubSeq(Text(s), start + 1, last)
        <3> DEFINE a == SubSeq(upto, start + 1, last)
                   b == SubSeq(Text(s), start + 1, last)
        <3>1. /\ a \in Seq(Chars) /\ Len(a) = last - start
              /\ \A i \in Nat: i < last - start => a[i + 1] = upto[(i + start) + 1]
            BY <2>1, <2>2, SubText
        <3>2. /\ b \in Seq(Chars) /\ Len(b) = last - start
              /\ \A i \in Nat: i < last - start => b[i + 1] = Text(s)[(i + start) + 1]
            BY <1>1, <1>2, <2>1, SubText
        <3>3. \A i \in Nat: i < last - start => i + start \in Nat /\ i + start < last
            BY <2>1
        <3> HIDE DEF a, b
        <3>4. \A i \in Nat: i < Len(a) => a[i + 1] = b[i + 1]
            BY <2>2, <3>1, <3>2, <3>3, ZenonT(40)
        <3>5. a = b
            BY <3>1, <3>2, <3>4, SameText
        <3> QED BY <3>5 DEF a, b
    <2>4. Spells(Part(s, start, last - start), Behind(s.mem, start), last - start)
        BY <2>1, PartSpells
    <2>5. Says(Part(s, start, last - start), SubSeq(Text(s), start + 1, last))
        BY <1>2, <2>1, PartSays
    <2> QED BY <2>1, <2>2, <2>3, <2>4, <2>5 DEF Spells
<1> QED BY <1>2, <1>5, <1>6

----------------------------------------------------------------------------
(* The steps of strings *)

StrInv ==
    /\ texts \subseteq Strings /\ DOMAIN str = Strings
    /\ \A s \in Strings: Sound(str[s])

LEMMA StrInvIsTyped == StrInv => StrTypeOK
<1> SUFFICES ASSUME StrInv PROVE StrTypeOK
    OBVIOUS
<1>1. ASSUME NEW s \in Strings
      PROVE  /\ str[s].mem \in [0..str[s].size - 1 -> Chars \cup {NUL, Unwritten}]
             /\ str[s].len \in 0..str[s].size - 1
             /\ \A i \in 0..str[s].len - 1: str[s].mem[i] \in Chars
    BY DEF StrInv, Sound, Buffer, IsText, CharCells
<1> QED BY <1>1 DEF StrInv, StrTypeOK

\* A step gives one string a value, and the value is a sound one.
Gives(s, value) ==
    /\ texts' \subseteq Strings /\ str' = [str EXCEPT ![s] = value] /\ Sound(value)

LEMMA MakeGives ==
    ASSUME StrInv, NEW s \in Strings, NEW value, MakeStr(s, value) \/ ChangeStr(s, value), Sound(value)
    PROVE  Gives(s, value) /\ str'[s] = value
BY DEF StrInv, MakeStr, ChangeStr, Gives

LEMMA ConstructGives ==
    ASSUME StrInv, NEW s \in Strings, NEW text \in Texts, ConstructStr(s, text)
    PROVE  Gives(s, str'[s]) /\ Says(str'[s], text)
<1>1. CASE MakeStr(s, FromCString(text))
    <2>1. Spells(FromCString(text), CString(text), Len(text))
        BY FromCStringSpells
    <2>2. Says(FromCString(text), text)
        BY <2>1, TextsAre, SpellsSays
    <2> QED BY <1>1, <2>1, <2>2, MakeGives DEF Spells
<1>2. CASE text = << >> /\ MakeStr(s, EmptyStr)
    BY <1>2, EmptySpells, SaysNothing, MakeGives DEF Spells
<1> QED BY <1>1, <1>2 DEF ConstructStr

LEMMA CopyGives ==
    ASSUME StrInv, NEW s \in Strings, NEW t \in Strings, CopyStr(s, t) \/ AssignStr(s, t)
    PROVE  Gives(s, str'[s]) /\ Says(str'[s], Text(str[t]))
<1>1. Sound(str[s]) /\ Sound(str[t])
    BY DEF StrInv
<1>2. CASE CopyStr(s, t)
    <2>1. Spells(CopyOfStr(str[t]), str[t].mem, str[t].len)
        BY <1>1, CopyOfStrSpells
    <2>2. Says(CopyOfStr(str[t]), Text(str[t]))
        BY <1>1, <2>1, CopySays
    <2> QED BY <1>2, <2>1, <2>2, MakeGives DEF CopyStr, Spells
<1>3. CASE AssignStr(s, t)
    <2>1. Spells(AssignedStr(str[s], str[t]), str[t].mem, str[t].len)
        BY <1>1, AssignedStrSpells
    <2>2. Says(AssignedStr(str[s], str[t]), Text(str[t]))
        BY <1>1, <2>1, CopySays
    <2> QED BY <1>3, <2>1, <2>2, MakeGives DEF AssignStr, Spells
<1> QED BY <1>2, <1>3

\* What the sum of two strings is, whatever its unwritten cell holds.
LEMMA JoinValue ==
    ASSUME NEW s, Sound(s), NEW t, Sound(t), NEW value,
           \/ value = Joined(s, t) /\ Joined(s, t).mem[Joined(s, t).len] # Unwritten
           \/ \E junk \in Chars \cup {NUL}:
                  value = [Joined(s, t) EXCEPT !.mem[Joined(s, t).len] = junk]
    PROVE  Sound(value) /\ Text(value) = Text(s) \o Text(t)
<1> DEFINE both == Joined(s, t)
           buf == both.mem
           size == both.size
           len == both.len
<1>1. /\ s.len \in Nat /\ IsText(s.mem, s.len) /\ t.len \in Nat /\ IsText(t.mem, t.len)
    BY DEF Sound, IsText
<1>2. /\ Joins(both, s, t.mem, t.len)
      /\ both = StrRecord(buf, size, len)
      /\ Buffer(buf, size) /\ len + 1 < size
      /\ buf[len + 1] = NUL /\ buf[len] \in {NUL, Unwritten}
    BY JoinedIs
<1> HIDE DEF both
<1>3. PICK m2: /\ value = StrRecord(m2, size, len) /\ Buffer(m2, size)
               /\ m2[len] \in Chars \cup {NUL}
               /\ \A k \in Nat: k < size /\ k # len => m2[k] = buf[k]
    <2>1. CASE value = both /\ buf[len] # Unwritten
        BY <1>2, <2>1
    <2>2. ASSUME NEW junk \in Chars \cup {NUL}, value = [both EXCEPT !.mem[both.len] = junk]
          PROVE  \E m2: /\ value = StrRecord(m2, size, len) /\ Buffer(m2, size)
                        /\ m2[len] \in Chars \cup {NUL}
                        /\ \A k \in Nat: k < size /\ k # len => m2[k] = buf[k]
        <3> DEFINE m2 == [buf EXCEPT ![len] = junk]
        <3>1. value = StrRecord(m2, size, len)
            BY <1>2, <2>2 DEF StrRecord
        <3>2. len \in 0..size - 1 /\ junk \in CharCells
            BY <1>1, <1>2, CharsAreNat DEF Joins, Buffer
        <3>3. Buffer(m2, size) /\ m2[len] = junk /\ \A k \in Nat: k < size /\ k # len => m2[k] = buf[k]
            BY <1>2, <3>2 DEF Buffer
        <3> QED BY <3>1, <3>3
    <2> QED BY <2>1, <2>2 DEF both
<1>4. value.mem = m2 /\ value.size = size /\ value.len = len
    BY <1>3 DEF StrRecord
<1>5. /\ len \in Nat /\ len = s.len + t.len /\ size \in Nat
      /\ \A i \in Nat: i < s.len => buf[i] = s.mem[i]
      /\ \A i \in Nat: i < t.len => buf[s.len + i] = t.mem[i]
    BY <1>1, <1>2 DEF Joins, Buffer
<1> HIDE DEF buf, size, len
<1>6. /\ \A i \in Nat: i < s.len => m2[i] = s.mem[i]
      /\ \A i \in Nat: i < t.len => m2[s.len + i] = t.mem[i]
      /\ m2[len + 1] = NUL
    <2>1. \A i \in Nat: i < len + 2 /\ i # len => m2[i] = buf[i]
        BY <1>2, <1>3, <1>5
    <2>2. ASSUME NEW i \in Nat, i < s.len PROVE m2[i] = s.mem[i]
        BY <1>1, <1>5, <2>1, <2>2
    <2>3. ASSUME NEW i \in Nat, i < t.len PROVE m2[s.len + i] = t.mem[i]
        BY <1>1, <1>5, <2>1, <2>3
    <2>4. m2[len + 1] = buf[len + 1]
        BY <1>5, <2>1
    <2> QED BY <1>2, <2>2, <2>3, <2>4
<1>7. IsText(m2, len)
    <2>1. ASSUME NEW i \in Nat, i < len, ~(i < s.len) PROVE m2[i] \in Chars
        <3>1. i - s.len \in Nat /\ i - s.len < t.len /\ s.len + (i - s.len) = i
            BY <1>1, <1>5, <2>1
        <3> QED BY <1>1, <1>6, <3>1 DEF IsText
    <2> QED BY <1>1, <1>5, <1>6, <2>1 DEF IsText
<1>8. Sound(value)
    BY <1>2, <1>3, <1>4, <1>5, <1>6, <1>7 DEF Sound, EndsSoon
<1>9. Joins(value, s, t.mem, t.len)
    BY <1>4, <1>5, <1>6 DEF Joins
<1>10. Text(value) = Text(s) \o Text(t)
    <2>1. /\ Text(t) \in Seq(Chars) /\ Len(Text(t)) = t.len
          /\ \A i \in Nat: i < t.len => Text(t)[i + 1] = t.mem[i]
        BY TextOfSound
    <2> QED BY <1>8, <1>9, <2>1, JoinsText
<1> QED BY <1>8, <1>10

LEMMA JoinGives ==
    ASSUME StrInv, NEW s \in Strings, NEW t \in Strings, NEW u \in Strings, Join(s, t, u)
    PROVE  Gives(s, str'[s]) /\ Text(str'[s]) = Text(str[t]) \o Text(str[u])
<1> DEFINE both == Joined(str[t], str[u])
<1>1. Sound(str[t]) /\ Sound(str[u])
    BY DEF StrInv
<1>2. PICK value: /\ MakeStr(s, value)
                  /\ \/ value = both /\ both.mem[both.len] # Unwritten
                     \/ \E junk \in Chars \cup {NUL}: value = [both EXCEPT !.mem[both.len] = junk]
    BY DEF Join
<1>3. Sound(value) /\ Text(value) = Text(str[t]) \o Text(str[u])
    BY <1>1, <1>2, JoinValue
<1> QED BY <1>2, <1>3, MakeGives

LEMMA JoinCStringGives ==
    ASSUME StrInv, NEW s \in Strings, NEW t \in Strings, NEW text \in Texts,
           JoinCString(s, t, text)
    PROVE  /\ Gives(s, str'[s])
           /\ Terminated(str[t]) => Says(str'[s], Text(str[t]) \o text)
<1> DEFINE both == JoinedCString(str[t], text)
<1>1. Sound(str[t]) /\ MakeStr(s, both)
    BY DEF StrInv, JoinCString
<1>2. /\ Sound(both)
      /\ Terminated(str[t]) => Terminated(both) /\ Joins(both, str[t], CString(text), Len(text))
    BY <1>1, JoinedCStringIs
<1> HIDE DEF both
<1>3. ASSUME Terminated(str[t]) PROVE Text(both) = Text(str[t]) \o text
    BY <1>1, <1>2, <1>3, TextsAre, JoinsText
<1> QED BY <1>1, <1>2, <1>3, MakeGives DEF Says

LEMMA JoinCharGives ==
    ASSUME StrInv, NEW s \in Strings, NEW t \in Strings, NEW c \in Chars, JoinChar(s, t, c)
    PROVE  Gives(s, str'[s]) /\ Says(str'[s], Append(Text(str[t]), c))
<1>1. Sound(str[t]) /\ MakeStr(s, JoinedChar(str[t], c))
    BY DEF StrInv, JoinChar
<1>2. Appends(JoinedChar(str[t], c), str[t].mem, str[t].len, c)
    BY <1>1, JoinedCharIs
<1>3. Says(JoinedChar(str[t], c), Append(Text(str[t]), c))
    BY <1>1, <1>2, AppendsSays
<1> QED BY <1>1, <1>2, <1>3, MakeGives DEF Appends

LEMMA LengthenGives ==
    ASSUME StrInv, NEW s \in Strings, NEW c \in Chars, Lengthen(s, c)
    PROVE  Gives(s, str'[s]) /\ Says(str'[s], Append(Text(str[s]), c))
<1>1. Sound(str[s]) /\ ChangeStr(s, Lengthened(str[s], c))
    BY CharsAreNat DEF StrInv, Lengthen
<1>2. Appends(Lengthened(str[s], c), str[s].mem, str[s].len, c)
    BY <1>1, LengthenedIs
<1>3. Says(Lengthened(str[s], c), Append(Text(str[s]), c))
    BY <1>1, <1>2, AppendsSays
<1> QED BY <1>1, <1>2, <1>3, MakeGives DEF Appends

LEMMA ShortenGives ==
    ASSUME StrInv, NEW s \in Strings, NEW t \in Strings, NEW end \in Int, Shorten(s, t, end)
    PROVE  Gives(s, str'[s]) /\ Says(str'[s], Upto(Text(str[t]), end))
<1>1. Sound(str[t]) /\ MakeStr(s, Shortened(str[t], end))
    BY DEF StrInv, Shorten
<1> QED BY <1>1, ShortenedIs, MakeGives

LEMMA SubstrGives ==
    ASSUME StrInv, NEW s \in Strings, NEW t \in Strings, NEW start \in Nat, NEW end \in Int,
           Substr(s, t, start, end), NEW upto, upto = Upto(Text(str[t]), end)
    PROVE  Gives(s, str'[s]) /\ Says(str'[s], SubSeq(upto, start + 1, Len(upto)))
<1>1. Sound(str[t]) /\ MakeStr(s, Substring(str[t], start, end))
    BY DEF StrInv, Substr
<1> QED BY <1>1, SubstringIs, MakeGives

LEMMA ClearGives ==
    ASSUME StrInv, NEW s \in Strings, ClearStr(s) \/ DestroyStr(s)
    PROVE  Gives(s, str'[s])
<1>1. CASE ClearStr(s)
    BY <1>1, ClearedStrIs, MakeGives DEF ClearStr, StrInv
<1>2. CASE DestroyStr(s)
    BY <1>2, EmptyIs DEF DestroyStr, StrInv, Gives
<1> QED BY <1>1, <1>2

LEMMA SetGives ==
    ASSUME StrInv, NEW s \in Strings, NEW i \in Int, NEW c \in Chars, SetChar(s, i, c)
    PROVE  Gives(s, str'[s])
<1> DEFINE k == CharIndex(str[s], i)
           r == Changed(str[s], i, c)
<1>1. Sound(str[s]) /\ ChangeStr(s, r) /\ k \in 0..str[s].len - 1
    BY DEF StrInv, SetChar
<1>2. /\ str[s].len \in Nat /\ str[s].len < str[s].size /\ str[s].size \in Nat
      /\ Buffer(str[s].mem, str[s].size) /\ IsText(str[s].mem, str[s].len)
      /\ EndsSoon(str[s].mem, str[s].size, str[s].len)
    BY <1>1 DEF Sound, Buffer, IsText
<1>3. r.mem = PutChar(str[s].mem, k, c) /\ r.size = str[s].size /\ r.len = str[s].len
    BY DEF Changed, StrRecord
<1>. k \in Nat /\ k < str[s].size /\ c \in CharCells
    BY <1>1, <1>2, CharsAreNat
<1> HIDE DEF k, r
<1>4. /\ Buffer(r.mem, r.size) /\ r.mem[k] = c
      /\ \A j \in Nat: j < r.size /\ j # k => r.mem[j] = str[s].mem[j]
    BY <1>2, <1>3, PutsChar
<1>5. IsText(r.mem, r.len)
    BY <1>1, <1>2, <1>3, <1>4 DEF IsText
<1>6. EndsSoon(r.mem, r.size, r.len)
    BY <1>1, <1>2, <1>3, <1>4 DEF EndsSoon
<1>7. Sound(r)
    BY <1>2, <1>3, <1>4, <1>5, <1>6 DEF Sound
<1> QED BY <1>1, <1>7, MakeGives

LEMMA LengthenNulGives ==
    ASSUME StrInv, NEW s \in Strings, Lengthen(s, NUL)
    PROVE  Gives(s, str'[s])
BY MakeGives DEF Lengthen, StrInv

\* Every step is one string's.
LEMMA StrStepGives ==
    ASSUME StrInv, StrNext
    PROVE  \E s \in Strings: Gives(s, str'[s])
<1>1. PICK s \in Strings:
        \/ ClearStr(s) \/ DestroyStr(s)
        \/ \E text \in Texts: ConstructStr(s, text)
        \/ \E t \in Strings: CopyStr(s, t) \/ AssignStr(s, t)
        \/ \E t, u \in Strings: Join(s, t, u)
        \/ \E t \in Strings, text \in Texts: JoinCString(s, t, text)
        \/ \E t \in Strings, c \in Chars: JoinChar(s, t, c)
        \/ \E c \in Chars \cup {NUL}: Lengthen(s, c)
        \/ \E i \in -MaxLen..MaxLen - 1, c \in Chars: SetChar(s, i, c)
        \/ \E t \in Strings, end \in -MaxLen..MaxLen: Shorten(s, t, end)
        \/ \E t \in Strings, start \in 0..MaxLen, end \in -MaxLen..MaxLen: Substr(s, t, start, end)
    BY Zenon DEF StrNext
<1>2. /\ \A i \in -MaxLen..MaxLen: i \in Int
      /\ \A i \in -MaxLen..MaxLen - 1: i \in Int
      /\ \A i \in 0..MaxLen: i \in Nat
    OBVIOUS
<1>3. ASSUME NEW t \in Strings, NEW end \in -MaxLen..MaxLen, Shorten(s, t, end)
      PROVE  Gives(s, str'[s])
    BY <1>2, <1>3, ShortenGives
<1>4. ASSUME NEW t \in Strings, NEW start \in 0..MaxLen, NEW end \in -MaxLen..MaxLen,
             Substr(s, t, start, end)
      PROVE  Gives(s, str'[s])
    BY <1>2, <1>4, SubstrGives
<1>5. ASSUME NEW i \in -MaxLen..MaxLen - 1, NEW c \in Chars, SetChar(s, i, c)
      PROVE  Gives(s, str'[s])
    BY <1>2, <1>5, SetGives
<1>6. ASSUME NEW c \in Chars \cup {NUL}, Lengthen(s, c) PROVE Gives(s, str'[s])
    BY <1>6, LengthenGives, LengthenNulGives
<1>7. ASSUME NEW t \in Strings, NEW u \in Strings, Join(s, t, u) PROVE Gives(s, str'[s])
    BY <1>7, JoinGives
<1>8. ASSUME NEW t \in Strings, NEW text \in Texts, JoinCString(s, t, text) PROVE Gives(s, str'[s])
    BY <1>8, JoinCStringGives
<1>9. ASSUME NEW t \in Strings, NEW c \in Chars, JoinChar(s, t, c) PROVE Gives(s, str'[s])
    BY <1>9, JoinCharGives
<1>10. ASSUME NEW text \in Texts, ConstructStr(s, text) PROVE Gives(s, str'[s])
    BY <1>10, ConstructGives
<1>11. ASSUME NEW t \in Strings, CopyStr(s, t) \/ AssignStr(s, t) PROVE Gives(s, str'[s])
    BY <1>11, CopyGives
<1>12. ASSUME ClearStr(s) \/ DestroyStr(s) PROVE Gives(s, str'[s])
    BY <1>12, ClearGives
<1>13. Gives(s, str'[s])
    BY <1>1, <1>3, <1>4, <1>5, <1>6, <1>7, <1>8, <1>9, <1>10, <1>11, <1>12, Zenon
<1> QED BY <1>13

LEMMA StrStepKeeps == StrInv /\ [StrNext]_strVars => StrInv'
<1>1. ASSUME StrInv, NEW s \in Strings, Gives(s, str'[s]) PROVE StrInv'
    BY <1>1 DEF StrInv, Gives
<1>2. ASSUME StrInv, UNCHANGED strVars PROVE StrInv'
    BY <1>2 DEF StrInv, strVars
<1> QED BY <1>1, <1>2, StrStepGives

LEMMA StrInvariant == StrSpec => []StrInv
<1>1. StrInit => StrInv
    BY EmptyIs DEF StrInit, StrInv
<1> QED BY <1>1, StrStepKeeps, PTL DEF StrSpec

\* No operation of a string writes behind the end of its buffer, whatever the strings
\* were made by, the sum that ends a cell late among it; the text fits with its NUL
\* (Str.cpp).
THEOREM StringsStayInTheirBuffers == StrSpec => []StrTypeOK
BY StrInvariant, StrInvIsTyped, PTL

\* What a step is said to make of texts.
TextStep ==
    \A s \in Strings:
        /\ \A text \in Texts: ConstructStr(s, text) => Says(str'[s], text)
        /\ \A t \in Strings: CopyStr(s, t) \/ AssignStr(s, t) => Says(str'[s], Text(str[t]))
        /\ \A t, u \in Strings: Join(s, t, u) => Text(str'[s]) = Text(str[t]) \o Text(str[u])
        /\ \A t \in Strings, text \in Texts:
               JoinCString(s, t, text) /\ Terminated(str[t]) => Says(str'[s], Text(str[t]) \o text)
        /\ \A t \in Strings, c \in Chars: JoinChar(s, t, c) => Says(str'[s], Append(Text(str[t]), c))
        /\ \A c \in Chars: Lengthen(s, c) => Says(str'[s], Append(Text(str[s]), c))
        /\ \A t \in Strings, end \in -MaxLen..MaxLen:
               Shorten(s, t, end) => Says(str'[s], Upto(Text(str[t]), end))
        /\ \A t \in Strings, start \in 0..MaxLen, end \in -MaxLen..MaxLen:
               Substr(s, t, start, end) =>
                   LET upto == Upto(Text(str[t]), end) IN
                   Says(str'[s], SubSeq(upto, start + 1, Len(upto)))
        /\ \A t \in Strings: str'[s] = str[s] \/ str'[t] = str[t] \/ s = t

LEMMA TextSteps == StrInv /\ [StrNext]_strVars => TextStep
<1> SUFFICES ASSUME StrInv, [StrNext]_strVars, NEW s \in Strings
             PROVE  TextStep!(s)
    BY DEF TextStep
<1>1. /\ \A text \in Texts: ConstructStr(s, text) => Says(str'[s], text)
      /\ \A t \in Strings: CopyStr(s, t) \/ AssignStr(s, t) => Says(str'[s], Text(str[t]))
      /\ \A t, u \in Strings: Join(s, t, u) => Text(str'[s]) = Text(str[t]) \o Text(str[u])
    BY ConstructGives, CopyGives, JoinGives
<1>2. \A t \in Strings, text \in Texts:
          JoinCString(s, t, text) /\ Terminated(str[t]) => Says(str'[s], Text(str[t]) \o text)
    BY JoinCStringGives
<1>3. \A t \in Strings, c \in Chars: JoinChar(s, t, c) => Says(str'[s], Append(Text(str[t]), c))
    BY JoinCharGives
<1>4. \A c \in Chars: Lengthen(s, c) => Says(str'[s], Append(Text(str[s]), c))
    BY LengthenGives
<1>5. /\ \A i \in -MaxLen..MaxLen: i \in Int
      /\ \A i \in 0..MaxLen: i \in Nat
    OBVIOUS
<1>6. \A t \in Strings, end \in -MaxLen..MaxLen:
          Shorten(s, t, end) => Says(str'[s], Upto(Text(str[t]), end))
    BY <1>5, ShortenGives
<1>7. ASSUME NEW t \in Strings, NEW start \in 0..MaxLen, NEW end \in -MaxLen..MaxLen,
             Substr(s, t, start, end), NEW upto, upto = Upto(Text(str[t]), end)
      PROVE  Says(str'[s], SubSeq(upto, start + 1, Len(upto)))
    BY <1>5, <1>7, SubstrGives
<1>8. ASSUME NEW t \in Strings PROVE str'[s] = str[s] \/ str'[t] = str[t] \/ s = t
    <2>1. CASE UNCHANGED strVars
        BY <2>1 DEF strVars
    <2>2. ASSUME NEW u \in Strings, Gives(u, str'[u])
          PROVE  str'[s] = str[s] \/ str'[t] = str[t] \/ s = t
        BY <2>2 DEF Gives, StrInv
    <2> QED BY <2>1, <2>2, StrStepGives
<1> QED BY <1>1, <1>2, <1>3, <1>4, <1>6, <1>7, <1>8, Zenon

\* What operations make of strings depends on their texts alone (Str.cpp).
THEOREM StringsAreTexts == StrSpec => ActsLikeText
<1>1. StrInv /\ [StrNext]_strVars => [strVars' # strVars => TextStep]_strVars
    BY TextSteps
<1> QED BY <1>1, StrInvariant, PTL DEF StrSpec, ActsLikeText, TextStep

----------------------------------------------------------------------------
(* What strings answer *)

\* A set that 0 is in, and with every number the next one, has all of them.
LEMMA AllNumbers ==
    ASSUME NEW T, 0 \in T, \A n \in Nat: n \in T => n + 1 \in T
    PROVE  \A n \in Nat: n \in T
<1> DEFINE out == {n \in Nat: n \notin T}
<1> SUFFICES ASSUME out # {} PROVE FALSE
    OBVIOUS
<1>1. out \subseteq Nat
    OBVIOUS
<1> HIDE DEF out
<1>2. PICK i \in out: \A k \in out: i <= k
    BY <1>1, LeastIndex
<1>3. i \in Nat /\ i \notin T
    BY DEF out
<1>4. i # 0
    BY <1>3
<1>5. i - 1 \in Nat /\ (i - 1) + 1 = i /\ ~(i <= i - 1)
    BY <1>3, <1>4
<1>6. i - 1 \notin out
    BY <1>2, <1>5
<1>7. i - 1 \in T
    BY <1>5, <1>6 DEF out
<1> QED BY <1>3, <1>5, <1>7

\* C strings are compared up to the NUL, which is where each text ends.
LEMMA SameAsTexts ==
    ASSUME NEW s, Sound(s), NEW t, Sound(t), Terminated(s), Terminated(t)
    PROVE  SameStr(s, t) <=> Text(s) = Text(t)
<1>1. /\ s.len \in Nat /\ s.size \in Nat /\ s.len < s.size /\ DOMAIN s.mem = 0..s.size - 1
      /\ \A i \in Nat: i < s.len => s.mem[i] \in Chars
    BY DEF Sound, Buffer, IsText
<1>2. /\ t.len \in Nat /\ t.size \in Nat /\ t.len < t.size /\ DOMAIN t.mem = 0..t.size - 1
      /\ \A i \in Nat: i < t.len => t.mem[i] \in Chars
    BY DEF Sound, Buffer, IsText
<1>3. s.mem[s.len] = NUL /\ t.mem[t.len] = NUL
    BY DEF Terminated
<1>4. /\ Text(s) \in Seq(Chars) /\ Len(Text(s)) = s.len
      /\ \A i \in Nat: i < s.len => Text(s)[i + 1] = s.mem[i]
    BY TextOfSound
<1>5. /\ Text(t) \in Seq(Chars) /\ Len(Text(t)) = t.len
      /\ \A i \in Nat: i < t.len => Text(t)[i + 1] = t.mem[i]
    BY TextOfSound
<1>6. ASSUME SameStr(s, t) PROVE Text(s) = Text(t)
    <2>1. PICK n \in DOMAIN s.mem: s.mem[n] = NUL /\ \A i \in 0..n: s.mem[i] = t.mem[i]
        BY <1>6 DEF SameStr, SameCString
    <2>2. n \in Nat /\ s.mem[n] \notin Chars
        BY <1>1, <2>1, CharsAreNat
    <2>3. ~(n < s.len)
        BY <1>1, <2>2
    <2>4. \A i \in Nat: i < s.len => i \in 0..n
        BY <1>1, <2>2, <2>3
    <2>5. \A i \in Nat: i < s.len => s.mem[i] = t.mem[i]
        BY <2>1, <2>4
    <2>6. s.len = t.len
        BY <1>6 DEF SameStr
    <2> QED BY <1>4, <1>5, <2>5, <2>6, SameText
<1>7. ASSUME Text(s) = Text(t) PROVE SameStr(s, t)
    <2>1. s.len = t.len
        BY <1>4, <1>5, <1>7
    <2>2. \A i \in Nat: i < s.len => s.mem[i] = t.mem[i]
        BY <1>4, <1>5, <1>7, <2>1
    <2>3. s.len \in DOMAIN s.mem \cap DOMAIN t.mem
        BY <1>1, <1>2, <2>1
    <2>4. ASSUME NEW i \in 0..s.len
          PROVE  s.mem[i] = t.mem[i] /\ (i < s.len => s.mem[i] # NUL)
        <3>1. i \in Nat /\ (i < s.len \/ i = s.len)
            BY <1>1
        <3> QED BY <1>1, <1>3, <2>1, <2>2, <3>1, CharsAreNat
    <2> QED BY <1>3, <2>1, <2>3, <2>4 DEF SameStr, SameCString
<1> QED BY <1>6, <1>7

\* Where two texts differ, and where they do first.
Differ(s, t, i) == i \in Nat /\ i < s.len /\ i < t.len /\ s.mem[i] # t.mem[i]

DifferFirst(s, t, i) == Differ(s, t, i) /\ \A k \in Nat: Differ(s, t, k) => i <= k

\* Texts that differ do so first somewhere.
LEMMA FirstDifference ==
    ASSUME NEW s, NEW t, NEW n, Differ(s, t, n)
    PROVE  \E i \in Nat: DifferFirst(s, t, i)
<1> DEFINE differ == {i \in Nat: Differ(s, t, i)}
<1>1. differ \subseteq Nat /\ differ # {}
    BY DEF Differ
<1> HIDE DEF differ
<1>2. PICK i \in differ: \A k \in differ: i <= k
    BY <1>1, LeastIndex
<1> QED BY <1>2 DEF differ, DifferFirst

\* Less than is by the first difference, or by length when there is none.
LEMMA LessThanIs ==
    ASSUME NEW s, Sound(s), NEW t, Sound(t)
    PROVE  /\ LessThan(s, t) <=>
                  \/ s.len < t.len /\ \A i \in Nat: ~Differ(s, t, i)
                  \/ \E i \in Nat: DifferFirst(s, t, i) /\ s.mem[i] < t.mem[i]
           /\ Greater(s, t) <=>
                  \/ t.len < s.len /\ \A i \in Nat: ~Differ(s, t, i)
                  \/ \E i \in Nat: DifferFirst(s, t, i) /\ t.mem[i] < s.mem[i]
<1>1. s.len \in Nat /\ t.len \in Nat
    BY DEF Sound, IsText
<1> DEFINE differ == {i \in 0..Least(s.len, t.len) - 1: s.mem[i] # t.mem[i]}
<1>2. \A i: i \in differ <=> Differ(s, t, i)
    BY <1>1 DEF Differ, Least
<1>3. \A i: Differ(s, t, i) => i \in Nat /\ s.mem[i] \in Nat /\ t.mem[i] \in Nat
    BY CharsAreNat DEF Differ, Sound, IsText
<1>4. differ = {} <=> \A i \in Nat: ~Differ(s, t, i)
    BY <1>2, <1>3
<1>5. /\ LessThan(s, t) <=>
            IF s.len = 0 /\ t.len # 0 THEN TRUE ELSE IF t.len = 0 THEN FALSE
            ELSE IF differ = {} THEN s.len < t.len
            ELSE \E i \in differ: (\A k \in differ: i <= k) /\ s.mem[i] < t.mem[i]
      /\ Greater(s, t) <=>
            IF s.len = 0 /\ t.len # 0 THEN FALSE ELSE IF t.len = 0 THEN s.len # 0
            ELSE IF differ = {} THEN s.len > t.len
            ELSE \E i \in differ: (\A k \in differ: i <= k) /\ s.mem[i] > t.mem[i]
    BY Zenon DEF LessThan, Greater
<1> HIDE DEF differ
<1>6. \A i: (i \in differ /\ \A k \in differ: i <= k) <=> DifferFirst(s, t, i)
    BY <1>2, <1>3 DEF DifferFirst
<1>7. \A i: DifferFirst(s, t, i) => i \in Nat /\ i \in differ /\ (s.mem[i] > t.mem[i] <=> t.mem[i] < s.mem[i])
    BY <1>2, <1>3, <1>6
<1>8. CASE s.len = 0 \/ t.len = 0
    <2>1. \A i \in Nat: ~Differ(s, t, i)
        BY <1>1, <1>8 DEF Differ
    <2>2. \A i \in Nat: ~DifferFirst(s, t, i)
        BY <2>1 DEF DifferFirst
    <2> QED BY <1>1, <1>5, <1>8, <2>1, <2>2
<1>9. CASE ~(s.len = 0 \/ t.len = 0)
    <2>1. CASE differ = {}
        <3>1. \A i \in Nat: ~Differ(s, t, i) /\ ~DifferFirst(s, t, i)
            BY <1>4, <2>1 DEF DifferFirst
        <3> QED BY <1>1, <1>5, <1>9, <2>1, <3>1
    <2>2. CASE differ # {}
        <3>1. /\ LessThan(s, t) <=> \E i \in differ: (\A k \in differ: i <= k) /\ s.mem[i] < t.mem[i]
              /\ Greater(s, t) <=> \E i \in differ: (\A k \in differ: i <= k) /\ s.mem[i] > t.mem[i]
            BY <1>5, <1>9, <2>2
        <3>2. /\ LessThan(s, t) <=> \E i \in Nat: DifferFirst(s, t, i) /\ s.mem[i] < t.mem[i]
              /\ Greater(s, t) <=> \E i \in Nat: DifferFirst(s, t, i) /\ t.mem[i] < s.mem[i]
            BY <1>6, <1>7, <3>1
        <3> QED BY <1>4, <2>2, <3>2
    <2> QED BY <2>1, <2>2
<1> QED BY <1>8, <1>9

\* Two texts differ where they do, whichever comes first.
LEMMA DifferEitherWay ==
    ASSUME NEW s, NEW t
    PROVE  \A i: /\ Differ(s, t, i) <=> Differ(t, s, i)
                 /\ DifferFirst(s, t, i) <=> DifferFirst(t, s, i)
BY DEF Differ, DifferFirst

\* Two texts that differ are one less than the other, one way round.
LEMMA TextsAreOrdered ==
    ASSUME NEW s, Sound(s), NEW t, Sound(t)
    PROVE  /\ Text(s) # Text(t) => (LessThan(s, t) <=> ~LessThan(t, s))
           /\ Text(s) = Text(t) => ~LessThan(s, t)
           /\ Greater(s, t) <=> LessThan(t, s)
<1>1. /\ s.len \in Nat /\ t.len \in Nat
      /\ \A i: Differ(s, t, i) => i \in Nat /\ s.mem[i] \in Nat /\ t.mem[i] \in Nat
    BY CharsAreNat DEF Differ, Sound, IsText
<1>2. /\ LessThan(s, t) <=>
             \/ s.len < t.len /\ \A i \in Nat: ~Differ(s, t, i)
             \/ \E i \in Nat: DifferFirst(s, t, i) /\ s.mem[i] < t.mem[i]
      /\ Greater(s, t) <=>
             \/ t.len < s.len /\ \A i \in Nat: ~Differ(s, t, i)
             \/ \E i \in Nat: DifferFirst(s, t, i) /\ t.mem[i] < s.mem[i]
    BY LessThanIs
<1>3. LessThan(t, s) <=>
             \/ t.len < s.len /\ \A i \in Nat: ~Differ(s, t, i)
             \/ \E i \in Nat: DifferFirst(s, t, i) /\ t.mem[i] < s.mem[i]
    <2>1. LessThan(t, s) <=>
             \/ t.len < s.len /\ \A i \in Nat: ~Differ(t, s, i)
             \/ \E i \in Nat: DifferFirst(t, s, i) /\ t.mem[i] < s.mem[i]
        BY LessThanIs
    <2> QED BY <2>1, DifferEitherWay
<1>4. /\ Text(s) \in Seq(Chars) /\ Len(Text(s)) = s.len
      /\ \A i \in Nat: i < s.len => Text(s)[i + 1] = s.mem[i]
    BY TextOfSound
<1>5. /\ Text(t) \in Seq(Chars) /\ Len(Text(t)) = t.len
      /\ \A i \in Nat: i < t.len => Text(t)[i + 1] = t.mem[i]
    BY TextOfSound
<1>6. ASSUME Text(s) # Text(t) PROVE LessThan(s, t) <=> ~LessThan(t, s)
    <2>1. CASE \A i \in Nat: ~Differ(s, t, i)
        <3>1. s.len # t.len
            <4> SUFFICES ASSUME s.len = t.len PROVE FALSE
                OBVIOUS
            <4>1. \A i \in Nat: i < s.len => s.mem[i] = t.mem[i]
                BY <2>1 DEF Differ
            <4> QED BY <1>4, <1>5, <1>6, <4>1, SameText
        <3>2. \A i \in Nat: ~DifferFirst(s, t, i)
            BY <2>1 DEF DifferFirst
        <3> QED BY <1>1, <1>2, <1>3, <2>1, <3>1, <3>2
    <2>2. ASSUME NEW n \in Nat, Differ(s, t, n) PROVE LessThan(s, t) <=> ~LessThan(t, s)
        <3>1. PICK i \in Nat: DifferFirst(s, t, i)
            BY <2>2, FirstDifference
        <3>2. \A k \in Nat: DifferFirst(s, t, k) => k = i
            BY <3>1 DEF DifferFirst
        <3>3. /\ LessThan(s, t) <=> s.mem[i] < t.mem[i]
              /\ LessThan(t, s) <=> t.mem[i] < s.mem[i]
            BY <1>2, <1>3, <2>2, <3>1, <3>2
        <3>4. s.mem[i] \in Nat /\ t.mem[i] \in Nat /\ s.mem[i] # t.mem[i]
            BY <1>1, <3>1 DEF DifferFirst, Differ
        <3> QED BY <3>3, <3>4
    <2> QED BY <2>1, <2>2
<1>7. ASSUME Text(s) = Text(t) PROVE ~LessThan(s, t)
    <2>1. s.len = t.len
        BY <1>4, <1>5, <1>7
    <2>2. \A i \in Nat: i < s.len => s.mem[i] = t.mem[i]
        BY <1>4, <1>5, <1>7, <2>1
    <2>3. \A i \in Nat: ~Differ(s, t, i)
        BY <2>2 DEF Differ
    <2>4. \A i \in Nat: ~DifferFirst(s, t, i)
        BY <2>3 DEF DifferFirst
    <2> QED BY <1>1, <1>2, <2>1, <2>4
<1>8. Greater(s, t) <=> LessThan(t, s)
    BY <1>2, <1>3
<1> QED BY <1>6, <1>7, <1>8

\* A text is less than the text with a character behind it.
LEMMA LongerIsGreater ==
    ASSUME NEW s, Sound(s), NEW t, Sound(t), NEW c \in Chars, Says(t, Append(Text(s), c))
    PROVE  LessThan(s, t)
<1>1. /\ Text(s) \in Seq(Chars) /\ Len(Text(s)) = s.len /\ s.len \in Nat
      /\ \A i \in Nat: i < s.len => Text(s)[i + 1] = s.mem[i]
    BY TextOfSound
<1>2. /\ Text(t) \in Seq(Chars) /\ Len(Text(t)) = t.len
      /\ \A i \in Nat: i < t.len => Text(t)[i + 1] = t.mem[i]
    BY TextOfSound
<1>3. Text(t) = Append(Text(s), c)
    BY DEF Says
<1>4. /\ Len(Append(Text(s), c)) = s.len + 1
      /\ \A k \in 1..s.len: Append(Text(s), c)[k] = Text(s)[k]
    BY <1>1, AppendProperties
<1>5. t.len = s.len + 1
    BY <1>2, <1>3, <1>4
<1>6. ASSUME NEW i \in Nat, i < s.len PROVE s.mem[i] = t.mem[i]
    <2>1. i + 1 \in 1..s.len /\ i < t.len
        BY <1>1, <1>5, <1>6
    <2> QED BY <1>1, <1>2, <1>3, <1>4, <1>6, <2>1
<1>7. \A i \in Nat: ~Differ(s, t, i)
    BY <1>6 DEF Differ
<1>8. s.len < t.len
    BY <1>1, <1>5
<1>9. LessThan(s, t) <=>
             \/ s.len < t.len /\ \A i \in Nat: ~Differ(s, t, i)
             \/ \E i \in Nat: DifferFirst(s, t, i) /\ s.mem[i] < t.mem[i]
    BY LessThanIs
<1> QED BY <1>7, <1>8, <1>9

----------------------------------------------------------------------------
(* The loop of find, from the first character on *)

NoneMatched == [m |-> 0, i |-> 0]

\* The states of a loop that comes to the first top characters.
IsSearch(s, p, top, f) ==
    f = [n \in 0..top |-> IF n = 0 THEN NoneMatched ELSE Matched(s, p, n - 1, f[n - 1])]

\* There is one: each state is made of the one before.
LEMMA SearchExists ==
    ASSUME NEW s, NEW p
    PROVE  \A top \in Nat: \E f: IsSearch(s, p, top, f)
<1> DEFINE T == {top \in Nat: \E f: IsSearch(s, p, top, f)}
<1>1. 0 \in T
    <2> DEFINE f == [n \in 0..0 |-> NoneMatched]
    <2>1. f = [n \in 0..0 |-> IF n = 0 THEN NoneMatched ELSE Matched(s, p, n - 1, f[n - 1])]
        OBVIOUS
    <2>2. IsSearch(s, p, 0, f)
        BY <2>1, Zenon DEF IsSearch
    <2> QED BY <2>2
<1>2. ASSUME NEW top \in Nat, top \in T PROVE top + 1 \in T
    <2>1. PICK f: IsSearch(s, p, top, f)
        BY <1>2
    <2> DEFINE g == [n \in 0..top + 1 |-> IF n = top + 1 THEN Matched(s, p, top, f[top]) ELSE f[n]]
               h == [n \in 0..top + 1 |-> IF n = 0 THEN NoneMatched ELSE Matched(s, p, n - 1, g[n - 1])]
    <2>2. /\ f = [n \in 0..top |-> IF n = 0 THEN NoneMatched ELSE Matched(s, p, n - 1, f[n - 1])]
        BY <2>1, Zenon DEF IsSearch
    <2>3. ASSUME NEW n \in 0..top + 1 PROVE g[n] = h[n]
        <3>1. CASE n = top + 1
            <4>1. n # 0 /\ n - 1 = top /\ top \in 0..top + 1 /\ top # top + 1
                BY <3>1
            <4>2. g[n] = Matched(s, p, top, f[top]) /\ g[top] = f[top]
                BY <3>1, <4>1
            <4>3. h[n] = Matched(s, p, top, g[top])
                BY <4>1
            <4> QED BY <4>2, <4>3
        <3>2. CASE n = 0
            <4>1. n \in 0..top /\ n # top + 1
                BY <3>2
            <4>2. g[n] = f[n] /\ f[n] = NoneMatched /\ h[n] = NoneMatched
                BY <2>2, <3>2, <4>1
            <4> QED BY <4>2
        <3>3. CASE n # top + 1 /\ n # 0
            <4>1. n \in 0..top /\ n - 1 \in 0..top + 1 /\ n - 1 # top + 1
                BY <3>3
            <4>2. g[n] = f[n] /\ g[n - 1] = f[n - 1]
                BY <3>3, <4>1
            <4>3. f[n] = Matched(s, p, n - 1, f[n - 1])
                BY <2>2, <3>3, <4>1
            <4>4. h[n] = Matched(s, p, n - 1, g[n - 1])
                BY <3>3
            <4> QED BY <4>2, <4>3, <4>4
        <3> QED BY <3>1, <3>2, <3>3
    <2>4. g = h
        BY <2>3
    <2>5. IsSearch(s, p, top + 1, g)
        BY <2>4, Zenon DEF IsSearch
    <2> QED BY <2>5
<1> HIDE DEF T
<1>3. \A n \in Nat: n \in T
    BY <1>1, <1>2, AllNumbers
<1> QED BY <1>3 DEF T

\* What Search is, one character at a time.
LEMMA SearchIs ==
    ASSUME NEW s, NEW p, s.len \in Nat
    PROVE  /\ Search(s, p, 0)[0] = NoneMatched
           /\ \A n \in Nat: n < s.len =>
                  Search(s, p, 0)[n + 1] = Matched(s, p, n, Search(s, p, 0)[n])
<1>1. Search(s, p, 0) = CHOOSE f: IsSearch(s, p, s.len, f)
    BY Zenon DEF IsSearch, Search, NoneMatched
<1>2. \E f: IsSearch(s, p, s.len, f)
    BY SearchExists
<1>3. IsSearch(s, p, s.len, Search(s, p, 0))
    BY <1>1, <1>2, Zenon
<1> DEFINE f == Search(s, p, 0)
<1>4. f = [n \in 0..s.len |-> IF n = 0 THEN NoneMatched ELSE Matched(s, p, n - 1, f[n - 1])]
    BY <1>3, Zenon DEF IsSearch
<1> HIDE DEF f
<1>5. f[0] = NoneMatched
    BY <1>4
<1>6. ASSUME NEW n \in Nat, n < s.len PROVE f[n + 1] = Matched(s, p, n, f[n])
    <2>1. n + 1 \in 0..s.len /\ n + 1 # 0 /\ (n + 1) - 1 = n
        BY <1>6
    <2> QED BY <1>4, <2>1
<1> QED BY <1>5, <1>6 DEF f

\* The first n characters of the pattern stand at a place of the string.
Stand(s, p, i, n) == \A k \in Nat: k < n => s.mem[i + k] = p.mem[k]

\* When the loop comes to character n, what it has matched stands at place i, all of
\* it when the pattern is through, and otherwise right before n.
FoundSoFar(s, p, n, was) ==
    /\ was.m \in Nat /\ was.i \in Nat /\ was.m <= p.len
    /\ was.m # 0 => Stand(s, p, was.i, was.m) /\ was.i + was.m <= n
    /\ was.m # 0 /\ was.m # p.len => was.i + was.m = n

\* A turn of the loop keeps that.
LEMMA MatchedIs ==
    ASSUME NEW s, NEW p, p.len \in Nat, p.len # 0, NEW n \in Nat, NEW was, FoundSoFar(s, p, n, was)
    PROVE  FoundSoFar(s, p, n + 1, Matched(s, p, n, was))
<1>1. /\ was.m \in Nat /\ was.i \in Nat /\ was.m <= p.len
      /\ was.m # 0 => Stand(s, p, was.i, was.m) /\ was.i + was.m <= n
      /\ was.m # 0 /\ was.m # p.len => was.i + was.m = n
    BY DEF FoundSoFar
<1>2. CASE was.m = p.len
    <2>1. Matched(s, p, n, was) = was
        BY <1>2 DEF Matched
    <2> QED BY <1>1, <1>2, <2>1 DEF FoundSoFar
<1>3. CASE was.m # p.len /\ s.mem[n] # p.mem[was.m]
    <2>1. /\ Matched(s, p, n, was).m = 0
          /\ Matched(s, p, n, was).i = was.i
        BY <1>3 DEF Matched
    <2> QED BY <1>1, <2>1 DEF FoundSoFar
<1>4. CASE was.m # p.len /\ s.mem[n] = p.mem[was.m]
    <2>1. /\ Matched(s, p, n, was).m = was.m + 1
          /\ Matched(s, p, n, was).i = IF was.m = 0 THEN n ELSE was.i
        BY <1>4 DEF Matched
    <2> DEFINE i == IF was.m = 0 THEN n ELSE was.i
    <2>2. i \in Nat /\ i + was.m = n
        BY <1>1, <1>4
    <2>3. \A k \in Nat: k < was.m => s.mem[i + k] = p.mem[k]
        BY <1>1, <1>4 DEF Stand
    <2> HIDE DEF i
    <2>4. ASSUME NEW k \in Nat, k < was.m + 1 PROVE s.mem[i + k] = p.mem[k]
        <3>1. k < was.m \/ k = was.m
            BY <1>1, <2>4
        <3> QED BY <1>4, <2>2, <2>3, <3>1
    <2>5. Stand(s, p, i, was.m + 1)
        BY <2>4 DEF Stand
    <2>6. i + (was.m + 1) = n + 1 /\ was.m + 1 \in Nat /\ was.m + 1 <= p.len
        BY <1>1, <1>4, <2>2
    <2>7. Matched(s, p, n, was).m = was.m + 1 /\ Matched(s, p, n, was).i = i
        BY <2>1 DEF i
    <2> QED BY <2>2, <2>5, <2>6, <2>7 DEF FoundSoFar
<1> QED BY <1>2, <1>3, <1>4

\* What has been matched is there, at each character.
LEMMA SearchFinds ==
    ASSUME NEW s, s.len \in Nat, NEW p, p.len \in Nat, p.len # 0
    PROVE  \A n \in Nat: n <= s.len => FoundSoFar(s, p, n, Search(s, p, 0)[n])
<1> DEFINE f == Search(s, p, 0)
           T == {n \in Nat: n <= s.len => FoundSoFar(s, p, n, f[n])}
<1>1. 0 \in T
    <2>1. f[0].m = 0 /\ f[0].i = 0
        BY SearchIs DEF NoneMatched
    <2>2. FoundSoFar(s, p, 0, f[0])
        BY <2>1 DEF FoundSoFar
    <2> QED BY <2>2
<1>2. ASSUME NEW n \in Nat, n \in T PROVE n + 1 \in T
    <2>1. ASSUME n + 1 <= s.len PROVE FoundSoFar(s, p, n + 1, f[n + 1])
        <3>1. n < s.len /\ n <= s.len
            BY <2>1
        <3>2. FoundSoFar(s, p, n, f[n])
            BY <1>2, <3>1
        <3>3. f[n + 1] = Matched(s, p, n, f[n])
            BY <3>1, SearchIs
        <3>4. FoundSoFar(s, p, n + 1, Matched(s, p, n, f[n]))
            BY <3>2, MatchedIs
        <3> QED BY <3>3, <3>4
    <2> QED BY <2>1
<1> HIDE DEF T
<1>3. \A n \in Nat: n \in T
    BY <1>1, <1>2, AllNumbers
<1> QED BY <1>3 DEF T

\* A place of the pattern with none before it, and with no false start shortly before.
PlainFirstPlace(s, p, x) ==
    /\ x \in Nat /\ x + p.len <= s.len /\ Stand(s, p, x, p.len)
    /\ \A k \in Nat: k < x => ~Stand(s, p, k, p.len)
    /\ \A k \in Nat: k < x /\ k > x - p.len => s.mem[k] # p.mem[0]

\* It is found: the loop comes to it with nothing matched.
LEMMA FirstIsFound ==
    ASSUME NEW s, s.len \in Nat, NEW p, p.len \in Nat, p.len # 0,
           NEW x, PlainFirstPlace(s, p, x)
    PROVE  Search(s, p, 0)[s.len].m = p.len /\ Search(s, p, 0)[s.len].i = x
<1>0. /\ x \in Nat /\ x + p.len <= s.len /\ Stand(s, p, x, p.len)
      /\ \A k \in Nat: k < x => ~Stand(s, p, k, p.len)
      /\ \A k \in Nat: k < x /\ k > x - p.len => s.mem[k] # p.mem[0]
    BY DEF PlainFirstPlace
<1> USE <1>0
<1> DEFINE f == Search(s, p, 0)
           T == {j \in Nat: x + j <= s.len =>
                    /\ j < p.len => f[x + j].m = j
                    /\ j >= p.len => f[x + j].m = p.len
                    /\ j # 0 => f[x + j].i = x}
<1>1. 0 \in T
    <2>1. x <= s.len
        OBVIOUS
    <2>2. FoundSoFar(s, p, x, f[x])
        BY <2>1, SearchFinds
    <2> DEFINE m == f[x].m
               i == f[x].i
    <2>3. /\ m \in Nat /\ i \in Nat /\ m <= p.len
          /\ m # 0 => Stand(s, p, i, m) /\ i + m <= x
          /\ m # 0 /\ m # p.len => i + m = x
        BY <2>2 DEF FoundSoFar
    <2> HIDE DEF m, i
    <2>4. m # p.len
        <3> SUFFICES ASSUME m = p.len PROVE FALSE
            OBVIOUS
        <3>1. Stand(s, p, i, p.len) /\ i + p.len <= x
            BY <2>3
        <3>2. i < x
            BY <2>3, <3>1
        <3> QED BY <2>3, <3>1, <3>2
    <2>5. m = 0
        <3> SUFFICES ASSUME m # 0 PROVE FALSE
            OBVIOUS
        <3>1. Stand(s, p, i, m) /\ i + m = x
            BY <2>3, <2>4
        <3>2. 0 < m /\ i + 0 = i
            BY <2>3
        <3>3. s.mem[i] = p.mem[0]
            BY <3>1, <3>2 DEF Stand
        <3>4. i < x /\ i > x - p.len
            BY <2>3, <2>4, <3>1
        <3> QED BY <2>3, <3>3, <3>4
    <2>6. x + 0 = x /\ f[x].m = 0
        BY <2>5 DEF m
    <2> QED BY <2>6
<1>2. ASSUME NEW j \in Nat, j \in T PROVE j + 1 \in T
    <2>1. ASSUME x + (j + 1) <= s.len
          PROVE  /\ j + 1 < p.len => f[x + (j + 1)].m = j + 1
                 /\ j + 1 >= p.len => f[x + (j + 1)].m = p.len
                 /\ f[x + (j + 1)].i = x
        <3>1. x + j \in Nat /\ x + j < s.len /\ x + j <= s.len /\ (x + j) + 1 = x + (j + 1)
            BY <2>1
        <3>2. f[x + (j + 1)] = Matched(s, p, x + j, f[x + j])
            BY <3>1, SearchIs
        <3>3. /\ j < p.len => f[x + j].m = j
              /\ j >= p.len => f[x + j].m = p.len
              /\ j # 0 => f[x + j].i = x
            BY <1>2, <3>1
        <3> HIDE DEF f
        <3>4. CASE j < p.len
            <4>1. s.mem[x + j] = p.mem[j] /\ f[x + j].m = j /\ j # p.len
                BY <3>3, <3>4 DEF Stand
            <4>2. /\ Matched(s, p, x + j, f[x + j]).m = j + 1
                  /\ Matched(s, p, x + j, f[x + j]).i = IF j = 0 THEN x + j ELSE f[x + j].i
                BY <4>1 DEF Matched
            <4>3. f[x + (j + 1)].m = j + 1 /\ f[x + (j + 1)].i = x
                BY <3>2, <3>3, <4>2
            <4> QED BY <3>4, <4>3
        <3>5. CASE j >= p.len
            <4>1. f[x + j].m = p.len /\ j # 0
                BY <3>3, <3>5
            <4>2. Matched(s, p, x + j, f[x + j]) = f[x + j]
                BY <4>1 DEF Matched
            <4> QED BY <3>2, <3>3, <3>5, <4>1, <4>2
        <3> QED BY <3>4, <3>5
    <2> QED BY <2>1
<1> HIDE DEF T
<1>3. \A j \in Nat: j \in T
    BY <1>1, <1>2, AllNumbers
<1> HIDE DEF f
<1>4. s.len - x \in Nat /\ x + (s.len - x) = s.len /\ s.len - x >= p.len /\ s.len - x # 0
    OBVIOUS
<1>5. s.len - x \in T
    BY <1>3, <1>4
<1> QED BY <1>4, <1>5 DEF f, T

\* Places of a text are places of the buffer, where characters count from 0.
LEMMA PlacesAre ==
    ASSUME NEW s, Sound(s), NEW p, Sound(p)
    PROVE  \A n: n \in Occurrences(Text(s), Text(p), 0) <=>
                     n \in Nat /\ n + p.len <= s.len /\ Stand(s, p, n, p.len)
<1>1. /\ Text(s) \in Seq(Chars) /\ Len(Text(s)) = s.len /\ s.len \in Nat
      /\ \A i \in Nat: i < s.len => Text(s)[i + 1] = s.mem[i]
    BY TextOfSound
<1>2. /\ Text(p) \in Seq(Chars) /\ Len(Text(p)) = p.len /\ p.len \in Nat
      /\ \A i \in Nat: i < p.len => Text(p)[i + 1] = p.mem[i]
    BY TextOfSound
<1>3. \A n: n \in Occurrences(Text(s), Text(p), 0) <=>
          n \in Nat /\ n + p.len <= s.len /\ SubSeq(Text(s), n + 1, n + p.len) = Text(p)
    <2>1. \A n: n \in 0..s.len - p.len <=> n \in Nat /\ n + p.len <= s.len
        BY <1>1, <1>2
    <2> QED BY <1>1, <1>2, <2>1 DEF Occurrences
<1>4. ASSUME NEW n \in Nat, n + p.len <= s.len
      PROVE  SubSeq(Text(s), n + 1, n + p.len) = Text(p) <=> Stand(s, p, n, p.len)
    <2> DEFINE sub == SubSeq(Text(s), n + 1, n + p.len)
    <2>1. /\ sub \in Seq(Chars) /\ Len(sub) = p.len
          /\ \A i \in Nat: i < p.len => sub[i + 1] = s.mem[n + i]
        <3> DEFINE last == n + p.len
        <3>1. last \in Nat /\ n <= last /\ last <= Len(Text(s)) /\ last - n = p.len
            BY <1>1, <1>2, <1>4
        <3> HIDE DEF last
        <3>2. /\ SubSeq(Text(s), n + 1, last) \in Seq(Chars)
              /\ Len(SubSeq(Text(s), n + 1, last)) = last - n
              /\ \A i \in Nat: i < last - n =>
                     SubSeq(Text(s), n + 1, last)[i + 1] = Text(s)[(i + n) + 1]
            BY <1>1, <3>1, SubText
        <3>3. \A i \in Nat: i < p.len =>
                  i + n \in Nat /\ i + n < s.len /\ s.mem[i + n] = s.mem[n + i]
            <4>1. \A i \in Nat: i < p.len => i + n = n + i /\ i + n \in Nat /\ i + n < s.len
                BY <1>1, <1>2, <1>4
            <4> QED BY <4>1
        <3> QED BY <1>1, <3>1, <3>2, <3>3, ZenonT(40) DEF last
    <2> HIDE DEF sub
    <2>2. ASSUME sub = Text(p) PROVE Stand(s, p, n, p.len)
        BY <1>2, <2>1, <2>2 DEF Stand
    <2>3. ASSUME Stand(s, p, n, p.len) PROVE sub = Text(p)
        <3>1. \A i \in Nat: i < p.len => sub[i + 1] = Text(p)[i + 1]
            BY <1>2, <2>1, <2>3 DEF Stand
        <3> QED BY <1>2, <2>1, <3>1, SameText
    <2> QED BY <2>2, <2>3 DEF sub
<1> QED BY <1>3, <1>4

\* What TextQueriesAgree says of find.
FindsWhatIsThere(s, p) ==
    LET places == Occurrences(Text(s), Text(p), 0)
        found == FindFrom(s, p, 0) IN
    /\ found # NoPlace => found \in places
    /\ Text(p) # << >> =>
           \A n \in places:
               (\A k \in 0..n - 1:
                   k \notin places /\ (k > n - Len(Text(p)) => Text(s)[k + 1] # Text(p)[1])) => found = n

\* find reports places of the pattern only, and the first one when it comes to it
\* with nothing matched.
LEMMA FindsPlaces ==
    ASSUME NEW s, Sound(s), NEW p, Sound(p)
    PROVE  FindsWhatIsThere(s, p)
<1> DEFINE found == FindFrom(s, p, 0)
<1> DEFINE places == Occurrences(Text(s), Text(p), 0)
<1>1. /\ Text(s) \in Seq(Chars) /\ Len(Text(s)) = s.len /\ s.len \in Nat
      /\ \A i \in Nat: i < s.len => Text(s)[i + 1] = s.mem[i]
    BY TextOfSound
<1>2. /\ Text(p) \in Seq(Chars) /\ Len(Text(p)) = p.len /\ p.len \in Nat
      /\ \A i \in Nat: i < p.len => Text(p)[i + 1] = p.mem[i]
    BY TextOfSound
<1>3. \A n: n \in places <=> n \in Nat /\ n + p.len <= s.len /\ Stand(s, p, n, p.len)
    BY PlacesAre
<1> HIDE DEF places
<1> DEFINE last == Search(s, p, 0)[s.len]
<1>4. found = IF 0 + p.len > s.len \/ p.len = 0 THEN NoPlace
              ELSE IF last.m = p.len THEN last.i ELSE NoPlace
    BY Zenon DEF FindFrom
<1> HIDE DEF found
<1>5. ASSUME p.len # 0 PROVE FoundSoFar(s, p, s.len, last)
    BY <1>1, <1>2, <1>5, SearchFinds
<1> HIDE DEF last
<1>6. ASSUME found # NoPlace PROVE found \in places
    <2>1. p.len # 0 /\ last.m = p.len /\ found = last.i
        BY <1>4, <1>6
    <2>2. last.i \in Nat /\ Stand(s, p, last.i, last.m) /\ last.i + last.m <= s.len
        BY <1>5, <2>1 DEF FoundSoFar
    <2> QED BY <1>3, <2>1, <2>2
<1>7. ASSUME Text(p) # << >>, NEW n \in places,
             \A k \in 0..n - 1: k \notin places /\ (k > n - Len(Text(p)) => Text(s)[k + 1] # Text(p)[1])
      PROVE  found = n
    <2>1. n \in Nat /\ n + p.len <= s.len /\ Stand(s, p, n, p.len)
        BY <1>3, <1>7
    <2>2. p.len # 0
        BY <1>2, <1>7, EmptySeq
    <2>3. ASSUME NEW k \in Nat, k < n
          PROVE  ~Stand(s, p, k, p.len) /\ (k > n - p.len => s.mem[k] # p.mem[0])
        <3>1. k \in 0..n - 1 /\ k < s.len /\ k + p.len <= s.len
            BY <1>1, <1>2, <2>1, <2>3
        <3>2. 0 < p.len /\ 0 + 1 = 1
            BY <1>2, <2>2
        <3>3. Text(p)[1] = p.mem[0]
            BY <1>2, <3>2
        <3>4. Text(s)[k + 1] = s.mem[k]
            BY <1>1, <3>1
        <3> QED BY <1>2, <1>3, <1>7, <3>1, <3>3, <3>4
    <2>4. last.m = p.len /\ last.i = n
        <3>1. \A k \in Nat: k < n => ~Stand(s, p, k, p.len)
            BY <2>3
        <3>2. \A k \in Nat: k < n /\ k > n - p.len => s.mem[k] # p.mem[0]
            BY <2>3
        <3>3. PlainFirstPlace(s, p, n)
            BY <2>1, <3>1, <3>2 DEF PlainFirstPlace
        <3>4. s.len \in Nat /\ p.len \in Nat
            BY <1>1, <1>2
        <3>5. Search(s, p, 0)[s.len].m = p.len /\ Search(s, p, 0)[s.len].i = n
            BY ONLY <2>2, <3>3, <3>4, FirstIsFound
        <3> QED BY <3>5 DEF last
    <2>5. ~(0 + p.len > s.len)
        BY <1>1, <1>2, <2>1
    <2> QED BY <1>4, <2>2, <2>4, <2>5
<1> QED BY <1>6, <1>7, Zenon DEF places, found, FindsWhatIsThere

LEMMA TextQueriesFollow == StrInv => TextQueriesAgree
<1> SUFFICES ASSUME StrInv PROVE TextQueriesAgree
    OBVIOUS
<1>1. ASSUME NEW s \in texts, NEW t \in texts
      PROVE
        /\ Terminated(str[s]) /\ Terminated(str[t]) =>
               (SameStr(str[s], str[t]) <=> Text(str[s]) = Text(str[t]))
        /\ Text(str[s]) # Text(str[t]) => (LessThan(str[s], str[t]) <=> ~LessThan(str[t], str[s]))
        /\ Text(str[s]) = Text(str[t]) => ~LessThan(str[s], str[t])
        /\ Greater(str[s], str[t]) <=> LessThan(str[t], str[s])
        /\ \A c \in Chars: Says(str[t], Append(Text(str[s]), c)) => LessThan(str[s], str[t])
        /\ FindsWhatIsThere(str[s], str[t])
    <2>1. Sound(str[s]) /\ Sound(str[t])
        BY DEF StrInv
    <2> QED BY <2>1, SameAsTexts, TextsAreOrdered, LongerIsGreater, FindsPlaces
<1> QED BY <1>1, Zenon DEF TextQueriesAgree, FindsWhatIsThere

\* What comparisons and find answer of strings is what their texts would (Str.cpp).
THEOREM StringsAnswerAsTexts == StrSpec => []TextQueriesAgree
BY StrInvariant, TextQueriesFollow, PTL

----------------------------------------------------------------------------
(* The types of Core together: a behaviour of one leaves the others alone *)

\* Each component of MCCore behaves as its own specification says.
THEOREM PartsAreTheirSpecs == SpecPart => Spec /\ ContainerSpec /\ StrSpec
<1>1. InitPart => Init /\ ContainerInit /\ StrInit
    BY DEF InitPart
<1>2. [NextPart]_<<part, vars, containerVars, strVars>> =>
          [Next]_vars /\ [ContainerNext]_containerVars /\ [StrNext]_strVars
    BY Zenon DEF NextPart, NextVec, NextOptionResult, NextStr
<1> QED BY <1>1, <1>2, PTL DEF SpecPart, Spec, ContainerSpec, StrSpec

\* Vectors, options, results and strings keep the types that the queries need.
THEOREM TypesHold == SpecPart => []TypeOK
<1>1. VecTypeOK /\ OptionResultTypeOK /\ StrTypeOK => TypeOK
    BY DEF TypeOK
<1> QED BY <1>1, PartsAreTheirSpecs, TypeCorrect, ContainersKeepTypes, StringsStayInTheirBuffers, PTL

\* What vectors and strings answer is what the list and the text would.
THEOREM QueriesHold == SpecPart => []AllQueriesAgree
<1>1. QueriesAgree /\ TextQueriesAgree => AllQueriesAgree
    BY DEF AllQueriesAgree
<1> QED BY <1>1, PartsAreTheirSpecs, VectorsAnswerAsLists, StringsAnswerAsTexts, PTL
============================================================================
