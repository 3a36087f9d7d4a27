-------------------------- MODULE JSONLogger_proofs --------------------------
(***************************************************************************)
(* Proofs about JSONLogger: types, the protocol between the consumer and   *)
(* its flushers, the stream, and the lines; and about sanitize, which      *)
(* makes JSON strings of its messages.                                     *)
(***************************************************************************)
EXTENDS JSONLogger, JSONSanitize, SequenceTheorems, FiniteSetTheorems, WellFoundedInduction, TLAPS

(* Who holds the mutex, and where. *)
LockInv ==
  /\ mutex = "consumer" <=> cpc \in {"print", "test"}
  /\ mutex = "owner" <=> life \in {"dtorClose", "dtorUnlock"}
  /\ \A f \in Flushers : fpc[f] \in CriticalLocations => mutex = f

(* Messages are consumed by a logger that is ready, and each is counted.   *)
CallInv ==
  /\ cpc # "idle" => life = "ready"
  /\ cpc \in {"lock", "print"} => calls > 0

(* The flusher protocol.  It takes in the flushers that have set idle but  *)
(* still hold the mutex, and the consumer between its two steps in         *)
(* flush_after, where idle is false and no flusher exists yet.             *)
FlusherInv ==
  /\ \A f, g \in Flushers : Pending(f) /\ Pending(g) => f = g
  /\ \A f \in Flushers : Pending(f) => ~idle
  /\ \A f \in Flushers : fpc[f] \in Live => cpc \notin {"busy", "spawn"}
  /\ cpc = "spawn" => ~idle

(* Only a flusher that is about to fall back to stdout sees no stream.     *)
StreamInv ==
  /\ stream = "closed" => life \in {"dtorUnlock", "dtorFree", "freed"}
  /\ (life = "ready" /\ stream = "null") => \E f \in Flushers : fpc[f] = "done"
  /\ life = "constructed" =>
       stream = "null" /\ buf = <<>> /\ idle /\ \A f \in Flushers : fpc[f] = "none"

ProtocolInv == TypeOK /\ LockInv /\ CallInv /\ FlusherInv /\ StreamInv

-----------------------------------------------------------------------------
(* Every variable keeps its type. *)
THEOREM TypeCorrect == Spec => []TypeOK
<1> USE ConstantsAssumption DEF ConstantsAssumption, TypeOK, Live
<1>1. ASSUME Init PROVE TypeOK
  <2>1. buf \in Seq(Nat) /\ stored \in Seq(Nat)
    BY <1>1 DEF Init
  <2>2. calls \in 0 .. MaxLines /\ displaced \in 0 .. MaxDisplacements
    BY <1>1 DEF Init
  <2>3. /\ inode \in Nat /\ atPath \in Nat /\ created \in Nat /\ moved \in SUBSET Nat
        /\ fpc \in [Flushers -> Live \cup {"none", "exited", "dangling"}]
    BY <1>1 DEF Init
  <2> QED
    BY <1>1, <2>1, <2>2, <2>3 DEF Init
<1>2. TypeOK /\ [Next]_vars => TypeOK'
  <2> SUFFICES ASSUME TypeOK, [Next]_vars PROVE TypeOK'
    OBVIOUS
  <2> USE DEF streamVars, fileVars
  <2>1. ASSUME NEW path \in {"missing", "stdout", "stderr", "file"}, Initialise(path)
        PROVE TypeOK'
    BY <2>1 DEF Initialise, OpenLog
  <2>2. CASE Call
    BY <2>2 DEF Call
  <2>3. CASE ConsumerLock
    BY <2>3 DEF ConsumerLock
  <2>4. CASE PrintLine
    <3> DEFINE lines == Append(buf, calls)
    <3>1. lines \in Seq(Nat)
      OBVIOUS
    <3>2. PICK n \in 0 .. Len(lines) : /\ stored' = stored \o SubSeq(lines, 1, n)
                                       /\ buf' = SubSeq(lines, n + 1, Len(lines))
      BY <2>4 DEF PrintLine
    <3>3. SubSeq(lines, 1, n) \in Seq(Nat) /\ SubSeq(lines, n + 1, Len(lines)) \in Seq(Nat)
      BY <3>1
    <3>4. stored' \in Seq(Nat) /\ buf' \in Seq(Nat)
      BY <3>2, <3>3
    <3> QED
      BY <2>4, <3>4 DEF PrintLine
  <2>5. CASE TestIdle
    BY <2>5 DEF TestIdle
  <2>6. CASE SetBusy
    BY <2>6 DEF SetBusy
  <2>7. CASE Spawn
    BY <2>7 DEF Spawn
  <2>8. ASSUME NEW f \in Flushers, Flusher(f)
        PROVE TypeOK'
    <3> USE DEF Goto
    <3>1. CASE FlusherLock(f)
      BY <3>1 DEF FlusherLock
    <3>2. CASE Flush(f)
      BY <3>2 DEF Flush, FlushBuffer
    <3>3. CASE Check(f)
      BY <3>3 DEF Check
    <3>4. CASE Reopen(f)
      BY <3>4 DEF Reopen, FlushBuffer, OpenLog
    <3>5. CASE SetIdle(f)
      BY <3>5 DEF SetIdle
    <3>6. CASE FlusherUnlock(f)
      BY <3>6 DEF FlusherUnlock
    <3>7. CASE Dangle(f)
      BY <3>7 DEF Dangle
    <3> QED
      BY <2>8, <3>1, <3>2, <3>3, <3>4, <3>5, <3>6, <3>7 DEF Flusher
  <2>9. CASE Destroy
    BY <2>9 DEF Destroy
  <2>10. CASE Destructor
    <3>1. CASE DestructorLock
      BY <3>1 DEF DestructorLock
    <3>2. CASE DestructorClose
      <4>1. CASE FlushBuffer
        <5>1. stored \o buf \in Seq(Nat) /\ <<>> \in Seq(Nat)
          OBVIOUS
        <5> QED
          BY <3>2, <4>1, <5>1 DEF DestructorClose, FlushBuffer
      <4>2. CASE UNCHANGED <<buf, stored>>
        BY <3>2, <4>2 DEF DestructorClose
      <4> QED
        BY <3>2, <4>1, <4>2 DEF DestructorClose
    <3>3. CASE DestructorUnlock
      BY <3>3 DEF DestructorUnlock
    <3>4. CASE DestructorFree
      BY <3>4 DEF DestructorFree
    <3> QED
      BY <2>10, <3>1, <3>2, <3>3, <3>4 DEF Destructor
  <2>11. CASE Displace
    BY <2>11 DEF Displace
  <2>12. CASE Recreate \/ MoveBack
    <3>1. CASE Recreate
      BY <3>1 DEF Recreate
    <3>2. CASE MoveBack
      <4>1. atPath' \in Nat /\ UNCHANGED moved
        <5>1. moved \subseteq Nat /\ atPath' \in moved /\ UNCHANGED moved
          BY <3>2 DEF MoveBack
        <5> QED
          BY ONLY <5>1, Zenon
      <4> QED
        BY <3>2, <4>1 DEF MoveBack
    <3> QED
      BY <2>12, <3>1, <3>2
  <2>13. CASE UNCHANGED vars
    BY <2>13 DEF vars
  <2> QED
    BY <2>1, <2>2, <2>3, <2>4, <2>5, <2>6, <2>7, <2>8, <2>9, <2>10, <2>11, <2>12, <2>13
    DEF Next, Consumer
<1> QED
  BY <1>1, <1>2, PTL DEF Spec

-----------------------------------------------------------------------------
(* The invariant of the protocol is inductive. *)
THEOREM ProtocolInvariant == Spec => []ProtocolInv
<1> USE ConstantsAssumption DEF ConstantsAssumption
<1>1. ASSUME Init PROVE LockInv /\ CallInv /\ FlusherInv /\ StreamInv
  BY <1>1 DEF Init, LockInv, CallInv, FlusherInv, StreamInv, Pending, CriticalLocations, Live
<1>2. ASSUME ProtocolInv, TypeOK', [Next]_vars
      PROVE  (LockInv /\ CallInv /\ FlusherInv /\ StreamInv)'
  <2> USE <1>2 DEF ProtocolInv, TypeOK, streamVars, fileVars
  <2> USE DEF LockInv, CallInv, FlusherInv, StreamInv, Pending, CriticalLocations, Live
  <2>1. ASSUME NEW path \in {"missing", "stdout", "stderr", "file"}, Initialise(path)
        PROVE (LockInv /\ CallInv /\ FlusherInv /\ StreamInv)'
    BY <2>1 DEF Initialise, OpenLog
  <2>2. CASE Call
    BY <2>2 DEF Call
  <2>3. CASE ConsumerLock
    BY <2>3 DEF ConsumerLock
  <2>4. CASE PrintLine
    BY <2>4 DEF PrintLine
  <2>5. CASE TestIdle
    BY <2>5 DEF TestIdle
  <2>6. CASE SetBusy
    BY <2>6 DEF SetBusy
  <2>7. CASE Spawn
    BY <2>7 DEF Spawn
  <2>8. ASSUME NEW f \in Flushers, Flusher(f)
        PROVE (LockInv /\ CallInv /\ FlusherInv /\ StreamInv)'
    <3> USE DEF Goto
    <3>1. CASE FlusherLock(f)
      BY <3>1 DEF FlusherLock
    <3>2. CASE Flush(f)
      BY <3>2 DEF Flush, FlushBuffer
    <3>3. CASE Check(f)
      BY <3>3 DEF Check
    <3>4. CASE Reopen(f)
      BY <3>4 DEF Reopen, FlushBuffer, OpenLog
    <3>5. CASE SetIdle(f)
      BY <3>5 DEF SetIdle
    <3>6. CASE FlusherUnlock(f)
      BY <3>6 DEF FlusherUnlock
    <3>7. CASE Dangle(f)
      BY <3>7 DEF Dangle
    <3> QED
      BY <2>8, <3>1, <3>2, <3>3, <3>4, <3>5, <3>6, <3>7 DEF Flusher
  <2>9. CASE Destroy
    BY <2>9 DEF Destroy
  <2>10. CASE Destructor
    BY <2>10 DEF Destructor, DestructorLock, DestructorClose, DestructorUnlock,
                 DestructorFree, FlushBuffer
  <2>11. CASE Displace
    BY <2>11 DEF Displace
  <2>12. CASE Recreate \/ MoveBack
    BY <2>12 DEF Recreate, MoveBack
  <2>13. CASE UNCHANGED vars
    BY <2>13 DEF vars
  <2> QED
    BY <2>1, <2>2, <2>3, <2>4, <2>5, <2>6, <2>7, <2>8, <2>9, <2>10, <2>11, <2>12, <2>13
    DEF Next, Consumer
<1> QED
  BY <1>1, <1>2, TypeCorrect, PTL DEF Spec, ProtocolInv

(* At most one flusher is pending, however the consumer and the flushers   *)
(* interleave, for any number of threads and messages.                     *)
THEOREM OneFlusher == Spec => []OneFlusherPending
<1>1. ProtocolInv => OneFlusherPending
  BY DEF ProtocolInv, FlusherInv, OneFlusherPending, Pending, Live
<1> QED
  BY <1>1, ProtocolInvariant, PTL

(* The write of idle outside the mutex never meets the flusher's.          *)
THEOREM RaceFree == Spec => []NoRaceOnIdle
<1>1. ProtocolInv => NoRaceOnIdle
  BY ConstantsAssumption
  DEF ConstantsAssumption, ProtocolInv, LockInv, FlusherInv, NoRaceOnIdle, Pending,
      Live, CriticalLocations
<1> QED
  BY <1>1, ProtocolInvariant, PTL

(* A line is never printed to a stream that is missing or closed.          *)
THEOREM StreamOpen == Spec => []PrintsToOpenStream
<1>1. ProtocolInv => PrintsToOpenStream
  BY ConstantsAssumption
  DEF ConstantsAssumption, ProtocolInv, TypeOK, LockInv, CallInv, StreamInv,
      PrintsToOpenStream, CriticalLocations
<1> QED
  BY <1>1, ProtocolInvariant, PTL

-----------------------------------------------------------------------------
(* A sequence is made of the part before a position and the part after it. *)
LEMMA SplitSequence ==
  ASSUME NEW u \in Seq(Nat), NEW n \in 0 .. Len(u)
  PROVE  /\ SubSeq(u, 1, n) \in Seq(Nat)
         /\ SubSeq(u, n + 1, Len(u)) \in Seq(Nat)
         /\ SubSeq(u, 1, n) \o SubSeq(u, n + 1, Len(u)) = u
<1>1. Len(u) \in Nat /\ \A i \in 1 .. Len(u) : u[i] \in Nat
  BY LenProperties, ElementOfSeq
<1>2. SubSeq(u, 1, n) \in Seq(Nat)
  <2>1. \A i \in 1 .. n : u[i] \in Nat
    BY <1>1
  <2> QED
    BY <2>1, SubSeqProperties
<1>3. SubSeq(u, n + 1, Len(u)) \in Seq(Nat)
  <2>1. \A i \in n + 1 .. Len(u) : u[i] \in Nat
    BY <1>1
  <2> QED
    BY <1>1, <2>1, SubSeqProperties
<1>4. SubSeq(u, 1, n) \o SubSeq(u, n + 1, Len(u)) = SubSeq(u, 1, Len(u))
  <2>1. 1 \in 1 .. Len(u) + 1 /\ n \in 1 - 1 .. Len(u) /\ Len(u) \in n .. Len(u)
    BY <1>1
  <2> QED
    BY <2>1, ConcatAdjacentSubSeq
<1> QED
  BY <1>2, <1>3, <1>4, SubSeqFull

(* Concatenation is associative, in a form the steps below can instantiate. *)
LEMMA Associative ==
  \A s, t, u \in Seq(Nat) : (s \o t) \o u = s \o (t \o u)
BY ONLY ConcatAssociative, SMTT(60)

(* Appending a line to the end of a sequence appends it to any sequence    *)
(* that ends with that one.                                                *)
LEMMA AppendLast ==
  \A s, t \in Seq(Nat), x \in Nat : s \o Append(t, x) = Append(s \o t, x)
<1> TAKE s, t \in Seq(Nat), x \in Nat
<1>1. Append(t, x) = t \o <<x>> /\ <<x>> \in Seq(Nat)
  BY AppendIsConcat
<1>2. s \o (t \o <<x>>) = (s \o t) \o <<x>>
  BY <1>1, Associative
<1>3. s \o t \in Seq(Nat)
  BY ConcatProperties
<1>4. (s \o t) \o <<x>> = Append(s \o t, x)
  BY <1>3, AppendIsConcat
<1> QED
  BY <1>1, <1>2, <1>4

(* Emptying the buffer into storage keeps the lines, too.                  *)
LEMMA FlushKeepsLines ==
  ASSUME NEW s \in Seq(Nat), NEW t \in Seq(Nat)
  PROVE  (s \o t) \o <<>> = s \o t
OBVIOUS

(* The lines stored and those in the buffer are the messages, in order.    *)
THEOREM LinesKept == Spec => []NoLineLost
<1> USE ConstantsAssumption DEF ConstantsAssumption, streamVars, fileVars
<1>1. ASSUME Init PROVE NoLineLost
  BY <1>1 DEF Init, NoLineLost, Printed
<1>2. ASSUME ProtocolInv, NoLineLost, [Next]_vars
      PROVE NoLineLost'
  <2> USE <1>2
  <2> USE DEF ProtocolInv, TypeOK, CallInv
  <2>1. ASSUME Printed' = Printed, stored' \o buf' = stored \o buf
        PROVE NoLineLost'
    BY <2>1 DEF NoLineLost
  <2>2. ASSUME FlushBuffer, Printed' = Printed
        PROVE NoLineLost'
    BY <2>1, <2>2, FlushKeepsLines DEF FlushBuffer
  <2>3. CASE PrintLine
    <3>1. Printed = calls - 1 /\ Printed' = calls /\ calls \in Nat \ {0}
      BY <2>3 DEF PrintLine, Printed
    <3>2. stored' \o buf' = Append(stored \o buf, calls)
      <4>1. PICK n \in 0 .. Len(Append(buf, calls)) :
              /\ stored' = stored \o SubSeq(Append(buf, calls), 1, n)
              /\ buf' = SubSeq(Append(buf, calls), n + 1, Len(Append(buf, calls)))
        BY <2>3 DEF PrintLine
      <4>2. PICK u \in Seq(Nat) : u = Append(buf, calls)
        <5>1. Append(buf, calls) \in Seq(Nat)
          BY <3>1
        <5> QED
          BY ONLY <5>1
      <4>3. PICK a \in Seq(Nat), b \in Seq(Nat) :
              a \o b = u /\ stored' = stored \o a /\ buf' = b
        <5>1. n \in 0 .. Len(u)
          BY <4>2
        <5>2. /\ SubSeq(u, 1, n) \in Seq(Nat)
              /\ SubSeq(u, n + 1, Len(u)) \in Seq(Nat)
              /\ SubSeq(u, 1, n) \o SubSeq(u, n + 1, Len(u)) = u
          BY <5>1, SplitSequence
        <5> QED
          BY <4>1, <4>2, <5>2
      <4>4. calls \in Nat /\ stored \in Seq(Nat) /\ buf \in Seq(Nat)
        BY <3>1
      <4>5. (stored \o a) \o b = Append(stored \o buf, calls)
        <5>1. a \o b = Append(buf, calls)
          BY ONLY <4>2, <4>3
        <5>2. (stored \o a) \o b = stored \o (a \o b)
          <6>1. a \in Seq(Nat) /\ b \in Seq(Nat)
            BY ONLY <4>3
          <6> QED
            BY ONLY <4>4, <6>1, Associative, ZenonT(60)
        <5>3. stored \o Append(buf, calls) = Append(stored \o buf, calls)
          BY ONLY <4>4, AppendLast, Zenon
        <5> QED
          BY ONLY <5>1, <5>2, <5>3, Zenon
      <4> QED
        BY <4>3, <4>5
    <3>3. Append([i \in 1 .. calls - 1 |-> i], calls) = [i \in 1 .. calls |-> i]
      BY <3>1
    <3> QED
      BY <3>1, <3>2, <3>3 DEF NoLineLost
  <2>4. CASE Call
    BY <2>1, <2>4 DEF Call, Printed
  <2>5. CASE ConsumerLock \/ TestIdle \/ SetBusy \/ Spawn
    BY <2>1, <2>5 DEF ConsumerLock, TestIdle, SetBusy, Spawn, Printed
  <2>6. ASSUME NEW path \in {"missing", "stdout", "stderr", "file"}, Initialise(path)
        PROVE NoLineLost'
    BY <2>1, <2>6 DEF Initialise, Printed
  <2>7. ASSUME NEW f \in Flushers, Flusher(f)
        PROVE NoLineLost'
    <3>1. CASE Flush(f)
      BY <2>2, <3>1 DEF Flush, Printed
    <3>2. CASE Reopen(f)
      BY <2>2, <3>2 DEF Reopen, Printed
    <3>3. CASE FlusherLock(f) \/ Check(f) \/ SetIdle(f) \/ FlusherUnlock(f) \/ Dangle(f)
      BY <2>1, <3>3 DEF FlusherLock, Check, SetIdle, FlusherUnlock, Dangle, Printed
    <3> QED
      BY <2>7, <3>1, <3>2, <3>3 DEF Flusher
  <2>8. CASE Destroy \/ DestructorLock \/ DestructorUnlock \/ DestructorFree
    BY <2>1, <2>8 DEF Destroy, DestructorLock, DestructorUnlock, DestructorFree, Printed
  <2>9. CASE DestructorClose
    BY <2>1, <2>2, <2>9 DEF DestructorClose, Printed
  <2>10. CASE Displace \/ Recreate \/ MoveBack
    BY <2>1, <2>10 DEF Displace, Recreate, MoveBack, Printed
  <2>11. CASE UNCHANGED vars
    BY <2>1, <2>11 DEF vars, Printed
  <2> QED
    BY <2>3, <2>4, <2>5, <2>6, <2>7, <2>8, <2>9, <2>10, <2>11
    DEF Next, Consumer, Destructor
<1> QED
  BY <1>1, <1>2, ProtocolInvariant, PTL DEF Spec

-----------------------------------------------------------------------------
(* The files: an inode that is open, named or moved was created, a file    *)
(* that is open but not at the path was taken from there, and so was the   *)
(* file of a flusher that has decided to reopen, whatever has been put at  *)
(* the path since, that file included.                                     *)
FileInv ==
  /\ atPath <= created
  /\ \A i \in moved : i <= created
  /\ stream = "log" => inode \in 1 .. created
  /\ (stream = "log" /\ inode # atPath) => inode \in moved
  /\ \A f \in Flushers : (fpc[f] = "reopen" /\ stream = "log") => inode \in moved

LEMMA FileInvariant == Spec => []FileInv
<1> USE ConstantsAssumption DEF ConstantsAssumption
<1>1. ASSUME Init PROVE FileInv
  BY <1>1 DEF Init, FileInv
<1>2. ASSUME ProtocolInv, FileInv, [Next]_vars
      PROVE FileInv'
  <2> USE <1>2 DEF ProtocolInv, TypeOK, LockInv, FileInv, CriticalLocations, Live,
                   streamVars, fileVars
  <2>1. ASSUME NEW path \in {"missing", "stdout", "stderr", "file"}, Initialise(path)
        PROVE FileInv'
    BY <2>1 DEF Initialise, OpenLog, StreamInv
  <2>2. CASE Call \/ Consumer
    BY <2>2 DEF Call, Consumer, ConsumerLock, PrintLine, TestIdle, SetBusy, Spawn
  <2>3. ASSUME NEW f \in Flushers, Flusher(f)
        PROVE FileInv'
    <3>1. CASE Reopen(f)
      BY <3>1 DEF Reopen, Goto, FlushBuffer, OpenLog
    <3>2. CASE SetIdle(f)
      BY <3>2 DEF SetIdle, Goto
    <3>3. CASE Check(f)
      <4>1. (stream = "log" /\ atPath = 0) => inode \in moved
        OBVIOUS
      <4> QED
        BY <3>3, <4>1 DEF Check, Goto
    <3>4. CASE FlusherLock(f) \/ Flush(f) \/ FlusherUnlock(f) \/ Dangle(f)
      BY <3>4 DEF FlusherLock, Flush, FlushBuffer, FlusherUnlock, Dangle, Goto
    <3> QED
      BY <2>3, <3>1, <3>2, <3>3, <3>4 DEF Flusher
  <2>4. CASE Destroy \/ Destructor
    BY <2>4 DEF Destroy, Destructor, DestructorLock, DestructorClose, DestructorUnlock,
                DestructorFree, FlushBuffer
  <2>5. CASE Displace
    BY <2>5 DEF Displace
  <2>6. CASE Recreate
    BY <2>6 DEF Recreate
  <2>7. CASE MoveBack
    BY <2>7 DEF MoveBack
  <2>8. CASE UNCHANGED vars
    BY <2>8 DEF vars
  <2> QED
    BY <2>1, <2>2, <2>3, <2>4, <2>5, <2>6, <2>7, <2>8 DEF Next
<1> QED
  BY <1>1, <1>2, ProtocolInvariant, PTL DEF Spec

(* The logger leaves its file only when it was taken from the path, and,   *)
(* when it has been put back by then, only if it cannot be opened again,   *)
(* whatever other programs do to the directory while a flusher is at work. *)
THEOREM FileKept == Spec => LeavesOnlyDisplacedFile
<1> DEFINE Left == \/ life = "dtorClose"
                   \/ inode \in moved /\ (inode = atPath => stream' = "null")
<1>1. ASSUME ProtocolInv, FileInv, [Next]_vars
      PROVE  [ (stream = "log" /\ <<stream, inode>>' # <<stream, inode>>) => Left ]_vars
  <2> USE <1>1 DEF ProtocolInv, TypeOK, FileInv, streamVars, fileVars
  <2> SUFFICES ASSUME stream = "log", <<stream, inode>>' # <<stream, inode>>
               PROVE  Left
    OBVIOUS
  <2>1. ASSUME NEW path \in {"missing", "stdout", "stderr", "file"}, Initialise(path)
        PROVE FALSE
    BY <2>1 DEF Initialise, StreamInv
  <2>2. CASE Call \/ Consumer
    BY <2>2 DEF Call, Consumer, ConsumerLock, PrintLine, TestIdle, SetBusy, Spawn
  <2>3. ASSUME NEW f \in Flushers, Flusher(f)
        PROVE Left
    <3>1. CASE Reopen(f)
      <4>1. inode \in moved /\ OpenLog
        BY <3>1 DEF Reopen, Goto
      <4>2. inode = atPath => stream' = "null"
        BY <4>1 DEF OpenLog
      <4> QED
        BY <4>1, <4>2
    <3>2. CASE FlusherLock(f) \/ Flush(f) \/ Check(f) \/ SetIdle(f) \/ FlusherUnlock(f)
               \/ Dangle(f)
      BY <3>2 DEF FlusherLock, Flush, FlushBuffer, Check, SetIdle, FlusherUnlock, Dangle, Goto
    <3> QED
      BY <2>3, <3>1, <3>2 DEF Flusher
  <2>4. CASE Destroy \/ Destructor
    BY <2>4 DEF Destroy, Destructor, DestructorLock, DestructorClose, DestructorUnlock,
                DestructorFree
  <2>5. CASE Displace \/ Recreate \/ MoveBack
    BY <2>5 DEF Displace, Recreate, MoveBack
  <2>6. CASE UNCHANGED vars
    BY <2>6 DEF vars
  <2> QED
    BY <2>1, <2>2, <2>3, <2>4, <2>5, <2>6 DEF Next
<1> QED
  BY <1>1, ProtocolInvariant, FileInvariant, PTL DEF Spec, LeavesOnlyDisplacedFile

-----------------------------------------------------------------------------
(* A flusher has still to flush, or the system has no thread left.         *)
FlushAhead ==
  \/ \E f \in Flushers : fpc[f] \in {"sleep", "flush"}
  \/ \A f \in Flushers : fpc[f] # "none"

(* What is in the buffer has a flush ahead or a consumer on its way to ask *)
(* for one, and idle is not false for nothing.                             *)
CoverInv ==
  life = "ready" =>
    /\ (buf # <<>> /\ cpc \notin {"test", "busy", "spawn"}) => FlushAhead
    /\ (~idle /\ cpc # "spawn") =>
         \/ \E f \in Flushers : Pending(f)
         \/ \A f \in Flushers : fpc[f] # "none"

LEMMA CoverInvariant == Spec => []CoverInv
<1> USE ConstantsAssumption DEF ConstantsAssumption
<1>1. ASSUME Init PROVE CoverInv
  BY <1>1 DEF Init, CoverInv
<1>2. ASSUME ProtocolInv, CoverInv, [Next]_vars
      PROVE CoverInv'
  <2> USE <1>2 DEF ProtocolInv, TypeOK, LockInv, CallInv, FlusherInv, CoverInv,
                   FlushAhead, Pending, CriticalLocations, Live,
                   streamVars, fileVars
  <2>1. ASSUME NEW path \in {"missing", "stdout", "stderr", "file"}, Initialise(path)
        PROVE CoverInv'
    BY <2>1 DEF Initialise, StreamInv
  <2>2. CASE Call
    BY <2>2 DEF Call
  <2>3. CASE ConsumerLock
    BY <2>3 DEF ConsumerLock
  <2>4. CASE PrintLine
    BY <2>4 DEF PrintLine
  <2>5. CASE TestIdle
    BY <2>5 DEF TestIdle
  <2>6. CASE SetBusy
    BY <2>6 DEF SetBusy
  <2>7. CASE Spawn
    BY <2>7 DEF Spawn
  <2>8. ASSUME NEW f \in Flushers, Flusher(f)
        PROVE CoverInv'
    <3> USE DEF Goto
    <3>1. CASE FlusherLock(f)
      BY <3>1 DEF FlusherLock
    <3>2. CASE Flush(f)
      BY <3>2 DEF Flush, FlushBuffer
    <3>3. CASE Check(f)
      BY <3>3 DEF Check
    <3>4. CASE Reopen(f)
      BY <3>4 DEF Reopen, FlushBuffer, OpenLog
    <3>5. CASE SetIdle(f)
      BY <3>5 DEF SetIdle
    <3>6. CASE FlusherUnlock(f)
      BY <3>6 DEF FlusherUnlock
    <3>7. CASE Dangle(f)
      BY <3>7 DEF Dangle, StreamInv
    <3> QED
      BY <2>8, <3>1, <3>2, <3>3, <3>4, <3>5, <3>6, <3>7 DEF Flusher
  <2>9. CASE Destroy \/ Destructor
    BY <2>9 DEF Destroy, Destructor, DestructorLock, DestructorClose, DestructorUnlock,
                DestructorFree
  <2>10. CASE Displace \/ Recreate \/ MoveBack
    BY <2>10 DEF Displace, Recreate, MoveBack
  <2>11. CASE UNCHANGED vars
    BY <2>11 DEF vars
  <2> QED
    BY <2>1, <2>2, <2>3, <2>4, <2>5, <2>6, <2>7, <2>8, <2>9, <2>10, <2>11
    DEF Next, Consumer
<1> QED
  BY <1>1, <1>2, ProtocolInvariant, PTL DEF Spec

(* No line is left in the buffer without a flush to come, the safety part  *)
(* of "every line is stored in the end".                                   *)
THEOREM FlushComes == Spec => []BufferedLineHasFlusher
<1>1. CoverInv => BufferedLineHasFlusher
  BY DEF CoverInv, FlushAhead, BufferedLineHasFlusher
<1> QED
  BY <1>1, CoverInvariant, PTL

-----------------------------------------------------------------------------
(* The logger implements the safety part of LogSink: what its threads do   *)
(* to the buffer and to the stream is, seen from outside, accepting lines  *)
(* and delivering initial segments of what was accepted.                   *)


(* The first Len(s) elements of s \o t are s. *)
LEMMA FirstPart ==
  ASSUME NEW s \in Seq(Nat), NEW t \in Seq(Nat)
  PROVE  /\ s = SubSeq(s \o t, 1, Len(s))
         /\ Len(s \o t) = Len(s) + Len(t)
         /\ Len(s) \in Nat /\ Len(t) \in Nat
<1>1. Len(s \o t) = Len(s) + Len(t) /\ s \o t \in Seq(Nat)
  BY ConcatProperties
<1>2. Len(s) \in Nat /\ Len(t) \in Nat
  BY LenProperties
<1> DEFINE p == SubSeq(s \o t, 1, Len(s))
<1>3. \A i \in 1 .. Len(s) : (s \o t)[i] \in Nat /\ (s \o t)[i] = s[i]
  BY ConcatProperties, ElementOfSeq, <1>2
<1>4. p \in Seq(Nat) /\ Len(p) = Len(s) /\ \A i \in 1 .. Len(s) : p[i] = s[i]
  BY <1>1, <1>2, <1>3
<1> HIDE DEF p
<1>5. s = p
  BY <1>4, SeqEqual
<1> QED
  BY <1>1, <1>2, <1>5 DEF p

(* A step that changes neither the lines nor the end of the logger is a    *)
(* stutter of the sink.                                                    *)
LEMMA SinkStutters ==
  ASSUME UNCHANGED <<buf, stored>>, (life = "freed")' = (life = "freed")
  PROVE  [Sink!SinkNext]_(Sink!sinkVars)
BY DEF Sink!sinkVars

(* Flushing the buffer of a logger that still exists delivers its lines.   *)
LEMMA FlushDelivers ==
  ASSUME TypeOK, FlushBuffer, life # "freed", life' # "freed"
  PROVE  [Sink!SinkNext]_(Sink!sinkVars)
<1>1. buf \in Seq(Nat) /\ stored \in Seq(Nat) /\ stored' = stored \o buf /\ buf' = <<>>
  BY DEF TypeOK, FlushBuffer
<1>2. stored' \o buf' = stored \o buf
  BY <1>1, FlushKeepsLines
<1>3. CASE buf = <<>>
  <2>1. stored' = stored /\ buf' = buf
    BY <1>1, <1>3
  <2> QED
    BY <2>1 DEF Sink!sinkVars
<1>4. CASE buf # <<>>
  <2>1. Len(buf) \in Nat \ {0} /\ Len(stored) \in Nat
    BY <1>1, <1>4, EmptySeq, LenProperties
  <2>2. Len(stored \o buf) \in Len(stored) + 1 .. Len(stored \o buf)
    BY <1>1, <2>1, FirstPart
  <2>3. stored' = SubSeq(stored \o buf, 1, Len(stored \o buf))
    BY <1>1, SubSeqFull, ConcatProperties
  <2> QED
    BY <1>2, <2>2, <2>3 DEF Sink!SinkNext, Sink!Deliver
<1> QED
  BY <1>3, <1>4

(* Printing a line accepts it, and delivers what spills from the buffer.   *)
LEMMA PrintAccepts ==
  ASSUME ProtocolInv, TypeOK', NoLineLost, NoLineLost', PrintLine
  PROVE  [Sink!SinkNext]_(Sink!sinkVars)
<1> USE DEF ProtocolInv, TypeOK, CallInv
<1>1. /\ calls \in Nat \ {0} /\ life = "ready" /\ life' = life
      /\ Printed = calls - 1 /\ Printed' = calls
  BY DEF PrintLine, Printed
<1>2. /\ stored \o buf = [i \in 1 .. calls - 1 |-> i]
      /\ stored' \o buf' = [i \in 1 .. calls |-> i]
  BY <1>1 DEF NoLineLost
<1>3. /\ Len(stored \o buf) = calls - 1
      /\ Append(stored \o buf, calls) = stored' \o buf'
  BY <1>1, <1>2, SMTT(30)
<1>4. stored' = SubSeq(stored' \o buf', 1, Len(stored'))
  BY FirstPart
<1>5. Len(stored') \in Len(stored) .. calls
  <2>1. /\ Len(stored') + Len(buf') = calls
        /\ Len(stored') \in Nat /\ Len(buf') \in Nat
    BY <1>1, <1>2, FirstPart
  <2>2. PICK n \in 0 .. Len(Append(buf, calls)) :
               stored' = stored \o SubSeq(Append(buf, calls), 1, n)
    BY DEF PrintLine
  <2>3. Len(stored) <= Len(stored') /\ Len(stored) \in Nat
    <3>1. Append(buf, calls) \in Seq(Nat)
      BY <1>1
    <3>2. SubSeq(Append(buf, calls), 1, n) \in Seq(Nat)
      BY <3>1, SplitSequence
    <3> QED
      BY <2>2, <3>2, FirstPart
  <2> QED
    BY <1>1, <2>1, <2>3
<1>6. Sink!Accept
  <2>1. Len(stored \o buf) + 1 = calls
    BY <1>1, <1>3
  <2>2. stored' \o buf' = Append(stored \o buf, Len(stored \o buf) + 1)
    BY ONLY <1>3, <2>1, SMTT(30)
  <2>3. \E n \in Len(stored) .. Len(stored \o buf) + 1 :
          stored' = SubSeq(stored' \o buf', 1, n)
    BY ONLY <1>4, <1>5, <2>1, Zenon
  <2>4. life # "freed" /\ life' = life
    BY <1>1
  <2> QED
    BY ONLY <2>2, <2>3, <2>4 DEF Sink!Accept
<1> QED
  BY <1>6 DEF Sink!SinkNext

(* The logger keeps the safety promises of a sink: every line once, in     *)
(* order, and nothing after its end.                                       *)
THEOREM ImplementsSink == Spec => Sink!SinkSafety
<1> USE DEF streamVars, fileVars
<1>1. ASSUME Init PROVE Sink!SinkInit
  BY <1>1 DEF Init, Sink!SinkInit
<1>2. ASSUME ProtocolInv, TypeOK', NoLineLost, NoLineLost', [Next]_vars
      PROVE  [Sink!SinkNext]_(Sink!sinkVars)
  <2> USE <1>2 DEF ProtocolInv
  <2>1. CASE PrintLine
    BY <2>1, PrintAccepts
  <2>2. ASSUME NEW path \in {"missing", "stdout", "stderr", "file"}, Initialise(path)
        PROVE [Sink!SinkNext]_(Sink!sinkVars)
    BY <2>2, SinkStutters DEF Initialise
  <2>3. CASE Call \/ ConsumerLock \/ TestIdle \/ SetBusy \/ Spawn
         \/ Displace \/ Recreate \/ MoveBack
    BY <2>3, SinkStutters DEF Call, ConsumerLock, TestIdle, SetBusy, Spawn,
                              Displace, Recreate, MoveBack
  <2>4. ASSUME NEW f \in Flushers, Flusher(f)
        PROVE [Sink!SinkNext]_(Sink!sinkVars)
    <3>1. CASE Flush(f) \/ Reopen(f)
      BY <3>1, FlushDelivers DEF Flush, Reopen, Goto
    <3>2. CASE FlusherLock(f) \/ Check(f) \/ SetIdle(f) \/ FlusherUnlock(f) \/ Dangle(f)
      BY <3>2, SinkStutters DEF FlusherLock, Check, SetIdle, FlusherUnlock, Dangle
    <3> QED
      BY <2>4, <3>1, <3>2 DEF Flusher
  <2>5. CASE Destroy \/ DestructorLock \/ DestructorUnlock
    BY <2>5, SinkStutters DEF Destroy, DestructorLock, DestructorUnlock
  <2>6. CASE DestructorClose
    BY <2>6, SinkStutters, FlushDelivers DEF DestructorClose
  <2>7. CASE DestructorFree
    BY <2>7 DEF DestructorFree, Sink!SinkNext, Sink!Close
  <2>8. CASE UNCHANGED vars
    BY <2>8, SinkStutters DEF vars
  <2> QED
    BY <2>1, <2>2, <2>3, <2>4, <2>5, <2>6, <2>7, <2>8 DEF Next, Consumer, Destructor
<1> QED
  BY <1>1, <1>2, ProtocolInvariant, TypeCorrect, LinesKept, PTL DEF Spec, Sink!SinkSafety

----------------------------------------------------------------------------
(* Induction *)

\* A set of numbers has a least one.
LEMMA LeastNumber ==
    ASSUME NEW T, T \subseteq Nat, T # {}
    PROVE  \E least \in T: \A k \in T: least <= k
<1>1. \E R: IsWellFoundedOn(R, Nat) /\ \A y, x \in Nat: y < x => <<y, x>> \in R
    <2>1. \A y, x \in Nat: y < x => <<y, x>> \in OpToRel(<, Nat)
        BY DEF OpToRel
    <2> QED BY <2>1, NatLessThanWellFounded, Zenon
<1>2. PICK R: IsWellFoundedOn(R, Nat) /\ \A y, x \in Nat: y < x => <<y, x>> \in R
    BY <1>1, Zenon
<1>3. PICK x \in T: \A y \in T: ~(<<y, x>> \in R)
    <2>1. IsWellFoundedOn(R, Nat) /\ T \subseteq Nat /\ T # {}
        BY <1>2
    <2> QED BY ONLY <2>1, WFMin, Zenon
<1>4. ASSUME NEW k \in T PROVE x <= k
    <2>1. x \in Nat /\ k \in Nat
        OBVIOUS
    <2>2. ~(<<k, x>> \in R)
        BY <1>3, Zenon
    <2>3. ~(k < x)
        BY <1>2, <2>1, <2>2, Zenon
    <2> QED BY <2>1, <2>3
<1> QED BY <1>4

\* A set that 0 is in, and with every number the next one, has all of them.
LEMMA EveryNumber ==
    ASSUME NEW T, 0 \in T, \A n \in Nat: n \in T => n + 1 \in T
    PROVE  \A n \in Nat: n \in T
<1> DEFINE out == {n \in Nat: n \notin T}
<1> SUFFICES ASSUME out # {} PROVE FALSE
    OBVIOUS
<1>1. out \subseteq Nat
    OBVIOUS
<1> HIDE DEF out
<1>2. PICK least \in out: \A k \in out: least <= k
    BY <1>1, LeastNumber
<1>3. least \in Nat /\ least \notin T
    BY DEF out
<1>4. least # 0
    BY <1>3
<1>5. least - 1 \in Nat /\ (least - 1) + 1 = least /\ ~(least <= least - 1)
    BY <1>3, <1>4
<1>6. least - 1 \notin out
    BY <1>2, <1>5
<1>7. least - 1 \in T
    BY <1>5, <1>6 DEF out
<1> QED BY <1>3, <1>5, <1>7

----------------------------------------------------------------------------
(* FlattenSeq of a list with another sequence at its end *)

\* The sequences that the first lists make, one behind the other.
IsFlat(ss, n, f) == f = [k \in 1..n |-> IF k = 1 THEN ss[k] ELSE f[k - 1] \o ss[k]]

\* There is such a function: each value is made of the one before.
LEMMA FlatExists ==
    ASSUME NEW ss
    PROVE  \A n \in Nat: \E f: IsFlat(ss, n, f)
<1> DEFINE T == {n \in Nat: \E f: IsFlat(ss, n, f)}
<1>1. 0 \in T
    <2> DEFINE f == [k \in 1..0 |-> ss[k]]
    <2>1. f = [k \in 1..0 |-> IF k = 1 THEN ss[k] ELSE f[k - 1] \o ss[k]]
        OBVIOUS
    <2>2. IsFlat(ss, 0, f)
        BY <2>1, Zenon DEF IsFlat
    <2> QED BY <2>2
<1>2. ASSUME NEW n \in Nat, n \in T PROVE n + 1 \in T
    <2>1. PICK f: IsFlat(ss, n, f)
        BY <1>2
    <2>2. f = [k \in 1..n |-> IF k = 1 THEN ss[k] ELSE f[k - 1] \o ss[k]]
        BY <2>1, Zenon DEF IsFlat
    <2> DEFINE g == [k \in 1..n + 1 |-> IF k = n + 1 THEN IF k = 1 THEN ss[k] ELSE f[n] \o ss[k] ELSE f[k]]
               h == [k \in 1..n + 1 |-> IF k = 1 THEN ss[k] ELSE g[k - 1] \o ss[k]]
    <2>3. ASSUME NEW k \in 1..n + 1 PROVE g[k] = h[k]
        <3>1. CASE k = n + 1
            <4>1. CASE k = 1
                BY <3>1, <4>1
            <4>2. CASE k # 1
                <5>1. k - 1 = n /\ n \in 1..n + 1 /\ n # n + 1
                    BY <3>1, <4>2
                <5>2. g[n] = f[n]
                    BY <5>1
                <5> QED BY <3>1, <4>2, <5>1, <5>2
            <4> QED BY <4>1, <4>2
        <3>2. CASE k # n + 1
            <4>1. k \in 1..n /\ g[k] = f[k]
                BY <3>2
            <4>2. CASE k = 1
                BY <2>2, <4>1, <4>2
            <4>3. CASE k # 1
                <5>1. k - 1 \in 1..n + 1 /\ k - 1 # n + 1
                    BY <4>1, <4>3
                <5>2. g[k - 1] = f[k - 1]
                    BY <5>1
                <5> QED BY <2>2, <4>1, <4>3, <5>2
            <4> QED BY <4>2, <4>3
        <3> QED BY <3>1, <3>2
    <2>4. g = h
        BY <2>3
    <2>5. IsFlat(ss, n + 1, g)
        BY <2>4, Zenon DEF IsFlat
    <2> QED BY <2>5
<1> HIDE DEF T
<1>3. \A n \in Nat: n \in T
    BY <1>1, <1>2, EveryNumber
<1> QED BY <1>3 DEF T

\* Functions, or lists, that are the same up to n.
Agree(f, g, n) == \A k \in 1..n: f[k] = g[k]

\* What the first n lists make does not depend on those behind them.
LEMMA FlatAgrees ==
    ASSUME NEW ss, NEW n \in Nat, NEW f, IsFlat(ss, n, f),
           NEW tt, NEW m \in Nat, NEW g, IsFlat(tt, m, g), n <= m, Agree(ss, tt, n)
    PROVE  Agree(f, g, n)
<1>0. \A k \in 1..n: ss[k] = tt[k]
    BY DEF Agree
<1>1. f = [k \in 1..n |-> IF k = 1 THEN ss[k] ELSE f[k - 1] \o ss[k]]
    BY Zenon DEF IsFlat
<1>2. g = [k \in 1..m |-> IF k = 1 THEN tt[k] ELSE g[k - 1] \o tt[k]]
    BY Zenon DEF IsFlat
<1> DEFINE T == {k \in Nat: k \in 1..n => f[k] = g[k]}
<1>3. 0 \in T
    OBVIOUS
<1>4. ASSUME NEW k \in Nat, k \in T PROVE k + 1 \in T
    <2>1. ASSUME k + 1 \in 1..n PROVE f[k + 1] = g[k + 1]
        <3>1. k + 1 \in 1..m /\ ss[k + 1] = tt[k + 1]
            BY <1>0, <2>1
        <3>2. CASE k + 1 = 1
            BY <1>1, <1>2, <2>1, <3>1, <3>2
        <3>3. CASE k + 1 # 1
            <4>1. k \in 1..n /\ (k + 1) - 1 = k
                BY <2>1, <3>3
            <4>2. f[k] = g[k]
                BY <1>4, <4>1
            <4>3. f[k + 1] = f[k] \o ss[k + 1]
                BY <1>1, <2>1, <3>3, <4>1
            <4>4. g[k + 1] = g[k] \o tt[k + 1]
                BY <1>2, <3>1, <3>3, <4>1
            <4> QED BY <3>1, <4>2, <4>3, <4>4
        <3> QED BY <3>2, <3>3
    <2> QED BY <2>1
<1> HIDE DEF T
<1>5. \A k \in Nat: k \in T
    BY <1>3, <1>4, EveryNumber
<1> QED BY <1>5 DEF T, Agree

\* Lists of characters make lists of characters.
LEMMA FlatTyped ==
    ASSUME NEW S, NEW ss, NEW n \in Nat, NEW f, IsFlat(ss, n, f), \A k \in 1..n: ss[k] \in Seq(S)
    PROVE  \A k \in 1..n: f[k] \in Seq(S)
<1>1. f = [k \in 1..n |-> IF k = 1 THEN ss[k] ELSE f[k - 1] \o ss[k]]
    BY Zenon DEF IsFlat
<1> DEFINE T == {k \in Nat: k \in 1..n => f[k] \in Seq(S)}
<1>3. 0 \in T
    OBVIOUS
<1>4. ASSUME NEW k \in Nat, k \in T PROVE k + 1 \in T
    <2>1. ASSUME k + 1 \in 1..n PROVE f[k + 1] \in Seq(S)
        <3>2. CASE k + 1 = 1
            BY <1>1, <2>1, <3>2
        <3>3. CASE k + 1 # 1
            <4>1. k \in 1..n /\ (k + 1) - 1 = k
                BY <2>1, <3>3
            <4>2. f[k] \in Seq(S) /\ ss[k + 1] \in Seq(S)
                BY <1>4, <2>1, <4>1
            <4>3. f[k + 1] = f[k] \o ss[k + 1]
                BY <1>1, <2>1, <3>3, <4>1
            <4> QED BY <4>2, <4>3, ConcatProperties
        <3> QED BY <3>2, <3>3
    <2> QED BY <2>1
<1> HIDE DEF T
<1>5. \A k \in Nat: k \in T
    BY <1>3, <1>4, EveryNumber
<1> QED BY <1>5 DEF T

\* FlattenSeq, which is defined by such a function.
LEMMA FlattenIs ==
    ASSUME NEW S, NEW ss \in Seq(Seq(S))
    PROVE  /\ Len(ss) = 0 => FlattenSeq(ss) = << >>
           /\ Len(ss) # 0 => \E f: IsFlat(ss, Len(ss), f) /\ FlattenSeq(ss) = f[Len(ss)]
           /\ FlattenSeq(ss) \in Seq(S)
<1>1. Len(ss) \in Nat
    BY LenProperties
<1>2. CASE Len(ss) = 0
    <2>1. ss = << >>
        BY <1>2, EmptySeq
    <2>2. FlattenSeq(ss) = ss
        BY <1>2, Zenon DEF FlattenSeq
    <2> QED BY <1>2, <2>1, <2>2, EmptySeq
<1>3. CASE Len(ss) # 0
    <2> DEFINE f == CHOOSE f: IsFlat(ss, Len(ss), f)
    <2>1. FlattenSeq(ss) = f[Len(ss)]
        BY <1>3, Zenon DEF FlattenSeq, IsFlat
    <2>2. \E g: IsFlat(ss, Len(ss), g)
        BY <1>1, FlatExists
    <2>3. IsFlat(ss, Len(ss), f)
        BY <2>2, Zenon
    <2> HIDE DEF f
    <2>4. \A k \in 1..Len(ss): ss[k] \in Seq(S)
        BY ElementOfSeq
    <2>5. Len(ss) \in 1..Len(ss)
        BY <1>1, <1>3
    <2>6. \A k \in 1..Len(ss): f[k] \in Seq(S)
        BY <1>1, <2>3, <2>4, FlatTyped
    <2> QED BY <1>3, <2>1, <2>3, <2>5, <2>6
<1> QED BY <1>2, <1>3

\* Another list goes to the end.
LEMMA FlattenAppend ==
    ASSUME NEW S, NEW ss \in Seq(Seq(S)), NEW x \in Seq(S)
    PROVE  FlattenSeq(Append(ss, x)) = FlattenSeq(ss) \o x
<1> DEFINE tt == Append(ss, x)
<1>1. /\ Len(ss) \in Nat /\ tt \in Seq(Seq(S)) /\ Len(tt) = Len(ss) + 1
      /\ tt[Len(ss) + 1] = x /\ \A k \in 1..Len(ss): tt[k] = ss[k]
    BY LenProperties, AppendProperties
<1> HIDE DEF tt
<1>2. PICK g: IsFlat(tt, Len(tt), g) /\ FlattenSeq(tt) = g[Len(tt)]
    <2>1. Len(tt) # 0
        BY <1>1
    <2> QED BY <1>1, <2>1, FlattenIs
<1>3. g = [k \in 1..Len(tt) |-> IF k = 1 THEN tt[k] ELSE g[k - 1] \o tt[k]]
    BY <1>2, Zenon DEF IsFlat
<1>4. CASE Len(ss) = 0
    <2>1. FlattenSeq(ss) = << >>
        BY <1>4, FlattenIs
    <2>2. g[1] = tt[1] /\ tt[1] = x /\ Len(tt) = 1
        BY <1>1, <1>3, <1>4
    <2>3. << >> \o x = x
        BY ConcatEmptySeq
    <2> QED BY <1>2, <2>1, <2>2, <2>3 DEF tt
<1>5. CASE Len(ss) # 0
    <2>1. PICK f: IsFlat(ss, Len(ss), f) /\ FlattenSeq(ss) = f[Len(ss)]
        BY <1>5, FlattenIs
    <2>2. Len(tt) \in Nat /\ Len(ss) <= Len(tt) /\ Agree(ss, tt, Len(ss))
        <3>1. \A k \in 1..Len(ss): ss[k] = tt[k]
            BY <1>1
        <3>2. Agree(ss, tt, Len(ss))
            BY <3>1, Zenon DEF Agree
        <3> QED BY <1>1, <3>2
    <2>3. Agree(f, g, Len(ss))
        BY ONLY <1>1, <1>2, <2>1, <2>2, FlatAgrees
    <2>4. Len(ss) \in 1..Len(ss) /\ Len(tt) \in 1..Len(tt) /\ Len(tt) # 1 /\ Len(tt) - 1 = Len(ss)
        BY <1>1, <1>5
    <2>5. g[Len(tt)] = g[Len(ss)] \o tt[Len(tt)]
        BY <1>3, <2>4
    <2> QED BY <1>1, <1>2, <2>1, <2>3, <2>4, <2>5 DEF tt, Agree
<1> QED BY <1>4, <1>5

----------------------------------------------------------------------------
(* A message with another character at its end *)

\* The characters of messages and of what they become.
TextChar == Char \cup {"t"}

EndsInEscape(s) == Len(s) # 0 /\ s[Len(s)] = Escape

\* What sanitize makes of c behind s.
Piece(s, c) ==
    IF ~EndsInEscape(s) /\ c \in NonValid THEN <<Escape, ValidChar[c]>> ELSE <<c>>

\* The characters that are escaped, and what they become.
LEMMA CharactersAre ==
    /\ NonValid = {"newline", "tab", "quote"} /\ NonValid \subseteq TextChar
    /\ \A c \in NonValid: ValidChar[c] \in {"n", "t", "quote"} /\ ValidChar[c] \in TextChar
    /\ ValidChar["newline"] = "n" /\ ValidChar["tab"] = "t" /\ ValidChar["quote"] = "quote"
    /\ Escape \in TextChar /\ Escape \notin NonValid
    /\ Char \subseteq TextChar
BY DEF ValidChar, NonValid, Char, TextChar, Escape

\* It is one character or two.
LEMMA PieceIs ==
    ASSUME NEW s, NEW c \in TextChar
    PROVE  Piece(s, c) \in Seq(TextChar) /\ Len(Piece(s, c)) \in {1, 2}
BY CharactersAre DEF Piece

\* t is s with c at its end.
Behind(s, c, t) ==
    /\ t \in Seq(TextChar) /\ Len(t) = Len(s) + 1 /\ t[Len(s) + 1] = c
    /\ DOMAIN s = 1..Len(s) /\ DOMAIN t = 1..Len(s) + 1
    /\ \A k \in 1..Len(s): t[k] = s[k]

\* That is what Append makes.
LEMMA AppendIs ==
    ASSUME NEW s \in Seq(TextChar), NEW c \in TextChar
    PROVE  Len(s) \in Nat /\ Behind(s, c, Append(s, c))
<1>1. /\ Append(s, c) \in Seq(TextChar) /\ Len(Append(s, c)) = Len(s) + 1
      /\ \A k \in 1..Len(s): Append(s, c)[k] = s[k]
      /\ Append(s, c)[Len(s) + 1] = c
    BY AppendProperties
<1>2. /\ Len(s) \in Nat /\ DOMAIN s = 1..Len(s)
    BY LenProperties
<1>3. DOMAIN Append(s, c) = 1..Len(Append(s, c))
    BY <1>1, LenProperties
<1> QED BY <1>1, <1>2, <1>3, Zenon DEF Behind

\* What sanitize makes of each character.
Pieces(s) ==
    [k \in DOMAIN s |->
        CASE AfterEscape(s, k)  -> <<s[k]>>
          [] ~AfterEscape(s, k) -> IF s[k] \in NonValid THEN <<Escape, ValidChar[s[k]]>> ELSE <<s[k]>>]

\* The second pass is these, one behind the other.
LEMMA SanitizeFlattens == \A s: Sanitize(s) = FlattenSeq(Pieces(s))
BY Zenon DEF Sanitize, Pieces

\* There is a piece for each character.
LEMMA PiecesAre ==
    ASSUME NEW s \in Seq(TextChar)
    PROVE  Pieces(s) \in Seq(Seq(TextChar)) /\ Len(Pieces(s)) = Len(s)
<1>1. Len(s) \in Nat /\ DOMAIN s = 1..Len(s) /\ \A k \in 1..Len(s): s[k] \in TextChar
    BY LenProperties, ElementOfSeq
<1>2. \A c \in TextChar: <<c>> \in Seq(TextChar)
    OBVIOUS
<1>3. \A c \in NonValid: <<Escape, ValidChar[c]>> \in Seq(TextChar)
    BY CharactersAre
<1>4. ASSUME NEW k \in 1..Len(s) PROVE Pieces(s)[k] \in Seq(TextChar)
    <2>1. k \in DOMAIN s
        BY <1>1
    <2>2. Pieces(s)[k] = CASE AfterEscape(s, k)  -> <<s[k]>>
            [] ~AfterEscape(s, k) -> IF s[k] \in NonValid THEN <<Escape, ValidChar[s[k]]>> ELSE <<s[k]>>
        BY <2>1, Zenon DEF Pieces
    <2>3. Pieces(s)[k] \in {<<s[k]>>} \/ (s[k] \in NonValid /\ Pieces(s)[k] = <<Escape, ValidChar[s[k]]>>)
        BY <2>2
    <2> QED BY <1>1, <1>2, <1>3, <2>3
<1>5. DOMAIN Pieces(s) = 1..Len(s)
    BY <1>1 DEF Pieces
<1>6. Pieces(s) = [k \in 1..Len(s) |-> Pieces(s)[k]]
    BY <1>1 DEF Pieces
<1>7. Pieces(s) \in [1..Len(s) -> Seq(TextChar)]
    BY <1>4, <1>6
<1> QED BY <1>1, <1>7, SeqDef, LenProperties

\* The text is made of characters.
LEMMA SanitizeTyped ==
    ASSUME NEW s \in Seq(TextChar)
    PROVE  Sanitize(s) \in Seq(TextChar)
BY PiecesAre, SanitizeFlattens, FlattenIs

\* Another character adds its piece to the text.
LEMMA SanitizeAppend ==
    ASSUME NEW s \in Seq(TextChar), NEW c \in TextChar
    PROVE  Sanitize(Append(s, c)) = Sanitize(s) \o Piece(s, c)
<1> DEFINE t == Append(s, c)
<1>1. /\ Len(s) \in Nat /\ t \in Seq(TextChar) /\ Len(t) = Len(s) + 1 /\ t[Len(s) + 1] = c
      /\ DOMAIN s = 1..Len(s) /\ DOMAIN t = 1..Len(s) + 1
      /\ \A k \in 1..Len(s): t[k] = s[k]
    BY AppendIs DEF Behind
<1> HIDE DEF t
<1>2. \A k \in 1..Len(s): AfterEscape(t, k) <=> AfterEscape(s, k)
    <2> SUFFICES ASSUME NEW k \in 1..Len(s) PROVE AfterEscape(t, k) <=> AfterEscape(s, k)
        OBVIOUS
    <2>1. k > 1 => k - 1 \in 1..Len(s)
        BY <1>1
    <2>2. k > 1 => t[k - 1] = s[k - 1]
        BY <1>1, <2>1
    <2> QED BY <2>2 DEF AfterEscape
<1>3. AfterEscape(t, Len(s) + 1) <=> EndsInEscape(s)
    <2>1. (Len(s) + 1) - 1 = Len(s) /\ (Len(s) + 1 > 1 <=> Len(s) # 0)
        BY <1>1
    <2>2. Len(s) # 0 => t[Len(s)] = s[Len(s)]
        BY <1>1
    <2> QED BY <2>1, <2>2 DEF AfterEscape, EndsInEscape
<1>4. /\ Pieces(s) \in Seq(Seq(TextChar)) /\ Len(Pieces(s)) = Len(s)
      /\ Pieces(t) \in Seq(Seq(TextChar)) /\ Len(Pieces(t)) = Len(s) + 1
      /\ Piece(s, c) \in Seq(TextChar)
    BY <1>1, PiecesAre, PieceIs
<1>5. ASSUME NEW k \in 1..Len(s) PROVE Pieces(t)[k] = Pieces(s)[k]
    <2>1. k \in DOMAIN s /\ k \in DOMAIN t
        BY <1>1
    <2>2. t[k] = s[k] /\ (AfterEscape(t, k) <=> AfterEscape(s, k))
        BY <1>1, <1>2
    <2> QED BY <2>1, <2>2 DEF Pieces
<1>6. Pieces(t)[Len(s) + 1] = Piece(s, c)
    <2>1. Len(s) + 1 \in DOMAIN t /\ t[Len(s) + 1] = c
        BY <1>1
    <2> DEFINE n == Len(s) + 1
    <2> HIDE DEF n
    <2>2. n \in DOMAIN t /\ t[n] = c /\ (AfterEscape(t, n) <=> EndsInEscape(s))
        BY <1>3, <2>1 DEF n
    <2>3. Pieces(t)[n] = Piece(s, c)
        BY <2>2 DEF Pieces, Piece
    <2> QED BY <2>3 DEF n
<1>7. Pieces(t) = Append(Pieces(s), Piece(s, c))
    <2> DEFINE u == Append(Pieces(s), Piece(s, c))
    <2>1. /\ u \in Seq(Seq(TextChar)) /\ Len(u) = Len(s) + 1 /\ u[Len(s) + 1] = Piece(s, c)
          /\ \A k \in 1..Len(s): u[k] = Pieces(s)[k]
        BY <1>4, AppendProperties
    <2> HIDE DEF u
    <2>2. ASSUME NEW k \in 1..Len(s) + 1 PROVE Pieces(t)[k] = u[k]
        <3>1. k \in 1..Len(s) \/ k = Len(s) + 1
            BY <1>1
        <3> QED BY <1>5, <1>6, <2>1, <3>1
    <2>3. Pieces(t) = u
        BY <1>4, <2>1, <2>2, SeqEqual
    <2> QED BY <2>3 DEF u
<1> QED BY <1>4, <1>7, SanitizeFlattens, FlattenAppend DEF t

\* The first pass counts a character that becomes two.
LEMMA CountAppend ==
    ASSUME NEW s \in Seq(TextChar), NEW c \in TextChar
    PROVE  /\ CountNonValid(s) \in Nat
           /\ CountNonValid(Append(s, c)) + 1 = CountNonValid(s) + Len(Piece(s, c))
<1> DEFINE t == Append(s, c)
           S == {k \in DOMAIN s: s[k] \in NonValid /\ ~AfterEscape(s, k)}
           T == {k \in DOMAIN t: t[k] \in NonValid /\ ~AfterEscape(t, k)}
<1>1. /\ Len(s) \in Nat /\ t \in Seq(TextChar) /\ Len(t) = Len(s) + 1 /\ t[Len(s) + 1] = c
      /\ DOMAIN s = 1..Len(s) /\ DOMAIN t = 1..Len(s) + 1
      /\ \A k \in 1..Len(s): t[k] = s[k]
    BY AppendIs DEF Behind
<1> HIDE DEF t
<1>2. \A k \in 1..Len(s): AfterEscape(t, k) <=> AfterEscape(s, k)
    <2> SUFFICES ASSUME NEW k \in 1..Len(s) PROVE AfterEscape(t, k) <=> AfterEscape(s, k)
        OBVIOUS
    <2>1. k > 1 => k - 1 \in 1..Len(s)
        BY <1>1
    <2>2. k > 1 => t[k - 1] = s[k - 1]
        BY <1>1, <2>1
    <2> QED BY <2>2 DEF AfterEscape
<1>3. AfterEscape(t, Len(s) + 1) <=> EndsInEscape(s)
    <2>1. (Len(s) + 1) - 1 = Len(s) /\ (Len(s) + 1 > 1 <=> Len(s) # 0)
        BY <1>1
    <2>2. Len(s) # 0 => t[Len(s)] = s[Len(s)]
        BY <1>1
    <2> QED BY <2>1, <2>2 DEF AfterEscape, EndsInEscape
<1>4. IsFiniteSet(S) /\ Cardinality(S) \in Nat
    <2>1. IsFiniteSet(1..Len(s))
        BY <1>1, FS_Interval
    <2>2. S \subseteq 1..Len(s)
        BY <1>1
    <2> QED BY <2>1, <2>2, FS_Subset, FS_CardinalityType
<1>5. CountNonValid(s) = Cardinality(S) /\ CountNonValid(t) = Cardinality(T)
    BY Zenon DEF CountNonValid
<1>6. Len(s) + 1 \notin S
    BY <1>1
<1>7. T = IF ~EndsInEscape(s) /\ c \in NonValid THEN S \cup {Len(s) + 1} ELSE S
    <2>1. \A k: k \in 1..Len(s) + 1 <=> k \in 1..Len(s) \/ k = Len(s) + 1
        BY <1>1
    <2>2. Len(s) + 1 \in T <=> ~EndsInEscape(s) /\ c \in NonValid
        BY <1>1, <1>3, <2>1
    <2>3. \A k \in 1..Len(s): k \in T <=> k \in S
        BY <1>1, <1>2, <2>1
    <2>4. \A k: k \in S => k \in 1..Len(s)
        BY <1>1
    <2>5. \A k: k \in T => k \in 1..Len(s) \/ k = Len(s) + 1
        BY <1>1, <2>1
    <2> HIDE DEF S, T
    <2> DEFINE n == Len(s) + 1
    <2>6. \A k: k \in T <=> k \in S \/ (k = n /\ ~EndsInEscape(s) /\ c \in NonValid)
        BY <1>6, <2>2, <2>3, <2>4, <2>5
    <2> HIDE DEF n
    <2>7. T = IF ~EndsInEscape(s) /\ c \in NonValid THEN S \cup {n} ELSE S
        BY <2>6
    <2> QED BY <2>7 DEF n
<1> HIDE DEF S, T
<1>8. CASE ~EndsInEscape(s) /\ c \in NonValid
    <2>1. Cardinality(T) = Cardinality(S) + 1
        BY <1>4, <1>6, <1>7, <1>8, FS_AddElement
    <2>2. Len(Piece(s, c)) = 2
        BY <1>8 DEF Piece
    <2> QED BY <1>4, <1>5, <2>1, <2>2 DEF t
<1>9. CASE ~(~EndsInEscape(s) /\ c \in NonValid)
    <2>1. Cardinality(T) = Cardinality(S)
        BY <1>7, <1>9
    <2>2. Len(Piece(s, c)) = 1
        BY <1>9 DEF Piece
    <2> QED BY <1>4, <1>5, <2>1, <2>2 DEF t
<1> QED BY <1>8, <1>9

----------------------------------------------------------------------------
(* What a JSON reader takes an escape for *)

\* Whether character k is taken, by whether the one before was.
TakenBehind(s, k, was) == s[k - 1] = Escape /\ ~was

\* What Taken is, for the first n characters.
IsTaken(s, n, f) == f = [k \in 0..n |-> IF k <= 1 THEN FALSE ELSE TakenBehind(s, k, f[k - 1])]

\* There is such a function.
LEMMA TakenExists ==
    ASSUME NEW s
    PROVE  \A n \in Nat: \E f: IsTaken(s, n, f)
<1> DEFINE T == {n \in Nat: \E f: IsTaken(s, n, f)}
<1>1. 0 \in T
    <2> DEFINE f == [k \in 0..0 |-> FALSE]
               h == [k \in 0..0 |-> IF k <= 1 THEN FALSE ELSE TakenBehind(s, k, f[k - 1])]
    <2>1. \A k \in 0..0: k <= 1
        OBVIOUS
    <2>2. f = h
        BY <2>1, Zenon
    <2>3. IsTaken(s, 0, f)
        BY <2>2, Zenon DEF IsTaken
    <2> QED BY <2>3
<1>2. ASSUME NEW n \in Nat, n \in T PROVE n + 1 \in T
    <2>1. PICK f: IsTaken(s, n, f)
        BY <1>2
    <2>2. f = [k \in 0..n |-> IF k <= 1 THEN FALSE ELSE TakenBehind(s, k, f[k - 1])]
        BY <2>1, Zenon DEF IsTaken
    <2> DEFINE last == IF n + 1 <= 1 THEN FALSE ELSE TakenBehind(s, n + 1, f[n])
               g == [k \in 0..n + 1 |-> IF k = n + 1 THEN last ELSE f[k]]
               h == [k \in 0..n + 1 |-> IF k <= 1 THEN FALSE ELSE TakenBehind(s, k, g[k - 1])]
    <2>3. ASSUME NEW k \in 0..n + 1 PROVE g[k] = h[k]
        <3>1. CASE k = n + 1
            <4>1. k - 1 = n /\ n \in 0..n + 1 /\ n # n + 1
                BY <3>1
            <4>2. g[n] = f[n]
                BY <4>1, Zenon
            <4>3. g[k] = last
                BY <3>1, Zenon
            <4>4. h[k] = IF n + 1 <= 1 THEN FALSE ELSE TakenBehind(s, n + 1, g[n])
                BY <3>1, <4>1, Zenon
            <4> QED BY <4>2, <4>3, <4>4, Zenon
        <3>2. CASE k # n + 1
            <4>1. k \in 0..n
                BY <3>2
            <4>2. g[k] = f[k]
                BY <3>2, Zenon
            <4>3. f[k] = IF k <= 1 THEN FALSE ELSE TakenBehind(s, k, f[k - 1])
                BY <2>2, <4>1, Zenon
            <4>4. h[k] = IF k <= 1 THEN FALSE ELSE TakenBehind(s, k, g[k - 1])
                BY Zenon
            <4>5. CASE k <= 1
                BY <4>2, <4>3, <4>4, <4>5, Zenon
            <4>6. CASE ~(k <= 1)
                <5>1. k - 1 \in 0..n + 1 /\ k - 1 # n + 1
                    BY <4>1, <4>6
                <5>2. g[k - 1] = f[k - 1]
                    BY <5>1, Zenon
                <5> QED BY <4>2, <4>3, <4>4, <5>2, Zenon
            <4> QED BY <4>5, <4>6
        <3> QED BY <3>1, <3>2
    <2>4. g = h
        BY <2>3, Zenon
    <2>5. IsTaken(s, n + 1, g)
        BY <2>4, Zenon DEF IsTaken
    <2> QED BY <2>5
<1> HIDE DEF T
<1>3. \A n \in Nat: n \in T
    BY <1>1, <1>2, EveryNumber
<1> QED BY <1>3 DEF T

\* Taken is one.
LEMMA TakenIs ==
    ASSUME NEW s, Len(s) \in Nat
    PROVE  IsTaken(s, Len(s), Taken(s))
<1>1. Taken(s) = CHOOSE f: IsTaken(s, Len(s), f)
    BY Zenon DEF IsTaken, Taken, TakenBehind
<1>2. \E f: IsTaken(s, Len(s), f)
    BY TakenExists
<1> QED BY <1>1, <1>2, Zenon

\* The last character is an escape that takes the next one.
Open(s) == EndsInEscape(s) /\ ~Taken(s)[Len(s)]

\* What is taken does not depend on the characters behind it.
LEMMA TakenAppend ==
    ASSUME NEW s \in Seq(TextChar), NEW c \in TextChar
    PROVE  /\ \A k \in 1..Len(s): Taken(Append(s, c))[k] = Taken(s)[k]
           /\ Taken(Append(s, c))[Len(s) + 1] = Open(s)
<1> DEFINE t == Append(s, c)
           f == Taken(s)
           g == Taken(t)
<1>1. /\ Len(s) \in Nat /\ t \in Seq(TextChar) /\ Len(t) = Len(s) + 1 /\ t[Len(s) + 1] = c
      /\ \A k \in 1..Len(s): t[k] = s[k]
    BY AppendIs DEF Behind
<1>2. IsTaken(s, Len(s), f) /\ IsTaken(t, Len(t), g)
    <2>1. Len(s) \in Nat /\ Len(t) \in Nat
        BY <1>1
    <2> QED BY <2>1, TakenIs, Zenon
<1> HIDE DEF t, f, g
<1>3. f = [k \in 0..Len(s) |-> IF k <= 1 THEN FALSE ELSE TakenBehind(s, k, f[k - 1])]
    BY <1>2, Zenon DEF IsTaken
<1>4. g = [k \in 0..Len(t) |-> IF k <= 1 THEN FALSE ELSE TakenBehind(t, k, g[k - 1])]
    BY <1>2, Zenon DEF IsTaken
<1> DEFINE T == {k \in Nat: k \in 0..Len(s) => g[k] = f[k]}
<1>5. 0 \in T
    <2>1. 0 \in 0..Len(s) /\ 0 \in 0..Len(t) /\ 0 <= 1
        BY <1>1
    <2>2. f[0] = FALSE
        BY <1>3, <2>1, Zenon
    <2>3. g[0] = FALSE
        BY <1>4, <2>1, Zenon
    <2>4. g[0] = f[0]
        BY <2>2, <2>3, Zenon
    <2> QED BY <2>4
<1>6. ASSUME NEW k \in Nat, k \in T PROVE k + 1 \in T
    <2>1. ASSUME k + 1 \in 0..Len(s) PROVE g[k + 1] = f[k + 1]
        <3>1. k \in 0..Len(s) /\ (k + 1) - 1 = k /\ k + 1 \in 0..Len(t)
            BY <1>1, <2>1
        <3>2. g[k] = f[k]
            BY <1>6, <3>1
        <3>3. f[k + 1] = IF k + 1 <= 1 THEN FALSE ELSE TakenBehind(s, k + 1, f[k])
            BY <1>3, <2>1, <3>1, Zenon
        <3>4. g[k + 1] = IF k + 1 <= 1 THEN FALSE ELSE TakenBehind(t, k + 1, g[k])
            BY <1>4, <3>1, Zenon
        <3>5. CASE k + 1 <= 1
            BY <3>3, <3>4, <3>5, Zenon
        <3>6. CASE ~(k + 1 <= 1)
            <4>1. k \in 1..Len(s)
                BY <3>1, <3>6
            <4>2. t[k] = s[k]
                BY <1>1, <4>1
            <4>3. TakenBehind(t, k + 1, g[k]) = TakenBehind(s, k + 1, f[k])
                BY <3>1, <3>2, <4>2, Zenon DEF TakenBehind
            <4> QED BY <3>3, <3>4, <3>6, <4>3, Zenon
        <3> QED BY <3>5, <3>6
    <2> QED BY <2>1
<1> HIDE DEF T
<1>7. \A k \in Nat: k \in T
    BY <1>5, <1>6, EveryNumber
<1>8. \A k \in 1..Len(s): g[k] = f[k]
    <2>1. \A k \in 1..Len(s): k \in Nat /\ k \in 0..Len(s)
        BY <1>1
    <2> QED BY <1>7, <2>1, Zenon DEF T
<1>9. g[Len(s) + 1] = Open(s)
    <2> DEFINE n == Len(s) + 1
    <2>1. n \in 0..Len(t) /\ n - 1 = Len(s) /\ (n <= 1 <=> Len(s) = 0)
        BY <1>1
    <2> HIDE DEF n
    <2>2. g[n] = IF n <= 1 THEN FALSE ELSE TakenBehind(t, n, g[Len(s)])
        BY <1>4, <2>1, Zenon
    <2>3. CASE Len(s) = 0
        BY <2>1, <2>2, <2>3, Zenon DEF Open, EndsInEscape, n
    <2>4. CASE Len(s) # 0
        <3>1. Len(s) \in 1..Len(s)
            BY <1>1, <2>4
        <3>2. t[Len(s)] = s[Len(s)] /\ g[Len(s)] = f[Len(s)]
            BY <1>1, <1>8, <3>1, Zenon
        <3>3. TakenBehind(t, n, g[Len(s)]) = Open(s)
            BY <2>1, <2>4, <3>2, Zenon DEF TakenBehind, Open, EndsInEscape, f
        <3> QED BY <2>1, <2>2, <2>4, <3>3, Zenon DEF n
    <2> QED BY <2>3, <2>4
<1> QED BY <1>8, <1>9, Zenon DEF t, f, g

\* The characters that a JSON string may have: what IsJSONString says of each, but for
\* those that sanitize leaves alone.
Body(s) ==
    \A k \in DOMAIN s:
        /\ s[k] \notin {"newline", "tab"}
        /\ s[k] = "quote" => Taken(s)[k]
        /\ Taken(s)[k] => s[k] \in {Escape, "n", "t", "quote"}

\* A JSON string has such characters, no control character, and no escape that takes
\* what is not there.
LEMMA StringIs ==
    ASSUME NEW s \in Seq(TextChar)
    PROVE  IsJSONString(s) <=> Body(s) /\ ~Open(s) /\ ~Has(s, "control")
<1>1. s # << >> <=> Len(s) # 0
    BY EmptySeq
<1>2. IsJSONString(s) <=> /\ Body(s) /\ ~Has(s, "control")
                          /\ s # << >> => ~(s[Len(s)] = Escape /\ ~Taken(s)[Len(s)])
    <2>1. (\A k \in DOMAIN s: /\ s[k] \notin {"newline", "tab", "control"}
                              /\ s[k] = "quote" => Taken(s)[k]
                              /\ Taken(s)[k] => s[k] \in {Escape, "n", "t", "quote"})
          <=> Body(s) /\ ~Has(s, "control")
        BY DEF Body, Has
    <2> QED BY <2>1, Zenon DEF IsJSONString
<1> QED BY <1>1, <1>2, Zenon DEF Open, EndsInEscape

\* A character that may follow.
Fits(s, c) ==
    /\ c \notin {"newline", "tab"}
    /\ c = "quote" => Open(s)
    /\ Open(s) => c \in {Escape, "n", "t", "quote"}

\* It stays one when a character follows that may.
LEMMA BodyAppend ==
    ASSUME NEW s \in Seq(TextChar), Body(s), NEW c \in TextChar, Fits(s, c)
    PROVE  /\ Body(Append(s, c))
           /\ Open(Append(s, c)) <=> c = Escape /\ ~Open(s)
<1> DEFINE t == Append(s, c)
<1>1. /\ Len(s) \in Nat /\ Len(t) = Len(s) + 1 /\ t[Len(s) + 1] = c
      /\ DOMAIN s = 1..Len(s) /\ DOMAIN t = 1..Len(s) + 1
      /\ \A k \in 1..Len(s): t[k] = s[k]
    BY AppendIs DEF Behind
<1>2. /\ \A k \in 1..Len(s): Taken(t)[k] = Taken(s)[k]
      /\ Taken(t)[Len(s) + 1] = Open(s)
    BY TakenAppend, Zenon
<1> HIDE DEF t
<1>3. ASSUME NEW k \in DOMAIN t
      PROVE  /\ t[k] \notin {"newline", "tab"}
             /\ t[k] = "quote" => Taken(t)[k]
             /\ Taken(t)[k] => t[k] \in {Escape, "n", "t", "quote"}
    <2>1. k \in 1..Len(s) \/ k = Len(s) + 1
        BY <1>1
    <2>2. CASE k \in 1..Len(s)
        <3>1. t[k] = s[k] /\ Taken(t)[k] = Taken(s)[k] /\ k \in DOMAIN s
            BY <1>1, <1>2, <2>2, Zenon
        <3> QED BY <3>1, Zenon DEF Body
    <2>3. CASE k = Len(s) + 1
        <3>1. t[k] = c /\ Taken(t)[k] = Open(s)
            BY <1>1, <1>2, <2>3, Zenon
        <3> QED BY <3>1, Zenon DEF Fits
    <2> QED BY <2>1, <2>2, <2>3
<1>4. Body(t)
    BY <1>3, Zenon DEF Body
<1>5. Open(t) <=> c = Escape /\ ~Open(s)
    <2>1. Len(t) # 0 /\ t[Len(t)] = c
        BY <1>1
    <2>2. Taken(t)[Len(t)] = Open(s)
        BY <1>1, <1>2, Zenon
    <2> QED BY <2>1, <2>2, Zenon DEF Open, EndsInEscape
<1> QED BY <1>4, <1>5, Zenon DEF t

----------------------------------------------------------------------------
(* What a JSON reader makes of a string *)

\* What a reader makes of a character.
ReadAs(taken, c) ==
    IF taken \/ c # Escape
    THEN <<CASE ~taken           -> c
             [] taken /\ c = "n" -> "newline"
             [] taken /\ c = "t" -> "tab"
             [] OTHER            -> c>>
    ELSE << >>

\* And of each one of a string.
Readings(s) == [k \in DOMAIN s |-> ReadAs(Taken(s)[k], s[k])]

\* Decode is these, one behind the other.
LEMMA DecodeFlattens == \A s: Decode(s) = FlattenSeq(Readings(s))
BY Zenon DEF Decode, Readings, ReadAs

\* A reader makes characters.
LEMMA ReadAsIs ==
    ASSUME NEW taken \in BOOLEAN, NEW c \in TextChar
    PROVE  ReadAs(taken, c) \in Seq(TextChar)
<1>1. c \in TextChar /\ "newline" \in TextChar /\ "tab" \in TextChar
    BY DEF TextChar, Char, NonValid, ValidChar
<1> QED BY <1>1 DEF ReadAs

\* A character is taken or it is not.
LEMMA TakenTyped ==
    ASSUME NEW s \in Seq(TextChar)
    PROVE  \A k \in 1..Len(s): Taken(s)[k] \in BOOLEAN
<1>1. Len(s) \in Nat
    BY LenProperties
<1> DEFINE f == Taken(s)
<1>2. IsTaken(s, Len(s), f)
    BY <1>1, TakenIs
<1> HIDE DEF f
<1>3. f = [k \in 0..Len(s) |-> IF k <= 1 THEN FALSE ELSE TakenBehind(s, k, f[k - 1])]
    BY <1>2, Zenon DEF IsTaken
<1>4. ASSUME NEW k \in 1..Len(s) PROVE f[k] \in BOOLEAN
    <2>1. k \in 0..Len(s)
        BY <1>1
    <2>2. f[k] = IF k <= 1 THEN FALSE ELSE TakenBehind(s, k, f[k - 1])
        BY <1>3, <2>1, Zenon
    <2> QED BY <2>2, Zenon DEF TakenBehind
<1> QED BY <1>4 DEF f

\* There is a reading for each character.
LEMMA ReadingsAre ==
    ASSUME NEW s \in Seq(TextChar)
    PROVE  Readings(s) \in Seq(Seq(TextChar)) /\ Len(Readings(s)) = Len(s)
<1>1. Len(s) \in Nat /\ DOMAIN s = 1..Len(s) /\ \A k \in 1..Len(s): s[k] \in TextChar
    BY LenProperties, ElementOfSeq
<1>2. \A k \in 1..Len(s): ReadAs(Taken(s)[k], s[k]) \in Seq(TextChar)
    BY <1>1, ReadAsIs, TakenTyped
<1>3. Readings(s) = [k \in 1..Len(s) |-> ReadAs(Taken(s)[k], s[k])]
    BY <1>1, Zenon DEF Readings
<1>4. Readings(s) \in [1..Len(s) -> Seq(TextChar)]
    BY <1>2, <1>3
<1> QED BY <1>1, <1>4, SeqDef, LenProperties

\* Another character is read by whether an escape stands before it.
LEMMA DecodeAppend ==
    ASSUME NEW s \in Seq(TextChar), NEW c \in TextChar
    PROVE  Decode(Append(s, c)) = Decode(s) \o ReadAs(Open(s), c)
<1> DEFINE t == Append(s, c)
<1>1. /\ Len(s) \in Nat /\ t \in Seq(TextChar) /\ Len(t) = Len(s) + 1 /\ t[Len(s) + 1] = c
      /\ DOMAIN s = 1..Len(s) /\ DOMAIN t = 1..Len(s) + 1
      /\ \A k \in 1..Len(s): t[k] = s[k]
    BY AppendIs DEF Behind
<1>2. /\ \A k \in 1..Len(s): Taken(t)[k] = Taken(s)[k]
      /\ Taken(t)[Len(s) + 1] = Open(s)
    BY TakenAppend, Zenon
<1> HIDE DEF t
<1>3. Open(s) \in BOOLEAN
    BY Zenon DEF Open
<1> DEFINE r == ReadAs(Open(s), c)
<1>4. /\ Readings(s) \in Seq(Seq(TextChar)) /\ Len(Readings(s)) = Len(s)
      /\ Readings(t) \in Seq(Seq(TextChar)) /\ Len(Readings(t)) = Len(s) + 1
      /\ r \in Seq(TextChar)
    BY <1>1, <1>3, ReadingsAre, ReadAsIs
<1>5. ASSUME NEW k \in 1..Len(s) PROVE Readings(t)[k] = Readings(s)[k]
    <2>1. k \in DOMAIN s /\ k \in DOMAIN t
        BY <1>1
    <2>2. t[k] = s[k] /\ Taken(t)[k] = Taken(s)[k]
        BY <1>1, <1>2, Zenon
    <2> QED BY <2>1, <2>2, Zenon DEF Readings
<1>6. Readings(t)[Len(s) + 1] = r
    <2>1. Len(s) + 1 \in DOMAIN t
        BY <1>1
    <2>2. t[Len(s) + 1] = c
        BY <1>1
    <2> QED BY <1>2, <2>1, <2>2, Zenon DEF Readings
<1> HIDE DEF r
<1>7. Readings(t) = Append(Readings(s), r)
    <2> DEFINE u == Append(Readings(s), r)
    <2>1. /\ u \in Seq(Seq(TextChar)) /\ Len(u) = Len(s) + 1 /\ u[Len(s) + 1] = r
          /\ \A k \in 1..Len(s): u[k] = Readings(s)[k]
        BY <1>4, AppendProperties
    <2> HIDE DEF u
    <2>2. ASSUME NEW k \in 1..Len(s) + 1 PROVE Readings(t)[k] = u[k]
        <3>1. k \in 1..Len(s) \/ k = Len(s) + 1
            BY <1>1
        <3> QED BY <1>5, <1>6, <2>1, <3>1
    <2>3. Readings(t) = u
        BY <1>4, <2>1, <2>2, SeqEqual
    <2> QED BY <2>3 DEF u
<1>8. FlattenSeq(Append(Readings(s), r)) = FlattenSeq(Readings(s)) \o r
    BY <1>4, FlattenAppend
<1> QED BY <1>7, <1>8, DecodeFlattens, Zenon DEF t, r

----------------------------------------------------------------------------
(* The message as it is received *)

\* What is written of a message m without escapes can be read, gives m, and has the
\* control characters of m that are not escaped.
Reads(m) ==
    /\ Body(Sanitize(m)) /\ ~Open(Sanitize(m)) /\ Decode(Sanitize(m)) = m
    /\ Has(Sanitize(m), "control") <=> Has(m, "control")

\* The buffer is large enough, what is written is not written differently when it is
\* sanitized again, and ends in an escape when the message does: what follows it is
\* then left alone in both.
Writes(m) ==
    /\ Len(Sanitize(m)) + 1 = BufferSize(m)
    /\ Sanitize(Sanitize(m)) = Sanitize(m)
    /\ EndsInEscape(m) => EndsInEscape(Sanitize(m))

\* The invariant.
MessageInv ==
    /\ msg \in Seq(Char) /\ Writes(msg)
    /\ ~Has(msg, Escape) => Reads(msg)

\* The empty message.
LEMMA NothingReceived == Writes(<< >>) /\ Reads(<< >>)
<1>1. << >> \in Seq(TextChar) /\ Len(<< >>) = 0 /\ DOMAIN << >> = {}
    BY EmptySeq
<1>2. Pieces(<< >>) = << >> /\ Readings(<< >>) = << >>
    <2>1. Len(Pieces(<< >>)) = 0 /\ Len(Readings(<< >>)) = 0
        BY <1>1, PiecesAre, ReadingsAre
    <2> QED BY <1>1, <2>1, PiecesAre, ReadingsAre, EmptySeq
<1>3. FlattenSeq(<< >>) = << >>
    BY <1>1, Zenon DEF FlattenSeq
<1>4. Sanitize(<< >>) = << >> /\ Decode(<< >>) = << >>
    BY <1>2, <1>3, SanitizeFlattens, DecodeFlattens, Zenon
<1>5. ~EndsInEscape(<< >>)
    BY <1>1 DEF EndsInEscape
<1>6. CountNonValid(<< >>) = 0
    <2>1. {k \in DOMAIN << >> : << >>[k] \in NonValid /\ ~AfterEscape(<< >>, k)} = {}
        BY <1>1
    <2> QED BY <2>1, FS_EmptySet DEF CountNonValid
<1>7. Len(<< >>) + 1 = BufferSize(<< >>)
    BY <1>1, <1>6 DEF BufferSize
<1>8. Body(<< >>) /\ ~Open(<< >>)
    BY <1>1, <1>5 DEF Body, Open
<1>9. ~Has(<< >>, "control")
    BY <1>1 DEF Has
<1> QED BY <1>4, <1>5, <1>7, <1>8, <1>9 DEF Writes, Reads

\* One character more.
LEMMA AppendEnds ==
    ASSUME NEW s \in Seq(TextChar), NEW c \in TextChar
    PROVE  /\ Append(s, c) \in Seq(TextChar) /\ Len(Append(s, c)) = Len(s) + 1
           /\ EndsInEscape(Append(s, c)) <=> c = Escape
           /\ s \o <<c>> = Append(s, c)
<1>1. /\ Len(s) \in Nat /\ Append(s, c) \in Seq(TextChar) /\ Len(Append(s, c)) = Len(s) + 1
      /\ Append(s, c)[Len(s) + 1] = c
    BY AppendProperties, LenProperties
<1>2. Len(Append(s, c)) # 0 /\ Append(s, c)[Len(Append(s, c))] = c
    BY <1>1
<1> QED BY <1>1, <1>2, AppendIsConcat, Zenon DEF EndsInEscape

\* What has a character when one is appended.
LEMMA HasAppend ==
    ASSUME NEW s \in Seq(TextChar), NEW c \in TextChar, NEW d
    PROVE  Has(Append(s, c), d) <=> Has(s, d) \/ c = d
<1>1. /\ Len(s) \in Nat /\ DOMAIN s = 1..Len(s)
      /\ \A k \in 1..Len(s): Append(s, c)[k] = s[k]
      /\ Append(s, c)[Len(s) + 1] = c /\ DOMAIN Append(s, c) = 1..Len(s) + 1
    <2>1. Append(s, c) \in Seq(TextChar) /\ Len(Append(s, c)) = Len(s) + 1
        BY AppendEnds
    <2> QED BY <2>1, AppendProperties, LenProperties
<1>2. /\ \A k \in 1..Len(s): k \in 1..Len(s) + 1
      /\ Len(s) + 1 \in 1..Len(s) + 1
      /\ \A k \in 1..Len(s) + 1: k \in 1..Len(s) \/ k = Len(s) + 1
    BY <1>1
<1> QED BY <1>1, <1>2, Zenon DEF Has

\* Two characters more.
LEMMA AppendTwo ==
    ASSUME NEW s \in Seq(TextChar), NEW c \in TextChar, NEW d \in TextChar
    PROVE  s \o <<c, d>> = Append(Append(s, c), d)
<1>1. <<c>> \in Seq(TextChar) /\ <<d>> \in Seq(TextChar) /\ <<c>> \o <<d>> = <<c, d>>
    <2>1. <<c>> \in Seq(TextChar) /\ <<d>> \in Seq(TextChar)
        OBVIOUS
    <2>2. Append(<<c>>, d) = <<c>> \o <<d>>
        BY <2>1, AppendIsConcat
    <2>3. Append(<<c>>, d) = <<c, d>>
        <3> DEFINE u == Append(<<c>>, d)
                   w == <<c, d>>
        <3>1. Len(<<c>>) = 1 /\ <<c>>[1] = c
            OBVIOUS
        <3>2. u \in Seq(TextChar) /\ Len(u) = 2 /\ u[2] = d /\ u[1] = c
            BY <2>1, <3>1, AppendProperties
        <3>3. w \in Seq(TextChar) /\ Len(w) = 2 /\ w[1] = c /\ w[2] = d
            OBVIOUS
        <3> HIDE DEF u, w
        <3>4. \A k \in 1..2: k = 1 \/ k = 2
            OBVIOUS
        <3>5. u = w
            BY <3>2, <3>3, <3>4, SeqEqual
        <3> QED BY <3>5 DEF u, w
    <2> QED BY <2>1, <2>2, <2>3
<1>2. Append(s, c) \in Seq(TextChar) /\ s \o <<c>> = Append(s, c)
    BY AppendEnds
<1>3. Append(s, c) \o <<d>> = Append(Append(s, c), d)
    BY <1>2, AppendEnds
<1>4. (s \o <<c>>) \o <<d>> = s \o (<<c>> \o <<d>>)
    BY <1>1, ConcatAssociative
<1> QED BY <1>1, <1>2, <1>3, <1>4, Zenon

\* The buffer grows by the piece.
LEMMA BufferAppend ==
    ASSUME NEW m \in Seq(TextChar), NEW c \in TextChar, Len(Sanitize(m)) + 1 = BufferSize(m)
    PROVE  BufferSize(Append(m, c)) = Len(Sanitize(m)) + Len(Piece(m, c)) + 1
<1> DEFINE t == Append(m, c)
<1>1. /\ CountNonValid(m) \in Nat
      /\ CountNonValid(t) + 1 = CountNonValid(m) + Len(Piece(m, c))
    BY CountAppend
<1>2. Len(m) \in Nat /\ Len(Sanitize(m)) \in Nat /\ Len(t) = Len(m) + 1
    BY LenProperties, AppendEnds, SanitizeTyped
<1>3. Len(Piece(m, c)) \in Nat
    BY PieceIs
<1> HIDE DEF t
<1>4. /\ BufferSize(t) = Len(t) + CountNonValid(t) + 1
      /\ Len(Sanitize(m)) + 1 = Len(m) + CountNonValid(m) + 1
    BY DEF BufferSize
<1>5. CountNonValid(t) \in Int
    <2>1. /\ CountNonValid(t) = Cardinality({k \in DOMAIN t: t[k] \in NonValid /\ ~AfterEscape(t, k)})
        BY Zenon DEF CountNonValid
    <2>2. CountNonValid(t) \in Nat
        <3>1. t \in Seq(TextChar)
            BY AppendEnds DEF t
        <3> QED BY <3>1, CountAppend
    <2> QED BY <2>2
<1>6. BufferSize(t) = Len(Sanitize(m)) + Len(Piece(m, c)) + 1
    <2> DEFINE counted == CountNonValid(t)
               before == CountNonValid(m)
               written == Len(Sanitize(m))
               piece == Len(Piece(m, c))
    <2>1. counted \in Int /\ before \in Int /\ written \in Int /\ piece \in Int /\ Len(m) \in Int
        BY <1>1, <1>2, <1>3, <1>5
    <2>2. /\ counted + 1 = before + piece /\ Len(t) = Len(m) + 1
          /\ BufferSize(t) = Len(t) + counted + 1 /\ written + 1 = Len(m) + before + 1
        BY <1>1, <1>2, <1>4
    <2> HIDE DEF counted, before, written, piece
    <2>3. BufferSize(t) = written + piece + 1
        BY <2>1, <2>2
    <2> QED BY <2>3 DEF written, piece
<1> QED BY <1>6 DEF t

\* A character that stands for itself.
LEMMA AsItIs ==
    ASSUME NEW m \in Seq(TextChar), Writes(m), NEW c \in TextChar, EndsInEscape(m) \/ c \notin NonValid
    PROVE  Writes(Append(m, c)) /\ Sanitize(Append(m, c)) = Append(Sanitize(m), c)
<1> DEFINE S == Sanitize(m)
<1>1. /\ S \in Seq(TextChar) /\ Len(S) \in Nat
    BY SanitizeTyped, LenProperties
<1>2. Piece(m, c) = <<c>>
    BY Zenon DEF Piece
<1>3. Len(S) + 1 = BufferSize(m) /\ Sanitize(S) = S /\ (EndsInEscape(m) => EndsInEscape(S))
    BY Zenon DEF Writes
<1>4. BufferSize(Append(m, c)) = Len(S) + 1 + 1
    <2>1. BufferSize(Append(m, c)) = Len(S) + Len(<<c>>) + 1
        BY <1>2, <1>3, BufferAppend
    <2> QED BY <2>1
<1>5. Sanitize(Append(m, c)) = Append(S, c)
    <2>1. Sanitize(Append(m, c)) = S \o <<c>>
        BY <1>2, SanitizeAppend
    <2> HIDE DEF S
    <2> QED BY <1>1, <2>1, AppendEnds
<1> HIDE DEF S
<1>6. Sanitize(Append(S, c)) = Append(S, c)
    <2>1. Piece(S, c) = <<c>>
        BY <1>3, Zenon DEF Piece
    <2>2. Sanitize(Append(S, c)) = Sanitize(S) \o Piece(S, c)
        BY <1>1, <1>3, SanitizeAppend
    <2>3. S \o <<c>> = Append(S, c)
        BY <1>1, <1>3, AppendEnds
    <2> QED BY <1>1, <1>3, <2>1, <2>2, <2>3, Zenon
<1>7. Len(Append(S, c)) = Len(S) + 1 /\ (EndsInEscape(Append(S, c)) <=> c = Escape)
    BY <1>1, AppendEnds
<1>8. EndsInEscape(Append(m, c)) <=> c = Escape
    BY AppendEnds
<1>9. Len(Append(S, c)) + 1 = BufferSize(Append(m, c))
    BY <1>4, <1>7
<1> QED BY <1>5, <1>6, <1>7, <1>8, <1>9, Zenon DEF Writes, S

\* A character that is escaped.
LEMMA Escaped ==
    ASSUME NEW m \in Seq(TextChar), Writes(m), NEW c \in NonValid, ~EndsInEscape(m)
    PROVE  /\ Writes(Append(m, c))
           /\ Sanitize(Append(m, c)) = Append(Append(Sanitize(m), Escape), ValidChar[c])
<1> DEFINE S == Sanitize(m)
           v == ValidChar[c]
           S1 == Append(S, Escape)
           S2 == Append(S1, v)
<1>1. /\ S \in Seq(TextChar) /\ Len(S) \in Nat
    BY SanitizeTyped, LenProperties
<1>2. c \in TextChar /\ v \in TextChar /\ Escape \in TextChar /\ Escape \notin NonValid /\ c # Escape
    BY CharactersAre
<1>3. Piece(m, c) = <<Escape, v>>
    BY Zenon DEF Piece
<1>4. Len(S) + 1 = BufferSize(m) /\ Sanitize(S) = S
    BY Zenon DEF Writes
<1>5. BufferSize(Append(m, c)) = Len(S) + 2 + 1
    <2>1. BufferSize(Append(m, c)) = Len(S) + Len(<<Escape, v>>) + 1
        BY <1>2, <1>3, <1>4, BufferAppend
    <2> QED BY <2>1
<1> HIDE DEF v
<1>6. Sanitize(Append(m, c)) = S2
    <2>1. Sanitize(Append(m, c)) = S \o <<Escape, v>>
        BY <1>2, <1>3, SanitizeAppend
    <2> HIDE DEF S
    <2> QED BY <1>1, <1>2, <2>1, AppendTwo
<1> HIDE DEF S
<1>7. /\ S1 \in Seq(TextChar) /\ Len(S1) = Len(S) + 1 /\ EndsInEscape(S1)
    BY <1>1, <1>2, AppendEnds
<1>8. Sanitize(S1) = S1
    <2>1. Piece(S, Escape) = <<Escape>>
        BY <1>2, Zenon DEF Piece
    <2>2. Sanitize(Append(S, Escape)) = Sanitize(S) \o Piece(S, Escape)
        BY <1>1, <1>2, <1>4, SanitizeAppend
    <2>3. S \o <<Escape>> = Append(S, Escape)
        BY <1>1, <1>2, <1>4, AppendEnds
    <2> QED BY <1>1, <1>2, <1>4, <2>1, <2>2, <2>3, Zenon
<1> HIDE DEF S1
<1>9. Len(S2) = Len(S1) + 1
    BY <1>2, <1>7, AppendEnds
<1>10. Sanitize(S2) = S2
    <2>1. Piece(S1, v) = <<v>>
        BY <1>7, Zenon DEF Piece
    <2>2. Sanitize(Append(S1, v)) = Sanitize(S1) \o Piece(S1, v)
        BY <1>2, <1>7, <1>8, SanitizeAppend
    <2>3. S1 \o <<v>> = Append(S1, v)
        BY <1>2, <1>7, <1>8, AppendEnds
    <2> QED BY <1>2, <1>7, <1>8, <2>1, <2>2, <2>3, Zenon
<1> HIDE DEF S2
<1>11. ~EndsInEscape(Append(m, c))
    BY <1>2, AppendEnds
<1>12. Len(S2) + 1 = BufferSize(Append(m, c))
    BY <1>1, <1>5, <1>7, <1>9
<1>13. Writes(Append(m, c))
    BY <1>6, <1>10, <1>11, <1>12, Zenon DEF Writes
<1> QED BY <1>6, <1>13 DEF S2, S1, S, v

\* A message without escapes is read as it was received.
LEMMA ReadsPlain ==
    ASSUME NEW m \in Seq(TextChar), Reads(m), NEW c \in TextChar,
           c \in {"n", "x", "control"}, Sanitize(Append(m, c)) = Append(Sanitize(m), c)
    PROVE  Reads(Append(m, c))
<1> DEFINE S == Sanitize(m)
<1>1. /\ S \in Seq(TextChar) /\ Body(S) /\ ~Open(S) /\ Decode(S) = m
      /\ Has(S, "control") <=> Has(m, "control")
    BY SanitizeTyped, Zenon DEF Reads
<1>2. c # Escape /\ c \notin {"newline", "tab"} /\ c # "quote"
    BY DEF Escape
<1> HIDE DEF S
<1>3. Fits(S, c)
    BY <1>1, <1>2, Zenon DEF Fits
<1>4. Body(Append(S, c)) /\ ~Open(Append(S, c))
    BY <1>1, <1>2, <1>3, BodyAppend
<1>5. ReadAs(Open(S), c) = <<c>>
    BY <1>1, <1>2 DEF ReadAs
<1>6. Decode(Append(S, c)) = Append(m, c)
    <2>1. Decode(Append(S, c)) = m \o <<c>>
        BY <1>1, <1>5, DecodeAppend
    <2> QED BY <2>1, AppendEnds
<1>7. Has(Append(S, c), "control") <=> Has(Append(m, c), "control")
    BY <1>1, HasAppend, Zenon
<1> QED BY <1>4, <1>6, <1>7, Zenon DEF Reads, S

\* Nor is a character lost that has been escaped.
LEMMA ReadsEscaped ==
    ASSUME NEW m \in Seq(TextChar), Reads(m), NEW c \in NonValid,
           Sanitize(Append(m, c)) = Append(Append(Sanitize(m), Escape), ValidChar[c])
    PROVE  Reads(Append(m, c))
<1> DEFINE S == Sanitize(m)
           v == ValidChar[c]
           S1 == Append(S, Escape)
           S2 == Append(S1, v)
<1>1. /\ S \in Seq(TextChar) /\ Body(S) /\ ~Open(S) /\ Decode(S) = m
      /\ Has(S, "control") <=> Has(m, "control")
    BY SanitizeTyped, Zenon DEF Reads
<1>2. /\ c \in TextChar /\ v \in TextChar /\ Escape \in TextChar
      /\ Escape \notin {"newline", "tab"} /\ Escape # "quote"
    BY CharactersAre DEF Escape
<1>3. v \in {"n", "t", "quote"} /\ v # Escape /\ v # "control" /\ c # "control"
    BY CharactersAre DEF Escape
<1>4. /\ v = "n" => c = "newline"
      /\ v = "t" => c = "tab"
      /\ v = "quote" => c = "quote"
    BY CharactersAre
<1> HIDE DEF S, v
<1>5. /\ S1 \in Seq(TextChar) /\ Body(S1) /\ Open(S1) /\ Decode(S1) = m
    <2>1. Fits(S, Escape)
        BY <1>1, <1>2, Zenon DEF Fits
    <2>2. Body(S1) /\ Open(S1)
        BY <1>1, <1>2, <2>1, BodyAppend
    <2>3. ReadAs(Open(S), Escape) = << >>
        BY <1>1 DEF ReadAs
    <2>4. Decode(S1) = m \o << >>
        BY <1>1, <1>2, <2>3, DecodeAppend
    <2>5. m \o << >> = m
        BY ConcatEmptySeq
    <2> QED BY <1>1, <1>2, <2>2, <2>4, <2>5, AppendEnds
<1> HIDE DEF S1
<1>6. Body(S2) /\ ~Open(S2)
    <2>1. v \notin {"newline", "tab"}
        BY <1>3
    <2>2. Fits(S1, v)
        BY <1>3, <1>5, <2>1 DEF Fits
    <2> QED BY <1>2, <1>3, <1>5, <2>2, BodyAppend
<1>7. ReadAs(Open(S1), v) = <<c>>
    <2>1. CASE v = "n"
        BY <1>4, <1>5, <2>1 DEF ReadAs
    <2>2. CASE v = "t"
        BY <1>4, <1>5, <2>2 DEF ReadAs
    <2>3. CASE v = "quote"
        BY <1>4, <1>5, <2>3 DEF ReadAs
    <2> QED BY <1>3, <2>1, <2>2, <2>3
<1>8. Decode(S2) = Append(m, c)
    <2>1. Decode(S2) = m \o <<c>>
        BY <1>2, <1>5, <1>7, DecodeAppend
    <2> QED BY <1>2, <2>1, AppendEnds
<1>9. Has(S2, "control") <=> Has(Append(m, c), "control")
    <2>1. Has(S2, "control") <=> Has(S1, "control")
        BY <1>2, <1>3, <1>5, HasAppend, Zenon
    <2>2. Has(S1, "control") <=> Has(S, "control")
        <3>1. Escape # "control"
            BY DEF Escape
        <3> QED BY <1>1, <1>2, <3>1, HasAppend, Zenon DEF S1
    <2>3. Has(Append(m, c), "control") <=> Has(m, "control")
        BY <1>2, <1>3, HasAppend, Zenon
    <2> QED BY <1>1, <2>1, <2>2, <2>3, Zenon
<1> QED BY <1>6, <1>8, <1>9, Zenon DEF Reads, S2, S1, S, v

\* A message without escapes had none before its last character.
LEMMA HasNot ==
    ASSUME NEW m \in Seq(Char), NEW c \in Char, ~Has(Append(m, c), Escape)
    PROVE  ~Has(m, Escape) /\ c # Escape /\ ~EndsInEscape(m)
<1>1. /\ Len(m) \in Nat /\ DOMAIN m = 1..Len(m)
      /\ Append(m, c) \in Seq(Char) /\ Len(Append(m, c)) = Len(m) + 1
      /\ \A k \in 1..Len(m): Append(m, c)[k] = m[k]
      /\ Append(m, c)[Len(m) + 1] = c
    BY AppendProperties, LenProperties
<1>2. DOMAIN Append(m, c) = 1..Len(m) + 1
    BY <1>1, LenProperties
<1>3. \A k \in 1..Len(m): k \in 1..Len(m) + 1
    BY <1>1
<1>4. Len(m) + 1 \in 1..Len(m) + 1 /\ (Len(m) # 0 => Len(m) \in 1..Len(m))
    BY <1>1
<1>5. ~Has(m, Escape)
    BY <1>1, <1>2, <1>3, Zenon DEF Has
<1>6. c # Escape
    BY <1>1, <1>2, <1>4, Zenon DEF Has
<1>7. ~EndsInEscape(m)
    BY <1>1, <1>4, <1>5, Zenon DEF Has, EndsInEscape
<1> QED BY <1>5, <1>6, <1>7

\* Each character keeps the invariant.
LEMMA ReceiveKeeps == MessageInv /\ [Receive]_msg => MessageInv'
<1>1. ASSUME MessageInv, UNCHANGED msg PROVE MessageInv'
    BY <1>1, Zenon DEF MessageInv
<1>2. ASSUME MessageInv, NEW c \in Char, msg' = Append(msg, c) PROVE MessageInv'
    <2> DEFINE m == msg
               t == Append(msg, c)
    <2>1. m \in Seq(Char) /\ Writes(m) /\ (~Has(m, Escape) => Reads(m))
        BY <1>2 DEF MessageInv
    <2>2. c \in TextChar /\ m \in Seq(TextChar)
        <3>1. \A k \in 1..Len(m): m[k] \in TextChar
            BY <2>1, ElementOfSeq, CharactersAre
        <3>2. Len(m) \in Nat /\ m = [k \in 1..Len(m) |-> m[k]]
            BY <2>1, LenProperties
        <3>3. m \in [1..Len(m) -> TextChar]
            BY <3>1, <3>2
        <3> QED BY <3>2, <3>3, CharactersAre, SeqDef
    <2>3. t \in Seq(Char)
        BY <2>1, AppendProperties
    <2> HIDE DEF m
    <2>4. CASE EndsInEscape(m) \/ c \notin NonValid
        <3>1. Writes(Append(m, c)) /\ Sanitize(Append(m, c)) = Append(Sanitize(m), c)
            BY <2>1, <2>2, <2>4, AsItIs
        <3>2. ASSUME ~Has(Append(m, c), Escape) PROVE Reads(Append(m, c))
            <4>1. ~Has(m, Escape) /\ c # Escape /\ ~EndsInEscape(m)
                BY <2>1, <3>2, HasNot
            <4>2. c \in {"n", "x", "control"}
                BY <2>4, <4>1 DEF Char
            <4> QED BY <2>1, <2>2, <3>1, <4>1, <4>2, ReadsPlain
        <3> QED BY <1>2, <2>3, <3>1, <3>2, Zenon DEF MessageInv, m
    <2>5. CASE ~EndsInEscape(m) /\ c \in NonValid
        <3>1. /\ Writes(Append(m, c))
              /\ Sanitize(Append(m, c)) = Append(Append(Sanitize(m), Escape), ValidChar[c])
            BY <2>1, <2>2, <2>5, Escaped
        <3>2. ASSUME ~Has(Append(m, c), Escape) PROVE Reads(Append(m, c))
            <4>1. ~Has(m, Escape)
                BY <2>1, <3>2, HasNot
            <4> QED BY <2>1, <2>2, <2>5, <3>1, <4>1, ReadsEscaped
        <3> QED BY <1>2, <2>3, <3>1, <3>2, Zenon DEF MessageInv, m
    <2> QED BY <2>4, <2>5
<1>3. ASSUME MessageInv, Receive PROVE MessageInv'
    BY <1>2, <1>3 DEF Receive
<1> QED BY <1>1, <1>3

\* So messages of any length do.
LEMMA MessageInvariance == SanitizeSpec => []MessageInv
<1>1. SanitizeInit => MessageInv
    <2>1. << >> \in Seq(Char)
        BY EmptySeq
    <2> QED BY <2>1, NothingReceived DEF SanitizeInit, MessageInv
<1> QED BY <1>1, ReceiveKeeps, PTL DEF SanitizeSpec

\* Whatever the message, and however long: the text that sanitize writes is as long as
\* it has counted and is left as it is when it is sanitized again. When the message has
\* no escapes, the message can be read back from it, and it is a JSON string unless the
\* message has a control character that sanitize does not look for.
THEOREM SanitizeIsFaithful == SanitizeSpec => []SanitizeKeepsText
<1>1. ASSUME MessageInv PROVE SanitizeKeepsText
    <2>1. msg \in Seq(TextChar)
        <3>1. msg \in Seq(Char)
            BY <1>1 DEF MessageInv
        <3>2. \A k \in 1..Len(msg): msg[k] \in TextChar
            BY <3>1, ElementOfSeq, CharactersAre
        <3>3. Len(msg) \in Nat /\ msg = [k \in 1..Len(msg) |-> msg[k]]
            BY <3>1, LenProperties
        <3>4. msg \in [1..Len(msg) -> TextChar]
            BY <3>2, <3>3
        <3> QED BY <3>3, <3>4, SeqDef
    <2>2. IsJSONString(Sanitize(msg)) <=> /\ Body(Sanitize(msg)) /\ ~Open(Sanitize(msg))
                                          /\ ~Has(Sanitize(msg), "control")
        BY <2>1, SanitizeTyped, StringIs
    <2> QED BY <1>1, <2>2, Zenon DEF MessageInv, Writes, Reads, SanitizeKeepsText
<1> QED BY <1>1, MessageInvariance, PTL
==============================================================================
