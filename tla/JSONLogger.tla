----------------------------- MODULE JSONLogger -----------------------------
(***************************************************************************)
(* The JSONLogger: a consumer of log messages that prints every message to *)
(* a stdio stream and leaves the flushing of that stream, and the          *)
(* reopening of the log file when it has been deleted or moved, to a       *)
(* short-lived "flusher" thread that it creates when none is pending.      *)
(*                                                                         *)
(* Threads: the one LoggerService thread that calls ConsumeLogMessage,     *)
(* the flusher threads, the thread that destroys the logger, and an        *)
(* environment that displaces the file the log path names, creates another *)
(* one there or moves the old one back.                                    *)
(* The stdio buffer is a sequence of lines, and a file is an inode number: *)
(* the code never looks further into either.                               *)
(***************************************************************************)
EXTENDS Naturals, Sequences

CONSTANTS Flushers,          \* the threads pthread_create can hand out
          MaxLines,          \* bound on the messages logged
          MaxDisplacements   \* bound on deletions and moves of the log file

ASSUME ConstantsAssumption ==
  /\ MaxLines \in Nat
  /\ MaxDisplacements \in Nat
  /\ {"free", "consumer", "owner"} \cap Flushers = {}

VARIABLES
  life,       \* phase of the JSONLogger object, from constructor to delete
  stream,     \* info.file: "null", "stdout", "stderr", "log" or "closed"
  inode,      \* the file the "log" stream writes to
  buf,        \* lines in the buffer of the stream
  stored,     \* lines handed to the operating system, in that order
  idle,       \* info.idle
  mutex,      \* the owner of info.mutex, or "free"
  cpc,        \* where the consumer thread is in ConsumeLogMessage
  fpc,        \* where each flusher thread is in flush
  calls,      \* number of messages logged so far
  atPath,     \* the file info.logpath names, 0 when there is none
  created,    \* number of files created at that path so far
  moved,      \* the files that were deleted or moved from there at some time
  displaced   \* number of times that happened

streamVars == <<stream, inode, buf, stored>>
fileVars   == <<atPath, created, moved, displaced>>
vars == <<life, streamVars, idle, mutex, cpc, fpc, calls, fileVars>>

Init ==
  /\ life = "constructed"
  /\ stream = "null"
  /\ inode = 0
  /\ buf = <<>>
  /\ stored = <<>>
  /\ idle = TRUE
  /\ mutex = "free"
  /\ cpc = "idle"
  /\ fpc = [f \in Flushers |-> "none"]
  /\ calls = 0
  /\ atPath \in {0, 1}             \* the log of an earlier run may be there
  /\ created = atPath
  /\ moved = {}
  /\ displaced = 0

-----------------------------------------------------------------------------
(* The C library and the file system, as the logger uses them.             *)

(* fopen(logpath, "a"): opens the file of that name, creating it when      *)
(* there is none, or fails and returns NULL.                               *)
OpenLog ==
  \/ /\ atPath # 0
     /\ stream' = "log"
     /\ inode' = atPath
     /\ UNCHANGED <<atPath, created>>
  \/ /\ atPath = 0
     /\ stream' = "log"
     /\ created' = created + 1
     /\ atPath' = created'
     /\ inode' = created'
  \/ /\ stream' = "null"
     /\ UNCHANGED <<inode, atPath, created>>

(* fflush, and the flush fclose does: the whole buffer leaves the process. *)
FlushBuffer ==
  /\ stored' = stored \o buf
  /\ buf' = <<>>

(* The log file is deleted, or moved away (log rotation).                  *)
Displace ==
  /\ atPath # 0
  /\ displaced < MaxDisplacements
  /\ atPath' = 0
  /\ moved' = moved \cup {atPath}
  /\ displaced' = displaced + 1
  /\ UNCHANGED <<life, streamVars, idle, mutex, cpc, fpc, calls, created>>

(* A new file is created at the log path by another program.               *)
Recreate ==
  /\ atPath = 0
  /\ created' = created + 1
  /\ atPath' = created'
  /\ UNCHANGED <<life, streamVars, idle, mutex, cpc, fpc, calls, moved, displaced>>

(* A file that was moved away is moved back, the one that is open perhaps. *)
MoveBack ==
  /\ atPath = 0
  /\ atPath' \in moved
  /\ UNCHANGED <<life, streamVars, idle, mutex, cpc, fpc, calls, created, moved, displaced>>

-----------------------------------------------------------------------------
(* Faulty: any LogPath is taken for the name of a standard stream. *)
InitialiseAny(path) ==
  /\ life = "constructed"
  /\ stream' = path
  /\ life' = "ready"
  /\ UNCHANGED <<inode, fileVars, buf, stored, idle, mutex, cpc, fpc, calls>>

(* JSONLogger::Initialise.  The result of Object::Initialise is replaced   *)
(* by that of reading LogPath, so it plays no part in the result.          *)
Initialise(path) ==
  /\ life = "constructed"
  /\ \/ /\ path = "missing"
        /\ life' = "failed"
        /\ UNCHANGED <<stream, inode, atPath, created>>
     \/ /\ path \in {"stdout", "stderr"}
        /\ stream' = path
        /\ life' = "ready"
        /\ UNCHANGED <<inode, atPath, created>>
     \/ /\ path = "file"
        /\ OpenLog
        /\ life' = IF stream' = "null" THEN "failed" ELSE "ready"
  /\ UNCHANGED <<buf, stored, idle, mutex, cpc, fpc, calls, moved, displaced>>

-----------------------------------------------------------------------------
(* The consumer thread: JSONLogger::ConsumeLogMessage.                     *)

Call ==
  /\ life = "ready"
  /\ cpc = "idle"
  /\ calls < MaxLines
  /\ calls' = calls + 1
  /\ cpc' = "lock"
  /\ UNCHANGED <<life, streamVars, idle, mutex, fpc, fileVars>>

(* Faulty: a message that finds the mutex taken is given up. *)
ConsumerTryLock ==
  /\ cpc = "lock"
  /\ \/ mutex = "free" /\ mutex' = "consumer" /\ cpc' = "print"
     \/ mutex # "free" /\ cpc' = "idle" /\ UNCHANGED mutex
  /\ UNCHANGED <<life, streamVars, idle, fpc, calls, fileVars>>

ConsumerLock ==
  /\ cpc = "lock"
  /\ mutex = "free"
  /\ mutex' = "consumer"
  /\ cpc' = "print"
  /\ UNCHANGED <<life, streamVars, idle, fpc, calls, fileVars>>

(* fprintf of the line.  A stream with a buffer may write out any part of  *)
(* it while the line is added; stderr has no buffer.                       *)
PrintLine ==
  /\ cpc = "print"
  /\ stream \notin {"null", "closed"}
  /\ LET lines == Append(buf, calls) IN
       \E n \in 0 .. Len(lines) :
         /\ stream = "stderr" => n = Len(lines)
         /\ stored' = stored \o SubSeq(lines, 1, n)
         /\ buf' = SubSeq(lines, n + 1, Len(lines))
  /\ cpc' = "test"
  /\ UNCHANGED <<life, stream, inode, idle, mutex, fpc, calls, fileVars>>

(* Faulty: a flusher is started for every message. *)
TestNothing ==
  /\ cpc = "test"
  /\ mutex' = "free"
  /\ cpc' = "busy"
  /\ UNCHANGED <<life, streamVars, idle, fpc, calls, fileVars>>

(* Faulty: the mutex is released on the first branch only. *)
TestKeepsLock ==
  /\ cpc = "test"
  /\ mutex' = IF idle THEN "free" ELSE mutex
  /\ cpc' = IF idle THEN "busy" ELSE "idle"
  /\ UNCHANGED <<life, streamVars, idle, fpc, calls, fileVars>>

(* if (info.idle), and the unlock on each branch.                          *)
TestIdle ==
  /\ cpc = "test"
  /\ mutex' = "free"
  /\ cpc' = IF idle THEN "busy" ELSE "idle"
  /\ UNCHANGED <<life, streamVars, idle, fpc, calls, fileVars>>

(* flush_after, first step: info.idle is cleared with the mutex released.  *)
SetBusy ==
  /\ cpc = "busy"
  /\ idle' = FALSE
  /\ cpc' = "spawn"
  /\ UNCHANGED <<life, streamVars, mutex, fpc, calls, fileVars>>

(* flush_after, second step: pthread_create, whose result is ignored.  A   *)
(* flusher is neither joined nor detached, so its slot is never used again *)
(* and the call fails when none is left.                                   *)
Spawn ==
  /\ cpc = "spawn"
  /\ cpc' = "idle"
  /\ \/ \E f \in Flushers : fpc[f] = "none" /\ fpc' = [fpc EXCEPT ![f] = "sleep"]
     \/ (\A f \in Flushers : fpc[f] # "none") /\ UNCHANGED fpc
  /\ UNCHANGED <<life, streamVars, idle, mutex, calls, fileVars>>

-----------------------------------------------------------------------------
(* A flusher thread: flush.                                                *)

(* f goes from one program location to the next while the object exists.   *)
Goto(f, from, to) ==
  /\ life # "freed"
  /\ fpc[f] = from
  /\ fpc' = [fpc EXCEPT ![f] = to]

(* The delay is over and the mutex is taken.                               *)
FlusherLock(f) ==
  /\ Goto(f, "sleep", "flush")
  /\ mutex = "free"
  /\ mutex' = f
  /\ UNCHANGED <<life, streamVars, idle, cpc, calls, fileVars>>

(* Faulty: the flusher forgets to flush. *)
FlushNothing(f) ==
  /\ Goto(f, "flush", "check")
  /\ UNCHANGED <<life, streamVars, idle, mutex, cpc, calls, fileVars>>

Flush(f) ==
  /\ Goto(f, "flush", "check")
  /\ stream # "closed"
  /\ FlushBuffer
  /\ UNCHANGED <<life, stream, inode, idle, mutex, cpc, calls, fileVars>>

(* Faulty: the mutex is given back before the stream is looked at. *)
CheckUnlocked(f) ==
  /\ Goto(f, "check", "done")
  /\ mutex' = "free"
  /\ UNCHANGED <<life, streamVars, idle, cpc, calls, fileVars>>

(* Faulty: the file is reopened when it is still there. *)
CheckInverted(f) ==
  /\ Goto(f, "check",
          IF stream = "null" \/ (stream = "log" /\ atPath # 0) THEN "reopen" ELSE "done")
  /\ UNCHANGED <<life, streamVars, idle, mutex, cpc, calls, fileVars>>

(* Faulty: the path is looked at only when there is no stream. *)
CheckStreamOnly(f) ==
  /\ Goto(f, "check", IF stream = "null" THEN "reopen" ELSE "done")
  /\ UNCHANGED <<life, streamVars, idle, mutex, cpc, calls, fileVars>>

(* Is there a stream, and does the log path still name a file?             *)
Check(f) ==
  /\ Goto(f, "check",
          IF stream = "null" \/ (stream = "log" /\ atPath = 0) THEN "reopen" ELSE "done")
  /\ UNCHANGED <<life, streamVars, idle, mutex, cpc, calls, fileVars>>

(* fclose of the stream of the displaced file, then fopen.                 *)
Reopen(f) ==
  /\ Goto(f, "reopen", "done")
  /\ FlushBuffer
  /\ OpenLog
  /\ UNCHANGED <<life, idle, mutex, cpc, calls, moved, displaced>>

(* Faulty: no fall-back when the file cannot be opened. *)
SetIdleOnly(f) ==
  /\ Goto(f, "done", "unlock")
  /\ idle' = TRUE
  /\ UNCHANGED <<life, streamVars, mutex, cpc, calls, fileVars>>

(* Faulty: idle is not set on the way out. *)
StayBusy(f) ==
  /\ Goto(f, "done", "unlock")
  /\ stream' = IF stream = "null" THEN "stdout" ELSE stream
  /\ UNCHANGED <<life, inode, buf, stored, idle, mutex, cpc, calls, fileVars>>

(* The fall-back to stdout, then info.idle is set.                         *)
SetIdle(f) ==
  /\ Goto(f, "done", "unlock")
  /\ stream' = IF stream = "null" THEN "stdout" ELSE stream
  /\ idle' = TRUE
  /\ UNCHANGED <<life, inode, buf, stored, mutex, cpc, calls, fileVars>>

FlusherUnlock(f) ==
  /\ Goto(f, "unlock", "exited")
  /\ mutex' = "free"
  /\ UNCHANGED <<life, streamVars, idle, cpc, calls, fileVars>>

(* Where a flusher has still to read or write info.                        *)
Live == {"sleep", "flush", "check", "reopen", "done", "unlock"}

(* The flusher uses info after it was freed, or a stream that was closed:  *)
(* nothing is known of what it does from here on.                          *)
Dangle(f) ==
  /\ fpc[f] \in Live
  /\ life = "freed" \/ (fpc[f] = "flush" /\ stream = "closed")
  /\ fpc' = [fpc EXCEPT ![f] = "dangling"]
  /\ UNCHANGED <<life, streamVars, idle, mutex, cpc, calls, fileVars>>

-----------------------------------------------------------------------------
(* JSONLogger::~JSONLogger, called once no message is being consumed.      *)

Destroy ==
  /\ life \in {"constructed", "failed", "ready"}
  /\ cpc = "idle"
  /\ life' = "dtorLock"
  /\ UNCHANGED <<streamVars, idle, mutex, cpc, fpc, calls, fileVars>>

DestructorLock ==
  /\ life = "dtorLock"
  /\ mutex = "free"
  /\ mutex' = "owner"
  /\ life' = "dtorClose"
  /\ UNCHANGED <<streamVars, idle, cpc, fpc, calls, fileVars>>

(* stdout is spared, stderr is closed like a log file.                     *)
DestructorClose ==
  /\ life = "dtorClose"
  /\ life' = "dtorUnlock"
  /\ \/ /\ stream \in {"stderr", "log"}
        /\ stream' = "closed"
        /\ FlushBuffer
     \/ /\ stream \notin {"stderr", "log"}
        /\ UNCHANGED <<stream, buf, stored>>
  /\ UNCHANGED <<inode, idle, mutex, cpc, fpc, calls, fileVars>>

DestructorUnlock ==
  /\ life = "dtorUnlock"
  /\ mutex' = "free"
  /\ life' = "dtorFree"
  /\ UNCHANGED <<streamVars, idle, cpc, fpc, calls, fileVars>>

(* logpath and the mutex are gone, then the object itself.                 *)
DestructorFree ==
  /\ life = "dtorFree"
  /\ life' = "freed"
  /\ UNCHANGED <<streamVars, idle, mutex, cpc, fpc, calls, fileVars>>

-----------------------------------------------------------------------------
Consumer == ConsumerLock \/ PrintLine \/ TestIdle \/ SetBusy \/ Spawn

Flusher(f) ==
  \/ FlusherLock(f) \/ Flush(f) \/ Check(f) \/ Reopen(f)
  \/ SetIdle(f) \/ FlusherUnlock(f) \/ Dangle(f)

Destructor == DestructorLock \/ DestructorClose \/ DestructorUnlock \/ DestructorFree

Next ==
  \/ \E path \in {"missing", "stdout", "stderr", "file"} : Initialise(path)
  \/ Call
  \/ Consumer
  \/ \E f \in Flushers : Flusher(f)
  \/ Destroy
  \/ Destructor
  \/ Displace
  \/ Recreate
  \/ MoveBack

(* A thread that can go on does.  Nobody has to log, to destroy the        *)
(* logger, or to touch the log file.                                       *)
Fairness ==
  /\ WF_vars(Consumer)
  /\ \A f \in Flushers : WF_vars(Flusher(f))
  /\ WF_vars(Destructor)

Spec == Init /\ [][Next]_vars
FairSpec == Spec /\ Fairness

-----------------------------------------------------------------------------
CriticalLocations == {"flush", "check", "reopen", "done", "unlock"}

(* A flusher that was created and has not set idle yet.                    *)
Pending(f) == fpc[f] \in {"sleep", "flush", "check", "reopen", "done"}

(* Number of lines printed, the number of messages consumed but one that   *)
(* is still on its way to the stream.                                      *)
Printed == IF cpc \in {"lock", "print"} THEN calls - 1 ELSE calls

(* Type correctness. *)
TypeOK ==
  /\ life \in {"constructed", "failed", "ready", "dtorLock", "dtorClose",
               "dtorUnlock", "dtorFree", "freed"}
  /\ stream \in {"null", "stdout", "stderr", "log", "closed"}
  /\ inode \in Nat
  /\ buf \in Seq(Nat)
  /\ stored \in Seq(Nat)
  /\ idle \in BOOLEAN
  /\ mutex \in Flushers \cup {"free", "consumer", "owner"}
  /\ cpc \in {"idle", "lock", "print", "test", "busy", "spawn"}
  /\ fpc \in [Flushers -> Live \cup {"none", "exited", "dangling"}]
  /\ calls \in 0 .. MaxLines
  /\ atPath \in Nat
  /\ created \in Nat
  /\ moved \in SUBSET Nat
  /\ displaced \in 0 .. MaxDisplacements

(* At most one flusher is pending, and then idle is false and the consumer *)
(* is not about to create another: idle, read under the mutex but cleared  *)
(* outside it in flush_after, still counts the pending flushers right.     *)
OneFlusherPending ==
  /\ \A f, g \in Flushers : Pending(f) /\ Pending(g) => f = g
  /\ \A f \in Flushers : Pending(f) => ~idle /\ cpc \notin {"busy", "spawn"}

(* No two threads are about to access info.idle at once when one of them   *)
(* writes it, although flush_after writes it without the mutex.            *)
NoRaceOnIdle ==
  \A f \in Flushers :
    fpc[f] = "done" =>
      /\ cpc \notin {"test", "busy"}
      /\ \A g \in Flushers \ {f} : fpc[g] # "done"

(* The consumer never prints to a missing or closed stream, whatever       *)
(* happened to the log file in between.                                    *)
PrintsToOpenStream == cpc = "print" => stream \in {"stdout", "stderr", "log"}

(* Every line printed is in storage or in the buffer, once and in order,   *)
(* across flushes, reopenings, the fall-back and the destructor.           *)
NoLineLost == stored \o buf = [i \in 1 .. Printed |-> i]

(* Between two messages a line that is still in the buffer has a flusher   *)
(* that has yet to flush it, unless the system had no thread to give.      *)
BufferedLineHasFlusher ==
  (life = "ready" /\ cpc = "idle" /\ buf # <<>>) =>
     \/ \E f \in Flushers : fpc[f] \in {"sleep", "flush"}
     \/ \A f \in Flushers : fpc[f] # "none"

(* The logger stays with a file that was never taken from its path. It may *)
(* leave one that was, and that is back by the time of fclose, although    *)
(* stat has not found it, but then for no other file: fopen opens it again *)
(* or fails. Between stat, fclose and fopen other programs change the      *)
(* directory (flush).                                                      *)
LeavesOnlyDisplacedFile ==
  [][ (stream = "log" /\ <<stream, inode>>' # <<stream, inode>>) =>
        \/ life = "dtorClose"
        \/ /\ inode \in moved
           /\ inode = atPath => stream' = "null" ]_vars

-----------------------------------------------------------------------------
InBuffer(l) == \E i \in DOMAIN buf : buf[i] = l

(* Every buffered line reaches storage, unless the logger is destroyed     *)
(* while it prints to stdout (which the C library flushes at exit).        *)
BufferedLineIsStored ==
  \A l \in 1 .. MaxLines : InBuffer(l) ~> (~InBuffer(l) \/ life = "freed")

(* The LoggerService thread always comes back from ConsumeLogMessage.      *)
ConsumerReturns == cpc # "idle" ~> cpc = "idle"

(* A flusher that has not looked at the log path yet leaves the file that  *)
(* disappeared from it, so that a file exists at the path or the logger    *)
(* has gone over to stdout.                                                *)
VanishedFileIsReopened ==
  \A i \in 1 .. MaxDisplacements + 1 :
    ( /\ life = "ready" /\ stream = "log" /\ inode = i /\ atPath = 0
      /\ \E f \in Flushers : fpc[f] \in {"sleep", "flush", "check"} )
    ~> (life # "ready" \/ inode # i \/ stream = "stdout" \/ atPath # 0)

-----------------------------------------------------------------------------
(* The logger implements a sink of lines.                                  *)
Sink == INSTANCE LogSink WITH accepted <- stored \o buf,
                              stored   <- stored,
                              closed   <- life = "freed"
SinkSpec == Sink!SinkSpec
=============================================================================
