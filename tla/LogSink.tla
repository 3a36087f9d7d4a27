------------------------------ MODULE LogSink ------------------------------
(***************************************************************************)
(* What a logger promises to whoever writes to it, independently of        *)
(* buffers, threads and files: the lines it accepts are stored once, in    *)
(* the order they were accepted, and as long as the sink is not destroyed  *)
(* every accepted line is stored in the end.                               *)
(* A line is identified by its position in the stream of accepted lines.   *)
(***************************************************************************)
EXTENDS Naturals, Sequences

VARIABLES accepted,   \* the lines taken from the program, in order
          stored,     \* the lines that left the process, in order
          closed      \* the sink has been destroyed

sinkVars == <<accepted, stored, closed>>

(* s is an initial segment of t. *)
Prefix(s, t) == Len(s) <= Len(t) /\ s = SubSeq(t, 1, Len(s))

SinkInit ==
  /\ accepted = <<>>
  /\ stored = <<>>
  /\ closed = FALSE

(* The next line is taken; accepting it may push earlier lines, or the     *)
(* line itself, to storage.                                                *)
Accept ==
  /\ ~closed
  /\ accepted' = Append(accepted, Len(accepted) + 1)
  /\ \E n \in Len(stored) .. Len(accepted) + 1 : stored' = SubSeq(accepted', 1, n)
  /\ UNCHANGED closed

(* Some of the accepted lines that were not stored yet are stored. *)
Deliver ==
  /\ ~closed
  /\ \E n \in Len(stored) + 1 .. Len(accepted) : stored' = SubSeq(accepted, 1, n)
  /\ UNCHANGED <<accepted, closed>>

Close ==
  /\ ~closed
  /\ closed' = TRUE
  /\ UNCHANGED <<accepted, stored>>

SinkNext == Accept \/ Deliver \/ Close

SinkSafety == SinkInit /\ [][SinkNext]_sinkVars

SinkSpec == SinkSafety /\ WF_sinkVars(Deliver)

(* What is stored is always an initial segment of what was accepted.       *)
StoredInOrder == Prefix(stored, accepted)
=============================================================================
