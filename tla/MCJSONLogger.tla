---------------------------- MODULE MCJSONLogger ----------------------------
(* Finite instances of JSONLogger.                                         *)
EXTENDS JSONLogger, FiniteSets

(* The thread limit is not reached: every message gets a flusher if it     *)
(* asks for one.                                                           *)
ASSUME ThreadsSuffice == Cardinality(Flushers) >= MaxLines
=============================================================================
