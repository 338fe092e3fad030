--------------------------- MODULE MCCommandStack ---------------------------
(* Two callers, one operation timeout, one pause: every stage of a command  *)
(* can meet every stage of another one, a time out, a reconnect and close().*)
EXTENDS CommandStack, TLC

CallerSymmetry == Permutations(Callers) \cup Permutations(Streams)
=============================================================================
