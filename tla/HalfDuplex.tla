----------------------------- MODULE HalfDuplex -----------------------------
(***************************************************************************)
(* What the two users of one command socket of a Livox sensor are meant to *)
(* get from it: one of them at a time asks, and it hears the answer to its *)
(* own question or nothing at all.  While there is noise on the line, that *)
(* is, datagrams nobody waits for, it may hear those instead.              *)
(***************************************************************************)
CONSTANTS Parties, Nobody

VARIABLES
  owner,   (* the party whose question is open, or Nobody                  *)
  heard,   (* "stray": the last party heard what was not meant for it      *)
  noise    (* there are datagrams on the line that nobody waits for        *)

vars == <<owner, heard, noise>>

Init == owner = Nobody /\ heard = "fine" /\ noise = FALSE

Ask(p) ==
  /\ owner = Nobody
  /\ owner' = p
  /\ heard' = "fine"
  /\ UNCHANGED noise

(* A party that hears what was not meant for it clears that from the line.  *)
Hear(p) ==
  /\ owner = p
  /\ owner' = Nobody
  /\ heard' \in {"fine"} \cup IF noise THEN {"stray"} ELSE {}
  /\ noise' \in {FALSE, noise}

(* A datagram comes that nobody asked for, or the line is found empty.      *)
Noise == noise' \in BOOLEAN /\ UNCHANGED <<owner, heard>>

Next == Noise \/ \E p \in Parties : Ask(p) \/ Hear(p)

Spec == Init /\ [][Next]_vars
=============================================================================
