---------------------------- MODULE ControlAuthority ----------------------------
(***************************************************************************)
(* What the authority of the DTLS channel promises: at most one controller *)
(* at a time, taken over only by a higher rank, and otherwise given up     *)
(* before the next one gets it.                                            *)
(***************************************************************************)
EXTENDS Integers

CONSTANTS Controllers, Ranks, Nobody

VARIABLES holder, rank

Init == holder = Nobody /\ rank = 0

Acquire(c, r) == holder = Nobody /\ holder' = c /\ rank' = r

TakeOver(c, r) == holder \notin {Nobody, c} /\ r > rank /\ holder' = c /\ rank' = r

GiveUp == holder # Nobody /\ holder' = Nobody /\ rank' = 0

Next ==
  \/ \E c \in Controllers, r \in Ranks : Acquire(c, r) \/ TakeOver(c, r)
  \/ GiveUp

Spec == Init /\ [][Next]_<<holder, rank>>
===============================================================================
