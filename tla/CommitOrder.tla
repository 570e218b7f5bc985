----------------------------- MODULE CommitOrder -----------------------------
(***************************************************************************)
(* What the relay promises the MLS clients of a room, with no peers,       *)
(* sockets or messages in it: the Commits of a group are decided one at a  *)
(* time, in epoch order, never taken back, and never again once the room   *)
(* has moved on to a later session (docs/CONTRATO.md, "o relay serializa"; *)
(* acceptE2eeCommit in sfu/src/Services/Room.ts).                          *)
(***************************************************************************)
EXTENDS Naturals

VARIABLE decided  \* records with fields life, group, epoch and whatever was decided

Init == decided = {}

(* d closes the first epoch of its group that is still open. *)
InOrder(d) ==
  /\ d.epoch = 0 \/ \E c \in decided : c.life = d.life /\ c.group = d.group
                                       /\ c.epoch + 1 = d.epoch
  /\ ~ \E c \in decided : c.life = d.life /\ c.group = d.group /\ c.epoch >= d.epoch
  /\ \A c \in decided : c.life <= d.life

Decide ==
  \E d \in decided' \ decided : InOrder(d) /\ decided' = decided \cup {d}

Next == Decide

Spec == Init /\ [][Next]_decided
=============================================================================
