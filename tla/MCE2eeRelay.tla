---------------------------- MODULE MCE2eeRelay ----------------------------
(***************************************************************************)
(* Three peers, two of them of one account, for E2eeRelay.  While one of   *)
(* them stays out, the others have payloads and groups to choose from, and *)
(* a second session; all three together have one of each, the first        *)
(* session, and two messages on their way at most.                         *)
(***************************************************************************)
EXTENDS E2eeRelay, TLC

CONSTANTS p1, p2, p3, ana, bia

MCPeer == {p1, p2, p3}

MCAccountOf == p1 :> ana @@ p2 :> bia @@ p3 :> ana

MCNoChoice ==
  /\ Cardinality({a.payload : a \in accepted}) <= 1
  /\ Cardinality(opened \cup {a.group : a \in accepted}) <= 1

MCOnTheirWay == Len(inbox[p1]) + Len(inbox[p2]) + Len(inbox[p3])

MCTwoOrNoChoice ==
  \/ \E p \in Peer : status[p] = "unborn"
  \/ MCNoChoice /\ session = 1 /\ MCOnTheirWay <= 2

(* Payloads, groups, and the two peers of one account, are interchangeable. *)
MCSymmetry == Permutations(Payload) \cup Permutations(Group) \cup Permutations({p1, p3})
=============================================================================
