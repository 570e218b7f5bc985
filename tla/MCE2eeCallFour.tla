--------------------------- MODULE MCE2eeCallFour ---------------------------
(* A room of four people for E2eeCall, each with an account of its own. *)
EXTENDS MCE2eeCall

CONSTANTS p4, dora

MCFourPeers == {p1, p2, p3, p4}

MCFourAccounts == MCOwnAccounts @@ p4 :> dora

(* People come in turn: p3 once p2 is in the group, p4 once p1 has left and  *)
(* its leaf is out; then p3 may leave.                                       *)
MCInTurn ==
  /\ status[p2] = "here" => status[p1] # "unborn"
  /\ status[p3] # "unborn" => Len(call[p2].log) >= 2
  /\ status[p1] = "gone" => Len(call[p2].log) >= 3
  /\ status[p4] # "unborn" => Len(call[p2].log) >= 4
  /\ status[p3] = "gone" => status[p4] = "here"
  /\ status[p2] # "gone" /\ status[p4] # "gone"
=============================================================================
