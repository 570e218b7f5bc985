----------------------------- MODULE MCE2eeCall -----------------------------
(* Small rooms for E2eeCall: a device per account, or two of one account. *)
EXTENDS E2eeCall, TLC

CONSTANTS p1, p2, p3, ana, bia, caio

MCPeer == {p1, p2, p3}

MCOwnAccounts == p1 :> ana @@ p2 :> bia @@ p3 :> caio

(* p1 and p3 are two devices of the same account. *)
MCTwoDevices == p1 :> ana @@ p2 :> bia @@ p3 :> ana

(* A group id is derived from the session id alone: the room is one. *)
MCGroup == 1..MaxSession

MCTold == TellableNames

(* KeyPackages carry the new member, Commits and Welcomes a group state. *)
MCPayload == Member \cup Seq(Entry)

(* With an account of one's own, everybody is interchangeable. *)
MCAllPeers == Permutations(Peer)

(* With one group an app, one person leaves or is kicked and one request    *)
(* fails before or after it, or one socket is lost; or a socket is lost and *)
(* an app starts another group.                                             *)
MCOneTrouble ==
  /\ drops + exits + kicks <= 1 /\ drops + fails <= 1
  /\ (\A p \in Peer : starts[p] <= 1) \/ exits + kicks = 0
=============================================================================
