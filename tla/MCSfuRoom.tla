------------------------------ MODULE MCSfuRoom ------------------------------
(* Three sockets, two of them of one device, for SfuRoom. *)
EXTENDS SfuRoom, TLC

CONSTANTS s1, s2, s3, j1, j2, j3, laptop, phone

MCSocket == {s1, s2, s3}

MCJoin == {j1, j2, j3}

MCSocketOf == j1 :> s1 @@ j2 :> s2 @@ j3 :> s3

MCDeviceOf == s1 :> laptop @@ s2 :> laptop @@ s3 :> phone

(* One socket whose client asks twice, and another. *)
MCTwiceOf == j1 :> s1 @@ j2 :> s1 @@ j3 :> s2
=============================================================================
