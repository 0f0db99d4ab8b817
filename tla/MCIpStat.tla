------------------------------ MODULE MCIpStat ------------------------------
(* Three IPs, two of which hash to the same value, or one. *)
EXTENDS IpStat

CONSTANTS p1, p2, p3

MCHash == (p1 :> 2) @@ (p2 :> 1) @@ (p3 :> 2)
MCHash1 == p1 :> 2
=============================================================================
