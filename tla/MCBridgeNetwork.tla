--------------------------- MODULE MCBridgeNetwork ---------------------------
(***************************************************************************)
(* Two clients with a station each, and a third address to restart with.   *)
(* No frame is to a group: the server takes the same branch for it as for  *)
(* a station it does not know.                                             *)
(***************************************************************************)
EXTENDS BridgeNetwork, TapSetup, TLC

CONSTANTS c1, c2, a1, a2, a3, m1, m2, none

MCFirstAddr == (c1 :> a1) @@ (c2 :> a2)

MCMaxLives == (c1 :> 2) @@ (c2 :> 1)

MCClientOf == (m1 :> c1) @@ (m2 :> c2)
=============================================================================
