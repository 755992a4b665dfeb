--------------------------- MODULE MCStoreScenes ---------------------------
(* Both scenes, for TLC: two captures mixed with everything, a rush of     *)
(* three.                                                                  *)
EXTENDS MCSessionStore, StoreScenes
=============================================================================
