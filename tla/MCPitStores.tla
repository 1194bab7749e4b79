----------------------------- MODULE MCPitStores -----------------------------
(* Instances of PitStores: windows of two and three days for 20 and 60.     *)
EXTENDS PitStores

MCWindows == {2, 3}
=============================================================================
