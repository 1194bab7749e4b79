----------------------------- MODULE MCLiveState -----------------------------
(* LiveState as it is; the configurations give the bounds.                  *)
EXTENDS LiveState
=============================================================================
