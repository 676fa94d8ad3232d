-------------------------------- MODULE MCDict --------------------------------
(***************************************************************************)
(* Four keys for TLC to run Dict on. In a table of 4 two pairs of them     *)
(* collide, in one of 8 two at its last slot, next to the home of the      *)
(* other two; with three entries an insertion makes it grow.               *)
(***************************************************************************)
EXTENDS Dict, TLC

Hashes == "k7" :> 7 @@ "k15" :> 15 @@ "k0" :> 0 @@ "k8" :> 8
==============================================================================
