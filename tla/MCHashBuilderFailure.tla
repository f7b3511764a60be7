------------------------ MODULE MCHashBuilderFailure -------------------------
(* The instance TLC checks HashBuilderFailure on, with the constants of HashBuilder's. *)
EXTENDS MCHashBuilder, HashBuilderFailure
=============================================================================
