------------------------------ MODULE MCPbcStore ----------------------------
(***************************************************************************)
(* Names whose hashes collide in maps of 1, 2, 4 and 8 slots: in the wrong *)
(* order, kb and kc take the home slots of others.                         *)
(***************************************************************************)
EXTENDS PbcStore, TLC

CONSTANTS ka, kb, kc, kd, ke, ky

MCHash == ka :> 3 @@ kb :> 3 @@ kc :> 11 @@ kd :> 0 @@ ke :> 4 @@ ky :> 3
=============================================================================
