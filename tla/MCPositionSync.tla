--------------------------- MODULE MCPositionSync ---------------------------
(* An instance of PositionSync for TLC; its constants are in the cfg files. *)
EXTENDS PositionSync
=============================================================================
