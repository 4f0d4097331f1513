---------------------------- MODULE MCLunImages ----------------------------
(* LunImages for TLC: the constants are given in the .cfg files.           *)
EXTENDS LunImages
=============================================================================
