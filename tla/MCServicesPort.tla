--------------------------- MODULE MCServicesPort ---------------------------
(* The services port for TLC; the .cfg files give the bounds. *)
EXTENDS ServicesPort
=============================================================================
