------------------------- MODULE MCWebAppInstances -------------------------
(* The instances of WebAppInstances. *)
EXTENDS WebAppInstances
=============================================================================
