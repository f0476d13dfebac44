--------------------------- MODULE MCConfigStore ---------------------------
(* Two settings, one of which is the factory default. *)
EXTENDS ConfigStore

CONSTANTS factory, site
=============================================================================
