---------------------------- MODULE MCRegenPipeline ----------------------------
(* Two units.                                                                  *)
EXTENDS RegenPipeline

CONSTANTS u1, u2

MCUnits == {u1, u2}
=============================================================================
