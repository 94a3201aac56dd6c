------------------------ MODULE MCCriticalSections ------------------------
(* Two different bytes, so that a lost or repeated byte is seen.             *)
EXTENDS CriticalSections

MCData == {{0}, {1}}
=============================================================================
