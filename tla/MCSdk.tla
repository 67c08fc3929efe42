-------------------------------- MODULE MCSdk ---------------------------------
(* Small instances of Sdk for TLC.                                          *)
EXTENDS Sdk

CONSTANTS a1, a2
===============================================================================
