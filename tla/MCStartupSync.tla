--------------------------- MODULE MCStartupSync ---------------------------
(* A small instance of StartupSync for TLC.                                *)
EXTENDS StartupSync

CONSTANTS u1

Owner == [r \in Rules |-> u1]
===========================================================================
