-------------------------------- MODULE MCApid --------------------------------
(***************************************************************************)
(* Small instances of Apid for TLC.                                        *)
(***************************************************************************)
EXTENDS Apid

CONSTANTS p1, h1, h2

=============================================================================
