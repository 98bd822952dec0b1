------------------------------- MODULE MCAta -------------------------------
(***************************************************************************)
(* The ATA driver against a drive with twelve sectors.  The LBAs tried are *)
(* 0101 and 1011 in the four ports, so each port is different from 0 in    *)
(* one of them, and 12, the first beyond the end.  When a busy drive has   *)
(* missed some of the ports, what it is left with is a third sector or an  *)
(* LBA it does not have.                                                   *)
(***************************************************************************)
EXTENDS Ata
=============================================================================
