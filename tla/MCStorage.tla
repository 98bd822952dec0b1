----------------------------- MODULE MCStorage -----------------------------
(***************************************************************************)
(* Blocks of two sectors, three of them for metadata, and a partition that *)
(* starts at sector 2.  The disks end before the partition, inside its     *)
(* metadata or behind it; the partitions of the tables tried are too small *)
(* for a format, just large enough and larger.                             *)
(***************************************************************************)
EXTENDS Storage
=============================================================================
