----------------------------- MODULE MCContext -----------------------------
(***************************************************************************)
(* The register and stack model with a few processes.  In MCContext.cfg    *)
(* one of three makes system calls; in MCContextCalls.cfg two do.          *)
(***************************************************************************)
EXTENDS Context
=============================================================================
