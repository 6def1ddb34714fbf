------------------------ MODULE MCAttestationService ------------------------
(* A small instance of AttestationService. *)
EXTENDS AttestationService
=============================================================================
