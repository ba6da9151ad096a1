---------------------------- MODULE MCCallSites ----------------------------
(***************************************************************************)
(* CallSites on programs of a few calls; the values are in the .cfg files. *)
(***************************************************************************)
EXTENDS CallSites
=============================================================================
