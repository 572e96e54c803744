-------------------------- MODULE MCManagedServices --------------------------
(***************************************************************************)
(* Two services, and one ordinary stage before or after they are started.  *)
(***************************************************************************)
EXTENDS ManagedServices
=============================================================================
