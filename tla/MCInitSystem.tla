---------------------------- MODULE MCInitSystem ----------------------------
(***************************************************************************)
(* The init system alone, over the services of LoadedServices.             *)
(***************************************************************************)
EXTENDS InitSystem, LoadedServices
=============================================================================
