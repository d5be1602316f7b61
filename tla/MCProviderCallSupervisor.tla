----------------------- MODULE MCProviderCallSupervisor -----------------------
(* Three calls compete for two slots.                                      *)
EXTENDS ProviderCallSupervisor
===============================================================================
