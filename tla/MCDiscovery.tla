---------------------------- MODULE MCDiscovery ----------------------------
(* An instance of DynamicClient: two instances of a service and up to two goroutines that    *)
(* call it.                                                                                  *)
EXTENDS DynamicClient
=============================================================================
