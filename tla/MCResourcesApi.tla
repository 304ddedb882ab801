--------------------------- MODULE MCResourcesApi ---------------------------
(* ResourcesApi for TLC: two keys and one refresh slot, so that a refresh   *)
(* is shed, in MCResourcesApi.cfg; two requests and two jobs of one key in  *)
(* MCResourcesErrors.cfg.                                                   *)
EXTENDS ResourcesApi
=============================================================================
