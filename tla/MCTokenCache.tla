---------------------------- MODULE MCTokenCache ----------------------------
(* A small instance of TokenCache for TLC.                                 *)
EXTENDS TokenCacheProperties

MCLifetimes == {0, 1, NoExpiry}
==============================================================================
