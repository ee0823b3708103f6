--------------------------- MODULE MCCacheAccess ---------------------------
(***************************************************************************)
(* The cache and its lock, used by a small set of threads.                 *)
(***************************************************************************)
EXTENDS CacheAccess
=============================================================================
