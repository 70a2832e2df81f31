------------------------------ MODULE PoolSet ------------------------------
(* The configured pools, as the parts of the process share them.           *)

CONSTANT Pools      \* the names in config.Pools
=============================================================================
