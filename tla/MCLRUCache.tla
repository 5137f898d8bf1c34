----------------------------- MODULE MCLRUCache -----------------------------
(* Three keys for two places; two of the larger entries exceed the bytes,  *)
(* and the largest does alone.                                             *)
EXTENDS LRUCache
=============================================================================
