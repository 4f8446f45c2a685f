----------------------------- MODULE MCServices -----------------------------
(* Small instances of the services for TLC.                                *)
EXTENDS Services

MCNumbers == 1 .. 3        \* files in the order of their names
MCSizes == -1 .. 2         \* chunk and batch sizes, legal and not
MCCacheSizes == 0 .. 2

=============================================================================
