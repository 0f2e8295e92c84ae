---------------------------- MODULE MCWritePool ----------------------------
(* A small pool for TLC: one item with more stacks than slots, one of them *)
(* of a language that may be unregistered; values are operation numbers.   *)
EXTENDS WritePoolClient

CONSTANTS i1, i2

MCValues == 0 .. MaxOps
=============================================================================
