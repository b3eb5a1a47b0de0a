----------------------------- MODULE MCAllocator -----------------------------
(* A small memory for Allocator, whose table is followed by zeroes. *)
EXTENDS Allocator

Zeroed == {Unused}
=============================================================================
