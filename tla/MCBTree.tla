------------------------------ MODULE MCBTree ------------------------------
(* Trees of two and of three levels with leaves of two or three small items. *)
EXTENDS BTree

MCSetups ==
    {[ptrs |-> 7, keep |-> 2, leaf |-> 4, head |-> 1, keys |-> 1 .. 7, dir |-> {},
      sizes |-> {1}, calls |-> {}],
     [ptrs |-> 7, keep |-> 2, leaf |-> 6, head |-> 1, keys |-> 1 .. 4, dir |-> {2},
      sizes |-> {1, 3}, calls |-> {"resize", "rekey"}]}
=============================================================================
