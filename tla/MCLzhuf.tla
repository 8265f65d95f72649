------------------------------ MODULE MCLzhuf ------------------------------
(* A window of 16 bytes over two letters. The long first text leaves a node *)
(* with two deep children to be deleted when the window has moved past it.  *)
EXTENDS Lzhuf

MCStarts == {<<0, 1, 0, 0, 0, 1, 1, 1, 1, 1, 1, 1>>}
=============================================================================
