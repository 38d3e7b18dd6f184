------------------------------ MODULE MCPcieSs ------------------------------
(* Model checking of PcieSsStream: the constants are given in the .cfg files. *)
EXTENDS PcieSsStream

Len2 == {2}
Len3 == {3}
Mmio02 == {0, 2}
Pu == {FALSE}
Mmio2 == {2}
=============================================================================
