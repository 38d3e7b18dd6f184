------------------------------- MODULE MCAxis -------------------------------
(* An instance of AxisStream: beats of one DW, a fence, a single DW with    *)
(* masked bytes at both ends, and a read of three DWs that starts and ends   *)
(* inside a DW.                                                              *)
EXTENDS AxisStream

Shapes == {[len |-> 1, first_be |-> 0, last_be |-> 0],
           [len |-> 1, first_be |-> 6, last_be |-> 0],
           [len |-> 3, first_be |-> 12, last_be |-> 3]}
Len2 == {2}
Mmio == {[kind |-> "read", len |-> 2, slot |-> s] : s \in {0, 1}} \cup
        {[kind |-> "write", len |-> 2, slot |-> s] : s \in {0, 1}} \cup
        {[kind |-> "foreign", len |-> 1, slot |-> 0], [kind |-> "dropped", len |-> 1, slot |-> 0]}
=============================================================================
