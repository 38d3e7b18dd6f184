------------------------------ MODULE DmaReads ------------------------------
(***************************************************************************)
(* What the PCIe SS emulator promises an AFU that reads host memory: every *)
(* read is answered with exactly the data words it asked for, never more,  *)
(* and, where the emulator is configured to keep completions in order, the *)
(* reads are answered in the order in which they were made.                *)
(***************************************************************************)
EXTENDS Integers, Sequences

CONSTANTS InOrder,    \* ordered_completions
          Lens,       \* lengths of the reads
          NumReads    \* bound: reads in a behaviour

VARIABLES want,       \* lengths of the reads made so far
          got         \* words received, per read

Finished(n) == n <= Len(want) /\ got[n] = want[n]

Init == want = << >> /\ got = [n \in 1 .. NumReads |-> 0]

Ask == /\ Len(want) < NumReads
       /\ \E len \in Lens : want' = Append(want, len)
       /\ UNCHANGED got

\* A beat carries some of the missing words of one read.
Give(n) == /\ n <= Len(want)
           /\ InOrder => \A m \in 1 .. n - 1 : Finished(m)
           /\ \E k \in got[n] + 1 .. want[n] : got' = [got EXCEPT ![n] = k]
           /\ UNCHANGED want

Next == Ask \/ \E n \in 1 .. NumReads : Give(n)

Spec == Init /\ [][Next]_<<want, got>>
=============================================================================
