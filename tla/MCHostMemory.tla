---------------------------- MODULE MCHostMemory ----------------------------
(* Instances of HostMemory: one index bit, so two 4KB pages in a huge frame. *)
EXTENDS HostMemory, TLC

TwoAfus == ("h1" :> "a1") @@ ("h2" :> "a2")
OneAfu  == ("h1" :> "a1") @@ ("h2" :> "a1")
OneHandle == "h1" :> "a1"
Bit    == {0}
NoIdx  == {{}}
AllIdx == SUBSET Bit
None   == {}
F0     == {0}
F01    == {0, 1}
F9     == {9}
Small  == {0}
Both   == {0, 1}
====
