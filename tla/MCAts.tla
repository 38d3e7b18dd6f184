------------------------------- MODULE MCAts -------------------------------
\* Ranges for the model checker, in pages of two bytes: three bytes at an odd
\* page take two chunks of two pages, two bytes take one chunk.
EXTENDS AtsTags
Ranges == [t \in Threads |-> IF t = "t1" THEN {<<5, 3>>} ELSE {<<6, 2>>}]

\* The AFU that asks for translations is the first one.
FirstAfu == [p \in AtcPages |-> 0]
=============================================================================
