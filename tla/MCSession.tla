------------------------------ MODULE MCSession ------------------------------
(* Instances of Session: processes are strings, given in the .cfg files. *)
EXTENDS Session

\* Two applications that got in at once are not followed further: every property
\* of the run is about behaviours without that race.
NoRace == ~raced
==============================================================================
