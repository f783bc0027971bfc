------------------------------ MODULE MCSEDiff ------------------------------
(* Three hashes, up to three paths per run (so that two paths of a run may *)
(* have one hash), and one other run of KLEE at any time.                  *)
EXTENDS SEDiff

MCHashes == 1..3
MCOtherFiles == {<<>>, <<2>>}
=============================================================================
