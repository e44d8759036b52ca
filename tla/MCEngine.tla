------------------------------ MODULE MCEngine ------------------------------
(* Small instances of Engine for TLC.                                      *)
EXTENDS Engine

CONSTANTS c1, c2, k1, k2

MCClientsOne == {c1}
MCClientsTwo == {c1, c2}
MCKeysOne == {k1}
MCKeysTwo == {k1, k2}
=============================================================================
