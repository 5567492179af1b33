---------------------------- MODULE MCEpollServer ----------------------------
(* Small instances of EpollServer; clients are interchangeable.             *)
EXTENDS EpollServer, TLC

Symmetry == Permutations(Clients)
==============================================================================
