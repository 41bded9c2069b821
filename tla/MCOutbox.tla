------------------------------- MODULE MCOutbox -------------------------------
(* Small instances of Outbox.                                              *)
EXTENDS Outbox, TLC

RelaySymmetry == Permutations(Relays)
===============================================================================
