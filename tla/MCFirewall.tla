----------------------------- MODULE MCFirewall -----------------------------
(* Two addresses, whose bans come and go.                                  *)
EXTENDS Firewall, TLC

Symmetry == Permutations(Addresses)
=============================================================================
