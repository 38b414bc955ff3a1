------------------------------ MODULE MCWallet ------------------------------
(* Wallet for TLC: two users, one outside address.                         *)
EXTENDS Wallet, SequencesExt

CONSTANTS u1, u2, reserves, outside

MCUsers == {u1, u2}

\* u1 has thirteen coins of 1, so that emptying its address costs two standard
\* fees; u2 has less than the standard fee, and with a tip more exactly what a
\* tip costs, so that its change would be dust; the reserves can pay two
\* deposits and not a third.
MCSeed ==
  [i \in 1 .. 13 |-> [addr |-> u1, amt |-> 1]]
    \o <<[addr |-> u2, amt |-> 1], [addr |-> reserves, amt |-> 15]>>
=============================================================================
