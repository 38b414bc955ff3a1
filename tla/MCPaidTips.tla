----------------------------- MODULE MCPaidTips -----------------------------
(* PaidTips for TLC: one user with money, who favorites a tweet of another.  *)
EXTENDS PaidTips
CONSTANTS alice, t1, r1, r2, a, b, reserves, outside
MCAddress == [u \in {alice} |-> a]
MCAuthor == [t \in {t1} |-> b]
MCSeed == <<[addr |-> a, amt |-> 5], [addr |-> a, amt |-> 4]>>
=============================================================================
