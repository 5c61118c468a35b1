------------------------ MODULE MCWindowRateLimiter ------------------------
(* Two windows of the shape the domeggook client uses: few calls in a short *)
(* period, more in a long one.                                              *)
EXTENDS WindowRateLimiter

CONSTANTS t1, t2, short, long

MCMaxCalls == [i \in {short, long} |-> IF i = short THEN 2 ELSE 3]

MCPeriod == [i \in {short, long} |-> IF i = short THEN 2 ELSE 5]
=============================================================================
