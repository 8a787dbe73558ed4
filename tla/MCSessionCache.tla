--------------------------- MODULE MCSessionCache ---------------------------
(* Two threads, two peers, two session blobs, and a clock that outlives    *)
(* the short time to live.                                                 *)
EXTENDS SessionCache

CONSTANTS t1, t2, k1, k2, d1, d2
=============================================================================
