---------------------------- MODULE MCRateLimiter ----------------------------
(* The bucket of an address, one token a minute, and the hourly ceiling of  *)
(* an installation, two in an hour of six.                                  *)
EXTENDS RateLimiter

MCLimit == [k \in Keys |-> IF k = "hour" THEN 2 ELSE 1]
MCWindow == [k \in Keys |-> IF k = "hour" THEN 6 ELSE 1]
=============================================================================
