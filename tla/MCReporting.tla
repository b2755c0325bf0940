---------------------------- MODULE MCReporting ----------------------------
(* Two calls over two campaigns, which they may write in different orders.    *)
(* With a day of one hour the next hour is past midnight, and with two hours  *)
(* after the first one its hashes can expire.                                 *)
EXTENDS Reporting, TLC

CONSTANTS c1, c2

\* The hash of hour 0 grows between two reads and expires; the second day has spend of
\* both campaigns, which two calls may write in different orders.
Traffic == (c1 :> (0 :> 2 @@ 1 :> 1 @@ 2 :> 0)) @@ (c2 :> (0 :> 0 @@ 1 :> 1 @@ 2 :> 0))
=============================================================================
