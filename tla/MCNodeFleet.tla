---------------------------- MODULE MCNodeFleet ----------------------------
(* NodeFleet with one node that may have two requests in flight: the one   *)
(* it waits for and one it has given up.  Two nodes meet only in the       *)
(* issuers, and SwitchIssuers may change those at any time.                *)
EXTENDS NodeFleet
=============================================================================
