--------------------------- MODULE MCSubscriptions ---------------------------
(* Subscriptions with a page of two rows.  One handler: handlers only read, *)
(* so that none can tell whether another is in flight.                      *)
EXTENDS Subscriptions

MCKind == [k \in Key |-> IF k = 2 THEN "other" ELSE "uuid"]
=============================================================================
