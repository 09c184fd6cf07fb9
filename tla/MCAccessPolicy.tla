--------------------------- MODULE MCAccessPolicy ---------------------------
(* Two users who compete for three devices and for keys, under policies    *)
(* that set a limit, take it away, or are not valid.                       *)
EXTENDS AccessPolicy, TLC

MCDevicePolicy == {[quota |-> None, devices |-> None],
                   [quota |-> None, devices |-> 1],
                   [quota |-> None, devices |-> 0]}

MCQuotaPolicy == {[quota |-> None, devices |-> None],
                  [quota |-> 1,    devices |-> None]}

Symmetry == Permutations(Request) \cup Permutations(User) \cup Permutations(Fingerprint)
              \cup Permutations(AccessKey)
=============================================================================
