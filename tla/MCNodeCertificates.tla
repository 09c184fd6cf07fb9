------------------------ MODULE MCNodeCertificates ------------------------
(* NodeCertificates on a small instance: two nodes, so that a sweep has    *)
(* more than one certificate to renew, and time for one to expire.         *)
EXTENDS NodeCertificates, TLC
===========================================================================
