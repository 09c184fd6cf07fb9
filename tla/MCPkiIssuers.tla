---------------------------- MODULE MCPkiIssuers ----------------------------
(* Two configured issuers with CA files, the default deployment without,   *)
(* an issuer made by hand for the CA of the process, and one made by hand  *)
(* with another CA before it is configured (as the stage 8 test does).     *)
EXTENDS PkiIssuers, TLC

CONSTANTS a, b, x, f, g, h

MCDeployment == {[active |-> a, previous |-> {},  ca |-> f],
                 [active |-> b, previous |-> {a}, ca |-> g],
                 [active |-> a, previous |-> {},  ca |-> Own]}

MCCreate == {[issuer |-> Configured, ca |-> Own],
             [issuer |-> x, ca |-> Own],
             [issuer |-> b, ca |-> h]}

Symmetry == Permutations(Request)
=============================================================================
