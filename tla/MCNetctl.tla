------------------------------ MODULE MCNetctl ------------------------------
(***************************************************************************)
(* A plan for Netctl: on the first router a session with an interface of   *)
(* its own and two for one resource, on the second a telemetry export.     *)
(***************************************************************************)
EXTENDS Netctl, TLC

CONSTANTS s1, s2, s3, s4, srl1, srl2, c1, c2

On(kind, device, port) == [kind |-> kind, device |-> device, ingress_if |-> port]

TwoRouters == <<srl1, srl2>>

MCPlan == (s1 :> On("bandwidth", srl1, 1) @@ s2 :> On("bandwidth", srl1, 2)
             @@ s3 :> On("bandwidth", srl1, 2) @@ s4 :> On("telemetry", srl2, 0))

Symmetry == Permutations(Callers) \cup Permutations({s2, s3})
=============================================================================
