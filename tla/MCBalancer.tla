----------------------------- MODULE MCBalancer -----------------------------
(* Instances of Balancer for TLC.                                          *)
EXTENDS Balancer

MCBackends == <<1, 2, 3>>
=============================================================================
