-------------------------- MODULE MCRollingWindow --------------------------
(* An instance of RollingWindow for TLC: three buckets of two ticks, from  *)
(* a Window of seven that the buckets do not divide.                       *)
EXTENDS RollingWindow

MCSettings ==
    [Window |-> 7, Buckets |-> 3, MinRequests |-> 2, OpenTimeout |-> 2,
     HalfOpenMax |-> 1, FailureRatio |-> [num |-> 2, den |-> 3]]
=============================================================================
