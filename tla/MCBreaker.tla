----------------------------- MODULE MCBreaker -----------------------------
(* Instances of Breaker for TLC.                                           *)
EXTENDS Breaker

MCSettings ==
    [Window |-> 2, Buckets |-> 2, MinRequests |-> 1, OpenTimeout |-> 1,
     HalfOpenMax |-> 2, FailureRatio |-> [num |-> 1, den |-> 2]]

\* One bucket: RollingWindow looks at the window.
MCLiveSettings ==
    [Window |-> 1, Buckets |-> 1, MinRequests |-> 1, OpenTimeout |-> 1,
     HalfOpenMax |-> 2, FailureRatio |-> [num |-> 1, den |-> 2]]
=============================================================================
