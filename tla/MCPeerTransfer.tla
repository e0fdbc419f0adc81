---------------------------- MODULE MCPeerTransfer ----------------------------
(* The instance of PeerTransfer that TLC checks.                           *)
EXTENDS PeerTransfer

\* Two streams of one slice; one stream of two slices with sections; three slices queueing.
MCTunings ==
    {[gap |-> 1, limit |-> 2, section |-> 2, skip |-> 2, perFile |-> 2, concurrency |-> 2],
     [gap |-> 0, limit |-> 3, section |-> 2, skip |-> 1, perFile |-> 1, concurrency |-> 1],
     [gap |-> 1, limit |-> 1, section |-> 1, skip |-> 1, perFile |-> 2, concurrency |-> 1]}
================================================================================
