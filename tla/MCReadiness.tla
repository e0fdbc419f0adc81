------------------------------ MODULE MCReadiness ------------------------------
(***************************************************************************)
(* Instances of Readiness: two that publish statuses, one while guests come*)
(* and go and pushes fail and one across an eviction, and two that leave   *)
(* the statuses out and have more incarnations, VMs and agents meet.       *)
(***************************************************************************)
EXTENDS Readiness

CONSTANT a1, a2

MCSetups ==
    {[uids |-> 1, vms |-> 1, flips |-> 2, agents |-> Agents,
      faults |-> {"boot", "noip", "patch", "drop", "evict", "delete", "restart"}],
     [uids |-> 2, vms |-> 2, flips |-> 0, agents |-> {a1},
      faults |-> {"evict"}],
     [uids |-> 2, vms |-> 2, flips |-> 0, agents |-> Agents,
      faults |-> {"evict", "user", "delete", "silent"}],
     [uids |-> 2, vms |-> 2, flips |-> 0, agents |-> Agents,
      faults |-> {"boot", "evict", "delete", "hibernate", "silent"}]}
================================================================================
