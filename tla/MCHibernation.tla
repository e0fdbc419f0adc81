----------------------------- MODULE MCHibernation -----------------------------
(* The deployments of Hibernation that TLC checks.                         *)
EXTENDS Hibernation

CONSTANTS n1, n2

Setup(nodes, registry, destroy, faults, vers, vms) ==
    [nodes |-> nodes, registry |-> registry, destroy |-> destroy, faults |-> faults,
     vers |-> vers, vms |-> vms]

MCNodes == {n1, n2}

\* Two nodes, with more saves and with more VMs; one node with every step failing; no
\* registry; and no crash.
MCSetups ==
    {Setup({n1, n2}, TRUE, TRUE, {"crash", "remove"}, 2, 2),
     Setup({n1, n2}, TRUE, TRUE, {"crash", "remove"}, 1, 3),
     Setup({n1}, TRUE, TRUE, {"crash", "registry", "save", "clone", "remove"}, 2, 2),
     Setup({n1}, FALSE, FALSE, FaultKinds, 3, 3),
     Setup({n1}, TRUE, TRUE, FaultKinds \ {"crash", "halfremove"}, 2, 2)}

MCRestart == {Setup({n1}, TRUE, TRUE, {"crash"}, 2, 2)}
================================================================================
