------------------------------- MODULE MCBringUp -------------------------------
(***************************************************************************)
(* BringUp for TLC.  A plain clone is checked under both orphan policies, a *)
(* boot and a Windows clone under one each: what differs between the kinds  *)
(* is the tail, and no tail reads the policy.                               *)
(***************************************************************************)
EXTENDS BringUp

MCSetups == {[kind |-> "clone", policy |-> "destroy"],
             [kind |-> "clone", policy |-> "keep"],
             [kind |-> "boot", policy |-> "destroy"],
             [kind |-> "windows", policy |-> "keep"]}
================================================================================
