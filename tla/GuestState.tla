------------------------------ MODULE GuestState ------------------------------
(***************************************************************************)
(* What hibernation promises a user: the memory and disk of the guest with *)
(* one VM name.  The guest is absent, live, or asleep; putting it to sleep *)
(* fixes the state it wakes up with, and only the release of its pod may   *)
(* take a live guest away.  Hibernation implements this specification.     *)
(***************************************************************************)
EXTENDS Naturals

CONSTANT MaxVer     \* bound: states a guest goes through

VARIABLES
    mode,       \* "absent", "live" or "asleep"
    ver,        \* the state: 0 when absent, 1 after a first boot
    kept        \* the user holds a pod with the name that is not being deleted

gvars == <<mode, ver, kept>>

Init == mode = "absent" /\ ver = 0 /\ kept = FALSE

\* No state is owed: the guest starts from its image, or from a snapshot that
\* was never discarded.
Boot ==
    /\ mode = "absent"
    /\ mode' = "live"
    /\ ver' \in 1..MaxVer
    /\ UNCHANGED kept

Run ==
    /\ mode = "live"
    /\ mode' = mode
    /\ ver' \in (ver + 1)..MaxVer
    /\ UNCHANGED kept

\* The saved state is that of a moment of the hibernation: what the guest does
\* between the save and its removal is given up.
Sleep ==
    /\ mode = "live"
    /\ mode' = "asleep"
    /\ ver' \in 1..ver
    /\ UNCHANGED kept

Wake ==
    /\ mode = "asleep"
    /\ mode' = "live"
    /\ UNCHANGED <<ver, kept>>

\* The pod comes or goes.
Hold ==
    /\ kept' = ~kept
    /\ UNCHANGED <<mode, ver>>

Discard ==
    /\ ~kept
    /\ mode # "absent"
    /\ mode' = "absent"
    /\ ver' = 0
    /\ UNCHANGED kept

Next == Boot \/ Run \/ Sleep \/ Wake \/ Hold \/ Discard

Spec == Init /\ [][Next]_gvars
===============================================================================
