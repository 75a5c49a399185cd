------------------------------- MODULE Consent ------------------------------
(***************************************************************************)
(* What the page promises before it changes the router: an operation is    *)
(* sent once for each time a dialog that names it was open and confirmed,  *)
(* and no other operation is sent by it.                                   *)
(***************************************************************************)
EXTENDS Naturals

CONSTANTS Operations, Nothing

VARIABLES
    asked,    \* the operation the open dialog names
    last,     \* the last operation sent
    count     \* how many were

vars == <<asked, last, count>>

TypeOK == {asked, last} \subseteq Operations \cup {Nothing} /\ count \in Nat
-----------------------------------------------------------------------------
Init == asked = Nothing /\ last = Nothing /\ count = 0

\* A dialog opens; one that was open is replaced.
Ask == asked' \in Operations /\ UNCHANGED <<last, count>>

Withdraw == asked' = Nothing /\ UNCHANGED <<last, count>>

Confirm ==
    /\ asked # Nothing
    /\ last' = asked /\ count' = count + 1
    /\ asked' = Nothing

Next == Ask \/ Withdraw \/ Confirm

Spec == Init /\ [][Next]_vars
=============================================================================
