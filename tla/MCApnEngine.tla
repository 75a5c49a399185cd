---------------------------- MODULE MCApnEngine -----------------------------
(* Model-checking instances of ApnEngine. *)
EXTENDS ApnEngine, TLC

CONSTANTS a1, a2, s1, s2

\* The first SIM has a dual-stack profile with either authentication and a
\* plain one, the second a plain one of another name.
TwoSims == (s1 :> << [apn |-> a1, auth |-> "pap-or-chap", ip |-> "ipv4v6"],
                     [apn |-> a2, auth |-> "-", ip |-> "-"] >>)
        @@ (s2 :> << [apn |-> a2, auth |-> "none", ip |-> "ipv4"] >>)

OneProfile == (s1 :> << [apn |-> a1, auth |-> "-", ip |-> "ipv4"] >>)
           @@ (s2 :> << [apn |-> a2, auth |-> "-", ip |-> "ipv6"] >>)

Perms == Permutations(Proc)

ManualProfile == {[apn |-> a2, auth |-> "pap", ip |-> "ipv4"]}
=============================================================================
