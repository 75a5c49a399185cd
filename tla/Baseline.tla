------------------------------ MODULE Baseline ------------------------------
(***************************************************************************)
(* What `apply', `reconcile' and `reset' promise together about the mobile *)
(* profile of one network section: the profile the user had before the     *)
(* first trial can always be brought back.  A trial is only ever written   *)
(* over a profile that has been saved, and the saved copy is only dropped  *)
(* once the section holds it again.                                        *)
(***************************************************************************)
CONSTANTS
    Config,    \* profiles a network section can hold
    NoProfile  \* no baseline file

VARIABLES
    cfg,       \* the profile committed in the section
    baseline,  \* the saved copy
    origin     \* the profile the user chose, not the engine

bvars == <<cfg, baseline, origin>>

Init ==
    /\ cfg \in Config
    /\ baseline = NoProfile
    /\ origin = cfg

\* The user edits the section; under a baseline the edit is part of the trial.
Edit(c) ==
    /\ cfg' = c
    /\ origin' = IF baseline = NoProfile THEN c ELSE origin
    /\ UNCHANGED baseline

Save ==
    /\ baseline = NoProfile
    /\ baseline' = cfg
    /\ UNCHANGED <<cfg, origin>>

Write(c) ==
    /\ baseline # NoProfile
    /\ cfg' = c
    /\ UNCHANGED <<baseline, origin>>

Drop ==
    /\ baseline # NoProfile
    /\ cfg = baseline
    /\ baseline' = NoProfile
    /\ UNCHANGED <<cfg, origin>>

Next == Save \/ Drop \/ \E c \in Config : Edit(c) \/ Write(c)

Spec == Init /\ [][Next]_bvars

\* The user's own profile is either still configured or saved in full.
OriginRecoverable ==
    IF baseline = NoProfile THEN cfg = origin ELSE baseline = origin
=============================================================================
