--------------------------- MODULE MCPageControls ---------------------------
(***************************************************************************)
(* Routers for PageControls: one modem in each of the conditions that      *)
(* matter, beside a second one or the interface it left behind, read from  *)
(* packages old and new.                                                   *)
(***************************************************************************)
EXTENDS PageControls

MCModems == {"m1", "m2"}
MCSections == {"wan1", "wan2"}
MCSection == [m \in MCModems |-> IF m = "m1" THEN "wan1" ELSE "wan2"]

Ordinary(setup) ==
    [attached |-> TRUE, setup |-> setup, ambiguous |-> FALSE, conflicting |-> FALSE,
     known |-> TRUE, strong |-> TRUE, baseline |-> TRUE, reset |-> TRUE]

\* The condition of the first modem.
MCModemStates ==
    {Ordinary(setup) : setup \in Setups}
    \cup {[Ordinary(setup) EXCEPT !.known = FALSE, !.strong = FALSE] :
             setup \in {"external", "created", "adopted"}}
    \cup {[Ordinary("adopted") EXCEPT !.baseline = FALSE, !.reset = FALSE],
          [Ordinary("created") EXCEPT !.conflicting = TRUE],
          [Ordinary("created") EXCEPT !.ambiguous = TRUE],
          [Ordinary("external") EXCEPT !.attached = FALSE]}

MCAlone == [Ordinary("none") EXCEPT !.attached = FALSE]

\* Beside it: another it cannot be told from, another with an interface, or none.
MCSecond(one) ==
    IF one.ambiguous THEN [Ordinary("none") EXCEPT !.ambiguous = TRUE]
    ELSE IF one = Ordinary("adopted") THEN Ordinary("staged") ELSE MCAlone

MCUp == [up |-> TRUE, intent |-> "auto", managed |-> TRUE, apply |-> TRUE, roaming |-> TRUE,
         policy |-> "allow", current |-> TRUE]

\* Its connection: up, or, when its identity is not the recorded one, failed or not wanted.
MCConnection(one) ==
    IF one.known THEN MCUp
    ELSE IF one.setup = "created"
      THEN [MCUp EXCEPT !.up = FALSE, !.intent = "up", !.current = FALSE, !.policy = "custom"]
    ELSE IF one.setup = "external"
      THEN [MCUp EXCEPT !.intent = "down", !.apply = FALSE, !.managed = FALSE]
    ELSE [MCUp EXCEPT !.up = FALSE]

MCRouter(one, silent) ==
    [modem |-> [m \in MCModems |-> IF m = "m1" THEN one
                                   ELSE IF silent = {} THEN MCSecond(one) ELSE MCAlone],
     connection |-> [s \in MCSections |-> IF s = "wan1" THEN MCConnection(one) ELSE MCUp],
     silent |-> silent, update |-> TRUE]

\* What is not published is what would have been refused.
MCSilent ==
    {<<[Ordinary("adopted") EXCEPT !.conflicting = TRUE], {"bearer", "origin"}>>,
     <<[Ordinary("external") EXCEPT !.strong = FALSE], {"adoption"}>>,
     <<[Ordinary("adopted") EXCEPT !.baseline = FALSE], {"adoption"}>>,
     <<[Ordinary("created") EXCEPT !.conflicting = TRUE], {"verdict"}>>,
     <<[Ordinary("created") EXCEPT !.reset = FALSE], {"reset", "capabilities"}>>}

MCRouters ==
    {MCRouter(one, {}) : one \in MCModemStates}
    \cup {MCRouter(case[1], case[2]) : case \in MCSilent}
=============================================================================
