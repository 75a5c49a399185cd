--------------------------- MODULE MCPageDocuments --------------------------
(***************************************************************************)
(* Instances of PageDocuments and what must hold of them.                  *)
(***************************************************************************)
EXTENDS PageDocuments

MCModems == <<"m1">>
MCTargets == <<"wan">>
MCSection == [m \in {"m1"} |-> "wan"]
MCAttached == {"m1"}
-----------------------------------------------------------------------------
\* The page does not turn into a refresh loop: once the router is at rest and
\* nobody presses anything, the chains of documents end, although every refresh
\* sets the flags that start the next.  (refreshAction, refreshHardwareGeneration.)
PageComesToRest == <>[](\A c \in Chains : ~Reading(c))

\* Controls that startAction, startModemAction or a render disabled are enabled
\* again, whatever was lost on the way, unless a redraw was withheld from a form that was
\* being edited and none came after it.
ControlsComeBack == disabled # {} ~> disabled = {} \/ flags.withheld = "now"

\* Hardware that comes or goes once the page is filled is on the screen, or gone
\* from it, unless two chains of documents overlap or a read fails.
Shown == {s[2] : s \in {x \in screen.cards : x[1] = "modem"}}
HardwareIsShown ==
    <>[](used.early \/ used.overlap \/ used.failed \/ NotDrawn \/ Shown = router.attached)

\* Once an operation of the engine that this page launched has ended, what the
\* screen shows of the targets was read after it, even when it ended before a poll
\* saw it run, unless two chains of documents overlap, a read fails, or a redraw was
\* withheld: the one that would have set engineBusy again may be among those.
ResultsAreShown ==
    <>[](\/ used.elsewhere \/ used.overlap \/ used.failed \/ NotDrawn
         \/ flags.withheld # "never"
         \/ \A t \in TargetSet : t \in DOMAIN screen.statuses /\ screen.statuses[t] = router.version)
=============================================================================
