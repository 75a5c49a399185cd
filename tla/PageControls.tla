---------------------------- MODULE PageControls ----------------------------
(***************************************************************************)
(* What the LuCI page lets its user do: the cards it makes of the modems   *)
(* and connections it has read, the controls each area offers or explains  *)
(* the lack of, the dialog a control opens and the operation it sends.     *)
(* How the documents are read, piece by piece, is PageDocuments' matter.   *)
(***************************************************************************)
EXTENDS Naturals, Sequences, FiniteSets

CONSTANTS
    Modems, Sections,
    Section,        \* the interface of each modem
    Routers,        \* the routers the page may be opened on: see RouterType
    Unread, Failed, \* no answer yet; the read failed
    Nothing,
    MaxRequests,    \* bound: operations sent
    MaxMoves        \* bound: refreshes, modems that come or go, and, apart from
                    \* these, moves to another card or area

Setups == {"none", "unsupported", "external", "created", "adopted", "staged"}

ModemType ==
    [attached : BOOLEAN, setup : Setups, ambiguous : BOOLEAN, conflicting : BOOLEAN,
     known : BOOLEAN,      \* its interface was recorded for the identity it has now
     strong : BOOLEAN,     \* identified by a serial number or an IMEI
     baseline : BOOLEAN,   \* the settings saved at adoption are valid
     reset : BOOLEAN]

ConnectionType ==
    [up : BOOLEAN, intent : {"auto", "up", "down"}, managed : BOOLEAN, apply : BOOLEAN,
     roaming : BOOLEAN, policy : {"default", "allow", "block", "custom"}, current : BOOLEAN]

\* What an older version of a package does not publish.
Fields == {"verdict", "bearer", "origin", "adoption", "reset", "capabilities"}

RouterType ==
    [modem : [Modems -> ModemType], connection : [Sections -> ConnectionType],
     silent : SUBSET Fields, update : BOOLEAN]

NoTarget == ""

\* Two modems may have one interface: it names the device of one and was recorded for the
\* identity of the other (netifd_interface_for_record).
ASSUME ControlsAssumption ==
    /\ Section \in [Modems -> Sections]
    /\ NoTarget \notin Sections
    /\ Routers \subseteq RouterType
    /\ {MaxRequests, MaxMoves} \subseteq Nat

VARIABLES
    router,    \* what is really so
    documents, \* what the page has read
    route,     \* area, card and workspace
    screen,    \* what was drawn last: of which documents, and where
    choice,    \* the roaming policy chosen on it and not recorded
    greyed,    \* its controls were disabled by a launch since
    engineBusy,\* the page's own idea of the engine
    dialog,    \* what is open: nothing, the form, or the operation it names
    manual,    \* the form for an APN typed by hand: its card, and the password in it
    launch,    \* the operations whose launch has not been answered
    sent,      \* the operations sent, and the card each was asked for on, but for the
               \* check for an update, which changes nothing
    used       \* of the bounds

page == <<documents, route, screen, choice, greyed, engineBusy>>
vars == <<router, page, dialog, manual, launch, sent, used>>
-----------------------------------------------------------------------------
(* The coordinator: its verdicts, and what its commands accept.            *)

Settled(m) == ~m.ambiguous /\ ~m.conflicting
Owned(m) == m.setup \in {"created", "adopted", "staged"}
Bound(m) == m.setup \notin {"none", "unsupported"}

\* connection_resolve_section, for any verb but disconnect.
Resolved(m) == Settled(m) /\ m.setup \in {"external", "created", "adopted"}

can_provision(m) == Settled(m) /\ m.setup = "none"
already_provisioned(m) == Settled(m) /\ Owned(m)
connection_origin(m) == IF Resolved(m) THEN m.setup ELSE "none"
can_adopt(m) == Resolved(m) /\ m.setup = "external" /\ m.strong
can_release_adoption(m) == Resolved(m) /\ m.setup = "adopted" /\ m.baseline /\ m.known

\* deprovision and release-adoption look for the interface by the identity that was
\* recorded; the verdicts find it by its path too.
Accepts(m, verb) ==
    CASE verb = "provision" -> can_provision(m)
      [] verb = "deprovision" -> m.setup \in {"created", "staged"} /\ m.known
      [] verb = "adopt" -> can_adopt(m)
      [] verb = "release-adoption" -> m.setup = "adopted" /\ m.known /\ m.baseline
      [] verb = "disconnect" -> Settled(m) /\ Bound(m)
      [] OTHER -> Resolved(m)
-----------------------------------------------------------------------------
(* Gates.  An answer is `yes', `no' or, where it is absent, `unknown'.     *)

gate(silent, field, value) ==
    IF field \in silent THEN "unknown" ELSE IF value THEN "yes" ELSE "no"

Read(answer) == answer \notin {Unread, Failed}
-----------------------------------------------------------------------------
(* Documents and cards.                                                    *)

emptyDocuments ==
    [inventory |-> Unread, targets |-> Unread, update |-> Unread,
     status |-> [s \in Sections |-> Unread], running |-> {}, engine |-> FALSE, silent |-> {}]

inventoried(d) == IF Read(d.inventory) THEN DOMAIN d.inventory ELSE {}
listed(d) == IF Read(d.targets) THEN DOMAIN d.targets ELSE {}

\* Mutated form: an ambiguous modem claims its interface.
AmbiguousClaims(d) == {Section[m] : m \in {n \in inventoried(d) : Bound(d.inventory[n])}}

claimed(d) ==
    {Section[m] : m \in {n \in inventoried(d) :
                           Bound(d.inventory[n]) /\ ~d.inventory[n].ambiguous}}

\* buildSubjects: a card for each modem, and for each connection none claims.
buildSubjects(d) ==
    {<<"modem", m>> : m \in inventoried(d)}
    \cup {<<"target", s>> : s \in listed(d) \ claimed(d)}

isModem(x) == x[1] = "modem"
record(d, x) == d.inventory[x[2]]
ambiguous(d, x) == isModem(x) /\ record(d, x).ambiguous

\* Mutated form: an ambiguous modem's card has the status of its connection.
StatusWithoutTarget(d, x) ==
    IF ~isModem(x) THEN d.status[x[2]]
    ELSE IF Bound(record(d, x)) THEN d.status[Section[x[2]]] ELSE Unread

targetId(d, x) ==
    IF ~isModem(x) THEN x[2]
    ELSE IF Bound(record(d, x)) /\ ~ambiguous(d, x) THEN Section[x[2]] ELSE NoTarget

status(d, x) == IF targetId(d, x) = NoTarget THEN Unread ELSE d.status[targetId(d, x)]

statusPending(d, x) == targetId(d, x) # NoTarget /\ status(d, x) = Unread

managedTargets(d) == {s \in listed(d) : d.targets[s]}

targetGate(d, x, value) ==
    IF Read(status(d, x)) THEN gate(d.silent, "capabilities", value) ELSE "unknown"

apply(d, x) == targetGate(d, x, Read(status(d, x)) /\ status(d, x).apply)

roaming(d, x) == targetGate(d, x, Read(status(d, x)) /\ status(d, x).roaming)

running(d, x) == isModem(x) /\ x[2] \in d.running

subjectBusy(d, x) == d.engine \/ running(d, x)
-----------------------------------------------------------------------------
(* Controls.  An area is the operations it offers: a verb, and the modem   *)
(* or the target it is sent for.                                           *)

On(verbs, on) == {<<verb, on>> : verb \in verbs}

\* connectionState, in the order the code decides: its primary and other verbs.
connectionState(d, x) ==
    LET s == status(d, x)
        up == Read(s) /\ s.up
        intent == IF Read(s) THEN s.intent ELSE "auto"
        bearer == gate(d.silent, "bearer", Resolved(record(d, x)))
        State(key, primary, secondary) == [key |-> key, primary |-> primary, secondary |-> secondary]
    IN  IF ambiguous(d, x) THEN State("ambiguous", {}, {})
        ELSE IF ~isModem(x) THEN State("hardware-absent", {}, {})
        ELSE IF "verdict" \in d.silent THEN State("plan-unknown", {}, {})
        ELSE IF can_provision(record(d, x)) THEN State("unprovisioned", {"provision"}, {})
        ELSE IF bearer # "yes" THEN State("bearer-refused-or-unknown", {}, {})
        ELSE IF up /\ intent # "down" THEN State("connected", {"disconnect"}, {"reconnect"})
        ELSE IF up THEN State("connected-unwanted", {"disconnect"}, {})
        ELSE IF intent = "up" THEN State("failed", {"reconnect"}, {"disconnect"})
        ELSE State("not-connected", {"connect"}, {})

\* cardNode: one primary action, unless an operation runs, and Check now for a
\* result that is not current.
cardNode(d, x) ==
    LET id == targetId(d, x)
        check == /\ Read(status(d, x)) /\ ~status(d, x).current /\ apply(d, x) = "yes"
                 /\ id \in listed(d) => id \in managedTargets(d)
    IN  (IF running(d, x) THEN {} ELSE On(connectionState(d, x).primary, x[2]))
        \cup (IF check THEN {<<"reconcile", id>>} ELSE {})

\* adoptionNodes: nothing unless the origin is published.
adoptionNodes(d, x) ==
    LET m == record(d, x)
        yes(value) == gate(d.silent, "adoption", value) = "yes"
    IN  IF ~isModem(x) \/ d.silent \cap {"verdict", "origin"} # {} THEN {}
        ELSE {o \in On({"release-adoption", "adopt"}, x[2]) :
                 \/ o[1] = "release-adoption" /\ connection_origin(m) = "adopted"
                    /\ yes(can_release_adoption(m))
                 \/ o[1] = "adopt" /\ connection_origin(m) = "external" /\ yes(can_adopt(m))}

connectionAreaNodes(d, x) ==
    LET state == connectionState(d, x)
    IN  On(state.primary \cup state.secondary, x[2]) \cup adoptionNodes(d, x)

Policies == {"default", "allow", "block"}
SetPolicy == [default |-> "roaming-default", allow |-> "roaming-allow", block |-> "roaming-block"]

\* policyValue: a pair of options that is none of the policies is not taken for one.
policyValue(s) == s.policy

\* apnAreaNodes and roamingNodes: Apply is drawn once a policy has been chosen.
apnAreaNodes(d, x, chosen) ==
    IF ~Read(status(d, x)) THEN {}
    ELSE (IF apply(d, x) = "yes" /\ targetId(d, x) # NoTarget
            THEN On({"reconcile", "apply-manual"}, targetId(d, x)) ELSE {})
         \cup (IF roaming(d, x) = "yes" /\ chosen \in Policies
                 THEN {<<SetPolicy[chosen], targetId(d, x)>>} ELSE {})

\* Mutated form: what this package owns may be removed.
OwnedMayGo(d, x) ==
    LET m == record(d, x)
    IN  IF ~isModem(x) \/ ambiguous(d, x) \/ "verdict" \in d.silent THEN {}
        ELSE IF can_provision(m) THEN {<<"provision", x[2]>>}
        ELSE IF already_provisioned(m) THEN {<<"deprovision", x[2]>>} ELSE {}

\* modemAreaNodes, besides the restart: only what was created may be removed.
provisionNodes(d, x) ==
    LET m == record(d, x)
    IN  IF ~isModem(x) \/ ambiguous(d, x) \/ "verdict" \in d.silent THEN {}
        ELSE IF can_provision(m) THEN {<<"provision", x[2]>>}
        ELSE {o \in {<<"deprovision", x[2]>>} :
                 /\ already_provisioned(m)
                 /\ "origin" \notin d.silent /\ connection_origin(m) = "created"}

resetNodes(d, x) ==
    {o \in {<<"modem-reset", targetId(d, x)>>} :
        /\ isModem(x) /\ ~ambiguous(d, x) /\ targetId(d, x) # NoTarget
        /\ gate(d.silent, "reset", record(d, x).reset) = "yes"}

\* areaNodes, of the card whose workspace is open.
areaNodes(d, r, chosen) ==
    LET x == r.subject
    IN  IF r.workspace = "modem" THEN provisionNodes(d, x) \cup resetNodes(d, x)
        ELSE IF statusPending(d, x) THEN {}
        ELSE IF r.workspace = "apn" THEN apnAreaNodes(d, x, chosen)
        ELSE connectionAreaNodes(d, x)

\* overviewNodes: the check of every target, unless the only card is all there is.
overviewNodes(d, r) ==
    {o \in {<<"reconcile", NoTarget>>} :
        managedTargets(d) # {} /\ (r.expanded \/ Cardinality(buildSubjects(d)) > 1)}

databaseNodes(d) ==
    {o \in On({"database-check", "database-install"}, NoTarget) :
        Read(d.update) /\ (o[1] = "database-install" => d.update)}

RouterScope == <<"router">>

\* Every control drawn, and the card it belongs to.
Controls ==
    LET d == screen.documents
        r == screen.route
    IN  IF r.area = "database" THEN {<<o, RouterScope>> : o \in databaseNodes(d)}
        ELSE {<<o, RouterScope>> : o \in overviewNodes(d, r)}
             \cup (UNION {{<<o, x>> : o \in cardNode(d, x)} : x \in buildSubjects(d)})
             \cup (IF r.subject \in buildSubjects(d)
                     THEN {<<o, r.subject>> : o \in areaNodes(d, r, choice)} ELSE {})

anySubjectBusy(d) == d.engine \/ \E x \in buildSubjects(d) : running(d, x)

Disabled(control) ==
    LET d == screen.documents
        x == control[2]
    IN  greyed \/ (IF control[1][1] \in {"database-check", "database-install"} THEN d.engine
                   ELSE IF x = RouterScope THEN anySubjectBusy(d) ELSE subjectBusy(d, x))
-----------------------------------------------------------------------------
(* Reading and drawing.                                                    *)

Listed == {Section[m] : m \in {n \in Modems : Bound(router.modem[n])}}

\* The documents of the router as it is, but for a read that failed, if any.
Answers(fail, runs, engine) ==
    [inventory |-> IF fail = "inventory" THEN Failed
                   ELSE [m \in {n \in Modems : router.modem[n].attached} |-> router.modem[m]],
     targets |-> IF fail = "targets" THEN Failed
                 ELSE [s \in Listed |-> router.connection[s].managed],
     update |-> IF fail = "update" THEN Failed ELSE router.update,
     status |-> [s \in Sections |-> Unread],
     running |-> IF fail = "inventory" THEN {} ELSE runs,
     engine |-> engine, silent |-> router.silent]

WithStatuses(d) ==
    [d EXCEPT !.status = [s \in Sections |-> IF s \in listed(d) THEN router.connection[s] ELSE Unread]]

\* The documents as a reading may find them: one read failed, or one operation runs.
Readings ==
    {Answers(fail, {}, FALSE) : fail \in {"none", "inventory", "targets", "update"}}
    \cup {Answers("none", {}, TRUE)}
    \cup {Answers("none", {m}, FALSE) : m \in {n \in Modems : router.modem[n].attached}}

\* Mutated form: a card that has gone stays open.
CardKept(r, d) ==
    LET x == buildSubjects(d)
    IN  [r EXCEPT !.subject = IF @ = <<>> /\ r.area = "overview" /\ Cardinality(x) = 1
                                THEN CHOOSE y \in x : TRUE ELSE @]

normaliseRoute(r, d) ==
    LET x == buildSubjects(d)
    IN  [r EXCEPT !.subject = IF @ \in x THEN @
                              ELSE IF r.area = "overview" /\ Cardinality(x) = 1
                                THEN CHOOSE y \in x : TRUE ELSE <<>>]

renderRoute(d, r) ==
    /\ screen' = [documents |-> d, route |-> r]
    /\ choice' = Nothing
    /\ greyed' = d.engine /\ engineBusy' = d.engine

\* `if (!self.userEditing) self.renderRoute()'
Redraw(d, r) ==
    IF choice = Nothing THEN renderRoute(d, r)
    ELSE UNCHANGED <<screen, choice, greyed, engineBusy>>

Take(d) ==
    /\ documents' = d
    /\ route' = normaliseRoute(route, d)
    /\ Redraw(d, route')
    /\ UNCHANGED <<dialog, manual, launch, sent>>

\* fillDocuments: the cards, then each status.
FillRouter ==
    /\ documents = emptyDocuments
    /\ \E d \in Readings : Take(d)
    /\ UNCHANGED <<router, used>>

FillStatus ==
    /\ \E s \in listed(documents) :
         /\ documents.status[s] = Unread
         /\ \E answer \in {router.connection[s], Failed} :
               Take([documents EXCEPT !.status[s] = answer])
    /\ UNCHANGED <<router, used>>

Spend == used.moves < MaxMoves /\ used' = [used EXCEPT !.moves = @ + 1]

\* refreshDocuments, from one of the polls: everything, and then drawn at once.
Refresh ==
    /\ Spend /\ documents # emptyDocuments
    /\ \E d \in Readings : Take(WithStatuses(d))
    /\ UNCHANGED router

\* A modem comes or goes; its interface stays.
Plug ==
    /\ Spend
    /\ \E m \in {n \in Modems : router.modem[n].attached \/ Bound(router.modem[n])} :
         router' = [router EXCEPT !.modem[m].attached = ~@]
    /\ UNCHANGED <<page, dialog, manual, launch, sent>>
-----------------------------------------------------------------------------
(* The user.                                                               *)

Navigate ==
    /\ dialog = <<>> /\ used.visits < MaxMoves
    /\ used' = [used EXCEPT !.visits = @ + 1]
    /\ \E area \in {"overview", "database"}, workspace \in {"connection", "apn", "modem"},
          x \in buildSubjects(documents) \cup {<<>>} :
         /\ route' = normaliseRoute([route EXCEPT !.area = area, !.subject = x,
                                                  !.workspace = workspace], documents)
         /\ renderRoute(documents, route')
    /\ UNCHANGED <<router, documents, dialog, manual, launch, sent>>

\* The line a single card is shown under is opened.
Expand ==
    /\ dialog = <<>> /\ ~route.expanded
    /\ screen.route.area = "overview" /\ Cardinality(buildSubjects(screen.documents)) = 1
    /\ route' = [route EXCEPT !.expanded = TRUE]
    /\ renderRoute(documents, route')
    /\ UNCHANGED <<router, documents, dialog, manual, launch, sent, used>>

\* The select of the roaming policy: what is recorded is no choice.
ChoosePolicy ==
    LET d == screen.documents
        r == screen.route
    IN  /\ dialog = <<>> /\ r.area = "overview" /\ r.workspace = "apn"
        /\ r.subject \in buildSubjects(d) /\ roaming(d, r.subject) = "yes"
        /\ ~greyed /\ ~subjectBusy(d, r.subject)
        /\ choice' \in (Policies \ {policyValue(status(d, r.subject))}) \cup {Nothing}
        /\ UNCHANGED <<router, documents, route, screen, greyed, engineBusy, dialog, manual,
                       launch, sent, used>>

ModemVerbs == {"provision", "deprovision", "adopt", "release-adoption",
               "connect", "disconnect", "reconnect"}

\* startAction, startModemAction and startManualApn, up to the call.
Launch(control, form) ==
    /\ launch' = launch \cup {<<control, form>>}
    /\ sent' = IF control[1][1] = "database-check" THEN sent ELSE Append(sent, control)
    /\ greyed' = TRUE
    /\ engineBusy' = (engineBusy \/ control[1][1] \notin ModemVerbs)
    /\ UNCHANGED <<documents, route, screen, choice>>

\* A control is pressed.  Most open the confirmation that names what will be sent;
\* those of a modem, and the form, only if the page knows of no operation.
Press ==
    /\ dialog = <<>> /\ Len(sent) < MaxRequests
    /\ \E control \in Controls :
         LET verb == control[1][1]
             x == control[2]
         IN  /\ ~Disabled(control)
             /\ CASE verb = "database-check" -> Launch(control, FALSE) /\ UNCHANGED <<dialog, manual>>
                  [] verb = "apply-manual" ->
                       /\ ~engineBusy
                       /\ manual' = [control |-> control, password |-> FALSE]
                       /\ dialog' = <<"form">>
                       /\ UNCHANGED <<page, launch, sent>>
                  [] OTHER ->
                       /\ verb \in ModemVerbs => ~engineBusy
                       /\ verb = "database-install" => documents.update = TRUE
                       /\ dialog' = <<"confirm", control>>
                       /\ UNCHANGED <<page, manual, launch, sent>>
    /\ UNCHANGED <<router, used>>

TypePassword ==
    /\ dialog = <<"form">>
    /\ manual' = [manual EXCEPT !.password = TRUE]
    /\ UNCHANGED <<router, page, dialog, launch, sent, used>>

\* confirmManualApn: the confirmation takes the form's place.
ConfirmForm ==
    /\ dialog = <<"form">> /\ manual.password /\ ~engineBusy
    /\ dialog' = <<"apply", manual.control>>
    /\ UNCHANGED <<router, page, manual, launch, sent, used>>

\* Mutated form: the confirmation of a form is cancelled as any other.
CancelOnly ==
    /\ dialog # <<>>
    /\ dialog' = <<>>
    /\ manual' = IF dialog = <<"form">> THEN Nothing ELSE manual
    /\ UNCHANGED <<router, page, launch, sent, used>>

\* Cancel: with the form, or its confirmation, the password goes (closeManualApn).
Cancel ==
    /\ dialog # <<>>
    /\ dialog' = <<>>
    /\ manual' = IF dialog[1] \in {"form", "apply"} THEN Nothing ELSE manual
    /\ UNCHANGED <<router, page, launch, sent, used>>

\* Escape closes the dialog, whatever it is.
Escape ==
    /\ dialog # <<>>
    /\ dialog' = <<>>
    /\ used' = [used EXCEPT !.escaped = @ \/ dialog[1] \in {"form", "apply"}]
    /\ UNCHANGED <<router, page, manual, launch, sent>>

\* Mutated form: the dialog stays open until the launch is answered.
ConfirmAndStay ==
    /\ dialog # <<>> /\ dialog[1] \in {"confirm", "apply"} /\ Len(sent) < MaxRequests
    /\ Launch(dialog[2], dialog[1] = "apply")
    /\ UNCHANGED <<router, dialog, manual, used>>

Confirm ==
    /\ dialog # <<>> /\ dialog[1] \in {"confirm", "apply"}
    /\ dialog' = <<>>
    /\ Launch(dialog[2], dialog[1] = "apply")
    /\ UNCHANGED <<router, manual, used>>

\* A launch is answered.  After that of a form, closeManualApn: whatever form there
\* is by then is emptied, and whatever dialog is open is closed.
Land ==
    /\ \E l \in launch :
         /\ launch' = launch \ {l}
         /\ IF l[2] THEN manual' = Nothing /\ dialog' = <<>> ELSE UNCHANGED <<manual, dialog>>
    /\ UNCHANGED <<router, page, sent, used>>
-----------------------------------------------------------------------------
Init ==
    /\ router \in Routers
    /\ documents = emptyDocuments
    /\ route \in [area : {"overview"}, subject : {<<>>}, workspace : {"connection", "apn", "modem"},
                  expanded : {FALSE}]
    /\ screen = [documents |-> emptyDocuments, route |-> route]
    /\ choice = Nothing /\ greyed = FALSE /\ engineBusy = FALSE
    /\ dialog = <<>> /\ manual = Nothing
    /\ launch = {} /\ sent = <<>>
    /\ used = [moves |-> 0, visits |-> 0, escaped |-> FALSE]

Next ==
    \/ FillRouter \/ FillStatus \/ Refresh \/ Plug
    \/ Navigate \/ Expand \/ ChoosePolicy \/ Press \/ TypePassword \/ ConfirmForm
    \/ Cancel \/ Escape \/ Confirm \/ Land

Spec == Init /\ [][Next]_vars
-----------------------------------------------------------------------------
(* What may be read, drawn and sent.                                       *)

Documents ==
    [inventory : {Unread, Failed} \cup UNION {[S -> ModemType] : S \in SUBSET Modems},
     targets : {Unread, Failed} \cup UNION {[S -> BOOLEAN] : S \in SUBSET Sections},
     update : {Unread, Failed} \cup BOOLEAN,
     status : [Sections -> ConnectionType \cup {Unread, Failed}],
     running : SUBSET Modems, engine : BOOLEAN, silent : SUBSET Fields]

Cards == ({"modem"} \X Modems) \cup ({"target"} \X Sections)

Routes == [area : {"overview", "database"}, subject : Cards \cup {<<>>},
           workspace : {"connection", "apn", "modem"}, expanded : BOOLEAN]

\* The operations there are: a verb, what it is sent for, and the card it is asked for on.
EngineVerbs == {"reconcile", "modem-reset", "apply-manual", "database-check", "database-install"}
               \cup {SetPolicy[policy] : policy \in Policies}
Requests == (ModemVerbs \X Modems) \cup (EngineVerbs \X (Sections \cup {NoTarget}))
Operations == Requests \X (Cards \cup {RouterScope})
Forms == [control : Operations, password : BOOLEAN]

\* What is not there is none of these.
ASSUME NamesAssumption == Nothing \notin Operations \cup Policies \cup Forms

\* The type of the variables: the card whose workspace is open is one of those read, and
\* every control drawn is an operation of something that is there.
TypeOK ==
    /\ router \in RouterType
    /\ documents \in Documents
    /\ route \in Routes /\ route.subject \in buildSubjects(documents) \cup {<<>>}
    /\ screen \in [documents : Documents, route : Routes]
    /\ Controls \subseteq Operations
    /\ choice \in Policies \cup {Nothing}
    /\ greyed \in BOOLEAN /\ engineBusy \in BOOLEAN
    /\ dialog \in {<<>>, <<"form">>} \cup ({"confirm", "apply"} \X Operations)
    /\ manual \in Forms \cup {Nothing}
    /\ dialog = <<"form">> => manual # Nothing
    /\ launch \subseteq Operations \X BOOLEAN
    /\ sent \in Seq(Operations)
    /\ used \in [moves : Nat, visits : Nat, escaped : BOOLEAN]
-----------------------------------------------------------------------------
(* Properties.                                                             *)

\* A control that the page draws would be accepted by the coordinator of the router as
\* it was when the page read it: whatever the packages do not publish, whatever read
\* failed, and whoever made the interface.  (The gates, against the checks each command
\* makes for itself.)
Accepted(control) ==
    control[1][1] \in ModemVerbs =>
        Accepts(screen.documents.inventory[control[1][2]], control[1][1])

\* Except that "Remove setup" is offered for an interface recorded under an older identity
\* of its modem, found by its path: deprovision looks by identity only, and refuses it.
Rebound(control) ==
    control[1][1] = "deprovision" /\ ~screen.documents.inventory[control[1][2]].known

OffersAreAccepted == \A control \in Controls : Accepted(control) \/ Rebound(control)

\* Without a target the engine would choose one: no operation asked for on a card is
\* sent without the target of that card, however its modem was read.
TargetsAreNamed ==
    \A i \in DOMAIN sent :
        LET o == sent[i][1]
            x == sent[i][2]
        IN  x # RouterScope /\ o[1] \notin ModemVerbs => o[2] = IF isModem(x) THEN Section[x[2]] ELSE x[2]

\* Each connection the page has read is on a card: on one of its own, or on those of the
\* modems it belongs to and on no other, even when one of these cannot be told from
\* another modem.
ConnectionsHaveCards ==
    \A s \in listed(documents) :
        LET cards == {x \in buildSubjects(documents) : targetId(documents, x) = s}
        IN  cards = {<<"target", s>>} \/ (cards # {} /\ \A x \in cards : isModem(x))

\* A password typed by hand is kept no longer than its form, the confirmation that took
\* the form's place or the launch that carries it, unless one of them was left with Escape.
PasswordIsCleared ==
    manual # Nothing =>
        \/ dialog # <<>> /\ dialog[1] \in {"form", "apply"}
        \/ \E l \in launch : l[2]
        \/ used.escaped

\* The page implements Consent: what changes the router is sent once for each
\* confirmation that named it.  (Only the check for an update is not confirmed.)
Consented == INSTANCE Consent WITH
    Operations <- Operations,
    asked <- IF dialog # <<>> /\ dialog[1] \in {"confirm", "apply"} THEN dialog[2] ELSE Nothing,
    last <- IF sent = <<>> THEN Nothing ELSE sent[Len(sent)],
    count <- Len(sent)
KeepsConsent == Consented!Spec
=============================================================================
