---------------------------- MODULE PageDocuments ---------------------------
(***************************************************************************)
(* How the LuCI page keeps its documents: the reads, one after the other,  *)
(* of the first fill and of each refresh; the polls and the user that      *)
(* start a refresh; what is drawn, when it is drawn again, and which       *)
(* controls are disabled meanwhile.  Several chains of reads may be under  *)
(* way at once, each with its own view of a router that moves on.          *)
(***************************************************************************)
EXTENDS Integers, Sequences, FiniteSets

CONSTANTS
    Modems,         \* the modems that may be attached, in the inventory's order
    Targets,        \* the managed sections, in the order they are listed
    Section,        \* the section of each modem
    Attached,       \* the modems attached when the page is loaded
    Workspace,      \* the workspace in the page's address
    PollLimit,      \* idle answers after a launch before a refresh: 5 in the code
    PollWhileFilling, \* bound: the engine is polled during the first fill too
    MaxChains,      \* bound: chains of documents under way at once
    MaxEvents       \* bound: modems that come or go, operations begun elsewhere,
                    \* requests of the user, and calls that fail, together

ModemSet == {Modems[i] : i \in DOMAIN Modems}
TargetSet == {Targets[i] : i \in DOMAIN Targets}

ASSUME PageAssumption ==
    /\ Modems \in Seq(ModemSet) /\ Targets \in Seq(TargetSet)
    /\ Section \in [ModemSet -> TargetSet]
    /\ Attached \subseteq ModemSet
    /\ Workspace \in {"connection", "apn"}
    /\ PollWhileFilling \in BOOLEAN
    /\ PollLimit \in Nat \ {0}
    /\ {MaxChains, MaxEvents} \subseteq Nat

VARIABLES
    router,    \* what is really so: modems, their generation, operations, results
    documents, \* what the page has read
    chain,     \* of each who reads: the read it is at, and what it has got
    route,     \* area, card and workspace
    screen,    \* the cards and the results on the screen
    disabled,  \* the cards, and the router, whose controls are disabled
    settings,  \* the settings form: none, building or built
    flags,     \* the page's fields, and whether a redraw was withheld, since the last
               \* one or before (history: no step reads it): see FlagType
    dialog,    \* the operation a confirmation is open for
    launch,    \* the operation being launched, and whether it was served
    used       \* of the bounds; hardware changed before the page was filled; an
               \* operation began elsewhere; two chains of documents overlapped

page == <<documents, route, screen, disabled, settings, flags>>
vars == <<router, page, chain, dialog, launch, used>>

None == <<"none">>
Chains == {"fill", "action", "modem", "generation"}
Router == <<"router">>
Undefined == -1    \* no answer yet
-----------------------------------------------------------------------------
(* Documents and cards.                                                    *)

Failed == -1       \* a status that could not be read

\* emptyDocuments.  A document that is not read, or could not be, lists nothing.
emptyDocuments ==
    [targets |-> <<>>, modems |-> {}, busyModems |-> {}, action |-> None,
     statuses |-> <<>>, routerRead |-> FALSE, statusRead |-> {}]

\* buildSubjects: a modem's card stands for its section too.
buildSubjects(d) ==
    {<<"modem", m>> : m \in d.modems}
    \cup {<<"target", t>> : t \in {d.targets[i] : i \in DOMAIN d.targets}
                                     \ {Section[m] : m \in d.modems}}

\* What the engine is doing, as its action-status says.
ActionBusy(action) == action # None /\ action[1] = "busy"

subjectBusy(d, busy, s) == busy \/ (s[1] = "modem" /\ s[2] \in d.busyModems)

anySubjectBusy(d, busy) == busy \/ \E s \in buildSubjects(d) : subjectBusy(d, busy, s)

\* Mutated form: a card that has gone stays open.
RouteKept(r, subjects) ==
    [r EXCEPT !.subject =
        IF r.subject = None /\ Cardinality(subjects) = 1 THEN CHOOSE s \in subjects : TRUE ELSE @]

\* normaliseRoute: with one card, that card's workspace is open.
normaliseRoute(r, subjects) ==
    [r EXCEPT !.subject =
        IF r.subject \in subjects THEN r.subject
        ELSE IF r.area = "overview" /\ Cardinality(subjects) = 1
          THEN CHOOSE s \in subjects : TRUE ELSE None]
-----------------------------------------------------------------------------
(* Drawing.                                                                *)

\* What renderRoute puts on the screen in the overview.
Screen(d, r) ==
    [cards |-> buildSubjects(d), statuses |-> d.statuses, route |-> r]

\* The cards whose controls are drawn disabled.
BusyControls(d, busy) ==
    {s \in buildSubjects(d) : subjectBusy(d, busy, s)}
    \cup {x \in {Router} : anySubjectBusy(d, busy)}

\* renderRoute, and with it renderSettingsArea: the form is built once, when the
\* documents it needs have been read.
renderRoute(d, r, f) ==
    LET busy == ActionBusy(d.action)
    IN  /\ flags' = [f EXCEPT !.engineBusy = busy,
                                !.withheld = IF @ = "never" THEN @ ELSE "before"]
        /\ IF r.area = "overview"
             THEN /\ screen' = Screen(d, r)
                  /\ disabled' = BusyControls(d, busy)
                  /\ UNCHANGED settings
             ELSE /\ disabled' = {}
                  /\ settings' = IF settings = "none" /\ d.routerRead
                                   THEN "building" ELSE settings
                  /\ UNCHANGED screen

\* Mutated form: the form is drawn over.
RedrawAlways(d, r, f) == renderRoute(d, r, f)

\* `if (!self.userEditing) self.renderRoute()': what is not drawn now is not drawn when
\* the edit is taken back either, but with the next redraw.
Redraw(d, r, f) ==
    IF f.userEditing
      THEN flags' = [f EXCEPT !.withheld = "now"] /\ UNCHANGED <<screen, disabled, settings>>
    ELSE renderRoute(d, r, f)

\* setControlsBusy(true): every control drawn.
ControlsBusy ==
    disabled' = IF route.area = "overview" THEN screen.cards \cup {Router} ELSE {}
-----------------------------------------------------------------------------
(* Chains of reads.  A read's answer is what the router says when it is    *)
(* asked; it lands some time later, and the next read is asked then.       *)

Idle == [at |-> "idle", todo |-> <<>>, d |-> emptyDocuments]

Answered(d, at, todo, fail) ==
    CASE at = "inventory" -> [d EXCEPT !.modems = IF fail THEN {} ELSE router.attached]
      [] at = "operation" -> IF fail THEN d
                             ELSE [d EXCEPT !.busyModems = @ \cup ({Head(todo)} \cap router.modemBusy)]
      [] at = "action" -> [d EXCEPT !.action = IF fail THEN <<"error", 0>>
                                               ELSE <<router.engine, router.version>>]
      [] at = "status" -> [d EXCEPT !.statusRead = @ \cup {Head(todo)},
                                    !.statuses = [t \in DOMAIN @ \cup {Head(todo)} |->
                                        IF t # Head(todo) THEN @[t]
                                        ELSE IF fail THEN Failed ELSE router.version]]
      [] OTHER -> d

\* A call fails.
Failure == /\ used.events < MaxEvents
           /\ used' = [used EXCEPT !.events = @ + 1, !.failed = TRUE]

\* The next read, which may fail.
Ask(c, at, todo, d) ==
    \E fail \in BOOLEAN :
        /\ IF fail THEN Failure ELSE UNCHANGED used
        /\ chain' = [chain EXCEPT ![c] = [at |-> at, todo |-> todo,
                                          d |-> Answered(d, at, todo, fail)]]

EndChain(c) == chain' = [chain EXCEPT ![c] = Idle] /\ UNCHANGED used

\* The modems whose operations are asked for, as the inventory lists them.
InOrder(modems) == SelectSeq(Modems, LAMBDA m : m \in modems)

\* loadRouterDocuments, from the inventory to the engine's status.  The list of
\* targets, read first, does not change here; the status of the provider database, read
\* last, is not kept here.
ReadNext(c) ==
    LET d == chain[c].d
        rest == IF chain[c].at = "inventory" THEN InOrder(d.modems) ELSE Tail(chain[c].todo)
    IN  /\ chain[c].at \in {"inventory", "operation"}
        /\ IF rest = <<>> THEN Ask(c, "action", <<>>, d) ELSE Ask(c, "operation", rest, d)
        /\ UNCHANGED <<router, page, dialog, launch>>

\* The modems whose operation the page will follow.
Following(d) == d.busyModems # {}

\* fillDocuments, level 0: the cards.
FillRouter ==
    LET d == chain["fill"].d
        filled == [documents EXCEPT !.targets = d.targets, !.modems = d.modems,
                                    !.busyModems = d.busyModems, !.action = d.action,
                                    !.routerRead = TRUE]
        normalised == normaliseRoute(route, buildSubjects(filled))
    IN  /\ chain["fill"].at = "action"
        /\ documents' = filled /\ route' = normalised
        /\ Redraw(filled, normalised,
                  [flags EXCEPT !.actionRendered = d.action, !.engineBusy = ActionBusy(d.action),
                                !.modemPollPending = Following(d)])
        /\ IF d.targets = <<>> THEN EndChain("fill")
           ELSE Ask("fill", "status", d.targets, emptyDocuments)
        /\ UNCHANGED <<router, dialog, launch>>

\* fillDocuments, level 1: each status goes into the documents there are by then.
FillStatus ==
    LET id == Head(chain["fill"].todo)
        rest == Tail(chain["fill"].todo)
        filled == [documents EXCEPT
                      !.statusRead = @ \cup {id},
                      !.statuses = [t \in DOMAIN @ \cup {id} |->
                                      IF t = id THEN chain["fill"].d.statuses[id] ELSE @[t]]]
    IN  /\ chain["fill"].at = "status"
        /\ documents' = filled
        /\ Redraw(filled, route, flags)
        /\ IF rest = <<>> THEN EndChain("fill") ELSE Ask("fill", "status", rest, emptyDocuments)
        /\ UNCHANGED <<router, route, dialog, launch>>

\* refreshDocuments begins: loadDocuments.
Refresh(c) ==
    LET others == {o \in Chains \ {c} : chain[o].at \notin {"idle", "poll"}}
    IN  /\ Cardinality(others) < MaxChains
        /\ \E fail \in {FALSE} \cup {used.events < MaxEvents} :
             /\ used' = [used EXCEPT !.overlap = @ \/ others # {}, !.failed = @ \/ fail,
                                     !.events = @ + IF fail THEN 1 ELSE 0]
             /\ chain' = [chain EXCEPT ![c] =
                    [at |-> "inventory", todo |-> <<>>,
                     d |-> Answered([emptyDocuments EXCEPT !.targets = Targets],
                                    "inventory", <<>>, fail)]]

\* refreshDocuments: the whole set at once.
Install(c, d) ==
    LET normalised == normaliseRoute(route, buildSubjects(d))
    IN  /\ documents' = [d EXCEPT !.routerRead = TRUE] /\ route' = normalised
        /\ Redraw([d EXCEPT !.routerRead = TRUE], normalised,
                  [flags EXCEPT !.modemPollPending = Following(d)])
        /\ EndChain(c)

\* loadDocuments, the statuses.
RefreshStatus(c) ==
    LET d == chain[c].d
        rest == IF chain[c].at = "action" THEN d.targets ELSE Tail(chain[c].todo)
    IN  /\ c # "fill" /\ chain[c].at \in {"action", "status"}
        /\ IF rest = <<>> THEN Install(c, d)
           ELSE Ask(c, "status", rest, d) /\ UNCHANGED page
        /\ UNCHANGED <<router, dialog, launch>>
-----------------------------------------------------------------------------
(* Polls.  LuCI starts none again before it has ended.  One that fails      *)
(* changes nothing: it is a poll not made.                                  *)

PollAction ==
    /\ chain["action"].at = "idle" /\ (PollWhileFilling \/ chain["fill"].at = "idle")
    /\ chain' = [chain EXCEPT !["action"] =
           [at |-> "poll", todo |-> <<>>, d |-> Answered(emptyDocuments, "action", <<>>, FALSE)]]
    /\ UNCHANGED <<router, page, dialog, launch, used>>

\* Idle answers enough after a launch: the operation began and ended unseen.
WaitedEnough(count) == count >= PollLimit

\* refreshAction, when the answer lands.
LandAction ==
    LET action == chain["action"].d.action
        busy == ActionBusy(action)
        ended == flags.engineBusy /\ ~busy
        counted == IF ~ended /\ ~busy /\ flags.actionPollPending
                     THEN flags.actionPollCount + 1 ELSE flags.actionPollCount
        waited == ~ended /\ counted # flags.actionPollCount /\ WaitedEnough(counted)
        landed == [flags EXCEPT !.engineBusy = busy, !.actionRendered = action,
                                !.actionPollPending = @ /\ ~ended /\ ~waited,
                                !.actionPollCount = IF waited THEN 0 ELSE counted]
    IN  /\ chain["action"].at = "poll"
        /\ documents' = [documents EXCEPT !.action = action]
        /\ IF ended \/ waited
             THEN /\ flags' = landed /\ Refresh("action")
                  /\ UNCHANGED <<screen, disabled, settings>>
             ELSE /\ EndChain("action")
                  /\ IF action # flags.actionRendered THEN Redraw(documents', route, landed)
                     ELSE flags' = landed /\ UNCHANGED <<screen, disabled, settings>>
        /\ UNCHANGED <<router, route, dialog, launch>>

PollModem ==
    /\ chain["modem"].at = "idle" /\ flags.modemPollPending
    /\ Refresh("modem")
    /\ UNCHANGED <<router, page, dialog, launch>>

\* Mutated form: the baseline is never moved.
CompareWithFirst ==
    /\ chain["generation"].at = "idle" /\ flags.hardwareGeneration # router.generation
    /\ IF flags.hardwareGeneration = Undefined
         THEN /\ flags' = [flags EXCEPT !.hardwareGeneration = router.generation]
              /\ UNCHANGED <<chain, used>>
         ELSE Refresh("generation") /\ UNCHANGED flags
    /\ UNCHANGED <<router, documents, route, screen, disabled, settings, dialog, launch>>

\* Mutated form: no refresh while another is under way.
OneRefreshAtATime ==
    /\ chain["generation"].at = "idle" /\ flags.hardwareGeneration # router.generation
    /\ flags' = [flags EXCEPT !.hardwareGeneration = router.generation]
    /\ IF flags.hardwareGeneration = Undefined \/ \E c \in Chains : chain[c].at \notin {"idle", "poll"}
         THEN UNCHANGED <<chain, used>>
       ELSE Refresh("generation")
    /\ UNCHANGED <<router, documents, route, screen, disabled, settings, dialog, launch>>

\* refreshHardwareGeneration: the first answer is the baseline.
PollGeneration ==
    /\ chain["generation"].at = "idle" /\ flags.hardwareGeneration # router.generation
    /\ flags' = [flags EXCEPT !.hardwareGeneration = router.generation]
    /\ IF flags.hardwareGeneration = Undefined THEN UNCHANGED <<chain, used>>
       ELSE Refresh("generation")
    /\ UNCHANGED <<router, documents, route, screen, disabled, settings, dialog, launch>>
-----------------------------------------------------------------------------
(* The user.                                                               *)

Drawn(s) == route.area = "overview" /\ s \in screen.cards \cup {Router}

Requested == used.events < MaxEvents /\ used' = [used EXCEPT !.events = @ + 1]

\* navigate, from a tab, a card or the browser's history.
Navigate ==
    /\ Requested
    /\ \E area \in {"overview", "settings"}, workspace \in {"connection", "apn"},
          s \in screen.cards \cup {None} :
         LET r == normaliseRoute([area |-> area, subject |-> s, workspace |-> workspace],
                                 buildSubjects(documents))
         IN  /\ r # route
             /\ route' = r
             /\ renderRoute(documents, r, [flags EXCEPT !.userEditing = FALSE])
    /\ UNCHANGED <<router, documents, chain, dialog, launch>>

\* The select of the roaming policy, in the APN workspace of a card whose
\* status has been read.
EditPolicy ==
    LET s == screen.route.subject
        target == IF s[1] = "modem" THEN Section[s[2]] ELSE s[2]
    IN  /\ Requested
        /\ s # None /\ Drawn(s) /\ s \notin disabled
        /\ screen.route.workspace = "apn"
        /\ target \in DOMAIN screen.statuses /\ screen.statuses[target] # Failed
        /\ flags' = [flags EXCEPT !.userEditing = ~@]
        /\ UNCHANGED <<router, documents, chain, route, screen, disabled, settings, dialog, launch>>

\* A control pressed, and the confirmation it opens: of the engine, by any
\* enabled control, or of a modem.  The policy's confirmation is the engine's.
OpenConfirmation ==
    /\ dialog = None /\ Requested
    /\ \E x \in (screen.cards \cup {Router}) \ disabled :
         /\ Drawn(x)
         /\ dialog' \in {<<"engine">>} \cup (IF x[1] = "modem" THEN {x} ELSE {})
    /\ UNCHANGED <<router, page, chain, launch>>

CloseConfirmation ==
    /\ dialog # None
    /\ dialog' = None
    /\ UNCHANGED <<router, page, chain, launch, used>>

\* startAction and startModemAction, up to the call.
Confirm ==
    /\ dialog # None /\ launch = None
    /\ launch' = <<"sent", dialog>> /\ dialog' = None
    /\ flags' = IF dialog[1] = "engine" THEN [flags EXCEPT !.engineBusy = TRUE] ELSE flags
    /\ ControlsBusy
    /\ UNCHANGED <<router, documents, chain, route, screen, settings, used>>

\* Mutated form: a modem's operation is not followed.
LandEngineOnly ==
    /\ launch # None /\ launch[1] = "served"
    /\ launch' = None
    /\ flags' = IF launch[2][1] = "engine" THEN [flags EXCEPT !.actionPollPending = TRUE] ELSE flags
    /\ UNCHANGED <<router, documents, chain, route, screen, disabled, settings, dialog, used>>

\* Mutated form: an operation of the engine that no poll saw is not followed.
LandModemOnly ==
    /\ launch # None /\ launch[1] = "served"
    /\ launch' = None
    /\ flags' = IF launch[2][1] = "modem" THEN [flags EXCEPT !.modemPollPending = TRUE] ELSE flags
    /\ UNCHANGED <<router, documents, chain, route, screen, disabled, settings, dialog, used>>

\* The launch's answer is the same whether it was accepted, refused or lost: the
\* page goes on polling.
LandLaunch ==
    /\ launch # None /\ launch[1] = "served"
    /\ launch' = None
    /\ flags' = IF launch[2][1] = "engine" THEN [flags EXCEPT !.actionPollPending = TRUE]
                ELSE [flags EXCEPT !.modemPollPending = TRUE]
    /\ UNCHANGED <<router, documents, chain, route, screen, disabled, settings, dialog, used>>

\* The settings form has been built, or could not be.
SettingsBuilt ==
    /\ settings = "building"
    /\ \/ settings' = "built" /\ UNCHANGED used
       \/ settings' = "none" /\ Failure
    /\ UNCHANGED <<router, documents, chain, route, screen, disabled, flags, dialog, launch>>
-----------------------------------------------------------------------------
(* The router.                                                             *)

Plug ==
    /\ used.events < MaxEvents
    /\ \E m \in ModemSet :
         router' = [router EXCEPT !.generation = @ + 1,
                        !.attached = IF m \in @ THEN @ \ {m} ELSE @ \cup {m}]
    /\ used' = [used EXCEPT !.events = @ + 1,
                  !.early = @ \/ chain["fill"].at # "idle" \/ flags.hardwareGeneration = Undefined]
    /\ UNCHANGED <<page, chain, dialog, launch>>

Free == router.engine = "idle" /\ router.modemBusy = {}

Begin(operation) ==
    router' = IF operation[1] = "engine" THEN [router EXCEPT !.engine = "busy"]
              ELSE [router EXCEPT !.modemBusy = {operation[2]}]

\* A launch reaches the router: a job begins, or another is busy; or it is lost.
Serve ==
    /\ launch # None /\ launch[1] = "sent"
    /\ \/ Free /\ Begin(launch[2]) /\ UNCHANGED used
       \/ ~Free /\ UNCHANGED <<router, used>>
       \/ Failure /\ UNCHANGED router
    /\ launch' = <<"served", launch[2]>>
    /\ UNCHANGED <<page, chain, dialog>>

\* The button, the boot service or another page.
BeginElsewhere ==
    /\ Free /\ used.events < MaxEvents
    /\ used' = [used EXCEPT !.events = @ + 1, !.elsewhere = TRUE]
    /\ \E operation \in {<<"engine">>} \cup {<<"modem", m>> : m \in router.attached} :
          Begin(operation)
    /\ UNCHANGED <<page, chain, dialog, launch>>

End ==
    /\ ~Free
    /\ router' = [router EXCEPT !.engine = "idle", !.modemBusy = {},
                                !.version = IF router.engine = "busy" THEN @ + 1 ELSE @]
    /\ UNCHANGED <<page, chain, dialog, launch, used>>
-----------------------------------------------------------------------------
\* render: the page without documents, and the first fill.
Init ==
    /\ router = [attached |-> Attached, generation |-> 0, engine |-> "idle",
                 modemBusy |-> {}, version |-> 0]
    /\ documents = emptyDocuments
    /\ chain = [[c \in Chains |-> Idle] EXCEPT
                    !["fill"] = [at |-> "inventory", todo |-> <<>>,
                                 d |-> [emptyDocuments EXCEPT !.targets = Targets,
                                                              !.modems = Attached]]]
    /\ route = [area |-> "overview", subject |-> None, workspace |-> Workspace]
    /\ screen = Screen(emptyDocuments, route)
    /\ disabled = {} /\ settings = "none"
    /\ flags = [engineBusy |-> FALSE, actionPollPending |-> FALSE, actionPollCount |-> 0,
                modemPollPending |-> FALSE, userEditing |-> FALSE, actionRendered |-> None,
                hardwareGeneration |-> Undefined, withheld |-> "never"]
    /\ dialog = None /\ launch = None
    /\ used = [events |-> 0, failed |-> FALSE, early |-> FALSE, elsewhere |-> FALSE,
               overlap |-> FALSE]

Read(c) == ReadNext(c) \/ RefreshStatus(c)

Next ==
    \/ \E c \in Chains : Read(c)
    \/ FillRouter \/ FillStatus
    \/ PollAction \/ LandAction \/ PollModem \/ PollGeneration
    \/ Navigate \/ EditPolicy \/ OpenConfirmation \/ CloseConfirmation \/ Confirm
    \/ LandLaunch \/ SettingsBuilt
    \/ Plug \/ Serve \/ BeginElsewhere \/ End

\* LuCI polls for as long as the page is open and every call is answered;
\* operations end (their timeouts bound them).  Nobody has to press anything.
Fairness ==
    /\ \A c \in Chains : WF_vars(Read(c))
    /\ WF_vars(FillRouter) /\ WF_vars(FillStatus)
    /\ WF_vars(PollAction) /\ WF_vars(LandAction)
    /\ WF_vars(PollModem) /\ WF_vars(PollGeneration)
    /\ WF_vars(Serve) /\ WF_vars(LandLaunch)
    /\ WF_vars(SettingsBuilt) /\ WF_vars(End)

Spec == Init /\ [][Next]_vars /\ Fairness
-----------------------------------------------------------------------------
(* What may be read, drawn and launched.                                   *)

Cards == ({"modem"} \X ModemSet) \cup ({"target"} \X TargetSet)

\* What the engine answers when asked what it does: not asked, failed, or its state and
\* the number of operations it has ended.
Actions == {None} \cup ({"error", "idle", "busy"} \X Nat)

\* A status read is the number of operations ended by then, or Failed.
Versions == Nat \cup {Failed}

DocumentOK(d) ==
    d \in [targets : Seq(TargetSet), modems : SUBSET ModemSet, busyModems : SUBSET ModemSet,
           action : Actions, statuses : [d.statusRead -> Versions], routerRead : BOOLEAN,
           statusRead : SUBSET TargetSet]

RouteType == [area : {"overview", "settings"}, subject : Cards \cup {None},
              workspace : {"connection", "apn"}]

FlagType ==
    [engineBusy : BOOLEAN, actionPollPending : BOOLEAN, actionPollCount : Nat,
     modemPollPending : BOOLEAN, userEditing : BOOLEAN, actionRendered : Actions,
     hardwareGeneration : Nat \cup {Undefined}, withheld : {"never", "now", "before"}]

Operations == {<<"engine">>} \cup ({"modem"} \X ModemSet)

\* What a reader has got so far: the status that is being read is known of, and a chain
\* of the first fill has no other.
ChainOK(c) ==
    /\ chain[c].at \in {"idle", "poll", "inventory", "operation", "action", "status"}
    /\ chain[c].at = "poll" => c = "action"
    /\ DocumentOK(chain[c].d)
    /\ chain[c].at = "status" =>
         /\ chain[c].todo \in Seq(TargetSet) \ {<<>>}
         /\ Head(chain[c].todo) \in chain[c].d.statusRead

\* The type of the variables: the open card is one that was read, a status is read or it
\* is not there, what is disabled was drawn, and one operation runs at a time.
TypeOK ==
    /\ router \in [attached : SUBSET ModemSet, generation : Nat, engine : {"idle", "busy"},
                   modemBusy : SUBSET ModemSet, version : Nat]
    /\ router.modemBusy = {} \/ router.engine = "idle"
    /\ DocumentOK(documents)
    /\ DOMAIN chain = Chains /\ \A c \in Chains : ChainOK(c)
    /\ route \in RouteType /\ route.subject \in buildSubjects(documents) \cup {None}
    /\ screen \in [cards : SUBSET Cards, statuses : [DOMAIN screen.statuses -> Versions],
                   route : RouteType]
    /\ disabled \subseteq screen.cards \cup {Router}
    /\ settings \in {"none", "building", "built"}
    /\ flags \in FlagType /\ flags.actionPollCount < PollLimit
    /\ dialog \in {None} \cup Operations
    /\ launch \in {None} \cup ({"sent", "served"} \X Operations)
    /\ used \in [events : Nat, failed : BOOLEAN, early : BOOLEAN, elsewhere : BOOLEAN,
                 overlap : BOOLEAN]
-----------------------------------------------------------------------------
(* Properties.                                                             *)

\* A chain of documents, and not a poll of the engine alone.
Reading(c) == chain[c].at \notin {"idle", "poll"}

\* The cards on the screen are not those of the documents: another area is open, or the
\* last redraw was withheld.
NotDrawn == route.area # "overview" \/ flags.withheld = "now"

\* A poll never replaces a form the user has touched: while a policy is being chosen
\* nothing but the user's own navigation draws the cards again (every caller of
\* renderRoute that is not the user's asks for userEditing first), and the settings form,
\* once built, is never built again.  What was begun before may still end: a settings form
\* that is being built takes its place, which is not on the screen then.
FormIsKept ==
    [][/\ flags.userEditing /\ flags'.userEditing =>
            screen' = screen /\ (settings = "building" \/ settings' = settings)
       /\ settings = "built" => settings' = "built"]_vars
=============================================================================
