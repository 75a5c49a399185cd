------------------------------- MODULE EsimPage ------------------------------
(***************************************************************************)
(* The eSIM and SIM areas of the LuCI page, for one modem: the inventory   *)
(* and the card lists read on demand, the plans asked for before a dialog  *)
(* opens, the operations sent to the eSIM coordinator, and the poll that   *)
(* follows them until the endpoint is back and its list read again.        *)
(***************************************************************************)
EXTENDS Naturals, Sequences, FiniteSets

CONSTANTS
    Endpoints, Profiles, Messages,
    Home,            \* the endpoint each profile and message is on
    Situations,      \* the modems the areas may be opened for: see SituationType
    Unread, Failed,  \* no answer yet; the read failed, or gave no list
    Nothing,
    PollLimit,       \* polls before an operation never seen running is given up: 5 in the code
    Attempts,        \* further reads of the inventory while an endpoint is away: 6 in the code
    MaxElsewhere,    \* bound: operations of another page or a shell
    MaxPresses,      \* bound: controls pressed
    MaxCalls         \* bound: reads of the user's in flight

Reachables == {"yes", "requires-inhibit", "requires-bearer-stop", "requires-slot-change", "no"}

EndpointType ==
    [reachable : Reachables, proven : BOOLEAN, ambiguous : BOOLEAN,
     offers : {"yes", "no", "unknown"}]      \* the capabilities of the endpoint

SituationType ==
    [endpoint : [Endpoints -> EndpointType],
     state : [Profiles -> {"enabled", "disabled", "absent"}],
     known : BOOLEAN,         \* the card in use has been identified before
     bearer : BOOLEAN,        \* identifying it needs the connection stopped
     slots : BOOLEAN,         \* the slot table is published
     switch : BOOLEAN,        \* the modem can change slots
     read : BOOLEAN,          \* the areas were open before, and their card read
     failed : {"none", "download", "notification-send"}]  \* for want of a verified issuer

ASSUME EsimAssumption ==
    /\ Home \in [Profiles \cup Messages -> Endpoints]
    /\ Situations \subseteq SituationType
    /\ {PollLimit, Attempts, MaxElsewhere, MaxPresses, MaxCalls} \subseteq Nat

VARIABLES
    modem,     \* what the modem is like
    router,    \* the card, and the coordinator's operation, status and stored plan
    documents, \* inventory, lists of each endpoint, and status of the coordinator, as read
    calls,     \* reads in flight, besides those of the poll
    pending,   \* esimPending: the operation being followed
    wanted,    \* esimPlanWanted: the profile a plan is being made for
    reading,   \* esimCardPending
    poll,      \* what the poll is in the middle of
    shown,     \* esimMessagesOpen
    dialog,    \* the dialog that is open
    unverified,\* downloadAllowUnverified
    sent,      \* how many operations were sent that a dialog named, and the last
    asked,     \* profiles whose Delete was pressed
    blind,     \* endpoints changed by what this page did not follow to its end
    screen,    \* the controls drawn last, and whether they are disabled or were since
    spent      \* of the bounds: operations elsewhere, controls pressed

page == <<documents, calls, pending, wanted, reading, poll, shown, screen>>
user == <<dialog, unverified, sent, asked>>
vars == <<modem, router, page, user, blind, spent>>

NoEndpoint == ""
-----------------------------------------------------------------------------
(* The coordinator and the card.                                           *)

Idle == [busy |-> FALSE, verb |-> "none", endpoint |-> NoEndpoint, item |-> Nothing, id |-> 0,
         class |-> "idle", retry |-> FALSE]

\* action_status: the operation's verb, target and class; `retry' stands for an issuer
\* that could not be verified on a transport that may be retried without.
Running(op, id) ==
    [busy |-> TRUE, verb |-> op[1], endpoint |-> op[2], id |-> id, class |-> "running", retry |-> FALSE,
     item |-> IF op[1] = "notification-send" THEN op[3] ELSE Nothing]

\* esimTerminalClass, and what it is asked for.
\* Mutated form: only a full success changed the card.
OnlySuccess(class) == class = "succeeded"

mayHaveChanged(class) == class \in {"succeeded", "partial"}

On(e) == {p \in Profiles : Home[p] = e}

\* The card after an operation that may have changed it.
Written(op) ==
    LET verb == op[1]
        State(s) == [router EXCEPT !.state = s]
    IN  CASE verb = "enable" ->
               State([p \in Profiles |-> IF p = op[3] THEN "enabled"
                                         ELSE IF Home[p] = op[2] /\ router.state[p] = "enabled"
                                           THEN "disabled" ELSE router.state[p]])
          [] verb = "disable" -> State([router.state EXCEPT ![op[3]] = "disabled"])
          [] verb = "download" ->
               State([p \in Profiles |-> IF Home[p] = op[2] /\ router.state[p] = "absent"
                                           THEN "disabled" ELSE router.state[p]])
          [] verb = "delete-confirm" ->
               [router EXCEPT !.state[router.plan.profile] = "absent",
                              !.gone = @ \cup {router.plan.profile}, !.plan = Nothing]
          [] verb \in {"notification-send", "notification-remove"} ->
               [router EXCEPT !.messages = @ \ {op[3]}]
          [] verb \in {"card-probe", "read-takeover"} -> [router EXCEPT !.known = TRUE]
          [] OTHER -> router

\* A deletion needs the live plan of the operation it names, and a profile not in use.
Possible(op) ==
    op[1] = "delete-confirm" =>
        /\ router.plan # Nothing /\ router.plan.id = op[3] /\ router.plan.available
        /\ router.state[router.plan.profile] = "disabled"

\* A launch is served, turned away because an operation runs, or lost.
Serve ==
    /\ \E op \in router.queue :
         router' = [router EXCEPT
             !.queue = @ \ {op},
             !.worker = IF @ = Nothing THEN op ELSE @,
             !.here = @ \/ router.worker = Nothing,
             !.ops = IF router.worker = Nothing THEN @ + 1 ELSE @,
             !.status = IF router.worker = Nothing THEN Running(op, router.ops + 1) ELSE @]
    /\ UNCHANGED <<modem, page, user, blind, spent>>

Lose ==
    /\ \E op \in router.queue : router' = [router EXCEPT !.queue = @ \ {op}]
    /\ UNCHANGED <<modem, page, user, blind, spent>>

BeginElsewhere ==
    /\ spent.elsewhere < MaxElsewhere /\ router.worker = Nothing
    /\ spent' = [spent EXCEPT !.elsewhere = @ + 1]
    /\ \E p \in Profiles, verb \in {"enable", "delete-plan"} :
         /\ router.state[p] = "disabled"
         /\ router' = [router EXCEPT !.worker = <<verb, Home[p], p>>, !.here = FALSE, !.ops = @ + 1,
                                     !.status = Running(<<verb, Home[p], p>>, router.ops + 1)]
    /\ blind' = IF pending # Nothing /\ pending.follow THEN Endpoints ELSE blind
    /\ UNCHANGED <<modem, page, user>>

\* The operation ends, and the modem is handed back.  A plan is stored, as one or as a
\* refusal, unless the job died; a partial end may have changed the card or not.
Terminal(op, class) ==
    LET last == [router EXCEPT
            !.worker = Nothing, !.settled = FALSE,
            !.status = [@ EXCEPT !.busy = FALSE, !.class = class,
                        !.retry = op[1] \in {"download", "notification-send"} /\ class = "failed"]]
        After(r) == [last EXCEPT !.state = r.state, !.messages = r.messages, !.gone = r.gone,
                                 !.plan = r.plan, !.known = r.known]
        Plan(yes) == [id |-> router.status.id, endpoint |-> op[2], profile |-> op[3], available |-> yes]
    IN  IF op[1] = "delete-plan"
          THEN IF class = "succeeded"
                 THEN {[last EXCEPT !.plan = Plan(router.state[op[3]] = "disabled")]}
                 ELSE {last, [last EXCEPT !.plan = Plan(FALSE)]}
          ELSE CASE class = "succeeded" -> {After(Written(op)) : x \in {y \in {1} : Possible(op)}}
                 [] class = "partial" -> {last} \cup {After(Written(op)) : x \in {y \in {1} : Possible(op)}}
                 [] OTHER -> {last}

Followed == router.here /\ pending # Nothing /\ pending.follow /\ pending.op = router.worker

\* Nothing runs, and nothing is about to.
Quiet == router.queue = {} /\ router.worker = Nothing

End ==
    /\ router.worker # Nothing
    /\ \E class \in {"succeeded", "partial", "failed"} :
         \E r \in Terminal(router.worker, class) :
            /\ router' = r
            /\ blind' = IF r.state # router.state /\ ~Followed
                          THEN blind \cup {router.worker[2]} ELSE blind
    /\ UNCHANGED <<modem, page, user, spent>>

\* ModemManager names the modem again.
Enumerate ==
    /\ ~router.settled
    /\ router' = [router EXCEPT !.settled = TRUE]
    /\ UNCHANGED <<modem, page, user, blind, spent>>
-----------------------------------------------------------------------------
(* What is drawn.                                                          *)

Known(answer) == answer \notin {Unread, Failed}

\* esimOperationFor: what was read last stands in for an operation just sent.
esimOperationFor ==
    IF pending # Nothing /\ documents.action = Nothing
      THEN [Idle EXCEPT !.busy = TRUE] ELSE documents.action

subjectBusy == esimOperationFor # Nothing /\ esimOperationFor.busy

endpointMayBeRead(e) ==
    modem.endpoint[e].reachable \in {"yes", "requires-inhibit", "requires-bearer-stop"}

\* A control: its name, its endpoint, and the profile or message it is drawn beside.
endpointReadNodes(e) ==
    LET at == modem.endpoint[e].reachable
    IN  CASE at = "yes" -> {<<"esim-read", e, Nothing>>}
          [] at \in {"requires-inhibit", "requires-bearer-stop"} -> {<<"esim-takeover", e, Nothing>>}
          [] at = "requires-slot-change" /\ modem.switch -> {<<"slot-switch", e, Nothing>>}
          [] OTHER -> {}

profileControlNodes(e, p, state) ==
    {c \in {"esim-enable", "esim-disable", "esim-nickname", "esim-delete"} \X {e} \X {p} :
        /\ modem.endpoint[e].offers = "yes"
        /\ c[1] \in {"esim-enable", "esim-delete"} => state = "disabled"
        /\ c[1] = "esim-disable" => state = "enabled"}

\* notificationListNodes: folded away until it is opened.
notificationListNodes(e, messages) ==
    IF e \notin shown THEN {<<"esim-messages-show", e, Nothing>>}
    ELSE IF messages = Failed
      THEN {c \in {<<"esim-messages-read", e, Nothing>>} : endpointMayBeRead(e)}
      ELSE {c \in {"esim-notif-send", "esim-notif-remove"} \X {e} \X messages :
               modem.endpoint[e].offers = "yes"}

\* The messages have to be read from the card before they can be shown.
Unopened(e) == documents.lists[e].messages = Failed /\ endpointMayBeRead(e)

endpointCardNodes(e) ==
    LET list == documents.lists[e]
    IN  IF e \in reading \/ list = Unread THEN {}
        ELSE (IF list.profiles = Failed THEN {}
              ELSE UNION {profileControlNodes(e, p, list.profiles[p]) : p \in DOMAIN list.profiles})
             \cup notificationListNodes(e, list.messages)

endpointLifecycleNodes(e) ==
    {c \in {<<"esim-download", e, Nothing>>} :
        documents.lists[e] # Unread /\ modem.endpoint[e].offers = "yes"}

endpointPanel(e) ==
    IF modem.endpoint[e].ambiguous \/ ~modem.endpoint[e].proven THEN {}
    ELSE endpointReadNodes(e) \cup endpointCardNodes(e) \cup endpointLifecycleNodes(e)

\* probeNodes: nothing while the card is asked, or the modem handed back.
probeNodes ==
    IF <<"probe">> \in calls \/ poll # Nothing THEN {}
    ELSE IF modem.bearer THEN {<<"esim-card-probe", NoEndpoint, Nothing>>}
    ELSE {<<"esim-probe", NoEndpoint, Nothing>>}

\* slotRowNodes: the question, where the table is not published.
slotRowNodes ==
    {c \in {<<"modem-slot-probe", NoEndpoint, Nothing>>} :
        ~modem.slots /\ <<"slots">> \notin calls}

\* esimDowngradeNodes: the one downgrade, beside the failure it is permitted for.
esimDowngradeNodes ==
    LET a == documents.action
        again == a.verb = "notification-send" /\ a.item # Nothing
    IN  IF a # Nothing /\ ~a.busy /\ a.retry /\ a.endpoint \in documents.inventory.seen
           /\ (a.verb = "download" \/ again)
          THEN {<<"esim-unverified", a.endpoint, IF again THEN a.item ELSE Nothing>>} ELSE {}

Controls ==
    IF ~Known(documents.inventory) THEN {}
    ELSE slotRowNodes \cup esimDowngradeNodes
         \cup (IF documents.inventory.seen = {} THEN probeNodes
               ELSE UNION {endpointPanel(e) : e \in documents.inventory.seen})

renderRoute == screen' = [controls |-> Controls', busy |-> subjectBusy', greyed |-> FALSE]

setControlsBusy == screen' = [screen EXCEPT !.greyed = TRUE]

\* Messages that were read with the card are opened whatever runs.
Disabled(c) ==
    \/ screen.greyed
    \/ screen.busy /\ ~(c[1] = "esim-messages-show" /\ ~Unopened(c[2]))

\* Any other redraw: a launch answered, the documents of the page refreshed, a return
\* to the area.
Redraw ==
    /\ UNCHANGED <<modem, router, documents, calls, pending, wanted, reading, poll, shown, user, blind, spent>>
    /\ renderRoute
-----------------------------------------------------------------------------
(* Reads.  An answer is what the router says when it lands.                *)

Inventory == [seen |-> IF router.known /\ router.settled THEN Endpoints ELSE {}]

ProfileList(e) == [p \in {q \in On(e) : router.state[q] # "absent"} |-> router.state[p]]
MessageList(e) == {n \in router.messages : Home[n] = e}

\* readEndpointCard: both lists, either of which may not be had.
CardLists(e) ==
    [profiles : {Failed, ProfileList(e)}, messages : {Failed, MessageList(e)}]

\* ensureEsimInventory: the inventory, and then what the coordinator did last.  Either
\* answer is kept.
InventoryRead ==
    /\ <<"inventory">> \in calls
    /\ calls' = (calls \ {<<"inventory">>}) \cup {<<"action">>}
    /\ \E answer \in {Inventory, Failed} : documents' = [documents EXCEPT !.inventory = answer]
    /\ UNCHANGED <<modem, router, pending, wanted, reading, poll, shown, user, blind,
                   spent, screen>>

\* An operation found running is followed, but its end reads no card.
ActionRead ==
    /\ <<"action">> \in calls
    /\ calls' = calls \ {<<"action">>}
    /\ \/ UNCHANGED <<documents, pending>>
       \/ /\ documents' = [documents EXCEPT !.action = router.status]
          /\ pending' = IF router.status.busy /\ pending = Nothing
                          THEN [op |-> <<router.status.verb, router.status.endpoint, router.status.item>>,
                                follow |-> FALSE, started |-> TRUE, waited |-> 0]
                          ELSE pending
    /\ UNCHANGED <<modem, router, wanted, reading, poll, shown, user, blind, spent>>
    /\ renderRoute

\* startEsimProbe: a probe that failed changes nothing.
ProbeRead ==
    /\ <<"probe">> \in calls
    /\ calls' = calls \ {<<"probe">>}
    /\ \/ UNCHANGED <<router, documents>>
       \/ /\ router' = [router EXCEPT !.known = @ \/ \E e \in Endpoints : modem.endpoint[e].reachable = "yes"]
          /\ documents' = [documents EXCEPT !.inventory = Inventory']
    /\ UNCHANGED <<modem, pending, wanted, reading, poll, shown, user, blind, spent>>
    /\ renderRoute

\* askAboutSlots: what the modem answered is in the next inventory.
SlotsAsked ==
    /\ <<"slots">> \in calls
    /\ \/ modem' = [modem EXCEPT !.slots = TRUE] /\ calls' = (calls \ {<<"slots">>}) \cup {<<"inventory">>}
       \/ UNCHANGED modem /\ calls' = calls \ {<<"slots">>}
    /\ UNCHANGED <<router, documents, pending, wanted, reading, poll, shown, user, blind,
                   spent>>
    /\ renderRoute

\* startEsimRead's end.
CardRead ==
    /\ \E e \in Endpoints :
         /\ <<"card", e>> \in calls
         /\ calls' = calls \ {<<"card", e>>}
         /\ \E list \in CardLists(e) :
               /\ documents' = [documents EXCEPT !.lists[e] = list]
               /\ blind' = IF list.profiles # Failed /\ Quiet THEN blind \ {e} ELSE blind
         /\ reading' = reading \ {e}
    /\ UNCHANGED <<modem, router, pending, wanted, poll, shown, user, spent>>
    /\ renderRoute

Confirmation(op) == [kind |-> "confirm", op |-> op]

\* A plan lands: a dialog that names the operation replaces whatever is open, or the
\* refusal is drawn where the control is.
PlanRead ==
    /\ UNCHANGED <<modem, router, documents, pending, wanted, reading, poll, shown,
                   unverified, sent, asked, blind, spent>>
    /\ \E c \in {d \in calls : d[1] = "plan"} :
         /\ calls' = calls \ {c}
         /\ \/ dialog' = Confirmation(c[2]) /\ UNCHANGED screen
            \/ UNCHANGED dialog /\ renderRoute
-----------------------------------------------------------------------------
(* The poll that follows an operation, and what it does at its end.        *)

\* An operation that is never seen running is not waited for.
GivenUp(p) == p.waited + 1 >= PollLimit

\* refreshEsimOperationFor, and the start of afterEsimOperation: whatever has ended is
\* taken for what is pending.
Poll ==
    /\ poll = Nothing /\ pending # Nothing
    /\ documents' = [documents EXCEPT !.action = router.status]
    /\ UNCHANGED <<modem, router, calls, wanted, shown, user, blind, spent>>
    /\ \/ /\ router.status.busy
          /\ pending' = [pending EXCEPT !.started = TRUE, !.waited = 0]
          /\ UNCHANGED <<poll, reading>>
          /\ renderRoute
       \/ /\ ~router.status.busy /\ ~pending.started /\ ~GivenUp(pending)
          /\ pending' = [pending EXCEPT !.waited = @ + 1]
          /\ UNCHANGED <<poll, reading, screen>>
       \/ /\ ~router.status.busy /\ (pending.started \/ GivenUp(pending))
          /\ pending' = Nothing
          /\ LET reads == pending.follow /\ mayHaveChanged(router.status.class)
             IN  /\ reading' = IF reads THEN reading \cup {pending.op[2]} ELSE reading
                 /\ poll' = [stage |-> "endpoint", endpoint |-> pending.op[2],
                             plans |-> pending.op[1] = "delete-plan", id |-> router.status.id,
                             reads |-> reads, left |-> Attempts, profile |-> Nothing]
          /\ renderRoute

\* Mutated form: the reads are not counted.
NotCounted(p) == p

Asked(p) == [p EXCEPT !.left = @ - 1]

\* waitForEndpoint: asked again until the endpoint is back, a limited number of times.
AwaitEndpoint ==
    /\ poll # Nothing /\ poll.stage = "endpoint" /\ poll.left > 0 /\ poll.endpoint # NoEndpoint
    /\ \E answer \in {Inventory, Failed} :
         /\ Known(answer) => poll.endpoint \notin answer.seen
         /\ documents' = [documents EXCEPT !.inventory = answer]
    /\ poll' = Asked(poll)
    /\ UNCHANGED <<modem, router, calls, pending, wanted, reading, shown, user, blind,
                   spent>>
    /\ renderRoute

\* A plan that is still wanted is fetched, and a card that may have changed is read;
\* without the endpoint, neither.
EndpointBack ==
    /\ poll # Nothing /\ poll.stage = "endpoint"
    /\ \E answer \in {Inventory, Failed} :
         LET e == poll.endpoint
             back == Known(answer) /\ e \in answer.seen
             plans == poll.plans /\ wanted # Nothing /\ poll.id # 0
         IN  /\ back \/ poll.left = 0 \/ e = NoEndpoint
             /\ documents' = [documents EXCEPT !.inventory = answer]
             /\ poll' = [poll EXCEPT
                    !.stage = CASE back /\ plans -> "plan" [] back /\ poll.reads -> "card"
                                [] OTHER -> "refresh",
                    !.profile = wanted]
             /\ wanted' = IF poll.plans THEN Nothing ELSE wanted
             /\ blind' = IF poll.reads /\ ~back THEN blind \cup {e} ELSE blind
    /\ UNCHANGED <<modem, router, calls, pending, reading, shown, user, spent, screen>>

\* Mutated form: the plan is the operation's, whatever profile it is for.
PlanOfTheOperation(plan) ==
    plan # Nothing /\ plan.endpoint = poll.endpoint /\ plan.id = poll.id /\ plan.available

\* collectDeletePlan: the plan of the operation that ended, and of no other profile than
\* the one it was asked for, opens the dialog; it may come with no time left.
PlanWanted(plan) ==
    /\ plan # Nothing /\ plan.endpoint = poll.endpoint /\ plan.id = poll.id
    /\ plan.available /\ plan.profile = poll.profile

PlanCollected ==
    /\ poll # Nothing /\ poll.stage = "plan"
    /\ poll' = [poll EXCEPT !.stage = "refresh"]
    /\ UNCHANGED <<modem, router, documents, calls, pending, wanted, reading, shown,
                   unverified, sent, asked, blind, spent>>
    /\ \/ /\ PlanWanted(router.plan)
          /\ \E expired \in BOOLEAN :
               dialog' = [kind |-> "delete", profile |-> router.plan.profile,
                          op |-> <<"delete-confirm", router.plan.endpoint, router.plan.id>>,
                          expired |-> expired]
          /\ UNCHANGED screen
       \/ UNCHANGED dialog /\ renderRoute

CardCollected ==
    /\ poll # Nothing /\ poll.stage = "card"
    /\ poll' = [poll EXCEPT !.stage = "refresh"]
    /\ \E list \in CardLists(poll.endpoint) :
         /\ documents' = [documents EXCEPT !.lists[poll.endpoint] = list]
         /\ blind' = IF list.profiles # Failed /\ Quiet THEN blind \ {poll.endpoint} ELSE blind
    /\ UNCHANGED <<modem, router, calls, pending, wanted, reading, shown, user,
                   spent, screen>>

\* refreshDocuments, whether it succeeds or not, and what was pending with it.
Refreshed ==
    /\ poll # Nothing /\ poll.stage = "refresh"
    /\ poll' = Nothing
    /\ reading' = reading \ {poll.endpoint}
    /\ UNCHANGED <<modem, router, documents, calls, pending, wanted, shown, user, blind,
                   spent>>
    /\ renderRoute
-----------------------------------------------------------------------------
(* The user.                                                               *)

\* startEsimAction and startEsimSecretAction, up to the call.  What was being followed
\* is no longer.
Start(op, follow) ==
    /\ router' = [router EXCEPT !.queue = @ \cup {op}]
    /\ pending' = [op |-> op, follow |-> follow, started |-> FALSE, waited |-> 0]
    /\ blind' = IF Quiet /\ pending = Nothing THEN blind ELSE Endpoints
    /\ setControlsBusy
    /\ UNCHANGED <<modem, documents, calls, reading, poll, shown>>

Call(c) ==
    /\ Cardinality(calls) < MaxCalls
    /\ calls' = calls \cup {c}
    /\ UNCHANGED <<modem, router, documents, pending, wanted, poll, user, blind>>

Plan(op) == <<"plan", op>>

\* beginEndpointRead: startEsimRead, or the plan of a takeover.
BeginEndpointRead(e) ==
    IF modem.endpoint[e].reachable = "yes"
      THEN /\ e \notin reading
           /\ Call(<<"card", e>>)
           /\ reading' = reading \cup {e}
           /\ renderRoute
      ELSE ~subjectBusy /\ Call(Plan(<<"read-takeover", e, Nothing>>)) /\ UNCHANGED <<reading, screen>>

Pressed(c) ==
    /\ dialog = Nothing /\ c \in screen.controls /\ ~Disabled(c)
    /\ spent.presses < MaxPresses /\ spent' = [spent EXCEPT !.presses = @ + 1]

\* Controls that read, or ask for the plan a dialog is made from.
PressRead ==
    \E c \in screen.controls :
        LET e == c[2]
            Ask(op) == ~subjectBusy /\ Call(Plan(op)) /\ UNCHANGED <<reading, shown, screen>>
        IN  /\ Pressed(c)
            /\ CASE c[1] \in {"esim-read", "esim-takeover", "esim-messages-read"} ->
                      UNCHANGED shown /\ BeginEndpointRead(e)
                 [] c[1] = "esim-card-probe" -> Ask(<<"card-probe", e, Nothing>>)
                 [] c[1] = "slot-switch" -> Ask(<<"slot-switch", e, Nothing>>)
                 [] c[1] = "esim-enable" -> Ask(<<"enable", e, c[3]>>)
                 [] c[1] = "esim-disable" -> Ask(<<"disable", e, c[3]>>)
                 [] c[1] = "esim-probe" ->
                      <<"probe">> \notin calls /\ Call(<<"probe">>) /\ UNCHANGED <<reading, shown>> /\ renderRoute
                 [] c[1] = "modem-slot-probe" ->
                      ~subjectBusy /\ Call(<<"slots">>) /\ UNCHANGED <<reading, shown>> /\ renderRoute
                 [] c[1] = "esim-messages-show" ->
                      /\ shown' = shown \cup {e}
                      /\ IF Unopened(e) THEN BeginEndpointRead(e)
                         ELSE /\ UNCHANGED <<modem, router, documents, calls, pending, wanted, reading,
                                             poll, user, blind>>
                              /\ renderRoute
                 [] OTHER -> FALSE

\* What a downgrade sends was fixed when its control was drawn.
Downgraded(c) == <<IF c[3] = Nothing THEN "download" ELSE "notification-send", c[2], c[3]>>

Form(kind, op, agreed) == [kind |-> kind, op |-> op, agreed |-> agreed]

\* Controls that open a dialog at once: each dialog names what it will send.
PressDialog ==
    /\ \E c \in screen.controls :
         LET e == c[2]
         IN  /\ Pressed(c)
             /\ c[1] # "esim-unverified" => ~subjectBusy
             /\ \/ /\ c[1] = "esim-nickname"
                   /\ dialog' = Confirmation(<<"nickname", e, c[3]>>)
                \/ /\ c[1] = "esim-notif-send"
                   /\ dialog' = Confirmation(<<"notification-send", e, c[3]>>)
                \/ /\ c[1] = "esim-notif-remove"
                   /\ dialog' = Confirmation(<<"notification-remove", e, c[3]>>)
                \/ /\ c[1] = "esim-download"
                   /\ dialog' = Form("download", <<"download", e, Nothing>>, FALSE)
                \/ /\ c[1] = "esim-unverified"
                   /\ dialog' = Form("downgrade", Downgraded(c), TRUE)
    /\ UNCHANGED <<modem, router, page, unverified, sent, asked, blind>>

\* Mutated form: profile and endpoint change places.
SwappedPlan(e, p) == wanted' = p /\ Start(<<"delete-plan", p, e>>, FALSE)

\* planDeletion: the profile is kept beside the operation that plans it.
planDeletion(e, p) == wanted' = p /\ Start(<<"delete-plan", e, p>>, FALSE)

\* openDeleteFlow: a card that cannot be read freely is read with consent first.
PressDelete ==
    \E e \in Endpoints, p \in Profiles :
        /\ Pressed(<<"esim-delete", e, p>>) /\ ~subjectBusy
        /\ asked' = asked \cup {p}
        /\ UNCHANGED <<dialog, unverified, sent>>
        /\ IF modem.endpoint[e].reachable = "yes" THEN planDeletion(e, p)
           ELSE /\ Cardinality(calls) < MaxCalls
                /\ calls' = calls \cup {Plan(<<"delete-plan", e, p>>)}
                /\ UNCHANGED <<modem, router, documents, pending, wanted, reading, poll, shown, screen, blind>>

\* The plan of a deletion has a time limit.
Expire ==
    /\ dialog # Nothing /\ dialog.kind = "delete" /\ ~dialog.expired
    /\ dialog' = [dialog EXCEPT !.expired = TRUE]
    /\ UNCHANGED <<modem, router, page, unverified, sent, asked, blind, spent>>

\* closeDialog and closeDownloadDialog: neither takes back the consent of a downgrade.
Cancel ==
    /\ dialog # Nothing
    /\ dialog' = Nothing
    /\ UNCHANGED <<modem, router, page, unverified, sent, asked, blind, spent>>

Send(op, transport, agreed) ==
    sent' = [count |-> sent.count + 1, op |-> op, unverified |-> transport, agreed |-> agreed]

\* startSlotSwitch is the modem coordinator's: it is not followed here.
Confirm ==
    /\ dialog # Nothing /\ dialog.kind = "confirm"
    /\ dialog' = Nothing
    /\ Send(dialog.op, FALSE, FALSE)
    /\ CASE dialog.op[1] = "delete-plan" -> planDeletion(dialog.op[2], dialog.op[3])
         [] dialog.op[1] = "slot-switch" ->
              /\ setControlsBusy
              /\ UNCHANGED <<modem, router, documents, calls, pending, wanted, reading, poll, shown, blind>>
         [] OTHER -> Start(dialog.op, dialog.op[1] # "card-probe") /\ UNCHANGED wanted
    /\ UNCHANGED <<unverified, asked, spent>>

\* confirmDownload: the consent of the downgrade travels with the attempt.
ConfirmDownload ==
    /\ dialog # Nothing /\ dialog.kind = "download"
    /\ dialog' = Nothing /\ unverified' = FALSE
    /\ Send(dialog.op, unverified, dialog.agreed)
    /\ Start(dialog.op, TRUE)
    /\ UNCHANGED <<wanted, asked, spent>>

\* offerUnverifiedRetry: a message is sent again; a download needs its form again.
ConfirmDowngrade ==
    /\ dialog # Nothing /\ dialog.kind = "downgrade"
    /\ IF dialog.op[1] = "download"
         THEN /\ unverified' = TRUE
              /\ IF subjectBusy THEN dialog' = Nothing
                 ELSE dialog' = Form("download", dialog.op, TRUE)
              /\ UNCHANGED <<modem, router, page, sent, blind>>
         ELSE /\ dialog' = Nothing
              /\ Send(dialog.op, TRUE, TRUE)
              /\ Start(dialog.op, TRUE)
              /\ UNCHANGED <<wanted, unverified>>
    /\ UNCHANGED <<asked, spent>>

\* Mutated form: the dialog stays open, for a second press.
DeleteAndStay ==
    /\ dialog # Nothing /\ dialog.kind = "delete" /\ ~dialog.expired
    /\ Send(dialog.op, FALSE, FALSE)
    /\ Start(dialog.op, TRUE)
    /\ UNCHANGED <<dialog, wanted, unverified, asked, spent>>

ConfirmDelete ==
    /\ dialog # Nothing /\ dialog.kind = "delete" /\ ~dialog.expired
    /\ dialog' = Nothing
    /\ Send(dialog.op, FALSE, FALSE)
    /\ Start(dialog.op, TRUE)
    /\ UNCHANGED <<wanted, unverified, asked, spent>>
-----------------------------------------------------------------------------
\* What the coordinator did last, before.
Before ==
    LET LastFailed(e, n) == [Idle EXCEPT !.verb = modem.failed, !.endpoint = e, !.item = n,
                                         !.class = "failed", !.retry = TRUE]
    IN  IF modem.failed = "none" THEN {Idle}
        ELSE IF modem.failed = "download" THEN {LastFailed(e, Nothing) : e \in Endpoints}
        ELSE {LastFailed(Home[n], n) : n \in Messages}

Fresh(status) ==
    [state |-> modem.state, messages |-> Messages, gone |-> {}, plan |-> Nothing,
     settled |-> TRUE, known |-> modem.known, worker |-> Nothing, here |-> TRUE, queue |-> {},
     status |-> status, ops |-> 0]

Init ==
    /\ modem \in Situations
    /\ \E status \in Before :
         /\ router = Fresh(status)
         /\ documents =
              IF modem.read
                THEN [inventory |-> Inventory, action |-> status,
                      lists |-> [e \in Endpoints |-> [profiles |-> ProfileList(e), messages |-> MessageList(e)]]]
                ELSE [inventory |-> Unread, action |-> Nothing, lists |-> [e \in Endpoints |-> Unread]]
    /\ calls = IF modem.read THEN {} ELSE {<<"inventory">>}
    /\ pending = Nothing /\ wanted = Nothing /\ reading = {} /\ poll = Nothing
    /\ shown = {}
    /\ dialog = Nothing /\ unverified = FALSE
    /\ sent = [count |-> 0, op |-> Nothing, unverified |-> FALSE, agreed |-> FALSE]
    /\ asked = {} /\ blind = {}
    /\ screen = [controls |-> {}, busy |-> FALSE, greyed |-> FALSE]
    /\ spent = [elsewhere |-> 0, presses |-> 0]

Coordinator == Serve \/ Lose \/ BeginElsewhere \/ End \/ Enumerate

Reading == InventoryRead \/ ActionRead \/ ProbeRead \/ SlotsAsked \/ CardRead \/ PlanRead

Following == Poll \/ AwaitEndpoint \/ EndpointBack \/ PlanCollected \/ CardCollected \/ Refreshed

User ==
    \/ PressRead \/ PressDialog \/ PressDelete \/ Expire
    \/ Cancel \/ Confirm  \/ ConfirmDownload \/ ConfirmDowngrade \/ ConfirmDelete

Next == Coordinator \/ Reading \/ Following \/ User \/ Redraw

\* The coordinator's operations end, calls are answered, and the poll runs every three
\* seconds; nobody has to press anything.
Fairness ==
    /\ WF_vars(End) /\ WF_vars(Enumerate) /\ WF_vars(Serve)
    /\ WF_vars(Following) /\ WF_vars(Reading)

Spec == Init /\ [][Next]_vars /\ Fairness
-----------------------------------------------------------------------------
(* What may be sent, drawn and known.                                      *)

\* The operations of the coordinator; a deletion is confirmed by the number of its plan.
Requests ==
    {<<v, Home[p], p>> : v \in {"enable", "disable", "nickname", "delete-plan"}, p \in Profiles}
    \cup {<<v, Home[n], n>> : v \in {"notification-send", "notification-remove"}, n \in Messages}
    \cup {"read-takeover", "slot-switch", "download"} \X Endpoints \X {Nothing}
    \cup {<<"card-probe", NoEndpoint, Nothing>>}
Deletions == {"delete-confirm"} \X Endpoints \X Nat
Operations == Requests \cup Deletions

ControlType ==
    {<<v, Home[p], p>> : v \in {"esim-enable", "esim-disable", "esim-nickname", "esim-delete"}, p \in Profiles}
    \cup {<<v, Home[n], n>> : v \in {"esim-notif-send", "esim-notif-remove", "esim-unverified"}, n \in Messages}
    \cup {"esim-read", "esim-takeover", "slot-switch", "esim-messages-show", "esim-messages-read",
          "esim-download", "esim-unverified"} \X Endpoints \X {Nothing}
    \cup {"esim-card-probe", "esim-probe", "modem-slot-probe"} \X {NoEndpoint} \X {Nothing}

Verbs == {"none", "card-probe", "read-takeover", "enable", "disable", "nickname", "download",
          "delete-plan", "notification-send", "notification-remove", "slot-switch", "delete-confirm"}

Statuses ==
    {s \in [busy : BOOLEAN, verb : Verbs, endpoint : Endpoints \cup {NoEndpoint},
            item : Messages \cup {Nothing}, id : Nat, retry : BOOLEAN,
            class : {"idle", "running", "succeeded", "partial", "failed"}] :
        s.item # Nothing => Home[s.item] = s.endpoint}

Plans == {x \in [id : Nat, endpoint : Endpoints, profile : Profiles, available : BOOLEAN] :
            Home[x.profile] = x.endpoint}

Routers ==
    [state : [Profiles -> {"enabled", "disabled", "absent"}], messages : SUBSET Messages,
     gone : SUBSET Profiles, plan : Plans \cup {Nothing}, settled : BOOLEAN, known : BOOLEAN,
     worker : Operations \cup {Nothing}, here : BOOLEAN, queue : SUBSET Operations,
     status : Statuses, ops : Nat]

Lists(e) ==
    {Unread} \cup
    [profiles : {Failed} \cup UNION {[S -> {"enabled", "disabled"}] : S \in SUBSET On(e)},
     messages : {Failed} \cup SUBSET {n \in Messages : Home[n] = e}]

Documents ==
    [inventory : {Unread, Failed} \cup [seen : SUBSET Endpoints], action : Statuses \cup {Nothing},
     lists : {l \in [Endpoints -> UNION {Lists(e) : e \in Endpoints}] : \A e \in Endpoints : l[e] \in Lists(e)}]

Calls == {<<"inventory">>, <<"action">>, <<"probe">>, <<"slots">>} \cup {<<"card", e>> : e \in Endpoints}
         \cup {<<"plan", op>> : op \in Requests}

Dialogs ==
    [kind : {"confirm"}, op : Requests]
    \cup [kind : {"download", "downgrade"}, agreed : BOOLEAN,
          op : {op \in Requests : op[1] \in {"download", "notification-send"}}]
    \cup [kind : {"delete"}, profile : Profiles, op : Deletions, expired : BOOLEAN]

\* Only what changes a card is followed; an operation that was found running may be any.
Follows ==
    {x \in [op : Verbs \X (Endpoints \cup {NoEndpoint}) \X (Profiles \cup Messages \cup Nat \cup {Nothing}),
            follow : BOOLEAN, started : BOOLEAN, waited : Nat] :
        x.follow => x.op \in Operations /\ x.op[1] # "delete-plan" /\ x.op[2] \in Endpoints}

Polls ==
    {x \in [stage : {"endpoint", "plan", "card", "refresh"}, endpoint : Endpoints \cup {NoEndpoint},
            plans : BOOLEAN, id : Nat, reads : BOOLEAN, left : Nat, profile : Profiles \cup {Nothing}] :
        /\ x.reads => x.endpoint \in Endpoints /\ ~x.plans
        /\ x.stage = "card" => x.reads}

\* What is not there is none of these.
ASSUME NamesAssumption == Nothing \notin Operations \cup Follows \cup Polls

\* The type of the variables: an operation, a control and a list name the profiles and
\* messages of one endpoint, and the endpoint they are on.
TypeOK ==
    /\ modem \in SituationType
    /\ router \in Routers
    /\ documents \in Documents
    /\ calls \subseteq Calls
    /\ pending \in Follows \cup {Nothing}
    /\ wanted \in Profiles \cup {Nothing}
    /\ poll \in Polls \cup {Nothing}
    /\ reading \subseteq Endpoints /\ shown \subseteq Endpoints /\ blind \subseteq Endpoints
    /\ dialog \in Dialogs \cup {Nothing} /\ unverified \in BOOLEAN
    /\ sent \in [count : Nat, op : Operations \cup {Nothing}, unverified : BOOLEAN, agreed : BOOLEAN]
    /\ asked \subseteq Profiles
    /\ screen \in [controls : SUBSET ControlType, busy : BOOLEAN, greyed : BOOLEAN]
-----------------------------------------------------------------------------
(* Properties.                                                             *)

\* A profile is removed only if its own Delete was pressed on this page and the dialog
\* that named it was confirmed, whatever other plans the coordinator made meanwhile.
OnlyNamedIsDeleted == router.gone \subseteq asked

\* Once an operation has been followed to its end, and its endpoint came back, no control
\* contradicts the card: nothing is enabled that is in use, or switched off that is not.
ListsFollowTheCard ==
    pending = Nothing /\ poll = Nothing =>
        \A c \in screen.controls :
            c[1] \in {"esim-enable", "esim-disable", "esim-delete"} /\ c[2] \notin blind =>
                router.state[c[3]] = IF c[1] = "esim-disable" THEN "enabled" ELSE "disabled"

\* A transport that is not verified is used only by an attempt whose own dialog said so.
UnverifiedIsAgreed == sent.unverified => sent.agreed

\* The page implements Consent: what changes the card or takes the modem is sent once for
\* each confirmation that named it.  (The plan of a deletion on a card that is read freely
\* changes nothing and is not confirmed; agreeing to a download's downgrade opens the form
\* again.)
Consented == INSTANCE Consent WITH
    Operations <- Operations,
    asked <- IF dialog = Nothing THEN Nothing ELSE dialog.op,
    last <- sent.op,
    count <- sent.count
KeepsConsent == Consented!Spec

\* Whatever becomes of what was sent, the page stops following it, and its controls come
\* back.
ControlsComeBack == []<>(pending = Nothing /\ poll = Nothing)
=============================================================================
