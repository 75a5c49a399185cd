--------------------------- MODULE EsimPageProofs ---------------------------
(***************************************************************************)
(* Proofs about the eSIM areas, for any endpoints, profiles, messages and  *)
(* operations of others.                                                   *)
(*                                                                         *)
(* DeletionInv follows a deletion from the press of Delete to the card: a  *)
(* number is given to one plan, and nothing names a plan yet to be made.   *)
(* CardInv relates what is drawn to the card: what was read holds, or the  *)
(* page is about to read it again, unless the endpoint is one it is blind  *)
(* to.                                                                     *)
(***************************************************************************)
EXTENDS EsimPage, TLAPS

\* A confirmed deletion is on its way from the dialog that names it to the card.
Under(op) == op \in router.queue \/ op = router.worker \/ (dialog # Nothing /\ op = dialog.op)

\* Nothing names an operation that has not begun.
Numbered ==
    /\ router.worker # Nothing => router.status.id = router.ops
    /\ router.plan # Nothing =>
         router.plan.id <= router.ops /\ (router.worker # Nothing => router.plan.id < router.ops)
    /\ \A op \in Deletions : Under(op) =>
         op[3] <= router.ops /\ (router.worker # Nothing => op[3] < router.ops)

\* A deletion that would find its plan stored would delete what was asked for.
PlansAreNamed ==
    \A op \in Deletions : Under(op) /\ router.plan # Nothing /\ router.plan.id = op[3] =>
        router.plan.profile \in asked /\ router.plan.endpoint = op[2]

Deletes(op) == op[1] = "delete-plan" => op[3] \in asked

\* What leads to a plan leads to the plan of a profile whose Delete was pressed.
WantedIsAsked ==
    /\ wanted \in asked \cup {Nothing}
    /\ poll # Nothing /\ poll.stage = "plan" => poll.profile \in asked
    /\ \A op \in Requests : <<"plan", op>> \in calls => Deletes(op)
    /\ dialog # Nothing => Deletes(dialog.op)

DeletionInv == Numbered /\ PlansAreNamed /\ WantedIsAsked /\ OnlyNamedIsDeleted

\* What was read of the card is what it holds.
Right(e) ==
    documents.lists[e] # Unread /\ documents.lists[e].profiles # Failed =>
        documents.lists[e].profiles = ProfileList(e)

\* The page is about to read it again.
Due(e) ==
    \/ /\ pending # Nothing /\ pending.follow /\ pending.op[2] = e
       /\ Quiet /\ ~router.status.busy /\ mayHaveChanged(router.status.class)
    \/ /\ poll # Nothing /\ poll.reads /\ poll.endpoint = e /\ poll.stage \in {"endpoint", "card"}

\* What is followed is all there is, or the page cannot tell what became of any card.
Alone ==
    pending # Nothing /\ pending.follow /\ (\E e \in Endpoints : e \notin blind) =>
        /\ router.queue \subseteq {pending.op}
        /\ router.worker # Nothing =>
             router.worker = pending.op /\ router.here /\ router.queue = {}

Choosing == {"esim-enable", "esim-disable", "esim-delete"}
Agrees(c) == router.state[c[3]] = IF c[1] = "esim-disable" THEN "enabled" ELSE "disabled"

ListsAreRight == \A e \in Endpoints : e \notin blind => Right(e) \/ Due(e)

\* What is drawn agrees with the card, is about to be read, or waits for the redraw that
\* ends the poll.
ScreenIsRight ==
    \A c \in screen.controls :
        c[1] \in Choosing /\ c[2] \notin blind =>
            Agrees(c) \/ Due(c[2]) \/ (poll # Nothing /\ poll.endpoint = c[2])

CardInv == Alone /\ ListsAreRight /\ ScreenIsRight

PageInv == TypeOK /\ DeletionInv /\ CardInv
-----------------------------------------------------------------------------
(* Operations and controls.                                                *)

LEMMA OperationParts ==
    ASSUME NEW op \in Operations
    PROVE  /\ op = <<op[1], op[2], op[3]>>
           /\ op[1] \in Verbs /\ op[2] \in Endpoints \cup {NoEndpoint}
           /\ op[3] \in Profiles \cup Messages \cup Nat \cup {Nothing}
           /\ op[1] # "card-probe" => op[2] \in Endpoints
           /\ op[1] \in {"enable", "disable", "nickname", "delete-plan"} =>
                op[3] \in Profiles /\ Home[op[3]] = op[2]
           /\ op[1] \in {"notification-send", "notification-remove"} =>
                op[3] \in Messages /\ Home[op[3]] = op[2]
           /\ op \in Deletions <=> op[1] = "delete-confirm"
  BY EsimAssumption DEF Operations, Requests, Deletions, Verbs

LEMMA ProfileRequests ==
    ASSUME NEW p \in Profiles, NEW v \in {"enable", "disable", "nickname", "delete-plan"}
    PROVE  <<v, Home[p], p>> \in Requests
  BY DEF Requests

LEMMA ControlParts ==
    ASSUME NEW c \in ControlType
    PROVE  /\ c = <<c[1], c[2], c[3]>>
           /\ c[2] \in Endpoints \cup {NoEndpoint}
           /\ c[1] \in {"esim-enable", "esim-disable", "esim-nickname", "esim-delete"} =>
                c[3] \in Profiles /\ Home[c[3]] = c[2]
           /\ c[1] \in {"esim-notif-send", "esim-notif-remove"} =>
                c[3] \in Messages /\ Home[c[3]] = c[2]
           /\ c[1] = "esim-unverified" /\ c[3] # Nothing =>
                c[3] \in Messages /\ Home[c[3]] = c[2]
           /\ c[1] \notin {"esim-card-probe", "esim-probe", "modem-slot-probe"} => c[2] \in Endpoints
  BY EsimAssumption DEF ControlType

\* What a control asks for, or has a dialog ask for, is an operation.
LEMMA ControlsRequest ==
    ASSUME NEW c \in ControlType
    PROVE  /\ c[1] = "esim-enable" => <<"enable", c[2], c[3]>> \in Requests
           /\ c[1] = "esim-disable" => <<"disable", c[2], c[3]>> \in Requests
           /\ c[1] = "esim-nickname" => <<"nickname", c[2], c[3]>> \in Requests
           /\ c[1] = "esim-delete" => <<"delete-plan", c[2], c[3]>> \in Requests
           /\ c[1] = "esim-notif-send" => <<"notification-send", c[2], c[3]>> \in Requests
           /\ c[1] = "esim-notif-remove" => <<"notification-remove", c[2], c[3]>> \in Requests
           /\ c[1] \in {"esim-read", "esim-takeover", "esim-messages-read", "esim-messages-show"} =>
                <<"read-takeover", c[2], Nothing>> \in Requests
           /\ c[1] = "slot-switch" => <<"slot-switch", c[2], Nothing>> \in Requests
           /\ c[1] = "esim-card-probe" => <<"card-probe", c[2], Nothing>> \in Requests
           /\ c[1] = "esim-download" => <<"download", c[2], Nothing>> \in Requests
           /\ c[1] = "esim-unverified" => Downgraded(c) \in Requests
  BY ControlParts DEF ControlType, Requests, Downgraded
-----------------------------------------------------------------------------
(* Types.                                                                  *)

LEMMA InventoryType == Inventory \in [seen : SUBSET Endpoints]
  BY DEF Inventory

LEMMA CardType ==
    ASSUME TypeOK, NEW e \in Endpoints, NEW list \in CardLists(e)
    PROVE  list \in Lists(e)
  BY DEF TypeOK, CardLists, ProfileList, MessageList, Lists, On, Routers

LEMMA IdleType == Idle \in Statuses
  BY DEF Idle, Statuses, Verbs

\* What is drawn beside a profile or a message names the endpoint it is on.
LEMMA ControlsType == documents \in Documents => Controls \subseteq ControlType
  <1> SUFFICES ASSUME documents \in Documents PROVE Controls \subseteq ControlType
    OBVIOUS
  <1>1. ASSUME NEW e \in Endpoints
        PROVE  endpointReadNodes(e) \subseteq ControlType
    BY DEF endpointReadNodes, ControlType
  <1>2. ASSUME NEW e \in Endpoints, documents.lists[e] # Unread
        PROVE  endpointCardNodes(e) \subseteq ControlType
    <2> DEFINE list == documents.lists[e]
    <2>1. list \in [profiles : {Failed} \cup UNION {[S -> {"enabled", "disabled"}] : S \in SUBSET On(e)},
                    messages : {Failed} \cup SUBSET {n \in Messages : Home[n] = e}]
      BY <1>2 DEF Documents, Lists
    <2>2. ASSUME list.profiles # Failed, NEW p \in DOMAIN list.profiles
          PROVE  profileControlNodes(e, p, list.profiles[p]) \subseteq ControlType
      <3>1. p \in Profiles /\ Home[p] = e
        BY <2>1, <2>2 DEF On
      <3>2. QED
        BY <3>1 DEF profileControlNodes, ControlType
    <2>3. ASSUME list.messages # Failed
          PROVE  {c \in {"esim-notif-send", "esim-notif-remove"} \X {e} \X list.messages :
                     modem.endpoint[e].offers = "yes"} \subseteq ControlType
      <3>1. list.messages \subseteq {n \in Messages : Home[n] = e}
        BY <2>1, <2>3
      <3>2. QED
        BY <3>1 DEF ControlType
    <2>4. {<<"esim-messages-show", e, Nothing>>, <<"esim-messages-read", e, Nothing>>} \subseteq ControlType
      BY DEF ControlType
    <2>5. notificationListNodes(e, list.messages) \subseteq ControlType
      BY <2>3, <2>4 DEF notificationListNodes
    <2>6. QED
      BY <2>2, <2>5 DEF endpointCardNodes
  <1>3. ASSUME NEW e \in Endpoints
        PROVE  endpointLifecycleNodes(e) \subseteq ControlType
    BY DEF endpointLifecycleNodes, ControlType
  <1>4. ASSUME NEW e \in Endpoints
        PROVE  endpointPanel(e) \subseteq ControlType
    <2>1. CASE documents.lists[e] = Unread
      BY <2>1, <1>1, <1>3 DEF endpointPanel, endpointCardNodes
    <2>2. CASE documents.lists[e] # Unread
      BY <2>2, <1>1, <1>2, <1>3 DEF endpointPanel
    <2>3. QED
      BY <2>1, <2>2
  <1>5. probeNodes \cup slotRowNodes \subseteq ControlType
    BY DEF probeNodes, slotRowNodes, ControlType
  <1>6. CASE Known(documents.inventory)
    <2>1. documents.inventory.seen \subseteq Endpoints
      BY <1>6 DEF Documents, Known
    <2>2. esimDowngradeNodes \subseteq ControlType
      <3> SUFFICES ASSUME NEW c \in esimDowngradeNodes PROVE c \in ControlType
        OBVIOUS
      <3> DEFINE a == documents.action
      <3>1. a \in Statuses /\ a.endpoint \in Endpoints
        BY <2>1 DEF esimDowngradeNodes, Documents
      <3>2. CASE a.verb = "notification-send" /\ a.item # Nothing
        <4>1. a.item \in Messages /\ Home[a.item] = a.endpoint
          BY <3>1, <3>2 DEF Statuses
        <4>2. c = <<"esim-unverified", Home[a.item], a.item>>
          BY <4>1, <3>2 DEF esimDowngradeNodes
        <4>3. QED
          BY <4>1, <4>2 DEF ControlType
      <3>3. CASE ~(a.verb = "notification-send" /\ a.item # Nothing)
        BY <3>1, <3>3 DEF esimDowngradeNodes, ControlType
      <3>4. QED
        BY <3>2, <3>3
    <2>3. QED
      BY <2>1, <2>2, <1>4, <1>5, <1>6 DEF Controls
  <1>7. QED
    BY <1>6 DEF Controls

\* The same of the next state, which renderRoute draws.
LEMMA DrawnType ==
    ASSUME documents' \in Documents, renderRoute
    PROVE  screen' \in [controls : SUBSET ControlType, busy : BOOLEAN, greyed : BOOLEAN]
  <1>1. (documents \in Documents)' => (Controls \subseteq ControlType)'
    BY ControlsType, PTL
  <1>2. subjectBusy' \in BOOLEAN
    BY DEF subjectBusy
  <1>3. QED
    BY <1>1, <1>2 DEF renderRoute

LEMMA RunningType ==
    ASSUME NEW op \in Operations, NEW id \in Nat
    PROVE  Running(op, id) \in Statuses
  <1> DEFINE item == IF op[1] = "notification-send" THEN op[3] ELSE Nothing
  <1>1. item # Nothing => item \in Messages /\ Home[item] = op[2]
    BY OperationParts
  <1>3. op[1] \in Verbs /\ op[2] \in Endpoints \cup {NoEndpoint}
    BY OperationParts
  <1>4. QED
    BY <1>1, <1>3 DEF Statuses, Running

LEMMA BegunType ==
    ASSUME NEW r \in Routers, NEW w \in Operations, NEW q \in SUBSET Operations,
           NEW st \in Statuses, NEW n \in Nat, NEW h \in BOOLEAN
    PROVE  [r EXCEPT !.queue = q, !.worker = w, !.here = h, !.ops = n, !.status = st] \in Routers
  BY Zenon DEF Routers

LEMMA EndedType ==
    ASSUME NEW r \in Routers, NEW st \in Statuses
    PROVE  [r EXCEPT !.worker = Nothing, !.settled = FALSE, !.status = st] \in Routers
  BY Zenon DEF Routers

LEMMA ClosedType ==
    ASSUME NEW st \in Statuses, NEW class \in {"succeeded", "partial", "failed"}, NEW b \in BOOLEAN
    PROVE  [st EXCEPT !.busy = FALSE, !.class = class, !.retry = b] \in Statuses
  BY Zenon DEF Statuses

LEMMA AfterType ==
    ASSUME NEW r \in Routers, NEW w \in Routers
    PROVE  [r EXCEPT !.state = w.state, !.messages = w.messages, !.gone = w.gone,
                     !.plan = w.plan, !.known = w.known] \in Routers
  BY Zenon DEF Routers

\* What an operation leaves on its card, and that it leaves the others alone.
LEMMA WrittenFacts ==
    ASSUME router \in Routers, NEW op \in Operations, Possible(op), op[1] # "delete-plan",
           op[1] = "delete-confirm" => router.plan.endpoint = op[2]
    PROVE  /\ Written(op) \in Routers
           /\ \A p \in Profiles : Home[p] # op[2] => Written(op).state[p] = router.state[p]
           /\ IF op[1] = "delete-confirm"
                THEN Written(op).plan = Nothing /\ Written(op).gone = router.gone \cup {router.plan.profile}
                ELSE Written(op).plan = router.plan /\ Written(op).gone = router.gone
  <1>1. CASE op[1] = "enable"
    <2> DEFINE State == [p \in Profiles |-> IF p = op[3] THEN "enabled"
                                            ELSE IF Home[p] = op[2] /\ router.state[p] = "enabled"
                                              THEN "disabled" ELSE router.state[p]]
    <2>1. Written(op) = [router EXCEPT !.state = State]
      BY <1>1 DEF Written
    <2>2. State \in [Profiles -> {"enabled", "disabled", "absent"}]
      BY DEF Routers
    <2>3. \A p \in Profiles : Home[p] # op[2] => State[p] = router.state[p]
      BY <1>1, OperationParts
    <2> HIDE DEF State
    <2>4. Written(op) \in Routers
      BY <2>1, <2>2, Zenon DEF Routers
    <2>5. Written(op).state = State /\ Written(op).plan = router.plan /\ Written(op).gone = router.gone
      BY <2>1 DEF Routers
    <2>6. QED
      BY <1>1, <2>3, <2>4, <2>5
  <1>2. CASE op[1] = "disable"
    <2> DEFINE State == [router.state EXCEPT ![op[3]] = "disabled"]
    <2>1. Written(op) = [router EXCEPT !.state = State]
      BY <1>2 DEF Written
    <2>2. State \in [Profiles -> {"enabled", "disabled", "absent"}]
      BY DEF Routers
    <2>3. \A p \in Profiles : Home[p] # op[2] => State[p] = router.state[p]
      BY <1>2, OperationParts DEF Routers
    <2> HIDE DEF State
    <2>4. Written(op) \in Routers
      BY <2>1, <2>2, Zenon DEF Routers
    <2>5. Written(op).state = State /\ Written(op).plan = router.plan /\ Written(op).gone = router.gone
      BY <2>1 DEF Routers
    <2>6. QED
      BY <1>2, <2>3, <2>4, <2>5
  <1>3. CASE op[1] = "download"
    <2> DEFINE State == [p \in Profiles |-> IF Home[p] = op[2] /\ router.state[p] = "absent"
                                              THEN "disabled" ELSE router.state[p]]
    <2>1. Written(op) = [router EXCEPT !.state = State]
      BY <1>3 DEF Written
    <2>2. State \in [Profiles -> {"enabled", "disabled", "absent"}]
      BY DEF Routers
    <2>3. \A p \in Profiles : Home[p] # op[2] => State[p] = router.state[p]
      OBVIOUS
    <2> HIDE DEF State
    <2>4. Written(op) \in Routers
      BY <2>1, <2>2, Zenon DEF Routers
    <2>5. Written(op).state = State /\ Written(op).plan = router.plan /\ Written(op).gone = router.gone
      BY <2>1 DEF Routers
    <2>6. QED
      BY <1>3, <2>3, <2>4, <2>5
  <1>4. CASE op[1] = "delete-confirm"
    <2> DEFINE State == [router.state EXCEPT ![router.plan.profile] = "absent"]
               Gone == router.gone \cup {router.plan.profile}
    <2>0. router.plan \in Plans
      BY <1>4 DEF Possible, Routers
    <2>1. Written(op) = [router EXCEPT !.state = State, !.gone = Gone, !.plan = Nothing]
      BY <1>4 DEF Written, Routers
    <2>2. State \in [Profiles -> {"enabled", "disabled", "absent"}] /\ Gone \in SUBSET Profiles
      BY <2>0 DEF Routers, Plans
    <2>3. \A p \in Profiles : Home[p] # op[2] => State[p] = router.state[p]
      BY <2>0, <1>4 DEF Routers, Plans
    <2> HIDE DEF State, Gone
    <2>4. Written(op) \in Routers
      BY <2>1, <2>2, Zenon DEF Routers
    <2>5. Written(op).state = State /\ Written(op).plan = Nothing /\ Written(op).gone = Gone
      BY <2>1 DEF Routers
    <2>6. QED
      BY <1>4, <2>3, <2>4, <2>5 DEF Gone
  <1>5. CASE op[1] \notin {"enable", "disable", "download", "delete-confirm"}
    <2>1. CASE op[1] \in {"notification-send", "notification-remove"}
      <3>1. Written(op) = [router EXCEPT !.messages = @ \ {op[3]}]
        BY <2>1 DEF Written
      <3>2. QED
        BY <1>5, <3>1 DEF Routers
    <2>2. CASE op[1] \in {"card-probe", "read-takeover"}
      <3>1. Written(op) = [router EXCEPT !.known = TRUE]
        BY <2>2 DEF Written
      <3>2. QED
        BY <1>5, <3>1 DEF Routers
    <2>3. CASE op[1] \notin {"notification-send", "notification-remove", "card-probe", "read-takeover"}
      <3>1. Written(op) = router
        BY <1>5, <2>3 DEF Written
      <3>2. QED
        BY <1>5, <3>1
    <2>4. QED
      BY <2>1, <2>2, <2>3
  <1>6. QED
    BY <1>1, <1>2, <1>3, <1>4, <1>5

\* The plan a deletion stores, or the refusal of one.
Stored(yes) ==
    [id |-> router.status.id, endpoint |-> router.worker[2], profile |-> router.worker[3], available |-> yes]

\* How an operation may leave the router.
LEMMA TerminalFacts ==
    ASSUME TypeOK, PlansAreNamed, router.worker # Nothing,
           NEW class \in {"succeeded", "partial", "failed"}, NEW r \in Terminal(router.worker, class)
    PROVE  /\ r \in Routers
           /\ r.worker = Nothing /\ r.queue = router.queue /\ r.ops = router.ops /\ r.here = router.here
           /\ r.status = [router.status EXCEPT !.busy = FALSE, !.class = class, !.retry = r.status.retry]
           /\ r.state # router.state => class \in {"succeeded", "partial"}
           /\ \A p \in Profiles : Home[p] # router.worker[2] => r.state[p] = router.state[p]
           /\ \/ r.gone = router.gone
              \/ /\ router.worker[1] = "delete-confirm" /\ router.plan # Nothing /\ router.plan.id = router.worker[3]
                 /\ r.gone = router.gone \cup {router.plan.profile}
           /\ \/ r.plan \in {router.plan, Nothing}
              \/ router.worker[1] = "delete-plan" /\ \E yes \in BOOLEAN : r.plan = Stored(yes)
  <1> DEFINE op == router.worker
             retry == op[1] \in {"download", "notification-send"} /\ class = "failed"
             closed == [router.status EXCEPT !.busy = FALSE, !.class = class, !.retry = retry]
             last == [router EXCEPT !.worker = Nothing, !.settled = FALSE, !.status = closed]
             After(w) == [last EXCEPT !.state = w.state, !.messages = w.messages, !.gone = w.gone,
                                      !.plan = w.plan, !.known = w.known]
  <1>1. router \in Routers /\ op \in Operations
    BY DEF TypeOK, Routers
  <1>2. closed \in Statuses
    BY <1>1, ClosedType DEF Routers
  <1>3. closed = [router.status EXCEPT !.busy = FALSE, !.class = class, !.retry = closed.retry]
    BY <1>1 DEF Routers, Statuses
  <1>4. \/ r = last
        \/ op[1] = "delete-plan" /\ \E yes \in BOOLEAN : r = [last EXCEPT !.plan = Stored(yes)]
        \/ class \in {"succeeded", "partial"} /\ op[1] # "delete-plan" /\ Possible(op) /\ r = After(Written(op))
    BY DEF Terminal, Stored
  <1> HIDE DEF op, closed, retry
  <1>5. last \in Routers
    BY <1>1, <1>2, EndedType
  <1>6. /\ last.worker = Nothing /\ last.queue = router.queue /\ last.ops = router.ops
        /\ last.here = router.here /\ last.status = closed
        /\ last.state = router.state /\ last.gone = router.gone /\ last.plan = router.plan
    BY <1>1 DEF Routers
  <1> HIDE DEF last
  <1>7. CASE r = last
    BY <1>3, <1>5, <1>6, <1>7
  <1>8. CASE op[1] = "delete-plan" /\ \E yes \in BOOLEAN : r = [last EXCEPT !.plan = Stored(yes)]
    <2>1. PICK yes \in BOOLEAN : r = [last EXCEPT !.plan = Stored(yes)]
      BY <1>8
    <2>2. Stored(yes) \in Plans
      BY <1>1, <1>8, OperationParts, EsimAssumption DEF Stored, Plans, Routers, Statuses, op
    <2>3. r \in Routers
      BY <1>5, <2>1, <2>2, Zenon DEF Routers
    <2>4. /\ r.worker = last.worker /\ r.queue = last.queue /\ r.ops = last.ops
          /\ r.here = last.here /\ r.status = last.status
          /\ r.state = last.state /\ r.gone = last.gone /\ r.plan = Stored(yes)
      BY <1>5, <2>1 DEF Routers
    <2>5. QED
      BY <1>3, <1>6, <1>8, <2>3, <2>4 DEF op
  <1>9. CASE /\ class \in {"succeeded", "partial"} /\ op[1] # "delete-plan" /\ Possible(op)
             /\ r = After(Written(op))
    <2>1. op[1] = "delete-confirm" =>
            router.plan # Nothing /\ router.plan.id = op[3] /\ router.plan.endpoint = op[2]
      BY <1>1, <1>9, OperationParts DEF Possible, PlansAreNamed, Under, op
    <2> DEFINE w == Written(op)
    <2>2. /\ w \in Routers
          /\ \A p \in Profiles : Home[p] # op[2] => w.state[p] = router.state[p]
          /\ IF op[1] = "delete-confirm"
               THEN w.plan = Nothing /\ w.gone = router.gone \cup {router.plan.profile}
               ELSE w.plan = router.plan /\ w.gone = router.gone
      BY <1>1, <1>9, <2>1, WrittenFacts
    <2> HIDE DEF w
    <2>3. r = After(w)
      BY <1>9 DEF w
    <2>4. r \in Routers
      BY <1>5, <2>2, <2>3, AfterType
    <2>5. /\ r.worker = last.worker /\ r.queue = last.queue /\ r.ops = last.ops
          /\ r.here = last.here /\ r.status = last.status
          /\ r.state = w.state /\ r.gone = w.gone /\ r.plan = w.plan
      BY <1>5, <2>3 DEF Routers
    <2>6. QED
      BY <1>3, <1>6, <1>9, <2>1, <2>2, <2>4, <2>5 DEF op
  <1>10. QED
    BY <1>4, <1>7, <1>8, <1>9
-----------------------------------------------------------------------------
(* Every step keeps the types.                                             *)

LEMMA TypeCoordinator ==
    ASSUME TypeOK, PlansAreNamed, Coordinator
    PROVE  TypeOK'
  <1>1. CASE Serve
    <2>1. PICK op \in router.queue :
            router' = [router EXCEPT
             !.queue = @ \ {op},
             !.worker = IF @ = Nothing THEN op ELSE @,
             !.here = @ \/ router.worker = Nothing,
             !.ops = IF router.worker = Nothing THEN @ + 1 ELSE @,
             !.status = IF router.worker = Nothing THEN Running(op, router.ops + 1) ELSE @]
      BY <1>1 DEF Serve
    <2>2. op \in Operations /\ router.ops + 1 \in Nat
      BY DEF TypeOK, Routers
    <2>3. Running(op, router.ops + 1) \in Statuses
      BY <2>2, RunningType
    <2>4. CASE router.worker = Nothing
      <3>1. router' = [router EXCEPT !.queue = router.queue \ {op}, !.worker = op, !.here = TRUE,
                                     !.ops = router.ops + 1, !.status = Running(op, router.ops + 1)]
        BY <2>1, <2>4 DEF TypeOK, Routers
      <3>2. router \in Routers /\ router.queue \ {op} \in SUBSET Operations
        BY DEF TypeOK, Routers
      <3>3. router' \in Routers
        BY <3>1, <3>2, <2>2, <2>3, BegunType
      <3>4. QED
        BY <3>3, <1>1 DEF TypeOK, Serve, page, user
    <2>5. CASE router.worker # Nothing
      <3>1. router' = [router EXCEPT !.queue = router.queue \ {op}]
        BY <2>1, <2>5 DEF TypeOK, Routers
      <3>2. router' \in Routers
        BY <3>1 DEF TypeOK, Routers
      <3>3. QED
        BY <3>2, <1>1 DEF TypeOK, Serve, page, user
    <2>6. QED
      BY <2>4, <2>5
  <1>2. CASE Lose
    <2>1. router' \in Routers
      BY <1>2 DEF Lose, TypeOK, Routers
    <2>2. QED
      BY <2>1, <1>2 DEF TypeOK, Lose, page, user
  <1>3. CASE BeginElsewhere
    <2>1. PICK p \in Profiles, verb \in {"enable", "delete-plan"} :
            router' = [router EXCEPT !.worker = <<verb, Home[p], p>>, !.here = FALSE, !.ops = @ + 1,
                                     !.status = Running(<<verb, Home[p], p>>, router.ops + 1)]
      BY <1>3 DEF BeginElsewhere
    <2>2. <<verb, Home[p], p>> \in Operations
      BY ProfileRequests DEF Operations
    <2>3. router \in Routers /\ router.queue \in SUBSET Operations /\ router.ops + 1 \in Nat
      BY DEF TypeOK, Routers
    <2>4. Running(<<verb, Home[p], p>>, router.ops + 1) \in Statuses
      BY <2>2, <2>3, RunningType
    <2>5. router' = [router EXCEPT !.queue = router.queue, !.worker = <<verb, Home[p], p>>, !.here = FALSE,
                                   !.ops = router.ops + 1,
                                   !.status = Running(<<verb, Home[p], p>>, router.ops + 1)]
      BY <2>1, <2>3 DEF Routers
    <2>6. router' \in Routers
      BY <2>2, <2>3, <2>4, <2>5, BegunType
    <2>7. QED
      BY <2>6, <1>3 DEF TypeOK, BeginElsewhere, page, user
  <1>4. CASE End
    <2>1. PICK class \in {"succeeded", "partial", "failed"} : \E r \in Terminal(router.worker, class) :
            /\ router' = r
            /\ blind' = IF r.state # router.state /\ ~Followed THEN blind \cup {router.worker[2]} ELSE blind
      BY <1>4 DEF End
    <2>0. PICK r \in Terminal(router.worker, class) :
            /\ router' = r
            /\ blind' = IF r.state # router.state /\ ~Followed THEN blind \cup {router.worker[2]} ELSE blind
      BY <2>1
    <2>2. r \in Routers /\ \A p \in Profiles : Home[p] # router.worker[2] => r.state[p] = router.state[p]
      <3>1. router.worker # Nothing
        BY <1>4 DEF End
      <3>2. QED
        BY <3>1, TerminalFacts
    <2>3. r.state # router.state => router.worker[2] \in Endpoints
      BY <2>2, EsimAssumption DEF TypeOK, Routers
    <2>4. blind' \subseteq Endpoints
      BY <2>0, <2>3 DEF TypeOK
    <2>5. QED
      BY <2>0, <2>2, <2>4, <1>4 DEF TypeOK, End, page, user
  <1>5. CASE Enumerate
    <2>1. router' \in Routers
      BY <1>5 DEF Enumerate, TypeOK, Routers
    <2>2. QED
      BY <2>1, <1>5 DEF TypeOK, Enumerate, page, user
  <1>6. QED
    BY <1>1, <1>2, <1>3, <1>4, <1>5 DEF Coordinator

LEMMA TypeReading ==
    ASSUME TypeOK, Reading
    PROVE  TypeOK'
  <1>1. CASE InventoryRead
    <2>1. documents' \in Documents
      BY <1>1, InventoryType DEF InventoryRead, TypeOK, Documents
    <2>2. calls' \subseteq Calls
      BY <1>1 DEF InventoryRead, TypeOK, Calls
    <2>3. QED
      BY <2>1, <2>2, <1>1 DEF InventoryRead, TypeOK, user
  <1>2. CASE ActionRead
    <2>1. documents' \in Documents
      BY <1>2 DEF ActionRead, TypeOK, Documents, Routers
    <2>2. calls' \subseteq Calls
      BY <1>2 DEF ActionRead, TypeOK
    <2>3. pending' \in Follows \cup {Nothing}
      <3>1. [op |-> <<router.status.verb, router.status.endpoint, router.status.item>>,
             follow |-> FALSE, started |-> TRUE, waited |-> 0] \in Follows
        BY DEF TypeOK, Routers, Statuses, Follows
      <3>2. QED
        BY <3>1, <1>2 DEF ActionRead, TypeOK
    <2>4. renderRoute
      BY <1>2 DEF ActionRead
    <2>5. QED
      BY <2>1, <2>2, <2>3, <2>4, <1>2, DrawnType DEF ActionRead, TypeOK, user
  <1>3. CASE ProbeRead
    <2>1. documents' \in Documents
      <3>1. (Inventory \in [seen : SUBSET Endpoints])'
        BY InventoryType, PTL
      <3>2. QED
        BY <1>3, <3>1 DEF ProbeRead, TypeOK, Documents
    <2>2. router' \in Routers
      BY <1>3, ZenonT(60) DEF ProbeRead, TypeOK, Routers
    <2>3. renderRoute
      BY <1>3 DEF ProbeRead
    <2>4. QED
      BY <2>1, <2>2, <2>3, <1>3, DrawnType DEF ProbeRead, TypeOK, user
  <1>4. CASE SlotsAsked
    <2>1. modem' \in SituationType
      BY <1>4, EsimAssumption DEF SlotsAsked, TypeOK, SituationType
    <2>2. calls' \subseteq Calls
      BY <1>4 DEF SlotsAsked, TypeOK, Calls
    <2>3. renderRoute /\ documents' \in Documents
      BY <1>4 DEF SlotsAsked, TypeOK
    <2>4. QED
      BY <2>1, <2>2, <2>3, <1>4, DrawnType DEF SlotsAsked, TypeOK, user
  <1>5. CASE CardRead
    <2>1. PICK e \in Endpoints : \E list \in CardLists(e) :
            /\ documents' = [documents EXCEPT !.lists[e] = list]
            /\ blind' = IF list.profiles # Failed /\ Quiet THEN blind \ {e} ELSE blind
            /\ calls' = calls \ {<<"card", e>>}
            /\ reading' = reading \ {e}
      BY <1>5 DEF CardRead
    <2>2. PICK list \in CardLists(e) : documents' = [documents EXCEPT !.lists[e] = list]
      BY <2>1
    <2>3. documents' \in Documents
      BY <2>2, CardType DEF TypeOK, Documents
    <2>4. renderRoute
      BY <1>5 DEF CardRead
    <2>5. QED
      BY <2>1, <2>3, <2>4, <1>5, DrawnType DEF CardRead, TypeOK, user
  <1>6. CASE PlanRead
    <2>1. PICK c \in {d \in calls : d[1] = "plan"} :
            /\ calls' = calls \ {c}
            /\ \/ dialog' = Confirmation(c[2]) /\ UNCHANGED screen
               \/ UNCHANGED dialog /\ renderRoute
      BY <1>6 DEF PlanRead
    <2>2. c[2] \in Requests
      BY <2>1 DEF TypeOK, Calls
    <2>3. dialog' \in Dialogs \cup {Nothing}
      BY <2>1, <2>2 DEF TypeOK, Confirmation, Dialogs
    <2>4. screen' = screen \/ renderRoute
      BY <2>1
    <2>5. documents' \in Documents
      BY <1>6 DEF PlanRead, TypeOK
    <2>6. QED
      BY <2>1, <2>3, <2>4, <2>5, <1>6, DrawnType DEF PlanRead, TypeOK
  <1>7. QED
    BY <1>1, <1>2, <1>3, <1>4, <1>5, <1>6 DEF Reading

LEMMA TypeFollowing ==
    ASSUME TypeOK, Following
    PROVE  TypeOK'
  <1>1. CASE Poll
    <2>1. documents' \in Documents
      BY <1>1 DEF Poll, TypeOK, Documents, Routers
    <2>2. pending' \in Follows \cup {Nothing}
      <3>1. pending \in Follows
        BY <1>1 DEF Poll, TypeOK
      <3>2. [pending EXCEPT !.started = TRUE, !.waited = 0] \in Follows
        BY <3>1 DEF Follows
      <3>3. [pending EXCEPT !.waited = @ + 1] \in Follows
        BY <3>1 DEF Follows
      <3>4. QED
        BY <3>2, <3>3, <1>1 DEF Poll
    <2>3. poll' \in Polls \cup {Nothing} /\ reading' \subseteq Endpoints
      <3>1. CASE UNCHANGED <<poll, reading>>
        BY <3>1 DEF TypeOK
      <3>2. CASE pending' = Nothing
        <4> DEFINE reads == pending.follow /\ mayHaveChanged(router.status.class)
                   plans == pending.op[1] = "delete-plan"
                   begun == [stage |-> "endpoint", endpoint |-> pending.op[2], plans |-> plans,
                             id |-> router.status.id, reads |-> reads, left |-> Attempts, profile |-> Nothing]
        <4>1. \/ reading' = (IF reads THEN reading \cup {pending.op[2]} ELSE reading) /\ poll' = begun
              \/ UNCHANGED <<poll, reading>>
          BY <1>1, <3>2 DEF Poll
        <4>2. pending \in Follows
          BY <1>1 DEF Poll, TypeOK
        <4>3. /\ pending.op[2] \in Endpoints \cup {NoEndpoint}
              /\ reads => pending.op[2] \in Endpoints /\ ~plans
              /\ reads \in BOOLEAN /\ plans \in BOOLEAN
          BY <4>2 DEF Follows
        <4> HIDE DEF reads, plans
        <4>4. router.status.id \in Nat /\ Attempts \in Nat
          BY EsimAssumption DEF TypeOK, Routers, Statuses
        <4>5. begun \in Polls
          BY <4>3, <4>4 DEF Polls
        <4> HIDE DEF begun
        <4>6. QED
          BY <3>1, <4>1, <4>3, <4>5 DEF TypeOK
      <3>3. QED
        BY <1>1, <3>1, <3>2 DEF Poll
    <2>4. screen' = screen \/ renderRoute
      BY <1>1 DEF Poll
    <2>5. QED
      BY <2>1, <2>2, <2>3, <2>4, <1>1, DrawnType DEF Poll, TypeOK, user
  <1>2. CASE AwaitEndpoint
    <2>1. documents' \in Documents
      BY <1>2, InventoryType DEF AwaitEndpoint, TypeOK, Documents
    <2>2. poll' \in Polls
      BY <1>2 DEF AwaitEndpoint, TypeOK, Asked, Polls
    <2>3. renderRoute
      BY <1>2 DEF AwaitEndpoint
    <2>4. QED
      BY <2>1, <2>2, <2>3, <1>2, DrawnType DEF AwaitEndpoint, TypeOK, user
  <1>3. CASE EndpointBack
    <2>1. documents' \in Documents
      BY <1>3, InventoryType DEF EndpointBack, TypeOK, Documents
    <2>2. poll \in Polls
      BY <1>3 DEF EndpointBack, TypeOK
    <2>3. PICK stage \in {"plan", "card", "refresh"} :
            poll' = [poll EXCEPT !.stage = stage, !.profile = wanted] /\ (stage = "card" => poll.reads)
      BY <1>3 DEF EndpointBack
    <2>4. poll' \in Polls
      BY <2>2, <2>3 DEF Polls, TypeOK
    <2>5. wanted' \in Profiles \cup {Nothing} /\ blind' \subseteq Endpoints
      BY <1>3, <2>2 DEF EndpointBack, TypeOK, Polls
    <2>6. QED
      BY <2>1, <2>4, <2>5, <1>3 DEF EndpointBack, TypeOK, user
  <1>4. CASE PlanCollected
    <2>1. poll' \in Polls
      BY <1>4 DEF PlanCollected, TypeOK, Polls
    <2>2. dialog' \in Dialogs \cup {Nothing}
      <3>1. CASE PlanWanted(router.plan)
        <4>1. router.plan \in Plans
          BY <3>1 DEF PlanWanted, TypeOK, Routers
        <4>2. router.plan.profile \in Profiles
              /\ <<"delete-confirm", router.plan.endpoint, router.plan.id>> \in Deletions
          BY <4>1 DEF Plans, Deletions
        <4>3. QED
          BY <4>2, <1>4 DEF PlanCollected, TypeOK, Dialogs
      <3>2. QED
        BY <3>1, <1>4 DEF PlanCollected, TypeOK
    <2>3. documents' \in Documents /\ (screen' = screen \/ renderRoute)
      BY <1>4 DEF PlanCollected, TypeOK
    <2>4. QED
      BY <2>1, <2>2, <2>3, <1>4, DrawnType DEF PlanCollected, TypeOK
  <1>5. CASE CardCollected
    <2>1. poll.endpoint \in Endpoints
      BY <1>5 DEF CardCollected, TypeOK, Polls
    <2>2. PICK list \in CardLists(poll.endpoint) :
            /\ documents' = [documents EXCEPT !.lists[poll.endpoint] = list]
            /\ blind' = IF list.profiles # Failed /\ Quiet THEN blind \ {poll.endpoint} ELSE blind
      BY <1>5 DEF CardCollected
    <2>3. documents' \in Documents
      BY <2>1, <2>2, CardType DEF TypeOK, Documents
    <2>4. poll' \in Polls
      BY <1>5 DEF CardCollected, TypeOK, Polls
    <2>5. QED
      BY <2>2, <2>3, <2>4, <1>5 DEF CardCollected, TypeOK, user
  <1>6. CASE Refreshed
    <2>1. renderRoute /\ documents' \in Documents
      BY <1>6 DEF Refreshed, TypeOK
    <2>2. QED
      BY <2>1, <1>6, DrawnType DEF Refreshed, TypeOK, user
  <1>7. QED
    BY <1>1, <1>2, <1>3, <1>4, <1>5, <1>6 DEF Following

\* An operation is sent, and followed or not.
LEMMA TypeStart ==
    ASSUME TypeOK, NEW op \in Operations, NEW follow \in BOOLEAN, Start(op, follow),
           follow => op[1] # "delete-plan" /\ op[2] \in Endpoints,
           wanted' \in Profiles \cup {Nothing}, dialog' \in Dialogs \cup {Nothing}, asked' \subseteq Profiles,
           sent' \in [count : Nat, op : Operations \cup {Nothing}, unverified : BOOLEAN, agreed : BOOLEAN],
           unverified' \in BOOLEAN
    PROVE  TypeOK'
  <1>1. router' \in Routers
    BY DEF Start, TypeOK, Routers
  <1>2. pending' \in Follows
    BY OperationParts DEF Start, Follows, Operations
  <1>3. screen' \in [controls : SUBSET ControlType, busy : BOOLEAN, greyed : BOOLEAN]
    BY DEF Start, setControlsBusy, TypeOK
  <1>4. blind' \subseteq Endpoints
    BY DEF Start, TypeOK
  <1>5. QED
    BY <1>1, <1>2, <1>3, <1>4 DEF Start, TypeOK

\* A dialog opens, closes, is confirmed: nothing else but what is sent depends on it.
LEMMA SentType ==
    ASSUME TypeOK, NEW op \in Operations, NEW transport \in BOOLEAN, NEW agreed \in BOOLEAN,
           Send(op, transport, agreed)
    PROVE  sent' \in [count : Nat, op : Operations \cup {Nothing}, unverified : BOOLEAN, agreed : BOOLEAN]
  BY DEF TypeOK, Send

LEMMA FormType ==
    ASSUME NEW op \in Requests, NEW kind \in {"download", "downgrade"}, NEW agreed \in BOOLEAN
    PROVE  /\ op[1] \in {"download", "notification-send"} => Form(kind, op, agreed) \in Dialogs
           /\ Confirmation(op) \in Dialogs
  BY DEF Form, Confirmation, Dialogs

LEMMA PlanType == ASSUME NEW op \in Requests PROVE Plan(op) \in Calls
  BY DEF Plan, Calls

LEMMA DialogParts ==
    ASSUME TypeOK, dialog # Nothing
    PROVE  /\ dialog.op \in Operations
           /\ dialog.kind = "confirm" => dialog.op \in Requests
           /\ dialog.kind \in {"download", "downgrade"} =>
                /\ dialog.op \in Requests /\ dialog.agreed \in BOOLEAN
                /\ dialog.op[1] \in {"download", "notification-send"}
           /\ dialog.kind = "delete" => dialog.op \in Deletions
  BY DEF TypeOK, Dialogs, Operations

\* A control that reads asks for no deletion, and touches nothing but what is in flight.
LEMMA ReadsOnly ==
    ASSUME TypeOK, PressRead
    PROVE  /\ UNCHANGED <<modem, router, documents, pending, wanted, poll, user, blind>>
           /\ calls' \subseteq Calls /\ reading' \subseteq Endpoints /\ shown' \subseteq Endpoints
           /\ screen' = screen \/ renderRoute
           /\ \A op \in Requests : <<"plan", op>> \in calls' => <<"plan", op>> \in calls \/ op[1] # "delete-plan"
  <1>1. PICK c \in screen.controls :
          /\ Pressed(c)
          /\ \/ /\ c[1] \in {"esim-read", "esim-takeover", "esim-messages-read"}
                /\ UNCHANGED shown /\ BeginEndpointRead(c[2])
             \/ /\ UNCHANGED <<reading, shown, screen>>
                /\ \/ c[1] = "esim-card-probe" /\ Call(Plan(<<"card-probe", c[2], Nothing>>))
                   \/ c[1] = "slot-switch" /\ Call(Plan(<<"slot-switch", c[2], Nothing>>))
                   \/ c[1] = "esim-enable" /\ Call(Plan(<<"enable", c[2], c[3]>>))
                   \/ c[1] = "esim-disable" /\ Call(Plan(<<"disable", c[2], c[3]>>))
             \/ (Call(<<"probe">>) \/ Call(<<"slots">>)) /\ UNCHANGED <<reading, shown>> /\ renderRoute
             \/ /\ c[1] = "esim-messages-show" /\ shown' = shown \cup {c[2]}
                /\ \/ BeginEndpointRead(c[2])
                   \/ /\ UNCHANGED <<modem, router, documents, calls, pending, wanted, reading, poll, user, blind>>
                      /\ renderRoute
    BY DEF PressRead
  <1>2. c \in ControlType /\ calls \subseteq Calls /\ reading \subseteq Endpoints /\ shown \subseteq Endpoints
    BY DEF TypeOK
  <1> DEFINE Harmless(call) == call \in Calls /\ \A op \in Requests : call = <<"plan", op>> => op[1] # "delete-plan"
  <1>3. ASSUME NEW op \in Requests, op[1] # "delete-plan"
        PROVE  Harmless(Plan(op))
    BY <1>3 DEF Plan, Calls
  <1>4. Harmless(<<"probe">>) /\ Harmless(<<"slots">>) /\ \A e \in Endpoints : Harmless(<<"card", e>>)
    BY DEF Calls
  <1>5. ASSUME NEW call, Call(call), Harmless(call)
        PROVE  /\ UNCHANGED <<modem, router, documents, pending, wanted, poll, user, blind>>
               /\ calls' \subseteq Calls
               /\ \A op \in Requests :
                    <<"plan", op>> \in calls' => <<"plan", op>> \in calls \/ op[1] # "delete-plan"
    BY <1>2, <1>5 DEF Call
  <1> HIDE DEF Harmless
  <1>6. ASSUME c[1] \in {"esim-read", "esim-takeover", "esim-messages-read", "esim-messages-show"},
               BeginEndpointRead(c[2])
        PROVE  /\ UNCHANGED <<modem, router, documents, pending, wanted, poll, user, blind>>
               /\ calls' \subseteq Calls /\ reading' \subseteq Endpoints
               /\ screen' = screen \/ renderRoute
               /\ \A op \in Requests :
                    <<"plan", op>> \in calls' => <<"plan", op>> \in calls \/ op[1] # "delete-plan"
    <2>1. c[2] \in Endpoints
      BY <1>2, <1>6, ControlParts
    <2>2. Harmless(<<"card", c[2]>>)
      BY <1>4, <2>1
    <2>3. Harmless(Plan(<<"read-takeover", c[2], Nothing>>))
      <3>1. <<"read-takeover", c[2], Nothing>> \in Requests
        BY <1>2, <1>6, ControlsRequest
      <3>2. QED
        BY <3>1, <1>3
    <2>4. (Call(<<"card", c[2]>>) /\ reading' = reading \cup {c[2]} /\ renderRoute)
          \/ (Call(Plan(<<"read-takeover", c[2], Nothing>>)) /\ UNCHANGED <<reading, screen>>)
      BY <1>6 DEF BeginEndpointRead
    <2>5. QED
      BY <1>2, <1>5, <2>1, <2>2, <2>3, <2>4
  <1>7. ASSUME NEW v \in {"card-probe", "slot-switch", "enable", "disable"}, NEW x, <<v, c[2], x>> \in Requests
        PROVE  Harmless(Plan(<<v, c[2], x>>))
    BY <1>3, <1>7
  <1>8. CASE c[1] \in {"esim-read", "esim-takeover", "esim-messages-read"} /\ UNCHANGED shown /\ BeginEndpointRead(c[2])
    BY <1>2, <1>6, <1>8
  <1>9. CASE /\ UNCHANGED <<reading, shown, screen>>
             /\ \/ c[1] = "esim-card-probe" /\ Call(Plan(<<"card-probe", c[2], Nothing>>))
                \/ c[1] = "slot-switch" /\ Call(Plan(<<"slot-switch", c[2], Nothing>>))
                \/ c[1] = "esim-enable" /\ Call(Plan(<<"enable", c[2], c[3]>>))
                \/ c[1] = "esim-disable" /\ Call(Plan(<<"disable", c[2], c[3]>>))
    <2>1. PICK call : Call(call) /\ Harmless(call)
      BY <1>2, <1>7, <1>9, ControlsRequest
    <2>2. QED
      BY <1>2, <1>5, <1>9, <2>1
  <1>10. CASE (Call(<<"probe">>) \/ Call(<<"slots">>)) /\ UNCHANGED <<reading, shown>> /\ renderRoute
    BY <1>2, <1>4, <1>5, <1>10
  <1>11. CASE /\ c[1] = "esim-messages-show" /\ shown' = shown \cup {c[2]}
              /\ \/ BeginEndpointRead(c[2])
                 \/ /\ UNCHANGED <<modem, router, documents, calls, pending, wanted, reading, poll, user, blind>>
                    /\ renderRoute
    <2>1. shown' \subseteq Endpoints
      BY <1>2, <1>11, ControlParts
    <2>2. QED
      BY <1>2, <1>6, <1>11, <2>1
  <1>12. QED
    BY <1>1, <1>8, <1>9, <1>10, <1>11

LEMMA TypeUser ==
    ASSUME TypeOK, User
    PROVE  TypeOK'
  <1>a. documents \in Documents /\ screen.controls \subseteq ControlType
    BY DEF TypeOK
  <1>1. CASE PressRead
    <2>1. /\ UNCHANGED <<modem, router, documents, pending, wanted, poll, user, blind>>
          /\ calls' \subseteq Calls /\ reading' \subseteq Endpoints /\ shown' \subseteq Endpoints
          /\ screen' = screen \/ renderRoute
      BY <1>1, ReadsOnly DEF TypeOK
    <2>2. documents' \in Documents
      BY <2>1, <1>a
    <2>3. QED
      BY <2>1, <2>2, DrawnType DEF TypeOK, user
  <1>2. CASE PressDialog
    <2>1. PICK c \in screen.controls :
            \/ c[1] = "esim-nickname" /\ dialog' = Confirmation(<<"nickname", c[2], c[3]>>)
            \/ c[1] = "esim-notif-send" /\ dialog' = Confirmation(<<"notification-send", c[2], c[3]>>)
            \/ c[1] = "esim-notif-remove" /\ dialog' = Confirmation(<<"notification-remove", c[2], c[3]>>)
            \/ c[1] = "esim-download" /\ dialog' = Form("download", <<"download", c[2], Nothing>>, FALSE)
            \/ c[1] = "esim-unverified" /\ dialog' = Form("downgrade", Downgraded(c), TRUE)
      BY <1>2 DEF PressDialog
    <2>2. Downgraded(c)[1] \in {"download", "notification-send"}
      BY DEF Downgraded
    <2>3. dialog' \in Dialogs
      BY <2>1, <2>2, <1>a, ControlsRequest, FormType
    <2>4. QED
      BY <2>3, <1>2 DEF PressDialog, page, TypeOK
  <1>3. CASE PressDelete
    <2>1. PICK e \in Endpoints, p \in Profiles :
            /\ Pressed(<<"esim-delete", e, p>>) /\ ~subjectBusy
            /\ asked' = asked \cup {p}
            /\ UNCHANGED <<dialog, unverified, sent>>
            /\ IF modem.endpoint[e].reachable = "yes" THEN planDeletion(e, p)
               ELSE /\ Cardinality(calls) < MaxCalls
                    /\ calls' = calls \cup {Plan(<<"delete-plan", e, p>>)}
                    /\ UNCHANGED <<modem, router, documents, pending, wanted, reading, poll, shown, screen, blind>>
      BY <1>3 DEF PressDelete
    <2>2. <<"delete-plan", e, p>> \in Requests
      <3>1. Home[p] = e
        BY <2>1, <1>a, ControlParts DEF Pressed
      <3>2. QED
        BY <3>1, ProfileRequests
    <2>3. CASE planDeletion(e, p)
      <3>1. Start(<<"delete-plan", e, p>>, FALSE) /\ wanted' = p
        BY <2>3 DEF planDeletion
      <3>2. <<"delete-plan", e, p>> \in Operations
        BY <2>2 DEF Operations
      <3>3. /\ wanted' \in Profiles \cup {Nothing} /\ dialog' \in Dialogs \cup {Nothing}
            /\ asked' \subseteq Profiles
            /\ sent' \in [count : Nat, op : Operations \cup {Nothing}, unverified : BOOLEAN, agreed : BOOLEAN]
            /\ unverified' \in BOOLEAN
        BY <2>1, <3>1 DEF TypeOK
      <3>4. QED
        BY <3>1, <3>2, <3>3, TypeStart
    <2>4. CASE /\ calls' = calls \cup {Plan(<<"delete-plan", e, p>>)}
               /\ UNCHANGED <<modem, router, documents, pending, wanted, reading, poll, shown, screen, blind>>
      <3>1. calls' \subseteq Calls
        BY <2>2, <2>4, PlanType DEF TypeOK
      <3>2. QED
        BY <2>1, <2>4, <3>1 DEF TypeOK
    <2>5. QED
      BY <2>1, <2>3, <2>4
  <1>4. CASE Expire
    <2>1. dialog' \in Dialogs
      BY <1>4 DEF Expire, TypeOK, Dialogs
    <2>2. QED
      BY <2>1, <1>4 DEF Expire, page, TypeOK
  <1>5. CASE Cancel
    BY <1>5 DEF Cancel, page, TypeOK
  <1>6. CASE Confirm
    <2>1. /\ dialog # Nothing /\ dialog.kind = "confirm" /\ dialog' = Nothing
          /\ Send(dialog.op, FALSE, FALSE) /\ UNCHANGED <<unverified, asked, spent>>
      BY <1>6 DEF Confirm
    <2>2. dialog.op \in Requests /\ dialog.op \in Operations
      BY <2>1, DialogParts
    <2>3. /\ dialog' \in Dialogs \cup {Nothing} /\ asked' \subseteq Profiles /\ unverified' \in BOOLEAN
          /\ sent' \in [count : Nat, op : Operations \cup {Nothing}, unverified : BOOLEAN, agreed : BOOLEAN]
      BY <2>1, <2>2, SentType DEF TypeOK
    <2>4. CASE dialog.op[1] = "delete-plan"
      <3>1. planDeletion(dialog.op[2], dialog.op[3])
        BY <1>6, <2>4 DEF Confirm
      <3>2. dialog.op = <<"delete-plan", dialog.op[2], dialog.op[3]>> /\ dialog.op[3] \in Profiles
        BY <2>2, <2>4, OperationParts
      <3>3. wanted' = dialog.op[3] /\ Start(dialog.op, FALSE)
        BY <3>1, <3>2 DEF planDeletion
      <3>4. QED
        BY <2>2, <2>3, <3>2, <3>3, TypeStart
    <2>5. CASE dialog.op[1] = "slot-switch"
      <3>1. /\ setControlsBusy
            /\ UNCHANGED <<modem, router, documents, calls, pending, wanted, reading, poll, shown, blind>>
        BY <1>6, <2>5 DEF Confirm
      <3>2. QED
        BY <2>3, <3>1 DEF TypeOK, setControlsBusy
    <2>6. CASE dialog.op[1] \notin {"delete-plan", "slot-switch"}
      <3>1. Start(dialog.op, dialog.op[1] # "card-probe") /\ UNCHANGED wanted
        BY <1>6, <2>6 DEF Confirm
      <3>2. wanted' \in Profiles \cup {Nothing}
        BY <3>1 DEF TypeOK
      <3>3. dialog.op[1] # "card-probe" => dialog.op[1] # "delete-plan" /\ dialog.op[2] \in Endpoints
        BY <2>2, <2>6, OperationParts
      <3>4. QED
        BY <2>2, <2>3, <3>1, <3>2, <3>3, TypeStart
    <2>7. QED
      BY <2>4, <2>5, <2>6
  <1>7. CASE ConfirmDownload
    <2>1. /\ dialog # Nothing /\ dialog.kind = "download" /\ dialog' = Nothing
          /\ Send(dialog.op, unverified, dialog.agreed) /\ Start(dialog.op, TRUE)
          /\ UNCHANGED <<wanted, asked, spent>>
      BY <1>7 DEF ConfirmDownload
    <2>2. /\ dialog.op \in Operations /\ dialog.op \in Requests /\ dialog.agreed \in BOOLEAN
          /\ dialog.op[1] \in {"download", "notification-send"}
      BY <2>1, DialogParts
    <2>3. dialog.op[1] # "delete-plan" /\ dialog.op[2] \in Endpoints
      BY <2>2, OperationParts
    <2>4. unverified' \in BOOLEAN
      BY <1>7 DEF ConfirmDownload
    <2>5. sent' \in [count : Nat, op : Operations \cup {Nothing}, unverified : BOOLEAN, agreed : BOOLEAN]
      BY <2>1, <2>2, SentType DEF TypeOK
    <2>6. QED
      BY <2>1, <2>2, <2>3, <2>4, <2>5, TypeStart DEF TypeOK
  <1>8. CASE ConfirmDowngrade
    <2>1. dialog # Nothing /\ dialog.kind = "downgrade" /\ UNCHANGED <<asked, spent>>
      BY <1>8 DEF ConfirmDowngrade
    <2>2. /\ dialog.op \in Operations /\ dialog.op \in Requests /\ dialog.op[2] \in Endpoints
          /\ dialog.op[1] \in {"download", "notification-send"}
      BY <2>1, DialogParts, OperationParts
    <2>3. CASE dialog.op[1] = "download"
      <3>1. /\ dialog' \in {Nothing, Form("download", dialog.op, TRUE)} /\ unverified' = TRUE
            /\ UNCHANGED <<modem, router, page, sent, blind>>
        BY <1>8, <2>3 DEF ConfirmDowngrade
      <3>2. dialog' \in Dialogs \cup {Nothing}
        BY <2>2, <3>1, FormType
      <3>3. QED
        BY <2>1, <3>1, <3>2 DEF page, TypeOK
    <2>4. CASE dialog.op[1] # "download"
      <3>1. /\ dialog' = Nothing /\ Send(dialog.op, TRUE, TRUE) /\ Start(dialog.op, TRUE)
            /\ UNCHANGED <<wanted, unverified>>
        BY <1>8, <2>4 DEF ConfirmDowngrade
      <3>2. sent' \in [count : Nat, op : Operations \cup {Nothing}, unverified : BOOLEAN, agreed : BOOLEAN]
        BY <2>2, <3>1, SentType
      <3>3. dialog.op[1] # "delete-plan"
        BY <2>2
      <3>4. QED
        BY <2>1, <2>2, <3>1, <3>2, <3>3, TypeStart DEF TypeOK
    <2>5. QED
      BY <2>3, <2>4
  <1>9. CASE ConfirmDelete
    <2>1. /\ dialog # Nothing /\ dialog.kind = "delete" /\ dialog' = Nothing
          /\ Send(dialog.op, FALSE, FALSE) /\ Start(dialog.op, TRUE)
          /\ UNCHANGED <<wanted, unverified, asked, spent>>
      BY <1>9 DEF ConfirmDelete
    <2>2. dialog.op \in Deletions /\ dialog.op \in Operations
      BY <2>1, DialogParts
    <2>3. dialog.op[1] # "delete-plan" /\ dialog.op[2] \in Endpoints
      BY <2>2 DEF Deletions
    <2>4. sent' \in [count : Nat, op : Operations \cup {Nothing}, unverified : BOOLEAN, agreed : BOOLEAN]
      BY <2>1, <2>2, SentType
    <2>5. QED
      BY <2>1, <2>2, <2>3, <2>4, TypeStart DEF TypeOK
  <1>10. QED
    BY <1>1, <1>2, <1>3, <1>4, <1>5, <1>6, <1>7, <1>8, <1>9 DEF User

LEMMA TypeInit == Init => TypeOK
  <1> SUFFICES ASSUME Init PROVE TypeOK
    OBVIOUS
  <1>1. modem \in SituationType
    BY EsimAssumption DEF Init
  <1>2. PICK status \in Before :
          /\ router = Fresh(status)
          /\ documents =
              IF modem.read
                THEN [inventory |-> Inventory, action |-> status,
                      lists |-> [e \in Endpoints |-> [profiles |-> ProfileList(e), messages |-> MessageList(e)]]]
                ELSE [inventory |-> Unread, action |-> Nothing, lists |-> [e \in Endpoints |-> Unread]]
    BY DEF Init
  <1>3. status \in Statuses
    <2>1. modem.failed \in {"none", "download", "notification-send"}
      BY <1>1 DEF SituationType
    <2>2. CASE modem.failed = "none"
      BY <1>2, <2>2, IdleType DEF Before
    <2>3. CASE modem.failed = "download"
      <3>1. PICK e \in Endpoints : status = [Idle EXCEPT !.verb = "download", !.endpoint = e, !.item = Nothing,
                                                         !.class = "failed", !.retry = TRUE]
        BY <1>2, <2>3 DEF Before
      <3>2. status = [busy |-> FALSE, verb |-> "download", endpoint |-> e, item |-> Nothing, id |-> 0,
                      class |-> "failed", retry |-> TRUE]
        BY <3>1 DEF Idle
      <3>3. QED
        BY <3>2 DEF Statuses, Verbs
    <2>4. CASE modem.failed = "notification-send"
      <3>1. PICK n \in Messages : status = [Idle EXCEPT !.verb = "notification-send", !.endpoint = Home[n],
                                                        !.item = n, !.class = "failed", !.retry = TRUE]
        BY <1>2, <2>4 DEF Before
      <3>2. status = [busy |-> FALSE, verb |-> "notification-send", endpoint |-> Home[n], item |-> n, id |-> 0,
                      class |-> "failed", retry |-> TRUE]
        BY <3>1 DEF Idle
      <3>3. QED
        BY <3>2, EsimAssumption DEF Statuses, Verbs
    <2>5. QED
      BY <2>1, <2>2, <2>3, <2>4
  <1>4. router \in Routers
    BY <1>1, <1>2, <1>3 DEF Fresh, Routers, SituationType
  <1>5. documents \in Documents
    <2>1. ASSUME NEW e \in Endpoints
          PROVE  /\ [profiles |-> ProfileList(e), messages |-> MessageList(e)] \in Lists(e)
                 /\ Unread \in Lists(e)
      BY <1>4 DEF ProfileList, MessageList, Lists, On, Routers
    <2>2. QED
      BY <1>2, <1>3, <2>1, InventoryType DEF Documents
  <1>6. calls \subseteq Calls
    BY DEF Init, Calls
  <1>7. QED
    BY <1>1, <1>4, <1>5, <1>6 DEF Init, TypeOK
-----------------------------------------------------------------------------
(* What is deleted was asked for.                                          *)

\* Steps that send nothing, store nothing and ask for nothing keep what leads to a deletion.
LEMMA DeletionUntouched ==
    ASSUME TypeOK, DeletionInv,
           router'.gone = router.gone, router'.plan = router.plan, router'.worker = router.worker,
           router'.ops = router.ops, router'.status.id = router.status.id, router'.queue \subseteq router.queue,
           dialog' = dialog \/ dialog' = Nothing \/ (dialog # Nothing /\ dialog'.op = dialog.op),
           asked \subseteq asked', wanted' \in {wanted, Nothing},
           poll' # Nothing /\ poll'.stage = "plan" => poll # Nothing /\ poll.stage = "plan" /\ poll'.profile = poll.profile,
           \A op \in Requests : <<"plan", op>> \in calls' => <<"plan", op>> \in calls \/ op[1] # "delete-plan"
    PROVE  DeletionInv'
  <1>1. Numbered'
    BY DEF DeletionInv, Numbered, Under
  <1>2. PlansAreNamed'
    BY DEF DeletionInv, PlansAreNamed, Under
  <1>3. WantedIsAsked'
    BY DEF DeletionInv, WantedIsAsked, Deletes
  <1>4. OnlyNamedIsDeleted'
    BY DEF DeletionInv, OnlyNamedIsDeleted
  <1>5. QED
    BY <1>1, <1>2, <1>3, <1>4 DEF DeletionInv

LEMMA RequestsDeleteNothing == \A op \in Requests : op \in Operations /\ op \notin Deletions
  BY OperationParts DEF Requests, Operations, Deletions

\* Nor does a dialog that names another operation, or the plan of what was asked for.
LEMMA DeletionOpened ==
    ASSUME TypeOK, DeletionInv, UNCHANGED <<router, poll, wanted, asked>>, calls' \subseteq calls,
           NEW op \in Requests, Deletes(op), dialog'.op = op
    PROVE  DeletionInv'
  <1>1. op \notin Deletions
    BY RequestsDeleteNothing
  <1>2. Numbered'
    BY <1>1 DEF DeletionInv, Numbered, Under
  <1>3. PlansAreNamed'
    BY <1>1 DEF DeletionInv, PlansAreNamed, Under
  <1>4. WantedIsAsked'
    BY DEF DeletionInv, WantedIsAsked, Deletes
  <1>5. OnlyNamedIsDeleted'
    BY DEF DeletionInv, OnlyNamedIsDeleted
  <1>6. QED
    BY <1>2, <1>3, <1>4, <1>5 DEF DeletionInv

\* What is sent is a request, or the deletion the dialog names.
LEMMA DeletionSent ==
    ASSUME TypeOK, DeletionInv, NEW op \in Operations, NEW follow, Start(op, follow),
           op \in Requests \/ (dialog # Nothing /\ op = dialog.op),
           dialog' \in {dialog, Nothing}, asked \subseteq asked', wanted' \in asked' \cup {Nothing}
    PROVE  DeletionInv'
  <1>1. /\ router'.gone = router.gone /\ router'.plan = router.plan /\ router'.worker = router.worker
        /\ router'.ops = router.ops /\ router'.status = router.status
        /\ router'.queue = router.queue \cup {op} /\ UNCHANGED <<calls, poll>>
    BY DEF Start, TypeOK, Routers
  <1>2. \A o \in Deletions : Under(o)' => Under(o)
    BY <1>1, RequestsDeleteNothing DEF Under
  <1>3. Numbered'
    BY <1>1, <1>2 DEF DeletionInv, Numbered
  <1>4. PlansAreNamed'
    BY <1>1, <1>2 DEF DeletionInv, PlansAreNamed
  <1>5. WantedIsAsked'
    BY <1>1 DEF DeletionInv, WantedIsAsked, Deletes
  <1>6. OnlyNamedIsDeleted'
    BY <1>1 DEF DeletionInv, OnlyNamedIsDeleted
  <1>7. QED
    BY <1>3, <1>4, <1>5, <1>6 DEF DeletionInv

LEMMA DeletionCoordinator ==
    ASSUME TypeOK, DeletionInv, Coordinator
    PROVE  DeletionInv'
  <1>0. router \in Routers /\ router.ops \in Nat
    BY DEF TypeOK, Routers
  <1>1. CASE Serve
    <2>1. PICK op \in router.queue :
            router' = [router EXCEPT
             !.queue = @ \ {op},
             !.worker = IF @ = Nothing THEN op ELSE @,
             !.here = @ \/ router.worker = Nothing,
             !.ops = IF router.worker = Nothing THEN @ + 1 ELSE @,
             !.status = IF router.worker = Nothing THEN Running(op, router.ops + 1) ELSE @]
      BY <1>1 DEF Serve
    <2>2. /\ router'.gone = router.gone /\ router'.plan = router.plan /\ router'.queue = router.queue \ {op}
          /\ UNCHANGED <<calls, dialog, asked, wanted, poll>>
      BY <2>1, <1>0, <1>1 DEF Serve, Routers, page, user
    <2>3. CASE router.worker = Nothing
      <3>1. router'.worker = op /\ router'.ops = router.ops + 1 /\ router'.status = Running(op, router.ops + 1)
        BY <2>1, <2>3, <1>0 DEF Routers
      <3>2. router'.status.id = router'.ops
        BY <3>1 DEF Running
      <3>3. \A o \in Deletions : Under(o)' => Under(o) /\ o[3] \in Nat
        BY <2>2, <3>1 DEF Under, Deletions
      <3>4. router.plan # Nothing => router.plan.id \in Nat
        BY <1>0 DEF Routers, Plans
      <3>5. Numbered'
        BY <1>0, <2>2, <2>3, <3>1, <3>2, <3>3, <3>4 DEF DeletionInv, Numbered
      <3>6. PlansAreNamed'
        BY <2>2, <3>3 DEF DeletionInv, PlansAreNamed
      <3>7. WantedIsAsked' /\ OnlyNamedIsDeleted'
        BY <2>2 DEF DeletionInv, WantedIsAsked, Deletes, OnlyNamedIsDeleted
      <3>8. QED
        BY <3>5, <3>6, <3>7 DEF DeletionInv
    <2>4. CASE router.worker # Nothing
      <3>1. router'.worker = router.worker /\ router'.ops = router.ops /\ router'.status = router.status
        BY <2>1, <2>4, <1>0 DEF Routers
      <3>2. QED
        BY <2>2, <3>1, DeletionUntouched
    <2>5. QED
      BY <2>3, <2>4
  <1>2. CASE Lose
    <2>1. PICK op \in router.queue : router' = [router EXCEPT !.queue = @ \ {op}]
      BY <1>2 DEF Lose
    <2>2. /\ router'.gone = router.gone /\ router'.plan = router.plan /\ router'.worker = router.worker
          /\ router'.ops = router.ops /\ router'.status = router.status /\ router'.queue \subseteq router.queue
      BY <2>1, <1>0 DEF Routers
    <2>3. UNCHANGED <<calls, dialog, asked, wanted, poll>>
      BY <1>2 DEF Lose, page, user
    <2>4. QED
      BY <2>2, <2>3, DeletionUntouched
  <1>3. CASE BeginElsewhere
    <2>1. PICK p \in Profiles, verb \in {"enable", "delete-plan"} :
            router' = [router EXCEPT !.worker = <<verb, Home[p], p>>, !.here = FALSE, !.ops = @ + 1,
                                     !.status = Running(<<verb, Home[p], p>>, router.ops + 1)]
      BY <1>3 DEF BeginElsewhere
    <2>2. /\ router'.gone = router.gone /\ router'.plan = router.plan /\ router'.queue = router.queue
          /\ router'.worker = <<verb, Home[p], p>> /\ router'.ops = router.ops + 1
          /\ router'.status.id = router.ops + 1
      BY <2>1, <1>0 DEF Routers, Running
    <2>3. router.worker = Nothing /\ UNCHANGED <<calls, dialog, asked, wanted, poll>>
      BY <1>3 DEF BeginElsewhere, page, user
    <2>4. <<verb, Home[p], p>> \notin Deletions
      BY DEF Deletions
    <2>5. \A o \in Deletions : Under(o)' => Under(o) /\ o[3] \in Nat
      BY <2>2, <2>3, <2>4 DEF Under, Deletions
    <2>6. router.plan # Nothing => router.plan.id \in Nat
      BY <1>0 DEF Routers, Plans
    <2>7. Numbered'
      BY <1>0, <2>2, <2>3, <2>5, <2>6 DEF DeletionInv, Numbered
    <2>8. PlansAreNamed'
      BY <2>2, <2>3, <2>5 DEF DeletionInv, PlansAreNamed
    <2>9. WantedIsAsked' /\ OnlyNamedIsDeleted'
      BY <2>2, <2>3 DEF DeletionInv, WantedIsAsked, Deletes, OnlyNamedIsDeleted
    <2>10. QED
      BY <2>7, <2>8, <2>9 DEF DeletionInv
  <1>4. CASE End
    <2>1. router.worker # Nothing /\ UNCHANGED <<calls, dialog, asked, wanted, poll>>
      BY <1>4 DEF End, page, user
    <2>2. PICK class \in {"succeeded", "partial", "failed"} : router' \in Terminal(router.worker, class)
      BY <1>4 DEF End
    <2>3. PlansAreNamed
      BY DEF DeletionInv
    <2> DEFINE r == router'
    <2>4. /\ r.worker = Nothing /\ r.queue = router.queue /\ r.ops = router.ops
          /\ r.status = [router.status EXCEPT !.busy = FALSE, !.class = class, !.retry = r.status.retry]
          /\ \/ r.gone = router.gone
             \/ /\ router.worker[1] = "delete-confirm" /\ router.plan # Nothing /\ router.plan.id = router.worker[3]
                /\ r.gone = router.gone \cup {router.plan.profile}
          /\ \/ r.plan \in {router.plan, Nothing}
             \/ router.worker[1] = "delete-plan" /\ \E yes \in BOOLEAN : r.plan = Stored(yes)
      BY <2>1, <2>2, <2>3, TerminalFacts
    <2>5. \A o \in Deletions : Under(o)' => Under(o) /\ o[3] \in Nat
      BY <2>1, <2>4, NamesAssumption DEF Under, Deletions, Operations
    <2>6. router.status.id = router.ops
      BY <2>1 DEF DeletionInv, Numbered
    <2>7. r.plan = router.plan \/ r.plan = Nothing \/ r.plan.id = router.ops
      <3>1. \A yes : Stored(yes).id = router.ops
        BY <2>6 DEF Stored
      <3>2. r.plan \in {router.plan, Nothing} \/ \E yes \in BOOLEAN : r.plan = Stored(yes)
        BY <2>4
      <3>3. QED
        BY <3>1, <3>2
    <2>8. Numbered'
      BY <1>0, <2>1, <2>4, <2>5, <2>7 DEF DeletionInv, Numbered
    <2>9. PlansAreNamed'
      <3>1. \A o \in Deletions : Under(o) => o[3] # router.ops
        BY <1>0, <2>1 DEF DeletionInv, Numbered, Deletions
      <3>2. QED
        BY <2>1, <2>5, <2>7, <3>1 DEF DeletionInv, PlansAreNamed
    <2>10. OnlyNamedIsDeleted'
      <3>1. router.worker[1] = "delete-confirm" => router.worker \in Deletions
        BY <1>0, <2>1, OperationParts DEF Routers
      <3>2. QED
        BY <2>1, <2>4, <3>1 DEF DeletionInv, PlansAreNamed, OnlyNamedIsDeleted, Under
    <2>11. WantedIsAsked'
      BY <2>1 DEF DeletionInv, WantedIsAsked, Deletes
    <2>12. QED
      BY <2>8, <2>9, <2>10, <2>11 DEF DeletionInv
  <1>5. CASE Enumerate
    <2>1. /\ router'.gone = router.gone /\ router'.plan = router.plan /\ router'.worker = router.worker
          /\ router'.ops = router.ops /\ router'.status = router.status /\ router'.queue = router.queue
      BY <1>5, <1>0 DEF Enumerate, Routers
    <2>2. UNCHANGED <<calls, dialog, asked, wanted, poll>>
      BY <1>5 DEF Enumerate, page, user
    <2>3. QED
      BY <2>1, <2>2, DeletionUntouched
  <1>6. QED
    BY <1>1, <1>2, <1>3, <1>4, <1>5 DEF Coordinator

LEMMA DeletionReading ==
    ASSUME TypeOK, DeletionInv, Reading
    PROVE  DeletionInv'
  <1>0. router \in Routers
    BY DEF TypeOK
  <1>1. ASSUME InventoryRead \/ ActionRead \/ ProbeRead \/ SlotsAsked \/ CardRead
        PROVE  DeletionInv'
    <2>1. UNCHANGED <<dialog, asked, wanted, poll>>
      BY <1>1 DEF InventoryRead, ActionRead, ProbeRead, SlotsAsked, CardRead, user
    <2>2. router' = router \/ \E known : router' = [router EXCEPT !.known = known]
      BY <1>1 DEF InventoryRead, ActionRead, ProbeRead, SlotsAsked, CardRead
    <2>3. /\ router'.gone = router.gone /\ router'.plan = router.plan /\ router'.worker = router.worker
          /\ router'.ops = router.ops /\ router'.status = router.status /\ router'.queue = router.queue
      BY <1>0, <2>2 DEF Routers
    <2>4. calls' \subseteq calls \cup {<<"action">>, <<"inventory">>}
      BY <1>1 DEF InventoryRead, ActionRead, ProbeRead, SlotsAsked, CardRead
    <2>5. \A op \in Requests : <<"plan", op>> \in calls' => <<"plan", op>> \in calls
      BY <2>4
    <2>6. QED
      BY <2>1, <2>3, <2>5, DeletionUntouched
  <1>2. CASE PlanRead
    <2>1. PICK c \in {d \in calls : d[1] = "plan"} :
            calls' = calls \ {c} /\ (dialog' = Confirmation(c[2]) \/ UNCHANGED dialog)
      BY <1>2 DEF PlanRead
    <2>2. UNCHANGED <<router, poll, wanted, asked>>
      BY <1>2 DEF PlanRead
    <2>3. CASE dialog' = dialog
      BY <2>1, <2>2, <2>3, DeletionUntouched
    <2>4. CASE dialog' = Confirmation(c[2])
      <3>1. c[2] \in Requests /\ c = <<"plan", c[2]>>
        BY <2>1 DEF TypeOK, Calls
      <3>2. Deletes(c[2])
        BY <2>1, <3>1 DEF DeletionInv, WantedIsAsked
      <3>3. dialog'.op = c[2]
        BY <2>4 DEF Confirmation
      <3>4. QED
        BY <2>1, <2>2, <3>1, <3>2, <3>3, DeletionOpened
    <2>5. QED
      BY <2>1, <2>3, <2>4
  <1>3. QED
    BY <1>1, <1>2 DEF Reading

LEMMA DeletionFollowing ==
    ASSUME TypeOK, DeletionInv, Following
    PROVE  DeletionInv'
  <1>1. CASE Poll
    <2>1. poll' # Nothing /\ poll'.stage = "plan" => UNCHANGED poll
      BY <1>1 DEF Poll
    <2>2. UNCHANGED <<router, calls, dialog, asked, wanted>>
      BY <1>1 DEF Poll, user
    <2>3. QED
      BY <2>1, <2>2, DeletionUntouched
  <1>2. CASE AwaitEndpoint
    <2>1. poll'.stage = "endpoint"
      BY <1>2 DEF AwaitEndpoint, Asked, TypeOK, Polls
    <2>2. UNCHANGED <<router, calls, dialog, asked, wanted>>
      BY <1>2 DEF AwaitEndpoint, user
    <2>3. QED
      BY <2>1, <2>2, DeletionUntouched
  <1>3. CASE EndpointBack
    <2>1. UNCHANGED <<router, calls, dialog, asked>> /\ wanted' \in {wanted, Nothing}
      BY <1>3 DEF EndpointBack, user
    <2>2. PICK stage \in {"plan", "card", "refresh"} :
            poll' = [poll EXCEPT !.stage = stage, !.profile = wanted] /\ (stage = "plan" => wanted # Nothing)
      BY <1>3 DEF EndpointBack
    <2>3. poll'.stage = stage /\ poll'.profile = wanted
      BY <1>3, <2>2 DEF EndpointBack, TypeOK, Polls
    <2>4. WantedIsAsked'
      BY <2>1, <2>2, <2>3 DEF DeletionInv, WantedIsAsked, Deletes
    <2>5. Numbered' /\ PlansAreNamed' /\ OnlyNamedIsDeleted'
      BY <2>1 DEF DeletionInv, Numbered, PlansAreNamed, OnlyNamedIsDeleted, Under
    <2>6. QED
      BY <2>4, <2>5 DEF DeletionInv
  <1>4. CASE PlanCollected
    <2>1. UNCHANGED <<router, calls, wanted, asked>> /\ poll'.stage = "refresh" /\ poll.profile \in asked
      BY <1>4 DEF PlanCollected, TypeOK, Polls, DeletionInv, WantedIsAsked
    <2>2. CASE dialog' = dialog
      BY <2>1, <2>2, DeletionUntouched
    <2>3. CASE dialog' # dialog
      <3>1. /\ router.plan # Nothing /\ router.plan.profile = poll.profile
            /\ dialog'.op = <<"delete-confirm", router.plan.endpoint, router.plan.id>>
        BY <1>4, <2>3 DEF PlanCollected, PlanWanted
      <3>2. router.plan.id <= router.ops /\ (router.worker # Nothing => router.plan.id < router.ops)
        BY <3>1 DEF DeletionInv, Numbered
      <3>3. \A o \in Deletions : Under(o)' => Under(o) \/ o = dialog'.op
        BY <2>1 DEF Under
      <3>4. Numbered'
        BY <2>1, <3>1, <3>2, <3>3 DEF DeletionInv, Numbered
      <3>5. PlansAreNamed'
        BY <2>1, <3>1, <3>3 DEF DeletionInv, PlansAreNamed
      <3>6. WantedIsAsked'
        BY <2>1, <3>1 DEF DeletionInv, WantedIsAsked, Deletes
      <3>7. OnlyNamedIsDeleted'
        BY <2>1 DEF DeletionInv, OnlyNamedIsDeleted
      <3>8. QED
        BY <3>4, <3>5, <3>6, <3>7 DEF DeletionInv
    <2>4. QED
      BY <2>2, <2>3
  <1>5. CASE CardCollected
    <2>1. poll'.stage = "refresh"
      BY <1>5 DEF CardCollected, TypeOK, Polls
    <2>2. UNCHANGED <<router, calls, dialog, asked, wanted>>
      BY <1>5 DEF CardCollected, user
    <2>3. QED
      BY <2>1, <2>2, DeletionUntouched
  <1>6. CASE Refreshed
    <2>1. poll' = Nothing /\ UNCHANGED <<router, calls, dialog, asked, wanted>>
      BY <1>6 DEF Refreshed, user
    <2>2. QED
      BY <2>1, DeletionUntouched
  <1>7. QED
    BY <1>1, <1>2, <1>3, <1>4, <1>5, <1>6 DEF Following

LEMMA DeletionUser ==
    ASSUME TypeOK, DeletionInv, User
    PROVE  DeletionInv'
  <1>a. screen.controls \subseteq ControlType
    BY DEF TypeOK
  <1>b. wanted \in asked \cup {Nothing}
    BY DEF DeletionInv, WantedIsAsked
  <1>1. CASE PressRead
    <2>1. /\ UNCHANGED <<router, wanted, poll, user>>
          /\ \A op \in Requests : <<"plan", op>> \in calls' => <<"plan", op>> \in calls \/ op[1] # "delete-plan"
      BY <1>1, ReadsOnly
    <2>2. QED
      BY <2>1, DeletionUntouched DEF user
  <1>2. CASE PressDialog
    <2>1. PICK c \in screen.controls :
            \/ c[1] = "esim-nickname" /\ dialog' = Confirmation(<<"nickname", c[2], c[3]>>)
            \/ c[1] = "esim-notif-send" /\ dialog' = Confirmation(<<"notification-send", c[2], c[3]>>)
            \/ c[1] = "esim-notif-remove" /\ dialog' = Confirmation(<<"notification-remove", c[2], c[3]>>)
            \/ c[1] = "esim-download" /\ dialog' = Form("download", <<"download", c[2], Nothing>>, FALSE)
            \/ c[1] = "esim-unverified" /\ dialog' = Form("downgrade", Downgraded(c), TRUE)
      BY <1>2 DEF PressDialog
    <2>2. Downgraded(c)[1] # "delete-plan"
      BY DEF Downgraded
    <2>3. PICK op \in Requests : op[1] # "delete-plan" /\ dialog'.op = op
      <3>1. \/ c[1] = "esim-nickname" /\ dialog'.op = <<"nickname", c[2], c[3]>>
            \/ c[1] = "esim-notif-send" /\ dialog'.op = <<"notification-send", c[2], c[3]>>
            \/ c[1] = "esim-notif-remove" /\ dialog'.op = <<"notification-remove", c[2], c[3]>>
            \/ c[1] = "esim-download" /\ dialog'.op = <<"download", c[2], Nothing>>
            \/ c[1] = "esim-unverified" /\ dialog'.op = Downgraded(c)
        BY <2>1 DEF Confirmation, Form
      <3>2. dialog'.op \in Requests
        BY <3>1, <1>a, ControlsRequest
      <3>3. dialog'.op[1] # "delete-plan"
        BY <3>1, <2>2
      <3>4. QED
        BY <3>2, <3>3
    <2>4. UNCHANGED <<router, poll, wanted, asked, calls>> /\ Deletes(op)
      BY <1>2, <2>3 DEF PressDialog, page, Deletes
    <2>5. QED
      BY <2>3, <2>4, DeletionOpened
  <1>3. CASE PressDelete
    <2>1. PICK e \in Endpoints, p \in Profiles :
            /\ Pressed(<<"esim-delete", e, p>>)
            /\ asked' = asked \cup {p}
            /\ UNCHANGED <<dialog, unverified, sent>>
            /\ \/ planDeletion(e, p)
               \/ /\ calls' = calls \cup {Plan(<<"delete-plan", e, p>>)}
                  /\ UNCHANGED <<modem, router, documents, pending, wanted, reading, poll, shown, screen, blind>>
      BY <1>3 DEF PressDelete
    <2>2. <<"delete-plan", e, p>> \in Requests
      <3>1. Home[p] = e
        BY <2>1, <1>a, ControlParts DEF Pressed
      <3>2. QED
        BY <3>1, ProfileRequests
    <2>3. CASE planDeletion(e, p)
      <3>1. Start(<<"delete-plan", e, p>>, FALSE) /\ wanted' = p
        BY <2>3 DEF planDeletion
      <3>2. QED
        BY <2>1, <2>2, <3>1, RequestsDeleteNothing, DeletionSent
    <2>4. CASE /\ calls' = calls \cup {Plan(<<"delete-plan", e, p>>)}
               /\ UNCHANGED <<modem, router, documents, pending, wanted, reading, poll, shown, screen, blind>>
      <3>1. \A op \in Requests : <<"plan", op>> \in calls' => <<"plan", op>> \in calls \/ op[3] = p
        BY <2>4 DEF Plan
      <3>2. WantedIsAsked'
        BY <2>1, <2>4, <3>1 DEF DeletionInv, WantedIsAsked, Deletes
      <3>3. Numbered' /\ PlansAreNamed' /\ OnlyNamedIsDeleted'
        BY <2>1, <2>4 DEF DeletionInv, Numbered, PlansAreNamed, OnlyNamedIsDeleted, Under
      <3>4. QED
        BY <3>2, <3>3 DEF DeletionInv
    <2>5. QED
      BY <2>1, <2>3, <2>4
  <1>4. CASE Expire
    <2>1. dialog # Nothing /\ dialog'.op = dialog.op
      BY <1>4 DEF Expire, TypeOK, Dialogs
    <2>2. UNCHANGED <<router, calls, asked, wanted, poll>>
      BY <1>4 DEF Expire, page
    <2>3. QED
      BY <2>1, <2>2, DeletionUntouched
  <1>5. CASE Cancel
    <2>1. dialog' = Nothing /\ UNCHANGED <<router, calls, asked, wanted, poll>>
      BY <1>5 DEF Cancel, page
    <2>2. QED
      BY <2>1, DeletionUntouched
  <1>6. CASE Confirm
    <2>1. dialog # Nothing /\ dialog.kind = "confirm" /\ dialog' = Nothing /\ UNCHANGED asked
      BY <1>6 DEF Confirm
    <2>2. dialog.op \in Requests /\ dialog.op \in Operations /\ Deletes(dialog.op)
      BY <2>1, DialogParts DEF DeletionInv, WantedIsAsked
    <2>3. CASE dialog.op[1] = "delete-plan"
      <3>1. planDeletion(dialog.op[2], dialog.op[3])
        BY <1>6, <2>3 DEF Confirm
      <3>2. dialog.op = <<"delete-plan", dialog.op[2], dialog.op[3]>>
        BY <2>2, <2>3, OperationParts
      <3>3. wanted' = dialog.op[3] /\ Start(dialog.op, FALSE)
        BY <3>1, <3>2 DEF planDeletion
      <3>4. QED
        BY <2>1, <2>2, <2>3, <3>3, DeletionSent DEF Deletes
    <2>4. CASE dialog.op[1] = "slot-switch"
      <3>1. UNCHANGED <<router, calls, wanted, poll>>
        BY <1>6, <2>4 DEF Confirm
      <3>2. QED
        BY <2>1, <3>1, DeletionUntouched
    <2>5. CASE dialog.op[1] \notin {"delete-plan", "slot-switch"}
      <3>1. Start(dialog.op, dialog.op[1] # "card-probe") /\ UNCHANGED wanted
        BY <1>6, <2>5 DEF Confirm
      <3>2. QED
        BY <1>b, <2>1, <2>2, <3>1, DeletionSent
    <2>6. QED
      BY <2>3, <2>4, <2>5
  <1>7. CASE ConfirmDownload
    <2>1. dialog # Nothing /\ dialog' = Nothing /\ Start(dialog.op, TRUE) /\ UNCHANGED <<wanted, asked>>
      BY <1>7 DEF ConfirmDownload
    <2>2. dialog.op \in Operations
      BY <2>1, DialogParts
    <2>3. QED
      BY <1>b, <2>1, <2>2, DeletionSent
  <1>8. CASE ConfirmDowngrade
    <2>1. dialog # Nothing /\ UNCHANGED <<asked, wanted>>
      BY <1>8 DEF ConfirmDowngrade, page
    <2>2. dialog.op \in Operations
      BY <2>1, DialogParts
    <2>3. CASE dialog.op[1] = "download"
      <3>1. dialog' = Nothing \/ dialog'.op = dialog.op
        BY <1>8, <2>3 DEF ConfirmDowngrade, Form
      <3>2. UNCHANGED <<router, calls, poll>>
        BY <1>8, <2>3 DEF ConfirmDowngrade, page
      <3>3. QED
        BY <2>1, <3>1, <3>2, DeletionUntouched
    <2>4. CASE dialog.op[1] # "download"
      <3>1. dialog' = Nothing /\ Start(dialog.op, TRUE)
        BY <1>8, <2>4 DEF ConfirmDowngrade
      <3>2. QED
        BY <1>b, <2>1, <2>2, <3>1, DeletionSent
    <2>5. QED
      BY <2>3, <2>4
  <1>9. CASE ConfirmDelete
    <2>1. dialog # Nothing /\ dialog' = Nothing /\ Start(dialog.op, TRUE) /\ UNCHANGED <<wanted, asked>>
      BY <1>9 DEF ConfirmDelete
    <2>2. dialog.op \in Operations
      BY <2>1, DialogParts
    <2>3. QED
      BY <1>b, <2>1, <2>2, DeletionSent
  <1>10. QED
    BY <1>1, <1>2, <1>3, <1>4, <1>5, <1>6, <1>7, <1>8, <1>9 DEF User

LEMMA DeletionInit == Init => DeletionInv
  <1> SUFFICES ASSUME Init PROVE DeletionInv
    OBVIOUS
  <1>1. /\ router.worker = Nothing /\ router.plan = Nothing /\ router.queue = {} /\ router.gone = {}
        /\ dialog = Nothing /\ poll = Nothing /\ wanted = Nothing
    BY DEF Init, Fresh
  <1>2. \A op \in Deletions : ~Under(op)
    BY <1>1, NamesAssumption DEF Under, Operations
  <1>3. \A op : <<"plan", op>> \notin calls
    BY DEF Init
  <1>4. QED
    BY <1>1, <1>2, <1>3 DEF DeletionInv, Numbered, PlansAreNamed, WantedIsAsked, OnlyNamedIsDeleted

NamedInv == TypeOK /\ DeletionInv

LEMMA NamedStep == NamedInv /\ [Next]_vars => NamedInv'
  <1> SUFFICES ASSUME NamedInv, [Next]_vars PROVE NamedInv'
    OBVIOUS
  <1>1. TypeOK /\ DeletionInv /\ PlansAreNamed
    BY DEF NamedInv, DeletionInv
  <1>2. CASE Coordinator
    BY <1>1, <1>2, TypeCoordinator, DeletionCoordinator DEF NamedInv
  <1>3. CASE Reading
    BY <1>1, <1>3, TypeReading, DeletionReading DEF NamedInv
  <1>4. CASE Following
    BY <1>1, <1>4, TypeFollowing, DeletionFollowing DEF NamedInv
  <1>5. CASE User
    BY <1>1, <1>5, TypeUser, DeletionUser DEF NamedInv
  <1>6. CASE Redraw
    <2>1. /\ UNCHANGED <<modem, router, documents, calls, pending, wanted, reading, poll, shown, user, blind, spent>>
          /\ renderRoute
      BY <1>6 DEF Redraw
    <2>2. documents' \in Documents
      BY <1>1, <2>1 DEF TypeOK
    <2>3. TypeOK'
      BY <1>1, <2>1, <2>2, DrawnType DEF TypeOK, user
    <2>4. DeletionInv'
      BY <1>1, <2>1, DeletionUntouched DEF user
    <2>5. QED
      BY <2>3, <2>4 DEF NamedInv
  <1>7. CASE UNCHANGED vars
    <2>1. TypeOK'
      BY <1>1, <1>7 DEF vars, page, user, TypeOK
    <2>2. DeletionInv'
      BY <1>1, <1>7, DeletionUntouched DEF vars, page, user
    <2>3. QED
      BY <2>1, <2>2 DEF NamedInv
  <1>8. QED
    BY <1>2, <1>3, <1>4, <1>5, <1>6, <1>7 DEF Next
-----------------------------------------------------------------------------
(* The lists follow the card.                                              *)

\* A control that is drawn beside a profile says what was read of it.
LEMMA DrawnRight ==
    TypeOK /\ ListsAreRight =>
        \A c \in Controls : c[1] \in Choosing /\ c[2] \notin blind => Agrees(c) \/ Due(c[2])
  <1> SUFFICES ASSUME TypeOK, ListsAreRight, NEW c \in Controls, c[1] \in Choosing, c[2] \notin blind, ~Due(c[2])
               PROVE  Agrees(c)
    OBVIOUS
  <1>1. PICK e \in Endpoints : c \in endpointPanel(e)
    <2>1. c \notin slotRowNodes \cup esimDowngradeNodes \cup probeNodes
      BY DEF Choosing, slotRowNodes, esimDowngradeNodes, probeNodes
    <2>2. Known(documents.inventory) => documents.inventory.seen \subseteq Endpoints
      BY DEF TypeOK, Documents, Known
    <2>3. QED
      BY <2>1, <2>2 DEF Controls
  <1>2. c \in endpointCardNodes(e)
    BY <1>1 DEF endpointPanel, endpointReadNodes, endpointLifecycleNodes, Choosing
  <1> DEFINE list == documents.lists[e]
  <1>3. c \notin notificationListNodes(e, list.messages)
    BY DEF notificationListNodes, Choosing
  <1>4. PICK p \in DOMAIN list.profiles :
          list # Unread /\ list.profiles # Failed /\ c \in profileControlNodes(e, p, list.profiles[p])
    BY <1>2, <1>3 DEF endpointCardNodes
  <1>5. /\ c[2] = e /\ c[3] = p
        /\ c[1] \in {"esim-enable", "esim-delete"} => list.profiles[p] = "disabled"
        /\ c[1] = "esim-disable" => list.profiles[p] = "enabled"
    BY <1>4 DEF profileControlNodes
  <1>6. Right(e)
    BY <1>5 DEF ListsAreRight
  <1>7. list.profiles = ProfileList(e)
    BY <1>4, <1>6 DEF Right
  <1>8. list.profiles[p] = router.state[p]
    BY <1>4, <1>7 DEF ProfileList
  <1>9. QED
    BY <1>5, <1>8 DEF Agrees, Choosing

LEMMA ScreenDrawn ==
    ASSUME TypeOK', ListsAreRight', renderRoute
    PROVE  ScreenIsRight'
  <1>1. (TypeOK /\ ListsAreRight)' =>
          (\A c \in Controls : c[1] \in Choosing /\ c[2] \notin blind => Agrees(c) \/ Due(c[2]))'
    BY DrawnRight, PTL
  <1>2. QED
    BY <1>1 DEF renderRoute, ScreenIsRight

\* Where card and lists are left alone, it is enough that nothing that is due is forgotten.
LEMMA CardSame ==
    ASSUME TypeOK, TypeOK', CardInv, Alone',
           router'.state = router.state, documents'.lists = documents.lists,
           \A e \in Endpoints : e \notin blind' => e \notin blind /\ (Due(e) => Due(e)'),
           renderRoute \/ /\ screen'.controls = screen.controls
                          /\ poll # Nothing => poll' # Nothing /\ poll'.endpoint = poll.endpoint
    PROVE  CardInv'
  <1>1. \A e \in Endpoints : Right(e) => Right(e)'
    BY DEF Right, ProfileList, On
  <1>2. ListsAreRight'
    BY <1>1 DEF CardInv, ListsAreRight
  <1>3. CASE renderRoute
    BY <1>2, <1>3, ScreenDrawn DEF CardInv
  <1>4. CASE /\ screen'.controls = screen.controls
             /\ poll # Nothing => poll' # Nothing /\ poll'.endpoint = poll.endpoint
    <2> SUFFICES ASSUME NEW c \in screen'.controls, c[1] \in Choosing, c[2] \notin blind'
                 PROVE  Agrees(c)' \/ Due(c[2])' \/ (poll' # Nothing /\ poll'.endpoint = c[2])
      BY <1>2 DEF CardInv, ScreenIsRight
    <2>1. c[2] \in Endpoints
      BY <1>4, ControlParts DEF TypeOK, Choosing
    <2>2. Agrees(c) \/ Due(c[2]) \/ (poll # Nothing /\ poll.endpoint = c[2])
      BY <1>4, <2>1 DEF CardInv, ScreenIsRight
    <2>3. Agrees(c) => Agrees(c)'
      BY DEF Agrees
    <2>4. QED
      BY <1>4, <2>1, <2>2, <2>3
  <1>5. QED
    BY <1>3, <1>4

\* Nothing that the invariant speaks of changes, but what is drawn.
LEMMA CardStill ==
    ASSUME TypeOK, TypeOK', CardInv, UNCHANGED <<pending, poll, blind>>, documents'.lists = documents.lists,
           router'.state = router.state, router'.queue = router.queue, router'.worker = router.worker,
           router'.here = router.here, router'.status = router.status,
           renderRoute \/ screen'.controls = screen.controls
    PROVE  CardInv'
  <1>1. Alone'
    BY DEF CardInv, Alone
  <1>2. \A e \in Endpoints : Due(e) => Due(e)'
    BY DEF Due, Quiet
  <1>3. QED
    BY <1>1, <1>2, CardSame

\* What is sent while something is under way makes every card uncertain.
LEMMA CardSent ==
    ASSUME TypeOK, TypeOK', CardInv, NEW op, NEW follow, Start(op, follow)
    PROVE  CardInv'
  <1>1. /\ router'.state = router.state /\ router'.worker = router.worker /\ router'.here = router.here
        /\ router'.status = router.status /\ router'.queue = router.queue \cup {op}
    BY DEF Start, TypeOK, Routers
  <1>2. documents' = documents /\ poll' = poll /\ screen'.controls = screen.controls
    BY DEF Start, setControlsBusy, TypeOK
  <1>3. CASE Quiet /\ pending = Nothing
    <2>1. blind' = blind /\ pending'.op = op
      BY <1>3 DEF Start
    <2>2. Alone'
      BY <1>1, <1>3, <2>1 DEF Alone, Quiet
    <2>3. \A e \in Endpoints : Due(e) => Due(e)'
      BY <1>2, <1>3 DEF Due
    <2>4. QED
      BY <1>1, <1>2, <2>1, <2>2, <2>3, CardSame
  <1>4. CASE ~(Quiet /\ pending = Nothing)
    <2>1. blind' = Endpoints
      BY <1>4 DEF Start
    <2>2. Alone'
      BY <2>1 DEF Alone
    <2>3. QED
      BY <1>1, <1>2, <2>1, <2>2, CardSame
  <1>5. QED
    BY <1>3, <1>4

\* A card that was read while nothing ran is known.
LEMMA CardSeen ==
    ASSUME TypeOK, TypeOK', CardInv, NEW e \in Endpoints, NEW list \in CardLists(e),
           documents' = [documents EXCEPT !.lists[e] = list],
           blind' = IF list.profiles # Failed /\ Quiet THEN blind \ {e} ELSE blind,
           UNCHANGED <<router, pending>>, \A f \in Endpoints \ {e} : Due(f) => Due(f)',
           renderRoute \/ /\ UNCHANGED screen
                          /\ poll # Nothing /\ poll.endpoint = e /\ poll' # Nothing /\ poll'.endpoint = e
    PROVE  CardInv'
  <1>1. /\ documents'.lists[e] = list
        /\ \A f \in Endpoints \ {e} : documents'.lists[f] = documents.lists[f]
    BY DEF TypeOK, Documents
  <1>2. Alone'
    BY DEF CardInv, Alone, Quiet
  <1>3. Right(e)'
    BY <1>1 DEF Right, CardLists, ProfileList
  <1>4. \A f \in Endpoints \ {e} : Right(f) => Right(f)'
    BY <1>1 DEF Right, ProfileList
  <1>5. ListsAreRight'
    BY <1>3, <1>4 DEF CardInv, ListsAreRight
  <1>6. CASE renderRoute
    BY <1>2, <1>5, <1>6, ScreenDrawn DEF CardInv
  <1>7. CASE /\ UNCHANGED screen
             /\ poll # Nothing /\ poll.endpoint = e /\ poll' # Nothing /\ poll'.endpoint = e
    <2> SUFFICES ASSUME NEW c \in screen.controls, c[1] \in Choosing, c[2] \notin blind', c[2] # e
                 PROVE  Agrees(c)' \/ Due(c[2])'
      BY <1>2, <1>5, <1>7 DEF CardInv, ScreenIsRight
    <2>1. c[2] \in Endpoints
      BY ControlParts DEF TypeOK, Choosing
    <2>2. Agrees(c) \/ Due(c[2])
      BY <1>7 DEF CardInv, ScreenIsRight
    <2>3. QED
      BY <2>1, <2>2 DEF Agrees
  <1>8. QED
    BY <1>6, <1>7

\* An operation ends: it was followed, or its card is not vouched for.
LEMMA CardEnd ==
    ASSUME TypeOK, TypeOK', PlansAreNamed, CardInv, End
    PROVE  CardInv'
  <1>1. router.worker # Nothing /\ UNCHANGED <<documents, pending, poll, screen>>
    BY DEF End, page
  <1>2. PICK class \in {"succeeded", "partial", "failed"} :
          /\ router' \in Terminal(router.worker, class)
          /\ blind' = IF router'.state # router.state /\ ~Followed THEN blind \cup {router.worker[2]} ELSE blind
    BY DEF End
  <1>3. /\ router'.worker = Nothing /\ router'.queue = router.queue /\ router'.here = router.here
        /\ router'.status = [router.status EXCEPT !.busy = FALSE, !.class = class, !.retry = router'.status.retry]
        /\ router'.state # router.state => class \in {"succeeded", "partial"}
        /\ \A p \in Profiles : Home[p] # router.worker[2] => router'.state[p] = router.state[p]
    BY <1>1, <1>2, TerminalFacts
  <1>4. ~router'.status.busy /\ router'.status.class = class
    <2>1. router.status \in Statuses
      BY DEF TypeOK, Routers
    <2>2. QED
      BY <1>3, <2>1 DEF Statuses
  <1>5. Alone'
    BY <1>1, <1>2, <1>3 DEF CardInv, Alone
  <1>6. \A e \in Endpoints : Due(e) => Due(e)'
    BY <1>1 DEF Due, Quiet
  <1>7. CASE router'.state = router.state
    <2>1. blind' = blind
      BY <1>2, <1>7
    <2>2. QED
      BY <1>1, <1>5, <1>6, <1>7, <2>1, CardSame
  <1>8. CASE router'.state # router.state
    <2>1. ASSUME NEW e \in Endpoints, e \notin blind', e = router.worker[2]
          PROVE  Due(e)'
      <3>1. Followed /\ e \notin blind
        BY <1>2, <1>8, <2>1
      <3>2. pending # Nothing /\ pending.follow /\ pending.op = router.worker /\ router.queue = {}
        BY <1>1, <3>1 DEF Followed, CardInv, Alone
      <3>3. Quiet'
        BY <1>3, <3>2 DEF Quiet
      <3>4. mayHaveChanged(router'.status.class)
        BY <1>3, <1>4, <1>8 DEF mayHaveChanged
      <3>5. QED
        BY <1>1, <1>4, <2>1, <3>2, <3>3, <3>4 DEF Due
    <2>2. ASSUME NEW e \in Endpoints, e # router.worker[2], Right(e)
          PROVE  Right(e)'
      <3>1. ProfileList(e)' = ProfileList(e)
        BY <1>3, <2>2 DEF ProfileList, On
      <3>2. QED
        BY <1>1, <2>2, <3>1 DEF Right
    <2>3. \A e \in Endpoints : e \notin blind' => e \notin blind
      BY <1>2
    <2>4. ListsAreRight'
      BY <1>6, <2>1, <2>2, <2>3 DEF CardInv, ListsAreRight
    <2>5. ScreenIsRight'
      <3> SUFFICES ASSUME NEW c \in screen.controls, c[1] \in Choosing, c[2] \notin blind'
                   PROVE  Agrees(c)' \/ Due(c[2])' \/ (poll # Nothing /\ poll.endpoint = c[2])
        BY <1>1 DEF ScreenIsRight
      <3>1. c[2] \in Endpoints /\ c[3] \in Profiles /\ Home[c[3]] = c[2]
        BY ControlParts DEF TypeOK, Choosing
      <3>2. CASE c[2] = router.worker[2]
        BY <2>1, <3>1, <3>2
      <3>3. CASE c[2] # router.worker[2]
        <4>1. Agrees(c) => Agrees(c)'
          BY <1>3, <3>1, <3>3 DEF Agrees
        <4>2. Agrees(c) \/ Due(c[2]) \/ (poll # Nothing /\ poll.endpoint = c[2])
          BY <2>3, <3>1 DEF CardInv, ScreenIsRight
        <4>3. QED
          BY <1>6, <3>1, <4>1, <4>2
      <3>4. QED
        BY <3>2, <3>3
    <2>6. QED
      BY <1>5, <2>4, <2>5 DEF CardInv
  <1>9. QED
    BY <1>7, <1>8

LEMMA CardCoordinator ==
    ASSUME TypeOK, TypeOK', PlansAreNamed, CardInv, Coordinator
    PROVE  CardInv'
  <1>0. router \in Routers
    BY DEF TypeOK
  <1>1. CASE Serve
    <2>1. PICK op \in router.queue :
            router' = [router EXCEPT
             !.queue = @ \ {op},
             !.worker = IF @ = Nothing THEN op ELSE @,
             !.here = @ \/ router.worker = Nothing,
             !.ops = IF router.worker = Nothing THEN @ + 1 ELSE @,
             !.status = IF router.worker = Nothing THEN Running(op, router.ops + 1) ELSE @]
      BY <1>1 DEF Serve
    <2>2. UNCHANGED <<documents, pending, poll, blind, screen>>
      BY <1>1 DEF Serve, page
    <2>3. /\ router'.state = router.state /\ router'.queue = router.queue \ {op}
          /\ router.worker = Nothing => router'.worker = op /\ router'.here
      BY <2>1, <1>0 DEF Routers
    <2>4. Alone'
      BY <2>2, <2>3 DEF CardInv, Alone
    <2>5. \A e \in Endpoints : Due(e) => Due(e)'
      BY <2>2 DEF Due, Quiet
    <2>6. QED
      BY <2>2, <2>3, <2>4, <2>5, CardSame
  <1>2. CASE Lose
    <2>1. PICK op \in router.queue : router' = [router EXCEPT !.queue = @ \ {op}]
      BY <1>2 DEF Lose
    <2>2. UNCHANGED <<documents, pending, poll, blind, screen>>
      BY <1>2 DEF Lose, page
    <2>3. /\ router'.state = router.state /\ router'.queue = router.queue \ {op}
          /\ router'.worker = router.worker /\ router'.here = router.here
      BY <2>1, <1>0 DEF Routers
    <2>4. Alone'
      BY <2>2, <2>3 DEF CardInv, Alone
    <2>5. \A e \in Endpoints : Due(e) => Due(e)'
      BY <2>2 DEF Due, Quiet
    <2>6. QED
      BY <2>2, <2>3, <2>4, <2>5, CardSame
  <1>3. CASE BeginElsewhere
    <2>1. PICK p \in Profiles, verb \in {"enable", "delete-plan"} :
            router' = [router EXCEPT !.worker = <<verb, Home[p], p>>, !.here = FALSE, !.ops = @ + 1,
                                     !.status = Running(<<verb, Home[p], p>>, router.ops + 1)]
      BY <1>3 DEF BeginElsewhere
    <2>2. /\ UNCHANGED <<documents, pending, poll, screen>>
          /\ blind' = IF pending # Nothing /\ pending.follow THEN Endpoints ELSE blind
      BY <1>3 DEF BeginElsewhere, page
    <2>3. router'.state = router.state
      BY <2>1, <1>0 DEF Routers
    <2>4. Alone'
      BY <2>2 DEF Alone
    <2>5. \A e \in Endpoints : e \notin blind' => e \notin blind /\ (Due(e) => Due(e)')
      BY <2>2 DEF Due
    <2>6. QED
      BY <2>2, <2>3, <2>4, <2>5, CardSame
  <1>4. CASE End
    BY <1>4, CardEnd
  <1>5. CASE Enumerate
    <2>1. /\ router'.state = router.state /\ router'.queue = router.queue /\ router'.worker = router.worker
          /\ router'.here = router.here /\ router'.status = router.status
      BY <1>5, <1>0 DEF Enumerate, Routers
    <2>2. UNCHANGED <<documents, pending, poll, blind, screen>>
      BY <1>5 DEF Enumerate, page
    <2>3. QED
      BY <2>1, <2>2, CardStill
  <1>6. QED
    BY <1>1, <1>2, <1>3, <1>4, <1>5 DEF Coordinator

LEMMA CardReading ==
    ASSUME TypeOK, TypeOK', CardInv, Reading
    PROVE  CardInv'
  <1>0. router \in Routers /\ documents \in Documents
    BY DEF TypeOK
  <1>1. CASE InventoryRead \/ ProbeRead \/ SlotsAsked
    <2>1. UNCHANGED <<pending, poll, blind>>
      BY <1>1 DEF InventoryRead, ProbeRead, SlotsAsked
    <2>2. documents' = documents \/ \E answer : documents' = [documents EXCEPT !.inventory = answer]
      BY <1>1 DEF InventoryRead, ProbeRead, SlotsAsked
    <2>3. documents'.lists = documents.lists
      BY <1>0, <2>2 DEF Documents
    <2>4. router' = router \/ \E known : router' = [router EXCEPT !.known = known]
      BY <1>1 DEF InventoryRead, ProbeRead, SlotsAsked
    <2>5. /\ router'.state = router.state /\ router'.queue = router.queue /\ router'.worker = router.worker
          /\ router'.here = router.here /\ router'.status = router.status
      BY <1>0, <2>4 DEF Routers
    <2>6. renderRoute \/ UNCHANGED screen
      BY <1>1 DEF InventoryRead, ProbeRead, SlotsAsked
    <2>7. QED
      BY <2>1, <2>3, <2>5, <2>6, CardStill
  <1>2. CASE ActionRead
    <2>1. UNCHANGED <<router, poll, blind>> /\ renderRoute
      BY <1>2 DEF ActionRead, user
    <2>2. documents'.lists = documents.lists
      BY <1>0, <1>2 DEF ActionRead, Documents
    <2>3. pending' = pending \/ (pending = Nothing /\ ~pending'.follow)
      BY <1>2 DEF ActionRead
    <2>4. Alone'
      BY <2>1, <2>3 DEF CardInv, Alone
    <2>5. \A e \in Endpoints : Due(e) => Due(e)'
      BY <2>1, <2>3 DEF Due, Quiet
    <2>6. QED
      BY <2>1, <2>2, <2>4, <2>5, CardSame
  <1>3. CASE CardRead
    <2>1. PICK e \in Endpoints : \E list \in CardLists(e) :
            /\ documents' = [documents EXCEPT !.lists[e] = list]
            /\ blind' = IF list.profiles # Failed /\ Quiet THEN blind \ {e} ELSE blind
      BY <1>3 DEF CardRead
    <2>2. PICK list \in CardLists(e) :
            /\ documents' = [documents EXCEPT !.lists[e] = list]
            /\ blind' = IF list.profiles # Failed /\ Quiet THEN blind \ {e} ELSE blind
      BY <2>1
    <2>3. UNCHANGED <<router, pending, poll>> /\ renderRoute
      BY <1>3 DEF CardRead
    <2>4. \A f \in Endpoints : Due(f) => Due(f)'
      BY <2>3 DEF Due, Quiet
    <2>5. QED
      BY <2>2, <2>3, <2>4, CardSeen
  <1>4. CASE PlanRead
    <2>1. UNCHANGED <<router, documents, pending, poll, blind>> /\ (UNCHANGED screen \/ renderRoute)
      BY <1>4 DEF PlanRead
    <2>2. QED
      BY <2>1, CardStill
  <1>5. QED
    BY <1>1, <1>2, <1>3, <1>4 DEF Reading

LEMMA CardFollowing ==
    ASSUME TypeOK, TypeOK', CardInv, Following
    PROVE  CardInv'
  <1>0. documents \in Documents
    BY DEF TypeOK
  <1>1. CASE Poll
    <2>1. poll = Nothing /\ pending \in Follows /\ UNCHANGED <<router, blind>>
      BY <1>1 DEF Poll, TypeOK
    <2>2. documents'.lists = documents.lists
      BY <1>0, <1>1 DEF Poll, Documents
    <2>3. CASE pending' = [pending EXCEPT !.started = TRUE, !.waited = 0] /\ UNCHANGED poll /\ renderRoute
      <3>1. pending'.op = pending.op /\ pending'.follow = pending.follow /\ pending' \in Follows
        BY <2>1, <2>3 DEF Follows
      <3>2. pending' # Nothing
        BY <3>1, NamesAssumption
      <3>3. Alone'
        BY <1>1, <2>1, <3>1 DEF CardInv, Alone, Poll
      <3>4. \A e \in Endpoints : Due(e) => Due(e)'
        BY <2>1, <2>3, <3>1, <3>2 DEF Due, Quiet
      <3>5. QED
        BY <2>1, <2>2, <2>3, <3>3, <3>4, CardSame
    <2>4. CASE pending' = [pending EXCEPT !.waited = @ + 1] /\ UNCHANGED <<poll, screen>>
      <3>1. pending'.op = pending.op /\ pending'.follow = pending.follow /\ pending' \in Follows
        BY <2>1, <2>4 DEF Follows
      <3>2. pending' # Nothing
        BY <3>1, NamesAssumption
      <3>3. Alone'
        BY <1>1, <2>1, <3>1 DEF CardInv, Alone, Poll
      <3>4. \A e \in Endpoints : Due(e) => Due(e)'
        BY <2>1, <2>4, <3>1, <3>2 DEF Due, Quiet
      <3>5. QED
        BY <2>1, <2>2, <2>4, <3>3, <3>4, CardSame
    <2>5. CASE pending' = Nothing /\ renderRoute
               /\ poll' = [stage |-> "endpoint", endpoint |-> pending.op[2],
                           plans |-> pending.op[1] = "delete-plan", id |-> router.status.id,
                           reads |-> pending.follow /\ mayHaveChanged(router.status.class),
                           left |-> Attempts, profile |-> Nothing]
      <3>1. poll' # Nothing
        <4>1. poll' \in Polls \cup {Nothing} /\ poll'.stage = "endpoint"
          BY <2>5 DEF TypeOK
        <4>2. router.status.id \in Nat /\ Attempts \in Nat
          BY EsimAssumption DEF TypeOK, Routers, Statuses
        <4>3. /\ pending.op[2] \in Endpoints \cup {NoEndpoint}
              /\ pending.follow => pending.op[2] \in Endpoints /\ pending.op[1] # "delete-plan"
              /\ pending.follow \in BOOLEAN
          BY <2>1 DEF Follows
        <4> DEFINE plans == pending.op[1] = "delete-plan"
                   reads == pending.follow /\ mayHaveChanged(router.status.class)
        <4>4. plans \in BOOLEAN /\ reads \in BOOLEAN /\ (reads => pending.op[2] \in Endpoints /\ ~plans)
          BY <4>3
        <4>5. poll' = [stage |-> "endpoint", endpoint |-> pending.op[2], plans |-> plans, id |-> router.status.id,
                       reads |-> reads, left |-> Attempts, profile |-> Nothing]
          BY <2>5
        <4> HIDE DEF plans, reads
        <4>6. poll' \in Polls
          BY <4>2, <4>3, <4>4, <4>5 DEF Polls
        <4>7. QED
          BY <4>6, NamesAssumption
      <3>2. Alone'
        BY <2>5 DEF Alone
      <3>3. \A e \in Endpoints : Due(e) => Due(e)'
        BY <2>1, <2>5, <3>1 DEF Due
      <3>4. QED
        BY <2>1, <2>2, <2>5, <3>2, <3>3, CardSame
    <2>6. QED
      BY <1>1, <2>3, <2>4, <2>5 DEF Poll
  <1>2. CASE AwaitEndpoint
    <2>1. /\ poll \in Polls /\ UNCHANGED <<router, pending, blind>> /\ renderRoute
          /\ poll' = [poll EXCEPT !.left = @ - 1] /\ poll.left > 0
      BY <1>2 DEF AwaitEndpoint, Asked, TypeOK
    <2>2. documents'.lists = documents.lists
      BY <1>0, <1>2 DEF AwaitEndpoint, Documents
    <2>3. poll' \in Polls /\ poll'.reads = poll.reads /\ poll'.endpoint = poll.endpoint /\ poll'.stage = poll.stage
      BY <2>1 DEF Polls
    <2>4. Alone'
      BY <2>1 DEF CardInv, Alone
    <2>5. \A e \in Endpoints : Due(e) => Due(e)'
      BY <2>1, <2>3, NamesAssumption DEF Due, Quiet
    <2>6. QED
      BY <2>1, <2>2, <2>4, <2>5, CardSame
  <1>3. CASE EndpointBack
    <2>1. poll # Nothing /\ poll \in Polls /\ UNCHANGED <<router, pending, screen>>
      BY <1>3 DEF EndpointBack, TypeOK
    <2>2. documents'.lists = documents.lists
      BY <1>0, <1>3 DEF EndpointBack, Documents
    <2>3. PICK stage \in {"plan", "card", "refresh"} : poll' = [poll EXCEPT !.stage = stage, !.profile = wanted]
      BY <1>3 DEF EndpointBack
    <2>4. /\ poll'.stage = stage /\ poll'.reads = poll.reads /\ poll'.endpoint = poll.endpoint
          /\ poll' \in Polls \cup {Nothing}
      BY <2>1, <2>3 DEF Polls, TypeOK
    <2>5. poll' # Nothing
      <3>1. poll' \in Polls
        <4>1. wanted \in Profiles \cup {Nothing}
          BY DEF TypeOK
        <4>2. stage = "card" => poll.reads
          BY <1>3, <2>3, <2>4 DEF EndpointBack
        <4>3. QED
          BY <2>1, <2>3, <4>1, <4>2 DEF Polls
      <3>2. QED
        BY <3>1, NamesAssumption
    <2>6. /\ blind \subseteq blind'
          /\ poll.reads /\ poll.endpoint \notin blind' => stage = "card"
      BY <1>3, <2>1, <2>4 DEF EndpointBack, Polls
    <2>7. Alone'
      BY <2>1, <2>6 DEF CardInv, Alone
    <2>8. \A e \in Endpoints : e \notin blind' => e \notin blind /\ (Due(e) => Due(e)')
      BY <2>1, <2>4, <2>5, <2>6 DEF Due, Quiet
    <2>9. QED
      BY <2>1, <2>2, <2>4, <2>5, <2>7, <2>8, CardSame
  <1>4. CASE PlanCollected
    <2>1. /\ poll \in Polls /\ poll.stage = "plan" /\ UNCHANGED <<router, documents, pending, blind>>
          /\ poll' = [poll EXCEPT !.stage = "refresh"] /\ (UNCHANGED screen \/ renderRoute)
      BY <1>4 DEF PlanCollected, TypeOK
    <2>2. poll' \in Polls /\ poll'.endpoint = poll.endpoint
      BY <2>1 DEF Polls
    <2>3. Alone'
      BY <2>1 DEF CardInv, Alone
    <2>4. \A e \in Endpoints : Due(e) => Due(e)'
      BY <2>1 DEF Due, Quiet
    <2>5. QED
      BY <2>1, <2>2, <2>3, <2>4, NamesAssumption, CardSame
  <1>5. CASE CardCollected
    <2>1. /\ poll # Nothing /\ poll \in Polls /\ poll.endpoint \in Endpoints
          /\ UNCHANGED <<router, pending, screen>> /\ poll' = [poll EXCEPT !.stage = "refresh"]
      BY <1>5 DEF CardCollected, TypeOK, Polls
    <2>2. PICK list \in CardLists(poll.endpoint) :
            /\ documents' = [documents EXCEPT !.lists[poll.endpoint] = list]
            /\ blind' = IF list.profiles # Failed /\ Quiet THEN blind \ {poll.endpoint} ELSE blind
      BY <1>5 DEF CardCollected
    <2>3. poll' \in Polls /\ poll'.endpoint = poll.endpoint /\ poll' # Nothing
      BY <2>1, NamesAssumption DEF Polls
    <2>4. \A f \in Endpoints \ {poll.endpoint} : Due(f) => Due(f)'
      BY <2>1 DEF Due, Quiet
    <2>5. QED
      BY <2>1, <2>2, <2>3, <2>4, CardSeen
  <1>6. CASE Refreshed
    <2>1. poll.stage = "refresh" /\ UNCHANGED <<router, documents, pending, blind>> /\ renderRoute
      BY <1>6 DEF Refreshed
    <2>2. Alone'
      BY <2>1 DEF CardInv, Alone
    <2>3. \A e \in Endpoints : Due(e) => Due(e)'
      BY <2>1 DEF Due, Quiet
    <2>4. QED
      BY <2>1, <2>2, <2>3, CardSame
  <1>7. QED
    BY <1>1, <1>2, <1>3, <1>4, <1>5, <1>6 DEF Following

LEMMA CardUser ==
    ASSUME TypeOK, TypeOK', CardInv, User
    PROVE  CardInv'
  <1>1. CASE PressRead
    <2>1. UNCHANGED <<router, documents, pending, poll, blind>> /\ (UNCHANGED screen \/ renderRoute)
      BY <1>1, ReadsOnly
    <2>2. QED
      BY <2>1, CardStill
  <1>2. CASE PressDialog \/ Expire \/ Cancel
    <2>1. UNCHANGED <<router, documents, pending, poll, blind, screen>>
      BY <1>2 DEF PressDialog, Expire, Cancel, page
    <2>2. QED
      BY <2>1, CardStill
  <1>3. ASSUME NEW e, NEW p, planDeletion(e, p)
        PROVE  CardInv'
    BY <1>3, CardSent DEF planDeletion
  <1>4. CASE PressDelete
    <2>1. \/ \E e \in Endpoints, p \in Profiles : planDeletion(e, p)
          \/ UNCHANGED <<router, documents, pending, poll, blind, screen>>
      BY <1>4 DEF PressDelete
    <2>2. QED
      BY <1>3, <2>1, CardStill
  <1>5. CASE Confirm
    <2>1. CASE dialog.op[1] = "delete-plan"
      BY <1>3, <1>5, <2>1 DEF Confirm
    <2>2. CASE dialog.op[1] = "slot-switch"
      <3>1. setControlsBusy /\ UNCHANGED <<router, documents, pending, poll, blind>>
        BY <1>5, <2>2 DEF Confirm
      <3>2. screen'.controls = screen.controls
        BY <3>1 DEF setControlsBusy, TypeOK
      <3>3. QED
        BY <3>1, <3>2, CardStill
    <2>3. CASE dialog.op[1] \notin {"delete-plan", "slot-switch"}
      BY <1>5, <2>3, CardSent DEF Confirm
    <2>4. QED
      BY <2>1, <2>2, <2>3
  <1>6. CASE ConfirmDownload \/ ConfirmDelete
    BY <1>6, CardSent DEF ConfirmDownload, ConfirmDelete
  <1>7. CASE ConfirmDowngrade
    <2>1. CASE dialog.op[1] = "download"
      <3>1. UNCHANGED <<router, documents, pending, poll, blind, screen>>
        BY <1>7, <2>1 DEF ConfirmDowngrade, page
      <3>2. QED
        BY <3>1, CardStill
    <2>2. CASE dialog.op[1] # "download"
      BY <1>7, <2>2, CardSent DEF ConfirmDowngrade
    <2>3. QED
      BY <2>1, <2>2
  <1>8. QED
    BY <1>1, <1>2, <1>4, <1>5, <1>6, <1>7 DEF User

LEMMA CardInit == Init => CardInv
  <1> SUFFICES ASSUME Init PROVE CardInv
    OBVIOUS
  <1>1. pending = Nothing /\ screen.controls = {}
    BY DEF Init
  <1>2. \A e \in Endpoints : Right(e)
    BY DEF Init, Right
  <1>3. QED
    BY <1>1, <1>2 DEF CardInv, Alone, ListsAreRight, ScreenIsRight

LEMMA PageStep == PageInv /\ [Next]_vars => PageInv'
  <1> SUFFICES ASSUME PageInv, [Next]_vars PROVE PageInv'
    OBVIOUS
  <1>1. TypeOK /\ DeletionInv /\ CardInv /\ PlansAreNamed
    BY DEF PageInv, DeletionInv
  <1>2. TypeOK' /\ DeletionInv'
    BY <1>1, NamedStep DEF NamedInv
  <1>3. CASE Coordinator
    BY <1>1, <1>2, <1>3, CardCoordinator DEF PageInv
  <1>4. CASE Reading
    BY <1>1, <1>2, <1>4, CardReading DEF PageInv
  <1>5. CASE Following
    BY <1>1, <1>2, <1>5, CardFollowing DEF PageInv
  <1>6. CASE User
    BY <1>1, <1>2, <1>6, CardUser DEF PageInv
  <1>7. CASE Redraw
    BY <1>1, <1>2, <1>7, CardStill DEF Redraw, PageInv
  <1>8. CASE UNCHANGED vars
    BY <1>1, <1>2, <1>8, CardStill DEF vars, page, PageInv
  <1>9. QED
    BY <1>3, <1>4, <1>5, <1>6, <1>7, <1>8 DEF Next
-----------------------------------------------------------------------------
(* The theorems.                                                           *)

\* The inductive invariant of the eSIM areas: types, what leads to a deletion, and how
\* what is drawn relates to the card.
THEOREM PageInvariant == Spec => []PageInv
  <1>1. Init => PageInv
    BY TypeInit, DeletionInit, CardInit DEF PageInv
  <1>2. QED
    BY <1>1, PageStep, PTL DEF Spec

\* Every operation, control and list names profiles and messages of the endpoint it names.
THEOREM TypeCorrect == Spec => []TypeOK
  <1>1. PageInv => TypeOK
    BY DEF PageInv
  <1>2. QED
    BY <1>1, PageInvariant, PTL

\* collectDeletePlan and the dialog it opens: for any number of plans and operations of
\* anybody, no profile is removed that this page's user did not press Delete for.
THEOREM NamedAreDeleted == Spec => []OnlyNamedIsDeleted
  <1>1. PageInv => OnlyNamedIsDeleted
    BY DEF PageInv, DeletionInv
  <1>2. QED
    BY <1>1, PageInvariant, PTL

\* afterEsimOperation: when nothing is followed any more, the controls that choose among
\* profiles agree with every card that nobody changed behind the page's back.
THEOREM ControlsFollowTheCard == Spec => []ListsFollowTheCard
  <1>1. PageInv => ListsFollowTheCard
    <2> SUFFICES ASSUME PageInv, pending = Nothing, poll = Nothing,
                        NEW c \in screen.controls, c[1] \in Choosing, c[2] \notin blind
                 PROVE  Agrees(c)
      BY DEF ListsFollowTheCard, Agrees, Choosing
    <2>1. ~Due(c[2])
      BY DEF Due
    <2>2. QED
      BY <2>1 DEF PageInv, CardInv, ScreenIsRight
  <1>2. QED
    BY <1>1, PageInvariant, PTL

LEMMA DialogNames == (TypeOK /\ dialog # Nothing => dialog.op \in Operations)'
  <1>1. TypeOK /\ dialog # Nothing => dialog.op \in Operations
    BY DialogParts
  <1>2. QED
    BY <1>1, PTL

\* showConfirmation and the operations it sends: each step of the page is one of Consent's
\* or none of it.
THEOREM PageKeepsConsent == Spec => KeepsConsent
  <1>1. Init => Consented!Init
    BY DEF Init, Consented!Init
  <1>2. ASSUME TypeOK, TypeOK', [Next]_vars PROVE [Consented!Next]_(Consented!vars)
    <2> USE DEF Consented!Next, Consented!Ask, Consented!Withdraw, Consented!Confirm, Consented!vars
    <2>1. ASSUME dialog # Nothing, dialog' = Nothing, sent'.op = dialog.op, sent'.count = sent.count + 1
          PROVE  [Consented!Next]_(Consented!vars)
      <3>1. dialog.op # Nothing
        BY <1>2, <2>1, DialogParts, NamesAssumption
      <3>2. QED
        BY <2>1, <3>1
    <2>2. ASSUME sent' = sent
          PROVE  [Consented!Next]_(Consented!vars)
      <3>1. dialog' # Nothing => dialog'.op \in Operations
        BY <1>2, DialogNames
      <3>2. QED
        BY <2>2, <3>1
    <2>3. ASSUME NEW transport, NEW agreed, Send(dialog.op, transport, agreed),
                 dialog # Nothing, dialog' = Nothing
          PROVE  [Consented!Next]_(Consented!vars)
      <3>1. sent'.op = dialog.op /\ sent'.count = sent.count + 1
        BY <2>3 DEF Send
      <3>2. QED
        BY <2>1, <2>3, <3>1
    <2>4. CASE Coordinator \/ Redraw
      <3>1. sent' = sent
        BY <2>4 DEF Coordinator, Serve, Lose, BeginElsewhere, End, Enumerate, Redraw, user
      <3>2. QED
        BY <2>2, <3>1
    <2>5. CASE Reading
      <3>1. sent' = sent
        BY <2>5 DEF Reading, InventoryRead, ActionRead, ProbeRead, SlotsAsked, CardRead, PlanRead, user
      <3>2. QED
        BY <2>2, <3>1
    <2>6. CASE Following
      <3>1. sent' = sent
        BY <2>6 DEF Following, Poll, AwaitEndpoint, EndpointBack, PlanCollected, CardCollected,
                    Refreshed, user
      <3>2. QED
        BY <2>2, <3>1
    <2>7. CASE User
      <3>1. CASE PressRead
        <4>1. sent' = sent
          BY <1>2, <3>1, ReadsOnly DEF user
        <4>2. QED
          BY <2>2, <4>1
      <3>2. CASE PressDialog \/ PressDelete \/ Expire \/ Cancel
        <4>1. sent' = sent
          BY <3>2 DEF PressDialog, PressDelete, Expire, Cancel
        <4>2. QED
          BY <2>2, <4>1
      <3>3. CASE Confirm
        BY <2>3, <3>3 DEF Confirm
      <3>4. CASE ConfirmDownload
        BY <2>3, <3>4 DEF ConfirmDownload
      <3>5. CASE ConfirmDowngrade
        <4>1. CASE dialog.op[1] = "download"
          BY <2>2, <3>5, <4>1 DEF ConfirmDowngrade
        <4>2. CASE dialog.op[1] # "download"
          BY <2>3, <3>5, <4>2 DEF ConfirmDowngrade
        <4>3. QED
          BY <4>1, <4>2
      <3>6. CASE ConfirmDelete
        BY <2>3, <3>6 DEF ConfirmDelete
      <3>7. QED
        BY <2>7, <3>1, <3>2, <3>3, <3>4, <3>5, <3>6 DEF User
    <2>8. CASE UNCHANGED vars
      BY <2>2, <2>8 DEF vars, user
    <2>9. QED
      BY <1>2, <2>4, <2>5, <2>6, <2>7, <2>8 DEF Next
  <1>3. PageInv => TypeOK
    BY DEF PageInv
  <1>4. QED
    BY <1>1, <1>2, <1>3, PageInvariant, PTL DEF Spec, KeepsConsent, Consented!Spec
-----------------------------------------------------------------------------
(* Following comes to an end, and with it what is disabled.                *)

\* An operation of the modem coordinator was sent last: the page does not follow it.
SlotSwitched == sent.op # Nothing /\ sent.op[1] = "slot-switch"

\* No control is disabled with no operation followed whose end will draw it again.
DisabledIsFollowed ==
    /\ documents.action # Nothing /\ documents.action.busy => pending # Nothing
    /\ screen.busy => pending # Nothing
    /\ screen.greyed => pending # Nothing \/ SlotSwitched

\* The polls an operation may still be waited for once it is not running, and its start.
PollsLeft ==
    IF pending = Nothing THEN 0
    ELSE IF pending.started THEN 1
    ELSE 2 + (IF pending.waited < PollLimit THEN PollLimit - pending.waited ELSE 0)

\* The reads left of what the poll is in the middle of.
ReadsLeft ==
    IF poll = Nothing THEN 0
    ELSE CASE poll.stage = "refresh" -> 1
           [] poll.stage \in {"plan", "card"} -> 2
           [] poll.stage = "endpoint" -> 3 + poll.left

Left == (Attempts + 4) * PollsLeft + ReadsLeft

\* Every step of the poll brings its end nearer, unless it finds an operation running; no
\* other step puts it off, but for an operation that is sent or found running.
FollowingRunsDown ==
    [][/\ Following => Left' < Left \/ (router.status.busy /\ Left' = Left)
       /\ ~Following => Left' = Left \/ pending' # pending]_vars

LEMMA FollowsAreThere ==
    ASSUME TypeOK
    PROVE  /\ pending # Nothing => pending \in Follows
           /\ poll # Nothing => poll \in Polls
           /\ \A x \in Follows \cup Polls : x # Nothing
           /\ router.status \in Statuses
  BY NamesAssumption DEF TypeOK, Routers

\* What a poll makes of the operation followed.
LEMMA PolledFollows ==
    ASSUME NEW x \in Follows
    PROVE  /\ [x EXCEPT !.started = TRUE, !.waited = 0] \in Follows
           /\ [x EXCEPT !.waited = @ + 1] \in Follows
  <1>1. [x EXCEPT !.started = TRUE, !.waited = 0] \in Follows
    BY DEF Follows
  <1>2. [x EXCEPT !.waited = @ + 1] \in Follows
    BY DEF Follows
  <1>3. QED
    BY <1>1, <1>2

LEMMA FollowedDrawn ==
    ASSUME renderRoute, documents'.action # Nothing /\ documents'.action.busy => pending' # Nothing
    PROVE  DisabledIsFollowed'
  <1>1. subjectBusy' => pending' # Nothing
    BY DEF subjectBusy, esimOperationFor, Idle
  <1>2. QED
    BY <1>1 DEF renderRoute, DisabledIsFollowed

LEMMA FollowedStill ==
    ASSUME DisabledIsFollowed, UNCHANGED <<pending, screen, sent>>, documents'.action = documents.action
    PROVE  DisabledIsFollowed'
  BY DEF DisabledIsFollowed, SlotSwitched

LEMMA FollowedRedrawn ==
    ASSUME DisabledIsFollowed, UNCHANGED pending, documents'.action = documents.action, renderRoute
    PROVE  DisabledIsFollowed'
  BY FollowedDrawn DEF DisabledIsFollowed

LEMMA FollowedStart ==
    ASSUME TypeOK, NEW op \in Operations, NEW follow \in BOOLEAN, Start(op, follow),
           follow => op[1] # "delete-plan" /\ op[2] \in Endpoints
    PROVE  DisabledIsFollowed'
  <1>1. pending' \in Follows
    BY OperationParts DEF Start, Follows, Operations
  <1>2. pending' # Nothing
    BY <1>1, FollowsAreThere
  <1>3. QED
    BY <1>2 DEF DisabledIsFollowed

LEMMA FollowedReading ==
    ASSUME TypeOK, DisabledIsFollowed, Reading
    PROVE  DisabledIsFollowed'
  <1>a. documents \in Documents
    BY DEF TypeOK
  <1>1. CASE InventoryRead
    <2>1. documents'.action = documents.action
      BY <1>a, <1>1 DEF InventoryRead, Documents
    <2>2. QED
      BY <1>1, <2>1, FollowedStill DEF InventoryRead, user
  <1>2. CASE ActionRead
    <2>1. CASE UNCHANGED <<documents, pending>>
      BY <1>2, <2>1, FollowedRedrawn DEF ActionRead
    <2>2. CASE /\ documents' = [documents EXCEPT !.action = router.status]
               /\ pending' = IF router.status.busy /\ pending = Nothing
                               THEN [op |-> <<router.status.verb, router.status.endpoint, router.status.item>>,
                                     follow |-> FALSE, started |-> TRUE, waited |-> 0]
                               ELSE pending
      <3> DEFINE found == [op |-> <<router.status.verb, router.status.endpoint, router.status.item>>,
                           follow |-> FALSE, started |-> TRUE, waited |-> 0]
      <3>1. found \in Follows
        BY FollowsAreThere DEF Statuses, Follows
      <3>2. found # Nothing
        BY <3>1, FollowsAreThere
      <3>3. documents'.action = router.status
        BY <1>a, <2>2 DEF Documents
      <3>4. documents'.action.busy => pending' # Nothing
        BY <2>2, <3>2, <3>3
      <3>5. renderRoute
        BY <1>2 DEF ActionRead
      <3>6. QED
        BY <3>4, <3>5, FollowedDrawn
    <2>3. QED
      BY <1>2, <2>1, <2>2 DEF ActionRead
  <1>3. CASE ProbeRead
    <2>1. documents'.action = documents.action /\ UNCHANGED pending /\ renderRoute
      BY <1>a, <1>3 DEF ProbeRead, Documents
    <2>2. QED
      BY <2>1, FollowedRedrawn
  <1>4. CASE SlotsAsked
    BY <1>4, FollowedRedrawn DEF SlotsAsked
  <1>5. CASE CardRead
    <2>1. documents'.action = documents.action /\ UNCHANGED pending /\ renderRoute
      BY <1>a, <1>5 DEF CardRead, Documents
    <2>2. QED
      BY <2>1, FollowedRedrawn
  <1>6. CASE PlanRead
    <2>1. UNCHANGED <<documents, pending, sent>> /\ (UNCHANGED screen \/ renderRoute)
      BY <1>6 DEF PlanRead
    <2>2. QED
      BY <2>1, FollowedRedrawn, FollowedStill
  <1>7. QED
    BY <1>1, <1>2, <1>3, <1>4, <1>5, <1>6 DEF Reading

\* The last branch of Poll alone ends what is followed, and it draws what has ended.
LEMMA FollowedFollowing ==
    ASSUME TypeOK, DisabledIsFollowed, Following
    PROVE  DisabledIsFollowed'
  <1>a. documents \in Documents
    BY DEF TypeOK
  <1>1. CASE Poll
    <2>1. documents'.action = router.status /\ pending \in Follows /\ UNCHANGED sent
      BY <1>a, <1>1, FollowsAreThere DEF Poll, Documents, user
    <2>2. /\ [pending EXCEPT !.started = TRUE, !.waited = 0] \in Follows
          /\ [pending EXCEPT !.waited = @ + 1] \in Follows
      BY <2>1, PolledFollows
    <2>3. CASE router.status.busy
      <3>1. pending' # Nothing /\ renderRoute
        BY <1>1, <2>2, <2>3, FollowsAreThere DEF Poll
      <3>2. QED
        BY <3>1, FollowedDrawn
    <2>4. CASE ~router.status.busy /\ renderRoute
      BY <2>1, <2>4, FollowedDrawn
    <2>5. CASE ~router.status.busy /\ ~renderRoute
      <3>1. pending' # Nothing /\ UNCHANGED screen
        BY <1>1, <2>2, <2>5, FollowsAreThere DEF Poll
      <3>2. QED
        BY <3>1 DEF DisabledIsFollowed
    <2>6. QED
      BY <2>3, <2>4, <2>5
  <1>2. CASE AwaitEndpoint
    <2>1. documents'.action = documents.action /\ UNCHANGED pending /\ renderRoute
      BY <1>a, <1>2 DEF AwaitEndpoint, Documents
    <2>2. QED
      BY <2>1, FollowedRedrawn
  <1>3. CASE EndpointBack
    <2>1. documents'.action = documents.action /\ UNCHANGED <<pending, screen, sent>>
      BY <1>a, <1>3 DEF EndpointBack, Documents, user
    <2>2. QED
      BY <2>1, FollowedStill
  <1>4. CASE PlanCollected
    <2>1. UNCHANGED <<documents, pending, sent>> /\ (UNCHANGED screen \/ renderRoute)
      BY <1>4 DEF PlanCollected
    <2>2. QED
      BY <2>1, FollowedRedrawn, FollowedStill
  <1>5. CASE CardCollected
    <2>1. documents'.action = documents.action /\ UNCHANGED <<pending, screen, sent>>
      BY <1>a, <1>5 DEF CardCollected, Documents, user
    <2>2. QED
      BY <2>1, FollowedStill
  <1>6. CASE Refreshed
    BY <1>6, FollowedRedrawn DEF Refreshed
  <1>7. QED
    BY <1>1, <1>2, <1>3, <1>4, <1>5, <1>6 DEF Following

LEMMA FollowedUser ==
    ASSUME TypeOK, DisabledIsFollowed, User
    PROVE  DisabledIsFollowed'
  <1>1. CASE PressRead
    <2>1. UNCHANGED <<documents, pending, sent>> /\ (UNCHANGED screen \/ renderRoute)
      BY <1>1, ReadsOnly DEF user
    <2>2. QED
      BY <2>1, FollowedRedrawn, FollowedStill
  <1>2. CASE PressDialog \/ Expire \/ Cancel
    BY <1>2, FollowedStill DEF PressDialog, Expire, Cancel, page
  <1>3. CASE PressDelete
    <2>1. PICK e \in Endpoints, p \in Profiles :
            /\ Pressed(<<"esim-delete", e, p>>) /\ UNCHANGED sent
            /\ \/ planDeletion(e, p)
               \/ UNCHANGED <<documents, pending, screen>>
      BY <1>3 DEF PressDelete
    <2>2. <<"delete-plan", e, p>> \in Operations
      BY <2>1, ControlsRequest DEF Pressed, TypeOK, Operations
    <2>3. CASE planDeletion(e, p)
      BY <2>2, <2>3, FollowedStart DEF planDeletion
    <2>4. QED
      BY <2>1, <2>3, FollowedStill
  <1>4. CASE Confirm
    <2>1. dialog.op \in Requests
      BY <1>4, DialogParts DEF Confirm
    <2>2. CASE dialog.op[1] = "slot-switch"
      <3>1. sent'.op = dialog.op /\ UNCHANGED <<documents, pending>>
            /\ screen' = [screen EXCEPT !.greyed = TRUE]
        BY <1>4, <2>2 DEF Confirm, Send, setControlsBusy
      <3>2. dialog.op # Nothing
        BY <2>1, NamesAssumption DEF Operations
      <3>3. screen'.busy = screen.busy
        BY <3>1 DEF TypeOK
      <3>4. QED
        BY <2>2, <3>1, <3>2, <3>3 DEF DisabledIsFollowed, SlotSwitched
    <2>3. CASE dialog.op[1] = "delete-plan"
      <3>1. <<"delete-plan", dialog.op[2], dialog.op[3]>> \in Operations
        BY <2>1, <2>3 DEF Requests, Operations
      <3>2. Start(<<"delete-plan", dialog.op[2], dialog.op[3]>>, FALSE)
        BY <1>4, <2>3 DEF Confirm, planDeletion
      <3>3. QED
        BY <3>1, <3>2, FollowedStart
    <2>4. CASE dialog.op[1] \notin {"slot-switch", "delete-plan"}
      <3>1. Start(dialog.op, dialog.op[1] # "card-probe")
        BY <1>4, <2>4 DEF Confirm
      <3>2. dialog.op[1] # "card-probe" => dialog.op[2] \in Endpoints
        BY <2>1, EsimAssumption DEF Requests
      <3>3. dialog.op \in Operations
        BY <2>1 DEF Operations
      <3>4. QED
        BY <2>4, <3>1, <3>2, <3>3, FollowedStart
    <2>5. QED
      BY <2>2, <2>3, <2>4
  <1>5. CASE ConfirmDownload \/ (ConfirmDowngrade /\ dialog.op[1] # "download")
    <2>1. Start(dialog.op, TRUE) /\ dialog.op \in Requests
          /\ dialog.op[1] \in {"download", "notification-send"}
      BY <1>5, DialogParts DEF ConfirmDownload, ConfirmDowngrade
    <2>2. dialog.op \in Operations /\ dialog.op[2] \in Endpoints /\ dialog.op[1] # "delete-plan"
      BY <2>1, EsimAssumption DEF Requests, Operations
    <2>3. QED
      BY <2>1, <2>2, FollowedStart
  <1>6. CASE ConfirmDowngrade /\ dialog.op[1] = "download"
    BY <1>6, FollowedStill DEF ConfirmDowngrade, page
  <1>7. CASE ConfirmDelete
    <2>1. Start(dialog.op, TRUE) /\ dialog.op \in Deletions
      BY <1>7, DialogParts DEF ConfirmDelete
    <2>2. dialog.op \in Operations /\ dialog.op[2] \in Endpoints /\ dialog.op[1] # "delete-plan"
      BY <2>1 DEF Deletions, Operations
    <2>3. QED
      BY <2>1, <2>2, FollowedStart
  <1>8. QED
    BY <1>1, <1>2, <1>3, <1>4, <1>5, <1>6, <1>7 DEF User

\* setControlsBusy, renderRoute and esimOperation: whatever is sent, turned away, lost or
\* found running, what is disabled waits for an operation that is followed.
THEOREM ControlsAreFollowed == Spec => []DisabledIsFollowed
  <1>1. Init => DisabledIsFollowed
    <2> SUFFICES ASSUME Init PROVE DisabledIsFollowed
      OBVIOUS
    <2>1. documents.action = Nothing \/ documents.action \in Before
      BY DEF Init
    <2>2. \A s \in Before : ~s.busy
      <3>1. \A e, n : ~[Idle EXCEPT !.verb = modem.failed, !.endpoint = e, !.item = n,
                                   !.class = "failed", !.retry = TRUE].busy
        BY DEF Idle
      <3>2. ~Idle.busy
        BY DEF Idle
      <3>3. QED
        BY <3>1, <3>2, Zenon DEF Before
    <2>3. QED
      BY <2>1, <2>2 DEF Init, DisabledIsFollowed
  <1>2. ASSUME PageInv, DisabledIsFollowed, [Next]_vars PROVE DisabledIsFollowed'
    <2>1. TypeOK
      BY <1>2 DEF PageInv
    <2>2. CASE Coordinator \/ UNCHANGED vars
      <3>1. UNCHANGED <<documents, pending, screen, sent>>
        BY <2>2 DEF Coordinator, Serve, Lose, BeginElsewhere, End, Enumerate, vars, page, user
      <3>2. QED
        BY <1>2, <3>1, FollowedStill
    <2>3. CASE Redraw
      BY <1>2, <2>3, FollowedRedrawn DEF Redraw
    <2>4. QED
      BY <1>2, <2>1, <2>2, <2>3, FollowedReading, FollowedFollowing, FollowedUser DEF Next
  <1>3. QED
    BY <1>1, <1>2, PageInvariant, PTL DEF Spec

LEMMA LeftIs ==
    ASSUME TypeOK
    PROVE  /\ PollsLeft \in Nat /\ ReadsLeft \in Nat /\ Left \in Nat
           /\ pending # Nothing => PollsLeft >= 1
  <1>1. PollsLeft \in Nat /\ (pending # Nothing => PollsLeft >= 1)
    BY FollowsAreThere, EsimAssumption DEF PollsLeft, Follows
  <1>2. ReadsLeft \in Nat
    BY FollowsAreThere DEF ReadsLeft, Polls
  <1>3. QED
    BY <1>1, <1>2, EsimAssumption DEF Left

LEMMA LeftNext == (TypeOK => PollsLeft \in Nat /\ ReadsLeft \in Nat)'
  <1>1. TypeOK => PollsLeft \in Nat /\ ReadsLeft \in Nat
    BY LeftIs
  <1>2. QED
    BY <1>1, PTL

LEMMA FewerPolls ==
    ASSUME NEW a \in Nat, NEW m \in Nat, NEW n \in Nat, m < n
    PROVE  (a + 4) * m + (a + 4) <= (a + 4) * n /\ (a + 4) * n \in Nat /\ (a + 4) * m \in Nat
  <1>1. (a + 4) * (n - m - 1) >= 0
    OBVIOUS
  <1>2. (a + 4) * (n - m - 1) = (a + 4) * n - (a + 4) * m - (a + 4)
    OBVIOUS
  <1>3. (a + 4) * n \in Nat /\ (a + 4) * m \in Nat
    OBVIOUS
  <1>4. QED
    BY <1>1, <1>2, <1>3

\* refreshEsimOperationFor, afterEsimOperation and waitForEndpoint: an operation is followed
\* for no more polls and reads than were left when it was sent or found, and those for which
\* it is seen to run.
THEOREM FollowingEnds == Spec => FollowingRunsDown
  <1>1. ASSUME TypeOK, TypeOK', [Next]_vars
        PROVE  [/\ Following => Left' < Left \/ (router.status.busy /\ Left' = Left)
                /\ ~Following => Left' = Left \/ pending' # pending]_vars
    <2>a. /\ PollsLeft \in Nat /\ ReadsLeft \in Nat /\ PollsLeft' \in Nat /\ ReadsLeft' \in Nat
          /\ Attempts \in Nat /\ PollLimit \in Nat
          /\ pending # Nothing => PollsLeft >= 1
      BY <1>1, LeftIs, LeftNext, EsimAssumption
    <2>1. ASSUME Poll
          PROVE  Left' < Left \/ (router.status.busy /\ Left' = Left)
      <3>1. pending \in Follows /\ poll = Nothing /\ ReadsLeft = 0 /\ pending # Nothing
        BY <1>1, <2>1, FollowsAreThere DEF Poll, ReadsLeft
      <3> DEFINE running == [pending EXCEPT !.started = TRUE, !.waited = 0]
                 waiting == [pending EXCEPT !.waited = @ + 1]
      <3>2. /\ running \in Follows /\ running # Nothing /\ running.started
            /\ waiting \in Follows /\ waiting # Nothing
            /\ waiting.started = pending.started /\ waiting.waited = pending.waited + 1
            /\ pending.waited \in Nat /\ pending.started \in BOOLEAN
        <4>1. running \in Follows /\ waiting \in Follows
          BY <3>1, PolledFollows
        <4>2. QED
          BY <1>1, <3>1, <4>1, FollowsAreThere DEF Follows
      <3> HIDE DEF running, waiting
      <3>3. CASE router.status.busy
        <4>1. pending' = running /\ UNCHANGED poll
          BY <2>1, <3>3 DEF Poll, running
        <4>2. PollsLeft' = 1 /\ ReadsLeft' = 0
          BY <3>1, <3>2, <4>1 DEF PollsLeft, ReadsLeft
        <4>3. CASE PollsLeft = 1
          BY <3>1, <3>3, <4>2, <4>3 DEF Left
        <4>4. CASE PollsLeft > 1
          <5>1. (Attempts + 4) * 1 + (Attempts + 4) <= (Attempts + 4) * PollsLeft
            BY <2>a, <4>4, FewerPolls
          <5>2. (Attempts + 4) * PollsLeft \in Nat /\ Left' = Attempts + 4
                /\ Left = (Attempts + 4) * PollsLeft
            BY <2>a, <3>1, <4>2 DEF Left
          <5>3. QED
            BY <2>a, <5>1, <5>2
        <4>5. QED
          BY <2>a, <3>1, <4>3, <4>4
      <3>4. CASE ~router.status.busy /\ ~pending.started /\ ~GivenUp(pending) /\ pending' # Nothing
        <4>1. pending' = waiting /\ UNCHANGED poll
          BY <2>1, <3>4 DEF Poll, waiting
        <4>2. PollsLeft' < PollsLeft /\ ReadsLeft' = 0
          BY <2>a, <3>1, <3>2, <3>4, <4>1 DEF PollsLeft, ReadsLeft, GivenUp
        <4>3. (Attempts + 4) * PollsLeft' + (Attempts + 4) <= (Attempts + 4) * PollsLeft
          BY <2>a, <4>2, FewerPolls
        <4>4. Left = (Attempts + 4) * PollsLeft /\ Left' = (Attempts + 4) * PollsLeft'
              /\ (Attempts + 4) * PollsLeft \in Nat /\ (Attempts + 4) * PollsLeft' \in Nat
          <5>1. (Attempts + 4) * PollsLeft \in Nat /\ (Attempts + 4) * PollsLeft' \in Nat
            BY <2>a, <4>2, FewerPolls
          <5>2. QED
            BY <3>1, <4>2, <5>1 DEF Left
        <4> DEFINE x == (Attempts + 4) * PollsLeft
                   y == (Attempts + 4) * PollsLeft'
        <4>5. x \in Nat /\ y \in Nat /\ y + (Attempts + 4) <= x
          BY <4>3, <4>4
        <4> HIDE DEF x, y
        <4>6. y < x
          BY <2>a, <4>5
        <4>7. QED
          BY <4>4, <4>6 DEF x, y
      <3>5. CASE ~router.status.busy /\ pending' = Nothing
        <4>1. \E e, p, r : poll' = [stage |-> "endpoint", endpoint |-> e, plans |-> p,
                                    id |-> router.status.id, reads |-> r, left |-> Attempts,
                                    profile |-> Nothing]
          BY <2>1, <3>1, <3>2, <3>5 DEF Poll, waiting
        <4>2. PollsLeft' = 0 /\ ReadsLeft' <= 3 + Attempts
          <5>1. poll'.stage = "endpoint" /\ poll'.left = Attempts
            BY <4>1
          <5>2. QED
            BY <2>a, <3>5, <5>1 DEF PollsLeft, ReadsLeft
        <4>3. (Attempts + 4) * 0 + (Attempts + 4) <= (Attempts + 4) * PollsLeft
          BY <2>a, <3>1, FewerPolls
        <4>4. (Attempts + 4) * PollsLeft \in Nat /\ (Attempts + 4) * 0 = 0
          BY <2>a, <3>1, FewerPolls
        <4>5. Left = (Attempts + 4) * PollsLeft
          BY <3>1, <4>4 DEF Left
        <4>6. Left' = (Attempts + 4) * 0 + ReadsLeft'
          BY <4>2, Zenon DEF Left
        <4>7. Left' = ReadsLeft'
          <5>1. ReadsLeft' \in Nat
            BY <2>a
          <5> DEFINE rest == ReadsLeft'
          <5>2. rest \in Nat /\ Left' = 0 + rest
            BY <4>4, <4>6, <5>1, Zenon
          <5> HIDE DEF rest
          <5>3. 0 + rest = rest
            BY <5>2
          <5>4. QED
            BY <5>2, <5>3, Zenon DEF rest
        <4> DEFINE x == (Attempts + 4) * PollsLeft
        <4>8. x \in Nat /\ Attempts + 4 <= x
          BY <2>a, <4>3, <4>4
        <4> HIDE DEF x
        <4>9. ReadsLeft' < x
          BY <2>a, <4>2, <4>8
        <4>10. QED
          BY <4>5, <4>7, <4>9 DEF x
      <3>6. QED
        BY <2>1, <3>1, <3>2, <3>3, <3>4, <3>5 DEF Poll, waiting
    <2>2. ASSUME AwaitEndpoint \/ EndpointBack \/ PlanCollected \/ CardCollected \/ Refreshed
          PROVE  Left' < Left
      <3>1. poll \in Polls /\ poll # Nothing /\ UNCHANGED pending
        BY <1>1, <2>2, FollowsAreThere DEF AwaitEndpoint, EndpointBack, PlanCollected, CardCollected,
           Refreshed
      <3>2. PollsLeft' = PollsLeft
        BY <3>1 DEF PollsLeft
      <3>3. ReadsLeft' < ReadsLeft
        <4>1. CASE AwaitEndpoint
          <5>1. poll' = [poll EXCEPT !.left = @ - 1] /\ poll.stage = "endpoint" /\ poll.left > 0
            BY <4>1 DEF AwaitEndpoint, Asked
          <5>2. [poll EXCEPT !.left = @ - 1] \in Polls
            BY <3>1, <5>1 DEF Polls
          <5>3. poll' # Nothing /\ poll'.stage = "endpoint" /\ poll'.left = poll.left - 1
                /\ poll.left \in Nat
            BY <1>1, <3>1, <5>1, <5>2, FollowsAreThere DEF Polls
          <5>4. QED
            BY <3>1, <5>1, <5>3 DEF ReadsLeft
        <4>2. CASE EndpointBack
          <5>1. PICK stage \in {"plan", "card", "refresh"} :
                  poll' = [poll EXCEPT !.stage = stage, !.profile = wanted]
            BY <4>2 DEF EndpointBack
          <5>2. poll.stage = "endpoint" /\ poll.left \in Nat
            BY <3>1, <4>2 DEF EndpointBack, Polls
          <5>3. poll'.stage = stage
            BY <3>1, <5>1 DEF Polls
          <5>4. QED
            BY <3>1, <5>2, <5>3 DEF ReadsLeft
        <4>3. CASE PlanCollected \/ CardCollected
          <5>1. poll' = [poll EXCEPT !.stage = "refresh"] /\ poll.stage \in {"plan", "card"}
            BY <4>3 DEF PlanCollected, CardCollected
          <5>2. poll'.stage = "refresh"
            BY <3>1, <5>1 DEF Polls
          <5>3. QED
            BY <3>1, <5>1, <5>2 DEF ReadsLeft
        <4>4. CASE Refreshed
          BY <3>1, <4>4 DEF Refreshed, ReadsLeft
        <4>5. QED
          BY <2>2, <4>1, <4>2, <4>3, <4>4
      <3> DEFINE x == (Attempts + 4) * PollsLeft
      <3>4. x \in Nat /\ Left = x + ReadsLeft /\ Left' = x + ReadsLeft'
        BY <2>a, <3>2 DEF Left
      <3> DEFINE before == ReadsLeft
                 after == ReadsLeft'
      <3>5. before \in Nat /\ after \in Nat /\ after < before
        BY <2>a, <3>3
      <3> HIDE DEF x, before, after
      <3>6. x + after < x + before
        BY <3>4, <3>5
      <3>7. QED
        BY <3>4, <3>6 DEF before, after
    <2>3. ASSUME UNCHANGED poll PROVE Left' = Left \/ pending' # pending
      <3>1. ReadsLeft' = ReadsLeft
        BY <2>3 DEF ReadsLeft
      <3>2. pending' = pending => PollsLeft' = PollsLeft
        BY DEF PollsLeft
      <3>3. QED
        BY <3>1, <3>2, Zenon DEF Left
    <2>4. ASSUME Coordinator \/ Reading \/ User \/ Redraw PROVE UNCHANGED poll
      <3>1. CASE Coordinator \/ Redraw
        BY <3>1 DEF Coordinator, Serve, Lose, BeginElsewhere, End, Enumerate, Redraw, page
      <3>2. CASE Reading
        BY <3>2 DEF Reading, InventoryRead, ActionRead, ProbeRead, SlotsAsked, CardRead, PlanRead
      <3>3. CASE PressRead
        BY <1>1, <3>3, ReadsOnly
      <3>4. CASE PressDialog \/ PressDelete \/ Expire \/ Cancel
        BY <3>4 DEF PressDialog, PressDelete, Expire, Cancel, page, planDeletion, Start
      <3>5. CASE Confirm \/ ConfirmDownload \/ ConfirmDowngrade \/ ConfirmDelete
        BY <3>5 DEF Confirm, ConfirmDownload, ConfirmDowngrade, ConfirmDelete, page, planDeletion, Start
      <3>6. QED
        BY <2>4, <3>1, <3>2, <3>3, <3>4, <3>5 DEF User
    <2>5. CASE Following
      BY <2>1, <2>2, <2>5 DEF Following
    <2>6. CASE ~Following
      BY <1>1, <2>3, <2>4, <2>6 DEF Next
    <2>7. QED
      BY <2>5, <2>6
  <1>2. PageInv => TypeOK
    BY DEF PageInv
  <1>3. QED
    BY <1>1, <1>2, PageInvariant, PTL DEF Spec, FollowingRunsDown
=============================================================================
