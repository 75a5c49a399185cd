------------------------- MODULE PageControlsProofs -------------------------
(***************************************************************************)
(* Proofs about the cards of the page and their controls, for any modems,  *)
(* connections and documents, however old the packages that wrote them.    *)
(*                                                                         *)
(* What is offered is settled by the documents alone: Offered holds of     *)
(* every control of every document that can be read.  What is sent is      *)
(* settled by the dialog: NamedInv and KeptInv follow a control from the   *)
(* press to the launch.                                                    *)
(***************************************************************************)
EXTENDS PageControls, FiniteSetTheorems, TLAPS

Target(x) == IF isModem(x) THEN Section[x[2]] ELSE x[2]

\* An operation that an area or a card may offer.
Offered(d, o, x) ==
    /\ o \in Requests
    /\ o[1] \in ModemVerbs =>
         /\ o[2] \in inventoried(d)
         /\ Accepts(d.inventory[o[2]], o[1])
            \/ (o[1] = "deprovision" /\ ~d.inventory[o[2]].known)
    /\ o[1] \notin ModemVerbs => o[2] = Target(x)

Names(c) == c[2] # RouterScope /\ c[1][1] \notin ModemVerbs => c[1][2] = Target(c[2])

\* What the open dialog will send, and what was sent, names the target of its card.
NamedInv ==
    /\ dialog # <<>> /\ dialog[1] \in {"confirm", "apply"} => Names(dialog[2])
    /\ dialog = <<"form">> => Names(manual.control)
    /\ \A i \in DOMAIN sent : Names(sent[i])

PageInv == TypeOK /\ NamedInv /\ PasswordIsCleared
-----------------------------------------------------------------------------
(* Documents and cards.                                                    *)

LEMMA VerbsApart ==
    /\ EngineVerbs \cap ModemVerbs = {}
    /\ \A policy \in Policies : SetPolicy[policy] \in EngineVerbs
  BY DEF EngineVerbs, ModemVerbs, Policies, SetPolicy

LEMMA DocumentParts ==
    ASSUME NEW d \in Documents
    PROVE  /\ inventoried(d) \subseteq Modems
           /\ \A m \in inventoried(d) : d.inventory[m] \in ModemType
           /\ listed(d) \subseteq Sections
           /\ \A s \in listed(d) : d.targets[s] \in BOOLEAN
           /\ \A s \in Sections : d.status[s] \in ConnectionType \cup {Unread, Failed}
  <1>1. d.inventory \in {Unread, Failed} \cup UNION {[S -> ModemType] : S \in SUBSET Modems}
    BY DEF Documents
  <1>2. d.targets \in {Unread, Failed} \cup UNION {[S -> BOOLEAN] : S \in SUBSET Sections}
    BY DEF Documents
  <1>3. d.status \in [Sections -> ConnectionType \cup {Unread, Failed}]
    BY DEF Documents
  <1>4. ASSUME Read(d.inventory)
        PROVE  /\ inventoried(d) \subseteq Modems
               /\ \A m \in inventoried(d) : d.inventory[m] \in ModemType
    <2>1. PICK S \in SUBSET Modems : d.inventory \in [S -> ModemType]
      BY <1>1, <1>4 DEF Read
    <2>2. inventoried(d) = S
      BY <1>4, <2>1 DEF inventoried
    <2>3. QED
      BY <2>1, <2>2
  <1>5. ASSUME Read(d.targets)
        PROVE  /\ listed(d) \subseteq Sections
               /\ \A s \in listed(d) : d.targets[s] \in BOOLEAN
    <2>1. PICK S \in SUBSET Sections : d.targets \in [S -> BOOLEAN]
      BY <1>2, <1>5 DEF Read
    <2>2. listed(d) = S
      BY <1>5, <2>1 DEF listed
    <2>3. QED
      BY <2>1, <2>2
  <1>6. QED
    BY <1>3, <1>4, <1>5 DEF inventoried, listed

LEMMA SubjectParts ==
    ASSUME NEW d \in Documents, NEW x \in buildSubjects(d)
    PROVE  /\ x \in Cards /\ x # <<>> /\ x # RouterScope
           /\ isModem(x) => x = <<"modem", x[2]>> /\ x[2] \in inventoried(d)
           /\ ~isModem(x) => x = <<"target", x[2]>> /\ x[2] \in listed(d)
  <1>1. inventoried(d) \subseteq Modems /\ listed(d) \subseteq Sections
    BY DocumentParts
  <1>2. CASE x \in {<<"modem", m>> : m \in inventoried(d)}
    BY <1>1, <1>2 DEF isModem, Cards, RouterScope
  <1>3. CASE x \in {<<"target", s>> : s \in listed(d) \ claimed(d)}
    BY <1>1, <1>3 DEF isModem, Cards, RouterScope
  <1>4. QED
    BY <1>2, <1>3 DEF buildSubjects

\* A status that was read is that of the card's own target.
LEMMA TargetParts ==
    ASSUME NEW d \in Documents, NEW x \in buildSubjects(d)
    PROVE  /\ targetId(d, x) # NoTarget => targetId(d, x) = Target(x) /\ targetId(d, x) \in Sections
           /\ Read(status(d, x)) => targetId(d, x) # NoTarget
  <1>1. isModem(x) => Section[x[2]] \in Sections
    BY SubjectParts, DocumentParts, ControlsAssumption
  <1>2. ~isModem(x) => x[2] \in Sections
    BY SubjectParts, DocumentParts
  <1>3. QED
    BY <1>1, <1>2 DEF targetId, Target, status, Read
-----------------------------------------------------------------------------
(* What is offered.                                                        *)

\* The verbs of connectionState are accepted of the record they are drawn from.
LEMMA StateOffers ==
    ASSUME NEW d \in Documents, NEW x \in buildSubjects(d),
           NEW verb \in connectionState(d, x).primary \cup connectionState(d, x).secondary
    PROVE  /\ verb \in ModemVerbs /\ isModem(x)
           /\ Accepts(d.inventory[x[2]], verb)
  <1> DEFINE s == status(d, x)
             bearer == gate(d.silent, "bearer", Resolved(record(d, x)))
  <1>1. isModem(x)
    BY DEF connectionState
  <1>2. d.inventory[x[2]] \in ModemType
    BY <1>1, SubjectParts, DocumentParts
  <1>3. \/ verb = "provision" /\ can_provision(record(d, x))
        \/ verb \in {"connect", "disconnect", "reconnect"} /\ bearer = "yes"
    BY DEF connectionState
  <1>4. bearer = "yes" => Resolved(record(d, x))
    BY DEF gate
  <1>5. CASE verb = "provision" /\ can_provision(record(d, x))
    BY <1>1, <1>5 DEF Accepts, record, ModemVerbs
  <1>6. CASE verb \in {"connect", "disconnect", "reconnect"} /\ Resolved(record(d, x))
    BY <1>1, <1>6 DEF Accepts, record, ModemVerbs, Resolved, Bound
  <1>7. QED
    BY <1>3, <1>4, <1>5, <1>6

\* An accepted verb of the card's modem.
LEMMA ModemOffer ==
    ASSUME NEW d \in Documents, NEW x \in buildSubjects(d), isModem(x), NEW verb \in ModemVerbs,
           \/ Accepts(d.inventory[x[2]], verb)
           \/ verb = "deprovision" /\ ~d.inventory[x[2]].known
    PROVE  Offered(d, <<verb, x[2]>>, x)
  <1>1. x[2] \in inventoried(d) /\ x[2] \in Modems
    BY SubjectParts, DocumentParts
  <1>2. QED
    BY <1>1 DEF Offered, Requests

\* An operation of the engine on the card's own target.
LEMMA TargetOffer ==
    ASSUME NEW d \in Documents, NEW x \in buildSubjects(d), NEW verb \in EngineVerbs,
           targetId(d, x) # NoTarget
    PROVE  Offered(d, <<verb, targetId(d, x)>>, x)
  <1>1. targetId(d, x) = Target(x) /\ targetId(d, x) \in Sections
    BY TargetParts
  <1>2. verb \notin ModemVerbs
    BY VerbsApart
  <1>3. QED
    BY <1>1, <1>2 DEF Offered, Requests

LEMMA CardOffers ==
    ASSUME NEW d \in Documents, NEW x \in buildSubjects(d), NEW o \in cardNode(d, x)
    PROVE  Offered(d, o, x)
  <1>1. CASE o \in On(connectionState(d, x).primary, x[2])
    <2>1. PICK verb \in connectionState(d, x).primary : o = <<verb, x[2]>>
      BY <1>1 DEF On
    <2>2. QED
      BY <2>1, StateOffers, ModemOffer
  <1>2. CASE o = <<"reconcile", targetId(d, x)>> /\ Read(status(d, x))
    <2>1. targetId(d, x) # NoTarget /\ "reconcile" \in EngineVerbs
      BY <1>2, TargetParts DEF EngineVerbs
    <2>2. QED
      BY <1>2, <2>1, TargetOffer
  <1>3. QED
    BY <1>1, <1>2 DEF cardNode

LEMMA ConnectionOffers ==
    ASSUME NEW d \in Documents, NEW x \in buildSubjects(d), NEW o \in connectionAreaNodes(d, x)
    PROVE  Offered(d, o, x)
  <1>1. CASE o \in On(connectionState(d, x).primary \cup connectionState(d, x).secondary, x[2])
    <2>1. PICK verb \in connectionState(d, x).primary \cup connectionState(d, x).secondary : o = <<verb, x[2]>>
      BY <1>1 DEF On
    <2>2. QED
      BY <2>1, StateOffers, ModemOffer
  <1>2. CASE o \in adoptionNodes(d, x)
    <2> DEFINE m == record(d, x)
    <2>1. /\ isModem(x)
          /\ \/ /\ o = <<"release-adoption", x[2]>>
                /\ gate(d.silent, "adoption", can_release_adoption(m)) = "yes"
             \/ o = <<"adopt", x[2]>> /\ gate(d.silent, "adoption", can_adopt(m)) = "yes"
      BY <1>2 DEF adoptionNodes, On
    <2>2. d.inventory[x[2]] \in ModemType /\ m = d.inventory[x[2]]
      BY <2>1, SubjectParts, DocumentParts DEF record
    <2>3. CASE o = <<"adopt", x[2]>> /\ can_adopt(m)
      <3>1. Accepts(d.inventory[x[2]], "adopt") /\ "adopt" \in ModemVerbs
        BY <2>2, <2>3 DEF Accepts, ModemVerbs
      <3>2. QED
        BY <2>1, <2>3, <3>1, ModemOffer
    <2>4. CASE o = <<"release-adoption", x[2]>> /\ can_release_adoption(m)
      <3>1. Accepts(d.inventory[x[2]], "release-adoption") /\ "release-adoption" \in ModemVerbs
        BY <2>2, <2>4 DEF Accepts, ModemVerbs, can_release_adoption
      <3>2. QED
        BY <2>1, <2>4, <3>1, ModemOffer
    <2>5. QED
      BY <2>1, <2>3, <2>4 DEF gate
  <1>3. QED
    BY <1>1, <1>2 DEF connectionAreaNodes

LEMMA ApnOffers ==
    ASSUME NEW d \in Documents, NEW x \in buildSubjects(d), NEW chosen,
           NEW o \in apnAreaNodes(d, x, chosen)
    PROVE  Offered(d, o, x)
  <1>1. targetId(d, x) # NoTarget
    BY TargetParts DEF apnAreaNodes
  <1>2. \E verb \in EngineVerbs : o = <<verb, targetId(d, x)>>
    BY VerbsApart DEF apnAreaNodes, On, EngineVerbs
  <1>3. QED
    BY <1>1, <1>2, TargetOffer

LEMMA ProvisionOffers ==
    ASSUME NEW d \in Documents, NEW x \in buildSubjects(d), NEW o \in provisionNodes(d, x)
    PROVE  Offered(d, o, x)
  <1> DEFINE m == record(d, x)
  <1>1. /\ isModem(x)
        /\ \/ o = <<"provision", x[2]>> /\ can_provision(m)
           \/ o = <<"deprovision", x[2]>> /\ already_provisioned(m) /\ connection_origin(m) = "created"
    BY DEF provisionNodes
  <1>2. m = d.inventory[x[2]] /\ m \in ModemType
    BY <1>1, SubjectParts, DocumentParts DEF record
  <1>3. CASE o = <<"provision", x[2]>> /\ can_provision(m)
    <2>1. Accepts(d.inventory[x[2]], "provision") /\ "provision" \in ModemVerbs
      BY <1>2, <1>3 DEF Accepts, ModemVerbs
    <2>2. QED
      BY <1>1, <1>3, <2>1, ModemOffer
  <1>4. CASE o = <<"deprovision", x[2]>> /\ connection_origin(m) = "created"
    <2>1. m.setup = "created"
      BY <1>4 DEF connection_origin
    <2>2. Accepts(d.inventory[x[2]], "deprovision") \/ ~d.inventory[x[2]].known
      BY <1>2, <2>1 DEF Accepts
    <2>3. QED
      BY <1>1, <1>4, <2>2, ModemOffer DEF ModemVerbs
  <1>5. QED
    BY <1>1, <1>3, <1>4

LEMMA AreaOffers ==
    ASSUME NEW d \in Documents, NEW r \in Routes, r.subject \in buildSubjects(d), NEW chosen,
           NEW o \in areaNodes(d, r, chosen)
    PROVE  Offered(d, o, r.subject)
  <1> DEFINE x == r.subject
  <1>1. CASE o \in resetNodes(d, x)
    <2>1. o = <<"modem-reset", targetId(d, x)>> /\ targetId(d, x) # NoTarget /\ "modem-reset" \in EngineVerbs
      BY <1>1 DEF resetNodes, EngineVerbs
    <2>2. QED
      BY <2>1, TargetOffer
  <1>2. QED
    BY <1>1, ProvisionOffers, ApnOffers, ConnectionOffers DEF areaNodes

\* Of every control drawn.
LEMMA ControlOffers ==
    ASSUME screen \in [documents : Documents, route : Routes], NEW c \in Controls
    PROVE  /\ c \in Operations
           /\ c[2] # RouterScope => Offered(screen.documents, c[1], c[2])
           /\ c[2] = RouterScope => c[1][1] \in EngineVerbs
  <1> DEFINE d == screen.documents
             r == screen.route
  <1>1. d \in Documents /\ r \in Routes
    OBVIOUS
  <1>2. ASSUME NEW o, NEW x \in buildSubjects(d), c = <<o, x>>, Offered(d, o, x)
        PROVE  /\ c \in Operations
               /\ c[2] # RouterScope => Offered(screen.documents, c[1], c[2])
               /\ c[2] = RouterScope => c[1][1] \in EngineVerbs
    <2>1. x \in Cards /\ x # RouterScope
      BY <1>1, <1>2, SubjectParts
    <2>2. QED
      BY <1>2, <2>1 DEF Offered, Operations
  <1>3. CASE c \in {<<o, RouterScope>> : o \in databaseNodes(d)}
    <2>1. c[2] = RouterScope /\ c[1] \in EngineVerbs \X {NoTarget} /\ c = <<c[1], c[2]>>
      BY <1>3 DEF databaseNodes, On, EngineVerbs
    <2>2. QED
      BY <2>1 DEF Operations, Requests
  <1>4. CASE c \in {<<o, RouterScope>> : o \in overviewNodes(d, r)}
    <2>1. c[2] = RouterScope /\ c[1] \in EngineVerbs \X {NoTarget} /\ c = <<c[1], c[2]>>
      BY <1>4 DEF overviewNodes, EngineVerbs
    <2>2. QED
      BY <2>1 DEF Operations, Requests
  <1>5. CASE c \in UNION {{<<o, x>> : o \in cardNode(d, x)} : x \in buildSubjects(d)}
    <2>1. PICK x \in buildSubjects(d) : \E o \in cardNode(d, x) : c = <<o, x>>
      BY <1>5
    <2>2. QED
      BY <1>1, <1>2, <2>1, CardOffers
  <1>6. CASE r.subject \in buildSubjects(d) /\ \E o \in areaNodes(d, r, choice) : c = <<o, r.subject>>
    BY <1>1, <1>2, <1>6, AreaOffers
  <1>7. \/ c \in {<<o, RouterScope>> : o \in databaseNodes(d)}
        \/ c \in {<<o, RouterScope>> : o \in overviewNodes(d, r)}
        \/ c \in UNION {{<<o, x>> : o \in cardNode(d, x)} : x \in buildSubjects(d)}
        \/ r.subject \in buildSubjects(d) /\ \E o \in areaNodes(d, r, choice) : c = <<o, r.subject>>
    BY DEF Controls
  <1>8. QED
    BY <1>3, <1>4, <1>5, <1>6, <1>7
-----------------------------------------------------------------------------
(* Cards and connections.                                                  *)

\* A connection that is listed is the target of a card of its own, or of modems' cards.
LEMMA OwnOrModems ==
    ASSUME NEW d \in Documents, NEW s \in listed(d)
    PROVE  LET cards == {x \in buildSubjects(d) : targetId(d, x) = s}
           IN  cards = {<<"target", s>>} \/ (cards # {} /\ \A x \in cards : isModem(x))
  <1> DEFINE X == {x \in buildSubjects(d) : targetId(d, x) = s}
  <1>1. s # NoTarget
    BY DocumentParts, ControlsAssumption
  <1>2. ASSUME NEW x \in X, ~isModem(x) PROVE x = <<"target", s>> /\ s \notin claimed(d)
    <2>1. x = <<"target", s>>
      BY <1>2, SubjectParts DEF targetId
    <2>2. s \notin claimed(d)
      BY <1>2, <2>1 DEF buildSubjects, isModem
    <2>3. QED
      BY <2>1, <2>2
  <1>3. CASE s \in claimed(d)
    <2>1. PICK m \in inventoried(d) : Section[m] = s /\ Bound(d.inventory[m]) /\ ~d.inventory[m].ambiguous
      BY <1>3 DEF claimed
    <2>2. <<"modem", m>> \in buildSubjects(d)
      BY DEF buildSubjects
    <2>3. targetId(d, <<"modem", m>>) = s
      BY <2>1 DEF targetId, isModem, record, ambiguous
    <2>4. X # {} /\ \A x \in X : isModem(x)
      BY <1>2, <1>3, <2>2, <2>3
    <2>5. QED
      BY <2>4
  <1>4. CASE s \notin claimed(d)
    <2>1. <<"target", s>> \in X
      BY <1>4 DEF buildSubjects, targetId, isModem
    <2>2. ASSUME NEW x \in X, isModem(x) PROVE FALSE
      <3>1. x[2] \in inventoried(d) /\ x \in buildSubjects(d)
        BY <2>2, SubjectParts
      <3>2. Bound(record(d, x)) /\ ~ambiguous(d, x) /\ Section[x[2]] = s
        BY <1>1, <2>2 DEF targetId
      <3>3. QED
        BY <1>4, <2>2, <3>1, <3>2 DEF claimed, ambiguous, record
    <2>3. X = {<<"target", s>>}
      BY <1>2, <2>1, <2>2
    <2>4. QED
      BY <2>3
  <1>5. QED
    BY <1>3, <1>4
-----------------------------------------------------------------------------
(* Types.                                                                  *)

LEMMA ControlsTyped ==
    screen \in [documents : Documents, route : Routes] => Controls \subseteq Operations
  BY ControlOffers

\* The kinds of dialog are told apart.
LEMMA DialogsApart ==
    /\ <<>> # <<"form">>
    /\ \A kind, c : <<kind, c>> # <<>> /\ <<kind, c>> # <<"form">> /\ <<kind, c>>[1] = kind /\ <<kind, c>>[2] = c
    /\ <<"form">>[1] = "form"
  OBVIOUS

LEMMA EmptyType == emptyDocuments \in Documents
  BY DEF emptyDocuments, Documents

LEMMA ReadingsType ==
    ASSUME router \in RouterType
    PROVE  Readings \subseteq Documents
  <1>1. ASSUME NEW fail, NEW runs \in SUBSET Modems, NEW engine \in BOOLEAN
        PROVE  Answers(fail, runs, engine) \in Documents
    <2> DEFINE I == [m \in {n \in Modems : router.modem[n].attached} |-> router.modem[m]]
               T == [s \in Listed |-> router.connection[s].managed]
    <2>1. I \in UNION {[S -> ModemType] : S \in SUBSET Modems}
      <3>1. I \in [{n \in Modems : router.modem[n].attached} -> ModemType]
        BY DEF RouterType
      <3> HIDE DEF I
      <3>2. QED
        BY <3>1
    <2>2. Listed \subseteq Sections
      BY ControlsAssumption DEF Listed
    <2>3. T \in UNION {[S -> BOOLEAN] : S \in SUBSET Sections}
      BY <2>2 DEF RouterType, ConnectionType
    <2>4. router.silent \in SUBSET Fields /\ router.update \in BOOLEAN
      BY DEF RouterType
    <2> HIDE DEF I, T
    <2>5. Answers(fail, runs, engine) =
            [inventory |-> IF fail = "inventory" THEN Failed ELSE I,
             targets |-> IF fail = "targets" THEN Failed ELSE T,
             update |-> IF fail = "update" THEN Failed ELSE router.update,
             status |-> [s \in Sections |-> Unread],
             running |-> IF fail = "inventory" THEN {} ELSE runs,
             engine |-> engine, silent |-> router.silent]
      BY DEF Answers, I, T
    <2>6. QED
      BY <2>1, <2>3, <2>4, <2>5 DEF Documents
  <1>2. QED
    BY <1>1 DEF Readings

LEMMA StatusesType ==
    ASSUME router \in RouterType, NEW d \in Documents
    PROVE  WithStatuses(d) \in Documents
  <1> DEFINE T == [s \in Sections |-> IF s \in listed(d) THEN router.connection[s] ELSE Unread]
  <1>1. T \in [Sections -> ConnectionType \cup {Unread, Failed}]
    BY DEF RouterType
  <1> HIDE DEF T
  <1>2. [d EXCEPT !.status = T] \in Documents
    BY <1>1 DEF Documents
  <1>3. QED
    BY <1>2 DEF WithStatuses, T

LEMMA RouteType ==
    ASSUME NEW d \in Documents, NEW r \in Routes
    PROVE  /\ normaliseRoute(r, d) \in Routes
           /\ normaliseRoute(r, d).subject \in buildSubjects(d) \cup {<<>>}
  <1> DEFINE X == buildSubjects(d)
             to == IF r.subject \in X THEN r.subject
                   ELSE IF r.area = "overview" /\ Cardinality(X) = 1 THEN CHOOSE y \in X : TRUE ELSE <<>>
  <1>1. Cardinality(X) = 1 => X # {}
    BY FS_EmptySet
  <1>2. to \in X \cup {<<>>}
    BY <1>1
  <1>3. X \subseteq Cards
    BY SubjectParts
  <1>4. normaliseRoute(r, d) = [r EXCEPT !.subject = to]
    BY DEF normaliseRoute
  <1> HIDE DEF X, to
  <1>5. [r EXCEPT !.subject = to] \in Routes /\ [r EXCEPT !.subject = to].subject = to
    BY <1>2, <1>3 DEF Routes
  <1>6. QED
    BY <1>2, <1>4, <1>5 DEF X

Drawn ==
    /\ screen \in [documents : Documents, route : Routes]
    /\ choice \in Policies \cup {Nothing}
    /\ greyed \in BOOLEAN /\ engineBusy \in BOOLEAN

LEMMA DrawnType ==
    ASSUME TypeOK, NEW d \in Documents, NEW r \in Routes, renderRoute(d, r) \/ Redraw(d, r)
    PROVE  Drawn'
  BY DEF TypeOK, Drawn, renderRoute, Redraw, Documents

\* What the dialog and the launches are left alone by.
LEMMA TakeType ==
    ASSUME TypeOK, NEW d \in Documents, Take(d)
    PROVE  /\ documents' \in Documents
           /\ route' \in Routes /\ route'.subject \in buildSubjects(documents') \cup {<<>>}
           /\ Drawn'
           /\ UNCHANGED <<dialog, manual, launch, sent>>
  <1>1. documents' = d /\ route' = normaliseRoute(route, d) /\ Redraw(d, route')
        /\ UNCHANGED <<dialog, manual, launch, sent>>
    BY DEF Take
  <1>2. route' \in Routes /\ route'.subject \in buildSubjects(d) \cup {<<>>}
    BY <1>1, RouteType DEF TypeOK
  <1>3. QED
    BY <1>1, <1>2, DrawnType

LEMMA ControlsTypedNext == (screen \in [documents : Documents, route : Routes] => Controls \subseteq Operations)'
  BY ControlsTyped, PTL

LEMMA TypeInit == Init => TypeOK
  <1> SUFFICES ASSUME Init PROVE TypeOK
    OBVIOUS
  <1>1. router \in RouterType
    BY ControlsAssumption DEF Init
  <1>2. route \in Routes /\ route.subject = <<>>
    BY DEF Init, Routes
  <1>3. documents \in Documents /\ screen \in [documents : Documents, route : Routes]
    BY <1>2, EmptyType DEF Init
  <1>4. Controls \subseteq Operations
    BY <1>3, ControlsTyped
  <1>5. QED
    <2>1. /\ sent \in Seq(Operations) /\ launch \subseteq Operations \X BOOLEAN
          /\ used \in [moves : Nat, visits : Nat, escaped : BOOLEAN]
      BY DEF Init
    <2>2. /\ choice = Nothing /\ greyed = FALSE /\ engineBusy = FALSE
          /\ dialog = <<>> /\ manual = Nothing
      BY DEF Init
    <2>3. route.subject \in buildSubjects(documents) \cup {<<>>}
      BY <1>2
    <2>4. QED
      BY <1>1, <1>2, <1>3, <1>4, <2>1, <2>2, <2>3, DialogsApart DEF TypeOK

\* The page reads and draws, and the user moves about: nothing is asked or sent.
Looks == FillRouter \/ FillStatus \/ Refresh \/ Plug \/ Navigate \/ Expand \/ ChoosePolicy

LEMMA TypeLooks ==
    ASSUME TypeOK, Looks
    PROVE  TypeOK' /\ UNCHANGED <<dialog, manual, launch, sent>> /\ used'.escaped = used.escaped
  <1> DEFINE Kept == UNCHANGED <<dialog, manual, launch, sent>> /\ used'.escaped = used.escaped
  <1>1. ASSUME router' \in RouterType, documents' \in Documents,
               route' \in Routes, route'.subject \in buildSubjects(documents') \cup {<<>>},
               Drawn', Kept, used' \in [moves : Nat, visits : Nat, escaped : BOOLEAN]
        PROVE  TypeOK'
    BY <1>1, ControlsTypedNext DEF TypeOK, Drawn
  <1>2. ASSUME router' = router, NEW d \in Documents, Take(d), used'.escaped = used.escaped,
               used' \in [moves : Nat, visits : Nat, escaped : BOOLEAN]
        PROVE  TypeOK' /\ Kept
    BY <1>1, <1>2, TakeType DEF TypeOK
  <1>3. Readings \subseteq Documents
    BY ReadingsType DEF TypeOK
  <1>4. used' = used => used' \in [moves : Nat, visits : Nat, escaped : BOOLEAN]
    BY DEF TypeOK
  <1>5. CASE FillRouter
    <2>1. PICK d \in Readings : Take(d)
      BY <1>5 DEF FillRouter
    <2>2. router' = router /\ used' = used
      BY <1>5 DEF FillRouter
    <2>3. QED
      BY <1>2, <1>3, <1>4, <2>1, <2>2
  <1>6. CASE FillStatus
    <2>1. PICK s \in listed(documents) :
            \E answer \in {router.connection[s], Failed} : Take([documents EXCEPT !.status[s] = answer])
      BY <1>6 DEF FillStatus
    <2>a. PICK answer \in {router.connection[s], Failed} : Take([documents EXCEPT !.status[s] = answer])
      BY <2>1
    <2>2. router' = router /\ used' = used
      BY <1>6 DEF FillStatus
    <2>3. s \in Sections /\ answer \in ConnectionType \cup {Unread, Failed}
      BY DocumentParts DEF TypeOK, RouterType
    <2>4. [documents EXCEPT !.status[s] = answer] \in Documents
      BY <2>3 DEF TypeOK, Documents
    <2>5. QED
      BY <1>2, <1>4, <2>a, <2>2, <2>4
  <1>7. ASSUME Spend
        PROVE  used' \in [moves : Nat, visits : Nat, escaped : BOOLEAN] /\ used'.escaped = used.escaped
    BY <1>7 DEF Spend, TypeOK
  <1>8. CASE Refresh
    <2>1. PICK d \in Readings : Take(WithStatuses(d))
      BY <1>8 DEF Refresh
    <2>2. router' = router /\ Spend
      BY <1>8 DEF Refresh
    <2>3. WithStatuses(d) \in Documents
      BY <1>3, StatusesType DEF TypeOK
    <2>4. QED
      BY <1>2, <1>7, <2>1, <2>2, <2>3
  <1>9. CASE Plug
    <2>1. Spend /\ UNCHANGED <<page, dialog, manual, launch, sent>>
      BY <1>9 DEF Plug
    <2>2. PICK m \in Modems : router' = [router EXCEPT !.modem[m].attached = ~@]
      BY <1>9 DEF Plug
    <2>3. router' \in RouterType
      <3> DEFINE one == [router.modem[m] EXCEPT !.attached = ~@]
                 all == [router.modem EXCEPT ![m] = one]
      <3>1. router.modem \in [Modems -> ModemType] /\ router \in RouterType
        BY DEF TypeOK, RouterType
      <3>2. one \in ModemType
        BY <3>1, Zenon DEF ModemType
      <3>3. all \in [Modems -> ModemType]
        BY <3>1, <3>2
      <3>4. router' = [router EXCEPT !.modem = all]
        BY <2>2
      <3> HIDE DEF all
      <3>5. QED
        BY <3>1, <3>3, <3>4 DEF RouterType
    <2>4. Drawn'
      BY <2>1 DEF TypeOK, Drawn, page
    <2>5. QED
      BY <1>1, <1>7, <2>1, <2>3, <2>4 DEF TypeOK, page
  <1>10. CASE Navigate
    <2>1. PICK area \in {"overview", "database"}, workspace \in {"connection", "apn", "modem"},
               x \in buildSubjects(documents) \cup {<<>>} :
            /\ route' = normaliseRoute([route EXCEPT !.area = area, !.subject = x,
                                                     !.workspace = workspace], documents)
            /\ renderRoute(documents, route')
      BY <1>10 DEF Navigate
    <2>2. UNCHANGED <<router, documents, dialog, manual, launch, sent>>
          /\ used' = [used EXCEPT !.visits = @ + 1]
      BY <1>10 DEF Navigate
    <2>3. x \in Cards \cup {<<>>}
      BY SubjectParts DEF TypeOK
    <2>4. [route EXCEPT !.area = area, !.subject = x, !.workspace = workspace] \in Routes
      BY <2>3, Zenon DEF TypeOK, Routes
    <2>5. route' \in Routes /\ route'.subject \in buildSubjects(documents) \cup {<<>>}
      BY <2>1, <2>4, RouteType DEF TypeOK
    <2>6. Drawn'
      BY <2>1, <2>5, DrawnType DEF TypeOK
    <2>7. used' \in [moves : Nat, visits : Nat, escaped : BOOLEAN] /\ used'.escaped = used.escaped
      BY <2>2 DEF TypeOK
    <2>8. QED
      BY <1>1, <2>2, <2>5, <2>6, <2>7 DEF TypeOK
  <1>11. CASE Expand
    <2>1. /\ route' = [route EXCEPT !.expanded = TRUE] /\ renderRoute(documents, route')
          /\ UNCHANGED <<router, documents, dialog, manual, launch, sent, used>>
      BY <1>11 DEF Expand
    <2>2. route' \in Routes /\ route'.subject = route.subject
      BY <2>1 DEF TypeOK, Routes
    <2>3. Drawn'
      BY <2>1, <2>2, DrawnType DEF TypeOK
    <2>4. QED
      BY <1>1, <2>1, <2>2, <2>3 DEF TypeOK
  <1>12. CASE ChoosePolicy
    <2>1. /\ choice' \in Policies \cup {Nothing}
          /\ UNCHANGED <<router, documents, route, screen, greyed, engineBusy, dialog, manual,
                         launch, sent, used>>
      BY <1>12 DEF ChoosePolicy
    <2>2. Drawn'
      BY <2>1 DEF TypeOK, Drawn
    <2>3. QED
      BY <1>1, <2>1, <2>2 DEF TypeOK
  <1>13. QED
    BY <1>5, <1>6, <1>8, <1>9, <1>10, <1>11, <1>12 DEF Looks

LEMMA TypeLaunch ==
    ASSUME TypeOK, NEW c \in Operations, NEW form \in BOOLEAN, Launch(c, form), UNCHANGED router,
           UNCHANGED used, dialog' \in {<<>>, dialog}, UNCHANGED manual, dialog # <<"form">>
    PROVE  TypeOK'
  <1>1. Drawn'
    BY DEF Launch, TypeOK, Drawn
  <1>2. launch' \subseteq Operations \X BOOLEAN /\ sent' \in Seq(Operations)
    BY DEF Launch, TypeOK
  <1>3. dialog' # <<"form">>
    OBVIOUS
  <1>4. QED
    BY <1>1, <1>2, <1>3, ControlsTypedNext DEF Launch, TypeOK, Drawn

\* The user asks for something, and the router answers.
LEMMA TypeAsks ==
    ASSUME TypeOK, Press \/ TypePassword \/ ConfirmForm \/ Cancel \/ Escape \/ Confirm \/ Land
    PROVE  TypeOK'
  <1>1. ASSUME UNCHANGED <<router, page>>,
               dialog' \in {<<>>, <<"form">>} \cup ({"confirm", "apply"} \X Operations),
               manual' \in Forms \cup {Nothing},
               dialog' = <<"form">> => manual' # Nothing,
               launch' \subseteq launch, sent' = sent,
               used' \in [moves : Nat, visits : Nat, escaped : BOOLEAN]
        PROVE  TypeOK'
    BY <1>1, ControlsTypedNext DEF TypeOK, page
  <1>2. CASE Press
    <2>1. PICK control \in Controls :
            /\ ~Disabled(control)
            /\ \/ Launch(control, FALSE) /\ UNCHANGED <<dialog, manual>>
               \/ /\ manual' = [control |-> control, password |-> FALSE]
                  /\ dialog' = <<"form">>
                  /\ UNCHANGED <<page, launch, sent>>
               \/ /\ dialog' = <<"confirm", control>>
                  /\ UNCHANGED <<page, manual, launch, sent>>
      BY <1>2 DEF Press
    <2>2. control \in Operations
      BY DEF TypeOK
    <2>3. UNCHANGED <<router, used>> /\ dialog = <<>>
      BY <1>2 DEF Press
    <2>4. CASE Launch(control, FALSE) /\ UNCHANGED <<dialog, manual>>
      BY <2>2, <2>3, <2>4, TypeLaunch
    <2>5. CASE /\ manual' = [control |-> control, password |-> FALSE]
               /\ dialog' = <<"form">> /\ UNCHANGED <<page, launch, sent>>
      <3>a. manual' \in Forms
        BY <2>2, <2>5 DEF Forms
      <3>1. manual' \in Forms /\ manual' # Nothing
        BY <3>a, NamesAssumption
      <3>2. QED
        BY <1>1, <2>3, <2>5, <3>1 DEF TypeOK
    <2>6. CASE dialog' = <<"confirm", control>> /\ UNCHANGED <<page, manual, launch, sent>>
      <3>1. dialog' \in {"confirm", "apply"} \X Operations /\ dialog' # <<"form">>
        BY <2>2, <2>6
      <3>2. QED
        BY <1>1, <2>3, <2>6, <3>1 DEF TypeOK
    <2>7. QED
      BY <2>1, <2>4, <2>5, <2>6
  <1>3. CASE TypePassword
    <2>1. /\ manual' = [manual EXCEPT !.password = TRUE] /\ dialog = <<"form">>
          /\ UNCHANGED <<router, page, dialog, launch, sent, used>>
      BY <1>3 DEF TypePassword
    <2>2. manual \in Forms
      BY <2>1 DEF TypeOK
    <2>3. manual' \in Forms /\ manual' # Nothing
      BY <2>1, <2>2, NamesAssumption DEF Forms
    <2>4. QED
      BY <1>1, <2>1, <2>3 DEF TypeOK
  <1>4. CASE ConfirmForm
    <2>1. /\ dialog' = <<"apply", manual.control>> /\ dialog = <<"form">>
          /\ UNCHANGED <<router, page, manual, launch, sent, used>>
      BY <1>4 DEF ConfirmForm
    <2>2. manual.control \in Operations
      BY <2>1 DEF TypeOK, Forms
    <2>3. dialog' \in {"confirm", "apply"} \X Operations /\ dialog' # <<"form">>
      BY <2>1, <2>2
    <2>4. QED
      BY <1>1, <2>1, <2>3 DEF TypeOK
  <1>5. CASE Cancel
    <2>1. /\ dialog' = <<>> /\ manual' \in {Nothing, manual}
          /\ UNCHANGED <<router, page, launch, sent, used>>
      BY <1>5 DEF Cancel
    <2>2. QED
      BY <1>1, <2>1 DEF TypeOK
  <1>6. CASE Escape
    <2>1. /\ dialog' = <<>> /\ UNCHANGED <<router, page, manual, launch, sent>>
          /\ used' = [used EXCEPT !.escaped = @ \/ dialog[1] \in {"form", "apply"}]
      BY <1>6 DEF Escape
    <2>2. used' \in [moves : Nat, visits : Nat, escaped : BOOLEAN]
      BY <2>1 DEF TypeOK
    <2>3. QED
      BY <1>1, <2>1, <2>2 DEF TypeOK
  <1>7. CASE Confirm
    <2>1. /\ dialog # <<>> /\ dialog[1] \in {"confirm", "apply"} /\ dialog' = <<>>
          /\ Launch(dialog[2], dialog[1] = "apply") /\ UNCHANGED <<router, manual, used>>
      BY <1>7 DEF Confirm
    <2>2. dialog[2] \in Operations /\ dialog # <<"form">>
      BY <2>1 DEF TypeOK
    <2>3. QED
      BY <2>1, <2>2, TypeLaunch
  <1>8. CASE Land
    <2>1. /\ launch' \subseteq launch /\ UNCHANGED <<router, page, sent, used>>
          /\ (manual' = Nothing /\ dialog' = <<>>) \/ UNCHANGED <<manual, dialog>>
      BY <1>8 DEF Land
    <2>2. dialog' = <<"form">> => manual' # Nothing
      BY <2>1, DialogsApart DEF TypeOK
    <2>3. QED
      BY <1>1, <2>1, <2>2 DEF TypeOK
  <1>9. QED
    BY <1>2, <1>3, <1>4, <1>5, <1>6, <1>7, <1>8

LEMMA TypeStep == TypeOK /\ [Next]_vars => TypeOK'
  <1> SUFFICES ASSUME TypeOK, [Next]_vars PROVE TypeOK'
    OBVIOUS
  <1>1. CASE UNCHANGED vars
    BY <1>1, ControlsTypedNext DEF vars, page, TypeOK
  <1>2. QED
    BY <1>1, TypeLooks, TypeAsks DEF Next, Looks
-----------------------------------------------------------------------------
(* What is sent.                                                           *)

LEMMA NamedStep == TypeOK /\ NamedInv /\ [Next]_vars => NamedInv'
  <1> SUFFICES ASSUME TypeOK, NamedInv, [Next]_vars PROVE NamedInv'
    OBVIOUS
  <1>1. \A c \in Controls : Names(c)
    <2> SUFFICES ASSUME NEW c \in Controls, c[2] # RouterScope, c[1][1] \notin ModemVerbs
                 PROVE  c[1][2] = Target(c[2])
      BY DEF Names
    <2>1. Offered(screen.documents, c[1], c[2])
      BY ControlOffers DEF TypeOK
    <2>2. QED
      BY <2>1 DEF Offered
  <1>2. ASSUME UNCHANGED <<dialog, manual, sent>> PROVE NamedInv'
    BY <1>2 DEF NamedInv
  <1>3. CASE Looks \/ UNCHANGED vars
    BY <1>2, <1>3, TypeLooks DEF vars
  <1>4. ASSUME NEW c, Names(c), sent' = sent \/ sent' = Append(sent, c)
        PROVE  \A i \in DOMAIN sent' : Names(sent'[i])
    BY <1>4 DEF NamedInv, TypeOK
  <1>5. CASE Press
    <2>1. PICK control \in Controls :
            \/ Launch(control, FALSE) /\ UNCHANGED <<dialog, manual>>
            \/ manual' = [control |-> control, password |-> FALSE] /\ dialog' = <<"form">> /\ sent' = sent
            \/ dialog' = <<"confirm", control>> /\ UNCHANGED <<manual, sent>>
      BY <1>5 DEF Press
    <2>2. sent' = sent \/ sent' = Append(sent, control)
      BY <2>1 DEF Launch
    <2>3. \A i \in DOMAIN sent' : Names(sent'[i])
      BY <1>1, <1>4, <2>2
    <2>4. dialog = <<>>
      BY <1>5 DEF Press
    <2>5. QED
      <3>1. CASE UNCHANGED <<dialog, manual>>
        BY <2>3, <3>1 DEF NamedInv
      <3>2. CASE manual' = [control |-> control, password |-> FALSE] /\ dialog' = <<"form">>
        BY <1>1, <2>3, <3>2, DialogsApart DEF NamedInv
      <3>3. CASE dialog' = <<"confirm", control>> /\ UNCHANGED manual
        BY <1>1, <2>3, <3>3, DialogsApart DEF NamedInv
      <3>4. QED
        BY <2>1, <3>1, <3>2, <3>3
  <1>6. CASE TypePassword
    <2>1. manual \in Forms /\ manual' = [manual EXCEPT !.password = TRUE] /\ UNCHANGED <<dialog, sent>>
      BY <1>6 DEF TypePassword, TypeOK
    <2>2. manual'.control = manual.control
      BY <2>1 DEF Forms
    <2>3. QED
      BY <2>1, <2>2 DEF NamedInv
  <1>7. CASE ConfirmForm
    BY <1>7 DEF ConfirmForm, NamedInv
  <1>8. CASE Cancel \/ Escape
    BY <1>8 DEF Cancel, Escape, NamedInv
  <1>9. CASE Confirm
    <2>1. Names(dialog[2]) /\ dialog' = <<>> /\ (sent' = sent \/ sent' = Append(sent, dialog[2]))
      BY <1>9 DEF Confirm, NamedInv, Launch
    <2>2. QED
      BY <1>4, <2>1 DEF NamedInv
  <1>10. CASE Land
    BY <1>2, <1>10 DEF Land, NamedInv
  <1>11. QED
    BY <1>3, <1>5, <1>6, <1>7, <1>8, <1>9, <1>10 DEF Next, Looks

\* The password goes with the dialog or with the launch.
LEMMA ClearedStep == TypeOK /\ PasswordIsCleared /\ [Next]_vars => PasswordIsCleared'
  <1> SUFFICES ASSUME TypeOK, PasswordIsCleared, [Next]_vars, manual' # Nothing
               PROVE  \/ dialog' # <<>> /\ dialog'[1] \in {"form", "apply"}
                      \/ \E l \in launch' : l[2]
                      \/ used'.escaped
    BY DEF PasswordIsCleared
  <1>1. CASE Looks \/ UNCHANGED vars
    BY <1>1, TypeLooks DEF vars, PasswordIsCleared
  <1>2. ASSUME manual' = manual, dialog = <<>> \/ dialog[1] \notin {"form", "apply"},
               launch \subseteq launch', used' = used
        PROVE  (\E l \in launch' : l[2]) \/ used'.escaped
    BY <1>2 DEF PasswordIsCleared
  <1>3. CASE Press
    <2>1. /\ dialog = <<>> /\ used' = used
          /\ \/ dialog' = <<"form">>
             \/ manual' = manual /\ launch \subseteq launch'
      BY <1>3 DEF Press, Launch
    <2>2. QED
      BY <1>2, <2>1
  <1>4. CASE TypePassword \/ ConfirmForm
    BY <1>4 DEF TypePassword, ConfirmForm
  <1>5. CASE Cancel
    BY <1>2, <1>5 DEF Cancel
  <1>6. CASE Escape
    <2>1. used'.escaped = (used.escaped \/ dialog[1] \in {"form", "apply"})
      BY <1>6 DEF Escape, TypeOK
    <2>2. QED
      BY <1>6, <2>1 DEF Escape, PasswordIsCleared
  <1>7. CASE Confirm
    <2>1. /\ launch' = launch \cup {<<dialog[2], dialog[1] = "apply">>}
          /\ dialog[1] \in {"confirm", "apply"} /\ UNCHANGED <<manual, used>>
      BY <1>7 DEF Confirm, Launch
    <2>2. CASE dialog[1] = "apply"
      <3>1. <<dialog[2], dialog[1] = "apply">>[2]
        BY <2>2
      <3>2. QED
        BY <2>1, <3>1
    <2>3. CASE dialog[1] = "confirm"
      BY <1>2, <2>1, <2>3
    <2>4. QED
      BY <2>1, <2>2, <2>3
  <1>8. CASE Land
    <2>1. PICK l \in launch : launch' = launch \ {l} /\ ~l[2] /\ UNCHANGED <<manual, dialog, used>>
      BY <1>8 DEF Land
    <2>2. QED
      BY <2>1 DEF PasswordIsCleared
  <1>9. QED
    BY <1>1, <1>3, <1>4, <1>5, <1>6, <1>7, <1>8 DEF Next, Looks
-----------------------------------------------------------------------------
(* The theorems.                                                           *)

\* The inductive invariant of the cards and dialogs.
THEOREM PageInvariant == Spec => []PageInv
  <1>1. Init => NamedInv /\ PasswordIsCleared
    BY DEF Init, NamedInv, PasswordIsCleared
  <1>2. QED
    BY <1>1, TypeInit, TypeStep, NamedStep, ClearedStep, PTL DEF Spec, PageInv

\* normaliseRoute, and what the areas draw: the open card is one that was read, and a
\* control is for a modem or an interface there is.
THEOREM TypeCorrect == Spec => []TypeOK
  BY PageInvariant, PTL DEF PageInv

\* provision_evaluate, connection_resolve_section and the other checks of the commands:
\* whatever documents of whatever package the page has drawn, they accept what it offers,
\* but for the removal of a setup that was recorded under another identity.
THEOREM AcceptedIfOffered == Spec => []OffersAreAccepted
  <1>1. TypeOK => OffersAreAccepted
    <2> SUFFICES ASSUME TypeOK, NEW c \in Controls, c[1][1] \in ModemVerbs
                 PROVE  \/ Accepts(screen.documents.inventory[c[1][2]], c[1][1])
                        \/ c[1][1] = "deprovision" /\ ~screen.documents.inventory[c[1][2]].known
      BY DEF OffersAreAccepted, Accepted, Rebound
    <2>1. c[2] # RouterScope => Offered(screen.documents, c[1], c[2])
      BY ControlOffers DEF TypeOK
    <2>2. c[2] # RouterScope
      BY ControlOffers, VerbsApart DEF TypeOK
    <2>3. QED
      BY <2>1, <2>2 DEF Offered
  <1>2. QED
    BY <1>1, TypeCorrect, PTL

\* startAction: the engine is never left to choose a target for what was asked on a card.
THEOREM SentIsNamed == Spec => []TargetsAreNamed
  <1>1. PageInv => TargetsAreNamed
    BY DEF PageInv, NamedInv, Names, Target, TargetsAreNamed
  <1>2. QED
    BY <1>1, PageInvariant, PTL

\* buildSubjects: no connection is left without a card, nor has one of its own beside that
\* of its modem, whatever modems are ambiguous.
THEOREM CardsForAll == Spec => []ConnectionsHaveCards
  <1>1. TypeOK => ConnectionsHaveCards
    BY OwnOrModems DEF TypeOK, ConnectionsHaveCards
  <1>2. QED
    BY <1>1, TypeCorrect, PTL

\* closeManualApn: a password does not outlive its form, unless Escape left it there.
THEOREM PasswordGoes == Spec => []PasswordIsCleared
  BY PageInvariant, PTL DEF PageInv

\* showConfirmation: each step of the page is one of Consent's, or none of it.
THEOREM ControlsKeepConsent == Spec => KeepsConsent
  <1>1. Init => Consented!Init
    BY DEF Init, Consented!Init
  <1>2. ASSUME TypeOK, TypeOK', [Next]_vars PROVE [Consented!Next]_(Consented!vars)
    <2> USE DEF Consented!Next, Consented!Ask, Consented!Withdraw, Consented!Confirm, Consented!vars
    <2>1. ASSUME sent' = sent PROVE [Consented!Next]_(Consented!vars)
      <3>1. dialog' # <<>> /\ dialog'[1] \in {"confirm", "apply"} => dialog'[2] \in Operations
        BY <1>2 DEF TypeOK
      <3>2. QED
        BY <2>1, <3>1
    <2>2. CASE Looks \/ UNCHANGED vars
      BY <1>2, <2>1, <2>2, TypeLooks DEF vars
    <2>3. CASE Press
      <3>1. sent' = sent
        BY <2>3 DEF Press, Launch
      <3>2. QED
        BY <2>1, <3>1
    <2>4. CASE TypePassword \/ ConfirmForm \/ Cancel \/ Escape \/ Land
      BY <2>1, <2>4 DEF TypePassword, ConfirmForm, Cancel, Escape, Land
    <2>5. CASE Confirm
      <3>1. /\ dialog # <<>> /\ dialog[1] \in {"confirm", "apply"} /\ dialog' = <<>>
            /\ sent' = sent \/ sent' = Append(sent, dialog[2])
        BY <2>5 DEF Confirm, Launch
      <3>2. CASE sent' = Append(sent, dialog[2])
        <4>1. dialog[2] # Nothing
          BY <1>2, <3>1, NamesAssumption DEF TypeOK
        <4>2. sent' # <<>> /\ sent'[Len(sent')] = dialog[2] /\ Len(sent') = Len(sent) + 1
          BY <1>2, <3>2 DEF TypeOK
        <4>3. QED
          BY <3>1, <4>1, <4>2
      <3>3. QED
        BY <2>1, <3>1, <3>2
    <2>6. QED
      BY <1>2, <2>2, <2>3, <2>4, <2>5 DEF Next, Looks
  <1>3. QED
    BY <1>1, <1>2, TypeCorrect, PTL DEF Spec, KeepsConsent, Consented!Spec
=============================================================================
