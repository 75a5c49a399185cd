------------------------ MODULE PageDocumentsProofs ------------------------
(***************************************************************************)
(* Proofs about the documents of the page, for any modems and targets, any *)
(* number of chains of reads under way at once, and any events.            *)
(***************************************************************************)
EXTENDS PageDocuments, FiniteSetTheorems, TLAPS

RouterType ==
    [attached : SUBSET ModemSet, generation : Nat, engine : {"idle", "busy"},
     modemBusy : SUBSET ModemSet, version : Nat]
UsedType ==
    [events : Nat, failed : BOOLEAN, early : BOOLEAN, elsewhere : BOOLEAN, overlap : BOOLEAN]

\* The conjuncts of TypeOK.
Pages ==
    /\ screen \in [cards : SUBSET Cards, statuses : [DOMAIN screen.statuses -> Versions],
                   route : RouteType]
    /\ disabled \subseteq screen.cards \cup {Router}
    /\ settings \in {"none", "building", "built"}
    /\ flags \in FlagType /\ flags.actionPollCount < PollLimit
RouterOK == router \in RouterType /\ (router.modemBusy = {} \/ router.engine = "idle")
RouteOK == route \in RouteType /\ route.subject \in buildSubjects(documents) \cup {None}
DialogOK == dialog \in {None} \cup Operations
            /\ launch \in {None} \cup ({"sent", "served"} \X Operations)
Reads == DOMAIN chain = Chains /\ (\A c \in Chains : ChainOK(c)) /\ used \in UsedType
-----------------------------------------------------------------------------
(* Documents.                                                              *)

LEMMA EmptyOK == DocumentOK(emptyDocuments)
  <1>1. <<>> \in Seq(TargetSet) /\ <<>> \in [{} -> Versions]
    OBVIOUS
  <1>2. None \in Actions
    BY DEF Actions
  <1>3. QED
    BY <1>1, <1>2 DEF DocumentOK, emptyDocuments

\* One document answered, another kept.
LEMMA Replaced ==
  ASSUME NEW d, DocumentOK(d)
  PROVE  /\ \A v \in Seq(TargetSet) : DocumentOK([d EXCEPT !.targets = v])
         /\ \A v \in SUBSET ModemSet : DocumentOK([d EXCEPT !.modems = v])
         /\ \A v \in SUBSET ModemSet : DocumentOK([d EXCEPT !.busyModems = v])
         /\ \A v \in Actions : DocumentOK([d EXCEPT !.action = v])
         /\ DocumentOK([d EXCEPT !.routerRead = TRUE])
         /\ \A v \in SUBSET TargetSet : \A s \in [v -> Versions] :
               DocumentOK([d EXCEPT !.statusRead = v, !.statuses = s])
  BY Zenon DEF DocumentOK

LEMMA AnsweredOK ==
  ASSUME router \in RouterType, NEW d, DocumentOK(d), NEW at, NEW todo, NEW fail \in BOOLEAN,
         at = "status" => todo \in Seq(TargetSet) \ {<<>>}
  PROVE  /\ DocumentOK(Answered(d, at, todo, fail))
         /\ at = "status" => Head(todo) \in Answered(d, at, todo, fail).statusRead
  <1>1. CASE at = "inventory"
    <2>1. (IF fail THEN {} ELSE router.attached) \in SUBSET ModemSet
      BY DEF RouterType
    <2>2. QED
      BY <1>1, <2>1, Replaced DEF Answered
  <1>2. CASE at = "operation"
    <2>1. (d.busyModems \cup ({Head(todo)} \cap router.modemBusy)) \in SUBSET ModemSet
      BY DEF RouterType, DocumentOK
    <2>2. QED
      BY <1>2, <2>1, Replaced DEF Answered
  <1>3. CASE at = "action"
    <2>1. (IF fail THEN <<"error", 0>> ELSE <<router.engine, router.version>>) \in Actions
      BY DEF RouterType, Actions
    <2>2. QED
      BY <1>3, <2>1, Replaced DEF Answered
  <1>4. CASE at = "status"
    <2> DEFINE h == Head(todo)
               v == d.statusRead \cup {h}
               s == [t \in v |-> IF t # h THEN d.statuses[t] ELSE IF fail THEN Failed ELSE router.version]
    <2>1. h \in TargetSet
      BY <1>4
    <2>2. v \in SUBSET TargetSet /\ DOMAIN d.statuses = d.statusRead
      BY <2>1 DEF DocumentOK
    <2>3. d.statuses \in [d.statusRead -> Versions] /\ router.version \in Versions
          /\ Failed \in Versions
      BY DEF DocumentOK, RouterType, Versions
    <2>4. s \in [v -> Versions]
      BY <2>3
    <2>5. Answered(d, at, todo, fail) = [d EXCEPT !.statusRead = v, !.statuses = s]
      BY <1>4, <2>2 DEF Answered
    <2>6. [d EXCEPT !.statusRead = v, !.statuses = s].statusRead = v
      BY DEF DocumentOK
    <2>7. DocumentOK([d EXCEPT !.statusRead = v, !.statuses = s])
      BY <2>2, <2>4, Replaced
    <2>8. QED
      BY <2>5, <2>6, <2>7
  <1>5. CASE at \notin {"inventory", "operation", "action", "status"}
    BY <1>5 DEF Answered
  <1>6. QED
    BY <1>1, <1>2, <1>3, <1>4, <1>5

LEMMA Subjects == ASSUME NEW d, DocumentOK(d) PROVE buildSubjects(d) \subseteq Cards
  BY DEF DocumentOK, buildSubjects, Cards

\* The open card is one of the subjects.
LEMMA NormaliseOK ==
  ASSUME NEW r \in RouteType, NEW S \in SUBSET Cards
  PROVE  normaliseRoute(r, S) \in RouteType /\ normaliseRoute(r, S).subject \in S \cup {None}
  <1> DEFINE s == IF r.subject \in S THEN r.subject
                  ELSE IF r.area = "overview" /\ Cardinality(S) = 1
                    THEN CHOOSE x \in S : TRUE ELSE None
  <1>1. s \in S \cup {None}
    <2>1. Cardinality(S) = 1 => S # {}
      BY FS_EmptySet
    <2>2. QED
      BY <2>1
  <1>2. normaliseRoute(r, S) = [r EXCEPT !.subject = s]
    BY DEF normaliseRoute
  <1> HIDE DEF s
  <1>3. [r EXCEPT !.subject = s] \in RouteType /\ [r EXCEPT !.subject = s].subject = s
    BY <1>1 DEF RouteType
  <1>4. QED
    BY <1>1, <1>2, <1>3
-----------------------------------------------------------------------------
(* Drawing.                                                                *)

\* One flag set, another kept.
LEMMA FlagSet ==
  ASSUME NEW f \in FlagType
  PROVE  /\ \A v \in BOOLEAN : [f EXCEPT !.engineBusy = v] \in FlagType
         /\ \A v \in BOOLEAN : [f EXCEPT !.actionPollPending = v] \in FlagType
         /\ \A v \in Nat : [f EXCEPT !.actionPollCount = v] \in FlagType
         /\ \A v \in BOOLEAN : [f EXCEPT !.modemPollPending = v] \in FlagType
         /\ \A v \in BOOLEAN : [f EXCEPT !.userEditing = v] \in FlagType
         /\ \A v \in Actions : [f EXCEPT !.actionRendered = v] \in FlagType
         /\ \A v \in Nat : [f EXCEPT !.hardwareGeneration = v] \in FlagType
         /\ \A v \in {"never", "now", "before"} : [f EXCEPT !.withheld = v] \in FlagType
  BY Zenon DEF FlagType

LEMMA RenderOK ==
  ASSUME Pages, NEW d, DocumentOK(d), NEW r \in RouteType,
         NEW f \in FlagType, f.actionPollCount < PollLimit,
         renderRoute(d, r, f)
  PROVE  Pages'
  <1>1. flags' \in FlagType /\ flags'.actionPollCount < PollLimit
    <2> DEFINE w == IF f.withheld = "never" THEN f.withheld ELSE "before"
    <2>1. ActionBusy(d.action) \in BOOLEAN /\ w \in {"never", "now", "before"}
      BY DEF ActionBusy, FlagType
    <2>2. flags' = [f EXCEPT !.engineBusy = ActionBusy(d.action), !.withheld = w]
      BY DEF renderRoute
    <2> HIDE DEF w
    <2>3. flags' \in FlagType
      BY <2>1, <2>2, Zenon DEF FlagType
    <2>4. flags'.actionPollCount = f.actionPollCount
      BY <2>2 DEF FlagType
    <2>5. QED
      BY <2>3, <2>4
  <1>2. CASE r.area = "overview"
    <2>1. screen' = Screen(d, r) /\ disabled' = BusyControls(d, ActionBusy(d.action))
          /\ settings' = settings
      BY <1>2 DEF renderRoute
    <2>2. screen'.cards = buildSubjects(d) /\ screen'.statuses = d.statuses
      BY <2>1 DEF Screen
    <2>3. d.statuses \in [DOMAIN d.statuses -> Versions]
      BY DEF DocumentOK
    <2>4. screen' \in [cards : SUBSET Cards, statuses : [DOMAIN screen'.statuses -> Versions],
                       route : RouteType]
      BY <2>1, <2>2, <2>3, Subjects DEF Screen
    <2>5. disabled' \subseteq screen'.cards \cup {Router}
      BY <2>1, <2>2 DEF BusyControls
    <2>6. QED
      BY <1>1, <2>1, <2>4, <2>5 DEF Pages
  <1>3. CASE r.area # "overview"
    <2>1. disabled' = {} /\ screen' = screen
          /\ settings' \in {"building", settings}
      BY <1>3 DEF renderRoute
    <2>2. QED
      BY <1>1, <2>1 DEF Pages
  <1>4. QED
    BY <1>2, <1>3

LEMMA RedrawOK ==
  ASSUME Pages, NEW d, DocumentOK(d), NEW r \in RouteType,
         NEW f \in FlagType, f.actionPollCount < PollLimit,
         Redraw(d, r, f)
  PROVE  Pages'
  <1>1. CASE f.userEditing
    <2>1. flags' = [f EXCEPT !.withheld = "now"] /\ UNCHANGED <<screen, disabled, settings>>
      BY <1>1 DEF Redraw
    <2>2. flags' \in FlagType
      BY <2>1, FlagSet
    <2>3. flags'.actionPollCount = f.actionPollCount
      BY <2>1 DEF FlagType
    <2>4. QED
      BY <2>1, <2>2, <2>3 DEF Pages
  <1>2. CASE ~f.userEditing
    BY <1>2, RenderOK DEF Redraw
  <1>3. QED
    BY <1>1, <1>2

-----------------------------------------------------------------------------
(* Reads.                                                                  *)

LEMMA UsedSet ==
  ASSUME NEW u \in UsedType
  PROVE  /\ \A n \in Nat : [u EXCEPT !.events = n] \in UsedType
         /\ \A b \in BOOLEAN : [u EXCEPT !.failed = b] \in UsedType
         /\ \A b \in BOOLEAN : [u EXCEPT !.early = b] \in UsedType
         /\ \A b \in BOOLEAN : [u EXCEPT !.elsewhere = b] \in UsedType
         /\ \A b \in BOOLEAN : [u EXCEPT !.overlap = b] \in UsedType
  BY Zenon DEF UsedType

LEMMA EventOK == used \in UsedType => used.events + 1 \in Nat
  BY DEF UsedType

LEMMA FailureOK == ASSUME used \in UsedType, Failure PROVE used' \in UsedType
  <1>1. [used EXCEPT !.events = used.events + 1] \in UsedType
    BY EventOK, UsedSet
  <1>2. [[used EXCEPT !.events = used.events + 1] EXCEPT !.failed = TRUE] \in UsedType
    BY <1>1, UsedSet
  <1>3. used' = [[used EXCEPT !.events = used.events + 1] EXCEPT !.failed = TRUE]
    BY DEF Failure, UsedType
  <1>4. QED
    BY <1>2, <1>3

\* One chain moves on.
LEMMA ChainMoves ==
  ASSUME Reads, NEW c \in Chains, NEW v,
         chain' = [chain EXCEPT ![c] = v],
         v.at \in {"idle", "poll", "inventory", "operation", "action", "status"},
         v.at = "poll" => c = "action", DocumentOK(v.d),
         v.at = "status" => v.todo \in Seq(TargetSet) \ {<<>>}
                            /\ Head(v.todo) \in v.d.statusRead
  PROVE  DOMAIN chain' = Chains /\ \A x \in Chains : ChainOK(x)'
  <1>1. DOMAIN chain' = Chains
    BY DEF Reads
  <1>2. ASSUME NEW x \in Chains PROVE ChainOK(x)'
    <2>1. CASE x = c
      <3>1. chain'[x] = v
        BY <2>1 DEF Reads
      <3>2. QED
        BY <3>1, <2>1 DEF ChainOK
    <2>2. CASE x # c
      <3>1. chain'[x] = chain[x] /\ ChainOK(x)
        BY <2>2 DEF Reads
      <3>2. QED
        BY <3>1 DEF ChainOK
    <2>3. QED
      BY <2>1, <2>2
  <1>3. QED
    BY <1>1, <1>2

LEMMA AskOK ==
  ASSUME Reads, router \in RouterType, NEW c \in Chains,
         NEW at \in {"operation", "action", "status"}, NEW todo, NEW d, DocumentOK(d),
         at = "status" => todo \in Seq(TargetSet) \ {<<>>},
         Ask(c, at, todo, d)
  PROVE  Reads'
  <1>1. PICK fail \in BOOLEAN :
          /\ IF fail THEN Failure ELSE UNCHANGED used
          /\ chain' = [chain EXCEPT ![c] = [at |-> at, todo |-> todo,
                                            d |-> Answered(d, at, todo, fail)]]
    BY DEF Ask
  <1>2. used' \in UsedType
    BY <1>1, FailureOK DEF Reads
  <1>3. DocumentOK(Answered(d, at, todo, fail))
        /\ (at = "status" => Head(todo) \in Answered(d, at, todo, fail).statusRead)
    BY AnsweredOK
  <1> DEFINE v == [at |-> at, todo |-> todo, d |-> Answered(d, at, todo, fail)]
  <1>4. v.at = at /\ v.todo = todo /\ v.d = Answered(d, at, todo, fail)
    OBVIOUS
  <1>5. chain' = [chain EXCEPT ![c] = v]
    BY <1>1
  <1> HIDE DEF v
  <1>6. DOMAIN chain' = Chains /\ \A x \in Chains : ChainOK(x)'
    BY <1>3, <1>4, <1>5, ChainMoves
  <1>7. QED
    BY <1>2, <1>6 DEF Reads

LEMMA EndChainOK ==
  ASSUME Reads, NEW c \in Chains, EndChain(c) PROVE Reads'
  <1>1. chain' = [chain EXCEPT ![c] = Idle] /\ Idle.at = "idle" /\ Idle.d = emptyDocuments
    BY DEF EndChain, Idle
  <1>2. DOMAIN chain' = Chains /\ \A x \in Chains : ChainOK(x)'
    BY <1>1, EmptyOK, ChainMoves
  <1>3. QED
    BY <1>2 DEF Reads, EndChain

LEMMA RefreshOK ==
  ASSUME Reads, router \in RouterType, NEW c \in Chains, Refresh(c) PROVE Reads'
  <1> DEFINE d == [emptyDocuments EXCEPT !.targets = Targets]
             others == {o \in Chains \ {c} : chain[o].at \notin {"idle", "poll"}}
  <1>1. PICK fail \in {FALSE} \cup {used.events < MaxEvents} :
          /\ used' = [used EXCEPT !.overlap = @ \/ others # {}, !.failed = @ \/ fail,
                                  !.events = @ + IF fail THEN 1 ELSE 0]
          /\ chain' = [chain EXCEPT ![c] = [at |-> "inventory", todo |-> <<>>,
                                            d |-> Answered(d, "inventory", <<>>, fail)]]
    BY DEF Refresh
  <1>0. fail \in BOOLEAN
    <2>1. (used.events < MaxEvents) \in BOOLEAN
      OBVIOUS
    <2>2. QED
      BY <2>1
  <1>2. DocumentOK(Answered(d, "inventory", <<>>, fail))
    <2>1. DocumentOK(d)
      BY EmptyOK, Replaced, PageAssumption
    <2>2. QED
      BY <1>0, <2>1, AnsweredOK
  <1>3. used' \in UsedType
    <2> DEFINE n == used.events + IF fail THEN 1 ELSE 0
               b == used.failed \/ fail
               o == used.overlap \/ others # {}
    <2>1. n \in Nat /\ b \in BOOLEAN /\ o \in BOOLEAN
      BY <1>0 DEF Reads, UsedType
    <2>2. used' = [used EXCEPT !.overlap = o, !.failed = b, !.events = n]
      BY <1>1
    <2> HIDE DEF n, b, o
    <2>3. QED
      BY <2>1, <2>2, Zenon DEF Reads, UsedType
  <1>4. DOMAIN chain' = Chains /\ \A x \in Chains : ChainOK(x)'
    <2> DEFINE v == [at |-> "inventory", todo |-> <<>>,
                     d |-> Answered(d, "inventory", <<>>, fail)]
    <2> HIDE DEF d
    <2>1. v.at = "inventory" /\ v.d = Answered(d, "inventory", <<>>, fail)
      OBVIOUS
    <2>2. chain' = [chain EXCEPT ![c] = v]
      BY <1>1
    <2> HIDE DEF v
    <2>3. QED
      BY <1>2, <2>1, <2>2, ChainMoves
  <1>5. QED
    BY <1>3, <1>4 DEF Reads
-----------------------------------------------------------------------------
(* The steps.                                                              *)

LEMMA Parts ==
    TypeOK <=> RouterOK /\ DocumentOK(documents) /\ RouteOK /\ Pages /\ Reads /\ DialogOK
  BY DEF TypeOK, RouterOK, RouterType, RouteOK, Pages, Reads, UsedType, DialogOK

LEMMA PartsNext ==
    RouterOK' /\ DocumentOK(documents)' /\ RouteOK' /\ Pages' /\ Reads' /\ DialogOK' => TypeOK'
  <1>1. (RouterOK /\ DocumentOK(documents) /\ RouteOK /\ Pages /\ Reads /\ DialogOK => TypeOK)'
    BY Parts, PTL
  <1>2. QED
    BY <1>1

LEMMA SameRouter == RouterOK /\ UNCHANGED router => RouterOK'
  BY DEF RouterOK
LEMMA SameDialog == DialogOK /\ UNCHANGED <<dialog, launch>> => DialogOK'
  BY DEF DialogOK
LEMMA SamePage ==
    DocumentOK(documents) /\ RouteOK /\ Pages /\ UNCHANGED page
      => DocumentOK(documents)' /\ RouteOK' /\ Pages'
  BY DEF page, DocumentOK, RouteOK, Pages, buildSubjects
LEMMA SameReads == Reads /\ UNCHANGED <<chain, used>> => Reads'
  BY DEF Reads, ChainOK
LEMMA SameChains == Reads /\ UNCHANGED chain /\ used' \in UsedType => Reads'
  BY DEF Reads, ChainOK

LEMMA ReadNextType ==
  ASSUME TypeOK, NEW c \in Chains, ReadNext(c) PROVE TypeOK'
  <1> DEFINE d == chain[c].d
             rest == IF chain[c].at = "inventory" THEN InOrder(d.modems) ELSE Tail(chain[c].todo)
  <1> USE Parts
  <1>1. /\ IF rest = <<>> THEN Ask(c, "action", <<>>, d) ELSE Ask(c, "operation", rest, d)
        /\ UNCHANGED <<router, page, dialog, launch>>
    BY DEF ReadNext
  <1>2. DocumentOK(d)
    BY DEF Reads, ChainOK
  <1> HIDE DEF d, rest
  <1>3. Reads'
    BY <1>1, <1>2, AskOK DEF RouterOK
  <1>4. QED
    BY <1>1, <1>3, SameRouter, SameDialog, SamePage, PartsNext

LEMMA InstallType ==
  ASSUME TypeOK, NEW c \in Chains, NEW d, DocumentOK(d), Install(c, d),
         UNCHANGED <<router, dialog, launch>>
  PROVE  TypeOK'
  <1> DEFINE n == [d EXCEPT !.routerRead = TRUE]
             f == [flags EXCEPT !.modemPollPending = Following(d)]
             r == normaliseRoute(route, buildSubjects(d))
  <1> USE Parts
  <1>1. documents' = n /\ route' = r /\ Redraw(n, r, f) /\ EndChain(c)
    BY DEF Install
  <1>2. DocumentOK(n) /\ buildSubjects(n) = buildSubjects(d)
    <2>1. n.modems = d.modems /\ n.targets = d.targets
      BY DEF DocumentOK
    <2>2. QED
      BY <2>1, Replaced DEF buildSubjects
  <1>3. r \in RouteType /\ r.subject \in buildSubjects(d) \cup {None}
    BY Subjects, NormaliseOK DEF RouteOK
  <1>4. f \in FlagType /\ f.actionPollCount < PollLimit
    <2>1. Following(d) \in BOOLEAN
      BY DEF Following
    <2>2. f \in FlagType
      BY <2>1, FlagSet DEF Pages
    <2>3. f.actionPollCount = flags.actionPollCount
      BY DEF Pages, FlagType
    <2>4. QED
      BY <2>2, <2>3 DEF Pages
  <1> HIDE DEF n, r, f
  <1>5. Pages'
    BY <1>1, <1>2, <1>3, <1>4, RedrawOK
  <1>6. DocumentOK(documents)' /\ RouteOK'
    <2>1. DocumentOK(documents')
      BY <1>1, <1>2
    <2>2. route' \in RouteType /\ route'.subject \in buildSubjects(documents') \cup {None}
      BY <1>1, <1>2, <1>3
    <2>3. QED
      BY <2>1, <2>2 DEF DocumentOK, RouteOK, buildSubjects
  <1>7. QED
    BY <1>1, <1>5, <1>6, EndChainOK, SameRouter, SameDialog, PartsNext

LEMMA RefreshStatusType ==
  ASSUME TypeOK, NEW c \in Chains, RefreshStatus(c) PROVE TypeOK'
  <1> DEFINE d == chain[c].d
             rest == IF chain[c].at = "action" THEN d.targets ELSE Tail(chain[c].todo)
  <1> USE Parts
  <1>1. /\ chain[c].at \in {"action", "status"}
        /\ IF rest = <<>> THEN Install(c, d)
           ELSE Ask(c, "status", rest, d) /\ UNCHANGED page
        /\ UNCHANGED <<router, dialog, launch>>
    BY DEF RefreshStatus
  <1>2. DocumentOK(d)
    BY DEF Reads, ChainOK
  <1>3. rest \in Seq(TargetSet)
    <2>1. CASE chain[c].at = "action"
      BY <2>1, <1>2 DEF DocumentOK
    <2>2. CASE chain[c].at = "status"
      <3>1. chain[c].todo \in Seq(TargetSet) \ {<<>>}
        BY <2>2 DEF Reads, ChainOK
      <3>2. QED
        BY <2>2, <3>1
    <2>3. QED
      BY <1>1, <2>1, <2>2
  <1> HIDE DEF d, rest
  <1>4. CASE rest = <<>>
    BY <1>1, <1>2, <1>4, InstallType
  <1>5. CASE rest # <<>>
    <2>1. Reads'
      BY <1>1, <1>2, <1>3, <1>5, AskOK DEF RouterOK
    <2>2. QED
      BY <1>1, <1>5, <2>1, SameRouter, SameDialog, SamePage, PartsNext
  <1>6. QED
    BY <1>4, <1>5
\* What a page drawn again needs of the documents and the route it is drawn from.
LEMMA PageType ==
  ASSUME DocumentOK(documents'), route' \in RouteType,
         route'.subject \in buildSubjects(documents') \cup {None}
  PROVE  DocumentOK(documents)' /\ RouteOK'
  BY DEF DocumentOK, RouteOK, buildSubjects

LEMMA FillRouterType == ASSUME TypeOK, FillRouter PROVE TypeOK'
  <1> DEFINE d == chain["fill"].d
             n == [documents EXCEPT !.targets = d.targets, !.modems = d.modems,
                                    !.busyModems = d.busyModems, !.action = d.action,
                                    !.routerRead = TRUE]
             f == [flags EXCEPT !.actionRendered = d.action, !.engineBusy = ActionBusy(d.action),
                                !.modemPollPending = Following(d)]
             r == normaliseRoute(route, buildSubjects(n))
  <1> USE Parts
  <1>1. /\ documents' = n /\ route' = r /\ Redraw(n, r, f)
        /\ IF d.targets = <<>> THEN EndChain("fill")
           ELSE Ask("fill", "status", d.targets, emptyDocuments)
        /\ UNCHANGED <<router, dialog, launch>>
    BY DEF FillRouter
  <1>2. DocumentOK(d) /\ "fill" \in Chains
    BY DEF Reads, ChainOK, Chains
  <1>3. d.targets \in Seq(TargetSet) /\ d.modems \in SUBSET ModemSet
        /\ d.busyModems \in SUBSET ModemSet /\ d.action \in Actions
    BY <1>2 DEF DocumentOK
  <1>4. DocumentOK(n)
    BY <1>3, Zenon DEF DocumentOK
  <1>5. f \in FlagType /\ f.actionPollCount < PollLimit
    <2>1. Following(d) \in BOOLEAN /\ ActionBusy(d.action) \in BOOLEAN
      BY DEF Following, ActionBusy
    <2>2. f \in FlagType
      BY <1>3, <2>1, Zenon DEF Pages, FlagType
    <2>3. f.actionPollCount = flags.actionPollCount
      BY DEF Pages, FlagType
    <2>4. QED
      BY <2>2, <2>3 DEF Pages
  <1> HIDE DEF d, n, f
  <1>6. r \in RouteType /\ r.subject \in buildSubjects(n) \cup {None}
    BY <1>4, Subjects, NormaliseOK DEF RouteOK
  <1> HIDE DEF r
  <1>7. Pages'
    BY <1>1, <1>4, <1>5, <1>6, RedrawOK
  <1>8. DocumentOK(documents)' /\ RouteOK'
    BY <1>1, <1>4, <1>6, PageType
  <1>9. Reads'
    BY <1>1, <1>2, <1>3, EmptyOK, EndChainOK, AskOK DEF RouterOK
  <1>10. QED
    BY <1>1, <1>7, <1>8, <1>9, SameRouter, SameDialog, PartsNext

LEMMA FillStatusType == ASSUME TypeOK, FillStatus PROVE TypeOK'
  <1> DEFINE id == Head(chain["fill"].todo)
             rest == Tail(chain["fill"].todo)
             v == documents.statusRead \cup {id}
             s == [t \in v |-> IF t = id THEN chain["fill"].d.statuses[id]
                               ELSE documents.statuses[t]]
             n == [documents EXCEPT !.statusRead = v, !.statuses = s]
  <1> USE Parts
  <1>1. /\ documents' = n /\ Redraw(n, route, flags) /\ UNCHANGED route
        /\ IF rest = <<>> THEN EndChain("fill") ELSE Ask("fill", "status", rest, emptyDocuments)
        /\ UNCHANGED <<router, dialog, launch>>
    <2>1. DOMAIN documents.statuses = documents.statusRead
      BY DEF DocumentOK
    <2>2. QED
      BY <2>1 DEF FillStatus
  <1>2. /\ DocumentOK(chain["fill"].d) /\ "fill" \in Chains
        /\ chain["fill"].todo \in Seq(TargetSet) \ {<<>>}
        /\ id \in chain["fill"].d.statusRead
    BY DEF Reads, ChainOK, Chains, FillStatus
  <1>3. id \in TargetSet /\ rest \in Seq(TargetSet) /\ chain["fill"].d.statuses[id] \in Versions
    BY <1>2 DEF DocumentOK
  <1>4. v \in SUBSET TargetSet /\ s \in [v -> Versions]
    BY <1>3 DEF DocumentOK
  <1>5. n.modems = documents.modems /\ n.targets = documents.targets
    BY DEF DocumentOK
  <1> HIDE DEF id, rest, v, s
  <1>6. DocumentOK(n) /\ buildSubjects(n) = buildSubjects(documents)
    BY <1>4, <1>5, Replaced DEF buildSubjects
  <1> HIDE DEF n
  <1>7. Pages'
    BY <1>1, <1>6, RedrawOK DEF RouteOK, Pages
  <1>8. DocumentOK(documents)' /\ RouteOK'
    BY <1>1, <1>6, PageType DEF RouteOK
  <1>9. Reads'
    BY <1>1, <1>2, <1>3, EmptyOK, EndChainOK, AskOK DEF RouterOK
  <1>10. QED
    BY <1>1, <1>7, <1>8, <1>9, SameRouter, SameDialog, PartsNext

LEMMA PollActionType == ASSUME TypeOK, PollAction PROVE TypeOK'
  <1> DEFINE v == [at |-> "poll", todo |-> <<>>,
                   d |-> Answered(emptyDocuments, "action", <<>>, FALSE)]
  <1> USE Parts
  <1>1. chain' = [chain EXCEPT !["action"] = v] /\ UNCHANGED <<router, page, dialog, launch, used>>
    BY DEF PollAction
  <1>2. v.at = "poll" /\ v.d = Answered(emptyDocuments, "action", <<>>, FALSE)
    OBVIOUS
  <1>3. DocumentOK(v.d)
    BY <1>2, EmptyOK, AnsweredOK DEF RouterOK
  <1> HIDE DEF v
  <1>4. DOMAIN chain' = Chains /\ \A x \in Chains : ChainOK(x)'
    BY <1>1, <1>2, <1>3, ChainMoves DEF Chains
  <1>5. Reads'
    BY <1>1, <1>4 DEF Reads
  <1>6. QED
    BY <1>1, <1>5, SameRouter, SameDialog, SamePage, PartsNext

LEMMA PollModemType == ASSUME TypeOK, PollModem PROVE TypeOK'
  <1>1. Reads'
    BY Parts, RefreshOK DEF PollModem, Chains, RouterOK
  <1>2. QED
    BY <1>1, Parts, SameRouter, SameDialog, SamePage, PartsNext DEF PollModem
LEMMA LandActionType == ASSUME TypeOK, LandAction PROVE TypeOK'
  <1> DEFINE action == chain["action"].d.action
             busy == ActionBusy(action)
             ended == flags.engineBusy /\ ~busy
             counted == IF ~ended /\ ~busy /\ flags.actionPollPending
                          THEN flags.actionPollCount + 1 ELSE flags.actionPollCount
             waited == ~ended /\ counted # flags.actionPollCount /\ WaitedEnough(counted)
             pending == flags.actionPollPending /\ ~ended /\ ~waited
             count == IF waited THEN 0 ELSE counted
             landed == [flags EXCEPT !.engineBusy = busy, !.actionRendered = action,
                                     !.actionPollPending = pending, !.actionPollCount = count]
             n == [documents EXCEPT !.action = action]
  <1> USE Parts
  <1>1. /\ documents' = n
        /\ IF ended \/ waited
             THEN /\ flags' = landed /\ Refresh("action")
                  /\ UNCHANGED <<screen, disabled, settings>>
             ELSE /\ EndChain("action")
                  /\ IF action # flags.actionRendered THEN Redraw(documents', route, landed)
                     ELSE flags' = landed /\ UNCHANGED <<screen, disabled, settings>>
        /\ UNCHANGED <<router, route, dialog, launch>>
    BY DEF LandAction
  <1>2. "action" \in Chains /\ action \in Actions
    BY DEF Reads, ChainOK, Chains, DocumentOK
  <1>3. landed \in FlagType /\ landed.actionPollCount < PollLimit
    <2>1. flags.actionPollCount \in Nat /\ flags.actionPollCount < PollLimit
          /\ flags.engineBusy \in BOOLEAN /\ flags.actionPollPending \in BOOLEAN
      BY DEF Pages, FlagType
    <2>2. count \in Nat /\ count < PollLimit
      BY <2>1, PageAssumption DEF WaitedEnough
    <2>3. busy \in BOOLEAN /\ pending \in BOOLEAN
      BY <2>1 DEF ActionBusy
    <2>4. landed.actionPollCount = count
      BY DEF Pages, FlagType
    <2> HIDE DEF busy, pending, count, action
    <2>5. landed \in FlagType
      BY <1>2, <2>2, <2>3, Zenon DEF Pages, FlagType
    <2>6. QED
      BY <2>2, <2>4, <2>5
  <1>4. n.modems = documents.modems /\ n.targets = documents.targets
    BY DEF DocumentOK
  <1> HIDE DEF action, busy, ended, counted, waited, pending, count, landed
  <1>5. DocumentOK(n) /\ buildSubjects(n) = buildSubjects(documents)
    BY <1>2, <1>4, Replaced DEF buildSubjects
  <1> HIDE DEF n
  <1>6. DocumentOK(documents)' /\ RouteOK'
    BY <1>1, <1>5, PageType DEF RouteOK
  <1>7. Reads'
    BY <1>1, <1>2, RefreshOK, EndChainOK DEF RouterOK
  <1>8. Pages'
    <2>1. CASE flags' = landed /\ UNCHANGED <<screen, disabled, settings>>
      BY <2>1, <1>3 DEF Pages
    <2>2. CASE Redraw(documents', route, landed)
      BY <2>2, <1>1, <1>3, <1>5, RedrawOK DEF RouteOK
    <2>3. QED
      BY <1>1, <2>1, <2>2
  <1>9. QED
    BY <1>1, <1>6, <1>7, <1>8, SameRouter, SameDialog, PartsNext

LEMMA PollGenerationType == ASSUME TypeOK, PollGeneration PROVE TypeOK'
  <1> USE Parts
  <1>1. flags' = [flags EXCEPT !.hardwareGeneration = router.generation]
        /\ UNCHANGED <<router, documents, route, screen, disabled, settings, dialog, launch>>
    BY DEF PollGeneration
  <1>2. flags' \in FlagType /\ flags'.actionPollCount = flags.actionPollCount
    <2>1. router.generation \in Nat
      BY DEF RouterOK, RouterType
    <2>2. flags' \in FlagType
      BY <1>1, <2>1, FlagSet DEF Pages
    <2>3. QED
      BY <1>1, <2>2 DEF Pages, FlagType
  <1>3. Pages'
    BY <1>1, <1>2 DEF Pages
  <1>4. DocumentOK(documents)' /\ RouteOK'
    BY <1>1, PageType DEF RouteOK
  <1>5. Reads'
    BY SameReads, RefreshOK DEF PollGeneration, Chains, RouterOK
  <1>6. QED
    BY <1>1, <1>3, <1>4, <1>5, SameRouter, SameDialog, PartsNext

LEMMA RequestedOK == ASSUME Reads, Requested PROVE used' \in UsedType
  BY EventOK, UsedSet DEF Reads, Requested

LEMMA NavigateType == ASSUME TypeOK, Navigate PROVE TypeOK'
  <1> USE Parts
  <1>1. PICK area \in {"overview", "settings"}, workspace \in {"connection", "apn"},
             s \in screen.cards \cup {None} :
          LET r == normaliseRoute([area |-> area, subject |-> s, workspace |-> workspace],
                                  buildSubjects(documents))
          IN  route' = r /\ renderRoute(documents, r, [flags EXCEPT !.userEditing = FALSE])
    BY DEF Navigate
  <1> DEFINE wanted == [area |-> area, subject |-> s, workspace |-> workspace]
             r == normaliseRoute(wanted, buildSubjects(documents))
             f == [flags EXCEPT !.userEditing = FALSE]
  <1>2. UNCHANGED <<router, documents, chain, dialog, launch>> /\ Requested
    BY DEF Navigate
  <1>3. wanted \in RouteType
    <2>1. s \in Cards \cup {None}
      BY DEF Pages
    <2>2. QED
      BY <2>1 DEF RouteType
  <1>4. f \in FlagType /\ f.actionPollCount < PollLimit
    <2>1. f \in FlagType
      BY FlagSet DEF Pages
    <2>2. f.actionPollCount = flags.actionPollCount
      BY DEF Pages, FlagType
    <2>3. QED
      BY <2>1, <2>2 DEF Pages
  <1>5. route' = r /\ renderRoute(documents, r, f)
    BY <1>1
  <1> HIDE DEF wanted, f
  <1>6. r \in RouteType /\ r.subject \in buildSubjects(documents) \cup {None}
    BY <1>3, Subjects, NormaliseOK
  <1> HIDE DEF r
  <1>7. Pages'
    BY <1>4, <1>5, <1>6, RenderOK
  <1>8. DocumentOK(documents)' /\ RouteOK'
    BY <1>2, <1>5, <1>6, PageType
  <1>9. Reads'
    BY <1>2, RequestedOK, SameChains
  <1>10. QED
    BY <1>2, <1>7, <1>8, <1>9, SameRouter, SameDialog, PartsNext

LEMMA EditPolicyType == ASSUME TypeOK, EditPolicy PROVE TypeOK'
  <1> USE Parts
  <1>1. /\ flags' = [flags EXCEPT !.userEditing = ~flags.userEditing] /\ Requested
        /\ UNCHANGED <<router, documents, chain, route, screen, disabled, settings, dialog, launch>>
    BY DEF EditPolicy
  <1>2. flags' \in FlagType
    BY <1>1, FlagSet, ZenonT(60) DEF Pages, FlagType
  <1>3. flags'.actionPollCount = flags.actionPollCount
    BY <1>1 DEF Pages, FlagType
  <1>4. Pages'
    BY <1>1, <1>2, <1>3 DEF Pages
  <1>5. DocumentOK(documents)' /\ RouteOK'
    BY <1>1, PageType DEF RouteOK
  <1>6. QED
    BY <1>1, <1>4, <1>5, RequestedOK, SameChains, SameRouter, SameDialog, PartsNext
LEMMA OpenConfirmationType == ASSUME TypeOK, OpenConfirmation PROVE TypeOK'
  <1> USE Parts
  <1>1. UNCHANGED <<router, page, chain, launch>> /\ Requested
    BY DEF OpenConfirmation
  <1>2. PICK x \in screen.cards \cup {Router} :
          dialog' \in {<<"engine">>} \cup (IF x[1] = "modem" THEN {x} ELSE {})
    BY DEF OpenConfirmation
  <1>3. x[1] = "modem" => x \in {"modem"} \X ModemSet
    BY DEF Pages, Cards, Router
  <1>4. DialogOK'
    BY <1>1, <1>2, <1>3 DEF DialogOK, Operations
  <1>5. QED
    BY <1>1, <1>4, RequestedOK, SameChains, SameRouter, SamePage, PartsNext

LEMMA CloseConfirmationType == ASSUME TypeOK, CloseConfirmation PROVE TypeOK'
  <1> USE Parts
  <1>1. dialog' = None /\ UNCHANGED <<router, page, chain, launch, used>>
    BY DEF CloseConfirmation
  <1>2. DialogOK'
    BY <1>1 DEF DialogOK
  <1>3. QED
    BY <1>1, <1>2, SameReads, SameRouter, SamePage, PartsNext

LEMMA ConfirmType == ASSUME TypeOK, Confirm PROVE TypeOK'
  <1> USE Parts
  <1>1. /\ dialog # None /\ launch' = <<"sent", dialog>> /\ dialog' = None /\ ControlsBusy
        /\ flags' = IF dialog[1] = "engine" THEN [flags EXCEPT !.engineBusy = TRUE] ELSE flags
        /\ UNCHANGED <<router, documents, chain, route, screen, settings, used>>
    BY DEF Confirm
  <1>2. DialogOK'
    BY <1>1 DEF DialogOK
  <1>3. flags' \in FlagType
    BY <1>1, FlagSet DEF Pages
  <1>4. flags'.actionPollCount = flags.actionPollCount
    BY <1>1 DEF Pages, FlagType
  <1>5. disabled' \subseteq screen'.cards \cup {Router}
    BY <1>1 DEF ControlsBusy
  <1>6. Pages'
    BY <1>1, <1>3, <1>4, <1>5 DEF Pages
  <1>7. DocumentOK(documents)' /\ RouteOK'
    BY <1>1, PageType DEF RouteOK
  <1>8. QED
    BY <1>1, <1>2, <1>6, <1>7, SameReads, SameRouter, PartsNext

LEMMA LandLaunchType == ASSUME TypeOK, LandLaunch PROVE TypeOK'
  <1> USE Parts
  <1>1. /\ launch' = None
        /\ flags' \in {[flags EXCEPT !.actionPollPending = TRUE],
                       [flags EXCEPT !.modemPollPending = TRUE]}
        /\ UNCHANGED <<router, documents, chain, route, screen, disabled, settings, dialog, used>>
    BY DEF LandLaunch
  <1>2. DialogOK'
    BY <1>1 DEF DialogOK
  <1>3. flags' \in FlagType
    BY <1>1, FlagSet DEF Pages
  <1>4. flags'.actionPollCount = flags.actionPollCount
    BY <1>1 DEF Pages, FlagType
  <1>5. Pages'
    BY <1>1, <1>3, <1>4 DEF Pages
  <1>6. DocumentOK(documents)' /\ RouteOK'
    BY <1>1, PageType DEF RouteOK
  <1>7. QED
    BY <1>1, <1>2, <1>5, <1>6, SameReads, SameRouter, PartsNext

LEMMA SettingsBuiltType == ASSUME TypeOK, SettingsBuilt PROVE TypeOK'
  <1> USE Parts
  <1>1. /\ settings' \in {"built", "none"}
        /\ UNCHANGED <<router, documents, chain, route, screen, disabled, flags, dialog, launch>>
    BY DEF SettingsBuilt
  <1>2. used' \in UsedType
    BY FailureOK DEF SettingsBuilt, Reads
  <1>3. Pages'
    BY <1>1 DEF Pages
  <1>4. DocumentOK(documents)' /\ RouteOK'
    BY <1>1, PageType DEF RouteOK
  <1>5. QED
    BY <1>1, <1>2, <1>3, <1>4, SameChains, SameRouter, SameDialog, PartsNext

\* One field of the router changed, another kept.
LEMMA RouterSet ==
  ASSUME NEW r \in RouterType
  PROVE  /\ \A e \in {"idle", "busy"} : [r EXCEPT !.engine = e] \in RouterType
         /\ \A S \in SUBSET ModemSet : [r EXCEPT !.modemBusy = S] \in RouterType
         /\ \A n \in Nat, S \in SUBSET ModemSet :
               [r EXCEPT !.generation = n, !.attached = S] \in RouterType
         /\ \A n \in Nat :
               [r EXCEPT !.engine = "idle", !.modemBusy = {}, !.version = n] \in RouterType
  BY Zenon DEF RouterType

LEMMA PlugType == ASSUME TypeOK, Plug PROVE TypeOK'
  <1> USE Parts
  <1>1. PICK m \in ModemSet :
          router' = [router EXCEPT !.generation = @ + 1,
                         !.attached = IF m \in @ THEN @ \ {m} ELSE @ \cup {m}]
    BY DEF Plug
  <1> DEFINE n == router.generation + 1
             S == IF m \in router.attached THEN router.attached \ {m}
                  ELSE router.attached \cup {m}
             e == used.early \/ chain["fill"].at # "idle" \/ flags.hardwareGeneration = Undefined
  <1>2. n \in Nat /\ S \in SUBSET ModemSet
    BY DEF RouterOK, RouterType
  <1>3. router' = [router EXCEPT !.generation = n, !.attached = S]
    BY <1>1
  <1>4. router'.modemBusy = router.modemBusy /\ router'.engine = router.engine
    BY <1>3 DEF RouterOK, RouterType
  <1>5. used' \in UsedType
    <2>1. e \in BOOLEAN
      BY DEF Reads, UsedType
    <2>2. used' = [used EXCEPT !.events = used.events + 1, !.early = e]
      BY DEF Plug
    <2> HIDE DEF e
    <2>3. QED
      BY <2>1, <2>2, EventOK, Zenon DEF Reads, UsedType
  <1>6. UNCHANGED <<page, chain, dialog, launch>>
    BY DEF Plug
  <1> HIDE DEF n, S
  <1>7. RouterOK'
    BY <1>2, <1>3, <1>4, RouterSet DEF RouterOK
  <1>8. QED
    BY <1>5, <1>6, <1>7, SameChains, SameDialog, SamePage, PartsNext

LEMMA BeginOK ==
  ASSUME RouterOK, NEW o \in Operations, Free, Begin(o) PROVE RouterOK'
  <1>1. CASE o = <<"engine">>
    <2>1. router' = [router EXCEPT !.engine = "busy"]
      BY <1>1 DEF Begin
    <2>2. router'.modemBusy = {}
      BY <2>1 DEF RouterOK, RouterType, Free
    <2>3. QED
      BY <2>1, <2>2, RouterSet DEF RouterOK
  <1>2. CASE o \in {"modem"} \X ModemSet
    <2>1. router' = [router EXCEPT !.modemBusy = {o[2]}] /\ {o[2]} \in SUBSET ModemSet
      BY <1>2 DEF Begin
    <2>2. router'.engine = "idle"
      BY <2>1 DEF RouterOK, RouterType, Free
    <2>3. QED
      BY <2>1, <2>2, RouterSet DEF RouterOK
  <1>3. QED
    BY <1>1, <1>2 DEF Operations

LEMMA ServeType == ASSUME TypeOK, Serve PROVE TypeOK'
  <1> USE Parts
  <1>1. launch \in {"sent", "served"} \X Operations /\ launch' = <<"served", launch[2]>>
        /\ UNCHANGED <<page, chain, dialog>>
    BY DEF Serve, DialogOK
  <1>2. DialogOK'
    BY <1>1 DEF DialogOK
  <1>3. RouterOK' /\ used' \in UsedType
    BY <1>1, BeginOK, SameRouter, FailureOK DEF Serve, Reads
  <1>4. QED
    BY <1>1, <1>2, <1>3, SameChains, SamePage, PartsNext

LEMMA BeginElsewhereType == ASSUME TypeOK, BeginElsewhere PROVE TypeOK'
  <1> USE Parts
  <1>1. PICK o \in {<<"engine">>} \cup {<<"modem", m>> : m \in router.attached} : Begin(o)
    BY DEF BeginElsewhere
  <1>2. o \in Operations
    BY DEF Operations, RouterOK, RouterType
  <1>3. RouterOK'
    BY <1>1, <1>2, BeginOK DEF BeginElsewhere
  <1>4. used' \in UsedType
    <2>1. used' = [used EXCEPT !.events = used.events + 1, !.elsewhere = TRUE]
      BY DEF BeginElsewhere
    <2>2. QED
      BY <2>1, EventOK, Zenon DEF Reads, UsedType
  <1>5. QED
    BY <1>3, <1>4, SameChains, SameDialog, SamePage, PartsNext DEF BeginElsewhere

LEMMA EndType == ASSUME TypeOK, End PROVE TypeOK'
  <1> USE Parts
  <1> DEFINE n == IF router.engine = "busy" THEN router.version + 1 ELSE router.version
  <1>1. router' = [router EXCEPT !.engine = "idle", !.modemBusy = {}, !.version = n]
    BY DEF End
  <1>2. n \in Nat
    BY DEF RouterOK, RouterType
  <1> HIDE DEF n
  <1>3. router'.engine = "idle"
    BY <1>1 DEF RouterOK, RouterType
  <1>4. RouterOK'
    BY <1>1, <1>2, <1>3, RouterSet DEF RouterOK
  <1>5. QED
    BY <1>4, SameReads, SameDialog, SamePage, PartsNext DEF End

LEMMA TypeInit == Init => TypeOK
  <1> SUFFICES ASSUME Init PROVE TypeOK
    OBVIOUS
  <1> USE PageAssumption DEF Init
  <1>1. RouterOK
    BY DEF RouterOK, RouterType
  <1>2. DocumentOK(documents)
    BY EmptyOK
  <1>3. RouteOK
    BY DEF RouteOK, RouteType
  <1>4. Pages
    <2>1. Screen(emptyDocuments, route) \in [cards : SUBSET Cards,
            statuses : [DOMAIN emptyDocuments.statuses -> Versions], route : RouteType]
      BY <1>2, <1>3, Subjects DEF Screen, RouteOK, DocumentOK
    <2>2. screen.statuses = emptyDocuments.statuses
      BY DEF Screen
    <2>3. flags \in FlagType /\ flags.actionPollCount < PollLimit
      BY DEF FlagType, Actions, Undefined
    <2>4. QED
      BY <2>1, <2>2, <2>3 DEF Pages
  <1>5. Reads
    <2> DEFINE d == [emptyDocuments EXCEPT !.targets = Targets, !.modems = Attached]
    <2>1. DocumentOK(d)
      BY EmptyOK, Zenon DEF DocumentOK
    <2> HIDE DEF d
    <2>2. DOMAIN chain = Chains
      BY DEF d
    <2>3. ASSUME NEW c \in Chains PROVE ChainOK(c)
      <3>1. CASE c = "fill"
        <4>1. chain[c] = [at |-> "inventory", todo |-> <<>>, d |-> d]
          BY <3>1 DEF d, Chains
        <4>2. QED
          BY <4>1, <2>1 DEF ChainOK
      <3>2. CASE c # "fill"
        <4>1. chain[c] = Idle
          BY <3>2 DEF d, Chains
        <4>2. QED
          BY <4>1, EmptyOK DEF ChainOK, Idle
      <3>3. QED
        BY <3>1, <3>2
    <2>4. QED
      BY <2>2, <2>3 DEF Reads, UsedType
  <1>6. DialogOK
    BY DEF DialogOK
  <1>7. QED
    BY <1>1, <1>2, <1>3, <1>4, <1>5, <1>6, Parts

LEMMA TypeStep == TypeOK /\ [Next]_vars => TypeOK'
  <1> SUFFICES ASSUME TypeOK, [Next]_vars PROVE TypeOK'
    OBVIOUS
  <1>1. ASSUME NEW c \in Chains, Read(c) PROVE TypeOK'
    BY <1>1, ReadNextType, RefreshStatusType DEF Read
  <1>2. CASE FillRouter \/ FillStatus
    BY <1>2, FillRouterType, FillStatusType
  <1>3. CASE PollAction \/ LandAction \/ PollModem \/ PollGeneration
    BY <1>3, PollActionType, LandActionType, PollModemType, PollGenerationType
  <1>4. CASE Navigate \/ EditPolicy \/ OpenConfirmation \/ CloseConfirmation \/ Confirm
    BY <1>4, NavigateType, EditPolicyType, OpenConfirmationType, CloseConfirmationType, ConfirmType
  <1>5. CASE LandLaunch \/ SettingsBuilt
    BY <1>5, LandLaunchType, SettingsBuiltType
  <1>6. CASE Plug \/ Serve \/ BeginElsewhere \/ End
    BY <1>6, PlugType, ServeType, BeginElsewhereType, EndType
  <1>7. CASE UNCHANGED vars
    BY <1>7, Parts, SameRouter, SameDialog, SamePage, SameReads, PartsNext DEF vars
  <1>8. QED
    BY <1>1, <1>2, <1>3, <1>4, <1>5, <1>6, <1>7 DEF Next
-----------------------------------------------------------------------------
(* A form that is being edited.                                            *)

Kept ==
    /\ flags.userEditing /\ flags'.userEditing =>
         screen' = screen /\ (settings = "building" \/ settings' = settings)
    /\ settings = "built" => settings' = "built"

LEMMA RedrawKeeps ==
  ASSUME NEW d, NEW r, NEW f, Redraw(d, r, f), f.userEditing = flags.userEditing
  PROVE  Kept
  BY DEF Redraw, renderRoute, Kept

LEMMA KeptStep == TypeOK /\ [Next]_vars => Kept
  <1> SUFFICES ASSUME TypeOK, [Next]_vars PROVE Kept
    OBVIOUS
  <1>0. flags \in FlagType
    BY DEF TypeOK
  <1>1. ASSUME UNCHANGED <<screen, settings>> PROVE Kept
    BY <1>1 DEF Kept
  <1>2. CASE \E c \in Chains : Read(c)
    <2>1. PICK c \in Chains : Read(c)
      BY <1>2
    <2>2. CASE ReadNext(c)
      BY <2>2, <1>1 DEF ReadNext, page
    <2>3. CASE RefreshStatus(c) /\ UNCHANGED page
      BY <2>3, <1>1 DEF page
    <2>4. ASSUME NEW d, Install(c, d) PROVE Kept
      <3>1. [flags EXCEPT !.modemPollPending = Following(d)].userEditing = flags.userEditing
        BY <1>0 DEF FlagType
      <3>2. QED
        BY <2>4, <3>1, RedrawKeeps DEF Install
    <2>5. RefreshStatus(c) => UNCHANGED page \/ \E d : Install(c, d)
      BY DEF RefreshStatus
    <2>6. QED
      BY <2>1, <2>2, <2>3, <2>4, <2>5 DEF Read
  <1>3. CASE FillRouter
    <2> DEFINE d == chain["fill"].d
               f == [flags EXCEPT !.actionRendered = d.action, !.engineBusy = ActionBusy(d.action),
                                  !.modemPollPending = Following(d)]
    <2>1. f.userEditing = flags.userEditing
      BY <1>0 DEF FlagType
    <2>2. \E n, r : Redraw(n, r, f)
      BY <1>3 DEF FillRouter
    <2> HIDE DEF f
    <2>3. QED
      BY <2>1, <2>2, RedrawKeeps
  <1>4. CASE FillStatus
    BY <1>4, RedrawKeeps DEF FillStatus
  <1>5. CASE LandAction
    <2> DEFINE landed(a, b, p, n) ==
                 [flags EXCEPT !.engineBusy = b, !.actionRendered = a,
                               !.actionPollPending = p, !.actionPollCount = n]
    <2>1. UNCHANGED <<screen, settings>> \/ \E a, b, p, n : Redraw(documents', route, landed(a, b, p, n))
      BY <1>5 DEF LandAction
    <2>2. ASSUME NEW a, NEW b, NEW p, NEW n
          PROVE  landed(a, b, p, n).userEditing = flags.userEditing
      BY <1>0 DEF FlagType
    <2> HIDE DEF landed
    <2>3. QED
      BY <2>1, <2>2, <1>1, RedrawKeeps
  <1>6. CASE Navigate
    <2>1. flags'.userEditing = FALSE /\ (settings = "built" => settings' = "built")
      BY <1>6, <1>0 DEF Navigate, renderRoute, FlagType
    <2>2. QED
      BY <2>1 DEF Kept
  <1>7. CASE SettingsBuilt
    BY <1>7 DEF SettingsBuilt, Kept
  <1>8. CASE PollAction \/ PollModem \/ PollGeneration \/ EditPolicy \/ OpenConfirmation
             \/ CloseConfirmation \/ Confirm \/ LandLaunch
    BY <1>8, <1>1 DEF PollAction, PollModem, PollGeneration, EditPolicy, OpenConfirmation,
                      CloseConfirmation, Confirm, LandLaunch, page
  <1>9. CASE Plug \/ Serve \/ BeginElsewhere \/ End \/ UNCHANGED vars
    BY <1>9, <1>1 DEF Plug, Serve, BeginElsewhere, End, vars, page
  <1>10. QED
    BY <1>2, <1>3, <1>4, <1>5, <1>6, <1>7, <1>8, <1>9 DEF Next
-----------------------------------------------------------------------------
(* What the operators give: a read, a chain that moves, a drawing.         *)

LEMMA AnswerGives ==
  ASSUME NEW d, DocumentOK(d), NEW at, NEW todo, NEW fail \in BOOLEAN
  PROVE  LET a == Answered(d, at, todo, fail)
         IN  /\ a.targets = d.targets
             /\ a.modems = IF at # "inventory" THEN d.modems
                           ELSE IF fail THEN {} ELSE router.attached
             /\ at # "action" => a.action = d.action
             /\ at = "action" /\ ~fail => a.action = <<router.engine, router.version>>
             /\ at = "status" /\ ~fail =>
                  /\ a.statusRead = d.statusRead \cup {Head(todo)}
                  /\ a.statuses[Head(todo)] = router.version
                  /\ \A t \in d.statusRead \ {Head(todo)} : a.statuses[t] = d.statuses[t]
  <1> DEFINE a == Answered(d, at, todo, fail)
  <1>1. CASE at = "inventory"
    <2>1. a = [d EXCEPT !.modems = IF fail THEN {} ELSE router.attached]
      BY <1>1 DEF Answered
    <2> HIDE DEF a
    <2>2. a.targets = d.targets /\ a.action = d.action
          /\ a.modems = IF fail THEN {} ELSE router.attached
      BY <2>1 DEF DocumentOK
    <2>3. QED
      BY <1>1, <2>2 DEF a
  <1>2. CASE at = "operation"
    <2>1. a = IF fail THEN d
              ELSE [d EXCEPT !.busyModems = @ \cup ({Head(todo)} \cap router.modemBusy)]
      BY <1>2 DEF Answered
    <2> HIDE DEF a
    <2>2. a.targets = d.targets /\ a.action = d.action /\ a.modems = d.modems
      BY <2>1 DEF DocumentOK
    <2>3. QED
      BY <1>2, <2>2 DEF a
  <1>3. CASE at = "action"
    <2>1. a = [d EXCEPT !.action = IF fail THEN <<"error", 0>>
                                   ELSE <<router.engine, router.version>>]
      BY <1>3 DEF Answered
    <2> HIDE DEF a
    <2>2. a.targets = d.targets /\ a.modems = d.modems
          /\ a.action = IF fail THEN <<"error", 0>> ELSE <<router.engine, router.version>>
      BY <2>1 DEF DocumentOK
    <2>3. QED
      BY <1>3, <2>2 DEF a
  <1>4. CASE at = "status"
    <2> DEFINE h == Head(todo)
               s == [t \in d.statusRead \cup {h} |->
                       IF t # h THEN d.statuses[t] ELSE IF fail THEN Failed ELSE router.version]
    <2>1. DOMAIN d.statuses = d.statusRead
      BY DEF DocumentOK
    <2>2. a = [d EXCEPT !.statusRead = d.statusRead \cup {h}, !.statuses = s]
      BY <1>4, <2>1 DEF Answered
    <2>3. s[h] = (IF fail THEN Failed ELSE router.version)
          /\ \A t \in d.statusRead \ {h} : s[t] = d.statuses[t]
      OBVIOUS
    <2> HIDE DEF a, s, h
    <2>4. a.statusRead = d.statusRead \cup {h} /\ a.statuses = s /\ a.targets = d.targets
          /\ a.modems = d.modems /\ a.action = d.action
      BY <2>2 DEF DocumentOK
    <2>5. QED
      BY <1>4, <2>3, <2>4 DEF h, a
  <1>5. CASE at \notin {"inventory", "operation", "action", "status"}
    BY <1>5 DEF Answered
  <1>6. QED
    BY <1>1, <1>2, <1>3, <1>4, <1>5

\* The other chains stay where they are.
Others(c) == \A o \in Chains \ {c} : chain'[o] = chain[o]

\* What has happened is not forgotten.
Remembered ==
    /\ used.early => used'.early
    /\ used.elsewhere => used'.elsewhere
    /\ used.overlap => used'.overlap
    /\ used.failed => used'.failed

LEMMA AskDoes ==
  ASSUME Reads, NEW c \in Chains, NEW at, NEW todo, NEW d, Ask(c, at, todo, d)
  PROVE  /\ Remembered /\ Others(c)
         /\ \E fail \in BOOLEAN :
              /\ fail => used'.failed
              /\ chain'[c] = [at |-> at, todo |-> todo, d |-> Answered(d, at, todo, fail)]
  <1>1. PICK fail \in BOOLEAN :
          /\ IF fail THEN Failure ELSE UNCHANGED used
          /\ chain' = [chain EXCEPT ![c] = [at |-> at, todo |-> todo,
                                            d |-> Answered(d, at, todo, fail)]]
    BY DEF Ask
  <1>2. Remembered /\ (fail => used'.failed)
    BY <1>1 DEF Failure, Reads, UsedType, Remembered
  <1>3. Others(c) /\ chain'[c] = [at |-> at, todo |-> todo, d |-> Answered(d, at, todo, fail)]
    BY <1>1 DEF Reads, Others
  <1>4. QED
    BY <1>2, <1>3

LEMMA EndChainDoes ==
  ASSUME Reads, NEW c \in Chains, EndChain(c)
  PROVE  Remembered /\ Others(c) /\ chain'[c].at = "idle"
  BY DEF EndChain, Idle, Reads, Remembered, Others

LEMMA RefreshDoes ==
  ASSUME Reads, NEW c \in Chains, Refresh(c)
  PROVE  /\ Remembered /\ Others(c)
         /\ used'.early = used.early /\ used'.elsewhere = used.elsewhere
         /\ chain'[c].at = "inventory"
         /\ chain'[c].d.targets = Targets
         /\ ~used'.failed => chain'[c].d.modems = router.attached
         /\ ~used'.overlap => \A o \in Chains \ {c} : ~Reading(o)
  <1> DEFINE d == [emptyDocuments EXCEPT !.targets = Targets]
             others == {o \in Chains \ {c} : chain[o].at \notin {"idle", "poll"}}
  <1>1. PICK fail \in {FALSE} \cup {used.events < MaxEvents} :
          /\ used' = [used EXCEPT !.overlap = @ \/ others # {}, !.failed = @ \/ fail,
                                  !.events = @ + IF fail THEN 1 ELSE 0]
          /\ chain' = [chain EXCEPT ![c] = [at |-> "inventory", todo |-> <<>>,
                                            d |-> Answered(d, "inventory", <<>>, fail)]]
    BY DEF Refresh
  <1>2. fail \in BOOLEAN
    <2>1. (used.events < MaxEvents) \in BOOLEAN
      OBVIOUS
    <2>2. QED
      BY <2>1
  <1>3. DocumentOK(d) /\ d.targets = Targets
    BY EmptyOK, Replaced, PageAssumption DEF emptyDocuments
  <1>4. /\ used'.early = used.early /\ used'.elsewhere = used.elsewhere
        /\ used'.overlap = (used.overlap \/ others # {}) /\ used'.failed = (used.failed \/ fail)
    BY <1>1 DEF Reads, UsedType
  <1>5. others = {} => \A o \in Chains \ {c} : ~Reading(o)
    BY DEF Reading
  <1> HIDE DEF d, others
  <1>6. Others(c) /\ chain'[c] = [at |-> "inventory", todo |-> <<>>,
                                  d |-> Answered(d, "inventory", <<>>, fail)]
    BY <1>1 DEF Reads, Others
  <1>7. Remembered
    BY <1>4 DEF Remembered
  <1>8. chain'[c].at = "inventory" /\ chain'[c].d = Answered(d, "inventory", <<>>, fail)
    BY <1>6
  <1>9. chain'[c].d.targets = Targets /\ (~fail => chain'[c].d.modems = router.attached)
    BY <1>2, <1>3, <1>8, AnswerGives
  <1>10. QED
    BY <1>4, <1>5, <1>6, <1>7, <1>8, <1>9

\* A drawing of the documents as they are after the step, unless it was withheld.
Drew ==
    flags'.withheld # "now" =>
      /\ flags'.engineBusy = ActionBusy(documents'.action)
      /\ flags'.withheld = "never" => flags.withheld = "never"
      /\ IF route'.area = "overview"
           THEN /\ screen' = Screen(documents', route')
                /\ disabled' = BusyControls(documents', ActionBusy(documents'.action))
           ELSE disabled' = {}

\* The flags but for engineBusy and userEditing: a drawing leaves them.
SameFlags(f) ==
    /\ flags'.actionPollPending = f.actionPollPending
    /\ flags'.modemPollPending = f.modemPollPending
    /\ flags'.hardwareGeneration = f.hardwareGeneration

LEMMA RenderDraws ==
  ASSUME NEW f \in FlagType, f.withheld = flags.withheld, renderRoute(documents', route', f)
  PROVE  Drew /\ SameFlags(f) /\ flags'.withheld # "now"
  <1> DEFINE w == IF f.withheld = "never" THEN f.withheld ELSE "before"
  <1>1. flags' = [f EXCEPT !.engineBusy = ActionBusy(documents'.action), !.withheld = w]
    BY DEF renderRoute
  <1>2. w # "now" /\ (w = "never" => f.withheld = "never")
    OBVIOUS
  <1>3. /\ flags'.engineBusy = ActionBusy(documents'.action) /\ flags'.withheld = w
        /\ SameFlags(f)
    BY <1>1 DEF FlagType, SameFlags
  <1>4. IF route'.area = "overview"
          THEN /\ screen' = Screen(documents', route')
               /\ disabled' = BusyControls(documents', ActionBusy(documents'.action))
          ELSE disabled' = {}
    BY DEF renderRoute
  <1> HIDE DEF w
  <1>5. QED
    BY <1>2, <1>3, <1>4 DEF Drew

LEMMA RedrawDraws ==
  ASSUME NEW f \in FlagType, f.withheld = flags.withheld, Redraw(documents', route', f)
  PROVE  Drew /\ SameFlags(f)
  <1>1. CASE f.userEditing
    <2>1. flags' = [f EXCEPT !.withheld = "now"]
      BY <1>1 DEF Redraw
    <2>2. flags'.withheld = "now" /\ SameFlags(f)
      BY <2>1 DEF FlagType, SameFlags
    <2>3. QED
      BY <2>2 DEF Drew
  <1>2. CASE ~f.userEditing
    BY <1>2, RenderDraws DEF Redraw
  <1>3. QED
    BY <1>1, <1>2

\* The documents but for the engine's action and the statuses.
SameInventory ==
    /\ documents'.targets = documents.targets /\ documents'.modems = documents.modems
    /\ documents'.busyModems = documents.busyModems

FillDocuments(d) ==
    [documents EXCEPT !.targets = d.targets, !.modems = d.modems,
                      !.busyModems = d.busyModems, !.action = d.action, !.routerRead = TRUE]

LEMMA FillRouterDoes ==
  ASSUME TypeOK, FillRouter
  PROVE  LET d == chain["fill"].d
         IN  /\ documents'.targets = d.targets /\ documents'.modems = d.modems
             /\ documents'.busyModems = d.busyModems /\ documents'.action = d.action
             /\ documents'.statuses = documents.statuses
             /\ documents'.statusRead = documents.statusRead
             /\ Drew
             /\ flags'.modemPollPending = Following(d)
             /\ flags'.actionPollPending = flags.actionPollPending
             /\ flags'.hardwareGeneration = flags.hardwareGeneration
  <1> DEFINE d == chain["fill"].d
             f == [flags EXCEPT !.actionRendered = d.action, !.engineBusy = ActionBusy(d.action),
                                !.modemPollPending = Following(d)]
             r == normaliseRoute(route, buildSubjects(FillDocuments(d)))
  <1>1. documents' = FillDocuments(d) /\ route' = r /\ Redraw(FillDocuments(d), r, f)
    BY DEF FillRouter, FillDocuments
  <1>2. DocumentOK(documents) /\ DocumentOK(d) /\ flags \in FlagType
    BY DEF TypeOK, ChainOK, Chains
  <1>3. f \in FlagType
    <2>1. Following(d) \in BOOLEAN /\ ActionBusy(d.action) \in BOOLEAN /\ d.action \in Actions
      BY <1>2 DEF Following, ActionBusy, DocumentOK
    <2>2. QED
      BY <1>2, <2>1, Zenon DEF FlagType
  <1>4. /\ f.withheld = flags.withheld /\ f.modemPollPending = Following(d)
        /\ f.actionPollPending = flags.actionPollPending
        /\ f.hardwareGeneration = flags.hardwareGeneration
    BY <1>2 DEF FlagType
  <1>5. /\ documents'.targets = d.targets /\ documents'.modems = d.modems
        /\ documents'.busyModems = d.busyModems /\ documents'.action = d.action
        /\ documents'.statuses = documents.statuses
        /\ documents'.statusRead = documents.statusRead
    BY <1>1, <1>2 DEF FillDocuments, DocumentOK
  <1> HIDE DEF f, r
  <1>6. Redraw(documents', route', f)
    BY <1>1
  <1>7. Drew /\ SameFlags(f)
    BY <1>3, <1>4, <1>6, RedrawDraws
  <1>8. QED
    BY <1>4, <1>5, <1>7 DEF SameFlags

LEMMA FillStatusDoes ==
  ASSUME TypeOK, FillStatus
  PROVE  LET id == Head(chain["fill"].todo)
         IN  /\ SameInventory /\ documents'.action = documents.action
             /\ documents'.statusRead = documents.statusRead \cup {id}
             /\ documents'.statuses[id] = chain["fill"].d.statuses[id]
             /\ \A t \in documents.statusRead \ {id} :
                   documents'.statuses[t] = documents.statuses[t]
             /\ Drew /\ SameFlags(flags)
  <1> DEFINE id == Head(chain["fill"].todo)
             s == [t \in documents.statusRead \cup {id} |->
                     IF t = id THEN chain["fill"].d.statuses[id] ELSE documents.statuses[t]]
  <1>1. DOMAIN documents.statuses = documents.statusRead /\ DocumentOK(documents)
        /\ flags \in FlagType
    BY DEF TypeOK, DocumentOK
  <1>2. documents' = [documents EXCEPT !.statusRead = documents.statusRead \cup {id},
                                       !.statuses = s]
        /\ Redraw(documents', route', flags)
    BY <1>1 DEF FillStatus
  <1>3. s[id] = chain["fill"].d.statuses[id]
        /\ \A t \in documents.statusRead \ {id} : s[t] = documents.statuses[t]
    OBVIOUS
  <1> HIDE DEF s
  <1>4. /\ SameInventory /\ documents'.action = documents.action
        /\ documents'.statusRead = documents.statusRead \cup {id}
        /\ documents'.statuses = s
    BY <1>1, <1>2 DEF SameInventory, DocumentOK
  <1>5. Drew /\ SameFlags(flags)
    BY <1>1, <1>2, RedrawDraws
  <1>6. QED
    BY <1>3, <1>4, <1>5

LEMMA InstallDoes ==
  ASSUME TypeOK, NEW c \in Chains, NEW d, DocumentOK(d), Install(c, d)
  PROVE  /\ documents'.targets = d.targets /\ documents'.modems = d.modems
         /\ documents'.busyModems = d.busyModems /\ documents'.action = d.action
         /\ documents'.statuses = d.statuses /\ documents'.statusRead = d.statusRead
         /\ Drew
         /\ flags'.modemPollPending = Following(d)
         /\ flags'.actionPollPending = flags.actionPollPending
         /\ flags'.hardwareGeneration = flags.hardwareGeneration
         /\ Remembered /\ Others(c) /\ chain'[c].at = "idle"
  <1> DEFINE f == [flags EXCEPT !.modemPollPending = Following(d)]
  <1>1. documents' = [d EXCEPT !.routerRead = TRUE] /\ Redraw(documents', route', f)
        /\ EndChain(c)
    BY DEF Install
  <1>2. flags \in FlagType /\ Following(d) \in BOOLEAN /\ Reads
    BY Parts DEF TypeOK, Following
  <1>3. /\ f \in FlagType /\ f.withheld = flags.withheld /\ f.modemPollPending = Following(d)
        /\ f.actionPollPending = flags.actionPollPending
        /\ f.hardwareGeneration = flags.hardwareGeneration
    <2>1. f \in FlagType
      BY <1>2, FlagSet
    <2>2. QED
      BY <1>2, <2>1 DEF FlagType
  <1> HIDE DEF f
  <1>4. /\ documents'.targets = d.targets /\ documents'.modems = d.modems
        /\ documents'.busyModems = d.busyModems /\ documents'.action = d.action
        /\ documents'.statuses = d.statuses /\ documents'.statusRead = d.statusRead
    BY <1>1 DEF DocumentOK
  <1>5. Drew /\ SameFlags(f)
    BY <1>1, <1>3, RedrawDraws
  <1>6. Remembered /\ Others(c) /\ chain'[c].at = "idle"
    BY <1>1, <1>2, EndChainDoes
  <1>7. QED
    BY <1>3, <1>4, <1>5, <1>6 DEF SameFlags

\* A poll of the engine that lands: a refresh, unless the answer changes nothing that is
\* awaited; then it is drawn if it is new.
LEMMA LandActionDoes ==
  ASSUME TypeOK, LandAction
  PROVE  LET action == chain["action"].d.action
         IN  /\ chain["action"].at = "poll" /\ documents'.action = action
             /\ documents'.statuses = documents.statuses
             /\ documents'.statusRead = documents.statusRead
             /\ SameInventory /\ route' = route
             /\ flags'.modemPollPending = flags.modemPollPending
             /\ flags'.hardwareGeneration = flags.hardwareGeneration
             /\ flags'.engineBusy = ActionBusy(action) \/ flags'.withheld = "now"
             /\ flags'.withheld = "never" => flags.withheld = "never"
             /\ \/ /\ Refresh("action") /\ flags'.withheld = flags.withheld
                   /\ UNCHANGED <<screen, disabled>>
                \/ /\ EndChain("action")
                   /\ flags.engineBusy => ActionBusy(action)
                   /\ flags'.actionPollPending = flags.actionPollPending
                   /\ \/ Drew
                      \/ /\ flags'.withheld = flags.withheld
                         /\ flags'.engineBusy = ActionBusy(action)
                         /\ UNCHANGED <<screen, disabled>>
  <1> DEFINE action == chain["action"].d.action
             busy == ActionBusy(action)
             ended == flags.engineBusy /\ ~busy
             counted == IF ~ended /\ ~busy /\ flags.actionPollPending
                          THEN flags.actionPollCount + 1 ELSE flags.actionPollCount
             waited == ~ended /\ counted # flags.actionPollCount /\ WaitedEnough(counted)
             pending == flags.actionPollPending /\ ~ended /\ ~waited
             count == IF waited THEN 0 ELSE counted
             landed == [flags EXCEPT !.engineBusy = busy, !.actionRendered = action,
                                     !.actionPollPending = pending, !.actionPollCount = count]
  <1>1. /\ chain["action"].at = "poll"
        /\ documents' = [documents EXCEPT !.action = action] /\ route' = route
        /\ IF ended \/ waited
             THEN /\ flags' = landed /\ Refresh("action")
                  /\ UNCHANGED <<screen, disabled, settings>>
             ELSE /\ EndChain("action")
                  /\ IF action # flags.actionRendered THEN Redraw(documents', route, landed)
                     ELSE flags' = landed /\ UNCHANGED <<screen, disabled, settings>>
    BY DEF LandAction
  <1>2. DocumentOK(documents) /\ flags \in FlagType /\ action \in Actions
    BY DEF TypeOK, ChainOK, Chains, DocumentOK
  <1>3. landed \in FlagType
    <2>1. counted \in Nat
      BY <1>2 DEF FlagType
    <2> HIDE DEF counted
    <2>2. count \in Nat /\ busy \in BOOLEAN /\ pending \in BOOLEAN
      BY <1>2, <2>1 DEF ActionBusy, FlagType
    <2> HIDE DEF busy, pending, count, action
    <2>3. QED
      BY <1>2, <2>2, Zenon DEF FlagType
  <1>4. /\ landed.withheld = flags.withheld /\ landed.engineBusy = busy
        /\ landed.actionPollPending = pending
        /\ landed.modemPollPending = flags.modemPollPending
        /\ landed.hardwareGeneration = flags.hardwareGeneration
    BY <1>2 DEF FlagType
  <1>5. /\ documents'.action = action /\ documents'.statuses = documents.statuses
        /\ documents'.statusRead = documents.statusRead /\ SameInventory
    BY <1>1, <1>2 DEF SameInventory, DocumentOK
  <1>6. pending = (flags.actionPollPending /\ ~(ended \/ waited)) /\ (~ended => (flags.engineBusy => busy))
    OBVIOUS
  <1> HIDE DEF landed, pending, counted, waited, count
  <1>7. CASE ended \/ waited
    BY <1>1, <1>4, <1>5, <1>7
  <1>8. CASE ~(ended \/ waited) /\ action = flags.actionRendered
    <2>1. flags' = landed /\ UNCHANGED <<screen, disabled>> /\ EndChain("action")
      BY <1>1, <1>8
    <2>2. pending = flags.actionPollPending
      BY <1>2, <1>6, <1>8 DEF FlagType
    <2>3. QED
      BY <1>1, <1>4, <1>5, <1>6, <1>8, <2>1, <2>2
  <1>9. CASE ~(ended \/ waited) /\ action # flags.actionRendered
    <2>1. Redraw(documents', route', landed) /\ EndChain("action")
      BY <1>1, <1>9
    <2>2. pending = flags.actionPollPending
      BY <1>2, <1>6, <1>9 DEF FlagType
    <2>3. Drew /\ SameFlags(landed)
      BY <1>3, <1>4, <2>1, RedrawDraws
    <2>4. /\ flags'.withheld = "never" => flags.withheld = "never"
          /\ flags'.engineBusy = ActionBusy(action) \/ flags'.withheld = "now"
      BY <1>5, <2>3 DEF Drew
    <2>5. QED
      BY <1>1, <1>4, <1>5, <1>6, <1>9, <2>1, <2>2, <2>3, <2>4 DEF SameFlags
  <1>10. QED
    BY <1>7, <1>8, <1>9

LEMMA NavigateDoes ==
  ASSUME TypeOK, Navigate
  PROVE  Drew /\ SameFlags(flags) /\ UNCHANGED <<router, documents, chain, launch>> /\ Remembered
         /\ flags'.withheld # "now"
  <1> DEFINE f == [flags EXCEPT !.userEditing = FALSE]
  <1>1. renderRoute(documents, route', f) /\ UNCHANGED <<router, documents, chain, launch>>
        /\ Requested
    BY DEF Navigate
  <1>2. flags \in FlagType
    BY DEF TypeOK
  <1>3. f \in FlagType
    BY <1>2, FlagSet
  <1>4. f.withheld = flags.withheld /\ (SameFlags(f) => SameFlags(flags))
    BY <1>2 DEF FlagType, SameFlags
  <1> HIDE DEF f
  <1>5. renderRoute(documents', route', f)
    BY <1>1
  <1>6. Remembered
    BY <1>1 DEF Requested, Remembered, TypeOK
  <1>7. QED
    BY <1>1, <1>3, <1>4, <1>5, <1>6, RenderDraws
-----------------------------------------------------------------------------
(* The screen and the documents.                                           *)

\* What the overview shows is what the page has read.
ScreenIsCurrent ==
    ~NotDrawn => /\ screen.cards = buildSubjects(documents)
                 /\ screen.statuses = documents.statuses
                 /\ screen.route = route

LEMMA DrawnIsCurrent == Drew => ScreenIsCurrent'
  BY DEF Drew, ScreenIsCurrent, NotDrawn, Screen

\* A step that neither draws nor changes what is drawn.
LEMMA StaysCurrent ==
  ASSUME ScreenIsCurrent, SameInventory, documents'.statuses = documents.statuses,
         UNCHANGED <<screen, route>>, flags'.withheld = flags.withheld
  PROVE  ScreenIsCurrent'
  BY DEF ScreenIsCurrent, SameInventory, NotDrawn, buildSubjects

\* The steps that leave the documents as they are and draw nothing; what they do to the
\* flags is one of these.
Quiet ==
    /\ UNCHANGED <<documents, route, screen>>
    /\ flags'.withheld = flags.withheld

LEMMA QuietStays == ScreenIsCurrent /\ Quiet => ScreenIsCurrent'
  BY StaysCurrent DEF Quiet, SameInventory

QuietStep ==
    \/ \E c \in Chains : ReadNext(c) \/ (RefreshStatus(c) /\ UNCHANGED page)
    \/ PollAction \/ PollModem \/ PollGeneration
    \/ EditPolicy \/ OpenConfirmation \/ CloseConfirmation \/ Confirm
    \/ LandLaunch \/ SettingsBuilt
    \/ Plug \/ Serve \/ BeginElsewhere \/ End

LEMMA QuietSteps == TypeOK /\ QuietStep => Quiet
  <1> SUFFICES ASSUME TypeOK, QuietStep PROVE Quiet
    OBVIOUS
  <1>0. flags \in FlagType
    BY DEF TypeOK
  <1>1. CASE \E c \in Chains : ReadNext(c) \/ (RefreshStatus(c) /\ UNCHANGED page)
    BY <1>1 DEF ReadNext, page, Quiet
  <1>2. CASE PollGeneration
    BY <1>0, <1>2 DEF PollGeneration, Quiet, FlagType
  <1>3. CASE EditPolicy
    BY <1>0, <1>3 DEF EditPolicy, Quiet, FlagType
  <1>4. CASE Confirm
    BY <1>0, <1>4 DEF Confirm, Quiet, FlagType
  <1>5. CASE LandLaunch
    BY <1>0, <1>5 DEF LandLaunch, Quiet, FlagType
  <1>6. CASE PollAction \/ PollModem \/ OpenConfirmation \/ CloseConfirmation \/ SettingsBuilt
    BY <1>6 DEF PollAction, PollModem, OpenConfirmation, CloseConfirmation, SettingsBuilt,
                page, Quiet
  <1>7. CASE Plug \/ Serve \/ BeginElsewhere \/ End
    BY <1>7 DEF Plug, Serve, BeginElsewhere, End, page, Quiet
  <1>8. QED
    BY <1>1, <1>2, <1>3, <1>4, <1>5, <1>6, <1>7 DEF QuietStep

\* The steps that change the documents or draw them.
LEMMA StepKinds ==
  ASSUME TypeOK, Next
  PROVE  \/ QuietStep \/ FillRouter \/ FillStatus \/ LandAction \/ Navigate
         \/ \E c \in Chains : RefreshStatus(c) /\ Install(c, chain[c].d)
  <1>1. ASSUME NEW c \in Chains, RefreshStatus(c)
        PROVE  UNCHANGED page \/ Install(c, chain[c].d)
    BY <1>1 DEF RefreshStatus
  <1>2. QED
    BY <1>1 DEF Next, Read, QuietStep

LEMMA ScreenStep == TypeOK /\ ScreenIsCurrent /\ [Next]_vars => ScreenIsCurrent'
  <1> SUFFICES ASSUME TypeOK, ScreenIsCurrent, [Next]_vars PROVE ScreenIsCurrent'
    OBVIOUS
  <1>1. CASE QuietStep
    BY <1>1, QuietSteps, QuietStays
  <1>2. CASE FillRouter
    BY <1>2, FillRouterDoes, DrawnIsCurrent
  <1>3. CASE FillStatus
    BY <1>3, FillStatusDoes, DrawnIsCurrent
  <1>4. CASE LandAction
    <2>1. SameInventory /\ documents'.statuses = documents.statuses /\ route' = route
      BY <1>4, LandActionDoes
    <2>2. Drew \/ (flags'.withheld = flags.withheld /\ UNCHANGED screen)
      BY <1>4, LandActionDoes
    <2>3. QED
      BY <2>1, <2>2, DrawnIsCurrent, StaysCurrent
  <1>5. CASE Navigate
    BY <1>5, NavigateDoes, DrawnIsCurrent
  <1>6. ASSUME NEW c \in Chains, Install(c, chain[c].d) PROVE ScreenIsCurrent'
    <2>1. DocumentOK(chain[c].d)
      BY DEF TypeOK, ChainOK
    <2>2. QED
      BY <1>6, <2>1, InstallDoes, DrawnIsCurrent
  <1>7. CASE UNCHANGED vars
    <2>1. Quiet
      BY <1>7 DEF vars, page, Quiet
    <2>2. QED
      BY <2>1, QuietStays
  <1>8. QED
    BY <1>1, <1>2, <1>3, <1>4, <1>5, <1>6, <1>7, StepKinds

LEMMA ScreenInit == Init => ScreenIsCurrent
  BY DEF Init, ScreenIsCurrent, Screen
-----------------------------------------------------------------------------
(* Controls that are disabled.                                             *)

\* What will draw the controls again: a poll that sees the operation end, the poll that
\* follows a launch, the poll of a modem, the launch's answer, or a chain under way.  A
\* redraw that was withheld is owed by nobody.
Owed ==
    \/ flags.engineBusy \/ flags.actionPollPending \/ flags.modemPollPending
    \/ launch # None
    \/ \E c \in Chains : Reading(c)
    \/ flags.withheld = "now"

\* No control is disabled with nothing left to enable it.
DisabledIsOwed ==
    /\ documents.busyModems # {} => flags.modemPollPending
    /\ disabled # {} => Owed

LEMMA BusyIsOwed ==
  ASSUME NEW d, NEW busy, BusyControls(d, busy) # {} PROVE busy \/ d.busyModems # {}
  BY DEF BusyControls, anySubjectBusy, subjectBusy

LEMMA DrawnIsOwed ==
  ASSUME Drew, documents'.busyModems # {} => flags'.modemPollPending
  PROVE  DisabledIsOwed'
  <1>1. CASE flags'.withheld = "now"
    BY <1>1 DEF DisabledIsOwed, Owed
  <1>2. CASE flags'.withheld # "now" /\ disabled' # {}
    <2>1. disabled' = BusyControls(documents', ActionBusy(documents'.action))
          /\ flags'.engineBusy = ActionBusy(documents'.action)
      BY <1>2 DEF Drew
    <2>2. flags'.engineBusy \/ documents'.busyModems # {}
      BY <1>2, <2>1, BusyIsOwed
    <2>3. QED
      BY <2>2 DEF DisabledIsOwed, Owed
  <1>3. CASE disabled' = {}
    BY <1>3 DEF DisabledIsOwed
  <1>4. QED
    BY <1>1, <1>2, <1>3

\* Nothing that is owed is lost.
LEMMA StaysOwed ==
  ASSUME DisabledIsOwed, documents'.busyModems = documents.busyModems, UNCHANGED disabled,
         flags.engineBusy => flags'.engineBusy,
         flags.actionPollPending => flags'.actionPollPending,
         flags.modemPollPending => flags'.modemPollPending,
         flags.withheld = "now" => flags'.withheld = "now",
         launch # None => launch' # None,
         \A c \in Chains : Reading(c) => Reading(c)'
  PROVE  DisabledIsOwed'
  BY DEF DisabledIsOwed, Owed

\* A chain that has begun goes on.
LEMMA StillReading ==
  ASSUME NEW c \in Chains, Others(c), chain'[c].at \notin {"idle", "poll"}
  PROVE  Reading(c)' /\ \A o \in Chains : Reading(o) => Reading(o)'
  BY DEF Others, Reading

LEMMA AskReads ==
  ASSUME Reads, NEW c \in Chains, NEW at \in {"operation", "action", "status"}, NEW todo, NEW d,
         Ask(c, at, todo, d)
  PROVE  Reading(c)' /\ \A o \in Chains : Reading(o) => Reading(o)'
  <1>1. PICK fail \in BOOLEAN :
          /\ Others(c)
          /\ chain'[c] = [at |-> at, todo |-> todo, d |-> Answered(d, at, todo, fail)]
    BY AskDoes
  <1>2. chain'[c].at = at
    BY <1>1
  <1>3. QED
    BY <1>1, <1>2, StillReading

LEMMA RefreshReads ==
  ASSUME Reads, NEW c \in Chains, Refresh(c)
  PROVE  Reading(c)' /\ \A o \in Chains : Reading(o) => Reading(o)'
  <1>1. Others(c) /\ chain'[c].at = "inventory"
    BY RefreshDoes
  <1>2. QED
    BY <1>1, StillReading

LEMMA QuietOwed == TypeOK /\ DisabledIsOwed /\ QuietStep => DisabledIsOwed'
  <1> SUFFICES ASSUME TypeOK, DisabledIsOwed, QuietStep PROVE DisabledIsOwed'
    OBVIOUS
  <1>0. Reads /\ flags \in FlagType
    BY Parts DEF TypeOK
  <1>1. ASSUME UNCHANGED <<page, launch>>, \A c \in Chains : Reading(c) => Reading(c)'
        PROVE  DisabledIsOwed'
    BY <1>1, StaysOwed DEF page
  <1>2. ASSUME NEW c \in Chains, ReadNext(c) PROVE DisabledIsOwed'
    <2>1. UNCHANGED <<page, launch>>
          /\ \E at \in {"action", "operation"} : \E todo, d : Ask(c, at, todo, d)
      BY <1>2 DEF ReadNext
    <2>2. QED
      BY <1>0, <1>1, <2>1, AskReads
  <1>3. ASSUME NEW c \in Chains, RefreshStatus(c), UNCHANGED page PROVE DisabledIsOwed'
    <2>1. UNCHANGED launch
      BY <1>3 DEF RefreshStatus
    <2>2. CASE \E todo, d : Ask(c, "status", todo, d)
      BY <1>0, <1>1, <1>3, <2>1, <2>2, AskReads
    <2>3. CASE Install(c, chain[c].d)
      <3>1. DocumentOK(chain[c].d)
        BY DEF TypeOK, ChainOK
      <3>2. Drew /\ (documents'.busyModems # {} => flags'.modemPollPending)
        BY <2>3, <3>1, InstallDoes DEF Following
      <3>3. QED
        BY <3>2, DrawnIsOwed
    <2>4. QED
      BY <1>3, <2>2, <2>3 DEF RefreshStatus
  <1>4. CASE PollAction
    <2>1. chain["action"].at = "idle" /\ Others("action") /\ UNCHANGED <<page, launch>>
      BY <1>0, <1>4 DEF PollAction, Reads, Others
    <2>2. QED
      BY <1>1, <2>1 DEF Others, Reading
  <1>5. CASE PollModem
    BY <1>0, <1>1, <1>5, RefreshReads DEF PollModem, Chains
  <1>6. CASE PollGeneration
    <2>1. /\ flags' = [flags EXCEPT !.hardwareGeneration = router.generation]
          /\ UNCHANGED <<documents, disabled, launch>>
          /\ UNCHANGED chain \/ Refresh("generation")
      BY <1>6 DEF PollGeneration
    <2>2. /\ flags'.engineBusy = flags.engineBusy
          /\ flags'.actionPollPending = flags.actionPollPending
          /\ flags'.modemPollPending = flags.modemPollPending /\ flags'.withheld = flags.withheld
      BY <1>0, <2>1 DEF FlagType
    <2>3. \A c \in Chains : Reading(c) => Reading(c)'
      BY <1>0, <2>1, RefreshReads DEF Chains, Reading
    <2>4. QED
      BY <2>1, <2>2, <2>3, StaysOwed
  <1>7. CASE EditPolicy
    <2>1. /\ flags' = [flags EXCEPT !.userEditing = ~flags.userEditing]
          /\ UNCHANGED <<documents, disabled, launch, chain>>
      BY <1>7 DEF EditPolicy
    <2>2. /\ flags'.engineBusy = flags.engineBusy
          /\ flags'.actionPollPending = flags.actionPollPending
          /\ flags'.modemPollPending = flags.modemPollPending /\ flags'.withheld = flags.withheld
      BY <1>0, <2>1 DEF FlagType
    <2>3. QED
      BY <2>1, <2>2, StaysOwed DEF Reading
  <1>8. CASE Confirm
    <2>1. /\ UNCHANGED documents /\ launch' = <<"sent", dialog>>
          /\ flags' = IF dialog[1] = "engine" THEN [flags EXCEPT !.engineBusy = TRUE] ELSE flags
      BY <1>8 DEF Confirm
    <2>2. flags'.modemPollPending = flags.modemPollPending
      BY <1>0, <2>1 DEF FlagType
    <2>3. launch' # None
      BY <2>1 DEF None
    <2>4. QED
      BY <2>1, <2>2, <2>3 DEF DisabledIsOwed, Owed
  <1>9. CASE LandLaunch
    <2>1. /\ UNCHANGED documents
          /\ flags' = IF launch[2][1] = "engine" THEN [flags EXCEPT !.actionPollPending = TRUE]
                      ELSE [flags EXCEPT !.modemPollPending = TRUE]
      BY <1>9 DEF LandLaunch
    <2>2. /\ flags.modemPollPending => flags'.modemPollPending
          /\ flags'.actionPollPending \/ flags'.modemPollPending
      BY <1>0, <2>1 DEF FlagType
    <2>3. QED
      BY <2>1, <2>2 DEF DisabledIsOwed, Owed
  <1>10. CASE OpenConfirmation \/ CloseConfirmation \/ Plug \/ BeginElsewhere \/ End
    BY <1>1, <1>10 DEF OpenConfirmation, CloseConfirmation, Plug, BeginElsewhere, End, Reading
  <1>11. CASE SettingsBuilt
    BY <1>11, StaysOwed DEF SettingsBuilt, Reading
  <1>12. CASE Serve
    BY <1>12, StaysOwed DEF Serve, page, Reading, None
  <1>13. QED
    BY <1>2, <1>3, <1>4, <1>5, <1>6, <1>7, <1>8, <1>9, <1>10, <1>11, <1>12 DEF QuietStep

LEMMA OwedStep == TypeOK /\ DisabledIsOwed /\ [Next]_vars => DisabledIsOwed'
  <1> SUFFICES ASSUME TypeOK, DisabledIsOwed, [Next]_vars PROVE DisabledIsOwed'
    OBVIOUS
  <1>0. Reads /\ flags \in FlagType
    BY Parts DEF TypeOK
  <1>1. CASE QuietStep
    BY <1>1, QuietOwed
  <1>2. CASE FillRouter
    <2>1. Drew /\ (documents'.busyModems # {} => flags'.modemPollPending)
      BY <1>2, FillRouterDoes DEF Following
    <2>2. QED
      BY <2>1, DrawnIsOwed
  <1>3. CASE FillStatus
    <2>1. Drew /\ (documents'.busyModems # {} => flags'.modemPollPending)
      BY <1>3, FillStatusDoes DEF SameInventory, SameFlags, DisabledIsOwed
    <2>2. QED
      BY <2>1, DrawnIsOwed
  <1>4. CASE LandAction
    <2> DEFINE busy == ActionBusy(chain["action"].d.action)
    <2>1. /\ documents'.busyModems = documents.busyModems
          /\ flags'.modemPollPending = flags.modemPollPending
          /\ UNCHANGED launch
      BY <1>4, LandActionDoes DEF SameInventory, LandAction
    <2>2. CASE Refresh("action")
      <3>1. Reading("action")' /\ "action" \in Chains
        BY <1>0, <2>2, RefreshReads DEF Chains
      <3>2. QED
        BY <2>1, <3>1 DEF DisabledIsOwed, Owed
    <2>3. CASE Drew
      BY <2>1, <2>3, DrawnIsOwed DEF DisabledIsOwed
    <2>4. CASE /\ EndChain("action")
               /\ flags.engineBusy => busy
               /\ flags'.actionPollPending = flags.actionPollPending
               /\ flags'.withheld = flags.withheld
               /\ flags'.engineBusy = busy
               /\ UNCHANGED disabled
      <3>1. Others("action") /\ ~Reading("action")
        BY <1>0, <1>4, <2>4, EndChainDoes, LandActionDoes DEF Chains, Reading
      <3>2. \A c \in Chains : Reading(c) => Reading(c)'
        BY <3>1 DEF Others, Reading
      <3> HIDE DEF busy
      <3>3. QED
        BY <2>1, <2>4, <3>2, StaysOwed
    <2>5. QED
      BY <1>4, <2>2, <2>3, <2>4, LandActionDoes
  <1>5. CASE Navigate
    <2>1. Drew /\ (documents'.busyModems # {} => flags'.modemPollPending)
      BY <1>5, NavigateDoes DEF SameFlags, DisabledIsOwed
    <2>2. QED
      BY <2>1, DrawnIsOwed
  <1>6. ASSUME NEW c \in Chains, Install(c, chain[c].d) PROVE DisabledIsOwed'
    <2>1. DocumentOK(chain[c].d)
      BY DEF TypeOK, ChainOK
    <2>2. Drew /\ (documents'.busyModems # {} => flags'.modemPollPending)
      BY <1>6, <2>1, InstallDoes DEF Following
    <2>3. QED
      BY <2>2, DrawnIsOwed
  <1>7. CASE UNCHANGED vars
    BY <1>7, StaysOwed DEF vars, page, Reading
  <1>8. QED
    BY <1>1, <1>2, <1>3, <1>4, <1>5, <1>6, <1>7, StepKinds

LEMMA OwedInit == Init => DisabledIsOwed
  BY DEF Init, DisabledIsOwed, emptyDocuments
-----------------------------------------------------------------------------
(* Hardware that comes and goes.                                           *)

\* A chain that has read the inventory and will install it.
BringsInventory(c) == Reading(c) /\ ~(c = "fill" /\ chain[c].at = "status")

\* Unless the hardware changed before the page was filled, two chains overlapped or a read
\* failed: once the page has compared generations, the modems it has read, or is about to
\* install, are those that are attached.
HardwareOwed ==
    /\ flags.hardwareGeneration # Undefined => flags.hardwareGeneration <= router.generation
    /\ ~used.overlap => \A a, b \in Chains : Reading(a) /\ Reading(b) => a = b
    /\ /\ ~used.early /\ ~used.overlap /\ ~used.failed
       /\ flags.hardwareGeneration \in {Undefined, router.generation}
       => /\ \A c \in Chains : BringsInventory(c) => chain[c].d.modems = router.attached
          /\ documents.modems = router.attached \/ \E c \in Chains : BringsInventory(c)

LEMMA HardwareStays ==
  ASSUME HardwareOwed, Remembered, UNCHANGED <<router.attached, router.generation>>,
         documents'.modems = documents.modems,
         flags'.hardwareGeneration = flags.hardwareGeneration,
         \A c \in Chains : /\ Reading(c)' => Reading(c)
                           /\ BringsInventory(c)' <=> BringsInventory(c)
                           /\ BringsInventory(c) => chain'[c].d.modems = chain[c].d.modems
  PROVE  HardwareOwed'
  BY DEF HardwareOwed, Remembered

LEMMA SameHardware ==
  ASSUME HardwareOwed, Remembered, UNCHANGED <<router.attached, router.generation, chain>>,
         documents'.modems = documents.modems,
         flags'.hardwareGeneration = flags.hardwareGeneration
  PROVE  HardwareOwed'
  BY HardwareStays DEF Reading, BringsInventory

\* A chain reads on: another read than the inventory's.
LEMMA ReadsOn ==
  ASSUME HardwareOwed, Reads, NEW c \in Chains, BringsInventory(c),
         NEW at \in {"operation", "action", "status"}, NEW todo, Ask(c, at, todo, chain[c].d),
         c = "fill" => at # "status",
         UNCHANGED <<router, documents, flags>>
  PROVE  HardwareOwed'
  <1>1. DocumentOK(chain[c].d)
    BY DEF Reads, ChainOK
  <1>2. PICK fail \in BOOLEAN :
          /\ Remembered /\ Others(c)
          /\ chain'[c] = [at |-> at, todo |-> todo, d |-> Answered(chain[c].d, at, todo, fail)]
    BY AskDoes
  <1>3. chain'[c].at = at /\ chain'[c].d = Answered(chain[c].d, at, todo, fail)
    BY <1>2
  <1>4. chain'[c].d.modems = chain[c].d.modems
    BY <1>1, <1>3, AnswerGives
  <1>5. ASSUME NEW o \in Chains
        PROVE  /\ Reading(o)' => Reading(o)
               /\ BringsInventory(o)' <=> BringsInventory(o)
               /\ BringsInventory(o) => chain'[o].d.modems = chain[o].d.modems
    <2>1. CASE o = c
      BY <1>3, <1>4, <2>1 DEF Reading, BringsInventory
    <2>2. CASE o # c
      BY <1>2, <2>2 DEF Others, Reading, BringsInventory
    <2>3. QED
      BY <2>1, <2>2
  <1>6. QED
    BY <1>2, <1>5, HardwareStays

\* A refresh brings the modems that are attached when it begins.
LEMMA RefreshBrings ==
  ASSUME HardwareOwed, Reads, NEW c \in Chains, Refresh(c),
         UNCHANGED <<router.attached, router.generation>>,
         flags'.hardwareGeneration \in {flags.hardwareGeneration, router.generation},
         router.generation \in Nat
  PROVE  HardwareOwed'
  <1>1. /\ Remembered /\ Others(c) /\ chain'[c].at = "inventory"
        /\ ~used'.failed => chain'[c].d.modems = router.attached
        /\ ~used'.overlap => \A o \in Chains \ {c} : ~Reading(o)
    BY RefreshDoes
  <1>2. BringsInventory(c)'
    BY <1>1 DEF BringsInventory, Reading
  <1>3. ~used'.overlap => \A o \in Chains \ {c} : ~Reading(o)' /\ ~BringsInventory(o)'
    BY <1>1 DEF Others, Reading, BringsInventory
  <1>4. flags'.hardwareGeneration # Undefined
          => flags'.hardwareGeneration <= router'.generation
    BY DEF HardwareOwed
  <1>5. QED
    BY <1>1, <1>2, <1>3, <1>4 DEF HardwareOwed

\* A chain ends: what it has read is there, or it was not to be installed.
LEMMA ChainEnds ==
  ASSUME HardwareOwed, NEW c \in Chains, Remembered, Others(c), UNCHANGED router,
         ~BringsInventory(c)', Reading(c)' => Reading(c),
         flags'.hardwareGeneration = flags.hardwareGeneration,
         IF BringsInventory(c) THEN documents'.modems = chain[c].d.modems
         ELSE documents'.modems = documents.modems
  PROVE  HardwareOwed'
  <1>1. \A o \in Chains : Reading(o)' => Reading(o)
    BY DEF Others, Reading
  <1>2. \A o \in Chains \ {c} : /\ BringsInventory(o)' <=> BringsInventory(o)
                                /\ chain'[o].d.modems = chain[o].d.modems
    BY DEF Others, Reading, BringsInventory
  <1>3. ASSUME ~used.early, ~used.overlap, ~used.failed,
               flags.hardwareGeneration \in {Undefined, router.generation}
        PROVE  /\ \A o \in Chains : BringsInventory(o)' => chain'[o].d.modems = router.attached
               /\ documents'.modems = router.attached \/ \E o \in Chains : BringsInventory(o)'
    BY <1>2, <1>3 DEF HardwareOwed
  <1>4. QED
    BY <1>1, <1>3 DEF HardwareOwed, Remembered

LEMMA HardwareStep == TypeOK /\ HardwareOwed /\ [Next]_vars => HardwareOwed'
  <1> SUFFICES ASSUME TypeOK, HardwareOwed, [Next]_vars PROVE HardwareOwed'
    OBVIOUS
  <1>0. Reads /\ flags \in FlagType /\ router.generation \in Nat /\ used \in UsedType
        /\ router \in RouterType
    BY Parts DEF TypeOK, RouterOK, RouterType, Reads
  <1>1. ASSUME NEW c \in Chains, ReadNext(c) PROVE HardwareOwed'
    <2>1. /\ chain[c].at \in {"inventory", "operation"}
          /\ \E at \in {"action", "operation"} : \E todo : Ask(c, at, todo, chain[c].d)
          /\ UNCHANGED <<router, documents, flags>>
      BY <1>1 DEF ReadNext, page
    <2>2. BringsInventory(c)
      BY <2>1 DEF BringsInventory, Reading
    <2>3. QED
      BY <1>0, <2>1, <2>2, ReadsOn
  <1>2. ASSUME NEW c \in Chains, RefreshStatus(c) PROVE HardwareOwed'
    <2>1. BringsInventory(c) /\ c # "fill" /\ UNCHANGED router
      BY <1>2 DEF RefreshStatus, BringsInventory, Reading
    <2>2. CASE \E todo : Ask(c, "status", todo, chain[c].d) /\ UNCHANGED page
      BY <1>0, <2>1, <2>2, ReadsOn DEF page
    <2>3. CASE Install(c, chain[c].d)
      <3>1. DocumentOK(chain[c].d)
        BY DEF TypeOK, ChainOK
      <3>2. /\ documents'.modems = chain[c].d.modems /\ Remembered /\ Others(c)
            /\ chain'[c].at = "idle"
            /\ flags'.hardwareGeneration = flags.hardwareGeneration
        BY <2>3, <3>1, InstallDoes
      <3>3. ~BringsInventory(c)' /\ ~Reading(c)'
        BY <3>2 DEF BringsInventory, Reading
      <3>4. QED
        BY <2>1, <3>2, <3>3, ChainEnds
    <2>4. QED
      BY <1>2, <2>2, <2>3 DEF RefreshStatus
  <1>3. CASE FillRouter
    <2>1. /\ documents'.modems = chain["fill"].d.modems
          /\ flags'.hardwareGeneration = flags.hardwareGeneration
      BY <1>3, FillRouterDoes
    <2>2. /\ chain["fill"].at = "action" /\ UNCHANGED router
          /\ EndChain("fill") \/ \E todo : Ask("fill", "status", todo, emptyDocuments)
      BY <1>3 DEF FillRouter
    <2>3. BringsInventory("fill") /\ Reading("fill") /\ "fill" \in Chains
      BY <2>2 DEF BringsInventory, Reading, Chains
    <2>4. Remembered /\ Others("fill") /\ chain'["fill"].at \in {"idle", "status"}
      <3>1. CASE EndChain("fill")
        BY <1>0, <2>3, <3>1, EndChainDoes
      <3>2. ASSUME NEW todo, Ask("fill", "status", todo, emptyDocuments)
            PROVE  Remembered /\ Others("fill") /\ chain'["fill"].at \in {"idle", "status"}
        <4>1. PICK fail \in BOOLEAN :
                /\ Remembered /\ Others("fill")
                /\ chain'["fill"] = [at |-> "status", todo |-> todo,
                                     d |-> Answered(emptyDocuments, "status", todo, fail)]
          BY <1>0, <2>3, <3>2, AskDoes
        <4>2. QED
          BY <4>1
      <3>3. QED
        BY <2>2, <3>1, <3>2
    <2>5. ~BringsInventory("fill")'
      BY <2>4 DEF BringsInventory, Reading
    <2>6. QED
      BY <2>1, <2>2, <2>3, <2>4, <2>5, ChainEnds
  <1>4. CASE FillStatus
    <2>1. /\ documents'.modems = documents.modems
          /\ flags'.hardwareGeneration = flags.hardwareGeneration
      BY <1>4, FillStatusDoes DEF SameInventory, SameFlags
    <2>2. /\ chain["fill"].at = "status" /\ UNCHANGED router
          /\ EndChain("fill") \/ \E todo : Ask("fill", "status", todo, emptyDocuments)
      BY <1>4 DEF FillStatus
    <2>3. ~BringsInventory("fill") /\ Reading("fill") /\ "fill" \in Chains
      BY <2>2 DEF BringsInventory, Reading, Chains
    <2>4. Remembered /\ Others("fill") /\ chain'["fill"].at \in {"idle", "status"}
      <3>1. CASE EndChain("fill")
        BY <1>0, <2>3, <3>1, EndChainDoes
      <3>2. ASSUME NEW todo, Ask("fill", "status", todo, emptyDocuments)
            PROVE  Remembered /\ Others("fill") /\ chain'["fill"].at \in {"idle", "status"}
        <4>1. PICK fail \in BOOLEAN :
                /\ Remembered /\ Others("fill")
                /\ chain'["fill"] = [at |-> "status", todo |-> todo,
                                     d |-> Answered(emptyDocuments, "status", todo, fail)]
          BY <1>0, <2>3, <3>2, AskDoes
        <4>2. QED
          BY <4>1
      <3>3. QED
        BY <2>2, <3>1, <3>2
    <2>5. ~BringsInventory("fill")'
      BY <2>4 DEF BringsInventory, Reading
    <2>6. QED
      BY <2>1, <2>2, <2>3, <2>4, <2>5, ChainEnds
  <1>5. CASE PollAction
    <2>1. /\ chain["action"].at = "idle" /\ chain'["action"].at = "poll" /\ Others("action")
          /\ UNCHANGED <<router, documents, flags, used>> /\ "action" \in Chains
      BY <1>0, <1>5 DEF PollAction, Reads, Others, page, Chains
    <2>2. ~BringsInventory("action") /\ ~BringsInventory("action")' /\ ~Reading("action")'
      BY <2>1 DEF BringsInventory, Reading
    <2>3. Remembered
      BY <2>1 DEF Remembered
    <2>4. QED
      BY <2>1, <2>2, <2>3, ChainEnds
  <1>6. CASE LandAction
    <2>1. /\ chain["action"].at = "poll" /\ documents'.modems = documents.modems
          /\ flags'.hardwareGeneration = flags.hardwareGeneration
          /\ Refresh("action") \/ EndChain("action")
          /\ UNCHANGED router /\ "action" \in Chains
      BY <1>6, LandActionDoes DEF SameInventory, LandAction, Chains
    <2>2. CASE Refresh("action")
      BY <1>0, <2>1, <2>2, RefreshBrings
    <2>3. CASE EndChain("action")
      <3>1. Remembered /\ Others("action") /\ chain'["action"].at = "idle"
        BY <1>0, <2>1, <2>3, EndChainDoes
      <3>2. ~BringsInventory("action") /\ ~BringsInventory("action")' /\ ~Reading("action")'
        BY <2>1, <3>1 DEF BringsInventory, Reading
      <3>3. QED
        BY <2>1, <3>1, <3>2, ChainEnds
    <2>4. QED
      BY <2>1, <2>2, <2>3
  <1>7. CASE PollModem
    BY <1>0, <1>7, RefreshBrings DEF PollModem, page, Chains
  <1>8. CASE PollGeneration
    <2>1. /\ flags' = [flags EXCEPT !.hardwareGeneration = router.generation]
          /\ UNCHANGED <<router, documents>>
          /\ IF flags.hardwareGeneration = Undefined THEN UNCHANGED <<chain, used>>
             ELSE Refresh("generation")
      BY <1>8 DEF PollGeneration
    <2>2. flags'.hardwareGeneration = router.generation
      BY <1>0, <2>1 DEF FlagType
    <2>3. CASE flags.hardwareGeneration = Undefined
      BY <1>0, <2>1, <2>2, <2>3 DEF HardwareOwed, Reading, BringsInventory
    <2>4. CASE Refresh("generation")
      BY <1>0, <2>1, <2>2, <2>4, RefreshBrings DEF Chains
    <2>5. QED
      BY <2>1, <2>3, <2>4
  <1>9. CASE Plug
    <2>1. PICK m \in ModemSet :
            router' = [router EXCEPT !.generation = @ + 1,
                           !.attached = IF m \in @ THEN @ \ {m} ELSE @ \cup {m}]
      BY <1>9 DEF Plug
    <2>2. router'.generation = router.generation + 1
      BY <1>0, <2>1 DEF RouterType
    <2>3. /\ used'.overlap = used.overlap
          /\ flags.hardwareGeneration = Undefined => used'.early
          /\ UNCHANGED <<documents, flags, chain>>
      BY <1>0, <1>9 DEF Plug, UsedType, page
    <2>4. flags.hardwareGeneration # Undefined
            => flags.hardwareGeneration \in Nat /\ flags.hardwareGeneration <= router.generation
      BY <1>0 DEF HardwareOwed, FlagType
    <2>5. flags.hardwareGeneration # Undefined
            => /\ flags'.hardwareGeneration # router'.generation
               /\ flags'.hardwareGeneration <= router'.generation
      BY <1>0, <2>2, <2>3, <2>4
    <2>6. QED
      BY <2>3, <2>5 DEF HardwareOwed, Reading
  <1>10. CASE Navigate
    BY <1>10, NavigateDoes, SameHardware DEF SameFlags
  <1>11. CASE EditPolicy \/ OpenConfirmation \/ CloseConfirmation \/ Confirm \/ LandLaunch
    <2>1. UNCHANGED <<router, documents, chain>>
      BY <1>11 DEF EditPolicy, OpenConfirmation, CloseConfirmation, Confirm, LandLaunch, page
    <2>2. Remembered
      BY <1>0, <1>11 DEF EditPolicy, OpenConfirmation, CloseConfirmation, Confirm, LandLaunch,
                         Requested, Remembered, UsedType
    <2>3. flags'.hardwareGeneration = flags.hardwareGeneration
      BY <1>0, <1>11 DEF EditPolicy, OpenConfirmation, CloseConfirmation, Confirm, LandLaunch,
                         page, FlagType
    <2>4. QED
      BY <2>1, <2>2, <2>3, SameHardware
  <1>12. CASE SettingsBuilt
    BY <1>0, <1>12, SameHardware DEF SettingsBuilt, Failure, Remembered, UsedType
  <1>13. CASE Serve \/ BeginElsewhere \/ End
    <2>1. UNCHANGED <<documents, chain, flags>>
      BY <1>13 DEF Serve, BeginElsewhere, End, page
    <2>2. Remembered
      BY <1>0, <1>13 DEF Serve, BeginElsewhere, End, Failure, Remembered, UsedType
    <2>3. router'.attached = router.attached /\ router'.generation = router.generation
      BY <1>0, <1>13 DEF Serve, BeginElsewhere, End, Begin, RouterType
    <2>4. QED
      BY <2>1, <2>2, <2>3, SameHardware
  <1>14. CASE UNCHANGED vars
    BY <1>14, SameHardware DEF vars, page, Remembered
  <1>15. QED
    BY <1>1, <1>2, <1>3, <1>4, <1>5, <1>6, <1>7, <1>8, <1>9, <1>10, <1>11, <1>12, <1>13, <1>14
       DEF Next, Read

LEMMA HardwareInit == Init => HardwareOwed
  <1> SUFFICES ASSUME Init PROVE HardwareOwed
    OBVIOUS
  <1> DEFINE d == [emptyDocuments EXCEPT !.targets = Targets, !.modems = Attached]
  <1>1. d.modems = Attached
    BY DEF emptyDocuments
  <1> HIDE DEF d
  <1>2. chain["fill"] = [at |-> "inventory", todo |-> <<>>, d |-> d]
        /\ \A c \in Chains \ {"fill"} : chain[c] = Idle
    BY DEF Init, Chains, d
  <1>3. chain["fill"].at = "inventory" /\ chain["fill"].d.modems = Attached
    BY <1>1, <1>2
  <1>4. \A c \in Chains \ {"fill"} : ~Reading(c)
    BY <1>2 DEF Reading, Idle
  <1>5. BringsInventory("fill") /\ "fill" \in Chains
    BY <1>3 DEF BringsInventory, Reading, Chains
  <1>6. router.attached = Attached /\ flags.hardwareGeneration = Undefined
    BY DEF Init
  <1>7. QED
    BY <1>3, <1>4, <1>5, <1>6 DEF HardwareOwed, BringsInventory
-----------------------------------------------------------------------------
(* The results of the engine's operations.                                 *)

\* A status that was read after the last operation ended.
Has(d, t) == t \in d.statusRead /\ d.statuses[t] = router.version

\* The statuses still to be asked for after the one that is being read.
Rest(todo) == {todo[i] : i \in 2..Len(todo)}

\* A chain that will bring what the last operation has changed, or the news that one is
\* running: the first fill has put what it has read into the documents.
BringsResults(c) ==
    \/ chain[c].at \in {"inventory", "operation"}
    \/ /\ chain[c].at = "action" \/ (chain[c].at = "status" /\ c # "fill")
       /\ ActionBusy(chain[c].d.action)
    \/ chain[c].at = "action" /\ router.engine = "idle"
    \/ /\ chain[c].at = "status" /\ router.engine = "idle"
       /\ \A t \in TargetSet \ Rest(chain[c].todo) :
             IF c = "fill" /\ t # Head(chain[c].todo) THEN Has(documents, t)
             ELSE Has(chain[c].d, t)

\* A launch of the engine that is not answered yet.
Unanswered == launch # None /\ launch[2][1] = "engine"

\* No operation began elsewhere, no two chains overlapped, no read failed and no redraw was
\* withheld.
Unspoiled ==
    ~used.elsewhere /\ ~used.overlap /\ ~used.failed /\ flags.withheld = "never"

\* While the engine runs, and until its results are read, someone is going to look: the
\* launch's answer and the poll it asks for, a chain that reads late enough, or the next
\* poll, which will find that the operation the page knows of has ended.
ResultsHeld ==
    /\ ActionBusy(documents.action) => flags.engineBusy
    /\ \A c \in Chains : BringsInventory(c) => chain[c].d.targets = Targets
    /\ \/ Unanswered \/ flags.actionPollPending
       \/ \E c \in Chains : BringsResults(c)
       \/ ActionBusy(documents.action) /\ \A c \in Chains : ~BringsInventory(c)
       \/ /\ router.engine = "idle" /\ \A c \in Chains : ~Reading(c)
          /\ \A t \in TargetSet : Has(documents, t)

ResultsOwed == Unspoiled => ResultsHeld

LEMMA BringingIsReading == ASSUME NEW c \in Chains, BringsResults(c) PROVE Reading(c)
  BY DEF BringsResults, Reading

\* What the last read of a list leaves to read, and the first.
LEMMA RestOf ==
  ASSUME NEW q \in Seq(TargetSet), q # <<>>
  PROVE  /\ Tail(q) = <<>> => Rest(q) = {}
         /\ Tail(q) # <<>> => Rest(q) \subseteq {Head(Tail(q))} \cup Rest(Tail(q))
  <1>1. Len(q) \in Nat \ {0} /\ Len(Tail(q)) = Len(q) - 1
    OBVIOUS
  <1>2. ASSUME NEW i \in 2..Len(q) PROVE Tail(q)[i - 1] = q[i]
    BY <1>1
  <1>3. CASE Tail(q) = <<>>
    <2>0. Len(Tail(q)) = 0
      <3>1. Tail(q) \in Seq(TargetSet)
        OBVIOUS
      <3>2. ASSUME NEW s \in Seq(TargetSet), s = <<>> PROVE Len(s) = 0
        BY <3>2
      <3>3. QED
        BY <3>1, <3>2, <1>3, Zenon
    <2>1. Len(q) = 1
      <3>1. ASSUME NEW n \in Nat, NEW m, m = n - 1, m = 0 PROVE n = 1
        BY <3>1
      <3>2. Len(q) \in Nat
        BY <1>1
      <3>3. QED
        BY <1>1, <2>0, <3>1, <3>2, Zenon
    <2>2. QED
      BY <1>3, <2>1 DEF Rest
  <1>4. CASE Tail(q) # <<>>
    <2>1. ASSUME NEW i \in 2..Len(q) PROVE q[i] \in {Head(Tail(q))} \cup Rest(Tail(q))
      <3>1. CASE i = 2
        BY <1>1, <1>2, <3>1
      <3>2. CASE i # 2
        <4>1. i - 1 \in 2..Len(Tail(q))
          BY <1>1, <3>2
        <4>2. QED
          BY <1>2, <4>1 DEF Rest
      <3>3. QED
        BY <3>1, <3>2
    <2>2. QED
      BY <1>4, <2>1 DEF Rest
  <1>5. QED
    BY <1>3, <1>4

LEMMA RestOfTargets == Targets # <<>> => TargetSet \subseteq {Head(Targets)} \cup Rest(Targets)
  <1> SUFFICES ASSUME Targets # <<>>, NEW i \in DOMAIN Targets
               PROVE  Targets[i] \in {Head(Targets)} \cup Rest(Targets)
    BY DEF TargetSet
  <1>1. Targets \in Seq(TargetSet)
    BY PageAssumption
  <1>2. i \in 1..Len(Targets)
    BY <1>1
  <1>3. CASE i = 1
    BY <1>1, <1>3
  <1>4. CASE i # 1
    <2>1. i \in 2..Len(Targets)
      BY <1>1, <1>2, <1>4
    <2>2. QED
      BY <2>1 DEF Rest
  <1>5. QED
    BY <1>3, <1>4

LEMMA NoTargets == Targets = <<>> => TargetSet = {}
  BY DEF TargetSet

LEMMA ResultsStay ==
  ASSUME ResultsOwed, Unspoiled' => Unspoiled,
         UNCHANGED <<router.engine, router.version>>,
         documents'.action = documents.action, documents'.statuses = documents.statuses,
         documents'.statusRead = documents.statusRead,
         ActionBusy(documents.action) /\ flags.engineBusy => flags'.engineBusy,
         flags.actionPollPending => flags'.actionPollPending,
         Unanswered => Unanswered' \/ flags'.actionPollPending,
         \A c \in Chains : /\ Reading(c)' <=> Reading(c)
                           /\ Reading(c) => chain'[c] = chain[c]
  PROVE  ResultsOwed'
  <1> SUFFICES ASSUME Unspoiled' PROVE ResultsHeld'
    BY DEF ResultsOwed
  <1>1. ResultsHeld
    BY DEF ResultsOwed
  <1>2. ASSUME NEW t PROVE Has(documents, t)' <=> Has(documents, t)
    BY DEF Has
  <1>3. ASSUME NEW c \in Chains, BringsResults(c) PROVE BringsResults(c)'
    <2>1. chain'[c] = chain[c]
      BY <1>3, BringingIsReading
    <2>2. \A t : Has(chain[c].d, t)' <=> Has(chain[c].d, t)
      BY <2>1 DEF Has
    <2>3. QED
      BY <1>2, <1>3, <2>1, <2>2 DEF BringsResults
  <1>4. ASSUME NEW c \in Chains
        PROVE  /\ BringsInventory(c)' <=> BringsInventory(c)
               /\ BringsInventory(c) => chain'[c] = chain[c]
    BY DEF BringsInventory, Reading
  <1>5. ActionBusy(documents'.action) => flags'.engineBusy
    BY <1>1 DEF ResultsHeld
  <1>6. \A c \in Chains : BringsInventory(c)' => chain'[c].d.targets = Targets
    BY <1>1, <1>4 DEF ResultsHeld
  <1>7. CASE Unanswered \/ flags.actionPollPending
    BY <1>5, <1>6, <1>7 DEF ResultsHeld
  <1>8. CASE \E c \in Chains : BringsResults(c)
    BY <1>3, <1>5, <1>6, <1>8 DEF ResultsHeld
  <1>9. CASE ActionBusy(documents.action) /\ \A c \in Chains : ~BringsInventory(c)
    BY <1>4, <1>5, <1>6, <1>9 DEF ResultsHeld
  <1>10. CASE /\ router.engine = "idle" /\ \A c \in Chains : ~Reading(c)
              /\ \A t \in TargetSet : Has(documents, t)
    BY <1>2, <1>5, <1>6, <1>10 DEF ResultsHeld
  <1>11. QED
    BY <1>1, <1>7, <1>8, <1>9, <1>10 DEF ResultsHeld

\* A refresh brings the results, whatever else is so.
LEMMA RefreshBringsResults ==
  ASSUME ResultsOwed, Reads, NEW c \in Chains, Refresh(c), Unspoiled' => Unspoiled,
         Unspoiled' /\ ActionBusy(documents'.action) => flags'.engineBusy
  PROVE  ResultsOwed'
  <1> SUFFICES ASSUME Unspoiled' PROVE ResultsHeld'
    BY DEF ResultsOwed
  <1>1. /\ Others(c) /\ chain'[c].at = "inventory" /\ chain'[c].d.targets = Targets
        /\ \A o \in Chains \ {c} : ~Reading(o)
    BY RefreshDoes DEF Unspoiled
  <1>2. BringsResults(c)'
    BY <1>1 DEF BringsResults
  <1>3. \A o \in Chains \ {c} : ~BringsInventory(o)'
    BY <1>1 DEF Others, Reading, BringsInventory
  <1>4. QED
    BY <1>1, <1>2, <1>3 DEF ResultsHeld

LEMMA StillUnspoiled ==
  ASSUME Remembered, flags'.withheld = "never" => flags.withheld = "never"
  PROVE  Unspoiled' => Unspoiled
  BY DEF Remembered, Unspoiled

LEMMA BusyAnswer == ActionBusy(<<router.engine, router.version>>) <=> router.engine = "busy"
  <1>1. <<router.engine, router.version>>[1] = router.engine /\ None[1] = "none"
    BY DEF None
  <1>2. router.engine = "busy" => <<router.engine, router.version>> # None
    BY <1>1, Zenon
  <1>3. QED
    BY <1>1, <1>2 DEF ActionBusy

\* No other chain reads, unless two have overlapped.
LEMMA OnlyReader ==
  ASSUME HardwareOwed, Unspoiled, NEW c \in Chains, Reading(c), Others(c)
  PROVE  \A o \in Chains \ {c} : ~Reading(o) /\ ~Reading(o)' /\ ~BringsInventory(o)'
  BY DEF HardwareOwed, Unspoiled, Others, Reading, BringsInventory

LEMMA ReadNextResults ==
  ASSUME TypeOK, ResultsOwed, NEW c \in Chains, ReadNext(c)
  PROVE  ResultsOwed'
  <1> DEFINE d == chain[c].d
  <1>0. Reads /\ DocumentOK(d) /\ router.engine \in {"idle", "busy"}
    BY Parts DEF Reads, ChainOK, RouterOK, RouterType
  <1>1. \E at \in {"action", "operation"} : \E todo : Ask(c, at, todo, d)
    BY DEF ReadNext
  <1> PICK at \in {"action", "operation"} : \E todo : Ask(c, at, todo, d)
    BY <1>1
  <1> PICK todo : Ask(c, at, todo, d)
    OBVIOUS
  <1>2. PICK fail \in BOOLEAN :
          /\ Remembered /\ Others(c) /\ (fail => used'.failed)
          /\ chain'[c] = [at |-> at, todo |-> todo, d |-> Answered(d, at, todo, fail)]
    BY <1>0, AskDoes
  <1>3. chain[c].at \in {"inventory", "operation"} /\ UNCHANGED <<router, documents, flags, launch>>
    BY DEF ReadNext, page
  <1> SUFFICES ASSUME Unspoiled' PROVE ResultsHeld'
    BY DEF ResultsOwed
  <1>4. Unspoiled /\ ResultsHeld /\ ~fail
    BY <1>2, <1>3, StillUnspoiled DEF ResultsOwed, Unspoiled
  <1>5. chain'[c].at = at /\ chain'[c].d = Answered(d, at, todo, fail)
    BY <1>2
  <1>6. /\ chain'[c].d.targets = d.targets
        /\ at = "action" => chain'[c].d.action = <<router.engine, router.version>>
    BY <1>0, <1>4, <1>5, AnswerGives
  <1>7. BringsInventory(c)
    BY <1>3 DEF BringsInventory, Reading
  <1>8. BringsResults(c)'
    BY <1>0, <1>3, <1>5, <1>6, BusyAnswer DEF BringsResults
  <1>9. ASSUME NEW o \in Chains, BringsInventory(o)' PROVE chain'[o].d.targets = Targets
    <2>1. CASE o = c
      BY <1>4, <1>6, <1>7, <2>1 DEF ResultsHeld
    <2>2. CASE o # c
      BY <1>2, <1>4, <1>9, <2>2 DEF Others, BringsInventory, Reading, ResultsHeld
    <2>3. QED
      BY <2>1, <2>2
  <1>10. ActionBusy(documents'.action) => flags'.engineBusy
    BY <1>3, <1>4 DEF ResultsHeld
  <1>11. QED
    BY <1>8, <1>9, <1>10 DEF ResultsHeld

\* The next status is asked for, by a refresh.
LEMMA NextStatusResults ==
  ASSUME TypeOK, HardwareOwed, ResultsOwed, NEW c \in Chains \ {"fill"},
         NEW todo \in Seq(TargetSet) \ {<<>>},
         \/ chain[c].at = "action" /\ todo = chain[c].d.targets
         \/ chain[c].at = "status" /\ todo = Tail(chain[c].todo),
         Ask(c, "status", todo, chain[c].d), UNCHANGED <<router, page, launch>>
  PROVE  ResultsOwed'
  <1> DEFINE d == chain[c].d
             h == Head(todo)
  <1>0. Reads /\ DocumentOK(d) /\ c # "fill" /\ c \in Chains
        /\ (chain[c].at = "status" => chain[c].todo \in Seq(TargetSet) \ {<<>>})
    BY Parts DEF Reads, ChainOK
  <1>2. PICK fail \in BOOLEAN :
          /\ Remembered /\ Others(c) /\ (fail => used'.failed)
          /\ chain'[c] = [at |-> "status", todo |-> todo, d |-> Answered(d, "status", todo, fail)]
    BY <1>0, AskDoes
  <1>3. UNCHANGED <<router, documents, flags, launch>>
    BY DEF page
  <1> SUFFICES ASSUME Unspoiled' PROVE ResultsHeld'
    BY DEF ResultsOwed
  <1>4. Unspoiled /\ ResultsHeld /\ ~fail
    BY <1>2, <1>3, StillUnspoiled DEF ResultsOwed, Unspoiled
  <1>5. chain'[c].at = "status" /\ chain'[c].todo = todo
        /\ chain'[c].d = Answered(d, "status", todo, fail)
    BY <1>2
  <1>6. /\ chain'[c].d.targets = d.targets /\ chain'[c].d.action = d.action
        /\ chain'[c].d.statusRead = d.statusRead \cup {h}
        /\ chain'[c].d.statuses[h] = router.version
        /\ \A t \in d.statusRead \ {h} : chain'[c].d.statuses[t] = d.statuses[t]
    BY <1>0, <1>4, <1>5, AnswerGives
  <1>7. Reading(c) /\ BringsInventory(c)
    BY <1>0 DEF BringsInventory, Reading
  <1>8. \A o \in Chains \ {c} : ~Reading(o) /\ ~Reading(o)' /\ ~BringsInventory(o)'
    BY <1>0, <1>2, <1>4, <1>7, OnlyReader
  <1>9. Has(chain[c].d, h)' /\ \A t : Has(d, t) => Has(chain[c].d, t)'
    BY <1>3, <1>6 DEF Has
  <1>10. ActionBusy(documents'.action) => flags'.engineBusy
    BY <1>3, <1>4 DEF ResultsHeld
  <1>11. \A o \in Chains : BringsInventory(o)' => chain'[o].d.targets = Targets
    BY <1>4, <1>6, <1>7, <1>8 DEF ResultsHeld
  <1>12. CASE Unanswered \/ flags.actionPollPending
    BY <1>3, <1>10, <1>11, <1>12 DEF ResultsHeld, Unanswered
  <1>13. CASE BringsResults(c)
    <2>1. CASE ActionBusy(d.action)
      <3>1. BringsResults(c)'
        BY <1>0, <1>5, <1>6, <2>1 DEF BringsResults
      <3>2. QED
        BY <1>0, <1>10, <1>11, <3>1 DEF ResultsHeld
    <2>2. CASE ~ActionBusy(d.action)
      <3>1. router.engine = "idle"
        BY <1>0, <1>13, <2>2 DEF BringsResults
      <3>2. ASSUME NEW t \in TargetSet \ Rest(todo) PROVE t = h \/ Has(d, t)
        <4>1. CASE chain[c].at = "action"
          <5>1. todo = Targets
            BY <1>4, <1>7, <4>1 DEF ResultsHeld
          <5>2. QED
            BY <3>2, <5>1, RestOfTargets
        <4>2. CASE chain[c].at = "status" /\ todo = Tail(chain[c].todo)
          <5>1. Rest(chain[c].todo) \subseteq {h} \cup Rest(todo)
            BY <1>0, <4>2, RestOf
          <5>2. \A x \in TargetSet \ Rest(chain[c].todo) : Has(d, x)
            BY <1>0, <1>13, <2>2, <4>2 DEF BringsResults
          <5>3. QED
            BY <3>2, <5>1, <5>2
        <4>3. QED
          BY <4>1, <4>2
      <3>3. \A t \in TargetSet \ Rest(todo) : Has(chain[c].d, t)'
        BY <1>9, <3>2
      <3>4. BringsResults(c)'
        BY <1>0, <1>3, <1>5, <3>1, <3>3 DEF BringsResults
      <3>5. QED
        BY <1>0, <1>10, <1>11, <3>4 DEF ResultsHeld
    <2>3. QED
      BY <2>1, <2>2
  <1>14. QED
    BY <1>0, <1>4, <1>7, <1>8, <1>12, <1>13, BringingIsReading DEF ResultsHeld

\* The last status has landed: everything is installed.
LEMMA InstallResults ==
  ASSUME TypeOK, HardwareOwed, ResultsOwed, NEW c \in Chains \ {"fill"},
         \/ chain[c].at = "action" /\ chain[c].d.targets = <<>>
         \/ chain[c].at = "status" /\ Tail(chain[c].todo) = <<>>,
         Install(c, chain[c].d), UNCHANGED <<router, launch>>
  PROVE  ResultsOwed'
  <1> DEFINE d == chain[c].d
  <1>0. DocumentOK(d) /\ c # "fill" /\ c \in Chains
        /\ (chain[c].at = "status" => chain[c].todo \in Seq(TargetSet) \ {<<>>})
    BY Parts DEF Reads, ChainOK
  <1>1. /\ documents'.action = d.action
        /\ documents'.statuses = d.statuses /\ documents'.statusRead = d.statusRead
        /\ Drew /\ flags'.actionPollPending = flags.actionPollPending
        /\ Remembered /\ Others(c) /\ chain'[c].at = "idle"
    BY <1>0, InstallDoes
  <1> SUFFICES ASSUME Unspoiled' PROVE ResultsHeld'
    BY DEF ResultsOwed
  <1>2. flags'.withheld = "never" /\ flags'.engineBusy = ActionBusy(documents'.action)
        /\ flags.withheld = "never"
    BY <1>1 DEF Drew, Unspoiled
  <1>3. Unspoiled /\ ResultsHeld
    BY <1>1, <1>2, StillUnspoiled DEF ResultsOwed
  <1>4. Reading(c) /\ BringsInventory(c)
    BY <1>0 DEF BringsInventory, Reading
  <1>5. \A o \in Chains \ {c} : ~Reading(o) /\ ~Reading(o)' /\ ~BringsInventory(o)'
    BY <1>0, <1>1, <1>3, <1>4, OnlyReader
  <1>6. \A o \in Chains : ~Reading(o)' /\ ~BringsInventory(o)'
    BY <1>1, <1>5 DEF Reading, BringsInventory
  <1>7. CASE Unanswered \/ flags.actionPollPending
    BY <1>1, <1>2, <1>6, <1>7 DEF ResultsHeld, Unanswered
  <1>8. CASE ActionBusy(d.action)
    BY <1>1, <1>2, <1>6, <1>8 DEF ResultsHeld
  <1>9. CASE BringsResults(c) /\ ~ActionBusy(d.action)
    <2>1. router.engine = "idle"
      BY <1>0, <1>9 DEF BringsResults
    <2>2. ASSUME NEW t \in TargetSet PROVE Has(d, t)
      <3>1. CASE chain[c].at = "action" /\ d.targets = <<>>
        <4>1. Targets = <<>>
          BY <1>3, <1>4, <3>1 DEF ResultsHeld
        <4>2. QED
          BY <2>2, <4>1, NoTargets
      <3>2. CASE chain[c].at = "status" /\ Tail(chain[c].todo) = <<>>
        <4>1. Rest(chain[c].todo) = {}
          BY <1>0, <3>2, RestOf
        <4>2. QED
          BY <1>0, <1>9, <2>2, <3>2, <4>1 DEF BringsResults
      <3>3. QED
        BY <3>1, <3>2
    <2>3. \A t \in TargetSet : Has(documents, t)'
      BY <1>1, <2>2 DEF Has
    <2>4. QED
      BY <1>2, <1>6, <2>1, <2>3 DEF ResultsHeld
  <1>10. QED
    BY <1>0, <1>3, <1>4, <1>5, <1>7, <1>8, <1>9, BringingIsReading DEF ResultsHeld

\* The first fill: the cards are there, the statuses are to come.
LEMMA FillRouterResults ==
  ASSUME TypeOK, HardwareOwed, ResultsOwed, FillRouter
  PROVE  ResultsOwed'
  <1> DEFINE d == chain["fill"].d
  <1>0. Reads /\ DocumentOK(d) /\ "fill" \in Chains
    BY Parts DEF Reads, ChainOK, Chains
  <1>1. /\ documents'.action = d.action /\ Drew
        /\ documents'.statuses = documents.statuses /\ documents'.statusRead = documents.statusRead
        /\ flags'.actionPollPending = flags.actionPollPending
    BY FillRouterDoes
  <1>2. /\ chain["fill"].at = "action" /\ UNCHANGED <<router, launch>>
        /\ IF d.targets = <<>> THEN EndChain("fill")
           ELSE Ask("fill", "status", d.targets, emptyDocuments)
    BY DEF FillRouter
  <1>3. \/ d.targets = <<>> /\ Remembered /\ Others("fill") /\ chain'["fill"].at = "idle"
        \/ /\ d.targets # <<>> /\ Remembered /\ Others("fill")
           /\ \E fail \in BOOLEAN :
                /\ fail => used'.failed
                /\ chain'["fill"] = [at |-> "status", todo |-> d.targets,
                                     d |-> Answered(emptyDocuments, "status", d.targets, fail)]
    BY <1>0, <1>2, EndChainDoes, AskDoes
  <1> SUFFICES ASSUME Unspoiled' PROVE ResultsHeld'
    BY DEF ResultsOwed
  <1>4. flags'.engineBusy = ActionBusy(documents'.action) /\ flags.withheld = "never"
    BY <1>1 DEF Drew, Unspoiled
  <1>5. Unspoiled /\ ResultsHeld /\ Others("fill")
    BY <1>3, <1>4, StillUnspoiled DEF ResultsOwed
  <1>6. Reading("fill") /\ BringsInventory("fill")
    BY <1>2 DEF BringsInventory, Reading
  <1>7. \A o \in Chains \ {"fill"} : ~Reading(o) /\ ~Reading(o)' /\ ~BringsInventory(o)'
    BY <1>0, <1>5, <1>6, OnlyReader
  <1>8. chain'["fill"].at \in {"idle", "status"}
    <2>1. ASSUME NEW a, chain'["fill"] = [at |-> "status", todo |-> d.targets, d |-> a]
          PROVE  chain'["fill"].at = "status"
      BY <2>1
    <2>2. QED
      BY <1>3, <2>1
  <1>9. \A o \in Chains : ~BringsInventory(o)'
    BY <1>7, <1>8 DEF Reading, BringsInventory
  <1>10. CASE Unanswered \/ flags.actionPollPending
    BY <1>1, <1>2, <1>4, <1>9, <1>10 DEF ResultsHeld, Unanswered
  <1>11. CASE ActionBusy(d.action)
    BY <1>1, <1>4, <1>9, <1>11 DEF ResultsHeld
  <1>12. CASE BringsResults("fill") /\ ~ActionBusy(d.action)
    <2>1. router.engine = "idle" /\ d.targets = Targets
      <3>1. router.engine = "idle"
        BY <1>2, <1>12 DEF BringsResults
      <3>2. d.targets = Targets
        BY <1>0, <1>5, <1>6 DEF ResultsHeld
      <3>3. QED
        BY <3>1, <3>2
    <2>2. CASE Targets = <<>>
      <3>1. chain'["fill"].at = "idle" /\ TargetSet = {}
        BY <1>3, <2>1, <2>2, NoTargets
      <3>2. \A o \in Chains : ~Reading(o)'
        BY <1>7, <3>1 DEF Reading
      <3>3. QED
        BY <1>2, <1>4, <1>9, <2>1, <3>1, <3>2 DEF ResultsHeld
    <2>3. CASE Targets # <<>>
      <3>1. PICK fail \in BOOLEAN :
              /\ fail => used'.failed
              /\ chain'["fill"] = [at |-> "status", todo |-> Targets,
                                   d |-> Answered(emptyDocuments, "status", Targets, fail)]
        BY <1>3, <2>1, <2>3
      <3>2. chain'["fill"].at = "status" /\ chain'["fill"].todo = Targets /\ ~fail
            /\ chain'["fill"].d = Answered(emptyDocuments, "status", Targets, fail)
        BY <3>1 DEF Unspoiled
      <3>3. /\ Head(Targets) \in chain'["fill"].d.statusRead
            /\ chain'["fill"].d.statuses[Head(Targets)] = router.version
        BY <3>2, EmptyOK, AnswerGives
      <3>4. Has(chain["fill"].d, Head(Targets))'
        BY <1>2, <3>3 DEF Has
      <3>5. \A t \in TargetSet \ Rest(Targets) : t = Head(Targets)
        BY <2>3, RestOfTargets
      <3>6. BringsResults("fill")'
        BY <1>2, <2>1, <3>2, <3>4, <3>5 DEF BringsResults
      <3>7. QED
        BY <1>0, <1>4, <1>9, <3>6 DEF ResultsHeld
    <2>4. QED
      BY <2>2, <2>3
  <1>13. QED
    BY <1>0, <1>5, <1>6, <1>7, <1>10, <1>11, <1>12, BringingIsReading DEF ResultsHeld

\* The first fill: a status goes into the documents.
LEMMA FillStatusResults ==
  ASSUME TypeOK, HardwareOwed, ResultsOwed, FillStatus
  PROVE  ResultsOwed'
  <1> DEFINE d == chain["fill"].d
             todo == chain["fill"].todo
             h == Head(todo)
             rest == Tail(todo)
             k == Head(rest)
  <1>0. Reads /\ DocumentOK(d) /\ "fill" \in Chains
    BY Parts DEF Reads, ChainOK, Chains
  <1>1. /\ documents'.action = documents.action /\ Drew /\ SameFlags(flags)
        /\ documents'.statusRead = documents.statusRead \cup {h}
        /\ documents'.statuses[h] = d.statuses[h]
        /\ \A t \in documents.statusRead \ {h} : documents'.statuses[t] = documents.statuses[t]
    BY FillStatusDoes
  <1>2. /\ chain["fill"].at = "status" /\ UNCHANGED <<router, launch>>
        /\ IF rest = <<>> THEN EndChain("fill")
           ELSE Ask("fill", "status", rest, emptyDocuments)
    BY DEF FillStatus
  <1>3. todo \in Seq(TargetSet) /\ todo # <<>> /\ h \in d.statusRead
    BY <1>0, <1>2 DEF Reads, ChainOK
  <1> HIDE DEF todo, rest
  <1>4. \/ rest = <<>> /\ Remembered /\ Others("fill") /\ chain'["fill"].at = "idle"
        \/ /\ rest # <<>> /\ Remembered /\ Others("fill")
           /\ \E fail \in BOOLEAN :
                /\ fail => used'.failed
                /\ chain'["fill"] = [at |-> "status", todo |-> rest,
                                     d |-> Answered(emptyDocuments, "status", rest, fail)]
    <2>1. CASE rest = <<>>
      BY <1>0, <1>2, <2>1, EndChainDoes
    <2>2. CASE rest # <<>>
      BY <1>0, <1>2, <2>2, AskDoes
    <2>3. QED
      BY <2>1, <2>2
  <1> SUFFICES ASSUME Unspoiled' PROVE ResultsHeld'
    BY DEF ResultsOwed
  <1>5. flags'.engineBusy = ActionBusy(documents'.action) /\ flags.withheld = "never"
    BY <1>1 DEF Drew, Unspoiled
  <1>6. Unspoiled /\ ResultsHeld /\ Others("fill")
    BY <1>4, <1>5, StillUnspoiled DEF ResultsOwed
  <1>7. Reading("fill") /\ ~BringsInventory("fill")
    BY <1>2 DEF BringsInventory, Reading
  <1>8. \A o \in Chains \ {"fill"} : ~Reading(o) /\ ~Reading(o)' /\ ~BringsInventory(o)'
    BY <1>0, <1>6, <1>7, OnlyReader
  <1>9. chain'["fill"].at \in {"idle", "status"}
    <2>1. ASSUME NEW a, chain'["fill"] = [at |-> "status", todo |-> rest, d |-> a]
          PROVE  chain'["fill"].at = "status"
      BY <2>1
    <2>2. QED
      BY <1>4, <2>1
  <1>10. \A o \in Chains : ~BringsInventory(o)'
    BY <1>8, <1>9 DEF Reading, BringsInventory
  <1>11. CASE Unanswered \/ flags.actionPollPending
    BY <1>1, <1>2, <1>5, <1>10, <1>11 DEF ResultsHeld, Unanswered, SameFlags
  <1>12. CASE ActionBusy(documents.action)
    BY <1>1, <1>5, <1>10, <1>12 DEF ResultsHeld
  <1>13. CASE BringsResults("fill")
    <2>1. /\ router.engine = "idle" /\ (h \in TargetSet \ Rest(todo) => Has(d, h))
          /\ \A t \in (TargetSet \ Rest(todo)) \ {h} : Has(documents, t)
      BY <1>2, <1>13 DEF BringsResults, todo
    <2>2. \A t \in TargetSet \ Rest(todo) : Has(documents, t)'
      BY <1>1, <1>2, <2>1 DEF Has
    <2>3. CASE rest = <<>>
      <3>1. chain'["fill"].at = "idle" /\ Rest(todo) = {}
        BY <1>3, <1>4, <2>3, RestOf DEF rest
      <3>2. \A o \in Chains : ~Reading(o)'
        BY <1>8, <3>1 DEF Reading
      <3>3. QED
        BY <1>2, <1>5, <1>10, <2>1, <2>2, <3>1, <3>2 DEF ResultsHeld
    <2>4. CASE rest # <<>>
      <3>1. PICK fail \in BOOLEAN :
              /\ fail => used'.failed
              /\ chain'["fill"] = [at |-> "status", todo |-> rest,
                                   d |-> Answered(emptyDocuments, "status", rest, fail)]
        BY <1>4, <2>4
      <3>2. chain'["fill"].at = "status" /\ chain'["fill"].todo = rest /\ ~fail
            /\ chain'["fill"].d = Answered(emptyDocuments, "status", rest, fail)
        BY <3>1 DEF Unspoiled
      <3>3. k \in chain'["fill"].d.statusRead /\ chain'["fill"].d.statuses[k] = router.version
        BY <3>2, EmptyOK, AnswerGives
      <3>4. k \in chain'["fill"].d.statusRead /\ chain'["fill"].d.statuses[k] = router'.version
        BY <1>2, <3>3
      <3>5. Rest(todo) \subseteq {k} \cup Rest(rest)
        BY <1>3, <2>4, RestOf DEF rest
      <3>6. \A t \in TargetSet \ Rest(rest) : t = k \/ Has(documents, t)'
        BY <2>2, <3>5
      <3>7. BringsResults("fill")'
        BY <1>2, <2>1, <3>2, <3>4, <3>6 DEF BringsResults, Has
      <3>8. QED
        BY <1>0, <1>5, <1>10, <3>7 DEF ResultsHeld
    <2>5. QED
      BY <2>3, <2>4
  <1>14. QED
    BY <1>0, <1>6, <1>7, <1>8, <1>11, <1>12, <1>13, BringingIsReading DEF ResultsHeld

LEMMA LandActionResults ==
  ASSUME TypeOK, ResultsOwed, LandAction PROVE ResultsOwed'
  <1> DEFINE action == chain["action"].d.action
  <1>0. Reads /\ "action" \in Chains
    BY Parts DEF Chains
  <1>1. /\ chain["action"].at = "poll" /\ documents'.action = action
        /\ documents'.statuses = documents.statuses
        /\ documents'.statusRead = documents.statusRead
        /\ flags'.engineBusy = ActionBusy(action) \/ flags'.withheld = "now"
        /\ flags'.withheld = "never" => flags.withheld = "never"
        /\ UNCHANGED <<router, launch>>
    BY LandActionDoes DEF LandAction
  <1>2. CASE Refresh("action")
    <2>1. Remembered
      BY <1>0, <1>2, RefreshDoes
    <2>2. Unspoiled' => Unspoiled
      BY <1>1, <2>1, StillUnspoiled
    <2>3. Unspoiled' /\ ActionBusy(documents'.action) => flags'.engineBusy
      BY <1>1 DEF Unspoiled
    <2>4. QED
      BY <1>0, <1>2, <2>2, <2>3, RefreshBringsResults
  <1>3. CASE /\ EndChain("action")
             /\ flags.engineBusy => ActionBusy(action)
             /\ flags'.actionPollPending = flags.actionPollPending
    <2> SUFFICES ASSUME Unspoiled' PROVE ResultsHeld'
      BY DEF ResultsOwed
    <2>1. Remembered /\ Others("action") /\ chain'["action"].at = "idle"
      BY <1>0, <1>3, EndChainDoes
    <2>2. Unspoiled /\ ResultsHeld /\ flags'.engineBusy = ActionBusy(documents'.action)
      BY <1>1, <2>1, StillUnspoiled DEF ResultsOwed, Unspoiled
    <2>3. \A c \in Chains : /\ Reading(c)' <=> Reading(c)
                            /\ Reading(c) => chain'[c] = chain[c]
      BY <1>1, <2>1 DEF Others, Reading
    <2>4. \A c \in Chains : /\ BringsInventory(c)' <=> BringsInventory(c)
                            /\ BringsInventory(c) => chain'[c] = chain[c]
      BY <2>3 DEF BringsInventory, Reading
    <2>5. \A t : Has(documents, t)' <=> Has(documents, t)
      BY <1>1 DEF Has
    <2>6. ASSUME NEW c \in Chains, BringsResults(c) PROVE BringsResults(c)'
      <3>1. chain'[c] = chain[c]
        BY <2>3, <2>6, BringingIsReading
      <3>2. \A t : Has(chain[c].d, t)' <=> Has(chain[c].d, t)
        BY <1>1, <3>1 DEF Has
      <3>3. QED
        BY <1>1, <2>5, <2>6, <3>1, <3>2 DEF BringsResults
    <2>7. \A c \in Chains : BringsInventory(c)' => chain'[c].d.targets = Targets
      BY <2>2, <2>4 DEF ResultsHeld
    <2>8. ActionBusy(documents.action) => ActionBusy(documents'.action)
      BY <1>1, <1>3, <2>2 DEF ResultsHeld
    <2>9. CASE Unanswered \/ flags.actionPollPending
      BY <1>1, <1>3, <2>2, <2>7, <2>9 DEF ResultsHeld, Unanswered
    <2>10. CASE \E c \in Chains : BringsResults(c)
      BY <2>2, <2>6, <2>7, <2>10 DEF ResultsHeld
    <2>11. CASE ActionBusy(documents.action) /\ \A c \in Chains : ~BringsInventory(c)
      BY <2>2, <2>4, <2>7, <2>8, <2>11 DEF ResultsHeld
    <2>12. CASE /\ router.engine = "idle" /\ \A c \in Chains : ~Reading(c)
                /\ \A t \in TargetSet : Has(documents, t)
      BY <1>1, <2>2, <2>3, <2>5, <2>7, <2>12 DEF ResultsHeld
    <2>13. QED
      BY <2>2, <2>9, <2>10, <2>11, <2>12 DEF ResultsHeld
  <1>4. QED
    BY <1>2, <1>3, LandActionDoes

\* A launch reaches the router, or an operation ends.
LEMMA ServeResults == ASSUME TypeOK, ResultsOwed, Serve PROVE ResultsOwed'
  <1>0. router \in RouterType /\ used \in UsedType
        /\ launch \in {"sent", "served"} \X Operations /\ launch' = <<"served", launch[2]>>
        /\ UNCHANGED <<page, chain>>
    BY Parts DEF Serve, RouterOK, Reads, DialogOK
  <1>1. Remembered /\ (Unanswered => Unanswered')
    <2>1. Remembered
      BY <1>0 DEF Serve, Failure, Remembered, UsedType
    <2>2. launch' # None /\ launch'[2] = launch[2]
      BY <1>0 DEF None
    <2>3. QED
      BY <2>1, <2>2 DEF Unanswered
  <1>2. Unspoiled' => Unspoiled
    BY <1>0, <1>1, StillUnspoiled DEF page
  <1>3. CASE launch[2][1] = "engine"
    <2>1. Unanswered'
      BY <1>0, <1>3 DEF Unanswered, None
    <2>2. QED
      BY <1>0, <1>2, <2>1 DEF ResultsOwed, ResultsHeld, BringsInventory, Reading, page
  <1>4. CASE launch[2][1] # "engine"
    <2>1. router'.engine = router.engine /\ router'.version = router.version
      BY <1>0, <1>4 DEF Serve, Begin, RouterType
    <2>2. QED
      BY <1>0, <1>1, <1>2, <2>1, ResultsStay DEF page, Reading
  <1>5. QED
    BY <1>3, <1>4

LEMMA EndResults == ASSUME TypeOK, ResultsOwed, End PROVE ResultsOwed'
  <1>0. /\ router \in RouterType /\ router.engine \in {"idle", "busy"}
        /\ UNCHANGED <<page, chain, launch, used>>
    BY Parts DEF End, RouterOK, RouterType
  <1>1. Unspoiled' => Unspoiled
    BY <1>0 DEF Unspoiled, page
  <1>2. CASE router.engine = "idle"
    <2>1. router'.engine = router.engine /\ router'.version = router.version
      BY <1>0, <1>2 DEF End, RouterType
    <2>2. QED
      BY <1>0, <1>1, <2>1, ResultsStay DEF page, Reading, Unanswered
  <1>3. CASE router.engine = "busy"
    <2> SUFFICES ASSUME Unspoiled' PROVE ResultsHeld'
      BY DEF ResultsOwed
    <2>1. ResultsHeld
      BY <1>1 DEF ResultsOwed
    <2>2. \A c \in Chains : BringsResults(c) => BringsResults(c)'
      BY <1>0, <1>3 DEF BringsResults
    <2>3. \A c \in Chains : BringsInventory(c)' <=> BringsInventory(c)
      BY <1>0 DEF BringsInventory, Reading
    <2>4. \/ Unanswered \/ flags.actionPollPending
          \/ \E c \in Chains : BringsResults(c)
          \/ ActionBusy(documents.action) /\ \A c \in Chains : ~BringsInventory(c)
      BY <1>3, <2>1 DEF ResultsHeld
    <2>5. UNCHANGED <<documents, flags, chain, launch>>
      BY <1>0 DEF page
    <2>6. QED
      BY <2>1, <2>2, <2>3, <2>4, <2>5 DEF ResultsHeld, Unanswered
  <1>4. QED
    BY <1>0, <1>2, <1>3

LEMMA QuietResults ==
  ASSUME TypeOK, HardwareOwed, ResultsOwed, QuietStep PROVE ResultsOwed'
  <1>0. /\ Reads /\ flags \in FlagType /\ router \in RouterType /\ used \in UsedType
        /\ Quiet
    BY Parts, QuietSteps DEF TypeOK, RouterOK, Reads
  <1>1. flags'.withheld = flags.withheld /\ UNCHANGED documents
    BY <1>0 DEF Quiet
  <1>2. ASSUME NEW c \in Chains, RefreshStatus(c), UNCHANGED page PROVE ResultsOwed'
    <2> DEFINE d == chain[c].d
               rest == IF chain[c].at = "action" THEN d.targets ELSE Tail(chain[c].todo)
    <2>1. /\ c # "fill" /\ chain[c].at \in {"action", "status"}
          /\ IF rest = <<>> THEN Install(c, d) ELSE Ask(c, "status", rest, d)
          /\ UNCHANGED <<router, launch>>
      BY <1>2 DEF RefreshStatus
    <2>2. rest \in Seq(TargetSet)
      <3>1. d.targets \in Seq(TargetSet)
        BY DEF TypeOK, ChainOK, DocumentOK
      <3>2. chain[c].at = "status" => chain[c].todo \in Seq(TargetSet) /\ chain[c].todo # <<>>
        BY DEF TypeOK, ChainOK
      <3>3. chain[c].at = "status" => Tail(chain[c].todo) \in Seq(TargetSet)
        BY <3>2
      <3>4. QED
        BY <2>1, <3>1, <3>3
    <2>3. \/ chain[c].at = "action" /\ rest = d.targets
          \/ chain[c].at = "status" /\ rest = Tail(chain[c].todo)
      BY <2>1
    <2> HIDE DEF rest
    <2>4. CASE rest = <<>>
      BY <2>1, <2>3, <2>4, InstallResults
    <2>5. CASE rest # <<>>
      BY <1>2, <2>1, <2>2, <2>3, <2>5, NextStatusResults
    <2>6. QED
      BY <2>4, <2>5
  <1>3. CASE PollAction
    <2>1. /\ chain["action"].at = "idle" /\ chain'["action"].at = "poll" /\ Others("action")
          /\ UNCHANGED <<router, documents, flags, used, launch>>
      BY <1>0, <1>3 DEF PollAction, Reads, Others, page, Chains
    <2>2. \A c \in Chains : /\ Reading(c)' <=> Reading(c)
                            /\ Reading(c) => chain'[c] = chain[c]
      BY <2>1 DEF Others, Reading
    <2>3. QED
      BY <2>1, <2>2, ResultsStay DEF Unspoiled, Unanswered
  <1>4. CASE PollModem
    <2>1. Refresh("modem") /\ "modem" \in Chains /\ UNCHANGED <<router, page, launch>>
      BY <1>4 DEF PollModem, Chains
    <2>2. Remembered
      BY <1>0, <2>1, RefreshDoes
    <2>3. (Unspoiled' => Unspoiled) /\ UNCHANGED <<documents, flags>>
      BY <2>1, <2>2, StillUnspoiled DEF page
    <2>4. Unspoiled' /\ ActionBusy(documents'.action) => flags'.engineBusy
      BY <2>3 DEF ResultsOwed, ResultsHeld
    <2>5. QED
      BY <1>0, <2>1, <2>3, <2>4, RefreshBringsResults
  <1>5. CASE PollGeneration
    <2>1. /\ flags' = [flags EXCEPT !.hardwareGeneration = router.generation]
          /\ UNCHANGED <<router, documents, launch>>
          /\ UNCHANGED <<chain, used>> \/ Refresh("generation")
      BY <1>5 DEF PollGeneration
    <2>2. flags'.engineBusy = flags.engineBusy
          /\ flags'.actionPollPending = flags.actionPollPending
      BY <1>0, <2>1 DEF FlagType
    <2>3. CASE UNCHANGED <<chain, used>>
      BY <1>1, <2>1, <2>2, <2>3, ResultsStay DEF Unspoiled, Unanswered, Reading
    <2>4. CASE Refresh("generation")
      <3>1. Remembered /\ "generation" \in Chains
        BY <1>0, <2>4, RefreshDoes DEF Chains
      <3>2. Unspoiled' => Unspoiled
        BY <1>1, <3>1, StillUnspoiled
      <3>3. Unspoiled' /\ ActionBusy(documents'.action) => flags'.engineBusy
        BY <2>1, <2>2, <3>2 DEF ResultsOwed, ResultsHeld
      <3>4. QED
        BY <1>0, <2>4, <3>1, <3>2, <3>3, RefreshBringsResults
    <2>5. QED
      BY <2>1, <2>3, <2>4
  <1>6. CASE EditPolicy \/ OpenConfirmation \/ CloseConfirmation
    <2>1. UNCHANGED <<router, documents, chain, launch>>
      BY <1>6 DEF EditPolicy, OpenConfirmation, CloseConfirmation, page
    <2>2. Remembered
      BY <1>0, <1>6 DEF EditPolicy, OpenConfirmation, CloseConfirmation, Requested, Remembered,
                        UsedType
    <2>3. flags'.engineBusy = flags.engineBusy
          /\ flags'.actionPollPending = flags.actionPollPending
      BY <1>0, <1>6 DEF EditPolicy, OpenConfirmation, CloseConfirmation, page, FlagType
    <2>4. Unspoiled' => Unspoiled
      BY <1>1, <2>2, StillUnspoiled
    <2>5. QED
      BY <2>1, <2>3, <2>4, ResultsStay DEF Unanswered, Reading
  <1>7. CASE Confirm
    <2>1. /\ UNCHANGED <<router, documents, chain, used>> /\ launch = None
          /\ flags' = IF dialog[1] = "engine" THEN [flags EXCEPT !.engineBusy = TRUE] ELSE flags
      BY <1>7 DEF Confirm
    <2>2. /\ flags.engineBusy => flags'.engineBusy
          /\ flags'.actionPollPending = flags.actionPollPending
      BY <1>0, <2>1 DEF FlagType
    <2>3. QED
      BY <1>1, <2>1, <2>2, ResultsStay DEF Unspoiled, Unanswered, Reading
  <1>8. CASE LandLaunch
    <2>1. /\ UNCHANGED <<router, documents, chain, used>>
          /\ flags' = IF launch[2][1] = "engine" THEN [flags EXCEPT !.actionPollPending = TRUE]
                      ELSE [flags EXCEPT !.modemPollPending = TRUE]
      BY <1>8 DEF LandLaunch
    <2>2. /\ flags'.engineBusy = flags.engineBusy
          /\ flags.actionPollPending => flags'.actionPollPending
          /\ Unanswered => flags'.actionPollPending
      BY <1>0, <2>1 DEF FlagType, Unanswered
    <2>3. QED
      BY <1>1, <2>1, <2>2, ResultsStay DEF Unspoiled, Reading
  <1>9. CASE SettingsBuilt
    <2>1. UNCHANGED <<router, documents, chain, launch, flags>> /\ Remembered
      BY <1>0, <1>9 DEF SettingsBuilt, Failure, Remembered, UsedType
    <2>2. Unspoiled' => Unspoiled
      BY <1>1, <2>1, StillUnspoiled
    <2>3. QED
      BY <2>1, <2>2, ResultsStay DEF Unanswered, Reading
  <1>10. CASE Plug
    <2>1. UNCHANGED <<page, chain, launch>> /\ Remembered
          /\ router'.engine = router.engine /\ router'.version = router.version
      BY <1>0, <1>10 DEF Plug, Remembered, UsedType, RouterType
    <2>2. Unspoiled' => Unspoiled
      BY <1>1, <2>1, StillUnspoiled
    <2>3. QED
      BY <2>1, <2>2, ResultsStay DEF Unanswered, Reading, page
  <1>11. CASE BeginElsewhere
    <2>1. used'.elsewhere
      BY <1>0, <1>11 DEF BeginElsewhere, UsedType
    <2>2. QED
      BY <2>1 DEF ResultsOwed, Unspoiled
  <1>12. QED
    BY <1>2, <1>3, <1>4, <1>5, <1>6, <1>7, <1>8, <1>9, <1>10, <1>11, ReadNextResults,
       ServeResults, EndResults DEF QuietStep

LEMMA ResultsStep == TypeOK /\ HardwareOwed /\ ResultsOwed /\ [Next]_vars => ResultsOwed'
  <1> SUFFICES ASSUME TypeOK, HardwareOwed, ResultsOwed, [Next]_vars PROVE ResultsOwed'
    OBVIOUS
  <1>1. CASE QuietStep
    BY <1>1, QuietResults
  <1>2. CASE FillRouter \/ FillStatus \/ LandAction
    BY <1>2, FillRouterResults, FillStatusResults, LandActionResults
  <1>3. CASE Navigate
    <2>1. /\ Drew /\ SameFlags(flags) /\ UNCHANGED <<router, documents, chain, launch>>
          /\ Remembered /\ flags'.withheld # "now"
      BY <1>3, NavigateDoes
    <2>2. /\ flags'.engineBusy = ActionBusy(documents'.action)
          /\ flags'.withheld = "never" => flags.withheld = "never"
      BY <2>1 DEF Drew
    <2>3. Unspoiled' => Unspoiled
      BY <2>1, <2>2, StillUnspoiled
    <2>4. QED
      BY <2>1, <2>2, <2>3, ResultsStay DEF SameFlags, Unanswered, Reading
  <1>4. ASSUME NEW c \in Chains, RefreshStatus(c), Install(c, chain[c].d) PROVE ResultsOwed'
    <2>1. /\ c # "fill" /\ chain[c].at \in {"action", "status"} /\ UNCHANGED <<router, launch>>
          /\ \/ (IF chain[c].at = "action" THEN chain[c].d.targets ELSE Tail(chain[c].todo)) = <<>>
             \/ \E todo : Ask(c, "status", todo, chain[c].d)
      BY <1>4 DEF RefreshStatus
    <2>2. chain'[c].at = "idle"
      <3>1. DocumentOK(chain[c].d)
        BY DEF TypeOK, ChainOK
      <3>2. QED
        BY <1>4, <3>1, InstallDoes
    <2>3. ASSUME NEW todo, Ask(c, "status", todo, chain[c].d) PROVE FALSE
      <3>1. Reads
        BY Parts
      <3>2. Reading(c)'
        BY <2>3, <3>1, AskReads
      <3>3. QED
        BY <2>2, <3>2 DEF Reading
    <2>4. QED
      BY <1>4, <2>1, <2>3, InstallResults
  <1>5. CASE UNCHANGED vars
    BY <1>5, ResultsStay DEF vars, page, Unspoiled, Unanswered, Reading
  <1>6. QED
    BY <1>1, <1>2, <1>3, <1>4, <1>5, StepKinds

LEMMA ResultsInit == Init => ResultsOwed
  <1> SUFFICES ASSUME Init PROVE ResultsHeld
    BY DEF ResultsOwed
  <1> DEFINE d == [emptyDocuments EXCEPT !.targets = Targets, !.modems = Attached]
  <1>1. d.targets = Targets
    BY DEF emptyDocuments
  <1> HIDE DEF d
  <1>2. chain["fill"] = [at |-> "inventory", todo |-> <<>>, d |-> d]
        /\ \A c \in Chains \ {"fill"} : chain[c] = Idle
    BY DEF Init, Chains, d
  <1>3. chain["fill"].at = "inventory" /\ chain["fill"].d.targets = Targets
    BY <1>1, <1>2
  <1>4. \A c \in Chains \ {"fill"} : ~Reading(c)
    BY <1>2 DEF Reading, Idle
  <1>5. BringsResults("fill") /\ "fill" \in Chains
    BY <1>3 DEF BringsResults, Chains
  <1>6. ~ActionBusy(documents.action)
    BY DEF Init, ActionBusy, emptyDocuments
  <1>7. QED
    BY <1>3, <1>4, <1>5, <1>6 DEF ResultsHeld, BringsInventory
-----------------------------------------------------------------------------
(* The theorems.                                                           *)

\* normaliseRoute, setControlsBusy and the readers: the open card is one that was read,
\* what is disabled was drawn, and what a reader waits for it has asked for.
THEOREM TypeCorrect == Spec => []TypeOK
  BY TypeInit, TypeStep, PTL DEF Spec

\* renderRoute's callers and renderSettingsArea: neither form is replaced, however many
\* refreshes land, while the user edits it.
THEOREM FormsAreKept == Spec => FormIsKept
  <1>1. TypeOK /\ [Next]_vars => [Kept]_vars
    BY KeptStep
  <1>2. QED
    BY <1>1, TypeCorrect, PTL DEF Spec, FormIsKept, Kept

\* renderRoute and its callers: unless another area is open or the last redraw was withheld,
\* the cards, the results and the open card on the screen are those of the page's documents.
THEOREM ScreenShowsDocuments == Spec => []ScreenIsCurrent
  BY ScreenInit, ScreenStep, TypeCorrect, PTL DEF Spec

\* startAction, startModemAction and renderRoute: whenever a control is disabled, an operation
\* is known to run, a poll is still due, a launch is unanswered, or a chain is under way, each
\* of which ends in a drawing; only a redraw that was withheld from a form is due to nobody.
THEOREM ControlsAreOwed == Spec => []DisabledIsOwed
  BY OwedInit, OwedStep, TypeCorrect, PTL DEF Spec

\* The generation the page compares and the chains it starts (PollGeneration, Install): the
\* attached modems are read, or being read.
THEOREM HardwareIsOwed == Spec => []HardwareOwed
  BY HardwareInit, HardwareStep, TypeCorrect, PTL DEF Spec

\* Once the page has compared generations and nothing is being read, the overview shows
\* exactly the modems that are attached.
HardwareIsDrawn ==
    (/\ ~used.early /\ ~used.overlap /\ ~used.failed /\ ~NotDrawn
     /\ flags.hardwareGeneration = router.generation /\ \A c \in Chains : ~Reading(c))
    => {m \in ModemSet : <<"modem", m>> \in screen.cards} = router.attached

\* refreshHardwareGeneration with refreshDocuments: what HardwareIsShown leaves to come to
\* pass is there as soon as the chains end, however often hardware came and went before.
THEOREM HardwareGetsDrawn == Spec => []HardwareIsDrawn
  <1>1. TypeOK /\ HardwareOwed /\ ScreenIsCurrent => HardwareIsDrawn
    <2> SUFFICES ASSUME TypeOK, HardwareOwed, ScreenIsCurrent,
                        ~used.early, ~used.overlap, ~used.failed, ~NotDrawn,
                        flags.hardwareGeneration = router.generation,
                        \A c \in Chains : ~Reading(c)
                 PROVE  {m \in ModemSet : <<"modem", m>> \in screen.cards} = router.attached
      BY DEF HardwareIsDrawn
    <2>1. documents.modems = router.attached /\ router.attached \subseteq ModemSet
      BY DEF HardwareOwed, BringsInventory, TypeOK
    <2>2. screen.cards = buildSubjects(documents)
      BY DEF ScreenIsCurrent
    <2>3. ASSUME NEW m \in ModemSet
          PROVE  <<"modem", m>> \in buildSubjects(documents) <=> m \in documents.modems
      BY DEF buildSubjects
    <2>4. QED
      BY <2>1, <2>2, <2>3
  <1>2. QED
    BY <1>1, TypeCorrect, HardwareIsOwed, ScreenShowsDocuments, PTL

\* The launch's answer, the polls after it and the chains they start: until the results of
\* the engine's last operation are read, one of them is still to come.
THEOREM ResultsAreOwed == Spec => []ResultsOwed
  BY ResultsInit, ResultsStep, HardwareIsOwed, TypeCorrect, PTL DEF Spec

\* Once no launch is unanswered, no poll is due and nothing is being read, the overview
\* shows of every target what was read after the last operation of the engine ended.
ResultsAreDrawn ==
    (/\ Unspoiled /\ route.area = "overview"
     /\ ~Unanswered /\ ~flags.actionPollPending /\ ~flags.engineBusy
     /\ \A c \in Chains : ~Reading(c))
    => /\ router.engine = "idle"
       /\ \A t \in TargetSet :
             t \in DOMAIN screen.statuses /\ screen.statuses[t] = router.version

\* startAction, refreshAction and refreshDocuments: no operation launched from this page ends
\* with its result unread, in whatever order its answer, its end and the polls arrive.
THEOREM ResultsGetDrawn == Spec => []ResultsAreDrawn
  <1>1. TypeOK /\ ResultsOwed /\ ScreenIsCurrent => ResultsAreDrawn
    <2> SUFFICES ASSUME TypeOK, ResultsOwed, ScreenIsCurrent,
                        Unspoiled, route.area = "overview",
                        ~Unanswered, ~flags.actionPollPending, ~flags.engineBusy,
                        \A c \in Chains : ~Reading(c)
                 PROVE  /\ router.engine = "idle"
                        /\ \A t \in TargetSet :
                             t \in DOMAIN screen.statuses /\ screen.statuses[t] = router.version
      BY DEF ResultsAreDrawn
    <2>1. router.engine = "idle" /\ \A t \in TargetSet : Has(documents, t)
      BY BringingIsReading DEF ResultsOwed, ResultsHeld
    <2>2. screen.statuses = documents.statuses
      BY DEF ScreenIsCurrent, NotDrawn, Unspoiled
    <2>3. DOMAIN documents.statuses = documents.statusRead
      BY DEF TypeOK, DocumentOK
    <2>4. QED
      BY <2>1, <2>2, <2>3 DEF Has
  <1>2. QED
    BY <1>1, TypeCorrect, ResultsAreOwed, ScreenShowsDocuments, PTL
=============================================================================
