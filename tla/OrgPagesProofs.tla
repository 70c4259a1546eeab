--------------------------- MODULE OrgPagesProofs ---------------------------
(***************************************************************************)
(* Proofs about OrgPages, for any organizations, rows and number of        *)
(* requests in flight: types, the organization of the rows on a page, the  *)
(* outcome shown by the playground, the refinement of LoadView, and that   *)
(* the handlers keep the list of a page equal to the server's.             *)
(***************************************************************************)
EXTENDS OrgPages, TLAPS

\* The load in flight is the one the mounted page waits for, and asks for the
\* current organization unless another tab has selected another one; the
\* playground has none and holds nothing.
LoadInv ==
    /\ load # None =>
          /\ route \in DOMAIN KindOf
          /\ hook.loading
          /\ load.view = current
          /\ ~load.foreign => load.org = current
          /\ \A r \in load.data : r.org = load.org
    /\ route = "playground" => ~hook.loading /\ hook.from = None /\ hook.items = {}

\* What this tab wrote last to localStorage is the organization it shows.
HeaderInv == ~elsewhere => header = current

\* An answered request is one of the mounted page and carries what its handler
\* applies, and a request about a row names that row.
AnswerInv ==
    \A s \in InFlight :
        /\ ops[s].state # "sent" => ops[s].home
        /\ ops[s].op \in {"removeKey", "cancelInv"} => ops[s].arg \in Row
        /\ (ops[s].state = "ok" /\ ops[s].op \notin {"removeKey", "cancelInv"})
              => ops[s].row \in Row

\* A page has at most one request that disables a button, and it is disabled
\* as long as that request is in flight and no longer; the playground makes no
\* other.
BusyInv ==
    /\ BusyIsAwaited
    /\ \A s \in InFlight : (ops[s].home /\ ops[s].op \in Disabling) =>
          /\ hook.busy
          /\ \A t \in InFlight : (ops[t].home /\ ops[t].op \in Disabling) => t = s
    /\ \A s \in InFlight : (ops[s].home /\ route = "playground") => ops[s].op = "send"
    /\ \A s \in InFlight : (ops[s].home /\ ops[s].op = "send") => route = "playground"
    /\ (route = "playground" /\ hook.busy) => ~hook.error /\ hook.fresh = None

PagesInv ==
    /\ PagesTypeOK
    /\ LoadInv
    /\ HeaderInv
    /\ AnswerInv
    /\ BusyInv
    /\ ForeignRowsAreLate
    /\ OneOutcome

-----------------------------------------------------------------------------
(* The operators.                                                          *)

\* A page starts with an empty hook; an effect that runs again only sets its
\* flags; unmounting a page orphans its requests.
LEMMA HookTypes ==
    ASSUME PagesTypeOK, NEW r \in Routes
    PROVE  /\ Mounted(r) \in Hook
           /\ Mounted(r).items = {} /\ Mounted(r).from = None /\ ~Mounted(r).error
           /\ ~Mounted(r).busy /\ Mounted(r).fresh = None
           /\ Mounted(r).loading <=> r \in DOMAIN KindOf
<1>1. DOMAIN KindOf = {"overview", "keys", "members", "settings"}
  BY DEF KindOf
<1>2. /\ useDashboardStats \in Hook
      /\ useDashboardStats.items = {} /\ useDashboardStats.from = None
      /\ useDashboardStats.error = FALSE /\ useDashboardStats.busy = FALSE
      /\ useDashboardStats.fresh = None /\ useDashboardStats.loading = TRUE
  <2> DEFINE racing == InFlight # {}
  <2>1. racing \in BOOLEAN
    OBVIOUS
  <2>2. useDashboardStats = [items |-> {}, loading |-> TRUE, error |-> FALSE, busy |-> FALSE,
                             fresh |-> None, from |-> None, late |-> {}, raced |-> racing]
    BY DEF useDashboardStats
  <2> HIDE DEF racing
  <2> QED  BY <2>1, <2>2 DEF Hook
<1>3. /\ usePlayground \in Hook
      /\ usePlayground.items = {} /\ usePlayground.from = None
      /\ usePlayground.error = FALSE /\ usePlayground.busy = FALSE
      /\ usePlayground.fresh = None /\ usePlayground.loading = FALSE
  BY <1>2 DEF usePlayground, Hook
<1>4. CASE r = "playground"
  <2>1. Mounted(r) = usePlayground
    BY <1>4 DEF Mounted
  <2> QED  BY <1>1, <1>3, <1>4, <2>1
<1>5. CASE r \in DOMAIN KindOf
  <2>1. Mounted(r) = useDashboardStats
    BY <1>1, <1>5 DEF Mounted, useApiKeys, useInvitations, useSigningSecret
  <2> QED  BY <1>2, <1>5, <2>1
<1> QED  BY <1>4, <1>5 DEF Routes

LEMMA ReloadingTypes ==
    ASSUME PagesTypeOK, NEW r \in Routes
    PROVE  /\ Reloading(hook, r) \in Hook
           /\ Reloading(hook, r).items = hook.items
           /\ Reloading(hook, r).late = hook.late
           /\ Reloading(hook, r).from = hook.from
           /\ Reloading(hook, r).busy = hook.busy
           /\ Reloading(hook, r).fresh = hook.fresh
           /\ r \in DOMAIN KindOf => Reloading(hook, r).loading
           /\ r \notin DOMAIN KindOf => Reloading(hook, r) = hook
  BY DEF Reloading, PagesTypeOK, Hook

LEMMA FetchTypes ==
    ASSUME NEW r \in Routes, NEW o \in Orgs \cup {None},
           header' \in Orgs \cup {None}, elsewhere' \in BOOLEAN
    PROVE  /\ Fetch(r, o) \in Load \cup {None}
           /\ Fetch(r, o) # None => /\ r \in DOMAIN KindOf
                                    /\ Fetch(r, o).view = o
                                    /\ Fetch(r, o).org = header'
                                    /\ Fetch(r, o).foreign = elsewhere'
                                    /\ Fetch(r, o).data = {}
  BY DEF Fetch, Load

LEMMA OrphanedTypes ==
    ASSUME PagesTypeOK
    PROVE  /\ Orphaned \in [Slots -> Op \cup {None}]
           /\ \A s \in Slots : Orphaned[s] # None =>
                 /\ ops[s] # None
                 /\ ~Orphaned[s].home
                 /\ Orphaned[s].op = ops[s].op
                 /\ Orphaned[s].arg = ops[s].arg
                 /\ Orphaned[s].state = "sent"
                 /\ Orphaned[s].row = ops[s].row
<1>1. ASSUME NEW s \in InFlight, ops[s].state = "sent"
      PROVE  /\ s \in Slots /\ ops[s] # None
             /\ Orphaned[s] \in Op
             /\ ~Orphaned[s].home
             /\ Orphaned[s].op = ops[s].op
             /\ Orphaned[s].arg = ops[s].arg
             /\ Orphaned[s].state = "sent"
             /\ Orphaned[s].row = ops[s].row
  BY <1>1 DEF Orphaned, PagesTypeOK, Op, InFlight
<1>2. ASSUME NEW s \in Slots, ~(s \in InFlight /\ ops[s].state = "sent")
      PROVE  Orphaned[s] = None
  BY <1>2 DEF Orphaned
<1>3. \A s \in Slots : Orphaned[s] # None => s \in InFlight /\ ops[s].state = "sent"
  BY <1>2
<1> QED  BY <1>1, <1>3 DEF Orphaned

LEMMA InitInv == PagesInit => PagesInv
<1> SUFFICES ASSUME PagesInit PROVE PagesInv
  OBVIOUS
<1> USE PagesAssumption DEF PagesInit
<1>1. PagesTypeOK
  <2>1. owner \in [Ids -> Orgs \cup {None}]
    <3>1. ASSUME NEW i \in Ids, \E k \in Kinds : \E r \in Start[k] : r.id = i
          PROVE  (CHOOSE r \in UNION {Start[k] : k \in Kinds} : r.id = i).org \in Orgs
      <4>1. PICK r \in UNION {Start[k] : k \in Kinds} : r.id = i
        BY <3>1
      <4>2. (CHOOSE q \in UNION {Start[k] : k \in Kinds} : q.id = i)
               \in UNION {Start[k] : k \in Kinds}
        BY <4>1
      <4>3. UNION {Start[k] : k \in Kinds} \subseteq Row
        OBVIOUS
      <4> QED  BY <4>2, <4>3 DEF Row
    <3> QED  BY <3>1
  <2>2. hook \in Hook
    BY DEF Hook
  <2>3. ops \in [Slots -> Op \cup {None}]
    OBVIOUS
  <2> QED  BY <2>1, <2>2, <2>3 DEF PagesTypeOK, Routes, KindOf
<1>2. LoadInv /\ HeaderInv
  BY DEF LoadInv, HeaderInv
<1>3. InFlight = {}
  BY DEF InFlight
<1>4. AnswerInv /\ BusyInv
  BY <1>3 DEF AnswerInv, BusyInv, BusyIsAwaited, PagesInit
<1>5. ForeignRowsAreLate /\ OneOutcome
  BY DEF ForeignRowsAreLate, OneOutcome
<1> QED  BY <1>1, <1>2, <1>4, <1>5 DEF PagesInv

-----------------------------------------------------------------------------
(* Moving between pages and organizations.                                 *)

\* A page is mounted in the place of another.
LEMMA MountInv ==
    ASSUME PagesInv, route' \in Routes, current' \in Orgs \cup {None},
           header' \in Orgs \cup {None}, elsewhere' \in BOOLEAN, HeaderInv',
           hook' = Mounted(route'), load' = Fetch(route', current'),
           ops' = Orphaned, UNCHANGED server
    PROVE  PagesInv'
<1> USE DEF PagesInv
<1>1. PagesTypeOK'
  BY HookTypes, FetchTypes, OrphanedTypes DEF PagesTypeOK, server
<1>2. LoadInv'
  BY HookTypes, FetchTypes DEF LoadInv, HeaderInv, Routes, KindOf
<1>3. InFlight' \subseteq InFlight /\ \A s \in InFlight' : ~ops'[s].home
  BY OrphanedTypes DEF InFlight
<1>4. AnswerInv'
  BY <1>3, OrphanedTypes DEF AnswerInv, InFlight
<1>5. BusyInv'
  BY <1>3, HookTypes DEF BusyInv, BusyIsAwaited
<1>6. ForeignRowsAreLate' /\ OneOutcome'
  BY HookTypes DEF ForeignRowsAreLate, OneOutcome, ResponsePanel
<1> QED  BY <1>1, <1>2, <1>4, <1>5, <1>6

LEMMA SwitchInv ==
    ASSUME PagesInv, NEW o \in Orgs, switchOrg(o)
    PROVE  PagesInv'
<1> USE DEF PagesInv
<1>0. /\ header' \in Orgs \cup {None} /\ elsewhere' \in BOOLEAN /\ HeaderInv'
      /\ current' \in Orgs \cup {None}
  BY DEF switchOrg, HeaderInv
<1>1. CASE ~AdminRoute(route, o)
  <2>1. hook' = Mounted("overview") /\ "overview" \in Routes
    BY <1>1 DEF switchOrg, Mounted, Routes, KindOf
  <2> QED  BY <1>0, <1>1, <2>1, MountInv DEF switchOrg
<1>2. CASE AdminRoute(route, o)
  <2>1. /\ hook' = Reloading(hook, route) /\ load' = Fetch(route, o)
        /\ route' = route /\ ops' = ops /\ current' = o
        /\ rows' = rows /\ owner' = owner /\ route \in Routes
    BY <1>2 DEF switchOrg, server, PagesTypeOK
  <2>2. PagesTypeOK'
    BY <1>0, <2>1, ReloadingTypes, FetchTypes DEF PagesTypeOK
  <2>3. LoadInv'
    BY <1>0, <2>1, ReloadingTypes, FetchTypes DEF LoadInv, HeaderInv, Routes, KindOf
  <2>4. InFlight' = InFlight
    BY <2>1 DEF InFlight
  <2>5. AnswerInv'
    BY <2>1, <2>4 DEF AnswerInv
  <2>6. BusyInv'
    BY <2>1, <2>4, ReloadingTypes DEF BusyInv, BusyIsAwaited, KindOf
  <2>7. ForeignRowsAreLate' /\ OneOutcome'
    BY <2>1, ReloadingTypes DEF ForeignRowsAreLate, OneOutcome, ResponsePanel, KindOf
  <2> QED  BY <1>0, <2>2, <2>3, <2>5, <2>6, <2>7
<1> QED  BY <1>1, <1>2

LEMMA VisitInv ==
    ASSUME PagesInv, NEW r \in Routes, Visit(r)
    PROVE  PagesInv'
  BY MountInv DEF Visit, server, PagesInv, PagesTypeOK, HeaderInv

\* Only localStorage changes.
LEMMA TabInv ==
    ASSUME PagesInv, PickAgain \/ \E o \in Elsewhere : OtherTab(o)
    PROVE  PagesInv'
<1> USE DEF PagesInv
<1>1. /\ rows' = rows /\ owner' = owner /\ current' = current /\ route' = route
      /\ hook' = hook /\ load' = load /\ ops' = ops
  BY DEF PickAgain, OtherTab
<1>2. header' \in Orgs \cup {None} /\ elsewhere' \in BOOLEAN /\ HeaderInv'
  <2>1. CASE PickAgain
    BY <2>1 DEF PickAgain, HeaderInv, PagesTypeOK
  <2>2. ASSUME NEW o \in Elsewhere, OtherTab(o)
        PROVE  header' \in Orgs \cup {None} /\ elsewhere' \in BOOLEAN /\ HeaderInv'
    <3>1. header' = o /\ current' = current /\ o \in Orgs \cup {None}
      BY <2>2, PagesAssumption DEF OtherTab
    <3>2. elsewhere' = (o # current)
      BY <2>2 DEF OtherTab
    <3>3. elsewhere' \in BOOLEAN
      BY <3>2, Zenon
    <3>4. ~elsewhere' => o = current
      BY <3>2, Zenon
    <3> QED  BY <3>1, <3>3, <3>4 DEF HeaderInv
  <2> QED  BY <2>1, <2>2
<1>3. PagesTypeOK'
  BY <1>1, <1>2 DEF PagesTypeOK
<1>4. InFlight' = InFlight
  BY <1>1 DEF InFlight
<1> QED  BY <1>1, <1>2, <1>3, <1>4 DEF LoadInv, AnswerInv, BusyInv, BusyIsAwaited,
                                       ForeignRowsAreLate, OneOutcome, ResponsePanel

-----------------------------------------------------------------------------
(* The load of the page.                                                   *)

LEMMA ServeLoadInv ==
    ASSUME PagesInv, ServeLoad
    PROVE  PagesInv'
<1> USE DEF PagesInv
<1>1. /\ load \in Load /\ route \in DOMAIN KindOf /\ KindOf[route] \in Kinds
      /\ load.view = current
  BY DEF ServeLoad, LoadInv, PagesTypeOK, KindOf, Kinds
<1> DEFINE found == Listing(KindOf[route], load.org)
<1>2. found \subseteq Row /\ \A r \in found : r.org = load.org
  BY <1>1 DEF Listing, PagesTypeOK
<1> HIDE DEF found
<1>3. load' = [load EXCEPT !.state = "ok", !.data = found]
  BY DEF ServeLoad, found
<1>4. /\ load' \in Load /\ load'.org = load.org /\ load'.data = found
      /\ load'.view = load.view /\ load'.foreign = load.foreign
  BY <1>1, <1>2, <1>3 DEF Load
<1>5. /\ rows' = rows /\ owner' = owner /\ current' = current /\ route' = route
      /\ header' = header /\ elsewhere' = elsewhere
      /\ hook' = hook /\ ops' = ops /\ load # None
  BY DEF ServeLoad
<1>6. PagesTypeOK'
  BY <1>4, <1>5 DEF PagesTypeOK
<1>7. LoadInv' /\ HeaderInv'
  BY <1>1, <1>2, <1>4, <1>5 DEF LoadInv, HeaderInv
<1>8. InFlight' = InFlight
  BY <1>5 DEF InFlight
<1>9. AnswerInv' /\ BusyInv'
  BY <1>5, <1>8 DEF AnswerInv, BusyInv, BusyIsAwaited
<1>10. ForeignRowsAreLate' /\ OneOutcome'
  BY <1>5 DEF ForeignRowsAreLate, OneOutcome, ResponsePanel
<1> QED  BY <1>6, <1>7, <1>9, <1>10

\* The hook after the answer, or the failure, of its load.
LEMMA LoadEndInv ==
    ASSUME PagesInv, LoadReply \/ LoadFails
    PROVE  PagesInv'
<1> USE DEF PagesInv
<1>1. /\ rows' = rows /\ owner' = owner /\ current' = current /\ route' = route
      /\ ops' = ops /\ load' = None /\ load # None
      /\ header' = header /\ elsewhere' = elsewhere
  BY DEF LoadReply, LoadFails
<1>2. /\ load \in Load /\ load.data \subseteq Row /\ load.view = current
      /\ load.foreign \in BOOLEAN
      /\ current \in Orgs \cup {None} /\ hook \in Hook /\ route \in DOMAIN KindOf
      /\ \A r \in load.data : r.org # current => load.foreign
  BY <1>1 DEF PagesTypeOK, LoadInv, Load
<1>3. /\ hook' \in Hook /\ hook'.busy = hook.busy
      /\ \A r \in hook'.items : r.org # hook'.from => r \in hook'.late
  <2>1. CASE LoadReply
    <3>1. PICK late \in SUBSET Row, raced \in BOOLEAN :
             /\ load.foreign => late = load.data
             /\ hook' = [hook EXCEPT !.items = load.data, !.loading = FALSE,
                                    !.from = load.view, !.late = late, !.raced = raced]
      <4>1. PICK late : late = IF load.foreign THEN load.data ELSE {}
        OBVIOUS
      <4>2. PICK raced : raced = (hook.raced \/ load.foreign)
        OBVIOUS
      <4> QED  BY <1>2, <2>1, <4>1, <4>2 DEF LoadReply
    <3>2. /\ hook' \in Hook /\ hook'.busy = hook.busy /\ hook'.items = load.data
          /\ hook'.from = current /\ hook'.late = late
      BY <1>2, <3>1 DEF Hook
    <3> QED  BY <1>2, <3>1, <3>2
  <2>2. CASE LoadFails
    <3>1. hook' = [hook EXCEPT !.error = TRUE, !.loading = FALSE, !.raced = TRUE]
      BY <2>2 DEF LoadFails
    <3>2. /\ hook' \in Hook /\ hook'.busy = hook.busy /\ hook'.items = hook.items
          /\ hook'.from = hook.from /\ hook'.late = hook.late
      BY <1>2, <3>1 DEF Hook
    <3> QED  BY <3>2 DEF ForeignRowsAreLate
  <2> QED  BY <2>1, <2>2
<1>4. route # "playground"
  BY <1>2 DEF KindOf
<1>5. PagesTypeOK'
  BY <1>1, <1>3 DEF PagesTypeOK
<1>6. LoadInv' /\ HeaderInv'
  BY <1>1, <1>4 DEF LoadInv, HeaderInv
<1>7. InFlight' = InFlight
  BY <1>1 DEF InFlight
<1>8. AnswerInv' /\ BusyInv'
  BY <1>1, <1>3, <1>4, <1>7 DEF AnswerInv, BusyInv, BusyIsAwaited
<1>9. ForeignRowsAreLate' /\ OneOutcome'
  BY <1>1, <1>3, <1>4 DEF ForeignRowsAreLate, OneOutcome
<1> QED  BY <1>5, <1>6, <1>8, <1>9

-----------------------------------------------------------------------------
(* The handlers.                                                           *)

Names == {"createKey", "removeKey", "sendInvitation", "cancelInv", "rotate", "send"}

\* A request of the mounted page goes out and its hook notes it.
LEMMA RequestInv ==
    ASSUME PagesInv, NEW s \in Slots, NEW op \in Names, NEW arg \in Row \cup {None},
           Request(s, op, arg),
           op \in {"removeKey", "cancelInv"} => arg \in Row,
           op = "send" <=> route = "playground",
           op \in Disabling => ~hook.busy,
           hook' \in Hook, hook'.items = hook.items, hook'.late = hook.late,
           hook'.from = hook.from, hook'.loading = hook.loading, hook'.error = FALSE,
           hook'.busy <=> hook.busy \/ op \in Disabling,
           op = "send" => hook'.fresh = None
    PROVE  PagesInv'
<1> USE DEF PagesInv
<1> DEFINE new == [op |-> op, org |-> header, arg |-> arg, home |-> TRUE,
                   state |-> "sent", row |-> None]
<1>1. /\ new \in Op /\ new.op = op /\ new.arg = arg /\ new.home /\ new.state = "sent"
  BY DEF PagesTypeOK, Op, Names
<1> HIDE DEF new
<1>2. /\ ops[s] = None /\ ops' = [ops EXCEPT ![s] = new] /\ rows' = rows /\ owner' = owner
      /\ current' = current /\ route' = route /\ load' = load
      /\ header' = header /\ elsewhere' = elsewhere
  BY DEF Request, new
<1>3. /\ ops \in [Slots -> Op \cup {None}] /\ ops'[s] = new
      /\ \A t \in Slots \ {s} : ops'[t] = ops[t]
  BY <1>2 DEF PagesTypeOK
<1>4. PagesTypeOK'
  BY <1>1, <1>2, <1>3 DEF PagesTypeOK
<1>5. LoadInv' /\ HeaderInv'
  BY <1>2 DEF LoadInv, HeaderInv
<1>6. InFlight' = InFlight \cup {s} /\ s \notin InFlight /\ InFlight \subseteq Slots
  BY <1>1, <1>2, <1>3, NoneAssumption DEF InFlight
<1>7. AnswerInv'
  BY <1>1, <1>3, <1>6 DEF AnswerInv
<1>8. BusyInv'
  <2>1. \A t \in InFlight' : (ops'[t].home /\ ops'[t].op \in Disabling) =>
           /\ hook'.busy
           /\ \A u \in InFlight' : (ops'[u].home /\ ops'[u].op \in Disabling) => u = t
    BY <1>1, <1>3, <1>6 DEF BusyInv
  <2>2. \A t \in InFlight' : (ops'[t].home /\ route' = "playground") => ops'[t].op = "send"
    BY <1>1, <1>2, <1>3, <1>6 DEF BusyInv
  <2>3. \A t \in InFlight' : (ops'[t].home /\ ops'[t].op = "send") => route' = "playground"
    BY <1>1, <1>2, <1>3, <1>6 DEF BusyInv
  <2>4. (route' = "playground" /\ hook'.busy) => ~hook'.error /\ hook'.fresh = None
    BY <1>2
  <2>5. hook'.busy => \E t \in InFlight' : ops'[t].home /\ ops'[t].op \in Disabling
    BY <1>1, <1>3, <1>6 DEF BusyInv, BusyIsAwaited
  <2> QED  BY <2>1, <2>2, <2>3, <2>4, <2>5 DEF BusyInv, BusyIsAwaited
<1>9. ForeignRowsAreLate' /\ OneOutcome'
  BY <1>2 DEF ForeignRowsAreLate, OneOutcome, ResponsePanel
<1> QED  BY <1>4, <1>5, <1>7, <1>8, <1>9

\* What the two ways to note a request do to the hook.
LEMMA NotedTypes ==
    ASSUME hook \in Hook, NEW b \in BOOLEAN, NEW g \in Hook,
           \/ b = TRUE /\ g = Busy(hook)
           \/ b = hook.busy /\ g = Asking(hook)
    PROVE  /\ g.items = hook.items /\ g.late = hook.late /\ g.from = hook.from
           /\ g.loading = hook.loading /\ g.error = FALSE /\ g.busy = b
           /\ g.fresh = hook.fresh
  BY DEF Busy, Asking, Hook

LEMMA NotedHook ==
    ASSUME hook \in Hook
    PROVE  Busy(hook) \in Hook /\ Asking(hook) \in Hook
<1> DEFINE racing == hook.raced \/ load # None \/ elsewhere
<1>1. racing \in BOOLEAN
  OBVIOUS
<1>2. /\ Busy(hook) = [hook EXCEPT !.busy = TRUE, !.error = FALSE, !.raced = racing]
      /\ Asking(hook) = [hook EXCEPT !.error = FALSE, !.raced = racing]
  BY DEF Busy, Asking, Hook
<1> HIDE DEF racing
<1> QED  BY <1>1, <1>2 DEF Hook

LEMMA HandlerInv ==
    ASSUME PagesInv, NEW s \in Slots, Handler(s)
    PROVE  PagesInv'
<1> USE DEF PagesInv
<1>0. /\ hook \in Hook /\ hook.busy \in BOOLEAN /\ hook.items \subseteq Row
      /\ rows["key"] \subseteq Row
  BY DEF PagesTypeOK, Hook, Kinds
<1>n. Busy(hook) \in Hook /\ Asking(hook) \in Hook
  BY <1>0, NotedHook
<1>b. /\ Busy(hook).items = hook.items /\ Busy(hook).late = hook.late
      /\ Busy(hook).from = hook.from /\ Busy(hook).loading = hook.loading
      /\ Busy(hook).error = FALSE /\ Busy(hook).busy = TRUE
  BY <1>0, <1>n, NotedTypes
<1>a. /\ Asking(hook).items = hook.items /\ Asking(hook).late = hook.late
      /\ Asking(hook).from = hook.from /\ Asking(hook).loading = hook.loading
      /\ Asking(hook).error = FALSE /\ Asking(hook).busy = hook.busy
  BY <1>0, <1>n, NotedTypes
<1>1. CASE createKey(s)
  BY <1>1, <1>n, <1>b, RequestInv DEF createKey, ApiKeyForm, Names, Disabling
<1>2. ASSUME NEW r \in hook.items, removeKey(s, r)
      PROVE  PagesInv'
  BY <1>2, <1>0, <1>n, <1>a, RequestInv DEF removeKey, Names, Disabling
<1>3. ASSUME NEW r \in hook.items, cancelInv(s, r)
      PROVE  PagesInv'
  BY <1>3, <1>0, <1>n, <1>a, RequestInv DEF cancelInv, Names, Disabling
<1>4. CASE sendInvitation(s)
  BY <1>4, <1>n, <1>b, RequestInv DEF sendInvitation, InviteForm, Names, Disabling
<1>5. CASE rotate(s)
  BY <1>5, <1>n, <1>b, RequestInv DEF rotate, Names, Disabling
<1>6. ASSUME NEW r \in rows["key"], handleSend(s, r)
      PROVE  PagesInv'
  <2>1. hook' = [Busy(hook) EXCEPT !.fresh = None]
    BY <1>6 DEF handleSend
  <2>2. /\ hook' \in Hook /\ hook'.items = hook.items /\ hook'.late = hook.late
        /\ hook'.from = hook.from /\ hook'.loading = hook.loading
        /\ hook'.error = FALSE /\ hook'.busy = TRUE /\ hook'.fresh = None
    BY <2>1, <1>n, <1>b DEF Hook
  <2> QED  BY <1>6, <1>0, <2>2, RequestInv DEF handleSend, RequestPanel, Names, Disabling
<1> QED  BY <1>1, <1>2, <1>3, <1>4, <1>5, <1>6 DEF Handler

LEMMA FormInv ==
    ASSUME PagesInv, clearNewKey \/ handleSendInvalid
    PROVE  PagesInv'
<1> USE DEF PagesInv
<1>1. /\ rows' = rows /\ owner' = owner /\ current' = current /\ route' = route
      /\ ops' = ops /\ load' = load /\ header' = header /\ elsewhere' = elsewhere
  BY DEF clearNewKey, handleSendInvalid
<1>2. /\ hook' \in Hook /\ hook'.items = hook.items /\ hook'.late = hook.late
      /\ hook'.from = hook.from /\ hook'.loading = hook.loading
      /\ hook'.busy = hook.busy /\ hook'.fresh = None
  BY DEF clearNewKey, handleSendInvalid, PagesTypeOK, Hook
<1>3. route = "playground" => ~hook.busy
  BY DEF clearNewKey, NewKeyBanner, handleSendInvalid, RequestPanel
<1>4. PagesTypeOK'
  BY <1>1, <1>2 DEF PagesTypeOK
<1>5. LoadInv' /\ HeaderInv'
  BY <1>1, <1>2 DEF LoadInv, HeaderInv
<1>6. InFlight' = InFlight
  BY <1>1 DEF InFlight
<1>7. AnswerInv' /\ BusyInv'
  BY <1>1, <1>2, <1>3, <1>6 DEF AnswerInv, BusyInv, BusyIsAwaited
<1>8. ForeignRowsAreLate' /\ OneOutcome'
  BY <1>1, <1>2 DEF ForeignRowsAreLate, OneOutcome, ResponsePanel
<1> QED  BY <1>4, <1>5, <1>7, <1>8

-----------------------------------------------------------------------------
(* The server.                                                             *)

LEMMA AnswerKeepsInv ==
    ASSUME PagesInv, NEW s \in Slots, NEW op \in Names, NEW row \in Row \cup {None},
           Handling(s, op), Answer(s, row), op \in Disabling => row \in Row,
           rows' \in [Kinds -> SUBSET Row], owner' \in [Ids -> Orgs \cup {None}]
    PROVE  PagesInv'
<1> USE DEF PagesInv
<1>1. /\ ops[s] \in Op /\ ops[s] # None /\ ops[s].op = op /\ current' = current
      /\ route' = route /\ hook' = hook /\ load' = load
      /\ header' = header /\ elsewhere' = elsewhere
  BY DEF Handling, PagesTypeOK
<1>2. PICK out \in {"ok", "failed"} :
          ops' = [ops EXCEPT ![s] = IF @.home THEN [@ EXCEPT !.state = out, !.row = row]
                                              ELSE None]
  BY DEF Answer
<1> DEFINE new == [ops[s] EXCEPT !.state = out, !.row = row]
<1>3. /\ new \in Op /\ new.op = op /\ new.arg = ops[s].arg /\ new.home = ops[s].home
      /\ new.row = row /\ new # None
  BY <1>1, NoneAssumption DEF Op
<1>4. ops' = [ops EXCEPT ![s] = IF ops[s].home THEN new ELSE None]
  BY <1>1, <1>2 DEF PagesTypeOK
<1> HIDE DEF new
<1>5. /\ ops' \in [Slots -> Op \cup {None}]
      /\ ops[s].home => ops'[s] = new
      /\ ~ops[s].home => ops'[s] = None
      /\ \A t \in Slots \ {s} : ops'[t] = ops[t]
  BY <1>3, <1>4 DEF PagesTypeOK
<1>6. /\ s \in InFlight /\ InFlight' \subseteq InFlight /\ InFlight \subseteq Slots
      /\ \A t \in InFlight : ops[t].home => t \in InFlight'
      /\ s \in InFlight' => ops[s].home
  BY <1>1, <1>3, <1>5 DEF InFlight
<1>7. PagesTypeOK'
  BY <1>1, <1>5 DEF PagesTypeOK
<1>8. LoadInv' /\ HeaderInv'
  BY <1>1 DEF LoadInv, HeaderInv
<1>9. AnswerInv'
  BY <1>1, <1>3, <1>5, <1>6 DEF AnswerInv, Names, Disabling
<1>10. \A t \in InFlight' : ops'[t].home = ops[t].home /\ ops'[t].op = ops[t].op
  BY <1>1, <1>3, <1>5, <1>6
<1>11. BusyInv'
  BY <1>1, <1>6, <1>10 DEF BusyInv, BusyIsAwaited
<1>12. ForeignRowsAreLate' /\ OneOutcome'
  BY <1>1 DEF ForeignRowsAreLate, OneOutcome, ResponsePanel
<1> QED  BY <1>7, <1>8, <1>9, <1>11, <1>12

LEMMA ServeOpInv ==
    ASSUME PagesInv, NEW s \in Slots, ServeOp(s)
    PROVE  PagesInv'
<1> USE DEF PagesInv
<1>0. /\ rows \in [Kinds -> SUBSET Row] /\ owner \in [Ids -> Orgs \cup {None}]
      /\ ops[s] \in Op \cup {None}
      /\ ops[s] # None => /\ ops[s].org \in Orgs \cup {None}
                          /\ ops[s].op \in {"removeKey", "cancelInv"} => ops[s].arg \in Row
  BY DEF PagesTypeOK, AnswerInv, InFlight, Op
<1>1. ASSUME NEW k \in Kinds, NEW o \in Orgs, NEW old, NEW op \in Names, op \in Disabling,
             Handling(s, op), Insert(s, k, o, old)
      PROVE  PagesInv'
  <2>1. PICK i \in Ids :
            LET r == [id |-> i, org |-> o, open |-> TRUE] IN
            /\ rows' = [rows EXCEPT ![k] = (@ \ old) \cup {r}]
            /\ owner' = [owner EXCEPT ![i] = o]
            /\ Answer(s, r)
    BY <1>1 DEF Insert
  <2> DEFINE r == [id |-> i, org |-> o, open |-> TRUE]
  <2>2. r \in Row
    BY DEF Row
  <2> HIDE DEF r
  <2>3. rows' \in [Kinds -> SUBSET Row] /\ owner' \in [Ids -> Orgs \cup {None}] /\ Answer(s, r)
    BY <2>1, <2>2, <1>0 DEF r
  <2> QED  BY <1>1, <2>2, <2>3, AnswerKeepsInv
<1>2. CASE ApiKeyCreate(s)
  BY <1>0, <1>1, <1>2 DEF ApiKeyCreate, Handling, Kinds, Names, Disabling
<1>3. CASE ApiKeyDelete(s)
  <2>1. rows' \in [Kinds -> SUBSET Row] /\ owner' \in [Ids -> Orgs \cup {None}]
    BY <1>0, <1>3 DEF ApiKeyDelete, Kinds
  <2> QED  BY <1>3, <2>1, AnswerKeepsInv DEF ApiKeyDelete, Names, Disabling
<1>4. CASE CreateInvitation(s)
  <2>1. PICK old : Insert(s, "invitation", ops[s].org, old)
    BY <1>4 DEF CreateInvitation
  <2> QED  BY <1>1, <1>4, <2>1, PagesAssumption
              DEF CreateInvitation, Kinds, Names, Disabling
<1>5. CASE CancelInvitation(s)
  <2> DEFINE closed == [ops[s].arg EXCEPT !.open = FALSE]
  <2>1. closed \in Row
    BY <1>0, <1>5 DEF CancelInvitation, Handling, Row
  <2>2. /\ rows' = [rows EXCEPT !["invitation"] = (@ \ {ops[s].arg}) \cup {closed}]
        /\ Answer(s, None) /\ owner' = owner /\ Handling(s, "cancelInv")
    BY <1>5 DEF CancelInvitation
  <2> HIDE DEF closed
  <2>3. rows' \in [Kinds -> SUBSET Row] /\ owner' \in [Ids -> Orgs \cup {None}]
    BY <1>0, <2>1, <2>2 DEF Kinds
  <2> QED  BY <2>2, <2>3, AnswerKeepsInv DEF Names, Disabling
<1>6. CASE RotateSigningSecret(s)
  BY <1>1, <1>6, PagesAssumption DEF RotateSigningSecret, Kinds, Names, Disabling
<1>7. CASE SendWebhook(s)
  <2>1. ops[s].arg.org \in Orgs
    BY <1>0, <1>7 DEF SendWebhook, Kinds, Row
  <2> QED  BY <1>1, <1>7, <2>1 DEF SendWebhook, Kinds, Names, Disabling
<1> QED  BY <1>2, <1>3, <1>4, <1>5, <1>6, <1>7 DEF ServeOp

-----------------------------------------------------------------------------
(* The answers to the handlers.                                            *)

\* What the answer to a request of the mounted page does to its hook.
LEMMA DoneTypes ==
    ASSUME PagesInv, NEW s \in InFlight, ops[s].home, ops[s].state = "ok"
    PROVE  /\ Done(hook, ops[s]) \in Hook
           /\ Done(hook, ops[s]).loading = hook.loading
           /\ Done(hook, ops[s]).from = hook.from
           /\ Done(hook, ops[s]).error = hook.error
           /\ ops[s].op \notin Disabling => Done(hook, ops[s]).busy = hook.busy
           /\ ops[s].op \in Disabling => Done(hook, ops[s]).busy = FALSE
           /\ route = "playground" => /\ Done(hook, ops[s]).items = hook.items
                                      /\ Done(hook, ops[s]).busy = FALSE
           /\ \A r \in Done(hook, ops[s]).items :
                 r.org # hook.from => r \in Done(hook, ops[s]).late
<1> USE DEF PagesInv
<1> DEFINE q == ops[s]
           g == Done(hook, q)
<1>1. /\ hook \in Hook /\ q \in Op /\ q.op \in Names
      /\ \A r \in hook.items : r.org # hook.from => r \in hook.late
      /\ q.op \in {"removeKey", "cancelInv"} => q.arg \in Row
      /\ q.op \in Disabling => q.row \in Row
      /\ route = "playground" => q.op = "send"
  BY DEF PagesTypeOK, InFlight, Op, Names, AnswerInv, BusyInv, ForeignRowsAreLate, Disabling
<1>2. Late(q.row) \subseteq {q.row} /\ (q.row.org # hook.from => Late(q.row) = {q.row})
  BY DEF Late
<1> HIDE DEF q
<1>3. CASE q.op = "createKey"
  <2>1. g = [hook EXCEPT !.items = @ \cup {q.row}, !.busy = FALSE,
                         !.late = @ \cup Late(q.row), !.fresh = q.row]
    BY <1>1, <1>3 DEF Done, Prepended, Hook
  <2>0. /\ hook.items \cup {q.row} \in SUBSET Row /\ q.row \in Row
        /\ hook.late \cup Late(q.row) \in SUBSET Row
    BY <1>1, <1>2, <1>3 DEF Hook, Disabling
  <2>2. /\ g \in Hook /\ g.loading = hook.loading /\ g.from = hook.from
        /\ g.error = hook.error /\ g.items = hook.items \cup {q.row}
        /\ g.late = hook.late \cup Late(q.row) /\ g.busy = FALSE
    BY <1>1, <2>0, <2>1 DEF Hook
  <2> QED  BY <1>1, <1>2, <1>3, <2>2 DEF q, Disabling
<1>4. CASE q.op = "sendInvitation"
  <2>1. g = [hook EXCEPT !.items = @ \cup {q.row}, !.busy = FALSE,
                         !.late = @ \cup Late(q.row)]
    BY <1>1, <1>4 DEF Done, Prepended
  <2>0. /\ hook.items \cup {q.row} \in SUBSET Row /\ q.row \in Row
        /\ hook.late \cup Late(q.row) \in SUBSET Row
    BY <1>1, <1>2, <1>4 DEF Hook, Disabling
  <2>2. /\ g \in Hook /\ g.loading = hook.loading /\ g.from = hook.from
        /\ g.error = hook.error /\ g.items = hook.items \cup {q.row}
        /\ g.late = hook.late \cup Late(q.row) /\ g.busy = FALSE
    BY <1>1, <2>0, <2>1 DEF Hook
  <2> QED  BY <1>1, <1>2, <1>4, <2>2 DEF q, Disabling
<1>5. CASE q.op = "rotate"
  <2>1. g = [hook EXCEPT !.items = {q.row}, !.busy = FALSE, !.late = Late(q.row)]
    BY <1>1, <1>5 DEF Done
  <2>0. {q.row} \in SUBSET Row /\ Late(q.row) \in SUBSET Row
    BY <1>1, <1>2, <1>5 DEF Hook, Disabling
  <2>2. /\ g \in Hook /\ g.loading = hook.loading /\ g.from = hook.from
        /\ g.error = hook.error /\ g.items = {q.row} /\ g.late = Late(q.row)
        /\ g.busy = FALSE
    BY <1>1, <2>0, <2>1 DEF Hook
  <2> QED  BY <1>1, <1>2, <1>5, <2>2 DEF q, Disabling
<1>6. CASE q.op \in {"removeKey", "cancelInv"}
  <2>1. g = [hook EXCEPT !.items = Without(@, q.arg.id)]
    BY <1>1, <1>6 DEF Done
  <2>0. Without(hook.items, q.arg.id) \subseteq hook.items
    BY DEF Without
  <2>2. /\ g \in Hook /\ g.loading = hook.loading /\ g.from = hook.from
        /\ g.error = hook.error /\ g.items = Without(hook.items, q.arg.id)
        /\ g.late = hook.late /\ g.busy = hook.busy
    BY <1>1, <2>0, <2>1 DEF Hook
  <2> QED  BY <1>1, <1>6, <2>0, <2>2 DEF q, Disabling
<1>7. CASE q.op = "send"
  <2>1. g = [hook EXCEPT !.fresh = q.row, !.busy = FALSE]
    BY <1>1, <1>7 DEF Done
  <2>2. /\ g \in Hook /\ g.loading = hook.loading /\ g.from = hook.from
        /\ g.error = hook.error /\ g.items = hook.items /\ g.late = hook.late
        /\ g.busy = FALSE
    BY <1>1, <1>7, <2>1 DEF Hook, Disabling
  <2> QED  BY <1>1, <1>7, <2>2 DEF q, Disabling
<1> QED  BY <1>1, <1>3, <1>4, <1>5, <1>6, <1>7 DEF Names

LEMMA FailedTypes ==
    ASSUME PagesInv, NEW s \in InFlight, ops[s].home
    PROVE  /\ Failed(hook, ops[s]) \in Hook
           /\ Failed(hook, ops[s]).loading = hook.loading
           /\ Failed(hook, ops[s]).from = hook.from
           /\ Failed(hook, ops[s]).items = hook.items
           /\ Failed(hook, ops[s]).late = hook.late
           /\ Failed(hook, ops[s]).fresh = hook.fresh
           /\ ops[s].op \notin Disabling => Failed(hook, ops[s]).busy = hook.busy
           /\ ops[s].op \in Disabling => Failed(hook, ops[s]).busy = FALSE
  BY DEF Failed, PagesInv, PagesTypeOK, Hook, Op, InFlight, Disabling

LEMMA OpEndInv ==
    ASSUME PagesInv, NEW s \in Slots, OpReply(s) \/ OpFails(s)
    PROVE  PagesInv'
<1> USE DEF PagesInv
<1>1. /\ rows' = rows /\ owner' = owner /\ current' = current /\ route' = route
      /\ load' = load /\ ops' = [ops EXCEPT ![s] = None] /\ s \in InFlight
      /\ header' = header /\ elsewhere' = elsewhere
  BY DEF OpReply, OpFails, InFlight
<1>2. /\ ops' \in [Slots -> Op \cup {None}] /\ InFlight' = InFlight \ {s}
      /\ \A t \in InFlight' : ops'[t] = ops[t]
  BY <1>1 DEF PagesTypeOK, InFlight
<1>3. /\ hook' \in Hook /\ hook'.loading = hook.loading /\ hook'.from = hook.from
      /\ route = "playground" => hook'.items = hook.items
      /\ \A r \in hook'.items : r.org # hook'.from => r \in hook'.late
      /\ \/ ~ops[s].home /\ hook' = hook
         \/ /\ ops[s].home
            /\ ops[s].op \notin Disabling => hook'.busy = hook.busy
            /\ ops[s].op \in Disabling => hook'.busy = FALSE
      /\ (route = "playground" /\ ops[s].home) => hook'.busy = FALSE
      /\ route = "playground" => ~hook'.error \/ hook'.fresh = None
  <2>1. CASE ~ops[s].home
    <3>1. hook' = hook
      BY <1>1, <2>1 DEF OpReply, OpFails, AnswerInv
    <3> QED  BY <2>1, <3>1 DEF PagesTypeOK, ForeignRowsAreLate, OneOutcome, ResponsePanel
  <2>2. CASE ops[s].home /\ OpReply(s)
    <3>1. hook' = Done(hook, ops[s]) /\ ops[s].state = "ok"
      BY <2>2 DEF OpReply
    <3>2. route = "playground" => ~hook.error
      BY <1>1, <2>2 DEF BusyInv, Disabling
    <3> QED  BY <1>1, <2>2, <3>1, <3>2, DoneTypes
  <2>3. CASE ops[s].home /\ OpFails(s)
    <3>1. hook' = Failed(hook, ops[s])
      BY <2>3 DEF OpFails
    <3>2. route = "playground" => hook.fresh = None /\ ops[s].op \in Disabling
      BY <1>1, <2>3 DEF BusyInv, Disabling
    <3> QED  BY <1>1, <2>3, <3>1, <3>2, FailedTypes DEF ForeignRowsAreLate
  <2> QED  BY <2>1, <2>2, <2>3
<1>4. PagesTypeOK'
  BY <1>1, <1>2, <1>3 DEF PagesTypeOK
<1>5. LoadInv' /\ HeaderInv'
  BY <1>1, <1>3 DEF LoadInv, HeaderInv
<1>6. AnswerInv'
  BY <1>2 DEF AnswerInv
<1>7. BusyInv'
  <2>1. ASSUME NEW t \in InFlight', ops'[t].home, ops'[t].op \in Disabling
        PROVE  /\ hook'.busy
               /\ \A u \in InFlight' : (ops'[u].home /\ ops'[u].op \in Disabling) => u = t
    <3>1. t \in InFlight /\ t # s /\ ops[t].home /\ ops[t].op \in Disabling
      BY <1>2, <2>1
    <3>2. hook.busy /\ ~(ops[s].home /\ ops[s].op \in Disabling)
      BY <1>1, <3>1 DEF BusyInv
    <3>3. hook'.busy
      BY <1>3, <3>2
    <3> QED  BY <1>2, <3>1, <3>3 DEF BusyInv
  <2>2. \A t \in InFlight' : (ops'[t].home /\ route' = "playground") => ops'[t].op = "send"
    BY <1>1, <1>2 DEF BusyInv
  <2>3. \A t \in InFlight' : (ops'[t].home /\ ops'[t].op = "send") => route' = "playground"
    BY <1>1, <1>2 DEF BusyInv
  <2>4. (route' = "playground" /\ hook'.busy) => ~hook'.error /\ hook'.fresh = None
    BY <1>1, <1>3 DEF BusyInv
  <2>5. hook'.busy => \E t \in InFlight' : ops'[t].home /\ ops'[t].op \in Disabling
    <3>1. SUFFICES ASSUME hook'.busy
                   PROVE  \E t \in InFlight' : ops'[t].home /\ ops'[t].op \in Disabling
      OBVIOUS
    <3>2. hook.busy /\ ~(ops[s].home /\ ops[s].op \in Disabling)
      BY <1>3, <3>1
    <3>3. PICK t \in InFlight : ops[t].home /\ ops[t].op \in Disabling
      BY <3>2 DEF BusyInv, BusyIsAwaited
    <3> QED  BY <1>2, <3>2, <3>3
  <2> QED  BY <2>1, <2>2, <2>3, <2>4, <2>5 DEF BusyInv, BusyIsAwaited
<1>8. ForeignRowsAreLate' /\ OneOutcome'
  BY <1>1, <1>3 DEF ForeignRowsAreLate, OneOutcome, ResponsePanel
<1> QED  BY <1>4, <1>5, <1>6, <1>7, <1>8

LEMMA StepInv == PagesInv /\ [PagesNext]_pageVars => PagesInv'
<1> SUFFICES ASSUME PagesInv, [PagesNext]_pageVars PROVE PagesInv'
  OBVIOUS
<1>1. CASE UNCHANGED pageVars
  <2>1. InFlight' = InFlight
    BY <1>1 DEF InFlight, pageVars
  <2> QED  BY <1>1, <2>1 DEF pageVars, PagesInv, PagesTypeOK, LoadInv, HeaderInv, AnswerInv, BusyInv,
                             BusyIsAwaited, ForeignRowsAreLate, OneOutcome, ResponsePanel
<1>2. CASE PagesNext
  BY <1>2, SwitchInv, TabInv, VisitInv, ServeLoadInv, LoadEndInv, FormInv, HandlerInv, ServeOpInv,
     OpEndInv DEF PagesNext
<1> QED  BY <1>1, <1>2

-----------------------------------------------------------------------------
(* The list of a page and the server's.                                    *)

\* The requests that the handlers of a page make.
HandlersOf == [overview |-> {}, keys |-> {"createKey", "removeKey"},
               members |-> {"sendInvitation", "cancelInv"}, settings |-> {"rotate"}]

Owned(r) == owner[r.id] = r.org

\* The server gives an identifier once, and every row anybody has heard of is of
\* the organization it was given for. Only invitations are ever closed, and no
\* request is about a closed one.
UsedInv ==
    /\ \A k \in Kinds : \A r \in rows[k] : Owned(r) /\ (k # "invitation" => r.open)
    /\ \A r \in hook.items : Owned(r) /\ (route # "members" => r.open)
    /\ load # None => \A r \in load.data : Owned(r) /\ (route # "members" => r.open)
    /\ \A s \in InFlight :
          /\ ops[s].arg # None => Owned(ops[s].arg) /\ ops[s].arg.open
          /\ ops[s].row # None => Owned(ops[s].row) /\ ops[s].row.open

\* No request failed, none of a handler overlapped the load, and none named the
\* organization of another tab.
Settled == ~hook.raced /\ route \in DOMAIN KindOf /\ current # None

Pending(rs) == {r \in rs : r.open}
Granted(names) == {s \in InFlight : ops[s].state = "ok" /\ ops[s].op \in names}

\* What the answers on their way to the page add to its list and take from it.
Added == {ops[s].row : s \in Granted({"createKey", "sendInvitation"})}
Removed == {ops[s].arg : s \in Granted({"removeKey", "cancelInv"})}

\* With those answers applied, the list is the server's. A row that is to be
\* added is not there yet, and no request is about it.
ItemsInv ==
    /\ \A s \in Granted({"rotate"}) : Listing(KindOf[route], current) = {ops[s].row}
    /\ Granted({"rotate"}) = {} =>
          Pending(Listing(KindOf[route], current)) = Pending((hook.items \cup Added) \ Removed)
    /\ \A r \in Added : r \notin hook.items /\ \A s \in InFlight : ops[s].arg # r

TableInv ==
    Settled =>
        /\ ~hook.error
        /\ \A s \in InFlight : /\ ops[s].home /\ ops[s].org = current
                               /\ ops[s].op \in HandlersOf[route]
        /\ load # None =>
              /\ InFlight = {}
              /\ load.state = "ok" => load.data = Listing(KindOf[route], load.org)
        /\ load = None =>
              /\ hook.from = current
              /\ ~hook.loading
              /\ (\A s \in InFlight : ops[s].state # "failed") => ItemsInv

LEMMA MountedRaced ==
    ASSUME PagesTypeOK, NEW r \in DOMAIN KindOf
    PROVE  /\ InFlight # {} => Mounted(r).raced /\ Reloading(hook, r).raced
           /\ ~Reloading(hook, r).error
<1>1. Mounted(r) = useDashboardStats
  BY DEF Mounted, useApiKeys, useInvitations, useSigningSecret, KindOf
<1>2. InFlight # {} => useDashboardStats.raced
  BY DEF useDashboardStats
<1>3. (InFlight # {} => Reloading(hook, r).raced) /\ ~Reloading(hook, r).error
  BY DEF Reloading, PagesTypeOK, Hook
<1> QED  BY <1>1, <1>2, <1>3

\* A page starts to load again: what is in flight then is noted.
LEMMA MovedTable ==
    ASSUME PagesInv, UsedInv, PagesTypeOK', rows' = rows, owner' = owner,
           load' = Fetch(route', current'),
           hook'.items = {} \/ (hook'.items = hook.items /\ route' = route),
           route' \in DOMAIN KindOf => ~hook'.error /\ (InFlight # {} => hook'.raced),
           \A s \in Slots : ops'[s] # None =>
              ops[s] # None /\ ops'[s].arg = ops[s].arg /\ ops'[s].row = ops[s].row
    PROVE  UsedInv' /\ TableInv'
<1>1. /\ route' \in Routes /\ current' \in Orgs \cup {None}
      /\ header' \in Orgs \cup {None} /\ elsewhere' \in BOOLEAN
  BY DEF PagesTypeOK
<1>2. /\ load' # None => load'.data = {}
      /\ (route' \in DOMAIN KindOf /\ current' # None) => load' # None /\ load'.state = "sent"
  <2>1. load' # None => load'.data = {}
    BY <1>1, FetchTypes
  <2>2. ASSUME route' \in DOMAIN KindOf, current' # None PROVE load' # None /\ load'.state = "sent"
    <3> DEFINE l == [view |-> current', org |-> header', foreign |-> elsewhere',
                     state |-> "sent", data |-> {}]
    <3>1. load' = l /\ l \in Load
      BY <1>1, <2>2 DEF Fetch, Load
    <3> QED  BY <3>1, NoneAssumption
  <2> QED  BY <2>1, <2>2
<1>3. InFlight' \subseteq InFlight
  BY DEF InFlight
<1>4. UsedInv'
  BY <1>2, <1>3 DEF UsedInv, InFlight, Owned
<1>5. TableInv'
  <2>1. SUFFICES ASSUME Settled' PROVE TableInv'
    BY DEF TableInv
  <2>2. InFlight' = {} /\ load' # None /\ load'.state = "sent" /\ ~hook'.error
    BY <2>1, <1>2, <1>3 DEF Settled
  <2> QED  BY <2>2 DEF TableInv
<1> QED  BY <1>4, <1>5

LEMMA MoveTable ==
    ASSUME PagesInv, UsedInv, PagesInv',
           (\E o \in Orgs : switchOrg(o)) \/ (\E r \in Routes : Visit(r))
    PROVE  UsedInv' /\ TableInv'
<1> USE DEF PagesInv
<1>0. route \in Routes /\ "overview" \in Routes
  BY DEF PagesTypeOK, Routes, KindOf
<1>1. ASSUME route' \in Routes, hook' = Mounted(route'), load' = Fetch(route', current'),
             ops' = Orphaned, rows' = rows, owner' = owner
      PROVE  UsedInv' /\ TableInv'
  <2>1. hook'.items = {} /\ ~hook'.error
    BY <1>1, HookTypes
  <2>2. route' \in DOMAIN KindOf => (InFlight # {} => hook'.raced)
    BY <1>1, MountedRaced
  <2>3. \A s \in Slots : ops'[s] # None =>
           ops[s] # None /\ ops'[s].arg = ops[s].arg /\ ops'[s].row = ops[s].row
    BY <1>1, OrphanedTypes
  <2> QED  BY <1>1, <2>1, <2>2, <2>3, MovedTable
<1>2. ASSUME NEW r \in Routes, Visit(r) PROVE UsedInv' /\ TableInv'
  BY <1>1, <1>2 DEF Visit
<1>3. ASSUME NEW o \in Orgs, switchOrg(o) PROVE UsedInv' /\ TableInv'
  <2>1. CASE ~AdminRoute(route, o)
    <3>1. /\ route' = "overview" /\ hook' = useDashboardStats /\ ops' = Orphaned
          /\ load' = Fetch(route', current') /\ rows' = rows /\ owner' = owner
      BY <1>3, <2>1 DEF switchOrg, server
    <3>2. useDashboardStats = Mounted("overview")
      BY DEF Mounted
    <3> QED  BY <1>0, <1>1, <3>1, <3>2
  <2>2. CASE AdminRoute(route, o)
    <3>1. /\ hook' = Reloading(hook, route) /\ load' = Fetch(route', current')
          /\ route' = route /\ ops' = ops /\ rows' = rows /\ owner' = owner
      BY <1>3, <2>2 DEF switchOrg, server
    <3>2. hook'.items = hook.items
      BY <1>0, <3>1, ReloadingTypes
    <3>3. route' \in DOMAIN KindOf => ~hook'.error /\ (InFlight # {} => hook'.raced)
      BY <3>1, MountedRaced
    <3> QED  BY <3>1, <3>2, <3>3, MovedTable
  <2> QED  BY <2>1, <2>2
<1> QED  BY <1>2, <1>3

\* Nothing is in flight but the load.
LEMMA LoadTable ==
    ASSUME PagesInv, UsedInv, TableInv, ServeLoad \/ LoadReply \/ LoadFails
    PROVE  UsedInv' /\ TableInv'
<1> USE DEF PagesInv
<1>0. /\ hook \in Hook /\ load # None /\ load \in Load /\ route \in DOMAIN KindOf
      /\ KindOf[route] \in Kinds /\ load.view = current /\ load.foreign \in BOOLEAN
      /\ ~load.foreign => load.org = current
      /\ route # "members" => KindOf[route] # "invitation"
  BY DEF ServeLoad, LoadReply, LoadFails, PagesTypeOK, LoadInv, Load, KindOf, Kinds
<1>1. /\ rows' = rows /\ owner' = owner /\ current' = current /\ route' = route /\ ops' = ops
      /\ InFlight' = InFlight
  BY DEF ServeLoad, LoadReply, LoadFails, InFlight
<1>2. CASE ServeLoad
  <2> DEFINE found == Listing(KindOf[route], load.org)
  <2>1. found \in SUBSET rows[KindOf[route]] /\ found \in SUBSET Row
    BY <1>0 DEF Listing, PagesTypeOK
  <2>2. load' = [load EXCEPT !.state = "ok", !.data = found] /\ hook' = hook
    BY <1>0, <1>2 DEF ServeLoad
  <2>3. \A o : Listing(KindOf[route], o)' = Listing(KindOf[route], o)
    BY <1>1 DEF Listing
  <2> HIDE DEF found
  <2>4. load' # None /\ load'.data = found /\ load'.org = load.org
    <3>1. load' \in Load /\ load'.data = found /\ load'.org = load.org
      BY <1>0, <2>1, <2>2 DEF Load
    <3> QED  BY <3>1, NoneAssumption
  <2>5. UsedInv'
    BY <1>0, <1>1, <2>1, <2>2, <2>4 DEF UsedInv, Owned
  <2>6. TableInv'
    BY <1>0, <1>1, <2>2, <2>3, <2>4 DEF TableInv, Settled, found
  <2> QED  BY <2>5, <2>6
<1>3. CASE LoadReply
  <2>1. PICK late, raced :
           /\ raced = (hook.raced \/ load.foreign)
           /\ hook' = [hook EXCEPT !.items = load.data, !.loading = FALSE, !.from = load.view,
                                  !.late = late, !.raced = raced]
    BY <1>0, <1>3 DEF LoadReply, Hook
  <2>2. /\ hook'.items = load.data /\ hook'.loading = FALSE /\ hook'.from = current
        /\ hook'.raced = raced /\ hook'.error = hook.error /\ load' = None
        /\ load.state = "ok"
    BY <1>0, <1>3, <2>1 DEF Hook, LoadReply
  <2>r. ~raced => ~hook.raced /\ ~load.foreign
    BY <2>1, Zenon
  <2>3. UsedInv'
    BY <1>0, <1>1, <2>2 DEF UsedInv, Owned
  <2>4. TableInv'
    <3>1. SUFFICES ASSUME Settled' PROVE TableInv'
      BY DEF TableInv
    <3>2. /\ InFlight' = {} /\ ~hook'.error
          /\ hook'.items = Listing(KindOf[route], current)
      BY <1>0, <1>1, <2>2, <2>r, <3>1 DEF TableInv, Settled
    <3>3. Granted({"rotate"})' = {} /\ Added' = {} /\ Removed' = {}
      BY <3>2 DEF Granted, Added, Removed
    <3>4. ItemsInv'
      BY <1>1, <3>2, <3>3 DEF ItemsInv, Pending, Listing
    <3> QED  BY <1>1, <2>2, <3>2, <3>4 DEF TableInv
  <2> QED  BY <2>3, <2>4
<1>4. CASE LoadFails
  <2>1. hook'.items = hook.items /\ hook'.raced /\ load' = None
    BY <1>0, <1>4 DEF LoadFails, Hook
  <2> QED  BY <1>1, <2>1 DEF UsedInv, Owned, TableInv, Settled
<1> QED  BY <1>2, <1>3, <1>4

LEMMA FormTable ==
    ASSUME PagesInv, UsedInv, TableInv, clearNewKey \/ handleSendInvalid
    PROVE  UsedInv' /\ TableInv'
<1>1. /\ rows' = rows /\ owner' = owner /\ current' = current /\ route' = route
      /\ ops' = ops /\ load' = load /\ InFlight' = InFlight
  BY DEF clearNewKey, handleSendInvalid, InFlight
<1>2. /\ hook'.items = hook.items /\ hook'.from = hook.from /\ hook'.raced = hook.raced
      /\ hook'.loading = hook.loading
      /\ hook'.error = hook.error \/ route = "playground"
  BY DEF clearNewKey, handleSendInvalid, RequestPanel, PagesInv, PagesTypeOK, Hook
<1>3. UsedInv'
  BY <1>1, <1>2 DEF UsedInv, Owned
<1>4. "playground" \notin DOMAIN KindOf
  BY DEF KindOf
<1>5. Granted({"rotate"})' = Granted({"rotate"}) /\ Added' = Added /\ Removed' = Removed
  BY <1>1 DEF Granted, Added, Removed
<1>6. ItemsInv => ItemsInv'
  BY <1>1, <1>2, <1>5 DEF ItemsInv, Pending, Listing
<1>7. \A o : Listing(KindOf[route], o)' = Listing(KindOf[route], o)
  BY <1>1 DEF Listing
<1>8. TableInv'
  BY <1>1, <1>2, <1>4, <1>6, <1>7 DEF TableInv, Settled
<1> QED  BY <1>3, <1>8

\* A request goes out: it changes nothing yet.
LEMMA RequestTable ==
    ASSUME PagesInv, UsedInv, TableInv, NEW s \in Slots, NEW op \in Names,
           NEW arg \in Row \cup {None}, Request(s, op, arg),
           route \in DOMAIN KindOf => op \in HandlersOf[route] /\ arg \in hook.items \cup {None},
           arg # None => Owned(arg) /\ arg.open,
           hook'.items = hook.items, hook'.from = hook.from, hook'.loading = hook.loading,
           hook'.error = FALSE, hook'.raced <=> hook.raced \/ load # None \/ elsewhere
    PROVE  UsedInv' /\ TableInv'
<1> USE DEF PagesInv
<1> DEFINE new == [op |-> op, org |-> header, arg |-> arg, home |-> TRUE,
                   state |-> "sent", row |-> None]
<1>1. /\ new \in Op /\ new.op = op /\ new.arg = arg /\ new.home /\ new.state = "sent"
      /\ new.org = header /\ new.row = None
  BY DEF PagesTypeOK, Op, Names
<1> HIDE DEF new
<1>2. /\ ops[s] = None /\ ops' = [ops EXCEPT ![s] = new] /\ rows' = rows /\ owner' = owner
      /\ current' = current /\ route' = route /\ load' = load
      /\ header' = header /\ elsewhere' = elsewhere
  BY DEF Request, new
<1>3. /\ ops'[s] = new /\ \A t \in Slots \ {s} : ops'[t] = ops[t]
  BY <1>2 DEF PagesTypeOK
<1>4. InFlight' = InFlight \cup {s} /\ s \notin InFlight /\ InFlight \subseteq Slots
  BY <1>1, <1>2, <1>3, NoneAssumption DEF InFlight
<1>5. UsedInv'
  BY <1>1, <1>2, <1>3, <1>4 DEF UsedInv, Owned
<1>6. \A names : Granted(names)' = Granted(names)
  BY <1>1, <1>3, <1>4 DEF Granted
<1>7. Granted({"rotate"})' = Granted({"rotate"}) /\ Added' = Added /\ Removed' = Removed
  <2>1. \A names : Granted(names) \subseteq Slots \ {s}
    BY <1>4 DEF Granted
  <2> QED  BY <1>3, <1>6, <2>1 DEF Added, Removed
<1>8. ASSUME ItemsInv, route \in DOMAIN KindOf PROVE ItemsInv'
  <2>1. \A r \in Added : r \in Row
    BY DEF Added, Granted, AnswerInv
  <2>2. \A r \in Added : r \notin hook'.items /\ \A t \in InFlight' : ops'[t].arg # r
    BY <1>1, <1>3, <1>4, <1>8, <2>1, PagesAssumption DEF ItemsInv
  <2>3. \A t \in Granted({"rotate"}) : ops'[t].row = ops[t].row
    BY <1>3, <1>4 DEF Granted
  <2>4. Listing(KindOf[route], current)' = Listing(KindOf[route], current)
    BY <1>2 DEF Listing
  <2> QED  BY <1>7, <1>8, <2>2, <2>3, <2>4 DEF ItemsInv, Pending
<1>9. TableInv'
  <2>1. SUFFICES ASSUME Settled' PROVE TableInv'
    BY DEF TableInv
  <2>2. Settled /\ load = None /\ header = current
    BY <1>2, <2>1 DEF Settled, HeaderInv
  <2>3. \A t \in InFlight' : /\ ops'[t].home /\ ops'[t].org = current
                             /\ ops'[t].op \in HandlersOf[route]
    BY <1>1, <1>3, <1>4, <2>2 DEF TableInv, Settled
  <2>4. (\A t \in InFlight' : ops'[t].state # "failed") => ItemsInv'
    BY <1>3, <1>4, <1>8, <2>2 DEF TableInv, Settled
  <2> QED  BY <1>2, <2>2, <2>3, <2>4 DEF TableInv
<1> QED  BY <1>5, <1>9

LEMMA HandlerTable ==
    ASSUME PagesInv, UsedInv, TableInv, NEW s \in Slots, Handler(s)
    PROVE  UsedInv' /\ TableInv'
<1> USE DEF PagesInv
<1>0. /\ hook \in Hook /\ hook.items \subseteq Row /\ rows["key"] \subseteq Row
      /\ \A r \in hook.items : Owned(r) /\ (route # "members" => r.open)
      /\ \A r \in rows["key"] : Owned(r) /\ r.open
      /\ hook.raced \in BOOLEAN
  BY DEF PagesTypeOK, Hook, Kinds, UsedInv
<1>1. ASSUME NEW g, g = Busy(hook) \/ g = Asking(hook)
      PROVE  /\ g \in Hook /\ g.items = hook.items /\ g.from = hook.from
             /\ g.loading = hook.loading /\ g.error = FALSE
             /\ g.raced <=> hook.raced \/ load # None \/ elsewhere
  <2> DEFINE racing == hook.raced \/ load # None \/ elsewhere
  <2>1. racing \in BOOLEAN
    OBVIOUS
  <2>2. \/ g = [hook EXCEPT !.busy = TRUE, !.error = FALSE, !.raced = racing]
        \/ g = [hook EXCEPT !.error = FALSE, !.raced = racing]
    BY <1>0, <1>1 DEF Busy, Asking, Hook
  <2> HIDE DEF racing
  <2>3. /\ g \in Hook /\ g.items = hook.items /\ g.from = hook.from
        /\ g.loading = hook.loading /\ g.error = FALSE /\ g.raced = racing
    BY <1>0, <2>1, <2>2 DEF Hook
  <2> QED  BY <2>3 DEF racing
<1>2. CASE createKey(s)
  <2>1. route = "keys" /\ Request(s, "createKey", None) /\ hook' = Busy(hook)
    BY <1>2 DEF createKey, ApiKeyForm
  <2> QED  BY <1>1, <2>1, RequestTable DEF HandlersOf, Names
<1>3. ASSUME NEW r \in hook.items, removeKey(s, r) PROVE UsedInv' /\ TableInv'
  <2>1. route = "keys" /\ Request(s, "removeKey", r) /\ hook' = Asking(hook)
    BY <1>3 DEF removeKey
  <2> QED  BY <1>0, <1>1, <2>1, RequestTable DEF HandlersOf, Names
<1>4. ASSUME NEW r \in hook.items, cancelInv(s, r) PROVE UsedInv' /\ TableInv'
  <2>1. route = "members" /\ Request(s, "cancelInv", r) /\ hook' = Asking(hook) /\ r.open
    BY <1>4 DEF cancelInv
  <2> QED  BY <1>0, <1>1, <2>1, RequestTable DEF HandlersOf, Names
<1>5. CASE sendInvitation(s)
  <2>1. route = "members" /\ Request(s, "sendInvitation", None) /\ hook' = Busy(hook)
    BY <1>5 DEF sendInvitation, InviteForm
  <2> QED  BY <1>1, <2>1, RequestTable DEF HandlersOf, Names
<1>6. CASE rotate(s)
  <2>1. route = "settings" /\ Request(s, "rotate", None) /\ hook' = Busy(hook)
    BY <1>6 DEF rotate
  <2> QED  BY <1>1, <2>1, RequestTable DEF HandlersOf, Names
<1>7. ASSUME NEW r \in rows["key"], handleSend(s, r) PROVE UsedInv' /\ TableInv'
  <2>1. route = "playground" /\ Request(s, "send", r) /\ hook' = [Busy(hook) EXCEPT !.fresh = None]
    BY <1>7 DEF handleSend, RequestPanel
  <2>2. route \notin DOMAIN KindOf
    BY <2>1 DEF KindOf
  <2>3. PICK g : g = Busy(hook)
    OBVIOUS
  <2>4. /\ hook'.items = g.items /\ hook'.from = g.from /\ hook'.loading = g.loading
        /\ hook'.error = g.error /\ hook'.raced = g.raced
    BY <1>1, <2>1, <2>3 DEF Hook
  <2> QED  BY <1>0, <1>1, <2>1, <2>2, <2>3, <2>4, RequestTable DEF Names
<1> QED  BY <1>2, <1>3, <1>4, <1>5, <1>6, <1>7 DEF Handler

\* The server works on the request s, and on no other. Nobody looks at the answer
\* when the page is gone.
LEMMA AnsweredOp ==
    ASSUME PagesInv, NEW s \in Slots, NEW op \in Names, NEW row \in Row \cup {None},
           Handling(s, op), Answer(s, row)
    PROVE  \E out \in {"ok", "failed"} :
               /\ s \in InFlight /\ InFlight' \subseteq InFlight /\ InFlight \subseteq Slots
               /\ ops[s].op = op /\ ops[s].state = "sent"
               /\ s \in InFlight' => ops[s].home
               /\ ops[s].home =>
                     /\ InFlight' = InFlight
                     /\ ops'[s].state = out /\ ops'[s].row = row /\ ops'[s].op = op
                     /\ ops'[s].arg = ops[s].arg /\ ops'[s].home /\ ops'[s].org = ops[s].org
               /\ \A t \in Slots \ {s} : ops'[t] = ops[t]
<1> USE DEF PagesInv
<1>1. ops[s] \in Op /\ ops[s] # None /\ ops[s].op = op /\ ops[s].state = "sent"
  BY DEF Handling, PagesTypeOK
<1>2. PICK out \in {"ok", "failed"} :
          ops' = [ops EXCEPT ![s] = IF @.home THEN [@ EXCEPT !.state = out, !.row = row]
                                              ELSE None]
  BY DEF Answer
<1> DEFINE new == [ops[s] EXCEPT !.state = out, !.row = row]
<1>3. /\ new \in Op /\ new.op = op /\ new.arg = ops[s].arg /\ new.home = ops[s].home
      /\ new.row = row /\ new.state = out /\ new.org = ops[s].org
  BY <1>1 DEF Op
<1>4. ops' = [ops EXCEPT ![s] = IF ops[s].home THEN new ELSE None]
  BY <1>1, <1>2 DEF PagesTypeOK
<1> HIDE DEF new
<1>5. /\ ops[s].home => ops'[s] = new
      /\ ~ops[s].home => ops'[s] = None
      /\ \A t \in Slots \ {s} : ops'[t] = ops[t]
  BY <1>4 DEF PagesTypeOK
<1>6. /\ s \in InFlight /\ InFlight' \subseteq InFlight /\ InFlight \subseteq Slots
      /\ s \in InFlight' => ops[s].home
      /\ ops[s].home => InFlight' = InFlight
  BY <1>1, <1>3, <1>5, NoneAssumption DEF InFlight
<1> QED  BY <1>1, <1>3, <1>5, <1>6

\* What a page lists changes by the answer that is on its way to it.
LEMMA ServedTable ==
    ASSUME PagesInv, UsedInv, TableInv, NEW s \in Slots, NEW op \in Names,
           NEW row \in Row \cup {None}, Handling(s, op), Answer(s, row),
           \A i \in Ids : owner[i] # None => owner'[i] = owner[i],
           row # None => Owned(row)' /\ row.open,
           \A k \in Kinds : \A r \in rows'[k] : Owned(r)' /\ (k # "invitation" => r.open),
           (Settled /\ load = None /\ ops[s].org = current /\ op \in HandlersOf[route] /\ ItemsInv
                /\ \A t \in InFlight : ops[t].home /\ ops[t].op \in HandlersOf[route])
              => (ops'[s].state = "ok" => ItemsInv')
    PROVE  UsedInv' /\ TableInv'
<1>1. PICK out \in {"ok", "failed"} :
          /\ s \in InFlight /\ InFlight' \subseteq InFlight /\ InFlight \subseteq Slots
          /\ ops[s].op = op /\ ops[s].state = "sent"
          /\ s \in InFlight' => ops[s].home
          /\ ops[s].home =>
                /\ InFlight' = InFlight
                /\ ops'[s].state = out /\ ops'[s].row = row /\ ops'[s].op = op
                /\ ops'[s].arg = ops[s].arg /\ ops'[s].home /\ ops'[s].org = ops[s].org
          /\ \A t \in Slots \ {s} : ops'[t] = ops[t]
  BY AnsweredOp
<1>2. current' = current /\ route' = route /\ hook' = hook /\ load' = load
  BY DEF Handling
<1>3. UsedInv'
  <2>1. ASSUME NEW r \in Row, Owned(r) PROVE Owned(r)'
    BY <2>1, PagesAssumption DEF Owned, Row
  <2>2. /\ hook.items \subseteq Row /\ (load # None => load.data \subseteq Row)
        /\ \A t \in InFlight : /\ ops[t].arg \in Row \cup {None}
                               /\ ops[t].row \in Row \cup {None}
    BY DEF PagesInv, PagesTypeOK, Hook, Load, Op, InFlight
  <2>3. \A r \in hook'.items : Owned(r)' /\ (route' # "members" => r.open)
    BY <1>2, <2>1, <2>2 DEF UsedInv
  <2>4. load' # None => \A r \in load'.data : Owned(r)' /\ (route' # "members" => r.open)
    BY <1>2, <2>1, <2>2 DEF UsedInv
  <2>5. ASSUME NEW t \in InFlight'
        PROVE  /\ ops'[t].arg # None => owner'[ops'[t].arg.id] = ops'[t].arg.org /\ ops'[t].arg.open
               /\ ops'[t].row # None => owner'[ops'[t].row.id] = ops'[t].row.org /\ ops'[t].row.open
    BY <1>1, <2>1, <2>2 DEF UsedInv, Owned
  <2> QED  BY <2>3, <2>4, <2>5 DEF UsedInv, Owned
<1>4. TableInv'
  <2>1. SUFFICES ASSUME Settled' PROVE TableInv'
    BY DEF TableInv
  <2>2. Settled /\ InFlight # {}
    BY <1>1, <1>2, <2>1 DEF Settled
  <2>3. /\ load = None /\ ~hook.error /\ hook.from = current /\ ~hook.loading
        /\ \A t \in InFlight : /\ ops[t].home /\ ops[t].org = current
                               /\ ops[t].op \in HandlersOf[route]
    BY <2>2 DEF TableInv
  <2>4. \A t \in InFlight' : /\ ops'[t].home /\ ops'[t].org = current
                             /\ ops'[t].op \in HandlersOf[route]
    BY <1>1, <2>3
  <2>5. ASSUME \A t \in InFlight' : ops'[t].state # "failed" PROVE ItemsInv'
    <3>1. \A t \in InFlight : ops[t].state # "failed"
      BY <1>1, <2>3, <2>5
    <3>2. ItemsInv
      BY <2>2, <2>3, <3>1 DEF TableInv
    <3> QED  BY <1>1, <2>2, <2>3, <2>5, <3>2
  <2> QED  BY <1>2, <2>3, <2>4, <2>5 DEF TableInv
<1> QED  BY <1>3, <1>4

\* A row is inserted: its identifier is new, so nobody has heard of it. What it
\* replaces is closed.
LEMMA InsertTable ==
    ASSUME PagesInv, UsedInv, TableInv, NEW s \in Slots, NEW k \in Kinds, NEW o \in Orgs,
           NEW op \in {"createKey", "sendInvitation", "send"}, Handling(s, op),
           NEW old, \A q \in old : ~q.open, Insert(s, k, o, old),
           (route \in DOMAIN KindOf /\ op \in HandlersOf[route]) => k = KindOf[route] /\ o = ops[s].org
    PROVE  UsedInv' /\ TableInv'
<1> USE DEF PagesInv
<1>1. PICK i \in Ids, r \in Row :
          /\ owner[i] = None /\ r.id = i /\ r.org = o /\ r.open
          /\ rows' = [rows EXCEPT ![k] = (rows[k] \ old) \cup {r}]
          /\ owner' = [owner EXCEPT ![i] = o] /\ Answer(s, r)
  <2>1. PICK i \in Ids :
            /\ owner[i] = None
            /\ rows' = [rows EXCEPT ![k] = (@ \ old) \cup {[id |-> i, org |-> o, open |-> TRUE]}]
            /\ owner' = [owner EXCEPT ![i] = o]
            /\ Answer(s, [id |-> i, org |-> o, open |-> TRUE])
    BY DEF Insert
  <2>2. PICK r : r = [id |-> i, org |-> o, open |-> TRUE]
    OBVIOUS
  <2>3. r \in Row /\ r.id = i /\ r.org = o /\ r.open
    BY <2>2 DEF Row
  <2> QED  BY <2>1, <2>2, <2>3
<1>2. rows \in [Kinds -> SUBSET Row] /\ owner \in [Ids -> Orgs \cup {None}] /\ op \in Names
  BY DEF PagesTypeOK, Names
<1>3. rows'[k] = (rows[k] \ old) \cup {r} /\ \A l \in Kinds \ {k} : rows'[l] = rows[l]
  BY <1>1, <1>2
<1>o. /\ Owned(r)'
      /\ \A j \in Ids : owner[j] # None => owner'[j] = owner[j]
      /\ \A q \in Row : Owned(q) => Owned(q)' /\ q # r
  BY <1>1, <1>2, PagesAssumption DEF Owned, Row
<1>4. \A l \in Kinds : \A q \in rows'[l] : Owned(q)' /\ (l # "invitation" => q.open)
  BY <1>1, <1>2, <1>3, <1>o DEF UsedInv
<1>5. ASSUME Settled, load = None, ops[s].org = current, op \in HandlersOf[route], ItemsInv,
             \A t \in InFlight : ops[t].home /\ ops[t].op \in HandlersOf[route],
             ops'[s].state = "ok"
      PROVE  ItemsInv'
  <2>1. /\ s \in InFlight /\ InFlight' = InFlight /\ InFlight \subseteq Slots
        /\ ops[s].op = op /\ ops[s].state = "sent"
        /\ ops'[s].row = r /\ ops'[s].op = op /\ ops'[s].arg = ops[s].arg
        /\ \A t \in Slots \ {s} : ops'[t] = ops[t]
    BY <1>1, <1>2, <1>5, AnsweredOp
  <2>2. op \in {"createKey", "sendInvitation"} /\ "rotate" \notin HandlersOf[route]
    BY <1>5 DEF HandlersOf, Settled, KindOf
  <2>3. Granted({"rotate"}) = {} /\ Granted({"rotate"})' = {}
    BY <1>5, <2>1, <2>2 DEF Granted
  <2>4. /\ Granted({"createKey", "sendInvitation"})' = Granted({"createKey", "sendInvitation"}) \cup {s}
        /\ s \notin Granted({"createKey", "sendInvitation"})
    BY <1>5, <2>1, <2>2 DEF Granted
  <2>5. Added' = Added \cup {r}
    BY <2>1, <2>4 DEF Added, Granted
  <2>6. /\ Granted({"removeKey", "cancelInv"})' = Granted({"removeKey", "cancelInv"})
        /\ s \notin Granted({"removeKey", "cancelInv"})
    BY <2>1, <2>2 DEF Granted
  <2>7. Removed' = Removed
    BY <2>1, <2>6 DEF Removed, Granted
  <2>8. /\ current' = current /\ route' = route /\ hook' = hook
        /\ Listing(KindOf[route], current)' = (Listing(KindOf[route], current) \ old) \cup {r}
    BY <1>1, <1>3, <1>5 DEF Handling, Listing, Settled
  <2>9. r \notin hook.items /\ \A t \in InFlight : ops[t].arg # r
    <3>1. /\ hook.items \subseteq Row
          /\ \A t \in InFlight : ops[t].arg \in Row \cup {None}
      BY DEF PagesTypeOK, Hook, Op, InFlight
    <3> QED  BY <1>1, <1>o, <3>1, PagesAssumption DEF UsedInv
  <2>10. r \notin Removed
    BY <2>9 DEF Removed, Granted
  <2>11. Pending(Listing(KindOf[route], current)) = Pending((hook.items \cup Added) \ Removed)
    BY <1>5, <2>3 DEF ItemsInv
  <2>12. Pending((Listing(KindOf[route], current) \ old) \cup {r}) = Pending((hook.items \cup (Added \cup {r})) \ Removed)
    BY <2>10, <2>11 DEF Pending
  <2>13. \A q \in Added \cup {r} : q \notin hook.items /\ \A t \in InFlight : ops'[t].arg # q
    BY <1>5, <2>1, <2>9 DEF ItemsInv
  <2>14. Pending(Listing(KindOf[route], current))' = Pending((hook.items \cup Added) \ Removed)'
    BY <2>5, <2>7, <2>8, <2>12 DEF Pending
  <2> QED  BY <2>1, <2>3, <2>5, <2>8, <2>13, <2>14 DEF ItemsInv
<1> QED  BY <1>1, <1>2, <1>o, <1>4, <1>5, ServedTable

\* The row of a request is taken away, or closed.
LEMMA RemoveTable ==
    ASSUME PagesInv, UsedInv, TableInv, NEW s \in Slots, NEW op \in {"removeKey", "cancelInv"},
           Handling(s, op), Answer(s, None), owner' = owner,
           \A k \in Kinds : \A r \in rows'[k] : Owned(r)' /\ (k # "invitation" => r.open),
           (route \in DOMAIN KindOf /\ op \in HandlersOf[route]) =>
              Pending(Listing(KindOf[route], current))'
                  = Pending(Listing(KindOf[route], current)) \ {ops[s].arg}
    PROVE  UsedInv' /\ TableInv'
<1>1. op \in Names
  BY DEF Names
<1>2. ASSUME Settled, load = None, ops[s].org = current, op \in HandlersOf[route], ItemsInv,
             \A t \in InFlight : ops[t].home /\ ops[t].op \in HandlersOf[route],
             ops'[s].state = "ok"
      PROVE  ItemsInv'
  <2>1. /\ s \in InFlight /\ InFlight' = InFlight /\ InFlight \subseteq Slots
        /\ ops[s].op = op /\ ops[s].state = "sent"
        /\ ops'[s].op = op /\ ops'[s].arg = ops[s].arg
        /\ \A t \in Slots \ {s} : ops'[t] = ops[t]
    BY <1>1, <1>2, AnsweredOp
  <2>2. "rotate" \notin HandlersOf[route]
    BY <1>2 DEF HandlersOf, Settled, KindOf
  <2>3. Granted({"rotate"}) = {} /\ Granted({"rotate"})' = {}
    BY <1>2, <2>1, <2>2 DEF Granted
  <2>4. /\ Granted({"createKey", "sendInvitation"})' = Granted({"createKey", "sendInvitation"})
        /\ s \notin Granted({"createKey", "sendInvitation"})
    BY <2>1 DEF Granted
  <2>5. Added' = Added
    BY <2>1, <2>4 DEF Added, Granted
  <2>6. /\ Granted({"removeKey", "cancelInv"})' = Granted({"removeKey", "cancelInv"}) \cup {s}
        /\ s \notin Granted({"removeKey", "cancelInv"})
    BY <1>2, <2>1 DEF Granted
  <2>7. Removed' = Removed \cup {ops[s].arg}
    BY <2>1, <2>6 DEF Removed, Granted
  <2>8. current' = current /\ route' = route /\ hook' = hook
    BY DEF Handling
  <2>9. Pending(Listing(KindOf[route], current)) = Pending((hook.items \cup Added) \ Removed)
    BY <1>2, <2>3 DEF ItemsInv
  <2>10. Pending(Listing(KindOf[route], current)) \ {ops[s].arg}
            = Pending((hook.items \cup Added) \ (Removed \cup {ops[s].arg}))
    BY <2>9 DEF Pending
  <2>11. Pending((hook.items \cup Added) \ Removed)'
            = Pending((hook.items \cup Added) \ (Removed \cup {ops[s].arg}))
    BY <2>5, <2>7, <2>8 DEF Pending
  <2>12. Pending(Listing(KindOf[route], current))' = Pending((hook.items \cup Added) \ Removed)'
    BY <1>2, <2>10, <2>11 DEF Settled
  <2>13. \A q \in Added : q \notin hook.items /\ \A t \in InFlight : ops'[t].arg # q
    BY <1>2, <2>1 DEF ItemsInv
  <2> QED  BY <2>1, <2>3, <2>5, <2>8, <2>12, <2>13 DEF ItemsInv
<1> QED  BY <1>1, <1>2, ServedTable

\* The secret is replaced. The button admits one rotation at a time.
LEMMA RotateTable ==
    ASSUME PagesInv, UsedInv, TableInv, NEW s \in Slots, RotateSigningSecret(s)
    PROVE  UsedInv' /\ TableInv'
<1> USE DEF PagesInv
<1>1. PICK i \in Ids, r \in Row :
          /\ owner[i] = None /\ r.id = i /\ r.org = ops[s].org /\ r.open
          /\ rows' = [rows EXCEPT !["secret"] = (rows["secret"] \ Listing("secret", ops[s].org)) \cup {r}]
          /\ owner' = [owner EXCEPT ![i] = ops[s].org] /\ Answer(s, r)
  <2>1. PICK i \in Ids :
            LET r == [id |-> i, org |-> ops[s].org, open |-> TRUE] IN
            /\ owner[i] = None
            /\ rows' = [rows EXCEPT !["secret"] = (@ \ Listing("secret", ops[s].org)) \cup {r}]
            /\ owner' = [owner EXCEPT ![i] = ops[s].org] /\ Answer(s, r)
    BY DEF RotateSigningSecret, Insert
  <2>2. PICK r : r = [id |-> i, org |-> ops[s].org, open |-> TRUE]
    OBVIOUS
  <2>3. r \in Row /\ r.id = i /\ r.org = ops[s].org /\ r.open
    BY <2>2, PagesAssumption DEF RotateSigningSecret, Row
  <2> QED  BY <2>1, <2>2, <2>3
<1>2. /\ rows \in [Kinds -> SUBSET Row] /\ "secret" \in Kinds /\ "rotate" \in Names
      /\ Handling(s, "rotate") /\ owner \in [Ids -> Orgs \cup {None}] /\ ops[s].org \in Orgs
  BY PagesAssumption DEF PagesTypeOK, Names, Kinds, RotateSigningSecret
<1>3. /\ rows'["secret"] = (rows["secret"] \ Listing("secret", ops[s].org)) \cup {r}
      /\ \A l \in Kinds \ {"secret"} : rows'[l] = rows[l]
  BY <1>1, <1>2
<1>o. /\ Owned(r)'
      /\ \A j \in Ids : owner[j] # None => owner'[j] = owner[j]
      /\ \A q \in Row : Owned(q) => Owned(q)'
  BY <1>1, <1>2, PagesAssumption DEF Owned, Row
<1>4. \A l \in Kinds : \A q \in rows'[l] : Owned(q)' /\ (l # "invitation" => q.open)
  BY <1>1, <1>2, <1>3, <1>o DEF UsedInv
<1>5. ASSUME Settled, load = None, ops[s].org = current, "rotate" \in HandlersOf[route], ItemsInv,
             \A t \in InFlight : ops[t].home /\ ops[t].op \in HandlersOf[route],
             ops'[s].state = "ok"
      PROVE  ItemsInv'
  <2>1. /\ s \in InFlight /\ InFlight' = InFlight /\ InFlight \subseteq Slots
        /\ ops[s].op = "rotate" /\ ops[s].state = "sent"
        /\ ops'[s].row = r /\ ops'[s].op = "rotate"
        /\ \A t \in Slots \ {s} : ops'[t] = ops[t]
    BY <1>1, <1>2, <1>5, AnsweredOp
  <2>2. route = "settings" /\ HandlersOf[route] = {"rotate"} /\ KindOf[route] = "secret"
    BY <1>5 DEF HandlersOf, Settled, KindOf
  <2>3. InFlight = {s}
    BY <1>5, <2>1, <2>2 DEF BusyInv, Disabling
  <2>4. Granted({"rotate"})' = {s}
    BY <1>5, <2>1, <2>3 DEF Granted
  <2>5. Added' = {}
    BY <2>1, <2>3 DEF Added, Granted
  <2>6. current' = current /\ route' = route
    BY <1>2 DEF Handling
  <2>7. Listing(KindOf[route], current)' = {r}
    BY <1>1, <1>3, <1>5, <2>2, <2>6 DEF Listing
  <2> QED  BY <2>1, <2>4, <2>5, <2>7 DEF ItemsInv
<1> QED  BY <1>1, <1>2, <1>o, <1>4, <1>5, ServedTable

LEMMA ServeTable ==
    ASSUME PagesInv, UsedInv, TableInv, NEW s \in Slots, ServeOp(s)
    PROVE  UsedInv' /\ TableInv'
<1> USE DEF PagesInv
<1>0. /\ rows \in [Kinds -> SUBSET Row]
      /\ ops[s] # None => /\ ops[s].org \in Orgs \cup {None}
                          /\ ops[s].op \in {"removeKey", "cancelInv"} =>
                                ops[s].arg \in Row /\ Owned(ops[s].arg)
  <2>1. ops[s] # None => s \in InFlight /\ ops[s] \in Op
    BY DEF InFlight, PagesTypeOK
  <2>2. \A q \in Op : q.org \in Orgs \cup {None}
    BY DEF Op
  <2>3. (s \in InFlight /\ ops[s].op \in {"removeKey", "cancelInv"}) => ops[s].arg \in Row
    BY DEF AnswerInv
  <2> QED  BY <2>1, <2>2, <2>3, PagesAssumption DEF PagesTypeOK, UsedInv
<1>1. CASE ApiKeyCreate(s)
  <2>1. Handling(s, "createKey") /\ Insert(s, "key", ops[s].org, {}) /\ ops[s].org \in Orgs
    BY <1>0, <1>1 DEF ApiKeyCreate, Handling
  <2>2. (route \in DOMAIN KindOf /\ "createKey" \in HandlersOf[route]) => "key" = KindOf[route]
    BY DEF HandlersOf, KindOf
  <2> QED  BY <2>1, <2>2, InsertTable DEF Kinds
<1>2. CASE CreateInvitation(s)
  <2>1. PICK old : /\ \A q \in old : ~q.open
                   /\ Insert(s, "invitation", ops[s].org, old)
    BY <1>2 DEF CreateInvitation
  <2>3. Handling(s, "sendInvitation") /\ ops[s].org \in Orgs
    BY <1>2, PagesAssumption DEF CreateInvitation
  <2>2. (route \in DOMAIN KindOf /\ "sendInvitation" \in HandlersOf[route]) => "invitation" = KindOf[route]
    BY DEF HandlersOf, KindOf
  <2> QED  BY <2>1, <2>2, <2>3, InsertTable DEF Kinds
<1>3. CASE SendWebhook(s)
  <2>1. Handling(s, "send") /\ Insert(s, "message", ops[s].arg.org, {}) /\ ops[s].arg.org \in Orgs
    BY <1>0, <1>3 DEF SendWebhook, Kinds, Row
  <2>2. route \in DOMAIN KindOf => "send" \notin HandlersOf[route]
    BY DEF HandlersOf, KindOf
  <2> QED  BY <2>1, <2>2, InsertTable DEF Kinds
<1>4. CASE ApiKeyDelete(s)
  <2>1. /\ Handling(s, "removeKey") /\ Answer(s, None) /\ owner' = owner
        /\ rows' = [rows EXCEPT !["key"] = rows["key"] \ {ops[s].arg}]
    BY <1>4 DEF ApiKeyDelete
  <2>2. rows'["key"] = rows["key"] \ {ops[s].arg} /\ \A k \in Kinds \ {"key"} : rows'[k] = rows[k]
    BY <1>0, <2>1 DEF Kinds
  <2>3. \A k \in Kinds : \A r \in rows'[k] : Owned(r)' /\ (k # "invitation" => r.open)
    BY <2>1, <2>2 DEF UsedInv, Owned
  <2>4. ASSUME route \in DOMAIN KindOf, "removeKey" \in HandlersOf[route]
        PROVE  Pending(Listing(KindOf[route], current))'
                  = Pending(Listing(KindOf[route], current)) \ {ops[s].arg}
    <3>1. KindOf[route] = "key" /\ route' = route /\ current' = current
      BY <2>1, <2>4 DEF HandlersOf, KindOf, Handling
    <3> QED  BY <2>2, <3>1 DEF Pending, Listing
  <2> QED  BY <2>1, <2>3, <2>4, RemoveTable
<1>5. CASE CancelInvitation(s)
  <2> DEFINE closed == [ops[s].arg EXCEPT !.open = FALSE]
  <2>1. /\ Handling(s, "cancelInv") /\ Answer(s, None) /\ owner' = owner
        /\ rows' = [rows EXCEPT !["invitation"] = (rows["invitation"] \ {ops[s].arg}) \cup {closed}]
    BY <1>5 DEF CancelInvitation
  <2>2. Owned(closed) /\ ~closed.open
    BY <1>0, <2>1 DEF Handling, Row, Owned
  <2> HIDE DEF closed
  <2>3. /\ rows'["invitation"] = (rows["invitation"] \ {ops[s].arg}) \cup {closed}
        /\ \A k \in Kinds \ {"invitation"} : rows'[k] = rows[k]
    BY <1>0, <2>1 DEF Kinds
  <2>4. \A k \in Kinds : \A r \in rows'[k] : Owned(r)' /\ (k # "invitation" => r.open)
    BY <2>1, <2>2, <2>3 DEF UsedInv, Owned
  <2>5. ASSUME route \in DOMAIN KindOf, "cancelInv" \in HandlersOf[route]
        PROVE  Pending(Listing(KindOf[route], current))'
                  = Pending(Listing(KindOf[route], current)) \ {ops[s].arg}
    <3>1. KindOf[route] = "invitation" /\ route' = route /\ current' = current
      BY <2>1, <2>5 DEF HandlersOf, KindOf, Handling
    <3> QED  BY <2>2, <2>3, <3>1 DEF Pending, Listing
  <2> QED  BY <2>1, <2>4, <2>5, RemoveTable
<1>6. CASE RotateSigningSecret(s)
  BY <1>6, RotateTable
<1> QED  BY <1>1, <1>2, <1>3, <1>4, <1>5, <1>6 DEF ServeOp

\* What the answer to a request of the mounted page does to its list.
LEMMA DoneItems ==
    ASSUME PagesInv, NEW s \in InFlight
    PROVE  /\ Done(hook, ops[s]).raced = hook.raced
           /\ ops[s].op \in {"createKey", "sendInvitation"} =>
                 Done(hook, ops[s]).items = hook.items \cup {ops[s].row}
           /\ ops[s].op \in {"removeKey", "cancelInv"} =>
                 Done(hook, ops[s]).items = Without(hook.items, ops[s].arg.id)
           /\ ops[s].op = "rotate" => Done(hook, ops[s]).items = {ops[s].row}
           /\ ops[s].op = "send" => Done(hook, ops[s]).items = hook.items
<1> DEFINE q == ops[s]
           g == Done(hook, q)
<1>1. hook \in Hook /\ q.op \in Names
  BY DEF PagesInv, PagesTypeOK, InFlight, Op, Names
<1> HIDE DEF q
<1>2. CASE q.op = "createKey"
  <2>1. g = [hook EXCEPT !.items = @ \cup {q.row}, !.busy = FALSE,
                         !.late = @ \cup Late(q.row), !.fresh = q.row]
    BY <1>1, <1>2 DEF Done, Prepended, Hook
  <2>2. g.items = hook.items \cup {q.row} /\ g.raced = hook.raced
    BY <1>1, <2>1 DEF Hook
  <2> QED  BY <1>2, <2>2 DEF q
<1>3. CASE q.op = "sendInvitation"
  <2>1. g = [hook EXCEPT !.items = @ \cup {q.row}, !.busy = FALSE, !.late = @ \cup Late(q.row)]
    BY <1>1, <1>3 DEF Done, Prepended
  <2>2. g.items = hook.items \cup {q.row} /\ g.raced = hook.raced
    BY <1>1, <2>1 DEF Hook
  <2> QED  BY <1>3, <2>2 DEF q
<1>4. CASE q.op = "rotate"
  <2>1. g = [hook EXCEPT !.items = {q.row}, !.busy = FALSE, !.late = Late(q.row)]
    BY <1>1, <1>4 DEF Done
  <2>2. g.items = {q.row} /\ g.raced = hook.raced
    BY <1>1, <2>1 DEF Hook
  <2> QED  BY <1>4, <2>2 DEF q
<1>5. CASE q.op \in {"removeKey", "cancelInv"}
  <2>1. g = [hook EXCEPT !.items = Without(@, q.arg.id)]
    BY <1>1, <1>5 DEF Done
  <2>2. g.items = Without(hook.items, q.arg.id) /\ g.raced = hook.raced
    BY <1>1, <2>1 DEF Hook
  <2> QED  BY <1>5, <2>2 DEF q
<1>6. CASE q.op = "send"
  <2>1. g = [hook EXCEPT !.fresh = q.row, !.busy = FALSE]
    BY <1>1, <1>6 DEF Done
  <2>2. g.items = hook.items /\ g.raced = hook.raced
    BY <1>1, <2>1 DEF Hook
  <2> QED  BY <1>6, <2>2 DEF q
<1> QED  BY <1>1, <1>2, <1>3, <1>4, <1>5, <1>6 DEF Names

\* An answer is applied: the list has now what was on its way to it.
LEMMA ReplyItems ==
    ASSUME PagesInv, UsedInv, TableInv, NEW s \in Slots, OpReply(s), Settled, ItemsInv
    PROVE  ItemsInv'
<1> USE DEF PagesInv
<1>1. /\ s \in InFlight /\ ops[s].state = "ok" /\ ops' = [ops EXCEPT ![s] = None]
      /\ rows' = rows /\ current' = current /\ route' = route
      /\ ops[s].home /\ ops[s].op \in HandlersOf[route]
      /\ \A t \in InFlight : ops[t].home /\ ops[t].op \in HandlersOf[route]
  BY DEF OpReply, InFlight, TableInv
<1>2. hook' = Done(hook, ops[s])
  BY <1>1 DEF OpReply
<1>3. InFlight' = InFlight \ {s} /\ \A t \in InFlight' : ops'[t] = ops[t]
  BY <1>1 DEF PagesTypeOK, InFlight
<1>4. \A names : Granted(names)' = Granted(names) \ {s}
  BY <1>3 DEF Granted
<1>5. /\ Added' = {ops[t].row : t \in Granted({"createKey", "sendInvitation"}) \ {s}}
      /\ Removed' = {ops[t].arg : t \in Granted({"removeKey", "cancelInv"}) \ {s}}
  <2>1. \A names : \A t \in Granted(names) \ {s} : ops'[t] = ops[t]
    BY <1>3 DEF Granted
  <2> QED  BY <1>4, <2>1 DEF Added, Removed
<1>6. Listing(KindOf[route], current)' = Listing(KindOf[route], current)
  BY <1>1 DEF Listing
<1>7. CASE ops[s].op = "rotate"
  <2>1. HandlersOf[route] = {"rotate"}
    BY <1>1, <1>7 DEF HandlersOf, Settled, KindOf
  <2>2. InFlight = {s}
    BY <1>1, <1>7, <2>1 DEF BusyInv, Disabling
  <2>3. Granted({"rotate"})' = {} /\ Added' = {} /\ Removed' = {}
    BY <1>3, <2>2 DEF Granted, Added, Removed
  <2>4. Listing(KindOf[route], current) = {ops[s].row}
    BY <1>1, <1>7 DEF ItemsInv, Granted
  <2>5. hook'.items = {ops[s].row}
    BY <1>1, <1>2, <1>7, DoneItems
  <2>6. Pending(Listing(KindOf[route], current))' = Pending((hook.items \cup Added) \ Removed)'
    BY <1>6, <2>3, <2>4, <2>5 DEF Pending
  <2> QED  BY <2>3, <2>6 DEF ItemsInv
<1>8. CASE ops[s].op \in {"createKey", "sendInvitation", "removeKey", "cancelInv"}
  <2>1. "rotate" \notin HandlersOf[route]
    BY <1>1, <1>8 DEF HandlersOf, Settled, KindOf
  <2>2. Granted({"rotate"}) = {} /\ Granted({"rotate"})' = {}
    <3>1. Granted({"rotate"}) = {}
      BY <1>1, <2>1 DEF Granted
    <3>2. Granted({"rotate"})' = Granted({"rotate"}) \ {s}
      BY <1>4
    <3> QED  BY <3>1, <3>2
  <2>3. Pending(Listing(KindOf[route], current)) = Pending((hook.items \cup Added) \ Removed)
    BY <2>2 DEF ItemsInv
  <2>4. CASE ops[s].op \in {"createKey", "sendInvitation"}
    <3>1. Granted({"createKey", "sendInvitation"}) = {s}
      BY <1>1, <2>4 DEF Granted, BusyInv, Disabling
    <3>2. Added = {ops[s].row} /\ Added' = {}
      BY <1>5, <3>1 DEF Added
    <3>3. Removed' = Removed
      BY <1>5, <2>4 DEF Removed, Granted
    <3>4. hook'.items = hook.items \cup {ops[s].row}
      BY <1>1, <1>2, <2>4, DoneItems
    <3>5. Pending(Listing(KindOf[route], current))' = Pending((hook.items \cup Added) \ Removed)'
      BY <1>6, <2>3, <3>2, <3>3, <3>4 DEF Pending
    <3> QED  BY <2>2, <3>2, <3>5 DEF ItemsInv
  <2>5. CASE ops[s].op \in {"removeKey", "cancelInv"}
    <3>1. Added' = Added
      BY <1>5, <2>5 DEF Added, Granted
    <3>2. Removed = Removed' \cup {ops[s].arg}
      BY <1>1, <1>5, <2>5 DEF Removed, Granted
    <3>3. hook'.items = Without(hook.items, ops[s].arg.id) /\ ops[s].arg \notin Added
      BY <1>1, <1>2, <2>5, DoneItems DEF ItemsInv
    <3>4. Pending((hook.items \cup Added) \ Removed)
             = Pending((Without(hook.items, ops[s].arg.id) \cup Added) \ Removed')
      <4>1. /\ ops[s].arg \in Row /\ ops[s].arg # None /\ Owned(ops[s].arg) /\ ops[s].arg.open
            /\ hook.items \subseteq Row
        BY <1>1, <2>5, PagesAssumption DEF AnswerInv, UsedInv, PagesTypeOK, Hook
      <4>2. \A r \in hook.items : (r.open /\ r.id = ops[s].arg.id) => r = ops[s].arg
        BY <4>1 DEF UsedInv, Owned, Row
      <4> QED  BY <3>2, <3>3, <4>2 DEF Pending, Without
    <3>5. Pending(Listing(KindOf[route], current))' = Pending((hook.items \cup Added) \ Removed)'
      BY <1>6, <2>3, <3>1, <3>3, <3>4 DEF Pending
    <3>6. \A q \in Added : q \notin hook'.items /\ \A t \in InFlight' : ops'[t].arg # q
      BY <1>3, <3>3 DEF ItemsInv, Without
    <3> QED  BY <2>2, <3>1, <3>5, <3>6 DEF ItemsInv
  <2> QED  BY <1>8, <2>4, <2>5
<1>9. ops[s].op # "send"
  BY <1>1 DEF HandlersOf, Settled, KindOf
<1> QED
  <2>1. ops[s].op \in Names
    BY <1>1 DEF PagesTypeOK, InFlight, Op, Names
  <2> QED  BY <1>7, <1>8, <1>9, <2>1 DEF Names

LEMMA OpEndTable ==
    ASSUME PagesInv, UsedInv, TableInv, NEW s \in Slots, OpReply(s) \/ OpFails(s)
    PROVE  UsedInv' /\ TableInv'
<1> USE DEF PagesInv
<1>1. /\ rows' = rows /\ owner' = owner /\ current' = current /\ route' = route
      /\ load' = load /\ ops' = [ops EXCEPT ![s] = None] /\ s \in InFlight
      /\ header' = header /\ elsewhere' = elsewhere
  BY DEF OpReply, OpFails, InFlight
<1>2. InFlight' = InFlight \ {s} /\ \A t \in InFlight' : ops'[t] = ops[t]
  BY <1>1 DEF PagesTypeOK, InFlight
<1>3. CASE OpReply(s)
  <2>1. hook' = Done(hook, ops[s]) /\ ops[s].home
    BY <1>1, <1>3 DEF OpReply, AnswerInv
  <2>2. /\ ops[s].op \in Names /\ ops[s].state = "ok"
        /\ ops[s].op \in Disabling => ops[s].row \in Row
    BY <1>1, <1>3 DEF PagesTypeOK, InFlight, Op, Names, OpReply, AnswerInv, Disabling
  <2>3. \A r \in hook'.items : r \in hook.items \/ (r = ops[s].row /\ ops[s].op \in Disabling)
    BY <1>1, <2>1, <2>2, DoneItems DEF Names, Disabling, Without
  <2>4. UsedInv'
    BY <1>1, <1>2, <2>2, <2>3, PagesAssumption DEF UsedInv, Owned
  <2>5. TableInv'
    <3>1. SUFFICES ASSUME Settled' PROVE TableInv'
      BY DEF TableInv
    <3>2. hook'.raced = hook.raced
      BY <1>1, <2>1, DoneItems
    <3>3. Settled
      BY <1>1, <3>1, <3>2 DEF Settled
    <3>4. /\ load = None /\ ~hook.error /\ hook.from = current /\ ~hook.loading
          /\ \A t \in InFlight : /\ ops[t].home /\ ops[t].org = current
                                 /\ ops[t].op \in HandlersOf[route]
      BY <1>1, <3>3 DEF TableInv
    <3>5. ~hook'.error /\ hook'.from = current /\ ~hook'.loading
      BY <1>1, <2>1, <2>2, <3>4, DoneTypes
    <3>6. ASSUME \A t \in InFlight' : ops'[t].state # "failed" PROVE ItemsInv'
      <4>1. \A t \in InFlight : ops[t].state # "failed"
        BY <1>2, <2>2, <3>6
      <4>2. ItemsInv
        BY <3>3, <3>4, <4>1 DEF TableInv
      <4> QED  BY <1>3, <3>3, <4>2, ReplyItems
    <3> QED  BY <1>1, <1>2, <3>4, <3>5, <3>6 DEF TableInv
  <2> QED  BY <2>4, <2>5
<1>4. CASE OpFails(s)
  <2>1. hook' = IF ops[s].home THEN Failed(hook, ops[s]) ELSE hook
    BY <1>4 DEF OpFails
  <2>2. Failed(hook, ops[s]).raced /\ Failed(hook, ops[s]).items = hook.items
    BY DEF Failed, PagesTypeOK, Hook
  <2>3. UsedInv'
    BY <1>1, <1>2, <2>1, <2>2 DEF UsedInv, Owned
  <2>4. ~Settled'
    <3>1. Settled => ops[s].home
      BY <1>1 DEF TableInv
    <3> QED  BY <1>1, <2>1, <2>2, <3>1 DEF Settled
  <2> QED  BY <2>3, <2>4 DEF TableInv
<1> QED  BY <1>3, <1>4

LEMMA InitTable == PagesInit => UsedInv /\ TableInv
<1> SUFFICES ASSUME PagesInit PROVE UsedInv /\ TableInv
  OBVIOUS
<1>1. InFlight = {} /\ load = None /\ current = None /\ hook.items = {} /\ rows = Start
  BY DEF PagesInit, InFlight
<1>2. \A k \in Kinds : \A r \in Start[k] : Owned(r) /\ (k # "invitation" => r.open)
  <2>1. ASSUME NEW k \in Kinds, NEW r \in Start[k] PROVE Owned(r)
    <3> DEFINE all == UNION {Start[l] : l \in Kinds}
               q == CHOOSE x \in all : x.id = r.id
    <3>1. r \in all /\ r.id \in Ids
      BY PagesAssumption DEF Row
    <3>2. q \in all /\ q.id = r.id
      BY <3>1
    <3> HIDE DEF q
    <3>3. q = r
      BY <3>2, PagesAssumption
    <3>4. owner[r.id] = q.org
      BY <3>1 DEF PagesInit, q
    <3> QED  BY <3>3, <3>4 DEF Owned
  <2> QED  BY <2>1, PagesAssumption
<1> QED  BY <1>1, <1>2 DEF UsedInv, TableInv, Settled

LEMMA StepTable ==
    PagesInv /\ PagesInv' /\ UsedInv /\ TableInv /\ [PagesNext]_pageVars => UsedInv' /\ TableInv'
<1> SUFFICES ASSUME PagesInv, PagesInv', UsedInv, TableInv, [PagesNext]_pageVars
             PROVE  UsedInv' /\ TableInv'
  OBVIOUS
<1>1. CASE UNCHANGED pageVars \/ PickAgain \/ \E o \in Elsewhere : OtherTab(o)
  <2>1. /\ rows' = rows /\ owner' = owner /\ current' = current /\ route' = route
        /\ hook' = hook /\ load' = load /\ ops' = ops
    BY <1>1 DEF pageVars, PickAgain, OtherTab
  <2>2. InFlight' = InFlight
    BY <2>1 DEF InFlight
  <2>3. Granted({"rotate"})' = Granted({"rotate"}) /\ Added' = Added /\ Removed' = Removed
    BY <2>1, <2>2 DEF Granted, Added, Removed
  <2>4. \A o : Listing(KindOf[route], o)' = Listing(KindOf[route], o)
    BY <2>1 DEF Listing
  <2>5. ItemsInv => ItemsInv'
    BY <2>1, <2>2, <2>3, <2>4 DEF ItemsInv, Pending
  <2> QED  BY <2>1, <2>2, <2>4, <2>5 DEF UsedInv, Owned, TableInv, Settled
<1>2. CASE PagesNext
  BY <1>1, <1>2, MoveTable, LoadTable, FormTable, HandlerTable, ServeTable, OpEndTable DEF PagesNext
<1> QED  BY <1>1, <1>2

-----------------------------------------------------------------------------
(* The theorems.                                                           *)

\* The inductive invariant: the reads, the answers and the busy flags of the
\* pages' hooks agree with the requests in flight, in every order of replies.
THEOREM PagesInvariant == PagesSpec => []PagesInv
  BY InitInv, StepInv, PTL DEF PagesSpec

\* Types, whatever requests overlap: in particular the handlers never apply the
\* missing row of a failed answer (createKey, sendInvitation, rotate, handleSend).
THEOREM PagesTypes == PagesSpec => []PagesTypeOK
<1>1. PagesInv => PagesTypeOK
  BY DEF PagesInv
<1> QED  BY <1>1, PagesInvariant, PTL

\* A page holds rows of the organization its load was for and, apart from
\* these, only rows that its own handlers added for another one (the hooks'
\* cancelled flags), or that it loaded while another tab had selected another
\* one: for any number of organizations and requests.
THEOREM PagesForeignRows == PagesSpec => []ForeignRowsAreLate
<1>1. PagesInv => ForeignRowsAreLate
  BY DEF PagesInv
<1> QED  BY <1>1, PagesInvariant, PTL

\* A button is disabled only while the page awaits a request of that button
\* (the finally blocks of createKey, sendInvitation, rotate and handleSend): no
\* failure, lost answer, overlapping request or change of organization leaves
\* it disabled, for any number of requests.
THEOREM PagesBusy == PagesSpec => []BusyIsAwaited
<1>1. PagesInv => BusyIsAwaited
  BY DEF PagesInv, BusyInv
<1> QED  BY <1>1, PagesInvariant, PTL

\* The playground shows an error or a response, never both (handleSend of
\* playground-page.tsx): its button admits one request at a time.
THEOREM PagesOneOutcome == PagesSpec => []OneOutcome
<1>1. PagesInv => OneOutcome
  BY DEF PagesInv
<1> QED  BY <1>1, PagesInvariant, PTL

\* The handlers keep the list of a page equal to the server's by adding,
\* removing and replacing rows themselves (use-api-keys.ts, use-invitations.ts,
\* use-signing-secret.ts), however many of their requests overlap, as long as
\* none fails, overlaps the load or names the organization of another tab.
THEOREM PagesConverge == PagesSpec => []Converged
<1>1. TableInv => Converged
  <2>1. SUFFICES ASSUME TableInv, load = None, InFlight = {}, Settled
                 PROVE  Pending(Screen) = Pending(Listing(KindOf[route], current))
    BY DEF Converged, Settled, Pending
  <2>2. ~hook.error /\ ~hook.loading /\ ItemsInv
    BY <2>1 DEF TableInv
  <2>3. Screen = hook.items
    BY <2>1, <2>2 DEF Screen, OverviewPage, ApiKeysPage, MembersPage, SettingsPage, Listed,
                      Settled, KindOf
  <2>4. Granted({"rotate"}) = {} /\ Added = {} /\ Removed = {}
    BY <2>1 DEF Granted, Added, Removed
  <2> QED  BY <2>2, <2>3, <2>4 DEF ItemsInv, Pending
<1>2. PagesInit => UsedInv /\ TableInv
  BY InitTable
<1>3. PagesInv /\ PagesInv' /\ UsedInv /\ TableInv /\ [PagesNext]_pageVars => UsedInv' /\ TableInv'
  BY StepTable
<1> QED  BY <1>1, <1>2, <1>3, PagesInvariant, PTL DEF PagesSpec

LEMMA InitView == PagesInit => View!Init
  BY DEF PagesInit, View!Init

\* Every step of the page is one of the view, or changes nothing there.
LEMMA StepView == PagesInv /\ [PagesNext]_pageVars => [View!Next]_(View!vars)
<1> SUFFICES ASSUME PagesInv, [PagesNext]_pageVars PROVE [View!Next]_(View!vars)
  OBVIOUS
<1> USE DEF PagesInv
<1>1. ASSUME current' = current, hook'.loading = hook.loading, hook'.from = hook.from
      PROVE  UNCHANGED View!vars
  BY <1>1 DEF View!vars
<1>2. ASSUME NEW r \in Routes, hook' = Mounted(r), current' \in Orgs \cup {None}
      PROVE  View!Mount
  BY <1>2, HookTypes DEF View!Mount
<1>3. ASSUME NEW o \in Orgs, switchOrg(o)
      PROVE  View!Next
  <2>1. CASE ~AdminRoute(route, o)
    BY <1>2, <1>3, <2>1 DEF switchOrg, Mounted, Routes, KindOf, View!Next
  <2>2. CASE AdminRoute(route, o)
    <3>1. /\ hook' = Reloading(hook, route) /\ current' = o /\ o # current
          /\ route \in Routes
      BY <1>3, <2>2 DEF switchOrg, PagesTypeOK
    <3>2. route \in DOMAIN KindOf => hook'.loading
      BY <3>1, ReloadingTypes
    <3>3. route \notin DOMAIN KindOf => hook.from = None
      BY <3>1 DEF LoadInv, Routes
    <3>4. hook'.from = hook.from
      BY <3>1, ReloadingTypes
    <3> QED  BY <3>1, <3>2, <3>3, <3>4 DEF View!Next, View!Select
  <2> QED  BY <2>1, <2>2
<1>4. ASSUME NEW r \in Routes, Visit(r)
      PROVE  View!Next
  BY <1>2, <1>4 DEF Visit, View!Next, PagesTypeOK
<1>5. CASE LoadReply
  <2>1. hook.loading /\ hook \in Hook
    BY <1>5 DEF LoadReply, LoadInv, PagesTypeOK
  <2>2. load.view = current
    BY <1>5 DEF LoadReply, LoadInv
  <2>3. ~hook'.loading /\ hook'.from = current /\ current' = current
    BY <1>5, <2>1, <2>2 DEF LoadReply, Hook
  <2> QED  BY <2>1, <2>3 DEF View!Next, View!Succeed
<1>6. CASE LoadFails
  <2>1. hook.loading /\ hook \in Hook
    BY <1>6 DEF LoadFails, LoadInv, PagesTypeOK
  <2>2. ~hook'.loading /\ hook'.from = hook.from /\ current' = current
    BY <1>6, <2>1 DEF LoadFails, Hook
  <2> QED  BY <2>1, <2>2 DEF View!Next, View!Fail
<1>7. CASE ServeLoad \/ PickAgain \/ \E o \in Elsewhere : OtherTab(o)
  BY <1>1, <1>7 DEF ServeLoad, PickAgain, OtherTab
<1>8. CASE clearNewKey \/ handleSendInvalid
  <2>1. current' = current /\ hook'.loading = hook.loading /\ hook'.from = hook.from
    BY <1>8 DEF clearNewKey, handleSendInvalid, PagesTypeOK, Hook
  <2> QED  BY <1>1, <2>1
<1>9. ASSUME NEW s \in Slots, Handler(s)
      PROVE  UNCHANGED View!vars
  <2>1. current' = current /\ hook'.loading = hook.loading /\ hook'.from = hook.from
    BY <1>9 DEF Handler, createKey, removeKey, cancelInv, sendInvitation, rotate, handleSend,
                Request, Busy, Asking, PagesTypeOK, Hook
  <2> QED  BY <1>1, <2>1
<1>10. ASSUME NEW s \in Slots, ServeOp(s)
       PROVE  UNCHANGED View!vars
  <2>1. current' = current /\ hook' = hook
    BY <1>10 DEF ServeOp, ApiKeyCreate, ApiKeyDelete, CreateInvitation, CancelInvitation,
                 RotateSigningSecret, SendWebhook, Handling
  <2> QED  BY <1>1, <2>1
<1>11. ASSUME NEW s \in Slots, OpReply(s) \/ OpFails(s)
       PROVE  UNCHANGED View!vars
  <2>1. s \in InFlight /\ current' = current
    BY <1>11 DEF OpReply, OpFails, InFlight
  <2>0. OpReply(s) => ops[s].home
    BY <2>1 DEF OpReply, PagesInv, AnswerInv
  <2>2. hook'.loading = hook.loading /\ hook'.from = hook.from
    BY <1>11, <2>0, <2>1, DoneTypes, FailedTypes DEF OpReply, OpFails
  <2> QED  BY <1>1, <2>1, <2>2
<1>12. CASE UNCHANGED pageVars
  BY <1>1, <1>12 DEF pageVars
<1> QED  BY <1>3, <1>4, <1>5, <1>6, <1>7, <1>8, <1>9, <1>10, <1>11, <1>12 DEF PagesNext

\* What a page shows is what was loaded for its organization: the effects of
\* the four hooks with their cancelled flags implement LoadView.
THEOREM PagesView == PagesSpec => ShowsWhatItLoaded
  BY PagesInvariant, InitView, StepView, PTL DEF PagesSpec, ShowsWhatItLoaded, View!Spec
=============================================================================
