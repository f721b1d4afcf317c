-------------------------- MODULE ReviewerUIProofs --------------------------
(***************************************************************************)
(* What a browser may lose, repeat or show stale, for any number of        *)
(* records, drafts, moves and saves of others.  The argument is about keys *)
(* and numbers: a draft in the form belongs to the record and revision the *)
(* form is keyed by (FormInv), so a save carries the home of its draft     *)
(* (SaveInv), and a page that was asked for after a confirmed save cannot  *)
(* be older than it (OwnInv).  No page is ahead of the API, and a save     *)
(* attached to the form is about the record the form shows (CInv).         *)
(***************************************************************************)
EXTENDS ReviewerUI, WellFoundedInduction, TLAPS

Entry == [id : Records, revision : Nat]

Fetch == [stage : {"none", "asked", "read"},
          cause : {"none", "visit", "refresh", "focus"}, page : SUBSET Entry]

Query == [page : (SUBSET Entry) \cup {NoPage}, error : BOOLEAN, fetch : Fetch]

Draft == [number : Nat, home : Entry \cup {NoRecord}]

Form == [draft : Draft, save : {"idle", "pending", "settling", "conflict", "error"}]

Save == [draft : Draft, id : Records, expected : Nat,
         stage : {"sent", "ok", "conflict"}, attached : BOOLEAN]

TypeInv ==
    /\ revision \in [Records -> Nat]
    /\ log \subseteq [draft : Draft, id : Records, revision : Nat]
    /\ view \in Views
    /\ query \in [Views -> Query]
    /\ form \in Form
    /\ saves \subseteq Save
    /\ drafts \in Nat

\* A draft is in the form of the record it was begun for.
FormInv == form.draft # NoDraft => Current # NoRecord /\ form.draft.home = Current

\* A save asks for the record and the revision its draft was begun for, and
\* one that the API accepted has moved the record on.
SaveInv ==
    \A s \in saves :
        /\ s.draft.home = [id |-> s.id, revision |-> s.expected]
        /\ s.stage = "ok" => revision[s.id] > s.expected

\* Every draft the browser or the API still knows of, and none.
Known == {NoDraft, form.draft} \cup {s.draft : s \in saves} \cup {e.draft : e \in log}

\* Numbers are given in order, and two drafts never share one.
DraftInv ==
    /\ \A d \in Known : d.number <= drafts
    /\ \A c, d \in Known : c.number = d.number => c = d

Fresh(page) == \A x \in page : x.id = own.id => x.revision >= own.revision

\* The API has the confirmed save, and so has every page read since.
OwnInv ==
    own # NoRecord =>
        /\ own.id \in Records /\ own.revision \in Nat
        /\ revision[own.id] >= own.revision
        /\ query[view].fetch.stage = "read" => Fresh(query[view].fetch.page)
        /\ query[view].fetch.stage = "none" /\ ~query[view].error =>
               Fresh(query[view].page)

IInv ==
    /\ TypeInv /\ FormInv /\ SaveInv /\ DraftInv /\ OwnInv /\ SavedWhereWritten

-----------------------------------------------------------------------------
USE UIAssumption

\* Every nonempty set of naturals has a least element.
LEMMA HasLeast ==
    ASSUME NEW S \in SUBSET Nat, S # {}
    PROVE  \E x \in S : \A y \in S : x <= y
  <1> DEFINE R == OpToRel(<, Nat)
  <1>1. PICK x \in S : \A y \in S : <<y, x>> \notin R
    <2>1. IsWellFoundedOn(R, Nat)
      BY NatLessThanWellFounded
    <2> HIDE DEF R
    <2> QED
      BY <2>1, WFMin
  <1>2. \A y \in S : <<y, x>> \in Nat \X Nat
    OBVIOUS
  <1>3. \A y \in S : ~(y < x)
    BY <1>1, <1>2 DEF OpToRel
  <1> QED
    BY <1>3

\* What is shown depends on the page and its error only.
LEMMA ShownSame ==
    ASSUME NEW o, NEW c, NEW k, NEW a, NEW b, a.page = b.page, a.error = b.error
    PROVE  Shown(o, c, a, k) = Shown(o, c, b, k)
  BY DEF Shown

\* A record that is shown is one of the page.
LEMMA CurrentTyped ==
    ASSUME TypeInv
    PROVE  /\ Current \in Entry \cup {NoRecord}
           /\ Current # NoRecord => Current = [id |-> Current.id, revision |-> Current.revision]
  <1> DEFINE page == query[view].page
             shown == ~(~open \/ ~connected \/ page = NoPage \/ query[view].error \/ page = {})
  <1>1. CASE ~shown
    <2>1. Current = NoRecord
      BY <1>1 DEF Current, Shown
    <2> QED
      BY <2>1
  <1>2. CASE shown
    <2>1. page \in SUBSET Entry /\ page # {}
      BY <1>2 DEF TypeInv, Query
    <2> HIDE DEF page
    <2>2. CASE \E x \in page : x.id = selected
      <3>1. Current = CHOOSE x \in page : x.id = selected
        BY <1>2, <2>2 DEF Current, Shown, page
      <3>2. Current \in page
        BY <2>2, <3>1
      <3> QED
        BY <2>1, <3>2 DEF Entry
    <2>3. CASE ~\E x \in page : x.id = selected
      <3>1. Current = CHOOSE x \in page : \A y \in page : x.id <= y.id
        BY <1>2, <2>3 DEF Current, Shown, page
      <3>2. \E x \in page : \A y \in page : x.id <= y.id
        <4> DEFINE ids == {x.id : x \in page}
        <4>1. ids \in SUBSET Nat /\ ids # {}
          BY <2>1 DEF Entry
        <4>2. PICK i \in ids : \A j \in ids : i <= j
          BY <4>1, HasLeast
        <4> QED
          BY <4>2
      <3>3. Current \in page
        BY <3>1, <3>2
      <3> QED
        BY <2>1, <3>3 DEF Entry
    <2> QED
      BY <2>2, <2>3
  <1> QED
    BY <1>1, <1>2

\* A query whose fetch changes keeps its page.
LEMMA FetchStep ==
    ASSUME NEW q \in [Views -> Query], NEW w \in Views, NEW f \in Fetch
    PROVE  /\ [q EXCEPT ![w].fetch = f] \in [Views -> Query]
           /\ \A v \in Views : /\ [q EXCEPT ![w].fetch = f][v].page = q[v].page
                               /\ [q EXCEPT ![w].fetch = f][v].error = q[v].error
                               /\ v # w => [q EXCEPT ![w].fetch = f][v] = q[v]
           /\ [q EXCEPT ![w].fetch = f][w].fetch = f
  BY DEF Query

\* A fetch just asked for is a fetch, with its cause.
LEMMA AskedTyped ==
    ASSUME NEW c \in {"visit", "refresh", "focus"}
    PROVE  Asked(c) \in Fetch /\ Asked(c).stage = "asked" /\ Asked(c).cause = c
  BY DEF Asked, Fetch

\* A view that comes on the screen, and a queue that is invalidated.
LEMMA VisitStep ==
    ASSUME TypeInv, NEW w \in Views
    PROVE  /\ Visit(query, w) \in [Views -> Query]
           /\ \A v \in Views : /\ Visit(query, w)[v].page = query[v].page
                               /\ Visit(query, w)[v].error = query[v].error
                               /\ \/ Visit(query, w)[v].fetch = query[v].fetch
                                  \/ Visit(query, w)[v].fetch = Asked("visit")
  <1> DEFINE f == IF query[w].fetch.stage = "none" THEN Asked("visit") ELSE query[w].fetch
  <1>1. f \in Fetch
    BY AskedTyped DEF TypeInv, Query
  <1>2. Visit(query, w) = [query EXCEPT ![w].fetch = f]
    BY DEF Visit
  <1>3. f = query[w].fetch \/ f = Asked("visit")
    OBVIOUS
  <1>4. query \in [Views -> Query]
    BY DEF TypeInv
  <1> HIDE DEF f
  <1> QED
    BY <1>1, <1>2, <1>3, <1>4, FetchStep

\* A queue that is invalidated: only the view on the screen is asked for.
LEMMA RefetchedStep ==
    ASSUME TypeInv
    PROVE  /\ Refetched(query) \in [Views -> Query]
           /\ \A v \in Views : /\ Refetched(query)[v].page = query[v].page
                               /\ Refetched(query)[v].error = query[v].error
                               /\ \/ Refetched(query)[v].fetch = query[v].fetch
                                  \/ Refetched(query)[v].fetch = Asked("refresh")
           /\ open /\ connected /\ ~FirstPageRead => Refetched(query)[view].fetch.stage = "asked"
  <1> DEFINE asks == /\ open /\ connected
                     /\ query[view].page # NoPage \/ query[view].fetch.stage = "none"
  <1>1. query \in [Views -> Query] /\ view \in Views /\ Asked("refresh") \in Fetch
    BY AskedTyped DEF TypeInv
  <1>2. CASE asks
    <2>1. Refetched(query) = [query EXCEPT ![view].fetch = Asked("refresh")]
      BY <1>2 DEF Refetched
    <2> QED
      BY <1>1, <2>1, FetchStep, AskedTyped
  <1>3. CASE ~asks
    <2>1. Refetched(query) = query
      BY <1>3 DEF Refetched
    <2>2. query[view].fetch.stage \in {"none", "asked", "read"}
      BY <1>1 DEF Query, Fetch
    <2>3. open /\ connected /\ ~FirstPageRead => query[view].fetch.stage = "asked"
      BY <1>3, <2>2 DEF FirstPageRead
    <2> QED
      BY <1>1, <2>1, <2>3
  <1> QED
    BY <1>2, <1>3

\* What React does to the form and to the saves attached to it.
LEMMA RenderStep ==
    ASSUME TypeInv, NEW key, NEW how, NEW kept \in Form, Render(key, how, kept)
    PROVE  /\ form' \in Form /\ saves' \subseteq Save
           /\ form'.draft # NoDraft => form' = kept /\ key = Current
           /\ \A s \in saves' : \E t \in saves : /\ s.draft = t.draft /\ s.id = t.id
                                                 /\ s.expected = t.expected
                                                 /\ s.stage = t.stage
  <1>1. EmptyForm \in Form /\ EmptyForm.draft = NoDraft
    BY DEF EmptyForm, Form, NoDraft, Draft
  <1>2. \A s \in saves : /\ [s EXCEPT !.attached = FALSE] \in Save
                         /\ [s EXCEPT !.attached = FALSE].draft = s.draft
                         /\ [s EXCEPT !.attached = FALSE].id = s.id
                         /\ [s EXCEPT !.attached = FALSE].expected = s.expected
                         /\ [s EXCEPT !.attached = FALSE].stage = s.stage
    BY DEF TypeInv, Save
  <1>3. CASE key = Current
    BY <1>3 DEF Render, TypeInv
  <1>4. CASE key # Current
    <2>1. form' = EmptyForm /\ saves' = {[s EXCEPT !.attached = FALSE] : s \in saves}
      BY <1>4 DEF Render
    <2> QED
      BY <1>1, <1>2, <2>1, ZenonT(60)
  <1> QED
    BY <1>3, <1>4

\* A form whose draft the reviewer may have given up.
LEMMA DiscardedTyped ==
    ASSUME TypeInv
    PROVE  /\ Discarded \in Form /\ Discarded.draft \in {NoDraft, form.draft}
           /\ [form EXCEPT !.draft = NoDraft] \in Form
           /\ [form EXCEPT !.draft = NoDraft].draft = NoDraft
  <1>1. NoDraft \in Draft
    BY DEF NoDraft, Draft
  <1> QED
    BY <1>1 DEF Discarded, TypeInv, Form

\* Before anything happened there is no draft, no save and no page.
LEMMA InitIInv == Init => IInv
  <1> SUFFICES ASSUME Init PROVE IInv
    OBVIOUS
  <1>1. NoDraft \in Draft /\ NoDraft.number = 0 /\ NoFetch \in Fetch /\ Asked("visit") \in Fetch
    BY AskedTyped DEF NoDraft, Draft, NoFetch, Fetch
  <1>2. form \in Form /\ form.draft = NoDraft
    BY <1>1 DEF Init, EmptyForm, Form
  <1>3. \A v \in Views : [page |-> NoPage, error |-> FALSE,
           fetch |-> IF v = "attention" THEN Asked("visit") ELSE NoFetch] \in Query
    BY <1>1 DEF Query
  <1>4. query \in [Views -> Query]
    BY <1>3 DEF Init
  <1>5. TypeInv
    BY <1>2, <1>4 DEF TypeInv, Init, Views
  <1>6. FormInv /\ SaveInv /\ OwnInv /\ SavedWhereWritten
    BY <1>2 DEF FormInv, SaveInv, OwnInv, SavedWhereWritten, Init
  <1>7. Known = {NoDraft} /\ drafts = 0
    BY <1>2 DEF Known, Init
  <1>8. DraftInv
    BY <1>1, <1>7 DEF DraftInv
  <1> QED
    BY <1>5, <1>6, <1>8 DEF IInv

\* A step that begins no draft knows of none it did not know before.
LEMMA KnownShrinks ==
    ASSUME IInv, log' = log, drafts' = drafts, form'.draft \in {NoDraft, form.draft},
           \A s \in saves' : \E t \in saves : s.draft = t.draft
    PROVE  DraftInv'
  <1>1. Known' \subseteq Known
    BY DEF Known
  <1> QED
    BY <1>1 DEF IInv, DraftInv

\* A step on the screen alone: the form keeps its draft only for the record
\* that stays on the screen.
LEMMA ScreenStep ==
    ASSUME IInv, UNCHANGED <<desk, revision, log, drafts>>,
           form' \in Form, form'.draft \in {NoDraft, form.draft},
           form'.draft # NoDraft => Current' = Current,
           saves' \subseteq Save,
           \A s \in saves' : \E t \in saves : /\ s.draft = t.draft /\ s.id = t.id
                                              /\ s.expected = t.expected
                                              /\ s.stage = t.stage,
           query' \in [Views -> Query], view' \in Views
    PROVE  TypeInv' /\ FormInv' /\ SaveInv' /\ DraftInv' /\ SavedWhereWritten'
  <1>1. TypeInv'
    BY DEF IInv, TypeInv
  <1>2. FormInv'
    BY DEF IInv, FormInv
  <1>3. SaveInv'
    BY ZenonT(60) DEF IInv, SaveInv
  <1>4. DraftInv'
    BY KnownShrinks
  <1>5. SavedWhereWritten'
    BY DEF IInv, SavedWhereWritten
  <1> QED
    BY <1>1, <1>2, <1>3, <1>4, <1>5

\* Navigation, by the reviewer or by the session, and a page that arrives: the
\* form is rendered anew.
LEMMA NavigationStep ==
    ASSUME IInv, UNCHANGED <<desk, revision, log, drafts>>,
           NEW how, NEW kept \in Form, kept.draft \in {NoDraft, form.draft},
           Render(Current', how, kept), query' \in [Views -> Query], view' \in Views
    PROVE  TypeInv' /\ FormInv' /\ SaveInv' /\ DraftInv' /\ SavedWhereWritten'
  <1>0. TypeInv /\ NoDraft \in {NoDraft, form.draft}
    BY DEF IInv
  <1>1. /\ form' \in Form /\ saves' \subseteq Save
        /\ form'.draft # NoDraft => form' = kept /\ Current' = Current
        /\ \A s \in saves' : \E t \in saves : /\ s.draft = t.draft /\ s.id = t.id
                                              /\ s.expected = t.expected
                                              /\ s.stage = t.stage
    <2> DEFINE key == Current'
    <2>1. Render(key, how, kept)
      OBVIOUS
    <2> HIDE DEF key
    <2> QED
      BY <1>0, <2>1, RenderStep DEF key
  <1>2. form'.draft \in {NoDraft, form.draft}
    BY <1>1
  <1> QED
    BY <1>1, <1>2, ScreenStep

\* The reviewer picks another record of the page.
LEMMA SelectStep == ASSUME IInv, NEW r \in Records, Select(r) PROVE IInv'
  <1>1. /\ UNCHANGED <<desk, revision, log, open, connected, view, query, drafts, own>>
        /\ selected' = r
        /\ Render(Shown(open, connected, query[view], r), "navigation", Discarded)
    BY DEF Select, server
  <1>2. Current' = Shown(open, connected, query[view], r)
    BY <1>1 DEF Current
  <1>3. TypeInv
    BY DEF IInv
  <1>4. query' \in [Views -> Query] /\ view' \in Views
    BY <1>1, <1>3 DEF TypeInv
  <1>5. TypeInv' /\ FormInv' /\ SaveInv' /\ DraftInv' /\ SavedWhereWritten'
    BY <1>1, <1>2, <1>3, <1>4, DiscardedTyped, NavigationStep
  <1>6. OwnInv'
    BY <1>1 DEF IInv, OwnInv, Fresh
  <1> QED
    BY <1>5, <1>6 DEF IInv

\* Another view, another section, a session that fails or comes back.
LEMMA MoveStep ==
    ASSUME IInv, (\E v \in Views : ChangeView(v)) \/ OpenSection \/ Session
    PROVE  IInv'
  <1>1. TypeInv
    BY DEF IInv
  <1>2. /\ UNCHANGED <<desk, revision, log, drafts>> /\ own' = NoRecord
        /\ view' \in Views /\ selected' = -1
    BY <1>1 DEF ChangeView, OpenSection, Session, server, TypeInv, Views
  <1>3. query' = Visit(query, view') \/ query' = query
    BY DEF ChangeView, OpenSection, Session
  <1>4. /\ query' \in [Views -> Query]
        /\ \A v \in Views : /\ query'[v].page = query[v].page
                            /\ query'[v].error = query[v].error
                            /\ query'[v].fetch = query[v].fetch \/ query'[v].fetch = Asked("visit")
    <2>1. PICK w \in Views : w = view'
      BY <1>2
    <2> QED
      BY <1>1, <1>3, <2>1, VisitStep DEF TypeInv
  <1>5. Current' = Shown(open', connected', query[view'], -1)
    <2>1. query'[view'].page = query[view'].page /\ query'[view'].error = query[view'].error
      BY <1>2, <1>4
    <2> QED
      BY <1>2, <2>1, ShownSame DEF Current
  <1>6. \/ Render(Current', "navigation", Discarded)
        \/ Render(Current', "session", form)
    <2>1. ASSUME NEW v \in Views, ChangeView(v)
          PROVE  Render(Current', "navigation", Discarded)
      BY <1>5, <2>1 DEF ChangeView
    <2>2. CASE OpenSection
      BY <1>5, <2>2 DEF OpenSection
    <2>3. CASE Session
      BY <1>5, <2>3 DEF Session
    <2> QED
      BY <2>1, <2>2, <2>3
  <1>7. TypeInv' /\ FormInv' /\ SaveInv' /\ DraftInv' /\ SavedWhereWritten'
    <2>1. form \in Form /\ form.draft \in {NoDraft, form.draft}
      BY <1>1 DEF TypeInv
    <2> QED
      BY <1>1, <1>2, <1>4, <1>6, <2>1, DiscardedTyped, NavigationStep
  <1>8. OwnInv'
    BY <1>2, <1>4, AskedTyped DEF IInv, OwnInv
  <1> QED
    BY <1>7, <1>8 DEF IInv

\* A step that leaves the screen and the server alone but for a fetch: what
\* is known of the own save stands while no fetch ends and no page is read.
LEMMA FetchOnlyStep ==
    ASSUME IInv, UNCHANGED <<desk, revision, log, open, connected, view, selected, drafts, lost, own>>,
           form' \in Form, form'.draft \in {NoDraft, form.draft}, saves' = saves,
           query' \in [Views -> Query],
           NEW c \in {"visit", "refresh", "focus"},
           \A v \in Views : /\ query'[v].page = query[v].page
                            /\ query'[v].error = query[v].error
                            /\ \/ query'[v].fetch = query[v].fetch
                               \/ query'[v].fetch = Asked(c)
    PROVE  IInv'
  <1>1. TypeInv /\ view \in Views
    BY DEF IInv, TypeInv
  <1>2. Current' = Current
    <2>1. query'[view].page = query[view].page /\ query'[view].error = query[view].error
      BY <1>1
    <2> QED
      BY <2>1, ShownSame DEF Current
  <1>3. saves' \subseteq Save
    BY <1>1 DEF TypeInv
  <1>4. \A s \in saves' : \E t \in saves : /\ s.draft = t.draft /\ s.id = t.id
                                           /\ s.expected = t.expected /\ s.stage = t.stage
    OBVIOUS
  <1>5. TypeInv' /\ FormInv' /\ SaveInv' /\ DraftInv' /\ SavedWhereWritten'
    BY <1>1, <1>2, <1>3, <1>4, ScreenStep
  <1>6. Asked(c).stage = "asked" /\ Asked(c).cause = c
    BY AskedTyped
  <1>8. OwnInv'
    <2>1. \/ query'[view].fetch = query[view].fetch
          \/ query'[view].fetch.stage = "asked"
      BY <1>1, <1>6
    <2>2. query'[view].page = query[view].page /\ query'[view].error = query[view].error
      BY <1>1
    <2> QED
      BY <2>1, <2>2 DEF IInv, OwnInv, Fresh
  <1> QED
    BY <1>5, <1>8 DEF IInv

\* A refresh by the reviewer, or the focus of the window.
LEMMA RefreshStep == ASSUME IInv, Refresh \/ Focus PROVE IInv'
  <1>1. TypeInv
    BY DEF IInv
  <1>2. CASE Refresh
    <2>1. /\ UNCHANGED <<desk, revision, log, open, connected, view, selected, drafts, lost, own>>
          /\ saves' = saves /\ query' = Refetched(query) /\ form' = Discarded
      BY <1>2 DEF Refresh, server
    <2>2. form' \in Form /\ form'.draft \in {NoDraft, form.draft}
      BY <1>1, <2>1, DiscardedTyped
    <2>3. /\ query' \in [Views -> Query]
          /\ \A v \in Views : /\ query'[v].page = query[v].page
                              /\ query'[v].error = query[v].error
                              /\ \/ query'[v].fetch = query[v].fetch
                                 \/ query'[v].fetch = Asked("refresh")
      BY <1>1, <2>1, RefetchedStep
    <2> QED
      BY <2>1, <2>2, <2>3, FetchOnlyStep
  <1>3. CASE Focus
    <2>1. /\ UNCHANGED <<desk, revision, log, open, connected, view, selected, drafts, lost, own>>
          /\ saves' = saves /\ form' = form /\ desk = "identity"
          /\ query' = [query EXCEPT ![view].fetch = Asked("focus")]
      BY <1>3 DEF Focus, server
    <2>2. form' \in Form /\ form'.draft \in {NoDraft, form.draft}
      BY <1>1, <2>1 DEF TypeInv
    <2>3. query \in [Views -> Query] /\ view \in Views /\ Asked("focus") \in Fetch
      BY <1>1, AskedTyped DEF TypeInv
    <2>4. /\ query' \in [Views -> Query]
          /\ \A v \in Views : /\ query'[v].page = query[v].page
                              /\ query'[v].error = query[v].error
                              /\ \/ query'[v].fetch = query[v].fetch
                                 \/ query'[v].fetch = Asked("focus")
      BY <2>1, <2>3, FetchStep
    <2> QED
      BY <2>1, <2>2, <2>4, FetchOnlyStep
  <1> QED
    BY <1>2, <1>3

\* The page the API reads holds every record at its revision of now.
LEMMA PageOfFresh ==
    ASSUME TypeInv, NEW v
    PROVE  PageOf(v) \in SUBSET Entry /\ \A x \in PageOf(v) : x.revision = revision[x.id]
  <1>1. \A r \in Records : [id |-> r, revision |-> revision[r]] \in Entry
    BY DEF TypeInv, Entry
  <1>2. \A x \in PageOf(v) : \E r \in Records : x = [id |-> r, revision |-> revision[r]]
    BY DEF PageOf
  <1> QED
    BY <1>1, <1>2

\* The API reads a page: it has the own save already.
LEMMA ReadPageStep == ASSUME IInv, NEW w \in Views, ReadPage(w) PROVE IInv'
  <1> DEFINE f == [query[w].fetch EXCEPT !.stage = "read", !.page = PageOf(w)]
  <1>1. TypeInv /\ view \in Views /\ query \in [Views -> Query]
    BY DEF IInv, TypeInv
  <1>2. /\ UNCHANGED <<desk, revision, log, open, connected, view, selected, form, saves, drafts, lost, own>>
        /\ query' = [query EXCEPT ![w].fetch.stage = "read", ![w].fetch.page = PageOf(w)]
    BY DEF ReadPage, server
  <1>3. query[w] \in Query /\ query[w].fetch \in Fetch /\ PageOf(w) \in SUBSET Entry
    BY <1>1, PageOfFresh DEF Query
  <1>4. /\ f \in Fetch /\ f.stage = "read" /\ f.page = PageOf(w)
        /\ f.cause = query[w].fetch.cause
    BY <1>3 DEF Fetch
  <1>5. query' = [query EXCEPT ![w].fetch = f]
    BY <1>1, <1>2, <1>3 DEF Query, Fetch
  <1> HIDE DEF f
  <1>6. /\ query' \in [Views -> Query]
        /\ \A v \in Views : /\ query'[v].page = query[v].page
                            /\ query'[v].error = query[v].error
                            /\ v # w => query'[v] = query[v]
        /\ query'[w].fetch = f
    BY <1>1, <1>4, <1>5, FetchStep
  <1>7. Current' = Current
    <2>1. query'[view].page = query[view].page /\ query'[view].error = query[view].error
      BY <1>1, <1>6
    <2> QED
      BY <1>2, <2>1, ShownSame DEF Current
  <1>8. form' \in Form /\ form'.draft \in {NoDraft, form.draft} /\ saves' \subseteq Save /\ view' \in Views
    BY <1>1, <1>2 DEF TypeInv
  <1>9. \A s \in saves' : \E t \in saves : /\ s.draft = t.draft /\ s.id = t.id
                                           /\ s.expected = t.expected /\ s.stage = t.stage
    BY <1>2
  <1>10. TypeInv' /\ FormInv' /\ SaveInv' /\ DraftInv' /\ SavedWhereWritten'
    BY <1>2, <1>6, <1>7, <1>8, <1>9, ScreenStep
  <1>12. OwnInv'
    <2>1. CASE w # view
      <3>1. query'[view] = query[view]
        BY <1>1, <1>6, <2>1
      <3> QED
        BY <1>2, <3>1 DEF IInv, OwnInv, Fresh
    <2>2. CASE w = view
      <3>1. query'[view].fetch.stage = "read" /\ query'[view].fetch.page = PageOf(w)
        BY <1>4, <1>6, <2>2
      <3>2. \A x \in PageOf(w) : x.revision = revision[x.id]
        BY <1>1, PageOfFresh
      <3> QED
        BY <1>2, <3>1, <3>2 DEF IInv, OwnInv, Fresh
    <2> QED
      BY <2>1, <2>2
  <1> QED
    BY <1>10, <1>12 DEF IInv

\* A page that arrives, or a fetch that fails: only the view on the screen
\* renders anew, and what it then shows is the page that was read or none.
LEMMA ArriveStep ==
    ASSUME IInv, NEW w \in Views, PageArrives(w) \/ PageFails(w)
    PROVE  IInv'
  <1> DEFINE kept == IF form.save = "settling" THEN [form EXCEPT !.draft = NoDraft] ELSE form
  <1>1. TypeInv /\ view \in Views /\ query \in [Views -> Query]
    BY DEF IInv, TypeInv
  <1>2. query[w] \in Query /\ query[w].fetch \in Fetch /\ NoFetch \in Fetch
    BY <1>1 DEF Query, NoFetch, Fetch
  <1>3. PICK cached :
           /\ Arrive(w, cached)
           /\ \/ /\ query[w].fetch.stage = "read"
                 /\ cached = [page |-> query[w].fetch.page, error |-> FALSE, fetch |-> NoFetch]
              \/ cached = [page |-> query[w].page, error |-> TRUE, fetch |-> NoFetch]
    BY DEF PageArrives, PageFails
  <1>4. /\ UNCHANGED <<desk, revision, log, open, connected, view, selected, drafts, own>>
        /\ query' = [query EXCEPT ![w] = cached]
    BY <1>3 DEF Arrive, server
  <1>5. /\ cached \in Query /\ cached.fetch = NoFetch
        /\ ~cached.error => query[w].fetch.stage = "read" /\ cached.page = query[w].fetch.page
    <2>1. CASE /\ query[w].fetch.stage = "read"
               /\ cached = [page |-> query[w].fetch.page, error |-> FALSE, fetch |-> NoFetch]
      BY <1>2, <2>1 DEF Query, Fetch
    <2>2. CASE cached = [page |-> query[w].page, error |-> TRUE, fetch |-> NoFetch]
      BY <1>2, <2>2 DEF Query
    <2> QED
      BY <1>3, <2>1, <2>2
  <1>6. /\ query' \in [Views -> Query] /\ query'[w] = cached
        /\ \A v \in Views : v # w => query'[v] = query[v]
    BY <1>1, <1>4, <1>5
  <1>8. CASE w # view
    <2>1. query'[view] = query[view] /\ UNCHANGED <<form, saves, lost>>
      BY <1>1, <1>3, <1>6, <1>8 DEF Arrive
    <2>2. Current' = Current
      BY <1>4, <2>1 DEF Current
    <2>3. form' \in Form /\ form'.draft \in {NoDraft, form.draft} /\ saves' \subseteq Save /\ view' \in Views
      BY <1>1, <1>4, <2>1 DEF TypeInv
    <2>4. \A s \in saves' : \E t \in saves : /\ s.draft = t.draft /\ s.id = t.id
                                             /\ s.expected = t.expected /\ s.stage = t.stage
      BY <2>1
    <2>5. TypeInv' /\ FormInv' /\ SaveInv' /\ DraftInv' /\ SavedWhereWritten'
      BY <1>4, <1>6, <2>2, <2>3, <2>4, ScreenStep
    <2>6. OwnInv'
      BY <1>4, <2>1 DEF IInv, OwnInv, Fresh
    <2> QED
      BY <2>5, <2>6 DEF IInv
  <1>9. CASE w = view
    <2>1. Render(Shown(open, connected, cached, selected), query[w].fetch.cause, kept)
      BY <1>3, <1>9 DEF Arrive
    <2>2. Current' = Shown(open, connected, cached, selected)
      BY <1>4, <1>6, <1>9 DEF Current
    <2>3. kept \in Form /\ kept.draft \in {NoDraft, form.draft}
      BY <1>1, DiscardedTyped DEF TypeInv
    <2> HIDE DEF kept
    <2>5. PICK how : how = query[w].fetch.cause
      OBVIOUS
    <2>6. Render(Current', how, kept) /\ view' \in Views
      BY <1>1, <1>4, <2>1, <2>2, <2>5
    <2>7. TypeInv' /\ FormInv' /\ SaveInv' /\ DraftInv' /\ SavedWhereWritten'
      BY <1>4, <1>6, <2>3, <2>6, NavigationStep
    <2>8. OwnInv'
      BY <1>4, <1>5, <1>6, <1>9 DEF IInv, OwnInv, Fresh, NoFetch
    <2> QED
      BY <2>7, <2>8 DEF IInv
  <1> QED
    BY <1>8, <1>9

\* The form's save settles or fails: the draft in it stays.
LEMMA FormOnly ==
    ASSUME IInv, UNCHANGED <<desk, revision, log, open, connected, view, selected, query, drafts, lost, own>>,
           form' \in Form, form'.draft = form.draft, saves' \subseteq saves
    PROVE  IInv'
  <1>1. TypeInv
    BY DEF IInv
  <1>2. Current' = Current
    BY DEF Current
  <1>3. /\ query' \in [Views -> Query] /\ view' \in Views /\ saves' \subseteq Save
        /\ form'.draft \in {NoDraft, form.draft}
    BY <1>1 DEF TypeInv
  <1>4. \A s \in saves' : \E t \in saves : /\ s.draft = t.draft /\ s.id = t.id
                                           /\ s.expected = t.expected /\ s.stage = t.stage
    OBVIOUS
  <1>5. TypeInv' /\ FormInv' /\ SaveInv' /\ DraftInv' /\ SavedWhereWritten'
    BY <1>2, <1>3, <1>4, ScreenStep
  <1>6. OwnInv'
    BY DEF IInv, OwnInv, Fresh
  <1> QED
    BY <1>5, <1>6 DEF IInv

\* A save that settles, or is never answered.
LEMMA SettleStep ==
    ASSUME IInv, Settled \/ \E s \in saves : Unanswered(s)
    PROVE  IInv'
  <1>1. form \in Form
    BY DEF IInv, TypeInv
  <1>2. \A c \in {"idle", "error"} : /\ [form EXCEPT !.save = c] \in Form
                                     /\ [form EXCEPT !.save = c].draft = form.draft
    BY <1>1 DEF Form
  <1>3. form' = form \/ \E c \in {"idle", "error"} : form' = [form EXCEPT !.save = c]
    BY DEF Settled, Unanswered
  <1>4. form' \in Form /\ form'.draft = form.draft
    BY <1>1, <1>2, <1>3
  <1>5. /\ UNCHANGED <<desk, revision, log, open, connected, view, selected, query, drafts, lost, own>>
        /\ saves' \subseteq saves
    BY DEF Settled, Unanswered, server
  <1> QED
    BY <1>4, <1>5, FormOnly

\* The reviewer begins a draft: it gets the next number and the home on the
\* screen.
LEMMA WriteStep == ASSUME IInv, Write PROVE IInv'
  <1> DEFINE d == [number |-> drafts + 1, home |-> Current]
  <1>1. TypeInv /\ form \in Form /\ drafts \in Nat /\ Current \in Entry \cup {NoRecord}
    BY CurrentTyped DEF IInv, TypeInv
  <1>2. /\ UNCHANGED <<desk, revision, log, open, connected, view, selected, query, saves, lost, own>>
        /\ Current # NoRecord /\ drafts' = drafts + 1 /\ form' = [form EXCEPT !.draft = d]
    BY DEF Write, server
  <1>3. d \in Draft /\ d.number = drafts + 1 /\ d.home = Current
    BY <1>1 DEF Draft
  <1> HIDE DEF d
  <1>4. form' \in Form /\ form'.draft = d
    BY <1>1, <1>2, <1>3 DEF Form
  <1>5. Current' = Current
    BY <1>2 DEF Current
  <1>6. TypeInv'
    BY <1>1, <1>2, <1>4 DEF TypeInv
  <1>7. FormInv'
    BY <1>2, <1>3, <1>4, <1>5 DEF FormInv
  <1>8. SaveInv' /\ OwnInv' /\ SavedWhereWritten'
    BY <1>2 DEF IInv, SaveInv, OwnInv, Fresh, SavedWhereWritten
  <1>9. DraftInv'
    <2>1. Known' \subseteq Known \cup {d}
      BY <1>2, <1>4 DEF Known
    <2>2. \A c \in Known : c.number \in Nat
      <3>1. Known \subseteq Draft
        BY <1>1 DEF Known, TypeInv, Form, Save, NoDraft, Draft
      <3> QED
        BY <3>1 DEF Draft
    <2>3. DraftInv
      BY DEF IInv
    <2>4. \A c \in Known' : c.number <= drafts'
      BY <1>1, <1>2, <1>3, <2>1, <2>2, <2>3 DEF DraftInv
    <2>5. \A c \in Known : c.number # d.number
      BY <1>1, <1>3, <2>2, <2>3 DEF DraftInv
    <2>6. \A b, c \in Known' : b.number = c.number => b = c
      BY <2>1, <2>3, <2>5 DEF DraftInv
    <2> QED
      BY <2>4, <2>6 DEF DraftInv
  <1> QED
    BY <1>6, <1>7, <1>8, <1>9 DEF IInv

\* The draft is sent, with the record and the revision on the screen: its
\* home.
LEMMA SubmitStep == ASSUME IInv, Submit PROVE IInv'
  <1> DEFINE s == [draft |-> form.draft, id |-> Current.id, expected |-> Current.revision,
                   stage |-> "sent", attached |-> TRUE]
  <1>1. TypeInv /\ form \in Form
    BY DEF IInv, TypeInv
  <1>2. /\ UNCHANGED <<desk, revision, log, open, connected, view, selected, query, drafts, lost, own>>
        /\ Current # NoRecord /\ form.draft # NoDraft
        /\ form' = [form EXCEPT !.save = "pending"] /\ saves' = saves \cup {s}
    BY DEF Submit, server
  <1>3. form' \in Form /\ form'.draft = form.draft
    BY <1>1, <1>2 DEF Form
  <1>4. Current \in Entry /\ form.draft.home = [id |-> Current.id, revision |-> Current.revision]
    BY <1>1, <1>2, CurrentTyped DEF IInv, FormInv
  <1>5. /\ s \in Save /\ s.draft = form.draft /\ s.id = Current.id /\ s.stage = "sent"
        /\ s.expected = Current.revision
    BY <1>1, <1>4 DEF Save, Form, Entry
  <1> HIDE DEF s
  <1>6. Current' = Current
    BY <1>2 DEF Current
  <1>7. TypeInv'
    BY <1>1, <1>2, <1>3, <1>5 DEF TypeInv
  <1>8. FormInv'
    BY <1>3, <1>6 DEF IInv, FormInv
  <1>9. SaveInv'
    <2>1. s.draft.home = [id |-> s.id, revision |-> s.expected]
      BY <1>4, <1>5
    <2> QED
      BY <1>2, <1>5, <2>1 DEF IInv, SaveInv
  <1>10. DraftInv'
    <2>1. Known' \subseteq Known
      BY <1>2, <1>3, <1>5 DEF Known
    <2> QED
      BY <1>2, <2>1 DEF IInv, DraftInv
  <1>11. OwnInv' /\ SavedWhereWritten'
    BY <1>2 DEF IInv, OwnInv, Fresh, SavedWhereWritten
  <1> QED
    BY <1>7, <1>8, <1>9, <1>10, <1>11 DEF IInv

\* The API handles a save: it records the draft where it was begun, and the
\* record moves on.
LEMMA HandleStep == ASSUME IInv, NEW s \in saves, Handle(s) PROVE IInv'
  <1> DEFINE ok == revision[s.id] = s.expected
             t == [s EXCEPT !.stage = IF ok THEN "ok" ELSE "conflict"]
             e == [draft |-> s.draft, id |-> s.id, revision |-> s.expected + 1]
  <1>1. TypeInv /\ s \in Save /\ revision \in [Records -> Nat]
    BY DEF IInv, TypeInv
  <1>2. /\ UNCHANGED <<desk, open, connected, view, selected, query, form, drafts, lost, own>>
        /\ saves' = (saves \ {s}) \cup {t}
        /\ revision' = IF ok THEN [revision EXCEPT ![s.id] = @ + 1] ELSE revision
        /\ log' = IF ok THEN log \cup {e} ELSE log
    BY DEF Handle
  <1>3. s.id \in Records /\ s.expected \in Nat /\ s.draft \in Draft
    BY <1>1 DEF Save
  <1>4. /\ t \in Save /\ t.draft = s.draft /\ t.id = s.id /\ t.expected = s.expected
        /\ t.stage = "ok" => ok
    BY <1>1 DEF Save
  <1>5. /\ e \in [draft : Draft, id : Records, revision : Nat]
        /\ e.draft = s.draft /\ e.id = s.id /\ e.revision = s.expected + 1
    BY <1>3
  <1>6. s.draft.home = [id |-> s.id, revision |-> s.expected]
    BY DEF IInv, SaveInv
  <1>7. /\ revision' \in [Records -> Nat]
        /\ \A r \in Records : revision'[r] >= revision[r]
        /\ ok => revision'[s.id] > s.expected
    BY <1>1, <1>2, <1>3
  <1>8. log' \subseteq log \cup {e} /\ log' \in SUBSET [draft : Draft, id : Records, revision : Nat]
    BY <1>1, <1>2, <1>5 DEF TypeInv
  <1> HIDE DEF t, e, ok
  <1>9. TypeInv'
    BY <1>1, <1>2, <1>4, <1>7, <1>8 DEF TypeInv
  <1>10. FormInv'
    <2>1. Current' = Current
      BY <1>2 DEF Current
    <2> QED
      BY <1>2, <2>1 DEF IInv, FormInv
  <1>11. SaveInv'
    <2> SUFFICES ASSUME NEW u \in saves'
                 PROVE  /\ u.draft.home = [id |-> u.id, revision |-> u.expected]
                        /\ u.stage = "ok" => revision'[u.id] > u.expected
      BY DEF SaveInv
    <2>1. CASE u = t
      BY <1>4, <1>6, <1>7, <2>1
    <2>2. CASE u # t
      <3>1. u \in saves /\ u \in Save
        BY <1>1, <1>2, <2>2 DEF TypeInv
      <3>2. u.id \in Records /\ u.expected \in Nat /\ revision[u.id] \in Nat /\ revision'[u.id] \in Nat
        BY <1>1, <1>7, <3>1 DEF Save
      <3>3. revision'[u.id] >= revision[u.id]
        BY <1>7, <3>2
      <3>4. /\ u.draft.home = [id |-> u.id, revision |-> u.expected]
            /\ u.stage = "ok" => revision[u.id] > u.expected
        BY <3>1 DEF IInv, SaveInv
      <3> QED
        BY <3>2, <3>3, <3>4
    <2> QED
      BY <2>1, <2>2
  <1>12. DraftInv'
    <2>1. Known' \subseteq Known
      BY <1>2, <1>4, <1>5, <1>8 DEF Known
    <2> QED
      BY <1>2, <2>1 DEF IInv, DraftInv
  <1>13. OwnInv'
    <2>1. own # NoRecord => revision'[own.id] >= own.revision
      <3> SUFFICES ASSUME own # NoRecord PROVE revision'[own.id] >= own.revision
        OBVIOUS
      <3>1. own.id \in Records /\ own.revision \in Nat /\ revision[own.id] >= own.revision
        BY DEF IInv, OwnInv
      <3>2. revision[own.id] \in Nat /\ revision'[own.id] \in Nat
        BY <1>1, <1>7, <3>1
      <3>3. revision'[own.id] >= revision[own.id]
        BY <1>7, <3>1
      <3> QED
        BY <3>1, <3>2, <3>3
    <2> QED
      BY <1>2, <2>1 DEF IInv, OwnInv, Fresh
  <1>14. SavedWhereWritten'
    <2>1. e.draft.home = [id |-> e.id, revision |-> e.revision - 1]
      BY <1>3, <1>5, <1>6
    <2> QED
      BY <1>8, <2>1 DEF IInv, SavedWhereWritten
  <1> QED
    BY <1>9, <1>10, <1>11, <1>12, <1>13, <1>14 DEF IInv

\* The answer arrives: after a confirmed save the queue on the screen is
\* asked for anew, or its first page is still to be read, so that nothing read
\* before the save can come to rest; the case of FirstPageRead is left out.
LEMMA AnswerStep == ASSUME IInv, NEW s \in saves, Answer(s) PROVE IInv'
  <1>1. TypeInv /\ s \in Save /\ form \in Form /\ view \in Views /\ revision \in [Records -> Nat]
    BY DEF IInv, TypeInv
  <1>2. /\ UNCHANGED <<desk, revision, log, open, connected, view, selected, drafts, lost>>
        /\ saves' = saves \ {s} /\ (query' = query \/ query' = Refetched(query))
    BY DEF Answer, server
  <1>3. /\ query' \in [Views -> Query]
        /\ \A v \in Views : /\ query'[v].page = query[v].page
                            /\ query'[v].error = query[v].error
                            /\ \/ query'[v].fetch = query[v].fetch
                               \/ query'[v].fetch = Asked("refresh")
    BY <1>1, <1>2, RefetchedStep DEF TypeInv
  <1>4. form' \in Form /\ form'.draft \in {NoDraft, form.draft}
    <2>1. NoDraft \in Draft /\ form.draft \in Draft
      BY <1>1 DEF NoDraft, Draft, Form
    <2>2. [form EXCEPT !.save = "conflict"] \in Form /\ [form EXCEPT !.save = "conflict"].draft = form.draft
      BY <1>1 DEF Form
    <2>3. \A d \in {NoDraft, form.draft} : /\ [draft |-> d, save |-> "settling"] \in Form
                                            /\ [draft |-> d, save |-> "settling"].draft = d
      BY <2>1 DEF Form
    <2>4. \/ form' = form
          \/ form' = [form EXCEPT !.save = "conflict"]
          \/ \E d \in {NoDraft, form.draft} : form' = [draft |-> d, save |-> "settling"]
      BY DEF Answer
    <2> QED
      BY <1>1, <2>2, <2>3, <2>4
  <1>5. Current' = Current
    <2>1. query'[view].page = query[view].page /\ query'[view].error = query[view].error
      BY <1>1, <1>3
    <2> QED
      BY <1>2, <2>1, ShownSame DEF Current
  <1>6. saves' \subseteq Save /\ view' \in Views
    BY <1>1, <1>2 DEF TypeInv
  <1>7. \A u \in saves' : \E t \in saves : /\ u.draft = t.draft /\ u.id = t.id
                                           /\ u.expected = t.expected /\ u.stage = t.stage
    BY <1>2
  <1>8. TypeInv' /\ FormInv' /\ SaveInv' /\ DraftInv' /\ SavedWhereWritten'
    BY <1>2, <1>3, <1>4, <1>5, <1>6, <1>7, ScreenStep
  <1>9. Asked("refresh").stage = "asked" /\ Asked("refresh").cause = "refresh"
    BY AskedTyped
  <1>11. OwnInv'
    <2>1. CASE s.stage = "ok" /\ open /\ connected /\ ~FirstPageRead
      <3>1. own' = [id |-> s.id, revision |-> s.expected + 1] /\ query' = Refetched(query)
        BY <2>1 DEF Answer
      <3>2. query'[view].fetch.stage = "asked"
        BY <1>1, <2>1, <3>1, RefetchedStep
      <3>3. s.id \in Records /\ s.expected \in Nat /\ revision[s.id] \in Nat
        BY <1>1 DEF Save
      <3>4. revision[s.id] >= s.expected + 1
        <4>1. revision[s.id] > s.expected
          BY <2>1 DEF IInv, SaveInv
        <4> QED
          BY <3>3, <4>1
      <3> QED
        BY <1>2, <3>1, <3>2, <3>3, <3>4 DEF OwnInv
    <2>2. CASE ~(s.stage = "ok" /\ open /\ connected /\ ~FirstPageRead)
      <3>1. own' = own
        BY <2>2 DEF Answer
      <3>2. \/ query'[view].fetch = query[view].fetch
            \/ query'[view].fetch.stage = "asked"
        BY <1>1, <1>3, <1>9
      <3>3. query'[view].page = query[view].page /\ query'[view].error = query[view].error
        BY <1>1, <1>3
      <3> QED
        BY <1>2, <3>1, <3>2, <3>3 DEF IInv, OwnInv, Fresh
    <2> QED
      BY <2>1, <2>2
  <1> QED
    BY <1>8, <1>11 DEF IInv

\* Another reviewer saves: revisions only grow.
LEMMA OtherSavesStep == ASSUME IInv, NEW r \in Records, OtherSaves(r) PROVE IInv'
  <1>1. TypeInv /\ revision \in [Records -> Nat]
    BY DEF IInv, TypeInv
  <1>2. /\ UNCHANGED <<desk, log, open, connected, view, selected, query, form, saves, drafts, lost, own>>
        /\ revision' = [revision EXCEPT ![r] = @ + 1]
    BY DEF OtherSaves
  <1>3. /\ revision' \in [Records -> Nat]
        /\ \A x \in Records : \A n \in Nat : revision[x] >= n => revision'[x] >= n
        /\ \A x \in Records : \A n \in Nat : revision[x] > n => revision'[x] > n
    BY <1>1, <1>2
  <1>4. Current' = Current /\ Known' = Known
    BY <1>2 DEF Current, Known
  <1>5. TypeInv'
    BY <1>1, <1>2, <1>3 DEF TypeInv
  <1>6. SaveInv'
    <2>1. \A s \in saves : s.id \in Records /\ s.expected \in Nat
      BY <1>1 DEF TypeInv, Save
    <2> QED
      BY <1>2, <1>3, <2>1 DEF IInv, SaveInv
  <1>7. OwnInv'
    BY <1>2, <1>3 DEF IInv, OwnInv, Fresh
  <1>8. FormInv' /\ DraftInv' /\ SavedWhereWritten'
    BY <1>2, <1>4 DEF IInv, FormInv, DraftInv, SavedWhereWritten
  <1> QED
    BY <1>5, <1>6, <1>7, <1>8 DEF IInv

\* Every step keeps the inductive invariant.
LEMMA NextIInv == IInv /\ [Next]_vars => IInv'
  <1> SUFFICES ASSUME IInv, [Next]_vars PROVE IInv'
    OBVIOUS
  <1>1. ASSUME NEW r \in Records, Select(r) \/ OtherSaves(r) PROVE IInv'
    BY <1>1, SelectStep, OtherSavesStep
  <1>2. ASSUME NEW v \in Views, ChangeView(v) \/ ReadPage(v) \/ PageArrives(v) \/ PageFails(v)
        PROVE  IInv'
    BY <1>2, MoveStep, ReadPageStep, ArriveStep
  <1>3. CASE Refresh \/ Focus
    BY <1>3, RefreshStep
  <1>4. CASE OpenSection \/ Session
    BY <1>4, MoveStep
  <1>5. CASE Write \/ Submit
    BY <1>5, WriteStep, SubmitStep
  <1>6. CASE Settled
    BY <1>6, SettleStep
  <1>7. ASSUME NEW s \in saves, Handle(s) \/ Answer(s) \/ Unanswered(s) PROVE IInv'
    BY <1>7, HandleStep, AnswerStep, SettleStep
  <1>8. CASE UNCHANGED vars
    <2>1. UNCHANGED <<desk, revision, log, open, connected, view, selected, query, form, saves, drafts, lost, own>>
      BY <1>8 DEF vars
    <2>2. form' \in Form
      BY <2>1 DEF IInv, TypeInv
    <2> QED
      BY <2>1, <2>2, FormOnly
  <1> QED
    BY <1>1, <1>2, <1>3, <1>4, <1>5, <1>6, <1>7, <1>8 DEF Next

-----------------------------------------------------------------------------
\* The inductive invariant holds in every state the browser and the API reach.
THEOREM Invariance == Spec => []IInv
  BY InitIInv, NextIInv, PTL DEF Spec

\* A save records a draft for the record and the revision in front of which
\* it was begun, whatever pages arrived meanwhile: forms are keyed.
THEOREM SavesStayWhereWritten == Spec => []SavedWhereWritten
  <1>1. IInv => SavedWhereWritten
    BY DEF IInv
  <1> QED
    BY <1>1, Invariance, PTL

\* However often a draft is sent again after a lost answer, the API records
\* it once: a second request expects a revision that is gone.
THEOREM DraftsAreSavedOnce == Spec => []SavedOnce
  <1>1. ASSUME IInv, NEW e \in log, NEW f \in log, e.draft.number = f.draft.number
        PROVE  e = f
    <2>1. e.draft = f.draft
      BY <1>1 DEF IInv, DraftInv, Known
    <2>2. /\ e \in [draft : Draft, id : Records, revision : Nat]
          /\ f \in [draft : Draft, id : Records, revision : Nat]
      BY <1>1 DEF IInv, TypeInv
    <2>3. [id |-> e.id, revision |-> e.revision - 1] = [id |-> f.id, revision |-> f.revision - 1]
      BY <1>1, <2>1 DEF IInv, SavedWhereWritten
    <2>4. e.id = f.id /\ e.revision - 1 = f.revision - 1
      BY <2>3
    <2>5. e.revision = f.revision
      BY <2>2, <2>4
    <2> QED
      BY <2>1, <2>2, <2>4, <2>5
  <1>2. IInv => SavedOnce
    BY <1>1 DEF SavedOnce
  <1> QED
    BY <1>2, Invariance, PTL

\* Once the queue has been fetched after a confirmed save, the view never
\* shows the record as it was before.
THEOREM OwnSavesAreShown == Spec => []OwnSaveShown
  <1>1. IInv => OwnSaveShown
    BY DEF IInv, OwnInv, Fresh, OwnSaveShown
  <1> QED
    BY <1>1, Invariance, PTL

-----------------------------------------------------------------------------
(* Conflicts. *)

NotAhead(page) == \A x \in page \ {NoRecord} : x.revision <= revision[x.id]

\* No page, shown or on its way, is ahead of the API.
PageInv == \A v \in Views : NotAhead(query[v].page) /\ NotAhead(query[v].fetch.page)

\* A save that is attached to the form is about the record on the screen; none
\* expects more than the API has, and one that was refused expects less.
AttachInv ==
    \A s \in saves : /\ s.attached => Current = [id |-> s.id, revision |-> s.expected]
                     /\ s.expected <= revision[s.id]
                     /\ s.stage = "conflict" => s.expected < revision[s.id]

CInv == PageInv /\ AttachInv /\ ConflictIsStale

\* Revisions of the API only grow.
Grown == /\ revision' \in [Records -> Nat]
         /\ \A r \in Records : revision[r] <= revision'[r]

\* Each save comes from one that was there; it may have lost its form, and has
\* when the screen shows another record.
Follows == \A s \in saves' : \E t \in saves :
               /\ s.id = t.id /\ s.expected = t.expected /\ s.stage = t.stage
               /\ s.attached => t.attached /\ Current' = Current

\* A record on the screen is one of the page of the view.
LEMMA CurrentNotAhead ==
    ASSUME TypeInv, PageInv, Current # NoRecord
    PROVE  /\ Current.id \in Records /\ Current.revision \in Nat
           /\ Current.revision <= revision[Current.id]
  <1>1. Current \in Entry
    BY CurrentTyped
  <1> DEFINE page == query[view].page
  <1>2. page \in SUBSET Entry /\ page # {}
    BY DEF Current, Shown, TypeInv, Query
  <1>3. Current \in page
    <2>1. CASE \E x \in page : x.id = selected
      <3>1. Current = CHOOSE x \in page : x.id = selected
        BY <1>2, <2>1 DEF Current, Shown
      <3> HIDE DEF page
      <3> QED
        BY <2>1, <3>1
    <2>2. CASE ~\E x \in page : x.id = selected
      <3>1. Current = CHOOSE x \in page : \A y \in page : x.id <= y.id
        BY <1>2, <2>2 DEF Current, Shown
      <3> HIDE DEF page
      <3>2. \E x \in page : \A y \in page : x.id <= y.id
        <4> DEFINE ids == {x.id : x \in page}
        <4>1. ids \in SUBSET Nat /\ ids # {}
          BY <1>2 DEF Entry
        <4>2. PICK i \in ids : \A j \in ids : i <= j
          BY <4>1, HasLeast
        <4> QED
          BY <4>2
      <3> QED
        BY <3>1, <3>2
    <2> QED
      BY <2>1, <2>2
  <1>4. view \in Views
    BY DEF TypeInv
  <1> QED
    BY <1>1, <1>3, <1>4 DEF PageInv, NotAhead, Entry

\* A step that adds no save keeps what is known of conflicts, if the form that
\* shows one showed it before or was just told by its own save.
LEMMA ConflictKept ==
    ASSUME TypeInv, CInv, PageInv', Grown, Follows,
           form'.save = "conflict" =>
               /\ Current' = Current
               /\ form.save = "conflict" \/ \E s \in saves : s.attached /\ s.stage = "conflict"
    PROVE  CInv'
  <1>0. \A s \in saves : s.id \in Records /\ s.expected \in Nat
    BY DEF TypeInv, Save
  <1>1. \A r \in Records : revision[r] \in Nat /\ revision'[r] \in Nat
    BY DEF TypeInv, Grown
  <1>2. AttachInv'
    <2> SUFFICES ASSUME NEW s \in saves'
                 PROVE  /\ s.attached => Current' = [id |-> s.id, revision |-> s.expected]
                        /\ s.expected <= revision'[s.id]
                        /\ s.stage = "conflict" => s.expected < revision'[s.id]
      BY DEF AttachInv
    <2>1. PICK t \in saves : /\ s.id = t.id /\ s.expected = t.expected /\ s.stage = t.stage
                             /\ s.attached => t.attached /\ Current' = Current
      BY DEF Follows
    <2>2. /\ t.attached => Current = [id |-> t.id, revision |-> t.expected]
          /\ t.expected <= revision[t.id]
          /\ t.stage = "conflict" => t.expected < revision[t.id]
      BY DEF CInv, AttachInv
    <2>3. t.id \in Records /\ t.expected \in Nat /\ revision[t.id] <= revision'[t.id]
      BY <1>0 DEF Grown
    <2>4. revision[t.id] \in Nat /\ revision'[t.id] \in Nat
      BY <1>1, <2>3
    <2> QED
      BY <2>1, <2>2, <2>3, <2>4
  <1>3. ConflictIsStale'
    <2> SUFFICES ASSUME form'.save = "conflict"
                 PROVE  Current' # NoRecord /\ revision'[Current'.id] > Current'.revision
      BY DEF ConflictIsStale
    <2>1. Current' = Current
      OBVIOUS
    <2>2. Current # NoRecord /\ revision[Current.id] > Current.revision
      <3>1. CASE form.save = "conflict"
        BY <3>1 DEF CInv, ConflictIsStale
      <3>2. ASSUME NEW s \in saves, s.attached, s.stage = "conflict"
            PROVE  Current # NoRecord /\ revision[Current.id] > Current.revision
        <4>1. Current = [id |-> s.id, revision |-> s.expected] /\ s.expected < revision[s.id]
          BY <3>2 DEF CInv, AttachInv
        <4>2. s.expected \in Nat /\ revision[s.id] \in Nat
          BY <1>0, <1>1, <3>2
        <4> QED
          BY <4>1, <4>2 DEF NoRecord
      <3> QED
        BY <3>1, <3>2
    <2>3. Current.id \in Records /\ Current.revision \in Nat
      BY <2>2, CurrentNotAhead DEF CInv
    <2>4. revision[Current.id] \in Nat /\ revision'[Current.id] \in Nat
          /\ revision[Current.id] <= revision'[Current.id]
      BY <1>1, <2>3 DEF Grown
    <2> QED
      BY <2>1, <2>2, <2>3, <2>4
  <1> QED
    BY <1>2, <1>3 DEF CInv

\* Pages stay behind the API when it goes on and no page comes that is not.
LEMMA PagesKept ==
    ASSUME TypeInv, TypeInv', PageInv, Grown,
           \A v \in Views :
               /\ query'[v].page \in {query[v].page, query[v].fetch.page}
               /\ \/ query'[v].fetch.page \in {{}, query[v].fetch.page}
                  \/ query'[v].fetch.page = PageOf(v)
    PROVE  PageInv'
  <1>1. ASSUME NEW page, NotAhead(page), page \in (SUBSET Entry) \cup {NoPage} PROVE NotAhead(page)'
    <2> SUFFICES ASSUME NEW x \in page \ {NoRecord} PROVE x.revision <= revision'[x.id]
      BY DEF NotAhead
    <2>1. x \in Entry
      BY <1>1 DEF NoPage
    <2>2. x.revision \in Nat /\ revision[x.id] \in Nat /\ revision'[x.id] \in Nat
          /\ revision[x.id] <= revision'[x.id]
      BY <2>1 DEF Entry, TypeInv, Grown
    <2>3. x.revision <= revision[x.id]
      BY <1>1 DEF NotAhead
    <2> QED
      BY <2>2, <2>3
  <1>2. ASSUME NEW v \in Views PROVE NotAhead(PageOf(v)) /\ PageOf(v) \in SUBSET Entry
    <2>1. \A x \in PageOf(v) : x.revision = revision[x.id] /\ x \in Entry
      BY PageOfFresh
    <2> QED
      BY <2>1 DEF NotAhead, Entry
  <1>3. NotAhead({}) /\ {} \in SUBSET Entry
    BY DEF NotAhead
  <1>4. \A v \in Views : /\ query[v].page \in (SUBSET Entry) \cup {NoPage}
                         /\ query[v].fetch.page \in SUBSET Entry
    BY DEF TypeInv, Query, Fetch
  <1>5. ASSUME NEW v \in Views PROVE NotAhead(query[v].page)'
    <2>1. NotAhead(query[v].page) /\ NotAhead(query[v].fetch.page)
      BY DEF PageInv
    <2>2. PICK page : page = query'[v].page
      OBVIOUS
    <2>3. NotAhead(page) /\ page \in (SUBSET Entry) \cup {NoPage}
      BY <1>4, <2>1, <2>2
    <2>4. NotAhead(page)'
      BY <1>1, <2>3
    <2> QED
      BY <2>2, <2>4 DEF NotAhead
  <1>6. ASSUME NEW v \in Views PROVE NotAhead(query[v].fetch.page)'
    <2>1. NotAhead(query[v].fetch.page)
      BY DEF PageInv
    <2>2. PICK page : page = query'[v].fetch.page
      OBVIOUS
    <2>3. NotAhead(page) /\ page \in (SUBSET Entry) \cup {NoPage}
      BY <1>2, <1>3, <1>4, <2>1, <2>2
    <2>4. NotAhead(page)'
      BY <1>1, <2>3
    <2> QED
      BY <2>2, <2>4 DEF NotAhead
  <1> QED
    BY <1>5, <1>6 DEF PageInv

\* What React does to a conflict: it stays with its form or goes with it.
LEMMA RenderKeeps ==
    ASSUME TypeInv, NEW how, NEW kept, kept.save = form.save, Render(Current', how, kept)
    PROVE  /\ Follows
           /\ form'.save = "conflict" => Current' = Current /\ form.save = "conflict"
  <1>1. CASE Current' = Current
    <2>1. form' = kept /\ saves' = saves
      BY <1>1 DEF Render
    <2> QED
      BY <1>1, <2>1 DEF Follows
  <1>2. CASE Current' # Current
    <2>1. form' = EmptyForm /\ saves' = {[s EXCEPT !.attached = FALSE] : s \in saves}
      BY <1>2 DEF Render
    <2>2. \A s \in saves : /\ ~[s EXCEPT !.attached = FALSE].attached
                           /\ [s EXCEPT !.attached = FALSE].id = s.id
                           /\ [s EXCEPT !.attached = FALSE].expected = s.expected
                           /\ [s EXCEPT !.attached = FALSE].stage = s.stage
      BY DEF TypeInv, Save
    <2>3. Follows
      BY <2>1, <2>2, ZenonT(60) DEF Follows
    <2> QED
      BY <2>1, <2>3 DEF EmptyForm
  <1> QED
    BY <1>1, <1>2

\* Steps that render the form anew.
LEMMA NavigationConflict ==
    ASSUME IInv, TypeInv', CInv,
           \/ \E r \in Records : Select(r)
           \/ \E v \in Views : ChangeView(v) \/ PageArrives(v) \/ PageFails(v)
           \/ OpenSection \/ Session
    PROVE  CInv'
  <1>1. TypeInv /\ PageInv /\ view \in Views /\ query \in [Views -> Query]
    BY DEF IInv, CInv, TypeInv
  <1>2. Discarded.save = form.save /\ [form EXCEPT !.draft = NoDraft].save = form.save
    BY <1>1 DEF Discarded, TypeInv, Form
  <1>3. ASSUME UNCHANGED revision, NEW how, NEW kept, kept.save = form.save,
               Render(Current', how, kept),
               \A v \in Views :
                   /\ query'[v].page \in {query[v].page, query[v].fetch.page}
                   /\ query'[v].fetch.page \in {{}, query[v].fetch.page}
        PROVE  CInv'
    <2>1. Grown
      BY <1>1, <1>3 DEF Grown, TypeInv
    <2>2. PageInv'
      BY <1>1, <1>3, <2>1, PagesKept
    <2> QED
      BY <1>1, <1>3, <2>1, <2>2, RenderKeeps, ConflictKept
  <1>4. ASSUME NEW r \in Records, Select(r) PROVE CInv'
    <2>1. UNCHANGED <<revision, query>> /\ Render(Current', "navigation", Discarded)
      BY <1>4 DEF Select, server, Current
    <2> QED
      BY <1>2, <1>3, <2>1
  <1>5. ASSUME (\E v \in Views : ChangeView(v)) \/ OpenSection \/ Session PROVE CInv'
    <2>1. view' \in Views /\ UNCHANGED revision /\ selected' = -1
      BY <1>1, <1>5 DEF ChangeView, OpenSection, Session, server, Views
    <2>2. query' = Visit(query, view') \/ query' = query
      BY <1>5 DEF ChangeView, OpenSection, Session
    <2>3. \A v \in Views : /\ query'[v].page = query[v].page
                           /\ query'[v].error = query[v].error
                           /\ query'[v].fetch = query[v].fetch \/ query'[v].fetch = Asked("visit")
      <3>1. PICK w \in Views : w = view'
        BY <2>1
      <3> QED
        BY <1>1, <2>2, <3>1, VisitStep
    <2>4. Current' = Shown(open', connected', query[view'], -1)
      <3>1. query'[view'].page = query[view'].page /\ query'[view'].error = query[view'].error
        BY <2>1, <2>3
      <3> QED
        BY <2>1, <3>1, ShownSame DEF Current
    <2>5. \/ Render(Current', "navigation", Discarded)
          \/ Render(Current', "session", form)
      <3>1. ASSUME NEW v \in Views, ChangeView(v)
            PROVE  Render(Current', "navigation", Discarded)
        BY <2>4, <3>1 DEF ChangeView
      <3>2. CASE OpenSection
        BY <2>4, <3>2 DEF OpenSection
      <3>3. CASE Session
        BY <2>4, <3>3 DEF Session
      <3> QED
        BY <1>5, <3>1, <3>2, <3>3
    <2>6. \A v \in Views : query'[v].fetch.page \in {{}, query[v].fetch.page}
      BY <2>3 DEF Asked
    <2> QED
      BY <1>2, <1>3, <2>1, <2>3, <2>5, <2>6
  <1>6. ASSUME NEW w \in Views, PageArrives(w) \/ PageFails(w) PROVE CInv'
    <2> DEFINE kept == IF form.save = "settling" THEN [form EXCEPT !.draft = NoDraft] ELSE form
    <2>1. PICK cached :
             /\ Arrive(w, cached)
             /\ cached.page \in {query[w].page, query[w].fetch.page} /\ cached.fetch = NoFetch
      BY <1>6 DEF PageArrives, PageFails
    <2>2. /\ UNCHANGED <<revision, open, connected, view, selected>>
          /\ query' = [query EXCEPT ![w] = cached]
      BY <2>1 DEF Arrive, server
    <2>3. query'[w] = cached /\ \A v \in Views : v # w => query'[v] = query[v]
      BY <1>1, <2>2
    <2>4. \A v \in Views : /\ query'[v].page \in {query[v].page, query[v].fetch.page}
                           /\ query'[v].fetch.page \in {{}, query[v].fetch.page}
      BY <2>1, <2>3 DEF NoFetch
    <2>5. CASE w = view
      <3>1. Current' = Shown(open, connected, cached, selected)
        BY <2>2, <2>3, <2>5 DEF Current
      <3>2. Render(Current', query[w].fetch.cause, kept)
        BY <2>1, <2>5, <3>1 DEF Arrive
      <3>3. kept.save = form.save
        BY <1>2
      <3> HIDE DEF kept
      <3>4. PICK how : how = query[w].fetch.cause
        OBVIOUS
      <3>5. Render(Current', how, kept)
        BY <3>2, <3>4
      <3> QED
        BY <1>3, <2>2, <2>4, <3>3, <3>5
    <2>6. CASE w # view
      <3>1. UNCHANGED <<form, saves>> /\ query'[view] = query[view]
        BY <1>1, <2>1, <2>3, <2>6 DEF Arrive
      <3>2. Current' = Current
        BY <2>2, <3>1 DEF Current
      <3>3. Follows /\ Grown
        BY <1>1, <2>2, <3>1, <3>2 DEF Follows, Grown, TypeInv
      <3>4. PageInv'
        BY <1>1, <2>4, <3>3, PagesKept
      <3> QED
        BY <1>1, <3>1, <3>2, <3>3, <3>4, ConflictKept
    <2> QED
      BY <2>5, <2>6
  <1> QED
    BY <1>4, <1>5, <1>6

\* Steps behind the screen: fetches, answers, other reviewers.
LEMMA BackgroundConflict ==
    ASSUME IInv, TypeInv', CInv,
           \/ Refresh \/ Focus \/ Settled \/ Write \/ UNCHANGED vars
           \/ \E v \in Views : ReadPage(v)
           \/ \E r \in Records : OtherSaves(r)
           \/ \E s \in saves : Answer(s) \/ Unanswered(s)
    PROVE  CInv'
  <1>1. /\ TypeInv /\ PageInv /\ view \in Views /\ query \in [Views -> Query] /\ form \in Form
        /\ revision \in [Records -> Nat]
    BY DEF IInv, CInv, TypeInv
  <1>2. UNCHANGED <<open, connected, view, selected>>
    BY DEF Refresh, Focus, Settled, Write, vars, ReadPage, OtherSaves, Answer, Unanswered
  <1>3. Grown
    <2>1. \A r \in Records : revision[r] <= revision[r] /\ revision[r] <= revision[r] + 1
      BY <1>1
    <2>2. UNCHANGED revision \/ \E r \in Records : revision' = [revision EXCEPT ![r] = @ + 1]
      BY DEF Refresh, Focus, Settled, Write, vars, ReadPage, OtherSaves, Answer, Unanswered, server
    <2> QED
      BY <1>1, <2>1, <2>2 DEF Grown
  <1>4. \A v \in Views : /\ query'[v].page = query[v].page /\ query'[v].error = query[v].error
                         /\ \/ query'[v].fetch.page \in {{}, query[v].fetch.page}
                            \/ query'[v].fetch.page = PageOf(v)
    <2>1. CASE UNCHANGED query
      BY <2>1
    <2>2. CASE query' = Refetched(query)
      BY <1>1, <2>2, RefetchedStep DEF Asked
    <2>3. CASE query' = [query EXCEPT ![view].fetch = Asked("focus")]
      BY <1>1, <2>3, AskedTyped, FetchStep DEF Asked
    <2>4. ASSUME NEW w \in Views, ReadPage(w)
          PROVE  \A v \in Views : /\ query'[v].page = query[v].page /\ query'[v].error = query[v].error
                                  /\ query'[v].fetch.page \in {query[v].fetch.page, PageOf(v)}
      <3> DEFINE f == [query[w].fetch EXCEPT !.stage = "read", !.page = PageOf(w)]
      <3>1. query[w] \in Query /\ query[w].fetch \in Fetch /\ PageOf(w) \in SUBSET Entry
        BY <1>1, PageOfFresh DEF Query
      <3>2. f \in Fetch /\ f.page = PageOf(w)
        BY <3>1 DEF Fetch
      <3>3. query' = [query EXCEPT ![w].fetch.stage = "read", ![w].fetch.page = PageOf(w)]
        BY <2>4 DEF ReadPage
      <3>4. query' = [query EXCEPT ![w].fetch = f]
        BY <1>1, <3>1, <3>3 DEF Query, Fetch
      <3> HIDE DEF f
      <3> QED
        BY <1>1, <3>2, <3>4, FetchStep
    <2>5. \/ UNCHANGED query \/ query' = Refetched(query)
          \/ query' = [query EXCEPT ![view].fetch = Asked("focus")]
          \/ \E w \in Views : ReadPage(w)
      BY DEF Refresh, Focus, Settled, Write, vars, OtherSaves, Answer, Unanswered
    <2> QED
      BY <2>1, <2>2, <2>3, <2>4, <2>5
  <1>5. Current' = Current
    <2>1. query'[view].page = query[view].page /\ query'[view].error = query[view].error
      BY <1>1, <1>4
    <2> QED
      BY <1>2, <2>1, ShownSame DEF Current
  <1>6. PageInv'
    BY <1>1, <1>3, <1>4, PagesKept
  <1>7. Follows
    <2>1. saves' \subseteq saves
      BY DEF Refresh, Focus, Settled, Write, vars, ReadPage, OtherSaves, Answer, Unanswered
    <2> QED
      BY <1>5, <2>1 DEF Follows
  <1>8. ASSUME form'.save = "conflict"
        PROVE  form.save = "conflict" \/ \E s \in saves : s.attached /\ s.stage = "conflict"
    <2>1. CASE \E s \in saves : Answer(s)
      BY <1>1, <1>8, <2>1 DEF Answer, Form
    <2>2. CASE \E s \in saves : Unanswered(s)
      BY <1>1, <1>8, <2>2 DEF Unanswered, Form
    <2>3. CASE Settled \/ Write
      BY <1>1, <1>8, <2>3 DEF Settled, Write, Form
    <2>4. CASE Refresh
      BY <1>1, <1>8, <2>4 DEF Refresh, Discarded, Form
    <2>5. CASE \/ Focus \/ UNCHANGED vars \/ (\E v \in Views : ReadPage(v))
               \/ (\E r \in Records : OtherSaves(r))
      BY <1>8, <2>5 DEF Focus, vars, ReadPage, OtherSaves
    <2> QED
      BY <2>1, <2>2, <2>3, <2>4, <2>5
  <1> QED
    BY <1>1, <1>3, <1>5, <1>6, <1>7, <1>8, ConflictKept

\* A save is sent for the record on the screen, and handled.
LEMMA SaveConflict ==
    ASSUME IInv, TypeInv', CInv, Submit \/ \E s \in saves : Handle(s)
    PROVE  CInv'
  <1>1. /\ TypeInv /\ PageInv /\ form \in Form /\ revision \in [Records -> Nat]
        /\ AttachInv /\ ConflictIsStale
    BY DEF IInv, CInv, TypeInv
  <1>2. UNCHANGED <<open, connected, view, selected, query>> /\ Current' = Current
    BY DEF Submit, Handle, Current
  <1>3. CASE Submit
    <2> DEFINE s == [draft |-> form.draft, id |-> Current.id, expected |-> Current.revision,
                     stage |-> "sent", attached |-> TRUE]
    <2>1. /\ UNCHANGED revision /\ Current # NoRecord /\ saves' = saves \cup {s}
          /\ form' = [form EXCEPT !.save = "pending"]
      BY <1>3 DEF Submit, server
    <2>2. Current = [id |-> Current.id, revision |-> Current.revision]
      BY <1>1, <2>1, CurrentTyped
    <2>3. Current.revision <= revision[Current.id]
      BY <1>1, <2>1, CurrentNotAhead
    <2>4. AttachInv'
      BY <1>1, <1>2, <2>1, <2>2, <2>3 DEF AttachInv
    <2>5. PageInv'
      BY <1>1, <1>2, <2>1 DEF PageInv, NotAhead
    <2>6. ConflictIsStale'
      BY <1>1, <2>1 DEF ConflictIsStale, Form
    <2> QED
      BY <2>4, <2>5, <2>6 DEF CInv
  <1>4. ASSUME NEW s \in saves, Handle(s) PROVE CInv'
    <2> DEFINE ok == revision[s.id] = s.expected
               t == [s EXCEPT !.stage = IF ok THEN "ok" ELSE "conflict"]
    <2>1. /\ UNCHANGED form /\ saves' = (saves \ {s}) \cup {t}
          /\ revision' = IF ok THEN [revision EXCEPT ![s.id] = @ + 1] ELSE revision
      BY <1>4 DEF Handle
    <2>2. s \in Save /\ s.id \in Records /\ s.expected \in Nat /\ revision[s.id] \in Nat
      BY <1>1 DEF TypeInv, Save
    <2>3. /\ t.id = s.id /\ t.expected = s.expected /\ t.attached = s.attached
          /\ t.stage = "conflict" => ~ok
      BY <2>2 DEF Save
    <2>4. Grown
      <3>1. \A r \in Records : revision[r] <= revision[r] /\ revision[r] <= revision[r] + 1
        BY <1>1
      <3> QED
        BY <1>1, <2>1, <2>2, <3>1 DEF Grown
    <2>5. PageInv'
      BY <1>1, <1>2, <2>4, PagesKept
    <2>6. /\ s.attached => Current = [id |-> s.id, revision |-> s.expected]
          /\ s.expected <= revision[s.id]
      BY <1>1 DEF AttachInv
    <2>7. revision'[s.id] \in Nat /\ revision[s.id] <= revision'[s.id]
      BY <2>2, <2>4 DEF Grown
    <2>8. ~ok => s.expected < revision'[s.id]
      BY <2>2, <2>6, <2>7
    <2> HIDE DEF t, ok
    <2>9. ASSUME NEW u \in saves'
          PROVE  /\ u.attached => Current' = [id |-> u.id, revision |-> u.expected]
                 /\ u.expected <= revision'[u.id]
                 /\ u.stage = "conflict" => u.expected < revision'[u.id]
      <3>1. CASE u = t
        BY <1>2, <2>2, <2>3, <2>6, <2>7, <2>8, <3>1
      <3>2. CASE u \in saves
        <4>1. /\ u.id \in Records /\ u.expected \in Nat
              /\ u.attached => Current = [id |-> u.id, revision |-> u.expected]
              /\ u.expected <= revision[u.id]
              /\ u.stage = "conflict" => u.expected < revision[u.id]
          BY <1>1, <3>2 DEF AttachInv, TypeInv, Save
        <4>2. /\ revision[u.id] \in Nat /\ revision'[u.id] \in Nat
              /\ revision[u.id] <= revision'[u.id]
          BY <1>1, <2>4, <4>1 DEF Grown
        <4> QED
          BY <1>2, <4>1, <4>2
      <3> QED
        BY <2>1, <3>1, <3>2
    <2>10. ConflictIsStale'
      <3> SUFFICES ASSUME form'.save = "conflict"
                   PROVE  Current' # NoRecord /\ revision'[Current'.id] > Current'.revision
        BY DEF ConflictIsStale
      <3>1. Current # NoRecord /\ revision[Current.id] > Current.revision
        BY <1>1, <2>1 DEF ConflictIsStale
      <3>2. Current.id \in Records /\ Current.revision \in Nat
        BY <1>1, <3>1, CurrentNotAhead
      <3>3. /\ revision[Current.id] \in Nat /\ revision'[Current.id] \in Nat
            /\ revision[Current.id] <= revision'[Current.id]
        BY <1>1, <2>4, <3>2 DEF Grown
      <3> QED
        BY <1>2, <3>1, <3>2, <3>3
    <2>11. AttachInv'
      BY <2>9 DEF AttachInv
    <2> QED
      BY <2>5, <2>10, <2>11 DEF CInv
  <1> QED
    BY <1>3, <1>4

\* A form reports a conflict only when the API has a later revision of its
\* record, for any order of pages, saves and answers: the answer of a save goes
\* to the form that sent it, which is keyed by record and revision.
THEOREM ConflictsAreStale == Spec => []ConflictIsStale
  <1>1. Init => CInv
    <2> SUFFICES ASSUME Init PROVE CInv
      OBVIOUS
    <2>1. PageInv
      BY DEF Init, PageInv, NotAhead, NoPage, NoFetch, Asked
    <2> QED
      BY <2>1 DEF Init, CInv, AttachInv, ConflictIsStale, EmptyForm
  <1>2. ASSUME IInv, IInv', CInv, [Next]_vars PROVE CInv'
    <2>1. TypeInv'
      BY <1>2 DEF IInv
    <2> QED
      BY <1>2, <2>1, NavigationConflict, BackgroundConflict, SaveConflict, Zenon DEF Next
  <1>3. CInv => ConflictIsStale
    BY DEF CInv
  <1> QED
    BY <1>1, <1>2, <1>3, Invariance, PTL DEF Spec
=============================================================================
