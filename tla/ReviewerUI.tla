----------------------------- MODULE ReviewerUI -----------------------------
(* One reviewer's browser in front of a desk of the API: the page of records *)
(* the query cache holds, the record shown with its form, the draft in that  *)
(* form, the save on its way, and other reviewers saving meanwhile.          *)
(*                                                                           *)
(* The two desks differ: the exception desk asks before it gives up a draft  *)
(* (DraftGuard) and does not refetch its queue on window focus; the identity *)
(* desk does neither. A view stands for filter, severity, sort order, search *)
(* and page, everything the query key of a queue is made of. The form is     *)
(* keyed by record and revision: when the key changes React mounts a new     *)
(* form and the draft is gone.                                               *)
EXTENDS Integers, FiniteSets

CONSTANTS
    Desks,        \* "exceptions", "identity"
    Records,      \* the records of the desk, ordered as the server sorts them
    MaxRevision,  \* bound on the revisions of a record
    MaxDrafts,    \* bound on the drafts the reviewer starts
    MaxMoves,     \* bound on the moves through the desk
    MaxOthers     \* bound on the saves of other reviewers

ASSUME UIAssumption == Records \subseteq Nat /\ MaxRevision \in Nat /\ MaxDrafts \in Nat
                       /\ MaxMoves \in Nat /\ MaxOthers \in Nat

VARIABLES
    desk,       \* the desk this browser has open
    revision,   \* the server: the revision of each record
    log,        \* the server: what this reviewer's saves recorded
    open,       \* the desk's section is on the screen
    connected,  \* organizations and actor are loaded without an error
    view,       \* the queue's view
    selected,   \* the record chosen in the queue, or none
    query,      \* the query cache: per view the page, its error, the fetch
    form,       \* the form shown: draft and state of its save
    saves,      \* the save requests on their way
    drafts,     \* the number of drafts started
    moves,      \* the number of moves through the desk
    others,     \* the number of saves of other reviewers
    lost,       \* how the last draft that went without a word was lost
    own         \* the last own save confirmed in this view, FirstPageRead apart

vars == <<desk, revision, log, open, connected, view, selected, query, form, saves, drafts, moves, others, lost, own>>
server == <<revision, log>>

Views == {"attention", "all"}
NoRecord == [id |-> -1, revision |-> -1]
NoDraft == [number |-> 0, home |-> NoRecord]
NoPage == {NoRecord}
NoFetch == [stage |-> "none", cause |-> "none", page |-> {}]
EmptyForm == [draft |-> NoDraft, save |-> "idle"]

Asked(cause) == [stage |-> "asked", cause |-> cause, page |-> {}]

(* What the queue endpoint answers for a view: the first saves keep a record *)
(* in the attention list, the last one takes it out.                         *)
PageOf(v) ==
    {[id |-> r, revision |-> revision[r]] :
        r \in {x \in Records : v = "all" \/ revision[x] < MaxRevision}}

(* The record whose form is mounted, from the given state of the desk.       *)
Shown(isOpen, isConnected, cached, chosen) ==
    IF ~isOpen \/ ~isConnected \/ cached.page = NoPage \/ cached.error \/ cached.page = {}
    THEN NoRecord
    ELSE IF \E x \in cached.page : x.id = chosen
         THEN CHOOSE x \in cached.page : x.id = chosen
         ELSE CHOOSE x \in cached.page : \A y \in cached.page : x.id <= y.id

Current == Shown(open, connected, query[view], selected)

Pending == form.save \in {"pending", "settling"}

----------------------------------------------------------------------------
(* Mutant: the form has no key and shows whatever record is current.         *)
RenderUnkeyed(key, how, kept) ==
    /\ form' = kept
    /\ UNCHANGED <<saves, lost>>

(* React: the form stays mounted while its key stays the same.               *)
Render(key, how, kept) ==
    /\ form' = IF key = Current THEN kept ELSE EmptyForm
    /\ saves' = IF key = Current THEN saves
                ELSE {[s EXCEPT !.attached = FALSE] : s \in saves}
    /\ lost' = IF key # Current /\ kept.draft # NoDraft THEN how ELSE lost

(* A move through the desk, by the reviewer or by the browser.               *)
Move == moves < MaxMoves /\ moves' = moves + 1

(* guard.leave: nothing while a save is pending; a draft goes only after the *)
(* reviewer confirms (declining is no step). The identity desk just acts.    *)
Leave ==
    /\ desk = "exceptions" => ~Pending
    /\ Move

Discarded ==
    IF desk = "exceptions" THEN [form EXCEPT !.draft = NoDraft] ELSE form

(* A view that comes on the screen: cached data shows at once and is fetched *)
(* again; a fetch already on its way is joined.                              *)
Visit(q, v) ==
    [q EXCEPT ![v].fetch = IF @.stage = "none" THEN Asked("visit") ELSE @]

(* Mutant: a fetch already on its way is always joined.                      *)
RefetchedJoined(q) ==
    IF open /\ connected /\ q[view].fetch.stage = "none"
    THEN [q EXCEPT ![view].fetch = Asked("refresh")] ELSE q

(* refresh: the queue is invalidated. Only the view on the screen is fetched *)
(* now: what is on its way is replaced if there is a page already, and the   *)
(* first fetch of a view is joined.                                          *)
Refetched(q) ==
    IF open /\ connected /\ (q[view].page # NoPage \/ q[view].fetch.stage = "none")
    THEN [q EXCEPT ![view].fetch = Asked("refresh")] ELSE q

(* The first page of the view was read by the API and has not arrived.       *)
FirstPageRead == query[view].page = NoPage /\ query[view].fetch.stage = "read"

----------------------------------------------------------------------------
Init ==
    /\ desk \in Desks
    /\ revision = [r \in Records |-> 0]
    /\ log = {}
    /\ open = TRUE
    /\ connected = TRUE
    /\ view = "attention"
    /\ selected = -1
    /\ query = [v \in Views |-> [page |-> NoPage, error |-> FALSE,
                                 fetch |-> IF v = "attention" THEN Asked("visit") ELSE NoFetch]]
    /\ form = EmptyForm
    /\ saves = {}
    /\ drafts = 0
    /\ moves = 0
    /\ others = 0
    /\ lost = "none"
    /\ own = NoRecord

(* The reviewer picks another record of the page.                            *)
Select(r) ==
    /\ Current # NoRecord
    /\ r # Current.id
    /\ \E x \in query[view].page : x.id = r
    /\ Leave
    /\ selected' = r
    /\ Render(Shown(open, connected, query[view], r), "navigation", Discarded)
    /\ UNCHANGED <<desk, server, open, connected, view, query, drafts, others, own>>

(* Filter, severity, sort order, search, page or Reset.                      *)
ChangeView(v) ==
    /\ open
    /\ connected
    /\ v # view
    /\ Leave
    /\ view' = v
    /\ selected' = -1
    /\ query' = Visit(query, v)
    /\ Render(Shown(open, connected, query[v], -1), "navigation", Discarded)
    /\ own' = NoRecord
    /\ UNCHANGED <<desk, server, open, connected, drafts, others>>

(* Refresh exceptions, Refresh exception after a conflict, Refresh queue.    *)
Refresh ==
    /\ open
    /\ connected
    /\ Leave
    /\ query[view].fetch.stage = "none" \/ form.save = "conflict"
    /\ query' = Refetched(query)
    /\ form' = Discarded
    /\ UNCHANGED <<desk, server, open, connected, view, selected, saves, drafts, others, lost, own>>

(* Another section of the workspace, and back: the queue starts anew, the    *)
(* exception desk with the remembered filters.                               *)
OpenSection ==
    /\ Leave
    /\ open' = ~open
    /\ selected' = -1
    /\ view' = IF desk = "exceptions" THEN view ELSE "attention"
    /\ query' = IF open' /\ connected THEN Visit(query, view') ELSE query
    /\ Render(Shown(open', connected, query[view'], -1), "navigation", Discarded)
    /\ own' = NoRecord
    /\ UNCHANGED <<desk, server, connected, drafts, others>>

(* The browser window gets the focus: the identity desk fetches its queue    *)
(* again.                                                                    *)
Focus ==
    /\ Move
    /\ open
    /\ connected
    /\ desk = "identity"
    /\ query[view].fetch.stage = "none"
    /\ query' = [query EXCEPT ![view].fetch = Asked("focus")]
    /\ UNCHANGED <<desk, server, open, connected, view, selected, form, saves, drafts, others, lost, own>>

(* Organizations and actor are fetched again on focus too; when that fails   *)
(* the queue is taken off the screen, and comes back with the next success.  *)
Session ==
    /\ Move
    /\ open
    /\ connected' = ~connected
    /\ selected' = -1
    /\ view' = IF desk = "exceptions" THEN view ELSE "attention"
    /\ query' = IF connected' THEN Visit(query, view') ELSE query
    /\ Render(Shown(open, connected', query[view'], -1), "session", form)
    /\ own' = NoRecord
    /\ UNCHANGED <<desk, server, open, drafts, others>>

(* The reviewer starts to write: the fields are disabled during a save.      *)
Write ==
    /\ Current # NoRecord
    /\ ~Pending
    /\ form.draft = NoDraft
    /\ drafts < MaxDrafts
    /\ drafts' = drafts + 1
    /\ form' = [form EXCEPT !.draft = [number |-> drafts + 1, home |-> Current]]
    /\ UNCHANGED <<desk, server, open, connected, view, selected, query, saves, moves, others, lost, own>>

(* submit: the request carries the record and the revision of the form.      *)
Submit ==
    /\ Current # NoRecord
    /\ form.draft # NoDraft
    /\ ~Pending
    /\ form.save # "conflict"
    /\ form' = [form EXCEPT !.save = "pending"]
    /\ saves' = saves \cup {[draft |-> form.draft, id |-> Current.id, expected |-> Current.revision,
                             stage |-> "sent", attached |-> TRUE]}
    /\ UNCHANGED <<desk, server, open, connected, view, selected, query, drafts, moves, others, lost, own>>

(* Mutant: the expected revision is not compared.                            *)
HandleBlindly(s) ==
    /\ s.stage = "sent"
    /\ revision[s.id] < MaxRevision
    /\ saves' = (saves \ {s}) \cup {[s EXCEPT !.stage = "ok"]}
    /\ revision' = [revision EXCEPT ![s.id] = @ + 1]
    /\ log' = log \cup {[draft |-> s.draft, id |-> s.id, revision |-> revision[s.id] + 1]}
    /\ UNCHANGED <<desk, open, connected, view, selected, query, form, drafts, moves, others, lost, own>>

(* The API handles a save (MatchReview, ExceptionDesk: the revision check).  *)
Handle(s) ==
    /\ s.stage = "sent"
    /\ LET ok == revision[s.id] = s.expected
       IN  /\ saves' = (saves \ {s}) \cup {[s EXCEPT !.stage = IF ok THEN "ok" ELSE "conflict"]}
           /\ revision' = IF ok THEN [revision EXCEPT ![s.id] = @ + 1] ELSE revision
           /\ log' = IF ok THEN log \cup {[draft |-> s.draft, id |-> s.id, revision |-> s.expected + 1]}
                     ELSE log
    /\ UNCHANGED <<desk, open, connected, view, selected, query, form, drafts, moves, others, lost, own>>

(* Mutant: the answer goes to whatever form is shown.                        *)
AnswerCurrent(s) ==
    /\ s.stage \in {"ok", "conflict"}
    /\ saves' = saves \ {s}
    /\ query' = IF s.stage = "ok" THEN Refetched(query) ELSE query
    /\ form' = IF s.stage = "conflict" THEN [form EXCEPT !.save = "conflict"]
               ELSE [draft |-> IF desk = "exceptions" THEN NoDraft ELSE form.draft,
                     save |-> "settling"]
    /\ own' = IF s.stage = "ok" /\ open /\ connected /\ ~FirstPageRead
              THEN [id |-> s.id, revision |-> s.expected + 1] ELSE own
    /\ UNCHANGED <<desk, server, open, connected, view, selected, drafts, moves, others, lost>>

(* Its answer arrives. onSuccess clears the exception desk's form and        *)
(* refreshes, and the save stays pending until the queue is there; a form    *)
(* that was replaced meanwhile only causes the refresh.                      *)
Answer(s) ==
    /\ s.stage \in {"ok", "conflict"}
    /\ saves' = saves \ {s}
    /\ query' = IF s.stage = "ok" THEN Refetched(query) ELSE query
    /\ form' = IF ~s.attached THEN form
               ELSE IF s.stage = "conflict" THEN [form EXCEPT !.save = "conflict"]
               ELSE [draft |-> IF desk = "exceptions" THEN NoDraft ELSE form.draft,
                     save |-> "settling"]
    /\ own' = IF s.stage = "ok" /\ open /\ connected /\ ~FirstPageRead
              THEN [id |-> s.id, revision |-> s.expected + 1] ELSE own
    /\ UNCHANGED <<desk, server, open, connected, view, selected, drafts, moves, others, lost>>

(* The request or its answer is lost, or the API fails: the draft stays.     *)
Unanswered(s) ==
    /\ saves' = saves \ {s}
    /\ form' = IF s.attached THEN [form EXCEPT !.save = "error"] ELSE form
    /\ UNCHANGED <<desk, server, open, connected, view, selected, query, drafts, moves, others, lost, own>>

Settled ==
    /\ form.save = "settling"
    /\ query[view].fetch.stage = "none"
    /\ form' = [form EXCEPT !.save = "idle"]
    /\ UNCHANGED <<desk, server, open, connected, view, selected, query, saves, drafts, moves, others, lost, own>>

(* The API reads the page of a view.                                         *)
ReadPage(v) ==
    /\ query[v].fetch.stage = "asked"
    /\ query' = [query EXCEPT ![v].fetch.stage = "read", ![v].fetch.page = PageOf(v)]
    /\ UNCHANGED <<desk, server, open, connected, view, selected, form, saves, drafts, moves, others, lost, own>>

(* The page arrives, or its fetch fails and the queue shows an error.        *)
Arrive(v, cached) ==
    /\ query' = [query EXCEPT ![v] = cached]
    /\ IF v = view
       THEN Render(Shown(open, connected, cached, selected), query[v].fetch.cause,
                   IF form.save = "settling" THEN [form EXCEPT !.draft = NoDraft] ELSE form)
       ELSE UNCHANGED <<form, saves, lost>>
    /\ UNCHANGED <<desk, server, open, connected, view, selected, drafts, moves, others, own>>

PageArrives(v) ==
    /\ query[v].fetch.stage = "read"
    /\ Arrive(v, [page |-> query[v].fetch.page, error |-> FALSE, fetch |-> NoFetch])

PageFails(v) ==
    /\ query[v].fetch.stage # "none"
    /\ Arrive(v, [page |-> query[v].page, error |-> TRUE, fetch |-> NoFetch])

(* Another reviewer saves.                                                   *)
OtherSaves(r) ==
    /\ revision[r] < MaxRevision
    /\ others < MaxOthers
    /\ others' = others + 1
    /\ revision' = [revision EXCEPT ![r] = @ + 1]
    /\ UNCHANGED <<desk, log, open, connected, view, selected, query, form, saves, drafts, moves, lost, own>>

Next ==
    \/ \E r \in Records : Select(r) \/ OtherSaves(r)
    \/ \E v \in Views : ChangeView(v) \/ ReadPage(v) \/ PageArrives(v) \/ PageFails(v)
    \/ Refresh \/ OpenSection \/ Focus \/ Session
    \/ Write \/ Submit \/ Settled
    \/ \E s \in saves : Handle(s) \/ Answer(s) \/ Unanswered(s)

Spec == Init /\ [][Next]_vars

----------------------------------------------------------------------------
(* Properties.                                                               *)

(* What a save records is what the reviewer wrote in front of that record at *)
(* that revision, whatever arrived between the writing, the sending and the  *)
(* recording: the form is keyed by record and revision.                      *)
SavedWhereWritten ==
    \A e \in log : e.draft.home = [id |-> e.id, revision |-> e.revision - 1]

(* A draft is recorded at most once, although its answer may be lost and the *)
(* reviewer sends it again.                                                  *)
SavedOnce ==
    \A e, f \in log : e.draft.number = f.draft.number => e = f

(* A form says that its record was changed by somebody else only when the    *)
(* API does have a later revision, whichever form a late answer finds and    *)
(* whatever pages were lost or overtaken: the refresh that follows can help. *)
ConflictIsStale ==
    form.save = "conflict" => /\ Current # NoRecord
                              /\ revision[Current.id] > Current.revision

(* After a confirmed save, once the queue has been fetched, the view the     *)
(* answer found does not show the record at an older revision: a fetch that  *)
(* was on its way before is replaced, unless it is the view's first, which   *)
(* is joined and may have been read before the save.                         *)
OwnSaveShown ==
    (own # NoRecord /\ query[view].fetch.stage = "none" /\ ~query[view].error) =>
        \A x \in query[view].page : x.id = own.id => x.revision >= own.revision

(* docs/guides/exception-desk.md:21: the focus of the window cannot silently *)
(* replace an edited record. The queue is not refetched; organizations and   *)
(* actor are, and when that fails the form goes with its draft.              *)
FocusKeepsDrafts ==
    desk = "exceptions" => lost \notin {"focus", "session"}
=============================================================================
