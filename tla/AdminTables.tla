---------------------------- MODULE AdminTables ----------------------------
(***************************************************************************)
(* A page that lists a collection of the backend: the pages of             *)
(* apps/admin-fe and the dashboard of apps/auditing-fe.  It loads the rows *)
(* of a view (a filter and a page number), loads again when the view       *)
(* changes, and has dialogs that change the collection and then reload it. *)
(* Other administrators change the collection meanwhile, and the answers   *)
(* to its requests arrive in any order.                                    *)
(***************************************************************************)
EXTENDS Naturals, FiniteSets, Sequences, Functions, ElectionStatus

CONSTANTS
    Pages,         \* the pages looked at
    Collection,    \* by page: the items of its collection, numbered in their order
    PageSize,
    StatusesUsed,  \* the statuses elections take
    Extra,         \* names for the requests that nothing aborts
    MaxChanges,    \* bound on changes of the collection and failures of loads
    MaxDialogs     \* bound on the dialogs open or waiting at once

ASSUME ItemsAreNumbers == \A k \in Pages : Collection[k] \subseteq Nat \ {0}
ASSUME CollectionsAreFinite == \A k \in Pages : IsFiniteSet(Collection[k])
ASSUME PageSizeType == PageSize \in Nat \ {0}
ASSUME StatusesUsedKnown == StatusesUsed \subseteq Statuses /\ "draft" \in StatusesUsed
ASSUME ExtraAreNames == Extra \intersect {"effect", "more", "table"} = {}
ASSUME MaxChangesIsNat == MaxChanges \in Nat

VARIABLES
    kind,     \* which page it is
    item,     \* by item: its class, or "gone"
    changes,
    view,     \* the filter and page in the address bar
    table,    \* the rows on the screen, the view they belong to, the request
              \* that brought them, where they go on, loading and error
    load,     \* the requests for rows, by slot
    crossed,  \* whether two of them were under way at once
    since,    \* by answer, and for the table: the items that were there ever
              \* since its rows were read
    dialog,   \* by operation: its dialog
    other,    \* another administrator's request that was checked, not written
    lately    \* an observation, for elections: the statuses the election of a
              \* request has had since the request was sent

backend   == <<item, changes, other, lately>>
tableVars == <<kind, backend, view, table, load, crossed, since, dialog>>

Items == Collection[kind]

-----------------------------------------------------------------------------
(* The pages: the classes of their rows, the class of a new one, the       *)
(* filters that are looked at, the one the page opens with, what can be    *)
(* done, whether there are pages, and whether the view is in the address   *)
(* (then Back changes it under a dialog).                                  *)

electionsPage ==
    [classes |-> StatusesUsed, first |-> "draft",
     filters |-> {"all", "draft"}, opened |-> "all",
     operations |-> {"delete", "update status", "edit", "create"},
     paged |-> TRUE, inAddress |-> TRUE]

usersPage ==
    [classes |-> {"voters", "admins"}, first |-> "voters",
     filters |-> {"voters", "admins"}, opened |-> "voters",
     operations |-> {"create"}, paged |-> TRUE, inAddress |-> TRUE]

approvalsPage ==
    [classes |-> {"pending", "approved", "rejected"}, first |-> "pending",
     filters |-> {"pending", "all"}, opened |-> "pending",
     operations |-> {"approve", "reject"}, paged |-> FALSE, inAddress |-> TRUE]

candidatesTable ==
    [classes |-> {"listed"}, first |-> "listed",
     filters |-> {"all"}, opened |-> "all",
     operations |-> {"create", "edit", "delete"}, paged |-> TRUE, inAddress |-> FALSE]

(* Nothing opens the dialog that grants a voter.                           *)
votersTable ==
    [classes |-> {"eligible", "voted"}, first |-> "eligible",
     filters |-> {"all"}, opened |-> "all",
     operations |-> {"revoke"}, paged |-> FALSE, inAddress |-> FALSE]

dashboardPage ==
    [classes |-> {"active", "ended"}, first |-> "active",
     filters |-> {"all", "active"}, opened |-> "all",
     operations |-> {}, paged |-> TRUE, inAddress |-> FALSE]

site == [elections |-> electionsPage, users |-> usersPage,
         approvals |-> approvalsPage, candidates |-> candidatesTable,
         voters |-> votersTable, dashboard |-> dashboardPage]

ASSUME PagesKnown == Pages \subseteq DOMAIN site

here == site[kind]

(* Whole pages of the elections section, which replace the list.           *)
Forms == IF kind = "elections" THEN {"edit", "create"} ELSE {}

STATUS_TRANSITIONS ==
    [from \in Statuses |->
        CASE from = "draft" -> {"enrolling_voters"}
          [] from = "enrolling_voters" -> {"scheduled", "paused"}
          [] from = "scheduled" -> {"active", "paused"}
          [] from = "active" -> {"ended", "paused"}
          [] from = "ended" -> {"archived"}
          [] OTHER -> {}]

-----------------------------------------------------------------------------
(* Another filter starts on its first page.                                *)
Views(k) ==
    [filter : site[k].filters, page : {1}]
    \union (IF site[k].paged THEN {[filter |-> site[k].opened, page |-> 2]} ELSE {})

NoView == [filter |-> "none", page |-> 1]
AnyView == {NoView} \union UNION {Views(k) : k \in Pages}
AnyClass == {"gone"} \union UNION {site[k].classes : k \in Pages}

NoRow == [item |-> 0, class |-> "gone"]
Row == [item : Items, class : AnyClass]

Slots == {"effect", "more"} \union Extra
NoLoad == [at |-> "none", by |-> "effect", view |-> NoView, after |-> 0,
           rows |-> <<>>, next |-> 0]
Asked(by, v, after) ==
    [NoLoad EXCEPT !.at = "sent", !.by = by, !.view = v, !.after = after]

(* What is on the screen: rows are forgotten while there are none on it.   *)
Loading == [rows |-> <<>>, of |-> NoView, by |-> "effect", next |-> 0,
            loading |-> TRUE, error |-> FALSE]
Failed(loading) == [Loading EXCEPT !.loading = loading, !.error = TRUE]

Closed == [at |-> "closed", shown |-> FALSE, item |-> 0, class |-> "gone",
           to |-> "gone", view |-> NoView]
NoRequest == [item |-> 0, to |-> "gone"]

TableType ==
    [rows : Seq(Row), of : AnyView, by : {"effect", "reload"},
     next : Items \union {0}, loading : BOOLEAN, error : BOOLEAN]
LoadType ==
    [at : {"none", "sent", "answered"}, by : {"effect", "reload"}, view : AnyView,
     after : Items \union {0}, rows : Seq(Row), next : Items \union {0}]
DialogType ==
    [at : {"closed", "open", "sent", "writing", "done"}, shown : BOOLEAN,
     item : Items \union {0}, class : AnyClass, to : AnyClass, view : AnyView]
RequestType == [item : Items \union {0}, to : AnyClass]

TableTypeOK ==
    /\ kind \in Pages
    /\ item \in [Items -> here.classes \union {"gone"}]
    /\ changes \in 0 .. MaxChanges
    /\ view \in Views(kind)
    /\ table \in TableType
    /\ load \in [Slots -> LoadType]
    /\ crossed \in BOOLEAN
    /\ since \in [Slots \union {"table"} -> SUBSET Items]
    /\ dialog \in [here.operations -> DialogType]
    /\ other \in RequestType
    /\ lately \in [here.operations \union {"other"} -> SUBSET AnyClass]

TableInit ==
    /\ kind \in Pages
    /\ item \in [Items -> {here.first, "gone"}]
    /\ changes = 0
    /\ view = [filter |-> here.opened, page |-> 1]
    /\ table = Loading
    /\ load = [s \in Slots |-> IF s = "effect" THEN Asked("effect", view, 0) ELSE NoLoad]
    /\ crossed = FALSE
    /\ since = [s \in Slots \union {"table"} |-> {}]
    /\ dialog = [op \in here.operations |-> Closed]
    /\ other = NoRequest
    /\ lately = [r \in here.operations \union {"other"} |-> {}]

present == {i \in Items : item[i] # "gone"}
Shown == ~table.loading /\ ~table.error
Covered == \E op \in DOMAIN dialog : dialog[op].shown
OnForm == \E op \in Forms : dialog[op].at # "closed"
Free == {s \in Extra : load[s].at = "none"}

(* Two requests under way at once, until a full answer comes alone.        *)
Crosses(loads) == \E s, u \in Slots : s # u /\ loads[s].at # "none" /\ loads[u].at # "none"

Send(loads) ==
    /\ load' = loads
    /\ crossed' = (crossed \/ (kind = "voters" /\ Crosses(loads)))

-----------------------------------------------------------------------------
(* Loading                                                                 *)

NeverAborts == FALSE

(* The dashboard's effect does not abort what it asked for before.         *)
AbortsTheLast == kind # "dashboard"

(* An abort is not an error, but one that meets the body of an answer is.  *)
ChangeView(v) ==
    /\ v # view /\ ~OnForm
    /\ Covered => here.inAddress
    /\ view' = v
    /\ IF ~AbortsTheLast /\ load["effect"].at # "none"
       THEN /\ \E s \in Free : Send([load EXCEPT ![s] = load["effect"],
                                                 !["effect"] = Asked("effect", v, 0)])
            /\ table' = [Loading EXCEPT !.error = table.error /\ v.filter = view.filter]
       ELSE /\ Send([load EXCEPT !["effect"] = Asked("effect", v, 0)])
            /\ table' \in {Loading} \union
                   (IF load["effect"].at = "answered" THEN {Failed(FALSE)} ELSE {})
    /\ UNCHANGED <<kind, backend, since, dialog>>

(* load without a signal.                                                  *)
Reload(v) ==
    /\ \E s \in Free : Send([load EXCEPT ![s] = Asked("reload", v, 0)])
    /\ table' = Loading

Retry ==
    /\ table.error /\ ~table.loading /\ ~Covered /\ kind # "dashboard"
    /\ Reload(view)
    /\ UNCHANGED <<kind, backend, view, since, dialog>>

loadMore ==
    /\ kind = "voters" /\ Shown /\ ~Covered
    /\ table.next # 0 /\ load["more"].at = "none"
    /\ Send([load EXCEPT !["more"] = Asked("effect", view, table.next)])
    /\ UNCHANGED <<kind, backend, view, table, since, dialog>>

(* ORDER BY                                                                *)
InOrder(items) ==
    CHOOSE s \in [1 .. Cardinality(items) -> items] :
        \A n, m \in DOMAIN s : n < m => s[n] < s[m]

InclusiveKeyset(after) == InOrder({i \in present : i >= after})

(* Voters in their order (createdAt, id): those after the cursor.          *)
Keyset(after) == InOrder({i \in present : i > after})

Matching(filter) == InOrder({i \in present : filter = "all" \/ item[i] = filter})

FirstOf(s, n) == SubSeq(s, 1, IF Len(s) < n THEN Len(s) ELSE n)
RowsOf(s) == [n \in DOMAIN s |-> [item |-> s[n], class |-> item[s[n]]]]

(* One more row than asked for tells whether there is another page.        *)
paginateRows(s, asked) ==
    [asked EXCEPT !.at = "answered", !.rows = RowsOf(FirstOf(s, PageSize)),
                  !.next = IF Len(s) > PageSize THEN s[PageSize] ELSE 0]

(* limit and offset                                                        *)
OffsetPage(s, asked) ==
    [asked EXCEPT !.at = "answered",
        !.rows = LET from == (asked.view.page - 1) * PageSize IN
                 RowsOf(FirstOf(SubSeq(s, from + 1, Len(s)), PageSize))]

Answer(s) ==
    /\ load[s].at = "sent"
    /\ load' = [load EXCEPT ![s] =
           IF kind = "voters" THEN paginateRows(Keyset(@.after), @)
                              ELSE OffsetPage(Matching(@.view.filter), @)]
    /\ since' = IF kind = "voters" THEN [since EXCEPT ![s] = present] ELSE since
    /\ UNCHANGED <<kind, backend, view, table, crossed, dialog>>

Left(s) == [load EXCEPT ![s] = NoLoad]
Calms(s) ==
    crossed' = (crossed /\ (s = "more" \/ \E u \in Slots : Left(s)[u].at # "none"))

ArriveSpinning(s) ==
    /\ load[s].at = "sent"
    /\ changes < MaxChanges /\ changes' = changes + 1
    /\ load' = Left(s)
    /\ UNCHANGED <<kind, item, other, lately, view, table, since, dialog, crossed>>

ArriveFailed(s) ==
    /\ load[s].at = "sent"
    /\ changes < MaxChanges /\ changes' = changes + 1
    /\ load' = Left(s) /\ Calms(s)
    /\ table' = Failed(table.loading /\ s = "more")
    /\ UNCHANGED <<kind, item, other, lately, view, since, dialog>>

(* Success leaves an error standing, except on the dashboard.              *)
Arrive(s) ==
    /\ load[s].at = "answered"
    /\ load' = Left(s) /\ Calms(s)
    /\ since' = [since EXCEPT !["table"] = IF s = "more" THEN @ ELSE since[s],
                              ![s] = {}]
    /\ table' =
           IF table.error /\ kind # "dashboard"
           THEN Failed(table.loading /\ s = "more")
           ELSE IF s = "more"
           THEN [table EXCEPT !.rows = @ \o load[s].rows, !.next = load[s].next]
           ELSE [Loading EXCEPT !.rows = load[s].rows, !.of = load[s].view,
                    !.by = load[s].by, !.next = load[s].next, !.loading = FALSE]
    /\ UNCHANGED <<kind, backend, view, dialog>>

-----------------------------------------------------------------------------
(* Dialogs                                                                 *)

Dialog(op, d) == dialog' = [dialog EXCEPT ![op] = d]

(* A row offers what its class allows.                                     *)
Offered(op, class) ==
    CASE op \in {"approve", "reject"} -> class = "pending"
      [] op = "revoke"                -> class # "voted"
      [] op = "update status"         -> STATUS_TRANSITIONS[class] # {}
      [] OTHER                        -> TRUE

(* Setting a state that is set already opens nothing: the dialog that was  *)
(* closed under its request stays away once the request has failed.        *)
OpenDialog(op, row) ==
    /\ op \notin Forms /\ ~Covered /\ ~OnForm
    /\ IF op = "create" THEN row = NoRow /\ (kind = "users" => view.filter = "admins")
       ELSE Shown /\ row \in Range(table.rows) /\ Offered(op, row.class)
    /\ dialog[op].at = "closed"
    /\ Cardinality({o \in DOMAIN dialog : dialog[o].at # "closed"}) < MaxDialogs
    /\ Dialog(op, [Closed EXCEPT !.at = "open", !.shown = TRUE, !.item = row.item,
           !.class = IF op = "update status" THEN row.class ELSE @])
    /\ UNCHANGED <<kind, backend, view, table, load, crossed, since>>

(* The edit page reads the election again; the list is gone meanwhile.     *)
OpenForm(op, i) ==
    /\ op \in Forms /\ ~OnForm /\ ~Covered
    /\ IF op = "edit" THEN i \in present ELSE i = 0
    /\ dialog' = [o \in DOMAIN dialog |->
           IF o # op THEN Closed
           ELSE [Closed EXCEPT !.at = "open", !.shown = TRUE, !.item = i,
                    !.class = IF i = 0 THEN here.first ELSE item[i]]]
    /\ table' = Loading
    /\ load' = [s \in Slots |-> NoLoad] /\ crossed' = FALSE
    /\ lately' = [r \in DOMAIN lately |-> IF r = "other" THEN lately[r] ELSE {}]
    /\ UNCHANGED <<kind, item, changes, other, view, since>>

Opened == [s \in Slots |-> IF s = "effect" THEN Asked("effect", view, 0) ELSE NoLoad]

(* A form goes back to the list.  A dialog that waits is only hidden.      *)
Dismiss(op) ==
    /\ dialog[op].shown
    /\ IF op \in Forms
       THEN dialog[op].at = "open" /\ Dialog(op, Closed) /\ Send(Opened)
       ELSE /\ Dialog(op, IF dialog[op].at = "open" THEN Closed
                          ELSE [dialog[op] EXCEPT !.shown = FALSE])
            /\ UNCHANGED <<load, crossed>>
    /\ UNCHANGED <<kind, backend, view, table, since>>

(* The reload that follows is the one of the view at this moment.          *)
Confirm(op) ==
    /\ dialog[op].at = "open" /\ dialog[op].shown
    /\ \E to \in (CASE op = "update status" -> STATUS_TRANSITIONS[dialog[op].class]
                    [] op \in Forms -> StatusesUsed
                    [] OTHER -> {"gone"}) \intersect (here.classes \union {"gone"}) :
           Dialog(op, [dialog[op] EXCEPT !.at = "sent", !.to = to, !.view = view])
    /\ lately' = [lately EXCEPT ![op] =
           IF kind = "elections" /\ dialog[op].item \in Items
           THEN {item[dialog[op].item]} ELSE {}]
    /\ UNCHANGED <<kind, item, changes, other, view, table, load, crossed, since>>

-----------------------------------------------------------------------------
(* The backend.  A removal, and a change of an election or a candidate, is *)
(* checked against the row as it is read, and then written with no         *)
(* condition; the other operations are one statement.                      *)

MovesAsSeen(i, class, to) == to \in TRANSITIONS[class]

(* assertValidTransition looks at the row it read, not at the page's.      *)
Moves(i, class, to) == to \in TRANSITIONS[item[i]]

Accepts(i, class, to) ==
    /\ i \in present
    /\ CASE kind \notin {"elections", "dashboard"} -> item[i] # "voted"
         [] to = "gone" -> item[i] # "active"
         [] OTHER       -> Moves(i, class, to)

(* A row that was deleted meanwhile stays deleted.                         *)
Rewritten(i, to) == [item EXCEPT ![i] = IF @ = "gone" THEN @ ELSE to]

Count == changes < MaxChanges /\ changes' = changes + 1

Subject(r) == IF r = "other" THEN other.item ELSE dialog[r].item

(* The collection changes, and with it the request r is done.              *)
Becomes(collection, r) ==
    /\ item' = collection
    /\ since' = [s \in DOMAIN since |-> {i \in since[s] : collection[i] # "gone"}]
    /\ lately' = [q \in DOMAIN lately |->
           IF q = r \/ lately[q] = {} THEN {}
           ELSE lately[q] \union {collection[Subject(q)]}]

Again(d) == IF d.shown THEN [d EXCEPT !.at = "open", !.to = "gone", !.view = NoView]
                       ELSE [Closed EXCEPT !.at = "open"]

(* Its answer may be lost, which opens the dialog again.                   *)
Answered(op) ==
    Dialog(op, [dialog[op] EXCEPT !.at = "done"]) \/ Dialog(op, Again(dialog[op]))

AtOnce == {"create", "approve", "reject"}

(* What an operation of one statement makes of the collection              *)
Effect(op, d) ==
    IF op = "create"
    THEN {[item EXCEPT ![i] = IF kind = "elections" THEN d.to
                              ELSE IF kind = "users" THEN "admins" ELSE "listed"] :
              i \in Items \ present}
    ELSE {[item EXCEPT ![d.item] = IF op = "approve" THEN "approved" ELSE "rejected"]}

Perform(op) ==
    /\ op \in AtOnce /\ dialog[op].at = "sent" /\ Count
    /\ \E collection \in Effect(op, dialog[op]) : Becomes(collection, op)
    /\ Answered(op)
    /\ UNCHANGED <<kind, other, view, table, load, crossed>>

Check(op) ==
    /\ op \notin AtOnce /\ dialog[op].at = "sent" /\ Count
    /\ Accepts(dialog[op].item, dialog[op].class, dialog[op].to)
    /\ Dialog(op, [dialog[op] EXCEPT !.at = "writing"])
    /\ UNCHANGED <<kind, item, other, lately, view, table, load, crossed, since>>

(* The edit of a candidate changes nothing its row is listed by.           *)
Write(op) ==
    /\ dialog[op].at = "writing"
    /\ Becomes(IF kind = "candidates" /\ op = "edit" THEN item
               ELSE Rewritten(dialog[op].item, dialog[op].to), op)
    /\ Answered(op)
    /\ UNCHANGED <<kind, changes, other, view, table, load, crossed>>

(* Refused, or lost on the way, or its write fails.                        *)
Refuse(op) ==
    /\ \/ dialog[op].at = "writing"
       \/ /\ dialog[op].at = "sent"
          /\ \/ changes = MaxChanges
             \/ op \in AtOnce /\ Effect(op, dialog[op]) = {}
             \/ op \notin AtOnce
                /\ ~Accepts(dialog[op].item, dialog[op].class, dialog[op].to)
    /\ Dialog(op, Again(dialog[op]))
    /\ lately' = [lately EXCEPT ![op] = {}]
    /\ UNCHANGED <<kind, item, changes, other, view, table, load, crossed, since>>

Performed(op) ==
    /\ dialog[op].at = "done"
    /\ Dialog(op, Closed)
    /\ IF op \in Forms THEN Send(Opened) /\ UNCHANGED table
                       ELSE Reload(dialog[op].view)
    /\ UNCHANGED <<kind, backend, view, since>>

(* Administrators who create, voters who enrol or vote, auditors who apply *)
(* and administrators who approve them: one statement each.                *)
OtherWritesAtOnce(i, class) ==
    /\ \/ i \notin present /\ class = here.first
       \/ i \in present /\ kind = "voters" /\ class = "voted"
       \/ i \in present /\ kind = "approvals" /\ class \in {"approved", "rejected"}
    /\ class # item[i] /\ Count
    /\ Becomes([item EXCEPT ![i] = class], "none")
    /\ UNCHANGED other

(* Another administrator's change or removal is checked and then written.  *)
OtherChecks(i, to) ==
    /\ other = NoRequest
    /\ to # item[i] /\ (to = "gone" \/ kind \in {"elections", "dashboard"})
    /\ kind \notin {"users", "approvals"}
    /\ Accepts(i, item[i], to) /\ Count
    /\ other' = [item |-> i, to |-> to]
    /\ lately' = [lately EXCEPT !["other"] = IF kind = "elections" THEN {item[i]} ELSE {}]
    /\ UNCHANGED <<item, since>>

OtherWrites ==
    /\ other # NoRequest /\ other' = NoRequest
    /\ Becomes(Rewritten(other.item, other.to), "other")
    /\ UNCHANGED changes

Others ==
    /\ \/ OtherWrites
       \/ \E i \in Items, class \in here.classes \union {"gone"} :
             OtherWritesAtOnce(i, class) \/ OtherChecks(i, class)
    /\ UNCHANGED <<kind, view, table, load, crossed, dialog>>

-----------------------------------------------------------------------------
TableAnswers ==
    \/ \E s \in Slots : Answer(s) \/ ArriveFailed(s) \/ Arrive(s)
    \/ \E op \in DOMAIN dialog :
          Perform(op) \/ Check(op) \/ Write(op) \/ Refuse(op) \/ Performed(op)

AdminActs ==
    \/ \E v \in Views(kind) : ChangeView(v)
    \/ Retry \/ loadMore
    \/ \E op \in DOMAIN dialog :
          \/ Dismiss(op) \/ Confirm(op)
          \/ OpenDialog(op, NoRow)
          \/ \E row \in Range(table.rows) : OpenDialog(op, row)
          \/ \E i \in Items \union {0} : OpenForm(op, i)

-----------------------------------------------------------------------------
(* Rows of another view than the chosen one are only ever those of a       *)
(* reload after a mutation or an error, which nothing aborts: what an      *)
(* effect asked for before does not show.  (The dashboard aborts nothing.) *)
SupersededNeverShows ==
    Shown /\ table.of # view => table.by = "reload" \/ kind = "dashboard"

(* Pages of voters that are loaded one by one while voters enrol and are   *)
(* revoked list nobody twice and, once there are no more, miss nobody who  *)
(* was there all the time, unless a reload met another page on its way.    *)
VotersListedOnce ==
    kind = "voters" /\ Shown /\ ~crossed =>
        LET listed == [n \in DOMAIN table.rows |-> table.rows[n].item] IN
        /\ \A n, m \in DOMAIN listed : n < m => listed[n] < listed[m]
        /\ table.next = 0 => since["table"] \subseteq Range(listed)

Legal(from, to) ==
    from # "gone" /\ IF to = "gone" THEN from # "active" ELSE to \in TRANSITIONS[from]

(* An election only changes by a request under way that takes it where it  *)
(* could go from a status it had after that request was sent: a dialog     *)
(* over an outdated row, or a form that was opened long ago, decides       *)
(* nothing.  (Two requests that overlap may still part it from the table   *)
(* of transitions: Ballots.)                                               *)
MovesFromRecentStatus ==
    [][kind = "elections" => \A i \in present :
           \/ item'[i] = item[i]
           \/ \E r \in DOMAIN lately : Subject(r) = i
                 /\ \E from \in lately[r] : Legal(from, item'[i])]_tableVars

NothingSpins ==
    /\ table.loading => OnForm
    /\ \A op \in DOMAIN dialog : dialog[op].at \notin {"sent", "writing", "done"}

=============================================================================
