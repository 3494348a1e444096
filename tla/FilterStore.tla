----------------------------- MODULE FilterStore -----------------------------
(***************************************************************************)
(* The stored filters of one user for one table (FilterConfiguration), the *)
(* requests which read and write them (FilterConfigController, and         *)
(* getCurrent and persistCurrentInDefault of FilterConfig) and the browser *)
(* tabs which send these requests (filter_configuration_selector).         *)
(*                                                                         *)
(* Every request is a list of database calls: each one is a transaction of *)
(* its own and the requests interleave between them.  A request works on   *)
(* the beans it has read; the version column (lastUpdate) refuses the save *)
(* of a bean whose row was written since it was read.  The version is      *)
(* assumed to tell any two writes of a row apart.                          *)
(***************************************************************************)
EXTENDS Integers, Sequences, FiniteSets

CONSTANTS
    Tabs,         \* the browser tabs of the user which show the table
    Confs,        \* the table configurations the properties tell apart
    Initial,      \* the configuration coded in the table itself
    Outdated,     \* the configurations the table cannot parse any more
    MaxRows,      \* bound: rows ever inserted
    MaxRequests   \* bound: requests ever sent

ASSUME ConfsAssumption == Initial \in Confs /\ Outdated \subseteq Confs \ {Initial}
\* There is room for the rows of Init.
ASSUME BoundsAssumption == MaxRows \in Nat /\ MaxRows >= 3 /\ MaxRequests \in Nat

VARIABLES
    rows,      \* the table filter_configuration, in the order of the inserts
    job,       \* what each request slot of each tab is doing on the server
    view,      \* the selector area of each tab
    overlap,   \* history: whether requests have run at the same time
    requests   \* history: how many requests were sent

vars == <<rows, job, view, overlap, requests>>

-----------------------------------------------------------------------------
(* State *)

Row == [live: BOOLEAN, default: BOOLEAN, selected: BOOLEAN, conf: Confs]

NoRow == 0
RowIds == 1..MaxRows

\* A bean: the row as it was read, and whether nobody has written it since.
Beans == [id: RowIds, row: Row, fresh: BOOLEAN]
NoBean == [id |-> NoRow]
Slots == {"target", "old", "default"}

\* A tab has at most one request of the selector in flight (its area shows a
\* waiting icon) and one of the table (the page itself, or a refresh).
Lanes == {"selector", "table"}
Requests == Tabs \X Lanes

\* The database calls of each request, in the order of the code.
Program == [
    Create     |-> <<"readSelected", "deselect", "readDefault", "insert", "answer">>,
    Save       |-> <<"readTarget", "readDefault", "saveConf", "answer">>,
    Clear      |-> <<"readSelected", "deselect", "readDefault", "deleteDefault", "answer">>,
    Change     |-> <<"readTarget", "readSelected", "deselect", "select",
                     "readDefault", "copyToDefault", "answer">>,
    Edit       |-> <<"readTarget", "rename", "answer">>,
    Delete     |-> <<"readTarget", "readDefault", "deleteTarget", "answer">>,
    Page       |-> <<"readDefault", "insertDefault", "readSelected", "reset", "answer">>,
    SharedPage |-> <<"readDefault", "insertDefault", "readShared", "copyToDefault",
                     "readSelected", "deselect", "answer">>,
    Persist    |-> <<"readDefault", "store", "reset", "answer">>]

Ops == DOMAIN Program
SelectorOps == {"Create", "Save", "Clear", "Change", "Edit", "Delete"}
Selecting == {"Create", "Change"}

Idle == [op |-> "none"]
InFlight(q) == job[q] /= Idle

\* A request: the call it is about to make, and the beans it has read.
Jobs == [op: Ops, at: Nat \ {0}, arg: RowIds \cup Confs \cup {NoRow},
         beans: [Slots -> Beans \cup {NoBean}]]

\* Which call a request is about to make.
At(q, step) == InFlight(q) /\ Program[job[q].op][job[q].at] = step

Closed == [state |-> "closed", shown |-> NoRow, items |-> {}]

TypeOK ==
    /\ rows \in Seq(Row) /\ Len(rows) <= MaxRows
    /\ job \in [Requests -> Jobs \cup {Idle}]
    /\ \A q \in Requests : InFlight(q) => job[q].at <= Len(Program[job[q].op])
    /\ view \in [Tabs -> [state: {"closed", "wait", "ready"},
                          shown: RowIds \cup {NoRow}, items: SUBSET RowIds]]
    /\ overlap \in {"never", "some", "selecting"}
    /\ requests \in 0..MaxRequests

-----------------------------------------------------------------------------
(* The queries of FilterConfiguration.  findUnique throws when the query   *)
(* has more than one answer.                                               *)

Live == {i \in DOMAIN rows : rows[i].live}
Defaults == {i \in Live : rows[i].default}
Selected == {i \in Live : rows[i].selected}
SelectedOrDefault == IF Selected = {} THEN Defaults ELSE Selected

\* getAvailableFilterConfiguration, without the default: what the area lists.
Available == Live \ Defaults

IsUnique(found) == Cardinality(found) <= 1

Bean(found) ==
    IF found = {} THEN NoBean
    ELSE LET i == CHOOSE i \in found : TRUE
         IN [id |-> i, row |-> rows[i], fresh |-> TRUE]

-----------------------------------------------------------------------------
(* One call of a request *)

\* Variant: the two methods are not synchronized.
MayEnterUnlocked(q) == TRUE

\* getCurrent and persistCurrentInDefault are synchronized on the template
\* of the table: only one request at a time is past its first call.
MayEnter(q) ==
    q[2] = "table" =>
        \A p \in Requests \ {q} :
            p[2] = "table" /\ InFlight(p) => job[p].at = 1

Does(q, step) == At(q, step) /\ MayEnter(q)

Of(q, slot) == job[q].beans[slot]
Step(j) == [j EXCEPT !.at = @ + 1]
Advance(q) == job' = [job EXCEPT ![q] = Step(@)]

\* The request throws: the actions of the controller answer 500 (the selector
\* area keeps its waiting icon until the page is reloaded), the page is an
\* error page, a refresh shows a message.
Fails(q) ==
    /\ job' = [job EXCEPT ![q] = Idle]
    /\ view' = IF job[q].op \in {"Page", "SharedPage"}
               THEN [view EXCEPT ![q[1]] = Closed] ELSE view
    /\ UNCHANGED <<rows, overlap, requests>>

Reads(q, slot, found) ==
    IF IsUnique(found)
    THEN /\ job' = [job EXCEPT ![q] = Step([@ EXCEPT !.beans[slot] = Bean(found)])]
         /\ UNCHANGED <<rows, view, overlap, requests>>
    ELSE Fails(q)

\* Variant: there is no version column.
OutrunUnversioned(bean) == FALSE

\* A bean whose row was written by somebody else since it was read.
Outrun(bean) == ~bean.fresh

\* The beans of a request once the row i is written through another bean.
Aged(beans, i) ==
    [s \in Slots |-> IF beans[s].id = i THEN [beans[s] EXCEPT !.fresh = FALSE]
                                        ELSE beans[s]]

Writes(q, slot, row) ==
    LET bean == Of(q, slot) IN
    IF Outrun(bean) THEN Fails(q)
    ELSE /\ rows' = [rows EXCEPT ![bean.id] = row]
         /\ job' = [p \in Requests |->
                IF ~InFlight(p) THEN job[p]
                ELSE LET aged == [job[p] EXCEPT !.beans = Aged(@, bean.id)]
                     IN IF p /= q THEN aged
                        ELSE Step([aged EXCEPT !.beans[slot] =
                                     [bean EXCEPT !.row = row]])]
         /\ UNCHANGED <<view, overlap, requests>>

\* save() of a bean none of whose properties changed does nothing.
Saves(q, slot, row) ==
    IF row = Of(q, slot).row
    THEN Advance(q) /\ UNCHANGED <<rows, view, overlap, requests>>
    ELSE Writes(q, slot, row)

Inserts(q, slot, row) ==
    /\ Len(rows) < MaxRows
    /\ rows' = Append(rows, row)
    /\ job' = [job EXCEPT ![q] = Step([@ EXCEPT !.beans[slot] =
                   [id |-> Len(rows) + 1, row |-> row, fresh |-> TRUE]])]
    /\ UNCHANGED <<view, overlap, requests>>

-----------------------------------------------------------------------------
(* The calls *)

\* getById: a filter deleted in between is null, which throws; so does a
\* default one, which Save, Edit and Delete forbid.
ReadTarget(q) ==
    /\ Does(q, "readTarget")
    /\ LET id == job[q].arg IN
       IF id \in Live /\ (job[q].op = "Change" \/ ~rows[id].default)
       THEN Reads(q, "target", {id}) ELSE Fails(q)

\* getSelectedFilterConfiguration.  Change and Clear use the answer without
\* a test for null; a page whose configuration is outdated shows the default
\* filter in its place.
ReadSelected(q) ==
    /\ Does(q, "readSelected")
    /\ CASE SelectedOrDefault = {} /\ job[q].op \in {"Change", "Clear"} -> Fails(q)
         [] /\ job[q].op = "Page" /\ IsUnique(SelectedOrDefault)
            /\ Of(q, "default").row.conf \in Outdated ->
                Reads(q, "old", {Of(q, "default").id})
         [] OTHER -> Reads(q, "old", SelectedOrDefault)

\* Variant: creating a filter leaves the one which was selected as it is.
DeselectUnlessCreate(q) ==
    /\ Does(q, "deselect")
    /\ IF Of(q, "old") = NoBean \/ job[q].op = "Create"
       THEN Advance(q) /\ UNCHANGED <<rows, view, overlap, requests>>
       ELSE Saves(q, "old", [Of(q, "old").row EXCEPT !.selected = FALSE])

\* The default filter is never selected: for it this save changes nothing.
Deselect(q) ==
    /\ Does(q, "deselect")
    /\ IF Of(q, "old") = NoBean
       THEN Advance(q) /\ UNCHANGED <<rows, view, overlap, requests>>
       ELSE Saves(q, "old", [Of(q, "old").row EXCEPT !.selected = FALSE])

Select(q) ==
    /\ Does(q, "select")
    /\ LET row == Of(q, "target").row IN
       Saves(q, "target", [row EXCEPT !.selected = ~row.default])

\* Null is tested by getCurrent only; for Delete it is the rendering of the
\* answer which throws.  Change to the default filter does not read it again.
ReadDefault(q) ==
    /\ Does(q, "readDefault")
    /\ IF job[q].op = "Change" /\ Of(q, "target").row.default
       THEN Advance(q) /\ UNCHANGED <<rows, view, overlap, requests>>
       ELSE IF Defaults = {} /\ job[q].op \in {"Create", "Save", "Clear", "Change", "Persist"}
       THEN Fails(q) ELSE Reads(q, "default", Defaults)

InsertDefault(q) ==
    /\ Does(q, "insertDefault")
    /\ IF Of(q, "default") /= NoBean
       THEN Advance(q) /\ UNCHANGED <<rows, view, overlap, requests>>
       ELSE Inserts(q, "default", [live |-> TRUE, default |-> TRUE,
                                   selected |-> FALSE, conf |-> Initial])

\* Variant: the new filter is given no configuration.
InsertWithoutConf(q) ==
    /\ Does(q, "insert")
    /\ Inserts(q, "target", [live |-> TRUE, default |-> FALSE, selected |-> TRUE,
                             conf |-> "null"])

Insert(q) ==
    /\ Does(q, "insert")
    /\ Inserts(q, "target", [live |-> TRUE, default |-> FALSE, selected |-> TRUE,
                             conf |-> Of(q, "default").row.conf])

SaveConf(q) ==
    /\ Does(q, "saveConf")
    /\ Saves(q, "target", [Of(q, "target").row EXCEPT
                             !.conf = Of(q, "default").row.conf])

\* Variant: the configurations are copied the other way round.
CopyFromDefault(q) ==
    /\ Does(q, "copyToDefault")
    /\ Saves(q, "target", [Of(q, "target").row EXCEPT
                             !.conf = Of(q, "default").row.conf])

\* The configuration of the selected, or of the shared, filter becomes the
\* one of the default filter.
CopyToDefault(q) ==
    /\ Does(q, "copyToDefault")
    /\ LET target == Of(q, "target").row IN
       IF target.default
       THEN Advance(q) /\ UNCHANGED <<rows, view, overlap, requests>>
       ELSE Saves(q, "default", [Of(q, "default").row EXCEPT !.conf = target.conf])

\* The name is not modelled: a new one is always a change of the row.
Rename(q) == Does(q, "rename") /\ Writes(q, "target", Of(q, "target").row)

DeleteTarget(q) ==
    /\ Does(q, "deleteTarget")
    /\ Saves(q, "target", [Of(q, "target").row EXCEPT !.live = FALSE])

DeleteDefault(q) ==
    /\ Does(q, "deleteDefault")
    /\ Saves(q, "default", [Of(q, "default").row EXCEPT !.live = FALSE])

\* getFilterConfigurationBySharedKey also finds a deleted filter: then the
\* page shows the default one with a message and nothing is written.
ReadShared(q) ==
    /\ Does(q, "readShared")
    /\ IF rows[job[q].arg].live THEN Reads(q, "target", {job[q].arg})
       ELSE /\ job' = [job EXCEPT ![q].at = Len(Program[job[q].op])]
            /\ UNCHANGED <<rows, view, overlap, requests>>

\* persistCurrentInDefault: the configuration of the browser is stored.
Store(q) ==
    /\ Does(q, "store")
    /\ Saves(q, "default", [Of(q, "default").row EXCEPT !.conf = job[q].arg])

\* A configuration which cannot be parsed is replaced by the initial one.
Reset(q) ==
    /\ Does(q, "reset")
    /\ LET row == Of(q, "default").row IN
       Saves(q, "default",
             IF row.conf \in Outdated THEN [row EXCEPT !.conf = Initial] ELSE row)

\* The filter the answer shows.
Shown(q) ==
    CASE job[q].op = "Page" -> Of(q, "old")
      [] job[q].op \in {"SharedPage", "Delete"} -> Of(q, "default")
      [] OTHER -> Of(q, "target")

\* The answer lists the filters; after Clear the browser loads the page anew.
Answer(q) ==
    /\ Does(q, "answer")
    /\ IF job[q].op \notin {"Clear", "Persist"} /\ Shown(q) = NoBean THEN Fails(q)
       ELSE /\ job' = [job EXCEPT ![q] = Idle]
            /\ view' = CASE job[q].op = "Persist" -> view
                         [] job[q].op = "Clear" -> [view EXCEPT ![q[1]] = Closed]
                         [] OTHER -> [view EXCEPT ![q[1]] =
                               [state |-> "ready", shown |-> Shown(q).id,
                                items |-> Available]]
            /\ UNCHANGED <<rows, overlap, requests>>

-----------------------------------------------------------------------------
(* The browser *)

Sends(q, op, arg) ==
    /\ requests < MaxRequests
    /\ ~InFlight(q)
    /\ requests' = requests + 1
    /\ job' = [job EXCEPT ![q] =
           [op |-> op, at |-> 1, arg |-> arg, beans |-> [s \in Slots |-> NoBean]]]
    /\ overlap' = LET others == {job[p].op : p \in {p \in Requests : InFlight(p)}} IN
                  IF \/ overlap = "selecting"
                     \/ op \in Selecting /\ others \cap Selecting /= {}
                  THEN "selecting"
                  ELSE IF others = {} THEN overlap ELSE "some"
    /\ UNCHANGED rows

\* What the area of a tab offers: the actions on the filter it shows, unless
\* this is the default one, and the other filters it lists.
Offered(t) ==
    LET v == view[t] IN
    {<<"Create", NoRow>>, <<"Clear", NoRow>>}
        \cup {<<"Change", i>> : i \in v.items \ {v.shown}}
        \cup {<<op, i>> : op \in {"Save", "Edit", "Delete"}, i \in v.items \cap {v.shown}}

\* A click replaces the area by a waiting icon.
Click(t, op, id) ==
    /\ view[t].state = "ready"
    /\ <<op, id>> \in Offered(t)
    /\ Sends(<<t, "selector">>, op, id)
    /\ view' = [view EXCEPT ![t].state = "wait"]

\* Everything the user does to the table itself sends its configuration.
Refresh(t, conf) ==
    /\ view[t].state /= "closed"
    /\ Sends(<<t, "table">>, "Persist", conf)
    /\ UNCHANGED view

\* The page is loaded: with the key of a filter (id) or without one.
Open(t, id) ==
    /\ \A lane \in Lanes : ~InFlight(<<t, lane>>)
    /\ Sends(<<t, "table">>, IF id = NoRow THEN "Page" ELSE "SharedPage", id)
    /\ view' = [view EXCEPT ![t] = Closed]

-----------------------------------------------------------------------------

Stored(selected) ==
    [live |-> TRUE, default |-> FALSE, selected |-> selected, conf |-> Initial]

\* A user who has never seen the table, or one who has two filters and has
\* every tab open on the selected one.
Init ==
    /\ \/ rows = <<>> /\ view = [t \in Tabs |-> Closed]
       \/ /\ \E conf \in Confs :
               rows = <<[Stored(FALSE) EXCEPT !.default = TRUE],
                        [Stored(TRUE) EXCEPT !.conf = conf], Stored(FALSE)>>
          /\ view = [t \in Tabs |-> [state |-> "ready", shown |-> 2, items |-> {2, 3}]]
    /\ job = [q \in Requests |-> Idle]
    /\ overlap = "never"
    /\ requests = 0

Browser ==
    \E t \in Tabs :
        \/ \E op \in SelectorOps, id \in RowIds \cup {NoRow} : Click(t, op, id)
        \/ \E conf \in Confs : Refresh(t, conf)
        \/ \E id \in {NoRow} \cup {i \in DOMAIN rows : ~rows[i].default} : Open(t, id)

Server ==
    \E q \in Requests :
        \/ ReadTarget(q) \/ ReadSelected(q) \/ Deselect(q) \/ Select(q)
        \/ ReadDefault(q) \/ InsertDefault(q) \/ Insert(q) \/ SaveConf(q)
        \/ CopyToDefault(q) \/ Rename(q) \/ DeleteTarget(q) \/ DeleteDefault(q)
        \/ ReadShared(q) \/ Store(q) \/ Reset(q) \/ Answer(q)

Next == Browser \/ Server

Spec == Init /\ [][Next]_vars

-----------------------------------------------------------------------------
(* Properties *)

\* At most one default filter is not deleted, although every page load
\* creates it when it is missing and Clear deletes it at any time: with two
\* of them findUnique would throw on every later page of this table.
OneDefault == Cardinality(Defaults) <= 1

\* Two filters are selected at once only if two requests which select one
\* (Create, Change) were running at the same time.  Whatever fails halfway,
\* whatever the tabs still list, requests one after the other never do it.
OneSelectedUnlessOverlap == overlap /= "selecting" => Cardinality(Selected) <= 1

\* A deleted filter is never written again, in whatever order the requests
\* which hold it write: nothing restores it and nothing reuses its row.
DeletedIsFinal ==
    [][\A i \in DOMAIN rows : ~rows[i].live => rows'[i] = rows[i]]_rows

\* The table never writes to a filter the user has stored: its configuration
\* changes only in a Save of this very filter, to what the default one had.
StoredChangesBySave ==
    [][\A i \in DOMAIN rows :
        ~rows[i].default /\ rows'[i].conf /= rows[i].conf =>
            \E q \in Requests :
                /\ At(q, "saveConf") /\ job[q].arg = i
                /\ rows'[i].conf = Of(q, "default").row.conf]_rows

\* What filterConfigurationChange announces: at its end the filter is
\* selected, if no other request has ever run at the same time.
ChangedIsSelected ==
    [][\A q \in Requests :
        At(q, "answer") /\ job[q].op = "Change" /\ job'[q] = Idle
            /\ overlap = "never" /\ Of(q, "target").row.live
            => rows[job[q].arg].selected]_vars
=============================================================================
