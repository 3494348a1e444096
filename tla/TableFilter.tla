----------------------------- MODULE TableFilter -----------------------------
(***************************************************************************)
(* A filtered table in the browser: the configuration object every widget  *)
(* edits (main.js), the selectors and the filter fields drawn from it, the *)
(* boxes of the row actions (dynamic_tableview), the requests which        *)
(* refresh the table and fetch its ids (filtered_tableview), the choice of *)
(* a stored filter (filter_configuration_selector) and what the server     *)
(* keeps as the default filter of the user (persistCurrentInDefault).      *)
(*                                                                         *)
(* The requests run at the same time: the server may process them, and the *)
(* browser may receive the answers, in any order.  The rows of the table   *)
(* are fixed; a filter keeps some of them, a page shows PageSize of them.  *)
(***************************************************************************)
EXTENDS Integers, Sequences, FiniteSets, SequencesExt

CONSTANTS
    Columns, Filterable, Sortable,
    Values,        \* the values of a filter
    Matches,       \* [Values -> SUBSET Rows]: the rows a value keeps
    Rows,          \* the ids of the rows: numbers, in the order of the table
    PageSize,
    FirstConfig,   \* the configuration the page was loaded with
    InitialConfig, \* the one the table is defined with
    Filters,       \* the stored filters of the user, the default one apart
    StoredConfig,  \* [Filters -> [conf, selected]]: what each has stored
    MaxCalls       \* bound: requests ever sent

ASSUME ColumnsAssumption ==
    Filterable \subseteq Columns /\ Sortable \subseteq Columns
ASSUME RowsAssumption ==
    /\ Rows \subseteq Nat \ {0} /\ IsFiniteSet(Rows) /\ PageSize \in Nat \ {0}
    /\ Matches \in [Values -> SUBSET Rows]

VARIABLES
    cfg,       \* the current filterConfig object, without selectedRows
    selected,  \* its selectedRows
    bound,     \* whether the header links were made for this very object
    fields,    \* the filter fields drawn: the value each one shows
    ticks,     \* the columns ticked in the filter selector
    selector,  \* the filter the list of filters was drawn with
    content,   \* what is drawn as the table: the configuration it was asked with
    boxes,     \* the boxes drawn as checked, "all" for the one of the header
    drawnBy,   \* history: the refresh that was drawn last
    calls,     \* the requests under way
    sent,      \* how many requests were sent
    latest,    \* history: the refresh that was sent last
    stored,    \* the default filter of the user on the server
    storedBy,  \* history: the request that has stored it
    raced      \* history: the boxes were used before they were up to date

client == <<cfg, selected, bound, fields, ticks, selector>>
drawn == <<content, boxes, drawnBy>>
requests == <<calls, sent, latest>>
server == <<stored, storedBy>>
vars == <<client, drawn, requests, server, raced>>

-----------------------------------------------------------------------------
(* State *)

SortTypes == {"UNSORTED", "ASC", "DESC"}

\* A configuration that was stored for an older definition of the table may
\* not be read any more: it is not compatible, whatever the widgets edit.
Config == [displayed: SUBSET Columns, filtered: SUBSET Filterable,
           value: [Filterable -> Values], sort: [Sortable -> SortTypes], page: Nat,
           compatible: BOOLEAN]

Absent == "absent"
Default == "default"   \* the default filter
Waiting == "waiting"   \* an icon in place of the list of filters
All == 0   \* the box of the header; the rows are numbered from 1
Kinds == {"refresh", "ids", "prune", "act", "change"}
States == {"table", "incompatible", "error"}

ASSUME ConfigsAssumption ==
    /\ FirstConfig \in Config /\ FirstConfig.compatible
    /\ InitialConfig \in Config /\ InitialConfig.compatible
    /\ StoredConfig \in [Filters -> [conf: Config, selected: Seq(Rows)]]
    /\ MaxCalls \in Nat

\* A request: the configuration it posts, the stored filter a change is to,
\* and whether the server has processed it.
Call == {c \in [id: Nat, kind: Kinds, conf: Config, filter: Filters \cup {Default},
                served: BOOLEAN] : c.kind = "change" => c.filter \in Filters}

TypeOK ==
    /\ cfg \in Config /\ selected \in Seq(Rows)
    /\ bound \in BOOLEAN
    /\ fields \in [Filterable -> Values \cup {Absent}]
    /\ ticks \subseteq Filterable
    /\ selector \in Filters \cup {Default, Waiting}
    /\ content \in [state: States, conf: Config, links: SUBSET Sortable]
    /\ boxes \subseteq Rows \cup {All}
    /\ calls \subseteq Call
    /\ sent \in 0..MaxCalls
    /\ stored \in Config
    /\ {latest, drawnBy, storedBy} \subseteq 0..sent
    /\ raced \in BOOLEAN

-----------------------------------------------------------------------------
(* The rows a configuration asks for *)

Matching(conf) == {r \in Rows : \A c \in conf.filtered : r \in Matches[conf.value[c]]}

\* computeNumberOfPages
Pages(conf) == (Cardinality(Matching(conf)) + PageSize - 1) \div PageSize

\* setCurrentPage: a page which does not exist is the first one.
PageShown(conf) == IF conf.page >= Pages(conf) THEN 0 ELSE conf.page

Before(conf, r, s) ==
    IF \E c \in Sortable : conf.sort[c] = "DESC" THEN r > s ELSE r < s

RowsShown(conf) ==
    {r \in Matching(conf) :
        Cardinality({s \in Matching(conf) : Before(conf, s, r)}) \div PageSize
            = PageShown(conf)}

\* tableview draws a box for each row it shows.
BoxesDrawn == IF content.state = "table" THEN RowsShown(content.conf) ELSE {}

-----------------------------------------------------------------------------
(* The requests *)

Outstanding(kind) == {c \in calls : c.kind = kind}

\* The next request, with number sent + 1.
Numbered(kind, conf, filter) ==
    [id |-> sent + 1, kind |-> kind, conf |-> conf, filter |-> filter, served |-> FALSE]

Sends(kind, conf, filter) ==
    /\ sent < MaxCalls /\ sent' = sent + 1
    /\ calls' = calls \cup {Numbered(kind, conf, filter)}
    /\ latest' = IF kind = "refresh" THEN sent + 1 ELSE latest

\* Variant: removing a filter field does not refresh the table.
RefreshesUnlessRemoval(conf) ==
    IF conf.filtered \subseteq cfg.filtered /\ conf.filtered /= cfg.filtered
    THEN cfg' = conf /\ UNCHANGED requests
    ELSE Sends("refresh", conf, Default) /\ cfg' = conf

\* refreshTable: every change of the configuration ends with it.
Refreshes(conf) == Sends("refresh", conf, Default) /\ cfg' = conf

\* Variant: a field which is there already is never drawn again.
ContainerKept(conf, forceRemove) ==
    [c \in Filterable |->
        IF c \notin conf.filtered THEN Absent
        ELSE IF fields[c] = Absent THEN conf.value[c] ELSE fields[c]]

\* maf_filter_updateFilterContainer: drops the fields which are no longer
\* filters, all of them when it is forced, and adds those which are missing.
Container(conf, forceRemove) ==
    [c \in Filterable |->
        IF c \notin conf.filtered THEN Absent
        ELSE IF forceRemove \/ fields[c] = Absent THEN conf.value[c] ELSE fields[c]]

-----------------------------------------------------------------------------
(* The widgets *)

\* Variant: the third click makes the column an unsortable one.
TurnedOff(sortType) ==
    CASE sortType = "ASC" -> "DESC" [] sortType = "DESC" -> "NONE" [] OTHER -> "ASC"

Turned(sortType) == IF sortType = "ASC" THEN "DESC" ELSE "ASC"

\* The link of a sortable header.  It holds the object it was made for: after
\* Change or Reload, and until the answer, a click edits the replaced object.
HeaderClick(c) ==
    /\ content.state = "table" /\ c \in content.links
    /\ Refreshes(IF bound
                 THEN [cfg EXCEPT !.sort = [d \in Sortable |->
                          IF d = c THEN Turned(cfg.sort[c]) ELSE "UNSORTED"]]
                 ELSE cfg)
    /\ UNCHANGED <<selected, bound, fields, ticks, selector, drawn, server, raced>>

\* The selector of the columns; it also updates the selector of the filters.
ColumnsSelected(chosen) ==
    /\ chosen /= cfg.displayed
    /\ Refreshes([cfg EXCEPT !.displayed = chosen])
    /\ fields' = Container(cfg', TRUE)
    /\ ticks' = cfg'.filtered
    /\ UNCHANGED <<selected, bound, selector, drawn, server, raced>>

FiltersSelected(chosen) ==
    /\ chosen /= ticks
    /\ Refreshes([cfg EXCEPT !.filtered = chosen, !.page = 0])
    /\ fields' = Container(cfg', TRUE)
    /\ ticks' = chosen
    /\ UNCHANGED <<selected, bound, selector, drawn, server, raced>>

\* The success callback of a filter field.
FieldEdited(c, v) ==
    /\ fields[c] \notin {Absent, v}
    /\ Refreshes([cfg EXCEPT !.value[c] = v, !.page = 0])
    /\ fields' = [fields EXCEPT ![c] = v]
    /\ UNCHANGED <<selected, bound, ticks, selector, drawn, server, raced>>

\* The cross of a filter field.
FieldRemoved(c) ==
    /\ fields[c] /= Absent
    /\ Refreshes([cfg EXCEPT !.filtered = @ \ {c}, !.page = 0])
    /\ ticks' = cfg'.filtered
    /\ fields' = Container(cfg', FALSE)
    /\ UNCHANGED <<selected, bound, selector, drawn, server, raced>>

PageClick(p) ==
    /\ content.state = "table" /\ Pages(content.conf) > 1 /\ p < Pages(content.conf)
    /\ Refreshes([cfg EXCEPT !.page = p])
    /\ UNCHANGED <<selected, bound, fields, ticks, selector, drawn, server, raced>>

-----------------------------------------------------------------------------
(* The list of the stored filters *)

\* fullRefresh: another object becomes the current one, and everything but
\* the table itself is drawn anew from it.
Install(f) ==
    /\ cfg' = StoredConfig[f].conf
    /\ selected' = StoredConfig[f].selected
    /\ bound' = FALSE
    /\ fields' = Container(cfg', TRUE)
    /\ ticks' = cfg'.filtered
    /\ raced' = (raced \/ Outstanding("ids") /= {})

\* The item of a filter: the server is asked to change to it.
ChangeAsked(f) ==
    /\ selector \notin {f, Waiting}
    /\ Sends("change", cfg, f)
    /\ selector' = Waiting
    /\ UNCHANGED <<cfg, selected, bound, fields, ticks, drawn, server, raced>>

\* The answer is the list of filters drawn anew, with what they have stored.
ChangeAnswered(call) ==
    /\ call.kind = "change" /\ call.served
    /\ Install(call.filter)
    /\ selector' = call.filter
    /\ sent < MaxCalls /\ sent' = sent + 1 /\ latest' = sent + 1
    /\ calls' = (calls \ {call}) \cup {Numbered("refresh", cfg', Default)}
    /\ UNCHANGED <<drawn, server>>

\* Reload: the stored filter once more, as it came with the list.
Reload ==
    /\ selector \in Filters
    /\ Install(selector)
    /\ Sends("refresh", cfg', Default)
    /\ UNCHANGED <<selector, drawn, server>>

-----------------------------------------------------------------------------
(* The boxes of the row actions *)

\* The boxes drawn are not those of the selection yet: the ids are still to
\* come, or another object was installed and the table is not refreshed.
Races == raced' = (raced \/ Outstanding("ids") /= {} \/ ~bound)

\* Checking "all" forgets the selection and asks for the ids of every row.
CheckAll ==
    /\ content.state = "table" /\ All \notin boxes
    /\ boxes' = BoxesDrawn \cup {All}
    /\ selected' = <<>>
    /\ Sends("ids", cfg, Default)
    /\ Races
    /\ UNCHANGED <<cfg, bound, fields, ticks, selector, content, drawnBy, server>>

UncheckAll ==
    /\ All \in boxes
    /\ boxes' = {}
    /\ selected' = <<>>
    /\ Races
    /\ UNCHANGED <<cfg, bound, fields, ticks, selector, content, drawnBy, requests, server>>

Check(r) ==
    /\ r \in BoxesDrawn \ boxes
    /\ boxes' = boxes \cup {r}
    /\ selected' = Append(selected, r)
    /\ Races
    /\ UNCHANGED <<cfg, bound, fields, ticks, selector, content, drawnBy, requests, server>>

\* Variant: a box which is unchecked leaves its row selected.
UncheckOnlyTheBox(r) ==
    /\ r \in boxes \cap BoxesDrawn
    /\ boxes' = boxes \ {r, All}
    /\ Races
    /\ UNCHANGED <<client, content, drawnBy, requests, server>>

\* indexOf and splice: one occurrence is removed.
Uncheck(r) ==
    /\ r \in boxes \cap BoxesDrawn
    /\ boxes' = boxes \ {r, All}
    /\ selected' = RemoveFirst(selected, r)
    /\ Races
    /\ UNCHANGED <<cfg, bound, fields, ticks, selector, content, drawnBy, requests, server>>

\* triggerAjaxRowAction, with rows selected: first the ids are asked for.
Trigger ==
    /\ content.state = "table" /\ selected /= <<>>
    /\ Sends("prune", cfg, Default)
    /\ UNCHANGED <<client, drawn, server, raced>>

-----------------------------------------------------------------------------
(* The server and the answers *)

\* What is met when a finite set of numbers is walked over in their order.
InOrder(numbers) ==
    [i \in 1..Cardinality(numbers) |->
        CHOOSE n \in numbers : Cardinality({k \in numbers : k < n}) = i - 1]

\* What the server keeps of a configuration: it falls back on the initial one
\* when it can not read it.
Kept(conf) == IF conf.compatible THEN conf ELSE InitialConfig

\* The request has been processed; its answer is on its way.
ServedNow(call) ==
    /\ ~call.served
    /\ calls' = (calls \ {call}) \cup {[call EXCEPT !.served = TRUE]}
    /\ storedBy' = call.id
    /\ UNCHANGED <<client, drawn, sent, latest, raced>>

\* persistCurrentInDefault
Serve(call) ==
    /\ call.kind = "refresh"
    /\ stored' = Kept(call.conf)
    /\ ServedNow(call)

\* filterConfigurationChange copies the filter to the default one unread.
ServeChange(call) ==
    /\ call.kind = "change"
    /\ stored' = StoredConfig[call.filter].conf
    /\ ServedNow(call)

\* The links are made for the sortable columns the table shows, with the
\* object which is the current one now; the boxes show the selection.
Refreshed(call) ==
    /\ call.kind = "refresh" /\ call.served /\ call.conf.compatible
    /\ content' = [state |-> "table", conf |-> call.conf,
                   links |-> Sortable \cap call.conf.displayed \cap cfg.displayed]
    /\ bound' = TRUE
    /\ boxes' = RowsShown(call.conf) \cap ToSet(selected)
    /\ drawnBy' = call.id
    /\ calls' = calls \ {call}
    /\ raced' = (raced \/ Outstanding("ids") /= {})
    /\ UNCHANGED <<cfg, selected, fields, ticks, selector, sent, latest, server>>

\* Something else takes the place of the table.
TableGone(call, state) ==
    /\ call.kind = "refresh"
    /\ content' = [content EXCEPT !.state = state, !.links = {}]
    /\ boxes' = {}
    /\ drawnBy' = call.id
    /\ calls' = calls \ {call}
    /\ UNCHANGED <<client, sent, latest, raced>>

\* The configuration could not be read: the answer is a warning.
RefreshRefused(call) ==
    /\ call.served /\ ~call.conf.compatible
    /\ TableGone(call, "incompatible")
    /\ UNCHANGED server

\* A refresh fails, before or after the server has stored it, or between the
\* two saves which reset a configuration that can not be read.
RefreshFailed(call) ==
    /\ TableGone(call, "error")
    /\ \/ UNCHANGED server
       \/ /\ ~call.served /\ ~call.conf.compatible
          /\ stored' = call.conf /\ storedBy' = 0

\* The ids "all" has asked for are added to the selection, in the order of
\* the table.
IdsReceived(call) ==
    /\ call.kind = "ids" /\ call.conf.compatible
    /\ selected' = selected \o InOrder(Matching(call.conf))
    /\ calls' = calls \ {call}
    /\ UNCHANGED <<cfg, bound, fields, ticks, selector, drawn, sent, latest, server, raced>>

\* A loop removes from the selection, in place, what the filter has excluded.
Pruned(rows, ids) ==
    LET kept == InOrder({i \in DOMAIN rows : rows[i] \in ids})
    IN [i \in DOMAIN kept |-> rows[kept[i]]]

\* The ids of a row action: the selection is corrected and posted to the action.
IdsForAction(call) ==
    /\ call.kind = "prune" /\ call.conf.compatible
    /\ selected' = Pruned(selected, Matching(call.conf))
    /\ calls' = (calls \ {call}) \cup {[call EXCEPT !.kind = "act"]}
    /\ raced' = (raced \/ call.conf /= cfg)
    /\ UNCHANGED <<cfg, bound, fields, ticks, selector, drawn, sent, latest, server>>

\* The action has answered: the table is refreshed.
ActionDone(call) ==
    /\ call.kind = "act"
    /\ sent < MaxCalls /\ sent' = sent + 1 /\ latest' = sent + 1
    /\ calls' = (calls \ {call}) \cup {Numbered("refresh", cfg, Default)}
    /\ UNCHANGED <<client, drawn, server, raced>>

\* The other requests have no error callback, or one that only tells the
\* user: nothing more happens.
Lost(call) ==
    /\ call.kind /= "refresh"
    /\ calls' = calls \ {call}
    /\ raced' = (raced \/ call.kind = "ids")
    /\ UNCHANGED <<client, drawn, sent, latest, server>>

-----------------------------------------------------------------------------

\* The page as it is loaded with FirstConfig.
Init ==
    /\ cfg = FirstConfig /\ selected = <<>> /\ bound = TRUE
    /\ fields = [c \in Filterable |->
           IF c \in FirstConfig.filtered THEN FirstConfig.value[c] ELSE Absent]
    /\ ticks = FirstConfig.filtered
    /\ content = [state |-> "table", conf |-> FirstConfig,
                  links |-> Sortable \cap FirstConfig.displayed]
    /\ selector \in Filters \cup {Default}
    /\ boxes = {} /\ calls = {} /\ sent = 0
    /\ stored = FirstConfig
    /\ latest = 0 /\ drawnBy = 0 /\ storedBy = 0
    /\ raced = FALSE

Widgets ==
    \/ \E c \in Sortable : HeaderClick(c)
    \/ \E chosen \in SUBSET Columns : ColumnsSelected(chosen)
    \/ \E chosen \in SUBSET Filterable : FiltersSelected(chosen)
    \/ \E c \in Filterable : FieldRemoved(c) \/ \E v \in Values : FieldEdited(c, v)
    \/ \E p \in 0..Cardinality(Rows) : PageClick(p)
    \/ Reload \/ \E f \in Filters : ChangeAsked(f)

RowBoxes ==
    \/ CheckAll \/ UncheckAll \/ Trigger
    \/ \E r \in Rows : Check(r) \/ Uncheck(r)

Answers ==
    \E call \in calls :
        \/ Serve(call) \/ ServeChange(call) \/ ChangeAnswered(call)
        \/ Refreshed(call) \/ RefreshRefused(call) \/ RefreshFailed(call)
        \/ IdsReceived(call) \/ IdsForAction(call) \/ ActionDone(call) \/ Lost(call)

Next == Widgets \/ RowBoxes \/ Answers

Spec == Init /\ [][Next]_vars

-----------------------------------------------------------------------------
(* Properties *)

\* What is drawn around the table is always the current configuration, also
\* after another object was installed under it: one field for each column
\* which is a filter, with its value, and the same columns ticked.
FieldsFollowConfig ==
    /\ ticks = cfg.filtered
    /\ fields = [c \in Filterable |->
                    IF c \in cfg.filtered THEN cfg.value[c] ELSE Absent]

\* A table whose last answer is that of the refresh sent last shows what the
\* widgets say, and its headers edit the current object.  A default filter
\* stored by this refresh is the current configuration, or the initial one if
\* the server can not read it.  So an answer or a write which comes too late
\* does harm until the next refresh only, and so does a change to a stored
\* filter whose answer is lost.
TableShowsConfig ==
    /\ drawnBy = latest /\ content.state = "table" => content.conf = cfg /\ bound
    /\ storedBy = latest => stored = Kept(cfg)

\* Once no request is under way, the boxes checked are those of the rows
\* selected, whatever pages, filters and stored filters the user has gone
\* through - unless boxes or filters were changed while ids were fetched or a
\* stored filter was being installed, or an older answer was drawn last.
BoxesTellSelection ==
    calls = {} /\ ~raced /\ drawnBy = latest =>
        boxes \ {All} = BoxesDrawn \cap ToSet(selected)
=============================================================================
