-------------------------- MODULE FilterStoreProofs --------------------------
(***************************************************************************)
(* Proofs about FilterStore: the types, that one filter at most is the     *)
(* default one, that a deleted filter is never written again, that only a  *)
(* Save changes a stored one and that requests which select a filter one   *)
(* after the other leave one selected, for any number of tabs,             *)
(* configurations, rows and requests.                                      *)
(***************************************************************************)
EXTENDS FilterStore, FiniteSetTheorems, TLAPS

-----------------------------------------------------------------------------
(* The inductive invariant *)

Call(j) == Program[j.op][j.at]

\* What the earlier calls of a request have read, and its next ones use
\* without a test for null.
Filled(op, at, beans) ==
    /\ op \in {"Save", "Change", "Edit", "Delete"} /\ at > 1 => beans["target"] /= NoBean
    /\ op = "SharedPage" /\ at \in 4..6 => beans["target"] /= NoBean
    /\ \/ op \in {"Create", "Clear"} /\ at > 3
       \/ op = "Save" /\ at > 2
       \/ op = "Change" /\ at > 5 /\ ~beans["target"].row.default
       \/ op \in {"Page", "SharedPage"} /\ at > 2
       \/ op = "Persist" /\ at > 1
       => beans["default"] /= NoBean

\* What a bean tells of its row.  A fresh bean of a deleted row is that of a
\* request which has nothing left to do, or the one a page only shows.
BeanInv(j, s, b) ==
    b /= NoBean =>
        /\ b.id \in DOMAIN rows
        /\ b.row.default = rows[b.id].default
        /\ b.fresh => rows[b.id] = b.row
        /\ s = "default" => b.row.default
        /\ s = "target" /\ j.op = "Save" => b.id = j.arg
        /\ b.fresh /\ ~b.row.live => Call(j) = "answer" \/ (j.op = "Page" /\ s = "old")

\* A page about to insert the default filter has seen that there is none, and
\* the monitor keeps it so.
InsertIsDue(j) ==
    j.op \in {"Page", "SharedPage"} /\ j.at = 2 /\ j.beans["default"] = NoBean

\* A page is opened with the key of a filter which was stored once.
ArgInv(j) ==
    /\ j.op = "SharedPage" => j.arg \in DOMAIN rows
    /\ j.op = "Persist" => j.arg \in Confs

JobInv(q, j) ==
    j /= Idle =>
        /\ j.at <= Len(Program[j.op])
        /\ j.op \in SelectorOps <=> q[2] = "selector"
        /\ ArgInv(j)
        /\ Filled(j.op, j.at, j.beans)
        /\ \A s \in Slots : BeanInv(j, s, j.beans[s])
        /\ InsertIsDue(j) => Defaults = {}

\* getCurrent and persistCurrentInDefault exclude each other.
Exclusion ==
    \A p, q \in Requests :
        p /= q /\ p[2] = "table" /\ q[2] = "table" /\ InFlight(p) /\ InFlight(q)
            => job[p].at = 1 \/ job[q].at = 1

IInv ==
    /\ TypeOK
    /\ OneDefault
    /\ Exclusion
    /\ \A q \in Requests : JobInv(q, job[q])

-----------------------------------------------------------------------------
(* The program of a request *)

Places(op, at, call) ==
    \/ op = "Create" /\ <<at, call>> \in {<<1, "readSelected">>, <<2, "deselect">>,
           <<3, "readDefault">>, <<4, "insert">>, <<5, "answer">>}
    \/ op = "Save" /\ <<at, call>> \in {<<1, "readTarget">>, <<2, "readDefault">>,
           <<3, "saveConf">>, <<4, "answer">>}
    \/ op = "Clear" /\ <<at, call>> \in {<<1, "readSelected">>, <<2, "deselect">>,
           <<3, "readDefault">>, <<4, "deleteDefault">>, <<5, "answer">>}
    \/ op = "Change" /\ <<at, call>> \in {<<1, "readTarget">>, <<2, "readSelected">>,
           <<3, "deselect">>, <<4, "select">>, <<5, "readDefault">>,
           <<6, "copyToDefault">>, <<7, "answer">>}
    \/ op = "Edit" /\ <<at, call>> \in {<<1, "readTarget">>, <<2, "rename">>,
           <<3, "answer">>}
    \/ op = "Delete" /\ <<at, call>> \in {<<1, "readTarget">>, <<2, "readDefault">>,
           <<3, "deleteTarget">>, <<4, "answer">>}
    \/ op = "Page" /\ <<at, call>> \in {<<1, "readDefault">>, <<2, "insertDefault">>,
           <<3, "readSelected">>, <<4, "reset">>, <<5, "answer">>}
    \/ op = "SharedPage" /\ <<at, call>> \in {<<1, "readDefault">>, <<2, "insertDefault">>,
           <<3, "readShared">>, <<4, "copyToDefault">>, <<5, "readSelected">>,
           <<6, "deselect">>, <<7, "answer">>}
    \/ op = "Persist" /\ <<at, call>> \in {<<1, "readDefault">>, <<2, "store">>,
           <<3, "reset">>, <<4, "answer">>}

\* The operations and how many calls each of them makes.
LEMMA Lengths ==
    /\ Ops = {"Create", "Save", "Clear", "Change", "Edit", "Delete", "Page", "SharedPage",
              "Persist"}
    /\ Len(Program["Create"]) = 5 /\ Len(Program["Save"]) = 4
    /\ Len(Program["Clear"]) = 5 /\ Len(Program["Change"]) = 7
    /\ Len(Program["Edit"]) = 3 /\ Len(Program["Delete"]) = 4
    /\ Len(Program["Page"]) = 5 /\ Len(Program["SharedPage"]) = 7
    /\ Len(Program["Persist"]) = 4
  BY DEF Ops, Program

\* A call is at its place in the program of its request.
LEMMA PlacesOfCalls ==
    ASSUME NEW op \in Ops, NEW at \in Nat \ {0}, at <= Len(Program[op])
    PROVE  Places(op, at, Program[op][at])
<1>1. CASE op = "Create"
  BY <1>1, Lengths DEF Places, Program
<1>2. CASE op = "Save"
  BY <1>2, Lengths DEF Places, Program
<1>3. CASE op = "Clear"
  BY <1>3, Lengths DEF Places, Program
<1>4. CASE op = "Change"
  BY <1>4, Lengths DEF Places, Program
<1>5. CASE op = "Edit"
  BY <1>5, Lengths DEF Places, Program
<1>6. CASE op = "Delete"
  BY <1>6, Lengths DEF Places, Program
<1>7. CASE op = "Page"
  BY <1>7, Lengths DEF Places, Program
<1>8. CASE op = "SharedPage"
  BY <1>8, Lengths DEF Places, Program
<1>9. CASE op = "Persist"
  BY <1>9, Lengths DEF Places, Program
<1>10. QED
  BY <1>1, <1>2, <1>3, <1>4, <1>5, <1>6, <1>7, <1>8, <1>9, Lengths

\* A request under way is told from an idle slot.
LEMMA JobsAreNotIdle == \A j \in Jobs : j /= Idle
  BY Lengths DEF Jobs, Idle

-----------------------------------------------------------------------------
(* The effects of a call *)

\* The variables only the browser sees.
ShownOK ==
    /\ view \in [Tabs -> [state: {"closed", "wait", "ready"},
                          shown: RowIds \cup {NoRow}, items: SUBSET RowIds]]
    /\ overlap \in {"never", "some", "selecting"}
    /\ requests \in 0..MaxRequests

\* A step that writes no row: one request moves.
LEMMA Moves ==
    ASSUME IInv, NEW q \in Requests, NEW j \in Jobs \cup {Idle}, JobInv(q, j),
           job' = [job EXCEPT ![q] = j], UNCHANGED rows, ShownOK',
           q[2] = "table" /\ j /= Idle /\ j.at > 1 => MayEnter(q)
    PROVE  IInv'
<1>1. \A p \in Requests : job'[p] = IF p = q THEN j ELSE job[p]
  BY DEF IInv, TypeOK
<1>2. TypeOK'
  <2>1. job' \in [Requests -> Jobs \cup {Idle}]
    BY DEF IInv, TypeOK
  <2>2. \A p \in Requests : InFlight(p)' => job'[p].at <= Len(Program[job'[p].op])
    BY <1>1 DEF IInv, TypeOK, JobInv, InFlight
  <2>3. QED
    BY <2>1, <2>2 DEF IInv, TypeOK, ShownOK
<1>3. OneDefault'
  BY DEF IInv, OneDefault, Defaults, Live
<1>4. Exclusion'
  <2> SUFFICES ASSUME NEW a \in Requests, NEW b \in Requests, a /= b, a[2] = "table",
                      b[2] = "table", job'[a] /= Idle, job'[b] /= Idle
               PROVE  job'[a].at = 1 \/ job'[b].at = 1
    BY DEF Exclusion, InFlight
  <2>1. CASE a /= q /\ b /= q
    BY <2>1, <1>1 DEF IInv, Exclusion, InFlight
  <2>2. CASE a = q \/ b = q
    <3>1. \A p \in Requests : job'[p] /= Idle => job'[p] \in Jobs /\ job'[p].at \in Nat \ {0}
      BY <1>2 DEF TypeOK, Jobs
    <3>2. QED
      BY <2>2, <3>1, <1>1 DEF MayEnter, InFlight
  <2>3. QED
    BY <2>1, <2>2
<1>5. \A p \in Requests : JobInv(p, job[p])'
  <2> SUFFICES ASSUME NEW p \in Requests
               PROVE  JobInv(p, job[p])'
    OBVIOUS
  <2>1. PICK k : k = job'[p]
    OBVIOUS
  <2>2. JobInv(p, k) /\ rows' = rows
    BY <1>1, <2>1 DEF IInv
  <2>3. Defaults' = Defaults /\ DOMAIN rows' = DOMAIN rows
    BY <2>2 DEF Defaults, Live
  <2>4. CASE k = Idle
    BY <2>1, <2>4 DEF JobInv
  <2>5. CASE k /= Idle
    <3>1. /\ k.at <= Len(Program[k.op]) /\ (k.op \in SelectorOps <=> p[2] = "selector")
          /\ Filled(k.op, k.at, k.beans)
          /\ ArgInv(k) /\ (\A s \in Slots : BeanInv(k, s, k.beans[s]))
          /\ InsertIsDue(k) => Defaults = {}
      BY <2>2, <2>5 DEF JobInv
    <3>2. ArgInv(job[p])'
      BY <2>1, <2>3, <3>1 DEF ArgInv
    <3>3. \A s \in Slots : BeanInv(job[p], s, job[p].beans[s])'
      <4> SUFFICES ASSUME NEW s \in Slots
                   PROVE  BeanInv(job[p], s, job[p].beans[s])'
        OBVIOUS
      <4>1. PICK b : b = k.beans[s]
        OBVIOUS
      <4>2. BeanInv(k, s, b) /\ b = job'[p].beans[s]
        BY <2>1, <3>1, <4>1
      <4>3. QED
        BY <2>1, <2>2, <4>2 DEF BeanInv, Call
    <3>4. InsertIsDue(job[p])' => Defaults' = {}
      BY <2>1, <2>3, <3>1 DEF InsertIsDue
    <3>5. QED
      BY <2>1, <3>1, <3>2, <3>3, <3>4 DEF JobInv
  <2>6. QED
    BY <2>4, <2>5
<1>6. QED
  BY <1>2, <1>3, <1>4, <1>5 DEF IInv

\* A request that throws leaves nothing behind in the model of the server.
LEMMA FailsInv ==
    ASSUME IInv, NEW q \in Requests, Fails(q)
    PROVE  IInv'
<1>1. job' = [job EXCEPT ![q] = Idle] /\ UNCHANGED rows
  BY DEF Fails
<1>2. JobInv(q, Idle)
  BY DEF JobInv
<1>3. ShownOK'
  <2>1. q[1] \in Tabs
    BY DEF Requests
  <2>2. Closed \in [state: {"closed", "wait", "ready"}, shown: RowIds \cup {NoRow},
                    items: SUBSET RowIds]
    BY DEF Closed
  <2>3. QED
    BY <2>1, <2>2 DEF Fails, IInv, TypeOK, ShownOK
<1>4. QED
  BY <1>1, <1>2, <1>3, Moves

\* A call that is not the last one has a next one.
LEMMA CallsGoOn ==
    ASSUME NEW j \in Jobs, j.at <= Len(Program[j.op]), Call(j) /= "answer"
    PROVE  j.at + 1 <= Len(Program[j.op])
<1>1. j.op \in Ops /\ j.at \in Nat \ {0}
  BY DEF Jobs
<1>2. Places(j.op, j.at, Call(j))
  BY <1>1, PlacesOfCalls DEF Call
<1>3. CASE j.op = "Create"
  BY <1>1, <1>2, <1>3, Lengths DEF Places
<1>4. CASE j.op = "Save"
  BY <1>1, <1>2, <1>4, Lengths DEF Places
<1>5. CASE j.op = "Clear"
  BY <1>1, <1>2, <1>5, Lengths DEF Places
<1>6. CASE j.op = "Change"
  BY <1>1, <1>2, <1>6, Lengths DEF Places
<1>7. CASE j.op = "Edit"
  BY <1>1, <1>2, <1>7, Lengths DEF Places
<1>8. CASE j.op = "Delete"
  BY <1>1, <1>2, <1>8, Lengths DEF Places
<1>9. CASE j.op = "Page"
  BY <1>1, <1>2, <1>9, Lengths DEF Places
<1>10. CASE j.op = "SharedPage"
  BY <1>1, <1>2, <1>10, Lengths DEF Places
<1>11. CASE j.op = "Persist"
  BY <1>1, <1>2, <1>11, Lengths DEF Places
<1>12. QED
  BY <1>1, <1>3, <1>4, <1>5, <1>6, <1>7, <1>8, <1>9, <1>10, <1>11, Lengths

\* What the type of the jobs says of a request under way.
LEMMA JobOf ==
    ASSUME IInv, NEW q \in Requests, InFlight(q)
    PROVE  /\ job[q] \in Jobs /\ job[q].at <= Len(Program[job[q].op])
           /\ Places(job[q].op, job[q].at, Call(job[q]))
<1>1. job[q] \in Jobs /\ job[q].at <= Len(Program[job[q].op])
  BY DEF IInv, TypeOK, InFlight
<1>2. QED
  BY <1>1, PlacesOfCalls DEF Jobs, Call

\* The request after a call that has read or written a bean.
StepWith(j, s, b) == Step([j EXCEPT !.beans[s] = b])

\* The fields of a request after a call that has set one bean.
LEMMA FieldsOfStep ==
    ASSUME NEW j \in Jobs, NEW s \in Slots, NEW b \in Beans \cup {NoBean}
    PROVE  /\ StepWith(j, s, b) \in Jobs
           /\ StepWith(j, s, b).op = j.op
           /\ StepWith(j, s, b).at = j.at + 1
           /\ StepWith(j, s, b).arg = j.arg
           /\ StepWith(j, s, b).beans = [j.beans EXCEPT ![s] = b]
<1> DEFINE k == [j EXCEPT !.beans[s] = b]
<1>1. /\ k \in Jobs /\ k.op = j.op /\ k.at = j.at /\ k.arg = j.arg
      /\ k.beans = [j.beans EXCEPT ![s] = b]
  BY DEF Jobs
<1>2. StepWith(j, s, b) = Step(k)
  BY DEF StepWith
<1> HIDE DEF k
<1>3. \A x \in Jobs : /\ Step(x) \in Jobs /\ Step(x).op = x.op /\ Step(x).at = x.at + 1
                      /\ Step(x).arg = x.arg /\ Step(x).beans = x.beans
  BY DEF Step, Jobs
<1>4. QED
  BY <1>1, <1>2, <1>3

\* The answer of a query is a fresh bean of one of the rows found, or null.
LEMMA BeanType ==
    ASSUME TypeOK, NEW found \in SUBSET DOMAIN rows
    PROVE  /\ Bean(found) \in Beans \cup {NoBean}
           /\ Bean(found) = NoBean <=> found = {}
           /\ found /= {} => /\ Bean(found).id \in found
                             /\ Bean(found).row = rows[Bean(found).id]
                             /\ Bean(found).fresh = TRUE
<1>1. CASE found = {}
  BY <1>1 DEF Bean
<1>2. CASE found /= {}
  <2> DEFINE i == CHOOSE i \in found : TRUE
  <2>1. i \in found
    BY <1>2
  <2>2. Bean(found) = [id |-> i, row |-> rows[i], fresh |-> TRUE]
    BY <1>2 DEF Bean
  <2>3. i \in RowIds /\ rows[i] \in Row
    BY <2>1, BoundsAssumption DEF TypeOK, RowIds
  <2> HIDE DEF i
  <2>4. i /= NoRow
    BY <2>3, BoundsAssumption DEF RowIds, NoRow
  <2>5. Bean(found) \in Beans /\ Bean(found).id /= NoRow
    BY <2>2, <2>3, <2>4 DEF Beans
  <2>6. QED
    BY <1>2, <2>1, <2>2, <2>5 DEF NoBean
<1>3. QED
  BY <1>1, <1>2

\* A call that changes no row and one bean at most.
LEMMA StepInv ==
    ASSUME IInv, NEW q \in Requests, InFlight(q), MayEnter(q), Call(job[q]) /= "answer",
           NEW s \in Slots, NEW b \in Beans \cup {NoBean}, BeanInv(job[q], s, b),
           job' = [job EXCEPT ![q] = StepWith(@, s, b)],
           UNCHANGED <<rows, view, overlap, requests>>,
           LET beans == [job[q].beans EXCEPT ![s] = b]
           IN  /\ Filled(job[q].op, job[q].at + 1, beans)
               /\ job[q].op \in {"Page", "SharedPage"} /\ job[q].at = 1
                  /\ beans["default"] = NoBean => Defaults = {}
    PROVE  IInv'
<1> DEFINE k == StepWith(job[q], s, b)
<1>1. job[q] \in Jobs /\ job[q].at <= Len(Program[job[q].op])
  BY JobOf
<1>2. /\ k \in Jobs /\ k.op = job[q].op /\ k.at = job[q].at + 1 /\ k.arg = job[q].arg
      /\ k.beans = [job[q].beans EXCEPT ![s] = b]
  BY <1>1, FieldsOfStep
<1>3. job' = [job EXCEPT ![q] = k]
  BY DEF IInv, TypeOK
<1> HIDE DEF k
<1>4. job[q].at \in Nat \ {0} /\ job[q].beans \in [Slots -> Beans \cup {NoBean}]
  BY <1>1 DEF Jobs
<1>5. JobInv(q, job[q]) /\ job[q] /= Idle
  BY DEF IInv, InFlight
<1>6. \A t \in Slots : BeanInv(k, t, k.beans[t])
  <2> TAKE t \in Slots
  <2>1. BeanInv(job[q], t, k.beans[t])
    BY <1>2, <1>4, <1>5 DEF JobInv
  <2>2. QED
    BY <2>1, <1>2 DEF BeanInv
<1>7. JobInv(q, k)
  <2>1. k.at <= Len(Program[k.op])
    BY <1>1, <1>2, CallsGoOn
  <2>2. k.op \in SelectorOps <=> q[2] = "selector"
    BY <1>2, <1>5 DEF JobInv
  <2>3. Filled(k.op, k.at, k.beans)
    BY <1>2
  <2>4. InsertIsDue(k) => Defaults = {}
    BY <1>2, <1>4 DEF InsertIsDue
  <2>5. ArgInv(k)
    BY <1>2, <1>5 DEF JobInv, ArgInv
  <2>6. QED
    BY <1>6, <2>1, <2>2, <2>3, <2>4, <2>5 DEF JobInv
<1>8. ShownOK'
  BY DEF IInv, TypeOK, ShownOK
<1>9. QED
  BY <1>2, <1>3, <1>7, <1>8, Moves

-----------------------------------------------------------------------------
(* A call that writes a row *)

\* What a step may do to the rows there are: leave the deleted ones, and change the
\* configuration of a stored one by a Save of it only.
Kept ==
    /\ DOMAIN rows \subseteq DOMAIN rows'
    /\ \A i \in DOMAIN rows :
        /\ ~rows[i].live => rows'[i] = rows[i]
        /\ ~rows[i].default /\ rows'[i].conf /= rows[i].conf =>
               \E q \in Requests :
                   /\ At(q, "saveConf") /\ job[q].arg = i
                   /\ rows'[i].conf = Of(q, "default").row.conf

\* A bean after somebody has written the row i.
AgedBean(b, i) == IF b.id = i THEN [b EXCEPT !.fresh = FALSE] ELSE b

\* Ageing keeps a bean and its row; only a bean of another row stays fresh.
LEMMA AgedBeans ==
    ASSUME NEW b \in Beans \cup {NoBean}, NEW i \in RowIds
    PROVE  /\ AgedBean(b, i) \in Beans \cup {NoBean}
           /\ AgedBean(b, i) = NoBean <=> b = NoBean
           /\ AgedBean(b, i) /= NoBean =>
                  /\ AgedBean(b, i).id = b.id /\ AgedBean(b, i).row = b.row
                  /\ AgedBean(b, i).fresh => b.fresh /\ b.id /= i
<1>1. \A c \in Beans : c.id \in RowIds /\ c.id /= NoRow /\ c /= NoBean
  BY BoundsAssumption DEF Beans, RowIds, NoRow, NoBean
<1>2. CASE b = NoBean
  <2>1. b.id /= i
    BY <1>2, BoundsAssumption DEF NoBean, NoRow, RowIds
  <2>2. QED
    BY <1>2, <2>1 DEF AgedBean
<1>3. CASE b \in Beans /\ b.id = i
  <2>1. AgedBean(b, i) = [b EXCEPT !.fresh = FALSE]
    BY <1>3 DEF AgedBean
  <2>2. /\ AgedBean(b, i) \in Beans
        /\ AgedBean(b, i).id = b.id /\ AgedBean(b, i).row = b.row
        /\ AgedBean(b, i).fresh = FALSE
    BY <1>3, <2>1 DEF Beans
  <2>3. QED
    BY <1>1, <1>3, <2>2
<1>4. CASE b \in Beans /\ b.id /= i
  BY <1>1, <1>4 DEF AgedBean
<1>5. QED
  BY <1>2, <1>3, <1>4

\* Ageing the beans of a request is ageing each of them.
LEMMA AgedIsAgedBean ==
    ASSUME NEW beans, NEW i
    PROVE  Aged(beans, i) = [s \in Slots |-> AgedBean(beans[s], i)]
  BY DEF Aged, AgedBean

\* A request that holds no fewer beans still holds those its calls need.
LEMMA FilledBeans ==
    ASSUME NEW op, NEW at \in Nat, NEW beans, NEW others, Filled(op, at, beans),
           \A s \in Slots : others[s] = NoBean => beans[s] = NoBean,
           beans["target"] /= NoBean =>
               others["target"].row.default = beans["target"].row.default
    PROVE  Filled(op, at, others)
<1>1. /\ others["target"] = NoBean => beans["target"] = NoBean
      /\ others["default"] = NoBean => beans["default"] = NoBean
  BY DEF Slots
<1>2. CASE op = "Change" /\ at > 5
  <2>1. at > 1 => beans["target"] /= NoBean
    BY <1>2 DEF Filled
  <2>2. CASE ~others["target"].row.default /\ beans["target"] /= NoBean
    <3>1. ~beans["target"].row.default
      BY <2>2
    <3>2. beans["default"] /= NoBean
      BY <1>2, <3>1 DEF Filled
    <3>3. QED
      BY <1>1, <1>2, <2>2, <3>2 DEF Filled
  <2>3. CASE others["target"].row.default /\ beans["target"] /= NoBean
    BY <1>1, <1>2, <2>3 DEF Filled
  <2>4. CASE beans["target"] = NoBean
    BY <1>1, <1>2, <2>1, <2>4 DEF Filled
  <2>5. QED BY <2>2, <2>3, <2>4
<1>3. CASE ~(op = "Change" /\ at > 5)
  BY <1>1, <1>3 DEF Filled
<1>4. QED BY <1>2, <1>3

\* Writing a row never makes a second default one.
LEMMA FewerDefaults ==
    ASSUME TypeOK, OneDefault, Defaults' \subseteq Defaults
    PROVE  OneDefault'
<1>1. IsFiniteSet(Defaults)
  <2>1. Len(rows) \in Nat /\ DOMAIN rows = 1..Len(rows)
    BY DEF TypeOK
  <2>2. IsFiniteSet(DOMAIN rows)
    BY <2>1, FS_Interval
  <2>3. QED
    BY <2>2, FS_Subset DEF Defaults, Live
<1>2. Cardinality(Defaults') <= Cardinality(Defaults) /\ Cardinality(Defaults) \in Nat
  BY <1>1, FS_Subset, FS_CardinalityType
<1>3. Cardinality(Defaults') \in Nat
  BY <1>1, FS_Subset, FS_CardinalityType
<1>4. QED
  BY <1>2, <1>3 DEF OneDefault

\* What every writing call sees to.
MayWrite(q, s, row) ==
    LET j == job[q]
        b == Of(q, s)
    IN  /\ InFlight(q) /\ MayEnter(q) /\ Call(j) /= "answer"
        /\ b /= NoBean /\ row \in Row /\ row.default = b.row.default
        /\ ~(j.op = "Page" /\ s = "old")
        /\ b.fresh => row.live \/ Program[j.op][j.at + 1] = "answer"
        /\ j.op \in {"Page", "SharedPage"} => j.at > 1
        /\ Filled(j.op, j.at + 1, j.beans)
        /\ \/ row.conf = b.row.conf \/ b.row.default
           \/ Call(j) = "saveConf" /\ s = "target" /\ row.conf = Of(q, "default").row.conf

\* A request after the row i was written through another bean.
AgedJob(j, i) == [j EXCEPT !.beans = Aged(@, i)]

\* Ageing keeps the place, the operation and the argument of a request.
LEMMA AgedJobs ==
    ASSUME NEW j \in Jobs, NEW i \in RowIds
    PROVE  /\ AgedJob(j, i) \in Jobs
           /\ AgedJob(j, i).op = j.op /\ AgedJob(j, i).at = j.at
           /\ AgedJob(j, i).arg = j.arg
           /\ \A t \in Slots : AgedJob(j, i).beans[t] = AgedBean(j.beans[t], i)
<1>1. j.beans \in [Slots -> Beans \cup {NoBean}]
  BY DEF Jobs
<1>2. \A t \in Slots : AgedBean(j.beans[t], i) \in Beans \cup {NoBean}
  BY <1>1, AgedBeans
<1>3. Aged(j.beans, i) \in [Slots -> Beans \cup {NoBean}]
  BY <1>2, AgedIsAgedBean
<1>4. \A t \in Slots : Aged(j.beans, i)[t] = AgedBean(j.beans[t], i)
  BY AgedIsAgedBean
<1>5. QED
  BY <1>3, <1>4 DEF AgedJob, Jobs

\* What a save that gets through does: it writes the row of its bean, which is
\* the one it has read, and ages every other bean of this row.
Written(q, s, row, i) ==
    /\ i \in DOMAIN rows /\ rows[i] = Of(q, s).row /\ Of(q, s).fresh = TRUE
    /\ rows' = [rows EXCEPT ![i] = row] /\ UNCHANGED <<view, overlap, requests>>
    /\ \A p \in Requests : ~InFlight(p) => job'[p] = Idle
    /\ \A p \in Requests : InFlight(p) =>
           /\ job'[p] \in Jobs /\ job'[p] /= Idle
           /\ job'[p].op = job[p].op /\ job'[p].arg = job[p].arg
           /\ job'[p].at = IF p = q THEN job[p].at + 1 ELSE job[p].at
           /\ \A t \in Slots : job'[p].beans[t] =
                  IF p = q /\ t = s THEN [Of(q, s) EXCEPT !.row = row]
                  ELSE AgedBean(job[p].beans[t], i)
    /\ job' \in [Requests -> Jobs \cup {Idle}]

\* That is what the version column lets a fresh bean do.
LEMMA WriteEffect ==
    ASSUME IInv, NEW q \in Requests, NEW s \in Slots, NEW row \in Row, InFlight(q),
           Of(q, s) /= NoBean, Writes(q, s, row), ~Outrun(Of(q, s)), NEW i, i = Of(q, s).id
    PROVE  Written(q, s, row, i)
<1> DEFINE b == Of(q, s)
           c == [b EXCEPT !.row = row]
<1>1. job[q] \in Jobs /\ JobInv(q, job[q]) /\ job[q] /= Idle
  BY JobOf DEF InFlight, IInv
<1>2. b \in Beans /\ BeanInv(job[q], s, b) /\ b /= NoBean
  BY <1>1 DEF Of, Jobs, JobInv
<1>3. b.fresh = TRUE /\ i \in RowIds /\ i \in DOMAIN rows /\ rows[i] = b.row
  BY <1>2 DEF Outrun, BeanInv, Beans
<1>5. rows' = [rows EXCEPT ![i] = row] /\ UNCHANGED <<view, overlap, requests>>
  BY DEF Writes
<1>6. c \in Beans
  BY <1>2, <1>3 DEF Beans
<1>7. job' = [p \in Requests |->
                 IF ~InFlight(p) THEN job[p]
                 ELSE IF p /= q THEN AgedJob(job[p], i)
                 ELSE StepWith(AgedJob(job[p], i), s, c)]
  BY DEF Writes, AgedJob, StepWith
<1> HIDE DEF b, c
<1>8. \A p \in Requests : InFlight(p) => job[p] \in Jobs
  BY DEF IInv, TypeOK, InFlight
<1>9. ASSUME NEW p \in Requests, InFlight(p)
      PROVE  /\ job'[p] \in Jobs /\ job'[p] /= Idle
             /\ job'[p].op = job[p].op /\ job'[p].arg = job[p].arg
             /\ job'[p].at = IF p = q THEN job[p].at + 1 ELSE job[p].at
             /\ \A t \in Slots : job'[p].beans[t] =
                    IF p = q /\ t = s THEN c ELSE AgedBean(job[p].beans[t], i)
  <2>1. /\ AgedJob(job[p], i) \in Jobs
        /\ AgedJob(job[p], i).op = job[p].op /\ AgedJob(job[p], i).at = job[p].at
        /\ AgedJob(job[p], i).arg = job[p].arg
        /\ \A t \in Slots : AgedJob(job[p], i).beans[t] = AgedBean(job[p].beans[t], i)
    BY <1>3, <1>8, <1>9, AgedJobs
  <2>2. CASE p /= q
    BY <1>7, <1>9, <2>1, <2>2, JobsAreNotIdle
  <2>3. CASE p = q
    <3>1. job'[p] = StepWith(AgedJob(job[p], i), s, c)
      BY <1>7, <1>9, <2>3
    <3>2. /\ job'[p] \in Jobs
          /\ job'[p].op = job[p].op /\ job'[p].at = job[p].at + 1
          /\ job'[p].arg = job[p].arg
          /\ job'[p].beans = [AgedJob(job[p], i).beans EXCEPT ![s] = c]
      BY <1>6, <2>1, <3>1, FieldsOfStep
    <3>3. AgedJob(job[p], i).beans \in [Slots -> Beans \cup {NoBean}]
      BY <2>1 DEF Jobs
    <3>4. QED
      BY <2>1, <2>3, <3>2, <3>3, JobsAreNotIdle
  <2>4. QED
    BY <2>2, <2>3
<1>10. \A p \in Requests : ~InFlight(p) => job'[p] = Idle
  BY <1>7 DEF InFlight
<1>11. job' \in [Requests -> Jobs \cup {Idle}]
  BY <1>7, <1>9, <1>10
<1>12. QED
  BY <1>3, <1>5, <1>9, <1>10, <1>11 DEF b, c, Written

\* A save that gets through: the bean was fresh, hence the row it overwrites was
\* not deleted, and what it writes is the row it has read but for one field.
LEMMA WritesInv ==
    ASSUME IInv, NEW q \in Requests, NEW s \in Slots, NEW row,
           MayWrite(q, s, row), Writes(q, s, row), ~Outrun(Of(q, s))
    PROVE  IInv' /\ Kept
<1> DEFINE b == Of(q, s)
           i == b.id
           c == [b EXCEPT !.row = row]
<1>1. job[q] \in Jobs /\ job[q].at <= Len(Program[job[q].op]) /\ JobInv(q, job[q])
      /\ job[q] /= Idle
  BY JobOf DEF MayWrite, InFlight, IInv
<1>2. b \in Beans /\ BeanInv(job[q], s, b) /\ b /= NoBean
  BY <1>1 DEF MayWrite, Of, Jobs, JobInv
<1>3. b.fresh = TRUE /\ i \in RowIds /\ i \in DOMAIN rows /\ rows[i] = b.row /\ rows[i].live
  BY <1>2 DEF Outrun, BeanInv, Beans, MayWrite
<1>4. row \in Row /\ row.default = rows[i].default
  BY <1>3 DEF MayWrite
<1>5. rows' = [rows EXCEPT ![i] = row] /\ UNCHANGED <<view, overlap, requests>>
  BY DEF Writes
<1>6. c \in Beans /\ c /= NoBean /\ c.id = i /\ c.row = row /\ c.fresh = TRUE
  <2>1. c \in Beans /\ c.id = i /\ c.row = row /\ c.fresh = TRUE
    BY <1>2, <1>3, <1>4 DEF Beans
  <2>2. i /= NoRow
    BY <1>3, BoundsAssumption DEF RowIds, NoRow
  <2>3. QED
    BY <2>1, <2>2 DEF NoBean
<1>7. /\ \A p \in Requests : ~InFlight(p) => job'[p] = Idle
      /\ \A p \in Requests : InFlight(p) =>
             /\ job'[p] \in Jobs /\ job'[p] /= Idle
             /\ job'[p].op = job[p].op /\ job'[p].arg = job[p].arg
             /\ job'[p].at = IF p = q THEN job[p].at + 1 ELSE job[p].at
             /\ \A t \in Slots : job'[p].beans[t] =
                    IF p = q /\ t = s THEN c ELSE AgedBean(job[p].beans[t], i)
      /\ job' \in [Requests -> Jobs \cup {Idle}]
  <2>1. row \in Row /\ InFlight(q) /\ Of(q, s) /= NoBean /\ i = Of(q, s).id
    BY <1>4 DEF MayWrite
  <2>2. c = [Of(q, s) EXCEPT !.row = row]
    OBVIOUS
  <2> HIDE DEF b, i, c
  <2>3. Written(q, s, row, i)
    BY <2>1, WriteEffect
  <2>4. QED
    BY <2>2, <2>3 DEF Written
<1> HIDE DEF b, i, c
<1>8. \A p \in Requests : InFlight(p) => job[p] \in Jobs
  BY DEF IInv, TypeOK, InFlight
<1>9. ASSUME NEW p \in Requests, InFlight(p)
      PROVE  /\ job'[p] \in Jobs /\ job'[p] /= Idle
             /\ job'[p].op = job[p].op /\ job'[p].arg = job[p].arg
             /\ job'[p].at = IF p = q THEN job[p].at + 1 ELSE job[p].at
             /\ \A t \in Slots : job'[p].beans[t] =
                    IF p = q /\ t = s THEN c ELSE AgedBean(job[p].beans[t], i)
  BY <1>7, <1>9
<1>10. \A p \in Requests : ~InFlight(p) => job'[p] = Idle
  BY <1>7
<1>11. job[q].at + 1 <= Len(Program[job[q].op])
  BY <1>1, CallsGoOn DEF MayWrite
<1>12. /\ DOMAIN rows' = DOMAIN rows /\ rows' \in Seq(Row) /\ Len(rows') = Len(rows)
       /\ \A k \in DOMAIN rows : rows'[k] = IF k = i THEN row ELSE rows[k]
  BY <1>3, <1>4, <1>5 DEF IInv, TypeOK
<1>13. Defaults' \subseteq Defaults
  BY <1>3, <1>4, <1>12 DEF Defaults, Live
<1>14. TypeOK'
  <2>1. job' \in [Requests -> Jobs \cup {Idle}]
    BY <1>7
  <2>2. \A p \in Requests : job'[p] /= Idle => job'[p].at <= Len(Program[job'[p].op])
    BY <1>9, <1>10, <1>11 DEF IInv, TypeOK
  <2>3. QED
    BY <1>5, <1>12, <2>1, <2>2 DEF IInv, TypeOK, InFlight
<1>15. OneDefault'
  BY <1>13, FewerDefaults DEF IInv
<1>16. Exclusion'
  <2> SUFFICES ASSUME NEW p \in Requests, NEW r \in Requests, p /= r, p[2] = "table",
                      r[2] = "table", job'[p] /= Idle, job'[r] /= Idle
               PROVE  job'[p].at = 1 \/ job'[r].at = 1
    BY DEF Exclusion, InFlight
  <2>1. InFlight(p) /\ InFlight(r)
    BY <1>10
  <2>2. job'[p].at = (IF p = q THEN job[p].at + 1 ELSE job[p].at)
        /\ job'[r].at = IF r = q THEN job[r].at + 1 ELSE job[r].at
    BY <1>9, <2>1
  <2>3. QED
    BY <2>1, <2>2 DEF MayWrite, MayEnter, IInv, Exclusion
<1>17. ASSUME NEW p \in Requests PROVE JobInv(p, job[p])'
  <2>1. CASE ~InFlight(p)
    BY <1>10, <2>1 DEF JobInv
  <2>2. CASE InFlight(p)
    <3> PICK j : j = job'[p]
      OBVIOUS
    <3>1. /\ j.op = job[p].op /\ j.arg = job[p].arg
          /\ j.at = (IF p = q THEN job[p].at + 1 ELSE job[p].at)
          /\ \A t \in Slots : j.beans[t] =
                 IF p = q /\ t = s THEN c ELSE AgedBean(job[p].beans[t], i)
      BY <1>9, <2>2
    <3>2. job[p] \in Jobs /\ JobInv(p, job[p]) /\ job[p] /= Idle
      BY <1>8, <2>2 DEF IInv, InFlight
    <3>3. \A t \in Slots : job[p].beans[t] \in Beans \cup {NoBean}
      BY <3>2 DEF Jobs
    <3>4. \A t \in Slots : j.beans[t] = NoBean => job[p].beans[t] = NoBean
      BY <1>3, <1>6, <3>1, <3>3, AgedBeans
    <3>5. j.at <= Len(Program[j.op])
      BY <1>11, <3>1, <3>2 DEF JobInv
    <3>6. j.op \in SelectorOps <=> p[2] = "selector"
      BY <3>1, <3>2 DEF JobInv
    <3>7. Filled(j.op, j.at, j.beans)
      <4>1. Filled(j.op, j.at, job[p].beans)
        BY <3>1, <3>2 DEF JobInv, MayWrite
      <4>2. job[p].beans["target"] /= NoBean =>
                j.beans["target"].row.default = job[p].beans["target"].row.default
        <5>1. "target" \in Slots
          BY DEF Slots
        <5>2. CASE p = q /\ s = "target"
          BY <3>1, <5>1, <5>2, <1>3, <1>6 DEF MayWrite, Of
        <5>3. CASE ~(p = q /\ s = "target")
          BY <3>1, <3>3, <5>1, <5>3, <1>3, AgedBeans
        <5>4. QED BY <5>2, <5>3
      <4>3. j.at \in Nat
        BY <3>1, <3>2 DEF Jobs
      <4>4. QED
        BY <3>4, <4>1, <4>2, <4>3, FilledBeans
    <3>8. ASSUME NEW t \in Slots PROVE BeanInv(j, t, j.beans[t])'
      <4>1. BeanInv(job[p], t, job[p].beans[t])
        BY <3>2 DEF JobInv
      <4>2. CASE p = q /\ t = s
        <5>1. j.beans[t] = c /\ job[p].beans[t] = b
          BY <3>1, <4>2 DEF b, Of
        <5>2. c.row.default = b.row.default /\ (c.row.live \/ Call(j) = "answer")
          BY <1>3, <1>6, <3>1, <4>2 DEF MayWrite, Call, b
        <5>3. QED
          BY <1>2, <1>3, <1>4, <1>6, <1>12, <3>1, <4>1, <5>1, <5>2 DEF BeanInv, Call, i
      <4>3. CASE ~(p = q /\ t = s)
        <5>1. j.beans[t] = AgedBean(job[p].beans[t], i)
          BY <3>1, <4>3
        <5>2. /\ j.beans[t] /= NoBean =>
                     /\ job[p].beans[t] /= NoBean
                     /\ j.beans[t].id = job[p].beans[t].id
                     /\ j.beans[t].row = job[p].beans[t].row
                     /\ j.beans[t].fresh => job[p].beans[t].fresh /\ job[p].beans[t].id /= i
          BY <1>3, <3>3, <5>1, AgedBeans
        <5>3. p = q => Call(job[p]) /= "answer"
          BY DEF MayWrite
        <5>4. p /= q => Call(j) = Call(job[p])
          BY <3>1 DEF Call
        <5> DEFINE d == job[p].beans[t]
        <5>5. d /= NoBean => /\ d.id \in DOMAIN rows
                             /\ d.row.default = rows[d.id].default
                             /\ d.fresh => rows[d.id] = d.row
                             /\ t = "default" => d.row.default
                             /\ t = "target" /\ job[p].op = "Save" => d.id = job[p].arg
                             /\ d.fresh /\ ~d.row.live =>
                                    \/ Call(job[p]) = "answer"
                                    \/ job[p].op = "Page" /\ t = "old"
          BY <4>1 DEF BeanInv
        <5>6. d.fresh /\ ~d.row.live /\ d /= NoBean =>
                  Call(j) = "answer" \/ (job[p].op = "Page" /\ t = "old")
          BY <5>3, <5>4, <5>5
        <5> HIDE DEF d
        <5>7. d /= NoBean => /\ d.id \in DOMAIN rows'
                             /\ rows'[d.id].default = rows[d.id].default
                             /\ d.id /= i => rows'[d.id] = rows[d.id]
          BY <1>4, <1>12, <5>5
        <5>8. Call(j)' = Call(j)
          BY DEF Call
        <5>9. j.beans[t] /= NoBean =>
                     /\ d /= NoBean
                     /\ j.beans[t].id = d.id
                     /\ j.beans[t].row = d.row
                     /\ j.beans[t].fresh => d.fresh /\ d.id /= i
          BY <5>2 DEF d
        <5>10. QED
          BY <3>1, <5>5, <5>6, <5>7, <5>8, <5>9 DEF BeanInv
      <4>4. QED
        BY <4>2, <4>3
    <3>9. InsertIsDue(j) => Defaults' = {}
      <4>1. InsertIsDue(j) => p /= q
        BY <3>1, <3>2 DEF InsertIsDue, MayWrite, Jobs
      <4>2. InsertIsDue(j) => InsertIsDue(job[p])
        BY <3>1, <3>4, <4>1 DEF InsertIsDue, Slots
      <4>3. QED
        BY <1>13, <3>2, <4>2 DEF JobInv
    <3>10. ArgInv(j)'
      BY <1>12, <3>1, <3>2 DEF JobInv, ArgInv
    <3>11. QED
      BY <3>5, <3>6, <3>7, <3>8, <3>9, <3>10 DEF JobInv, InsertIsDue, Defaults, Live
  <2>3. QED
    BY <2>1, <2>2
<1>18. Kept
  <2>1. \A k \in DOMAIN rows : ~rows[k].live => rows'[k] = rows[k]
    BY <1>3, <1>12
  <2>2. ASSUME NEW k \in DOMAIN rows, ~rows[k].default, rows'[k].conf /= rows[k].conf
        PROVE  /\ At(q, "saveConf") /\ job[q].arg = k
               /\ rows'[k].conf = Of(q, "default").row.conf
    <3>1. k = i /\ rows'[k] = row
      BY <1>12, <2>2
    <3>2. Call(job[q]) = "saveConf" /\ s = "target" /\ row.conf = Of(q, "default").row.conf
      BY <1>3, <2>2, <3>1 DEF MayWrite, b
    <3>3. job[q].op = "Save"
      BY <3>2, JobOf DEF Places, MayWrite
    <3>4. QED
      BY <1>1, <1>2, <3>1, <3>2, <3>3 DEF BeanInv, At, InFlight, Call, i
  <2>3. QED
    BY <1>12, <2>1, <2>2 DEF Kept
<1>19. QED
  BY <1>14, <1>15, <1>16, <1>17, <1>18 DEF IInv

\* A step that writes no row keeps them.
LEMMA KeptUnchanged == ASSUME UNCHANGED rows PROVE Kept
  BY DEF Kept

\* A call that has nothing to do.
LEMMA AdvanceInv ==
    ASSUME IInv, NEW q \in Requests, InFlight(q), MayEnter(q), Call(job[q]) /= "answer",
           Advance(q), UNCHANGED <<rows, view, overlap, requests>>,
           Filled(job[q].op, job[q].at + 1, job[q].beans),
           job[q].op \in {"Page", "SharedPage"} => job[q].at > 1
    PROVE  IInv'
<1>1. job[q] \in Jobs /\ JobInv(q, job[q]) /\ job[q] /= Idle
  BY JobOf DEF IInv, InFlight
<1>2. job[q].beans \in [Slots -> Beans \cup {NoBean}] /\ job[q].at \in Nat
  BY <1>1 DEF Jobs
<1> DEFINE s == "target"
           b == job[q].beans[s]
<1>3. s \in Slots /\ b \in Beans \cup {NoBean} /\ BeanInv(job[q], s, b)
  BY <1>1, <1>2 DEF JobInv, Slots
<1>4. StepWith(job[q], s, b) = Step(job[q])
  <2>1. [job[q] EXCEPT !.beans[s] = b] = job[q]
    BY <1>1, <1>2, <1>3 DEF Jobs
  <2>2. QED
    BY <2>1 DEF StepWith
<1>5. [job[q].beans EXCEPT ![s] = b] = job[q].beans
  BY <1>2, <1>3
<1>6. job' = [job EXCEPT ![q] = StepWith(@, s, b)]
  BY <1>4 DEF Advance, IInv, TypeOK
<1> HIDE DEF b, s
<1>7. LET beans == [job[q].beans EXCEPT ![s] = b]
      IN  /\ Filled(job[q].op, job[q].at + 1, beans)
          /\ job[q].op \in {"Page", "SharedPage"} /\ job[q].at = 1
             /\ beans["default"] = NoBean => Defaults = {}
  BY <1>2, <1>5
<1>8. QED
  BY <1>3, <1>6, <1>7, StepInv

\* A save does nothing, is refused by the version column, or writes.
LEMMA SavesInv ==
    ASSUME IInv, NEW q \in Requests, NEW s \in Slots, NEW row,
           MayWrite(q, s, row), Saves(q, s, row)
    PROVE  IInv' /\ Kept
<1>1. CASE row = Of(q, s).row
  BY <1>1, AdvanceInv, KeptUnchanged DEF Saves, MayWrite
<1>2. CASE row /= Of(q, s).row /\ Outrun(Of(q, s))
  <2>1. Fails(q)
    BY <1>2 DEF Saves, Writes
  <2>2. QED
    BY <2>1, FailsInv, KeptUnchanged DEF Fails
<1>3. CASE row /= Of(q, s).row /\ ~Outrun(Of(q, s))
  BY <1>3, WritesInv DEF Saves
<1>4. QED
  BY <1>1, <1>2, <1>3

-----------------------------------------------------------------------------
(* A call that inserts a row *)

\* An insert: of a default row only when there is none, by a request which holds
\* the monitor, so that no other one is about to insert another.
LEMMA InsertsInv ==
    ASSUME IInv, NEW q \in Requests, NEW s \in Slots, NEW row \in Row,
           InFlight(q), MayEnter(q), Call(job[q]) /= "answer", Inserts(q, s, row),
           row.live, row.default <=> s = "default",
           row.default => Defaults = {} /\ q[2] = "table" /\ job[q].at = 2,
           s = "target" => job[q].op /= "Save",
           job[q].op \in {"Page", "SharedPage"} => job[q].at > 1,
           \A b \in Beans : Filled(job[q].op, job[q].at + 1, [job[q].beans EXCEPT ![s] = b])
    PROVE  IInv' /\ Kept
<1> DEFINE n == Len(rows) + 1
           b == [id |-> n, row |-> row, fresh |-> TRUE]
           k == StepWith(job[q], s, b)
<1>1. job[q] \in Jobs /\ job[q].at <= Len(Program[job[q].op]) /\ JobInv(q, job[q])
      /\ job[q] /= Idle /\ job[q].at \in Nat \ {0}
      /\ job[q].beans \in [Slots -> Beans \cup {NoBean}]
  BY JobOf DEF IInv, InFlight, Jobs
<1>2. Len(rows) \in Nat /\ n \in RowIds /\ DOMAIN rows = 1..Len(rows) /\ Len(rows) < MaxRows
  BY BoundsAssumption DEF IInv, TypeOK, Inserts, RowIds
<1>3. /\ rows' \in Seq(Row) /\ Len(rows') = n /\ DOMAIN rows' = 1..n
      /\ rows'[n] = row /\ \A i \in DOMAIN rows : rows'[i] = rows[i]
  BY <1>2 DEF Inserts, IInv, TypeOK
<1>4. b \in Beans /\ b.id = n /\ b.row = row /\ b.fresh = TRUE
  BY <1>2 DEF Beans
<1>5. job' = [job EXCEPT ![q] = k] /\ UNCHANGED <<view, overlap, requests>>
  BY DEF Inserts, StepWith
<1> HIDE DEF b
<1>6. /\ k \in Jobs /\ k.op = job[q].op /\ k.at = job[q].at + 1 /\ k.arg = job[q].arg
      /\ k.beans = [job[q].beans EXCEPT ![s] = b]
  BY <1>1, <1>4, FieldsOfStep
<1> HIDE DEF k
<1>7. \A p \in Requests : job'[p] = IF p = q THEN k ELSE job[p]
  BY <1>5 DEF IInv, TypeOK
<1>8. k.at <= Len(Program[k.op])
  BY <1>1, <1>6, CallsGoOn
<1>9. TypeOK'
  <2>1. job' \in [Requests -> Jobs \cup {Idle}]
    BY <1>5, <1>6 DEF IInv, TypeOK
  <2>2. \A p \in Requests : job'[p] /= Idle => job'[p].at <= Len(Program[job'[p].op])
    BY <1>7, <1>8 DEF IInv, TypeOK, InFlight
  <2>3. Len(rows') <= MaxRows
    BY <1>2, <1>3, BoundsAssumption
  <2>4. QED
    BY <1>3, <1>5, <2>1, <2>2, <2>3 DEF IInv, TypeOK, InFlight
<1>10. Defaults' = IF row.default THEN {n} ELSE Defaults
  <2>1. \A i : i \in Defaults' <=> i \in 1..n /\ rows'[i].live /\ rows'[i].default
    BY <1>3 DEF Defaults, Live
  <2>2. \A i : i \in Defaults <=> i \in 1..Len(rows) /\ rows[i].live /\ rows[i].default
    BY <1>2 DEF Defaults, Live
  <2>3. 1..n = 1..Len(rows) \cup {n} /\ n \notin 1..Len(rows)
    BY <1>2
  <2> HIDE DEF n
  <2>4. \A i \in 1..Len(rows) : i \in Defaults' <=> i \in Defaults
    BY <1>2, <1>3, <2>1, <2>2, <2>3
  <2>5. n \in Defaults' <=> row.default
    BY <1>3, <2>1, <2>3
  <2>6. Defaults' \subseteq 1..n /\ Defaults \subseteq 1..Len(rows)
    BY <2>1, <2>2
  <2>7. CASE row.default
    <3>1. Defaults = {}
      BY <2>7
    <3>2. QED
      BY <2>3, <2>4, <2>5, <2>6, <2>7, <3>1
  <2>8. CASE ~row.default
    <3>1. \A i : i \in Defaults' => i \in 1..Len(rows)
      BY <2>3, <2>5, <2>6, <2>8
    <3>2. Defaults' = Defaults
      BY <2>4, <2>6, <3>1
    <3>3. QED
      BY <2>8, <3>2
  <2>9. QED
    BY <2>7, <2>8
<1>11. OneDefault'
  <2>1. Cardinality({n}) = 1
    BY FS_Singleton
  <2>2. QED
    BY <1>10, <2>1 DEF OneDefault, IInv
<1>12. Exclusion'
  <2> SUFFICES ASSUME NEW p \in Requests, NEW r \in Requests, p /= r, p[2] = "table",
                      r[2] = "table", job'[p] /= Idle, job'[r] /= Idle
               PROVE  job'[p].at = 1 \/ job'[r].at = 1
    BY DEF Exclusion, InFlight
  <2>1. InFlight(p) /\ InFlight(r)
    BY <1>7 DEF InFlight
  <2>2. CASE p = q \/ r = q
    BY <1>7, <2>1, <2>2 DEF MayEnter
  <2>3. CASE p /= q /\ r /= q
    BY <1>7, <2>1, <2>3 DEF IInv, Exclusion
  <2>4. QED
    BY <2>2, <2>3
<1>13. \A p \in Requests \ {q} : JobInv(p, job[p])'
  <2> SUFFICES ASSUME NEW p \in Requests \ {q}, InFlight(p)
               PROVE  JobInv(p, job[p])'
    BY <1>7 DEF JobInv, InFlight
  <2>1. PICK j : j = job[p]
    OBVIOUS
  <2>2. job'[p] = j /\ JobInv(p, j) /\ j /= Idle /\ j \in Jobs
    BY <1>7, <2>1, JobOf DEF IInv, InFlight
  <2>3. ASSUME NEW t \in Slots PROVE BeanInv(j, t, j.beans[t])'
    BY <1>2, <1>3, <2>2 DEF JobInv, BeanInv, Call
  <2>4. ~(InsertIsDue(j) /\ row.default)
    <3> SUFFICES ASSUME InsertIsDue(j), row.default PROVE FALSE
      OBVIOUS
    <3>1. p[2] = "table"
      <4>1. p[2] \in Lanes
        BY DEF Requests
      <4>2. p[2] /= "selector"
        BY <2>2 DEF InsertIsDue, JobInv, SelectorOps
      <4>3. QED
        BY <4>1, <4>2 DEF Lanes
    <3>2. job[p].at = 2
      BY <2>1 DEF InsertIsDue
    <3>3. QED
      BY <3>1, <3>2 DEF IInv, Exclusion
  <2>5. InsertIsDue(j) => Defaults' = {}
    BY <1>10, <2>2, <2>4 DEF JobInv
  <2>6. ArgInv(j)'
    BY <1>2, <1>3, <2>2 DEF JobInv, ArgInv
  <2>7. QED
    BY <2>2, <2>3, <2>5, <2>6 DEF JobInv, InsertIsDue
<1>14. JobInv(q, job[q])'
  <2>1. PICK j : j = k
    OBVIOUS
  <2>2. ASSUME NEW t \in Slots PROVE BeanInv(j, t, j.beans[t])'
    <3>1. CASE t = s
      <4>1. j.beans[t] = b
        BY <1>1, <1>6, <2>1, <3>1
      <4>2. QED
        BY <1>3, <1>4, <1>6, <2>1, <3>1, <4>1 DEF BeanInv
    <3>2. CASE t /= s
      <4>1. j.beans[t] = job[q].beans[t]
        BY <1>1, <1>6, <2>1, <3>2
      <4>2. BeanInv(job[q], t, j.beans[t])
        BY <1>1, <4>1 DEF JobInv
      <4>3. QED
        BY <1>2, <1>3, <1>6, <2>1, <4>2 DEF BeanInv
    <3>3. QED
      BY <3>1, <3>2
  <2>3. ~InsertIsDue(j)
    BY <1>1, <1>6, <2>1 DEF InsertIsDue
  <2>4. j.op \in SelectorOps <=> q[2] = "selector"
    BY <1>1, <1>6, <2>1 DEF JobInv
  <2>5. Filled(j.op, j.at, j.beans)
    BY <1>4, <1>6, <2>1
  <2>6. job'[q] = j
    BY <1>7, <2>1
  <2>7. ArgInv(j)'
    BY <1>1, <1>2, <1>3, <1>6, <2>1 DEF JobInv, ArgInv
  <2>8. QED
    BY <1>8, <2>1, <2>2, <2>3, <2>4, <2>5, <2>6, <2>7 DEF JobInv, InsertIsDue
<1>15. Kept
  BY <1>2, <1>3 DEF Kept
<1>16. \A p \in Requests : JobInv(p, job[p])'
  BY <1>13, <1>14
<1>17. QED
  BY <1>9, <1>11, <1>12, <1>15, <1>16 DEF IInv

-----------------------------------------------------------------------------
(* The calls, one by one *)

\* What a request knows when it makes a call.
LEMMA Doing ==
    ASSUME IInv, NEW q \in Requests, NEW call, Does(q, call)
    PROVE  /\ InFlight(q) /\ MayEnter(q) /\ Call(job[q]) = call
           /\ job[q] \in Jobs /\ JobInv(q, job[q]) /\ job[q] /= Idle
           /\ job[q].op \in Ops /\ job[q].at \in Nat \ {0}
           /\ job[q].beans \in [Slots -> Beans \cup {NoBean}]
           /\ Places(job[q].op, job[q].at, call)
           /\ Filled(job[q].op, job[q].at, job[q].beans)
           /\ \A s \in Slots : BeanInv(job[q], s, job[q].beans[s])
           /\ job[q].op \in SelectorOps <=> q[2] = "selector"
           /\ q[2] \in Lanes
<1>1. InFlight(q) /\ MayEnter(q) /\ Call(job[q]) = call
  BY DEF Does, At, Call
<1>2. job[q] \in Jobs /\ JobInv(q, job[q]) /\ job[q] /= Idle
      /\ Places(job[q].op, job[q].at, call)
  BY <1>1, JobOf DEF IInv, InFlight
<1>3. q[2] \in Lanes
  BY DEF Requests
<1>4. QED
  BY <1>1, <1>2, <1>3 DEF JobInv, Jobs

\* A call that answers a query.
LEMMA ReadsInv ==
    ASSUME IInv, NEW q \in Requests, NEW s \in Slots, NEW found \in SUBSET DOMAIN rows,
           InFlight(q), MayEnter(q), Call(job[q]) /= "answer", Reads(q, s, found),
           s = "default" => found \subseteq Defaults,
           s = "target" /\ job[q].op = "Save" => found \subseteq {job[q].arg},
           found \subseteq Live \/ (job[q].op = "Page" /\ s = "old"),
           Filled(job[q].op, job[q].at + 1, [job[q].beans EXCEPT ![s] = Bean(found)]),
           job[q].op \in {"Page", "SharedPage"} =>
               job[q].at > 1 \/ (s = "default" /\ found = Defaults)
    PROVE  IInv' /\ Kept
<1>1. CASE ~IsUnique(found)
  <2>1. Fails(q)
    BY <1>1 DEF Reads
  <2>2. QED
    BY <2>1, FailsInv, KeptUnchanged DEF Fails
<1>2. CASE IsUnique(found)
  <2> DEFINE b == Bean(found)
  <2>1. /\ b \in Beans \cup {NoBean}
        /\ b = NoBean <=> found = {}
        /\ found /= {} => b.id \in found /\ b.row = rows[b.id] /\ b.fresh = TRUE
    BY BeanType DEF IInv
  <2>2. job' = [job EXCEPT ![q] = StepWith(@, s, b)]
        /\ UNCHANGED <<rows, view, overlap, requests>>
    BY <1>2 DEF Reads, StepWith, IInv, TypeOK
  <2>3. job[q].at \in Nat \ {0} /\ job[q].beans \in [Slots -> Beans \cup {NoBean}]
    BY JobOf DEF Jobs
  <2> HIDE DEF b
  <2>4. BeanInv(job[q], s, b)
    BY <2>1 DEF BeanInv, Defaults, Live
  <2>5. LET beans == [job[q].beans EXCEPT ![s] = b]
        IN  /\ Filled(job[q].op, job[q].at + 1, beans)
            /\ job[q].op \in {"Page", "SharedPage"} /\ job[q].at = 1
               /\ beans["default"] = NoBean => Defaults = {}
    <3>1. Filled(job[q].op, job[q].at + 1, [job[q].beans EXCEPT ![s] = b])
      BY DEF b
    <3>2. QED
      BY <2>1, <2>3, <3>1
  <2>6. IInv'
    BY <2>1, <2>2, <2>4, <2>5, StepInv
  <2>7. QED
    BY <2>2, <2>6, KeptUnchanged
<1>3. QED
  BY <1>1, <1>2

\* A request that throws keeps the rows.
LEMMA FailsKept ==
    ASSUME IInv, NEW q \in Requests, Fails(q)
    PROVE  IInv' /\ Kept
  BY FailsInv, KeptUnchanged DEF Fails

\* Reading the filter the click was about.
LEMMA ReadTargetInv ==
    ASSUME IInv, NEW q \in Requests, ReadTarget(q)
    PROVE  IInv' /\ Kept
<1> DEFINE id == job[q].arg
<1>1. Does(q, "readTarget")
  BY DEF ReadTarget
<1>2. job[q].op \in {"Save", "Change", "Edit", "Delete"} /\ job[q].at = 1
  BY <1>1, Doing DEF Places
<1>3. CASE id \in Live /\ Reads(q, "target", {id})
  <2>1. {id} \in SUBSET DOMAIN rows
    BY <1>3 DEF Live
  <2>2. Bean({id}) /= NoBean
    BY <2>1, BeanType DEF IInv
  <2>3. Filled(job[q].op, job[q].at + 1, [job[q].beans EXCEPT !["target"] = Bean({id})])
    BY <1>1, <1>2, <2>2, Doing DEF Filled, Slots
  <2>4. InFlight(q) /\ MayEnter(q) /\ Call(job[q]) /= "answer"
    BY <1>1, Doing
  <2>5. "target" \in Slots
    BY DEF Slots
  <2>6. QED
    BY <1>2, <1>3, <2>1, <2>3, <2>4, <2>5, ReadsInv
<1>4. CASE Fails(q)
  BY <1>4, FailsKept
<1>5. QED
  BY <1>3, <1>4 DEF ReadTarget

\* Reading the selected filter, or the default one when none is.
LEMMA ReadSelectedInv ==
    ASSUME IInv, NEW q \in Requests, ReadSelected(q)
    PROVE  IInv' /\ Kept
<1>1. Does(q, "readSelected")
  BY DEF ReadSelected
<1>2. \/ job[q].op \in {"Create", "Clear"} /\ job[q].at = 1
      \/ job[q].op = "Change" /\ job[q].at = 2
      \/ job[q].op = "Page" /\ job[q].at = 3
      \/ job[q].op = "SharedPage" /\ job[q].at = 5
  BY <1>1, Doing DEF Places
<1>3. ASSUME NEW b
      PROVE  Filled(job[q].op, job[q].at + 1, [job[q].beans EXCEPT !["old"] = b])
  BY <1>1, <1>2, Doing DEF Filled, Slots
<1>4. SelectedOrDefault \in SUBSET DOMAIN rows /\ SelectedOrDefault \subseteq Live
  BY DEF SelectedOrDefault, Selected, Defaults, Live
<1>5. InFlight(q) /\ MayEnter(q) /\ Call(job[q]) /= "answer" /\ "old" \in Slots
  BY <1>1, Doing DEF Slots
<1>6. job[q].op \in {"Page", "SharedPage"} => job[q].at > 1
  BY <1>2
<1>7. CASE Reads(q, "old", SelectedOrDefault)
  BY <1>3, <1>4, <1>7, <1>5, <1>6, ReadsInv
<1>8. CASE job[q].op = "Page" /\ Reads(q, "old", {Of(q, "default").id})
  <2>1. Of(q, "default") /= NoBean /\ BeanInv(job[q], "default", Of(q, "default"))
    BY <1>1, <1>2, <1>8, Doing DEF Filled, Of, Slots
  <2>2. {Of(q, "default").id} \in SUBSET DOMAIN rows
    BY <2>1 DEF BeanInv
  <2>3. QED
    BY <1>3, <1>8, <1>5, <1>6, <2>2, ReadsInv
<1>9. CASE Fails(q)
  BY <1>9, FailsKept
<1>10. QED
  BY <1>7, <1>8, <1>9 DEF ReadSelected

\* A call that has nothing to do, with what is left to show for each of them.
LEMMA AdvancingCall ==
    ASSUME IInv, NEW q \in Requests, NEW call, Does(q, call), call /= "answer",
           Advance(q), UNCHANGED <<rows, view, overlap, requests>>,
           job[q].op \in {"Page", "SharedPage"} => job[q].at > 1,
           Filled(job[q].op, job[q].at + 1, job[q].beans)
    PROVE  IInv' /\ Kept
<1>1. InFlight(q) /\ MayEnter(q) /\ Call(job[q]) /= "answer"
  BY Doing
<1>2. IInv'
  BY <1>1, AdvanceInv
<1>3. QED
  BY <1>2, KeptUnchanged

\* Reading the default filter.
LEMMA ReadDefaultInv ==
    ASSUME IInv, NEW q \in Requests, ReadDefault(q)
    PROVE  IInv' /\ Kept
<1>1. Does(q, "readDefault")
  BY DEF ReadDefault
<1>2. \/ job[q].op \in {"Create", "Clear"} /\ job[q].at = 3
      \/ job[q].op \in {"Save", "Delete"} /\ job[q].at = 2
      \/ job[q].op = "Change" /\ job[q].at = 5
      \/ job[q].op \in {"Page", "SharedPage", "Persist"} /\ job[q].at = 1
  BY <1>1, Doing DEF Places
<1>3. CASE Fails(q)
  BY <1>3, FailsKept
<1>4. CASE Reads(q, "default", Defaults)
           /\ ~(Defaults = {} /\ job[q].op \in {"Create", "Save", "Clear", "Change", "Persist"})
           /\ ~(job[q].op = "Change" /\ Of(q, "target").row.default)
  <2>1. Defaults \in SUBSET DOMAIN rows /\ Defaults \subseteq Live
    BY DEF Defaults, Live
  <2>2. Bean(Defaults) = NoBean <=> Defaults = {}
    BY <2>1, BeanType DEF IInv
  <2>3. Filled(job[q].op, job[q].at + 1,
               [job[q].beans EXCEPT !["default"] = Bean(Defaults)])
    BY <1>1, <1>2, <1>4, <2>2, Doing DEF Filled, Slots
  <2>4. QED
    BY <1>1, <1>4, <2>1, <2>3, Doing, ReadsInv DEF Slots
<1>5. CASE job[q].op = "Change" /\ Of(q, "target").row.default
  <2>1. Advance(q) /\ UNCHANGED <<rows, view, overlap, requests>>
    BY <1>5 DEF ReadDefault
  <2>2. Filled(job[q].op, job[q].at + 1, job[q].beans)
    BY <1>1, <1>2, <1>5, Doing DEF Filled, Of
  <2>3. QED
    BY <1>1, <1>5, <2>1, <2>2, AdvancingCall
<1>6. QED
  BY <1>3, <1>4, <1>5 DEF ReadDefault

\* Reading the filter of a key, which may have been deleted.
LEMMA ReadSharedInv ==
    ASSUME IInv, NEW q \in Requests, ReadShared(q)
    PROVE  IInv' /\ Kept
<1> DEFINE id == job[q].arg
<1>1. Does(q, "readShared")
  BY DEF ReadShared
<1>2. job[q].op = "SharedPage" /\ job[q].at = 3
  BY <1>1, Doing DEF Places
<1>3. id \in DOMAIN rows /\ {id} \in SUBSET DOMAIN rows
  BY <1>1, <1>2, Doing DEF JobInv, ArgInv
<1>4. CASE rows[id].live
  <2>1. Reads(q, "target", {id})
    BY <1>4 DEF ReadShared
  <2>2. Bean({id}) /= NoBean /\ {id} \subseteq Live
    BY <1>3, <1>4, BeanType DEF IInv, Live
  <2>3. Filled(job[q].op, job[q].at + 1, [job[q].beans EXCEPT !["target"] = Bean({id})])
    BY <1>1, <1>2, <2>2, Doing DEF Filled, Slots
  <2>4. InFlight(q) /\ MayEnter(q) /\ Call(job[q]) /= "answer"
    BY <1>1, Doing
  <2>5. "target" \in Slots
    BY DEF Slots
  <2>6. {id} \in SUBSET DOMAIN rows /\ {id} \subseteq Live
        /\ job[q].op /= "Save" /\ job[q].at > 1
    BY <1>2, <1>3, <2>2
  <2>7. QED
    BY <2>1, <2>3, <2>4, <2>5, <2>6, ReadsInv
<1>5. CASE ~rows[id].live
  <2> DEFINE k == [job[q] EXCEPT !.at = 7]
  <2>1. job' = [job EXCEPT ![q] = k] /\ UNCHANGED <<rows, view, overlap, requests>>
    BY <1>2, <1>5, Lengths DEF ReadShared, IInv, TypeOK
  <2>2. /\ k \in Jobs /\ k.op = "SharedPage" /\ k.at = 7 /\ k.arg = id
        /\ k.beans = job[q].beans
    BY <1>1, <1>2, Doing DEF Jobs
  <2> HIDE DEF k
  <2>3. Call(k) = "answer"
    BY <2>2 DEF Call, Program
  <2>4. \A s \in Slots : BeanInv(k, s, k.beans[s])
    BY <1>1, <1>2, <2>2, <2>3, Doing DEF BeanInv
  <2>5. Filled(k.op, k.at, k.beans)
    BY <1>1, <1>2, <2>2, Doing DEF Filled
  <2>6. ArgInv(k) /\ ~InsertIsDue(k)
    BY <1>3, <2>2 DEF ArgInv, InsertIsDue
  <2>7. JobInv(q, k)
    BY <1>1, <1>2, <2>2, <2>4, <2>5, <2>6, Lengths, Doing DEF JobInv
  <2>8. ShownOK'
    BY <2>1 DEF IInv, TypeOK, ShownOK
  <2>9. QED
    BY <1>1, <2>1, <2>2, <2>7, <2>8, Moves, KeptUnchanged, Doing
<1>6. QED
  BY <1>4, <1>5

\* The bean a call writes.
LEMMA Holding ==
    ASSUME IInv, NEW q \in Requests, NEW call, Does(q, call), call /= "answer",
           NEW s \in Slots, Of(q, s) /= NoBean
    PROVE  /\ Of(q, s) = job[q].beans[s] /\ Of(q, s) \in Beans /\ Of(q, s).row \in Row
           /\ Of(q, s).fresh => Of(q, s).row.live \/ (job[q].op = "Page" /\ s = "old")
           /\ s = "default" => Of(q, s).row.default
<1>1. Of(q, s) = job[q].beans[s]
  BY DEF Of
<1>2. Of(q, s) \in Beans /\ BeanInv(job[q], s, Of(q, s))
  BY <1>1, Doing
<1>3. Call(job[q]) /= "answer"
  BY Doing
<1>4. QED
  BY <1>1, <1>2, <1>3 DEF BeanInv, Beans

\* When a call may write: what is left to show for each of them.
LEMMA WritingCall ==
    ASSUME IInv, NEW q \in Requests, NEW call, Does(q, call), call /= "answer",
           NEW s \in Slots, Of(q, s) /= NoBean, NEW row \in Row,
           ~(job[q].op = "Page" /\ s = "old"),
           row.default = Of(q, s).row.default,
           row.live = Of(q, s).row.live \/ Program[job[q].op][job[q].at + 1] = "answer",
           job[q].op \in {"Page", "SharedPage"} => job[q].at > 1,
           Filled(job[q].op, job[q].at + 1, job[q].beans),
           \/ row.conf = Of(q, s).row.conf \/ s = "default"
           \/ call = "saveConf" /\ s = "target" /\ row.conf = Of(q, "default").row.conf
    PROVE  MayWrite(q, s, row)
<1>1. InFlight(q) /\ MayEnter(q) /\ Call(job[q]) = call
  BY Doing
<1>2. /\ Of(q, s).fresh => Of(q, s).row.live
      /\ s = "default" => Of(q, s).row.default
  BY Holding
<1>3. QED
  BY <1>1, <1>2 DEF MayWrite

\* Deselecting the filter which was read as the selected one.
LEMMA DeselectInv ==
    ASSUME IInv, NEW q \in Requests, Deselect(q)
    PROVE  IInv' /\ Kept
<1> DEFINE b == Of(q, "old")
           row == [b.row EXCEPT !.selected = FALSE]
<1>1. Does(q, "deselect")
  BY DEF Deselect
<1>2. \/ job[q].op \in {"Create", "Clear"} /\ job[q].at = 2
      \/ job[q].op = "Change" /\ job[q].at = 3
      \/ job[q].op = "SharedPage" /\ job[q].at = 6
  BY <1>1, Doing DEF Places
<1>3. Filled(job[q].op, job[q].at + 1, job[q].beans)
  BY <1>1, <1>2, Doing DEF Filled
<1>4. job[q].op /= "Page" /\ (job[q].op = "SharedPage" => job[q].at > 1)
  BY <1>2
<1>5. CASE b = NoBean
  BY <1>1, <1>3, <1>4, <1>5, AdvancingCall DEF Deselect
<1>6. CASE b /= NoBean
  <2>1. b.row \in Row
    BY <1>1, <1>6, Holding DEF Slots
  <2>2. /\ row \in Row /\ row.default = b.row.default /\ row.live = b.row.live
        /\ row.conf = b.row.conf
    BY <2>1 DEF Row
  <2>3. Saves(q, "old", row)
    BY <1>6 DEF Deselect
  <2> HIDE DEF row
  <2>4. MayWrite(q, "old", row)
    BY <1>1, <1>3, <1>4, <1>6, <2>2, WritingCall DEF Slots
  <2>5. QED
    BY <2>3, <2>4, SavesInv DEF Slots
<1>7. QED
  BY <1>5, <1>6

\* Selecting the filter the click was about.
LEMMA SelectInv ==
    ASSUME IInv, NEW q \in Requests, Select(q)
    PROVE  IInv' /\ Kept
<1> DEFINE b == Of(q, "target")
           row == [b.row EXCEPT !.selected = ~b.row.default]
<1>1. Does(q, "select") /\ Saves(q, "target", row)
  BY DEF Select
<1>2. job[q].op = "Change" /\ job[q].at = 4
  BY <1>1, Doing DEF Places
<1>3. Filled(job[q].op, job[q].at + 1, job[q].beans) /\ b /= NoBean
  BY <1>1, <1>2, Doing DEF Filled, Of
<1>4. b.row \in Row
  BY <1>1, <1>3, Holding DEF Slots
<1>5. /\ row \in Row /\ row.default = b.row.default /\ row.live = b.row.live
      /\ row.conf = b.row.conf
  BY <1>4 DEF Row
<1> HIDE DEF row
<1>6. MayWrite(q, "target", row)
  BY <1>1, <1>2, <1>3, <1>5, WritingCall DEF Slots
<1>7. QED
  BY <1>1, <1>6, SavesInv DEF Slots

\* The only call that writes a configuration to a stored filter.
LEMMA SaveConfInv ==
    ASSUME IInv, NEW q \in Requests, SaveConf(q)
    PROVE  IInv' /\ Kept
<1> DEFINE b == Of(q, "target")
           conf == Of(q, "default").row.conf
           row == [b.row EXCEPT !.conf = conf]
<1>1. Does(q, "saveConf") /\ Saves(q, "target", row)
  BY DEF SaveConf
<1>2. job[q].op = "Save" /\ job[q].at = 3
  BY <1>1, Doing DEF Places
<1>3. /\ Filled(job[q].op, job[q].at + 1, job[q].beans)
      /\ b /= NoBean /\ Of(q, "default") /= NoBean
  BY <1>1, <1>2, Doing DEF Filled, Of
<1>4. b.row \in Row /\ Of(q, "default").row \in Row
  BY <1>1, <1>3, Holding DEF Slots
<1>5. /\ row \in Row /\ row.default = b.row.default /\ row.live = b.row.live
      /\ row.conf = conf
  BY <1>4 DEF Row
<1> HIDE DEF row
<1>6. MayWrite(q, "target", row)
  BY <1>1, <1>2, <1>3, <1>5, WritingCall DEF Slots
<1>7. QED
  BY <1>1, <1>6, SavesInv DEF Slots

\* Copying a configuration to the default filter.
LEMMA CopyToDefaultInv ==
    ASSUME IInv, NEW q \in Requests, CopyToDefault(q)
    PROVE  IInv' /\ Kept
<1> DEFINE b == Of(q, "default")
           target == Of(q, "target").row
           row == [b.row EXCEPT !.conf = target.conf]
<1>1. Does(q, "copyToDefault")
  BY DEF CopyToDefault
<1>2. \/ job[q].op = "Change" /\ job[q].at = 6
      \/ job[q].op = "SharedPage" /\ job[q].at = 4
  BY <1>1, Doing DEF Places
<1>3. /\ Filled(job[q].op, job[q].at + 1, job[q].beans)
      /\ Of(q, "target") /= NoBean
  BY <1>1, <1>2, Doing DEF Filled, Of
<1>6. CASE target.default
  BY <1>1, <1>2, <1>3, <1>6, AdvancingCall DEF CopyToDefault
<1>7. CASE ~target.default
  <2>1. Saves(q, "default", row)
    BY <1>7 DEF CopyToDefault
  <2>2. b /= NoBean
    BY <1>1, <1>2, <1>7, Doing DEF Filled, Of
  <2>3. b.row \in Row /\ target \in Row
    BY <1>1, <1>3, <2>2, Holding DEF Slots
  <2>4. /\ row \in Row /\ row.default = b.row.default /\ row.live = b.row.live
    BY <2>3 DEF Row
  <2> HIDE DEF row
  <2>5. MayWrite(q, "default", row)
    BY <1>1, <1>2, <1>3, <2>2, <2>4, WritingCall DEF Slots
  <2>6. QED
    BY <2>1, <2>5, SavesInv DEF Slots
<1>8. QED
  BY <1>6, <1>7

\* Renaming: a save of the version alone.
LEMMA RenameInv ==
    ASSUME IInv, NEW q \in Requests, Rename(q)
    PROVE  IInv' /\ Kept
<1> DEFINE b == Of(q, "target")
<1>1. Does(q, "rename") /\ Writes(q, "target", b.row)
  BY DEF Rename
<1>2. job[q].op = "Edit" /\ job[q].at = 2
  BY <1>1, Doing DEF Places
<1>3. Filled(job[q].op, job[q].at + 1, job[q].beans) /\ b /= NoBean
  BY <1>1, <1>2, Doing DEF Filled, Of
<1>4. b.row \in Row
  BY <1>1, <1>3, Holding DEF Slots
<1>5. MayWrite(q, "target", b.row)
  BY <1>1, <1>2, <1>3, <1>4, WritingCall DEF Slots
<1>6. CASE Outrun(b)
  BY <1>1, <1>6, FailsKept DEF Writes
<1>7. CASE ~Outrun(b)
  BY <1>1, <1>5, <1>7, WritesInv DEF Slots
<1>8. QED
  BY <1>6, <1>7

\* Deleting a filter is the last thing its request does before the answer.
LEMMA DeleteTargetInv ==
    ASSUME IInv, NEW q \in Requests, DeleteTarget(q)
    PROVE  IInv' /\ Kept
<1> DEFINE b == Of(q, "target")
           row == [b.row EXCEPT !.live = FALSE]
<1>1. Does(q, "deleteTarget") /\ Saves(q, "target", row)
  BY DEF DeleteTarget
<1>2. job[q].op = "Delete" /\ job[q].at = 3
  BY <1>1, Doing DEF Places
<1>3. Filled(job[q].op, job[q].at + 1, job[q].beans) /\ b /= NoBean
  BY <1>1, <1>2, Doing DEF Filled, Of
<1>4. b.row \in Row
  BY <1>1, <1>3, Holding DEF Slots
<1>5. row \in Row /\ row.default = b.row.default /\ row.conf = b.row.conf
  BY <1>4 DEF Row
<1>6. Program[job[q].op][job[q].at + 1] = "answer"
  BY <1>2 DEF Program
<1>7. row.live = FALSE
  BY <1>4 DEF Row
<1> HIDE DEF row
<1>8. MayWrite(q, "target", row)
  <2>1. InFlight(q) /\ MayEnter(q) /\ Call(job[q]) = "deleteTarget"
    BY <1>1, Doing
  <2>2. QED
    BY <1>2, <1>3, <1>5, <1>6, <2>1 DEF MayWrite
<1>9. QED
  BY <1>1, <1>8, SavesInv DEF Slots

\* Deleting the default filter is the last thing Clear does before the answer.
LEMMA DeleteDefaultInv ==
    ASSUME IInv, NEW q \in Requests, DeleteDefault(q)
    PROVE  IInv' /\ Kept
<1> DEFINE b == Of(q, "default")
           row == [b.row EXCEPT !.live = FALSE]
<1>1. Does(q, "deleteDefault") /\ Saves(q, "default", row)
  BY DEF DeleteDefault
<1>2. job[q].op = "Clear" /\ job[q].at = 4
  BY <1>1, Doing DEF Places
<1>3. Filled(job[q].op, job[q].at + 1, job[q].beans) /\ b /= NoBean
  BY <1>1, <1>2, Doing DEF Filled, Of
<1>4. b.row \in Row
  BY <1>1, <1>3, Holding DEF Slots
<1>5. row \in Row /\ row.default = b.row.default /\ row.conf = b.row.conf
  BY <1>4 DEF Row
<1>6. Program[job[q].op][job[q].at + 1] = "answer"
  BY <1>2 DEF Program
<1> HIDE DEF row
<1>7. MayWrite(q, "default", row)
  <2>1. InFlight(q) /\ MayEnter(q) /\ Call(job[q]) = "deleteDefault"
    BY <1>1, Doing
  <2>2. QED
    BY <1>2, <1>3, <1>5, <1>6, <2>1 DEF MayWrite
<1>8. QED
  BY <1>1, <1>7, SavesInv DEF Slots

\* Storing the configuration of the browser.
LEMMA StoreInv ==
    ASSUME IInv, NEW q \in Requests, Store(q)
    PROVE  IInv' /\ Kept
<1> DEFINE b == Of(q, "default")
           row == [b.row EXCEPT !.conf = job[q].arg]
<1>1. Does(q, "store") /\ Saves(q, "default", row)
  BY DEF Store
<1>2. job[q].op = "Persist" /\ job[q].at = 2
  BY <1>1, Doing DEF Places
<1>3. /\ Filled(job[q].op, job[q].at + 1, job[q].beans) /\ b /= NoBean
      /\ job[q].arg \in Confs
  BY <1>1, <1>2, Doing DEF Filled, Of, JobInv, ArgInv
<1>4. b.row \in Row
  BY <1>1, <1>3, Holding DEF Slots
<1>5. row \in Row /\ row.default = b.row.default /\ row.live = b.row.live
  BY <1>3, <1>4 DEF Row
<1> HIDE DEF row
<1>6. MayWrite(q, "default", row)
  BY <1>1, <1>2, <1>3, <1>5, WritingCall DEF Slots
<1>7. QED
  BY <1>1, <1>6, SavesInv DEF Slots

\* Replacing an outdated configuration.
LEMMA ResetInv ==
    ASSUME IInv, NEW q \in Requests, Reset(q)
    PROVE  IInv' /\ Kept
<1> DEFINE b == Of(q, "default")
           row == IF b.row.conf \in Outdated THEN [b.row EXCEPT !.conf = Initial] ELSE b.row
<1>1. Does(q, "reset") /\ Saves(q, "default", row)
  BY DEF Reset
<1>2. \/ job[q].op = "Page" /\ job[q].at = 4
      \/ job[q].op = "Persist" /\ job[q].at = 3
  BY <1>1, Doing DEF Places
<1>3. Filled(job[q].op, job[q].at + 1, job[q].beans) /\ b /= NoBean
  BY <1>1, <1>2, Doing DEF Filled, Of
<1>4. b.row \in Row
  BY <1>1, <1>3, Holding DEF Slots
<1>5. row \in Row /\ row.default = b.row.default /\ row.live = b.row.live
  BY <1>4, ConfsAssumption DEF Row
<1> HIDE DEF row
<1>6. MayWrite(q, "default", row)
  BY <1>1, <1>2, <1>3, <1>5, WritingCall DEF Slots
<1>7. QED
  BY <1>1, <1>6, SavesInv DEF Slots

\* Creating the default filter: the page has seen that there is none and holds
\* the monitor since.
LEMMA InsertDefaultInv ==
    ASSUME IInv, NEW q \in Requests, InsertDefault(q)
    PROVE  IInv' /\ Kept
<1> DEFINE row == [live |-> TRUE, default |-> TRUE, selected |-> FALSE, conf |-> Initial]
<1>1. Does(q, "insertDefault")
  BY DEF InsertDefault
<1>2. job[q].op \in {"Page", "SharedPage"} /\ job[q].at = 2
  BY <1>1, Doing DEF Places
<1>3. CASE Of(q, "default") /= NoBean
  <2>1. Filled(job[q].op, job[q].at + 1, job[q].beans)
    BY <1>1, <1>2, <1>3, Doing DEF Filled, Of
  <2>2. QED
    BY <1>1, <1>2, <1>3, <2>1, AdvancingCall DEF InsertDefault
<1>4. CASE Of(q, "default") = NoBean
  <2>1. Inserts(q, "default", row)
    BY <1>4 DEF InsertDefault
  <2>2. row \in Row /\ row.live /\ row.default
    BY ConfsAssumption DEF Row
  <2>3. Defaults = {}
    BY <1>1, <1>2, <1>4, Doing DEF JobInv, InsertIsDue, Of
  <2>4. q[2] = "table"
    BY <1>1, <1>2, Doing DEF SelectorOps, Lanes
  <2>5. ASSUME NEW b \in Beans
        PROVE  Filled(job[q].op, job[q].at + 1, [job[q].beans EXCEPT !["default"] = b])
    <3>1. b /= NoBean
      BY BoundsAssumption DEF Beans, NoBean, NoRow, RowIds
    <3>2. QED
      BY <1>1, <1>2, <3>1, Doing DEF Filled, Slots
  <2>6. InFlight(q) /\ MayEnter(q) /\ Call(job[q]) /= "answer"
    BY <1>1, Doing
  <2> HIDE DEF row
  <2>7. QED
    BY <1>2, <2>1, <2>2, <2>3, <2>4, <2>5, <2>6, InsertsInv DEF Slots
<1>5. QED
  BY <1>3, <1>4

\* Creating a filter of the user.
LEMMA InsertInv ==
    ASSUME IInv, NEW q \in Requests, Insert(q)
    PROVE  IInv' /\ Kept
<1> DEFINE row == [live |-> TRUE, default |-> FALSE, selected |-> TRUE,
                   conf |-> Of(q, "default").row.conf]
<1>1. Does(q, "insert") /\ Inserts(q, "target", row)
  BY DEF Insert
<1>2. job[q].op = "Create" /\ job[q].at = 4
  BY <1>1, Doing DEF Places
<1>3. Of(q, "default") /= NoBean
  BY <1>1, <1>2, Doing DEF Filled, Of
<1>4. Of(q, "default").row \in Row
  BY <1>1, <1>3, Holding DEF Slots
<1>5. row \in Row /\ row.live /\ ~row.default
  BY <1>4 DEF Row
<1>6. ASSUME NEW b \in Beans
      PROVE  Filled(job[q].op, job[q].at + 1, [job[q].beans EXCEPT !["target"] = b])
  BY <1>1, <1>2, <1>3, Doing DEF Filled, Slots, Of
<1>7. InFlight(q) /\ MayEnter(q) /\ Call(job[q]) /= "answer"
  BY <1>1, Doing
<1> HIDE DEF row
<1>8. QED
  BY <1>1, <1>2, <1>5, <1>6, <1>7, InsertsInv DEF Slots

\* Answering writes no row.
LEMMA AnswerInv ==
    ASSUME IInv, NEW q \in Requests, Answer(q)
    PROVE  IInv' /\ Kept
<1>1. Does(q, "answer")
  BY DEF Answer
<1>2. CASE Fails(q)
  BY <1>2, FailsKept
<1>3. CASE ~Fails(q)
  <2>1. job' = [job EXCEPT ![q] = Idle] /\ UNCHANGED <<rows, overlap, requests>>
        /\ \/ view' = view
           \/ view' = [view EXCEPT ![q[1]] = Closed]
           \/ /\ Shown(q) /= NoBean
              /\ view' = [view EXCEPT ![q[1]] = [state |-> "ready", shown |-> Shown(q).id,
                                                 items |-> Available]]
    BY <1>3 DEF Answer
  <2>2. JobInv(q, Idle)
    BY DEF JobInv
  <2>3. q[1] \in Tabs
    BY DEF Requests
  <2>4. Shown(q) /= NoBean => Shown(q).id \in RowIds
    <3>1. Shown(q) \in Beans \cup {NoBean}
      BY <1>1, Doing DEF Shown, Of, Slots
    <3>2. QED
      BY <3>1 DEF Beans
  <2>5. Available \subseteq RowIds
    BY BoundsAssumption DEF Available, Live, RowIds, IInv, TypeOK
  <2>6. ShownOK'
    <3> DEFINE View == [state: {"closed", "wait", "ready"}, shown: RowIds \cup {NoRow},
                        items: SUBSET RowIds]
    <3>1. Closed \in View
      BY DEF Closed
    <3>2. Shown(q) /= NoBean =>
              [state |-> "ready", shown |-> Shown(q).id, items |-> Available] \in View
      BY <2>4, <2>5
    <3>3. view \in [Tabs -> View]
      BY DEF IInv, TypeOK
    <3> HIDE DEF View
    <3>4. view' \in [Tabs -> View]
      BY <2>1, <2>3, <3>1, <3>2, <3>3
    <3>5. QED
      BY <2>1, <3>4 DEF View, IInv, TypeOK, ShownOK
  <2>7. QED
    BY <2>1, <2>2, <2>6, Moves, KeptUnchanged
<1>4. QED
  BY <1>2, <1>3

\* Every call of a request keeps the invariant and the rows.
LEMMA ServerInv ==
    ASSUME IInv, Server
    PROVE  IInv' /\ Kept
<1>1. PICK q \in Requests :
        \/ ReadTarget(q) \/ ReadSelected(q) \/ Deselect(q) \/ Select(q)
        \/ ReadDefault(q) \/ InsertDefault(q) \/ Insert(q) \/ SaveConf(q)
        \/ CopyToDefault(q) \/ Rename(q) \/ DeleteTarget(q) \/ DeleteDefault(q)
        \/ ReadShared(q) \/ Store(q) \/ Reset(q) \/ Answer(q)
  BY DEF Server
<1>2. QED
  BY <1>1, ReadTargetInv, ReadSelectedInv, DeselectInv, SelectInv, ReadDefaultInv,
     InsertDefaultInv, InsertInv, SaveConfInv, CopyToDefaultInv, RenameInv,
     DeleteTargetInv, DeleteDefaultInv, ReadSharedInv, StoreInv, ResetInv, AnswerInv

-----------------------------------------------------------------------------
(* The browser *)

\* A request is sent: it has read nothing yet.
LEMMA SendsInv ==
    ASSUME IInv, NEW q \in Requests, NEW op \in Ops,
           NEW arg \in RowIds \cup Confs \cup {NoRow}, Sends(q, op, arg),
           op \in SelectorOps <=> q[2] = "selector",
           op = "SharedPage" => arg \in DOMAIN rows,
           op = "Persist" => arg \in Confs,
           view' \in [Tabs -> [state: {"closed", "wait", "ready"},
                               shown: RowIds \cup {NoRow}, items: SUBSET RowIds]]
    PROVE  IInv' /\ Kept
<1> DEFINE j == [op |-> op, at |-> 1, arg |-> arg, beans |-> [s \in Slots |-> NoBean]]
<1>1. /\ j \in Jobs /\ j.op = op /\ j.at = 1 /\ j.arg = arg
      /\ \A s \in Slots : j.beans[s] = NoBean
  BY DEF Jobs
<1>2. job' = [job EXCEPT ![q] = j] /\ UNCHANGED rows
  BY DEF Sends
<1> HIDE DEF j
<1>3. JobInv(q, j)
  <2>1. 1 <= Len(Program[op])
    <3>1. op \in {"Create", "Save", "Clear", "Change", "Edit", "Delete", "Page",
                  "SharedPage", "Persist"}
      BY Lengths
    <3>2. \A n \in {3, 4, 5, 7} : 1 <= n
      OBVIOUS
    <3>3. Len(Program[op]) \in {3, 4, 5, 7}
      BY <3>1, Lengths
    <3>4. QED
      BY <3>2, <3>3, Zenon
  <2>2. Filled(j.op, j.at, j.beans) /\ ArgInv(j) /\ ~InsertIsDue(j)
    BY <1>1 DEF Filled, ArgInv, InsertIsDue
  <2>3. \A s \in Slots : BeanInv(j, s, j.beans[s])
    BY <1>1 DEF BeanInv
  <2>4. QED
    BY <1>1, <2>1, <2>2, <2>3 DEF JobInv
<1>4. ShownOK'
  <2>1. requests' \in 0..MaxRequests
    BY BoundsAssumption DEF Sends, IInv, TypeOK
  <2>2. overlap' \in {"never", "some", "selecting"}
    BY DEF Sends, IInv, TypeOK
  <2>3. QED
    BY <2>1, <2>2 DEF ShownOK
<1>5. j \in Jobs \cup {Idle} /\ ~(j.at > 1)
  BY <1>1
<1>6. IInv'
  BY <1>2, <1>3, <1>4, <1>5, Moves
<1>7. QED
  BY <1>2, <1>6, KeptUnchanged

\* Nothing the user does in a tab writes a row.
LEMMA BrowserInv ==
    ASSUME IInv, Browser
    PROVE  IInv' /\ Kept
<1> DEFINE View == [state: {"closed", "wait", "ready"}, shown: RowIds \cup {NoRow},
                    items: SUBSET RowIds]
<1>1. view \in [Tabs -> View]
  BY DEF IInv, TypeOK
<1>2. PICK t \in Tabs :
        \/ \E op \in SelectorOps, id \in RowIds \cup {NoRow} : Click(t, op, id)
        \/ \E conf \in Confs : Refresh(t, conf)
        \/ \E id \in {NoRow} \cup {i \in DOMAIN rows : ~rows[i].default} : Open(t, id)
  BY DEF Browser
<1>3. <<t, "selector">> \in Requests /\ <<t, "table">> \in Requests
  BY DEF Requests, Lanes
<1>4. CASE \E op \in SelectorOps, id \in RowIds \cup {NoRow} : Click(t, op, id)
  <2>1. PICK op \in SelectorOps, id \in RowIds \cup {NoRow} : Click(t, op, id)
    BY <1>4
  <2>2. Sends(<<t, "selector">>, op, id) /\ view' = [view EXCEPT ![t].state = "wait"]
    BY <2>1 DEF Click
  <2>3. view' \in [Tabs -> View]
    BY <1>1, <2>2
  <2>4. op \in Ops /\ op \notin {"SharedPage", "Persist"}
    BY Lengths DEF SelectorOps
  <2>5. QED
    BY <1>3, <2>2, <2>3, <2>4, SendsInv
<1>5. CASE \E conf \in Confs : Refresh(t, conf)
  <2>1. PICK conf \in Confs : Refresh(t, conf)
    BY <1>5
  <2>2. Sends(<<t, "table">>, "Persist", conf) /\ view' = view
    BY <2>1 DEF Refresh
  <2>3. "Persist" \in Ops /\ "Persist" \notin SelectorOps
    BY Lengths DEF SelectorOps
  <2>4. QED
    BY <1>1, <1>3, <2>2, <2>3, SendsInv
<1>6. CASE \E id \in {NoRow} \cup {i \in DOMAIN rows : ~rows[i].default} : Open(t, id)
  <2>1. PICK id \in {NoRow} \cup {i \in DOMAIN rows : ~rows[i].default} : Open(t, id)
    BY <1>6
  <2> DEFINE op == IF id = NoRow THEN "Page" ELSE "SharedPage"
  <2>2. Sends(<<t, "table">>, op, id) /\ view' = [view EXCEPT ![t] = Closed]
    BY <2>1 DEF Open
  <2>3. op \in Ops /\ op \notin SelectorOps /\ op /= "Persist"
        /\ (op = "SharedPage" => id \in DOMAIN rows)
    BY Lengths DEF SelectorOps
  <2>4. id \in RowIds \cup {NoRow}
    BY BoundsAssumption DEF IInv, TypeOK, RowIds
  <2>5. Closed \in View
    BY DEF Closed
  <2>6. view' \in [Tabs -> View]
    BY <1>1, <2>2, <2>5
  <2> HIDE DEF op
  <2>7. QED
    BY <1>3, <2>2, <2>3, <2>4, <2>6, SendsInv
<1>7. QED
  BY <1>2, <1>4, <1>5, <1>6

-----------------------------------------------------------------------------
(* The theorems *)

\* The invariant holds at the start, for both kinds of user.
LEMMA InitInv == Init => IInv
<1> SUFFICES ASSUME Init PROVE IInv
  OBVIOUS
<1>1. job = [q \in Requests |-> Idle] /\ overlap = "never" /\ requests = 0
  BY DEF Init
<1>2. rows \in Seq(Row) /\ Len(rows) <= MaxRows /\ OneDefault
      /\ view \in [Tabs -> [state: {"closed", "wait", "ready"},
                            shown: RowIds \cup {NoRow}, items: SUBSET RowIds]]
  <2>1. CASE rows = <<>> /\ view = [t \in Tabs |-> Closed]
    <3>1. Defaults = {}
      BY <2>1 DEF Defaults, Live
    <3>2. OneDefault
      BY <3>1, FS_EmptySet DEF OneDefault
    <3>3. rows \in Seq(Row) /\ Len(rows) <= MaxRows
      BY <2>1, BoundsAssumption
    <3>4. QED
      BY <2>1, <3>2, <3>3 DEF Closed
  <2>2. CASE /\ \E conf \in Confs :
                   rows = <<[Stored(FALSE) EXCEPT !.default = TRUE],
                            [Stored(TRUE) EXCEPT !.conf = conf], Stored(FALSE)>>
             /\ view = [t \in Tabs |->
                          [state |-> "ready", shown |-> 2, items |-> {2, 3}]]
    <3>1. PICK conf \in Confs :
                   rows = <<[Stored(FALSE) EXCEPT !.default = TRUE],
                            [Stored(TRUE) EXCEPT !.conf = conf], Stored(FALSE)>>
      BY <2>2
    <3> DEFINE r1 == [Stored(FALSE) EXCEPT !.default = TRUE]
               r2 == [Stored(TRUE) EXCEPT !.conf = conf]
               r3 == Stored(FALSE)
    <3>2. /\ r1 \in Row /\ r2 \in Row /\ r3 \in Row
          /\ ~r2.default /\ ~r3.default
      BY ConfsAssumption DEF Stored, Row
    <3>3. rows = <<r1, r2, r3>>
      BY <3>1
    <3> HIDE DEF r1, r2, r3
    <3>4. rows \in Seq(Row) /\ Len(rows) = 3
          /\ rows[1] = r1 /\ rows[2] = r2 /\ rows[3] = r3 /\ DOMAIN rows = 1..3
      BY <3>2, <3>3
    <3>5. Defaults \subseteq {1}
      BY <3>2, <3>4 DEF Defaults, Live
    <3>6. OneDefault
      <4>1. IsFiniteSet({1}) /\ Cardinality({1}) = 1
        BY FS_Singleton
      <4>2. Cardinality(Defaults) <= Cardinality({1})
        BY <3>5, <4>1, FS_Subset
      <4>3. QED
        BY <4>1, <4>2 DEF OneDefault
    <3>7. 2 \in RowIds /\ 3 \in RowIds
      BY BoundsAssumption DEF RowIds
    <3>8. QED
      BY <2>2, <3>4, <3>6, <3>7, BoundsAssumption
  <2>3. QED
    BY <2>1, <2>2 DEF Init
<1>3. TypeOK
  BY <1>1, <1>2, BoundsAssumption DEF TypeOK, InFlight
<1>4. Exclusion /\ \A q \in Requests : JobInv(q, job[q])
  BY <1>1 DEF Exclusion, JobInv, InFlight
<1>5. QED
  BY <1>2, <1>3, <1>4 DEF IInv

\* Every step keeps the invariant and the rows.
LEMMA NextInv ==
    ASSUME IInv, [Next]_vars
    PROVE  IInv' /\ Kept
<1>1. CASE Browser
  BY <1>1, BrowserInv
<1>2. CASE Server
  BY <1>2, ServerInv
<1>3. CASE UNCHANGED vars
  <2>1. IInv'
    <3>1. TypeOK'
      BY <1>3 DEF vars, IInv, TypeOK, InFlight
    <3>2. OneDefault' /\ Exclusion'
      BY <1>3 DEF vars, IInv, OneDefault, Exclusion, InFlight, Defaults, Live
    <3>3. \A q \in Requests : JobInv(q, job[q])'
      BY <1>3 DEF vars, IInv, JobInv, ArgInv, BeanInv, InsertIsDue, Defaults, Live, Call
    <3>4. QED
      BY <3>1, <3>2, <3>3 DEF IInv
  <2>2. QED
    BY <1>3, <2>1, KeptUnchanged DEF vars
<1>4. QED
  BY <1>1, <1>2, <1>3 DEF Next

\* The inductive invariant holds in every state: it says what each request has
\* read, how fresh that is, and that the monitor excludes.
THEOREM Invariance == Spec => []IInv
<1>1. IInv /\ [Next]_vars => IInv'
  BY NextInv
<1>2. QED
  BY InitInv, <1>1, PTL DEF Spec

\* Every variable keeps its type and no request runs past its last call.
THEOREM TypeCorrect == Spec => []TypeOK
<1>1. IInv => TypeOK
  BY DEF IInv
<1>2. QED
  BY Invariance, <1>1, PTL

\* However many tabs load the page, refresh it and click Clear at once, no two
\* default filters are ever live: findUnique never throws for them.
THEOREM OneDefaultAtMost == Spec => []OneDefault
<1>1. IInv => OneDefault
  BY DEF IInv
<1>2. QED
  BY Invariance, <1>1, PTL

\* The version column refuses every save through a bean read before the delete,
\* and no bean read after it is written: a deleted filter stays as it is.
THEOREM DeletedRowsAreFinal == Spec => DeletedIsFinal
<1>1. IInv /\ [Next]_vars =>
          [\A i \in DOMAIN rows : ~rows[i].live => rows'[i] = rows[i]]_rows
  BY NextInv DEF Kept
<1>2. QED
  BY Invariance, <1>1, PTL DEF Spec, DeletedIsFinal

\* The configuration of a stored filter changes only in a Save of this filter,
\* whatever the table, the page and the other tabs do meanwhile.
THEOREM SavesChangeStored == Spec => StoredChangesBySave
<1>1. IInv /\ [Next]_vars =>
          [\A i \in DOMAIN rows :
              ~rows[i].default /\ rows'[i].conf /= rows[i].conf =>
                  \E q \in Requests :
                      /\ At(q, "saveConf") /\ job[q].arg = i
                      /\ rows'[i].conf = Of(q, "default").row.conf]_rows
  BY NextInv DEF Kept
<1>2. QED
  BY Invariance, <1>1, PTL DEF Spec, StoredChangesBySave

-----------------------------------------------------------------------------
(* One selected filter at most, as long as no two requests that select one *)
(* (Create, Change) have run at the same time                              *)

IsSelecting(j) == j /= Idle /\ j.op \in Selecting

\* What such a request has made sure of: the filter it is about to deselect is
\* the only one that may be selected, then none is until it selects its own.
Prepared(j, selected) ==
    /\ \/ j.op = "Create" /\ j.at = 2
       \/ j.op = "Change" /\ j.at = 3
       => \A i \in selected : /\ j.beans["old"] /= NoBean
                              /\ j.beans["old"].id = i
                              /\ j.beans["old"].row.selected
    /\ \/ j.op = "Create" /\ j.at \in {3, 4}
       \/ j.op = "Change" /\ j.at = 4
       => selected = {}

SelectionInv ==
    overlap /= "selecting" =>
        /\ \A i, k \in Selected : i = k
        /\ \A p, q \in Requests : IsSelecting(job[p]) /\ IsSelecting(job[q]) => p = q
        /\ \A q \in Requests : IsSelecting(job[q]) => Prepared(job[q], Selected)

\* A bean and what has become of it once others have written its row.
SameRead(b, c) ==
    /\ b = NoBean <=> c = NoBean
    /\ b /= NoBean => c.id = b.id /\ c.row = b.row

\* A step of q either selects nothing new, or it is the only one that selects and
\* leaves one row selected at most; the others keep what they have read.
LEMMA SelectionKept ==
    ASSUME SelectionInv, NEW q \in Requests, UNCHANGED overlap,
           \A p \in Requests : IsSelecting(job'[p]) => IsSelecting(job[p]),
           \A p \in Requests \ {q} : IsSelecting(job'[p]) =>
               /\ job'[p].op = job[p].op /\ job'[p].at = job[p].at
               /\ SameRead(job[p].beans["old"], job'[p].beans["old"]),
           overlap /= "selecting" =>
               \/ Selected' \subseteq Selected
               \/ IsSelecting(job[q]) /\ \E x : Selected' \subseteq {x},
           overlap /= "selecting" /\ IsSelecting(job'[q]) => Prepared(job'[q], Selected')
    PROVE  SelectionInv'
<1> SUFFICES ASSUME overlap /= "selecting"
             PROVE  /\ \A i, k \in Selected' : i = k
                    /\ \A p, r \in Requests :
                           IsSelecting(job'[p]) /\ IsSelecting(job'[r]) => p = r
                    /\ \A p \in Requests :
                           IsSelecting(job'[p]) => Prepared(job'[p], Selected')
  BY DEF SelectionInv, IsSelecting, Prepared
<1>1. \A i, k \in Selected' : i = k
  BY DEF SelectionInv
<1>2. \A p, r \in Requests : IsSelecting(job'[p]) /\ IsSelecting(job'[r]) => p = r
  BY DEF SelectionInv
<1>3. ASSUME NEW p \in Requests, IsSelecting(job'[p])
      PROVE  Prepared(job'[p], Selected')
  <2>1. CASE p = q
    BY <1>3, <2>1
  <2>2. CASE p /= q
    <3>1. IsSelecting(job[p]) /\ ~IsSelecting(job[q])
      BY <1>3, <2>2 DEF SelectionInv
    <3>2. Selected' \subseteq Selected /\ Prepared(job[p], Selected)
      BY <3>1 DEF SelectionInv
    <3>3. /\ job'[p].op = job[p].op /\ job'[p].at = job[p].at
          /\ SameRead(job[p].beans["old"], job'[p].beans["old"])
      BY <1>3, <2>2
    <3>4. QED
      BY <3>2, <3>3 DEF Prepared, SameRead
  <2>3. QED
    BY <2>1, <2>2
<1>4. QED
  BY <1>1, <1>2, <1>3

\* A request moves and no row is written.
LEMMA MovesSelection ==
    ASSUME IInv, SelectionInv, NEW q \in Requests, NEW j, UNCHANGED <<rows, overlap>>,
           job' = [job EXCEPT ![q] = j],
           IsSelecting(j) => IsSelecting(job[q]),
           IsSelecting(j) /\ overlap /= "selecting" => Prepared(j, Selected)
    PROVE  SelectionInv'
<1>1. \A p \in Requests : job'[p] = IF p = q THEN j ELSE job[p]
  BY DEF IInv, TypeOK
<1>2. Selected' = Selected
  BY DEF Selected, Live
<1>3. \A p \in Requests : IsSelecting(job'[p]) => IsSelecting(job[p])
  BY <1>1
<1>4. \A p \in Requests \ {q} :
          /\ job'[p].op = job[p].op /\ job'[p].at = job[p].at
          /\ SameRead(job[p].beans["old"], job'[p].beans["old"])
  BY <1>1 DEF SameRead
<1>5. overlap /= "selecting" /\ IsSelecting(job'[q]) => Prepared(job'[q], Selected')
  BY <1>1, <1>2
<1>6. QED
  BY <1>2, <1>3, <1>4, <1>5, SelectionKept

\* A request that throws selects nothing.
LEMMA FailsSelection ==
    ASSUME IInv, SelectionInv, NEW q \in Requests, Fails(q)
    PROVE  SelectionInv'
<1>1. ~IsSelecting(Idle)
  BY DEF IsSelecting
<1>2. job' = [job EXCEPT ![q] = Idle] /\ UNCHANGED <<rows, overlap>>
  BY DEF Fails
<1>3. QED
  BY <1>1, <1>2, MovesSelection

\* The same request, one call further.
NextCall(j, k) == k \in Jobs /\ k.op = j.op /\ k.at = j.at + 1

\* A call that has set one bean is followed by the next call.
LEMMA StepIsNext ==
    ASSUME NEW j \in Jobs, NEW s \in Slots, NEW b \in Beans \cup {NoBean}
    PROVE  NextCall(j, StepWith(j, s, b))
<1>1. PICK k : k = StepWith(j, s, b)
  OBVIOUS
<1>2. k \in Jobs /\ k.op = j.op /\ k.at = j.at + 1
  BY <1>1, FieldsOfStep
<1>3. QED
  BY <1>1, <1>2 DEF NextCall

\* A query selects nothing; what is left to show is what it has made sure of.
LEMMA ReadsSelection ==
    ASSUME IInv, SelectionInv, NEW q \in Requests, InFlight(q), NEW s \in Slots,
           NEW found \in SUBSET DOMAIN rows, Reads(q, s, found),
           IsSelecting(job[q]) /\ overlap /= "selecting" /\ IsUnique(found) =>
               \A k : /\ NextCall(job[q], k)
                      /\ k.beans = [job[q].beans EXCEPT ![s] = Bean(found)]
                      => Prepared(k, Selected)
    PROVE  SelectionInv'
<1>1. CASE ~IsUnique(found)
  BY <1>1, FailsSelection DEF Reads
<1>2. CASE IsUnique(found)
  <2> PICK b : b = Bean(found)
    OBVIOUS
  <2> PICK k : k = StepWith(job[q], s, b)
    OBVIOUS
  <2>1. b \in Beans \cup {NoBean}
    BY BeanType DEF IInv
  <2>2. job[q] \in Jobs /\ job[q] /= Idle
    BY JobOf DEF InFlight
  <2>3. /\ k \in Jobs /\ k.op = job[q].op /\ k.at = job[q].at + 1
        /\ k.beans = [job[q].beans EXCEPT ![s] = b]
    BY <2>1, <2>2, FieldsOfStep
  <2>4. job' = [job EXCEPT ![q] = k] /\ UNCHANGED <<rows, overlap>>
    BY <1>2 DEF Reads, StepWith, IInv, TypeOK
  <2>5. IsSelecting(k) => IsSelecting(job[q])
    BY <2>2, <2>3 DEF IsSelecting
  <2>6. IsSelecting(k) /\ overlap /= "selecting" => Prepared(k, Selected)
    BY <1>2, <2>3, <2>5 DEF NextCall
  <2>7. QED
    BY <2>4, <2>5, <2>6, MovesSelection
<1>3. QED
  BY <1>1, <1>2

\* A call that has nothing to do.
LEMMA AdvanceSelection ==
    ASSUME IInv, SelectionInv, NEW q \in Requests, InFlight(q), Advance(q),
           UNCHANGED <<rows, overlap>>,
           IsSelecting(job[q]) /\ overlap /= "selecting" =>
               \A k : NextCall(job[q], k) => Prepared(k, Selected)
    PROVE  SelectionInv'
<1>1. job[q] \in Jobs /\ job[q] /= Idle
  BY JobOf DEF InFlight
<1> PICK k : k = Step(job[q])
  OBVIOUS
<1>2. k \in Jobs /\ k.op = job[q].op /\ k.at = job[q].at + 1
  BY <1>1 DEF Step, Jobs
<1>3. job' = [job EXCEPT ![q] = k]
  BY DEF Advance, IInv, TypeOK
<1>4. IsSelecting(k) => IsSelecting(job[q])
  BY <1>1, <1>2 DEF IsSelecting
<1>5. IsSelecting(k) /\ overlap /= "selecting" => Prepared(k, Selected)
  BY <1>2, <1>4 DEF NextCall
<1>6. QED
  BY <1>3, <1>4, <1>5, MovesSelection

\* The selected filters once the row i is overwritten.
Rewritten(i, row) ==
    IF row.live /\ row.selected THEN Selected \cup {i} ELSE Selected \ {i}

\* A save that gets through selects no other filter than the one it writes.
LEMMA WritesSelection ==
    ASSUME IInv, SelectionInv, NEW q \in Requests, InFlight(q), NEW s \in Slots,
           NEW row \in Row, Of(q, s) /= NoBean, Writes(q, s, row), ~Outrun(Of(q, s)),
           overlap /= "selecting" =>
               \/ row.live /\ row.selected => Of(q, s).row.live /\ Of(q, s).row.selected
               \/ IsSelecting(job[q]) /\ Selected \subseteq {Of(q, s).id},
           IsSelecting(job[q]) /\ overlap /= "selecting" =>
               \A k : NextCall(job[q], k) => Prepared(k, Rewritten(Of(q, s).id, row))
    PROVE  SelectionInv'
<1> PICK i : i = Of(q, s).id
  OBVIOUS
<1>1. Written(q, s, row, i)
  BY WriteEffect
<1>2. /\ DOMAIN rows' = DOMAIN rows
      /\ \A k \in DOMAIN rows : rows'[k] = IF k = i THEN row ELSE rows[k]
      /\ i \in DOMAIN rows /\ rows[i] = Of(q, s).row
  BY <1>1 DEF Written, IInv, TypeOK
<1>3. Selected' = Rewritten(i, row)
  <2>1. Selected' = {k \in DOMAIN rows' : rows'[k].live /\ rows'[k].selected}
    BY DEF Selected, Live
  <2>2. Selected = {k \in DOMAIN rows : rows[k].live /\ rows[k].selected}
    BY DEF Selected, Live
  <2>3. QED
    BY <1>2, <2>1, <2>2 DEF Rewritten
<1>4. \A p \in Requests : IsSelecting(job'[p]) =>
          InFlight(p) /\ IsSelecting(job[p]) /\ job'[p].op = job[p].op
  BY <1>1 DEF Written, IsSelecting, InFlight
<1>5. ASSUME NEW p \in Requests \ {q}, IsSelecting(job'[p])
      PROVE  /\ job'[p].op = job[p].op /\ job'[p].at = job[p].at
             /\ SameRead(job[p].beans["old"], job'[p].beans["old"])
  <2>1. InFlight(p) /\ job'[p].op = job[p].op /\ job'[p].at = job[p].at
        /\ job'[p].beans["old"] = AgedBean(job[p].beans["old"], i)
    BY <1>1, <1>4, <1>5 DEF Written, Slots
  <2>2. job[p].beans["old"] \in Beans \cup {NoBean}
    BY <2>1, JobOf DEF Jobs, Slots
  <2>3. i \in RowIds
    BY <1>2, BoundsAssumption DEF IInv, TypeOK, RowIds
  <2>4. QED
    BY <2>1, <2>2, <2>3, AgedBeans DEF SameRead
<1>6. overlap /= "selecting" =>
          \/ Selected' \subseteq Selected
          \/ IsSelecting(job[q]) /\ \E x : Selected' \subseteq {x}
  <2>1. i \in Selected <=> rows[i].live /\ rows[i].selected
    BY <1>2 DEF Selected, Live
  <2>2. QED
    BY <1>2, <1>3, <2>1 DEF Rewritten
<1>7. overlap /= "selecting" /\ IsSelecting(job'[q]) => Prepared(job'[q], Selected')
  <2> SUFFICES ASSUME overlap /= "selecting", IsSelecting(job'[q])
               PROVE  Prepared(job'[q], Selected')
    OBVIOUS
  <2>1. NextCall(job[q], job'[q])
    BY <1>1 DEF Written, NextCall
  <2>2. IsSelecting(job[q])
    BY <1>4
  <2>3. QED
    BY <1>3, <2>1, <2>2
<1>8. UNCHANGED overlap
  BY <1>1 DEF Written
<1>9. QED
  BY <1>4, <1>5, <1>6, <1>7, <1>8, SelectionKept

\* A save that changes nothing selects nothing either.
LEMMA SavesSelection ==
    ASSUME IInv, SelectionInv, NEW q \in Requests, InFlight(q), NEW s \in Slots,
           NEW row \in Row, Of(q, s) /= NoBean, Saves(q, s, row),
           overlap /= "selecting" =>
               \/ row.live /\ row.selected => Of(q, s).row.live /\ Of(q, s).row.selected
               \/ IsSelecting(job[q]) /\ Selected \subseteq {Of(q, s).id},
           IsSelecting(job[q]) /\ overlap /= "selecting" =>
               \A k : NextCall(job[q], k) =>
                   /\ Prepared(k, Rewritten(Of(q, s).id, row))
                   /\ row = Of(q, s).row => Prepared(k, Selected)
    PROVE  SelectionInv'
<1>1. CASE row = Of(q, s).row
  <2>1. Advance(q) /\ UNCHANGED <<rows, overlap>>
    BY <1>1 DEF Saves
  <2>2. QED
    BY <1>1, <2>1, AdvanceSelection
<1>2. CASE row /= Of(q, s).row /\ Outrun(Of(q, s))
  BY <1>2, FailsSelection DEF Saves, Writes
<1>3. CASE row /= Of(q, s).row /\ ~Outrun(Of(q, s))
  <2>1. Writes(q, s, row)
    BY <1>3 DEF Saves
  <2>2. QED
    BY <1>3, <2>1, WritesSelection
<1>4. QED
  BY <1>1, <1>2, <1>3

\* The calls by which a request that selects a filter makes sure of nothing.
LEMMA NothingToPrepare ==
    ASSUME NEW j, NEW k, NextCall(j, k),
           \/ j.op \notin Selecting
           \/ j.op = "Create" /\ j.at = 4
           \/ j.op = "Change" /\ j.at \in {1, 4, 5, 6}
    PROVE  \A selected : Prepared(k, selected)
  BY DEF NextCall, Selecting, Prepared

\* The saves that only keep or take back the selection of the row they write.
LEMMA PlainSave ==
    ASSUME IInv, SelectionInv, NEW q \in Requests, InFlight(q), NEW s \in Slots,
           NEW row \in Row, Of(q, s) /= NoBean,
           Saves(q, s, row) \/ Writes(q, s, row),
           row.live /\ row.selected => Of(q, s).row.live /\ Of(q, s).row.selected,
           job[q].op \notin Selecting \/ (job[q].op = "Change" /\ job[q].at = 6)
    PROVE  SelectionInv'
<1>1. \A k : NextCall(job[q], k) => \A selected : Prepared(k, selected)
  BY NothingToPrepare
<1>2. CASE Saves(q, s, row)
  BY <1>1, <1>2, SavesSelection
<1>3. CASE Writes(q, s, row) /\ Outrun(Of(q, s))
  BY <1>3, FailsSelection DEF Writes
<1>4. CASE Writes(q, s, row) /\ ~Outrun(Of(q, s))
  BY <1>1, <1>4, WritesSelection
<1>5. QED
  BY <1>2, <1>3, <1>4

\* An insert selects its row when no other is selected, or no row.
LEMMA InsertsSelection ==
    ASSUME IInv, SelectionInv, NEW q \in Requests, InFlight(q), NEW s \in Slots,
           NEW row \in Row, Inserts(q, s, row),
           \/ ~row.selected /\ job[q].op \notin Selecting
           \/ /\ job[q].op = "Create" /\ job[q].at = 4
              /\ overlap /= "selecting" => Selected = {}
    PROVE  SelectionInv'
<1> DEFINE n == Len(rows) + 1
           b == [id |-> n, row |-> row, fresh |-> TRUE]
           k == StepWith(job[q], s, b)
<1>1. Len(rows) \in Nat /\ n \in RowIds /\ DOMAIN rows = 1..Len(rows)
  BY BoundsAssumption DEF IInv, TypeOK, Inserts, RowIds
<1>2. DOMAIN rows' = 1..n /\ rows'[n] = row /\ \A i \in DOMAIN rows : rows'[i] = rows[i]
  BY <1>1 DEF Inserts, IInv, TypeOK
<1>3. b \in Beans
  BY <1>1 DEF Beans
<1>4. job[q] \in Jobs /\ job[q] /= Idle
  BY JobOf DEF InFlight
<1>5. job' = [job EXCEPT ![q] = k] /\ UNCHANGED overlap
  BY DEF Inserts, StepWith
<1> HIDE DEF b
<1>6. NextCall(job[q], k)
  BY <1>3, <1>4, StepIsNext
<1> HIDE DEF k, n
<1>7. \A p \in Requests : job'[p] = IF p = q THEN k ELSE job[p]
  BY <1>5 DEF IInv, TypeOK
<1>8. IsSelecting(k) => IsSelecting(job[q])
  BY <1>4, <1>6 DEF IsSelecting, NextCall
<1>9. Selected' \subseteq Selected \cup {n} /\ (~row.selected => Selected' \subseteq Selected)
  <2>1. Selected' = {i \in DOMAIN rows' : rows'[i].live /\ rows'[i].selected}
    BY DEF Selected, Live
  <2>2. Selected = {i \in DOMAIN rows : rows[i].live /\ rows[i].selected}
    BY DEF Selected, Live
  <2>3. \A i \in 1..n : i = n \/ i \in 1..Len(rows)
    BY <1>1 DEF n
  <2>4. QED
    BY <1>1, <1>2, <2>1, <2>2, <2>3
<1>10. \A selected : Prepared(k, selected)
  BY <1>6, NothingToPrepare
<1>11. job[q].op = "Create" => IsSelecting(job[q])
  BY <1>4 DEF IsSelecting, Selecting
<1>12. overlap /= "selecting" =>
           \/ Selected' \subseteq Selected
           \/ IsSelecting(job[q]) /\ \E x : Selected' \subseteq {x}
  BY <1>9, <1>11
<1>13. \A p \in Requests : IsSelecting(job'[p]) => IsSelecting(job[p])
  BY <1>7, <1>8
<1>14. \A p \in Requests \ {q} :
           /\ job'[p].op = job[p].op /\ job'[p].at = job[p].at
           /\ SameRead(job[p].beans["old"], job'[p].beans["old"])
  BY <1>7 DEF SameRead
<1>15. overlap /= "selecting" /\ IsSelecting(job'[q]) => Prepared(job'[q], Selected')
  BY <1>7, <1>10
<1>16. \A p \in Requests \ {q} : IsSelecting(job'[p]) =>
           /\ job'[p].op = job[p].op /\ job'[p].at = job[p].at
           /\ SameRead(job[p].beans["old"], job'[p].beans["old"])
  BY <1>14
<1>17. QED
  BY <1>5, <1>12, <1>13, <1>15, <1>16, SelectionKept

\* Reading the target selects nothing and makes sure of nothing.
LEMMA ReadTargetSelection ==
    ASSUME IInv, SelectionInv, NEW q \in Requests, ReadTarget(q)
    PROVE  SelectionInv'
<1> DEFINE id == job[q].arg
<1>1. Does(q, "readTarget") /\ InFlight(q)
  BY Doing DEF ReadTarget
<1>2. job[q].op \in {"Save", "Change", "Edit", "Delete"} /\ job[q].at = 1
  BY <1>1, Doing DEF Places
<1>3. CASE id \in Live /\ Reads(q, "target", {id})
  <2>1. {id} \in SUBSET DOMAIN rows /\ "target" \in Slots
    BY <1>3 DEF Live, Slots
  <2>2. \A k : NextCall(job[q], k) => Prepared(k, Selected)
    BY <1>2, NothingToPrepare DEF Selecting
  <2>3. QED
    BY <1>1, <1>3, <2>1, <2>2, ReadsSelection
<1>4. CASE Fails(q)
  BY <1>4, FailsSelection
<1>5. QED
  BY <1>3, <1>4 DEF ReadTarget

\* What the request reads as the selected filter is the only one.
LEMMA ReadSelectedSelection ==
    ASSUME IInv, SelectionInv, NEW q \in Requests, ReadSelected(q)
    PROVE  SelectionInv'
<1>1. Does(q, "readSelected") /\ InFlight(q) /\ "old" \in Slots
      /\ job[q].beans \in [Slots -> Beans \cup {NoBean}]
  BY Doing DEF ReadSelected, Slots
<1>2. \/ job[q].op \in {"Create", "Clear"} /\ job[q].at = 1
      \/ job[q].op = "Change" /\ job[q].at = 2
      \/ job[q].op = "Page" /\ job[q].at = 3
      \/ job[q].op = "SharedPage" /\ job[q].at = 5
  BY <1>1, Doing DEF Places
<1>3. CASE Reads(q, "old", SelectedOrDefault)
  <2>1. SelectedOrDefault \in SUBSET DOMAIN rows
    BY DEF SelectedOrDefault, Selected, Defaults, Live
  <2>2. ASSUME overlap /= "selecting", NEW k, NextCall(job[q], k),
               k.beans = [job[q].beans EXCEPT !["old"] = Bean(SelectedOrDefault)]
        PROVE  Prepared(k, Selected)
    <3>1. k.beans["old"] = Bean(SelectedOrDefault)
      BY <1>1, <2>2
    <3>2. ASSUME NEW i \in Selected
          PROVE  /\ k.beans["old"] /= NoBean /\ k.beans["old"].id = i
                 /\ k.beans["old"].row.selected
      <4>1. SelectedOrDefault = Selected /\ SelectedOrDefault /= {}
        BY <3>2 DEF SelectedOrDefault
      <4>2. /\ k.beans["old"] /= NoBean /\ k.beans["old"].id \in Selected
            /\ k.beans["old"].row = rows[k.beans["old"].id]
        BY <2>1, <3>1, <4>1, BeanType DEF IInv
      <4>3. k.beans["old"].id = i
        BY <2>2, <3>2, <4>2 DEF SelectionInv
      <4>4. rows[i].selected
        BY <3>2 DEF Selected
      <4>5. QED
        BY <4>2, <4>3, <4>4
    <3>3. k.op = job[q].op /\ k.at = job[q].at + 1
      BY <2>2 DEF NextCall
    <3>4. ~(k.op = "Create" /\ k.at \in {3, 4}) /\ ~(k.op = "Change" /\ k.at = 4)
      BY <1>2, <3>3
    <3>5. QED
      BY <3>2, <3>4 DEF Prepared
  <2>3. QED
    BY <1>1, <1>3, <2>1, <2>2, ReadsSelection
<1>4. CASE job[q].op = "Page" /\ Reads(q, "old", {Of(q, "default").id})
  <2>1. Of(q, "default") /= NoBean /\ BeanInv(job[q], "default", Of(q, "default"))
    BY <1>1, <1>2, <1>4, Doing DEF Filled, Of, Slots
  <2>2. {Of(q, "default").id} \in SUBSET DOMAIN rows
    BY <2>1 DEF BeanInv
  <2>3. \A k : NextCall(job[q], k) => Prepared(k, Selected)
    BY <1>4, NothingToPrepare DEF Selecting
  <2>4. QED
    BY <1>1, <1>4, <2>2, <2>3, ReadsSelection
<1>5. CASE Fails(q)
  BY <1>5, FailsSelection
<1>6. QED
  BY <1>3, <1>4, <1>5 DEF ReadSelected

\* After the filter that was the only one is deselected, none is selected.
LEMMA DeselectSelection ==
    ASSUME IInv, SelectionInv, NEW q \in Requests, Deselect(q)
    PROVE  SelectionInv'
<1> DEFINE b == Of(q, "old")
           row == [b.row EXCEPT !.selected = FALSE]
<1>1. Does(q, "deselect") /\ InFlight(q) /\ "old" \in Slots /\ job[q] /= Idle
  BY Doing DEF Deselect, Slots
<1>2. \/ job[q].op \in {"Create", "Clear"} /\ job[q].at = 2
      \/ job[q].op = "Change" /\ job[q].at = 3
      \/ job[q].op = "SharedPage" /\ job[q].at = 6
  BY <1>1, Doing DEF Places
<1>3. ASSUME IsSelecting(job[q]), overlap /= "selecting"
      PROVE  \A i \in Selected : b /= NoBean /\ b.id = i /\ b.row.selected
  <2>1. Prepared(job[q], Selected)
    BY <1>3 DEF SelectionInv
  <2>2. \/ job[q].op = "Create" /\ job[q].at = 2
        \/ job[q].op = "Change" /\ job[q].at = 3
    BY <1>2, <1>3 DEF IsSelecting, Selecting
  <2>3. QED
    BY <2>1, <2>2 DEF Prepared, Of
<1>4. \A k : NextCall(job[q], k) => Prepared(k, {})
  <2>1. \A k : NextCall(job[q], k) => ~(k.op = "Create" /\ k.at = 2)
                                      /\ ~(k.op = "Change" /\ k.at = 3)
    BY <1>2 DEF NextCall
  <2>2. QED
    BY <2>1 DEF Prepared
<1>5. CASE b = NoBean
  <2>1. IsSelecting(job[q]) /\ overlap /= "selecting" => Selected = {}
    BY <1>3, <1>5
  <2>2. Advance(q) /\ UNCHANGED <<rows, overlap>>
    BY <1>5 DEF Deselect
  <2>3. QED
    BY <1>1, <1>4, <2>1, <2>2, AdvanceSelection
<1>6. CASE b /= NoBean
  <2>1. b.row \in Row
    BY <1>1, <1>6, Holding
  <2>2. row \in Row /\ row.selected = FALSE /\ (row = b.row => ~b.row.selected)
    BY <2>1 DEF Row
  <2>3. Saves(q, "old", row)
    BY <1>6 DEF Deselect
  <2> HIDE DEF row
  <2>4. ASSUME IsSelecting(job[q]), overlap /= "selecting", NEW k, NextCall(job[q], k)
        PROVE  /\ Prepared(k, Rewritten(b.id, row))
               /\ row = b.row => Prepared(k, Selected)
    <3>1. Rewritten(b.id, row) = {}
      BY <1>3, <2>2, <2>4 DEF Rewritten
    <3>2. row = b.row => Selected = {}
      BY <1>3, <2>2, <2>4
    <3>3. QED
      BY <1>4, <2>4, <3>1, <3>2
  <2>5. QED
    BY <1>1, <1>6, <2>2, <2>3, <2>4, SavesSelection
<1>7. QED
  BY <1>5, <1>6

\* None is selected when Change selects its own.
LEMMA SelectSelection ==
    ASSUME IInv, SelectionInv, NEW q \in Requests, Select(q)
    PROVE  SelectionInv'
<1> DEFINE b == Of(q, "target")
           row == [b.row EXCEPT !.selected = ~b.row.default]
<1>1. Does(q, "select") /\ Saves(q, "target", row) /\ InFlight(q) /\ "target" \in Slots
  BY Doing DEF Select, Slots
<1>2. job[q].op = "Change" /\ job[q].at = 4 /\ job[q] /= Idle
  BY <1>1, Doing DEF Places
<1>3. b /= NoBean
  BY <1>1, <1>2, Doing DEF Filled, Of
<1>4. b.row \in Row
  BY <1>1, <1>3, Holding
<1>5. row \in Row
  BY <1>4 DEF Row
<1> HIDE DEF row
<1>6. IsSelecting(job[q])
  BY <1>2 DEF IsSelecting, Selecting
<1>7. overlap /= "selecting" => Selected = {}
  BY <1>2, <1>6 DEF SelectionInv, Prepared
<1>8. \A k : NextCall(job[q], k) => \A selected : Prepared(k, selected)
  BY <1>2, NothingToPrepare
<1>9. QED
  BY <1>1, <1>3, <1>5, <1>6, <1>7, <1>8, SavesSelection

\* None is selected when Create inserts its own.
LEMMA InsertSelection ==
    ASSUME IInv, SelectionInv, NEW q \in Requests, Insert(q)
    PROVE  SelectionInv'
<1> DEFINE row == [live |-> TRUE, default |-> FALSE, selected |-> TRUE,
                   conf |-> Of(q, "default").row.conf]
<1>1. Does(q, "insert") /\ Inserts(q, "target", row) /\ InFlight(q)
      /\ "target" \in Slots /\ "default" \in Slots
  BY Doing DEF Insert, Slots
<1>2. job[q].op = "Create" /\ job[q].at = 4 /\ job[q] /= Idle
  BY <1>1, Doing DEF Places
<1>3. Of(q, "default") /= NoBean
  BY <1>1, <1>2, Doing DEF Filled, Of
<1>4. Of(q, "default").row \in Row
  BY <1>1, <1>3, Holding
<1>5. row \in Row
  BY <1>4 DEF Row
<1> HIDE DEF row
<1>6. IsSelecting(job[q])
  BY <1>2 DEF IsSelecting, Selecting
<1>7. overlap /= "selecting" => Selected = {}
  BY <1>2, <1>6 DEF SelectionInv, Prepared
<1>8. QED
  BY <1>1, <1>2, <1>5, <1>7, InsertsSelection

\* Reading the default filter, between the two: still none is selected.
LEMMA ReadDefaultSelection ==
    ASSUME IInv, SelectionInv, NEW q \in Requests, ReadDefault(q)
    PROVE  SelectionInv'
<1>1. Does(q, "readDefault") /\ InFlight(q) /\ "default" \in Slots
  BY Doing DEF ReadDefault, Slots
<1>2. \/ job[q].op \in {"Create", "Clear"} /\ job[q].at = 3
      \/ job[q].op \in {"Save", "Delete"} /\ job[q].at = 2
      \/ job[q].op = "Change" /\ job[q].at = 5
      \/ job[q].op \in {"Page", "SharedPage", "Persist"} /\ job[q].at = 1
  BY <1>1, Doing DEF Places
<1>3. CASE Fails(q)
  BY <1>3, FailsSelection
<1>4. CASE Reads(q, "default", Defaults)
  <2>1. Defaults \in SUBSET DOMAIN rows
    BY DEF Defaults, Live
  <2>2. ASSUME IsSelecting(job[q]), overlap /= "selecting", NEW k, NextCall(job[q], k)
        PROVE  Prepared(k, Selected)
    <3>1. CASE job[q].op = "Create" /\ job[q].at = 3
      <4>1. Selected = {}
        BY <2>2, <3>1 DEF SelectionInv, Prepared
      <4>2. QED
        BY <4>1 DEF Prepared
    <3>2. CASE ~(job[q].op = "Create" /\ job[q].at = 3)
      BY <1>2, <2>2, <3>2, NothingToPrepare DEF IsSelecting, Selecting
    <3>3. QED
      BY <3>1, <3>2
  <2>3. QED
    BY <1>1, <1>4, <2>1, <2>2, ReadsSelection
<1>5. CASE job[q].op = "Change" /\ Advance(q) /\ UNCHANGED <<rows, overlap>>
  <2>1. \A k : NextCall(job[q], k) => Prepared(k, Selected)
    BY <1>2, <1>5, NothingToPrepare
  <2>2. QED
    BY <1>1, <1>5, <2>1, AdvanceSelection
<1>6. QED
  BY <1>3, <1>4, <1>5 DEF ReadDefault

\* Reading the filter of a key: no request that selects one does.
LEMMA ReadSharedSelection ==
    ASSUME IInv, SelectionInv, NEW q \in Requests, ReadShared(q)
    PROVE  SelectionInv'
<1> DEFINE id == job[q].arg
           k == [job[q] EXCEPT !.at = Len(Program[job[q].op])]
<1>1. Does(q, "readShared") /\ InFlight(q) /\ "target" \in Slots /\ job[q] \in Jobs
  BY Doing DEF ReadShared, Slots
<1>2. job[q].op = "SharedPage" /\ job[q].at = 3
  BY <1>1, Doing DEF Places
<1>3. {id} \in SUBSET DOMAIN rows
  BY <1>1, <1>2, Doing DEF JobInv, ArgInv
<1>4. CASE rows[id].live
  <2>1. Reads(q, "target", {id})
    BY <1>4 DEF ReadShared
  <2>2. \A j : NextCall(job[q], j) => Prepared(j, Selected)
    BY <1>2, NothingToPrepare DEF Selecting
  <2>3. QED
    BY <1>1, <1>3, <2>1, <2>2, ReadsSelection
<1>5. CASE ~rows[id].live
  <2>1. job' = [job EXCEPT ![q] = k] /\ UNCHANGED <<rows, overlap>>
    BY <1>5 DEF ReadShared, IInv, TypeOK
  <2>2. k.op = "SharedPage"
    BY <1>1, <1>2 DEF Jobs
  <2> HIDE DEF k
  <2>3. ~IsSelecting(k)
    BY <2>2 DEF IsSelecting, Selecting
  <2>4. QED
    BY <2>1, <2>3, MovesSelection
<1>6. QED
  BY <1>4, <1>5

\* The default filter is inserted unselected.
LEMMA InsertDefaultSelection ==
    ASSUME IInv, SelectionInv, NEW q \in Requests, InsertDefault(q)
    PROVE  SelectionInv'
<1> DEFINE row == [live |-> TRUE, default |-> TRUE, selected |-> FALSE, conf |-> Initial]
<1>1. Does(q, "insertDefault") /\ InFlight(q) /\ "default" \in Slots
  BY Doing DEF InsertDefault, Slots
<1>2. job[q].op \in {"Page", "SharedPage"}
  BY <1>1, Doing DEF Places
<1>3. CASE Of(q, "default") /= NoBean
  <2>1. \A k : NextCall(job[q], k) => Prepared(k, Selected)
    BY <1>2, NothingToPrepare DEF Selecting
  <2>2. QED
    BY <1>1, <1>3, <2>1, AdvanceSelection DEF InsertDefault
<1>4. CASE Of(q, "default") = NoBean
  <2>1. Inserts(q, "default", row)
    BY <1>4 DEF InsertDefault
  <2>2. row \in Row /\ ~row.selected
    BY ConfsAssumption DEF Row
  <2> HIDE DEF row
  <2>3. job[q].op \notin Selecting
    BY <1>2 DEF Selecting
  <2>4. QED
    BY <1>1, <2>1, <2>2, <2>3, InsertsSelection
<1>5. QED
  BY <1>3, <1>4

\* Every other save keeps the selection of the row it writes, or deletes the row.
LEMMA OtherSavesSelection ==
    ASSUME IInv, SelectionInv, NEW q \in Requests,
           \/ SaveConf(q) \/ CopyToDefault(q) \/ Rename(q) \/ DeleteTarget(q)
           \/ DeleteDefault(q) \/ Store(q) \/ Reset(q)
    PROVE  SelectionInv'
<1>1. "target" \in Slots /\ "default" \in Slots
  BY DEF Slots
<1>2. ASSUME NEW call, Does(q, call), call /= "answer", NEW s \in Slots,
             Of(q, s) /= NoBean, NEW row \in Row, Saves(q, s, row) \/ Writes(q, s, row),
             row.selected = Of(q, s).row.selected,
             row.live => Of(q, s).row.live,
             job[q].op \notin Selecting \/ (job[q].op = "Change" /\ job[q].at = 6)
      PROVE  SelectionInv'
  <2>1. InFlight(q)
    BY <1>2, Doing
  <2>2. QED
    BY <1>2, <2>1, PlainSave
<1>3. ASSUME NEW call, Does(q, call), call /= "answer", NEW s \in Slots, Of(q, s) /= NoBean
      PROVE  Of(q, s).row \in Row
  BY <1>3, Holding
<1>4. CASE SaveConf(q)
  <2> DEFINE row == [Of(q, "target").row EXCEPT !.conf = Of(q, "default").row.conf]
  <2>1. Does(q, "saveConf") /\ Saves(q, "target", row)
    BY <1>4 DEF SaveConf
  <2>2. job[q].op = "Save" /\ job[q].at = 3
    BY <2>1, Doing DEF Places
  <2>3. Of(q, "target") /= NoBean /\ Of(q, "default") /= NoBean
    BY <2>1, <2>2, Doing DEF Filled, Of
  <2>4. Of(q, "target").row \in Row /\ Of(q, "default").row \in Row
    BY <1>1, <1>3, <2>1, <2>3
  <2>5. row \in Row /\ row.selected = Of(q, "target").row.selected
        /\ row.live = Of(q, "target").row.live
    BY <2>4 DEF Row
  <2> HIDE DEF row
  <2>6. QED
    BY <1>1, <1>2, <2>1, <2>2, <2>3, <2>5 DEF Selecting
<1>5. CASE CopyToDefault(q)
  <2> DEFINE row == [Of(q, "default").row EXCEPT !.conf = Of(q, "target").row.conf]
  <2>1. Does(q, "copyToDefault")
    BY <1>5 DEF CopyToDefault
  <2>2. \/ job[q].op = "Change" /\ job[q].at = 6
        \/ job[q].op = "SharedPage" /\ job[q].at = 4
    BY <2>1, Doing DEF Places
  <2>3. CASE ~Of(q, "target").row.default
    <3>1. Of(q, "target") /= NoBean /\ Of(q, "default") /= NoBean
      BY <2>1, <2>2, <2>3, Doing DEF Filled, Of
    <3>2. Of(q, "target").row \in Row /\ Of(q, "default").row \in Row
      BY <1>1, <1>3, <2>1, <3>1
    <3>3. row \in Row /\ row.selected = Of(q, "default").row.selected
          /\ row.live = Of(q, "default").row.live
      BY <3>2 DEF Row
    <3>4. Saves(q, "default", row)
      BY <1>5, <2>3 DEF CopyToDefault
    <3> HIDE DEF row
    <3>5. QED
      BY <1>1, <1>2, <2>1, <2>2, <3>1, <3>3, <3>4 DEF Selecting
  <2>4. CASE Of(q, "target").row.default
    <3>1. Advance(q) /\ UNCHANGED <<rows, overlap>>
      BY <1>5, <2>4 DEF CopyToDefault
    <3>2. \A k : NextCall(job[q], k) => Prepared(k, Selected)
      BY <2>2, NothingToPrepare DEF Selecting
    <3>3. QED
      BY <2>1, <3>1, <3>2, AdvanceSelection, Doing
  <2>5. QED
    BY <2>3, <2>4
<1>6. CASE Rename(q)
  <2>1. Does(q, "rename") /\ Writes(q, "target", Of(q, "target").row)
    BY <1>6 DEF Rename
  <2>2. job[q].op = "Edit" /\ job[q].at = 2
    BY <2>1, Doing DEF Places
  <2>3. Of(q, "target") /= NoBean
    BY <2>1, <2>2, Doing DEF Filled, Of
  <2>4. Of(q, "target").row \in Row
    BY <1>1, <1>3, <2>1, <2>3
  <2>5. QED
    BY <1>1, <1>2, <2>1, <2>2, <2>3, <2>4 DEF Selecting
<1>7. CASE DeleteTarget(q)
  <2> DEFINE row == [Of(q, "target").row EXCEPT !.live = FALSE]
  <2>1. Does(q, "deleteTarget") /\ Saves(q, "target", row)
    BY <1>7 DEF DeleteTarget
  <2>2. job[q].op = "Delete" /\ job[q].at = 3
    BY <2>1, Doing DEF Places
  <2>3. Of(q, "target") /= NoBean
    BY <2>1, <2>2, Doing DEF Filled, Of
  <2>4. Of(q, "target").row \in Row
    BY <1>1, <1>3, <2>1, <2>3
  <2>5. row \in Row /\ row.selected = Of(q, "target").row.selected /\ ~row.live
    BY <2>4 DEF Row
  <2> HIDE DEF row
  <2>6. QED
    BY <1>1, <1>2, <2>1, <2>2, <2>3, <2>5 DEF Selecting
<1>8. CASE DeleteDefault(q)
  <2> DEFINE row == [Of(q, "default").row EXCEPT !.live = FALSE]
  <2>1. Does(q, "deleteDefault") /\ Saves(q, "default", row)
    BY <1>8 DEF DeleteDefault
  <2>2. job[q].op = "Clear" /\ job[q].at = 4
    BY <2>1, Doing DEF Places
  <2>3. Of(q, "default") /= NoBean
    BY <2>1, <2>2, Doing DEF Filled, Of
  <2>4. Of(q, "default").row \in Row
    BY <1>1, <1>3, <2>1, <2>3
  <2>5. row \in Row /\ row.selected = Of(q, "default").row.selected /\ ~row.live
    BY <2>4 DEF Row
  <2> HIDE DEF row
  <2>6. QED
    BY <1>1, <1>2, <2>1, <2>2, <2>3, <2>5 DEF Selecting
<1>9. CASE Store(q)
  <2> DEFINE row == [Of(q, "default").row EXCEPT !.conf = job[q].arg]
  <2>1. Does(q, "store") /\ Saves(q, "default", row)
    BY <1>9 DEF Store
  <2>2. job[q].op = "Persist" /\ job[q].at = 2
    BY <2>1, Doing DEF Places
  <2>3. Of(q, "default") /= NoBean /\ job[q].arg \in Confs
    BY <2>1, <2>2, Doing DEF Filled, Of, JobInv, ArgInv
  <2>4. Of(q, "default").row \in Row
    BY <1>1, <1>3, <2>1, <2>3
  <2>5. row \in Row /\ row.selected = Of(q, "default").row.selected
        /\ row.live = Of(q, "default").row.live
    BY <2>3, <2>4 DEF Row
  <2> HIDE DEF row
  <2>6. QED
    BY <1>1, <1>2, <2>1, <2>2, <2>3, <2>5 DEF Selecting
<1>10. CASE Reset(q)
  <2> DEFINE b == Of(q, "default")
             row == IF b.row.conf \in Outdated THEN [b.row EXCEPT !.conf = Initial]
                    ELSE b.row
  <2>1. Does(q, "reset") /\ Saves(q, "default", row)
    BY <1>10 DEF Reset
  <2>2. \/ job[q].op = "Page" /\ job[q].at = 4
        \/ job[q].op = "Persist" /\ job[q].at = 3
    BY <2>1, Doing DEF Places
  <2>3. b /= NoBean
    BY <2>1, <2>2, Doing DEF Filled, Of
  <2>4. b.row \in Row
    BY <1>1, <1>3, <2>1, <2>3
  <2>5. row \in Row /\ row.selected = b.row.selected /\ row.live = b.row.live
    BY <2>4, ConfsAssumption DEF Row
  <2> HIDE DEF row
  <2>6. QED
    BY <1>1, <1>2, <2>1, <2>2, <2>3, <2>5 DEF Selecting
<1>11. QED
  BY <1>4, <1>5, <1>6, <1>7, <1>8, <1>9, <1>10

\* A request is sent: it has made sure of nothing yet, and it does not overlap one
\* that selects a filter if it selects one itself.
LEMMA SendsSelection ==
    ASSUME IInv, SelectionInv, NEW q \in Requests, NEW op, NEW arg, Sends(q, op, arg)
    PROVE  SelectionInv'
<1> DEFINE j == [op |-> op, at |-> 1, arg |-> arg, beans |-> [s \in Slots |-> NoBean]]
<1>1. j.op = op /\ j.at = 1
  OBVIOUS
<1>2. job' = [job EXCEPT ![q] = j] /\ UNCHANGED rows
  BY DEF Sends
<1> HIDE DEF j
<1>3. \A p \in Requests : job'[p] = IF p = q THEN j ELSE job[p]
  BY <1>2 DEF IInv, TypeOK
<1>4. Selected' = Selected
  BY <1>2 DEF Selected, Live
<1>5. overlap' /= "selecting" =>
          /\ overlap /= "selecting"
          /\ op \in Selecting => \A p \in Requests : ~IsSelecting(job[p])
  BY DEF Sends, IsSelecting, InFlight
<1> SUFFICES ASSUME overlap' /= "selecting"
             PROVE  /\ \A i, k \in Selected' : i = k
                    /\ \A p, r \in Requests :
                           IsSelecting(job'[p]) /\ IsSelecting(job'[r]) => p = r
                    /\ \A p \in Requests :
                           IsSelecting(job'[p]) => Prepared(job'[p], Selected')
  BY DEF SelectionInv, IsSelecting, Prepared
<1>6. \A selected : Prepared(j, selected)
  BY <1>1 DEF Prepared
<1>7. \A p, r \in Requests : IsSelecting(job'[p]) /\ IsSelecting(job'[r]) => p = r
  <2>1. IsSelecting(j) => op \in Selecting
    BY <1>1 DEF IsSelecting
  <2>2. QED
    BY <1>3, <1>5, <2>1 DEF SelectionInv
<1>8. \A p \in Requests : IsSelecting(job'[p]) => Prepared(job'[p], Selected')
  BY <1>3, <1>4, <1>5, <1>6 DEF SelectionInv
<1>9. \A i, k \in Selected' : i = k
  BY <1>4, <1>5 DEF SelectionInv
<1>10. QED
  BY <1>7, <1>8, <1>9

\* At the start one filter is selected or none, and nothing runs.
LEMMA InitSelection == Init => SelectionInv
<1> SUFFICES ASSUME Init PROVE SelectionInv
  OBVIOUS
<1>1. \A q \in Requests : ~IsSelecting(job[q])
  BY DEF Init, IsSelecting
<1>2. Selected \subseteq {2}
  <2>1. CASE rows = <<>>
    BY <2>1 DEF Selected, Live
  <2>2. CASE \E conf \in Confs :
                 rows = <<[Stored(FALSE) EXCEPT !.default = TRUE],
                          [Stored(TRUE) EXCEPT !.conf = conf], Stored(FALSE)>>
    <3>1. PICK r2 : rows = <<[Stored(FALSE) EXCEPT !.default = TRUE], r2, Stored(FALSE)>>
      BY <2>2
    <3>2. DOMAIN rows = 1..3 /\ ~rows[1].selected /\ ~rows[3].selected
      BY <3>1 DEF Stored
    <3>3. QED
      BY <3>2 DEF Selected, Live
  <2>3. QED
    BY <2>1, <2>2 DEF Init
<1>3. QED
  BY <1>1, <1>2 DEF SelectionInv

\* Every step keeps it.
LEMMA NextSelection ==
    ASSUME IInv, SelectionInv, [Next]_vars
    PROVE  SelectionInv'
<1>1. CASE Browser
  <2>1. PICK t \in Tabs, lane \in Lanes : \E op, arg : Sends(<<t, lane>>, op, arg)
    BY <1>1 DEF Browser, Click, Refresh, Open, Lanes
  <2>2. <<t, lane>> \in Requests
    BY DEF Requests
  <2>3. QED
    BY <2>1, <2>2, SendsSelection
<1>2. CASE Server
  <2>1. PICK q \in Requests :
          \/ ReadTarget(q) \/ ReadSelected(q) \/ Deselect(q) \/ Select(q)
          \/ ReadDefault(q) \/ InsertDefault(q) \/ Insert(q) \/ SaveConf(q)
          \/ CopyToDefault(q) \/ Rename(q) \/ DeleteTarget(q) \/ DeleteDefault(q)
          \/ ReadShared(q) \/ Store(q) \/ Reset(q) \/ Answer(q)
    BY <1>2 DEF Server
  <2>2. CASE Answer(q)
    <3>1. job' = [job EXCEPT ![q] = Idle] /\ UNCHANGED <<rows, overlap>>
      BY <2>2 DEF Answer, Fails
    <3>2. ~IsSelecting(Idle)
      BY DEF IsSelecting
    <3>3. QED
      BY <3>1, <3>2, MovesSelection
  <2>3. CASE ~Answer(q)
    BY <2>1, <2>3, ReadTargetSelection, ReadSelectedSelection, DeselectSelection,
       SelectSelection, ReadDefaultSelection, InsertDefaultSelection, InsertSelection,
       OtherSavesSelection, ReadSharedSelection
  <2>4. QED
    BY <2>2, <2>3
<1>3. CASE UNCHANGED vars
  BY <1>3 DEF vars, SelectionInv, Selected, Live
<1>4. QED
  BY <1>1, <1>2, <1>3 DEF Next

\* Requests that select a filter one after the other leave one selected at most,
\* whatever fails halfway and whatever every other request does meanwhile.
THEOREM OneSelected == Spec => []OneSelectedUnlessOverlap
<1>1. IInv /\ SelectionInv /\ [Next]_vars => SelectionInv'
  BY NextSelection
<1>2. SelectionInv => OneSelectedUnlessOverlap
  <2> SUFFICES ASSUME SelectionInv, overlap /= "selecting"
               PROVE  Cardinality(Selected) <= 1
    BY DEF OneSelectedUnlessOverlap
  <2>1. CASE Selected = {}
    BY <2>1, FS_EmptySet
  <2>2. CASE Selected /= {}
    <3>1. PICK i : Selected = {i}
      BY <2>2 DEF SelectionInv
    <3>2. Cardinality({i}) = 1
      BY FS_Singleton
    <3>3. QED
      BY <3>1, <3>2
  <2>3. QED
    BY <2>1, <2>2
<1>3. QED
  BY Invariance, InitSelection, <1>1, <1>2, PTL DEF Spec
=============================================================================
