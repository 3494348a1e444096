------------------------ MODULE PluginManagerProofs ------------------------
(***************************************************************************)
(* Proofs about PluginManager, for every set of plugins, definitions and   *)
(* threads.                                                                *)
(***************************************************************************)
EXTENDS PluginManager, TLAPS

-----------------------------------------------------------------------------
(* Types *)

\* What the helpers on one entry do to the types of the variables they set.
LEMMA StartEntryType ==
    ASSUME TypeOK, NEW p, StartEntry(p)
    PROVE  /\ status' \in [Plugins -> Statuses]
           /\ lifeBox' \in [Plugins -> Seq({"START", "STOP"})]
           /\ router' \in [Plugins -> [Flows -> {"none", "live", "dead"}]]
           /\ orphans' \in [Plugins -> [Flows -> Nat]]
<1>1. CASE UNCHANGED <<status, lifeBox, router, orphans>>
  BY <1>1 DEF TypeOK
<1>2. CASE ~ UNCHANGED <<status, lifeBox, router, orphans>>
  <2> DEFINE I == Interfaces(p)
  <2>1. /\ status' = [status EXCEPT ![p] = "STARTING"]
        /\ TellLifecycle(p, "START")
        /\ router' = [router EXCEPT ![p] =
              [f \in Flows |-> IF f \in I THEN "live" ELSE @[f]]]
        /\ orphans' = [orphans EXCEPT ![p] =
              [f \in Flows |-> IF f \in I /\ router[p][f] = "live"
                               THEN @[f] + 1 ELSE @[f]]]
    BY <1>2 DEF StartEntry
  <2> HIDE DEF I
  <2>2. status' \in [Plugins -> Statuses]
    BY <2>1 DEF TypeOK, Statuses
  <2>3. lifeBox' \in [Plugins -> Seq({"START", "STOP"})]
    BY <2>1 DEF TypeOK, TellLifecycle
  <2>4. router' \in [Plugins -> [Flows -> {"none", "live", "dead"}]]
    BY <2>1 DEF TypeOK
  <2>5. orphans' \in [Plugins -> [Flows -> Nat]]
    <3>1. orphans \in [Plugins -> [Flows -> Nat]]
      BY DEF TypeOK
    <3>2. \A f \in Flows : orphans[p][f] \in Nat \/ p \notin Plugins
      BY <3>1
    <3>3. [f \in Flows |-> IF f \in I /\ router[p][f] = "live"
                           THEN orphans[p][f] + 1 ELSE orphans[p][f]]
              \in [Flows -> Nat] \/ p \notin Plugins
      BY <3>2
    <3>4. QED BY <2>1, <3>1, <3>3
  <2>6. QED BY <2>2, <2>3, <2>4, <2>5
<1>3. QED BY <1>1, <1>2

\* Asking one plugin to stop keeps the types.
LEMMA StopEntryType ==
    ASSUME TypeOK, NEW p, StopEntry(p)
    PROVE  /\ status' \in [Plugins -> Statuses]
           /\ lifeBox' \in [Plugins -> Seq({"START", "STOP"})]
           /\ router' \in [Plugins -> [Flows -> {"none", "live", "dead"}]]
<1>1. CASE MayStop(p)
  <2>1. /\ status' = [status EXCEPT ![p] = "STOPPING"]
        /\ TellLifecycle(p, "STOP")
        /\ router' = [router EXCEPT ![p] =
              [f \in Flows |-> IF @[f] = "live" THEN "dead" ELSE @[f]]]
    BY <1>1 DEF StopEntry
  <2>2. status' \in [Plugins -> Statuses]
    BY <2>1 DEF TypeOK, Statuses
  <2>3. lifeBox' \in [Plugins -> Seq({"START", "STOP"})]
    BY <2>1 DEF TypeOK, TellLifecycle
  <2>4. router' \in [Plugins -> [Flows -> {"none", "live", "dead"}]]
    BY <2>1 DEF TypeOK
  <2>5. QED BY <2>2, <2>3, <2>4
<1>2. CASE ~MayStop(p)
  BY <1>2 DEF TypeOK, StopEntry
<1>3. QED BY <1>1, <1>2

\* Creating the entry of one plugin keeps the types.
LEMMA NewEntryType ==
    ASSUME TypeOK, NEW p \in Plugins, NewEntry(p)
    PROVE  /\ entries' \subseteq Plugins
           /\ status' \in [Plugins -> Statuses]
           /\ router' \in [Plugins -> [Flows -> {"none", "live", "dead"}]]
<1>1. CASE p \in entries
  BY <1>1 DEF TypeOK, NewEntry
<1>2. CASE p \notin entries
  <2>1. entries' \subseteq Plugins
    BY <1>2 DEF TypeOK, NewEntry
  <2>2. status' \in [Plugins -> Statuses]
    BY <1>2 DEF TypeOK, NewEntry, Statuses
  <2>3. router' \in [Plugins -> [Flows -> {"none", "live", "dead"}]]
    <3>1. router' = [router EXCEPT ![p] = [f \in Flows |-> "none"]]
      BY <1>2 DEF NewEntry
    <3>2. QED BY <3>1 DEF TypeOK
  <2>4. QED BY <2>1, <2>2, <2>3
<1>3. QED BY <1>1, <1>2

\* Every request and every step of an administration thread keeps the types.
LEMMA RequestType ==
    ASSUME TypeOK, NEW t \in Admins, Request(t)
    PROVE  TypeOK'
<1>1. ASSUME NEW p \in Plugins, RegisterPlugin(t, p) PROVE TypeOK'
  BY <1>1, ConstantsAssumption
  DEF TypeOK, RegisterPlugin, Begin, Labels, actors, boot
<1>2. ASSUME NEW p \in Plugins, StartPlugin(t, p) PROVE TypeOK'
  BY <1>2, ConstantsAssumption
  DEF TypeOK, StartPlugin, Begin, Labels, database, actors, boot
<1>3. ASSUME NEW p \in Plugins, StopPlugin(t, p) PROVE TypeOK'
  BY <1>3, ConstantsAssumption
  DEF TypeOK, StopPlugin, Begin, Labels, database, actors, boot
<1>4. ASSUME NEW p \in Plugins, UnregisterPlugin(t, p) PROVE TypeOK'
  BY <1>4, ConstantsAssumption
  DEF TypeOK, UnregisterPlugin, Begin, Labels, actors, boot
<1>5. ASSUME NEW scope \in Scopes, StopAll(t, scope) PROVE TypeOK'
  BY <1>5 DEF TypeOK, StopAll, Labels, database, actors, boot
<1>6. QED BY <1>1, <1>2, <1>3, <1>4, <1>5 DEF Request

\* The second half of a call of an administrator keeps the types.
LEMMA ProceedType ==
    ASSUME TypeOK, NEW t \in Admins, Proceed(t)
    PROVE  TypeOK'
<1>0. CASE RegisterEnters(t)
  <2>1. CASE Continue(t, "registerRunner", "registering") /\ mapLock' = t
    BY <1>0, <2>1 DEF TypeOK, RegisterEnters, Continue, Labels, database, actors, boot
  <2>2. CASE Finish(t, "registerRunner") /\ UNCHANGED mapLock
    BY <1>0, <2>2 DEF TypeOK, RegisterEnters, Finish, Labels, database, actors, boot
  <2>3. QED BY <1>0, <2>1, <2>2 DEF RegisterEnters
<1>1. CASE RegisterRunner(t)
  <2>1. target[t] \in Plugins
    BY <1>1 DEF TypeOK, RegisterRunner, Finish
  <2>2. QED
    BY <1>1, <2>1, NewEntryType
    DEF TypeOK, RegisterRunner, Finish, Labels, database, actors, boot
<1>2. CASE RegisterRunnerFails(t)
  BY <1>2 DEF TypeOK, RegisterRunnerFails, Continue, Labels, database, actors, boot
<1>3. CASE RegisterRollback(t)
  BY <1>3 DEF TypeOK, RegisterRollback, Finish, Labels, actors, boot
<1>4. CASE StartRunner(t)
  BY <1>4, StartEntryType
  DEF TypeOK, StartRunner, Continue, Labels, database, boot
<1>5. CASE StopRunner(t)
  BY <1>5, StopEntryType
  DEF TypeOK, StopRunner, Continue, Labels, database, boot
<1>6. ASSUME NEW from, NEW mode \in BOOLEAN, ChangeAutoStartMode(t, from, mode)
      PROVE  TypeOK'
  BY <1>6 DEF TypeOK, ChangeAutoStartMode, Finish, Labels, actors, boot
<1>7. CASE UnregisterRunner(t)
  <2>1. CASE MayUnregister(target[t])
    <3>1. /\ entries' = entries \ {target[t]}
          /\ lifeBox' = [lifeBox EXCEPT ![target[t]] = <<>>]
      BY <1>7, <2>1 DEF UnregisterRunner
    <3>2. entries' \subseteq Plugins
      BY <3>1 DEF TypeOK
    <3>3. lifeBox' \in [Plugins -> Seq({"START", "STOP"})]
      <4>1. <<>> \in Seq({"START", "STOP"})
        OBVIOUS
      <4>2. lifeBox \in [Plugins -> Seq({"START", "STOP"})]
        BY DEF TypeOK
      <4>3. QED BY <3>1, <4>1, <4>2
    <3>4. QED
      BY <1>7, <3>2, <3>3 DEF TypeOK, UnregisterRunner, Finish, Labels, database, boot
  <2>2. CASE ~MayUnregister(target[t])
    BY <1>7, <2>2 DEF TypeOK, UnregisterRunner, Finish, Labels, database, boot
  <2>3. QED BY <2>1, <2>2
<1>8. ASSUME NEW p \in Plugins, StopNext(t, p) PROVE TypeOK'
  BY <1>8, StopEntryType DEF TypeOK, StopNext, database, boot
<1>9. CASE StopAllDone(t)
  BY <1>9 DEF TypeOK, StopAllDone, Finish, Labels, database, actors, boot
<1>10. QED
  BY <1>0, <1>1, <1>2, <1>3, <1>4, <1>5, <1>6, <1>7, <1>8, <1>9 DEF Proceed

\* The actors.
LEMMA ActorType ==
    ASSUME TypeOK
    PROVE  /\ \A p \in Plugins : Lifecycle(p) \/ CallbackStatus(p) => TypeOK'
           /\ CallbackMenu => TypeOK'
<1>1. ASSUME NEW p \in Plugins, NEW message,
             NEW answer \in {"STARTED", "STOPPED", "START_FAILED"},
             Receive(p, message, answer), running' \subseteq Plugins
      PROVE  TypeOK'
  BY <1>1 DEF TypeOK, Receive, database, threads, boot
<1>2. ASSUME NEW p \in Plugins, Lifecycle(p) PROVE TypeOK'
  BY <1>1, <1>2 DEF TypeOK, Lifecycle, RunnerStarts, RunnerFailsToStart, RunnerStops
<1>3. ASSUME NEW p \in Plugins, CallbackStatus(p) PROVE TypeOK'
  <2> DEFINE answer == Head(callbackBox[p])
  <2>1. answer \in {"STARTED", "STOPPED", "START_FAILED"}
    BY <1>3 DEF TypeOK, CallbackStatus
  <2>2. callbackBox' \in [Plugins -> Seq({"STARTED", "STOPPED", "START_FAILED"})]
    BY <1>3 DEF TypeOK, CallbackStatus
  <2>3. StatusAfter(answer) \in Statuses
    BY DEF StatusAfter, Statuses
  <2>4. TaskAfter(answer, p) \in MenuTasks \cup {NoTask}
    BY DEF TaskAfter, MenuTasks
  <2>5. status' \in [Plugins -> Statuses] /\ menuTask' \in MenuTasks \cup {NoTask}
    BY <1>3, <2>3, <2>4 DEF TypeOK, CallbackStatus
  <2>6. QED
    BY <1>3, <2>2, <2>5 DEF TypeOK, CallbackStatus, database, threads, boot
<1>4. ASSUME CallbackMenu PROVE TypeOK'
  BY <1>4 DEF TypeOK, CallbackMenu, MenuTasks, NoTask, database, threads, boot
<1>5. QED BY <1>2, <1>3, <1>4

\* The restart and the boot.
LEMMA BootType ==
    ASSUME TypeOK
    PROVE  /\ \A loaded \in SUBSET Definitions : Restart(loaded) => TypeOK'
           /\ Booting => TypeOK'
<1>1. ASSUME NEW loaded \in SUBSET Definitions, Restart(loaded) PROVE TypeOK'
  <2>1. available' \subseteq Definitions
    BY <1>1 DEF TypeOK, Restart
  <2>2. /\ config' \in [Plugins -> {"none", "present", "deleted"}]
        /\ autostart' \in [Plugins -> BOOLEAN]
        /\ phase' \in {"down", "booting", "up", "aborted"}
        /\ bootSet' \subseteq Plugins
    <3>1. /\ config \in [Plugins -> {"none", "present", "deleted"}]
          /\ autostart \in [Plugins -> BOOLEAN]
      BY DEF TypeOK
    <3>2. CASE InitAborts(loaded)
      BY <1>1, <3>1, <3>2 DEF Restart
    <3>3. CASE ~InitAborts(loaded)
      BY <1>1, <3>1, <3>3 DEF Restart
    <3>4. QED
      BY <3>2, <3>3
  <2>3. VolatileStateIsLost
    BY <1>1 DEF Restart
  <2>4. /\ entries' \subseteq Plugins
        /\ mapLock' \in Admins \cup {Boot, Nobody}
        /\ status' \in [Plugins -> Statuses]
        /\ router' \in [Plugins -> [Flows -> {"none", "live", "dead"}]]
        /\ orphans' \in [Plugins -> [Flows -> Nat]]
    BY <2>3 DEF VolatileStateIsLost, Statuses
  <2>5. /\ lifeBox' \in [Plugins -> Seq({"START", "STOP"})]
        /\ callbackBox' \in [Plugins -> Seq({"STARTED", "STOPPED", "START_FAILED"})]
        /\ menuTask' \in MenuTasks \cup {NoTask}
        /\ running' \subseteq Plugins
        /\ menu' \subseteq Plugins
    BY <2>3 DEF VolatileStateIsLost
  <2>6. /\ pc' \in [Admins -> Labels]
        /\ target' \in [Admins -> Plugins \cup {Nobody}]
        /\ \A t \in Admins : target'[t] = Nobody <=> pc'[t] \in {"idle", "stopping"}
        /\ todo' \in [Admins -> SUBSET Plugins]
        /\ bootStart' \in Plugins \cup {Nobody}
    BY <2>3 DEF VolatileStateIsLost, Labels
  <2>7. QED
    BY <2>1, <2>2, <2>4, <2>5, <2>6, Zenon DEF TypeOK
<1>2. ASSUME NEW p \in Plugins, NEW succeeds \in BOOLEAN, BootRegister(p, succeeds)
      PROVE  TypeOK'
  <2>1. /\ entries' \subseteq Plugins
        /\ status' \in [Plugins -> Statuses]
        /\ router' \in [Plugins -> [Flows -> {"none", "live", "dead"}]]
    BY <1>2, NewEntryType DEF BootRegister, TypeOK
  <2>2. QED
    BY <1>2, <2>1 DEF TypeOK, BootRegister, database, actors, threads
<1>3. CASE BootStart
  BY <1>3, StartEntryType DEF TypeOK, BootStart, database, threads
<1>4. CASE BootDone
  BY <1>4 DEF TypeOK, BootDone, database, actors, threads
<1>5. CASE BootEnters
  BY <1>5 DEF TypeOK, BootEnters, database, actors, threads, boot
<1>6. QED BY <1>1, <1>2, <1>3, <1>4, <1>5 DEF Booting

\* Every variable keeps its type: whatever the threads, the actors, the boot
\* and a restart do, no other status, label or message appears.
THEOREM TypeCorrect == Spec => []TypeOK
<1>1. Init => TypeOK
  BY ConstantsAssumption DEF Init, TypeOK, Statuses, Labels
<1>2. TypeOK /\ [Next]_vars => TypeOK'
  <2> SUFFICES ASSUME TypeOK, [Next]_vars PROVE TypeOK'
    OBVIOUS
  <2>1. CASE UNCHANGED vars
    BY <2>1 DEF TypeOK, vars, database, actors, threads, boot
  <2>2. CASE Next
    <3>1. CASE \E t \in Admins : Request(t) \/ Proceed(t)
      BY <3>1, RequestType, ProceedType
    <3>2. CASE \E p \in Plugins : Lifecycle(p) \/ CallbackStatus(p)
      BY <3>2, ActorType
    <3>3. CASE CallbackMenu
      BY <3>3, ActorType
    <3>4. CASE (\E loaded \in SUBSET Definitions : Restart(loaded)) \/ Booting
      BY <3>4, BootType
    <3>5. QED BY <2>2, <3>1, <3>2, <3>3, <3>4 DEF Next
  <2>3. QED BY <2>1, <2>2
<1>3. QED BY <1>1, <1>2, PTL DEF Spec

-----------------------------------------------------------------------------
(* The conversation between a plugin and the registry *)

\* A mailbox holds one message at most: what appending and taking it gives.
LEMMA Singletons ==
    \A x : /\ Append(<<>>, x) = <<x>>
          /\ Head(<<x>>) = x
          /\ Tail(<<x>>) = <<>>
          /\ <<x>> # <<>>
OBVIOUS

\* The inductive invariant.  OneConversation alone is not about the runners, and
\* RunnersAreKnown alone does not survive an answer that is recorded: the two
\* are tied together by what an answer on its way says of the runner.
Conversation == OneConversation /\ RunnersAreKnown /\ AnswersAreTrue /\ RoutersFollowStatus

conversationVars == <<entries, status, router, lifeBox, callbackBox, running>>

\* A step which changes none of these variables keeps the conversation.
LEMMA ConversationStutters ==
    ASSUME Conversation, UNCHANGED conversationVars
    PROVE  Conversation'
BY DEF Conversation, OneConversation, RunnersAreKnown, AnswersAreTrue,
       RoutersFollowStatus, conversationVars, Interfaces

\* A plugin has no other flow than the two there are.
LEMMA InterfacesAreFlows == \A p \in Plugins : Interfaces(p) \subseteq Flows
BY ConstantsAssumption DEF Interfaces

\* A start is told to a stopped plugin only, with nothing on its way.
LEMMA StartEntryConversation ==
    ASSUME TypeOK, Conversation, NEW p \in Plugins, StartEntry(p),
           UNCHANGED <<entries, callbackBox, running>>
    PROVE  Conversation'
<1>1. CASE UNCHANGED <<status, lifeBox, router, orphans>>
  BY <1>1, ConversationStutters DEF conversationVars
<1>2. CASE ~ UNCHANGED <<status, lifeBox, router, orphans>>
  <2>1. /\ status[p] = "STOPPED"
        /\ status' = [status EXCEPT ![p] = "STARTING"]
        /\ TellLifecycle(p, "START")
        /\ router' = [router EXCEPT ![p] =
              [f \in Flows |-> IF f \in Interfaces(p) THEN "live" ELSE @[f]]]
    BY <1>2 DEF StartEntry, MayStart
  <2>2. p \notin running /\ lifeBox[p] = <<>> /\ callbackBox[p] = <<>>
    BY <2>1 DEF Conversation, OneConversation, RunnersAreKnown
  <2>3. /\ status'[p] = "STARTING"
        /\ \A q \in Plugins \ {p} : status'[q] = status[q] /\ router'[q] = router[q]
                                   /\ lifeBox'[q] = lifeBox[q]
    BY <2>1 DEF TypeOK, TellLifecycle
  <2>4. lifeBox'[p] = IF p \in entries THEN <<"START">> ELSE <<>>
    BY <2>1, <2>2, Singletons DEF TypeOK, TellLifecycle
  <2>5. \A f \in Interfaces(p) \cap Flows : router'[p][f] = "live"
    BY <2>1 DEF TypeOK
  <2>6. OneConversation'
    BY <2>2, <2>3, <2>4 DEF Conversation, OneConversation
  <2>7. RunnersAreKnown'
    BY <2>2, <2>3 DEF Conversation, RunnersAreKnown, TypeOK
  <2>8. AnswersAreTrue'
    BY <2>2, <2>3, Singletons DEF Conversation, AnswersAreTrue
  <2>9. RoutersFollowStatus'
    <3>1. \A f \in Interfaces(p) : router'[p][f] = "live"
      BY <2>5, InterfacesAreFlows
    <3>2. SUFFICES ASSUME NEW q \in entries, NEW f \in Interfaces(q)
                   PROVE  /\ status'[q] \in {"STARTING", "STARTED"} => router'[q][f] = "live"
                          /\ status'[q] = "STOPPING" => router'[q][f] = "dead"
      BY DEF RoutersFollowStatus, Interfaces
    <3>3. CASE q = p
      BY <2>3, <3>1, <3>3
    <3>4. CASE q # p
      BY <2>3, <3>4 DEF Conversation, RoutersFollowStatus, TypeOK
    <3>5. QED BY <3>3, <3>4
  <2>10. QED BY <2>6, <2>7, <2>8, <2>9 DEF Conversation
<1>3. QED BY <1>1, <1>2

\* A stop is told to a started plugin only, with nothing on its way.
LEMMA StopEntryConversation ==
    ASSUME TypeOK, Conversation, NEW p \in Plugins, StopEntry(p),
           UNCHANGED <<entries, callbackBox, running>>
    PROVE  Conversation'
<1>1. CASE ~MayStop(p)
  BY <1>1, ConversationStutters DEF StopEntry, conversationVars
<1>2. CASE p \notin entries
  <2>1. /\ lifeBox' = lifeBox
        /\ \A q \in entries : status'[q] = status[q] /\ router'[q] = router[q]
    BY <1>2 DEF StopEntry, TellLifecycle, TypeOK
  <2>2. QED
    BY <1>2, <2>1 DEF Conversation, OneConversation, RunnersAreKnown, AnswersAreTrue,
                      RoutersFollowStatus, Interfaces, TypeOK
<1>3. CASE MayStop(p) /\ p \in entries
  <2>1. /\ p \in entries
        /\ status[p] = "STARTED"
        /\ status' = [status EXCEPT ![p] = "STOPPING"]
        /\ lifeBox' = [lifeBox EXCEPT ![p] = Append(@, "STOP")]
        /\ router' = [router EXCEPT ![p] =
              [f \in Flows |-> IF @[f] = "live" THEN "dead" ELSE @[f]]]
    BY <1>3 DEF StopEntry, MayStop, TellLifecycle, TypeOK, Statuses
  <2>2. p \in running /\ lifeBox[p] = <<>> /\ callbackBox[p] = <<>>
    BY <2>1 DEF Conversation, OneConversation, AnswersAreTrue
  <2>3. /\ status'[p] = "STOPPING"
        /\ lifeBox'[p] = <<"STOP">>
        /\ \A q \in Plugins \ {p} : status'[q] = status[q] /\ router'[q] = router[q]
                                   /\ lifeBox'[q] = lifeBox[q]
    BY <2>1, <2>2, Singletons DEF TypeOK
  <2>4. \A f \in Interfaces(p) : router'[p][f] = "dead"
    <3>1. \A f \in Interfaces(p) : router[p][f] = "live"
      BY <2>1 DEF Conversation, RoutersFollowStatus
    <3>2. router'[p] = [f \in Flows |-> IF router[p][f] = "live" THEN "dead" ELSE router[p][f]]
      BY <2>1 DEF TypeOK
    <3>3. QED BY <3>1, <3>2, InterfacesAreFlows
  <2>5. OneConversation'
    BY <2>1, <2>2, <2>3 DEF Conversation, OneConversation
  <2>6. RunnersAreKnown'
    BY <2>1, <2>2, <2>3 DEF Conversation, RunnersAreKnown, TypeOK
  <2>7. AnswersAreTrue'
    BY <2>2, <2>3, Singletons DEF Conversation, AnswersAreTrue
  <2>8. RoutersFollowStatus'
    <3>1. SUFFICES ASSUME NEW q \in entries, NEW f \in Interfaces(q)
                   PROVE  /\ status'[q] \in {"STARTING", "STARTED"} => router'[q][f] = "live"
                          /\ status'[q] = "STOPPING" => router'[q][f] = "dead"
      BY DEF RoutersFollowStatus, Interfaces
    <3>2. CASE q = p
      BY <2>3, <2>4, <3>2
    <3>3. CASE q # p
      BY <2>3, <3>3 DEF Conversation, RoutersFollowStatus, TypeOK
    <3>4. QED BY <3>2, <3>3
  <2>9. QED BY <2>5, <2>6, <2>7, <2>8 DEF Conversation
<1>4. QED BY <1>1, <1>2, <1>3

\* A new entry begins stopped, and nothing is on its way from an earlier one.
LEMMA NewEntryConversation ==
    ASSUME TypeOK, Conversation, NEW p \in Plugins, NewEntry(p),
           UNCHANGED <<lifeBox, callbackBox, running>>
    PROVE  Conversation'
<1>1. CASE p \in entries
  BY <1>1, ConversationStutters DEF NewEntry, conversationVars
<1>2. CASE p \notin entries
  <2>1. /\ entries' = entries \cup {p}
        /\ status' = [status EXCEPT ![p] = "STOPPED"]
        /\ router' = [router EXCEPT ![p] = [f \in Flows |-> "none"]]
    BY <1>2 DEF NewEntry
  <2>2. p \notin running /\ lifeBox[p] = <<>> /\ callbackBox[p] = <<>>
    BY <1>2 DEF Conversation, OneConversation, RunnersAreKnown
  <2>3. /\ status'[p] = "STOPPED"
        /\ \A q \in Plugins \ {p} : status'[q] = status[q] /\ router'[q] = router[q]
    BY <2>1 DEF TypeOK
  <2>4. OneConversation'
    BY <2>1, <2>2, <2>3 DEF Conversation, OneConversation
  <2>5. RunnersAreKnown'
    BY <2>1, <2>2, <2>3 DEF Conversation, RunnersAreKnown, TypeOK
  <2>6. AnswersAreTrue'
    BY <2>1, <2>2, <2>3, Singletons DEF Conversation, AnswersAreTrue
  <2>7. RoutersFollowStatus'
    <3>1. SUFFICES ASSUME NEW q \in entries', NEW f \in Interfaces(q)
                   PROVE  /\ status'[q] \in {"STARTING", "STARTED"} => router'[q][f] = "live"
                          /\ status'[q] = "STOPPING" => router'[q][f] = "dead"
      BY DEF RoutersFollowStatus, Interfaces
    <3>2. CASE q = p
      BY <2>3, <3>2
    <3>3. CASE q # p
      BY <2>1, <2>3, <3>3 DEF Conversation, RoutersFollowStatus, TypeOK
    <3>4. QED BY <3>2, <3>3
  <2>8. QED BY <2>4, <2>5, <2>6, <2>7 DEF Conversation
<1>3. QED BY <1>1, <1>2

\* Only a stopped plugin leaves, and it leaves nothing on its way.
LEMMA UnregisterConversation ==
    ASSUME TypeOK, Conversation, NEW t \in Admins, UnregisterRunner(t)
    PROVE  Conversation'
<1> DEFINE p == target[t]
<1>1. CASE ~MayUnregister(p)
  BY <1>1, ConversationStutters DEF UnregisterRunner, conversationVars
<1>2. CASE MayUnregister(p)
  <2>1. /\ p \in entries /\ p \in Plugins /\ status[p] = "STOPPED"
        /\ entries' = entries \ {p}
        /\ lifeBox' = [lifeBox EXCEPT ![p] = <<>>]
        /\ UNCHANGED <<status, router, callbackBox, running>>
    BY <1>2 DEF UnregisterRunner, MayUnregister, TypeOK
  <2>2. p \notin running /\ lifeBox[p] = <<>> /\ callbackBox[p] = <<>>
    BY <2>1 DEF Conversation, OneConversation, RunnersAreKnown
  <2>3. lifeBox' = lifeBox
    BY <2>1, <2>2 DEF TypeOK
  <2>4. OneConversation'
    BY <2>1, <2>2, <2>3 DEF Conversation, OneConversation
  <2>5. RunnersAreKnown' /\ AnswersAreTrue' /\ RoutersFollowStatus'
    BY <2>1, <2>2, <2>3
    DEF Conversation, RunnersAreKnown, AnswersAreTrue, RoutersFollowStatus, Interfaces
  <2>6. QED BY <2>4, <2>5 DEF Conversation
<1>3. QED BY <1>1, <1>2

\* What holds of the box of a lifecycle actor that has a message.
LEMMA PendingRequest ==
    ASSUME OneConversation, NEW p \in Plugins, lifeBox[p] # <<>>
    PROVE  /\ p \in entries
           /\ callbackBox[p] = <<>>
           /\ \/ status[p] = "STARTING" /\ lifeBox[p] = <<"START">>
              \/ status[p] = "STOPPING" /\ lifeBox[p] = <<"STOP">>
BY DEF OneConversation

\* The lifecycle actor answers the message it takes, and the answer is true.
LEMMA LifecycleConversation ==
    ASSUME TypeOK, Conversation, NEW p \in Plugins, Lifecycle(p)
    PROVE  Conversation'
<1>1. ASSUME NEW message, NEW answer, Receive(p, message, answer)
      PROVE  /\ p \in entries /\ lifeBox[p] = <<message>> /\ callbackBox[p] = <<>>
             /\ message = "START" => status[p] = "STARTING"
             /\ message = "STOP" => status[p] = "STOPPING"
             /\ lifeBox'[p] = <<>> /\ callbackBox'[p] = <<answer>>
             /\ \A q \in Plugins \ {p} : /\ lifeBox'[q] = lifeBox[q]
                                        /\ callbackBox'[q] = callbackBox[q]
             /\ UNCHANGED <<entries, status, router>>
  <2>1. lifeBox[p] # <<>> /\ Head(lifeBox[p]) = message
    BY <1>1 DEF Receive
  <2>2. /\ p \in entries /\ callbackBox[p] = <<>>
        /\ \/ status[p] = "STARTING" /\ lifeBox[p] = <<"START">>
           \/ status[p] = "STOPPING" /\ lifeBox[p] = <<"STOP">>
    BY <2>1, PendingRequest DEF Conversation
  <2>3. lifeBox[p] = <<message>>
    BY <2>1, <2>2, Singletons
  <2>4. lifeBox'[p] = <<>> /\ callbackBox'[p] = <<answer>>
    BY <1>1, <2>2, <2>3, Singletons DEF Receive, TypeOK
  <2>5. message = "START" => status[p] = "STARTING"
    BY <2>1, <2>2, Singletons
  <2>6. message = "STOP" => status[p] = "STOPPING"
    BY <2>1, <2>2, Singletons
  <2>7. \A q \in Plugins \ {p} : lifeBox'[q] = lifeBox[q] /\ callbackBox'[q] = callbackBox[q]
    BY <1>1 DEF Receive, TypeOK
  <2>8. QED BY <1>1, <2>2, <2>3, <2>4, <2>5, <2>6, <2>7 DEF Receive
<1>2. CASE RunnerStarts(p)
  <2>1. Receive(p, "START", "STARTED") /\ running' = running \cup {p}
    BY <1>2 DEF RunnerStarts
  <2>2. OneConversation'
    BY <1>1, <2>1 DEF Conversation, OneConversation
  <2>3. RunnersAreKnown'
    BY <1>1, <2>1 DEF Conversation, RunnersAreKnown, TypeOK
  <2>4. AnswersAreTrue'
    BY <1>1, <2>1, Singletons DEF Conversation, AnswersAreTrue
  <2>5. RoutersFollowStatus'
    BY <1>1, <2>1 DEF Conversation, RoutersFollowStatus, Interfaces
  <2>6. QED BY <2>2, <2>3, <2>4, <2>5 DEF Conversation
<1>3. CASE RunnerFailsToStart(p)
  <2>1. Receive(p, "START", "START_FAILED") /\ running' = running \ {p}
    BY <1>3 DEF RunnerFailsToStart
  <2>2. OneConversation'
    BY <1>1, <2>1 DEF Conversation, OneConversation
  <2>3. RunnersAreKnown'
    BY <1>1, <2>1 DEF Conversation, RunnersAreKnown, TypeOK
  <2>4. AnswersAreTrue'
    BY <1>1, <2>1, Singletons DEF Conversation, AnswersAreTrue
  <2>5. RoutersFollowStatus'
    BY <1>1, <2>1 DEF Conversation, RoutersFollowStatus, Interfaces
  <2>6. QED BY <2>2, <2>3, <2>4, <2>5 DEF Conversation
<1>4. CASE RunnerStops(p)
  <2>1. Receive(p, "STOP", "STOPPED") /\ running' = running \ {p}
    BY <1>4 DEF RunnerStops
  <2>2. OneConversation'
    BY <1>1, <2>1 DEF Conversation, OneConversation
  <2>3. RunnersAreKnown'
    BY <1>1, <2>1 DEF Conversation, RunnersAreKnown, TypeOK
  <2>4. AnswersAreTrue'
    BY <1>1, <2>1, Singletons DEF Conversation, AnswersAreTrue
  <2>5. RoutersFollowStatus'
    BY <1>1, <2>1 DEF Conversation, RoutersFollowStatus, Interfaces
  <2>6. QED BY <2>2, <2>3, <2>4, <2>5 DEF Conversation
<1>5. QED BY <1>2, <1>3, <1>4 DEF Lifecycle

\* The callback actor makes of a true answer the status of the plugin.
LEMMA CallbackConversation ==
    ASSUME TypeOK, Conversation, NEW p \in Plugins, CallbackStatus(p)
    PROVE  Conversation'
<1> DEFINE answer == Head(callbackBox[p])
<1>1. /\ callbackBox[p] # <<>>
      /\ callbackBox' = [callbackBox EXCEPT ![p] = Tail(@)]
      /\ UNCHANGED <<entries, router, lifeBox, running>>
  BY DEF CallbackStatus
\* The entry is still there: the null pointer exception of the code is not met.
<1>2. /\ p \in entries
      /\ lifeBox[p] = <<>>
      /\ \/ status[p] = "STARTING" /\ callbackBox[p] \in {<<"STARTED">>, <<"START_FAILED">>}
         \/ status[p] = "STOPPING" /\ callbackBox[p] = <<"STOPPED">>
  BY <1>1, Singletons DEF Conversation, OneConversation
<1>3. /\ callbackBox'[p] = <<>>
      /\ status'[p] = StatusAfter(answer)
      /\ \A q \in Plugins \ {p} : callbackBox'[q] = callbackBox[q] /\ status'[q] = status[q]
  <2>1. Tail(callbackBox[p]) = <<>>
    BY <1>2, Singletons
  <2>2. callbackBox'[p] = <<>> /\ \A q \in Plugins \ {p} : callbackBox'[q] = callbackBox[q]
    BY <1>1, <2>1 DEF TypeOK
  <2>3. status' = [status EXCEPT ![p] = StatusAfter(answer)]
    BY <1>2 DEF CallbackStatus
  <2>4. QED BY <2>2, <2>3 DEF TypeOK
<1>4. /\ callbackBox[p] = <<answer>>
      /\ answer \in {"STARTED", "START_FAILED", "STOPPED"}
  BY <1>2, Singletons
<1>5. status'[p] = IF answer = "STARTED" THEN "STARTED" ELSE "STOPPED"
  BY <1>3 DEF StatusAfter
<1>6. OneConversation'
  BY <1>1, <1>2, <1>3, <1>5 DEF Conversation, OneConversation
<1>7. RunnersAreKnown'
  <2>1. p \in running => answer = "STARTED"
    BY <1>4 DEF Conversation, AnswersAreTrue
  <2>2. QED
    BY <1>1, <1>3, <1>5, <2>1 DEF Conversation, RunnersAreKnown, TypeOK
<1>8. AnswersAreTrue'
  <2>1. answer = "STARTED" => p \in running
    BY <1>4 DEF Conversation, AnswersAreTrue
  <2>2. QED
    BY <1>1, <1>3, <1>5, <2>1, Singletons DEF Conversation, AnswersAreTrue
<1>9. RoutersFollowStatus'
  <2>1. SUFFICES ASSUME NEW q \in entries, NEW f \in Interfaces(q)
                 PROVE  /\ status'[q] \in {"STARTING", "STARTED"} => router[q][f] = "live"
                        /\ status'[q] = "STOPPING" => router[q][f] = "dead"
    BY <1>1 DEF RoutersFollowStatus, Interfaces
  <2>2. CASE q = p
    <3>1. answer = "STARTED" => status[p] = "STARTING"
      BY <1>2, <1>4, Singletons
    <3>2. QED
      BY <1>2, <1>5, <2>2, <3>1 DEF Conversation, RoutersFollowStatus
  <2>3. CASE q # p
    BY <1>3, <2>3 DEF Conversation, RoutersFollowStatus, TypeOK
  <2>4. QED BY <2>2, <2>3
<1>10. QED BY <1>6, <1>7, <1>8, <1>9 DEF Conversation

\* The state after a restart, and the initial state.
LEMMA EmptyConversation ==
    ASSUME entries = {}, running = {},
           lifeBox = [p \in Plugins |-> <<>>], callbackBox = [p \in Plugins |-> <<>>]
    PROVE  Conversation
BY Singletons
DEF Conversation, OneConversation, RunnersAreKnown, AnswersAreTrue, RoutersFollowStatus

\* A restart forgets both sides of every conversation.
LEMMA RestartConversation ==
    ASSUME NEW loaded, Restart(loaded)
    PROVE  Conversation'
BY Singletons
DEF Restart, VolatileStateIsLost, Conversation, OneConversation, RunnersAreKnown,
    AnswersAreTrue, RoutersFollowStatus

\* Every step keeps the conversation of every plugin.
LEMMA ConversationStep ==
    ASSUME TypeOK, Conversation, [Next]_vars
    PROVE  Conversation'
<1>1. CASE UNCHANGED vars
  BY <1>1, ConversationStutters DEF vars, actors, conversationVars
<1>2. ASSUME NEW t \in Admins, Request(t) PROVE Conversation'
  BY <1>2, ConversationStutters
  DEF Request, RegisterPlugin, StartPlugin, StopPlugin, UnregisterPlugin, StopAll,
      actors, conversationVars
<1>3. ASSUME NEW t \in Admins, Proceed(t) PROVE Conversation'
  <2>1. CASE RegisterRunner(t)
    <3>1. target[t] \in Plugins
      BY <2>1 DEF RegisterRunner, Finish, TypeOK
    <3>2. QED BY <2>1, <3>1, NewEntryConversation DEF RegisterRunner, actors
  <2>2. CASE StartRunner(t)
    <3>1. target[t] \in Plugins
      BY <2>2 DEF StartRunner, Continue, TypeOK
    <3>2. QED BY <2>2, <3>1, StartEntryConversation DEF StartRunner
  <2>3. CASE StopRunner(t)
    <3>1. target[t] \in Plugins
      BY <2>3 DEF StopRunner, Continue, TypeOK
    <3>2. QED BY <2>3, <3>1, StopEntryConversation DEF StopRunner
  <2>4. CASE UnregisterRunner(t)
    BY <2>4, UnregisterConversation
  <2>5. ASSUME NEW p \in Plugins, StopNext(t, p) PROVE Conversation'
    BY <2>5, StopEntryConversation DEF StopNext
  <2>6. CASE \/ RegisterEnters(t) \/ RegisterRunnerFails(t)
             \/ RegisterRollback(t) \/ StopAllDone(t)
    BY <2>6, ConversationStutters
    DEF RegisterEnters, RegisterRunnerFails, RegisterRollback, StopAllDone, actors,
        conversationVars
  <2>7. ASSUME NEW from, NEW mode, ChangeAutoStartMode(t, from, mode)
        PROVE  Conversation'
    BY <2>7, ConversationStutters DEF ChangeAutoStartMode, actors, conversationVars
  <2>8. QED BY <1>3, <2>1, <2>2, <2>3, <2>4, <2>5, <2>6, <2>7 DEF Proceed
<1>4. ASSUME NEW p \in Plugins, Lifecycle(p) \/ CallbackStatus(p) PROVE Conversation'
  BY <1>4, LifecycleConversation, CallbackConversation
<1>5. CASE CallbackMenu
  BY <1>5, ConversationStutters DEF CallbackMenu, conversationVars
<1>6. ASSUME NEW loaded, Restart(loaded) PROVE Conversation'
  BY <1>6, RestartConversation
<1>7. CASE Booting
  <2>1. ASSUME NEW p \in Plugins, NEW succeeds \in BOOLEAN, BootRegister(p, succeeds)
        PROVE  Conversation'
    <3>1. CASE succeeds
      BY <2>1, <3>1, NewEntryConversation DEF BootRegister, actors
    <3>2. CASE ~succeeds
      BY <2>1, <3>2, ConversationStutters DEF BootRegister, actors, conversationVars
    <3>3. QED BY <3>1, <3>2
  <2>2. CASE BootStart
    BY <2>2, StartEntryConversation DEF BootStart, TypeOK
  <2>3. CASE BootEnters \/ BootDone
    BY <2>3, ConversationStutters DEF BootEnters, BootDone, actors, conversationVars
  <2>4. QED BY <1>7, <2>1, <2>2, <2>3 DEF Booting
<1>8. QED BY <1>1, <1>2, <1>3, <1>4, <1>5, <1>6, <1>7 DEF Next

\* The four invariants about requests, answers, runners and routers hold
\* together, for any number of plugins and administration threads.
THEOREM ConversationCorrect == Spec => []Conversation
<1>1. Init => Conversation
  BY EmptyConversation DEF Init
<1>2. TypeOK /\ Conversation /\ [Next]_vars => Conversation'
  BY ConversationStep
<1>3. QED BY <1>1, <1>2, TypeCorrect, PTL DEF Spec

\* Requests and answers do not overtake each other.
THEOREM OneConversationCorrect == Spec => []OneConversation
BY ConversationCorrect, PTL DEF Conversation

\* No runner is started behind the back of the registry.
THEOREM RunnersAreKnownCorrect == Spec => []RunnersAreKnown
BY ConversationCorrect, PTL DEF Conversation

\* An answer on its way still tells the truth about the runner.
THEOREM AnswersAreTrueCorrect == Spec => []AnswersAreTrue
BY ConversationCorrect, PTL DEF Conversation

\* The routers are live as long as the plugin may be sent events.
THEOREM RoutersFollowStatusCorrect == Spec => []RoutersFollowStatus
BY ConversationCorrect, PTL DEF Conversation

-----------------------------------------------------------------------------
(* The configurations *)

\* A row that is being unregistered is gone for good, and the boot, which runs
\* alone, registers existing rows only: no entry comes back once it was removed.
RowsOutliveEntries ==
    /\ \A t \in Admins : pc[t] = "unregisterRunner" => config[target[t]] = "deleted"
    /\ bootSet # {} => phase = "booting"
    /\ phase # "up" => \A t \in Admins : pc[t] = "idle"
    /\ \A p \in bootSet : config[p] = "present"

\* Every step keeps what the configurations owe to the phase and to the calls.
LEMMA RowsStep ==
    ASSUME TypeOK, RowsOutliveEntries, [Next]_vars
    PROVE  RowsOutliveEntries'
<1>1. CASE UNCHANGED vars
  BY <1>1 DEF RowsOutliveEntries, vars, database, threads, boot
<1>2. ASSUME NEW t \in Admins, Request(t) PROVE RowsOutliveEntries'
  <2>1. ASSUME NEW p \in Plugins, RegisterPlugin(t, p) PROVE RowsOutliveEntries'
    BY <2>1 DEF TypeOK, RowsOutliveEntries, RegisterPlugin, Begin, boot
  <2>2. ASSUME NEW p \in Plugins, StartPlugin(t, p) PROVE RowsOutliveEntries'
    BY <2>2 DEF TypeOK, RowsOutliveEntries, StartPlugin, Begin, database, boot
  <2>3. ASSUME NEW p \in Plugins, StopPlugin(t, p) PROVE RowsOutliveEntries'
    BY <2>3 DEF TypeOK, RowsOutliveEntries, StopPlugin, Begin, database, boot
  <2>4. ASSUME NEW p \in Plugins, UnregisterPlugin(t, p) PROVE RowsOutliveEntries'
    BY <2>4 DEF TypeOK, RowsOutliveEntries, UnregisterPlugin, Begin, boot
  <2>5. ASSUME NEW scope \in Scopes, StopAll(t, scope) PROVE RowsOutliveEntries'
    BY <2>5 DEF TypeOK, RowsOutliveEntries, StopAll, database, boot
  <2>6. QED BY <1>2, <2>1, <2>2, <2>3, <2>4, <2>5 DEF Request
<1>3. ASSUME NEW t \in Admins, Proceed(t) PROVE RowsOutliveEntries'
  <2>0. CASE RegisterEnters(t)
    <3>1. CASE Continue(t, "registerRunner", "registering")
      BY <2>0, <3>1 DEF TypeOK, RowsOutliveEntries, RegisterEnters, Continue, database, boot
    <3>2. CASE Finish(t, "registerRunner")
      BY <2>0, <3>2 DEF TypeOK, RowsOutliveEntries, RegisterEnters, Finish, database, boot
    <3>3. QED BY <2>0, <3>1, <3>2 DEF RegisterEnters
  <2>1. CASE RegisterRunner(t)
    BY <2>1 DEF TypeOK, RowsOutliveEntries, RegisterRunner, Finish, database, boot
  <2>2. CASE RegisterRunnerFails(t)
    BY <2>2 DEF TypeOK, RowsOutliveEntries, RegisterRunnerFails, Continue, database, boot
  <2>3. CASE RegisterRollback(t)
    BY <2>3 DEF TypeOK, RowsOutliveEntries, RegisterRollback, Finish, boot
  <2>4. CASE StartRunner(t)
    BY <2>4 DEF TypeOK, RowsOutliveEntries, StartRunner, Continue, database, boot
  <2>5. CASE StopRunner(t)
    BY <2>5 DEF TypeOK, RowsOutliveEntries, StopRunner, Continue, database, boot
  <2>6. ASSUME NEW mode, NEW from, from # "idle", ChangeAutoStartMode(t, from, mode)
        PROVE  RowsOutliveEntries'
    BY <2>6 DEF TypeOK, RowsOutliveEntries, ChangeAutoStartMode, Finish, boot
  <2>7. CASE UnregisterRunner(t)
    BY <2>7 DEF TypeOK, RowsOutliveEntries, UnregisterRunner, Finish, database, boot
  <2>8. ASSUME NEW p \in Plugins, StopNext(t, p) PROVE RowsOutliveEntries'
    BY <2>8 DEF TypeOK, RowsOutliveEntries, StopNext, database, boot
  <2>9. CASE StopAllDone(t)
    BY <2>9 DEF TypeOK, RowsOutliveEntries, StopAllDone, Finish, database, boot
  <2>10. QED
    BY <1>3, <2>0, <2>1, <2>2, <2>3, <2>4, <2>5, <2>6, <2>7, <2>8, <2>9 DEF Proceed
<1>4. ASSUME NEW p \in Plugins, Lifecycle(p) \/ CallbackStatus(p)
      PROVE  RowsOutliveEntries'
  BY <1>4
  DEF RowsOutliveEntries, Lifecycle, RunnerStarts, RunnerFailsToStart, RunnerStops,
      Receive, CallbackStatus, database, threads, boot
<1>5. CASE CallbackMenu
  BY <1>5 DEF RowsOutliveEntries, CallbackMenu, database, threads, boot
<1>6. ASSUME NEW loaded, Restart(loaded) PROVE RowsOutliveEntries'
  <2>1. \A t \in Admins : pc'[t] = "idle"
    BY <1>6 DEF Restart, VolatileStateIsLost
  <2>2. bootSet' # {} => phase' = "booting" /\ \A p \in bootSet' : config'[p] = "present"
    BY <1>6 DEF Restart
  <2>3. QED BY <2>1, <2>2 DEF RowsOutliveEntries
<1>7. CASE Booting
  <2>1. ASSUME NEW p \in Plugins, NEW succeeds \in BOOLEAN, BootRegister(p, succeeds)
        PROVE  RowsOutliveEntries'
    BY <2>1 DEF RowsOutliveEntries, BootRegister, database, threads
  <2>2. CASE BootStart
    BY <2>2 DEF RowsOutliveEntries, BootStart, database, threads
  <2>3. CASE BootEnters \/ BootDone
    BY <2>3 DEF RowsOutliveEntries, BootEnters, BootDone, database, threads, boot
  <2>4. QED BY <1>7, <2>1, <2>2, <2>3 DEF Booting
<1>8. QED BY <1>1, <1>2, <1>3, <1>4, <1>5, <1>6, <1>7 DEF Next

\* The plugin about to leave the registry has lost its configuration, and the boot
\* registers those that have one, before any administrator may act.
LEMMA RowsCorrect == Spec => []RowsOutliveEntries
<1>1. Init => RowsOutliveEntries
  BY DEF Init, RowsOutliveEntries
<1>2. TypeOK /\ RowsOutliveEntries /\ [Next]_vars => RowsOutliveEntries'
  BY RowsStep
<1>3. QED BY <1>1, <1>2, TypeCorrect, PTL DEF Spec

-----------------------------------------------------------------------------
(* The monitor of the map *)

\* A thread inside stopAll owns the map, and what it has still to do is there; so
\* does one that registers a plugin, which is not there yet.
MapIsOwned ==
    \A t \in Admins :
        /\ pc[t] \in {"stopping", "registering"} => mapLock = t /\ phase = "up"
        /\ pc[t] = "stopping" => todo[t] \subseteq entries
        /\ pc[t] = "registering" => target[t] \notin entries

\* While a thread owns the map, the others change neither the map nor the menu.
LEMMA OwnerIsAlone ==
    ASSUME TypeOK, MapIsOwned, [Next]_vars,
           NEW t \in Admins, pc[t] \in {"stopping", "registering"}, pc'[t] = pc[t]
    PROVE  /\ UNCHANGED <<entries, menu, menuTask>>
           /\ mapLock' = t /\ phase' = "up"
           /\ target'[t] = target[t] /\ todo'[t] \subseteq todo[t]
<1> DEFINE Kept == /\ UNCHANGED <<entries, menu, menuTask>>
                   /\ mapLock' = t /\ phase' = "up"
                   /\ target'[t] = target[t] /\ todo'[t] \subseteq todo[t]
<1>1. mapLock = t /\ mapLock # Nobody /\ mapLock # Boot /\ phase = "up"
  BY ConstantsAssumption DEF MapIsOwned
<1>2. \A u \in Admins : pc[u] \in {"stopping", "registering"} => u = t
  BY <1>1 DEF MapIsOwned
<1>3. CASE UNCHANGED vars
  BY <1>1, <1>3 DEF vars, actors, threads, boot
<1>4. ASSUME NEW u \in Admins, Request(u) PROVE Kept
  <2>1. u # t
    BY <1>1, <1>4
    DEF Request, RegisterPlugin, StartPlugin, StopPlugin, UnregisterPlugin, StopAll,
        Begin, MapIsFree
  <2>2. QED
    BY <1>1, <1>4, <2>1
    DEF Request, RegisterPlugin, StartPlugin, StopPlugin, UnregisterPlugin, StopAll,
        Begin, MapIsFree, actors, boot, TypeOK
<1>5. ASSUME NEW u \in Admins, Proceed(u) PROVE Kept
  <2>1. CASE RegisterEnters(u) \/ UnregisterRunner(u)
    BY <1>1, <2>1 DEF RegisterEnters, UnregisterRunner, MapIsFree
  <2>2. CASE RegisterRunner(u)
    BY <1>2, <2>2 DEF RegisterRunner, Finish, TypeOK
  <2>3. CASE RegisterRunnerFails(u)
    BY <1>2, <2>3 DEF RegisterRunnerFails, Continue, TypeOK
  <2>4. CASE StopAllDone(u)
    BY <1>2, <2>4 DEF StopAllDone, Finish, TypeOK
  <2>5. ASSUME NEW p \in Plugins, StopNext(u, p) PROVE Kept
    BY <1>1, <2>5 DEF StopNext, TypeOK, boot
  <2>6. CASE RegisterRollback(u)
    <3>1. u # t
      BY <2>6 DEF RegisterRollback, Finish
    <3>2. QED BY <1>1, <2>6, <3>1 DEF RegisterRollback, Finish, actors, boot, TypeOK
  <2>7. CASE StartRunner(u) \/ StopRunner(u)
    <3>1. u # t
      BY <2>7 DEF StartRunner, StopRunner, Continue
    <3>2. QED BY <1>1, <2>7, <3>1 DEF StartRunner, StopRunner, Continue, boot, TypeOK
  <2>8. ASSUME NEW from \in {"startFlag", "stopFlag"}, NEW mode,
               ChangeAutoStartMode(u, from, mode)
        PROVE  Kept
    <3>1. u # t
      BY <2>8 DEF ChangeAutoStartMode, Finish
    <3>2. QED BY <1>1, <2>8, <3>1 DEF ChangeAutoStartMode, Finish, actors, boot, TypeOK
  <2>9. QED BY <1>5, <2>1, <2>2, <2>3, <2>4, <2>5, <2>6, <2>7, <2>8 DEF Proceed
<1>6. ASSUME NEW p \in Plugins, Lifecycle(p) \/ CallbackStatus(p) PROVE Kept
  BY <1>1, <1>6
  DEF Lifecycle, RunnerStarts, RunnerFailsToStart, RunnerStops, Receive, CallbackStatus,
      MapIsFree, threads, boot
<1>7. CASE CallbackMenu
  BY <1>1, <1>7 DEF CallbackMenu, MapIsFree
<1>8. ASSUME NEW loaded, Restart(loaded) PROVE FALSE
  BY <1>8 DEF Restart, VolatileStateIsLost
<1>9. CASE Booting
  <2>1. BootStart
    BY <1>1, <1>9 DEF Booting, BootEnters, BootRegister, BootDone, MapIsFree
  <2>2. QED BY <1>1, <2>1 DEF BootStart, threads
<1>10. QED BY <1>3, <1>4, <1>5, <1>6, <1>7, <1>8, <1>9 DEF Next

\* A thread comes to own the map by stopAll or by entering registerPluginRunner.
LEMMA OwnerEnters ==
    ASSUME TypeOK, [Next]_vars, NEW t \in Admins,
           pc'[t] \in {"stopping", "registering"}, pc'[t] # pc[t]
    PROVE  (\E scope \in Scopes : StopAll(t, scope)) \/ RegisterEnters(t)
<1> DEFINE Goal == (\E scope \in Scopes : StopAll(t, scope)) \/ RegisterEnters(t)
<1>1. ~ UNCHANGED vars
  BY DEF vars, threads
<1>2. ASSUME NEW u \in Admins, Request(u) PROVE Goal
  <2>1. ASSUME NEW scope \in Scopes, StopAll(u, scope) PROVE Goal
    <3>1. u = t
      BY <2>1 DEF StopAll, TypeOK
    <3>2. QED BY <2>1, <3>1
  <2>2. ASSUME NEW p \in Plugins,
               \/ RegisterPlugin(u, p) \/ StartPlugin(u, p)
               \/ StopPlugin(u, p) \/ UnregisterPlugin(u, p)
        PROVE  FALSE
    BY <2>2 DEF RegisterPlugin, StartPlugin, StopPlugin, UnregisterPlugin, Begin, TypeOK
  <2>3. QED BY <1>2, <2>1, <2>2 DEF Request
<1>3. ASSUME NEW u \in Admins, Proceed(u) PROVE Goal
  <2>1. ASSUME NEW from, NEW to \in {"registerRollback", "startFlag", "stopFlag"},
               Continue(u, from, to)
        PROVE  FALSE
    BY <2>1 DEF Continue, TypeOK
  <2>2. ASSUME NEW from, Finish(u, from) PROVE FALSE
    BY <2>2 DEF Finish, TypeOK
  <2>3. ASSUME UNCHANGED pc PROVE FALSE
    BY <2>3
  <2>4. CASE RegisterEnters(u)
    <3>1. Continue(u, "registerRunner", "registering")
      BY <2>2, <2>4 DEF RegisterEnters
    <3>2. u = t
      BY <3>1 DEF Continue, TypeOK
    <3>3. QED BY <2>4, <3>2
  <2>5. QED
    BY <1>3, <2>1, <2>2, <2>3, <2>4
    DEF Proceed, RegisterRunner, RegisterRunnerFails, RegisterRollback, StartRunner,
        StopRunner, ChangeAutoStartMode, UnregisterRunner, StopNext, StopAllDone
<1>4. ASSUME NEW p \in Plugins, Lifecycle(p) \/ CallbackStatus(p) PROVE FALSE
  BY <1>4 DEF Lifecycle, RunnerStarts, RunnerFailsToStart, RunnerStops, Receive,
              CallbackStatus, threads
<1>5. CASE CallbackMenu
  BY <1>5 DEF CallbackMenu, threads
<1>6. ASSUME NEW loaded, Restart(loaded) PROVE FALSE
  BY <1>6 DEF Restart, VolatileStateIsLost
<1>7. CASE Booting
  BY <1>7 DEF Booting, BootEnters, BootRegister, BootStart, BootDone, threads
<1>8. QED BY <1>1, <1>2, <1>3, <1>4, <1>5, <1>6, <1>7 DEF Next

\* Every step leaves the map to the thread that owns it.  That the other threads
\* are idle unless the process is up comes from RowsOutliveEntries.
LEMMA MapIsOwnedStep ==
    ASSUME TypeOK, MapIsOwned, RowsOutliveEntries, [Next]_vars
    PROVE  MapIsOwned'
<1> SUFFICES ASSUME NEW t \in Admins, pc'[t] \in {"stopping", "registering"}
             PROVE  /\ mapLock' = t /\ phase' = "up"
                    /\ pc'[t] = "stopping" => todo'[t] \subseteq entries'
                    /\ pc'[t] = "registering" => target'[t] \notin entries'
  BY DEF MapIsOwned
<1>1. CASE pc'[t] = pc[t]
  BY <1>1, OwnerIsAlone DEF MapIsOwned
<1>2. ASSUME NEW scope \in Scopes, StopAll(t, scope)
      PROVE  mapLock' = t /\ phase' = "up" /\ pc'[t] = "stopping" /\ todo'[t] \subseteq entries'
  BY <1>2 DEF StopAll, TypeOK, boot
<1>3. CASE RegisterEnters(t)
  <2>1. Continue(t, "registerRunner", "registering") /\ target[t] \notin entries
    BY <1>3 DEF RegisterEnters, Finish, TypeOK
  <2>2. phase = "up"
    BY <2>1 DEF RowsOutliveEntries, Continue
  <2>3. QED BY <1>3, <2>1, <2>2 DEF RegisterEnters, Continue, Finish, TypeOK, boot
<1>4. QED BY <1>1, <1>2, <1>3, OwnerEnters

\* A thread that owns the map owns it in every state.
LEMMA MapIsOwnedCorrect == Spec => []MapIsOwned
<1>1. Init => MapIsOwned
  BY DEF Init, MapIsOwned
<1>2. TypeOK /\ RowsOutliveEntries /\ MapIsOwned /\ [Next]_vars => MapIsOwned'
  BY MapIsOwnedStep
<1>3. QED BY <1>1, <1>2, TypeCorrect, RowsCorrect, PTL DEF Spec

\* stopAll walks over the registry as it is, however many threads register and
\* unregister plugins meanwhile.
THEOREM StopAllSeesRegistryCorrect == Spec => StopAllSeesRegistry
<1>1. TypeOK /\ MapIsOwned /\ [Next]_vars
        => [\A t \in Admins : pc[t] = "stopping" /\ pc'[t] = "stopping"
                                => entries' = entries /\ todo[t] \subseteq entries]_vars
  BY OwnerIsAlone DEF MapIsOwned
<1>2. QED
  BY <1>1, TypeCorrect, MapIsOwnedCorrect, PTL DEF Spec, StopAllSeesRegistry

-----------------------------------------------------------------------------
(* What a client sees *)

\* A step changes the view of one plugin, or of none, or restarts the process.
ViewMove(p, from, to) ==
    /\ PluginState[p] = from
    /\ PluginState' = [PluginState EXCEPT ![p] = to]

\* What changes neither the registry nor a status is not seen by the life cycle.
LEMMA ViewStutters ==
    ASSUME UNCHANGED <<entries, status>>
    PROVE  UNCHANGED PluginState
BY DEF PluginState

\* A step about one plugin changes what is seen of this one only.
LEMMA ViewOfOne ==
    ASSUME TypeOK, NEW p \in Plugins, entries' \subseteq Plugins,
           \A q \in Plugins \ {p} : (q \in entries' <=> q \in entries) /\ status'[q] = status[q]
    PROVE  PluginState' = [PluginState EXCEPT ![p] =
                             IF p \in entries' THEN status'[p] ELSE "ABSENT"]
BY DEF PluginState

\* Seen from the life cycle, a start goes from STOPPED to STARTING or is refused.
LEMMA StartEntryView ==
    ASSUME TypeOK, NEW p \in Plugins, StartEntry(p), UNCHANGED entries
    PROVE  ViewMove(p, "STOPPED", "STARTING") \/ UNCHANGED PluginState
<1>1. CASE UNCHANGED <<status, lifeBox, router, orphans>>
  BY <1>1, ViewStutters
<1>2. CASE ~ UNCHANGED <<status, lifeBox, router, orphans>>
  <2>1. status[p] = "STOPPED" /\ status' = [status EXCEPT ![p] = "STARTING"]
    BY <1>2 DEF StartEntry, MayStart
  <2>2. PluginState' = [PluginState EXCEPT ![p] =
                          IF p \in entries' THEN status'[p] ELSE "ABSENT"]
    BY <2>1, ViewOfOne DEF TypeOK
  <2>3. CASE p \in entries
    BY <2>1, <2>2, <2>3 DEF ViewMove, PluginState, TypeOK
  <2>4. CASE p \notin entries
    BY <2>1, <2>2, <2>4 DEF PluginState, TypeOK
  <2>5. QED BY <2>3, <2>4
<1>3. QED BY <1>1, <1>2

\* Seen from the life cycle, a stop goes from STARTED to STOPPING or is refused.
LEMMA StopEntryView ==
    ASSUME TypeOK, NEW p \in Plugins, StopEntry(p), UNCHANGED entries
    PROVE  ViewMove(p, "STARTED", "STOPPING") \/ UNCHANGED PluginState
<1>1. CASE ~MayStop(p)
  BY <1>1, ViewStutters DEF StopEntry
<1>2. CASE MayStop(p)
  <2>1. status[p] = "STARTED" /\ status' = [status EXCEPT ![p] = "STOPPING"]
    BY <1>2 DEF StopEntry, MayStop, TypeOK, Statuses
  <2>2. PluginState' = [PluginState EXCEPT ![p] =
                          IF p \in entries' THEN status'[p] ELSE "ABSENT"]
    BY <2>1, ViewOfOne DEF TypeOK
  <2>3. CASE p \in entries
    BY <2>1, <2>2, <2>3 DEF ViewMove, PluginState, TypeOK
  <2>4. CASE p \notin entries
    BY <2>1, <2>2, <2>4 DEF PluginState, TypeOK
  <2>5. QED BY <2>3, <2>4
<1>3. QED BY <1>1, <1>2

\* Seen from the life cycle, a registration adds a stopped plugin or nothing.
LEMMA NewEntryView ==
    ASSUME TypeOK, NEW p \in Plugins, NewEntry(p)
    PROVE  ViewMove(p, "ABSENT", "STOPPED") \/ UNCHANGED PluginState
<1>1. CASE p \in entries
  BY <1>1, ViewStutters DEF NewEntry
<1>2. CASE p \notin entries
  <2>1. entries' = entries \cup {p} /\ status' = [status EXCEPT ![p] = "STOPPED"]
    BY <1>2 DEF NewEntry
  <2>2. PluginState' = [PluginState EXCEPT ![p] =
                          IF p \in entries' THEN status'[p] ELSE "ABSENT"]
    BY <2>1, ViewOfOne DEF TypeOK
  <2>3. QED BY <1>2, <2>1, <2>2 DEF ViewMove, PluginState, TypeOK
<1>3. QED BY <1>1, <1>2

\* Seen from the life cycle, only a stopped plugin is unregistered.
LEMMA UnregisterView ==
    ASSUME TypeOK, NEW t \in Admins, UnregisterRunner(t)
    PROVE  \/ \E p \in Plugins : ViewMove(p, "STOPPED", "ABSENT")
           \/ UNCHANGED PluginState
<1> DEFINE p == target[t]
<1>1. CASE ~MayUnregister(p)
  BY <1>1, ViewStutters DEF UnregisterRunner
<1>2. CASE MayUnregister(p)
  <2>1. /\ p \in entries /\ p \in Plugins /\ status[p] = "STOPPED"
        /\ entries' = entries \ {p} /\ status' = status
    BY <1>2 DEF UnregisterRunner, MayUnregister, TypeOK
  <2>2. PluginState' = [PluginState EXCEPT ![p] =
                          IF p \in entries' THEN status'[p] ELSE "ABSENT"]
    BY <2>1, ViewOfOne DEF TypeOK
  <2>3. ViewMove(p, "STOPPED", "ABSENT")
    BY <2>1, <2>2 DEF ViewMove, PluginState
  <2>4. QED BY <2>1, <2>3
<1>3. QED BY <1>1, <1>2

\* Seen from the life cycle, an answer ends the start or the stop it is about.
LEMMA CallbackView ==
    ASSUME TypeOK, Conversation, NEW p \in Plugins, CallbackStatus(p)
    PROVE  \/ ViewMove(p, "STARTING", "STARTED")
           \/ ViewMove(p, "STARTING", "STOPPED")
           \/ ViewMove(p, "STOPPING", "STOPPED")
<1> DEFINE answer == Head(callbackBox[p])
<1>1. callbackBox[p] # <<>> /\ UNCHANGED entries
  BY DEF CallbackStatus
<1>2. /\ p \in entries
      /\ \/ status[p] = "STARTING" /\ callbackBox[p] \in {<<"STARTED">>, <<"START_FAILED">>}
         \/ status[p] = "STOPPING" /\ callbackBox[p] = <<"STOPPED">>
  BY <1>1, Singletons DEF Conversation, OneConversation
<1>3. \/ status[p] = "STARTING"
      \/ status[p] = "STOPPING" /\ StatusAfter(answer) = "STOPPED"
  BY <1>2, Singletons DEF StatusAfter
<1>4. status' = [status EXCEPT ![p] = StatusAfter(answer)]
  BY <1>2 DEF CallbackStatus
<1>5. PluginState' = [PluginState EXCEPT ![p] = StatusAfter(answer)]
  BY <1>1, <1>2, <1>4, ViewOfOne DEF TypeOK
<1>6. PluginState[p] = status[p] /\ StatusAfter(answer) \in {"STARTED", "STOPPED"}
  BY <1>2 DEF PluginState, StatusAfter
<1>7. QED BY <1>3, <1>5, <1>6 DEF ViewMove

\* Every step is a step of the abstract life cycle, or invisible to a client.
LEMMA ViewStep ==
    ASSUME TypeOK, Conversation, [Next]_vars
    PROVE  [Lifecycles!Next]_PluginState
<1>1. ASSUME NEW p \in Plugins,
             \/ ViewMove(p, "ABSENT", "STOPPED") \/ ViewMove(p, "STOPPED", "ABSENT")
             \/ ViewMove(p, "STOPPED", "STARTING") \/ ViewMove(p, "STARTED", "STOPPING")
             \/ ViewMove(p, "STARTING", "STARTED") \/ ViewMove(p, "STARTING", "STOPPED")
             \/ ViewMove(p, "STOPPING", "STOPPED")
      PROVE  Lifecycles!Next
  BY <1>1
  DEF ViewMove, Lifecycles!Next, Lifecycles!Register, Lifecycles!Unregister,
      Lifecycles!Start, Lifecycles!Stop, Lifecycles!Answer, Lifecycles!Move
<1>2. CASE UNCHANGED vars
  BY <1>2, ViewStutters DEF vars
<1>3. ASSUME NEW t \in Admins, Request(t) PROVE UNCHANGED PluginState
  BY <1>3, ViewStutters
  DEF Request, RegisterPlugin, StartPlugin, StopPlugin, UnregisterPlugin, StopAll
<1>4. ASSUME NEW t \in Admins, Proceed(t) PROVE [Lifecycles!Next]_PluginState
  <2>1. CASE RegisterRunner(t)
    <3>1. target[t] \in Plugins
      BY <2>1 DEF RegisterRunner, Finish, TypeOK
    <3>2. QED BY <1>1, <2>1, <3>1, NewEntryView, ViewStutters DEF RegisterRunner
  <2>2. CASE StartRunner(t)
    <3>1. target[t] \in Plugins
      BY <2>2 DEF StartRunner, Continue, TypeOK
    <3>2. QED BY <1>1, <2>2, <3>1, StartEntryView DEF StartRunner
  <2>3. CASE StopRunner(t)
    <3>1. target[t] \in Plugins
      BY <2>3 DEF StopRunner, Continue, TypeOK
    <3>2. QED BY <1>1, <2>3, <3>1, StopEntryView DEF StopRunner
  <2>4. CASE UnregisterRunner(t)
    BY <1>1, <2>4, UnregisterView
  <2>5. ASSUME NEW p \in Plugins, StopNext(t, p) PROVE [Lifecycles!Next]_PluginState
    BY <1>1, <2>5, StopEntryView DEF StopNext
  <2>6. CASE \/ RegisterEnters(t) \/ RegisterRunnerFails(t)
             \/ RegisterRollback(t) \/ StopAllDone(t)
    BY <2>6, ViewStutters
    DEF RegisterEnters, RegisterRunnerFails, RegisterRollback, StopAllDone
  <2>7. ASSUME NEW from, NEW mode, ChangeAutoStartMode(t, from, mode)
        PROVE  UNCHANGED PluginState
    BY <2>7, ViewStutters DEF ChangeAutoStartMode
  <2>8. QED BY <1>4, <2>1, <2>2, <2>3, <2>4, <2>5, <2>6, <2>7 DEF Proceed
<1>5. ASSUME NEW p \in Plugins, Lifecycle(p) PROVE UNCHANGED PluginState
  BY <1>5, ViewStutters
  DEF Lifecycle, RunnerStarts, RunnerFailsToStart, RunnerStops, Receive
<1>6. ASSUME NEW p \in Plugins, CallbackStatus(p) PROVE Lifecycles!Next
  BY <1>1, <1>6, CallbackView
<1>7. CASE CallbackMenu
  BY <1>7, ViewStutters DEF CallbackMenu
<1>8. ASSUME NEW loaded, Restart(loaded) PROVE Lifecycles!Next
  <2>1. entries' = {}
    BY <1>8 DEF Restart, VolatileStateIsLost
  <2>2. QED BY <2>1 DEF PluginState, Lifecycles!Next, Lifecycles!Reset
<1>9. CASE Booting
  <2>1. ASSUME NEW p \in Plugins, NEW succeeds \in BOOLEAN, BootRegister(p, succeeds)
        PROVE  [Lifecycles!Next]_PluginState
    BY <1>1, <2>1, NewEntryView, ViewStutters DEF BootRegister
  <2>2. CASE BootStart
    BY <1>1, <2>2, StartEntryView DEF BootStart, TypeOK
  <2>3. CASE BootEnters \/ BootDone
    BY <2>3, ViewStutters DEF BootEnters, BootDone
  <2>4. QED BY <1>9, <2>1, <2>2, <2>3 DEF Booting
<1>10. QED BY <1>2, <1>3, <1>4, <1>5, <1>6, <1>7, <1>8, <1>9 DEF Next

\* A client that looks at the statuses sees no transition but those of
\* PluginLifecycle: the safety half of ImplementsLifecycle.
THEOREM LifecycleRefined == Spec => Lifecycles!Safety
<1>1. Init => Lifecycles!Init
  BY DEF Init, Lifecycles!Init, PluginState
<1>2. TypeOK /\ Conversation /\ [Next]_vars => [Lifecycles!Next]_PluginState
  BY ViewStep
<1>3. QED
  BY <1>1, <1>2, TypeCorrect, ConversationCorrect, PTL DEF Spec, Lifecycles!Safety

\* A plugin leaves the registry, other than by a restart, only when its runner
\* is stopped and nothing is on its way to or from it.
THEOREM LeavesOnlyWhenIdleCorrect == Spec => LeavesOnlyWhenIdle
<1> DEFINE Idle(p) == p \notin running /\ lifeBox[p] = <<>> /\ callbackBox[p] = <<>>
<1>1. TypeOK /\ Conversation /\ [Next]_vars
        => [phase = "up" /\ phase' = "up" => \A p \in entries \ entries' : Idle(p)]_vars
  <2> SUFFICES ASSUME TypeOK, Conversation, [Next]_vars, phase = "up", phase' = "up",
                      NEW p \in entries \ entries'
               PROVE  Idle(p)
    OBVIOUS
  <2>1. PICK t \in Admins : UnregisterRunner(t)
    <3>1. CASE UNCHANGED vars
      BY <3>1 DEF vars
    <3>2. ASSUME NEW t \in Admins, Request(t) PROVE FALSE
      BY <3>2
      DEF Request, RegisterPlugin, StartPlugin, StopPlugin, UnregisterPlugin, StopAll
    <3>3. ASSUME NEW t \in Admins, Proceed(t) PROVE UnregisterRunner(t)
      BY <3>3
      DEF Proceed, RegisterEnters, RegisterRunner, NewEntry, RegisterRunnerFails,
          RegisterRollback, StartRunner, StopRunner, ChangeAutoStartMode, StopNext, StopAllDone
    <3>4. ASSUME NEW q \in Plugins, Lifecycle(q) \/ CallbackStatus(q) PROVE FALSE
      BY <3>4 DEF Lifecycle, RunnerStarts, RunnerFailsToStart, RunnerStops, Receive,
                  CallbackStatus
    <3>5. CASE CallbackMenu
      BY <3>5 DEF CallbackMenu
    <3>6. ASSUME NEW loaded, Restart(loaded) PROVE FALSE
      BY <3>6 DEF Restart
    <3>7. CASE Booting
      BY <3>7 DEF Booting, BootEnters, BootRegister, NewEntry, BootStart, BootDone
    <3>8. QED BY <3>1, <3>2, <3>3, <3>4, <3>5, <3>6, <3>7 DEF Next
  <2>2. status[p] = "STOPPED" /\ p \in Plugins
    BY <2>1 DEF UnregisterRunner, MayUnregister, TypeOK
  <2>3. QED BY <2>2 DEF Conversation, OneConversation, RunnersAreKnown
<1>2. QED
  BY <1>1, TypeCorrect, ConversationCorrect, PTL DEF Spec, LeavesOnlyWhenIdle

-----------------------------------------------------------------------------
(* The tool menu *)

AddTask(p)    == [op |-> "add", plugin |-> p]
RemoveTask(p) == [op |-> "remove", plugin |-> p]

\* MenuFollowsStatus with what makes it inductive: the update the callback actor
\* has still to do fits the status, and a plugin that may yet be registered has
\* neither an item nor an update pending; nor has one that is being registered,
\* whose row may be deleted meanwhile.
MenuMatches ==
    /\ MenuFollowsStatus
    /\ \A p \in menu : HasMenu(p)
    /\ \A p \in entries :
         /\ menuTask = AddTask(p) => status[p] \in {"STARTED", "STOPPING"}
         /\ menuTask = RemoveTask(p) => status[p] \in {"STOPPED", "STARTING"}
    /\ \A p \in Plugins \ entries :
         config[p] # "deleted" => p \notin menu /\ menuTask.plugin # p

NewIsUnseen ==
    \A t \in Admins : pc[t] = "registering" =>
        target[t] \notin menu /\ menuTask.plugin # target[t]

\* A row that changes does not come back from "deleted".
LEMMA ConfigMenu ==
    ASSUME MenuMatches, UNCHANGED <<entries, status, menu, menuTask>>,
           \A p \in Plugins : config'[p] # "deleted" => config[p] # "deleted"
    PROVE  MenuMatches'
BY DEF MenuMatches, MenuFollowsStatus, HasMenu, AddTask, RemoveTask

\* The status moves on while the menu waits for the callback actor.
LEMMA EntryMenu ==
    ASSUME TypeOK, MenuMatches, NEW p \in Plugins,
           UNCHANGED <<entries, menu, menuTask, config>>,
           \/ UNCHANGED status
           \/ status[p] = "STOPPED" /\ status' = [status EXCEPT ![p] = "STARTING"]
           \/ status[p] = "STARTED" /\ status' = [status EXCEPT ![p] = "STOPPING"]
    PROVE  MenuMatches'
<1>1. CASE UNCHANGED status
  BY <1>1, ConfigMenu
<1>2. CASE status[p] = "STOPPED" /\ status' = [status EXCEPT ![p] = "STARTING"]
  <2>1. status'[p] = "STARTING" /\ \A q \in Plugins \ {p} : status'[q] = status[q]
    BY <1>2 DEF TypeOK
  <2>2. QED
    BY <1>2, <2>1
    DEF TypeOK, MenuMatches, MenuFollowsStatus, HasMenu, AddTask, RemoveTask
<1>3. CASE status[p] = "STARTED" /\ status' = [status EXCEPT ![p] = "STOPPING"]
  <2>1. status'[p] = "STOPPING" /\ \A q \in Plugins \ {p} : status'[q] = status[q]
    BY <1>3 DEF TypeOK
  <2>2. QED
    BY <1>3, <2>1
    DEF TypeOK, MenuMatches, MenuFollowsStatus, HasMenu, AddTask, RemoveTask
<1>4. QED BY <1>1, <1>2, <1>3

\* A start does not touch the menu: the plugin was not in it.
LEMMA StartEntryMenu ==
    ASSUME TypeOK, MenuMatches, NEW p \in Plugins, StartEntry(p),
           UNCHANGED <<entries, menu, menuTask, config>>
    PROVE  MenuMatches'
BY EntryMenu DEF StartEntry, MayStart

\* A stop does not touch the menu: the entry stays until the plugin has stopped.
LEMMA StopEntryMenu ==
    ASSUME TypeOK, MenuMatches, NEW p \in Plugins, StopEntry(p),
           UNCHANGED <<entries, menu, menuTask, config>>
    PROVE  MenuMatches'
<1>1. status[p] # "START_FAILED"
  BY DEF TypeOK, Statuses
<1>2. QED BY <1>1, EntryMenu DEF StopEntry, MayStop

\* A new entry is stopped and not in the menu.
LEMMA NewEntryMenu ==
    ASSUME TypeOK, MenuMatches, NEW p \in Plugins, NewEntry(p),
           p \notin entries => p \notin menu /\ menuTask.plugin # p,
           UNCHANGED <<menu, menuTask, config>>
    PROVE  MenuMatches'
<1>1. CASE p \in entries
  BY <1>1, ConfigMenu DEF NewEntry
<1>2. CASE p \notin entries
  <2>1. /\ entries' = entries \cup {p}
        /\ status' = [status EXCEPT ![p] = "STOPPED"]
    BY <1>2 DEF NewEntry
  <2>2. p \notin menu /\ menuTask.plugin # p
    BY <1>2
  <2>3. menuTask # AddTask(p) /\ menuTask # RemoveTask(p)
    BY <2>2 DEF AddTask, RemoveTask
  <2>4. \A q \in entries : status'[q] = status[q]
    BY <1>2, <2>1 DEF TypeOK
  <2>5. status'[p] = "STOPPED"
    BY <2>1 DEF TypeOK
  <2>6. QED
    BY <2>1, <2>2, <2>3, <2>4, <2>5
    DEF MenuMatches, MenuFollowsStatus, HasMenu, AddTask, RemoveTask
<1>3. QED BY <1>1, <1>2

\* The first lookup of the callback actor: an answer changes the status in the
\* direction of the update that becomes pending with it.
LEMMA CallbackStatusMenu ==
    ASSUME TypeOK, Conversation, MenuMatches, NEW p \in Plugins, CallbackStatus(p)
    PROVE  MenuMatches'
<1> DEFINE answer == Head(callbackBox[p])
<1>1. CASE p \notin entries
  BY <1>1, ConfigMenu DEF CallbackStatus, database
<1>2. CASE p \in entries
  <2>1. /\ menuTask = NoTask
        /\ status' = [status EXCEPT ![p] = StatusAfter(answer)]
        /\ menuTask' = TaskAfter(answer, p)
        /\ UNCHANGED <<entries, menu, config>>
    BY <1>2 DEF CallbackStatus, database
  <2>2. \/ answer = "STARTED" /\ status[p] = "STARTING"
        \/ answer = "START_FAILED" /\ status[p] = "STARTING"
        \/ answer = "STOPPED" /\ status[p] = "STOPPING"
    BY <1>2, Singletons DEF Conversation, OneConversation, CallbackStatus
  <2>3. /\ status'[p] = StatusAfter(answer)
        /\ \A q \in Plugins \ {p} : status'[q] = status[q]
    BY <2>1 DEF TypeOK
  <2>4. \A q \in Plugins : menuTask # AddTask(q) /\ menuTask # RemoveTask(q)
    BY <2>1 DEF NoTask, AddTask, RemoveTask
  <2>5. \A q \in Plugins \ {p} : /\ menuTask' # AddTask(q) /\ menuTask' # RemoveTask(q)
                                /\ menuTask'.plugin # q
    BY <2>1, ConstantsAssumption DEF TaskAfter, NoTask, AddTask, RemoveTask
  <2>6. \A q \in entries : q # p => q \in Plugins
    BY DEF TypeOK
  <2>7. CASE answer = "STARTED"
    <3>1. status'[p] = "STARTED" /\ menuTask' = AddTask(p) /\ menuTask' # RemoveTask(p)
      BY <2>1, <2>3, <2>7 DEF StatusAfter, TaskAfter, AddTask, RemoveTask
    <3>2. QED
      BY <1>2, <2>1, <2>3, <2>4, <2>5, <2>6, <3>1
      DEF MenuMatches, MenuFollowsStatus, HasMenu, AddTask, RemoveTask
  <2>8. CASE answer = "STOPPED"
    <3>1. status'[p] = "STOPPED" /\ menuTask' = RemoveTask(p) /\ menuTask' # AddTask(p)
      BY <2>1, <2>3, <2>8 DEF StatusAfter, TaskAfter, AddTask, RemoveTask
    <3>2. QED
      BY <1>2, <2>1, <2>3, <2>4, <2>5, <2>6, <3>1
      DEF MenuMatches, MenuFollowsStatus, HasMenu, AddTask, RemoveTask
  <2>9. CASE answer = "START_FAILED"
    <3>1. /\ status'[p] = "STOPPED"
          /\ menuTask' # AddTask(p) /\ menuTask' # RemoveTask(p)
      BY <2>1, <2>3, <2>9 DEF StatusAfter, TaskAfter, NoTask, AddTask, RemoveTask
    <3>2. p \notin menu
      BY <1>2, <2>2, <2>4, <2>9 DEF TypeOK, MenuMatches, MenuFollowsStatus, RemoveTask
    <3>3. MenuFollowsStatus'
      BY <1>2, <2>1, <2>3, <2>4, <2>6, <3>1, <3>2
      DEF MenuMatches, MenuFollowsStatus, HasMenu, AddTask, RemoveTask
    <3>4. \A q \in entries : menuTask' # AddTask(q) /\ menuTask' # RemoveTask(q)
      BY <2>5, <2>6, <3>1
    <3>5. QED
      BY <1>2, <2>1, <2>5, <3>3, <3>4 DEF MenuMatches, HasMenu, AddTask, RemoveTask
  <2>10. QED BY <2>2, <2>7, <2>8, <2>9
<1>3. QED BY <1>1, <1>2

\* The second lookup: the pending update is carried out, if there is an entry.
LEMMA CallbackMenuMenu ==
    ASSUME TypeOK, MenuMatches, CallbackMenu
    PROVE  MenuMatches'
<1> DEFINE p == menuTask.plugin
<1>1. /\ menuTask' = NoTask
      /\ UNCHANGED <<entries, status, config>>
      /\ menu' = IF p \notin entries \/ ~HasMenu(p) THEN menu
                 ELSE IF menuTask.op = "add" THEN menu \cup {p} ELSE menu \ {p}
      /\ menuTask # NoTask
  BY DEF CallbackMenu, database
<1>2. p \in Plugins /\ (menuTask = AddTask(p) \/ menuTask = RemoveTask(p))
  BY <1>1 DEF TypeOK, MenuTasks, AddTask, RemoveTask
<1>3. \A q \in Plugins : /\ menuTask' # AddTask(q) /\ menuTask' # RemoveTask(q)
                         /\ menuTask'.plugin # q
  BY <1>1, ConstantsAssumption DEF NoTask, AddTask, RemoveTask
<1>4. \A q \in Plugins : q # p => menuTask # AddTask(q) /\ menuTask # RemoveTask(q)
  BY DEF AddTask, RemoveTask
<1>5. CASE menuTask = AddTask(p)
  <2>1. menuTask.op = "add" /\ menuTask # RemoveTask(p)
    BY <1>5 DEF AddTask, RemoveTask
  <2>2. QED
    BY <1>1, <1>2, <1>3, <1>4, <1>5, <2>1
    DEF TypeOK, MenuMatches, MenuFollowsStatus, HasMenu, AddTask, RemoveTask
<1>6. CASE menuTask = RemoveTask(p)
  <2>1. menuTask.op # "add" /\ menuTask # AddTask(p)
    BY <1>6 DEF AddTask, RemoveTask
  <2>2. QED
    BY <1>1, <1>2, <1>3, <1>4, <1>6, <2>1
    DEF TypeOK, MenuMatches, MenuFollowsStatus, HasMenu, AddTask, RemoveTask
<1>7. QED BY <1>2, <1>5, <1>6

\* A plugin which leaves is not in the menu.
LEMMA UnregisterMenu ==
    ASSUME TypeOK, RowsOutliveEntries, MenuMatches, NEW t \in Admins, UnregisterRunner(t)
    PROVE  MenuMatches'
<1>1. UNCHANGED <<config, status, menu, menuTask>>
  BY DEF UnregisterRunner, database
<1>2. config[target[t]] = "deleted"
  BY DEF RowsOutliveEntries, UnregisterRunner, Finish
<1>3. entries' = entries \/ entries' = entries \ {target[t]}
  BY DEF UnregisterRunner
<1>4. QED
  BY <1>1, <1>2, <1>3 DEF MenuMatches, MenuFollowsStatus, HasMenu, AddTask, RemoveTask

\* Every step keeps the menu in step with the statuses.
LEMMA MenuStep ==
    ASSUME TypeOK, Conversation, RowsOutliveEntries, NewIsUnseen, MenuMatches, [Next]_vars
    PROVE  MenuMatches'
<1>1. CASE UNCHANGED vars
  BY <1>1, ConfigMenu DEF vars, database, actors
<1>2. ASSUME NEW t \in Admins, Request(t) PROVE MenuMatches'
  BY <1>2, ConfigMenu
  DEF Request, RegisterPlugin, StartPlugin, StopPlugin, UnregisterPlugin, StopAll,
      database, actors, TypeOK
<1>3. ASSUME NEW t \in Admins, Proceed(t) PROVE MenuMatches'
  <2>1. CASE RegisterRunner(t)
    <3>1. target[t] \in Plugins
      BY <2>1 DEF RegisterRunner, Finish, TypeOK
    <3>2. target[t] \notin menu /\ menuTask.plugin # target[t]
      BY <2>1 DEF RegisterRunner, Finish, NewIsUnseen
    <3>3. QED BY <2>1, <3>1, <3>2, NewEntryMenu DEF RegisterRunner, database, actors
  <2>2. CASE RegisterEnters(t) \/ RegisterRunnerFails(t) \/ StopAllDone(t)
    BY <2>2, ConfigMenu
    DEF RegisterEnters, RegisterRunnerFails, StopAllDone, database, actors
  <2>3. CASE RegisterRollback(t)
    BY <2>3, ConfigMenu DEF RegisterRollback, actors, TypeOK
  <2>4. CASE StartRunner(t)
    <3>1. target[t] \in Plugins
      BY <2>4 DEF StartRunner, Continue, TypeOK
    <3>2. QED BY <2>4, <3>1, StartEntryMenu DEF StartRunner, database
  <2>5. CASE StopRunner(t)
    <3>1. target[t] \in Plugins
      BY <2>5 DEF StopRunner, Continue, TypeOK
    <3>2. QED BY <2>5, <3>1, StopEntryMenu DEF StopRunner, database
  <2>6. ASSUME NEW from, NEW mode, ChangeAutoStartMode(t, from, mode)
        PROVE  MenuMatches'
    BY <2>6, ConfigMenu DEF ChangeAutoStartMode, actors
  <2>7. CASE UnregisterRunner(t)
    BY <2>7, UnregisterMenu
  <2>8. ASSUME NEW p \in Plugins, StopNext(t, p) PROVE MenuMatches'
    BY <2>8, StopEntryMenu DEF StopNext, database
  <2>9. QED BY <1>3, <2>1, <2>2, <2>3, <2>4, <2>5, <2>6, <2>7, <2>8 DEF Proceed
<1>4. ASSUME NEW p \in Plugins, Lifecycle(p) PROVE MenuMatches'
  BY <1>4, ConfigMenu
  DEF Lifecycle, RunnerStarts, RunnerFailsToStart, RunnerStops, Receive, database
<1>5. ASSUME NEW p \in Plugins, CallbackStatus(p) PROVE MenuMatches'
  BY <1>5, CallbackStatusMenu
<1>6. CASE CallbackMenu
  BY <1>6, CallbackMenuMenu
<1>7. ASSUME NEW loaded, Restart(loaded) PROVE MenuMatches'
  <2>1. entries' = {} /\ menu' = {} /\ menuTask' = NoTask
    BY <1>7 DEF Restart, VolatileStateIsLost
  <2>2. QED BY <2>1, ConstantsAssumption DEF MenuMatches, MenuFollowsStatus, NoTask
<1>8. CASE Booting
  <2>1. ASSUME NEW p \in Plugins, NEW succeeds \in BOOLEAN, BootRegister(p, succeeds)
        PROVE  MenuMatches'
    <3>1. p \notin entries => p \notin menu /\ menuTask.plugin # p
      BY <2>1 DEF BootRegister, RowsOutliveEntries, MenuMatches
    <3>2. CASE succeeds
      BY <2>1, <3>1, <3>2, NewEntryMenu DEF BootRegister, database, actors
    <3>3. CASE ~succeeds
      BY <2>1, <3>3, ConfigMenu DEF BootRegister, database, actors
    <3>4. QED BY <3>2, <3>3
  <2>2. CASE BootStart
    BY <2>2, StartEntryMenu DEF BootStart, TypeOK, database
  <2>3. CASE BootEnters \/ BootDone
    BY <2>3, ConfigMenu DEF BootEnters, BootDone, database, actors
  <2>4. QED BY <1>8, <2>1, <2>2, <2>3 DEF Booting
<1>9. QED BY <1>1, <1>2, <1>3, <1>4, <1>5, <1>6, <1>7, <1>8 DEF Next

\* What is being registered was never in the menu, and the callback actor waits.
LEMMA NewIsUnseenStep ==
    ASSUME TypeOK, MapIsOwned, NewIsUnseen, MenuMatches, [Next]_vars
    PROVE  NewIsUnseen'
<1> SUFFICES ASSUME NEW t \in Admins, pc'[t] = "registering"
             PROVE  target'[t] \notin menu' /\ menuTask'.plugin # target'[t]
  BY DEF NewIsUnseen
<1>1. CASE pc[t] = "registering"
  BY <1>1, OwnerIsAlone DEF NewIsUnseen
<1>2. CASE pc[t] # "registering"
  <2>1. RegisterEnters(t)
    BY <1>2, OwnerEnters DEF StopAll, TypeOK
  <2>2. /\ Continue(t, "registerRunner", "registering")
        /\ IsLoadable(target[t]) /\ target[t] \notin entries
    BY <2>1 DEF RegisterEnters, Finish, TypeOK
  <2>3. target[t] \in Plugins
    BY <2>2 DEF Continue, TypeOK
  <2>4. target[t] \notin menu /\ menuTask.plugin # target[t]
    BY <2>2, <2>3 DEF MenuMatches, IsLoadable
  <2>5. QED BY <2>1, <2>2, <2>4 DEF RegisterEnters, Continue, actors
<1>3. QED BY <1>1, <1>2

\* Of the registered plugins, the tool menu shows those that are started and none
\* that is stopped, except between the two lookups of the callback actor.
THEOREM MenuFollowsStatusCorrect == Spec => []MenuFollowsStatus
<1>1. Init => NewIsUnseen /\ MenuMatches
  BY ConstantsAssumption DEF Init, NewIsUnseen, MenuMatches, MenuFollowsStatus, NoTask
<1>2. TypeOK /\ Conversation /\ RowsOutliveEntries /\ MapIsOwned
        /\ NewIsUnseen /\ MenuMatches /\ [Next]_vars
        => NewIsUnseen' /\ MenuMatches'
  BY MenuStep, NewIsUnseenStep
<1>3. MenuMatches => MenuFollowsStatus
  BY DEF MenuMatches
<1>4. QED
  BY <1>1, <1>2, <1>3, TypeCorrect, ConversationCorrect, RowsCorrect, MapIsOwnedCorrect,
     PTL DEF Spec

=============================================================================
