-------------------------- MODULE PluginLifecycle --------------------------
(***************************************************************************)
(* What the plugin manager promises to its clients about each plugin       *)
(* instance, without threads, locks, actors or mailboxes: the statuses an  *)
(* instance goes through (IPluginManagerService.PluginStatus), and that a  *)
(* start or a stop that was accepted does not stay pending for ever.       *)
(* PluginManager.tla is shown to implement this module.                    *)
(***************************************************************************)

CONSTANT Plugins        \* identifiers of plugin configurations

VARIABLE state          \* state[p]: what a client sees of the instance p

States == {"ABSENT", "STOPPED", "STARTING", "STARTED", "STOPPING"}

TypeOK == state \in [Plugins -> States]

Init == state = [p \in Plugins |-> "ABSENT"]

Move(p, from, to) ==
    /\ state[p] = from
    /\ state' = [state EXCEPT ![p] = to]

Register(p)   == Move(p, "ABSENT", "STOPPED")
Unregister(p) == Move(p, "STOPPED", "ABSENT")
Start(p)      == Move(p, "STOPPED", "STARTING")
Stop(p)       == Move(p, "STARTED", "STOPPING")

\* The plugin answers the last request: a start succeeds or fails, a stop ends.
Answer(p) ==
    \/ Move(p, "STARTING", "STARTED")
    \/ Move(p, "STARTING", "STOPPED")
    \/ Move(p, "STOPPING", "STOPPED")

\* The process is restarted: nothing is registered any more.
Reset == state' = [p \in Plugins |-> "ABSENT"]

Next ==
    \/ \E p \in Plugins :
          Register(p) \/ Unregister(p) \/ Start(p) \/ Stop(p) \/ Answer(p)
    \/ Reset

Safety == Init /\ [][Next]_state

\* What was asked for is answered.
Progress == \A p \in Plugins : WF_state(Answer(p))

Spec == Safety /\ Progress
=============================================================================
