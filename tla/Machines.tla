------------------------------- MODULE Machines -------------------------------
(***************************************************************************)
(* What the site knows of one judge: its row in Judge and its runtime      *)
(* versions, written by the connections of that judge to the bridge        *)
(* (judge/bridge/judge_handler.py) and by the administration               *)
(* (judge/admin/runtime.py, judge/models/runtime.py).  A judge that        *)
(* reconnects does so before the bridge has noticed that it was gone.      *)
(***************************************************************************)
EXTENDS Integers, FiniteSets

CONSTANTS
    JmConns,        \* Connections the judge makes, each once.
    JmAdmins,       \* Requests of the administration, each once.
    MaxRestarts     \* Bound: of the bridge.

VARIABLES
    jm_row,         \* Judge: online, disabled, blocked.
    jm_versions,    \* RuntimeVersion: the connections whose versions are stored.
    jm_conns,       \* Per connection: at, disabled, row (as loaded).
    jm_list,        \* JudgeList.judges.
    jm_admins,      \* Per request: at, what it does, row or value it holds.
    jm_restarts,
    jm_overlap,     \* History: connections in a handshake at the same time as another, or followed by another.
    jm_outlived,    \* History: connections during which another one recorded its end.
    jm_crossed      \* History: a row was saved, or a judge disabled, around a change the other had not seen.

jmvars == <<jm_row, jm_versions, jm_conns, jm_list, jm_admins, jm_restarts, jm_overlap, jm_outlived, jm_crossed>>

JmInit ==
    /\ jm_row = [online |-> FALSE, disabled |-> FALSE, blocked |-> FALSE]
    /\ jm_versions = {}
    /\ jm_conns = [c \in JmConns |-> [at |-> "new", disabled |-> FALSE, row |-> jm_row]]
    /\ jm_list = {}
    /\ jm_admins = [a \in JmAdmins |-> [at |-> "idle"]]
    /\ jm_restarts = 0
    /\ jm_overlap = {} /\ jm_outlived = {} /\ jm_crossed = FALSE

ConnTo(c, at) == jm_conns' = [jm_conns EXCEPT ![c].at = at]

\* Connections that were accepted and are not over.
Shaking == {"named", "listed", "loaded", "cleared", "stored"}
InHandshake == {c \in JmConns : jm_conns[c].at \in Shaking}
OthersUp(c) == {d \in JmConns \ {c} : jm_conns[d].at \in Shaking \cup {"connected"}}

\* Changes of is_disabled that are not finished.
Disabling(a) == jm_admins[a].at \in {"tell", "save"}

-----------------------------------------------------------------------------
(* on_handshake.                                                           *)

\* _authenticate; a judge that is blocked is sent away.
Authenticate(c) ==
    /\ jm_conns[c].at = "new"
    /\ \/ jm_row.blocked /\ ConnTo(c, "gone") /\ UNCHANGED jm_overlap
       \/ /\ ~jm_row.blocked /\ ConnTo(c, "named")
          /\ jm_overlap' = jm_overlap \cup OthersUp(c) \cup (IF InHandshake = {} THEN {} ELSE {c})
    /\ UNCHANGED <<jm_row, jm_versions, jm_list, jm_admins, jm_restarts, jm_outlived, jm_crossed>>

\* register lists the connection.  It means to close those of the same name, but compares
\* their names with the connection itself, so that they all stay open.
JmRegister(c) ==
    /\ jm_conns[c].at = "named"
    /\ ConnTo(c, "listed")
    /\ jm_list' = jm_list \cup {c}
    /\ UNCHANGED <<jm_row, jm_versions, jm_admins, jm_restarts, jm_overlap, jm_outlived, jm_crossed>>

\* The dispatch of a submission fails: the connection is taken off the list, and stands.
Unlist(c) ==
    /\ c \in jm_list
    /\ jm_list' = jm_list \ {c}
    /\ UNCHANGED <<jm_row, jm_versions, jm_conns, jm_admins, jm_restarts, jm_overlap, jm_outlived, jm_crossed>>

\* _connected reads the row, and is_disabled from it,
LoadJudge(c) ==
    /\ jm_conns[c].at = "listed"
    /\ jm_conns' = [jm_conns EXCEPT ![c].at = "loaded", ![c].row = jm_row, ![c].disabled = jm_row.disabled]
    /\ jm_crossed' = (jm_crossed \/ \E a \in JmAdmins : Disabling(a))
    /\ UNCHANGED <<jm_row, jm_versions, jm_list, jm_admins, jm_restarts, jm_overlap, jm_outlived>>

\* deletes the versions left over from a connection before, stores its own,
ClearVersions(c) ==
    /\ jm_conns[c].at = "loaded"
    /\ jm_versions' = {}
    /\ ConnTo(c, "cleared")
    /\ UNCHANGED <<jm_row, jm_list, jm_admins, jm_restarts, jm_overlap, jm_outlived, jm_crossed>>

StoreVersions(c) ==
    /\ jm_conns[c].at = "cleared"
    /\ jm_versions' = jm_versions \cup {c}
    /\ ConnTo(c, "stored")
    /\ UNCHANGED <<jm_row, jm_list, jm_admins, jm_restarts, jm_overlap, jm_outlived, jm_crossed>>

\* and saves every column of the row.
SaveJudge(c) ==
    /\ jm_conns[c].at = "stored"
    /\ jm_row' = [jm_conns[c].row EXCEPT !.online = TRUE]
    /\ ConnTo(c, "connected")
    /\ jm_crossed' = (jm_crossed \/ jm_row # [jm_conns[c].row EXCEPT !.online = jm_row.online])
    /\ UNCHANGED <<jm_versions, jm_list, jm_admins, jm_restarts, jm_overlap, jm_outlived>>

-----------------------------------------------------------------------------
(* on_disconnect, when the socket was shut (disconnect_judge), or lost, or *)
(* silent for too long: at any time.                                       *)

LeaveList(c) ==
    /\ jm_conns[c].at = "connected"
    /\ jm_list' = jm_list \ {c}
    /\ ConnTo(c, "leaving")
    /\ UNCHANGED <<jm_row, jm_versions, jm_admins, jm_restarts, jm_overlap, jm_outlived, jm_crossed>>

\* Mutant: the row is not touched.
StaysOnline == jm_row

\* _disconnected.
WentOffline == [jm_row EXCEPT !.online = FALSE]

SetOffline(c) ==
    /\ jm_conns[c].at = "leaving"
    /\ jm_row' = WentOffline
    /\ ConnTo(c, "offline")
    /\ jm_outlived' = jm_outlived \cup OthersUp(c)
    /\ UNCHANGED <<jm_versions, jm_list, jm_admins, jm_restarts, jm_overlap, jm_crossed>>

DeleteVersions(c) ==
    /\ jm_conns[c].at = "offline"
    /\ jm_versions' = {}
    /\ ConnTo(c, "gone")
    /\ jm_outlived' = jm_outlived \cup OthersUp(c)
    /\ UNCHANGED <<jm_row, jm_list, jm_admins, jm_restarts, jm_overlap, jm_crossed>>

-----------------------------------------------------------------------------
(* The administration.                                                     *)

AdminTo(a, state) == jm_admins' = [jm_admins EXCEPT ![a] = state]

\* toggle_disabled; JudgeAdmin's form, for a judge blocked or unblocked.
AdminStart(a) ==
    /\ jm_admins[a] = [at |-> "idle"]
    /\ \/ /\ AdminTo(a, [at |-> "tell", value |-> ~jm_row.disabled])
          /\ jm_crossed' = (jm_crossed \/ InHandshake # {} \/ \E b \in JmAdmins : Disabling(b))
       \/ /\ AdminTo(a, [at |-> "form", row |-> jm_row])
          /\ UNCHANGED jm_crossed
    /\ UNCHANGED <<jm_row, jm_versions, jm_conns, jm_list, jm_restarts, jm_overlap, jm_outlived>>

\* Mutant: the judges that are listed are not told.
TellNobody(value) == jm_conns

\* update_disable_judge, on the bridge.
Told(value) == [c \in JmConns |-> IF c \in jm_list THEN [jm_conns[c] EXCEPT !.disabled = value] ELSE jm_conns[c]]

TellBridge(a) ==
    /\ jm_admins[a].at = "tell"
    /\ jm_conns' = Told(jm_admins[a].value)
    /\ AdminTo(a, [jm_admins[a] EXCEPT !.at = "save"])
    /\ jm_crossed' = (jm_crossed \/ InHandshake # {})
    /\ UNCHANGED <<jm_row, jm_versions, jm_list, jm_restarts, jm_overlap, jm_outlived>>

\* Only is_disabled is saved.
SaveDisabled(a) ==
    /\ jm_admins[a].at = "save"
    /\ jm_row' = [jm_row EXCEPT !.disabled = jm_admins[a].value]
    /\ AdminTo(a, [at |-> "done"])
    /\ jm_crossed' = (jm_crossed \/ InHandshake # {})
    /\ UNCHANGED <<jm_versions, jm_conns, jm_list, jm_restarts, jm_overlap, jm_outlived>>

\* The form saves every column as it was loaded.
SaveForm(a) ==
    /\ jm_admins[a].at = "form"
    /\ jm_row' = [jm_admins[a].row EXCEPT !.blocked = ~@]
    /\ AdminTo(a, [at |-> "done"])
    /\ jm_crossed' = (jm_crossed \/ jm_row # jm_admins[a].row)
    /\ UNCHANGED <<jm_versions, jm_conns, jm_list, jm_restarts, jm_overlap, jm_outlived>>

\* judge_daemon starts again: reset_judges; the versions stay.  A request that could not tell
\* the bridge fails before it saves.
Restart ==
    /\ jm_restarts < MaxRestarts
    /\ jm_restarts' = jm_restarts + 1
    /\ jm_row' = [jm_row EXCEPT !.online = FALSE]
    /\ jm_list' = {}
    /\ jm_conns' = [c \in JmConns |-> IF jm_conns[c].at = "new" THEN jm_conns[c]
                                      ELSE [jm_conns[c] EXCEPT !.at = "gone"]]
    /\ jm_admins' = [a \in JmAdmins |-> IF jm_admins[a].at = "tell" THEN [at |-> "done"] ELSE jm_admins[a]]
    /\ UNCHANGED <<jm_versions, jm_overlap, jm_outlived, jm_crossed>>

JmNext ==
    \/ \E c \in JmConns : \/ Authenticate(c) \/ JmRegister(c) \/ Unlist(c) \/ LoadJudge(c) \/ ClearVersions(c)
                          \/ StoreVersions(c) \/ SaveJudge(c)
                          \/ LeaveList(c) \/ SetOffline(c) \/ DeleteVersions(c)
    \/ \E a \in JmAdmins : AdminStart(a) \/ TellBridge(a) \/ SaveDisabled(a) \/ SaveForm(a)
    \/ Restart

JmSpec == JmInit /\ [][JmNext]_jmvars

-----------------------------------------------------------------------------
(* Properties.                                                             *)

\* The row says online only while a connection stands, and whenever one does it says so, but for
\* one during which an older connection recorded its end, and rows saved as they had been before.
OnlineIsTrue ==
    ~jm_crossed =>
      /\ jm_row.online => \E c \in JmConns : jm_conns[c].at \in {"connected", "leaving"}
      /\ \A c \in JmConns \ jm_outlived : jm_conns[c].at = "connected" => jm_row.online

\* The versions are those of the newest connection, whatever older ones and the bridge left
\* over, but for one during which an older connection recorded its end or made its handshake.
VersionsAreOwn ==
    \A c \in JmConns \ (jm_overlap \cup jm_outlived) : jm_conns[c].at = "connected" => jm_versions = {c}

\* A judge that is connected and listed is disabled when its row says so and no change is under
\* way, unless a change crossed a handshake, another change, or a form.
DisabledIsKnown ==
    \A c \in jm_list :
      jm_conns[c].at = "connected" /\ ~jm_crossed /\ (\A a \in JmAdmins : ~Disabling(a))
      => jm_conns[c].disabled = jm_row.disabled

MachinesHold == OnlineIsTrue /\ VersionsAreOwn /\ DisabledIsKnown
=============================================================================
