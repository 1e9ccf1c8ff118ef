--------------------------- MODULE MCServiceHost ---------------------------
(***************************************************************************)
(* One instance of each of seven parts of the service.  They share no      *)
(* state here: a behaviour follows one of them, chosen at the start.       *)
(***************************************************************************)
EXTENDS PastePermission, ClipRules, CriticalState, EntityObservers, PreSyncMonitor,
        DistributedSwitch, UseReports

VARIABLE part

vars == <<part, permissionVars, rulesVars, criticalVars, entityVars, monitorVars,
          distributedVars, reportsVars>>

Init ==
    /\ PermissionInit /\ RulesInit /\ CriticalInit /\ EntityInit /\ MonitorInit
    /\ DistributedInit /\ ReportsInit
    /\ part \in {"permission", "rules", "critical", "entities", "monitor", "switch", "reports"}
    \* One initial state is enough for a part that is not followed.
    /\ part = "permission" \/ focused = (CHOOSE a \in Apps : TRUE)
    /\ part = "rules" \/ (~locked /\ screenStatus = ScreenUnlocked)
    \* The users differ, the device profile service does not know it yet, and where the
    \* security level allows a plugin the switch has still to be turned on.
    /\ \/ /\ part = "switch" /\ profile[Local] # setting[user] /\ supported # setting[user]
          /\ \E u \in Users : setting[u] # setting[user]
       \/ part # "switch" /\ supported /\ setting = [u \in Users |-> TRUE] /\ profile = [d \in Devices \cup {Local} |-> TRUE]

Next ==
    /\ UNCHANGED part
    /\ \/ /\ part = "permission" /\ PermissionNext
          /\ UNCHANGED <<rulesVars, criticalVars, entityVars, monitorVars, distributedVars, reportsVars>>
       \/ /\ part = "rules" /\ RulesNext
          /\ UNCHANGED <<permissionVars, criticalVars, entityVars, monitorVars, distributedVars, reportsVars>>
       \/ /\ part = "critical" /\ CriticalNext
          /\ UNCHANGED <<permissionVars, rulesVars, entityVars, monitorVars, distributedVars, reportsVars>>
       \/ /\ part = "entities" /\ EntityNext
          /\ UNCHANGED <<permissionVars, rulesVars, criticalVars, monitorVars, distributedVars, reportsVars>>
       \/ /\ part = "monitor" /\ MonitorNext
          /\ UNCHANGED <<permissionVars, rulesVars, criticalVars, entityVars, distributedVars, reportsVars>>
       \/ /\ part = "switch" /\ DistributedNext
          /\ UNCHANGED <<permissionVars, rulesVars, criticalVars, entityVars, monitorVars, reportsVars>>
       \/ /\ part = "reports" /\ ReportsNext
          /\ UNCHANGED <<permissionVars, rulesVars, criticalVars, entityVars, monitorVars, distributedVars>>

Spec == Init /\ [][Next]_vars

=============================================================================
