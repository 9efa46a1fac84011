----------------------------- MODULE MCMissions -----------------------------
(* Values of the constants of Missions for TLC, and a claim of the code     *)
(* that concurrent missions break.                                          *)
EXTENDS Missions, TLC

CONSTANTS m1, m2, m3, n1, deploy, svc, pv, ns, apps, core, volumes

\* Two objects of different resources in one namespace, one in none.
MCObjs == {deploy, svc, pv}
MCClusterObjs == {pv}
MCResources == {apps, core, volumes}
MCResourceOf == deploy :> apps @@ svc :> core @@ pv :> volumes
MCTimes == apps :> 1 @@ core :> 1 @@ volumes :> 2
MCNamespaceOf == deploy :> ns @@ svc :> ns @@ pv :> ClusterLevel

\* The second mission is about a part of the cluster only.
MCAll == [m \in Missions |-> MCObjs]
MCPart == m1 :> MCObjs @@ m2 :> {svc}

\* Everything is there, or all but the service; everything was stored, and
\* some of it is there, the volume in another version.
MCWhole == [o \in MCObjs |-> 1]
MCBackedUp == {MCWhole}
MCFull == {MCWhole, [MCWhole EXCEPT ![svc] = 0]}
MCLosses == {c \in [MCObjs -> 0..2] : c[deploy] < 2 /\ c[svc] = 0 /\ c[pv] # 1}

\* ApplyResourceTree refuses a name with "the storage has already exist"
\* (core_agent.go:97).  What is stored under a name that a caller gave is not
\* replaced.
NeverOverwritten ==
  [][\A s \in Slots : s.name # Unnamed /\ store[s].json.by # NoMission
                        => store'[s].json = store[s].json]_vars
=============================================================================
