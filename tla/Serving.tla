-------------------------------- MODULE Serving --------------------------------
(***************************************************************************)
(* A real inference server: the panel that launches, tries and stops it    *)
(* (RealInferenceServerPanel), and the API's handlers with the launcher,   *)
(* which creates and deletes its Deployment and its Service in two calls   *)
(* (api/k8s_launcher.py).                                                  *)
(*                                                                         *)
(* The panel knows the one server whose name it holds.  Leaving the        *)
(* inference tab unmounts it: the name is forgotten, and answers to calls  *)
(* that were under way go nowhere.                                         *)
(***************************************************************************)
EXTENDS Integers, FiniteSets

CONSTANT Servers  \* names; each is given once

VARIABLES
  deployments, services,  \* in the cluster
  given,
  serverName,
  launching, stopping, sending,
  result,                 \* whose completion is shown
  calls,                  \* under way in the API
  faulted                 \* history: left behind, or deleted or created by half

servingVars == <<deployments, services, given, serverName, launching, stopping, sending, result, calls, faulted>>

cluster == <<deployments, services>>
panelState == <<serverName, launching, stopping, sending, result>>

NoServer == "none"

ASSUME ServingAssumption == NoServer \notin Servers

Call == [kind : {"launch", "stop", "complete"}, name : Servers, mine : BOOLEAN,
         at : {"deployment", "service", "pod", "answered", "failed"}]

Moved(c, at) == calls' = (calls \ {c}) \cup {[c EXCEPT !.at = at]}

-----------------------------------------------------------------------------
(* The launcher's two steps, each of which the cluster may refuse.  What   *)
(* was created before stays, and nobody learns its name.                   *)
CreateDeployment(c) ==
  /\ c.kind = "launch" /\ c.at = "deployment"
  /\ deployments' = deployments \cup {c.name}
  /\ Moved(c, "service")
  /\ UNCHANGED <<services, given, panelState, faulted>>

CreateService(c) ==
  /\ c.kind = "launch" /\ c.at = "service"
  /\ services' = services \cup {c.name}
  /\ Moved(c, "answered")
  /\ UNCHANGED <<deployments, given, panelState, faulted>>

(* Deleting what is not there is refused.                                  *)
DeleteDeployment(c) ==
  /\ c.kind = "stop" /\ c.at = "deployment" /\ c.name \in deployments
  /\ deployments' = deployments \ {c.name}
  /\ Moved(c, "service")
  /\ UNCHANGED <<services, given, panelState, faulted>>

DeleteService(c) ==
  /\ c.kind = "stop" /\ c.at = "service" /\ c.name \in services
  /\ services' = services \ {c.name}
  /\ Moved(c, "answered")
  /\ UNCHANGED <<deployments, given, panelState, faulted>>

Refused(c) ==
  /\ c.at \in {"deployment", "service"}
  /\ Moved(c, "failed")
  /\ faulted' = IF c.at = "service" THEN faulted \cup {c.name} ELSE faulted
  /\ UNCHANGED <<cluster, given, panelState>>

(* The API passes a completion on to the Service's Pod.                    *)
Complete(c) ==
  /\ c.at = "pod"
  /\ \/ c.name \in deployments \cap services /\ Moved(c, "answered")
     \/ Moved(c, "failed")
  /\ UNCHANGED <<cluster, given, panelState, faulted>>

-----------------------------------------------------------------------------
NewCall(kind, name, at) == calls' = calls \cup {[kind |-> kind, name |-> name, mine |-> TRUE, at |-> at]}

Launch ==
  /\ serverName = NoServer /\ ~launching
  /\ launching' = TRUE
  /\ \E n \in Servers \ given : given' = given \cup {n} /\ NewCall("launch", n, "deployment")
  /\ UNCHANGED <<cluster, serverName, stopping, sending, result, faulted>>

Stop ==
  /\ serverName # NoServer /\ ~stopping
  /\ stopping' = TRUE
  /\ NewCall("stop", serverName, "deployment")
  /\ UNCHANGED <<cluster, given, serverName, launching, sending, result, faulted>>

SendTestRequest ==
  /\ serverName # NoServer /\ ~sending
  /\ sending' = TRUE
  /\ NewCall("complete", serverName, "pod")
  /\ UNCHANGED <<cluster, given, serverName, launching, stopping, result, faulted>>

(* The panel forgets what it held.                                         *)
LeaveTab ==
  /\ faulted' = faulted \cup ({serverName} \ {NoServer}) \cup {c.name : c \in {d \in calls : d.mine}}
  /\ calls' = {[c EXCEPT !.mine = FALSE] : c \in calls}
  /\ serverName' = NoServer /\ result' = NoServer
  /\ launching' = FALSE /\ stopping' = FALSE /\ sending' = FALSE
  /\ UNCHANGED <<cluster, given>>

-----------------------------------------------------------------------------
Ends(c) == calls' = calls \ {c} /\ UNCHANGED <<cluster, given>>

Launched(c) ==
  /\ c.kind = "launch" /\ c.mine /\ c.at = "answered" /\ Ends(c)
  /\ serverName' = c.name /\ launching' = FALSE
  /\ UNCHANGED <<stopping, sending, result, faulted>>

LaunchFailed(c) ==
  /\ c.kind = "launch" /\ c.mine /\ c.at = "failed" /\ Ends(c)
  /\ launching' = FALSE
  /\ UNCHANGED <<serverName, stopping, sending, result, faulted>>

Stopped(c) ==
  /\ c.kind = "stop" /\ c.mine /\ c.at = "answered" /\ Ends(c)
  /\ serverName' = NoServer /\ result' = NoServer /\ stopping' = FALSE
  /\ UNCHANGED <<launching, sending, faulted>>

(* Mutant: the server is forgotten whatever comes of its deletion.         *)
StopFailed_Forgets(c) ==
  /\ c.kind = "stop" /\ c.mine /\ c.at = "failed" /\ Ends(c)
  /\ serverName' = NoServer /\ result' = NoServer /\ stopping' = FALSE
  /\ UNCHANGED <<launching, sending, faulted>>

StopFailed(c) ==
  /\ c.kind = "stop" /\ c.mine /\ c.at = "failed" /\ Ends(c)
  /\ stopping' = FALSE
  /\ UNCHANGED <<serverName, launching, sending, result, faulted>>

(* The answer may come when the server is stopped, or another is launched. *)
Completed(c) ==
  /\ c.kind = "complete" /\ c.mine /\ c.at \in {"answered", "failed"} /\ Ends(c)
  /\ result' = IF c.at = "answered" THEN c.name ELSE result
  /\ sending' = FALSE
  /\ UNCHANGED <<serverName, launching, stopping, faulted>>

(* An answer to a panel that is not there any more.                        *)
Unheard(c) ==
  /\ ~c.mine /\ c.at \in {"answered", "failed"} /\ Ends(c)
  /\ UNCHANGED <<panelState, faulted>>

(* The answer is lost on its way: to the panel the call has failed.        *)
AnswerLost(c) ==
  /\ c.mine /\ c.at = "answered" /\ Moved(c, "failed")
  /\ faulted' = IF c.kind = "complete" THEN faulted ELSE faulted \cup {c.name}
  /\ UNCHANGED <<cluster, given, panelState>>

-----------------------------------------------------------------------------
ServingInit ==
  /\ deployments = {} /\ services = {} /\ given = {} /\ calls = {} /\ faulted = {}
  /\ serverName = NoServer /\ result = NoServer
  /\ launching = FALSE /\ stopping = FALSE /\ sending = FALSE

CallStep(c) ==
  \/ CreateDeployment(c) \/ CreateService(c) \/ DeleteDeployment(c) \/ DeleteService(c)
  \/ Refused(c) \/ Complete(c) \/ AnswerLost(c)
  \/ Launched(c) \/ LaunchFailed(c) \/ Stopped(c) \/ StopFailed(c) \/ Completed(c) \/ Unheard(c)

ServingNext == Launch \/ Stop \/ SendTestRequest \/ LeaveTab \/ \E c \in calls : CallStep(c)

ServingSpec == ServingInit /\ [][ServingNext]_servingVars

-----------------------------------------------------------------------------
(* As long as no fault and no change of tab has touched a server, what     *)
(* exists of it is known: the panel shows its name or has a call for it    *)
(* under way, so that it can be stopped; and the server that is shown as   *)
(* deployed is there, with its Service, until it is being stopped          *)
(* (RealInferenceServerPanel.tsx:38-58, k8s_launcher.py:173-184).          *)
ServersAreTracked ==
  LET handled == {c.name : c \in {d \in calls : d.mine /\ d.kind # "complete"}}
  IN  /\ (deployments \cup services) \ faulted \subseteq {serverName} \cup handled
      /\ serverName \notin {NoServer} \cup faulted \cup handled => serverName \in deployments \cap services
=============================================================================
