----------------------------- MODULE MCServices -----------------------------
(***************************************************************************)
(* The loops that have to get somewhere, each on its own: the agent's push *)
(* loop with the master's handlers, the delivery queue of the alerts, the  *)
(* agent's pull and mirror, a tracer with its pushes, and the sweep of old *)
(* rows.  They share nothing the modules look at, so one of them runs in   *)
(* each behaviour, from its own initial states and under its own fairness, *)
(* and the others stand still.                                             *)
(***************************************************************************)
EXTENDS AgentDelivery, DeliveryQueue, MCAgentMirror, PathLog, History

VARIABLE service

Services == {"delivery", "queue", "mirror", "paths", "history"}

allVars == <<service, vars, queueVars, mirrorVars, pathVars, historyVars>>

(* What stands still is in one initial state, and a log of paths that does  *)
(* is one whose changes were dropped.                                       *)
ServicesInit ==
  /\ service \in Services
  /\ Init /\ QueueInit /\ MirrorInit /\ HistoryInit
  /\ PathStart(service # "paths")
  /\ service # "paths" => route = CHOOSE r \in Routes : TRUE
  /\ service # "history" => \A t \in Leaves : keep[t] = 0 /\ probed[t]

ServicesNext ==
  /\ UNCHANGED service
  /\ \/ /\ service = "delivery" /\ Next
        /\ UNCHANGED <<queueVars, mirrorVars, pathVars, historyVars>>
     \/ /\ service = "queue" /\ QueueNext
        /\ UNCHANGED <<vars, mirrorVars, pathVars, historyVars>>
     \/ /\ service = "mirror" /\ MirrorNext
        /\ UNCHANGED <<vars, queueVars, pathVars, historyVars>>
     \/ /\ service = "paths" /\ PathNext
        /\ UNCHANGED <<vars, queueVars, mirrorVars, historyVars>>
     \/ /\ service = "history" /\ HistoryNext
        /\ UNCHANGED <<vars, queueVars, mirrorVars, pathVars>>

(* The fairness of each module, for the service that runs.                  *)
ServicesFairness ==
  /\ WF_vars(service = "delivery" /\ StartPush) /\ WF_vars(service = "delivery" /\ Send)
  /\ WF_vars(service = "delivery" /\ NothingPending)
  /\ WF_vars(service = "delivery" /\ \E status \in Status : Receive(status))
  /\ WF_vars(service = "delivery" /\ Timeout) /\ WF_vars(service = "delivery" /\ DropSubmitted)
  /\ WF_vars(service = "delivery" /\ Start) /\ WF_vars(service = "delivery" /\ RequestArrives)
  /\ WF_vars(service = "delivery" /\ \E h \in handlers : CheckRows(h))
  /\ WF_vars(service = "delivery" /\ \E h \in handlers : Ingest(h))
  /\ WF_queueVars(service = "queue" /\ WorkerStep) /\ WF_queueVars(service = "queue" /\ QueueClosed)
  /\ \A p \in Producers : WF_queueVars(service = "queue" /\ (PutBatch(p) \/ EvictFor(p)))
  /\ WF_mirrorVars(service = "mirror" /\ MirrorStep)
  /\ WF_pathVars(service = "paths" /\ (Trace \/ Compare \/ RecordPath("current")))
  /\ WF_pathVars(service = "paths" /\ (StartPathPush \/ HandlePaths \/ PathsSubmitted))
  /\ WF_historyVars(service = "history" /\ Sweeping)

ServicesSpec == ServicesInit /\ [][ServicesNext]_allVars /\ ServicesFairness
=============================================================================
