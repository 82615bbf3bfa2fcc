---------------------------- MODULE MC_Lifecycle ----------------------------
(***************************************************************************)
(* What is started, serves and is stopped, checked together: the coroutine *)
(* runtime with its processors, the TCP and HTTP server on top of it, and  *)
(* the daemon process around both.  A behaviour exercises one of them, the *)
(* subject, and leaves the others as they are before their start.          *)
(***************************************************************************)
EXTENDS Runtime, HttpServer

\* Of Daemon.
CONSTANTS Repeated, MaxCrashes

VARIABLES subject, daemon, parent, stop, told, worker, status, workerStop, crashes

dvars == <<daemon, parent, stop, told, worker, status, workerStop, crashes>>
allvars == <<subject, vars, servervars, dvars>>

Process == INSTANCE Daemon

Begin ==
  /\ subject \in {"runtime", "server", "daemon"}
  /\ Init /\ ServerInit /\ Process!Init
  /\ subject # "daemon" => daemon = TRUE

Step ==
  \/ subject = "runtime" /\ Next /\ UNCHANGED <<subject, servervars, dvars>>
  \/ subject = "server" /\ ServerNext /\ UNCHANGED <<subject, vars, dvars>>
  \/ subject = "daemon" /\ Process!Next /\ UNCHANGED <<subject, vars, servervars>>

(* The fairness of each module, for the behaviours about its component.  A *)
(* coroutine of the server that can run is run, and a read ends:           *)
(* ServerConfig gives every read a timeout.                                *)
LifecycleSpec ==
  /\ Begin /\ [][Step]_allvars
  /\ \A u \in Users : WF_vars(subject = "runtime" /\ UserStep(u))
  /\ \A p \in Procs : WF_vars(subject = "runtime" /\ LoopStep(p))
  /\ WF_servervars(subject = "server" /\ StopGoesOn)
  /\ WF_servervars(subject = "server" /\ \E l \in loops : AcceptLoopEnds(l))
  /\ \A c \in Conns : WF_servervars(subject = "server" /\ Handler(c))
  /\ WF_dvars(subject = "daemon" /\ Process!Parent)
  /\ WF_dvars(subject = "daemon" /\ Process!Worker)
  /\ Repeated => WF_dvars(subject = "daemon" /\ stop /\ Process!Signal)

-----------------------------------------------------------------------------
(* Told to stop, daemon and worker end; until then a worker that crashed   *)
(* is replaced.                                                            *)
DaemonGoesOn == Process!DaemonStops /\ Process!WorkerReplaced
=============================================================================
