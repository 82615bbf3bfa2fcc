------------------------------- MODULE Daemon -------------------------------
(***************************************************************************)
(* zhttp::Daemon and the worker HttpServerBuilder::run gives it: a parent  *)
(* that forks a worker, waits for it, starts it again after a crash and    *)
(* ends both when it is told to by SIGTERM or SIGINT.                      *)
(***************************************************************************)
EXTENDS Naturals

CONSTANTS
  Repeated,     \* whether the signal is sent again while the daemon runs
  MaxCrashes    \* bound: workers that crash or fail to start

VARIABLES
  daemon,       \* config_.daemon: a parent and a worker, or one process
  parent,       \* where the parent stands
  stop,         \* g_stop_flag of the parent
  told,         \* sent_sigterm of wait_for_child_exit
  worker,       \* the worker process; "zombie" when it has ended
  status,       \* how it ended: "ok", or "bad" (an exit code, a signal)
  workerStop,   \* g_stop_flag of the worker
  crashes       \* bound's counter

vars == <<daemon, parent, stop, told, worker, status, workerStop, crashes>>

\* start_daemon: in the foreground the process is its own worker.
Init ==
  /\ daemon \in BOOLEAN
  /\ parent = IF daemon THEN "loop" ELSE "foreground"
  /\ worker = IF daemon THEN "none" ELSE "starting"
  /\ stop = FALSE /\ workerStop = FALSE
  /\ told = FALSE /\ status = "ok" /\ crashes = 0

Alive == parent \notin {"done", "failed"}

-----------------------------------------------------------------------------
\* while (!g_stop_flag)
LoopTop ==
  /\ parent = "loop"
  /\ parent' = IF stop THEN "done" ELSE "fork"
  /\ UNCHANGED <<daemon, stop, told, worker, status, workerStop, crashes>>

\* The worker begins with a copy of the flag.
Fork ==
  /\ parent = "fork"
  /\ parent' = "wait" /\ told' = FALSE
  /\ worker' = "starting" /\ workerStop' = stop
  /\ UNCHANGED <<daemon, stop, status, crashes>>

ForkFails ==
  /\ parent = "fork" /\ crashes < MaxCrashes
  /\ parent' = "failed" /\ crashes' = crashes + 1
  /\ UNCHANGED <<daemon, stop, told, worker, status, workerStop>>

\* waitpid is entered; from then on a signal interrupts it.
EnterWait ==
  /\ parent = "wait" /\ worker # "zombie"
  /\ parent' = "blocked"
  /\ UNCHANGED <<daemon, stop, told, worker, status, workerStop, crashes>>

Reap ==
  /\ parent \in {"wait", "blocked"} /\ worker = "zombie"
  /\ worker' = "none"
  /\ parent' = IF stop \/ status = "ok" THEN "done" ELSE "sleep"
  /\ UNCHANGED <<daemon, stop, told, status, workerStop, crashes>>

\* waitpid failed with EINTR.  Mutant: the signal is not passed on.
InterruptedKeepsQuiet ==
  /\ parent = "interrupted"
  /\ parent' = "wait" /\ told' = stop
  /\ UNCHANGED <<daemon, stop, worker, status, workerStop, crashes>>
Interrupted ==
  /\ parent = "interrupted"
  /\ parent' = "wait" /\ told' = (told \/ stop)
  /\ workerStop' = IF stop /\ ~told THEN TRUE ELSE workerStop
  /\ UNCHANGED <<daemon, stop, worker, status, crashes>>

\* sleep_before_restart: the time is up, or the flag is seen.
Sleep ==
  /\ parent = "sleep"
  /\ parent' = "loop"
  /\ UNCHANGED <<daemon, stop, told, worker, status, workerStop, crashes>>

\* signal_handler in the process the signal is sent to.
Signal ==
  /\ Alive /\ (stop => Repeated)
  /\ stop' = TRUE
  /\ parent' = IF parent = "blocked" THEN "interrupted" ELSE parent
  /\ workerStop' = IF daemon THEN workerStop ELSE TRUE
  /\ UNCHANGED <<daemon, told, worker, status, crashes>>

-----------------------------------------------------------------------------
Ends(how) ==
  /\ worker' = "zombie" /\ status' = how
  /\ parent' = IF daemon THEN parent ELSE IF how = "ok" THEN "done" ELSE "failed"
  /\ UNCHANGED <<daemon, stop, told, workerStop>>

\* build and start of the redirect server and of the server.
WorkerStarts ==
  /\ worker = "starting" /\ Alive
  /\ worker' = "serving"
  /\ UNCHANGED <<daemon, parent, stop, told, status, workerStop, crashes>>

\* A server does not start, an exception leaves run_server, or a crash.
WorkerFails ==
  /\ worker \in {"starting", "serving", "stopping"} /\ crashes < MaxCrashes
  /\ crashes' = crashes + 1
  /\ Ends("bad")

\* should_stop is looked at every second.
SeesStop ==
  /\ worker = "serving" /\ workerStop
  /\ worker' = "stopping"
  /\ UNCHANGED <<daemon, parent, stop, told, status, workerStop, crashes>>

WorkerStops ==
  /\ worker = "stopping"
  /\ Ends("ok")
  /\ UNCHANGED crashes

Parent == LoopTop \/ Fork \/ EnterWait \/ Reap \/ Interrupted \/ Sleep
Worker == WorkerStarts \/ SeesStop \/ WorkerStops

Next == Parent \/ Worker \/ ForkFails \/ WorkerFails \/ Signal

Spec == Init /\ [][Next]_vars

(* Both processes run when they can; where Repeated, whoever wants the     *)
(* daemon to end sends the signal until it does.                           *)
FairSpec ==
  /\ Spec /\ WF_vars(Parent) /\ WF_vars(Worker)
  /\ Repeated => WF_vars(stop /\ Signal)

-----------------------------------------------------------------------------
(* Told to stop, daemon and worker end: a worker that runs gets the signal *)
(* passed on, a worker about to be forked inherits the flag, and none is   *)
(* started after that.                                                     *)
DaemonStops == stop ~> ~Alive /\ (worker \in {"none", "zombie"} \/ parent = "failed")

(* A worker that crashed is replaced unless the daemon is told to stop.    *)
WorkerReplaced == parent = "sleep" ~> stop \/ worker = "serving" \/ parent = "failed"
=============================================================================
