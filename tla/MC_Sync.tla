------------------------------ MODULE MC_Sync ------------------------------
(***************************************************************************)
(* The primitives coroutines and threads wait on, model-checked together:  *)
(* zco's Mutex, WaitGroup and Channel and zlog's asynchronous looper.      *)
(* They share no state, so a behaviour exercises one of them, the subject, *)
(* and leaves the others as their constructors made them.                  *)
(***************************************************************************)
EXTENDS CoMutex, CoChannel, AsyncLooper

CONSTANTS
  \* WaitGroup
  GroupThreads, Workers, MaxWaits, MaxSignals, InitialCount, MaxCount, Surplus, LateAdds

VARIABLES
  subject,
  count, place, owed, surplus, manual_reset, done_signaled, listed, active, turn, waiter_pc,
  timed, waiter_state, timed_out, call, calls, backing, granted

gvars == <<count, place, owed, surplus, manual_reset, done_signaled, listed, active, turn,
           waiter_pc, timed, waiter_state, timed_out, call, calls, backing, granted>>
allvars == <<subject, vars, gvars, chvars, lvars>>

Group == INSTANCE WaitGroup WITH
           Threads <- GroupThreads, signaled <- done_signaled, waiters <- listed,
           pc <- waiter_pc, state <- waiter_state

ASSUME GroupAssumption == Group!ConstantsOK

\* The callers of the channel are numbers: the first reads and closes, the
\* others read and write their parity.
Parity == [x \in Callers |-> IF x = 1 THEN {} ELSE {x % 2}]

Start ==
  /\ subject \in {"mutex", "group", "channel", "looper"}
  /\ Init /\ Group!Init /\ ChInit /\ LooperInit
  /\ subject # "looper" => looper_type = "safe"

Step ==
  \/ subject = "mutex" /\ Next /\ UNCHANGED <<subject, gvars, chvars, lvars>>
  \/ subject = "group" /\ Group!Next /\ UNCHANGED <<subject, vars, chvars, lvars>>
  \/ subject = "channel" /\ ChNext /\ UNCHANGED <<subject, vars, gvars, lvars>>
  \/ subject = "looper" /\ LooperNext /\ UNCHANGED <<subject, vars, gvars, chvars>>

(* The fairness of each module, for the behaviours about its component.    *)
SyncSpec ==
  /\ Start /\ [][Step]_allvars
  /\ \A c \in Coroutines : /\ WF_vars(subject = "mutex" /\ CoPark(c))
                           /\ WF_vars(subject = "mutex" /\ CoResume(c))
  /\ \A x \in Clients : /\ WF_vars(subject = "mutex" /\ Unlock(x))
                        /\ WF_vars(subject = "mutex" /\ Finish(x))
  /\ \A t \in Threads : WF_vars(subject = "mutex" /\ ThreadLock(t) /\ pc[t] = "again")
  /\ \A w \in Workers : WF_gvars(subject = "group" /\ Group!Finish(w))
  /\ \A x \in Coroutines \cup GroupThreads :
        WF_gvars(subject = "group" /\ Group!WaitGoesOn(x))
  /\ \A x \in Callers : WF_chvars(subject = "channel" /\ Turn(x))
  /\ WF_lvars(subject = "looper" /\ Worker)
  /\ WF_lvars(subject = "looper" /\ TimeOut)
  /\ WF_lvars(subject = "looper" /\ Stop)
  /\ \A p \in Producers : SF_lvars(subject = "looper" /\ PushGoesOn(p))

-----------------------------------------------------------------------------
(* WaitGroup::wait returns, and would return at once, only at count zero.  *)
WaitReturnsAtZero == Group!WaitReturnsAtZero

(* Once the group stays empty every wait() on it returns.                  *)
EmptyGroupReleases == Group!EmptyGroupReleases
=============================================================================
