--------------------------- MODULE ProcessManager ---------------------------
(***************************************************************************)
(* core/services/process_manager_service.py: stop_runner, start_runner and *)
(* restart_runner, as the API process runs them.  They are synchronous, so *)
(* they hold the event loop of the API from their first line to their last *)
(* while the Runners and the job threads go on.                            *)
(***************************************************************************)
EXTENDS RunnerProcess

VARIABLES
    loop,     \* what the event loop of the API is executing
    caller,   \* who called stop_runner
    target,   \* stop_runner's local variable pid
    handle,   \* _managed_process
    excuses   \* history: what has happened that a caller may blame

managerVars == <<loop, caller, target, handle, excuses>>

LoopStep == {"free", "save", "save_running", "recheck",
             "read", "terminated", "killed", "start"}

\* POST /runner/stop, or restart_runner.
Caller == {"none", "stop", "restart"}

Excuse == {"overlap", "api", "error", "edit"}

ManagerTypeOK ==
    /\ loop \in LoopStep
    /\ caller \in Caller
    /\ target \in Pids \cup {NoPid}
    /\ handle \in Pids \cup {NoPid}
    /\ excuses \subseteq Excuse

Free == loop = "free"

\* Mutant: only the Runner that this process has started counts.
SeesAliveByHandle(p) == p # NoPid /\ p = handle /\ p \in Living

\* _is_process_alive: poll() when this process holds the handle; otherwise
\* kill(pid, 0), which a zombie answers too.
SeesAlive(p) ==
    /\ p # NoPid
    /\ IF p = handle THEN p \in Living ELSE p \in Living \cup Zombies

\* _managed_process = None: Popen's destructor reaps a child that is dead.
DropHandle ==
    /\ handle' = NoPid
    /\ runner' = Reaped({handle})
    /\ children' = children \ (Zombies \cap {handle})

-----------------------------------------------------------------------------
\* Mutant: the handle is not kept.
PopenForgetting(p) ==
    /\ runner[p].st = "none"
    /\ runner' = [runner EXCEPT ![p] = Booting]
    /\ handle' = NoPid
    /\ children' = children \cup {p}

\* start_runner.  Popen first reaps the children whose handles were
\* dropped; replacing the handle reaps the last one if it is dead.
Popen(p) ==
    /\ runner[p].st = "none"
    /\ runner' = [Reaped(Pids) EXCEPT ![p] = Booting]
    /\ handle' = p
    /\ children' = (children \ Zombies) \cup {p}

\* stop_runner returns.
Return ==
    /\ target' = NoPid
    /\ caller' = "none"
    /\ loop' = IF caller = "restart" THEN "start" ELSE "free"

\* clear_runner_pid, _managed_process = None, return.
Stopped ==
    /\ pidFile' = NoPid
    /\ DropHandle
    /\ Return

\* SIGTERM.  Once the handler is installed the Runner cancels main() and
\* leaves in its own time; before that, or if it ends at once, it is gone.
Terminate(p) ==
    \/ runner[p].st = "up" /\ runner' = [runner EXCEPT ![p].st = "exiting"]
    \/ p \in Living /\ Gone(p)
    \/ runner[p].st \in {"exiting", "zombie"} /\ UNCHANGED runner

\* Mutant: the PID file is removed before the process has been stopped.
StopReadClearingFirst ==
    /\ loop = "read"
    /\ \/ /\ SeesAlive(pidFile)
          /\ Terminate(pidFile)
          /\ target' = pidFile
          /\ pidFile' = NoPid
          /\ loop' = "terminated"
          /\ UNCHANGED <<handle, children, caller>>
       \/ ~SeesAlive(pidFile) /\ Stopped
    /\ UNCHANGED <<env, environ, open, excuses>>

\* stop_runner up to _terminate_pid.
StopRead ==
    /\ loop = "read"
    /\ \/ /\ pidFile = NoPid
          /\ Return
          /\ UNCHANGED <<runner, pidFile, children, handle>>
       \/ pidFile # NoPid /\ ~SeesAlive(pidFile) /\ Stopped
       \/ /\ SeesAlive(pidFile)
          /\ Terminate(pidFile)
          /\ target' = pidFile
          /\ loop' = "terminated"
          /\ UNCHANGED <<pidFile, handle, children, caller>>
    /\ UNCHANGED <<env, environ, open, excuses>>

\* The first _wait_until: dead in time, or _force_kill_pid.  The system may
\* delay SIGKILL (uninterruptible sleep).
StopTerminated ==
    /\ loop = "terminated"
    /\ \/ ~SeesAlive(target) /\ Stopped
       \/ /\ SeesAlive(target)
          /\ loop' = "killed"
          /\ (target \in Living /\ Gone(target)) \/ UNCHANGED runner
          /\ UNCHANGED <<pidFile, children, target, handle, caller>>
    /\ UNCHANGED <<env, environ, open, excuses>>

\* The second _wait_until: dead, or ProcessManagerError.
StopKilled ==
    /\ loop = "killed"
    /\ \/ ~SeesAlive(target) /\ Stopped /\ UNCHANGED excuses
       \/ /\ SeesAlive(target)
          /\ loop' = "free" /\ target' = NoPid /\ caller' = "none"
          /\ excuses' = excuses \cup {"error"}
          /\ UNCHANGED <<runner, pidFile, children, handle>>
    /\ UNCHANGED <<env, environ, open>>

\* restart_runner, after the pause.
RestartStart ==
    /\ loop = "start"
    /\ loop' = "free"
    /\ \E p \in Pids : Popen(p)
    /\ UNCHANGED <<pidFile, env, environ, open, caller, target, excuses>>

ManagerNext == StopRead \/ StopTerminated \/ StopKilled \/ RestartStart
=============================================================================
