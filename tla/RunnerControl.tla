--------------------------- MODULE RunnerControl ----------------------------
(***************************************************************************)
(* The requests of apps/api/main.py that start and stop the Runner, start  *)
(* jobs and change the mode, beside Runners and job threads that live      *)
(* their own lives.  All handlers run on one event loop and only           *)
(* runner_start gives it back before it is done: while it waits for the    *)
(* balance report, other requests are served.                              *)
(***************************************************************************)
EXTENDS JobThreads

CONSTANT
    MaxStarts   \* bound: starts that wait for their balance report

ASSUME StartsAssumption == MaxStarts \in Nat

VARIABLES
    awaiting,   \* POST /runner/start handlers waiting for the report
    payload     \* what PUT /settings is about to save

vars == <<runner, pidFile, env, environ, open, children,
          loop, caller, target, handle, excuses,
          thread, activeThread, jobStatus, awaiting, payload>>

Init ==
    /\ runner = [p \in Pids |-> NoRunner]
    /\ pidFile = NoPid
    /\ env \in Modes /\ environ = env
    /\ open = FALSE
    /\ children = {}
    /\ loop = "free" /\ caller = "none" /\ target = NoPid /\ handle = NoPid
    /\ excuses = {}
    /\ thread = [t \in Threads |-> "none"]
    /\ activeThread = NoThread
    /\ jobStatus = "over"
    /\ awaiting = 0
    /\ payload = "none"

\* Something that an earlier request began has not shown its effect yet.
Unsettled ==
    \/ awaiting > 0
    \/ Starting # {}
    \/ \E t \in Threads : thread[t] = "started"

\* A request is taken up by the event loop.
Request ==
    /\ Free
    /\ excuses' = excuses \cup (IF Unsettled THEN {"overlap"} ELSE {})

-----------------------------------------------------------------------------
\* runner_start up to its await; a refused request changes nothing.
RunnerStart ==
    /\ Request
    /\ awaiting < MaxStarts
    /\ jobStatus # "running"
    /\ ~SeesAlive(pidFile)
    /\ awaiting' = awaiting + 1
    /\ UNCHANGED <<runnerVars, loop, caller, target, handle, jobVars, payload>>

\* runner_start from its await on: the balance is too low, or start_runner.
BalanceReported ==
    /\ Free /\ awaiting > 0
    /\ awaiting' = awaiting - 1
    /\ \/ UNCHANGED <<runner, handle, children>>
       \/ \E p \in Pids : Popen(p)
    /\ UNCHANGED <<pidFile, env, environ, open, loop, caller, target, excuses, jobVars,
                   payload>>

\* runner_stop: refused while the trades table has an open row.
RunnerStop ==
    /\ Request
    /\ ~open
    /\ loop' = "read" /\ caller' = "stop"
    /\ UNCHANGED <<runnerVars, target, handle, jobVars, awaiting, payload>>

\* update_settings up to runner_was_running: a mode is refused while the
\* trades table has an open row, symbols and an interval are not.
UpdateSettings ==
    /\ Request
    /\ payload' \in {"mode", "symbols"}
    /\ payload' = "mode" => ~open
    /\ loop' = IF SeesAlive(pidFile) THEN "save_running" ELSE "save"
    /\ UNCHANGED <<runnerVars, caller, target, handle, jobVars, awaiting>>

\* The file, and the environment of the API itself.
SetMode == \E mode \in Modes : env' = mode /\ environ' = mode

\* Mutant: a payload without a mode writes None into .env.
SaveSettingsRaw ==
    /\ loop \in {"save", "save_running"}
    /\ IF payload = "mode" THEN SetMode ELSE env' = "none" /\ UNCHANGED environ
    /\ loop' = IF loop = "save_running" THEN "recheck" ELSE "free"
    /\ payload' = "none"
    /\ UNCHANGED <<runner, pidFile, open, children,
                   caller, target, handle, excuses, jobVars, awaiting>>

\* Mutant: saving a mode does not restart the Runner.
SaveSettingsQuietly ==
    /\ loop \in {"save", "save_running"}
    /\ IF payload = "mode" THEN SetMode ELSE UNCHANGED <<env, environ>>
    /\ loop' = IF loop = "save_running" /\ payload = "symbols" THEN "recheck" ELSE "free"
    /\ payload' = "none"
    /\ UNCHANGED <<runner, pidFile, open, children,
                   caller, target, handle, excuses, jobVars, awaiting>>

\* settings_repository.update_settings: written, or refused as invalid.
SaveSettings ==
    /\ loop \in {"save", "save_running"}
    /\ payload' = "none"
    /\ \/ /\ IF payload = "mode" THEN SetMode ELSE UNCHANGED <<env, environ>>
          /\ loop' = IF loop = "save_running" THEN "recheck" ELSE "free"
       \/ UNCHANGED <<env, environ>> /\ loop' = "free"
    /\ UNCHANGED <<runner, pidFile, open, children,
                   caller, target, handle, excuses, jobVars, awaiting>>

\* update_settings after saving: restart_runner if it is still running.
RecheckRunner ==
    /\ loop = "recheck"
    /\ \/ SeesAlive(pidFile) /\ loop' = "read" /\ caller' = "restart"
       \/ ~SeesAlive(pidFile) /\ loop' = "free" /\ UNCHANGED caller
    /\ UNCHANGED <<runnerVars, target, handle, excuses, jobVars, awaiting, payload>>

\* The memory of a job whose thread is not alive is corrected.
JobForgotten == jobStatus = "running" /\ ~ThreadAlive(activeThread)

\* Mutant: a job is started without looking for a Runner.
StartJobBesideRunner ==
    /\ Request
    /\ jobStatus = "running" => JobForgotten
    /\ \E t \in Threads :
          /\ thread[t] = "none"
          /\ thread' = [thread EXCEPT ![t] = "started"]
          /\ activeThread' = t
    /\ jobStatus' = IF JobForgotten THEN "over" ELSE jobStatus
    /\ UNCHANGED <<runnerVars, loop, caller, target, handle, awaiting, payload>>

\* _start_job.
StartJob ==
    /\ Request
    /\ jobStatus = "running" => JobForgotten
    /\ jobStatus' = IF JobForgotten THEN "over" ELSE jobStatus
    /\ \/ SeesAlive(pidFile) /\ UNCHANGED <<thread, activeThread>>
       \/ /\ ~SeesAlive(pidFile)
          /\ \E t \in Threads :
                /\ thread[t] = "none"
                /\ thread' = [thread EXCEPT ![t] = "started"]
                /\ activeThread' = t
    /\ UNCHANGED <<runnerVars, loop, caller, target, handle, awaiting, payload>>

\* jobs_reset.
ResetJob ==
    /\ Request
    /\ JobForgotten
    /\ jobStatus' = "over"
    /\ UNCHANGED <<runnerVars, loop, caller, target, handle, thread, activeThread,
                   awaiting, payload>>

\* The API dies and is started again: its memory, its threads and its
\* handlers are gone, its children are adopted by another parent, and its
\* environment is what .env says now.
ApiDies ==
    /\ runner' = Reaped(Pids)
    /\ children' = {}
    /\ loop' = "free" /\ caller' = "none" /\ target' = NoPid /\ handle' = NoPid
    /\ thread' = [t \in Threads |->
                    CASE t \in JobsRunning -> "orphan"
                      [] thread[t] = "survivors" -> "survivors"
                      [] OTHER -> "none"]
    /\ activeThread' = NoThread
    /\ jobStatus' = "over"
    /\ awaiting' = 0
    /\ payload' = "none"
    /\ environ' = env
    /\ excuses' = excuses \cup {"api"}
    /\ UNCHANGED <<pidFile, env, open>>

EnvEdited ==
    /\ EditEnv
    /\ excuses' = excuses \cup {"edit"}
    /\ UNCHANGED <<loop, caller, target, handle, jobVars, awaiting, payload>>

HandlerNext ==
    \/ RunnerStart \/ BalanceReported \/ RunnerStop
    \/ UpdateSettings \/ SaveSettings \/ RecheckRunner
    \/ StartJob \/ ResetJob

Next ==
    \/ HandlerNext
    \/ ApiDies \/ EnvEdited
    \/ ManagerNext /\ UNCHANGED <<jobVars, awaiting, payload>>
    \/ RunnerNext /\ UNCHANGED <<managerVars, jobVars, awaiting, payload>>
    \/ ThreadNext /\ UNCHANGED <<awaiting, payload>>

Spec == Init /\ [][Next]_vars

TypeOK ==
    /\ RunnerTypeOK /\ ManagerTypeOK /\ JobTypeOK
    /\ awaiting \in 0..MaxStarts
    /\ payload \in {"none", "mode", "symbols"}

-----------------------------------------------------------------------------
(* What the checks of the API are worth.  "overlap" is in excuses once a   *)
(* request came while an earlier one was still taking effect, "api" once   *)
(* the API has died, "error" once it has answered that a Runner could not  *)
(* be stopped, "edit" once .env was edited by hand.                        *)

Excused(kinds) == excuses \cap kinds # {}

\* Two Runners never trade the same account (restart_runner calls it a much
\* worse failure than a restart that fails), unless requests overlap.
AtMostOneRunner ==
    ~Excused({"overlap"}) => \A p, q \in Living : p = q

\* A Runner that trades can be found and stopped: the PID file names it.
RunnerIsKnown ==
    ~Excused({"overlap"}) => \A p \in Living \ Starting : pidFile = p

\* A dead Runner is not taken for a living one: the PID file never names a
\* zombie that only the lost Popen handle could tell.
ZombieIsRecognized ==
    ~Excused({"overlap"}) /\ pidFile \in Zombies => handle = pidFile

\* Once a change of mode has been answered, the Runner trades in the mode
\* that .env says.
RunnerFollowsEnv ==
    Free /\ ~Excused(Excuse) => \A p \in Living \ Starting : runner[p].mode = env

\* A job and the bot never run at the same time, as the documentation has it
\* of the checks in _start_job and runner_start.  A job that is started while
\* runner_start awaits its balance report, or while the Runner has not written
\* its PID file, is past them; and no check sees the workers of a pool that
\* outlive the timeout of their job.
JobAndBotApart == JobsReplaying # {} => Living = {}

\* What the checks do hold: the subprocess that a job has started never runs
\* beside a Runner, unless requests overlap or the API dies.
JobAndBotApartIfCalm ==
    ~Excused({"overlap", "api"}) => (JobsRunning # {} => Living = {})

\* restart_runner never starts a Runner beside the one it was to replace:
\* whatever else goes wrong, that one is dead.
RestartReplaces ==
    [][loop = "terminated" \/ loop = "killed"
          => (loop' = "start" => target \notin Living)]_vars
=============================================================================
