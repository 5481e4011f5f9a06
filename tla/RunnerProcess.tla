--------------------------- MODULE RunnerProcess ----------------------------
(***************************************************************************)
(* The Runner as an operating-system process: the entry point of           *)
(* apps/trader/runner.py, the PID file of core/utils/runner_pid.py, and    *)
(* what the operating system does with a child that nobody has waited for. *)
(***************************************************************************)
EXTENDS Naturals

CONSTANTS
    Pids,    \* process identifiers, reused once they are free
    NoPid,   \* no PID file, or no Popen handle
    Modes    \* values of MODE: paper and live

ASSUME ProcessAssumption == NoPid \notin Pids

VARIABLES
    runner,    \* of each identifier: its state and settings.MODE
    pidFile,   \* the content of runtime/runner.pid
    env,       \* MODE as written in .env
    environ,   \* MODE in the API's os.environ, which its children inherit
    open,      \* the trades table has an open row
    children   \* the processes whose parent is the API that is running now

runnerVars == <<runner, pidFile, env, environ, open, children>>

\* Not started; started, still importing; PID file written; leaving
\* asyncio.run; dead but not waited for by its parent.
RunnerState == {"none", "booting", "up", "exiting", "zombie"}

NoRunner == [st |-> "none", mode |-> "unknown"]

RunnerTypeOK ==
    /\ runner \in [Pids -> [st: RunnerState, mode: Modes \cup {"unknown"}]]
    /\ pidFile \in Pids \cup {NoPid}
    /\ {env, environ} \subseteq Modes
    /\ open \in BOOLEAN
    /\ children \subseteq Pids

Living == {p \in Pids : runner[p].st \in {"booting", "up", "exiting"}}
Zombies == {p \in Pids : runner[p].st = "zombie"}
Starting == {p \in Pids : runner[p].st = "booting"}

\* The process ends: a child of the API stays behind until it is reaped.
Gone(p) ==
    runner' = [runner EXCEPT ![p] =
                 IF p \in children THEN [NoRunner EXCEPT !.st = "zombie"]
                                   ELSE NoRunner]

\* The parent waits for the dead children in S.
Reaped(S) == [p \in Pids |-> IF p \in S \cap Zombies THEN NoRunner ELSE runner[p]]

-----------------------------------------------------------------------------
\* core.config.settings of a process that the API starts: load_dotenv does
\* not override a variable that is already in the environment.
Booting == [st |-> "booting", mode |-> environ]

\* write_runner_pid.
WritePid(p) ==
    /\ runner[p].st = "booting"
    /\ runner' = [runner EXCEPT ![p].st = "up"]
    /\ pidFile' = p
    /\ UNCHANGED <<env, environ, open, children>>

\* A Runner that trades opens a position, or closes the last one.
Trades(p) ==
    /\ runner[p].st = "up"
    /\ open' = ~open
    /\ UNCHANGED <<runner, pidFile, env, environ, children>>

\* main() returns or raises.
Ends(p) ==
    /\ runner[p].st = "up"
    /\ runner' = [runner EXCEPT ![p].st = "exiting"]
    /\ UNCHANGED <<pidFile, env, environ, open, children>>

\* atexit: clear_runner_pid removes whatever the file says by now.
Exits(p) ==
    /\ runner[p].st = "exiting"
    /\ Gone(p)
    /\ pidFile' = NoPid
    /\ UNCHANGED <<env, environ, open, children>>

\* Killed from outside or by a power cut: nothing is cleared.
Dies(p) ==
    /\ p \in Living
    /\ Gone(p)
    /\ UNCHANGED <<pidFile, env, environ, open, children>>

\* Somebody edits .env by hand.
EditEnv ==
    /\ env' \in Modes \ {env}
    /\ UNCHANGED <<runner, pidFile, environ, open, children>>

RunnerNext ==
    \E p \in Pids : \/ WritePid(p) \/ Trades(p) \/ Ends(p)
                    \/ Exits(p) \/ Dies(p)
=============================================================================
