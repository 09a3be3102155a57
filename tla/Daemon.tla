------------------------------- MODULE Daemon -------------------------------
(***************************************************************************)
(* The server as the terminal sees it: launches, workers, --stop and       *)
(* --status around one pid file (src/src/daemon.rs; the meta file is       *)
(* written and removed with it).  A launch spawns one worker and waits for *)
(* it; a worker lists itself in the file when its start-up is over; every  *)
(* command reads the file, asks whether the process is alive, and acts on  *)
(* the answer later.                                                       *)
(***************************************************************************)
EXTENDS Naturals, FiniteSets

CONSTANTS
  Launches,  \* launch commands; each one spawns a worker of the same name
  None,      \* no pid
  MaxStops,  \* bound of the model on --stop commands
  OneByOne   \* a user waits for a command before the next one

DaemonAssumption ==
  /\ IsFiniteSet(Launches) /\ None \notin Launches /\ MaxStops \in Nat
  /\ OneByOne \in BOOLEAN

VARIABLES
  file,      \* the pid file
  worker,    \* stage of each worker
  launch,    \* stage of each launch
  stop,      \* the --stop command: [phase, pid]
  status,    \* the --status command: "idle", or "stale" before it cleans up
  stops,     \* how many --stop commands there were
  termed,    \* workers that got SIGTERM
  told,      \* history: what the last --status said was true
  late       \* history: workers that ran, unlisted, when their launch gave up

vars == <<file, worker, launch, stop, status, stops, termed, told, late>>

DaemonInit ==
  /\ file = None
  /\ worker = [w \in Launches |-> "none"]
  /\ launch = [l \in Launches |-> "new"]
  /\ stop = [phase |-> "idle", pid |-> None]
  /\ status = "idle" /\ stops = 0
  /\ termed = {}
  /\ told = TRUE /\ late = {}

-----------------------------------------------------------------------------
(* Processes                                                               *)

\* The trading loop runs, listed in the file or not.
Serving(w) == worker[w] \in {"listed", "unlisted"}
Running(w) == worker[w] \in {"starting", "clear"} \/ Serving(w)

\* kill -0 also succeeds on a child that exited and whose parent, the launch,
\* has not ended.
Alive(w) == Running(w) \/ (worker[w] = "exited" /\ launch[w] = "waiting")

NoServer  == FALSE   \* faulty variant of FileAlive
FileAlive == file # None /\ Alive(file)

-----------------------------------------------------------------------------
(* A launch: launch_background_server                                      *)

UnderWay(l) == launch[l] \in {"stale", "checked", "waiting"}
Busy == stop.phase # "idle" \/ status # "idle" \/ \E l \in Launches : UnderWay(l)

\* It refuses when the file names a process that is alive, or finds a stale file ...
BeginLaunch(l) ==
  /\ launch[l] = "new"
  /\ OneByOne => ~Busy
  /\ launch' = [launch EXCEPT ![l] =
                  IF FileAlive THEN "refused" ELSE IF file = None THEN "checked" ELSE "stale"]
  /\ UNCHANGED <<file, worker, stop, status, stops, termed, told, late>>

\* ... and removes it, whoever is listed by now.
LaunchCleans(l) ==
  /\ launch[l] = "stale"
  /\ launch' = [launch EXCEPT ![l] = "checked"]
  /\ file' = None
  /\ UNCHANGED <<worker, stop, status, stops, termed, told, late>>

Spawn(l) ==
  /\ launch[l] = "checked"
  /\ launch' = [launch EXCEPT ![l] = "waiting"]
  /\ worker' = [worker EXCEPT ![l] = "starting"]
  /\ UNCHANGED <<file, stop, status, stops, termed, told, late>>

\* A poll ends the launch when the worker is dead, or listed while a dashboard
\* answers.  After 180 polls, 90 s, it gives up ("may still be starting").
LaunchReturns(l) ==
  /\ launch[l] = "waiting"
  /\ \/ /\ ~Alive(l) /\ launch' = [launch EXCEPT ![l] = "worker_exited"]
        /\ UNCHANGED late
     \/ /\ Alive(l) /\ file = l /\ \E w \in Launches : Serving(w)
        /\ launch' = [launch EXCEPT ![l] = "started"]
        /\ UNCHANGED late
     \/ /\ launch' = [launch EXCEPT ![l] = "timeout"]
        /\ late' = IF Running(l) /\ file # l THEN late \cup {l} ELSE late
  /\ UNCHANGED <<file, worker, stop, status, stops, termed, told>>

-----------------------------------------------------------------------------
(* A worker                                                                *)

\* write_server_files looks at the file first ...
ListedOther(w) == file # None /\ file # w /\ Alive(file)
CheckFile(w) ==
  /\ worker[w] = "starting"
  /\ worker' = [worker EXCEPT ![w] = IF ListedOther(w) THEN "unlisted" ELSE "clear"]
  /\ UNCHANGED <<file, launch, stop, status, stops, termed, told, late>>

\* ... and then writes it.  A refusal is only logged: the worker goes on.
WriteFile(w) ==
  /\ worker[w] = "clear"
  /\ file' = w
  /\ worker' = [worker EXCEPT ![w] = "listed"]
  /\ UNCHANGED <<launch, stop, status, stops, termed, told, late>>

\* The session is done: the files are removed, whoever is listed in them.
LeaveGracefully(w) ==
  /\ Serving(w) /\ w \in termed
  /\ file' = None
  /\ worker' = [worker EXCEPT ![w] = "exited"]
  /\ UNCHANGED <<launch, stop, status, stops, termed, told, late>>

\* A failed start-up exits before the file is written, a crash leaves it behind.
Crash(w) ==
  /\ Running(w)
  /\ worker' = [worker EXCEPT ![w] = "exited"]
  /\ UNCHANGED <<file, launch, stop, status, stops, termed, told, late>>

-----------------------------------------------------------------------------
(* --stop: stop_server                                                     *)

\* It reads the pid and finds a stale file, or sends SIGTERM (SIGKILL if forced).
BeginStop ==
  /\ stop.phase = "idle" /\ stops < MaxStops
  /\ OneByOne => ~Busy
  /\ file # None
  /\ stops' = stops + 1
  /\ \/ /\ ~FileAlive
        /\ stop' = [phase |-> "stale", pid |-> file]
        /\ UNCHANGED <<worker, termed>>
     \/ /\ FileAlive
        /\ stop' = [phase |-> "waiting", pid |-> file]
        /\ termed' = termed \cup {file}
        /\ UNCHANGED worker
     \/ /\ FileAlive
        /\ stop' = [phase |-> "killed", pid |-> file]
        /\ worker' = [worker EXCEPT ![file] = "exited"]
        /\ UNCHANGED termed
  /\ UNCHANGED <<file, launch, status, told, late>>

\* The grace of 25 s is over.
StopKills ==
  /\ stop.phase = "waiting" /\ Alive(stop.pid)
  /\ worker' = [worker EXCEPT ![stop.pid] = "exited"]
  /\ stop' = [stop EXCEPT !.phase = "killed"]
  /\ UNCHANGED <<file, launch, status, stops, termed, told, late>>

StopIdle == [phase |-> "idle", pid |-> None]

\* The process went after the last poll: its kill fails, and the files are left.
KillFails ==
  /\ stop.phase = "waiting" /\ ~Alive(stop.pid)
  /\ stop' = StopIdle
  /\ UNCHANGED <<file, worker, launch, status, stops, termed, told, late>>

\* It removes the files of a process it found dead or killed, whoever is listed by now.
OnlyWhenDead == stop.phase = "waiting" /\ ~Alive(stop.pid)      \* faulty variant of StopOver
StopOver     == stop.phase \in {"stale", "killed"} \/ OnlyWhenDead
StopCleans ==
  /\ StopOver
  /\ file' = None
  /\ stop' = StopIdle
  /\ UNCHANGED <<worker, launch, status, stops, termed, told, late>>

\* --status: print_server_status.
BeginStatus ==
  /\ status = "idle"
  /\ OneByOne => ~Busy
  /\ told' = (FileAlive \/ \A w \in Launches : ~Serving(w))
  /\ status' = IF file # None /\ ~FileAlive THEN "stale" ELSE "idle"
  /\ UNCHANGED <<file, worker, launch, stop, stops, termed, late>>

StatusCleans ==
  /\ status = "stale"
  /\ file' = None
  /\ status' = "idle"
  /\ UNCHANGED <<worker, launch, stop, stops, termed, told, late>>

-----------------------------------------------------------------------------

LaunchGoesOn(l) == LaunchCleans(l) \/ Spawn(l) \/ LaunchReturns(l)
LaunchStep(l) == BeginLaunch(l) \/ LaunchGoesOn(l)
WorkerStep(w) == CheckFile(w) \/ WriteFile(w) \/ LeaveGracefully(w)
StopStep == StopKills \/ KillFails \/ StopCleans
DaemonNext ==
  \/ \E l \in Launches : LaunchStep(l) \/ WorkerStep(l) \/ Crash(l)
  \/ BeginStop \/ StopStep \/ BeginStatus \/ StatusCleans

\* Commands and workers go on; no crash and no command is ever bound to happen.
DaemonSpec ==
  /\ DaemonInit /\ [][DaemonNext]_vars
  /\ WF_vars(StopStep)
  /\ \A l \in Launches : WF_vars(LaunchGoesOn(l)) /\ WF_vars(WorkerStep(l))

-----------------------------------------------------------------------------
(* Properties                                                              *)

\* launch_background_server and write_server_files say "server already running":
\* two workers never run at the same time, whatever crashed before, but for those a
\* launch gave up on before they were listed: each of them makes one more at most.
RunningNow == {w \in Launches : Running(w)}
OneServer  == Cardinality(RunningNow) <= Cardinality(late) + 1

\* Between commands the file names every worker that runs, so that --stop and
\* --status find it: no exit or stale file of another one took it away.
ServerIsListed == ~Busy => \A w \in Launches : Running(w) => file = w

\* --status never says "not running" while a worker trades.
StatusTruthful == told

\* The worker the command under way is about; between commands, the one listed.
Minded(w) == IF Busy THEN UnderWay(w) \/ (stop.phase # "idle" /\ stop.pid = w) ELSE file = w

\* Those that run besides it.
Extras == {w \in Launches : Running(w) /\ ~Minded(w)}

\* One command at a time, about one worker.
InTurn ==
  /\ \A l, m \in Launches : UnderWay(l) /\ UnderWay(m) => l = m
  /\ \A l \in Launches : UnderWay(l) => stop.phase = "idle" /\ status = "idle"
  /\ \A l \in Launches : launch[l] \in {"new", "refused", "stale", "checked"} => worker[l] = "none"
  /\ \A l \in Launches : file = l => worker[l] \notin {"none", "starting", "clear"}
  /\ stop.phase # "idle" => stop.pid \in Launches /\ status = "idle"
  /\ stop.phase \in {"stale", "killed"} => ~Running(stop.pid)
  /\ \A l \in late : launch[l] = "timeout"

\* As long as no launch gave up on a worker, the one that starts has its launch beside
\* it and the file for itself until it is listed there.
NoneAside ==
  /\ \A w \in Launches : worker[w] \in {"starting", "clear"} => launch[w] = "waiting"
  /\ \A l \in Launches : UnderWay(l) /\ file # None => file = l \/ launch[l] = "stale"
  /\ \A w \in Launches : Serving(w) => worker[w] = "listed" /\ file = w

\* The range of every variable.
DaemonTypeOK ==
  /\ file \in Launches \cup {None}
  /\ worker \in [Launches -> {"none", "starting", "clear", "listed", "unlisted", "exited"}]
  /\ launch \in [Launches -> {"new", "refused", "stale", "checked", "waiting", "started",
                              "worker_exited", "timeout"}]
  /\ stop \in [phase : {"idle", "stale", "waiting", "killed"}, pid : Launches \cup {None}]
  /\ status \in {"idle", "stale"} /\ stops \in 0..MaxStops
  /\ termed \subseteq Launches /\ told \in BOOLEAN /\ late \subseteq Launches

\* The inductive invariant behind OneServer.
SerialInv ==
  /\ DaemonTypeOK /\ InTurn
  /\ Cardinality(Extras) <= Cardinality(late)
  /\ late = {} => NoneAside /\ StatusTruthful

\* Every --stop comes back, and its worker is gone then.
StopEnds == (stop.phase # "idle") ~> (stop.phase = "idle")

\* Every launch comes back, whether its worker starts, is refused the file or dies.
LaunchEnds == \A l \in Launches : UnderWay(l) ~> ~UnderWay(l)
=============================================================================
