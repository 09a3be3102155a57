------------------------------ MODULE MCServer -------------------------------
(***************************************************************************)
(* What must not get stuck around the server process, on small instances:  *)
(* the end of a session (Shutdown), and launches, workers and commands     *)
(* around the pid file (Daemon), once with a user who waits for each       *)
(* command and once with commands that overlap.  The first state picks one *)
(* of the three, and the variables of the other module stay Off.           *)
(***************************************************************************)
EXTENDS Integers

CONSTANTS
  Workers, NoPid, MaxStops,                            \* Daemon
  Racers,                                              \* those that overlap
  ForceAfter, Grace, HandlerMax, AlwaysLive, MaxQueue  \* Shutdown

VARIABLES
  part,
  proc, window, queue, listening, mail, pending, since, \* Shutdown
  handler, stop, held,
  file, worker, launch, command, status, stops, termed, told, late \* Daemon

Off == "off"
shutdownVars == <<proc, window, queue, listening, mail, pending, since,
                  handler, stop, held>>
daemonVars   == <<file, worker, launch, command, status, stops, termed, told, late>>
vars == <<part, shutdownVars, daemonVars>>

End == INSTANCE Shutdown
Serial == INSTANCE Daemon WITH
  Launches <- Workers, None <- NoPid, OneByOne <- TRUE, stop <- command
Race == INSTANCE Daemon WITH
  Launches <- Racers, None <- NoPid, OneByOne <- FALSE, stop <- command

ASSUME InstancesSound ==
  End!ShutdownAssumption /\ Serial!DaemonAssumption /\ Race!DaemonAssumption

ShutdownOff == /\ proc = Off /\ window = Off /\ queue = Off
               /\ listening = Off /\ mail = Off /\ pending = Off
               /\ since = Off /\ handler = Off /\ stop = Off /\ held = Off
DaemonOff   == /\ file = Off /\ worker = Off /\ launch = Off /\ command = Off
               /\ stops = Off /\ termed = Off /\ told = Off /\ status = Off /\ late = Off

Init ==
  \/ part = "end"    /\ End!ShutdownInit   /\ DaemonOff
  \/ part = "serial" /\ Serial!DaemonInit  /\ ShutdownOff
  \/ part = "race"   /\ Race!DaemonInit    /\ ShutdownOff

Next ==
  \/ part = "end"    /\ End!ShutdownNext  /\ UNCHANGED <<part, daemonVars>>
  \/ part = "serial" /\ Serial!DaemonNext /\ UNCHANGED <<part, shutdownVars>>
  \/ part = "race"   /\ Race!DaemonNext   /\ UNCHANGED <<part, shutdownVars>>

\* The fairness of each module, for the part it belongs to.
ShutdownFairness ==
  /\ WF_shutdownVars(part = "end" /\ End!LoopExits)
  /\ SF_shutdownVars(part = "end" /\ End!TakeSignal)
  /\ WF_shutdownVars(part = "end" /\ End!SecondPasses)
  /\ WF_shutdownVars(part = "end" /\ End!StopSeesExit)
  /\ WF_shutdownVars(part = "end" /\ End!StopKills)
DaemonFairness ==
  /\ WF_daemonVars(part = "serial" /\ Serial!StopStep)
  /\ WF_daemonVars(part = "race" /\ Race!StopStep)
  /\ \A l \in Workers :
       /\ WF_daemonVars(part = "serial" /\ Serial!LaunchGoesOn(l))
       /\ WF_daemonVars(part = "serial" /\ Serial!WorkerStep(l))
  /\ \A l \in Racers :
       /\ WF_daemonVars(part = "race" /\ Race!LaunchGoesOn(l))
       /\ WF_daemonVars(part = "race" /\ Race!WorkerStep(l))

Spec == Init /\ [][Next]_vars /\ ShutdownFairness /\ DaemonFairness

-----------------------------------------------------------------------------
(* Properties: those of the modules, where they are stated                 *)

\* A session that was asked to end does end (the loop head's exit and timeout).
ShutdownEnds == (part = "end" /\ pending) ~> (proc # "running")

\* Every --stop comes back, in the daemon and in front of a worker that shuts down,
\* and so does every launch, however commands and crashes overlap.
Commands == part \in {"serial", "race"}
CommandsEnd ==
  /\ (Commands /\ command.phase # "idle") ~> (Commands => command.phase = "idle")
  /\ (part = "end" /\ stop.phase = "waiting")
       ~> (part = "end" => stop.phase \in {"stopped", "killed"})
  /\ \A l \in Workers :
       (part = "serial" /\ Serial!UnderWay(l)) ~> (part = "serial" => ~Serial!UnderWay(l))
  /\ \A l \in Racers :
       (part = "race" /\ Race!UnderWay(l)) ~> (part = "race" => ~Race!UnderWay(l))

\* Of a user's commands one after the other, whatever crashed before: one server at
\* most, and one more for each launch that gave up on a worker that still started; as
\* long as none did, the pid file names the server and --status finds it (daemon.rs).
OneServer ==
  part = "serial" => /\ Serial!OneServer /\ Serial!SerialInv
                     /\ late = {} => Serial!ServerIsListed /\ Serial!StatusTruthful

\* --stop kills only a worker whose handlers took the seconds that its wait is longer
\* than the worker's own timeout (stop_server, the loop head).
KilledOnlyWhenHeld ==
  part = "end" => End!ShutdownInv /\ End!KilledOnlyWhenHeld
=============================================================================
