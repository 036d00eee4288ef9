------------------------------ MODULE CvdLoad ------------------------------
(***************************************************************************)
(* cvd load and the cvd start it runs (cli/commands/load_configs.cpp and   *)
(* start.cpp), interrupted by a signal.  Two threads of one process:       *)
(*   main    the command handlers: create the group, prepare it, launch    *)
(*           it with cvd_internal_start and wait for that (SubprocessWaiter)*)
(*   runner  the interrupt listener's background thread, which runs the    *)
(*           listener on top of the stack and ends the process             *)
(* and, for a cvd start in the foreground, the thread that shows the logs. *)
(* The listener of cvd start works on the same group object as main.       *)
(***************************************************************************)
EXTENDS InstanceDatabase

CONSTANT MaxSignals     \* bound: signals sent to one command

ASSUME SignalsAssumption == MaxSignals \in Nat

VARIABLES cmd,          \* the command: "load", or "start" of an existing group,
                        \* in the "foreground", or of a "single" instance of it
          main, runner, \* where the two threads are
          listeners,    \* the interrupt listener stack
          signals,      \* how many interrupt signals were received
          pending,      \* whether one of them waits for the runner
          db,           \* state of the group in the database
          loadGroup,    \* state in the group object of cvd load
          startGroup,   \* state in the group object of cvd start
          launcher,     \* cvd_internal_start
          device,       \* whether run_cvd runs
          subprocess,   \* SubprocessWaiter: whether subprocess_ has a value
          interrupted,  \* SubprocessWaiter: interrupted_
          viewer,       \* the thread in MonitorLogs
          stopEvent,    \* whether stop_eventfd was written
          others,       \* whether the group's other instances run ("single")
          failedIn      \* history: the phase that failed

received == <<signals, pending>>
waiter == <<launcher, device, subprocess, interrupted>>
groups == <<loadGroup, startGroup>>
front == <<viewer, stopEvent>>
vars == <<cmd, main, runner, listeners, received, db, groups, waiter, front, others, failedIn>>

None == "NONE"     \* the group does not exist yet

TypeOK ==
    /\ cmd \in {"load", "start", "foreground", "single"}
    /\ main \in {"create", "parse", "prepare", "save_prepare_failed", "save_stopped",
                 "select", "start", "save_starting", "view", "setup", "wait", "waiting", "reap",
                 "cleanup", "failed", "save_failed", "running", "save_running",
                 "unlisten", "listen", "end_view", "join", "pop", "stop", "save_stop",
                 "load_failed", "save_load_failed", "loaded", "ended"}
    /\ runner \in {"idle", "find", "save_cancelled", "interrupt", "cancel", "save_group", "abort", "end_view", "ended"}
    /\ listeners \in {<<>>, <<"load">>, <<"start">>, <<"load", "start">>, <<"stop">>}
    /\ {db, loadGroup, startGroup} \subseteq InstanceState \cup {None}
    /\ launcher \in {"none", "runs", "exited_ok", "exited_bad", "reaped_ok", "reaped_bad"}
    /\ {device, others} \subseteq {"on", "off"}
    /\ viewer \in {"none", "runs", "ended"}
    /\ signals \in 0..MaxSignals
    /\ {pending, subprocess, interrupted, stopEvent} \subseteq BOOLEAN
    /\ failedIn \in {"none", "parse", "prepare", "start", "logs", "stop", "status", "killed"}
    /\ subprocess => launcher # "none"
    /\ main = "ended" /\ runner = "idle" => listeners = <<>>

Init ==
    /\ \/ cmd = "load" /\ main = "create" /\ listeners = <<"load">> /\ db = None
       \/ /\ cmd \in {"start", "foreground", "single"}
          /\ main = "select" /\ listeners = <<>> /\ db = "STOPPED"
    /\ runner = "idle" /\ signals = 0 /\ pending = FALSE
    /\ loadGroup = None /\ startGroup = None
    /\ launcher = "none" /\ device = "off"
    /\ subprocess = FALSE /\ interrupted = FALSE
    /\ viewer = "none" /\ stopEvent = FALSE
    /\ others = "on" /\ failedIn = "none"

(* A listener is popped once none is running; before the last one goes,    *)
(* the runner is joined, which delivers what was received.                 *)
CanPop == runner = "idle" /\ (Len(listeners) = 1 => ~pending)

-----------------------------------------------------------------------------
(* cvd load *)

(* group_creation_mtx keeps the listener out while the group is created,   *)
(* and a listener that has it aborts without giving it back.               *)
CreateGroupUnlocked ==
    /\ main = "create"
    /\ db' = "PREPARING" /\ loadGroup' = "PREPARING"
    /\ main' = "parse"
    /\ UNCHANGED <<cmd, runner, listeners, received, startGroup, waiter, front, others, failedIn>>

CreateGroup ==
    /\ main = "create" /\ runner \in {"idle", "find"}
    /\ \/ /\ db' = "PREPARING" /\ loadGroup' = "PREPARING"
          /\ main' = "parse"
       \/ main' = "loaded" /\ UNCHANGED <<db, loadGroup>>
    /\ UNCHANGED <<cmd, runner, listeners, received, startGroup, waiter, front, others, failedIn>>

(* ParseCvdConfigs may fail, which ends the command at once.               *)
ParseCvdConfigs ==
    /\ main = "parse"
    /\ \/ main' = "prepare" /\ UNCHANGED failedIn
       \/ main' = "loaded" /\ failedIn' = "parse"
    /\ UNCHANGED <<cmd, runner, listeners, received, db, groups, waiter, front, others>>

(* LoadGroup: make the directory and fetch the artifacts.  Building the    *)
(* fetch command may fail as well, which records nothing here.             *)
Prepare ==
    /\ main = "prepare"
    /\ \/ loadGroup' = "STOPPED" /\ main' = "save_stopped" /\ UNCHANGED failedIn
       \/ loadGroup' = "PREPARE_FAILED" /\ main' = "save_prepare_failed" /\ failedIn' = "prepare"
       \/ UNCHANGED loadGroup /\ main' = "load_failed" /\ failedIn' = "prepare"
    /\ UNCHANGED <<cmd, runner, listeners, received, db, startGroup, waiter, front, others>>

SavePrepared ==
    /\ main \in {"save_prepare_failed", "save_stopped"}
    /\ db' = loadGroup
    /\ main' = IF main = "save_stopped" THEN "select" ELSE "load_failed"
    /\ UNCHANGED <<cmd, runner, listeners, received, groups, waiter, front, others, failedIn>>

(* LoadGroup failed: Handle tells a failed preparation from a failed boot. *)
LoadFailed ==
    /\ main = "load_failed"
    /\ loadGroup' = IF loadGroup = "PREPARING" THEN "PREPARE_FAILED" ELSE "BOOT_FAILED"
    /\ main' = "save_load_failed"
    /\ UNCHANGED <<cmd, runner, listeners, received, db, startGroup, waiter, front, others, failedIn>>

SaveLoadFailed ==
    /\ main = "save_load_failed"
    /\ db' = loadGroup
    /\ main' = "loaded"
    /\ UNCHANGED <<cmd, runner, listeners, received, groups, waiter, front, others, failedIn>>

(* The listener is popped, which waits for one that is running.            *)
LoadReturns ==
    /\ main = "loaded" /\ CanPop
    /\ listeners' = <<>>
    /\ main' = "ended"
    /\ UNCHANGED <<cmd, runner, received, db, groups, waiter, front, others, failedIn>>

-----------------------------------------------------------------------------
(* cvd start *)

(* The group is selected and the command prepared, which fails for an      *)
(* active group and may fail otherwise; pushing the listener waits for one *)
(* that is running.                                                        *)
SelectGroup ==
    /\ main = "select"
    /\ startGroup' = db
    /\ \/ /\ main' = IF cmd = "load" THEN "load_failed" ELSE "ended"
          /\ failedIn' = "start"
          /\ UNCHANGED listeners
       \/ /\ db \notin ActiveState /\ runner = "idle"
          /\ cmd # "single"
          /\ main' = "start"
          /\ listeners' = Append(listeners, "start")
          /\ UNCHANGED failedIn
    /\ UNCHANGED <<cmd, runner, received, db, loadGroup, waiter, front, others>>

(* The instance is stopped and the first one of its group runs.            *)
CanBypassToSingleInstance == cmd = "single" /\ db = "STOPPED" /\ others = "on"

(* That instance is started alone, and without a listener.                 *)
LaunchSingleInstance ==
    /\ main = "select" /\ CanBypassToSingleInstance
    /\ startGroup' = db
    /\ main' = "start"
    /\ UNCHANGED <<cmd, runner, listeners, received, db, loadGroup, waiter, front, others, failedIn>>

SetStarting ==
    /\ main = "start"
    /\ startGroup' = "STARTING"
    /\ main' = "save_starting"
    /\ UNCHANGED <<cmd, runner, listeners, received, db, loadGroup, waiter, front, others, failedIn>>

SaveStarting ==
    /\ main = "save_starting"
    /\ db' = startGroup
    /\ main' = IF cmd = "foreground" THEN "view" ELSE "setup"
    /\ UNCHANGED <<cmd, runner, listeners, received, groups, waiter, front, others, failedIn>>

(* The old logs are removed, which fails when they cannot be listed, and   *)
(* the viewer thread started.                                              *)
StartViewer ==
    /\ main = "view"
    /\ \/ viewer' = "runs" /\ main' = "setup" /\ UNCHANGED failedIn
       \/ failedIn' = "logs" /\ main' = "pop" /\ UNCHANGED viewer
    /\ UNCHANGED <<cmd, runner, listeners, received, db, groups, waiter, stopEvent, others>>

(* SubprocessWaiter::Setup.  interruptible_ is held inside one step only,  *)
(* here and below.                                                         *)
Setup ==
    /\ main = "setup"
    /\ \/ interrupted /\ main' = "failed" /\ failedIn' = "start" /\ UNCHANGED <<launcher, subprocess>>
       \/ /\ ~interrupted
          /\ launcher' = "runs" /\ subprocess' = TRUE
          /\ main' = "wait"
          /\ UNCHANGED failedIn
    /\ UNCHANGED <<cmd, runner, listeners, received, db, groups, device, interrupted, front, others>>

(* SubprocessWaiter::Wait, in three steps: look, wait without the lock and *)
(* without reaping, reap with the lock.                                    *)
WaitBegins ==
    /\ main = "wait"
    /\ IF interrupted THEN main' = "failed" /\ failedIn' = "start"
                      ELSE main' = "waiting" /\ UNCHANGED failedIn
    /\ UNCHANGED <<cmd, runner, listeners, received, db, groups, waiter, front, others>>

Reaped == IF launcher = "exited_ok" THEN "reaped_ok" ELSE "reaped_bad"

WaitNoWaitReaping ==
    /\ main = "waiting" /\ launcher \in {"exited_ok", "exited_bad"}
    /\ launcher' = Reaped
    /\ main' = "reap"
    /\ UNCHANGED <<cmd, runner, listeners, received, db, groups, device, subprocess, interrupted, front, others, failedIn>>

WaitNoWait ==
    /\ main = "waiting" /\ launcher \in {"exited_ok", "exited_bad"}
    /\ main' = "reap"
    /\ UNCHANGED <<cmd, runner, listeners, received, db, groups, waiter, front, others, failedIn>>

WaitReapUnchecked ==
    /\ main = "reap"
    /\ launcher' = Reaped
    /\ subprocess' = FALSE
    /\ main' = "running"
    /\ UNCHANGED <<cmd, runner, listeners, received, db, groups, device, interrupted, front, others, failedIn>>

WaitReap ==
    /\ main = "reap"
    /\ launcher' = Reaped
    /\ subprocess' = FALSE
    /\ main' = IF launcher = "exited_ok" THEN "running" ELSE "cleanup"
    /\ UNCHANGED <<cmd, runner, listeners, received, db, groups, device, interrupted, front, others, failedIn>>

(* CvdResetGroup kills the run_cvd processes that a failed launch left,    *)
(* and all others of the group.                                            *)
Cleanup ==
    /\ main = "cleanup"
    /\ device' \in {device, "off"} /\ others' \in {others, IF cmd = "single" THEN "off" ELSE others}
    /\ main' = "failed" /\ failedIn' = "start"
    /\ UNCHANGED <<cmd, runner, listeners, received, db, groups, launcher, subprocess, interrupted, front>>

SetFinalState ==
    /\ \/ main = "running" /\ startGroup' = "RUNNING" /\ main' = "save_running"
       \/ main = "failed" /\ startGroup' = "BOOT_FAILED" /\ main' = "save_failed"
    /\ UNCHANGED <<cmd, runner, listeners, received, db, loadGroup, waiter, front, others, failedIn>>

SaveFinalState ==
    /\ main \in {"save_running", "save_failed"}
    /\ db' = startGroup
    /\ main' = IF cmd # "foreground" THEN "pop"
               ELSE IF main = "save_running" THEN "unlisten" ELSE "end_view"
    /\ UNCHANGED <<cmd, runner, listeners, received, groups, waiter, front, others, failedIn>>

(* In the foreground, a device that runs is left to the viewer: from now   *)
(* on an interrupt ends the viewer, and the device is stopped after that.  *)
PopStartListener ==
    /\ main = "unlisten" /\ CanPop
    /\ listeners' = <<>>
    /\ main' = "listen"
    /\ UNCHANGED <<cmd, runner, received, db, groups, waiter, front, others, failedIn>>

PushStopListener ==
    /\ main = "listen"
    /\ listeners' = <<"stop">>
    /\ main' = "join"
    /\ UNCHANGED <<cmd, runner, received, db, groups, waiter, front, others, failedIn>>

(* A device that failed to launch ends the viewer.                         *)
EndViewer ==
    /\ main = "end_view"
    /\ stopEvent' = TRUE
    /\ main' = "join"
    /\ UNCHANGED <<cmd, runner, listeners, received, db, groups, waiter, viewer, others, failedIn>>

JoinViewer ==
    /\ main = "join" /\ viewer = "ended"
    /\ main' = "pop"
    /\ UNCHANGED <<cmd, runner, listeners, received, db, groups, waiter, front, others, failedIn>>

(* What a device that runs says of itself is printed at last, if it says   *)
(* anything: FetchStatus may fail.                                         *)
StartReturns ==
    /\ main = "pop" /\ CanPop
    /\ listeners' = IF cmd = "load" THEN <<"load">> ELSE <<>>
    /\ \/ UNCHANGED failedIn
       \/ failedIn = "none" /\ cmd # "foreground" /\ failedIn' = "status"
    /\ main' = IF cmd = "load" THEN IF failedIn' = "none" THEN "loaded" ELSE "load_failed"
               ELSE IF cmd = "foreground" /\ failedIn = "none" THEN "stop"
               ELSE "ended"
    /\ UNCHANGED <<cmd, runner, received, db, groups, waiter, front, others>>

(* InstanceManager::StopInstanceGroup: stop_cvd, then the database.        *)
StopInstanceGroup ==
    /\ main = "stop"
    /\ \/ /\ device' = "off" /\ startGroup' = "STOPPED"
          /\ main' = "save_stop" /\ UNCHANGED failedIn
       \/ /\ device' \in {"on", "off"} /\ UNCHANGED startGroup
          /\ main' = "ended" /\ failedIn' = "stop"
    /\ UNCHANGED <<cmd, runner, listeners, received, db, loadGroup, launcher, subprocess,
                   interrupted, front, others>>

SaveStopped ==
    /\ main = "save_stop"
    /\ db' = startGroup
    /\ main' = "ended"
    /\ UNCHANGED <<cmd, runner, listeners, received, groups, waiter, front, others, failedIn>>

(* MonitorLogs ends when it is told to, and when there is no terminal or   *)
(* an error.                                                               *)
ViewerStops ==
    /\ viewer = "runs" /\ stopEvent /\ main # "ended"
    /\ viewer' = "ended" /\ stopEvent' = FALSE
    /\ UNCHANGED <<cmd, main, runner, listeners, received, db, groups, waiter, others, failedIn>>

ViewerFails ==
    /\ viewer = "runs" /\ main # "ended"
    /\ viewer' = "ended"
    /\ UNCHANGED <<cmd, main, runner, listeners, received, db, groups, waiter, stopEvent, others, failedIn>>

-----------------------------------------------------------------------------
(* The launcher either boots the device or fails, with run_cvd processes   *)
(* perhaps left behind; it may also never end.                             *)
LauncherExits ==
    /\ launcher = "runs"
    /\ \/ launcher' = "exited_ok" /\ device' = "on"
       \/ launcher' = "exited_bad" /\ device' \in {"on", "off"}
    /\ UNCHANGED <<cmd, main, runner, listeners, received, db, groups, subprocess, interrupted, front, others, failedIn>>

(* A signal arrives, and the runner thread calls the listener on top.      *)
Signal ==
    /\ listeners # <<>> /\ runner = "idle" /\ ~pending /\ main # "ended"
    /\ signals < MaxSignals
    /\ signals' = signals + 1 /\ pending' = TRUE
    /\ UNCHANGED <<cmd, main, runner, listeners, db, groups, waiter, front, others, failedIn>>

Top == listeners[Len(listeners)]

CallListener ==
    /\ runner = "idle" /\ pending /\ listeners # <<>>
    /\ runner' = [load |-> "find", start |-> "interrupt", stop |-> "end_view"][Top]
    /\ pending' = FALSE
    /\ UNCHANGED <<cmd, main, listeners, signals, db, groups, waiter, front, others, failedIn>>

(* Without a listener signals have their default action.                   *)
Killed ==
    /\ listeners = <<>> /\ main # "ended"
    /\ signals < MaxSignals
    /\ signals' = signals + 1
    /\ main' = "ended" /\ failedIn' = "killed"
    /\ UNCHANGED <<cmd, runner, listeners, pending, db, groups, waiter, front, others>>

(* The listener of cvd load.                                               *)
ListenerFindsGroup ==
    /\ runner = "find"
    /\ runner' = IF db = None THEN "abort" ELSE "save_cancelled"
    /\ UNCHANGED <<cmd, main, listeners, received, db, groups, waiter, front, others, failedIn>>

ListenerSavesCancelled ==
    /\ runner = "save_cancelled"
    /\ db' = "CANCELLED"
    /\ runner' = "abort"
    /\ UNCHANGED <<cmd, main, listeners, received, groups, waiter, front, others, failedIn>>

(* The listener of cvd start: the viewer, SubprocessWaiter::Interrupt, ... *)
Interrupt ==
    /\ runner = "interrupt"
    /\ IF subprocess
       THEN /\ IF launcher = "runs"
               THEN launcher' = "exited_bad" /\ device' \in {"on", "off"}
               ELSE UNCHANGED <<launcher, device>>
            /\ UNCHANGED interrupted
       ELSE interrupted' = TRUE /\ UNCHANGED <<launcher, device>>
    /\ stopEvent' = (cmd = "foreground")
    /\ runner' = "cancel"
    /\ UNCHANGED <<cmd, main, listeners, received, db, groups, subprocess, viewer, others, failedIn>>

(* ... then the group object it shares with main, and the database.        *)
ListenerCancels ==
    /\ runner = "cancel"
    /\ startGroup' = "CANCELLED"
    /\ runner' = "save_group"
    /\ UNCHANGED <<cmd, main, listeners, received, db, loadGroup, waiter, front, others, failedIn>>

ListenerSavesGroup ==
    /\ runner = "save_group"
    /\ db' = startGroup
    /\ runner' = "abort"
    /\ UNCHANGED <<cmd, main, listeners, received, groups, waiter, front, others, failedIn>>

(* The listener of a device that runs in the foreground.                   *)
ListenerEndsViewer ==
    /\ runner = "end_view"
    /\ stopEvent' = TRUE
    /\ runner' = "idle"
    /\ UNCHANGED <<cmd, main, listeners, received, db, groups, waiter, viewer, others, failedIn>>

NoAbort ==
    /\ runner = "abort"
    /\ runner' = "ended"
    /\ UNCHANGED <<cmd, main, listeners, received, db, groups, waiter, front, others, failedIn>>

Abort ==
    /\ runner = "abort"
    /\ main' = "ended" /\ runner' = "ended"
    /\ UNCHANGED <<cmd, listeners, received, db, groups, waiter, front, others, failedIn>>

-----------------------------------------------------------------------------
MainStep ==
    \/ CreateGroup \/ ParseCvdConfigs \/ Prepare \/ SavePrepared
    \/ LoadFailed \/ SaveLoadFailed \/ LoadReturns
    \/ SelectGroup \/ LaunchSingleInstance \/ SetStarting \/ SaveStarting \/ StartViewer
    \/ Setup \/ WaitBegins \/ WaitNoWait \/ WaitReap \/ Cleanup
    \/ SetFinalState \/ SaveFinalState
    \/ PopStartListener \/ PushStopListener \/ EndViewer \/ JoinViewer
    \/ StartReturns \/ StopInstanceGroup \/ SaveStopped

RunnerStep ==
    \/ CallListener
    \/ ListenerFindsGroup \/ ListenerSavesCancelled
    \/ Interrupt \/ ListenerCancels \/ ListenerSavesGroup \/ Abort
    \/ ListenerEndsViewer

Next == MainStep \/ RunnerStep \/ ViewerStops \/ ViewerFails \/ LauncherExits \/ Signal \/ Killed

(* The threads run on, and stop_cvd, which has a timeout, ends; nothing    *)
(* makes the launcher finish, the viewer fail, or a signal come.           *)
Spec == Init /\ [][Next]_vars
        /\ WF_vars(MainStep) /\ WF_vars(RunnerStep) /\ WF_vars(ViewerStops)

-----------------------------------------------------------------------------
(* Properties *)

(* "that can only happen if the instances are indeed running": whatever    *)
(* the threads that write it do, what is recorded as running is, unless a  *)
(* command in the foreground has begun to stop it.  The other instances    *)
(* of a group stay recorded as running while one of them is started, and   *)
(* run as long as that does not fail.                                      *)
RunningMeansOn ==
    /\ db = "RUNNING" => \/ device = "on"
                         \/ cmd = "foreground" /\ main \in {"save_stop", "ended"}
    /\ cmd = "single" /\ failedIn = "none" => others = "on"

(* "The double wait avoids a race around the kernel reusing pids": the     *)
(* listener never signals a process that main has reaped.                  *)
NoSignalToReaped ==
    runner = "interrupt" /\ subprocess => launcher \notin {"reaped_ok", "reaped_bad"}

(* An interrupt ends the command, also while it waits for a launcher or a  *)
(* viewer that never finishes.                                             *)
InterruptEnds == (runner # "idle") ~> (main = "ended")

(* What a command that is over leaves behind: a group in a state in which  *)
(* it can be started again, or running if it was to outlive the command.   *)
(* The code has three exceptions: ParseCvdConfigs rejects the              *)
(* configuration of a group that was already created, the logs cannot be   *)
(* listed, stop_cvd fails.  A command killed without a listener settles    *)
(* nothing, and one that was interrupted leaves no group that is being     *)
(* prepared by nobody ("Abort while holding the lock to prevent the group  *)
(* from being created").                                                   *)
LeftSettled ==
    main = "ended" /\ db \in ActiveState =>
        \/ runner = "ended" /\ db # "PREPARING"
        \/ runner = "idle" /\ failedIn \in {"parse", "logs", "stop", "killed"}
        \/ runner = "idle" /\ db = "RUNNING" /\ cmd # "foreground"
=============================================================================
