--------------------------- MODULE ProcessMonitor ---------------------------
(***************************************************************************)
(* The process monitor of run_cvd (host/libs/process_monitor).  run_cvd    *)
(* forks a monitor process that starts the host processes of a device,     *)
(* reaps those that exit, and stops or suspends the rest on request.  It   *)
(* has two threads that share the list of entries:                         *)
(*   main   MonitorLoop, which blocks in wait(2), then the shutdown        *)
(*   comms  ReadMonitorSocketLoop, which blocks reading the socket         *)
(* and the parent makes one call at a time over that socket.               *)
(***************************************************************************)
EXTENDS Integers, Sequences, FiniteSets

CONSTANTS Cmd,        \* the monitored commands, numbered in starting order
          Critical,   \* those whose exit ends the device
          Vmm,        \* of these, the virtual machine monitors
          Exempt,     \* those SuspendResumeImpl does not signal
          SecureEnv   \* secure_env, which is sent a message instead

ASSUME CmdAssumption ==
    /\ Cmd \subseteq Nat \ {0}
    /\ Critical \subseteq Cmd /\ Vmm \subseteq Critical
    /\ Exempt \subseteq Cmd /\ SecureEnv \subseteq Cmd

(* Two more children that wait(2) may return: the one forked to wake up    *)
(* the monitor loop, and an orphan that the subreaper adopted.             *)
Decoy == 0
Orphan == -1
Pid == Cmd \cup {Decoy, Orphan}

VARIABLES restart,    \* restart_subprocesses_
          child,      \* the state of each child process
          entries,    \* properties_.entries_
          running,    \* the flag both threads share
          main, got,  \* where the main thread is; the child it reaped
          loopOk,     \* whether MonitorLoop succeeded
          toStop,     \* entries StopSubprocesses has not reached yet
          allStopped, \* whether it stopped every one so far
          code,       \* the exit code of the monitor process
          comms,      \* where the comms thread is
          toSignal,   \* entries SuspendResumeImpl has not reached yet
          requests, responses, shut,  \* the socket pair
          monitor,    \* parent: whether monitor_ is not -1
          call,       \* parent: the call under way
          result      \* parent: the last call and how it ended

mainVars == <<main, got, loopOk, toStop, allStopped, code>>
parentVars == <<monitor, call, result>>
vars == <<restart, child, entries, running, mainVars, comms, toSignal,
          requests, responses, shut, parentVars>>

Alive == {"running", "suspended"}
Zombie == {"exited", "crashed"}

NoResult == <<"none", "ok">>
NoChild == <<Decoy, "exited">>

TypeOK ==
    /\ restart \in BOOLEAN /\ running \in BOOLEAN /\ shut \in BOOLEAN
    /\ child \in [Pid -> Alive \cup Zombie \cup {"absent", "reaped"}]
    /\ entries \subseteq Cmd /\ toStop \subseteq entries /\ toSignal \subseteq entries
    /\ main \in {"start", "check", "wait", "got", "handle", "shutdown", "join", "stop", "exited"}
    /\ got \in Pid \X Zombie
    /\ loopOk \in BOOLEAN /\ allStopped \in BOOLEAN /\ code \in {0, 1}
    /\ comms \in {"none", "check", "recv", "fork", "suspend", "resume", "tstp", "cont", "done", "failed"}
    /\ requests \in {<<>>} \cup {<<r>> : r \in {"kStop", "kHostSuspend", "kHostResume"}}
    /\ responses \in {<<>>, <<"kSuccess">>}
    /\ monitor \in BOOLEAN
    /\ call \in {"none", "stop", "suspend", "resume"}
    /\ result \in {"none", "stop", "suspend", "resume"} \X {"ok", "error"}

Init ==
    /\ restart \in BOOLEAN
    /\ child = [c \in Pid |-> "absent"]
    /\ entries = Cmd
    /\ running = TRUE
    /\ main = "start" /\ got = NoChild
    /\ loopOk = TRUE /\ toStop = {} /\ allStopped = TRUE /\ code = 0
    /\ comms = "none" /\ toSignal = {}
    /\ requests = <<>> /\ responses = <<>> /\ shut = FALSE
    /\ monitor = TRUE /\ call = "none" /\ result = NoResult

-----------------------------------------------------------------------------
(* MonitorRoutine: start everything, or give up on what has been started.  *)
StartSubprocesses ==
    /\ main = "start"
    /\ child' = [c \in Pid |-> IF c \in Cmd THEN "running" ELSE "absent"]
    /\ main' = "check" /\ comms' = "check"
    /\ UNCHANGED <<restart, entries, running, got, loopOk, toStop, allStopped, code,
                   toSignal, requests, responses, shut, parentVars>>

StartFails ==
    /\ main = "start"
    /\ \E n \in Cmd :
           child' = [c \in Pid |-> IF c \in Cmd /\ c < n THEN "running" ELSE "absent"]
    /\ main' = "exited" /\ code' = 1 /\ shut' = TRUE
    /\ UNCHANGED <<restart, entries, running, got, loopOk, toStop, allStopped, comms,
                   toSignal, requests, responses, parentVars>>

(* Processes exit or crash by themselves; one that is suspended can only   *)
(* be killed.  A daemon left by a child may be adopted and exit (how it    *)
(* exits makes no difference).                                             *)
ChildExits(c, s) ==
    /\ \/ child[c] = "running"
       \/ child[c] = "suspended" /\ s = "crashed"
       \/ c = Orphan /\ child[c] = "absent" /\ s = "exited" /\ main # "start"
    /\ child' = [child EXCEPT ![c] = s]
    /\ UNCHANGED <<restart, entries, running, mainVars, comms, toSignal,
                   requests, responses, shut, parentVars>>

(* MonitorLoop *)
LoopCheck ==
    /\ main = "check"
    /\ main' = IF running THEN "wait" ELSE "shutdown"
    /\ UNCHANGED <<restart, child, entries, running, got, loopOk, toStop, allStopped, code,
                   comms, toSignal, requests, responses, shut, parentVars>>

WaitReaps(c) ==
    /\ main = "wait" /\ child[c] \in Zombie
    /\ got' = <<c, child[c]>>
    /\ child' = [child EXCEPT ![c] = "reaped"]
    /\ main' = "got"
    /\ UNCHANGED <<restart, entries, running, loopOk, toStop, allStopped, code, comms,
                   toSignal, requests, responses, shut, parentVars>>

WaitFails ==
    /\ main = "wait" /\ \A c \in Pid : child[c] \in {"absent", "reaped"}
    /\ loopOk' = FALSE
    /\ main' = "shutdown"
    /\ UNCHANGED <<restart, child, entries, running, got, toStop, allStopped, code, comms,
                   toSignal, requests, responses, shut, parentVars>>

(* "Avoid extra restarts near the end"                                     *)
AfterWait ==
    /\ main = "got"
    /\ IF running THEN main' = "handle" /\ UNCHANGED got
       ELSE main' = "shutdown" /\ got' = NoChild
    /\ UNCHANGED <<restart, child, entries, running, loopOk, toStop, allStopped, code,
                   comms, toSignal, requests, responses, shut, parentVars>>

(* The comms thread holds properties_mutex_ for the whole of a suspend or  *)
(* resume.                                                                 *)
MutexFree == comms \notin {"suspend", "resume", "tstp", "cont"}

HandleUnknown ==
    /\ main = "handle" /\ MutexFree
    /\ got[1] \notin entries
    /\ main' = "check" /\ got' = NoChild
    /\ UNCHANGED <<restart, child, entries, running, loopOk, toStop, allStopped, code,
                   comms, toSignal, requests, responses, shut, parentVars>>

(* The command is started again; if that fails its entry has no process.   *)
HandleRestartUntracked ==
    /\ main = "handle" /\ MutexFree
    /\ got[1] \in entries /\ restart
    /\ \E s \in {"running", "reaped"} : child' = [child EXCEPT ![got[1]] = s]
    /\ entries' = entries \ {got[1]}
    /\ main' = "check" /\ got' = NoChild
    /\ UNCHANGED <<restart, running, loopOk, toStop, allStopped, code, comms,
                   toSignal, requests, responses, shut, parentVars>>

HandleRestart ==
    /\ main = "handle" /\ MutexFree
    /\ got[1] \in entries /\ restart
    /\ \E s \in {"running", "reaped"} : child' = [child EXCEPT ![got[1]] = s]
    /\ main' = "check" /\ got' = NoChild
    /\ UNCHANGED <<restart, entries, running, loopOk, toStop, allStopped, code, comms,
                   toSignal, requests, responses, shut, parentVars>>

(* The exit of a critical process ends the loop: with success only if it   *)
(* is the virtual machine monitor that exited with code 0.                 *)
HandleErase ==
    /\ main = "handle" /\ MutexFree
    /\ got[1] \in entries /\ ~restart
    /\ entries' = entries \ {got[1]}
    /\ IF running /\ got[1] \in Critical
       THEN /\ running' = FALSE
            /\ loopOk' = (got[1] \in Vmm /\ got[2] = "exited")
            /\ main' = "shutdown"
       ELSE main' = "check" /\ UNCHANGED <<running, loopOk>>
    /\ got' = NoChild
    /\ UNCHANGED <<restart, child, toStop, allStopped, code, comms, toSignal,
                   requests, responses, shut, parentVars>>

(* The loop has ended: wake up the comms thread and wait for it.           *)
ShutdownForgotten ==
    /\ main = "shutdown"
    /\ running' = FALSE
    /\ main' = "join"
    /\ UNCHANGED <<restart, child, entries, got, loopOk, toStop, allStopped, code, comms,
                   toSignal, requests, responses, shut, parentVars>>

Shutdown ==
    /\ main = "shutdown"
    /\ running' = FALSE /\ shut' = TRUE
    /\ main' = "join"
    /\ UNCHANGED <<restart, child, entries, got, loopOk, toStop, allStopped, code, comms,
                   toSignal, requests, responses, parentVars>>

JoinCommsStopAll ==
    /\ main = "join" /\ comms \in {"done", "failed"}
    /\ toStop' = Cmd
    /\ main' = "stop"
    /\ UNCHANGED <<restart, child, entries, running, got, loopOk, allStopped, code, comms,
                   toSignal, requests, responses, shut, parentVars>>

JoinComms ==
    /\ main = "join" /\ comms \in {"done", "failed"}
    /\ toStop' = entries
    /\ main' = "stop"
    /\ UNCHANGED <<restart, child, entries, running, got, loopOk, allStopped, code, comms,
                   toSignal, requests, responses, shut, parentVars>>

(* StopSubprocesses, last entry first: SIGKILL and wait.  An entry whose   *)
(* process is no longer there cannot be signalled and counts as a failure. *)
StopEntry ==
    /\ main = "stop" /\ toStop # {}
    /\ LET c == CHOOSE d \in toStop : \A e \in toStop : e <= d
       IN  /\ child' = [child EXCEPT ![c] = "reaped"]
           /\ allStopped' = (allStopped /\ child[c] # "reaped")
           /\ toStop' = toStop \ {c}
    /\ UNCHANGED <<restart, entries, running, main, got, loopOk, code, comms, toSignal,
                   requests, responses, shut, parentVars>>

MonitorExits ==
    /\ main = "stop" /\ toStop = {}
    /\ code' = IF loopOk /\ allStopped THEN 0 ELSE 1
    /\ main' = "exited"
    /\ UNCHANGED <<restart, child, entries, running, got, loopOk, toStop, allStopped, comms,
                   toSignal, requests, responses, shut, parentVars>>
-----------------------------------------------------------------------------
(* ReadMonitorSocketLoop *)

CommsCheck ==
    /\ comms = "check"
    /\ comms' = IF running THEN "recv" ELSE "done"
    /\ UNCHANGED <<restart, child, entries, running, mainVars, toSignal,
                   requests, responses, shut, parentVars>>

ReceiveStop ==
    /\ comms = "recv" /\ requests = <<"kStop">>
    /\ requests' = <<>>
    /\ running' = FALSE
    /\ comms' = "fork"
    /\ UNCHANGED <<restart, child, entries, mainVars, toSignal, responses, shut, parentVars>>

(* Wake up the wait() loop by giving it an exited child process.           *)
NoDecoy ==
    /\ comms = "fork"
    /\ comms' = "check"
    /\ UNCHANGED <<restart, child, entries, running, mainVars, toSignal,
                   requests, responses, shut, parentVars>>

ForkDecoy ==
    /\ comms = "fork"
    /\ child' = [child EXCEPT ![Decoy] = "exited"]
    /\ comms' = "check"
    /\ UNCHANGED <<restart, entries, running, mainVars, toSignal,
                   requests, responses, shut, parentVars>>

ReceiveSuspendResume ==
    /\ comms = "recv"
    /\ \/ requests = <<"kHostSuspend">> /\ comms' = "suspend"
       \/ requests = <<"kHostResume">> /\ comms' = "resume"
    /\ requests' = <<>>
    /\ UNCHANGED <<restart, child, entries, running, mainVars, toSignal,
                   responses, shut, parentVars>>

ReceiveFails ==
    /\ comms = "recv" /\ requests = <<>> /\ shut
    /\ comms' = IF running THEN "failed" ELSE "done"
    /\ UNCHANGED <<restart, child, entries, running, mainVars, toSignal,
                   requests, responses, shut, parentVars>>

(* SuspendResumeImpl: secure_env first, which may refuse, ...              *)
AskSecureEnv ==
    /\ comms \in {"suspend", "resume"}
    /\ \/ /\ comms' = IF comms = "suspend" THEN "tstp" ELSE "cont"
          /\ toSignal' = entries \ (Exempt \cup SecureEnv)
       \/ /\ entries \cap SecureEnv # {}
          /\ comms' = "failed"
          /\ UNCHANGED toSignal
    /\ UNCHANGED <<restart, child, entries, running, mainVars,
                   requests, responses, shut, parentVars>>

(* ... then the others one by one.  A process that was reaped cannot be    *)
(* signalled, and the first failure ends the loop and the thread.          *)
SignalFirstOnly ==
    /\ comms \in {"tstp", "cont"} /\ toSignal # {}
    /\ LET c == CHOOSE d \in toSignal : \A e \in toSignal : d <= e
       IN  \/ /\ child[c] = "reaped"
              /\ comms' = "failed" /\ toSignal' = {} /\ UNCHANGED child
           \/ /\ child[c] # "reaped"
              /\ child' = [child EXCEPT ![c] =
                     IF @ \in Zombie THEN @ ELSE IF comms = "tstp" THEN "suspended" ELSE "running"]
              /\ toSignal' = {}
              /\ UNCHANGED comms
    /\ UNCHANGED <<restart, entries, running, mainVars, requests, responses, shut, parentVars>>

SignalEntry ==
    /\ comms \in {"tstp", "cont"} /\ toSignal # {}
    /\ LET c == CHOOSE d \in toSignal : \A e \in toSignal : d <= e
       IN  \/ /\ child[c] = "reaped"
              /\ comms' = "failed" /\ toSignal' = {} /\ UNCHANGED child
           \/ /\ child[c] # "reaped"
              /\ child' = [child EXCEPT ![c] =
                     IF @ \in Zombie THEN @ ELSE IF comms = "tstp" THEN "suspended" ELSE "running"]
              /\ toSignal' = toSignal \ {c}
              /\ UNCHANGED comms
    /\ UNCHANGED <<restart, entries, running, mainVars, requests, responses, shut, parentVars>>

Respond ==
    /\ comms \in {"tstp", "cont"} /\ toSignal = {}
    /\ \/ shut /\ comms' = "failed" /\ UNCHANGED responses
       \/ ~shut /\ comms' = "check" /\ responses' = <<"kSuccess">>
    /\ UNCHANGED <<restart, child, entries, running, mainVars, toSignal,
                   requests, shut, parentVars>>
-----------------------------------------------------------------------------
(* The parent's calls *)

(* StopMonitoredProcesses: forget the monitor, ask it to stop unless it    *)
(* has exited already, and wait for it.  Without a monitor it succeeds.    *)
CallStop ==
    /\ call = "none"
    /\ \/ /\ ~monitor
          /\ result' = <<"stop", "ok">>
          /\ UNCHANGED <<requests, monitor, call>>
       \/ /\ monitor
          /\ monitor' = FALSE /\ call' = "stop" /\ result' = NoResult
          /\ requests' = IF shut THEN requests ELSE <<"kStop">>
    /\ UNCHANGED <<restart, child, entries, running, mainVars, comms, toSignal, responses, shut>>

StopReturns ==
    /\ call = "stop" /\ main = "exited"
    /\ call' = "none"
    /\ result' = <<"stop", IF code = 0 THEN "ok" ELSE "error">>
    /\ UNCHANGED <<restart, child, entries, running, mainVars, comms, toSignal,
                   requests, responses, shut, monitor>>

(* SuspendMonitoredProcesses and ResumeMonitoredProcesses: a request and   *)
(* its response, over a socket that the monitor may have shut down.        *)
CallSuspendResume(c, msg) ==
    /\ call = "none"
    /\ \/ /\ ~monitor \/ shut
          /\ result' = <<c, "error">>
          /\ UNCHANGED <<requests, call>>
       \/ /\ monitor /\ ~shut
          /\ call' = c /\ result' = NoResult
          /\ requests' = <<msg>>
    /\ UNCHANGED <<restart, child, entries, running, mainVars, comms, toSignal,
                   responses, shut, monitor>>

SuspendResumeReturns ==
    /\ call \in {"suspend", "resume"}
    /\ \/ responses # <<>> /\ result' = <<call, "ok">>
       \/ responses = <<>> /\ shut /\ result' = <<call, "error">>
    /\ responses' = <<>>
    /\ call' = "none"
    /\ UNCHANGED <<restart, child, entries, running, mainVars, comms, toSignal,
                   requests, shut, monitor>>
-----------------------------------------------------------------------------
Handle == HandleUnknown \/ HandleRestart \/ HandleErase

Main ==
    \/ StartSubprocesses \/ StartFails
    \/ LoopCheck \/ (\E c \in Pid : WaitReaps(c)) \/ WaitFails \/ AfterWait
    \/ Handle
    \/ Shutdown \/ JoinComms \/ StopEntry \/ MonitorExits

Comms ==
    \/ CommsCheck \/ ReceiveStop \/ ForkDecoy \/ ReceiveSuspendResume \/ ReceiveFails
    \/ AskSecureEnv \/ SignalEntry \/ Respond

Returns == StopReturns \/ SuspendResumeReturns

Environment == \E c \in Pid, s \in Zombie : ChildExits(c, s)

Next ==
    \/ Main \/ Comms \/ Returns \/ Environment
    \/ CallStop
    \/ CallSuspendResume("suspend", "kHostSuspend")
    \/ CallSuspendResume("resume", "kHostResume")

(* Threads that can run do, and a call whose answer is there returns.  A   *)
(* thread that waits for the mutex gets it sooner or later: the other one  *)
(* gives it up until the next request arrives.                             *)
Fairness ==
    /\ WF_vars(Main) /\ WF_vars(Comms) /\ WF_vars(Returns)
    /\ SF_vars(Handle)

Spec == Init /\ [][Next]_vars /\ Fairness

-----------------------------------------------------------------------------
(* Properties *)

(* A monitor that exits with code 0 leaves no host process behind, so a    *)
(* StopMonitoredProcesses that waited for it and succeeds "Stops all       *)
(* monitored subprocesses", whatever was restarted, reaped or suspended.   *)
CleanExitMeansAllDead ==
    main = "exited" /\ code = 0 => \A c \in Cmd : child[c] \notin Alive

(* A suspend that was answered with kSuccess has stopped every host        *)
(* process it is meant for, and they stay so (without restarts) until the  *)
(* next call; after a resume that was answered none is left stopped.       *)
SuspendTakesEffect ==
    call = "none" =>
        /\ result = <<"suspend", "ok">> /\ ~restart =>
               \A c \in entries \ (Exempt \cup SecureEnv) : child[c] # "running"
        /\ result = <<"resume", "ok">> =>
               \A c \in entries : child[c] # "suspended"

(* The exit of a critical process brings the whole monitor down, also when *)
(* it happens during a suspend or a stop.                                  *)
CriticalExitEnds ==
    \A c \in Critical :
        (~restart /\ child[c] \in Zombie) ~> (main = "exited")

(* "On kHostSuspend, the child run_cvd returned kFailure.": a request the  *)
(* monitor cannot carry out is answered, and the parent's call returns.    *)
SuspendAnswered == (call = "suspend") ~> (call = "none")
=============================================================================
