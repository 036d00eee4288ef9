-------------------------- MODULE BootStateMachine --------------------------
(***************************************************************************)
(* CvdBootStateMachine of run_cvd (run_cvd/boot_state_machine.cc), fed by  *)
(* kernel_log_monitor: the thread that waits for the boot events, the one  *)
(* that waits for the boot timeout, the one that sees a restore through,   *)
(* and run_cvd's main thread, which sets up and then serves requests.  The *)
(* foreground launcher waits for the exit code of the daemon it forked.    *)
(***************************************************************************)
EXTENDS KernelLogMonitor

CONSTANT Confs    \* the configurations of the device to consider

(* The subscriber that run_cvd is itself, as a KernelLogPipeConsumer.      *)
Me == "run_cvd"

ASSUME MeAssumption == Me \in Subs

ASSUME ConfsAssumption ==
    Confs \subseteq [fail_fast : BOOLEAN, restoring : BOOLEAN,
                     timeout : BOOLEAN, restart : BOOLEAN,
                     listeners : SUBSET {"reboot", "fg"}]

VARIABLES conf,          \* the configuration of the device
          main,          \* where the main thread of run_cvd is
          handler,       \* where boot_event_handler_ is
          state,         \* state_, the flags it has
          restoreReady,  \* whether the last poll found the restore pipe ready
          open,          \* the pipes that the exit code is still due on
          code,          \* the exit code written to each of them
          timeout_done,  \* timeout_done_
          timer,         \* where timeout_thread_ is
          restore,       \* where restore_complete_handler_ is
          failing,       \* the threads that sent kFail to the server loop
          fg             \* the foreground launcher

bootVars == <<conf, main, handler, state, restoreReady, open, code,
              timeout_done, timer, restore, failing, fg>>
vars == <<logVars, bootVars>>

(* reboot_notification_ and fg_launcher_pipe_ *)
Listener == {"reboot", "fg"}

Code == {"kSuccess", "kVirtualDeviceBootFailed"}

TypeOK ==
    /\ LogTypeOK
    /\ conf \in Confs
    /\ main \in {"setup", "serving", "destroying", "down"}
    /\ handler \in {"poll", "read", "restore", "fail", "wait_fail", "drain",
                    "drain_read", "ended"}
    /\ state \subseteq {"Completed", "Failed"}
    /\ restoreReady \in BOOLEAN
    /\ open \subseteq Listener
    /\ code \in [Listener -> Code \cup {"none"}]
    /\ timeout_done \in BOOLEAN
    /\ timer \in {"waiting", "expired", "wait_fail", "ended"}
    /\ restore \in {"none", "waiting", "resuming", "written", "ended"}
    /\ failing \subseteq {"handler", "timer"}
    /\ fg \in {"none", "waiting", "cancelled"} \cup Code \cup {"kPipeIOError"}

Init ==
    /\ LogInit
    /\ conf \in Confs
    /\ main = "setup" /\ handler = "poll" /\ state = {}
    /\ restoreReady = FALSE
    /\ open = conf.listeners /\ code = [l \in Listener |-> "none"]
    /\ timeout_done = FALSE
    /\ timer = IF conf.timeout THEN "waiting" ELSE "ended"
    /\ restore = IF conf.restoring THEN "waiting" ELSE "none"
    /\ failing = {}
    /\ fg = IF "fg" \in open THEN "waiting" ELSE "none"

Up == main # "down"

Running == main = "serving"

(* exit or abort, from any thread.                                         *)
ProcessEnds == main' = "down"

-----------------------------------------------------------------------------
(* The main thread *)

SetupDone ==
    /\ main = "setup" /\ main' = "serving"
    /\ UNCHANGED <<logVars, conf, handler, state, restoreReady, open, code,
                   timeout_done, timer, restore, failing, fg>>

(* Another feature fails to set up, and everything is destroyed.           *)
SetupFails ==
    /\ main = "setup" /\ main' = "destroying"
    /\ timeout_done' = TRUE
    /\ UNCHANGED <<logVars, conf, handler, state, restoreReady, open, code,
                   timer, restore, failing, fg>>

(* The destructor: the threads are joined, the restore thread last.        *)
Destroyed ==
    /\ main = "destroying" /\ handler = "ended" /\ timer = "ended"
    /\ ProcessEnds
    /\ restore' = IF restore = "waiting" THEN "ended" ELSE restore
    /\ UNCHANGED <<logVars, conf, handler, state, restoreReady, open, code,
                   timeout_done, timer, failing, fg>>

(* The server loop serves kFail: it exits when the device was stopped, and *)
(* is brought down by the thread that asked when it was not.               *)
ServeFail ==
    /\ Running /\ failing # {}
    /\ ProcessEnds
    /\ UNCHANGED <<logVars, conf, handler, state, restoreReady, open, code,
                   timeout_done, timer, restore, failing, fg>>

ServeStop ==
    /\ Running
    /\ ProcessEnds
    /\ UNCHANGED <<logVars, conf, handler, state, restoreReady, open, code,
                   timeout_done, timer, restore, failing, fg>>

-----------------------------------------------------------------------------
(* The boot event handler *)

FlagsOfAdbd(event) ==
    CASE event \in {"BootCompleted", "AdbdStarted"} -> {"Completed"}
      [] event \in {"BootFailed", Torn} -> {"Failed"}
      [] OTHER -> {}

Flags(event) ==
    CASE event = "BootCompleted" -> {"Completed"}
      [] event \in {"BootFailed", Torn} -> {"Failed"}
      [] OTHER -> {}

Verdict(flags) == IF "Completed" \in flags THEN "kSuccess"
                  ELSE "kVirtualDeviceBootFailed"

MaybeWriteNotificationCancelsAlways(flags) ==
    /\ timeout_done' = TRUE
    /\ open' = IF flags = {} THEN open ELSE {}
    /\ code' = [l \in Listener |->
                   IF flags # {} /\ l \in open THEN Verdict(flags) ELSE code[l]]

(* In a final state the timeout is cancelled, the code is written to every *)
(* pipe that is open, and the pipe is closed.                              *)
MaybeWriteNotification(flags) ==
    IF flags = {} THEN UNCHANGED <<timeout_done, open, code>>
    ELSE /\ timeout_done' = TRUE
         /\ open' = {}
         /\ code' = [l \in Listener |-> IF l \in open THEN Verdict(flags) ELSE code[l]]

AfterBreakNoDrain(flags) == "ended"

(* What follows a notification in a final state: fail, or leave the loop,  *)
(* to drain the pipe if the boot was completed.                            *)
AfterBreak(flags) == IF "Completed" \in flags THEN "drain" ELSE "ended"

RestorePending == restore = "written"

PollBlind ==
    /\ Up /\ handler = "poll"
    /\ \/ /\ main = "destroying"
          /\ handler' = "ended" /\ UNCHANGED restoreReady
       \/ /\ main # "destroying" /\ (pipe[Me] # <<>> \/ RestorePending)
          /\ handler' = IF pipe[Me] # <<>> THEN "read" ELSE "restore"
          /\ restoreReady' = RestorePending
    /\ UNCHANGED <<logVars, conf, main, state, open, code, timeout_done, timer,
                   restore, failing, fg>>

Poll ==
    /\ Up /\ handler = "poll"
    /\ \/ /\ main = "destroying"
          /\ handler' = "ended" /\ UNCHANGED <<main, restoreReady>>
       \/ /\ main # "destroying" /\ "fg" \in open /\ fg = "cancelled"
          /\ ProcessEnds /\ UNCHANGED <<handler, restoreReady>>
       \/ /\ main # "destroying" /\ ~("fg" \in open /\ fg = "cancelled")
          /\ pipe[Me] # <<>> \/ RestorePending
          /\ handler' = IF pipe[Me] # <<>> THEN "read" ELSE "restore"
          /\ restoreReady' = RestorePending
          /\ UNCHANGED main
    /\ UNCHANGED <<logVars, conf, state, open, code, timeout_done, timer,
                   restore, failing, fg>>

OnBootEvtReceivedNoFail ==
    /\ Up /\ handler = "read" /\ ReadEvent(Me)
    /\ LET flags == state \cup Flags(Head(pipe[Me])) IN
        /\ state' = flags
        /\ MaybeWriteNotification(flags)
        /\ handler' = IF flags # {} THEN AfterBreak(flags)
                      ELSE IF restoreReady THEN "restore" ELSE "poll"
    /\ UNCHANGED <<conf, main, restoreReady, timer, restore, failing, fg>>

OnBootEvtReceived ==
    /\ Up /\ handler = "read" /\ ReadEvent(Me)
    /\ LET flags == state \cup Flags(Head(pipe[Me])) IN
        /\ state' = flags
        /\ MaybeWriteNotification(flags)
        /\ handler' = IF flags = {} THEN (IF restoreReady THEN "restore" ELSE "poll")
                      ELSE IF "Completed" \notin flags /\ conf.fail_fast THEN "fail"
                      ELSE AfterBreak(flags)
    /\ UNCHANGED <<conf, main, restoreReady, timer, restore, failing, fg>>

OnRestoreComplete ==
    /\ Up /\ handler = "restore"
    /\ restore' = "ended"
    /\ LET flags == state \cup {"Completed"} IN
        /\ state' = flags
        /\ MaybeWriteNotification(flags)
        /\ handler' = AfterBreak(flags)
    /\ UNCHANGED <<logVars, conf, main, restoreReady, timer, failing, fg>>

(* RunLauncherAction(kFail) *)
HandlerFails ==
    /\ Up /\ handler = "fail"
    /\ failing' = failing \cup {"handler"}
    /\ handler' = "wait_fail"
    /\ UNCHANGED <<logVars, conf, main, state, restoreReady, open, code,
                   timeout_done, timer, restore, fg>>

DrainPoll ==
    /\ Up /\ handler = "drain" /\ pipe[Me] # <<>>
    /\ handler' = "drain_read"
    /\ UNCHANGED <<logVars, conf, main, state, restoreReady, open, code,
                   timeout_done, timer, restore, failing, fg>>

(* An event is thrown away; what cannot be parsed ends the thread.         *)
DrainBootEventPipe ==
    /\ Up /\ handler = "drain_read" /\ ReadEvent(Me)
    /\ handler' = IF Head(pipe[Me]) = Torn THEN "ended" ELSE "drain"
    /\ UNCHANGED <<conf, main, state, restoreReady, open, code, timeout_done,
                   timer, restore, failing, fg>>

-----------------------------------------------------------------------------
(* The timeout thread *)

TimeoutExpires ==
    /\ Up /\ timer = "waiting" /\ ~timeout_done
    /\ timer' = "expired"
    /\ UNCHANGED <<logVars, conf, main, handler, state, restoreReady, open,
                   code, timeout_done, restore, failing, fg>>

TimeoutCancelled ==
    /\ Up /\ timer = "waiting" /\ timeout_done
    /\ timer' = "ended"
    /\ UNCHANGED <<logVars, conf, main, handler, state, restoreReady, open,
                   code, timeout_done, restore, failing, fg>>

(* kFail, or a fatal error when nobody answers on the launcher's socket.   *)
TimeoutFails ==
    /\ Up /\ timer = "expired"
    /\ IF Running THEN failing' = failing \cup {"timer"} /\ UNCHANGED main
                  ELSE ProcessEnds /\ UNCHANGED failing
    /\ timer' = "wait_fail"
    /\ UNCHANGED <<logVars, conf, handler, state, restoreReady, open, code,
                   timeout_done, restore, fg>>

-----------------------------------------------------------------------------
(* The restore thread: every step after WaitForRestoreComplete is checked, *)
(* and a failure ends run_cvd.                                             *)

WaitForRestoreComplete ==
    /\ Running /\ restore = "waiting"
    /\ restore' = "resuming"
    /\ UNCHANGED <<logVars, conf, main, handler, state, restoreReady, open,
                   code, timeout_done, timer, failing, fg>>

RestoreSteps ==
    /\ Running /\ restore = "resuming"
    /\ \/ restore' = "written" /\ UNCHANGED main
       \/ ProcessEnds /\ UNCHANGED restore
    /\ UNCHANGED <<logVars, conf, handler, state, restoreReady, open, code,
                   timeout_done, timer, failing, fg>>

-----------------------------------------------------------------------------
(* DaemonizeLauncher, in the process that stays in the foreground *)

(* An incomplete exit code (the daemon is gone) counts as an I/O error.    *)
LauncherReads ==
    /\ fg = "waiting"
    /\ \/ code["fg"] # "none" /\ fg' = code["fg"]
       \/ code["fg"] = "none" /\ main = "down" /\ fg' = "kPipeIOError"
    /\ UNCHANGED <<logVars, conf, main, handler, state, restoreReady, open,
                   code, timeout_done, timer, restore, failing>>

LauncherKilled ==
    /\ fg = "waiting" /\ Up
    /\ fg' = "cancelled"
    /\ UNCHANGED <<logVars, conf, main, handler, state, restoreReady, open,
                   code, timeout_done, timer, restore, failing>>

-----------------------------------------------------------------------------
(* The guest, the monitor and the other subscribers run while run_cvd     *)
(* serves.                                                                 *)

Guest == Running /\ (\E line \in Line : GuestWrites(line)) /\ UNCHANGED bootVars

Monitor ==
    /\ Running /\ (HandleIncomingMessage \/ ProcessSubscriptions)
    /\ UNCHANGED bootVars

MonitorFaults == Running /\ MonitorDies /\ UNCHANGED bootVars

RestartMonitor == Running /\ conf.restart /\ MonitorRestarted /\ UNCHANGED bootVars

OtherReads == Running /\ (\E s \in Subs \ {Me} : ReadEvent(s)) /\ UNCHANGED bootVars

BootHandler ==
    \/ Poll \/ OnBootEvtReceived \/ OnRestoreComplete \/ HandlerFails
    \/ DrainPoll \/ DrainBootEventPipe

Timer == TimeoutExpires \/ TimeoutCancelled \/ TimeoutFails

Restore == WaitForRestoreComplete \/ RestoreSteps

MainThread == SetupDone \/ SetupFails \/ Destroyed \/ ServeFail

(* After run_cvd ended nothing happens any more.                           *)
Ended == main = "down" /\ fg # "waiting" /\ UNCHANGED vars

Next ==
    \/ MainThread \/ ServeStop \/ BootHandler \/ Timer \/ Restore
    \/ LauncherReads \/ LauncherKilled
    \/ Guest \/ Monitor \/ MonitorFaults \/ RestartMonitor \/ OtherReads
    \/ Ended

(* Threads run on, time passes, the server loop serves, the monitor is     *)
(* restarted if it is to be; a guest, a restore and a user owe nothing.    *)
Fairness ==
    /\ WF_vars(MainThread) /\ WF_vars(BootHandler) /\ WF_vars(Timer)
    /\ WF_vars(LauncherReads) /\ WF_vars(Monitor) /\ WF_vars(RestartMonitor)
    /\ WF_vars(OtherReads)

Spec == Init /\ [][Next]_vars /\ Fairness

-----------------------------------------------------------------------------
(* Properties *)

Reported == {code[l] : l \in Listener} \ {"none"}

(* What MaybeWriteNotification tells the launcher and the client that      *)
(* asked for a reboot is what the guest said first, whatever it says later *)
(* and however the threads interleave: a success is not made up, and a     *)
(* failure has its cause.  A monitor that died or lost a line may hide it. *)
VerdictIsTheGuests ==
    /\ "kSuccess" \in Reported /\ ~lost =>
          first = "BootCompleted" \/ deaths > 0 \/ (conf.restoring /\ restore = "ended")
    /\ "kVirtualDeviceBootFailed" \in Reported /\ ~lost => first = "BootFailed" \/ deaths > 0
    /\ Reported # {} => Reported = {Verdict(state)}

(* The foreground launcher does not wait forever on a device that has a    *)
(* boot timeout: not when the guest hangs, nor when the monitor is dead,   *)
(* the pipe is torn or another subscriber's is full.                       *)
LauncherAnswered == conf.timeout /\ fg = "waiting" ~> fg # "waiting"

(* DrainBootEventPipe: a guest that booted is never stuck on its console   *)
(* for good, since run_cvd keeps reading events.  A device on which the    *)
(* kernel log monitor died is excepted: nobody may be left to read the     *)
(* console then.                                                           *)
BootedGuestRunsOn ==
    Len(fifo) = FifoSize /\ "Completed" \in state ~> Len(fifo) < FifoSize \/ ~Up \/ deaths > 0

(* A device that is to fail fast is brought down when its boot fails.      *)
FailFastBringsDown == conf.fail_fast /\ "Failed" \in state ~> ~Up

(* A launcher that is cancelled before it got its exit code takes run_cvd  *)
(* with it, unless a torn event keeps the handler from looking.            *)
CancelledLaunchEnds ==
    fg = "cancelled" /\ "fg" \in open ~> ~Up \/ "fg" \notin open \/ deaths > 0
=============================================================================
