---------------------------- MODULE CvdLoadProofs ----------------------------
(***************************************************************************)
(* cvd load and cvd start against the thread that handles interrupts, for  *)
(* any number of signals: what is recorded as running runs, the launcher   *)
(* is not signalled once it is reaped, and a command that is over leaves   *)
(* its group settled.  The two threads share the group object and the      *)
(* database without a lock; the argument is that main is in its start      *)
(* phases for as long as the start listener is at work, and what the       *)
(* listener may store then is never worse than what main stores.           *)
(***************************************************************************)
EXTENDS CvdLoad, SequenceTheorems, TLAPS

(* Where main is in cvd load alone, in cvd start, and before the launcher. *)
Loading == {"create", "parse", "prepare", "save_prepare_failed", "save_stopped",
            "load_failed", "save_load_failed", "loaded"}

Started == {"start", "save_starting", "view", "setup", "wait", "waiting", "reap", "cleanup",
            "failed", "save_failed", "running", "save_running", "unlisten", "end_view",
            "join", "pop"}

Starting == Started \cup {"select", "listen", "stop", "save_stop"}

BeforeLaunch == {"create", "parse", "prepare", "save_prepare_failed", "save_stopped",
                 "select", "start", "save_starting", "view", "setup"}

Unfailed == {"create", "parse", "prepare", "save_stopped", "select", "start", "save_starting",
             "view", "setup", "wait", "waiting", "reap", "cleanup", "running", "save_running",
             "unlisten", "listen"}

Roles ==
    /\ cmd \in {"load", "start", "foreground", "single"}
    /\ main \in Loading => cmd = "load"
    /\ main \in {"view", "unlisten", "listen", "end_view", "join", "stop", "save_stop"} =>
          cmd = "foreground"
    /\ main \in Unfailed => failedIn = "none"

(* The launcher, what it left and what is said of it.                      *)
Launching ==
    /\ main \in BeforeLaunch => launcher = "none"
    /\ main \in {"wait", "waiting"} => launcher \in {"runs", "exited_ok", "exited_bad"}
    /\ main = "reap" => launcher \in {"exited_ok", "exited_bad"}
    /\ main = "cleanup" => launcher = "reaped_bad"
    /\ main = "running" => launcher = "reaped_ok"
    /\ subprocess => launcher \in {"runs", "exited_ok", "exited_bad"}
    /\ launcher \in {"exited_ok", "reaped_ok"} =>
          device = "on" \/ (cmd = "foreground" /\ main \in {"save_stop", "ended"})
    /\ db = "RUNNING" \/ startGroup = "RUNNING" => launcher = "reaped_ok"
    /\ cmd = "single" /\ failedIn = "none" => others = "on"

(* Which listener may be at work where.                                    *)
WithStart == {<<"start">>, <<"load", "start">>}

Stack ==
    /\ listeners \in {<<>>, <<"load">>, <<"stop">>} \cup WithStart
    /\ runner \in {"idle", "find", "save_cancelled", "interrupt", "cancel", "save_group",
                   "abort", "end_view", "ended"}
    /\ listeners = <<>> => runner = "idle"
    /\ main = "ended" => runner = "ended" \/ (runner = "idle" /\ listeners = <<>>)
    /\ runner = "ended" => main = "ended"
    /\ listeners \in WithStart => main \in Started \/ runner = "ended"
    /\ runner \in {"interrupt", "cancel", "save_group"} => listeners \in WithStart
    /\ main \in Loading => listeners = <<"load">>
    /\ main \in {"listen", "stop", "save_stop"} => listeners = <<>>
    /\ main = "select" => listeners = IF cmd = "load" THEN <<"load">> ELSE <<>>

(* What is about to be stored, and what is.                                *)
Final == {"RUNNING", "BOOT_FAILED", "CANCELLED"}

Stored ==
    /\ startGroup # "PREPARING"
    /\ main = "create" => db = None
    /\ runner = "save_cancelled" => main # "create"
    /\ main = "save_stopped" => loadGroup = "STOPPED"
    /\ main = "save_prepare_failed" => loadGroup = "PREPARE_FAILED"
    /\ main = "save_load_failed" => loadGroup \in {"PREPARE_FAILED", "BOOT_FAILED"}
    /\ main \in Starting \/ runner \in {"abort", "ended"} => db # "PREPARING"
    /\ main = "select" /\ cmd # "load" => db = "STOPPED"
    /\ main = "save_failed" => startGroup \in {"BOOT_FAILED", "CANCELLED"}
    /\ main = "end_view" => {db, startGroup} \subseteq {"BOOT_FAILED", "CANCELLED"}
    /\ main = "save_running" => startGroup \in {"RUNNING", "CANCELLED"}
    /\ main \in {"unlisten", "listen"} => {db, startGroup} \subseteq {"RUNNING", "CANCELLED"}
    /\ main = "join" \/ (main = "pop" /\ failedIn # "logs") =>
          /\ {db, startGroup} \subseteq Final
          /\ failedIn # "none" => db # "RUNNING" /\ startGroup # "RUNNING"
    /\ main = "save_stop" => startGroup = "STOPPED"
    /\ main = "loaded" => db \notin ActiveState \/ failedIn = "parse" \/ db = "RUNNING"

LoadInv == Roles /\ Launching /\ Stack /\ Stored /\ LeftSettled

-----------------------------------------------------------------------------
LEMMA AppendOne == ASSUME NEW a, NEW b PROVE Append(<<a>>, b) = <<a, b>>
<1> DEFINE s == <<a>>
           t == <<a, b>>
<1>1. s \in Seq({a, b}) /\ Len(s) = 1 /\ s[1] = a
  OBVIOUS
<1>2. t \in Seq({a, b})
  OBVIOUS
<1>3. Len(t) = 2 /\ t[1] = a /\ t[2] = b
  OBVIOUS
<1> HIDE DEF s, t
<1>4. /\ Append(s, b) \in Seq({a, b}) /\ Len(Append(s, b)) = 2
      /\ Append(s, b)[1] = a /\ Append(s, b)[2] = b
  <2>1. s \in Seq({a, b}) /\ b \in {a, b}
    BY <1>1
  <2>2. Append(s, b) \in Seq({a, b}) /\ Len(Append(s, b)) = Len(s) + 1
    BY <2>1, AppendProperties
  <2>3. \A i \in 1..Len(s) : Append(s, b)[i] = s[i]
    BY <2>1, AppendProperties
  <2>4. Append(s, b)[Len(s) + 1] = b
    BY <2>1, AppendProperties
  <2> QED
    BY <1>1, <2>2, <2>3, <2>4
<1>5. \A i \in 1..Len(t) : Append(s, b)[i] = t[i]
  BY <1>3, <1>4
<1>6. Append(s, b) = t
  BY <1>2, <1>3, <1>4, <1>5, SeqEqual
<1> QED
  BY <1>6 DEF s, t

(* The stacks that occur are different, and what pushing makes of them.    *)
LEMMA Stacks ==
    /\ <<>> # <<"load">> /\ <<>> # <<"stop">> /\ <<>> # <<"start">> /\ <<>> # <<"load", "start">>
    /\ <<"load">> # <<"stop">> /\ <<"load">> # <<"start">> /\ <<"load">> # <<"load", "start">>
    /\ <<"stop">> # <<"start">> /\ <<"stop">> # <<"load", "start">>
    /\ Append(<<>>, "start") = <<"start">> /\ Append(<<"load">>, "start") = <<"load", "start">>
<1>1. /\ <<>> # <<"load">> /\ <<>> # <<"stop">>
      /\ <<>> # <<"start">> /\ <<>> # <<"load", "start">>
  OBVIOUS
<1>2. <<"load">> # <<"stop">> /\ <<"load">> # <<"start">> /\ <<"load">> # <<"load", "start">>
  OBVIOUS
<1>3. <<"stop">> # <<"start">> /\ <<"stop">> # <<"load", "start">>
  OBVIOUS
<1>4. Append(<<>>, "start") = <<"start">>
  OBVIOUS
<1>5. Append(<<"load">>, "start") = <<"load", "start">>
  BY AppendOne
<1> QED
  BY <1>1, <1>2, <1>3, <1>4, <1>5

(* At first no listener of cvd start is there, and nothing was launched.   *)
LEMMA InitLoadInv == Init => LoadInv
  BY Stacks DEF Init, LoadInv, Roles, Launching, Stack, Stored, LeftSettled, Loading, Started,
     Starting, BeforeLaunch, Unfailed, WithStart, Final, ActiveState, None

(* The steps of cvd load itself: the start listener is not there, and the  *)
(* load listener stores CANCELLED over whatever main has stored.           *)
LEMMA LoadSteps == ASSUME LoadInv,
              CreateGroup \/ ParseCvdConfigs \/ Prepare \/ SavePrepared
              \/ LoadFailed \/ SaveLoadFailed \/ LoadReturns
              PROVE  LoadInv'
<1> USE Stacks DEF LoadInv, Roles, Launching, Stack, Stored, LeftSettled, Loading, Started,
        Starting, BeforeLaunch, Unfailed, WithStart, Final, ActiveState, None,
        received, groups, waiter, front
<1>1. CASE CreateGroup
  BY <1>1 DEF CreateGroup
<1>2. CASE ParseCvdConfigs
  BY <1>2 DEF ParseCvdConfigs
<1>3. CASE Prepare
  BY <1>3 DEF Prepare
<1>4. CASE SavePrepared
  BY <1>4 DEF SavePrepared
<1>5. CASE LoadFailed
  BY <1>5 DEF LoadFailed
<1>6. CASE SaveLoadFailed
  BY <1>6 DEF SaveLoadFailed
<1>7. CASE LoadReturns
  BY <1>7 DEF LoadReturns, CanPop
<1> QED
  BY <1>1, <1>2, <1>3, <1>4, <1>5, <1>6, <1>7

(* The steps of cvd start, with its listener possibly between any two.     *)
LEMMA StartSteps == ASSUME LoadInv,
              \/ SelectGroup \/ LaunchSingleInstance \/ SetStarting \/ SaveStarting
              \/ StartViewer \/ Setup \/ WaitBegins \/ WaitNoWait \/ WaitReap \/ Cleanup
              \/ SetFinalState \/ SaveFinalState \/ PopStartListener \/ PushStopListener
              \/ EndViewer \/ JoinViewer \/ StartReturns \/ StopInstanceGroup \/ SaveStopped
              PROVE  LoadInv'
<1> USE Stacks DEF LoadInv, Roles, Launching, Stack, Stored, LeftSettled, Loading, Started,
        Starting, BeforeLaunch, Unfailed, WithStart, Final, ActiveState, None,
        received, groups, waiter, front
<1>1. CASE SelectGroup
  <2>0. /\ main = "select" /\ startGroup' = db
        /\ UNCHANGED <<cmd, runner, received, db, loadGroup, waiter, front, others>>
    BY <1>1 DEF SelectGroup
  <2>1. CASE /\ main' = IF cmd = "load" THEN "load_failed" ELSE "ended"
             /\ failedIn' = "start" /\ UNCHANGED listeners
    BY <2>0, <2>1
  <2>2. CASE /\ db \notin ActiveState /\ runner = "idle" /\ cmd # "single"
             /\ main' = "start" /\ listeners' = Append(listeners, "start")
             /\ UNCHANGED failedIn
    <3>1. listeners' \in WithStart
      BY <2>0, <2>2
    <3>2. Stack'
      BY <2>0, <2>2, <3>1
    <3>3. Roles' /\ Launching'
      BY <2>0, <2>2
    <3>4. Stored' /\ LeftSettled'
      BY <2>0, <2>2, <3>1
    <3> QED
      BY <3>2, <3>3, <3>4
  <2> QED
    BY <1>1, <2>1, <2>2 DEF SelectGroup
<1>2. CASE LaunchSingleInstance
  BY <1>2 DEF LaunchSingleInstance, CanBypassToSingleInstance
<1>3. CASE SetStarting
  BY <1>3 DEF SetStarting
<1>4. CASE SaveStarting
  BY <1>4 DEF SaveStarting
<1>5. CASE StartViewer
  BY <1>5 DEF StartViewer
<1>6. CASE Setup
  BY <1>6 DEF Setup
<1>7. CASE WaitBegins
  BY <1>7 DEF WaitBegins
<1>8. CASE WaitNoWait
  BY <1>8 DEF WaitNoWait
<1>9. CASE WaitReap
  BY <1>9 DEF WaitReap, Reaped
<1>10. CASE Cleanup
  BY <1>10 DEF Cleanup
<1>11. CASE SetFinalState
  BY <1>11 DEF SetFinalState
<1>12. CASE SaveFinalState
  BY <1>12 DEF SaveFinalState
<1>13. CASE PopStartListener
  BY <1>13 DEF PopStartListener, CanPop
<1>14. CASE PushStopListener
  BY <1>14 DEF PushStopListener
<1>15. CASE EndViewer
  BY <1>15 DEF EndViewer
<1>16. CASE JoinViewer
  BY <1>16 DEF JoinViewer
<1>17. CASE StartReturns
  BY <1>17 DEF StartReturns, CanPop
<1>18. CASE StopInstanceGroup
  BY <1>18 DEF StopInstanceGroup
<1>19. CASE SaveStopped
  BY <1>19 DEF SaveStopped
<1> QED
  BY <1>1, <1>2, <1>3, <1>4, <1>5, <1>6, <1>7, <1>8, <1>9, <1>10, <1>11, <1>12, <1>13,
     <1>14, <1>15, <1>16, <1>17, <1>18, <1>19

(* The steps of the runner, at whatever step main is.                      *)
LEMMA RunnerSteps == ASSUME LoadInv, RunnerStep PROVE LoadInv'
<1> USE Stacks DEF LoadInv, Roles, Launching, Stack, Stored, LeftSettled, Loading, Started,
        Starting, BeforeLaunch, Unfailed, WithStart, Final, ActiveState, None,
        received, groups, waiter, front
<1>1. CASE CallListener
  BY <1>1 DEF CallListener, Top
<1>2. CASE ListenerFindsGroup
  BY <1>2 DEF ListenerFindsGroup
<1>3. CASE ListenerSavesCancelled
  BY <1>3 DEF ListenerSavesCancelled
<1>4. CASE Interrupt
  BY <1>4 DEF Interrupt
<1>5. CASE ListenerCancels
  BY <1>5 DEF ListenerCancels
<1>6. CASE ListenerSavesGroup
  BY <1>6 DEF ListenerSavesGroup
<1>7. CASE Abort
  BY <1>7 DEF Abort
<1>8. CASE ListenerEndsViewer
  BY <1>8 DEF ListenerEndsViewer
<1> QED
  BY <1>1, <1>2, <1>3, <1>4, <1>5, <1>6, <1>7, <1>8 DEF RunnerStep

(* The viewer, the launcher, the sender of signals.                        *)
LEMMA OtherSteps == ASSUME LoadInv,
              ViewerStops \/ ViewerFails \/ LauncherExits \/ Signal \/ Killed
              PROVE  LoadInv'
<1> USE Stacks DEF LoadInv, Roles, Launching, Stack, Stored, LeftSettled, Loading, Started,
        Starting, BeforeLaunch, Unfailed, WithStart, Final, ActiveState, None,
        received, groups, waiter, front
<1>1. CASE ViewerStops
  BY <1>1 DEF ViewerStops
<1>2. CASE ViewerFails
  BY <1>2 DEF ViewerFails
<1>3. CASE LauncherExits
  BY <1>3 DEF LauncherExits
<1>4. CASE Signal
  BY <1>4 DEF Signal
<1>5. CASE Killed
  BY <1>5 DEF Killed
<1> QED
  BY <1>1, <1>2, <1>3, <1>4, <1>5

LEMMA LoadInvHolds == Spec => []LoadInv
<1>1. ASSUME LoadInv, [Next]_vars PROVE LoadInv'
  <2>1. CASE UNCHANGED vars
    BY <1>1, <2>1 DEF vars, received, groups, waiter, front, LoadInv, Roles, Launching, Stack,
       Stored, LeftSettled
  <2>2. CASE MainStep
    BY <1>1, <2>2, LoadSteps, StartSteps DEF MainStep
  <2>3. CASE RunnerStep
    BY <1>1, <2>3, RunnerSteps
  <2>4. CASE ViewerStops \/ ViewerFails \/ LauncherExits \/ Signal \/ Killed
    BY <1>1, <2>4, OtherSteps
  <2> QED
    BY <1>1, <2>1, <2>2, <2>3, <2>4 DEF Next
<1> QED
  BY InitLoadInv, <1>1, PTL DEF Spec

-----------------------------------------------------------------------------
(* What the database records as running runs, whichever of main and the    *)
(* start listener stored it last: RUNNING is stored only after the         *)
(* launcher was reaped with success, and run_cvd stays until the           *)
(* foreground command stops it.                                            *)
THEOREM RunningIsOn == Spec => []RunningMeansOn
<1>1. LoadInv => RunningMeansOn
  BY DEF LoadInv, Launching, RunningMeansOn
<1> QED
  BY <1>1, LoadInvHolds, PTL

(* SubprocessWaiter::Interrupt finds no subprocess_ once main has reaped   *)
(* the launcher: the process id it signals is not one that the kernel may  *)
(* have given to another process.                                          *)
THEOREM ReapedNotSignalled == Spec => []NoSignalToReaped
<1>1. LoadInv => NoSignalToReaped
  BY DEF LoadInv, Launching, NoSignalToReaped
<1> QED
  BY <1>1, LoadInvHolds, PTL

(* A command that is over, by itself or by an interrupt at any step, leaves*)
(* its group in a state in which it can be started again, or running; the  *)
(* exceptions of the code are the ones LeftSettled names.                  *)
THEOREM CommandLeavesSettled == Spec => []LeftSettled
<1>1. LoadInv => LeftSettled
  BY DEF LoadInv
<1> QED
  BY <1>1, LoadInvHolds, PTL
=============================================================================
