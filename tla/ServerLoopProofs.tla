-------------------------- MODULE ServerLoopProofs --------------------------
(***************************************************************************)
(* The process monitor and the server loop of run_cvd, for every set of    *)
(* host processes.                                                         *)
(*                                                                         *)
(* First the monitor: its types, and that a monitor which exits with code  *)
(* 0 leaves no host process alive.  The argument follows a live process    *)
(* through the shutdown: while the loop runs it has an entry, while        *)
(* StopSubprocesses runs it is one of those still to be stopped, and the   *)
(* comms thread, the only other one that can wake up a process, has been   *)
(* joined by then.  Then that a call to suspend or resume which was        *)
(* answered did what it says: there is one request at a time, also while   *)
(* the monitor shuts down.                                                 *)
(*                                                                         *)
(* The server loop uses its monitor only through the monitor's calls, so   *)
(* all of this holds under it too; a client that is told of a successful   *)
(* stop finds every host process dead, and a device that is reported as    *)
(* suspended is frozen.                                                    *)
(***************************************************************************)
EXTENDS ServerLoop, WellFoundedInduction, TLAPS

(* Before anything is started nothing has happened; once the comms thread  *)
(* exists every command has been started.                                  *)
Started ==
    /\ main = "start" =>
           comms = "none" /\ entries = Cmd /\ \A c \in Cmd : child[c] = "absent"
    /\ comms # "none" => \A c \in Cmd : child[c] # "absent"

(* What the main thread reaped stays so until it has handled it.           *)
ReapedIsReaped ==
    main \in {"got", "handle"} /\ got[1] \in Cmd => child[got[1]] = "reaped"

(* A process that is alive is known to whoever stops it.                   *)
AliveIsKnown ==
    /\ main \notin {"stop", "exited"} =>
           \A c \in Cmd : child[c] \in Alive => c \in entries
    /\ main = "stop" => \A c \in Cmd : child[c] \in Alive => c \in toStop
    /\ main = "exited" /\ (code = 0 \/ comms # "none") => \A c \in Cmd : child[c] \notin Alive

(* The two walks over the entries do not overlap with what changes them,   *)
(* and the socket is shut down before the comms thread is joined.          *)
Walks ==
    /\ main # "stop" => toStop = {}
    /\ toSignal # {} => comms \in {"tstp", "cont"}
    /\ main \in {"stop", "exited"} => comms \in {"none", "done", "failed"}
    /\ main \in {"join", "stop", "exited"} => shut

IInv == TypeOK /\ Started /\ ReapedIsReaped /\ AliveIsKnown /\ Walks

(* The invariant holds before the monitor starts anything.                 *)
LEMMA InitIInv == Init => IInv
<1> SUFFICES ASSUME Init PROVE IInv
  OBVIOUS
<1> USE CmdAssumption DEF Init, Pid, Alive, Zombie, Decoy, Orphan, NoResult, NoChild
<1>1. TypeOK
  BY DEF TypeOK
<1>2. Started /\ ReapedIsReaped
  BY DEF Started, ReapedIsReaped
<1>3. AliveIsKnown /\ Walks
  BY DEF AliveIsKnown, Walks
<1> QED
  BY <1>1, <1>2, <1>3 DEF IInv

(* Every step of either thread, of the parent and of the processes keeps   *)
(* it.                                                                     *)
LEMMA StepIInv == IInv /\ [Next]_vars => IInv'
<1> SUFFICES ASSUME IInv, [Next]_vars PROVE IInv'
  OBVIOUS
<1> USE CmdAssumption
    DEF IInv, TypeOK, Started, ReapedIsReaped, AliveIsKnown, Walks, Pid, Alive, Zombie,
        Decoy, Orphan, NoResult, NoChild, mainVars, parentVars
<1>1. CASE StartSubprocesses
  <2>1. TypeOK'
    BY <1>1 DEF StartSubprocesses
  <2>2. Started'
    BY <1>1 DEF StartSubprocesses
  <2>3. ReapedIsReaped'
    BY <1>1 DEF StartSubprocesses
  <2>4. AliveIsKnown'
    BY <1>1 DEF StartSubprocesses
  <2>5. Walks'
    BY <1>1 DEF StartSubprocesses
  <2> QED
    BY <2>1, <2>2, <2>3, <2>4, <2>5
<1>2. CASE StartFails
  BY <1>2 DEF StartFails
<1>3. ASSUME NEW c \in Pid, NEW s \in Zombie, ChildExits(c, s) PROVE IInv'
  BY <1>3 DEF ChildExits
<1>4. CASE LoopCheck
  BY <1>4 DEF LoopCheck
<1>5. ASSUME NEW c \in Pid, WaitReaps(c) PROVE IInv'
  BY <1>5 DEF WaitReaps
<1>6. CASE WaitFails
  <2>1. TypeOK'
    <3>1. loopOk' \in BOOLEAN
      BY <1>6 DEF WaitFails
    <3> QED
      BY <3>1, <1>6 DEF WaitFails
  <2>2. Started'
    BY <1>6 DEF WaitFails
  <2>3. ReapedIsReaped'
    BY <1>6 DEF WaitFails
  <2>4. AliveIsKnown'
    BY <1>6 DEF WaitFails
  <2>5. Walks'
    BY <1>6 DEF WaitFails
  <2> QED
    BY <2>1, <2>2, <2>3, <2>4, <2>5
<1>7. CASE AfterWait
  BY <1>7 DEF AfterWait
<1>8. CASE HandleUnknown
  BY <1>8 DEF HandleUnknown
<1>9. CASE HandleRestart
  BY <1>9 DEF HandleRestart
<1>10. CASE HandleErase
  <2>1. TypeOK'
    <3>1. running' \in BOOLEAN
      BY <1>10 DEF HandleErase, MutexFree
    <3>2. loopOk' \in BOOLEAN
      BY <1>10 DEF HandleErase, MutexFree
    <3>3. entries' \subseteq Cmd /\ toStop' \subseteq entries' /\ toSignal' \subseteq entries'
      BY <1>10 DEF HandleErase, MutexFree
    <3> QED
      BY <3>1, <3>2, <3>3, <1>10 DEF HandleErase, MutexFree
  <2>2. Started'
    BY <1>10 DEF HandleErase, MutexFree
  <2>3. ReapedIsReaped'
    BY <1>10 DEF HandleErase, MutexFree
  <2>4. AliveIsKnown'
    BY <1>10 DEF HandleErase, MutexFree
  <2>5. Walks'
    BY <1>10 DEF HandleErase, MutexFree
  <2> QED
    BY <2>1, <2>2, <2>3, <2>4, <2>5
<1>11. CASE Shutdown
  <2>1. TypeOK'
    <3>1. running' \in BOOLEAN
      BY <1>11 DEF Shutdown
    <3>2. shut' \in BOOLEAN
      BY <1>11 DEF Shutdown
    <3> QED
      BY <3>1, <3>2, <1>11 DEF Shutdown
  <2>2. Started'
    BY <1>11 DEF Shutdown
  <2>3. ReapedIsReaped'
    BY <1>11 DEF Shutdown
  <2>4. AliveIsKnown'
    BY <1>11 DEF Shutdown
  <2>5. Walks'
    BY <1>11 DEF Shutdown
  <2> QED
    BY <2>1, <2>2, <2>3, <2>4, <2>5
<1>12. CASE JoinComms
  BY <1>12 DEF JoinComms
<1>13. CASE StopEntry
  BY <1>13 DEF StopEntry
<1>14. CASE MonitorExits
  BY <1>14 DEF MonitorExits
<1>15. CASE CommsCheck
  BY <1>15 DEF CommsCheck
<1>16. CASE ReceiveStop
  <2>1. TypeOK'
    <3>1. running' \in BOOLEAN
      BY <1>16 DEF ReceiveStop
    <3> QED
      BY <3>1, <1>16 DEF ReceiveStop
  <2>2. Started'
    BY <1>16 DEF ReceiveStop
  <2>3. ReapedIsReaped'
    BY <1>16 DEF ReceiveStop
  <2>4. AliveIsKnown'
    BY <1>16 DEF ReceiveStop
  <2>5. Walks'
    BY <1>16 DEF ReceiveStop
  <2> QED
    BY <2>1, <2>2, <2>3, <2>4, <2>5
<1>17. CASE ForkDecoy
  BY <1>17 DEF ForkDecoy
<1>18. CASE ReceiveSuspendResume
  BY <1>18 DEF ReceiveSuspendResume
<1>19. CASE ReceiveFails
  BY <1>19 DEF ReceiveFails
<1>20. CASE AskSecureEnv
  BY <1>20 DEF AskSecureEnv
<1>21. CASE SignalEntry
  <2> DEFINE x == CHOOSE d \in toSignal : \A e \in toSignal : d <= e
  <2>1. UNCHANGED <<restart, entries, running, mainVars, requests, responses, shut, parentVars>>
    BY <1>21 DEF SignalEntry
  <2>2. comms \in {"tstp", "cont"} /\ toSignal' \subseteq toSignal
    BY <1>21 DEF SignalEntry
  <2>3. \/ comms' = "failed" /\ toSignal' = {} /\ child' = child
        \/ /\ comms' = comms
           /\ child' = [child EXCEPT ![x] =
                  IF @ \in Zombie THEN @ ELSE IF comms = "tstp" THEN "suspended" ELSE "running"]
           /\ child[x] # "reaped"
    BY <1>21 DEF SignalEntry
  <2> HIDE DEF x
  <2>4. \A d \in Pid : \/ child'[d] = child[d]
                       \/ d = x /\ child[d] \notin Zombie \cup {"reaped"} /\ child'[d] \in Alive
    BY <2>2, <2>3
  <2>5. child' \in [Pid -> Alive \cup Zombie \cup {"absent", "reaped"}]
    BY <2>3, <2>4
  <2>6. comms' # "none" /\ main' = main /\ entries' = entries /\ got' = got /\ toStop' = toStop
    BY <2>1, <2>2, <2>3
  <2>7. ASSUME NEW d \in Cmd
        PROVE  /\ child'[d] # "absent"
               /\ child'[d] \in Alive => child[d] \in Alive
               /\ child[d] = "reaped" => child'[d] = "reaped"
    BY <2>2, <2>4
  <2>8. TypeOK'
    BY <2>1, <2>2, <2>3, <2>5
  <2>9. main # "start"
    BY <2>2
  <2>10. Started'
    BY <2>5, <2>6, <2>7, <2>9
  <2>11. ReapedIsReaped'
    <3>1. got[1] \in Cmd /\ child[got[1]] = "reaped" => child'[got[1]] = "reaped"
      BY <2>7, Zenon
    <3> QED
      BY <2>6, <3>1
  <2>12. AliveIsKnown'
    <3>1. main \notin {"stop", "exited"}
      BY <2>2
    <3>2. ASSUME NEW d \in Cmd, child'[d] \in Alive PROVE d \in entries
      <4>1. child[d] \in Alive
        BY <2>7, <3>2, Zenon
      <4> QED
        BY <3>1, <4>1
    <3> QED
      BY <2>6, <3>1, <3>2
  <2>13. Walks'
    BY <2>1, <2>2, <2>3, <2>6
  <2> QED
    BY <2>8, <2>10, <2>11, <2>12, <2>13
<1>22. CASE Respond
  BY <1>22 DEF Respond
<1>23. CASE CallStop
  <2>1. TypeOK'
    <3>1. monitor' \in BOOLEAN
      BY <1>23 DEF CallStop
    <3>2. requests' \in {<<>>} \cup {<<r>> : r \in {"kStop", "kHostSuspend", "kHostResume"}}
      BY <1>23 DEF CallStop
    <3>3. result' \in {"none", "stop", "suspend", "resume"} \X {"ok", "error"}
      BY <1>23 DEF CallStop
    <3> QED
      BY <3>1, <3>2, <3>3, <1>23 DEF CallStop
  <2>2. Started'
    BY <1>23 DEF CallStop
  <2>3. ReapedIsReaped'
    BY <1>23 DEF CallStop
  <2>4. AliveIsKnown'
    BY <1>23 DEF CallStop
  <2>5. Walks'
    BY <1>23 DEF CallStop
  <2> QED
    BY <2>1, <2>2, <2>3, <2>4, <2>5
<1>24. CASE StopReturns
  BY <1>24 DEF StopReturns
<1>25. ASSUME NEW c \in {"suspend", "resume"}, NEW m \in {"kHostSuspend", "kHostResume"},
              CallSuspendResume(c, m)
       PROVE  IInv'
  BY <1>25 DEF CallSuspendResume
<1>26. CASE SuspendResumeReturns
  BY <1>26 DEF SuspendResumeReturns
<1>27. CASE UNCHANGED vars
  BY <1>27 DEF vars
<1> QED
  BY <1>1, <1>2, <1>3, <1>4, <1>5, <1>6, <1>7, <1>8, <1>9, <1>10, <1>11, <1>12, <1>13,
     <1>14, <1>15, <1>16, <1>17, <1>18, <1>19, <1>20, <1>21, <1>22, <1>23, <1>24, <1>25,
     <1>26, <1>27
  DEF Next, Main, Comms, Returns, Environment, Handle

(* So it holds throughout.                                                 *)
THEOREM Invariance == Spec => []IInv
  BY InitIInv, StepIInv, PTL DEF Spec

(* Every variable keeps its type, in particular both walks over the        *)
(* entries, StopSubprocesses and SuspendResumeImpl, stay inside them while *)
(* MonitorLoop erases entries.                                             *)
THEOREM TypeCorrect == Spec => []TypeOK
<1>1. IInv => TypeOK
  BY DEF IInv
<1> QED
  BY <1>1, Invariance, PTL

(* A monitor process that exits with code 0 has stopped everything it      *)
(* started, for any number of host processes.                              *)
THEOREM CleanExit == Spec => []CleanExitMeansAllDead
<1>1. IInv => CleanExitMeansAllDead
  BY DEF IInv, AliveIsKnown, CleanExitMeansAllDead
<1> QED
  BY <1>1, Invariance, PTL

-----------------------------------------------------------------------------
(* Suspend and resume *)

Signalling == {"suspend", "resume", "tstp", "cont"}

(* The comms thread has nothing to suspend or to resume.                   *)
Quiet == requests \notin {<<"kHostSuspend">>, <<"kHostResume">>} /\ comms \notin Signalling

Signalled == entries \ (Exempt \cup SecureEnv)

(* While the socket is open, what the comms thread works on is the call    *)
(* that the parent waits for.  Once it is shut down the call may return,   *)
(* with an error, before the thread is done with it.                       *)
OneRequest ==
    /\ ~shut /\ call \notin {"suspend", "resume"} => Quiet
    /\ call = "none" /\ result \in {<<"suspend", "ok">>, <<"resume", "ok">>} => Quiet
    /\ responses # <<>> => call \in {"suspend", "resume"} /\ Quiet
    /\ ~shut /\ call = "suspend" => requests # <<"kHostResume">> /\ comms \notin {"resume", "cont"}
    /\ ~shut /\ call = "resume" => requests # <<"kHostSuspend">> /\ comms \notin {"suspend", "tstp"}
    /\ ~shut /\ comms \in Signalling => requests = <<>>

(* What the walk over the entries has done so far stays done: the mutex    *)
(* keeps the main thread from restarting a process.                        *)
WalkEffect ==
    /\ toSignal \cap (Exempt \cup SecureEnv) = {}
    /\ \A c \in Exempt \cup SecureEnv : child[c] # "suspended"
    /\ comms = "tstp" => \A c \in Signalled \ toSignal : child[c] # "running"
    /\ comms = "cont" => \A c \in entries \ toSignal : child[c] # "suspended"

Answered(c) == \/ responses # <<>> /\ call = c
               \/ call = "none" /\ result = <<c, "ok">>

(* The response is sent after the walk, and what it says stays true until  *)
(* the next call.                                                          *)
AnswerEffect ==
    /\ main = "start" => responses = <<>> /\ ~Answered("suspend") /\ ~Answered("resume")
    /\ Answered("suspend") /\ ~restart => \A c \in Signalled : child[c] # "running"
    /\ Answered("resume") => \A c \in entries : child[c] # "suspended"

SuspendInv == OneRequest /\ WalkEffect /\ AnswerEffect

(* Nothing was asked yet.                                                  *)
LEMMA InitSuspendInv == Init => SuspendInv
<1> SUFFICES ASSUME Init PROVE SuspendInv
  OBVIOUS
<1> USE CmdAssumption DEF Init, NoResult, Pid
<1>1. OneRequest
  BY DEF OneRequest, Quiet, Signalling
<1>2. WalkEffect /\ AnswerEffect
  BY DEF WalkEffect, AnswerEffect, Answered, Signalled
<1> QED
  BY <1>1, <1>2 DEF SuspendInv

(* A step that asks nothing, answers nothing and wakes up nobody keeps it. *)
LEMMA CalmStepSuspendInv ==
    ASSUME IInv, IInv', SuspendInv,
           UNCHANGED <<restart, comms, toSignal, requests, responses, parentVars>>,
           shut => shut', entries' \subseteq entries,
           toSignal = {} \/ entries' = entries, main' = "start" => main = "start",
           \A c \in Cmd : \/ child'[c] = child[c]
                          \/ child'[c] \notin Alive
                          \/ child'[c] = "running" /\ restart /\ MutexFree
    PROVE  SuspendInv'
<1> USE CmdAssumption DEF IInv, SuspendInv, TypeOK, Alive, parentVars
<1>1. OneRequest'
  BY DEF OneRequest, Quiet
<1>2. WalkEffect'
  BY DEF WalkEffect, Signalled, MutexFree
<1>3. AnswerEffect'
  BY DEF AnswerEffect, Answered, Signalled
<1> QED
  BY <1>1, <1>2, <1>3

(* Steps of the main thread and of the processes.                          *)
LEMMA MainStepSuspendInv ==
    ASSUME IInv, IInv', SuspendInv, Main \/ Environment PROVE SuspendInv'
<1> USE CmdAssumption DEF Alive, Zombie, Pid, Decoy, Orphan, mainVars, parentVars
<1>1. CASE StartSubprocesses \/ StartFails
  <2>1. /\ main = "start" /\ main' # "start" /\ comms' \notin Signalling
        /\ \A c \in Cmd : child'[c] \in {"absent", "running"}
        /\ UNCHANGED <<restart, entries, toSignal, requests, responses, parentVars>>
        /\ shut => shut'
    BY <1>1 DEF StartSubprocesses, StartFails, Signalling, IInv, Started
  <2>2. /\ comms \notin Signalling /\ responses = <<>>
        /\ ~Answered("suspend") /\ ~Answered("resume")
    BY <2>1 DEF IInv, Started, Signalling, SuspendInv, AnswerEffect
  <2>3. OneRequest'
    BY <2>1, <2>2 DEF SuspendInv, OneRequest, Quiet, Signalling
  <2>4. WalkEffect'
    BY <2>1, <2>2 DEF SuspendInv, WalkEffect, Signalling
  <2>5. AnswerEffect'
    BY <2>1, <2>2 DEF AnswerEffect, Answered
  <2> QED
    BY <2>3, <2>4, <2>5 DEF SuspendInv
<1>2. ASSUME NEW c \in Pid, NEW s \in Zombie, ChildExits(c, s) PROVE SuspendInv'
  BY <1>2, CalmStepSuspendInv DEF ChildExits, IInv, TypeOK
<1>3. CASE LoopCheck \/ AfterWait \/ HandleUnknown \/ WaitFails \/ Shutdown \/ MonitorExits
  BY <1>3, CalmStepSuspendInv DEF LoopCheck, AfterWait, HandleUnknown, WaitFails, Shutdown,
                                  MonitorExits
<1>4. ASSUME NEW c \in Pid, WaitReaps(c) PROVE SuspendInv'
  BY <1>4, CalmStepSuspendInv DEF WaitReaps, IInv, TypeOK
<1>5. CASE HandleRestart
  BY <1>5, CalmStepSuspendInv DEF HandleRestart, IInv, TypeOK
<1>6. CASE HandleErase
  <2>1. /\ UNCHANGED <<restart, child, comms, toSignal, requests, responses, shut, parentVars>>
        /\ entries' \subseteq entries /\ main' # "start"
    BY <1>6 DEF HandleErase
  <2>2. toSignal = {}
    BY <1>6 DEF HandleErase, MutexFree, IInv, Walks
  <2> QED
    BY <2>1, <2>2, CalmStepSuspendInv
<1>7. CASE JoinComms
  BY <1>7, CalmStepSuspendInv DEF JoinComms
<1>8. CASE StopEntry
  <2>1. PICK c : child' = [child EXCEPT ![c] = "reaped"]
    BY <1>8 DEF StopEntry
  <2>2. \A d \in Cmd : child'[d] = child[d] \/ child'[d] \notin Alive
    BY <2>1 DEF IInv, TypeOK
  <2>3. UNCHANGED <<restart, comms, toSignal, requests, responses, shut, entries, main, parentVars>>
    BY <1>8 DEF StopEntry
  <2> QED
    BY <2>2, <2>3, CalmStepSuspendInv
<1> QED
  BY <1>1, <1>2, <1>3, <1>4, <1>5, <1>6, <1>7, <1>8 DEF Main, Environment, Handle

(* There is a first entry to signal, so SuspendResumeImpl picks one.       *)
LEMMA FirstEntry ==
    ASSUME NEW S \in SUBSET Nat, S # {}
    PROVE  (CHOOSE d \in S : \A e \in S : d <= e) \in S
<1> DEFINE R == OpToRel(<, Nat)
<1>1. IsWellFoundedOn(R, Nat)
  BY NatLessThanWellFounded
<1>2. \A a, b \in Nat : a < b => <<a, b>> \in R
  BY DEF OpToRel
<1> HIDE DEF R
<1>3. PICK d \in S : \A e \in S : ~(<<e, d>> \in R)
  BY <1>1, WFMin
<1>4. ASSUME NEW e \in S PROVE d <= e
  <2>1. d \in Nat /\ e \in Nat
    OBVIOUS
  <2>2. ~(e < d)
    BY <1>2, <1>3, <2>1
  <2> QED
    BY <2>1, <2>2
<1> QED
  BY <1>4

(* Steps of the comms thread.                                              *)
LEMMA CommsStepSuspendInv ==
    ASSUME IInv, IInv', SuspendInv, Comms PROVE SuspendInv'
<1> USE CmdAssumption
    DEF Alive, Zombie, Pid, Decoy, Orphan, mainVars, parentVars, SuspendInv, OneRequest,
        WalkEffect, AnswerEffect, Quiet, Signalling, Signalled
<1>1. CASE CommsCheck \/ ReceiveStop \/ ForkDecoy \/ ReceiveFails
  <2>1. /\ comms \notin Signalling /\ comms' \notin Signalling
        /\ requests' \in {requests, <<>>}
        /\ \A c \in Cmd : child'[c] = child[c]
        /\ UNCHANGED <<restart, entries, mainVars, toSignal, responses, shut, parentVars>>
    BY <1>1 DEF CommsCheck, ReceiveStop, ForkDecoy, ReceiveFails, IInv, TypeOK
  <2>2. OneRequest'
    BY <2>1
  <2>3. WalkEffect'
    BY <2>1
  <2>4. AnswerEffect'
    BY <2>1 DEF Answered, IInv, TypeOK
  <2> QED
    BY <2>2, <2>3, <2>4
<1>2. CASE ReceiveSuspendResume
  <2>1. /\ UNCHANGED <<restart, child, entries, mainVars, toSignal, responses, shut, parentVars>>
        /\ requests' = <<>> /\ comms' \in {"suspend", "resume"}
        /\ \/ requests = <<"kHostSuspend">> /\ comms' = "suspend"
           \/ requests = <<"kHostResume">> /\ comms' = "resume"
    BY <1>2 DEF ReceiveSuspendResume
  <2>2. OneRequest'
    BY <2>1
  <2>3. WalkEffect' /\ AnswerEffect'
    BY <2>1 DEF Answered
  <2> QED
    BY <2>2, <2>3
<1>3. CASE AskSecureEnv
  <2>1. /\ comms \in {"suspend", "resume"}
        /\ \/ /\ comms' = IF comms = "suspend" THEN "tstp" ELSE "cont"
              /\ toSignal' = entries \ (Exempt \cup SecureEnv)
           \/ comms' = "failed" /\ toSignal' = toSignal
        /\ UNCHANGED <<restart, child, entries, mainVars, requests, responses, shut, parentVars>>
    BY <1>3 DEF AskSecureEnv
  <2>2. OneRequest'
    BY <2>1
  <2>3. WalkEffect'
    BY <2>1 DEF IInv, TypeOK
  <2>4. AnswerEffect'
    BY <2>1 DEF Answered
  <2> QED
    BY <2>2, <2>3, <2>4
<1>4. CASE SignalEntry
  <2> DEFINE x == CHOOSE d \in toSignal : \A e \in toSignal : d <= e
  <2>1. /\ UNCHANGED <<restart, entries, running, mainVars, requests, responses, shut, parentVars>>
        /\ comms \in {"tstp", "cont"}
        /\ \/ comms' = "failed" /\ toSignal' = {} /\ child' = child
           \/ /\ comms' = comms /\ toSignal' = toSignal \ {x}
              /\ child' = [child EXCEPT ![x] =
                     IF @ \in Zombie THEN @ ELSE IF comms = "tstp" THEN "suspended" ELSE "running"]
    BY <1>4 DEF SignalEntry
  <2>2. x \in toSignal
    BY <1>4, FirstEntry DEF SignalEntry, IInv, TypeOK
  <2> HIDE DEF x
  <2>3. OneRequest'
    BY <2>1
  <2>4. responses = <<>> /\ ~Answered("suspend") /\ ~Answered("resume")
    BY <2>1 DEF Answered
  <2>5. AnswerEffect'
    BY <2>1, <2>4 DEF Answered
  <2>6. WalkEffect'
    <3>1. CASE comms' = "failed"
      BY <2>1, <3>1
    <3>2. CASE comms' = comms
      <4>1. /\ toSignal' = toSignal \ {x}
            /\ \A d \in Cmd \ {x} : child'[d] = child[d]
            /\ x \in Cmd => \/ child'[x] = child[x] /\ child[x] \in Zombie
                            \/ child'[x] = IF comms = "tstp" THEN "suspended" ELSE "running"
        BY <2>1, <3>2 DEF IInv, TypeOK
      <4>2. x \in Signalled /\ Signalled \subseteq Cmd
        BY <2>2 DEF IInv, TypeOK
      <4> QED
        BY <2>1, <3>2, <4>1, <4>2
    <3> QED
      BY <2>1, <3>1, <3>2
  <2> QED
    BY <2>3, <2>5, <2>6
<1>5. CASE Respond
  <2>1. /\ comms \in {"tstp", "cont"} /\ toSignal = {}
        /\ \/ shut /\ comms' = "failed" /\ responses' = responses
           \/ ~shut /\ comms' = "check" /\ responses' = <<"kSuccess">>
        /\ UNCHANGED <<restart, child, entries, mainVars, toSignal, requests, shut, parentVars>>
    BY <1>5 DEF Respond
  <2>2. OneRequest'
    BY <2>1
  <2>3. WalkEffect'
    BY <2>1
  <2>4. AnswerEffect'
    BY <2>1 DEF Answered, IInv, Started
  <2> QED
    BY <2>2, <2>3, <2>4
<1> QED
  BY <1>1, <1>2, <1>3, <1>4, <1>5 DEF Comms

(* Steps of the parent.                                                    *)
LEMMA CallStepSuspendInv ==
    ASSUME IInv, IInv', SuspendInv,
           \/ Returns \/ CallStop
           \/ CallSuspendResume("suspend", "kHostSuspend")
           \/ CallSuspendResume("resume", "kHostResume")
    PROVE  SuspendInv'
<1> USE CmdAssumption
    DEF mainVars, SuspendInv, OneRequest, WalkEffect, AnswerEffect, Quiet, Signalling,
        Signalled, Answered, NoResult
<1>1. CASE StopReturns
  BY <1>1 DEF StopReturns
<1>2. CASE SuspendResumeReturns
  BY <1>2 DEF SuspendResumeReturns
<1>3. CASE CallStop
  BY <1>3 DEF CallStop
<1>4. CASE CallSuspendResume("suspend", "kHostSuspend")
  BY <1>4 DEF CallSuspendResume
<1>5. CASE CallSuspendResume("resume", "kHostResume")
  BY <1>5 DEF CallSuspendResume
<1> QED
  BY <1>1, <1>2, <1>3, <1>4, <1>5 DEF Returns

(* Every step keeps it.                                                    *)
LEMMA StepSuspendInv == IInv /\ SuspendInv /\ [Next]_vars => SuspendInv'
<1> SUFFICES ASSUME IInv, SuspendInv, [Next]_vars PROVE SuspendInv'
  OBVIOUS
<1>1. IInv'
  BY StepIInv
<1>2. CASE UNCHANGED vars
  BY <1>2 DEF vars, mainVars, parentVars, SuspendInv, OneRequest, WalkEffect, AnswerEffect, Quiet,
              Signalled, Answered
<1> QED
  BY <1>1, <1>2, MainStepSuspendInv, CommsStepSuspendInv, CallStepSuspendInv DEF Next

(* A suspend or resume that was answered with kSuccess took effect, and    *)
(* keeps it until the next call, whatever exits, is reaped or is restarted *)
(* meanwhile and whenever the monitor shuts down.                          *)
THEOREM SuspendEffect == Spec => []SuspendTakesEffect
<1>1. SuspendInv => SuspendTakesEffect
  BY DEF SuspendInv, AnswerEffect, Answered, Signalled, SuspendTakesEffect
<1>2. Spec => []SuspendInv
  BY InitIInv, StepIInv, InitSuspendInv, StepSuspendInv, PTL DEF Spec
<1> QED
  BY <1>1, <1>2, PTL

-----------------------------------------------------------------------------
(* Wake-ups *)

(* The flag is cleared by the comms thread, which then forks the process   *)
(* that wakes up the main thread, or by the main thread when it is past    *)
(* the loop.                                                               *)
WakeInv ==
    /\ main = "wait" /\ ~running => comms = "fork" \/ \E c \in Pid : child[c] \in Zombie
    /\ main \in {"join", "stop"} => ~running
    /\ main \notin {"start", "exited"} => comms # "none"
    /\ shut => main \in {"join", "stop", "exited"}
    /\ call = "stop" => main = "exited" \/ ~running \/ requests = <<"kStop">>

(* None of the three that block does so for good because of a wake-up that *)
(* came too early: MonitorLoop is not in wait(2) without a child to reap   *)
(* when it was told to stop, the comms thread does not read an open socket *)
(* when the main thread joins it, and a request to stop stays in the       *)
(* socket until the flag is cleared.                                       *)
NoLostWakeUp ==
    /\ main = "wait" /\ ~running => comms = "fork" \/ \E c \in Pid : child[c] \in Zombie
    /\ main = "join" => ~running /\ shut /\ comms # "none"
    /\ call = "stop" /\ main # "exited" => ~running \/ requests = <<"kStop">>

LEMMA InitWakeInv == Init => WakeInv
  BY DEF Init, WakeInv, NoResult

(* No step of either thread, of the parent or of a process breaks it.      *)
LEMMA StepWakeInv == IInv /\ WakeInv /\ [Next]_vars => WakeInv'
<1> SUFFICES ASSUME IInv, WakeInv, [Next]_vars PROVE WakeInv'
  OBVIOUS
<1>t. child \in [Pid -> Alive \cup Zombie \cup {"absent", "reaped"}]
  BY DEF IInv, TypeOK
<1>p. Decoy \in Pid /\ "exited" \in Zombie
  BY DEF Pid, Zombie
<1> USE DEF WakeInv, mainVars, parentVars
<1>1. CASE StartSubprocesses \/ StartFails
  BY <1>1 DEF StartSubprocesses, StartFails
<1>2. CASE LoopCheck
  BY <1>2 DEF LoopCheck
<1>3. CASE (\E c \in Pid : WaitReaps(c)) \/ WaitFails \/ AfterWait
  BY <1>3 DEF WaitReaps, WaitFails, AfterWait
<1>4. CASE Handle
  BY <1>4 DEF Handle, HandleUnknown, HandleRestart, HandleErase
<1>5. CASE Shutdown \/ JoinComms
  BY <1>5 DEF Shutdown, JoinComms
<1>6. CASE StopEntry
  <2>1. main = "stop" /\ UNCHANGED <<running, main, comms, shut, requests, call>>
    BY <1>6 DEF StopEntry
  <2> QED
    BY <2>1
<1>7. CASE MonitorExits
  BY <1>7 DEF MonitorExits
<1>8. CASE CommsCheck
  BY <1>8 DEF CommsCheck
<1>9. CASE ReceiveStop
  BY <1>9 DEF ReceiveStop
<1>10. CASE ForkDecoy
  <2>1. child'[Decoy] \in Zombie
    BY <1>10, <1>t, <1>p DEF ForkDecoy
  <2>2. comms' = "check" /\ UNCHANGED <<running, main, shut, requests, call>>
    BY <1>10 DEF ForkDecoy
  <2> QED
    BY <1>p, <2>1, <2>2
<1>11. CASE ReceiveSuspendResume
  BY <1>11 DEF ReceiveSuspendResume
<1>12. CASE ReceiveFails \/ AskSecureEnv \/ Respond
  BY <1>12 DEF ReceiveFails, AskSecureEnv, Respond
<1>13. CASE SignalEntry
  <2> DEFINE c == CHOOSE d \in toSignal : \A e \in toSignal : d <= e
  <2>1. /\ comms \in {"tstp", "cont"} /\ comms' \in {comms, "failed"}
        /\ UNCHANGED <<running, main, shut, requests, call>>
    BY <1>13 DEF SignalEntry
  <2>2. \/ child' = child
        \/ child' = [child EXCEPT ![c] =
                        IF @ \in Zombie THEN @ ELSE IF comms = "tstp" THEN "suspended" ELSE "running"]
    BY <1>13 DEF SignalEntry
  <2> HIDE DEF c
  <2>3. \A d \in Pid : child[d] \in Zombie => child'[d] \in Zombie
    BY <1>t, <2>2
  <2> QED
    BY <2>1, <2>3
<1>14. ASSUME NEW c \in Pid, NEW s \in Zombie, ChildExits(c, s) PROVE WakeInv'
  <2>1. /\ child' = [child EXCEPT ![c] = s]
        /\ UNCHANGED <<running, main, comms, shut, requests, call>>
    BY <1>14 DEF ChildExits
  <2>2. \A d \in Pid : child[d] \in Zombie => child'[d] \in Zombie
    BY <1>t, <2>1
  <2> QED
    BY <2>1, <2>2
<1>15. CASE CallStop
  BY <1>15 DEF CallStop
<1>16. CASE Returns
  BY <1>16 DEF Returns, StopReturns, SuspendResumeReturns
<1>17. ASSUME NEW c \in {"suspend", "resume"}, NEW m, CallSuspendResume(c, m) PROVE WakeInv'
  BY <1>17 DEF CallSuspendResume
<1>18. CASE UNCHANGED vars
  BY <1>18 DEF vars
<1> HIDE DEF WakeInv
<1>19. ASSUME Main \/ Comms PROVE WakeInv'
  BY <1>1, <1>2, <1>3, <1>4, <1>5, <1>6, <1>7, <1>8, <1>9, <1>10, <1>11, <1>12, <1>13, <1>19
  DEF Main, Comms
<1> QED
  BY <1>14, <1>15, <1>16, <1>17, <1>18, <1>19 DEF Next, Environment

(* The two threads of the monitor and its parent never sleep through what  *)
(* they wait for, whatever the processes do in the meantime.               *)
THEOREM WakeUpsArrive == Spec => []NoLostWakeUp
<1>1. IInv /\ WakeInv => NoLostWakeUp
  BY DEF IInv, Walks, WakeInv, NoLostWakeUp
<1> QED
  BY <1>1, InitWakeInv, StepWakeInv, Invariance, PTL DEF Spec

-----------------------------------------------------------------------------
(* Everything the loop does to its monitor is a step of the monitor or one *)
(* of its parent's calls.                                                  *)
LEMMA ServerStepIsMonitorStep == [ServerNext]_allVars => [Next]_vars
<1> SUFFICES ASSUME [ServerNext]_allVars PROVE [Next]_vars
  OBVIOUS
<1>1. CASE MonitorStep
  BY <1>1 DEF MonitorStep, Next
<1>2. CASE Serve
  BY <1>2 DEF Serve, SelectMonitor, MonitorReaped, HandleStopOrFail, HandleRestartOrPowerwash,
              HandleSuspend, HandleResume, Next
<1>3. CASE Client
  BY <1>3 DEF Client, Accept, ClientLeaves, AnswerAtOnce, RequestStop, RequestSuspend,
              RequestResume, TakeSnapshot, OtherExtended, Next
<1>4. CASE UNCHANGED allVars
  BY <1>4 DEF allVars
<1> QED
  BY <1>1, <1>2, <1>3, <1>4 DEF ServerNext

(* The server loop is a parent that the monitor can live with: both of the *)
(* monitor's invariants hold under it.                                     *)
THEOREM MonitorInvariantsHold == ServerSpec => [](IInv /\ SuspendInv)
<1>1. ServerInit => IInv /\ SuspendInv
  BY InitIInv, InitSuspendInv DEF ServerInit
<1>2. IInv /\ SuspendInv /\ [ServerNext]_allVars => (IInv /\ SuspendInv)'
  BY StepIInv, StepSuspendInv, ServerStepIsMonitorStep
<1> QED
  BY <1>1, <1>2, PTL DEF ServerSpec

-----------------------------------------------------------------------------
(* A request waits for the call it made, and only then.                    *)
ServerTypes ==
    /\ status \in {"kActive", "kSuspended", "kGuestOff"}
    /\ watching \in BOOLEAN
    /\ guest \in {"running", "suspended"} /\ halfway \in BOOLEAN
    /\ reply \in {"none", "kSuccess", "kError"}
    /\ serve \in {"select", "client", "waiting", "restarted", "exited"}
    /\ ask \in StopRequest \cup {"none", "monitor", "kSuspend", "kResume"}
    /\ (serve = "waiting") <=> (ask # "none")
    /\ call # "none" => serve = "waiting"

(* The monitor is forgotten when it is told to stop, and has exited when   *)
(* that call is over.                                                      *)
StopWaits ==
    /\ call = "stop" => ~monitor
    /\ ~monitor /\ call # "stop" => main = "exited"
    /\ ask \in StopRequest \cup {"monitor"} => ~monitor
    /\ serve \in {"exited", "restarted"} => main = "exited"

(* Which call belongs to which request.                                    *)
Asks ==
    /\ call = "stop" => ask \in StopRequest \cup {"monitor"}
    /\ call = "suspend" => ask = "kSuspend"
    /\ call = "resume" => ask = "kResume"
    /\ ask = "kSuspend" => /\ status = "kActive"
                           /\ call = "none" => result[1] = "suspend"
    /\ ask = "kResume" => /\ status = "kSuspended"
                          /\ call = "none" => result[1] = "resume"
                          /\ call = "none" /\ result[2] = "error" => shut

ServerInv == ServerTypes /\ StopWaits /\ Asks

(* A step of the monitor as the server loop sees it.                       *)
LEMMA MonitorStepServerInv ==
    ASSUME IInv, IInv', ServerInv, MonitorStep PROVE ServerInv'
<1> USE DEF ServerInv, ServerTypes, StopWaits, Asks, StopRequest
<1>1. UNCHANGED <<status, watching, serve, ask, reply, halfway>> /\ guest' \in {"running", "suspended"}
  BY DEF MonitorStep
<1>2. CASE Main \/ Comms \/ Environment
  <2>1. UNCHANGED parentVars
    <3>1. CASE Main
      BY <3>1 DEF Main, StartSubprocesses, StartFails, LoopCheck, WaitReaps, WaitFails, AfterWait,
                  Handle, HandleUnknown, HandleRestart, HandleErase, Shutdown, JoinComms,
                  StopEntry, MonitorExits, parentVars
    <3>2. CASE Comms
      BY <3>2 DEF Comms, CommsCheck, ReceiveStop, ForkDecoy, ReceiveSuspendResume, ReceiveFails,
                  AskSecureEnv, SignalEntry, Respond, parentVars
    <3>3. CASE Environment
      BY <3>3 DEF Environment, ChildExits, parentVars
    <3> QED
      BY <1>2, <3>1, <3>2, <3>3
  <2>2. (main = "exited" => main' = "exited") /\ (shut => shut')
    <3>1. CASE Main
      BY <3>1 DEF Main, StartSubprocesses, StartFails, LoopCheck, WaitReaps, WaitFails, AfterWait,
                  Handle, HandleUnknown, HandleRestart, HandleErase, Shutdown, JoinComms,
                  StopEntry, MonitorExits
    <3>2. CASE Comms
      BY <3>2 DEF Comms, CommsCheck, ReceiveStop, ForkDecoy, ReceiveSuspendResume, ReceiveFails,
                  AskSecureEnv, SignalEntry, Respond, mainVars
    <3>3. CASE Environment
      BY <3>3 DEF Environment, ChildExits, mainVars
    <3> QED
      BY <1>2, <3>1, <3>2, <3>3
  <2> QED
    BY <1>1, <2>1, <2>2 DEF parentVars
<1>3. CASE StopReturns
  BY <1>1, <1>3 DEF StopReturns, mainVars
<1>4. CASE SuspendResumeReturns
  BY <1>1, <1>4 DEF SuspendResumeReturns, mainVars
<1> QED
  BY <1>2, <1>3, <1>4 DEF MonitorStep, Returns

(* Every step of the server loop keeps the correspondence.                 *)
LEMMA StepServerInv ==
    IInv /\ IInv' /\ ServerInv /\ [ServerNext]_allVars => ServerInv'
<1> SUFFICES ASSUME IInv, IInv', ServerInv, [ServerNext]_allVars PROVE ServerInv'
  OBVIOUS
<1> USE DEF ServerInv, ServerTypes, StopWaits, Asks, StopRequest, Wait, Waited, Answer, NoResult
<1>1. CASE MonitorStep
  BY <1>1, MonitorStepServerInv
<1>2. CASE SelectMonitor
  <2>1. ServerTypes'
    <3>1. watching' \in BOOLEAN
      BY <1>2 DEF SelectMonitor
    <3> QED
      BY <1>2, <3>1 DEF SelectMonitor, CallStop
  <2>2. StopWaits'
    BY <1>2 DEF SelectMonitor, CallStop, mainVars
  <2>3. Asks'
    BY <1>2 DEF SelectMonitor, CallStop
  <2> QED
    BY <2>1, <2>2, <2>3
<1>3. CASE MonitorReaped
  BY <1>3 DEF MonitorReaped, vars, mainVars, parentVars
<1>4. CASE HandleStopOrFail
  BY <1>4 DEF HandleStopOrFail, vars, mainVars, parentVars
<1>5. CASE HandleRestartOrPowerwash
  BY <1>5 DEF HandleRestartOrPowerwash, vars, mainVars, parentVars
<1>6. CASE HandleSuspend
  BY <1>6 DEF HandleSuspend, vars, mainVars, parentVars
<1>7. CASE HandleResume
  BY <1>7 DEF HandleResume, vars, mainVars, parentVars
<1>8. CASE Accept \/ ClientLeaves \/ AnswerAtOnce \/ TakeSnapshot \/ OtherExtended
  BY <1>8 DEF Accept, ClientLeaves, AnswerAtOnce, TakeSnapshot, OtherExtended, vars, mainVars,
              parentVars
<1>9. ASSUME NEW a \in StopRequest, RequestStop(a) PROVE ServerInv'
  BY <1>9 DEF RequestStop, CallStop, mainVars
<1>10. CASE RequestSuspend
  BY <1>10 DEF RequestSuspend, CallSuspendResume, vars, mainVars, parentVars
<1>11. CASE RequestResume
  BY <1>11 DEF RequestResume, CallSuspendResume, vars, mainVars, parentVars, IInv, Walks
<1>12. CASE UNCHANGED allVars
  BY <1>12 DEF allVars, serverVars, vars, mainVars, parentVars
<1> QED
  BY <1>1, <1>2, <1>3, <1>4, <1>5, <1>6, <1>7, <1>8, <1>9, <1>10, <1>11, <1>12
     DEF ServerNext, Serve, Client

(* So it holds throughout.                                                 *)
LEMMA ServerInvHolds == ServerSpec => []ServerInv
<1>1. ServerInit => ServerInv
  BY DEF ServerInit, Init, ServerInv, ServerTypes, StopWaits, Asks, StopRequest
<1> QED
  BY <1>1, StepServerInv, MonitorInvariantsHold, PTL DEF ServerSpec

(* The server loop's variables and its monitor's keep their types.         *)
THEOREM ServerTypeCorrect == ServerSpec => []ServerTypeOK
<1>1. IInv /\ ServerInv => ServerTypeOK
  BY DEF IInv, ServerInv, ServerTypes, ServerTypeOK
<1> QED
  BY <1>1, MonitorInvariantsHold, ServerInvHolds, PTL

(* When run_cvd has ended, or executes itself, after it told a client of a *)
(* success, every host process it started is dead, for any number of them  *)
(* and whichever stop it was, unless the monitor gave up while it started  *)
(* them.                                                                   *)
THEOREM StopIsDeath == ServerSpec => []StopMeansDead
<1>1. IInv /\ ServerInv => StopMeansDead
  BY DEF IInv, AliveIsKnown, ServerInv, StopWaits, StopMeansDead, StartFailed
<1> QED
  BY <1>1, MonitorInvariantsHold, ServerInvHolds, PTL

-----------------------------------------------------------------------------
(* The status is kSuspended only while nothing has woken up a part of the  *)
(* device: the guest stays suspended (the virtual machine monitor is not   *)
(* restarted), and the monitor signals nobody until a resume is asked for. *)
(* A resume that fails after that is on record, until one succeeds and the *)
(* device is active again.                                                 *)
Frozen ==
    /\ main = "start" => status = "kActive"
    /\ status = "kActive" => ~halfway
    /\ (status = "kSuspended" \/ ask = "kSuspend") /\ ~restart /\ ~halfway => guest = "suspended"
    /\ status = "kSuspended" /\ ~restart /\ ~shut /\ GuestAlive /\ serve # "waiting" /\ ~halfway
          => \A c \in Signalled : child[c] # "running"

(* A step of the monitor while it resumes nothing wakes up nobody, unless  *)
(* processes are restarted.                                                *)
LEMMA QuietStepWakesNobody ==
    ASSUME IInv, Main \/ Comms \/ Returns \/ Environment,
           main # "start", ~restart, comms # "cont"
    PROVE  /\ \A c \in Cmd : child'[c] = "running" => child[c] = "running"
           /\ entries' \subseteq entries
<1> USE CmdAssumption DEF IInv, TypeOK, Alive, Zombie, Pid, Decoy, Orphan
<1>1. CASE Main
  BY <1>1 DEF Main, StartSubprocesses, StartFails, LoopCheck, WaitReaps, WaitFails, AfterWait,
              Handle, HandleUnknown, HandleRestart, HandleErase, Shutdown, JoinComms,
              StopEntry, MonitorExits
<1>2. CASE Comms
  BY <1>2 DEF Comms, CommsCheck, ReceiveStop, ForkDecoy, ReceiveSuspendResume, ReceiveFails,
              AskSecureEnv, SignalEntry, Respond
<1>3. CASE Returns
  BY <1>3 DEF Returns, StopReturns, SuspendResumeReturns
<1>4. CASE Environment
  BY <1>4 DEF Environment, ChildExits
<1> QED
  BY <1>1, <1>2, <1>3, <1>4

(* Without restarts, nobody comes back to life.                            *)
LEMMA NobodyComesBack ==
    ASSUME IInv, Main \/ Comms \/ Returns \/ Environment, main # "start", ~restart
    PROVE  \A c \in Cmd : child'[c] \in Alive => child[c] \in Alive
<1> USE CmdAssumption DEF IInv, TypeOK, Started, Alive, Zombie, Pid, Decoy, Orphan
<1>1. CASE Main
  BY <1>1 DEF Main, StartSubprocesses, StartFails, LoopCheck, WaitReaps, WaitFails, AfterWait,
              Handle, HandleUnknown, HandleRestart, HandleErase, Shutdown, JoinComms,
              StopEntry, MonitorExits
<1>2. CASE Comms
  <2>1. CASE SignalEntry
    <3>1. comms # "none"
      BY <2>1 DEF SignalEntry
    <3> DEFINE x == CHOOSE d \in toSignal : \A e \in toSignal : d <= e
    <3>2. \/ child' = child
          \/ /\ child[x] # "reaped"
             /\ child' = [child EXCEPT ![x] =
                    IF @ \in Zombie THEN @ ELSE IF comms = "tstp" THEN "suspended" ELSE "running"]
      BY <2>1 DEF SignalEntry
    <3> HIDE DEF x
    <3> QED
      BY <3>1, <3>2
  <2> QED
    BY <1>2, <2>1 DEF Comms, CommsCheck, ReceiveStop, ForkDecoy, ReceiveSuspendResume, ReceiveFails,
                AskSecureEnv, Respond
<1>3. CASE Returns
  BY <1>3 DEF Returns, StopReturns, SuspendResumeReturns
<1>4. CASE Environment
  BY <1>4 DEF Environment, ChildExits
<1> QED
  BY <1>1, <1>2, <1>3, <1>4

(* Every step of the server loop and of its monitor keeps it frozen.       *)
LEMMA StepFrozen ==
    ASSUME IInv, IInv', SuspendInv, ServerInv, Frozen, [ServerNext]_allVars
    PROVE  Frozen'
<1> USE DEF ServerInv, ServerTypes, StopWaits, Asks, StopRequest, Wait, Waited, Answer
<1>1. CASE MonitorStep
  <2>1. /\ UNCHANGED <<status, watching, serve, ask, reply, halfway>>
        /\ guest' = IF \E c \in Vmm : child[c] = "reaped" /\ child'[c] = "running"
                    THEN "running" ELSE guest
        /\ Main \/ Comms \/ Returns \/ Environment
    BY <1>1 DEF MonitorStep
  <2>2. restart' = restart /\ (main' = "start" => main = "start") /\ (shut => shut')
    <3>1. CASE Main
      BY <3>1 DEF Main, StartSubprocesses, StartFails, LoopCheck, WaitReaps, WaitFails, AfterWait,
                  Handle, HandleUnknown, HandleRestart, HandleErase, Shutdown, JoinComms,
                  StopEntry, MonitorExits
    <3>2. CASE Comms
      BY <3>2 DEF Comms, CommsCheck, ReceiveStop, ForkDecoy, ReceiveSuspendResume, ReceiveFails,
                  AskSecureEnv, SignalEntry, Respond, mainVars
    <3>3. CASE Returns \/ Environment
      BY <3>3 DEF Returns, StopReturns, SuspendResumeReturns, Environment, ChildExits, mainVars
    <3> QED
      BY <2>1, <3>1, <3>2, <3>3
  <2>3. ~restart => guest' = guest
    <3> SUFFICES ASSUME ~restart PROVE ~\E c \in Vmm : child[c] = "reaped" /\ child'[c] = "running"
      BY <2>1
    <3>1. Vmm \subseteq Cmd
      BY CmdAssumption
    <3>2. CASE main = "start"
      BY <3>1, <3>2 DEF IInv, Started
    <3>3. CASE main # "start"
      BY <2>1, <3>1, <3>3, NobodyComesBack DEF Alive
    <3> QED
      BY <3>2, <3>3
  <2>4. ASSUME status = "kSuspended", ~restart, ~shut', GuestAlive', serve # "waiting", ~halfway
        PROVE  \A c \in Signalled' : child'[c] # "running"
    <3>1. main # "start" /\ ~shut /\ call = "none"
      BY <2>2, <2>4 DEF Frozen
    <3>2. GuestAlive
      BY <2>1, <2>4, <3>1, NobodyComesBack, CmdAssumption DEF GuestAlive
    <3>3. comms # "cont"
      BY <3>1 DEF SuspendInv, OneRequest, Quiet, Signalling
    <3>4. \A c \in Signalled : child[c] # "running"
      BY <2>4, <3>1, <3>2 DEF Frozen
    <3>5. entries' \subseteq entries /\ \A c \in Cmd : child'[c] = "running" => child[c] = "running"
      BY <2>1, <2>4, <3>1, <3>3, QuietStepWakesNobody
    <3> QED
      BY <3>4, <3>5 DEF Signalled, IInv, TypeOK
  <2> QED
    BY <2>1, <2>2, <2>3, <2>4 DEF Frozen
<1>2. CASE SelectMonitor
  BY <1>2 DEF Frozen, SelectMonitor, CallStop, mainVars
<1>3. CASE MonitorReaped
  BY <1>3 DEF Frozen, MonitorReaped, vars, mainVars, IInv, Walks
<1>4. CASE HandleStopOrFail \/ HandleRestartOrPowerwash
  BY <1>4 DEF Frozen, HandleStopOrFail, HandleRestartOrPowerwash, vars, mainVars, IInv, Walks
<1>5. CASE HandleSuspend
  <2>1. /\ UNCHANGED <<vars, guest, halfway>> /\ ask = "kSuspend" /\ call = "none" /\ ask' = "none"
        /\ \/ result[2] = "ok" /\ status' = "kSuspended"
           \/ status' = status
    BY <1>5 DEF HandleSuspend
  <2>2. result \in {"none", "stop", "suspend", "resume"} \X {"ok", "error"}
    BY DEF IInv, TypeOK
  <2>3. CASE result[2] = "ok"
    <3>1. result = <<"suspend", "ok">>
      BY <2>1, <2>2, <2>3
    <3>2. main # "start" /\ (~restart => \A c \in Signalled : child[c] # "running")
      BY <2>1, <3>1 DEF SuspendInv, AnswerEffect, Answered
    <3> QED
      BY <2>1, <3>2 DEF Frozen, vars, mainVars, Signalled
  <2>4. CASE status' = status
    BY <2>1, <2>4 DEF Frozen, vars, mainVars
  <2> QED
    BY <2>1, <2>3, <2>4
<1>6. CASE HandleResume
  <2>1. UNCHANGED vars /\ ask' = "none" /\ ask = "kResume" /\ call = "none"
    BY <1>6 DEF HandleResume
  <2>2. status = "kSuspended" /\ main # "start"
    BY <2>1 DEF Frozen
  <2>3. \/ halfway' /\ status' = status
        \/ status' = "kActive" /\ halfway' = FALSE
        \/ shut /\ UNCHANGED <<status, guest, halfway>>
    <3>1. result[2] \in {"ok", "error"}
      BY DEF IInv, TypeOK
    <3> QED
      BY <1>6, <2>1, <3>1 DEF HandleResume
  <2>4. CASE halfway' /\ status' = status
    BY <2>1, <2>2, <2>4 DEF Frozen, vars, mainVars
  <2>5. CASE status' = "kActive" /\ halfway' = FALSE
    BY <2>1, <2>2, <2>5 DEF Frozen, vars, mainVars
  <2>6. CASE shut /\ UNCHANGED <<status, guest, halfway>>
    BY <2>1, <2>2, <2>6 DEF Frozen, vars, mainVars
  <2> QED
    BY <2>3, <2>4, <2>5, <2>6
<1>7. CASE Accept \/ ClientLeaves \/ AnswerAtOnce \/ TakeSnapshot \/ OtherExtended
  BY <1>7 DEF Frozen, Accept, ClientLeaves, AnswerAtOnce, TakeSnapshot, OtherExtended, vars,
              mainVars, GuestAlive, Signalled
<1>8. ASSUME NEW a \in StopRequest, RequestStop(a) PROVE Frozen'
  BY <1>8 DEF Frozen, RequestStop, CallStop, mainVars
<1>9. CASE RequestSuspend
  BY <1>9 DEF Frozen, RequestSuspend, CallSuspendResume, vars, mainVars, GuestAlive, Signalled
<1>10. CASE RequestResume
  BY <1>10 DEF Frozen, RequestResume, CallSuspendResume, vars, mainVars, GuestAlive, Signalled
<1>11. CASE UNCHANGED allVars
  BY <1>11 DEF Frozen, allVars, serverVars, vars, mainVars, GuestAlive, Signalled
<1> QED
  BY <1>1, <1>2, <1>3, <1>4, <1>5, <1>6, <1>7, <1>8, <1>9, <1>10, <1>11
     DEF ServerNext, Serve, Client

(* A device whose status is kSuspended is frozen, for any host processes   *)
(* and whatever exits, fails or is asked of run_cvd meanwhile, until a     *)
(* resume fails halfway.                                                   *)
THEOREM SuspendedIsFrozen ==
    ServerSpec => []SuspendedMeansFrozen
<1>1. ServerInit => Frozen
  BY DEF ServerInit, Init, Frozen, StopRequest
<1>2. IInv /\ IInv' /\ SuspendInv /\ ServerInv /\ Frozen /\ [ServerNext]_allVars => Frozen'
  BY StepFrozen
<1>3. ServerSpec => []Frozen
  BY <1>1, <1>2, MonitorInvariantsHold, ServerInvHolds, PTL DEF ServerSpec
<1>4. Frozen => SuspendedMeansFrozen
  BY DEF Frozen, Signalled, SuspendedMeansFrozen
<1> QED
  BY <1>3, <1>4, PTL
=============================================================================
