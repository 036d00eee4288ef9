----------------------------- MODULE ServerLoop -----------------------------
(***************************************************************************)
(* The server loop of run_cvd (run_cvd/server_loop_impl.cpp and            *)
(* server_loop_impl_snapshot.cpp) on top of its process monitor: it waits  *)
(* for the monitor to exit or for a client of the launcher socket, and     *)
(* serves one client at a time.  Parts of a suspend or resume that are     *)
(* programs run on the side (adb, crosvm) may fail, if Faults says so.     *)
(***************************************************************************)
EXTENDS ProcessMonitor

CONSTANT Faults    \* which of the programs run on the side may fail

ASSUME FaultsAssumption ==
    Faults \subseteq {"pre_suspend", "crosvm_suspend", "crosvm_resume", "post_resume"}

VARIABLES status,    \* device_status_
          watching,  \* process_monitor_active
          guest,     \* whether the virtual machine runs or is suspended
          serve,     \* where the loop is
          ask,       \* the request being served
          reply,     \* the last response sent to the client
          halfway    \* history: a resume failed halfway, none succeeded since

serverVars == <<status, watching, guest, serve, ask, reply, halfway>>
allVars == <<vars, serverVars>>

StopRequest == {"kStop", "kFail", "kPowerwash", "kRestart"}

ServerTypeOK ==
    /\ TypeOK
    /\ status \in {"kActive", "kSuspended", "kGuestOff"}
    /\ watching \in BOOLEAN
    /\ guest \in {"running", "suspended"} /\ halfway \in BOOLEAN
    /\ serve \in {"select", "client", "waiting", "restarted", "exited"}
    /\ ask \in StopRequest \cup {"none", "monitor", "kSuspend", "kResume"}
    /\ reply \in {"none", "kSuccess", "kError"}
    /\ (serve = "waiting") <=> (ask # "none")
    /\ call # "none" => serve = "waiting"

ServerInit ==
    /\ Init
    /\ status = "kActive" /\ watching = TRUE
    /\ guest = "running" /\ halfway = FALSE
    /\ serve = "select" /\ ask = "none" /\ reply = "none"

(* The monitor's steps; a virtual machine monitor that is restarted boots. *)
MonitorStep ==
    /\ Main \/ Comms \/ Returns \/ Environment
    /\ guest' = IF \E c \in Vmm : child[c] = "reaped" /\ child'[c] = "running"
                THEN "running" ELSE guest
    /\ UNCHANGED <<status, watching, serve, ask, reply, halfway>>

Wait(a) == serve' = "waiting" /\ ask' = a

Waited(A) == serve = "waiting" /\ ask \in A /\ call = "none"

(* Send the response and go on with the client or, for an extended action, *)
(* close the connection.                                                   *)
Answer(r, next) == reply' = r /\ serve' = next /\ ask' = "none"

-----------------------------------------------------------------------------
(* Run *)

SelectMonitor ==
    /\ serve = "select" /\ watching /\ main = "exited"
    /\ watching' = FALSE
    /\ CallStop
    /\ Wait("monitor")
    /\ UNCHANGED <<status, guest, reply, halfway>>

(* An error ends Run, and run_cvd with it.                                 *)
MonitorReaped ==
    /\ Waited({"monitor"})
    /\ \/ result[2] = "ok" /\ status' = "kGuestOff" /\ serve' = "select"
       \/ result[2] = "error" /\ serve' = "exited" /\ UNCHANGED status
    /\ ask' = "none"
    /\ UNCHANGED <<vars, watching, guest, reply, halfway>>

Accept ==
    /\ serve = "select" /\ ~(watching /\ main = "exited")
    /\ serve' = "client" /\ reply' = "none"
    /\ UNCHANGED <<vars, status, watching, guest, ask, halfway>>

ClientLeaves ==
    /\ serve = "client"
    /\ serve' = "select" /\ reply' = "none"
    /\ UNCHANGED <<vars, status, watching, guest, ask, halfway>>

-----------------------------------------------------------------------------
(* HandleActionWithNoData *)

(* Requests answered at once: a status, or a powerwash without an overlay  *)
(* and an action that is not known.                                        *)
AnswerAtOnce ==
    /\ serve = "client"
    /\ \E r \in {"kSuccess", "kError"} : Answer(r, "client")
    /\ UNCHANGED <<vars, status, watching, guest, halfway>>

RequestStop(a) ==
    /\ serve = "client"
    /\ CallStop
    /\ Wait(a)
    /\ UNCHANGED <<status, watching, guest, reply, halfway>>

HandleStopOrFail ==
    /\ Waited({"kStop", "kFail"})
    /\ IF result[2] = "ok" THEN Answer("kSuccess", "exited") ELSE Answer("kError", "client")
    /\ UNCHANGED <<vars, status, watching, guest, halfway>>

(* After a successful stop a powerwash may still fail to make the files    *)
(* anew; otherwise run_cvd executes itself, and dies if it cannot.         *)
HandleRestartOrPowerwash ==
    /\ Waited({"kRestart", "kPowerwash"})
    /\ \/ result[2] = "error" /\ Answer("kError", "client")
       \/ result[2] = "ok" /\ ask = "kPowerwash" /\ Answer("kError", "client")
       \/ result[2] = "ok" /\ Answer("kSuccess", "restarted")
       \/ result[2] = "ok" /\ Answer("kError", "exited")
    /\ UNCHANGED <<vars, status, watching, guest, halfway>>

-----------------------------------------------------------------------------
(* HandleExtended *)

GuestAlive == \E c \in Vmm : child[c] \in Alive

(* The hook, then the guest, then the host processes: the first that fails *)
(* ends the request, with what was done so far left as it is.              *)
RequestSuspend ==
    /\ serve = "client"
    /\ \/ /\ status = "kGuestOff" \/ ~GuestAlive
             \/ Faults \cap {"pre_suspend", "crosvm_suspend"} # {}
          /\ status # "kSuspended"
          /\ Answer("kError", "select")
          /\ UNCHANGED <<vars, guest>>
       \/ /\ status = "kSuspended"
          /\ Answer("kSuccess", "select")
          /\ UNCHANGED <<vars, guest>>
       \/ /\ status = "kActive" /\ GuestAlive
          /\ guest' = "suspended"
          /\ CallSuspendResume("suspend", "kHostSuspend")
          /\ Wait("kSuspend")
          /\ UNCHANGED reply
    /\ UNCHANGED <<status, watching, halfway>>

HandleSuspend ==
    /\ Waited({"kSuspend"})
    /\ \/ result[2] = "ok" /\ status' = "kSuspended" /\ Answer("kSuccess", "select")
       \/ result[2] = "error" /\ UNCHANGED status /\ Answer("kError", "select")
    /\ UNCHANGED <<vars, watching, guest, halfway>>

(* The host processes, then the guest, then the hook.                      *)
RequestResume ==
    /\ serve = "client"
    /\ \/ status = "kGuestOff" /\ Answer("kError", "select") /\ UNCHANGED vars
       \/ status = "kActive" /\ Answer("kSuccess", "select") /\ UNCHANGED vars
       \/ /\ status = "kSuspended"
          /\ CallSuspendResume("resume", "kHostResume")
          /\ Wait("kResume")
          /\ UNCHANGED reply
    /\ UNCHANGED <<status, watching, guest, halfway>>

HandleResumeKeepsStatus ==
    /\ Waited({"kResume"})
    /\ result[2] = "ok" /\ GuestAlive
    /\ guest' = "running"
    /\ Answer("kSuccess", "select")
    /\ halfway' = FALSE
    /\ UNCHANGED <<vars, status, watching>>

(* A failure leaves the status as it is, with the host processes resumed   *)
(* and, when it is the hook that failed, the guest too.                    *)
HandleResume ==
    /\ Waited({"kResume"})
    /\ \/ /\ result[2] = "error" \/ "crosvm_resume" \in Faults \/ ~GuestAlive
          /\ halfway' = (halfway \/ result[2] = "ok")
          /\ Answer("kError", "select")
          /\ UNCHANGED <<status, guest>>
       \/ /\ result[2] = "ok" /\ GuestAlive /\ "post_resume" \in Faults
          /\ guest' = "running" /\ halfway' = TRUE
          /\ Answer("kError", "select")
          /\ UNCHANGED status
       \/ /\ result[2] = "ok" /\ GuestAlive
          /\ guest' = "running" /\ halfway' = FALSE
          /\ status' = "kActive"
          /\ Answer("kSuccess", "select")
    /\ UNCHANGED <<vars, watching>>

TakeSnapshot ==
    /\ serve = "client" /\ status = "kSuspended" /\ GuestAlive
    /\ Answer("kSuccess", "select")
    /\ UNCHANGED <<vars, status, watching, guest, halfway>>

(* A snapshot that is refused or fails, and the recording and screenshot   *)
(* actions, which work on an active device only and change nothing here.   *)
OtherExtended ==
    /\ serve = "client"
    /\ \/ Answer("kError", "select")
       \/ status = "kActive" /\ Answer("kSuccess", "select")
    /\ UNCHANGED <<vars, status, watching, guest, halfway>>

-----------------------------------------------------------------------------
Serve ==
    \/ SelectMonitor \/ MonitorReaped
    \/ HandleStopOrFail \/ HandleRestartOrPowerwash \/ HandleSuspend \/ HandleResume

Client ==
    \/ Accept \/ ClientLeaves \/ AnswerAtOnce
    \/ \E a \in StopRequest : RequestStop(a)
    \/ RequestSuspend \/ RequestResume \/ TakeSnapshot \/ OtherExtended

ServerNext == MonitorStep \/ Serve \/ Client

(* run_cvd and its monitor run on; clients come, ask and leave as they     *)
(* please.                                                                 *)
ServerFairness ==
    /\ WF_allVars(Main /\ MonitorStep) /\ WF_allVars(Comms /\ MonitorStep)
    /\ WF_allVars(Returns /\ MonitorStep) /\ SF_allVars(Handle /\ MonitorStep)
    /\ WF_allVars(Serve)

ServerSpec == ServerInit /\ [][ServerNext]_allVars /\ ServerFairness

-----------------------------------------------------------------------------
(* Properties *)

(* The monitor gave up while starting: it exited with code 1 and stopped   *)
(* nothing.  What it had started is sent SIGHUP and may survive it.        *)
StartFailed == main = "exited" /\ comms = "none"

(* A client that is told kSuccess for a stop, restart or powerwash can     *)
(* rely on it, also when an earlier stop failed and run_cvd has forgotten  *)
(* its monitor: run_cvd is gone and so is every host process it started.   *)
(* The exception is a device whose host processes could not all be         *)
(* started: its first stop is answered kError, and the next one kSuccess   *)
(* though nobody has stopped what runs.                                    *)
StopMeansDead ==
    serve \in {"exited", "restarted"} /\ reply = "kSuccess"
        => StartFailed \/ \A c \in Cmd : child[c] \notin Alive

(* A device reported as suspended is: its guest is suspended and so are    *)
(* its host processes.  The exceptions are a virtual machine that died, a  *)
(* monitor that is shutting down (a critical process exited; a resume that *)
(* arrives then still wakes up the rest), host processes that run_cvd      *)
(* restarts, which come back running, and a resume that failed after it    *)
(* woke up the host processes, which leaves the status as it was: the      *)
(* device stays reported as suspended until a resume succeeds.             *)
SuspendedMeansFrozen ==
    status = "kSuspended" /\ serve # "waiting" /\ ~restart /\ ~shut /\ GuestAlive =>
        \/ halfway
        \/ /\ guest = "suspended"
           /\ \A c \in entries \ (Exempt \cup SecureEnv) : child[c] # "running"

(* A request to stop, restart or powerwash gets its answer, whatever the   *)
(* host processes do meanwhile.                                            *)
StopAnswered ==
    (serve = "waiting" /\ ask \in StopRequest) ~> (serve # "waiting")

=============================================================================
