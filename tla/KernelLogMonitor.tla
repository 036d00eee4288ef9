-------------------------- MODULE KernelLogMonitor --------------------------
(***************************************************************************)
(* kernel_log_monitor (host/commands/kernel_log_monitor): it reads the     *)
(* guest's console from a FIFO, a line at a time, and writes the events it *)
(* recognises to the pipe of every subscriber, in turn.  run_cvd and the   *)
(* process monitor it forks keep both ends of every one of these pipes     *)
(* open, so a write never fails: it waits until the pipe has room, and a   *)
(* reader never sees the end of the file.                                  *)
(***************************************************************************)
EXTENDS Naturals, Sequences

CONSTANTS Subscribers,  \* a sequence: the pipes of -subscriber_fds, in order
          FifoSize,     \* lines that fit in the FIFO
          PipeSize,     \* events that fit in the pipe of a subscriber
          MaxLines,     \* bound: lines that the guest writes
          MaxFaults     \* bound: times that the monitor dies or loses a line

Subs == {Subscribers[i] : i \in DOMAIN Subscribers}

ASSUME KernelLogAssumption ==
    /\ Subscribers \in Seq(Subs) /\ Subscribers # <<>>
    /\ FifoSize \in Nat \ {0} /\ PipeSize \in Nat \ {0}
    /\ MaxLines \in Nat /\ MaxFaults \in Nat

VARIABLES fifo,   \* lines the guest wrote and nobody read
          lines,  \* how many lines it wrote (bound)
          first,  \* the first of them that tells how the boot went (history)
          kmon,   \* "alive" or "dead"
          todo,   \* events of the line being handled that are still to be sent
          idx,    \* the subscriber that is served next
          pipe,   \* events in the pipe of every subscriber
          deaths, \* how often the monitor died (history)
          lost    \* whether it dropped a line that held an event (history)

logVars == <<fifo, lines, first, kmon, todo, idx, pipe, deaths, lost>>

(* Lines without an event are left out; of those with an event that run_cvd *)
(* ignores the one that makes two events stands for all.                   *)
Line == {"BootCompleted", "BootFailed", "HibernationExit"}

FinalLine == {"BootCompleted", "BootFailed"}

Event == {"HibernationExited", "AdbdStarted", "BootCompleted", "BootFailed"}

(* What is left in a pipe of an event whose length was written and whose   *)
(* body was not.                                                           *)
Torn == "torn"

(* kStageTable *)
StageEvents(line) ==
    IF line = "HibernationExit" THEN <<"HibernationExited", "AdbdStarted">> ELSE <<line>>

LogTypeOK ==
    /\ fifo \in Seq(Line) /\ Len(fifo) <= FifoSize
    /\ lines \in 0..MaxLines /\ first \in FinalLine \cup {"none"}
    /\ kmon \in {"alive", "dead"}
    /\ todo \in Seq(Event)
    /\ idx \in DOMAIN Subscribers
    /\ pipe \in [Subs -> Seq(Event \cup {Torn})]
    /\ \A s \in Subs : Len(pipe[s]) <= PipeSize
    /\ deaths \in 0..MaxFaults /\ lost \in BOOLEAN

LogInit ==
    /\ fifo = <<>> /\ lines = 0 /\ first = "none"
    /\ kmon = "alive" /\ todo = <<>> /\ idx = 1
    /\ pipe = [s \in Subs |-> <<>>]
    /\ deaths = 0 /\ lost = FALSE

FaultsLeft == deaths + (IF lost THEN 1 ELSE 0) < MaxFaults

(* A guest that finds the FIFO full waits.                                 *)
GuestWrites(line) ==
    /\ Len(fifo) < FifoSize /\ lines < MaxLines
    /\ fifo' = Append(fifo, line) /\ lines' = lines + 1
    /\ first' = IF first = "none" /\ line \in FinalLine THEN line ELSE first
    /\ UNCHANGED <<kmon, todo, idx, pipe, deaths, lost>>

(* A line that could not be copied to the log file (line_ and the rest of  *)
(* the buffer with it) is not looked at any further.                       *)
HandleIncomingMessage ==
    /\ kmon = "alive" /\ todo = <<>> /\ fifo # <<>>
    /\ fifo' = Tail(fifo)
    /\ \/ todo' = StageEvents(Head(fifo)) /\ UNCHANGED lost
       \/ FaultsLeft /\ lost' = TRUE /\ UNCHANGED todo
    /\ UNCHANGED <<lines, first, kmon, idx, pipe, deaths>>

(* The callback of the next subscriber, and the next event after the last. *)
ProcessSubscriptions ==
    /\ kmon = "alive" /\ todo # <<>>
    /\ LET s == Subscribers[idx] IN
        /\ Len(pipe[s]) < PipeSize
        /\ pipe' = [pipe EXCEPT ![s] = Append(@, Head(todo))]
    /\ IF idx < Len(Subscribers) THEN idx' = idx + 1 /\ UNCHANGED todo
                                 ELSE idx' = 1 /\ todo' = Tail(todo)
    /\ UNCHANGED <<fifo, lines, first, kmon, deaths, lost>>

(* The process dies, possibly between the two writes of WriteEvent.        *)
MonitorDies ==
    /\ kmon = "alive" /\ FaultsLeft
    /\ kmon' = "dead" /\ todo' = <<>> /\ idx' = 1
    /\ deaths' = deaths + 1
    /\ \/ UNCHANGED pipe
       \/ LET s == Subscribers[idx] IN
            /\ todo # <<>> /\ Len(pipe[s]) < PipeSize
            /\ pipe' = [pipe EXCEPT ![s] = Append(@, Torn)]
    /\ UNCHANGED <<fifo, lines, first, lost>>

MonitorRestarted ==
    /\ kmon = "dead"
    /\ kmon' = "alive"
    /\ UNCHANGED <<fifo, lines, first, todo, idx, pipe, deaths, lost>>

(* ReadEvent: behind a torn event the reader takes bytes of the next one   *)
(* for its body, and waits for them if they are not there.                 *)
EventReady(s) == pipe[s] # <<>> /\ (Head(pipe[s]) = Torn => Len(pipe[s]) > 1)

ReadEvent(s) ==
    /\ EventReady(s)
    /\ pipe' = [pipe EXCEPT ![s] = Tail(@)]
    /\ UNCHANGED <<fifo, lines, first, kmon, todo, idx, deaths, lost>>
=============================================================================
