-------------------------- MODULE InterruptListener --------------------------
(***************************************************************************)
(* The interrupt listener stack of cvd (utils/interrupt_listener.cpp).     *)
(* A signal handler, which may run on several threads at once, passes      *)
(* signals over a socket to a background thread, the runner, which calls   *)
(* the listener on top of the stack.  The write end of the socket is in an *)
(* atomic variable that the handler and the thread that starts and stops   *)
(* the handling exchange values with, so that whoever comes last closes    *)
(* it.  A descriptor is the number of the session it was made for, so one  *)
(* that is used after it was closed is never taken for a newer one.        *)
(***************************************************************************)
EXTENDS Integers, FiniteSets

CONSTANTS Thread,       \* threads that signals may be delivered to
          Sig,          \* SIGINT, SIGHUP, SIGTERM; each is sent once
          MaxSessions,  \* bound: times handling is started
          MaxListeners  \* bound: listeners on the stack

ASSUME BoundsAssumption == MaxSessions \in Nat /\ MaxListeners \in Nat \ {0}
ASSUME SigAssumption == Sig # {}

CLOSED_FD == -1
FD_IN_USE == -2

VARIABLES writeEnd,   \* signal_socket_pair_write_end
          open,       \* write ends that are open
          installed,  \* signals SignalHandler is installed for
          at, fd, sig,  \* each thread in SignalHandler: where, write_end, signal
          loc,        \* where each signal is
          stack,      \* size of listener_stack
          main,       \* where the thread that pushes and pops is
          session,    \* times handling was started
          runner,     \* where the runner thread is
          misused,    \* history: a write end was used or closed when not open
          killed      \* a signal took its default action

handler == <<at, fd, sig>>
vars == <<writeEnd, open, installed, handler, loc, stack, main, session, runner, misused, killed>>

TypeOK ==
    /\ writeEnd \in {CLOSED_FD, FD_IN_USE} \cup 1..MaxSessions
    /\ open \subseteq 1..session
    /\ installed \subseteq Sig
    /\ at \in [Thread -> {"out", "take", "send", "give", "check", "close"}]
    /\ fd \in [Thread -> {CLOSED_FD, FD_IN_USE} \cup 1..MaxSessions]
    /\ sig \in [Thread -> Sig]
    /\ loc \in [Sig -> {"unsent", "pending", "handler", "socket", "runner", "heard", "lost"}]
    /\ stack \in 0..MaxListeners /\ session \in 0..MaxSessions
    /\ main \in {"idle", "install", "uninstall", "exchange", "join", "pop"}
    /\ runner \in {"none", "recv", "call", "ended"}
    /\ misused \in BOOLEAN /\ killed \in BOOLEAN

Init ==
    /\ writeEnd = CLOSED_FD /\ open = {}
    /\ installed = {}
    /\ at = [t \in Thread |-> "out"]
    /\ fd = [t \in Thread |-> CLOSED_FD]
    /\ sig = [t \in Thread |-> CHOOSE s \in Sig : TRUE]
    /\ loc = [s \in Sig |-> "unsent"]
    /\ stack = 0 /\ main = "idle" /\ session = 0
    /\ runner = "none"
    /\ misused = FALSE /\ killed = FALSE

-----------------------------------------------------------------------------
(* Signals.  One that arrives while its handler is not installed kills the *)
(* process; while a thread is in the handler all three are blocked in it.  *)

SendSignal(s) ==
    /\ loc[s] = "unsent"
    /\ loc' = [loc EXCEPT ![s] = "pending"]
    /\ UNCHANGED <<writeEnd, open, installed, handler, stack, main, session, runner, misused, killed>>

Deliver(t, s) ==
    /\ loc[s] = "pending" /\ s \in installed /\ at[t] = "out"
    /\ at' = [at EXCEPT ![t] = "take"]
    /\ sig' = [sig EXCEPT ![t] = s]
    /\ loc' = [loc EXCEPT ![s] = "handler"]
    /\ UNCHANGED <<writeEnd, open, installed, fd, stack, main, session, runner, misused, killed>>

DefaultAction(s) ==
    /\ loc[s] = "pending" /\ s \notin installed
    /\ killed' = TRUE
    /\ UNCHANGED <<writeEnd, open, installed, handler, loc, stack, main, session, runner, misused>>

(* SignalHandler: take the write end, ...                                  *)
TakeDropsSignal(t) ==
    /\ at[t] = "take"
    /\ writeEnd' = FD_IN_USE
    /\ fd' = [fd EXCEPT ![t] = writeEnd]
    /\ at' = [at EXCEPT ![t] = IF writeEnd < 0 THEN "out" ELSE "send"]
    /\ UNCHANGED <<open, installed, sig, loc, stack, main, session, runner, misused, killed>>

Take(t) ==
    /\ at[t] = "take"
    /\ writeEnd' = FD_IN_USE
    /\ fd' = [fd EXCEPT ![t] = writeEnd]
    /\ IF writeEnd < 0
       THEN /\ at' = [at EXCEPT ![t] = "out"]
            /\ loc' = [loc EXCEPT ![sig[t]] = "pending"]
       ELSE /\ at' = [at EXCEPT ![t] = "send"]
            /\ UNCHANGED loc
    /\ UNCHANGED <<open, installed, sig, stack, main, session, runner, misused, killed>>

(* ... send the signal to the runner, ...                                  *)
Send(t) ==
    /\ at[t] = "send"
    /\ IF fd[t] \in open
       THEN loc' = [loc EXCEPT ![sig[t]] = "socket"] /\ UNCHANGED misused
       ELSE loc' = [loc EXCEPT ![sig[t]] = "lost"] /\ misused' = TRUE
    /\ at' = [at EXCEPT ![t] = "give"]
    /\ UNCHANGED <<writeEnd, open, installed, fd, sig, stack, main, session, runner, killed>>

(* ... give the write end back, ...                                        *)
GiveUnchecked(t) ==
    /\ at[t] = "give"
    /\ writeEnd' = fd[t]
    /\ at' = [at EXCEPT ![t] = "out"]
    /\ UNCHANGED <<open, installed, fd, sig, loc, stack, main, session, runner, misused, killed>>

Give(t) ==
    /\ at[t] = "give"
    /\ writeEnd' = fd[t]
    /\ at' = [at EXCEPT ![t] = IF writeEnd = FD_IN_USE THEN "out" ELSE "check"]
    /\ UNCHANGED <<open, installed, fd, sig, loc, stack, main, session, runner, misused, killed>>

(* ... and if handling was stopped in the meantime, take it again to close *)
(* it.                                                                     *)
Check(t) ==
    /\ at[t] = "check"
    /\ writeEnd' = CLOSED_FD
    /\ fd' = [fd EXCEPT ![t] = writeEnd]
    /\ at' = [at EXCEPT ![t] = IF writeEnd >= 0 THEN "close" ELSE "out"]
    /\ UNCHANGED <<open, installed, sig, loc, stack, main, session, runner, misused, killed>>

Close(t) ==
    /\ at[t] = "close"
    /\ misused' = (misused \/ fd[t] \notin open)
    /\ open' = open \ {fd[t]}
    /\ at' = [at EXCEPT ![t] = "out"]
    /\ UNCHANGED <<writeEnd, installed, fd, sig, loc, stack, main, session, runner, killed>>

-----------------------------------------------------------------------------
(* RunnerLoop.  A closed socket is noticed once it is empty.               *)

Receive(s) ==
    /\ runner = "recv" /\ loc[s] = "socket"
    /\ loc' = [loc EXCEPT ![s] = "runner"]
    /\ runner' = "call"
    /\ UNCHANGED <<writeEnd, open, installed, handler, stack, main, session, misused, killed>>

CallListener(s) ==
    /\ runner = "call" /\ loc[s] = "runner"
    /\ loc' = [loc EXCEPT ![s] = IF stack = 0 THEN "pending" ELSE "heard"]
    /\ runner' = "recv"
    /\ UNCHANGED <<writeEnd, open, installed, handler, stack, main, session, misused, killed>>

RunnerReturns ==
    /\ runner = "recv" /\ session \notin open
    /\ \A s \in Sig : loc[s] # "socket"
    /\ runner' = "ended"
    /\ UNCHANGED <<writeEnd, open, installed, handler, loc, stack, main, session, misused, killed>>

-----------------------------------------------------------------------------
(* PushInterruptListener and ~InterruptListenerHandle *)

(* The first listener starts the handling.                                 *)
PushFirst ==
    /\ main = "idle" /\ stack = 0 /\ session < MaxSessions
    /\ stack' = 1
    /\ session' = session + 1
    /\ open' = open \cup {session + 1}
    /\ writeEnd' = session + 1
    /\ runner' = "recv"
    /\ main' = "install"
    /\ UNCHANGED <<installed, handler, loc, misused, killed>>

(* stack_mtx is held while the runner calls a listener.                    *)
Push ==
    /\ main = "idle" /\ stack \in 1..(MaxListeners - 1) /\ runner # "call"
    /\ stack' = stack + 1
    /\ UNCHANGED <<writeEnd, open, installed, handler, loc, main, session, runner, misused, killed>>

Pop ==
    /\ main = "idle" /\ stack > 1 /\ runner # "call"
    /\ stack' = stack - 1
    /\ UNCHANGED <<writeEnd, open, installed, handler, loc, main, session, runner, misused, killed>>

(* ChangeSignalHandlers sets one signal after the other.                   *)
Install(s) ==
    /\ main = "install" /\ s \notin installed
    /\ installed' = installed \cup {s}
    /\ main' = IF installed' = Sig THEN "idle" ELSE main
    /\ UNCHANGED <<writeEnd, open, handler, loc, stack, session, runner, misused, killed>>

(* The last listener stops the handling before it leaves the stack.        *)
PopLastBeforeStopping ==
    /\ main = "idle" /\ stack = 1 /\ runner # "call"
    /\ stack' = 0
    /\ main' = "uninstall"
    /\ UNCHANGED <<writeEnd, open, installed, handler, loc, session, runner, misused, killed>>

PopLast ==
    /\ main = "idle" /\ stack = 1 /\ runner # "call"
    /\ main' = "uninstall"
    /\ UNCHANGED <<writeEnd, open, installed, handler, loc, stack, session, runner, misused, killed>>

Uninstall(s) ==
    /\ main = "uninstall" /\ s \in installed
    /\ installed' = installed \ {s}
    /\ main' = IF installed' = {} THEN "exchange" ELSE main
    /\ UNCHANGED <<writeEnd, open, handler, loc, stack, session, runner, misused, killed>>

ExchangeClosesAnyway ==
    /\ main = "exchange"
    /\ writeEnd' = CLOSED_FD
    /\ open' = open \ {session}
    /\ misused' = (misused \/ session \notin open)
    /\ main' = "join"
    /\ UNCHANGED <<installed, handler, loc, stack, session, runner, killed>>

Exchange ==
    /\ main = "exchange"
    /\ writeEnd' = CLOSED_FD
    /\ IF writeEnd > 0
       THEN open' = open \ {writeEnd} /\ misused' = (misused \/ writeEnd \notin open)
       ELSE UNCHANGED <<open, misused>>
    /\ main' = "join"
    /\ UNCHANGED <<installed, handler, loc, stack, session, runner, killed>>

Join ==
    /\ main = "join" /\ runner = "ended"
    /\ runner' = "none"
    /\ main' = "pop"
    /\ UNCHANGED <<writeEnd, open, installed, handler, loc, stack, session, misused, killed>>

PopBack ==
    /\ main = "pop"
    /\ stack' = stack - 1
    /\ main' = "idle"
    /\ UNCHANGED <<writeEnd, open, installed, handler, loc, session, runner, misused, killed>>

-----------------------------------------------------------------------------
HandlerStep(t) == Take(t) \/ Send(t) \/ Give(t) \/ Check(t) \/ Close(t)

RunnerStep == RunnerReturns \/ \E s \in Sig : Receive(s) \/ CallListener(s)

MainStep ==
    \/ \E s \in Sig : Install(s) \/ Uninstall(s)
    \/ Exchange \/ Join \/ PopBack

Deliveries == \E s \in Sig : DefaultAction(s) \/ \E t \in Thread : Deliver(t, s)

Next ==
    /\ ~killed
    /\ \/ \E s \in Sig : SendSignal(s)
       \/ Deliveries
       \/ \E t \in Thread : HandlerStep(t)
       \/ RunnerStep
       \/ MainStep
       \/ PushFirst \/ Push \/ Pop \/ PopLast

(* The kernel schedules every thread and delivers pending signals.         *)
Fairness ==
    /\ \A t \in Thread : WF_vars(~killed /\ HandlerStep(t))
    /\ WF_vars(~killed /\ RunnerStep) /\ WF_vars(~killed /\ MainStep)
    /\ WF_vars(~killed /\ Deliveries)

Spec == Init /\ [][Next]_vars /\ Fairness

-----------------------------------------------------------------------------
(* Properties *)

(* The write end is closed by whoever comes last and by nobody else: no    *)
(* thread sends on a closed descriptor or closes one twice, whichever      *)
(* threads are in the handler when handling stops.                         *)
WriteEndNotMisused == ~misused

(* Nothing is left open once the last listener is gone.                    *)
WriteEndClosed == main = "idle" /\ stack = 0 => open = {}

(* The runner thread always finds a listener to call: the stack is emptied *)
(* only after the thread has been joined.  RunnerLoop has a branch for an  *)
(* empty stack, whose comment says that it "could happen if the provided   *)
(* interrupt listener is disabled after the signal is received but before  *)
(* this thread had a chance to execute it": it could not, and the signal   *)
(* that branch would send again is never sent.                             *)
RunnerFindsListener == runner = "call" => stack > 0

(* A signal sent while cvd listens is heard by a listener, or kills the    *)
(* process as it would have without one.                                   *)
SignalsHeard == \A s \in Sig : (loc[s] = "pending") ~> (loc[s] = "heard" \/ killed)

(* Stopping ends: the runner is woken up whether main or a handler closes  *)
(* the write end.                                                          *)
StopHandlingReturns == (main = "join") ~> (main # "join" \/ killed)
=============================================================================
