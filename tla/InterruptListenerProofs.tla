----------------------- MODULE InterruptListenerProofs -----------------------
(***************************************************************************)
(* The safety of InterruptListener for every set of threads and signals    *)
(* and every bound.  The argument is one of ownership: an open write end   *)
(* is owned by the atomic variable or by one thread in the handler, and    *)
(* every exchange moves it from one to the other.                          *)
(***************************************************************************)
EXTENDS InterruptListener, TLAPS

(* A thread in the handler that holds the write end it took.               *)
Owns(t) == at[t] \in {"send", "give", "close"}

(* Who owns a write end holds one that is open, and nobody else holds it.  *)
Ownership ==
    /\ writeEnd > 0 => writeEnd \in open
    /\ \A t \in Thread : Owns(t) => fd[t] \in open /\ fd[t] # writeEnd
    /\ \A t, u \in Thread : t # u /\ Owns(t) /\ Owns(u) => fd[t] # fd[u]

(* There is one session at a time: it begins when no write end is open and *)
(* no runner is left, and the stack is not empty while it lasts.           *)
OneSession ==
    /\ open \subseteq {session}
    /\ runner \in {"none", "ended"} => open = {}
    /\ main \in {"install", "uninstall", "exchange", "join", "pop"} => stack = 1
    /\ main = "pop" \/ (main = "idle" /\ stack = 0) => runner = "none"
    /\ stack = 0 => main = "idle"

IInv == TypeOK /\ Ownership /\ OneSession /\ ~misused

(* The invariant holds before the first listener is pushed.               *)
LEMMA InitIInv == Init => IInv
<1> SUFFICES ASSUME Init PROVE IInv
  OBVIOUS
<1>1. (CHOOSE s \in Sig : TRUE) \in Sig
  BY SigAssumption
<1>2. sig \in [Thread -> Sig]
  <2> DEFINE first == CHOOSE s \in Sig : TRUE
  <2>1. first \in Sig /\ sig = [t \in Thread |-> first]
    BY <1>1 DEF Init
  <2> HIDE DEF first
  <2> QED
    BY <2>1
<1>3. TypeOK
  <2>1. /\ writeEnd = CLOSED_FD /\ open = {} /\ installed = {}
        /\ at = [t \in Thread |-> "out"] /\ fd = [t \in Thread |-> CLOSED_FD]
        /\ loc = [s \in Sig |-> "unsent"]
        /\ stack = 0 /\ main = "idle" /\ session = 0 /\ runner = "none"
        /\ misused = FALSE /\ killed = FALSE
    BY DEF Init
  <2>2. /\ at \in [Thread -> {"out", "take", "send", "give", "check", "close"}]
        /\ fd \in [Thread -> {CLOSED_FD, FD_IN_USE} \cup 1..MaxSessions]
        /\ loc \in [Sig -> {"unsent", "pending", "handler", "socket", "runner", "heard", "lost"}]
    BY <2>1
  <2>3. stack \in 0..MaxListeners /\ session \in 0..MaxSessions
    BY <2>1, BoundsAssumption
  <2> QED
    BY <1>2, <2>1, <2>2, <2>3 DEF TypeOK
<1>4. Ownership /\ OneSession /\ ~misused
  BY DEF Init, Ownership, OneSession, Owns, CLOSED_FD
<1> QED
  BY <1>3, <1>4 DEF IInv

(* Every step of a thread, the runner or the pushing thread keeps it.      *)
LEMMA StepIInv == IInv /\ [Next]_vars => IInv'
<1> SUFFICES ASSUME IInv, [Next]_vars PROVE IInv'
  OBVIOUS
<1> USE BoundsAssumption DEF IInv, TypeOK, Ownership, OneSession, Owns, CLOSED_FD, FD_IN_USE
<1>1. ASSUME NEW s \in Sig, SendSignal(s) PROVE IInv'
  BY <1>1 DEF SendSignal, handler
<1>2. ASSUME NEW s \in Sig, DefaultAction(s) PROVE IInv'
  BY <1>2 DEF DefaultAction, handler
<1>3. ASSUME NEW s \in Sig, NEW t \in Thread, Deliver(t, s) PROVE IInv'
  BY <1>3 DEF Deliver
<1>4. ASSUME NEW t \in Thread, Take(t) PROVE IInv'
  BY <1>4 DEF Take
<1>5. ASSUME NEW t \in Thread, Send(t) PROVE IInv'
  BY <1>5 DEF Send
<1>6. ASSUME NEW t \in Thread, Give(t) PROVE IInv'
  BY <1>6 DEF Give
<1>7. ASSUME NEW t \in Thread, Check(t) PROVE IInv'
  BY <1>7 DEF Check
<1>8. ASSUME NEW t \in Thread, Close(t) PROVE IInv'
  BY <1>8 DEF Close
<1>9. ASSUME NEW s \in Sig, Receive(s) PROVE IInv'
  BY <1>9 DEF Receive, handler
<1>10. ASSUME NEW s \in Sig, CallListener(s) PROVE IInv'
  BY <1>10 DEF CallListener, handler
<1>11. CASE RunnerReturns
  BY <1>11 DEF RunnerReturns, handler
<1>12. CASE PushFirst
  BY <1>12 DEF PushFirst, handler
<1>13. CASE Push
  BY <1>13 DEF Push, handler
<1>14. CASE Pop
  BY <1>14 DEF Pop, handler
<1>15. CASE PopLast
  BY <1>15 DEF PopLast, handler
<1>16. ASSUME NEW s \in Sig, Install(s) PROVE IInv'
  BY <1>16 DEF Install, handler
<1>17. ASSUME NEW s \in Sig, Uninstall(s) PROVE IInv'
  BY <1>17 DEF Uninstall, handler
<1>18. CASE Exchange
  <2>1. TypeOK' /\ OneSession'
    BY <1>18 DEF Exchange, handler
  <2>2. ~misused'
    BY <1>18 DEF Exchange
  <2>3. \A t \in Thread : fd[t] \in open => fd[t] # CLOSED_FD
    OBVIOUS
  <2>4. Ownership'
    BY <1>18, <2>3 DEF Exchange, handler
  <2> QED
    BY <2>1, <2>2, <2>4
<1>19. CASE Join
  BY <1>19 DEF Join, handler
<1>20. CASE PopBack
  BY <1>20 DEF PopBack, handler
<1>21. CASE UNCHANGED vars
  BY <1>21 DEF vars, handler
<1> QED
  BY <1>1, <1>2, <1>3, <1>4, <1>5, <1>6, <1>7, <1>8, <1>9, <1>10, <1>11, <1>12, <1>13,
     <1>14, <1>15, <1>16, <1>17, <1>18, <1>19, <1>20, <1>21
  DEF Next, Deliveries, HandlerStep, RunnerStep, MainStep

(* So it holds throughout.                                                 *)
THEOREM Invariance == Spec => []IInv
  BY InitIInv, StepIInv, PTL DEF Spec

(* Every variable keeps its type: in particular the stack never underflows *)
(* and a descriptor is always one a session made.                          *)
THEOREM TypeCorrect == Spec => []TypeOK
<1>1. IInv => TypeOK
  BY DEF IInv
<1> QED
  BY <1>1, Invariance, PTL

(* However many threads run SignalHandler while StopHandling exchanges the *)
(* write end, none sends on a closed one and none closes it twice.         *)
THEOREM NeverMisused == Spec => []WriteEndNotMisused
<1>1. IInv => WriteEndNotMisused
  BY DEF IInv, WriteEndNotMisused
<1> QED
  BY <1>1, Invariance, PTL

(* Once the last listener's handle is destroyed no write end is open: the  *)
(* join in StopHandling waits for whoever closes it.                       *)
THEOREM ClosedAtRest == Spec => []WriteEndClosed
<1>1. IInv => WriteEndClosed
  BY DEF IInv, OneSession, WriteEndClosed
<1> QED
  BY <1>1, Invariance, PTL

(* RunnerLoop always finds a listener: the stack is emptied after the join *)
(* in PopInterruptListener.                                                *)
THEOREM RunnerHasListener == Spec => []RunnerFindsListener
<1>1. IInv => RunnerFindsListener
  BY BoundsAssumption DEF IInv, TypeOK, OneSession, RunnerFindsListener
<1> QED
  BY <1>1, Invariance, PTL

-----------------------------------------------------------------------------
(* Stopping: what the join in StopHandling waits for.  The converse of     *)
(* Ownership holds too: an open write end is in the atomic variable or     *)
(* with a thread in the handler, so the exchange in StopHandling either    *)
(* finds it or leaves it to that thread.                                   *)

NotLeaked == open # {} => writeEnd \in open \/ \E t \in Thread : Owns(t)

(* After the exchange, a thread that finds the variable in use although    *)
(* nobody is going to look at it again got there through one that sent its *)
(* signal once more, when no handler was installed any longer.             *)
LeftToOthers ==
    main = "join" => \/ writeEnd = CLOSED_FD
                     \/ \E t \in Thread : at[t] = "check"
                     \/ \E s \in Sig : loc[s] = "pending"

(* Each signal that is being handled is in one thread's hands.             *)
InHand ==
    /\ \A t \in Thread : at[t] \in {"take", "send"} => loc[sig[t]] = "handler"
    /\ \A t, u \in Thread :
          t # u /\ at[t] \in {"take", "send"} /\ at[u] \in {"take", "send"} => sig[t] # sig[u]

StopInv ==
    /\ NotLeaked /\ LeftToOthers /\ InHand
    /\ main \in {"exchange", "join", "pop"} => installed = {}
    /\ stack > 0 /\ main # "pop" => runner # "none"

(* While StopHandling waits in join there is a runner to wait for, and the *)
(* runner is not left waiting on an open socket that nobody closes: a      *)
(* thread in SignalHandler is going to, unless a signal that arrived too   *)
(* late is about to kill the process.                                      *)
StopIsNotStuck ==
    main = "join" =>
        /\ runner # "none"
        /\ \/ open = {}
           \/ \E t \in Thread : at[t] \in {"send", "give", "check", "close"}
           \/ \E s \in Sig : loc[s] = "pending" /\ s \notin installed

LEMMA InitStopInv == Init => StopInv
  BY DEF Init, StopInv, NotLeaked, LeftToOthers, InHand

(* A step outside the handler keeps StopInv: it takes no write end from    *)
(* anybody, and no pending signal is delivered once stopping has begun.    *)
LEMMA OtherStepStopInv ==
  ASSUME IInv, StopInv,
         \/ PushFirst \/ Push \/ Pop \/ PopLast \/ RunnerStep \/ MainStep \/ Deliveries
         \/ \E s \in Sig : SendSignal(s)
  PROVE  StopInv'
<1> USE BoundsAssumption DEF IInv, TypeOK, Ownership, OneSession, Owns, StopInv, NotLeaked,
        LeftToOthers, InHand, CLOSED_FD, FD_IN_USE, handler
<1>1. CASE PushFirst
  BY <1>1 DEF PushFirst
<1>2. CASE Push \/ Pop \/ PopLast
  BY <1>2 DEF Push, Pop, PopLast
<1>3. CASE RunnerReturns
  BY <1>3 DEF RunnerReturns
<1>4. ASSUME NEW s \in Sig, Receive(s) \/ CallListener(s) \/ SendSignal(s) \/ DefaultAction(s)
      PROVE  StopInv'
  <2>1. CASE Receive(s)
    BY <2>1 DEF Receive
  <2>2. CASE CallListener(s)
    BY <2>2 DEF CallListener
  <2>3. CASE SendSignal(s)
    BY <2>3 DEF SendSignal
  <2>4. CASE DefaultAction(s)
    BY <2>4 DEF DefaultAction
  <2> QED
    BY <1>4, <2>1, <2>2, <2>3, <2>4
<1>5. ASSUME NEW s \in Sig, NEW t \in Thread, Deliver(t, s) PROVE StopInv'
  <2>1. /\ main # "join" /\ at[t] = "out" /\ at' = [at EXCEPT ![t] = "take"]
        /\ loc[s] = "pending" /\ loc' = [loc EXCEPT ![s] = "handler"]
        /\ sig' = [sig EXCEPT ![t] = s]
        /\ UNCHANGED <<writeEnd, open, installed, stack, main, runner>>
    BY <1>5 DEF Deliver
  <2>2. NotLeaked' /\ LeftToOthers'
    BY <2>1
  <2>3. /\ at'[t] = "take" /\ sig'[t] = s /\ loc'[s] = "handler"
        /\ \A u \in Thread \ {t} : at'[u] = at[u] /\ sig'[u] = sig[u]
        /\ \A r \in Sig \ {s} : loc'[r] = loc[r]
    BY <2>1
  <2>4. \A u \in Thread \ {t} : at[u] \in {"take", "send"} => sig[u] \in Sig \ {s}
    BY <2>1
  <2>5. InHand'
    BY <2>3, <2>4
  <2> QED
    BY <2>1, <2>2, <2>5
<1>6. ASSUME NEW s \in Sig, Install(s) \/ Uninstall(s) PROVE StopInv'
  <2>1. CASE Install(s)
    BY <2>1 DEF Install
  <2>2. CASE Uninstall(s)
    BY <2>2 DEF Uninstall
  <2> QED
    BY <1>6, <2>1, <2>2
<1>7. CASE Exchange
  <2>1. /\ main = "exchange" /\ main' = "join" /\ writeEnd' = CLOSED_FD
        /\ UNCHANGED <<installed, at, sig, loc, stack, runner>>
    BY <1>7 DEF Exchange
  <2>2. NotLeaked'
    <3>1. CASE writeEnd > 0
      BY <1>7, <3>1 DEF Exchange
    <3>2. CASE ~(writeEnd > 0)
      <4>1. open' = open /\ writeEnd \notin open
        BY <1>7, <3>2 DEF Exchange
      <4> QED
        BY <2>1, <4>1
    <3> QED
      BY <3>1, <3>2
  <2>3. LeftToOthers' /\ InHand'
    BY <2>1
  <2> QED
    BY <2>1, <2>2, <2>3
<1>8. CASE Join \/ PopBack
  BY <1>8 DEF Join, PopBack
<1> HIDE DEF IInv, StopInv
<1>9. ASSUME RunnerStep \/ MainStep \/ Deliveries PROVE StopInv'
  BY <1>3, <1>4, <1>5, <1>6, <1>7, <1>8, <1>9 DEF RunnerStep, MainStep, Deliveries
<1> QED
  BY <1>1, <1>2, <1>4, <1>9

(* A thread in the handler passes the write end on, or comes back to close *)
(* it when it finds that nobody else will.                                 *)
LEMMA HandlerStepStopInv ==
  ASSUME IInv, StopInv, NEW t \in Thread, HandlerStep(t)
  PROVE  StopInv'
<1> USE BoundsAssumption DEF IInv, TypeOK, OneSession, Owns, StopInv, CLOSED_FD, FD_IN_USE
<1>1. CASE Take(t)
  <2>1. /\ at[t] = "take" /\ writeEnd' = FD_IN_USE
        /\ at' = [at EXCEPT ![t] = IF writeEnd < 0 THEN "out" ELSE "send"]
        /\ loc' = IF writeEnd < 0 THEN [loc EXCEPT ![sig[t]] = "pending"] ELSE loc
        /\ UNCHANGED <<open, installed, sig, stack, main, session, runner>>
    BY <1>1 DEF Take
  <2>2. /\ at'[t] = IF writeEnd < 0 THEN "out" ELSE "send"
        /\ \A u \in Thread \ {t} : at'[u] = at[u]
    BY <2>1
  <2>3. \A r \in Sig : loc'[r] = IF writeEnd < 0 /\ r = sig[t] THEN "pending" ELSE loc[r]
    BY <2>1
  <2>4. NotLeaked'
    BY <2>1, <2>2 DEF NotLeaked
  <2>5. LeftToOthers'
    BY <2>1, <2>2, <2>3 DEF LeftToOthers
  <2>6. InHand'
    BY <2>1, <2>2, <2>3 DEF InHand
  <2> QED
    BY <2>1, <2>4, <2>5, <2>6
<1>2. CASE Send(t)
  <2>1. /\ at[t] = "send" /\ at' = [at EXCEPT ![t] = "give"]
        /\ \E l \in {"socket", "lost"} : loc' = [loc EXCEPT ![sig[t]] = l]
        /\ UNCHANGED <<writeEnd, open, installed, sig, stack, main, session, runner>>
    BY <1>2 DEF Send
  <2>2. at'[t] = "give" /\ \A u \in Thread \ {t} : at'[u] = at[u]
    BY <2>1
  <2>3. loc[sig[t]] = "handler" /\ \A r \in Sig : r # sig[t] => loc'[r] = loc[r]
    BY <2>1 DEF InHand
  <2>4. NotLeaked'
    BY <2>1, <2>2 DEF NotLeaked
  <2>5. LeftToOthers'
    BY <2>1, <2>2, <2>3 DEF LeftToOthers
  <2>6. InHand'
    BY <2>1, <2>2, <2>3 DEF InHand
  <2> QED
    BY <2>1, <2>4, <2>5, <2>6
<1>3. CASE Give(t)
  <2>1. /\ at[t] = "give" /\ writeEnd' = fd[t]
        /\ at' = [at EXCEPT ![t] = IF writeEnd = FD_IN_USE THEN "out" ELSE "check"]
        /\ UNCHANGED <<open, installed, sig, loc, stack, main, session, runner>>
    BY <1>3 DEF Give
  <2>2. /\ at'[t] = IF writeEnd = FD_IN_USE THEN "out" ELSE "check"
        /\ \A u \in Thread \ {t} : at'[u] = at[u]
    BY <2>1
  <2>3. fd[t] \in open
    BY <2>1 DEF Ownership
  <2>4. NotLeaked'
    BY <2>1, <2>3 DEF NotLeaked
  <2>5. LeftToOthers'
    BY <2>1, <2>2 DEF LeftToOthers
  <2>6. InHand'
    BY <2>1, <2>2 DEF InHand
  <2> QED
    BY <2>1, <2>4, <2>5, <2>6
<1>4. CASE Check(t)
  <2>1. /\ at[t] = "check" /\ writeEnd' = CLOSED_FD
        /\ at' = [at EXCEPT ![t] = IF writeEnd >= 0 THEN "close" ELSE "out"]
        /\ UNCHANGED <<open, installed, sig, loc, stack, main, session, runner>>
    BY <1>4 DEF Check
  <2>2. /\ at'[t] = IF writeEnd >= 0 THEN "close" ELSE "out"
        /\ \A u \in Thread \ {t} : at'[u] = at[u]
    BY <2>1
  <2>3. writeEnd \in open => writeEnd >= 0
    OBVIOUS
  <2>4. NotLeaked'
    BY <2>1, <2>2, <2>3 DEF NotLeaked
  <2>5. LeftToOthers' /\ InHand'
    BY <2>1, <2>2 DEF LeftToOthers, InHand
  <2> QED
    BY <2>1, <2>4, <2>5
<1>5. CASE Close(t)
  <2>1. /\ at[t] = "close" /\ open' = open \ {fd[t]} /\ at' = [at EXCEPT ![t] = "out"]
        /\ UNCHANGED <<writeEnd, installed, sig, loc, stack, main, session, runner>>
    BY <1>5 DEF Close
  <2>2. at'[t] = "out" /\ \A u \in Thread \ {t} : at'[u] = at[u]
    BY <2>1
  <2>3. open' = {}
    BY <2>1 DEF Ownership
  <2>4. NotLeaked'
    BY <2>3 DEF NotLeaked
  <2>5. \A u \in Thread : at[u] = "check" => at'[u] = "check"
    BY <2>1, <2>2
  <2>6. LeftToOthers'
    BY <2>1, <2>5 DEF LeftToOthers
  <2>7. InHand'
    BY <2>1, <2>2 DEF InHand
  <2> QED
    BY <2>1, <2>4, <2>6, <2>7
<1> QED
  BY <1>1, <1>2, <1>3, <1>4, <1>5 DEF HandlerStep

(* Whatever order the threads, the runner and StopHandling take their      *)
(* steps in, the join in StopHandling is not the end of it: no wake-up of  *)
(* the runner is lost.                                                     *)
THEOREM StopNeverStuck == Spec => []StopIsNotStuck
<1>1. IInv /\ StopInv /\ [Next]_vars => StopInv'
  <2>1. ASSUME IInv, StopInv, Next PROVE StopInv'
    BY <2>1, OtherStepStopInv, HandlerStepStopInv DEF Next
  <2>2. ASSUME StopInv, UNCHANGED vars PROVE StopInv'
    BY <2>2 DEF StopInv, NotLeaked, LeftToOthers, InHand, Owns, vars, handler
  <2> QED
    BY <2>1, <2>2
<1>2. IInv /\ StopInv => StopIsNotStuck
  <2> SUFFICES ASSUME IInv, StopInv, main = "join", open # {}
               PROVE  \/ \E t \in Thread : at[t] \in {"send", "give", "check", "close"}
                      \/ \E s \in Sig : loc[s] = "pending" /\ s \notin installed
    BY BoundsAssumption DEF IInv, OneSession, StopInv, StopIsNotStuck
  <2>1. installed = {}
    BY DEF StopInv
  <2>2. writeEnd \in open => writeEnd # CLOSED_FD
    BY BoundsAssumption DEF IInv, TypeOK, CLOSED_FD
  <2> QED
    BY <2>1, <2>2 DEF StopInv, NotLeaked, LeftToOthers, Owns
<1> QED
  BY <1>1, <1>2, InitStopInv, Invariance, PTL DEF Spec
=============================================================================
