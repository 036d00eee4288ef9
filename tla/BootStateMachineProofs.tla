----------------------- MODULE BootStateMachineProofs -----------------------
(***************************************************************************)
(* What the launcher is told is what the guest said first, for every list  *)
(* of subscribers, size of the FIFO and of the pipes, number of lines and  *)
(* set of configurations.  The argument follows the first line that tells  *)
(* how the boot went through the FIFO, the events being sent and the pipe: *)
(* until run_cvd has read it, nothing else that decides is ahead of it.    *)
(***************************************************************************)
EXTENDS BootStateMachine, SequenceTheorems, TLAPS

(* What makes the boot event handler reach a final state.                  *)
Deciding == FinalLine \cup {Torn}

Quiet(s) == \A k \in 1..Len(s) : s[k] \notin Deciding

Has(s, x) == \E k \in 1..Len(s) : s[k] = x

LedBy(x, s) ==
    \A k \in 1..Len(s) : s[k] \in Deciding /\ s[k] # x => \E j \in 1..(k - 1) : s[j] = x

(* The pipe P, the events T being sent and the FIFO F hold x, and nothing  *)
(* else that decides comes before it.                                      *)
Ahead(x, P, T, F) ==
    /\ Has(P, x) \/ Has(T, x) \/ Has(F, x)
    /\ LedBy(x, P)
    /\ Has(P, x) \/ LedBy(x, T)
    /\ Has(P, x) \/ Has(T, x) \/ LedBy(x, F)

(* The same, when the guest has not said anything yet.                     *)
Underway(x, P, T, F) ==
    IF x = "none" THEN Quiet(P) /\ Quiet(T) /\ Quiet(F) ELSE Ahead(x, P, T, F)

-----------------------------------------------------------------------------
(* The inductive invariant *)

LogTypes ==
    /\ fifo \in Seq(Line) /\ todo \in Seq(Event)
    /\ first \in FinalLine \cup {"none"}
    /\ pipe \in [Subs -> Seq(Event \cup {Torn})]
    /\ idx \in 1..Len(Subscribers)
    /\ deaths \in Nat /\ lost \in BOOLEAN
    /\ todo = <<>> => idx = 1
    /\ Len(todo) = 1 \/ Quiet(todo)

Faithful == ~lost /\ deaths = 0

(* As long as run_cvd has read nothing that decides, ...                   *)
Unread ==
    Faithful /\ state = {} =>
        /\ Underway(first, pipe[Me], todo, fifo)
        /\ \A i \in 1..(idx - 1) :
              Subscribers[i] = Me /\ todo # <<>> /\ Head(todo) \in Deciding =>
                  Has(pipe[Me], Head(todo))

(* ... and afterwards.                                                     *)
Told ==
    Faithful =>
        \/ state = {}
        \/ /\ state = {"Completed"}
           /\ first = "BootCompleted" \/ (conf.restoring /\ restore = "ended")
        \/ state = {"Failed"} /\ first = "BootFailed"

Decided ==
    /\ state \in {{}, {"Completed"}, {"Failed"}}
    /\ handler \in {"poll", "read", "restore"} => state = {}
    /\ handler \in {"drain", "drain_read"} => state # {}
    /\ code \in [Listener -> Code \cup {"none"}]
    /\ \A l \in Listener : code[l] = "none" \/ (state # {} /\ code[l] = Verdict(state))

Restoring ==
    restore \notin {"none"} \/ restoreReady \/ handler = "restore" => conf.restoring

BootInv == LogTypes /\ Unread /\ Told /\ Decided /\ Restoring

-----------------------------------------------------------------------------
(* Sequences of events *)

LEMMA AppendEvent ==
    ASSUME NEW S, NEW s \in Seq(S), NEW e \in S, NEW x
    PROVE  /\ Has(Append(s, e), x) <=> Has(s, x) \/ e = x
           /\ Quiet(Append(s, e)) <=> Quiet(s) /\ e \notin Deciding
           /\ LedBy(x, s) /\ (Has(s, x) \/ e = x \/ e \notin Deciding) => LedBy(x, Append(s, e))
<1> DEFINE t == Append(s, e)
<1>1. /\ Len(s) \in Nat /\ Len(t) = Len(s) + 1
      /\ t[Len(s) + 1] = e /\ \A k \in 1..Len(s) : t[k] = s[k]
  BY AppendProperties, LenProperties
<1> HIDE DEF t
<1>2. 1..Len(t) = (1..Len(s)) \cup {Len(s) + 1}
  BY <1>1
<1>3. Has(t, x) <=> Has(s, x) \/ e = x
  BY <1>1, <1>2 DEF Has
<1>4. Quiet(t) <=> Quiet(s) /\ e \notin Deciding
  BY <1>1, <1>2 DEF Quiet
<1>5. ASSUME LedBy(x, s), Has(s, x) \/ e = x \/ e \notin Deciding PROVE LedBy(x, t)
  <2> SUFFICES ASSUME NEW k \in 1..Len(t), t[k] \in Deciding, t[k] # x
               PROVE  \E j \in 1..(k - 1) : t[j] = x
    BY DEF LedBy
  <2>1. CASE k \in 1..Len(s)
    <3>1. PICK j \in 1..(k - 1) : s[j] = x
      BY <1>1, <1>5, <2>1 DEF LedBy
    <3>2. j \in 1..Len(s)
      BY <1>1, <2>1
    <3> QED
      BY <1>1, <3>1, <3>2
  <2>2. CASE k = Len(s) + 1
    <3>1. Has(s, x)
      BY <1>1, <1>5, <2>2
    <3>2. PICK j \in 1..Len(s) : s[j] = x
      BY <3>1 DEF Has
    <3>3. j \in 1..(k - 1)
      BY <1>1, <2>2
    <3> QED
      BY <1>1, <3>2, <3>3
  <2> QED
    BY <1>2, <2>1, <2>2
<1> QED
  BY <1>3, <1>4, <1>5 DEF t

(* An event that does not decide is taken from the front.                  *)
LEMMA TailEvent ==
    ASSUME NEW S, NEW s \in Seq(S), s # <<>>, Head(s) \notin Deciding, NEW x
    PROVE  /\ x \in Deciding => (Has(Tail(s), x) <=> Has(s, x))
           /\ Quiet(Tail(s)) <=> Quiet(s)
           /\ x \in Deciding /\ LedBy(x, s) => LedBy(x, Tail(s))
<1> DEFINE t == Tail(s)
<1>1. /\ Len(s) \in Nat /\ Len(s) > 0 /\ Len(t) = Len(s) - 1
      /\ s[1] \notin Deciding /\ \A k \in 1..Len(t) : t[k] = s[k + 1]
  BY HeadTailProperties, LenProperties, EmptySeq
<1> HIDE DEF t
<1>2. \A k \in 1..Len(s) : k = 1 \/ (k - 1 \in 1..Len(t) /\ t[k - 1] = s[k])
  BY <1>1
<1>3. \A k \in 1..Len(t) : k + 1 \in 1..Len(s)
  BY <1>1
<1>4. x \in Deciding => (Has(t, x) <=> Has(s, x))
  BY <1>1, <1>2, <1>3 DEF Has
<1>5. Quiet(t) <=> Quiet(s)
  BY <1>1, <1>2, <1>3 DEF Quiet
<1>6. ASSUME x \in Deciding, LedBy(x, s) PROVE LedBy(x, t)
  <2> SUFFICES ASSUME NEW k \in 1..Len(t), t[k] \in Deciding, t[k] # x
               PROVE  \E j \in 1..(k - 1) : t[j] = x
    BY DEF LedBy
  <2>1. PICK j \in 1..(k + 1 - 1) : s[j] = x
    BY <1>1, <1>3, <1>6 DEF LedBy
  <2>2. j # 1
    BY <1>1, <1>6, <2>1
  <2>3. j \in 1..Len(s) /\ j - 1 \in 1..(k - 1)
    BY <1>1, <2>2
  <2> QED
    BY <1>2, <2>1, <2>2, <2>3
<1> QED
  BY <1>4, <1>5, <1>6 DEF t

(* The first event, if it decides, is the one that leads.                  *)
LEMMA HeadEvent ==
    ASSUME NEW S, NEW s \in Seq(S), s # <<>>
    PROVE  /\ Has(s, Head(s))
           /\ \A x : LedBy(x, s) /\ Head(s) \in Deciding => Head(s) = x
           /\ Quiet(s) => Head(s) \notin Deciding
<1>1. Len(s) \in Nat /\ 1 \in 1..Len(s) /\ Head(s) = s[1] /\ 1..(1 - 1) = {}
  BY LenProperties, EmptySeq
<1> QED
  BY <1>1 DEF Has, LedBy, Quiet

LEMMA NoEvent == Quiet(<<>>) /\ \A x : LedBy(x, <<>>) /\ ~Has(<<>>, x)
<1>1. 1..Len(<<>>) = {}
  BY EmptySeq
<1> QED
  BY <1>1 DEF Quiet, LedBy, Has

LEMMA OneEvent ==
    ASSUME NEW S, NEW s \in Seq(S), Len(s) = 1
    PROVE  Tail(s) = <<>> /\ s # <<>> /\ \A x : Has(s, x) => Head(s) = x
<1>1. s # <<>> /\ Head(s) = s[1] /\ 1..Len(s) = {1}
  BY EmptySeq
<1>2. Tail(s) \in Seq(S) /\ Len(Tail(s)) = 0
  BY <1>1, HeadTailProperties
<1>3. Tail(s) = <<>>
  BY <1>2, EmptySeq
<1> QED
  BY <1>1, <1>3 DEF Has

-----------------------------------------------------------------------------
(* How what is under way moves on *)

(* The guest writes a line.                                                *)
LEMMA LineWritten ==
    ASSUME NEW x \in FinalLine \cup {"none"}, NEW P, NEW T, NEW F \in Seq(Line),
           NEW line \in Line, Underway(x, P, T, F)
    PROVE  Underway(IF x = "none" /\ line \in FinalLine THEN line ELSE x, P, T, Append(F, line))
<1>1. \A y : /\ Has(Append(F, line), y) <=> Has(F, y) \/ line = y
             /\ Quiet(Append(F, line)) <=> Quiet(F) /\ line \notin Deciding
             /\ LedBy(y, F) /\ (Has(F, y) \/ line = y \/ line \notin Deciding) => LedBy(y, Append(F, line))
  BY AppendEvent
<1>2. \A s, y : Quiet(s) => LedBy(y, s)
  BY DEF Quiet, LedBy
<1>3. line \in Deciding <=> line \in FinalLine
  BY DEF Deciding, Line, FinalLine, Torn
<1>4. line # "none" /\ "none" \notin FinalLine
  BY DEF Line, FinalLine
<1>5. CASE x = "none" /\ line \in FinalLine
  <2>1. Ahead(line, P, T, Append(F, line))
    BY <1>1, <1>2, <1>5 DEF Underway, Ahead
  <2> QED
    BY <1>4, <1>5, <2>1 DEF Underway
<1>6. CASE x = "none" /\ line \notin FinalLine
  BY <1>1, <1>3, <1>6 DEF Underway
<1>7. CASE x # "none"
  <2>1. Ahead(x, P, T, F)
    BY <1>7 DEF Underway
  <2>2. Ahead(x, P, T, Append(F, line))
    BY <1>1, <2>1 DEF Ahead
  <2> QED
    BY <1>7, <2>2 DEF Underway
<1> QED
  BY <1>5, <1>6, <1>7

(* The events of a line: one that decides, or none that does.              *)
LEMMA StageEventsOfLine ==
    ASSUME NEW h \in Line
    PROVE  LET e == StageEvents(h)
           IN  /\ e \in Seq(Event) /\ e # <<>> /\ (Len(e) = 1 \/ Quiet(e))
               /\ h \in Deciding => e = <<h>> /\ Has(e, h)
               /\ h \notin Deciding => Quiet(e)
<1>1. CASE h = "HibernationExit"
  <2> DEFINE e == <<"HibernationExited", "AdbdStarted">>
  <2>1. e \in Seq(Event)
    BY DEF Event
  <2>2. Len(e) = 2 /\ e[1] = "HibernationExited" /\ e[2] = "AdbdStarted"
    OBVIOUS
  <2>3. StageEvents(h) = e
    BY <1>1 DEF StageEvents
  <2> HIDE DEF e
  <2>4. 1..Len(e) = {1, 2} /\ e # <<>>
    BY <2>2, EmptySeq
  <2>5. Quiet(e) /\ h \notin Deciding
    BY <1>1, <2>2, <2>4 DEF Quiet, Deciding, FinalLine, Torn
  <2> QED
    BY <2>1, <2>3, <2>4, <2>5
<1>2. CASE h # "HibernationExit"
  <2>1. StageEvents(h) = <<h>> /\ h \in FinalLine /\ h \in Event
    BY <1>2 DEF StageEvents, Line, FinalLine, Event
  <2>2. h \in Deciding
    BY <2>1 DEF Deciding
  <2>3. <<h>> \in Seq(Event) /\ Len(<<h>>) = 1 /\ Has(<<h>>, h)
    BY <2>1 DEF Has
  <2>4. <<h>> # <<>>
    BY <2>3, OneEvent
  <2> QED
    BY <2>1, <2>2, <2>3, <2>4
<1> QED
  BY <1>1, <1>2

(* A line is read, and its events are to be sent.                          *)
LEMMA LineRead ==
    ASSUME NEW x \in FinalLine \cup {"none"}, NEW P, NEW F \in Seq(Line), F # <<>>,
           Underway(x, P, <<>>, F)
    PROVE  Underway(x, P, StageEvents(Head(F)), Tail(F))
<1> DEFINE h == Head(F)
           e == StageEvents(h)
<1>1. h \in Line
  BY HeadTailProperties
<1>2. \A y : LedBy(y, <<>>) /\ ~Has(<<>>, y)
  BY NoEvent
<1>3. x # "none" => x \in Deciding
  BY DEF Deciding
<1>4. /\ h \in Deciding => Has(e, h)
      /\ h \notin Deciding => Quiet(e)
      /\ h \in Deciding => LedBy(h, e)
  BY <1>1, StageEventsOfLine DEF LedBy
<1>5. CASE h \notin Deciding
  <2>1. /\ x \in Deciding => (Has(Tail(F), x) <=> Has(F, x))
        /\ Quiet(Tail(F)) <=> Quiet(F)
        /\ x \in Deciding /\ LedBy(x, F) => LedBy(x, Tail(F))
    BY <1>5, TailEvent
  <2>2. LedBy(x, e)
    BY <1>4, <1>5 DEF Quiet, LedBy
  <2> HIDE DEF h, e
  <2>3. Underway(x, P, e, Tail(F))
    BY <1>2, <1>3, <1>4, <1>5, <2>1, <2>2 DEF Underway, Ahead
  <2> QED
    BY <2>3 DEF h, e
<1>6. CASE h \in Deciding
  <2>1. x # "none"
    BY <1>6, HeadEvent DEF Underway
  <2>2. Ahead(x, P, <<>>, F)
    BY <2>1 DEF Underway
  <2>3. ~Has(P, x) => h = x
    BY <1>2, <1>6, <2>2, HeadEvent DEF Ahead
  <2> HIDE DEF h, e
  <2>4. Ahead(x, P, e, Tail(F))
    BY <1>4, <1>6, <2>2, <2>3 DEF Ahead
  <2> QED
    BY <2>1, <2>4 DEF Underway, h, e
<1> QED
  BY <1>5, <1>6

(* An event is written to the pipe of run_cvd.                             *)
LEMMA EventSent ==
    ASSUME NEW x \in FinalLine \cup {"none"}, NEW P \in Seq(Event \cup {Torn}),
           NEW T \in Seq(Event), NEW F, T # <<>>, Underway(x, P, T, F)
    PROVE  Underway(x, Append(P, Head(T)), T, F) /\ Has(Append(P, Head(T)), Head(T))
<1> DEFINE h == Head(T)
           Q == Append(P, h)
<1>1. h \in Event \cup {Torn}
  BY HeadTailProperties
<1>2. \A y : /\ Has(Q, y) <=> Has(P, y) \/ h = y
             /\ Quiet(Q) <=> Quiet(P) /\ h \notin Deciding
             /\ LedBy(y, P) /\ (Has(P, y) \/ h = y \/ h \notin Deciding) => LedBy(y, Q)
  BY <1>1, AppendEvent
<1>3. (Quiet(T) => h \notin Deciding) /\ \A y : LedBy(y, T) /\ h \in Deciding => h = y
  BY HeadEvent
<1> HIDE DEF h, Q
<1>4. CASE x = "none"
  BY <1>2, <1>3, <1>4 DEF Underway, h, Q
<1>5. CASE x # "none"
  <2>1. Ahead(x, P, T, F)
    BY <1>5 DEF Underway
  <2>2. Ahead(x, Q, T, F)
    BY <1>2, <1>3, <2>1 DEF Ahead
  <2> QED
    BY <1>2, <1>5, <2>2 DEF Underway, h, Q
<1> QED
  BY <1>4, <1>5

(* Every subscriber has the event, and the next one is due.                *)
LEMMA EventDone ==
    ASSUME NEW x \in FinalLine \cup {"none"}, NEW P, NEW T \in Seq(Event), NEW F,
           T # <<>>, Len(T) = 1 \/ Quiet(T),
           Head(T) \in Deciding => Has(P, Head(T)),
           Underway(x, P, T, F)
    PROVE  Underway(x, P, Tail(T), F) /\ (Len(Tail(T)) = 1 \/ Quiet(Tail(T)))
<1>1. x # "none" => x \in Deciding
  BY DEF Deciding
<1>2. CASE Quiet(T)
  <2>1. Head(T) \notin Deciding
    BY <1>2, HeadEvent
  <2>2. /\ x \in Deciding => (Has(Tail(T), x) <=> Has(T, x))
        /\ Quiet(Tail(T)) <=> Quiet(T)
        /\ x \in Deciding /\ LedBy(x, T) => LedBy(x, Tail(T))
    BY <2>1, TailEvent
  <2> QED
    BY <1>1, <1>2, <2>2 DEF Underway, Ahead
<1>3. CASE Len(T) = 1
  <2>1. Tail(T) = <<>> /\ (Has(T, x) => Head(T) = x)
    BY <1>3, OneEvent
  <2>2. Quiet(<<>>) /\ LedBy(x, <<>>)
    BY NoEvent
  <2>3. x # "none" /\ Has(T, x) => Has(P, x)
    BY <1>1, <2>1
  <2>4. Underway(x, P, <<>>, F)
    BY <2>2, <2>3 DEF Underway, Ahead
  <2> QED
    BY <2>1, <2>2, <2>4
<1> QED
  BY <1>2, <1>3

(* run_cvd reads an event that does not decide, or the one that leads.     *)
LEMMA EventRead ==
    ASSUME NEW x \in FinalLine \cup {"none"}, NEW P \in Seq(Event \cup {Torn}), P # <<>>,
           NEW T, NEW F, Underway(x, P, T, F)
    PROVE  /\ Head(P) \in Deciding => Head(P) = x
           /\ Head(P) \notin Deciding => Underway(x, Tail(P), T, F)
<1>1. ASSUME Head(P) \in Deciding PROVE Head(P) = x
  BY <1>1, HeadEvent DEF Underway, Ahead
<1>2. ASSUME Head(P) \notin Deciding PROVE Underway(x, Tail(P), T, F)
  <2>1. x # "none" => x \in Deciding
    BY DEF Deciding
  <2>2. /\ x \in Deciding => (Has(Tail(P), x) <=> Has(P, x))
        /\ Quiet(Tail(P)) <=> Quiet(P)
        /\ x \in Deciding /\ LedBy(x, P) => LedBy(x, Tail(P))
    BY <1>2, TailEvent
  <2> QED
    BY <2>1, <2>2 DEF Underway, Ahead
<1> QED
  BY <1>1, <1>2

-----------------------------------------------------------------------------
(* The invariant is inductive *)

LEMMA SubscriberIndices ==
    /\ Len(Subscribers) \in Nat /\ Len(Subscribers) > 0
    /\ \A i \in 1..Len(Subscribers) : Subscribers[i] \in Subs
    /\ \E i \in 1..Len(Subscribers) : Subscribers[i] = Me
<1>1. Len(Subscribers) \in Nat /\ DOMAIN Subscribers = 1..Len(Subscribers) /\ Len(Subscribers) > 0
  BY KernelLogAssumption, EmptySeq
<1> QED
  BY <1>1, MeAssumption DEF Subs

LEMMA InitBootInv == Init => BootInv
<1> SUFFICES ASSUME Init PROVE BootInv
  OBVIOUS
<1> USE DEF Init, LogInit
<1>1. LogTypes
  <2>1. <<>> \in Seq(Line) /\ <<>> \in Seq(Event) /\ <<>> \in Seq(Event \cup {Torn})
    BY EmptySeq
  <2>2. lost \in BOOLEAN
    OBVIOUS
  <2>3. pipe \in [Subs -> Seq(Event \cup {Torn})]
    BY <2>1
  <2> QED
    BY <2>1, <2>2, <2>3, SubscriberIndices, NoEvent DEF LogTypes
<1>2. Unread
  BY NoEvent, MeAssumption DEF Unread, Underway
<1>3. Told /\ Restoring
  BY DEF Told, Restoring
<1>4. Decided
  BY DEF Decided, Code
<1> QED
  BY <1>1, <1>2, <1>3, <1>4 DEF BootInv

(* What a step of the guest or of kernel_log_monitor has to keep: it      *)
(* leaves run_cvd alone and what the guest said first stays.               *)
LEMMA LogStepKeeps ==
    ASSUME BootInv, UNCHANGED bootVars, LogTypes',
           Faithful' => Faithful,
           first' = first \/ first = "none",
           Faithful' /\ state = {} => Unread'
    PROVE  BootInv'
<1>1. /\ state' = state /\ handler' = handler /\ code' = code /\ conf' = conf
      /\ restore' = restore /\ restoreReady' = restoreReady
  BY DEF bootVars
<1>2. Unread'
  BY <1>1 DEF Unread
<1>3. Told'
  BY <1>1 DEF BootInv, Told
<1>4. Decided' /\ Restoring'
  BY <1>1 DEF BootInv, Decided, Restoring
<1> QED
  BY <1>2, <1>3, <1>4 DEF BootInv

LEMMA GuestStep == ASSUME BootInv, Guest PROVE BootInv'
<1>1. PICK line \in Line : GuestWrites(line)
  BY DEF Guest
<1>2. UNCHANGED bootVars
  BY DEF Guest
<1>3. /\ fifo' = Append(fifo, line)
      /\ first' = IF first = "none" /\ line \in FinalLine THEN line ELSE first
      /\ kmon' = kmon /\ todo' = todo /\ idx' = idx /\ pipe' = pipe /\ deaths' = deaths /\ lost' = lost
  BY <1>1 DEF GuestWrites
<1>4. fifo' \in Seq(Line)
  BY <1>3, AppendProperties DEF BootInv, LogTypes
<1>5. LogTypes'
  <2>1. lost' \in BOOLEAN
    BY <1>3 DEF BootInv, LogTypes
  <2> QED
    BY <1>3, <1>4, <2>1 DEF BootInv, LogTypes
<1>6. (Faithful' => Faithful) /\ (first' = first \/ first = "none")
  BY <1>3 DEF Faithful
<1>7. ASSUME Faithful', state = {} PROVE Unread'
  <2>1. Underway(first, pipe[Me], todo, fifo)
    BY <1>6, <1>7 DEF BootInv, Unread
  <2>2. Underway(first', pipe[Me], todo, Append(fifo, line))
    BY <1>3, <2>1, LineWritten DEF BootInv, LogTypes
  <2> QED
    BY <1>3, <1>6, <1>7, <2>2 DEF BootInv, Unread
<1> QED
  BY <1>2, <1>5, <1>6, <1>7, LogStepKeeps

LEMMA MonitorReadStep == ASSUME BootInv, HandleIncomingMessage, UNCHANGED bootVars PROVE BootInv'
<1>1. /\ todo = <<>> /\ fifo # <<>> /\ fifo' = Tail(fifo)
      /\ first' = first /\ idx' = idx /\ pipe' = pipe /\ deaths' = deaths
      /\ (todo' = StageEvents(Head(fifo)) /\ lost' = lost) \/ (lost' = TRUE /\ todo' = todo)
  BY DEF HandleIncomingMessage
<1>2. fifo' \in Seq(Line) /\ idx = 1
  BY <1>1, HeadTailProperties DEF BootInv, LogTypes
<1>3. first \in FinalLine \cup {"none"} /\ fifo \in Seq(Line)
  BY DEF BootInv, LogTypes
<1>4. Head(fifo) \in Line
  BY <1>1, <1>3, HeadTailProperties
<1>5. /\ StageEvents(Head(fifo)) \in Seq(Event) /\ StageEvents(Head(fifo)) # <<>>
      /\ Len(StageEvents(Head(fifo))) = 1 \/ Quiet(StageEvents(Head(fifo)))
  BY <1>4, StageEventsOfLine
<1>6. LogTypes'
  <2>1. lost' \in BOOLEAN
    BY <1>1 DEF BootInv, LogTypes
  <2>2. todo' \in Seq(Event) /\ (Len(todo') = 1 \/ Quiet(todo'))
    BY <1>1, <1>5 DEF BootInv, LogTypes
  <2> QED
    BY <1>1, <1>2, <2>1, <2>2 DEF BootInv, LogTypes
<1>7. (Faithful' => Faithful /\ lost' = lost) /\ first' = first
  BY <1>1 DEF Faithful, BootInv, LogTypes
<1>8. ASSUME Faithful', state = {} PROVE Unread'
  <2>1. Underway(first, pipe[Me], <<>>, fifo)
    BY <1>1, <1>7, <1>8 DEF BootInv, Unread
  <2>2. todo' = StageEvents(Head(fifo))
    BY <1>1, <1>7, <1>8 DEF Faithful
  <2>3. Underway(first', pipe'[Me], todo', fifo')
    BY <1>1, <1>3, <2>1, <2>2, LineRead
  <2>4. 1..(idx' - 1) = {}
    BY <1>1, <1>2
  <2> QED
    BY <2>3, <2>4 DEF Unread
<1> QED
  BY <1>6, <1>7, <1>8, LogStepKeeps

LEMMA MonitorSendStep == ASSUME BootInv, ProcessSubscriptions, UNCHANGED bootVars PROVE BootInv'
<1> DEFINE s == Subscribers[idx]
           h == Head(todo)
<1>1. /\ todo # <<>>
      /\ pipe' = [pipe EXCEPT ![s] = Append(pipe[s], h)]
      /\ \/ idx < Len(Subscribers) /\ idx' = idx + 1 /\ todo' = todo
         \/ ~(idx < Len(Subscribers)) /\ idx' = 1 /\ todo' = Tail(todo)
      /\ fifo' = fifo /\ first' = first /\ deaths' = deaths /\ lost' = lost
  BY DEF ProcessSubscriptions
<1>2. /\ idx \in 1..Len(Subscribers) /\ s \in Subs /\ todo \in Seq(Event)
      /\ pipe \in [Subs -> Seq(Event \cup {Torn})] /\ first \in FinalLine \cup {"none"}
      /\ Len(todo) = 1 \/ Quiet(todo)
  BY SubscriberIndices DEF BootInv, LogTypes
<1>3. h \in Event /\ Tail(todo) \in Seq(Event) /\ pipe[Me] \in Seq(Event \cup {Torn})
  BY <1>1, <1>2, HeadTailProperties, MeAssumption
<1> HIDE DEF h
<1>4. pipe' \in [Subs -> Seq(Event \cup {Torn})]
  <2>1. Append(pipe[s], h) \in Seq(Event \cup {Torn})
    BY <1>2, <1>3, AppendProperties
  <2> QED
    BY <1>1, <1>2, <2>1
<1>5. pipe'[Me] = IF s = Me THEN Append(pipe[Me], h) ELSE pipe[Me]
  BY <1>1, <1>2, MeAssumption
<1>6. Len(Tail(todo)) = 1 \/ Quiet(Tail(todo))
  <2>1. CASE Len(todo) = 1
    BY <1>2, <2>1, OneEvent, NoEvent
  <2>2. CASE Quiet(todo)
    BY <1>1, <1>2, <2>2, HeadEvent, TailEvent
  <2> QED
    BY <1>2, <2>1, <2>2
<1> HIDE DEF s
<1>7. LogTypes'
  <2>1. lost' \in BOOLEAN
    BY <1>1 DEF BootInv, LogTypes
  <2>2. idx' \in 1..Len(Subscribers) /\ (todo' = <<>> => idx' = 1)
    BY <1>1, <1>2, SubscriberIndices
  <2>3. todo' \in Seq(Event) /\ (Len(todo') = 1 \/ Quiet(todo'))
    BY <1>1, <1>2, <1>3, <1>6
  <2> QED
    BY <1>1, <1>4, <2>1, <2>2, <2>3 DEF BootInv, LogTypes
<1>8. (Faithful' => Faithful) /\ first' = first
  BY <1>1 DEF Faithful
<1>9. ASSUME Faithful', state = {} PROVE Unread'
  <2>1. /\ Underway(first, pipe[Me], todo, fifo)
        /\ \A i \in 1..(idx - 1) : Subscribers[i] = Me /\ h \in Deciding => Has(pipe[Me], h)
    BY <1>1, <1>8, <1>9 DEF BootInv, Unread, h
  <2>2. /\ Underway(first, pipe'[Me], todo, fifo)
        /\ \A i \in 1..idx : Subscribers[i] = Me /\ h \in Deciding => Has(pipe'[Me], h)
    <3>1. CASE s = Me
      BY <1>1, <1>2, <1>3, <1>5, <2>1, <3>1, EventSent DEF h
    <3>2. CASE s # Me
      <4>1. \A i \in 1..idx : Subscribers[i] = Me => i \in 1..(idx - 1)
        BY <1>2, <3>2 DEF s
      <4> QED
        BY <1>5, <2>1, <3>2, <4>1
    <3> QED
      BY <3>1, <3>2
  <2>3. CASE idx < Len(Subscribers)
    <3>1. idx' - 1 = idx /\ todo' = todo
      BY <1>1, <1>2, <2>3
    <3> QED
      BY <1>1, <2>2, <3>1 DEF Unread, h
  <2>4. CASE ~(idx < Len(Subscribers))
    <3>1. todo' = Tail(todo) /\ 1..(idx' - 1) = {}
      BY <1>1, <2>4
    <3>2. 1..idx = 1..Len(Subscribers)
      BY <1>2, <2>4, SubscriberIndices
    <3>3. h \in Deciding => Has(pipe'[Me], h)
      BY <2>2, <3>2, SubscriberIndices
    <3>4. Underway(first, pipe'[Me], Tail(todo), fifo)
      BY <1>1, <1>2, <2>2, <3>3, EventDone DEF h
    <3> QED
      BY <1>1, <3>1, <3>4 DEF Unread
  <2> QED
    BY <2>3, <2>4
<1> QED
  BY <1>7, <1>8, <1>9, LogStepKeeps

(* The monitor's deaths, its restart and the other subscribers.            *)
LEMMA MonitorFaultStep ==
    ASSUME BootInv, MonitorFaults \/ RestartMonitor \/ OtherReads PROVE BootInv'
<1> USE DEF MonitorFaults, RestartMonitor, OtherReads
<1>1. CASE MonitorFaults
  <2>1. /\ todo' = <<>> /\ idx' = 1 /\ deaths' = deaths + 1
        /\ \/ pipe' = pipe
           \/ pipe' = [pipe EXCEPT ![Subscribers[idx]] = Append(pipe[Subscribers[idx]], Torn)]
        /\ fifo' = fifo /\ first' = first /\ lost' = lost
    BY <1>1 DEF MonitorDies
  <2>2. pipe' \in [Subs -> Seq(Event \cup {Torn})]
    <3>1. Subscribers[idx] \in Subs /\ pipe \in [Subs -> Seq(Event \cup {Torn})]
      BY SubscriberIndices DEF BootInv, LogTypes
    <3>2. Append(pipe[Subscribers[idx]], Torn) \in Seq(Event \cup {Torn})
      BY <3>1, AppendProperties
    <3> QED
      BY <2>1, <3>1, <3>2
  <2>3. deaths' \in Nat /\ deaths' # 0 /\ lost' \in BOOLEAN
    BY <2>1 DEF BootInv, LogTypes
  <2>4. LogTypes'
    BY <2>1, <2>2, <2>3, NoEvent, EmptySeq, SubscriberIndices DEF BootInv, LogTypes
  <2>5. ~Faithful'
    BY <2>3 DEF Faithful
  <2> QED
    BY <1>1, <2>1, <2>4, <2>5, LogStepKeeps
<1>2. CASE RestartMonitor
  <2>1. UNCHANGED <<fifo, lines, first, todo, idx, pipe, deaths, lost>>
    BY <1>2 DEF MonitorRestarted
  <2>2. UNCHANGED bootVars
    BY <1>2
  <2>3. state' = state
    BY <2>2 DEF bootVars
  <2>4. LogTypes'
    BY <2>1 DEF BootInv, LogTypes
  <2>5. (Faithful' => Faithful) /\ first' = first
    BY <2>1 DEF Faithful
  <2>6. Unread'
    BY <2>1, <2>3 DEF BootInv, Unread, Faithful
  <2> QED
    BY <2>2, <2>4, <2>5, <2>6, LogStepKeeps
<1>3. CASE OtherReads
  <2>1. PICK s \in Subs \ {Me} : ReadEvent(s)
    BY <1>3
  <2>2. /\ pipe[s] # <<>> /\ pipe' = [pipe EXCEPT ![s] = Tail(pipe[s])]
        /\ UNCHANGED <<fifo, lines, first, kmon, todo, idx, deaths, lost>>
    BY <2>1 DEF ReadEvent, EventReady
  <2>3. /\ pipe \in [Subs -> Seq(Event \cup {Torn})]
        /\ Tail(pipe[s]) \in Seq(Event \cup {Torn})
    BY <2>2, HeadTailProperties DEF BootInv, LogTypes
  <2>4. pipe' \in [Subs -> Seq(Event \cup {Torn})] /\ pipe'[Me] = pipe[Me]
    BY <2>2, <2>3, MeAssumption
  <2>5. UNCHANGED bootVars
    BY <1>3
  <2>6. state' = state
    BY <2>5 DEF bootVars
  <2>7. LogTypes'
    BY <2>2, <2>4 DEF BootInv, LogTypes
  <2>8. (Faithful' => Faithful) /\ first' = first
    BY <2>2 DEF Faithful
  <2>9. Unread'
    BY <2>2, <2>4, <2>6 DEF BootInv, Unread, Faithful
  <2> QED
    BY <2>5, <2>7, <2>8, <2>9, LogStepKeeps
<1> QED
  BY <1>1, <1>2, <1>3

(* run_cvd reads an event: if it decides, it is what the guest said first. *)
LEMMA ReadStep == ASSUME BootInv, OnBootEvtReceived PROVE BootInv'
<1> DEFINE P == pipe[Me]
           h == Head(pipe[Me])
<1>1. /\ handler = "read" /\ P # <<>> /\ pipe' = [pipe EXCEPT ![Me] = Tail(pipe[Me])]
      /\ UNCHANGED <<fifo, lines, first, kmon, todo, idx, deaths, lost>>
      /\ state' = state \cup Flags(h) /\ MaybeWriteNotification(state \cup Flags(h))
      /\ handler' = IF state \cup Flags(h) = {} THEN (IF restoreReady THEN "restore" ELSE "poll")
                    ELSE IF "Completed" \notin state \cup Flags(h) /\ conf.fail_fast THEN "fail"
                    ELSE AfterBreak(state \cup Flags(h))
      /\ UNCHANGED <<conf, main, restoreReady, timer, restore, failing, fg>>
  BY DEF OnBootEvtReceived, ReadEvent, EventReady
<1>2. state = {} /\ \A l \in Listener : code[l] = "none"
  BY <1>1 DEF BootInv, Decided
<1>3. /\ pipe \in [Subs -> Seq(Event \cup {Torn})] /\ P \in Seq(Event \cup {Torn})
      /\ Tail(P) \in Seq(Event \cup {Torn}) /\ h \in Event \cup {Torn}
      /\ first \in FinalLine \cup {"none"}
  BY <1>1, MeAssumption, HeadTailProperties DEF BootInv, LogTypes
<1>4. pipe' \in [Subs -> Seq(Event \cup {Torn})] /\ pipe'[Me] = Tail(P)
  BY <1>1, <1>3, MeAssumption
<1>5. LogTypes'
  BY <1>1, <1>4 DEF BootInv, LogTypes
<1>6. Faithful' = Faithful
  BY <1>1 DEF Faithful
<1>7. /\ h \notin Deciding => Flags(h) = {}
      /\ h = "BootCompleted" => Flags(h) = {"Completed"}
      /\ h \in {"BootFailed", Torn} => Flags(h) = {"Failed"}
      /\ h \in Deciding <=> h \in {"BootCompleted", "BootFailed", Torn}
  <2>1. h \in Deciding <=> h \in {"BootCompleted", "BootFailed", Torn}
    BY DEF Deciding, FinalLine
  <2>2. h = "BootCompleted" => Flags(h) = {"Completed"}
    BY DEF Flags, Torn
  <2>3. h \in {"BootFailed", Torn} => Flags(h) = {"Failed"}
    BY DEF Flags, Torn
  <2>4. h \notin Deciding => Flags(h) = {}
    BY <2>1 DEF Flags
  <2> QED
    BY <2>1, <2>2, <2>3, <2>4
<1> HIDE DEF P, h
<1>8. state' = Flags(h) /\ state' \in {{}, {"Completed"}, {"Failed"}}
  BY <1>1, <1>2, <1>7
<1>9. Decided'
  <2>1. CASE Flags(h) = {}
    BY <1>1, <1>2, <1>8, <2>1 DEF BootInv, Decided, MaybeWriteNotification
  <2>2. CASE Flags(h) # {}
    <3>1. code' = [l \in Listener |-> IF l \in open THEN Verdict(state') ELSE code[l]]
      BY <1>1, <1>2, <2>2 DEF MaybeWriteNotification
    <3>2. Verdict(state') \in Code
      BY DEF Verdict, Code
    <3>3. handler' \notin {"poll", "read", "restore"}
      BY <1>1, <1>2, <2>2 DEF AfterBreak
    <3> QED
      BY <1>2, <1>8, <2>2, <3>1, <3>2, <3>3 DEF BootInv, Decided
  <2> QED
    BY <2>1, <2>2
<1>10. Unread' /\ Told'
  <2>1. CASE ~Faithful
    BY <1>6, <2>1 DEF Unread, Told
  <2>2. CASE Faithful
    <3>1. /\ Underway(first, P, todo, fifo)
          /\ \A i \in 1..(idx - 1) :
                Subscribers[i] = Me /\ todo # <<>> /\ Head(todo) \in Deciding => Has(P, Head(todo))
      BY <1>2, <2>2 DEF BootInv, Unread, P
    <3>2. /\ h \in Deciding => h = first
          /\ h \notin Deciding => Underway(first, Tail(P), todo, fifo)
      BY <1>1, <1>3, <3>1, EventRead DEF P, h
    <3>3. CASE h \in Deciding
      <4>1. state' # {} /\ first' = first /\ first # Torn
        BY <1>1, <1>3, <1>7, <1>8, <3>3 DEF FinalLine, Torn
      <4>2. Unread'
        BY <4>1 DEF Unread
      <4>3. Told'
        BY <1>7, <1>8, <3>2, <3>3, <4>1 DEF Told
      <4> QED
        BY <4>2, <4>3
    <3>4. CASE h \notin Deciding
      <4>1. state' = {}
        BY <1>7, <1>8, <3>4
      <4>2. \A y \in Deciding : Has(P, y) => Has(Tail(P), y)
        BY <1>1, <1>3, <3>4, TailEvent DEF P, h
      <4>3. Unread'
        BY <1>1, <1>4, <3>1, <3>2, <3>4, <4>2 DEF Unread
      <4> QED
        BY <4>1, <4>3 DEF Told
    <3> QED
      BY <3>3, <3>4
  <2> QED
    BY <2>1, <2>2
<1>11. Restoring'
  BY <1>1 DEF BootInv, Restoring, AfterBreak
<1> QED
  BY <1>5, <1>9, <1>10, <1>11 DEF BootInv

(* A restore decides too, for a device that is restored.                   *)
LEMMA RestoreStep == ASSUME BootInv, OnRestoreComplete PROVE BootInv'
<1>1. /\ handler = "restore" /\ restore' = "ended"
      /\ state' = state \cup {"Completed"} /\ MaybeWriteNotification(state \cup {"Completed"})
      /\ handler' = AfterBreak(state \cup {"Completed"})
      /\ UNCHANGED <<logVars, conf, main, restoreReady, timer, failing, fg>>
  BY DEF OnRestoreComplete
<1>2. state = {} /\ conf.restoring /\ \A l \in Listener : code[l] = "none"
  BY <1>1 DEF BootInv, Decided, Restoring
<1>3. state' = {"Completed"} /\ handler' = "drain"
  BY <1>1, <1>2 DEF AfterBreak
<1>4. LogTypes'
  BY <1>1 DEF BootInv, LogTypes, logVars
<1>5. Unread' /\ Told' /\ Restoring'
  BY <1>1, <1>2, <1>3 DEF Unread, Told, Restoring
<1>6. Decided'
  <2>1. code' = [l \in Listener |-> IF l \in open THEN Verdict(state') ELSE code[l]]
    BY <1>1, <1>3 DEF MaybeWriteNotification
  <2>2. Verdict(state') \in Code
    BY DEF Verdict, Code
  <2> QED
    BY <1>2, <1>3, <2>1, <2>2 DEF Decided
<1> QED
  BY <1>4, <1>5, <1>6 DEF BootInv

(* An event that is thrown away after the boot was completed.              *)
LEMMA DrainStep == ASSUME BootInv, DrainBootEventPipe PROVE BootInv'
<1>1. /\ handler = "drain_read" /\ handler' \in {"ended", "drain"} /\ pipe[Me] # <<>>
      /\ pipe' = [pipe EXCEPT ![Me] = Tail(pipe[Me])]
      /\ UNCHANGED <<fifo, lines, first, kmon, todo, idx, deaths, lost>>
      /\ UNCHANGED <<conf, main, state, restoreReady, open, code, timeout_done,
                     timer, restore, failing, fg>>
  BY DEF DrainBootEventPipe, ReadEvent, EventReady
<1>2. state # {}
  BY <1>1 DEF BootInv, Decided
<1>3. pipe \in [Subs -> Seq(Event \cup {Torn})] /\ Tail(pipe[Me]) \in Seq(Event \cup {Torn})
  BY <1>1, MeAssumption, HeadTailProperties DEF BootInv, LogTypes
<1>4. LogTypes'
  BY <1>1, <1>3 DEF BootInv, LogTypes
<1>5. Unread'
  BY <1>1, <1>2 DEF Unread
<1>6. Told' /\ Restoring'
  BY <1>1 DEF BootInv, Told, Faithful, Restoring
<1>7. Decided'
  BY <1>1, <1>2 DEF BootInv, Decided
<1> QED
  BY <1>4, <1>5, <1>6, <1>7 DEF BootInv

(* The other steps of run_cvd's threads and of the launcher decide nothing.*)
LEMMA OwnThreadStep ==
    ASSUME BootInv, UNCHANGED <<logVars, conf, state, code>>,
           handler' \in {"poll", "read", "restore"} => handler \in {"poll", "read", "restore"},
           handler' \in {"drain", "drain_read"} => handler \in {"drain", "drain_read"},
           restore = "ended" => restore' = "ended",
           Restoring'
    PROVE  BootInv'
<1>1. LogTypes'
  BY DEF BootInv, LogTypes, logVars
<1>2. Unread'
  BY DEF BootInv, Unread, Faithful, logVars
<1>3. Told'
  BY DEF BootInv, Told, Faithful, logVars
<1>4. Decided'
  BY DEF BootInv, Decided
<1> QED
  BY <1>1, <1>2, <1>3, <1>4 DEF BootInv

LEMMA StepBootInv == BootInv /\ [Next]_vars => BootInv'
<1> SUFFICES ASSUME BootInv, [Next]_vars PROVE BootInv'
  OBVIOUS
<1>r. Restoring
  BY DEF BootInv
<1>1. CASE MainThread \/ ServeStop
  BY <1>1, <1>r, OwnThreadStep
     DEF MainThread, SetupDone, SetupFails, Destroyed, ServeFail, ServeStop, Restoring
<1>2. CASE Poll
  <2>1. /\ UNCHANGED <<logVars, conf, state, code>> /\ restore' = restore
        /\ handler = "poll" /\ handler' \in {"poll", "read", "restore", "ended"}
    BY <1>2 DEF Poll
  <2>2. CASE UNCHANGED restoreReady /\ handler' # "restore"
    <3>1. Restoring'
      BY <1>r, <2>1, <2>2 DEF Restoring
    <3> QED
      BY <2>1, <3>1, OwnThreadStep
  <2>3. CASE ~(UNCHANGED restoreReady /\ handler' # "restore")
    <3>1. /\ restoreReady' = RestorePending
          /\ handler' = IF pipe[Me] # <<>> THEN "read" ELSE "restore"
          /\ pipe[Me] # <<>> \/ RestorePending
      BY <1>2, <2>3 DEF Poll
    <3>2. restoreReady' \/ handler' = "restore" => restore = "written"
      BY <3>1 DEF RestorePending
    <3>3. Restoring'
      BY <1>r, <2>1, <3>2 DEF Restoring
    <3> QED
      BY <2>1, <3>3, OwnThreadStep
  <2> QED
    BY <2>2, <2>3
<1>3. CASE HandlerFails \/ DrainPoll
  BY <1>3, <1>r, OwnThreadStep DEF HandlerFails, DrainPoll, Restoring
<1>4. CASE Timer
  BY <1>4, <1>r, OwnThreadStep
     DEF Timer, TimeoutExpires, TimeoutCancelled, TimeoutFails, Restoring
<1>5. CASE Restore
  BY <1>5, <1>r, OwnThreadStep
     DEF Restore, WaitForRestoreComplete, RestoreSteps, Restoring
<1>6. CASE LauncherReads \/ LauncherKilled
  BY <1>6, <1>r, OwnThreadStep DEF LauncherReads, LauncherKilled, Restoring
<1>7. CASE UNCHANGED vars
  BY <1>7, <1>r, OwnThreadStep DEF vars, bootVars, Restoring
<1>8. CASE Monitor
  BY <1>8, MonitorReadStep, MonitorSendStep DEF Monitor
<1> QED
  BY <1>1, <1>2, <1>3, <1>4, <1>5, <1>6, <1>7, <1>8, ReadStep, RestoreStep, DrainStep,
     GuestStep, MonitorFaultStep
     DEF Next, BootHandler, Ended

-----------------------------------------------------------------------------
(* What MaybeWriteNotification tells the launcher and the client that      *)
(* asked for a reboot is what the guest said first, whatever it says later *)
(* and however the threads interleave, for every subscriber list, FIFO and *)
(* pipe size, number of lines and configuration.                           *)
THEOREM BootVerdict == Spec => []VerdictIsTheGuests
<1>1. Init => BootInv
  BY InitBootInv
<1>2. BootInv /\ [Next]_vars => BootInv'
  BY StepBootInv
<1>3. BootInv => VerdictIsTheGuests
  <2> SUFFICES ASSUME BootInv PROVE VerdictIsTheGuests
    OBVIOUS
  <2>1. \A c \in Reported : state # {} /\ c = Verdict(state)
    BY DEF BootInv, Decided, Reported
  <2>2. \A c \in Reported : c = "kSuccess" => state = {"Completed"}
    BY <2>1 DEF BootInv, Decided, Verdict
  <2>3. \A c \in Reported : c = "kVirtualDeviceBootFailed" => state = {"Failed"}
    BY <2>1 DEF BootInv, Decided, Verdict
  <2>4. deaths = 0 \/ deaths > 0
    BY DEF BootInv, LogTypes
  <2>5. ~lost /\ "kSuccess" \in Reported =>
            first = "BootCompleted" \/ deaths > 0 \/ (conf.restoring /\ restore = "ended")
    BY <2>2, <2>4 DEF BootInv, Told, Faithful
  <2>6. ~lost /\ "kVirtualDeviceBootFailed" \in Reported => first = "BootFailed" \/ deaths > 0
    BY <2>3, <2>4 DEF BootInv, Told, Faithful
  <2>7. Reported # {} => Reported = {Verdict(state)}
    BY <2>1
  <2> QED
    BY <2>5, <2>6, <2>7 DEF VerdictIsTheGuests
<1> QED
  BY <1>1, <1>2, <1>3, PTL DEF Spec
=============================================================================
