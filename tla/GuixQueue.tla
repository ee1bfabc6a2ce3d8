----------------------------- MODULE GuixQueue ------------------------------
(***************************************************************************)
(* GUIX on RTEMS (lib/gui/guix_rtems_queue.c): the event queue, the GUI    *)
(* thread and the timer task, with the parts of GUIX that use them (the    *)
(* thread's event loop and the system timers).                             *)
(*                                                                         *)
(* The two tasks have the same priority and no time slice, on a single     *)
(* processor: each runs until it blocks.  A third party, of higher         *)
(* priority, posts events at any time.  What is done under the queue's     *)
(* mutex is one step.                                                      *)
(***************************************************************************)
EXTENDS Lists

CONSTANTS
    Slots,       \* GX_MAX_QUEUE_EVENTS
    Widgets,     \* the owners of timers
    MaxTimers,   \* timers in the pool of GUIX
    MaxTicks,    \* the longest time of a timer
    Closing,     \* widgets that an event handler may close
    Observers,   \* who wants to know that the GUI sleeps
    Priority,    \* their priorities
    MaxPosts     \* events from outside, at most

ASSUME GuixAssumption ==
    /\ {Slots, MaxTimers, MaxTicks} \subseteq Nat \ {0} /\ MaxPosts \in Nat
    /\ Closing \subseteq Widgets
    /\ \A o \in Observers : Priority[o] \in Int

VARIABLES
    pending,     \* the events that wait; the other nodes are free
    gui,         \* the GUI thread, guix_thread_adaptor
    tmr,         \* the timer task, with timer_running and timer_active
    timers,      \* _gx_system_active_timer_list
    cpu,         \* which of the two tasks runs, or ran last if both are blocked
    observers,   \* guix_suspend_notifier_list
    told,        \* what each observer was told last since it registered
    posts        \* events from outside so far

vars == <<pending, gui, tmr, timers, cpu, observers, told, posts>>

NoEvent == [type |-> "none", target |-> "none", n |-> 0]
Event(type, target) == [type |-> type, target |-> target, n |-> 1]
Inputs == {Event("user", "none"), Event("terminate", "none")}

Init ==
    /\ pending = << >> /\ timers = << >>
    /\ gui = [pc |-> "pop", in |-> "loop", ev |-> NoEvent, k |-> 0, wait |-> FALSE,
              wake |-> FALSE, done |-> FALSE, early |-> FALSE]
    /\ tmr = [pc |-> "new", susp |-> FALSE, running |-> FALSE, active |-> FALSE,
              wakeup |-> FALSE]
    /\ cpu = "tmr"
    /\ observers = << >> /\ told = [o \in Observers |-> "none"]
    /\ posts = 0

----------------------------------------------------------------------------
(* Scheduling.                                                             *)

GuiReady == gui.pc \notin {"wait", "done", "astray"} \/ (gui.pc = "done" /\ gui.done)
TmrReady == ~tmr.susp /\ tmr.pc # "delay" /\ (tmr.pc = "wakeup" => tmr.wakeup)

\* A task goes on as long as it is ready; a task that becomes ready while the
\* other one is has to wait.
GuiRuns == GuiReady /\ (cpu = "tmr" => ~TmrReady) /\ cpu' = "gui"
TmrRuns == TmrReady /\ (cpu = "gui" => ~GuiReady) /\ cpu' = "tmr"

----------------------------------------------------------------------------
(* The queue.                                                              *)

\* gx_generic_event_post; the queue as it was when there is no free node.
Posted(q, e) == IF Len(q) < Slots THEN Append(q, e) ELSE q

Matching(q, e) == {k \in DOMAIN q : q[k].type = e.type /\ q[k].target = e.target}
\* gx_generic_event_fold of a timer event: its ticks are counted, up to the bound.
Folded(q, e) ==
    LET m == Matching(q, e)
        k == CHOOSE i \in m : \A j \in m : i <= j
    IN  IF m = {} THEN Posted(q, e)
        ELSE [q EXCEPT ![k].n = IF @ < MaxTicks THEN @ + 1 ELSE @]

\* Variant: the thread is signalled when a second event comes.
Signals_Second(q) == Len(q) = 2

\* A new event signals the condition variable if it is the only one.
Signals(q) == Len(q) = 1
Signalled(g, q) == IF Len(q) > Len(pending) /\ Signals(q) /\ g.pc = "wait"
                   THEN [g EXCEPT !.pc = "take"] ELSE g

\* An event from outside, a touch or a request to sleep.
Post(e) ==
    /\ posts < MaxPosts
    /\ posts' = posts + 1
    /\ pending' = Posted(pending, e)
    /\ gui' = Signalled(gui, pending')
    /\ cpu' = IF ~GuiReady /\ TmrReady THEN "tmr" ELSE cpu
    /\ UNCHANGED <<tmr, timers, observers, told>>

----------------------------------------------------------------------------
(* The timer task and its control.                                         *)

\* gx_generic_timer_start, gx_generic_timer_stop
Started(t) == IF t.running THEN t ELSE [t EXCEPT !.running = TRUE, !.susp = FALSE]
Stopped(t) == IF t.running THEN [t EXCEPT !.running = FALSE, !.susp = TRUE] ELSE t

TmrNew ==
    /\ tmr.pc = "new" /\ TmrRuns
    /\ tmr' = [tmr EXCEPT !.pc = "begin", !.susp = ~tmr.running]
    /\ UNCHANGED <<pending, gui, timers, observers, told, posts>>

TmrBegin ==
    /\ tmr.pc = "begin" /\ TmrRuns
    /\ tmr' = [tmr EXCEPT !.pc = "delay", !.active = TRUE]
    /\ UNCHANGED <<pending, gui, timers, observers, told, posts>>

\* rtems_task_wake_after has expired, also for a task that is suspended.
DelayOver ==
    /\ tmr.pc = "delay"
    /\ tmr' = [tmr EXCEPT !.pc = "check"]
    /\ cpu' = IF GuiReady THEN "gui" ELSE cpu
    /\ UNCHANGED <<pending, gui, timers, observers, told, posts>>

TmrCheck ==
    /\ tmr.pc = "check" /\ TmrRuns
    /\ tmr' = [tmr EXCEPT !.pc = IF tmr.active THEN "expire" ELSE "wakeup"]
    /\ gui' = IF tmr.active THEN gui ELSE [gui EXCEPT !.done = TRUE]
    /\ UNCHANGED <<pending, timers, observers, told, posts>>

TmrWakeup ==
    /\ tmr.pc = "wakeup" /\ TmrRuns
    /\ tmr' = [tmr EXCEPT !.pc = "check", !.wakeup = FALSE]
    /\ UNCHANGED <<pending, gui, timers, observers, told, posts>>

\* _gx_system_timer_expiration.  It would stop the timer if it found none active,
\* but who makes the list empty has stopped the task by then (TimersRun).
TmrExpire ==
    /\ tmr.pc = "expire" /\ TmrRuns /\ timers # << >>
    /\ tmr' = [tmr EXCEPT !.pc = "delay"]
    /\ pending' = Folded(pending, Event("timer", "none"))
    /\ gui' = Signalled(gui, pending')
    /\ UNCHANGED <<timers, observers, told, posts>>

----------------------------------------------------------------------------
(* The GUI thread: _gx_system_thread_entry (gui.in = "loop") and the sleep *)
(* that follows its end ("sleep").                                         *)

\* gx_generic_event_pop is called with GX_FALSE, and if the queue is empty again
\* with GX_TRUE; the test is made without the mutex.
GuiPop ==
    /\ gui.pc = "pop" /\ GuiRuns
    /\ gui' = [gui EXCEPT !.pc = "take", !.wait = pending = << >>]
    /\ UNCHANGED <<pending, tmr, timers, observers, told, posts>>

GuiTake ==
    /\ gui.pc = "take" /\ GuiRuns
    /\ IF pending = << >>
       THEN gui' = [gui EXCEPT !.pc = "wait"] /\ UNCHANGED pending
       ELSE /\ pending' = Tail(pending)
            /\ gui' = [gui EXCEPT !.ev = Head(pending),
                          !.pc = CASE gui.in = "loop" -> "handle"
                                   [] gui.in = "sleep" /\ gui.wait -> "redraw"
                                   [] OTHER -> "pop"]
    /\ UNCHANGED <<tmr, timers, observers, told, posts>>

Handles(type) == gui.pc = "handle" /\ gui.ev.type = type /\ GuiRuns
Handled == gui' = [gui EXCEPT !.pc = "pop", !.ev = NoEvent]

HandleRedraw ==
    /\ Handles("redraw") /\ Handled
    /\ UNCHANGED <<pending, tmr, timers, observers, told, posts>>

HandleTerminate ==
    /\ Handles("terminate")
    /\ gui' = [gui EXCEPT !.pc = "exit", !.ev = NoEvent]
    /\ UNCHANGED <<pending, tmr, timers, observers, told, posts>>

HandleTimer ==
    /\ Handles("timer") /\ gui.ev.target = "none"
    /\ gui' = [gui EXCEPT !.pc = "update", !.k = 1]
    /\ UNCHANGED <<pending, tmr, timers, observers, told, posts>>

\* _gx_system_timer_update goes through the timers, and events from outside may
\* come in the meantime.  A timer that has expired is started again or removed,
\* the timer task is stopped with the last one, and the owner is sent an event.
UpdateTimer ==
    /\ gui.pc = "update" /\ gui.k <= Len(timers) /\ GuiRuns
    /\ LET t    == timers[gui.k]
           over == t.left <= gui.ev.n
           gone == over /\ t.again = 0
       IN  /\ timers' = IF gone THEN RemoveAt(timers, gui.k)
                        ELSE [timers EXCEPT ![gui.k].left = IF over THEN t.again ELSE @ - gui.ev.n]
           /\ tmr' = IF timers' = << >> THEN Stopped(tmr) ELSE tmr
           /\ pending' = IF over THEN Posted(pending, Event("timer", t.owner)) ELSE pending
           /\ gui' = [gui EXCEPT !.k = IF gone THEN @ ELSE @ + 1]
    /\ UNCHANGED <<observers, told, posts>>

UpdateDone ==
    /\ gui.pc = "update" /\ gui.k > Len(timers) /\ GuiRuns
    /\ gui' = [gui EXCEPT !.pc = "pop", !.ev = NoEvent, !.k = 0]
    /\ UNCHANGED <<pending, tmr, timers, observers, told, posts>>

\* An event for a widget.  Its handler may start or stop the widget's timer, or
\* close the widget.
Dispatches == gui.ev.target # "none" \/ gui.ev.type = "user"
HandleEvent ==
    /\ \E type \in {"user", "timer"} : Handles(type)
    /\ Dispatches /\ Handled
    /\ UNCHANGED <<pending, tmr, timers, observers, told, posts>>

Owned(w) == {k \in DOMAIN timers : timers[k].owner = w}

\* _gx_system_timer_start
HandleStart(w, left, again) ==
    /\ \E type \in {"user", "timer"} : Handles(type)
    /\ Dispatches /\ Handled
    /\ LET t == [owner |-> w, left |-> left, again |-> again]
       IN  \/ \E k \in Owned(w) : timers' = [timers EXCEPT ![k] = t] /\ UNCHANGED tmr
           \/ /\ Owned(w) = {} /\ Len(timers) < MaxTimers
              /\ timers' = <<t>> \o timers
              /\ tmr' = Started(tmr)
    /\ UNCHANGED <<pending, observers, told, posts>>

\* Variant: the timer task is stopped with other timers still active.
HandleStop_Always(w) ==
    /\ \E type \in {"user", "timer"} : Handles(type)
    /\ Dispatches /\ Handled
    /\ \/ \E k \in Owned(w) : timers' = RemoveAt(timers, k)
       \/ Owned(w) = {} /\ UNCHANGED timers
    /\ tmr' = Stopped(tmr)
    /\ UNCHANGED <<pending, observers, told, posts>>

\* _gx_system_timer_stop; a widget has one timer here.
HandleStop(w) ==
    /\ \E type \in {"user", "timer"} : Handles(type)
    /\ Dispatches /\ Handled
    /\ \/ \E k \in Owned(w) : timers' = RemoveAt(timers, k)
       \/ Owned(w) = {} /\ UNCHANGED timers
    /\ tmr' = IF timers' = << >> THEN Stopped(tmr) ELSE tmr
    /\ UNCHANGED <<pending, observers, told, posts>>

\* Closing a widget purges its events.  The walk of gx_generic_event_purge moves the
\* first event it finds to the free chain and goes on with the node behind it there,
\* so that it leaves the queue; nothing is said of what it does then.
HandleClose(w) ==
    /\ \E type \in {"user", "timer"} : Handles(type)
    /\ Dispatches
    /\ LET m == {k \in DOMAIN pending : pending[k].target = w}
       IN  \/ m = {} /\ Handled /\ UNCHANGED pending
           \/ \E k \in m : /\ \A j \in m : k <= j
                           /\ pending' = RemoveAt(pending, k)
                           /\ gui' = [gui EXCEPT !.pc = "astray"]
    /\ UNCHANGED <<tmr, timers, observers, told, posts>>

\* Variant: the timer is not waited for.
GuiExit_NoWait ==
    /\ gui.pc = "exit" /\ GuiRuns
    /\ gui' = [gui EXCEPT !.wake = ~tmr.susp, !.pc = "enter"]
    /\ tmr' = IF tmr.susp THEN tmr ELSE [tmr EXCEPT !.active = FALSE]
    /\ UNCHANGED <<pending, timers, observers, told, posts>>

\* The thread's entry has returned: the timer task is made to wait.
GuiExit ==
    /\ gui.pc = "exit" /\ GuiRuns
    /\ gui' = [gui EXCEPT !.wake = ~tmr.susp, !.pc = IF tmr.susp THEN "enter" ELSE "done",
                          !.early = ~tmr.susp /\ tmr.pc = "begin"]
    /\ tmr' = IF tmr.susp THEN tmr ELSE [tmr EXCEPT !.active = FALSE]
    /\ UNCHANGED <<pending, timers, observers, told, posts>>

GuiDone ==
    /\ gui.pc = "done" /\ GuiRuns
    /\ gui' = [gui EXCEPT !.pc = "enter", !.done = FALSE]
    /\ UNCHANGED <<pending, tmr, timers, observers, told, posts>>

\* Variant: only the first observer is told.
Notified_First(v) ==
    [o \in Observers |-> IF observers # << >> /\ o = observers[1] THEN v ELSE told[o]]

\* observer_notify
Notified(v) == [o \in Observers |-> IF o \in ToSet(observers) THEN v ELSE told[o]]

GuiEnter ==
    /\ gui.pc = "enter" /\ GuiRuns
    /\ told' = Notified("enter")
    /\ gui' = [gui EXCEPT !.pc = "pop", !.in = "sleep"]
    /\ UNCHANGED <<pending, tmr, timers, observers, posts>>

\* The event that has ended the sleep is dropped and the screen drawn anew.
GuiRedraw ==
    /\ gui.pc = "redraw" /\ GuiRuns
    /\ pending' = Posted(pending, Event("redraw", "none"))
    /\ gui' = [gui EXCEPT !.pc = "resume", !.ev = NoEvent]
    /\ UNCHANGED <<tmr, timers, observers, told, posts>>

\* Variant: the timer task is woken but not told to go on.
Woken_Idle(t) == IF gui.wake THEN [t EXCEPT !.wakeup = TRUE] ELSE t

Woken(t) == IF gui.wake THEN [t EXCEPT !.active = TRUE, !.wakeup = TRUE] ELSE t

GuiResume ==
    /\ gui.pc = "resume" /\ GuiRuns
    /\ told' = Notified("exit")
    /\ tmr' = Woken(tmr)
    /\ gui' = [gui EXCEPT !.pc = "pop", !.in = "loop"]
    /\ UNCHANGED <<pending, timers, observers, posts>>

----------------------------------------------------------------------------
(* Observers come and go; the notifier's lock keeps them out of a          *)
(* notification.                                                           *)

\* observer_cond_register goes past those of the same or a higher priority.
Place(o, k) ==
    /\ \A j \in 1 .. k - 1 : Priority[observers[j]] >= Priority[o]
    /\ k <= Len(observers) => Priority[o] > Priority[observers[k]]

Register(o) ==
    /\ IF o \in ToSet(observers) THEN UNCHANGED <<observers, told>>
       ELSE \E k \in 1 .. Len(observers) + 1 :
              Place(o, k) /\ observers' = InsertAt(observers, k, o)
              /\ told' = [told EXCEPT ![o] = "none"]
    /\ UNCHANGED <<pending, gui, tmr, timers, cpu, posts>>

\* observer_unregister
Unregister(o) ==
    /\ \E k \in DOMAIN observers :
         observers[k] = o /\ observers' = RemoveAt(observers, k)
    /\ told' = [told EXCEPT ![o] = "none"]
    /\ UNCHANGED <<pending, gui, tmr, timers, cpu, posts>>

----------------------------------------------------------------------------
Gui ==
    \/ GuiPop \/ GuiTake \/ HandleRedraw \/ HandleTerminate \/ HandleEvent
    \/ HandleTimer \/ UpdateTimer \/ UpdateDone
    \/ \E w \in Widgets : HandleStop(w)
    \/ \E w \in Widgets, left \in 1 .. MaxTicks, again \in {0, 1} : HandleStart(w, left, again)
    \/ \E w \in Closing : HandleClose(w)
    \/ GuiExit \/ GuiDone \/ GuiEnter \/ GuiRedraw \/ GuiResume

Timer == TmrNew \/ TmrBegin \/ DelayOver \/ TmrCheck \/ TmrWakeup \/ TmrExpire

Next ==
    \/ Gui \/ Timer
    \/ \E e \in Inputs : Post(e)
    \/ \E o \in Observers : Register(o) \/ Unregister(o)

\* Each task gets the processor when the other one blocks, and the clock runs.
Spec == Init /\ [][Next]_vars /\ WF_vars(Gui) /\ WF_vars(Timer)

----------------------------------------------------------------------------
(* Properties.                                                             *)

EventType == [type: {"none", "user", "terminate", "timer", "redraw"},
              target: Widgets \cup {"none"}, n: 0 .. MaxTicks]
TimerType == [owner: Widgets, left: 1 .. MaxTicks, again: {0, 1}]
LoopSteps == {"pop", "take", "wait", "handle", "update", "astray", "exit", "done", "enter"}
SleepSteps == {"pop", "take", "wait", "redraw", "resume"}
GuiType == [pc: LoopSteps \cup SleepSteps, in: {"loop", "sleep"}, ev: EventType, k: Nat,
            wait: BOOLEAN, wake: BOOLEAN, done: BOOLEAN, early: BOOLEAN]
TmrType == [pc: {"new", "begin", "delay", "check", "expire", "wakeup"}, susp: BOOLEAN,
            running: BOOLEAN, active: BOOLEAN, wakeup: BOOLEAN]

\* A widget has one timer.
TimersOK(ts) ==
    /\ ts \in Seq(TimerType) /\ Len(ts) <= MaxTimers
    /\ \A j, k \in DOMAIN ts : ts[j].owner = ts[k].owner => j = k

\* The observers are in the order of their priorities, each only once.
ObserversOK(s) ==
    /\ s \in Seq(Observers)
    /\ \A j, k \in DOMAIN s : j < k => s[j] # s[k] /\ Priority[s[j]] >= Priority[s[k]]

\* Type correctness.
GuixTypeOK ==
    /\ pending \in Seq(EventType) /\ Len(pending) <= Slots
    /\ TimersOK(timers) /\ ObserversOK(observers)
    /\ gui \in GuiType /\ (gui.pc = "update" => gui.k > 0)
    /\ tmr \in TmrType
    /\ cpu \in {"gui", "tmr"} /\ posts \in 0 .. MaxPosts
    /\ told \in [Observers -> {"none", "enter", "exit"}]

\* From the notification that the GUI sleeps to the one that it is awake the
\* timer task is suspended, or waits for the GUI thread to wake it.
QuietSleep ==
    gui.in = "sleep" => tmr.susp \/ (tmr.pc = "wakeup" /\ ~tmr.wakeup)

\* While a GUIX timer is active the timer task is not stopped, and it never comes
\* to its expiration without one.
TimersRun ==
    IF timers # << >> THEN tmr.running /\ ~tmr.susp
    ELSE ~(tmr.pc = "expire" /\ TmrReady)

\* Who was told by _guix_suspend_notify that the GUI goes to sleep is told that it
\* is awake again, whoever registers in the meantime.
NoneLeftAsleep ==
    gui.in = "loop" => \A o \in ToSet(observers) : told[o] # "enter"

\* The two ways in which the GUI thread can hang: a purge that has left the queue,
\* and a sleep that began before the timer task first ran.
Lost == gui.pc = "astray" \/ gui.early

\* Events in the queue are taken out of it: the signal that gx_generic_event_post
\* and _fold give only for the first event is enough.
EventsTaken == []<>(Lost \/ pending = << >> \/ gui.pc \in {"handle", "redraw"})

\* An active timer gets its ticks as long as the GUI does not sleep.
TicksCome ==
    []<>(\/ Lost \/ timers = << >> \/ gui.in = "sleep"
         \/ gui.pc = "handle" /\ gui.ev.type = "timer")

\* guix_thread_adaptor: "GUIX thread exited and stop timer"; it comes to an end
\* with that.
SleepReached == []<>(gui.pc # "done")

\* "event_purge: delete events targetted to particular widget": the walk stays in
\* the queue.
PurgeInQueue == gui.pc # "astray"

----------------------------------------------------------------------------
(* The inductive invariants behind the properties.                         *)

\* The timer task is suspended unless a timer is active, but for its first step,
\* which comes before any of the GUI thread's.
TimersInv ==
    /\ timers # << >> <=> tmr.running
    /\ tmr.running => ~tmr.susp
    /\ ~tmr.running /\ tmr.pc # "new" => tmr.susp
    /\ tmr.pc = "new" => /\ ~tmr.susp /\ ~tmr.running /\ cpu = "tmr"
                         /\ gui.pc = "pop" /\ gui.in = "loop" /\ ~gui.done

Parked == tmr.susp \/ (tmr.pc = "wakeup" /\ ~tmr.wakeup)

\* The hand-shake of the GUI thread and the timer task around the sleep.
SleepInv ==
    /\ gui.pc \in (IF gui.in = "loop" THEN LoopSteps ELSE SleepSteps)
    /\ gui.done => gui.pc = "done"
    /\ (gui.in = "sleep" \/ gui.pc = "enter" \/ gui.done) => Parked
    /\ (gui.in = "sleep" \/ gui.pc \in {"done", "enter"}) => (gui.wake <=> ~tmr.susp)
    /\ tmr.wakeup => tmr.pc = "wakeup"
    /\ (~tmr.active /\ (tmr.pc \in {"delay", "check", "expire"} \/ tmr.wakeup))
       => gui.pc = "done" /\ ~gui.done

\* An observer that is not registered was told nothing.
ToldInv ==
    \A o \in Observers : /\ o \notin ToSet(observers) => told[o] = "none"
                         /\ gui.in = "loop" => told[o] # "enter"
=============================================================================
