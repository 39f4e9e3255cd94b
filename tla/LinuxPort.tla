----------------------------- MODULE LinuxPort -----------------------------
(***************************************************************************)
(* One sensor on the Linux port (port/linux/port_linux.c): the application *)
(* thread that opens, uses and closes it, the platform thread that turns   *)
(* timer expirations and GPIO edges into queued events, the sensor thread  *)
(* that takes the events out and calls the application back, and the two   *)
(* mutexes evq_lock (in the port) and bus_lock (shared by all processes).  *)
(* What an event means is in ProbeAttach; what a bus transfer does is in   *)
(* SharedBus; here a transfer only takes time and may fail.                *)
(*                                                                         *)
(* Without an event callback linux_init starts no sensor thread, and the   *)
(* application calls sensor_poll_event itself: it is then the consumer.    *)
(***************************************************************************)
EXTENDS Naturals, Sequences

CONSTANTS UseInterrupt,   \* is_interrupt_used(): I2C with an interrupt pin
          Capacity        \* events the queue holds: MAX_EVENTS - 1

\* A Boolean option of the build and the port, and a queue that holds something.
ASSUME PortAssumption ==
    /\ UseInterrupt \in BOOLEAN
    /\ Capacity \in Nat \ {0}

VARIABLES pc,             \* where each thread is
          event_callback, \* whether one is given to the port
          cancelled,      \* threads with a pthread_cancel pending
          platform_exit,
          evq_lock,       \* the thread that holds it, or "free"
          queue,          \* the events' memory: "none", "allocated", "freed"
          events,         \* the queue, oldest first
          running,        \* heartbeat.running
          expired,        \* the running timerfd is readable
          edge,           \* the GPIO value file has an unread edge
          pollset,        \* the descriptors update_poll_data chose
          timer,          \* the timerfd poll or read is blocked on
          revents,        \* the ready descriptors still to process
          putting,        \* the event port_event_put was called with
          event,          \* the event the consumer is handling
          bus_lock,       \* the thread that holds it, or "free"
          lateCallbacks   \* history: callbacks begun after platform_exit

portVars == <<event_callback, platform_exit, queue>>
timerVars == <<running, expired, timer>>
pollVars == <<pollset, revents, putting>>
queueVars == <<evq_lock, events>>
rest == <<cancelled, portVars, queueVars, timerVars, edge, pollVars, event,
          bus_lock, lateCallbacks>>
vars == <<pc, rest>>

Threads == {"app", "platform", "sensor"}
Consumer == IF event_callback THEN "sensor" ELSE "app"

EV_HEARTBEAT == "EV_HEARTBEAT"
EV_DAT_INTR == "EV_DAT_INTR"
Events == {EV_HEARTBEAT, EV_DAT_INTR}
NoEvent == "none"

At(t, label) == pc[t] = label
Goto(t, label) == pc' = [pc EXCEPT ![t] = label]

Init ==
    /\ pc = [t \in Threads |-> IF t = "app" THEN "new" ELSE "off"]
    /\ event_callback \in BOOLEAN
    /\ cancelled = {}
    /\ platform_exit = FALSE
    /\ evq_lock = "free"
    /\ queue = "none"
    /\ events = <<>>
    /\ running = FALSE
    /\ expired = FALSE
    /\ edge = FALSE
    /\ pollset = {}
    /\ timer = "none"
    /\ revents = {}
    /\ putting = NoEvent
    /\ event = NoEvent
    /\ bus_lock = "free"
    /\ lateCallbacks = 0

-----------------------------------------------------------------------------
(* linux_init.  The steps before the threads are one action: nothing else  *)
(* runs yet.  Every failure frees the queue and returns, whether or not    *)
(* the platform thread was started already.                                *)

OpenPort ==
    /\ At("app", "new")
    /\ Goto("app", "init_platform")
    /\ queue' = "allocated"
    /\ UNCHANGED <<cancelled, event_callback, platform_exit, queueVars,
                   timerVars, edge, pollVars, event, bus_lock, lateCallbacks>>

StartPlatformThread ==
    /\ At("app", "init_platform")
    /\ pc' = [pc EXCEPT !["platform"] = "check",
                        !["app"] = IF event_callback THEN "init_sensor" ELSE "idle"]
    /\ UNCHANGED rest

StartSensorThread ==
    /\ At("app", "init_sensor")
    /\ pc' = [pc EXCEPT !["sensor"] = "check", !["app"] = "idle"]
    /\ UNCHANGED rest

OpenFails ==
    /\ pc["app"] \in {"init_platform", "init_sensor"}
    /\ Goto("app", "failed")
    /\ queue' = "freed"
    /\ UNCHANGED <<cancelled, event_callback, platform_exit, queueVars,
                   timerVars, edge, pollVars, event, bus_lock, lateCallbacks>>

-----------------------------------------------------------------------------
(* The heartbeat timer.  sensor_heartbeat_enable and _disable only touch   *)
(* the timer; nothing wakes the platform thread.  A timerfd that is closed *)
(* while poll or read is blocked on it lives on until that call returns.   *)

linux_timer_start ==
    /\ pc["app"] \in {"new", "idle"}
    /\ ~running
    /\ running' = TRUE
    /\ expired' = FALSE
    /\ UNCHANGED <<pc, cancelled, portVars, queueVars, timer, edge, pollVars,
                   event, bus_lock, lateCallbacks>>

linux_timer_stop ==
    /\ pc["app"] \in {"new", "idle"}
    /\ running
    /\ running' = FALSE
    /\ expired' = FALSE
    /\ timer' = IF timer # "live" THEN timer
                ELSE IF expired THEN "closed_expired" ELSE "closed"
    /\ UNCHANGED <<pc, cancelled, portVars, queueVars, edge, pollVars, event,
                   bus_lock, lateCallbacks>>

TimerExpires ==
    /\ running
    /\ ~expired
    /\ expired' = TRUE
    /\ UNCHANGED <<pc, cancelled, portVars, queueVars, running, timer, edge,
                   pollVars, event, bus_lock, lateCallbacks>>

ClosedTimerExpires ==
    /\ timer = "closed"
    /\ timer' = "closed_expired"
    /\ UNCHANGED <<pc, cancelled, portVars, queueVars, running, expired, edge,
                   pollVars, event, bus_lock, lateCallbacks>>

GpioEdge ==
    /\ UseInterrupt
    /\ ~edge
    /\ edge' = TRUE
    /\ UNCHANGED <<pc, cancelled, portVars, queueVars, timerVars, pollVars,
                   event, bus_lock, lateCallbacks>>

-----------------------------------------------------------------------------
(* platform_thread: while (!platform_exit) { choose the descriptors; poll; *)
(* process what is ready }.  poll and read are cancellation points;        *)
(* pthread_mutex_lock in port_event_put is not.                            *)

\* Mutant: the interrupt descriptor is left out.
PollOnlyTimer ==
    pollset' = IF running THEN {EV_HEARTBEAT} ELSE {}

update_poll_data ==
    pollset' = (IF running THEN {EV_HEARTBEAT} ELSE {})
               \cup (IF UseInterrupt THEN {EV_DAT_INTR} ELSE {})

PlatformLoop ==
    /\ At("platform", "check")
    /\ IF platform_exit
       THEN Goto("platform", "dead") /\ UNCHANGED pollset
       ELSE Goto("platform", "poll") /\ update_poll_data
    /\ UNCHANGED <<cancelled, portVars, queueVars, timerVars, edge, revents,
                   putting, event, bus_lock, lateCallbacks>>

\* The descriptor number was chosen before: the timer may have been stopped.
PollBegin ==
    /\ At("platform", "poll")
    /\ "platform" \notin cancelled
    /\ Goto("platform", "polling")
    /\ timer' = CASE EV_HEARTBEAT \notin pollset -> "none"
                  [] EV_HEARTBEAT \in pollset /\ running -> "live"
                  [] EV_HEARTBEAT \in pollset /\ ~running -> "bad_fd"
    /\ UNCHANGED <<cancelled, portVars, queueVars, running, expired, edge,
                   pollVars, event, bus_lock, lateCallbacks>>

TimerReadable == timer = "closed_expired" \/ (timer = "live" /\ expired)

PollReady ==
    {e \in pollset : \/ e = EV_HEARTBEAT /\ TimerReadable
                     \/ e = EV_DAT_INTR /\ edge}

PollReturn ==
    /\ At("platform", "polling")
    /\ "platform" \notin cancelled
    /\ PollReady # {} \/ timer = "bad_fd"
    /\ Goto("platform", "process")
    /\ revents' = PollReady
    /\ timer' = "none"
    /\ UNCHANGED <<cancelled, portVars, queueVars, running, expired, edge,
                   pollset, putting, event, bus_lock, lateCallbacks>>

\* A poll that has nothing to report may be interrupted by a signal
\* (read_fds < 0).
PollInterrupted ==
    /\ At("platform", "polling")
    /\ "platform" \notin cancelled
    /\ PollReady = {}
    /\ Goto("platform", "check")
    /\ timer' = "none"
    /\ UNCHANGED <<cancelled, portVars, queueVars, running, expired, edge,
                   pollVars, event, bus_lock, lateCallbacks>>

\* process_poll_data, the heartbeat: read the timerfd by its number.  The read
\* fails if the timer was stopped meanwhile, and blocks if it was restarted.
ReadTimer ==
    /\ At("platform", "process")
    /\ "platform" \notin cancelled
    /\ EV_HEARTBEAT \in revents
    /\ revents' = revents \ {EV_HEARTBEAT}
    /\ \/ /\ ~running
          /\ UNCHANGED <<pc, timer>>
       \/ /\ running
          /\ Goto("platform", "reading")
          /\ timer' = "live"
    /\ UNCHANGED <<cancelled, portVars, queueVars, running, expired, edge,
                   pollset, putting, event, bus_lock, lateCallbacks>>

\* Mutant: the test of the number of bytes read is inverted.
ReadTimerDropsEvent ==
    /\ At("platform", "reading")
    /\ "platform" \notin cancelled
    /\ TimerReadable
    /\ expired' = (expired /\ timer # "live")
    /\ timer' = "none"
    /\ Goto("platform", "process")
    /\ UNCHANGED <<cancelled, portVars, queueVars, running, edge, pollVars,
                   event, bus_lock, lateCallbacks>>

ReadTimerReturns ==
    /\ At("platform", "reading")
    /\ "platform" \notin cancelled
    /\ TimerReadable
    /\ expired' = (expired /\ timer # "live")
    /\ timer' = "none"
    /\ putting' = EV_HEARTBEAT
    /\ Goto("platform", "put_lock")
    /\ UNCHANGED <<cancelled, portVars, queueVars, running, edge, pollset,
                   revents, event, bus_lock, lateCallbacks>>

\* The data interrupt: reading the GPIO value consumes the edge, before it is
\* known whether the queue can take the event.
ReadGpio ==
    /\ At("platform", "process")
    /\ "platform" \notin cancelled
    /\ EV_HEARTBEAT \notin revents
    /\ EV_DAT_INTR \in revents
    /\ revents' = revents \ {EV_DAT_INTR}
    /\ edge' = FALSE
    /\ putting' = EV_DAT_INTR
    /\ Goto("platform", "put_lock")
    /\ UNCHANGED <<cancelled, portVars, queueVars, timerVars, pollset, event,
                   bus_lock, lateCallbacks>>

ProcessDone ==
    /\ At("platform", "process")
    /\ revents = {}
    /\ Goto("platform", "check")
    /\ UNCHANGED rest

-----------------------------------------------------------------------------
(* port_event_put, called by the platform thread.                          *)

PutLock ==
    /\ At("platform", "put_lock")
    /\ evq_lock = "free"
    /\ evq_lock' = "platform"
    /\ Goto("platform", "put")
    /\ UNCHANGED <<cancelled, portVars, events, timerVars, edge, pollVars,
                   event, bus_lock, lateCallbacks>>

QueueFull == Len(events) = Capacity

\* Mutant: the event is queued but nobody is told.
PutWithoutSignal ==
    /\ At("platform", "put")
    /\ events' = IF QueueFull THEN events ELSE Append(events, putting)
    /\ Goto("platform", "process")
    /\ evq_lock' = "free"
    /\ putting' = NoEvent
    /\ UNCHANGED <<cancelled, portVars, timerVars, edge, pollset, revents,
                   event, bus_lock, lateCallbacks>>

\* Mutant: evq_put does not refuse.
PutWithoutBound ==
    /\ At("platform", "put")
    /\ events' = Append(events, putting)
    /\ Goto("platform", "process")
    /\ evq_lock' = "free"
    /\ putting' = NoEvent
    /\ UNCHANGED <<cancelled, portVars, timerVars, edge, pollset, revents,
                   event, bus_lock, lateCallbacks>>

\* evq_put, pthread_cond_signal if it accepted, unlock.  A signal wakes the
\* consumer if it waits and is lost otherwise.
port_event_put ==
    /\ At("platform", "put")
    /\ \/ /\ QueueFull
          /\ Goto("platform", "process")
          /\ UNCHANGED events
       \/ /\ ~QueueFull
          /\ events' = Append(events, putting)
          /\ pc' = [pc EXCEPT !["platform"] = "process",
                              ![Consumer] = IF @ = "wait" THEN "wake" ELSE @]
    /\ evq_lock' = "free"
    /\ putting' = NoEvent
    /\ UNCHANGED <<cancelled, portVars, timerVars, edge, pollset, revents,
                   event, bus_lock, lateCallbacks>>

-----------------------------------------------------------------------------
(* sensor_poll_event by the consumer: port_event_get, then the handler's   *)
(* transfers on the bus, then the callback if the handler returned E_OK.   *)

\* Mutant: the sensor thread never looks at platform_exit.
SensorLoopForever ==
    /\ At("sensor", "check")
    /\ Goto("sensor", "get_lock")
    /\ UNCHANGED rest

SensorLoop ==
    /\ At("sensor", "check")
    /\ Goto("sensor", IF platform_exit THEN "dead" ELSE "get_lock")
    /\ UNCHANGED rest

\* Where the thread goes when sensor_poll_event returned an error.
Resume(t) == IF t = "sensor" THEN "check" ELSE "idle"

AppPolls ==
    /\ ~event_callback
    /\ At("app", "idle")
    /\ Goto("app", "get_lock")
    /\ UNCHANGED rest

GetLock(t) ==
    /\ pc[t] \in {"get_lock", "wake"}
    /\ evq_lock = "free"
    /\ evq_lock' = t
    /\ Goto(t, IF At(t, "get_lock") THEN "get" ELSE "get_again")
    /\ UNCHANGED <<cancelled, portVars, events, timerVars, edge, pollVars,
                   event, bus_lock, lateCallbacks>>

StartCallback(t) ==
    /\ Goto(t, IF t = "sensor" THEN "callback" ELSE "idle")
    /\ lateCallbacks' = IF t = "sensor" /\ platform_exit
                        THEN lateCallbacks + 1 ELSE lateCallbacks

\* The loop of port_event_get with evq_lock held.  When platform_exit is set on
\* entry neither ret nor *event was ever assigned and the caller acts on
\* whatever they hold; after a wait ret is still E_EMPTY.
port_event_get(t) ==
    /\ pc[t] \in {"get", "get_again"}
    /\ evq_lock' = "free"
    /\ \/ /\ ~platform_exit
          /\ events # <<>>
          /\ event' = Head(events)
          /\ events' = Tail(events)
          /\ Goto(t, "bus")
          /\ UNCHANGED lateCallbacks
       \/ /\ ~platform_exit
          /\ events = <<>>
          /\ Goto(t, "wait")
          /\ UNCHANGED <<event, events, lateCallbacks>>
       \/ /\ platform_exit
          /\ Goto(t, Resume(t))
          /\ UNCHANGED <<event, events, lateCallbacks>>
       \/ /\ platform_exit
          /\ At(t, "get")
          /\ \/ event' \in Events /\ Goto(t, "bus") /\ UNCHANGED lateCallbacks
             \/ StartCallback(t) /\ UNCHANGED event
          /\ UNCHANGED events
    /\ UNCHANGED <<cancelled, portVars, timerVars, edge, pollVars, bus_lock>>

SpuriousWakeup(t) ==
    /\ At(t, "wait")
    /\ t \notin cancelled
    /\ Goto(t, "wake")
    /\ UNCHANGED rest

BusLock(t) ==
    /\ At(t, "bus")
    /\ bus_lock = "free"
    /\ bus_lock' = t
    /\ Goto(t, "transfer")
    /\ UNCHANGED <<cancelled, portVars, queueVars, timerVars, edge, pollVars,
                   event, lateCallbacks>>

\* The transfer ends and bus_lock is released.  The handler of a data interrupt
\* may read a second register (ProbeAttach says when).
BusUnlock(t) ==
    /\ At(t, "transfer")
    /\ bus_lock' = "free"
    /\ \/ /\ event = EV_DAT_INTR
          /\ event' = NoEvent
          /\ Goto(t, "bus")
          /\ UNCHANGED lateCallbacks
       \/ /\ event' = NoEvent
          /\ Goto(t, Resume(t))
          /\ UNCHANGED lateCallbacks
       \/ /\ event' = NoEvent
          /\ StartCallback(t)
    /\ UNCHANGED <<cancelled, portVars, queueVars, timerVars, edge, pollVars>>

CallbackReturns ==
    /\ At("sensor", "callback")
    /\ Goto("sensor", "check")
    /\ UNCHANGED rest

\* A register access of the application itself: lock, transfer, unlock.
AppAccess ==
    /\ At("app", "idle")
    /\ Goto("app", "bus")
    /\ UNCHANGED rest

-----------------------------------------------------------------------------
(* Deferred cancellation.  A thread ends at a cancellation point it is     *)
(* blocked in or reaches; it releases nothing.                             *)

CancelAtPoll ==
    /\ \/ pc["platform"] \in {"poll", "polling", "reading"}
       \/ At("platform", "process") /\ revents # {}
    /\ "platform" \in cancelled
    /\ Goto("platform", "dead")
    /\ UNCHANGED rest

\* pthread_cond_wait takes the mutex again before the thread is ended, and there
\* is no cleanup handler that would unlock it.
CancelAtWait ==
    /\ At("sensor", "wait")
    /\ "sensor" \in cancelled
    /\ evq_lock = "free"
    /\ evq_lock' = "sensor"
    /\ Goto("sensor", "dead")
    /\ UNCHANGED <<cancelled, portVars, events, timerVars, edge, pollVars,
                   event, bus_lock, lateCallbacks>>

\* A transfer and a callback may contain a cancellation point: read, write and
\* select in libmodbus, perror and printf on the error path of linux_i2c_read.
CancelInHandler ==
    /\ pc["sensor"] \in {"transfer", "callback"}
    /\ "sensor" \in cancelled
    /\ Goto("sensor", "dead")
    /\ UNCHANGED rest

-----------------------------------------------------------------------------
(* linux_deinit.                                                           *)

DeinitExit ==
    /\ At("app", "idle")
    /\ platform_exit' = TRUE
    /\ Goto("app", IF event_callback THEN "cancel_sensor" ELSE "cancel_platform")
    /\ UNCHANGED <<cancelled, event_callback, queue, queueVars, timerVars,
                   edge, pollVars, event, bus_lock, lateCallbacks>>

\* Mutant: pthread_cancel is forgotten.
DeinitWithoutCancel(t) ==
    /\ \/ t = "sensor" /\ At("app", "cancel_sensor") /\ Goto("app", "join_sensor")
       \/ t = "platform" /\ At("app", "cancel_platform")
          /\ Goto("app", "join_platform")
    /\ UNCHANGED rest

DeinitCancel(t) ==
    /\ \/ t = "sensor" /\ At("app", "cancel_sensor") /\ Goto("app", "join_sensor")
       \/ t = "platform" /\ At("app", "cancel_platform")
          /\ Goto("app", "join_platform")
    /\ cancelled' = cancelled \cup {t}
    /\ UNCHANGED <<portVars, queueVars, timerVars, edge, pollVars, event,
                   bus_lock, lateCallbacks>>

\* Mutant: pthread_join is forgotten.
DeinitWithoutJoin(t) ==
    /\ \/ t = "sensor" /\ At("app", "join_sensor") /\ Goto("app", "cancel_platform")
       \/ t = "platform" /\ At("app", "join_platform") /\ Goto("app", "release")
    /\ UNCHANGED rest

DeinitJoin(t) ==
    /\ At(t, "dead")
    /\ \/ t = "sensor" /\ At("app", "join_sensor") /\ Goto("app", "cancel_platform")
       \/ t = "platform" /\ At("app", "join_platform") /\ Goto("app", "release")
    /\ UNCHANGED rest

DeinitRelease ==
    /\ At("app", "release")
    /\ queue' = "freed"
    /\ Goto("app", "closed")
    /\ UNCHANGED <<cancelled, event_callback, platform_exit, queueVars,
                   timerVars, edge, pollVars, event, bus_lock, lateCallbacks>>

-----------------------------------------------------------------------------
InitThreads == StartPlatformThread \/ StartSensorThread \/ OpenFails

Heartbeat == linux_timer_start \/ linux_timer_stop

PlatformThread ==
    PlatformLoop \/ PollBegin \/ PollReturn \/ ReadTimer \/ ReadTimerReturns
    \/ ReadGpio \/ ProcessDone \/ PutLock \/ port_event_put \/ CancelAtPoll

Consume(t) == GetLock(t) \/ port_event_get(t) \/ BusLock(t) \/ BusUnlock(t)

SensorThread ==
    SensorLoop \/ Consume("sensor") \/ CallbackReturns \/ CancelAtWait

Deinit ==
    (\E t \in {"sensor", "platform"} : DeinitCancel(t) \/ DeinitJoin(t))
    \/ DeinitRelease

Next ==
    \/ OpenPort \/ InitThreads \/ Heartbeat
    \/ TimerExpires \/ ClosedTimerExpires \/ GpioEdge
    \/ PlatformThread \/ PollInterrupted
    \/ SensorThread \/ CancelInHandler
    \/ AppPolls \/ AppAccess \/ Consume("app")
    \/ \E t \in Threads : SpuriousWakeup(t)
    \/ DeinitExit \/ Deinit

Spec == Init /\ [][Next]_vars

(* Fairness: a call that began and every started thread go on, callbacks   *)
(* and transfers end, a running timer expires, and a thread blocked on a   *)
(* mutex that is free again and again gets it.  Nothing makes the          *)
(* application act or an edge, a signal or a spurious wakeup happen.       *)
Fairness ==
    /\ WF_vars(InitThreads)
    /\ WF_vars(PlatformThread)
    /\ WF_vars(SensorThread)
    /\ WF_vars(Consume("app"))
    /\ WF_vars(Deinit)
    /\ WF_vars(TimerExpires)
    /\ WF_vars(ClosedTimerExpires)
    /\ SF_vars(PutLock)
    /\ \A t \in {"app", "sensor"} : SF_vars(GetLock(t)) /\ SF_vars(BusLock(t))

FairSpec == Spec /\ Fairness

-----------------------------------------------------------------------------
\* Where each thread can be.
AppLabels ==
    {"new", "init_platform", "init_sensor", "idle", "failed", "cancel_sensor",
     "join_sensor", "cancel_platform", "join_platform", "release", "closed"}
PlatformLabels ==
    {"off", "check", "poll", "polling", "process", "reading", "put_lock", "put",
     "dead"}
ConsumerLabels ==
    {"get_lock", "get", "get_again", "wait", "wake", "bus", "transfer"}

\* The values of the variables; the queue never exceeds its capacity.
TypeOK ==
    /\ pc \in [Threads -> AppLabels \cup PlatformLabels \cup ConsumerLabels
                            \cup {"callback"}]
    /\ pc["app"] \in AppLabels \cup ConsumerLabels
    /\ pc["platform"] \in PlatformLabels
    /\ pc["sensor"] \in ConsumerLabels \cup {"off", "check", "callback", "dead"}
    /\ event_callback \in BOOLEAN
    /\ cancelled \subseteq {"platform", "sensor"}
    /\ platform_exit \in BOOLEAN
    /\ evq_lock \in Threads \cup {"free"}
    /\ queue \in {"none", "allocated", "freed"}
    /\ events \in Seq(Events)
    /\ Len(events) <= Capacity
    /\ running \in BOOLEAN
    /\ expired \in BOOLEAN
    /\ edge \in BOOLEAN
    /\ pollset \subseteq Events
    /\ timer \in {"none", "live", "closed", "closed_expired", "bad_fd"}
    /\ revents \subseteq Events
    /\ putting \in Events \cup {NoEvent}
    /\ event \in Events \cup {NoEvent}
    /\ bus_lock \in Threads \cup {"free"}
    /\ lateCallbacks \in Nat

\* A consumer that sleeps in pthread_cond_wait has nothing to do: no event was
\* queued between its look at the queue and its sleep without a signal.
NoLostWakeup == At(Consumer, "wait") => events = <<>>

\* A thread of the port that is inside port_event_put or port_event_get works on
\* a queue that exists, as long as linux_init did not fail: linux_deinit frees
\* the queue only when both threads are gone.
QueueOutlivesThreads ==
    pc["app"] # "failed" =>
      /\ pc["platform"] \in {"put_lock", "put"} => queue = "allocated"
      /\ pc[Consumer] \in {"get_lock", "get", "get_again", "wait", "wake"}
            => queue = "allocated"

\* Closing a sensor lets at most one more callback begin, and none after
\* linux_deinit returned (the port and the sensor may be freed then).
CallbacksStop ==
    /\ lateCallbacks <= 1
    /\ At("app", "closed") => ~At("sensor", "callback")

\* An edge on the data interrupt pin is brought to port_event_put unless the
\* port is closed or its opening failed.
EdgeReachesPut ==
    edge ~> (putting = EV_DAT_INTR \/ platform_exit \/ At("app", "failed")
               \/ At("platform", "off"))

\* Whatever is queued is taken: the sensor thread goes on to handle an event
\* (or the port closes) whenever the queue holds one.
QueuedIsHandled ==
    (event_callback /\ events # <<>>)
        ~> (pc["sensor"] \in {"bus", "transfer"} \/ platform_exit
              \/ At("app", "failed"))

\* A heartbeat that poll watches is brought to port_event_put, however often
\* poll returns for other reasons, unless it is disabled or the port closes.
PolledHeartbeatIsPut ==
    (timer = "live" /\ running)
        ~> (putting = EV_HEARTBEAT \/ ~running \/ platform_exit
              \/ At("app", "failed"))

\* Without a callback, sensor_close returns: the platform thread can always be
\* cancelled, and no thread of the port is left that could hold its lock.
PolledCloseReturns ==
    (platform_exit /\ ~event_callback) ~> At("app", "closed")

\* sensor_close returns.
CloseReturns == platform_exit ~> At("app", "closed")
=============================================================================
