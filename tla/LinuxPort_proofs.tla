------------------------- MODULE LinuxPort_proofs -------------------------
(***************************************************************************)
(* The threads of the Linux port, for both kinds of bus, with and without  *)
(* a callback, and for every capacity of the event queue.  The invariant   *)
(* has five parts, each preserved by every step: TypeStep, PhaseStep,      *)
(* CallbackStep and WakeupStep take the actions one by one.                *)
(***************************************************************************)
EXTENDS LinuxPort, TLAPS

\* The platform thread is only in port_event_put with an event to put.
PutsAnEvent == pc["platform"] \in {"put_lock", "put"} => putting \in Events

\* Every step keeps the types, and gives port_event_put an event to put.
LEMMA TypeStep == TypeOK /\ PutsAnEvent /\ [Next]_vars => (TypeOK /\ PutsAnEvent)'
  <1> SUFFICES ASSUME TypeOK, PutsAnEvent, [Next]_vars
               PROVE  (TypeOK /\ PutsAnEvent)'
    OBVIOUS
  <1> USE PortAssumption
      DEF TypeOK, PutsAnEvent, Threads, AppLabels, PlatformLabels, ConsumerLabels,
          Events,
          EV_HEARTBEAT, EV_DAT_INTR, NoEvent, At, Goto, rest, portVars, timerVars,
          pollVars, queueVars
  <1>1. CASE OpenPort
    BY <1>1 DEF OpenPort
  <1>2. CASE StartPlatformThread
    BY <1>2 DEF StartPlatformThread
  <1>3. CASE StartSensorThread
    BY <1>3 DEF StartSensorThread
  <1>4. CASE OpenFails
    BY <1>4 DEF OpenFails
  <1>5. CASE linux_timer_start
    <2>1. running' \in BOOLEAN /\ expired' \in BOOLEAN
      BY <1>5 DEF linux_timer_start
    <2>2. UNCHANGED <<pc, cancelled, event_callback, platform_exit, queue, evq_lock, events, timer,
                      edge, pollset, revents, putting, event, bus_lock,
                      lateCallbacks>>
      BY <1>5 DEF linux_timer_start
    <2>3. QED
      BY <2>1, <2>2
  <1>6. CASE linux_timer_stop
    <2>1. timer' \in {"none", "live", "closed", "closed_expired", "bad_fd"}
      BY <1>6 DEF linux_timer_stop
    <2>2. running' \in BOOLEAN /\ expired' \in BOOLEAN
      BY <1>6 DEF linux_timer_stop
    <2>3. UNCHANGED <<pc, cancelled, event_callback, platform_exit, queue, evq_lock, events, edge,
                      pollset, revents, putting, event, bus_lock, lateCallbacks>>
      BY <1>6 DEF linux_timer_stop
    <2>4. QED
      BY <2>1, <2>2, <2>3
  <1>7. CASE TimerExpires
    BY <1>7 DEF TimerExpires
  <1>8. CASE ClosedTimerExpires
    BY <1>8 DEF ClosedTimerExpires
  <1>9. CASE GpioEdge
    BY <1>9 DEF GpioEdge
  <1>10. CASE PlatformLoop
    <2>1. pollset' \subseteq Events
      BY <1>10 DEF PlatformLoop, update_poll_data
    <2>2. /\ pc' = [pc EXCEPT !["platform"] = pc'["platform"]]
          /\ pc'["platform"] \in {"dead", "poll"}
      BY <1>10 DEF PlatformLoop
    <2>3. /\ pc' \in [Threads -> AppLabels \cup PlatformLabels
                                    \cup ConsumerLabels \cup {"callback"}]
          /\ pc'["app"] = pc["app"] /\ pc'["sensor"] = pc["sensor"]
          /\ pc'["platform"] \in PlatformLabels
      BY <2>2
    <2>4. QED
      BY <1>10, <2>1, <2>2, <2>3 DEF PlatformLoop
  <1>11. CASE PollBegin
    BY <1>11 DEF PollBegin
  <1>12. CASE PollReturn
    BY <1>12 DEF PollReturn, PollReady
  <1>13. CASE PollInterrupted
    BY <1>13 DEF PollInterrupted
  <1>14. CASE ReadTimer
    BY <1>14 DEF ReadTimer
  <1>15. CASE ReadTimerReturns
    BY <1>15 DEF ReadTimerReturns
  <1>16. CASE ReadGpio
    <2>1. /\ pc' \in [Threads -> AppLabels \cup PlatformLabels
                                    \cup ConsumerLabels \cup {"callback"}]
          /\ pc'["app"] = pc["app"] /\ pc'["sensor"] = pc["sensor"]
          /\ pc'["platform"] \in PlatformLabels
      BY <1>16 DEF ReadGpio
    <2>2. revents' \subseteq Events /\ putting' \in Events
      BY <1>16 DEF ReadGpio
    <2>3. edge' \in BOOLEAN
      BY <1>16 DEF ReadGpio
    <2>4. UNCHANGED <<cancelled, event_callback, platform_exit, queue, evq_lock, events, running,
                      expired, timer, pollset, event, bus_lock, lateCallbacks>>
      BY <1>16 DEF ReadGpio
    <2>5. QED
      BY <2>1, <2>2, <2>3, <2>4
  <1>17. CASE ProcessDone
    BY <1>17 DEF ProcessDone
  <1>18. CASE PutLock
    BY <1>18 DEF PutLock
  <1>19. CASE port_event_put
    <2>1. events' \in Seq(Events) /\ Len(events') <= Capacity
      <3>1. CASE events' = events
        BY <3>1
      <3>2. CASE ~QueueFull /\ events' = Append(events, putting)
        <4>1. putting \in Events
          BY <1>19 DEF port_event_put
        <4>2. Append(events, putting) \in Seq(Events)
          BY <4>1
        <4>3. Len(Append(events, putting)) = Len(events) + 1 /\ Len(events) \in Nat
          OBVIOUS
        <4>4. Len(events) # Capacity /\ Len(events) <= Capacity /\ Capacity \in Nat
          BY <3>2 DEF QueueFull
        <4>5. QED
          BY <3>2, <4>2, <4>3, <4>4
      <3>3. QED
        BY <1>19, <3>1, <3>2 DEF port_event_put
    <2>2. QED
      BY <1>19, <2>1 DEF port_event_put, Consumer
  <1>20. CASE CancelAtPoll
    BY <1>20 DEF CancelAtPoll
  <1>21. CASE SensorLoop
    BY <1>21 DEF SensorLoop
  <1>22. CASE CallbackReturns
    BY <1>22 DEF CallbackReturns
  <1>23. CASE CancelAtWait
    BY <1>23 DEF CancelAtWait
  <1>24. CASE CancelInHandler
    BY <1>24 DEF CancelInHandler
  <1>25. CASE AppPolls
    BY <1>25 DEF AppPolls
  <1>26. CASE AppAccess
    BY <1>26 DEF AppAccess
  <1>27. CASE DeinitExit
    BY <1>27 DEF DeinitExit
  <1>28. CASE DeinitRelease
    BY <1>28 DEF DeinitRelease
  <1>29. ASSUME NEW t \in {"app", "sensor"}, GetLock(t)
        PROVE  (TypeOK /\ PutsAnEvent)'
    BY <1>29 DEF GetLock, Consumer
  <1>30. ASSUME NEW t \in {"app", "sensor"}, port_event_get(t)
        PROVE  (TypeOK /\ PutsAnEvent)'
    <2>1. /\ pc' = [pc EXCEPT ![t] = pc'[t]]
          /\ pc'[t] \in {"bus", "wait", "idle", "check", "callback"}
          /\ t = "app" => pc'[t] \in {"bus", "wait", "idle"}
          /\ t = "sensor" => pc'[t] \in {"bus", "wait", "check", "callback"}
      BY <1>30 DEF port_event_get, StartCallback, Resume
    <2>2. /\ pc' \in [Threads -> AppLabels \cup PlatformLabels
                                    \cup ConsumerLabels \cup {"callback"}]
          /\ pc'["app"] \in AppLabels \cup ConsumerLabels
          /\ pc'["platform"] = pc["platform"]
          /\ pc'["sensor"] \in ConsumerLabels \cup {"off", "check", "callback", "dead"}
      BY <2>1
    <2>3. /\ event' \in Events \cup {NoEvent}
          /\ events' \in Seq(Events) /\ Len(events') <= Capacity
      <3>1. CASE events' = events
        BY <1>30, <3>1 DEF port_event_get
      <3>2. CASE events # <<>> /\ events' = Tail(events) /\ event' = Head(events)
        BY <3>2
      <3>3. QED
        BY <1>30, <3>1, <3>2 DEF port_event_get
    <2>4. lateCallbacks' \in Nat
      BY <1>30 DEF port_event_get, StartCallback
    <2>5. UNCHANGED <<cancelled, event_callback, platform_exit, queue, running, expired, timer, edge,
                      pollset, revents, putting, bus_lock>> /\ evq_lock' = "free"
      BY <1>30 DEF port_event_get
    <2>6. QED
      BY <2>2, <2>3, <2>4, <2>5
  <1>31. ASSUME NEW t \in {"app", "sensor"}, BusLock(t)
        PROVE  (TypeOK /\ PutsAnEvent)'
    BY <1>31 DEF BusLock
  <1>32. ASSUME NEW t \in {"app", "sensor"}, BusUnlock(t)
        PROVE  (TypeOK /\ PutsAnEvent)'
    BY <1>32 DEF BusUnlock, StartCallback, Resume
  <1>33. ASSUME NEW t \in Threads, SpuriousWakeup(t)
        PROVE  (TypeOK /\ PutsAnEvent)'
    BY <1>33 DEF SpuriousWakeup
  <1>34. ASSUME NEW t \in {"sensor", "platform"}, DeinitCancel(t)
        PROVE  (TypeOK /\ PutsAnEvent)'
    BY <1>34 DEF DeinitCancel
  <1>35. ASSUME NEW t \in {"sensor", "platform"}, DeinitJoin(t)
        PROVE  (TypeOK /\ PutsAnEvent)'
    BY <1>35 DEF DeinitJoin
  <1>36. CASE UNCHANGED vars
    BY <1>36 DEF vars
  <1>37. QED
    BY <1>1, <1>2, <1>3, <1>4, <1>5, <1>6, <1>7, <1>8, <1>9, <1>10, <1>11,
       <1>12, <1>13, <1>14, <1>15, <1>16, <1>17, <1>18, <1>19, <1>20, <1>21,
       <1>22, <1>23, <1>24, <1>25, <1>26, <1>27, <1>28, <1>29, <1>30, <1>31,
       <1>32, <1>33, <1>34, <1>35, <1>36
       DEF Next, InitThreads, Heartbeat, PlatformThread, SensorThread,
           Consume, Deinit

\* Where linux_init and linux_deinit are decides which threads there are, whether
\* the queue exists and whether platform_exit is set.
Phases ==
    /\ pc["app"] \in {"new", "init_platform"} => pc["platform"] = "off"
    /\ pc["app"] \in {"new", "init_platform", "init_sensor"} => pc["sensor"] = "off"
    /\ ~event_callback =>
          /\ pc["app"] \notin {"init_sensor", "cancel_sensor", "join_sensor"}
          /\ pc["sensor"] = "off"
    /\ pc["app"] \in {"cancel_platform", "join_platform", "release", "closed"}
          => pc["sensor"] \in {"off", "dead"}
    /\ pc["app"] \in {"release", "closed"} => pc["platform"] = "dead"
    /\ pc["app"] \notin {"new", "failed", "closed"} => queue = "allocated"
    /\ platform_exit <=>
          pc["app"] \in {"cancel_sensor", "join_sensor", "cancel_platform",
                         "join_platform", "release", "closed"}

\* A callback that begins after platform_exit was set is the sensor thread's last.
LastCallback ==
    /\ ~platform_exit => lateCallbacks = 0
    /\ lateCallbacks <= 1
    /\ lateCallbacks = 1 => pc["sensor"] \in {"callback", "check", "dead"}

\* Every step keeps the agreement between linux_init, linux_deinit, the threads
\* and the queue.
LEMMA PhaseStep == TypeOK /\ Phases /\ [Next]_vars => Phases'
  <1> SUFFICES ASSUME TypeOK, Phases, [Next]_vars PROVE Phases'
    OBVIOUS
  <1> USE PortAssumption
      DEF TypeOK, Phases, Consumer, Threads, AppLabels, PlatformLabels,
          ConsumerLabels, Events,
          EV_HEARTBEAT, EV_DAT_INTR, NoEvent, At, Goto, rest, portVars, timerVars,
          pollVars, queueVars
  <1>1. CASE OpenPort
    BY <1>1 DEF OpenPort
  <1>2. CASE StartPlatformThread
    BY <1>2 DEF StartPlatformThread
  <1>3. CASE StartSensorThread
    BY <1>3 DEF StartSensorThread
  <1>4. CASE OpenFails
    BY <1>4 DEF OpenFails
  <1>5. CASE linux_timer_start
    BY <1>5 DEF linux_timer_start
  <1>6. CASE linux_timer_stop
    BY <1>6 DEF linux_timer_stop
  <1>7. CASE TimerExpires
    BY <1>7 DEF TimerExpires
  <1>8. CASE ClosedTimerExpires
    BY <1>8 DEF ClosedTimerExpires
  <1>9. CASE GpioEdge
    BY <1>9 DEF GpioEdge
  <1>10. CASE PlatformLoop
    BY <1>10 DEF PlatformLoop, update_poll_data
  <1>11. CASE PollBegin
    BY <1>11 DEF PollBegin
  <1>12. CASE PollReturn
    BY <1>12 DEF PollReturn, PollReady
  <1>13. CASE PollInterrupted
    BY <1>13 DEF PollInterrupted
  <1>14. CASE ReadTimer
    BY <1>14 DEF ReadTimer
  <1>15. CASE ReadTimerReturns
    BY <1>15 DEF ReadTimerReturns
  <1>16. CASE ReadGpio
    BY <1>16 DEF ReadGpio
  <1>17. CASE ProcessDone
    BY <1>17 DEF ProcessDone
  <1>18. CASE PutLock
    BY <1>18 DEF PutLock
  <1>19. CASE port_event_put
    BY <1>19 DEF port_event_put, Consumer, QueueFull
  <1>20. CASE CancelAtPoll
    BY <1>20 DEF CancelAtPoll
  <1>21. CASE SensorLoop
    BY <1>21 DEF SensorLoop
  <1>22. CASE CallbackReturns
    BY <1>22 DEF CallbackReturns
  <1>23. CASE CancelAtWait
    BY <1>23 DEF CancelAtWait
  <1>24. CASE CancelInHandler
    BY <1>24 DEF CancelInHandler
  <1>25. CASE AppPolls
    BY <1>25 DEF AppPolls
  <1>26. CASE AppAccess
    BY <1>26 DEF AppAccess
  <1>27. CASE DeinitExit
    BY <1>27 DEF DeinitExit
  <1>28. CASE DeinitRelease
    BY <1>28 DEF DeinitRelease
  <1>29. ASSUME NEW t \in {"app", "sensor"}, GetLock(t)
        PROVE  Phases'
    BY <1>29 DEF GetLock, Consumer
  <1>30. ASSUME NEW t \in {"app", "sensor"}, port_event_get(t)
        PROVE  Phases'
    BY <1>30 DEF port_event_get, Consumer, StartCallback, Resume
  <1>31. ASSUME NEW t \in {"app", "sensor"}, BusLock(t)
        PROVE  Phases'
    BY <1>31 DEF BusLock
  <1>32. ASSUME NEW t \in {"app", "sensor"}, BusUnlock(t)
        PROVE  Phases'
    BY <1>32 DEF BusUnlock, StartCallback, Resume
  <1>33. ASSUME NEW t \in Threads, SpuriousWakeup(t)
        PROVE  Phases'
    BY <1>33 DEF SpuriousWakeup
  <1>34. ASSUME NEW t \in {"sensor", "platform"}, DeinitCancel(t)
        PROVE  Phases'
    BY <1>34 DEF DeinitCancel
  <1>35. ASSUME NEW t \in {"sensor", "platform"}, DeinitJoin(t)
        PROVE  Phases'
    BY <1>35 DEF DeinitJoin
  <1>36. CASE UNCHANGED vars
    BY <1>36 DEF vars
  <1>37. QED
    BY <1>1, <1>2, <1>3, <1>4, <1>5, <1>6, <1>7, <1>8, <1>9, <1>10, <1>11,
       <1>12, <1>13, <1>14, <1>15, <1>16, <1>17, <1>18, <1>19, <1>20, <1>21,
       <1>22, <1>23, <1>24, <1>25, <1>26, <1>27, <1>28, <1>29, <1>30, <1>31,
       <1>32, <1>33, <1>34, <1>35, <1>36
       DEF Next, InitThreads, Heartbeat, PlatformThread, SensorThread,
           Consume, Deinit

\* No step begins a second callback after platform_exit was set.
LEMMA CallbackStep ==
    TypeOK /\ Phases /\ LastCallback /\ [Next]_vars => LastCallback'
  <1> SUFFICES ASSUME TypeOK, Phases, LastCallback, [Next]_vars PROVE LastCallback'
    OBVIOUS
  <1> USE PortAssumption
      DEF TypeOK, Phases, LastCallback, Consumer, Threads, AppLabels,
          PlatformLabels, ConsumerLabels, Events,
          EV_HEARTBEAT, EV_DAT_INTR, NoEvent, At, Goto, rest, portVars, timerVars,
          pollVars, queueVars
  <1>1. CASE OpenPort
    BY <1>1 DEF OpenPort
  <1>2. CASE StartPlatformThread
    BY <1>2 DEF StartPlatformThread
  <1>3. CASE StartSensorThread
    BY <1>3 DEF StartSensorThread
  <1>4. CASE OpenFails
    BY <1>4 DEF OpenFails
  <1>5. CASE linux_timer_start
    BY <1>5 DEF linux_timer_start
  <1>6. CASE linux_timer_stop
    BY <1>6 DEF linux_timer_stop
  <1>7. CASE TimerExpires
    BY <1>7 DEF TimerExpires
  <1>8. CASE ClosedTimerExpires
    BY <1>8 DEF ClosedTimerExpires
  <1>9. CASE GpioEdge
    BY <1>9 DEF GpioEdge
  <1>10. CASE PlatformLoop
    BY <1>10 DEF PlatformLoop, update_poll_data
  <1>11. CASE PollBegin
    BY <1>11 DEF PollBegin
  <1>12. CASE PollReturn
    BY <1>12 DEF PollReturn, PollReady
  <1>13. CASE PollInterrupted
    BY <1>13 DEF PollInterrupted
  <1>14. CASE ReadTimer
    BY <1>14 DEF ReadTimer
  <1>15. CASE ReadTimerReturns
    BY <1>15 DEF ReadTimerReturns
  <1>16. CASE ReadGpio
    BY <1>16 DEF ReadGpio
  <1>17. CASE ProcessDone
    BY <1>17 DEF ProcessDone
  <1>18. CASE PutLock
    BY <1>18 DEF PutLock
  <1>19. CASE port_event_put
    BY <1>19 DEF port_event_put, Consumer, QueueFull
  <1>20. CASE CancelAtPoll
    BY <1>20 DEF CancelAtPoll
  <1>21. CASE SensorLoop
    BY <1>21 DEF SensorLoop
  <1>22. CASE CallbackReturns
    BY <1>22 DEF CallbackReturns
  <1>23. CASE CancelAtWait
    BY <1>23 DEF CancelAtWait
  <1>24. CASE CancelInHandler
    BY <1>24 DEF CancelInHandler
  <1>25. CASE AppPolls
    BY <1>25 DEF AppPolls
  <1>26. CASE AppAccess
    BY <1>26 DEF AppAccess
  <1>27. CASE DeinitExit
    BY <1>27 DEF DeinitExit
  <1>28. CASE DeinitRelease
    BY <1>28 DEF DeinitRelease
  <1>29. ASSUME NEW t \in {"app", "sensor"}, GetLock(t)
        PROVE  LastCallback'
    BY <1>29 DEF GetLock, Consumer
  <1>30. ASSUME NEW t \in {"app", "sensor"}, port_event_get(t)
        PROVE  LastCallback'
    BY <1>30 DEF port_event_get, Consumer, StartCallback, Resume
  <1>31. ASSUME NEW t \in {"app", "sensor"}, BusLock(t)
        PROVE  LastCallback'
    BY <1>31 DEF BusLock
  <1>32. ASSUME NEW t \in {"app", "sensor"}, BusUnlock(t)
        PROVE  LastCallback'
    BY <1>32 DEF BusUnlock, StartCallback, Resume
  <1>33. ASSUME NEW t \in Threads, SpuriousWakeup(t)
        PROVE  LastCallback'
    BY <1>33 DEF SpuriousWakeup
  <1>34. ASSUME NEW t \in {"sensor", "platform"}, DeinitCancel(t)
        PROVE  LastCallback'
    BY <1>34 DEF DeinitCancel
  <1>35. ASSUME NEW t \in {"sensor", "platform"}, DeinitJoin(t)
        PROVE  LastCallback'
    BY <1>35 DEF DeinitJoin
  <1>36. CASE UNCHANGED vars
    BY <1>36 DEF vars
  <1>37. QED
    BY <1>1, <1>2, <1>3, <1>4, <1>5, <1>6, <1>7, <1>8, <1>9, <1>10, <1>11,
       <1>12, <1>13, <1>14, <1>15, <1>16, <1>17, <1>18, <1>19, <1>20, <1>21,
       <1>22, <1>23, <1>24, <1>25, <1>26, <1>27, <1>28, <1>29, <1>30, <1>31,
       <1>32, <1>33, <1>34, <1>35, <1>36
       DEF Next, InitThreads, Heartbeat, PlatformThread, SensorThread,
           Consume, Deinit

\* No step leaves the consumer asleep over a queued event.
LEMMA WakeupStep == TypeOK /\ NoLostWakeup /\ [Next]_vars => NoLostWakeup'
  <1> SUFFICES ASSUME TypeOK, NoLostWakeup, [Next]_vars PROVE NoLostWakeup'
    OBVIOUS
  <1> USE PortAssumption
      DEF TypeOK, NoLostWakeup, Consumer, Threads, AppLabels, PlatformLabels,
          ConsumerLabels, Events,
          EV_HEARTBEAT, EV_DAT_INTR, NoEvent, At, Goto, rest, portVars, timerVars,
          pollVars, queueVars
  <1>1. CASE OpenPort
    BY <1>1 DEF OpenPort
  <1>2. CASE StartPlatformThread
    BY <1>2 DEF StartPlatformThread
  <1>3. CASE StartSensorThread
    BY <1>3 DEF StartSensorThread
  <1>4. CASE OpenFails
    BY <1>4 DEF OpenFails
  <1>5. CASE linux_timer_start
    BY <1>5 DEF linux_timer_start
  <1>6. CASE linux_timer_stop
    BY <1>6 DEF linux_timer_stop
  <1>7. CASE TimerExpires
    BY <1>7 DEF TimerExpires
  <1>8. CASE ClosedTimerExpires
    BY <1>8 DEF ClosedTimerExpires
  <1>9. CASE GpioEdge
    BY <1>9 DEF GpioEdge
  <1>10. CASE PlatformLoop
    BY <1>10 DEF PlatformLoop, update_poll_data
  <1>11. CASE PollBegin
    BY <1>11 DEF PollBegin
  <1>12. CASE PollReturn
    BY <1>12 DEF PollReturn, PollReady
  <1>13. CASE PollInterrupted
    BY <1>13 DEF PollInterrupted
  <1>14. CASE ReadTimer
    BY <1>14 DEF ReadTimer
  <1>15. CASE ReadTimerReturns
    BY <1>15 DEF ReadTimerReturns
  <1>16. CASE ReadGpio
    BY <1>16 DEF ReadGpio
  <1>17. CASE ProcessDone
    BY <1>17 DEF ProcessDone
  <1>18. CASE PutLock
    BY <1>18 DEF PutLock
  <1>19. CASE port_event_put
    BY <1>19 DEF port_event_put, Consumer, QueueFull
  <1>20. CASE CancelAtPoll
    BY <1>20 DEF CancelAtPoll
  <1>21. CASE SensorLoop
    BY <1>21 DEF SensorLoop
  <1>22. CASE CallbackReturns
    BY <1>22 DEF CallbackReturns
  <1>23. CASE CancelAtWait
    BY <1>23 DEF CancelAtWait
  <1>24. CASE CancelInHandler
    BY <1>24 DEF CancelInHandler
  <1>25. CASE AppPolls
    BY <1>25 DEF AppPolls
  <1>26. CASE AppAccess
    BY <1>26 DEF AppAccess
  <1>27. CASE DeinitExit
    BY <1>27 DEF DeinitExit
  <1>28. CASE DeinitRelease
    BY <1>28 DEF DeinitRelease
  <1>29. ASSUME NEW t \in {"app", "sensor"}, GetLock(t)
        PROVE  NoLostWakeup'
    BY <1>29 DEF GetLock, Consumer
  <1>30. ASSUME NEW t \in {"app", "sensor"}, port_event_get(t)
        PROVE  NoLostWakeup'
    BY <1>30 DEF port_event_get, Consumer, StartCallback, Resume
  <1>31. ASSUME NEW t \in {"app", "sensor"}, BusLock(t)
        PROVE  NoLostWakeup'
    BY <1>31 DEF BusLock
  <1>32. ASSUME NEW t \in {"app", "sensor"}, BusUnlock(t)
        PROVE  NoLostWakeup'
    BY <1>32 DEF BusUnlock, StartCallback, Resume
  <1>33. ASSUME NEW t \in Threads, SpuriousWakeup(t)
        PROVE  NoLostWakeup'
    BY <1>33 DEF SpuriousWakeup
  <1>34. ASSUME NEW t \in {"sensor", "platform"}, DeinitCancel(t)
        PROVE  NoLostWakeup'
    BY <1>34 DEF DeinitCancel
  <1>35. ASSUME NEW t \in {"sensor", "platform"}, DeinitJoin(t)
        PROVE  NoLostWakeup'
    BY <1>35 DEF DeinitJoin
  <1>36. CASE UNCHANGED vars
    BY <1>36 DEF vars
  <1>37. QED
    BY <1>1, <1>2, <1>3, <1>4, <1>5, <1>6, <1>7, <1>8, <1>9, <1>10, <1>11,
       <1>12, <1>13, <1>14, <1>15, <1>16, <1>17, <1>18, <1>19, <1>20, <1>21,
       <1>22, <1>23, <1>24, <1>25, <1>26, <1>27, <1>28, <1>29, <1>30, <1>31,
       <1>32, <1>33, <1>34, <1>35, <1>36
       DEF Next, InitThreads, Heartbeat, PlatformThread, SensorThread,
           Consume, Deinit

\* The invariant: every part is needed for the others to be inductive.
IInv ==
    /\ TypeOK
    /\ PutsAnEvent
    /\ Phases
    /\ LastCallback
    /\ NoLostWakeup

\* A port that is not open satisfies the invariant.
LEMMA InitInv == Init => IInv
  <1> SUFFICES ASSUME Init PROVE IInv
    OBVIOUS
  <1> USE PortAssumption
      DEF Init, Threads, AppLabels, PlatformLabels, ConsumerLabels, NoEvent, At
  <1>1. TypeOK
    <2>1. <<>> \in Seq(Events) /\ Len(<<>>) <= Capacity
      OBVIOUS
    <2>2. /\ running \in BOOLEAN /\ expired \in BOOLEAN
          /\ edge \in BOOLEAN /\ platform_exit \in BOOLEAN
      OBVIOUS
    <2>3. pc \in [Threads -> AppLabels \cup PlatformLabels \cup ConsumerLabels
                               \cup {"callback"}]
      OBVIOUS
    <2>4. QED
      BY <2>1, <2>2, <2>3 DEF TypeOK
  <1>2. PutsAnEvent /\ Phases /\ LastCallback
    BY DEF PutsAnEvent, Phases, LastCallback
  <1>3. NoLostWakeup
    BY DEF NoLostWakeup, Consumer
  <1>4. QED
    BY <1>1, <1>2, <1>3 DEF IInv

\* Every step of the port preserves the invariant.
LEMMA StepInv == IInv /\ [Next]_vars => IInv'
  BY TypeStep, PhaseStep, CallbackStep, WakeupStep DEF IInv

\* The values of the port's variables; the queue never exceeds its capacity.
THEOREM TypeCorrect == Spec => []TypeOK
  BY InitInv, StepInv, PTL DEF Spec, IInv

\* port_event_put and port_event_get: no consumer sleeps while an event is queued.
THEOREM WakeupNeverLost == Spec => []NoLostWakeup
  BY InitInv, StepInv, PTL DEF Spec, IInv

\* linux_deinit frees the queue only after both threads have stopped using it.
THEOREM QueueAlwaysOutlivesThreads == Spec => []QueueOutlivesThreads
  <1>1. IInv => QueueOutlivesThreads
    BY DEF IInv, TypeOK, Phases, QueueOutlivesThreads, Consumer, Threads,
           AppLabels, PlatformLabels, ConsumerLabels
  <1>2. QED
    BY <1>1, InitInv, StepInv, PTL DEF Spec

\* sensor_close: at most one more callback begins, and none is running after it.
THEOREM CallbacksAlwaysStop == Spec => []CallbacksStop
  <1>1. IInv => CallbacksStop
    BY DEF IInv, TypeOK, Phases, LastCallback, CallbacksStop, At
  <1>2. QED
    BY <1>1, InitInv, StepInv, PTL DEF Spec
=============================================================================
