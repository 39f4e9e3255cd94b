\* The I2C port with an interrupt pin, with and without a callback.  Two queue
\* slots, so that the queue is empty, partly filled and full.
CONSTANTS
    UseInterrupt = TRUE
    Capacity = 2
SPECIFICATION FairSpec
CHECK_DEADLOCK FALSE
INVARIANTS TypeOK NoLostWakeup QueueOutlivesThreads CallbacksStop
PROPERTIES EdgeReachesPut QueuedIsHandled PolledHeartbeatIsPut PolledCloseReturns
