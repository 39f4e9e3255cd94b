\* A ring of four slots holds three events: the indexes wrap and the ring is
\* full and empty at every position.  The two events are those the port puts.
CONSTANTS
    Events = {"EV_HEARTBEAT", "EV_DAT_INTR"}
    Zeroed = "EV_COMM_SEND_DONE"
    Size = 4
SPECIFICATION Spec
INVARIANT TypeOK
PROPERTY ImplementsFifo
