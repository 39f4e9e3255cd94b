\* Closing the port of test_probe_attach.c: interrupt pin and callback.
CONSTANTS
    UseInterrupt = TRUE
    Capacity = 1
SPECIFICATION FairSpec
CHECK_DEADLOCK FALSE
PROPERTIES CloseReturns
