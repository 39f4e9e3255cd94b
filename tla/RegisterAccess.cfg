\* Every entry of the register table with every index; the limits of the I2C
\* driver and of the Modbus buffer are those of the build.
CONSTANTS
    I2C_SMBUS_BLOCK_MAX = 32
    MODBUS_BUFFER_SIZE = 128
    None = None
    WaitPolls = 2
SPECIFICATION Spec
INVARIANTS FunctionsAreAccepted IndexReachesNumbered WritesStayInside StaysInWindow TransferIsWhole
