-------------------------- MODULE RegisterAccess ---------------------------
(***************************************************************************)
(* One call of sensor_indexed_read, sensor_indexed_write or                *)
(* sensor_bootstrap_write (core/smartsensor_private.c) with any entry of   *)
(* the register table, index and size, down to the bytes that              *)
(* linux_i2c.c and linux_modbus.c move.  Where SharedBus asks which client *)
(* may use the bus, this module asks which bytes of the probe a call       *)
(* reaches and where in the caller's buffer they end.                      *)
(*                                                                         *)
(* moved describes a transfer: for a read it maps each byte of the buffer  *)
(* to the byte of the register that was stored there, for a write each     *)
(* byte of the register to the byte of the buffer it got.  Bytes of a      *)
(* register are numbered in the order in which the probe sends them.       *)
(***************************************************************************)
EXTENDS Configuration, Integers, FiniteSets

CONSTANTS I2C_SMBUS_BLOCK_MAX,  \* bytes the I2C driver moves in one transaction
          MODBUS_BUFFER_SIZE,
          None                  \* a byte that was not moved; no call; no address

ASSUME AccessAssumption ==
    /\ I2C_SMBUS_BLOCK_MAX \in 1 .. 255
    /\ MODBUS_BUFFER_SIZE \in Nat
    /\ None \notin Nat

VARIABLES pc, call, ret,
          reg_addr,             \* the register address on the wire
          access,               \* what R_REGISTER_ACCESS was set to, or None
          moved,
          nTotal                \* bytes linux_i2c_read has counted

vars == <<pc, call, ret, reg_addr, access, moved, nTotal>>

BootstrapCalls ==
    {[op |-> "bootstrap", bus |-> bus, reg |-> e, index |-> 0, size |-> e.size] :
        bus \in {"I2C", "MODBUS"}, e \in BootstrapRegisters}

\* The sizes of the buffers that the functions of smartsensor.c pass for a register.
OfferedSizes(name) ==
    UNION {{f.steps[i].size : i \in {j \in DOMAIN f.steps : f.steps[j].reg = name}} :
              f \in AllFunctions}

\* The calls worth telling apart: every index up to the first refused one; the
\* register's size, its two neighbours and what the functions offer.
CallsOf(e) ==
    {[op |-> op, bus |-> bus, reg |-> e, index |-> i, size |-> n] :
        op \in {"read", "write"}, bus \in {"I2C", "MODBUS"}, i \in 0 .. e.nInstance,
        n \in ({e.size - 1, e.size, e.size + 1} \cup OfferedSizes(e.name)) \cap Nat}

Init ==
    /\ pc = "idle"
    /\ call = None
    /\ ret = "E_OK"
    /\ reg_addr = None
    /\ access = None
    /\ moved = <<>>
    /\ nTotal = 0

-----------------------------------------------------------------------------
IndexRefused(k) == k.op # "bootstrap" /\ k.index >= k.reg.nInstance

\* A read fetches the whole register, a write sends what it was given.
Length(k) == IF k.op = "read" THEN k.reg.size ELSE k.size

Begin(k) ==
    /\ pc = "idle"
    /\ call' = k
    /\ \/ SizeRefused(k.reg, k.size) /\ ret' = "E_BUFFER_MEM_SIZE" /\ pc' = "return"
       \/ ~SizeRefused(k.reg, k.size) /\ IndexRefused(k) /\ ret' = "E_INVALID_PARAM" /\ pc' = "return"
       \/ ~SizeRefused(k.reg, k.size) /\ ~IndexRefused(k) /\ ret' = "E_OK" /\ pc' = "address"
    /\ moved' = [b \in 0 .. Length(k) - 1 |-> None]
    /\ UNCHANGED <<reg_addr, access, nTotal>>

\* Mutant: the gap between two instances is forgotten.
AddressWithoutOffset(k) ==
    (IF k.bus = "I2C" THEN k.reg.i2c_addr + k.index * k.reg.size
     ELSE k.reg.modbus_addr + (k.index * k.reg.size) \div 2) % \h10000

\* Mutant: Modbus addresses count bytes instead of words.
AddressInBytes(k) ==
    (IF k.bus = "I2C" THEN k.reg.i2c_addr + k.index * (k.reg.size + k.reg.offset)
     ELSE k.reg.modbus_addr + k.index * (k.reg.size + k.reg.offset)) % \h10000

Address(k) ==
    (IF k.bus = "I2C" THEN k.reg.i2c_addr + k.index * (k.reg.size + k.reg.offset)
     ELSE k.reg.modbus_addr + (k.index * (k.reg.size + k.reg.offset)) \div 2) % \h10000

\* Mutant: windows of 256 instead of 1024 addresses.
WindowOfPage(a) == a \div 256 + Window.factory

WindowOf(a) == a \div 1024 + Window.factory

\* An address beyond 0x7fff is an error for a read and nothing for a write.
ComputeAddress ==
    /\ pc = "address"
    /\ LET a == Address(call) IN
       \/ /\ call.bus = "MODBUS" \/ call.op = "bootstrap" \/ a <= \hff
          /\ reg_addr' = a
          /\ pc' = "transfer"
          /\ UNCHANGED <<access, ret>>
       \/ /\ call.bus = "I2C" /\ call.op # "bootstrap" /\ a > \hff /\ a < \h8000
          /\ reg_addr' = WindowOf(a)
          /\ access' = a
          /\ pc' = "select"
          /\ UNCHANGED ret
       \/ /\ call.bus = "I2C" /\ call.op # "bootstrap" /\ a >= \h8000
          /\ ret' = IF call.op = "read" THEN "E_INVALID_ADDR" ELSE ret
          /\ pc' = IF call.op = "read" THEN "return" ELSE "status"
          /\ UNCHANGED <<reg_addr, access>>
    /\ UNCHANGED <<call, moved, nTotal>>

\* The two bytes of the address go to R_REGISTER_ACCESS first.
Select ==
    /\ pc = "select"
    /\ \/ pc' = "transfer" /\ UNCHANGED ret
       \/ /\ ret' = "E_PORT_ERR"
          /\ pc' = IF call.op = "read" THEN "return" ELSE "status"
    /\ UNCHANGED <<call, reg_addr, access, moved, nTotal>>

-----------------------------------------------------------------------------
Reversed(f, n) == [b \in DOMAIN f |-> IF b < n THEN f[n - 1 - b] ELSE f[b]]

\* The other byte of the 16-bit word a byte is in.
Other(b) == IF b % 2 = 0 THEN b + 1 ELSE b - 1

\* Mutant: the loop ends one step before the half.
SwapTooFew(f, n) == [b \in DOMAIN f |-> IF b - (b % 2) < n \div 2 - 1 THEN f[Other(b)] ELSE f[b]]

\* for (idx = 0; idx <= n/2; idx += 2): the pairs up to the half of the buffer.
SwapLoop(f, n) == [b \in DOMAIN f |-> IF b - (b % 2) <= n \div 2 THEN f[Other(b)] ELSE f[b]]

Even(n) == n + (n % 2)

\* The caller's buffer as the transfer of a write finds it: reversed unless the
\* register is one of bytes.
Prepared(k, n) ==
    LET own == [b \in 0 .. n - 1 |-> IF b < k.size THEN b ELSE None]
    IN  IF "BYTES" \in k.reg.access THEN own ELSE Reversed(own, k.size)

AfterTransfer == IF call.op = "write" THEN "status" ELSE "return"

Fails(code) ==
    /\ ret' = code
    /\ pc' = AfterTransfer
    /\ UNCHANGED <<moved, nTotal>>

Smaller(m, n) == IF m < n THEN m ELSE n

\* What the I2C library makes of a length, of which it takes 8 bits.
BlockLength(n) == Smaller(n % 256, I2C_SMBUS_BLOCK_MAX)

\* linux_i2c_read: blocks are fetched from the same address into the same place
\* until their lengths add up to at least the register's.
I2cRead ==
    /\ call.op = "read" /\ call.bus = "I2C"
    /\ LET n == call.reg.size
           block == BlockLength(n) IN
       IF nTotal < n
       THEN \/ /\ block > 0
               /\ nTotal' = nTotal + block
               /\ moved' = [b \in DOMAIN moved |-> IF b < block THEN b ELSE moved[b]]
               /\ UNCHANGED <<pc, ret>>
            \/ Fails("E_BUS_OPERATION")
       ELSE IF nTotal = n THEN pc' = "reverse" /\ UNCHANGED <<ret, moved, nTotal>>
       ELSE Fails("E_BUS_OPERATION")

\* linux_i2c_write: one block, whatever of the buffer it holds.
I2cWrite ==
    /\ call.op # "read" /\ call.bus = "I2C"
    /\ \/ /\ moved' = [b \in DOMAIN moved |-> IF b < BlockLength(call.size)
                                             THEN Prepared(call, call.size)[b] ELSE None]
          /\ pc' = AfterTransfer
          /\ UNCHANGED <<ret, nTotal>>
       \/ Fails("E_PORT_ERR")

\* linux_modbus_read: a word arrives in the byte order of the host.
ModbusRead ==
    /\ call.op = "read" /\ call.bus = "MODBUS"
    /\ LET n == Even(call.reg.size) IN
       \/ n > MODBUS_BUFFER_SIZE /\ Fails("E_NO_MEM")
       \/ n <= MODBUS_BUFFER_SIZE /\ Fails("E_BUS_OPERATION")
       \/ /\ n <= MODBUS_BUFFER_SIZE
          /\ LET words == [b \in 0 .. n - 1 |-> Other(b)]
             IN  moved' = [b \in DOMAIN moved |-> SwapLoop(words, n)[b]]
          /\ pc' = "reverse"
          /\ UNCHANGED <<ret, nTotal>>

ModbusWrite ==
    /\ call.op # "read" /\ call.bus = "MODBUS"
    /\ LET n == Even(call.size) IN
       \/ n > MODBUS_BUFFER_SIZE /\ Fails("E_NO_MEM")
       \/ n <= MODBUS_BUFFER_SIZE /\ Fails("E_BUS_OPERATION")
       \/ /\ n <= MODBUS_BUFFER_SIZE
          /\ LET words == SwapLoop(Prepared(call, n), n)
             IN  moved' = [b \in 0 .. n - 1 |-> words[Other(b)]]
          /\ pc' = AfterTransfer
          /\ UNCHANGED <<ret, nTotal>>

Transfer ==
    /\ pc = "transfer"
    /\ I2cRead \/ I2cWrite \/ ModbusRead \/ ModbusWrite
    /\ UNCHANGED <<call, reg_addr, access>>

\* The end of a read that succeeded.  A string is turned when its first character
\* is zero and its last is not.
ReverseBytes ==
    /\ pc = "reverse"
    /\ \/ /\ "STR" \in call.reg.access
          /\ moved' \in {moved, Reversed(moved, call.size)}
       \/ /\ "BYTES" \notin call.reg.access
          /\ moved' = Reversed(moved, call.size)
       \/ /\ "BYTES" \in call.reg.access /\ "STR" \notin call.reg.access
          /\ UNCHANGED moved
    /\ pc' = "return"
    /\ UNCHANGED <<call, ret, reg_addr, access, nTotal>>

\* A write that does not reset the probe is followed by a read of the status, at
\* its I2C address on either bus.  What it returns is ignored.
ReadStatus ==
    /\ pc = "status"
    /\ \/ reg_addr' = R.SYSTEM_STATUS
       \/ call.reg.name = "TRIGGER_REQUESTS" /\ UNCHANGED reg_addr
    /\ pc' = "return"
    /\ UNCHANGED <<call, ret, access, moved, nTotal>>

Return ==
    /\ pc = "return"
    /\ pc' = "idle"
    /\ call' = None
    /\ ret' = "E_OK"
    /\ reg_addr' = None
    /\ access' = None
    /\ moved' = <<>>
    /\ nTotal' = 0

Calls == BootstrapCalls \cup UNION {CallsOf(e) : e \in ss_register}

Next ==
    \/ pc = "idle" /\ \E k \in Calls : Begin(k)
    \/ ComputeAddress \/ Select \/ Transfer \/ ReverseBytes \/ ReadStatus \/ Return

Spec == Init /\ [][Next]_vars

-----------------------------------------------------------------------------
\* The functions of smartsensor.c offer every register they read or write a buffer
\* that the table accepts, so none of their calls comes back with
\* E_BUFFER_MEM_SIZE (preset_config is the exception).
FunctionsAreAccepted ==
    call # None /\ ret = "E_BUFFER_MEM_SIZE" /\ call.reg.number = 0 =>
        \A f \in AllFunctions \ {preset_config} : \A i \in DOMAIN f.steps :
            ~(f.steps[i].reg = call.reg.name /\ f.steps[i].size = call.size)

\* The address of the probe's memory a transfer reaches: what an access window
\* shows, otherwise the register address itself.
Reached == IF access = None THEN reg_addr ELSE access

\* Bytes for the wire in the units of the bus's addresses.
Units(k) == IF k.bus = "I2C" THEN Length(k) ELSE Even(Length(k)) \div 2

AddressOn(bus, e) == IF bus = "I2C" THEN e.i2c_addr ELSE e.modbus_addr

\* Index k of the register X_i reaches the register X_(i + k), on both buses, as
\* smartsensor.h promises.
IndexReachesNumbered ==
    pc = "transfer" =>
        \A e \in _def :
            /\ e.name = call.reg.name
            /\ e.number = call.reg.number + call.index
            => Reached = AddressOn(call.bus, e)

\* Entries without an address on this bus; a call with one reaches another register.
Unaddressed(bus) ==
    {e \in _def : AddressOn(bus, e) = NoAddress} \ {Reg("DEVICE_ID", \hf000, 0, RD, 4)}

\* The extension space contains its own registers, a unit is part of a descriptor
\* and the boot loader has addresses of its own.
Overlapping ==
    BootstrapRegisters \cup {UnitRegister}
    \cup {e \in _def : e.name = "DEVICE_EXTENSION_SPACE"}

\* The names of the entries that stand for the same or for common bytes: counts and
\* states of two fields each, the words of a list of which entries name the whole or a
\* part, and the 32 bytes of the device name, which run over the outputs.
Sharing == {
    {"NUMBER_OF_SENSORS", "NUMBER_OF_OUTPUTS"},
    {"NUMBER_OF_OUTPUTS", "OPERATING_TEMP", "OPERATING_VOLTAGE"},
    {"FAULT_PROCESS", "FAULT_CODE"},
    {"SENSOR_LIST_INDEX", "SENSOR_LIST_SELECT", "IO_LIST_INDEX"},
    {"DEVICE_NAME_LIST", "DEVICE_MODEL_NAME"},
    {"DEVICE_NAME", "OUTPUT"}}

Share(m, n) == \E g \in Sharing : {m, n} \subseteq g

\* A write, to whichever register and instance, changes no instance of a register of
\* another name but of those that share bytes with it.
WritesStayInside ==
    /\ pc = "transfer"
    /\ call.op = "write"
    /\ call.reg \notin Unaddressed(call.bus) \cup Overlapping
    => \A e \in _def \ (Unaddressed(call.bus) \cup Overlapping) :
          \A i \in 0 .. e.nInstance - 1 :
             LET other == [op |-> "read", bus |-> call.bus, reg |-> e, index |-> i,
                           size |-> e.size]
             IN  e.name # call.reg.name /\ ~Share(e.name, call.reg.name) =>
                    \/ Reached + Units(call) <= Address(other)
                    \/ Address(other) + Units(other) <= Reached

\* On I2C no transfer runs past the end of what is directly addressable, or past
\* the end of the access window through which it is made.
StaysInWindow ==
    pc = "transfer" /\ call.bus = "I2C" =>
        IF access = None THEN reg_addr + Length(call) <= \h100
        ELSE \E w \in DOMAIN Window :
                /\ reg_addr = Window[w]
                /\ WindowStart[w] <= access
                /\ access + Length(call) <= WindowStart[w] + WindowSize

\* The sizes of which every byte is brought to its place: what one SMBus block
\* holds, and what the loops that swap the bytes of words get through.
WholeSize == [I2C |-> I2C_SMBUS_BLOCK_MAX, MODBUS |-> 4]

\* A call that returns E_OK has moved every byte of the register, in the order of
\* the host for a number and of the probe for bytes, up to the sizes above.  A
\* string that was read may be turned.
TransferIsWhole ==
    /\ pc \in {"status", "return"} /\ ret = "E_OK"
    /\ Length(call) <= WholeSize[call.bus] /\ Length(call) = call.size
    => LET own == [b \in 0 .. call.size - 1 |-> b] IN
       \A b \in 0 .. call.size - 1 :
          \/ "BYTES" \in call.reg.access /\ moved[b] = own[b]
          \/ /\ "BYTES" \notin call.reg.access \/ ("STR" \in call.reg.access /\ call.op = "read")
             /\ moved[b] = Reversed(own, call.size)[b]
=============================================================================
