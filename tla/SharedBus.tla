----------------------------- MODULE SharedBus -----------------------------
(***************************************************************************)
(* Reading and writing a register of a probe over I2C on Linux:            *)
(* sensor_indexed_read and sensor_indexed_write                            *)
(* (core/smartsensor_private.c) on top of port_comm_read, port_comm_write  *)
(* and the two port_comm_indirect_reg functions (port/linux/port_linux.c). *)
(* A register beyond 0xff is reached in two transactions: its address is   *)
(* written into R_REGISTER_ACCESS, then an access window is read or        *)
(* written.  All processes that use the bus share the mutex bus_lock.      *)
(*                                                                         *)
(* LinuxPort follows one process through opening and closing; here there   *)
(* are the clients, threads of any process, and what they do to the probe. *)
(***************************************************************************)
EXTENDS Naturals

CONSTANTS Clients,          \* threads that use the probe, of any process
          Direct, Indirect, \* registers up to 0xff, and beyond
          Bytes,            \* registers whose access has the flag BYTES
          TRIGGER_REQUESTS, \* the register that resets the probe
          Resets,           \* the TRIGGER_ values that do
          Values,
          Reversed,         \* reverse_bytes on each value
          Idle,
          MaxRestarts,      \* bound: how often the probe restarts
          MaxCrashes        \* bound: how many clients' processes are killed

Registers == Direct \cup Indirect

ASSUME BusAssumption ==
    /\ Direct \cap Indirect = {}
    /\ Indirect # {}
    /\ Bytes \subseteq Registers
    /\ TRIGGER_REQUESTS \in Direct
    /\ Resets \subseteq Values
    /\ Reversed \in [Values -> Values]
    /\ \A v \in Values : Reversed[Reversed[v]] = v
    /\ Idle \notin Clients \cup Values
    /\ Idle \notin [op : {"read", "write"}, reg : Registers]
    /\ MaxRestarts \in Nat /\ MaxCrashes \in Nat

VARIABLES pc,
          call,             \* the arguments of the call a client is in, or Idle
          buffer,           \* the caller's buffer during a call
          ret,              \* its return value so far
          is_reset,         \* clients whose write resets the probe
          bus_lock,         \* the client that holds it, or Idle
          memory,           \* the probe's registers, in its own byte order
          access,           \* the register R_REGISTER_ACCESS points at
          restarts,         \* how often the probe has restarted
          crashes,
          acted,            \* history: clients whose transfer was carried out
          disturbed,        \* history: clients whose access register a restart lost
          answer            \* history: what each client's last call returned

local == <<call, buffer, ret, is_reset>>
device == <<memory, access>>
bounds == <<restarts, crashes>>
history == <<acted, disturbed, answer>>
vars == <<pc, local, bus_lock, device, bounds, history>>

Calls == [op : {"read", "write"}, reg : Registers]

Read(v) == [ret |-> "E_OK", val |-> v]
Written == [ret |-> "E_OK"]
Error == [ret |-> "error"]
Pending == [ret |-> "pending"]

Goto(c, label) == pc' = [pc EXCEPT ![c] = label]

\* reverse_bytes, which the byte registers are spared.
Reverse(r, v) == IF r \in Bytes THEN v ELSE Reversed[v]

Init ==
    /\ pc = [c \in Clients |-> "idle"]
    /\ call = [c \in Clients |-> Idle]
    /\ buffer = [c \in Clients |-> Idle]
    /\ ret = [c \in Clients |-> "E_OK"]
    /\ is_reset = {}
    /\ bus_lock = Idle
    /\ \E v \in Values : memory = [r \in Registers |-> v]
    /\ access \in Indirect
    /\ restarts = 0
    /\ crashes = 0
    /\ acted = {}
    /\ disturbed = {}
    /\ answer = [c \in Clients |-> Pending]

-----------------------------------------------------------------------------
(* sensor_indexed_read and sensor_indexed_write up to the first lock.  A   *)
(* size or an index the table of registers does not allow is refused; then *)
(* a write reverses the caller's own buffer before anything is sent.       *)

Begin(c, k, v) ==
    /\ pc[c] = "idle"
    /\ call' = [call EXCEPT ![c] = k]
    /\ is_reset' = IF k.op = "write" /\ k.reg = TRIGGER_REQUESTS /\ v \in Resets
                   THEN is_reset \cup {c} ELSE is_reset \ {c}
    /\ answer' = [answer EXCEPT ![c] = Pending]
    /\ \/ /\ buffer' = [buffer EXCEPT ![c] = v]
          /\ ret' = [ret EXCEPT ![c] = "error"]
          /\ Goto(c, "return")
       \/ /\ buffer' = [buffer EXCEPT ![c] = IF k.op = "write" THEN Reverse(k.reg, v)
                                             ELSE v]
          /\ ret' = [ret EXCEPT ![c] = "E_OK"]
          /\ Goto(c, "lock")
    /\ UNCHANGED <<bus_lock, device, bounds, acted, disturbed>>

\* Mutant: the register's address is sent whether or not it needs to be.
LockSelects(c) ==
    /\ pc[c] = "lock"
    /\ bus_lock = Idle
    /\ bus_lock' = c
    /\ Goto(c, "select")
    /\ UNCHANGED <<local, device, bounds, history>>

\* Mutant: the lock is not waited for.
LockIgnored(c) ==
    /\ pc[c] = "lock"
    /\ bus_lock' = c
    /\ Goto(c, IF call[c].reg \in Indirect THEN "select" ELSE "transfer")
    /\ UNCHANGED <<local, device, bounds, history>>

Lock(c) ==
    /\ pc[c] = "lock"
    /\ bus_lock = Idle
    /\ bus_lock' = c
    /\ Goto(c, IF call[c].reg \in Indirect THEN "select" ELSE "transfer")
    /\ UNCHANGED <<local, device, bounds, history>>

\* The first transaction of an indirect access.  When it fails the probe may
\* have taken the address nevertheless.
Select(c) ==
    /\ pc[c] = "select"
    /\ \/ /\ Goto(c, "transfer")
          /\ access' = call[c].reg
          /\ UNCHANGED ret
       \/ /\ Goto(c, "unlock")
          /\ access' \in {access, call[c].reg}
          /\ ret' = [ret EXCEPT ![c] = "error"]
    /\ UNCHANGED <<call, buffer, is_reset, bus_lock, memory, bounds, history>>

\* The register a transaction reaches: an access window is what it points at.
Target(c) == IF call[c].reg \in Indirect THEN access ELSE call[c].reg

TransferSucceeds(c) ==
    /\ acted' = acted \cup {c}
    /\ \/ /\ call[c].op = "read"
          /\ buffer' = [buffer EXCEPT ![c] = memory[Target(c)]]
          /\ UNCHANGED memory
       \/ /\ call[c].op = "write"
          /\ memory' = [memory EXCEPT ![Target(c)] = buffer[c]]
          /\ UNCHANGED buffer
    /\ UNCHANGED ret

\* A read that fails leaves anything in the buffer; a write may have arrived.
TransferFails(c) ==
    /\ ret' = [ret EXCEPT ![c] = "error"]
    /\ \/ /\ call[c].op = "read"
          /\ \E v \in Values : buffer' = [buffer EXCEPT ![c] = v]
          /\ UNCHANGED <<memory, acted>>
       \/ /\ call[c].op = "write"
          /\ UNCHANGED <<memory, acted, buffer>>
       \/ /\ call[c].op = "write"
          /\ memory' = [memory EXCEPT ![Target(c)] = buffer[c]]
          /\ acted' = acted \cup {c}
          /\ UNCHANGED buffer

Transfer(c) ==
    /\ pc[c] = "transfer"
    /\ TransferSucceeds(c) \/ TransferFails(c)
    /\ Goto(c, "unlock")
    /\ disturbed' = disturbed \ {c}
    /\ UNCHANGED <<call, is_reset, bus_lock, access, bounds, answer>>

\* Mutant: an indirect access that failed returns with the mutex locked.
UnlockUnlessFailed(c) ==
    /\ pc[c] = "unlock"
    /\ bus_lock' = IF ret[c] = "E_OK" THEN Idle ELSE bus_lock
    /\ Goto(c, IF call[c].op = "write" /\ c \notin is_reset
               THEN "status_lock" ELSE "return")
    /\ UNCHANGED <<local, device, bounds, history>>

\* A write that does not reset the probe is followed by a read of its status.
Unlock(c) ==
    /\ pc[c] = "unlock"
    /\ bus_lock' = Idle
    /\ Goto(c, IF call[c].op = "write" /\ c \notin is_reset
               THEN "status_lock" ELSE "return")
    /\ UNCHANGED <<local, device, bounds, history>>

\* Mutant: the status is read without the lock.
StatusLockIgnored(c) ==
    /\ pc[c] = "status_lock"
    /\ Goto(c, "status_read")
    /\ UNCHANGED <<local, bus_lock, device, bounds, history>>

StatusLock(c) ==
    /\ pc[c] = "status_lock"
    /\ bus_lock = Idle
    /\ bus_lock' = c
    /\ Goto(c, "status_read")
    /\ UNCHANGED <<local, device, bounds, history>>

\* What the status read returns, or whether it succeeds, is ignored.
StatusRead(c) ==
    /\ pc[c] = "status_read"
    /\ bus_lock' = Idle
    /\ Goto(c, "return")
    /\ UNCHANGED <<local, device, bounds, history>>

\* The local variables end with the call.
Leave(c) ==
    /\ acted' = acted \ {c}
    /\ is_reset' = is_reset \ {c}
    /\ call' = [call EXCEPT ![c] = Idle]
    /\ buffer' = [buffer EXCEPT ![c] = Idle]
    /\ ret' = [ret EXCEPT ![c] = "E_OK"]
    /\ Goto(c, "idle")
    /\ UNCHANGED <<bus_lock, device, bounds, disturbed>>

\* Mutant: what was read is not brought into the byte order of the host.
ReturnUnreversed(c) ==
    /\ pc[c] = "return"
    /\ answer' = [answer EXCEPT ![c] =
                    IF ret[c] # "E_OK" THEN Error
                    ELSE IF call[c].op = "read" THEN Read(buffer[c]) ELSE Written]
    /\ Leave(c)

\* A read that succeeded is reversed; the buffer of a write stays reversed.
Return(c) ==
    /\ pc[c] = "return"
    /\ answer' = [answer EXCEPT ![c] =
                    IF ret[c] # "E_OK" THEN Error
                    ELSE IF call[c].op = "read"
                         THEN Read(Reverse(call[c].reg, buffer[c])) ELSE Written]
    /\ Leave(c)

-----------------------------------------------------------------------------
(* The probe may restart, by itself or on a trigger, between any two       *)
(* transactions; its registers then hold anything and its access register  *)
(* points anywhere.  A process may be killed anywhere; the mutex is not    *)
(* robust and stays locked.                                                *)

ProbeRestarts ==
    /\ restarts < MaxRestarts
    /\ restarts' = restarts + 1
    /\ memory' \in [Registers -> Values]
    /\ access' \in Indirect
    /\ disturbed' = {c \in Clients : pc[c] = "transfer" /\ call[c].reg \in Indirect}
    /\ UNCHANGED <<pc, local, bus_lock, crashes, acted, answer>>

Crash(c) ==
    /\ crashes < MaxCrashes
    /\ pc[c] \notin {"idle", "killed"}
    /\ crashes' = crashes + 1
    /\ Goto(c, "killed")
    /\ UNCHANGED <<local, bus_lock, device, restarts, history>>

-----------------------------------------------------------------------------
Access(c) ==
    Lock(c) \/ Select(c) \/ Transfer(c) \/ Unlock(c) \/ StatusLock(c)
    \/ StatusRead(c) \/ Return(c)

Next ==
    \/ \E c \in Clients :
          \/ \E k \in Calls, v \in Values : Begin(c, k, v)
          \/ Access(c)
          \/ Crash(c)
    \/ ProbeRestarts

Spec == Init /\ [][Next]_vars

(* Fairness: a call that began goes on, and a thread blocked on a mutex    *)
(* that is free again and again gets it.                                   *)
Fairness ==
    \A c \in Clients :
        WF_vars(Access(c)) /\ SF_vars(Lock(c)) /\ SF_vars(StatusLock(c))

FairSpec == Spec /\ Fairness

-----------------------------------------------------------------------------
Labels == {"idle", "lock", "select", "transfer", "unlock", "status_lock",
           "status_read", "return", "killed"}

\* The values of the variables; a client that is in no call has no arguments.
TypeOK ==
    /\ pc \in [Clients -> Labels]
    /\ call \in [Clients -> Calls \cup {Idle}]
    /\ \A c \in Clients : call[c] = Idle <=> pc[c] = "idle"
    /\ buffer \in [Clients -> Values \cup {Idle}]
    /\ ret \in [Clients -> {"E_OK", "error"}]
    /\ is_reset \subseteq Clients
    /\ bus_lock \in Clients \cup {Idle}
    /\ memory \in [Registers -> Values]
    /\ access \in Indirect
    /\ restarts \in 0 .. MaxRestarts
    /\ crashes \in 0 .. MaxCrashes
    /\ acted \subseteq Clients
    /\ disturbed \subseteq Clients
    /\ answer \in [Clients -> {Read(v) : v \in Values}
                                   \cup {Pending, Written, Error}]

\* Between the two transactions of an indirect access no other client moves the
\* access register: the register a transfer is about to reach is the one its
\* caller named, unless the probe itself restarted after the address was sent.
HitsTheNamedRegister ==
    \A c \in Clients \ disturbed :
        pc[c] = "transfer" => Target(c) = call[c].reg

\* At most one client is between lock and unlock, also when one was killed.
OnlyOneOnBus ==
    \A c, d \in Clients :
        /\ pc[c] \in {"select", "transfer", "unlock", "status_read"}
        /\ pc[d] \in {"select", "transfer", "unlock", "status_read"}
        => c = d

\* The calls of all clients together behave like atomic operations on the
\* registers; a restart of the probe leads astray only calls that have not acted
\* yet, and none that begins after it.
Atomic == INSTANCE AtomicRegisters WITH
    regs <- [r \in Registers |-> Reverse(r, memory[r])],
    value <- [c \in Clients |-> IF call[c] = Idle THEN Idle
                                ELSE Reverse(call[c].reg, buffer[c])]

ImplementsAtomicRegisters == Atomic!Spec

\* Every call returns, whichever of its transactions fail.
CallsReturn == \A c \in Clients : pc[c] = "lock" ~> pc[c] = "idle"
=============================================================================
