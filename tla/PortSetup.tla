----------------------------- MODULE PortSetup ------------------------------
(***************************************************************************)
(* The life of the mutex all processes share (port/linux/port_linux.c:     *)
(* create_shared_mutex, destroy_shared_mutex), and of one sensor's port    *)
(* in each process that uses it: linux_init step by step with the error    *)
(* path, the heartbeat timer (linux_timer.c), locking and unlocking for a  *)
(* transfer, linux_deinit, and another port after that.  A process may be  *)
(* killed anywhere.                                                        *)
(*                                                                         *)
(* The mutex lives in a shared memory object.  shm_unlink takes the name   *)
(* from the object, which lives on where it is mapped, so there may be     *)
(* several objects; only the youngest has the name.                        *)
(***************************************************************************)
EXTENDS Integers, FiniteSetsExt

CONSTANTS Users,          \* processes that open a sensor
          Creators,       \* processes that create and destroy the mutex
          UseInterrupt,   \* is_interrupt_used(): an I2C sensor with a pin
          HeartbeatUsers, \* the users that enable and disable the heartbeat
          MaxDescriptors, \* descriptors the system grants one process
          MaxMaps,        \* mappings the system grants one process
          None, Lost

ASSUME SetupAssumption ==
    /\ Users \cap Creators = {}
    /\ {None, Lost} \cap (Users \cup Creators) = {} /\ None # Lost
    /\ UseInterrupt \in BOOLEAN
    /\ HeartbeatUsers \subseteq Users
    /\ MaxDescriptors \in Nat \ {0}
    /\ MaxMaps \in Nat

VARIABLES pc,       \* where each process is; for a user, in linux_init or later
          shm,      \* the object that has the name SHARED_MUTEX, or None
          mutex,    \* what the memory of each object holds
          owner,    \* who holds the mutex of each object: a user, None or Lost
          mapped,   \* bus_lock of a user, a creator's mutex: an object or None
          open,     \* the descriptors a user's process has open
          before,   \* history: those it had open when it got its port
          port,     \* the descriptor fields of the user's port
          maps,     \* mappings of the mutex in the user's process
          queue,    \* the memory of the events: "none", "allocated", "freed"
          misused   \* history: objects used against the order the comments ask for

objects == <<shm, mutex, owner, misused>>
resources == <<mapped, open, before, port, maps, queue>>
vars == <<pc, objects, resources>>

\* Each creator makes and destroys the mutex once: an object is named for its creator.
Objects == Creators
Goto(p, label) == pc' = [pc EXCEPT ![p] = label]

Stdin == 0
Closed == -1

\* get_platform zeroes the port; descriptor 0 is the standard input.  heartbeat is the
\* descriptor of the timer while it is running, which a zeroed timer is not.
ZeroedPort == [des_mutex |-> 0, bus |-> 0, interrupt_gpio |-> 0, heartbeat |-> Closed]

\* The system gives the lowest descriptor that is free.
Descriptors == 0 .. MaxDescriptors - 1
NewDescriptor(opened) == Min(Descriptors \ opened)

Init ==
    /\ pc = [p \in Users \cup Creators |-> IF p \in Users THEN "new" ELSE "start"]
    /\ shm = None
    /\ mutex = [o \in Objects |-> "none"]
    /\ owner = [o \in Objects |-> None]
    /\ mapped = [p \in Users \cup Creators |-> None]
    /\ open = [u \in Users |-> {Stdin}]
    /\ before = [u \in Users |-> {Stdin}]
    /\ port = [u \in Users |-> ZeroedPort]
    /\ maps = [u \in Users |-> 0]
    /\ queue = [u \in Users |-> "none"]
    /\ misused = {}

\* A thread that ends does not unlock what it holds, and nobody else will.
Loses(p) == owner' = [o \in Objects |-> IF owner[o] = p THEN Lost ELSE owner[o]]

\* exit, a fatal signal or an abort: the system takes everything back except the
\* name, the contents and the owner of a shared mutex.
Ends(p) ==
    /\ Goto(p, "gone")
    /\ mapped' = [mapped EXCEPT ![p] = None]
    /\ IF p \in Users
       THEN /\ open' = [open EXCEPT ![p] = {}]
            /\ before' = [before EXCEPT ![p] = {}]
            /\ maps' = [maps EXCEPT ![p] = 0]
            /\ port' = [port EXCEPT ![p] = ZeroedPort]
            /\ queue' = [queue EXCEPT ![p] = "none"]
       ELSE UNCHANGED <<open, before, maps, port, queue>>
    /\ Loses(p)
    /\ UNCHANGED <<shm, mutex, misused>>

\* A creator that is killed is one that takes no further step: none is due to it.
Killed(u) == pc[u] # "gone" /\ Ends(u)

-----------------------------------------------------------------------------
(* create_shared_mutex and destroy_shared_mutex.                           *)

\* Mutant: O_EXCL is left out, an existing mutex is made again.
ShmCreateAgain(c) ==
    /\ pc[c] = "start"
    /\ IF shm # None
       THEN /\ mapped' = [mapped EXCEPT ![c] = shm]
            /\ UNCHANGED <<shm, mutex>>
       ELSE /\ shm' = c
            /\ mutex' = [mutex EXCEPT ![c] = "empty"]
            /\ mapped' = [mapped EXCEPT ![c] = c]
    /\ Goto(c, "created")
    /\ UNCHANGED <<owner, misused, open, before, port, maps, queue>>

\* shm_open with O_EXCL makes an object of size 0 and refuses if there is one.
ShmCreate(c) ==
    /\ pc[c] = "start"
    /\ \/ shm # None /\ Ends(c)
       \/ /\ shm = None
          /\ shm' = c
          /\ mutex' = [mutex EXCEPT ![c] = "empty"]
          /\ mapped' = [mapped EXCEPT ![c] = c]
          /\ Goto(c, "created")
          /\ UNCHANGED <<owner, misused, open, before, port, maps, queue>>

\* ftruncate and mmap; if either fails the creator goes no further.
Sized(c) ==
    /\ pc[c] = "created"
    /\ Goto(c, "sized")
    /\ mutex' = [mutex EXCEPT ![mapped[c]] = "zeroed"]
    /\ UNCHANGED <<shm, owner, misused, resources>>

\* pthread_mutex_init writes the whole mutex: whoever held it no longer does.
MutexInit(c) ==
    /\ pc[c] = "sized"
    /\ Goto(c, "ready")
    /\ mutex' = [mutex EXCEPT ![mapped[c]] = "ready"]
    /\ owner' = [owner EXCEPT ![mapped[c]] = None]
    /\ UNCHANGED <<shm, misused, resources>>

UsersOf(o) == {u \in Users : mapped[u] = o}

\* pthread_mutex_destroy refuses a mutex that is locked; nobody looks at its answer.
MutexDestroy(c) ==
    /\ pc[c] = "ready"
    /\ Goto(c, "destroyed")
    /\ \/ owner[mapped[c]] = None /\ mutex' = [mutex EXCEPT ![mapped[c]] = "destroyed"]
       \/ (owner[mapped[c]] # None \/ mapped[c] \in misused) /\ UNCHANGED mutex
    /\ misused' = IF UsersOf(mapped[c]) = {} THEN misused ELSE misused \cup {mapped[c]}
    /\ UNCHANGED <<shm, owner, resources>>

ShmUnlink(c) ==
    /\ pc[c] = "destroyed"
    /\ Goto(c, "gone")
    /\ shm' = None
    /\ misused' = misused \cup {o \in {shm} \cap Objects : mutex[o] # "destroyed"}
    /\ mapped' = [mapped EXCEPT ![c] = None]
    /\ UNCHANGED <<mutex, owner, open, before, port, maps, queue>>

-----------------------------------------------------------------------------
(* linux_init in two actions: up to the mutex and after it, because nobody *)
(* else sees the steps within them.  Every failure that does not end the   *)
(* process goes to ERROR: the events are freed and, with an interrupt pin, *)
(* the pin's descriptor is closed, which before gpio_init is the 0 of the  *)
(* zeroed port.                                                            *)

Freed(u) == IF queue[u] = "none" THEN "none" ELSE "freed"

\* What the calls of one port see of each other: its fields and what is open.
Held(u) == [port |-> port[u], open |-> open[u]]

\* Whatever is opened gets the lowest descriptor that is free, if one is.
IsFree(h) == Descriptors \ h.open # {}
Opened(h, field) ==
    [port |-> [h.port EXCEPT ![field] = NewDescriptor(h.open)],
     open |-> h.open \cup {NewDescriptor(h.open)}]

linux_i2c_open(h) == Opened(h, "bus")
linux_i2c_close(h) == [h EXCEPT !.open = @ \ {h.port.bus}]
gpio_init(h) == [h EXCEPT !.port.interrupt_gpio = Closed]
gpio_open(h) == Opened(h, "interrupt_gpio")
gpio_close(h) == [h EXCEPT !.open = @ \ {h.port.interrupt_gpio}]

\* gpio_export, gpio_set_direction and gpio_set_interrupt_edge close what they open.
GpioExported(h) == h

\* The pin is closed only if the port uses it.
PinClosed(h) == IF UseInterrupt THEN gpio_close(h) ELSE h

Becomes(u, h) ==
    /\ port' = [port EXCEPT ![u] = h.port]
    /\ open' = [open EXCEPT ![u] = h.open]

\* h is what the port holds when it fails.
InitError(u, h) ==
    /\ Goto(u, "failed")
    /\ Becomes(u, PinClosed(h))
    /\ queue' = [queue EXCEPT ![u] = Freed(u)]

\* evq_init, shm_open, mmap.
OpenMutex(u) ==
    /\ pc[u] = "new"
    /\ \/ /\ InitError(u, Held(u))
          /\ UNCHANGED <<objects, mapped, before, maps>>
       \/ (shm = None \/ ~IsFree(Held(u)) \/ maps[u] >= MaxMaps) /\ Ends(u)
       \/ /\ shm # None /\ IsFree(Held(u)) /\ maps[u] < MaxMaps
          /\ Goto(u, "devices")
          /\ Becomes(u, Opened(Held(u), "des_mutex"))
          /\ mapped' = [mapped EXCEPT ![u] = shm]
          /\ maps' = [maps EXCEPT ![u] = @ + 1]
          /\ queue' = [queue EXCEPT ![u] = "allocated"]
          /\ misused' = IF mutex[shm] = "ready" THEN misused ELSE misused \cup {shm}
          /\ UNCHANGED <<shm, mutex, owner, before>>

\* linux_i2c_open, whose ioctl leaves the descriptor open when it fails; with an
\* interrupt pin its set-up, which can fail before or after the last step opens it;
\* pthread_create (what its failure leaves running is in LinuxPort).
OpenDevices(u) ==
    LET onBus  == linux_i2c_open(Held(u))
        unpinned == GpioExported(gpio_init(onBus))
        onPin  == IF UseInterrupt THEN gpio_open(unpinned) ELSE onBus
    IN  /\ pc[u] = "devices"
        /\ \/ InitError(u, [Held(u) EXCEPT !.port.bus = Closed])
           \/ /\ IsFree(Held(u))
              /\ \/ InitError(u, onBus)
                 \/ UseInterrupt /\ InitError(u, unpinned)
                 \/ /\ UseInterrupt => IsFree(unpinned)
                    /\ \/ InitError(u, onPin)
                       \/ /\ Goto(u, "idle")
                          /\ Becomes(u, onPin)
                          /\ UNCHANGED queue
        /\ UNCHANGED <<objects, mapped, before, maps>>

-----------------------------------------------------------------------------
(* sensor_heartbeat_enable and sensor_heartbeat_disable, which ask only    *)
(* for a port, not for an open one, and may run beside a transfer of the   *)
(* sensor thread.  Enabling a timer that is running, and enabling one      *)
(* without a free descriptor, returns -1 and changes nothing.              *)

IsRunning(u) == port[u].heartbeat # Closed

HeartbeatStart(u) ==
    /\ u \in HeartbeatUsers
    /\ pc[u] \in {"new", "idle", "lock", "transfer", "failed"}
    /\ ~IsRunning(u) /\ IsFree(Held(u))
    /\ Becomes(u, Opened(Held(u), "heartbeat"))
    /\ UNCHANGED <<pc, objects, mapped, before, maps, queue>>

HeartbeatStop(u) ==
    /\ u \in HeartbeatUsers
    /\ pc[u] \in {"new", "idle", "lock", "transfer", "failed"}
    /\ IsRunning(u)
    /\ Becomes(u, [port |-> [port[u] EXCEPT !.heartbeat = Closed],
                   open |-> open[u] \ {port[u].heartbeat}])
    /\ UNCHANGED <<pc, objects, mapped, before, maps, queue>>

-----------------------------------------------------------------------------
(* port_comm_read, port_comm_write and the indirect ones: the mutex around *)
(* the transfer.  The answer of pthread_mutex_lock is not looked at.       *)

WantBus(u) ==
    /\ pc[u] = "idle"
    /\ Goto(u, "lock")
    /\ UNCHANGED <<objects, resources>>

\* An object of size 0 has no memory: SIGBUS.  A zeroed mutex works as one; one that
\* was destroyed answers EINVAL.
Lock(u) ==
    /\ pc[u] = "lock"
    /\ \/ mutex[mapped[u]] = "empty" /\ Ends(u)
       \/ /\ mutex[mapped[u]] \in {"zeroed", "ready"}
          /\ owner[mapped[u]] = None
          /\ owner' = [owner EXCEPT ![mapped[u]] = u]
          /\ Goto(u, "transfer")
          /\ UNCHANGED <<shm, mutex, misused, resources>>
       \/ /\ mutex[mapped[u]] = "destroyed"
          /\ Goto(u, "transfer")
          /\ UNCHANGED <<objects, resources>>

\* Mutant: a transfer that fails returns without unlocking.
UnlockUnlessFailed(u) ==
    /\ pc[u] = "transfer"
    /\ Goto(u, "idle")
    /\ owner' \in {owner, [owner EXCEPT ![mapped[u]] = None]}
    /\ UNCHANGED <<shm, mutex, misused, resources>>

\* pthread_mutex_unlock does not ask who holds the mutex.
Unlock(u) ==
    /\ pc[u] = "transfer"
    /\ Goto(u, "idle")
    /\ owner' = IF mutex[mapped[u]] = "destroyed" THEN owner
                ELSE [owner EXCEPT ![mapped[u]] = None]
    /\ UNCHANGED <<shm, mutex, misused, resources>>

-----------------------------------------------------------------------------
(* linux_deinit, by sensor_close.                                          *)

\* Mutant: the descriptor of the mutex stays open.
DeinitKeepsMutex(u) ==
    /\ open' = [open EXCEPT ![u] = @ \ {port[u].bus, port[u].interrupt_gpio}]
    /\ queue' = [queue EXCEPT ![u] = Freed(u)]
    /\ mapped' = [mapped EXCEPT ![u] = None]
    /\ Goto(u, "closed")
    /\ Loses(u)
    /\ UNCHANGED <<shm, mutex, misused, before, port, maps>>

\* The threads are gone; the bus and the pin are closed, munmap is given the address
\* of the pointer and unmaps nothing, the mutex's descriptor is closed, the events
\* are freed.  Nobody stops the heartbeat: a timer that is running stays open, and its
\* descriptor is lost with the port.
Deinit(u) ==
    /\ open' = [open EXCEPT ![u] =
                   PinClosed(linux_i2c_close(Held(u))).open \ {port[u].des_mutex}]
    /\ queue' = [queue EXCEPT ![u] = Freed(u)]
    /\ mapped' = [mapped EXCEPT ![u] = None]
    /\ Goto(u, "closed")
    /\ Loses(u)
    /\ UNCHANGED <<shm, mutex, misused, before, port, maps>>

\* A sensor thread in a transfer is cancelled there and keeps the mutex (LinuxPort);
\* one that waits for the mutex is not cancelled.  After a failed sensor_open the
\* events may be freed a second time, which the C library ends the process for.
CloseSensor(u) ==
    /\ pc[u] \in {"idle", "transfer", "failed"}
    /\ IF queue[u] = "freed" THEN Ends(u) ELSE Deinit(u)

\* A new port in the same process (get_platform).
NewPort(u) ==
    /\ pc[u] = "closed"
    /\ Goto(u, "new")
    /\ port' = [port EXCEPT ![u] = ZeroedPort]
    /\ queue' = [queue EXCEPT ![u] = "none"]
    /\ before' = [before EXCEPT ![u] = open[u]]
    /\ UNCHANGED <<objects, mapped, open, maps>>

-----------------------------------------------------------------------------
Creator(c) == ShmCreate(c) \/ Sized(c) \/ MutexInit(c) \/ MutexDestroy(c) \/ ShmUnlink(c)

OpenSensor(u) == OpenMutex(u) \/ OpenDevices(u)

Heartbeat(u) == HeartbeatStart(u) \/ HeartbeatStop(u)

Next ==
    \/ \E c \in Creators : Creator(c)
    \/ \E u \in Users : OpenSensor(u) \/ WantBus(u) \/ Lock(u) \/ Unlock(u)
                        \/ Heartbeat(u) \/ CloseSensor(u) \/ NewPort(u) \/ Killed(u)

\* A transfer ends, and a mutex that is free again and again is got.
Spec == Init /\ [][Next]_vars
             /\ \A u \in Users : WF_vars(Unlock(u))
                                 /\ SF_vars(Lock(u))

-----------------------------------------------------------------------------
\* "The shared mutex will help ensure only one process will use the i2c bus"
\* (port_linux.c:174): two processes are in a transfer at once only if a mutex was
\* opened before it was initialised, or destroyed or unlinked while in use; killing
\* processes, failed opens and making the mutex anew do not break it.
OneOnBus ==
    \A u, v \in Users :
        u # v /\ pc[u] = "transfer" /\ pc[v] = "transfer"
        => {mapped[u], mapped[v]} \cap misused # {}

\* A process that waits for the mutex gets it, unless a process ended or was
\* cancelled in a transfer while it held it, or the mutex was misused.
WaiterIsServed ==
    \A u \in Users :
        pc[u] = "lock" ~> \/ pc[u] # "lock"
                          \/ Lost \in {owner[o] : o \in Objects}
                          \/ misused # {}

\* The descriptor of the heartbeat timer, if it is running.
Timer(u) == {port[u].heartbeat} \ {Closed}

\* sensor_close of an opened sensor leaves the descriptors there were.
ReturnedOnClose(u) ==
    pc[u] = "closed" /\ queue[u] = "freed" => open[u] = before[u] \cup Timer(u)

\* The port has closed no descriptor of others but the standard input, and each one
\* that was opened since is still in a field of the port.
Accounted(u) ==
    pc[u] # "gone" =>
        /\ before[u] \ open[u] \subseteq {Stdin}
        /\ open[u] \ before[u] \subseteq {port[u][f] : f \in DOMAIN ZeroedPort}

\* sensor_close of a sensor that was opened leaves the process the descriptors it had
\* when it got the port, and the one of a heartbeat that was not stopped, which the
\* code leaves open; no more and no fewer, however often sensors are opened, closed and
\* their heartbeats enabled.  At any other time, a failed linux_init and a sensor_close
\* after it included, nothing of others was closed but the standard input, and nothing
\* that was opened is lost.
DescriptorsReturned == \A u \in Users : ReturnedOnClose(u) /\ Accounted(u)
=============================================================================
