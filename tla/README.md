# Verification of the Smart Sensor SDK in TLA+

The SDK (`src/core`) reads, configures and watches Omega smart sensors over I2C
or Modbus. It runs on a *port* (`src/port`), of which the Linux one has the
threads, the locks and the shared memory. This directory holds models of the
parts in which order matters, TLC configurations that check them on small
instances, and proofs for instances of any size. `PROJECT.json` names, for every
definition, the lines it models.

## The system

| Component | State | Operations | Interaction | Modelled in |
|---|---|---|---|---|
| Event queue, `linux_event.c` | ring, read and write index | `evq_put`, `evq_get` | inside `port_event_put`/`_get` | `EventQueue`, `BoundedFifo` |
| Linux port, `port_linux.c`, `linux_timer.c`, `linux_gpio.c` | two threads, `platform_exit`, `evq_lock`, `evq_cond`, timer, `g_poll_data`, descriptors | init, deinit, the thread loops, event put and get, heartbeat start and stop | kernel: timerfd, GPIO edge, poll; core: `sensor_poll_event`; application: callback | `LinuxPort`, `PortSetup` |
| Shared mutex, `port_linux.c` | shared memory objects with a mutex, one of which has the name | create, destroy, open, lock, unlock, close | between processes | `PortSetup` |
| Attach detection, `smartsensor_private.c` | `sensor_attached`, `heartbeat_misses`, `stat_attach_counter` | `sensor_poll_event`, `sensor_close` | reads registers of the probe, returns events | `ProbeAttach` |
| Register access, `smartsensor_private.c`, `port_linux.c` | `bus_lock`, caller's buffer; in the probe: registers, access register | `sensor_indexed_read`, `_write`, `sensor_bootstrap_write` | clients of all processes share the lock, the probe has one access register | `SharedBus`, `AtomicRegisters`, `RegisterAccess` |
| Transfers, `linux_i2c.c`, `linux_modbus.c` | none | open, close, read, write | below register access | `RegisterAccess`, `PortSetup` |
| Register table, `registers.c` and its headers | constant | look-up | addresses and sizes for register access | `Registers` |
| Configuration, `smartsensor.c` | in the probe | getters, setters, resets, control bits, presets | sequences of register accesses | `Configuration`, `DataLog` |
| Data log, `datalog.c` | in the probe | search, extract, next, erase, count | sequences of register accesses while the probe logs | `DataLog` |
| Function blocks and alarms, `function_block.c`, `alarm.c` | linked list of blocks with their words; program in the probe | set fields, number, chain, terminate, commit, erase, read back | sequences of register accesses | `FunctionBlocks` |
| Contiki, FreeRTOS, STM32, LRWAN1 ports | event queue of the system | event put and get | written for an earlier core | not modelled |
| Legacy library `lib/` | timer table, mutex pool | start, stop, lock | not used by `core` | not modelled |
| Error names, logging, examples, tests | none | | | not modelled |

A port turns two sources into events: the heartbeat timer and the probe's data
interrupt pin. On Linux the *platform thread* polls both and queues an event;
the *sensor thread* (or, without a callback, the application) takes it, and
`sensor_poll_event` reads registers of the probe over a bus that all processes
share, to decide whether the probe is attached. What is hard in it: three
threads and two locks, cancellation of threads on closing, descriptors chosen
before an unlimited `poll`, queued events that are stale when they are handled,
two transactions for one register, transfers that fail after they had their
effect, probes that restart and processes that die.

What makes each component correct:

- the queue delivers what it accepted, in order, and refuses only when it is full;
- no wakeup is lost, edges and expirations reach the queue, the queue outlives
  its users, callbacks stop, closing returns and gives every lock back;
- attach and detach events alternate, are justified by what the bus answered and
  arrive in time;
- a register access acts on the register it names, atomically, and returns;
- an index, a size and a bus lead to the bytes of the register that was named, and
  every byte ends at its place;
- only one process is on the bus, whoever creates and destroys the mutex, and
  closing gives back what opening took, but for a heartbeat that runs;
- a function of several accesses that returns `E_OK` did all of them, changes no
  bits but its own, and a record it returns is one record;
- a program of function blocks keeps its order and its numbers, and a commit that
  returns `E_OK` has written all of it as it was set up.

## Modules

- **`BoundedFifo`** is the promise of an event queue: `Put` and `Get` on a
  sequence of at most `Capacity` elements, with the answer of each call.
- **`EventQueue`** is the ring of `linux_event.c`. `evq_is_full` keeps one slot
  unused, so a ring of `Size` slots implements a `BoundedFifo` of `Size - 1`.
  The mapping (`Contents`) is the slots from `read` to `write`.
- **`LinuxPort`** is one sensor on Linux with its three threads; `pc[t]` says
  where thread `t` is. An action is what a thread does between two points at
  which another thread or the kernel can be seen: taking a mutex, waiting, poll,
  read. What happens under a mutex is one action. `poll` is split into its
  beginning, which fixes the timer object it waits on (`timer`), and its return;
  a timer stopped meanwhile is `closed`, and one stopped and started again leaves
  a read blocked on the new one (`reading`). `cancelled` holds the pending
  cancellations; the `Cancel` actions are the cancellation points of the code.
  Transfers only take time here. The queue is the sequence that `EventQueue` is
  proved to implement; its capacity is a constant. When `port_event_get` finds
  `platform_exit` set on entry, the code returns an unassigned value and leaves
  the event unassigned: the model lets both be anything.
- **`ProbeAttach`** is `sensor_poll_event`: each register read is an action, so
  that the probe can come, go and restart between the two reads of a data
  interrupt. `failures` and `absentBeats` are history variables that count what
  the code does not count, to compare with what it does.
- **`AtomicRegisters`** is the promise of register access to any number of
  clients: one effect on the named register between call and return, and an
  unknown one if an error is returned. A restart of the probe changes its registers
  and may lead astray calls that have not acted; these still act at most once, but on
  any register, and no call that begins later is touched.
- **`SharedBus`** is how the code does it over I2C: lock, selection of an
  indirect register, transfer, unlock, and after most writes a read of the status
  under the lock once more. Each transaction is an action, may fail, and a failed
  write or selection may have arrived all the same. Clients can be killed
  anywhere, which leaves the mutex locked; the probe can restart anywhere, which
  changes its registers and moves its access register; a transfer whose address was
  sent before is then `disturbed`. A client is a thread, not a sensor object, because
  the mutex is the same for all of them. The mapping to `AtomicRegisters` reverses
  the probe's big endian registers; `acted` marks the effect of a call.
- **`Registers`** is the table: `_def` with one family of entries per definition,
  each entry with its two addresses, instances, gap, access flags and size, and
  the address constants of `registers_i2c.h`, from which most of the table is
  made. The enumerators of `registers.h` that have no entry are `Unlisted`.
  `SizeRefused` is the check of the size every access begins with.
- **`RegisterAccess`** is one call with any entry, index and size on either bus.
  Where `SharedBus` asks which client may use the bus, it asks which bytes a call
  reaches: `Address`, `WindowOf` and `Select` are the computation and the access
  window; `I2cRead`, `I2cWrite`, `ModbusRead` and `ModbusWrite` are the loops of
  the drivers as a mapping (`moved`) from the places of the buffer to the bytes
  of the register, or for a write the other way round, so that a lost, repeated or
  misplaced byte shows. Any transaction may fail. `WritesStayInside` is about every
  register, also those without the flag `WR`, which the code does not look at and the
  library itself writes (`set_current_time`, `set_device_name`). It excepts what has
  no address on the bus (`Unaddressed`), what overlaps on purpose (`Overlapping`:
  the extension space, the unit in a descriptor, the boot loader), and names that
  share bytes (`Sharing`): fields of one register under two names, lists of which
  entries name the whole or a part, and the device name, whose 32 bytes run over the
  outputs.
- **`Configuration`** gives every function of `smartsensor.c` (and the ones of
  `function_block.c` and `alarm.c` that make one access) as a record of steps, an
  access each. `RegisterAccess` checks that the table accepts all of them but
  `preset_config`, and `DataLog` executes them.
- **`DataLog`** has clients that execute the functions of `datalog.c` and
  `Configuration` step by step against one probe, which logs records meanwhile.
  An access is atomic, as `SharedBus` shows; between two accesses come those of
  other clients, new records and failures. A refused size is an early return like
  a failure. A search and an erasure take their range from the caller's variables
  (`var`), which a write reverses and a search that succeeds reverses back.
  `dirty` is the history of what other clients wrote during a call, `asked` the
  range the caller meant, `inRange` the records that were in it. The firmware is
  external: what `EXTRACT`, `EXTRACT_NEXT` and `CLEAR_LOG` do is taken from how
  `datalog.c` uses them.
- **`PortSetup`** is the life of the shared mutex and of one port in each process:
  `ShmCreate` to `ShmUnlink` are `create_shared_mutex` and `destroy_shared_mutex`
  call by call, `OpenMutex` and `OpenDevices` are `linux_init`, with every point at
  which it can fail, `HeartbeatStart` and `HeartbeatStop` are the timer with its
  descriptor, and `Deinit` is `linux_deinit`. Because `shm_unlink` takes
  only the name, there are several objects, one for each creator, with its own mutex. Descriptors
  are numbers of which the system gives the lowest free one, as long as there are any
  (`MaxDescriptors`), so that closing the wrong one shows and one that is kept is
  missed. Processes are killed anywhere; a mutex held then is `Lost`.
  `misused` is the history of objects that were opened before they were
  initialised, destroyed in use or unlinked undestroyed.
- **`FunctionBlocks`** is the list an application builds and commits. `next`,
  `block_idx` and `block_data` are the fields of the blocks; each iteration of a
  loop over the list is an action, so that a loop that does not end shows. A word
  is four bytes; `W1` and `W2` are the bit fields of an alarm, and `Put` assigns
  one as C does, keeping the bits that fit. An alarm is a block with a second one,
  linked to it before it is appended. A write reverses the word in the block
  itself. `list`, `first`, `meant`, `settings` and `commits` are histories to
  compare with. `fb_program_write` is one step that may fail before or after its
  effect; `SharedBus` says what happens inside it.
- **`MCSharedBus`**, **`MCDataLog`** and **`MCFunctionBlocks`** give `SharedBus`,
  `DataLog` and `FunctionBlocks` their values for TLC.
- **`EventQueue_proofs`**, **`LinuxPort_proofs`**, **`ProbeAttach_proofs`**,
  **`SharedBus_proofs`**, **`PortSetup_proofs`**, **`FunctionBlocks_proofs`**,
  **`DataLog_proofs`**, **`RegisterAccess_proofs`** hold the theorems.

## Runs

| Run | Instance | Shows |
|---|---|---|
| `EventQueue` | 4 slots, 2 events | `ImplementsFifo`: the ring is a FIFO; full and empty occur at every position of the indexes |
| `LinuxPort` | interrupt pin, with and without callback, 2 queued events | `NoLostWakeup`, `QueueOutlivesThreads`, `CallbacksStop` with all threads, every order of closing, failing opening; under fairness `EdgeReachesPut`, `QueuedIsHandled`, `PolledHeartbeatIsPut`, `PolledCloseReturns` |
| `LinuxPortCloseHangs` | the same, 1 queued event | **violated**: `CloseReturns` |
| `ProbeAttach` | `HEARTBEAT_MAX_MISS` 1, counters that wrap after 4 and 3, 3 transient faults | `ReportsAgree`, `DetachEarned`, `AbsenceNoticed`; under fairness `DetachFollows`, `AttachFollows` |
| `ProbeAttachClose` | the same | **violated**: `ReportsBalanceAfterClose` |
| `SharedBus` | 2 clients, 1 direct and 2 indirect registers, 1 restart, 1 crash | `HitsTheNamedRegister`, `OnlyOneOnBus`, `ImplementsAtomicRegisters` |
| `SharedBusReturns` | no restart, no crash | under fairness `CallsReturn` |
| `FunctionBlocks` | two alarms, a block and the end marker, 2 settings, 1 commit, 4 places in the probe, numbers that wrap after 5, 1 failed write | `LinkedInOrder`, `NumberedInOrder`, `FirstCommitWritesProgram`; under fairness `OtherCallsReturn` |
| `FunctionBlocksRecommit` | the same, 1 setting, 2 commits | **violated**: `CommitWritesProgram` |
| `RegisterAccess` | every entry, index and bus, the size, its neighbours and what functions offer | `IndexReachesNumbered`, `WritesStayInside`, `StaysInWindow`, `TransferIsWhole`, `FunctionsAreAccepted` |
| `DataLog` | 2 clients with one call each, 3 records, 2 channels, 1 failure | `SuccessMeansDone`, `RecordIsWhole`, `CountsTheRange`, `OnlyOwnBits`, `AskedRangeIsUsed` |
| `PortSetup` | 2 users with an interrupt pin, one with a heartbeat, 2 creators, 5 descriptors and 1 mapping a process | `OneOnBus`, `DescriptorsReturned`; under fairness `WaiterIsServed` |

Bounds. The ring needs more slots than the difference between full and empty
to wrap in all positions; four do. The port's queue needs to be empty, partly
filled and full: two places. Two
clients suffice to disturb each other, two indirect registers to be mixed up; one
of them is a byte register, which is not reversed. `MaxFaults`, `MaxRestarts` and
`MaxCrashes` bound the environment; `HEARTBEAT_MAX_MISS + 1` faults in a row are
possible within the bound, so that a present probe can be detached as well. In
`ProbeAttach` the width of the counters is reduced so that they wrap: `TypeOK`
and the alternation hold across the wrap. In `FunctionBlocks` an alarm, a block
and the end marker fill the program exactly from index 0; from index 3 the second
block is too long and the third wraps. Two settings are needed for one to disturb
the other; the values are the largest of their fields. `RegisterAccess` has no
bounds but the sizes: the one of the entry, one more and one less are the classes
the code tells apart; what the functions of `smartsensor.c` pass comes with them, so
that the four bytes of `preset_config` for a register of two are among the calls. In
`DataLog` a disturbance takes two calls, a repeated search one failure; the records
before, in and after the range and the one that is logged meanwhile are told apart by
three times. In `PortSetup` two creators make the mutex again after it was destroyed.
Each user maps the mutex once, and a second opening fails or ends the process before
that: for the mutex, a process that opens again is like another process, and the
descriptors over any number of openings are left to the theorems. Five descriptors
are what the standard input and a port with a heartbeat fill. One user has a
heartbeat, because a port knows nothing of another process's descriptors.
The theorems remove the bounds of the modules they are
about.

Deadlock is not checked where the system may stop for good: a closed port, a
closed sensor, a bus whose lock a killed process holds, processes that have all
ended, and clients that have made their calls.

### Fairness

Of the port: a started thread goes on, transfers and callbacks end, a running
timer expires, and a thread that waits for a mutex which is free again and again
gets it (strong fairness on `PutLock`, `GetLock`, `BusLock`; pthreads give no
order, but do not starve a waiter for ever). Nothing is assumed of the application,
of edges, signals and spurious wakeups. Of attach detection: heartbeats and
interrupts keep being delivered while the sensor is open, which is what the
timer is for and what a probe with data-ready interrupts does. Of the bus: a call
that began goes on, the mutex is fair in the same sense; killed clients are left
out, since a mutex that is not robust gives no progress after a crash. Of function
blocks: a loop goes on; nothing makes the application call anything. Of the shared
mutex: a transfer ends unless its process does, and a mutex that is free again
and again is got (`SF` on `Lock`); nobody has to open, close, create or destroy.

### Disagreements found

- **Closing with a callback may hang** (`LinuxPortCloseHangs`). `linux_deinit`
  cancels the sensor thread, which usually sleeps in `pthread_cond_wait`. The
  thread takes `evq_lock` back and ends without unlocking it. If the
  platform thread is about to queue an event it blocks in `pthread_mutex_lock`,
  which is not a cancellation point, and joining it does not return. Without a
  callback closing returns (`PolledCloseReturns`).
- **A second commit writes other data** (`FunctionBlocksRecommit`). A write
  reverses the caller's buffer, which for `fb_commit` is the block itself; a commit
  that is repeated, also after a failure, sends such blocks in the other byte order.
- **Closing an attached sensor reports no detach** (`ProbeAttachClose`).
  `sensor_close` only closes the port; `tests/test_probe_attach.c` expects as many
  detach as attach events afterwards.

The following are seen in the models, where the properties name and exclude them:

- *A heartbeat may never be watched.* The descriptors are chosen before a poll
  without time limit. With Modbus or without an interrupt pin the set is empty when
  the port opens; `sensor_heartbeat_enable` later has no effect.
  `PolledHeartbeatIsPut` is about what poll does watch.
- *The shared mutex may stay locked*, when the cancelled sensor thread is in a
  transfer: libmodbus reads and writes, and the error path of `linux_i2c_read`
  prints; these are cancellation points. The same holds for a process that is
  killed; `WaiterIsServed` excludes a `Lost` mutex.
- *Appending an alarm does not return.* The loop of `fb_chain` that renumbers what
  follows the appended block never moves its pointer. `fb_terminate` and single
  blocks are not affected (`OtherCallsReturn`).
- *Two modes of an alarm are truncated.* `ALARM_HI_LO` and `ALARM_BAND` are 0x10 and
  0x11, the field has two bits: the alarm gets `ALARM_HI` and `ALARM_LO`.
  `fb_alarm_enable` keeps one bit as well, so 2 disables. `FirstCommitWritesProgram`
  is about settings that have room (`HaveRoom`).
- *A buffer that is too large is refused*, like one that is too small, while
  `smartsensor.h` asks for one that is large enough. `preset_config` offers four bytes
  to the two of `INTERRUPT_CONTROL` and never succeeds: it returns
  `E_BUFFER_MEM_SIZE` and has written only `EVENT_0_TIME_BASE`
  (`tests/clock_stretch.c` ignores the answer). `FunctionsAreAccepted`, whose calls
  have those four bytes among their sizes, excepts it and no other function.
- *A buffer that is too small is accepted* for a register of bytes, although a read
  fetches the whole register into it and `smartsensor.h` says that it is refused.
- *The unit of sensor 1 is read from elsewhere.* The entry of the units has four
  instances and no gap, but the units lie 8 bytes apart, inside the descriptors: index
  1 reads the descriptor's other half (`UnitRegister`, in `Overlapping`).
- *`wait_for_device_ready` returns `E_OK`* when the probe did not become ready.
- *A failed search leaves its variables reversed.* Start and end are reversed by
  the writes and only reversed back by the reads at the end; a repetition with the
  same variables searches another range (`retried` in `AskedRangeIsUsed`).
- *Long transfers.* On I2C a read of more than 32 bytes fetches the first block into
  the same place again and returns `E_OK` if the size is a multiple of 32; a write
  sends 32. On Modbus the loops that swap the bytes of words stop at half the size,
  so of 6 and more bytes some keep the wrong order. `TransferIsWhole` claims the
  sizes up to `WholeSize`.
- *Flags of the table.* `PARAM_NAME` lacks the one for bytes and is reversed as a
  number; `DEVICE_NAME` may only be read according to its entry, and the code writes
  it, since nobody checks that flag.
- *The device name runs over the outputs.* Its 32 bytes begin 16 before them, on
  both buses: `set_device_name` writes, and a read returns, what the table says are
  outputs. `WritesStayInside` names the pair in `Sharing`.
- *The status read after a write* uses the I2C address of the status on Modbus too.
- *Entries that are not there.* `registers_integrity.c` expects a size other than
  zero of every enumerator; those in `Unlisted` have none.
- *Opening that fails.* Before `gpio_init` the zeroed field of the pin is 0, so the
  error path closes the standard input; the mutex's descriptor and mapping, the bus
  and a started thread stay; `sensor_close` after it frees the queue again
  (`CloseSensor`). `DescriptorsReturned` excepts the
  standard input.
- *An enabled heartbeat leaves its descriptor open.* `linux_deinit` does not stop the
  timer and frees the port that knows its descriptor: `DescriptorsReturned` says so
  (`Timer`).
- *A mapping stays behind* each time a sensor is closed, since `munmap` is given the
  address of the pointer; a process that may map no more ends in `linux_init` (`maps`).
- *The name of the mutex stays behind* when its creator is killed, and `O_EXCL` then
  refuses to make it again; a process that opens it before it has its size gets
  `SIGBUS` when it locks.

## Proofs

All theorems hold for every value of the constants that satisfies the module's
assumption: any ring size, queue capacity, option of the port,
`HEARTBEAT_MAX_MISS`, width of the counters, set of clients, registers and values,
set of processes that use or create the mutex, blocks and alarms with their settings,
size of a program, functions of the library with any arguments, ranges of times, number
of sensors, size of a block of the I2C driver and of the Modbus buffer, and any
number of calls, failures, restarts and openings, since the bounds of the runs are
constants too.

The assumptions say what a C program has without saying so. A client, a process or a
block is none of the values that stand for its absence. The blocks of an alarm are its
own, and an alarm's second block is neither the first block nor the end marker
(`BlockAssumption`); a number has more values than the program has places, as the
byte and 128 have. A word is not `NULL` (`NoWordAssumption`). The clients of the data
log call functions of the library (`LibraryAssumption`), and the times of records lie
between the two that ask for the first and the last. A block of the I2C driver holds at
least one byte and at most the 255 that its 8-bit length can say (`AccessAssumption`).

- **`EventQueue_proofs`**. `TypeCorrect`; then `RingIsFifo`: initial states map
  to the empty sequence, and each call maps to a call of `BoundedFifo` with the
  same answer. It rests on lemmas that say how `Used`, `SlotOf` and `Contents`
  change when an index moves, across the wrap.
- **`LinuxPort_proofs`**. `NoLostWakeup` is not inductive: a step of
  `port_event_put` keeps it only because it puts an event at all (`PutsAnEvent`).
  `QueueOutlivesThreads` needs where the threads can be for every place of the
  application in opening and closing (`Phases`: a thread that was joined is dead,
  one that was not started is off, and so on), and `CallbacksStop` needs that
  after `platform_exit` a sensor thread with one late callback can only end
  (`LastCallback`). The inductive invariant `IInv` is their conjunction with
  `TypeOK` and `NoLostWakeup`; each lemma has one step per action.
- **`ProbeAttach_proofs`**. The invariants need each other and the relation
  between the miss counter and the two histories: an attach clears both, so that
  while attached the misses are the failures, and absent heartbeats do not
  exceed the misses. `MissModulus > HEARTBEAT_MAX_MISS + 1` keeps the counter
  from wrapping while attached.
- **`SharedBus_proofs`**. Whoever is between lock and unlock holds the lock;
  from that `OnlyOneOnBus`, and with the selection `HitsTheNamedRegister`. For
  `AccessIsAtomic` each action maps to `Begin`, `Act`, `Fail`, `Return`, `Restart` or a
  stutter, and a transfer whose address a restart has lost to `ActAstray`; it uses that
  reversing twice changes nothing, that a call acts once (`ActedOnce`), and that only
  calls between their two transactions are ever `disturbed` (`DisturbedInTransfer`),
  so that none of them is in its answer.
- **`PortSetup_proofs`**. `OneOnBus` is about misused mutexes, so its invariant is
  about the others: what a user has mapped and nobody misused is the object that has
  the name, and it is initialised (`Mapping`); whoever is in a transfer owns what it
  has mapped (`Holding`). Then all lock the same mutex, which has one owner. That a
  creator works on its own object, which nobody has mapped before (`Making`), keeps
  `pthread_mutex_init` from taking the mutex from an owner, and that an opened port
  has mapped something (`Opening`) gives `Lock` a mutex. A step of a creator is one
  lemma, as is each kind of step of a user; the failures of `linux_init` change
  nothing of the mutex (`GoingOnKeeps`), the ends of a port or a process only lose
  what was held (`LosingKeeps`).
  A second invariant, `UserInv` of each user, stands beside it and does not mention
  the mutex. `Kept` says that what is open in the process is what was open when
  it got its port, the standard input aside, and what fields of the port hold (`Owns`,
  with the set of the fields filled so far), none of which was open before; which
  fields are filled depends on where the user is, and those that are not are as
  `get_platform` left them (`Unopened`). `DescriptorsReturned` alone is not
  inductive: of a port that is open it does not say which fields are filled, which is
  what closing needs. That the
  lowest free descriptor is none that is open (`NewDescriptorIsFree`, by the least
  number principle of the library) keeps the fields different.
- **`FunctionBlocks_proofs`**. `IInv` is `Shape`, `Unsent` and `Sending`. `Shape` says
  that the links follow `list` at every iteration of the loops (the loop that looks for
  the tail has one link missing), that the end marker and the second block of an
  alarm stand where they must, and how many blocks are numbered (`Pointer`); with
  it `ListKeepsOrder` and `ListKeepsNumbers`. `Unsent` says that before the first
  commit each word is the one that was meant, which needs that assigning a bit
  field leaves the other fields of the word (`Assigning`, `Putting`, and the layout of
  the two words). `Sending` says that in the first commit the blocks up to the pointer
  are in the program, and the others still as they were meant: a block is reversed by
  its own write only. From the three follows `FirstCommitIsComplete`.
- **`DataLog_proofs`**. What is left to do of a call is the end of its function
  (`Positioned`), so that every step of a call has a place. Of the functions, which are
  given as records of steps, the lemmas up to `Callables` say what kind of step is at
  which place, for every argument: a step that changes bits follows the one that reads
  them, no register is written twice, a record is read from its time stamp on.
  `IInv` then says of each client what holds at each place: the steps behind have
  had their effect (`Done`), the bits that were read are those of the register
  (`Fresh`), the range is in the variables and then in the registers (`Asking`), what
  was read is of one record (`Whole`), and what was counted, what is extracted and what
  is still to be found make up the range (`Counting`, with a set of records as
  witness, of which `cnt` is the cardinality). All of it holds as far as no other client
  came between (`dirty`); `OthersKeep` shows that a client that did is in `dirty`. The
  six properties follow, `OnlyOwnBits` and `AskedRangeIsUsed` as properties of steps.
- **`RegisterAccess_proofs`**. First the table: each entry has the flags of
  `registers.c`, and all its instances lie in what is directly addressable or in one
  window (`TablePlaced`, by families). From the checks at the beginning of a call its
  address does not wrap (`AddressOnI2c`), and the window chosen shows all of it
  (`WindowShows`), which is `AlwaysInWindow`. `AlwaysWhole` needs what the loops have
  moved at each step (`Moving`): nothing or everything before a read of one block is
  repeated, and what Modbus has swapped (`SwappedByte`). `AlwaysAccepted` sets the
  functions of the library beside the table: whatever a function offers is the size
  in `OwnSize` (`FunctionsOffer`), every entry of that name has this size (`TableFits`),
  and a call that was refused was refused for its size (`Refusing`, inductive by
  itself). `AlwaysReachesNumbered` shows of any two entries of one name that the second
  lies where the index that stands for it points to from the first (`DefFollow`):
  numbered registers are rows with the same distance on both buses (`RowFollows`), any
  other register has one entry or one instance (`OneFollows`), and no two families
  share a name (`FamiliesDistinct`). `AlwaysStaysInside` would compare every entry with
  every other; instead the families are put in the order of their addresses, which is
  the same on both buses (`Area`, with their borders in `Bound`). An entry, all its
  instances together, ends within its area (`AreaInside`), an accepted instance within
  its entry (`InstanceWithin`), so registers of two areas lie apart (`RegistersApart`).
  Within an area each entry lies in the section of its name, which the tables of each
  family (`ReadingTable`, `FactoryTable`, `BlockTable`, ...) give, and the sections of
  two names that share no bytes (`Unshared`) lie apart (`SectionsApart`), so that
  numbers are compared by name and not entry by entry. Gains and offsets alternate, so
  that their instances are compared, not the entries (`ScaleApart`).

Only model-checked: the liveness properties, which need fairness (and, for the loops of
function blocks, an induction on the list), and the violations. Every safety property
of the passing runs is a theorem.

## Assumptions and limits

- Memory is sequentially consistent; `platform_exit` is not atomic in the code,
  but a late view of it is a later step of the writer in the model.
- One sensor per process in `LinuxPort`; two sensors share the static
  `g_poll_data`, which is not modelled yet.
- A failed opening is followed by nothing: that `linux_init` frees the queue
  under a running platform thread is visible in the model (`OpenFails`), but
  `QueueOutlivesThreads` is not claimed for it.
- `SharedBus` has the I2C branch and leaves open which sizes and indexes are
  refused, which `RegisterAccess` has. A probe that
  restarts between selection and transfer makes the transfer reach another
  register; the code cannot tell. `HitsTheNamedRegister` excludes such a transfer
  (`disturbed`); `ImplementsAtomicRegisters` says how far the damage goes.
- The buffer a write leaves reversed is not reused by the clients of `SharedBus`;
  `FunctionBlocks` has a caller that does.
- An application appends to a program a block that is not on it, and nothing after
  the end marker.
- In `DataLog` a 32-bit number has two digits, so that its bytes can be exchanged;
  special records are told from the end of the log and from readings, but not from
  each other (`datalog.c` compares a float with the magic numbers of their kinds), and
  printing them is left out. `ENABLE_LOG_TRACKING`, with which the
  probe moves on by itself, is set by no function and left out.
- `PortSetup` has the I2C port; a Modbus port has no pin and one descriptor. The
  threads are in `LinuxPort`. `EINTR` repeats a call and is a stutter.
- What `create_shared_mutex` does after a failed `ftruncate` or `mmap` is to end the
  process, which is a creator that takes no further step.

### Not modelled

- The Contiki, FreeRTOS, STM32 and LRWAN1 ports: they implement functions that the
  core no longer calls (`port_platform_init`, `hard_intr_triggered`), so there is no
  program to model; what they call is not in the repository.
- The library under `lib/`: nothing in `core` or `port` uses it.
- Two ports of one process over the static `g_poll_data`; delays; `gpio_unexport` and
  `i2c_set_index`, which nothing calls.
- Texts, dates, error names, logging; examples and tests.

## Plan

`PollTable`, two ports over one static table; `PortAndProbe`, `LinuxPort` with
`ProbeAttach`, from an unplugged probe to the callback.
