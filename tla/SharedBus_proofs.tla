------------------------- MODULE SharedBus_proofs -------------------------
(***************************************************************************)
(* Indirect register accesses never hit another client's register, and the *)
(* bus has one user at a time, and the calls act on the registers like     *)
(* atomic ones, for any number of clients, registers and values, whichever *)
(* transactions fail, whichever clients are killed and however often the   *)
(* probe restarts.                                                         *)
(***************************************************************************)
EXTENDS SharedBus, TLAPS

Locked == {"select", "transfer", "unlock", "status_read"}

\* Whoever is between lock and unlock holds the mutex.  A killed client is not
\* there any more but may still hold it: then nobody is.
HoldsTheLock == \A c \in Clients : pc[c] \in Locked => bus_lock = c

\* Once its address was sent the access register points at the client's register.
AccessSelected ==
    \A c \in Clients \ disturbed :
        pc[c] = "transfer" /\ call[c].reg \in Indirect => access = call[c].reg

\* Only an indirect access sends an address.
SelectIsIndirect ==
    \A c \in Clients : pc[c] = "select" => call[c].reg \in Indirect

\* A client in a call has a value in its buffer.
BufferFilled == \A c \in Clients : pc[c] # "idle" => buffer[c] \in Values

IInv ==
    /\ TypeOK
    /\ BufferFilled
    /\ HoldsTheLock
    /\ AccessSelected
    /\ SelectIsIndirect

\* A bus that nobody uses satisfies the invariant.
LEMMA InitInv == Init => IInv
  BY BusAssumption
     DEF Init, IInv, TypeOK, BufferFilled, HoldsTheLock, AccessSelected, SelectIsIndirect, Locked,
         Labels

\* Every step of a client or the probe keeps the types.
LEMMA TypeStep == IInv /\ [Next]_vars => (TypeOK /\ BufferFilled)'
  <1> DEFINE Goal == (TypeOK /\ BufferFilled)'
  <1> SUFFICES ASSUME TypeOK, BufferFilled, SelectIsIndirect, [Next]_vars PROVE Goal
    BY DEF IInv
  <1> USE BusAssumption
      DEF TypeOK, BufferFilled, SelectIsIndirect, Labels, Calls, Registers, Goto, local, device, bounds, history
  <1>1. ASSUME NEW c \in Clients, NEW k \in Calls, NEW v \in Values, Begin(c, k, v)
        PROVE  Goal
    BY <1>1 DEF Begin, Reverse
  <1>2. ASSUME NEW c \in Clients, Lock(c)
        PROVE  Goal
    BY <1>2 DEF Lock
  <1>3. ASSUME NEW c \in Clients, Select(c)
        PROVE  Goal
    BY <1>3 DEF Select
  <1>4. ASSUME NEW c \in Clients, Transfer(c)
        PROVE  Goal
    <2>1. Target(c) \in Registers
      BY <1>4 DEF Transfer, Target
    <2>2. memory' \in [Registers -> Values] /\ acted' \subseteq Clients
      BY <1>4, <2>1 DEF Transfer, TransferSucceeds, TransferFails
    <2>3. /\ buffer' \in [Clients -> Values \cup {Idle}]
          /\ BufferFilled'
      BY <1>4, <2>1 DEF Transfer, TransferSucceeds, TransferFails
    <2>4. /\ ret' \in [Clients -> {"E_OK", "error"}]
          /\ pc' \in [Clients -> Labels]
          /\ \A d \in Clients : call[d] = Idle <=> pc'[d] = "idle"
      BY <1>4 DEF Transfer, TransferSucceeds, TransferFails
    <2>5. /\ disturbed' \subseteq Clients
          /\ UNCHANGED <<call, is_reset, bus_lock, access, restarts, crashes, answer>>
      BY <1>4 DEF Transfer
    <2>6. QED
      BY <2>2, <2>3, <2>4, <2>5
  <1>5. ASSUME NEW c \in Clients, Unlock(c)
        PROVE  Goal
    BY <1>5 DEF Unlock
  <1>6. ASSUME NEW c \in Clients, StatusLock(c)
        PROVE  Goal
    BY <1>6 DEF StatusLock
  <1>7. ASSUME NEW c \in Clients, StatusRead(c)
        PROVE  Goal
    BY <1>7 DEF StatusRead
  <1>8. ASSUME NEW c \in Clients, Return(c)
        PROVE  Goal
    <2>1. Reverse(call[c].reg, buffer[c]) \in Values
      BY <1>8 DEF Return, Reverse
    <2>2. answer' \in [Clients -> {Read(v) : v \in Values} \cup {Pending, Written, Error}]
      BY <1>8, <2>1 DEF Return
    <2>3. QED
      BY <1>8, <2>2 DEF Return, Leave
  <1>9. ASSUME NEW c \in Clients, Crash(c)
        PROVE  Goal
    BY <1>9 DEF Crash
  <1>10. CASE ProbeRestarts
    BY <1>10 DEF ProbeRestarts
  <1>11. CASE UNCHANGED vars
    BY <1>11 DEF vars
  <1>12. QED
    BY <1>1, <1>2, <1>3, <1>4, <1>5, <1>6, <1>7, <1>8, <1>9, <1>10, <1>11
       DEF Next, Access

\* Every step keeps the mutex with the client that uses the bus, and the access
\* register where that client pointed it.
LEMMA LockStep == IInv /\ [Next]_vars => (HoldsTheLock /\ AccessSelected /\ SelectIsIndirect)'
  <1> DEFINE Goal == (HoldsTheLock /\ AccessSelected /\ SelectIsIndirect)'
  <1> SUFFICES ASSUME IInv, [Next]_vars PROVE Goal
    OBVIOUS
  <1> USE BusAssumption
      DEF IInv, TypeOK, HoldsTheLock, AccessSelected, SelectIsIndirect, Locked, Goto,
          local, device, bounds, history
  <1>1. ASSUME NEW c \in Clients, NEW k \in Calls, NEW v \in Values, Begin(c, k, v)
        PROVE  Goal
    BY <1>1 DEF Begin
  <1>2. ASSUME NEW c \in Clients, Lock(c)
        PROVE  Goal
    BY <1>2 DEF Lock, Calls, Registers
  <1>3. ASSUME NEW c \in Clients, Select(c)
        PROVE  Goal
    BY <1>3 DEF Select
  <1>4. ASSUME NEW c \in Clients, Transfer(c)
        PROVE  Goal
    BY <1>4 DEF Transfer
  <1>5. ASSUME NEW c \in Clients, Unlock(c)
        PROVE  Goal
    BY <1>5 DEF Unlock
  <1>6. ASSUME NEW c \in Clients, StatusLock(c)
        PROVE  Goal
    BY <1>6 DEF StatusLock
  <1>7. ASSUME NEW c \in Clients, StatusRead(c)
        PROVE  Goal
    BY <1>7 DEF StatusRead
  <1>8. ASSUME NEW c \in Clients, Return(c)
        PROVE  Goal
    BY <1>8 DEF Return, Leave
  <1>9. ASSUME NEW c \in Clients, Crash(c)
        PROVE  Goal
    BY <1>9 DEF Crash
  <1>10. CASE ProbeRestarts
    BY <1>10 DEF ProbeRestarts
  <1>11. CASE UNCHANGED vars
    BY <1>11 DEF vars
  <1>12. QED
    BY <1>1, <1>2, <1>3, <1>4, <1>5, <1>6, <1>7, <1>8, <1>9, <1>10, <1>11
       DEF Next, Access

\* The invariant is inductive.
LEMMA StepInv == IInv /\ [Next]_vars => IInv'
  BY TypeStep, LockStep DEF IInv

\* The values of the clients', the bus' and the probe's variables.
THEOREM TypeCorrect == Spec => []TypeOK
  BY InitInv, StepInv, PTL DEF Spec, IInv

\* An indirect access reaches the register it names.
THEOREM AlwaysHitsTheNamedRegister == Spec => []HitsTheNamedRegister
  <1>1. IInv => HitsTheNamedRegister
    BY DEF IInv, AccessSelected, HitsTheNamedRegister, Target
  <1>2. QED
    BY <1>1, InitInv, StepInv, PTL DEF Spec

\* The mutex admits one client to the bus at a time.
THEOREM AlwaysOneOnBus == Spec => []OnlyOneOnBus
  <1>1. IInv => OnlyOneOnBus
    BY DEF IInv, HoldsTheLock, Locked, OnlyOneOnBus
  <1>2. QED
    BY <1>1, InitInv, StepInv, PTL DEF Spec

-----------------------------------------------------------------------------
(* The refinement of the atomic registers.  A call that a restart leads    *)
(* astray is between its two transactions.                                 *)

regsBar == [r \in Registers |-> Reverse(r, memory[r])]
valueBar == [c \in Clients |-> IF call[c] = Idle THEN Idle
                               ELSE Reverse(call[c].reg, buffer[c])]

\* A call takes effect in its transfer, and returns E_OK only if it did.
ActedOnce ==
    \A c \in Clients :
        /\ pc[c] \in {"idle", "lock", "select", "transfer"} => c \notin acted
        /\ pc[c] \in {"unlock", "status_lock", "status_read", "return"}
              /\ ret[c] = "E_OK" => c \in acted

\* A restart leads astray only transfers whose address was sent before it.
DisturbedInTransfer == \A c \in disturbed : pc[c] \in {"transfer", "killed"}

RInv == IInv /\ ActedOnce /\ DisturbedInTransfer

\* Reversing twice gives the value back.
LEMMA ReverseTwice ==
    ASSUME NEW r \in Registers, NEW v \in Values
    PROVE  Reverse(r, v) \in Values /\ Reverse(r, Reverse(r, v)) = v
  BY BusAssumption DEF Reverse

\* The invariant of the refinement holds initially.
LEMMA InitRInv == Init => RInv
  BY InitInv DEF Init, RInv, ActedOnce, DisturbedInTransfer

\* Every step preserves it.
LEMMA StepRInv == RInv /\ [Next]_vars => RInv'
  <1> DEFINE Goal == (ActedOnce /\ DisturbedInTransfer)'
  <1> SUFFICES ASSUME RInv, [Next]_vars PROVE Goal
    BY StepInv DEF RInv
  <1> USE DEF RInv, IInv, TypeOK, ActedOnce, DisturbedInTransfer, Goto, local, device,
              bounds, history
  <1>1. ASSUME NEW c \in Clients, NEW k \in Calls, NEW v \in Values, Begin(c, k, v)
        PROVE  Goal
    BY <1>1 DEF Begin
  <1>2. ASSUME NEW c \in Clients, Lock(c)
        PROVE  Goal
    BY <1>2 DEF Lock
  <1>3. ASSUME NEW c \in Clients, Select(c)
        PROVE  Goal
    BY <1>3 DEF Select
  <1>4. ASSUME NEW c \in Clients, Transfer(c)
        PROVE  Goal
    BY <1>4 DEF Transfer, TransferSucceeds, TransferFails
  <1>5. ASSUME NEW c \in Clients, Unlock(c)
        PROVE  Goal
    BY <1>5 DEF Unlock
  <1>6. ASSUME NEW c \in Clients, StatusLock(c)
        PROVE  Goal
    BY <1>6 DEF StatusLock
  <1>7. ASSUME NEW c \in Clients, StatusRead(c)
        PROVE  Goal
    BY <1>7 DEF StatusRead
  <1>8. ASSUME NEW c \in Clients, Return(c)
        PROVE  Goal
    BY <1>8 DEF Return, Leave
  <1>9. ASSUME NEW c \in Clients, Crash(c)
        PROVE  Goal
    BY <1>9 DEF Crash
  <1>10. CASE ProbeRestarts
    BY <1>10 DEF ProbeRestarts
  <1>11. CASE UNCHANGED vars
    BY <1>11 DEF vars
  <1>12. QED
    BY <1>1, <1>2, <1>3, <1>4, <1>5, <1>6, <1>7, <1>8, <1>9, <1>10, <1>11
       DEF Next, Access

\* The initial states are initial states of the atomic registers.
LEMMA RefinesInit == Init => Atomic!Init
  <1> SUFFICES ASSUME Init PROVE Atomic!Init
    OBVIOUS
  <1>1. regsBar \in [Registers -> Values]
    BY ReverseTwice DEF Init, regsBar
  <1>2. valueBar = [c \in Clients |-> Idle]
    BY DEF Init, valueBar
  <1>3. QED
    BY <1>1, <1>2 DEF Init, Atomic!Init, regsBar, valueBar, Pending, Atomic!Pending

\* Steps that touch neither the registers nor a call are stuttering steps.
LEMMA Stutters ==
    ASSUME UNCHANGED <<memory, call, buffer, acted, disturbed, answer>>
    PROVE  UNCHANGED Atomic!registerVars
  BY DEF Atomic!registerVars, Reverse

\* A client in its transfer reaches the register its call names, or a restart has
\* led it astray, to another one.
LEMMA TransferReaches ==
    ASSUME RInv, NEW c \in Clients, pc[c] = "transfer"
    PROVE  /\ call[c] # Idle /\ call[c].op \in {"read", "write"} /\ c \notin acted
           /\ call[c].reg \in Registers /\ Target(c) \in Registers
           /\ c \notin disturbed => Target(c) = call[c].reg
           /\ buffer[c] \in Values /\ memory[Target(c)] \in Values
  <1>1. call[c] # Idle /\ call[c] \in Calls /\ c \notin acted /\ buffer[c] \in Values
    BY DEF RInv, IInv, TypeOK, BufferFilled, ActedOnce
  <1>2. Target(c) \in Registers
    BY <1>1 DEF Target, Calls, Registers, RInv, IInv, TypeOK
  <1>3. c \notin disturbed => Target(c) = call[c].reg
    BY DEF Target, RInv, IInv, AccessSelected
  <1>4. QED
    BY <1>1, <1>2, <1>3 DEF Calls, RInv, IInv, TypeOK

\* What a client reads into its buffer is what its call has read, reversed.
LEMMA BufferRead ==
    ASSUME RInv, NEW c \in Clients, call[c] # Idle, NEW v \in Values,
           buffer' = [buffer EXCEPT ![c] = v], call' = call
    PROVE  valueBar' = [valueBar EXCEPT ![c] = Reverse(call[c].reg, v)]
  <1>1. buffer \in [Clients -> Values \cup {Idle}]
    BY DEF RInv, IInv, TypeOK
  <1>2. ASSUME NEW d \in Clients
        PROVE  valueBar'[d] = [valueBar EXCEPT ![c] = Reverse(call[c].reg, v)][d]
    BY <1>1, <1>2 DEF valueBar, Reverse
  <1>3. QED
    BY <1>2 DEF valueBar

\* What arrives in a register of the probe is shown reversed.
LEMMA MemoryWritten ==
    ASSUME RInv, NEW r \in Registers, NEW v \in Values, memory' = [memory EXCEPT ![r] = v]
    PROVE  regsBar' = [regsBar EXCEPT ![r] = Reverse(r, v)]
  <1>1. memory \in [Registers -> Values]
    BY DEF RInv, IInv, TypeOK
  <1>2. ASSUME NEW s \in Registers
        PROVE  regsBar'[s] = [regsBar EXCEPT ![r] = Reverse(r, v)][s]
    BY <1>1, <1>2 DEF regsBar, Reverse
  <1>3. QED
    BY <1>2 DEF regsBar

\* A transfer that reads is the moment the call takes effect.
LEMMA ReadActs ==
    ASSUME RInv, NEW c \in Clients, Transfer(c), call[c].op = "read",
           TransferSucceeds(c)
    PROVE  Atomic!Act(c) \/ Atomic!ActAstray(c)
  <1> DEFINE r == call[c].reg
             t == Target(c)
  <1>1. /\ call[c] # Idle /\ c \notin acted /\ r \in Registers /\ t \in Registers
        /\ c \notin disturbed => t = r
        /\ memory[t] \in Values
    BY TransferReaches DEF Transfer
  <1>2. /\ buffer' = [buffer EXCEPT ![c] = memory[t]] /\ memory' = memory
        /\ acted' = acted \cup {c}
    BY DEF TransferSucceeds
  <1>3. UNCHANGED <<call, answer>> /\ disturbed' = disturbed \ {c}
    BY DEF Transfer
  <1>4. regsBar' = regsBar
    BY <1>2 DEF regsBar, Reverse
  <1>5. valueBar' = [valueBar EXCEPT ![c] = Reverse(r, memory[t])]
    BY <1>1, <1>2, <1>3, BufferRead
  <1>6. CASE c \in disturbed
    <2>1. Reverse(r, memory[t]) \in Values
      BY <1>1, ReverseTwice
    <2>2. QED
      BY <1>1, <1>2, <1>3, <1>4, <1>5, <1>6, <2>1 DEF Atomic!ActAstray, regsBar, valueBar
  <1>7. CASE c \notin disturbed
    <2>1. valueBar' = [valueBar EXCEPT ![c] = regsBar[r]] /\ disturbed' = disturbed
      BY <1>1, <1>3, <1>5, <1>7 DEF regsBar
    <2>2. QED
      BY <1>1, <1>2, <1>3, <1>4, <1>7, <2>1 DEF Atomic!Act, regsBar, valueBar
  <1>8. QED
    BY <1>6, <1>7

\* A write that arrives at the probe takes effect then, whatever it returns.
LEMMA WriteActs ==
    ASSUME RInv, NEW c \in Clients, Transfer(c), call[c].op = "write",
           memory' = [memory EXCEPT ![Target(c)] = buffer[c]],
           acted' = acted \cup {c}, UNCHANGED buffer
    PROVE  Atomic!Act(c) \/ Atomic!ActAstray(c)
  <1> DEFINE r == call[c].reg
             t == Target(c)
             w == Reverse(t, buffer[c])
  <1>1. /\ call[c] # Idle /\ c \notin acted /\ r \in Registers /\ t \in Registers
        /\ c \notin disturbed => t = r
        /\ buffer[c] \in Values
    BY TransferReaches DEF Transfer
  <1>2. UNCHANGED <<call, answer>> /\ disturbed' = disturbed \ {c}
    BY DEF Transfer
  <1>3. valueBar' = valueBar
    BY <1>2 DEF valueBar, Reverse
  <1>4. regsBar' = [regsBar EXCEPT ![t] = w] /\ w \in Values
    BY <1>1, MemoryWritten, ReverseTwice
  <1>5. CASE c \in disturbed
    BY <1>1, <1>2, <1>3, <1>4, <1>5 DEF Atomic!ActAstray, regsBar, valueBar
  <1>6. CASE c \notin disturbed
    <2>1. regsBar' = [regsBar EXCEPT ![r] = valueBar[c]] /\ disturbed' = disturbed
      BY <1>1, <1>2, <1>4, <1>6 DEF valueBar
    <2>2. QED
      BY <1>1, <1>2, <1>3, <1>6, <2>1 DEF Atomic!Act, regsBar, valueBar
  <1>7. QED
    BY <1>5, <1>6

\* A transfer that is not carried out leaves the registers alone.
LEMMA FailsWithoutEffect ==
    ASSUME RInv, NEW c \in Clients, Transfer(c), TransferFails(c),
           UNCHANGED <<memory, acted>>
    PROVE  Atomic!Fail(c)
  <1>1. /\ call[c] # Idle /\ c \notin acted /\ call[c].reg \in Registers
    BY TransferReaches DEF Transfer
  <1>2. UNCHANGED <<call, answer>> /\ disturbed' = disturbed \ {c}
    BY DEF Transfer
  <1>3. regsBar' = regsBar
    BY DEF regsBar, Reverse
  <1>4. CASE call[c].op = "read" /\ \E v \in Values : buffer' = [buffer EXCEPT ![c] = v]
    <2>1. PICK v \in Values : buffer' = [buffer EXCEPT ![c] = v]
      BY <1>4
    <2>2. /\ valueBar' = [valueBar EXCEPT ![c] = Reverse(call[c].reg, v)]
          /\ Reverse(call[c].reg, v) \in Values
      BY <1>1, <1>2, <2>1, BufferRead, ReverseTwice
    <2>3. QED
      BY <1>1, <1>2, <1>3, <1>4, <2>2 DEF Atomic!Fail, regsBar, valueBar
  <1>5. CASE call[c].op = "write" /\ UNCHANGED buffer
    <2>1. valueBar' = valueBar
      BY <1>2, <1>5 DEF valueBar, Reverse
    <2>2. QED
      BY <1>1, <1>2, <1>3, <1>5, <2>1 DEF Atomic!Fail, regsBar, valueBar
  <1>6. QED
    BY <1>4, <1>5 DEF TransferFails

\* A transfer takes effect, once, or fails without.
LEMMA TransferRefines ==
    ASSUME RInv, NEW c \in Clients, Transfer(c)
    PROVE  Atomic!Act(c) \/ Atomic!ActAstray(c) \/ Atomic!Fail(c)
  <1>1. CASE TransferSucceeds(c) /\ call[c].op = "read"
    BY <1>1, ReadActs
  <1>2. CASE call[c].op = "write" /\ acted' = acted \cup {c}
             /\ memory' = [memory EXCEPT ![Target(c)] = buffer[c]] /\ UNCHANGED buffer
    BY <1>2, WriteActs
  <1>3. CASE TransferFails(c) /\ UNCHANGED <<memory, acted>>
    BY <1>3, FailsWithoutEffect
  <1>4. QED
    BY <1>1, <1>2, <1>3 DEF Transfer, TransferSucceeds, TransferFails

\* A restart of the probe leads astray only calls that have not acted.
LEMMA RestartRefines ==
    ASSUME RInv, ProbeRestarts
    PROVE  Atomic!Restart
  <1>1. UNCHANGED <<call, buffer, acted, answer>>
    BY DEF ProbeRestarts, local
  <1>2. valueBar' = valueBar
    BY <1>1 DEF valueBar, Reverse
  <1>3. regsBar' \in [Registers -> Values]
    <2>1. ASSUME NEW r \in Registers PROVE regsBar'[r] \in Values
      <3>1. memory'[r] \in Values
        BY DEF ProbeRestarts
      <3>2. Reverse(r, memory'[r]) \in Values
        BY <3>1, ReverseTwice
      <3>3. QED
        BY <3>2 DEF regsBar, Reverse
    <2>2. QED
      BY <2>1 DEF regsBar
  <1>4. disturbed' \in SUBSET {c \in Clients \ acted : call[c] # Idle}
    BY DEF ProbeRestarts, RInv, IInv, TypeOK, ActedOnce
  <1>5. QED
    BY <1>1, <1>2, <1>3, <1>4 DEF Atomic!Restart, regsBar, valueBar

\* Every step is a step of the atomic registers or changes nothing they show.
LEMMA RefinesNext == RInv /\ [Next]_vars => [Atomic!Next]_Atomic!registerVars
  <1> DEFINE Goal == [Atomic!Next]_Atomic!registerVars
  <1> SUFFICES ASSUME RInv, [Next]_vars PROVE Goal
    OBVIOUS
  <1>1. ASSUME NEW c \in Clients, NEW k \in Calls, NEW v \in Values, Begin(c, k, v)
        PROVE  Goal
    <2>1. regsBar' = regsBar
      BY <1>1 DEF Begin, device, regsBar, Reverse
    <2>2. PICK w \in Values : valueBar' = [valueBar EXCEPT ![c] = w]
      <3>1. k # Idle /\ k.reg \in Registers /\ k.op \in {"read", "write"}
        BY BusAssumption DEF Calls
      <3>2. /\ call \in [Clients -> Calls \cup {Idle}] /\ call' = [call EXCEPT ![c] = k]
            /\ buffer \in [Clients -> Values \cup {Idle}]
        BY <1>1 DEF Begin, RInv, IInv, TypeOK
      <3>3. PICK b \in Values : buffer' = [buffer EXCEPT ![c] = b]
        BY <1>1, <3>1, ReverseTwice DEF Begin
      <3>4. Reverse(k.reg, b) \in Values
        BY <3>1, ReverseTwice
      <3>5. ASSUME NEW d \in Clients
            PROVE  valueBar'[d] = [valueBar EXCEPT ![c] = Reverse(k.reg, b)][d]
        BY <3>1, <3>2, <3>3, <3>5 DEF valueBar, Reverse
      <3>6. valueBar' = [valueBar EXCEPT ![c] = Reverse(k.reg, b)]
        BY <3>5 DEF valueBar
      <3>7. QED
        BY <3>4, <3>6
    <2>3. call[c] = Idle /\ k \in Atomic!Calls
      BY <1>1 DEF Begin, RInv, IInv, TypeOK, Calls, Atomic!Calls
    <2>4. Atomic!Begin(c)
      BY <1>1, <2>1, <2>2, <2>3
         DEF Begin, Atomic!Begin, regsBar, valueBar, Pending, Atomic!Pending
    <2>5. QED
      BY <2>4 DEF Atomic!Next
  <1>2. ASSUME NEW c \in Clients, Return(c)
        PROVE  Goal
    <2>1. /\ call[c] # Idle /\ call[c].op \in {"read", "write"}
          /\ ret[c] = "E_OK" => c \in acted
          /\ c \notin disturbed
      BY <1>2, BusAssumption
         DEF Return, RInv, IInv, TypeOK, ActedOnce, DisturbedInTransfer, Calls
    <2>2. /\ call' = [call EXCEPT ![c] = Idle]
          /\ buffer' = [buffer EXCEPT ![c] = Idle]
          /\ acted' = acted \ {c}
          /\ disturbed' = disturbed \ {c}
          /\ memory' = memory
      BY <1>2, <2>1 DEF Return, Leave, device
    <2>3. regsBar' = regsBar
      BY <2>2 DEF regsBar, Reverse
    <2>4. valueBar' = [valueBar EXCEPT ![c] = Idle]
      <3>1. /\ call \in [Clients -> Calls \cup {Idle}]
            /\ buffer \in [Clients -> Values \cup {Idle}]
        BY DEF RInv, IInv, TypeOK
      <3>2. ASSUME NEW d \in Clients
            PROVE  valueBar'[d] = [valueBar EXCEPT ![c] = Idle][d]
        BY <2>2, <3>1, <3>2 DEF valueBar, Reverse
      <3>3. QED
        BY <3>2 DEF valueBar
    <2>5. valueBar[c] = Reverse(call[c].reg, buffer[c])
      BY <2>1 DEF valueBar
    <2>6. \/ /\ c \in acted
             /\ answer' = [answer EXCEPT ![c] = IF call[c].op = "read"
                                                THEN Read(valueBar[c]) ELSE Written]
          \/ answer' = [answer EXCEPT ![c] = Error]
      BY <1>2, <2>1, <2>5 DEF Return
    <2>7. Atomic!Return(c)
      BY <2>1, <2>2, <2>3, <2>4, <2>6
         DEF Atomic!Return, regsBar, valueBar, Read, Written, Error, Atomic!Read,
             Atomic!Written, Atomic!Error
    <2>8. QED
      BY <2>7 DEF Atomic!Next
  <1>3. ASSUME NEW c \in Clients, Transfer(c)
        PROVE  Goal
    BY <1>3, TransferRefines DEF Atomic!Next
  <1>4. ASSUME NEW c \in Clients,
               Lock(c) \/ Select(c) \/ Unlock(c) \/ StatusLock(c) \/ StatusRead(c)
                 \/ Crash(c)
        PROVE  Goal
    BY <1>4, Stutters
       DEF Lock, Select, Unlock, StatusLock, StatusRead, Crash, local, device, history
  <1>5. CASE ProbeRestarts
    BY <1>5, RestartRefines DEF Atomic!Next
  <1>6. CASE UNCHANGED vars
    BY <1>6, Stutters DEF vars, local, device, history
  <1>7. QED
    BY <1>1, <1>2, <1>3, <1>4, <1>5, <1>6 DEF Next, Access

\* sensor_indexed_read and sensor_indexed_write behave like atomic operations on the
\* registers of the probe, for any number of clients; a restart leads astray only
\* calls that have not acted yet.
THEOREM AccessIsAtomic == Spec => ImplementsAtomicRegisters
  BY InitRInv, StepRInv, RefinesInit, RefinesNext, PTL
     DEF Spec, ImplementsAtomicRegisters, Atomic!Spec
=============================================================================
