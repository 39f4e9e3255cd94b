-------------------------- MODULE PortSetup_proofs --------------------------
(***************************************************************************)
(* Theorems about the life of the shared mutex and of a port, for any  *)
(* number of processes.                                                    *)
(*                                                                         *)
(* Only a mutex that was used against the order the comments of            *)
(* port_linux.c ask for lets two processes on the bus.  A mutex that is    *)
(* not misused and that a user has mapped is the one with the name and is  *)
(* initialised; so all users lock the same one, and whoever is in a        *)
(* transfer owns it.                                                       *)
(*                                                                         *)
(* sensor_close gives back the descriptors sensor_open took, and no        *)
(* failure takes one from others but the standard input: a port owns what  *)
(* its fields name, which is different from what was open before.          *)
(***************************************************************************)
EXTENDS PortSetup, WellFoundedInduction, TLAPS

UserLabels == {"new", "devices", "idle", "lock", "transfer", "failed", "closed", "gone"}
CreatorLabels == {"start", "created", "sized", "ready", "destroyed", "gone"}

\* The types of what concerns the mutex.
MutexTypes ==
    /\ pc \in [Users \cup Creators -> UserLabels \cup CreatorLabels]
    /\ shm \in Objects \cup {None}
    /\ mutex \in [Objects -> {"none", "empty", "zeroed", "ready", "destroyed"}]
    /\ owner \in [Objects -> Users \cup {None, Lost}]
    /\ mapped \in [Users \cup Creators -> Objects \cup {None}]
    /\ misused \in SUBSET Objects

\* A creator works on its own object, which nobody has before it made it.
Making ==
    \A c \in Creators :
        /\ pc[c] = "start" => shm # c /\ \A u \in Users : mapped[u] # c
        /\ pc[c] \in {"created", "sized", "ready", "destroyed"} => mapped[c] = c
        /\ pc[c] = "created" => mutex[c] = "empty"
        /\ pc[c] = "sized" => mutex[c] = "zeroed"

\* A port that was opened has mapped a mutex.
Opening ==
    \A u \in Users :
        pc[u] \in {"devices", "idle", "lock", "transfer"} => mapped[u] # None

\* What a user has mapped is initialised and still has the name, if it is not misused.
Mapping ==
    \A u \in Users :
        mapped[u] \in Objects \ misused => mapped[u] = shm /\ mutex[mapped[u]] = "ready"

\* Whoever is in a transfer owns the mutex it has mapped, if it is not misused.
Holding ==
    \A u \in Users :
        pc[u] = "transfer" /\ mapped[u] \notin misused => owner[mapped[u]] = u

IInv == MutexTypes /\ Making /\ Opening /\ Mapping /\ Holding

LEMMA Initially == Init => IInv
  BY SetupAssumption
  DEF Init, IInv, MutexTypes, Making, Opening, Mapping, Holding, Objects,
      UserLabels, CreatorLabels

\* Steps of a creator.
LEMMA CreatorKeeps ==
    ASSUME IInv, NEW c \in Creators, Creator(c)
    PROVE  IInv'
  <1> USE SetupAssumption DEF Objects, UserLabels, CreatorLabels, IInv, Goto, resources
  <1>1. CASE ShmCreate(c) /\ shm = None
    <2>1. /\ shm' = c /\ mutex' = [mutex EXCEPT ![c] = "empty"]
          /\ mapped' = [mapped EXCEPT ![c] = c] /\ pc' = [pc EXCEPT ![c] = "created"]
          /\ pc[c] = "start" /\ UNCHANGED <<owner, misused>>
      BY <1>1 DEF ShmCreate
    <2>2. MutexTypes'
      BY <2>1 DEF MutexTypes
    <2>3. Making'
      BY <2>1 DEF MutexTypes, Making
    <2>4. Opening'
      BY <2>1 DEF MutexTypes, Opening
    <2>5. Mapping'
      BY <2>1, <1>1 DEF MutexTypes, Mapping
    <2>6. Holding'
      BY <2>1 DEF MutexTypes, Holding
    <2> QED BY <2>2, <2>3, <2>4, <2>5, <2>6
  <1>2. CASE ShmCreate(c) /\ shm # None
    <2>1. /\ pc' = [pc EXCEPT ![c] = "gone"] /\ mapped' = [mapped EXCEPT ![c] = None]
          /\ owner' = [o \in Objects |-> IF owner[o] = c THEN Lost ELSE owner[o]]
          /\ UNCHANGED <<shm, mutex, misused>>
      BY <1>2 DEF ShmCreate, Ends, Loses
    <2>2. owner' = owner
      BY <2>1 DEF MutexTypes
    <2>3. MutexTypes'
      BY <2>1, <2>2 DEF MutexTypes
    <2>4. Making'
      BY <2>1 DEF MutexTypes, Making
    <2>5. Opening' /\ Mapping' /\ Holding'
      BY <2>1, <2>2 DEF MutexTypes, Opening, Mapping, Holding
    <2> QED BY <2>3, <2>4, <2>5
  <1>3. CASE Sized(c)
    <2>1. mapped[c] = c /\ mutex[c] = "empty"
      BY <1>3 DEF Sized, Making
    <2>2. MutexTypes'
      BY <1>3, <2>1 DEF Sized, MutexTypes
    <2>3. Making'
      BY <1>3, <2>1 DEF Sized, MutexTypes, Making
    <2>4. Opening' /\ Mapping' /\ Holding'
      BY <1>3, <2>1 DEF Sized, MutexTypes, Opening, Mapping, Holding
    <2> QED BY <2>2, <2>3, <2>4
  <1>4. CASE MutexInit(c)
    <2>1. mapped[c] = c /\ mutex[c] = "zeroed"
      BY <1>4 DEF MutexInit, Making
    <2>2. MutexTypes'
      BY <1>4, <2>1 DEF MutexInit, MutexTypes
    <2>3. Making'
      BY <1>4, <2>1 DEF MutexInit, MutexTypes, Making
    <2>4. Opening' /\ Mapping'
      BY <1>4, <2>1 DEF MutexInit, MutexTypes, Opening, Mapping
    <2>5. ASSUME NEW u \in Users, mapped[u] = c PROVE c \in misused
      BY <2>1, <2>5 DEF Mapping
    <2>6. Holding'
      BY <1>4, <2>1, <2>5 DEF MutexInit, MutexTypes, Opening, Holding
    <2> QED BY <2>2, <2>3, <2>4, <2>6
  <1>5. CASE MutexDestroy(c)
    <2>1. mapped[c] = c
      BY <1>5 DEF MutexDestroy, Making
    <2>2. /\ mutex' \in {mutex, [mutex EXCEPT ![c] = "destroyed"]}
          /\ pc' = [pc EXCEPT ![c] = "destroyed"]
          /\ misused' \in {misused, misused \cup {c}}
          /\ UNCHANGED <<shm, owner, mapped>>
      BY <1>5, <2>1 DEF MutexDestroy
    <2>3. ASSUME NEW u \in Users, mapped[u] = c PROVE c \in misused'
      BY <1>5, <2>1, <2>3 DEF MutexDestroy, UsersOf
    <2>4. MutexTypes'
      BY <2>1, <2>2 DEF MutexTypes
    <2>5. Making'
      BY <2>1, <2>2 DEF MutexTypes, Making
    <2>6. Opening' /\ Mapping'
      BY <2>1, <2>2, <2>3 DEF MutexTypes, Opening, Mapping
    <2>7. Holding'
      BY <2>2 DEF MutexTypes, Holding
    <2> QED BY <2>4, <2>5, <2>6, <2>7
  <1>6. CASE ShmUnlink(c)
    <2>1. /\ shm' = None /\ mapped' = [mapped EXCEPT ![c] = None]
          /\ pc' = [pc EXCEPT ![c] = "gone"] /\ UNCHANGED <<mutex, owner>>
          /\ misused' = misused \cup {o \in {shm} \cap Objects : mutex[o] # "destroyed"}
      BY <1>6 DEF ShmUnlink
    <2>2. MutexTypes'
      BY <2>1 DEF MutexTypes
    <2>3. Making'
      BY <2>1 DEF MutexTypes, Making
    <2>4. Opening' /\ Mapping'
      BY <2>1 DEF MutexTypes, Opening, Mapping
    <2>5. Holding'
      BY <2>1 DEF MutexTypes, Holding
    <2> QED BY <2>2, <2>3, <2>4, <2>5
  <1> QED BY <1>1, <1>2, <1>3, <1>4, <1>5, <1>6 DEF Creator

\* The end of a user's process, and the end of its port: what it held is lost.
LEMMA LosingKeeps ==
    ASSUME IInv, NEW u \in Users, NEW label \in {"gone", "closed"},
           pc' = [pc EXCEPT ![u] = label], mapped' = [mapped EXCEPT ![u] = None],
           Loses(u), UNCHANGED <<shm, mutex, misused>>
    PROVE  IInv'
  <1> USE SetupAssumption DEF Objects, UserLabels, CreatorLabels, IInv
  <1>1. owner' = [o \in Objects |-> IF owner[o] = u THEN Lost ELSE owner[o]]
    BY DEF Loses
  <1>2. MutexTypes'
    BY <1>1 DEF MutexTypes
  <1>3. Making'
    BY DEF MutexTypes, Making
  <1>4. Opening' /\ Mapping'
    BY DEF MutexTypes, Opening, Mapping
  <1>5. Holding'
    BY <1>1 DEF MutexTypes, Opening, Holding
  <1> QED BY <1>2, <1>3, <1>4, <1>5

LEMMA EndingKeeps ==
    ASSUME IInv, NEW u \in Users, Ends(u)
    PROVE  IInv'
  BY LosingKeeps DEF Ends, Goto

\* Steps of a user that leave mutex and mapping alone.
LEMMA GoingOnKeeps ==
    ASSUME IInv, NEW u \in Users, NEW label \in UserLabels \ {"transfer"},
           label \in {"devices", "idle", "lock"} => mapped[u] # None,
           pc' = [pc EXCEPT ![u] = label],
           UNCHANGED <<objects, mapped>>
    PROVE  IInv'
  <1> USE SetupAssumption DEF Objects, UserLabels, CreatorLabels, IInv, objects
  <1>1. MutexTypes'
    BY DEF MutexTypes
  <1>2. Making'
    BY DEF MutexTypes, Making
  <1>3. Opening' /\ Mapping' /\ Holding'
    BY DEF MutexTypes, Opening, Mapping, Holding
  <1> QED BY <1>1, <1>2, <1>3

LEMMA OpenMutexKeeps ==
    ASSUME IInv, NEW u \in Users, OpenMutex(u)
    PROVE  IInv'
  <1> USE DEF Goto
  <1>1. CASE InitError(u, Held(u)) /\ UNCHANGED <<objects, mapped, before, maps>>
    BY <1>1, GoingOnKeeps DEF InitError, UserLabels
  <1>2. CASE Ends(u)
    BY <1>2, EndingKeeps
  <1>3. CASE /\ shm # None
             /\ pc' = [pc EXCEPT ![u] = "devices"]
             /\ mapped' = [mapped EXCEPT ![u] = shm]
             /\ misused' = IF mutex[shm] = "ready" THEN misused ELSE misused \cup {shm}
             /\ UNCHANGED <<shm, mutex, owner>>
    <2> USE <1>3, SetupAssumption DEF Objects, UserLabels, CreatorLabels, IInv
    <2>1. MutexTypes'
      BY DEF MutexTypes
    <2>2. Making'
      BY DEF MutexTypes, Making
    <2>3. Opening' /\ Mapping' /\ Holding'
      BY DEF MutexTypes, Opening, Mapping, Holding
    <2> QED BY <2>1, <2>2, <2>3
  <1> QED BY <1>1, <1>2, <1>3 DEF OpenMutex

LEMMA LockKeeps ==
    ASSUME IInv, NEW u \in Users, Lock(u)
    PROVE  IInv'
  <1> USE SetupAssumption DEF Objects, UserLabels, CreatorLabels, Goto, resources, objects
  <1>1. mapped[u] \in Objects
    BY DEF Lock, IInv, MutexTypes, Opening
  <1>2. CASE Ends(u)
    BY <1>2, EndingKeeps
  <1>3. CASE /\ owner[mapped[u]] = None
             /\ owner' = [owner EXCEPT ![mapped[u]] = u]
             /\ pc' = [pc EXCEPT ![u] = "transfer"]
             /\ UNCHANGED <<shm, mutex, misused, resources>>
    <2>1. MutexTypes'
      BY <1>3 DEF IInv, MutexTypes
    <2>2. Making' /\ Opening' /\ Mapping'
      BY <1>1, <1>3 DEF IInv, MutexTypes, Making, Opening, Mapping
    <2>3. Holding'
      BY <1>1, <1>3 DEF IInv, MutexTypes, Opening, Holding
    <2> QED BY <2>1, <2>2, <2>3 DEF IInv
  <1>4. CASE /\ mutex[mapped[u]] = "destroyed"
             /\ pc' = [pc EXCEPT ![u] = "transfer"]
             /\ UNCHANGED <<objects, resources>>
    <2>1. mapped[u] \in misused
      BY <1>1, <1>4 DEF IInv, Mapping
    <2>2. MutexTypes'
      BY <1>4 DEF IInv, MutexTypes
    <2>3. Making' /\ Opening' /\ Mapping'
      BY <1>1, <1>4 DEF IInv, MutexTypes, Making, Opening, Mapping
    <2>4. Holding'
      BY <1>4, <2>1 DEF IInv, MutexTypes, Holding
    <2> QED BY <2>2, <2>3, <2>4 DEF IInv
  <1> QED BY <1>2, <1>3, <1>4 DEF Lock

LEMMA UnlockKeeps ==
    ASSUME IInv, NEW u \in Users, Unlock(u)
    PROVE  IInv'
  <1> USE SetupAssumption DEF Objects, UserLabels, CreatorLabels, IInv, Goto, resources
  <1>1. /\ pc[u] = "transfer" /\ pc' = [pc EXCEPT ![u] = "idle"]
        /\ owner' \in {owner, [owner EXCEPT ![mapped[u]] = None]}
        /\ UNCHANGED <<shm, mutex, misused, mapped>>
    BY DEF Unlock
  <1>2. mapped[u] \in Objects
    BY <1>1 DEF MutexTypes, Opening
  <1>3. MutexTypes'
    BY <1>1, <1>2 DEF MutexTypes
  <1>4. Making' /\ Opening' /\ Mapping'
    BY <1>1, <1>2 DEF MutexTypes, Making, Opening, Mapping
  <1>5. Holding'
    <2> SUFFICES ASSUME NEW v \in Users, pc'[v] = "transfer", mapped[v] \notin misused
                 PROVE  owner'[mapped[v]] = v
      BY <1>1 DEF Holding
    <2>1. v # u /\ pc[v] = "transfer" /\ owner[mapped[v]] = v
      BY <1>1 DEF MutexTypes, Holding
    <2>2. mapped[v] \in Objects
      BY <2>1 DEF MutexTypes, Opening
    <2>3. CASE mapped[u] # mapped[v]
      BY <1>1, <1>2, <2>1, <2>2, <2>3 DEF MutexTypes
    <2>4. CASE mapped[u] = mapped[v]
      BY <1>1, <2>1, <2>4 DEF Holding
    <2> QED BY <2>3, <2>4
  <1> QED BY <1>3, <1>4, <1>5

\* A step of a user, whichever it is.
LEMMA UserKeeps ==
    ASSUME IInv, NEW u \in Users,
           \/ OpenSensor(u) \/ WantBus(u) \/ Lock(u) \/ Unlock(u)
           \/ Heartbeat(u) \/ CloseSensor(u) \/ NewPort(u) \/ Killed(u)
    PROVE  IInv'
  <1> USE DEF Goto
  <1>1. CASE OpenMutex(u)
    BY <1>1, OpenMutexKeeps
  <1>2. CASE OpenDevices(u)
    <2>1. pc' = [pc EXCEPT ![u] = "failed"] \/ pc' = [pc EXCEPT ![u] = "idle"]
      BY <1>2 DEF OpenDevices, InitError
    <2>2. mapped[u] # None /\ UNCHANGED <<objects, mapped>>
      BY <1>2 DEF OpenDevices, IInv, Opening
    <2> QED BY <2>1, <2>2, GoingOnKeeps DEF UserLabels
  <1>3. CASE WantBus(u)
    <2>1. mapped[u] # None
      BY <1>3 DEF WantBus, IInv, Opening
    <2> QED BY <1>3, <2>1, GoingOnKeeps DEF WantBus, resources, UserLabels
  <1>4. CASE Lock(u)
    BY <1>4, LockKeeps
  <1>5. CASE Unlock(u)
    BY <1>5, UnlockKeeps
  <1>6. CASE CloseSensor(u)
    <2>1. CASE Ends(u)
      BY <2>1, EndingKeeps
    <2>2. CASE Deinit(u)
      BY <2>2, LosingKeeps DEF Deinit
    <2> QED BY <1>6, <2>1, <2>2 DEF CloseSensor
  <1>7. CASE NewPort(u)
    BY <1>7, GoingOnKeeps DEF NewPort, UserLabels
  <1>8. CASE Killed(u)
    BY <1>8, EndingKeeps DEF Killed
  <1>9. CASE Heartbeat(u)
    BY <1>9
    DEF Heartbeat, HeartbeatStart, HeartbeatStop, objects,
        IInv, MutexTypes, Making, Opening, Mapping, Holding
  <1> QED BY <1>1, <1>2, <1>3, <1>4, <1>5, <1>6, <1>7, <1>8, <1>9 DEF OpenSensor

LEMMA Inductive == IInv /\ [Next]_vars => IInv'
  <1> SUFFICES ASSUME IInv, [Next]_vars PROVE IInv'
    OBVIOUS
  <1>1. ASSUME NEW c \in Creators, Creator(c) PROVE IInv'
    BY <1>1, CreatorKeeps
  <1>2. ASSUME NEW u \in Users,
               \/ OpenSensor(u) \/ WantBus(u) \/ Lock(u) \/ Unlock(u)
               \/ Heartbeat(u) \/ CloseSensor(u) \/ NewPort(u) \/ Killed(u)
        PROVE IInv'
    BY <1>2, UserKeeps
  <1>3. CASE UNCHANGED vars
    BY <1>3 DEF vars, objects, resources, IInv, MutexTypes, Making, Opening, Mapping, Holding
  <1> QED BY <1>1, <1>2, <1>3 DEF Next

LEMMA Suffices == IInv => OneOnBus
  <1> SUFFICES ASSUME IInv, NEW u \in Users, NEW v \in Users, u # v,
                      pc[u] = "transfer", pc[v] = "transfer",
                      mapped[u] \notin misused, mapped[v] \notin misused
               PROVE FALSE
    BY DEF OneOnBus
  <1>1. owner[mapped[u]] = u /\ owner[mapped[v]] = v
    BY DEF IInv, Holding
  <1>2. mapped[u] \in Objects /\ mapped[v] \in Objects
    BY DEF IInv, MutexTypes, Opening
  <1>3. mapped[u] = shm /\ mapped[v] = shm
    BY <1>2 DEF IInv, Mapping
  <1> QED BY <1>1, <1>3

\* The claim of port_linux.c:174, for any number of processes that use, create and
\* destroy the mutex and may be killed anywhere: two are in a transfer at once only if
\* a mutex was used against the order its comments ask for.
THEOREM OnlyOneOnBus == Spec => []OneOnBus
  <1>1. Init /\ [][Next]_vars => []IInv
    BY Initially, Inductive, PTL
  <1> QED BY <1>1, Suffices, PTL DEF Spec

-----------------------------------------------------------------------------
(* The descriptors.  They do not depend on the mutex, so this invariant    *)
(* stands beside the one above, and is about one user at a time: what is   *)
(* open in its process, what was before its port, the fields of the port   *)
(* and the memory of the events.                                           *)

Fields == {"des_mutex", "bus", "interrupt_gpio", "heartbeat"}

\* The types of what concerns the descriptors.
PortTypes ==
    /\ pc \in [Users \cup Creators -> UserLabels \cup CreatorLabels]
    /\ open \in [Users -> SUBSET Descriptors]
    /\ before \in [Users -> SUBSET Descriptors]
    /\ port \in [Users -> [Fields -> Int]]
    /\ queue \in [Users -> {"none", "allocated", "freed"}]

\* The devices a port opens.
UsedFields == IF UseInterrupt THEN {"des_mutex", "bus", "interrupt_gpio"}
              ELSE {"des_mutex", "bus"}

\* Of the descriptors o that are open, b were before the port; the port has the
\* devices S and a timer t, which are others.
Owns(o, b, t, S) ==
    /\ o = b \cup S \cup ({t} \ {Closed})
    /\ \A d \in S : d \notin b /\ d # t
    /\ t \notin b

\* What holds even if the port has failed: its fields name nothing of others but the
\* standard input, nothing else of others is closed, and what is open has a name.
Kept(o, b, p) ==
    /\ \A f \in Fields : p[f] \in b => p[f] = Stdin
    /\ b \ o \subseteq {Stdin}
    /\ o \ b \subseteq {p[f] : f \in Fields}

\* The devices of a port that has opened none.
Unopened(p) == p["des_mutex"] = 0 /\ p["bus"] = 0 /\ p["interrupt_gpio"] = 0

\* What is open at each place of a user; evq_init is the only thing that fails
\* without the events being freed.
UserInv(label, o, b, p, q) ==
    /\ label = "new" =>
          Owns(o, b, p["heartbeat"], {}) /\ Unopened(p) /\ q = "none"
    /\ label = "devices" =>
          /\ Owns(o, b, p["heartbeat"], {p["des_mutex"]})
          /\ p["bus"] = 0 /\ p["interrupt_gpio"] = 0 /\ q = "allocated"
    /\ label \in {"idle", "lock", "transfer"} =>
          /\ Owns(o, b, p["heartbeat"], {p[f] : f \in UsedFields})
          /\ UseInterrupt \/ p["interrupt_gpio"] = 0
          /\ q = "allocated"
    /\ label = "failed" =>
          Kept(o, b, p) /\ (q = "none" => Unopened(p)) /\ q # "allocated"
    /\ label = "closed" =>
          Kept(o, b, p) /\ (q = "freed" => Owns(o, b, p["heartbeat"], {}))

PortInv ==
    /\ PortTypes
    /\ \A u \in Users : /\ pc[u] \in UserLabels
                        /\ UserInv(pc[u], open[u], before[u], port[u], queue[u])

\* A set of numbers has a least one, so the system gives a descriptor that is free.
LEMMA NewDescriptorIsFree ==
    ASSUME NEW S, Descriptors \ S # {}
    PROVE  NewDescriptor(S) \in Descriptors \ S
  <1> DEFINE T == Descriptors \ S
  <1>1. T \in SUBSET Nat /\ T # {}
    BY DEF Descriptors
  <1> HIDE DEF T
  <1>2. PICK m \in T : \A k \in T : <<k, m>> \notin OpToRel(<, Nat)
    BY <1>1, WFMin, NatLessThanWellFounded, Zenon
  <1>3. \A k \in T : ~(k < m)
    BY <1>1, <1>2, Zenon DEF OpToRel
  <1>4. \A k \in T : m <= k
    BY <1>1, <1>3
  <1>5. Min(T) \in T
    BY <1>4 DEF Min
  <1> QED BY <1>5 DEF NewDescriptor, T

\* What a port and its process can hold.
Holdings == [port : [Fields -> Int], open : SUBSET Descriptors]

\* Opening something gives its field a descriptor that was not open.
LEMMA OpenedIsNew ==
    ASSUME NEW h \in Holdings, NEW field \in Fields, IsFree(h)
    PROVE  /\ Opened(h, field) \in Holdings
           /\ \E d \in Descriptors \ h.open :
                 /\ Opened(h, field).open = h.open \cup {d}
                 /\ Opened(h, field).port[field] = d
                 /\ \A g \in Fields \ {field} : Opened(h, field).port[g] = h.port[g]
  <1>1. PICK d \in Descriptors \ h.open : d = NewDescriptor(h.open)
    BY NewDescriptorIsFree DEF IsFree
  <1>2. Opened(h, field) = [port |-> [h.port EXCEPT ![field] = d], open |-> h.open \cup {d}]
    BY <1>1 DEF Opened
  <1>3. h.port \in [Fields -> Int] /\ h.open \in SUBSET Descriptors /\ d \in Int
    BY <1>1 DEF Holdings, Descriptors
  <1>4. Opened(h, field) \in Holdings
    BY ONLY <1>1, <1>2, <1>3 DEF Holdings
  <1>5. /\ Opened(h, field).open = h.open \cup {d}
        /\ Opened(h, field).port[field] = d
        /\ \A g \in Fields \ {field} : Opened(h, field).port[g] = h.port[g]
    BY ONLY <1>2, <1>3
  <1> QED BY <1>4, <1>5

\* A field can be given Closed.
LEMMA ClosedField ==
    ASSUME NEW h \in Holdings, NEW field \in Fields
    PROVE  \E r \in Holdings : /\ r = [h EXCEPT !.port[field] = Closed]
                               /\ r.open = h.open
                               /\ r.port = [h.port EXCEPT ![field] = Closed]
  <1> DEFINE r == [h EXCEPT !.port[field] = Closed]
  <1>1. r \in Holdings
    BY DEF Holdings, Closed
  <1>2. r.open = h.open /\ r.port = [h.port EXCEPT ![field] = Closed]
    BY DEF Holdings
  <1> HIDE DEF r
  <1> QED BY <1>1, <1>2 DEF r

\* A device more, a timer more, a timer less.
LEMMA OwningMore ==
    ASSUME NEW o \in SUBSET Descriptors, NEW b, NEW t, NEW S, Owns(o, b, t, S),
           NEW d \in Descriptors \ o
    PROVE  Owns(o \cup {d}, b, t, S \cup {d})
  <1>1. d # Closed
    BY DEF Descriptors, Closed
  <1> QED BY <1>1 DEF Owns

LEMMA TimerMore ==
    ASSUME NEW o \in SUBSET Descriptors, NEW b, NEW S, Owns(o, b, Closed, S),
           NEW d \in Descriptors \ o
    PROVE  Owns(o \cup {d}, b, d, S)
  <1>1. d # Closed
    BY DEF Descriptors, Closed
  <1> QED BY <1>1 DEF Owns

LEMMA TimerLess ==
    ASSUME NEW o \in SUBSET Descriptors, NEW b, NEW t, NEW S, Owns(o, b, t, S), t # Closed
    PROVE  Owns(o \ {t}, b, Closed, S)
  <1>1. Closed \notin o
    BY DEF Descriptors, Closed
  <1> QED BY <1>1 DEF Owns

\* A port that owns what it has, and names nothing else, has accounted for it.
LEMMA OwningAccounts ==
    ASSUME NEW o \in SUBSET Descriptors, NEW b, NEW p \in [Fields -> Int],
           NEW S, Owns(o, b, p["heartbeat"], S), S \subseteq {p[f] : f \in Fields},
           \A f \in Fields \ {"heartbeat"} : p[f] \in S \cup {0, Closed}
    PROVE  Kept(o, b, p)
  <1>1. Closed \notin b /\ Stdin = 0
    BY DEF Owns, Descriptors, Closed, Stdin
  <1>2. \A f \in Fields : p[f] \in b => p[f] = Stdin
    BY <1>1 DEF Owns
  <1>3. o \ b \subseteq {p[f] : f \in Fields}
    BY DEF Owns, Fields
  <1> QED BY <1>2, <1>3 DEF Owns, Kept

\* Whatever a port names can be closed.
LEMMA ClosingAccounts ==
    ASSUME NEW o, NEW b, NEW p, Kept(o, b, p), NEW f \in Fields
    PROVE  Kept(o \ {p[f]}, b, p)
  BY DEF Kept

\* Wherever a user is with a port, its descriptors are accounted for.
LEMMA UserAccounts ==
    ASSUME NEW label \in UserLabels \ {"gone"}, NEW o \in SUBSET Descriptors, NEW b,
           NEW p \in [Fields -> Int], NEW q, UserInv(label, o, b, p, q)
    PROVE  Kept(o, b, p)
  <1>1. CASE label = "new"
    BY <1>1, OwningAccounts DEF UserInv, Unopened, Fields
  <1>2. CASE label = "devices"
    <2> DEFINE S == {p["des_mutex"]}
    <2>1. /\ S \subseteq {p[f] : f \in Fields}
          /\ \A f \in Fields \ {"heartbeat"} : p[f] \in S \cup {0, Closed}
      BY <1>2 DEF UserInv, Fields
    <2>2. Owns(o, b, p["heartbeat"], S)
      BY <1>2 DEF UserInv
    <2> HIDE DEF S
    <2> QED BY <2>1, <2>2, OwningAccounts
  <1>3. CASE label \in {"idle", "lock", "transfer"}
    <2> DEFINE S == {p[f] : f \in UsedFields}
    <2>1. /\ S \subseteq {p[f] : f \in Fields}
          /\ \A f \in Fields \ {"heartbeat"} : p[f] \in S \cup {0, Closed}
      BY <1>3 DEF UserInv, Fields, UsedFields
    <2>2. Owns(o, b, p["heartbeat"], S)
      BY <1>3 DEF UserInv
    <2> HIDE DEF S
    <2> QED BY <2>1, <2>2, OwningAccounts
  <1>4. CASE label \in {"failed", "closed"}
    BY <1>4 DEF UserInv
  <1> QED BY <1>1, <1>2, <1>3, <1>4 DEF UserLabels

-----------------------------------------------------------------------------
LEMMA PortInitially == Init => PortInv
  <1> SUFFICES ASSUME Init PROVE PortInv
    OBVIOUS
  <1>1. 0 \in Descriptors /\ Closed # 0 /\ ZeroedPort \in [Fields -> Int]
    BY SetupAssumption DEF Descriptors, Closed, ZeroedPort, Fields
  <1>2. PortTypes
    BY <1>1 DEF Init, PortTypes, UserLabels, CreatorLabels, Stdin
  <1>3. UserInv("new", {Stdin}, {Stdin}, ZeroedPort, "none")
    BY DEF UserInv, Owns, Unopened, ZeroedPort, Closed, Stdin
  <1>4. ASSUME NEW u \in Users
        PROVE  /\ pc[u] = "new" /\ open[u] = {Stdin} /\ before[u] = {Stdin}
               /\ port[u] = ZeroedPort /\ queue[u] = "none"
    BY DEF Init
  <1>5. ASSUME NEW u \in Users
        PROVE  /\ pc[u] \in UserLabels
               /\ UserInv(pc[u], open[u], before[u], port[u], queue[u])
    <2>1. UserInv(pc[u], open[u], before[u], port[u], queue[u])
      BY ONLY <1>3, <1>4
    <2> QED BY <1>4, <2>1 DEF UserLabels
  <1> QED BY <1>2, <1>5 DEF PortInv

\* Steps that move only a creator's label.
LEMMA CreatorKeepsPorts ==
    ASSUME PortInv, NEW c \in Creators, Creator(c)
    PROVE  PortInv'
  <1>1. /\ \E label \in CreatorLabels : pc' = [pc EXCEPT ![c] = label]
        /\ UNCHANGED <<open, before, port, queue>>
    BY SetupAssumption
    DEF Creator, ShmCreate, Sized, MutexInit, MutexDestroy, ShmUnlink, Ends, Goto,
        resources, CreatorLabels
  <1>2. \A u \in Users : pc'[u] = pc[u]
    BY <1>1, SetupAssumption DEF PortInv, PortTypes
  <1>3. PortTypes'
    BY <1>1 DEF PortInv, PortTypes
  <1> QED BY <1>1, <1>2, <1>3 DEF PortInv

\* A step of one user is looked at for this user alone.
LEMMA OneUserAtATime ==
    ASSUME PortInv, NEW u \in Users, NEW label \in UserLabels,
           NEW o \in SUBSET Descriptors, NEW b \in SUBSET Descriptors,
           NEW p \in [Fields -> Int], NEW q \in {"none", "allocated", "freed"},
           UserInv(label, o, b, p, q),
           pc' = [pc EXCEPT ![u] = label], open' = [open EXCEPT ![u] = o],
           before' = [before EXCEPT ![u] = b], port' = [port EXCEPT ![u] = p],
           queue' = [queue EXCEPT ![u] = q]
    PROVE  PortInv'
  <1>1. PortTypes'
    BY DEF PortInv, PortTypes
  <1>2. ASSUME NEW v \in Users, v # u
        PROVE  /\ pc'[v] = pc[v] /\ open'[v] = open[v] /\ before'[v] = before[v]
               /\ port'[v] = port[v] /\ queue'[v] = queue[v]
    BY <1>2 DEF PortInv, PortTypes
  <1>3. /\ pc'[u] = label /\ open'[u] = o /\ before'[u] = b /\ port'[u] = p /\ queue'[u] = q
    BY DEF PortInv, PortTypes
  <1>4. ASSUME NEW v \in Users
        PROVE  /\ pc'[v] \in UserLabels
               /\ UserInv(pc'[v], open'[v], before'[v], port'[v], queue'[v])
    <2>1. pc[v] \in UserLabels /\ UserInv(pc[v], open[v], before[v], port[v], queue[v])
      BY DEF PortInv
    <2> QED BY <1>2, <1>3, <2>1
  <1> QED BY <1>1, <1>4 DEF PortInv

LEMMA TypesOf ==
    ASSUME PortInv, NEW u \in Users
    PROVE  /\ pc[u] \in UserLabels
           /\ open[u] \in SUBSET Descriptors /\ before[u] \in SUBSET Descriptors
           /\ port[u] \in [Fields -> Int] /\ queue[u] \in {"none", "allocated", "freed"}
           /\ UserInv(pc[u], open[u], before[u], port[u], queue[u])
           /\ Held(u) \in Holdings /\ Held(u).open = open[u] /\ Held(u).port = port[u]
           /\ pc = [pc EXCEPT ![u] = pc[u]] /\ open = [open EXCEPT ![u] = open[u]]
           /\ before = [before EXCEPT ![u] = before[u]]
           /\ port = [port EXCEPT ![u] = port[u]] /\ queue = [queue EXCEPT ![u] = queue[u]]
  BY DEF PortInv, PortTypes, Held, Holdings

LEMMA EndingKeepsPorts ==
    ASSUME PortInv, NEW u \in Users, Ends(u)
    PROVE  PortInv'
  <1>1. /\ pc' = [pc EXCEPT ![u] = "gone"] /\ open' = [open EXCEPT ![u] = {}]
        /\ before' = [before EXCEPT ![u] = {}] /\ port' = [port EXCEPT ![u] = ZeroedPort]
        /\ queue' = [queue EXCEPT ![u] = "none"]
    BY DEF Ends, Goto
  <1>2. ZeroedPort \in [Fields -> Int] /\ "gone" \in UserLabels
    BY DEF ZeroedPort, Fields, Closed, UserLabels
  <1>3. UserInv("gone", {}, {}, ZeroedPort, "none")
    BY DEF UserInv
  <1> QED BY <1>1, <1>2, <1>3, OneUserAtATime

\* A failure of linux_init closes the pin, or what its field names; h is what the port
\* holds when it fails.
LEMMA FailingKeepsPorts ==
    ASSUME PortInv, NEW u \in Users, NEW h \in Holdings,
           Kept(h.open, before[u], h.port),
           \/ queue[u] = "allocated"
           \/ queue[u] = "none" /\ Unopened(h.port),
           InitError(u, h), UNCHANGED before
    PROVE  PortInv'
  <1>1. PICK o \in SUBSET Descriptors, p \in [Fields -> Int] :
           /\ PinClosed(h).open = o /\ PinClosed(h).port = p /\ p = h.port
           /\ o = h.open \/ o = h.open \ {p["interrupt_gpio"]}
    BY DEF PinClosed, gpio_close, Holdings
  <1>2. Kept(o, before[u], p)
    <2>1. Kept(h.open, before[u], p)
      BY ONLY <1>1, Kept(h.open, before[u], h.port)
    <2>2. "interrupt_gpio" \in Fields
      BY DEF Fields
    <2>3. Kept(h.open \ {p["interrupt_gpio"]}, before[u], p)
      BY ONLY <2>1, <2>2, ClosingAccounts
    <2> QED BY ONLY <1>1, <2>1, <2>3
  <1>3. PICK q \in {"none", "freed"} : q = Freed(u) /\ (q = "none" => queue[u] = "none")
    BY DEF Freed
  <1>4. UserInv("failed", o, before[u], p, q)
    BY <1>1, <1>2, <1>3 DEF UserInv
  <1>5. /\ pc' = [pc EXCEPT ![u] = "failed"] /\ open' = [open EXCEPT ![u] = o]
        /\ before' = [before EXCEPT ![u] = before[u]] /\ port' = [port EXCEPT ![u] = p]
        /\ queue' = [queue EXCEPT ![u] = q]
    BY <1>1, <1>3, TypesOf DEF InitError, Becomes, Goto
  <1>6. "failed" \in UserLabels /\ before[u] \in SUBSET Descriptors
    BY TypesOf DEF UserLabels
  <1> QED BY ONLY PortInv, <1>3, <1>4, <1>5, <1>6, OneUserAtATime

\* Steps of an opened port that touch neither descriptors nor events.
LEMMA UsingKeepsPorts ==
    ASSUME PortInv, NEW u \in Users, NEW label \in {"idle", "lock", "transfer"},
           pc[u] \in {"idle", "lock", "transfer"}, pc' = [pc EXCEPT ![u] = label],
           UNCHANGED <<open, before, port, queue>>
    PROVE  PortInv'
  <1>1. UserInv(label, open[u], before[u], port[u], queue[u])
    BY TypesOf DEF UserInv
  <1>2. label \in UserLabels
    BY DEF UserLabels
  <1>3. PICK o \in SUBSET Descriptors, b \in SUBSET Descriptors, p \in [Fields -> Int],
             q \in {"none", "allocated", "freed"} :
           /\ UserInv(label, o, b, p, q)
           /\ open' = [open EXCEPT ![u] = o] /\ before' = [before EXCEPT ![u] = b]
           /\ port' = [port EXCEPT ![u] = p] /\ queue' = [queue EXCEPT ![u] = q]
    <2>1. /\ open[u] \in SUBSET Descriptors /\ before[u] \in SUBSET Descriptors
          /\ port[u] \in [Fields -> Int] /\ queue[u] \in {"none", "allocated", "freed"}
      BY TypesOf
    <2>2. /\ open' = [open EXCEPT ![u] = open[u]] /\ before' = [before EXCEPT ![u] = before[u]]
          /\ port' = [port EXCEPT ![u] = port[u]] /\ queue' = [queue EXCEPT ![u] = queue[u]]
      BY TypesOf
    <2> QED BY ONLY <1>1, <2>1, <2>2
  <1>4. PICK l \in UserLabels : UserInv(l, o, b, p, q) /\ pc' = [pc EXCEPT ![u] = l]
    BY <1>2, <1>3
  <1> QED BY ONLY PortInv, <1>3, <1>4, OneUserAtATime

LEMMA OpenMutexKeepsPorts ==
    ASSUME PortInv, NEW u \in Users, OpenMutex(u)
    PROVE  PortInv'
  <1>1. /\ pc[u] = "new" /\ queue[u] = "none" /\ Unopened(port[u])
        /\ Owns(open[u], before[u], port[u]["heartbeat"], {})
        /\ Kept(open[u], before[u], port[u])
    <2>1. pc[u] = "new"
      BY DEF OpenMutex
    <2>2. pc[u] \in UserLabels \ {"gone"}
      BY <2>1 DEF UserLabels
    <2> QED BY <2>1, <2>2, TypesOf, UserAccounts DEF UserInv
  <1>2. CASE Ends(u)
    BY <1>2, EndingKeepsPorts
  <1>3. CASE InitError(u, Held(u)) /\ UNCHANGED before
    <2>1. Held(u) \in Holdings /\ Held(u).open = open[u] /\ Held(u).port = port[u]
      BY TypesOf
    <2>2. Kept(Held(u).open, before[u], Held(u).port) /\ Unopened(Held(u).port)
      BY ONLY <1>1, <2>1
    <2> QED BY <1>1, <1>3, <2>1, <2>2, FailingKeepsPorts
  <1>4. CASE /\ Goto(u, "devices") /\ Becomes(u, Opened(Held(u), "des_mutex"))
             /\ queue' = [queue EXCEPT ![u] = "allocated"] /\ UNCHANGED before
             /\ IsFree(Held(u))
    <2>1. "des_mutex" \in Fields
      BY DEF Fields
    <2>2. PICK d \in Descriptors \ open[u], o \in SUBSET Descriptors, p \in [Fields -> Int] :
             /\ Opened(Held(u), "des_mutex").open = o /\ o = open[u] \cup {d}
             /\ Opened(Held(u), "des_mutex").port = p /\ p["des_mutex"] = d
             /\ \A g \in Fields \ {"des_mutex"} : p[g] = port[u][g]
      BY <1>4, <2>1, TypesOf, OpenedIsNew DEF Holdings
    <2>3. Owns(o, before[u], port[u]["heartbeat"], {} \cup {d})
      BY <1>1, <2>2, TypesOf, OwningMore
    <2>4. /\ p["heartbeat"] = port[u]["heartbeat"] /\ p["bus"] = 0
          /\ p["interrupt_gpio"] = 0 /\ {} \cup {d} = {p["des_mutex"]}
      BY <1>1, <2>2 DEF Unopened, Fields
    <2>5. UserInv("devices", o, before[u], p, "allocated")
      BY <2>3, <2>4 DEF UserInv
    <2>6. /\ pc' = [pc EXCEPT ![u] = "devices"] /\ open' = [open EXCEPT ![u] = o]
          /\ before' = [before EXCEPT ![u] = before[u]] /\ port' = [port EXCEPT ![u] = p]
          /\ queue' = [queue EXCEPT ![u] = "allocated"]
      BY <1>4, <2>2, TypesOf DEF Becomes, Goto
    <2>7. "devices" \in UserLabels /\ before[u] \in SUBSET Descriptors
      BY TypesOf DEF UserLabels
    <2> QED BY <2>5, <2>6, <2>7, OneUserAtATime
  <1> QED BY <1>2, <1>3, <1>4 DEF OpenMutex

\* The bus, and the pin if there is one, get descriptors that are not open; the port
\* then owns one for each of its devices.
LEMMA OpenDevicesKeepsPorts ==
    ASSUME PortInv, NEW u \in Users, OpenDevices(u)
    PROVE  PortInv'
  <1> DEFINE onBus == linux_i2c_open(Held(u))
             unpinned == GpioExported(gpio_init(onBus))
             onPin == IF UseInterrupt THEN gpio_open(unpinned) ELSE onBus
  <1>1. PICK h \in Holdings, b \in SUBSET Descriptors, m \in Int, t \in Int :
           /\ h = Held(u) /\ b = before[u] /\ m = h.port["des_mutex"] /\ t = h.port["heartbeat"]
           /\ h.port = port[u] /\ h.open = open[u]
    <2>1. Held(u) \in Holdings /\ before[u] \in SUBSET Descriptors
          /\ Held(u).port = port[u] /\ Held(u).open = open[u]
      BY TypesOf
    <2>2. port[u]["des_mutex"] \in Int /\ port[u]["heartbeat"] \in Int
      BY TypesOf DEF Fields
    <2> QED BY <2>1, <2>2
  <1>2. /\ Owns(h.open, b, t, {m}) /\ queue[u] = "allocated"
        /\ h.port["bus"] = 0 /\ h.port["interrupt_gpio"] = 0
    BY <1>1, TypesOf DEF OpenDevices, UserInv
  <1>3. /\ h.open \in SUBSET Descriptors /\ h.port \in [Fields -> Int]
    BY DEF Holdings
  <1>4. ASSUME InitError(u, [Held(u) EXCEPT !.port.bus = Closed])
        PROVE  PortInv'
    <2>1. PICK r \in Holdings : /\ r = [Held(u) EXCEPT !.port.bus = Closed]
                               /\ r.open = h.open
                               /\ r.port = [h.port EXCEPT !["bus"] = Closed]
      BY <1>1, ClosedField DEF Fields
    <2>2. /\ r.open = h.open /\ r.port["des_mutex"] = m /\ r.port["heartbeat"] = t
          /\ r.port["bus"] = Closed /\ r.port["interrupt_gpio"] = 0
      BY <1>1, <1>2, <1>3, <2>1 DEF Fields
    <2>3. /\ {m} \subseteq {r.port[f] : f \in Fields}
          /\ \A f \in Fields \ {"heartbeat"} : r.port[f] \in {m} \cup {0, Closed}
      BY <2>2 DEF Fields
    <2>4. r.port \in [Fields -> Int]
      BY DEF Holdings
    <2>5. Kept(r.open, before[u], r.port)
      <3> DEFINE S == {m}
      <3>1. Owns(r.open, b, r.port["heartbeat"], S)
        BY ONLY <1>2, <2>2
      <3>2. /\ S \subseteq {r.port[f] : f \in Fields}
            /\ \A f \in Fields \ {"heartbeat"} : r.port[f] \in S \cup {0, Closed}
        BY ONLY <2>3
      <3>3. r.open \in SUBSET Descriptors
        BY DEF Holdings
      <3> HIDE DEF S
      <3>4. Kept(r.open, b, r.port)
        BY ONLY <2>4, <3>1, <3>2, <3>3, OwningAccounts
      <3> QED BY ONLY <1>1, <3>4
    <2> QED BY <1>2, <1>4, <2>1, <2>5, FailingKeepsPorts DEF OpenDevices
  <1>5. SUFFICES ASSUME IsFree(Held(u)),
                        \/ InitError(u, onBus)
                        \/ UseInterrupt /\ InitError(u, unpinned)
                        \/ /\ UseInterrupt => IsFree(unpinned)
                           /\ \/ InitError(u, onPin)
                              \/ Goto(u, "idle") /\ Becomes(u, onPin) /\ UNCHANGED queue
                 PROVE  PortInv'
    BY <1>4 DEF OpenDevices
  <1>6. PICK i \in Descriptors \ h.open, r \in Holdings :
           /\ r = onBus /\ r.open = h.open \cup {i} /\ r.port["bus"] = i
           /\ \A g \in Fields \ {"bus"} : r.port[g] = h.port[g]
    BY <1>1, <1>5, OpenedIsNew DEF linux_i2c_open, Fields
  <1>7. /\ Owns(r.open, b, t, {m} \cup {i}) /\ r.port["des_mutex"] = m
        /\ r.port["heartbeat"] = t /\ r.port["interrupt_gpio"] = 0
        /\ r.open \in SUBSET Descriptors /\ r.port \in [Fields -> Int]
    <2>1. Owns(r.open, b, t, {m} \cup {i})
      BY <1>2, <1>3, <1>6, OwningMore
    <2> QED BY <1>1, <1>2, <1>6, <2>1 DEF Fields, Holdings
  <1>8. Kept(r.open, b, r.port)
    <2> DEFINE S == {m} \cup {i}
    <2>1. /\ S \subseteq {r.port[f] : f \in Fields}
          /\ \A f \in Fields \ {"heartbeat"} : r.port[f] \in S \cup {0, Closed}
      BY <1>6, <1>7 DEF Fields
    <2>2. Owns(r.open, b, r.port["heartbeat"], S)
      BY ONLY <1>7
    <2> HIDE DEF S
    <2> QED BY ONLY <1>7, <2>1, <2>2, OwningAccounts
  <1>9. PICK n \in Holdings :
           /\ n = unpinned /\ n.open = r.open /\ n.port["interrupt_gpio"] = Closed
           /\ \A g \in Fields \ {"interrupt_gpio"} : n.port[g] = r.port[g]
    <2>1. unpinned = [r EXCEPT !.port.interrupt_gpio = Closed]
      BY <1>6 DEF GpioExported, gpio_init
    <2>2. PICK n \in Holdings : /\ n = [r EXCEPT !.port.interrupt_gpio = Closed]
                               /\ n.open = r.open
                               /\ n.port = [r.port EXCEPT !["interrupt_gpio"] = Closed]
      BY ClosedField DEF Fields
    <2>3. /\ n.open = r.open /\ n.port["interrupt_gpio"] = Closed
          /\ \A g \in Fields \ {"interrupt_gpio"} : n.port[g] = r.port[g]
      BY ONLY <1>7, <2>2 DEF Fields
    <2> QED BY <2>1, <2>2, <2>3
  <1>10. /\ n.open \in SUBSET Descriptors /\ n.port \in [Fields -> Int]
         /\ n.port["des_mutex"] = m /\ n.port["bus"] = i /\ n.port["heartbeat"] = t
    BY <1>6, <1>7, <1>9 DEF Fields, Holdings
  <1>11. Kept(n.open, b, n.port)
    <2>1. /\ {m} \cup {i} \subseteq {n.port[f] : f \in Fields}
          /\ \A f \in Fields \ {"heartbeat"} : n.port[f] \in ({m} \cup {i}) \cup {0, Closed}
      BY <1>9, <1>10 DEF Fields
    <2> DEFINE S == {m} \cup {i}
    <2>2. Owns(n.open, b, n.port["heartbeat"], S)
      BY ONLY <1>7, <1>9, <1>10
    <2>3. /\ S \subseteq {n.port[f] : f \in Fields}
          /\ \A f \in Fields \ {"heartbeat"} : n.port[f] \in S \cup {0, Closed}
      BY ONLY <2>1
    <2> HIDE DEF S
    <2> QED BY ONLY <1>10, <2>2, <2>3, OwningAccounts
  <1>12. CASE InitError(u, onBus)
    BY <1>1, <1>2, <1>6, <1>8, <1>12, FailingKeepsPorts DEF OpenDevices
  <1>13. CASE InitError(u, unpinned)
    BY <1>1, <1>2, <1>9, <1>11, <1>13, FailingKeepsPorts DEF OpenDevices
  <1>14. CASE /\ UseInterrupt => IsFree(unpinned)
              /\ \/ InitError(u, onPin)
                 \/ Goto(u, "idle") /\ Becomes(u, onPin) /\ UNCHANGED queue
    <2>1. PICK w \in Holdings :
             /\ w = onPin /\ Owns(w.open, b, w.port["heartbeat"], {w.port[f] : f \in UsedFields})
             /\ UseInterrupt \/ w.port["interrupt_gpio"] = 0
      <3>1. CASE ~UseInterrupt
        <4>1. r = onPin
          BY <1>6, <3>1
        <4>2. {m} \cup {i} = {r.port[f] : f \in UsedFields}
          BY <1>6, <1>7, <3>1 DEF UsedFields
        <4>3. Owns(r.open, b, r.port["heartbeat"], {r.port[f] : f \in UsedFields})
          BY ONLY <1>7, <4>2
        <4> HIDE DEF onPin, onBus
        <4> QED BY <1>7, <4>1, <4>3
      <3>2. CASE UseInterrupt
        <4>1. "interrupt_gpio" \in Fields /\ IsFree(n)
          BY <1>9, <1>14, <3>2 DEF Fields
        <4>2. PICK d \in Descriptors \ n.open, w \in Holdings :
                 /\ w = Opened(n, "interrupt_gpio") /\ w.open = n.open \cup {d}
                 /\ w.port["interrupt_gpio"] = d
                 /\ \A g \in Fields \ {"interrupt_gpio"} : w.port[g] = n.port[g]
          BY <4>1, OpenedIsNew
        <4>3. w = onPin
          BY <1>9, <3>2, <4>2 DEF gpio_open
        <4>4. /\ w.port["des_mutex"] = m /\ w.port["bus"] = i /\ w.port["heartbeat"] = t
          BY <1>10, <4>2 DEF Fields
        <4>5. ({m} \cup {i}) \cup {d} = {w.port[f] : f \in UsedFields}
          BY <3>2, <4>2, <4>4 DEF UsedFields
        <4>6. Owns(n.open, b, t, {m} \cup {i})
          BY ONLY <1>7, <1>9
        <4>7. Owns(w.open, b, t, ({m} \cup {i}) \cup {d})
          BY ONLY <1>10, <4>2, <4>6, OwningMore
        <4>8. Owns(w.open, b, w.port["heartbeat"], {w.port[f] : f \in UsedFields})
          BY ONLY <4>4, <4>5, <4>7
        <4> HIDE DEF onPin
        <4> QED BY <3>2, <4>3, <4>8
      <3> QED BY <3>1, <3>2
    <2> HIDE DEF onPin
    <2>2. w.open \in SUBSET Descriptors /\ w.port \in [Fields -> Int]
      BY DEF Holdings
    <2>3. UserInv("idle", w.open, b, w.port, "allocated")
      BY <2>1 DEF UserInv
    <2>4. "idle" \in UserLabels \ {"gone"}
      BY DEF UserLabels
    <2>5. CASE InitError(u, onPin)
      <3>1. Kept(w.open, b, w.port)
        BY <2>2, <2>3, <2>4, UserAccounts
      <3> QED BY <1>1, <1>2, <2>1, <2>5, <3>1, FailingKeepsPorts DEF OpenDevices
    <2>6. CASE Goto(u, "idle") /\ Becomes(u, onPin) /\ UNCHANGED queue
      <3>1. /\ pc' = [pc EXCEPT ![u] = "idle"] /\ open' = [open EXCEPT ![u] = w.open]
            /\ before' = [before EXCEPT ![u] = b] /\ port' = [port EXCEPT ![u] = w.port]
            /\ queue' = [queue EXCEPT ![u] = "allocated"]
        BY <1>1, <1>2, <2>1, <2>6, TypesOf DEF Becomes, Goto, OpenDevices
      <3> QED BY <2>2, <2>3, <2>4, <3>1, OneUserAtATime
    <2> QED BY <1>14, <2>5, <2>6
  <1> HIDE DEF onBus, unpinned, onPin
  <1> QED BY <1>5, <1>12, <1>13, <1>14

\* A timer gets a descriptor that is not open, and gives back its own.
LEMMA HeartbeatKeepsPorts ==
    ASSUME PortInv, NEW u \in Users, Heartbeat(u)
    PROVE  PortInv'
  <1>1. /\ pc[u] \in {"new", "idle", "lock", "transfer", "failed"}
        /\ pc[u] \in UserLabels /\ UNCHANGED <<pc, before, queue>>
    BY DEF Heartbeat, HeartbeatStart, HeartbeatStop, UserLabels
  <1>2. UserInv(pc[u], open[u], before[u], port[u], queue[u])
    BY TypesOf
  <1>3. PICK d \in Int, o \in SUBSET Descriptors, p \in [Fields -> Int] :
           /\ Becomes(u, [port |-> p, open |-> o])
           /\ p["heartbeat"] = d /\ \A f \in Fields \ {"heartbeat"} : p[f] = port[u][f]
           /\ \/ /\ port[u]["heartbeat"] = Closed /\ d \in Descriptors \ open[u]
                 /\ o = open[u] \cup {d}
              \/ /\ port[u]["heartbeat"] # Closed /\ d = Closed
                 /\ o = open[u] \ {port[u]["heartbeat"]}
    <2>1. "heartbeat" \in Fields /\ Closed \in Int
      BY DEF Fields, Closed
    <2>2. CASE HeartbeatStart(u)
      <3>1. /\ IsFree(Held(u)) /\ Becomes(u, Opened(Held(u), "heartbeat"))
            /\ port[u]["heartbeat"] = Closed
        BY <2>2 DEF HeartbeatStart, IsRunning
      <3>2. PICK d \in Descriptors \ open[u], h \in Holdings :
               /\ h = Opened(Held(u), "heartbeat") /\ h.open = open[u] \cup {d}
               /\ h.port["heartbeat"] = d
               /\ \A g \in Fields \ {"heartbeat"} : h.port[g] = port[u][g]
        BY <2>1, <3>1, TypesOf, OpenedIsNew
      <3>3. /\ h.open \in SUBSET Descriptors /\ h.port \in [Fields -> Int] /\ d \in Int
            /\ Becomes(u, [port |-> h.port, open |-> h.open])
        BY <3>1, <3>2 DEF Holdings, Descriptors, Becomes
      <3> QED BY <3>1, <3>2, <3>3
    <2>3. CASE HeartbeatStop(u)
      <3> DEFINE p == [port[u] EXCEPT !.heartbeat = Closed]
                 o == open[u] \ {port[u].heartbeat}
      <3>1. port[u].heartbeat # Closed /\ Becomes(u, [port |-> p, open |-> o])
        BY <2>3 DEF HeartbeatStop, IsRunning
      <3>2. /\ o \in SUBSET Descriptors /\ p \in [Fields -> Int] /\ p["heartbeat"] = Closed
            /\ \A f \in Fields \ {"heartbeat"} : p[f] = port[u][f]
        BY <2>1, TypesOf
      <3> HIDE DEF p
      <3> QED BY <2>1, <3>1, <3>2
    <2> QED BY <2>2, <2>3 DEF Heartbeat
  <1>4. ASSUME NEW S, Owns(open[u], before[u], port[u]["heartbeat"], S)
        PROVE  Owns(o, before[u], p["heartbeat"], S)
    BY <1>3, <1>4, TypesOf, TimerMore, TimerLess
  <1>6. ASSUME pc[u] \in {"new", "idle", "lock", "transfer"}
        PROVE  UserInv(pc[u], o, before[u], p, queue[u])
    <2>1. CASE pc[u] = "new"
      <3>1. Owns(o, before[u], p["heartbeat"], {}) /\ queue[u] = "none"
        BY <1>2, <1>4, <2>1 DEF UserInv
      <3>2. Unopened(p)
        BY <1>2, <1>3, <2>1 DEF UserInv, Unopened, Fields
      <3> QED BY <2>1, <3>1, <3>2 DEF UserInv
    <2>2. CASE pc[u] \in {"idle", "lock", "transfer"}
      <3> DEFINE S == {port[u][f] : f \in UsedFields}
      <3>1. Owns(open[u], before[u], port[u]["heartbeat"], S) /\ queue[u] = "allocated"
        BY <1>2, <2>2 DEF UserInv
      <3>2. S = {p[f] : f \in UsedFields}
        BY <1>3 DEF UsedFields, Fields
      <3>3. UseInterrupt \/ p["interrupt_gpio"] = 0
        BY <1>2, <1>3, <2>2 DEF UserInv, Fields
      <3> HIDE DEF S
      <3>4. Owns(o, before[u], p["heartbeat"], S)
        BY <1>4, <3>1
      <3>5. Owns(o, before[u], p["heartbeat"], {p[f] : f \in UsedFields})
        BY ONLY <3>2, <3>4
      <3> QED BY <2>2, <3>1, <3>3, <3>5 DEF UserInv
    <2> QED BY <1>6, <2>1, <2>2
  <1>7. ASSUME pc[u] = "failed"
        PROVE  UserInv(pc[u], o, before[u], p, queue[u])
    <2>1. Kept(open[u], before[u], port[u])
      BY <1>2, <1>7 DEF UserInv
    <2>2. Closed \notin Descriptors /\ "heartbeat" \in Fields
      BY DEF Closed, Descriptors, Fields
    <2>3. Kept(o, before[u], p)
      <3>1. \A f \in Fields : p[f] \in before[u] => p[f] = Stdin
        BY <1>3, <2>1, <2>2, TypesOf DEF Kept
      <3>2. before[u] \ o \subseteq {Stdin}
        BY <1>3, <2>1, <2>2 DEF Kept
      <3>3. o \ before[u] \subseteq {p[f] : f \in Fields}
        <4> SUFFICES ASSUME NEW x \in o \ before[u] PROVE \E f \in Fields : x = p[f]
          OBVIOUS
        <4>1. CASE x = d
          BY <1>3, <2>2, <4>1
        <4>2. CASE x # d
          <5>1. x \in open[u] \ before[u] /\ x # port[u]["heartbeat"]
            BY <1>3, <2>2, <4>2, TypesOf
          <5>2. PICK f \in Fields : x = port[u][f]
            BY <2>1, <5>1 DEF Kept
          <5> QED BY <1>3, <5>1, <5>2
        <4> QED BY <4>1, <4>2
      <3> QED BY <3>1, <3>2, <3>3 DEF Kept
    <2>4. Unopened(port[u]) => Unopened(p)
      BY <1>3 DEF Unopened, Fields
    <2> QED BY <1>2, <1>7, <2>3, <2>4 DEF UserInv
  <1>8. /\ pc' = [pc EXCEPT ![u] = pc[u]] /\ open' = [open EXCEPT ![u] = o]
        /\ before' = [before EXCEPT ![u] = before[u]] /\ port' = [port EXCEPT ![u] = p]
        /\ queue' = [queue EXCEPT ![u] = queue[u]]
    BY <1>1, <1>3, TypesOf DEF Becomes
  <1>9. UserInv(pc[u], o, before[u], p, queue[u])
    BY <1>1, <1>6, <1>7
  <1>10. before[u] \in SUBSET Descriptors /\ queue[u] \in {"none", "allocated", "freed"}
    BY TypesOf
  <1> QED BY <1>1, <1>8, <1>9, <1>10, OneUserAtATime

\* linux_deinit closes the devices; after evq_init failed, what the zeroed fields name.
LEMMA CloseSensorKeepsPorts ==
    ASSUME PortInv, NEW u \in Users, CloseSensor(u)
    PROVE  PortInv'
  <1>1. CASE Ends(u)
    BY <1>1, EndingKeepsPorts
  <1>2. CASE Deinit(u) /\ queue[u] # "freed"
    <2>1. PICK b \in SUBSET Descriptors, p \in [Fields -> Int], o \in SUBSET Descriptors :
             /\ b = before[u] /\ p = port[u]
             /\ o = PinClosed(linux_i2c_close(Held(u))).open \ {port[u].des_mutex}
             /\ o = open[u] \ {p[f] : f \in UsedFields}
      <3>1. PinClosed(linux_i2c_close(Held(u))).open \ {port[u].des_mutex}
               = open[u] \ {port[u][f] : f \in UsedFields}
        BY TypesOf
        DEF PinClosed, gpio_close, linux_i2c_close, Held, UsedFields, Fields, Holdings
      <3>2. open[u] \ {port[u][f] : f \in UsedFields} \in SUBSET Descriptors
        BY TypesOf
      <3>3. before[u] \in SUBSET Descriptors /\ port[u] \in [Fields -> Int]
        BY TypesOf
      <3> QED BY ONLY <3>1, <3>2, <3>3
    <2>2. PICK q \in {"none", "allocated", "freed"} :
             q = Freed(u) /\ (q = "freed" <=> queue[u] # "none")
      BY DEF Freed
    <2>3. /\ pc' = [pc EXCEPT ![u] = "closed"] /\ open' = [open EXCEPT ![u] = o]
          /\ before' = [before EXCEPT ![u] = b] /\ port' = [port EXCEPT ![u] = p]
          /\ queue' = [queue EXCEPT ![u] = q]
      BY <1>2, <2>1, <2>2, TypesOf DEF Deinit, Goto
    <2>4. UserInv(pc[u], open[u], b, p, queue[u])
      BY <2>1, TypesOf
    <2>5. CASE pc[u] \in {"idle", "transfer"}
      <3>1. Owns(open[u], b, p["heartbeat"], {p[f] : f \in UsedFields})
        BY <2>4, <2>5 DEF UserInv
      <3>2. Owns(o, b, p["heartbeat"], {})
        BY <2>1, <3>1 DEF Owns
      <3>3. Kept(o, b, p)
        <4>1. pc[u] \in UserLabels \ {"gone"}
          BY <2>5 DEF UserLabels
        <4>2. Kept(open[u], b, p)
          BY <2>4, <4>1, TypesOf, UserAccounts
        <4>3. o \ b \subseteq {p[f] : f \in Fields} /\ b \ o \subseteq {Stdin}
          BY <3>2 DEF Owns, Fields
        <4> QED BY <4>2, <4>3 DEF Kept
      <3> QED BY <2>3, <2>1, <3>2, <3>3, OneUserAtATime DEF UserInv, UserLabels
    <2>6. CASE pc[u] = "failed"
      <3>1. queue[u] = "none" /\ Kept(open[u], b, p) /\ Unopened(p)
        BY <1>2, <2>4, <2>6, TypesOf DEF UserInv
      <3>2. o = open[u] \ {p["bus"]} /\ "bus" \in Fields
        BY <2>1, <3>1 DEF Unopened, UsedFields, Fields
      <3>3. Kept(o, b, p)
        BY <3>1, <3>2, ClosingAccounts
      <3>4. q = "none" \/ q = "allocated"
        BY <2>2, <3>1
      <3> QED BY <2>3, <2>1, <3>3, <3>4, OneUserAtATime DEF UserInv, UserLabels
    <2> QED BY <2>5, <2>6 DEF CloseSensor
  <1> QED BY <1>1, <1>2 DEF CloseSensor

LEMMA NewPortKeepsPorts ==
    ASSUME PortInv, NEW u \in Users, NewPort(u)
    PROVE  PortInv'
  <1>1. /\ pc' = [pc EXCEPT ![u] = "new"] /\ open' = [open EXCEPT ![u] = open[u]]
        /\ before' = [before EXCEPT ![u] = open[u]]
        /\ port' = [port EXCEPT ![u] = ZeroedPort] /\ queue' = [queue EXCEPT ![u] = "none"]
    BY TypesOf DEF NewPort, Goto
  <1>2. ZeroedPort \in [Fields -> Int] /\ "new" \in UserLabels
    BY DEF ZeroedPort, Fields, Closed, UserLabels
  <1>3. open[u] \in SUBSET Descriptors /\ Closed \notin open[u]
    BY TypesOf DEF Descriptors, Closed
  <1>4. UserInv("new", open[u], open[u], ZeroedPort, "none")
    BY <1>3 DEF UserInv, Owns, Unopened, ZeroedPort
  <1> QED BY <1>1, <1>2, <1>3, <1>4, OneUserAtATime

LEMMA PortInductive == PortInv /\ [Next]_vars => PortInv'
  <1> SUFFICES ASSUME PortInv, [Next]_vars PROVE PortInv'
    OBVIOUS
  <1>1. ASSUME NEW c \in Creators, Creator(c) PROVE PortInv'
    BY <1>1, CreatorKeepsPorts
  <1>2. ASSUME NEW u \in Users, OpenSensor(u) PROVE PortInv'
    BY <1>2, OpenMutexKeepsPorts, OpenDevicesKeepsPorts DEF OpenSensor
  <1>3. ASSUME NEW u \in Users, WantBus(u) \/ Unlock(u) PROVE PortInv'
    <2>1. /\ pc[u] \in {"idle", "lock", "transfer"} /\ UNCHANGED <<open, before, port, queue>>
          /\ \E label \in {"idle", "lock", "transfer"} : pc' = [pc EXCEPT ![u] = label]
      BY <1>3 DEF WantBus, Unlock, Goto, resources
    <2> QED BY <2>1, UsingKeepsPorts
  <1>4. ASSUME NEW u \in Users, Lock(u) PROVE PortInv'
    <2>1. CASE Ends(u)
      BY <2>1, EndingKeepsPorts
    <2>2. CASE pc' = [pc EXCEPT ![u] = "transfer"] /\ UNCHANGED resources
      <3>1. pc[u] = "lock" /\ UNCHANGED <<open, before, port, queue>>
        BY <1>4, <2>2 DEF Lock, resources
      <3> QED BY <2>2, <3>1, UsingKeepsPorts
    <2> QED BY <1>4, <2>1, <2>2 DEF Lock, Goto
  <1>5. ASSUME NEW u \in Users, Heartbeat(u) PROVE PortInv'
    BY <1>5, HeartbeatKeepsPorts
  <1>6. ASSUME NEW u \in Users, CloseSensor(u) PROVE PortInv'
    BY <1>6, CloseSensorKeepsPorts
  <1>7. ASSUME NEW u \in Users, NewPort(u) PROVE PortInv'
    BY <1>7, NewPortKeepsPorts
  <1>8. ASSUME NEW u \in Users, Killed(u) PROVE PortInv'
    BY <1>8, EndingKeepsPorts DEF Killed
  <1>9. CASE UNCHANGED vars
    BY <1>9 DEF vars, resources, PortInv, PortTypes
  <1> QED BY <1>1, <1>2, <1>3, <1>4, <1>5, <1>6, <1>7, <1>8, <1>9 DEF Next

\* sensor_close of a sensor that was opened leaves the descriptors that were open
\* before its port and the one of a heartbeat that was not stopped, and whatever fails,
\* a port closes no descriptor of others but the standard input and opens none that it
\* does not name, for any number of processes, descriptors, mappings and openings.
THEOREM DescriptorsAlwaysReturned == Spec => []DescriptorsReturned
  <1>1. PortInv => DescriptorsReturned
    <2> SUFFICES ASSUME PortInv, NEW u \in Users
                 PROVE  ReturnedOnClose(u) /\ Accounted(u)
      BY DEF DescriptorsReturned
    <2>1. ReturnedOnClose(u)
      BY DEF PortInv, UserInv, Owns, Timer, ReturnedOnClose
    <2>2. ASSUME pc[u] # "gone"
          PROVE  Kept(open[u], before[u], port[u])
      BY <2>2, TypesOf, UserAccounts
    <2>3. DOMAIN ZeroedPort = Fields
      BY DEF ZeroedPort, Fields
    <2>4. Accounted(u)
      BY <2>2, <2>3 DEF Kept, Accounted
    <2> QED BY <2>1, <2>4
  <1>2. Init /\ [][Next]_vars => []PortInv
    BY PortInitially, PortInductive, PTL
  <1> QED BY <1>1, <1>2, PTL DEF Spec
=============================================================================
