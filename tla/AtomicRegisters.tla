-------------------------- MODULE AtomicRegisters --------------------------
(***************************************************************************)
(* What sensor_indexed_read and sensor_indexed_write promise to threads of *)
(* any number of processes that use one probe: every call acts on the      *)
(* register it names, once, at some moment between its begin and its       *)
(* return, when it returns E_OK; a call that returns an error may or may   *)
(* not have acted.  When the probe restarts its registers change, and the  *)
(* calls that have not acted yet may be led astray: they still act at most *)
(* once, but on any register.  SharedBus, the transactions of the code     *)
(* under the mutex all processes share, implements this module.            *)
(***************************************************************************)
CONSTANTS Clients,      \* threads, of any process
          Registers,
          Values,       \* of a register, in the byte order of the host
          Idle          \* a client that is in no call

VARIABLES regs,         \* the registers of the probe
          call,         \* the call each client is in, or Idle
          value,        \* what it writes, or what it has read; Idle outside a call
          acted,        \* clients whose call has taken effect
          disturbed,    \* clients whose call a restart has led astray
          answer        \* what each client's last call returned

registerVars == <<regs, call, value, acted, disturbed, answer>>

Calls == [op : {"read", "write"}, reg : Registers]

Read(v) == [ret |-> "E_OK", val |-> v]
Written == [ret |-> "E_OK"]
Error == [ret |-> "error"]
Pending == [ret |-> "pending"]

Init ==
    /\ regs \in [Registers -> Values]
    /\ call = [c \in Clients |-> Idle]
    /\ value = [c \in Clients |-> Idle]
    /\ acted = {}
    /\ disturbed = {}
    /\ answer = [c \in Clients |-> Pending]

Begin(c) ==
    /\ call[c] = Idle
    /\ call' \in {[call EXCEPT ![c] = k] : k \in Calls}
    /\ value' \in {[value EXCEPT ![c] = v] : v \in Values}
    /\ answer' = [answer EXCEPT ![c] = Pending]
    /\ UNCHANGED <<regs, acted, disturbed>>

Act(c) ==
    /\ call[c] # Idle
    /\ c \notin acted \cup disturbed
    /\ acted' = acted \cup {c}
    /\ \/ /\ call[c].op = "read"
          /\ value' = [value EXCEPT ![c] = regs[call[c].reg]]
          /\ UNCHANGED regs
       \/ /\ call[c].op = "write"
          /\ regs' = [regs EXCEPT ![call[c].reg] = value[c]]
          /\ UNCHANGED value
    /\ UNCHANGED <<call, disturbed, answer>>

\* The bytes of the wrong register may be brought into the wrong order, too.
ActAstray(c) ==
    /\ c \in disturbed \ acted
    /\ acted' = acted \cup {c}
    /\ disturbed' = disturbed \ {c}
    /\ \E v \in Values :
          \/ /\ call[c].op = "read"
             /\ value' = [value EXCEPT ![c] = v]
             /\ UNCHANGED regs
          \/ /\ call[c].op = "write"
             /\ \E r \in Registers : regs' = [regs EXCEPT ![r] = v]
             /\ UNCHANGED value
    /\ UNCHANGED <<call, answer>>

\* A failing read leaves anything in the caller's buffer.
Fail(c) ==
    /\ call[c] # Idle
    /\ c \notin acted
    /\ \/ call[c].op = "read" /\ value' \in {[value EXCEPT ![c] = v] : v \in Values}
       \/ call[c].op = "write" /\ UNCHANGED value
    /\ disturbed' = disturbed \ {c}
    /\ UNCHANGED <<regs, call, acted, answer>>

Return(c) ==
    /\ call[c] # Idle
    /\ call' = [call EXCEPT ![c] = Idle]
    /\ acted' = acted \ {c}
    /\ disturbed' = disturbed \ {c}
    /\ \/ /\ c \in acted
          /\ answer' = [answer EXCEPT ![c] = IF call[c].op = "read" THEN Read(value[c])
                                             ELSE Written]
       \/ answer' = [answer EXCEPT ![c] = Error]
    /\ value' = [value EXCEPT ![c] = Idle]
    /\ UNCHANGED regs

Restart ==
    /\ regs' \in [Registers -> Values]
    /\ disturbed' \in SUBSET {c \in Clients \ acted : call[c] # Idle}
    /\ UNCHANGED <<call, value, acted, answer>>

Next ==
    \/ \E c \in Clients : Begin(c) \/ Act(c) \/ ActAstray(c) \/ Fail(c) \/ Return(c)
    \/ Restart

Spec == Init /\ [][Next]_registerVars
=============================================================================
