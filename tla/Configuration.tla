--------------------------- MODULE Configuration ---------------------------
(***************************************************************************)
(* The functions of core/smartsensor.c as what they do to the registers of *)
(* a probe, with those of core/function_block.c and core/alarm.c that make *)
(* one access.  Each is a record with the steps it makes, one for each     *)
(* access to a register; the function returns at the first access that     *)
(* fails, and every access is checked against the register table.  What a  *)
(* function converts between the wire and its caller is left out.          *)
(***************************************************************************)
EXTENDS Registers, Sequences

CONSTANT WaitPolls  \* how often wait_for_device_ready looks at the status

ASSUME ConfigurationAssumption == WaitPolls \in Nat \ {0}

Step(op, name, size, arg) ==
    [op |-> op, reg |-> name, size |-> size, arg |-> arg]

Read(name, size) == Step("read", name, size, {})
Write(name, size, value) == Step("write", name, size, value)

\* Writes what was read last with the bits set added and the bits clear removed.
WriteBits(name, size, set, clear) ==
    Step("modify", name, size, [set |-> set, clear |-> clear])

Trigger(command) == Write("TRIGGER_REQUESTS", TriggerSize, command)

Function(name, steps) == [name |-> name, steps |-> steps]

-----------------------------------------------------------------------------
(* Functions of one access *)

\* The functions that read: the register and the size of the caller's variable.
Getters == {
    <<"get_sensor_reading", "SENSOR_DATA", Sizeof.float>>,
    <<"get_sensor_gain", "SENSOR_GAIN", Sizeof.float>>,
    <<"get_sensor_offset", "SENSOR_OFFSET", Sizeof.float>>,
    <<"get_device_name", "DEVICE_NAME", Sizeof.device_name_t>>,
    <<"get_sensor_unit", "SENSOR_UNIT", Sizeof.sensor_unit_t>>,
    <<"get_sensor_descriptor", "SENSOR_DESCRIPTOR", DescriptorSize>>,
    <<"get_sensor_name", "SENSOR_NAME", 16>>,
    <<"get_io_count", "NUMBER_OF_SENSORS", Sizeof.io_count_t>>,
    <<"get_operating_stat", "OPERATING_TEMP", Sizeof.operating_stat_t>>,
    <<"get_system_status", "SYSTEM_STATUS", Sizeof.system_status_t>>,
    <<"get_interrupt_status", "INTERRUPT_STATUS", Sizeof.u16>>,
    <<"get_current_time", "CURRENT_TIME", Sizeof.u32>>,
    <<"get_calibration_date", "CALIBRATION_DATE", Sizeof.u16>>,
    <<"get_manufacturing_date", "MANUFACTURED_DATE", Sizeof.u16>>,
    <<"get_sample_time", "EVENT_0_TIME_BASE", Sizeof.u16>>}

Getter(g) == Function(g[1], <<Read(g[2], g[3])>>)

\* The functions that write, in the same way; those of datalog.c and the ones below
\* whose argument matters aside.
Setters == {
    <<"set_sensor_gain", "SENSOR_GAIN", Sizeof.float>>,
    <<"set_sensor_offset", "SENSOR_OFFSET", Sizeof.float>>,
    <<"set_sensor_descriptor", "SENSOR_DESCRIPTOR", DescriptorSize>>,
    <<"set_sensor_name", "SENSOR_NAME", 16>>,
    <<"set_current_time", "CURRENT_TIME", Sizeof.u32>>,
    <<"set_device_name", "DEVICE_NAME", Sizeof.device_name_t>>}

Setter(s, value) == Function(s[1], <<Write(s[2], s[3], value)>>)

fb_program_read == Getter(<<"fb_program_read", "FUNCTION_BLOCK_PROGRAM", Sizeof.u32>>)
fb_alarm_get_status ==
    Getter(<<"fb_alarm_get_status", "FUNCTION_BLOCK_PROGRAM", Sizeof.u32>>)

fb_program_write(block_data) ==
    Setter(<<"fb_program_write", "FUNCTION_BLOCK_PROGRAM", Sizeof.u32>>, block_data)
fb_param_write(value) ==
    Setter(<<"fb_param_write", "FUNCTION_BLOCK_PARAM", Sizeof.u32>>, value)
fb_alarm_assign_user_param(value) ==
    Setter(<<"fb_alarm_assign_user_param", "FUNCTION_BLOCK_PARAM", Sizeof.float>>, value)

set_interrupt_control(control) ==
    Function("set_interrupt_control",
             <<Write("INTERRUPT_CONTROL", Sizeof.u16, control)>>)

set_sample_time(sample_time) ==
    Function("set_sample_time",
             <<Write("EVENT_0_TIME_BASE", Sizeof.u16, sample_time)>>)

system_control_write_bits(bits) ==
    Function("system_control_write_bits", <<Write("SYSTEM_CONTROL", Sizeof.u16, bits)>>)

soft_reset ==
    Function("soft_reset", <<Trigger("TRIGGER_DEVICE_RESET")>>)

factory_reset ==
    Function("factory_reset", <<Trigger("TRIGGER_FACTORY_RESET")>>)

password_reset ==
    Function("password_reset", <<Trigger("TRIGGER_PASSWORD_RESET")>>)

-----------------------------------------------------------------------------
(* Functions of several accesses *)

\* Mutant: the bits are written without having read the register.
SetBitsUnread(bits) ==
    Function("system_control_set_bits",
             <<WriteBits("SYSTEM_CONTROL", Sizeof.u16, bits, {})>>)

system_control_set_bits(bits) ==
    Function("system_control_set_bits",
             <<Read("SYSTEM_CONTROL", Sizeof.u16),
               WriteBits("SYSTEM_CONTROL", Sizeof.u16, bits, {})>>)

system_control_clear_bits(bits) ==
    Function("system_control_clear_bits",
             <<Read("SYSTEM_CONTROL", Sizeof.u16),
               WriteBits("SYSTEM_CONTROL", Sizeof.u16, {}, bits)>>)

fb_enable == system_control_set_bits({"FUNCTION_BLOCK"})
fb_disable == system_control_clear_bits({"FUNCTION_BLOCK"})

\* A poll ends the waiting when it finds the probe ready; one that fails does not.
wait_for_device_ready ==
    Function("wait_for_device_ready",
             [n \in 1 .. WaitPolls |->
                 Step("poll", "SYSTEM_STATUS", Sizeof.system_status_t, {})])

\* The interrupt control is a register of two bytes and is offered four.  What
\* follows is not reached, the waiting for the probe at the end included.
preset_config ==
    Function("preset_config",
             <<Write("EVENT_0_TIME_BASE", Sizeof.u16, 1),
               Write("INTERRUPT_CONTROL", Sizeof.u32, {"DATA_READY"}),
               Write("SYSTEM_CONTROL", Sizeof.u16, {"EVENT_1_READ"})>>)

\* Of the bits, those that some function names and one of each register that none
\* does: EVENT_0 and EVENT_2_READ.
InterruptBits == {"DATA_READY", "EVENT_0"}
SystemBits == {"EVENT_1_READ", "EVENT_1_LOG", "FUNCTION_BLOCK", "EVENT_2_READ"}

\* first and last are 0 and 0xffffffff, the sample time is DEFAULT_SAMPLE_TIME.
probe_default_init(first, last) ==
    Function("probe_default_init",
             <<Read("INTERRUPT_CONTROL", Sizeof.u16),
               WriteBits("INTERRUPT_CONTROL", Sizeof.u16,
                         InterruptBits \ {"EVENT_0"}, {}),
               Read("SYSTEM_CONTROL", Sizeof.u16),
               WriteBits("SYSTEM_CONTROL", Sizeof.u16, SystemBits \ {"EVENT_2_READ"}, {}),
               Write("EXTRACT_START_TIME", Sizeof.u32, first),
               Write("EXTRACT_END_TIME", Sizeof.u32, last),
               Write("EVENT_0_TIME_BASE", Sizeof.u16, 1),
               Write("EVENT_1_TIME_BASE", Sizeof.u16, 1)>>)

-----------------------------------------------------------------------------
\* Every function, the values it writes aside.
AllFunctions ==
    {Getter(g) : g \in Getters} \cup {Setter(s, {}) : s \in Setters}
    \cup {set_interrupt_control({}), set_sample_time({}), system_control_write_bits({}),
          soft_reset, factory_reset, password_reset, system_control_set_bits({}),
          system_control_clear_bits({}), fb_enable, fb_disable,
          wait_for_device_ready, preset_config, probe_default_init({}, {}),
          fb_program_read, fb_alarm_get_status, fb_program_write({}), fb_param_write({}),
          fb_alarm_assign_user_param({})}
=============================================================================
