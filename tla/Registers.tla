----------------------------- MODULE Registers -----------------------------
(***************************************************************************)
(* The registers of a probe as the library knows them: the I2C addresses   *)
(* of core/registers_i2c.h and the table _def of core/registers.c, whose   *)
(* entries give a register's address on either bus, the number of          *)
(* instances an index selects, what the access flags say and its size in   *)
(* bytes.  A register X_0, X_1, ... is an entry with the name X and a      *)
(* number; all others have the number 0.                                   *)
(***************************************************************************)
EXTENDS Naturals

\* The sizes of the types whose sizeof the table takes.
Sizeof == [u16 |-> 2, u32 |-> 4, float |-> 4,
           sensor_unit_t |-> 4, sensor_password_t |-> 16, device_name_t |-> 32,
           device_name_list_t |-> 192, device_model_name_t |-> 16,
           list_select_t |-> 2, io_list_t |-> 2, system_status_t |-> 2,
           io_count_t |-> 2, operating_stat_t |-> 2, fault_stat_t |-> 2]

TriggerSize == 2
DescriptorSize == 8

-----------------------------------------------------------------------------
(* registers_i2c.h: addresses up to 0xff, which the probe answers directly *)

R == [DEVICE_ID |-> \h00, VERSION |-> \h04, HARDWARE_VERSION |-> \h08,
      DEVICE_LIST_INDEX |-> \h0c, USER_HOURS |-> \h0e,
      EVENT_0_TIMEBASE |-> \h10, EVENT_1_TIMEBASE |-> \h12,
      SYSTEM_CONTROL |-> \h14, INTERRUPT_STATUS |-> \h16, INTERRUPT_CONTROL |-> \h18,
      NUMOFSENSORS |-> \h1a, NUMOFOUTPUTS |-> \h1b, OPERATING_TEMP |-> \h1c,
      FAULT_PROCESS |-> \h1e, EVENT_0_TIMER |-> \h20, EVENT_1_TIMER |-> \h22,
      SYSTEM_STATUS |-> \h24, TRIGGERS |-> \h26,
      EXTRACT_START_TIME |-> \h28, EXTRACT_END_TIME |-> \h2c,
      NUMBER_RECORDS |-> \h36, CURRENT_TIME |-> \h38,
      EXTRACTED_TIME |-> \h4c, EXTRACTED_0_VALUE |-> \h50]

R_SENSOR_VALUE(i) == \h3c + 4 * i
R_SENSOR_DESCRIPTOR(i) == \h60 + 8 * i
R_SENSOR_UNITS(i) == \h64 + 8 * i
R_USER_PARAMETER_VALUE(i) == \h80 + 4 * i
R_SENSOR_GAIN(i) == \hc0 + 8 * i
R_SENSOR_OFFSET(i) == \hc4 + 8 * i
R_DEVICE_NAME == \he0
R_OUTPUT_VALUE(i) == \hf0 + 4 * i

(* Addresses in the factory space, 0x100 to 0x3ff *)

F == [DEVICE_ID |-> \h100, CORE_VERSION |-> \h108, BLOCK_START_RETRY |-> \h10c,
      RTC_TUNING |-> \h10e, FEATURE_BITS |-> \h110,
      DEFAULT_EVENT_0_TIMEBASE |-> \h114, DEFAULT_EVENT_1_TIMEBASE |-> \h116,
      DEFAULT_SYSTEM_CONTROL |-> \h118, DEFAULT_INTERRUPT_CONTROL |-> \h11a,
      DEVICE_NUMBER_INDEX |-> \h11c, DEVICE_NUMBER_LIST |-> \h11e,
      MANUFACTURED_DATE |-> \h128, CALIBRATION_DATE |-> \h12a,
      TOTAL_OPERATING_TIME |-> \h12c, TIME_SINCE_CALIBRATION |-> \h130,
      BASE_TYPE |-> \h13c, SENTINEL |-> \h13e, IO_DEVICE_LIST_NAMES |-> \h140,
      CONFIG_PASSWORD |-> \h380, CONN_PASSWORD |-> \h390]

R_SENSOR_ERRORS(i) == \h120 + 2 * i
R_OUTPUT_DESCRIPTOR(i) == \h134 + 2 * i

\* The gain at 0x20c and the offset at 0x208 of channel 0 with gain 16, then
\* every 16 bytes; two cold junctions follow the four channels.
R_CAL_GAIN(j) == \h20c + 16 * j
R_CAL_OFFSET(j) == \h208 + 16 * j

(* The spaces of function blocks, of attached sensors and of names *)

R_FUNCTION_BLOCK_PROGRAM == \h400
R_FUNCTION_BLOCK_PARAMETER(i) == \h600 + 4 * i
R_OUTPUT_NAMELIST(i) == \h700 + 64 * i

R_SENSOR_SPACE(i) == \h800 + 256 * i
SpaceOf == [NAMELIST |-> \h00, IPSO_TYPE |-> \ha8, PRECISION |-> \haa,
            FUNCTION |-> \hac, MINVALUE |-> \hb0, MAXVALUE |-> \hb4,
            MINRANGE |-> \hb8, MAXRANGE |-> \hbc]
R_SENSOR_PARAMETER(i, j) == R_SENSOR_SPACE(i) + \hc0 + 16 * j

R_SENSOR_NAME(i) == \he00 + 16 * i
R_OUTPUT_NAME(i) == \he40 + 16 * i
R_USER_PARAMETER_NAME(i) == \he80 + 16 * i

X == [VBAT |-> \hc02, VPOWER |-> \hc04, STATUS |-> \hc06, BATT_CAPACITY |-> \hc0a,
      PROBE_STATUS |-> \hc0e]

\* A register beyond 0xff is reached through one of four windows of 1024
\* addresses, at 0x32 to 0x35, once R_REGISTER_ACCESS holds its address.
R_REGISTER_ACCESS == \h30
Window == [factory |-> \h32, block |-> \h33, sensor |-> \h34, extension |-> \h35]
WindowStart == [factory |-> \h000, block |-> \h400, sensor |-> \h800,
                extension |-> \hc00]
WindowSize == \h400
NoAddress == 0

-----------------------------------------------------------------------------
(* registers.c *)

RD == {"RD"}
RDWR == {"RD", "WR"}
BYTES == {"BYTES"}
STR == {"BYTES", "STR"}

Numbered(name, i, modbus, i2c, nInstance, access, size) ==
    [name |-> name, number |-> i, modbus_addr |-> modbus, i2c_addr |-> i2c,
     nInstance |-> nInstance, access |-> access, size |-> size, offset |-> 0]

Reg(name, modbus, i2c, access, size) ==
    Numbered(name, 0, modbus, i2c, 1, access, size)

Sensors == 0 .. 3

SystemRegisters == {
    Reg("DEVICE_ID", \hf000, R.DEVICE_ID, RD, Sizeof.u32),
    Reg("FIRMARE_VERSION", \hf002, R.VERSION, RD, Sizeof.u32),
    Reg("HARDWARE_VERSION", \hf004, R.HARDWARE_VERSION, RD, Sizeof.u32),
    Reg("LIST_INDEX_BLOCK_SELECT", \hf006, R.DEVICE_LIST_INDEX, RDWR \cup BYTES,
        Sizeof.list_select_t),
    Reg("USER_HOURS", \hf007, R.USER_HOURS, RDWR, Sizeof.u16),
    Reg("EVENT_0_TIME_BASE", \hf008, R.EVENT_0_TIMEBASE, RDWR, Sizeof.u16),
    Reg("EVENT_1_TIME_BASE", \hf009, R.EVENT_1_TIMEBASE, RDWR, Sizeof.u16),
    Reg("SYSTEM_CONTROL", \hf00a, R.SYSTEM_CONTROL, RDWR, Sizeof.u16),
    Reg("INTERRUPT_STATUS", \hf00b, R.INTERRUPT_STATUS, RDWR, Sizeof.u16),
    Reg("INTERRUPT_CONTROL", \hf00c, R.INTERRUPT_CONTROL, RDWR, Sizeof.u16),
    Reg("NUMBER_OF_SENSORS", \hf00d, R.NUMOFSENSORS, RD \cup BYTES, Sizeof.io_count_t),
    Reg("NUMBER_OF_OUTPUTS", \hf00d, R.NUMOFOUTPUTS, RD \cup BYTES, Sizeof.io_count_t),
    Reg("OPERATING_TEMP", \hf00e, R.OPERATING_TEMP, RD \cup BYTES,
        Sizeof.operating_stat_t),
    Reg("OPERATING_VOLTAGE", \hf00e, R.OPERATING_TEMP, RD \cup BYTES,
        Sizeof.operating_stat_t),
    Reg("FAULT_PROCESS", \hf00f, R.FAULT_PROCESS, RD \cup BYTES, Sizeof.fault_stat_t),
    Reg("FAULT_CODE", \hf00f, R.FAULT_PROCESS, RD \cup BYTES, Sizeof.fault_stat_t),
    Reg("EVENT_0_TIMER", \hf010, R.EVENT_0_TIMER, RD, Sizeof.u16),
    Reg("EVENT_1_TIMER", \hf011, R.EVENT_1_TIMER, RD, Sizeof.u16),
    Reg("SYSTEM_STATUS", \hf012, R.SYSTEM_STATUS, RD, Sizeof.system_status_t),
    Reg("TRIGGER_REQUESTS", \hf013, R.TRIGGERS, RDWR, TriggerSize),
    Reg("EXTRACT_START_TIME", \hf014, R.EXTRACT_START_TIME, RDWR, Sizeof.u32),
    Reg("EXTRACT_END_TIME", \hf016, R.EXTRACT_END_TIME, RDWR, Sizeof.u32),
    Reg("NUMBER_OF_RECORDS", \hf01b, R.NUMBER_RECORDS, RD, Sizeof.u16),
    Reg("CURRENT_TIME", \hf01c, R.CURRENT_TIME, RD, Sizeof.u32)}

ReadingRegisters ==
    {Numbered("SENSOR_DATA", i, \hf01e + 2 * i, R_SENSOR_VALUE(i), 4 - i, RD,
              Sizeof.float) : i \in Sensors}
    \cup {Reg("EXTRACTED_TIME_STAMP", \hf026, R.EXTRACTED_TIME, RD, Sizeof.u32),
          Numbered("EXTRACTED_DATA", 0, \hf028, R.EXTRACTED_0_VALUE, 4, RD, Sizeof.float)}
    \cup {Numbered("SENSOR_DESCRIPTOR", i, \hf030 + 4 * i, R_SENSOR_DESCRIPTOR(i), 4 - i,
                   RD \cup BYTES, DescriptorSize) : i \in Sensors}
    \cup {Numbered("OUTPUT", i, \hf078 + 2 * i, R_OUTPUT_VALUE(i), 4 - i, RD,
                   Sizeof.float) : i \in Sensors}

ParameterRegisters ==
    {Numbered("USER_PARAMETER", i, \hf040 + 2 * i, R_USER_PARAMETER_VALUE(i), 16 - i,
              RDWR, 4) : i \in 0 .. 15}

\* Gain and offset of a sensor alternate: from one gain to the next is offset
\* bytes more than its size.
ScaleRegisters ==
    {[Numbered("SENSOR_GAIN", 0, \hf060, R_SENSOR_GAIN(0), 4, RDWR, Sizeof.float)
         EXCEPT !.offset = Sizeof.float],
     [Numbered("SENSOR_OFFSET", 0, \hf062, R_SENSOR_OFFSET(0), 4, RDWR, Sizeof.float)
         EXCEPT !.offset = Sizeof.float]}

UnitRegister ==
    Numbered("SENSOR_UNIT", 0, \hf032, R_SENSOR_UNITS(0), 4, RDWR \cup BYTES,
             Sizeof.sensor_unit_t)

DeviceName ==
    Reg("DEVICE_NAME", \hf070, R_DEVICE_NAME, RD \cup BYTES, Sizeof.device_name_t)

FactoryRegisters == {
    Reg("LONG_DEVICE_ID", \hf080, F.DEVICE_ID, RD, 8),
    Reg("CORE_VERSION", \hf084, F.CORE_VERSION, RD, Sizeof.u32),
    Reg("BLOCK_START_RETRY_COUNT", \hf086, F.BLOCK_START_RETRY, RD, Sizeof.u16),
    Reg("RTC_CALIBRATION_CONTROL", \hf087, F.RTC_TUNING, RD, Sizeof.u16),
    Reg("FEATURE_BITS", \hf088, F.FEATURE_BITS, RD, Sizeof.u32),
    Numbered("DEFAULT_EVENT_TIMEBASE", 0, \hf08a, F.DEFAULT_EVENT_0_TIMEBASE, 2, RD,
             Sizeof.u16),
    Numbered("DEFAULT_EVENT_TIMEBASE", 1, \hf08b, F.DEFAULT_EVENT_1_TIMEBASE, 1, RD,
             Sizeof.u16),
    Reg("DEFAULT_SYSTEM_CONTROL", \hf08c, F.DEFAULT_SYSTEM_CONTROL, RD, Sizeof.u16),
    Reg("DEFAULT_INTERRUPT_CONTROL", \hf08d, F.DEFAULT_INTERRUPT_CONTROL, RD, Sizeof.u16),
    Reg("SENSOR_LIST_INDEX", \hf08e, F.DEVICE_NUMBER_INDEX, RD, Sizeof.list_select_t),
    Reg("SENSOR_LIST_SELECT", \hf08e, F.DEVICE_NUMBER_INDEX, RD, Sizeof.list_select_t),
    Reg("IO_LIST_INDEX", \hf08e, F.DEVICE_NUMBER_INDEX, RD, Sizeof.io_list_t),
    Reg("IO_LIST_SELECT", \hf08f, F.DEVICE_NUMBER_LIST, RD, Sizeof.io_list_t),
    Reg("MANUFACTURED_DATE", \hf094, F.MANUFACTURED_DATE, RD, Sizeof.u16),
    Reg("CALIBRATION_DATE", \hf095, F.CALIBRATION_DATE, RD, Sizeof.u16),
    Reg("OPERATING_TIME", \hf096, F.TOTAL_OPERATING_TIME, RD, Sizeof.u32),
    Reg("CALIBRATION_TIME", \hf098, F.TIME_SINCE_CALIBRATION, RD, Sizeof.u32),
    Reg("BASE_HARDWARE_TYPE", \hf09e, F.BASE_TYPE, RD, Sizeof.u16),
    Reg("EXTRACT_STOP_SIZE", \hf09f, F.SENTINEL, RD, Sizeof.u16),
    Reg("DEVICE_NAME_LIST", \hf0a0, F.IO_DEVICE_LIST_NAMES, RD \cup BYTES,
        Sizeof.device_name_list_t),
    Reg("DEVICE_MODEL_NAME", \hf0a0, F.IO_DEVICE_LIST_NAMES, RD \cup BYTES,
        Sizeof.device_model_name_t),
    Reg("CALIBRATION_DATA", \hf100, NoAddress, RD, 4),
    Reg("CONFIG_PASSWORD", \hf1c0, F.CONFIG_PASSWORD, RDWR \cup BYTES,
        Sizeof.sensor_password_t),
    Reg("CONNECTIVITY_PASSWORD", \hf1c8, F.CONN_PASSWORD, RDWR \cup BYTES,
        Sizeof.sensor_password_t),
    Reg("DEVICE_PARAMETER_DATA", \hf1f0, NoAddress, RD, 32)}
    \cup {Numbered("SENSOR_ERROR_COUNT", i, \hf090 + i, R_SENSOR_ERRORS(i), 4 - i, RD,
                   Sizeof.u16) : i \in Sensors}
    \cup {Numbered("OUTPUT_CONFIG", i, \hf09a + i, R_OUTPUT_DESCRIPTOR(i), 4 - i, RD,
                   Sizeof.u16) : i \in Sensors}

BlockRegisters ==
    {Numbered("FUNCTION_BLOCK_PROGRAM", 0, \hf200, R_FUNCTION_BLOCK_PROGRAM, 128, RDWR,
              Sizeof.u32),
     Numbered("FUNCTION_BLOCK_PARAM", 0, \hf300, R_FUNCTION_BLOCK_PARAMETER(0), 32, RDWR,
              Sizeof.u32),
     Reg("FUNCTION_BLOCK_PARAM_TYPE", \hf340, NoAddress, RD, 64),
     Reg("FUNCTION_BLOCK_STATUS", \hf360, NoAddress, RD, 64)}
    \cup {Numbered("OUTPUT_NAME_LIST", i, \hf380 + 32 * i, R_OUTPUT_NAMELIST(i), 4 - i,
                   RD, 64) : i \in Sensors}

\* What a sensor's space holds: its place on Modbus, on I2C, its flags and size.
SensorSpace == {
    <<"SENSOR_NAME_LIST", \h00, SpaceOf.NAMELIST, RD, 164>>,
    <<"SENSOR_IPSO_TYPE", \h54, SpaceOf.IPSO_TYPE, RD, Sizeof.u16>>,
    <<"SENSOR_PRECISION", \h55, SpaceOf.PRECISION, RD, Sizeof.u16>>,
    <<"SENSOR_FUNCTION", \h56, SpaceOf.FUNCTION, RDWR, Sizeof.u16>>,
    <<"SENSOR_MIN_VALUE", \h58, SpaceOf.MINVALUE, RD, Sizeof.float>>,
    <<"SENSOR_MAX_VALUE", \h5a, SpaceOf.MAXVALUE, RD, Sizeof.float>>,
    <<"SENSOR_MIN_RANGE", \h5c, SpaceOf.MINRANGE, RD, Sizeof.float>>,
    <<"SENSOR_MAX_RANGE", \h5e, SpaceOf.MAXRANGE, RD, Sizeof.float>>}

SensorRegisters ==
    {Numbered(s[1], i, \hf400 + 128 * i + s[2], R_SENSOR_SPACE(i) + s[3], 1, s[4], s[5])
        : s \in SensorSpace, i \in Sensors}
    \cup {Numbered("SENSOR_0_PARAM_VALUE", j, \hf460 + 8 * j, R_SENSOR_PARAMETER(0, j), 1,
                   RDWR, Sizeof.float) : j \in 0 .. 3}
    \cup {Numbered(f[1], j, \hf460 + 8 * j + f[2], NoAddress, 1, RD, Sizeof.float)
             : j \in 0 .. 3, f \in {<<"SENSOR_0_PARAM_MIN", 2>>, <<"SENSOR_0_PARAM_MAX", 4>>,
                                    <<"SENSOR_0_PARAM_INCREMENT", 6>>}}

NameRegisters ==
    {Reg("DEVICE_EXTENSION_SPACE", \hf600, NoAddress, RDWR, 256),
     Reg("USER_EXTENSION_SPACE", \hf680, NoAddress, RDWR, 256),
     Reg("CALIBRATION_STRING", \hf7e0, NoAddress, RD, 64)}
    \cup {Numbered("SENSOR_NAME", i, \hf700 + 8 * i, R_SENSOR_NAME(i), 4 - i,
                   RDWR \cup STR, 16) : i \in Sensors}
    \cup {Numbered("OUTPUT_NAME", i, \hf720 + 8 * i, R_OUTPUT_NAME(i), 4 - i,
                   RDWR \cup BYTES, 16) : i \in Sensors}
    \cup {Numbered("PARAM_NAME", i, \hf740 + 8 * i, R_USER_PARAMETER_NAME(i), 16 - i,
                   RDWR, 16) : i \in 0 .. 15}

ExtensionRegisters ==
    {Reg(x[1], x[2], x[3], RD, Sizeof.u16) : x \in {
        <<"EXTENSION_VBAT", \hf601, X.VBAT>>, <<"EXTENSION_VPOWER", \hf602, X.VPOWER>>,
        <<"EXTENSION_STATUS", \hf603, X.STATUS>>,
        <<"EXTENSION_BATT_CAPACITY", \hf605, X.BATT_CAPACITY>>,
        <<"PROBE_STATUS", \hf607, X.PROBE_STATUS>>}}

\* The registers of the boot loader, which answers instead of the firmware.
BootstrapRegisters ==
    {Reg("BOOTSTRAP_CONTROL", \hf000, 0, RDWR, Sizeof.u16),
     Reg("BOOTSTRAP_ADDRESS", \hf001, 2, RDWR, Sizeof.u16),
     Reg("BOOTSTRAP_DATA", \hf002, 4, RDWR \cup BYTES, 32)}

\* Channels 0 and 1 with the gains 16 and 32, then the two cold junctions.
CalibrationRegisters ==
    {Numbered("CAL_GAIN", j, NoAddress, R_CAL_GAIN(j), 1, RDWR, Sizeof.float)
        : j \in 0 .. 3}
    \cup {Numbered("CAL_OFFSET", j, NoAddress, R_CAL_OFFSET(j), 1, RDWR, Sizeof.float)
             : j \in 0 .. 3}
    \cup {Numbered("CAL_CJC_OFFSET", j, NoAddress, R_CAL_OFFSET(3 + j), 1, RDWR,
                   Sizeof.float) : j \in 1 .. 2}

\* Numbers of the enumeration without an entry: the array holds zeros for them.
Unlisted ==
    {Numbered("FUNCTION_BLOCK_PROGRAM_i", i, 0, 0, 0, {}, 0) : i \in 0 .. 2}
    \cup {Numbered(name, 4 * i + j, 0, 0, 0, {}, 0) :
             name \in {"SENSOR_PARAM_VALUE", "SENSOR_PARAM_MIN", "SENSOR_PARAM_MAX",
                       "SENSOR_PARAM_INCREMENT"},
             i \in 1 .. 3, j \in 0 .. 3}

_def ==
    SystemRegisters \cup ReadingRegisters \cup ParameterRegisters \cup ScaleRegisters
    \cup {UnitRegister, DeviceName} \cup FactoryRegisters \cup BlockRegisters
    \cup SensorRegisters \cup NameRegisters \cup ExtensionRegisters
    \cup BootstrapRegisters \cup CalibrationRegisters

\* Every register a caller can name.
ss_register == _def \cup Unlisted

get_register_entry(name) ==
    CHOOSE e \in _def : e.name = name /\ e.number = 0

\* Mutant: a buffer of exactly the register's size is too long.
SizeOffByOne(e, size) ==
    IF "BYTES" \in e.access THEN size >= e.size ELSE size # e.size

\* A register of bytes takes a shorter buffer, any other only its own size.
SizeRefused(e, size) ==
    IF "BYTES" \in e.access THEN size > e.size ELSE size # e.size
=============================================================================
