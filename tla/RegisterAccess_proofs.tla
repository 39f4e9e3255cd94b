----------------------- MODULE RegisterAccess_proofs ------------------------
(***************************************************************************)
(* A call that returns E_OK has moved every byte to its place, and no      *)
(* transfer on I2C leaves its window, for every entry of the register      *)
(* table and whatever a block of the I2C driver and the Modbus buffer      *)
(* hold.  First what the table says of the entries, family by family;      *)
(* then what the address computation and the byte loops do; then that a    *)
(* call on its way was accepted by the checks at its beginning, and that   *)
(* address and bytes are what they should be at each of its steps.  The    *)
(* last parts set the table beside the functions of the library, whose     *)
(* buffers it accepts, and beside itself: an index reaches the numbered    *)
(* register it stands for, and a write changes no register of another      *)
(* name.                                                                   *)
(***************************************************************************)
EXTENDS RegisterAccess, TLAPS

\* What is read off the table: an entry's access flags are those of registers.c, a
\* string is one of bytes, and all its instances lie either in what is directly
\* addressable or in one window.
Accesses == {RD, RDWR, RD \cup BYTES, RDWR \cup BYTES, RDWR \cup STR}

Lies(a, length) ==
    \/ a + length <= \h100
    \/ \hff < a /\ a + length <= \h400
    \/ \h400 <= a /\ a + length <= \h800
    \/ \h800 <= a /\ a + length <= \hc00
    \/ \hc00 <= a /\ a + length <= \h1000

Placed(e) ==
    /\ e.i2c_addr \in Nat /\ e.modbus_addr \in Nat
    /\ e.nInstance \in Nat /\ e.size \in Nat \ {0} /\ e.offset \in Nat
    /\ e.access \in Accesses
    /\ Lies(e.i2c_addr, e.nInstance * (e.size + e.offset))

-----------------------------------------------------------------------------
(* The register table, one family of entries after the other.              *)

LEMMA NumberedFields ==
    \A name, i, m, a, k, acc, s :
        LET e == Numbered(name, i, m, a, k, acc, s) IN
        /\ e.modbus_addr = m /\ e.i2c_addr = a /\ e.nInstance = k
        /\ e.access = acc /\ e.size = s /\ e.offset = 0
  BY DEF Numbered

LEMMA RegFields ==
    \A name, m, a, acc, s :
        LET e == Reg(name, m, a, acc, s) IN
        /\ e.modbus_addr = m /\ e.i2c_addr = a /\ e.nInstance = 1
        /\ e.access = acc /\ e.size = s /\ e.offset = 0
  BY DEF Reg, Numbered

LEMMA Flags ==
    /\ RD \in Accesses /\ RDWR \in Accesses /\ RD \cup BYTES \in Accesses
    /\ RDWR \cup BYTES \in Accesses /\ RDWR \cup STR \in Accesses
  BY DEF Accesses

LEMMA Sizes ==
    /\ Sizeof.u16 = 2 /\ Sizeof.u32 = 4 /\ Sizeof.float = 4 /\ Sizeof.sensor_unit_t = 4
    /\ Sizeof.sensor_password_t = 16 /\ Sizeof.device_name_t = 32
    /\ Sizeof.device_name_list_t = 192 /\ Sizeof.device_model_name_t = 16
    /\ Sizeof.list_select_t = 2 /\ Sizeof.io_list_t = 2 /\ Sizeof.system_status_t = 2
    /\ Sizeof.io_count_t = 2 /\ Sizeof.operating_stat_t = 2 /\ Sizeof.fault_stat_t = 2
    /\ TriggerSize = 2 /\ DescriptorSize = 8
  BY DEF Sizeof, TriggerSize, DescriptorSize

\* A register with one instance lies where its address and its size say.
Single(e, a, s) ==
    /\ e.i2c_addr = a /\ e.modbus_addr \in Nat /\ e.nInstance = 1
    /\ e.size = s /\ e.offset = 0 /\ e.access \in Accesses

LEMMA SinglePlaced ==
    ASSUME NEW e, NEW a \in Nat, NEW s \in Nat \ {0}, Single(e, a, s), Lies(a, s)
    PROVE  Placed(e)
  <1>1. e.nInstance * (e.size + e.offset) = s
    BY DEF Single
  <1> QED BY <1>1 DEF Single, Placed

LEMMA PlacedThere ==
    ASSUME NEW e, NEW length, e.i2c_addr \in Nat, e.modbus_addr \in Nat, e.nInstance \in Nat,
           e.size \in Nat \ {0}, e.offset \in Nat, e.access \in Accesses,
           e.nInstance * (e.size + e.offset) = length, Lies(e.i2c_addr, length)
    PROVE  Placed(e)
  BY DEF Placed

LEMMA SystemPlaced == \A e \in SystemRegisters : Placed(e)
  <1> DEFINE Low == {R[f] : f \in DOMAIN R}
  <1>1. Low \subseteq 0 .. \h50
    BY DEF R
  <1>2. /\ R.DEVICE_ID \in Low /\ R.VERSION \in Low /\ R.HARDWARE_VERSION \in Low
        /\ R.DEVICE_LIST_INDEX \in Low /\ R.USER_HOURS \in Low
        /\ R.EVENT_0_TIMEBASE \in Low /\ R.EVENT_1_TIMEBASE \in Low
        /\ R.SYSTEM_CONTROL \in Low /\ R.INTERRUPT_STATUS \in Low
        /\ R.INTERRUPT_CONTROL \in Low /\ R.NUMOFSENSORS \in Low /\ R.NUMOFOUTPUTS \in Low
        /\ R.OPERATING_TEMP \in Low /\ R.FAULT_PROCESS \in Low /\ R.EVENT_0_TIMER \in Low
        /\ R.EVENT_1_TIMER \in Low /\ R.SYSTEM_STATUS \in Low /\ R.TRIGGERS \in Low
        /\ R.EXTRACT_START_TIME \in Low /\ R.EXTRACT_END_TIME \in Low
        /\ R.NUMBER_RECORDS \in Low /\ R.CURRENT_TIME \in Low
    BY DEF R
  <1> HIDE DEF Low
  <1> SUFFICES ASSUME NEW e \in SystemRegisters PROVE Placed(e)
    OBVIOUS
  <1>3. e.i2c_addr \in Low
    BY <1>2, RegFields DEF SystemRegisters
  <1>4. e.size \in {2, 4}
    BY Sizes, RegFields DEF SystemRegisters
  <1>5. e.modbus_addr \in Nat /\ e.nInstance = 1 /\ e.offset = 0
    BY RegFields DEF SystemRegisters
  <1>6. e.access \in Accesses
    BY RegFields, Flags DEF SystemRegisters
  <1>7. e.i2c_addr \in 0 .. \h50
    BY <1>1, <1>3
  <1>8. Lies(e.i2c_addr, e.size)
    BY <1>4, <1>7 DEF Lies
  <1>9. Single(e, e.i2c_addr, e.size)
    BY <1>5, <1>6 DEF Single
  <1> QED BY <1>4, <1>7, <1>8, <1>9, SinglePlaced

LEMMA ReadingPlaced == \A e \in ReadingRegisters : Placed(e)
  <1> SUFFICES ASSUME NEW e \in ReadingRegisters PROVE Placed(e)
    OBVIOUS
  <1>1. CASE \E i \in Sensors : e = Numbered("SENSOR_DATA", i, \hf01e + 2 * i,
                R_SENSOR_VALUE(i), 4 - i, RD, Sizeof.float)
    BY <1>1, NumberedFields, Sizes, Flags DEF Placed, Lies, R_SENSOR_VALUE, Sensors
  <1>2. CASE e = Reg("EXTRACTED_TIME_STAMP", \hf026, R.EXTRACTED_TIME, RD, Sizeof.u32)
    BY <1>2, RegFields, Sizes, Flags DEF Placed, Lies, R
  <1>3. CASE e = Numbered("EXTRACTED_DATA", 0, \hf028, R.EXTRACTED_0_VALUE, 4, RD,
                          Sizeof.float)
    <2>1. R.EXTRACTED_0_VALUE = \h50
      BY DEF R
    <2>2. /\ e.i2c_addr = \h50 /\ e.modbus_addr \in Nat /\ e.nInstance = 4
          /\ e.size = 4 /\ e.offset = 0 /\ e.access = RD
      BY <1>3, <2>1, NumberedFields, Sizes
    <2>3. e.nInstance * (e.size + e.offset) = 16
      BY <2>2
    <2>4. Lies(e.i2c_addr, 16)
      BY ONLY <2>2 DEF Lies
    <2> QED BY ONLY <2>2, <2>3, <2>4, Flags, PlacedThere
  <1>4. CASE \E i \in Sensors : e = Numbered("SENSOR_DESCRIPTOR", i, \hf030 + 4 * i,
                R_SENSOR_DESCRIPTOR(i), 4 - i, RD \cup BYTES, DescriptorSize)
    BY <1>4, NumberedFields, Sizes, Flags DEF Placed, Lies, R_SENSOR_DESCRIPTOR, Sensors
  <1>5. CASE \E i \in Sensors : e = Numbered("OUTPUT", i, \hf078 + 2 * i,
                R_OUTPUT_VALUE(i), 4 - i, RD, Sizeof.float)
    BY <1>5, NumberedFields, Sizes, Flags DEF Placed, Lies, R_OUTPUT_VALUE, Sensors
  <1> QED BY <1>1, <1>2, <1>3, <1>4, <1>5 DEF ReadingRegisters, Sensors

LEMMA ParameterPlaced == \A e \in ParameterRegisters : Placed(e)
  BY NumberedFields, Flags DEF ParameterRegisters, Placed, Lies, R_USER_PARAMETER_VALUE

LEMMA ScalePlaced == \A e \in ScaleRegisters \cup {UnitRegister, DeviceName} : Placed(e)
  <1>1. \A e \in ScaleRegisters : Placed(e)
    BY Sizes, Flags DEF ScaleRegisters, Numbered, Placed, Lies, R_SENSOR_GAIN, R_SENSOR_OFFSET
  <1>2. Placed(UnitRegister)
    BY NumberedFields, Sizes, Flags DEF UnitRegister, Placed, Lies, R_SENSOR_UNITS
  <1>3. Placed(DeviceName)
    BY RegFields, Sizes, Flags DEF DeviceName, Placed, Lies, R_DEVICE_NAME
  <1> QED BY <1>1, <1>2, <1>3

LEMMA FactoryPlaced == \A e \in FactoryRegisters : Placed(e)
  <1> DEFINE Low == {F[f] : f \in DOMAIN F}
             Errors(e) == \E i \in Sensors : e = Numbered("SENSOR_ERROR_COUNT", i,
                              \hf090 + i, R_SENSOR_ERRORS(i), 4 - i, RD, Sizeof.u16)
             Outputs(e) == \E i \in Sensors : e = Numbered("OUTPUT_CONFIG", i,
                              \hf09a + i, R_OUTPUT_DESCRIPTOR(i), 4 - i, RD, Sizeof.u16)
  <1>1. \A a \in Low : a \in Nat /\ \h100 <= a /\ a <= \h390
    BY DEF F
  <1>2. /\ F.DEVICE_ID \in Low /\ F.CORE_VERSION \in Low /\ F.BLOCK_START_RETRY \in Low
        /\ F.RTC_TUNING \in Low /\ F.FEATURE_BITS \in Low
        /\ F.DEFAULT_EVENT_0_TIMEBASE \in Low /\ F.DEFAULT_EVENT_1_TIMEBASE \in Low
        /\ F.DEFAULT_SYSTEM_CONTROL \in Low /\ F.DEFAULT_INTERRUPT_CONTROL \in Low
        /\ F.DEVICE_NUMBER_INDEX \in Low /\ F.DEVICE_NUMBER_LIST \in Low
        /\ F.MANUFACTURED_DATE \in Low /\ F.CALIBRATION_DATE \in Low
        /\ F.TOTAL_OPERATING_TIME \in Low /\ F.TIME_SINCE_CALIBRATION \in Low
        /\ F.BASE_TYPE \in Low /\ F.SENTINEL \in Low /\ F.IO_DEVICE_LIST_NAMES = \h140
        /\ F.CONFIG_PASSWORD \in Low /\ F.CONN_PASSWORD \in Low /\ \h140 \in Low
    BY DEF F
  <1> HIDE DEF Low, Errors, Outputs
  <1> SUFFICES ASSUME NEW e \in FactoryRegisters PROVE Placed(e)
    OBVIOUS
  <1>3. CASE Errors(e)
    BY <1>3, NumberedFields, Sizes, Flags
    DEF Errors, Placed, Lies, R_SENSOR_ERRORS, Sensors
  <1>4. CASE Outputs(e)
    BY <1>4, NumberedFields, Sizes, Flags
    DEF Outputs, Placed, Lies, R_OUTPUT_DESCRIPTOR, Sensors
  <1>5. CASE ~Errors(e) /\ ~Outputs(e)
    <2>1. \/ e.i2c_addr \in Low /\ e.size \in {2, 4, 8, 16}
          \/ e.i2c_addr = \h140 /\ e.size = 192
          \/ e.i2c_addr = 0 /\ e.size \in {4, 32}
      BY <1>2, <1>5, RegFields, NumberedFields, Sizes
      DEF FactoryRegisters, Errors, Outputs, NoAddress
    <2>2. e.nInstance = 1 \/ (e.nInstance = 2 /\ e.size = 2)
      BY <1>5, RegFields, NumberedFields, Sizes DEF FactoryRegisters, Errors, Outputs
    <2>3. e.modbus_addr \in Nat /\ e.offset = 0
      BY <1>5, RegFields, NumberedFields DEF FactoryRegisters, Errors, Outputs
    <2>4. e.access \in Accesses
      BY <1>5, RegFields, NumberedFields, Flags DEF FactoryRegisters, Errors, Outputs
    <2>5. e.nInstance * (e.size + e.offset) \in 0 .. 16 \cup {e.size}
      BY <2>1, <2>2, <2>3
    <2>6. e.i2c_addr \in Nat /\ e.size \in Nat \ {0} /\ e.nInstance \in Nat
      <3>1. e.i2c_addr \in Low => e.i2c_addr \in Nat
        BY ONLY <1>1
      <3> QED BY ONLY <2>1, <2>2, <3>1
    <2>7. Lies(e.i2c_addr, e.nInstance * (e.size + e.offset))
      <3>1. CASE e.i2c_addr \in Low /\ e.size \in {2, 4, 8, 16}
        <4>1. e.i2c_addr \in Nat /\ \h100 <= e.i2c_addr /\ e.i2c_addr <= \h390
          BY ONLY <1>1, <3>1
        <4>2. e.nInstance * (e.size + e.offset) \in 0 .. 16
          BY <2>5, <3>1
        <4>3. PICK a \in \h100 .. \h390 : a = e.i2c_addr
          BY ONLY <4>1
        <4>4. PICK n \in 0 .. 16 : n = e.nInstance * (e.size + e.offset)
          BY <4>2
        <4>5. Lies(a, n)
          BY DEF Lies
        <4> QED BY <4>3, <4>4, <4>5
      <3>2. CASE e.i2c_addr = \h140 /\ e.size = 192
        <4>1. e.nInstance * (e.size + e.offset) \in 0 .. 192
          BY <2>5, <3>2
        <4> QED BY <3>2, <4>1 DEF Lies
      <3>3. CASE e.i2c_addr = 0 /\ e.size \in {4, 32}
        <4>1. e.nInstance * (e.size + e.offset) \in 0 .. 32
          BY <2>5, <3>3
        <4> QED BY <3>3, <4>1 DEF Lies
      <3> QED BY <2>1, <3>1, <3>2, <3>3
    <2> QED BY <2>3, <2>4, <2>6, <2>7 DEF Placed
  <1> QED BY <1>3, <1>4, <1>5

LEMMA BlockPlaced == \A e \in BlockRegisters : Placed(e)
  <1> SUFFICES ASSUME NEW e \in BlockRegisters PROVE Placed(e)
    OBVIOUS
  <1>1. CASE e = Numbered("FUNCTION_BLOCK_PROGRAM", 0, \hf200, R_FUNCTION_BLOCK_PROGRAM,
                          128, RDWR, Sizeof.u32)
    BY <1>1, NumberedFields, Sizes, Flags DEF Placed, Lies, R_FUNCTION_BLOCK_PROGRAM
  <1>2. CASE e = Numbered("FUNCTION_BLOCK_PARAM", 0, \hf300,
                          R_FUNCTION_BLOCK_PARAMETER(0), 32, RDWR, Sizeof.u32)
    BY <1>2, NumberedFields, Sizes, Flags DEF Placed, Lies, R_FUNCTION_BLOCK_PARAMETER
  <1>3. CASE \/ e = Reg("FUNCTION_BLOCK_PARAM_TYPE", \hf340, NoAddress, RD, 64)
             \/ e = Reg("FUNCTION_BLOCK_STATUS", \hf360, NoAddress, RD, 64)
    BY <1>3, RegFields, Flags DEF Placed, Lies, NoAddress
  <1>4. CASE \E i \in Sensors : e = Numbered("OUTPUT_NAME_LIST", i, \hf380 + 32 * i,
                R_OUTPUT_NAMELIST(i), 4 - i, RD, 64)
    BY <1>4, NumberedFields, Flags DEF Placed, Lies, R_OUTPUT_NAMELIST, Sensors
  <1> QED BY <1>1, <1>2, <1>3, <1>4 DEF BlockRegisters

LEMMA SensorPlaced == \A e \in SensorRegisters : Placed(e)
  <1> SUFFICES ASSUME NEW e \in SensorRegisters PROVE Placed(e)
    OBVIOUS
  <1> DEFINE Offsets == {<<"SENSOR_0_PARAM_MIN", 2>>, <<"SENSOR_0_PARAM_MAX", 4>>,
                         <<"SENSOR_0_PARAM_INCREMENT", 6>>}
  <1>1. \A s \in SensorSpace : /\ s[2] \in 0 .. \h5e /\ s[4] \in Accesses
                              /\ \/ s[3] = 0 /\ s[5] = 164
                                 \/ s[3] \in \ha8 .. \hbc /\ s[5] \in {2, 4}
    BY Flags, Sizes DEF SensorSpace, SpaceOf
  <1>2. CASE \E s \in SensorSpace, i \in Sensors :
                e = Numbered(s[1], i, \hf400 + 128 * i + s[2], R_SENSOR_SPACE(i) + s[3], 1,
                             s[4], s[5])
    <2>1. PICK s \in SensorSpace, i \in Sensors :
             e = Numbered(s[1], i, \hf400 + 128 * i + s[2], R_SENSOR_SPACE(i) + s[3], 1,
                          s[4], s[5])
      BY <1>2
    <2>2. i \in 0 .. 3 /\ R_SENSOR_SPACE(i) = \h800 + 256 * i
      BY DEF Sensors, R_SENSOR_SPACE
    <2>3. /\ s[2] \in 0 .. \h5e /\ s[4] \in Accesses
          /\ (s[3] = 0 /\ s[5] = 164) \/ (s[3] \in \ha8 .. \hbc /\ s[5] \in {2, 4})
      BY <1>1
    <2>4. Single(e, R_SENSOR_SPACE(i) + s[3], s[5])
      BY <2>1, <2>2, <2>3, NumberedFields DEF Single
    <2>5. /\ R_SENSOR_SPACE(i) + s[3] \in Nat /\ s[5] \in Nat \ {0}
          /\ Lies(R_SENSOR_SPACE(i) + s[3], s[5])
      BY <2>2, <2>3 DEF Lies
    <2> QED BY <2>4, <2>5, SinglePlaced
  <1>3. CASE \E j \in 0 .. 3 :
                e = Numbered("SENSOR_0_PARAM_VALUE", j, \hf460 + 8 * j,
                             R_SENSOR_PARAMETER(0, j), 1, RDWR, Sizeof.float)
    BY <1>3, NumberedFields, Sizes, Flags
    DEF Placed, Lies, R_SENSOR_PARAMETER, R_SENSOR_SPACE
  <1>4. CASE \E j \in 0 .. 3, f \in Offsets :
                e = Numbered(f[1], j, \hf460 + 8 * j + f[2], NoAddress, 1, RD, Sizeof.float)
    BY <1>4, NumberedFields, Sizes, Flags DEF Placed, Lies, NoAddress
  <1> QED BY <1>2, <1>3, <1>4 DEF SensorRegisters

LEMMA NamePlaced == \A e \in NameRegisters : Placed(e)
  <1> SUFFICES ASSUME NEW e \in NameRegisters PROVE Placed(e)
    OBVIOUS
  <1>1. CASE \/ e = Reg("DEVICE_EXTENSION_SPACE", \hf600, NoAddress, RDWR, 256)
             \/ e = Reg("USER_EXTENSION_SPACE", \hf680, NoAddress, RDWR, 256)
             \/ e = Reg("CALIBRATION_STRING", \hf7e0, NoAddress, RD, 64)
    BY <1>1, RegFields, Flags DEF Placed, Lies, NoAddress
  <1>2. CASE \E i \in Sensors : e = Numbered("SENSOR_NAME", i, \hf700 + 8 * i,
                R_SENSOR_NAME(i), 4 - i, RDWR \cup STR, 16)
    BY <1>2, NumberedFields, Flags DEF Placed, Lies, R_SENSOR_NAME, Sensors
  <1>3. CASE \E i \in Sensors : e = Numbered("OUTPUT_NAME", i, \hf720 + 8 * i,
                R_OUTPUT_NAME(i), 4 - i, RDWR \cup BYTES, 16)
    BY <1>3, NumberedFields, Flags DEF Placed, Lies, R_OUTPUT_NAME, Sensors
  <1>4. CASE \E i \in 0 .. 15 : e = Numbered("PARAM_NAME", i, \hf740 + 8 * i,
                R_USER_PARAMETER_NAME(i), 16 - i, RDWR, 16)
    BY <1>4, NumberedFields, Flags DEF Placed, Lies, R_USER_PARAMETER_NAME
  <1> QED BY <1>1, <1>2, <1>3, <1>4 DEF NameRegisters, Sensors

LEMMA ExtensionPlaced == \A e \in ExtensionRegisters : Placed(e)
  <1> SUFFICES ASSUME NEW e \in ExtensionRegisters PROVE Placed(e)
    OBVIOUS
  <1>1. /\ X.VBAT = \hc02 /\ X.VPOWER = \hc04 /\ X.STATUS = \hc06
        /\ X.BATT_CAPACITY = \hc0a /\ X.PROBE_STATUS = \hc0e
    BY DEF X
  <1>2. PICK x \in {<<"EXTENSION_VBAT", \hf601, X.VBAT>>,
                    <<"EXTENSION_VPOWER", \hf602, X.VPOWER>>,
                    <<"EXTENSION_STATUS", \hf603, X.STATUS>>,
                    <<"EXTENSION_BATT_CAPACITY", \hf605, X.BATT_CAPACITY>>,
                    <<"PROBE_STATUS", \hf607, X.PROBE_STATUS>>} :
           e = Reg(x[1], x[2], x[3], RD, Sizeof.u16)
    BY DEF ExtensionRegisters
  <1>3. x[2] \in Nat /\ x[3] \in \hc02 .. \hc0e
    BY <1>1, <1>2
  <1>4. Single(e, x[3], 2)
    BY <1>2, <1>3, RegFields, Sizes, Flags DEF Single
  <1>5. x[3] \in Nat /\ 2 \in Nat \ {0} /\ Lies(x[3], 2)
    BY <1>3 DEF Lies
  <1> QED BY <1>4, <1>5, SinglePlaced

LEMMA BootstrapPlaced ==
    \A e \in BootstrapRegisters : Placed(e) /\ e.i2c_addr + e.size <= \h100
  BY RegFields, Sizes, Flags DEF BootstrapRegisters, Placed, Lies

LEMMA CalibrationPlaced == \A e \in CalibrationRegisters : Placed(e)
  <1> SUFFICES ASSUME NEW e \in CalibrationRegisters PROVE Placed(e)
    OBVIOUS
  <1>1. CASE \E j \in 0 .. 3 : e = Numbered("CAL_GAIN", j, NoAddress, R_CAL_GAIN(j), 1,
                                           RDWR, Sizeof.float)
    BY <1>1, NumberedFields, Sizes, Flags DEF Placed, Lies, R_CAL_GAIN, NoAddress
  <1>2. CASE \E j \in 0 .. 3 : e = Numbered("CAL_OFFSET", j, NoAddress, R_CAL_OFFSET(j),
                                           1, RDWR, Sizeof.float)
    BY <1>2, NumberedFields, Sizes, Flags DEF Placed, Lies, R_CAL_OFFSET, NoAddress
  <1>3. CASE \E j \in 1 .. 2 : e = Numbered("CAL_CJC_OFFSET", j, NoAddress,
                                           R_CAL_OFFSET(3 + j), 1, RDWR, Sizeof.float)
    BY <1>3, NumberedFields, Sizes, Flags DEF Placed, Lies, R_CAL_OFFSET, NoAddress
  <1> QED BY <1>1, <1>2, <1>3 DEF CalibrationRegisters

\* Every entry is placed; a number without an entry has no instance to select.
LEMMA TablePlaced ==
    \A e \in ss_register :
        \/ Placed(e)
        \/ e.nInstance = 0 /\ e.size = 0 /\ e.access = {}
  <1>1. \A e \in _def : Placed(e)
    BY SystemPlaced, ReadingPlaced, ParameterPlaced, ScalePlaced, FactoryPlaced,
       BlockPlaced, SensorPlaced, NamePlaced, ExtensionPlaced, BootstrapPlaced,
       CalibrationPlaced DEF _def
  <1>2. \A e \in Unlisted : e.nInstance = 0 /\ e.size = 0 /\ e.access = {}
    BY NumberedFields DEF Unlisted
  <1> QED BY <1>1, <1>2 DEF ss_register

-----------------------------------------------------------------------------
(* The inductive invariant.                                                *)

Legal(k) ==
    /\ k.op \in {"read", "write", "bootstrap"} /\ k.bus \in {"I2C", "MODBUS"}
    /\ k.reg \in ss_register /\ k.index \in Nat /\ k.size \in Nat
    /\ k.op = "bootstrap" => k.reg \in BootstrapRegisters /\ k.index = 0

\* What the checks at the beginning of a call let through.
Accepted(k) == Legal(k) /\ ~SizeRefused(k.reg, k.size) /\ ~IndexRefused(k)

Bytes == 0 .. Length(call) - 1

Working == {"address", "select", "transfer", "reverse"}

Labels == Working \cup {"idle", "status", "return"}

\* A call that goes on was accepted, and nothing has failed.
Going ==
    /\ pc \in Labels
    /\ pc \in Working => Accepted(call) /\ ret = "E_OK" /\ DOMAIN moved = Bytes
    /\ pc = "status" => call.op # "read"
    /\ pc = "idle" => access = None /\ nTotal = 0

\* The address is the entry's own, in a window if it is beyond what is directly
\* addressable.
Addressed ==
    /\ pc = "address" => access = None
    /\ pc \in {"select", "transfer"} =>
          \/ /\ access = None /\ reg_addr = Address(call) /\ pc = "transfer"
             /\ call.bus = "I2C" /\ call.op # "bootstrap" => reg_addr <= \hff
          \/ /\ call.bus = "I2C" /\ call.op # "bootstrap"
             /\ access = Address(call) /\ reg_addr = WindowOf(access)
             /\ \hff < access /\ access < \h8000

\* What is moved on the way: nothing, or all of a read that fits into one block.
Moving ==
    /\ pc \in {"address", "select"} => nTotal = 0
    /\ pc = "transfer" /\ call.op = "read" /\ call.bus = "I2C"
       /\ Length(call) <= I2C_SMBUS_BLOCK_MAX =>
          nTotal = 0 \/ (nTotal = Length(call) /\ \A b \in Bytes : moved[b] = b)
    /\ pc = "reverse" =>
          /\ call.op = "read"
          /\ Length(call) <= WholeSize[call.bus] => \A b \in Bytes : moved[b] = b

IInv == Going /\ Addressed /\ Moving /\ TransferIsWhole

-----------------------------------------------------------------------------
(* What the operators compute.                                             *)

\* An instance that exists ends where the last one ends, at the latest.
LEMMA InstanceEnds ==
    ASSUME NEW i \in Nat, NEW n \in Nat, NEW s \in Nat, i < n
    PROVE  i * s \in Nat /\ n * s \in Nat /\ (i * s) + s <= n * s
  <1>1. PICK d \in Nat : n = i + 1 + d
    <2>1. n - i - 1 \in Nat /\ n = i + 1 + (n - i - 1)
      OBVIOUS
    <2> QED BY <2>1
  <1>2. n * s = (i * s) + s + (d * s)
    BY <1>1
  <1>3. i * s \in Nat /\ d * s \in Nat
    OBVIOUS
  <1> QED BY <1>2, <1>3

LEMMA AcceptedFacts ==
    ASSUME NEW k, Accepted(k)
    PROVE  /\ Placed(k.reg) /\ k.index \in Nat /\ k.index < k.reg.nInstance
           /\ k.size \in Nat /\ k.reg.size \in Nat
           /\ Length(k) \in Nat /\ Length(k) <= k.reg.size
  <1>1. CASE k.op = "bootstrap"
    <2>1. k.reg \in BootstrapRegisters /\ k.index = 0
      BY <1>1 DEF Accepted, Legal
    <2>2. Placed(k.reg) /\ k.reg.nInstance = 1
      BY <2>1, BootstrapPlaced, RegFields DEF BootstrapRegisters
    <2>3. k.size \in Nat /\ k.size <= k.reg.size
      BY <2>2 DEF Accepted, Legal, SizeRefused, Placed
    <2> QED BY <1>1, <2>1, <2>2, <2>3 DEF Placed, Length
  <1>2. CASE k.op # "bootstrap"
    <2>1. k.reg \in ss_register /\ k.index \in Nat /\ k.size \in Nat
      BY DEF Accepted, Legal
    <2>2. ~(k.index >= k.reg.nInstance)
      BY <1>2 DEF Accepted, IndexRefused
    <2>3. Placed(k.reg)
      BY <2>1, <2>2, TablePlaced
    <2>4. k.size <= k.reg.size
      BY <2>1, <2>3 DEF Accepted, SizeRefused, Placed
    <2> QED BY <2>1, <2>2, <2>3, <2>4 DEF Placed, Length
  <1> QED BY <1>1, <1>2

\* An instance of an entry is addressed without wrapping round.
LEMMA AddressFits ==
    ASSUME NEW a \in Nat, NEW i \in Nat, NEW s \in Nat, NEW n \in Nat,
           i + s <= n, a + n <= \h1000
    PROVE  (a + i) % \h10000 = a + i
  <1>1. PICK x \in 0 .. \h1000 : x = a + i
    OBVIOUS
  <1>2. x % \h10000 = x
    OBVIOUS
  <1> QED BY ONLY <1>1, <1>2

\* On I2C the address of an accepted call is that of the instance, which lies with all
\* the entry's instances.
LEMMA AddressOnI2c ==
    ASSUME NEW k, Accepted(k), k.bus = "I2C"
    PROVE  /\ Address(k) \in Nat /\ k.reg.i2c_addr \in Nat /\ k.reg.i2c_addr <= Address(k)
           /\ \E n \in Nat : /\ Lies(k.reg.i2c_addr, n)
                             /\ Address(k) + k.reg.size <= k.reg.i2c_addr + n
  <1> DEFINE s == k.reg.size + k.reg.offset
             a == k.reg.i2c_addr
             n == k.reg.nInstance * s
             i == k.index * s
  <1>1. /\ Placed(k.reg) /\ k.index \in Nat /\ k.index < k.reg.nInstance
    BY AcceptedFacts
  <1>2. /\ a \in Nat /\ s \in Nat /\ k.reg.size \in Nat /\ k.reg.size <= s
        /\ k.reg.nInstance \in Nat /\ Lies(a, n)
    BY <1>1 DEF Placed
  <1>3. i \in Nat /\ n \in Nat /\ i + s <= n
    BY ONLY <1>1, <1>2, InstanceEnds
  <1>4. Address(k) = (a + i) % \h10000
    BY DEF Address
  <1> HIDE DEF i, n, a, s
  <1>5. a + n <= \h1000
    BY <1>2, <1>3 DEF Lies
  <1>6. (a + i) % \h10000 = a + i
    BY ONLY <1>2, <1>3, <1>5, AddressFits
  <1>7. Address(k) = a + i
    BY <1>4, <1>6
  <1>8. Address(k) \in Nat /\ a <= Address(k) /\ Address(k) + k.reg.size <= a + n
    BY <1>2, <1>3, <1>7
  <1> QED BY <1>2, <1>3, <1>8 DEF a

\* Beyond what is directly addressable, the window chosen shows all of a register.
LEMMA WindowShows ==
    ASSUME NEW a \in Nat, NEW s \in Nat \ {0}, NEW first \in Nat, NEW n \in Nat,
           Lies(first, n), first <= a, a + s <= first + n, \hff < a
    PROVE  /\ a < \h8000
           /\ \E w \in DOMAIN Window : /\ WindowOf(a) = Window[w]
                                       /\ WindowStart[w] <= a
                                       /\ a + s <= WindowStart[w] + WindowSize
  <1>1. /\ DOMAIN Window = {"factory", "block", "sensor", "extension"}
        /\ Window["factory"] = \h32 /\ Window["block"] = \h33
        /\ Window["sensor"] = \h34 /\ Window["extension"] = \h35
    BY DEF Window
  <1>2. /\ WindowStart["factory"] = 0 /\ WindowStart["block"] = \h400
        /\ WindowStart["sensor"] = \h800 /\ WindowStart["extension"] = \hc00
    BY DEF WindowStart
  <1>3. WindowOf(a) = (a \div 1024) + \h32
    BY <1>1 DEF WindowOf
  <1>4. \/ a + s <= \h400
        \/ \h400 <= a /\ a + s <= \h800
        \/ \h800 <= a /\ a + s <= \hc00
        \/ \hc00 <= a /\ a + s <= \h1000
    BY DEF Lies
  <1>5. CASE a + s <= \h400
    <2>1. a \div 1024 = 0
      BY <1>5
    <2> QED BY <1>1, <1>2, <1>3, <1>5, <2>1 DEF WindowSize
  <1>6. CASE \h400 <= a /\ a + s <= \h800
    <2>1. a \div 1024 = 1
      BY <1>6
    <2> QED BY <1>1, <1>2, <1>3, <1>6, <2>1 DEF WindowSize
  <1>7. CASE \h800 <= a /\ a + s <= \hc00
    <2>1. a \div 1024 = 2
      BY <1>7
    <2> QED BY <1>1, <1>2, <1>3, <1>7, <2>1 DEF WindowSize
  <1>8. CASE \hc00 <= a /\ a + s <= \h1000
    <2>1. a \div 1024 = 3
      BY <1>8
    <2> QED BY <1>1, <1>2, <1>3, <1>8, <2>1 DEF WindowSize
  <1> QED BY <1>4, <1>5, <1>6, <1>7, <1>8

LEMMA ReversedByte ==
    ASSUME NEW n \in Nat, NEW D, NEW f, DOMAIN f = D, NEW b \in D, b \in 0 .. n - 1
    PROVE  Reversed(f, n)[b] = f[n - 1 - b]
  BY DEF Reversed

\* Of at most four bytes every pair is swapped, and twice swapped is in place.
LEMMA SwappedByte ==
    ASSUME NEW n \in Nat, n \in {0, 2, 4}, NEW f, DOMAIN f = 0 .. n - 1,
           NEW b, b \in 0 .. n - 1
    PROVE  /\ SwapLoop(f, n)[b] = f[Other(b)]
           /\ Other(b) \in 0 .. n - 1 /\ Other(Other(b)) = b
  <1>1. b \in {0, 1, 2, 3} /\ b - (b % 2) <= n \div 2
    <2>1. CASE n = 2
      BY <2>1
    <2>2. CASE n = 4
      BY <2>2
    <2> QED BY <2>1, <2>2
  <1>2. Other(0) = 1 /\ Other(1) = 0 /\ Other(2) = 3 /\ Other(3) = 2
    BY DEF Other
  <1>3. Other(b) \in 0 .. n - 1 /\ Other(Other(b)) = b
    BY <1>1, <1>2
  <1>4. SwapLoop(f, n)[b] = f[Other(b)]
    BY <1>1 DEF SwapLoop
  <1> QED BY <1>3, <1>4

LEMMA EvenSize ==
    ASSUME NEW s \in 0 .. 4
    PROVE  Even(s) \in {0, 2, 4} /\ s <= Even(s)
  BY DEF Even

\* A call that has moved every byte where it belongs.
Right(k, m, b) ==
    \/ "BYTES" \in k.reg.access /\ m[b] = b
    \/ /\ "BYTES" \notin k.reg.access \/ ("STR" \in k.reg.access /\ k.op = "read")
       /\ m[b] = k.size - 1 - b

LEMMA RightIsWhole ==
    ASSUME NEW k, NEW m, k.size \in Nat, NEW b \in 0 .. k.size - 1, Right(k, m, b)
    PROVE  LET own == [x \in 0 .. k.size - 1 |-> x] IN
           \/ "BYTES" \in k.reg.access /\ m[b] = own[b]
           \/ /\ "BYTES" \notin k.reg.access \/ ("STR" \in k.reg.access /\ k.op = "read")
              /\ m[b] = Reversed(own, k.size)[b]
  <1> DEFINE own == [x \in 0 .. k.size - 1 |-> x]
  <1>1. own[b] = b /\ DOMAIN own = 0 .. k.size - 1
    OBVIOUS
  <1>2. Reversed(own, k.size)[b] = own[k.size - 1 - b]
    BY <1>1, ReversedByte
  <1>3. own[k.size - 1 - b] = k.size - 1 - b
    OBVIOUS
  <1> QED BY <1>1, <1>2, <1>3 DEF Right

\* What a write sends: the caller's bytes, turned unless the register is one of bytes.
LEMMA PreparedByte ==
    ASSUME NEW k, NEW n \in Nat, k.size \in Nat, k.size <= n
    PROVE  /\ DOMAIN Prepared(k, n) = 0 .. n - 1
           /\ \A b \in 0 .. k.size - 1 :
                 Prepared(k, n)[b] = IF "BYTES" \in k.reg.access THEN b ELSE k.size - 1 - b
  <1> DEFINE own == [b \in 0 .. n - 1 |-> IF b < k.size THEN b ELSE None]
  <1>1. DOMAIN own = 0 .. n - 1 /\ \A b \in 0 .. k.size - 1 : own[b] = b
    OBVIOUS
  <1>2. Prepared(k, n) = IF "BYTES" \in k.reg.access THEN own ELSE Reversed(own, k.size)
    BY DEF Prepared
  <1> HIDE DEF own
  <1>3. DOMAIN Reversed(own, k.size) = 0 .. n - 1
    BY <1>1 DEF Reversed
  <1>4. ASSUME NEW b \in 0 .. k.size - 1 PROVE Reversed(own, k.size)[b] = k.size - 1 - b
    <2>1. b \in 0 .. n - 1 /\ k.size - 1 - b \in 0 .. k.size - 1
      OBVIOUS
    <2>2. Reversed(own, k.size)[b] = own[k.size - 1 - b]
      BY <1>1, <2>1, ReversedByte
    <2> QED BY <1>1, <2>1, <2>2
  <1> QED BY <1>1, <1>2, <1>3, <1>4

-----------------------------------------------------------------------------
(* The steps of a call.                                                    *)

\* A call that comes to its end with everything moved, or failed.
LEMMA Finishes ==
    ASSUME pc' \in {"status", "return"}, pc' = "status" => call'.op # "read",
           \/ ret' # "E_OK"
           \/ /\ call'.size \in Nat
              /\ (Length(call)' <= WholeSize[call'.bus] /\ Length(call)' = call'.size) =>
                    \A b \in 0 .. call'.size - 1 : Right(call', moved', b)
    PROVE  IInv'
  <1>1. Going' /\ Addressed' /\ Moving'
    BY DEF Going, Addressed, Moving, Labels, Working
  <1>2. TransferIsWhole'
    <2>1. CASE ret' # "E_OK"
      BY <2>1 DEF TransferIsWhole
    <2>2. CASE /\ call'.size \in Nat
               /\ (Length(call)' <= WholeSize[call'.bus] /\ Length(call)' = call'.size) =>
                    \A b \in 0 .. call'.size - 1 : Right(call', moved', b)
      <3>1. ASSUME NEW b \in 0 .. call'.size - 1, Right(call', moved', b)
            PROVE  LET own == [x \in 0 .. call'.size - 1 |-> x] IN
                   \/ "BYTES" \in call'.reg.access /\ moved'[b] = own[b]
                   \/ /\ \/ "BYTES" \notin call'.reg.access
                         \/ "STR" \in call'.reg.access /\ call'.op = "read"
                      /\ moved'[b] = Reversed(own, call'.size)[b]
        BY <2>2, <3>1, RightIsWhole
      <3> QED BY <2>2, <3>1 DEF TransferIsWhole, WholeSize, Length
    <2> QED BY <2>1, <2>2
  <1> QED BY <1>1, <1>2 DEF IInv

LEMMA Initially == Init => IInv
  BY DEF Init, IInv, Going, Addressed, Moving, TransferIsWhole, Labels, Working

LEMMA CallsAreLegal == \A k \in Calls : Legal(k)
  <1> SUFFICES ASSUME NEW k \in Calls PROVE Legal(k)
    OBVIOUS
  <1>1. CASE k \in BootstrapCalls
    <2>1. PICK e \in BootstrapRegisters, bus \in {"I2C", "MODBUS"} :
             k = [op |-> "bootstrap", bus |-> bus, reg |-> e, index |-> 0, size |-> e.size]
      BY <1>1 DEF BootstrapCalls
    <2>2. Placed(e) /\ e \in ss_register
      BY BootstrapPlaced DEF ss_register, _def
    <2> QED BY <2>1, <2>2 DEF Legal, Placed
  <1>2. CASE \E e \in ss_register : k \in CallsOf(e)
    <2>1. PICK e \in ss_register : k \in CallsOf(e)
      BY <1>2
    <2>2. PICK op \in {"read", "write"}, bus \in {"I2C", "MODBUS"}, i \in 0 .. e.nInstance,
               n \in ({e.size - 1, e.size, e.size + 1} \cup OfferedSizes(e.name)) \cap Nat :
             k = [op |-> op, bus |-> bus, reg |-> e, index |-> i, size |-> n]
      BY <2>1 DEF CallsOf
    <2>3. i \in Nat
      BY TablePlaced DEF Placed
    <2> QED BY <2>2, <2>3 DEF Legal
  <1>3. k \in BootstrapCalls \/ \E e \in ss_register : k \in CallsOf(e)
    BY DEF Calls
  <1> QED BY <1>1, <1>2, <1>3

LEMMA BeginKeeps ==
    ASSUME IInv, NEW k \in Calls, Begin(k)
    PROVE  IInv'
  <1>1. Legal(k) /\ access = None /\ nTotal = 0
    BY CallsAreLegal DEF Begin, IInv, Going
  <1>2. CASE ret' \in {"E_BUFFER_MEM_SIZE", "E_INVALID_PARAM"} /\ pc' = "return"
    <2>1. ret' # "E_OK"
      BY <1>2
    <2> QED BY <1>2, <2>1, Finishes
  <1>3. CASE ~SizeRefused(k.reg, k.size) /\ ~IndexRefused(k) /\ ret' = "E_OK" /\ pc' = "address"
    <2>1. /\ call' = k /\ moved' = [b \in 0 .. Length(k) - 1 |-> None]
          /\ access' = None /\ nTotal' = 0
      BY <1>1 DEF Begin
    <2>2. Accepted(call')
      BY <1>1, <1>3, <2>1 DEF Accepted
    <2>3. DOMAIN moved' = Bytes'
      BY <2>1 DEF Bytes, Length
    <2>4. Going' /\ Addressed' /\ Moving' /\ TransferIsWhole'
      BY <1>3, <2>1, <2>2, <2>3
      DEF Going, Addressed, Moving, TransferIsWhole, Labels, Working
    <2> QED BY <2>4 DEF IInv
  <1> QED BY <1>2, <1>3 DEF Begin

LEMMA ComputeAddressKeeps ==
    ASSUME IInv, ComputeAddress
    PROVE  IInv'
  <1> DEFINE a == Address(call)
  <1>1. /\ Accepted(call) /\ ret = "E_OK" /\ DOMAIN moved = Bytes /\ access = None
        /\ nTotal = 0 /\ pc = "address" /\ UNCHANGED <<call, moved, nTotal>>
    BY DEF ComputeAddress, IInv, Going, Addressed, Moving, Working
  <1>2. ASSUME call.bus = "I2C" PROVE a \in Nat /\ a < \h8000
    <2>1. PICK n \in Nat : Lies(call.reg.i2c_addr, n)
                           /\ a + call.reg.size <= call.reg.i2c_addr + n
      BY <1>1, <1>2, AddressOnI2c
    <2>2. a \in Nat /\ call.reg.i2c_addr \in Nat /\ call.reg.size \in Nat
      BY <1>1, <1>2, AddressOnI2c, AcceptedFacts
    <2>3. call.reg.i2c_addr + n <= \h1000
      BY <2>1, <2>2 DEF Lies
    <2> HIDE DEF a
    <2> QED BY <2>1, <2>2, <2>3
  <1>3. \/ /\ call.bus = "MODBUS" \/ call.op = "bootstrap" \/ a <= \hff
           /\ reg_addr' = a /\ pc' = "transfer" /\ UNCHANGED <<access, ret>>
        \/ /\ call.bus = "I2C" /\ call.op # "bootstrap" /\ a > \hff /\ a < \h8000
           /\ reg_addr' = WindowOf(a) /\ access' = a /\ pc' = "select" /\ UNCHANGED ret
    <2>1. call.bus = "I2C" => ~(a >= \h8000)
      BY <1>2
    <2> QED BY <2>1 DEF ComputeAddress
  <1>4. Going'
    BY <1>1, <1>3 DEF Going, Working, Labels, Accepted, Bytes, Length
  <1>5. Addressed'
    <2>1. CASE pc' = "transfer" /\ access' = None
      <3>1. reg_addr' = Address(call')
        BY <1>1, <1>3, <2>1
      <3>2. call'.bus = "I2C" /\ call'.op # "bootstrap" => reg_addr' <= \hff
        BY <1>1, <1>3, <2>1
      <3> QED BY <2>1, <3>1, <3>2 DEF Addressed, Address
    <2>2. CASE /\ call.bus = "I2C" /\ call.op # "bootstrap" /\ a > \hff /\ a < \h8000
               /\ reg_addr' = WindowOf(a) /\ access' = a /\ pc' = "select"
      <3>1. access' = Address(call')
        BY <1>1, <2>2
      <3>2. \hff < a
        BY <1>2, <2>2
      <3> QED BY <1>1, <2>2, <3>1, <3>2 DEF Addressed, WindowOf, Address
    <2> QED BY <1>1, <1>3, <2>1, <2>2
  <1>6. Moving' /\ TransferIsWhole'
    BY <1>1, <1>3 DEF Moving, TransferIsWhole
  <1> QED BY <1>4, <1>5, <1>6 DEF IInv

LEMMA SelectKeeps ==
    ASSUME IInv, Select
    PROVE  IInv'
  <1>1. /\ Accepted(call) /\ ret = "E_OK" /\ DOMAIN moved = Bytes /\ pc = "select"
        /\ nTotal = 0 /\ UNCHANGED <<call, reg_addr, access, moved, nTotal>>
    BY DEF Select, IInv, Going, Moving, Working
  <1>2. CASE ret' = "E_PORT_ERR"
    <2>1. pc' \in {"status", "return"} /\ (pc' = "status" => call'.op # "read")
      BY <1>1, <1>2 DEF Select
    <2>2. ret' # "E_OK"
      BY <1>2
    <2> QED BY <2>1, <2>2, Finishes
  <1>3. CASE pc' = "transfer" /\ UNCHANGED ret
    <2>1. Going'
      BY <1>1, <1>3 DEF Going, Working, Labels, Accepted, Bytes, Length
    <2>2. Addressed'
      BY <1>1, <1>3 DEF IInv, Addressed, Address, WindowOf
    <2>3. Moving' /\ TransferIsWhole'
      BY <1>1, <1>3 DEF Moving, TransferIsWhole
    <2> QED BY <2>1, <2>2, <2>3 DEF IInv
  <1> QED BY <1>2, <1>3 DEF Select

\* A block holds the whole of what the driver moves in one transaction.
LEMMA ShortBlock ==
    ASSUME NEW n \in Nat, n <= I2C_SMBUS_BLOCK_MAX
    PROVE  BlockLength(n) = n
  <1>1. n % 256 = n
    BY AccessAssumption
  <1> QED BY <1>1, AccessAssumption DEF BlockLength, Smaller

\* linux_i2c_read and linux_i2c_write.
LEMMA I2cKeeps ==
    ASSUME IInv, Transfer, I2cRead \/ I2cWrite
    PROVE  IInv'
  <1> DEFINE n == Length(call)
  <1>1. /\ Accepted(call) /\ ret = "E_OK" /\ DOMAIN moved = Bytes /\ pc = "transfer"
        /\ UNCHANGED <<call, reg_addr, access>>
    BY DEF Transfer, IInv, Going, Working
  <1>2. n \in Nat /\ call.size \in Nat /\ n' = n /\ Bytes' = Bytes
    BY <1>1, AcceptedFacts DEF Length, Bytes
  <1>3. ASSUME NEW code \in {"E_BUS_OPERATION", "E_PORT_ERR"}, Fails(code) PROVE IInv'
    <2>1. pc' \in {"status", "return"} /\ (pc' = "status" => call'.op # "read")
      BY <1>1, <1>3 DEF Fails, AfterTransfer
    <2>2. ret' # "E_OK"
      BY <1>3 DEF Fails
    <2> QED BY <2>1, <2>2, Finishes
  <1>4. CASE I2cRead
    <2> DEFINE block == BlockLength(call.reg.size)
    <2>1. call.op = "read" /\ call.bus = "I2C" /\ n = call.reg.size
      BY <1>4 DEF I2cRead, Length
    <2>2. CASE /\ nTotal < n /\ nTotal' = nTotal + block
               /\ moved' = [b \in DOMAIN moved |-> IF b < block THEN b ELSE moved[b]]
               /\ UNCHANGED <<pc, ret>>
      <3>1. DOMAIN moved' = Bytes'
        BY <1>1, <1>2, <2>2
      <3>2. Going'
        BY <1>1, <2>2, <3>1 DEF Going, Working, Labels, Accepted
      <3>3. Addressed'
        BY <1>1, <2>2 DEF IInv, Addressed, Address, WindowOf
      <3>4. ASSUME n <= I2C_SMBUS_BLOCK_MAX
            PROVE  nTotal' = n /\ \A b \in Bytes : moved'[b] = b
        <4>1. nTotal = 0
          BY <1>1, <1>2, <2>1, <2>2, <3>4 DEF IInv, Moving
        <4>2. block = n
          BY <1>2, <2>1, <3>4, ShortBlock
        <4>3. nTotal' = n
          BY <1>2, <2>2, <4>1, <4>2
        <4>4. ASSUME NEW b \in Bytes PROVE moved'[b] = b
          <5>1. b < n
            BY <1>2 DEF Bytes
          <5> QED BY <1>1, <2>2, <4>2, <5>1
        <4> QED BY <4>3, <4>4
      <3>5. Moving'
        BY <1>1, <1>2, <2>2, <3>4 DEF Moving
      <3>6. TransferIsWhole'
        BY <1>1, <2>2 DEF TransferIsWhole
      <3> QED BY <3>2, <3>3, <3>5, <3>6 DEF IInv
    <2>3. CASE nTotal = n /\ pc' = "reverse" /\ UNCHANGED <<ret, moved, nTotal>>
      <3>1. Going'
        BY <1>1, <1>2, <2>3 DEF Going, Working, Labels, Accepted
      <3>2. Addressed' /\ TransferIsWhole'
        BY <2>3 DEF Addressed, TransferIsWhole
      <3>3. ASSUME n <= I2C_SMBUS_BLOCK_MAX PROVE \A b \in Bytes : moved[b] = b
        <4>1. nTotal = 0 \/ \A b \in Bytes : moved[b] = b
          BY <1>1, <2>1, <3>3 DEF IInv, Moving
        <4>2. nTotal = 0 => Bytes = {}
          BY <2>3 DEF Bytes
        <4> QED BY <4>1, <4>2
      <3>4. Moving'
        BY <1>1, <1>2, <2>1, <2>3, <3>3 DEF Moving, WholeSize
      <3> QED BY <3>1, <3>2, <3>4 DEF IInv
    <2> QED BY <1>3, <1>4, <2>1, <2>2, <2>3 DEF I2cRead
  <1>5. CASE I2cWrite
    <2>1. CASE /\ moved' = [b \in DOMAIN moved |-> IF b < BlockLength(call.size)
                                                   THEN Prepared(call, call.size)[b] ELSE None]
               /\ pc' = AfterTransfer /\ UNCHANGED <<ret, nTotal>>
      <3>1. call.op # "read" /\ call.bus = "I2C" /\ n = call.size
        BY <1>5 DEF I2cWrite, Length
      <3>2. pc' \in {"status", "return"} /\ (pc' = "status" => call'.op # "read")
        BY <1>1, <2>1, <3>1 DEF AfterTransfer
      <3>3. ASSUME NEW b \in 0 .. call.size - 1, n <= I2C_SMBUS_BLOCK_MAX
            PROVE  Right(call, moved', b)
        <4>1. b \in Bytes /\ b < BlockLength(call.size)
          BY <1>2, <3>1, <3>3, ShortBlock DEF Bytes
        <4>2. moved'[b] = Prepared(call, call.size)[b]
          BY <1>1, <2>1, <4>1
        <4>3. Prepared(call, call.size)[b] = IF "BYTES" \in call.reg.access THEN b
                                             ELSE call.size - 1 - b
          BY <1>2, <3>3, PreparedByte
        <4> QED BY <4>2, <4>3 DEF Right
      <3> QED BY <1>1, <1>2, <3>1, <3>2, <3>3, Finishes DEF WholeSize
    <2> QED BY <1>3, <1>5, <2>1 DEF I2cWrite
  <1> QED BY <1>4, <1>5

\* linux_modbus_read and linux_modbus_write: a word's bytes are exchanged once by the
\* bus library and once by the loop.
LEMMA ModbusKeeps ==
    ASSUME IInv, Transfer, ModbusRead \/ ModbusWrite
    PROVE  IInv'
  <1>1. /\ Accepted(call) /\ ret = "E_OK" /\ DOMAIN moved = Bytes /\ pc = "transfer"
        /\ UNCHANGED <<call, reg_addr, access>>
    BY DEF Transfer, IInv, Going, Working
  <1>2. /\ Length(call) \in Nat /\ call.size \in Nat /\ Length(call)' = Length(call)
        /\ Bytes' = Bytes
    BY <1>1, AcceptedFacts DEF Length, Bytes
  <1>3. ASSUME NEW code \in {"E_BUS_OPERATION", "E_NO_MEM"}, Fails(code) PROVE IInv'
    <2>1. pc' \in {"status", "return"} /\ (pc' = "status" => call'.op # "read")
      BY <1>1, <1>3 DEF Fails, AfterTransfer
    <2>2. ret' # "E_OK"
      BY <1>3 DEF Fails
    <2> QED BY <2>1, <2>2, Finishes
  <1>4. CASE ModbusRead
    <2> DEFINE n == Even(call.reg.size)
               words == [b \in 0 .. n - 1 |-> Other(b)]
    <2>1. call.op = "read" /\ call.bus = "MODBUS" /\ Length(call) = call.reg.size
      BY <1>4 DEF ModbusRead, Length
    <2>2. CASE /\ moved' = [b \in DOMAIN moved |-> SwapLoop(words, n)[b]]
               /\ pc' = "reverse" /\ UNCHANGED <<ret, nTotal>>
      <3>1. Going'
        BY <1>1, <1>2, <2>2 DEF Going, Working, Labels, Accepted
      <3>2. Addressed' /\ TransferIsWhole'
        BY <2>2 DEF Addressed, TransferIsWhole
      <3>3. ASSUME Length(call) <= 4, NEW b \in Bytes PROVE moved'[b] = b
        <4>1. n \in {0, 2, 4} /\ call.reg.size <= n
          BY <1>2, <2>1, <3>3, EvenSize
        <4>2. b \in 0 .. n - 1
          BY <1>2, <2>1, <4>1 DEF Bytes
        <4> HIDE DEF n
        <4>3. DOMAIN words = 0 .. n - 1
          OBVIOUS
        <4>4. /\ SwapLoop(words, n)[b] = words[Other(b)]
              /\ Other(b) \in 0 .. n - 1 /\ Other(Other(b)) = b
          <5>1. n \in Nat
            BY <4>1
          <5> HIDE DEF words
          <5> QED BY ONLY <4>1, <4>2, <4>3, <5>1, SwappedByte
        <4>5. words[Other(b)] = b
          BY <4>4
        <4> QED BY <1>1, <2>2, <4>4, <4>5
      <3>4. Moving'
        BY <1>1, <1>2, <2>1, <2>2, <3>3 DEF Moving, WholeSize
      <3> QED BY <3>1, <3>2, <3>4 DEF IInv
    <2> QED BY <1>3, <1>4, <2>2 DEF ModbusRead
  <1>5. CASE ModbusWrite
    <2> DEFINE n == Even(call.size)
               words == SwapLoop(Prepared(call, n), n)
    <2>1. call.op # "read" /\ call.bus = "MODBUS" /\ Length(call) = call.size
      BY <1>5 DEF ModbusWrite, Length
    <2>2. CASE /\ moved' = [b \in 0 .. n - 1 |-> words[Other(b)]]
               /\ pc' = AfterTransfer /\ UNCHANGED <<ret, nTotal>>
      <3>1. pc' \in {"status", "return"} /\ (pc' = "status" => call'.op # "read")
        BY <1>1, <2>1, <2>2 DEF AfterTransfer
      <3>2. ASSUME NEW b \in 0 .. call.size - 1, Length(call) <= 4
            PROVE  Right(call, moved', b)
        <4>1. n \in {0, 2, 4} /\ call.size <= n
          BY <1>2, <2>1, <3>2, EvenSize
        <4> HIDE DEF n
        <4>2. b \in 0 .. n - 1
          BY <1>2, <4>1
        <4>3. DOMAIN Prepared(call, n) = 0 .. n - 1
          <5>1. n \in Nat
            BY <4>1
          <5> QED BY <1>2, <4>1, <5>1, PreparedByte
        <4>4. Other(b) \in 0 .. n - 1 /\ Other(Other(b)) = b
          BY <4>1, <4>2, <4>3, SwappedByte
        <4>5. words[Other(b)] = Prepared(call, n)[Other(Other(b))]
          <5>1. n \in Nat
            BY <4>1
          <5> QED BY ONLY <4>1, <4>3, <4>4, <5>1, SwappedByte
        <4>6. moved'[b] = Prepared(call, n)[b]
          BY <2>2, <4>2, <4>4, <4>5
        <4>7. Prepared(call, n)[b] = IF "BYTES" \in call.reg.access THEN b
                                     ELSE call.size - 1 - b
          BY <1>2, <3>2, <4>1, PreparedByte
        <4> QED BY <4>6, <4>7 DEF Right
      <3> QED BY <1>1, <1>2, <2>1, <3>1, <3>2, Finishes DEF WholeSize
    <2> QED BY <1>3, <1>5, <2>2 DEF ModbusWrite
  <1> QED BY <1>4, <1>5

LEMMA ReverseBytesKeeps ==
    ASSUME IInv, ReverseBytes
    PROVE  IInv'
  <1>1. /\ Accepted(call) /\ DOMAIN moved = Bytes /\ pc = "reverse" /\ pc' = "return"
        /\ UNCHANGED <<call, ret>> /\ call.op = "read"
        /\ Length(call) <= WholeSize[call.bus] => \A b \in Bytes : moved[b] = b
    BY DEF ReverseBytes, IInv, Going, Moving, Working
  <1>2. call.size \in Nat /\ call.reg.access \in Accesses /\ Length(call)' = Length(call)
    BY <1>1, AcceptedFacts DEF Placed, Length
  <1>3. "STR" \in call.reg.access => "BYTES" \in call.reg.access
    BY <1>2 DEF Accesses, RD, RDWR, BYTES, STR
  <1>4. ASSUME Length(call) <= WholeSize[call.bus], Length(call) = call.size,
               NEW b \in 0 .. call.size - 1
        PROVE  Right(call, moved', b)
    <2>1. Bytes = 0 .. call.size - 1 /\ call.size - 1 - b \in Bytes
      BY <1>2, <1>4 DEF Bytes
    <2>2. moved[b] = b /\ moved[call.size - 1 - b] = call.size - 1 - b
      BY <1>1, <1>4, <2>1
    <2>3. Reversed(moved, call.size)[b] = call.size - 1 - b
      <3>1. Reversed(moved, call.size)[b] = moved[call.size - 1 - b]
        BY <1>1, <1>2, <1>4, <2>1, ReversedByte
      <3> QED BY <2>2, <3>1
    <2>4. CASE "STR" \in call.reg.access
      <3>1. moved' \in {moved, Reversed(moved, call.size)}
        BY <1>3, <2>4 DEF ReverseBytes
      <3> QED BY <1>1, <1>3, <2>2, <2>3, <2>4, <3>1 DEF Right
    <2>5. CASE "BYTES" \notin call.reg.access
      <3>1. moved' = Reversed(moved, call.size)
        BY <1>3, <2>5 DEF ReverseBytes
      <3> QED BY <2>3, <2>5, <3>1 DEF Right
    <2>6. CASE "BYTES" \in call.reg.access /\ "STR" \notin call.reg.access
      <3>1. moved' = moved
        BY <2>6 DEF ReverseBytes
      <3> QED BY <2>2, <2>6, <3>1 DEF Right
    <2> QED BY <2>4, <2>5, <2>6
  <1> QED BY <1>1, <1>2, <1>4, Finishes

LEMMA ReadStatusKeeps ==
    ASSUME IInv, ReadStatus
    PROVE  IInv'
  <1>1. pc = "status" /\ pc' = "return" /\ UNCHANGED <<call, ret, moved>>
    BY DEF ReadStatus
  <1>2. Going' /\ Addressed' /\ Moving'
    BY <1>1 DEF Going, Addressed, Moving, Labels, Working
  <1>3. TransferIsWhole'
    BY <1>1 DEF IInv, TransferIsWhole, Length
  <1> QED BY <1>2, <1>3 DEF IInv

LEMMA Inductive == IInv /\ [Next]_vars => IInv'
  <1> SUFFICES ASSUME IInv, [Next]_vars PROVE IInv'
    OBVIOUS
  <1>1. ASSUME NEW k \in Calls, Begin(k) PROVE IInv'
    BY <1>1, BeginKeeps
  <1>2. CASE Transfer
    BY <1>2, I2cKeeps, ModbusKeeps DEF Transfer
  <1>3. CASE Return
    BY <1>3
    DEF Return, IInv, Going, Addressed, Moving, TransferIsWhole, Labels, Working
  <1>4. CASE UNCHANGED vars
    <2>1. Going' /\ Addressed' /\ Moving'
      BY <1>4 DEF vars, IInv, Going, Addressed, Moving, Accepted, Bytes, Length, Address,
                  WindowOf
    <2>2. TransferIsWhole'
      BY <1>4 DEF vars, IInv, TransferIsWhole, Length
    <2> QED BY <2>1, <2>2 DEF IInv
  <1> QED BY <1>1, <1>2, <1>3, <1>4, ComputeAddressKeeps, SelectKeeps,
             ReverseBytesKeeps, ReadStatusKeeps DEF Next

LEMMA Invariance == Spec => []IInv
  BY Initially, Inductive, PTL DEF Spec

-----------------------------------------------------------------------------
\* A call that returns E_OK has moved every byte of the register to its place, in the
\* order of the host for a number and of the probe for bytes: for every entry of the
\* table, whatever a block of the I2C driver holds, up to that size and up to four
\* bytes on Modbus.
THEOREM AlwaysWhole == Spec => []TransferIsWhole
  <1>1. IInv => TransferIsWhole
    BY DEF IInv
  <1> QED BY <1>1, Invariance, PTL

\* No transfer on I2C runs past the end of what is directly addressable or past the
\* end of the window through which it is made, for every entry and index.
THEOREM AlwaysInWindow == Spec => []StaysInWindow
  <1>1. IInv => StaysInWindow
    <2> SUFFICES ASSUME IInv, pc = "transfer", call.bus = "I2C"
                 PROVE  IF access = None THEN reg_addr + Length(call) <= \h100
                        ELSE \E w \in DOMAIN Window :
                                /\ reg_addr = Window[w]
                                /\ WindowStart[w] <= access
                                /\ access + Length(call) <= WindowStart[w] + WindowSize
      BY DEF StaysInWindow
    <2> DEFINE a == Address(call)
               s == call.reg.size
               first == call.reg.i2c_addr
    <2>1. Accepted(call)
      BY DEF IInv, Going, Working
    <2>2. /\ Length(call) \in Nat /\ Length(call) <= s /\ s \in Nat \ {0}
          /\ a \in Nat /\ first \in Nat /\ first <= a
      BY <2>1, AcceptedFacts, AddressOnI2c DEF Placed
    <2>3. PICK n \in Nat : Lies(first, n) /\ a + s <= first + n
      BY <2>1, AddressOnI2c
    <2>4. CASE access = None
      <3>1. reg_addr = a /\ (call.op # "bootstrap" => a <= \hff)
        <4>1. ~(access = a)
          BY <2>2, <2>4, AccessAssumption
        <4> QED BY <4>1 DEF IInv, Addressed
      <3>2. CASE call.op = "bootstrap"
        <4>1. call.reg \in BootstrapRegisters /\ call.index = 0
          BY <2>1, <3>2 DEF Accepted, Legal
        <4>2. first + s <= \h100 /\ first \in Nat /\ s \in Nat /\ call.reg.offset \in Nat
          BY <4>1, BootstrapPlaced DEF Placed
        <4>3. a = first
          <5>1. 0 * (s + call.reg.offset) = 0 /\ first + 0 = first
            BY <4>2
          <5>2. a = first % \h10000
            BY <4>1, <5>1, <2>1 DEF Address
          <5>3. first \in 0 .. \h100
            BY <4>2
          <5>4. \A x \in 0 .. \h100 : x % \h10000 = x
            OBVIOUS
          <5> QED BY <5>2, <5>3, <5>4
        <4> QED BY <2>2, <2>4, <3>1, <4>2, <4>3
      <3>3. CASE call.op # "bootstrap"
        <4> HIDE DEF a, s, first
        <4>1. a + s <= \h100
          BY <2>2, <2>3, <3>1, <3>3 DEF Lies
        <4> QED BY <2>2, <2>4, <3>1, <4>1
      <3> QED BY <3>2, <3>3
    <2>5. CASE access # None
      <3>1. access = a /\ reg_addr = WindowOf(a) /\ \hff < a
        BY <2>5 DEF IInv, Addressed
      <3> HIDE DEF a, s, first
      <3>2. PICK w \in DOMAIN Window : /\ WindowOf(a) = Window[w]
                                       /\ WindowStart[w] <= a
                                       /\ a + s <= WindowStart[w] + WindowSize
        BY ONLY <2>2, <2>3, <3>1, n \in Nat, WindowShows
      <3>3. WindowStart[w] \in Nat /\ WindowSize \in Nat
        BY <3>2 DEF WindowStart, WindowSize, Window
      <3>4. access + Length(call) <= WindowStart[w] + WindowSize
        BY <2>2, <3>1, <3>2, <3>3
      <3> QED BY <2>5, <3>1, <3>2, <3>4
    <2> QED BY <2>4, <2>5
  <1> QED BY <1>1, Invariance, PTL

-----------------------------------------------------------------------------
(* The sizes that functions of the library offer.                          *)

LEMMA NumberedNames ==
    \A name, i, m, a, k, acc, s :
        LET e == Numbered(name, i, m, a, k, acc, s) IN e.name = name /\ e.number = i
  BY DEF Numbered

LEMMA RegNames ==
    \A name, m, a, acc, s :
        LET e == Reg(name, m, a, acc, s) IN e.name = name /\ e.number = 0
  BY DEF Reg, Numbered

\* The registers that functions of the library name, and their sizes.
OwnSize == [
    SENSOR_DATA |-> 4, SENSOR_GAIN |-> 4, SENSOR_OFFSET |-> 4, DEVICE_NAME |-> 32,
    SENSOR_UNIT |-> 4, SENSOR_DESCRIPTOR |-> 8, SENSOR_NAME |-> 16, NUMBER_OF_SENSORS |-> 2,
    OPERATING_TEMP |-> 2, SYSTEM_STATUS |-> 2, INTERRUPT_STATUS |-> 2, CURRENT_TIME |-> 4,
    CALIBRATION_DATE |-> 2, MANUFACTURED_DATE |-> 2, EVENT_0_TIME_BASE |-> 2,
    EVENT_1_TIME_BASE |-> 2, FUNCTION_BLOCK_PROGRAM |-> 4, FUNCTION_BLOCK_PARAM |-> 4,
    INTERRUPT_CONTROL |-> 2, SYSTEM_CONTROL |-> 2, TRIGGER_REQUESTS |-> 2,
    EXTRACT_START_TIME |-> 4, EXTRACT_END_TIME |-> 4]

Offers(n, s) == n \in DOMAIN OwnSize /\ s = OwnSize[n]

LEMMA FunctionsOffer ==
    \A f \in AllFunctions \ {preset_config} : \A i \in DOMAIN f.steps :
        Offers(f.steps[i].reg, f.steps[i].size)
  <1> DEFINE Offering(f) == \A i \in DOMAIN f.steps : Offers(f.steps[i].reg, f.steps[i].size)
  <1>1. \A g \in Getters \cup {<<"fb_program_read", "FUNCTION_BLOCK_PROGRAM", Sizeof.u32>>,
             <<"fb_alarm_get_status", "FUNCTION_BLOCK_PROGRAM", Sizeof.u32>>} : Offers(g[2], g[3])
    BY Sizes DEF Getters, Offers, OwnSize
  <1>2. \A s \in Setters \cup {<<"fb_program_write", "FUNCTION_BLOCK_PROGRAM", Sizeof.u32>>,
             <<"fb_param_write", "FUNCTION_BLOCK_PARAM", Sizeof.u32>>,
             <<"fb_alarm_assign_user_param", "FUNCTION_BLOCK_PARAM", Sizeof.float>>} :
           Offers(s[2], s[3])
    BY Sizes DEF Setters, Offers, OwnSize
  <1>3. \A g : Offers(g[2], g[3]) => Offering(Getter(g))
    BY DEF Getter, Function, Read, Step
  <1>4. \A s, v : Offers(s[2], s[3]) => Offering(Setter(s, v))
    BY DEF Setter, Function, Write, Step
  <1>5. Offering(set_interrupt_control({})) /\ Offering(set_sample_time({}))
        /\ Offering(system_control_write_bits({}))
    BY Sizes DEF set_interrupt_control, set_sample_time, system_control_write_bits, Function,
       Write, Step, Offers, OwnSize
  <1>6. Offering(soft_reset) /\ Offering(factory_reset) /\ Offering(password_reset)
    BY Sizes DEF soft_reset, factory_reset, password_reset, Function, Trigger, Write, Step,
       Offers, OwnSize
  <1>7. \A b : Offering(system_control_set_bits(b)) /\ Offering(system_control_clear_bits(b))
    BY Sizes DEF system_control_set_bits, system_control_clear_bits, Function, Read, WriteBits,
       Step, Offers, OwnSize
  <1>8. Offering(wait_for_device_ready)
    BY Sizes DEF wait_for_device_ready, Function, Step, Offers, OwnSize
  <1>9. Offering(probe_default_init({}, {}))
    BY Sizes DEF probe_default_init, Function, Read, Write, WriteBits, Step, Offers, OwnSize
  <1>10. Offering(fb_program_read) /\ Offering(fb_alarm_get_status)
    <2> HIDE DEF Offering
    <2> QED BY <1>1, <1>3 DEF fb_program_read, fb_alarm_get_status
  <1>11. /\ Offering(fb_program_write({})) /\ Offering(fb_param_write({}))
         /\ Offering(fb_alarm_assign_user_param({}))
    <2> HIDE DEF Offering
    <2> QED BY <1>2, <1>4 DEF fb_program_write, fb_param_write, fb_alarm_assign_user_param
  <1>12. Offering(fb_enable) /\ Offering(fb_disable)
    <2> HIDE DEF Offering
    <2> QED BY <1>7 DEF fb_enable, fb_disable
  <1> SUFFICES ASSUME NEW f \in AllFunctions \ {preset_config} PROVE Offering(f)
    OBVIOUS
  <1> HIDE DEF Offering
  <1>13. CASE \E g \in Getters : f = Getter(g)
    BY <1>1, <1>3, <1>13
  <1>14. CASE \E s \in Setters : f = Setter(s, {})
    BY <1>2, <1>4, <1>14
  <1> QED BY <1>5, <1>6, <1>7, <1>8, <1>9, <1>10, <1>11, <1>12, <1>13, <1>14 DEF AllFunctions

\* An entry that a function names has the size the function offers.
Fits(e) == e.name \in DOMAIN OwnSize => e.size = OwnSize[e.name]

LEMMA SystemFits == \A e \in SystemRegisters : Fits(e)
  BY RegNames, RegFields, Sizes DEF SystemRegisters, Fits, OwnSize
LEMMA FactoryFits == \A e \in FactoryRegisters : Fits(e)
  BY RegNames, RegFields, NumberedNames, NumberedFields, Sizes DEF FactoryRegisters, Fits, OwnSize
LEMMA OtherFit ==
    \A e \in ReadingRegisters \cup ParameterRegisters \cup BlockRegisters \cup NameRegisters
             \cup ExtensionRegisters \cup BootstrapRegisters \cup CalibrationRegisters
             \cup {UnitRegister, DeviceName} \cup Unlisted : Fits(e)
  <1>1. \A e \in ReadingRegisters \cup ParameterRegisters \cup {UnitRegister, DeviceName} : Fits(e)
    BY RegNames, RegFields, NumberedNames, NumberedFields, Sizes
    DEF ReadingRegisters, ParameterRegisters, UnitRegister, DeviceName, Fits, OwnSize
  <1>2. \A e \in BlockRegisters \cup NameRegisters : Fits(e)
    BY RegNames, RegFields, NumberedNames, NumberedFields, Sizes
    DEF BlockRegisters, NameRegisters, Fits, OwnSize
  <1>3. \A e \in ExtensionRegisters \cup BootstrapRegisters \cup CalibrationRegisters : Fits(e)
    BY RegNames, RegFields, NumberedNames, NumberedFields, Sizes
    DEF ExtensionRegisters, BootstrapRegisters, CalibrationRegisters, Fits, OwnSize
  <1>4. \A e \in Unlisted : Fits(e)
    BY NumberedNames, NumberedFields DEF Unlisted, Fits, OwnSize
  <1> QED BY <1>1, <1>2, <1>3, <1>4
LEMMA ScaleFits == \A e \in ScaleRegisters : Fits(e)
  BY Sizes DEF ScaleRegisters, Numbered, Fits, OwnSize
LEMMA SensorFits == \A e \in SensorRegisters : Fits(e)
  <1> SUFFICES ASSUME NEW e \in SensorRegisters PROVE Fits(e)
    OBVIOUS
  <1> QED BY NumberedNames, NumberedFields DEF SensorRegisters, SensorSpace, Fits, OwnSize
LEMMA TableFits == \A e \in ss_register : Fits(e)
  BY SystemFits, FactoryFits, OtherFit, ScaleFits, SensorFits DEF ss_register, _def

\* What a refused call was: one whose size the table refuses.
Refusing ==
    ret = "E_BUFFER_MEM_SIZE" /\ call # None =>
        Legal(call) /\ SizeRefused(call.reg, call.size)

LEMMA RefusingHolds == Spec => []Refusing
  <1>1. Init => Refusing
    BY DEF Init, Refusing
  <1>2. Refusing /\ [Next]_vars => Refusing'
    <2> SUFFICES ASSUME Refusing, [Next]_vars PROVE Refusing'
      OBVIOUS
    <2>1. ASSUME NEW k \in Calls, Begin(k) PROVE Refusing'
      <3>1. Legal(k) /\ call' = k
        BY <2>1, CallsAreLegal DEF Begin
      <3>2. ret' = "E_BUFFER_MEM_SIZE" => SizeRefused(k.reg, k.size)
        BY <2>1 DEF Begin
      <3> QED BY ONLY <3>1, <3>2 DEF Refusing, Legal
    <2>2. ASSUME call' = call, ret' = ret \/ ret' # "E_BUFFER_MEM_SIZE" PROVE Refusing'
      BY <2>2 DEF Refusing, Legal
    <2>3. CASE ComputeAddress
      BY <2>2, <2>3 DEF ComputeAddress
    <2>4. CASE Select
      BY <2>2, <2>4 DEF Select
    <2>5. CASE Transfer
      BY <2>2, <2>5 DEF Transfer, I2cRead, I2cWrite, ModbusRead, ModbusWrite, Fails
    <2>6. CASE ReverseBytes
      BY <2>2, <2>6 DEF ReverseBytes
    <2>7. CASE ReadStatus
      BY <2>2, <2>7 DEF ReadStatus
    <2>8. CASE Return
      BY <2>8 DEF Return, Refusing
    <2>9. CASE UNCHANGED vars
      BY <2>2, <2>9 DEF vars
    <2> QED BY <2>1, <2>3, <2>4, <2>5, <2>6, <2>7, <2>8, <2>9 DEF Next
  <1> QED BY <1>1, <1>2, PTL DEF Spec

\* An entry takes a buffer of its own size.
LEMMA OwnSizeAccepted ==
    ASSUME NEW e \in ss_register, NEW n, Offers(e.name, n)
    PROVE  ~SizeRefused(e, n)
  <1>1. n = e.size /\ n \in Nat
    <2>1. \A r \in DOMAIN OwnSize : OwnSize[r] \in Nat
      BY DEF OwnSize
    <2> QED BY <2>1, TableFits DEF Offers, Fits
  <1> QED BY ONLY <1>1 DEF SizeRefused

\* No function of smartsensor.c but preset_config offers a size that the table refuses,
\* for every register it names.
THEOREM AlwaysAccepted == Spec => []FunctionsAreAccepted
  <1>1. Refusing => FunctionsAreAccepted
    <2> SUFFICES ASSUME Refusing, call # None, ret = "E_BUFFER_MEM_SIZE",
                        NEW f \in AllFunctions \ {preset_config}, NEW i \in DOMAIN f.steps,
                        f.steps[i].reg = call.reg.name, f.steps[i].size = call.size
                 PROVE  FALSE
      BY DEF FunctionsAreAccepted
    <2>1. call.reg \in ss_register /\ SizeRefused(call.reg, call.size)
      BY DEF Refusing, Legal
    <2>2. Offers(call.reg.name, call.size)
      BY FunctionsOffer
    <2> QED BY ONLY <2>1, <2>2, OwnSizeAccepted
  <1> QED BY <1>1, RefusingHolds, PTL

-----------------------------------------------------------------------------
(* Which entry the index of another one selects.                           *)

\* The names of each family.
SystemNames == {"DEVICE_ID", "FIRMARE_VERSION", "HARDWARE_VERSION",
    "LIST_INDEX_BLOCK_SELECT", "USER_HOURS", "EVENT_0_TIME_BASE", "EVENT_1_TIME_BASE",
    "SYSTEM_CONTROL", "INTERRUPT_STATUS", "INTERRUPT_CONTROL", "NUMBER_OF_SENSORS",
    "NUMBER_OF_OUTPUTS", "OPERATING_TEMP", "OPERATING_VOLTAGE", "FAULT_PROCESS",
    "FAULT_CODE", "EVENT_0_TIMER", "EVENT_1_TIMER", "SYSTEM_STATUS", "TRIGGER_REQUESTS",
    "EXTRACT_START_TIME", "EXTRACT_END_TIME", "NUMBER_OF_RECORDS", "CURRENT_TIME"}
ReadingNames == {"SENSOR_DATA", "EXTRACTED_TIME_STAMP", "EXTRACTED_DATA",
    "SENSOR_DESCRIPTOR", "OUTPUT"}
ParameterNames == {"USER_PARAMETER"}
ScaleNames == {"SENSOR_GAIN", "SENSOR_OFFSET"}
FactoryNames == {"LONG_DEVICE_ID", "CORE_VERSION", "BLOCK_START_RETRY_COUNT",
    "RTC_CALIBRATION_CONTROL", "FEATURE_BITS", "DEFAULT_EVENT_TIMEBASE",
    "DEFAULT_SYSTEM_CONTROL", "DEFAULT_INTERRUPT_CONTROL", "SENSOR_LIST_INDEX",
    "SENSOR_LIST_SELECT", "IO_LIST_INDEX", "IO_LIST_SELECT", "MANUFACTURED_DATE",
    "CALIBRATION_DATE", "OPERATING_TIME", "CALIBRATION_TIME", "BASE_HARDWARE_TYPE",
    "EXTRACT_STOP_SIZE", "DEVICE_NAME_LIST", "DEVICE_MODEL_NAME", "CALIBRATION_DATA",
    "CONFIG_PASSWORD", "CONNECTIVITY_PASSWORD", "DEVICE_PARAMETER_DATA",
    "SENSOR_ERROR_COUNT", "OUTPUT_CONFIG"}
BlockNames == {"FUNCTION_BLOCK_PROGRAM", "FUNCTION_BLOCK_PARAM",
    "FUNCTION_BLOCK_PARAM_TYPE", "FUNCTION_BLOCK_STATUS", "OUTPUT_NAME_LIST"}
SensorNames == {"SENSOR_NAME_LIST", "SENSOR_IPSO_TYPE", "SENSOR_PRECISION",
    "SENSOR_FUNCTION", "SENSOR_MIN_VALUE", "SENSOR_MAX_VALUE", "SENSOR_MIN_RANGE",
    "SENSOR_MAX_RANGE", "SENSOR_0_PARAM_VALUE", "SENSOR_0_PARAM_MIN",
    "SENSOR_0_PARAM_MAX", "SENSOR_0_PARAM_INCREMENT"}
NameNames == {"DEVICE_EXTENSION_SPACE", "USER_EXTENSION_SPACE", "CALIBRATION_STRING",
    "SENSOR_NAME", "OUTPUT_NAME", "PARAM_NAME"}
ExtensionNames == {"EXTENSION_VBAT", "EXTENSION_VPOWER", "EXTENSION_STATUS",
    "EXTENSION_BATT_CAPACITY", "PROBE_STATUS"}
BootstrapNames == {"BOOTSTRAP_CONTROL", "BOOTSTRAP_ADDRESS", "BOOTSTRAP_DATA"}
CalibrationNames == {"CAL_GAIN", "CAL_OFFSET", "CAL_CJC_OFFSET"}

LEMMA SystemNamed == \A e \in SystemRegisters : e.name \in SystemNames
  BY NumberedNames, RegNames DEF SystemRegisters, SystemNames

LEMMA ReadingNamed == \A e \in ReadingRegisters : e.name \in ReadingNames
  BY NumberedNames, RegNames DEF ReadingRegisters, ReadingNames

LEMMA ParameterNamed == \A e \in ParameterRegisters : e.name \in ParameterNames
  BY NumberedNames, RegNames DEF ParameterRegisters, ParameterNames

LEMMA ScaleNamed == \A e \in ScaleRegisters : e.name \in ScaleNames
  BY NumberedNames, RegNames DEF ScaleRegisters, ScaleNames, Numbered

LEMMA FactoryNamed == \A e \in FactoryRegisters : e.name \in FactoryNames
  BY NumberedNames, RegNames DEF FactoryRegisters, FactoryNames

LEMMA BlockNamed == \A e \in BlockRegisters : e.name \in BlockNames
  BY NumberedNames, RegNames DEF BlockRegisters, BlockNames

LEMMA SensorNamed == \A e \in SensorRegisters : e.name \in SensorNames
  BY NumberedNames, RegNames DEF SensorRegisters, SensorNames, SensorSpace

LEMMA NameNamed == \A e \in NameRegisters : e.name \in NameNames
  BY NumberedNames, RegNames DEF NameRegisters, NameNames

LEMMA ExtensionNamed == \A e \in ExtensionRegisters : e.name \in ExtensionNames
  BY NumberedNames, RegNames DEF ExtensionRegisters, ExtensionNames

LEMMA BootstrapNamed == \A e \in BootstrapRegisters : e.name \in BootstrapNames
  BY NumberedNames, RegNames DEF BootstrapRegisters, BootstrapNames

LEMMA CalibrationNamed == \A e \in CalibrationRegisters : e.name \in CalibrationNames
  BY NumberedNames, RegNames DEF CalibrationRegisters, CalibrationNames

SingleNames == {"SENSOR_UNIT", "DEVICE_NAME"}

\* d is the register index d.number - e.number of e selects: it lies where the table has
\* it, on both buses.
Follows(e, d) ==
    LET n == d.number - e.number
        s == e.size + e.offset IN
    e.name = d.name /\ n \in 0 .. e.nInstance - 1 =>
        /\ d.i2c_addr = e.i2c_addr + n * s
        /\ d.modbus_addr = e.modbus_addr + (n * s) \div 2

\* One of the registers of t words each that follow each other from a and m on.
Row(e, a, m, t) ==
    /\ e.number \in Nat /\ e.size + e.offset = 2 * t
    /\ e.i2c_addr = a + (2 * t) * e.number
    /\ e.modbus_addr = m + t * e.number

LEMMA RowFollows ==
    ASSUME NEW e, NEW d, NEW a \in Nat, NEW m \in Nat, NEW t \in {1, 2, 4, 8, 32},
           Row(e, a, m, t), Row(d, a, m, t)
    PROVE  Follows(e, d)
  <1> SUFFICES ASSUME d.number - e.number \in 0 .. e.nInstance - 1
               PROVE  /\ d.i2c_addr = e.i2c_addr + (d.number - e.number) * (e.size + e.offset)
                      /\ d.modbus_addr = e.modbus_addr
                            + ((d.number - e.number) * (e.size + e.offset)) \div 2
    BY DEF Follows
  <1>1. PICK i \in Nat, j \in Nat : i = e.number /\ j = d.number
    BY DEF Row
  <1>2. j - i \in Nat
    BY ONLY <1>1, d.number - e.number \in 0 .. e.nInstance - 1
  <1>3. PICK n \in Nat : n = j - i /\ j = i + n
    BY ONLY <1>2
  <1>4. /\ a + (2 * t) * (i + n) = (a + (2 * t) * i) + n * (2 * t)
        /\ m + t * (i + n) = (m + t * i) + (n * (2 * t)) \div 2
    <2>1. CASE t = 1 BY <2>1
    <2>2. CASE t = 2 BY <2>2
    <2>3. CASE t = 4 BY <2>3
    <2>4. CASE t = 8 BY <2>4
    <2>5. CASE t = 32 BY <2>5
    <2> QED BY <2>1, <2>2, <2>3, <2>4, <2>5
  <1> QED BY ONLY <1>1, <1>3, <1>4, Row(e, a, m, t), Row(d, a, m, t) DEF Row

\* Where a register has only one instance, or all of its name have number 0, the index is
\* 0 and selects the entry itself.
LEMMA OneFollows ==
    ASSUME NEW e, NEW d, Placed(e), e.number \in Nat, d.number \in Nat,
           e.nInstance = 1 \/ (e.number = 0 /\ d.number = 0),
           e.name = d.name /\ e.number = d.number => e = d
    PROVE  Follows(e, d)
  <1> SUFFICES ASSUME e.name = d.name, d.number - e.number \in 0 .. e.nInstance - 1
               PROVE  /\ d.i2c_addr = e.i2c_addr + (d.number - e.number) * (e.size + e.offset)
                      /\ d.modbus_addr = e.modbus_addr
                            + ((d.number - e.number) * (e.size + e.offset)) \div 2
    BY DEF Follows
  <1>1. e = d /\ d.number - e.number = 0
    OBVIOUS
  <1>2. e.i2c_addr \in Nat /\ e.modbus_addr \in Nat /\ e.size + e.offset \in Nat
    BY DEF Placed
  <1> QED BY ONLY <1>1, <1>2

LEMMA SystemFollow == \A e, d \in SystemRegisters : Follows(e, d)
  <1>1. \A e, d \in SystemRegisters : e.name = d.name => e = d
    BY RegNames DEF SystemRegisters
  <1>2. \A e \in SystemRegisters : e.number = 0 /\ e.nInstance = 1
    BY RegNames, RegFields DEF SystemRegisters
  <1> QED BY <1>1, <1>2, SystemPlaced, OneFollows

LEMMA ReadingFollow == \A e, d \in ReadingRegisters : Follows(e, d)
  <1> SUFFICES ASSUME NEW e \in ReadingRegisters, NEW d \in ReadingRegisters, e.name = d.name
               PROVE  Follows(e, d)
    BY DEF Follows
  <1>1. \A r \in ReadingRegisters : r.name = "SENSOR_DATA" => Row(r, \h3c, \hf01e, 2)
    BY NumberedNames, NumberedFields, RegNames, Sizes
    DEF ReadingRegisters, Row, R_SENSOR_VALUE, Sensors
  <1>2. \A r \in ReadingRegisters : r.name = "SENSOR_DESCRIPTOR" => Row(r, \h60, \hf030, 4)
    BY NumberedNames, NumberedFields, RegNames, Sizes
    DEF ReadingRegisters, Row, R_SENSOR_DESCRIPTOR, Sensors
  <1>3. \A r \in ReadingRegisters : r.name = "OUTPUT" => Row(r, \hf0, \hf078, 2)
    BY NumberedNames, NumberedFields, RegNames, Sizes
    DEF ReadingRegisters, Row, R_OUTPUT_VALUE, Sensors
  <1>4. CASE e.name \in {"EXTRACTED_TIME_STAMP", "EXTRACTED_DATA"}
    <2>1. e = d /\ e.number = 0
      BY <1>4, NumberedNames, RegNames DEF ReadingRegisters
    <2> QED BY <2>1, ReadingPlaced, OneFollows
  <1> QED BY <1>1, <1>2, <1>3, <1>4, RowFollows, ReadingNamed DEF ReadingNames

LEMMA ParameterFollow == \A e, d \in ParameterRegisters : Follows(e, d)
  <1>1. ASSUME NEW r \in ParameterRegisters PROVE Row(r, \h80, \hf040, 2)
    <2>1. PICK i \in 0 .. 15 : r = Numbered("USER_PARAMETER", i, \hf040 + 2 * i,
                                            R_USER_PARAMETER_VALUE(i), 16 - i, RDWR, 4)
      BY DEF ParameterRegisters
    <2>2. /\ r.number = i /\ r.i2c_addr = \h80 + 4 * i /\ r.modbus_addr = \hf040 + 2 * i
          /\ r.size = 4 /\ r.offset = 0
      BY <2>1, NumberedNames, NumberedFields DEF R_USER_PARAMETER_VALUE
    <2> QED BY ONLY <2>2 DEF Row
  <1> QED BY <1>1, RowFollows

LEMMA ScaleFollow == \A e, d \in ScaleRegisters : Follows(e, d)
  <1>1. \A e, d \in ScaleRegisters : e.name = d.name => e = d
    BY DEF ScaleRegisters, Numbered
  <1>2. \A e \in ScaleRegisters : e.number = 0
    BY DEF ScaleRegisters, Numbered
  <1> QED BY <1>1, <1>2, ScalePlaced, OneFollows

LEMMA FactoryFollow == \A e, d \in FactoryRegisters : Follows(e, d)
  <1> SUFFICES ASSUME NEW e \in FactoryRegisters, NEW d \in FactoryRegisters, e.name = d.name
               PROVE  Follows(e, d)
    BY DEF Follows
  <1>1. ASSUME NEW r \in FactoryRegisters, r.name = "SENSOR_ERROR_COUNT" PROVE Row(r, \h120, \hf090, 1)
    <2>1. PICK i \in Sensors : r = Numbered("SENSOR_ERROR_COUNT", i, \hf090 + i, R_SENSOR_ERRORS(i), 4 - i,
                                           RD, Sizeof.u16)
      BY <1>1, NumberedNames, RegNames DEF FactoryRegisters
    <2>2. /\ r.number = i /\ r.i2c_addr = \h120 + 2 * i /\ r.modbus_addr = \hf090 + i
          /\ r.size = 2 /\ r.offset = 0
      BY ONLY <2>1, NumberedNames, NumberedFields, Sizes DEF R_SENSOR_ERRORS
    <2> QED BY ONLY <2>2, i \in Sensors DEF Row, Sensors
  <1>2. ASSUME NEW r \in FactoryRegisters, r.name = "OUTPUT_CONFIG" PROVE Row(r, \h134, \hf09a, 1)
    <2>1. PICK i \in Sensors : r = Numbered("OUTPUT_CONFIG", i, \hf09a + i, R_OUTPUT_DESCRIPTOR(i), 4 - i,
                                           RD, Sizeof.u16)
      BY <1>2, NumberedNames, RegNames DEF FactoryRegisters
    <2>2. /\ r.number = i /\ r.i2c_addr = \h134 + 2 * i /\ r.modbus_addr = \hf09a + i
          /\ r.size = 2 /\ r.offset = 0
      BY ONLY <2>1, NumberedNames, NumberedFields, Sizes DEF R_OUTPUT_DESCRIPTOR
    <2> QED BY ONLY <2>2, i \in Sensors DEF Row, Sensors
  <1>3. ASSUME NEW r \in FactoryRegisters, r.name = "DEFAULT_EVENT_TIMEBASE"
        PROVE  Row(r, \h114, \hf08a, 1)
    <2>1. F.DEFAULT_EVENT_0_TIMEBASE = \h114 /\ F.DEFAULT_EVENT_1_TIMEBASE = \h116
      BY DEF F
    <2>2. \/ r = Numbered("DEFAULT_EVENT_TIMEBASE", 0, \hf08a, F.DEFAULT_EVENT_0_TIMEBASE, 2,
                          RD, Sizeof.u16)
          \/ r = Numbered("DEFAULT_EVENT_TIMEBASE", 1, \hf08b, F.DEFAULT_EVENT_1_TIMEBASE, 1,
                          RD, Sizeof.u16)
      BY <1>3, NumberedNames, RegNames DEF FactoryRegisters
    <2>3. \/ /\ r.number = 0 /\ r.i2c_addr = \h114 /\ r.modbus_addr = \hf08a
             /\ r.size = 2 /\ r.offset = 0
          \/ /\ r.number = 1 /\ r.i2c_addr = \h116 /\ r.modbus_addr = \hf08b
             /\ r.size = 2 /\ r.offset = 0
      BY ONLY <2>1, <2>2, NumberedNames, NumberedFields, Sizes
    <2> QED BY ONLY <2>3 DEF Row
  <1>4. CASE e.name \notin {"SENSOR_ERROR_COUNT", "OUTPUT_CONFIG", "DEFAULT_EVENT_TIMEBASE"}
    <2>1. e = d /\ e.number = 0
      BY <1>4, NumberedNames, RegNames DEF FactoryRegisters
    <2> QED BY <2>1, FactoryPlaced, OneFollows
  <1> QED BY <1>1, <1>2, <1>3, <1>4, RowFollows

LEMMA BlockFollow == \A e, d \in BlockRegisters : Follows(e, d)
  <1> SUFFICES ASSUME NEW e \in BlockRegisters, NEW d \in BlockRegisters, e.name = d.name
               PROVE  Follows(e, d)
    BY DEF Follows
  <1>1. \A r \in BlockRegisters : r.name = "OUTPUT_NAME_LIST" => Row(r, \h700, \hf380, 32)
    BY NumberedNames, NumberedFields, RegNames
    DEF BlockRegisters, Row, R_OUTPUT_NAMELIST, Sensors
  <1>2. CASE e.name # "OUTPUT_NAME_LIST"
    <2>1. e = d /\ e.number = 0
      BY <1>2, NumberedNames, RegNames DEF BlockRegisters
    <2> QED BY <2>1, BlockPlaced, OneFollows
  <1> QED BY <1>1, <1>2, RowFollows

LEMMA SensorFollow == \A e, d \in SensorRegisters : Follows(e, d)
  <1>1. \A e \in SensorRegisters : e.number \in Nat /\ e.nInstance = 1
    BY NumberedNames, NumberedFields DEF SensorRegisters, Sensors
  <1>2. \A s, u \in SensorSpace : s[1] = u[1] => s = u
    BY DEF SensorSpace
  <1>3. \A s \in SensorSpace : s[1] \notin {"SENSOR_0_PARAM_VALUE", "SENSOR_0_PARAM_MIN",
                                          "SENSOR_0_PARAM_MAX", "SENSOR_0_PARAM_INCREMENT"}
    BY DEF SensorSpace
  <1>4. \A e, d \in SensorRegisters : e.name = d.name /\ e.number = d.number => e = d
    BY <1>2, <1>3, NumberedNames DEF SensorRegisters
  <1> QED BY <1>1, <1>4, SensorPlaced, OneFollows

LEMMA NameFollow == \A e, d \in NameRegisters : Follows(e, d)
  <1> SUFFICES ASSUME NEW e \in NameRegisters, NEW d \in NameRegisters, e.name = d.name
               PROVE  Follows(e, d)
    BY DEF Follows
  <1>1. \A r \in NameRegisters : r.name = "SENSOR_NAME" => Row(r, \he00, \hf700, 8)
    BY NumberedNames, NumberedFields, RegNames DEF NameRegisters, Row, R_SENSOR_NAME, Sensors
  <1>2. \A r \in NameRegisters : r.name = "OUTPUT_NAME" => Row(r, \he40, \hf720, 8)
    BY NumberedNames, NumberedFields, RegNames DEF NameRegisters, Row, R_OUTPUT_NAME, Sensors
  <1>3. \A r \in NameRegisters : r.name = "PARAM_NAME" => Row(r, \he80, \hf740, 8)
    BY NumberedNames, NumberedFields, RegNames DEF NameRegisters, Row, R_USER_PARAMETER_NAME
  <1>4. CASE e.name \notin {"SENSOR_NAME", "OUTPUT_NAME", "PARAM_NAME"}
    <2>1. e = d /\ e.number = 0
      BY <1>4, NumberedNames, RegNames DEF NameRegisters
    <2> QED BY <2>1, NamePlaced, OneFollows
  <1> QED BY <1>1, <1>2, <1>3, <1>4, RowFollows

LEMMA SmallFollow ==
    /\ \A e, d \in ExtensionRegisters : Follows(e, d)
    /\ \A e, d \in BootstrapRegisters : Follows(e, d)
    /\ \A e, d \in CalibrationRegisters : Follows(e, d)
    /\ Follows(UnitRegister, UnitRegister) /\ Follows(DeviceName, DeviceName)
  <1>1. ASSUME NEW e \in ExtensionRegisters, NEW d \in ExtensionRegisters PROVE Follows(e, d)
    <2>1. e.number = 0 /\ d.number = 0 /\ (e.name = d.name => e = d)
      BY RegNames DEF ExtensionRegisters
    <2> QED BY <2>1, ExtensionPlaced, OneFollows
  <1>2. ASSUME NEW e \in BootstrapRegisters, NEW d \in BootstrapRegisters PROVE Follows(e, d)
    <2>1. e.number = 0 /\ d.number = 0 /\ (e.name = d.name => e = d)
      BY RegNames DEF BootstrapRegisters
    <2> QED BY <2>1, BootstrapPlaced, OneFollows
  <1>3. ASSUME NEW e \in CalibrationRegisters, NEW d \in CalibrationRegisters
        PROVE  Follows(e, d)
    <2>1. e.number \in Nat /\ d.number \in Nat /\ e.nInstance = 1
      BY NumberedNames, NumberedFields DEF CalibrationRegisters
    <2>2. e.name = d.name /\ e.number = d.number => e = d
      BY NumberedNames DEF CalibrationRegisters
    <2> QED BY <2>1, <2>2, CalibrationPlaced, OneFollows
  <1>4. UnitRegister.number = 0 /\ DeviceName.number = 0
    BY NumberedNames, RegNames DEF UnitRegister, DeviceName
  <1> QED BY <1>1, <1>2, <1>3, <1>4, ScalePlaced, OneFollows

\* The families have no name in common.
LEMMA FamiliesDistinct ==
    /\ SystemNames \cap (ReadingNames \cup ParameterNames \cup ScaleNames \cup FactoryNames
          \cup BlockNames \cup SensorNames \cup NameNames \cup ExtensionNames
          \cup BootstrapNames \cup CalibrationNames \cup SingleNames) = {}
    /\ ReadingNames \cap (ParameterNames \cup ScaleNames \cup FactoryNames
          \cup BlockNames \cup SensorNames \cup NameNames \cup ExtensionNames
          \cup BootstrapNames \cup CalibrationNames \cup SingleNames) = {}
    /\ ParameterNames \cap (ScaleNames \cup FactoryNames
          \cup BlockNames \cup SensorNames \cup NameNames \cup ExtensionNames
          \cup BootstrapNames \cup CalibrationNames \cup SingleNames) = {}
    /\ ScaleNames \cap (FactoryNames
          \cup BlockNames \cup SensorNames \cup NameNames \cup ExtensionNames
          \cup BootstrapNames \cup CalibrationNames \cup SingleNames) = {}
    /\ FactoryNames \cap (BlockNames \cup SensorNames \cup NameNames \cup ExtensionNames
          \cup BootstrapNames \cup CalibrationNames \cup SingleNames) = {}
    /\ BlockNames \cap (SensorNames \cup NameNames \cup ExtensionNames
          \cup BootstrapNames \cup CalibrationNames \cup SingleNames) = {}
    /\ SensorNames \cap (NameNames \cup ExtensionNames
          \cup BootstrapNames \cup CalibrationNames \cup SingleNames) = {}
    /\ NameNames \cap (ExtensionNames \cup BootstrapNames \cup CalibrationNames
          \cup SingleNames) = {}
    /\ ExtensionNames \cap (BootstrapNames \cup CalibrationNames \cup SingleNames) = {}
    /\ BootstrapNames \cap (CalibrationNames \cup SingleNames) = {}
    /\ CalibrationNames \cap SingleNames = {}
  BY DEF SystemNames, ReadingNames, ParameterNames, ScaleNames, FactoryNames, BlockNames,
     SensorNames, NameNames, ExtensionNames, BootstrapNames, CalibrationNames, SingleNames

\* Two entries of one name are of one family, or one and the same.
LEMMA DefFollow == \A e, d \in _def : Follows(e, d)
  <1> SUFFICES ASSUME NEW e \in _def, NEW d \in _def, e.name = d.name PROVE Follows(e, d)
    BY DEF Follows
  <1>1. UnitRegister.name = "SENSOR_UNIT" /\ DeviceName.name = "DEVICE_NAME"
    BY NumberedNames, RegNames DEF UnitRegister, DeviceName
  <1>2. UnitRegister.name \in SingleNames /\ DeviceName.name \in SingleNames
    BY <1>1 DEF SingleNames
  <1>3. \/ \E r \in {SystemRegisters, ReadingRegisters, ParameterRegisters, ScaleRegisters,
                     FactoryRegisters, BlockRegisters, SensorRegisters, NameRegisters,
                     ExtensionRegisters, BootstrapRegisters, CalibrationRegisters} :
              e \in r /\ d \in r
        \/ e = d /\ e \in {UnitRegister, DeviceName}
    BY <1>1, <1>2, FamiliesDistinct, SystemNamed, ReadingNamed, ParameterNamed, ScaleNamed,
       FactoryNamed, BlockNamed, SensorNamed, NameNamed, ExtensionNamed, BootstrapNamed,
       CalibrationNamed DEF _def
  <1> QED BY <1>3, SystemFollow, ReadingFollow, ParameterFollow, ScaleFollow, FactoryFollow,
             BlockFollow, SensorFollow, NameFollow, SmallFollow

\* The numbers and the addresses on Modbus, which have 16 bits.
Narrow(e) ==
    e.number \in Nat /\ e.modbus_addr \in Nat /\ e.modbus_addr < \h10000

LEMMA DefNarrow == \A e \in _def : Narrow(e)
  <1>1. \A e \in SystemRegisters \cup ReadingRegisters : Narrow(e)
    BY NumberedNames, NumberedFields, RegNames, RegFields
    DEF SystemRegisters, ReadingRegisters, Narrow, Sensors
  <1>2. \A e \in ParameterRegisters \cup {UnitRegister, DeviceName} : Narrow(e)
    BY NumberedNames, NumberedFields, RegNames, RegFields
    DEF ParameterRegisters, UnitRegister, DeviceName, Narrow
  <1>3. \A e \in ScaleRegisters : Narrow(e)
    BY DEF ScaleRegisters, Numbered, Narrow
  <1>4. \A e \in FactoryRegisters : Narrow(e)
    BY NumberedNames, NumberedFields, RegNames, RegFields
    DEF FactoryRegisters, Narrow, Sensors
  <1>5. \A e \in BlockRegisters \cup NameRegisters : Narrow(e)
    BY NumberedNames, NumberedFields, RegNames, RegFields
    DEF BlockRegisters, NameRegisters, Narrow, Sensors
  <1>6. \A e \in SensorRegisters : Narrow(e)
    <2>1. \A s \in SensorSpace : s[2] \in Nat /\ s[2] < 128
      BY DEF SensorSpace
    <2>2. \A s \in SensorSpace, i \in Sensors :
             \hf400 + 128 * i + s[2] \in Nat /\ \hf400 + 128 * i + s[2] < \h10000
      BY <2>1 DEF Sensors
    <2> QED BY <2>2, NumberedNames, NumberedFields DEF SensorRegisters, Narrow, Sensors
  <1>7. \A e \in ExtensionRegisters \cup BootstrapRegisters \cup CalibrationRegisters : Narrow(e)
    BY NumberedNames, NumberedFields, RegNames, RegFields
    DEF ExtensionRegisters, BootstrapRegisters, CalibrationRegisters, Narrow, NoAddress
  <1> QED BY <1>1, <1>2, <1>3, <1>4, <1>5, <1>6, <1>7 DEF _def

\* Unlisted registers have no instance, so every call with one is refused.
LEMMA AcceptedInDef == ASSUME NEW k, Accepted(k) PROVE k.reg \in _def
  <1>1. k.index \in Nat /\ k.index < k.reg.nInstance
    BY AcceptedFacts
  <1>2. k.reg \in ss_register
    BY DEF Accepted, Legal
  <1>3. \A u \in Unlisted : u.nInstance = 0
    BY NumberedFields DEF Unlisted
  <1> QED BY <1>1, <1>2, <1>3 DEF ss_register

\* A transfer reaches the address of its call.
LEMMA ReachedIsAddress ==
    ASSUME IInv, pc = "transfer" PROVE Accepted(call) /\ Reached = Address(call)
  <1>1. Accepted(call)
    BY DEF IInv, Going, Working
  <1>2. CASE access = None /\ reg_addr = Address(call)
    BY <1>1, <1>2 DEF Reached
  <1>3. CASE call.bus = "I2C" /\ access = Address(call)
    <2>1. access # None
      BY <1>1, <1>3, AddressOnI2c, AccessAssumption
    <2> QED BY <1>1, <1>3, <2>1 DEF Reached
  <1> QED BY <1>1, <1>2, <1>3 DEF IInv, Addressed

\* The address of an accepted call is the one the table has for the register of that number.
LEMMA AddressIsNumbered ==
    ASSUME NEW k, Accepted(k), NEW d \in _def, d.name = k.reg.name,
           d.number = k.reg.number + k.index
    PROVE  Address(k) = AddressOn(k.bus, d)
  <1> DEFINE e == k.reg
             s == e.size + e.offset
  <1>1. /\ Placed(e) /\ k.index \in Nat /\ k.index < e.nInstance /\ e.nInstance \in Nat
    BY AcceptedFacts DEF Placed
  <1>2. e \in _def
    BY AcceptedInDef
  <1>3. e.number \in Nat /\ d.number - e.number = k.index
    <2>1. e.number \in Nat
      BY <1>2, DefNarrow DEF Narrow
    <2> HIDE DEF e
    <2>2. d.number = e.number + k.index
      BY DEF e
    <2> QED BY ONLY <1>1, <2>1, <2>2
  <1>4. k.index \in 0 .. e.nInstance - 1
    BY <1>1
  <1>5. /\ d.i2c_addr = e.i2c_addr + k.index * s
        /\ d.modbus_addr = e.modbus_addr + (k.index * s) \div 2
    BY <1>2, <1>3, <1>4, DefFollow DEF Follows
  <1>6. /\ d.i2c_addr \in Nat /\ d.i2c_addr < \h10000
        /\ d.modbus_addr \in Nat /\ d.modbus_addr < \h10000
    <2>1. Placed(d)
      BY SystemPlaced, ReadingPlaced, ParameterPlaced, ScalePlaced, FactoryPlaced,
         BlockPlaced, SensorPlaced, NamePlaced, ExtensionPlaced, BootstrapPlaced,
         CalibrationPlaced DEF _def
    <2>2. PICK n \in Nat : n = d.nInstance * (d.size + d.offset)
      BY <2>1 DEF Placed
    <2>3. d.i2c_addr \in Nat /\ Lies(d.i2c_addr, n)
      BY <2>1, <2>2 DEF Placed
    <2>4. d.i2c_addr \in Nat /\ d.i2c_addr < \h10000
      BY ONLY <2>2, <2>3 DEF Lies
    <2> QED BY <2>4, DefNarrow DEF Narrow
  <1>7. \A x \in Nat : x < \h10000 => x % \h10000 = x
    OBVIOUS
  <1>8. Address(k) = (IF k.bus = "I2C" THEN e.i2c_addr + k.index * s
                      ELSE e.modbus_addr + (k.index * s) \div 2) % \h10000
    BY DEF Address
  <1> HIDE DEF s, e
  <1> QED BY ONLY <1>5, <1>6, <1>7, <1>8 DEF AddressOn

\* Index k of the register X_i reaches the register X_(i + k), on both buses, for every
\* register of the table.
THEOREM AlwaysReachesNumbered == Spec => []IndexReachesNumbered
  <1>1. IInv => IndexReachesNumbered
    <2> SUFFICES ASSUME IInv, pc = "transfer", NEW d \in _def, d.name = call.reg.name,
                        d.number = call.reg.number + call.index
                 PROVE  Reached = AddressOn(call.bus, d)
      BY DEF IndexReachesNumbered
    <2>1. Accepted(call) /\ Reached = Address(call)
      BY ReachedIsAddress
    <2> QED BY <2>1, AddressIsNumbered
  <1> QED BY <1>1, Invariance, PTL

-----------------------------------------------------------------------------
(* Where the registers lie on either bus, and that they lie apart.         *)

\* The bytes from the first instance of an entry to the end of its last.
Whole(e) == (e.nInstance - 1) * (e.size + e.offset) + e.size

\* As many bytes in the units of the bus's addresses.
Span(bus, n) == IF bus = "I2C" THEN n ELSE Even(n) \div 2

EndOn(bus, e) == AddressOn(bus, e) + Span(bus, Whole(e))

Within(bus, e, lo, hi) == lo <= AddressOn(bus, e) /\ EndOn(bus, e) <= hi

Separate(bus, e, d) ==
    EndOn(bus, e) <= AddressOn(bus, d) \/ EndOn(bus, d) <= AddressOn(bus, e)

\* An entry of h words of two bytes, all instances together.
Spot(e, a, m, h) ==
    /\ AddressOn("I2C", e) = a /\ EndOn("I2C", e) = a + 2 * h
    /\ AddressOn("MODBUS", e) = m /\ EndOn("MODBUS", e) = m + h

LEMMA EvenSpan ==
    ASSUME NEW h \in Nat
    PROVE  Span("I2C", 2 * h) = 2 * h /\ Span("MODBUS", 2 * h) = h
  BY DEF Span, Even

LEMMA SpotOf ==
    ASSUME NEW e, NEW a \in Nat, NEW m \in Nat, NEW h \in Nat,
           e.i2c_addr = a, e.modbus_addr = m, e.nInstance \in Nat, e.size \in Nat,
           e.offset = 0, e.nInstance * e.size = 2 * h
    PROVE  Spot(e, a, m, h)
  <1>1. PICK n \in Nat : n = e.nInstance
    OBVIOUS
  <1>2. PICK s \in Nat : s = e.size
    OBVIOUS
  <1>3. Whole(e) = (n - 1) * (s + 0) + s
    BY <1>1, <1>2 DEF Whole
  <1>4. (n - 1) * (s + 0) + s = n * s
    OBVIOUS
  <1>5. Whole(e) = 2 * h
    BY <1>1, <1>2, <1>3, <1>4
  <1> QED BY <1>5, EvenSpan DEF Spot, EndOn, AddressOn

LEMMA NumberedSpot ==
    ASSUME NEW name, NEW i, NEW a \in Nat, NEW m \in Nat, NEW n \in Nat, NEW acc,
           NEW s \in Nat, NEW h \in Nat, n * s = 2 * h
    PROVE  Spot(Numbered(name, i, m, a, n, acc, s), a, m, h)
  <1> DEFINE e == Numbered(name, i, m, a, n, acc, s)
  <1>1. /\ e.i2c_addr = a /\ e.modbus_addr = m /\ e.nInstance = n /\ e.size = s
        /\ e.offset = 0
    BY NumberedFields
  <1> HIDE DEF e
  <1>2. e.nInstance * e.size = 2 * h
    BY <1>1
  <1>3. Spot(e, a, m, h)
    BY <1>1, <1>2, SpotOf
  <1> QED BY <1>3 DEF e

LEMMA RegSpot ==
    ASSUME NEW name, NEW a \in Nat, NEW m \in Nat, NEW acc, NEW s \in Nat, NEW h \in Nat,
           s = 2 * h
    PROVE  Spot(Reg(name, m, a, acc, s), a, m, h)
  <1>1. 1 * s = 2 * h
    OBVIOUS
  <1> QED BY <1>1, NumberedSpot DEF Reg

\* Every accepted address of an entry lies between its start and its end.
LEMMA InstanceWithin ==
    ASSUME NEW k, Placed(k.reg), k.index \in 0 .. k.reg.nInstance - 1,
           Length(k) \in Nat, Length(k) <= k.reg.size, k.bus \in {"I2C", "MODBUS"},
           EndOn(k.bus, k.reg) <= \h10000
    PROVE  /\ Address(k) = (IF k.bus = "I2C"
                THEN k.reg.i2c_addr + k.index * (k.reg.size + k.reg.offset)
                ELSE k.reg.modbus_addr + (k.index * (k.reg.size + k.reg.offset)) \div 2)
           /\ AddressOn(k.bus, k.reg) <= Address(k)
           /\ Address(k) + Units(k) <= EndOn(k.bus, k.reg)
  <1> DEFINE e == k.reg
             s == e.size + e.offset
  <1>1. /\ e.i2c_addr \in Nat /\ e.modbus_addr \in Nat /\ e.nInstance \in Nat
        /\ e.size \in Nat \ {0} /\ e.offset \in Nat
    BY DEF Placed
  <1>2. PICK p \in Nat : p = k.index * s
    BY <1>1
  <1>3. PICK q \in Nat : q = (e.nInstance - 1) * s
    <2>1. e.nInstance - 1 \in Nat /\ s \in Nat
      BY <1>1
    <2> HIDE DEF s, e
    <2> QED BY <2>1
  <1>4. p <= q
    <2>1. /\ e.nInstance - 1 \in Nat /\ s \in Nat /\ k.index \in Nat
          /\ k.index <= e.nInstance - 1
      BY <1>1
    <2>2. PICK n \in Nat : n = e.nInstance - 1
      BY <2>1
    <2>3. PICK i \in Nat : i = k.index
      BY <2>1
    <2>4. i <= n /\ p = i * s /\ q = n * s
      BY <1>2, <1>3, <2>1, <2>2, <2>3
    <2>5. PICK r \in Nat : n = i + r
      <3>1. n - i \in Nat /\ n = i + (n - i)
        BY <2>4
      <3> QED BY <3>1
    <2> HIDE DEF s, e
    <2>6. n * s = (i * s) + (r * s) /\ r * s \in Nat
      BY ONLY <2>1, <2>5
    <2> QED BY ONLY <2>4, <2>6, p \in Nat, q \in Nat
  <1>5. PICK z \in Nat : z = e.size
    BY <1>1
  <1>6. PICK y \in Nat : y = Length(k)
    OBVIOUS
  <1>7. y <= z
    BY <1>5, <1>6
  <1>8. Whole(e) = q + z
    BY <1>3, <1>5 DEF Whole
  <1>9. Address(k) = (IF k.bus = "I2C" THEN e.i2c_addr + p
                      ELSE e.modbus_addr + p \div 2) % \h10000
    BY <1>2 DEF Address
  <1>10. EndOn(k.bus, e) = AddressOn(k.bus, e) + (IF k.bus = "I2C" THEN q + z
                                                 ELSE Even(q + z) \div 2)
    BY <1>8 DEF EndOn, Span
  <1>11. Units(k) = (IF k.bus = "I2C" THEN y ELSE Even(y) \div 2)
    BY <1>6 DEF Units
  <1>12. PICK a \in Nat : a = e.i2c_addr
    BY <1>1
  <1>13. PICK m \in Nat : m = e.modbus_addr
    BY <1>1
  <1>14. /\ p \div 2 \in Nat /\ Even(y) \div 2 \in Nat
         /\ (p \div 2) + (Even(y) \div 2) <= Even(q + z) \div 2
    BY ONLY <1>4, <1>7, p \in Nat, q \in Nat, y \in Nat, z \in Nat DEF Even
  <1>15. 1 <= z
    BY <1>1, <1>5
  <1>16. \A x \in Nat : x <= \h10000 - 1 => x % \h10000 = x
    OBVIOUS
  <1>17. CASE k.bus = "I2C"
    <2>1. a + q + z <= \h10000
      BY <1>10, <1>12, <1>17 DEF AddressOn
    <2>2. (a + p) % \h10000 = a + p
      BY ONLY <1>4, <1>15, <1>16, <2>1, a \in Nat, p \in Nat, q \in Nat, z \in Nat
    <2>3. Address(k) = a + p
      BY <1>9, <1>12, <1>17, <2>2
    <2> QED BY <1>2, <1>4, <1>7, <1>10, <1>11, <1>12, <1>17, <2>3 DEF AddressOn
  <1>18. CASE k.bus = "MODBUS"
    <2>1. m + (Even(q + z) \div 2) <= \h10000
      BY <1>10, <1>13, <1>18 DEF AddressOn
    <2>2. (p \div 2) + 1 <= Even(q + z) \div 2
      BY ONLY <1>4, <1>15, p \in Nat, q \in Nat, z \in Nat DEF Even
    <2>3. PICK b \in Nat : b = p \div 2
      BY <1>14
    <2>4. PICK t \in Nat : t = Even(q + z) \div 2
      BY ONLY q \in Nat, z \in Nat DEF Even
    <2>5. (m + b) % \h10000 = m + b
      BY ONLY <1>16, <2>1, <2>2, <2>3, <2>4, m \in Nat, b \in Nat, t \in Nat
    <2>6. Address(k) = m + b
      BY <1>9, <1>13, <1>18, <2>3, <2>5
    <2>7. AddressOn(k.bus, e) = m /\ EndOn(k.bus, e) = m + t /\ Units(k) = Even(y) \div 2
      BY <1>10, <1>11, <1>13, <1>18, <2>4 DEF AddressOn
    <2>8. b + (Even(y) \div 2) <= t
      BY <1>14, <2>3, <2>4
    <2>9. Address(k) + Units(k) <= EndOn(k.bus, e)
      BY ONLY <1>14, <2>6, <2>7, <2>8, m \in Nat, b \in Nat, t \in Nat
    <2> QED BY <1>2, <1>13, <1>18, <2>3, <2>6, <2>7, <2>9
  <1>19. k.bus = "I2C" \/ k.bus = "MODBUS"
    OBVIOUS
  <1> QED BY <1>17, <1>18, <1>19

\* Writable or not, an entry of this family lies there on each bus on which it has an
\* address.
Inside(e, lo, hi, first, last) ==
    /\ Within("I2C", e, lo, hi) \/ e \in Unaddressed("I2C")
    /\ Within("MODBUS", e, first, last) \/ e \in Unaddressed("MODBUS")

LEMMA SpotInside ==
    ASSUME NEW e, NEW a \in Nat, NEW m \in Nat, NEW h \in Nat, Spot(e, a, m, h),
           NEW lo \in Nat, NEW hi \in Nat, NEW first \in Nat, NEW last \in Nat,
           lo <= a, a + 2 * h <= hi, first <= m, m + h <= last
    PROVE  Inside(e, lo, hi, first, last)
  BY DEF Spot, Inside, Within

\* The entries with an address of zero but the first register.
LEMMA WithoutAddress ==
    ASSUME NEW e \in _def
    PROVE  /\ e.i2c_addr = NoAddress /\ e.modbus_addr # \hf000 => e \in Unaddressed("I2C")
           /\ e.modbus_addr = NoAddress => e \in Unaddressed("MODBUS")
  <1>1. Reg("DEVICE_ID", \hf000, 0, RD, 4).modbus_addr = \hf000
    BY RegFields
  <1> QED BY <1>1 DEF Unaddressed, AddressOn, NoAddress

LEMMA DefPlaced == \A e \in _def : Placed(e)
  BY SystemPlaced, ReadingPlaced, ParameterPlaced, ScalePlaced, FactoryPlaced, BlockPlaced,
     SensorPlaced, NamePlaced, ExtensionPlaced, BootstrapPlaced, CalibrationPlaced DEF _def

LEMMA EndIsInt ==
    ASSUME NEW e \in _def, NEW bus
    PROVE  AddressOn(bus, e) \in Nat /\ EndOn(bus, e) \in Int
  <1>1. Placed(e)
    BY DefPlaced
  <1>2. AddressOn(bus, e) \in Nat
    BY <1>1 DEF AddressOn, Placed
  <1>3. PICK n \in Nat : n = e.nInstance
    BY <1>1 DEF Placed
  <1>4. PICK s \in Nat : s = e.size + e.offset
    BY <1>1 DEF Placed
  <1>5. (n - 1) * s \in Int /\ Whole(e) = (n - 1) * s + e.size
    BY <1>3, <1>4 DEF Whole
  <1>6. PICK w \in Int : w = Whole(e)
    BY <1>1, <1>5 DEF Placed
  <1>7. Span(bus, w) \in Int
    BY DEF Span, Even
  <1> QED BY <1>2, <1>6, <1>7 DEF EndOn

\* A family in sections, one for each name: where it begins and ends on either bus.
InSection(e, t) == e.name = t[1] /\ Inside(e, t[2], t[3], t[4], t[5])

Section(t) == t[2] \in Nat /\ t[3] \in Nat /\ t[4] \in Nat /\ t[5] \in Nat

Disjoint(t, u) == /\ t[3] <= u[2] \/ u[3] <= t[2]
                  /\ t[5] <= u[4] \/ u[5] <= t[4]

LEMMA SectionsApart ==
    ASSUME NEW bus \in {"I2C", "MODBUS"},
           NEW e \in _def \ Unaddressed(bus), NEW d \in _def \ Unaddressed(bus),
           NEW t, NEW u, InSection(e, t), InSection(d, u), Section(t), Section(u),
           Disjoint(t, u)
    PROVE  Separate(bus, e, d)
  <1>1. /\ AddressOn(bus, e) \in Nat /\ EndOn(bus, e) \in Int
        /\ AddressOn(bus, d) \in Nat /\ EndOn(bus, d) \in Int
    BY EndIsInt
  <1>2. PICK lo \in Nat, hi \in Nat, first \in Nat, last \in Nat :
           lo = t[2] /\ hi = t[3] /\ first = t[4] /\ last = t[5]
    BY DEF Section
  <1>3. PICK lo2 \in Nat, hi2 \in Nat, first2 \in Nat, last2 \in Nat :
           lo2 = u[2] /\ hi2 = u[3] /\ first2 = u[4] /\ last2 = u[5]
    BY DEF Section
  <1>4. Inside(e, lo, hi, first, last) /\ Inside(d, lo2, hi2, first2, last2)
    BY <1>2, <1>3 DEF InSection
  <1>5. /\ hi <= lo2 \/ hi2 <= lo
        /\ last <= first2 \/ last2 <= first
    BY ONLY <1>2, <1>3, Disjoint(t, u) DEF Disjoint
  <1>6. CASE bus = "I2C"
    <2>1. Within(bus, e, lo, hi) /\ Within(bus, d, lo2, hi2)
      BY <1>4, <1>6 DEF Inside
    <2> QED BY ONLY <1>1, <1>5, <2>1 DEF Within, Separate
  <1>7. CASE bus = "MODBUS"
    <2>1. Within(bus, e, first, last) /\ Within(bus, d, first2, last2)
      BY <1>4, <1>7 DEF Inside
    <2> QED BY ONLY <1>1, <1>5, <2>1 DEF Within, Separate
  <1> QED BY <1>6, <1>7

\* A section lies in whatever contains it.
LEMMA SectionInside ==
    ASSUME NEW e \in _def, NEW t, InSection(e, t), Section(t),
           NEW lo \in Nat, NEW hi \in Nat, NEW first \in Nat, NEW last \in Nat,
           lo <= t[2], t[3] <= hi, first <= t[4], t[5] <= last
    PROVE  Inside(e, lo, hi, first, last)
  <1>1. \A bus \in {"I2C", "MODBUS"} : AddressOn(bus, e) \in Nat /\ EndOn(bus, e) \in Int
    BY EndIsInt
  <1> QED BY <1>1 DEF InSection, Section, Inside, Within

SystemTable == {
    <<"DEVICE_ID", \h00, \hf000, 2>>, <<"FIRMARE_VERSION", \h04, \hf002, 2>>,
    <<"HARDWARE_VERSION", \h08, \hf004, 2>>, <<"LIST_INDEX_BLOCK_SELECT", \h0c, \hf006, 1>>,
    <<"USER_HOURS", \h0e, \hf007, 1>>, <<"EVENT_0_TIME_BASE", \h10, \hf008, 1>>,
    <<"EVENT_1_TIME_BASE", \h12, \hf009, 1>>, <<"SYSTEM_CONTROL", \h14, \hf00a, 1>>,
    <<"INTERRUPT_STATUS", \h16, \hf00b, 1>>, <<"INTERRUPT_CONTROL", \h18, \hf00c, 1>>,
    <<"NUMBER_OF_SENSORS", \h1a, \hf00d, 1>>, <<"NUMBER_OF_OUTPUTS", \h1b, \hf00d, 1>>,
    <<"OPERATING_TEMP", \h1c, \hf00e, 1>>, <<"OPERATING_VOLTAGE", \h1c, \hf00e, 1>>,
    <<"FAULT_PROCESS", \h1e, \hf00f, 1>>, <<"FAULT_CODE", \h1e, \hf00f, 1>>,
    <<"EVENT_0_TIMER", \h20, \hf010, 1>>, <<"EVENT_1_TIMER", \h22, \hf011, 1>>,
    <<"SYSTEM_STATUS", \h24, \hf012, 1>>, <<"TRIGGER_REQUESTS", \h26, \hf013, 1>>,
    <<"EXTRACT_START_TIME", \h28, \hf014, 2>>, <<"EXTRACT_END_TIME", \h2c, \hf016, 2>>,
    <<"NUMBER_OF_RECORDS", \h36, \hf01b, 1>>, <<"CURRENT_TIME", \h38, \hf01c, 2>>}

SystemEntry(e, t) == e.name = t[1] /\ Spot(e, t[2], t[3], t[4])

LEMMA SystemSpots == \A e \in SystemRegisters : \E t \in SystemTable : SystemEntry(e, t)
  <1>1. /\ R.DEVICE_ID = \h00 /\ R.VERSION = \h04 /\ R.HARDWARE_VERSION = \h08
        /\ R.DEVICE_LIST_INDEX = \h0c /\ R.USER_HOURS = \h0e
        /\ R.EVENT_0_TIMEBASE = \h10 /\ R.EVENT_1_TIMEBASE = \h12
        /\ R.SYSTEM_CONTROL = \h14 /\ R.INTERRUPT_STATUS = \h16
        /\ R.INTERRUPT_CONTROL = \h18 /\ R.NUMOFSENSORS = \h1a /\ R.NUMOFOUTPUTS = \h1b
        /\ R.OPERATING_TEMP = \h1c /\ R.FAULT_PROCESS = \h1e /\ R.EVENT_0_TIMER = \h20
        /\ R.EVENT_1_TIMER = \h22 /\ R.SYSTEM_STATUS = \h24 /\ R.TRIGGERS = \h26
        /\ R.EXTRACT_START_TIME = \h28 /\ R.EXTRACT_END_TIME = \h2c
        /\ R.NUMBER_RECORDS = \h36 /\ R.CURRENT_TIME = \h38
    BY DEF R
  <1> SUFFICES ASSUME NEW e \in SystemRegisters
               PROVE  \E t \in SystemTable : SystemEntry(e, t)
    OBVIOUS
  <1>2. \E t \in SystemTable : /\ e.name = t[1] /\ e.i2c_addr = t[2] /\ e.modbus_addr = t[3]
                               /\ e.size = 2 * t[4]
    BY <1>1, RegFields, RegNames, Sizes DEF SystemRegisters, SystemTable
  <1>3. e.nInstance = 1 /\ e.offset = 0
    BY RegFields DEF SystemRegisters
  <1>4. PICK t \in SystemTable : /\ e.name = t[1] /\ e.i2c_addr = t[2] /\ e.modbus_addr = t[3]
                                 /\ e.size = 2 * t[4]
    BY <1>2
  <1>5. t[2] \in Nat /\ t[3] \in Nat /\ t[4] \in Nat
    BY DEF SystemTable
  <1>6. e.nInstance * e.size = 2 * t[4] /\ e.nInstance \in Nat /\ e.size \in Nat
    BY <1>3, <1>4, <1>5
  <1>7. Spot(e, t[2], t[3], t[4])
    BY <1>3, <1>4, <1>5, <1>6, SpotOf
  <1> QED BY <1>4, <1>7 DEF SystemEntry

LEMMA SystemInside == \A e \in SystemRegisters : Inside(e, 0, \h3c, \hf000, \hf01e)
  <1> SUFFICES ASSUME NEW e \in SystemRegisters PROVE Inside(e, 0, \h3c, \hf000, \hf01e)
    OBVIOUS
  <1>1. PICK t \in SystemTable : Spot(e, t[2], t[3], t[4])
    BY SystemSpots DEF SystemEntry
  <1>2. /\ t[2] \in Nat /\ t[3] \in Nat /\ t[4] \in Nat
        /\ t[2] + 2 * t[4] <= \h3c /\ \hf000 <= t[3] /\ t[3] + t[4] <= \hf01e
    BY DEF SystemTable
  <1> QED BY <1>1, <1>2, SpotInside

\* What ~Share says of the names in a group.
LEMMA Unshared ==
    ASSUME NEW m, NEW n, ~Share(m, n)
    PROVE  /\ ~({m, n} \subseteq {"NUMBER_OF_SENSORS", "NUMBER_OF_OUTPUTS"})
           /\ ~({m, n} \subseteq {"NUMBER_OF_OUTPUTS", "OPERATING_TEMP", "OPERATING_VOLTAGE"})
           /\ ~({m, n} \subseteq {"FAULT_PROCESS", "FAULT_CODE"})
           /\ ~({m, n} \subseteq {"SENSOR_LIST_INDEX", "SENSOR_LIST_SELECT", "IO_LIST_INDEX"})
           /\ ~({m, n} \subseteq {"DEVICE_NAME_LIST", "DEVICE_MODEL_NAME"})
           /\ ~({m, n} \subseteq {"DEVICE_NAME", "OUTPUT"})
  BY DEF Share, Sharing

LEMMA SystemApart ==
    \A e, d \in SystemRegisters, bus \in {"I2C", "MODBUS"} :
        e.name # d.name /\ ~Share(e.name, d.name) => Separate(bus, e, d)
  <1> SUFFICES ASSUME NEW e \in SystemRegisters, NEW d \in SystemRegisters,
                      NEW bus \in {"I2C", "MODBUS"}, e.name # d.name, ~Share(e.name, d.name)
               PROVE  Separate(bus, e, d)
    OBVIOUS
  <1>1. PICK t \in SystemTable : SystemEntry(e, t)
    BY SystemSpots
  <1>2. PICK u \in SystemTable : SystemEntry(d, u)
    BY SystemSpots
  <1>3. t[1] # u[1] /\ ~Share(t[1], u[1])
    BY <1>1, <1>2 DEF SystemEntry
  <1>4. /\ t[2] \in Nat /\ t[3] \in Nat /\ t[4] \in Nat
        /\ u[2] \in Nat /\ u[3] \in Nat /\ u[4] \in Nat
    BY DEF SystemTable
  <1>5. /\ t[2] + 2 * t[4] <= u[2] \/ u[2] + 2 * u[4] <= t[2]
        /\ t[3] + t[4] <= u[3] \/ u[3] + u[4] <= t[3]
    <2>1. /\ ~({t[1], u[1]} \subseteq {"NUMBER_OF_SENSORS", "NUMBER_OF_OUTPUTS"})
          /\ ~({t[1], u[1]} \subseteq {"NUMBER_OF_OUTPUTS", "OPERATING_TEMP",
                                       "OPERATING_VOLTAGE"})
          /\ ~({t[1], u[1]} \subseteq {"FAULT_PROCESS", "FAULT_CODE"})
      BY <1>3, Unshared
    <2> QED BY ONLY <1>3, <2>1, t \in SystemTable, u \in SystemTable DEF SystemTable
  <1> QED BY <1>1, <1>2, <1>4, <1>5 DEF Separate, Spot, SystemEntry

\* The readings come after them, but the outputs do so only on Modbus.
Output == {e \in ReadingRegisters : e.name = "OUTPUT"}

ReadingTable == {
    <<"SENSOR_DATA", \h3c, \h4c, \hf01e, \hf026>>,
    <<"EXTRACTED_TIME_STAMP", \h4c, \h50, \hf026, \hf028>>,
    <<"EXTRACTED_DATA", \h50, \h60, \hf028, \hf030>>,
    <<"SENSOR_DESCRIPTOR", \h60, \h80, \hf030, \hf040>>}

LEMMA ReadingSections ==
    \A e \in ReadingRegisters \ Output : \E t \in ReadingTable : InSection(e, t)
  <1> SUFFICES ASSUME NEW e \in ReadingRegisters, e.name # "OUTPUT"
               PROVE  \E t \in ReadingTable : InSection(e, t)
    BY DEF Output
  <1>1. R.EXTRACTED_TIME = \h4c /\ R.EXTRACTED_0_VALUE = \h50
    BY DEF R
  <1>2. CASE \E i \in Sensors : e = Numbered("SENSOR_DATA", i, \hf01e + 2 * i,
                R_SENSOR_VALUE(i), 4 - i, RD, Sizeof.float)
    <2>1. PICK i \in 0 .. 3 : e = Numbered("SENSOR_DATA", i, \hf01e + 2 * i,
                \h3c + 4 * i, 4 - i, RD, 4)
      BY <1>2, Sizes DEF R_SENSOR_VALUE, Sensors
    <2>2. Spot(e, \h3c + 4 * i, \hf01e + 2 * i, 2 * (4 - i))
      BY ONLY <2>1, NumberedSpot
    <2>3. Inside(e, \h3c, \h4c, \hf01e, \hf026)
      BY ONLY <2>2, SpotInside
    <2> QED BY <2>1, <2>3, NumberedNames DEF ReadingTable, InSection
  <1>3. CASE e = Reg("EXTRACTED_TIME_STAMP", \hf026, R.EXTRACTED_TIME, RD, Sizeof.u32)
    <2>1. Spot(e, \h4c, \hf026, 2)
      BY <1>1, <1>3, Sizes, RegSpot
    <2>2. Inside(e, \h4c, \h50, \hf026, \hf028)
      BY ONLY <2>1, SpotInside
    <2> QED BY <1>3, <2>2, RegNames DEF ReadingTable, InSection
  <1>4. CASE e = Numbered("EXTRACTED_DATA", 0, \hf028, R.EXTRACTED_0_VALUE, 4, RD,
                          Sizeof.float)
    <2>1. Spot(e, \h50, \hf028, 8)
      BY <1>1, <1>4, Sizes, NumberedSpot
    <2>2. Inside(e, \h50, \h60, \hf028, \hf030)
      BY ONLY <2>1, SpotInside
    <2> QED BY <1>4, <2>2, NumberedNames DEF ReadingTable, InSection
  <1>5. CASE \E i \in Sensors : e = Numbered("SENSOR_DESCRIPTOR", i, \hf030 + 4 * i,
                R_SENSOR_DESCRIPTOR(i), 4 - i, RD \cup BYTES, DescriptorSize)
    <2>1. PICK i \in 0 .. 3 : e = Numbered("SENSOR_DESCRIPTOR", i, \hf030 + 4 * i,
                \h60 + 8 * i, 4 - i, RD \cup BYTES, 8)
      BY <1>5, Sizes DEF R_SENSOR_DESCRIPTOR, Sensors
    <2>2. Spot(e, \h60 + 8 * i, \hf030 + 4 * i, 4 * (4 - i))
      BY ONLY <2>1, NumberedSpot
    <2>3. Inside(e, \h60, \h80, \hf030, \hf040)
      BY ONLY <2>2, SpotInside
    <2> QED BY <2>1, <2>3, NumberedNames DEF ReadingTable, InSection
  <1>6. CASE \E i \in Sensors : e = Numbered("OUTPUT", i, \hf078 + 2 * i,
                R_OUTPUT_VALUE(i), 4 - i, RD, Sizeof.float)
    BY <1>6, NumberedNames
  <1> QED BY <1>2, <1>3, <1>4, <1>5, <1>6 DEF ReadingRegisters, Sensors

LEMMA ReadingInside == \A e \in ReadingRegisters \ Output : Inside(e, \h3c, \h80, \hf01e, \hf040)
  <1> SUFFICES ASSUME NEW e \in ReadingRegisters \ Output
               PROVE  Inside(e, \h3c, \h80, \hf01e, \hf040)
    OBVIOUS
  <1>1. PICK t \in ReadingTable : InSection(e, t)
    BY ReadingSections
  <1>2. Section(t) /\ \h3c <= t[2] /\ t[3] <= \h80 /\ \hf01e <= t[4] /\ t[5] <= \hf040
    BY DEF ReadingTable, Section
  <1>3. e \in _def
    BY DEF _def
  <1> QED BY ONLY <1>1, <1>2, <1>3, SectionInside

LEMMA ReadingApart ==
    \A bus \in {"I2C", "MODBUS"} :
        \A e, d \in (ReadingRegisters \ Output) \ Unaddressed(bus) :
            e.name # d.name => Separate(bus, e, d)
  <1> SUFFICES ASSUME NEW bus \in {"I2C", "MODBUS"},
                      NEW e \in (ReadingRegisters \ Output) \ Unaddressed(bus),
                      NEW d \in (ReadingRegisters \ Output) \ Unaddressed(bus),
                      e.name # d.name
               PROVE  Separate(bus, e, d)
    OBVIOUS
  <1>1. PICK t \in ReadingTable : InSection(e, t)
    BY ReadingSections
  <1>2. PICK u \in ReadingTable : InSection(d, u)
    BY ReadingSections
  <1>3. t[1] # u[1]
    BY <1>1, <1>2 DEF InSection
  <1>4. Section(t) /\ Section(u) /\ Disjoint(t, u)
    BY ONLY <1>3, t \in ReadingTable, u \in ReadingTable DEF ReadingTable, Section, Disjoint
  <1>5. e \in _def \ Unaddressed(bus) /\ d \in _def \ Unaddressed(bus)
    BY DEF _def
  <1> QED BY ONLY <1>1, <1>2, <1>4, <1>5, SectionsApart, bus \in {"I2C", "MODBUS"}

LEMMA UpperInside == \A e \in Output \cup {DeviceName} : Inside(e, \he0, \h100, \hf070, \hf080)
  <1>1. ASSUME NEW e \in Output PROVE Inside(e, \he0, \h100, \hf070, \hf080)
    <2>1. PICK i \in 0 .. 3 : e = Numbered("OUTPUT", i, \hf078 + 2 * i, \hf0 + 4 * i, 4 - i, RD, 4)
      BY <1>1, Sizes, NumberedNames, RegNames
      DEF Output, ReadingRegisters, R_OUTPUT_VALUE, Sensors
    <2>2. Spot(e, \hf0 + 4 * i, \hf078 + 2 * i, 2 * (4 - i))
      BY ONLY <2>1, NumberedSpot
    <2> QED BY ONLY <2>2, SpotInside
  <1>2. Inside(DeviceName, \he0, \h100, \hf070, \hf080)
    <2>1. Spot(DeviceName, \he0, \hf070, 16)
      BY Sizes, RegSpot DEF DeviceName, R_DEVICE_NAME
    <2> QED BY ONLY <2>1, SpotInside
  <1> QED BY <1>1, <1>2

LEMMA ParameterInside == \A e \in ParameterRegisters : Inside(e, \h80, \hc0, \hf040, \hf060)
  <1> SUFFICES ASSUME NEW e \in ParameterRegisters PROVE Inside(e, \h80, \hc0, \hf040, \hf060)
    OBVIOUS
  <1>1. PICK i \in 0 .. 15 : e = Numbered("USER_PARAMETER", i, \hf040 + 2 * i,
                                          \h80 + 4 * i, 16 - i, RDWR, 4)
    BY DEF ParameterRegisters, R_USER_PARAMETER_VALUE
  <1>2. Spot(e, \h80 + 4 * i, \hf040 + 2 * i, 2 * (16 - i))
    BY ONLY <1>1, NumberedSpot
  <1> QED BY ONLY <1>2, SpotInside

\* The last gap is not part of the scales.
LEMMA ScaleFields ==
    \A e \in ScaleRegisters :
        /\ e.nInstance = 4 /\ e.size = 4 /\ e.offset = 4
        /\ \/ e.name = "SENSOR_GAIN" /\ e.i2c_addr = \hc0 /\ e.modbus_addr = \hf060
           \/ e.name = "SENSOR_OFFSET" /\ e.i2c_addr = \hc4 /\ e.modbus_addr = \hf062
  BY Sizes DEF ScaleRegisters, Numbered, R_SENSOR_GAIN, R_SENSOR_OFFSET

LEMMA ScaleInside == \A e \in ScaleRegisters : Inside(e, \hc0, \he0, \hf060, \hf070)
  <1> SUFFICES ASSUME NEW e \in ScaleRegisters PROVE Inside(e, \hc0, \he0, \hf060, \hf070)
    OBVIOUS
  <1>1. Whole(e) = 28
    BY ScaleFields DEF Whole
  <1>2. Span("I2C", 28) = 28 /\ Span("MODBUS", 28) = 14
    BY DEF Span, Even
  <1> QED BY <1>1, <1>2, ScaleFields DEF Inside, Within, EndOn, AddressOn

Passwords == {e \in FactoryRegisters : e.name \in {"CONFIG_PASSWORD", "CONNECTIVITY_PASSWORD"}}
ParameterData == {e \in FactoryRegisters : e.name = "DEVICE_PARAMETER_DATA"}

LEMMA PasswordSpots ==
    \A e \in Passwords :
        \/ e.name = "CONFIG_PASSWORD" /\ Spot(e, \h380, \hf1c0, 8)
        \/ e.name = "CONNECTIVITY_PASSWORD" /\ Spot(e, \h390, \hf1c8, 8)
  <1>1. F.CONFIG_PASSWORD = \h380 /\ F.CONN_PASSWORD = \h390
    BY DEF F
  <1> SUFFICES ASSUME NEW e \in Passwords
               PROVE  \/ e.name = "CONFIG_PASSWORD" /\ Spot(e, \h380, \hf1c0, 8)
                      \/ e.name = "CONNECTIVITY_PASSWORD" /\ Spot(e, \h390, \hf1c8, 8)
    OBVIOUS
  <1>2. \/ e = Reg("CONFIG_PASSWORD", \hf1c0, F.CONFIG_PASSWORD, RDWR \cup BYTES,
                   Sizeof.sensor_password_t)
        \/ e = Reg("CONNECTIVITY_PASSWORD", \hf1c8, F.CONN_PASSWORD, RDWR \cup BYTES,
                   Sizeof.sensor_password_t)
    BY NumberedNames, RegNames DEF Passwords, FactoryRegisters
  <1> QED BY ONLY <1>1, <1>2, RegSpot, RegNames, Sizes

LEMMA PasswordsInside == \A e \in Passwords : Inside(e, \h380, \h3a0, \hf1c0, \hf1d0)
  BY PasswordSpots, SpotInside

LEMMA ParameterDataInside == \A e \in ParameterData : Inside(e, \h3a0, \h400, \hf1d0, \hf200)
  <1> SUFFICES ASSUME NEW e \in ParameterData PROVE Inside(e, \h3a0, \h400, \hf1d0, \hf200)
    OBVIOUS
  <1>1. e = Reg("DEVICE_PARAMETER_DATA", \hf1f0, NoAddress, RD, 32)
    BY NumberedNames, RegNames DEF ParameterData, FactoryRegisters
  <1>2. e \in _def
    BY DEF ParameterData, _def
  <1>3. e.i2c_addr = NoAddress /\ e.modbus_addr = \hf1f0
    BY <1>1, RegFields
  <1>4. e \in Unaddressed("I2C")
    BY <1>2, <1>3, WithoutAddress
  <1>5. Spot(e, NoAddress, \hf1f0, 16)
    BY <1>1, RegSpot DEF NoAddress
  <1> QED BY <1>4, <1>5 DEF Spot, Inside, Within

CalibrationEntry(e, j) ==
    \/ e.name = "CAL_GAIN" /\ Spot(e, \h20c + 16 * j, 0, 2)
    \/ e.name = "CAL_OFFSET" /\ Spot(e, \h208 + 16 * j, 0, 2)
    \/ e.name = "CAL_CJC_OFFSET" /\ j \in 1 .. 2 /\ Spot(e, \h238 + 16 * j, 0, 2)

LEMMA CalibrationSpots ==
    \A e \in CalibrationRegisters :
        e.modbus_addr = NoAddress /\ \E j \in 0 .. 3 : CalibrationEntry(e, j)
  <1> SUFFICES ASSUME NEW e \in CalibrationRegisters
               PROVE  e.modbus_addr = NoAddress /\ \E j \in 0 .. 3 : CalibrationEntry(e, j)
    OBVIOUS
  <1>1. CASE \E j \in 0 .. 3 : e = Numbered("CAL_GAIN", j, NoAddress, R_CAL_GAIN(j), 1,
                                           RDWR, Sizeof.float)
    <2>1. PICK j \in 0 .. 3 : e = Numbered("CAL_GAIN", j, 0, \h20c + 16 * j, 1, RDWR, 4)
      BY <1>1, Sizes DEF R_CAL_GAIN, NoAddress
    <2>2. Spot(e, \h20c + 16 * j, 0, 2)
      BY ONLY <2>1, NumberedSpot
    <2> QED BY <2>1, <2>2, NumberedNames, NumberedFields DEF NoAddress, CalibrationEntry
  <1>2. CASE \E j \in 0 .. 3 : e = Numbered("CAL_OFFSET", j, NoAddress, R_CAL_OFFSET(j),
                                           1, RDWR, Sizeof.float)
    <2>1. PICK j \in 0 .. 3 : e = Numbered("CAL_OFFSET", j, 0, \h208 + 16 * j, 1, RDWR, 4)
      BY <1>2, Sizes DEF R_CAL_OFFSET, NoAddress
    <2>2. Spot(e, \h208 + 16 * j, 0, 2)
      BY ONLY <2>1, NumberedSpot
    <2> QED BY <2>1, <2>2, NumberedNames, NumberedFields DEF NoAddress, CalibrationEntry
  <1>3. CASE \E j \in 1 .. 2 : e = Numbered("CAL_CJC_OFFSET", j, NoAddress,
                                           R_CAL_OFFSET(3 + j), 1, RDWR, Sizeof.float)
    <2>1. PICK j \in 1 .. 2 : e = Numbered("CAL_CJC_OFFSET", j, NoAddress,
                                          R_CAL_OFFSET(3 + j), 1, RDWR, Sizeof.float)
      BY <1>3
    <2>2. R_CAL_OFFSET(3 + j) = \h238 + 16 * j
      BY DEF R_CAL_OFFSET
    <2>3. e = Numbered("CAL_CJC_OFFSET", j, 0, \h238 + 16 * j, 1, RDWR, 4)
      BY <2>1, <2>2, Sizes DEF NoAddress
    <2>4. Spot(e, \h238 + 16 * j, 0, 2)
      BY ONLY <2>3, NumberedSpot
    <2> QED BY <2>3, <2>4, NumberedNames, NumberedFields DEF NoAddress, CalibrationEntry
  <1> QED BY <1>1, <1>2, <1>3 DEF CalibrationRegisters

LEMMA CalibrationInside ==
    \A e \in CalibrationRegisters : Inside(e, \h200, \h380, \hf1c0, \hf1c0)
  <1> SUFFICES ASSUME NEW e \in CalibrationRegisters
               PROVE  Inside(e, \h200, \h380, \hf1c0, \hf1c0)
    OBVIOUS
  <1>1. e \in Unaddressed("MODBUS")
    BY CalibrationSpots, WithoutAddress DEF _def
  <1>2. PICK a \in Nat : Spot(e, a, 0, 2) /\ \h200 <= a /\ a <= \h300
    BY CalibrationSpots DEF CalibrationEntry
  <1> QED BY <1>1, <1>2 DEF Spot, Inside, Within

LEMMA CalibrationApart ==
    \A e, d \in CalibrationRegisters : e.name # d.name => Separate("I2C", e, d)
  <1> SUFFICES ASSUME NEW e \in CalibrationRegisters, NEW d \in CalibrationRegisters,
                      e.name # d.name
               PROVE  Separate("I2C", e, d)
    OBVIOUS
  <1>1. PICK i \in 0 .. 3 : CalibrationEntry(e, i)
    BY CalibrationSpots
  <1>2. PICK j \in 0 .. 3 : CalibrationEntry(d, j)
    BY CalibrationSpots
  <1> QED BY ONLY <1>1, <1>2, e.name # d.name DEF Separate, Spot, CalibrationEntry

FactoryLow == FactoryRegisters \ (Passwords \cup ParameterData)

FactoryTable == {
    <<"LONG_DEVICE_ID", \h100, \h108, \hf080, \hf084>>,
    <<"CORE_VERSION", \h108, \h10c, \hf084, \hf086>>,
    <<"BLOCK_START_RETRY_COUNT", \h10c, \h10e, \hf086, \hf087>>,
    <<"RTC_CALIBRATION_CONTROL", \h10e, \h110, \hf087, \hf088>>,
    <<"FEATURE_BITS", \h110, \h114, \hf088, \hf08a>>,
    <<"DEFAULT_EVENT_TIMEBASE", \h114, \h118, \hf08a, \hf08c>>,
    <<"DEFAULT_SYSTEM_CONTROL", \h118, \h11a, \hf08c, \hf08d>>,
    <<"DEFAULT_INTERRUPT_CONTROL", \h11a, \h11c, \hf08d, \hf08e>>,
    <<"SENSOR_LIST_INDEX", \h11c, \h11e, \hf08e, \hf08f>>,
    <<"SENSOR_LIST_SELECT", \h11c, \h11e, \hf08e, \hf08f>>,
    <<"IO_LIST_INDEX", \h11c, \h11e, \hf08e, \hf08f>>,
    <<"IO_LIST_SELECT", \h11e, \h120, \hf08f, \hf090>>,
    <<"SENSOR_ERROR_COUNT", \h120, \h128, \hf090, \hf094>>,
    <<"MANUFACTURED_DATE", \h128, \h12a, \hf094, \hf095>>,
    <<"CALIBRATION_DATE", \h12a, \h12c, \hf095, \hf096>>,
    <<"OPERATING_TIME", \h12c, \h130, \hf096, \hf098>>,
    <<"CALIBRATION_TIME", \h130, \h134, \hf098, \hf09a>>,
    <<"OUTPUT_CONFIG", \h134, \h13c, \hf09a, \hf09e>>,
    <<"BASE_HARDWARE_TYPE", \h13c, \h13e, \hf09e, \hf09f>>,
    <<"EXTRACT_STOP_SIZE", \h13e, \h140, \hf09f, \hf0a0>>,
    <<"DEVICE_NAME_LIST", \h140, \h200, \hf0a0, \hf100>>,
    <<"DEVICE_MODEL_NAME", \h140, \h150, \hf0a0, \hf0a8>>,
    <<"CALIBRATION_DATA", \h200, \h200, \hf100, \hf102>>}

LEMMA FactorySections == \A e \in FactoryLow : \E t \in FactoryTable : InSection(e, t)
  <1> DEFINE Errors(e) == \E i \in Sensors : e = Numbered("SENSOR_ERROR_COUNT", i,
                              \hf090 + i, R_SENSOR_ERRORS(i), 4 - i, RD, Sizeof.u16)
             Outputs(e) == \E i \in Sensors : e = Numbered("OUTPUT_CONFIG", i,
                              \hf09a + i, R_OUTPUT_DESCRIPTOR(i), 4 - i, RD, Sizeof.u16)
  <1>1. /\ F.DEVICE_ID = \h100 /\ F.CORE_VERSION = \h108 /\ F.BLOCK_START_RETRY = \h10c
        /\ F.RTC_TUNING = \h10e /\ F.FEATURE_BITS = \h110
        /\ F.DEFAULT_EVENT_0_TIMEBASE = \h114 /\ F.DEFAULT_EVENT_1_TIMEBASE = \h116
        /\ F.DEFAULT_SYSTEM_CONTROL = \h118 /\ F.DEFAULT_INTERRUPT_CONTROL = \h11a
        /\ F.DEVICE_NUMBER_INDEX = \h11c /\ F.DEVICE_NUMBER_LIST = \h11e
        /\ F.MANUFACTURED_DATE = \h128 /\ F.CALIBRATION_DATE = \h12a
        /\ F.TOTAL_OPERATING_TIME = \h12c /\ F.TIME_SINCE_CALIBRATION = \h130
        /\ F.BASE_TYPE = \h13c /\ F.SENTINEL = \h13e /\ F.IO_DEVICE_LIST_NAMES = \h140
    BY DEF F
  <1> HIDE DEF Errors, Outputs
  <1> SUFFICES ASSUME NEW e \in FactoryRegisters,
                      e.name \notin {"CONFIG_PASSWORD", "CONNECTIVITY_PASSWORD",
                                     "DEVICE_PARAMETER_DATA"}
               PROVE  \E t \in FactoryTable : InSection(e, t)
    BY DEF FactoryLow, Passwords, ParameterData
  <1>2. CASE Errors(e)
    <2>1. PICK i \in 0 .. 3 : e = Numbered("SENSOR_ERROR_COUNT", i, \hf090 + i,
                                           \h120 + 2 * i, 4 - i, RD, 2)
      BY <1>2, Sizes DEF Errors, R_SENSOR_ERRORS, Sensors
    <2>2. Spot(e, \h120 + 2 * i, \hf090 + i, 4 - i)
      BY ONLY <2>1, NumberedSpot
    <2>3. Inside(e, \h120, \h128, \hf090, \hf094)
      BY ONLY <2>2, SpotInside
    <2> QED BY <2>1, <2>3, NumberedNames DEF FactoryTable, InSection
  <1>3. CASE Outputs(e)
    <2>1. PICK i \in 0 .. 3 : e = Numbered("OUTPUT_CONFIG", i, \hf09a + i,
                                           \h134 + 2 * i, 4 - i, RD, 2)
      BY <1>3, Sizes DEF Outputs, R_OUTPUT_DESCRIPTOR, Sensors
    <2>2. Spot(e, \h134 + 2 * i, \hf09a + i, 4 - i)
      BY ONLY <2>1, NumberedSpot
    <2>3. Inside(e, \h134, \h13c, \hf09a, \hf09e)
      BY ONLY <2>2, SpotInside
    <2> QED BY <2>1, <2>3, NumberedNames DEF FactoryTable, InSection
  <1>4. CASE e.name = "CALIBRATION_DATA"
    <2>1. e = Reg("CALIBRATION_DATA", \hf100, NoAddress, RD, 4)
      BY <1>4, NumberedNames, RegNames DEF FactoryRegisters
    <2>2. e.i2c_addr = NoAddress /\ e.modbus_addr = \hf100
      BY <2>1, RegFields
    <2>3. e \in Unaddressed("I2C")
      BY <2>2, WithoutAddress DEF _def
    <2>4. Spot(e, NoAddress, \hf100, 2)
      BY <2>1, RegSpot DEF NoAddress
    <2>5. Inside(e, \h200, \h200, \hf100, \hf102)
      BY <2>3, <2>4 DEF Spot, Inside, Within
    <2> QED BY <1>4, <2>5 DEF FactoryTable, InSection
  <1>5. CASE e.name = "DEFAULT_EVENT_TIMEBASE"
    <2>1. \/ e = Numbered("DEFAULT_EVENT_TIMEBASE", 0, \hf08a, \h114, 2, RD, 2)
          \/ e = Numbered("DEFAULT_EVENT_TIMEBASE", 1, \hf08b, \h116, 1, RD, 2)
      BY <1>1, <1>5, Sizes, NumberedNames, RegNames DEF FactoryRegisters
    <2>2. Spot(e, \h114, \hf08a, 2) \/ Spot(e, \h116, \hf08b, 1)
      BY ONLY <2>1, NumberedSpot
    <2>3. Inside(e, \h114, \h118, \hf08a, \hf08c)
      BY ONLY <2>2, SpotInside
    <2> QED BY <1>5, <2>3 DEF FactoryTable, InSection
  <1>6. CASE /\ ~Errors(e) /\ ~Outputs(e)
             /\ e.name \notin {"CALIBRATION_DATA", "DEFAULT_EVENT_TIMEBASE"}
    <2>1. \E t \in FactoryTable :
             /\ e.name = t[1] /\ e.i2c_addr = t[2] /\ e.modbus_addr = t[4]
             /\ e.size = t[3] - t[2] /\ e.size = 2 * (t[5] - t[4])
      BY <1>1, <1>6, RegFields, RegNames, NumberedNames, Sizes
      DEF FactoryRegisters, Errors, Outputs, FactoryTable
    <2>2. e.nInstance = 1 /\ e.offset = 0
      BY <1>6, RegFields, NumberedNames DEF FactoryRegisters, Errors, Outputs
    <2>3. PICK t \in FactoryTable :
             /\ e.name = t[1] /\ e.i2c_addr = t[2] /\ e.modbus_addr = t[4]
             /\ e.size = t[3] - t[2] /\ e.size = 2 * (t[5] - t[4])
      BY <2>1
    <2>4. /\ t[2] \in Nat /\ t[3] \in Nat /\ t[4] \in Nat /\ t[5] \in Nat
          /\ t[2] <= t[3] /\ t[4] <= t[5]
      BY DEF FactoryTable
    <2>5. PICK h \in Nat : h = t[5] - t[4]
      BY <2>4
    <2>6. e.nInstance * e.size = 2 * h /\ e.nInstance \in Nat /\ e.size \in Nat
      BY <2>2, <2>3, <2>5
    <2>7. Spot(e, t[2], t[4], h)
      BY <2>2, <2>3, <2>4, <2>6, SpotOf
    <2>8. t[2] + 2 * h <= t[3] /\ t[4] + h <= t[5]
      BY <2>3, <2>4, <2>5
    <2>9. Inside(e, t[2], t[3], t[4], t[5])
      BY ONLY <2>4, <2>7, <2>8, SpotInside, h \in Nat
    <2> QED BY <2>3, <2>9 DEF InSection
  <1> QED BY <1>2, <1>3, <1>4, <1>5, <1>6

LEMMA FactoryInside == \A e \in FactoryLow : Inside(e, \h100, \h200, \hf080, \hf1c0)
  <1> SUFFICES ASSUME NEW e \in FactoryLow PROVE Inside(e, \h100, \h200, \hf080, \hf1c0)
    OBVIOUS
  <1>1. PICK t \in FactoryTable : InSection(e, t)
    BY FactorySections
  <1>2. Section(t) /\ \h100 <= t[2] /\ t[3] <= \h200 /\ \hf080 <= t[4] /\ t[5] <= \hf1c0
    BY DEF FactoryTable, Section
  <1>3. e \in _def
    BY DEF FactoryLow, _def
  <1> QED BY ONLY <1>1, <1>2, <1>3, SectionInside

LEMMA FactoryApart ==
    \A bus \in {"I2C", "MODBUS"} : \A e, d \in FactoryLow \ Unaddressed(bus) :
        e.name # d.name /\ ~Share(e.name, d.name) => Separate(bus, e, d)
  <1> SUFFICES ASSUME NEW bus \in {"I2C", "MODBUS"},
                      NEW e \in FactoryLow \ Unaddressed(bus),
                      NEW d \in FactoryLow \ Unaddressed(bus),
                      e.name # d.name, ~Share(e.name, d.name)
               PROVE  Separate(bus, e, d)
    OBVIOUS
  <1>1. PICK t \in FactoryTable : InSection(e, t)
    BY FactorySections
  <1>2. PICK u \in FactoryTable : InSection(d, u)
    BY FactorySections
  <1>3. t[1] # u[1] /\ ~Share(t[1], u[1])
    BY <1>1, <1>2 DEF InSection
  <1>4. /\ ~({t[1], u[1]} \subseteq {"SENSOR_LIST_INDEX", "SENSOR_LIST_SELECT", "IO_LIST_INDEX"})
        /\ ~({t[1], u[1]} \subseteq {"DEVICE_NAME_LIST", "DEVICE_MODEL_NAME"})
    BY <1>3, Unshared
  <1>5. Section(t) /\ Section(u)
    BY DEF FactoryTable, Section
  <1>6. Disjoint(t, u)
    BY ONLY <1>3, <1>4, t \in FactoryTable, u \in FactoryTable DEF FactoryTable, Disjoint
  <1>7. e \in _def \ Unaddressed(bus) /\ d \in _def \ Unaddressed(bus)
    BY DEF FactoryLow, _def
  <1> QED BY ONLY <1>1, <1>2, <1>5, <1>6, <1>7, SectionsApart, bus \in {"I2C", "MODBUS"}

\* A program fills what precedes its parameters, and these what precedes the rest; two
\* registers of the rest are only on Modbus.
BlockTable == {
    <<"FUNCTION_BLOCK_PROGRAM", \h400, \h600, \hf200, \hf300>>,
    <<"FUNCTION_BLOCK_PARAM", \h600, \h680, \hf300, \hf340>>,
    <<"FUNCTION_BLOCK_PARAM_TYPE", \h700, \h700, \hf340, \hf360>>,
    <<"FUNCTION_BLOCK_STATUS", \h700, \h700, \hf360, \hf380>>,
    <<"OUTPUT_NAME_LIST", \h700, \h800, \hf380, \hf400>>}

LEMMA BlockSections == \A e \in BlockRegisters : \E t \in BlockTable : InSection(e, t)
  <1> SUFFICES ASSUME NEW e \in BlockRegisters PROVE \E t \in BlockTable : InSection(e, t)
    OBVIOUS
  <1>1. CASE e = Numbered("FUNCTION_BLOCK_PROGRAM", 0, \hf200, R_FUNCTION_BLOCK_PROGRAM,
                          128, RDWR, Sizeof.u32)
    <2>1. Spot(e, \h400, \hf200, 256)
      BY <1>1, Sizes, NumberedSpot DEF R_FUNCTION_BLOCK_PROGRAM
    <2>2. Inside(e, \h400, \h600, \hf200, \hf300)
      BY ONLY <2>1, SpotInside
    <2> QED BY <1>1, <2>2, NumberedNames DEF BlockTable, InSection
  <1>2. CASE e = Numbered("FUNCTION_BLOCK_PARAM", 0, \hf300,
                          R_FUNCTION_BLOCK_PARAMETER(0), 32, RDWR, Sizeof.u32)
    <2>1. Spot(e, \h600, \hf300, 64)
      BY <1>2, Sizes, NumberedSpot DEF R_FUNCTION_BLOCK_PARAMETER
    <2>2. Inside(e, \h600, \h680, \hf300, \hf340)
      BY ONLY <2>1, SpotInside
    <2> QED BY <1>2, <2>2, NumberedNames DEF BlockTable, InSection
  <1>3. ASSUME NEW name, NEW m \in Nat, e = Reg(name, m, NoAddress, RD, 64), m # \hf000
        PROVE  e.name = name /\ Inside(e, \h700, \h700, m, m + 32)
    <2>1. e.i2c_addr = NoAddress /\ e.modbus_addr = m
      BY <1>3, RegFields
    <2>2. e \in Unaddressed("I2C")
      BY <1>3, <2>1, WithoutAddress DEF _def
    <2>3. Spot(e, NoAddress, m, 32)
      BY <1>3, RegSpot DEF NoAddress
    <2> QED BY <1>3, <2>2, <2>3, RegNames DEF Spot, Inside, Within
  <1>4. CASE e = Reg("FUNCTION_BLOCK_PARAM_TYPE", \hf340, NoAddress, RD, 64)
    BY <1>3, <1>4 DEF BlockTable, InSection
  <1>5. CASE e = Reg("FUNCTION_BLOCK_STATUS", \hf360, NoAddress, RD, 64)
    BY <1>3, <1>5 DEF BlockTable, InSection
  <1>6. CASE \E i \in Sensors : e = Numbered("OUTPUT_NAME_LIST", i, \hf380 + 32 * i,
                R_OUTPUT_NAMELIST(i), 4 - i, RD, 64)
    <2>1. PICK i \in 0 .. 3 : e = Numbered("OUTPUT_NAME_LIST", i, \hf380 + 32 * i,
                                           \h700 + 64 * i, 4 - i, RD, 64)
      BY <1>6 DEF R_OUTPUT_NAMELIST, Sensors
    <2>2. Spot(e, \h700 + 64 * i, \hf380 + 32 * i, 32 * (4 - i))
      BY ONLY <2>1, NumberedSpot
    <2>3. Inside(e, \h700, \h800, \hf380, \hf400)
      BY ONLY <2>2, SpotInside
    <2> QED BY <2>1, <2>3, NumberedNames DEF BlockTable, InSection
  <1> QED BY <1>1, <1>2, <1>4, <1>5, <1>6 DEF BlockRegisters, Sensors

LEMMA BlockInside == \A e \in BlockRegisters : Inside(e, \h400, \h800, \hf200, \hf400)
  <1> SUFFICES ASSUME NEW e \in BlockRegisters PROVE Inside(e, \h400, \h800, \hf200, \hf400)
    OBVIOUS
  <1>1. PICK t \in BlockTable : InSection(e, t)
    BY BlockSections
  <1>2. Section(t) /\ \h400 <= t[2] /\ t[3] <= \h800 /\ \hf200 <= t[4] /\ t[5] <= \hf400
    BY DEF BlockTable, Section
  <1>3. e \in _def
    BY DEF _def
  <1> QED BY ONLY <1>1, <1>2, <1>3, SectionInside

LEMMA BlockApart ==
    \A bus \in {"I2C", "MODBUS"} : \A e, d \in BlockRegisters \ Unaddressed(bus) :
        e.name # d.name => Separate(bus, e, d)
  <1> SUFFICES ASSUME NEW bus \in {"I2C", "MODBUS"},
                      NEW e \in BlockRegisters \ Unaddressed(bus),
                      NEW d \in BlockRegisters \ Unaddressed(bus), e.name # d.name
               PROVE  Separate(bus, e, d)
    OBVIOUS
  <1>1. PICK t \in BlockTable : InSection(e, t)
    BY BlockSections
  <1>2. PICK u \in BlockTable : InSection(d, u)
    BY BlockSections
  <1>3. t[1] # u[1]
    BY <1>1, <1>2 DEF InSection
  <1>4. Section(t) /\ Section(u) /\ Disjoint(t, u)
    BY ONLY <1>3, t \in BlockTable, u \in BlockTable DEF BlockTable, Section, Disjoint
  <1>5. e \in _def \ Unaddressed(bus) /\ d \in _def \ Unaddressed(bus)
    BY DEF _def
  <1> QED BY ONLY <1>1, <1>2, <1>4, <1>5, SectionsApart, bus \in {"I2C", "MODBUS"}

ExtensionTable == {
    <<"EXTENSION_VBAT", \hc02, \hc04, \hf601, \hf602>>,
    <<"EXTENSION_VPOWER", \hc04, \hc06, \hf602, \hf603>>,
    <<"EXTENSION_STATUS", \hc06, \hc08, \hf603, \hf604>>,
    <<"EXTENSION_BATT_CAPACITY", \hc0a, \hc0c, \hf605, \hf606>>,
    <<"PROBE_STATUS", \hc0e, \hc10, \hf607, \hf608>>}

LEMMA ExtensionSections ==
    \A e \in ExtensionRegisters : \E t \in ExtensionTable : InSection(e, t)
  <1>1. /\ X.VBAT = \hc02 /\ X.VPOWER = \hc04 /\ X.STATUS = \hc06
        /\ X.BATT_CAPACITY = \hc0a /\ X.PROBE_STATUS = \hc0e
    BY DEF X
  <1> SUFFICES ASSUME NEW e \in ExtensionRegisters
               PROVE  \E t \in ExtensionTable : InSection(e, t)
    OBVIOUS
  <1>2. PICK x \in {<<"EXTENSION_VBAT", \hf601, X.VBAT>>,
                    <<"EXTENSION_VPOWER", \hf602, X.VPOWER>>,
                    <<"EXTENSION_STATUS", \hf603, X.STATUS>>,
                    <<"EXTENSION_BATT_CAPACITY", \hf605, X.BATT_CAPACITY>>,
                    <<"PROBE_STATUS", \hf607, X.PROBE_STATUS>>} :
           e = Reg(x[1], x[2], x[3], RD, Sizeof.u16)
    BY DEF ExtensionRegisters
  <1>3. PICK t \in ExtensionTable : x[1] = t[1] /\ x[3] = t[2] /\ x[2] = t[4]
    BY <1>1, <1>2 DEF ExtensionTable
  <1>4. /\ t[2] \in Nat /\ t[3] = t[2] + 2 /\ t[4] \in Nat /\ t[5] = t[4] + 1
    BY DEF ExtensionTable
  <1>5. PICK m \in Nat, a \in Nat : m = t[4] /\ a = t[2]
    BY <1>4
  <1>6. e = Reg(t[1], m, a, RD, 2)
    BY <1>2, <1>3, <1>5, Sizes
  <1>7. Spot(e, a, m, 1)
    BY ONLY <1>6, RegSpot, m \in Nat, a \in Nat
  <1>8. Inside(e, a, a + 2, m, m + 1)
    BY ONLY <1>7, SpotInside, m \in Nat, a \in Nat
  <1> QED BY <1>4, <1>5, <1>6, <1>8, RegNames DEF InSection

LEMMA ExtensionInside == \A e \in ExtensionRegisters : Inside(e, \hc00, \he00, \hf600, \hf680)
  <1> SUFFICES ASSUME NEW e \in ExtensionRegisters
               PROVE  Inside(e, \hc00, \he00, \hf600, \hf680)
    OBVIOUS
  <1>1. PICK t \in ExtensionTable : InSection(e, t)
    BY ExtensionSections
  <1>2. Section(t) /\ \hc00 <= t[2] /\ t[3] <= \he00 /\ \hf600 <= t[4] /\ t[5] <= \hf680
    BY DEF ExtensionTable, Section
  <1>3. e \in _def
    BY DEF _def
  <1> QED BY ONLY <1>1, <1>2, <1>3, SectionInside

LEMMA ExtensionApart ==
    \A bus \in {"I2C", "MODBUS"} : \A e, d \in ExtensionRegisters \ Unaddressed(bus) :
        e.name # d.name => Separate(bus, e, d)
  <1> SUFFICES ASSUME NEW bus \in {"I2C", "MODBUS"},
                      NEW e \in ExtensionRegisters \ Unaddressed(bus),
                      NEW d \in ExtensionRegisters \ Unaddressed(bus), e.name # d.name
               PROVE  Separate(bus, e, d)
    OBVIOUS
  <1>1. PICK t \in ExtensionTable : InSection(e, t)
    BY ExtensionSections
  <1>2. PICK u \in ExtensionTable : InSection(d, u)
    BY ExtensionSections
  <1>3. t[1] # u[1]
    BY <1>1, <1>2 DEF InSection
  <1>4. Section(t) /\ Section(u) /\ Disjoint(t, u)
    BY ONLY <1>3, t \in ExtensionTable, u \in ExtensionTable
    DEF ExtensionTable, Section, Disjoint
  <1>5. e \in _def \ Unaddressed(bus) /\ d \in _def \ Unaddressed(bus)
    BY DEF _def
  <1> QED BY ONLY <1>1, <1>2, <1>4, <1>5, SectionsApart, bus \in {"I2C", "MODBUS"}

\* What a sensor's space holds, from its start on Modbus and on I2C, in words.  The
\* parameters of sensor 0 follow it, on Modbus each between the limits of it and the next.
SpaceTable == {
    <<"SENSOR_NAME_LIST", \h00, \h00, 82>>, <<"SENSOR_IPSO_TYPE", \h54, \ha8, 1>>,
    <<"SENSOR_PRECISION", \h55, \haa, 1>>, <<"SENSOR_FUNCTION", \h56, \hac, 1>>,
    <<"SENSOR_MIN_VALUE", \h58, \hb0, 2>>, <<"SENSOR_MAX_VALUE", \h5a, \hb4, 2>>,
    <<"SENSOR_MIN_RANGE", \h5c, \hb8, 2>>, <<"SENSOR_MAX_RANGE", \h5e, \hbc, 2>>}

LimitTable == {<<"SENSOR_0_PARAM_MIN", 2>>, <<"SENSOR_0_PARAM_MAX", 4>>,
               <<"SENSOR_0_PARAM_INCREMENT", 6>>}

SpaceEntry(e, i, t) ==
    e.name = t[1] /\ Spot(e, \h800 + 256 * i + t[3], \hf400 + 128 * i + t[2], t[4])

ValueEntry(e, i) ==
    e.name = "SENSOR_0_PARAM_VALUE" /\ Spot(e, \h8c0 + 16 * i, \hf460 + 8 * i, 2)

LimitEntry(e, i, f) ==
    /\ e \in Unaddressed("I2C")
    /\ e.name = f[1] /\ Spot(e, 0, \hf460 + 8 * i + f[2], 2)

SensorEntry(e, i) ==
    \/ \E t \in SpaceTable : SpaceEntry(e, i, t)
    \/ ValueEntry(e, i)
    \/ \E f \in LimitTable : LimitEntry(e, i, f)

LEMMA SpaceSpots ==
    ASSUME NEW s \in SensorSpace, NEW i \in Sensors, NEW e,
           e = Numbered(s[1], i, \hf400 + 128 * i + s[2], R_SENSOR_SPACE(i) + s[3], 1,
                        s[4], s[5])
    PROVE  \E t \in SpaceTable : SpaceEntry(e, i, t)
  <1>1. PICK t \in SpaceTable : s[1] = t[1] /\ s[2] = t[2] /\ s[3] = t[3] /\ s[5] = 2 * t[4]
    BY Sizes DEF SensorSpace, SpaceOf, SpaceTable
  <1>2. i \in 0 .. 3 /\ R_SENSOR_SPACE(i) = \h800 + 256 * i
    BY DEF Sensors, R_SENSOR_SPACE
  <1>3. t[2] \in Nat /\ t[3] \in Nat /\ t[4] \in Nat
    BY DEF SpaceTable
  <1>4. PICK m \in Nat, a \in Nat, h \in Nat :
           /\ m = \hf400 + 128 * i + t[2] /\ a = \h800 + 256 * i + t[3] /\ h = t[4]
    BY <1>2, <1>3
  <1>5. e = Numbered(t[1], i, m, a, 1, s[4], 2 * h)
    BY <1>1, <1>2, <1>4
  <1>6. Spot(e, a, m, h)
    <2>1. 2 * h \in Nat /\ 1 * (2 * h) = 2 * h
      OBVIOUS
    <2> QED BY ONLY <1>5, <2>1, NumberedSpot, m \in Nat, a \in Nat, h \in Nat
  <1>7. e.name = t[1]
    BY <1>5, NumberedNames
  <1> QED BY <1>4, <1>6, <1>7 DEF SpaceEntry

LEMMA SensorSpots == \A e \in SensorRegisters : \E i \in 0 .. 3 : SensorEntry(e, i)
  <1> SUFFICES ASSUME NEW e \in SensorRegisters PROVE \E i \in 0 .. 3 : SensorEntry(e, i)
    OBVIOUS
  <1>1. CASE \E s \in SensorSpace, i \in Sensors :
                e = Numbered(s[1], i, \hf400 + 128 * i + s[2], R_SENSOR_SPACE(i) + s[3], 1,
                             s[4], s[5])
    BY <1>1, SpaceSpots DEF Sensors, SensorEntry
  <1>2. CASE \E j \in 0 .. 3 :
                e = Numbered("SENSOR_0_PARAM_VALUE", j, \hf460 + 8 * j,
                             R_SENSOR_PARAMETER(0, j), 1, RDWR, Sizeof.float)
    <2>1. PICK j \in 0 .. 3 : e = Numbered("SENSOR_0_PARAM_VALUE", j, \hf460 + 8 * j,
                                           \h8c0 + 16 * j, 1, RDWR, 4)
      BY <1>2, Sizes DEF R_SENSOR_PARAMETER, R_SENSOR_SPACE
    <2>2. Spot(e, \h8c0 + 16 * j, \hf460 + 8 * j, 2)
      BY ONLY <2>1, NumberedSpot
    <2> QED BY <2>1, <2>2, NumberedNames DEF SensorEntry, ValueEntry
  <1>3. CASE \E j \in 0 .. 3, f \in LimitTable :
                e = Numbered(f[1], j, \hf460 + 8 * j + f[2], NoAddress, 1, RD, Sizeof.float)
    <2>1. PICK j \in 0 .. 3, f \in LimitTable :
             e = Numbered(f[1], j, \hf460 + 8 * j + f[2], NoAddress, 1, RD, Sizeof.float)
      BY <1>3
    <2>2. f[2] \in {2, 4, 6}
      BY DEF LimitTable
    <2>3. PICK y \in {2, 4, 6} : y = f[2]
      BY <2>2
    <2>4. e = Numbered(f[1], j, \hf460 + 8 * j + y, 0, 1, RD, 4)
      BY <2>1, <2>3, Sizes DEF NoAddress
    <2>5. Spot(e, 0, \hf460 + 8 * j + y, 2)
      BY ONLY <2>4, NumberedSpot
    <2>6. e.i2c_addr = NoAddress /\ e.modbus_addr = \hf460 + 8 * j + y /\ e.name = f[1]
      BY <2>4, NumberedFields, NumberedNames DEF NoAddress
    <2>7. e \in Unaddressed("I2C")
      BY <2>6, WithoutAddress DEF _def
    <2> QED BY <2>3, <2>5, <2>6, <2>7 DEF SensorEntry, LimitEntry
  <1> QED BY <1>1, <1>2, <1>3 DEF SensorRegisters, LimitTable

\* The places in a space end before the parameters begin.
LEMMA SpaceEnds ==
    \A t \in SpaceTable : /\ t[2] \in Nat /\ t[3] \in Nat /\ t[4] \in Nat
                          /\ t[3] + 2 * t[4] <= \hc0 /\ t[2] + t[4] <= \h60
  BY DEF SpaceTable

LEMMA SensorInside == \A e \in SensorRegisters : Inside(e, \h800, \hc00, \hf400, \hf600)
  <1> SUFFICES ASSUME NEW e \in SensorRegisters PROVE Inside(e, \h800, \hc00, \hf400, \hf600)
    OBVIOUS
  <1>1. PICK i \in 0 .. 3 : SensorEntry(e, i)
    BY SensorSpots
  <1>2. CASE ValueEntry(e, i)
    BY ONLY <1>2, SpotInside DEF ValueEntry
  <1>3. ASSUME NEW t \in SpaceTable, SpaceEntry(e, i, t)
        PROVE  Inside(e, \h800, \hc00, \hf400, \hf600)
    <2>1. PICK m \in Nat, a \in Nat, h \in Nat : /\ m = t[2] /\ a = t[3] /\ h = t[4]
                                                /\ a + 2 * h <= \hc0 /\ m + h <= \h60
      BY SpaceEnds
    <2>2. Spot(e, \h800 + 256 * i + a, \hf400 + 128 * i + m, h)
      BY <1>3, <2>1 DEF SpaceEntry
    <2> QED BY ONLY <2>1, <2>2, i \in 0 .. 3 DEF Spot, Inside, Within
  <1>4. ASSUME NEW f \in LimitTable, LimitEntry(e, i, f)
        PROVE  Inside(e, \h800, \hc00, \hf400, \hf600)
    <2>1. f[2] \in {2, 4, 6}
      BY DEF LimitTable
    <2> QED BY ONLY <1>4, <2>1, i \in 0 .. 3 DEF LimitEntry, Spot, Inside, Within
  <1> QED BY <1>1, <1>2, <1>3, <1>4 DEF SensorEntry

LEMMA SpacesApart ==
    ASSUME NEW e, NEW d, NEW i \in 0 .. 3, NEW j \in 0 .. 3,
           NEW t \in SpaceTable, NEW u \in SpaceTable,
           SpaceEntry(e, i, t), SpaceEntry(d, j, u), e.name # d.name,
           NEW bus \in {"I2C", "MODBUS"}
    PROVE  Separate(bus, e, d)
  <1>1. PICK m \in Nat, a \in Nat, h \in Nat : /\ m = t[2] /\ a = t[3] /\ h = t[4]
                                              /\ a + 2 * h <= \hc0 /\ m + h <= \h60
    BY SpaceEnds
  <1>2. PICK n \in Nat, b \in Nat, k \in Nat : /\ n = u[2] /\ b = u[3] /\ k = u[4]
                                              /\ b + 2 * k <= \hc0 /\ n + k <= \h60
    BY SpaceEnds
  <1>3. /\ Spot(e, \h800 + 256 * i + a, \hf400 + 128 * i + m, h)
        /\ Spot(d, \h800 + 256 * j + b, \hf400 + 128 * j + n, k)
        /\ t[1] # u[1]
    BY <1>1, <1>2 DEF SpaceEntry
  <1>4. /\ t[3] + 2 * t[4] <= u[3] \/ u[3] + 2 * u[4] <= t[3]
        /\ t[2] + t[4] <= u[2] \/ u[2] + u[4] <= t[2]
    BY ONLY <1>3, t \in SpaceTable, u \in SpaceTable DEF SpaceTable
  <1>5. /\ a + 2 * h <= b \/ b + 2 * k <= a
        /\ m + h <= n \/ n + k <= m
    BY ONLY <1>1, <1>2, <1>4
  <1>6. CASE i = j
    BY ONLY <1>3, <1>5, <1>6, i \in 0 .. 3, m \in Nat, a \in Nat, h \in Nat, n \in Nat,
            b \in Nat, k \in Nat, bus \in {"I2C", "MODBUS"} DEF Separate, Spot
  <1>7. CASE i # j
    BY ONLY <1>1, <1>2, <1>3, <1>7, i \in 0 .. 3, j \in 0 .. 3, bus \in {"I2C", "MODBUS"}
    DEF Separate, Spot
  <1> QED BY <1>6, <1>7

\* A parameter's value or limit.
ParamEntry(e, i) == ValueEntry(e, i) \/ \E f \in LimitTable : LimitEntry(e, i, f)

LEMMA ParamPlaces ==
    ASSUME NEW e, NEW i \in 0 .. 3, ParamEntry(e, i)
    PROVE  \E y \in {0, 2, 4, 6} :
              /\ y = 0 => ValueEntry(e, i)
              /\ y # 0 => e \in Unaddressed("I2C") /\ <<e.name, y>> \in LimitTable
              /\ AddressOn("MODBUS", e) = \hf460 + 8 * i + y
              /\ EndOn("MODBUS", e) = \hf460 + 8 * i + y + 2
  <1>1. CASE ValueEntry(e, i)
    BY <1>1 DEF ValueEntry, Spot
  <1>2. ASSUME NEW f \in LimitTable, LimitEntry(e, i, f)
        PROVE  \E y \in {2, 4, 6} :
                  /\ e \in Unaddressed("I2C") /\ <<e.name, y>> \in LimitTable
                  /\ AddressOn("MODBUS", e) = \hf460 + 8 * i + y
                  /\ EndOn("MODBUS", e) = \hf460 + 8 * i + y + 2
    <2>1. f[2] \in {2, 4, 6} /\ f = <<f[1], f[2]>>
      BY DEF LimitTable
    <2> QED BY <1>2, <2>1 DEF LimitEntry, Spot
  <1> QED BY <1>1, <1>2 DEF ParamEntry

LEMMA ParamsApart ==
    ASSUME NEW bus \in {"I2C", "MODBUS"}, NEW e, NEW d, NEW i \in 0 .. 3, NEW j \in 0 .. 3,
           ParamEntry(e, i), ParamEntry(d, j), e \notin Unaddressed(bus),
           d \notin Unaddressed(bus), e.name # d.name
    PROVE  Separate(bus, e, d)
  <1>1. PICK y \in {0, 2, 4, 6} :
              /\ y = 0 => ValueEntry(e, i)
              /\ y # 0 => e \in Unaddressed("I2C") /\ <<e.name, y>> \in LimitTable
              /\ AddressOn("MODBUS", e) = \hf460 + 8 * i + y
              /\ EndOn("MODBUS", e) = \hf460 + 8 * i + y + 2
    BY ParamPlaces
  <1>2. PICK z \in {0, 2, 4, 6} :
              /\ z = 0 => ValueEntry(d, j)
              /\ z # 0 => d \in Unaddressed("I2C") /\ <<d.name, z>> \in LimitTable
              /\ AddressOn("MODBUS", d) = \hf460 + 8 * j + z
              /\ EndOn("MODBUS", d) = \hf460 + 8 * j + z + 2
    BY ParamPlaces
  <1>3. y # z
    <2>1. y # 0 /\ y = z => e.name = d.name
      BY <1>1, <1>2 DEF LimitTable
    <2>2. ~(y = 0 /\ z = 0)
      BY <1>1, <1>2 DEF ValueEntry
    <2> QED BY <2>1, <2>2
  <1>4. bus = "MODBUS"
    BY <1>1, <1>2, <1>3
  <1> QED BY ONLY <1>1, <1>2, <1>3, <1>4, i \in 0 .. 3, j \in 0 .. 3 DEF Separate

LEMMA SpaceParamApart ==
    ASSUME NEW bus \in {"I2C", "MODBUS"}, NEW e, NEW d, NEW i \in 0 .. 3, NEW j \in 0 .. 3,
           NEW t \in SpaceTable, SpaceEntry(e, i, t), ParamEntry(d, j),
           d \notin Unaddressed(bus)
    PROVE  Separate(bus, e, d) /\ Separate(bus, d, e)
  <1>1. PICK m \in Nat, a \in Nat, h \in Nat : /\ m = t[2] /\ a = t[3] /\ h = t[4]
                                              /\ a + 2 * h <= \hc0 /\ m + h <= \h60
    BY SpaceEnds
  <1>2. Spot(e, \h800 + 256 * i + a, \hf400 + 128 * i + m, h)
    BY <1>1 DEF SpaceEntry
  <1>3. PICK z \in {0, 2, 4, 6} :
              /\ z = 0 => ValueEntry(d, j)
              /\ z # 0 => d \in Unaddressed("I2C") /\ <<d.name, z>> \in LimitTable
              /\ AddressOn("MODBUS", d) = \hf460 + 8 * j + z
              /\ EndOn("MODBUS", d) = \hf460 + 8 * j + z + 2
    BY ParamPlaces
  <1>4. CASE bus = "I2C"
    <2>1. ValueEntry(d, j)
      BY <1>3, <1>4
    <2> QED BY ONLY <1>1, <1>2, <1>4, <2>1, i \in 0 .. 3, j \in 0 .. 3
            DEF Separate, Spot, ValueEntry
  <1>5. CASE bus = "MODBUS"
    BY ONLY <1>1, <1>2, <1>3, <1>5, i \in 0 .. 3, j \in 0 .. 3 DEF Separate, Spot
  <1> QED BY <1>4, <1>5

LEMMA SensorApart ==
    \A bus \in {"I2C", "MODBUS"} : \A e, d \in SensorRegisters \ Unaddressed(bus) :
        e.name # d.name => Separate(bus, e, d)
  <1> SUFFICES ASSUME NEW bus \in {"I2C", "MODBUS"},
                      NEW e \in SensorRegisters \ Unaddressed(bus),
                      NEW d \in SensorRegisters \ Unaddressed(bus), e.name # d.name
               PROVE  Separate(bus, e, d)
    OBVIOUS
  <1>1. PICK i \in 0 .. 3 : (\E t \in SpaceTable : SpaceEntry(e, i, t)) \/ ParamEntry(e, i)
    BY SensorSpots DEF SensorEntry, ParamEntry
  <1>2. PICK j \in 0 .. 3 : (\E u \in SpaceTable : SpaceEntry(d, j, u)) \/ ParamEntry(d, j)
    BY SensorSpots DEF SensorEntry, ParamEntry
  <1>3. CASE ParamEntry(e, i) /\ ParamEntry(d, j)
    BY <1>3, ParamsApart
  <1>4. CASE ParamEntry(e, i) /\ \E u \in SpaceTable : SpaceEntry(d, j, u)
    BY <1>4, SpaceParamApart
  <1>5. CASE ParamEntry(d, j) /\ \E t \in SpaceTable : SpaceEntry(e, i, t)
    BY <1>5, SpaceParamApart
  <1>6. CASE /\ \E t \in SpaceTable : SpaceEntry(e, i, t)
             /\ \E u \in SpaceTable : SpaceEntry(d, j, u)
    BY <1>6, SpacesApart
  <1> QED BY <1>1, <1>2, <1>3, <1>4, <1>5, <1>6

\* Each kind of name has a section of its own.
LEMMA NameInside ==
    \A e \in NameRegisters \ Overlapping :
        \/ e.name = "SENSOR_NAME" /\ Inside(e, \he00, \he40, \hf700, \hf720)
        \/ e.name = "OUTPUT_NAME" /\ Inside(e, \he40, \he80, \hf720, \hf740)
        \/ e.name = "PARAM_NAME" /\ Inside(e, \he80, \hf80, \hf740, \hf7c0)
        \/ e.name = "USER_EXTENSION_SPACE" /\ Inside(e, \hf80, \hfc0, \hf680, \hf700)
        \/ e.name = "CALIBRATION_STRING" /\ Inside(e, \hfc0, \h1000, \hf7e0, \hf800)
  <1> SUFFICES ASSUME NEW e \in NameRegisters, e \notin Overlapping
               PROVE
        \/ e.name = "SENSOR_NAME" /\ Inside(e, \he00, \he40, \hf700, \hf720)
        \/ e.name = "OUTPUT_NAME" /\ Inside(e, \he40, \he80, \hf720, \hf740)
        \/ e.name = "PARAM_NAME" /\ Inside(e, \he80, \hf80, \hf740, \hf7c0)
        \/ e.name = "USER_EXTENSION_SPACE" /\ Inside(e, \hf80, \hfc0, \hf680, \hf700)
        \/ e.name = "CALIBRATION_STRING" /\ Inside(e, \hfc0, \h1000, \hf7e0, \hf800)
    OBVIOUS
  <1>1. e \in _def /\ e.name # "DEVICE_EXTENSION_SPACE"
    BY DEF Overlapping, _def
  <1>2. CASE e = Reg("USER_EXTENSION_SPACE", \hf680, NoAddress, RDWR, 256)
    <2>1. e.name = "USER_EXTENSION_SPACE" /\ e.i2c_addr = NoAddress /\ e.modbus_addr = \hf680
      BY <1>2, RegNames, RegFields
    <2>2. e \in Unaddressed("I2C")
      BY <1>1, <2>1, WithoutAddress
    <2>3. Spot(e, NoAddress, \hf680, 128)
      BY <1>2, RegSpot DEF NoAddress
    <2> QED BY <2>1, <2>2, <2>3 DEF Spot, Inside, Within
  <1>3. CASE e = Reg("CALIBRATION_STRING", \hf7e0, NoAddress, RD, 64)
    <2>1. e.name = "CALIBRATION_STRING" /\ e.i2c_addr = NoAddress /\ e.modbus_addr = \hf7e0
      BY <1>3, RegNames, RegFields
    <2>2. e \in Unaddressed("I2C")
      BY <1>1, <2>1, WithoutAddress
    <2>3. Spot(e, NoAddress, \hf7e0, 32)
      BY <1>3, RegSpot DEF NoAddress
    <2> QED BY <2>1, <2>2, <2>3 DEF Spot, Inside, Within
  <1>4. CASE \E i \in Sensors : e = Numbered("SENSOR_NAME", i, \hf700 + 8 * i,
                R_SENSOR_NAME(i), 4 - i, RDWR \cup STR, 16)
    <2>1. PICK i \in 0 .. 3 : e = Numbered("SENSOR_NAME", i, \hf700 + 8 * i,
                                           \he00 + 16 * i, 4 - i, RDWR \cup STR, 16)
      BY <1>4 DEF R_SENSOR_NAME, Sensors
    <2>2. Spot(e, \he00 + 16 * i, \hf700 + 8 * i, 8 * (4 - i))
      BY ONLY <2>1, NumberedSpot
    <2>3. Inside(e, \he00, \he40, \hf700, \hf720)
      BY ONLY <2>2, SpotInside
    <2> QED BY <2>1, <2>3, NumberedNames
  <1>5. CASE \E i \in Sensors : e = Numbered("OUTPUT_NAME", i, \hf720 + 8 * i,
                R_OUTPUT_NAME(i), 4 - i, RDWR \cup BYTES, 16)
    <2>1. PICK i \in 0 .. 3 : e = Numbered("OUTPUT_NAME", i, \hf720 + 8 * i,
                                           \he40 + 16 * i, 4 - i, RDWR \cup BYTES, 16)
      BY <1>5 DEF R_OUTPUT_NAME, Sensors
    <2>2. Spot(e, \he40 + 16 * i, \hf720 + 8 * i, 8 * (4 - i))
      BY ONLY <2>1, NumberedSpot
    <2>3. Inside(e, \he40, \he80, \hf720, \hf740)
      BY ONLY <2>2, SpotInside
    <2> QED BY <2>1, <2>3, NumberedNames
  <1>6. CASE \E i \in 0 .. 15 : e = Numbered("PARAM_NAME", i, \hf740 + 8 * i,
                R_USER_PARAMETER_NAME(i), 16 - i, RDWR, 16)
    <2>1. PICK i \in 0 .. 15 : e = Numbered("PARAM_NAME", i, \hf740 + 8 * i,
                                            \he80 + 16 * i, 16 - i, RDWR, 16)
      BY <1>6 DEF R_USER_PARAMETER_NAME
    <2>2. Spot(e, \he80 + 16 * i, \hf740 + 8 * i, 8 * (16 - i))
      BY ONLY <2>1, NumberedSpot
    <2>3. Inside(e, \he80, \hf80, \hf740, \hf7c0)
      BY ONLY <2>2, SpotInside
    <2> QED BY <2>1, <2>3, NumberedNames
  <1>7. e # Reg("DEVICE_EXTENSION_SPACE", \hf600, NoAddress, RDWR, 256)
    BY <1>1, RegNames
  <1> QED BY <1>2, <1>3, <1>4, <1>5, <1>6, <1>7 DEF NameRegisters, Sensors

LEMMA NameApart ==
    \A bus \in {"I2C", "MODBUS"} :
        \A e, d \in NameRegisters \ (Unaddressed(bus) \cup Overlapping) :
            e.name # d.name => Separate(bus, e, d)
  <1> SUFFICES ASSUME NEW bus \in {"I2C", "MODBUS"},
                      NEW e \in NameRegisters \ (Unaddressed(bus) \cup Overlapping),
                      NEW d \in NameRegisters \ (Unaddressed(bus) \cup Overlapping),
                      e.name # d.name
               PROVE  Separate(bus, e, d)
    OBVIOUS
  <1>1. /\ AddressOn(bus, e) \in Nat /\ EndOn(bus, e) \in Int
        /\ AddressOn(bus, d) \in Nat /\ EndOn(bus, d) \in Int
    BY EndIsInt DEF _def
  <1>2. CASE bus = "I2C"
    <2> DEFINE In(x, name, lo, hi) == x.name = name /\ Within("I2C", x, lo, hi)
    <2>1. ASSUME NEW x \in {e, d}
          PROVE  \/ In(x, "SENSOR_NAME", \he00, \he40) \/ In(x, "OUTPUT_NAME", \he40, \he80)
                 \/ In(x, "PARAM_NAME", \he80, \hf80)
                 \/ In(x, "USER_EXTENSION_SPACE", \hf80, \hfc0)
                 \/ In(x, "CALIBRATION_STRING", \hfc0, \h1000)
      BY <1>2, NameInside DEF Inside
    <2> QED BY <1>1, <1>2, <2>1 DEF Within, Separate
  <1>3. CASE bus = "MODBUS"
    <2> DEFINE In(x, name, lo, hi) == x.name = name /\ Within("MODBUS", x, lo, hi)
    <2>1. ASSUME NEW x \in {e, d}
          PROVE  \/ In(x, "SENSOR_NAME", \hf700, \hf720) \/ In(x, "OUTPUT_NAME", \hf720, \hf740)
                 \/ In(x, "PARAM_NAME", \hf740, \hf7c0)
                 \/ In(x, "USER_EXTENSION_SPACE", \hf680, \hf700)
                 \/ In(x, "CALIBRATION_STRING", \hf7e0, \hf800)
      BY <1>3, NameInside DEF Inside
    <2> QED BY <1>1, <1>3, <2>1 DEF Within, Separate
  <1> QED BY <1>2, <1>3

\* The families in the order of their addresses, which is the same on both buses, and
\* where each begins and the one after it.
Area == <<SystemRegisters, ReadingRegisters \ Output, ParameterRegisters, ScaleRegisters,
          Output \cup {DeviceName}, FactoryLow, CalibrationRegisters, Passwords,
          ParameterData, BlockRegisters, SensorRegisters, ExtensionRegisters, NameRegisters>>

Bound ==
    [I2C |-> <<\h000, \h03c, \h080, \h0c0, \h0e0, \h100, \h200, \h380, \h3a0, \h400, \h800,
               \hc00, \he00, \h1000>>,
     MODBUS |-> <<\hf000, \hf01e, \hf040, \hf060, \hf070, \hf080, \hf1c0, \hf1c0, \hf1d0,
                  \hf200, \hf400, \hf600, \hf680, \hf800>>]

LEMMA BoundsGrow ==
    ASSUME NEW bus \in {"I2C", "MODBUS"}, NEW n \in 1 .. 13, NEW m \in 1 .. 13, n < m
    PROVE  /\ Bound[bus][n] \in Nat /\ Bound[bus][n + 1] \in Nat /\ Bound[bus][m] \in Nat
           /\ Bound[bus][n + 1] <= Bound[bus][m]
  <1>1. CASE bus = "I2C"
    BY <1>1 DEF Bound
  <1>2. CASE bus = "MODBUS"
    BY <1>2 DEF Bound
  <1> QED BY <1>1, <1>2

InArea(e, n) ==
    Inside(e, Bound["I2C"][n], Bound["I2C"][n + 1], Bound["MODBUS"][n], Bound["MODBUS"][n + 1])

LEMMA NameInsideArea ==
    \A e \in NameRegisters \ Overlapping : Inside(e, \he00, \h1000, \hf680, \hf800)
  <1> SUFFICES ASSUME NEW e \in NameRegisters \ Overlapping
               PROVE  Inside(e, \he00, \h1000, \hf680, \hf800)
    OBVIOUS
  <1>1. \A bus \in {"I2C", "MODBUS"} : AddressOn(bus, e) \in Nat /\ EndOn(bus, e) \in Int
    BY EndIsInt DEF _def
  <1> QED BY <1>1, NameInside DEF Inside, Within

LEMMA AreaInside == \A n \in 1 .. 13 : \A e \in Area[n] \ Overlapping : InArea(e, n)
  <1> SUFFICES ASSUME NEW n \in 1 .. 13, NEW e \in Area[n] \ Overlapping PROVE InArea(e, n)
    OBVIOUS
  <1>1. CASE n = 1
    BY <1>1, SystemInside DEF Area, Bound, InArea
  <1>2. CASE n = 2
    BY <1>2, ReadingInside DEF Area, Bound, InArea
  <1>3. CASE n = 3
    BY <1>3, ParameterInside DEF Area, Bound, InArea
  <1>4. CASE n = 4
    BY <1>4, ScaleInside DEF Area, Bound, InArea
  <1>5. CASE n = 5
    BY <1>5, UpperInside DEF Area, Bound, InArea
  <1>6. CASE n = 6
    BY <1>6, FactoryInside DEF Area, Bound, InArea
  <1>7. CASE n = 7
    BY <1>7, CalibrationInside DEF Area, Bound, InArea
  <1>8. CASE n = 8
    BY <1>8, PasswordsInside DEF Area, Bound, InArea
  <1>9. CASE n = 9
    BY <1>9, ParameterDataInside DEF Area, Bound, InArea
  <1>10. CASE n = 10
    BY <1>10, BlockInside DEF Area, Bound, InArea
  <1>11. CASE n = 11
    BY <1>11, SensorInside DEF Area, Bound, InArea
  <1>12. CASE n = 12
    BY <1>12, ExtensionInside DEF Area, Bound, InArea
  <1>13. CASE n = 13
    BY <1>13, NameInsideArea DEF Area, Bound, InArea
  <1> QED BY <1>1, <1>2, <1>3, <1>4, <1>5, <1>6, <1>7, <1>8, <1>9, <1>10, <1>11, <1>12, <1>13

LEMMA AreasCover == \A e \in _def \ Overlapping : \E n \in 1 .. 13 : e \in Area[n]
  <1>1. /\ Area[1] = SystemRegisters /\ Area[2] = ReadingRegisters \ Output
        /\ Area[3] = ParameterRegisters /\ Area[4] = ScaleRegisters
        /\ Area[5] = Output \cup {DeviceName} /\ Area[6] = FactoryLow
        /\ Area[7] = CalibrationRegisters /\ Area[8] = Passwords /\ Area[9] = ParameterData
        /\ Area[10] = BlockRegisters /\ Area[11] = SensorRegisters
        /\ Area[12] = ExtensionRegisters /\ Area[13] = NameRegisters
    BY DEF Area
  <1> SUFFICES ASSUME NEW e \in _def \ Overlapping PROVE \E n \in 1 .. 13 : e \in Area[n]
    OBVIOUS
  <1>2. e \in SystemRegisters \cup ReadingRegisters \cup ParameterRegisters
             \cup ScaleRegisters \cup {DeviceName} \cup FactoryRegisters
             \cup BlockRegisters \cup SensorRegisters \cup NameRegisters
             \cup ExtensionRegisters \cup CalibrationRegisters
    BY DEF _def, Overlapping
  <1>3. e \in FactoryRegisters => e \in FactoryLow \cup Passwords \cup ParameterData
    BY DEF FactoryLow
  <1>4. /\ 1 \in 1 .. 13 /\ 2 \in 1 .. 13 /\ 3 \in 1 .. 13 /\ 4 \in 1 .. 13 /\ 5 \in 1 .. 13
        /\ 6 \in 1 .. 13 /\ 7 \in 1 .. 13 /\ 8 \in 1 .. 13 /\ 9 \in 1 .. 13 /\ 10 \in 1 .. 13
        /\ 11 \in 1 .. 13 /\ 12 \in 1 .. 13 /\ 13 \in 1 .. 13
    OBVIOUS
  <1> QED BY ONLY <1>1, <1>2, <1>3, <1>4

LEMMA PasswordsApart ==
    \A bus \in {"I2C", "MODBUS"}, e, d \in Passwords :
        e.name # d.name => Separate(bus, e, d)
  BY PasswordSpots DEF Separate, Spot

\* Within its family a register lies apart from those of other names that share no bytes
\* with it; gains and offsets alternate.
LEMMA AreaApart ==
    ASSUME NEW bus \in {"I2C", "MODBUS"}, NEW n \in 1 .. 13,
           NEW e \in Area[n] \ (Unaddressed(bus) \cup Overlapping),
           NEW d \in Area[n] \ (Unaddressed(bus) \cup Overlapping),
           e.name # d.name, ~Share(e.name, d.name)
    PROVE  Separate(bus, e, d) \/ {e, d} \subseteq ScaleRegisters
  <1>1. CASE n = 1
    BY <1>1, SystemApart DEF Area
  <1>2. CASE n = 2
    BY <1>2, ReadingApart DEF Area
  <1>3. CASE n = 3
    BY <1>3, NumberedNames DEF Area, ParameterRegisters
  <1>4. CASE n = 4
    BY <1>4 DEF Area
  <1>5. CASE n = 5
    <2>1. \A x \in Output \cup {DeviceName} : x.name \in {"DEVICE_NAME", "OUTPUT"}
      BY RegNames DEF Output, DeviceName
    <2>2. {e.name, d.name} \subseteq {"DEVICE_NAME", "OUTPUT"}
      BY <1>5, <2>1 DEF Area
    <2> QED BY <2>2, Unshared
  <1>6. CASE n = 6
    BY <1>6, FactoryApart DEF Area
  <1>7. CASE n = 7
    <2>1. e \in CalibrationRegisters /\ d \in CalibrationRegisters
      BY <1>7 DEF Area
    <2>2. bus = "I2C"
      BY <2>1, CalibrationSpots, WithoutAddress DEF _def
    <2> QED BY <2>1, <2>2, CalibrationApart
  <1>8. CASE n = 8
    BY <1>8, PasswordsApart DEF Area
  <1>9. CASE n = 9
    BY <1>9 DEF Area, ParameterData
  <1>10. CASE n = 10
    BY <1>10, BlockApart DEF Area
  <1>11. CASE n = 11
    BY <1>11, SensorApart DEF Area
  <1>12. CASE n = 12
    BY <1>12, ExtensionApart DEF Area
  <1>13. CASE n = 13
    BY <1>13, NameApart DEF Area
  <1> QED BY <1>1, <1>2, <1>3, <1>4, <1>5, <1>6, <1>7, <1>8, <1>9, <1>10, <1>11, <1>12, <1>13

LEMMA RegistersApart ==
    ASSUME NEW bus \in {"I2C", "MODBUS"},
           NEW e \in _def \ (Unaddressed(bus) \cup Overlapping),
           NEW d \in _def \ (Unaddressed(bus) \cup Overlapping),
           e.name # d.name, ~Share(e.name, d.name)
    PROVE  Separate(bus, e, d) \/ {e, d} \subseteq ScaleRegisters
  <1>1. PICK n \in 1 .. 13 : e \in Area[n] \ Overlapping
    BY AreasCover
  <1>2. PICK m \in 1 .. 13 : d \in Area[m] \ Overlapping
    BY AreasCover
  <1>3. InArea(e, n) /\ InArea(d, m)
    BY <1>1, <1>2, AreaInside
  <1>4. /\ Within(bus, e, Bound[bus][n], Bound[bus][n + 1])
        /\ Within(bus, d, Bound[bus][m], Bound[bus][m + 1])
    BY <1>3 DEF InArea, Inside
  <1>5. /\ AddressOn(bus, e) \in Nat /\ EndOn(bus, e) \in Int
        /\ AddressOn(bus, d) \in Nat /\ EndOn(bus, d) \in Int
    BY EndIsInt
  <1>6. CASE n < m
    <2>1. /\ Bound[bus][n + 1] \in Nat /\ Bound[bus][m] \in Nat
          /\ Bound[bus][n + 1] <= Bound[bus][m]
      BY <1>6, BoundsGrow
    <2> QED BY ONLY <1>4, <1>5, <2>1 DEF Within, Separate
  <1>7. CASE m < n
    <2>1. /\ Bound[bus][m + 1] \in Nat /\ Bound[bus][n] \in Nat
          /\ Bound[bus][m + 1] <= Bound[bus][n]
      BY <1>7, BoundsGrow
    <2> QED BY ONLY <1>4, <1>5, <2>1 DEF Within, Separate
  <1>8. CASE m = n
    BY <1>1, <1>2, <1>8, AreaApart
  <1> QED BY <1>6, <1>7, <1>8

LEMMA EndsBelow ==
    ASSUME NEW bus \in {"I2C", "MODBUS"},
           NEW e \in _def \ (Unaddressed(bus) \cup Overlapping)
    PROVE  EndOn(bus, e) <= \h10000
  <1>1. PICK n \in 1 .. 13 : e \in Area[n] \ Overlapping
    BY AreasCover
  <1>2. EndOn(bus, e) <= Bound[bus][n + 1]
    BY <1>1, AreaInside DEF InArea, Inside, Within
  <1>3. Bound[bus][n + 1] \in Nat /\ Bound[bus][n + 1] <= \h10000
    <2>1. CASE bus = "I2C"
      BY <2>1 DEF Bound
    <2>2. CASE bus = "MODBUS"
      BY <2>2 DEF Bound
    <2> QED BY <2>1, <2>2
  <1>4. EndOn(bus, e) \in Int
    BY EndIsInt
  <1> QED BY ONLY <1>2, <1>3, <1>4

\* The sixteenth of the gains and offsets that an instance of one fills.
LEMMA ScaleAddress ==
    ASSUME NEW k, k.reg \in ScaleRegisters, k.index \in 0 .. k.reg.nInstance - 1,
           k.bus \in {"I2C", "MODBUS"}, Length(k) \in Nat, Length(k) <= k.reg.size
    PROVE  \E i \in 0 .. 3 :
              LET j == IF k.reg.name = "SENSOR_GAIN" THEN 2 * i ELSE 2 * i + 1
                  b == IF k.bus = "I2C" THEN \hc0 ELSE \hf060
                  w == IF k.bus = "I2C" THEN 4 ELSE 2
              IN  Address(k) = b + w * j /\ Units(k) <= w
  <1>1. PICK i \in 0 .. 3 : i = k.index
    BY ScaleFields
  <1>2. PICK y \in 0 .. 4 : y = Length(k)
    BY ScaleFields
  <1>3. Units(k) = IF k.bus = "I2C" THEN y ELSE Even(y) \div 2
    BY <1>2 DEF Units
  <1>4. Even(y) \div 2 <= 2
    BY DEF Even
  <1>5. k.reg.size + k.reg.offset = 8
    BY ScaleFields
  <1>6. Address(k) = (IF k.bus = "I2C" THEN k.reg.i2c_addr + i * 8
                      ELSE k.reg.modbus_addr + (i * 8) \div 2) % \h10000
    BY <1>1, <1>5 DEF Address
  <1>7. /\ (\hc0 + i * 8) % \h10000 = \hc0 + 8 * i
        /\ (\hc4 + i * 8) % \h10000 = \hc4 + 8 * i
        /\ (\hf060 + (i * 8) \div 2) % \h10000 = \hf060 + 4 * i
        /\ (\hf062 + (i * 8) \div 2) % \h10000 = \hf062 + 4 * i
    OBVIOUS
  <1>8. /\ k.reg.name = "SENSOR_GAIN" => k.reg.i2c_addr = \hc0 /\ k.reg.modbus_addr = \hf060
        /\ k.reg.name # "SENSOR_GAIN" => k.reg.i2c_addr = \hc4 /\ k.reg.modbus_addr = \hf062
    BY ScaleFields
  <1> QED BY ONLY <1>3, <1>4, <1>6, <1>7, <1>8, i \in 0 .. 3, y \in 0 .. 4,
             k.bus \in {"I2C", "MODBUS"}

LEMMA ScaleApart ==
    ASSUME NEW k, k.reg \in ScaleRegisters, k.index \in 0 .. k.reg.nInstance - 1,
           k.bus \in {"I2C", "MODBUS"}, Length(k) \in Nat, Length(k) <= k.reg.size,
           NEW d, d.reg \in ScaleRegisters, d.index \in 0 .. d.reg.nInstance - 1,
           d.bus = k.bus, Length(d) \in Nat, Length(d) <= d.reg.size,
           Units(k) \in Nat, Units(d) \in Nat, k.reg.name # d.reg.name
    PROVE  Address(k) + Units(k) <= Address(d) \/ Address(d) + Units(d) <= Address(k)
  <1>1. \/ k.reg.name = "SENSOR_GAIN" /\ d.reg.name # "SENSOR_GAIN"
        \/ d.reg.name = "SENSOR_GAIN" /\ k.reg.name # "SENSOR_GAIN"
    BY ScaleFields
  <1>2. CASE k.bus = "I2C"
    <2>1. \E i \in 0 .. 3 : /\ Address(k) = \hc0 + 4 * (IF k.reg.name = "SENSOR_GAIN"
                                                       THEN 2 * i ELSE 2 * i + 1)
                            /\ Units(k) <= 4
      BY <1>2, ScaleAddress
    <2>2. \E i \in 0 .. 3 : /\ Address(d) = \hc0 + 4 * (IF d.reg.name = "SENSOR_GAIN"
                                                       THEN 2 * i ELSE 2 * i + 1)
                            /\ Units(d) <= 4
      BY <1>2, ScaleAddress
    <2> QED BY ONLY <1>1, <2>1, <2>2, Units(k) \in Nat, Units(d) \in Nat
  <1>3. CASE k.bus = "MODBUS"
    <2>1. \E i \in 0 .. 3 : /\ Address(k) = \hf060 + 2 * (IF k.reg.name = "SENSOR_GAIN"
                                                         THEN 2 * i ELSE 2 * i + 1)
                            /\ Units(k) <= 2
      BY <1>3, ScaleAddress
    <2>2. \E i \in 0 .. 3 : /\ Address(d) = \hf060 + 2 * (IF d.reg.name = "SENSOR_GAIN"
                                                         THEN 2 * i ELSE 2 * i + 1)
                            /\ Units(d) <= 2
      BY <1>3, ScaleAddress
    <2> QED BY ONLY <1>1, <2>1, <2>2, Units(k) \in Nat, Units(d) \in Nat
  <1> QED BY <1>2, <1>3

LEMMA UnitsNat == ASSUME NEW k, Length(k) \in Nat PROVE Units(k) \in Nat
  <1>1. PICK y \in Nat : y = Length(k)
    OBVIOUS
  <1>2. Even(y) \div 2 \in Nat
    BY DEF Even
  <1> QED BY <1>1, <1>2 DEF Units

\* Two instances of registers of different names that share no bytes lie apart.
LEMMA InstancesApart ==
    ASSUME NEW k, NEW d, k.bus \in {"I2C", "MODBUS"}, d.bus = k.bus,
           k.reg \in _def \ (Unaddressed(k.bus) \cup Overlapping),
           d.reg \in _def \ (Unaddressed(k.bus) \cup Overlapping),
           k.index \in 0 .. k.reg.nInstance - 1, d.index \in 0 .. d.reg.nInstance - 1,
           Length(k) \in Nat, Length(k) <= k.reg.size,
           Length(d) \in Nat, Length(d) <= d.reg.size,
           k.reg.name # d.reg.name, ~Share(k.reg.name, d.reg.name)
    PROVE  Address(k) + Units(k) <= Address(d) \/ Address(d) + Units(d) <= Address(k)
  <1>1. Placed(k.reg) /\ Placed(d.reg)
    BY DefPlaced
  <1>2. EndOn(k.bus, k.reg) <= \h10000 /\ EndOn(d.bus, d.reg) <= \h10000
    BY EndsBelow
  <1>3. /\ AddressOn(k.bus, k.reg) <= Address(k)
        /\ Address(k) + Units(k) <= EndOn(k.bus, k.reg)
    BY <1>1, <1>2, InstanceWithin
  <1>4. /\ AddressOn(k.bus, d.reg) <= Address(d)
        /\ Address(d) + Units(d) <= EndOn(k.bus, d.reg)
    BY <1>1, <1>2, InstanceWithin
  <1>5. Units(k) \in Nat /\ Units(d) \in Nat
    BY UnitsNat
  <1>6. /\ AddressOn(k.bus, k.reg) \in Nat /\ EndOn(k.bus, k.reg) \in Int
        /\ AddressOn(k.bus, d.reg) \in Nat /\ EndOn(k.bus, d.reg) \in Int
    BY EndIsInt
  <1>7. Address(k) \in Int /\ Address(d) \in Int
    BY <1>1 DEF Address, Placed
  <1>8. Separate(k.bus, k.reg, d.reg) \/ {k.reg, d.reg} \subseteq ScaleRegisters
    BY RegistersApart
  <1>9. CASE Separate(k.bus, k.reg, d.reg)
    BY ONLY <1>3, <1>4, <1>5, <1>6, <1>7, <1>9 DEF Separate
  <1>10. CASE {k.reg, d.reg} \subseteq ScaleRegisters
    BY <1>5, <1>10, ScaleApart
  <1> QED BY <1>8, <1>9, <1>10

\* A write changes no instance of a register of another name that shares no bytes with
\* the one it names, on either bus and whatever its index, for every entry of the table
\* but the unit of a sensor, the extension space and the boot loader's.
THEOREM AlwaysStaysInside == Spec => []WritesStayInside
  <1>1. IInv => WritesStayInside
    <2> SUFFICES ASSUME IInv, pc = "transfer", call.op = "write",
                        call.reg \notin Unaddressed(call.bus) \cup Overlapping,
                        NEW e \in _def \ (Unaddressed(call.bus) \cup Overlapping),
                        NEW i \in 0 .. e.nInstance - 1, e.name # call.reg.name,
                        ~Share(e.name, call.reg.name)
                 PROVE  LET other == [op |-> "read", bus |-> call.bus, reg |-> e,
                                      index |-> i, size |-> e.size]
                        IN  \/ Reached + Units(call) <= Address(other)
                            \/ Address(other) + Units(other) <= Reached
      BY DEF WritesStayInside
    <2> DEFINE other == [op |-> "read", bus |-> call.bus, reg |-> e, index |-> i,
                         size |-> e.size]
    <2>1. Accepted(call) /\ Reached = Address(call)
      BY ReachedIsAddress
    <2>2. /\ call.reg \in _def /\ call.bus \in {"I2C", "MODBUS"}
          /\ call.index \in 0 .. call.reg.nInstance - 1
          /\ Length(call) \in Nat /\ Length(call) <= call.reg.size
      BY <2>1, AcceptedFacts, AcceptedInDef DEF Accepted, Legal, Placed
    <2>3. /\ other.bus = call.bus /\ other.reg = e /\ other.index = i /\ Length(other) = e.size
      BY DEF Length
    <2>4. e.size \in Nat /\ e.size <= e.size
      BY DefPlaced DEF Placed
    <2>5. ~Share(call.reg.name, e.name)
      BY DEF Share
    <2> HIDE DEF other
    <2>6. \/ Address(call) + Units(call) <= Address(other)
          \/ Address(other) + Units(other) <= Address(call)
      BY <2>2, <2>3, <2>4, <2>5, InstancesApart
    <2> QED BY <2>1, <2>6 DEF other
  <1> QED BY <1>1, Invariance, PTL
=============================================================================
