----------------------------- MODULE MCDataLog ------------------------------
(* The functions that the clients of DataLog.cfg call, and their ranges. *)
EXTENDS DataLog, TLC

MCFunctions ==
    {fb_enable, sensor_log_enable({"EVENT_1_LOG"}), sensor_log_disable({"EVENT_1_LOG"}),
     system_control_write_bits({"EVENT_2_READ"}), set_interrupt_control({"EVENT_0"}),
     set_sample_time(2), probe_default_init(LOG_TIME_FIRST_FOUND, LOG_TIME_EOF),
     preset_config, wait_for_device_ready, soft_reset, factory_reset, password_reset,
     sensor_log_extract, sensor_log_extract_next}

MCSymmetry == Permutations(Client)

MCRanges == {<<1, 2>>}
=============================================================================
