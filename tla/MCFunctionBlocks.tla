-------------------------- MODULE MCFunctionBlocks --------------------------
(***************************************************************************)
(* FunctionBlocks for TLC: two alarms, of two blocks each.                 *)
(***************************************************************************)
EXTENDS FunctionBlocks, TLC

MCSecond == [b \in Blocks |->
    CASE b = "alarm1.w1" -> "alarm1.w2" [] b = "alarm2.w1" -> "alarm2.w2"
      [] OTHER -> NULL]

\* ALARM_LO and ALARM_BAND; of the rates and indexes the largest.
MCArguments == [enable |-> {1}, mode |-> {1, 17}, sensor |-> {31}, latching |-> {2},
                percent |-> {127}, parameter |-> {31}]
=============================================================================
