------------------------------- MODULE Tsl2561 -------------------------------
(***************************************************************************)
(* examples/tsl2561.c: a client of the I2C API that powers a light sensor  *)
(* on and prints its two channels.  A register is read in two transfers,   *)
(* and a channel in two registers, while the sensor goes on integrating.   *)
(***************************************************************************)
EXTENDS Naturals

CONSTANTS
  Words,     \* what a channel can measure, as <<low byte, high byte>>
  Faults     \* the transfers that may fail: some of Transfers

Byte == 0 .. 255

Transfers == {"config", "pointer", "data"}

ASSUME Tsl2561Assumption == Words \subseteq Byte \X Byte /\ Faults \subseteq Transfers

Channels == {0, 1}

VARIABLES
  powered,   \* CONTROL is TLS2561_REG_CONTROL_POWER_ON
  adc,       \* the word of each channel
  shadow,    \* the high byte latched by the last read of a low byte
  pointer,   \* the register that the next read is of
  pc, n,     \* where the program is, and at which of the data registers
  data       \* data0low, data0high, data1low, data1high

sensor == <<powered, adc, shadow, pointer>>

vars == <<powered, adc, shadow, pointer, pc, n, data>>

DataNames == {"DATA0LOW", "DATA0HIGH", "DATA1LOW", "DATA1HIGH"}

(* A sensor that has measured nothing; an earlier run leaves it powered. *)
Init ==
  /\ powered \in BOOLEAN /\ adc = [c \in Channels |-> <<0, 0>>] /\ shadow = 0
  /\ pointer = "COMMAND" /\ pc = "start" /\ n = 1
  /\ data = [r \in DataNames |-> 0]

-----------------------------------------------------------------------------
(* The sensor. *)

Integrate ==
  /\ powered
  /\ adc' \in [Channels -> Words]
  /\ UNCHANGED <<powered, shadow, pointer, pc, n, data>>

(* What a register holds; the high byte is the one latched with its low.   *)
(* TIMING is 402 ms before and after it is written.                        *)
Register(r) ==
  CASE r = "CONTROL" -> IF powered THEN 3 ELSE 0
    [] r = "TIMING" -> 2
    [] r = "DATA0LOW" -> adc[0][1]
    [] r = "DATA1LOW" -> adc[1][1]
    [] r \in {"DATA0HIGH", "DATA1HIGH"} -> shadow
    [] OTHER -> 0

Latch(r) ==
  shadow' = CASE r = "DATA0LOW" -> adc[0][2] [] r = "DATA1LOW" -> adc[1][2] [] OTHER -> shadow

-----------------------------------------------------------------------------
(* The program. *)

(* Faulty variant of DataRegisters: the high byte is read first. *)
DataRegistersSwapped == <<"DATA0HIGH", "DATA0LOW", "DATA1HIGH", "DATA1LOW">>

DataRegisters == <<"DATA0LOW", "DATA0HIGH", "DATA1LOW", "DATA1HIGH">>

(* The bus is created and opened; a failure is exit(1). *)
OpenSensor ==
  /\ pc = "start" /\ pc' \in {"control", "failed"}
  /\ UNCHANGED <<sensor, n, data>>

(* tsl2561_write: one write of the register and its value, unchecked. *)
PowerOn ==
  /\ pc = "control" /\ pc' = "timing"
  /\ \/ powered' = TRUE /\ pointer' = "CONTROL"
     \/ "config" \in Faults /\ UNCHANGED <<powered, pointer>>
  /\ UNCHANGED <<adc, shadow, n, data>>

SetTiming ==
  /\ pc = "timing" /\ pc' = "pointer"
  /\ \/ pointer' = "TIMING"
     \/ "config" \in Faults /\ UNCHANGED pointer
  /\ UNCHANGED <<powered, adc, shadow, n, data>>

(* tsl2561_read writes the register's number, unchecked ... *)
WritePointer ==
  /\ pc = "pointer" /\ pc' = "data"
  /\ \/ pointer' = DataRegisters[n]
     \/ "pointer" \in Faults /\ UNCHANGED pointer
  /\ UNCHANGED <<powered, adc, shadow, n, data>>

(* ... and reads a byte: 0xff when that fails. *)
ReadData ==
  /\ pc = "data"
  /\ \/ data' = [data EXCEPT ![DataRegisters[n]] = Register(pointer)] /\ Latch(pointer)
     \/ "data" \in Faults /\ data' = [data EXCEPT ![DataRegisters[n]] = 255] /\ UNCHANGED shadow
  /\ IF n < 4 THEN pc' = "pointer" /\ n' = n + 1 ELSE pc' = "done" /\ UNCHANGED n
  /\ UNCHANGED <<powered, adc, pointer>>

Next == OpenSensor \/ PowerOn \/ SetTiming \/ WritePointer \/ ReadData \/ Integrate

Spec == Init /\ [][Next]_vars

-----------------------------------------------------------------------------

ch0 == 256 * data["DATA0HIGH"] + data["DATA0LOW"]

ch1 == 256 * data["DATA1HIGH"] + data["DATA1LOW"]

(* The words a channel can hold. *)
Measurable == {0} \cup {256 * w[2] + w[1] : w \in Words}

(* "Read ADC Channel Data Registers" (tsl2561.c:107): each channel that is *)
(* printed is a word that the sensor measured, or the 0 it starts with,    *)
(* although it integrates between the transfers; a read that fails shows   *)
(* as 0xff and spoils its own channel only.  It takes the order of the     *)
(* code, low byte first, and pointer writes that succeed: where one is     *)
(* lost the register read before is read again.                            *)
ChannelsMeasured ==
  pc = "done" =>
    /\ 255 \in {data["DATA0LOW"], data["DATA0HIGH"]} \/ ch0 \in Measurable
    /\ 255 \in {data["DATA1LOW"], data["DATA1HIGH"]} \/ ch1 \in Measurable
==============================================================================
