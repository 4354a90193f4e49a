------------------------------- MODULE Adxl345 -------------------------------
(***************************************************************************)
(* examples/adxl345.c: a client of the SPI API that sets an accelerometer  *)
(* up for double taps, prints the acceleration when it changes and stops   *)
(* at a double tap.  Every register access is one transfer of the program, *)
(* and between two of them the chip measures and is tapped.                *)
(***************************************************************************)
EXTENDS Integers, Sequences

CONSTANTS
  Axes,      \* "x", "y", "z", in the order they are read
  Samples,   \* what an axis can measure, as <<low byte, high byte>>
  Faults     \* the transfers that may fail: some of Transfers

Byte == 0 .. 255

Transfers == {"id", "write", "data", "int"}

ASSUME Adxl345Assumption ==
  /\ Axes \in Seq(STRING) /\ Len(Axes) \in 1 .. 3
  /\ Samples \subseteq Byte \X Byte /\ Faults \subseteq Transfers

Settings ==
  <<"POWER_CTL", "THRESH_TAP", "DUR", "LATENT", "WINDOW", "TAP_AXES", "INT_ENABLE">>

VARIABLES
  applied,   \* the settings the chip has taken
  sample,    \* what its data registers hold, for each axis
  ready,     \* a measurement nobody has read
  tap,       \* a double tap that INT_SOURCE still shows
  pc, n,     \* where the program is, and at which setting or axis
  low,       \* the low byte it has read
  value,     \* x, y, z
  prev       \* prev_x, prev_y, prev_z: what it has printed

chip == <<applied, sample, ready, tap>>

vars == <<applied, sample, ready, tap, pc, n, low, value, prev>>

AxisSet == {Axes[i] : i \in 1 .. Len(Axes)}

Init ==
  /\ applied = {} /\ sample \in [AxisSet -> Samples] /\ ready = FALSE
  /\ tap = FALSE
  /\ pc = "start" /\ n = 1 /\ low = 0
  /\ value = [a \in AxisSet |-> 0] /\ prev = [a \in AxisSet |-> 0]

-----------------------------------------------------------------------------
(* The chip. *)

Measure ==
  /\ "POWER_CTL" \in applied
  /\ sample' \in [AxisSet -> Samples] /\ ready' = TRUE
  /\ UNCHANGED <<applied, tap, pc, n, low, value, prev>>

DoubleTap ==
  /\ applied = {Settings[i] : i \in 1 .. Len(Settings)}
  /\ tap' = TRUE
  /\ UNCHANGED <<applied, sample, ready, pc, n, low, value, prev>>

(* INT_SOURCE: data ready in bit 7, double tap in bit 5; reading clears it. *)
IntSource == (IF ready THEN 128 ELSE 0) + (IF tap THEN 32 ELSE 0)

-----------------------------------------------------------------------------
(* The program. *)

(* adxl345_read: the byte the register holds, or 0xFF. *)
AdxlRead(kind, byte) == {byte} \cup (IF kind \in Faults THEN {255} ELSE {})

(* Faulty variant of Int16: the bytes are not taken as a signed number. *)
Uint16(lo, hi) == 256 * hi + lo

(* (int16_t)((high << 8) | low) *)
Int16(lo, hi) == LET u == 256 * hi + lo IN IF u < 2 ^ 15 THEN u ELSE u - 2 ^ 16

(* Faulty variant of IsTap: bit 6 is tested, which is the single tap. *)
IsSingleTap(byte) == (byte \div 64) % 2 = 1

(* int_source & 0x20 *)
IsTap(byte) == (byte \div 32) % 2 = 1

Thresh == 10

Differs(a) == value[a] - prev[a] > Thresh \/ prev[a] - value[a] > Thresh

(* The bus is created and opened; a failure is exit(1). *)
OpenSensor ==
  /\ pc = "start" /\ pc' \in {"id", "failed"}
  /\ UNCHANGED <<chip, n, low, value, prev>>

(* DEVID is 0xe5 when the chip is there. *)
ReadId ==
  /\ pc = "id"
  /\ \E present \in {229, 0} : \E devid \in AdxlRead("id", present) :
       pc' = IF devid # 229 THEN "failed" ELSE "setup"
  /\ UNCHANGED <<chip, n, low, value, prev>>

(* adxl345_setup_double_tap: each setting is a write whose failure is only  *)
(* printed; POWER_CTL is read back, and the byte is printed.                *)
WriteSetting ==
  /\ pc = "setup"
  /\ \/ applied' = applied \cup {Settings[n]}
     \/ "write" \in Faults /\ UNCHANGED applied
  /\ pc' = IF n = 1 THEN "verify" ELSE IF n < Len(Settings) THEN "setup" ELSE "low"
  /\ n' = IF n = 1 THEN 1 ELSE IF n < Len(Settings) THEN n + 1 ELSE 1
  /\ UNCHANGED <<sample, ready, tap, low, value, prev>>

VerifyPower ==
  /\ pc = "verify" /\ pc' = "setup" /\ n' = 2
  /\ UNCHANGED <<chip, low, value, prev>>

ReadLow ==
  /\ pc = "low" /\ pc' = "high"
  /\ low' \in AdxlRead("data", sample[Axes[n]][1])
  /\ ready' = FALSE
  /\ UNCHANGED <<applied, sample, tap, n, value, prev>>

ReadHigh ==
  /\ pc = "high"
  /\ \E high \in AdxlRead("data", sample[Axes[n]][2]) :
       value' = [value EXCEPT ![Axes[n]] = Int16(low, high)]
  /\ ready' = FALSE
  /\ IF n < Len(Axes) THEN pc' = "low" /\ n' = n + 1 ELSE pc' = "compare" /\ n' = 1
  /\ UNCHANGED <<applied, sample, tap, low, prev>>

Changed == \E a \in AxisSet : Differs(a)

Compare ==
  /\ pc = "compare" /\ pc' = "int"
  /\ prev' = IF Changed THEN value ELSE prev
  /\ UNCHANGED <<chip, n, low, value>>

(* A double tap ends the loop, and the bus is closed and released; without *)
(* one the loop sleeps and goes on.                                        *)
ReadInt ==
  /\ pc = "int"
  /\ \E int_source \in AdxlRead("int", IntSource) :
       /\ pc' = IF IsTap(int_source) THEN "done" ELSE "low"
       /\ IF int_source = IntSource THEN tap' = FALSE ELSE UNCHANGED tap
  /\ UNCHANGED <<applied, sample, ready, n, low, value, prev>>

Program ==
  OpenSensor \/ ReadId \/ WriteSetting \/ VerifyPower \/ ReadLow \/ ReadHigh \/ Compare \/ ReadInt

Next == Program \/ Measure \/ DoubleTap

Spec == Init /\ [][Next]_vars

(* The program is scheduled; the chip need not do anything. *)
FairSpec == Spec /\ WF_vars(Program)

-----------------------------------------------------------------------------

TypeOK ==
  /\ applied \subseteq {Settings[i] : i \in 1 .. Len(Settings)}
  /\ sample \in [AxisSet -> Samples]
  /\ ready \in BOOLEAN /\ tap \in BOOLEAN
  /\ pc \in {"start", "failed", "id", "setup", "verify", "low", "high", "compare", "int", "done"}
  /\ n \in 1 .. Len(Settings) /\ low \in Byte
  /\ value \in [AxisSet -> -(2 ^ 15) .. 2 ^ 15 - 1]
  /\ prev \in [AxisSet -> -(2 ^ 15) .. 2 ^ 15 - 1]

(* Reading INT_SOURCE clears it, so the read that clears a double tap is   *)
(* the one that ends the loop: no other read, of INT_SOURCE or of the      *)
(* data, and none that fails takes a tap away unseen (adxl345.c:136-142).  *)
TapNotLost == [][tap => tap' \/ pc' = "done"]_vars

(* A double tap that the chip shows is seen, whatever is measured in the   *)
(* meantime and whichever transfers fail: the loop ends.                   *)
TapIsSeen == tap ~> (pc = "done")
==============================================================================
