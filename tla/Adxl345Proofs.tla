---------------------------- MODULE Adxl345Proofs ----------------------------
(* What examples/adxl345.c gets right, for every set of measurements. *)
EXTENDS Adxl345, TLAPS

(* The axis the loop is at is one of the axes. *)
AtAnAxis == pc \in {"low", "high", "compare", "int"} => n \in 1 .. Len(Axes)

Typed == TypeOK /\ AtAnAxis

-----------------------------------------------------------------------------

LEMMA SettingsCount ==
  Len(Settings) = 7 /\ \A i \in 1 .. 7 : Settings[i] \in {Settings[j] : j \in 1 .. Len(Settings)}
<1>1. Len(Settings) = 7
  BY DEF Settings
<1> QED
  BY <1>1

LEMMA AxesCount == Len(Axes) \in 1 .. 3 /\ 1 \in 1 .. Len(Axes) /\ 1 .. Len(Axes) \subseteq 1 .. 7
<1> DEFINE k == Len(Axes)
<1>1. k \in 1 .. 3
  BY Adxl345Assumption DEF Adxl345Assumption
<1> HIDE DEF k
<1>2. 1 \in 1 .. k /\ 1 .. k \subseteq 1 .. 7
  BY <1>1
<1> QED
  BY <1>1, <1>2 DEF k

LEMMA InInt16 ==
  ASSUME NEW x \in Int, -32768 <= x, x <= 32767
  PROVE  x \in -(2 ^ 15) .. 2 ^ 15 - 1
<1> DEFINE least == -(2 ^ 15)
<1> DEFINE most == 2 ^ 15 - 1
<1>1. 2 ^ 15 = 32768
  OBVIOUS
<1>2. least \in Int /\ most \in Int /\ least <= x /\ x <= most
  BY <1>1
<1> HIDE DEF least, most
<1>3. x \in least .. most
  BY <1>2
<1> QED
  BY <1>3 DEF least, most

(* Two bytes of a register pair are a signed 16-bit number. *)
LEMMA Int16Range ==
  ASSUME NEW lo \in Byte, NEW hi \in Byte
  PROVE  Int16(lo, hi) \in -(2 ^ 15) .. 2 ^ 15 - 1
<1>1. 2 ^ 15 = 32768 /\ 2 ^ 16 = 65536
  OBVIOUS
<1> DEFINE u == 256 * hi + lo
<1>2. lo \in Int /\ hi \in Int /\ 0 <= lo /\ lo <= 255 /\ 0 <= hi /\ hi <= 255
  BY DEF Byte
<1>3. u \in Int /\ 0 <= u /\ u <= 65535
  BY <1>2
<1>4. Int16(lo, hi) = IF u < 32768 THEN u ELSE u - 65536
  BY <1>1 DEF Int16
<1> HIDE DEF u
<1>5. Int16(lo, hi) \in Int /\ -32768 <= Int16(lo, hi) /\ Int16(lo, hi) <= 32767
  BY <1>3, <1>4
<1> QED
  BY <1>5, InInt16

(* The axis that is read is one of the axes, and what is read is a byte,   *)
(* also when the transfer fails.                                           *)
LEMMA ReadByte ==
  ASSUME Typed, pc \in {"low", "high"}
  PROVE  /\ Axes[n] \in AxisSet
         /\ \A i \in {1, 2} : AdxlRead("data", sample[Axes[n]][i]) \subseteq Byte
<1>1. Axes[n] \in AxisSet
  BY DEF Typed, AtAnAxis, AxisSet
<1>2. sample[Axes[n]] \in Byte \X Byte
  BY <1>1, Adxl345Assumption DEF Typed, TypeOK
<1>3. 255 \in Byte
  BY DEF Byte
<1> QED
  BY <1>1, <1>2, <1>3 DEF AdxlRead

LEMMA InitTyped == Init => Typed
<1> SUFFICES ASSUME Init PROVE Typed
  OBVIOUS
<1>1. 0 \in Byte /\ 0 \in -(2 ^ 15) .. 2 ^ 15 - 1
  BY InInt16 DEF Byte
<1>2. n \in 1 .. Len(Axes) /\ n \in 1 .. Len(Settings)
  BY AxesCount, SettingsCount DEF Init
<1>3. /\ value \in [AxisSet -> -(2 ^ 15) .. 2 ^ 15 - 1]
      /\ prev \in [AxisSet -> -(2 ^ 15) .. 2 ^ 15 - 1]
  BY <1>1 DEF Init
<1> QED
  BY <1>1, <1>2, <1>3 DEF Init, Typed, TypeOK, AtAnAxis

LEMMA NextTyped ==
  ASSUME Typed, [Next]_vars
  PROVE  Typed'
<1> DEFINE Word == -(2 ^ 15) .. 2 ^ 15 - 1
<1> HIDE DEF Word
<1>0. /\ applied \subseteq {Settings[i] : i \in 1 .. Len(Settings)}
      /\ sample \in [AxisSet -> Samples]
      /\ ready \in BOOLEAN /\ tap \in BOOLEAN
      /\ n \in 1 .. 7 /\ low \in Byte /\ Len(Settings) = 7
      /\ value \in [AxisSet -> Word] /\ prev \in [AxisSet -> Word]
  BY SettingsCount DEF Typed, TypeOK, Word
<1>1. CASE OpenSensor
  BY <1>1 DEF OpenSensor, Typed, TypeOK, AtAnAxis, chip
<1>2. CASE ReadId
  BY <1>2 DEF ReadId, Typed, TypeOK, AtAnAxis, chip
<1>3. CASE WriteSetting
  <2>1. pc' \in {"low", "high", "compare", "int"} => n' = 1
    BY <1>3 DEF WriteSetting
  <2>2. n' \in 1 .. Len(Settings)
    BY <1>0, <1>3 DEF WriteSetting
  <2>3. applied' \subseteq {Settings[i] : i \in 1 .. Len(Settings)}
    BY <1>0, <1>3, SettingsCount DEF WriteSetting
  <2> QED
    BY <1>3, <2>1, <2>2, <2>3, AxesCount DEF WriteSetting, Typed, TypeOK, AtAnAxis
<1>4. CASE VerifyPower
  <2>1. n' \in 1 .. Len(Settings)
    BY <1>0, <1>4 DEF VerifyPower
  <2> QED
    BY <1>4, <2>1 DEF VerifyPower, Typed, TypeOK, AtAnAxis, chip
<1>5. CASE ReadLow
  <2>1. low' \in Byte
    BY <1>5, ReadByte DEF ReadLow
  <2> QED
    BY <1>5, <2>1 DEF ReadLow, Typed, TypeOK, AtAnAxis
<1>6. CASE ReadHigh
  <2>1. PICK high \in AdxlRead("data", sample[Axes[n]][2]) :
          value' = [value EXCEPT ![Axes[n]] = Int16(low, high)]
    BY <1>6 DEF ReadHigh
  <2>2. Int16(low, high) \in Word
    BY <1>0, <1>6, <2>1, ReadByte, Int16Range DEF ReadHigh, Word
  <2>3. value' \in [AxisSet -> Word]
    BY <1>0, <2>1, <2>2
  <2>4. pc' \in {"low", "high", "compare", "int"} => n' \in 1 .. Len(Axes)
    BY <1>6, AxesCount DEF ReadHigh, Typed, AtAnAxis
  <2>5. n' \in 1 .. Len(Settings)
    BY <1>0, <1>6, <2>4, AxesCount DEF ReadHigh
  <2> QED
    BY <1>6, <2>3, <2>4, <2>5 DEF ReadHigh, Typed, TypeOK, AtAnAxis, Word
<1>7. CASE Compare
  BY <1>7 DEF Compare, Typed, TypeOK, AtAnAxis, chip
<1>8. CASE ReadInt
  BY <1>8 DEF ReadInt, Typed, TypeOK, AtAnAxis
<1>9. CASE Measure
  BY <1>9 DEF Measure, Typed, TypeOK, AtAnAxis
<1>10. CASE DoubleTap
  BY <1>10 DEF DoubleTap, Typed, TypeOK, AtAnAxis
<1>11. CASE UNCHANGED vars
  BY <1>11 DEF vars, Typed, TypeOK, AtAnAxis
<1> QED
  BY <1>1, <1>2, <1>3, <1>4, <1>5, <1>6, <1>7, <1>8, <1>9, <1>10, <1>11 DEF Next, Program

LEMMA AlwaysTyped == Spec => []Typed
BY InitTyped, NextTyped, PTL DEF Spec

(* The variables of examples/adxl345.c have their C types, for any number  *)
(* of axes and any measurements: each axis is an int16_t, and the loop     *)
(* names only registers the chip has.                                      *)
THEOREM TypeCorrect == Spec => []TypeOK
<1>1. Typed => TypeOK
  BY DEF Typed
<1> QED
  BY <1>1, AlwaysTyped, PTL

-----------------------------------------------------------------------------

(* A double tap sets bit 5 of INT_SOURCE, whether or not there is a        *)
(* measurement too.                                                        *)
LEMMA TapSetsBit ==
  ASSUME ready \in BOOLEAN, tap
  PROVE  IsTap(IntSource)
<1>1. IntSource = 160 \/ IntSource = 32
  BY DEF IntSource
<1>2. IsTap(160) /\ IsTap(32)
  BY DEF IsTap
<1> QED
  BY <1>1, <1>2

(* No read of examples/adxl345.c clears a double tap without ending the    *)
(* loop, whichever transfers fail and whatever is measured.                *)
THEOREM TapKept == Spec => TapNotLost
<1>1. Typed /\ [Next]_vars => [tap => tap' \/ pc' = "done"]_vars
  <2> SUFFICES ASSUME Typed, [Next]_vars, tap PROVE tap' \/ pc' = "done"
    OBVIOUS
  <2>1. CASE ReadInt
    <3>1. PICK int_source \in AdxlRead("int", IntSource) :
            /\ pc' = IF IsTap(int_source) THEN "done" ELSE "low"
            /\ IF int_source = IntSource THEN tap' = FALSE ELSE UNCHANGED tap
      BY <2>1 DEF ReadInt
    <3>2. CASE int_source = IntSource
      BY <3>1, <3>2, TapSetsBit DEF Typed, TypeOK
    <3> QED
      BY <3>1, <3>2
  <2>2. CASE OpenSensor \/ ReadId \/ VerifyPower \/ Compare
    BY <2>2 DEF OpenSensor, ReadId, VerifyPower, Compare, chip
  <2>3. CASE WriteSetting \/ ReadLow \/ ReadHigh
    BY <2>3 DEF WriteSetting, ReadLow, ReadHigh
  <2>4. CASE Measure \/ DoubleTap \/ UNCHANGED vars
    BY <2>4 DEF Measure, DoubleTap, vars
  <2> QED
    BY <2>1, <2>2, <2>3, <2>4 DEF Next, Program
<1> QED
  BY <1>1, AlwaysTyped, PTL DEF Spec, TapNotLost
==============================================================================
