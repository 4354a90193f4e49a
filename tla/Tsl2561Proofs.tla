---------------------------- MODULE Tsl2561Proofs ----------------------------
(* What examples/tsl2561.c prints, for every set of measurements. *)
EXTENDS Tsl2561, Integers, TLAPS

Measured == {<<0, 0>>} \cup Words

(* Two bytes of one word, unless the read of one has failed. *)
Whole(lo, hi) == 255 \in {lo, hi} \/ <<lo, hi>> \in Measured

(* The n-th register is the one the sensor points at when it is read; a    *)
(* low byte belongs with the high byte the sensor has latched, until the   *)
(* high byte is read.                                                      *)
Inv ==
  /\ adc \in [Channels -> Measured]
  /\ data \in [DataNames -> Int]
  /\ shadow \in Int
  /\ n \in 1 .. 4
  /\ pc \in {"start", "failed", "control", "timing"} => n = 1
  /\ pc = "done" => n = 4
  /\ pc = "data" => pointer = DataRegisters[n]
  /\ pc \in {"pointer", "data"} /\ n = 2 => Whole(data["DATA0LOW"], shadow)
  /\ n > 2 => Whole(data["DATA0LOW"], data["DATA0HIGH"])
  /\ pc \in {"pointer", "data"} /\ n = 4 => Whole(data["DATA1LOW"], shadow)
  /\ pc = "done" => Whole(data["DATA1LOW"], data["DATA1HIGH"])

-----------------------------------------------------------------------------

LEMMA WordBytes ==
  ASSUME NEW w \in Measured
  PROVE  w = <<w[1], w[2]>> /\ w[1] \in Int /\ w[2] \in Int
<1>1. w = <<0, 0>> \/ w \in Byte \X Byte
  BY Tsl2561Assumption DEF Measured
<1> QED
  BY <1>1 DEF Byte

LEMMA InitInv == Init => Inv
  BY DEF Init, Inv, Measured, Channels, DataNames, DataRegisters

(* A read that succeeds, and one that fails. *)
GoodRead ==
  ReadData /\ data' = [data EXCEPT ![DataRegisters[n]] = Register(pointer)] /\ Latch(pointer)

FailedRead ==
  ReadData /\ data' = [data EXCEPT ![DataRegisters[n]] = 255] /\ UNCHANGED shadow

(* The n-th register is read and its byte is kept under its name. *)
LEMMA GoodReadKeeps ==
  ASSUME Inv, GoodRead
  PROVE  Inv'
<1>1. /\ pc = "data" /\ pointer = DataRegisters[n] /\ n \in {1, 2, 3, 4}
      /\ data' = [data EXCEPT ![DataRegisters[n]] = Register(pointer)] /\ Latch(pointer)
      /\ IF n < 4 THEN pc' = "pointer" /\ n' = n + 1 ELSE pc' = "done" /\ n' = n
      /\ UNCHANGED <<powered, adc, pointer>>
  BY DEF Inv, GoodRead, ReadData
<1>2. \A c \in Channels : adc[c] = <<adc[c][1], adc[c][2]>> /\ adc[c] \in Measured
                          /\ adc[c][1] \in Int /\ adc[c][2] \in Int
  BY WordBytes DEF Inv
<1>3. 0 \in Channels /\ 1 \in Channels
  BY DEF Channels
<1>4. data \in [DataNames -> Int] /\ adc \in [Channels -> Measured]
  BY DEF Inv
<1>5. CASE n = 1
  <2>1. DataRegisters[1] = "DATA0LOW" /\ "DATA0LOW" \in DataNames
    BY DEF DataRegisters, DataNames
  <2>2. data' = [data EXCEPT !["DATA0LOW"] = adc[0][1]] /\ shadow' = adc[0][2]
    BY <1>1, <1>5, <2>1 DEF Register, Latch
  <2>3. data'["DATA0LOW"] = adc[0][1] /\ data' \in [DataNames -> Int]
    BY <1>2, <1>3, <1>4, <2>1, <2>2
  <2>4. Whole(data'["DATA0LOW"], shadow')
    BY <1>2, <1>3, <2>2, <2>3 DEF Whole
  <2>5. shadow' \in Int
    BY <1>2, <1>3, <2>2
  <2> QED
    BY <1>1, <1>4, <1>5, <2>3, <2>4, <2>5 DEF Inv
<1>6. CASE n = 2
  <2>1. /\ DataRegisters[2] = "DATA0HIGH"
        /\ "DATA0HIGH" \in DataNames /\ "DATA0LOW" \in DataNames
    BY DEF DataRegisters, DataNames
  <2>2. data' = [data EXCEPT !["DATA0HIGH"] = shadow] /\ shadow' = shadow
    BY <1>1, <1>6, <2>1 DEF Register, Latch
  <2>3. Whole(data["DATA0LOW"], shadow)
    BY <1>1, <1>6 DEF Inv
  <2>4. shadow \in Int
    BY DEF Inv
  <2>5. data'["DATA0HIGH"] = shadow /\ data'["DATA0LOW"] = data["DATA0LOW"]
        /\ data' \in [DataNames -> Int]
    BY <1>4, <2>1, <2>2, <2>4
  <2>6. shadow' \in Int
    BY <2>2, <2>4
  <2> QED
    BY <1>1, <1>4, <1>6, <2>3, <2>5, <2>6 DEF Inv
<1>7. CASE n = 3
  <2>1. /\ DataRegisters[3] = "DATA1LOW"
        /\ {"DATA0LOW", "DATA0HIGH", "DATA1LOW"} \subseteq DataNames
    BY DEF DataRegisters, DataNames
  <2>2. data' = [data EXCEPT !["DATA1LOW"] = adc[1][1]] /\ shadow' = adc[1][2]
    BY <1>1, <1>7, <2>1 DEF Register, Latch
  <2>3. /\ data'["DATA1LOW"] = adc[1][1] /\ data' \in [DataNames -> Int]
        /\ data'["DATA0LOW"] = data["DATA0LOW"] /\ data'["DATA0HIGH"] = data["DATA0HIGH"]
    BY <1>2, <1>3, <1>4, <2>1, <2>2
  <2>4. Whole(data'["DATA1LOW"], shadow')
    BY <1>2, <1>3, <2>2, <2>3 DEF Whole
  <2>5. Whole(data'["DATA0LOW"], data'["DATA0HIGH"])
    BY <1>1, <1>7, <2>3 DEF Inv
  <2>6. shadow' \in Int
    BY <1>2, <1>3, <2>2
  <2> QED
    BY <1>1, <1>4, <1>7, <2>3, <2>4, <2>5, <2>6 DEF Inv
<1>8. CASE n = 4
  <2>1. DataRegisters[4] = "DATA1HIGH" /\ "DATA1HIGH" \in DataNames
    BY DEF DataRegisters, DataNames
  <2>2. data' = [data EXCEPT !["DATA1HIGH"] = shadow] /\ shadow' = shadow
    BY <1>1, <1>8, <2>1 DEF Register, Latch
  <2>3. /\ Whole(data["DATA1LOW"], shadow)
        /\ Whole(data["DATA0LOW"], data["DATA0HIGH"])
    BY <1>1, <1>8 DEF Inv
  <2>4. shadow \in Int
    BY DEF Inv
  <2>5. /\ data'["DATA1HIGH"] = shadow /\ data' \in [DataNames -> Int]
        /\ data'["DATA1LOW"] = data["DATA1LOW"]
        /\ data'["DATA0LOW"] = data["DATA0LOW"] /\ data'["DATA0HIGH"] = data["DATA0HIGH"]
    BY <1>4, <2>1, <2>2, <2>4 DEF DataNames
  <2>6. shadow' \in Int
    BY <2>2, <2>4
  <2> QED
    BY <1>1, <1>4, <1>8, <2>3, <2>5, <2>6 DEF Inv
<1> QED
  BY <1>1, <1>5, <1>6, <1>7, <1>8

(* A read that fails leaves 255, which makes a pair whole. *)
LEMMA FailedReadKeeps ==
  ASSUME Inv, FailedRead
  PROVE  Inv'
<1>0. /\ pc = "data" /\ data' = [data EXCEPT ![DataRegisters[n]] = 255]
      /\ IF n < 4 THEN pc' = "pointer" /\ n' = n + 1 ELSE pc' = "done" /\ n' = n
      /\ UNCHANGED <<powered, adc, pointer, shadow>>
  BY DEF FailedRead, ReadData
<1>1. /\ DataRegisters[1] = "DATA0LOW" /\ DataRegisters[2] = "DATA0HIGH"
      /\ DataRegisters[3] = "DATA1LOW" /\ DataRegisters[4] = "DATA1HIGH"
  BY DEF DataRegisters
<1>2. data \in [DataNames -> Int] /\ n \in {1, 2, 3, 4}
  BY DEF Inv
<1>3. data' \in [DataNames -> Int]
  <2>1. DataRegisters[n] \in DataNames
    BY <1>1, <1>2 DEF DataNames
  <2> QED
    BY <1>0, <1>2, <2>1
<1>4. \A r \in DataNames : data'[r] = IF r = DataRegisters[n] THEN 255 ELSE data[r]
  BY <1>0, <1>2
<1>5. DataNames = {"DATA0LOW", "DATA0HIGH", "DATA1LOW", "DATA1HIGH"}
  BY DEF DataNames
<1>6. CASE n = 1
  <2>1. data'["DATA0LOW"] = 255
    BY <1>1, <1>4, <1>5, <1>6
  <2> QED
    BY <1>0, <1>3, <1>6, <2>1 DEF Inv, Whole
<1>7. CASE n = 2
  <2>1. data'["DATA0HIGH"] = 255
    BY <1>1, <1>4, <1>5, <1>7
  <2> QED
    BY <1>0, <1>3, <1>7, <2>1 DEF Inv, Whole
<1>8. CASE n = 3
  <2>1. /\ data'["DATA1LOW"] = 255
        /\ data'["DATA0LOW"] = data["DATA0LOW"] /\ data'["DATA0HIGH"] = data["DATA0HIGH"]
    BY <1>1, <1>4, <1>5, <1>8
  <2> QED
    BY <1>0, <1>3, <1>8, <2>1 DEF Inv, Whole
<1>9. CASE n = 4
  <2>1. /\ data'["DATA1HIGH"] = 255
        /\ data'["DATA0LOW"] = data["DATA0LOW"] /\ data'["DATA0HIGH"] = data["DATA0HIGH"]
    BY <1>1, <1>4, <1>5, <1>9
  <2> QED
    BY <1>0, <1>3, <1>9, <2>1 DEF Inv, Whole
<1> QED
  BY <1>2, <1>6, <1>7, <1>8, <1>9

(* Each channel that examples/tsl2561.c prints is a word the sensor had,   *)
(* whatever it measures between the transfers and whichever reads and      *)
(* writes of the configuration fail, if the pointer writes succeed.        *)
THEOREM PrintsMeasured ==
  ASSUME "pointer" \notin Faults
  PROVE  Spec => []ChannelsMeasured
<1>1. Inv /\ [Next]_vars => Inv'
  <2> SUFFICES ASSUME Inv, [Next]_vars PROVE Inv'
    OBVIOUS
  <2>1. CASE OpenSensor \/ PowerOn \/ SetTiming
    BY <2>1 DEF OpenSensor, PowerOn, SetTiming, sensor, Inv
  <2>2. CASE WritePointer
    BY <2>2 DEF WritePointer, Inv
  <2>3. CASE ReadData
    <3>1. GoodRead \/ FailedRead
      BY <2>3 DEF ReadData, GoodRead, FailedRead
    <3> QED
      BY <3>1, GoodReadKeeps, FailedReadKeeps
  <2>4. CASE Integrate
    <3>1. adc' \in [Channels -> Measured]
      BY <2>4 DEF Integrate, Measured
    <3> QED
      BY <2>4, <3>1 DEF Integrate, Inv
  <2>5. CASE UNCHANGED vars
    BY <2>5 DEF vars, Inv
  <2> QED
    BY <2>1, <2>2, <2>3, <2>4, <2>5 DEF Next
<1>2. Inv => ChannelsMeasured
  <2> SUFFICES ASSUME Inv, pc = "done"
               PROVE  /\ 255 \in {data["DATA0LOW"], data["DATA0HIGH"]} \/ ch0 \in Measurable
                      /\ 255 \in {data["DATA1LOW"], data["DATA1HIGH"]} \/ ch1 \in Measurable
    BY DEF ChannelsMeasured
  <2>1. ASSUME NEW lo, NEW hi, <<lo, hi>> \in Measured
        PROVE  256 * hi + lo \in Measurable
    <3>1. CASE <<lo, hi>> = <<0, 0>>
      BY <3>1 DEF Measurable
    <3>2. CASE <<lo, hi>> \in Words
      BY <3>2 DEF Measurable
    <3> QED
      BY <2>1, <3>1, <3>2 DEF Measured
  <2> QED
    BY <2>1 DEF Inv, Whole, ch0, ch1
<1> QED
  BY <1>1, <1>2, InitInv, PTL DEF Spec
==============================================================================
