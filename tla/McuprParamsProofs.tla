--------------------------- MODULE McuprParamsProofs ---------------------------
(* The number of a bus survives its conversions, for every width of an int. *)
EXTENDS McuprParams, TLAPS

(* What strtol() found is stored once, and made the number of the bus once. *)
Asked == IF env = Unset THEN MCUPR_UNSPECIFIED ELSE env

IInv ==
  /\ env \in Int \cup {Unset} /\ api \in Apis
  /\ busnum # Unset => busnum = Stored(Asked)
  /\ bus # Unset => busnum # Unset /\ bus = BusNumber(busnum)

-----------------------------------------------------------------------------

(* The remainder of a number that is out of range by less than one turn. *)
LEMMA ModSmall ==
  ASSUME NEW n \in Nat \ {0}, NEW x \in Int, 0 <= x, x < n
  PROVE  x % n = x
<1> DEFINE q == x \div n
           r == x % n
<1>1. q \in Int /\ r \in Int /\ 0 <= r /\ r < n /\ x = n * q + r
  OBVIOUS
<1> HIDE DEF q, r
<1>2. CASE q >= 1
  <2>1. n * q >= n
    BY <1>1, <1>2
  <2> QED
    BY <1>1, <2>1 DEF r
<1>3. CASE q <= -1
  <2>1. n * q <= -n
    BY <1>1, <1>3
  <2> QED
    BY <1>1, <2>1 DEF r
<1>4. CASE q = 0
  <2>1. n * q = 0
    BY <1>4
  <2> QED
    BY <1>1, <2>1 DEF r
<1> QED
  BY <1>1, <1>2, <1>3, <1>4

LEMMA ModNegative ==
  ASSUME NEW n \in Nat \ {0}, NEW x \in Int, -n <= x, x < 0
  PROVE  x % n = x + n
<1> DEFINE q == x \div n
           r == x % n
<1>1. q \in Int /\ r \in Int /\ 0 <= r /\ r < n /\ x = n * q + r
  OBVIOUS
<1> HIDE DEF q, r
<1>2. CASE q >= 0
  <2>1. n * q >= 0
    BY <1>1, <1>2
  <2> QED
    BY <1>1, <2>1 DEF r
<1>3. CASE q <= -2
  <2>1. n * q <= -(2 * n)
    BY <1>1, <1>3
  <2> QED
    BY <1>1, <2>1 DEF r
<1>4. CASE q = -1
  <2>1. n * q = -n
    BY <1>4
  <2> QED
    BY <1>1, <2>1 DEF r
<1> QED
  BY <1>1, <1>2, <1>3, <1>4

(* A number that an int can hold and is not negative is left as it is.     *)
LEMMA NumberKept ==
  ASSUME NEW x \in 0 .. Half - 1
  PROVE  Unsigned(x) = x /\ Signed(x) = x /\ ~IsUnspecified(x)
<1>1. x \in Int /\ 0 <= x /\ x < Half /\ Half \in Nat \ {0} /\ 2 * Half \in Nat \ {0}
  BY McuprParamsAssumption
<1>2. Unsigned(x) = x
  BY <1>1, ModSmall DEF Unsigned
<1> QED
  BY <1>1, <1>2 DEF Signed, IsUnspecified, MCUPR_UNSPECIFIED

(* "Unspecified" is the least int, and is still recognised as one.         *)
LEMMA UnspecifiedKept ==
  /\ Unsigned(MCUPR_UNSPECIFIED) = MCUPR_UNSPECIFIED
  /\ Signed(MCUPR_UNSPECIFIED) = -Half
  /\ IsUnspecified(MCUPR_UNSPECIFIED) /\ IsUnspecified(-Half)
<1>1. Half \in Nat \ {0} /\ 2 * Half \in Nat \ {0} /\ -Half \in Int
  BY McuprParamsAssumption
<1>2. Unsigned(Half) = Half
  <2>1. Half \in Int /\ 0 <= Half /\ Half < 2 * Half
    BY <1>1
  <2> QED
    BY <1>1, <2>1, ModSmall DEF Unsigned
<1>3. Unsigned(-Half) = Half
  <2>1. -(2 * Half) <= -Half /\ -Half < 0 /\ -Half + 2 * Half = Half
    BY <1>1
  <2> QED
    BY <1>1, <2>1, ModNegative DEF Unsigned
<1>4. Signed(Half) = -Half
  BY <1>1, <1>2 DEF Signed
<1> QED
  BY <1>2, <1>3, <1>4 DEF IsUnspecified, MCUPR_UNSPECIFIED

LEMMA Opened ==
  ASSUME api \in Apis
  PROVE  /\ env = Unset => BusNumber(Stored(Asked)) = Default
         /\ env # Unset /\ env \in 0 .. Half - 1 => BusNumber(Stored(Asked)) = env
<1>1. ASSUME env = Unset PROVE BusNumber(Stored(Asked)) = Default
  <2>1. Asked = MCUPR_UNSPECIFIED
    BY <1>1 DEF Asked
  <2>2. CASE api = "linuxdev_i2c"
    BY <2>1, <2>2, UnspecifiedKept DEF Stored, BusNumber, Default
  <2>3. CASE api = "linuxdev_spi"
    BY <2>1, <2>3, UnspecifiedKept DEF Stored, BusNumber, Default
  <2>4. CASE api = "pigpiod_i2c"
    BY <2>1, <2>4, UnspecifiedKept DEF Stored, BusNumber, Default
  <2> QED
    BY <2>2, <2>3, <2>4 DEF Apis
<1>2. ASSUME env # Unset, env \in 0 .. Half - 1 PROVE BusNumber(Stored(Asked)) = env
  <2>1. Asked = env
    BY <1>2 DEF Asked
  <2>2. CASE api = "linuxdev_i2c"
    BY <1>2, <2>1, <2>2, NumberKept DEF Stored, BusNumber
  <2>3. CASE api = "linuxdev_spi"
    BY <1>2, <2>1, <2>3, NumberKept DEF Stored, BusNumber
  <2>4. CASE api = "pigpiod_i2c"
    BY <1>2, <2>1, <2>4, NumberKept DEF Stored, BusNumber
  <2> QED
    BY <2>2, <2>3, <2>4 DEF Apis
<1> QED
  BY <1>1, <1>2

-----------------------------------------------------------------------------

LEMMA InitIInv == Init => IInv
<1>1. Longs \subseteq Int
  BY McuprParamsAssumption DEF Longs
<1> QED
  BY <1>1 DEF Init, IInv

LEMMA NextIInv == IInv /\ [Next]_vars => IInv'
<1> SUFFICES ASSUME IInv, [Next]_vars PROVE IInv'
  OBVIOUS
<1>1. CASE InitParams
  <2>1. busnum' = Stored(Asked) /\ bus = Unset /\ UNCHANGED <<env, api, bus>>
    BY <1>1 DEF InitParams, IInv, Asked
  <2> QED
    BY <2>1 DEF IInv, Asked, Stored
<1>2. CASE BusCreate
  BY <1>2 DEF BusCreate, IInv, Asked, Stored, BusNumber
<1>3. CASE UNCHANGED vars
  BY <1>3 DEF vars, IInv, Asked, Stored, BusNumber
<1> QED
  BY <1>1, <1>2, <1>3 DEF Next

(* Whatever the width of an int, the bus that a backend opens is the one   *)
(* that MCUPR_I2C_BUSNUM or MCUPR_SPI_BUSNUM names, and its default if the *)
(* variable is not set (mcu_peripheral.c and the three bus_create).        *)
THEOREM OpensNamed == Spec => []NamedBusIsOpened
<1>1. IInv => NamedBusIsOpened
  BY Opened DEF IInv, NamedBusIsOpened
<1> QED
  BY <1>1, InitIInv, NextIInv, PTL DEF Spec
================================================================================
