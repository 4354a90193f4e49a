------------------------------ MODULE McuprParams ------------------------------
(***************************************************************************)
(* From MCUPR_I2C_BUSNUM and MCUPR_SPI_BUSNUM to the number of the bus     *)
(* that is opened: a long becomes a uint32_t or an int in the parameters   *)
(* (src/mcu_peripheral.c), is compared with MCUPR_UNSPECIFIED, and becomes *)
(* an int in the bus object of a backend.  The widths are a parameter.     *)
(***************************************************************************)
EXTENDS Integers

CONSTANTS
  Half,     \* the ints are -Half .. Half - 1; a long has twice the bits
  Unset     \* getenv() returns NULL

ASSUME McuprParamsAssumption == Half \in Nat \ {0} /\ Unset \notin Int

Longs == -(2 * Half * Half) .. 2 * Half * Half - 1

VARIABLES
  env,      \* what strtol() finds in the variable of the API
  api,      \* the bus that is created
  busnum,   \* params->busnum, Unset before init_params
  bus       \* the number in the bus object, Unset before bus_create

vars == <<env, api, busnum, bus>>

Apis == {"linuxdev_i2c", "linuxdev_spi", "pigpiod_i2c"}

Init ==
  /\ env \in Longs \cup {Unset} /\ api \in Apis
  /\ busnum = Unset /\ bus = Unset

(* The conversions to uint32_t and to int. *)
Unsigned(x) == x % (2 * Half)

Signed(x) == LET u == Unsigned(x) IN IF u < Half THEN u ELSE u - 2 * Half

(* 0x80000000, an unsigned int. *)
MCUPR_UNSPECIFIED == Half

(* The member of the parameters: uint32_t for I2C and int for SPI. *)
Stored(x) == IF api = "linuxdev_spi" THEN Signed(x) ELSE Unsigned(x)

InitParams ==
  /\ busnum = Unset
  /\ busnum' = Stored(IF env = Unset THEN MCUPR_UNSPECIFIED ELSE env)
  /\ UNCHANGED <<env, api, bus>>

(* Faulty variant of IsUnspecified: the numbers are compared as they are,  *)
(* as if the constant had the type of the int it is compared with.         *)
IsUnspecifiedExact(x) == x = MCUPR_UNSPECIFIED

(* An int that is compared with 0x80000000 becomes unsigned. *)
IsUnspecified(x) == Unsigned(x) = MCUPR_UNSPECIFIED

(* The linuxdev I2C bus is stored as an int and then compared; the pigpiod *)
(* bus is compared and then stored.                                        *)
BusNumber(x) ==
  CASE api = "linuxdev_i2c" -> IF IsUnspecified(Signed(x)) THEN 0 ELSE Signed(x)
    [] api = "linuxdev_spi" -> IF IsUnspecified(x) THEN 0 ELSE x
    [] api = "pigpiod_i2c"  -> IF IsUnspecified(x) THEN 1 ELSE Signed(x)

BusCreate ==
  /\ busnum # Unset /\ bus = Unset
  /\ bus' = BusNumber(busnum)
  /\ UNCHANGED <<env, api, busnum>>

Next == InitParams \/ BusCreate

Spec == Init /\ [][Next]_vars

-----------------------------------------------------------------------------

Default == IF api = "pigpiod_i2c" THEN 1 ELSE 0

(* The bus that is opened is the one that the variable names, when it      *)
(* names one, and the default of the backend when the variable is not set: *)
(* no conversion on the way makes one of the other.                        *)
NamedBusIsOpened ==
  bus # Unset =>
    /\ env = Unset => bus = Default
    /\ env # Unset /\ env \in 0 .. Half - 1 => bus = env
==============================================================================
