----------------------------- MODULE McuprTypes -----------------------------
(***************************************************************************)
(* The result codes and the "unspecified" marker of the public header      *)
(* (include/mcu_peripheral/mcu_peripheral.h), as the C int values that     *)
(* calls return.  Transfers return a byte count, which is >= 0, or one of  *)
(* the negative codes.                                                     *)
(***************************************************************************)
EXTENDS Integers

MCUPR_RES_OK                  == 0
MCUPR_RES_UNKNOWN             == -1
MCUPR_RES_INVALID_OBJ         == -2
MCUPR_RES_INVALID_HANDLE      == -3
MCUPR_RES_INVALID_NAME        == -4
MCUPR_RES_INVALID_ARGUMENT    == -5
MCUPR_RES_INVALID_PARAM       == -6
MCUPR_RES_BACKEND_FAILURE     == -7
MCUPR_RES_COMMUNICATION_ERROR == -8
MCUPR_RES_BUSY                == -9
MCUPR_RES_NOMEM               == -10
MCUPR_RES_NODEV               == -11
MCUPR_RES_IO_ERROR            == -12

(* mcupr_gpio_mode_t *)
MCUPR_GPIO_MODE_INPUT          == 0
MCUPR_GPIO_MODE_OUTPUT         == 1
MCUPR_GPIO_MODE_INPUT_PULLUP   == 2
MCUPR_GPIO_MODE_INPUT_PULLDOWN == 3

(* 0x80000000 stored in, or compared with, a 32-bit int. *)
MCUPR_UNSPECIFIED == -2147483647 - 1
=============================================================================
