----------------------------- MODULE LinuxdevSpi -----------------------------
(***************************************************************************)
(* The SPI API on /dev/spidevN.M (src/impl_linuxdev.c).  Opening a device  *)
(* opens its node and writes the bus's mode and speed with two ioctls.     *)
(* Unlike the I2C slave address, spidev keeps mode and speed with the      *)
(* device, not with the descriptor: every descriptor of a node shares      *)
(* them, and a transfer uses the current ones.                             *)
(***************************************************************************)
EXTENDS LinuxProcess

CONSTANTS
  SpiBuses,     \* the client's mcupr_spi_bus_t * variables
  SpiParams,    \* the params clients pass: records [busnum, mode, speed]
  SpiSelects,   \* the csnum values clients pass
  SpiDevices,   \* the <<N, M>> for which /dev/spidevN.M exists
  SpiEnv,       \* the number in MCUPR_SPI_BUSNUM, None when it is not set
  SpiLens       \* transfer lengths

ASSUME SpiAssumption ==
  /\ SpiParams \subseteq [busnum : Int, mode : Int, speed : Int]
  /\ SpiSelects \subseteq Int /\ SpiLens \subseteq Int

VARIABLES
  spiBus,       \* spiBus[b]: bus->params of the bus at pointer b, None if NULL
  spidev        \* spidev[d]: mode and speed of device d, as the kernel keeps them

spiVars == <<spiBus, spidev>>

(* A fresh device has settings of its own, unequal to any a client asks for. *)
SpiInit ==
  /\ spiBus = [b \in SpiBuses |-> None]
  /\ spidev = [d \in SpiDevices |-> [mode |-> None, speed |-> None]]

DefaultSpiBus(busnum) == IF busnum = MCUPR_UNSPECIFIED THEN 0 ELSE busnum

(* bus->params = *params, with the default bus number filled in. *)
BusParams(p) == [p EXCEPT !.busnum = DefaultSpiBus(@)]

SpiBusCreate(t, b) ==
  /\ spiBus[b] = None
  /\ \E p \in SpiParams :
       \/ /\ spiBus' = [spiBus EXCEPT ![b] = BusParams(p)]
          /\ Immediate(t, MCUPR_RES_OK)
       \/ /\ Immediate(t, MCUPR_RES_NOMEM)
          /\ UNCHANGED spiBus
  /\ UNCHANGED spidev

SpiBusRelease(t, b) ==
  /\ pc[t] = "idle"
  /\ spiBus[b] # None /\ Unused("spi_open", b)
  /\ spiBus' = [spiBus EXCEPT ![b] = None]
  /\ UNCHANGED <<procVars, spidev>>

(* The chip select that is opened: an unspecified one comes from the       *)
(* environment variable, and stays unspecified without it.                 *)
ChipSelect(csnum) ==
  IF csnum = MCUPR_UNSPECIFIED /\ SpiEnv # None THEN SpiEnv ELSE csnum

SpiDevice(b, csnum) == <<spiBus[b].busnum, ChipSelect(csnum)>>

SpiNode(d) == <<"/dev/spidev", d>>

SpiOpen(t, b, csnum) ==
  LET d == SpiDevice(b, csnum)
  IN  /\ spiBus[b] # None
      /\ \/ Immediate(t, MCUPR_RES_IO_ERROR)
         \/ /\ d \in SpiDevices
            /\ EnterOpening(t, Call("spi_open", b, csnum), SpiNode(d), "spi_mode")
      /\ UNCHANGED spiVars

(* SPI_IOC_WR_MODE and SPI_IOC_WR_MAX_SPEED_HZ on a descriptor of device d. *)
WriteMode(d, mode)   == spidev' = [spidev EXCEPT ![d].mode = mode]
WriteSpeed(d, speed) == spidev' = [spidev EXCEPT ![d].speed = speed]

(* (uint8_t)bus->params.mode: the unspecified mode becomes mode 0. *)
ModeByte(mode) == mode % 256

(* Faulty variant of SpiSetMode: the result of the ioctl is not looked at. *)
SpiSetModeUnchecked(t) ==
  LET b == call[t].obj
  IN  /\ pc[t] = "spi_mode"
      /\ \/ WriteMode(SpiDevice(b, call[t].arg), ModeByte(spiBus[b].mode))
         \/ UNCHANGED spidev
      /\ Proceed(t, "spi_speed") /\ UNCHANGED <<file, dev, fd, spiBus>>

SpiSetMode(t) ==
  LET b == call[t].obj
  IN  /\ pc[t] = "spi_mode"
      /\ \/ /\ WriteMode(SpiDevice(b, call[t].arg), ModeByte(spiBus[b].mode))
            /\ Proceed(t, "spi_speed") /\ UNCHANGED <<file, dev, fd>>
         \/ Abandon(t, MCUPR_RES_IO_ERROR) /\ UNCHANGED spidev
      /\ UNCHANGED spiBus

SpiSetSpeed(t) ==
  LET b == call[t].obj
  IN  /\ pc[t] = "spi_speed"
      /\ \/ /\ WriteSpeed(SpiDevice(b, call[t].arg), spiBus[b].speed)
            /\ HandOver(t) /\ UNCHANGED file
         \/ Abandon(t, MCUPR_RES_IO_ERROR) /\ UNCHANGED spidev
      /\ UNCHANGED spiBus

(* The handles of bus b that the client holds. *)
SpiDevs(b) == {n \in FDs : dev[n] # None /\ dev[n].op = "spi_open" /\ dev[n].obj = b}

SpiClose(t, b) ==
  /\ \E n \in SpiDevs(b) : CloseHandle(t, n)
  /\ UNCHANGED spiVars

(* The client passes a handle of the bus or a negative dev: both may fail. *)
SpiTransfer(t, b, length) ==
  /\ \/ Immediate(t, MCUPR_RES_IO_ERROR)
     \/ SpiDevs(b) # {} /\ Immediate(t, length)
  /\ UNCHANGED spiVars

SpiStep(t) ==
  \/ \E b \in SpiBuses : SpiBusCreate(t, b) \/ SpiBusRelease(t, b)
  \/ \E b \in SpiBuses, csnum \in SpiSelects : SpiOpen(t, b, csnum)
  \/ SpiSetMode(t)
  \/ SpiSetSpeed(t)
  \/ \E b \in SpiBuses : SpiClose(t, b)
  \/ \E b \in SpiBuses, length \in SpiLens : SpiTransfer(t, b, length)

-----------------------------------------------------------------------------

(* Every SPI handle the client holds is a descriptor of the device its bus *)
(* number and chip select name, and that device runs on a mode and a speed *)
(* that clients of this bus number asked for, never on what it had before  *)
(* (mcupr_spi_open hands out fd only after both ioctls succeeded).  Mode   *)
(* and speed may come from two different opens: the device keeps the last  *)
(* of each.                                                                *)
SpiHandlesConfigured ==
  \A n \in FDs :
    dev[n] # None /\ dev[n].op = "spi_open" =>
      LET d == SpiDevice(dev[n].obj, dev[n].arg)
      IN  /\ file[n].node = SpiNode(d)
          /\ \E p, q \in SpiParams :
               /\ DefaultSpiBus(p.busnum) = d[1] /\ DefaultSpiBus(q.busnum) = d[1]
               /\ spidev[d] = [mode |-> ModeByte(p.mode), speed |-> q.speed]
=============================================================================
