----------------------------- MODULE LinuxdevGpio -----------------------------
(***************************************************************************)
(* The GPIO API on /sys/class/gpio (src/impl_linuxdev.c).  A pin is a      *)
(* kernel object that every process shares: exported by writing its number *)
(* to "export", then driven through its "direction" and "value" files.     *)
(* Each access opens the file, makes one read or write and closes it; the  *)
(* results of the writes are not looked at.  The "device" given to the     *)
(* client is the pin number itself, and closing it does nothing.           *)
(***************************************************************************)
EXTENDS LinuxProcess

CONSTANTS
  Pins,         \* GPIO numbers
  GpioUses,     \* the <<pin, mode>> pairs clients open
  GpioValues,   \* the int values clients write
  RefusedWrites \* the sysfs files whose writes the kernel may refuse

ASSUME GpioAssumption == GpioUses \subseteq Pins \X Int /\ GpioValues \subseteq Int

VARIABLES
  gpio,         \* gpio[p]: the kernel's state of pin p: exported, dir, level
  gpioDev       \* the <<pin, mode>> of opens that returned MCUPR_RES_OK

gpioVars == <<gpio, gpioDev>>

PinState == [exported : BOOLEAN, dir : {"in", "out"}, level : {0, 1}]

(* The pins are as the processes before this one left them, a crashed run  *)
(* of the same program among them: nothing in the library unexports a pin. *)
GpioInit == gpio \in [Pins -> PinState] /\ gpioDev = {}

ExportNode       == <<"export">>
DirectionNode(p) == <<"direction", p>>
ValueNode(p)     == <<"value", p>>

(* write(fd, ...), whose result is ignored, and close(fd). *)
WriteAndClose(t, label) ==
  SysClose(t) /\ Proceed(t, label) /\ UNCHANGED dev

(* A chip object holds nothing that the other calls look at; its release   *)
(* does nothing at all.                                                    *)
GpioChipCreate(t) ==
  /\ Immediate(t, MCUPR_RES_OK) \/ Immediate(t, MCUPR_RES_NOMEM)
  /\ UNCHANGED gpioVars

GpioOpen(t, p, mode) ==
  /\ \/ Immediate(t, MCUPR_RES_IO_ERROR)
     \/ EnterOpening(t, Call("gpio_open", p, mode), ExportNode, "gpio_export")
  /\ UNCHANGED gpioVars

(* The kernel refuses to export a pin that is exported already (EBUSY).    *)
GpioExport(t) ==
  LET p == call[t].obj
  IN  /\ pc[t] = "gpio_export"
      /\ \/ /\ ~gpio[p].exported
            /\ gpio' = [gpio EXCEPT ![p] = [exported |-> TRUE, dir |-> "in", level |-> 0]]
         \/ gpio[p].exported /\ UNCHANGED gpio
         \/ "export" \in RefusedWrites /\ UNCHANGED gpio
      /\ WriteAndClose(t, "gpio_stat")
      /\ UNCHANGED gpioDev

(* Faulty variant of GpioStat: it polls until the pin shows up. *)
GpioStatPolls(t) ==
  /\ pc[t] = "gpio_stat"
  /\ \/ gpio[call[t].obj].exported /\ Proceed(t, "gpio_dir_open")
     \/ ~gpio[call[t].obj].exported /\ UNCHANGED <<pc, call, ret>>
  /\ UNCHANGED <<file, dev, fd, gpioVars>>

(* Faulty variant of GpioStat: a pin that is not there is exported again.  *)
GpioStatReexports(t) ==
  /\ pc[t] = "gpio_stat"
  /\ \/ gpio[call[t].obj].exported /\ Proceed(t, "gpio_dir_open") /\ UNCHANGED <<file, fd>>
     \/ ~gpio[call[t].obj].exported /\ SysOpen(t, ExportNode) /\ Proceed(t, "gpio_export")
     \/ ~gpio[call[t].obj].exported /\ Return(t, MCUPR_RES_IO_ERROR) /\ UNCHANGED <<file, fd>>
  /\ UNCHANGED <<dev, gpioVars>>

(* stat("/sys/class/gpio/gpioN") tells whether the pin is exported. *)
GpioStat(t) ==
  /\ pc[t] = "gpio_stat"
  /\ \/ gpio[call[t].obj].exported /\ Proceed(t, "gpio_dir_open")
     \/ ~gpio[call[t].obj].exported /\ Return(t, MCUPR_RES_IO_ERROR)
  /\ UNCHANGED <<file, dev, fd, gpioVars>>

(* Faulty variant of GpioDirOpen: gpio_open drops the result of set_dir.   *)
GpioDirOpenUnchecked(t) ==
  /\ pc[t] = "gpio_dir_open"
  /\ \/ /\ SysOpen(t, DirectionNode(call[t].obj)) /\ Proceed(t, "gpio_dir_write")
        /\ UNCHANGED gpioDev
     \/ /\ Return(t, MCUPR_RES_OK) /\ UNCHANGED <<file, fd>>
        /\ gpioDev' = gpioDev \cup {<<call[t].obj, call[t].arg>>}
  /\ UNCHANGED <<dev, gpio>>

GpioDirOpen(t) ==
  /\ pc[t] = "gpio_dir_open"
  /\ \/ SysOpen(t, DirectionNode(call[t].obj)) /\ Proceed(t, "gpio_dir_write")
     \/ Return(t, MCUPR_RES_IO_ERROR) /\ UNCHANGED <<file, fd>>
  /\ UNCHANGED <<dev, gpioVars>>

Direction(mode) == IF mode = MCUPR_GPIO_MODE_OUTPUT THEN "out" ELSE "in"

(* Writing "out" makes the pin an output that drives low, whatever it      *)
(* drove before; writing "in" makes it an input.                           *)
Direct(pin, mode) == [pin EXCEPT !.dir = Direction(mode), !.level = 0]

(* The result of write(fd, "out", 3) is ignored: the open succeeds either way. *)
GpioDirWrite(t) ==
  LET p == call[t].obj
  IN  /\ pc[t] = "gpio_dir_write"
      /\ \/ gpio' = [gpio EXCEPT ![p] = Direct(@, call[t].arg)]
         \/ "direction" \in RefusedWrites /\ UNCHANGED gpio
      /\ Abandon(t, MCUPR_RES_OK)
      /\ gpioDev' = gpioDev \cup {<<p, call[t].arg>>}

(* mcupr_gpio_close does nothing: only the client forgets the device. *)
GpioClose(t, h) ==
  /\ pc[t] = "idle"
  /\ gpioDev' = gpioDev \ {h}
  /\ UNCHANGED <<procVars, gpio>>

(* mcupr_gpio_write returns nothing, so an open(2) that fails goes unseen. *)
GpioWrite(t, h, value) ==
  /\ \/ Immediate(t, ret[t])
     \/ EnterOpening(t, Call("gpio_write", h[1], value), ValueNode(h[1]), "gpio_value_write")
  /\ UNCHANGED gpioVars

(* Faulty variant of Level: the value is passed on as it is. *)
LevelUnclipped(value) == value

(* "if (value) write 1 else write 0". *)
Level(value) == IF value # 0 THEN 1 ELSE 0

(* The kernel lets only outputs be written.  gpio_write is void: whether   *)
(* the level changed goes unseen.                                          *)
GpioValueWrite(t) ==
  LET p == call[t].obj
  IN  /\ pc[t] = "gpio_value_write"
      /\ \/ /\ gpio[p].exported /\ gpio[p].dir = "out"
            /\ gpio' = [gpio EXCEPT ![p].level = Level(call[t].arg)]
         \/ ~(gpio[p].exported /\ gpio[p].dir = "out") /\ UNCHANGED gpio
         \/ "value" \in RefusedWrites /\ UNCHANGED gpio
      /\ Abandon(t, ret[t])
      /\ UNCHANGED gpioDev

GpioRead(t, h) ==
  /\ \/ Immediate(t, MCUPR_RES_IO_ERROR)
     \/ EnterOpening(t, Call("gpio_read", h[1], None), ValueNode(h[1]), "gpio_value_read")
  /\ UNCHANGED gpioVars

(* An output reads back the level it drives, an input what is on the wire. *)
GpioValueRead(t) ==
  LET pin == gpio[call[t].obj]
  IN  /\ pc[t] = "gpio_value_read"
      /\ \/ \E level \in {0, 1} :
              (pin.dir = "out" => level = pin.level) /\ Abandon(t, level)
         \/ Abandon(t, MCUPR_RES_IO_ERROR)
      /\ UNCHANGED gpioVars

GpioStep(t) ==
  \/ GpioChipCreate(t)
  \/ \E use \in GpioUses : GpioOpen(t, use[1], use[2])
  \/ GpioExport(t) \/ GpioStat(t) \/ GpioDirOpen(t) \/ GpioDirWrite(t)
  \/ \E h \in gpioDev :
       \/ GpioClose(t, h) \/ GpioRead(t, h)
       \/ \E value \in GpioValues : GpioWrite(t, h, value)
  \/ GpioValueWrite(t) \/ GpioValueRead(t)

-----------------------------------------------------------------------------

(* While clients agree on the direction of each pin and the kernel takes   *)
(* the writes to "direction", every open GPIO device is an exported pin    *)
(* with the direction of its mode, however the opens of several threads    *)
(* interleave on it and whatever an earlier process left: "Initialize a    *)
(* GPIO pin" (mcu_peripheral.h:104).  A write that is refused breaks it    *)
(* (impl_linuxdev.c:396, 399).                                             *)
GpioDirectionSet ==
  \A h \in gpioDev :
    /\ gpio[h[1]].exported
    /\ \E use \in GpioUses : use[1] = h[1] /\ gpio[h[1]].dir = Direction(use[2])
=============================================================================
