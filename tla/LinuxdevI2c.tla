----------------------------- MODULE LinuxdevI2c -----------------------------
(***************************************************************************)
(* The I2C API on /dev/i2c-N (src/impl_linuxdev.c).  A bus object holds a  *)
(* bus number; opening a device opens the adapter's node and binds the new *)
(* descriptor to a slave address with ioctl(I2C_SLAVE).                    *)
(***************************************************************************)
EXTENDS LinuxProcess

CONSTANTS
  I2cBuses,     \* the client's mcupr_i2c_bus_t * variables
  I2cBusnums,   \* the params->busnum values clients pass to bus_create
  I2cAdapters,  \* the N for which /dev/i2c-N exists
  I2cAddrs,     \* slave addresses
  MaxI2cLen     \* the longest transfer of the model

ASSUME I2cAssumption ==
  /\ I2cBusnums \subseteq Int /\ I2cAdapters \subseteq Int
  /\ I2cAddrs \subseteq Int /\ MaxI2cLen \in Nat

VARIABLE i2cBus  \* i2cBus[b]: priv->busnum of the bus at pointer b, None if NULL

I2cInit == i2cBus = [b \in I2cBuses |-> None]

I2cNode(b) == <<"/dev/i2c", i2cBus[b]>>

DefaultI2cBus(busnum) == IF busnum = MCUPR_UNSPECIFIED THEN 0 ELSE busnum

I2cBusCreate(t, b) ==
  /\ i2cBus[b] = None
  /\ \E busnum \in I2cBusnums :
       \/ /\ i2cBus' = [i2cBus EXCEPT ![b] = DefaultI2cBus(busnum)]
          /\ Immediate(t, MCUPR_RES_OK)
       \/ /\ Immediate(t, MCUPR_RES_NOMEM)
          /\ UNCHANGED i2cBus

I2cBusRelease(t, b) ==
  /\ pc[t] = "idle"
  /\ i2cBus[b] # None /\ Unused("i2c_open", b)
  /\ i2cBus' = [i2cBus EXCEPT ![b] = None]
  /\ UNCHANGED procVars

I2cOpen(t, b, addr) ==
  /\ \/ i2cBus[b] = None /\ Immediate(t, MCUPR_RES_INVALID_OBJ)
     \/ i2cBus[b] # None /\ Immediate(t, MCUPR_RES_NODEV)
     \/ /\ i2cBus[b] \in I2cAdapters
        /\ EnterOpening(t, Call("i2c_open", b, addr), I2cNode(b), "i2c_slave")
  /\ UNCHANGED i2cBus

(* ioctl(I2C_SLAVE) binds the descriptor, not the adapter, to the address. *)
BindSlave(n, addr) == file' = [file EXCEPT ![n].slave = addr]

(* Faulty variant of I2cSetSlave: the result of the ioctl is not looked at. *)
I2cSetSlaveUnchecked(t) ==
  /\ pc[t] = "i2c_slave"
  /\ BindSlave(fd[t], call[t].arg) \/ UNCHANGED file
  /\ HandOver(t)
  /\ UNCHANGED i2cBus

I2cSetSlave(t) ==
  /\ pc[t] = "i2c_slave"
  /\ \/ BindSlave(fd[t], call[t].arg) /\ HandOver(t)
     \/ Abandon(t, MCUPR_RES_IO_ERROR)
  /\ UNCHANGED i2cBus

(* The handles of bus b that the client holds. *)
I2cDevs(b) == {n \in FDs : dev[n] # None /\ dev[n].op = "i2c_open" /\ dev[n].obj = b}

I2cClose(t, b) ==
  /\ i2cBus[b] # None
  /\ \E n \in I2cDevs(b) : CloseHandle(t, n)
  /\ UNCHANGED i2cBus

(* The client passes a handle of the bus or a negative dev: both may fail. *)
I2cRead(t, b, size) ==
  /\ \/ i2cBus[b] = None /\ Immediate(t, MCUPR_RES_INVALID_OBJ)
     \/ i2cBus[b] # None /\ Immediate(t, MCUPR_RES_IO_ERROR)
     \/ /\ i2cBus[b] # None /\ I2cDevs(b) # {}
        /\ \E count \in 0 .. size : Immediate(t, count)
  /\ UNCHANGED i2cBus

(* The same but for the system call. *)
I2cWrite(t, b, size) == I2cRead(t, b, size)

I2cStep(t) ==
  \/ \E b \in I2cBuses : I2cBusCreate(t, b) \/ I2cBusRelease(t, b)
  \/ \E b \in I2cBuses, addr \in I2cAddrs : I2cOpen(t, b, addr)
  \/ I2cSetSlave(t)
  \/ \E b \in I2cBuses : I2cClose(t, b)
  \/ \E b \in I2cBuses, size \in 0 .. MaxI2cLen : I2cRead(t, b, size) \/ I2cWrite(t, b, size)

-----------------------------------------------------------------------------

I2cHandleBound(n) ==
  dev[n] # None /\ dev[n].op = "i2c_open" =>
    file[n] = [node |-> I2cNode(dev[n].obj), slave |-> dev[n].arg]

(* Every I2C handle the client holds is a descriptor of its own bus's node *)
(* bound to the address it was opened for, so each read and write through  *)
(* it talks to that device, whatever the other threads open and close      *)
(* (mcupr_i2c_open hands out fd only after I2C_SLAVE succeeded).           *)
I2cHandlesBound == \A n \in FDs : I2cHandleBound(n)
=============================================================================
