------------------------------ MODULE Linuxdev ------------------------------
(***************************************************************************)
(* The linuxdev backend: the I2C, SPI and GPIO APIs in one process, on one *)
(* descriptor table, called by several threads.                            *)
(***************************************************************************)
EXTENDS LinuxdevI2c, LinuxdevSpi, LinuxdevGpio

vars == <<procVars, i2cBus, spiVars, gpioVars>>

Init == ProcInit /\ I2cInit /\ SpiInit /\ GpioInit

(* One step of thread t, in any of the three APIs. *)
Step(t) ==
  \/ I2cStep(t)  /\ UNCHANGED <<spiVars, gpioVars>>
  \/ SpiStep(t)  /\ UNCHANGED <<i2cBus, gpioVars>>
  \/ GpioStep(t) /\ UNCHANGED <<i2cBus, spiVars>>

Next == \E t \in Threads : Step(t)

Spec == Init /\ [][Next]_vars

(* A thread inside a call is scheduled again and its system calls return;  *)
(* nothing obliges a thread to make another call.                          *)
FairSpec == Spec /\ \A t \in Threads : WF_vars(pc[t] # "idle" /\ Step(t))

-----------------------------------------------------------------------------

Nodes ==
  {<<"/dev/i2c", n>> : n \in I2cAdapters} \cup {SpiNode(d) : d \in SpiDevices}
    \cup {ExportNode} \cup {DirectionNode(p) : p \in Pins} \cup {ValueNode(p) : p \in Pins}

Files == [node : Nodes, slave : I2cAddrs \cup {None}]

Calls == [op : {"i2c_open", "spi_open", "gpio_open", "gpio_read", "gpio_write"},
          obj : I2cBuses \cup SpiBuses \cup Pins,
          arg : Int \cup {None}]

ASSUME NoneIsNoRecord == None \notin Files /\ None \notin Calls

GpioLabels ==
  {"gpio_export", "gpio_stat", "gpio_dir_open", "gpio_dir_write",
   "gpio_value_write", "gpio_value_read"}

Labels == {"idle", "i2c_slave", "spi_mode", "spi_speed"} \cup GpioLabels

(* The labels at which a call has a descriptor open. *)
Holding == Labels \ {"idle", "gpio_stat", "gpio_dir_open"}

ProcTypeOK ==
  /\ file \in [FDs -> Files \cup {None}]
  /\ dev \in [FDs -> Calls \cup {None}]
  /\ pc \in [Threads -> Labels]
  /\ fd \in [Threads -> FDs \cup {None}]
  /\ call \in [Threads -> Calls \cup {None}]
  /\ ret \in [Threads -> Int \cup {None}]

DeviceTypeOK ==
  /\ i2cBus \in [I2cBuses -> {DefaultI2cBus(n) : n \in I2cBusnums} \cup {None}]
  /\ spiBus \in [SpiBuses -> {BusParams(p) : p \in SpiParams} \cup {None}]
  /\ spidev \in [SpiDevices -> [mode : {ModeByte(p.mode) : p \in SpiParams} \cup {None},
                                speed : {p.speed : p \in SpiParams} \cup {None}]]
  /\ gpio \in [Pins -> PinState]
  /\ gpioDev \subseteq GpioUses

(* The state has the types of the C declarations it stands for.            *)
TypeOK == ProcTypeOK /\ DeviceTypeOK

(* What relates the frame of a running call to the rest of the state: a    *)
(* call holds a descriptor exactly at the labels after its open, that      *)
(* descriptor is open on the node of the bus the call was made on, and     *)
(* that bus stays as long as a call or a handle refers to it.              *)
I2cFrame(t) ==
  pc[t] = "i2c_slave" =>
    /\ call[t].op = "i2c_open" /\ call[t].obj \in I2cBuses /\ call[t].arg \in I2cAddrs
    /\ i2cBus[call[t].obj] # None
    /\ file[fd[t]] = [node |-> I2cNode(call[t].obj), slave |-> None]

SpiFrame(t) ==
  pc[t] \in {"spi_mode", "spi_speed"} =>
    /\ call[t].op = "spi_open" /\ call[t].obj \in SpiBuses /\ call[t].arg \in SpiSelects
    /\ spiBus[call[t].obj] # None
    /\ SpiDevice(call[t].obj, call[t].arg) \in SpiDevices
    /\ file[fd[t]].node = SpiNode(SpiDevice(call[t].obj, call[t].arg))

GpioFrame(t) ==
  pc[t] \in GpioLabels =>
    /\ call[t].op \in {"gpio_open", "gpio_read", "gpio_write"} /\ call[t].obj \in Pins
    /\ pc[t] \notin {"gpio_value_read", "gpio_value_write"} =>
         call[t].op = "gpio_open" /\ <<call[t].obj, call[t].arg>> \in GpioUses
    /\ pc[t] = "gpio_value_write" => call[t].arg \in GpioValues

Frame(t) ==
  /\ fd[t] # None <=> pc[t] \in Holding
  /\ call[t] # None <=> pc[t] # "idle"
  /\ I2cFrame(t) /\ SpiFrame(t) /\ GpioFrame(t)

Frames == \A t \in Threads : Frame(t)

HandleOK(n) ==
  dev[n] # None =>
    \/ dev[n].op = "i2c_open" /\ dev[n].obj \in I2cBuses /\ i2cBus[dev[n].obj] # None
    \/ dev[n].op = "spi_open" /\ dev[n].obj \in SpiBuses /\ spiBus[dev[n].obj] # None

Handles == \A n \in FDs : HandleOK(n)

(* The inductive invariant of the descriptor discipline. *)
IInv ==
  /\ TypeOK /\ Frames /\ Handles
  /\ NoDescriptorLeak /\ SingleOwner /\ I2cHandlesBound

(* The I2C devices the client holds, by what the kernel has behind each    *)
(* descriptor: the number of the node it is open on and the slave address  *)
(* it is bound to.                                                         *)
I2cOpened ==
  {[bus |-> dev[n].obj, dev |-> n, node |-> file[n].node[2], addr |-> file[n].slave] :
     n \in {m \in FDs : dev[m] # None /\ dev[m].op = "i2c_open"}}

I2cApi == INSTANCE I2cApi WITH
  Buses <- I2cBuses, Busnums <- {DefaultI2cBus(n) : n \in I2cBusnums}, Addrs <- I2cAddrs,
  Handles <- FDs, Sizes <- {}, bus <- i2cBus, opened <- I2cOpened, done <- None

(* The several system calls of mcupr_i2c_open are one atomic open for the  *)
(* client, and its handles lead where the API promises, whatever the other *)
(* threads do in the three APIs (impl_linuxdev.c).  The transfers of this  *)
(* backend are not compared: the model does not follow their bytes.        *)
ImplementsI2cApi == I2cApi!Spec

(* What a call holds between two of its system calls, and what the client  *)
(* holds, is disturbed by nobody: a descriptor stays open on what its      *)
(* owner opened and bound it to, and a handle stays the one that the open  *)
(* returned, until the owner itself closes it.  An error path that closed  *)
(* a descriptor it had handed out, or closed one twice, would let another  *)
(* thread's open get it and the client's close then take it away.          *)
OwnersUndisturbed ==
  [][/\ \A t \in Threads : fd[t] # None /\ fd'[t] = fd[t] => file'[fd[t]] = file[fd[t]]
     /\ \A n \in FDs : dev[n] # None /\ dev'[n] # None =>
          dev'[n] = dev[n] /\ file'[n] = file[n]]_vars

(* The system calls a call makes at most, from each label on. *)
ToReturn ==
  [label \in Labels |->
     CASE label = "idle" -> 0
       [] label \in {"i2c_slave", "spi_speed", "gpio_dir_write", "gpio_value_write",
                     "gpio_value_read"} -> 1
       [] label \in {"spi_mode", "gpio_dir_open"} -> 2
       [] label = "gpio_stat" -> 3
       [] label = "gpio_export" -> 4]

(* Every step of a call leaves fewer system calls to be made: none of them *)
(* is made again after a failure, whichever the kernel refuses and         *)
(* whatever the other threads do in between.                               *)
CallsAdvance ==
  [][\A t \in Threads : pc[t] # "idle" /\ Step(t) => ToReturn[pc'[t]] < ToReturn[pc[t]]]_vars

(* Every call returns, whatever the kernel refuses, whether or not the     *)
(* descriptors have run out, and whatever the other threads do: nothing in *)
(* the backend waits or retries.                                           *)
CallsReturn == \A t \in Threads : pc[t] # "idle" ~> pc[t] = "idle"
=============================================================================
