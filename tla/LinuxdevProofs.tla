---------------------------- MODULE LinuxdevProofs ----------------------------
(***************************************************************************)
(* The descriptor discipline of the linuxdev backend, for every number of  *)
(* threads, descriptors, buses and pins: IInv is an inductive invariant of *)
(* Spec.  The steps of the backend are few: a call that opens nothing,     *)
(* one that opens a descriptor, one that gives its descriptor up, one that *)
(* hands it to the client, and the client closing a handle.  Each has a    *)
(* lemma, and the step of every handler follows from the one it is.  The   *)
(* later sections build on IInv: the settings of SPI devices, the          *)
(* directions of pins, the refinement of the I2C API, and what one step    *)
(* does to the calls and handles of others.                                *)
(***************************************************************************)
EXTENDS Linuxdev, TLAPS

(* What IInv says apart from the types of the buses, devices and pins. *)
Discipline ==
  /\ ProcTypeOK /\ Frames /\ Handles
  /\ NoDescriptorLeak /\ SingleOwner /\ I2cHandlesBound

(* No bus changes under a call or a handle that refers to it. *)
BusesInUseStay ==
  /\ \A b \in I2cBuses : Unused("i2c_open", b) \/ i2cBus'[b] = i2cBus[b]
  /\ \A b \in SpiBuses : Unused("spi_open", b) \/ spiBus'[b] = spiBus[b]

LEMMA IInvIsDiscipline == IInv <=> Discipline /\ DeviceTypeOK
BY DEF IInv, Discipline, TypeOK

(* The frame of a call does not depend on what happens to other threads,   *)
(* other descriptors and buses that are not in use.                        *)
LEMMA FrameKept ==
  ASSUME Discipline, BusesInUseStay, NEW u \in Threads,
         pc'[u] = pc[u], call'[u] = call[u], fd'[u] = fd[u],
         fd[u] # None => file'[fd[u]] = file[fd[u]]
  PROVE  Frame(u)'
<1>1. Frame(u)
  BY DEF Discipline, Frames
<1>2. fd'[u] # None <=> pc'[u] \in Holding
  BY <1>1 DEF Frame, Holding
<1>3. call'[u] # None <=> pc'[u] # "idle"
  BY <1>1 DEF Frame
<1>4. I2cFrame(u)'
  <2> SUFFICES ASSUME pc[u] = "i2c_slave" PROVE I2cFrame(u)'
    BY DEF I2cFrame
  <2>1. i2cBus'[call[u].obj] = i2cBus[call[u].obj]
    BY <1>1 DEF Frame, I2cFrame, BusesInUseStay, Unused
  <2>2. fd[u] # None
    BY <1>1 DEF Frame, Holding, Labels, GpioLabels
  <2> QED
    BY <1>1, <2>1, <2>2 DEF Frame, I2cFrame, I2cNode
<1>5. SpiFrame(u)'
  <2> SUFFICES ASSUME pc[u] \in {"spi_mode", "spi_speed"} PROVE SpiFrame(u)'
    BY DEF SpiFrame
  <2>1. spiBus'[call[u].obj] = spiBus[call[u].obj]
    BY <1>1 DEF Frame, SpiFrame, BusesInUseStay, Unused
  <2>2. fd[u] # None
    BY <1>1 DEF Frame, Holding, Labels, GpioLabels
  <2> QED
    BY <1>1, <2>1, <2>2 DEF Frame, SpiFrame, SpiDevice
<1>6. GpioFrame(u)'
  BY <1>1 DEF Frame, GpioFrame
<1> QED
  BY <1>2, <1>3, <1>4, <1>5, <1>6 DEF Frame

(* A handle whose descriptor nobody touches keeps what it is bound to.     *)
LEMMA HandleKept ==
  ASSUME Discipline, BusesInUseStay, NEW n \in FDs,
         dev'[n] = dev[n], file'[n] = file[n]
  PROVE  HandleOK(n)' /\ I2cHandleBound(n)'
<1>1. HandleOK(n) /\ I2cHandleBound(n)
  BY DEF Discipline, Handles, I2cHandlesBound, I2cHandleBound
<1>2. CASE dev[n] = None
  BY <1>2 DEF HandleOK, I2cHandleBound
<1>3. CASE dev[n] # None /\ dev[n].op = "i2c_open"
  <2>1. i2cBus'[dev[n].obj] = i2cBus[dev[n].obj]
    BY <1>1, <1>3 DEF HandleOK, BusesInUseStay, Unused
  <2> QED
    BY <1>1, <1>3, <2>1 DEF HandleOK, I2cHandleBound, I2cNode
<1>4. CASE dev[n] # None /\ dev[n].op # "i2c_open"
  <2>1. spiBus'[dev[n].obj] = spiBus[dev[n].obj]
    BY <1>1, <1>4 DEF HandleOK, BusesInUseStay, Unused
  <2> QED
    BY <1>1, <1>4, <2>1 DEF HandleOK, I2cHandleBound
<1> QED
  BY <1>2, <1>3, <1>4

(* A call that holds no descriptor returns.                                *)
LEMMA ReturnKeeps ==
  ASSUME Discipline, BusesInUseStay, NEW t \in Threads, pc[t] \notin Holding,
         NEW r \in Int \cup {None}, Return(t, r), UNCHANGED <<file, dev, fd>>
  PROVE  Discipline'
<1> USE DEF Discipline, Return, Goto
<1>1. ProcTypeOK'
  BY DEF ProcTypeOK, Labels
<1>2. Frames'
  <2> SUFFICES ASSUME NEW u \in Threads PROVE Frame(u)'
    BY DEF Frames
  <2>1. CASE u = t
    BY <2>1 DEF ProcTypeOK, Frames, Frame, I2cFrame, SpiFrame, GpioFrame, Holding, Labels, GpioLabels
  <2>2. CASE u # t
    BY <2>2, FrameKept DEF ProcTypeOK
  <2> QED
    BY <2>1, <2>2
<1>3. Handles' /\ I2cHandlesBound'
  BY HandleKept DEF Handles, I2cHandlesBound, I2cHandleBound
<1>4. NoDescriptorLeak' /\ SingleOwner'
  BY DEF NoDescriptorLeak, SingleOwner
<1> QED
  BY <1>1, <1>2, <1>3, <1>4

(* Nothing happens to the process; a bus that is not in use may change.    *)
LEMMA StutterKeeps ==
  ASSUME Discipline, BusesInUseStay, UNCHANGED procVars
  PROVE  Discipline'
<1> USE DEF Discipline, procVars
<1>1. ProcTypeOK'
  BY DEF ProcTypeOK
<1>2. Frames'
  BY FrameKept DEF Frames
<1>3. Handles' /\ I2cHandlesBound'
  BY HandleKept DEF Handles, I2cHandlesBound
<1>4. NoDescriptorLeak' /\ SingleOwner'
  BY DEF NoDescriptorLeak, SingleOwner
<1> QED
  BY <1>1, <1>2, <1>3, <1>4

(* A call that opens nothing leaves the discipline as it is.               *)
LEMMA ImmediateKeeps ==
  ASSUME Discipline, BusesInUseStay, NEW t \in Threads,
         NEW r \in Int \cup {None}, Immediate(t, r)
  PROVE  Discipline'
BY ReturnKeeps DEF Immediate, Holding

(* A call goes on to its next system call with the descriptor it has.      *)
LEMMA ProceedKeeps ==
  ASSUME Discipline, BusesInUseStay, NEW t \in Threads, NEW label \in Labels,
         Proceed(t, label), UNCHANGED <<file, dev, fd>>, Frame(t)'
  PROVE  Discipline'
<1> USE DEF Discipline, Proceed, Goto
<1>1. ProcTypeOK'
  BY DEF ProcTypeOK
<1>2. Frames'
  BY FrameKept DEF ProcTypeOK, Frames
<1>3. Handles' /\ I2cHandlesBound'
  BY HandleKept DEF Handles, I2cHandlesBound
<1>4. NoDescriptorLeak' /\ SingleOwner'
  BY DEF NoDescriptorLeak, SingleOwner
<1> QED
  BY <1>1, <1>2, <1>3, <1>4

(* open(2) picks a descriptor that no frame and no handle holds, so what   *)
(* the other threads and the client hold is untouched.                     *)
LEMMA OpenKeeps ==
  ASSUME Discipline, BusesInUseStay, NEW t \in Threads, pc[t] \notin Holding,
         NEW c \in Calls, call' = [call EXCEPT ![t] = c],
         NEW node \in Nodes, SysOpen(t, node),
         NEW label \in Holding, Goto(t, label), UNCHANGED <<dev, ret>>,
         I2cFrame(t)', SpiFrame(t)', GpioFrame(t)'
  PROVE  Discipline'
<1> USE DEF Discipline, Goto
<1>1. PICK n \in FDs :
        /\ file[n] = None
        /\ file' = [file EXCEPT ![n] = [node |-> node, slave |-> None]]
        /\ fd' = [fd EXCEPT ![t] = n]
  BY DEF SysOpen
<1>2. [node |-> node, slave |-> None] \in Files
  BY DEF Files
<1>3. ProcTypeOK'
  BY <1>1, <1>2 DEF ProcTypeOK, Holding
<1>4. /\ fd[t] = None
      /\ \A u \in Threads : fd[u] # n
      /\ dev[n] = None
  <2>1. fd[t] = None
    BY DEF Frames, Frame, Holding
  <2> QED
    BY <1>1, <2>1, NoneAssumption DEF SingleOwner
<1>5. Frames'
  <2> SUFFICES ASSUME NEW u \in Threads PROVE Frame(u)'
    BY DEF Frames
  <2>1. CASE u = t
    BY <1>1, <2>1, NoneAssumption, NoneIsNoRecord DEF ProcTypeOK, Frame, Holding
  <2>2. CASE u # t
    BY <1>1, <1>4, <2>2, FrameKept DEF ProcTypeOK
  <2> QED
    BY <2>1, <2>2
<1>6. Handles' /\ I2cHandlesBound'
  <2> SUFFICES ASSUME NEW m \in FDs PROVE HandleOK(m)' /\ I2cHandleBound(m)'
    BY DEF Handles, I2cHandlesBound
  <2>1. CASE m = n
    BY <1>4, <2>1 DEF HandleOK, I2cHandleBound
  <2>2. CASE m # n
    BY <1>1, <2>2, HandleKept DEF ProcTypeOK
  <2> QED
    BY <2>1, <2>2
<1>7. NoDescriptorLeak'
  BY <1>1, <1>4, NoneAssumption DEF NoDescriptorLeak, ProcTypeOK
<1>8. SingleOwner'
  BY <1>1, <1>2, <1>4, NoneIsNoRecord DEF SingleOwner, ProcTypeOK
<1> QED
  BY <1>3, <1>5, <1>6, <1>7, <1>8

(* A thread at a label after its open holds a descriptor that is open and  *)
(* that no other thread and no handle holds.                               *)
LEMMA HoldsOwn ==
  ASSUME Discipline, NEW t \in Threads, pc[t] \in Holding
  PROVE  /\ fd[t] \in FDs /\ file[fd[t]] \in Files /\ dev[fd[t]] = None
         /\ call[t] \in Calls
         /\ \A u \in Threads \ {t} : fd[u] # fd[t]
<1>1. fd[t] # None /\ call[t] # None
  BY DEF Discipline, Frames, Frame, Holding
<1> QED
  BY <1>1 DEF Discipline, SingleOwner, ProcTypeOK

(* A call closes the descriptor it opened.                                 *)
LEMMA SysCloseKeeps ==
  ASSUME Discipline, BusesInUseStay, NEW t \in Threads, pc[t] \in Holding,
         SysClose(t), UNCHANGED dev, ProcTypeOK', Frame(t)',
         \A u \in Threads \ {t} : pc'[u] = pc[u] /\ call'[u] = call[u]
  PROVE  Discipline'
<1> USE DEF Discipline, SysClose
<1>1. /\ fd[t] \in FDs /\ dev[fd[t]] = None
      /\ \A u \in Threads \ {t} : fd[u] # fd[t]
  BY HoldsOwn
<1>2. Frames'
  BY <1>1, FrameKept DEF ProcTypeOK, Frames
<1>3. Handles' /\ I2cHandlesBound'
  <2> SUFFICES ASSUME NEW m \in FDs PROVE HandleOK(m)' /\ I2cHandleBound(m)'
    BY DEF Handles, I2cHandlesBound
  <2>1. CASE m = fd[t]
    BY <1>1, <2>1 DEF HandleOK, I2cHandleBound
  <2>2. CASE m # fd[t]
    BY <2>2, HandleKept DEF ProcTypeOK
  <2> QED
    BY <2>1, <2>2
<1>4. NoDescriptorLeak' /\ SingleOwner'
  BY <1>1 DEF NoDescriptorLeak, SingleOwner, ProcTypeOK
<1> QED
  BY <1>2, <1>3, <1>4

(* Closing the descriptor of a call before it returns keeps the discipline. *)
LEMMA AbandonKeeps ==
  ASSUME Discipline, BusesInUseStay, NEW t \in Threads, pc[t] \in Holding,
         NEW r \in Int \cup {None}, Abandon(t, r)
  PROVE  Discipline'
<1> USE DEF Discipline, Abandon, SysClose, Return, Goto
<1>1. ProcTypeOK'
  BY HoldsOwn DEF ProcTypeOK, Labels
<1>2. Frame(t)'
  BY DEF ProcTypeOK, Frame, I2cFrame, SpiFrame, GpioFrame, Holding, Labels, GpioLabels
<1> QED
  BY <1>1, <1>2, SysCloseKeeps DEF ProcTypeOK

(* The descriptor of a call becomes a handle of the client.  The call may  *)
(* have changed what its own descriptor is bound to on the way.            *)
LEMMA HandOverKeeps ==
  ASSUME Discipline, BusesInUseStay, NEW t \in Threads, pc[t] \in Holding,
         NEW f \in Files, file' = [file EXCEPT ![fd[t]] = f], HandOver(t),
         \A n \in FDs : n = fd[t] => HandleOK(n)' /\ I2cHandleBound(n)'
  PROVE  Discipline'
<1> USE DEF Discipline, HandOver, Return, Goto
<1>1. /\ fd[t] \in FDs /\ dev[fd[t]] = None /\ call[t] \in Calls
      /\ \A u \in Threads \ {t} : fd[u] # fd[t]
  BY HoldsOwn
<1>2. ProcTypeOK'
  BY <1>1 DEF ProcTypeOK, Labels, MCUPR_RES_OK
<1>3. Frames'
  <2> SUFFICES ASSUME NEW u \in Threads PROVE Frame(u)'
    BY DEF Frames
  <2>1. CASE u = t
    BY <2>1 DEF ProcTypeOK, Frame, I2cFrame, SpiFrame, GpioFrame, Holding, Labels, GpioLabels
  <2>2. CASE u # t
    BY <1>1, <2>2, FrameKept DEF ProcTypeOK
  <2> QED
    BY <2>1, <2>2
<1>4. Handles' /\ I2cHandlesBound'
  <2> SUFFICES ASSUME NEW m \in FDs PROVE HandleOK(m)' /\ I2cHandleBound(m)'
    BY DEF Handles, I2cHandlesBound
  <2>1. CASE m = fd[t]
    BY <1>1, <2>1 DEF ProcTypeOK
  <2>2. CASE m # fd[t]
    BY <2>2, HandleKept DEF ProcTypeOK
  <2> QED
    BY <2>1, <2>2
<1>5. NoDescriptorLeak'
  BY <1>1, NoneIsNoRecord DEF NoDescriptorLeak, ProcTypeOK
<1>6. SingleOwner'
  BY <1>1, NoneIsNoRecord DEF SingleOwner, ProcTypeOK
<1> QED
  BY <1>2, <1>3, <1>4, <1>5, <1>6

(* The client closes a handle: no frame holds its descriptor.              *)
LEMMA CloseKeeps ==
  ASSUME Discipline, BusesInUseStay, NEW t \in Threads, NEW n \in FDs,
         dev[n] # None, CloseHandle(t, n)
  PROVE  Discipline'
<1> USE DEF Discipline, CloseHandle
<1>1. \A u \in Threads : fd[u] # n
  BY NoneAssumption DEF SingleOwner
<1>2. ProcTypeOK'
  BY DEF ProcTypeOK
<1>3. Frames'
  BY <1>1, FrameKept DEF Frames, ProcTypeOK
<1>4. Handles' /\ I2cHandlesBound'
  <2> SUFFICES ASSUME NEW m \in FDs PROVE HandleOK(m)' /\ I2cHandleBound(m)'
    BY DEF Handles, I2cHandlesBound
  <2>1. CASE m = n
    BY <2>1 DEF HandleOK, I2cHandleBound, ProcTypeOK
  <2>2. CASE m # n
    BY <2>2, HandleKept DEF ProcTypeOK
  <2> QED
    BY <2>1, <2>2
<1>5. NoDescriptorLeak' /\ SingleOwner'
  BY <1>1 DEF NoDescriptorLeak, SingleOwner, ProcTypeOK
<1> QED
  BY <1>2, <1>3, <1>4, <1>5

-----------------------------------------------------------------------------

(* The initial state.                                                      *)
LEMMA InitIInv == Init => IInv
<1> SUFFICES ASSUME Init PROVE IInv
  OBVIOUS
<1> USE DEF Init, ProcInit, I2cInit, SpiInit, GpioInit
<1>1. TypeOK
  BY DEF TypeOK, ProcTypeOK, DeviceTypeOK, PinState, Labels
<1>2. Frames
  BY DEF Frames, Frame, I2cFrame, SpiFrame, GpioFrame, Holding, Labels, GpioLabels
<1>3. Handles /\ I2cHandlesBound
  BY DEF Handles, HandleOK, I2cHandlesBound, I2cHandleBound
<1>4. NoDescriptorLeak /\ SingleOwner
  BY DEF NoDescriptorLeak, SingleOwner
<1> QED
  BY <1>1, <1>2, <1>3, <1>4 DEF IInv

(* A bus that is NULL is not in use.                                       *)
LEMMA NullBusUnused ==
  ASSUME Discipline
  PROVE  /\ \A b \in I2cBuses : i2cBus[b] = None => Unused("i2c_open", b)
         /\ \A b \in SpiBuses : spiBus[b] = None => Unused("spi_open", b)
<1> USE DEF Discipline, Frames, Frame, Handles, HandleOK, Unused
<1>1. \A t \in Threads : pc[t] # "idle" =>
        \/ call[t].op = "i2c_open" /\ i2cBus[call[t].obj] # None
        \/ call[t].op = "spi_open" /\ spiBus[call[t].obj] # None
        \/ call[t].op \notin {"i2c_open", "spi_open"}
  BY DEF ProcTypeOK, Labels, GpioLabels, I2cFrame, SpiFrame, GpioFrame
<1> QED
  BY <1>1

(* Every step of the I2C half. *)
LEMMA I2cStepKeeps ==
  ASSUME IInv, NEW t \in Threads, I2cStep(t), UNCHANGED <<spiVars, gpioVars>>
  PROVE  IInv'
<1> USE DEF spiVars, gpioVars
<1>1. Discipline /\ DeviceTypeOK
  BY IInvIsDiscipline
<1>2. SUFFICES Discipline' /\ DeviceTypeOK'
  BY DEF IInv, Discipline, TypeOK
<1>3. UNCHANGED i2cBus => BusesInUseStay /\ DeviceTypeOK'
  BY <1>1 DEF BusesInUseStay, DeviceTypeOK
<1>4. ASSUME NEW b \in I2cBuses, I2cBusCreate(t, b) PROVE Discipline' /\ DeviceTypeOK'
  <2>1. BusesInUseStay
    BY <1>1, <1>4, NullBusUnused DEF BusesInUseStay, I2cBusCreate, DeviceTypeOK
  <2>2. DeviceTypeOK'
    BY <1>1, <1>4 DEF I2cBusCreate, DeviceTypeOK
  <2> QED
    BY <1>1, <1>4, <2>1, <2>2, ImmediateKeeps DEF I2cBusCreate, MCUPR_RES_OK, MCUPR_RES_NOMEM
<1>5. ASSUME NEW b \in I2cBuses, I2cBusRelease(t, b) PROVE Discipline' /\ DeviceTypeOK'
  <2>1. BusesInUseStay
    BY <1>1, <1>5 DEF BusesInUseStay, I2cBusRelease, DeviceTypeOK
  <2>2. DeviceTypeOK'
    BY <1>1, <1>5 DEF I2cBusRelease, DeviceTypeOK
  <2> QED
    BY <1>1, <1>5, <2>1, <2>2, StutterKeeps DEF I2cBusRelease
<1>6. ASSUME NEW b \in I2cBuses, NEW addr \in I2cAddrs, I2cOpen(t, b, addr)
      PROVE  Discipline' /\ DeviceTypeOK'
  <2>1. BusesInUseStay /\ DeviceTypeOK'
    BY <1>3, <1>6 DEF I2cOpen
  <2>2. ASSUME NEW r \in Int, Immediate(t, r) PROVE Discipline'
    BY <1>1, <2>1, <2>2, ImmediateKeeps
  <2>3. ASSUME i2cBus[b] \in I2cAdapters, i2cBus[b] # None,
               EnterOpening(t, Call("i2c_open", b, addr), I2cNode(b), "i2c_slave")
        PROVE  Discipline'
    <3> DEFINE c == Call("i2c_open", b, addr)
    <3>1. c \in Calls /\ c.op = "i2c_open" /\ c.obj = b /\ c.arg = addr
      BY I2cAssumption DEF Call, Calls
    <3>2. I2cNode(b) \in Nodes
      BY <2>3 DEF I2cNode, Nodes
    <3>3. call'[t] = c /\ pc'[t] = "i2c_slave" /\ UNCHANGED i2cBus
      BY <1>1, <1>6, <2>3 DEF EnterOpening, Goto, Discipline, ProcTypeOK, I2cOpen
    <3>4. file'[fd'[t]] = [node |-> I2cNode(b), slave |-> None]
      BY <1>1, <2>3 DEF EnterOpening, SysOpen, Discipline, ProcTypeOK
    <3>5. I2cFrame(t)' /\ SpiFrame(t)' /\ GpioFrame(t)'
      BY <2>3, <3>1, <3>3, <3>4 DEF I2cFrame, SpiFrame, GpioFrame, GpioLabels, I2cNode
    <3> HIDE DEF c
    <3>6. EnterOpening(t, c, I2cNode(b), "i2c_slave")
      BY <2>3 DEF c
    <3> QED
      BY <1>1, <2>1, <3>1, <3>2, <3>5, <3>6, OpenKeeps DEF EnterOpening, Holding, Labels
  <2>4. i2cBus[b] \in I2cAdapters => i2cBus[b] # None
    BY I2cAssumption, NoneAssumption
  <2> QED
    BY <1>6, <2>1, <2>2, <2>3, <2>4
       DEF I2cOpen, MCUPR_RES_INVALID_OBJ, MCUPR_RES_NODEV
<1>7. ASSUME I2cSetSlave(t) PROVE Discipline' /\ DeviceTypeOK'
  <2>1. BusesInUseStay /\ DeviceTypeOK' /\ pc[t] = "i2c_slave" /\ pc[t] \in Holding
    BY <1>3, <1>7 DEF I2cSetSlave, Holding, Labels
  <2>2. I2cFrame(t) /\ fd[t] \in FDs /\ file[fd[t]] \in Files /\ call[t] \in Calls
    BY <1>1, <2>1, HoldsOwn DEF Discipline, Frames, Frame
  <2>3. ASSUME BindSlave(fd[t], call[t].arg), HandOver(t) PROVE Discipline'
    <3> DEFINE f == [file[fd[t]] EXCEPT !.slave = call[t].arg]
    <3>1. f \in Files
      BY <2>1, <2>2 DEF Files, I2cFrame
    <3>2. file' = [file EXCEPT ![fd[t]] = f]
      BY <2>3 DEF BindSlave
    <3>3. file'[fd[t]] = [node |-> I2cNode(call[t].obj), slave |-> call[t].arg]
      BY <1>1, <2>1, <2>2, <3>2 DEF I2cFrame, Discipline, ProcTypeOK
    <3>4. dev'[fd[t]] = call[t] /\ UNCHANGED i2cBus
      BY <1>1, <1>7, <2>2, <2>3 DEF HandOver, Discipline, ProcTypeOK, I2cSetSlave
    <3>5. ASSUME NEW n \in FDs, n = fd[t] PROVE HandleOK(n)' /\ I2cHandleBound(n)'
      BY <3>5, <2>1, <2>2, <3>3, <3>4 DEF HandleOK, I2cHandleBound, I2cFrame, I2cNode
    <3> QED
      BY <1>1, <2>1, <2>3, <3>1, <3>2, <3>5, HandOverKeeps
  <2> QED
    BY <1>1, <1>7, <2>1, <2>3, AbandonKeeps DEF I2cSetSlave, MCUPR_RES_IO_ERROR
<1>8. ASSUME NEW b \in I2cBuses, I2cClose(t, b) PROVE Discipline' /\ DeviceTypeOK'
  BY <1>1, <1>3, <1>8, CloseKeeps DEF I2cClose, I2cDevs
<1>9. ASSUME NEW b \in I2cBuses, NEW size \in 0 .. MaxI2cLen, I2cRead(t, b, size)
      PROVE  Discipline' /\ DeviceTypeOK'
  <2>1. BusesInUseStay /\ DeviceTypeOK'
    BY <1>3, <1>9 DEF I2cRead
  <2>2. \E r \in Int : Immediate(t, r)
    BY <1>9, I2cAssumption DEF I2cRead, MCUPR_RES_INVALID_OBJ, MCUPR_RES_IO_ERROR
  <2> QED
    BY <1>1, <2>1, <2>2, ImmediateKeeps
<1> QED
  BY <1>4, <1>5, <1>6, <1>7, <1>8, <1>9 DEF I2cStep, I2cWrite

(* Every step of the SPI half. *)
LEMMA SpiStepKeeps ==
  ASSUME IInv, NEW t \in Threads, SpiStep(t), UNCHANGED <<i2cBus, gpioVars>>
  PROVE  IInv'
<1> USE DEF spiVars, gpioVars
<1>1. Discipline /\ DeviceTypeOK
  BY IInvIsDiscipline
<1>2. SUFFICES Discipline' /\ DeviceTypeOK'
  BY DEF IInv, Discipline, TypeOK
<1>3. UNCHANGED spiBus => BusesInUseStay
  BY DEF BusesInUseStay
<1>4. UNCHANGED spiVars => DeviceTypeOK'
  BY <1>1 DEF DeviceTypeOK
<1>5. ASSUME NEW b \in SpiBuses, SpiBusCreate(t, b) PROVE Discipline' /\ DeviceTypeOK'
  <2>1. BusesInUseStay
    BY <1>1, <1>5, NullBusUnused DEF BusesInUseStay, SpiBusCreate, DeviceTypeOK
  <2>2. DeviceTypeOK'
    BY <1>1, <1>5 DEF SpiBusCreate, DeviceTypeOK
  <2> QED
    BY <1>1, <1>5, <2>1, <2>2, ImmediateKeeps DEF SpiBusCreate, MCUPR_RES_OK, MCUPR_RES_NOMEM
<1>6. ASSUME NEW b \in SpiBuses, SpiBusRelease(t, b) PROVE Discipline' /\ DeviceTypeOK'
  <2>1. BusesInUseStay
    BY <1>1, <1>6 DEF BusesInUseStay, SpiBusRelease, DeviceTypeOK
  <2>2. DeviceTypeOK'
    BY <1>1, <1>6 DEF SpiBusRelease, DeviceTypeOK
  <2> QED
    BY <1>1, <1>6, <2>1, <2>2, StutterKeeps DEF SpiBusRelease
<1>7. ASSUME NEW b \in SpiBuses, NEW csnum \in SpiSelects, SpiOpen(t, b, csnum)
      PROVE  Discipline' /\ DeviceTypeOK'
  <2> DEFINE d == SpiDevice(b, csnum)
  <2>1. BusesInUseStay /\ DeviceTypeOK' /\ UNCHANGED spiVars /\ spiBus[b] # None
    BY <1>3, <1>4, <1>7 DEF SpiOpen
  <2>2. ASSUME Immediate(t, MCUPR_RES_IO_ERROR) PROVE Discipline'
    BY <1>1, <2>1, <2>2, ImmediateKeeps DEF MCUPR_RES_IO_ERROR
  <2>3. ASSUME d \in SpiDevices,
               EnterOpening(t, Call("spi_open", b, csnum), SpiNode(d), "spi_mode")
        PROVE  Discipline'
    <3> DEFINE c == Call("spi_open", b, csnum)
    <3>1. c \in Calls /\ c.op = "spi_open" /\ c.obj = b /\ c.arg = csnum
      BY SpiAssumption DEF Call, Calls
    <3>2. SpiNode(d) \in Nodes
      BY <2>3 DEF Nodes
    <3>3. call'[t] = c /\ pc'[t] = "spi_mode"
      BY <1>1, <2>3 DEF EnterOpening, Goto, Discipline, ProcTypeOK
    <3>4. file'[fd'[t]].node = SpiNode(d)
      BY <1>1, <2>3 DEF EnterOpening, SysOpen, Discipline, ProcTypeOK
    <3>5. SpiDevice(b, csnum)' = d
      BY <2>1 DEF SpiDevice
    <3>6. I2cFrame(t)' /\ SpiFrame(t)' /\ GpioFrame(t)'
      <4> HIDE DEF d, c
      <4>1. SpiFrame(t)'
        BY <2>1, <2>3, <3>1, <3>3, <3>4, <3>5 DEF SpiFrame, SpiDevice, SpiNode
      <4> QED
        BY <3>3, <4>1 DEF I2cFrame, GpioFrame, GpioLabels
    <3> HIDE DEF c
    <3>7. EnterOpening(t, c, SpiNode(d), "spi_mode")
      BY <2>3 DEF c
    <3> QED
      BY <1>1, <2>1, <3>1, <3>2, <3>6, <3>7, OpenKeeps DEF EnterOpening, Holding, Labels
  <2> QED
    BY <1>7, <2>1, <2>2, <2>3 DEF SpiOpen
<1>8. ASSUME pc[t] \in {"spi_mode", "spi_speed"}
      PROVE  /\ pc[t] \in Holding /\ SpiFrame(t) /\ Frame(t)
             /\ fd[t] \in FDs /\ file[fd[t]] \in Files /\ call[t] \in Calls
  BY <1>1, <1>8, HoldsOwn DEF Discipline, Frames, Frame, Holding, Labels
<1>9. ASSUME SpiSetMode(t) PROVE Discipline' /\ DeviceTypeOK'
  <2>1. BusesInUseStay /\ pc[t] = "spi_mode" /\ UNCHANGED spiBus
    BY <1>3, <1>9 DEF SpiSetMode
  <2>2. DeviceTypeOK'
    <3>1. PICK p \in SpiParams : spiBus[call[t].obj] = BusParams(p)
      BY <1>1, <1>8, <2>1 DEF SpiFrame, DeviceTypeOK
    <3>2. spiBus[call[t].obj].mode = p.mode
      BY <3>1, SpiAssumption DEF BusParams
    <3>3. CASE UNCHANGED spidev
      BY <1>4, <2>1, <3>3
    <3>4. CASE spidev' = [spidev EXCEPT ![SpiDevice(call[t].obj, call[t].arg)].mode = ModeByte(p.mode)]
      <4>1. spidev' \in [SpiDevices -> [mode : {ModeByte(q.mode) : q \in SpiParams} \cup {None},
                                       speed : {q.speed : q \in SpiParams} \cup {None}]]
        BY <1>1, <3>4 DEF DeviceTypeOK
      <4> QED
        BY <1>1, <2>1, <1>9, <4>1 DEF DeviceTypeOK, SpiSetMode
    <3> QED
      BY <1>9, <3>2, <3>3, <3>4 DEF SpiSetMode, WriteMode
  <2>3. ASSUME Proceed(t, "spi_speed"), UNCHANGED <<file, dev, fd>> PROVE Discipline'
    <3>1. Frame(t)'
      BY <1>1, <1>8, <2>1, <2>3
         DEF Frame, I2cFrame, SpiFrame, GpioFrame, GpioLabels, Holding, Labels, Proceed, Goto,
             Discipline, ProcTypeOK, SpiDevice
    <3> QED
      BY <1>1, <2>1, <2>3, <3>1, ProceedKeeps DEF Labels
  <2> QED
    BY <1>1, <1>8, <1>9, <2>1, <2>2, <2>3, AbandonKeeps DEF SpiSetMode, MCUPR_RES_IO_ERROR
<1>10. ASSUME SpiSetSpeed(t) PROVE Discipline' /\ DeviceTypeOK'
  <2>1. BusesInUseStay /\ pc[t] = "spi_speed" /\ UNCHANGED spiBus
    BY <1>3, <1>10 DEF SpiSetSpeed
  <2>2. DeviceTypeOK'
    <3>1. PICK p \in SpiParams : spiBus[call[t].obj] = BusParams(p)
      BY <1>1, <1>8, <2>1 DEF SpiFrame, DeviceTypeOK
    <3>2. spiBus[call[t].obj].speed = p.speed
      BY <3>1, SpiAssumption DEF BusParams
    <3>3. CASE UNCHANGED spidev
      BY <1>4, <2>1, <3>3
    <3>4. CASE spidev' = [spidev EXCEPT ![SpiDevice(call[t].obj, call[t].arg)].speed = p.speed]
      <4>1. spidev' \in [SpiDevices -> [mode : {ModeByte(q.mode) : q \in SpiParams} \cup {None},
                                       speed : {q.speed : q \in SpiParams} \cup {None}]]
        BY <1>1, <3>4 DEF DeviceTypeOK
      <4> QED
        BY <1>1, <2>1, <1>10, <4>1 DEF DeviceTypeOK, SpiSetSpeed
    <3> QED
      BY <1>10, <3>2, <3>3, <3>4 DEF SpiSetSpeed, WriteSpeed
  <2>3. ASSUME HandOver(t), UNCHANGED file PROVE Discipline'
    <3>1. file' = [file EXCEPT ![fd[t]] = file[fd[t]]]
      BY <1>1, <2>3 DEF Discipline, ProcTypeOK
    <3>2. dev'[fd[t]] = call[t]
      BY <1>1, <1>8, <2>1, <2>3 DEF HandOver, Discipline, ProcTypeOK
    <3>3. ASSUME NEW n \in FDs, n = fd[t] PROVE HandleOK(n)' /\ I2cHandleBound(n)'
      BY <1>8, <2>1, <3>2, <3>3 DEF HandleOK, I2cHandleBound, SpiFrame
    <3> QED
      BY <1>1, <1>8, <2>1, <2>3, <3>1, <3>3, HandOverKeeps
  <2> QED
    BY <1>1, <1>8, <1>10, <2>1, <2>2, <2>3, AbandonKeeps DEF SpiSetSpeed, MCUPR_RES_IO_ERROR
<1>11. ASSUME NEW b \in SpiBuses, SpiClose(t, b) PROVE Discipline' /\ DeviceTypeOK'
  BY <1>1, <1>3, <1>4, <1>11, CloseKeeps DEF SpiClose, SpiDevs
<1>12. ASSUME NEW b \in SpiBuses, NEW length \in SpiLens, SpiTransfer(t, b, length)
       PROVE  Discipline' /\ DeviceTypeOK'
  <2>1. \E r \in Int : Immediate(t, r)
    BY <1>12, SpiAssumption DEF SpiTransfer, MCUPR_RES_IO_ERROR
  <2> QED
    BY <1>1, <1>3, <1>4, <1>12, <2>1, ImmediateKeeps DEF SpiTransfer
<1> QED
  BY <1>5, <1>6, <1>7, <1>9, <1>10, <1>11, <1>12 DEF SpiStep

(* Every step of the GPIO half. *)
LEMMA GpioStepKeeps ==
  ASSUME IInv, NEW t \in Threads, GpioStep(t), UNCHANGED <<i2cBus, spiVars>>
  PROVE  IInv'
<1> USE DEF spiVars, gpioVars
<1>1. Discipline /\ DeviceTypeOK
  BY IInvIsDiscipline
<1>2. SUFFICES Discipline' /\ DeviceTypeOK'
  BY DEF IInv, Discipline, TypeOK
<1>3. BusesInUseStay
  BY DEF BusesInUseStay
<1>4. UNCHANGED gpioVars => DeviceTypeOK'
  BY <1>1 DEF DeviceTypeOK
<1>5. ASSUME NEW c \in Calls, NEW node \in Nodes,
             NEW label \in {"gpio_export", "gpio_value_write", "gpio_value_read"},
             EnterOpening(t, c, node, label),
             c.op = (IF label = "gpio_export" THEN "gpio_open"
                     ELSE IF label = "gpio_value_write" THEN "gpio_write" ELSE "gpio_read"),
             c.obj \in Pins,
             label = "gpio_export" => <<c.obj, c.arg>> \in GpioUses,
             label = "gpio_value_write" => c.arg \in GpioValues
      PROVE  Discipline'
  <2>1. call'[t] = c /\ pc'[t] = label
    BY <1>1, <1>5 DEF EnterOpening, Goto, Discipline, ProcTypeOK
  <2>2. I2cFrame(t)' /\ SpiFrame(t)' /\ GpioFrame(t)'
    BY <1>5, <2>1 DEF I2cFrame, SpiFrame, GpioFrame
  <2>3. label \in Holding /\ pc[t] \notin Holding
    BY <1>5 DEF EnterOpening, Holding, Labels, GpioLabels
  <2> QED
    BY <1>1, <1>3, <1>5, <2>2, <2>3, OpenKeeps DEF EnterOpening
<1>6. pc[t] \in GpioLabels =>
        /\ Frame(t) /\ GpioFrame(t)
        /\ call[t] \in Calls /\ call[t].obj \in Pins
        /\ pc[t] \in Holding => fd[t] \in FDs
  BY <1>1, HoldsOwn DEF Discipline, ProcTypeOK, Frames, Frame, GpioFrame, GpioLabels
<1>7. ASSUME NEW use \in GpioUses, GpioOpen(t, use[1], use[2]) PROVE Discipline' /\ DeviceTypeOK'
  <2>1. ASSUME EnterOpening(t, Call("gpio_open", use[1], use[2]), ExportNode, "gpio_export")
        PROVE  Discipline'
    <3>1. use[1] \in Pins /\ use[2] \in Int /\ use = <<use[1], use[2]>>
      BY GpioAssumption
    <3>2. Call("gpio_open", use[1], use[2]) \in Calls /\ ExportNode \in Nodes
      BY <3>1 DEF Call, Calls, Nodes
    <3> QED
      BY <1>5, <2>1, <3>1, <3>2 DEF Call
  <2> QED
    BY <1>1, <1>3, <1>4, <1>7, <2>1, ImmediateKeeps DEF GpioOpen, MCUPR_RES_IO_ERROR
<1>8. ASSUME GpioExport(t) PROVE Discipline' /\ DeviceTypeOK'
  <2>1. pc[t] = "gpio_export" /\ pc[t] \in GpioLabels /\ pc[t] \in Holding
    BY <1>8 DEF GpioExport, GpioLabels, Holding, Labels
  <2>2. SysClose(t) /\ Proceed(t, "gpio_stat") /\ UNCHANGED dev
    BY <1>8 DEF GpioExport, WriteAndClose
  <2>3. ProcTypeOK'
    BY <1>1, <1>6, <2>1, <2>2
       DEF SysClose, Proceed, Goto, Discipline, ProcTypeOK, Labels, GpioLabels
  <2>4. Frame(t)'
    BY <1>1, <1>6, <2>1, <2>2
       DEF Frame, I2cFrame, SpiFrame, GpioFrame, GpioLabels, Labels, Holding,
           SysClose, Proceed, Goto, Discipline, ProcTypeOK
  <2>5. Discipline'
    BY <1>1, <1>3, <2>1, <2>2, <2>3, <2>4, SysCloseKeeps DEF Proceed, Goto, Discipline, ProcTypeOK
  <2>6. gpio' \in [Pins -> PinState]
    <3>1. [exported |-> TRUE, dir |-> "in", level |-> 0] \in PinState
      BY DEF PinState
    <3> QED
      BY <1>1, <1>8, <3>1 DEF GpioExport, DeviceTypeOK
  <2>7. DeviceTypeOK'
    BY <1>1, <1>8, <2>6 DEF GpioExport, DeviceTypeOK
  <2> QED
    BY <2>5, <2>7
<1>9. ASSUME GpioStat(t) PROVE Discipline' /\ DeviceTypeOK'
  <2>1. pc[t] = "gpio_stat" /\ pc[t] \in GpioLabels /\ pc[t] \notin Holding
    BY <1>9 DEF GpioStat, GpioLabels, Holding
  <2>2. ASSUME Proceed(t, "gpio_dir_open"), UNCHANGED <<file, dev, fd>> PROVE Discipline'
    <3>1. Frame(t)'
      BY <1>1, <1>6, <2>1, <2>2
         DEF Frame, I2cFrame, SpiFrame, GpioFrame, GpioLabels, Holding,
             Proceed, Goto, Discipline, ProcTypeOK
    <3> QED
      BY <1>1, <1>3, <2>2, <3>1, ProceedKeeps DEF Labels, GpioLabels
  <2> QED
    BY <1>1, <1>3, <1>4, <1>9, <2>1, <2>2, ReturnKeeps DEF GpioStat, MCUPR_RES_IO_ERROR
<1>10. ASSUME GpioDirOpen(t) PROVE Discipline' /\ DeviceTypeOK'
  <2>1. pc[t] = "gpio_dir_open" /\ pc[t] \in GpioLabels /\ pc[t] \notin Holding
    BY <1>10 DEF GpioDirOpen, GpioLabels, Holding
  <2>2. ASSUME SysOpen(t, DirectionNode(call[t].obj)), Proceed(t, "gpio_dir_write"), UNCHANGED dev
        PROVE  Discipline'
    <3>1. call' = [call EXCEPT ![t] = call[t]]
      BY <1>1, <2>2 DEF Proceed, Discipline, ProcTypeOK
    <3>2. I2cFrame(t)' /\ SpiFrame(t)' /\ GpioFrame(t)'
      BY <1>1, <1>6, <2>1, <2>2
         DEF I2cFrame, SpiFrame, GpioFrame, GpioLabels, Proceed, Goto, Discipline, ProcTypeOK
    <3>3. DirectionNode(call[t].obj) \in Nodes /\ "gpio_dir_write" \in Holding
      BY <1>6, <2>1 DEF Nodes, Holding, Labels, GpioLabels
    <3> QED
      BY <1>1, <1>3, <1>6, <2>1, <2>2, <3>1, <3>2, <3>3, OpenKeeps DEF Proceed
  <2> QED
    BY <1>1, <1>3, <1>4, <1>10, <2>1, <2>2, ReturnKeeps DEF GpioDirOpen, MCUPR_RES_IO_ERROR
<1>11. ASSUME GpioDirWrite(t) PROVE Discipline' /\ DeviceTypeOK'
  <2>1. pc[t] = "gpio_dir_write" /\ pc[t] \in GpioLabels /\ pc[t] \in Holding
    BY <1>11 DEF GpioDirWrite, GpioLabels, Holding, Labels
  <2>2. gpio' \in [Pins -> PinState]
    <3>1. \A pin \in PinState : \A mode : Direct(pin, mode) \in PinState
      BY DEF PinState, Direct, Direction
    <3> QED
      BY <1>1, <1>6, <1>11, <2>1, <3>1 DEF GpioDirWrite, DeviceTypeOK
  <2>3. DeviceTypeOK'
    BY <1>1, <1>6, <1>11, <2>1, <2>2 DEF GpioDirWrite, DeviceTypeOK, GpioFrame
  <2> QED
    BY <1>1, <1>3, <1>11, <2>1, <2>3, AbandonKeeps DEF GpioDirWrite, MCUPR_RES_OK
<1>12. ASSUME NEW h \in gpioDev PROVE h[1] \in Pins /\ h = <<h[1], h[2]>>
  BY <1>1, GpioAssumption DEF DeviceTypeOK
<1>13. ASSUME NEW h \in gpioDev, GpioClose(t, h) PROVE Discipline' /\ DeviceTypeOK'
  BY <1>1, <1>3, <1>13, StutterKeeps DEF GpioClose, DeviceTypeOK
<1>14. ASSUME NEW h \in gpioDev, GpioRead(t, h) PROVE Discipline' /\ DeviceTypeOK'
  <2>1. ASSUME EnterOpening(t, Call("gpio_read", h[1], None), ValueNode(h[1]), "gpio_value_read")
        PROVE  Discipline'
    <3>1. Call("gpio_read", h[1], None) \in Calls /\ ValueNode(h[1]) \in Nodes
      BY <1>12 DEF Call, Calls, Nodes
    <3> QED
      BY <1>5, <1>12, <2>1, <3>1 DEF Call
  <2> QED
    BY <1>1, <1>3, <1>4, <1>14, <2>1, ImmediateKeeps DEF GpioRead, MCUPR_RES_IO_ERROR
<1>15. ASSUME NEW h \in gpioDev, NEW value \in GpioValues, GpioWrite(t, h, value)
       PROVE  Discipline' /\ DeviceTypeOK'
  <2>1. ASSUME EnterOpening(t, Call("gpio_write", h[1], value), ValueNode(h[1]), "gpio_value_write")
        PROVE  Discipline'
    <3>1. Call("gpio_write", h[1], value) \in Calls /\ ValueNode(h[1]) \in Nodes
      BY <1>12, GpioAssumption DEF Call, Calls, Nodes
    <3> QED
      BY <1>5, <1>12, <2>1, <3>1 DEF Call
  <2>2. ret[t] \in Int \cup {None}
    BY <1>1 DEF Discipline, ProcTypeOK
  <2> QED
    BY <1>1, <1>3, <1>4, <1>15, <2>1, <2>2, ImmediateKeeps DEF GpioWrite
<1>16. ASSUME GpioValueWrite(t) PROVE Discipline' /\ DeviceTypeOK'
  <2>1. pc[t] = "gpio_value_write" /\ pc[t] \in GpioLabels /\ pc[t] \in Holding
    BY <1>16 DEF GpioValueWrite, GpioLabels, Holding, Labels
  <2>2. DeviceTypeOK'
    BY <1>1, <1>6, <1>16, <2>1 DEF GpioValueWrite, DeviceTypeOK, PinState, Level
  <2>3. ret[t] \in Int \cup {None}
    BY <1>1 DEF Discipline, ProcTypeOK
  <2> QED
    BY <1>1, <1>3, <1>16, <2>1, <2>2, <2>3, AbandonKeeps DEF GpioValueWrite
<1>17. ASSUME GpioValueRead(t) PROVE Discipline' /\ DeviceTypeOK'
  <2>1. pc[t] = "gpio_value_read" /\ pc[t] \in Holding
    BY <1>17 DEF GpioValueRead, GpioLabels, Holding, Labels
  <2>2. \E r \in Int : Abandon(t, r)
    BY <1>17 DEF GpioValueRead, MCUPR_RES_IO_ERROR
  <2> QED
    BY <1>1, <1>3, <1>4, <1>17, <2>1, <2>2, AbandonKeeps DEF GpioValueRead
<1>18. ASSUME GpioChipCreate(t) PROVE Discipline' /\ DeviceTypeOK'
  BY <1>1, <1>3, <1>4, <1>18, ImmediateKeeps DEF GpioChipCreate, MCUPR_RES_OK, MCUPR_RES_NOMEM
<1> QED
  BY <1>7, <1>8, <1>9, <1>10, <1>11, <1>13, <1>14, <1>15, <1>16, <1>17, <1>18 DEF GpioStep

(* IInv is inductive. *)
LEMMA NextIInv == IInv /\ [Next]_vars => IInv'
<1> SUFFICES ASSUME IInv, [Next]_vars PROVE IInv'
  OBVIOUS
<1>1. CASE Next
  BY <1>1, I2cStepKeeps, SpiStepKeeps, GpioStepKeeps DEF Next, Step, spiVars, gpioVars
<1>2. CASE UNCHANGED vars
  <2>1. BusesInUseStay /\ UNCHANGED procVars
    BY <1>2 DEF BusesInUseStay, vars, spiVars
  <2>2. DeviceTypeOK'
    BY <1>2, IInvIsDiscipline DEF DeviceTypeOK, vars, spiVars, gpioVars
  <2>3. Discipline'
    BY <2>1, IInvIsDiscipline, StutterKeeps
  <2> QED
    BY <2>2, <2>3 DEF IInv, Discipline, TypeOK
<1> QED
  BY <1>1, <1>2

-----------------------------------------------------------------------------

(* IInv holds in every reachable state of every instance.                  *)
THEOREM Inductive == Spec => []IInv
BY InitIInv, NextIInv, PTL DEF Spec

(* Every variable keeps its type: in particular a level is 0 or 1 and a    *)
(* result fits its call.                                                   *)
THEOREM TypeCorrect == Spec => []TypeOK
<1>1. IInv => TypeOK
  BY DEF IInv
<1> QED
  BY <1>1, Inductive, PTL

(* No interleaving of any number of opens, transfers and closes, on any    *)
(* path through them, loses an open descriptor.                            *)
THEOREM NeverLeaks == Spec => []NoDescriptorLeak
<1>1. IInv => NoDescriptorLeak
  BY DEF IInv
<1> QED
  BY <1>1, Inductive, PTL

(* No descriptor is held by two calls, by a call and the client, or after  *)
(* the kernel took it back.                                                *)
THEOREM OwnedOnce == Spec => []SingleOwner
<1>1. IInv => SingleOwner
  BY DEF IInv
<1> QED
  BY <1>1, Inductive, PTL

(* Every I2C handle talks to the address it was opened for, on its bus.    *)
THEOREM AlwaysBound == Spec => []I2cHandlesBound
<1>1. IInv => I2cHandlesBound
  BY DEF IInv
<1> QED
  BY <1>1, Inductive, PTL

-----------------------------------------------------------------------------
(***************************************************************************)
(* What the handles of the linuxdev backend are worth: the settings of SPI *)
(* devices, the direction of GPIO pins and the export of pins, for every   *)
(* number of threads, devices and pins.  The descriptor discipline (IInv)  *)
(* tells which handles and frames a step of one API cannot touch.          *)
(***************************************************************************)

(* SPI handles and SPI opens are not affected by a step. *)
SpiQuiet ==
  /\ \A n \in FDs :
       dev'[n] # None /\ dev'[n].op = "spi_open" => dev'[n] = dev[n] /\ file'[n] = file[n]
  /\ \A u \in Threads : pc'[u] = "spi_speed" => pc[u] = "spi_speed" /\ call'[u] = call[u]

(* The building blocks of LinuxProcess, none of which makes an SPI handle. *)
LEMMA BlocksAreQuiet ==
  ASSUME IInv, NEW t \in Threads
  PROVE  /\ \A r : Immediate(t, r) => SpiQuiet
         /\ \A r : pc[t] \in Holding /\ Abandon(t, r) => SpiQuiet
         /\ \A n \in FDs : CloseHandle(t, n) => SpiQuiet
         /\ UNCHANGED procVars => SpiQuiet
<1> USE DEF SpiQuiet
<1>1. ProcTypeOK /\ Discipline
  BY IInvIsDiscipline DEF Discipline
<1>2. \A r : Immediate(t, r) => SpiQuiet
  BY <1>1 DEF Immediate, Return, Goto, ProcTypeOK
<1>3. \A r : pc[t] \in Holding /\ Abandon(t, r) => SpiQuiet
  BY <1>1, HoldsOwn DEF Abandon, SysClose, Return, Goto, ProcTypeOK
<1>4. \A n \in FDs : CloseHandle(t, n) => SpiQuiet
  BY <1>1 DEF CloseHandle, ProcTypeOK
<1>5. UNCHANGED procVars => SpiQuiet
  BY DEF procVars
<1> QED
  BY <1>2, <1>3, <1>4, <1>5

(* open(2) takes a descriptor that is not a handle. *)
LEMMA OpenIsQuiet ==
  ASSUME IInv, NEW t \in Threads, NEW node, SysOpen(t, node), UNCHANGED dev,
         \A u \in Threads : pc'[u] = "spi_speed" => pc[u] = "spi_speed" /\ call'[u] = call[u]
  PROVE  SpiQuiet
<1>1. PICK m \in FDs : file[m] = None
                       /\ file' = [file EXCEPT ![m] = [node |-> node, slave |-> None]]
  BY DEF SysOpen
<1>2. dev[m] = None /\ file \in [FDs -> Files \cup {None}]
  BY <1>1 DEF IInv, TypeOK, ProcTypeOK, SingleOwner
<1> QED
  BY <1>1, <1>2 DEF SpiQuiet

LEMMA EnterIsQuiet ==
  ASSUME IInv, NEW t \in Threads, NEW c, NEW node, NEW label, label # "spi_speed",
         EnterOpening(t, c, node, label)
  PROVE  SpiQuiet
<1>1. \A u \in Threads : pc'[u] = "spi_speed" => pc[u] = "spi_speed" /\ call'[u] = call[u]
  BY DEF EnterOpening, Goto, IInv, TypeOK, ProcTypeOK
<1> QED
  BY <1>1, OpenIsQuiet DEF EnterOpening

LEMMA I2cIsQuiet ==
  ASSUME IInv, NEW t \in Threads, I2cStep(t)
  PROVE  SpiQuiet
<1>1. ASSUME NEW b \in I2cBuses, I2cBusCreate(t, b) PROVE SpiQuiet
  BY <1>1, BlocksAreQuiet DEF I2cBusCreate
<1>2. ASSUME NEW b \in I2cBuses, I2cBusRelease(t, b) PROVE SpiQuiet
  BY <1>2, BlocksAreQuiet DEF I2cBusRelease
<1>3. ASSUME NEW b \in I2cBuses, NEW addr \in I2cAddrs, I2cOpen(t, b, addr) PROVE SpiQuiet
  BY <1>3, BlocksAreQuiet, EnterIsQuiet DEF I2cOpen
<1>4. ASSUME I2cSetSlave(t) PROVE SpiQuiet
  <2>1. pc[t] = "i2c_slave" /\ pc[t] \in Holding /\ call[t].op = "i2c_open"
    BY <1>4 DEF I2cSetSlave, Holding, Labels, GpioLabels, IInv, Frames, Frame, I2cFrame
  <2>2. CASE BindSlave(fd[t], call[t].arg) /\ HandOver(t)
    BY <2>1, <2>2, HoldsOwn, IInvIsDiscipline
       DEF SpiQuiet, BindSlave, HandOver, Return, Goto, Discipline, ProcTypeOK
  <2> QED
    BY <1>4, <2>1, <2>2, BlocksAreQuiet DEF I2cSetSlave
<1>5. ASSUME NEW b \in I2cBuses, I2cClose(t, b) PROVE SpiQuiet
  BY <1>5, BlocksAreQuiet DEF I2cClose, I2cDevs
<1>6. ASSUME NEW b \in I2cBuses, NEW size \in 0 .. MaxI2cLen, I2cRead(t, b, size) PROVE SpiQuiet
  BY <1>6, BlocksAreQuiet DEF I2cRead
<1> QED
  BY <1>1, <1>2, <1>3, <1>4, <1>5, <1>6 DEF I2cStep, I2cWrite

LEMMA GpioIsQuiet ==
  ASSUME IInv, NEW t \in Threads, GpioStep(t)
  PROVE  SpiQuiet
<1>1. ASSUME NEW use \in GpioUses, GpioOpen(t, use[1], use[2]) PROVE SpiQuiet
  BY <1>1, BlocksAreQuiet, EnterIsQuiet DEF GpioOpen
<1>2. ASSUME GpioExport(t) PROVE SpiQuiet
  <2>1. pc[t] \in Holding /\ SysClose(t) /\ Proceed(t, "gpio_stat") /\ UNCHANGED dev
    BY <1>2 DEF GpioExport, WriteAndClose, Holding, Labels, GpioLabels
  <2> QED
    BY <2>1, HoldsOwn, IInvIsDiscipline DEF SpiQuiet, SysClose, Proceed, Goto, Discipline, ProcTypeOK
<1>3. ASSUME GpioStat(t) PROVE SpiQuiet
  BY <1>3 DEF GpioStat, SpiQuiet, Proceed, Return, Goto, IInv, TypeOK, ProcTypeOK
<1>4. ASSUME GpioDirOpen(t) PROVE SpiQuiet
  <2>1. \A u \in Threads : pc'[u] = "spi_speed" => pc[u] = "spi_speed" /\ call'[u] = call[u]
    BY <1>4 DEF GpioDirOpen, Proceed, Return, Goto, IInv, TypeOK, ProcTypeOK
  <2>2. CASE UNCHANGED file
    BY <1>4, <2>1, <2>2 DEF SpiQuiet, GpioDirOpen
  <2> QED
    BY <1>4, <2>1, <2>2, OpenIsQuiet DEF GpioDirOpen
<1>5. ASSUME GpioDirWrite(t) \/ GpioValueWrite(t) \/ GpioValueRead(t) PROVE SpiQuiet
  <2>1. pc[t] \in Holding /\ \E r : Abandon(t, r)
    BY <1>5 DEF GpioDirWrite, GpioValueWrite, GpioValueRead, Holding, Labels, GpioLabels
  <2> QED
    BY <2>1, BlocksAreQuiet
<1>6. ASSUME NEW h \in gpioDev, NEW value \in GpioValues,
             GpioClose(t, h) \/ GpioRead(t, h) \/ GpioWrite(t, h, value)
      PROVE  SpiQuiet
  BY <1>6, BlocksAreQuiet, EnterIsQuiet DEF GpioClose, GpioRead, GpioWrite
<1>7. ASSUME NEW h \in gpioDev, GpioClose(t, h) \/ GpioRead(t, h) PROVE SpiQuiet
  BY <1>7, BlocksAreQuiet, EnterIsQuiet DEF GpioClose, GpioRead
<1>8. ASSUME GpioChipCreate(t) PROVE SpiQuiet
  BY <1>8, BlocksAreQuiet DEF GpioChipCreate
<1> QED
  BY <1>1, <1>2, <1>3, <1>4, <1>5, <1>6, <1>7, <1>8 DEF GpioStep

-----------------------------------------------------------------------------
(* The settings of SPI devices. *)

(* The modes and speeds that clients of an SPI bus number ask for. *)
Modes(busnum)  == {ModeByte(p.mode) : p \in {q \in SpiParams : DefaultSpiBus(q.busnum) = busnum}}
Speeds(busnum) == {p.speed : p \in {q \in SpiParams : DefaultSpiBus(q.busnum) = busnum}}

(* A device has settings of its own until a client of its bus number writes them. *)
SettingsAsked ==
  \A d \in SpiDevices :
    /\ spidev[d].mode \in Modes(d[1]) \cup {None}
    /\ spidev[d].speed \in Speeds(d[1]) \cup {None}

(* The first ioctl comes before the second, and both before the handle. *)
ModeFirst ==
  \A t \in Threads :
    pc[t] = "spi_speed" => spidev[SpiDevice(call[t].obj, call[t].arg)].mode # None

HandleWritten(n) ==
  dev[n] # None /\ dev[n].op = "spi_open" =>
    LET d == SpiDevice(dev[n].obj, dev[n].arg)
    IN  /\ dev[n].obj \in SpiBuses /\ d \in SpiDevices /\ file[n].node = SpiNode(d)
        /\ spidev[d].mode # None /\ spidev[d].speed # None

SpiInv == SettingsAsked /\ ModeFirst /\ \A n \in FDs : HandleWritten(n)

LEMMA ConfiguredFollows == DeviceTypeOK /\ SpiInv => SpiHandlesConfigured
<1> SUFFICES ASSUME DeviceTypeOK, SpiInv, NEW n \in FDs,
                    dev[n] # None, dev[n].op = "spi_open",
                    NEW d, d = SpiDevice(dev[n].obj, dev[n].arg)
             PROVE  /\ file[n].node = SpiNode(d)
                    /\ \E p, q \in SpiParams :
                         /\ DefaultSpiBus(p.busnum) = d[1] /\ DefaultSpiBus(q.busnum) = d[1]
                         /\ spidev[d] = [mode |-> ModeByte(p.mode), speed |-> q.speed]
  BY DEF SpiHandlesConfigured
<1>1. /\ d \in SpiDevices /\ file[n].node = SpiNode(d)
      /\ spidev[d].mode \in Modes(d[1]) /\ spidev[d].speed \in Speeds(d[1])
  BY DEF SpiInv, HandleWritten, SettingsAsked
<1>2. PICK p \in SpiParams : DefaultSpiBus(p.busnum) = d[1] /\ spidev[d].mode = ModeByte(p.mode)
  BY <1>1 DEF Modes
<1>3. PICK q \in SpiParams : DefaultSpiBus(q.busnum) = d[1] /\ spidev[d].speed = q.speed
  BY <1>1 DEF Speeds
<1>4. spidev[d] = [mode |-> spidev[d].mode, speed |-> spidev[d].speed]
  BY <1>1 DEF DeviceTypeOK
<1> QED
  BY <1>1, <1>2, <1>3, <1>4

(* A bus that a call or a handle refers to is the same after a step.       *)
SpiBusesInUseStay ==
  /\ \A u \in Threads : pc[u] = "spi_speed" => spiBus'[call[u].obj] = spiBus[call[u].obj]
  /\ \A n \in FDs : dev[n] # None /\ dev[n].op = "spi_open" =>
       spiBus'[dev[n].obj] = spiBus[dev[n].obj]

LEMMA QuietKeepsSpiInv ==
  ASSUME SpiInv, SpiQuiet, SpiBusesInUseStay, UNCHANGED spidev
  PROVE  SpiInv'
<1>1. SettingsAsked'
  BY DEF SpiInv, SettingsAsked, Modes, Speeds
<1>2. ModeFirst'
  BY DEF SpiInv, SpiQuiet, SpiBusesInUseStay, ModeFirst, SpiDevice
<1>3. ASSUME NEW n \in FDs PROVE HandleWritten(n)'
  BY DEF SpiInv, SpiQuiet, SpiBusesInUseStay, HandleWritten, SpiDevice
<1> QED
  BY <1>1, <1>2, <1>3 DEF SpiInv

LEMMA SpiStepKeepsSettings ==
  ASSUME IInv, SpiInv, NEW t \in Threads, SpiStep(t)
  PROVE  SpiInv'
<1> USE NoneAssumption, SpiAssumption
<1>1. Discipline /\ DeviceTypeOK
  BY IInvIsDiscipline
<1>2. /\ \A u \in Threads : pc[u] \in {"spi_mode", "spi_speed"} => SpiFrame(u) /\ call[u] # None
      /\ \A n \in FDs : dev[n] # None /\ dev[n].op = "spi_open" =>
           dev[n].obj \in SpiBuses /\ spiBus[dev[n].obj] # None
  BY <1>1 DEF Discipline, Frames, Frame, SpiFrame, Handles, HandleOK
<1>3. UNCHANGED spiBus => SpiBusesInUseStay
  BY DEF SpiBusesInUseStay
<1>4. ASSUME NEW b \in SpiBuses, SpiBusCreate(t, b) PROVE SpiInv'
  <2>1. SpiBusesInUseStay
    BY <1>1, <1>2, <1>4 DEF SpiBusesInUseStay, SpiFrame, SpiBusCreate, DeviceTypeOK
  <2> QED
    BY <1>4, <2>1, BlocksAreQuiet, QuietKeepsSpiInv DEF SpiBusCreate
<1>5. ASSUME NEW b \in SpiBuses, SpiBusRelease(t, b) PROVE SpiInv'
  <2>1. SpiBusesInUseStay
    BY <1>1, <1>2, <1>5 DEF SpiBusesInUseStay, SpiFrame, SpiBusRelease, DeviceTypeOK, Unused
  <2> QED
    BY <1>5, <2>1, BlocksAreQuiet, QuietKeepsSpiInv DEF SpiBusRelease
<1>6. ASSUME NEW b \in SpiBuses, NEW csnum \in SpiSelects, SpiOpen(t, b, csnum) PROVE SpiInv'
  BY <1>3, <1>6, BlocksAreQuiet, EnterIsQuiet, QuietKeepsSpiInv DEF SpiOpen, spiVars
<1>7. ASSUME NEW b \in SpiBuses, SpiClose(t, b) PROVE SpiInv'
  BY <1>3, <1>7, BlocksAreQuiet, QuietKeepsSpiInv DEF SpiClose, SpiDevs, spiVars
<1>8. ASSUME NEW b \in SpiBuses, NEW length \in SpiLens, SpiTransfer(t, b, length) PROVE SpiInv'
  BY <1>3, <1>8, BlocksAreQuiet, QuietKeepsSpiInv DEF SpiTransfer, spiVars
<1> DEFINE b == call[t].obj
           d == SpiDevice(b, call[t].arg)
<1>9. ASSUME pc[t] \in {"spi_mode", "spi_speed"}
      PROVE  /\ pc[t] \in Holding /\ b \in SpiBuses /\ d \in SpiDevices
             /\ file[fd[t]].node = SpiNode(d) /\ d[1] = spiBus[b].busnum
             /\ ModeByte(spiBus[b].mode) \in Modes(d[1]) /\ spiBus[b].speed \in Speeds(d[1])
             /\ None \notin Modes(d[1]) /\ None \notin Speeds(d[1])
  <2>1. /\ pc[t] \in Holding /\ b \in SpiBuses /\ d \in SpiDevices
        /\ file[fd[t]].node = SpiNode(d) /\ d[1] = spiBus[b].busnum /\ spiBus[b] # None
    BY <1>2, <1>9 DEF SpiFrame, SpiDevice, Holding, Labels, GpioLabels
  <2>2. PICK p \in SpiParams : spiBus[b] = BusParams(p)
    BY <1>1, <2>1 DEF DeviceTypeOK
  <2>3. /\ spiBus[b].busnum = DefaultSpiBus(p.busnum)
        /\ spiBus[b].mode = p.mode /\ spiBus[b].speed = p.speed
    BY <2>2 DEF BusParams
  <2>4. \A x \in Int : ModeByte(x) \in Int
    BY DEF ModeByte
  <2> QED
    BY <2>1, <2>3, <2>4 DEF Modes, Speeds
<1>10. ASSUME NEW n \in FDs, dev[n] # None, dev[n].op = "spi_open"
       PROVE  LET e == SpiDevice(dev[n].obj, dev[n].arg)
              IN  /\ dev[n].obj \in SpiBuses /\ e \in SpiDevices
                  /\ file[n].node = SpiNode(e)
                  /\ spidev[e].mode # None /\ spidev[e].speed # None
  BY <1>10 DEF SpiInv, HandleWritten
<1>11. UNCHANGED spiBus => \A x, y : SpiDevice(x, y)' = SpiDevice(x, y)
  BY DEF SpiDevice, ChipSelect
<1>12. ASSUME SpiSetMode(t) PROVE SpiInv'
  <2>1. CASE UNCHANGED spidev /\ Abandon(t, MCUPR_RES_IO_ERROR)
    BY <1>3, <1>9, <1>12, <2>1, BlocksAreQuiet, QuietKeepsSpiInv DEF SpiSetMode
  <2>2. CASE /\ WriteMode(d, ModeByte(spiBus[b].mode))
             /\ Proceed(t, "spi_speed") /\ UNCHANGED <<file, dev, fd>>
    <3>1. /\ spidev' = [spidev EXCEPT ![d].mode = ModeByte(spiBus[b].mode)] /\ UNCHANGED spiBus
          /\ pc[t] = "spi_mode"
      BY <1>12, <2>2 DEF SpiSetMode, WriteMode
    <3>2. ASSUME NEW e \in SpiDevices
          PROVE  /\ spidev'[e].speed = spidev[e].speed
                 /\ spidev'[e].mode = IF e = d THEN ModeByte(spiBus[b].mode) ELSE spidev[e].mode
      BY <1>1, <3>1 DEF DeviceTypeOK
    <3>3. SettingsAsked'
      BY <1>9, <3>1, <3>2 DEF SpiInv, SettingsAsked, Modes, Speeds
    <3>4. ModeFirst'
      <4> SUFFICES ASSUME NEW u \in Threads, pc'[u] = "spi_speed"
                   PROVE  spidev'[SpiDevice(call[u].obj, call[u].arg)].mode # None
        BY <2>2, <3>1 DEF ModeFirst, SpiDevice, Proceed
      <4>1. CASE u = t
        BY <1>9, <3>1, <3>2, <4>1
      <4>2. CASE u # t
        <5>1. pc[u] = "spi_speed"
          BY <1>1, <2>2, <4>2 DEF Proceed, Goto, Discipline, ProcTypeOK
        <5>2. SpiDevice(call[u].obj, call[u].arg) \in SpiDevices
          BY <1>2, <5>1 DEF SpiFrame
        <5> QED
          BY <1>9, <3>1, <3>2, <5>1, <5>2 DEF SpiInv, ModeFirst
      <4> QED
        BY <4>1, <4>2
    <3>5. ASSUME NEW n \in FDs PROVE HandleWritten(n)'
      <4> SUFFICES ASSUME dev[n] # None, dev[n].op = "spi_open"
                   PROVE  HandleWritten(n)'
        BY <2>2 DEF HandleWritten
      <4> QED
        BY <1>9, <1>10, <1>11, <2>2, <3>1, <3>2 DEF HandleWritten
    <3> QED
      BY <3>3, <3>4, <3>5 DEF SpiInv
  <2> QED
    BY <1>12, <2>1, <2>2 DEF SpiSetMode
<1>13. ASSUME SpiSetSpeed(t) PROVE SpiInv'
  <2>1. CASE UNCHANGED spidev /\ Abandon(t, MCUPR_RES_IO_ERROR)
    BY <1>3, <1>9, <1>13, <2>1, BlocksAreQuiet, QuietKeepsSpiInv DEF SpiSetSpeed
  <2>2. CASE /\ WriteSpeed(d, spiBus[b].speed)
             /\ HandOver(t) /\ UNCHANGED file
    <3>1. /\ spidev' = [spidev EXCEPT ![d].speed = spiBus[b].speed] /\ UNCHANGED spiBus
          /\ pc[t] = "spi_speed"
      BY <1>13, <2>2 DEF SpiSetSpeed, WriteSpeed
    <3>2. ASSUME NEW e \in SpiDevices
          PROVE  /\ spidev'[e].mode = spidev[e].mode
                 /\ spidev'[e].speed = IF e = d THEN spiBus[b].speed ELSE spidev[e].speed
      BY <1>1, <3>1 DEF DeviceTypeOK
    <3>3. SettingsAsked'
      BY <1>9, <3>1, <3>2 DEF SpiInv, SettingsAsked, Modes, Speeds
    <3>4. ModeFirst'
      <4> SUFFICES ASSUME NEW u \in Threads, pc'[u] = "spi_speed"
                   PROVE  spidev'[SpiDevice(call'[u].obj, call'[u].arg)].mode # None
        BY <3>1 DEF ModeFirst, SpiDevice
      <4>1. u # t /\ pc[u] = "spi_speed" /\ call'[u] = call[u]
        BY <1>1, <2>2 DEF HandOver, Return, Goto, Discipline, ProcTypeOK
      <4>2. SpiDevice(call[u].obj, call[u].arg) \in SpiDevices
        BY <1>2, <4>1 DEF SpiFrame
      <4> QED
        BY <3>2, <4>1, <4>2 DEF SpiInv, ModeFirst
    <3>5. ASSUME NEW n \in FDs PROVE HandleWritten(n)'
      <4>1. CASE n = fd[t]
        <5>1. dev'[n] = call[t]
          BY <1>1, <2>2, <4>1 DEF HandOver, Discipline, ProcTypeOK
        <5>2. spidev[d].mode # None
          BY <3>1 DEF SpiInv, ModeFirst
        <5> QED
          BY <1>9, <1>11, <2>2, <3>1, <3>2, <4>1, <5>1, <5>2 DEF HandleWritten
      <4>2. CASE n # fd[t]
        <5>1. dev'[n] = dev[n]
          BY <1>1, <2>2, <4>2 DEF HandOver, Discipline, ProcTypeOK
        <5> SUFFICES ASSUME dev[n] # None, dev[n].op = "spi_open"
                     PROVE  HandleWritten(n)'
          BY <5>1 DEF HandleWritten
        <5> QED
          BY <1>9, <1>10, <1>11, <2>2, <3>1, <3>2, <5>1 DEF HandleWritten
      <4> QED
        BY <4>1, <4>2
    <3> QED
      BY <3>3, <3>4, <3>5 DEF SpiInv
  <2> QED
    BY <1>13, <2>1, <2>2 DEF SpiSetSpeed
<1> QED
  BY <1>4, <1>5, <1>6, <1>7, <1>8, <1>12, <1>13 DEF SpiStep

LEMMA NextKeepsSettings == IInv /\ SpiInv /\ [Next]_vars => SpiInv'
<1> SUFFICES ASSUME IInv, SpiInv, [Next]_vars PROVE SpiInv'
  OBVIOUS
<1>1. UNCHANGED spiBus => SpiBusesInUseStay
  BY DEF SpiBusesInUseStay
<1>2. CASE UNCHANGED vars
  <2>1. SpiQuiet
    BY <1>2 DEF vars, procVars, SpiQuiet
  <2> QED
    BY <1>1, <1>2, <2>1, QuietKeepsSpiInv DEF vars, spiVars
<1>3. ASSUME NEW t \in Threads, Step(t) PROVE SpiInv'
  BY <1>1, <1>3, I2cIsQuiet, GpioIsQuiet, QuietKeepsSpiInv, SpiStepKeepsSettings
     DEF Step, spiVars
<1> QED
  BY <1>2, <1>3 DEF Next

(* A handle of an SPI device runs on a mode and a speed that clients of    *)
(* its bus number asked for, whatever opens of it interleave and fail.     *)
THEOREM AlwaysConfigured == Spec => []SpiHandlesConfigured
<1>1. Init => SpiInv
  BY DEF Init, ProcInit, SpiInit, SpiInv, SettingsAsked, ModeFirst, HandleWritten
<1>2. IInv /\ SpiInv => SpiHandlesConfigured
  BY ConfiguredFollows DEF IInv, TypeOK
<1> QED
  BY <1>1, <1>2, Inductive, NextKeepsSettings, PTL DEF Spec

-----------------------------------------------------------------------------
(* The direction of GPIO pins, when the kernel takes the writes of it. *)

(* Some use of pin p that clients make has its present direction. *)
DirAgreed(p) == \E use \in GpioUses : use[1] = p /\ gpio[p].dir = Direction(use[2])

PinReady(p) == gpio[p].exported /\ DirAgreed(p)

(* A call past the stat is on an exported pin, and pins stay exported. *)
PastStat ==
  \A t \in Threads : pc[t] \in {"gpio_dir_open", "gpio_dir_write"} => gpio[call[t].obj].exported

LEMMA DirectionFollows == GpioDirectionSet <=> \A h \in gpioDev : PinReady(h[1])
BY DEF GpioDirectionSet, PinReady, DirAgreed

(* What a step may do to the pins: one that was exported stays so, and its *)
(* direction stays or becomes the one of a use that clients make.          *)
PinsKept ==
  \A p \in Pins :
    /\ gpio[p].exported => gpio'[p].exported
    /\ PinReady(p) => PinReady(p)'

LEMMA GpioStepKeepsPins ==
  ASSUME IInv, NEW t \in Threads, GpioStep(t)
  PROVE  PinsKept
<1> USE DEF PinReady, DirAgreed
<1>1. DeviceTypeOK /\ ProcTypeOK /\ GpioFrame(t)
  BY DEF IInv, TypeOK, Frames, Frame
<1>2. UNCHANGED gpio => PinsKept
  BY DEF PinsKept
<1>3. ASSUME GpioExport(t) PROVE PinsKept
  BY <1>1, <1>2, <1>3 DEF PinsKept, GpioExport, DeviceTypeOK
<1>4. ASSUME GpioDirWrite(t) PROVE PinsKept
  <2>1. CASE gpio' = [gpio EXCEPT ![call[t].obj] = Direct(@, call[t].arg)]
    <3>1. PICK p, mode : p = call[t].obj /\ mode = call[t].arg
                         /\ p \in Pins /\ <<p, mode>> \in GpioUses
      BY <1>1, <1>4 DEF GpioFrame, GpioDirWrite, GpioLabels
    <3>2. /\ \A q \in Pins \ {p} : gpio'[q] = gpio[q]
          /\ gpio'[p] = Direct(gpio[p], mode)
      BY <1>1, <2>1, <3>1 DEF DeviceTypeOK
    <3>3. gpio'[p].exported = gpio[p].exported /\ gpio'[p].dir = Direction(mode)
      BY <1>1, <3>1, <3>2 DEF Direct, DeviceTypeOK, PinState
    <3>4. DirAgreed(p)'
      <4>1. <<p, mode>>[1] = p /\ <<p, mode>>[2] = mode
        OBVIOUS
      <4> QED
        BY <3>1, <3>3, <4>1
    <3> QED
      BY <3>2, <3>3, <3>4 DEF PinsKept
  <2> QED
    BY <1>2, <1>4, <2>1 DEF GpioDirWrite
<1>5. ASSUME GpioValueWrite(t) PROVE PinsKept
  <2>1. CASE gpio' = [gpio EXCEPT ![call[t].obj].level = Level(call[t].arg)]
    <3>1. \A p \in Pins : gpio'[p].exported = gpio[p].exported /\ gpio'[p].dir = gpio[p].dir
      BY <1>1, <2>1 DEF DeviceTypeOK, PinState
    <3> QED
      BY <3>1 DEF PinsKept
  <2> QED
    BY <1>2, <1>5, <2>1 DEF GpioValueWrite
<1> QED
  BY <1>2, <1>3, <1>4, <1>5
     DEF GpioStep, GpioChipCreate, GpioOpen, GpioStat, GpioDirOpen, GpioClose, GpioRead, GpioWrite,
         GpioValueRead, gpioVars

LEMMA PastStatKept ==
  ASSUME IInv, PastStat, PinsKept,
         \A u \in Threads :
           pc'[u] \in {"gpio_dir_open", "gpio_dir_write"} =>
             /\ call'[u] = call[u]
             /\ \/ pc[u] \in {"gpio_dir_open", "gpio_dir_write"}
                \/ pc[u] = "gpio_stat" /\ gpio[call[u].obj].exported
  PROVE  PastStat'
<1>1. \A u \in Threads : pc[u] \in GpioLabels => call[u].obj \in Pins
  BY DEF IInv, Frames, Frame, GpioFrame
<1> QED
  BY <1>1 DEF PastStat, PinsKept, GpioLabels

(* How a step moves the threads on the path of an open of a pin.           *)
OpenPath(t) ==
  /\ \A u \in Threads \ {t} : pc'[u] = pc[u] /\ call'[u] = call[u]
  /\ pc'[t] \in {"gpio_dir_open", "gpio_dir_write"} =>
       /\ call'[t] = call[t]
       /\ \/ pc[t] \in {"gpio_dir_open", "gpio_dir_write"}
          \/ pc[t] = "gpio_stat" /\ gpio[call[t].obj].exported

LEMMA StepsFollowOpenPath ==
  ASSUME IInv, NEW t \in Threads, Step(t)
  PROVE  OpenPath(t)
<1> USE DEF OpenPath, ProcTypeOK
<1>1. ProcTypeOK
  BY DEF IInv, TypeOK
<1>2. \A r : Immediate(t, r) => OpenPath(t)
  BY <1>1 DEF Immediate, Return, Goto
<1>3. \A r : Return(t, r) => OpenPath(t)
  BY <1>1 DEF Return, Goto
<1>4. \A c, node, label :
        EnterOpening(t, c, node, label) /\ label \notin {"gpio_dir_open", "gpio_dir_write"}
          => OpenPath(t)
  BY <1>1 DEF EnterOpening, Goto
<1>5. UNCHANGED <<pc, call>> => OpenPath(t)
  OBVIOUS
<1>6. CASE I2cStep(t)
  BY <1>2, <1>3, <1>4, <1>5, <1>6
     DEF I2cStep, I2cBusCreate, I2cBusRelease, I2cOpen, I2cSetSlave, I2cClose, I2cRead, I2cWrite,
         HandOver, Abandon, CloseHandle, procVars
<1>7. CASE SpiStep(t)
  <2>1. ASSUME SpiSetMode(t) PROVE OpenPath(t)
    BY <1>1, <1>3, <2>1 DEF SpiSetMode, Proceed, Goto, Abandon
  <2> QED
    BY <1>2, <1>3, <1>4, <1>5, <1>7, <2>1
       DEF SpiStep, SpiBusCreate, SpiBusRelease, SpiOpen, SpiSetSpeed, SpiClose, SpiTransfer,
           HandOver, Abandon, CloseHandle, procVars
<1>8. CASE GpioStep(t)
  <2>1. ASSUME GpioExport(t) PROVE OpenPath(t)
    BY <1>1, <2>1 DEF GpioExport, WriteAndClose, Proceed, Goto
  <2>2. ASSUME GpioStat(t) PROVE OpenPath(t)
    BY <1>1, <1>3, <2>2 DEF GpioStat, Proceed, Goto
  <2>3. ASSUME GpioDirOpen(t) PROVE OpenPath(t)
    BY <1>1, <1>3, <2>3 DEF GpioDirOpen, Proceed, Goto
  <2>4. ASSUME GpioDirWrite(t) \/ GpioValueWrite(t) \/ GpioValueRead(t) PROVE OpenPath(t)
    BY <1>3, <2>4 DEF GpioDirWrite, GpioValueWrite, GpioValueRead, Abandon
  <2> QED
    BY <1>2, <1>4, <1>5, <1>8, <2>1, <2>2, <2>3, <2>4
       DEF GpioStep, GpioChipCreate, GpioOpen, GpioClose, GpioRead, GpioWrite, procVars
<1> QED
  BY <1>6, <1>7, <1>8 DEF Step

LEMMA NextKeepsDirections ==
  ASSUME "direction" \notin RefusedWrites, IInv, PastStat, GpioDirectionSet, [Next]_vars
  PROVE  PastStat' /\ GpioDirectionSet'
<1>1. CASE UNCHANGED vars
  BY <1>1 DEF vars, procVars, gpioVars, PastStat, GpioDirectionSet
<1>2. ASSUME NEW t \in Threads, Step(t) PROVE PastStat' /\ GpioDirectionSet'
  <2>1. PinsKept
    <3>1. UNCHANGED gpio => PinsKept
      BY DEF PinsKept, PinReady, DirAgreed
    <3> QED
      BY <1>2, <3>1, GpioStepKeepsPins DEF Step, gpioVars
  <2>2. PastStat'
    BY <1>2, <2>1, StepsFollowOpenPath, PastStatKept DEF OpenPath
  <2>3. ASSUME NEW h \in gpioDev PROVE PinReady(h[1])'
    <3>1. h[1] \in Pins
      BY GpioAssumption DEF IInv, TypeOK, DeviceTypeOK
    <3> QED
      BY <2>1, <3>1, DirectionFollows DEF PinsKept
  <2>4. ASSUME GpioDirWrite(t), NEW h, h = <<call[t].obj, call[t].arg>> PROVE PinReady(h[1])'
    <3>1. /\ h \in GpioUses /\ h[1] \in Pins /\ h[1] = call[t].obj /\ h[2] = call[t].arg
          /\ gpio[h[1]].exported
      BY <2>4 DEF IInv, Frames, Frame, GpioFrame, GpioLabels, GpioDirWrite, PastStat
    <3>2. gpio' = [gpio EXCEPT ![h[1]] = Direct(@, h[2])]
      BY <2>4, <3>1 DEF GpioDirWrite
    <3>3. gpio'[h[1]] = Direct(gpio[h[1]], h[2])
      BY <3>1, <3>2 DEF IInv, TypeOK, DeviceTypeOK
    <3>4. gpio[h[1]] \in PinState
      BY <3>1 DEF IInv, TypeOK, DeviceTypeOK
    <3>5. gpio'[h[1]].exported /\ gpio'[h[1]].dir = Direction(h[2])
      BY <3>1, <3>3, <3>4 DEF Direct, PinState
    <3> QED
      BY <3>1, <3>5 DEF PinReady, DirAgreed
  <2>5. \/ gpioDev' \subseteq gpioDev
        \/ GpioDirWrite(t) /\ gpioDev' = gpioDev \cup {<<call[t].obj, call[t].arg>>}
    BY <1>2 DEF Step, GpioStep, GpioChipCreate, GpioOpen, GpioExport, GpioStat, GpioDirOpen, GpioDirWrite, GpioClose,
                GpioRead, GpioWrite, GpioValueRead, GpioValueWrite, gpioVars
  <2>6. ASSUME NEW h \in gpioDev' PROVE PinReady(h[1])'
    BY <2>3, <2>4, <2>5
  <2> QED
    BY <2>2, <2>6 DEF GpioDirectionSet, PinReady, DirAgreed
<1> QED
  BY <1>1, <1>2 DEF Next

(* While the kernel takes the writes to "direction", an open pin has the   *)
(* direction of a use that clients make, whatever opens interleave on it.  *)
THEOREM DirectionsSet ==
  ASSUME "direction" \notin RefusedWrites
  PROVE  Spec => []GpioDirectionSet
<1>1. Init => PastStat /\ GpioDirectionSet
  BY DEF Init, ProcInit, GpioInit, PastStat, GpioDirectionSet
<1>2. IInv /\ PastStat /\ GpioDirectionSet /\ [Next]_vars => PastStat' /\ GpioDirectionSet'
  BY NextKeepsDirections
<1> QED
  BY <1>1, <1>2, Inductive, PTL DEF Spec

-----------------------------------------------------------------------------
(***************************************************************************)
(* The linuxdev backend keeps the promise of the I2C API for every number  *)
(* of threads, descriptors and buses.  What the kernel has behind the      *)
(* client's descriptors is, by IInv, what the calls that returned them     *)
(* asked for; so only the steps that hand out or take back an I2C handle,  *)
(* or create or release an I2C bus, are seen through the API.              *)
(***************************************************************************)

(* The descriptors that are I2C handles, and what was asked for. *)
I2cHandles == {n \in FDs : dev[n] # None /\ dev[n].op = "i2c_open"}

Asked(n) == [bus |-> dev[n].obj, dev |-> n, node |-> i2cBus[dev[n].obj], addr |-> dev[n].arg]

AllAsked == {Asked(n) : n \in I2cHandles}

LEMMA OpenedAsAsked == IInv => I2cOpened = AllAsked
<1> SUFFICES ASSUME IInv PROVE I2cOpened = AllAsked
  OBVIOUS
<1>1. ASSUME NEW n \in I2cHandles
      PROVE  file[n].node[2] = i2cBus[dev[n].obj] /\ file[n].slave = dev[n].arg
  <2>1. file[n] = [node |-> I2cNode(dev[n].obj), slave |-> dev[n].arg]
    BY DEF IInv, I2cHandlesBound, I2cHandleBound, I2cHandles
  <2>2. file[n].node = <<"/dev/i2c", i2cBus[dev[n].obj]>> /\ file[n].slave = dev[n].arg
    BY <2>1 DEF I2cNode
  <2> QED
    BY <2>2
<1> QED
  BY <1>1 DEF I2cOpened, AllAsked, I2cHandles, Asked

LEMMA OpenedAsAskedNext == (IInv => I2cOpened = AllAsked)'
BY OpenedAsAsked, PTL

(* A step that leaves the buses and the I2C handles alone is none of the API. *)
I2cQuiet ==
  /\ UNCHANGED i2cBus
  /\ \A n \in FDs : dev'[n] = dev[n] \/ (n \notin I2cHandles /\ n \notin I2cHandles')

LEMMA QuietRefines ==
  ASSUME IInv, IInv', I2cQuiet
  PROVE  I2cApi!Next
<1>1. I2cHandles' = I2cHandles
  BY DEF I2cQuiet, I2cHandles
<1>2. \A n \in I2cHandles : Asked(n)' = Asked(n)
  BY DEF I2cQuiet, I2cHandles, Asked
<1>3. {Asked(n)' : n \in I2cHandles} = {Asked(n) : n \in I2cHandles}
  BY <1>2
<1>4. UNCHANGED AllAsked
  BY <1>1, <1>3 DEF AllAsked
<1>5. UNCHANGED I2cOpened
  BY <1>4, OpenedAsAsked, OpenedAsAskedNext
<1> QED
  BY <1>5 DEF I2cQuiet, I2cApi!Next, I2cApi!HandleStep

LEMMA SameDevIsQuiet == UNCHANGED <<i2cBus, dev>> => I2cQuiet
BY Zenon DEF I2cQuiet

(* The SPI half hands out and takes back SPI handles only. *)
LEMMA SpiIsQuiet ==
  ASSUME IInv, NEW t \in Threads, SpiStep(t), UNCHANGED i2cBus
  PROVE  I2cQuiet
<1> USE DEF IInv, TypeOK, ProcTypeOK, Frames, Frame
<1>1. CASE UNCHANGED dev
  BY <1>1, SameDevIsQuiet
<1>2. CASE SpiSetSpeed(t)
  <2>1. fd[t] \in FDs /\ dev[fd[t]] = None /\ call[t] # None /\ call[t].op = "spi_open"
    BY <1>2, NoneAssumption DEF SpiSetSpeed, SpiFrame, Holding, Labels, GpioLabels, SingleOwner
  <2>2. UNCHANGED dev \/ dev' = [dev EXCEPT ![fd[t]] = call[t]]
    BY <1>2 DEF SpiSetSpeed, HandOver, Abandon
  <2> QED
    BY <2>1, <2>2 DEF I2cQuiet, I2cHandles
<1>3. ASSUME NEW b \in SpiBuses, SpiClose(t, b) PROVE I2cQuiet
  <2>1. PICK n \in SpiDevs(b) : dev' = [dev EXCEPT ![n] = None]
    BY <1>3 DEF SpiClose, CloseHandle
  <2> QED
    BY <2>1 DEF I2cQuiet, I2cHandles, SpiDevs
<1>4. SpiSetMode(t) => UNCHANGED dev
  BY DEF SpiSetMode, Abandon
<1> QED
  BY <1>1, <1>2, <1>3, <1>4
  DEF SpiStep, SpiBusCreate, SpiBusRelease, SpiOpen, SpiTransfer, procVars,
      Immediate, EnterOpening

(* GPIO devices are pins: no descriptor becomes a handle. *)
LEMMA GpioIsI2cQuiet ==
  ASSUME NEW t \in Threads, GpioStep(t), UNCHANGED i2cBus
  PROVE  I2cQuiet
BY SameDevIsQuiet
DEF GpioStep, GpioChipCreate, GpioOpen, GpioExport, GpioStat, GpioDirOpen, GpioDirWrite, GpioClose, GpioWrite,
    GpioRead, GpioValueWrite, GpioValueRead, Immediate, EnterOpening, WriteAndClose, Abandon,
    procVars

LEMMA I2cRefines ==
  ASSUME IInv, IInv', NEW t \in Threads, I2cStep(t)
  PROVE  I2cApi!Next
<1> USE DEF IInv, TypeOK, ProcTypeOK
<1>1. /\ I2cOpened = {Asked(n) : n \in I2cHandles}
      /\ I2cOpened' = {Asked(n)' : n \in I2cHandles'}
  BY OpenedAsAsked, OpenedAsAskedNext DEF AllAsked
<1>2. UNCHANGED <<i2cBus, dev>> => I2cApi!Next
  BY SameDevIsQuiet, QuietRefines
<1>3. I2cApi!HandleStep => I2cApi!Next
  BY DEF I2cApi!Next
<1>4. ASSUME NEW b \in I2cBuses, I2cBusCreate(t, b) PROVE I2cApi!Next
  <2>1. CASE UNCHANGED i2cBus
    BY <1>2, <1>4, <2>1 DEF I2cBusCreate, Immediate
  <2>2. CASE i2cBus' # i2cBus
    <3>1. PICK num \in I2cBusnums : i2cBus' = [i2cBus EXCEPT ![b] = DefaultI2cBus(num)]
      BY <1>4, <2>2 DEF I2cBusCreate
    <3>2. i2cBus[b] = None /\ UNCHANGED dev
      BY <1>4 DEF I2cBusCreate, Immediate
    <3>3. I2cHandles' = I2cHandles
      BY <3>2 DEF I2cHandles
    <3>4. \A n \in I2cHandles : Asked(n)' = Asked(n)
      BY <3>1, <3>2, NoneAssumption DEF I2cHandles, Handles, HandleOK, Asked
    <3>5. UNCHANGED I2cOpened
      BY <1>1, <3>3, <3>4
    <3> QED
      BY <1>3, <3>1, <3>2, <3>5 DEF I2cApi!HandleStep, I2cApi!Create
  <2> QED
    BY <2>1, <2>2
<1>5. ASSUME NEW b \in I2cBuses, I2cBusRelease(t, b) PROVE I2cApi!Next
  <2>1. /\ i2cBus[b] # None /\ i2cBus' = [i2cBus EXCEPT ![b] = None]
        /\ UNCHANGED dev /\ \A n \in I2cHandles : dev[n].obj # b
    BY <1>5 DEF I2cBusRelease, procVars, Unused, I2cHandles
  <2>2. I2cHandles' = I2cHandles
    BY <2>1 DEF I2cHandles
  <2>3. \A n \in I2cHandles : Asked(n)' = Asked(n)
    BY <2>1 DEF I2cHandles, Handles, HandleOK, Asked, DeviceTypeOK
  <2>4. UNCHANGED I2cOpened
    BY <1>1, <2>2, <2>3
  <2>5. \A d \in I2cOpened : d.bus # b
    BY <1>1, <2>1 DEF Asked
  <2> QED
    BY <1>3, <2>1, <2>4, <2>5 DEF I2cApi!HandleStep, I2cApi!Release
<1>6. CASE I2cSetSlave(t)
  <2>1. CASE UNCHANGED dev
    BY <1>2, <1>6, <2>1 DEF I2cSetSlave
  <2>2. CASE dev' # dev
    <3>0. pc[t] = "i2c_slave" /\ pc[t] \in Holding
      BY <1>6 DEF I2cSetSlave, Holding, Labels
    <3>1. PICK n \in FDs, c \in Calls :
            dev' = [dev EXCEPT ![n] = c] /\ n = fd[t] /\ c = call[t] /\ UNCHANGED i2cBus
      BY <1>6, <2>2, <3>0, HoldsOwn, IInvIsDiscipline DEF I2cSetSlave, HandOver, Abandon
    <3>2. /\ dev[n] = None /\ c # None /\ c.op = "i2c_open"
          /\ c.obj \in I2cBuses /\ c.arg \in I2cAddrs /\ i2cBus[c.obj] # None
      BY <3>0, <3>1, HoldsOwn, IInvIsDiscipline, NoneIsNoRecord DEF Frames, Frame, I2cFrame
    <3>3. dev'[n] = c /\ \A m \in I2cHandles : m # n /\ dev'[m] = dev[m]
      BY <3>1, <3>2 DEF I2cHandles
    <3>4. I2cHandles' = I2cHandles \cup {n}
      BY <3>1, <3>2 DEF I2cHandles
    <3> DEFINE device == [bus |-> c.obj, dev |-> n, node |-> i2cBus[c.obj], addr |-> c.arg]
    <3>5. Asked(n)' = device /\ \A m \in I2cHandles : Asked(m)' = Asked(m)
      BY <3>1, <3>3 DEF Asked
    <3>6. I2cOpened' = I2cOpened \cup {device}
      BY <1>1, <3>4, <3>5
    <3>7. \A d \in I2cOpened : d.dev # n
      BY <1>1, <3>3 DEF Asked
    <3>8. I2cApi!Open(c.obj, c.arg, n)
      BY <3>1, <3>2, <3>6, <3>7 DEF I2cApi!Open
    <3> QED
      BY <1>3, <3>2, <3>8 DEF I2cApi!HandleStep
  <2> QED
    BY <2>1, <2>2
<1>7. ASSUME NEW b \in I2cBuses, I2cClose(t, b) PROVE I2cApi!Next
  <2>1. PICK n \in I2cHandles : dev' = [dev EXCEPT ![n] = None]
    BY <1>7 DEF I2cClose, CloseHandle, I2cDevs, I2cHandles
  <2>2. UNCHANGED i2cBus
    BY <1>7 DEF I2cClose
  <2>3. I2cHandles' = I2cHandles \ {n} /\ \A m \in I2cHandles \ {n} : Asked(m)' = Asked(m)
    BY <2>1, <2>2 DEF I2cHandles, Asked
  <2>4. \A m \in I2cHandles : Asked(m) = Asked(n) => m = n
    BY DEF Asked
  <2>5. I2cOpened' = I2cOpened \ {Asked(n)}
    BY <1>1, <2>3, <2>4
  <2>6. Asked(n) \in I2cOpened
    BY <1>1
  <2> QED
    BY <1>3, <2>2, <2>5, <2>6 DEF I2cApi!HandleStep, I2cApi!Close
<1>8. ASSUME NEW b \in I2cBuses, NEW addr \in I2cAddrs, I2cOpen(t, b, addr) PROVE I2cApi!Next
  BY <1>2, <1>8 DEF I2cOpen, Immediate, EnterOpening
<1>9. ASSUME NEW b \in I2cBuses, NEW size, I2cRead(t, b, size) \/ I2cWrite(t, b, size)
      PROVE  I2cApi!Next
  BY <1>2, <1>9 DEF I2cRead, I2cWrite, Immediate
<1> QED
  BY <1>4, <1>5, <1>6, <1>7, <1>8, <1>9 DEF I2cStep

(* However many threads call the three APIs, and whatever the kernel       *)
(* refuses, the I2C half keeps the promise of its API.                     *)
THEOREM Implements == Spec => ImplementsI2cApi
<1>1. Init => I2cApi!Init
  BY DEF Init, ProcInit, I2cInit, I2cApi!Init, I2cOpened
<1>2. IInv /\ IInv' /\ [Next]_vars => [I2cApi!Next]_I2cApi!apiVars
  <2> SUFFICES ASSUME IInv, IInv', [Next]_vars PROVE [I2cApi!Next]_I2cApi!apiVars
    OBVIOUS
  <2>1. ASSUME NEW t \in Threads, Step(t) PROVE I2cApi!Next
    BY <2>1, QuietRefines, SpiIsQuiet, GpioIsI2cQuiet, I2cRefines DEF Step
  <2>2. CASE UNCHANGED vars
    BY <2>2, QuietRefines, SameDevIsQuiet DEF vars, procVars
  <2> QED
    BY <2>1, <2>2 DEF Next
<1> QED
  BY <1>1, <1>2, InitIInv, NextIInv, PTL DEF Spec, ImplementsI2cApi, I2cApi!Spec
-----------------------------------------------------------------------------
(***************************************************************************)
(* What a step of one thread does to the calls and the handles of the      *)
(* others.  The process sees twelve kinds of steps, whichever API makes    *)
(* them.                                                                   *)
(***************************************************************************)

(* The client, between two calls of thread t. *)
ClientStep(t) ==
  \/ pc[t] = "idle" /\ UNCHANGED procVars
  \/ \E r : Immediate(t, r)
  \/ \E n \in FDs : dev[n] # None /\ CloseHandle(t, n)

(* A call of thread t opens a descriptor, its first or the next one. *)
OpeningStep(t) ==
  \/ \E c, node, label : EnterOpening(t, c, node, label)
  \/ /\ pc[t] = "gpio_dir_open" /\ UNCHANGED dev
     /\ \E node : SysOpen(t, node) /\ Proceed(t, "gpio_dir_write")

(* A call of thread t gives its descriptor up: to nobody, or to the client. *)
YieldingStep(t) ==
  \/ pc[t] \in Holding /\ \E r : Abandon(t, r)
  \/ pc[t] = "gpio_export" /\ WriteAndClose(t, "gpio_stat")
  \/ pc[t] = "i2c_slave" /\ BindSlave(fd[t], call[t].arg) /\ HandOver(t)
  \/ pc[t] = "spi_speed" /\ UNCHANGED file /\ HandOver(t)

(* A call of thread t goes on, or returns, with the descriptors as they are. *)
PassingStep(t) ==
  /\ UNCHANGED <<file, dev, fd>>
  /\ \/ pc[t] = "spi_mode" /\ Proceed(t, "spi_speed")
     \/ pc[t] = "gpio_stat" /\ Proceed(t, "gpio_dir_open")
     \/ pc[t] \in {"gpio_stat", "gpio_dir_open"} /\ \E r : Return(t, r)

LEMMA KindsOfSteps ==
  ASSUME NEW t \in Threads, Step(t)
  PROVE  ClientStep(t) \/ OpeningStep(t) \/ YieldingStep(t) \/ PassingStep(t)
<1> DEFINE Kind == ClientStep(t) \/ OpeningStep(t) \/ YieldingStep(t) \/ PassingStep(t)
<1> SUFFICES Kind
  OBVIOUS
<1>1. /\ (\E r : Immediate(t, r)) => Kind
      /\ (\E c, node, label : EnterOpening(t, c, node, label)) => Kind
      /\ pc[t] = "idle" /\ UNCHANGED procVars => Kind
      /\ (\E n \in FDs : dev[n] # None /\ CloseHandle(t, n)) => Kind
  BY DEF ClientStep, OpeningStep
<1>2. pc[t] \in Holding /\ (\E r : Abandon(t, r)) => Kind
  BY DEF YieldingStep
<1>3. {"i2c_slave", "spi_mode", "spi_speed", "gpio_dir_write", "gpio_value_write",
       "gpio_value_read"} \subseteq Holding
  BY DEF Holding, Labels, GpioLabels
<1> HIDE DEF Kind
<1>4. CASE I2cStep(t)
  <2>1. ASSUME I2cSetSlave(t) PROVE Kind
    BY <1>2, <1>3, <2>1 DEF I2cSetSlave, YieldingStep, Kind
  <2>2. ASSUME NEW b \in I2cBuses, I2cClose(t, b) PROVE Kind
    BY <1>1, <2>2 DEF I2cClose, I2cDevs
  <2> QED
    BY <1>1, <1>4, <2>1, <2>2
       DEF I2cStep, I2cBusCreate, I2cBusRelease, I2cOpen, I2cRead, I2cWrite
<1>5. CASE SpiStep(t)
  <2>1. ASSUME SpiSetMode(t) PROVE Kind
    BY <1>2, <1>3, <2>1 DEF SpiSetMode, PassingStep, Kind
  <2>2. ASSUME SpiSetSpeed(t) PROVE Kind
    BY <1>2, <1>3, <2>2 DEF SpiSetSpeed, YieldingStep, Kind
  <2>3. ASSUME NEW b \in SpiBuses, SpiClose(t, b) PROVE Kind
    BY <1>1, <2>3 DEF SpiClose, SpiDevs
  <2> QED
    BY <1>1, <1>5, <2>1, <2>2, <2>3 DEF SpiStep, SpiBusCreate, SpiBusRelease, SpiOpen, SpiTransfer
<1>6. CASE GpioStep(t)
  <2>1. ASSUME GpioExport(t) PROVE Kind
    BY <2>1 DEF GpioExport, YieldingStep, Kind
  <2>2. ASSUME GpioStat(t) PROVE Kind
    BY <2>2 DEF GpioStat, PassingStep, Kind
  <2>3. ASSUME GpioDirOpen(t) PROVE Kind
    BY <2>3 DEF GpioDirOpen, OpeningStep, PassingStep, Kind
  <2>4. ASSUME GpioDirWrite(t) \/ GpioValueWrite(t) \/ GpioValueRead(t) PROVE Kind
    BY <1>2, <1>3, <2>4 DEF GpioDirWrite, GpioValueWrite, GpioValueRead
  <2> QED
    BY <1>1, <1>6, <2>1, <2>2, <2>3, <2>4
       DEF GpioStep, GpioChipCreate, GpioOpen, GpioClose, GpioRead, GpioWrite
<1> QED
  BY <1>4, <1>5, <1>6 DEF Step

(* What the owners of descriptors see of a step. *)
Undisturbed ==
  /\ \A t \in Threads : fd[t] # None /\ fd'[t] = fd[t] => file'[fd[t]] = file[fd[t]]
  /\ \A n \in FDs : dev[n] # None /\ dev'[n] # None =>
       dev'[n] = dev[n] /\ file'[n] = file[n]

(* A step that touches one descriptor disturbs nobody, if that descriptor  *)
(* is no handle before it or none after it, and no call keeps it.          *)
LEMMA OneDescriptor ==
  ASSUME ProcTypeOK, NEW m \in FDs,
         \A n \in FDs \ {m} : file'[n] = file[n] /\ dev'[n] = dev[n],
         dev[m] = None \/ dev'[m] = None,
         \A u \in Threads : fd[u] = m => fd'[u] # m
  PROVE  Undisturbed
BY DEF ProcTypeOK, Undisturbed

LEMMA StepsDisturbNobody ==
  ASSUME IInv, NEW t \in Threads, Step(t)
  PROVE  Undisturbed
<1>1. Discipline /\ ProcTypeOK /\ SingleOwner
  BY DEF IInv, TypeOK, Discipline
<1>2. CASE UNCHANGED <<file, dev, fd>>
  BY <1>2 DEF Undisturbed
<1>3. CASE \E n \in FDs : dev[n] # None /\ CloseHandle(t, n)
  <2>1. PICK n \in FDs : dev[n] # None /\ CloseHandle(t, n)
    BY <1>3
  <2>2. dev'[n] = None /\ \A m \in FDs \ {n} : file'[m] = file[m] /\ dev'[m] = dev[m]
    BY <1>1, <2>1 DEF CloseHandle, ProcTypeOK
  <2>3. \A u \in Threads : fd[u] # n
    BY <1>1, <2>1, NoneAssumption DEF SingleOwner
  <2> QED
    BY <1>1, <2>2, <2>3, OneDescriptor
<1>4. CASE OpeningStep(t)
  <2>1. UNCHANGED dev /\ \E node : SysOpen(t, node)
    BY <1>4 DEF OpeningStep, EnterOpening
  <2>2. PICK n \in FDs : /\ file[n] = None
                         /\ \A m \in FDs \ {n} : file'[m] = file[m]
    BY <1>1, <2>1 DEF SysOpen, ProcTypeOK
  <2>3. dev[n] = None /\ \A u \in Threads : fd[u] # n
    BY <1>1, <2>2, NoneAssumption DEF SingleOwner
  <2> QED
    BY <1>1, <2>1, <2>2, <2>3, OneDescriptor
<1>5. CASE YieldingStep(t)
  <2>1. pc[t] \in Holding
    BY <1>5 DEF YieldingStep, Holding, Labels, GpioLabels
  <2>2. /\ fd[t] \in FDs /\ dev[fd[t]] = None
        /\ \A u \in Threads \ {t} : fd[u] # fd[t]
    BY <1>1, <2>1, HoldsOwn
  <2>3. fd' = [fd EXCEPT ![t] = None]
    BY <1>5 DEF YieldingStep, Abandon, WriteAndClose, SysClose, HandOver
  <2>4. \A n \in FDs \ {fd[t]} : file'[n] = file[n] /\ dev'[n] = dev[n]
    BY <1>1, <1>5, <2>2
       DEF YieldingStep, Abandon, WriteAndClose, SysClose, BindSlave, HandOver, ProcTypeOK
  <2>5. \A u \in Threads : fd[u] = fd[t] => fd'[u] # fd[t]
    BY <1>1, <2>2, <2>3, NoneAssumption DEF ProcTypeOK
  <2> QED
    BY <1>1, <2>2, <2>4, <2>5, OneDescriptor
<1> QED
  BY <1>2, <1>3, <1>4, <1>5, KindsOfSteps DEF ClientStep, PassingStep, Immediate, procVars

(* However the calls of any number of threads interleave and fail, what a  *)
(* call or the client holds is changed by its owner alone.                 *)
THEOREM DisturbsNobody == Spec => OwnersUndisturbed
<1>1. IInv /\ [Next]_vars => [Undisturbed]_vars
  BY StepsDisturbNobody DEF Next
<1> QED
  BY <1>1, Inductive, PTL DEF Spec, OwnersUndisturbed, Undisturbed

LEMMA LabelsToReturn ==
  /\ ToReturn["idle"] = 0
  /\ \A l \in {"i2c_slave", "spi_speed", "gpio_dir_write", "gpio_value_write",
               "gpio_value_read"} : ToReturn[l] = 1
  /\ ToReturn["spi_mode"] = 2 /\ ToReturn["gpio_dir_open"] = 2
  /\ ToReturn["gpio_stat"] = 3 /\ ToReturn["gpio_export"] = 4
BY DEF ToReturn, Labels, GpioLabels

(* Each step of a call has fewer system calls after it, whatever fails.    *)
(* The CallsReturn of the runs follows from this and the fairness of the   *)
(* threads.                                                                *)
THEOREM NearsReturn == Spec => CallsAdvance
<1> DEFINE A == \A t \in Threads : pc[t] # "idle" /\ Step(t) => ToReturn[pc'[t]] < ToReturn[pc[t]]
<1>1. ASSUME IInv, NEW t \in Threads, pc[t] # "idle", Step(t)
      PROVE  ToReturn[pc'[t]] < ToReturn[pc[t]]
  <2>1. pc \in [Threads -> Labels]
    BY <1>1 DEF IInv, TypeOK, ProcTypeOK
  <2>2. \A l : Goto(t, l) => pc'[t] = l
    BY <2>1 DEF Goto
  <2>3. ~ClientStep(t)
    BY <1>1 DEF ClientStep, Immediate, CloseHandle
  <2>4. pc'[t] = "idle" => ToReturn[pc'[t]] < ToReturn[pc[t]]
    <3>1. ToReturn[pc[t]] \in 1 .. 4
      BY <1>1, <2>1, LabelsToReturn DEF Labels, GpioLabels
    <3> QED
      BY <3>1, LabelsToReturn
  <2>5. CASE OpeningStep(t)
    <3>1. pc[t] = "gpio_dir_open" /\ pc'[t] = "gpio_dir_write"
      BY <1>1, <2>2, <2>5 DEF OpeningStep, EnterOpening, Proceed
    <3> QED
      BY <3>1, LabelsToReturn
  <2>6. CASE YieldingStep(t)
    <3>1. pc'[t] = "idle" \/ (pc[t] = "gpio_export" /\ pc'[t] = "gpio_stat")
      BY <2>2, <2>6 DEF YieldingStep, Abandon, HandOver, Return, WriteAndClose, Proceed
    <3> QED
      BY <2>4, <3>1, LabelsToReturn
  <2>7. CASE PassingStep(t)
    <3>1. \/ pc'[t] = "idle"
          \/ pc[t] = "spi_mode" /\ pc'[t] = "spi_speed"
          \/ pc[t] = "gpio_stat" /\ pc'[t] = "gpio_dir_open"
      BY <2>2, <2>7 DEF PassingStep, Return, Proceed
    <3> QED
      BY <2>4, <3>1, LabelsToReturn
  <2> QED
    BY <1>1, <2>3, <2>5, <2>6, <2>7, KindsOfSteps
<1>2. IInv /\ [Next]_vars => [A]_vars
  BY <1>1
<1> QED
  BY <1>2, Inductive, PTL DEF Spec, CallsAdvance
=============================================================================
