---------------------------- MODULE I2cDetectProofs ----------------------------
(***************************************************************************)
(* What examples/i2cdetect.c gets right, for every number of descriptors   *)
(* and addresses, and for every set of slaves and of claimed addresses.    *)
(***************************************************************************)
EXTENDS I2cDetect, TLAPS

Typed ==
  /\ DOMAIN file = FDs /\ DOMAIN dev = FDs
  /\ pc \in [Threads -> {"idle", "i2c_slave"}] /\ fd \in [Threads -> FDs \cup {None}]
  /\ DOMAIN call = Threads /\ DOMAIN ret = Threads /\ DOMAIN i2cBus = I2cBuses
  /\ address \in I2cAddrs /\ i2c_dev \in FDs \cup {None}
  /\ DOMAIN shown = I2cAddrs
  /\ at \in {"create", "failed", "open", "write", "close", "release", "done"}

AllClosed == \A n \in FDs : file[n] = None /\ dev[n] = None

(* At most descriptor n is open. *)
OnlyOpen(n) == n \in FDs /\ \A m \in FDs \ {n} : file[m] = None /\ dev[m] = None

(* Between the two system calls of an open, its descriptor is the only one. *)
Opening ==
  pc[main] = "i2c_slave" =>
    /\ at = "open" /\ i2cBus[bus] \in I2cAdapters
    /\ call[main] = Call("i2c_open", bus, address)
    /\ OnlyOpen(fd[main]) /\ dev[fd[main]] = None
    /\ file[fd[main]] = [node |-> I2cNode(bus), slave |-> None]

(* A handle leads to the address it was opened for, until it is closed. *)
Probing ==
  at = "write" =>
    /\ i2cBus[bus] \in I2cAdapters /\ address \notin claimed
    /\ OnlyOpen(i2c_dev) /\ dev[i2c_dev] = Call("i2c_open", bus, address)
    /\ file[i2c_dev].slave = address

Closing ==
  at = "close" =>
    AllClosed \/ (OnlyOpen(i2c_dev) /\ dev[i2c_dev] = Call("i2c_open", bus, address))

(* At the start of a turn, and outside the loop, nothing is open. *)
BetweenTurns ==
  pc[main] = "idle" /\ at \notin {"write", "close"} => AllClosed

TurnInv == Typed /\ Opening /\ Probing /\ Closing /\ BetweenTurns

(* What the map says of address a is true. *)
Right(a) ==
  \/ shown[a] = IF a \in claimed THEN "   " ELSE IF a \in slaves THEN "found" ELSE "--"
  \/ shown[a] = "   " /\ i2cBus[bus] \notin I2cAdapters

IInv == TurnInv /\ (at = "create" => address = 1) /\ MapIsTrue

-----------------------------------------------------------------------------

LEMMA OneThread ==
  /\ Threads = {main} /\ main \in Threads /\ I2cBuses = {bus} /\ bus \in I2cBuses
  /\ I2cAddrs = 1 .. Last /\ Last \in Nat \ {0} /\ 1 \in I2cAddrs
  /\ None \notin FDs /\ None \notin I2cAdapters
  /\ \A a \in I2cAddrs : Call("i2c_open", bus, a) # None
<1>1. Threads = {main} /\ I2cBuses = {bus} /\ Last \in Nat \ {0} /\ I2cAddrs = 1 .. Last
  BY I2cDetectAssumption
<1>2. \A a \in I2cAddrs : Call("i2c_open", bus, a) # None
  BY I2cDetectAssumption
<1>3. None \notin FDs /\ None \notin I2cAdapters
  BY NoneAssumption, I2cAssumption
<1>4. 1 \in 1 .. Last
  BY <1>1
<1> QED
  BY <1>1, <1>2, <1>3, <1>4

(* A step that leaves the process and the handle alone. *)
LEMMA ProcessKept ==
  ASSUME TurnInv, UNCHANGED <<procVars, i2cBus, i2c_dev>>
  PROVE  /\ AllClosed => AllClosed'
         /\ \A n : OnlyOpen(n) => OnlyOpen(n)'
BY DEF procVars, AllClosed, OnlyOpen

LEMMA InitTurn == Init => TurnInv
<1> SUFFICES ASSUME Init PROVE TurnInv
  OBVIOUS
<1>1. pc[main] = "idle" /\ at = "create" /\ AllClosed
  BY OneThread DEF Init, ProcInit, AllClosed
<1>2. Typed
  BY OneThread DEF Init, ProcInit, I2cInit, Typed
<1> QED
  BY <1>1, <1>2 DEF TurnInv, Opening, Probing, Closing, BetweenTurns

LEMMA CreateKeeps == TurnInv /\ Create => TurnInv'
<1> SUFFICES ASSUME TurnInv, Create PROVE TurnInv'
  OBVIOUS
<1>1. /\ pc[main] = "idle" /\ pc' = [pc EXCEPT ![main] = "idle"]
      /\ UNCHANGED <<file, dev, fd>>
      /\ DOMAIN call' = DOMAIN call /\ DOMAIN ret' = DOMAIN ret
  BY DEF Create, I2cBusCreate, Immediate, Return, Goto
<1>2. DOMAIN i2cBus' = DOMAIN i2cBus
  BY DEF Create, I2cBusCreate
<1>3. at = "create" /\ at' \in {"open", "failed"} /\ UNCHANGED <<address, i2c_dev, shown>>
  BY DEF Create
<1>4. AllClosed'
  BY <1>1, <1>3 DEF TurnInv, BetweenTurns, AllClosed
<1>5. pc'[main] = "idle" /\ Typed'
  BY <1>1, <1>2, <1>3, OneThread DEF TurnInv, Typed
<1> QED
  BY <1>3, <1>4, <1>5 DEF TurnInv, Opening, Probing, Closing, BetweenTurns

(* The ways through a step of an open: what the process does and what main *)
(* does with it.                                                           *)
OpenRefused ==
  /\ \E r : Immediate(main, r)
  /\ at' = "close" /\ UNCHANGED i2c_dev /\ Show("   ") /\ Refused

OpenEntered ==
  /\ pc[main] = "idle" /\ i2cBus[bus] \in I2cAdapters
  /\ EnterOpening(main, Call("i2c_open", bus, address), I2cNode(bus), "i2c_slave")
  /\ UNCHANGED <<at, i2c_dev, shown>>

OpenBound ==
  /\ pc[main] = "i2c_slave" /\ address \notin claimed
  /\ BindSlave(fd[main], call[main].arg) /\ HandOver(main)
  /\ at' = "write" /\ i2c_dev' = fd[main] /\ UNCHANGED shown

OpenGivenUp ==
  /\ pc[main] = "i2c_slave" /\ address \in claimed
  /\ Abandon(main, MCUPR_RES_IO_ERROR)
  /\ at' = "close" /\ UNCHANGED i2c_dev /\ Show("   ")

LEMMA OpenWays ==
  ASSUME Typed, OpenDevice
  PROVE  OpenRefused \/ OpenEntered \/ OpenBound \/ OpenGivenUp
<1> USE OneThread DEF Typed
<1>1. /\ pc'[main] # "idle" => ~Refused /\ UNCHANGED <<at, i2c_dev, shown>>
      /\ pc'[main] = "idle" /\ ret'[main] = MCUPR_RES_OK =>
           ~Refused /\ at' = "write" /\ i2c_dev' = fd[main] /\ UNCHANGED shown
      /\ pc'[main] = "idle" /\ ret'[main] # MCUPR_RES_OK =>
           Refused /\ at' = "close" /\ UNCHANGED i2c_dev /\ Show("   ")
  BY DEF OpenDevice, OpenStep
<1>2. ASSUME NEW r, r # MCUPR_RES_OK, Immediate(main, r) PROVE OpenRefused
  <2>1. pc'[main] = "idle" /\ ret'[main] = r
    BY <1>2 DEF Immediate, Return, Goto
  <2> QED
    BY <1>1, <1>2, <2>1 DEF OpenRefused
<1>3. MCUPR_RES_INVALID_OBJ # MCUPR_RES_OK /\ MCUPR_RES_NODEV # MCUPR_RES_OK
      /\ MCUPR_RES_IO_ERROR # MCUPR_RES_OK
  BY DEF MCUPR_RES_INVALID_OBJ, MCUPR_RES_NODEV, MCUPR_RES_IO_ERROR, MCUPR_RES_OK
<1>4. CASE I2cOpen(main, bus, address)
  <2>1. CASE /\ i2cBus[bus] \in I2cAdapters
             /\ EnterOpening(main, Call("i2c_open", bus, address), I2cNode(bus), "i2c_slave")
    <3>1. pc[main] = "idle" /\ pc'[main] = "i2c_slave"
      BY <2>1 DEF EnterOpening, Goto
    <3> QED
      BY <1>1, <2>1, <3>1 DEF OpenEntered
  <2> QED
    BY <1>2, <1>3, <1>4, <2>1 DEF I2cOpen
<1>5. CASE I2cSetSlave(main)
  <2>1. pc[main] = "i2c_slave"
    BY <1>5 DEF I2cSetSlave
  <2>2. CASE BindSlave(fd[main], call[main].arg) /\ HandOver(main)
    <3>1. pc'[main] = "idle" /\ ret'[main] = MCUPR_RES_OK
      BY <2>2 DEF HandOver, Return, Goto
    <3> QED
      BY <1>1, <2>1, <2>2, <3>1 DEF OpenBound, Refused
  <2>3. CASE Abandon(main, MCUPR_RES_IO_ERROR)
    <3>1. pc'[main] = "idle" /\ ret'[main] = MCUPR_RES_IO_ERROR
      BY <2>3 DEF Abandon, Return, Goto
    <3> QED
      BY <1>1, <1>3, <2>1, <2>3, <3>1 DEF OpenGivenUp, Refused
  <2> QED
    BY <1>5, <2>2, <2>3 DEF I2cSetSlave
<1> QED
  BY <1>4, <1>5 DEF OpenDevice, OpenStep

LEMMA OpenKeepsTypes ==
  ASSUME Typed, OpenDevice
  PROVE  Typed'
<1> USE OneThread DEF Typed
<1>1. UNCHANGED <<i2cBus, address>>
  BY DEF OpenDevice, OpenStep, I2cOpen, I2cSetSlave
<1>2. CASE OpenRefused
  <2>1. DOMAIN shown' = DOMAIN shown
    BY <1>2 DEF OpenRefused, Show
  <2>2. /\ pc' = [pc EXCEPT ![main] = "idle"] /\ UNCHANGED <<file, dev, fd>>
        /\ DOMAIN call' = DOMAIN call /\ DOMAIN ret' = DOMAIN ret
    BY <1>2 DEF OpenRefused, Immediate, Return, Goto
  <2> QED
    BY <1>1, <1>2, <2>1, <2>2 DEF OpenRefused
<1>3. CASE OpenEntered
  <2>1. /\ \E n \in FDs : fd' = [fd EXCEPT ![main] = n]
        /\ DOMAIN file' = DOMAIN file /\ DOMAIN call' = DOMAIN call
        /\ UNCHANGED <<dev, ret>> /\ pc' = [pc EXCEPT ![main] = "i2c_slave"]
    BY <1>3 DEF OpenEntered, EnterOpening, SysOpen, Goto
  <2> QED
    BY <1>1, <1>3, <2>1 DEF OpenEntered
<1>4. CASE OpenBound
  <2>1. /\ fd' = [fd EXCEPT ![main] = None] /\ pc' = [pc EXCEPT ![main] = "idle"]
        /\ DOMAIN file' = DOMAIN file /\ DOMAIN dev' = DOMAIN dev
        /\ DOMAIN call' = DOMAIN call /\ DOMAIN ret' = DOMAIN ret
    BY <1>4 DEF OpenBound, BindSlave, HandOver, Return, Goto
  <2> QED
    BY <1>1, <1>4, <2>1 DEF OpenBound
<1>5. CASE OpenGivenUp
  <2>1. /\ fd' = [fd EXCEPT ![main] = None] /\ pc' = [pc EXCEPT ![main] = "idle"]
        /\ DOMAIN file' = DOMAIN file /\ UNCHANGED dev
        /\ DOMAIN call' = DOMAIN call /\ DOMAIN ret' = DOMAIN ret
        /\ DOMAIN shown' = DOMAIN shown
    BY <1>5 DEF OpenGivenUp, Abandon, SysClose, Return, Goto, Show
  <2> QED
    BY <1>1, <1>5, <2>1 DEF OpenGivenUp
<1> QED
  BY <1>2, <1>3, <1>4, <1>5, OpenWays

LEMMA OpenKeeps == TurnInv /\ OpenDevice => TurnInv'
<1> SUFFICES ASSUME TurnInv, OpenDevice PROVE TurnInv'
  OBVIOUS
<1> USE OneThread
<1>1. Typed /\ Typed'
  BY OpenKeepsTypes DEF TurnInv
<1>2. at = "open" /\ UNCHANGED <<i2cBus, claimed, address>>
  BY DEF OpenDevice, OpenStep, I2cOpen, I2cSetSlave
<1>3. CASE OpenRefused
  <2>1. pc[main] = "idle" /\ pc'[main] = "idle" /\ UNCHANGED <<file, dev>>
    BY <1>1, <1>3 DEF OpenRefused, Immediate, Return, Goto, Typed
  <2>2. AllClosed'
    BY <1>2, <2>1 DEF TurnInv, BetweenTurns, AllClosed
  <2> QED
    BY <1>1, <1>3, <2>1, <2>2
    DEF OpenRefused, TurnInv, Opening, Probing, Closing, BetweenTurns
<1>4. CASE OpenEntered
  <2>1. AllClosed
    BY <1>2, <1>4 DEF OpenEntered, TurnInv, BetweenTurns
  <2>2. PICK n \in FDs : /\ file' = [file EXCEPT ![n] = [node |-> I2cNode(bus), slave |-> None]]
                         /\ fd' = [fd EXCEPT ![main] = n]
    BY <1>4 DEF OpenEntered, EnterOpening, SysOpen
  <2>3. /\ pc'[main] = "i2c_slave" /\ call'[main] = Call("i2c_open", bus, address)
        /\ fd'[main] = n /\ UNCHANGED <<dev, at>>
        /\ file'[n] = [node |-> I2cNode(bus), slave |-> None]
    BY <1>1, <1>4, <2>2 DEF OpenEntered, EnterOpening, Goto, Typed
  <2>4. OnlyOpen(n)' /\ dev'[n] = None
    BY <1>1, <2>1, <2>2, <2>3 DEF AllClosed, OnlyOpen, Typed
  <2>5. I2cNode(bus)' = I2cNode(bus) /\ Call("i2c_open", bus, address)' = Call("i2c_open", bus, address)
    BY <1>2 DEF I2cNode, Call
  <2>6. Opening'
    BY <1>2, <1>4, <2>3, <2>4, <2>5 DEF Opening, OpenEntered, OnlyOpen
  <2> QED
    BY <1>1, <1>2, <2>3, <2>6 DEF TurnInv, Probing, Closing, BetweenTurns
<1>5. CASE OpenBound
  <2>1. PICK n \in FDs :
          /\ n = fd[main] /\ OnlyOpen(n) /\ file[n] = [node |-> I2cNode(bus), slave |-> None]
          /\ i2cBus[bus] \in I2cAdapters /\ call[main] = Call("i2c_open", bus, address)
    BY <1>5 DEF OpenBound, TurnInv, Opening, OnlyOpen
  <2>2. call[main].arg = address
    BY <2>1 DEF Call
  <2>3. /\ file' = [file EXCEPT ![n].slave = address] /\ dev' = [dev EXCEPT ![n] = call[main]]
        /\ pc'[main] = "idle"
    BY <1>1, <1>5, <2>1, <2>2 DEF OpenBound, BindSlave, HandOver, Return, Goto, Typed
  <2>4. file'[n] = [file[n] EXCEPT !.slave = address]
    BY <1>1, <2>3 DEF Typed
  <2>5. file'[n].slave = address /\ dev'[n] = Call("i2c_open", bus, address)
    BY <1>1, <2>1, <2>3, <2>4 DEF Typed
  <2>6. OnlyOpen(n)'
    BY <1>1, <2>1, <2>3 DEF OnlyOpen, Typed
  <2>7. at' = "write" /\ i2c_dev' = n /\ address \notin claimed
    BY <1>5, <2>1 DEF OpenBound
  <2>8. Probing'
    BY <1>2, <2>1, <2>5, <2>6, <2>7 DEF Probing, OnlyOpen, Call
  <2> QED
    BY <1>1, <2>3, <2>7, <2>8 DEF TurnInv, Opening, Closing, BetweenTurns
<1>6. CASE OpenGivenUp
  <2> DEFINE n == fd[main]
  <2>1. OnlyOpen(n) /\ dev[n] = None
    BY <1>6 DEF OpenGivenUp, TurnInv, Opening
  <2>2. file' = [file EXCEPT ![n] = None] /\ UNCHANGED dev /\ pc'[main] = "idle"
    BY <1>1, <1>6 DEF OpenGivenUp, Abandon, SysClose, Return, Goto, Typed
  <2>3. AllClosed'
    BY <1>1, <2>1, <2>2 DEF OnlyOpen, AllClosed, Typed
  <2> QED
    BY <1>1, <1>6, <2>2, <2>3 DEF OpenGivenUp, TurnInv, Opening, Probing, Closing, BetweenTurns
<1> QED
  BY <1>1, <1>3, <1>4, <1>5, <1>6, OpenWays

(* A probe opens and closes nothing. *)
LEMMA ProbeKeeps == TurnInv /\ Probe => TurnInv'
<1> SUFFICES ASSUME TurnInv, Probe PROVE TurnInv'
  OBVIOUS
<1>1. at = "write" /\ at' = "close" /\ UNCHANGED <<i2cBus, address, i2c_dev>>
  BY DEF Probe, I2cWrite, I2cRead
<1>2. /\ pc[main] = "idle" /\ pc' = [pc EXCEPT ![main] = "idle"] /\ UNCHANGED <<file, dev, fd>>
      /\ DOMAIN call' = DOMAIN call /\ DOMAIN ret' = DOMAIN ret
  BY DEF Probe, I2cWrite, I2cRead, Immediate, Return, Goto
<1>3. DOMAIN shown' = DOMAIN shown
  BY DEF Probe, Show
<1>4. pc'[main] = "idle" /\ Typed'
  BY <1>1, <1>2, <1>3, OneThread DEF TurnInv, Typed
<1>5. OnlyOpen(i2c_dev)' /\ dev'[i2c_dev'] = Call("i2c_open", bus, address')
  BY <1>1, <1>2 DEF TurnInv, Probing, OnlyOpen
<1> QED
  BY <1>1, <1>4, <1>5 DEF TurnInv, Opening, Probing, Closing, BetweenTurns, Call

(* close(i2c_dev) closes what is open, whether or not the open succeeded.  *)
LEMMA CloseKeeps == TurnInv /\ Close => TurnInv'
<1> SUFFICES ASSUME TurnInv, Close PROVE TurnInv'
  OBVIOUS
<1> USE OneThread
<1>1. at = "close" /\ UNCHANGED <<i2cBus, i2c_dev, shown>>
  BY DEF Close
<1>2. pc[main] = "idle"
  BY <1>1 DEF TurnInv, Typed, Opening
<1>3. address' \in I2cAddrs /\ at' \in {"open", "release"}
  <2>1. address \in 1 .. Last /\ Last \in Nat
    BY DEF TurnInv, Typed
  <2> QED
    BY <2>1 DEF Close, NextAddress
<1>4. UNCHANGED <<pc, fd, call, ret>> /\ DOMAIN file' = DOMAIN file /\ DOMAIN dev' = DOMAIN dev
  BY DEF Close, CloseDev, CloseHandle, procVars
<1>5. Typed'
  BY <1>1, <1>3, <1>4 DEF TurnInv, Typed
<1>6. AllClosed'
  <2>1. CASE AllClosed
    <3>1. I2cDevs(bus) = {}
      BY <2>1 DEF AllClosed, I2cDevs
    <3> QED
      BY <2>1, <3>1 DEF Close, CloseDev, procVars, AllClosed
  <2>2. CASE OnlyOpen(i2c_dev) /\ dev[i2c_dev] = Call("i2c_open", bus, address)
    <3>1. i2c_dev \in I2cDevs(bus)
      BY <2>2 DEF OnlyOpen, I2cDevs, Call, TurnInv, Typed
    <3>2. /\ file' = [file EXCEPT ![i2c_dev] = None] /\ dev' = [dev EXCEPT ![i2c_dev] = None]
      BY <3>1 DEF Close, CloseDev, CloseHandle
    <3> QED
      BY <2>2, <3>2 DEF OnlyOpen, AllClosed, TurnInv, Typed
  <2> QED
    BY <1>1, <2>1, <2>2 DEF TurnInv, Closing
<1> QED
  BY <1>2, <1>3, <1>4, <1>5, <1>6 DEF TurnInv, Opening, Probing, Closing, BetweenTurns

LEMMA ReleaseKeeps == TurnInv /\ Release => TurnInv'
<1> SUFFICES ASSUME TurnInv, Release PROVE TurnInv'
  OBVIOUS
<1>1. /\ at = "release" /\ at' = "done" /\ pc[main] = "idle" /\ UNCHANGED procVars
      /\ UNCHANGED <<address, i2c_dev, shown>> /\ DOMAIN i2cBus' = DOMAIN i2cBus
  BY DEF Release, I2cBusRelease
<1>2. AllClosed'
  BY <1>1 DEF TurnInv, BetweenTurns, AllClosed, procVars
<1>3. Typed'
  BY <1>1 DEF TurnInv, Typed, procVars
<1> QED
  BY <1>1, <1>2, <1>3 DEF procVars, TurnInv, Opening, Probing, Closing, BetweenTurns

LEMMA StutterKeeps == TurnInv /\ UNCHANGED vars => TurnInv'
<1> SUFFICES ASSUME TurnInv, UNCHANGED vars PROVE TurnInv'
  OBVIOUS
<1>1. UNCHANGED <<file, dev, pc, fd, call, ret, i2cBus, claimed, at, address, i2c_dev, shown>>
  BY DEF vars, procVars, detectVars
<1>2. Typed' /\ Opening' /\ Closing'
  BY <1>1 DEF TurnInv, Typed, Opening, Closing, AllClosed, OnlyOpen, I2cNode, Call
<1>3. Probing' /\ BetweenTurns'
  BY <1>1 DEF TurnInv, Probing, BetweenTurns, AllClosed, OnlyOpen, Call
<1> QED
  BY <1>2, <1>3 DEF TurnInv

LEMMA NextTurn == TurnInv /\ [Next]_vars => TurnInv'
BY CreateKeeps, OpenKeeps, ProbeKeeps, CloseKeeps, ReleaseKeeps, StutterKeeps DEF Next

LEMMA AlwaysTurn == Spec => []TurnInv
BY InitTurn, NextTurn, PTL DEF Spec

(* Every turn of the loop of examples/i2cdetect.c closes what it opened,   *)
(* on all three ways through it.                                           *)
THEOREM ClosesAll == Spec => []NothingLeftOpen
<1>1. TurnInv => NothingLeftOpen
  BY DEF TurnInv, BetweenTurns, AllClosed, NothingLeftOpen
<1> QED
  BY <1>1, AlwaysTurn, PTL

(* Every step of the scan brings its end nearer; the Finishes of the runs  *)
(* follows from this and the fairness of the process.                      *)
THEOREM NearsEnd == Spec => ScanAdvances
<1> DEFINE Start == at = "create" => address = 1
           A == StepsLeft' \in 0 .. StepsLeft - 1
<1>1. Init => Start
  BY DEF Init
<1>2. Start /\ [Next]_vars => Start'
  BY DEF Next, vars, detectVars, Create, OpenDevice, OpenStep, Probe, Close, NextAddress, Release
<1>3. TurnInv /\ Start /\ [Next]_vars => [A]_vars
  <2> SUFFICES ASSUME TurnInv, Start, Next PROVE A
    OBVIOUS
  <2>1. Typed
    BY DEF TurnInv
  <2>2. address \in 1 .. Last /\ Last \in Nat \ {0} /\ address \in Int
    BY <2>1, OneThread DEF Typed
  <2>3. CASE Create
    <3>1. at = "create" /\ address = 1 /\ UNCHANGED address /\ at' \in {"open", "failed"}
      BY <2>3 DEF Create
    <3>2. StepsLeft = 4 * Last + 2
      BY <3>1 DEF StepsLeft
    <3>3. StepsLeft' \in {0, 4 * (Last - 1) + 5, 4 * (Last - 1) + 4}
      BY <3>1 DEF StepsLeft
    <3> QED
      BY <2>2, <3>2, <3>3
  <2>4. CASE OpenDevice
    <3>1. at = "open" /\ UNCHANGED address
      BY <2>4 DEF OpenDevice, OpenStep
    <3>2. CASE at' \in {"write", "close"}
      <4>1. StepsLeft \in {4 * (Last - address) + 5, 4 * (Last - address) + 4}
        BY <3>1 DEF StepsLeft
      <4>2. StepsLeft' \in {4 * (Last - address) + 3, 4 * (Last - address) + 2}
        BY <3>1, <3>2 DEF StepsLeft
      <4> QED
        BY <2>2, <4>1, <4>2
    <3>3. CASE OpenEntered
      <4>1. at' = "open" /\ pc[main] = "idle" /\ pc'[main] # "idle"
        BY <2>1, <3>1, <3>3, OneThread DEF OpenEntered, EnterOpening, Goto, Typed
      <4>2. StepsLeft = 4 * (Last - address) + 5
        BY <3>1, <4>1 DEF StepsLeft
      <4>3. StepsLeft' = 4 * (Last - address) + 4
        BY <3>1, <4>1 DEF StepsLeft
      <4> QED
        BY <2>2, <4>2, <4>3
    <3> QED
      BY <2>1, <2>4, <3>2, <3>3, OpenWays DEF OpenRefused, OpenBound, OpenGivenUp
  <2>5. CASE Probe
    <3>1. at = "write" /\ at' = "close" /\ UNCHANGED address
      BY <2>5 DEF Probe
    <3>2. StepsLeft = 4 * (Last - address) + 3 /\ StepsLeft' = 4 * (Last - address) + 2
      BY <3>1 DEF StepsLeft
    <3> QED
      BY <2>2, <3>2
  <2>6. CASE Close
    <3>1. StepsLeft = 4 * (Last - address) + 2
      BY <2>6 DEF Close, StepsLeft
    <3>2. CASE address < Last
      <4>1. at' = "open" /\ address' = address + 1
        BY <2>6, <3>2 DEF Close, NextAddress
      <4>2. StepsLeft' \in {4 * (Last - (address + 1)) + 5, 4 * (Last - (address + 1)) + 4}
        BY <4>1 DEF StepsLeft
      <4> QED
        BY <2>2, <3>1, <3>2, <4>2
    <3>3. CASE ~(address < Last)
      <4>1. at' = "release"
        BY <2>6, <3>3 DEF Close, NextAddress
      <4>2. StepsLeft' = 1
        BY <4>1 DEF StepsLeft
      <4> QED
        BY <2>2, <3>1, <4>2
    <3> QED
      BY <3>2, <3>3
  <2>7. CASE Release
    <3>1. StepsLeft = 1 /\ StepsLeft' = 0
      BY <2>7 DEF Release, StepsLeft
    <3> QED
      BY <3>1
  <2> QED
    BY <2>3, <2>4, <2>5, <2>6, <2>7 DEF Next
<1> QED
  BY <1>1, <1>2, <1>3, AlwaysTurn, PTL DEF Spec, ScanAdvances

-----------------------------------------------------------------------------

LEMMA MapSays == MapIsTrue <=> \A a \in Scanned : Right(a)
BY DEF MapIsTrue, Right

LEMMA MapSaysNext == (MapIsTrue <=> \A a \in Scanned : Right(a))'
BY MapSays, PTL

(* What is printed for the address of this turn leaves the rest of the map *)
(* as it is.                                                               *)
LEMMA ShowKeepsMap ==
  ASSUME IInv, NEW what, Show(what), at \in {"open", "write"}, at' = "close",
         UNCHANGED <<i2cBus, slaves, claimed, address>>, Right(address)'
  PROVE  MapIsTrue'
<1>1. address \in I2cAddrs /\ DOMAIN shown = I2cAddrs /\ address \in Int /\ I2cAddrs \subseteq Int
  BY OneThread DEF IInv, TurnInv, Typed
<1>2. ASSUME NEW a \in Scanned', a # address PROVE Right(a)'
  <2>1. a \in Scanned
    BY <1>2 DEF Scanned
  <2>2. shown'[a] = shown[a]
    BY <1>1, <1>2 DEF Show, Scanned
  <2> QED
    BY <2>1, <2>2, MapSays DEF IInv, Right
<1>3. \A a \in Scanned' : Right(a)'
  BY <1>2
<1> QED
  BY <1>3, MapSaysNext

(* A step that prints nothing. *)
LEMMA SameMap ==
  ASSUME IInv, UNCHANGED <<slaves, claimed, shown>>, Scanned' \subseteq Scanned,
         i2cBus'[bus] \in I2cAdapters => i2cBus[bus] \in I2cAdapters
  PROVE  MapIsTrue'
<1>1. \A a \in Scanned' : Right(a)'
  BY MapSays DEF IInv, Right
<1> QED
  BY <1>1, MapSaysNext

LEMMA OpenMaps ==
  ASSUME IInv, OpenDevice, FDs # {}
  PROVE  MapIsTrue'
<1>1. TurnInv /\ Typed /\ at = "open" /\ UNCHANGED <<i2cBus, slaves, claimed, address>>
  BY DEF IInv, TurnInv, OpenDevice, OpenStep, I2cOpen, I2cSetSlave
<1>2. CASE Show("   ") /\ at' = "close" /\ (i2cBus[bus] \notin I2cAdapters \/ address \in claimed)
  <2>1. shown'[address] = "   "
    BY <1>1, <1>2 DEF Show, Typed
  <2>2. Right(address)'
    BY <1>1, <1>2, <2>1 DEF Right
  <2> QED
    BY <1>1, <1>2, <2>2, ShowKeepsMap
<1>3. CASE OpenRefused
  <2>1. pc[main] = "idle"
    BY <1>3 DEF OpenRefused, Immediate
  <2>2. ~\A n \in FDs : file[n] # None
    BY <1>1, <2>1 DEF TurnInv, BetweenTurns, AllClosed
  <2> QED
    BY <1>2, <1>3, <2>1, <2>2 DEF OpenRefused, Refused
<1>4. CASE OpenGivenUp
  BY <1>2, <1>4 DEF OpenGivenUp
<1>5. CASE UNCHANGED shown /\ at' \in {"open", "write"}
  <2>1. Scanned' \subseteq Scanned
    BY <1>1, <1>5 DEF Scanned
  <2> QED
    BY <1>1, <1>5, <2>1, SameMap
<1>6. OpenEntered \/ OpenBound => UNCHANGED shown /\ at' \in {"open", "write"}
  BY <1>1 DEF OpenEntered, OpenBound
<1> QED
  BY <1>1, <1>3, <1>4, <1>5, <1>6, OpenWays

LEMMA ProbeMaps == IInv /\ Probe => MapIsTrue'
<1> SUFFICES ASSUME IInv, Probe PROVE MapIsTrue'
  OBVIOUS
<1> DEFINE what == IF ret'[main] < 0 THEN "--" ELSE "found"
<1>1. /\ at = "write" /\ at' = "close" /\ UNCHANGED <<i2cBus, slaves, claimed, address>>
      /\ ret'[main] >= 0 <=> file[i2c_dev].slave \in slaves
      /\ shown' = [shown EXCEPT ![address] = what]
  BY DEF Probe, Show, I2cWrite, I2cRead
<1>2. ret'[main] \in Int
  <2>1. ASSUME NEW r \in Int, Immediate(main, r) PROVE ret'[main] \in Int
    BY <2>1, OneThread DEF Immediate, Return, IInv, TurnInv, Typed
  <2>2. MCUPR_RES_INVALID_OBJ \in Int /\ MCUPR_RES_IO_ERROR \in Int /\ 0 .. 0 \subseteq Int
    BY DEF MCUPR_RES_INVALID_OBJ, MCUPR_RES_IO_ERROR
  <2> QED
    BY <2>1, <2>2 DEF Probe, I2cWrite, I2cRead
<1>3. file[i2c_dev].slave = address /\ address \notin claimed
  BY <1>1 DEF IInv, TurnInv, Probing
<1>4. what = IF address \in slaves THEN "found" ELSE "--"
  BY <1>1, <1>2, <1>3
<1>5. shown'[address] = what
  BY <1>1 DEF IInv, TurnInv, Typed
<1>6. Right(address)'
  BY <1>1, <1>3, <1>4, <1>5 DEF Right
<1>7. Show(what)
  BY <1>1 DEF Show
<1> QED
  BY <1>1, <1>6, <1>7, ShowKeepsMap

LEMMA CloseMaps == IInv /\ Close => MapIsTrue'
<1> SUFFICES ASSUME IInv, Close PROVE MapIsTrue'
  OBVIOUS
<1>1. at = "close" /\ UNCHANGED <<i2cBus, slaves, claimed, shown>>
  BY DEF Close
<1>2. address \in Int /\ I2cAddrs \subseteq Int
  BY OneThread DEF IInv, TurnInv, Typed
<1>3. \/ address' = address + 1 /\ at' = "open"
      \/ address' = address /\ at' = "release"
  BY DEF Close, NextAddress
<1>4. ASSUME NEW a \in Scanned' PROVE a \in Scanned
  <2>1. /\ a \in I2cAddrs /\ a \in Int
        /\ a < address' \/ (a = address' /\ at' \in {"close", "release", "done"})
    BY <1>2, <1>4 DEF Scanned
  <2>2. a < address \/ a = address
    BY <1>2, <1>3, <2>1
  <2> QED
    BY <1>1, <2>1, <2>2 DEF Scanned
<1> QED
  BY <1>1, <1>4, SameMap

(* Before the first open nothing has been printed. *)
LEMMA CreateMaps == IInv /\ Create => MapIsTrue'
<1> SUFFICES ASSUME IInv, Create PROVE MapIsTrue'
  OBVIOUS
<1>1. address' = 1 /\ at' \in {"open", "failed"}
  BY DEF Create, IInv
<1>2. \A a \in I2cAddrs : ~(a < 1)
  BY OneThread
<1>3. Scanned' = {}
  BY <1>1, <1>2 DEF Scanned
<1> QED
  BY <1>3, MapSaysNext

LEMMA ReleaseMaps == IInv /\ Release => MapIsTrue'
<1> SUFFICES ASSUME IInv, Release PROVE MapIsTrue'
  OBVIOUS
<1>1. /\ at = "release" /\ at' = "done" /\ UNCHANGED <<slaves, claimed, address, shown>>
      /\ i2cBus' = [i2cBus EXCEPT ![bus] = None]
  BY DEF Release, I2cBusRelease
<1>2. i2cBus'[bus] \notin I2cAdapters
  BY <1>1, OneThread DEF IInv, TurnInv, Typed
<1>3. Scanned' \subseteq Scanned
  BY <1>1 DEF Scanned
<1> QED
  BY <1>1, <1>2, <1>3, SameMap

(* The map that examples/i2cdetect.c prints is true, if the process may    *)
(* have a descriptor at all, whichever addresses are claimed and answer.   *)
THEOREM ScanIsTrue ==
  ASSUME FDs # {}
  PROVE  Spec => []MapIsTrue
<1>1. Init => IInv
  <2> SUFFICES ASSUME Init PROVE IInv
    OBVIOUS
  <2>1. address = 1 /\ at = "create"
    BY DEF Init
  <2>2. \A a \in I2cAddrs : ~(a < 1)
    BY OneThread
  <2>3. Scanned = {}
    BY <2>1, <2>2 DEF Scanned
  <2> QED
    BY <2>1, <2>3, InitTurn, MapSays DEF IInv
<1>2. IInv /\ [Next]_vars => IInv'
  <2> SUFFICES ASSUME IInv, [Next]_vars PROVE IInv'
    OBVIOUS
  <2>1. TurnInv'
    BY NextTurn DEF IInv
  <2>2. CASE Next
    <3>1. MapIsTrue'
      BY <2>2, CreateMaps, OpenMaps, ProbeMaps, CloseMaps, ReleaseMaps DEF Next
    <3>2. at' # "create"
      BY <2>2 DEF Next, Create, OpenDevice, OpenStep, Probe, Close, NextAddress, Release
    <3> QED
      BY <2>1, <3>1, <3>2 DEF IInv
  <2>3. CASE UNCHANGED vars
    <3>1. UNCHANGED <<i2cBus, slaves, claimed, at, address, shown>>
      BY <2>3 DEF vars, detectVars
    <3>2. Scanned' = Scanned
      BY <3>1 DEF Scanned
    <3>3. MapIsTrue'
      BY <3>1, <3>2, SameMap
    <3> QED
      BY <2>1, <3>1, <3>3 DEF IInv
  <2> QED
    BY <2>2, <2>3
<1>3. IInv => MapIsTrue
  BY DEF IInv
<1> QED
  BY <1>1, <1>2, <1>3, PTL DEF Spec
==============================================================================
