------------------------------ MODULE I2cDetect ------------------------------
(***************************************************************************)
(* examples/i2cdetect.c on the linuxdev backend: a client that opens every *)
(* address of a bus in turn, writes no bytes to it to see whether a slave  *)
(* answers, and closes it.                                                 *)
(***************************************************************************)
EXTENDS LinuxdevI2c

CONSTANTS
  main,      \* the one thread of the program
  bus,       \* i2c_bus
  Last       \* the addresses are 1 .. Last: 0x08 .. 0x77 in the program

ASSUME I2cDetectAssumption ==
  /\ Threads = {main} /\ I2cBuses = {bus}
  /\ Last \in Nat \ {0} /\ I2cAddrs = 1 .. Last
  /\ \A a \in I2cAddrs : Call("i2c_open", bus, a) # None

VARIABLES
  slaves,    \* the addresses that acknowledge
  claimed,   \* the addresses that a driver of the kernel has: I2C_SLAVE is refused
  at,        \* where the program is
  address, i2c_dev,
  shown      \* what is printed for each address

detectVars == <<slaves, claimed, at, address, i2c_dev, shown>>

vars == <<procVars, i2cBus, detectVars>>

(* The handle is uninitialised until an open succeeds, and may name any    *)
(* descriptor of the table or none; the ones a process is started with are *)
(* not in the table.                                                       *)
Init ==
  /\ ProcInit /\ I2cInit
  /\ slaves \in SUBSET I2cAddrs /\ claimed \in SUBSET I2cAddrs
  /\ at = "create" /\ address = 1 /\ i2c_dev \in FDs \cup {None}
  /\ shown = [a \in I2cAddrs |-> None]

Show(what) == shown' = [shown EXCEPT ![address] = what]

Create ==
  /\ at = "create" /\ I2cBusCreate(main, bus)
  /\ at' = IF ret'[main] = MCUPR_RES_OK THEN "open" ELSE "failed"
  /\ UNCHANGED <<slaves, claimed, address, i2c_dev, shown>>

(* The kernel refuses what it has a reason to refuse. *)
Refused ==
  IF pc[main] = "idle" THEN i2cBus[bus] \notin I2cAdapters \/ \A n \in FDs : file[n] # None
                       ELSE address \in claimed

(* A step of mcupr_i2c_open, and what main does with its result. *)
OpenStep(onFailure) ==
  /\ at = "open"
  /\ I2cOpen(main, bus, address) \/ I2cSetSlave(main)
  /\ IF pc'[main] # "idle"
       THEN ~Refused /\ UNCHANGED <<at, i2c_dev, shown>>
       ELSE IF ret'[main] = MCUPR_RES_OK
         THEN ~Refused /\ at' = "write" /\ i2c_dev' = fd[main] /\ UNCHANGED shown
         ELSE Refused /\ at' = onFailure /\ UNCHANGED i2c_dev /\ Show("   ")
  /\ UNCHANGED <<slaves, claimed, address>>

(* Faulty variant of OpenDevice: an address that cannot be opened is tried *)
(* again.                                                                  *)
OpenDeviceAgain == OpenStep("open")

OpenDevice == OpenStep("close")

(* A write of no bytes succeeds when a slave acknowledges the address that *)
(* the descriptor is bound to.                                             *)
Probe ==
  /\ at = "write" /\ at' = "close"
  /\ I2cWrite(main, bus, 0)
  /\ ret'[main] >= 0 <=> file[i2c_dev].slave \in slaves
  /\ Show(IF ret'[main] < 0 THEN "--" ELSE "found")
  /\ UNCHANGED <<slaves, claimed, address, i2c_dev>>

NextAddress ==
  IF address < Last THEN address' = address + 1 /\ at' = "open"
                    ELSE UNCHANGED address /\ at' = "release"

(* close(i2c_dev), which is EBADF when the handle names no descriptor. *)
CloseDev ==
  IF i2c_dev \in I2cDevs(bus) THEN CloseHandle(main, i2c_dev) ELSE UNCHANGED procVars

(* Faulty variant of Close: only the slaves that were found are closed. *)
CloseFound ==
  /\ at = "close"
  /\ IF shown[address] = "found" THEN CloseDev ELSE UNCHANGED procVars
  /\ NextAddress
  /\ UNCHANGED <<i2cBus, slaves, claimed, i2c_dev, shown>>

(* The handle is closed whether or not the open succeeded. *)
Close ==
  /\ at = "close"
  /\ CloseDev
  /\ NextAddress
  /\ UNCHANGED <<i2cBus, slaves, claimed, i2c_dev, shown>>

Release ==
  /\ at = "release" /\ at' = "done"
  /\ I2cBusRelease(main, bus)
  /\ UNCHANGED <<slaves, claimed, address, i2c_dev, shown>>

Next == Create \/ OpenDevice \/ Probe \/ Close \/ Release

Spec == Init /\ [][Next]_vars /\ WF_vars(Next)

-----------------------------------------------------------------------------

(* What has been printed by now. *)
Scanned ==
  {a \in I2cAddrs : a < address \/ (a = address /\ at \in {"close", "release", "done"})}

(* The map that is printed is true: blank where the address could not be   *)
(* opened, -- where no slave answers, and the address where one does; if   *)
(* there is no such adapter it is blank.  The loop opens and closes one    *)
(* descriptor per address, and a descriptor left open would leave none for *)
(* the addresses after it.                                                 *)
MapIsTrue ==
  \A a \in Scanned :
    \/ shown[a] = IF a \in claimed THEN "   " ELSE IF a \in slaves THEN "found" ELSE "--"
    \/ shown[a] = "   " /\ i2cBus[bus] \notin I2cAdapters

(* Whenever the program starts on an address, and when it releases the     *)
(* bus, it has no descriptor open: the close at the end of each turn is    *)
(* reached on all three ways through it.                                   *)
NothingLeftOpen ==
  at \in {"open", "release", "done"} /\ pc[main] = "idle" => \A n \in FDs : file[n] = None

(* The steps the program makes at most from here on: a turn of the loop is *)
(* four, the two system calls of the open, the write and the close.        *)
StepsLeft ==
  CASE at = "create"  -> 4 * Last + 2
    [] at = "open"    -> 4 * (Last - address) + IF pc[main] = "idle" THEN 5 ELSE 4
    [] at = "write"   -> 4 * (Last - address) + 3
    [] at = "close"   -> 4 * (Last - address) + 2
    [] at = "release" -> 1
    [] at \in {"done", "failed"} -> 0

(* Every step brings the scan nearer to its end: no address is tried again *)
(* and no turn of the loop is longer for it, whichever opens and writes    *)
(* fail (the loop of main, and the way through mcupr_i2c_open).            *)
ScanAdvances == [][StepsLeft' \in 0 .. StepsLeft - 1]_vars

(* The scan ends, whatever is on the bus. *)
Finishes == <>(at \in {"done", "failed"})
==============================================================================
