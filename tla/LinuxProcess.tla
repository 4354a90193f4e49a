---------------------------- MODULE LinuxProcess ----------------------------
(***************************************************************************)
(* One Linux process that links the linuxdev backend: the descriptor table *)
(* the kernel keeps for it, which the I2C, SPI and GPIO halves of the      *)
(* backend share, and one call frame per thread of the client.  The        *)
(* library takes no lock, so a step of the model is one system call        *)
(* together with the code up to the next one, and the steps of different   *)
(* threads interleave.  A close(fd) that follows in the same function is   *)
(* part of the step: no other call depends on when it happens.             *)
(*                                                                         *)
(* A descriptor that is handed to the client becomes a device handle.  The *)
(* client owns it until it closes it.                                      *)
(***************************************************************************)
EXTENDS McuprTypes

CONSTANTS
  Threads,   \* threads of the client that call the library
  FDs,       \* the descriptors the process may have open (its fd limit)
  None       \* NULL, a negative descriptor, an unset field

ASSUME NoneAssumption == None \notin FDs /\ None \notin Int

VARIABLES
  file,      \* file[n]: what descriptor n is open on, None when it is unused
  dev,       \* dev[n]: the open call that handed n to the client, None if none did
  pc,        \* pc[t]: the system call thread t makes next, "idle" between calls
  fd,        \* fd[t]: the local "int fd" of the function t is running
  call,      \* call[t]: the open, read or write t is in, None between calls
  ret        \* ret[t]: what the last call of t returned

procVars == <<file, dev, pc, fd, call, ret>>

ProcInit ==
  /\ file = [n \in FDs |-> None]
  /\ dev  = [n \in FDs |-> None]
  /\ pc   = [t \in Threads |-> "idle"]
  /\ fd   = [t \in Threads |-> None]
  /\ call = [t \in Threads |-> None]
  /\ ret  = [t \in Threads |-> None]

(* The arguments of a call: its name, the bus or pin, and one argument. *)
Call(op, obj, arg) == [op |-> op, obj |-> obj, arg |-> arg]

Goto(t, label) == pc' = [pc EXCEPT ![t] = label]

Proceed(t, label) == Goto(t, label) /\ UNCHANGED <<call, ret>>

Return(t, r) ==
  /\ Goto(t, "idle")
  /\ call' = [call EXCEPT ![t] = None]
  /\ ret' = [ret EXCEPT ![t] = r]

(* open(2) succeeds: the kernel picks an unused descriptor. *)
SysOpen(t, node) ==
  \E n \in FDs :
    /\ file[n] = None
    /\ file' = [file EXCEPT ![n] = [node |-> node, slave |-> None]]
    /\ fd' = [fd EXCEPT ![t] = n]

(* close(2) of the descriptor in the caller's frame. *)
SysClose(t) ==
  /\ file' = [file EXCEPT ![fd[t]] = None]
  /\ fd' = [fd EXCEPT ![t] = None]

(* A call that opens nothing and is over in one step. *)
Immediate(t, r) ==
  pc[t] = "idle" /\ Return(t, r) /\ UNCHANGED <<file, dev, fd>>

(* A call whose first system call is an open(2) that succeeds. *)
EnterOpening(t, c, node, label) ==
  /\ pc[t] = "idle"
  /\ call' = [call EXCEPT ![t] = c]
  /\ SysOpen(t, node)
  /\ Goto(t, label)
  /\ UNCHANGED <<dev, ret>>

(* Faulty variants of Abandon: the descriptor is left open; it is closed   *)
(* but handed to the client all the same.                                  *)
AbandonLeaky(t, r) ==
  fd' = [fd EXCEPT ![t] = None] /\ Return(t, r) /\ UNCHANGED <<file, dev>>

AbandonHandedOver(t, r) ==
  /\ SysClose(t) /\ Return(t, r)
  /\ dev' = [dev EXCEPT ![fd[t]] = call[t]]

(* The call gives up on the descriptor it opened: close(fd), return r. *)
Abandon(t, r) ==
  SysClose(t) /\ Return(t, r) /\ UNCHANGED dev

(* "*dev = fd; return MCUPR_RES_OK": the descriptor becomes a handle. *)
HandOver(t) ==
  /\ dev' = [dev EXCEPT ![fd[t]] = call[t]]
  /\ fd' = [fd EXCEPT ![t] = None]
  /\ Return(t, MCUPR_RES_OK)

(* The client closes a handle it owns: close(dev).  Close is void, so the  *)
(* last result of the thread stays.                                        *)
CloseHandle(t, n) ==
  /\ pc[t] = "idle"
  /\ file' = [file EXCEPT ![n] = None]
  /\ dev' = [dev EXCEPT ![n] = None]
  /\ UNCHANGED <<pc, fd, call, ret>>

(* The client may release a bus only when no call and no handle uses it;   *)
(* the library keeps no count, so this is the client's obligation.         *)
Unused(op, b) ==
  /\ \A t \in Threads : pc[t] # "idle" => ~(call[t].op = op /\ call[t].obj = b)
  /\ \A n \in FDs : dev[n] # None => ~(dev[n].op = op /\ dev[n].obj = b)

-----------------------------------------------------------------------------

(* Every open descriptor is in the frame of a running call or is a handle  *)
(* of the client: no path through an open, a transfer or a close loses one *)
(* (the close(fd) of every error path of impl_linuxdev.c).                 *)
NoDescriptorLeak ==
  \A n \in FDs :
    file[n] # None => dev[n] # None \/ \E t \in Threads : fd[t] = n

(* A descriptor has one owner: two running calls never hold the same one,  *)
(* a running call never holds one the client has, and neither holds one    *)
(* the kernel has closed and may give away again.                          *)
SingleOwner ==
  /\ \A t \in Threads : fd[t] # None => file[fd[t]] # None /\ dev[fd[t]] = None
  /\ \A t, u \in Threads : fd[t] # None /\ fd[t] = fd[u] => t = u
  /\ \A n \in FDs : dev[n] # None => file[n] # None
=============================================================================
