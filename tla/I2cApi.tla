------------------------------- MODULE I2cApi -------------------------------
(***************************************************************************)
(* What the I2C section of the public header promises a client, whatever   *)
(* backend is built in: a bus object stands for one numbered bus, a handle *)
(* that an open returned leads to the address it was opened for until the  *)
(* client closes it or releases the bus, and a transfer that returns a     *)
(* count has reached that address.  Each call is one step here.  A call    *)
(* that fails is a step that changes nothing, so a backend may fail where  *)
(* it must, and do nothing else.                                           *)
(***************************************************************************)
EXTENDS McuprTypes

CONSTANTS
  Buses,     \* the client's mcupr_i2c_bus_t * variables
  Busnums,   \* the numbers of buses
  Addrs,     \* slave addresses
  Handles,   \* the mcupr_i2c_device_t values of devices
  Sizes,     \* transfer lengths
  None

VARIABLES
  bus,       \* bus[b]: the number of the bus at pointer b, None if NULL
  opened,    \* the devices the client has: bus, handle, and where it leads
  done       \* the last result of a call, if it was the count of a transfer

apiVars == <<bus, opened, done>>

Init ==
  /\ bus = [b \in Buses |-> None]
  /\ opened = {}
  /\ done = None

Create(b) ==
  /\ bus[b] = None
  /\ \E n \in Busnums : bus' = [bus EXCEPT ![b] = n]
  /\ UNCHANGED opened

(* The handles of a bus die with it. *)
Release(b) ==
  /\ bus[b] # None
  /\ bus' = [bus EXCEPT ![b] = None]
  /\ opened' = {d \in opened : d.bus # b}

(* On one bus, a handle never stands for two devices. *)
Open(b, addr, h) ==
  LET device == [bus |-> b, dev |-> h, node |-> bus[b], addr |-> addr]
  IN  /\ bus[b] # None
      /\ UNCHANGED bus
      /\ opened' = opened \cup {device}
      /\ \A d \in opened : d.bus = b /\ d.dev = h => d = device

Close(d) == UNCHANGED bus /\ opened' = opened \ {d}

(* A read or a write that returns a count. *)
Transfer(d, size) ==
  /\ UNCHANGED <<bus, opened>>
  /\ \E count \in 0 .. size :
       done' = [node |-> d.node, addr |-> d.addr, size |-> size, count |-> count]

HandleStep ==
  \/ UNCHANGED <<bus, opened>>
  \/ \E b \in Buses : Create(b) \/ Release(b)
  \/ \E b \in Buses, addr \in Addrs, h \in Handles : Open(b, addr, h)
  \/ \E d \in opened : Close(d)

Next ==
  \/ done' \in {None, done} /\ HandleStep
  \/ \E d \in opened, size \in Sizes : Transfer(d, size)

Spec == Init /\ [][Next]_apiVars
=============================================================================
