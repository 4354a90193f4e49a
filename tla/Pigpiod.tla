------------------------------- MODULE Pigpiod -------------------------------
(***************************************************************************)
(* The I2C API on the pigpio daemon (src/impl_pigpiod.c).  A bus object    *)
(* owns a connection to the daemon; a device handle is a number in a table *)
(* that the daemon keeps for all its clients.  A daemon that restarts      *)
(* loses the table and every connection; a connection that breaks, as one  *)
(* to a remote daemon may, leaves the table as it is.  The numbers the     *)
(* clients hold survive both.  Each library call is one exchange with the  *)
(* daemon, which serves them one at a time.                                *)
(***************************************************************************)
EXTENDS McuprTypes

CONSTANTS
  Buses,      \* the client's mcupr_i2c_bus_t * variables
  Busnums,    \* the params->busnum values clients pass to bus_create
  Addrs,      \* slave addresses
  Handles,    \* the numbers of the daemon's handle table
  Refused,    \* the negative results of the daemon
  Sizes,      \* transfer lengths
  OthersUses, \* the <<busnum, addr>> that other programs open
  Others,     \* the other programs that use the daemon, as one owner
  Nobody,     \* the owner of an entry that its client cannot reach any more
  None

Entries == [owner : Buses \cup {Others, Nobody}, busnum : Int, addr : Addrs]

Results == [op : {"read", "write"}, size : Nat, res : Int, bus : Buses, addr : Addrs,
            reached : Entries \cup {None}]

ASSUME PigpiodAssumption ==
  /\ Busnums \subseteq Int /\ Addrs \subseteq Int /\ Handles \subseteq Nat
  /\ Refused \subseteq {n \in Int : n < 0} /\ Sizes \subseteq Nat
  /\ OthersUses \subseteq Int \X Addrs
  /\ None \notin Int /\ Others \notin Buses /\ Nobody \notin Buses \cup {Others}
  /\ None \notin [busnum : Int, up : BOOLEAN] \cup Entries \cup Results

VARIABLES
  bus,      \* bus[b]: busnum, and whether the connection is up; None if NULL
  table,    \* table[h]: what handle h of the daemon is open on, None if free
  devs,     \* the devices [bus, addr, dev] of opens that returned MCUPR_RES_OK
  last      \* the call just made, if it was a transfer: its device, size and result

vars == <<bus, table, devs, last>>

Init ==
  /\ bus = [b \in Buses |-> None]
  /\ table = [h \in Handles |-> None]
  /\ devs = {}
  /\ last = None

Entry(owner, busnum, addr) == [owner |-> owner, busnum |-> busnum, addr |-> addr]

-----------------------------------------------------------------------------
(* The daemon and its other clients. *)

Up(b) == bus[b] # None /\ bus[b].up

(* The daemon stops and starts again. *)
DaemonRestart ==
  /\ table' = [h \in Handles |-> None]
  /\ bus' = [b \in Buses |-> IF bus[b] = None THEN None ELSE [bus[b] EXCEPT !.up = FALSE]]
  /\ last' = None
  /\ UNCHANGED devs

(* The socket breaks while the daemon runs on, with the entries of the bus. *)
ConnectionLost(b) ==
  /\ Up(b)
  /\ bus' = [bus EXCEPT ![b].up = FALSE]
  /\ table' = [h \in Handles |->
                 IF table[h] # None /\ table[h].owner = b
                   THEN [table[h] EXCEPT !.owner = Nobody] ELSE table[h]]
  /\ last' = None
  /\ UNCHANGED devs

OthersOpenOrClose ==
  /\ \E h \in Handles :
       \/ /\ table[h] = None
          /\ \E use \in OthersUses : table' = [table EXCEPT ![h] = Entry(Others, use[1], use[2])]
       \/ /\ table[h] # None /\ table[h].owner = Others
          /\ table' = [table EXCEPT ![h] = None]
  /\ last' = None
  /\ UNCHANGED <<bus, devs>>

-----------------------------------------------------------------------------
(* The backend.  A create that fails, and a call on a NULL bus, returns an *)
(* error and changes nothing: it is not a step.                            *)

DefaultBusnum(busnum) == IF busnum = MCUPR_UNSPECIFIED THEN 1 ELSE busnum

(* Faulty variant of BusCreate: the default bus number is not filled in. *)
BusCreateRaw(b) ==
  /\ bus[b] = None
  /\ \E busnum \in Busnums : bus' = [bus EXCEPT ![b] = [busnum |-> busnum, up |-> TRUE]]
  /\ last' = None
  /\ UNCHANGED <<table, devs>>

(* pigpio_start() connects, or the bus is freed again: MCUPR_RES_NODEV. *)
BusCreate(b) ==
  /\ bus[b] = None
  /\ \E busnum \in Busnums :
       bus' = [bus EXCEPT ![b] = [busnum |-> DefaultBusnum(busnum), up |-> TRUE]]
  /\ last' = None
  /\ UNCHANGED <<table, devs>>

(* pigpio_stop().  The daemon keeps the handles of a client that goes, so  *)
(* the client closes its devices first.                                    *)
BusRelease(b) ==
  /\ bus[b] # None /\ \A d \in devs : d.bus # b
  /\ bus' = [bus EXCEPT ![b] = None]
  /\ last' = None
  /\ UNCHANGED <<table, devs>>

(* Faulty variant of Link: a broken connection is made again for the call. *)
LinkAgain(b) == bus' = [bus EXCEPT ![b].up = TRUE]

(* priv->pi is written by create and release only. *)
Link(b) == UNCHANGED bus

(* The handle of i2c_open(), or its negative error, goes to the client     *)
(* with MCUPR_RES_OK either way.  When only the answer of the daemon is    *)
(* lost, it has made an entry all the same.                                *)
I2cOpen(b, addr) ==
  /\ bus[b] # None
  /\ \/ /\ Up(b)
        /\ \E h \in Handles :
             /\ table[h] = None
             /\ table' = [table EXCEPT ![h] = Entry(b, bus[b].busnum, addr)]
             /\ devs' = devs \cup {[bus |-> b, addr |-> addr, dev |-> h]}
     \/ /\ \E r \in Refused : devs' = devs \cup {[bus |-> b, addr |-> addr, dev |-> r]}
        /\ \/ UNCHANGED table
           \/ /\ Up(b)
              /\ \E h \in Handles :
                   /\ table[h] = None
                   /\ table' = [table EXCEPT ![h] = Entry(Nobody, bus[b].busnum, addr)]
  /\ Link(b)
  /\ last' = None

(* What the daemon answers for device d: one of its own results when it    *)
(* can be reached and knows the handle, an error otherwise.                *)
Answers(d, results) ==
  Refused \cup IF Up(d.bus) /\ d.dev \in Handles /\ table[d.dev] # None THEN results ELSE {}

(* i2c_read_device() returns the count; i2c_write_device() returns 0.      *)
I2cTransfer(op, d, size) ==
  /\ \E r \in Answers(d, IF op = "read" THEN 0 .. size ELSE {0}) :
       last' = [op |-> op, size |-> size, res |-> r, bus |-> d.bus, addr |-> d.addr,
                reached |-> IF r < 0 THEN None ELSE table[d.dev]]
  /\ UNCHANGED <<bus, table, devs>>

(* i2c_close(): the entry is freed; or the call fails, and the entry stays. *)
CloseAtDaemon(d) ==
  IF Up(d.bus) /\ d.dev \in Handles /\ table[d.dev] # None
    THEN \/ table' = [table EXCEPT ![d.dev] = None]
         \/ table' = [table EXCEPT ![d.dev].owner = Nobody]
    ELSE UNCHANGED table

(* Faulty variant of I2cClose: nothing is done, as in the libmpsse backend. *)
I2cCloseNothing(d) ==
  /\ devs' = devs \ {d}
  /\ last' = None
  /\ UNCHANGED <<bus, table>>

(* The result of i2c_close() is ignored: the client's handle is gone.      *)
I2cClose(d) ==
  /\ CloseAtDaemon(d)
  /\ devs' = devs \ {d}
  /\ last' = None
  /\ UNCHANGED bus

Next ==
  \/ DaemonRestart \/ OthersOpenOrClose
  \/ \E b \in Buses : ConnectionLost(b) \/ BusCreate(b) \/ BusRelease(b)
  \/ \E b \in Buses, addr \in Addrs : I2cOpen(b, addr)
  \/ \E d \in devs :
       \/ I2cClose(d)
       \/ \E op \in {"read", "write"}, size \in Sizes : I2cTransfer(op, d, size)

Spec == Init /\ [][Next]_vars

-----------------------------------------------------------------------------

(* The state has the types of the C declarations it stands for.            *)
TypeOK ==
  /\ bus \in [Buses -> [busnum : {DefaultBusnum(n) : n \in Busnums}, up : BOOLEAN] \cup {None}]
  /\ table \in [Handles -> Entries \cup {None}]
  /\ devs \subseteq [bus : Buses, addr : Addrs, dev : Handles \cup Refused]
  /\ last # None => last.size \in Sizes /\ last.res \in Refused \cup 0 .. last.size

(* A transfer that did not fail reached the address its device was opened  *)
(* for, through the daemon's entry of its own bus, also after the daemon   *)
(* restarted and gave the same number to another device or program: a      *)
(* handle is used on the connection it came from and on no other.          *)
ReachesOwnDevice ==
  last # None /\ last.reached # None =>
    last.reached = Entry(last.bus, bus[last.bus].busnum, last.addr)

(* Every entry the daemon keeps for a client is one the client still has   *)
(* the handle of, over any sequence of opens, closes, releases and         *)
(* restarts.  The exceptions are all calls that fail: an i2c_close() whose *)
(* result the code ignores, an i2c_open() whose answer is lost, and the    *)
(* loss of the connection; what they leave belongs to nobody and stays     *)
(* until the daemon restarts.                                              *)
NoHandleLeak ==
  \A h \in Handles :
    table[h] # None /\ table[h].owner \in Buses =>
      \E d \in devs : d.dev = h /\ d.bus = table[h].owner /\ d.addr = table[h].addr

(* The devices the client has and the transfer that just returned a count, *)
(* by the entry of the daemon it went through.  A negative handle is no    *)
(* device: that an open returns it with MCUPR_RES_OK is not seen here.     *)
BusNumber == [b \in Buses |-> IF bus[b] = None THEN None ELSE bus[b].busnum]

Opened ==
  {[bus |-> d.bus, dev |-> d.dev, node |-> BusNumber[d.bus], addr |-> d.addr] :
     d \in {e \in devs : e.dev \in Handles}}

Done ==
  IF last # None /\ last.res >= 0
    THEN [node |-> last.reached.busnum, addr |-> last.reached.addr,
          size |-> last.size, count |-> last.res]
    ELSE None

I2cApi == INSTANCE I2cApi WITH
  Busnums <- {DefaultBusnum(n) : n \in Busnums},
  bus <- BusNumber, opened <- Opened, done <- Done

(* A handle of the daemon stays good for its own device or for nothing,    *)
(* whatever the other programs open and close, however often the daemon    *)
(* restarts and whenever a connection breaks; only a new bus object gets   *)
(* its numbers again (impl_pigpiod.c).                                     *)
ImplementsI2cApi == I2cApi!Spec

(* "Returns: Number of bytes actually written" (the public header, on      *)
(* mcupr_i2c_write): a write that succeeded returns its size when all of   *)
(* it was written, which is the only success i2c_write_device() has.       *)
WriteReturnsSize ==
  last # None /\ last.op = "write" /\ last.res >= 0 => last.res = last.size
=============================================================================
