------------------------------ MODULE Libmpsse ------------------------------
(***************************************************************************)
(* The I2C API on an FTDI adapter driven by libmpsse                       *)
(* (src/impl_libmpsse.c): one bus object, the libmpsse context it owns,    *)
(* the two wires and the slave at the other end.  The backend builds each  *)
(* transfer from libmpsse calls that cross USB one by one; a step is one   *)
(* such call with the code up to the next.  Calls on the bus are made one  *)
(* at a time: neither the backend nor libmpsse takes a lock.  Any USB call *)
(* may fail, Start() and Stop() among them, whose results the code drops:  *)
(* a start or stop condition is then missing on the wires, and what an     *)
(* earlier transfer left there is still there in the next.                 *)
(***************************************************************************)
EXTENDS McuprTypes

CONSTANTS
  Addrs,        \* the addresses clients open
  StrayHandles, \* device handles clients pass that no open returned
  Sizes,        \* transfer sizes
  Faults,       \* the USB calls that may fail
  None

UsbCalls == {"start", "addr", "read", "dummy", "write", "stop"}

Transfers == [op : {"read", "write"}, addr : Int \cup {None}, dev : 0 .. 254, size : Nat]

ASSUME MpsseAssumption ==
  /\ Addrs \subseteq Int /\ StrayHandles \subseteq Int /\ Sizes \subseteq Nat
  /\ Faults \subseteq UsbCalls /\ None \notin Int \cup Transfers

VARIABLES
  created,   \* the client's bus pointer is not NULL
  contexts,  \* libmpsse contexts that are allocated and not closed
  handles,   \* the <<addr, dev>> that opens returned to the client
  line,      \* "started" by Start(), "stopped" by Stop(), or "held" as it was by
             \* a Stop() that failed
  slave,     \* "idle"; "sending" or "receiving" when addressed; "stuck" when it
             \* was not told to stop sending
  clear,     \* no slave was left on the bus after Start() of the transfer
  sent,      \* the byte that a slave took as its address in the transfer
  ack,       \* context->rack: the last acknowledge bit that was read
  sends,     \* context->tack: what the master answers each byte it reads with
  moved,     \* data bytes that crossed the bus in the transaction
  pc, call,  \* the next USB call, and the transfer in progress or the last one
  res        \* int res of the transfer in progress; what the last call returned

wireVars == <<line, slave, clear, sent, ack, sends, moved>>
vars == <<created, contexts, handles, wireVars, pc, call, res>>

Init ==
  /\ created = FALSE /\ contexts = 0 /\ handles = {}
  /\ line = "stopped" /\ slave = "idle" /\ clear = TRUE /\ sent = None
  /\ ack = "NACK" /\ sends = "ACK" /\ moved = 0
  /\ pc = "idle" /\ call = None /\ res = None

(* A call that is over without touching the wires. *)
Return(r) ==
  /\ pc = "idle"
  /\ res' = r /\ call' = None
  /\ UNCHANGED <<pc, wireVars>>

-----------------------------------------------------------------------------

(* The bus is handed out only with an open context.  MPSSE() may also      *)
(* return NULL, or a context that is not open and has to be closed.        *)
BusCreate ==
  /\ ~created
  /\ \/ Return(MCUPR_RES_OK) /\ created' = TRUE /\ contexts' = contexts + 1
     \/ \E r \in {MCUPR_RES_NOMEM, MCUPR_RES_BACKEND_FAILURE} :
          Return(r) /\ UNCHANGED <<created, contexts>>
     \/ /\ pc = "idle" /\ contexts' = contexts + 1
        /\ pc' = "unopened" /\ call' = None /\ res' = None
        /\ UNCHANGED <<created, wireVars>>
  /\ UNCHANGED handles

(* Faulty variant of CloseUnopened: a context that did not open is dropped. *)
CloseUnopenedNot ==
  /\ pc = "unopened" /\ pc' = "idle" /\ res' = MCUPR_RES_BACKEND_FAILURE
  /\ UNCHANGED <<created, contexts, handles, wireVars, call>>

CloseUnopened ==
  /\ pc = "unopened" /\ contexts' = contexts - 1
  /\ pc' = "idle" /\ res' = MCUPR_RES_BACKEND_FAILURE
  /\ UNCHANGED <<created, handles, wireVars, call>>

(* The handles die with the bus: the client must not use them any more.    *)
BusRelease ==
  /\ pc = "idle" /\ created
  /\ created' = FALSE /\ contexts' = contexts - 1 /\ handles' = {}
  /\ UNCHANGED <<wireVars, pc, call, res>>

(* Faulty variant of ValidAddr: 8-bit addresses pass. *)
ValidAddr8(addr) == addr \in 0 .. 255

ValidAddr(addr) == addr \in 0 .. 127

ValidHandle(dev) == dev % 2 = 0 /\ dev \in 0 .. 254

I2cOpen(addr) ==
  /\ \/ ~created /\ Return(MCUPR_RES_INVALID_OBJ) /\ UNCHANGED handles
     \/ created /\ ~ValidAddr(addr) /\ Return(MCUPR_RES_INVALID_ARGUMENT) /\ UNCHANGED handles
     \/ created /\ ValidAddr(addr) /\ Return(MCUPR_RES_OK)
          /\ handles' = handles \cup {<<addr, addr * 2>>}
  /\ UNCHANGED <<created, contexts>>

(* mcupr_i2c_close does nothing: only the client forgets the handle. *)
I2cClose(h) ==
  /\ pc = "idle"
  /\ handles' = handles \ {h}
  /\ UNCHANGED <<created, contexts, wireVars, pc, call, res>>

(* Start(): a start condition takes every slave off the bus that listens   *)
(* to the clock; one that was left sending may not.                        *)
Start ==
  \/ /\ line' = "started"
     /\ slave' \in IF slave = "stuck" THEN {"idle", "stuck"} ELSE {"idle"}
  \/ "start" \in Faults /\ UNCHANGED <<line, slave>>

(* mcupr_i2c_read and mcupr_i2c_write up to the Write() of the address.    *)
(* The result of Start() is not looked at.  h is <<addr, dev>>.            *)
Begin(op, h, size) ==
  /\ \/ ~created /\ Return(MCUPR_RES_INVALID_OBJ)
     \/ created /\ ~ValidHandle(h[2]) /\ Return(MCUPR_RES_INVALID_HANDLE)
     \/ /\ pc = "idle" /\ created /\ ValidHandle(h[2])
        /\ call' = [op |-> op, addr |-> h[1], dev |-> h[2], size |-> size]
        /\ Start /\ clear' = (slave' = "idle")
        /\ moved' = 0 /\ sent' = None
        /\ pc' = "addr" /\ res' = None
        /\ UNCHANGED <<ack, sends>>
  /\ UNCHANGED <<created, contexts, handles>>

(* Faulty variant of AddressByte: a read forgets "| 0x01". *)
AddressByteOfWrite == call.dev % 256

(* (char)(dev | 0x01) and (char)(dev | 0x00), as the byte on the wire. *)
AddressByte == (IF call.op = "read" THEN call.dev + 1 ELSE call.dev) % 256

GoStop(r) == pc' = "stop" /\ res' = r

(* Faulty variant of Nacked: the transfer returns without Stop. *)
NackedNoStop(r) == pc' = "idle" /\ res' = r

(* Faulty variant of Nacked: the result is set before the ack is known.    *)
NackedCounted(r) == GoStop(call.size)

(* The slave did not acknowledge: "goto wayout". *)
Nacked(r) == GoStop(r)

Acknowledged ==
  \/ call.op = "read" /\ pc' = "read" /\ UNCHANGED res
  \/ call.op = "write" /\ call.size > 0 /\ pc' = "write" /\ UNCHANGED res
  \/ call.op = "write" /\ call.size = 0 /\ GoStop(0)

(* Write() of the address byte, whose result is looked at, then GetAck().  *)
(* After a start condition the byte is an address.  A slave that is still  *)
(* on the bus, stuck or (without a start condition) receiving, may pull    *)
(* the acknowledge bit low for a byte that nobody took as an address.      *)
SendAddress ==
  /\ pc = "addr"
  /\ \/ /\ line = "started" /\ slave = "idle"
        /\ sent' = AddressByte /\ ack' = "ACK"
        /\ slave' = IF call.op = "read" THEN "sending" ELSE "receiving"
        /\ Acknowledged
     \/ /\ slave # "idle"
        /\ ack' = "ACK" /\ UNCHANGED <<sent, slave>>
        /\ Acknowledged
     \/ /\ ack' = "NACK" /\ UNCHANGED <<sent, slave>>
        /\ Nacked(MCUPR_RES_COMMUNICATION_ERROR)
     \/ "addr" \in Faults /\ GoStop(MCUPR_RES_BACKEND_FAILURE) /\ UNCHANGED <<sent, ack, slave>>
  /\ UNCHANGED <<created, contexts, handles, line, clear, sends, moved, call>>

(* Read() of the data, each byte answered with what the context sends, and *)
(* SendNacks().  A failed read goes on to the dummy byte all the same.     *)
ReadData ==
  /\ pc = "read"
  /\ \/ moved' = call.size /\ res' = call.size
     \/ "read" \in Faults /\ moved' \in 0 .. call.size /\ res' = MCUPR_RES_COMMUNICATION_ERROR
  /\ sends' = "NACK"
  /\ pc' = "dummy"
  /\ UNCHANGED <<created, contexts, handles, line, slave, clear, sent, ack, call>>

(* SendAcks() *)
AcksAfterRead == sends' = "ACK"

(* Read() of one more byte: the NACK that answers it makes the slave stop  *)
(* sending.  Its result, a buffer or NULL, is dropped.                     *)
DummyRead ==
  /\ pc = "dummy"
  /\ \/ slave' \in CASE slave = "sending" -> {IF sends = "NACK" THEN "idle" ELSE "stuck"}
                      [] slave = "stuck" -> {"idle", "stuck"}
                      [] OTHER -> {slave}
     \/ "dummy" \in Faults /\ slave' = IF slave = "sending" THEN "stuck" ELSE slave
  /\ AcksAfterRead
  /\ pc' = "stop"
  /\ UNCHANGED <<created, contexts, handles, line, clear, sent, ack, moved, call, res>>

(* Faulty variant of DataResult: the ack is not looked at. *)
DataResultUnchecked(a) == call.size

DataResult(a) == IF a = "ACK" THEN call.size ELSE MCUPR_RES_COMMUNICATION_ERROR

(* Write() of the data, then GetAck().  The result of Write() is not       *)
(* looked at; when it fails, the ack is the one of the last byte that got  *)
(* through, which may be the address.                                      *)
WriteData ==
  /\ pc = "write"
  /\ \/ moved' = call.size /\ ack' \in {"ACK", "NACK"}
     \/ /\ "write" \in Faults /\ moved' \in 0 .. call.size - 1
        /\ ack' \in IF moved' = 0 THEN {ack} ELSE {"ACK", "NACK"}
  /\ pc' = "stop"
  /\ res' = DataResult(ack')
  /\ UNCHANGED <<created, contexts, handles, line, slave, clear, sent, sends, call>>

(* Stop(), whose result is not looked at.  A receiving slave lets go at    *)
(* the stop condition; a stuck one still drives the data line.             *)
StopBus ==
  /\ pc = "stop"
  /\ \/ line' = "stopped" /\ slave' = IF slave = "receiving" THEN "idle" ELSE slave
     \/ "stop" \in Faults /\ line' = "held" /\ UNCHANGED slave
  /\ pc' = "idle"
  /\ UNCHANGED <<created, contexts, handles, clear, sent, ack, sends, moved, call, res>>

Next ==
  \/ BusCreate \/ CloseUnopened \/ BusRelease
  \/ \E addr \in Addrs : I2cOpen(addr)
  \/ \E h \in handles : I2cClose(h)
  \/ \E h \in handles \cup {<<None, dev>> : dev \in StrayHandles}, op \in {"read", "write"},
        size \in Sizes : Begin(op, h, size)
  \/ SendAddress \/ ReadData \/ DummyRead \/ WriteData \/ StopBus

Spec == Init /\ [][Next]_vars

-----------------------------------------------------------------------------

(* The state has the types of the C and libmpsse declarations.             *)
TypeOK ==
  /\ created \in BOOLEAN /\ contexts \in Nat
  /\ handles \subseteq (Addrs \cap 0 .. 127) \X Int
  /\ line \in {"started", "stopped", "held"} /\ clear \in BOOLEAN
  /\ slave \in {"idle", "sending", "receiving", "stuck"}
  /\ sent \in 0 .. 255 \cup {None}
  /\ ack \in {"ACK", "NACK"} /\ sends \in {"ACK", "NACK"}
  /\ moved \in Nat
  /\ pc \in {"idle", "unopened", "addr", "read", "dummy", "write", "stop"}
  /\ call \in Transfers \cup {None}
  /\ res \in Int \cup {None}

(* A transfer lets go of the bus in every way it can end.  Only a Stop()   *)
(* that fails leaves the line held, and with it a slave receiving; only a  *)
(* dummy read that fails leaves a slave sending; no other failing USB      *)
(* call, no combination of them and no missing acknowledge does (the       *)
(* "wayout:" paths).  The context answers the bytes of the next read with  *)
(* ACK whatever failed.                                                    *)
BusLeftFree ==
  pc = "idle" =>
    /\ line # "started" /\ slave # "sending" /\ sends = "ACK"
    /\ slave = "receiving" => line = "held"

(* After a start condition a slave only ever answers to the 7-bit address  *)
(* its handle was opened for, in the direction of the transfer, up to the  *)
(* highest address (VALID_ADDR, addr << 1 and dev | 0x01 together),        *)
(* whatever an earlier transfer left on the bus.                           *)
AnswersAsOpened ==
  line = "started" /\ slave \in {"sending", "receiving"} /\ call.addr # None =>
    /\ sent \div 2 = call.addr
    /\ sent % 2 = IF slave = "sending" THEN 1 ELSE 0

(* A transfer that returned a count saw an acknowledge, and a read moved   *)
(* exactly the bytes it returned, never a count left from a failed USB     *)
(* call.  The acknowledge is that of a slave that took the address,        *)
(* whichever calls of the transfer failed, Start() included; unless an     *)
(* earlier transfer, whose Stop() or dummy read failed, had left a slave   *)
(* on the bus.                                                             *)
CountIsEarned ==
  pc = "idle" /\ call # None /\ res >= 0 =>
    /\ ack = "ACK" /\ (clear => sent # None)
    /\ call.op = "read" => moved = res

(* A bus owns one context and without a bus there is none, however many    *)
(* creates have failed in between: one that got a context that is not open *)
(* has closed it when it returns, and a release closes the context of its  *)
(* bus.                                                                    *)
ContextsOwned == pc = "idle" => contexts = IF created THEN 1 ELSE 0

(* The devices the client has, by the address byte their handles put on    *)
(* the wire, and the transfer that just returned a count, by the address   *)
(* byte that was on the wire and acknowledged.  A transfer that found a    *)
(* slave left on the bus is no transfer for the API: its count may be that *)
(* slave's doing.  The adapter has one bus.                                *)
Opened == {[bus |-> "bus", dev |-> h[2], node |-> 0, addr |-> h[2] \div 2] : h \in handles}

Done ==
  IF pc = "idle" /\ call # None /\ call.addr # None /\ res >= 0 /\ clear
    THEN [node |-> 0, addr |-> IF ack = "ACK" /\ sent # None THEN sent \div 2 ELSE None,
          size |-> call.size, count |-> res]
    ELSE None

I2cApi == INSTANCE I2cApi WITH
  Buses <- {"bus"}, Busnums <- {0}, Handles <- 0 .. 254,
  bus <- [b \in {"bus"} |-> IF created THEN 0 ELSE None], opened <- Opened, done <- Done

(* The USB calls of a transfer are one atomic transfer for the client: on  *)
(* a bus with no slave left on it, one that returns a count reached the    *)
(* address its handle was opened for and was acknowledged; one that fails  *)
(* in the middle leaves no trace in the client's devices                   *)
(* (impl_libmpsse.c).                                                      *)
ImplementsI2cApi == I2cApi!Spec

(* "Returns: Number of bytes actually written" (the public header, on      *)
(* mcupr_i2c_write).                                                       *)
WriteCountActual ==
  pc = "idle" /\ call # None /\ call.op = "write" /\ res >= 0 => moved = res
=============================================================================
