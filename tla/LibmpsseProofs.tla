---------------------------- MODULE LibmpsseProofs ----------------------------
(***************************************************************************)
(* What the libmpsse backend keeps true for all addresses, sizes and       *)
(* handles.  Each property has the inductive invariant it needs: what is   *)
(* true of the wires, the result or the handles at each step of a transfer. *)
(***************************************************************************)
EXTENDS Libmpsse, TLAPS

(* The wires and the context at each step of a transfer.  After a start    *)
(* condition the slave is where this transfer brought it, or one that an   *)
(* earlier transfer left stuck.  Without one, it is where the earlier      *)
(* transfer left it, which may be in a write to it.                        *)
WireInv ==
  /\ pc \in {"idle", "unopened", "addr", "read", "dummy", "write", "stop"}
  /\ sends = IF pc = "dummy" THEN "NACK" ELSE "ACK"
  /\ line = "started" => pc \notin {"idle", "unopened"}
  /\ slave = "sending" => line = "started" /\ pc \in {"read", "dummy"}
  /\ slave = "receiving" => line = "held" \/ (line = "started" /\ pc \in {"write", "stop"})

LEMMA FreeInit == Init => WireInv
BY DEF Init, WireInv

LEMMA FreeNext == WireInv /\ [Next]_vars => WireInv'
<1> SUFFICES ASSUME WireInv, [Next]_vars PROVE WireInv'
  OBVIOUS
<1> USE DEF WireInv
<1>1. ASSUME NEW r, Return(r) PROVE WireInv'
  BY <1>1 DEF Return, wireVars
<1>2. CASE BusCreate \/ CloseUnopened
  BY <1>1, <1>2 DEF BusCreate, CloseUnopened, wireVars
<1>3. CASE BusRelease
  BY <1>3 DEF BusRelease, wireVars
<1>4. ASSUME NEW addr \in Addrs, I2cOpen(addr) PROVE WireInv'
  BY <1>1, <1>4 DEF I2cOpen
<1>5. ASSUME NEW h \in handles, I2cClose(h) PROVE WireInv'
  BY <1>5 DEF I2cClose, wireVars
<1>6. ASSUME NEW op, NEW h, NEW size \in Sizes, Begin(op, h, size) PROVE WireInv'
  BY <1>1, <1>6 DEF Begin, Start
<1>7. CASE SendAddress
  BY <1>7 DEF SendAddress, Acknowledged, Nacked, GoStop
<1>8. CASE ReadData
  BY <1>8 DEF ReadData
<1>9. CASE DummyRead
  BY <1>9 DEF DummyRead, AcksAfterRead
<1>10. CASE WriteData
  BY <1>10 DEF WriteData
<1>11. CASE StopBus
  BY <1>11 DEF StopBus
<1>12. CASE UNCHANGED vars
  BY <1>12 DEF vars, wireVars
<1> QED
  BY <1>2, <1>3, <1>4, <1>5, <1>6, <1>7, <1>8, <1>9, <1>10, <1>11, <1>12 DEF Next

(* Whichever USB calls fail, Start() and Stop() among them, the line is    *)
(* only left held by a failed Stop(), and a slave only left on the bus by  *)
(* that or by a failed dummy read.                                         *)
THEOREM LeavesBusFree == Spec => []BusLeftFree
<1>1. WireInv => BusLeftFree
  BY DEF WireInv, BusLeftFree
<1>2. WireInv /\ [Next]_vars => WireInv'
  BY FreeNext
<1> QED
  BY <1>1, <1>2, FreeInit, PTL DEF Spec

-----------------------------------------------------------------------------

(* A handle is twice its address, and a transfer knows the address of the  *)
(* handle it was called with.                                              *)
Doubled ==
  /\ \A h \in handles : h[2] = h[1] * 2
  /\ call # None /\ call.addr # None => call.addr \in 0 .. 127 /\ call.dev = call.addr * 2

(* The result of a transfer that is going to be, or was, a count; and how  *)
(* a clear bus makes the acknowledge one of a slave that took the address. *)
CountInv ==
  /\ pc \notin {"idle", "unopened"} => call # None
  /\ pc = "addr" /\ clear => slave = "idle"
  /\ pc \in {"read", "dummy"} => call.op = "read" /\ ack = "ACK"
  /\ pc \in {"read", "dummy", "write"} /\ clear => sent # None
  /\ pc = "write" => call.op = "write" /\ call.size > 0
  /\ pc \in {"dummy", "stop", "idle"} /\ call # None /\ res >= 0 =>
       /\ ack = "ACK" /\ (clear => sent # None)
       /\ call.op = "read" => moved = res

(* Of the contexts, also while one that did not open is still there.       *)
ContextInv ==
  /\ contexts = IF created \/ pc = "unopened" THEN 1 ELSE 0
  /\ pc = "unopened" => ~created /\ call = None

IInv == TypeOK /\ ContextInv /\ Doubled /\ CountInv

LEMMA InitIInv == Init => IInv
<1> SUFFICES ASSUME Init PROVE IInv
  OBVIOUS
<1>1. created \in BOOLEAN /\ clear \in BOOLEAN /\ ContextInv
  BY Zenon DEF Init, ContextInv
<1>2. TypeOK
  BY <1>1 DEF Init, TypeOK
<1>3. Doubled /\ CountInv
  BY DEF Init, Doubled, CountInv
<1> QED
  BY <1>1, <1>2, <1>3 DEF IInv

LEMMA NextIInv == IInv /\ [Next]_vars => IInv'
<1> SUFFICES ASSUME IInv, [Next]_vars PROVE IInv'
  OBVIOUS
<1> USE MpsseAssumption DEF IInv, TypeOK, ContextInv, Doubled, CountInv
<1>1. ASSUME NEW r \in Int, Return(r), UNCHANGED <<created, contexts>>,
             handles' \subseteq (Addrs \cap 0 .. 127) \X Int,
             \A h \in handles' : h[2] = h[1] * 2
      PROVE  IInv'
  BY <1>1 DEF Return, wireVars
<1>2. CASE BusCreate \/ CloseUnopened \/ BusRelease
  <2>1. ContextInv' /\ created' \in BOOLEAN /\ contexts' \in Nat
    <3> DEFINE Owner == created \/ pc = "unopened"
    <3>1. /\ contexts = IF Owner THEN 1 ELSE 0
          /\ pc = "unopened" => ~created /\ call = None
      BY DEF ContextInv
    <3>2. \/ Owner' = Owner /\ contexts' = contexts
          \/ ~Owner /\ Owner' /\ contexts' = contexts + 1
          \/ Owner /\ ~Owner' /\ contexts' = contexts - 1
      BY <1>2, <3>1, Zenon DEF BusCreate, CloseUnopened, BusRelease, Return
    <3>3. (pc' = "unopened" => ~created' /\ call' = None) /\ created' \in BOOLEAN
      <4>1. CASE BusCreate
        <5>1. CASE pc' = "idle"
          BY <4>1, <5>1, Zenon DEF BusCreate
        <5>2. CASE UNCHANGED created /\ call' = None
          BY <4>1, <5>2, Zenon DEF BusCreate
        <5> QED
          BY <4>1, <5>1, <5>2, Zenon DEF BusCreate, Return
      <4>2. CASE CloseUnopened
        BY <4>2, Zenon DEF CloseUnopened
      <4>3. CASE BusRelease
        BY <4>3, <3>1, Zenon DEF BusRelease
      <4> QED
        BY <1>2, <4>1, <4>2, <4>3
    <3> HIDE DEF Owner
    <3>4. contexts' = (IF Owner' THEN 1 ELSE 0)
      BY <3>1, <3>2
    <3>5. contexts' \in Nat
      BY <3>4
    <3> QED
      BY <3>3, <3>4, <3>5, Zenon DEF ContextInv, Owner
  <2>2. TypeOK' /\ Doubled' /\ CountInv'
    BY <1>2, <2>1 DEF BusCreate, CloseUnopened, BusRelease, Return, wireVars,
                      MCUPR_RES_OK, MCUPR_RES_NOMEM, MCUPR_RES_BACKEND_FAILURE
  <2> QED
    BY <2>1, <2>2
<1>4. ASSUME NEW addr \in Addrs, I2cOpen(addr) PROVE IInv'
  <2>1. CASE UNCHANGED handles
    BY <1>1, <1>4, <2>1 DEF I2cOpen, MCUPR_RES_OK, MCUPR_RES_INVALID_OBJ, MCUPR_RES_INVALID_ARGUMENT
  <2>2. CASE ValidAddr(addr) /\ Return(MCUPR_RES_OK)
               /\ handles' = handles \cup {<<addr, addr * 2>>}
    BY <1>1, <1>4, <2>2 DEF I2cOpen, MCUPR_RES_OK, ValidAddr
  <2> QED
    BY <1>4, <2>1, <2>2 DEF I2cOpen
<1>5. ASSUME NEW h \in handles, I2cClose(h) PROVE IInv'
  BY <1>5 DEF I2cClose, wireVars
<1>6. ASSUME NEW op \in {"read", "write"}, NEW size \in Sizes,
             NEW h \in handles \cup {<<None, dev>> : dev \in StrayHandles}, Begin(op, h, size)
      PROVE  IInv'
  <2>1. h[1] \in (Int \cap 0 .. 127) \cup {None} /\ (h[1] # None => h[2] = h[1] * 2)
    OBVIOUS
  <2>2. ASSUME NEW r \in Int, Return(r) PROVE IInv'
    BY <1>1, <1>6, <2>2 DEF Begin
  <2>3. CASE ValidHandle(h[2]) /\ pc = "idle"
               /\ call' = [op |-> op, addr |-> h[1], dev |-> h[2], size |-> size]
               /\ Start /\ clear' = (slave' = "idle") /\ moved' = 0 /\ sent' = None
               /\ pc' = "addr" /\ res' = None
               /\ UNCHANGED <<ack, sends>>
    <3>1. h[2] \in 0 .. 254 /\ size \in Nat
      BY <2>3 DEF ValidHandle
    <3>2. call' \in Transfers /\ call'.addr = h[1] /\ call'.dev = h[2]
      BY <2>1, <2>3, <3>1 DEF Transfers
    <3>3. clear' \in BOOLEAN /\ (clear' => slave' = "idle")
      BY <2>3, Zenon
    <3>4. line' \in {"started", "stopped", "held"} /\ slave' \in {"idle", "sending", "receiving", "stuck"}
      BY <2>3 DEF Start
    <3> QED
      BY <1>6, <2>1, <2>3, <3>2, <3>3, <3>4 DEF Begin
  <2> QED
    BY <1>6, <2>2, <2>3 DEF Begin, MCUPR_RES_INVALID_OBJ, MCUPR_RES_INVALID_HANDLE
<1>7. pc \notin {"idle", "unopened"} => call \in Transfers /\ call.size \in Nat /\ AddressByte \in 0 .. 255
  BY DEF Transfers, AddressByte
<1>8. CASE SendAddress
  BY <1>7, <1>8 DEF SendAddress, Acknowledged, Nacked, GoStop, Transfers,
                    MCUPR_RES_COMMUNICATION_ERROR, MCUPR_RES_BACKEND_FAILURE
<1>9. CASE ReadData
  BY <1>7, <1>9 DEF ReadData, MCUPR_RES_COMMUNICATION_ERROR
<1>10. CASE DummyRead
  BY <1>10 DEF DummyRead, AcksAfterRead
<1>11. CASE WriteData
  BY <1>7, <1>11 DEF WriteData, DataResult, MCUPR_RES_COMMUNICATION_ERROR
<1>12. CASE StopBus
  BY <1>12 DEF StopBus
<1>13. CASE UNCHANGED vars
  BY <1>13 DEF vars, wireVars
<1> QED
  BY <1>2, <1>4, <1>5, <1>6, <1>8, <1>9, <1>10, <1>11, <1>12, <1>13 DEF Next

(* The types, for all addresses and handles a client may pass.             *)
THEOREM TypeCorrect == Spec => []TypeOK
<1>1. IInv => TypeOK
  BY DEF IInv
<1> QED
  BY <1>1, InitIInv, NextIInv, PTL DEF Spec

(* Whatever fails, a transfer that returns a count saw an acknowledge, of  *)
(* the slave it addressed if it found no slave left on the bus, and a read *)
(* returns the bytes it moved.                                             *)
THEOREM EarnsCount == Spec => []CountIsEarned
<1>1. IInv => CountIsEarned
  BY DEF IInv, CountInv, CountIsEarned
<1> QED
  BY <1>1, InitIInv, NextIInv, PTL DEF Spec

(* A bus owns exactly one context from its create to its release, and a    *)
(* create that got one it cannot use leaves none behind.                   *)
THEOREM OwnsContext == Spec => []ContextsOwned
<1>1. IInv => ContextsOwned
  BY DEF IInv, ContextInv, ContextsOwned
<1> QED
  BY <1>1, InitIInv, NextIInv, PTL DEF Spec

-----------------------------------------------------------------------------

(* After a start condition, a slave that is addressed was addressed by     *)
(* this transfer.                                                          *)
AnswerInv ==
  line = "started" /\ slave \in {"sending", "receiving"} =>
    /\ call # None /\ sent = AddressByte
    /\ slave = (IF call.op = "read" THEN "sending" ELSE "receiving")

(* No slave is addressed but the one the handle was opened for, for every  *)
(* 7-bit address, whatever fails and whatever was left on the bus before.  *)
THEOREM AnswersRight == Spec => []AnswersAsOpened
<1>1. Init => AnswerInv
  BY DEF Init, AnswerInv
<1>2. IInv /\ WireInv /\ AnswerInv /\ [Next]_vars => AnswerInv'
  <2> SUFFICES ASSUME IInv, WireInv, AnswerInv, [Next]_vars PROVE AnswerInv'
    OBVIOUS
  <2> USE DEF AnswerInv
  <2>1. line = "started" /\ pc \in {"idle", "unopened", "addr"} => slave \in {"idle", "stuck"}
    BY DEF WireInv, IInv, TypeOK
  <2>3. CASE SendAddress
    BY <2>1, <2>3 DEF SendAddress, AddressByte, IInv, CountInv
  <2>4. CASE ReadData \/ DummyRead \/ WriteData \/ StopBus \/ UNCHANGED vars
    BY <2>4 DEF ReadData, DummyRead, WriteData, StopBus, vars, wireVars, AddressByte
  <2>5. ASSUME NEW op \in {"read", "write"}, NEW h, NEW size \in Sizes, Begin(op, h, size)
        PROVE  AnswerInv'
    BY <2>1, <2>5 DEF Begin, Start, Return, wireVars, WireInv
  <2>6. ASSUME NEW addr, I2cOpen(addr) PROVE AnswerInv'
    BY <2>1, <2>6 DEF I2cOpen, Return, wireVars
  <2>7. ASSUME NEW h, I2cClose(h) PROVE AnswerInv'
    BY <2>1, <2>7 DEF I2cClose, wireVars
  <2>8. CASE BusCreate \/ CloseUnopened \/ BusRelease
    BY <2>1, <2>8 DEF BusCreate, CloseUnopened, BusRelease, Return, wireVars
  <2> QED
    BY <2>3, <2>4, <2>5, <2>6, <2>7, <2>8 DEF Next
<1>3. WireInv /\ [Next]_vars => WireInv'
  BY FreeNext
<1>4. IInv /\ AnswerInv => AnswersAsOpened
  <2> SUFFICES ASSUME IInv, AnswerInv, line = "started", slave \in {"sending", "receiving"}, call.addr # None
               PROVE  /\ sent \div 2 = call.addr
                      /\ sent % 2 = IF slave = "sending" THEN 1 ELSE 0
    BY DEF AnswersAsOpened
  <2>1. call.addr \in 0 .. 127 /\ call.dev = call.addr * 2
    BY DEF IInv, Doubled, AnswerInv
  <2>2. sent = IF slave = "sending" THEN call.addr * 2 + 1 ELSE call.addr * 2
    BY <2>1 DEF AnswerInv, AddressByte
  <2> QED
    BY <2>1, <2>2
<1> QED
  BY <1>1, <1>2, <1>3, <1>4, InitIInv, NextIInv, FreeInit, PTL DEF Spec

-----------------------------------------------------------------------------

(* The transfer in progress is one of a device the client has, puts that   *)
(* device's address byte on the wire, and counts no more than its size.    *)
CallInv ==
  pc \notin {"idle", "unopened"} =>
    /\ call.size \in Sizes
    /\ call.addr # None => <<call.addr, call.dev>> \in handles
    /\ sent # None => sent = AddressByte
    /\ pc \in {"dummy", "stop"} => res \in Int /\ res <= call.size

LEMMA NextCallInv == IInv /\ CallInv /\ [Next]_vars => CallInv'
<1> SUFFICES ASSUME IInv, CallInv, [Next]_vars PROVE CallInv'
  OBVIOUS
<1> USE MpsseAssumption DEF CallInv
<1>1. pc' \in {"idle", "unopened"} => CallInv'
  OBVIOUS
<1>2. pc \notin {"idle", "unopened"} => call \in Transfers /\ call.size \in Nat
  BY DEF IInv, TypeOK, CountInv, Transfers
<1>3. CASE BusCreate \/ CloseUnopened \/ BusRelease \/ StopBus
  BY <1>1, <1>3 DEF BusCreate, CloseUnopened, BusRelease, StopBus, Return
<1>4. CASE \E addr \in Addrs : I2cOpen(addr)
  BY <1>1, <1>4 DEF I2cOpen, Return
<1>5. CASE \E h \in handles : I2cClose(h)
  BY <1>1, <1>5 DEF I2cClose
<1>6. ASSUME NEW op \in {"read", "write"}, NEW size \in Sizes,
             NEW h \in handles \cup {<<None, dev>> : dev \in StrayHandles}, Begin(op, h, size)
      PROVE  CallInv'
  <2>1. CASE pc' = pc
    BY <1>1, <1>6, <2>1 DEF Begin, Return
  <2>2. CASE pc' # pc
    <3>1. /\ call' = [op |-> op, addr |-> h[1], dev |-> h[2], size |-> size]
          /\ UNCHANGED handles /\ sent' = None /\ pc' = "addr"
      BY <1>6, <2>2 DEF Begin, Return
    <3>2. h[1] # None => h \in handles /\ h = <<h[1], h[2]>>
      BY DEF IInv, TypeOK
    <3> QED
      BY <3>1, <3>2
  <2> QED
    BY <2>1, <2>2
<1>7. CASE SendAddress
  BY <1>2, <1>7 DEF SendAddress, Acknowledged, Nacked, GoStop, AddressByte,
                    MCUPR_RES_COMMUNICATION_ERROR, MCUPR_RES_BACKEND_FAILURE
<1>8. CASE ReadData
  BY <1>2, <1>8 DEF ReadData, AddressByte, MCUPR_RES_COMMUNICATION_ERROR
<1>9. CASE DummyRead
  BY <1>9 DEF DummyRead, AcksAfterRead, AddressByte
<1>10. CASE WriteData
  BY <1>2, <1>10 DEF WriteData, DataResult, AddressByte, MCUPR_RES_COMMUNICATION_ERROR
<1>11. CASE UNCHANGED vars
  BY <1>11 DEF vars, wireVars, AddressByte
<1> QED
  BY <1>3, <1>4, <1>5, <1>6, <1>7, <1>8, <1>9, <1>10, <1>11 DEF Next

LEMMA NextRefines == IInv /\ CallInv /\ [Next]_vars => [I2cApi!Next]_I2cApi!apiVars
<1> SUFFICES ASSUME IInv, CallInv, [Next]_vars PROVE [I2cApi!Next]_I2cApi!apiVars
  OBVIOUS
<1> DEFINE apiBus == [b \in {"bus"} |-> IF created THEN 0 ELSE None]
<1>1. ASSUME I2cApi!HandleStep, Done' \in {None, Done} PROVE I2cApi!Next
  BY <1>1 DEF I2cApi!Next
<1>2. ASSUME UNCHANGED <<created, handles>>, Done' \in {None, Done} PROVE I2cApi!Next
  BY <1>1, <1>2 DEF I2cApi!HandleStep, Opened
<1>3. ASSUME NEW r, Return(r) PROVE Done' = None
  BY <1>3 DEF Return, Done
<1>4. CASE BusCreate
  <2>1. CASE UNCHANGED created
    <3>1. UNCHANGED handles /\ Done' = None
      BY <1>3, <1>4 DEF BusCreate, Done
    <3> QED
      BY <1>2, <2>1, <3>1
  <2>2. CASE ~created /\ created' /\ UNCHANGED handles
    <3>1. apiBus["bus"] = None /\ apiBus' = [apiBus EXCEPT !["bus"] = 0]
      BY <2>2
    <3>2. I2cApi!Create("bus")
      BY <2>2, <3>1 DEF I2cApi!Create, Opened
    <3>3. Done' = None
      BY <1>3, <1>4, <2>2 DEF BusCreate
    <3> QED
      BY <1>1, <3>2, <3>3 DEF I2cApi!HandleStep
  <2> QED
    BY <1>4, <2>1, <2>2 DEF BusCreate
<1>12. CASE CloseUnopened
  <2>1. UNCHANGED <<created, handles>> /\ Done' = None
    BY <1>12 DEF CloseUnopened, Done, IInv, ContextInv
  <2> QED
    BY <1>2, <2>1
<1>5. CASE BusRelease
  <2>1. created /\ ~created' /\ handles' = {} /\ Done' = Done
    BY <1>5 DEF BusRelease, Done, wireVars
  <2>2. apiBus["bus"] # None /\ apiBus' = [apiBus EXCEPT !["bus"] = None]
    BY <2>1, MpsseAssumption
  <2>3. I2cApi!Release("bus")
    BY <2>1, <2>2 DEF I2cApi!Release, Opened
  <2> QED
    BY <1>1, <2>1, <2>3 DEF I2cApi!HandleStep
<1>6. ASSUME NEW addr \in Addrs, I2cOpen(addr) PROVE I2cApi!Next
  <2>1. Done' = None /\ UNCHANGED created
    BY <1>3, <1>6 DEF I2cOpen
  <2>2. CASE UNCHANGED handles
    BY <1>2, <2>1, <2>2
  <2>3. CASE /\ created /\ ValidAddr(addr) /\ handles' = handles \cup {<<addr, addr * 2>>}
    <3> DEFINE device == [bus |-> "bus", dev |-> addr * 2, node |-> apiBus["bus"], addr |-> addr]
    <3>1. apiBus["bus"] = 0 /\ UNCHANGED apiBus /\ apiBus["bus"] # None
      BY <2>1, <2>3, MpsseAssumption
    <3>2. addr \in 0 .. 127 /\ addr * 2 \in 0 .. 254 /\ (addr * 2) \div 2 = addr
      BY <2>3 DEF ValidAddr
    <3>3. \A d \in Opened : d.bus = "bus" /\ d.dev = addr * 2 => d = device
      BY <3>1, <3>2 DEF Opened
    <3>4. Opened' = Opened \cup {device}
      <4> DEFINE h == <<addr, addr * 2>>
      <4>1. h[2] = addr * 2
        OBVIOUS
      <4> HIDE DEF h
      <4>2. handles' = handles \cup {h}
        BY <2>3 DEF h
      <4> QED
        BY <3>1, <3>2, <4>1, <4>2 DEF Opened
    <3>5. I2cApi!Open("bus", addr, addr * 2)
      BY <3>1, <3>3, <3>4 DEF I2cApi!Open
    <3> QED
      BY <1>1, <2>1, <3>2, <3>5 DEF I2cApi!HandleStep
  <2> QED
    BY <1>6, <2>2, <2>3 DEF I2cOpen
<1>7. ASSUME NEW h \in handles, I2cClose(h) PROVE I2cApi!Next
  <2> DEFINE device == [bus |-> "bus", dev |-> h[2], node |-> 0, addr |-> h[2] \div 2]
  <2>1. handles' = handles \ {h} /\ UNCHANGED created /\ Done' = Done
    BY <1>7 DEF I2cClose, Done, wireVars
  <2>2. \A k \in handles : k[2] = h[2] => k = h
    <3> SUFFICES ASSUME NEW k \in handles, k[2] = h[2] PROVE k = h
      OBVIOUS
    <3>1. k[1] \in Int /\ h[1] \in Int /\ k[2] = k[1] * 2 /\ h[2] = h[1] * 2
      BY MpsseAssumption DEF IInv, TypeOK, Doubled
    <3>2. \A m, n \in Int : m * 2 = n * 2 => m = n
      OBVIOUS
    <3>3. k[1] = h[1]
      BY <3>1, <3>2
    <3> QED
      BY <3>3 DEF IInv, TypeOK
  <2>3. device \in Opened
    BY DEF Opened
  <2>4. Opened' = Opened \ {device}
    BY <2>1, <2>2 DEF Opened
  <2>5. I2cApi!Close(device)
    BY <2>1, <2>4 DEF I2cApi!Close
  <2> QED
    BY <1>1, <2>1, <2>3, <2>5 DEF I2cApi!HandleStep
<1>8. CASE SendAddress \/ ReadData \/ DummyRead \/ WriteData
  <2>1. pc' # "idle" /\ UNCHANGED <<created, handles>>
    BY <1>8 DEF SendAddress, ReadData, DummyRead, WriteData, Acknowledged, Nacked, GoStop
  <2> QED
    BY <1>2, <2>1 DEF Done
<1>9. ASSUME NEW op, NEW h, NEW size, Begin(op, h, size) PROVE I2cApi!Next
  <2>1. UNCHANGED <<created, handles>> /\ (pc' = "addr" \/ \E r : Return(r))
    BY <1>9 DEF Begin
  <2> QED
    BY <1>2, <1>3, <2>1 DEF Done
<1>10. CASE StopBus
  <2>1. /\ pc = "stop" /\ pc' = "idle"
        /\ UNCHANGED <<created, handles, call, res, clear, ack, sent>>
    BY <1>10 DEF StopBus
  <2>2. CASE Done' = None
    BY <1>2, <2>1, <2>2
  <2>3. CASE Done' # None
    <3> DEFINE device == [bus |-> "bus", dev |-> call.dev, node |-> 0, addr |-> call.dev \div 2]
    <3>1. call # None /\ call.addr # None /\ res >= 0 /\ clear
      BY <2>1, <2>3 DEF Done
    <3>2. ack = "ACK" /\ sent # None /\ sent = AddressByte
      BY <2>1, <3>1 DEF IInv, CountInv, CallInv
    <3>3. call.addr \in 0 .. 127 /\ call.dev = call.addr * 2
      BY <3>1 DEF IInv, Doubled
    <3>4. call.dev \div 2 = call.addr /\ sent \div 2 = call.addr
      BY <3>2, <3>3 DEF AddressByte
    <3>5. call.size \in Sizes /\ call.size \in Nat /\ res \in 0 .. call.size
      <4>1. call.size \in Sizes /\ res \in Int /\ res <= call.size
        BY <2>1 DEF CallInv
      <4>2. call.size \in Nat
        BY <4>1, MpsseAssumption
      <4>3. res >= 0
        BY <3>1
      <4> HIDE DEF device
      <4> QED
        BY <4>1, <4>2, <4>3
    <3>6. device \in Opened
      BY <2>1, <3>1 DEF CallInv, Opened
    <3>7. Done' = [node |-> device.node, addr |-> device.addr, size |-> call.size, count |-> res]
      BY <2>1, <2>3, <3>2, <3>4 DEF Done
    <3>8. I2cApi!Transfer(device, call.size)
      BY <2>1, <3>5, <3>7 DEF I2cApi!Transfer, Opened
    <3> QED
      BY <3>5, <3>6, <3>8 DEF I2cApi!Next
  <2> QED
    BY <2>2, <2>3
<1>11. CASE UNCHANGED vars
  BY <1>11 DEF vars, wireVars, I2cApi!apiVars, Opened, Done
<1> QED
  BY <1>4, <1>5, <1>6, <1>7, <1>8, <1>9, <1>10, <1>11, <1>12 DEF Next

(* Whatever fails on the way, the backend's chain of USB calls is an       *)
(* atomic transfer of the I2C API to the address that was opened, if it    *)
(* found no slave left on the bus.                                         *)
THEOREM Implements == Spec => ImplementsI2cApi
<1>1. Init => I2cApi!Init
  BY DEF Init, I2cApi!Init, Opened, Done
<1>2. Init => CallInv
  BY DEF Init, CallInv
<1> QED
  BY <1>1, <1>2, InitIInv, NextIInv, NextCallInv, NextRefines, PTL
  DEF Spec, ImplementsI2cApi, I2cApi!Spec
=============================================================================
