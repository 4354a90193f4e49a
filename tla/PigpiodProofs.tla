----------------------------- MODULE PigpiodProofs -----------------------------
(***************************************************************************)
(* The handles of the pigpiod backend, for every number of buses, handles  *)
(* restarts and lost connections: the devices of a bus that is connected   *)
(* and the entries the daemon keeps for it are the same.                   *)
(***************************************************************************)
EXTENDS Pigpiod, TLAPS

(* A device of a connected bus has its own entry in the daemon. *)
DevsKnown ==
  \A d \in devs :
    /\ bus[d.bus] # None
    /\ Up(d.bus) /\ d.dev \in Handles =>
         table[d.dev] = Entry(d.bus, bus[d.bus].busnum, d.addr)

(* The daemon keeps entries only for buses that are connected. *)
OwnersUp ==
  \A h \in Handles : table[h] # None /\ table[h].owner \in Buses => Up(table[h].owner)

IInv == TypeOK /\ DevsKnown /\ OwnersUp /\ NoHandleLeak /\ ReachesOwnDevice

LEMMA InitIInv == Init => IInv
BY DEF Init, IInv, TypeOK, DevsKnown, OwnersUp, NoHandleLeak, ReachesOwnDevice

LEMMA NextIInv == IInv /\ [Next]_vars => IInv'
<1> SUFFICES ASSUME IInv, [Next]_vars PROVE IInv'
  OBVIOUS
<1> USE PigpiodAssumption DEF IInv, TypeOK, DevsKnown, OwnersUp, NoHandleLeak, Up
<1>1. last' = None => ReachesOwnDevice'
  BY DEF ReachesOwnDevice
<1>0. ASSUME NEW d \in devs, Up(d.bus), d.dev \in Handles
      PROVE  /\ table[d.dev] = Entry(d.bus, bus[d.bus].busnum, d.addr)
             /\ table[d.dev] \in Entries
             /\ table[d.dev].owner = d.bus /\ table[d.dev].addr = d.addr
  <2>1. table[d.dev] = Entry(d.bus, bus[d.bus].busnum, d.addr)
    BY <1>0
  <2>2. bus[d.bus].busnum \in Int
    BY <1>0 DEF DefaultBusnum
  <2> QED
    BY <2>1, <2>2 DEF Entry, Entries
<1>11. \A b \in Buses : bus[b] # None => bus[b].busnum \in Int
  <2>1. \A n \in Busnums : DefaultBusnum(n) \in Int
    BY DEF DefaultBusnum
  <2> QED
    BY <2>1
<1>2. CASE DaemonRestart
  <2>1. /\ table' = [h \in Handles |-> None] /\ UNCHANGED devs /\ last' = None
        /\ bus' = [b \in Buses |-> IF bus[b] = None THEN None ELSE [bus[b] EXCEPT !.up = FALSE]]
    BY <1>2 DEF DaemonRestart
  <2>2. OwnersUp' /\ NoHandleLeak'
    BY <2>1
  <2>3. ASSUME NEW b \in Buses, bus[b] # None
        PROVE  /\ bus'[b] \in [busnum : {DefaultBusnum(n) : n \in Busnums}, up : BOOLEAN]
               /\ bus'[b] # None /\ ~bus'[b].up
    <3>1. bus'[b] = [bus[b] EXCEPT !.up = FALSE]
      BY <2>1, <2>3
    <3>2. bus'[b] \in [busnum : {DefaultBusnum(n) : n \in Busnums}, up : BOOLEAN]
      <4> DEFINE nums == {DefaultBusnum(n) : n \in Busnums}
      <4>1. bus[b] \in [busnum : nums, up : BOOLEAN]
        BY <2>3
      <4> HIDE DEF nums
      <4>2. bus'[b] \in [busnum : nums, up : BOOLEAN]
        BY <3>1, <4>1
      <4> QED
        BY <4>2 DEF nums
    <3>3. bus'[b] \in [busnum : Int, up : BOOLEAN]
      BY <3>2 DEF DefaultBusnum
    <3> QED
      BY <2>3, <3>1, <3>2, <3>3
  <2>4. TypeOK'
    BY <2>1, <2>3
  <2>5. DevsKnown'
    BY <2>1, <2>3
  <2> QED
    BY <1>1, <2>1, <2>2, <2>4, <2>5
<1>10. ASSUME NEW b \in Buses, ConnectionLost(b) PROVE IInv'
  <2>1. /\ Up(b) /\ bus' = [bus EXCEPT ![b].up = FALSE]
        /\ table' = [h \in Handles |->
                       IF table[h] # None /\ table[h].owner = b
                         THEN [table[h] EXCEPT !.owner = Nobody] ELSE table[h]]
        /\ UNCHANGED devs /\ last' = None
    BY <1>10 DEF ConnectionLost
  <2>2. /\ bus'[b] \in [busnum : {DefaultBusnum(n) : n \in Busnums}, up : BOOLEAN]
        /\ bus'[b] # None /\ ~bus'[b].up
        /\ \A c \in Buses \ {b} : bus'[c] = bus[c]
    <3> DEFINE nums == {DefaultBusnum(n) : n \in Busnums}
    <3>1. bus[b] \in [busnum : nums, up : BOOLEAN]
      BY <2>1
    <3>2. nums \subseteq Int
      BY DEF DefaultBusnum
    <3> HIDE DEF nums
    <3>3. bus' = [bus EXCEPT ![b] = [bus[b] EXCEPT !.up = FALSE]]
      BY <2>1
    <3>4. bus'[b] = [bus[b] EXCEPT !.up = FALSE] /\ \A c \in Buses \ {b} : bus'[c] = bus[c]
      BY <3>3
    <3>5. bus'[b] \in [busnum : nums, up : BOOLEAN] /\ bus'[b].up = FALSE
      BY <3>1, <3>4
    <3>6. bus'[b] \in [busnum : Int, up : BOOLEAN]
      BY <3>2, <3>5
    <3> QED
      BY <3>4, <3>5, <3>6 DEF nums
  <2>3. ASSUME NEW h \in Handles
        PROVE  /\ table'[h] \in Entries \cup {None}
               /\ table'[h] = table[h] \/ (table[h].owner = b /\ table'[h].owner = Nobody)
               /\ table'[h] # None => table[h] # None
               /\ table'[h] # None => table'[h].owner # b
    <3>1. CASE table[h] # None /\ table[h].owner = b
      <4>1. table'[h] = [table[h] EXCEPT !.owner = Nobody] /\ table[h] \in Entries
        BY <2>1, <3>1
      <4>2. table'[h] \in Entries /\ table'[h].owner = Nobody
        BY <4>1 DEF Entries
      <4> QED
        BY <3>1, <4>2
    <3>2. CASE ~(table[h] # None /\ table[h].owner = b)
      BY <2>1, <3>2
    <3> QED
      BY <3>1, <3>2
  <2>4. TypeOK'
    BY <2>1, <2>2, <2>3
  <2>5. OwnersUp' /\ NoHandleLeak'
    BY <2>1, <2>2, <2>3
  <2>6. DevsKnown'
    <3>1. ASSUME NEW d \in devs, Up(d.bus)', d.dev \in Handles
          PROVE  table'[d.dev] = table[d.dev] /\ bus'[d.bus] = bus[d.bus] /\ Up(d.bus)
      BY <1>0, <2>1, <2>2, <2>3, <3>1
    <3>2. \A d \in devs : bus'[d.bus] # None
      BY <2>2
    <3> QED
      BY <2>1, <3>1, <3>2
  <2> QED
    BY <1>1, <2>1, <2>4, <2>5, <2>6
<1>3. CASE OthersOpenOrClose
  <2>1. PICK h \in Handles, e \in Entries \cup {None} :
          /\ table' = [table EXCEPT ![h] = e]
          /\ table[h] # None => table[h].owner = Others
          /\ e # None => e.owner = Others
    <3>1. \A use \in OthersUses :
            /\ Entry(Others, use[1], use[2]) \in Entries
            /\ Entry(Others, use[1], use[2]).owner = Others
      BY DEF Entry, Entries
    <3> QED
      BY <1>3, <3>1 DEF OthersOpenOrClose
  <2>2. UNCHANGED <<bus, devs>> /\ last' = None
    BY <1>3 DEF OthersOpenOrClose
  <2>3. \A d \in devs : Up(d.bus) => d.dev # h
    BY <1>0, <2>1
  <2>4. TypeOK' /\ DevsKnown'
    BY <2>1, <2>2, <2>3
  <2>5. OwnersUp' /\ NoHandleLeak'
    BY <2>1, <2>2
  <2> QED
    BY <1>1, <2>2, <2>4, <2>5
<1>4. ASSUME NEW b \in Buses, BusCreate(b) PROVE IInv'
  <2>1. PICK n \in Busnums :
          bus' = [bus EXCEPT ![b] = [busnum |-> DefaultBusnum(n), up |-> TRUE]]
    BY <1>4 DEF BusCreate
  <2>2. bus[b] = None /\ UNCHANGED <<table, devs>>
    BY <1>4 DEF BusCreate
  <2>3. TypeOK'
    BY <1>4, <2>1, <2>2 DEF BusCreate
  <2>4. \A c \in Buses : c # b => bus'[c] = bus[c]
    BY <2>1
  <2>5. DevsKnown' /\ OwnersUp' /\ NoHandleLeak'
    BY <2>2, <2>3, <2>4 DEF Entries
  <2> QED
    BY <1>1, <1>4, <2>3, <2>5 DEF BusCreate
<1>5. ASSUME NEW b \in Buses, BusRelease(b) PROVE IInv'
  <2>1. /\ bus' = [bus EXCEPT ![b] = None] /\ UNCHANGED <<table, devs>>
        /\ \A d \in devs : d.bus # b
    BY <1>5 DEF BusRelease
  <2>2. \A h \in Handles : table[h] # None => table[h].owner # b
    BY <2>1
  <2>3. DevsKnown' /\ OwnersUp' /\ NoHandleLeak'
    BY <2>1, <2>2 DEF Entries
  <2>4. TypeOK'
    BY <1>5, <2>1 DEF BusRelease
  <2> QED
    BY <1>1, <1>5, <2>3, <2>4 DEF BusRelease
<1>6. ASSUME NEW b \in Buses, NEW addr \in Addrs, I2cOpen(b, addr) PROVE IInv'
  <2>1. bus[b] # None /\ UNCHANGED bus /\ last' = None
    BY <1>6 DEF I2cOpen, Link
  <2>2. ASSUME NEW h \in Handles, Up(b), table[h] = None,
               table' = [table EXCEPT ![h] = Entry(b, bus[b].busnum, addr)],
               devs' = devs \cup {[bus |-> b, addr |-> addr, dev |-> h]}
        PROVE  IInv'
    <3> DEFINE e == Entry(b, bus[b].busnum, addr)
               d == [bus |-> b, addr |-> addr, dev |-> h]
    <3>1. bus[b].busnum \in Int
      BY <1>11, <2>1
    <3>2. e \in Entries /\ e # None /\ e.owner = b /\ e.addr = addr
      BY <3>1 DEF Entry, Entries
    <3>3. d \in [bus : Buses, addr : Addrs, dev : Handles \cup Refused]
          /\ d.bus = b /\ d.addr = addr /\ d.dev = h
      OBVIOUS
    <3>4. table'[h] = e /\ \A k \in Handles \ {h} : table'[k] = table[k]
      BY <2>2
    <3>5. \A x \in devs : Up(x.bus) => x.dev # h
      BY <1>0, <2>2
    <3>6. TypeOK'
      BY <2>1, <2>2, <3>2, <3>3
    <3>7. DevsKnown'
      BY <2>1, <2>2, <3>3, <3>4, <3>5
    <3>8. OwnersUp'
      BY <2>1, <2>2, <3>2, <3>4
    <3>9. NoHandleLeak'
      <4>1. devs' = devs \cup {d}
        BY <2>2
      <4> HIDE DEF d, e
      <4> QED
        BY <3>2, <3>3, <3>4, <4>1
    <3> QED
      BY <1>1, <2>1, <3>6, <3>7, <3>8, <3>9
  <2>3. ASSUME NEW r \in Refused,
               devs' = devs \cup {[bus |-> b, addr |-> addr, dev |-> r]},
               table' \in [Handles -> Entries \cup {None}],
               \A k \in Handles : table'[k] = table[k] \/ table'[k].owner = Nobody,
               \A d \in devs : Up(d.bus) /\ d.dev \in Handles => table'[d.dev] = table[d.dev]
        PROVE  IInv'
    <3> DEFINE x == [bus |-> b, addr |-> addr, dev |-> r]
    <3>0. r \in Int /\ r < 0 /\ r \notin Handles
      OBVIOUS
    <3>1. /\ x \in [bus : Buses, addr : Addrs, dev : Handles \cup Refused]
          /\ x.bus = b /\ x.dev \notin Handles
      BY <3>0
    <3> HIDE DEF x
    <3>2. devs' = devs \cup {x}
      BY <2>3 DEF x
    <3>3. TypeOK'
      BY <2>1, <2>3, <3>1, <3>2
    <3>4. DevsKnown' /\ OwnersUp'
      BY <2>1, <2>3, <3>1, <3>2
    <3>5. NoHandleLeak'
      BY <2>3, <3>2
    <3> QED
      BY <1>1, <2>1, <3>3, <3>4, <3>5
  <2>4. ASSUME NEW r \in Refused, NEW h \in Handles, table[h] = None,
               table' = [table EXCEPT ![h] = Entry(Nobody, bus[b].busnum, addr)],
               devs' = devs \cup {[bus |-> b, addr |-> addr, dev |-> r]}
        PROVE  IInv'
    <3>1. bus[b].busnum \in Int
      BY <1>11, <2>1
    <3>2. Entry(Nobody, bus[b].busnum, addr) \in Entries
          /\ Entry(Nobody, bus[b].busnum, addr).owner = Nobody
      BY <3>1 DEF Entry, Entries
    <3>3. \A d \in devs : Up(d.bus) => d.dev # h
      BY <1>0, <2>4
    <3> QED
      BY <2>3, <2>4, <3>2, <3>3
  <2> QED
    BY <1>6, <2>2, <2>3, <2>4 DEF I2cOpen
<1>7. ASSUME NEW d \in devs, I2cClose(d) PROVE IInv'
  <2>1. devs' = devs \ {d} /\ UNCHANGED bus /\ last' = None
    BY <1>7 DEF I2cClose
  <2>2. CASE Up(d.bus) /\ d.dev \in Handles
    <3>1. \/ table' = [table EXCEPT ![d.dev] = None]
          \/ table' = [table EXCEPT ![d.dev].owner = Nobody]
      BY <1>7, <2>2 DEF I2cClose, CloseAtDaemon
    <3>2. \A x \in devs : Up(x.bus) /\ x.dev = d.dev => x = d
      BY <1>0, <2>2
    <3>3. table' \in [Handles -> Entries \cup {None}]
          /\ (table'[d.dev] = None \/ table'[d.dev].owner = Nobody)
          /\ \A k \in Handles \ {d.dev} : table'[k] = table[k]
      <4>1. CASE table' = [table EXCEPT ![d.dev] = None]
        BY <2>2, <4>1
      <4>2. CASE table' = [table EXCEPT ![d.dev] = [table[d.dev] EXCEPT !.owner = Nobody]]
        <5> DEFINE e == [table[d.dev] EXCEPT !.owner = Nobody]
        <5>1. e \in Entries /\ e.owner = Nobody
          BY <1>0, <2>2 DEF Entries
        <5> HIDE DEF e
        <5> QED
          BY <2>2, <4>2, <5>1 DEF e
      <4> QED
        BY <3>1, <4>1, <4>2
    <3>4. DevsKnown'
      BY <2>1, <3>2, <3>3
    <3>5. NoHandleLeak' /\ OwnersUp' /\ TypeOK'
      BY <2>1, <3>3
    <3> QED
      BY <1>1, <2>1, <3>4, <3>5
  <2>3. CASE ~(Up(d.bus) /\ d.dev \in Handles)
    <3>1. UNCHANGED table
      BY <1>7, <2>3 DEF I2cClose, CloseAtDaemon
    <3>2. \A h \in Handles : table[h] # None /\ table[h].owner = d.bus => d.dev # h
      BY <2>3
    <3> QED
      BY <1>1, <2>1, <3>1, <3>2
  <2> QED
    BY <2>2, <2>3
<1>8. ASSUME NEW d \in devs, NEW op \in {"read", "write"}, NEW size \in Sizes,
             I2cTransfer(op, d, size)
      PROVE  IInv'
  <2>1. UNCHANGED <<bus, table, devs>>
    BY <1>8 DEF I2cTransfer
  <2>2. PICK r \in Answers(d, IF op = "read" THEN 0 .. size ELSE {0}) :
          last' = [op |-> op, size |-> size, res |-> r, bus |-> d.bus, addr |-> d.addr,
                   reached |-> IF r < 0 THEN None ELSE table[d.dev]]
    BY <1>8 DEF I2cTransfer
  <2>3. r \in Refused \/ (r \in 0 .. size /\ Up(d.bus) /\ d.dev \in Handles)
    BY <2>2 DEF Answers
  <2>4. ReachesOwnDevice'
    BY <2>1, <2>2, <2>3 DEF ReachesOwnDevice
  <2>5. TypeOK'
    BY <2>1, <2>2, <2>3
  <2> QED
    BY <2>1, <2>4, <2>5
<1>9. CASE UNCHANGED vars
  BY <1>9 DEF vars, ReachesOwnDevice
<1> HIDE DEF IInv, TypeOK, DevsKnown, OwnersUp, NoHandleLeak, Up
<1> QED
  BY <1>2, <1>3, <1>4, <1>5, <1>6, <1>7, <1>8, <1>9, <1>10 DEF Next

(* The types. *)
THEOREM TypeCorrect == Spec => []TypeOK
<1>1. IInv => TypeOK
  BY DEF IInv
<1> QED
  BY <1>1, InitIInv, NextIInv, PTL DEF Spec

(* However the daemon restarts and its other clients open and close, a     *)
(* transfer that does not fail reaches the device it was meant for.        *)
THEOREM ReachesRight == Spec => []ReachesOwnDevice
<1>1. IInv => ReachesOwnDevice
  BY DEF IInv
<1> QED
  BY <1>1, InitIInv, NextIInv, PTL DEF Spec

(* No entry of the daemon outlives the client's handle of it, but for a    *)
(* close that fails, an open whose answer is lost and a connection that    *)
(* breaks.                                                                 *)
THEOREM LeaksNoHandle == Spec => []NoHandleLeak
<1>1. IInv => NoHandleLeak
  BY DEF IInv
<1> QED
  BY <1>1, InitIInv, NextIInv, PTL DEF Spec

-----------------------------------------------------------------------------

(* A step on the handle side of the API after which no count is reported.  *)
LEMMA QuietStep ==
  ASSUME last' = None, I2cApi!HandleStep
  PROVE  I2cApi!Next
BY DEF I2cApi!Next, Done

(* The open devices of the API are the image of the client's devices. *)
LEMMA OpenedDevice ==
  \A d \in devs : d.dev \in Handles =>
    [bus |-> d.bus, dev |-> d.dev, node |-> BusNumber[d.bus], addr |-> d.addr] \in Opened
BY DEF Opened

LEMMA NextRefines == IInv /\ [Next]_vars => [I2cApi!Next]_I2cApi!apiVars
<1> SUFFICES ASSUME IInv, [Next]_vars PROVE [I2cApi!Next]_I2cApi!apiVars
  OBVIOUS
<1> USE PigpiodAssumption DEF IInv, TypeOK
<1>1. last' = None /\ UNCHANGED <<BusNumber, Opened>> => I2cApi!Next
  BY QuietStep DEF I2cApi!HandleStep
<1>2. CASE DaemonRestart
  <2>1. /\ bus' = [b \in Buses |-> IF bus[b] = None THEN None ELSE [bus[b] EXCEPT !.up = FALSE]]
        /\ UNCHANGED devs /\ last' = None
    BY <1>2 DEF DaemonRestart
  <2>2. ASSUME NEW b \in Buses, bus[b] # None
        PROVE  bus'[b] # None /\ bus'[b].busnum = bus[b].busnum
    <3>1. bus'[b] = [bus[b] EXCEPT !.up = FALSE]
      BY <2>1, <2>2
    <3>2. bus'[b].busnum = bus[b].busnum /\ bus'[b] \in [busnum : Int, up : BOOLEAN]
      <4>1. bus[b] \in [busnum : Int, up : BOOLEAN]
        BY <2>2 DEF DefaultBusnum
      <4> QED
        BY <3>1, <4>1
    <3> QED
      BY <3>2
  <2>3. UNCHANGED BusNumber
    BY <2>1, <2>2 DEF BusNumber
  <2>4. UNCHANGED Opened
    BY <2>1, <2>3 DEF Opened
  <2> QED
    BY <1>1, <2>1, <2>3, <2>4
<1>10. ASSUME NEW b \in Buses, ConnectionLost(b) PROVE I2cApi!Next
  <2>1. /\ Up(b) /\ bus' = [bus EXCEPT ![b].up = FALSE]
        /\ UNCHANGED devs /\ last' = None
    BY <1>10 DEF ConnectionLost
  <2>2. bus'[b] # None /\ bus'[b].busnum = bus[b].busnum
        /\ \A c \in Buses \ {b} : bus'[c] = bus[c]
    <3>1. bus[b] \in [busnum : Int, up : BOOLEAN]
      BY <2>1 DEF Up, DefaultBusnum
    <3>2. bus'[b] = [bus[b] EXCEPT !.up = FALSE] /\ \A c \in Buses \ {b} : bus'[c] = bus[c]
      <4>1. bus' = [bus EXCEPT ![b] = [bus[b] EXCEPT !.up = FALSE]]
        BY <2>1
      <4> QED
        BY <4>1
    <3>3. bus'[b] \in [busnum : Int, up : BOOLEAN] /\ bus'[b].busnum = bus[b].busnum
      BY <3>1, <3>2
    <3> QED
      BY <3>2, <3>3
  <2>3. UNCHANGED BusNumber
    BY <2>1, <2>2 DEF BusNumber, Up
  <2>4. UNCHANGED Opened
    BY <2>1, <2>3 DEF Opened
  <2> QED
    BY <1>1, <2>1, <2>3, <2>4
<1>3. CASE OthersOpenOrClose
  BY <1>1, <1>3 DEF OthersOpenOrClose, BusNumber, Opened
<1>4. ASSUME NEW b \in Buses, BusCreate(b) PROVE I2cApi!Next
  <2>1. PICK n \in Busnums :
          bus' = [bus EXCEPT ![b] = [busnum |-> DefaultBusnum(n), up |-> TRUE]]
    BY <1>4 DEF BusCreate
  <2>2. bus[b] = None /\ UNCHANGED devs /\ last' = None
    BY <1>4 DEF BusCreate
  <2>3. [busnum |-> DefaultBusnum(n), up |-> TRUE] # None
    <3>1. DefaultBusnum(n) \in Int
      BY DEF DefaultBusnum
    <3> HIDE DEF TypeOK
    <3>2. [busnum |-> DefaultBusnum(n), up |-> TRUE] \in [busnum : Int, up : BOOLEAN]
      BY <3>1
    <3> QED
      BY <3>2
  <2>4. BusNumber' = [BusNumber EXCEPT ![b] = DefaultBusnum(n)] /\ BusNumber[b] = None
    BY <2>1, <2>2, <2>3 DEF BusNumber
  <2>5. \A d \in devs : d.bus # b /\ BusNumber'[d.bus] = BusNumber[d.bus]
    BY <2>2, <2>4 DEF DevsKnown, BusNumber
  <2>6. UNCHANGED Opened
    BY <2>2, <2>5 DEF Opened
  <2> QED
    BY <2>2, <2>4, <2>6, QuietStep DEF I2cApi!HandleStep, I2cApi!Create
<1>5. ASSUME NEW b \in Buses, BusRelease(b) PROVE I2cApi!Next
  <2>1. /\ bus[b] # None /\ bus' = [bus EXCEPT ![b] = None]
        /\ UNCHANGED devs /\ last' = None /\ \A d \in devs : d.bus # b
    BY <1>5 DEF BusRelease
  <2>2. BusNumber' = [BusNumber EXCEPT ![b] = None]
    BY <2>1 DEF BusNumber
  <2>3. BusNumber[b] # None
    BY <2>1 DEF BusNumber, DefaultBusnum
  <2>4. \A d \in devs : BusNumber'[d.bus] = BusNumber[d.bus]
    BY <2>1, <2>2 DEF BusNumber
  <2>5. UNCHANGED Opened /\ \A d \in Opened : d.bus # b
    BY <2>1, <2>4 DEF Opened
  <2>6. Opened' = {d \in Opened : d.bus # b}
    BY <2>5
  <2> QED
    BY <2>1, <2>2, <2>3, <2>6, QuietStep DEF I2cApi!HandleStep, I2cApi!Release
<1>6. ASSUME NEW b \in Buses, NEW addr \in Addrs, I2cOpen(b, addr) PROVE I2cApi!Next
  <2>1. bus[b] # None /\ UNCHANGED bus /\ last' = None
    BY <1>6 DEF I2cOpen, Link
  <2>2. UNCHANGED BusNumber /\ BusNumber[b] # None
    BY <2>1 DEF BusNumber, DefaultBusnum
  <2>3. ASSUME NEW h \in Handles, Up(b), table[h] = None,
               devs' = devs \cup {[bus |-> b, addr |-> addr, dev |-> h]}
        PROVE  I2cApi!Next
    <3>1. \A d \in devs : d.bus = b => d.dev # h
      <4> SUFFICES ASSUME NEW d \in devs, d.bus = b, d.dev = h PROVE FALSE
        OBVIOUS
      <4>1. None = Entry(b, bus[b].busnum, d.addr)
        BY <2>3 DEF DevsKnown
      <4>2. bus[b].busnum \in Int
        BY <2>1 DEF DefaultBusnum
      <4> QED
        BY <4>1, <4>2 DEF Entry, Entries
    <3>2. \A d \in Opened : d.bus = b => d.dev # h
      BY <3>1 DEF Opened
    <3>3. Opened' = Opened \cup {[bus |-> b, dev |-> h, node |-> BusNumber[b], addr |-> addr]}
      <4> DEFINE d == [bus |-> b, addr |-> addr, dev |-> h]
      <4>1. d.bus = b /\ d.addr = addr /\ d.dev = h
        OBVIOUS
      <4> HIDE DEF d
      <4>2. devs' = devs \cup {d}
        BY <2>3 DEF d
      <4> QED
        BY <2>2, <4>1, <4>2 DEF Opened
    <3>4. I2cApi!Open(b, addr, h)
      BY <2>2, <3>2, <3>3 DEF I2cApi!Open
    <3> QED
      BY <2>1, <3>4, QuietStep DEF I2cApi!HandleStep
  <2>4. ASSUME NEW r \in Refused, devs' = devs \cup {[bus |-> b, addr |-> addr, dev |-> r]}
        PROVE  I2cApi!Next
    <3>1. r \notin Handles
      OBVIOUS
    <3>2. UNCHANGED Opened
      BY <2>2, <2>4, <3>1 DEF Opened
    <3> QED
      BY <1>1, <2>1, <2>2, <3>2
  <2> QED
    BY <1>6, <2>3, <2>4 DEF I2cOpen
<1>7. ASSUME NEW d \in devs, I2cClose(d) PROVE I2cApi!Next
  <2> DEFINE device == [bus |-> d.bus, dev |-> d.dev, node |-> BusNumber[d.bus], addr |-> d.addr]
  <2>1. devs' = devs \ {d} /\ UNCHANGED BusNumber /\ last' = None
    BY <1>7 DEF I2cClose, BusNumber
  <2>2. CASE d.dev \in Handles
    <3>1. \A e \in devs : e.bus = d.bus /\ e.dev = d.dev /\ e.addr = d.addr => e = d
      OBVIOUS
    <3>2. Opened' = Opened \ {device}
      BY <2>1, <2>2, <3>1 DEF Opened
    <3>3. device \in Opened
      BY <2>2 DEF Opened
    <3> QED
      BY <2>1, <3>2, <3>3, QuietStep DEF I2cApi!HandleStep, I2cApi!Close
  <2>3. CASE d.dev \notin Handles
    <3>1. UNCHANGED Opened
      BY <2>1, <2>3 DEF Opened
    <3> QED
      BY <1>1, <2>1, <3>1
  <2> QED
    BY <2>2, <2>3
<1>8. ASSUME NEW d \in devs, NEW op \in {"read", "write"}, NEW size \in Sizes,
             I2cTransfer(op, d, size)
      PROVE  I2cApi!Next
  <2>0. size \in Nat /\ 0 \in 0 .. size
    BY PigpiodAssumption
  <2>1. UNCHANGED <<BusNumber, Opened>>
    BY <1>8 DEF I2cTransfer, BusNumber, Opened
  <2>2. PICK r \in Answers(d, IF op = "read" THEN 0 .. size ELSE {0}) :
          last' = [op |-> op, size |-> size, res |-> r, bus |-> d.bus, addr |-> d.addr,
                   reached |-> IF r < 0 THEN None ELSE table[d.dev]]
    BY <1>8 DEF I2cTransfer
  <2>3. CASE r \in Refused
    <3>1. Done' = None
      BY <2>2, <2>3 DEF Done
    <3> QED
      BY <2>1, <3>1 DEF I2cApi!Next, I2cApi!HandleStep
  <2>4. CASE r \notin Refused
    <3>1. r \in 0 .. size /\ Up(d.bus) /\ d.dev \in Handles
      BY <2>0, <2>2, <2>4 DEF Answers
    <3>2. table[d.dev] = Entry(d.bus, bus[d.bus].busnum, d.addr)
      BY <3>1 DEF DevsKnown
    <3> DEFINE device == [bus |-> d.bus, dev |-> d.dev, node |-> BusNumber[d.bus], addr |-> d.addr]
    <3>3. last'.reached.busnum = BusNumber[d.bus] /\ last'.reached.addr = d.addr
          /\ last'.res = r /\ last'.size = size
      BY <2>2, <3>1, <3>2 DEF BusNumber, Entry, Up
    <3>4. last' # None
      <4>1. r \in Int /\ size \in Nat /\ d.bus \in Buses /\ d.addr \in Addrs
        BY <2>0, <3>1
      <4>2. (IF r < 0 THEN None ELSE table[d.dev]) \in Entries \cup {None}
        BY <3>1
      <4> HIDE DEF IInv
      <4>3. last' \in Results
        BY <2>2, <4>1, <4>2 DEF Results
      <4> QED
        BY <4>3
    <3>5. Done' = [node |-> device.node, addr |-> device.addr, size |-> size, count |-> r]
      BY <3>1, <3>3, <3>4 DEF Done
    <3>6. I2cApi!Transfer(device, size)
      BY <2>1, <3>1, <3>5 DEF I2cApi!Transfer
    <3> QED
      BY <3>1, <3>6, OpenedDevice DEF I2cApi!Next
  <2> QED
    BY <2>3, <2>4
<1>9. CASE UNCHANGED vars
  BY <1>9 DEF vars, I2cApi!apiVars, BusNumber, Opened, Done
<1> QED
  BY <1>2, <1>3, <1>4, <1>5, <1>6, <1>7, <1>8, <1>9, <1>10 DEF Next

(* Whatever the number of clients, handles and restarts, the backend and   *)
(* the daemon together keep the promise of the I2C API.                    *)
THEOREM Implements == Spec => ImplementsI2cApi
<1>1. Init => I2cApi!Init
  BY DEF Init, I2cApi!Init, BusNumber, Opened, Done
<1> QED
  BY <1>1, InitIInv, NextIInv, NextRefines, PTL DEF Spec, ImplementsI2cApi, I2cApi!Spec
=============================================================================
