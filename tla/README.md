# mcu_peripheral in TLA+

mcu_peripheral is a C library that gives programs on Linux one API for GPIO pins and for I2C and
SPI devices. A build contains one of three backends: `linuxdev` (device nodes and sysfs, all
three APIs), `libmpsse` (I2C on an FTDI USB adapter) or `pigpiod` (I2C through the pigpio daemon).
The modules here model the three backends, the API they share, the parameters and the object
allocator, and three of the example programs as clients; TLC checks them on small instances and
TLAPS proves their main properties for every instance.

## The system

| Component | State | Operations | Works with |
|---|---|---|---|
| linuxdev I2C (`impl_linuxdev.c:126-237`) | `bus->data->busnum`; descriptors as device handles | bus create/release, open, close, read, write | the descriptor table; `/dev/i2c-N`, where the slave address belongs to the descriptor |
| linuxdev SPI (`:239-337`) | `bus->params` | bus create/release, open, close, transfer | the descriptor table; `/dev/spidevN.M`, where mode and speed belong to the device |
| linuxdev GPIO (`:56-124`, `:339-445`) | none: the pin number is the handle | chip create/release, open, close, read, write | the descriptor table; sysfs files of a pin that all processes share |
| libmpsse I2C (`impl_libmpsse.c`) | the libmpsse context; the address is the handle | as linuxdev I2C | libmpsse calls over USB; the wires, the slave |
| pigpiod I2C (`impl_pigpiod.c`) | the connection, the bus number; the daemon's number is the handle | as linuxdev I2C | the daemon and its table of handles, shared with other programs |
| parameters (`mcu_peripheral.c`) | none | `*_init_params` | environment variables |
| object allocator (`utils.c`) | a size header before each object | alloc, release | the SPI bus |
| log (`log.c`, `log.h`) | level, two hooks | log, printf | called by everything |
| error texts (`error.c`) | a constant table | lookup | clients |
| `examples/i2cdetect.c` | the address and one handle, reused | a loop of open, probe, close | the I2C API |
| `examples/tsl2561.c` | a handle | power on, read two channels byte by byte | the I2C API; a light sensor that integrates meanwhile |
| `examples/adxl345.c` | the axes, and what was printed | set up, then a loop of read, compare, print | the SPI API; an accelerometer that measures and is tapped meanwhile |
| `examples/gpio.c` | - | one open, one read or write, one close | the GPIO API |

The library takes no lock and keeps no count of devices. What is hard in it:

* **Interleaving.** Threads that use the same process share the descriptor table; all users of an
  SPI device share its mode and speed; all users of a pin share its export and direction.
* **Partial failure.** Every open is several system calls, every libmpsse transfer several USB
  calls. Each may fail and some results are dropped, those of Start and Stop among them; what a
  failure leaves behind (a descriptor, a slave on the bus, an entry of the daemon) meets later calls.
* **State that outlives a call**: the bound slave address, spidev's settings, an exported pin, the
  acknowledge mode of a libmpsse context, a slave that was never told to stop, the daemon's handle
  after a restart or a lost connection.
* **Numeric edges**: 7-bit addresses shifted into a byte, "unspecified" as `0x80000000`.

What makes a component right:

* linuxdev: no path loses or double-owns a descriptor; a handle talks to the device it was opened
  for, on settings somebody asked for; an open pin is exported and has its direction; every call
  returns.
* libmpsse: every way a transfer ends lets go of the bus, unless the call that does so fails; after a
  start condition only the slave that was opened answers; a count that is returned was
  acknowledged; contexts are not leaked.
* pigpiod: a handle reaches its own device or fails, across restarts of the daemon and lost
  connections; only a call or connection that fails leaves an entry the client has no handle of.
* any I2C backend: a bus object is one numbered bus, a handle leads to the address it was opened for
  until it is closed, and a transfer that returns a count has reached that address.
* parameters: the bus that the environment names is opened, and the default when it names none.
* allocator: a live object keeps what its owner wrote; its data pointer stays in its block; a release
  clears its own block (it clears more).
* clients: i2cdetect prints a true map and leaves nothing open; tsl2561 prints what the sensor
  measured; adxl345 loses no double tap and ends after one.

`PROJECT.json` lists each hazard at its line, with the properties that cover it or why none does.

## Modules

| Module | Models | Correspondence |
|---|---|---|
| `McuprTypes` | result codes, GPIO modes, `MCUPR_UNSPECIFIED` | the header's enums as C ints |
| `LinuxProcess` | one process: descriptor table, threads | `file` is the kernel's table, `dev` the handles the client owns, `fd[t]` the local `int fd` of the running call, `pc[t]` the system call it makes next. `SysOpen`, `SysClose`, `Abandon` (close and return an error) and `HandOver` (`*dev = fd`) are what the backend's functions are made of |
| `LinuxdevI2c`, `LinuxdevSpi`, `LinuxdevGpio` | the three APIs of `impl_linuxdev.c` | one action per function, or per system call of a function that makes several; `i2cBus`, `spiBus` are the bus objects, `spidev`, `gpio` what the kernel keeps per device and pin |
| `Linuxdev` | the three on one descriptor table | `Step(t)` is one step of thread `t` in any API; `IInv` the inductive invariant |
| `Libmpsse` | `impl_libmpsse.c` with libmpsse, wires and slave | one action per USB call: `Begin` with Start, `SendAddress`, `ReadData`, `DummyRead`, `WriteData`, `StopBus`, each of which may fail; `goto wayout` is `GoStop`; `CloseUnopened` closes a context that MPSSE could not open; `ack` and `sends` are the context's `rack` and `tack`, `line` and `slave` the wires, also between transfers |
| `Pigpiod` | `impl_pigpiod.c` with the daemon | one action per function, one exchange with the daemon each; `table` is the daemon's; `DaemonRestart`, `ConnectionLost` and `OthersOpenOrClose` are its environment; an entry of `Nobody` is one its client cannot reach any more |
| `I2cApi` | the I2C section of the header, whatever the backend | abstract: each call is one step, a call that fails is none. `Linuxdev`, `Libmpsse` and `Pigpiod` each instantiate it with what is behind their handles |
| `McuprParams` | `mcu_peripheral.c` and the first lines of each `bus_create` | `InitParams` and `BusCreate` as the conversions long, `uint32_t` or `int`, `int`; the ints are `-Half .. Half - 1` |
| `ObjectAlloc` | `utils.c` | a heap of bytes, a word kept in its first byte; `AllocObject`, `SetParams` (the owner's writes), `ReleaseObject` with everything its memset reaches; where `calloc` puts a block is open, and so is what follows it (`Tails`): the next block, padding, or bytes of the allocator, which is `"corrupt"` once they are overwritten and may then give a block that is in use |
| `I2cDetect` | `examples/i2cdetect.c` on `LinuxdevI2c` | `at` is where `main` is; each step of the program is a step of the backend with what `main` does on its result |
| `Tsl2561`, `Adxl345` | the two sensor programs, each with its sensor | one action per transfer; `Integrate`, or `Measure` and `DoubleTap`, may come between any two |
| `MC...` | values for TLC | |
| `...Proofs` | theorems | |

A step of `LinuxProcess` is one system call with the code up to the next one, since this is where
threads can interleave with an effect: the code between works on locals and on the bus object,
which no function but create writes. The `close(fd)` that follows a write or an ioctl is in the
same step. `open(2)` may fail whenever it likes (the error returns include "no such node" and "no
descriptor left") and succeeds only with a free descriptor. Bytes, paths and log texts are not
modelled; a node is a tuple such as `<<"/dev/i2c", 1>>`, a transfer its count.

Operators called a *faulty variant* stand before the definition they vary: each is a bug that the
code does not have, and shows that a property would notice it.

### What the client owes

The models let clients do what the API allows. Three guards are obligations of the client that no
code checks: it closes only handles it owns (`I2cClose`, `SpiClose`), it releases a bus that no
handle or running call uses (`Unused`, and the guard of `BusRelease` in `Pigpiod`), and it makes
one call at a time on a libmpsse bus, of which it has one (the backend has one adapter and ignores
the bus number). The SPI functions check neither a NULL bus nor a negative
descriptor; a NULL bus is never passed, a negative device fails in the kernel. Handles of a
libmpsse bus die with it.

### What the sensors are taken to do

Their behaviour is not in the repository; it is modelled from how the programs use them. TSL2561: reading a low
byte latches the high byte of the same measurement, which the next read of the high byte returns;
a register pointer stays until it is written. ADXL345: the six data registers change with each
measurement, `INT_SOURCE` shows data ready in bit 7 and a double tap in bit 5 and a read clears it,
and it detects taps once all settings are written.

## Runs

`tlc -config <name>.cfg <module>`; times are for two workers.

| Run | Module | Checks | Result |
|---|---|---|---|
| `linuxdev` | `MCLinuxdev` | `TypeOK`, `NoDescriptorLeak`, `SingleOwner`, `I2cHandlesBound`, `SpiHandlesConfigured`, `GpioDirectionSet`, `OwnersUndisturbed`; `IInv`, on which the proofs rest; `ImplementsI2cApi` | holds, 693 k states, 115 s |
| `linuxdev_liveness` | `MCLinuxdev` | `CallsReturn` under `FairSpec`, and `CallsAdvance`; two threads and one descriptor, any sysfs write refused | holds, 218 k states, 140 s |
| `libmpsse` | `MCLibmpsse` | `TypeOK`, `BusLeftFree`, `AnswersAsOpened`, `CountIsEarned`, `ContextsOwned`, `ImplementsI2cApi`; every USB call may fail | holds, 22 k states, 35 s |
| `pigpiod` | `MCPigpiod` | `TypeOK`, `ReachesOwnDevice`, `NoHandleLeak`, `ImplementsI2cApi` with restarts, lost connections, failing calls and other clients | holds, 614 k states, 120 s |
| `objects` | `MCObjectAlloc` | `LiveKept`, `DataInside` on a heap of 18 bytes | holds, 30 k states |
| `params` | `McuprParams` | `NamedBusIsOpened` for every value of the variable | holds, 2 k states |
| `i2cdetect` | `MCI2cDetect` | `MapIsTrue`, `NothingLeftOpen`, `ScanAdvances`, `Finishes` for every set of slaves and of claimed addresses | holds, 33 k states |
| `adxl345` | `MCAdxl345` | `TypeOK`, `TapNotLost`, `TapIsSeen`; every transfer may fail | holds, 1.6 M states, 95 s |
| `tsl2561` | `MCTsl2561` | `ChannelsMeasured`; reads and the configuration may fail | holds, 2 k states |
| `libmpsse_write_count` | `MCLibmpsse` | `WriteCountActual` | violated |
| `pigpiod_write_count` | `MCPigpiod` | `WriteReturnsSize` | violated |
| `objects_release` | `MCObjectAlloc` | `ReleaseInBlock` | violated |

### What does not hold

Shown by a run:

* `mcupr_i2c_write` of the libmpsse backend returns the full size when the USB write of the data
  failed: its result is dropped (`impl_libmpsse.c:124`) and the acknowledge bit that is examined
  next is that of the address.
* `mcupr_i2c_write` of the pigpiod backend returns 0 on success (`impl_pigpiod.c:62`), where the
  header promises the number of bytes (`mcu_peripheral.h:185`). Code that compares the result with
  the size works with two backends and fails with the third.
* `mcupr_release_object` clears `obj->size` bytes from the object on, but `obj->size` counts the
  header in front of it too (`utils.c:43`): it writes one header past the end of its block
  (`utils.c:67`). That is padding, the header of the next object, or a word of the allocator. `LiveKept`
  and `DataInside` say what survives: until a word of the allocator is overwritten, everything that
  owners keep does, since the overrun reaches the next block's header and no further.

Seen in the code while modelling, most of it a condition of a property or theorem that holds, or an
exception that it names:

* `mcupr_gpio_open` returns `MCUPR_RES_OK` when the kernel refuses the write to `direction`
  (`impl_linuxdev.c:396`): the client believes in an output that is an input. `GpioDirectionSet`
  holds while the kernel takes that write.
* `mcupr_gpio_read` returns -12 when the value cannot be opened or read (`impl_linuxdev.c:436`,
  `:441`). The comment at `impl_linuxdev.c:113` says "Read the pin value (0 or 1, -1 on error)".
* `adxl345` takes a transfer of `INT_SOURCE` that fails for a double tap, since `adxl345_read`
  returns 0xFF then and bit 5 of it is set (`adxl345.c:139`, `:162`): the program ends without the
  tap it asks for ("Double tap to exit.", `adxl345.c:115`). `TapNotLost` and `TapIsSeen` are about
  taps, and hold with it.
* `adxl345` reads the two bytes of an axis in two transfers (`adxl345.c:212`) and the chip may
  measure in between: the value may be half of each of two samples. No property denies it.
* `adxl345` reads `POWER_CTL` back under the comment "Verify if the setting has been applied"
  (`adxl345.c:186`) and compares it with nothing: after a setting that was not taken the loop waits
  for a tap the chip does not detect. `TapIsSeen` is about taps that it does detect.
* `i2cdetect` closes `i2c_dev` also after an open that failed; before the first success it is
  uninitialised (`i2cdetect.c:35`, `:63`). `I2cDetect` starts it on any descriptor of its table or none;
  the descriptors a process is started with are not in the table, and garbage that names the
  standard output closes it.
* `tsl2561` ignores the result of writing the register pointer (`tsl2561.c:63`): when that fails,
  the register read before is read again. `ChannelsMeasured` holds while these writes succeed.
* The results of Start, Stop and the dummy read of libmpsse are dropped (`impl_libmpsse.c:74`, `:92`,
  `:96`, `:113`, `:133`). A Stop that fails leaves the line held and a slave receiving, a dummy read that
  fails leaves the slave sending (`"stuck"`): `BusLeftFree` names these two as the only ways. In
  the next transfer such a slave may acknowledge what was not meant for it, and the count that is
  returned may be its doing: `CountIsEarned` and `ImplementsI2cApi` leave out transfers that found
  one (`clear`).
* pigpiod: the result of `i2c_close()` is dropped (`impl_pigpiod.c:71`), and the backend does not notice
  that its connection to a daemon, which may be remote (`:108-111`), is gone. A failed close, an open whose
  answer is lost and a lost connection leave entries in the daemon that nobody can close;
  `NoHandleLeak` names these as the only ways.
* `mcupr_i2c_open` of pigpiod returns `MCUPR_RES_OK` with a negative handle; `PULLUP` and `PULLDOWN`
  become a plain input; mode and speed of an SPI device may come from two different opens, which is
  why `SpiHandlesConfigured` asks of each only that some client of the bus number asked for it.

### Bounds

* Two threads: the properties relate at most two calls (two owners of a descriptor, two openers of
  a device or pin); a third thread adds only more of the same pairs. Threads and descriptors are
  symmetric in the safety runs; the liveness run uses no symmetry.
* Two or three descriptors: three let both threads hold one while the client holds a handle; two
  and one make `open(2)` run out, which is where the error paths are.
* One I2C bus number is the unspecified one, so defaults are exercised. The adapters of `linuxdev`
  leave out bus 1, so that its opens fail, and two addresses compete for three descriptors.
* SPI: one bus, one setting and one chip select, in `linuxdev` the default of `MCUPR_SPI_BUSNUM`. The
  device starts with settings of its own, and either ioctl may be refused. Buses that conflict on a
  device multiply the states beyond what is practical next to the other APIs; `AlwaysConfigured` is
  proved for any buses, settings and devices.
* GPIO values 0 and 2: a value that is not 0 or 1 must still drive 1. The pin may start in any state
  that an earlier process left it in.
* libmpsse: any subset of the USB calls of a transfer fails, in any sequence of transfers. Addresses
  -1, 0, 57, 127, 128, i.e. both edges and their neighbours; stray handles that are odd, negative or
  just beyond a byte; sizes 0 (the probe of `i2cdetect`), 1 and 3.
* pigpiod: two handles for two buses and the other programs, so numbers are reused at once; one
  default bus and one numbered one; the other programs use a device that the client uses too
  (`OthersUses`); transfers of one byte.
* objects: words of two bytes; three shapes (a member before the pointer and sizes that are no
  multiple of a word; the pointer first; no data), whose blocks are 12, 6 and 4 bytes. In 18 bytes the
  first two adjoin, or up to four of the last; after a block comes the next one, padding, or a word of the
  allocator. `MaxCorrupt` bounds a corrupt allocator to two blocks, which is where they can overlap.
* params: `Half` is 8, an int of 4 bits and a long of 8, with every value of the long: all sign and width cases of
  32 and 64 bits occur.
* i2cdetect: two descriptors for four addresses, so one that is left open on two turns empties the
  table. An unopenable, an empty and a present address occur in every order.
* adxl345: two axes, so that one may change alone; the samples -2 and 256 share no byte and differ by
  more than the threshold. tsl2561: three words that share no byte, and none has a byte 0 or 255.

Deadlock is checked where the system never stops; `adxl345`, `tsl2561`, `i2cdetect` are programs that
end, and `params` ends when the bus is made.

### Fairness

`FairSpec` asks weak fairness of the steps of each thread that is inside a call: the kernel
schedules it and its system calls return. Nothing is asked of a thread between calls. `CallsReturn`
then says that no function waits for another thread, a free descriptor, or a pin to appear.

`FairSpec` of `Adxl345` asks it of the program and not of the chip, which need not be tapped; `Spec` of
`I2cDetect` of the program, which is all there is. `TapIsSeen` is about each tap once: a read of
`INT_SOURCE` that fails ends the loop too (its byte has the bit), so no number of failures delays it.

## Refinement

`I2cApi` is what a client can rely on without knowing the backend. Its variables are the bus objects
(`bus`), the devices the client has with where they lead (`opened`), and the count that the last call
returned (`done`), which `Transfer` leaves open from 0 to the size: that it is the actual number is what
`WriteCountActual` and `WriteReturnsSize` ask, and what the code does not do. Each backend maps them in its `INSTANCE`:

* `Linuxdev`: `opened` is not what the client asked for but what the kernel has behind each descriptor, its
  node and bound slave. So an open that hands out a descriptor bound to another call's address,
  or a descriptor that changes under its owner, is no step of the API. Transfers are single system
  calls on the handle's descriptor, and `done` is left out.
* `Libmpsse`: a handle is the address byte it puts on the wire; `done` takes the address from the
  byte that was sent and acknowledged, so the chain of USB calls is one transfer to that address. A
  transfer that found a slave left on the bus is not seen.
* `Pigpiod`: `opened` has the handles that the daemon gave; `done` takes bus and address from the
  daemon's table entry that was reached, so a number that a restarted daemon gave to somebody else,
  or that is left from a lost connection, must not return a count. A negative handle is no device.

## Proofs

`tlapm <module>Proofs.tla`. They hold for any number of threads, descriptors, buses, pins,
addresses and settings.

**`LinuxdevProofs`** - `Inductive` (`IInv`), and from it `TypeCorrect`, `NeverLeaks`, `OwnedOnce`
and `AlwaysBound`. "No leak" and "one owner" alone are not inductive: that `Abandon` closes its own
descriptor needs that a call at that label holds one (`Frame`), that a fresh descriptor is nobody's
needs that owned ones are open (`SingleOwner`), and that a handle stays bound needs that its bus is
not released and created anew under it (`Handles`, `I2cFrame`). `IInv` conjoins these. The proof has
a lemma per building block of `LinuxProcess` (`OpenKeeps`, `AbandonKeeps`, `HandOverKeeps`,
`CloseKeeps`, ...), each showing what it does to the descriptor half of the invariant, and one per
API (`I2cStepKeeps`, `SpiStepKeeps`, `GpioStepKeeps`) that applies them action by action. Lemmas
that several steps share say that a frame or a handle is kept when its own parts are
(`FrameKept`, `HandleKept`).

The other sections of the module rest on `IInv`.

* What the handles are worth. `AlwaysConfigured` (`SpiHandlesConfigured`): a device has settings of
  its own or ones that clients of its bus number asked for (`SettingsAsked`), an open that writes the
  speed has written the mode (`ModeFirst`), and a handle exists only after both (`HandleWritten`). A
  step of another API, or one that makes no SPI handle, is `SpiQuiet`: `IInv` says which descriptors
  it cannot touch. `DirectionsSet` (`GpioDirectionSet`), assuming `"direction" \notin RefusedWrites`: a
  call past the stat is on an exported pin (`PastStat`), pins stay exported and their direction
  becomes only one that clients ask for (`PinsKept`).
* The API. `Implements` (`ImplementsI2cApi`): by `IInv` what the kernel has behind a handle is what was
  asked for (`OpenedAsAsked`), so a step that hands out or takes back no I2C handle is invisible
  (`I2cQuiet`, `QuietRefines`), and only open, close, create and release remain.
* What one step does to the others. A process sees four kinds of steps, whichever API makes them
  (`KindsOfSteps`): the client between calls, an open, giving a descriptor up, and going on without
  touching one. `DisturbsNobody` (`OwnersUndisturbed`): each touches at most one descriptor, which by
  `SingleOwner` and `HoldsOwn` is its own (`OneDescriptor`). `NearsReturn` (`CallsAdvance`): each leaves
  the call fewer system calls to make.

**`LibmpsseProofs`** - `LeavesBusFree`, `AnswersRight`, `EarnsCount`, `OwnsContext`, `TypeCorrect`,
`Implements`, for any choice of USB calls that fail. The strengthening ties `pc` to the wires (`WireInv`):
the line is started only inside a transfer, a slave sends only in the phases of a read, one
receives only there or behind a Stop that failed, and the acknowledge modes are those of the phase. A
start condition takes every slave off the bus but one that was left sending, which makes `AnswerInv`
inductive without assuming that Start succeeds: if it does not, no slave takes the byte that follows as
its address. For the count (`CountInv`), a result that will be returned stands only beside an
acknowledge, and on a clear bus beside the address that a slave took. `ContextInv` follows the context
that is not open from its create to its close.

**`PigpiodProofs`** - `ReachesRight`, `LeaksNoHandle`, `TypeCorrect`, `Implements`. The strengthening: while a bus is
connected, each of its devices has its own entry in the daemon (`DevsKnown`), and the daemon keeps
entries only for connected buses (`OwnersUp`). A restart makes both hold trivially and for good,
since the backend never reconnects; a lost connection does too, for what it leaves in the daemon has
no owner that could use it.

**`ObjectAllocProofs`** - `LiveObjectsKept` (`LiveKept`) and `DataStaysInside` (`DataInside`), for any shapes and
any `Tails`: nothing is assumed to keep blocks apart. The invariant (`Inv`): while the allocator is intact, blocks do
not overlap, and the size that a release reads from the header is the one that was allocated, or 0
when the release of the block before has cleared it (`SizeStored`). So a release clears at most one
header past its block, and what begins there is a header. The second result adds that the
pointer's word is written by nobody but the allocation (`Pointed`), and that rounding (`AlignBounds`) keeps
the areas of a block apart.

**`Adxl345Proofs`** - `TypeCorrect` (`TypeOK`): two bytes always make a 16-bit signed number. `TapKept`
(`TapNotLost`): whatever fails, the one read that clears a tap ends the loop.

**`Tsl2561Proofs`** - `PrintsMeasured` (`ChannelsMeasured`), assuming `"pointer" \notin Faults`. The
invariant follows the read order: a low byte that was read belongs with the latched high byte until
that is read, and then the two bytes with each other (`Whole`), unless a read failed.

**`I2cDetectProofs`** - the program on the backend, for any number of descriptors and addresses. That a
turn of the loop closes what it opened is not inductive, for what `close(i2c_dev)` closes depends on
what the turn has done before: nothing, an open that was refused, or a handle. `TurnInv` says it at
each place of the program: between the two system calls of an open the descriptor of the frame is the
only open one (`Opening`), at the write it is the handle, bound to the address of this turn
(`Probing`), at the close it is that or nothing (`Closing`), and elsewhere nothing is open
(`BetweenTurns`). `OpenWays` lists the four ways through a step of the open. `ClosesAll`
(`NothingLeftOpen`) follows; `ScanIsTrue` (`MapIsTrue`), assuming `FDs # {}`, adds that an address is
printed once, in its own turn (`ShowKeepsMap`, `SameMap`). The assumption is needed: a process that
may have no descriptor prints a blank for every address. `NearsEnd` (`ScanAdvances`): each step leaves
fewer steps to make.

**`McuprParamsProofs`** - `OpensNamed` (`NamedBusIsOpened`), for every width of an int and longs of twice
the width: a number that an int can hold goes through both conversions (`NumberKept`), and "unspecified"
is found in each backend by the comparison it makes (`UnspecifiedKept`), since the remainder by which
C converts is determined for a number in range (`ModSmall`, `ModNegative`).

Assumptions are those named in the modules (`NoneAssumption`, `I2cAssumption`, `SpiAssumption`,
`GpioAssumption`, `NoneIsNoRecord`, `MpsseAssumption`, `PigpiodAssumption`, `ObjectAssumption`,
`Adxl345Assumption`, `Tsl2561Assumption`, `I2cDetectAssumption`, `McuprParamsAssumption`): constants are
sets of the right kind, `None` and `Unset` are none of the values they stand beside, and i2cdetect is
a program of one thread with one bus whose addresses are numbered from 1.

**Only model-checked:** the liveness properties `CallsReturn`, `Finishes` and `TapIsSeen`, since fairness
is beyond the prover. What each rests on is proved: a measure that every step decreases
(`CallsAdvance`, `ScanAdvances`), or that what is waited for is not lost (`TapNotLost`). And the three
claims that fail.

## Not modelled

* The example `gpio.c`: it makes one open, one access and one close, which the clients of `Linuxdev`
  make in every order.
* The log: three hook calls per message without a lock, so messages of two threads may mix. Nothing
  in the code or its documents promises that they do not, and no other part looks at the log.
* The error texts: a constant table without state (it has no entry for `MCUPR_RES_INVALID_PARAM` and
  `MCUPR_RES_IO_ERROR`).
* The GPIO chip object: allocated, never read, never freed. `sysfs_gpio_unexport`: never called.
* Functions the header declares and no backend defines (`mcupr_i2c_set_freq`, `mcupr_spi_set_mode`,
  `mcupr_gpio_attach_interrupt` and others), and the build.
* The contents of transfers, buffers and their lifetimes (`DummyRead`'s buffer is leaked at
  `impl_libmpsse.c:92`), and concurrent calls on one libmpsse context.

## Plan

Done: the process and the three linuxdev APIs; libmpsse; pigpiod; the API they share, refined by all
three; allocator; parameters; three clients. Every invariant and every action property that a
passing run checks is a theorem. What could follow: i2cdetect as a client of
the abstract `I2cApi` instead of one backend, and the GPIO and SPI APIs with abstract specifications of
their own.
