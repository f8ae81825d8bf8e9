# TLA+ models of msp430-usb-jtag

The firmware turns an MSP430F5510 on the ORDB3A board into a composite USB device:
a USB Blaster JTAG adapter and a NAND flash programmer (two HID-style interfaces
that speak the virtual FTDI protocol) and a UART bridge (CDC). It is one main loop
and a handful of interrupt routines on one CPU, without an operating system. What is hard about
it is the order of things: the loop works on variables that the USB, UART, port and timer
interrupts change, the host and the USB hardware go on by themselves, the bus may be reset, suspended or
unplugged between any two steps, and none of this is tested anywhere in the
repository.

The modules here model the data paths from end to end, attaching and the main
loop's sleep protocol, control transfers, the two protocols the host speaks, the
mass storage class of the USB library, and the start of the board. TLC checks
them on small instances. TLAPS proves theorems for every size about the data
paths, among them that the path from the UART and the path to a HID interface
implement one abstract channel, about the USB Blaster and NAND protocols,
control transfers, the mass storage class, attaching, sleep, the core voltage and
the XSVF reader.

## 1. Inventory

| Part | State | Operations | Talks to |
|---|---|---|---|
| `uart.c` receive half | `rxbuf`, `rxsiz`, `rxo`, `sending`, UCRXIE | `USCI_A1_ISR` case 2, `handle_uart`, `uart_inject`, `USBCDC_handleSendCompleted` | CDC driver (shared buffer, call, callback) |
| `uart.c` transmit half | `txbuf`, `txsiz`, `txo`, UCTXIE, UCTXIFG | `USCI_A1_ISR` case 4, `handle_uart` | `cdcReceiveDataInBuffer` |
| `UsbCdc.c` | `CdcReadCtrl`, `CdcWriteCtrl`, endpoint registers | send, receive, both interrupt routines, count, reset | `uart.c`, `UsbIsr.c`, hardware |
| `UsbHid.c` | `HidReadCtrl`, `HidWriteCtrl`, endpoint registers | the same for two interfaces, interface status | `usbConstructs.c`, `UsbIsr.c`, hardware |
| `usbConstructs.c` | the caller's buffer, position, count | `hidReceiveDataInBuffer`, `cdcReceiveDataInBuffer`, `hidSendDataWaitTilDone` | drivers, main loop |
| `jtag.c` | `usb_jtag_state`, port pins | `usbblaster_process_buffer`, `usbblaster_byte`, the SPI shift | main loop (its buffer, in place) |
| NAND access | `nand_state`, chip select, R/Bn | the flash part of `main`, `process_nandreq`, `process_nanddata`, `produce_nanddata` | HID interface 2, flash chip, FPGA (shared port) |
| Main loop, `safesleep.h` | `SR_sleep`, `SR_sleep_mode`, sleep bits, `bCommand`, `fpga_powered`, event flags | one round of the loop; `set_sleep_mode`, `enter_sleep`, `WAKEUP_IRQ` | every interrupt |
| USB attach (`usb.c`, `UsbIsr.c`, `usbEventHandling.c`) | `bEnumerationStatus`, `bFunctionSuspended`, VBUS flags, PLL, pull-up | init, enable, connect, disable, suspend, resume, the VBUS handlers with their delays, the bus error interrupt | main loop, every driver |
| Endpoint 0 (`usb.c`, `UsbIsr.c`, `descriptors.c`) | setup packet, bytes left in either direction, NAK, stall and flag bits, device settings | the setup interrupt, the request list, every standard, CDC and vendor request | host, drivers (reset) |
| Mass storage (`UsbMscScsi.c`, `UsbMscStateMachine.c`, `UsbMscReq.c`) | transport state, both double buffers, the block buffers, sense data, media state | both interrupts, `USBMSC_poll`, `USBMSC_bufferProcessed`, `registerBufInfo`, `updateMediaInfo`, the reset request | host, application (block buffers) |
| `boardinit.c`, `swi2cmst.c`, `tps65217.c` | two wires, PWR_EN, `fpga_powered` | bus recovery, register access with passwords, power-up, the FPGA's power switch | power controller |
| `HAL_PMM.c` | core level, supervisors and their delay flags | `SetVCore`, `SetVCoreUp` | the rising supply |
| NAND probe, XSVF reader (`nand_ordb3.c`) | page, block and byte position, the chip's cache | `nand_probe`, `nand_loadpage`, `xsvf_setup`, `xsvf_getbyte`, `xsvf_shutdown` | flash chip, XSVF player, FPGA (before USB starts) |
| Boot strapper (`main.c`) | as `boardinit.c` | a copy of the power-up sequence | power controller |

What each part must get right:

- **UART to USB.** Bytes in order and once; the driver's source bytes are not
  overwritten while it copies them from the interrupt; a started send ends; the
  buffer's room comes back.
- **USB to UART.** The same in the other direction, with packets read in part
  when `txbuf` is nearly full, and a transmit interrupt that fires exactly while
  there is something to send.
- **OUT endpoints.** The count is exact and the two buffers are read in the order
  the host fills them, after any mix of whole and partial reads.
- **IN endpoints.** The two buffers are filled in the order the host reads them;
  data sends, empty reports and resets do not get in each other's way; what a
  return value of 0 means; the wait ends.
- **USB Blaster.** The cutting of the stream into buffers does not show; results
  written in place never overtake input.
- **NAND.** The chip sees each request's command, address, data and reads, in
  order, however packets cut them, and only while selected; the port goes back
  to the FPGA.
- **Sleep.** No event is slept through, no sleep in the wrong mode.
- **Attaching.** USB memory is not touched without a clock; module and pull-up
  follow the voltage however the contact bounces.
- **Control transfers.** Reads come whole, finished writes are in force,
  transfers end, whatever the host gave up before.
- **Mass storage.** PASSED means done, a failure is explained, commands end.
- **Start.** The I2C bus is freed from a cut-off access; power goes on only with
  the right voltages; the core voltage never runs ahead of the supply; the FPGA gets
  the bytes of the file.

The hazards these properties are for are listed, with their lines, in
`PROJECT.json`.

## 2. Plan

In order of importance; 1 to 11 are done.

1. `UartToUsb` with its abstract channel `ByteChannel` (the richest mix of
   interrupts and shared data), proofs in `UartToUsbProofs`.
2. `UsbOutEp`, the double-buffered OUT endpoint both drivers share in two
   variants; on top of it `HidReceive` (implements `ByteChannel`) and
   `UartFromUsb`.
3. `MainLoop`, proofs in `MainProofs`.
4. `HidSend`. 5. `NandRequests`. 6. `UsbBlaster`.
7. Runs for the places where the code contradicts its own comments.
8. `UsbAttach` under `MainLoop`: connector, PLL, bus error; proofs in
   `MainProofs`. 16-bit lengths in `NandRequests`, pins and clocks in
   `UsbBlaster`.
9. `UsbControl`: endpoint 0 with abandoned transfers. 10. `MassStorage`.
   `BoardStart`, composed of `BoardPower` (on `I2cMaster`), `CoreVoltage` and
   `XsvfReader`.
11. Proofs: `UartToUsb` implements `ByteChannel`; the invariants of `UsbOutEp`'s
   operators for both drivers, of `HidReceive`, `UartFromUsb`, `HidSend` and
   `CoreVoltage`; the order of the bytes on all four data paths, `HidReceive` as
   an implementation of `ByteChannel`; the USB Blaster (`ProtocolProofs`), the NAND
   requests and the mass storage class (`StorageProofs`), the XSVF reader
   (`MainProofs`), control transfers (`ProtocolProofs`), the I2C master and the
   start of the board (`MainProofs`).

Not done: `StatusTrue` of `MassStorage` as a theorem;
`UartBridge`, both UART halves and their interrupt enable bits in one model; empty
OUT packets; a disconnect within a shift of `UsbBlaster`.

## 3. Modules and how they correspond to the code

Common to all data paths: handlers and driver calls that run with interrupts off
are one action; where the code can be interrupted, or the hardware works on, a
new action begins. `usb` is `bEnumerationStatus` together with VBUS, `susp` is
`bFunctionSuspended`; `BusReset`, `VbusOn`, `VbusOff`, `Enumerate`, `Suspend` and
`Resume` are `UsbIsr.c`'s cases with what `usb.c` does for them to the driver at
hand. A pending endpoint interrupt (`ifg`) survives a reset, as `USB_reset` leaves
USBIEPIFG and USBOEPIFG alone. `hw` is the buffer the USB module's own toggle
points at; it is hardware, and so are `HostReads`, `HostSends`, `CharArrives` and
`TxReady`. Bytes are named by their order of creation, so that order, loss and
duplication are visible; `Junk` is what the caller's memory holds otherwise.

| Module | Models | State and actions |
|---|---|---|
| `ByteChannel` | abstract specification | A FIFO that loses its oldest bytes only in the step in which the link goes down. |
| `UartToUsb` | `uart.c` receive half, `USBCDC_sendData`, `CdcToHostFromBuffer` | `RxIsr`, `Inject`, `HandleUart` (= `HandleSubmit` or `HandleIdle`), `IepIsr` (= `LoadBuffers`, `Complete` or nothing). `left`, `src`, `xy`, `zlp`, `last` are `CdcWriteCtrl`. |
| `UsbOutEp` | `USBHID_receiveData`, `USBCDC_receiveData`, the `...ToBufferFromHost` routines and `...bytesInUSBBuffer` | No variables: operators from an endpoint record to the next. `ct1`, `ct2`, `pos`, `inEp`, `open`, `dst`, `want` are `pCT1`, `pCT2`, `pCurrentEpPos`, `nBytesInEp`, `pUserBuffer # NULL`, `pUserBuffer`, the rest of the request. `Class` selects the three places where the two copies of this code differ. |
| `HidReceive` | `hidReceiveDataInBuffer`, the endpoint interrupt, the receive loop of `main` | `pc` distinguishes the look at the bus, the event flag, the count and the receive; `Count` and `Receive` are separate steps. `stored` is a history: what the driver has stored for the application. |
| `UartFromUsb` | `handle_uart` first half, `USCI_A1_ISR` case 4, `cdcReceiveDataInBuffer` | As above, with interrupts waiting while `handle_uart` runs but packets arriving; `tx` is UCA1TXBUF with UCTXIFG, including the flag that is consumed for nothing. |
| `HidSend` | `USBHID_sendData`, `HidToHostFromBuffer`, `hidSendDataWaitTilDone`, the tick's empty report | `left = -1` is the empty report; `abandoned` remembers that a wait gave up with data left. |
| `UsbAttach` | `usb.c` from `USB_init` to `USB_connectionState`, VBUS handlers, bus error interrupt | `isr` is where a VBUS routine is: it waits a millisecond for the voltage and up to six more for the PLL with interrupts off, and contact and flags change meanwhile. `Enable` and `Settle` are `USB_enable`. `failed`: a PLL gave up and `USB_resume` did not look; `missed`: PWRVBUSonHandler cleared a VBOFFIFG that was news. |
| `MainLoop` | `main`, `safesleep.h`, everything that wakes the CPU; EXTENDS `UsbAttach` | One step per access to a shared variable: reading, clearing and injecting `bCommand`, the look at the connection state, the comparison and the assignment of `set_sleep_mode`, the two instructions of `enter_sleep`. Main steps need `lpm = "none"` and no routine running. |
| `NandRequests` | the flash part of `main`, `nand_state` | The look (`LookForRequest`) and the receive (`ReadHeader`, `Discard`) are separate; the endpoint is a FIFO, as `HidReceive` shows. `due` is a history: what the chip is to see for the requests begun so far. Lengths are words of `WordSize` values: sums wrap, and the upper half is negative where the code uses an int. |
| `UsbBlaster` | `usbblaster_process_buffer`, `usbblaster_byte`, the SPI shift | A step per command byte or shift; the pins pass from P4OUT to the SPI unit and back, and every rise of TCK is a clock of the chain. A shift is `StartShift`, `ShiftByte` for each byte and `FinishShift`. `ref` is a device that follows the protocol byte by byte without buffers: each bit of a shift is a clock, also of a shift that begins with TCK high. |
| `UsbControl` | the setup and endpoint 0 vectors of `UsbIsr.c`, `tUsbRequestList`, the requests, `USB_reset` | The routine is cut where it looks at or clears a flag (`Decode`, `CallFunction`, `Recheck`, `ClearSetup`, `Vector`); the host moves between. `d` is the device's state; requests of one kind and one effect are one request. `late`, `overrun` and `armed` are the three cases the code gets wrong (section 4). |
| `MassStorage` | the MSC class | One record `dev` for the library's state (`dev.r`, `dev.w`: a read and a write under way), `InIsr`, `OutIsr`, `Poll` with its rest in `Status` and `Take` (`at`), `Application`, and a host that follows the bulk-only transport. |
| `I2cMaster` | `swi2cmst.c`, register access of `tps65217.c`, the chip | A function of the master, down to one level on one wire, maps the bus before the call to the bus after it: the levels the master gives, the chip, the bits read. Each edge goes to the chip. |
| `BoardPower` | `boardInit`, its copy in the boot strapper, the FPGA's switch | A step is one access of the chip, which may refuse one of its acknowledges. At the start the chip is as a reset in the middle of any access of an earlier run left it (`FoundAt`). |
| `CoreVoltage` | `SetVCore`, `SetVCoreUp` | A step is one access of a register; clearing a flag that was waited for is in the step of the wait, as a side that settles in between might as well have settled before. `settled`: sides whose last written level is in force; `flags` as the code sees them, stale ones included: a side may settle between any two steps, even one that has just been switched off. `between`: in this call the high side of the last level settled between the clearing of the flags and the new level. |
| `XsvfReader` | `nand_probe`, the player's callbacks, `program_fpga_from_nand` | A step is a call of the player or an exchange with the chip; cached loads make the page asked for before readable. |
| `BoardStart` | the start of `main` | Composes the three above in the order in which `main` calls them. |

`MC*` modules give the small instances. Operators named `X_Something` before `X`
are variants of `X` with a plausible bug in them: with the variant in place of `X`, TLC finds
the property named with it in `PROJECT.json` violated, which shows that the property depends on that
line of the code. No specification uses them.

How the modules fit together: `HidReceive` establishes what `NandRequests` and
`UsbBlaster` assume of their input (a FIFO that is emptied when the bus goes);
`HidSend` what they assume of their replies; `MainLoop` that the loop is awake
when there is something to do, which is the fairness of the others' main-loop
steps. `UsbAttach` establishes that a bus the drivers take for up has a clock, and
`UsbControl` gives the circumstances of the `Enumerate` and `BusReset` of the
data paths.

## 4. Runs

Passing runs (two TLC workers; times are of one desktop machine):

| Run | Bounds | States | Shows |
|---|---|---|---|
| `uart_to_usb` | `rxbuf` of 3, packets of 2, 4 bytes | 241 416, 13 s | `ImplementsChannel` (refinement of `ByteChannel`), `SourceOwned`, `SendNotStuck`, `BuffersInStep`, `EverythingDrains`, `RoomReturns` |
| `uart_from_usb` | packets and `txbuf` of 3, 6 bytes sent, 7 on the wire | 290 415, 31 s | `TransmitterArmed`, `InOrder`, `NothingLost`, `EverythingIsSent` |
| `hid_receive` | packets and buffer of 3, 5 bytes, one cut receive | 405 311, 21 s | `ImplementsChannel`, `CountExact`, `NoOpenReceive`, `BuffersInStep`, `JunkOnlyWhenCut`, `EverythingIsRead` |
| `hid_send` | buffer of 5, payload of 2, 5 bytes | 435 795, 28 s | `InOrder`, `ZeroMeansSent`, `BusyOnlyAfterAbandon`, `WaitEnds` |
| `main_loop` | none: every variable is finite | 247 113, 16 s | `MemoryIsClocked`, `NoSleepOnEvent`, `SleepsInTheRightMode`, `FpgaFollowsBus`, `AttachFollowsVbus` |
| `nand_requests` | header and buffer of 2, packets of 3, words of 6, six request shapes, 2 requests | 488 274, 22 s | `ChipSeesRequests`, `UsesOpenChip`, `RequestsFinish` |
| `usb_blaster` | buffers and shifts of up to 3, every stream of 4 bytes | 1 290 526, 14 s | `SameClocks`, `SameResults` |
| `usb_control` | packets of 3, descriptors of 4, 6 and 7, three lengths asked for, 2 requests | 256 934, 17 s | `HostKnowsSettings`, `ReadsAreWhole`, `TransfersEnd` |
| `mass_storage` | blocks of 2 packets, buffers of 1 block, commands of up to 3, three commands, 1 fault | 208 336, 37 s | `StatusTrue`, `FailureExplained`, `CommandsEnd` |
| `board_start` | the last reset at any access of any setting or of a switch of the FPGA's power, two bytes the chip may be sending, 1 fault, 2 switches; two list entries of three pages of two bytes, 13 bytes; two core levels with a supply for one at the start | 65 918, 21 s | `BusReleased`, `PoweredRight`, `StreamIsFile`, `RaisedSafely` |

`TypeOK` definitions are not listed in runs: those of `UartToUsb` and `MainLoop`
are proved, and the others only document the variables.

Why the bounds are enough. With packets of two or three bytes and a buffer one
packet long or a little longer, every relation between a count, a packet and a
room occurs: a send of one packet, of two, of one full and one short, a receive
that ends inside the first buffer, inside the second, at the end of either, a
buffer that is exactly full. The byte bound lets both hardware buffers and the
software buffer fill and at least one of them start over; the proofs of section 6
remove the bounds from every safety property of the data paths, the two
protocols, control transfers, the main loop and the start of the board, and from
`FailureExplained`. In
`nand_requests` a program needs two receives and a read two replies, the
second request may be in the buffers before the first is done, and a word of six
values has lengths that are negative as an int and sums that wrap to zero. In
`usb_blaster` a shift may lie in one buffer or across three, and commands before
it leave TCK high or low. In `usb_control` two requests are what it takes for one
to disturb the other, and the descriptors end within, at and behind the end of a
packet. In `mass_storage` a command of three blocks takes three block buffers, so
both are in use and one is used again; the first command is one of every case, the second
meets what the first left, and the third asks for it. In `board_start` the file runs over the ends of
page, block and list, and of the two bytes a chip may be sending at the start one holds SDA
low all the time, the other changes it; the second core level is the first that can meet
the high side of the level before on its way. How far the sides had settled when `SetVCore`
returned is forgotten when the flash is probed (`Quiet`), as nothing looks at it any more. The bounds on suspends (`MaxJunk`, and
the one in `NandRequests`) keep the histories finite and leave one occurrence of
the case.

Deadlock is checked in all passing runs but four: in `usb_blaster`, `usb_control` and
`mass_storage` the host simply stops at its bound and nothing else has anything
to do, and the program of `board_start` ends. Symmetry is not used: bytes are ordered.

Two runs show where the code does not do what a comment beside it says. Each
checks the comment's statement alone and TLC finds the behaviour:

| Run | Statement | What the code does |
|---|---|---|
| `cdc_open_receive` | "no receive operation remains open after this call returns" (usbConstructs.c:283) | UsbCdc.c:508 moves `pCT1` and not `pCT2`; after a partial read of the second buffer its bytes are counted twice and the next receive stays open, writing into `txbuf` later from the interrupt. The HID copy of the code has the exchange, and `hid_receive` and `HidReceiveProofs` show that it is right there. |
| `buffer_starts_over` | "last data transmitted, reset buffer" (uart.c:153) | After a reset that cuts off a send of the whole of `rxbuf`, `sending` stays set: the buffer never starts over and the UART is deaf until power is cut. |

Other places where the code does not hold what one would want are premises of the
properties: history variables that the same runs reach with either value, so that
a property says that nothing else leads there.

- `UartFromUsb`: `overasked`, a receive has stayed open (`InOrder`, `NothingLost`).
- `UartToUsb`: `FullBufferCut` (`RoomReturns`).
- `HidSend`: `abandoned`, a wait returned on a suspend with the send still in
  progress (usbConstructs.c:92 promises completion): the driver goes on from a
  buffer that `main` then reuses.
- `HidReceive`: bytes of a receive that the driver refused are counted
  (usbConstructs.c:173); `JunkOnlyWhenCut` says when.
- `NandRequests`: `clean`, no request invalid or cut off.
- `UsbAttach`: `failed` and `missed`. After a bus error USB is disabled and not
  initialised again, whatever ordb3a_main.c:441 announces.
- `UsbControl`: `late`, a setup packet was handled with an endpoint 0 interrupt
  of an earlier transfer pending; `overrun`, one came within the handling of
  another (the NAK of UsbIsr.c:264 does not come, and `USBIFG &= ~SETUPIFG` can
  lose it); `armed`, a write was given up with a packet still to come.
- `MassStorage`: `odd`, the set of things that went differently: a reset or a
  change of medium within a command, a poll that meets the interrupt (`mixed`, `race`),
  a packet already accepted, in flight or skipped, a command of no blocks.
  `inFlight`: a stall in the middle of a read leaves packets in the endpoint, and
  CLEAR_FEATURE (usb.c:921) clears the toggle and the driver's buffer but not their
  counts. With blocks of one packet the next read can then pass with an old packet in
  front, and a few commands later REQUEST SENSE can get an old answer; three
  commands of blocks of two packets do not show it, the attempt to prove
  `FailureExplained` without this premise did.
  `early`: USBMSC_poll takes a read for done when the buffer being sent and the block
  count are at 0 (UsbMscStateMachine.c:90, "data is no more processing"; line 134,
  "watiting till transport is finished!"). With two buffers the other one may be full
  and not yet begun, when the application filled it while the last packets of the
  first were still going out: the status then overtakes its packets, the host takes it for the
  end of the data, gets data in place of the status and has to reset. The first part of
  `StatusTrue` says that nothing else brings a wrong packet in the place of a status.
  `FailsInSilence`: START STOP UNIT, MODE SELECT and the like with a data stage fail,
  and Scsi_Test_Unit_Ready (UsbMscScsi.c:690) then clears the sense data that
  Check_CBW has just set, so REQUEST SENSE has no reason to give; a command block of
  length 0 passes with nothing done (UsbMscScsi.c:748).
- `CoreVoltage`: `between`. The wait of HAL_PMM.c:201 ("Wait until high side, low side
  settled") joins its conditions by `&&` and ends with one side. If the high side of
  the last level settles between `PMMIFG = 0` (line 129) and the next write of SVSMHCTL
  (line 132), its delay flag ends the wait of line 135 before the new monitor level
  is in force; the monitor is silent yet, "Vcc is high enough for a Vcore increase"
  (line 158) does not hold, and the core voltage is raised whatever the supply is. `RaisedSafely`
  says that nothing else leads there, and the first call never.
- `XsvfReader`: `late`, a wait for the chip timed out and the code went on.
- `BoardPower`: `refused`, an access of the last switch was refused and not noticed
  (swi2cmst.h:155 ignores missing acknowledges); `result` of `boardInit`, which
  nothing looks at.

## 5. Fairness

- Pending interrupts are taken: weak fairness of the interrupt actions, as the CPU
  leaves every critical section. In `UartFromUsb`, where the main loop turns
  interrupts off again and again, it is strong fairness: the pending flag stays
  and the CPU takes it in one of the gaps.
- The main loop goes round while the device is active: weak fairness of its
  steps. The code has it from `set_sleep_mode(0)` in ST_ENUM_ACTIVE, which
  `MainLoop` models; in `MainLoop` itself the fairness is of the
  loop's steps, which are enabled only while the CPU is awake, and of the VBUS
  routines, which run to their end.
- The host reads what is offered and finishes sending what it began; it is
  a USB host that polls its endpoints. Nothing obliges it to begin anything,
  the bus to stay up, or the FPGA, the UART or the timer to do anything.
- `HidSend`'s poll has strong fairness because a pending interrupt is taken before
  it.
- `UsbControl`: the interrupt is taken and finished, and the host goes on with
  the transfer it began (weak). `MassStorage`: interrupts, the main program and
  the host's side of a command it began (weak); the application serves a block
  buffer in the end (strong, as a pending interrupt disables its step).
- `board_start` has no fairness: its properties are safety, and a program
  that waits for hardware may wait.
- Liveness of the data paths is stated for a bus that stays up in the end (`<>[]BusUp`), with resets and
  suspends before that.

## 6. Proofs

Each theorem is for every value of the constants that the named assumption of
the module allows, and for runs of every length. The argument is the same
everywhere: an inductive invariant that holds at the start, that each action
keeps, and that implies the property; it is a theorem of its own
(`...Invariance`), and each property follows from it in a few lines.

**UART to USB** (`UartToUsbProofs`; `RxSize`, `EpSize` greater than zero:
`SizeAssumption`, `BoundAssumption`): `TypeCorrect`, `SourceIsOwned`,
`SendIsNeverStuck`, `BuffersStayInStep`, by

    IInv == TypeOK /\ Levels /\ SourceOwned /\ SendNotStuck /\ BuffersInStep

`Levels` (`rxo <= rxsiz`) is what `handle_uart` relies on without saying so: without it
the source of a submitted send may lie beyond `rxsiz` and the type of
`left` fails. `SourceOwned` is needed for the type of the packets (`src + left`
within `rxbuf`), `BuffersInStep` for `SendNotStuck` (a buffer that is filled is
one the host will read). `LoadCounts` carries the arithmetic of loading two
buffers.

`PathIsChannel` proves `Spec => ImplementsChannel` on top of it: initial states
map to initial states, and each step is a step of `ByteChannel` or a stutter. The queue of the
channel is `Front \o Rear`, what the driver has been given and what it has not.
`StorePuts` shows that a character joins the rear; `HandleIdles`, `LoadMoves` and
`InterruptIdles` that submitting and loading only move the cut (`ChunkJoin`: two neighbouring
pieces of `rxbuf` are one piece); `ReadDelivers` that the host takes a piece of
the front; `BusLosesOrKeeps` that leaving the configuration loses the front and
nothing else, and that enumerating brings nothing back, for which `CleanStart`
(a reset leaves no send and no full buffer) is a second invariant.

**OUT endpoints** (`UsbOutEpProofs`, lemmas only, for both drivers and every
size): what each operator preserves of `Sound`, what it returns, and what it does
to the bytes. `Held(e)` is what the two buffers hold, in the order of the packets.
A receive `Takes` a piece of its front to the caller's memory and leaves the rest,
be it that it begins in a buffer read in part, ends in the first buffer, goes on
into the second, or stays open because there was not enough; a packet that is
accepted joins its rear. Both receiving paths rest on these lemmas:

- **HID receive** (`HidReceiveProofs`; `Class = "HID"`, `HidAssumption`):
  `NothingStaysOpen`, `CountIsExact`, `ReceiveBuffersInStep`. The key is a balance: in a read, bytes
  held less bytes wanted does not change, so a receive that asks for no more than
  the count ends with nothing wanted. `CountStands` carries the count from one
  step to the receive in the next, over packets that arrive between.
  `HidPathIsChannel` proves the refinement of `ByteChannel`: the queue is
  `Held(ep)`, what has been delivered is the history `stored`. `BytesInv` adds
  that an endpoint holds nothing before it is configured and that `main`'s buffer is
  empty behind `cur`. `JunkOnlyAfterCut`: what is counted as received is what was
  stored, except by a receive that met a bus that had gone.
- **USB to UART** (`UartFromUsbProofs`): `TransmitterIsArmed`, from `Armed` and `RoomLeft` (a
  receive never gets more than the room left in `txbuf`), although the counts of
  this driver are not exact. `CharactersInOrder` and `NoCharacterLost`: wire,
  `txbuf`, what has been received behind it and what the endpoint holds are
  one sequence, `Path`. `PathStep` sorts the steps: one that only moves the cuts
  (`Kept`), one that puts new characters at the end (`Grown`), one out of the
  configured state that cuts characters off the end (`Cut`).
  `Calm` (nothing open, the buffers aligned, nothing held before the configuration)
  holds until a receive stays open; from there on the code promises nothing
  (finding `cdc_open_receive`), so order is a theorem for `~overasked` as it is a property.

**HID send** (`HidSendProofs`): `NeverBusyByReport`, because an empty report is pending only with its
interrupt flag set (`ReportIsPending`) and so is gone before the next send looks;
what else is left over is of an abandoned wait (`LeftBehind`). `BytesInOrder` and
`SuccessMeansSent` need what the packets hold, `OrderInv`: the buffers alternate
in the driver's order and the host's (`BuffersAlternate`), a reset leaves nothing
for the next configuration (`NothingLeft`), the caller's buffer holds the last
bytes made (`CallInBuffer`), the endpoint has taken all of them that are not left
(`CallSent`), and what it took is in order with nothing from a buffer's stale memory
(`SentOrdered`).

**USB Blaster** (`ProtocolProofs`; `SizeAssumption`): `ClocksAreTheProtocols`, `ResultsAreTheProtocols`.
`BlasterInv` compares with `ref`, the device without buffers: the input not used
yet is still what the host sent although results are written into the same buffer
(`InputKept`: results never reach the position of the next input), and clocks,
TCK and results are those of `ref` (`InStep`), TCK except when a shift has just
taken the pins.

**NAND requests** (`StorageProofs`; `SizeAssumption`, `ShapeAssumption`): `ChipSeesItsRequests`, `PortIsOpen`, by

    IInv == Port /\ (clean => Orderly)

`Orderly` says that for some request number `k` the queue to the device, with
what the host has still to send, is the rest of request `k`'s address and data followed by
whole requests, and that the history `due` is what the chip has seen, the rest of
request `k` and the bytes of those whole requests. What a packet holds of them, and
where it ends, does not matter then: `TakeData` takes the next bytes of address
and data in any cut, and a header is read only when nothing is left. Lengths are words that
wrap; `Small` shows that for valid requests they do not. Concatenation has an
opaque name of its own, `++`, with its associativity and lengths as lemmas,
because the solver does not find its way through long sums of sequences.

**Mass storage** (`StorageProofs`; no assumption on sizes or commands but
`MassStorageAssumption`): `MassStorageInvariant`, `FailuresAreExplained`, by

    MassInv == the records are what they are, and
               Clean(odd) => last.explained /\ DevInv(dev, host, last, odd)

`DevInv` follows a command from the endpoint where it waits (`Waits`) through
the driver that has performed it (`Done`) and made its status (`Told`) to the packet
the host takes. The command block is there once and before its status (`Once`), and
no packet of data or of an earlier command passes for it (`Own`); blocks
are moved only between the two (`Stills`), so nothing clears sense data behind a
status that failed; no answer to another command is on its way (`Quiet`), and the
status comes after the command's own answer (`CswSent`, `Order`: driver and
hardware agree on the next endpoint buffer). `Reasons` then says that behind each
status that failed, be it in the driver, in the CSW or in an endpoint buffer, is sense
data or the call for attention, and `Explains` carries it from there into the answer of
the REQUEST SENSE that comes next. `AfterReset` says that a reset leaves nothing
of this behind, unless it is odd. Interrupts, poll, application and media are
many, but each driver routine changes the device in one of a few ways, stated as
relations between a device and the next with a lemma of their own: `Alike`
(nothing of interest), `Works` and `Copies` (packets and blocks of a command under
way), `Says` and `Well` (a command performed), `Broken` (refused by the application).

**Control transfers** (`ProtocolProofs`; `ControlSizes`): `SettingsAreKnown`,
`ReadsComeWhole`. `ControlInv` says, until a setup packet meets
an old interrupt or another's handling: one request at a time (`OnePacket`), the
endpoint is closed until it is carried out (`Closed`), a data stage belongs to a
SET_LINE_CODING (`DataStage`) whose data waits with its NAK until it has
been read (`LineWaits`), and one of the sets of settings the host believes
possible is the device's, now (`Known`) and after the status stage it is offered
(`Carried`). `ProcessApplies` shows for each entry of the request list that
the function it calls does to the settings what the request says. `ReadInv`: the
bytes the host has, those in the endpoint and those the driver has still to send
are the answer, cut off at the length asked for (`ReadGoesOn`), and the driver stops with a packet
the host knows the end by.

**Main loop and attaching** (`MainProofs`), without a bound on commands or on
bounces: `NeverSleepsOnEvent`, `SleepModeIsRight`, `MemoryAlwaysClocked` and
`LoopTypeCorrect`, by

    IInv == TypeOK /\ AttachInv /\ SleepsInArm /\ NoCommandSince
              /\ NoChangeSince /\ ModeCompared /\ AttachesFirst
    AttachInv == AttachTypeOK /\ Clocked /\ ShowsItself /\ PllKnown
                   /\ MainFirst /\ LossFlagged /\ ReturnFlagged

Its parts say why `safesleep.h` works: the sleep bits are set only between the two
instructions of `enter_sleep`; from the write of `bCommand` (from the look at the
state, respectively) on, `SR_sleep` is zero if anything has happened since; after
the comparison it is this round's mode or zero. `AttachInv` says why the
attachment does: a module that runs has a settled PLL, and each change of the
voltage that a routine has not seen is flagged.

**Start of the board** (`MainProofs`; `PowerAssumption`: any set of bytes in sending,
any setting cut off, any number of refused acknowledges and switches):
`BusIsReleased`, `BoardPoweredRight`, `PowerTypeCorrect`, from the wires up:

1. `BitHeard`, `SentBit` and the lemmas beside them say what a bit on the wires does to
   a chip that hears, sends, acknowledges or is deaf; eight of them make `WrByteHeard`,
   `ByteRead` and `DeafByte`, for every byte (`BitsOfByte`).
2. `RegisterWrite` and `RegisterRead` put bytes and acknowledges together to the one
   call `boardInit` makes: the chip afterwards, the result and the byte, for every
   register, value and place of a refusal. With `SWI2CMST_IGNORE_NAK` a refused
   acknowledge sends the rest to a deaf chip. A read whose first address or register
   number was refused returns, with the result OK, the register pointed to before.
3. `BusCleared`: a STOP reaches a chip only if it does not hold SDA low just then.
   A chip that sends byte `x` from bit `i` lets SDA go at the first bit that is 1 or,
   at the latest, for the acknowledge: at most eight rounds. One that was in the middle of
   hearing a byte is free at once; one that has heard a whole byte takes and acknowledges
   it in the first round and, if that was its address for reading, begins to send in the
   second. So ten rounds are enough whatever the reset cut off; with nine, the least the
   comment asks for, the run fails.
4. `PowerInv == PowerValues /\ FreedInv /\ SettingsInv /\ RunningInv`. A value that
   reads back right may come from another register (see 2). `ValueTells` shows that
   here it cannot: the values wanted are distinct, so a register that
   holds the wanted value is the one meant; verified settings stay because a write goes
   to a register only after its own password (`KeyOpens`). `OnTheWay` is how far a
   protected setting has come, which is what makes the next round succeed if nothing
   is refused, hence `restarts <= faults`; and why a result of OK means that the
   copy to the converters happened, although it is not read back.

**Core voltage and XSVF reader** (`MainProofs`). `VoltageIsRaisedSafely`, for any number
of levels: unless the high side settled between the clearing of the flags and the new
level (`between`), a delay flag that is looked at tells of the level written last
(`FlagsTrue`), and a monitor that is in force and silent has found the supply to be
enough (`SupplyFound`), from one wait to the next. `FirstCall` shows that the first call
is not the exception: after a reset both sides are settled. `Believed` relates
`actlevel` to the level in force. `FileIsRead`, for every geometry of the
chip and every block list (`GeometryAssumption`, `ListAssumption`): `InPlace` says that between two bytes the
readable page of the chip is the one of the reader's place and the page behind it
the next one, although the reader asks for pages two ahead.

Each of the three is proved on its own (`PowerSpec`, `CoreSpec`, `ReaderSpec`), and
`PartsOfBoot` that a run of `BoardStart` is a run of each. So `BootIsSafe` has
their properties for the specification that `board_start` checks, and
`ProgrammedUnderPower` one that relates them: the flash is probed and read for the FPGA
only with every voltage verified, the rails on and `SetVCore` returned.

Only model-checked:

- liveness (`EverythingDrains`, `RoomReturns`,
  `EverythingIsSent`, `EverythingIsRead`, `WaitEnds`, `RequestsFinish`,
  `FpgaFollowsBus`, `AttachFollowsVbus`, `TransfersEnd`, `CommandsEnd`), which needs
  fairness and ENABLED;
- `StatusTrue` of `MassStorage` (also checked, with nothing found, for blocks of one to
  three packets and buffers of one to three blocks): its inductive invariant would have to give the place
  and contents of every packet of a read or write in both double buffers, the block
  buffers and the medium. `MassInv` knows which command a packet belongs to, not which
  bytes of which block it has; that is left to TLC.

## 7. Not modelled, and why

- The XSVF player: its submodule is empty here. `XsvfReader` has the callbacks it
  makes; `udelay`, `realloc` and the error report keep no state.
- Abort, reject, background and PHDC functions of the USB library: not called by
  this firmware. The PHDC class is not compiled and repeats the CDC data path;
  `UsbHidReq.c` is switched off by `#if 0`. The MSC class is not linked either but
  has a protocol of its own, so it is modelled.
- Block buffers that the application never gave (NULL in `UsbMscScsi.c`): the X buffer
  of `MassStorage` is always there, the Y buffer is or is not.
- What SVSHPE does after the core voltage was raised with too little supply (a power-on
  reset): `CoreVoltage` ends at the voltages.
- `jtag_shift_bits`: not reached with `USE_USCI` set.
- Empty OUT packets: the hosts of these protocols send none; two of them in a row would fill
  an endpoint that counts nothing.
- `bCommand` is read, tested and written back in three steps while PORT1_ISR may
  write it (ordb3a_main.c:128): `MainLoop` has the steps, but the code makes no
  provision for the race and no property is stated about it.
- The memory of `main` behind `buf`, which the flush of ordb3a_main.c:195 may
  reach; a disconnect within a shift of the USB Blaster, which its protocol cannot tell.
- The clock library (`HAL_UCS.c`), XT2 and the clock fault handler, DMA copies and
  pin timing: register writes, waits for oscillators and tables without control
  flow of their own. Descriptors are known by their sizes.
- Values: what a character, a JTAG bit or a flash byte is makes no difference to
  any property.
- What SET_CONFIGURATION(0) and CLEAR_FEATURE leave in the drivers of the data
  paths: `UsbControl` has the requests, the data path modules only
  SET_CONFIGURATION(1) and reset.
- Memory of a reset buffer, `nCdcBytesToSend` and `nHidBytesToSend`, which only
  calls this firmware does not make look at.
- The host takes longer from a reset to SET_CONFIGURATION than the loop from a
  count to the receive after it (`Enumerate` in `HidReceive` and `HidSend`):
  milliseconds against microseconds.
