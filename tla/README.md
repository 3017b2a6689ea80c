# Mu-Silicium: specifications of the firmware's drivers

TLA+ models of the parts of Mu-Silicium whose control flow is hard to test,
with the TLC runs that check them and TLAPS proofs of their main invariants.
Mu-Silicium is the UEFI firmware platform code for ARM64 phones and tablets: a
set of EDK2 packages that turn a vendor's boot chain into a UEFI environment. It
has no tests. Paths below are relative to `src/Silicon` unless they start with
`src/`.

## 1. The system

| Part | State it keeps | Operations | What is hard about it |
|---|---|---|---|
| `Samsung/SamsungPkg/Drivers/UsbfnDwc3Dxe` (USB device controller, EFI_USBFN_IO_PROTOCOL) | endpoint table, EP0 state machine, TRBs shared with the controller, event buffer written by the controller, ring of messages for the class driver | 19 protocol calls; 9 device events; 5 endpoint events | three actors (class driver, controller, host); events processed long after they were raised; aborts, resets, stalls and reconfiguration racing completions |
| `Silicium/SiliciumPkg/Drivers/KeypadDxe` (+ `KeypadDeviceDxe`) | two rings of keys (readers, notifications), toggle state, list of notification functions | Start/Stop of the driver binding, timer, ReadKeyStroke(Ex), WaitForKey(Ex), Reset, SetState, (un)register notify | a handler that calls out of its own list walk; queues at their limit; partial failure of Start |
| `src/Platforms/*/Library/KeypadDeviceLib` (buttons) | one state, timer and two flags per button, bitmap of buttons down | Reset, GetKeys (a poll) | presses, long presses, repeats and combinations against polls at any distance |
| `Silicium/SiliciumPkg/Drivers/RamManagerDxe`, `*/Library/RamManagerLib`, `MemoryInitPeiLib`, `MemoryMapHelperLib` | GCD memory map, lists of partitions and reserved holes | split RAM partitions around holes and existing ranges, add the rest as system memory | interval arithmetic at its boundaries, unsorted input, width of counters |
| `Samsung/.../UfsDxe`, `MshcDxe`, `MediaTek/.../MsdcDxe` (storage hosts) | one command in flight, clock and power mode, the media published | bring-up, command, data transfer, error recovery | a command that timed out is still with the controller; status bits and FIFO contents outlive their command; cards pulled and swapped; chunked requests |
| `Samsung/.../SpeedyDxe`, `HsI2cDxe`, `UsiDxe`, `PmicDxe`, `MediaTek/.../PmicWrapperDxe`, `MT6358PmicDxe`, `ClockDxe`, the GPIO, RNG, chip-info and hypervisor-loader drivers | none across calls | register reads and writes | little: one caller, polled |
| `SimpleFbDxe`, `FrameBufferSerialPortLib`, `SmBiosTableDxe`, `BootGraphicsProviderLib`, `AslUpdateLib`, `KernelErrataPatcherLib` | frame buffer, tables | draw, build or patch bytes | layout, not control |
| `BootManagerLib`, `MsBootOptionsLib`, `MsBootPolicyLib`, `SecureBootHandlerLib`, `PlatformBootManagerLib` | UEFI variables (elsewhere) | one pass at boot | order of calls into other packages |
| `Sec`, `PlatformPeiLib`, `ArmSmmuDetachLib`, `RfsProtectionLib`, `MassStorage`, `UFPLoader`, `BootShim` | none | one pass at boot | hardware hand-over |
| per-SoC packages, `src/Platforms`, `src/build_uefi.py`, vendored `OpensslPkg` and mkbootimg | data | - | - |

How they interact: everything runs on one CPU. A driver installs a protocol and
is then called by others; the only concurrency inside the firmware is a timer
or notification event at a higher task priority (KeypadDxe), and the only other
actor is the hardware. UsbfnDwc3Dxe has no interrupt handler: the class driver
calls `EventHandler` in a loop, while the controller goes on executing TRBs and
writing events. The storage drivers poll their controller in loops that are
counted in some places and endless in others.

`PROJECT.json` lists every component, the hazards of the code at their lines,
the lines each definition models, the runs, the mutants and the theorems.

## 2. Plan

1. **UsbfnDwc3** (this is the core and it is done): endpoint operations, the
   whole driver between client, controller and host, its safety and liveness,
   the proof of the type invariant, of the message ring's bound and of
   "reported once".
2. **Keypad** (done, but for the driver binding): KeypadDevice (buttons),
   KeyQueue and KeypadConsole (rings, timer, readers, notification list),
   KeyFifo (what a reader is promised), which KeypadConsole implements. Left:
   **KeypadBinding**, Start and Stop with a failure at every step.
3. **Storage hosts** (done): UfsHost, MsdcHost and MshcCard, each the driver
   against its controller and the device. Left: calls of MSHC nested in one
   another, which its DMA path allows.
4. **RamManager** (done): the memory map table, the holes and the sweep over the
   EFI memory map, against the set of usable pages.
5. **Dwc3MessageRing**: the ring of `Dwc3PushMessage`/`Dwc3PopMessage` with its
   head and tail indices, implementing the bounded queue `Messages` of
   UsbfnDwc3 (INSTANCE ... WITH), proved.
6. **Dwc3Buffers**: the transfer-buffer pool (Allocate/FreeTransferBuffer) and
   the length arithmetic of `Dwc3Transfer` (rounding, bounce clamp, bytes
   transferred), operators against a reference definition.
7. **UsbfnIo**: an abstract specification of what EFI_USBFN_IO promises for a
   bulk transfer (accepted, moved, reported once or given up), implemented by
   UsbfnDwc3.
8. Proofs: done for every safety property the passing runs check. Liveness stays
   with TLC (section 5, end).

## 3. Modules

### Dwc3Endpoint

The endpoint table (`DWC3_ENDPOINT`) and the operations of `Dwc3Endpoint.c` on
it, as operators from tables to tables: `EndTransfer`, `StartTransfer`,
`EnabledEndpoint`, `DisableAll`, `SetHalt`, `Ep0Armed` (`Dwc3Ep0OutStart`),
`ResetTable` (what RESET does to the table), `Reconfigure` (one round of
`Dwc3ResetNonControlEndpoints`). An entry carries the driver's fields and, in
`run` and `id`, what the controller is executing there. EP0 IN and EP0 OUT share
one TRB pool in the code; here that pool is in the entry of EP0 OUT (`Pool`).

The controller is hardware and is modelled from how the driver uses it: a
STARTTRANSFER on an endpoint that is executing is refused; ENDTRANSFER stops it;
a completed TRB is written back with HWO clear and an event is appended to the
event buffer. A chained pair (payload and zero-length packet) releases the first
TRB before the second completes.

### UsbfnDwc3

| Code | Model |
|---|---|
| `Dev->Started`, `Speed`, `LinkState`, `Suspended`, DCFG.DEVADDR, DCTL.RUN_STOP | `Started`, `Speed`, `LinkState`, `Suspended`, `DevAddr`, `RunStop` |
| `Dev->Endpoints`, their TRBs, the controller's transfers | `Endpoints` |
| `Ep0State`, `Ep0StatusStarted`, `Ep0Bounced`, `Ep0BounceTarget`, the EP0 buffer, `SetupPacket` | `ep0` |
| message ring | `Messages` (oldest first; at most `MessageDepth - 1`) |
| event buffer, `EventPos`, GEVNTCOUNT | `EventBuffer`, `Count` |
| call stack of EventHandler | `pc`, `Index` (loop of `Dwc3ResetNonControlEndpoints`) |
| USB host | `host`: stage of its control request, bus state, speed, address it uses |
| class driver | `client`: what it concluded from messages |
| history | `xfers`: endpoint, payload moved, result told, per accepted transfer |

Each protocol call that changes state is one action named after it. An
`EventHandler` call is several steps - entry (`EventHandler`), one action per
kind of event, one step per endpoint of the SET_CONFIG loop
(`ResetNonControlEndpoint`, then `ConfigDone`), exit (`PopMessage`) - because the
controller and the host run between any two of them. The actions starting with
`Hw` and `Host` are the controller and the host.

What is abstracted:
- a buffer is the serial number of the transfer it was passed to; 0 is NULL. So
  clients pass non-NULL buffers, a different one to each Transfer;
- bytes: lengths, cache maintenance and packet sizes are left out; `aligned` says
  whether the payload is a whole number of packets (it decides NeedZlp);
- a SETUP packet is its kind of request plus a serial number; received OUT data
  that overwrites the EP0 buffer may read as any request, with serial 0;
- XFERINPROGRESS is handled exactly as XFERCOMPLETE; EPCMDCMPLT, OVERFLOW and
  unknown events change nothing and are one kind (`other`);
- ENDTRANSFER succeeds; SETEPCONFIG, STARTTRANSFER and SETSTALL/CLEARSTALL may
  fail if `CmdFails` says so;
- ConfigureEnableEndpoints is called once per start, and the controller holds a
  SETUP packet back until a SETUP TRB is armed.

`HostMay` and `ClientMay` switch optional behaviour on: bus resets, disconnects,
data stages cut short or in the wrong direction, bus errors, link events;
bulk transfers, transfers before the configuration (`eager`), aborts, stalls,
calls on EP0 out of turn (`lazy`), policies, oversized control transfers, stops.
No run switches `eager` on, only the theorems speak of it.

### KeypadDevice

The buttons. `Context` holds the KEY_CONTEXT of each button, `Bitmap` the two
bitmaps `KeySetState` maintains. A poll (`KeypadDeviceGetKeys`) is `GetKeys`,
which fixes the time since the last poll and the buttons held, then one step per
button of `KeyList` in order (`pos`): one action per branch of
`LibKeyUpdateKeyStatus`. `GetStateFails` is the early return when a GPIO cannot
be read. Times are multiples of a unit and saturate at the long-press time, the
largest the code compares with. `press` is history: strokes reported for the
current press, whether it was kept quiet for a combination, and the real time
since the last stroke.

### KeyQueue, KeyFifo, KeypadConsole

`KeyQueue` is EFI_KEY_QUEUE with its Head and Tail. `KeypadConsole` has both
rings, the notification list, the toggles and `KeyNotifyProcessHandler`. Every
operation but that handler runs in one critical section at TPL_NOTIFY and is one
action. The handler is a loop with a step for the pop, for each node of the list,
for the call and for its return. It runs at TPL_CALLBACK, as the timer does, so
while it runs only the function it is calling acts (`May`, `CallbackMay`): it may
read (which polls the device and can queue more keys), reset, set the state,
register, and unregister others. A function does not unregister itself: the code
would then read the freed node (a hazard in `PROJECT.json`). The device is
abstract here: a poll brings no key or any key. ReadKeyStroke repeats
`KeypadReadKeyStrokeWorker` until it gets a full key. `KeypadErr` is never set by
the code and left out; so is EFI_OUT_OF_RESOURCES of a registration, which changes
nothing.

`KeyFifo` is what readers are promised, and `ReadersFifo` says that
`Contents(EfiKeyQueue)` implements it: keys in order, each once, the oldest lost
first and only when the ring is full, partial keys skipped by WaitForKey only at
the head.

### UfsHost

`UfsDxe`. The bring-up (`UfsInitInterface` and the query after it) is a
`Program`: a sequence of steps, each a UIC command, a query, a NOP, a
calibration access or a wait, which the driver executes with the error handling
of the function it stands for. Then come the scan of the units (unit
descriptor, REQUEST SENSE, READ CAPACITY) and ReadBlocks/WriteBlocks, which cut a request
into chunks. All of them share `UtpPrepare` (descriptor and UPIU), `UfsUtpSend`
(doorbell) and `UtpReturns` (the wait and what the caller makes of its result). The controller's steps start with `Hw`. It
has one slot: a command that timed out stays in it, nothing aborts it, and the
next command is written over its descriptor. Two history variables mark what the
driver cannot know: `overrun` (a descriptor was rewritten while the controller
had the slot) and `suspect` (the driver believed an answer that was a failure).
Left out: register layouts, UPIU contents, byte counts; a length counts blocks.

### MsdcHost

`MsdcDxe`. `CardDetectRoutineTable` holds the two detection routines as
sequences of commands; `MsdcSendCmd` is the wait for an idle controller
(`WriteCmd`), the poll (`MsdcPollInterrupts`) and the PIO loops. MSDC_INT is a
set of bits that outlive their command, and Init leaves in it, and in the FIFO,
what a boot loader may leave. `PioReadStatus` and `PioReadFifo` are separate
steps because the code reads the status first and the FIFO count next.
`TxRoom` is the code's unsigned arithmetic on the FIFO count. A unit of data is
one or more words and carries whether it is `whole`: MsdcFifoRead moves words,
MsdcFifoWrite one byte of the caller's buffer per word (section 6). History: `stray`
(automatic CMD12 raised a bit nothing clears), `dirty` (a data stage was broken
off), `lost` (a unit was written to a full FIFO).

### RamManager

The boot from the platform's table to the last page added. `ValidateMemoryMap`
checks the table, `AddHobs` makes HOBs of it, which become the EFI memory map (external: the DXE core),
`GetMemoryData` learns the holes (external: secure monitor and hypervisor),
`GetUsableMemoryRanges` makes ranges of them in the way of each vendor, and
`ParseMemoryRange` is the sweep over ranges and regions, one step per turn of
its two loops (`StartRange`, `ParseRegion`, `NoMoreRegions`, `ParseRest`). Addresses count pages and wrap around at `Space`, as UINT64 does:
holes out of order make a length wrap, and the sweep is checked on such ranges
too. History: `given` (pages passed to MapMemoryRegion), `hidden` (holes a call
failed to report), `trouble` (an allocation or AddMemorySpace failed).

### MshcCard

`MshcDxe`, with the board's part in
`S5E9830Pkg/Library/PlatformMshcLib`. A detection is one
action per command of the identification, power cycle and 1.8 V switch included,
and is shared by the entry point, Reset and the recovery after a failed
transfer. A transfer goes pass by pass through `MshcPrepareTransfer`,
`MshcSendCmd`, the data by IDMAC or PIO and the waits at its end. The card may
be pulled or swapped between any two steps (`Swap`). `MediaId` and what it was
published for are kept in `names`. History: `late` (an error return left a
command or its data to the controller), `unsure` (a call ran on a zeroed
gCardInfo, or across a Reset), `blurred` (a failed detection left another card's
CID behind). Clock, bus width, access mode and tuning are one step
(`SetAccessMode`), which may fail.

### Proof modules

`UsbfnDwc3_proofs` (which begins with the lemmas on the operators of the endpoint
table) and, on top of it, `UsbfnDwc3Control_proofs` (the properties of the control
pipe), `KeypadDevice_proofs`, `KeypadConsole_proofs`, `RamManager_proofs`,
`UfsHost_proofs`, `MsdcHost_proofs` and `MshcCard_proofs` (type correctness and
the safety properties of the module each is named after). Section 5 says how
they go.

## 4. Runs

The runs of the USB driver and the keypad check deadlock: a started driver can
always be polled, and buttons and readers can always be polled. The storage runs
bound the number of calls, and a boot ends, so these runs (`ufs`, `msdc`, `mshc`,
`write`, `ram`) may stop.

| Run | Behaviour switched on | Checks |
|---|---|---|
| `bulk` | two bulk endpoints, 2 transfers, abort, two SET_CONFIG or GET requests, bus reset, failing commands, lazy client, wrong direction | TypeOK, NoMessageDropped, ReportedOnce, CompleteIsTrue, NoLostCompletion |
| `zlp` | zero-length termination, halts (also ones that fail), bus errors, fair | CompleteIsTrue, CompletionReported |
| `control` | every request kind, resets, disconnects, two speeds, link events, oversize, stop | TrbIntact, StoppedQuiet, ClientView |
| `live` | three control requests with resets, disconnects and IN data stages cut short, fair | Ep0Ready, AddressAgrees, ControlDataMoved, SetupOrder, ControlCompletes |
| `keypad_console` | partial keys, overflow, resets, two functions that read, reset, register and unregister, fair | NotifiedAll, LinkIsLive, ReadersFifo, EventuallyNotified |
| `keypad_device` | three buttons, polls at distances 0 and 2, GPIO failures, resets | OneStrokePerPress, EveryPressReported, ComboIsHeld, RepeatSpacing |
| `ufs` | bring-up, scan and two requests against time-outs, late answers, refusals, failed OCS, check conditions and allocation failures, fair | AnswerIsMine, InstalledIsReal, MovedInOrder, BuffersReturned, CallsReturn |
| `msdc` | detection of no card, an eMMC or an SD card after a boot loader, then two packets, with command, data and automatic-stop errors, fair | ResponseIsMine, FailsForAReason, MovedInOrder, CallsReturn |
| `ram` | every table of up to two regions, every pair of holes, three vendors, failing calls and allocations | GivenIsNew, GivenIsUsable, NoRamLost |
| `mshc` | three kinds of card, a swap and a fault at any point, DMA and PIO, Reset between passes, fair | SuccessIsReal, QuietAfterReturn, MediaIdNamesOneCard, NeverShort, CallsReturn |
| `bounce` | see section 6 | ControlDataMoved: a documented promise the code breaks |
| `write` | one write, no faults; see section 6 | DataMoved: what MsdcPioWrite's success means, which the code breaks |

What the storage and memory properties say. AnswerIsMine and ResponseIsMine: an
answer left over from another command is not taken for this one's.
FailsForAReason: a command fails only if it met an error itself. MovedInOrder (of
UFS) and SuccessIsReal: a call that succeeds has moved exactly the blocks it was
asked for, each at its place (of the card whose MediaId was checked).
MovedInOrder of MSDC says that of reads; of writes it says that every unit of the
packet went through the FIFO once and in order, but not that it still holds the
caller's data when it arrives: it does not (DataMoved, run `write`). BuffersReturned
and QuietAfterReturn: when a call has returned, its buffer is not written to any
more, but after EFI_TIMEOUT, or after a command MSHC gave up. InstalledIsReal: a
Block I/O stands for a unit that exists, with its block size.
MediaIdNamesOneCard: no MediaId is used for two cards. NeverShort: a transfer
whose last data arrives between two register reads is not called short.
GivenIsNew, GivenIsUsable, NoRamLost: a page is added only if it is new and no
hole, and all RAM is. CallsReturn: every call comes back. Where the code does not
keep one of them, the history variable in its statement says after what, and
section 6 or the hazards say why.

Every module with variables has a type invariant (`TypeOK`), which documents
the ranges of its variables; all of them are proved.

Bounds and why they are enough. `NumPhysicalEps` 3 or 4: EP0 OUT and IN plus one
bulk endpoint, or one of each direction; bulk endpoints share only the message
ring, the event buffer and Ep0Bounced. `MaxXfers` 1 to 3: a stale event, the
transfer that left it and the transfer that meets it. `MaxSetups` 1 to 3: a
request, the one after it and, for stale EP0 buffers, a third. `MaxEvents` 2 or
3: enough for an event of an old request, a reset and an event of the next
request to be waiting together; the controller waits while the buffer is full.
`MessageDepth` is the number of endpoints, the smallest the argument for
NoMessageDropped allows (the code has 32).
No run switches the eager client on: NoLostCompletion, which `bulk` checks, does
not hold for it. TypeCorrect, RingNeverFull, NeverReportedTwice, ClientIsInformed
and ResultsAreTrue are proved for every `ClientMay`, the eager client included.

For the buttons the limits 10, 100 and 500 ms become 1, 2 and 3 units, and polls
are 0 or 2 apart, so that every order of passing the limits occurs; the run has no
other bound. `MaxCount` 3 makes the rings hold two keys (the code's hold 255), so that
three strokes overflow them, and two strokes of a key with two registrations the
notification ring. Two registrations are enough for a walk that stands on one node
while the other is added or removed.

UFS: two units (one to follow another), two tries of each retry loop, a chunk of
two blocks against requests of none and three (a full chunk and a rest), and two
requests, so that an answer of the first can meet the second. `LbaSpace` is 4, so
that a request ends at the very last block, where Lba wraps around. MSDC: a FIFO of two
units and blocks of four, so that a block is several chunks; two packets of up to
two blocks. RAM: 20 addresses, RAM of 3 or 7 pages (less and more than the low
window), regions of one or two pages at places below, at the start of, inside and
above the window, and holes of one or two pages that begin below or in it. MSHC: a card with UHS, a byte-addressed card and an
eMMC, of three blocks; passes of two, so that a request is a pass and a rest; two
calls, one swap and one fault at any step.

Fairness. `WF(Poll)`: the protocol requires that EventHandler "is called
repeatedly" (`QcomPkg/Include/Protocol/EFIUsbfnIo.h:569`) and the driver's loops
end. `WF(ClientAnswer)`: a class driver that was given a SETUP packet transfers
data or stalls. `WF(HostProgress)`: a host that sent a SETUP packet goes on with
the data and the status stage. Nothing is assumed of bulk traffic, new requests,
resets or link events. ControlCompletes and CompletionReported need them because
the driver does nothing unless it is polled. EventuallyNotified assumes
`WF(Handler)`: a signalled event is dispatched when the task priority drops and
notification functions return. Nothing is assumed of the timer or the readers.
UFS: only that the driver itself runs (`WF(Driver)`), as all its waits but those
for reset and enabling, which end in the model, are counted. MSDC: also
`WF(Controller)`, since its waits have no time-out: the controller ends every
command with some bit. MSHC: the driver runs (`WF(Detection)`, `WF(Transfer)`),
a command held by the controller is sent once the card lets go
(`WF(HwCommand)`), and the count of an empty FIFO's polls runs out if the FIFO is
empty again and again (`SF(PioTimesOut)`).

Ep0Ready and TrbIntact except the states of `Ep0CutOff` (a reset
during an OUT data stage or the status stage of a GET, section 6), and
CompleteIsTrue is claimed where a stale event cannot lend its status (aborts
without bus errors, bus errors without aborts; section 6).

## 5. Proofs

TLC shows a property on the instance of a run; the theorems show it for every
value of the constants that satisfies the module's assumption. All of them rest on
an inductive invariant `IInv`, which TLC checked on the run's instance first.

**UsbfnDwc3**, for every number of endpoints, ring depth, bound and set of
optional behaviour that satisfies `EndpointAssumption` and `DriverAssumption`:

- `TypeCorrect`: Spec => []TypeOK.
- `RingNeverFull`: Spec => []NoMessageDropped. The inductive invariant is
  `IInv = TypeOK /\ QueueInv`. NoMessageDropped alone is not inductive: events
  are processed only if the ring was empty at entry, the loop leaves at the first
  message, and the SET_CONFIG loop pushes at most one message per bulk endpoint.
  So in that loop the ring holds at most `Index - 2` messages, and the SETUP
  message that follows it still fits if the ring has at least as many slots as
  there are endpoints. That is the assumption on `MessageDepth`; 32 slots satisfy
  it for every controller with up to 32 physical endpoints.
- `ClientIsInformed`: Spec => []ClientView. `ViewInv` says that at every
  step of a call either the client is informed and no message about the bus is
  waiting, or exactly one message is, and a client that reads it is informed. It
  needs the loop to leave at the first message.
- `NeverReportedTwice`: Spec => []ReportedOnce. The invariant `OwnInv` says that
  a buffer is owned by at most one endpoint, that an owned buffer has not been
  reported, that every owned buffer has a number below `xfers.next`, and that a
  bulk endpoint with a transfer started owns a buffer. A step on the endpoint
  table either keeps what an endpoint owns (the relation `Kept` of
  `UsbfnDwc3_proofs`, with a lemma for each operator), or empties it in the same
  step that reports it.
- `ResultsAreTrue`: Spec => []CompleteIsTrue, if the bus has no errors ("buserr"
  \notin HostMay). `EveryBulkStep` sorts what any step may do to a bulk endpoint
  into eight kinds (`BulkStep`: the work goes on, it is ended, wiped, reported,
  begun, its payload is moved, it is finished, the policy changes), from one lemma
  per operator of the table. `TrackInv` says that a bulk endpoint that waits with its TRB released has
  its payload in `landed`, so that even a stale event reports the truth. With bus
  errors it does not: a stale event lends its status (section 6), so the
  hypothesis is needed, and the run `bulk` has it too.
- `CompletionNeverLost`: Spec => []NoLostCompletion, for a client that submits
  transfers only while it is configured ("eager" \notin ClientMay) and does not
  set policies ("policy" \notin ClientMay: then no payload has a chained
  zero-length packet). The property is not inductive: a CONNECT_DONE configures
  the endpoints afresh and forgets their transfers, whatever the controller is
  executing there. `Guards` says that every
  connect event in the buffer has a reset before it with no SET_CONFIG after that, or
  the driver is `Calm` (no bulk transfer started, none the client could start), and
  `LostInv` that each bulk transfer is followed up (`Followed`): executing with
  its resource index known, or done with its event in the buffer. An eager client
  breaks the first, a chained transfer the second (its released first TRB lets
  a stale event pass for its own: hazard at `UsbfnDwc3Dxe.c:368`).
- `Ep0Rearmed`: Spec => []Ep0Ready, under `Wellbehaved`: the client answers a
  request it is told of before it polls again, and makes no other call on EP0
  ("lazy" \notin ClientMay: the driver takes any call on EP0 for the answer to the
  request it holds), the host moves data in the direction its SETUP announced
  ("wrongdir" \notin HostMay), and of the controller's commands only those that
  configure an endpoint may fail: a STARTTRANSFER or SETSTALL of EP0 that fails is
  not retried anywhere. The run `live`, which checks Ep0Ready, has the same
  hypotheses. The inductive invariant is `ControlInv`, with four parts
  while the driver runs. `Ep0On`: both directions of EP0 stay enabled. `PipeInv`
  sorts each direction of EP0 into a stage (`OutStage`, `InStage`: quiet, waiting
  for SETUP, data or status, done, lost) and says which pairs go with the
  driver's state, the host's phase and the EP0 events still in the buffer, of
  which at most one is a completion. `AskInv`: while the driver
  waits for the client, the client has the question before it, in the ring or in
  its hands, and it is about the request the driver holds. `Guards` is that of
  CompletionNeverLost. Ep0Ready alone is far from inductive: the driver sees the
  host's next SETUP, its status stage and a bus reset only events later, and
  each of them may overtake the client's answer.
- `AddressKnown`: Spec => []AddressAgrees, and `PacketsInOrder`: Spec =>
  SetupOrder, both under `Wellbehaved`. They stand on `ControlInv` and two further
  invariants. `AddressInv`: a driver that has handled SET_ADDRESS is one stage ahead
  of the host, a reset still in the buffer makes the address stale, and a SETUP packet of a
  request the host gave up lies before a reset (else its SET_ADDRESS would outlive
  the reset that cleared the address). `OrderInv`: what is on its way to the client,
  in the event buffer, the SET_CONFIG loop or the message ring, is newer than
  what the client has seen, and no more than one packet is. The data of an OUT
  request, which lands in the same EP0 buffer, could be mistaken for a packet if a completion
  outlived its request: `ControlInv` excludes that.
- `ControlDataArrives`: Spec => []ControlDataMoved, under `Wellbehaved` and
  "bulk" \notin ClientMay, the hypothesis the finding `bounce` of section 6 shows
  to be needed. `MovedInv` follows the data stage: on IN the controller moves from
  the buffer of the client, on OUT it fills the bounce buffer, which stays marked
  as bounced, with the client's buffer as its target, until the event that copies
  it. Every other step settles the data stage (`Settled`) or leaves both it and
  the EP0 fields alone (`Unmoved`).
- `NothingLeftBehind`: Spec => []StoppedQuiet, under `Wellbehaved` and the
  hypotheses of CompletionNeverLost. `ControlInv` says what Stop leaves of EP0,
  `LostInv` that the controller runs no bulk transfer the driver has forgotten,
  which Stop would not end.
- `TrbsAreIntact`: Spec => []TrbIntact, under the hypotheses of NothingLeftBehind
  and "early" \notin HostMay: a host that cuts IN data short starts the status
  stage on EP0 OUT, whose TRB overwrites the one the controller still executes
  on EP0 IN (section 6). The run `control`, which checks TrbIntact, satisfies all
  of them. `TrbInv` says of the pool EP0 OUT and EP0 IN share: while a SETUP TRB is
  armed it is the one in the pool and EP0 IN has no resource index, so that
  ending EP0 IN cannot clear it; a data or status stage under way owns the pool,
  unless a reset cut EP0 OUT off. A step leaves EP0 alone (`LeftAlone`), leaves nothing
  executing on it (`Quieted`), arms it for SETUP (`Rearmed`), or is the start of a
  data or status stage or RESET. For a bulk ring, `LostInv` says that an
  executing TRB is followed up, and `Followed` that it is the driver's own.

**KeypadDevice**, for all limits with 0 < ReleaseTime <= RepeatTime <= LongTime
and polls at any distance (`TimeAssumption`): `TypeCorrect`, `StrokesBounded`
(OneStrokePerPress) and, as action properties, `NoPressSwallowed`
(EveryPressReported), `CombinationIsReal` (ComboIsHeld) and
`StrokesKeepDistance` (RepeatSpacing). The properties speak of strokes, the code
of two flags and a timer: `KeyInv` says what State, Longpress and Repeat mean for
the strokes of the press, and that a context's clock, as the poll under way will
see it, is never ahead of the real time since the last stroke - which is what a
poll given up half way could break. `BitmapInv` says that the bitmap is exact for
the keys the poll has visited; power is visited last, hence the combinations.

**KeypadConsole**, for every ring size, key set, list length and choice of what
notification functions do (`QueueAssumption`, `ConsoleAssumption`):

- `TypeCorrect`, `WalksLiveNodes` (LinkIsLive) and `NoWakeUpLost` (NotifiedAll).
  Handles grow along the list (`ListInv`), so that "the walk has not come past a
  registration" is a comparison of handles (`Ahead`). `DueInv` says that what is
  owed is owed to a node in the list, for a key in the notification ring or in
  the handler's hands, that every copy of that key still matches the node (this
  needs fresh stroke numbers, `Typed`), and that for the key in hand the node is
  ahead. `SignalInv`: with the handler idle and not signalled the ring is empty.
- `RingIsFifo`: Spec => ReadersFifo, the refinement of KeyFifo. The ring lemmas
  `PopIs`, `PushIs`, `SkipIs` and `EmptyIs` say what each operation does to
  `Contents`: Tail, Append (after Tail if the ring was full), a suffix, nothing.
  They rest on `PlaceIs` and `CountIs`, which turn the code's `%` into a
  comparison. `StepIsFifoStep` then maps each action to Deliver, Reset or a
  stuttering step.

**RamManager**, for every table, hole list, RAM size and address width
(`RamAssumption`): `TypeCorrect`, `GivenAreNew`, `GivenAreUsable`, `AllRamKnown`
(NoRamLost). The invariant has the loop invariant of ParseMemoryRange that the code
relies on and does not state: the map is sorted and none of its regions wraps
(`MapInv`, from a proof that the sort is a permutation in order), the regions
passed end at or below CurrentRangeBase, those left begin behind it (`LoopInv`);
what was skipped in a range is known to the core (`PassedInv`); and the ranges are
exactly the RAM between the holes (`RangesInv`, per vendor). The assumption says
that no region of a platform's table reaches 2^64 and that the carve-out is not
empty, which the tables and the 30 GB carve-out of the code satisfy.

**UfsHost**, for every number of units, chunk size, retry limit and request
(`UfsAssumption`): `TypeCorrect`, `AnswersAreMine`, `InstalledAreReal`,
`BlocksInOrder` (MovedInOrder), `BuffersAreReturned`. `SlotInv` is the protocol of
the one slot: the doorbell is set while the controller executes; what it
fetched since the descriptor was written is the descriptor; while the driver
waits and nothing was overrun, either that command is under way or the answer is
its own. `AnswerInv` and `ScanInv` carry what a good answer says to the
published units, `MoveInv` what has moved to the loop's Lba, buffer and count.
The proof corrected the property: a call that crosses block 2^32 wraps
around, since the loop adds ChunkBlks to a UINT32, so MovedInOrder is claimed for
calls that end below it.

**MsdcHost**, for every size of FIFO, block and transfer and every choice of
faults (`MsdcAssumption`): `TypeCorrect`, `AnswersAreMine` (ResponseIsMine),
`FailuresAreReal` (FailsForAReason), `BlocksInOrder` (MovedInOrder). Nothing
clears MSDC_INT before a command, so the argument is about what is left in it:
`BitInv` says that a bit of CMDSTS is raised once per command, alone, and is gone
when MsdcSendCmd returns (stray bits of auto CMD12 apart). `FlowInv` follows one
packet from SDC_CMD to its return: what has been moved, then what is in the FIFO,
are its first units in order, as many as the controller has counted (`ReadFlow`,
`WriteFlow`), and XFER_COMPL is set if and only if the count is complete. Since
the status is read before the FIFO, XFER_COMPL in the status means that the rest
of a read is in the FIFO, hence is the last chunk; `ToldInv` states what the
caller is told. What the FIFO holds for a packet is `Carried`: the data of a read,
and the places of a write with one byte in each word, so that `BlocksInOrder` says
of reads that they brought their data and of writes where each unit went.
DataMoved, which asks the same of writes, is false and has no theorem.

**MshcCard**, for every FIFO, chunk, card and request size and every failure of
slot and card (`MshcAssumption`): `TypeCorrect`, `OneCardPerMediaId`
(MediaIdNamesOneCard), `QuietAfterCalls` (QuietAfterReturn), `NeverFoundShort`
(NeverShort), `SuccessesAreReal` (SuccessIsReal). The invariant follows one call
through detection and transfer: `DetInv` and `CardInv` say what is known of the
card at each command of the identification, `NameInv` that a MediaId published
before is below the next one and gCardInfo has the CID it was published for,
`IoInv` and `StartInv` where a request stands between two passes, `DmaInv` that
the IDMAC is enabled only with a data stage or after an error return, and
`FlowInv` that buffer, FIFO and card together hold the blocks of the pass in
order. `SureInv` and `ToldInv` tie them to what the caller is told. Without
them SuccessIsReal has nothing to stand on: between the data and the return lie
the waits for the card, during which it can be pulled and a recovery can name
another card.

Where a proof needs induction over numbers (the sort, the sweep over the holes,
the pushes to the notification ring), it takes a least counterexample
(`LeastNat`), since the library's induction theorems take an operator as a
parameter, which the installed provers cannot instantiate.

Only model-checked: all liveness, which is out of this prover's reach.

## 6. Where the code and its documentation disagree

- `bounce`: `UsbfnDwc3Dxe.c:543` clears `Ep0Bounced` for any endpoint. A bulk
  Transfer made during an OUT data stage cancels the copy to the client's buffer;
  the control transfer is still reported Complete.
- `write`: `MsdcDxe.c:482` writes `*ByteBuffer`, one byte, into each 32-bit word
  of the FIFO (`:454` reads words through a `UINT32 *`). Every word a write puts on
  the card holds one byte of the caller's data and three zero bytes, and the write
  is reported as successful, although MsdcPioWrite has a check for "Data not fully
  wrote!" (`:564-567`). DataMoved is violated by a single write without faults. If
  FifoWriteUnit wrote whole words, DataMoved would hold under the bounds and
  all the faults of the run `msdc`.

The following are plain from the code, or seen when the exemption of a property
is taken away, and have no run of their own:

- A reset during an OUT data stage, or the status stage of a GET, leaves EP0 OUT
  with its old TRB; CONNECT_DONE does not arm a SETUP TRB because EP0 OUT looks
  busy (`Dwc3Endpoint.c:749`; `Ep0CutOff`).
- A host that ends IN data early and goes on to its status stage has
  Dwc3Ep0StartStatus (`Dwc3Endpoint.c:503-524`) end the transfer of EP0 OUT, the
  status endpoint, but not the data transfer of EP0 IN. The status TRB overwrites
  the one both share, and its transfer the controller still holds.
- The status of a result is that of the event at hand (`Dwc3Endpoint.c:658`),
  which may be left from an aborted transfer: a transfer that met a bus error is
  then reported Complete.
- RESET (`Dwc3Endpoint.c:711-716`) ends bulk transfers without a result, so the
  message after which the caller may reuse its buffer never comes.
- A key that matches n registrations is queued n times for the notification
  handler (`KeypadDxe.c:170-181`, no `break` after the push), and the handler
  calls every matching function for each copy.
- SetState sets only the first of the toggles asked for
  (`KeypadTextIn.c:457-465`) and reports success.
- UFS forgives a failed OCS for every command whose Response is 0, where the
  comment at `UfsDxe.c:401-404` speaks of NOP: a READ CAPACITY that never
  reached the unit installs a Block I/O with a block size of 0 (`suspect`).
- The ASSERT at `MsdcDxe.c:517-519` can fail: nothing empties the FIFO after a
  data stage that was broken off (`dirty`).
- `MsdcDxe.c:435` masks the FIFO count for writes but does not shift it, so
  MsdcPioWrite never waits for room (`lost`).
- `MshcDxe.c:629-654` compares CIDs after the detection has overwritten the old
  one: the same card is announced as "A different Card answered after the
  Cycle.", and gets a new MediaId.
- Nothing calls `MshcBoardSetVoltage` with 3300: a card identified again at
  1.8 V stays there until the power cycle.

## 7. Not modelled

Of the modelled parts: the keypad's driver binding (Start and Stop); of
UsbfnDwc3Dxe, the register programming of the core and the PHY, cache
maintenance, byte counts, the transfer-buffer pool and the getters; of the
storage hosts, clocks, pads, DMA descriptor layouts, and for MSHC a call made
from a notification in the middle of another; of the RAM manager, the MMU
attributes and the DXE core.

Hazards of the modelled code that no property states, beyond those in
`PROJECT.json`: an ENDTRANSFER that times out is taken for done
(`Dwc3Endpoint.c:356`); an event buffer that overflows loses events (`:799`);
FreeTransferBuffer does not look for a transfer in flight
(`UsbfnDwc3Dxe.c:683`); UFS frees the buffer of REQUEST SENSE and READ CAPACITY
after a time-out (`UfsDxe.c:1181`) and cuts Lba to 32 bits (`:1342`); MSDC never
reads the result of an SD card's switch (`MsdcDxe.c:1208`); an error at a later
unit or host unloads the driver below the earlier ones (`UfsDxe.c:1455`,
`MsdcDxe.c:1401`); ManageRam frees an unset pointer on its error path
(`RamManager.c:226`); register regions may overlap RAM unnoticed
(`MemoryInitPei.c:65`); Start of the keypad's driver binding closes one event of up
to four when it fails, then frees the device a timer goes on polling
(`KeypadDxe.c:314`).

The other parts of section 1 keep no state between calls, make one pass at boot
or only move data: bus, PMIC, clock, GPIO, RNG and chip-information drivers, the
frame buffer, SMBIOS tables, boot manager libraries and platform hand-over. Most
of the repository's lines are not control flow at all: vendored OpenSSL and its
wrappers, headers with register and protocol constants, and per-SoC tables of
clocks, pins, regulators and memory regions. They have no behaviour a model could
check, so the share of the repository's lines that the modules stand for is
small although the drivers above are covered almost whole.
