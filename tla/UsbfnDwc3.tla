------------------------------ MODULE UsbfnDwc3 ------------------------------
(***************************************************************************)
(* The Samsung DWC3 USB function driver (UsbfnDwc3Dxe.c, Dwc3Endpoint.c,   *)
(* Dwc3Core.c) between its three neighbours: the class driver that calls   *)
(* EFI_USBFN_IO_PROTOCOL and polls EventHandler (the client), the DWC3     *)
(* controller that executes TRBs and writes events, and the USB host.      *)
(*                                                                         *)
(* The driver has no interrupt handler: everything it does happens inside  *)
(* a protocol call.  A call other than EventHandler is one step.  An       *)
(* EventHandler call is several (pc): one per event taken from the event   *)
(* buffer, one per endpoint of the SET_CONFIG loop, one that pops the      *)
(* message; the controller and the host run between any two of them.       *)
(***************************************************************************)
EXTENDS Dwc3Endpoint, Sequences

CONSTANTS
    MessageDepth,   \* DWC3_MESSAGE_QUEUE_DEPTH, slots of the message ring
    InterfaceEps,   \* bulk endpoints named by the client's descriptors
    Requests,       \* requests the host sends on EP0
    HostSpeeds,     \* speeds the bus may come up with
    HostMay,        \* optional host and controller behaviour
    ClientMay,      \* optional client behaviour
    MaxSetups,      \* bound: SETUP packets the host sends
    MaxEvents       \* bound: events waiting in the event buffer

AllRequests == {"SET_ADDRESS", "SET_CONFIG", "NODATA", "GET", "OUT"}
HostOptions == {"reset", "disconnect", "early", "wrongdir", "buserr", "link", "other"}
ClientOptions == {"bulk", "eager", "abort", "stall", "lazy", "policy", "oversize", "stop"}

ASSUME DriverAssumption ==
    /\ MessageDepth \in Nat /\ MessageDepth >= NumPhysicalEps
    /\ InterfaceEps \subseteq Bulk
    /\ Requests \subseteq AllRequests
    /\ HostSpeeds \subseteq {"low", "full", "high", "super"}
    /\ HostMay \subseteq HostOptions
    /\ ClientMay \subseteq ClientOptions
    /\ MaxSetups \in Nat
    /\ MaxEvents \in Nat

VARIABLES
    Started, RunStop,              \* Dev->Started, the RUN_STOP bit
    Speed, LinkState, Suspended,   \* Dev->Speed, LinkState, Suspended
    DevAddr,                       \* the address field of DCFG
    Endpoints,                     \* Dev->Endpoints
    ep0,                           \* the EP0 fields of DWC3_DEV
    Messages,                      \* the message ring, oldest first
    EventBuffer,                   \* events written and not yet taken
    pc, Count, Index,              \* where the EventHandler call is
    host,                          \* the host's view of the control pipe
    client,                        \* what the client learnt from messages
    xfers                          \* history of the transfers accepted

driver == <<Started, RunStop, Speed, LinkState, Suspended, DevAddr>>
bus    == <<Speed, LinkState, Suspended, DevAddr>>
call   == <<pc, Count, Index>>
vars   == <<driver, Endpoints, ep0, Messages, EventBuffer, call, host, client, xfers>>

-----------------------------------------------------------------------------
(* Requests.  SetupPacket.Length # 0 makes three stages; the direction bit  *)
(* of RequestType gives Ep0ExpectIn.  "OUT" is a class or vendor request    *)
(* with an OUT data stage, "NODATA" any request the driver passes through.  *)

ThreeStage(r) == r \in {"GET", "OUT"}
ExpectIn(r)   == r = "GET"
DataEp(r)     == IF ExpectIn(r) THEN EP0_IN ELSE EP0_OUT
StatusEp(r)   == IF ThreeStage(r) /\ ExpectIn(r) THEN EP0_OUT ELSE EP0_IN

\* A SETUP packet carries a serial number (1 .. MaxSetups) so that two equal
\* requests can be told apart; serial 0 marks bytes that are no SETUP packet.
Packets    == [req : AllRequests, serial : 0 .. MaxSetups]
ZeroPacket == [req |-> "NODATA", serial |-> 0]

Speeds     == {"unknown", "low", "full", "high", "super"}
LinkStates == {0, 3, 5}          \* HS_ON (U0), HS_SUSPEND (U3), HS_EARLY_SUSPEND

Ep0States == {"Setup", "Data", "Status"}

Ep0Fields ==
    [State : Ep0States, StatusStarted : BOOLEAN, Bounced : BOOLEAN,
     BounceTarget : Buffers, Buffer : Packets, filled : Buffers, SetupPacket : Packets]

(* Events: "complete" is XFERCOMPLETE (err: the BUSERR status bit), "data"  *)
(* and "status" are XFERNOTREADY with that control phase, "other" stands    *)
(* for the events every handler ignores (EPCMDCMPLT, OVERFLOW, unknown).    *)

EpEventTypes  == {"complete", "data", "status", "other"}
DevEventTypes == {"reset", "connect", "disconnect", "link", "wakeup"}
Events ==
    [type : EpEventTypes \union DevEventTypes, ep : Eps,
     err : BOOLEAN, link : LinkStates]

Event(type, n) == [type |-> type, ep |-> n, err |-> FALSE, link |-> 0]

(* Messages, with the part of the payload that matters.                     *)

BusMessages   == {"Detach", "Reset", "Speed", "Suspend", "Resume"}
Statuses      == {"Complete", "Aborted"}
MessageSet ==
    [type : BusMessages \union {"Setup", "Result"}, ep : Eps, buffer : Buffers,
     status : Statuses, packet : Packets, speed : Speeds]

BlankMessage ==
    [type |-> "Reset", ep |-> 0, buffer |-> NULL, status |-> "Complete",
     packet |-> ZeroPacket, speed |-> "unknown"]

BusMessage(type)  == [BlankMessage EXCEPT !.type = type]
SpeedMessage(s)   == [BlankMessage EXCEPT !.type = "Speed", !.speed = s]
SetupMessage(p)   == [BlankMessage EXCEPT !.type = "Setup", !.packet = p]
TransferResult(E, n, status) ==
    [BlankMessage EXCEPT !.type = "Result", !.ep = n,
                         !.buffer = E[n].TransferBuffer, !.status = status]

\* Dwc3PushMessage: the ring keeps one slot free; a message that finds it
\* full is dropped.
PushMessage(q, m) == IF Len(q) = MessageDepth - 1 THEN q ELSE Append(q, m)

\* History of what was reported for a buffer; "twice" is absorbing.
Told == {"none", "Complete", "Aborted", "twice"}
Tell(told, b, status) ==
    [told EXCEPT ![b] = IF @ = "none" THEN status ELSE "twice"]

-----------------------------------------------------------------------------
HostViews ==
    [phase : {"idle", "data", "status"}, packet : Packets, notified : BOOLEAN,
     bus : {"off", "reset", "up"}, speed : Speeds, addr : {0, 1}, setups : 0 .. MaxSetups]
ClientViews ==
    [owes : AllRequests \union {"none"}, configured : BOOLEAN, suspended : BOOLEAN,
     speed : Speeds, last : 0 .. MaxSetups]
Histories ==
    [next : 1 .. (MaxXfers + 1), ep : [Buffers -> Eps],
     landed : SUBSET Buffers, told : [Buffers -> Told]]

\* The state is well-formed; in particular the loop of
\* Dwc3ResetNonControlEndpoints never indexes past the endpoint table.
TypeOK ==
    /\ Started \in BOOLEAN /\ RunStop \in BOOLEAN
    /\ Speed \in Speeds /\ LinkState \in LinkStates /\ Suspended \in BOOLEAN
    /\ DevAddr \in {0, 1}
    /\ Endpoints \in EndpointTable
    /\ ep0 \in Ep0Fields
    /\ Messages \in Seq(MessageSet)
    /\ EventBuffer \in Seq(Events)
    /\ pc \in {"client", "events", "config", "pop"}
    /\ Count \in Nat
    /\ Index \in 0 .. NumPhysicalEps
    /\ host \in HostViews
    /\ client \in ClientViews
    /\ xfers \in Histories

IdleHost(h)   == [h EXCEPT !.phase = "idle", !.notified = FALSE]
FreshClient   == [owes |-> "none", configured |-> FALSE, suspended |-> FALSE,
                  speed |-> "unknown", last |-> 0]

\* InitUsbfnDwc3Driver: a zeroed DWC3_DEV, the controller not yet started.
Init ==
    /\ Started = FALSE /\ RunStop = FALSE
    /\ Speed = "unknown" /\ LinkState = 0 /\ Suspended = FALSE /\ DevAddr = 0
    /\ Endpoints = [n \in Eps |-> ZeroEndpoint]
    /\ ep0 = [State |-> "Setup", StatusStarted |-> FALSE, Bounced |-> FALSE,
              BounceTarget |-> NULL, Buffer |-> ZeroPacket, filled |-> NULL,
              SetupPacket |-> ZeroPacket]
    /\ Messages = <<>> /\ EventBuffer = <<>>
    /\ pc = "client" /\ Count = 0 /\ Index = 0
    /\ host = [phase |-> "idle", packet |-> ZeroPacket, notified |-> FALSE,
               bus |-> "off", speed |-> "unknown", addr |-> 0, setups |-> 0]
    /\ client = FreshClient
    /\ xfers = [next |-> 1, ep |-> [b \in Buffers |-> 0], landed |-> {},
                told |-> [b \in Buffers |-> "none"]]

-----------------------------------------------------------------------------
(* Protocol calls other than EventHandler.                                  *)

\* Dwc3StartController with Dwc3CoreInit: the soft reset idles the controller.
StartController ==
    /\ pc = "client" /\ ~Started
    /\ Started' = TRUE
    /\ Endpoints' = [n \in Eps |->
          [Endpoints[n] EXCEPT !.Enabled = FALSE, !.Stalled = FALSE,
                               !.TransferStarted = FALSE, !.run = "idle", !.id = NULL]]
    /\ Speed' = "unknown" /\ LinkState' = 0 /\ Suspended' = FALSE /\ DevAddr' = 0
    /\ ep0' = [ep0 EXCEPT !.State = "Setup"]
    /\ Messages' = <<>> /\ EventBuffer' = <<>>
    /\ UNCHANGED <<RunStop, call, host, client, xfers>>

\* Dwc3StopController with Dwc3CoreExit.  The client forgets what it was told.
StopController ==
    /\ pc = "client" /\ Started /\ "stop" \in ClientMay
    /\ Started' = FALSE /\ RunStop' = FALSE
    /\ Endpoints' = DisableAll(Endpoints)
    /\ Speed' = "unknown"
    /\ Messages' = <<>> /\ EventBuffer' = <<>>
    /\ host' = [IdleHost(host) EXCEPT !.bus = "off", !.addr = 0]
    /\ client' = [FreshClient EXCEPT !.last = client.last]
    /\ UNCHANGED <<LinkState, Suspended, DevAddr, ep0, call, xfers>>

ControlEps == {EP0_OUT, EP0_IN}

\* Dwc3Ep0OutStart leaves E as the table and resets the EP0 state machine.
Ep0OutStart(E) ==
    /\ \E ok \in StartResults(Ep0Ended(E), EP0_OUT) : Endpoints' = Ep0Armed(E, ok)
    /\ ep0' = [ep0 EXCEPT !.State = "Setup", !.StatusStarted = FALSE, !.Bounced = FALSE]

\* Dwc3ConfigureEnableEndpoints, once per start: every endpoint is enabled,
\* EP0 is armed and the controller runs.
ConfigureEnableEndpoints ==
    /\ pc = "client" /\ Started /\ ~RunStop
    /\ Ep0OutStart(EnableEndpoints(Endpoints, ControlEps \union InterfaceEps))
    /\ RunStop' = TRUE
    /\ UNCHANGED <<Started, bus, Messages, EventBuffer, call, host, client, xfers>>

\* It returns at the first endpoint that cannot be configured.
ConfigureFails ==
    /\ pc = "client" /\ Started /\ ~RunStop /\ "config" \in CmdFails
    /\ \E done \in SUBSET (ControlEps \union InterfaceEps) :
          /\ EP0_IN \in done => EP0_OUT \in done
          /\ done \intersect InterfaceEps # {} => EP0_IN \in done
          /\ done # ControlEps \union InterfaceEps
          /\ Endpoints' = EnableEndpoints(Endpoints, done)
    /\ UNCHANGED <<driver, ep0, Messages, EventBuffer, call, host, client, xfers>>

\* Dwc3AbortTransfer.
AbortTransfer(n) ==
    /\ pc = "client" /\ Endpoints[n].Enabled
    /\ n \in Bulk => "abort" \in ClientMay
    /\ n \in ControlEps => "lazy" \in ClientMay
    /\ Endpoints' = [EndTransfer(Endpoints, n) EXCEPT ![n].TransferBuffer = NULL]
    /\ UNCHANGED <<driver, ep0, Messages, EventBuffer, call, host, client, xfers>>

\* Dwc3SetEndpointStallState on a bulk endpoint.
SetEndpointStallState(n, stall) ==
    /\ pc = "client" /\ Endpoints[n].Enabled /\ n \in Bulk /\ "stall" \in ClientMay
    /\ \E ok \in CmdResults("stall") : Endpoints' = SetHalt(Endpoints, n, stall, ok)
    /\ UNCHANGED <<driver, ep0, Messages, EventBuffer, call, host, client, xfers>>

\* Dwc3Ep0StallAndRestart: the host gives its request up, unless SETSTALL failed.
StallAndRestart(E) ==
    /\ Ep0OutStart(Ep0Unstalled(E))
    /\ \E ok \in CmdResults("stall") : host' = IF ok THEN IdleHost(host) ELSE host

\* The same call on EP0: the client rejects the request it was told of.
StallEp0 ==
    /\ pc = "client" /\ Endpoints[EP0_OUT].Enabled
    /\ client.owes # "none" \/ "lazy" \in ClientMay
    /\ StallAndRestart(Endpoints)
    /\ client' = [client EXCEPT !.owes = "none",
                     !.configured = IF client.owes = "SET_CONFIG" THEN FALSE ELSE @]
    /\ UNCHANGED <<driver, Messages, EventBuffer, call, xfers>>

\* Dwc3SetEndpointPolicy(ZeroLengthTermination).
SetEndpointPolicy(n, zlt) ==
    /\ pc = "client" /\ "policy" \in ClientMay /\ n \in Bulk
    /\ Endpoints' = [Endpoints EXCEPT ![n].ZeroLengthTermination = zlt]
    /\ UNCHANGED <<driver, ep0, Messages, EventBuffer, call, host, client, xfers>>

(* Dwc3Transfer.  An accepted transfer gets the next buffer number.         *)

Accepted(n) == [xfers EXCEPT !.next = @ + 1, !.ep[xfers.next] = n]

\* The tail of Dwc3Transfer: on success the endpoint remembers the buffer, on
\* failure it forgets it and nothing is bounced.
BounceFlagUnset(ok, bounced) == FALSE
BounceFlag(ok, bounced) == bounced /\ ok

Submit(E, n, type, ok, bounced) ==
    LET b == xfers.next IN
    /\ Endpoints' = [StartTransfer(E, n, type, b, ok)
                        EXCEPT ![n].TransferBuffer = IF ok THEN b ELSE NULL]
    /\ xfers' = IF ok THEN Accepted(n) ELSE xfers
    /\ ep0' = [ep0 EXCEPT !.Bounced = BounceFlag(ok, bounced),
                          !.BounceTarget = IF bounced THEN b ELSE @]

\* On a bulk endpoint.  Dev->Ep0Bounced is cleared here too (line 543).
TransferBulk(n, aligned) ==
    /\ pc = "client" /\ "bulk" \in ClientMay
    /\ client.configured \/ "eager" \in ClientMay
    /\ Endpoints[n].Enabled /\ ~Endpoints[n].TransferStarted
    /\ xfers.next <= MaxXfers
    /\ \E ok \in StartResults(Endpoints, n) :
          Submit(Endpoints, n, NormalTrb(Endpoints[n], n, aligned), ok, FALSE)
    /\ UNCHANGED <<driver, Messages, EventBuffer, call, host, client>>

\* A client answers the request it was told of before it polls again, unless
\* it is "lazy": then it may call at any time.
Answers(n) ==
    \/ ThreeStage(client.owes) /\ n = DataEp(client.owes)
    \/ "lazy" \in ClientMay

Ep0Accepts(n) ==
    /\ ep0.State = "Data"
    /\ (n = EP0_IN) = ExpectIn(ep0.SetupPacket.req)

\* The data stage of a request; received data goes through the bounce buffer.
TransferEp0(n) ==
    /\ pc = "client" /\ Answers(n) /\ Endpoints[n].Enabled
    /\ Ep0Accepts(n)
    /\ xfers.next <= MaxXfers
    /\ \E ok \in StartResults(EndTransfer(Endpoints, n), n) :
          /\ Submit(EndTransfer(Endpoints, n), n, "data", ok, n = EP0_OUT)
          /\ client' = [client EXCEPT !.owes = IF ok THEN "none" ELSE @]
    /\ UNCHANGED <<driver, Messages, EventBuffer, call, host>>

\* More than the bounce buffer holds: refused after the endpoint was ended.
TransferEp0TooLong ==
    /\ pc = "client" /\ Answers(EP0_OUT) /\ Endpoints[EP0_OUT].Enabled
    /\ "oversize" \in ClientMay /\ Ep0Accepts(EP0_OUT)
    /\ Endpoints' = EndTransfer(Endpoints, EP0_OUT)
    /\ ep0' = [ep0 EXCEPT !.Bounced = FALSE]
    /\ UNCHANGED <<driver, Messages, EventBuffer, call, host, client, xfers>>

\* In any other EP0 state, or in the wrong direction, the call is refused.
TransferEp0Refused(n) ==
    /\ pc = "client" /\ Answers(n) /\ Endpoints[n].Enabled /\ ~Ep0Accepts(n)
    /\ ep0' = [ep0 EXCEPT !.Bounced = FALSE]
    /\ client' = [client EXCEPT !.owes = "none"]
    /\ UNCHANGED <<driver, Endpoints, Messages, EventBuffer, call, host, xfers>>

-----------------------------------------------------------------------------
(* Dwc3EventHandler.                                                        *)

\* Events are processed only when no message is waiting, and only the events
\* GEVNTCOUNT announces now.
EventsToTakeButLast == IF Messages = <<>> /\ Len(EventBuffer) > 1 THEN Len(EventBuffer) ELSE 0
EventsToTake == IF Messages = <<>> THEN Len(EventBuffer) ELSE 0

\* Entry.  A prompt client has answered the request it was told of.
EventHandler ==
    /\ pc = "client" /\ Started
    /\ ThreeStage(client.owes) => "lazy" \in ClientMay
    /\ Count' = EventsToTake
    /\ pc' = IF EventsToTake = 0 THEN "pop" ELSE "events"
    /\ client' = [client EXCEPT !.owes = "none"]
    /\ UNCHANGED <<driver, Endpoints, ep0, Messages, EventBuffer, Index, host, xfers>>

\* Exit: Dwc3PopMessage, and what the client concludes from the message.
Learn(c, m) ==
    CASE m.type = "Setup"   -> [c EXCEPT !.owes = m.packet.req, !.last = m.packet.serial,
                                         !.configured = @ \/ m.packet.req = "SET_CONFIG"]
      [] m.type = "Reset"   -> [c EXCEPT !.configured = FALSE, !.suspended = FALSE]
      [] m.type = "Detach"  -> [c EXCEPT !.configured = FALSE, !.suspended = FALSE,
                                         !.speed = "unknown"]
      [] m.type = "Speed"   -> [c EXCEPT !.speed = m.speed]
      [] m.type = "Suspend" -> [c EXCEPT !.suspended = TRUE]
      [] m.type = "Resume"  -> [c EXCEPT !.suspended = FALSE]
      [] OTHER -> c

PopMessage ==
    /\ pc = "pop"
    /\ pc' = "client" /\ Count' = 0
    /\ IF Messages = <<>>
       THEN UNCHANGED <<Messages, client>>
       ELSE /\ Messages' = Tail(Messages)
            /\ client' = Learn(client, Head(Messages))
    /\ UNCHANGED <<driver, Endpoints, ep0, EventBuffer, Index, host, xfers>>

-----------------------------------------------------------------------------
(* Dwc3ProcessEvents: one event per step.                                   *)

AtEvent(type) == pc = "events" /\ Head(EventBuffer).type = type
EventEp == Head(EventBuffer).ep

\* The event is taken: EventPos and GEVNTCOUNT advance.
EventsLeft == Tail(EventBuffer)

\* The loop takes the event, and stops once there is a message or the events
\* counted at entry are used up.
NextEvent(q) ==
    /\ EventBuffer' = EventsLeft
    /\ Messages' = q
    /\ Count' = Count - 1
    /\ pc' = IF q # <<>> \/ Count = 1 THEN "pop" ELSE "events"
    /\ UNCHANGED Index

\* Dwc3HandleEpEvent on a bulk endpoint: a completion counts only if a
\* transfer is outstanding and the controller has released its TRB.
ReportsIdle(e)  == ~e.Trb.hwo
ReportsOwned(e) == e.TransferStarted
Reports(e) == e.TransferStarted /\ ~e.Trb.hwo

ResultStatusAlways(err) == "Complete"
ResultStatus(err) == IF err THEN "Aborted" ELSE "Complete"

BulkTaken(E, n) ==
    [E EXCEPT ![n] = [@ EXCEPT !.TransferStarted = FALSE, !.ResourceIndex = 0,
                               !.TransferBuffer = NULL]]

BulkComplete ==
    /\ AtEvent("complete") /\ EventEp \in Bulk
    /\ IF Reports(Endpoints[EventEp])
       THEN LET status == ResultStatus(Head(EventBuffer).err) IN
            /\ Endpoints' = BulkTaken(Endpoints, EventEp)
            /\ NextEvent(PushMessage(Messages, TransferResult(Endpoints, EventEp, status)))
            /\ xfers' = [xfers EXCEPT !.told = Tell(@, Endpoints[EventEp].TransferBuffer, status)]
       ELSE /\ NextEvent(Messages)
            /\ UNCHANGED <<Endpoints, xfers>>
    /\ UNCHANGED <<driver, ep0, host, client>>

Ep0Complete(state) ==
    /\ AtEvent("complete") /\ EventEp \in ControlEps /\ ep0.State = state

Ep0Taken == [Endpoints EXCEPT ![EventEp].TransferStarted = FALSE]

\* Dwc3Ep0HandleSetup.  SET_ADDRESS is handled here and not passed on.
SetupAddress ==
    /\ Ep0Complete("Setup") /\ ep0.Buffer.req = "SET_ADDRESS"
    /\ Endpoints' = Ep0Taken
    /\ DevAddr' = 1
    /\ ep0' = [ep0 EXCEPT !.SetupPacket = ep0.Buffer, !.State = "Status"]
    /\ NextEvent(Messages)
    /\ UNCHANGED <<Started, RunStop, Speed, LinkState, Suspended, host, client, xfers>>

\* SET_CONFIG (and SET_INTERFACE) reset the bulk endpoints first.
SetupConfig ==
    /\ Ep0Complete("Setup") /\ ep0.Buffer.req = "SET_CONFIG"
    /\ Endpoints' = Ep0Taken
    /\ ep0' = [ep0 EXCEPT !.SetupPacket = ep0.Buffer]
    /\ EventBuffer' = EventsLeft
    /\ Count' = Count - 1
    /\ pc' = "config" /\ Index' = EP0_IN + 1
    /\ UNCHANGED <<driver, Messages, host, client, xfers>>

\* Dwc3ResetNonControlEndpoints, one endpoint: a transfer in progress is
\* ended and reported as aborted, the endpoint is configured afresh.
ResetNonControlEndpoint ==
    /\ pc = "config" /\ Index < NumPhysicalEps
    /\ \E ok \in CmdResults("config") : Endpoints' = Reconfigure(Endpoints, Index, ok)
    /\ IF AbortsTransfer(Endpoints, Index)
       THEN /\ Messages' = PushMessage(Messages, TransferResult(Endpoints, Index, "Aborted"))
            /\ xfers' = [xfers EXCEPT !.told = Tell(@, Endpoints[Index].TransferBuffer, "Aborted")]
       ELSE UNCHANGED <<Messages, xfers>>
    /\ Index' = Index + 1
    /\ UNCHANGED <<driver, ep0, EventBuffer, pc, Count, host, client>>

AfterSetup(p) == IF ThreeStage(p.req) THEN "Data" ELSE "Status"

\* The rest of Dwc3Ep0HandleSetup after the loop.
IndexRunsOn == Index + 1
IndexAfterLoop == 0

\* There is a message now, so Dwc3ProcessEvents takes no further event.
RunsOn == IF Count = 0 THEN "pop" ELSE "events"
AfterConfig == "pop"

ConfigDone ==
    /\ pc = "config" /\ Index = NumPhysicalEps
    /\ ep0' = [ep0 EXCEPT !.State = AfterSetup(ep0.SetupPacket)]
    /\ Messages' = PushMessage(Messages, SetupMessage(ep0.SetupPacket))
    /\ pc' = AfterConfig /\ Index' = IndexAfterLoop
    /\ UNCHANGED <<driver, Endpoints, EventBuffer, Count, host, client, xfers>>

SetupPassed ==
    /\ Ep0Complete("Setup") /\ ep0.Buffer.req \notin {"SET_ADDRESS", "SET_CONFIG"}
    /\ Endpoints' = Ep0Taken
    /\ ep0' = [ep0 EXCEPT !.SetupPacket = ep0.Buffer, !.State = AfterSetup(ep0.Buffer)]
    /\ NextEvent(PushMessage(Messages, SetupMessage(ep0.Buffer)))
    /\ UNCHANGED <<driver, host, client, xfers>>

\* The data stage is over.  Bounced data is copied to the client's buffer now.
Ep0DataComplete ==
    /\ Ep0Complete("Data")
    /\ LET b == Endpoints[EventEp].TransferBuffer
           copied == IF ep0.Bounced /\ ep0.filled = ep0.BounceTarget
                     THEN {ep0.BounceTarget} ELSE {}
       IN  /\ xfers' = [xfers EXCEPT !.landed = @ \union copied,
                                     !.told = Tell(@, b, "Complete")]
           /\ Endpoints' = [Ep0Taken EXCEPT ![EventEp].TransferBuffer = NULL]
           /\ NextEvent(PushMessage(Messages, TransferResult(Endpoints, EventEp, "Complete")))
    /\ ep0' = [ep0 EXCEPT !.Bounced = FALSE]
    /\ UNCHANGED <<driver, host, client>>

\* The status stage is over: EP0 is armed for the next SETUP packet.
Ep0StatusComplete ==
    /\ Ep0Complete("Status")
    /\ Ep0OutStart(Ep0Taken)
    /\ NextEvent(Messages)
    /\ UNCHANGED <<driver, host, client, xfers>>

\* XFERNOTREADY in the data phase: only the wrong direction is acted upon.
Ep0DataNotReady ==
    /\ AtEvent("data") /\ EventEp \in ControlEps
    /\ LET expected == ExpectIn(ep0.SetupPacket.req) IN
       IF (EventEp = EP0_IN) # expected
       THEN StallAndRestart(EndTransfer(Endpoints, IF expected THEN EP0_IN ELSE EP0_OUT))
       ELSE UNCHANGED <<Endpoints, ep0, host>>
    /\ NextEvent(Messages)
    /\ UNCHANGED <<driver, client, xfers>>

\* XFERNOTREADY in the status phase: Dwc3Ep0StartStatus, at most once per request.
StartsStatusOnlyThen == ~ep0.StatusStarted /\ ep0.State = "Status"
StartsStatus == ~ep0.StatusStarted /\ ep0.State # "Setup"

Ep0StatusNotReady ==
    /\ AtEvent("status") /\ EventEp \in ControlEps
    /\ IF StartsStatus
       THEN /\ \E ok \in StartResults(EndTransfer(Endpoints, EventEp), EventEp) :
                  Endpoints' = StartTransfer(EndTransfer(Endpoints, EventEp), EventEp,
                                             "status", NULL, ok)
            /\ ep0' = [ep0 EXCEPT !.State = "Status", !.StatusStarted = TRUE]
       ELSE UNCHANGED <<Endpoints, ep0>>
    /\ NextEvent(Messages)
    /\ UNCHANGED <<driver, host, client, xfers>>

IgnoredEvent ==
    /\ AtEvent("other")
    /\ NextEvent(Messages)
    /\ UNCHANGED <<driver, Endpoints, ep0, host, client, xfers>>

-----------------------------------------------------------------------------
(* Dwc3HandleDeviceEvent.                                                   *)

BusDisconnect ==
    /\ AtEvent("disconnect")
    /\ Speed' = "unknown"
    /\ NextEvent(PushMessage(Messages, BusMessage("Detach")))
    /\ UNCHANGED <<Started, RunStop, LinkState, Suspended, DevAddr, Endpoints, ep0,
                   host, client, xfers>>

\* RESET clears the device address.
AddressKept == DevAddr
AddressAfterReset == 0

BusReset ==
    /\ AtEvent("reset")
    /\ \E F \in ClearStallFailures : Endpoints' = ResetTable(Endpoints, F)
    /\ DevAddr' = AddressAfterReset /\ LinkState' = 0 /\ Suspended' = FALSE
    /\ ep0' = [ep0 EXCEPT !.State = "Setup", !.StatusStarted = FALSE, !.Bounced = FALSE]
    /\ NextEvent(PushMessage(Messages, BusMessage("Reset")))
    /\ UNCHANGED <<Started, RunStop, Speed, host, client, xfers>>

\* CONNECT_DONE: the speed is read from DSTS, bulk endpoints are configured
\* afresh, and EP0 is re-armed if no EP0 OUT transfer is outstanding.
Ep0Rearm == ~Endpoints[EP0_OUT].TransferStarted

BusConnectDone ==
    /\ AtEvent("connect")
    /\ Speed' = host.speed
    /\ LET enable == {n \in Bulk : Endpoints[n].Enabled}
                     \union (IF Ep0Rearm THEN ControlEps ELSE {})
       IN  \E S \in ConfigOutcomes(enable) :
              IF Ep0Rearm
              THEN Ep0OutStart(EnableEndpoints(Endpoints, S))
              ELSE /\ Endpoints' = EnableEndpoints(Endpoints, S)
                   /\ UNCHANGED ep0
    /\ NextEvent(PushMessage(Messages, SpeedMessage(host.speed)))
    /\ UNCHANGED <<Started, RunStop, LinkState, Suspended, DevAddr, host, client, xfers>>

SuspendState(speed, link) == IF speed = "super" THEN link = 3 ELSE link \in {3, 5}

\* A change of the suspend state is told to the client.
SuspendMessagesOnly(suspended) ==
    IF suspended /\ ~Suspended THEN PushMessage(Messages, BusMessage("Suspend")) ELSE Messages
SuspendMessages(suspended) ==
    IF suspended # Suspended
    THEN PushMessage(Messages, BusMessage(IF suspended THEN "Suspend" ELSE "Resume"))
    ELSE Messages

LinkStatusChange ==
    /\ AtEvent("link")
    /\ LET link == Head(EventBuffer).link
           suspended == IF link = LinkState THEN Suspended ELSE SuspendState(Speed, link)
       IN  /\ LinkState' = link
           /\ Suspended' = suspended
           /\ NextEvent(SuspendMessages(suspended))
    /\ UNCHANGED <<Started, RunStop, Speed, DevAddr, Endpoints, ep0, host, client, xfers>>

Wakeup ==
    /\ AtEvent("wakeup")
    /\ NextEvent(PushMessage(Messages, BusMessage("Resume")))
    /\ UNCHANGED <<driver, Endpoints, ep0, host, client, xfers>>

-----------------------------------------------------------------------------
(* The controller and the host (external).  They act while the controller   *)
(* runs and the event buffer has room (MaxEvents).                          *)

HwReady == RunStop /\ Len(EventBuffer) < MaxEvents

Raise(e) == EventBuffer' = Append(EventBuffer, e)

\* The payload of a chained bulk transfer is out; no event yet.
HwPayload(n) ==
    /\ RunStop /\ Endpoints[n].run = "chained"
    /\ Endpoints' = PayloadMoved(Endpoints, n)
    /\ xfers' = [xfers EXCEPT !.landed = @ \union {Endpoints[n].id}]
    /\ UNCHANGED <<driver, ep0, Messages, EventBuffer, call, host, client>>

\* A bulk transfer ends, with its payload moved or (err) on a bus error.
HwComplete(n, err) ==
    /\ HwReady /\ Endpoints[n].run \in {"normal", "zlp"}
    /\ err => "buserr" \in HostMay /\ Endpoints[n].run = "normal"
    /\ Endpoints' = Completed(Endpoints, n)
    /\ xfers' = [xfers EXCEPT !.landed = IF err THEN @ ELSE @ \union {Endpoints[n].id}]
    /\ Raise([Event("complete", n) EXCEPT !.err = err])
    /\ UNCHANGED <<driver, ep0, Messages, call, host, client>>

\* A SETUP packet lands in the EP0 buffer.
HostSetup(r) ==
    /\ HwReady /\ host.bus = "up" /\ host.phase = "idle"
    /\ host.setups < MaxSetups
    /\ Endpoints[EP0_OUT].run = "setup"
    /\ LET p == [req |-> r, serial |-> host.setups + 1] IN
       /\ host' = [host EXCEPT !.phase = IF ThreeStage(r) THEN "data" ELSE "status",
                               !.packet = p, !.notified = FALSE, !.setups = @ + 1]
       /\ ep0' = [ep0 EXCEPT !.Buffer = p, !.filled = NULL]
    /\ Endpoints' = Completed(Endpoints, EP0_OUT)
    /\ Raise(Event("complete", EP0_OUT))
    /\ UNCHANGED <<driver, Messages, call, client, xfers>>

HostReq == host.packet.req

\* The host asks for the data stage before a TRB is there (or, "wrongdir", in
\* the direction its own SETUP packet did not announce).
HostDataNotReady(n) ==
    /\ HwReady /\ host.phase = "data" /\ ~host.notified
    /\ n \in ControlEps
    /\ n # DataEp(HostReq) => "wrongdir" \in HostMay
    /\ n = DataEp(HostReq) => Endpoints[n].run # "data"
    /\ host' = [host EXCEPT !.notified = TRUE]
    /\ Raise(Event("data", n))
    /\ UNCHANGED <<driver, Endpoints, ep0, Messages, call, client, xfers>>

\* The data stage takes place.  Received bytes overwrite the EP0 buffer: read
\* as a SETUP packet they could be any request.
HostData ==
    /\ HwReady /\ host.phase = "data"
    /\ LET n == DataEp(HostReq) IN
       /\ Endpoints[n].run = "data"
       /\ Endpoints' = Completed(Endpoints, n)
       /\ Raise(Event("complete", n))
       /\ IF n = EP0_OUT
          THEN /\ \E r \in Requests :
                    ep0' = [ep0 EXCEPT !.Buffer = [req |-> r, serial |-> 0],
                                       !.filled = Endpoints[n].id]
               /\ UNCHANGED xfers
          ELSE /\ xfers' = [xfers EXCEPT !.landed = @ \union {Endpoints[n].id}]
               /\ UNCHANGED ep0
    /\ host' = [host EXCEPT !.phase = "status", !.notified = FALSE]
    /\ UNCHANGED <<driver, Messages, call, client>>

\* A host may skip the rest of an IN data stage.
HostEarlyStatus ==
    /\ RunStop /\ "early" \in HostMay
    /\ host.phase = "data" /\ ExpectIn(HostReq)
    /\ host' = [host EXCEPT !.phase = "status", !.notified = FALSE]
    /\ UNCHANGED <<driver, Endpoints, ep0, Messages, EventBuffer, call, client, xfers>>

HostStatusNotReady ==
    /\ HwReady /\ host.phase = "status" /\ ~host.notified
    /\ Endpoints[StatusEp(HostReq)].run # "status"
    /\ host' = [host EXCEPT !.notified = TRUE]
    /\ Raise(Event("status", StatusEp(HostReq)))
    /\ UNCHANGED <<driver, Endpoints, ep0, Messages, call, client, xfers>>

HostStatus ==
    /\ HwReady /\ host.phase = "status"
    /\ LET n == StatusEp(HostReq) IN
       /\ Endpoints[n].run = "status"
       /\ Endpoints' = Completed(Endpoints, n)
       /\ Raise(Event("complete", n))
    /\ host' = [IdleHost(host) EXCEPT !.addr = IF HostReq = "SET_ADDRESS" THEN 1 ELSE @]
    /\ UNCHANGED <<driver, ep0, Messages, call, client, xfers>>

\* Bus reset, then CONNECT_DONE; the first reset follows the attach.
HostReset ==
    /\ HwReady
    /\ host.bus = "off" \/ "reset" \in HostMay
    /\ host' = [IdleHost(host) EXCEPT !.bus = "reset", !.addr = 0]
    /\ Raise(Event("reset", EP0_OUT))
    /\ UNCHANGED <<driver, Endpoints, ep0, Messages, call, client, xfers>>

HostConnectDone(s) ==
    /\ HwReady /\ host.bus = "reset"
    /\ host' = [host EXCEPT !.bus = "up", !.speed = s]
    /\ Raise(Event("connect", EP0_OUT))
    /\ UNCHANGED <<driver, Endpoints, ep0, Messages, call, client, xfers>>

HostDisconnect ==
    /\ HwReady /\ host.bus = "up" /\ "disconnect" \in HostMay
    /\ host' = [IdleHost(host) EXCEPT !.bus = "off", !.addr = 0]
    /\ Raise(Event("disconnect", EP0_OUT))
    /\ UNCHANGED <<driver, Endpoints, ep0, Messages, call, client, xfers>>

\* Link state changes and remote wakeups are reported as they happen.
HostLink(e) ==
    /\ HwReady /\ "link" \in HostMay
    /\ Raise(e)
    /\ UNCHANGED <<driver, Endpoints, ep0, Messages, call, host, client, xfers>>

HwOther(n) ==
    /\ HwReady /\ "other" \in HostMay
    /\ Raise(Event("other", n))
    /\ UNCHANGED <<driver, Endpoints, ep0, Messages, call, host, client, xfers>>

-----------------------------------------------------------------------------
ClientCall ==
    \/ StartController \/ StopController
    \/ ConfigureEnableEndpoints \/ ConfigureFails
    \/ \E n \in Eps : AbortTransfer(n)
    \/ \E n \in Bulk, b \in BOOLEAN : SetEndpointStallState(n, b)
    \/ StallEp0
    \/ \E n \in Bulk, b \in BOOLEAN : SetEndpointPolicy(n, b)
    \/ \E n \in Bulk, aligned \in BOOLEAN : TransferBulk(n, aligned)
    \/ \E n \in ControlEps : TransferEp0(n)
    \/ TransferEp0TooLong
    \/ \E n \in ControlEps : TransferEp0Refused(n)

EndpointEvent ==
    \/ BulkComplete \/ SetupAddress \/ SetupConfig \/ SetupPassed
    \/ Ep0DataComplete \/ Ep0StatusComplete
    \/ Ep0DataNotReady \/ Ep0StatusNotReady \/ IgnoredEvent

DeviceEvent ==
    \/ BusDisconnect \/ BusReset \/ BusConnectDone \/ LinkStatusChange \/ Wakeup

\* What one EventHandler call consists of.
Poll ==
    \/ EventHandler \/ EndpointEvent \/ DeviceEvent
    \/ ResetNonControlEndpoint \/ ConfigDone \/ PopMessage

ControlPipe ==
    \/ \E r \in Requests : HostSetup(r)
    \/ \E n \in ControlEps : HostDataNotReady(n)
    \/ HostData \/ HostEarlyStatus \/ HostStatusNotReady \/ HostStatus

Environment ==
    \/ ControlPipe
    \/ \E n \in Bulk : HwPayload(n)
    \/ \E n \in Bulk, err \in BOOLEAN : HwComplete(n, err)
    \/ HostReset \/ HostDisconnect
    \/ \E s \in HostSpeeds : HostConnectDone(s)
    \/ \E l \in LinkStates : HostLink([Event("link", EP0_OUT) EXCEPT !.link = l])
    \/ HostLink(Event("wakeup", EP0_OUT))
    \/ \E n \in Eps : HwOther(n)

Next == ClientCall \/ Poll \/ Environment

Spec == Init /\ [][Next]_vars

-----------------------------------------------------------------------------
(* Safety.                                                                  *)

\* Between calls, with no event left to process and no message to fetch.
Quiescent == pc = "client" /\ Messages = <<>> /\ EventBuffer = <<>>

\* RESET left EP0 OUT with a data or status TRB while the state machine went
\* back to Setup (line 749 does not re-arm an EP0 OUT that looks busy).
Ep0CutOff ==
    /\ ep0.State = "Setup"
    /\ Endpoints[EP0_OUT].TransferStarted
    /\ Endpoints[EP0_OUT].run # "setup"

\* Dwc3PushMessage never meets a full ring: whenever a step may push, a slot
\* is free.  So no completion and no bus event is dropped.
NoMessageDropped ==
    pc \in {"events", "config"} => Len(Messages) < MessageDepth - 1

\* A buffer is reported at most once and no result of a bulk endpoint carries a
\* NULL buffer, whatever stale events are left from transfers that were aborted.
ReportedOnce ==
    /\ \A b \in Buffers \ {NULL} : xfers.told[b] # "twice"
    /\ \A i \in 1 .. Len(Messages) :
          Messages[i].type = "Result" /\ Messages[i].ep \in Bulk => Messages[i].buffer # NULL

\* A bulk result that says Complete names a transfer whose payload has really
\* been moved, whatever stale events aborted transfers have left behind.
CompleteIsTrue ==
    \A b \in Buffers :
        xfers.told[b] = "Complete" /\ xfers.ep[b] \in Bulk => b \in xfers.landed

\* Data of a control request reported Complete went to the host, or is in the
\* client's buffer: "this is the buffer in which to return the received data"
\* (EFIUsbfnIo.h:635).
ControlDataMoved ==
    \A b \in Buffers :
        xfers.told[b] = "Complete" /\ xfers.ep[b] \in ControlEps => b \in xfers.landed

\* A transfer the driver waits for is still in the controller, or its event is
\* still in the buffer; and the controller runs no bulk transfer the driver
\* has forgotten.
Outstanding(n) == Endpoints[n].TransferStarted
NoLostCompletion ==
    \A n \in Bulk :
        /\ Outstanding(n) /\ Endpoints[n].run = "idle" =>
              \E i \in 1 .. Len(EventBuffer) :
                 EventBuffer[i].type = "complete" /\ EventBuffer[i].ep = n
        /\ Endpoints[n].run # "idle" => Outstanding(n)

\* The TRB the controller is executing is the one the driver wrote for it:
\* EP0 IN never clears or overwrites the armed SETUP TRB they share.
TrbIntact ==
    \A n \in Eps :
        Endpoints[n].run \in TrbTypes /\ ~(n = EP0_OUT /\ Ep0CutOff) =>
            TrbOf(Endpoints, n) = [type |-> Endpoints[n].run, hwo |-> TRUE]

\* Once the bus is up and everything is handled, a host with no request in
\* progress finds EP0 armed for its next SETUP packet.
Ep0Ready ==
    Quiescent /\ host.bus = "up" /\ host.phase = "idle" /\ ~Ep0CutOff
        => Endpoints[EP0_OUT].run = "setup" /\ Endpoints[EP0_IN].run = "idle"

\* The address in DCFG is the one the host will use next.
AddressAgrees ==
    Quiescent /\ host.bus = "up" /\ host.phase = "idle" => DevAddr = host.addr

\* A client that has read every message knows the speed, and never believes
\* the bus suspended when the driver does not.
ClientView ==
    Quiescent => client.speed = Speed /\ (client.suspended => Suspended)

\* A stopped driver leaves no transfer behind in the controller, which could
\* write to memory that was freed meanwhile.
StoppedQuiet == ~Started => \A n \in Eps : Endpoints[n].run = "idle"

\* The client receives each SETUP packet at most once and in the host's order.
SetupOrder ==
    [][pc = "pop" /\ pc' = "client" /\ Messages # <<>> /\ Head(Messages).type = "Setup"
          => Head(Messages).packet.serial > client.last]_vars

-----------------------------------------------------------------------------
(* Liveness.  The client polls ("EventHandler is called repeatedly") and    *)
(* answers the requests it is told of; the host carries its request on.     *)

ClientAnswer == StallEp0 \/ \E n \in ControlEps : TransferEp0(n)
HostProgress == HostData \/ HostStatusNotReady \/ HostStatus

Fairness ==
    /\ WF_vars(Poll)
    /\ WF_vars(ClientAnswer)
    /\ WF_vars(HostProgress)

FairSpec == Spec /\ Fairness

\* Every control request comes to its end: completed, stalled, or cut off by a
\* reset or disconnect.  No order of events leaves host and device waiting for
\* each other.
ControlCompletes == host.phase # "idle" ~> host.phase = "idle"

\* A bulk transfer the controller has finished, its zero-length packet included,
\* is eventually reported, unless the endpoint gave the buffer up before.
CompletionReported ==
    \A b \in Buffers \ {NULL} :
        (b \in xfers.landed /\ Endpoints[xfers.ep[b]].id # b) ~>
            (xfers.told[b] # "none" \/ Endpoints[xfers.ep[b]].TransferBuffer # b)

=============================================================================
