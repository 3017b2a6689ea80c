---------------------------- MODULE Dwc3Endpoint ----------------------------
(***************************************************************************)
(* The endpoint table of the Samsung DWC3 USB function driver and the      *)
(* operations of Dwc3Endpoint.c on it, as operators from tables to tables. *)
(* An entry holds the fields of DWC3_ENDPOINT that the control flow reads, *)
(* the first TRB of its pool, and (run, id) the transfer the controller    *)
(* itself is executing on the endpoint: the controller is not under src/,  *)
(* it is modelled from the commands and the events the driver relies on.   *)
(*                                                                         *)
(* Physical endpoint 2k is OUT (received by the device), 2k+1 is IN.       *)
(* EP0 OUT and EP0 IN share one TRB pool, kept in the entry of EP0 OUT.    *)
(* Buffers are numbered by the transfer they were passed to; 0 is NULL.    *)
(***************************************************************************)
EXTENDS Naturals

CONSTANTS
    NumPhysicalEps,   \* Dev->NumPhysicalEps
    MaxXfers,         \* bound: transfers the client starts
    CmdFails          \* endpoint commands that may fail: "config", "start", "stall"

ASSUME EndpointAssumption ==
    /\ NumPhysicalEps \in Nat /\ NumPhysicalEps >= 3
    /\ MaxXfers \in Nat
    /\ CmdFails \subseteq {"config", "start", "stall"}

Eps     == 0 .. (NumPhysicalEps - 1)
EP0_OUT == 0
EP0_IN  == 1
Bulk    == 2 .. (NumPhysicalEps - 1)
IsIn(n) == n % 2 = 1

Buffers == 0 .. MaxXfers
NULL    == 0

\* What the controller executes: "chained" is a TRB with a zero-length packet
\* chained behind it, "zlp" that packet once the payload has been moved.
TrbTypes == {"setup", "data", "status", "normal", "chained"}
RunTypes == TrbTypes \union {"idle", "zlp"}
Trbs     == [type : TrbTypes \union {"none"}, hwo : BOOLEAN]
ZeroTrb  == [type |-> "none", hwo |-> FALSE]

Endpoint ==
    [Enabled : BOOLEAN, Stalled : BOOLEAN, TransferStarted : BOOLEAN,
     ResourceIndex : {0, 1}, TransferBuffer : Buffers,
     ZeroLengthTermination : BOOLEAN, Trb : Trbs, run : RunTypes, id : Buffers]

EndpointTable == [Eps -> Endpoint]

\* AllocateZeroPool leaves every field zero.
ZeroEndpoint ==
    [Enabled |-> FALSE, Stalled |-> FALSE, TransferStarted |-> FALSE,
     ResourceIndex |-> 0, TransferBuffer |-> NULL,
     ZeroLengthTermination |-> FALSE, Trb |-> ZeroTrb, run |-> "idle", id |-> NULL]

Pool(n)     == IF n = EP0_IN THEN EP0_OUT ELSE n
TrbOf(E, n) == E[Pool(n)].Trb

-----------------------------------------------------------------------------
(* Dwc3EndTransfer.  Without a resource index nothing is sent to the        *)
(* controller; with one, ENDTRANSFER stops it and both TRBs are cleared.    *)

Ended(e) ==
    IF e.ResourceIndex = 0
    THEN [e EXCEPT !.TransferStarted = FALSE]
    ELSE [e EXCEPT !.TransferStarted = FALSE, !.ResourceIndex = 0,
                   !.Trb = ZeroTrb, !.run = "idle", !.id = NULL]

EndTransfer(E, n) ==
    IF n = EP0_IN /\ E[n].ResourceIndex # 0
    THEN [E EXCEPT ![EP0_IN] = Ended(@), ![EP0_OUT].Trb = ZeroTrb]
    ELSE [E EXCEPT ![n] = Ended(@)]

(* Dwc3StartTransfer.  The controller refuses STARTTRANSFER on an endpoint  *)
(* that is still executing; the second and third attempt first end the old  *)
(* transfer, which works only if its resource index is known.               *)

Startable(E, n) == E[n].run = "idle" \/ E[n].ResourceIndex # 0

\* A command of kind c may fail only if CmdFails says so.
CmdResults(c) == IF c \in CmdFails THEN BOOLEAN ELSE {TRUE}
StartResults(E, n) == IF Startable(E, n) THEN CmdResults("start") ELSE {FALSE}

\* What a successful STARTTRANSFER records, and what the controller now runs.
Running(e, type, id) ==
    [e EXCEPT !.ResourceIndex = 1, !.TransferStarted = TRUE, !.run = type, !.id = id]

WithTrb(E, n, trb) == [E EXCEPT ![Pool(n)].Trb = trb]

StartTransfer(E, n, type, id, ok) ==
    IF ok
    THEN [WithTrb(EndTransfer(E, n), n, [type |-> type, hwo |-> TRUE])
             EXCEPT ![n] = Running(@, type, id)]
    ELSE WithTrb(EndTransfer(E, n), n, ZeroTrb)

\* NeedZlp: a full-packet payload on an IN bulk endpoint that asks for it.
NormalTrb(e, n, aligned) ==
    IF e.ZeroLengthTermination /\ IsIn(n) /\ aligned THEN "chained" ELSE "normal"

(* Dwc3EnableEndpoint with Modify = FALSE, when SETEPCONFIG succeeds; with  *)
(* Modify, or when the command fails, none of the modelled fields change.   *)
(* The ring of a bulk endpoint is wiped, the shared EP0 ring is not.        *)

EnabledEndpoint(e, n) ==
    [e EXCEPT !.Enabled = TRUE, !.Stalled = FALSE, !.TransferStarted = FALSE,
              !.ResourceIndex = 0, !.Trb = IF n \in Bulk THEN ZeroTrb ELSE @]

EnableEndpoints(E, S) ==
    [n \in Eps |-> IF n \in S THEN EnabledEndpoint(E[n], n) ELSE E[n]]

\* Any set of the SETEPCONFIG commands sent to S may fail.
ConfigOutcomes(S) == IF "config" \in CmdFails THEN SUBSET S ELSE {S}

(* Dwc3DisableEndpoint, for every endpoint as Dwc3StopController calls it.  *)

DisabledNotEnded(e) == [e EXCEPT !.Enabled = FALSE, !.TransferStarted = FALSE]
DisabledEndpoint(e) ==
    IF e.Enabled
    THEN [Ended(e) EXCEPT !.Enabled = FALSE, !.TransferBuffer = NULL]
    ELSE e

DisableAll(E) ==
    [n \in Eps |->
        IF n = EP0_OUT /\ E[EP0_IN].Enabled /\ E[EP0_IN].ResourceIndex # 0
        THEN [DisabledEndpoint(E[n]) EXCEPT !.Trb = ZeroTrb]
        ELSE DisabledEndpoint(E[n])]

(* Dwc3SetHalt: Stalled follows the command only if it succeeded.           *)

SetHalt(E, n, stall, ok) == [E EXCEPT ![n].Stalled = IF ok THEN stall ELSE @]

(* Dwc3Ep0OutStart: both directions are ended, then a SETUP TRB is armed.   *)

Ep0EndedOutOnly(E) == EndTransfer(E, EP0_OUT)
Ep0Ended(E) == EndTransfer(EndTransfer(E, EP0_IN), EP0_OUT)

Ep0Armed(E, ok) == StartTransfer(Ep0Ended(E), EP0_OUT, "setup", NULL, ok)

\* Dwc3Ep0StallAndRestart clears both Stalled flags whatever SetHalt did.
Ep0Unstalled(E) == [E EXCEPT ![EP0_OUT].Stalled = FALSE, ![EP0_IN].Stalled = FALSE]

(* The RESET event: halts are cleared, every enabled bulk endpoint is ended *)
(* and forgets its buffer, EP0 IN is ended, EP0 OUT is left as it is.       *)

ResetEndpoint(e, n, halted) ==
    LET cleared == IF e.Enabled /\ ~halted THEN [e EXCEPT !.Stalled = FALSE] ELSE e
    IN  IF n \in Bulk /\ e.Enabled
        THEN [Ended(cleared) EXCEPT !.TransferBuffer = NULL]
        ELSE cleared

\* The endpoints in F are those whose CLEARSTALL failed.
HaltsAndBulkReset(E, F) == [n \in Eps |-> ResetEndpoint(E[n], n, n \in F)]
ResetTable(E, F) == EndTransfer(HaltsAndBulkReset(E, F), EP0_IN)

ClearStallFailures == IF "stall" \in CmdFails THEN SUBSET Eps ELSE {{}}

(* One round of the loop of Dwc3ResetNonControlEndpoints.                   *)

AbortsNothing(E, n) == FALSE
AbortsTransfer(E, n) == E[n].Enabled /\ E[n].TransferStarted

Reconfigure(E, n, ok) ==
    LET ended == IF AbortsTransfer(E, n)
                 THEN [Ended(E[n]) EXCEPT !.TransferBuffer = NULL]
                 ELSE E[n]
    IN  [E EXCEPT ![n] = IF @.Enabled /\ ok THEN EnabledEndpoint(ended, n) ELSE ended]

-----------------------------------------------------------------------------
(* The controller's own steps on a transfer (external).                     *)

\* It writes the TRB back, giving up ownership, and goes idle.
Released(e) == [e EXCEPT !.Trb.hwo = FALSE]
Idled(e)    == [e EXCEPT !.run = "idle", !.id = NULL]

Completed(E, n) == [[E EXCEPT ![Pool(n)] = Released(@)] EXCEPT ![n] = Idled(@)]

\* The payload of a chained transfer is moved; its zero-length packet is left.
PayloadMoved(E, n) == [E EXCEPT ![n] = [Released(@) EXCEPT !.run = "zlp"]]

=============================================================================
